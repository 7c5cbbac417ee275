\* The image, whose push button mask keeps its reset value, and beside it a
\* firmware that would let both buttons interrupt.
SPECIFICATION LiveSpec
CONSTANTS
    Buttons = {0, 1}
    IrqMasks = {{}, {0, 1}}
    LED_WIDTH = 3
    RING = 1
    MaxTyped = 2
INVARIANTS HandlerFound SourceFound TableQuiet OneLed
PROPERTIES UartServed SwitchesShown
