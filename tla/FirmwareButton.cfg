\* The image, and what main says of the button's interrupt.
SPECIFICATION LiveSpec
CONSTANTS
    Buttons = {0, 1}
    IrqMasks = {{}}
    LED_WIDTH = 3
    RING = 1
    MaxTyped = 0
PROPERTIES ButtonServiced
