\* The built system: no system clock, a host that types and takes.
SPECIFICATION Spec
CONSTANTS
    BUF_LEN = 3
    FIFO_DEPTH = 2
    THRESHOLD = 1
    DEFAULT_TIMEOUT = 2
    INT_MAX = 6
    HasClock = FALSE
    Counts = {0, 1, 3}
    Timeouts = {0}
    MaxSent = 5
    MaxTyped = 4
INVARIANTS TxStream RxStream TxArmed RxArmed BlockingComplete
PROPERTIES InterruptHeld TxImplementsStream RxImplementsStream
