SPECIFICATION LiveSpec
CONSTANTS
    BUF_LEN = 3
    FIFO_DEPTH = 3
    THRESHOLD = 1
    DEFAULT_TIMEOUT = 2
    INT_MAX = 6
    HasClock = FALSE
    Counts = {1, 3}
    Timeouts = {0}
    MaxSent = 4
    MaxTyped = 2
PROPERTIES TxDelivers SendersReturn ReaderWakes
