\* A build with a system clock: the alarm counts inactive ticks.
SPECIFICATION ClockSpec
CONSTANTS
    BUF_LEN = 2
    FIFO_DEPTH = 2
    THRESHOLD = 1
    DEFAULT_TIMEOUT = 2
    INT_MAX = 5
    HasClock = TRUE
    Counts = {2}
    Timeouts = {0}
    MaxSent = 3
    MaxTyped = 2
INVARIANTS LongTimeoutNeverExpires
PROPERTIES OfflineReturns
