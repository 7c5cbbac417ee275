\* Profiling: two functions in one bucket, called from two places.  The
\* cache: three lines of memory for two sets.  The other parts: the
\* arithmetic in few bits, operands of each kind of register, and every
\* satellite's code.
SPECIFICATION Spec
CONSTANTS
    Functions = {f, g}
    Callers = {x, y}
    WORD = 2
    RECORD = 2
    SLAB = 4
    HISTOGRAM = 3
    HEAP_LIMIT = 60
    Increments = {1}
    MaxCalls = 4
    MaxBlocks = 1
    LINE = 2
    LINES = 3
    SETS = 2
    Values = {0, 1}
    WRAP = 32
    ALT_US = 6
    RATE = 3
    Seconds = {0, 2}
    MaxTicks = 40
    INT_MAX = 127
    PER_US = 5
    Names <- Paths
    MaxListed = 4
    W = 3
    Operands = {"zero", "r3", "fp", "ra"}
    Answers = {"insn", "after"}
    Tracked = {1, 2, 3, 4, 5, 6, 7, 8, 9, 10, 11, 12, 13, 14, 15, 16, 17, 18,
               19, 20, 21, 22, 23, 24, 25, 26, 27, 28, 29, 30, 31, 32, 33, 34,
               35, 36, 37}
INVARIANTS CallsRecorded CountsHonest MemoryApart Coherent FlushCovers ClockRight DelayKept Transparent FullPeriod ToldApart
PROPERTIES LastOwnerFound
CHECK_DEADLOCK FALSE
