\* Two functions in one bucket, called from two places.
SPECIFICATION Spec
CONSTANTS
    Functions = {f, g}
    Callers = {x, y}
    WORD = 2
    RECORD = 2
    SLAB = 4
    HISTOGRAM = 3
    HEAP_LIMIT = 60
    Increments = {1}
    MaxCalls = 4
    MaxBlocks = 1
INVARIANTS SamplerStartedOnce
CHECK_DEADLOCK FALSE
