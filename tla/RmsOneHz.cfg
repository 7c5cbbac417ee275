\* The 1 Hz thread over the wrap of the counter.
SPECIFICATION Spec
CONSTANT INT_MAX = 1647
PROPERTIES OneHzKept
