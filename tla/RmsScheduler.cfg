\* INT_MAX is congruent to 2^31 - 1 modulo 1000.
SPECIFICATION Spec
CONSTANT INT_MAX = 1647
INVARIANTS RateMonotonic GapBound
PROPERTIES PeriodKept
