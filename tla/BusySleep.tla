----------------------------- MODULE BusySleep -----------------------------
(***************************************************************************)
(* usleep on the bare HAL: alt_busy_sleep turns microseconds into rounds   *)
(* of a counting loop.  Delays too long for one count are split.           *)
(***************************************************************************)
EXTENDS Integers

CONSTANTS
    INT_MAX,      \* 2^31 - 1; words have 2 * (INT_MAX + 1) values
    PER_US        \* ALT_CPU_FREQ / (cycles_per_loop * 1000000)

BusySleepAssumption ==
    /\ INT_MAX \in Nat /\ PER_US \in Nat \ {0}
    /\ 2 * PER_US <= INT_MAX    \* so that big_loops, an int, holds any quotient

VARIABLES
    asked,          \* history: what alt_busy_sleep was called with
    us, i, big_loops,
    rounds,         \* history: of all counting loops
    pc

vars == <<asked, us, i, big_loops, rounds, pc>>

WORDS == 2 * (INT_MAX + 1)
Word(n) == n % WORDS

\* Microseconds of one long loop.
PerBigLoop == INT_MAX \div PER_US

\* The loops count down before they test, the first for zero, the second
\* for a value that is not positive.
CountToZero(n) == IF n = 0 THEN WORDS ELSE n
CountDown(n) == IF 0 < n /\ n <= INT_MAX THEN n ELSE 1

Init ==
    /\ asked = 0 /\ us = 0 /\ i = 0 /\ big_loops = 0 /\ rounds = 0
    /\ pc = "out"

BusySleep == \E n \in 0..(WORDS - 1) :
    /\ pc = "out"
    /\ asked' = n /\ us' = n
    /\ big_loops' = n \div PerBigLoop
    /\ i' = 0 /\ rounds' = 0
    /\ pc' = IF big_loops' # 0 THEN "big" ELSE "small"

SubtractedNot == us
Subtracted == Word(us - PerBigLoop)

BigLoop ==
    /\ pc = "big" /\ i < big_loops
    /\ rounds' = rounds + CountToZero(INT_MAX)
    /\ us' = Subtracted
    /\ i' = i + 1
    /\ UNCHANGED <<asked, big_loops, pc>>

RestLoop ==
    /\ pc = "big" /\ i >= big_loops
    /\ rounds' = rounds + CountToZero(Word(us * PER_US))
    /\ pc' = "done"
    /\ UNCHANGED <<asked, us, i, big_loops>>

SmallLoop ==
    /\ pc = "small"
    /\ rounds' = CountDown(Word(us * PER_US))
    /\ pc' = "done"
    /\ UNCHANGED <<asked, us, i, big_loops>>

Return ==
    /\ pc = "done" /\ pc' = "out"
    /\ asked' = 0 /\ us' = 0 /\ i' = 0 /\ big_loops' = 0 /\ rounds' = 0

Next == BusySleep \/ BigLoop \/ RestLoop \/ SmallLoop \/ Return

Spec == Init /\ [][Next]_vars

-----------------------------------------------------------------------------
(* Correctness.                                                            *)

TypeOK ==
    /\ {asked, us} \subseteq 0..(WORDS - 1)
    /\ i \in 0..big_loops /\ big_loops \in 0..INT_MAX
    /\ rounds \in Nat
    /\ pc \in {"out", "big", "small", "done"}

\* A delay is never short of the rounds that make it up, however it is split.
\* It is longer by what the long loops count beyond whole microseconds, and
\* by a whole turn of the count if nothing is left for the last one
\* (alt_busy_sleep.c:75-131).
Turn == IF asked > 0 /\ asked % PerBigLoop = 0 THEN WORDS ELSE 0
Beyond == big_loops * (INT_MAX % PER_US)

DelayKept ==
    pc = "done" => /\ rounds >= asked * PER_US
                   /\ asked > 0 => rounds = asked * PER_US + Beyond + Turn
=============================================================================
