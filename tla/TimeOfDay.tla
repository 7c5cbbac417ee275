----------------------------- MODULE TimeOfDay -----------------------------
(***************************************************************************)
(* The wall clock of the HAL: settimeofday and gettimeofday over the tick  *)
(* counter, with the width of each of their products.  A tv_sec and a      *)
(* tv_usec are signed words; unsigned arithmetic on them wraps and is read *)
(* back as signed.                                                         *)
(***************************************************************************)
EXTENDS Integers

CONSTANTS
    WRAP,        \* 2^32
    ALT_US,      \* microseconds in a second
    RATE,        \* _alt_tick_rate, ticks in a second
    Seconds,     \* of the times that are set
    MaxTicks     \* bound: ticks since reset, beyond the counter's width

TimeOfDayAssumption ==
    /\ WRAP \in Nat \ {0} /\ WRAP % 2 = 0
    /\ ALT_US \in Nat \ {0} /\ RATE \in Nat \ {0} /\ ALT_US % RATE = 0
    /\ Seconds \subseteq Nat /\ MaxTicks \in Nat
    \* Two seconds of microseconds, and every time set or read before the
    \* counter wraps, are signed words.
    /\ 4 * ALT_US <= WRAP
    /\ \A sec \in Seconds \union {0} : sec + WRAP \div RATE < WRAP \div 2

VARIABLES
    _alt_nticks,
    alt_resettime,     \* [tv_sec, tv_usec]
    ticks,             \* history: since reset, however often the counter wrapped
    set                \* history: the time set last, and the ticks then

vars == <<_alt_nticks, alt_resettime, ticks, set>>

Word(n) == n % WRAP
Signed(n) == IF Word(n) < WRAP \div 2 THEN Word(n) ELSE Word(n) - WRAP

Time(sec, usec) == [tv_sec |-> sec, tv_usec |-> usec]
Times == {Time(sec, usec) : sec \in Seconds, usec \in 0..(ALT_US - 1)}

Init ==
    /\ _alt_nticks = 0 /\ ticks = 0
    /\ alt_resettime = Time(0, 0)
    /\ set = [time |-> Time(0, 0), at |-> 0]

UsPerTick == ALT_US \div RATE

\* alt_settod.c multiplies words, ...
SetProduct == Word(_alt_nticks * UsPerTick)

SetTimeOfDay == \E t \in Times :
    /\ alt_resettime' = Time(Signed(t.tv_sec - (_alt_nticks \div RATE)),
                             Signed(t.tv_usec - (SetProduct % ALT_US)))
    /\ set' = [time |-> t, at |-> ticks]
    /\ UNCHANGED <<_alt_nticks, ticks>>

\* ... alt_gettod.c long words.
GetProductOfWords == Word(_alt_nticks * UsPerTick)
GetProduct == _alt_nticks * UsPerTick

\* Microseconds are brought into a second, and a time before zero to zero.
Normalised(t) ==
    LET sec == t.tv_sec + t.tv_usec \div ALT_US IN
    IF t.tv_usec < 0 /\ sec < 0 THEN Time(0, 0) ELSE Time(sec, t.tv_usec % ALT_US)

GetTimeOfDay ==
    Normalised(Time(Signed(alt_resettime.tv_sec + _alt_nticks \div RATE),
                    Signed(alt_resettime.tv_usec + (GetProduct % ALT_US))))

\* alt_tick.
ClockTick ==
    /\ ticks < MaxTicks
    /\ ticks' = ticks + 1 /\ _alt_nticks' = Word(_alt_nticks + 1)
    /\ UNCHANGED <<alt_resettime, set>>

Next == SetTimeOfDay \/ ClockTick

Spec == Init /\ [][Next]_vars

-----------------------------------------------------------------------------
(* Correctness.                                                            *)

TypeOK ==
    /\ _alt_nticks = Word(ticks)
    /\ \A x \in {alt_resettime.tv_sec, alt_resettime.tv_usec} : x = Signed(x)
    /\ set.time \in Times \union {Time(0, 0)} /\ set.at \in 0..ticks

Micros(t) == t.tv_sec * ALT_US + t.tv_usec

\* What gettimeofday returns is what was set and the time since, in whole
\* microseconds below a second, as long as the tick counter has not wrapped
\* since and the product of words had not when the time was set
\* (alt_settod.c:82-84, alt_gettod.c:91-113).
ClockRight ==
    /\ ticks \div WRAP = set.at \div WRAP
    /\ (set.at % WRAP) * UsPerTick < WRAP
    => /\ Micros(GetTimeOfDay) = Micros(set.time) + (ticks - set.at) * UsPerTick
       /\ GetTimeOfDay.tv_usec \in 0..(ALT_US - 1)
=============================================================================
