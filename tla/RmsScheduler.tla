---------------------------- MODULE RmsScheduler ----------------------------
(***************************************************************************)
(* The rate monotonic scheduler of the processing software, built with     *)
(* THREAD_SINGLE: one endless loop that calls each thread's function when  *)
(* the loop counter is a multiple of the thread's period.  Periods are in  *)
(* rounds of the loop, 1 for the 1000 Hz thread up to 1000 for the 1 Hz    *)
(* thread.  Nothing paces the loop, so only the ratios of the rates are a  *)
(* matter of this code.                                                    *)
(*                                                                         *)
(* The counter is an int and never reset.  The build has no optimisation   *)
(* (-O0), so passing INT_MAX wraps to -INT_MAX - 1.                        *)
(***************************************************************************)
EXTENDS Integers, Sequences

CONSTANT INT_MAX   \* largest value of the counter

ASSUME SchedulerAssumption == INT_MAX \in Nat /\ INT_MAX >= 1000

INT_MIN == -INT_MAX - 1

VARIABLES
    nRmsSchedulerClock,
    at,       \* the next thread of this round, or the end of the round
    \* history
    ran,      \* threads called in this round, in order
    since,    \* rounds since the last call of each thread
    fresh     \* not called since the start, or since the counter wrapped

vars == <<nRmsSchedulerClock, at, ran, since, fresh>>

Periods == {1, 10, 100, 1000}

\* The order of the calls in a round.
CallOrderSwapped == <<1, 10, 1000, 100>>
CallOrder == <<1, 10, 100, 1000>>
End == 5

Init ==
    /\ nRmsSchedulerClock = 0
    /\ at = 1 /\ ran = <<>>
    /\ since = [p \in Periods |-> 0]
    /\ fresh = [p \in Periods |-> TRUE]

\* C's remainder is zero exactly when TLA+'s is, also below zero.
DueOneLate(p) == nRmsSchedulerClock % (p + 1) = 0
Due(p) == nRmsSchedulerClock % p = 0

\* One thread's test and call.
RunThread ==
    /\ at # End
    /\ LET p == CallOrder[at] IN
       IF Due(p)
       THEN /\ ran' = Append(ran, p)
            /\ since' = [since EXCEPT ![p] = 0]
            /\ fresh' = [fresh EXCEPT ![p] = FALSE]
       ELSE UNCHANGED <<ran, since, fresh>>
    /\ at' = at + 1
    /\ UNCHANGED nRmsSchedulerClock

IncrementedSaturated(c) == IF c = INT_MAX THEN c ELSE c + 1
Incremented(c) == IF c = INT_MAX THEN INT_MIN ELSE c + 1

Increment ==
    /\ at = End
    /\ nRmsSchedulerClock' = Incremented(nRmsSchedulerClock)
    /\ since' = [p \in Periods |-> since[p] + 1]
    /\ fresh' = [p \in Periods |-> fresh[p] \/ nRmsSchedulerClock = INT_MAX]
    /\ at' = 1 /\ ran' = <<>>

Next == RunThread \/ Increment

Spec == Init /\ [][Next]_vars

-----------------------------------------------------------------------------
(* Correctness.                                                            *)

TypeOK ==
    /\ nRmsSchedulerClock \in INT_MIN..INT_MAX
    /\ at \in 1..End /\ ran \in Seq(Periods)
    /\ since \in [Periods -> Nat] /\ fresh \in [Periods -> BOOLEAN]

\* A slower thread is called only in a round in which every faster thread
\* has been called before it, on either side of the wrap
\* (scheduler.c:39-52).
RateMonotonic ==
    \A i \in 1..Len(ran) :
        /\ i > 1 => ran[i - 1] < ran[i]
        /\ \A p \in Periods : p < ran[i] => \E j \in 1..i : ran[j] = p

\* No thread waits two periods, not even while the counter wraps in the
\* middle of one (scheduler.c:41,45,49,54).
GapBound == \A p \in Periods : since[p] < 2 * p

Called(p) == since[p] > 0 /\ since'[p] = 0

\* Apart from its first call and the first after a wrap, every thread is
\* called one period after its last call (scheduler.c:41,45,49).
PeriodKept ==
    [][\A p \in Periods : Called(p) /\ ~fresh[p] => since[p] = p]_vars

\* What the 1 Hz thread's name promises: a thousand rounds from call to call
\* (thread1hz.c:8).
OneHzKept == [][Called(1000) => since[1000] = 1000]_vars

-----------------------------------------------------------------------------
(* The inductive invariant.                                                *)

\* Rounds from the counter's lowest value to the first multiple of p; by
\* symmetry also from the last multiple to the lowest value.
Stub(p) == (INT_MAX + 1) % p

\* The rounds since the last call, before and after this round's test.
Before(p) ==
    IF nRmsSchedulerClock <= INT_MIN + Stub(p)
    THEN (IF Stub(p) = 0 THEN p ELSE Stub(p)) + (nRmsSchedulerClock - INT_MIN)
    ELSE ((nRmsSchedulerClock - 1) % p) + 1
After(p) ==
    IF nRmsSchedulerClock < INT_MIN + Stub(p)
    THEN Stub(p) + (nRmsSchedulerClock - INT_MIN)
    ELSE nRmsSchedulerClock % p

Counted(k, p) ==
    /\ at <= k => \/ since[p] = Before(p)
                  \/ nRmsSchedulerClock = 0 /\ since[p] = 0 /\ fresh[p]
    /\ at <= k /\ nRmsSchedulerClock <= INT_MIN + Stub(p) => fresh[p]
    /\ at > k => since[p] = After(p)
    /\ at > k /\ nRmsSchedulerClock < INT_MIN + Stub(p) => fresh[p]

IInv == /\ TypeOK
        /\ Counted(1, 1) /\ Counted(2, 10) /\ Counted(3, 100) /\ Counted(4, 1000)

\* The threads called so far are the first ones of the order.
Prefixes ==
    /\ Len(ran) <= at - 1
    /\ \A i \in 1..Len(ran) : ran[i] = CallOrder[i]
    /\ Len(ran) < at - 1 => nRmsSchedulerClock % CallOrder[Len(ran) + 1] # 0
=============================================================================
