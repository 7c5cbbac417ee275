----------------------------- MODULE AlarmClock -----------------------------
(***************************************************************************)
(* What the HAL's alarms promise: an alarm started with a delay is called  *)
(* back when that many ticks and the rest of the current one have passed,  *)
(* and again after each interval its callback returns, never early, never  *)
(* late, until it is stopped or its callback returns zero.                 *)
(***************************************************************************)
EXTENDS Integers

CONSTANTS
    Alarms,
    Delays,      \* ticks an alarm may be started with
    Intervals,   \* values a callback may return
    MayStop      \* pairs: the first's callback may stop the second

VARIABLES
    pending,     \* alarms started and not stopped
    due          \* ticks until each pending alarm's callback

clockVars == <<pending, due>>

Init == pending = {} /\ due = [a \in {} |-> 0]

Keep(s, d) == pending' = s /\ due' = [a \in s |-> d[a]]

Start(a) ==
    /\ a \notin pending
    /\ \E d \in Delays :
           Keep(pending \union {a},
                [b \in pending \union {a} |-> IF b = a THEN d + 1 ELSE due[b]])

Stop(a) == a \in pending /\ Keep(pending \ {a}, due)

\* A tick: only once everybody due has been called.
Elapse ==
    /\ \A a \in pending : due[a] > 0
    /\ Keep(pending, [a \in pending |-> due[a] - 1])

\* A callback; it may stop an alarm, its own included.
Call(a) ==
    /\ a \in pending /\ due[a] = 0
    /\ \E interval \in Intervals,
          stopped \in {{}} \union {{b} : b \in {c \in Alarms : <<a, c>> \in MayStop}} :
           Keep((pending \ stopped) \ (IF interval = 0 THEN {a} ELSE {}),
                [due EXCEPT ![a] = interval])

Next == \/ \E a \in Alarms : Start(a) \/ Stop(a) \/ Call(a)
        \/ Elapse

Spec == Init /\ [][Next]_clockVars

\* Time goes on and whoever is due is called.
LiveSpec == /\ Spec
            /\ WF_clockVars(Elapse)
            /\ \A a \in Alarms : WF_clockVars(Call(a))
=============================================================================
