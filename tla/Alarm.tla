------------------------------- MODULE Alarm -------------------------------
(***************************************************************************)
(* The HAL's alarms: alt_alarm_start, alt_alarm_stop and alt_tick over the *)
(* doubly linked list alt_alarm_list and the wrapping tick counter.        *)
(*                                                                         *)
(* start and stop run with interrupts disabled, alt_tick in the timer's    *)
(* interrupt handler: none of them interleaves with another, except that a *)
(* callback called from alt_tick may itself stop alarms.                   *)
(***************************************************************************)
EXTENDS Integers

CONSTANTS
    Alarms,      \* struct alt_alarm_s
    Head,        \* alt_alarm_list
    Null,        \* what a link holds before its alarm is first started
    WRAP,        \* 2^32: values of an alt_u32
    Delays,      \* nticks given to alt_alarm_start
    Intervals,   \* values callbacks return
    MayStop      \* pairs: the first's callback may stop the second

ASSUME AlarmAssumption ==
    /\ Head \notin Alarms /\ Null \notin Alarms \union {Head}
    /\ WRAP \in Nat \ {0, 1}
    /\ Delays \subseteq 0..(WRAP - 1)
    /\ Intervals \subseteq 0..(WRAP - 1)
    /\ MayStop \subseteq Alarms \X Alarms

VARIABLES
    _alt_nticks,
    llist,            \* the links: [next, previous], by list element
    time, rollover,   \* per alarm
    ticking,          \* is alt_tick running?
    alarm,            \* its cursor
    registered        \* history: started, not stopped, not returned zero

vars == <<_alt_nticks, llist, time, rollover, ticking, alarm, registered>>

Elements == Alarms \union {Head}

-----------------------------------------------------------------------------
(* The list and the counter.                                               *)

Inserted(l, a) ==
    [next     |-> [l.next EXCEPT ![a] = l.next[Head], ![Head] = a],
     previous |-> [l.previous EXCEPT ![a] = Head, ![l.next[Head]] = a]]

\* The last two assignments make a further removal harmless.
UnlinkedNot(l, a) == l
UnlinkedDangling(l, a) ==
    [next     |-> [l.next EXCEPT ![l.previous[a]] = l.next[a]],
     previous |-> [l.previous EXCEPT ![l.next[a]] = l.previous[a]]]
Unlinked(l, a) ==
    [next     |-> [l.next EXCEPT ![l.previous[a]] = l.next[a], ![a] = a],
     previous |-> [l.previous EXCEPT ![l.next[a]] = l.previous[a], ![a] = a]]

\* The sum of two words.
Plus(t, k) == IF t + k < WRAP THEN t + k ELSE t + k - WRAP

RollsOverNever(t) == FALSE
RollsOver(t) == t < _alt_nticks

Init ==
    /\ _alt_nticks = 0
    /\ llist = [next     |-> [e \in Elements |-> IF e = Head THEN Head ELSE Null],
                previous |-> [e \in Elements |-> IF e = Head THEN Head ELSE Null]]
    /\ time = [a \in Alarms |-> 0] /\ rollover = [a \in Alarms |-> FALSE]
    /\ ticking = FALSE /\ alarm = Head
    /\ registered = {}

-----------------------------------------------------------------------------
\* alt_alarm_start, of an alarm that is not in the list.
AlarmStart == \E a \in Alarms \ registered, nticks \in Delays :
    /\ ~ticking
    /\ LET t == Plus(nticks, _alt_nticks + 1) IN
       /\ time' = [time EXCEPT ![a] = t]
       /\ rollover' = [rollover EXCEPT ![a] = RollsOver(t)]
    /\ llist' = Inserted(llist, a)
    /\ registered' = registered \union {a}
    /\ UNCHANGED <<_alt_nticks, ticking, alarm>>

\* alt_alarm_stop, also of an alarm that has stopped already.
AlarmStop == \E a \in Alarms :
    /\ ~ticking /\ llist.next[a] # Null
    /\ llist' = Unlinked(llist, a)
    /\ registered' = registered \ {a}
    /\ UNCHANGED <<_alt_nticks, time, rollover, ticking, alarm>>

\* The timer interrupts.
TickBegin ==
    /\ ~ticking
    /\ _alt_nticks' = Plus(_alt_nticks, 1)
    /\ ticking' = TRUE /\ alarm' = llist.next[Head]
    /\ UNCHANGED <<llist, time, rollover, registered>>

\* The flag is cleared when the counter has rolled over.
Rolling(a) == rollover[a] /\ _alt_nticks # 0
Expired(a) == time[a] <= _alt_nticks /\ ~Rolling(a)

TickSkip ==
    /\ ticking /\ alarm # Head /\ ~Expired(alarm)
    /\ rollover' = [rollover EXCEPT ![alarm] = Rolling(alarm)]
    /\ alarm' = llist.next[alarm]
    /\ UNCHANGED <<_alt_nticks, llist, time, ticking, registered>>

\* The alarms the callback of a stops: at most one of those it may.
Stoppable(a) ==
    {{}} \union {{b} : b \in {c \in Alarms : /\ <<a, c>> \in MayStop
                                             /\ llist.next[c] # Null}}

WithoutAll(l, s) == IF s = {} THEN l ELSE Unlinked(l, CHOOSE b \in s : TRUE)

\* The cursor's successor was read before the callback.
Following == llist.next[alarm]

TickCall ==
    /\ ticking /\ alarm # Head /\ Expired(alarm)
    /\ \E next_callback \in Intervals, stopped \in Stoppable(alarm) :
       LET left == WithoutAll(llist, stopped) IN
       IF next_callback = 0
       THEN /\ llist' = Unlinked(left, alarm)
            /\ registered' = (registered \ stopped) \ {alarm}
            /\ rollover' = [rollover EXCEPT ![alarm] = FALSE]
            /\ UNCHANGED time
       ELSE LET t == Plus(time[alarm], next_callback) IN
            /\ llist' = left
            /\ registered' = registered \ stopped
            /\ time' = [time EXCEPT ![alarm] = t]
            /\ rollover' = [rollover EXCEPT ![alarm] = RollsOver(t)]
    /\ alarm' = Following
    /\ UNCHANGED <<_alt_nticks, ticking>>

TickEnd ==
    /\ ticking /\ alarm = Head
    /\ ticking' = FALSE
    /\ UNCHANGED <<_alt_nticks, llist, time, rollover, alarm, registered>>

Tick == TickBegin \/ TickSkip \/ TickCall \/ TickEnd

Next == AlarmStart \/ AlarmStop \/ Tick

Spec == Init /\ [][Next]_vars

\* What alt_tick needs of a callback: it may stop its own alarm or any other,
\* but not the one after its own, which alt_tick goes on to.
SparesNext == TickCall => alarm' \notin registered \ registered'

CarefulSpec == Init /\ [][Next /\ SparesNext]_vars

\* The timer keeps interrupting and its handler keeps running.
LiveSpec == CarefulSpec /\ WF_vars(Tick /\ SparesNext)

-----------------------------------------------------------------------------
(* Correctness.                                                            *)

TypeOK ==
    /\ _alt_nticks \in 0..(WRAP - 1)
    /\ llist \in [next     : [Elements -> Elements \union {Null}],
                  previous : [Elements -> Elements \union {Null}]]
    /\ time \in [Alarms -> 0..(WRAP - 1)]
    /\ rollover \in [Alarms -> BOOLEAN]
    /\ ticking \in BOOLEAN /\ alarm \in Elements
    /\ registered \subseteq Alarms

\* The list, walked forwards, holds exactly the registered alarms, and the
\* backward links mirror the forward ones, however often an alarm was stopped
\* and started (alt_llist.h:90-116).
ListSound ==
    /\ \A e \in registered \union {Head} :
           /\ llist.next[e] \in registered \union {Head}
           /\ llist.previous[llist.next[e]] = e
    /\ \A s \in SUBSET (registered \union {Head}) :
           Head \in s /\ (\A e \in s : llist.next[e] \in s)
               => s = registered \union {Head}

\* "process the registered callbacks": alt_tick calls an alarm back only
\* while it is registered (alt_tick.c:61,98).
OnlyRegistered == [][TickCall => alarm \in registered]_vars

\* Ticks until an alarm is called, as its time and flag say.
Due(a) == IF Rolling(a) THEN time[a] + WRAP - _alt_nticks
                        ELSE time[a] - _alt_nticks

Clock == INSTANCE AlarmClock WITH
             pending <- registered, due <- [a \in registered |-> Due(a)]

\* No alarm is early or late and none is called after it was stopped, over
\* any number of turns of the tick counter (alt_tick.c:104-137,
\* alt_alarm_start.c:84-96).
OnTime == Clock!Spec

\* And alt_tick always returns: time goes on and every alarm that is due is
\* called (alt_tick.c:100-141).
KeepsTime == Clock!LiveSpec
=============================================================================
