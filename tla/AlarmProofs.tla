----------------------------- MODULE AlarmProofs -----------------------------
(***************************************************************************)
(* Proofs about Alarm, for every number of alarms and every width of the   *)
(* tick counter: the list stays sound, alt_tick calls only registered      *)
(* alarms, and starting, stopping and ticking implement AlarmClock.        *)
(***************************************************************************)
EXTENDS Alarm, TLAPS

\* A callback may stop the alarm it was called for and no other.
OwnOnly == \A p \in MayStop : p[1] = p[2]

\* The longest delay comes round to the current tick; it is left out.
DelaysKeptShort == Delays \subseteq 0..(WRAP - 2)

-----------------------------------------------------------------------------
(* The list.                                                               *)

Lists == [next     : [Elements -> Elements \union {Null}],
          previous : [Elements -> Elements \union {Null}]]

\* Of a list and the alarms R in it: a ring through Head and R, and alarms
\* outside it link to themselves or nowhere.
Ring(l, R) ==
    \A e \in R \union {Head} :
        /\ l.next[e] \in R \union {Head} /\ l.previous[e] \in R \union {Head}
        /\ l.previous[l.next[e]] = e /\ l.next[l.previous[e]] = e

Whole(l, R) ==
    \A s \in SUBSET (R \union {Head}) :
        Head \in s /\ (\A e \in s : l.next[e] \in s) => s = R \union {Head}

Loose(l, R) ==
    \A a \in Alarms \ R : l.next[a] = Null \/ (l.next[a] = a /\ l.previous[a] = a)

Sound(l, R) == Ring(l, R) /\ Whole(l, R) /\ Loose(l, R)

\* What Inserted and Unlinked make of each link.
LEMMA InsertedLinks ==
    ASSUME NEW l \in Lists, NEW a \in Alarms, l.next[Head] \in Elements
    PROVE  /\ Inserted(l, a) \in Lists
           /\ \A e \in Elements :
                 /\ Inserted(l, a).next[e] =
                        IF e = Head THEN a ELSE IF e = a THEN l.next[Head] ELSE l.next[e]
                 /\ Inserted(l, a).previous[e] =
                        IF e = l.next[Head] THEN a ELSE IF e = a THEN Head ELSE l.previous[e]
BY AlarmAssumption DEF Inserted, Lists, Elements

LEMMA UnlinkedLinks ==
    ASSUME NEW l \in Lists, NEW a \in Alarms,
           l.next[a] \in Elements, l.previous[a] \in Elements
    PROVE  /\ Unlinked(l, a) \in Lists
           /\ \A e \in Elements :
                 /\ Unlinked(l, a).next[e] =
                        IF e = a THEN a ELSE IF e = l.previous[a] THEN l.next[a] ELSE l.next[e]
                 /\ Unlinked(l, a).previous[e] =
                        IF e = a THEN a ELSE IF e = l.next[a] THEN l.previous[a] ELSE l.previous[e]
BY AlarmAssumption DEF Unlinked, Lists, Elements

\* Inserting an alarm that is not in the list.
LEMMA InsertedSound ==
    ASSUME NEW l \in Lists, NEW R \in SUBSET Alarms, NEW a \in Alarms \ R,
           Sound(l, R)
    PROVE  Sound(Inserted(l, a), R \union {a})
<1> DEFINE m == Inserted(l, a)
           h == l.next[Head]
<1>1. h \in R \union {Head} /\ h # a
  BY AlarmAssumption DEF Sound, Ring
<1>2. \A e \in Elements :
         /\ m.next[e] = IF e = Head THEN a ELSE IF e = a THEN h ELSE l.next[e]
         /\ m.previous[e] = IF e = h THEN a ELSE IF e = a THEN Head ELSE l.previous[e]
  BY <1>1, InsertedLinks DEF Elements
<1>3. R \union {a} \union {Head} \subseteq Elements /\ a # Head /\ a \notin R
  BY AlarmAssumption DEF Elements
<1> HIDE DEF m
<1>4. Ring(m, R \union {a})
  BY <1>1, <1>2, <1>3 DEF Sound, Ring, h
<1>5. Whole(m, R \union {a})
  <2> SUFFICES ASSUME NEW s \in SUBSET (R \union {a} \union {Head}),
                      Head \in s, \A e \in s : m.next[e] \in s
               PROVE  s = R \union {a} \union {Head}
    BY DEF Whole
  <2>1. a \in s /\ h \in s
    BY <1>2, <1>3
  <2>2. s \ {a} \in SUBSET (R \union {Head}) /\ Head \in s \ {a}
    BY <1>3
  <2>3. \A e \in s \ {a} : l.next[e] \in s \ {a}
    <3> SUFFICES ASSUME NEW e \in s \ {a} PROVE l.next[e] \in s \ {a}
      OBVIOUS
    <3>1. CASE e = Head
      BY <3>1, <2>1, <1>1 DEF h
    <3>2. CASE e # Head
      BY <3>2, <1>2, <1>3 DEF Sound, Ring
    <3> QED BY <3>1, <3>2
  <2>4. s \ {a} = R \union {Head}
    BY <2>2, <2>3 DEF Sound, Whole
  <2> QED BY <2>1, <2>4
<1>6. Loose(m, R \union {a})
  <2> SUFFICES ASSUME NEW b \in Alarms, b \notin R, b # a
               PROVE  m.next[b] = Null \/ (m.next[b] = b /\ m.previous[b] = b)
    BY DEF Loose
  <2>1. b \in Elements /\ b # Head /\ b # h
    BY <1>1, AlarmAssumption DEF Elements
  <2>2. m.next[b] = l.next[b] /\ m.previous[b] = l.previous[b]
    BY <1>2, <2>1
  <2> QED BY <2>2 DEF Sound, Loose
<1> QED BY <1>4, <1>5, <1>6 DEF Sound, m

\* Unlinking an alarm that was once in the list, whether it still is or not.
LEMMA UnlinkedSound ==
    ASSUME NEW l \in Lists, NEW R \in SUBSET Alarms, NEW a \in Alarms,
           l.next[a] # Null, Sound(l, R)
    PROVE  /\ Unlinked(l, a) \in Lists /\ Sound(Unlinked(l, a), R \ {a})
           /\ \A e \in Elements : l.next[e] # Null => Unlinked(l, a).next[e] # Null
           /\ a \notin R => \A e \in Elements : Unlinked(l, a).next[e] = l.next[e]
<1> DEFINE m == Unlinked(l, a)
           n == l.next[a]
           p == l.previous[a]
<1>1. R \union {Head} \subseteq Elements /\ a # Head /\ a \in Elements /\ Null \notin Elements
  BY AlarmAssumption DEF Elements
<1>2. IF a \in R THEN n \in R \union {Head} /\ p \in R \union {Head} ELSE n = a /\ p = a
  BY DEF Sound, Ring, Loose
<1>3. n \in Elements /\ p \in Elements
  BY <1>1, <1>2
<1>4. /\ m \in Lists
      /\ \A e \in Elements :
         /\ m.next[e] = IF e = a THEN a ELSE IF e = p THEN n ELSE l.next[e]
         /\ m.previous[e] = IF e = a THEN a ELSE IF e = n THEN p ELSE l.previous[e]
  BY <1>3, UnlinkedLinks
<1> HIDE DEF m
<1>5. \A e \in Elements : l.next[e] # Null => m.next[e] # Null
  BY <1>1, <1>3, <1>4
<1>6. CASE a \notin R
  <2>1. \A e \in Elements : m.next[e] = l.next[e] /\ m.previous[e] = l.previous[e]
    BY <1>2, <1>4, <1>6 DEF n, p
  <2>2. R \ {a} = R
    BY <1>6
  <2>3. Ring(m, R)
    BY <2>1, <1>1 DEF Sound, Ring
  <2>4. Whole(m, R)
    BY <2>1, <1>1 DEF Sound, Whole
  <2>5. Loose(m, R)
    BY <2>1, <1>1 DEF Sound, Loose, Elements
  <2> QED BY <1>4, <1>5, <2>1, <2>2, <2>3, <2>4, <2>5 DEF Sound, m
<1>7. CASE a \in R
  <2>1. l.next[p] = a /\ l.previous[n] = a
    BY <1>7 DEF Sound, Ring, n, p
  <2>2. n # a
    <3> SUFFICES ASSUME n = a PROVE FALSE
      OBVIOUS
    <3> DEFINE s == (R \union {Head}) \ {a}
    <3>1. \A e \in s : l.next[e] \in s
      BY <2>1 DEF Sound, Ring, n
    <3>2. s \in SUBSET (R \union {Head}) /\ Head \in s
      BY <1>1
    <3>3. s = R \union {Head}
      BY <3>1, <3>2 DEF Sound, Whole
    <3> QED BY <3>3, <1>7
  <2>3. p # a
    BY <2>1, <2>2 DEF n
  <2>4. Ring(m, R \ {a})
    BY <2>1, <2>2, <2>3, <1>1, <1>2, <1>4, <1>7 DEF Sound, Ring, n, p
  <2>5. Whole(m, R \ {a})
    <3> SUFFICES ASSUME NEW s \in SUBSET ((R \ {a}) \union {Head}),
                        Head \in s, \A e \in s : m.next[e] \in s
                 PROVE  s = (R \ {a}) \union {Head}
      BY DEF Whole
    <3>0. s \subseteq Elements /\ a \notin s
      BY <1>1
    <3>1. CASE p \in s
      <4>1. n \in s
        BY <3>1, <3>0, <1>4, <2>3
      <4>2. \A e \in s \union {a} : l.next[e] \in s \union {a}
        BY <4>1, <2>1, <1>4, <3>0 DEF n
      <4>3. s \union {a} = R \union {Head}
        <5>1. s \union {a} \in SUBSET (R \union {Head}) /\ Head \in s \union {a}
          BY <1>7
        <5> QED BY <4>2, <5>1 DEF Sound, Whole
      <4> QED BY <4>3, <3>0, <1>1
    <3>2. CASE p \notin s
      <4>1. \A e \in s : l.next[e] \in s
        BY <3>2, <1>4, <3>0
      <4>2. s = R \union {Head}
        <5>1. s \in SUBSET (R \union {Head})
          OBVIOUS
        <5> QED BY <4>1, <5>1 DEF Sound, Whole
      <4> QED BY <4>2, <3>0, <1>7
    <3> QED BY <3>1, <3>2
  <2>6. Loose(m, R \ {a})
    <3> SUFFICES ASSUME NEW b \in Alarms, b \notin R \/ b = a
                 PROVE  m.next[b] = Null \/ (m.next[b] = b /\ m.previous[b] = b)
      BY DEF Loose
    <3>1. CASE b = a
      BY <3>1, <1>1, <1>4
    <3>2. CASE b # a
      <4>1. b \in Elements /\ b # p /\ b # n
        BY <3>2, <1>2, <1>7, AlarmAssumption DEF Elements
      <4>2. m.next[b] = l.next[b] /\ m.previous[b] = l.previous[b]
        BY <3>2, <4>1, <1>4
      <4> QED BY <3>2, <4>2 DEF Sound, Loose
    <3> QED BY <3>1, <3>2
  <2> QED BY <1>4, <1>5, <1>7, <2>4, <2>5, <2>6 DEF Sound, m
<1> QED BY <1>6, <1>7

-----------------------------------------------------------------------------
(* The list in every state.                                                *)

\* The cursor is Head or an alarm that was once in the list.
ListInv ==
    /\ TypeOK
    /\ Sound(llist, registered)
    /\ alarm # Head => llist.next[alarm] # Null

LEMMA PlusInRange ==
    ASSUME NEW t \in 0..(WRAP - 1), NEW k \in 0..WRAP
    PROVE  Plus(t, k) \in 0..(WRAP - 1)
BY AlarmAssumption DEF Plus

LEMMA ListInit == Init => ListInv
<1> SUFFICES ASSUME Init PROVE ListInv
  OBVIOUS
<1>0. /\ llist \in [next     : [Elements -> Elements \union {Null}],
                      previous : [Elements -> Elements \union {Null}]]
      /\ \A e \in Elements :
            /\ llist.next[e] = IF e = Head THEN Head ELSE Null
            /\ llist.previous[e] = IF e = Head THEN Head ELSE Null
  BY DEF Init, Elements
<1>1. TypeOK
  <2>1. 0 \in 0..(WRAP - 1)
    BY AlarmAssumption
  <2> QED BY <1>0, <2>1 DEF Init, TypeOK, Elements
<1>2. Sound(llist, registered)
  <2>1. Ring(llist, {})
    BY <1>0 DEF Ring, Elements
  <2>2. Whole(llist, {})
    BY DEF Whole
  <2>3. Loose(llist, {})
    BY <1>0, AlarmAssumption DEF Loose, Elements
  <2> QED BY <2>1, <2>2, <2>3 DEF Init, Sound
<1> QED BY <1>1, <1>2 DEF ListInv, Init

\* The links of a list from a linked alarm lead to Head or another one.
LEMMA NextLinked ==
    ASSUME ListInv, NEW e \in Elements, llist.next[e] # Null
    PROVE  /\ llist.next[e] \in Elements
           /\ llist.next[llist.next[e]] # Null
<1>1. CASE e \in registered \union {Head}
  BY <1>1, AlarmAssumption DEF ListInv, TypeOK, Sound, Ring, Elements
<1>2. CASE e \notin registered \union {Head}
  BY <1>2, AlarmAssumption DEF ListInv, TypeOK, Sound, Loose, Elements
<1> QED BY <1>1, <1>2

\* The list a callback leaves, having stopped some alarms.
LEMMA StoppedSound ==
    ASSUME ListInv, alarm \in Alarms, NEW stopped \in Stoppable(alarm)
    PROVE  /\ WithoutAll(llist, stopped) \in Lists
           /\ Sound(WithoutAll(llist, stopped), registered \ stopped)
           /\ \A e \in Elements :
                 llist.next[e] # Null => WithoutAll(llist, stopped).next[e] # Null
<1>1. llist \in Lists /\ registered \in SUBSET Alarms
  BY DEF ListInv, TypeOK, Lists
<1>2. CASE stopped = {}
  BY <1>1, <1>2 DEF WithoutAll, ListInv
<1>3. CASE stopped # {}
  <2>1. PICK b \in Alarms : stopped = {b} /\ llist.next[b] # Null
    BY <1>3, AlarmAssumption DEF Stoppable
  <2>2. WithoutAll(llist, stopped) = Unlinked(llist, b)
    BY <2>1 DEF WithoutAll
  <2> QED BY <1>1, <2>1, <2>2, UnlinkedSound DEF ListInv
<1> QED BY <1>2, <1>3

LEMMA ListNext == ListInv /\ [Next]_vars => ListInv'
<1> SUFFICES ASSUME ListInv, [Next]_vars PROVE ListInv'
  OBVIOUS
<1> USE DEF ListInv
<1>0. llist \in Lists /\ registered \in SUBSET Alarms
  BY DEF TypeOK, Lists
<1>1. CASE AlarmStart
  <2>1. PICK a \in Alarms \ registered, nticks \in Delays :
           /\ time' = [time EXCEPT ![a] = Plus(nticks, _alt_nticks + 1)]
           /\ rollover' = [rollover EXCEPT ![a] = RollsOver(Plus(nticks, _alt_nticks + 1))]
           /\ llist' = Inserted(llist, a)
           /\ registered' = registered \union {a}
           /\ UNCHANGED <<_alt_nticks, ticking, alarm>>
    BY <1>1 DEF AlarmStart
  <2>2. Plus(nticks, _alt_nticks + 1) \in 0..(WRAP - 1)
    BY AlarmAssumption, PlusInRange DEF TypeOK
  <2>3. Sound(llist', registered')
    BY <2>1, <1>0, InsertedSound
  <2>4. llist.next[Head] \in Elements
    BY DEF Sound, Ring, TypeOK, Elements
  <2>5. /\ llist' \in Lists
        /\ \A e \in Elements :
              llist'.next[e] = IF e = Head THEN a ELSE IF e = a THEN llist.next[Head] ELSE llist.next[e]
    BY <2>1, <2>4, <1>0, InsertedLinks
  <2>6. TypeOK'
    BY <2>1, <2>2, <2>5 DEF TypeOK, Lists, RollsOver
  <2>7. alarm' # Head => llist'.next[alarm'] # Null
    BY <2>1, <2>4, <2>5, AlarmAssumption DEF TypeOK, Elements
  <2> QED BY <2>3, <2>6, <2>7
<1>2. CASE AlarmStop
  <2>1. PICK a \in Alarms :
           /\ llist.next[a] # Null
           /\ llist' = Unlinked(llist, a)
           /\ registered' = registered \ {a}
           /\ UNCHANGED <<_alt_nticks, time, rollover, ticking, alarm>>
    BY <1>2 DEF AlarmStop
  <2>2. llist' \in Lists /\ Sound(llist', registered')
    BY <2>1, <1>0, UnlinkedSound
  <2>3. \A e \in Elements : llist.next[e] # Null => llist'.next[e] # Null
    BY <2>1, <1>0, UnlinkedSound
  <2> QED BY <2>1, <2>2, <2>3 DEF TypeOK, Lists
<1>3. CASE TickBegin
  <2>1. Plus(_alt_nticks, 1) \in 0..(WRAP - 1)
    BY AlarmAssumption, PlusInRange DEF TypeOK
  <2>2. llist.next[Head] \in Elements /\ llist.next[llist.next[Head]] # Null
    <3>1. Head \in Elements /\ llist.next[Head] # Null
      BY <1>0, AlarmAssumption DEF Elements, Sound, Ring
    <3> QED BY <3>1, NextLinked
  <2> QED BY <1>3, <2>1, <2>2 DEF TickBegin, TypeOK
<1>4. CASE TickSkip
  <2>1. llist.next[alarm] \in Elements /\ llist.next[llist.next[alarm]] # Null
    BY <1>4, NextLinked DEF TickSkip, TypeOK
  <2>2. rollover' \in [Alarms -> BOOLEAN]
    BY <1>4 DEF TickSkip, TypeOK, Rolling
  <2> QED BY <1>4, <2>1, <2>2 DEF TickSkip, TypeOK
<1>5. CASE TickCall
  <2>0. alarm \in Alarms /\ llist.next[alarm] # Null
    BY <1>5 DEF TickCall, TypeOK, Elements
  <2>1. PICK k \in Intervals, stopped \in Stoppable(alarm) :
           IF k = 0
           THEN /\ llist' = Unlinked(WithoutAll(llist, stopped), alarm)
                /\ registered' = (registered \ stopped) \ {alarm}
                /\ rollover' = [rollover EXCEPT ![alarm] = FALSE]
                /\ UNCHANGED time
           ELSE /\ llist' = WithoutAll(llist, stopped)
                /\ registered' = registered \ stopped
                /\ time' = [time EXCEPT ![alarm] = Plus(time[alarm], k)]
                /\ rollover' = [rollover EXCEPT ![alarm] = RollsOver(Plus(time[alarm], k))]
    BY <1>5 DEF TickCall
  <2>2. /\ WithoutAll(llist, stopped) \in Lists
        /\ Sound(WithoutAll(llist, stopped), registered \ stopped)
        /\ \A e \in Elements :
              llist.next[e] # Null => WithoutAll(llist, stopped).next[e] # Null
    BY <2>0, StoppedSound
  <2>3. WithoutAll(llist, stopped).next[alarm] # Null
    BY <2>0, <2>2 DEF Elements
  <2>4. /\ llist' \in Lists /\ Sound(llist', registered')
        /\ \A e \in Elements : llist.next[e] # Null => llist'.next[e] # Null
    <3>1. CASE k = 0
      <4>1. registered \ stopped \in SUBSET Alarms
        BY <1>0
      <4> QED BY <3>1, <4>1, <2>0, <2>1, <2>2, <2>3, UnlinkedSound
    <3>2. CASE k # 0
      BY <3>2, <2>1, <2>2
    <3> QED BY <3>1, <3>2
  <2>5. /\ alarm' = llist.next[alarm] /\ UNCHANGED <<_alt_nticks, ticking>>
    BY <1>5 DEF TickCall, Following
  <2>6. llist.next[alarm] \in Elements /\ llist.next[llist.next[alarm]] # Null
    BY <2>0, NextLinked DEF Elements
  <2>7. Plus(time[alarm], k) \in 0..(WRAP - 1)
    BY <2>0, AlarmAssumption, PlusInRange DEF TypeOK
  <2>8. /\ time' \in [Alarms -> 0..(WRAP - 1)]
        /\ rollover' \in [Alarms -> BOOLEAN] /\ registered' \subseteq Alarms
    <3>1. CASE k = 0
      BY <3>1, <2>1, <1>0 DEF TypeOK
    <3>2. CASE k # 0
      <4>1. RollsOver(Plus(time[alarm], k)) \in BOOLEAN
        BY DEF RollsOver
      <4> QED BY <3>2, <4>1, <2>1, <2>7, <1>0 DEF TypeOK
    <3> QED BY <3>1, <3>2
  <2> QED BY <2>4, <2>5, <2>6, <2>8 DEF TypeOK, Lists
<1>6. CASE TickEnd
  BY <1>6 DEF TickEnd, TypeOK
<1>7. CASE UNCHANGED vars
  BY <1>7 DEF vars, TypeOK
<1> QED BY <1>1, <1>2, <1>3, <1>4, <1>5, <1>6, <1>7 DEF Next, Tick

\* The list is sound whatever alarms the callbacks stop, the one after their
\* own included.
THEOREM ListStaysSound == Spec => []ListSound
<1>1. ListInv => ListSound
  BY DEF ListInv, ListSound, Sound, Ring, Whole
<1>2. Spec => []ListInv
  BY ListInit, ListNext, PTL DEF Spec
<1> QED BY <1>1, <1>2, PTL

-----------------------------------------------------------------------------
(* The cursor, with callbacks that spare the alarm after their own.        *)

CursorInv ==
    /\ ListInv
    /\ alarm \in registered \union {Head}
    /\ ~ticking => alarm = Head

\* In a ring with another element no link leads back to its own.
LEMMA NotToItself ==
    ASSUME NEW l, NEW R \in SUBSET Alarms, NEW a \in R, Sound(l, R)
    PROVE  l.next[a] # a
<1> SUFFICES ASSUME l.next[a] = a PROVE FALSE
  OBVIOUS
<1> DEFINE s == (R \union {Head}) \ {a}
<1>1. \A e \in s : l.next[e] \in s
  BY DEF Sound, Ring
<1>2. s \in SUBSET (R \union {Head}) /\ Head \in s
  BY AlarmAssumption
<1>3. s = R \union {Head}
  BY <1>1, <1>2 DEF Sound, Whole
<1> QED BY <1>3

\* What a callback changes.
LEMMA CallEffect ==
    ASSUME CursorInv, TickCall
    PROVE  \E k \in Intervals, stopped \in Stoppable(alarm) :
             /\ registered' = (registered \ stopped) \ (IF k = 0 THEN {alarm} ELSE {})
             /\ llist' = IF k = 0 THEN Unlinked(WithoutAll(llist, stopped), alarm)
                                  ELSE WithoutAll(llist, stopped)
             /\ \A a \in Alarms \ {alarm} :
                    time'[a] = time[a] /\ rollover'[a] = rollover[a]
             /\ alarm \in registered' =>
                    /\ k # 0
                    /\ time'[alarm] = Plus(time[alarm], k)
                    /\ rollover'[alarm] = RollsOver(Plus(time[alarm], k))
             /\ alarm' = llist.next[alarm]
             /\ UNCHANGED <<_alt_nticks, ticking>>
<1>0. /\ alarm \in registered /\ alarm \in Alarms
      /\ time \in [Alarms -> 0..(WRAP - 1)] /\ rollover \in [Alarms -> BOOLEAN]
  BY DEF CursorInv, ListInv, TypeOK, TickCall
<1>1. PICK k \in Intervals, stopped \in Stoppable(alarm) :
         IF k = 0
         THEN /\ llist' = Unlinked(WithoutAll(llist, stopped), alarm)
              /\ registered' = (registered \ stopped) \ {alarm}
              /\ rollover' = [rollover EXCEPT ![alarm] = FALSE]
              /\ UNCHANGED time
         ELSE /\ llist' = WithoutAll(llist, stopped)
              /\ registered' = registered \ stopped
              /\ time' = [time EXCEPT ![alarm] = Plus(time[alarm], k)]
              /\ rollover' = [rollover EXCEPT ![alarm] = RollsOver(Plus(time[alarm], k))]
  BY DEF TickCall
<1>2. /\ registered' = (registered \ stopped) \ (IF k = 0 THEN {alarm} ELSE {})
      /\ llist' = IF k = 0 THEN Unlinked(WithoutAll(llist, stopped), alarm)
                           ELSE WithoutAll(llist, stopped)
  BY <1>1
<1>3. \A a \in Alarms \ {alarm} : time'[a] = time[a] /\ rollover'[a] = rollover[a]
  <2>1. CASE k = 0
    BY <2>1, <1>0, <1>1
  <2>2. CASE k # 0
    BY <2>2, <1>0, <1>1
  <2> QED BY <2>1, <2>2
<1>4. alarm \in registered' =>
         /\ k # 0
         /\ time'[alarm] = Plus(time[alarm], k)
         /\ rollover'[alarm] = RollsOver(Plus(time[alarm], k))
  BY <1>0, <1>1
<1>5. alarm' = llist.next[alarm] /\ UNCHANGED <<_alt_nticks, ticking>>
  BY DEF TickCall, Following
<1> QED BY <1>2, <1>3, <1>4, <1>5

LEMMA CursorInit == Init => CursorInv
BY ListInit DEF Init, CursorInv

\* A call is never a stuttering step.
LEMMA CallMoves ==
    ASSUME CursorInv, TickCall, [Next /\ SparesNext]_vars PROVE SparesNext
<1>1. UNCHANGED vars => llist.next[alarm] = alarm
  BY DEF TickCall, Following, vars
<1>2. Sound(llist, registered) /\ registered \in SUBSET Alarms /\ alarm \in registered
  BY DEF TickCall, CursorInv, ListInv, TypeOK
<1> QED BY <1>1, <1>2, NotToItself

\* What comes after an alarm is another one or the head.
LEMMA CallGoesOn ==
    ASSUME CursorInv, TickCall, SparesNext
    PROVE  alarm' \in registered' \union {Head} /\ alarm' # alarm
<1>0. Sound(llist, registered) /\ registered \in SUBSET Alarms /\ alarm \in registered
  BY DEF TickCall, CursorInv, ListInv, TypeOK
<1>1. llist.next[alarm] \in registered \union {Head} /\ llist.next[alarm] # alarm
  BY <1>0, NotToItself DEF Sound, Ring
<1>2. alarm' = llist.next[alarm]
  BY DEF TickCall, Following
<1> QED BY <1>1, <1>2 DEF SparesNext

LEMMA CursorNext ==
    ASSUME CursorInv, [Next /\ SparesNext]_vars
    PROVE  CursorInv'
<1>0. /\ ListInv' /\ Sound(llist, registered) /\ registered \in SUBSET Alarms
  BY ListNext DEF CursorInv, ListInv, TypeOK
<1>1. CASE AlarmStart
  BY <1>0, <1>1 DEF AlarmStart, CursorInv
<1>2. CASE AlarmStop
  BY <1>0, <1>2, AlarmAssumption DEF AlarmStop, CursorInv
<1>3. CASE TickBegin
  BY <1>0, <1>3 DEF TickBegin, CursorInv, Sound, Ring
<1>4. CASE TickSkip
  BY <1>0, <1>4 DEF TickSkip, CursorInv, Sound, Ring
<1>5. CASE TickCall
  <2>1. alarm' \in registered' \union {Head}
    BY <1>5, CallMoves, CallGoesOn
  <2> QED BY <1>0, <1>5, <2>1 DEF TickCall, CursorInv
<1>6. CASE TickEnd
  BY <1>0, <1>6 DEF TickEnd, CursorInv
<1>7. CASE UNCHANGED vars
  BY <1>0, <1>7 DEF vars, CursorInv
<1> QED BY <1>1, <1>2, <1>3, <1>4, <1>5, <1>6, <1>7 DEF Next, Tick

\* If callbacks spare the alarm after their own, alt_tick never calls one that
\* has stopped (alt_tick.c:61,98-140).
THEOREM CallsOnlyRegistered == CarefulSpec => OnlyRegistered
<1>1. CursorInv /\ [Next /\ SparesNext]_vars => [TickCall => alarm \in registered]_vars
  BY DEF CursorInv, TickCall
<1>2. CursorInv /\ [Next /\ SparesNext]_vars => CursorInv'
  BY CursorNext
<1> QED BY CursorInit, <1>1, <1>2, PTL DEF CarefulSpec, OnlyRegistered

\* Callbacks that stop no alarm but the one they were called for, as the UART
\* driver's, are careful (altera_avalon_jtag_uart_init.c:203-225).
THEOREM OwnAlarmsSpared ==
    ASSUME OwnOnly PROVE Spec => CarefulSpec
<1>1. ASSUME CursorInv, Next PROVE SparesNext
  <2> SUFFICES ASSUME TickCall PROVE alarm' \notin registered \ registered'
    BY DEF SparesNext
  <2>0. Sound(llist, registered) /\ registered \in SUBSET Alarms
    BY <1>1 DEF CursorInv, ListInv, TypeOK
  <2>1. alarm \in registered
    BY <1>1 DEF TickCall, CursorInv
  <2>2. llist.next[alarm] \in registered \union {Head} /\ llist.next[alarm] # alarm
    BY <2>0, <2>1, NotToItself DEF Sound, Ring
  <2>3. PICK k \in Intervals, stopped \in Stoppable(alarm) :
           /\ registered' = (registered \ stopped) \ (IF k = 0 THEN {alarm} ELSE {})
           /\ alarm' = llist.next[alarm]
    BY <1>1, CallEffect
  <2>4. stopped \subseteq {alarm}
    BY DEF Stoppable, OwnOnly
  <2> QED BY <2>2, <2>3, <2>4
<1>2. CursorInv /\ [Next]_vars => CursorInv' /\ [Next /\ SparesNext]_vars
  BY <1>1, CursorNext
<1> QED BY CursorInit, <1>2, PTL DEF Spec, CarefulSpec

-----------------------------------------------------------------------------
(* The clock.                                                              *)

\* The alarms in R on the way from c to Head.
Ahead(l, R, c) ==
    {a \in R : \A s \in SUBSET (R \union {Head}) :
                   c \in s /\ (\A e \in s \ {Head} : l.next[e] \in s) => a \in s}

LEMMA NoneAheadOfHead ==
    ASSUME NEW l, NEW R \in SUBSET Alarms PROVE Ahead(l, R, Head) = {}
<1> SUFFICES ASSUME NEW a \in Ahead(l, R, Head) PROVE FALSE
  OBVIOUS
<1>1. {Head} \in SUBSET (R \union {Head})
  OBVIOUS
<1>2. a \in {Head} /\ a \in R
  BY <1>1 DEF Ahead
<1> QED BY <1>2, AlarmAssumption

LEMMA AllAheadOfFirst ==
    ASSUME NEW l, NEW R \in SUBSET Alarms, Sound(l, R)
    PROVE  R \subseteq Ahead(l, R, l.next[Head])
<1> SUFFICES ASSUME NEW a \in R, NEW s \in SUBSET (R \union {Head}),
                    l.next[Head] \in s, \A e \in s \ {Head} : l.next[e] \in s
             PROVE  a \in s
  BY DEF Ahead
<1>1. s \union {Head} \in SUBSET (R \union {Head}) /\ Head \in s \union {Head}
  OBVIOUS
<1>2. \A e \in s \union {Head} : l.next[e] \in s \union {Head}
  OBVIOUS
<1>3. s \union {Head} = R \union {Head}
  BY <1>1, <1>2 DEF Sound, Whole
<1> QED BY <1>3, AlarmAssumption

\* Past an alarm c, those behind it are still ahead.
LEMMA AheadOfNext ==
    ASSUME NEW l, NEW R \in SUBSET Alarms, NEW c \in R
    PROVE  Ahead(l, R, c) \ {c} \subseteq Ahead(l, R, l.next[c])
<1> SUFFICES ASSUME NEW a \in Ahead(l, R, c), a # c,
                    NEW s \in SUBSET (R \union {Head}), l.next[c] \in s,
                    \A e \in s \ {Head} : l.next[e] \in s
             PROVE  a \in s
  BY DEF Ahead
<1>1. s \union {c} \in SUBSET (R \union {Head}) /\ c \in s \union {c}
  OBVIOUS
<1>2. \A e \in (s \union {c}) \ {Head} : l.next[e] \in s \union {c}
  OBVIOUS
<1>3. a \in s \union {c}
  BY <1>1, <1>2 DEF Ahead
<1> QED BY <1>3

\* The others are still ahead of d when an alarm b is unlinked anywhere else.
LEMMA AheadUnlinked ==
    ASSUME NEW l \in Lists, NEW R \in SUBSET Alarms, Sound(l, R),
           NEW b \in Alarms, l.next[b] # Null, NEW d \in R \union {Head}, d # b
    PROVE  Ahead(l, R, d) \ {b} \subseteq Ahead(Unlinked(l, b), R \ {b}, d)
<1> DEFINE m == Unlinked(l, b)
           p == l.previous[b]
<1>0. R \union {Head} \subseteq Elements /\ b \in Elements /\ Head # b
  BY AlarmAssumption DEF Elements
<1>1. CASE b \notin R
  <2>1. \A e \in Elements : m.next[e] = l.next[e]
    BY <1>1, UnlinkedSound
  <2>2. R \ {b} = R
    BY <1>1
  <2> HIDE DEF m
  <2>3. Ahead(m, R, d) = Ahead(l, R, d)
    BY <1>0, <2>1 DEF Ahead
  <2> QED BY <2>2, <2>3 DEF m
<1>2. CASE b \in R
  <2>1. /\ l.next[b] \in R \union {Head} /\ p \in R \union {Head}
        /\ l.next[p] = b
    BY <1>2 DEF Sound, Ring
  <2>2. \A e \in Elements \ {b} :
           m.next[e] = IF e = p THEN l.next[b] ELSE l.next[e]
    BY <1>0, <2>1, UnlinkedLinks
  <2> HIDE DEF m, p
  <2> SUFFICES ASSUME NEW a \in Ahead(l, R, d), a # b,
                      NEW s \in SUBSET ((R \ {b}) \union {Head}), d \in s,
                      \A e \in s \ {Head} : m.next[e] \in s
               PROVE  a \in s
    BY DEF Ahead, m
  <2>3. \A e \in s : e \in Elements \ {b}
    BY <1>0
  <2>4. CASE p \in s \ {Head}
    <3>1. l.next[b] \in s
      BY <2>2, <2>3, <2>4
    <3>2. \A e \in (s \union {b}) \ {Head} : l.next[e] \in s \union {b}
      BY <2>1, <2>2, <2>3, <3>1
    <3>3. s \union {b} \in SUBSET (R \union {Head}) /\ d \in s \union {b}
      BY <1>2
    <3>4. a \in s \union {b}
      BY <3>2, <3>3 DEF Ahead
    <3> QED BY <3>4
  <2>5. CASE p \notin s \ {Head}
    <3>1. \A e \in s \ {Head} : l.next[e] \in s
      BY <2>2, <2>3, <2>5
    <3>2. s \in SUBSET (R \union {Head})
      OBVIOUS
    <3> QED BY <3>1, <3>2 DEF Ahead
  <2> QED BY <2>4, <2>5
<1> QED BY <1>1, <1>2

\* What a callback that spares the next alarm leaves ahead of it.
LEMMA CallAhead ==
    ASSUME CursorInv, TickCall, SparesNext
    PROVE  \A a \in registered' \ {alarm} :
               a \in Ahead(llist, registered, alarm) =>
                   a \in Ahead(llist', registered', alarm')
<1> DEFINE n == llist.next[alarm]
<1>0. /\ alarm \in registered /\ alarm \in Alarms
      /\ registered \in SUBSET Alarms /\ llist \in Lists /\ llist.next[alarm] # Null
      /\ Sound(llist, registered) /\ ListInv /\ alarm \in Elements
  BY DEF CursorInv, ListInv, TypeOK, TickCall, Lists, Elements
<1>1. PICK k \in Intervals, stopped \in Stoppable(alarm) :
         /\ registered' = (registered \ stopped) \ (IF k = 0 THEN {alarm} ELSE {})
         /\ llist' = IF k = 0 THEN Unlinked(WithoutAll(llist, stopped), alarm)
                              ELSE WithoutAll(llist, stopped)
         /\ alarm' = n
  BY CallEffect
<1>2. n \in registered' \union {Head} /\ n # alarm /\ n \in registered \union {Head}
  BY <1>0, <1>1, CallGoesOn DEF Sound, Ring
<1> DEFINE left == WithoutAll(llist, stopped)
           R == registered \ stopped
<1>3. /\ left \in Lists /\ Sound(left, R) /\ left.next[alarm] # Null
      /\ R \in SUBSET Alarms
  BY <1>0, StoppedSound
<1>4. n \in R \union {Head}
  BY <1>1, <1>2
<1> HIDE DEF n
<1> SUFFICES ASSUME NEW a \in registered', a # alarm,
                    a \in Ahead(llist, registered, alarm)
             PROVE  a \in Ahead(llist', registered', n)
  BY <1>1
<1>5. a \in Ahead(llist, registered, n)
  BY <1>0, AheadOfNext DEF n
<1>6. a \in Ahead(left, R, n)
  <2>1. CASE stopped = {}
    BY <1>5, <2>1 DEF WithoutAll
  <2>2. CASE stopped # {}
    <3>1. PICK b \in Alarms : stopped = {b} /\ llist.next[b] # Null
      BY <2>2, AlarmAssumption DEF Stoppable
    <3>2. left = Unlinked(llist, b)
      BY <3>1 DEF WithoutAll
    <3>3. a # b /\ n # b
      BY <1>1, <1>4, <3>1, AlarmAssumption
    <3> HIDE DEF left
    <3> QED BY <1>0, <1>2, <1>5, <3>1, <3>2, <3>3, AheadUnlinked
  <2> QED BY <2>1, <2>2
<1> HIDE DEF left
<1>7. CASE k = 0
  <2>1. a \in Ahead(Unlinked(left, alarm), R \ {alarm}, n)
    <3> HIDE DEF R
    <3> QED BY <1>0, <1>2, <1>3, <1>4, <1>6, AheadUnlinked
  <2> QED BY <1>1, <1>7, <2>1 DEF left
<1>8. CASE k # 0
  BY <1>1, <1>6, <1>8 DEF left
<1> QED BY <1>7, <1>8

\* Yet to be visited in this tick: due, or with a flag to clear.
Todo(a) == Due(a) = 0 \/ (_alt_nticks = 0 /\ rollover[a])

TimeInv ==
    /\ CursorInv
    /\ \A a \in registered :
          /\ ~Rolling(a) => _alt_nticks <= time[a]
          /\ Todo(a) => ticking /\ a \in Ahead(llist, registered, alarm)

\* Starting sets an alarm's time and flag so that it is due after the delay.
LEMMA DueAfterStart ==
    ASSUME DelaysKeptShort, NEW n \in Delays, NEW now \in 0..(WRAP - 1)
    PROVE  LET t == Plus(n, now + 1) IN
           /\ t \in 0..(WRAP - 1)
           /\ t < now => now # 0 /\ t + WRAP - now = n + 1
           /\ ~(t < now) => t - now = n + 1
<1>1. n \in Nat /\ n <= WRAP - 2
  BY AlarmAssumption DEF DelaysKeptShort
<1> QED BY <1>1, AlarmAssumption DEF Plus

\* So does the interval its callback returns.
LEMMA DueAfterCall ==
    ASSUME NEW k \in Intervals, k # 0, NEW now \in 0..(WRAP - 1)
    PROVE  LET t == Plus(now, k) IN
           /\ t \in 0..(WRAP - 1)
           /\ t < now => now # 0 /\ t + WRAP - now = k
           /\ ~(t < now) => t - now = k
<1>1. k \in Nat /\ k <= WRAP - 1
  BY AlarmAssumption
<1> QED BY <1>1, AlarmAssumption DEF Plus

LEMMA TypesInTime ==
    ASSUME TimeInv
    PROVE  /\ Sound(llist, registered) /\ registered \in SUBSET Alarms
           /\ llist \in Lists
           /\ _alt_nticks \in 0..(WRAP - 1)
           /\ time \in [Alarms -> 0..(WRAP - 1)] /\ rollover \in [Alarms -> BOOLEAN]
           /\ \A a \in registered : Due(a) \in Nat
<1>1. /\ Sound(llist, registered) /\ registered \in SUBSET Alarms
      /\ llist \in Lists
      /\ _alt_nticks \in 0..(WRAP - 1)
      /\ time \in [Alarms -> 0..(WRAP - 1)] /\ rollover \in [Alarms -> BOOLEAN]
  BY DEF TimeInv, CursorInv, ListInv, TypeOK, Lists
<1>2. ASSUME NEW a \in registered PROVE Due(a) \in Nat
  <2>1. time[a] \in 0..(WRAP - 1) /\ (~Rolling(a) => _alt_nticks <= time[a])
    BY <1>1 DEF TimeInv
  <2> QED BY <1>1, <2>1, AlarmAssumption DEF Due
<1> QED BY <1>1, <1>2

Mapped == [a \in registered |-> Due(a)]

\* Each step keeps the invariant and is a step of the clock.
LEMMA StartOnTime ==
    ASSUME DelaysKeptShort, TimeInv, AlarmStart
    PROVE  /\ \A a \in registered' :
                 /\ ~Rolling(a)' => _alt_nticks' <= time'[a]
                 /\ ~Todo(a)'
           /\ \E a \in Alarms : Clock!Start(a)
<1>0. /\ registered \in SUBSET Alarms /\ _alt_nticks \in 0..(WRAP - 1)
      /\ time \in [Alarms -> 0..(WRAP - 1)] /\ rollover \in [Alarms -> BOOLEAN]
  BY TypesInTime
<1>1. PICK a \in Alarms \ registered, n \in Delays :
         /\ time' = [time EXCEPT ![a] = Plus(n, _alt_nticks + 1)]
         /\ rollover' = [rollover EXCEPT ![a] = RollsOver(Plus(n, _alt_nticks + 1))]
         /\ registered' = registered \union {a}
         /\ _alt_nticks' = _alt_nticks /\ ~ticking
  BY DEF AlarmStart
<1> DEFINE t == Plus(n, _alt_nticks + 1)
<1>2. /\ time'[a] = t /\ rollover'[a] = (t < _alt_nticks)
      /\ \A b \in registered : time'[b] = time[b] /\ rollover'[b] = rollover[b]
  BY <1>0, <1>1 DEF RollsOver
<1>3. /\ t \in 0..(WRAP - 1)
      /\ t < _alt_nticks => _alt_nticks # 0 /\ t + WRAP - _alt_nticks = n + 1
      /\ ~(t < _alt_nticks) => t - _alt_nticks = n + 1
  BY <1>0, DueAfterStart
<1> HIDE DEF t
<1>4. \A b \in registered : Due(b)' = Due(b) /\ Rolling(b)' = Rolling(b) /\ Todo(b)' = Todo(b)
  BY <1>1, <1>2 DEF Due, Rolling, Todo
<1>5. Rolling(a)' <=> t < _alt_nticks
  BY <1>1, <1>2, <1>3 DEF Rolling
<1>6. Due(a)' = n + 1
  BY <1>1, <1>2, <1>3, <1>5 DEF Due
<1>7. ~Todo(a)'
  <2>1. n + 1 # 0
    BY AlarmAssumption
  <2>2. ~(_alt_nticks' = 0 /\ rollover'[a])
    BY <1>1, <1>2, <1>3
  <2> QED BY <2>1, <2>2, <1>6 DEF Todo
<1>8. \A b \in registered : ~Todo(b) /\ (~Rolling(b) => _alt_nticks <= time[b])
  BY <1>1 DEF TimeInv
<1>9. ~Rolling(a)' => _alt_nticks' <= time'[a]
  BY <1>0, <1>1, <1>2, <1>3, <1>5
<1>10. Mapped' = [b \in registered \union {a} |-> IF b = a THEN n + 1 ELSE Mapped[b]]
  BY <1>1, <1>4, <1>6 DEF Mapped
<1>11. Clock!Start(a)
  BY <1>1, <1>10 DEF Clock!Start, Clock!Keep, Mapped
<1> QED BY <1>1, <1>2, <1>4, <1>7, <1>8, <1>9, <1>11

LEMMA StopOnTime ==
    ASSUME TimeInv, AlarmStop
    PROVE  /\ \A a \in registered' :
                 /\ ~Rolling(a)' => _alt_nticks' <= time'[a]
                 /\ ~Todo(a)'
           /\ (\E a \in Alarms : Clock!Stop(a)) \/ UNCHANGED <<registered, Mapped>>
<1>1. PICK a \in Alarms : /\ registered' = registered \ {a}
                          /\ UNCHANGED <<_alt_nticks, time, rollover>> /\ ~ticking
  BY DEF AlarmStop
<1>2. \A b \in registered : Due(b)' = Due(b) /\ Rolling(b)' = Rolling(b) /\ Todo(b)' = Todo(b)
  BY <1>1 DEF Due, Rolling, Todo
<1>3. \A b \in registered : ~Todo(b) /\ (~Rolling(b) => _alt_nticks <= time[b])
  BY <1>1 DEF TimeInv
<1>4. Mapped' = [b \in registered \ {a} |-> Mapped[b]]
  BY <1>1, <1>2 DEF Mapped
<1>5. CASE a \in registered
  BY <1>1, <1>2, <1>3, <1>4, <1>5 DEF Clock!Stop, Clock!Keep, Mapped
<1>6. CASE a \notin registered
  <2>1. registered' = registered
    BY <1>1, <1>6
  <2>2. Mapped' = Mapped
    BY <1>2, <2>1 DEF Mapped
  <2> QED BY <1>1, <1>2, <1>3, <2>1, <2>2
<1> QED BY <1>5, <1>6

\* What TimeInv says of each alarm.
TimeKept ==
    \A a \in registered :
        /\ ~Rolling(a) => _alt_nticks <= time[a]
        /\ Todo(a) => ticking /\ a \in Ahead(llist, registered, alarm)

LEMMA BeginOnTime ==
    ASSUME TimeInv, TickBegin
    PROVE  TimeKept' /\ Clock!Elapse
<1>0. /\ Sound(llist, registered) /\ registered \in SUBSET Alarms
      /\ _alt_nticks \in 0..(WRAP - 1) /\ time \in [Alarms -> 0..(WRAP - 1)]
      /\ rollover \in [Alarms -> BOOLEAN] /\ \A a \in registered : Due(a) \in Nat
  BY TypesInTime
<1>1. /\ ~ticking /\ ticking' /\ alarm' = llist.next[Head]
      /\ _alt_nticks' = Plus(_alt_nticks, 1)
      /\ UNCHANGED <<llist, time, rollover, registered>>
  BY DEF TickBegin
<1>2. \A a \in registered : a \in Ahead(llist', registered', alarm')
  BY <1>0, <1>1, AllAheadOfFirst
<1>3. ASSUME NEW a \in registered
      PROVE  /\ Due(a) > 0 /\ Due(a)' = Due(a) - 1
             /\ ~Rolling(a)' => _alt_nticks' <= time'[a]
  <2>1. Due(a) # 0 /\ ~(_alt_nticks = 0 /\ rollover[a]) /\ (~Rolling(a) => _alt_nticks <= time[a])
    BY <1>1 DEF TimeInv, Todo
  <2>2. time[a] \in 0..(WRAP - 1)
    BY <1>0
  <2>3. CASE _alt_nticks + 1 < WRAP
    <3>1. _alt_nticks' = _alt_nticks + 1 /\ _alt_nticks' # 0
      BY <1>0, <1>1, <2>3 DEF Plus
    <3>2. Rolling(a)' <=> Rolling(a)
      BY <1>1, <2>1, <3>1 DEF Rolling
    <3>3. CASE Rolling(a)
      BY <1>0, <1>1, <2>1, <2>2, <3>1, <3>2, <3>3, AlarmAssumption DEF Due
    <3>4. CASE ~Rolling(a)
      BY <1>0, <1>1, <2>1, <2>2, <3>1, <3>2, <3>4, AlarmAssumption DEF Due
    <3> QED BY <3>3, <3>4
  <2>4. CASE ~(_alt_nticks + 1 < WRAP)
    <3>1. _alt_nticks = WRAP - 1 /\ _alt_nticks' = 0
      BY <1>0, <1>1, <2>4, AlarmAssumption DEF Plus
    <3>2. ~Rolling(a)'
      BY <3>1 DEF Rolling
    <3>3. Rolling(a)
      <4> SUFFICES ASSUME ~Rolling(a) PROVE FALSE
        OBVIOUS
      <4>1. Due(a) = time[a] - _alt_nticks
        BY DEF Due
      <4> QED BY <4>1, <2>1, <2>2, <3>1, AlarmAssumption
    <3>4. Due(a) = time[a] + WRAP - _alt_nticks /\ Due(a)' = time[a] - 0
      BY <3>1, <3>2, <3>3, <1>1 DEF Due
    <3> QED BY <3>1, <3>4, <1>1, <2>2, AlarmAssumption
  <2> QED BY <2>3, <2>4
<1>4. TimeKept'
  BY <1>1, <1>2, <1>3 DEF TimeKept
<1>5. Mapped' = [a \in registered |-> Mapped[a] - 1]
  BY <1>1, <1>3 DEF Mapped
<1>6. Clock!Elapse
  BY <1>1, <1>3, <1>5 DEF Clock!Elapse, Clock!Keep, Mapped
<1> QED BY <1>4, <1>6

LEMMA SkipOnTime ==
    ASSUME TimeInv, TickSkip
    PROVE  TimeKept' /\ UNCHANGED <<registered, Mapped>>
<1>0. /\ Sound(llist, registered) /\ registered \in SUBSET Alarms
      /\ _alt_nticks \in 0..(WRAP - 1) /\ time \in [Alarms -> 0..(WRAP - 1)]
      /\ rollover \in [Alarms -> BOOLEAN]
  BY TypesInTime
<1>1. /\ ticking' = ticking /\ ticking /\ alarm' = llist.next[alarm] /\ ~Expired(alarm)
      /\ rollover' = [rollover EXCEPT ![alarm] = Rolling(alarm)]
      /\ UNCHANGED <<_alt_nticks, llist, time, registered>>
  BY DEF TickSkip
<1>2. alarm \in registered
  BY DEF TickSkip, TimeInv, CursorInv
<1>3. \A a \in registered : Rolling(a)' <=> Rolling(a)
  <2> SUFFICES ASSUME NEW a \in registered PROVE Rolling(a)' <=> Rolling(a)
    OBVIOUS
  <2>1. CASE a = alarm
    <3>1. rollover'[a] = Rolling(a)
      BY <1>0, <1>1, <1>2, <2>1
    <3> QED BY <3>1, <1>1 DEF Rolling
  <2>2. CASE a # alarm
    <3>1. rollover'[a] = rollover[a]
      BY <1>0, <1>1, <2>2
    <3> QED BY <3>1, <1>1 DEF Rolling
  <2> QED BY <2>1, <2>2
<1>4. \A a \in registered : Due(a)' = Due(a)
  BY <1>1, <1>3 DEF Due
<1>5. ASSUME NEW a \in registered, a = alarm PROVE ~Todo(a)'
  <2>1. Due(a) # 0
    <3>0. time[a] \in 0..(WRAP - 1)
      BY <1>0
    <3>1. CASE Rolling(a)
      BY <3>0, <3>1, <1>0, AlarmAssumption DEF Due
    <3>2. CASE ~Rolling(a)
      BY <3>0, <3>2, <1>0, <1>1, <1>5, AlarmAssumption DEF Due, Expired
    <3> QED BY <3>1, <3>2
  <2>2. rollover'[a] = Rolling(a) /\ _alt_nticks' = _alt_nticks
    BY <1>0, <1>1, <1>5
  <2>3. ~(_alt_nticks' = 0 /\ rollover'[a])
    BY <2>2 DEF Rolling
  <2> QED BY <2>1, <2>3, <1>4 DEF Todo
<1>6. Ahead(llist, registered, alarm) \ {alarm} \subseteq Ahead(llist, registered, llist.next[alarm])
  BY <1>0, <1>2, AheadOfNext
<1>7. ASSUME NEW a \in registered
      PROVE  /\ ~Rolling(a)' => _alt_nticks' <= time'[a]
             /\ Todo(a)' => ticking' /\ a \in Ahead(llist', registered', alarm')
  <2>1. ~Rolling(a)' => _alt_nticks' <= time'[a]
    BY <1>1, <1>3 DEF TimeInv
  <2>2. CASE a = alarm
    BY <2>1, <2>2, <1>5
  <2>3. CASE a # alarm
    <3>1. Todo(a)' => Todo(a)
      BY <1>0, <1>1, <1>4, <2>3 DEF Todo
    <3> QED BY <2>1, <2>3, <3>1, <1>1, <1>6 DEF TimeInv
  <2> QED BY <2>2, <2>3
<1>8. Mapped' = Mapped
  BY <1>1, <1>4 DEF Mapped
<1> QED BY <1>1, <1>7, <1>8 DEF TimeKept

LEMMA EndOnTime ==
    ASSUME TimeInv, TickEnd
    PROVE  TimeKept' /\ UNCHANGED <<registered, Mapped>>
<1>1. /\ alarm = Head
      /\ UNCHANGED <<_alt_nticks, llist, time, rollover, alarm, registered>>
  BY DEF TickEnd
<1>2. Ahead(llist, registered, alarm) = {}
  BY <1>1, NoneAheadOfHead, TypesInTime
<1>3. \A a \in registered : ~Todo(a) /\ (~Rolling(a) => _alt_nticks <= time[a])
  BY <1>2 DEF TimeInv
<1>4. \A a \in registered : Due(a)' = Due(a) /\ Rolling(a)' = Rolling(a) /\ Todo(a)' = Todo(a)
  BY <1>1 DEF Due, Rolling, Todo
<1>5. TimeKept'
  BY <1>1, <1>3, <1>4 DEF TimeKept
<1>6. Mapped' = Mapped
  BY <1>1, <1>4 DEF Mapped
<1> QED BY <1>1, <1>5, <1>6

LEMMA CallOnTime ==
    ASSUME TimeInv, TickCall, SparesNext
    PROVE  TimeKept' /\ \E a \in Alarms : Clock!Call(a)
<1>0. /\ Sound(llist, registered) /\ registered \in SUBSET Alarms /\ llist \in Lists
      /\ _alt_nticks \in 0..(WRAP - 1) /\ time \in [Alarms -> 0..(WRAP - 1)]
      /\ rollover \in [Alarms -> BOOLEAN]
  BY TypesInTime
<1>1. PICK c \in registered : c = alarm
  BY DEF TickCall, TimeInv, CursorInv
<1>2. PICK k \in Intervals, stopped \in Stoppable(c) :
         /\ registered' = (registered \ stopped) \ (IF k = 0 THEN {c} ELSE {})
         /\ \A a \in Alarms \ {c} : time'[a] = time[a] /\ rollover'[a] = rollover[a]
         /\ c \in registered' =>
                /\ k # 0
                /\ time'[c] = Plus(time[c], k)
                /\ rollover'[c] = RollsOver(Plus(time[c], k))
         /\ alarm' = llist.next[c]
         /\ UNCHANGED <<_alt_nticks, ticking>>
  BY <1>1, CallEffect DEF TimeInv
<1>3. ticking /\ time[c] = _alt_nticks /\ ~Rolling(c)
  <2>1. ticking /\ time[c] <= _alt_nticks /\ ~Rolling(c)
    BY <1>1 DEF TickCall, Expired
  <2>2. _alt_nticks <= time[c] /\ time[c] \in 0..(WRAP - 1)
    BY <1>0, <1>1, <2>1 DEF TimeInv
  <2> QED BY <2>1, <2>2, <1>0, AlarmAssumption
<1>4. Due(c) = 0
  BY <1>0, <1>3, AlarmAssumption DEF Due
<1>5. \A a \in registered \ {c} :
         Rolling(a)' = Rolling(a) /\ Due(a)' = Due(a) /\ Todo(a)' = Todo(a)
  BY <1>0, <1>2 DEF Rolling, Due, Todo
<1>6. c \in registered' =>
         Due(c)' = k /\ ~Todo(c)' /\ (~Rolling(c)' => _alt_nticks' <= time'[c])
  <2> SUFFICES ASSUME c \in registered'
               PROVE  Due(c)' = k /\ ~Todo(c)' /\ (~Rolling(c)' => _alt_nticks' <= time'[c])
    OBVIOUS
  <2> DEFINE t == Plus(_alt_nticks, k)
  <2>1. k # 0 /\ time'[c] = t /\ rollover'[c] = (t < _alt_nticks) /\ _alt_nticks' = _alt_nticks
    BY <1>2, <1>3 DEF RollsOver
  <2>2. /\ t \in 0..(WRAP - 1)
        /\ t < _alt_nticks => _alt_nticks # 0 /\ t + WRAP - _alt_nticks = k
        /\ ~(t < _alt_nticks) => t - _alt_nticks = k
    BY <1>0, <2>1, DueAfterCall
  <2> HIDE DEF t
  <2>3. Rolling(c)' <=> t < _alt_nticks
    BY <2>1, <2>2 DEF Rolling
  <2>4. Due(c)' = k
    BY <2>1, <2>2, <2>3 DEF Due
  <2>5. ~(_alt_nticks' = 0 /\ rollover'[c])
    BY <2>1, <2>2
  <2>6. ~Todo(c)'
    BY <2>1, <2>4, <2>5 DEF Todo
  <2>7. ~Rolling(c)' => _alt_nticks' <= time'[c]
    BY <1>0, <2>1, <2>2, <2>3
  <2> QED BY <2>4, <2>6, <2>7
<1>7. \A a \in registered' \ {c} :
          a \in Ahead(llist, registered, c) => a \in Ahead(llist', registered', alarm')
  BY <1>1, CallAhead DEF TimeInv
<1>8. registered' \subseteq registered
  BY <1>2
<1>9. ASSUME NEW a \in registered'
      PROVE  /\ ~Rolling(a)' => _alt_nticks' <= time'[a]
             /\ Todo(a)' => ticking' /\ a \in Ahead(llist', registered', alarm')
  <2>1. CASE a = c
    BY <2>1, <1>6
  <2>2. CASE a # c
    <3>1. a \in registered \ {c} /\ a \in Alarms \ {c}
      BY <2>2, <1>0, <1>8
    <3>2. ~Rolling(a)' => _alt_nticks' <= time'[a]
      BY <3>1, <1>2, <1>5 DEF TimeInv
    <3>3. Todo(a)' => a \in Ahead(llist, registered, c)
      BY <3>1, <1>1, <1>5 DEF TimeInv
    <3> QED BY <3>1, <3>2, <3>3, <1>2, <1>3, <1>7
  <2> QED BY <2>1, <2>2
<1>10. Mapped' = [a \in registered' |-> [Mapped EXCEPT ![c] = k][a]]
  BY <1>5, <1>6, <1>8 DEF Mapped
<1>11. c \in Alarms /\ Mapped[c] = 0
  BY <1>0, <1>4 DEF Mapped
<1>12. stopped \in {{}} \union {{b} : b \in {x \in Alarms : <<c, x>> \in MayStop}}
  BY DEF Stoppable
<1>13. Clock!Call(c)
  BY <1>2, <1>10, <1>11, <1>12 DEF Clock!Call, Clock!Keep, Mapped
<1> QED BY <1>9, <1>11, <1>13 DEF TimeKept

LEMMA TimeNext ==
    ASSUME DelaysKeptShort, TimeInv, [Next /\ SparesNext]_vars
    PROVE  TimeInv' /\ [Clock!Next]_<<registered, Mapped>>
<1>1. CursorInv'
  BY CursorNext DEF TimeInv
<1>2. TimeKept' => TimeInv'
  BY <1>1 DEF TimeKept, TimeInv
<1>3. CASE AlarmStart
  BY <1>2, <1>3, StartOnTime DEF TimeKept, Clock!Next
<1>4. CASE AlarmStop
  BY <1>2, <1>4, StopOnTime DEF TimeKept, Clock!Next
<1>5. CASE TickBegin
  BY <1>2, <1>5, BeginOnTime DEF Clock!Next
<1>6. CASE TickSkip
  BY <1>2, <1>6, SkipOnTime
<1>7. CASE TickCall
  BY <1>2, <1>7, CallMoves, CallOnTime DEF Clock!Next, TimeInv
<1>8. CASE TickEnd
  BY <1>2, <1>8, EndOnTime
<1>9. CASE UNCHANGED vars
  <2>1. TimeInv'
    BY <1>1, <1>9 DEF TimeInv, vars, Todo, Due, Rolling, Ahead
  <2>2. Mapped' = Mapped /\ registered' = registered
    BY <1>9 DEF Mapped, vars, Due, Rolling
  <2> QED BY <2>1, <2>2
<1> QED BY <1>3, <1>4, <1>5, <1>6, <1>7, <1>8, <1>9 DEF Next, Tick

\* Starting, stopping and ticking implement the clock for every number of
\* alarms and every width of the counter, if no caller asks for the longest
\* delay and callbacks stop any alarm but the one after their own: no alarm is
\* early or late and none is called after it stopped.
THEOREM AlarmsOnTime ==
    ASSUME DelaysKeptShort PROVE CarefulSpec => OnTime
<1>1. Init => TimeInv /\ Clock!Init
  BY CursorInit DEF Init, TimeInv, Clock!Init, Mapped
<1>2. TimeInv /\ [Next /\ SparesNext]_vars => TimeInv' /\ [Clock!Next]_<<registered, Mapped>>
  BY TimeNext
<1>3. Clock!clockVars = <<registered, Mapped>>
  BY DEF Clock!clockVars, Mapped
<1> QED BY <1>1, <1>2, <1>3, PTL DEF CarefulSpec, OnTime, Clock!Spec, Mapped, Clock!clockVars
=============================================================================
