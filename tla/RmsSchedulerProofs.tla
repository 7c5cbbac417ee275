------------------------- MODULE RmsSchedulerProofs -------------------------
(***************************************************************************)
(* Proofs about the scheduler, for every width of its counter.             *)
(***************************************************************************)
EXTENDS RmsScheduler, SequenceTheorems, TLAPS

USE SchedulerAssumption

\* A slower thread's multiples are a faster thread's multiples.
LEMMA Harmonic ==
    ASSUME NEW c \in Int
    PROVE  /\ c % 1 = 0
           /\ c % 10 # 0 => c % 100 # 0 /\ c % 1000 # 0
           /\ c % 100 # 0 => c % 1000 # 0
OBVIOUS

\* How a remainder moves with its dividend.
LEMMA Remainder ==
    ASSUME NEW p \in Periods, NEW c \in Int
    PROVE  /\ p \in Int /\ p > 0
           /\ c % p \in 0..(p - 1)
           /\ 0 % p = 0
           /\ (c + 1) - 1 = c
           /\ (c + 1) % p = IF c % p = p - 1 THEN 0 ELSE (c % p) + 1
           /\ c % p # 0 => ((c - 1) % p) + 1 = c % p
<1>1. CASE p = 1
  BY <1>1
<1>2. CASE p = 10
  BY <1>2
<1>3. CASE p = 100
  BY <1>3
<1>4. CASE p = 1000
  BY <1>4
<1> QED BY <1>1, <1>2, <1>3, <1>4 DEF Periods

\* Where the first multiple above the counter's lowest value lies, and how
\* far the last one is from the highest.
LEMMA StubFacts ==
    ASSUME NEW p \in Periods
    PROVE  /\ Stub(p) \in 0..(p - 1)
           /\ INT_MIN \in Int /\ INT_MIN + Stub(p) < 0
           /\ (INT_MIN + Stub(p)) % p = 0
           /\ \A c \in Int : INT_MIN <= c /\ c < INT_MIN + Stub(p) => c % p # 0
           /\ INT_MAX % p = IF Stub(p) = 0 THEN p - 1 ELSE Stub(p) - 1
<1> USE DEF Stub, INT_MIN
<1>1. CASE p = 1
  BY <1>1
<1>2. CASE p = 10
  BY <1>2
<1>3. CASE p = 100
  BY <1>3
<1>4. CASE p = 1000
  BY <1>4
<1> QED BY <1>1, <1>2, <1>3, <1>4 DEF Periods

LEMMA CallOrderIs ==
    /\ CallOrder[1] = 1 /\ CallOrder[2] = 10
    /\ CallOrder[3] = 100 /\ CallOrder[4] = 1000
BY DEF CallOrder

\* The test of the k-th thread keeps its count right.
LEMMA CountedByRun ==
    ASSUME TypeOK, RunThread, NEW k \in 1..4, NEW p \in Periods,
           CallOrder[k] = p, Counted(k, p)
    PROVE  Counted(k, p)'
<1> USE DEF TypeOK, End
<1>u. nRmsSchedulerClock' = nRmsSchedulerClock /\ at' = at + 1 /\ at \in 1..4
  BY DEF RunThread
<1>c. nRmsSchedulerClock \in Int /\ INT_MIN <= nRmsSchedulerClock
      /\ INT_MIN' = INT_MIN /\ Stub(p)' = Stub(p)
  BY DEF Stub, INT_MIN
<1>s. /\ Stub(p) \in 0..(p - 1)
      /\ INT_MIN \in Int /\ INT_MIN + Stub(p) < 0
      /\ (INT_MIN + Stub(p)) % p = 0
      /\ \A c \in Int : INT_MIN <= c /\ c < INT_MIN + Stub(p) => c % p # 0
      /\ INT_MAX % p = IF Stub(p) = 0 THEN p - 1 ELSE Stub(p) - 1
  BY StubFacts
<1>r. /\ p \in Int /\ p > 0
      /\ nRmsSchedulerClock % p \in 0..(p - 1)
      /\ 0 % p = 0
      /\ (nRmsSchedulerClock + 1) - 1 = nRmsSchedulerClock
      /\ (nRmsSchedulerClock + 1) % p = IF nRmsSchedulerClock % p = p - 1 THEN 0
                                        ELSE (nRmsSchedulerClock % p) + 1
      /\ nRmsSchedulerClock % p # 0 =>
             ((nRmsSchedulerClock - 1) % p) + 1 = nRmsSchedulerClock % p
  BY <1>c, Remainder
<1>1. CASE at = k
  <2>1. /\ Due(p) => since'[p] = 0 /\ ~fresh'[p]
        /\ ~Due(p) => since'[p] = since[p] /\ fresh'[p] = fresh[p]
    BY <1>1 DEF RunThread
  <2>2. at' > k /\ ~(at' <= k)
    BY <1>1, <1>u
  <2>5. CASE Due(p)
    <3>1. ~(nRmsSchedulerClock < INT_MIN + Stub(p))
      BY <2>5, <1>c, <1>s DEF Due
    <3> QED BY <2>1, <2>2, <2>5, <3>1, <1>u DEF Counted, After, Due
  <2>6. CASE ~Due(p)
    <3>1. Before(p) = After(p) /\ nRmsSchedulerClock # INT_MIN + Stub(p)
          /\ nRmsSchedulerClock # 0
      <4>1. nRmsSchedulerClock % p # 0
        BY <2>6 DEF Due
      <4>2. nRmsSchedulerClock # INT_MIN + Stub(p) /\ nRmsSchedulerClock # 0
        BY <4>1, <1>s, <1>r
      <4>3. CASE nRmsSchedulerClock < INT_MIN + Stub(p)
        BY <4>2, <4>3, <1>c, <1>s DEF Before, After
      <4>4. CASE ~(nRmsSchedulerClock <= INT_MIN + Stub(p))
        <5>1. Before(p) = ((nRmsSchedulerClock - 1) % p) + 1
          BY <4>4 DEF Before
        <5>2. After(p) = nRmsSchedulerClock % p
          BY <4>4, <1>c, <1>s DEF After
        <5> QED BY <4>1, <4>2, <5>1, <5>2, <1>r
      <4> QED BY <4>2, <4>3, <4>4, <1>c, <1>s
    <3> QED BY <1>1, <1>u, <1>c, <1>s, <2>1, <2>2, <2>6, <3>1 DEF Counted, After
  <2> QED BY <2>5, <2>6
<1>2. CASE at # k
  <2>1. CallOrder[at] # p
    BY <1>2, <1>u, CallOrderIs
  <2>2. since'[p] = since[p] /\ fresh'[p] = fresh[p]
    BY <2>1, <1>u DEF RunThread
  <2> QED BY <1>2, <1>u, <2>2 DEF Counted, Before, After, Stub
<1> QED BY <1>1, <1>2

\* So does the step of the counter, also over the wrap.
LEMMA CountedByIncrement ==
    ASSUME TypeOK, Increment, NEW k \in 1..4, NEW p \in Periods,
           CallOrder[k] = p, Counted(k, p)
    PROVE  Counted(k, p)'
<1> USE DEF TypeOK, End
<1>u. /\ at = 5 /\ at' = 1
      /\ nRmsSchedulerClock' = Incremented(nRmsSchedulerClock)
      /\ since'[p] = since[p] + 1
      /\ fresh'[p] = (fresh[p] \/ nRmsSchedulerClock = INT_MAX)
  BY DEF Increment
<1>a. since[p] = After(p) /\ (nRmsSchedulerClock < INT_MIN + Stub(p) => fresh[p])
  BY <1>u DEF Counted
<1>c. nRmsSchedulerClock \in Int /\ INT_MIN <= nRmsSchedulerClock
      /\ INT_MIN' = INT_MIN /\ Stub(p)' = Stub(p)
  BY DEF Stub, INT_MIN
<1>s. /\ Stub(p) \in 0..(p - 1)
      /\ INT_MIN \in Int /\ INT_MIN + Stub(p) < 0
      /\ (INT_MIN + Stub(p)) % p = 0
      /\ \A c \in Int : INT_MIN <= c /\ c < INT_MIN + Stub(p) => c % p # 0
      /\ INT_MAX % p = IF Stub(p) = 0 THEN p - 1 ELSE Stub(p) - 1
  BY StubFacts
<1>r. /\ p \in Int /\ p > 0
      /\ nRmsSchedulerClock % p \in 0..(p - 1)
      /\ 0 % p = 0
      /\ (nRmsSchedulerClock + 1) - 1 = nRmsSchedulerClock
      /\ (nRmsSchedulerClock + 1) % p = IF nRmsSchedulerClock % p = p - 1 THEN 0
                                        ELSE (nRmsSchedulerClock % p) + 1
      /\ nRmsSchedulerClock % p # 0 =>
             ((nRmsSchedulerClock - 1) % p) + 1 = nRmsSchedulerClock % p
  BY <1>c, Remainder
<1>1. CASE nRmsSchedulerClock = INT_MAX
  <2>1. nRmsSchedulerClock' = INT_MIN /\ fresh'[p]
    BY <1>1, <1>u DEF Incremented
  <2>2. since'[p] = IF Stub(p) = 0 THEN p ELSE Stub(p)
    <3>1. After(p) = INT_MAX % p
      BY <1>1, <1>c, <1>s DEF After
    <3> QED BY <1>1, <1>u, <1>a, <1>s, <1>r, <3>1
  <2>3. Before(p)' = IF Stub(p) = 0 THEN p ELSE Stub(p)
    BY <1>c, <1>s, <1>r, <2>1 DEF Before
  <2> QED BY <1>u, <2>1, <2>2, <2>3 DEF Counted
<1>2. CASE nRmsSchedulerClock # INT_MAX
  <2>1. nRmsSchedulerClock' = nRmsSchedulerClock + 1 /\ fresh'[p] = fresh[p]
    BY <1>2, <1>u DEF Incremented
  <2>2. since'[p] = Before(p)'
    <3>1. CASE nRmsSchedulerClock < INT_MIN + Stub(p)
      <4>1. Before(p)' = (IF Stub(p) = 0 THEN p ELSE Stub(p))
                         + (nRmsSchedulerClock + 1 - INT_MIN)
        BY <3>1, <1>c, <1>s, <2>1 DEF Before
      <4>2. After(p) = Stub(p) + (nRmsSchedulerClock - INT_MIN)
        BY <3>1 DEF After
      <4>3. Stub(p) \in Int /\ Stub(p) # 0 /\ INT_MIN \in Int
        BY <3>1, <1>c, <1>s
      <4>4. since'[p] = since[p] + 1 /\ since[p] = After(p)
        BY <1>u, <1>a
      <4> QED BY ONLY <4>1, <4>2, <4>3, <4>4, nRmsSchedulerClock \in Int
    <3>2. CASE ~(nRmsSchedulerClock < INT_MIN + Stub(p))
      <4>1. Before(p)' = ((nRmsSchedulerClock' - 1) % p) + 1
        BY <3>2, <1>c, <1>s, <2>1 DEF Before
      <4>2. After(p) = nRmsSchedulerClock % p
        BY <3>2 DEF After
      <4> QED BY <4>1, <4>2, <1>u, <1>a, <1>r, <2>1
    <3> QED BY <3>1, <3>2
  <2>3. nRmsSchedulerClock' <= INT_MIN + Stub(p) => fresh'[p]
    BY <1>a, <1>c, <1>s, <2>1
  <2> QED BY <1>u, <1>c, <2>2, <2>3 DEF Counted
<1> QED BY <1>1, <1>2

\* The types are kept.
LEMMA TypeStep == ASSUME TypeOK, [Next]_vars PROVE TypeOK'
<1> USE DEF TypeOK, End, INT_MIN
<1>1. CASE RunThread
  <2>1. at \in 1..4 /\ at' \in 1..5 /\ nRmsSchedulerClock' = nRmsSchedulerClock
    BY <1>1 DEF RunThread
  <2>2. CallOrder[at] \in Periods
    BY <2>1, CallOrderIs DEF Periods
  <2>3. CASE Due(CallOrder[at])
    <3>1. /\ ran' = Append(ran, CallOrder[at])
          /\ since' = [since EXCEPT ![CallOrder[at]] = 0]
          /\ fresh' = [fresh EXCEPT ![CallOrder[at]] = FALSE]
      BY <1>1, <2>3 DEF RunThread
    <3>2. ran' \in Seq(Periods)
      BY <2>2, <3>1, AppendProperties
    <3>3. since' \in [Periods -> Nat]
      BY <2>2, <3>1
    <3>4. fresh' \in [Periods -> BOOLEAN]
      BY <2>2, <3>1, Zenon
    <3> QED BY <2>1, <3>2, <3>3, <3>4
  <2>4. CASE ~Due(CallOrder[at])
    <3>1. UNCHANGED <<ran, since, fresh>>
      BY <1>1, <2>4 DEF RunThread
    <3> QED BY <2>1, <3>1
  <2> QED BY <2>3, <2>4
<1>2. CASE Increment
  <2>1. /\ nRmsSchedulerClock' \in INT_MIN..INT_MAX /\ at' = 1 /\ ran' = <<>>
        /\ since' \in [Periods -> Nat] /\ fresh' \in [Periods -> BOOLEAN]
    BY <1>2 DEF Increment, Incremented
  <2> QED BY <2>1
<1>3. CASE UNCHANGED vars
  BY <1>3 DEF vars
<1> QED BY <1>1, <1>2, <1>3 DEF Next

\* The inductive invariant: with every step each thread's count follows.
LEMMA StepInv == ASSUME IInv, [Next]_vars PROVE IInv'
<1>1. TypeOK'
  BY TypeStep DEF IInv
<1>2. ASSUME NEW k \in 1..4, NEW p \in Periods, CallOrder[k] = p, Counted(k, p)
      PROVE  Counted(k, p)'
  <2>1. CASE RunThread
    BY <1>2, <2>1, CountedByRun DEF IInv
  <2>2. CASE Increment
    BY <1>2, <2>2, CountedByIncrement DEF IInv
  <2>3. CASE UNCHANGED vars
    BY <1>2, <2>3 DEF vars, Counted, Before, After, Stub, INT_MIN
  <2> QED BY <2>1, <2>2, <2>3 DEF Next
<1>3. /\ Counted(1, 1)' /\ Counted(2, 10)'
      /\ Counted(3, 100)' /\ Counted(4, 1000)'
  BY <1>2, CallOrderIs DEF IInv, Periods
<1> QED BY <1>1, <1>3 DEF IInv

LEMMA InitInv == Init => IInv
<1> SUFFICES ASSUME Init PROVE IInv
  OBVIOUS
<1>1. TypeOK
  BY DEF Init, TypeOK, INT_MIN, End, Periods
<1>2. ASSUME NEW k \in 1..4, NEW p \in Periods
      PROVE  Counted(k, p)
  <2>1. at = 1 /\ since[p] = 0 /\ fresh[p] /\ nRmsSchedulerClock = 0
    BY DEF Init
  <2> QED BY <2>1 DEF Counted
<1> QED BY <1>1, <1>2 DEF IInv, Periods

\* Every round, before and after the counter wraps, is one the invariant
\* describes.
THEOREM Invariance == Spec => []IInv
<1>1. IInv /\ [Next]_vars => IInv'
  BY StepInv
<1> QED BY <1>1, InitInv, PTL DEF Spec

\* The remainders and stubs stay below the period, so do the gaps below two.
THEOREM NoDoubleGap == Spec => []GapBound
<1>1. ASSUME IInv, NEW k \in 1..4, NEW p \in Periods, Counted(k, p)
      PROVE  since[p] < 2 * p
  <2>c. nRmsSchedulerClock \in Int /\ INT_MIN <= nRmsSchedulerClock /\ at \in Int
    BY <1>1 DEF IInv, TypeOK, INT_MIN, End
  <2>r. /\ p \in Int /\ p > 0 /\ nRmsSchedulerClock % p \in 0..(p - 1)
        /\ (nRmsSchedulerClock - 1) % p \in 0..(p - 1)
    <3>1. nRmsSchedulerClock - 1 \in Int
      BY <2>c
    <3> QED BY <2>c, <3>1, Remainder
  <2>s. Stub(p) \in 0..(p - 1) /\ INT_MIN \in Int
    BY StubFacts
  <2> DEFINE a == nRmsSchedulerClock % p
             b == (nRmsSchedulerClock - 1) % p
  <2>1. a \in 0..(p - 1) /\ b \in 0..(p - 1)
    BY <2>r
  <2>2. /\ Before(p) = IF nRmsSchedulerClock <= INT_MIN + Stub(p)
                       THEN (IF Stub(p) = 0 THEN p ELSE Stub(p))
                            + (nRmsSchedulerClock - INT_MIN)
                       ELSE b + 1
        /\ After(p) = IF nRmsSchedulerClock < INT_MIN + Stub(p)
                      THEN Stub(p) + (nRmsSchedulerClock - INT_MIN) ELSE a
    BY DEF Before, After
  <2> HIDE DEF a, b
  <2>3. Before(p) < 2 * p /\ After(p) < 2 * p
    BY <2>c, <2>r, <2>s, <2>1, <2>2
  <2> QED BY <1>1, <2>c, <2>r, <2>3 DEF Counted
<1>2. IInv => GapBound
  BY <1>1, CallOrderIs DEF IInv, GapBound, Periods
<1> QED BY <1>2, Invariance, PTL

\* Only the first call, and the first after a wrap, is off its period.
THEOREM PeriodsKept == Spec => PeriodKept
<1>1. ASSUME IInv, [Next]_vars, NEW p \in Periods, Called(p), ~fresh[p]
      PROVE  since[p] = p
  <2>k. PICK k \in 1..4 : CallOrder[k] = p /\ Counted(k, p)
    BY <1>1, CallOrderIs DEF IInv, Periods
  <2>c. /\ nRmsSchedulerClock \in Int /\ INT_MIN <= nRmsSchedulerClock
        /\ since \in [Periods -> Nat]
    BY <1>1 DEF IInv, TypeOK, INT_MIN
  <2>1. ~Increment /\ ~UNCHANGED vars
    BY <1>1, <2>c DEF Called, Increment, vars
  <2>2. RunThread
    BY <1>1, <2>1 DEF Next
  <2>3. at \in 1..4 /\ CallOrder[at] = p /\ Due(p)
    <3>1. at \in 1..4
      BY <1>1, <2>2 DEF RunThread, IInv, TypeOK, End
    <3>2. CallOrder[at] \in Periods
      BY <3>1, CallOrderIs DEF Periods
    <3>3. Due(CallOrder[at])
      BY <1>1, <2>2, <2>c DEF RunThread, Called
    <3>4. CallOrder[at] = p
      BY <1>1, <2>2, <2>c, <3>2 DEF RunThread, Called
    <3> QED BY <3>1, <3>3, <3>4
  <2>4. at = k
    BY <2>3, <2>k, CallOrderIs
  <2>5. since[p] = Before(p) /\ ~(nRmsSchedulerClock <= INT_MIN + Stub(p))
    BY <1>1, <2>k, <2>4 DEF Counted, Called
  <2>6. since[p] = ((nRmsSchedulerClock - 1) % p) + 1
    BY <2>5 DEF Before
  <2>7. ((nRmsSchedulerClock - 1) % p) + 1 = p
    <3> DEFINE d == nRmsSchedulerClock - 1
    <3>1. d \in Int /\ d + 1 = nRmsSchedulerClock
      BY <2>c
    <3>2. (d + 1) % p = 0
      BY <2>3, <3>1 DEF Due
    <3>3. /\ p \in Int /\ d % p \in 0..(p - 1)
          /\ (d + 1) % p = IF d % p = p - 1 THEN 0 ELSE (d % p) + 1
      BY <3>1, Remainder
    <3> HIDE DEF d
    <3>4. d % p = p - 1
      BY <3>2, <3>3
    <3>5. (d % p) + 1 = p
      BY <3>3, <3>4
    <3> QED BY <3>5 DEF d
  <2> QED BY <2>6, <2>7
<1>2. IInv /\ [Next]_vars =>
        [\A p \in Periods : Called(p) /\ ~fresh[p] => since[p] = p]_vars
  BY <1>1
<1> QED BY <1>2, Invariance, PTL DEF Spec, PeriodKept

\* The threads called in a round are the first few of the order.
LEMMA PrefixStep == ASSUME TypeOK, Prefixes, [Next]_vars PROVE Prefixes'
<1>t. /\ nRmsSchedulerClock \in Int /\ at \in 1..5
      /\ ran \in Seq(Periods) /\ Len(ran) \in Nat
  BY DEF TypeOK, End, INT_MIN
<1>1. CASE RunThread
  <2>1. at \in 1..4 /\ at' = at + 1 /\ nRmsSchedulerClock' = nRmsSchedulerClock
    BY <1>1, <1>t DEF RunThread, End
  <2>2. CASE Due(CallOrder[at])
    <3>1. ran' = Append(ran, CallOrder[at]) /\ CallOrder[at] \in Periods
      BY <1>1, <2>1, <2>2, CallOrderIs DEF RunThread, Periods
    <3>2. Len(ran) = at - 1
      <4> SUFFICES ASSUME Len(ran) < at - 1 PROVE FALSE
        BY <1>t, <2>1 DEF Prefixes
      <4>1. nRmsSchedulerClock % CallOrder[Len(ran) + 1] # 0
        BY DEF Prefixes
      <4>2. nRmsSchedulerClock % CallOrder[at] = 0
        BY <2>2 DEF Due
      <4> QED BY <1>t, <2>1, <4>1, <4>2, Harmonic, CallOrderIs
    <3>3. /\ Len(ran') = at
          /\ \A i \in 1..at : ran'[i] = IF i = at THEN CallOrder[at] ELSE ran[i]
      BY <1>t, <3>1, <3>2, AppendProperties
    <3> QED BY <2>1, <3>2, <3>3 DEF Prefixes
  <2>3. CASE ~Due(CallOrder[at])
    <3>1. ran' = ran
      BY <1>1, <2>3 DEF RunThread
    <3>2. nRmsSchedulerClock % CallOrder[at] # 0
      BY <2>3 DEF Due
    <3>3. Len(ran) < at - 1 \/ Len(ran) = at - 1
      BY <1>t DEF Prefixes
    <3>4. nRmsSchedulerClock % CallOrder[Len(ran) + 1] # 0
      BY <1>t, <3>2, <3>3 DEF Prefixes
    <3> QED BY <1>t, <2>1, <3>1, <3>3, <3>4 DEF Prefixes
  <2> QED BY <2>2, <2>3
<1>2. CASE Increment
  BY <1>2 DEF Increment, Prefixes
<1>3. CASE UNCHANGED vars
  BY <1>3 DEF vars, Prefixes
<1> QED BY <1>1, <1>2, <1>3 DEF Next

\* A slower thread runs only behind all the faster ones, always.
THEOREM FasterFirst == Spec => []RateMonotonic
<1>1. Init => Prefixes
  BY DEF Init, Prefixes
<1>2. TypeOK /\ Prefixes /\ [Next]_vars => Prefixes'
  BY PrefixStep
<1>3. TypeOK /\ Prefixes => RateMonotonic
  <2> SUFFICES ASSUME TypeOK, Prefixes, NEW i \in 1..Len(ran)
               PROVE  /\ i > 1 => ran[i - 1] < ran[i]
                      /\ \A p \in Periods : p < ran[i] => \E j \in 1..i : ran[j] = p
    BY DEF RateMonotonic
  <2>1. at \in 1..5 /\ Len(ran) \in Nat /\ Len(ran) <= 4
    BY DEF TypeOK, End, Prefixes
  <2>2. i \in 1..4 /\ \A j \in 1..i : ran[j] = CallOrder[j]
    BY <2>1 DEF Prefixes
  <2>3. i > 1 => ran[i - 1] < ran[i]
    BY <2>2, CallOrderIs
  <2>4. ASSUME NEW p \in Periods, p < ran[i]
        PROVE  \E j \in 1..i : ran[j] = p
    BY <2>2, <2>4, CallOrderIs DEF Periods
  <2> QED BY <2>3, <2>4
<1>4. IInv => TypeOK
  BY DEF IInv
<1> QED BY <1>1, <1>2, <1>3, <1>4, Invariance, PTL DEF Spec
=============================================================================
