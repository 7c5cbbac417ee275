---------------------------- MODULE PartsProofs ----------------------------
(***************************************************************************)
(* Proofs about the small parts composed in MCParts, for every value of    *)
(* their constants.  A part whose proofs are long has a module of its own, *)
(* of which an instance is taken here.                                     *)
(***************************************************************************)
EXTENDS MCParts, Sequences, FiniteSets, FiniteSetTheorems, TLAPS

-----------------------------------------------------------------------------
(* Arithmetic.                                                             *)

\* A quotient and its remainder.
LEMMA Division ==
    ASSUME NEW n \in Nat, NEW d \in Nat, d > 0
    PROVE  /\ n \div d \in Nat /\ n % d \in Nat
           /\ n % d < d /\ n = d * (n \div d) + (n % d)
BY SMT

LEMMA Quotient ==
    ASSUME NEW q \in Nat, NEW d \in Nat, NEW r \in Nat, r < d
    PROVE  (d * q + r) % d = r /\ (d * q + r) \div d = q
BY SMT

LEMMA Times ==
    ASSUME NEW m \in Nat, NEW n \in Nat
    PROVE  /\ m * n \in Nat /\ m * n = n * m
           /\ m * n = 0 <=> m = 0 \/ n = 0
BY SMT

LEMMA TimesMonotone ==
    ASSUME NEW m \in Nat, NEW n \in Nat, NEW k \in Nat, m <= n
    PROVE  m * k <= n * k
BY SMT

LEMMA Distributed ==
    ASSUME NEW m \in Nat, NEW n \in Nat, NEW k \in Nat
    PROVE  (m + n) * k = m * k + n * k /\ k * (m + n) = k * m + k * n
BY SMT

LEMMA Associated ==
    ASSUME NEW m \in Nat, NEW n \in Nat, NEW k \in Nat
    PROVE  (m * n) * k = m * (n * k)
BY SMT

LEMMA IntDivision ==
    ASSUME NEW n \in Int, NEW d \in Nat, d > 0
    PROVE  /\ n \div d \in Int /\ n % d \in 0..(d - 1)
           /\ n = (n \div d) * d + (n % d)
BY SMT

LEMMA IntQuotient ==
    ASSUME NEW q \in Int, NEW d \in Nat, NEW r \in Nat, r < d
    PROVE  (q * d + r) % d = r
BY SMT

LEMMA IntTimes ==
    ASSUME NEW m \in Int, NEW n \in Int, NEW d \in Int
    PROVE  /\ m * d \in Int /\ (m + n) * d = m * d + n * d
           /\ (m - n) * d = m * d - n * d
BY SMT

\* A power of two is the number of subsets of an interval.
LEMMA PowerCounts ==
    ASSUME NEW n \in Nat
    PROVE  /\ IsFiniteSet(SUBSET (1..n)) /\ Cardinality(SUBSET (1..n)) = 2^n
           /\ 2^n \in Nat
<1>1. IsFiniteSet(1..n) /\ Cardinality(1..n) = n
  BY FS_Interval
<1> QED BY <1>1, FS_SUBSET, FS_CardinalityType

LEMMA PowerDoubles == ASSUME NEW n \in Nat PROVE 2^(n + 1) = 2 * 2^n
<1> DEFINE A == SUBSET (1..n)
           B == {u \in SUBSET (1..(n + 1)) : n + 1 \in u}
           f == [u \in A |-> u \union {n + 1}]
<1>1. IsFiniteSet(A) /\ Cardinality(A) = 2^n /\ 2^n \in Nat
  BY PowerCounts
<1>2. Cardinality(SUBSET (1..(n + 1))) = 2^(n + 1)
  BY PowerCounts
<1>3. 1..(n + 1) = (1..n) \union {n + 1} /\ n + 1 \notin 1..n
  OBVIOUS
<1>4. SUBSET (1..(n + 1)) = A \union B /\ A \intersect B = {}
  BY <1>3
<1>5. ExistsBijection(A, B)
  <2>1. f \in [A -> B]
    BY <1>3
  <2>2. \A u, v \in A : f[u] = f[v] => u = v
    <3> TAKE u, v \in A
    <3>1. n + 1 \notin u /\ n + 1 \notin v
      BY <1>3
    <3>2. f[u] = u \union {n + 1} /\ f[v] = v \union {n + 1}
      OBVIOUS
    <3> QED BY <3>1, <3>2
  <2>3. \A w \in B : \E u \in A : f[u] = w
    <3> TAKE w \in B
    <3>1. w \ {n + 1} \in A
      BY <1>3
    <3>2. f[w \ {n + 1}] = w
      BY <3>1
    <3> QED BY <3>1, <3>2
  <2> HIDE DEF f
  <2> QED BY <2>1, <2>2, <2>3 DEF ExistsBijection, Bijection, Injection, Surjection, IsInjective
<1> HIDE DEF A, B
<1>6. IsFiniteSet(B) /\ Cardinality(B) = 2^n
  BY <1>1, <1>5, FS_Bijection
<1>7. Cardinality(A \union B) = Cardinality(A) + Cardinality(B) - Cardinality({})
  BY <1>1, <1>4, <1>6, FS_Union
<1>8. Cardinality({}) = 0
  BY FS_EmptySet
<1> DEFINE p == 2^n
           q == 2^(n + 1)
<1>9. p \in Nat /\ q = p + p - 0
  BY <1>1, <1>2, <1>4, <1>6, <1>7, <1>8
<1>10. q = 2 * p
  <2> HIDE DEF p, q
  <2> QED BY <1>9
<1> QED BY <1>10


LEMMA PowerOfNone == 2^0 = 1
<1>1. Cardinality(SUBSET (1..0)) = 2^0
  BY PowerCounts
<1>2. SUBSET (1..0) = {{}}
  OBVIOUS
<1>3. Cardinality({{}}) = 1
  BY FS_Singleton
<1> QED BY <1>1, <1>2, <1>3

LEMMA PowerPositive == ASSUME NEW n \in Nat PROVE 2^n \in Nat /\ 2^n > 0
<1>1. IsFiniteSet(SUBSET (1..n)) /\ Cardinality(SUBSET (1..n)) = 2^n /\ 2^n \in Nat
  BY PowerCounts
<1>2. {} \in SUBSET (1..n)
  OBVIOUS
<1>3. 2^n # 0
  <2> SUFFICES ASSUME 2^n = 0 PROVE FALSE
    OBVIOUS
  <2>1. Cardinality(SUBSET (1..n)) = 0
    BY <1>1
  <2>2. SUBSET (1..n) = {}
    BY <1>1, <2>1, FS_EmptySet
  <2> QED BY <1>2, <2>2
<1> DEFINE m == 2^n
<1> HIDE DEF m
<1>4. m \in Nat /\ m # 0
  BY <1>1, <1>3 DEF m
<1> QED BY <1>4 DEF m

-----------------------------------------------------------------------------
(* The busy sleep.                                                         *)

\* Of the constants: a long loop is whole microseconds and a rest.
LEMMA BigLoopFacts ==
    ASSUME Sleep!BusySleepAssumption
    PROVE  /\ INT_MAX \in Nat /\ PER_US \in Nat /\ PER_US > 0 /\ INT_MAX > 0
           /\ Sleep!PerBigLoop \in Nat /\ Sleep!PerBigLoop >= 2 /\ INT_MAX % PER_US \in Nat
           /\ INT_MAX = PER_US * Sleep!PerBigLoop + (INT_MAX % PER_US)
<1>1. INT_MAX \in Nat /\ PER_US \in Nat /\ PER_US > 0 /\ 2 * PER_US <= INT_MAX
  BY DEF Sleep!BusySleepAssumption
<1>2. /\ Sleep!PerBigLoop \in Nat /\ INT_MAX % PER_US \in Nat
      /\ INT_MAX % PER_US < PER_US
      /\ INT_MAX = PER_US * Sleep!PerBigLoop + (INT_MAX % PER_US)
  BY <1>1, Division DEF Sleep!PerBigLoop
<1>3. Sleep!PerBigLoop >= 2
  <2> SUFFICES ASSUME Sleep!PerBigLoop <= 1 PROVE FALSE
    BY <1>2
  <2>1. Sleep!PerBigLoop * PER_US <= 1 * PER_US
    BY <1>1, <1>2, TimesMonotone
  <2>2. PER_US * Sleep!PerBigLoop <= PER_US
    BY <1>1, <1>2, <2>1, Times
  <2> HIDE DEF Sleep!PerBigLoop
  <2> QED BY <1>1, <1>2, <2>2
<1> QED BY <1>1, <1>2, <1>3

\* What is left for the last loop is less than a long one.
LEMMA RestIsShort ==
    ASSUME Sleep!BusySleepAssumption, NEW n \in Nat, n < Sleep!PerBigLoop
    PROVE  /\ n * PER_US \in 0..INT_MAX
           /\ Sleep!Word(n * PER_US) = n * PER_US
<1>1. (n + 1) * PER_US <= Sleep!PerBigLoop * PER_US
  BY BigLoopFacts, TimesMonotone
<1>2. n * PER_US \in Nat /\ Sleep!PerBigLoop * PER_US = PER_US * Sleep!PerBigLoop
  BY BigLoopFacts, Times
<1>3. (n + 1) * PER_US = n * PER_US + 1 * PER_US
  BY BigLoopFacts, Distributed
<1> DEFINE p == n * PER_US
           q == PER_US * Sleep!PerBigLoop
<1>4. p \in Nat /\ p + PER_US <= q
  BY <1>1, <1>2, <1>3, BigLoopFacts
<1>5. q <= INT_MAX /\ q \in Nat
  <2>1. PER_US * Sleep!PerBigLoop \in Nat
    BY BigLoopFacts, Times
  <2> QED BY <2>1, BigLoopFacts
<1> HIDE DEF p, q
<1>6. p \in 0..INT_MAX
  BY <1>4, <1>5, BigLoopFacts
<1>7. p % (2 * (INT_MAX + 1)) = p
  BY <1>6, BigLoopFacts
<1> QED BY <1>6, <1>7 DEF p, Sleep!Word, Sleep!WORDS

\* On the way to done: what is left is what was asked less the long loops.
LoopInv ==
    /\ Sleep!TypeOK
    /\ sleep_pc = "big" => /\ big_loops = asked \div Sleep!PerBigLoop
                           /\ big_loops > 0
                           /\ asked = us + i * Sleep!PerBigLoop
                           /\ rounds = i * INT_MAX
    /\ sleep_pc = "small" => asked < Sleep!PerBigLoop /\ us = asked /\ big_loops = 0
    /\ Sleep!DelayKept

LEMMA WordSize ==
    Sleep!BusySleepAssumption => Sleep!WORDS \in Nat /\ Sleep!WORDS = 2 * INT_MAX + 2
BY BigLoopFacts DEF Sleep!WORDS

LEMMA LoopInit == Sleep!BusySleepAssumption /\ Sleep!Init => LoopInv
BY BigLoopFacts, WordSize DEF Sleep!Init, LoopInv, Sleep!TypeOK, Sleep!DelayKept

LEMMA StartKeeps ==
    ASSUME Sleep!BusySleepAssumption, LoopInv, Sleep!BusySleep
    PROVE  LoopInv'
<1>1. PICK n \in 0..(Sleep!WORDS - 1) :
         /\ asked' = n /\ us' = n /\ big_loops' = n \div Sleep!PerBigLoop
         /\ i' = 0 /\ rounds' = 0
         /\ sleep_pc' = IF big_loops' # 0 THEN "big" ELSE "small"
  BY DEF Sleep!BusySleep
<1> DEFINE b == n \div Sleep!PerBigLoop
<1>2. /\ n \in Nat /\ n <= 2 * INT_MAX + 1 /\ b \in Nat
      /\ n = Sleep!PerBigLoop * b + (n % Sleep!PerBigLoop) /\ n % Sleep!PerBigLoop \in Nat
      /\ n % Sleep!PerBigLoop < Sleep!PerBigLoop
  <2>1. n \in Nat /\ n <= 2 * INT_MAX + 1
    BY WordSize, BigLoopFacts
  <2>2. Sleep!PerBigLoop \in Nat /\ Sleep!PerBigLoop > 0
    BY BigLoopFacts
  <2> HIDE DEF b
  <2> QED BY <2>1, <2>2, Division DEF b
<1>3. 2 * b <= Sleep!PerBigLoop * b
  BY <1>2, BigLoopFacts, TimesMonotone
<1>4. Sleep!PerBigLoop * b \in Nat
  BY <1>2, BigLoopFacts, Times
<1> DEFINE pb == Sleep!PerBigLoop * b
           r == n % Sleep!PerBigLoop
<1>5. b \in 0..INT_MAX /\ (b = 0 => pb = 0)
  <2>1. 2 * b <= pb /\ pb \in Nat /\ n = pb + r /\ r \in Nat
    BY <1>2, <1>3, <1>4
  <2>2. b = 0 => pb = 0
    BY <1>2, BigLoopFacts, Times
  <2> HIDE DEF b, pb, r
  <2> QED BY <2>1, <2>2, <1>2, BigLoopFacts
<1>6. b = 0 => n < Sleep!PerBigLoop
  BY <1>2, <1>5
<1>7. 0 * Sleep!PerBigLoop = 0 /\ 0 * INT_MAX = 0
  BY BigLoopFacts
<1> HIDE DEF b
<1>8. big_loops' = b
  BY <1>1 DEF b
<1>9. Sleep!TypeOK'
  <2>1. {asked', us'} \subseteq 0..(Sleep!WORDS - 1)
    BY <1>1
  <2>2. i' \in 0..big_loops' /\ big_loops' \in 0..INT_MAX
    BY <1>1, <1>5, <1>8
  <2>3. rounds' \in Nat /\ sleep_pc' \in {"big", "small"}
    BY <1>1
  <2> QED BY <2>1, <2>2, <2>3 DEF Sleep!TypeOK, Sleep!WORDS
<1>10. sleep_pc' = "big" => big_loops' = asked' \div Sleep!PerBigLoop /\ big_loops' > 0
  BY <1>1, <1>2, <1>8
<1>11. asked' = us' + i' * Sleep!PerBigLoop /\ rounds' = i' * INT_MAX
  BY <1>1, <1>2, <1>7
<1>12. sleep_pc' = "small" => asked' < Sleep!PerBigLoop /\ us' = asked' /\ big_loops' = 0
  BY <1>1, <1>6, <1>8
<1>13. sleep_pc' # "done"
  BY <1>1
<1> QED BY <1>9, <1>10, <1>11, <1>12, <1>13 DEF LoopInv, Sleep!DelayKept,
          Sleep!PerBigLoop

LEMMA BigKeeps ==
    ASSUME Sleep!BusySleepAssumption, LoopInv, Sleep!BigLoop
    PROVE  LoopInv'
<1>0. /\ Sleep!PerBigLoop \in Nat /\ INT_MAX \in Nat /\ INT_MAX > 0
      /\ asked \in 0..(Sleep!WORDS - 1) /\ us \in 0..(Sleep!WORDS - 1)
      /\ Sleep!WORDS \in Nat
      /\ i \in Nat /\ big_loops \in 0..INT_MAX /\ i <= big_loops /\ rounds \in Nat
  BY BigLoopFacts, WordSize DEF LoopInv, Sleep!TypeOK
<1>1. /\ sleep_pc = "big" /\ i < big_loops /\ i' = i + 1
      /\ rounds' = rounds + Sleep!CountToZero(INT_MAX)
      /\ us' = Sleep!Word(us - Sleep!PerBigLoop)
      /\ UNCHANGED <<asked, big_loops, sleep_pc>>
  BY DEF Sleep!BigLoop, Sleep!Subtracted
<1>2. /\ big_loops = asked \div Sleep!PerBigLoop
      /\ asked = us + i * Sleep!PerBigLoop /\ rounds = i * INT_MAX
  BY <1>1 DEF LoopInv
<1>3. (i + 1) * INT_MAX = i * INT_MAX + INT_MAX
      /\ (i + 1) * Sleep!PerBigLoop = i * Sleep!PerBigLoop + Sleep!PerBigLoop
  BY <1>0, Distributed
\* A loop left to run is covered by the microseconds left.
<1>4. us >= Sleep!PerBigLoop
  <2>1. (i + 1) * Sleep!PerBigLoop <= big_loops * Sleep!PerBigLoop
    BY <1>0, <1>1, TimesMonotone
  <2>2. big_loops * Sleep!PerBigLoop = Sleep!PerBigLoop * big_loops
    BY <1>0, Times
  <2>3. /\ asked = Sleep!PerBigLoop * big_loops + (asked % Sleep!PerBigLoop)
        /\ asked % Sleep!PerBigLoop \in Nat
    <3>1. asked \in Nat /\ Sleep!PerBigLoop > 0
      BY <1>0, BigLoopFacts
    <3> QED BY <3>1, <1>0, <1>2, Division
  <2> DEFINE x == i * Sleep!PerBigLoop
             y == Sleep!PerBigLoop * big_loops
             r == asked % Sleep!PerBigLoop
  <2>4. x + Sleep!PerBigLoop <= y /\ asked = y + r /\ r \in Nat /\ asked = us + x
    BY <1>2, <1>3, <2>1, <2>2, <2>3
  <2>5. x \in Nat /\ y \in Nat
    BY <1>0, Times
  <2> HIDE DEF x, y, r
  <2> QED BY <2>4, <2>5, <1>0
<1>5. us' = us - Sleep!PerBigLoop
  <2>1. us - Sleep!PerBigLoop \in 0..(Sleep!WORDS - 1)
    BY <1>0, <1>4
  <2> QED BY <1>0, <1>1, <2>1 DEF Sleep!Word
<1>6. asked' = us' + i' * Sleep!PerBigLoop
  <2> DEFINE x == i * Sleep!PerBigLoop
             z == (i + 1) * Sleep!PerBigLoop
  <2>1. x \in Nat /\ z = x + Sleep!PerBigLoop /\ asked = us + x
    BY <1>0, <1>2, <1>3, Times
  <2> HIDE DEF x, z
  <2>2. asked = (us - Sleep!PerBigLoop) + z
    BY <1>0, <2>1
  <2> QED BY <1>1, <1>5, <2>2 DEF z
<1>7. Sleep!CountToZero(INT_MAX) = INT_MAX
  BY <1>0 DEF Sleep!CountToZero
<1>8. rounds' = i' * INT_MAX
  BY <1>1, <1>2, <1>3, <1>7
<1>9. rounds' \in Nat
  BY <1>0, <1>1, <1>7
<1>10. Sleep!TypeOK'
  <2>1. {asked', us'} \subseteq 0..(Sleep!WORDS - 1)
    BY <1>0, <1>1, <1>4, <1>5
  <2>2. i' \in 0..big_loops' /\ big_loops' \in 0..INT_MAX
    BY <1>0, <1>1
  <2> QED BY <2>1, <2>2, <1>1, <1>9 DEF Sleep!TypeOK, Sleep!WORDS
<1>11. big_loops' = asked' \div Sleep!PerBigLoop /\ big_loops' > 0
  BY <1>0, <1>1, <1>2
<1>12. sleep_pc' = "big"
  BY <1>1
<1> QED BY <1>6, <1>8, <1>10, <1>11, <1>12 DEF LoopInv, Sleep!DelayKept,
          Sleep!PerBigLoop

LEMMA RestKeeps ==
    ASSUME Sleep!BusySleepAssumption, LoopInv, Sleep!RestLoop
    PROVE  LoopInv'
<1>0. /\ Sleep!PerBigLoop \in Nat /\ Sleep!PerBigLoop >= 2 /\ INT_MAX \in Nat
      /\ PER_US \in Nat /\ PER_US > 0 /\ INT_MAX % PER_US \in Nat
      /\ INT_MAX = PER_US * Sleep!PerBigLoop + (INT_MAX % PER_US)
      /\ asked \in Nat /\ us \in Nat /\ Sleep!WORDS \in Nat /\ Sleep!WORDS > INT_MAX
      /\ i \in Nat /\ big_loops \in Nat /\ i <= big_loops /\ rounds \in Nat
  BY BigLoopFacts, WordSize DEF LoopInv, Sleep!TypeOK
<1>1. /\ sleep_pc = "big" /\ i >= big_loops
      /\ rounds' = rounds + Sleep!CountToZero(Sleep!Word(us * PER_US))
      /\ UNCHANGED <<asked, us, i, big_loops>> /\ sleep_pc' = "done"
  BY DEF Sleep!RestLoop
<1>2. /\ i = big_loops /\ big_loops = asked \div Sleep!PerBigLoop /\ big_loops > 0
      /\ asked = us + big_loops * Sleep!PerBigLoop /\ rounds = big_loops * INT_MAX
  BY <1>0, <1>1 DEF LoopInv
<1>3. us = asked % Sleep!PerBigLoop /\ us < Sleep!PerBigLoop
  <2>1. /\ asked = Sleep!PerBigLoop * big_loops + (asked % Sleep!PerBigLoop)
        /\ asked % Sleep!PerBigLoop < Sleep!PerBigLoop /\ asked % Sleep!PerBigLoop \in Nat
    <3>1. Sleep!PerBigLoop > 0
      BY <1>0
    <3> QED BY <3>1, <1>0, <1>2, Division
  <2> DEFINE y == Sleep!PerBigLoop * big_loops
             r == asked % Sleep!PerBigLoop
  <2>2. y \in Nat /\ asked = us + y
    BY <1>0, <1>2, Times
  <2>3. asked = y + r /\ r \in Nat /\ r < Sleep!PerBigLoop
    BY <2>1
  <2> HIDE DEF y, r
  <2>4. us = r
    BY <2>2, <2>3, <1>0
  <2> QED BY <2>3, <2>4 DEF r
<1> DEFINE p == us * PER_US
           x == big_loops * (PER_US * Sleep!PerBigLoop)
           z == big_loops * (INT_MAX % PER_US)
<1>4. p \in 0..INT_MAX /\ Sleep!Word(us * PER_US) = p
  BY <1>0, <1>3, RestIsShort
<1>5. big_loops * INT_MAX = x + z /\ x \in Nat /\ z \in Nat
  <2>1. PER_US * Sleep!PerBigLoop \in Nat
    BY <1>0, Times
  <2>2. big_loops * ((PER_US * Sleep!PerBigLoop) + (INT_MAX % PER_US)) = x + z
    BY <2>1, <1>0, Distributed
  <2>3. x \in Nat /\ z \in Nat
    BY <2>1, <1>0, Times
  <2> QED BY <2>2, <2>3, <1>0
<1>6. asked * PER_US = p + x
  <2>1. big_loops * Sleep!PerBigLoop \in Nat
    BY <1>0, Times
  <2>2. (us + big_loops * Sleep!PerBigLoop) * PER_US =
            p + (big_loops * Sleep!PerBigLoop) * PER_US
    BY <2>1, <1>0, Distributed
  <2>3. (big_loops * Sleep!PerBigLoop) * PER_US = big_loops * (Sleep!PerBigLoop * PER_US)
    BY <1>0, Associated
  <2>4. Sleep!PerBigLoop * PER_US = PER_US * Sleep!PerBigLoop
    BY <1>0, Times
  <2> QED BY <2>2, <2>3, <2>4, <1>2
<1>7. p = 0 <=> us = 0
  BY <1>0, Times
<1>8. asked > 0
  <2>1. big_loops * Sleep!PerBigLoop \in Nat /\ big_loops * Sleep!PerBigLoop # 0
    BY <1>0, <1>2, Times
  <2> DEFINE y == big_loops * Sleep!PerBigLoop
  <2>2. y \in Nat /\ y # 0 /\ asked = us + y
    BY <2>1, <1>2
  <2> HIDE DEF y
  <2> QED BY <2>2, <1>0
<1>9. Sleep!Turn' = (IF us = 0 THEN Sleep!WORDS ELSE 0) /\ Sleep!Beyond' = z
  BY <1>1, <1>3, <1>8 DEF Sleep!Turn, Sleep!Beyond, Sleep!WORDS, Sleep!PerBigLoop
<1> HIDE DEF p, x, z
<1>10. rounds' = asked' * PER_US + Sleep!Beyond' + Sleep!Turn'
  <2>1. rounds' = (x + z) + (IF p = 0 THEN Sleep!WORDS ELSE p)
    BY <1>1, <1>2, <1>4, <1>5 DEF Sleep!CountToZero
  <2>2. asked' * PER_US = p + x
    BY <1>1, <1>6
  <2> QED BY <2>1, <2>2, <1>0, <1>4, <1>5, <1>7, <1>9
<1>11. rounds' \in Nat /\ rounds' >= asked' * PER_US
  <2>1. asked' * PER_US = p + x
    BY <1>1, <1>6
  <2> QED BY <2>1, <1>0, <1>4, <1>5, <1>9, <1>10
<1>12. Sleep!TypeOK'
  BY <1>1, <1>11 DEF LoopInv, Sleep!TypeOK, Sleep!WORDS
<1> QED BY <1>1, <1>10, <1>11, <1>12 DEF LoopInv, Sleep!DelayKept

LEMMA SmallKeeps ==
    ASSUME Sleep!BusySleepAssumption, LoopInv, Sleep!SmallLoop
    PROVE  LoopInv'
<1>0. /\ Sleep!PerBigLoop \in Nat /\ INT_MAX \in Nat /\ PER_US \in Nat /\ PER_US > 0
      /\ INT_MAX % PER_US \in Nat /\ asked \in Nat
  BY BigLoopFacts, WordSize DEF LoopInv, Sleep!TypeOK
<1>1. /\ asked < Sleep!PerBigLoop /\ us = asked /\ big_loops = 0
      /\ rounds' = Sleep!CountDown(Sleep!Word(us * PER_US)) /\ sleep_pc' = "done"
      /\ UNCHANGED <<asked, us, i, big_loops>>
  BY DEF Sleep!SmallLoop, LoopInv
<1> DEFINE p == asked * PER_US
<1>2. p \in 0..INT_MAX /\ Sleep!Word(us * PER_US) = p
  BY <1>0, <1>1, RestIsShort
<1>3. p = 0 <=> asked = 0
  BY <1>0, Times
<1>4. asked > 0 => asked % Sleep!PerBigLoop = asked
  BY <1>0, <1>1
<1>5. asked' = asked /\ Sleep!Turn' = 0 /\ Sleep!Beyond' = 0
  <2>1. 0 * (INT_MAX % PER_US) = 0
    BY <1>0
  <2> QED BY <2>1, <1>0, <1>1, <1>4 DEF Sleep!Turn, Sleep!Beyond, Sleep!PerBigLoop
<1> HIDE DEF p
<1>6. rounds' = IF p = 0 THEN 1 ELSE p
  BY <1>0, <1>1, <1>2 DEF Sleep!CountDown
<1>7. rounds' \in Nat /\ rounds' >= p /\ (asked > 0 => rounds' = p + 0 + 0)
  BY <1>0, <1>2, <1>3, <1>6
<1>8. Sleep!TypeOK'
  BY <1>1, <1>7 DEF LoopInv, Sleep!TypeOK, Sleep!WORDS
<1>9. Sleep!DelayKept'
  BY <1>1, <1>5, <1>7 DEF Sleep!DelayKept, p
<1> QED BY <1>1, <1>8, <1>9 DEF LoopInv

LEMMA LoopNext ==
    ASSUME Sleep!BusySleepAssumption, LoopInv, [Sleep!Next]_(Sleep!vars)
    PROVE  LoopInv'
<1>1. CASE Sleep!Return
  BY <1>1, BigLoopFacts, WordSize DEF Sleep!Return, LoopInv, Sleep!TypeOK,
          Sleep!DelayKept
<1>2. CASE UNCHANGED Sleep!vars
  BY <1>2 DEF Sleep!vars, LoopInv, Sleep!TypeOK, Sleep!DelayKept, Sleep!Turn,
              Sleep!Beyond, Sleep!PerBigLoop, Sleep!WORDS
<1> QED BY <1>1, <1>2, StartKeeps, BigKeeps, RestKeeps, SmallKeeps DEF Sleep!Next

\* A delay is kept and overrun by no more than the split costs, for every
\* delay, every width of a word and every speed of the processor
\* (alt_busy_sleep.c:75-131).
THEOREM DelaysKept == Spec => []DelayKept
<1>1. Init => LoopInv
  BY PartsAssumption, LoopInit DEF Init
<1>2. LoopInv /\ [Next]_vars => LoopInv'
  <2>1. [Next]_vars => [Sleep!Next]_(Sleep!vars)
    BY DEF Next, vars, sleepVars, Sleep!vars
  <2> QED BY <2>1, PartsAssumption, LoopNext
<1>3. LoopInv => DelayKept
  BY DEF LoopInv, DelayKept
<1> QED BY <1>1, <1>2, <1>3, PTL DEF Spec

-----------------------------------------------------------------------------
(* The code generator.                                                     *)

RegistersOK == g1 \in [Code!Stages -> {0, 1}] /\ g2 \in [Code!Stages -> {0, 1}]

\* The feedback is a bit, and one if only the last stage is.
LEMMA FeedbackBits ==
    ASSUME RegistersOK
    PROVE  /\ Code!Feedback1 \in {0, 1} /\ Code!Feedback2 \in {0, 1}
           /\ (\A k \in 1..9 : g1[k] = 0) /\ g1[10] = 1 => Code!Feedback1 = 1
           /\ (\A k \in 1..9 : g2[k] = 0) /\ g2[10] = 1 => Code!Feedback2 = 1
<1>1. \A k \in {2, 3, 6, 8, 9, 10} : g1[k] \in {0, 1} /\ g2[k] \in {0, 1}
  BY DEF RegistersOK, Code!Stages
<1> QED BY <1>1 DEF Code!Feedback1, Code!Feedback2

LEMMA ShiftedNotZero ==
    ASSUME NEW g \in [Code!Stages -> {0, 1}], NEW f \in {0, 1},
           NEW j \in Code!Stages, g[j] = 1,
           (\A k \in 1..9 : g[k] = 0) /\ g[10] = 1 => f = 1
    PROVE  /\ Code!Shifted(g, f) \in [Code!Stages -> {0, 1}]
           /\ \E k \in Code!Stages : Code!Shifted(g, f)[k] = 1
<1>1. Code!Shifted(g, f) \in [Code!Stages -> {0, 1}]
  BY DEF Code!Shifted, Code!Stages
<1>2. CASE \E k \in 1..9 : g[k] = 1
  <2>1. PICK k \in 1..9 : g[k] = 1
    BY <1>2
  <2>2. k + 1 \in Code!Stages /\ Code!Shifted(g, f)[k + 1] = g[k]
    BY DEF Code!Shifted, Code!Stages
  <2> QED BY <1>1, <2>1, <2>2
<1>3. CASE ~ \E k \in 1..9 : g[k] = 1
  <2>1. (\A k \in 1..9 : g[k] = 0) /\ g[10] = 1
    BY <1>3 DEF Code!Stages
  <2>2. 1 \in Code!Stages /\ Code!Shifted(g, f)[1] = f
    BY DEF Code!Shifted, Code!Stages
  <2> QED BY <1>1, <2>1, <2>2
<1> QED BY <1>2, <1>3

\* Whatever satellites are tracked, no sequence of resets and shifts leaves a
\* register all zero, where it would stay (cacode.v:11-19).
THEOREM RegistersNeverZero == Spec => [](part = "code" => Code!NeverZero)
<1> DEFINE Inv == part = "code" => RegistersOK /\ Code!NeverZero
<1>0. Code!Ones \in [Code!Stages -> {0, 1}] /\ Code!Ones[1] = 1 /\ 1 \in Code!Stages
  BY DEF Code!Ones, Code!Stages
<1>1. Init => Inv
  BY <1>0 DEF Init, Code!Init, RegistersOK, Code!NeverZero
<1>2. Inv /\ [Next]_vars => Inv'
  <2> SUFFICES ASSUME Inv, [Next]_vars, part' = "code"
               PROVE  RegistersOK' /\ Code!NeverZero'
    OBVIOUS
  <2>0. part = "code" /\ RegistersOK /\ Code!NeverZero
    BY DEF Next, vars
  <2>1. CASE Code!Reset
    BY <2>1, <1>0 DEF Code!Reset, RegistersOK, Code!NeverZero
  <2>2. CASE Code!Shift
    <3>1. PICK j \in Code!Stages, k \in Code!Stages : g1[j] = 1 /\ g2[k] = 1
      BY <2>0 DEF Code!NeverZero
    <3>2. /\ g1' \in [Code!Stages -> {0, 1}] /\ \E m \in Code!Stages : g1'[m] = 1
      BY <2>0, <2>2, <3>1, FeedbackBits, ShiftedNotZero DEF Code!Shift, RegistersOK
    <3>3. /\ g2' \in [Code!Stages -> {0, 1}] /\ \E m \in Code!Stages : g2'[m] = 1
      BY <2>0, <2>2, <3>1, FeedbackBits, ShiftedNotZero DEF Code!Shift, RegistersOK
    <3> QED BY <3>2, <3>3 DEF RegistersOK, Code!NeverZero
  <2>3. CASE UNCHANGED codeVars
    BY <2>0, <2>3 DEF codeVars, RegistersOK, Code!NeverZero
  <2>4. Code!Reset \/ Code!Shift \/ UNCHANGED codeVars
    BY <2>0 DEF Next, vars, Code!Next
  <2> QED BY <2>1, <2>2, <2>3, <2>4
<1>3. Inv => (part = "code" => Code!NeverZero)
  OBVIOUS
<1> QED BY <1>1, <1>2, <1>3, PTL DEF Spec
-----------------------------------------------------------------------------
(* The data cache.                                                         *)

CacheProofs == INSTANCE DCacheProofs WITH memory <- bytes

LEMMA CacheAssumed == CacheProofs!DCacheAssumption
BY PartsAssumption DEF Cache!DCacheAssumption, CacheProofs!DCacheAssumption

LEMMA CacheSteps ==
    /\ Init => CacheProofs!Init
    /\ [Next]_vars => [CacheProofs!Next]_(CacheProofs!vars)
<1>1. Cache!Init => CacheProofs!Init
  BY DEF Cache!Init, CacheProofs!Init, Cache!Addresses, CacheProofs!Addresses,
         Cache!Empty, CacheProofs!Empty, Cache!None, CacheProofs!None, Cache!NoBlock,
         CacheProofs!NoBlock
<1>2. Cache!Load => CacheProofs!Load
  BY DEF Cache!Load, CacheProofs!Load, Cache!Cached, CacheProofs!Cached, Cache!Block,
         CacheProofs!Block, Cache!Region, CacheProofs!Region, Cache!Addresses,
         CacheProofs!Addresses, Cache!Touch, CacheProofs!Touch, Cache!Filled,
         CacheProofs!Filled, Cache!LineOf, CacheProofs!LineOf, Cache!SetOf,
         CacheProofs!SetOf, Cache!Hit, CacheProofs!Hit, Cache!WrittenBack,
         CacheProofs!WrittenBack, Cache!BytesOf, CacheProofs!BytesOf
<1>3. Cache!Store => CacheProofs!Store
  BY DEF Cache!Store, CacheProofs!Store, Cache!Cached, CacheProofs!Cached, Cache!Block,
         CacheProofs!Block, Cache!Region, CacheProofs!Region, Cache!Addresses,
         CacheProofs!Addresses, Cache!Touch, CacheProofs!Touch, Cache!Filled,
         CacheProofs!Filled, Cache!LineOf, CacheProofs!LineOf, Cache!SetOf,
         CacheProofs!SetOf, Cache!Hit, CacheProofs!Hit, Cache!WrittenBack,
         CacheProofs!WrittenBack, Cache!BytesOf, CacheProofs!BytesOf
<1>4. Cache!UncachedStore => CacheProofs!UncachedStore
  BY DEF Cache!UncachedStore, CacheProofs!UncachedStore, Cache!Write,
         CacheProofs!Write, Cache!Block, CacheProofs!Block, Cache!Region,
         CacheProofs!Region
<1>5. Cache!DeviceWrite => CacheProofs!DeviceWrite
  BY DEF Cache!DeviceWrite, CacheProofs!DeviceWrite, Cache!Write, CacheProofs!Write
<1>6. Cache!Flush => CacheProofs!Flush
  BY DEF Cache!Flush, CacheProofs!Flush, Cache!Regions, CacheProofs!Regions,
         Cache!Addresses, CacheProofs!Addresses, Cache!Region, CacheProofs!Region,
         Cache!Cached, CacheProofs!Cached, Cache!Block, CacheProofs!Block,
         Cache!WriteBack, CacheProofs!WriteBack, Cache!AllWrittenBack,
         CacheProofs!AllWrittenBack, Cache!Without, CacheProofs!Without, Cache!Hit,
         CacheProofs!Hit, Cache!SetOf, CacheProofs!SetOf, Cache!LineOf,
         CacheProofs!LineOf, Cache!Empty, CacheProofs!Empty, Cache!None,
         CacheProofs!None, Cache!Given, CacheProofs!Given, Cache!LastStep,
         CacheProofs!LastStep
<1>7. Cache!FlushNoWriteback => CacheProofs!FlushNoWriteback
  BY DEF Cache!FlushNoWriteback, CacheProofs!FlushNoWriteback, Cache!Regions,
         CacheProofs!Regions, Cache!Addresses, CacheProofs!Addresses, Cache!Region,
         CacheProofs!Region, Cache!Cached, CacheProofs!Cached, Cache!Block,
         CacheProofs!Block, Cache!Without, CacheProofs!Without, Cache!Empty,
         CacheProofs!Empty, Cache!None, CacheProofs!None, Cache!Given,
         CacheProofs!Given, Cache!LineOf, CacheProofs!LineOf, Cache!LastStep,
         CacheProofs!LastStep
<1>8. Cache!FlushAll => CacheProofs!FlushAll
  BY DEF Cache!FlushAll, CacheProofs!FlushAll, Cache!Addresses, CacheProofs!Addresses,
         Cache!Region, CacheProofs!Region, Cache!Cached, CacheProofs!Cached,
         Cache!Block, CacheProofs!Block, Cache!WriteBack, CacheProofs!WriteBack,
         Cache!AllWrittenBack, CacheProofs!AllWrittenBack, Cache!Without,
         CacheProofs!Without, Cache!Hit, CacheProofs!Hit, Cache!SetOf,
         CacheProofs!SetOf, Cache!LineOf, CacheProofs!LineOf, Cache!Empty,
         CacheProofs!Empty, Cache!None, CacheProofs!None
<1>9. Cache!UncachedMalloc => CacheProofs!UncachedMalloc
  BY DEF Cache!UncachedMalloc, CacheProofs!UncachedMalloc, Cache!NoBlock,
         CacheProofs!NoBlock, Cache!Rounded, CacheProofs!Rounded, Cache!Addresses,
         CacheProofs!Addresses, Cache!Region, CacheProofs!Region, Cache!WriteBack,
         CacheProofs!WriteBack, Cache!AllWrittenBack, CacheProofs!AllWrittenBack,
         Cache!Without, CacheProofs!Without, Cache!Hit, CacheProofs!Hit, Cache!SetOf,
         CacheProofs!SetOf, Cache!LineOf, CacheProofs!LineOf, Cache!Empty,
         CacheProofs!Empty, Cache!None, CacheProofs!None, Cache!Given,
         CacheProofs!Given, Cache!LastStep, CacheProofs!LastStep
<1>10. Cache!UncachedFree => CacheProofs!UncachedFree
  BY DEF Cache!UncachedFree, CacheProofs!UncachedFree, Cache!NoBlock,
         CacheProofs!NoBlock
<1>11. Init => CacheProofs!Init
  BY <1>1 DEF Init
<1>12. [Next]_vars => [CacheProofs!Next]_(CacheProofs!vars)
  <2> SUFFICES ASSUME Next, ~UNCHANGED cacheVars PROVE CacheProofs!Next
    BY DEF vars, cacheVars, CacheProofs!vars
  <2>1. Cache!Next
    BY DEF Next
  <2> QED BY <2>1, <1>2, <1>3, <1>4, <1>5, <1>6, <1>7, <1>8, <1>9, <1>10
          DEF Cache!Next, Cache!Processor, Cache!Hal,
              CacheProofs!Next, CacheProofs!Processor, CacheProofs!Hal
<1> QED BY <1>11, <1>12

\* The program reads what was written last, through the cache or past it,
\* for every size of line, cache and memory (alt_uncached_malloc.c:47-63).
THEOREM CoherentHere == Spec => []Coherent
<1>1. CacheProofs!Coherent => Coherent
  BY DEF Coherent, Cache!Coherent, CacheProofs!Coherent, Cache!Seen, CacheProofs!Seen,
         Cache!Cached, CacheProofs!Cached, Cache!Block, CacheProofs!Block,
         Cache!Region, CacheProofs!Region, Cache!Addresses, CacheProofs!Addresses,
         Cache!Hit, CacheProofs!Hit, Cache!LineOf, CacheProofs!LineOf, Cache!SetOf,
         CacheProofs!SetOf
<1>2. CacheProofs!Spec => []CacheProofs!Coherent
  BY CacheAssumed, CacheProofs!CacheCoherent
<1> QED BY <1>1, <1>2, CacheSteps, PTL DEF Spec, CacheProofs!Spec

\* A flushed region is in memory and not in the cache, wherever in its lines
\* it begins and ends (alt_dcache_flush.c:52-66).
THEOREM FlushCoversHere == Spec => []FlushCovers
<1>1. CacheProofs!FlushCovers => FlushCovers
  BY DEF FlushCovers, Cache!FlushCovers, CacheProofs!FlushCovers, Cache!Hit,
         CacheProofs!Hit, Cache!LineOf, CacheProofs!LineOf, Cache!SetOf,
         CacheProofs!SetOf
<1>2. CacheProofs!Spec => []CacheProofs!FlushCovers
  BY CacheAssumed, CacheProofs!FlushesCover
<1> QED BY <1>1, <1>2, CacheSteps, PTL DEF Spec, CacheProofs!Spec

-----------------------------------------------------------------------------
(* Profiling and the heap.                                                 *)

ProfileProofs == INSTANCE ProfilerProofs

LEMMA ProfileAssumed == ProfileProofs!ProfilerAssumption
BY PartsAssumption DEF Profile!ProfilerAssumption, ProfileProofs!ProfilerAssumption

\* Each step of the part is one of the steps the proofs are about, which have
\* no bounds.
LEMMA ProfileSteps ==
    /\ Init => ProfileProofs!Init
    /\ [Next]_vars => [ProfileProofs!Unbounded]_(ProfileProofs!vars)
<1>1. Profile!Init => ProfileProofs!Init
  BY DEF Profile!Init, ProfileProofs!Init, Profile!NULL, ProfileProofs!NULL,
         Profile!Actors, ProfileProofs!Actors, Profile!Calls, ProfileProofs!Calls,
         Profile!Unused, ProfileProofs!Unused
<1>2. Profile!Malloc => ProfileProofs!Given
  BY DEF Profile!Malloc, ProfileProofs!Given, Profile!Sbrk, ProfileProofs!Sbrk,
         Profile!SbrkFrom, ProfileProofs!SbrkFrom,
         Profile!Aligned, ProfileProofs!Aligned, Profile!graphVars,
         ProfileProofs!graphVars, Profile!samplerVars, ProfileProofs!samplerVars,
         Profile!historyVars, ProfileProofs!historyVars
<1>3. Profile!ClockStarts => ProfileProofs!ClockStarts
  BY DEF Profile!ClockStarts, ProfileProofs!ClockStarts, Profile!ThreadFree,
         ProfileProofs!ThreadFree, Profile!Actors, ProfileProofs!Actors,
         Profile!graphVars, ProfileProofs!graphVars, Profile!samplerVars,
         ProfileProofs!samplerVars, Profile!historyVars, ProfileProofs!historyVars
<1>4. ASSUME NEW p \in Profile!Actors PROVE Profile!Step(p) =>
          /\ p \in ProfileProofs!Actors
          /\ \/ ProfileProofs!Walks(p) \/ ProfileProofs!Store(p)
             \/ ProfileProofs!Histogram(p) \/ ProfileProofs!Link(p)
  <2>1. Profile!Mcount(p) => ProfileProofs!Entered(p)
    BY DEF Profile!Mcount, ProfileProofs!Entered, Profile!At, ProfileProofs!At,
           Profile!Goto, ProfileProofs!Goto,
           Profile!graphVars, ProfileProofs!graphVars, Profile!samplerVars,
           ProfileProofs!samplerVars, Profile!historyVars, ProfileProofs!historyVars
  <2>2. Profile!FindEntry(p) => ProfileProofs!FindEntry(p)
    BY DEF Profile!FindEntry, ProfileProofs!FindEntry, Profile!At, ProfileProofs!At,
           Profile!Goto, ProfileProofs!Goto, Profile!graphVars,
           ProfileProofs!graphVars, Profile!samplerVars, ProfileProofs!samplerVars,
           Profile!historyVars, ProfileProofs!historyVars, Profile!First,
           ProfileProofs!First, Profile!NULL, ProfileProofs!NULL
  <2>3. Profile!FindArc(p) => ProfileProofs!FindArc(p)
    BY DEF Profile!FindArc, ProfileProofs!FindArc, Profile!At, ProfileProofs!At,
           Profile!Goto, ProfileProofs!Goto, Profile!graphVars,
           ProfileProofs!graphVars, Profile!samplerVars, ProfileProofs!samplerVars,
           Profile!historyVars, ProfileProofs!historyVars, Profile!First,
           ProfileProofs!First, Profile!NULL, ProfileProofs!NULL
  <2>4. Profile!Load(p) => ProfileProofs!Load(p)
    BY DEF Profile!Load, ProfileProofs!Load, Profile!At, ProfileProofs!At,
           Profile!Goto, ProfileProofs!Goto, Profile!graphVars,
           ProfileProofs!graphVars, Profile!samplerVars, ProfileProofs!samplerVars,
           Profile!historyVars, ProfileProofs!historyVars
  <2>5. Profile!Store(p) => ProfileProofs!Store(p)
    BY DEF Profile!Store, ProfileProofs!Store, Profile!At, ProfileProofs!At,
           Profile!Goto, ProfileProofs!Goto, Profile!graphVars,
           ProfileProofs!graphVars, Profile!samplerVars, ProfileProofs!samplerVars,
           Profile!historyVars, ProfileProofs!historyVars, Profile!Return,
           ProfileProofs!Return, Profile!Unused, ProfileProofs!Unused, Profile!NULL,
           ProfileProofs!NULL
  <2>6. Profile!Record(p) => ProfileProofs!Record(p)
    BY DEF Profile!Record, ProfileProofs!Record, Profile!At, ProfileProofs!At,
           Profile!Goto, ProfileProofs!Goto, Profile!graphVars,
           ProfileProofs!graphVars, Profile!samplerVars, ProfileProofs!samplerVars,
           Profile!historyVars, ProfileProofs!historyVars
  <2>7. Profile!ClearNeed(p) => ProfileProofs!ClearNeed(p)
    BY DEF Profile!ClearNeed, ProfileProofs!ClearNeed, Profile!At, ProfileProofs!At,
           Profile!Goto, ProfileProofs!Goto, Profile!graphVars,
           ProfileProofs!graphVars, Profile!samplerVars, ProfileProofs!samplerVars,
           Profile!historyVars, ProfileProofs!historyVars
  <2>8. Profile!NoRate(p) => ProfileProofs!NoRate(p)
    BY DEF Profile!NoRate, ProfileProofs!NoRate, Profile!At, ProfileProofs!At,
           Profile!Goto, ProfileProofs!Goto, Profile!graphVars,
           ProfileProofs!graphVars, Profile!samplerVars, ProfileProofs!samplerVars,
           Profile!historyVars, ProfileProofs!historyVars
  <2>9. Profile!Histogram(p) => ProfileProofs!Histogram(p)
    BY DEF Profile!Histogram, ProfileProofs!Histogram, Profile!At, ProfileProofs!At,
           Profile!Goto, ProfileProofs!Goto, Profile!graphVars,
           ProfileProofs!graphVars, Profile!samplerVars, ProfileProofs!samplerVars,
           Profile!historyVars, ProfileProofs!historyVars, Profile!Sbrk,
           ProfileProofs!Sbrk, Profile!SbrkFrom, ProfileProofs!SbrkFrom,
           Profile!Aligned, ProfileProofs!Aligned
  <2>10. Profile!StartAlarm(p) => ProfileProofs!StartAlarm(p)
    BY DEF Profile!StartAlarm, ProfileProofs!StartAlarm, Profile!At, ProfileProofs!At,
           Profile!Goto, ProfileProofs!Goto, Profile!graphVars,
           ProfileProofs!graphVars, Profile!samplerVars, ProfileProofs!samplerVars,
           Profile!historyVars, ProfileProofs!historyVars
  <2>11. Profile!Link(p) => ProfileProofs!Link(p)
    BY DEF Profile!Link, ProfileProofs!Link, Profile!At, ProfileProofs!At,
           Profile!Goto, ProfileProofs!Goto, Profile!graphVars,
           ProfileProofs!graphVars, Profile!samplerVars, ProfileProofs!samplerVars,
           Profile!historyVars, ProfileProofs!historyVars, Profile!Sbrk,
           ProfileProofs!Sbrk, Profile!SbrkFrom, ProfileProofs!SbrkFrom,
           Profile!Aligned, ProfileProofs!Aligned, Profile!Allocated,
           ProfileProofs!Allocated, Profile!Taken, ProfileProofs!Taken,
           Profile!EntryNext, ProfileProofs!EntryNext, Profile!ArcNext,
           ProfileProofs!ArcNext, Profile!FirstCount, ProfileProofs!FirstCount,
           Profile!Return, ProfileProofs!Return, Profile!Unused, ProfileProofs!Unused,
           Profile!NULL, ProfileProofs!NULL
  <2>12. p \in ProfileProofs!Actors
    BY DEF Profile!Actors, ProfileProofs!Actors
  <2> QED BY <2>1, <2>2, <2>3, <2>4, <2>5, <2>6, <2>7, <2>8, <2>9, <2>10, <2>11, <2>12
          DEF Profile!Step, ProfileProofs!Walks
<1>5. Init => ProfileProofs!Init
  BY <1>1 DEF Init
<1>6. [Next]_vars => [ProfileProofs!Unbounded]_(ProfileProofs!vars)
  <2> SUFFICES ASSUME Next, ~UNCHANGED profileVars PROVE ProfileProofs!Unbounded
    BY DEF vars, profileVars, ProfileProofs!vars, ProfileProofs!graphVars,
           ProfileProofs!samplerVars, ProfileProofs!historyVars
  <2>1. Profile!Next
    BY DEF Next
  <2> QED BY <2>1, <1>2, <1>3, <1>4 DEF Profile!Next, ProfileProofs!Unbounded
<1> QED BY <1>5, <1>6

\* Every call of an instrumented function is in the call graph, for any number
\* of functions, callers and calls (alt_gmon.c:172-179).
THEOREM CallsRecordedHere == Spec => []CallsRecorded
<1>1. ProfileProofs!CallsRecorded => CallsRecorded
  BY DEF CallsRecorded, Profile!CallsRecorded, ProfileProofs!CallsRecorded,
         Profile!Calls, ProfileProofs!Calls, Profile!Copies, ProfileProofs!Copies,
         Profile!Chain, ProfileProofs!Chain, Profile!NULL, ProfileProofs!NULL
<1>2. ProfileProofs!Open => []ProfileProofs!CallsRecorded
  BY ProfileAssumed, ProfileProofs!GraphRecords
<1> QED BY <1>1, <1>2, ProfileSteps, PTL DEF Spec, ProfileProofs!Open

\* Its counts add up, except for a lost update (alt_mcount.S:120-122).
THEOREM CountsHonestHere == Spec => []CountsHonest
<1>1. ProfileProofs!CountsHonest => CountsHonest
  BY DEF CountsHonest, Profile!CountsHonest, ProfileProofs!CountsHonest,
         Profile!Calls, ProfileProofs!Calls, Profile!Counted, ProfileProofs!Counted,
         Profile!Total, ProfileProofs!Total, Profile!Copies, ProfileProofs!Copies,
         Profile!Chain, ProfileProofs!Chain, Profile!NULL, ProfileProofs!NULL
<1>2. ProfileProofs!Open => []ProfileProofs!CountsHonest
  BY ProfileAssumed, ProfileProofs!GraphCounts
<1> QED BY <1>1, <1>2, ProfileSteps, PTL DEF Spec, ProfileProofs!Open

\* What sbrk and mcount_allocate hand out does not overlap, as long as no
\* request failed whose result is used (alt_sbrk.c:73-97, alt_gmon.c:133-148).
ProfileLasts ==
    /\ \A e \in DOMAIN entries : entries[e].addr # -1
    /\ \A a \in DOMAIN arcs : arcs[a].addr # -1
    /\ s_pcsamples # -1

THEOREM MemoryApartHere == Spec => [](ProfileLasts => MemoryApart)
<1>1. (ProfileProofs!MemoryLasts => ProfileProofs!MemoryApart) =>
          (ProfileLasts => MemoryApart)
  BY DEF Profile!Cardinality, ProfileProofs!Cardinality, MemoryApart,
         Profile!MemoryApart, ProfileProofs!MemoryApart,
         Profile!Regions, ProfileProofs!Regions, Profile!Taking, ProfileProofs!Taking,
         Profile!NULL, ProfileProofs!NULL, ProfileLasts, ProfileProofs!MemoryLasts,
         ProfileProofs!RecordsLast
<1>2. ProfileProofs!Open => [](ProfileProofs!MemoryLasts => ProfileProofs!MemoryApart)
  BY ProfileAssumed, ProfileProofs!HeapApart
<1> QED BY <1>1, <1>2, ProfileSteps, PTL DEF Spec, ProfileProofs!Open

\* A slab or a histogram would still fit.
ProfileRoomy ==
    memory.heap_end + SLAB <= HEAP_LIMIT /\ memory.heap_end + HISTOGRAM <= HEAP_LIMIT

\* No request has failed, and nothing overlaps, as long as there is room below
\* the limit (alt_sbrk.c:88-97).
THEOREM RoomSufficesHere == Spec => [](ProfileRoomy => MemoryApart)
<1>1. (ProfileProofs!Roomy => ProfileProofs!MemoryApart) => (ProfileRoomy => MemoryApart)
  BY DEF Profile!Cardinality, ProfileProofs!Cardinality, MemoryApart,
         Profile!MemoryApart, ProfileProofs!MemoryApart,
         Profile!Regions, ProfileProofs!Regions, Profile!Taking, ProfileProofs!Taking,
         Profile!NULL, ProfileProofs!NULL, ProfileRoomy, ProfileProofs!Roomy,
         ProfileProofs!RoomIn
<1>2. ProfileProofs!Open => [](ProfileProofs!Roomy => ProfileProofs!MemoryApart)
  BY ProfileAssumed, ProfileProofs!RoomSuffices
<1> QED BY <1>1, <1>2, ProfileSteps, PTL DEF Spec, ProfileProofs!Open

-----------------------------------------------------------------------------
(* The lists of devices and filesystems.                                   *)

\* What IsPrefix means, on sequences.
LEMMA PrefixIs ==
    ASSUME NEW C, NEW m \in Seq(C), NEW n \in Seq(C)
    PROVE  Registry!IsPrefix(m, n) <=>
               Len(m) <= Len(n) /\ \A j \in 1..Len(m) : m[j] = n[j]
<1>1. CASE Len(m) <= Len(n)
  <2>1. /\ SubSeq(m, 1, Len(m)) \in Seq(C) /\ Len(SubSeq(m, 1, Len(m))) = Len(m)
        /\ SubSeq(n, 1, Len(m)) \in Seq(C) /\ Len(SubSeq(n, 1, Len(m))) = Len(m)
        /\ \A j \in 1..Len(m) : /\ SubSeq(m, 1, Len(m))[j] = m[j]
                                /\ SubSeq(n, 1, Len(m))[j] = n[j]
    BY <1>1
  <2> QED BY <1>1, <2>1 DEF Registry!IsPrefix
<1>2. CASE ~(Len(m) <= Len(n))
  BY <1>2 DEF Registry!IsPrefix
<1> QED BY <1>1, <1>2

\* The beginnings of a name, without and with a "/" added.
LEMMA Cut ==
    ASSUME NEW C, "/" \in C, NEW n \in Seq(C), NEW k \in 0..Len(n)
    PROVE  /\ SubSeq(n, 1, k) \in Seq(C)
           /\ Len(SubSeq(n, 1, k)) = k
           /\ \A j \in 1..k : SubSeq(n, 1, k)[j] = n[j]
<1>0. Len(n) \in Nat
  OBVIOUS
<1>1. SubSeq(n, 1, k) \in Seq(C)
  BY <1>0
<1>2. Len(SubSeq(n, 1, k)) = k
  BY <1>0
<1>3. \A j \in 1..k : SubSeq(n, 1, k)[j] = n[j]
  BY <1>0
<1> QED BY <1>1, <1>2, <1>3

LEMMA CutAndClosed ==
    ASSUME NEW C, "/" \in C, NEW n \in Seq(C), NEW k \in 0..Len(n)
    PROVE  LET q == SubSeq(n, 1, k) \o <<"/">> IN
           /\ q \in Seq(C)
           /\ Len(q) = k + 1
           /\ \A j \in 1..k : q[j] = n[j]
           /\ q[k + 1] = "/"
<1> DEFINE p == SubSeq(n, 1, k)
<1>1. p \in Seq(C) /\ Len(p) = k /\ \A j \in 1..k : p[j] = n[j]
  BY Cut
<1> HIDE DEF p
<1>2. p \o <<"/">> \in Seq(C) /\ Len(p \o <<"/">>) = k + 1
  <2>1. <<"/">> \in Seq(C) /\ Len(<<"/">>) = 1
    OBVIOUS
  <2>2. p \o <<"/">> \in Seq(C)
    BY <1>1, <2>1
  <2>3. Len(p \o <<"/">>) = Len(p) + 1
    BY <1>1, <2>1
  <2> QED BY <1>1, <2>2, <2>3
<1>3. \A j \in 1..k : (p \o <<"/">>)[j] = p[j]
  BY <1>1
<1>4. (p \o <<"/">>)[k + 1] = "/"
  BY <1>1
<1> QED BY <1>1, <1>2, <1>3, <1>4 DEF p

\* The comparisons of alt_find_file find the names in the directory
\* (alt_find_file.c:67-79).
LEMMA OwnsIsInside ==
    ASSUME NEW C, "/" \in C, NEW r \in Seq(C), r # <<>>, NEW n \in Seq(C)
    PROVE  Registry!Owns(r, n) <=> Registry!Inside(r, n)
<1> DEFINE m == Registry!MountPoint(r)
           P(k) == SubSeq(n, 1, k)
           Q(k) == SubSeq(n, 1, k) \o <<"/">>
<1>1. Len(r) \in Nat /\ Len(r) > 0 /\ Len(n) \in Nat
  OBVIOUS
<1>2. \A k \in 0..Len(n) :
         /\ P(k) \in Seq(C) /\ Len(P(k)) = k /\ \A j \in 1..k : P(k)[j] = n[j]
         /\ Q(k) \in Seq(C) /\ Len(Q(k)) = k + 1 /\ \A j \in 1..k : Q(k)[j] = n[j]
         /\ Q(k)[k + 1] = "/"
  BY Cut, CutAndClosed
<1>3. CASE r[Len(r)] = "/"
  <2> DEFINE l == Len(r) - 1
  <2>1. m = SubSeq(r, 1, l)
    BY <1>3 DEF Registry!MountPoint, Registry!Last, Registry!Front
  <2>2. /\ l \in Nat /\ m \in Seq(C) /\ Len(m) = l /\ \A j \in 1..l : m[j] = r[j]
    <3>1. l \in 0..Len(r)
      BY <1>1
    <3> HIDE DEF m, l
    <3>2. /\ SubSeq(r, 1, l) \in Seq(C) /\ Len(SubSeq(r, 1, l)) = l
          /\ \A j \in 1..l : SubSeq(r, 1, l)[j] = r[j]
      BY <3>1, Cut
    <3>3. l \in Nat
      BY <1>1, <3>1
    <3> QED BY <2>1, <3>2, <3>3
  <2> HIDE DEF m
  <2>3. Registry!Owns(r, n) <=> /\ l <= Len(n) /\ \A j \in 1..l : m[j] = n[j]
                                /\ Len(n) > l => n[l + 1] = "/"
    BY <2>2, PrefixIs DEF Registry!Owns, m
  <2>4. ASSUME Registry!Owns(r, n) PROVE Registry!Inside(r, n)
    <3>1. l \in 0..Len(n)
      BY <1>1, <2>2, <2>3, <2>4
    <3>2. r = Q(l)
      <4>1. Len(r) = Len(Q(l)) /\ \A j \in 1..Len(r) : r[j] = Q(l)[j]
        BY <1>1, <1>2, <1>3, <2>2, <2>3, <2>4, <3>1
      <4>2. Q(l) \in Seq(C)
        BY <1>2, <3>1
      <4> HIDE DEF Q
      <4> QED BY <4>1, <4>2
    <3>3. l = Len(n) \/ n[l + 1] = "/"
      BY <1>1, <2>2, <2>3, <2>4
    <3> QED BY <3>1, <3>2, <3>3 DEF Registry!Inside
  <2>5. ASSUME Registry!Inside(r, n) PROVE Registry!Owns(r, n)
    <3>1. PICK k \in 0..Len(n) : (r = P(k) \/ r = Q(k)) /\ (k = Len(n) \/ n[k + 1] = "/")
      BY <2>5 DEF Registry!Inside
    <3> HIDE DEF P, Q
    <3>2. CASE r = P(k)
      <4>1. Len(r) = k /\ \A j \in 1..k : r[j] = n[j]
        BY <1>2, <3>1, <3>2
      <4>2. l + 1 = k /\ n[l + 1] = "/" /\ \A j \in 1..l : r[j] = n[j]
        BY <1>1, <1>3, <4>1
      <4> QED BY <1>1, <2>2, <2>3, <3>1, <4>2
    <3>3. CASE r = Q(k)
      <4>1. l = k /\ \A j \in 1..l : r[j] = n[j]
        BY <1>1, <1>2, <3>1, <3>3
      <4> QED BY <1>1, <2>2, <2>3, <3>1, <4>1
    <3> QED BY <3>1, <3>2, <3>3
  <2> QED BY <2>4, <2>5
<1>4. CASE r[Len(r)] # "/"
  <2>1. m = r
    BY <1>4 DEF Registry!MountPoint, Registry!Last
  <2> HIDE DEF m
  <2>2. Registry!Owns(r, n) <=> /\ Len(r) <= Len(n) /\ \A j \in 1..Len(r) : r[j] = n[j]
                                /\ Len(n) > Len(r) => n[Len(r) + 1] = "/"
    BY <2>1, PrefixIs DEF Registry!Owns, m
  <2>3. ASSUME Registry!Owns(r, n) PROVE Registry!Inside(r, n)
    <3>1. Len(r) \in 0..Len(n) /\ (Len(r) = Len(n) \/ n[Len(r) + 1] = "/")
      BY <1>1, <2>2, <2>3
    <3>2. r = P(Len(r))
      <4>1. Len(r) = Len(P(Len(r))) /\ \A j \in 1..Len(r) : r[j] = P(Len(r))[j]
        BY <1>2, <2>2, <2>3, <3>1
      <4>2. P(Len(r)) \in Seq(C)
        BY <1>2, <3>1
      <4> HIDE DEF P
      <4> QED BY <4>1, <4>2
    <3> QED BY <3>1, <3>2 DEF Registry!Inside
  <2>4. ASSUME Registry!Inside(r, n) PROVE Registry!Owns(r, n)
    <3>1. PICK k \in 0..Len(n) : (r = P(k) \/ r = Q(k)) /\ (k = Len(n) \/ n[k + 1] = "/")
      BY <2>4 DEF Registry!Inside
    <3> HIDE DEF P, Q
    <3>2. r = P(k) /\ Len(r) = k
      BY <1>1, <1>2, <1>4, <3>1
    <3> QED BY <1>1, <1>2, <2>2, <3>1, <3>2
  <2> QED BY <2>3, <2>4
<1> QED BY <1>3, <1>4

\* A set of numbers that is not empty has a least one.
LEMMA LeastExists ==
    ASSUME NEW S \in SUBSET Nat, S # {}
    PROVE  Registry!Min(S) \in S /\ \A k \in S : Registry!Min(S) <= k
<1> SUFFICES \E m \in S : \A k \in S : m <= k
  BY DEF Registry!Min
<1> SUFFICES ASSUME \A m \in S : \E k \in S : k < m PROVE FALSE
  OBVIOUS
<1> DEFINE T == {n \in Nat : \A k \in 0..n : k \notin S}
<1>1. 0 \in T
  OBVIOUS
<1>2. \A n \in Nat : n \in T => n + 1 \in T
  OBVIOUS
<1>3. Nat \subseteq T
  <2> HIDE DEF T
  <2> QED BY <1>1, <1>2, ProfileProofs!Induction
<1>4. PICK k \in S : k \in Nat
  OBVIOUS
<1>5. k \in T
  BY <1>3, <1>4
<1> QED BY <1>4, <1>5

LEMMA LeastUnique ==
    ASSUME NEW S \in SUBSET Nat, NEW m \in S, \A k \in S : m <= k
    PROVE  Registry!Min(S) = m
<1>1. Registry!Min(S) \in S /\ \A k \in S : Registry!Min(S) <= k
  BY LeastExists
<1>2. Registry!Min(S) \in Nat /\ m \in Nat /\ Registry!Min(S) <= m /\ m <= Registry!Min(S)
  BY <1>1
<1> QED BY <1>2

\* The search takes a registered name of those it looks for, and none before it.
LEMMA MatchIs ==
    ASSUME NEW C, NEW list \in Seq(C), NEW M
    PROVE  LET k == Registry!FirstMatch(list, M) IN
           \/ k = 0 /\ \A j \in 1..Len(list) : list[j] \notin M
           \/ /\ k \in 1..Len(list) /\ list[k] \in M
              /\ \A j \in 1..Len(list) : list[j] \in M => k <= j
<1> DEFINE found == {k \in DOMAIN list : list[k] \in M}
<1>0. DOMAIN list = 1..Len(list) /\ Len(list) \in Nat
  OBVIOUS
<1>1. CASE found = {}
  BY <1>0, <1>1 DEF Registry!FirstMatch
<1>2. CASE found # {}
  <2>1. found \in SUBSET Nat
    BY <1>0
  <2> DEFINE k == Registry!Min(found)
  <2>2. k \in found /\ \A j \in found : k <= j
    <3> HIDE DEF found
    <3> QED BY <1>2, <2>1, LeastExists
  <2>3. Registry!FirstMatch(list, M) = k
    BY <1>2 DEF Registry!FirstMatch
  <2> HIDE DEF k
  <2> QED BY <1>0, <2>2, <2>3
<1> QED BY <1>1, <1>2

\* The list new is list with r before it.
Follows(C, list, r, new) ==
    /\ new \in Seq(C) /\ Len(new) = Len(list) + 1
    /\ new[1] = r /\ \A j \in 1..Len(list) : new[j + 1] = list[j]

LEMMA InsertedIs ==
    ASSUME NEW C, NEW list \in Seq(C), NEW r \in C
    PROVE  Follows(C, list, r, Registry!Inserted(list, r))
<1>1. <<r>> \in Seq(C) /\ Len(<<r>>) = 1 /\ <<r>>[1] = r
  OBVIOUS
<1>2. <<r>> \o list \in Seq(C)
  BY <1>1
<1>3. Len(<<r>> \o list) = Len(list) + 1
  BY <1>1
<1>4. (<<r>> \o list)[1] = r
  BY <1>1
<1>5. \A j \in 1..Len(list) : (<<r>> \o list)[j + 1] = list[j]
  BY <1>1
<1> QED BY <1>2, <1>3, <1>4, <1>5 DEF Registry!Inserted, Follows

\* A registration at the head comes first, and moves the others by one.
LEMMA MatchInserted ==
    ASSUME NEW C, NEW list \in Seq(C), NEW r \in C, NEW M
    PROVE  LET k == Registry!FirstMatch(list, M) IN
           Registry!FirstMatch(Registry!Inserted(list, r), M) =
               IF r \in M THEN 1 ELSE IF k = 0 THEN 0 ELSE k + 1
<1>a. Follows(C, list, r, Registry!Inserted(list, r))
  BY InsertedIs
<1>b. Len(list) \in Nat
  OBVIOUS
<1> DEFINE new == Registry!Inserted(list, r)
           k == Registry!FirstMatch(list, M)
           l == Registry!FirstMatch(new, M)
           n == Len(list)
<1>1. /\ new \in Seq(C) /\ Len(new) = n + 1 /\ n \in Nat
      /\ new[1] = r /\ \A j \in 1..n : new[j + 1] = list[j]
  BY <1>a, <1>b DEF Follows
<1>2. \/ k = 0 /\ \A j \in 1..n : list[j] \notin M
      \/ /\ k \in 1..n /\ list[k] \in M
         /\ \A j \in 1..n : list[j] \in M => k <= j
  BY MatchIs
<1> HIDE DEF new, n, k
<1>3. \/ l = 0 /\ \A j \in 1..Len(new) : new[j] \notin M
      \/ /\ l \in 1..Len(new) /\ new[l] \in M
         /\ \A j \in 1..Len(new) : new[j] \in M => l <= j
  BY <1>1, MatchIs
<1>4. \/ l = 0 /\ \A j \in 1..(n + 1) : new[j] \notin M
      \/ /\ l \in 1..(n + 1) /\ new[l] \in M
         /\ \A j \in 1..(n + 1) : new[j] \in M => l <= j
  BY <1>1, <1>3
<1> HIDE DEF l
<1>5. \A j \in 1..(n + 1) : j = 1 \/ (j - 1 \in 1..n /\ new[j] = list[j - 1])
  <2> TAKE j \in 1..(n + 1)
  <2>1. j # 1 => j - 1 \in 1..n /\ (j - 1) + 1 = j
    BY <1>1
  <2>2. j # 1 => new[(j - 1) + 1] = list[j - 1]
    BY <1>1, <2>1
  <2> QED BY <2>1, <2>2
<1>6. CASE r \in M
  BY <1>1, <1>4, <1>6 DEF k, l, new
<1>7. CASE r \notin M /\ k = 0
  BY <1>1, <1>2, <1>4, <1>5, <1>7 DEF k, l, new
<1>8. CASE r \notin M /\ k # 0
  <2>1. k \in 1..n /\ list[k] \in M /\ \A j \in 1..n : list[j] \in M => k <= j
    BY <1>2, <1>8
  <2>2. k + 1 \in 1..(n + 1) /\ new[k + 1] \in M
    BY <1>1, <2>1
  <2>3. l \in 1..(n + 1) /\ new[l] \in M /\ l <= k + 1
    BY <1>1, <1>4, <2>2
  <2>4. l # 1
    BY <1>1, <1>8, <2>3
  <2>5. l - 1 \in 1..n /\ list[l - 1] \in M
    BY <1>5, <2>3, <2>4
  <2>6. k <= l - 1
    BY <2>1, <2>5
  <2>7. l = k + 1
    BY <1>1, <2>1, <2>3, <2>6
  <2> QED BY <1>8, <2>1, <2>7 DEF k, l, new
<1> QED BY <1>6, <1>7, <1>8

Chars == STRING \union {"/"}

NamesKept == alt_dev_list \in Seq(Names) /\ alt_fs_list \in Seq(Names)

LEMMA NamesAreSequences == Names \subseteq Seq(Chars) \ {<<>>} /\ "/" \in Chars
<1>1. Names \subseteq Seq(STRING) \ {<<>>}
  BY PartsAssumption DEF Registry!DevRegistryAssumption
<1>2. STRING \subseteq Chars /\ "/" \in Chars
  BY DEF Chars
<1>3. Seq(STRING) \subseteq Seq(Chars)
  <2> SUFFICES ASSUME NEW s \in Seq(STRING) PROVE s \in Seq(Chars)
    OBVIOUS
  <2>1. s \in [1..Len(s) -> STRING] /\ Len(s) \in Nat
    OBVIOUS
  <2>2. s \in [1..Len(s) -> Chars]
    BY <1>2, <2>1
  <2> QED BY <2>1, <2>2
<1> QED BY <1>1, <1>2, <1>3

LEMMA NamesStay ==
    /\ Registry!Init => NamesKept
    /\ NamesKept /\ [Registry!Next]_(Registry!vars) => NamesKept'
<1>1. Registry!Init => NamesKept
  BY DEF Registry!Init, NamesKept
<1>2. ASSUME NamesKept, NEW n \in Names, Registry!DevReg(n) PROVE NamesKept'
  <2>1. alt_dev_list \in Seq(Names) /\ alt_fs_list \in Seq(Names)
    BY <1>2 DEF NamesKept
  <2>2. Registry!Inserted(alt_dev_list, n) \in Seq(Names)
    <3>1. Follows(Names, alt_dev_list, n, Registry!Inserted(alt_dev_list, n))
      BY <2>1, InsertedIs
    <3> QED BY <3>1 DEF Follows
  <2> QED BY <1>2, <2>1, <2>2 DEF NamesKept, Registry!DevReg
<1>3. ASSUME NamesKept, NEW n \in Names, Registry!FsReg(n) PROVE NamesKept'
  <2>1. alt_dev_list \in Seq(Names) /\ alt_fs_list \in Seq(Names)
    BY <1>3 DEF NamesKept
  <2>2. Registry!Inserted(alt_fs_list, n) \in Seq(Names)
    <3>1. Follows(Names, alt_fs_list, n, Registry!Inserted(alt_fs_list, n))
      BY <2>1, InsertedIs
    <3> QED BY <3>1 DEF Follows
  <2> QED BY <1>3, <2>1, <2>2 DEF NamesKept, Registry!FsReg
<1>4. ASSUME NamesKept, UNCHANGED Registry!vars PROVE NamesKept'
  BY <1>4 DEF NamesKept, Registry!vars
<1> QED BY <1>1, <1>2, <1>3, <1>4 DEF Registry!Next

\* What a registration changes in the answers of the search.
LEMMA DevLeads ==
    ASSUME NEW devs \in Seq(Names), NEW fss \in Seq(Names), NEW r \in Names,
           NEW n \in Names
    PROVE  Registry!Lookup(Registry!Inserted(devs, r), fss, n) =
               IF n = r THEN [list |-> "dev", place |-> Len(devs)]
               ELSE Registry!Lookup(devs, fss, n)
<1> DEFINE M == {s \in Names : Registry!IsName(s, n)}
           d == Registry!FirstMatch(devs, M)
           e == Registry!FirstMatch(Registry!Inserted(devs, r), M)
           f == Registry!FirstMatch(fss, {s \in Names : Registry!Owns(s, n)})
           l == Len(Registry!Inserted(devs, r))
<1>1. r \in M <=> n = r
  BY DEF Registry!IsName
<1> HIDE DEF M
<1>2. e = IF r \in M THEN 1 ELSE IF d = 0 THEN 0 ELSE d + 1
  BY MatchInserted
<1>3. d \in 0..Len(devs) /\ Len(devs) \in Nat
  <2>1. Len(devs) \in Nat
    OBVIOUS
  <2>2. d = 0 \/ d \in 1..Len(devs)
    BY MatchIs
  <2> QED BY <2>1, <2>2
<1>4. l = Len(devs) + 1
  <2>1. Follows(Names, devs, r, Registry!Inserted(devs, r))
    BY InsertedIs
  <2> QED BY <2>1 DEF Follows
<1>5. /\ Registry!Lookup(devs, fss, n) =
             IF d # 0 THEN [list |-> "dev", place |-> Len(devs) - d]
             ELSE IF f # 0 THEN [list |-> "fs", place |-> Len(fss) - f]
             ELSE [list |-> "none", place |-> 0]
      /\ Registry!Lookup(Registry!Inserted(devs, r), fss, n) =
             IF e # 0 THEN [list |-> "dev", place |-> l - e]
             ELSE IF f # 0 THEN [list |-> "fs", place |-> Len(fss) - f]
             ELSE [list |-> "none", place |-> 0]
  BY DEF Registry!Lookup, M
<1> HIDE DEF d, e, f, l
<1>6. CASE n = r
  <2>1. e = 1 /\ l - e = Len(devs)
    BY <1>1, <1>2, <1>3, <1>4, <1>6
  <2> QED BY <1>5, <1>6, <2>1
<1>7. CASE n # r /\ d = 0
  <2>1. e = 0
    BY <1>1, <1>2, <1>7
  <2> QED BY <1>5, <1>7, <2>1
<1>8. CASE n # r /\ d # 0
  <2>1. e # 0 /\ l - e = Len(devs) - d
    BY <1>1, <1>2, <1>3, <1>4, <1>8
  <2> QED BY <1>5, <1>8, <2>1
<1> QED BY <1>6, <1>7, <1>8

LEMMA FsLeads ==
    ASSUME NEW devs \in Seq(Names), NEW fss \in Seq(Names), NEW r \in Names,
           NEW n \in Names
    PROVE  Registry!Lookup(devs, Registry!Inserted(fss, r), n) =
               IF Registry!Inside(r, n) /\ Registry!Lookup(devs, fss, n).list # "dev"
               THEN [list |-> "fs", place |-> Len(fss)]
               ELSE Registry!Lookup(devs, fss, n)
<1> DEFINE M == {s \in Names : Registry!Owns(s, n)}
           d == Registry!FirstMatch(devs, {s \in Names : Registry!IsName(s, n)})
           f == Registry!FirstMatch(fss, M)
           e == Registry!FirstMatch(Registry!Inserted(fss, r), M)
           l == Len(Registry!Inserted(fss, r))
<1>1. r \in M <=> Registry!Inside(r, n)
  <2>1. r \in Seq(Chars) /\ r # <<>> /\ n \in Seq(Chars) /\ "/" \in Chars
    BY NamesAreSequences
  <2>2. Registry!Owns(r, n) <=> Registry!Inside(r, n)
    BY <2>1, OwnsIsInside
  <2> QED BY <2>2
<1> HIDE DEF M
<1>2. e = IF r \in M THEN 1 ELSE IF f = 0 THEN 0 ELSE f + 1
  BY MatchInserted
<1>3. f \in 0..Len(fss) /\ Len(fss) \in Nat
  <2>1. Len(fss) \in Nat
    OBVIOUS
  <2>2. f = 0 \/ f \in 1..Len(fss)
    BY MatchIs
  <2> QED BY <2>1, <2>2
<1>4. l = Len(fss) + 1
  <2>1. Follows(Names, fss, r, Registry!Inserted(fss, r))
    BY InsertedIs
  <2> QED BY <2>1 DEF Follows
<1>5. /\ Registry!Lookup(devs, fss, n) =
             IF d # 0 THEN [list |-> "dev", place |-> Len(devs) - d]
             ELSE IF f # 0 THEN [list |-> "fs", place |-> Len(fss) - f]
             ELSE [list |-> "none", place |-> 0]
      /\ Registry!Lookup(devs, Registry!Inserted(fss, r), n) =
             IF d # 0 THEN [list |-> "dev", place |-> Len(devs) - d]
             ELSE IF e # 0 THEN [list |-> "fs", place |-> l - e]
             ELSE [list |-> "none", place |-> 0]
  BY DEF Registry!Lookup, M
<1> HIDE DEF d, e, f, l
<1>6. Registry!Lookup(devs, fss, n).list # "dev" <=> d = 0
  BY <1>5
<1>7. CASE d # 0
  BY <1>5, <1>6, <1>7
<1>8. CASE d = 0 /\ r \in M
  <2>1. e = 1 /\ l - e = Len(fss)
    BY <1>2, <1>3, <1>4, <1>8
  <2> QED BY <1>1, <1>5, <1>6, <1>8, <2>1
<1>9. CASE d = 0 /\ r \notin M /\ f = 0
  <2>1. e = 0
    BY <1>2, <1>9
  <2> QED BY <1>1, <1>5, <1>9, <2>1
<1>10. CASE d = 0 /\ r \notin M /\ f # 0
  <2>1. e # 0 /\ l - e = Len(fss) - f
    BY <1>2, <1>3, <1>4, <1>10
  <2> QED BY <1>1, <1>5, <1>10, <2>1
<1> QED BY <1>7, <1>8, <1>9, <1>10

LEMMA LeadsStep ==
    ASSUME NamesKept, NEW r \in Names
    PROVE  /\ Registry!DevReg(r) =>
                  Registry!Leads' = [Registry!Leads EXCEPT
                      ![r] = [list |-> "dev", place |-> Len(alt_dev_list)]]
           /\ Registry!FsReg(r) =>
                  \A n \in Names :
                      Registry!Leads'[n] =
                          IF Registry!Inside(r, n) /\ Registry!Leads[n].list # "dev"
                          THEN [list |-> "fs", place |-> Len(alt_fs_list)]
                          ELSE Registry!Leads[n]
<1>1. alt_dev_list \in Seq(Names) /\ alt_fs_list \in Seq(Names)
  BY DEF NamesKept
<1>2. Registry!Leads = [n \in Names |-> Registry!Lookup(alt_dev_list, alt_fs_list, n)]
  BY DEF Registry!Leads
<1>3. Registry!Leads' =
          [n \in Names |-> Registry!Lookup(alt_dev_list', alt_fs_list', n)]
  BY DEF Registry!Leads
<1>4. ASSUME Registry!DevReg(r)
      PROVE  Registry!Leads' = [Registry!Leads EXCEPT
                 ![r] = [list |-> "dev", place |-> Len(alt_dev_list)]]
  <2>1. /\ alt_dev_list' = Registry!Inserted(alt_dev_list, r)
        /\ alt_fs_list' = alt_fs_list
    BY <1>4 DEF Registry!DevReg
  <2>2. \A n \in Names :
            Registry!Lookup(alt_dev_list', alt_fs_list', n) =
                IF n = r THEN [list |-> "dev", place |-> Len(alt_dev_list)]
                ELSE Registry!Lookup(alt_dev_list, alt_fs_list, n)
    BY <1>1, <2>1, DevLeads
  <2> QED BY <1>2, <1>3, <2>2
<1>5. ASSUME Registry!FsReg(r), NEW n \in Names
      PROVE  Registry!Leads'[n] =
                 IF Registry!Inside(r, n) /\ Registry!Leads[n].list # "dev"
                 THEN [list |-> "fs", place |-> Len(alt_fs_list)]
                 ELSE Registry!Leads[n]
  <2>1. /\ alt_fs_list' = Registry!Inserted(alt_fs_list, r)
        /\ alt_dev_list' = alt_dev_list
    BY <1>5 DEF Registry!FsReg
  <2>2. Registry!Lookup(alt_dev_list', alt_fs_list', n) =
            IF Registry!Inside(r, n)
               /\ Registry!Lookup(alt_dev_list, alt_fs_list, n).list # "dev"
            THEN [list |-> "fs", place |-> Len(alt_fs_list)]
            ELSE Registry!Lookup(alt_dev_list, alt_fs_list, n)
    BY <1>1, <2>1, FsLeads
  <2> QED BY <1>2, <1>3, <2>2
<1> QED BY <1>4, <1>5

\* A registration takes over the names that are its own and no other, for any
\* names and number of registrations (alt_find_dev.c:46-47, alt_find_file.c:50-52).
THEOREM LastOwnersFound == Spec => LastOwnerFound
<1>1. Init => NamesKept
  BY NamesStay DEF Init
<1>2. NamesKept /\ [Next]_vars => NamesKept'
  <2> SUFFICES ASSUME NamesKept, [Next]_vars PROVE NamesKept'
    OBVIOUS
  <2>1. [Registry!Next]_(Registry!vars)
    BY DEF Next, vars, registryVars, Registry!vars
  <2> QED BY <2>1, NamesStay
<1>3. Spec => []NamesKept
  BY <1>1, <1>2, PTL DEF Spec
<1>4. NamesKept => [\A r \in Names :
          /\ Registry!DevReg(r) =>
                 Registry!Leads' = [Registry!Leads EXCEPT
                     ![r] = [list |-> "dev", place |-> Len(alt_dev_list)]]
          /\ Registry!FsReg(r) =>
                 \A n \in Names :
                     Registry!Leads'[n] =
                         IF Registry!Inside(r, n) /\ Registry!Leads[n].list # "dev"
                         THEN [list |-> "fs", place |-> Len(alt_fs_list)]
                         ELSE Registry!Leads[n]]_(Registry!vars)
  BY LeadsStep
<1> QED BY <1>3, <1>4, PTL DEF LastOwnerFound, Registry!LastOwnerFound

-----------------------------------------------------------------------------
(* The time of day.                                                        *)

LEMMA ClockSizes ==
    ASSUME Clock!TimeOfDayAssumption
    PROVE  /\ WRAP \in Nat /\ WRAP > 0 /\ WRAP % 2 = 0
           /\ WRAP \div 2 \in Nat /\ WRAP = 2 * (WRAP \div 2)
           /\ ALT_US \in Nat /\ ALT_US > 0 /\ 4 * ALT_US <= WRAP
           /\ RATE \in Nat /\ RATE > 0
           /\ Clock!UsPerTick \in Nat /\ ALT_US = RATE * Clock!UsPerTick
<1>1. /\ WRAP \in Nat /\ WRAP > 0 /\ WRAP % 2 = 0 /\ 4 * ALT_US <= WRAP
      /\ ALT_US \in Nat /\ ALT_US > 0 /\ RATE \in Nat /\ RATE > 0 /\ ALT_US % RATE = 0
  BY DEF Clock!TimeOfDayAssumption
<1>2. ALT_US \div RATE \in Nat /\ ALT_US = RATE * (ALT_US \div RATE) + 0
  BY <1>1, Division
<1>3. RATE * (ALT_US \div RATE) \in Nat
  BY <1>1, <1>2, Times
<1>4. WRAP \div 2 \in Nat /\ WRAP = 2 * (WRAP \div 2)
  BY <1>1
<1> QED BY <1>1, <1>2, <1>3, <1>4 DEF Clock!UsPerTick

\* A number that a signed word holds is what it is read back as.
LEMMA SignedFits ==
    ASSUME Clock!TimeOfDayAssumption,
           NEW n \in Int, -(WRAP \div 2) <= n, n < WRAP \div 2
    PROVE  Clock!Signed(n) = n
<1> DEFINE h == WRAP \div 2
<1>1. h \in Nat /\ WRAP = h + h /\ WRAP \in Nat /\ h > 0
  BY ClockSizes
<1>2. CASE n >= 0
  <2>1. n % WRAP = n
    <3> HIDE DEF h
    <3>1. n \in 0..(WRAP - 1)
      BY <1>1, <1>2, h = WRAP \div 2 DEF h
    <3> QED BY <3>1, <1>1
  <2> QED BY <2>1, <1>1, <1>2 DEF Clock!Signed, Clock!Word
<1>3. CASE n < 0
  <2>1. n % WRAP = n + WRAP
    <3>1. ((-1) * WRAP + (n + WRAP)) % WRAP = n + WRAP
      <4>1. n + WRAP \in Nat /\ n + WRAP < WRAP
        BY <1>1, <1>3
      <4> DEFINE m == n + WRAP
      <4> HIDE DEF m
      <4>2. ((-1) * WRAP + m) % WRAP = m
        BY <1>1, <4>1, IntQuotient DEF m
      <4> QED BY <4>2 DEF m
    <3>2. (-1) * WRAP + (n + WRAP) = n
      BY <1>1
    <3> QED BY <3>1, <3>2
  <2> QED BY <2>1, <1>1, <1>3 DEF Clock!Signed, Clock!Word
<1> QED BY <1>2, <1>3

\* Ticks are whole seconds and the microseconds of the rest.
LEMMA TickParts ==
    ASSUME Clock!TimeOfDayAssumption, NEW n \in Nat
    PROVE  /\ n \div RATE \in Nat
           /\ n * Clock!UsPerTick
                = (n \div RATE) * ALT_US + ((n * Clock!UsPerTick) % ALT_US)
           /\ (n * Clock!UsPerTick) % ALT_US \in 0..(ALT_US - 1)
<1> DEFINE U == Clock!UsPerTick
           q == n \div RATE
           r == n % RATE
<1>1. /\ q \in Nat /\ r \in Nat /\ r < RATE /\ n = RATE * q + r
      /\ U \in Nat /\ RATE \in Nat /\ ALT_US = RATE * U /\ ALT_US \in Nat
  BY ClockSizes, Division
<1> HIDE DEF U, q, r
<1>2. RATE * q \in Nat /\ q * RATE = RATE * q
  BY <1>1, Times
<1>3. n * U = (RATE * q) * U + r * U
  <2>1. (RATE * q + r) * U = (RATE * q) * U + r * U
    BY <1>1, <1>2, Distributed
  <2> QED BY <2>1, <1>1
<1>4. (RATE * q) * U = q * (RATE * U)
  BY <1>1, <1>2, Associated
<1>5. (r + 1) * U <= RATE * U /\ (r + 1) * U = r * U + 1 * U
  BY <1>1, TimesMonotone, Distributed
<1>6. r * U \in Nat /\ q * ALT_US \in Nat /\ ALT_US * q = q * ALT_US
  BY <1>1, Times
<1>7. U > 0
  <2>1. U = 0 => RATE * U = 0
    BY <1>1, Times
  <2>2. ALT_US > 0
    BY ClockSizes
  <2> QED BY <1>1, <2>1, <2>2
<1> DEFINE v == r * U
<1>8. v \in Nat /\ v < ALT_US
  <2>1. (r + 1) * U <= ALT_US /\ (r + 1) * U = v + U
    BY <1>1, <1>5
  <2> DEFINE w == (r + 1) * U
  <2>2. w <= ALT_US /\ w = v + U
    BY <2>1
  <2>3. v \in Nat
    BY <1>6
  <2> HIDE DEF v, w
  <2> QED BY <2>2, <2>3, <1>1, <1>7
<1>9. n * U = ALT_US * q + v
  BY <1>1, <1>3, <1>4, <1>6
<1>10. (ALT_US * q + v) % ALT_US = v
  <2> HIDE DEF v
  <2> QED BY <1>1, <1>8, Quotient
<1>11. (n * U) % ALT_US = v /\ n * U = q * ALT_US + v
  BY <1>6, <1>9, <1>10
<1>12. (n * U) % ALT_US \in 0..(ALT_US - 1)
  <2> HIDE DEF v
  <2> QED BY <1>1, <1>8, <1>11
<1> QED BY <1>1, <1>11, <1>12 DEF U, q

\* Bringing the microseconds into a second changes no time that is not
\* before zero.
LEMMA NormalisedTime ==
    ASSUME Clock!TimeOfDayAssumption, NEW sec \in Int, NEW usec \in Int,
           sec * ALT_US + usec >= 0
    PROVE  LET t == Clock!Normalised(Clock!Time(sec, usec)) IN
           /\ Clock!Micros(t) = sec * ALT_US + usec
           /\ t.tv_usec \in 0..(ALT_US - 1)
<1> DEFINE q == usec \div ALT_US
           r == usec % ALT_US
<1>1. /\ q \in Int /\ r \in 0..(ALT_US - 1) /\ usec = q * ALT_US + r
      /\ ALT_US \in Nat /\ ALT_US > 0
  BY ClockSizes, IntDivision
<1>2. (sec + q) * ALT_US = sec * ALT_US + q * ALT_US
      /\ sec * ALT_US \in Int /\ q * ALT_US \in Int /\ (sec + q) * ALT_US \in Int
  <2> HIDE DEF q
  <2> QED BY <1>1, IntTimes
<1> DEFINE a == sec * ALT_US
           b == q * ALT_US
           c == (sec + q) * ALT_US
<1>3. c = a + b /\ a \in Int /\ b \in Int /\ usec = b + r /\ a + usec >= 0
  BY <1>1, <1>2
<1>4. c + r = a + usec
  <2> HIDE DEF a, b, c, r, q
  <2> QED BY <1>1, <1>3
\* A time that is not before zero is not taken for one.
<1>5. sec + q >= 0
  <2> SUFFICES ASSUME sec + q <= -1 PROVE FALSE
    BY <1>1
  <2>1. -(sec + q) - 1 \in Nat
    BY <1>1
  <2>2. (-(sec + q) - 1) * ALT_US \in Nat
    BY <1>1, <2>1, Times
  <2>3. (-(sec + q) - 1) * ALT_US = (-(sec + q)) * ALT_US - 1 * ALT_US
        /\ (-(sec + q)) * ALT_US = 0 * ALT_US - c
    <3> HIDE DEF q
    <3>1. (0 - (sec + q)) * ALT_US = 0 * ALT_US - c
      BY <1>1, IntTimes
    <3>2. 0 - (sec + q) = -(sec + q)
      BY <1>1
    <3>3. (-(sec + q) - 1) * ALT_US = (-(sec + q)) * ALT_US - 1 * ALT_US
      BY <1>1, IntTimes
    <3> QED BY <3>1, <3>2, <3>3
  <2> DEFINE d == (-(sec + q) - 1) * ALT_US
  <2>4. d \in Nat /\ d = 0 - c - ALT_US
    <3>1. 0 * ALT_US = 0 /\ 1 * ALT_US = ALT_US
      BY <1>1
    <3> QED BY <1>1, <1>2, <2>2, <2>3, <3>1
  <2>5. c + r >= 0 /\ c \in Int
    BY <1>2, <1>3, <1>4
  <2> HIDE DEF a, b, c, d, r, q
  <2> QED BY <1>1, <2>4, <2>5
<1>6. Clock!Normalised(Clock!Time(sec, usec)) = Clock!Time(sec + q, r)
  <2>1. ~(usec < 0 /\ sec + q < 0)
    BY <1>1, <1>5
  <2> QED BY <2>1 DEF Clock!Normalised, Clock!Time
<1>7. Clock!Micros(Clock!Time(sec + q, r)) = c + r
  BY DEF Clock!Micros, Clock!Time
<1>8. Clock!Time(sec + q, r).tv_usec = r
  BY DEF Clock!Time
<1> HIDE DEF q, r, a, c
<1> QED BY <1>1, <1>4, <1>6, <1>7, <1>8 DEF a

\* alt_resettime is the time set less the ticks there had been then.
SetInv ==
    LET n == set.at % WRAP IN
    n * Clock!UsPerTick < WRAP =>
        /\ alt_resettime.tv_sec = set.time.tv_sec - n \div RATE
        /\ alt_resettime.tv_usec
             = set.time.tv_usec - ((n * Clock!UsPerTick) % ALT_US)

ClockInv ==
    /\ ticks \in Nat /\ set.at \in 0..ticks
    /\ _alt_nticks = ticks % WRAP
    /\ set.time.tv_sec \in Seconds \union {0}
    /\ set.time.tv_usec \in 0..(ALT_US - 1)
    /\ SetInv

LEMMA ClockInit == ASSUME Clock!TimeOfDayAssumption, Clock!Init PROVE ClockInv
<1>1. 0 % WRAP = 0 /\ 0 \div RATE = 0 /\ 0 * Clock!UsPerTick = 0 /\ 0 % ALT_US = 0
      /\ 0 \in 0..(ALT_US - 1)
  <2>1. /\ WRAP \in Nat /\ WRAP > 0 /\ RATE \in Nat /\ RATE > 0
        /\ ALT_US \in Nat /\ ALT_US > 0 /\ Clock!UsPerTick \in Nat
    BY ClockSizes
  <2>2. 0 * Clock!UsPerTick = 0
    BY <2>1, Times
  <2> QED BY <2>1, <2>2
<1> QED BY <1>1 DEF Clock!Init, ClockInv, SetInv, Clock!Time

\* What the counter holds covers fewer seconds than a signed word.
LEMMA CounterSeconds ==
    ASSUME Clock!TimeOfDayAssumption, NEW n \in Nat, n < WRAP,
           NEW sec \in Seconds \union {0}
    PROVE  n \div RATE \in Nat /\ sec \in Nat /\ sec + n \div RATE < WRAP \div 2
<1>1. /\ sec \in Nat /\ sec + WRAP \div RATE < WRAP \div 2
      /\ WRAP \in Nat /\ RATE \in Nat /\ RATE > 0 /\ WRAP \div 2 \in Nat
  BY ClockSizes DEF Clock!TimeOfDayAssumption
<1>2. /\ n \div RATE \in Nat /\ n = (n \div RATE) * RATE + (n % RATE) /\ n % RATE \in Nat
      /\ WRAP \div RATE \in Nat /\ WRAP = (WRAP \div RATE) * RATE + (WRAP % RATE)
      /\ WRAP % RATE < RATE /\ WRAP % RATE \in Nat
  BY <1>1, Division, Times
<1>3. n \div RATE <= WRAP \div RATE
  <2> DEFINE q == n \div RATE
             p == WRAP \div RATE
  <2> SUFFICES ASSUME p + 1 <= q PROVE FALSE
    BY <1>2
  <2> HIDE DEF p, q
  <2>1. (p + 1) * RATE <= q * RATE /\ (p + 1) * RATE = p * RATE + 1 * RATE
    BY <1>1, <1>2, TimesMonotone, Distributed DEF p, q
  <2>2. p * RATE \in Nat /\ q * RATE \in Nat /\ 1 * RATE = RATE
    BY <1>1, <1>2, Times DEF p, q
  <2> DEFINE x == p * RATE
             y == q * RATE
             s == WRAP % RATE
             t == n % RATE
  <2>3. x + RATE <= y /\ x \in Nat /\ y \in Nat
    BY <2>1, <2>2
  <2>4. n = y + t /\ WRAP = x + s /\ s < RATE /\ s \in Nat /\ t \in Nat
    BY <1>2 DEF p, q
  <2> HIDE DEF x, y, s, t
  <2> QED BY <1>1, <2>3, <2>4
<1> QED BY <1>1, <1>2, <1>3

LEMMA SetNext ==
    ASSUME Clock!TimeOfDayAssumption, ClockInv, Clock!SetTimeOfDay
    PROVE  ClockInv'
<1>1. PICK t \in Clock!Times :
        /\ alt_resettime' =
             Clock!Time(Clock!Signed(t.tv_sec - (_alt_nticks \div RATE)),
                        Clock!Signed(t.tv_usec - (Clock!SetProduct % ALT_US)))
        /\ set' = [time |-> t, at |-> ticks]
        /\ UNCHANGED <<_alt_nticks, ticks>>
  BY DEF Clock!SetTimeOfDay
<1>2. t.tv_sec \in Seconds \union {0} /\ t.tv_usec \in 0..(ALT_US - 1)
  BY DEF Clock!Times, Clock!Time
<1>3. ticks' \in Nat /\ set'.at \in 0..ticks' /\ _alt_nticks' = ticks' % WRAP
      /\ set'.time = t /\ set'.at = ticks
  BY <1>1 DEF ClockInv
<1> DEFINE n == ticks % WRAP
           U == Clock!UsPerTick
<1>4. n \in Nat /\ n < WRAP /\ n = _alt_nticks
  BY ClockSizes, Division DEF ClockInv
<1>5. ASSUME n * U < WRAP
      PROVE  /\ alt_resettime'.tv_sec = t.tv_sec - n \div RATE
             /\ alt_resettime'.tv_usec = t.tv_usec - ((n * U) % ALT_US)
  <2> HIDE DEF n
  <2>1. Clock!Signed(t.tv_sec - n \div RATE) = t.tv_sec - n \div RATE
    <3>1. n \div RATE \in Nat /\ t.tv_sec \in Nat /\ t.tv_sec + n \div RATE < WRAP \div 2
          /\ n \div RATE + 0 < WRAP \div 2
      BY <1>2, <1>4, CounterSeconds
    <3>2. WRAP \div 2 \in Nat
      BY ClockSizes
    <3> DEFINE q == n \div RATE
               h == WRAP \div 2
    <3>3. t.tv_sec - q \in Int /\ -h <= t.tv_sec - q /\ t.tv_sec - q < h
      <4>1. q \in Nat /\ h \in Nat /\ t.tv_sec \in Nat /\ t.tv_sec + q < h
        BY <3>1, <3>2
      <4> HIDE DEF q, h
      <4> QED BY <4>1
    <3> HIDE DEF q
    <3>4. Clock!Signed(t.tv_sec - q) = t.tv_sec - q
      BY <3>3, SignedFits
    <3> QED BY <3>4 DEF q
  <2>2. Clock!SetProduct = n * U
    <3>1. n * U \in Nat
      BY <1>4, ClockSizes, Times
    <3> DEFINE p == n * U
    <3>2. p \in 0..(WRAP - 1)
      BY <1>5, <3>1, ClockSizes
    <3>3. p % WRAP = p
      <4> HIDE DEF p
      <4> QED BY <3>2, ClockSizes
    <3> QED BY <3>3, <1>4 DEF Clock!SetProduct, Clock!Word
  <2>3. Clock!Signed(t.tv_usec - ((n * U) % ALT_US)) = t.tv_usec - ((n * U) % ALT_US)
    <3> DEFINE r == (n * U) % ALT_US
               h == WRAP \div 2
    <3>1. r \in 0..(ALT_US - 1)
      BY <1>4, TickParts
    <3>2. t.tv_usec - r \in Int /\ -h <= t.tv_usec - r /\ t.tv_usec - r < h
      <4>1. h \in Nat /\ 4 * ALT_US <= WRAP /\ WRAP = 2 * h /\ ALT_US \in Nat /\ WRAP \in Nat
        BY ClockSizes
      <4> HIDE DEF r, h
      <4> QED BY <1>2, <3>1, <4>1
    <3> HIDE DEF r
    <3>3. Clock!Signed(t.tv_usec - r) = t.tv_usec - r
      BY <3>2, SignedFits
    <3> QED BY <3>3 DEF r
  <2> QED BY <1>1, <1>4, <2>1, <2>2, <2>3 DEF Clock!Time
<1>6. SetInv'
  BY <1>3, <1>5 DEF SetInv, Clock!UsPerTick
<1> QED BY <1>2, <1>3, <1>6 DEF ClockInv

LEMMA TickNext ==
    ASSUME Clock!TimeOfDayAssumption, ClockInv, Clock!ClockTick
    PROVE  ClockInv'
<1>1. /\ ticks' = ticks + 1 /\ _alt_nticks' = (_alt_nticks + 1) % WRAP
      /\ UNCHANGED <<alt_resettime, set>>
  BY DEF Clock!ClockTick, Clock!Word
<1>2. ticks' % WRAP = ((ticks % WRAP) + 1) % WRAP
  <2> DEFINE q == ticks \div WRAP
             r == ticks % WRAP
  <2>1. /\ q \in Nat /\ r \in Nat /\ r < WRAP /\ ticks = WRAP * q + r
        /\ WRAP \in Nat /\ WRAP > 0
    BY ClockSizes, Division DEF ClockInv
  <2> HIDE DEF q, r
  <2>2. WRAP * q \in Nat
    BY <2>1, Times
  <2>3. CASE r + 1 < WRAP
    <3>1. (WRAP * q + (r + 1)) % WRAP = r + 1
      BY <2>1, <2>3, Quotient
    <3>2. ticks' = WRAP * q + (r + 1)
      BY <1>1, <2>1, <2>2
    <3>3. (r + 1) % WRAP = r + 1
      BY <2>1, <2>3
    <3> QED BY <3>1, <3>2, <3>3 DEF r
  <2>4. CASE r + 1 = WRAP
    <3>1. (WRAP * (q + 1) + 0) % WRAP = 0
      BY <2>1, Quotient
    <3>2. WRAP * (q + 1) = WRAP * q + WRAP * 1 /\ WRAP * 1 = WRAP
      BY <2>1, Distributed
    <3>3. ticks' = WRAP * (q + 1) + 0
      BY <1>1, <2>1, <2>2, <2>4, <3>2
    <3>4. WRAP % WRAP = 0
      BY <2>1
    <3> QED BY <3>1, <3>3, <3>4, <2>4 DEF r
  <2> QED BY <2>1, <2>3, <2>4
<1>3. ticks' \in Nat /\ set'.at \in 0..ticks' /\ _alt_nticks' = ticks' % WRAP
  BY <1>1, <1>2 DEF ClockInv
<1>4. SetInv'
  BY <1>1 DEF ClockInv, SetInv, Clock!UsPerTick
<1> QED BY <1>1, <1>3, <1>4 DEF ClockInv

\* What gettimeofday returns, from the time that was set and the ticks then.
LEMMA TimeRead == ASSUME Clock!TimeOfDayAssumption, ClockInv PROVE Clock!ClockRight
<1> SUFFICES ASSUME ticks \div WRAP = set.at \div WRAP,
                    (set.at % WRAP) * Clock!UsPerTick < WRAP
             PROVE  LET t == Clock!GetTimeOfDay IN
                    /\ Clock!Micros(t) = Clock!Micros(set.time)
                                           + (ticks - set.at) * Clock!UsPerTick
                    /\ t.tv_usec \in 0..(ALT_US - 1)
  BY DEF Clock!ClockRight
<1> DEFINE U == Clock!UsPerTick
           n == ticks % WRAP
           m == set.at % WRAP
           s == set.time.tv_sec
           u == set.time.tv_usec
           p == n \div RATE
           q == m \div RATE
           x == (n * U) % ALT_US
           y == (m * U) % ALT_US
<1>1. /\ n \in Nat /\ m \in Nat /\ n < WRAP /\ m < WRAP
      /\ m <= n /\ ticks - set.at = n - m
  <2>1. set.at \in Nat /\ ticks \in Nat /\ set.at <= ticks /\ WRAP \in Nat /\ WRAP > 0
    BY ClockSizes DEF ClockInv
  <2>2. /\ n \in Nat /\ n < WRAP /\ ticks = WRAP * (ticks \div WRAP) + n
        /\ m \in Nat /\ m < WRAP /\ set.at = WRAP * (set.at \div WRAP) + m
        /\ ticks \div WRAP \in Nat
    BY <2>1, Division
  <2> DEFINE z == WRAP * (ticks \div WRAP)
  <2>3. z \in Nat /\ ticks = z + n /\ set.at = z + m
    BY <2>1, <2>2, Times
  <2> HIDE DEF n, m, z
  <2> QED BY <2>1, <2>2, <2>3
<1>2. s \in Nat /\ u \in 0..(ALT_US - 1) /\ s \in Seconds \union {0}
  <2>1. s \in Seconds \union {0} /\ u \in 0..(ALT_US - 1)
    BY DEF ClockInv
  <2>2. Seconds \subseteq Nat
    BY DEF Clock!TimeOfDayAssumption
  <2> HIDE DEF s, u
  <2> QED BY <2>1, <2>2
<1>3. alt_resettime.tv_sec = s - q /\ alt_resettime.tv_usec = u - y /\ _alt_nticks = n
  BY DEF ClockInv, SetInv
<1>4. /\ p \in Nat /\ s + p < WRAP \div 2 /\ q \in Nat /\ 0 + q < WRAP \div 2
      /\ n * U = p * ALT_US + x /\ x \in 0..(ALT_US - 1)
      /\ m * U = q * ALT_US + y /\ y \in 0..(ALT_US - 1)
  <2>1. p \in Nat /\ s + p < WRAP \div 2 /\ q \in Nat /\ 0 + q < WRAP \div 2
    <3> HIDE DEF n, m, s
    <3> QED BY <1>1, <1>2, CounterSeconds
  <2>2. /\ n * U = p * ALT_US + x /\ x \in 0..(ALT_US - 1)
        /\ m * U = q * ALT_US + y /\ y \in 0..(ALT_US - 1)
    <3> HIDE DEF n, m
    <3> QED BY <1>1, TickParts
  <2> QED BY <2>1, <2>2
<1>5. /\ ALT_US \in Nat /\ ALT_US > 0 /\ U \in Nat /\ WRAP \in Nat /\ WRAP \div 2 \in Nat
      /\ WRAP = 2 * (WRAP \div 2) /\ 4 * ALT_US <= WRAP
  BY ClockSizes
<1>6. Clock!GetTimeOfDay =
        Clock!Normalised(Clock!Time(Clock!Signed((s - q) + p), Clock!Signed((u - y) + x)))
  BY <1>3 DEF Clock!GetTimeOfDay, Clock!GetProduct
<1> HIDE DEF n, m, s, u, p, q, x, y, U
<1>7. Clock!Signed((s - q) + p) = (s - q) + p
  <2>1. (s - q) + p \in Int /\ -(WRAP \div 2) <= (s - q) + p /\ (s - q) + p < WRAP \div 2
    BY <1>2, <1>4, <1>5
  <2> QED BY <2>1, SignedFits
<1>8. Clock!Signed((u - y) + x) = (u - y) + x
  <2>1. (u - y) + x \in Int /\ -(WRAP \div 2) <= (u - y) + x /\ (u - y) + x < WRAP \div 2
    BY <1>2, <1>4, <1>5
  <2> QED BY <2>1, SignedFits
<1>9. /\ ((s - q) + p) * ALT_US = (s * ALT_US - q * ALT_US) + p * ALT_US
      /\ (n - m) * U = n * U - m * U
  <2>1. ((s - q) + p) * ALT_US = (s - q) * ALT_US + p * ALT_US
    BY <1>2, <1>4, <1>5, IntTimes
  <2>2. (s - q) * ALT_US = s * ALT_US - q * ALT_US
    BY <1>2, <1>4, <1>5, IntTimes
  <2>3. (n - m) * U = n * U - m * U
    BY <1>1, <1>5, IntTimes
  <2> QED BY <2>1, <2>2, <2>3
<1> DEFINE a == s * ALT_US
           b == q * ALT_US
           c == p * ALT_US
           d == ((s - q) + p) * ALT_US
           e == (n - m) * U
<1>10. a \in Nat /\ b \in Nat /\ c \in Nat /\ d = (a - b) + c /\ e = (c + x) - (b + y)
       /\ e \in Nat
  <2>1. e \in Nat
    BY <1>1, <1>5, Times
  <2> QED BY <1>2, <1>4, <1>5, <1>9, <2>1, Times
<1>11. d + ((u - y) + x) = (a + u) + e /\ d + ((u - y) + x) >= 0
  <2> HIDE DEF a, b, c, d, e
  <2> QED BY <1>2, <1>4, <1>10
<1>12. LET t == Clock!Normalised(Clock!Time((s - q) + p, (u - y) + x)) IN
       /\ Clock!Micros(t) = d + ((u - y) + x)
       /\ t.tv_usec \in 0..(ALT_US - 1)
  <2>1. (s - q) + p \in Int /\ (u - y) + x \in Int
    BY <1>2, <1>4, <1>5
  <2> QED BY <2>1, <1>11, NormalisedTime
<1>13. Clock!Micros(set.time) = a + u
  BY DEF Clock!Micros, s, u
<1>14. (ticks - set.at) * Clock!UsPerTick = e
  BY <1>1 DEF U
<1> HIDE DEF a, d, e
<1> QED BY <1>6, <1>7, <1>8, <1>11, <1>12, <1>13, <1>14

\* gettimeofday returns the time set and the time since, for every rate of
\* the tick, every width of the counter and every time that fits a signed
\* word (alt_settod.c:82-84, alt_gettod.c:91-113).
THEOREM ClocksRight == Spec => []ClockRight
<1>1. Init => ClockInv
  BY PartsAssumption, ClockInit DEF Init
<1>2. ClockInv /\ [Next]_vars => ClockInv'
  <2> SUFFICES ASSUME ClockInv, [Next]_vars PROVE ClockInv'
    OBVIOUS
  <2>1. Clock!SetTimeOfDay \/ Clock!ClockTick \/ UNCHANGED clockVars
    BY DEF Next, vars, Clock!Next
  <2>2. CASE UNCHANGED clockVars
    BY <2>2 DEF clockVars, ClockInv, SetInv, Clock!UsPerTick
  <2> QED BY <2>1, <2>2, PartsAssumption, SetNext, TickNext
<1>3. ClockInv => ClockRight
  BY PartsAssumption, TimeRead DEF ClockRight
<1> QED BY <1>1, <1>2, <1>3, PTL DEF Spec

-----------------------------------------------------------------------------
(* The emulation of multiplications and divisions, a bit at a time.        *)

\* h is half of the words.
DivideData(p, q, h, D, H, L, X, Q, V, R) ==
    /\ {p, q, h, D, H, L, X, Q, V, R} \subseteq Nat
    /\ p > 0 /\ q > 0 /\ h = p * q
    /\ D < 2 * h /\ D = H * (2 * p) + L /\ L < 2 * p
    /\ X = L * q + Q /\ Q < q
    /\ H = Q * V + R /\ R < V

LEMMA DivideArith ==
    ASSUME NEW p, NEW q, NEW h, NEW D, NEW H, NEW L, NEW X, NEW Q, NEW V, NEW R,
           DivideData(p, q, h, D, H, L, X, Q, V, R)
    PROVE  LET bit == IF X >= h THEN 1 ELSE 0
               rem == ((2 * R) % (2 * h)) + bit
               fit == IF rem >= V THEN 1 ELSE 0 IN
           \E H1, L1, Q1 \in Nat :
               /\ D = H1 * p + L1 /\ L1 < p
               /\ ((2 * X) % (2 * h)) + fit = L1 * (2 * q) + Q1 /\ Q1 < 2 * q
               /\ H1 = Q1 * V + (rem - fit * V) /\ 0 <= rem - fit * V /\ rem - fit * V < V
<1> DEFINE bit == IF L >= p THEN 1 ELSE 0
           L1 == L - bit * p
           H1 == 2 * H + bit
<1>0. /\ p \in Nat /\ q \in Nat /\ h \in Nat /\ D \in Nat /\ H \in Nat /\ L \in Nat
      /\ X \in Nat /\ Q \in Nat /\ V \in Nat /\ R \in Nat
      /\ p > 0 /\ q > 0 /\ h = p * q
      /\ D < 2 * h /\ D = H * (2 * p) + L /\ L < 2 * p
      /\ X = L * q + Q /\ Q < q
      /\ H = Q * V + R /\ R < V
  BY DEF DivideData
<1> USE <1>0
<1>1. bit \in {0, 1} /\ L1 \in Nat /\ L1 < p /\ L = bit * p + L1 /\ H1 \in Nat
  OBVIOUS
<1>2. (X >= h) <=> L >= p
  <2>1. CASE L >= p
    <3>1. p * q <= L * q
      BY <2>1, TimesMonotone
    <3>2. L * q \in Nat /\ p * q \in Nat
      BY Times
    <3> QED BY <2>1, <3>1, <3>2
  <2>2. CASE L < p
    <3>1. (L + 1) * q <= p * q
      BY <2>2, TimesMonotone
    <3>2. (L + 1) * q = L * q + 1 * q /\ L * q \in Nat /\ 1 * q = q
      BY Times, Distributed
    <3> QED BY <2>2, <3>1, <3>2
  <2> QED BY <2>1, <2>2
<1>3. X < 2 * h /\ X - bit * h \in Nat /\ X - bit * h < h
  <2>1. (L + 1) * q <= (2 * p) * q
    BY TimesMonotone
  <2>2. (L + 1) * q = L * q + 1 * q /\ L * q \in Nat /\ 1 * q = q
    BY Times, Distributed
  <2>3. (2 * p) * q = 2 * (p * q)
    BY Associated
  <2> QED BY <1>2, <2>1, <2>2, <2>3
<1>4. (2 * X) % (2 * h) = 2 * X - bit * (2 * h)
  BY <1>1, <1>3
<1>5. H < q
  <2> SUFFICES ASSUME q <= H PROVE FALSE
    OBVIOUS
  <2>1. q * (2 * p) <= H * (2 * p)
    BY TimesMonotone
  <2>2. q * (2 * p) = 2 * (p * q)
    <3>1. q * (2 * p) = (2 * p) * q
      BY Times
    <3> QED BY <3>1, Associated
  <2>3. H * (2 * p) \in Nat
    BY Times
  <2> QED BY <2>1, <2>2, <2>3
<1>6. R <= H /\ q <= h
  <2>1. Q * V \in Nat
    BY Times
  <2>2. 1 * q <= p * q
    BY TimesMonotone
  <2> QED BY <2>1, <2>2
<1>7. (2 * R) % (2 * h) = 2 * R
  BY <1>5, <1>6
<1> DEFINE rem == 2 * R + bit
           fit == IF rem >= V THEN 1 ELSE 0
           Q1 == 2 * Q + fit
<1>8. /\ rem \in Nat /\ fit \in {0, 1} /\ Q1 \in Nat /\ Q1 < 2 * q
      /\ 0 <= rem - fit * V /\ rem - fit * V < V
  BY <1>1
<1>9. D = H1 * p + L1
  <2>1. H1 * p = (2 * H) * p + bit * p
    BY <1>1, Distributed
  <2>2. H * (2 * p) = (2 * H) * p
    <3>1. H * (2 * p) = (H * 2) * p
      BY Associated
    <3> QED BY <3>1
  <2> QED BY <1>1, <2>1, <2>2
<1>10. 2 * X - bit * (2 * h) + fit = L1 * (2 * q) + Q1
  <2>1. L * q = (bit * p) * q + L1 * q /\ (bit * p) * q = bit * h
    BY <1>1, Distributed, Associated
  <2>2. L1 * (2 * q) = 2 * (L1 * q)
    <3>1. L1 * (2 * q) = (L1 * 2) * q /\ (2 * L1) * q = 2 * (L1 * q)
      BY <1>1, Associated
    <3> QED BY <1>1, <3>1
  <2>3. L1 * q \in Nat
    BY <1>1, Times
  <2> QED BY <1>1, <1>8, <2>1, <2>2, <2>3
<1>11. H1 = Q1 * V + (rem - fit * V)
  <2>1. Q1 * V = (2 * Q) * V + fit * V /\ (2 * Q) * V = 2 * (Q * V) /\ Q * V \in Nat
    BY <1>8, Times, Distributed, Associated
  <2>2. fit * V \in Nat
    BY <1>8
  <2> QED BY <1>1, <1>8, <2>1, <2>2
<1>12. bit = IF X >= h THEN 1 ELSE 0
  BY <1>2
<1> HIDE DEF bit, L1, H1, rem, fit, Q1
<1> QED BY <1>1, <1>4, <1>7, <1>8, <1>9, <1>10, <1>11, <1>12 DEF rem, fit

LEMMA WordTwice ==
    ASSUME NEW w \in Nat, w > 0, NEW n \in Nat, NEW m \in Nat
    PROVE  (2 * (n % w) + m) % w = (2 * n + m) % w
<1>1. n % w \in Nat /\ n \div w \in Nat /\ n = w * (n \div w) + (n % w)
  BY Division
<1> DEFINE q == n \div w
           r == n % w
<1>2. q \in Nat /\ r \in Nat /\ n = w * q + r
  BY <1>1
<1> HIDE DEF q, r
<1> DEFINE s == 2 * r + m
<1>3. s \in Nat /\ s % w \in Nat /\ s \div w \in Nat /\ s % w < w
      /\ s = w * (s \div w) + (s % w)
  BY <1>2, Division
<1> DEFINE a == s \div w
           b == s % w
<1>4. a \in Nat /\ b \in Nat /\ b < w /\ s = w * a + b
  BY <1>3
<1> HIDE DEF a, b
<1>5. 2 * n + m = w * (2 * q + a) + b
  <2>1. w * (2 * q + a) = w * (2 * q) + w * a /\ w * (2 * q) = 2 * (w * q)
        /\ w * q \in Nat /\ w * a \in Nat
    <3>1. w * (2 * q) = (w * 2) * q /\ (2 * w) * q = 2 * (w * q)
      BY <1>2, Associated
    <3>2. w * 2 = 2 * w
      BY Times
    <3>3. w * (2 * q + a) = w * (2 * q) + w * a
      BY <1>2, <1>4, Distributed
    <3>4. w * q \in Nat /\ w * a \in Nat
      BY <1>2, <1>4, Times
    <3> QED BY <3>1, <3>2, <3>3, <3>4
  <2> QED BY <1>2, <1>4, <2>1
<1>6. (w * (2 * q + a) + b) % w = b
  <2> DEFINE u == 2 * q + a
  <2>1. u \in Nat
    BY <1>2, <1>4
  <2> HIDE DEF u
  <2>2. (w * u + b) % w = b
    BY <1>4, <2>1, Quotient
  <2> QED BY <2>2 DEF u
<1>7. (2 * n + m) % w = b
  BY <1>5, <1>6
<1> QED BY <1>7 DEF b, r

\* The low word: the next bit of the multiplier from the top.
LowData(p, q, h, x, y, H, L, Y) ==
    /\ {p, q, h, x, y, H, L, Y} \subseteq Nat
    /\ p > 0 /\ q > 0 /\ h = p * q
    /\ y = H * (2 * p) + L /\ L < 2 * p /\ Y = L * q

LEMMA MultiplyLow ==
    ASSUME NEW p, NEW q, NEW h, NEW x, NEW y, NEW H, NEW L, NEW Y,
           LowData(p, q, h, x, y, H, L, Y)
    PROVE  \E H1, L1 \in Nat :
               /\ y = H1 * p + L1 /\ L1 < p /\ (2 * Y) % (2 * h) = L1 * (2 * q)
               /\ (2 * ((x * H) % (2 * h)) + IF Y >= h THEN x ELSE 0) % (2 * h)
                      = (x * H1) % (2 * h)
<1> DEFINE bit == IF L >= p THEN 1 ELSE 0
           L1 == L - bit * p
           H1 == 2 * H + bit
<1>0. /\ p \in Nat /\ q \in Nat /\ h \in Nat /\ x \in Nat /\ y \in Nat
      /\ H \in Nat /\ L \in Nat /\ Y \in Nat
      /\ p > 0 /\ q > 0 /\ h = p * q
      /\ y = H * (2 * p) + L /\ L < 2 * p /\ Y = L * q
  BY DEF LowData
<1> USE <1>0
<1>1. bit \in {0, 1} /\ L1 \in Nat /\ L1 < p /\ L = bit * p + L1 /\ H1 \in Nat
  OBVIOUS
<1>2. (Y >= h) <=> L >= p
  <2>1. CASE L >= p
    <3>1. p * q <= L * q
      BY <2>1, TimesMonotone
    <3> QED BY <2>1, <3>1
  <2>2. CASE L < p
    <3>1. (L + 1) * q <= p * q
      BY <2>2, TimesMonotone
    <3>2. (L + 1) * q = L * q + 1 * q /\ L * q \in Nat /\ 1 * q = q
      BY Times, Distributed
    <3> QED BY <2>2, <3>1, <3>2
  <2> QED BY <2>1, <2>2
<1>3. /\ L * q = (bit * p) * q + L1 * q /\ (bit * p) * q = bit * h
      /\ L1 * q \in Nat
  BY <1>1, Times, Distributed, Associated
<1>4. L1 * q < h
  <2>1. (L1 + 1) * q <= p * q
    BY <1>1, TimesMonotone
  <2>2. (L1 + 1) * q = L1 * q + 1 * q /\ 1 * q = q
    BY <1>1, Distributed
  <2> QED BY <1>3, <2>1, <2>2
<1>5. L1 * (2 * q) = 2 * (L1 * q)
  <2>1. L1 * (2 * q) = (L1 * 2) * q /\ (2 * L1) * q = 2 * (L1 * q)
    BY <1>1, Associated
  <2> QED BY <1>1, <2>1
<1>6. (2 * Y) % (2 * h) = L1 * (2 * q)
  <2> DEFINE z == L1 * q
  <2>1. z \in Nat /\ z < h /\ Y = bit * h + z
    BY <1>3, <1>4
  <2> HIDE DEF z, bit
  <2>2. (2 * Y) % (2 * h) = 2 * z
    BY <1>1, <2>1
  <2> QED BY <1>5, <2>2 DEF z
<1>7. y = H1 * p + L1
  <2>1. H1 * p = (2 * H) * p + bit * p
    BY <1>1, Distributed
  <2>2. H * (2 * p) = (2 * H) * p
    <3>1. H * (2 * p) = (H * 2) * p
      BY Associated
    <3> QED BY <3>1
  <2> QED BY <1>1, <2>1, <2>2
<1>8. x * H1 = 2 * (x * H) + IF Y >= h THEN x ELSE 0
  <2>1. x * H1 = x * (2 * H) + x * bit
    BY <1>1, Distributed
  <2>2. x * (2 * H) = 2 * (x * H)
    <3>1. x * (2 * H) = (x * 2) * H /\ (2 * x) * H = 2 * (x * H)
      BY Associated
    <3> QED BY <3>1
  <2>3. x * bit = IF Y >= h THEN x ELSE 0
    BY <1>2
  <2> QED BY <2>1, <2>2, <2>3
<1>9. (2 * ((x * H) % (2 * h)) + IF Y >= h THEN x ELSE 0) % (2 * h) = (x * H1) % (2 * h)
  <2>1. x * H \in Nat /\ h > 0
    BY Times
  <2> DEFINE m == IF Y >= h THEN x ELSE 0
             n == x * H
             w == 2 * h
  <2>2. m \in Nat /\ n \in Nat /\ w \in Nat /\ w > 0
    BY <2>1
  <2> HIDE DEF m, n, w
  <2>3. (2 * (n % w) + m) % w = (2 * n + m) % w
    BY ONLY <2>2, WordTwice
  <2> QED BY <1>8, <2>3 DEF m, n, w
<1> HIDE DEF bit, L1, H1
<1> QED BY <1>1, <1>6, <1>7, <1>9

\* The high word: the next bit from the bottom, and a sum that may carry.
HighData(h, q, x, a, m, L, T) ==
    /\ {h, q, x, a, m, L, T} \subseteq Nat
    /\ q > 0 /\ x < 2 * h /\ a < 2 * h /\ L < q /\ T < q
    /\ x * L = a * q + T

LEMMA MultiplyHigh ==
    ASSUME NEW h, NEW q, NEW x, NEW a, NEW m, NEW L, NEW T,
           HighData(h, q, x, a, m, L, T)
    PROVE  LET odd == m % 2 = 1
               sum == IF odd THEN (a + x) % (2 * h) ELSE a
               carry == IF odd THEN IF sum < x THEN h ELSE 0 ELSE 0
               a1 == (sum \div 2) + carry IN
           /\ a1 \in Nat /\ a1 < 2 * h
           /\ \E L1, T1 \in Nat :
                 /\ m * q + L = (m \div 2) * (2 * q) + L1 /\ L1 < 2 * q
                 /\ x * L1 = a1 * (2 * q) + T1 /\ T1 < 2 * q
<1> DEFINE b == m % 2
           s == a + b * x
           a1 == s \div 2
           t == s % 2
           m1 == m \div 2
           L1 == L + b * q
           T1 == T + t * q
<1>0. /\ h \in Nat /\ q \in Nat /\ x \in Nat /\ a \in Nat /\ m \in Nat
      /\ L \in Nat /\ T \in Nat
      /\ q > 0 /\ x < 2 * h /\ a < 2 * h /\ L < q /\ T < q
      /\ x * L = a * q + T
  BY DEF HighData
<1> USE <1>0
<1>1. b \in {0, 1} /\ m1 \in Nat /\ m = 2 * m1 + b
  OBVIOUS
<1>2. s \in Nat /\ a1 \in Nat /\ t \in {0, 1} /\ s = 2 * a1 + t /\ s < 4 * h
  <2> HIDE DEF b
  <2>1. s \in Nat /\ s < 4 * h
    BY <1>1
  <2> HIDE DEF s
  <2> QED BY <2>1
<1>3. a1 < 2 * h
  BY <1>2
<1>4. L1 \in Nat /\ L1 < 2 * q /\ T1 \in Nat /\ T1 < 2 * q
  BY <1>1, <1>2
<1>5. m * q + L = m1 * (2 * q) + L1
  <2>1. m * q = (2 * m1) * q + b * q
    BY <1>1, Distributed
  <2>2. m1 * (2 * q) = (2 * m1) * q
    <3>1. m1 * (2 * q) = (m1 * 2) * q
      BY <1>1, Associated
    <3> QED BY <1>1, <3>1
  <2> QED BY <2>1, <2>2
<1>6. x * L1 = a1 * (2 * q) + T1
  <2>1. x * L1 = x * L + x * (b * q)
    BY <1>1, Distributed
  <2>2. x * (b * q) = (b * x) * q
    BY <1>1
  <2>3. s * q = a * q + (b * x) * q
    BY <1>1, Distributed
  <2>4. s * q = (2 * a1) * q + t * q
    BY <1>2, Distributed
  <2>5. a1 * (2 * q) = (2 * a1) * q
    <3>1. a1 * (2 * q) = (a1 * 2) * q
      BY <1>2, Associated
    <3> QED BY <1>2, <3>1
  <2> QED BY <2>1, <2>2, <2>3, <2>4, <2>5
<1>7. ASSUME b = 1
      PROVE  a1 = (((a + x) % (2 * h)) \div 2) + IF (a + x) % (2 * h) < x THEN h ELSE 0
  <2>1. s = a + x
    BY <1>7
  <2>2. CASE a + x < 2 * h
    <3>1. (a + x) % (2 * h) = a + x
      BY <2>2
    <3> QED BY <2>1, <3>1
  <2>3. CASE a + x >= 2 * h
    <3>1. (a + x) % (2 * h) = a + x - 2 * h
      BY <2>3
    <3>2. (a + x) \div 2 = (a + x - 2 * h) \div 2 + h
      BY <2>3
    <3> QED BY <2>1, <3>1, <3>2
  <2> QED BY <2>2, <2>3
<1>8. ASSUME b = 0 PROVE a1 = a \div 2
  BY <1>8
<1>9. a1 = ((IF m % 2 = 1 THEN (a + x) % (2 * h) ELSE a) \div 2)
           + IF m % 2 = 1 THEN IF (a + x) % (2 * h) < x THEN h ELSE 0 ELSE 0
  BY <1>1, <1>2, <1>7, <1>8
<1> HIDE DEF a1, L1, T1, s, t
<1> QED BY <1>2, <1>3, <1>4, <1>5, <1>6, <1>9

-----------------------------------------------------------------------------
(* The instruction exceptions.                                             *)

LEMMA WordFacts ==
    ASSUME Instruction!InstExceptionAssumption
    PROVE  /\ W \in Nat /\ W > 0
           /\ Instruction!HIGH \in Nat /\ Instruction!HIGH > 0
           /\ Instruction!WORDS = 2 * Instruction!HIGH
           /\ \A n \in Int : Instruction!Word(n) \in Instruction!Words
<1>1. W \in Nat /\ W > 0 /\ W - 1 \in Nat
  BY DEF Instruction!InstExceptionAssumption
<1> DEFINE v == W - 1
<1>2. v \in Nat /\ W = v + 1
  BY <1>1
<1> HIDE DEF v
<1>3. 2^(v + 1) = 2 * 2^v /\ 2^v \in Nat /\ 2^v > 0
  BY <1>2, PowerDoubles, PowerPositive
<1>4. Instruction!HIGH = 2^v /\ Instruction!WORDS = 2^(v + 1)
  BY <1>2 DEF Instruction!HIGH, Instruction!WORDS, v
<1> DEFINE h == Instruction!HIGH
           w == Instruction!WORDS
<1>5. h \in Nat /\ h > 0 /\ w = 2 * h
  BY <1>3, <1>4
<1> HIDE DEF h, w
<1>6. \A n \in Int : n % w \in 0..(w - 1)
  <2> TAKE n \in Int
  <2>1. w \in Nat /\ w > 0
    BY <1>5
  <2> QED BY <2>1, IntDivision
<1> QED BY <1>1, <1>5, <1>6 DEF h, w, Instruction!Word, Instruction!Words

\* With k bits of the dividend D to come: what has come so far, H, is the
\* quotient so far times the divisor V and the remainder R.  The word X holds
\* the bits to come, L, and below them the quotient Q.
Dividing(k, X, R, D, V) ==
    V # 0 => \E q, H, L, Q \in Nat :
        /\ q > 0 /\ 2^k * q = Instruction!WORDS
        /\ D = H * 2^k + L /\ L < 2^k
        /\ X = L * q + Q /\ Q < q
        /\ H = Q * V + R /\ R < V

LEMMA DivideBegins ==
    ASSUME Instruction!InstExceptionAssumption, NEW D \in Instruction!Words,
           NEW V \in Instruction!Words
    PROVE  Dividing(W, D, 0, D, V)
<1> DEFINE w == Instruction!WORDS
<1>1. w \in Nat /\ w = 2^W /\ D \in Nat /\ D < w /\ V \in Nat
  BY WordFacts DEF Instruction!WORDS, Instruction!Words
<1> HIDE DEF w
<1>2. 2^W * 1 = w /\ D = 0 * 2^W + D /\ D < 2^W /\ D = D * 1 + 0 /\ 0 = 0 * V + 0
  BY <1>1
<1>3. V # 0 => 0 < V
  BY <1>1
<1>4. 1 \in Nat /\ 0 \in Nat /\ 1 > 0 /\ 0 < 1
  OBVIOUS
<1> QED BY <1>1, <1>2, <1>3, <1>4 DEF Dividing, w

LEMMA DivideStep ==
    ASSUME Instruction!InstExceptionAssumption, NEW k \in 1..W,
           NEW D \in Instruction!Words, NEW V \in Instruction!Words,
           NEW X \in Nat, NEW R \in Nat, Dividing(k, X, R, D, V)
    PROVE  LET bit == IF Instruction!Negative(X) THEN 1 ELSE 0
               rem == Instruction!Word(2 * R) + bit
               fits == rem >= V IN
           Dividing(k - 1, Instruction!Word(2 * X) + IF fits THEN 1 ELSE 0,
                    IF fits THEN rem - V ELSE rem, D, V)
<1> DEFINE h == Instruction!HIGH
           p == 2^(k - 1)
           bit == IF X >= h THEN 1 ELSE 0
           rem == ((2 * R) % (2 * h)) + bit
           fit == IF rem >= V THEN 1 ELSE 0
<1>1. /\ h \in Nat /\ h > 0 /\ Instruction!WORDS = 2 * h
      /\ D \in Nat /\ D < 2 * h /\ V \in Nat
  BY WordFacts DEF Instruction!Words
<1>2. p \in Nat /\ p > 0 /\ 2^k = 2 * p
  <2> DEFINE l == k - 1
  <2>1. l \in Nat /\ k = l + 1
    BY WordFacts
  <2> HIDE DEF l
  <2>2. 2^(l + 1) = 2 * 2^l /\ 2^l \in Nat /\ 2^l > 0
    BY <2>1, PowerDoubles, PowerPositive
  <2> QED BY <2>1, <2>2 DEF l
<1>3. ASSUME V # 0
      PROVE  Dividing(k - 1, ((2 * X) % (2 * h)) + fit, rem - fit * V, D, V)
  <2> HIDE DEF h, p
  <2>1. PICK q, H, L, Q \in Nat :
            /\ q > 0 /\ 2^k * q = Instruction!WORDS
            /\ D = H * 2^k + L /\ L < 2^k
            /\ X = L * q + Q /\ Q < q
            /\ H = Q * V + R /\ R < V
    BY <1>3 DEF Dividing
  <2>2. (2 * p) * q = 2 * h /\ D = H * (2 * p) + L /\ L < 2 * p
    BY <1>1, <1>2, <2>1
  <2>3. h = p * q
    <3>1. (2 * p) * q = 2 * (p * q) /\ p * q \in Nat
      BY <1>2, Associated, Times
    <3> QED BY <1>1, <2>2, <3>1
  <2>d. DivideData(p, q, h, D, H, L, X, Q, V, R)
    BY <1>1, <1>2, <2>1, <2>2, <2>3 DEF DivideData
  <2>4. PICK H1, L1, Q1 \in Nat :
            /\ D = H1 * p + L1 /\ L1 < p
            /\ ((2 * X) % (2 * h)) + fit = L1 * (2 * q) + Q1 /\ Q1 < 2 * q
            /\ H1 = Q1 * V + (rem - fit * V) /\ 0 <= rem - fit * V /\ rem - fit * V < V
    BY <2>d, DivideArith
  <2>5. 2 * q \in Nat /\ 2 * q > 0 /\ p * (2 * q) = Instruction!WORDS
    <3>1. p * (2 * q) = (p * 2) * q /\ p * 2 = 2 * p
      BY <1>2, Associated, Times
    <3> QED BY <1>1, <2>1, <2>2, <3>1
  <2> DEFINE X1 == ((2 * X) % (2 * h)) + fit
             R1 == rem - fit * V
             q1 == 2 * q
  <2> HIDE DEF X1, R1, q1
  <2>6. /\ q1 \in Nat /\ q1 > 0 /\ p * q1 = Instruction!WORDS
        /\ D = H1 * p + L1 /\ L1 < p /\ X1 = L1 * q1 + Q1 /\ Q1 < q1
        /\ H1 = Q1 * V + R1 /\ R1 < V
    BY <2>4, <2>5 DEF X1, R1, q1
  <2>7. Dividing(k - 1, X1, R1, D, V)
    BY <2>6 DEF Dividing, p
  <2> QED BY <2>7 DEF X1, R1
<1>4. fit * V = IF rem >= V THEN V ELSE 0
  BY <1>1
<1>5. rem - fit * V = IF rem >= V THEN rem - V ELSE rem
  BY <1>1, <1>4
<1>6. V = 0 => \A k1, X1, R1 : Dividing(k1, X1, R1, D, V)
  BY DEF Dividing
<1>7. Instruction!Word(2 * X) = (2 * X) % (2 * h) /\ Instruction!Word(2 * R) = (2 * R) % (2 * h)
      /\ (Instruction!Negative(X) <=> X >= h)
  BY <1>1 DEF Instruction!Word, Instruction!Negative
<1> HIDE DEF h
<1>8. (IF Instruction!Negative(X) THEN 1 ELSE 0) = bit
  BY <1>7
<1> HIDE DEF bit
<1>9. Instruction!Word(2 * R) + bit = rem
  BY <1>7
<1> HIDE DEF rem
<1> QED BY <1>3, <1>5, <1>6, <1>7, <1>8, <1>9

LEMMA DivideEnds ==
    ASSUME NEW D \in Nat, NEW V \in Nat, V # 0, NEW X, NEW R \in Nat,
           Dividing(0, X, R, D, V)
    PROVE  X = D \div V
<1>1. PICK q, H, L, Q \in Nat :
            /\ D = H * 1 + L /\ L < 1 /\ X = L * q + Q /\ H = Q * V + R /\ R < V
  BY PowerOfNone DEF Dividing
<1>2. L = 0 /\ X = Q /\ D = Q * V + R
  BY <1>1
<1>3. (V * Q + R) \div V = Q /\ V * Q = Q * V
  BY <1>1, Quotient, Times
<1> QED BY <1>2, <1>3

\* With k bits of the multiplier y to come from either side: lo is the low word
\* of x times the bits that came from the top, and up holds the rest at its top;
\* hi is x times the bits that came from the bottom, less as many bits, and
\* down holds the rest.
Multiplying(k, x, y, lo, hi, up, down) ==
    /\ lo \in Nat /\ up \in Nat /\ down \in Nat /\ hi \in Instruction!Words
    /\ \E q, H, L \in Nat :
          /\ q > 0 /\ 2^k * q = Instruction!WORDS
          /\ y = H * 2^k + L /\ L < 2^k
          /\ up = L * q /\ lo = Instruction!Word(x * H)
    /\ \E q, L, T \in Nat :
          /\ q > 0 /\ 2^k * q = Instruction!WORDS
          /\ y = down * q + L /\ L < q
          /\ x * L = hi * q + T /\ T < q

LEMMA MultiplyBegins ==
    ASSUME Instruction!InstExceptionAssumption, NEW x \in Instruction!Words,
           NEW y \in Instruction!Words
    PROVE  Multiplying(W, x, y, 0, 0, y, y)
<1> DEFINE w == Instruction!WORDS
<1>1. w \in Nat /\ w > 0 /\ w = 2^W /\ x \in Nat /\ y \in Nat /\ y < w
      /\ 0 \in Instruction!Words
  BY WordFacts DEF Instruction!WORDS, Instruction!Words
<1> HIDE DEF w
<1>2. Instruction!Word(x * 0) = 0
  <2>1. x * 0 = 0
    BY <1>1
  <2>2. 0 % w = 0
    BY <1>1
  <2> QED BY <2>1, <2>2 DEF Instruction!Word, w
<1>3. 2^W * 1 = w /\ y = 0 * 2^W + y /\ y < 2^W /\ y = y * 1
  BY <1>1
<1>4. \E q, H, L \in Nat :
          /\ q > 0 /\ 2^W * q = w /\ y = H * 2^W + L /\ L < 2^W
          /\ y = L * q /\ 0 = Instruction!Word(x * H)
  BY <1>1, <1>2, <1>3
<1>5. y = y * 1 + 0 /\ x * 0 = 0 * 1 + 0
  BY <1>1
<1>6. \E q, L, T \in Nat :
          /\ q > 0 /\ 2^W * q = w /\ y = y * q + L /\ L < q /\ x * L = 0 * q + T /\ T < q
  BY <1>3, <1>5
<1> QED BY <1>1, <1>4, <1>6 DEF Multiplying, w

LEMMA MultiplyStep ==
    ASSUME Instruction!InstExceptionAssumption, NEW k \in 1..W,
           NEW x \in Instruction!Words, NEW y \in Instruction!Words,
           NEW lo, NEW hi, NEW up, NEW down, Multiplying(k, x, y, lo, hi, up, down)
    PROVE  LET odd == down % 2 = 1
               sum == IF odd THEN Instruction!Word(hi + x) ELSE hi IN
           Multiplying(k - 1, x, y,
               Instruction!Word(2 * lo + IF Instruction!Negative(up) THEN x ELSE 0),
               (sum \div 2) + IF odd THEN Instruction!Carry(sum, x) ELSE 0,
               Instruction!Word(2 * up), down \div 2)
<1> DEFINE h == Instruction!HIGH
           p == 2^(k - 1)
           odd == down % 2 = 1
           sum == IF odd THEN Instruction!Word(hi + x) ELSE hi
           lo1 == Instruction!Word(2 * lo + IF Instruction!Negative(up) THEN x ELSE 0)
           hi1 == (sum \div 2) + IF odd THEN Instruction!Carry(sum, x) ELSE 0
           up1 == Instruction!Word(2 * up)
<1>1. /\ h \in Nat /\ h > 0 /\ Instruction!WORDS = 2 * h
      /\ x \in Nat /\ x < 2 * h /\ y \in Nat /\ y < 2 * h
      /\ lo \in Nat /\ up \in Nat /\ down \in Nat /\ hi \in Nat /\ hi < 2 * h
  BY WordFacts DEF Instruction!Words, Multiplying
<1>2. p \in Nat /\ p > 0 /\ 2^k = 2 * p
  <2> DEFINE l == k - 1
  <2>1. l \in Nat /\ k = l + 1
    BY WordFacts
  <2> HIDE DEF l
  <2>2. 2^(l + 1) = 2 * 2^l /\ 2^l \in Nat /\ 2^l > 0
    BY <2>1, PowerDoubles, PowerPositive
  <2> QED BY <2>1, <2>2 DEF l
<1>3. \A n \in Int : Instruction!Word(n) = n % (2 * h)
  BY <1>1 DEF Instruction!Word
<1>4. Instruction!Negative(up) <=> up >= h
  BY DEF Instruction!Negative
<1>5. \A s : Instruction!Carry(s, x) = IF s < x THEN h ELSE 0
  BY DEF Instruction!Carry
<1>w. ASSUME NEW q \in Nat, q > 0, 2^k * q = Instruction!WORDS
      PROVE  h = p * q /\ 2 * q \in Nat /\ 2 * q > 0 /\ p * (2 * q) = Instruction!WORDS
  <2> HIDE DEF h, p
  <2>1. (2 * p) * q = 2 * (p * q) /\ p * q \in Nat
    BY <1>2, <1>w, Associated, Times
  <2>2. p * (2 * q) = (p * 2) * q /\ p * 2 = 2 * p
    BY <1>2, <1>w, Associated, Times
  <2> QED BY <1>1, <1>2, <1>w, <2>1, <2>2
<1>6. \E q, H, L \in Nat :
          /\ q > 0 /\ p * q = Instruction!WORDS
          /\ y = H * p + L /\ L < p
          /\ up1 = L * q /\ lo1 = Instruction!Word(x * H)
  <2>1. PICK q, H, L \in Nat :
            /\ q > 0 /\ 2^k * q = Instruction!WORDS
            /\ y = H * 2^k + L /\ L < 2^k
            /\ up = L * q /\ lo = Instruction!Word(x * H)
    BY DEF Multiplying
  <2>2. h = p * q /\ 2 * q \in Nat /\ 2 * q > 0 /\ p * (2 * q) = Instruction!WORDS
    BY <1>w, <2>1
  <2> HIDE DEF h, p
  <2>3. LowData(p, q, h, x, y, H, L, up)
    BY <1>1, <1>2, <2>1, <2>2 DEF LowData
  <2>4. PICK H1, L1 \in Nat :
            /\ y = H1 * p + L1 /\ L1 < p /\ (2 * up) % (2 * h) = L1 * (2 * q)
            /\ (2 * ((x * H) % (2 * h)) + IF up >= h THEN x ELSE 0) % (2 * h)
                      = (x * H1) % (2 * h)
    BY <2>3, MultiplyLow
  <2>5. x * H \in Nat /\ x * H1 \in Nat
    BY <1>1, <2>1, <2>4, Times
  <2>6. lo = (x * H) % (2 * h)
    BY <1>3, <2>1, <2>5
  <2>7. up1 = L1 * (2 * q)
    BY <1>1, <1>3, <2>4
  <2>8. lo1 = (x * H1) % (2 * h)
    <3> DEFINE n == 2 * lo + IF up >= h THEN x ELSE 0
    <3>1. n \in Int /\ lo1 = Instruction!Word(n)
      BY <1>1, <1>4
    <3>2. n % (2 * h) = (x * H1) % (2 * h)
      BY <2>4, <2>6
    <3> HIDE DEF n, lo1
    <3> QED BY <1>3, <3>1, <3>2
  <2>9. lo1 = Instruction!Word(x * H1)
    <3> HIDE DEF lo1
    <3> QED BY <1>3, <2>5, <2>8
  <2> HIDE DEF lo1, up1
  <2> QED BY <2>2, <2>4, <2>7, <2>9
<1>7. /\ hi1 \in Instruction!Words
      /\ \E q, L, T \in Nat :
          /\ q > 0 /\ p * q = Instruction!WORDS
          /\ y = (down \div 2) * q + L /\ L < q
          /\ x * L = hi1 * q + T /\ T < q
  <2>1. PICK q, L, T \in Nat :
            /\ q > 0 /\ 2^k * q = Instruction!WORDS
            /\ y = down * q + L /\ L < q
            /\ x * L = hi * q + T /\ T < q
    BY DEF Multiplying
  <2>2. 2 * q \in Nat /\ 2 * q > 0 /\ p * (2 * q) = Instruction!WORDS
    BY <1>w, <2>1
  <2> HIDE DEF h, p
  <2>3. HighData(h, q, x, hi, down, L, T)
    BY <1>1, <2>1 DEF HighData
  <2>4. /\ hi1 \in Nat /\ hi1 < 2 * h
        /\ \E L1, T1 \in Nat :
              /\ down * q + L = (down \div 2) * (2 * q) + L1 /\ L1 < 2 * q
              /\ x * L1 = hi1 * (2 * q) + T1 /\ T1 < 2 * q
    <3>1. sum = IF odd THEN (hi + x) % (2 * h) ELSE hi
      BY <1>1, <1>3
    <3> HIDE DEF sum
    <3>2. hi1 = (sum \div 2) + IF odd THEN IF sum < x THEN h ELSE 0 ELSE 0
      BY <1>5
    <3> HIDE DEF hi1
    <3> QED BY <2>3, <3>1, <3>2, MultiplyHigh
  <2>5. hi1 \in Instruction!Words
    <3> HIDE DEF hi1
    <3> QED BY <1>1, <2>4 DEF Instruction!Words
  <2> HIDE DEF hi1
  <2>6. PICK L1, T1 \in Nat :
              /\ down * q + L = (down \div 2) * (2 * q) + L1 /\ L1 < 2 * q
              /\ x * L1 = hi1 * (2 * q) + T1 /\ T1 < 2 * q
    BY <2>4
  <2> DEFINE q1 == 2 * q
  <2>7. /\ q1 \in Nat /\ q1 > 0 /\ p * q1 = Instruction!WORDS
        /\ y = (down \div 2) * q1 + L1 /\ L1 < q1 /\ x * L1 = hi1 * q1 + T1 /\ T1 < q1
    BY <2>1, <2>2, <2>6
  <2> HIDE DEF q1
  <2> QED BY <2>5, <2>7
<1>8. lo1 \in Nat /\ up1 \in Nat /\ down \div 2 \in Nat
  <2>1. 2 * lo + (IF Instruction!Negative(up) THEN x ELSE 0) \in Int /\ 2 * up \in Int
    BY <1>1
  <2>2. lo1 \in Instruction!Words /\ up1 \in Instruction!Words
    BY <2>1, WordFacts
  <2>3. Instruction!Words \subseteq Nat
    BY DEF Instruction!Words
  <2> HIDE DEF lo1, up1
  <2> QED BY <1>1, <2>2, <2>3
<1> HIDE DEF lo1, hi1, up1
<1>9. Multiplying(k - 1, x, y, lo1, hi1, up1, down \div 2)
  BY <1>6, <1>7, <1>8 DEF Multiplying, p
<1> QED BY <1>9 DEF lo1, hi1, up1

LEMMA MultiplyEnds ==
    ASSUME Instruction!InstExceptionAssumption,
           NEW x \in Instruction!Words, NEW y \in Instruction!Words,
           NEW lo, NEW hi, NEW up, NEW down, Multiplying(0, x, y, lo, hi, up, down)
    PROVE  lo = Instruction!Word(x * y) /\ hi = (x * y) \div Instruction!WORDS
<1> DEFINE w == Instruction!WORDS
<1>1. w \in Nat /\ w > 0 /\ x \in Nat /\ y \in Nat /\ y < w /\ hi \in Nat /\ down \in Nat
  BY WordFacts DEF Multiplying, Instruction!Words
<1> HIDE DEF w
<1>2. PICK H, L \in Nat : y = H * 1 + L /\ L < 1 /\ lo = Instruction!Word(x * H)
  BY PowerOfNone DEF Multiplying
<1>3. H = y
  BY <1>1, <1>2
<1>4. PICK q, L2, T \in Nat : /\ 1 * q = w /\ y = down * q + L2 /\ L2 < q
                              /\ x * L2 = hi * q + T /\ T < q
  BY PowerOfNone DEF Multiplying, w
<1>5. q = w
  BY <1>4
<1>6. down = 0
  <2> SUFFICES ASSUME down >= 1 PROVE FALSE
    BY <1>1
  <2>1. 1 * q <= down * q
    BY <1>1, <1>4, TimesMonotone
  <2> QED BY <1>1, <1>4, <1>5, <2>1
<1>7. x * y = w * hi + T
  <2>1. down * q = 0
    BY <1>4, <1>6
  <2>2. L2 = y
    BY <1>1, <1>4, <2>1
  <2>3. hi * w = w * hi
    BY <1>1, Times
  <2> QED BY <1>4, <1>5, <2>2, <2>3
<1>8. (w * hi + T) \div w = hi
  BY <1>1, <1>4, <1>5, Quotient
<1> QED BY <1>2, <1>3, <1>7, <1>8 DEF w

LEMMA WordOfWord ==
    ASSUME Instruction!InstExceptionAssumption, NEW n \in Int, NEW m \in Int
    PROVE  Instruction!Word(n + m * Instruction!WORDS) = Instruction!Word(n)
<1> DEFINE w == Instruction!WORDS
           q == n \div w
           r == n % w
<1>1. w \in Nat /\ w > 0
  BY WordFacts
<1> HIDE DEF w
<1>2. q \in Int /\ r \in Nat /\ r < w /\ n = q * w + r
  BY <1>1, IntDivision
<1> HIDE DEF q, r
<1>3. n + m * w = (q + m) * w + r
  <2>1. (q + m) * w = q * w + m * w /\ q * w \in Int /\ m * w \in Int
    BY <1>1, <1>2, IntTimes
  <2> QED BY <1>2, <2>1
<1>4. ((q + m) * w + r) % w = r
  <2> DEFINE s == q + m
  <2>1. s \in Int
    BY <1>2
  <2> HIDE DEF s
  <2>2. (s * w + r) % w = r
    BY <1>1, <1>2, <2>1, IntQuotient
  <2> QED BY <2>2 DEF s
<1>5. (n + m * w) % w = n % w
  BY <1>3, <1>4 DEF r
<1> QED BY <1>5 DEF Instruction!Word, w

LEMMA WordKept ==
    ASSUME Instruction!InstExceptionAssumption, NEW n \in Instruction!Words
    PROVE  Instruction!Word(n) = n
<1> DEFINE w == Instruction!WORDS
<1>1. w \in Nat /\ w > 0 /\ n \in Nat /\ n < w
  BY WordFacts DEF Instruction!Words
<1> HIDE DEF w
<1>2. n % w = n
  BY <1>1
<1> QED BY <1>2 DEF Instruction!Word, w

\* Words taken off a product come off its high word.
LEMMA HighWord ==
    ASSUME Instruction!InstExceptionAssumption, NEW n \in Int, NEW m \in Int
    PROVE  (n - m * Instruction!WORDS) \div Instruction!WORDS =
               (n \div Instruction!WORDS) - m
<1> DEFINE w == Instruction!WORDS
           q == n \div w
           r == n % w
<1>1. w \in Nat /\ w > 0
  BY WordFacts
<1> HIDE DEF w
<1>2. q \in Int /\ r \in Nat /\ r < w /\ n = q * w + r
  BY <1>1, IntDivision
<1> HIDE DEF q, r
<1> DEFINE s == q - m
<1>3. s \in Int /\ n - m * w = s * w + r
  <2>1. (q - m) * w = q * w - m * w /\ q * w \in Int /\ m * w \in Int
    BY <1>1, <1>2, IntTimes
  <2> QED BY <1>2, <2>1
<1> HIDE DEF s
<1>4. (s * w + r) \div w = s
  BY <1>1, <1>2, <1>3
<1>5. (n - m * w) \div w = s
  BY <1>3, <1>4
<1> QED BY <1>5 DEF s, q, w

Magnitude(signed, n) ==
    IF signed /\ Instruction!Negative(n) THEN Instruction!Word(-n) ELSE n

LEMMA MagnitudeIs ==
    ASSUME Instruction!InstExceptionAssumption, NEW n \in Instruction!Words,
           NEW signed \in BOOLEAN
    PROVE  /\ Magnitude(signed, n) \in Instruction!Words
           /\ Magnitude(signed, n) =
                  IF signed THEN Instruction!Abs(Instruction!Signed(n)) ELSE n
           /\ n # 0 => Magnitude(signed, n) # 0
           /\ Instruction!Signed(n) \in Int
           /\ Instruction!Signed(n) < 0 <=> Instruction!Negative(n)
<1> DEFINE h == Instruction!HIGH
           w == Instruction!WORDS
<1>1. h \in Nat /\ h > 0 /\ w = 2 * h /\ n \in Nat /\ n < w
  BY WordFacts DEF Instruction!Words
<1>2. Instruction!Negative(n) <=> n >= h
  BY DEF Instruction!Negative
<1>3. Instruction!Signed(n) = IF n >= h THEN n - w ELSE n
  BY <1>2 DEF Instruction!Signed
<1> HIDE DEF h, w
<1>4. n > 0 => (-n) % w = w - n
  BY <1>1
<1>5. Instruction!Word(-n) = (-n) % w
  BY DEF Instruction!Word, w
<1>6. Magnitude(signed, n) = IF signed /\ n >= h THEN w - n ELSE n
  BY <1>1, <1>2, <1>4, <1>5 DEF Magnitude
<1>7. Instruction!Abs(Instruction!Signed(n)) = IF n >= h THEN w - n ELSE n
  BY <1>1, <1>3 DEF Instruction!Abs
<1>8. Magnitude(signed, n) \in 0..(w - 1)
  BY <1>1, <1>6
<1>9. n # 0 => Magnitude(signed, n) # 0
  BY <1>1, <1>6
<1>10. Instruction!Signed(n) \in Int /\ (Instruction!Signed(n) < 0 <=> n >= h)
  BY <1>1, <1>3
<1> QED BY <1>2, <1>6, <1>7, <1>8, <1>9, <1>10 DEF Instruction!Words, w

LEMMA QuotientIs ==
    ASSUME Instruction!InstExceptionAssumption, NEW op \in Instruction!Divisions,
           NEW x \in Instruction!Words, NEW y \in Instruction!Words, NEW Q,
           y # 0 => Q = Magnitude(op = "div", x) \div Magnitude(op = "div", y),
           NEW negative, negative <=> /\ op = "div"
                                      /\ Instruction!Negative(x) # Instruction!Negative(y)
    PROVE  Instruction!Computes(op, x, y, Instruction!Word(IF negative THEN -Q ELSE Q))
<1> SUFFICES ASSUME y # 0
             PROVE  Instruction!Computes(op, x, y,
                        Instruction!Word(IF negative THEN -Q ELSE Q))
  BY DEF Instruction!Computes, Instruction!Divisions
<1>1. CASE op = "div"
  <2>1. Q = Instruction!Abs(Instruction!Signed(x)) \div Instruction!Abs(Instruction!Signed(y))
    BY <1>1, MagnitudeIs
  <2>2. (IF negative THEN -Q ELSE Q) =
            Instruction!Quotient(Instruction!Signed(x), Instruction!Signed(y))
    <3> DEFINE sx == Instruction!Signed(x)
               sy == Instruction!Signed(y)
    <3>1. /\ (sx < 0 <=> Instruction!Negative(x)) /\ (sy < 0 <=> Instruction!Negative(y))
          /\ sx \in Int /\ sy \in Int
      BY MagnitudeIs
    <3> HIDE DEF sx, sy
    <3>2. Instruction!Quotient(sx, sy) =
              IF (sx < 0) = (sy < 0) THEN Instruction!Abs(sx) \div Instruction!Abs(sy)
              ELSE -(Instruction!Abs(sx) \div Instruction!Abs(sy))
      BY DEF Instruction!Quotient
    <3>3. negative <=> ((sx < 0) # (sy < 0))
      BY <1>1, <3>1 DEF Instruction!Negative
    <3>4. Instruction!Quotient(sx, sy) = IF negative THEN -Q ELSE Q
      BY <2>1, <3>2, <3>3 DEF sx, sy
    <3> QED BY <3>4 DEF sx, sy
  <2> QED BY <1>1, <2>2 DEF Instruction!Computes
<1>2. CASE op = "divu"
  <2>1. Q = x \div y /\ ~negative
    BY <1>2 DEF Magnitude
  <2>2. Q \in Instruction!Words
    <3> DEFINE w == Instruction!WORDS
    <3>1. w \in Nat /\ x \in Nat /\ x < w /\ y \in Nat /\ y > 0
      BY WordFacts DEF Instruction!Words
    <3>2. x \div y \in Nat /\ x % y \in Nat /\ x = y * (x \div y) + (x % y)
      BY <3>1, Division
    <3> DEFINE q == x \div y
               r == x % y
    <3>3. q \in Nat /\ r \in Nat /\ x = y * q + r
      BY <3>2
    <3> HIDE DEF q, r, w
    <3>4. 1 * q <= y * q /\ 1 * q = q /\ y * q \in Nat
      BY <3>1, <3>3, TimesMonotone, Times
    <3>5. q \in 0..(w - 1)
      BY <3>1, <3>3, <3>4
    <3> QED BY <2>1, <3>5 DEF q, w, Instruction!Words
  <2>3. Instruction!Word(Q) = Q
    BY <2>2, WordKept
  <2> QED BY <1>2, <2>1, <2>3 DEF Instruction!Computes
<1> QED BY <1>1, <1>2 DEF Instruction!Divisions

LEMMA ProductIs ==
    ASSUME Instruction!InstExceptionAssumption, NEW op,
           op \in Instruction!Multiplications \union {"muli"},
           NEW x \in Instruction!Words, NEW y \in Instruction!Words, NEW lo, NEW hi,
           lo = Instruction!Word(x * y), hi = (x * y) \div Instruction!WORDS
    PROVE  LET mulxsu == hi - IF Instruction!Negative(x) THEN y ELSE 0 IN
           Instruction!Computes(op, x, y, Instruction!Word(
               CASE op \in {"mul", "muli"} -> lo
                 [] op = "mulxuu" -> hi
                 [] op = "mulxsu" -> mulxsu
                 [] op = "mulxss" -> mulxsu - IF Instruction!Negative(y) THEN x ELSE 0))
<1> DEFINE w == Instruction!WORDS
           sx == Instruction!Signed(x)
           sy == Instruction!Signed(y)
           mulxsu == hi - IF Instruction!Negative(x) THEN y ELSE 0
           mulxss == mulxsu - IF Instruction!Negative(y) THEN x ELSE 0
<1>1. w \in Nat /\ w > 0 /\ x \in Nat /\ x < w /\ y \in Nat /\ y < w
  BY WordFacts DEF Instruction!Words
<1>2. /\ sx = (IF Instruction!Negative(x) THEN x - w ELSE x) /\ sx \in Int
      /\ sy = (IF Instruction!Negative(y) THEN y - w ELSE y) /\ sy \in Int
  BY <1>1 DEF Instruction!Signed
<1> HIDE DEF w, sx, sy
<1>3. x * y \in Nat /\ hi \in Int
  <2>1. x * y \in Nat
    BY <1>1, Times
  <2>2. hi = (x * y) \div w
    BY DEF w
  <2> DEFINE n == x * y
  <2> HIDE DEF n
  <2>3. n \in Nat /\ n \div w \in Nat
    BY <1>1, <2>1, Division DEF n
  <2> QED BY <2>1, <2>2, <2>3 DEF n
<1>4. CASE op \in {"mul", "muli"}
  <2>1. lo \in Instruction!Words
    BY <1>3, WordFacts
  <2>2. Instruction!Word(lo) = lo
    BY <2>1, WordKept
  <2> QED BY <1>4, <2>2 DEF Instruction!Computes
<1>5. CASE op = "mulxuu"
  <2>1. hi \in Instruction!Words
    <3>1. x * y = w * hi + ((x * y) % w) /\ (x * y) % w \in Nat /\ hi \in Nat
      BY <1>1, <1>3, Division DEF w
    <3>2. x * y <= w * y /\ x * y \in Nat
      BY <1>1, <1>3, TimesMonotone
    <3>3. hi <= y
      <4> SUFFICES ASSUME y + 1 <= hi PROVE FALSE
        BY <1>1, <3>1
      <4> DEFINE s == y + 1
      <4>0. s \in Nat /\ s <= hi
        BY <1>1
      <4>1. s * w <= hi * w
        <5> HIDE DEF s
        <5> QED BY <1>1, <3>1, <4>0, TimesMonotone
      <4>2. s * w = y * w + 1 * w /\ y * w = w * y /\ hi * w = w * hi /\ 1 * w = w
        BY <1>1, <3>1, Times, Distributed
      <4>3. w * y \in Nat /\ w * hi \in Nat
        BY <1>1, <3>1, Times
      <4> HIDE DEF s
      <4> QED BY <1>1, <3>1, <3>2, <4>1, <4>2, <4>3
    <3> QED BY <1>1, <3>1, <3>3 DEF Instruction!Words, w
  <2>2. Instruction!Word(hi) = hi
    BY <2>1, WordKept
  <2> QED BY <1>5, <2>2 DEF Instruction!Computes
<1>6. (sx * y) \div w = mulxsu
  <2>1. CASE Instruction!Negative(x)
    <3>1. sx * y = x * y - y * w
      <4>1. (x - w) * y = x * y - w * y /\ w * y = y * w
        BY <1>1, IntTimes, Times
      <4> QED BY <1>2, <2>1, <4>1
    <3>2. (x * y - y * w) \div w = hi - y
      <4> DEFINE n == x * y
      <4>1. n \in Int /\ y \in Int
        BY <1>1, <1>3
      <4> HIDE DEF n
      <4>2. (n - y * w) \div w = (n \div w) - y
        BY <4>1, HighWord DEF w
      <4> QED BY <4>2 DEF n, w
    <3> QED BY <2>1, <3>1, <3>2
  <2>2. CASE ~Instruction!Negative(x)
    BY <1>2, <1>3, <2>2 DEF w
  <2> QED BY <2>1, <2>2
<1>7. CASE op = "mulxsu"
  BY <1>6, <1>7 DEF Instruction!Computes, sx, w
<1>8. Instruction!Word((sx * sy) \div w) = Instruction!Word(mulxss)
  <2>0. mulxsu \in Int
    BY <1>1, <1>3
  <2>1. CASE Instruction!Negative(y)
    <3>1. sx * sy = sx * y - sx * w
      <4>1. (y - w) * sx = y * sx - w * sx
        BY <1>1, <1>2, IntTimes
      <4>2. (y - w) * sx = sx * (y - w) /\ y * sx = sx * y /\ w * sx = sx * w
        BY <1>1, <1>2
      <4> QED BY <1>2, <2>1, <4>1, <4>2
    <3>2. (sx * y - sx * w) \div w = mulxsu - sx
      <4> DEFINE n == sx * y
      <4>1. n \in Int
        BY <1>1, <1>2
      <4> HIDE DEF n
      <4>2. (n - sx * w) \div w = (n \div w) - sx
        BY <1>2, <4>1, HighWord DEF w
      <4>3. n \div w = mulxsu
        BY <1>6 DEF n
      <4> HIDE DEF mulxsu
      <4> QED BY <4>2, <4>3 DEF n
    <3> HIDE DEF mulxsu
    <3>3. mulxsu - sx = mulxsu - x + (IF Instruction!Negative(x) THEN 1 ELSE 0) * w
      BY <1>1, <1>2, <2>0
    <3>4. Instruction!Word(mulxsu - x + (IF Instruction!Negative(x) THEN 1 ELSE 0) * w)
              = Instruction!Word(mulxsu - x)
      <4> DEFINE n == mulxsu - x
                 m == IF Instruction!Negative(x) THEN 1 ELSE 0
      <4>1. n \in Int /\ m \in Int
        BY <1>1, <2>0
      <4> HIDE DEF n, m
      <4>2. Instruction!Word(n + m * w) = Instruction!Word(n)
        BY <4>1, WordOfWord DEF w
      <4> QED BY <4>2 DEF n, m
    <3> QED BY <2>1, <3>1, <3>2, <3>3, <3>4
  <2>2. CASE ~Instruction!Negative(y)
    <3>1. sy = y
      BY <1>2, <2>2
    <3>2. mulxss = mulxsu
      BY <2>0, <2>2
    <3> HIDE DEF mulxsu, mulxss
    <3> QED BY <1>6, <3>1, <3>2
  <2> QED BY <2>1, <2>2
<1>9. CASE op = "mulxss"
  BY <1>8, <1>9 DEF Instruction!Computes, sx, sy, w
<1> QED BY <1>4, <1>5, <1>7, <1>9 DEF Instruction!Multiplications

\* The operands of an emulated instruction.
LeftOperand == before[insn.a]
RightOperand == IF insn.op = "muli" THEN insn.imm ELSE before[insn.b]

\* What the emulation has come to, with r14 bits to go.
Computing ==
    /\ insn.op \in Instruction!Divisions =>
          LET D == Magnitude(insn.op = "div", LeftOperand)
              V == Magnitude(insn.op = "div", RightOperand) IN
          /\ registers.r6 = V
          /\ Dividing(registers.r14, registers.r3, registers.r13, D, V)
          /\ Instruction!Negative(registers.r17) <=>
                /\ insn.op = "div"
                /\ Instruction!Negative(LeftOperand) # Instruction!Negative(RightOperand)
    /\ insn.op \notin Instruction!Divisions =>
          /\ registers.r3 = LeftOperand /\ registers.r11 = RightOperand
          /\ Multiplying(registers.r14, LeftOperand, RightOperand, registers.r9,
                         registers.r10, registers.r6, registers.r12)

EmulationInv ==
    /\ insn \in Instruction!Instructions /\ Instruction!Emulated(insn)
    /\ cause = "emulated" /\ back = "after"
    /\ registers.sp = Instruction!Word(Instruction!Word(before.sp - 19) - 15)
    /\ registers.zero = before.zero /\ registers.gp = before.gp
    /\ \A r \in Instruction!Registers \ {"sp"} : frame[r] = before[r]
    /\ registers.r14 \in 0..W
    /\ registers.r14 = 0 <=> except_pc = "result"
    /\ except_pc = "divide" => insn.op \in Instruction!Divisions
    /\ except_pc = "multiply" => insn.op \notin Instruction!Divisions
    /\ Computing

\* On the way to the emulation and to the rest, only the stack pointer moved.
EntryInv ==
    /\ insn \in Instruction!Instructions
    /\ back = IF except_pc = "soft" THEN "after" ELSE "insn"
    /\ registers.sp = Instruction!Word(before.sp - 19)
    /\ \A r \in Instruction!Registers \ {"sp"} : registers[r] = before[r]
    /\ \A r \in Instruction!Scratch : frame[r] = before[r]

\* What Transparent asks of the program's registers, rs.
Leaves(rs) ==
    LET target == IF cause = "emulated" /\ Instruction!Destination(insn) # "zero"
                  THEN {Instruction!Destination(insn)} ELSE {}
    IN /\ \A r \in Instruction!Registers \ target : rs[r] = before[r]
       /\ \A r \in target : Instruction!Computes(insn.op, LeftOperand, RightOperand, rs[r])
       /\ cause = "irq" => back = "insn"
       /\ (cause = "emulated" \/ (insn.op = "trap" /\ cause # "irq")) => back = "after"
       /\ cause = "handler" => back = alt_instruction_exception_handler

\* The registers that the way out will restore.
Restored == [r \in Instruction!Registers |->
    CASE r \in Instruction!Scratch -> frame[r]
      [] r = "sp" -> Instruction!Word(registers.sp + 19)
      [] OTHER -> registers[r]]

ExceptionInv ==
    /\ registers \in [Instruction!Registers -> Nat]
    /\ frame \in [Instruction!Registers -> Nat]
    /\ before \in [Instruction!Registers -> Instruction!Words] /\ before.zero = 0
    /\ alt_instruction_exception_handler \in {"none", "insn", "after"}
    /\ except_pc \in {"program", "irqtest", "soft", "divide", "multiply", "result",
                      "exit", "resumed"}
    /\ except_pc \in {"irqtest", "soft"} => EntryInv
    /\ except_pc \in {"divide", "multiply", "result"} => EmulationInv
    /\ except_pc = "exit" => Leaves(Restored)
    /\ except_pc = "resumed" => Leaves(registers)

ExceptionAssumed == Instruction!InstExceptionAssumption

LEMMA RegistersAre ==
    /\ Instruction!Scratch \subseteq Instruction!Registers
    /\ Instruction!CalleeSaved \subseteq Instruction!Registers
    /\ "sp" \notin Instruction!Scratch /\ "sp" \notin Instruction!CalleeSaved
    /\ "gp" \notin Instruction!Scratch /\ "gp" \notin Instruction!CalleeSaved
    /\ "zero" \notin Instruction!Scratch /\ "zero" \notin Instruction!CalleeSaved
    /\ Instruction!Scratch \intersect Instruction!CalleeSaved = {}
    /\ Instruction!Registers = {"zero", "gp", "sp"} \union Instruction!Scratch
                                  \union Instruction!CalleeSaved
BY DEF Instruction!Registers, Instruction!Scratch, Instruction!CalleeSaved

LEMMA WordNat == ASSUME ExceptionAssumed, NEW n \in Int
                 PROVE  Instruction!Word(n) \in Instruction!Words /\ Instruction!Word(n) \in Nat
BY WordFacts DEF ExceptionAssumed, Instruction!Words

\* What is taken off the stack pointer and put back.
LEMMA WordBack ==
    ASSUME Instruction!InstExceptionAssumption, NEW n \in Instruction!Words,
           NEW m \in Int
    PROVE  Instruction!Word(Instruction!Word(n - m) + m) = n
<1> DEFINE w == Instruction!WORDS
           q == (n - m) \div w
           r == (n - m) % w
<1>1. w \in Nat /\ w > 0 /\ n \in Nat
  BY WordFacts DEF Instruction!Words
<1> HIDE DEF w
<1>2. q \in Int /\ r \in Int /\ n - m = q * w + r
  BY <1>1, IntDivision
<1> HIDE DEF q, r
<1>3. r + m = n + (-q) * w
  <2>1. (0 - q) * w = 0 * w - q * w /\ q * w \in Int
    BY <1>1, <1>2, IntTimes
  <2> QED BY <1>1, <1>2, <2>1
<1> DEFINE k == -q
<1>4. k \in Int /\ n \in Int
  BY <1>1, <1>2
<1> HIDE DEF k
<1>5. Instruction!Word(n + k * w) = Instruction!Word(n) /\ Instruction!Word(n) = n
  BY <1>4, WordOfWord, WordKept DEF w
<1> QED BY <1>3, <1>5 DEF k, r, w, Instruction!Word

LEMMA ClobberedIs ==
    ASSUME ExceptionAssumed, ExceptionInv
    PROVE  Instruction!Clobbered \in [Instruction!Registers -> Nat]
<1>1. registers \in [Instruction!Registers -> Nat]
  BY DEF ExceptionInv
<1>2. \A r \in Instruction!Registers : Instruction!Word(registers[r] + 1) \in Nat
  <2> TAKE r \in Instruction!Registers
  <2>1. registers[r] + 1 \in Int
    BY <1>1
  <2> QED BY <2>1, WordNat
<1> QED BY <1>1, <1>2 DEF Instruction!Clobbered

LEMMA InstructionIs ==
    ASSUME ExceptionAssumed, NEW n \in Instruction!Instructions, Instruction!Emulated(n)
    PROVE  /\ n.a \in Instruction!Registers \ {"gp", "sp"}
           /\ n.op = "muli" => n.imm \in Instruction!Words
           /\ n.op # "muli" => n.b \in Instruction!Registers \ {"gp", "sp"}
           /\ Instruction!Destination(n) \in Instruction!Registers \ {"gp", "sp"}
           /\ n.op \in Instruction!Divisions
                 \/ n.op \in Instruction!Multiplications \union {"muli"}
<1>1. Operands \subseteq Instruction!Registers \ {"gp", "sp"}
  BY DEF ExceptionAssumed, Instruction!InstExceptionAssumption
<1>2. n.op \notin {"trap", "other"}
  BY DEF Instruction!Emulated, Instruction!Multiplications, Instruction!Divisions
<1>3. \/ /\ n.op \in Instruction!Multiplications \union Instruction!Divisions
         /\ n.a \in Operands /\ n.b \in Operands /\ n.c \in Operands
      \/ n.op = "muli" /\ n.a \in Operands /\ n.b \in Operands
         /\ n.imm \in Instruction!Words
  BY <1>2 DEF Instruction!Instructions
<1>4. "muli" \notin Instruction!Multiplications \union Instruction!Divisions
  BY DEF Instruction!Multiplications, Instruction!Divisions
<1> QED BY <1>1, <1>3, <1>4 DEF Instruction!Destination

LEMMA ExceptionInit == ASSUME ExceptionAssumed, Instruction!Init PROVE ExceptionInv
<1>1. 0 \in Instruction!Words /\ 0 \in Nat
  BY WordFacts DEF ExceptionAssumed, Instruction!Words
<1>2. "zero" \in Instruction!Registers
  BY DEF Instruction!Registers
<1> QED BY <1>1, <1>2 DEF Instruction!Init, ExceptionInv

LEMMA RegisterNext ==
    ASSUME ExceptionAssumed, ExceptionInv, NEW answer \in Answers \union {"none"},
           Instruction!Register(answer)
    PROVE  ExceptionInv'
<1>1. answer \in {"none", "insn", "after"}
  BY DEF ExceptionAssumed, Instruction!InstExceptionAssumption
<1> QED BY <1>1 DEF Instruction!Register, ExceptionInv

LEMMA ExceptNext ==
    ASSUME ExceptionAssumed, ExceptionInv, Instruction!Except PROVE ExceptionInv'
<1>1. PICK n \in Instruction!Instructions, x, y \in Instruction!Words :
    /\ insn' = n
    /\ before' = [r \in Instruction!Registers |->
                    IF ~Instruction!Emulated(n) \/ r = "zero" THEN 0
                    ELSE IF r = n.a THEN x
                    ELSE IF n.op # "muli" /\ r = n.b THEN y ELSE 0]
    /\ registers' = [before' EXCEPT !.sp = Instruction!Word(@ - 19)]
    /\ frame' = [r \in Instruction!Registers |->
                    IF r \in Instruction!Scratch THEN before'[r] ELSE frame[r]]
    /\ back' = "insn" /\ except_pc' = "irqtest"
    /\ UNCHANGED <<alt_instruction_exception_handler, cause>>
  BY DEF Instruction!Except
<1>2. before' \in [Instruction!Registers -> Instruction!Words] /\ before'.zero = 0
  <2>1. 0 \in Instruction!Words
    BY WordFacts DEF ExceptionAssumed, Instruction!Words
  <2>2. "zero" \in Instruction!Registers
    BY RegistersAre
  <2> QED BY <1>1, <2>1, <2>2
<1>3. Instruction!Words \subseteq Nat
  BY DEF Instruction!Words
<1>4. "sp" \in Instruction!Registers /\ before'["sp"] - 19 \in Int
  <2>1. "sp" \in Instruction!Registers
    BY RegistersAre
  <2>2. before'["sp"] \in Nat
    BY <1>2, <1>3, <2>1
  <2> QED BY <2>1, <2>2
<1>5. /\ registers' \in [Instruction!Registers -> Nat]
      /\ registers'["sp"] = Instruction!Word(before'["sp"] - 19)
      /\ \A r \in Instruction!Registers \ {"sp"} : registers'[r] = before'[r]
  <2>1. Instruction!Word(before'["sp"] - 19) \in Nat
    BY <1>4, WordNat
  <2> QED BY <1>1, <1>2, <1>3, <1>4, <2>1
<1>6. /\ frame' \in [Instruction!Registers -> Nat]
      /\ \A r \in Instruction!Scratch : frame'[r] = before'[r]
  <2>1. frame \in [Instruction!Registers -> Nat]
    BY DEF ExceptionInv
  <2> QED BY <1>1, <1>2, <1>3, <2>1, RegistersAre
<1>7. EntryInv'
  BY <1>1, <1>5, <1>6 DEF EntryInv
<1> QED BY <1>1, <1>2, <1>5, <1>6, <1>7 DEF ExceptionInv

\* The frame is made whole: it holds what every register but sp held before.
LEMMA WholeIs ==
    ASSUME ExceptionAssumed, ExceptionInv, EntryInv
    PROVE  /\ Instruction!Whole \in [Instruction!Registers -> Nat]
           /\ \A r \in Instruction!Registers \ {"sp"} : Instruction!Whole[r] = before[r]
<1>1. /\ registers \in [Instruction!Registers -> Nat]
      /\ frame \in [Instruction!Registers -> Nat] /\ before.zero = 0
      /\ registers["sp"] - 15 \in Int
  BY RegistersAre DEF ExceptionInv
<1>2. Instruction!Word(registers.sp - 15) \in Nat
  BY <1>1, WordNat
<1>3. /\ \A r \in Instruction!Registers \ {"sp"} : registers[r] = before[r]
      /\ \A r \in Instruction!Scratch : frame[r] = before[r]
  BY DEF EntryInv
<1> QED BY <1>1, <1>2, <1>3, RegistersAre DEF Instruction!Whole

\* C code between the way in and the way out leaves no trace.
LEMMA HandlerLeaves ==
    ASSUME ExceptionAssumed, ExceptionInv, EntryInv,
           registers' = Instruction!Clobbered, before' = before, insn' = insn,
           \A r \in Instruction!Scratch : frame'[r] = frame[r],
           cause' # "emulated",
           cause' = "irq" => back' = "insn",
           insn.op = "trap" /\ cause' # "irq" => back' = "after",
           cause' = "handler" => back' = alt_instruction_exception_handler'
    PROVE  Leaves(Restored)'
<1>1. Restored' = [r \in Instruction!Registers |->
          CASE r \in Instruction!Scratch -> frame'[r]
            [] r = "sp" -> Instruction!Word(registers'["sp"] + 19)
            [] OTHER -> registers'[r]]
  BY DEF Restored
<1>2. \A r \in Instruction!Registers \ Instruction!Scratch : registers'[r] = registers[r]
  BY DEF Instruction!Clobbered
<1>3. Instruction!Word(registers'["sp"] + 19) = before["sp"]
  <2>1. registers'["sp"] = Instruction!Word(before["sp"] - 19)
    BY <1>2, RegistersAre DEF EntryInv
  <2>2. before["sp"] \in Instruction!Words
    BY RegistersAre DEF ExceptionInv
  <2> QED BY <2>1, <2>2, WordBack DEF ExceptionAssumed
<1>4. \A r \in Instruction!Registers : Restored'[r] = before[r]
  <2>1. \A r \in Instruction!Scratch : frame'[r] = before[r]
    BY DEF EntryInv
  <2>2. \A r \in Instruction!Registers \ (Instruction!Scratch \union {"sp"}) :
            registers'[r] = before[r]
    BY <1>2 DEF EntryInv
  <2> QED BY <1>1, <1>3, <2>1, <2>2
<1> QED BY <1>4 DEF Leaves

LEMMA InterruptNext ==
    ASSUME ExceptionAssumed, ExceptionInv, Instruction!Interrupt PROVE ExceptionInv'
<1>1. EntryInv /\ registers' = Instruction!Clobbered /\ cause' = "irq" /\ back' = back
      /\ back = "insn" /\ frame' = frame /\ before' = before /\ insn' = insn
      /\ except_pc' = "exit"
      /\ alt_instruction_exception_handler' = alt_instruction_exception_handler
  BY DEF Instruction!Interrupt, ExceptionInv, EntryInv
<1>2. Leaves(Restored)'
  BY <1>1, HandlerLeaves
<1>3. registers' \in [Instruction!Registers -> Nat]
  BY <1>1, ClobberedIs
<1> QED BY <1>1, <1>2, <1>3 DEF ExceptionInv

LEMMA NotIrqNext ==
    ASSUME ExceptionAssumed, ExceptionInv, Instruction!NotIrq PROVE ExceptionInv'
<1>1. EntryInv'
  BY DEF Instruction!NotIrq, ExceptionInv, EntryInv
<1> QED BY <1>1 DEF Instruction!NotIrq, ExceptionInv

LEMMA TrapNext ==
    ASSUME ExceptionAssumed, ExceptionInv, Instruction!Trap PROVE ExceptionInv'
<1>1. EntryInv /\ registers' = Instruction!Clobbered /\ cause' = "debugger"
      /\ back' = back /\ back = "after" /\ frame' = Instruction!Whole /\ before' = before
      /\ insn' = insn /\ except_pc' = "exit"
      /\ alt_instruction_exception_handler' = alt_instruction_exception_handler
  BY DEF Instruction!Trap, ExceptionInv, EntryInv
<1>2. /\ frame' \in [Instruction!Registers -> Nat]
      /\ \A r \in Instruction!Scratch : frame'[r] = frame[r]
  BY <1>1, WholeIs, RegistersAre DEF EntryInv
<1>3. Leaves(Restored)'
  BY <1>1, <1>2, HandlerLeaves
<1>4. registers' \in [Instruction!Registers -> Nat]
  BY <1>1, ClobberedIs
<1> QED BY <1>1, <1>2, <1>3, <1>4 DEF ExceptionInv

LEMMA HandlerNext ==
    ASSUME ExceptionAssumed, ExceptionInv, Instruction!InstructionExceptionEntry
    PROVE  ExceptionInv'
<1>1. EntryInv /\ registers' = Instruction!Clobbered
      /\ back = "after" /\ frame' = Instruction!Whole /\ before' = before
      /\ insn' = insn /\ insn.op = "other" /\ except_pc' = "exit"
      /\ alt_instruction_exception_handler' = alt_instruction_exception_handler
      /\ back' = (IF alt_instruction_exception_handler = "after" THEN back ELSE "insn")
      /\ cause' = (IF alt_instruction_exception_handler = "none" THEN "debugger"
                   ELSE "handler")
  BY DEF Instruction!InstructionExceptionEntry, ExceptionInv, EntryInv
<1>2. /\ frame' \in [Instruction!Registers -> Nat]
      /\ \A r \in Instruction!Scratch : frame'[r] = frame[r]
  BY <1>1, WholeIs, RegistersAre DEF EntryInv
<1>3. cause' \in {"debugger", "handler"}
      /\ (cause' = "handler" => back' = alt_instruction_exception_handler')
  BY <1>1 DEF ExceptionInv
<1>4. Leaves(Restored)'
  BY <1>1, <1>2, <1>3, HandlerLeaves
<1>5. registers' \in [Instruction!Registers -> Nat]
  BY <1>1, ClobberedIs
<1> QED BY <1>1, <1>2, <1>4, <1>5 DEF ExceptionInv

LEMMA ExitNext ==
    ASSUME ExceptionAssumed, ExceptionInv, Instruction!Exit PROVE ExceptionInv'
<1>1. /\ registers' = Restored /\ except_pc' = "resumed" /\ Leaves(Restored)
      /\ UNCHANGED <<frame, back, insn, alt_instruction_exception_handler, before, cause>>
  BY DEF Instruction!Exit, ExceptionInv, Restored
<1>2. Leaves(registers)'
  BY <1>1 DEF Leaves, LeftOperand, RightOperand
<1>3. Restored \in [Instruction!Registers -> Nat]
  <2>1. /\ registers \in [Instruction!Registers -> Nat]
        /\ frame \in [Instruction!Registers -> Nat]
        /\ registers["sp"] + 19 \in Int
    BY RegistersAre DEF ExceptionInv
  <2>2. Instruction!Word(registers.sp + 19) \in Nat
    BY <2>1, WordNat
  <2> QED BY <2>1, <2>2, RegistersAre DEF Restored
<1> QED BY <1>1, <1>2, <1>3 DEF ExceptionInv

LEMMA GoOnNext ==
    ASSUME ExceptionAssumed, ExceptionInv, Instruction!GoOn PROVE ExceptionInv'
<1>1. 0 \in Instruction!Words /\ 0 \in Nat
  BY WordFacts DEF ExceptionAssumed, Instruction!Words
<1>2. "zero" \in Instruction!Registers
  BY DEF Instruction!Registers
<1> QED BY <1>1, <1>2 DEF Instruction!GoOn, ExceptionInv

OperandsKept == /\ LeftOperand \in Instruction!Words
                /\ RightOperand \in Instruction!Words

LEMMA OperandsAre ==
    ASSUME ExceptionAssumed, ExceptionInv, insn \in Instruction!Instructions,
           Instruction!Emulated(insn)
    PROVE  OperandsKept
<1>1. before \in [Instruction!Registers -> Instruction!Words]
  BY DEF ExceptionInv
<1>2. /\ insn.a \in Instruction!Registers
      /\ insn.op = "muli" => insn.imm \in Instruction!Words
      /\ insn.op # "muli" => insn.b \in Instruction!Registers
  BY InstructionIs
<1> QED BY <1>1, <1>2 DEF OperandsKept, LeftOperand, RightOperand

LEMMA DecodeNext ==
    ASSUME ExceptionAssumed, ExceptionInv, Instruction!Decode PROVE ExceptionInv'
<1> DEFINE left == Instruction!Whole[insn.a]
           right == IF insn.op = "muli" THEN insn.imm ELSE Instruction!Whole[insn.b]
           loaded == [registers EXCEPT !.sp = Instruction!Word(@ - 15), !.r14 = W,
                                       !.r3 = left, !.r6 = right]
           Mag(n) == IF insn.op = "div" /\ Instruction!Negative(n)
                     THEN Instruction!Word(-n) ELSE n
           dividing == [loaded EXCEPT
                    !.r3 = Mag(left), !.r6 = Mag(right), !.r13 = 0,
                    !.r17 = IF insn.op = "div"
                               /\ Instruction!Negative(left) # Instruction!Negative(right)
                            THEN Instruction!HIGH ELSE 0]
           multiplying == [loaded EXCEPT
                    !.r9 = 0, !.r10 = 0, !.r11 = right, !.r12 = right, !.r16 = 1]
<1>1. /\ except_pc = "soft" /\ Instruction!Emulated(insn)
      /\ frame' = Instruction!Whole /\ cause' = "emulated"
      /\ UNCHANGED <<back, insn, alt_instruction_exception_handler, before>>
      /\ IF insn.op \in Instruction!Divisions
         THEN registers' = dividing /\ except_pc' = "divide"
         ELSE registers' = multiplying /\ except_pc' = "multiply"
  BY DEF Instruction!Decode
<1>2. EntryInv /\ insn \in Instruction!Instructions /\ back = "after"
  BY <1>1 DEF ExceptionInv, EntryInv
<1>3. /\ Instruction!Whole \in [Instruction!Registers -> Nat]
      /\ \A r \in Instruction!Registers \ {"sp"} : Instruction!Whole[r] = before[r]
  BY <1>2, WholeIs
<1>4. left = LeftOperand /\ right = RightOperand
  <2>1. /\ insn.a \in Instruction!Registers \ {"gp", "sp"}
        /\ insn.op # "muli" => insn.b \in Instruction!Registers \ {"gp", "sp"}
    BY <1>1, <1>2, InstructionIs
  <2> QED BY <1>3, <2>1 DEF LeftOperand, RightOperand
<1>5. OperandsKept
  BY <1>1, <1>2, OperandsAre
<1>6. LeftOperand' = LeftOperand /\ RightOperand' = RightOperand
  BY <1>1 DEF LeftOperand, RightOperand
<1>7. left \in Instruction!Words /\ right \in Instruction!Words /\ left \in Nat /\ right \in Nat
  BY <1>4, <1>5 DEF OperandsKept, Instruction!Words
<1>8. \A n : Mag(n) = Magnitude(insn.op = "div", n)
  BY DEF Magnitude
<1> HIDE DEF left, right, Mag
<1>9. /\ Magnitude(insn.op = "div", left) \in Instruction!Words
      /\ Magnitude(insn.op = "div", right) \in Instruction!Words
  <2>1. (insn.op = "div") \in BOOLEAN
    OBVIOUS
  <2> QED BY <1>7, <2>1, MagnitudeIs DEF ExceptionAssumed
<1>10. Mag(left) \in Nat /\ Mag(right) \in Nat
  BY <1>8, <1>9 DEF Instruction!Words
<1>11. /\ registers \in [Instruction!Registers -> Nat] /\ registers["sp"] - 15 \in Int
       /\ registers["sp"] = Instruction!Word(before["sp"] - 19)
       /\ registers["zero"] = before["zero"] /\ registers["gp"] = before["gp"]
  BY <1>2, RegistersAre DEF ExceptionInv, EntryInv
<1>12. Instruction!Word(registers.sp - 15) \in Nat
  BY <1>11, WordNat
<1>13. W \in Nat /\ W > 0 /\ Instruction!HIGH \in Nat /\ Instruction!HIGH > 0
  BY WordFacts DEF ExceptionAssumed
<1>14. loaded \in [Instruction!Registers -> Nat]
  BY <1>7, <1>11, <1>12, <1>13
<1>15. {"sp", "r3", "r6", "r9", "r10", "r11", "r12", "r13", "r14", "r16", "r17", "zero", "gp"}
           \subseteq Instruction!Registers
  BY DEF Instruction!Registers, Instruction!Scratch, Instruction!CalleeSaved
<1>16. /\ loaded.sp = Instruction!Word(Instruction!Word(before.sp - 19) - 15)
       /\ loaded.zero = before.zero /\ loaded.gp = before.gp
       /\ loaded.r14 = W /\ loaded.r3 = left /\ loaded.r6 = right
  BY <1>11, <1>15
<1> HIDE DEF loaded
<1>17. CASE insn.op \in Instruction!Divisions
  <2>1. /\ registers' \in [Instruction!Registers -> Nat]
        /\ registers'["sp"] = loaded.sp /\ registers'["zero"] = loaded.zero
        /\ registers'["gp"] = loaded.gp /\ registers'["r14"] = loaded.r14
        /\ registers'["r3"] = Mag(left) /\ registers'["r6"] = Mag(right)
        /\ registers'["r13"] = 0
        /\ registers'["r17"] = IF insn.op = "div"
                               /\ Instruction!Negative(left) # Instruction!Negative(right)
                            THEN Instruction!HIGH ELSE 0
    <3> DEFINE sign == IF insn.op = "div"
                         /\ Instruction!Negative(left) # Instruction!Negative(right)
                       THEN Instruction!HIGH ELSE 0
    <3>1. sign \in Nat
      BY <1>13
    <3> HIDE DEF sign
    <3>2. registers' = [loaded EXCEPT !.r3 = Mag(left), !.r6 = Mag(right), !.r13 = 0,
                                      !.r17 = sign]
      BY <1>1, <1>17 DEF sign
    <3>3. registers' \in [Instruction!Registers -> Nat]
      BY <1>10, <1>14, <3>1, <3>2
    <3>4. /\ registers'["sp"] = loaded.sp /\ registers'["zero"] = loaded.zero
          /\ registers'["gp"] = loaded.gp /\ registers'["r14"] = loaded.r14
      BY <1>14, <1>15, <3>2
    <3>5. /\ registers'["r3"] = Mag(left) /\ registers'["r6"] = Mag(right)
          /\ registers'["r13"] = 0 /\ registers'["r17"] = sign
      BY <1>14, <1>15, <3>2
    <3> QED BY <3>3, <3>4, <3>5 DEF sign
  <2>2. Instruction!Negative(Instruction!HIGH) /\ ~Instruction!Negative(0)
    BY <1>13 DEF Instruction!Negative
  <2>3. Dividing(W, Magnitude(insn.op = "div", left), 0, Magnitude(insn.op = "div", left),
                 Magnitude(insn.op = "div", right))
    BY <1>9, DivideBegins DEF ExceptionAssumed
  <2>4. Instruction!Negative(registers'["r17"]) <=>
            /\ insn.op = "div" /\ Instruction!Negative(left) # Instruction!Negative(right)
    BY <2>1, <2>2
  <2>5. Computing'
    BY <1>1, <1>4, <1>6, <1>8, <1>16, <1>17, <2>1, <2>3, <2>4 DEF Computing
  <2>6. except_pc' = "divide" /\ registers'["r14"] = W
    BY <1>1, <1>16, <1>17, <2>1
  <2>7. EmulationInv'
    BY <1>1, <1>2, <1>3, <1>13, <1>16, <1>17, <2>1, <2>5, <2>6 DEF EmulationInv
  <2> QED BY <1>1, <1>3, <2>1, <2>6, <2>7 DEF ExceptionInv
<1>18. CASE insn.op \notin Instruction!Divisions
  <2>1. /\ registers' \in [Instruction!Registers -> Nat]
        /\ registers'["sp"] = loaded.sp /\ registers'["zero"] = loaded.zero
        /\ registers'["gp"] = loaded.gp /\ registers'["r14"] = loaded.r14
        /\ registers'["r3"] = loaded.r3 /\ registers'["r6"] = loaded.r6
        /\ registers'["r9"] = 0 /\ registers'["r10"] = 0
        /\ registers'["r11"] = right /\ registers'["r12"] = right
    <3>1. registers' = multiplying
      BY <1>1, <1>18
    <3>2. registers' \in [Instruction!Registers -> Nat]
      BY <1>7, <1>14, <3>1
    <3>3. /\ registers'["sp"] = loaded.sp /\ registers'["zero"] = loaded.zero
          /\ registers'["gp"] = loaded.gp /\ registers'["r14"] = loaded.r14
      BY <1>14, <1>15, <3>1
    <3>4. /\ registers'["r3"] = loaded.r3 /\ registers'["r6"] = loaded.r6
          /\ registers'["r9"] = 0 /\ registers'["r10"] = 0
          /\ registers'["r11"] = right /\ registers'["r12"] = right
      BY <1>14, <1>15, <3>1
    <3> QED BY <3>2, <3>3, <3>4
  <2>2. Multiplying(W, left, right, 0, 0, right, right)
    BY <1>7, MultiplyBegins DEF ExceptionAssumed
  <2>3. Computing'
    BY <1>1, <1>4, <1>6, <1>16, <1>18, <2>1, <2>2 DEF Computing
  <2>4. except_pc' = "multiply" /\ registers'["r14"] = W
    BY <1>1, <1>16, <1>18, <2>1
  <2>5. EmulationInv'
    BY <1>1, <1>2, <1>3, <1>13, <1>16, <1>18, <2>1, <2>3, <2>4 DEF EmulationInv
  <2> QED BY <1>1, <1>3, <2>1, <2>4, <2>5 DEF ExceptionInv
<1> QED BY <1>17, <1>18

\* A step of a loop changes scratch registers only.
LEMMA LoopKeeps ==
    ASSUME ExceptionAssumed, ExceptionInv, EmulationInv, Computing',
           registers' \in [Instruction!Registers -> Nat],
           registers'["r14"] = registers["r14"] - 1, registers["r14"] # 0,
           registers'["sp"] = registers["sp"], registers'["gp"] = registers["gp"],
           registers'["zero"] = registers["zero"],
           except_pc' = IF registers["r14"] = 1 THEN "result" ELSE except_pc,
           except_pc \in {"divide", "multiply"},
           UNCHANGED <<frame, back, insn, alt_instruction_exception_handler, before, cause>>
    PROVE  ExceptionInv'
<1>1. registers["r14"] \in 0..W /\ W \in Nat
  BY WordFacts DEF EmulationInv, ExceptionAssumed
<1>2. registers'["r14"] \in 0..W /\ (registers'["r14"] = 0 <=> except_pc' = "result")
  BY <1>1
<1>3. EmulationInv'
  BY <1>2 DEF EmulationInv
<1> QED BY <1>3 DEF ExceptionInv

LEMMA DivideNext ==
    ASSUME ExceptionAssumed, ExceptionInv,
           Instruction!Loop("divide", Instruction!DivideBit(registers))
    PROVE  ExceptionInv'
<1> DEFINE X == registers.r3
           R == registers.r13
           D == Magnitude(insn.op = "div", LeftOperand)
           V == Magnitude(insn.op = "div", RightOperand)
           rem == Instruction!Word(2 * R) + IF Instruction!Negative(X) THEN 1 ELSE 0
           fits == rem >= V
           X1 == Instruction!Word(2 * X) + IF fits THEN 1 ELSE 0
           R1 == IF fits THEN rem - V ELSE rem
<1>1. /\ except_pc = "divide"
      /\ registers' = [Instruction!DivideBit(registers) EXCEPT !.r14 = @ - 1]
      /\ except_pc' = IF registers.r14 = 1 THEN "result" ELSE "divide"
      /\ UNCHANGED <<frame, back, insn, alt_instruction_exception_handler, before, cause>>
  BY DEF Instruction!Loop
<1>2. /\ EmulationInv /\ registers \in [Instruction!Registers -> Nat]
      /\ insn \in Instruction!Instructions /\ Instruction!Emulated(insn)
      /\ insn.op \in Instruction!Divisions
      /\ registers["r6"] = V /\ Dividing(registers["r14"], X, R, D, V)
      /\ registers["r14"] \in 0..W /\ registers["r14"] # 0
  BY <1>1 DEF ExceptionInv, EmulationInv, Computing
<1>3. D \in Instruction!Words /\ V \in Instruction!Words
  <2>1. OperandsKept /\ (insn.op = "div") \in BOOLEAN
    BY <1>2, OperandsAre
  <2> QED BY <2>1, MagnitudeIs DEF OperandsKept, ExceptionAssumed
<1>4. LeftOperand' = LeftOperand /\ RightOperand' = RightOperand
  BY <1>1 DEF LeftOperand, RightOperand
<1>5. {"sp", "r3", "r6", "r13", "r14", "r17", "zero", "gp"} \subseteq Instruction!Registers
  BY DEF Instruction!Registers, Instruction!Scratch, Instruction!CalleeSaved
<1>6. X \in Nat /\ R \in Nat /\ V \in Nat
  BY <1>2, <1>3, <1>5 DEF Instruction!Words
<1> HIDE DEF D, V
<1>7. Instruction!Word(2 * R) \in Nat /\ Instruction!Word(2 * X) \in Nat
  BY <1>6, WordNat
<1>8. rem \in Nat /\ X1 \in Nat /\ R1 \in Nat
  BY <1>6, <1>7
<1>9. Instruction!DivideBit(registers) = [registers EXCEPT !.r13 = R1, !.r3 = X1]
  BY <1>2 DEF Instruction!DivideBit
<1>10. registers["r14"] \in 1..W /\ registers["r14"] - 1 \in Nat
  BY <1>2, WordFacts DEF ExceptionAssumed
<1>11. Dividing(registers["r14"] - 1, X1, R1, D, V)
  BY <1>2, <1>3, <1>6, <1>10, DivideStep DEF ExceptionAssumed
<1> HIDE DEF X1, R1
<1>12. /\ registers' \in [Instruction!Registers -> Nat]
       /\ registers'["r14"] = registers["r14"] - 1
       /\ registers'["sp"] = registers["sp"] /\ registers'["gp"] = registers["gp"]
       /\ registers'["zero"] = registers["zero"] /\ registers'["r6"] = registers["r6"]
       /\ registers'["r17"] = registers["r17"]
       /\ registers'["r3"] = X1 /\ registers'["r13"] = R1
  BY <1>1, <1>2, <1>5, <1>8, <1>9, <1>10
<1>13. Computing'
  BY <1>1, <1>2, <1>4, <1>11, <1>12 DEF Computing, EmulationInv, D, V
<1> QED BY <1>1, <1>2, <1>12, <1>13, LoopKeeps

LEMMA MultiplyNext ==
    ASSUME ExceptionAssumed, ExceptionInv,
           Instruction!Loop("multiply", Instruction!MultiplyBit(registers))
    PROVE  ExceptionInv'
<1> DEFINE x == LeftOperand
           y == RightOperand
           lo == registers["r9"]
           hi == registers["r10"]
           up == registers["r6"]
           down == registers["r12"]
           odd == down % 2 = 1
           sum == IF odd THEN Instruction!Word(hi + x) ELSE hi
           lo1 == Instruction!Word(2 * lo + IF Instruction!Negative(up) THEN x ELSE 0)
           hi1 == (sum \div 2) + IF odd THEN Instruction!Carry(sum, x) ELSE 0
           up1 == Instruction!Word(2 * up)
           down1 == down \div 2
<1>1. /\ except_pc = "multiply"
      /\ registers' = [Instruction!MultiplyBit(registers) EXCEPT !.r14 = @ - 1]
      /\ except_pc' = IF registers.r14 = 1 THEN "result" ELSE "multiply"
      /\ UNCHANGED <<frame, back, insn, alt_instruction_exception_handler, before, cause>>
  BY DEF Instruction!Loop
<1>2. /\ EmulationInv /\ registers \in [Instruction!Registers -> Nat]
      /\ insn \in Instruction!Instructions /\ Instruction!Emulated(insn)
      /\ insn.op \notin Instruction!Divisions
      /\ registers["r3"] = x /\ registers["r11"] = y
      /\ Multiplying(registers["r14"], x, y, lo, hi, up, down)
      /\ registers["r14"] \in 0..W /\ registers["r14"] # 0
  BY <1>1 DEF ExceptionInv, EmulationInv, Computing
<1>3. x \in Instruction!Words /\ y \in Instruction!Words
  BY <1>2, OperandsAre DEF OperandsKept
<1>4. LeftOperand' = LeftOperand /\ RightOperand' = RightOperand
  BY <1>1 DEF LeftOperand, RightOperand
<1>5. {"sp", "r3", "r6", "r9", "r10", "r11", "r12", "r14", "zero", "gp"}
          \subseteq Instruction!Registers
  BY DEF Instruction!Registers, Instruction!Scratch, Instruction!CalleeSaved
<1> HIDE DEF x, y
<1>6. registers["r14"] \in 1..W /\ registers["r14"] - 1 \in Nat
  BY <1>2, WordFacts DEF ExceptionAssumed
<1>7. Multiplying(registers["r14"] - 1, x, y, lo1, hi1, up1, down1)
  BY <1>2, <1>3, <1>6, MultiplyStep DEF ExceptionAssumed
<1>8. lo1 \in Nat /\ hi1 \in Nat /\ up1 \in Nat /\ down1 \in Nat
  BY <1>7 DEF Multiplying, Instruction!Words
<1>9. Instruction!MultiplyBit(registers) =
          [registers EXCEPT !.r9 = lo1, !.r10 = hi1, !.r6 = up1, !.r12 = down1]
  BY <1>2 DEF Instruction!MultiplyBit
<1> HIDE DEF lo1, hi1, up1, down1
<1>10. /\ registers' \in [Instruction!Registers -> Nat]
       /\ registers'["r14"] = registers["r14"] - 1
       /\ registers'["sp"] = registers["sp"] /\ registers'["gp"] = registers["gp"]
       /\ registers'["zero"] = registers["zero"] /\ registers'["r3"] = registers["r3"]
       /\ registers'["r11"] = registers["r11"]
       /\ registers'["r9"] = lo1 /\ registers'["r10"] = hi1
       /\ registers'["r6"] = up1 /\ registers'["r12"] = down1
  BY <1>1, <1>2, <1>5, <1>6, <1>8, <1>9
<1>11. Computing'
  BY <1>1, <1>2, <1>4, <1>7, <1>10 DEF Computing, EmulationInv, x, y
<1> QED BY <1>1, <1>2, <1>10, <1>11, LoopKeeps

\* The result is what the instruction computes.
LEMMA ResultIs ==
    ASSUME ExceptionAssumed, ExceptionInv, EmulationInv, except_pc = "result"
    PROVE  /\ Instruction!Computes(insn.op, LeftOperand, RightOperand, Instruction!Result)
           /\ Instruction!Result \in Nat
<1>1. /\ insn \in Instruction!Instructions /\ Instruction!Emulated(insn)
      /\ registers["r14"] = 0 /\ Computing /\ OperandsKept
      /\ registers \in [Instruction!Registers -> Nat]
  BY OperandsAre DEF EmulationInv, ExceptionInv
<1>2. {"r3", "r9", "r10", "r11", "r13", "r17"} \subseteq Instruction!Registers
  BY DEF Instruction!Registers, Instruction!Scratch, Instruction!CalleeSaved
<1>3. CASE insn.op \in Instruction!Divisions
  <2> DEFINE D == Magnitude(insn.op = "div", LeftOperand)
             V == Magnitude(insn.op = "div", RightOperand)
             Q == registers["r3"]
             negative == Instruction!Negative(registers["r17"])
  <2>1. Instruction!Result = Instruction!Word(IF negative THEN -Q ELSE Q)
    BY <1>3 DEF Instruction!Result, Instruction!Divisions
  <2>2. /\ Dividing(0, Q, registers["r13"], D, V) /\ registers["r13"] \in Nat /\ Q \in Nat
        /\ negative <=> /\ insn.op = "div"
                        /\ Instruction!Negative(LeftOperand)
                               # Instruction!Negative(RightOperand)
    BY <1>1, <1>2, <1>3 DEF Computing
  <2>3. (insn.op = "div") \in BOOLEAN
    OBVIOUS
  <2>4. /\ D \in Instruction!Words /\ V \in Instruction!Words
        /\ RightOperand # 0 => V # 0
    BY <1>1, <2>3, MagnitudeIs DEF OperandsKept, ExceptionAssumed
  <2>5. RightOperand # 0 => Q = D \div V
    <3> HIDE DEF D, V, Q
    <3>1. D \in Nat /\ V \in Nat
      BY <2>4 DEF Instruction!Words
    <3> QED BY <2>2, <2>4, <3>1, DivideEnds
  <2>6. Instruction!Word(IF negative THEN -Q ELSE Q) \in Nat
    <3>1. (IF negative THEN -Q ELSE Q) \in Int
      BY <2>2
    <3> HIDE DEF negative, Q
    <3> QED BY <3>1, WordNat
  <2> HIDE DEF Q, negative
  <2>7. Instruction!Computes(insn.op, LeftOperand, RightOperand,
                             Instruction!Word(IF negative THEN -Q ELSE Q))
    BY <1>1, <1>3, <2>2, <2>5, QuotientIs DEF OperandsKept, ExceptionAssumed
  <2> QED BY <2>1, <2>6, <2>7
<1>4. CASE insn.op \notin Instruction!Divisions
  <2> DEFINE x == LeftOperand
             y == RightOperand
             lo == registers["r9"]
             hi == registers["r10"]
             mulxsu == hi - IF Instruction!Negative(x) THEN y ELSE 0
             result == CASE insn.op \in {"mul", "muli"} -> lo
                         [] insn.op = "mulxuu" -> hi
                         [] insn.op = "mulxsu" -> mulxsu
                         [] insn.op = "mulxss" ->
                                mulxsu - IF Instruction!Negative(y) THEN x ELSE 0
  <2>1. registers["r3"] = x /\ registers["r11"] = y
        /\ Multiplying(0, x, y, lo, hi, registers["r6"], registers["r12"])
    BY <1>1, <1>4 DEF Computing
  <2>2. insn.op \in Instruction!Multiplications \union {"muli"}
    BY <1>1, <1>4, InstructionIs
  <2>3. Instruction!Result = Instruction!Word(result)
    BY <1>4, <2>1, <2>2 DEF Instruction!Result, Instruction!Multiplications,
                            Instruction!Divisions
  <2>4. x \in Instruction!Words /\ y \in Instruction!Words
    BY <1>1 DEF OperandsKept
  <2>5. lo = Instruction!Word(x * y) /\ hi = (x * y) \div Instruction!WORDS
    BY <2>1, <2>4, MultiplyEnds DEF ExceptionAssumed
  <2>6. x \in Nat /\ y \in Nat /\ lo \in Nat /\ hi \in Nat
    BY <1>1, <1>2, <2>4 DEF Instruction!Words
  <2>7. result \in Int
    BY <2>2, <2>6 DEF Instruction!Multiplications
  <2>8. Instruction!Word(result) \in Nat
    <3> HIDE DEF result
    <3> QED BY <2>7, WordNat
  <2>9. Instruction!Computes(insn.op, x, y, Instruction!Word(result))
    <3> HIDE DEF x, y, lo, hi
    <3> QED BY <2>2, <2>4, <2>5, ProductIs DEF ExceptionAssumed
  <2> HIDE DEF result
  <2> QED BY <2>3, <2>8, <2>9
<1> QED BY <1>3, <1>4

LEMMA StoreNext ==
    ASSUME ExceptionAssumed, ExceptionInv, Instruction!StoreResult PROVE ExceptionInv'
<1> DEFINE c == Instruction!Destination(insn)
<1>1. /\ except_pc = "result" /\ except_pc' = "exit"
      /\ frame' = [frame EXCEPT ![c] = Instruction!Result]
      /\ registers' = [r \in Instruction!Registers |->
             CASE r \in Instruction!CalleeSaved -> frame'[r]
               [] r = "sp" -> Instruction!Word(registers.sp + 15)
               [] OTHER -> registers[r]]
      /\ UNCHANGED <<back, insn, alt_instruction_exception_handler, before, cause>>
  BY DEF Instruction!StoreResult
<1>2. /\ EmulationInv /\ insn \in Instruction!Instructions
      /\ Instruction!Emulated(insn) /\ cause = "emulated" /\ back = "after"
      /\ registers \in [Instruction!Registers -> Nat]
      /\ frame \in [Instruction!Registers -> Nat]
      /\ before \in [Instruction!Registers -> Instruction!Words]
      /\ registers["sp"] = Instruction!Word(Instruction!Word(before["sp"] - 19) - 15)
      /\ registers["zero"] = before["zero"] /\ registers["gp"] = before["gp"]
      /\ \A r \in Instruction!Registers \ {"sp"} : frame[r] = before[r]
  BY <1>1 DEF ExceptionInv, EmulationInv
<1>3. c \in Instruction!Registers \ {"gp", "sp"}
  BY <1>2, InstructionIs
<1>4. /\ Instruction!Computes(insn.op, LeftOperand, RightOperand, Instruction!Result)
      /\ Instruction!Result \in Nat
  BY <1>1, <1>2, ResultIs
<1> HIDE DEF c
<1>5. /\ frame' \in [Instruction!Registers -> Nat] /\ frame'[c] = Instruction!Result
      /\ \A r \in Instruction!Registers \ {"sp", c} : frame'[r] = before[r]
  BY <1>1, <1>2, <1>3, <1>4
<1>6. "sp" \in Instruction!Registers /\ registers["sp"] + 15 \in Int
  BY <1>2, RegistersAre
<1>7. registers' \in [Instruction!Registers -> Nat]
  <2>1. Instruction!Word(registers.sp + 15) \in Nat
    BY <1>6, WordNat
  <2> QED BY <1>1, <1>2, <1>5, <2>1, RegistersAre
<1>8. registers'["sp"] = Instruction!Word(before["sp"] - 19)
  <2>1. registers'["sp"] = Instruction!Word(registers["sp"] + 15)
    BY <1>1, <1>6, RegistersAre
  <2>2. before["sp"] \in Nat
    BY <1>2, <1>6 DEF Instruction!Words
  <2> DEFINE n == Instruction!Word(before["sp"] - 19)
  <2>3. n \in Instruction!Words
    BY <2>2, WordNat
  <2> HIDE DEF n
  <2>4. Instruction!Word(Instruction!Word(n - 15) + 15) = n
    BY <2>3, WordBack DEF ExceptionAssumed
  <2>5. registers["sp"] = Instruction!Word(n - 15)
    BY <1>2 DEF n
  <2> QED BY <2>1, <2>4, <2>5 DEF n
<1>9. Restored'["sp"] = before["sp"]
  <2>1. Restored'["sp"] = Instruction!Word(registers'["sp"] + 19)
    BY <1>6, RegistersAre DEF Restored
  <2>2. before["sp"] \in Instruction!Words
    BY <1>2, <1>6
  <2> QED BY <1>8, <2>1, <2>2, WordBack DEF ExceptionAssumed
<1>10. \A r \in Instruction!Registers \ {"sp"} :
           Restored'[r] = IF r = c /\ c # "zero" THEN Instruction!Result ELSE before[r]
  <2> TAKE r \in Instruction!Registers \ {"sp"}
  <2>1. CASE r \in Instruction!Scratch
    <3>1. Restored'[r] = frame'[r] /\ r # "zero"
      BY <2>1, RegistersAre DEF Restored
    <3> QED BY <1>5, <3>1
  <2>2. CASE r \in Instruction!CalleeSaved
    <3>1. r \notin Instruction!Scratch /\ r # "zero"
      BY <2>2, RegistersAre
    <3>2. Restored'[r] = registers'[r] /\ registers'[r] = frame'[r]
      BY <1>1, <2>2, <3>1 DEF Restored
    <3> QED BY <1>5, <3>1, <3>2
  <2>3. CASE r \in {"zero", "gp"}
    <3>1. r \notin Instruction!Scratch /\ r \notin Instruction!CalleeSaved
      BY <2>3, RegistersAre
    <3>2. Restored'[r] = registers'[r] /\ registers'[r] = registers[r]
      BY <1>1, <2>3, <3>1 DEF Restored
    <3> QED BY <1>2, <1>3, <2>3, <3>2
  <2> QED BY <2>1, <2>2, <2>3, RegistersAre
<1>11. /\ cause' = "emulated" /\ back' = "after" /\ insn' = insn /\ before' = before
       /\ LeftOperand' = LeftOperand /\ RightOperand' = RightOperand
  BY <1>1, <1>2 DEF LeftOperand, RightOperand
<1>12. Leaves(Restored)'
  BY <1>3, <1>4, <1>9, <1>10, <1>11 DEF Leaves, c
<1> QED BY <1>1, <1>5, <1>7, <1>12 DEF ExceptionInv

LEMMA ExceptionNext ==
    ASSUME ExceptionAssumed, ExceptionInv, [Instruction!Next]_(Instruction!vars)
    PROVE  ExceptionInv'
<1>1. CASE UNCHANGED Instruction!vars
  BY <1>1 DEF Instruction!vars, ExceptionInv, EntryInv, EmulationInv, Computing, Leaves,
              Restored, LeftOperand, RightOperand
<1>2. CASE Instruction!Next
  BY <1>2, RegisterNext, ExceptNext, InterruptNext, NotIrqNext, DecodeNext, DivideNext,
     MultiplyNext, StoreNext, TrapNext, HandlerNext, ExitNext, GoOnNext
     DEF Instruction!Next
<1> QED BY <1>1, <1>2

\* An exception leaves no trace but the result of the instruction, for every
\* width of a word, every choice of operands without sp and gp
\* (InstExceptionAssumption) and every handler
\* (alt_exception_entry.S:125-396, alt_exception_muldiv.S:98-573).
THEOREM ExceptionsTransparent == Spec => []Transparent
<1>1. ExceptionAssumed
  BY PartsAssumption DEF ExceptionAssumed
<1>2. Init => ExceptionInv
  BY <1>1, ExceptionInit DEF Init
<1>3. ExceptionInv /\ [Next]_vars => ExceptionInv'
  <2> SUFFICES ASSUME ExceptionInv, [Next]_vars PROVE ExceptionInv'
    OBVIOUS
  <2>1. [Instruction!Next]_(Instruction!vars)
    BY DEF Next, vars, instructionVars, Instruction!vars
  <2> QED BY <1>1, <2>1, ExceptionNext
<1>4. ExceptionInv => Transparent
  BY DEF ExceptionInv, Leaves, LeftOperand, RightOperand, Transparent,
         Instruction!Transparent
<1> QED BY <1>2, <1>3, <1>4, PTL DEF Spec

-----------------------------------------------------------------------------
(* The codes.  A register feeds itself by a linear recurrence; substituted *)
(* in itself the recurrence leaps twice as far, from 16 bits up to 1024.   *)

\* A sequence of bits is the set of the places of its ones.
p \oplus q == ~ (p <=> q)

G1Leap10(a, n) ==
    n + 10 \in a <=> (n \in a) \oplus (n + 7 \in a)
G1Leap16(a, n) ==
    n + 16 \in a <=> (n \in a) \oplus (n + 3 \in a) \oplus
        (n + 6 \in a) \oplus (n + 7 \in a)
G1Leap32(a, n) ==
    n + 32 \in a <=> (n \in a) \oplus (n + 1 \in a) \oplus
        (n + 2 \in a) \oplus (n + 4 \in a) \oplus (n + 6 \in a) \oplus
        (n + 8 \in a) \oplus (n + 9 \in a)
G1Leap64(a, n) ==
    n + 64 \in a <=> (n + 2 \in a) \oplus (n + 3 \in a) \oplus
        (n + 4 \in a) \oplus (n + 5 \in a) \oplus (n + 6 \in a) \oplus
        (n + 7 \in a)
G1Leap128(a, n) ==
    n + 128 \in a <=> (n \in a) \oplus (n + 1 \in a) \oplus
        (n + 2 \in a) \oplus (n + 6 \in a) \oplus (n + 7 \in a) \oplus
        (n + 9 \in a)
G1Leap256(a, n) ==
    n + 256 \in a <=> (n \in a) \oplus (n + 1 \in a) \oplus
        (n + 2 \in a) \oplus (n + 5 \in a)
G1Leap512(a, n) ==
    n + 512 \in a <=> (n + 2 \in a) \oplus (n + 4 \in a) \oplus
        (n + 7 \in a)
G1Leap1024(a, n) ==
    n + 1024 \in a <=> n + 1 \in a

G1Runs(a) == \A n \in Nat : G1Leap10(a, n)

G1Next(a, n) ==
    /\ G1Leap10(a, n) /\ G1Leap10(a, n + 1) /\ G1Leap10(a, n + 2)
    /\ G1Leap10(a, n + 3) /\ G1Leap10(a, n + 4) /\ G1Leap10(a, n + 5)
    /\ G1Leap10(a, n + 6) /\ G1Leap10(a, n + 7) /\ G1Leap10(a, n + 8)

LEMMA G1Leaps ==
    ASSUME NEW a, G1Runs(a), NEW n \in Nat
    PROVE  G1Leap64(a, n) /\ G1Leap256(a, n) /\ G1Leap1024(a, n)
<1>10. \A m \in Nat : G1Next(a, m)
  BY DEF G1Runs, G1Next
<1>16. \A m \in Nat : G1Leap16(a, m)
  <2> TAKE m \in Nat
  <2>1. G1Next(a, m)
    BY <1>10
  <2> QED BY <2>1 DEF G1Next, G1Leap10, G1Leap16, \oplus
<1>32. \A m \in Nat : G1Leap32(a, m)
  <2> TAKE m \in Nat
  <2>1. /\ G1Leap16(a, m) /\ G1Leap16(a, m + 3) /\ G1Leap16(a, m + 6)
        /\ G1Leap16(a, m + 7) /\ G1Leap16(a, m + 16)
    BY <1>16
  <2>2. G1Next(a, m)
    BY <1>10
  <2> QED BY <2>1, <2>2 DEF G1Next, G1Leap10, G1Leap16, G1Leap32, \oplus
<1>64. \A m \in Nat : G1Leap64(a, m)
  <2> TAKE m \in Nat
  <2>1. /\ G1Leap32(a, m) /\ G1Leap32(a, m + 1) /\ G1Leap32(a, m + 2)
        /\ G1Leap32(a, m + 4) /\ G1Leap32(a, m + 6) /\ G1Leap32(a, m + 8)
        /\ G1Leap32(a, m + 9) /\ G1Leap32(a, m + 32)
    BY <1>32
  <2>2. G1Next(a, m)
    BY <1>10
  <2> QED BY <2>1, <2>2 DEF G1Next, G1Leap10, G1Leap32, G1Leap64, \oplus
<1>128. \A m \in Nat : G1Leap128(a, m)
  <2> TAKE m \in Nat
  <2>1. /\ G1Leap64(a, m + 2) /\ G1Leap64(a, m + 3) /\ G1Leap64(a, m + 4)
        /\ G1Leap64(a, m + 5) /\ G1Leap64(a, m + 6) /\ G1Leap64(a, m + 7)
        /\ G1Leap64(a, m + 64)
    BY <1>64
  <2>2. G1Next(a, m)
    BY <1>10
  <2> QED BY <2>1, <2>2 DEF G1Next, G1Leap10, G1Leap64, G1Leap128, \oplus
<1>256. \A m \in Nat : G1Leap256(a, m)
  <2> TAKE m \in Nat
  <2>1. /\ G1Leap128(a, m) /\ G1Leap128(a, m + 1) /\ G1Leap128(a, m + 2)
        /\ G1Leap128(a, m + 6) /\ G1Leap128(a, m + 7) /\ G1Leap128(a, m + 9)
        /\ G1Leap128(a, m + 128)
    BY <1>128
  <2>2. G1Next(a, m)
    BY <1>10
  <2> QED BY <2>1, <2>2 DEF G1Next, G1Leap10, G1Leap128, G1Leap256, \oplus
<1>512. \A m \in Nat : G1Leap512(a, m)
  <2> TAKE m \in Nat
  <2>1. /\ G1Leap256(a, m) /\ G1Leap256(a, m + 1) /\ G1Leap256(a, m + 2)
        /\ G1Leap256(a, m + 5) /\ G1Leap256(a, m + 256)
    BY <1>256
  <2>2. G1Next(a, m)
    BY <1>10
  <2> QED BY <2>1, <2>2 DEF G1Next, G1Leap10, G1Leap256, G1Leap512, \oplus
<1>1024. \A m \in Nat : G1Leap1024(a, m)
  <2> TAKE m \in Nat
  <2>1. /\ G1Leap512(a, m + 2) /\ G1Leap512(a, m + 4) /\ G1Leap512(a, m + 7)
        /\ G1Leap512(a, m + 512)
    BY <1>512
  <2>2. G1Next(a, m)
    BY <1>10
  <2> QED BY <2>1, <2>2 DEF G1Next, G1Leap10, G1Leap512, G1Leap1024, \oplus
<1> QED BY <1>64, <1>256, <1>1024

\* Ten ones are not found again after 33, 93 or 341 bits.
LEMMA G1NotShorter ==
    ASSUME NEW a, G1Runs(a), 0..9 \subseteq a
    PROVE  33 \notin a /\ 93 \notin a /\ 341 \notin a
<1>1. /\ 0 \in a /\ 1 \in a /\ 2 \in a /\ 3 \in a /\ 4 \in a /\ 5 \in a
      /\ 6 \in a /\ 7 \in a /\ 8 \in a /\ 9 \in a
  OBVIOUS
<1>2. /\ 10 \notin a /\ 11 \notin a /\ 12 \notin a /\ 13 \in a /\ 14 \in a
      /\ 15 \in a /\ 16 \notin a /\ 17 \notin a /\ 18 \notin a /\ 19 \in a
  <2>1. /\ G1Leap10(a, 0) /\ G1Leap10(a, 1) /\ G1Leap10(a, 2) /\ G1Leap10(a, 3)
        /\ G1Leap10(a, 4) /\ G1Leap10(a, 5) /\ G1Leap10(a, 6) /\ G1Leap10(a, 7)
        /\ G1Leap10(a, 8) /\ G1Leap10(a, 9)
    BY DEF G1Runs
  <2> QED BY <1>1, <2>1 DEF G1Leap10, \oplus
<1>3. /\ 20 \notin a /\ 21 \notin a /\ 22 \in a /\ 23 \in a /\ 24 \in a
      /\ 25 \notin a /\ 26 \in a /\ 27 \in a /\ 28 \notin a /\ 29 \notin a
  <2>1. /\ G1Leap10(a, 10) /\ G1Leap10(a, 11) /\ G1Leap10(a, 12)
        /\ G1Leap10(a, 13) /\ G1Leap10(a, 14) /\ G1Leap10(a, 15)
        /\ G1Leap10(a, 16) /\ G1Leap10(a, 17) /\ G1Leap10(a, 18)
        /\ G1Leap10(a, 19)
    BY DEF G1Runs
  <2> QED BY <1>1, <1>2, <2>1 DEF G1Leap10, \oplus
<1>4. /\ 30 \in a /\ 31 \notin a /\ 32 \in a /\ 33 \notin a /\ 34 \in a
      /\ 35 \in a /\ 36 \in a
  <2>1. /\ G1Leap10(a, 20) /\ G1Leap10(a, 21) /\ G1Leap10(a, 22)
        /\ G1Leap10(a, 23) /\ G1Leap10(a, 24) /\ G1Leap10(a, 25)
        /\ G1Leap10(a, 26)
    BY DEF G1Runs
  <2> QED BY <1>2, <1>3, <2>1 DEF G1Leap10, \oplus
<1>5. /\ 85 \notin a /\ 86 \in a /\ 87 \in a /\ 90 \notin a /\ 93 \notin a
  <2>1. /\ G1Leap64(a, 21) /\ G1Leap64(a, 22) /\ G1Leap64(a, 23)
        /\ G1Leap64(a, 26) /\ G1Leap64(a, 29)
    BY G1Leaps
  <2> QED BY <1>2, <1>3, <1>4, <2>1 DEF G1Leap64, \oplus
<1>6. G1Leap256(a, 85)
  BY G1Leaps
<1> QED BY <1>2, <1>3, <1>4, <1>5, <1>6 DEF G1Leap256, \oplus

G2Leap10(a, n) ==
    n + 10 \in a <=> (n \in a) \oplus (n + 1 \in a) \oplus
        (n + 2 \in a) \oplus (n + 4 \in a) \oplus (n + 7 \in a) \oplus
        (n + 8 \in a)
G2Leap16(a, n) ==
    n + 16 \in a <=> (n \in a) \oplus (n + 1 \in a) \oplus
        (n + 6 \in a) \oplus (n + 7 \in a) \oplus (n + 8 \in a) \oplus
        (n + 9 \in a)
G2Leap32(a, n) ==
    n + 32 \in a <=> (n \in a) \oplus (n + 2 \in a) \oplus
        (n + 3 \in a) \oplus (n + 5 \in a)
G2Leap64(a, n) ==
    n + 64 \in a <=> (n + 1 \in a) \oplus (n + 2 \in a) \oplus
        (n + 6 \in a) \oplus (n + 7 \in a) \oplus (n + 8 \in a)
G2Leap128(a, n) ==
    n + 128 \in a <=> (n \in a) \oplus (n + 3 \in a) \oplus
        (n + 7 \in a) \oplus (n + 8 \in a)
G2Leap256(a, n) ==
    n + 256 \in a <=> (n \in a) \oplus (n + 1 \in a) \oplus
        (n + 2 \in a) \oplus (n + 4 \in a) \oplus (n + 9 \in a)
G2Leap512(a, n) ==
    n + 512 \in a <=> (n + 5 \in a) \oplus (n + 7 \in a)
G2Leap1024(a, n) ==
    n + 1024 \in a <=> n + 1 \in a

G2Runs(a) == \A n \in Nat : G2Leap10(a, n)

G2Next(a, n) ==
    /\ G2Leap10(a, n) /\ G2Leap10(a, n + 1) /\ G2Leap10(a, n + 2)
    /\ G2Leap10(a, n + 3) /\ G2Leap10(a, n + 4) /\ G2Leap10(a, n + 5)
    /\ G2Leap10(a, n + 6) /\ G2Leap10(a, n + 7) /\ G2Leap10(a, n + 8)

LEMMA G2Leaps ==
    ASSUME NEW a, G2Runs(a), NEW n \in Nat
    PROVE  G2Leap64(a, n) /\ G2Leap256(a, n) /\ G2Leap1024(a, n)
<1>10. \A m \in Nat : G2Next(a, m)
  BY DEF G2Runs, G2Next
<1>16. \A m \in Nat : G2Leap16(a, m)
  <2> TAKE m \in Nat
  <2>1. G2Next(a, m)
    BY <1>10
  <2> QED BY <2>1 DEF G2Next, G2Leap10, G2Leap16, \oplus
<1>32. \A m \in Nat : G2Leap32(a, m)
  <2> TAKE m \in Nat
  <2>1. /\ G2Leap16(a, m) /\ G2Leap16(a, m + 1) /\ G2Leap16(a, m + 6)
        /\ G2Leap16(a, m + 7) /\ G2Leap16(a, m + 8) /\ G2Leap16(a, m + 9)
        /\ G2Leap16(a, m + 16)
    BY <1>16
  <2>2. G2Next(a, m)
    BY <1>10
  <2> QED BY <2>1, <2>2 DEF G2Next, G2Leap10, G2Leap16, G2Leap32, \oplus
<1>64. \A m \in Nat : G2Leap64(a, m)
  <2> TAKE m \in Nat
  <2>1. /\ G2Leap32(a, m) /\ G2Leap32(a, m + 2) /\ G2Leap32(a, m + 3)
        /\ G2Leap32(a, m + 5) /\ G2Leap32(a, m + 32)
    BY <1>32
  <2>2. G2Next(a, m)
    BY <1>10
  <2> QED BY <2>1, <2>2 DEF G2Next, G2Leap10, G2Leap32, G2Leap64, \oplus
<1>128. \A m \in Nat : G2Leap128(a, m)
  <2> TAKE m \in Nat
  <2>1. /\ G2Leap64(a, m + 1) /\ G2Leap64(a, m + 2) /\ G2Leap64(a, m + 6)
        /\ G2Leap64(a, m + 7) /\ G2Leap64(a, m + 8) /\ G2Leap64(a, m + 64)
    BY <1>64
  <2>2. G2Next(a, m)
    BY <1>10
  <2> QED BY <2>1, <2>2 DEF G2Next, G2Leap10, G2Leap64, G2Leap128, \oplus
<1>256. \A m \in Nat : G2Leap256(a, m)
  <2> TAKE m \in Nat
  <2>1. /\ G2Leap128(a, m) /\ G2Leap128(a, m + 3) /\ G2Leap128(a, m + 7)
        /\ G2Leap128(a, m + 8) /\ G2Leap128(a, m + 128)
    BY <1>128
  <2>2. G2Next(a, m)
    BY <1>10
  <2> QED BY <2>1, <2>2 DEF G2Next, G2Leap10, G2Leap128, G2Leap256, \oplus
<1>512. \A m \in Nat : G2Leap512(a, m)
  <2> TAKE m \in Nat
  <2>1. /\ G2Leap256(a, m) /\ G2Leap256(a, m + 1) /\ G2Leap256(a, m + 2)
        /\ G2Leap256(a, m + 4) /\ G2Leap256(a, m + 9) /\ G2Leap256(a, m + 256)
    BY <1>256
  <2>2. G2Next(a, m)
    BY <1>10
  <2> QED BY <2>1, <2>2 DEF G2Next, G2Leap10, G2Leap256, G2Leap512, \oplus
<1>1024. \A m \in Nat : G2Leap1024(a, m)
  <2> TAKE m \in Nat
  <2>1. /\ G2Leap512(a, m + 5) /\ G2Leap512(a, m + 7) /\ G2Leap512(a, m + 512)
    BY <1>512
  <2>2. G2Next(a, m)
    BY <1>10
  <2> QED BY <2>1, <2>2 DEF G2Next, G2Leap10, G2Leap512, G2Leap1024, \oplus
<1> QED BY <1>64, <1>256, <1>1024

\* Ten ones are not found again after 33, 93 or 341 bits.
LEMMA G2NotShorter ==
    ASSUME NEW a, G2Runs(a), 0..9 \subseteq a
    PROVE  33 \notin a /\ 93 \notin a /\ 343 \notin a
<1>1. /\ 0 \in a /\ 1 \in a /\ 2 \in a /\ 3 \in a /\ 4 \in a /\ 5 \in a
      /\ 6 \in a /\ 7 \in a /\ 8 \in a /\ 9 \in a
  OBVIOUS
<1>2. /\ 10 \notin a /\ 11 \notin a /\ 12 \in a /\ 13 \notin a /\ 14 \in a
      /\ 15 \in a /\ 16 \notin a /\ 17 \in a /\ 18 \notin a /\ 19 \notin a
  <2>1. /\ G2Leap10(a, 0) /\ G2Leap10(a, 1) /\ G2Leap10(a, 2) /\ G2Leap10(a, 3)
        /\ G2Leap10(a, 4) /\ G2Leap10(a, 5) /\ G2Leap10(a, 6) /\ G2Leap10(a, 7)
        /\ G2Leap10(a, 8) /\ G2Leap10(a, 9)
    BY DEF G2Runs
  <2> QED BY <1>1, <2>1 DEF G2Leap10, \oplus
<1>3. /\ 20 \in a /\ 21 \notin a /\ 22 \in a /\ 23 \notin a /\ 24 \in a
      /\ 25 \in a /\ 26 \in a /\ 27 \in a /\ 28 \notin a /\ 29 \in a
  <2>1. /\ G2Leap10(a, 10) /\ G2Leap10(a, 11) /\ G2Leap10(a, 12)
        /\ G2Leap10(a, 13) /\ G2Leap10(a, 14) /\ G2Leap10(a, 15)
        /\ G2Leap10(a, 16) /\ G2Leap10(a, 17) /\ G2Leap10(a, 18)
        /\ G2Leap10(a, 19)
    BY DEF G2Runs
  <2> QED BY <1>1, <1>2, <2>1 DEF G2Leap10, \oplus
<1>4. /\ 30 \notin a /\ 31 \in a /\ 32 \notin a /\ 33 \notin a /\ 34 \notin a
      /\ 35 \notin a /\ 36 \notin a /\ 37 \in a /\ 38 \in a /\ 39 \in a
  <2>1. /\ G2Leap10(a, 20) /\ G2Leap10(a, 21) /\ G2Leap10(a, 22)
        /\ G2Leap10(a, 23) /\ G2Leap10(a, 24) /\ G2Leap10(a, 25)
        /\ G2Leap10(a, 26) /\ G2Leap10(a, 27) /\ G2Leap10(a, 28)
        /\ G2Leap10(a, 29)
    BY DEF G2Runs
  <2> QED BY <1>2, <1>3, <2>1 DEF G2Leap10, \oplus
<1>5. 40 \in a
  <2>1. G2Leap10(a, 30)
    BY DEF G2Runs
  <2> QED BY <1>3, <1>4, <2>1 DEF G2Leap10, \oplus
<1>6. /\ 87 \notin a /\ 88 \in a /\ 89 \in a /\ 91 \in a /\ 93 \notin a
      /\ 96 \in a
  <2>1. /\ G2Leap64(a, 23) /\ G2Leap64(a, 24) /\ G2Leap64(a, 25)
        /\ G2Leap64(a, 27) /\ G2Leap64(a, 29) /\ G2Leap64(a, 32)
    BY G2Leaps
  <2> QED BY <1>2, <1>3, <1>4, <1>5, <2>1 DEF G2Leap64, \oplus
<1>7. G2Leap256(a, 87)
  BY G2Leaps
<1> QED BY <1>2, <1>3, <1>4, <1>5, <1>6, <1>7 DEF G2Leap256, \oplus

\* What repeats itself after m bits.
Period(a, m) == \A n \in Nat : n + m \in a <=> n \in a

LEMMA PeriodsAdd ==
    ASSUME NEW a, NEW m \in Nat, NEW k \in Nat, Period(a, m)
    PROVE  Period(a, m + k) <=> Period(a, k)
<1>1. ASSUME NEW n \in Nat PROVE n + (m + k) \in a <=> n + k \in a
  <2>1. n + k \in Nat /\ (n + k) + m = n + (m + k)
    OBVIOUS
  <2> QED BY <2>1 DEF Period
<1> QED BY <1>1 DEF Period

LEMMA PeriodMultiples ==
    ASSUME NEW a, NEW m \in Nat, NEW k \in Nat, Period(a, m)
    PROVE  Period(a, k * m)
<1> DEFINE S == {j \in Nat : Period(a, j * m)}
<1>1. 0 \in S
  <2>1. 0 * m = 0
    OBVIOUS
  <2>2. Period(a, 0)
    BY DEF Period
  <2> QED BY <2>1, <2>2
<1>2. ASSUME NEW j \in Nat, j \in S PROVE j + 1 \in S
  <2>1. j * m \in Nat /\ (j + 1) * m = m + j * m
    BY Times, Distributed
  <2>2. Period(a, m + j * m)
    BY <1>2, <2>1, PeriodsAdd
  <2> QED BY <2>1, <2>2
<1>3. Nat \subseteq S
  <2> HIDE DEF S
  <2> QED BY <1>1, <1>2, ProfileProofs!Induction
<1> QED BY <1>3

LEMMA PeriodRest ==
    ASSUME NEW a, NEW p \in Nat, NEW m \in Nat, m > 0, Period(a, p), Period(a, m)
    PROVE  Period(a, p % m)
<1>1. p \div m \in Nat /\ p % m \in Nat /\ p = m * (p \div m) + (p % m)
  BY Division
<1>2. m * (p \div m) \in Nat /\ m * (p \div m) = (p \div m) * m
  BY <1>1, Times
<1>3. Period(a, m * (p \div m))
  BY <1>1, <1>2, PeriodMultiples
<1> QED BY <1>1, <1>2, <1>3, PeriodsAdd

Divides(m) == \E k \in Nat : k * m \in {33, 93, 341}

\* 1023 = 3 * 11 * 31.
LEMMA Divisors ==
    ASSUME NEW m \in Nat, NEW q \in Nat, q * m = 1023, q > 1
    PROVE  Divides(m)
<1> SUFFICES \E k \in Nat : k * m \in {33, 93, 341}
  BY DEF Divides
<1>1. m > 0 /\ (q <= 31 \/ m <= 33)
  <2>1. CASE q >= 32 /\ m >= 32
    <3>1. 32 * 32 <= q * 32 /\ 32 * q <= m * q
      BY <2>1, TimesMonotone
    <3> QED BY <3>1, Times
  <2>2. m # 0
    BY Times
  <2> QED BY <2>1, <2>2
<1>2. CASE q <= 31
  <2>1. q \in {3, 11, 31}
    BY <1>2
  <2> QED BY <2>1
<1>3. CASE m <= 33
  <2>1. m \in {1, 3, 11, 31, 33}
    BY <1>1, <1>3
  <2>2. 33 * 1 = 33 /\ 11 * 3 = 33 /\ 3 * 11 = 33 /\ 3 * 31 = 93 /\ 1 * 33 = 33
    OBVIOUS
  <2> QED BY <2>1, <2>2
<1> QED BY <1>1, <1>2, <1>3

LeastPeriod(a, p, l) ==
    /\ l \in Nat /\ l > 0 /\ l < p /\ Period(a, l)
    /\ \A k \in 1..(p - 1) : Period(a, k) => l <= k

LEMMA LeastPeriodExists ==
    ASSUME NEW a, NEW p \in Nat, NEW m \in 1..(p - 1), Period(a, m)
    PROVE  \E l : LeastPeriod(a, p, l)
<1> DEFINE S == {k \in 1..(p - 1) : Period(a, k)}
<1>1. S \in SUBSET Nat /\ m \in S
  OBVIOUS
<1>2. Registry!Min(S) \in S /\ \A k \in S : Registry!Min(S) <= k
  <2> HIDE DEF S
  <2> QED BY <1>1, LeastExists
<1>3. PICK l \in S : \A k \in S : l <= k
  <2> HIDE DEF S
  <2> QED BY <1>2
<1>4. LeastPeriod(a, p, l)
  BY <1>3 DEF LeastPeriod
<1> QED BY <1>4

\* A shorter period would divide the long one.
LEMMA ShorterPeriods ==
    ASSUME NEW a, Period(a, Code!CHIPS), NEW m \in 1..(Code!CHIPS - 1), Period(a, m)
    PROVE  Period(a, 33) \/ Period(a, 93) \/ Period(a, 341)
<1>0. Code!CHIPS \in Nat
  BY DEF Code!CHIPS
<1>1. PICK l : LeastPeriod(a, Code!CHIPS, l)
  BY <1>0, LeastPeriodExists
<1>2. l \in Nat /\ l > 0 /\ l < Code!CHIPS /\ Period(a, l)
  BY <1>1 DEF LeastPeriod
<1>3. \A k \in 1..(Code!CHIPS - 1) : Period(a, k) => l <= k
  BY <1>1 DEF LeastPeriod
<1> DEFINE q == Code!CHIPS \div l
           r == Code!CHIPS % l
<1>4. q \in Nat /\ r \in Nat /\ r < l /\ Code!CHIPS = l * q + r
  BY <1>0, <1>2, Division
<1>5. Period(a, r)
  BY <1>0, <1>2, PeriodRest
<1> HIDE DEF q, r
<1>6. r = 0
  <2>1. ASSUME r # 0 PROVE FALSE
    <3>1. r \in 1..(Code!CHIPS - 1)
      BY <1>0, <1>2, <1>4, <2>1
    <3>2. l <= r
      BY <1>3, <1>5, <3>1
    <3> QED BY <1>2, <1>4, <3>2
  <2> QED BY <2>1
<1>7. q * l = 1023
  <2>1. q * l = l * q /\ l * q \in Nat
    BY <1>2, <1>4, Times
  <2> QED BY <1>4, <1>6, <2>1 DEF Code!CHIPS
<1>8. q > 1
  <2>1. q # 0 /\ q # 1
    BY <1>2, <1>4, <1>6 DEF Code!CHIPS
  <2> QED BY <1>4, <2>1
<1>9. PICK k \in Nat : k * l \in {33, 93, 341}
  <2>1. Divides(l)
    BY <1>2, <1>4, <1>7, <1>8, Divisors
  <2> QED BY <2>1 DEF Divides
<1>10. Period(a, k * l)
  BY <1>2, PeriodMultiples
<1> QED BY <1>9, <1>10

\* Where L leads from x, step by step.
Orbit(X, L, x, f) ==
    f \in [Nat -> X] /\ f[0] = x /\ \A n \in Nat : f[n + 1] = L[f[n]]

BeginsOrbit(X, L, x, n, h) ==
    /\ h \in [0..n -> X] /\ h[0] = x
    /\ \A k \in 0..n : k # n => h[k + 1] = L[h[k]]

LEMMA OrbitBegins ==
    ASSUME NEW X, NEW L \in [X -> X], NEW x \in X, NEW n \in Nat
    PROVE  \E h : BeginsOrbit(X, L, x, n, h)
<1> DEFINE S == {m \in Nat : \E h : BeginsOrbit(X, L, x, m, h)}
<1>1. 0 \in S
  <2> DEFINE h == [k \in 0..0 |-> x]
  <2>1. BeginsOrbit(X, L, x, 0, h)
    BY DEF BeginsOrbit
  <2> QED BY <2>1
<1>2. ASSUME NEW m \in Nat, m \in S PROVE m + 1 \in S
  <2>1. PICK h : BeginsOrbit(X, L, x, m, h)
    BY <1>2
  <2> DEFINE g == [k \in 0..(m + 1) |-> IF k = m + 1 THEN L[h[m]] ELSE h[k]]
  <2>2. h \in [0..m -> X] /\ h[m] \in X
    BY <2>1 DEF BeginsOrbit
  <2>3. g \in [0..(m + 1) -> X]
    BY <2>2
  <2>4. g[0] = x
    BY <2>1 DEF BeginsOrbit
  <2>5. ASSUME NEW k \in 0..(m + 1), k # m + 1 PROVE g[k + 1] = L[g[k]]
    <3>1. k \in 0..m /\ k + 1 \in 0..(m + 1) /\ g[k] = h[k]
      BY <2>5
    <3>2. CASE k = m
      BY <3>1, <3>2
    <3>3. CASE k # m
      <4>1. g[k + 1] = h[k + 1]
        BY <3>1, <3>3
      <4> QED BY <2>1, <3>1, <3>3, <4>1 DEF BeginsOrbit
    <3> QED BY <3>2, <3>3
  <2> HIDE DEF g
  <2>6. BeginsOrbit(X, L, x, m + 1, g)
    BY <2>3, <2>4, <2>5 DEF BeginsOrbit
  <2> QED BY <2>6
<1>3. Nat \subseteq S
  <2> HIDE DEF S
  <2> QED BY <1>1, <1>2, ProfileProofs!Induction
<1> QED BY <1>3

LEMMA OrbitExists ==
    ASSUME NEW X, NEW L \in [X -> X], NEW x \in X
    PROVE  \E f : Orbit(X, L, x, f)
<1> DEFINE B(n) == CHOOSE h : BeginsOrbit(X, L, x, n, h)
           f == [n \in Nat |-> B(n)[n]]
<1>1. \A n \in Nat : BeginsOrbit(X, L, x, n, B(n))
  BY OrbitBegins
<1> HIDE DEF B
<1>2. ASSUME NEW n \in Nat PROVE B(n + 1)[n] = B(n)[n]
  <2> DEFINE S == {k \in Nat : k <= n => B(n + 1)[k] = B(n)[k]}
  <2>1. BeginsOrbit(X, L, x, n, B(n)) /\ BeginsOrbit(X, L, x, n + 1, B(n + 1))
    BY <1>1
  <2>2. 0 \in S
    BY <2>1 DEF BeginsOrbit
  <2>3. ASSUME NEW k \in Nat, k \in S PROVE k + 1 \in S
    <3>1. CASE k + 1 <= n
      <4>1. k \in 0..n /\ k # n /\ k \in 0..(n + 1) /\ k # n + 1
        BY <3>1
      <4>2. B(n)[k + 1] = L[B(n)[k]] /\ B(n + 1)[k + 1] = L[B(n + 1)[k]]
        BY <2>1, <4>1 DEF BeginsOrbit
      <4>3. B(n + 1)[k] = B(n)[k]
        BY <2>3, <4>1
      <4> QED BY <4>2, <4>3
    <3>2. CASE ~(k + 1 <= n)
      BY <3>2
    <3> QED BY <3>1, <3>2
  <2>4. Nat \subseteq S
    <3> HIDE DEF S
    <3> QED BY <2>2, <2>3, ProfileProofs!Induction
  <2> QED BY <2>4
<1>3. ASSUME NEW n \in Nat PROVE B(n)[n] \in X /\ B(n + 1)[n + 1] = L[B(n)[n]]
  <2>1. BeginsOrbit(X, L, x, n, B(n)) /\ BeginsOrbit(X, L, x, n + 1, B(n + 1))
    BY <1>1
  <2>2. n \in 0..n /\ n \in 0..(n + 1) /\ n # n + 1
    OBVIOUS
  <2>3. B(n + 1)[n + 1] = L[B(n + 1)[n]] /\ B(n)[n] \in X
    BY <2>1, <2>2 DEF BeginsOrbit
  <2> QED BY <1>2, <2>3
<1>4. B(0)[0] = x
  <2>1. BeginsOrbit(X, L, x, 0, B(0))
    BY <1>1
  <2> QED BY <2>1 DEF BeginsOrbit
<1>5. Orbit(X, L, x, f)
  BY <1>3, <1>4 DEF Orbit
<1> QED BY <1>5

\* From the same value on, the same values.
LEMMA OrbitRepeats ==
    ASSUME NEW X, NEW L, NEW x, NEW f, Orbit(X, L, x, f),
           NEW e \in Nat, NEW j \in Nat, f[e] = f[j], NEW k \in Nat
    PROVE  f[e + k] = f[j + k]
<1> DEFINE S == {n \in Nat : f[e + n] = f[j + n]}
<1>1. 0 \in S
  OBVIOUS
<1>2. ASSUME NEW n \in Nat, n \in S PROVE n + 1 \in S
  <2>1. e + n \in Nat /\ j + n \in Nat
    OBVIOUS
  <2>2. f[(e + n) + 1] = L[f[e + n]] /\ f[(j + n) + 1] = L[f[j + n]]
    BY <2>1 DEF Orbit
  <2>3. (e + n) + 1 = e + (n + 1) /\ (j + n) + 1 = j + (n + 1) /\ f[e + n] = f[j + n]
    BY <1>2
  <2> QED BY <2>2, <2>3
<1>3. Nat \subseteq S
  <2> HIDE DEF S
  <2> QED BY <1>1, <1>2, ProfileProofs!Induction
<1> QED BY <1>3

LEMMA OrbitTurns ==
    ASSUME NEW X, NEW L, NEW x, NEW f, Orbit(X, L, x, f), NEW p \in Nat, f[p] = x,
           \A m \in 1..(p - 1) : f[m] # x
    PROVE  \A e, j \in 0..(p - 1) : f[e] = f[j] => e = j
<1>1. ASSUME NEW e \in Nat, NEW j \in Nat, e < j, j < p PROVE f[e] # f[j]
  <2> DEFINE d == p - j
  <2>1. d \in Nat /\ e + d \in 1..(p - 1) /\ j + d = p
    BY <1>1
  <2> HIDE DEF d
  <2>2. f[e] = f[j] => f[e + d] = f[j + d]
    BY <2>1, OrbitRepeats
  <2> QED BY <2>1, <2>2
<1>2. ASSUME NEW e \in 0..(p - 1), NEW j \in 0..(p - 1), f[e] = f[j] PROVE e = j
  <2>1. e \in Nat /\ j \in Nat /\ e < p /\ j < p
    OBVIOUS
  <2>2. ~(e < j) /\ ~(j < e)
    BY <1>1, <1>2, <2>1
  <2> QED BY <2>1, <2>2
<1> QED BY <1>2

States == [Code!Stages -> {0, 1}]
Zeros == [k \in Code!Stages |-> 0]

\* What a register is fed with, and what it holds after a shift.
Tapped1(g) == (g[3] + g[10]) % 2
Tapped2(g) == (g[2] + g[3] + g[6] + g[8] + g[9] + g[10]) % 2
Next1 == [g \in States |-> Code!Shifted(g, Tapped1(g))]
Next2 == [g \in States |-> Code!Shifted(g, Tapped2(g))]

\* The ones that leave a register, and those still in it.
Out(f) == {n \in Nat : f[n][10] = 1}
Delays(f) ==
    /\ f \in [Nat -> States]
    /\ \A n \in Nat : \A k \in 1..9 : f[n + 1][k + 1] = f[n][k]

\* A register that runs through all its values but zeros.
FullCycle(f) ==
    /\ f \in [Nat -> States] /\ f[0] = Code!Ones /\ f[Code!CHIPS] = Code!Ones
    /\ \A e, j \in 0..(Code!CHIPS - 1) : f[e] = f[j] => e = j
    /\ \A n \in 0..(Code!CHIPS - 1) : f[n] # Zeros

LEMMA StatesAre ==
    /\ Code!Ones \in States /\ Zeros \in States
    /\ \A k \in 1..10 : Code!Ones[k] = 1 /\ Zeros[k] = 0
    /\ \A g, h \in States : (\A k \in 1..10 : g[k] = h[k]) => g = h
    /\ \A g \in States : \A k \in 1..10 : g[k] \in {0, 1}
BY DEF States, Zeros, Code!Ones, Code!Stages

LEMMA ShiftedIs ==
    ASSUME NEW g \in States, NEW b \in {0, 1}
    PROVE  /\ Code!Shifted(g, b) \in States /\ Code!Shifted(g, b)[1] = b
           /\ \A k \in 1..9 : Code!Shifted(g, b)[k + 1] = g[k]
BY DEF States, Code!Stages, Code!Shifted

LEMMA NextIs ==
    /\ Next1 \in [States -> States] /\ Next2 \in [States -> States]
    /\ \A g \in States :
          /\ Next1[g][1] = Tapped1(g) /\ Next2[g][1] = Tapped2(g)
          /\ \A k \in 1..9 : Next1[g][k + 1] = g[k] /\ Next2[g][k + 1] = g[k]
<1>1. ASSUME NEW g \in States PROVE Tapped1(g) \in {0, 1} /\ Tapped2(g) \in {0, 1}
  <2>1. \A k \in {2, 3, 6, 8, 9, 10} : g[k] \in {0, 1}
    BY StatesAre
  <2> QED BY <2>1 DEF Tapped1, Tapped2
<1>2. \A g \in States : /\ Code!Shifted(g, Tapped1(g)) \in States
                        /\ Code!Shifted(g, Tapped2(g)) \in States
  BY <1>1, ShiftedIs
<1>3. /\ Next1 \in [States -> States] /\ Next2 \in [States -> States]
      /\ \A g \in States : /\ Next1[g] = Code!Shifted(g, Tapped1(g))
                           /\ Next2[g] = Code!Shifted(g, Tapped2(g))
  BY <1>2 DEF Next1, Next2
<1> QED BY <1>1, <1>3, ShiftedIs

LEMMA StagesDelay ==
    ASSUME NEW f, Delays(f), NEW n \in Nat
    PROVE  \A e \in 1..10 : f[n][e] = 1 <=> n + (10 - e) \in Out(f)
<1> DEFINE S == {d \in Nat : d <= 9 =>
                     \A m \in Nat : f[m][10 - d] = 1 <=> m + d \in Out(f)}
<1>1. 0 \in S
  BY DEF Out
<1>2. ASSUME NEW d \in Nat, d \in S PROVE d + 1 \in S
  <2> SUFFICES ASSUME d + 1 <= 9, NEW m \in Nat
               PROVE  f[m][10 - (d + 1)] = 1 <=> m + (d + 1) \in Out(f)
    OBVIOUS
  <2>1. 10 - (d + 1) \in 1..9 /\ (10 - (d + 1)) + 1 = 10 - d
    OBVIOUS
  <2>2. f[m + 1][10 - d] = f[m][10 - (d + 1)]
    BY <2>1 DEF Delays
  <2>3. m + 1 \in Nat /\ (m + 1) + d = m + (d + 1)
    OBVIOUS
  <2>4. f[m + 1][10 - d] = 1 <=> (m + 1) + d \in Out(f)
    BY <1>2, <2>3
  <2> QED BY <2>2, <2>3, <2>4
<1>3. Nat \subseteq S
  <2> HIDE DEF S
  <2> QED BY <1>1, <1>2, ProfileProofs!Induction
<1> SUFFICES ASSUME NEW e \in 1..10
             PROVE  f[n][e] = 1 <=> n + (10 - e) \in Out(f)
  OBVIOUS
<1>4. 10 - e \in Nat /\ 10 - e <= 9 /\ 10 - (10 - e) = e
  OBVIOUS
<1>5. 10 - e \in S
  BY <1>3, <1>4
<1> QED BY <1>4, <1>5

LEMMA OutIs ==
    ASSUME NEW f, Delays(f), f[0] = Code!Ones
    PROVE  0..9 \subseteq Out(f)
<1> SUFFICES ASSUME NEW k \in 0..9 PROVE k \in Out(f)
  OBVIOUS
<1>1. 10 - k \in 1..10 /\ 0 + (10 - (10 - k)) = k /\ 0 \in Nat
  OBVIOUS
<1>2. f[0][10 - k] = 1 <=> 0 + (10 - (10 - k)) \in Out(f)
  BY <1>1, StagesDelay
<1> QED BY <1>1, <1>2, StatesAre

LEMMA CycleIsFull ==
    ASSUME NEW L, NEW f, Orbit(States, L, Code!Ones, f), L[Zeros] = Zeros,
           Delays(f), Period(Out(f), Code!CHIPS),
           33 \notin Out(f), 93 \notin Out(f),
           NEW k \in 0..9, 341 + k \notin Out(f)
    PROVE  FullCycle(f)
<1> DEFINE a == Out(f)
<1>0. f \in [Nat -> States] /\ f[0] = Code!Ones
  BY DEF Orbit
<1>1. \A e \in 0..9 : e \in a
  BY <1>0, OutIs
<1>2. f[1023] = Code!Ones
  <2>0. Period(Out(f), 1023)
    BY DEF Code!CHIPS
  <2>1. ASSUME NEW e \in 1..10 PROVE f[1023][e] = 1
    <3>1. f[1023][e] = 1 <=> 1023 + (10 - e) \in Out(f)
      BY StagesDelay
    <3>2. 10 - e \in Nat /\ 1023 + (10 - e) = (10 - e) + 1023 /\ 10 - e \in 0..9
      OBVIOUS
    <3>3. (10 - e) + 1023 \in Out(f) <=> 10 - e \in Out(f)
      BY <2>0, <3>2 DEF Period
    <3> QED BY <1>1, <3>1, <3>2, <3>3
  <2>2. f[1023] \in States
    BY <1>0
  <2> QED BY <2>1, <2>2, StatesAre
<1>3. ASSUME NEW m \in 1..(Code!CHIPS - 1), f[m] = Code!Ones PROVE FALSE
  <2>0. m \in Nat
    BY DEF Code!CHIPS
  <2>1. ASSUME NEW n \in Nat PROVE n + m \in a <=> n \in a
    <3>1. f[0 + n] = f[m + n]
      BY <1>0, <1>3, <2>0, OrbitRepeats
    <3>2. 0 + n = n /\ m + n = n + m /\ n + m \in Nat
      BY <2>0
    <3> QED BY <3>1, <3>2 DEF Out
  <2>2. Period(a, m)
    BY <2>1 DEF Period
  <2>3. Period(a, 33) \/ Period(a, 93) \/ Period(a, 341)
    <3> HIDE DEF a
    <3>1. Period(a, Code!CHIPS)
      BY DEF a
    <3> QED BY <2>2, <3>1, ShorterPeriods
  <2>4. /\ Period(a, 33) => (0 + 33 \in a <=> 0 \in a)
        /\ Period(a, 93) => (0 + 93 \in a <=> 0 \in a)
        /\ Period(a, 341) => (k + 341 \in a <=> k \in a)
    BY DEF Period
  <2>5. 0 \in a /\ k \in a /\ 0 + 33 = 33 /\ 0 + 93 = 93 /\ k + 341 = 341 + k
    BY <1>1
  <2> QED BY <2>3, <2>4, <2>5
<1>4. /\ Code!CHIPS \in Nat /\ Code!CHIPS > 0 /\ f[Code!CHIPS] = Code!Ones
      /\ \A m \in 1..(Code!CHIPS - 1) : f[m] # Code!Ones
  BY <1>2, <1>3 DEF Code!CHIPS
<1>5. \A e, j \in 0..(Code!CHIPS - 1) : f[e] = f[j] => e = j
  BY <1>4, OrbitTurns
<1>6. ASSUME NEW n \in 0..(Code!CHIPS - 1), f[n] = Zeros PROVE FALSE
  <2>1. n \in Nat /\ n < Code!CHIPS /\ f[n + 1] = Zeros
    BY <1>4, <1>6 DEF Orbit
  <2>2. CASE n + 1 = Code!CHIPS
    <3>1. Code!Ones = Zeros
      BY <1>4, <2>1, <2>2
    <3> QED BY <3>1, StatesAre
  <2>3. CASE n + 1 # Code!CHIPS
    <3>1. n + 1 \in 0..(Code!CHIPS - 1) /\ n # n + 1
      BY <1>4, <2>1, <2>3
    <3>2. f[n] = f[n + 1]
      BY <1>6, <2>1
    <3> QED BY <1>5, <3>1, <3>2
  <2> QED BY <2>2, <2>3
<1>7. \A n \in 0..(Code!CHIPS - 1) : f[n] # Zeros
  BY <1>6
<1> QED BY <1>0, <1>4, <1>5, <1>7 DEF FullCycle

\* What feeds a register, as a parity.
LEMMA Odd1 ==
    ASSUME NEW g \in States
    PROVE  Tapped1(g) = 1 <=> (g[10] = 1) \oplus (g[3] = 1)
<1>1. g[3] \in {0, 1} /\ g[10] \in {0, 1}
  BY StatesAre
<1> QED BY <1>1 DEF Tapped1, \oplus

LEMMA Odd2 ==
    ASSUME NEW g \in States
    PROVE  Tapped2(g) = 1 <=> (g[10] = 1) \oplus (g[9] = 1) \oplus (g[8] = 1)
                                  \oplus (g[6] = 1) \oplus (g[3] = 1) \oplus (g[2] = 1)
<1>1. /\ g[2] \in {0, 1} /\ g[3] \in {0, 1} /\ g[6] \in {0, 1}
      /\ g[8] \in {0, 1} /\ g[9] \in {0, 1} /\ g[10] \in {0, 1}
  BY StatesAre
<1> QED BY <1>1 DEF Tapped2, \oplus

LEMMA G1Turns == ASSUME NEW a, G1Runs(a) PROVE Period(a, Code!CHIPS)
<1>1. \A n \in Nat : G1Leap1024(a, n)
  BY G1Leaps
<1>2. 1023 \in a <=> 0 \in a
  <2>1. /\ G1Leap1024(a, 6) /\ G1Leap1024(a, 9)
    BY <1>1
  <2>2. G1Leap10(a, 0) /\ G1Leap10(a, 1023)
    BY DEF G1Runs
  <2> QED BY <2>1, <2>2 DEF G1Leap10, G1Leap1024, \oplus
<1>3. ASSUME NEW n \in Nat, n # 0 PROVE n + 1023 \in a <=> n \in a
  <2>1. n - 1 \in Nat /\ (n - 1) + 1024 = n + 1023 /\ (n - 1) + 1 = n
    BY <1>3
  <2>2. G1Leap1024(a, n - 1)
    BY <1>1, <2>1
  <2> QED BY <2>1, <2>2 DEF G1Leap1024
<1>4. \A n \in Nat : n + 1023 \in a <=> n \in a
  <2>1. 0 + 1023 = 1023
    OBVIOUS
  <2> QED BY <1>2, <1>3, <2>1
<1> QED BY <1>4 DEF Period, Code!CHIPS

LEMMA G1IsFull ==
    ASSUME NEW f, Orbit(States, Next1, Code!Ones, f)
    PROVE  FullCycle(f)
<1> DEFINE a == Out(f)
<1>1. f \in [Nat -> States] /\ f[0] = Code!Ones
  BY DEF Orbit
<1>2. ASSUME NEW n \in Nat
      PROVE  /\ f[n] \in States /\ f[n + 1][1] = Tapped1(f[n])
             /\ \A e \in 1..9 : f[n + 1][e + 1] = f[n][e]
  <2>1. f[n] \in States /\ f[n + 1] = Next1[f[n]]
    BY <1>1 DEF Orbit
  <2> QED BY <2>1, NextIs
<1>3. Delays(f)
  BY <1>1, <1>2 DEF Delays
<1>4. 0..9 \subseteq a
  BY <1>1, <1>3, OutIs
<1>5. ASSUME NEW n \in Nat PROVE G1Leap10(a, n)
  <2>1. \A e \in 1..10 : f[n][e] = 1 <=> n + (10 - e) \in a
    BY <1>3, StagesDelay
  <2>2. f[n + 1][1] = 1 <=> (n + 1) + (10 - 1) \in a
    BY <1>3, StagesDelay
  <2>3. (n + 1) + (10 - 1) = n + 10
    OBVIOUS
  <2> HIDE DEF a
  <2>4. /\ (f[n][10] = 1 <=> n \in a)
        /\ (f[n][3] = 1 <=> n + 7 \in a)
    BY <2>1
  <2>5. Tapped1(f[n]) = 1 <=>
            (f[n][10] = 1) \oplus (f[n][3] = 1)
    BY <1>2, Odd1
  <2> QED BY <1>2, <2>2, <2>3, <2>4, <2>5 DEF G1Leap10
<1>6. G1Runs(a)
  BY <1>5 DEF G1Runs
<1>7. Period(a, Code!CHIPS) /\ 33 \notin a /\ 93 \notin a /\ 341 \notin a
  <2> HIDE DEF a
  <2> QED BY <1>4, <1>6, G1Turns, G1NotShorter
<1>8. Next1[Zeros] = Zeros
  <2>1. Tapped1(Zeros) = 0
    BY StatesAre DEF Tapped1
  <2>2. Next1[Zeros] \in States /\ \A e \in 1..10 : Next1[Zeros][e] = 0
    <3>1. \A e \in 1..9 : Next1[Zeros][e + 1] = 0
      BY StatesAre, NextIs
    <3>2. Next1[Zeros][1] = 0 /\ Next1[Zeros] \in States
      BY <2>1, StatesAre, NextIs
    <3>3. \A e \in 1..10 : e = 1 \/ (e - 1 \in 1..9 /\ (e - 1) + 1 = e)
      OBVIOUS
    <3> QED BY <3>1, <3>2, <3>3
  <2> QED BY <2>2, StatesAre
<1>9. 0 \in 0..9 /\ 341 + 0 = 341
  OBVIOUS
<1> QED BY <1>3, <1>7, <1>8, <1>9, CycleIsFull

LEMMA G2Turns == ASSUME NEW a, G2Runs(a) PROVE Period(a, Code!CHIPS)
<1>1. \A n \in Nat : G2Leap1024(a, n)
  BY G2Leaps
<1>2. 1023 \in a <=> 0 \in a
  <2>1. /\ G2Leap1024(a, 0) /\ G2Leap1024(a, 1) /\ G2Leap1024(a, 3)
        /\ G2Leap1024(a, 6) /\ G2Leap1024(a, 7) /\ G2Leap1024(a, 9)
    BY <1>1
  <2>2. G2Leap10(a, 0) /\ G2Leap10(a, 1023)
    BY DEF G2Runs
  <2> QED BY <2>1, <2>2 DEF G2Leap10, G2Leap1024, \oplus
<1>3. ASSUME NEW n \in Nat, n # 0 PROVE n + 1023 \in a <=> n \in a
  <2>1. n - 1 \in Nat /\ (n - 1) + 1024 = n + 1023 /\ (n - 1) + 1 = n
    BY <1>3
  <2>2. G2Leap1024(a, n - 1)
    BY <1>1, <2>1
  <2> QED BY <2>1, <2>2 DEF G2Leap1024
<1>4. \A n \in Nat : n + 1023 \in a <=> n \in a
  <2>1. 0 + 1023 = 1023
    OBVIOUS
  <2> QED BY <1>2, <1>3, <2>1
<1> QED BY <1>4 DEF Period, Code!CHIPS

LEMMA G2IsFull ==
    ASSUME NEW f, Orbit(States, Next2, Code!Ones, f)
    PROVE  FullCycle(f)
<1> DEFINE a == Out(f)
<1>1. f \in [Nat -> States] /\ f[0] = Code!Ones
  BY DEF Orbit
<1>2. ASSUME NEW n \in Nat
      PROVE  /\ f[n] \in States /\ f[n + 1][1] = Tapped2(f[n])
             /\ \A e \in 1..9 : f[n + 1][e + 1] = f[n][e]
  <2>1. f[n] \in States /\ f[n + 1] = Next2[f[n]]
    BY <1>1 DEF Orbit
  <2> QED BY <2>1, NextIs
<1>3. Delays(f)
  BY <1>1, <1>2 DEF Delays
<1>4. 0..9 \subseteq a
  BY <1>1, <1>3, OutIs
<1>5. ASSUME NEW n \in Nat PROVE G2Leap10(a, n)
  <2>1. \A e \in 1..10 : f[n][e] = 1 <=> n + (10 - e) \in a
    BY <1>3, StagesDelay
  <2>2. f[n + 1][1] = 1 <=> (n + 1) + (10 - 1) \in a
    BY <1>3, StagesDelay
  <2>3. (n + 1) + (10 - 1) = n + 10
    OBVIOUS
  <2> HIDE DEF a
  <2>4. /\ (f[n][10] = 1 <=> n \in a)
        /\ (f[n][9] = 1 <=> n + 1 \in a)
        /\ (f[n][8] = 1 <=> n + 2 \in a)
        /\ (f[n][6] = 1 <=> n + 4 \in a)
        /\ (f[n][3] = 1 <=> n + 7 \in a)
        /\ (f[n][2] = 1 <=> n + 8 \in a)
    BY <2>1
  <2>5. Tapped2(f[n]) = 1 <=>
            (f[n][10] = 1) \oplus (f[n][9] = 1) \oplus (f[n][8] = 1)
                \oplus (f[n][6] = 1) \oplus (f[n][3] = 1) \oplus (f[n][2] = 1)
    BY <1>2, Odd2
  <2> QED BY <1>2, <2>2, <2>3, <2>4, <2>5 DEF G2Leap10
<1>6. G2Runs(a)
  BY <1>5 DEF G2Runs
<1>7. Period(a, Code!CHIPS) /\ 33 \notin a /\ 93 \notin a /\ 343 \notin a
  <2> HIDE DEF a
  <2> QED BY <1>4, <1>6, G2Turns, G2NotShorter
<1>8. Next2[Zeros] = Zeros
  <2>1. Tapped2(Zeros) = 0
    BY StatesAre DEF Tapped2
  <2>2. Next2[Zeros] \in States /\ \A e \in 1..10 : Next2[Zeros][e] = 0
    <3>1. \A e \in 1..9 : Next2[Zeros][e + 1] = 0
      BY StatesAre, NextIs
    <3>2. Next2[Zeros][1] = 0 /\ Next2[Zeros] \in States
      BY <2>1, StatesAre, NextIs
    <3>3. \A e \in 1..10 : e = 1 \/ (e - 1 \in 1..9 /\ (e - 1) + 1 = e)
      OBVIOUS
    <3> QED BY <3>1, <3>2, <3>3
  <2> QED BY <2>2, StatesAre
<1>9. 2 \in 0..9 /\ 341 + 2 = 343
  OBVIOUS
<1> QED BY <1>3, <1>7, <1>8, <1>9, CycleIsFull

\* Do the taps t and u give different bits?
DifferOn(t, u, g) == (g[t[1]] + g[t[2]]) % 2 # (g[u[1]] + g[u[2]]) % 2
Taking(t, u) == {g \in States : DifferOn(t, u, g)}

AreTaps(t) == t \in Code!Stages \X Code!Stages /\ t[1] < t[2]

LEMMA TapsAre == \A s \in 1..37 : AreTaps(Code!Taps[s])
BY DEF AreTaps, Code!Taps, Code!Stages

LEMMA StatesCount == IsFiniteSet(States) /\ Cardinality(States) = 1024
<1> DEFINE A == SUBSET (1..10)
           f == [u \in A |-> [k \in Code!Stages |-> IF k \in u THEN 1 ELSE 0]]
<1>1. ExistsBijection(A, States)
  <2>1. f \in [A -> States]
    BY DEF States
  <2>2. ASSUME NEW u \in A, NEW v \in A, f[u] = f[v] PROVE u = v
    <3>1. ASSUME NEW k \in 1..10 PROVE k \in u <=> k \in v
      <4>1. /\ f[u][k] = IF k \in u THEN 1 ELSE 0
            /\ f[v][k] = IF k \in v THEN 1 ELSE 0
        BY DEF Code!Stages
      <4> HIDE DEF f
      <4> QED BY <2>2, <4>1
    <3>2. u \subseteq 1..10 /\ v \subseteq 1..10
      OBVIOUS
    <3> HIDE DEF f
    <3> QED BY <3>1, <3>2
  <2>3. ASSUME NEW g \in States PROVE \E u \in A : f[u] = g
    <3> DEFINE u == {k \in 1..10 : g[k] = 1}
    <3>1. u \in A
      OBVIOUS
    <3>2. f[u] \in States
      BY <2>1, <3>1
    <3>3. ASSUME NEW k \in 1..10 PROVE f[u][k] = g[k]
      <4>1. f[u][k] = IF g[k] = 1 THEN 1 ELSE 0
        BY <3>1 DEF Code!Stages
      <4>2. g[k] \in {0, 1}
        BY StatesAre
      <4> QED BY <4>1, <4>2
    <3>4. f[u] = g
      <4> HIDE DEF f, u
      <4> QED BY <3>2, <3>3, StatesAre
    <3> QED BY <3>1, <3>4
  <2> HIDE DEF f
  <2> QED BY <2>1, <2>2, <2>3
          DEF ExistsBijection, Bijection, Injection, Surjection, IsInjective
<1>2. IsFiniteSet(A) /\ Cardinality(A) = 2^10
  BY PowerCounts
<1>3. 2^10 = 1024
  <2> DEFINE p(n) == 2^n
  <2>1. p(0) = 1 /\ \A n \in Nat : p(n + 1) = 2 * p(n)
    BY PowerOfNone, PowerDoubles
  <2> HIDE DEF p
  <2>2. p(0 + 1) = 2
    BY <2>1
  <2>3. p(1 + 1) = 4
    BY <2>1, <2>2
  <2>4. p(2 + 1) = 8
    BY <2>1, <2>3
  <2>5. p(3 + 1) = 16
    BY <2>1, <2>4
  <2>6. p(4 + 1) = 32
    BY <2>1, <2>5
  <2>7. p(5 + 1) = 64
    BY <2>1, <2>6
  <2>8. p(6 + 1) = 128
    BY <2>1, <2>7
  <2>9. p(7 + 1) = 256
    BY <2>1, <2>8
  <2>10. p(8 + 1) = 512
    BY <2>1, <2>9
  <2>11. p(9 + 1) = 1024
    BY <2>1, <2>10
  <2> QED BY <2>11 DEF p
<1> HIDE DEF A
<1> QED BY <1>1, <1>2, <1>3, FS_Bijection

\* A bit that only one of the two taps.
LEMMA FlipTells ==
    ASSUME NEW t, NEW u, AreTaps(t), AreTaps(u), t # u
    PROVE  \E e \in 1..10 :
              \A g \in States : DifferOn(t, u, [g EXCEPT ![e] = 1 - g[e]])
                                    <=> ~ DifferOn(t, u, g)
<1>1. /\ t[1] \in 1..10 /\ t[2] \in 1..10 /\ t[1] < t[2]
      /\ u[1] \in 1..10 /\ u[2] \in 1..10 /\ u[1] < u[2]
      /\ t[1] # u[1] \/ t[2] # u[2]
  BY DEF AreTaps, Code!Stages
<1>2. PICK e \in 1..10 : /\ e \in {t[1], t[2]} /\ e \notin {u[1], u[2]}
  <2>1. t[1] \notin {u[1], u[2]} \/ t[2] \notin {u[1], u[2]}
    BY <1>1
  <2> QED BY <1>1, <2>1
<1>3. ASSUME NEW g \in States
      PROVE  DifferOn(t, u, [g EXCEPT ![e] = 1 - g[e]]) <=> ~ DifferOn(t, u, g)
  <2> DEFINE h == [g EXCEPT ![e] = 1 - g[e]]
  <2>1. \A k \in 1..10 : h[k] = IF k = e THEN 1 - g[k] ELSE g[k]
    BY DEF States, Code!Stages
  <2> HIDE DEF h
  <2>2. h[u[1]] = g[u[1]] /\ h[u[2]] = g[u[2]]
    BY <1>1, <1>2, <2>1
  <2>3. \/ h[t[1]] = 1 - g[t[1]] /\ h[t[2]] = g[t[2]]
        \/ h[t[1]] = g[t[1]] /\ h[t[2]] = 1 - g[t[2]]
    BY <1>1, <1>2, <2>1
  <2>4. /\ g[t[1]] \in {0, 1} /\ g[t[2]] \in {0, 1}
        /\ g[u[1]] \in {0, 1} /\ g[u[2]] \in {0, 1}
    BY <1>1, StatesAre
  <2>5. DifferOn(t, u, h) <=> ~ DifferOn(t, u, g)
    BY <2>2, <2>3, <2>4 DEF DifferOn
  <2> QED BY <2>5 DEF h
<1> QED BY <1>3

\* Half of the values tell the taps apart, and zeros do not.
LEMMA HalfTell ==
    ASSUME NEW t, NEW u, AreTaps(t), AreTaps(u), t # u
    PROVE  /\ IsFiniteSet(Taking(t, u)) /\ Cardinality(Taking(t, u)) = 512
           /\ Taking(t, u) \subseteq States \ {Zeros}
<1> DEFINE D == Taking(t, u)
           E == States \ D
<1>1. PICK e \in 1..10 :
          \A g \in States : DifferOn(t, u, [g EXCEPT ![e] = 1 - g[e]])
                                <=> ~ DifferOn(t, u, g)
  BY FlipTells
<1> DEFINE flip(g) == [g EXCEPT ![e] = 1 - g[e]]
           f == [g \in D |-> flip(g)]
<1>2. ASSUME NEW g \in States PROVE flip(g) \in States /\ flip(flip(g)) = g
  <2>1. g[e] \in {0, 1}
    BY StatesAre
  <2>2. flip(g) \in States
    BY <2>1 DEF States, Code!Stages
  <2>3. flip(flip(g)) \in States
    <3>1. flip(g)[e] \in {0, 1}
      BY <2>2, StatesAre
    <3> HIDE DEF flip
    <3>2. flip(flip(g)) = [flip(g) EXCEPT ![e] = 1 - flip(g)[e]]
      BY DEF flip
    <3> QED BY <2>2, <3>1, <3>2 DEF States, Code!Stages
  <2>4. ASSUME NEW k \in 1..10 PROVE flip(flip(g))[k] = g[k]
    <3>1. flip(g)[k] = IF k = e THEN 1 - g[k] ELSE g[k]
      BY DEF States, Code!Stages
    <3>2. flip(flip(g))[k] = IF k = e THEN 1 - flip(g)[k] ELSE flip(g)[k]
      <4> HIDE DEF flip
      <4>1. flip(flip(g)) = [flip(g) EXCEPT ![e] = 1 - flip(g)[e]]
        BY DEF flip
      <4> QED BY <2>2, <4>1 DEF States, Code!Stages
    <3>3. g[k] \in {0, 1}
      BY StatesAre
    <3> HIDE DEF flip
    <3> QED BY <3>1, <3>2, <3>3
  <2> HIDE DEF flip
  <2> QED BY <2>2, <2>3, <2>4, StatesAre
<1>3. \A g \in States : flip(g) \in D <=> g \notin D
  BY <1>1, <1>2 DEF Taking
<1>4. D \subseteq States
  BY DEF Taking
<1>5. ExistsBijection(D, E)
  <2> HIDE DEF D, flip
  <2>1. f \in [D -> E]
    BY <1>2, <1>3, <1>4
  <2>2. ASSUME NEW g \in D, NEW h \in D, f[g] = f[h] PROVE g = h
    <3>1. flip(g) = flip(h)
      BY <2>2
    <3> QED BY <1>2, <1>4, <3>1
  <2>3. ASSUME NEW h \in E PROVE \E g \in D : f[g] = h
    <3>1. flip(h) \in D /\ flip(flip(h)) = h
      BY <1>2, <1>3
    <3> QED BY <3>1
  <2> HIDE DEF f, E
  <2> QED BY <2>1, <2>2, <2>3
          DEF ExistsBijection, Bijection, Injection, Surjection, IsInjective
<1>6. IsFiniteSet(States) /\ Cardinality(States) = 1024
  BY StatesCount
<1> HIDE DEF D, flip, f
<1>7. IsFiniteSet(D) /\ IsFiniteSet(E) /\ Cardinality(E) = Cardinality(D)
  <2>1. IsFiniteSet(D)
    BY <1>4, <1>6, FS_Subset
  <2> HIDE DEF E
  <2> QED BY <1>5, <2>1, FS_Bijection
<1>8. D \union E = States /\ D \intersect E = {}
  BY <1>4
<1>9. Cardinality(D) \in Nat /\ Cardinality({}) = 0
  BY <1>7, FS_CardinalityType, FS_EmptySet
<1>10. Cardinality(D) = 512
  <2> HIDE DEF E
  <2>1. Cardinality(D \union E) =
            Cardinality(D) + Cardinality(E) - Cardinality(D \intersect E)
    BY <1>7, FS_Union
  <2>2. Cardinality(States) =
            Cardinality(D) + Cardinality(E) - Cardinality({})
    BY <1>8, <2>1
  <2>3. 1024 = Cardinality(D) + Cardinality(D) - 0
    BY <1>6, <1>7, <1>9, <2>2
  <2> QED BY <1>9, <2>3
<1>11. Zeros \notin D
  <2>1. /\ t[1] \in 1..10 /\ t[2] \in 1..10 /\ u[1] \in 1..10 /\ u[2] \in 1..10
    BY DEF AreTaps, Code!Stages
  <2>2. ~ DifferOn(t, u, Zeros)
    BY <2>1, StatesAre DEF DifferOn
  <2> QED BY <2>2 DEF D, Taking
<1> QED BY <1>4, <1>7, <1>10, <1>11 DEF D

\* Over a cycle every value but zeros is found once.
LEMMA CycleCounts ==
    ASSUME NEW f, FullCycle(f), NEW D \in SUBSET (States \ {Zeros})
    PROVE  Cardinality({n \in 0..(Code!CHIPS - 1) : f[n] \in D}) = Cardinality(D)
<1> DEFINE N == 0..(Code!CHIPS - 1)
           X == States \ {Zeros}
           h == [n \in N |-> f[n]]
           M == {n \in N : f[n] \in D}
           e == [n \in M |-> f[n]]
<1>1. N \subseteq Nat /\ IsFiniteSet(N) /\ Cardinality(N) = 1023
  <2> DEFINE l == Code!CHIPS - 1
  <2>1. 0 \in Int /\ l \in Int /\ ~(0 > l) /\ l - 0 + 1 = 1023
    BY DEF Code!CHIPS
  <2> HIDE DEF l
  <2>2. IsFiniteSet(0..l) /\ Cardinality(0..l) = IF 0 > l THEN 0 ELSE l - 0 + 1
    BY <2>1, FS_Interval
  <2>3. IsFiniteSet(0..l) /\ Cardinality(0..l) = 1023 /\ 0..l \subseteq Nat
    BY <2>1, <2>2
  <2> QED BY <2>3 DEF l
<1>2. /\ \A n \in N : f[n] \in X
      /\ \A m, n \in N : f[m] = f[n] => m = n
  <2> HIDE DEF N
  <2>1. \A n \in N : f[n] \in States
    BY <1>1 DEF FullCycle
  <2> QED BY <2>1 DEF FullCycle, N
<1>3. IsFiniteSet(X) /\ Cardinality(X) = 1023
  <2>1. IsFiniteSet(States) /\ Cardinality(States) = 1024 /\ Zeros \in States
    BY StatesCount, StatesAre
  <2> QED BY <2>1, FS_RemoveElement
<1> HIDE DEF N, X
<1>4. h \in Injection(N, X)
  BY <1>2 DEF Injection, IsInjective
<1>5. h \in Surjection(N, X)
  <2> HIDE DEF h
  <2> QED BY <1>1, <1>3, <1>4, FS_Injection
<1>6. \A g \in X : \E n \in N : f[n] = g
  BY <1>5 DEF Surjection
<1>7. IsFiniteSet(D)
  <2>1. D \in SUBSET X
    BY DEF X
  <2> QED BY <1>3, <2>1, FS_Subset
<1>8. ExistsBijection(M, D)
  <2>1. e \in [M -> D]
    OBVIOUS
  <2>2. \A m, n \in M : e[m] = e[n] => m = n
    BY <1>2
  <2>3. ASSUME NEW g \in D PROVE \E n \in M : e[n] = g
    <3>1. PICK n \in N : f[n] = g
      BY <1>6 DEF X
    <3> QED BY <3>1
  <2> HIDE DEF M, e
  <2> QED BY <2>1, <2>2, <2>3
          DEF ExistsBijection, Bijection, Injection, Surjection, IsInjective
<1>9. IsFiniteSet(M)
  <2>1. M \in SUBSET N
    OBVIOUS
  <2>2. IsFiniteSet(N)
    BY <1>1
  <2> HIDE DEF M, e
  <2> QED BY <2>1, <2>2, FS_Subset
<1>10. Cardinality(D) = Cardinality(M)
  <2> HIDE DEF M, e
  <2> QED BY <1>8, <1>9, FS_Bijection
<1> QED BY <1>10 DEF N

\* The registers, from ones on.
Run1 == CHOOSE f : Orbit(States, Next1, Code!Ones, f)
Run2 == CHOOSE f : Orbit(States, Next2, Code!Ones, f)

ChipAt(s, n) ==
    (Run1[n][10] + Run2[n][Code!Taps[s][1]] + Run2[n][Code!Taps[s][2]]) % 2
Differing(p, k) == {n \in 0..(k - 1) : ChipAt(p[1], n) # ChipAt(p[2], n)}

CodeInv ==
    /\ shifts \in Nat /\ shifts <= Code!CHIPS
    /\ g1 = Run1[shifts] /\ g2 = Run2[shifts]
    /\ differ = [p \in Code!Pairs |-> Cardinality(Differing(p, shifts))]

LEMMA RunsAre ==
    /\ Orbit(States, Next1, Code!Ones, Run1) /\ Orbit(States, Next2, Code!Ones, Run2)
    /\ FullCycle(Run1) /\ FullCycle(Run2)
<1>1. \E f : Orbit(States, Next1, Code!Ones, f)
  BY NextIs, StatesAre, OrbitExists
<1>2. \E f : Orbit(States, Next2, Code!Ones, f)
  BY NextIs, StatesAre, OrbitExists
<1>3. Orbit(States, Next1, Code!Ones, Run1) /\ Orbit(States, Next2, Code!Ones, Run2)
  BY <1>1, <1>2 DEF Run1, Run2
<1> QED BY <1>3, G1IsFull, G2IsFull

\* One more chip.
LEMMA DifferingGrows ==
    ASSUME NEW p, NEW k \in Nat
    PROVE  /\ Cardinality(Differing(p, 0)) = 0
           /\ Cardinality(Differing(p, k + 1)) =
                  Cardinality(Differing(p, k))
                      + (IF ChipAt(p[1], k) # ChipAt(p[2], k) THEN 1 ELSE 0)
<1>1. Differing(p, 0) = {}
  BY DEF Differing
<1>2. IsFiniteSet(Differing(p, k)) /\ Cardinality(Differing(p, k)) \in Nat
  <2>1. IsFiniteSet(0..(k - 1))
    BY FS_Interval
  <2>2. Differing(p, k) \in SUBSET (0..(k - 1))
    BY DEF Differing
  <2>3. IsFiniteSet(Differing(p, k))
    BY <2>1, <2>2, FS_Subset
  <2> QED BY <2>3, FS_CardinalityType
<1>3. k \notin Differing(p, k)
  BY DEF Differing
<1>4. CASE ChipAt(p[1], k) # ChipAt(p[2], k)
  <2>1. Differing(p, k + 1) = Differing(p, k) \union {k}
    BY <1>4 DEF Differing
  <2>2. Cardinality(Differing(p, k) \union {k}) = Cardinality(Differing(p, k)) + 1
    BY <1>2, <1>3, FS_AddElement
  <2> QED BY <1>1, <1>4, <2>1, <2>2, FS_EmptySet
<1>5. CASE ChipAt(p[1], k) = ChipAt(p[2], k)
  <2>1. Differing(p, k + 1) = Differing(p, k)
    BY <1>5 DEF Differing
  <2>2. Cardinality(Differing(p, k)) + 0 = Cardinality(Differing(p, k))
    BY <1>2
  <2> QED BY <1>1, <1>5, <2>1, <2>2, FS_EmptySet
<1> QED BY <1>4, <1>5

LEMMA CodeBegins ==
    ASSUME g1 = Code!Ones, g2 = Code!Ones, shifts = 0,
           differ = [p \in Code!Pairs |-> 0]
    PROVE  CodeInv
<1>1. Run1[0] = Code!Ones /\ Run2[0] = Code!Ones
  BY RunsAre DEF Orbit
<1>2. \A p \in Code!Pairs : Cardinality(Differing(p, 0)) = 0
  BY DifferingGrows
<1>3. 0 <= Code!CHIPS
  BY DEF Code!CHIPS
<1> QED BY <1>1, <1>2, <1>3 DEF CodeInv

LEMMA CodeShifts == CodeInv /\ Code!Shift => CodeInv'
<1> SUFFICES ASSUME CodeInv, Code!Shift PROVE CodeInv'
  OBVIOUS
<1> DEFINE k == IF shifts = Code!CHIPS THEN 0 ELSE shifts
<1>1. /\ k \in Nat /\ k < Code!CHIPS /\ k + 1 \in Nat /\ k + 1 <= Code!CHIPS
      /\ shifts' = k + 1
  BY DEF CodeInv, Code!Shift, Code!CHIPS
<1>2. g1 = Run1[k] /\ g2 = Run2[k]
  <2>1. Run1[0] = Run1[Code!CHIPS] /\ Run2[0] = Run2[Code!CHIPS]
    BY RunsAre DEF FullCycle
  <2> QED BY <2>1 DEF CodeInv
<1>3. \A p \in Code!Pairs :
          (IF shifts = Code!CHIPS THEN 0 ELSE differ[p]) = Cardinality(Differing(p, k))
  <2>1. \A p \in Code!Pairs : Cardinality(Differing(p, 0)) = 0
    BY DifferingGrows
  <2> QED BY <2>1 DEF CodeInv
<1>4. /\ g1' = Code!Shifted(g1, Code!Feedback1) /\ g2' = Code!Shifted(g2, Code!Feedback2)
      /\ differ' = [p \in Code!Pairs |->
                       (IF shifts = Code!CHIPS THEN 0 ELSE differ[p])
                           + (IF Code!Chip(p[1]) # Code!Chip(p[2]) THEN 1 ELSE 0)]
  BY DEF Code!Shift
<1> HIDE DEF k
<1>5. g1' = Run1[k + 1] /\ g2' = Run2[k + 1]
  <2>1. Run1[k] \in States /\ Run1[k + 1] = Next1[Run1[k]]
    BY <1>1, RunsAre DEF Orbit
  <2>2. Run2[k] \in States /\ Run2[k + 1] = Next2[Run2[k]]
    BY <1>1, RunsAre DEF Orbit
  <2>3. Code!Feedback1 = Tapped1(g1) /\ Code!Feedback2 = Tapped2(g2)
    BY DEF Code!Feedback1, Code!Feedback2, Tapped1, Tapped2
  <2> QED BY <1>2, <1>4, <2>1, <2>2, <2>3 DEF Next1, Next2
<1>6. \A s : Code!Chip(s) = ChipAt(s, k)
  BY <1>2 DEF Code!Chip, ChipAt
<1>7. \A p \in Code!Pairs :
          differ'[p] = Cardinality(Differing(p, k + 1))
  <2> TAKE p \in Code!Pairs
  <2>1. differ'[p] = Cardinality(Differing(p, k))
                         + (IF ChipAt(p[1], k) # ChipAt(p[2], k) THEN 1 ELSE 0)
    BY <1>3, <1>4, <1>6
  <2> QED BY <1>1, <2>1, DifferingGrows
<1>8. differ' = [p \in Code!Pairs |-> Cardinality(Differing(p, shifts'))]
  BY <1>1, <1>4, <1>7
<1> QED BY <1>1, <1>5, <1>8 DEF CodeInv

LEMMA CodeSteps ==
    /\ Init => (part = "code" => CodeInv)
    /\ (part = "code" => CodeInv) /\ [Next]_vars => (part = "code" => CodeInv)'
<1>1. Init => (part = "code" => CodeInv)
  BY CodeBegins DEF Init, Code!Init
<1>2. ASSUME part = "code" => CodeInv, [Next]_vars, part' = "code" PROVE CodeInv'
  <2>0. part = "code" /\ CodeInv
    BY <1>2 DEF Next, vars
  <2>1. CASE Code!Reset
    <3>1. /\ g1' = Code!Ones /\ g2' = Code!Ones /\ shifts' = 0
          /\ differ' = [p \in Code!Pairs |-> 0]
      BY <2>1 DEF Code!Reset
    <3>2. Run1[0] = Code!Ones /\ Run2[0] = Code!Ones
      BY RunsAre DEF Orbit
    <3>3. \A p \in Code!Pairs : Cardinality(Differing(p, 0)) = 0
      BY DifferingGrows
    <3>4. 0 <= Code!CHIPS
      BY DEF Code!CHIPS
    <3> QED BY <3>1, <3>2, <3>3, <3>4 DEF CodeInv
  <2>2. CASE Code!Shift
    BY <2>0, <2>2, CodeShifts
  <2>3. CASE UNCHANGED codeVars
    BY <2>0, <2>3 DEF codeVars, CodeInv
  <2>4. Code!Reset \/ Code!Shift \/ UNCHANGED codeVars
    BY <1>2, <2>0 DEF Next, vars, Code!Next
  <2> QED BY <2>1, <2>2, <2>3, <2>4
<1> QED BY <1>1, <1>2

\* Each register holds ones again after 1023 shifts and not before, whatever
\* resets and shifts led there (cacode.v:11-19, cacodegen.m:71-83).
THEOREM CodesComplete == Spec => []FullPeriod
<1>1. CodeInv => Code!FullPeriod
  <2> SUFFICES ASSUME CodeInv, NEW f, FullCycle(f)
               PROVE  f[shifts] = Code!Ones <=> shifts \in {0, Code!CHIPS}
    BY RunsAre DEF CodeInv, Code!FullPeriod
  <2>1. shifts \in Nat /\ shifts <= Code!CHIPS /\ Code!CHIPS \in Nat /\ Code!CHIPS > 0
    BY DEF CodeInv, Code!CHIPS
  <2>2. f[0] = Code!Ones /\ f[Code!CHIPS] = Code!Ones
    BY DEF FullCycle
  <2>3. ASSUME f[shifts] = Code!Ones, shifts # Code!CHIPS PROVE shifts = 0
    <3>1. shifts \in 0..(Code!CHIPS - 1) /\ 0 \in 0..(Code!CHIPS - 1)
      BY <2>1, <2>3
    <3> QED BY <2>2, <2>3, <3>1 DEF FullCycle
  <2> QED BY <2>2, <2>3
<1>2. (part = "code" => CodeInv) => FullPeriod
  BY <1>1 DEF FullPeriod
<1> QED BY <1>2, CodeSteps, PTL DEF Spec

\* Over a period the codes of any two satellites with different taps differ in
\* 512 of the 1023 chips (cacode.v:21, cacode.m:66-102).
LEMMA TakingDiffers ==
    ASSUME NEW p \in Code!Pairs, Code!Taps[p[1]] # Code!Taps[p[2]]
    PROVE  Cardinality(Differing(p, Code!CHIPS)) = 512
<1> DEFINE t == Code!Taps[p[1]]
           u == Code!Taps[p[2]]
           D == Taking(t, u)
<1>1. p[1] \in 1..37 /\ p[2] \in 1..37
  BY PartsAssumption DEF Code!CaCodeAssumption, Code!Pairs
<1>2. AreTaps(t) /\ AreTaps(u) /\ t # u
  BY <1>1, TapsAre
<1> HIDE DEF t, u
<1>3. Cardinality(D) = 512 /\ D \in SUBSET (States \ {Zeros})
  BY <1>2, HalfTell
<1>4. ASSUME NEW n \in 0..(Code!CHIPS - 1)
      PROVE  ChipAt(p[1], n) # ChipAt(p[2], n) <=> Run2[n] \in D
  <2>1. n \in Nat
    OBVIOUS
  <2>2. Run1[n] \in States /\ Run2[n] \in States
    BY <2>1, RunsAre DEF Orbit
  <2>3. t[1] \in 1..10 /\ t[2] \in 1..10 /\ u[1] \in 1..10 /\ u[2] \in 1..10
    BY <1>2 DEF AreTaps, Code!Stages
  <2>4. /\ Run1[n][10] \in {0, 1}
        /\ Run2[n][t[1]] \in {0, 1} /\ Run2[n][t[2]] \in {0, 1}
        /\ Run2[n][u[1]] \in {0, 1} /\ Run2[n][u[2]] \in {0, 1}
    BY <2>2, <2>3, StatesAre
  <2>5. /\ ChipAt(p[1], n) = (Run1[n][10] + Run2[n][t[1]] + Run2[n][t[2]]) % 2
        /\ ChipAt(p[2], n) = (Run1[n][10] + Run2[n][u[1]] + Run2[n][u[2]]) % 2
    BY DEF ChipAt, t, u
  <2>6. ChipAt(p[1], n) # ChipAt(p[2], n) <=> DifferOn(t, u, Run2[n])
    BY <2>4, <2>5 DEF DifferOn
  <2> QED BY <2>2, <2>6 DEF Taking
<1>5. Differing(p, Code!CHIPS) = {n \in 0..(Code!CHIPS - 1) : Run2[n] \in D}
  <2> HIDE DEF D
  <2> QED BY <1>4 DEF Differing
<1> HIDE DEF D
<1>6. Cardinality({n \in 0..(Code!CHIPS - 1) : Run2[n] \in D}) = Cardinality(D)
  BY <1>3, RunsAre, CycleCounts
<1> QED BY <1>3, <1>5, <1>6

\* The codes of any two satellites with different taps do not correlate,
\* whichever satellites are tracked (cacode.v:21, cacode.m:66-102).
THEOREM CodesToldApart == Spec => []ToldApart
<1>1. CodeInv => Code!ToldApart
  <2> SUFFICES ASSUME CodeInv, shifts = Code!CHIPS, NEW p \in Code!Pairs,
                      Code!Taps[p[1]] # Code!Taps[p[2]]
               PROVE  Code!Correlation(p) = -1
    BY DEF Code!ToldApart
  <2>1. differ[p] = Cardinality(Differing(p, Code!CHIPS))
    BY DEF CodeInv
  <2>2. differ[p] = 512
    BY <2>1, TakingDiffers
  <2> QED BY <2>2 DEF Code!Correlation, Code!CHIPS
<1>2. (part = "code" => CodeInv) => ToldApart
  BY <1>1 DEF ToldApart
<1> QED BY <1>2, CodeSteps, PTL DEF Spec

=============================================================================
