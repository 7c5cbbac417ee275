--------------------------- MODULE ProfilerProofs ---------------------------
(***************************************************************************)
(* Proofs about the profiling support and the heap, for any number of      *)
(* functions, callers and calls and every size of memory and record.       *)
(***************************************************************************)
EXTENDS Profiler, FiniteSetTheorems, TLAPS

-----------------------------------------------------------------------------
(* Induction, by counting: a finite set is not as large as its successors  *)
(* and zero.                                                               *)

LEMMA Induction ==
    ASSUME NEW S, 0 \in S, \A n \in Nat : n \in S => n + 1 \in S
    PROVE  Nat \subseteq S
<1> SUFFICES ASSUME NEW n \in Nat, n \notin S PROVE FALSE
  OBVIOUS
<1> DEFINE U == {k \in 0..n : k \in S}
           V == {k + 1 : k \in U}
           f == [k \in U |-> k + 1]
<1>1. IsFiniteSet(U)
  <2>1. U \in SUBSET (0..n) /\ IsFiniteSet(0..n)
    BY FS_Interval
  <2> QED BY <2>1, FS_Subset
<1>2. U \subseteq Nat
  OBVIOUS
<1>3. 0 \in U /\ 0 \notin V /\ V \in SUBSET U
  <2>1. \A k \in U : k + 1 \in U
    <3> TAKE k \in U
    <3>1. k \in Nat /\ k \in S /\ k + 1 \in S /\ k # n /\ k <= n
      OBVIOUS
    <3> QED BY <3>1
  <2>2. 0 \in U
    OBVIOUS
  <2> HIDE DEF U
  <2> QED BY <1>2, <2>1, <2>2
<1> HIDE DEF U
<1>4. ExistsBijection(U, V)
  <2>1. f \in [U -> V]
    OBVIOUS
  <2>2. \A j, k \in U : f[j] = f[k] => j = k
    BY <1>2
  <2>3. \A w \in V : \E j \in U : f[j] = w
    OBVIOUS
  <2> HIDE DEF f, V
  <2> QED BY <2>1, <2>2, <2>3
          DEF ExistsBijection, Bijection, Injection, Surjection, IsInjective
<1>5. Cardinality(V) = Cardinality(U)
  BY <1>1, <1>4, FS_Bijection
<1> HIDE DEF V
<1>6. U = V
  BY <1>1, <1>3, <1>5, FS_Subset
<1> QED BY <1>3, <1>6

-----------------------------------------------------------------------------
(* The lists.                                                              *)

\* Every link leads to an earlier record or ends the list.
Linked(records) ==
    /\ Len(records) \in Nat /\ DOMAIN records = 1..Len(records)
    /\ \A i \in 1..Len(records) : records[i].next \in 0..(i - 1)

LEMMA ChainExists ==
    ASSUME NEW records, Linked(records)
    PROVE  \E g : g = [i \in 0..Len(records) |->
                         IF i = NULL THEN {} ELSE {i} \union g[records[i].next]]
<1> DEFINE n == Len(records)
           Walk(g, m) == g = [i \in 0..m |->
                                IF i = NULL THEN {} ELSE {i} \union g[records[i].next]]
           S == {m \in Nat : m <= n => \E g : Walk(g, m)}
<1>0. n \in Nat
  BY DEF Linked
<1>1. 0 \in S
  <2> DEFINE g == [i \in 0..0 |-> {}]
  <2>1. Walk(g, 0)
    BY DEF NULL
  <2> HIDE DEF Walk
  <2> QED BY <2>1
<1>2. ASSUME NEW m \in Nat, m \in S PROVE m + 1 \in S
  <2> SUFFICES ASSUME m + 1 <= n PROVE \E h : Walk(h, m + 1)
    OBVIOUS
  <2>1. PICK g : Walk(g, m)
    BY <1>0, <1>2
  <2> DEFINE h == [i \in 0..(m + 1) |->
                     IF i = m + 1 THEN {i} \union g[records[i].next] ELSE g[i]]
  <2>2. \A i \in 1..(m + 1) : records[i].next \in 0..m /\ records[i].next # i
                              /\ records[i].next \in 0..(i - 1)
    BY <1>0 DEF Linked
  <2>3. ASSUME NEW i \in 0..(m + 1)
        PROVE  h[i] = IF i = NULL THEN {} ELSE {i} \union h[records[i].next]
    <3>1. CASE i = m + 1
      <4>1. h[i] = {i} \union g[records[i].next] /\ i # NULL
        BY <3>1 DEF NULL
      <4>2. h[records[i].next] = g[records[i].next]
        BY <2>2, <3>1
      <4> QED BY <4>1, <4>2
    <3>2. CASE i # m + 1
      <4>1. i \in 0..m /\ h[i] = g[i]
        BY <3>2
      <4>2. g[i] = IF i = NULL THEN {} ELSE {i} \union g[records[i].next]
        BY <2>1, <4>1
      <4>3. i # NULL => h[records[i].next] = g[records[i].next]
        <5> SUFFICES ASSUME i # NULL PROVE h[records[i].next] = g[records[i].next]
          OBVIOUS
        <5>1. records[i].next \in 0..m
          BY <2>2, <4>1 DEF NULL
        <5> QED BY <5>1
      <4> HIDE DEF h
      <4> QED BY <4>1, <4>2, <4>3
    <3> QED BY <3>1, <3>2
  <2>4. Walk(h, m + 1)
    <3>1. h = [i \in 0..(m + 1) |-> h[i]]
      OBVIOUS
    <3> HIDE DEF h
    <3> QED BY <2>3, <3>1
  <2> HIDE DEF h, Walk
  <2> QED BY <2>4
<1>3. n \in S
  <2> HIDE DEF S
  <2> QED BY <1>0, <1>1, <1>2, Induction
<1> QED BY <1>0, <1>3

\* Following the links.
LEMMA ChainStep ==
    ASSUME NEW records, Linked(records)
    PROVE  /\ Chain(records, NULL) = {}
           /\ \A i \in 1..Len(records) :
                  Chain(records, i) = {i} \union Chain(records, records[i].next)
<1> DEFINE chain == CHOOSE g : g = [i \in 0..Len(records) |->
                      IF i = NULL THEN {} ELSE {i} \union g[records[i].next]]
<1>1. chain = [i \in 0..Len(records) |->
                 IF i = NULL THEN {} ELSE {i} \union chain[records[i].next]]
  BY ChainExists
<1>2. \A h : Chain(records, h) = chain[h]
  BY DEF Chain
<1>3. \A i \in 1..Len(records) : records[i].next \in 0..Len(records)
  BY DEF Linked
<1> HIDE DEF chain
<1>4. Len(records) \in Nat
  BY DEF Linked
<1>5. \A i \in 0..Len(records) :
          chain[i] = IF i = NULL THEN {} ELSE {i} \union chain[records[i].next]
  BY <1>1
<1>6. 0 \in 0..Len(records) /\ \A i \in 1..Len(records) : i \in 0..Len(records) /\ i # 0
  BY <1>4
<1> QED BY <1>2, <1>5, <1>6 DEF NULL
LEMMA InductionUpTo ==
    ASSUME NEW n \in Nat, NEW S, 0 \in S,
           \A m \in 0..n : m # n /\ m \in S => m + 1 \in S
    PROVE  0..n \subseteq S
<1> DEFINE T == {m \in Nat : m <= n => m \in S}
<1>1. 0 \in T
  OBVIOUS
<1>2. \A m \in Nat : m \in T => m + 1 \in T
  OBVIOUS
<1> HIDE DEF T
<1>3. Nat \subseteq T
  BY <1>1, <1>2, Induction
<1> QED BY <1>3 DEF T

LEMMA ChainWithin ==
    ASSUME NEW records, Linked(records), NEW h \in 0..Len(records)
    PROVE  Chain(records, h) \subseteq 1..h
<1> DEFINE n == Len(records)
           S == {m \in Nat : \A k \in 0..m : Chain(records, k) \subseteq 1..k}
<1>0. n \in Nat /\ \A k \in 1..n : records[k].next \in 0..(k - 1)
  BY DEF Linked
<1>1. 0 \in S
  BY ChainStep DEF NULL
<1>2. ASSUME NEW m \in 0..n, m # n, m \in S PROVE m + 1 \in S
  <2>1. Chain(records, m + 1) = {m + 1} \union Chain(records, records[m + 1].next)
        /\ records[m + 1].next \in 0..m
    BY <1>0, <1>2, ChainStep
  <2>2. Chain(records, records[m + 1].next) \subseteq 1..(records[m + 1].next)
    BY <1>2, <2>1
  <2>3. Chain(records, m + 1) \subseteq 1..(m + 1)
    BY <2>1, <2>2
  <2> QED BY <1>2, <2>3
<1>3. 0..n \subseteq S
  <2> HIDE DEF S
  <2> QED BY <1>0, <1>1, <1>2, InductionUpTo
<1> QED BY <1>0, <1>3

\* A record linked in later changes no chain there was.
LEMMA ChainKept ==
    ASSUME NEW records, Linked(records), NEW more, Linked(more),
           Len(records) <= Len(more),
           \A k \in 1..Len(records) : more[k].next = records[k].next,
           NEW h \in 0..Len(records)
    PROVE  Chain(more, h) = Chain(records, h)
<1> DEFINE n == Len(records)
           S == {m \in Nat : \A k \in 0..m : Chain(more, k) = Chain(records, k)}
<1>0. /\ n \in Nat /\ \A k \in 1..n : records[k].next \in 0..(k - 1)
      /\ 1..n \subseteq 1..Len(more)
  BY DEF Linked
<1>1. 0 \in S
  <2>1. Chain(more, 0) = {} /\ Chain(records, 0) = {}
    BY ChainStep DEF NULL
  <2>2. \A k \in 0..0 : k = 0
    OBVIOUS
  <2> QED BY <2>1, <2>2
<1>2. ASSUME NEW m \in 0..n, m # n, m \in S PROVE m + 1 \in S
  <2>0. m + 1 \in 1..n /\ m + 1 \in 1..Len(more)
    BY <1>0, <1>2
  <2>1. Chain(records, m + 1) = {m + 1} \union Chain(records, records[m + 1].next)
        /\ records[m + 1].next \in 0..m
    BY <1>0, <1>2, <2>0, ChainStep
  <2>2. Chain(more, m + 1) = {m + 1} \union Chain(more, records[m + 1].next)
    BY <2>0, ChainStep
  <2>3. Chain(more, m + 1) = Chain(records, m + 1)
    BY <1>2, <2>1, <2>2
  <2> QED BY <1>2, <2>3
<1>3. 0..n \subseteq S
  <2> HIDE DEF S
  <2> QED BY <1>0, <1>1, <1>2, InductionUpTo
<1> QED BY <1>0, <1>3

\* Where each record links to the one before it all are in the chain.
LEMMA ChainAll ==
    ASSUME NEW records, Linked(records),
           \A k \in 1..Len(records) : records[k].next = k - 1,
           NEW h \in 0..Len(records)
    PROVE  Chain(records, h) = 1..h
<1> DEFINE n == Len(records)
           S == {m \in Nat : \A k \in 0..m : Chain(records, k) = 1..k}
<1>0. n \in Nat
  BY DEF Linked
<1>1. 0 \in S
  <2>1. Chain(records, 0) = {} /\ 1..0 = {}
    BY ChainStep DEF NULL
  <2>2. \A k \in 0..0 : k = 0
    OBVIOUS
  <2> QED BY <2>1, <2>2
<1>2. ASSUME NEW m \in 0..n, m # n, m \in S PROVE m + 1 \in S
  <2>0. m + 1 \in 1..n
    BY <1>0, <1>2
  <2>1. Chain(records, m + 1) = {m + 1} \union Chain(records, records[m + 1].next)
        /\ records[m + 1].next = m
    BY <2>0, ChainStep
  <2>2. Chain(records, m) = 1..m /\ 1..(m + 1) = {m + 1} \union (1..m)
    BY <1>2
  <2>3. Chain(records, m + 1) = 1..(m + 1)
    BY <2>1, <2>2
  <2> QED BY <1>2, <2>3
<1>3. 0..n \subseteq S
  <2> HIDE DEF S
  <2> QED BY <1>0, <1>1, <1>2, InductionUpTo
<1> QED BY <1>0, <1>3

\* g is the search for the key, from every place.
Searches(records, key, g) ==
    g = [i \in 0..Len(records) |->
            IF i = NULL \/ records[i].key = key THEN i ELSE g[records[i].next]]

LEMMA FirstExists ==
    ASSUME NEW records, Linked(records), NEW key
    PROVE  \E g : Searches(records, key, g)
<1> DEFINE n == Len(records)
           Here(i) == i = NULL \/ records[i].key = key
           Walk(g, m) == g = [i \in 0..m |->
                                IF Here(i) THEN i ELSE g[records[i].next]]
           S == {m \in Nat : \E g : Walk(g, m)}
<1>0. n \in Nat
  BY DEF Linked
<1>1. 0 \in S
  <2> DEFINE g == [i \in 0..0 |-> 0]
  <2>1. Walk(g, 0)
    BY DEF NULL
  <2> HIDE DEF Walk
  <2> QED BY <2>1
<1>2. ASSUME NEW m \in 0..n, m # n, m \in S PROVE m + 1 \in S
  <2> SUFFICES \E h : Walk(h, m + 1)
    BY <1>0
  <2>1. PICK g : Walk(g, m)
    BY <1>0, <1>2
  <2> DEFINE h == [i \in 0..(m + 1) |->
                     IF i = m + 1 THEN IF Here(i) THEN i ELSE g[records[i].next]
                     ELSE g[i]]
  <2>2. \A i \in 1..(m + 1) : records[i].next \in 0..m /\ records[i].next # i
                              /\ records[i].next \in 0..(i - 1)
    <3>1. m + 1 <= n
      BY <1>0, <1>2
    <3> QED BY <1>0, <3>1 DEF Linked
  <2> HIDE DEF Here
  <2>3. ASSUME NEW i \in 0..(m + 1)
        PROVE  h[i] = IF Here(i) THEN i ELSE h[records[i].next]
    <3>1. CASE i = m + 1
      <4>1. h[i] = IF Here(i) THEN i ELSE g[records[i].next]
        BY <3>1
      <4>2. h[records[i].next] = g[records[i].next]
        BY <2>2, <3>1
      <4> QED BY <4>1, <4>2
    <3>2. CASE i # m + 1
      <4>1. i \in 0..m /\ h[i] = g[i]
        BY <3>2
      <4>2. g[i] = IF Here(i) THEN i ELSE g[records[i].next]
        BY <2>1, <4>1
      <4>3. ~Here(i) => h[records[i].next] = g[records[i].next]
        <5> SUFFICES ASSUME ~Here(i) PROVE h[records[i].next] = g[records[i].next]
          OBVIOUS
        <5>1. records[i].next \in 0..m
          BY <2>2, <4>1 DEF NULL, Here
        <5> QED BY <5>1
      <4> HIDE DEF h
      <4> QED BY <4>1, <4>2, <4>3
    <3> QED BY <3>1, <3>2
  <2>4. Walk(h, m + 1)
    <3>1. h = [i \in 0..(m + 1) |-> h[i]]
      OBVIOUS
    <3> HIDE DEF h
    <3> QED BY <2>3, <3>1
  <2> HIDE DEF h, Walk
  <2> QED BY <2>4
<1>3. 0..n \subseteq S
  <2> HIDE DEF S
  <2> QED BY <1>0, <1>1, <1>2, InductionUpTo
<1>4. n \in S
  BY <1>0, <1>3
<1>5. PICK g : Walk(g, n)
  BY <1>4
<1> QED BY <1>5 DEF Searches

\* What a search finds is in the chain and has the key.
LEMMA FirstFound ==
    ASSUME NEW records, Linked(records), NEW key, NEW h \in 0..Len(records)
    PROVE  LET i == First(records, key, h) IN
           i = NULL \/ (i \in Chain(records, h) /\ records[i].key = key)
<1> DEFINE first == CHOOSE g : Searches(records, key, g)
<1>a. First(records, key, h) = first[h]
  BY DEF First, Searches
<1>b. Searches(records, key, first)
  BY FirstExists
<1> HIDE DEF first
<1> DEFINE n == Len(records)
           Found(k) == first[k] = NULL
                         \/ (first[k] \in Chain(records, k) /\ records[first[k]].key = key)
           S == {m \in Nat : \A k \in 0..m : Found(k)}
<1>0. /\ n \in Nat /\ \A k \in 1..n : records[k].next \in 0..(k - 1)
      /\ 0 \in 0..n
  BY DEF Linked
<1>1. first = [i \in 0..Len(records) |->
                 IF i = NULL \/ records[i].key = key THEN i ELSE first[records[i].next]]
  <2> HIDE DEF first
  <2> QED BY <1>b DEF Searches
<1>2. First(records, key, h) = first[h]
  BY <1>a
<1> HIDE DEF first
<1>3. \A k \in 0..n : first[k] = IF k = NULL \/ records[k].key = key THEN k
                                 ELSE first[records[k].next]
  BY <1>1
<1>4. 0 \in S
  <2>1. first[0] = 0
    BY <1>0, <1>3 DEF NULL
  <2>2. \A k \in 0..0 : k = 0
    OBVIOUS
  <2> HIDE DEF first
  <2>3. Found(0)
    BY <2>1 DEF NULL
  <2> HIDE DEF Found
  <2> QED BY <2>2, <2>3
<1>5. ASSUME NEW m \in 0..n, m # n, m \in S PROVE m + 1 \in S
  <2>0. m + 1 \in 1..n /\ m + 1 \in 0..n /\ records[m + 1].next \in 0..m /\ m + 1 # 0
    BY <1>0, <1>5
  <2>1. Chain(records, m + 1) = {m + 1} \union Chain(records, records[m + 1].next)
    BY <2>0, ChainStep
  <2>2. first[m + 1] = IF records[m + 1].key = key THEN m + 1
                       ELSE first[records[m + 1].next]
    BY <1>3, <2>0 DEF NULL
  <2>3. Found(records[m + 1].next)
    BY <1>5, <2>0
  <2>4. Found(m + 1)
    BY <2>1, <2>2, <2>3
  <2> HIDE DEF Found
  <2> QED BY <1>5, <2>4
<1>6. 0..n \subseteq S
  <2> HIDE DEF S
  <2> QED BY <1>0, <1>4, <1>5, InductionUpTo
<1> QED BY <1>0, <1>2, <1>6

-----------------------------------------------------------------------------
(* Memory.                                                                 *)

LEMMA Sizes ==
    ASSUME ProfilerAssumption
    PROVE  /\ WORD \in Nat /\ WORD > 0 /\ RECORD \in Nat /\ RECORD > 0
           /\ SLAB \in Nat /\ HISTOGRAM \in Nat /\ HISTOGRAM > 0
           /\ RECORD <= SLAB /\ HEAP_LIMIT \in Nat
           /\ Increments \subseteq Nat \ {0}
BY DEF ProfilerAssumption

\* The record memory, field by field: the provers do not see that an EXCEPT of
\* three fields stays in a set of records.
MemoryOK(m) ==
    /\ DOMAIN m = {"heap_end", "slab_ptr", "slab_size", "got"}
    /\ m.heap_end \in Nat /\ m.slab_ptr \in Int /\ m.slab_size \in Nat
    /\ m.got \in Int

LEMMA Division ==
    ASSUME NEW n \in Nat, NEW d \in Nat, d > 0
    PROVE  /\ n \div d \in Nat /\ n % d \in 0..(d - 1)
           /\ n = d * (n \div d) + (n % d)
BY SMT

LEMMA Times ==
    ASSUME NEW m \in Nat, NEW n \in Nat PROVE m * n \in Nat /\ m * n = n * m
BY SMT

LEMMA AlignedUp ==
    ASSUME ProfilerAssumption, NEW a \in Nat
    PROVE  Aligned(a) \in Nat /\ Aligned(a) >= a
<1>1. WORD \in Nat /\ WORD > 0 /\ a + WORD - 1 \in Nat
  BY Sizes
<1> DEFINE n == a + WORD - 1
           q == n \div WORD
           r == n % WORD
<1>2. n \in Nat /\ q \in Nat /\ r \in 0..(WORD - 1) /\ n = WORD * q + r
  <2> HIDE DEF n
  <2> QED BY <1>1, Division DEF n
<1>3. q * WORD \in Nat /\ q * WORD = WORD * q
  <2> HIDE DEF q, n
  <2> QED BY <1>1, <1>2, Times
<1>4. Aligned(a) = q * WORD
  BY DEF Aligned
<1> DEFINE t == q * WORD
<1>5. n = t + r /\ t \in Nat
  BY <1>2, <1>3
<1>6. n = a + WORD - 1
  OBVIOUS
<1> HIDE DEF n, q, r, t
<1>7. t >= a
  BY <1>1, <1>2, <1>5, <1>6
<1> QED BY <1>4, <1>5, <1>7 DEF t

\* What sbrk returns was beyond the end of the heap, or it failed.
LEMMA SbrkFacts ==
    ASSUME ProfilerAssumption, NEW m, MemoryOK(m), NEW incr \in Nat
    PROVE  LET s == Sbrk(m, incr) IN
           /\ MemoryOK(s) /\ s.slab_ptr = m.slab_ptr /\ s.slab_size = m.slab_size
           /\ s.heap_end >= m.heap_end
           /\ s.got # -1 => /\ s.got >= m.heap_end /\ s.got + incr = s.heap_end
                            /\ s.heap_end <= HEAP_LIMIT
<1>1. /\ m.heap_end \in Nat /\ Aligned(m.heap_end) \in Nat
      /\ Aligned(m.heap_end) >= m.heap_end /\ HEAP_LIMIT \in Nat
  BY AlignedUp, Sizes DEF MemoryOK
<1> QED BY <1>1 DEF Sbrk, SbrkFrom, MemoryOK

\* A record is cut from the slab, or from a new one.
LEMMA AllocatedFacts ==
    ASSUME ProfilerAssumption, NEW m, MemoryOK(m)
    PROVE  LET s == Allocated(m) IN
           /\ MemoryOK(s) /\ s.heap_end >= m.heap_end
           /\ s.slab_ptr = s.got + RECORD
           /\ \/ /\ s.heap_end = m.heap_end /\ s.got = m.slab_ptr
                 /\ s.slab_size + RECORD = m.slab_size
              \/ /\ s.got # -1 => /\ s.got >= m.heap_end /\ s.got + SLAB = s.heap_end
                                  /\ s.heap_end <= HEAP_LIMIT
                 /\ s.slab_size + RECORD = SLAB
<1> DEFINE b == Sbrk(m, SLAB)
           c == [b EXCEPT !.slab_ptr = b.got, !.slab_size = SLAB]
<1>1. /\ MemoryOK(b) /\ b.heap_end >= m.heap_end
      /\ b.got # -1 => /\ b.got >= m.heap_end /\ b.got + SLAB = b.heap_end
                       /\ b.heap_end <= HEAP_LIMIT
  BY SbrkFacts, Sizes
<1>2. Allocated(m) = IF RECORD > m.slab_size THEN Taken(c) ELSE Taken(m)
  BY DEF Allocated
<1> HIDE DEF b
<1>3. /\ MemoryOK(c) /\ c.slab_ptr = b.got /\ c.heap_end = b.heap_end
      /\ c.slab_size = SLAB
  BY <1>1, Sizes DEF MemoryOK
<1> HIDE DEF c
<1>4. ASSUME NEW x, MemoryOK(x), RECORD <= x.slab_size
      PROVE  /\ MemoryOK(Taken(x)) /\ Taken(x).heap_end = x.heap_end
             /\ Taken(x).got = x.slab_ptr /\ Taken(x).slab_ptr = x.slab_ptr + RECORD
             /\ Taken(x).slab_size = x.slab_size - RECORD
  BY <1>4, Sizes DEF Taken, MemoryOK
<1>5. CASE RECORD > m.slab_size
  <2>1. /\ MemoryOK(Taken(c)) /\ Taken(c).heap_end = b.heap_end
        /\ Taken(c).got = b.got /\ Taken(c).slab_ptr = b.got + RECORD
        /\ Taken(c).slab_size = SLAB - RECORD
    BY <1>3, <1>4, Sizes
  <2> QED BY <1>1, <1>2, <1>5, <2>1, Sizes DEF MemoryOK
<1>6. CASE ~(RECORD > m.slab_size)
  <2>1. m.slab_size \in Nat /\ m.heap_end \in Nat /\ RECORD <= m.slab_size
    BY <1>6, Sizes DEF MemoryOK
  <2>2. /\ MemoryOK(Taken(m)) /\ Taken(m).heap_end = m.heap_end
        /\ Taken(m).got = m.slab_ptr /\ Taken(m).slab_ptr = m.slab_ptr + RECORD
        /\ Taken(m).slab_size = m.slab_size - RECORD
    BY <1>4, <2>1
  <2> QED BY <1>2, <1>6, <2>1, <2>2, Sizes
<1> QED BY <1>5, <1>6

-----------------------------------------------------------------------------
(* The invariant of the graph and of who walks it.                         *)

Entry == [addr : Int, next : Nat, key : Functions, arc_head : Nat]
Arc == [addr : Int, next : Nat, key : Callers, count : Nat]
Registers == [self_pc : Functions \union {NULL}, from_pc : Callers \union {NULL},
              fn_entry : Nat, arc : Nat, count : Nat]
Places == {"out", "find_entry", "find_arc", "load", "store",
           "record", "sampler", "rate", "start", "link"}

\* The entries are linked in the order of their allocation.
GraphInv ==
    /\ entries \in Seq(Entry) /\ arcs \in Seq(Arc) /\ fn_head = Len(entries)
    /\ \A e \in 1..Len(entries) : /\ entries[e].next = e - 1
                                  /\ entries[e].arc_head \in 1..Len(arcs)
    /\ \A a \in 1..Len(arcs) : arcs[a].next \in 0..(a - 1)

ArcsOf(e) == Chain(arcs, entries[e].arc_head)

\* What an actor at l with registers r found is still there.
Sound(l, r) ==
    /\ l # "out" => r.self_pc \in Functions /\ r.from_pc \in Callers
    /\ l \notin {"out", "find_entry"} /\ r.fn_entry # NULL =>
           /\ r.fn_entry \in 1..Len(entries)
           /\ entries[r.fn_entry].key = r.self_pc
    /\ l = "find_arc" => r.fn_entry # NULL
    /\ l \in {"load", "store"} =>
           /\ r.fn_entry # NULL
           /\ r.arc \in ArcsOf(r.fn_entry)
           /\ arcs[r.arc].key = r.from_pc

ActorInv ==
    /\ pc \in [Actors -> Places] /\ regs \in [Actors -> Registers]
    /\ calls \in [Calls -> Nat]
    /\ \A p \in Actors : Sound(pc[p], regs[p])

WalkInv == MemoryOK(memory) /\ GraphInv /\ ActorInv

LEMMA Updated ==
    ASSUME NEW S, NEW s \in Seq(S), NEW k \in 1..Len(s), NEW v \in S
    PROVE  LET t == [s EXCEPT ![k] = v] IN
           /\ t \in Seq(S) /\ Len(t) = Len(s)
           /\ \A i \in 1..Len(s) : t[i] = IF i = k THEN v ELSE s[i]
OBVIOUS

LEMMA Appended ==
    ASSUME NEW S, NEW s \in Seq(S), NEW v \in S
    PROVE  LET t == Append(s, v) IN
           /\ t \in Seq(S) /\ Len(t) = Len(s) + 1
           /\ \A i \in 1..Len(s) : t[i] = s[i]
           /\ t[Len(s) + 1] = v
OBVIOUS

LEMMA GraphLinked ==
    ASSUME GraphInv
    PROVE  /\ Linked(entries) /\ Linked(arcs)
           /\ Chain(entries, fn_head) = 1..Len(entries)
           /\ \A e \in 1..Len(entries) : ArcsOf(e) \subseteq 1..Len(arcs)
<1>1. Len(entries) \in Nat /\ DOMAIN entries = 1..Len(entries)
      /\ Len(arcs) \in Nat /\ DOMAIN arcs = 1..Len(arcs)
  BY DEF GraphInv
<1>2. Linked(entries)
  <2>1. \A e \in 1..Len(entries) : entries[e].next \in 0..(e - 1)
    BY <1>1 DEF GraphInv
  <2> QED BY <1>1, <2>1 DEF Linked
<1>3. Linked(arcs)
  BY <1>1 DEF Linked, GraphInv
<1>4. Chain(entries, fn_head) = 1..Len(entries)
  <2>1. fn_head \in 0..Len(entries) /\ fn_head = Len(entries)
    BY <1>1 DEF GraphInv
  <2>2. \A k \in 1..Len(entries) : entries[k].next = k - 1
    BY DEF GraphInv
  <2> QED BY <1>2, <2>1, <2>2, ChainAll
<1>5. ASSUME NEW e \in 1..Len(entries) PROVE ArcsOf(e) \subseteq 1..Len(arcs)
  <2>1. entries[e].arc_head \in 0..Len(arcs) /\ entries[e].arc_head \in 1..Len(arcs)
    BY <1>1 DEF GraphInv
  <2>2. Chain(arcs, entries[e].arc_head) \subseteq 1..entries[e].arc_head
    BY <1>3, <2>1, ChainWithin
  <2> QED BY <1>1, <2>1, <2>2 DEF ArcsOf
<1> QED BY <1>2, <1>3, <1>4, <1>5

LEMMA CopiesAre ==
    ASSUME GraphInv, NEW f, NEW c, NEW a
    PROVE  a \in Copies(f, c) <=>
               \E e \in 1..Len(entries) : /\ entries[e].key = f /\ a \in ArcsOf(e)
                                          /\ arcs[a].key = c
BY GraphLinked DEF Copies, ArcsOf

LEMMA CopiesAreNext ==
    GraphInv' => \A f, c, a : a \in Copies(f, c)' <=>
                    \E e \in 1..Len(entries') : /\ entries'[e].key = f
                                                /\ a \in ArcsOf(e)'
                                                /\ arcs'[a].key = c
<1>1. GraphInv => \A f, c, a : a \in Copies(f, c) <=>
                    \E e \in 1..Len(entries) : /\ entries[e].key = f
                                               /\ a \in ArcsOf(e)
                                               /\ arcs[a].key = c
  BY CopiesAre
<1>2. (GraphInv => \A f, c, a : a \in Copies(f, c) <=>
                     \E e \in 1..Len(entries) : /\ entries[e].key = f
                                                /\ a \in ArcsOf(e)
                                                /\ arcs[a].key = c)'
  BY <1>1, PTL
<1> QED BY <1>2

-----------------------------------------------------------------------------
(* The steps, without the bounds: any number of calls and of blocks.       *)

Entered(p) == \E f \in Functions, c \in Callers :
    /\ At(p, "out")
    /\ regs' = [regs EXCEPT ![p].self_pc = f, ![p].from_pc = c]
    /\ Goto(p, "find_entry")
    /\ UNCHANGED <<graphVars, memory, samplerVars, blocks, historyVars>>

Given == \E incr \in Increments :
    /\ memory' = Sbrk(memory, incr)
    /\ blocks' = IF memory'.got = -1 THEN blocks
                 ELSE blocks \union {[base |-> memory'.got, size |-> incr]}
    /\ UNCHANGED <<graphVars, samplerVars, pc, regs, historyVars>>

\* Steps that leave the graph, the actors and the memory alone.
Aside == UNCHANGED <<graphVars, memory, pc, regs, calls>>

\* One actor goes on; the graph, the memory and the calls stay.
Walks(p) ==
    \/ Entered(p) \/ FindEntry(p) \/ FindArc(p) \/ Load(p) \/ Record(p)
    \/ ClearNeed(p) \/ NoRate(p) \/ StartAlarm(p)

Unbounded ==
    \/ Given \/ ClockStarts
    \/ \E p \in Actors : Walks(p) \/ Store(p) \/ Histogram(p) \/ Link(p)

LEMMA WithoutBounds == Next => Unbounded
BY DEF Next, Step, Malloc, Mcount, Unbounded, Given, Walks, Entered

LEMMA ActorMoves ==
    ASSUME ActorInv, NEW p \in Actors, NEW l \in Places, NEW r \in Registers,
           pc' = [pc EXCEPT ![p] = l], regs' = [regs EXCEPT ![p] = r],
           calls' \in [Calls -> Nat],
           Sound(l, r)', \A j, x : Sound(j, x) => Sound(j, x)'
    PROVE  ActorInv'
<1>1. pc' \in [Actors -> Places] /\ regs' \in [Actors -> Registers]
  BY DEF ActorInv
<1>2. ASSUME NEW q \in Actors PROVE Sound(pc[q], regs[q])'
  <2>1. CASE q = p
    <3>1. pc'[q] = l /\ regs'[q] = r
      BY <2>1 DEF ActorInv
    <3> QED BY <3>1 DEF Sound
  <2>2. CASE q # p
    <3>1. pc'[q] = pc[q] /\ regs'[q] = regs[q] /\ Sound(pc[q], regs[q])
      BY <2>2 DEF ActorInv
    <3>2. PICK j, x : j = pc[q] /\ x = regs[q]
      OBVIOUS
    <3>3. Sound(j, x)'
      BY <3>1, <3>2
    <3> QED BY <3>1, <3>2, <3>3 DEF Sound
  <2> QED BY <2>1, <2>2
<1> QED BY <1>1, <1>2 DEF ActorInv

LEMMA GraphStays ==
    ASSUME GraphInv, UNCHANGED graphVars
    PROVE  /\ GraphInv'
           /\ \A j, x : Sound(j, x)' <=> Sound(j, x)
           /\ \A f, c : Copies(f, c)' = Copies(f, c)
BY DEF graphVars, GraphInv, Sound, ArcsOf, Copies

LEMMA WalksKeep ==
    ASSUME WalkInv, NEW p \in Actors, Walks(p)
    PROVE  WalkInv' /\ UNCHANGED <<graphVars, memory, calls, blocks>>
<1> USE DEF NULL
<1>1. UNCHANGED <<graphVars, memory, calls, blocks>>
  BY DEF Walks, Entered, FindEntry, FindArc, Load, Record, ClearNeed, NoRate,
         StartAlarm, historyVars
<1>2. GraphInv' /\ \A j, x : Sound(j, x)' <=> Sound(j, x)
  BY <1>1, GraphStays DEF WalkInv
<1>3. MemoryOK(memory)'
  BY <1>1 DEF WalkInv, MemoryOK
<1>4. calls' \in [Calls -> Nat] /\ ActorInv
  BY <1>1 DEF WalkInv, ActorInv
<1>5. pc[p] \in Places /\ regs[p] \in Registers /\ Sound(pc[p], regs[p])
      /\ regs = [regs EXCEPT ![p] = regs[p]] /\ pc \in [Actors -> Places]
      /\ regs \in [Actors -> Registers]
  BY DEF WalkInv, ActorInv
<1>6. ASSUME NEW l \in Places, NEW r \in Registers, pc' = [pc EXCEPT ![p] = l],
             regs' = [regs EXCEPT ![p] = r], Sound(l, r)
      PROVE  ActorInv'
  BY <1>2, <1>4, <1>6, ActorMoves
<1>7. CASE Entered(p)
  <2>1. PICK f \in Functions, c \in Callers :
          /\ pc[p] = "out" /\ regs' = [regs EXCEPT ![p].self_pc = f, ![p].from_pc = c]
          /\ pc' = [pc EXCEPT ![p] = "find_entry"]
    BY <1>7 DEF Entered, At, Goto
  <2> DEFINE r == [regs[p] EXCEPT !.self_pc = f, !.from_pc = c]
  <2>2. regs' = [regs EXCEPT ![p] = r]
    BY <1>5, <2>1
  <2>3. r \in Registers /\ r.self_pc = f /\ r.from_pc = c
    BY <1>5 DEF Registers
  <2>4. Sound("find_entry", r)
    BY <2>3 DEF Sound
  <2> QED BY <1>2, <1>3, <1>1, <1>6, <2>1, <2>2, <2>3, <2>4 DEF WalkInv, Places
<1>8. CASE FindEntry(p)
  <2> DEFINE e == First(entries, regs[p].self_pc, fn_head)
             l == IF e = NULL THEN "record" ELSE "find_arc"
             r == [regs[p] EXCEPT !.fn_entry = e]
  <2>1. /\ pc[p] = "find_entry" /\ regs' = [regs EXCEPT ![p] = r]
        /\ pc' = [pc EXCEPT ![p] = l]
    BY <1>8 DEF FindEntry, At, Goto
  <2>2. e = NULL \/ (e \in 1..Len(entries) /\ entries[e].key = regs[p].self_pc)
    <3>1. Linked(entries) /\ fn_head \in 0..Len(entries)
          /\ Chain(entries, fn_head) = 1..Len(entries)
      BY GraphLinked DEF WalkInv, GraphInv, Linked
    <3> QED BY <3>1, FirstFound
  <2> HIDE DEF e
  <2>3. e \in Nat
    BY <2>2 DEF WalkInv, GraphInv
  <2>4. /\ r \in Registers /\ r.fn_entry = e /\ r.self_pc = regs[p].self_pc
        /\ r.from_pc = regs[p].from_pc
    BY <1>5, <2>3 DEF Registers
  <2>5. l \in Places
    BY DEF Places
  <2>6. Sound(l, r)
    <3> HIDE DEF r
    <3> QED BY <1>5, <2>1, <2>2, <2>4 DEF Sound
  <2> HIDE DEF r, l
  <2>7. ActorInv'
    BY <1>6, <2>1, <2>4, <2>5, <2>6
  <2> QED BY <1>1, <1>2, <1>3, <2>7 DEF WalkInv
<1>9. CASE FindArc(p)
  <2> DEFINE f == regs[p].fn_entry
             a == First(arcs, regs[p].from_pc, entries[f].arc_head)
             l == IF a = NULL THEN "record" ELSE "load"
             r == [regs[p] EXCEPT !.arc = a]
  <2>1. /\ pc[p] = "find_arc" /\ regs' = [regs EXCEPT ![p] = r]
        /\ pc' = [pc EXCEPT ![p] = l]
    BY <1>9 DEF FindArc, At, Goto
  <2>2. f # NULL /\ f \in 1..Len(entries) /\ entries[f].key = regs[p].self_pc
    BY <1>5, <2>1 DEF Sound
  <2>3. a = NULL \/ (a \in ArcsOf(f) /\ arcs[a].key = regs[p].from_pc)
    <3>1. Linked(arcs) /\ entries[f].arc_head \in 0..Len(arcs)
      BY <2>2, GraphLinked DEF WalkInv, GraphInv
    <3> QED BY <3>1, FirstFound DEF ArcsOf
  <2>4. a \in Nat
    BY <2>2, <2>3, GraphLinked DEF WalkInv, GraphInv
  <2> HIDE DEF a
  <2>5. /\ r \in Registers /\ r.fn_entry = f /\ r.self_pc = regs[p].self_pc
        /\ r.from_pc = regs[p].from_pc /\ r.arc = a
    BY <1>5, <2>4 DEF Registers
  <2>6. l \in Places
    BY DEF Places
  <2>7. Sound(l, r)
    <3> HIDE DEF r, f
    <3> QED BY <1>5, <2>1, <2>2, <2>3, <2>5 DEF Sound
  <2> HIDE DEF r, l
  <2>8. ActorInv'
    BY <1>6, <2>1, <2>5, <2>6, <2>7
  <2> QED BY <1>1, <1>2, <1>3, <2>8 DEF WalkInv
<1>10. CASE Load(p)
  <2> DEFINE r == [regs[p] EXCEPT !.count = arcs[regs[p].arc].count]
  <2>1. /\ pc[p] = "load" /\ regs' = [regs EXCEPT ![p] = r]
        /\ pc' = [pc EXCEPT ![p] = "store"]
    BY <1>10 DEF Load, At, Goto
  <2>2. regs[p].arc \in 1..Len(arcs)
    BY <1>5, <2>1, GraphLinked DEF Sound, WalkInv
  <2>3. arcs[regs[p].arc].count \in Nat
    <3>1. arcs[regs[p].arc] \in Arc
      BY <2>2 DEF WalkInv, GraphInv
    <3> QED BY <3>1 DEF Arc
  <2>4. /\ r \in Registers /\ r.fn_entry = regs[p].fn_entry /\ r.arc = regs[p].arc
        /\ r.self_pc = regs[p].self_pc /\ r.from_pc = regs[p].from_pc
    BY <1>5, <2>3 DEF Registers
  <2>5. Sound("store", r)
    <3> HIDE DEF r
    <3> QED BY <1>5, <2>1, <2>4 DEF Sound
  <2> HIDE DEF r
  <2>6. ActorInv'
    BY <1>6, <2>1, <2>4, <2>5 DEF Places
  <2> QED BY <1>1, <1>2, <1>3, <2>6 DEF WalkInv
<1>11. CASE Record(p) \/ ClearNeed(p) \/ NoRate(p) \/ StartAlarm(p)
  <2>1. PICK l \in {"sampler", "link", "rate"} :
          /\ pc' = [pc EXCEPT ![p] = l] /\ regs' = regs
          /\ pc[p] \in {"record", "sampler", "rate", "start"}
    BY <1>11 DEF Record, ClearNeed, NoRate, StartAlarm, At, Goto
  <2>2. Sound(l, regs[p])
    BY <1>5, <2>1 DEF Sound
  <2>3. l \in Places /\ regs' = [regs EXCEPT ![p] = regs[p]]
    BY <1>5, <2>1 DEF Places
  <2>4. ActorInv'
    BY <1>5, <1>6, <2>1, <2>2, <2>3
  <2> QED BY <1>1, <1>2, <1>3, <2>4 DEF WalkInv
<1> QED BY <1>1, <1>7, <1>8, <1>9, <1>10, <1>11 DEF Walks

\* A count that is stored leaves the lists alone.
LEMMA StoreKeeps ==
    ASSUME WalkInv, NEW p \in Actors, Store(p)
    PROVE  /\ WalkInv'
           /\ UNCHANGED <<entries, fn_head, memory, samplerVars, blocks>>
           /\ regs[p].arc \in 1..Len(arcs) /\ Len(arcs') = Len(arcs)
           /\ \A i \in 1..Len(arcs) :
                 /\ arcs'[i].addr = arcs[i].addr /\ arcs'[i].key = arcs[i].key
                 /\ arcs'[i].count = IF i = regs[p].arc THEN regs[p].count + 1
                                     ELSE arcs[i].count
           /\ \A e \in 1..Len(entries) : ArcsOf(e)' = ArcsOf(e)
           /\ \A f, c : Copies(f, c)' = Copies(f, c)
           /\ regs[p].self_pc \in Functions /\ regs[p].from_pc \in Callers
           /\ regs[p].arc \in Copies(regs[p].self_pc, regs[p].from_pc)
           /\ pc[p] = "store"
           /\ calls' = [calls EXCEPT ![<<regs[p].self_pc, regs[p].from_pc>>] = @ + 1]
<1> USE DEF NULL
<1> DEFINE a == regs[p].arc
           f == regs[p].self_pc
           c == regs[p].from_pc
<1>1. /\ pc[p] = "store" /\ arcs' = [arcs EXCEPT ![a].count = regs[p].count + 1]
      /\ calls' = [calls EXCEPT ![<<f, c>>] = @ + 1]
      /\ pc' = [pc EXCEPT ![p] = "out"] /\ regs' = [regs EXCEPT ![p] = Unused]
      /\ UNCHANGED <<entries, fn_head, memory, samplerVars, blocks>>
  BY DEF Store, At, Return, Goto
<1>2. Sound(pc[p], regs[p]) /\ regs[p] \in Registers /\ ActorInv /\ GraphInv
  BY DEF WalkInv, ActorInv
<1>3. /\ f \in Functions /\ c \in Callers /\ regs[p].fn_entry \in 1..Len(entries)
      /\ entries[regs[p].fn_entry].key = f
      /\ a \in ArcsOf(regs[p].fn_entry) /\ arcs[a].key = c
      /\ regs[p].count \in Nat
  BY <1>1, <1>2 DEF Sound, Registers
<1>4. a \in 1..Len(arcs) /\ a \in Copies(f, c)
  BY <1>2, <1>3, GraphLinked, CopiesAre
<1> DEFINE v == [arcs[a] EXCEPT !.count = regs[p].count + 1]
<1>5. arcs \in Seq(Arc) /\ arcs[a] \in Arc
  BY <1>2, <1>4 DEF GraphInv
<1>6. /\ v \in Arc /\ v.addr = arcs[a].addr /\ v.key = arcs[a].key
      /\ v.next = arcs[a].next /\ v.count = regs[p].count + 1
  <2>1. arcs[a].addr \in Int /\ arcs[a].next \in Nat /\ arcs[a].key \in Callers
    BY <1>5 DEF Arc
  <2>2. regs[p].count + 1 \in Nat
    BY <1>3
  <2>3. v \in Arc
    BY <1>5, <2>2 DEF Arc
  <2>4. /\ v.addr = arcs[a].addr /\ v.key = arcs[a].key
        /\ v.next = arcs[a].next /\ v.count = regs[p].count + 1
    BY <1>5 DEF Arc
  <2> QED BY <2>3, <2>4
<1>7. arcs' = [arcs EXCEPT ![a] = v]
  BY <1>1
<1> HIDE DEF v
<1>8. /\ arcs' \in Seq(Arc) /\ Len(arcs') = Len(arcs)
      /\ \A i \in 1..Len(arcs) : arcs'[i] = IF i = a THEN v ELSE arcs[i]
  BY <1>4, <1>5, <1>6, <1>7, Updated
<1>9. \A i \in 1..Len(arcs) :
         /\ arcs'[i].addr = arcs[i].addr /\ arcs'[i].key = arcs[i].key
         /\ arcs'[i].next = arcs[i].next
         /\ arcs'[i].count = IF i = a THEN regs[p].count + 1 ELSE arcs[i].count
  BY <1>6, <1>8
<1>10. GraphInv'
  BY <1>1, <1>2, <1>8, <1>9 DEF GraphInv
<1>11. \A e \in 1..Len(entries) : ArcsOf(e)' = ArcsOf(e)
  <2> SUFFICES ASSUME NEW e \in 1..Len(entries)
               PROVE  Chain(arcs', entries[e].arc_head) = Chain(arcs, entries[e].arc_head)
    BY <1>1 DEF ArcsOf
  <2>1. Linked(arcs) /\ entries[e].arc_head \in 0..Len(arcs)
    BY <1>2, GraphLinked DEF GraphInv
  <2>2. Linked(arcs')
    BY <1>8, <1>9, <2>1 DEF Linked
  <2>3. Len(arcs) <= Len(arcs')
    BY <1>8, <2>1 DEF Linked
  <2> QED BY <1>9, <2>1, <2>2, <2>3, ChainKept
<1>12. \A g, b : Copies(g, b)' = Copies(g, b)
  <2> SUFFICES ASSUME NEW g, NEW b, NEW x
               PROVE  x \in Copies(g, b)' <=> x \in Copies(g, b)
    OBVIOUS
  <2>1. x \in Copies(g, b) <=> \E e \in 1..Len(entries) :
            entries[e].key = g /\ x \in ArcsOf(e) /\ arcs[x].key = b
    BY <1>2, CopiesAre
  <2>2. x \in Copies(g, b)' <=> \E e \in 1..Len(entries) :
            entries[e].key = g /\ x \in ArcsOf(e)' /\ arcs'[x].key = b
    BY <1>1, <1>10, CopiesAreNext
  <2>3. \A e \in 1..Len(entries) : x \in ArcsOf(e) => arcs'[x].key = arcs[x].key
    BY <1>2, <1>9, GraphLinked
  <2> QED BY <1>11, <2>1, <2>2, <2>3
<1>13. calls' \in [Calls -> Nat]
  BY <1>1, <1>2, <1>3 DEF ActorInv, Calls
<1>14. ActorInv'
  <2>1. Unused \in Registers /\ "out" \in Places
    BY DEF Unused, Registers, Places
  <2>2. Sound("out", Unused)'
    BY DEF Sound
  <2>3. ASSUME NEW j, NEW x, Sound(j, x) PROVE Sound(j, x)'
    <3>1. CASE j \in {"load", "store"}
      <4>1. /\ x.fn_entry \in 1..Len(entries) /\ x.arc \in ArcsOf(x.fn_entry)
            /\ x.arc \in 1..Len(arcs)
        BY <1>2, <2>3, <3>1, GraphLinked DEF Sound
      <4>2. x.arc \in ArcsOf(x.fn_entry)' /\ arcs'[x.arc].key = arcs[x.arc].key
        BY <1>9, <1>11, <4>1
      <4> QED BY <1>1, <2>3, <4>2 DEF Sound
    <3>2. CASE j \notin {"load", "store"}
      BY <1>1, <2>3, <3>2 DEF Sound
    <3> QED BY <3>1, <3>2
  <2> QED BY <1>1, <1>2, <1>13, <2>1, <2>2, <2>3, ActorMoves
<1>15. WalkInv'
  BY <1>1, <1>10, <1>14 DEF WalkInv, MemoryOK
<1> QED BY <1>1, <1>3, <1>4, <1>8, <1>9, <1>11, <1>12, <1>15

\* What an insertion does to the two sequences: arc Len(arcs) + 1 is the new
\* head of the chain of entry k, which may be new itself.
Inserted(p, k, h) ==
    /\ pc[p] = "link" /\ MemoryOK(memory')
    /\ arcs' \in Seq(Arc) /\ Len(arcs') = Len(arcs) + 1
    /\ \A i \in 1..Len(arcs) : arcs'[i] = arcs[i]
    /\ arcs'[Len(arcs) + 1].addr = memory'.got
    /\ arcs'[Len(arcs) + 1].next = h
    /\ arcs'[Len(arcs) + 1].key = regs[p].from_pc
    /\ arcs'[Len(arcs) + 1].count = 1
    /\ entries' \in Seq(Entry) /\ fn_head' = Len(entries')
    /\ entries'[k].key = regs[p].self_pc /\ entries'[k].arc_head = Len(arcs) + 1
    /\ entries'[k].next = k - 1
    /\ \A e \in 1..Len(entries) : e # k => entries'[e] = entries[e]
    /\ \/ /\ k \in 1..Len(entries) /\ Len(entries') = Len(entries)
          /\ h = entries[k].arc_head /\ entries[k].key = regs[p].self_pc
          /\ entries'[k].addr = entries[k].addr
          /\ memory' = Allocated(memory)
       \/ /\ k = Len(entries) + 1 /\ Len(entries') = Len(entries) + 1
          /\ h = NULL /\ entries'[k].addr = Allocated(memory).got
          /\ memory' = Allocated(Allocated(memory))

LEMMA LinkInserts ==
    ASSUME ProfilerAssumption, WalkInv, NEW p \in Actors, Link(p)
    PROVE  \E k, h : Inserted(p, k, h)
<1> USE DEF NULL
<1> DEFINE r == regs[p]
           n == Len(arcs)
<1>1. /\ pc[p] = "link" /\ r \in Registers /\ Sound(pc[p], r) /\ GraphInv
      /\ MemoryOK(memory)
  BY DEF Link, At, WalkInv, ActorInv
<1>2. r.self_pc \in Functions /\ r.from_pc \in Callers /\ n \in Nat
      /\ entries \in Seq(Entry) /\ arcs \in Seq(Arc) /\ Len(entries) \in Nat
  BY <1>1 DEF Sound, GraphInv
<1>3. CASE r.fn_entry # NULL
  <2> DEFINE k == r.fn_entry
             h == entries[k].arc_head
             rec == [addr |-> memory'.got, next |-> h, key |-> r.from_pc, count |-> 1]
             ent == [entries[k] EXCEPT !.arc_head = n + 1]
  <2>1. k \in 1..Len(entries) /\ entries[k].key = r.self_pc
        /\ entries[k].next = k - 1 /\ h \in 1..n
    BY <1>1, <1>3 DEF Sound, GraphInv
  <2>2. /\ memory' = Allocated(memory) /\ arcs' = Append(arcs, rec)
        /\ entries' = [entries EXCEPT ![k] = ent] /\ fn_head' = fn_head
    BY <1>3 DEF Link, ArcNext, FirstCount
  <2>3. MemoryOK(memory') /\ memory'.got \in Int
    <3>1. MemoryOK(Allocated(memory))
      BY <1>1, AllocatedFacts
    <3> QED BY <2>2, <3>1 DEF MemoryOK
  <2>4. rec \in Arc
    BY <1>2, <2>1, <2>3 DEF Arc
  <2>5. /\ arcs' \in Seq(Arc) /\ Len(arcs') = n + 1 /\ arcs'[n + 1] = rec
        /\ \A i \in 1..n : arcs'[i] = arcs[i]
    <3> HIDE DEF rec
    <3> QED BY <1>2, <2>2, <2>4, Appended
  <2>6. entries[k] \in Entry
    BY <1>2, <2>1
  <2>7. /\ ent \in Entry /\ ent.arc_head = n + 1 /\ ent.key = r.self_pc
        /\ ent.next = k - 1 /\ ent.addr = entries[k].addr
    <3>1. ent \in Entry
      <4>1. ASSUME NEW x \in Entry, NEW v \in Nat
            PROVE  [x EXCEPT !.arc_head = v] \in Entry
        BY DEF Entry
      <4>2. n + 1 \in Nat
        BY <1>2
      <4> QED BY <2>6, <4>1, <4>2
    <3>2. /\ ent.arc_head = n + 1 /\ ent.key = entries[k].key
          /\ ent.next = entries[k].next /\ ent.addr = entries[k].addr
      BY <2>6 DEF Entry
    <3> QED BY <2>1, <3>1, <3>2
  <2>8. /\ entries' \in Seq(Entry) /\ Len(entries') = Len(entries)
        /\ \A e \in 1..Len(entries) : entries'[e] = IF e = k THEN ent ELSE entries[e]
    <3> HIDE DEF ent
    <3> QED BY <1>2, <2>1, <2>2, <2>7, Updated
  <2>9. fn_head' = Len(entries')
    BY <1>1, <2>2, <2>8 DEF GraphInv
  <2>10. rec.addr = memory'.got /\ rec.next = h /\ rec.key = r.from_pc /\ rec.count = 1
    OBVIOUS
  <2> HIDE DEF rec, ent
  <2>11. Inserted(p, k, h)
    BY <1>1, <2>1, <2>2, <2>3, <2>5, <2>7, <2>8, <2>9, <2>10 DEF Inserted
  <2> QED BY <2>11
<1>4. CASE r.fn_entry = NULL
  <2> DEFINE k == Len(entries) + 1
             m == Allocated(memory)
             rec == [addr |-> memory'.got, next |-> NULL, key |-> r.from_pc, count |-> 1]
             new == [addr |-> m.got, next |-> fn_head, key |-> r.self_pc, arc_head |-> NULL]
             ent == [addr |-> m.got, next |-> fn_head, key |-> r.self_pc,
                     arc_head |-> n + 1]
  <2>1. /\ memory' = Allocated(m) /\ arcs' = Append(arcs, rec) /\ fn_head' = k
        /\ entries' = Append(entries, [new EXCEPT !.arc_head = n + 1])
    BY <1>4 DEF Link, ArcNext, FirstCount, EntryNext
  <2>2. MemoryOK(m) /\ MemoryOK(memory') /\ memory'.got \in Int /\ m.got \in Int
    <3>1. MemoryOK(m)
      BY <1>1, AllocatedFacts
    <3>2. MemoryOK(Allocated(m))
      <4> HIDE DEF m
      <4> QED BY <3>1, AllocatedFacts
    <3> QED BY <2>1, <3>1, <3>2 DEF MemoryOK
  <2> HIDE DEF m
  <2>3. fn_head = Len(entries) /\ [new EXCEPT !.arc_head = n + 1] = ent
    BY <1>1 DEF GraphInv
  <2>4. rec \in Arc /\ ent \in Entry
    BY <1>2, <2>2, <2>3 DEF Arc, Entry
  <2>5. rec.addr = memory'.got /\ rec.next = NULL /\ rec.key = r.from_pc /\ rec.count = 1
    OBVIOUS
  <2>6. ent.addr = m.got /\ ent.next = k - 1 /\ ent.key = r.self_pc /\ ent.arc_head = n + 1
    BY <1>2, <2>3
  <2> HIDE DEF rec, ent, new
  <2>7. /\ arcs' \in Seq(Arc) /\ Len(arcs') = n + 1 /\ arcs'[n + 1] = rec
        /\ \A i \in 1..n : arcs'[i] = arcs[i]
    BY <1>2, <2>1, <2>4, Appended
  <2>8. /\ entries' \in Seq(Entry) /\ Len(entries') = Len(entries) + 1
        /\ entries'[k] = ent /\ \A e \in 1..Len(entries) : entries'[e] = entries[e]
    <3>1. entries' = Append(entries, ent)
      BY <2>1, <2>3
    <3> QED BY <1>2, <2>4, <3>1, Appended
  <2>9. Inserted(p, k, NULL)
    BY <1>1, <2>1, <2>2, <2>5, <2>6, <2>7, <2>8 DEF Inserted, m
  <2> QED BY <2>9
<1> QED BY <1>3, <1>4

\* What the insertion does to the chains.
LEMMA LinkChains ==
    ASSUME WalkInv, NEW p \in Actors, NEW k, NEW h, Inserted(p, k, h)
    PROVE  /\ GraphInv' /\ k \in 1..Len(entries')
           /\ ArcsOf(k)' = {Len(arcs) + 1} \union
                              (IF k \in 1..Len(entries) THEN ArcsOf(k) ELSE {})
           /\ \A e \in 1..Len(entries) : e # k => ArcsOf(e)' = ArcsOf(e)
           /\ \A e \in 1..Len(entries) : entries'[e].key = entries[e].key
           /\ \A e \in 1..Len(entries') : e = k \/ e \in 1..Len(entries)
           /\ 1..Len(entries) \subseteq 1..Len(entries')
<1> USE DEF NULL
<1> DEFINE n == Len(arcs)
<1>1. /\ GraphInv /\ n \in Nat /\ Len(entries) \in Nat /\ Linked(arcs)
      /\ Linked(entries) /\ Len(arcs') = n + 1 /\ h \in 0..n
      /\ arcs'[n + 1].next = h /\ \A i \in 1..n : arcs'[i] = arcs[i]
  <2>1. GraphInv /\ Linked(arcs) /\ Linked(entries)
    BY GraphLinked DEF WalkInv
  <2> QED BY <2>1 DEF Inserted, GraphInv
<1>2. /\ k \in 1..Len(entries') /\ 1..Len(entries) \subseteq 1..Len(entries')
      /\ \A e \in 1..Len(entries') : e = k \/ e \in 1..Len(entries)
  BY <1>1 DEF Inserted
<1>3. \A e \in 1..Len(entries) : /\ entries'[e].key = entries[e].key
                                 /\ entries'[e].next = entries[e].next
  <2> TAKE e \in 1..Len(entries)
  <2>1. CASE e = k
    <3>1. entries[k].key = regs[p].self_pc /\ entries[k].next = k - 1
      BY <1>1, <2>1 DEF Inserted, GraphInv
    <3> QED BY <2>1, <3>1 DEF Inserted
  <2>2. CASE e # k
    BY <2>2 DEF Inserted
  <2> QED BY <2>1, <2>2
<1>4. GraphInv'
  <2>1. \A a \in 1..(n + 1) : arcs'[a].next \in 0..(a - 1)
    <3> TAKE a \in 1..(n + 1)
    <3>1. a = n + 1 \/ a \in 1..n
      BY <1>1
    <3> QED BY <1>1, <3>1 DEF GraphInv
  <2>2. \A e \in 1..Len(entries') : /\ entries'[e].next = e - 1
                                    /\ entries'[e].arc_head \in 1..(n + 1)
    <3> TAKE e \in 1..Len(entries')
    <3>1. CASE e = k
      BY <1>1, <3>1 DEF Inserted
    <3>2. CASE e # k
      BY <1>1, <1>2, <3>2 DEF Inserted, GraphInv
    <3> QED BY <3>1, <3>2
  <2> QED BY <1>1, <2>1, <2>2 DEF Inserted, GraphInv
<1>5. Linked(arcs')
  <2>1. arcs' \in Seq(Arc) /\ \A a \in 1..Len(arcs') : arcs'[a].next \in 0..(a - 1)
    BY <1>4 DEF GraphInv
  <2> QED BY <2>1 DEF Linked
<1>6. \A x \in 0..n : Chain(arcs', x) = Chain(arcs, x)
  BY <1>1, <1>5, ChainKept
<1>7. ASSUME NEW e \in 1..Len(entries), e # k PROVE ArcsOf(e)' = ArcsOf(e)
  <2>1. entries'[e] = entries[e] /\ entries[e].arc_head \in 0..n
    BY <1>1, <1>7 DEF Inserted, GraphInv
  <2> QED BY <1>6, <2>1 DEF ArcsOf
<1>8. ArcsOf(k)' = {n + 1} \union (IF k \in 1..Len(entries) THEN ArcsOf(k) ELSE {})
  <2>1. ArcsOf(k)' = Chain(arcs', n + 1)
    BY DEF ArcsOf, Inserted
  <2>2. Chain(arcs', n + 1) = {n + 1} \union Chain(arcs', h)
    <3>1. n + 1 \in 1..Len(arcs')
      BY <1>1
    <3> QED BY <1>1, <1>5, <3>1, ChainStep
  <2>3. Chain(arcs', h) = Chain(arcs, h)
    BY <1>1, <1>6
  <2>4. Chain(arcs, h) = IF k \in 1..Len(entries) THEN ArcsOf(k) ELSE {}
    <3>1. CASE k \in 1..Len(entries)
      <4>1. h = entries[k].arc_head
        BY <1>1, <3>1 DEF Inserted
      <4> QED BY <3>1, <4>1 DEF ArcsOf
    <3>2. CASE k \notin 1..Len(entries)
      <4>1. h = NULL
        BY <3>2 DEF Inserted
      <4> QED BY <1>1, <3>2, <4>1, ChainStep
    <3> QED BY <3>1, <3>2
  <2> QED BY <2>1, <2>2, <2>3, <2>4
<1> QED BY <1>2, <1>3, <1>4, <1>7, <1>8

LEMMA LinkKeeps ==
    ASSUME WalkInv, NEW p \in Actors, Link(p), NEW k, NEW h, Inserted(p, k, h)
    PROVE  /\ WalkInv'
           /\ regs[p].self_pc \in Functions /\ regs[p].from_pc \in Callers
           /\ \A f, c : Copies(f, c)' =
                 Copies(f, c) \union
                    (IF f = regs[p].self_pc /\ c = regs[p].from_pc
                     THEN {Len(arcs) + 1} ELSE {})
           /\ calls' = [calls EXCEPT ![<<regs[p].self_pc, regs[p].from_pc>>] = @ + 1]
<1> USE DEF NULL
<1> DEFINE n == Len(arcs)
<1>1. /\ calls' = [calls EXCEPT ![<<regs[p].self_pc, regs[p].from_pc>>] = @ + 1]
      /\ pc' = [pc EXCEPT ![p] = "out"] /\ regs' = [regs EXCEPT ![p] = Unused]
      /\ MemoryOK(memory') /\ pc[p] = "link"
  BY DEF Link, Return, Goto, Inserted
<1>2. /\ GraphInv' /\ k \in 1..Len(entries')
      /\ ArcsOf(k)' = {n + 1} \union (IF k \in 1..Len(entries) THEN ArcsOf(k) ELSE {})
      /\ \A e \in 1..Len(entries) : e # k => ArcsOf(e)' = ArcsOf(e)
      /\ \A e \in 1..Len(entries) : entries'[e].key = entries[e].key
      /\ \A e \in 1..Len(entries') : e = k \/ e \in 1..Len(entries)
      /\ 1..Len(entries) \subseteq 1..Len(entries')
  BY LinkChains
<1>3. Sound(pc[p], regs[p]) /\ ActorInv /\ GraphInv
  BY DEF WalkInv, ActorInv
<1>4. regs[p].self_pc \in Functions /\ regs[p].from_pc \in Callers
  BY <1>1, <1>3 DEF Sound
<1>5. n \in Nat /\ \A e \in 1..Len(entries) : ArcsOf(e) \subseteq 1..n
  BY <1>3, GraphLinked DEF GraphInv
<1>6. /\ \A i \in 1..n : arcs'[i] = arcs[i] /\ arcs'[i].key = arcs[i].key
      /\ arcs'[n + 1].key = regs[p].from_pc /\ entries'[k].key = regs[p].self_pc
  BY DEF Inserted
<1>7. \A e \in 1..Len(entries) : ArcsOf(e) \subseteq ArcsOf(e)'
  <2> TAKE e \in 1..Len(entries)
  <2>1. CASE e = k
    BY <1>2, <2>1
  <2>2. CASE e # k
    BY <1>2, <2>2
  <2> QED BY <2>1, <2>2
<1>8. ASSUME NEW f, NEW c
      PROVE  Copies(f, c)' = Copies(f, c) \union
                 (IF f = regs[p].self_pc /\ c = regs[p].from_pc THEN {n + 1} ELSE {})
  <2> SUFFICES ASSUME NEW x
               PROVE  x \in Copies(f, c)' <=>
                        \/ x \in Copies(f, c)
                        \/ f = regs[p].self_pc /\ c = regs[p].from_pc /\ x = n + 1
    OBVIOUS
  <2>1. x \in Copies(f, c) <=> \E e \in 1..Len(entries) :
            entries[e].key = f /\ x \in ArcsOf(e) /\ arcs[x].key = c
    BY <1>3, CopiesAre
  <2>2. x \in Copies(f, c)' <=> \E e \in 1..Len(entries') :
            entries'[e].key = f /\ x \in ArcsOf(e)' /\ arcs'[x].key = c
    BY <1>2, CopiesAreNext
  <2>3. ASSUME x \in Copies(f, c) PROVE x \in Copies(f, c)'
    <3>1. PICK e \in 1..Len(entries) :
            entries[e].key = f /\ x \in ArcsOf(e) /\ arcs[x].key = c
      BY <2>1, <2>3
    <3>2. x \in 1..n /\ arcs'[x].key = c /\ x \in ArcsOf(e)' /\ entries'[e].key = f
          /\ e \in 1..Len(entries')
      BY <1>2, <1>5, <1>6, <1>7, <3>1
    <3> QED BY <2>2, <3>2
  <2>4. ASSUME f = regs[p].self_pc, c = regs[p].from_pc, x = n + 1
        PROVE  x \in Copies(f, c)'
    <3>1. x \in ArcsOf(k)' /\ entries'[k].key = f /\ arcs'[x].key = c
      BY <1>2, <1>6, <2>4
    <3> QED BY <1>2, <2>2, <3>1
  <2>5. ASSUME x \in Copies(f, c)'
        PROVE  \/ x \in Copies(f, c)
               \/ f = regs[p].self_pc /\ c = regs[p].from_pc /\ x = n + 1
    <3>1. PICK e \in 1..Len(entries') :
            entries'[e].key = f /\ x \in ArcsOf(e)' /\ arcs'[x].key = c
      BY <2>2, <2>5
    <3>2. CASE e = k /\ x = n + 1
      BY <1>6, <3>1, <3>2
    <3>3. CASE ~(e = k /\ x = n + 1)
      <4>1. e \in 1..Len(entries) /\ x \in ArcsOf(e)
        BY <1>2, <3>1, <3>3
      <4>2. entries[e].key = f /\ arcs[x].key = c
        BY <1>2, <1>5, <1>6, <3>1, <4>1
      <4> QED BY <2>1, <4>1, <4>2
    <3> QED BY <3>2, <3>3
  <2> QED BY <2>3, <2>4, <2>5
<1>9. calls' \in [Calls -> Nat]
  BY <1>1, <1>3, <1>4 DEF ActorInv, Calls
<1>10. ActorInv'
  <2>1. Unused \in Registers /\ "out" \in Places
    BY DEF Unused, Registers, Places
  <2>2. Sound("out", Unused)'
    BY DEF Sound
  <2>3. ASSUME NEW j, NEW x, Sound(j, x) PROVE Sound(j, x)'
    <3>1. CASE j \in {"load", "store"}
      <4>1. /\ x.fn_entry \in 1..Len(entries) /\ x.arc \in ArcsOf(x.fn_entry)
            /\ x.arc \in 1..n
        BY <1>5, <2>3, <3>1 DEF Sound
      <4>2. /\ x.arc \in ArcsOf(x.fn_entry)' /\ arcs'[x.arc].key = arcs[x.arc].key
            /\ x.fn_entry \in 1..Len(entries')
            /\ entries'[x.fn_entry].key = entries[x.fn_entry].key
        BY <1>2, <1>6, <1>7, <4>1
      <4> QED BY <2>3, <4>2 DEF Sound
    <3>2. CASE j \notin {"load", "store"}
      BY <1>2, <2>3, <3>2 DEF Sound
    <3> QED BY <3>1, <3>2
  <2> QED BY <1>1, <1>3, <1>9, <2>1, <2>2, <2>3, ActorMoves
<1>11. WalkInv'
  BY <1>1, <1>2, <1>10 DEF WalkInv, MemoryOK
<1> QED BY <1>1, <1>4, <1>8, <1>11

\* What takes memory for something else leaves the lists alone.
LEMMA MemoryKeeps ==
    ASSUME ProfilerAssumption, WalkInv,
           \/ Given \/ ClockStarts \/ \E p \in Actors : Histogram(p)
    PROVE  WalkInv' /\ UNCHANGED <<graphVars, calls, regs, clash>>
<1>1. UNCHANGED <<graphVars, calls, regs, clash>>
  BY DEF Given, ClockStarts, Histogram, historyVars
<1>2. GraphInv' /\ \A j, x : Sound(j, x)' <=> Sound(j, x)
  BY <1>1, GraphStays DEF WalkInv
<1>3. MemoryOK(memory')
  <2>1. ASSUME NEW n \in Nat PROVE MemoryOK(Sbrk(memory, n))
    BY <2>1, SbrkFacts DEF WalkInv
  <2>2. CASE Given
    BY <2>1, <2>2, Sizes DEF Given
  <2>3. CASE ClockStarts
    <3>1. memory' = memory
      BY <2>3 DEF ClockStarts
    <3> QED BY <3>1 DEF WalkInv
  <2>4. CASE \E p \in Actors : Histogram(p)
    BY <2>1, <2>4, Sizes DEF Histogram
  <2> QED BY <2>2, <2>3, <2>4
<1>4. ActorInv'
  <2>1. CASE pc' = pc
    <3>1. PICK p \in Actors : TRUE
      BY DEF Actors
    <3>2. ASSUME NEW q \in Actors PROVE Sound(pc[q], regs[q])'
      <4>1. Sound(pc[q], regs[q]) /\ pc'[q] = pc[q] /\ regs'[q] = regs[q]
        BY <1>1, <2>1 DEF WalkInv, ActorInv
      <4>2. PICK j, x : j = pc[q] /\ x = regs[q]
        OBVIOUS
      <4>3. Sound(j, x)'
        BY <1>2, <4>1, <4>2
      <4> QED BY <4>1, <4>2, <4>3 DEF Sound
    <3> QED BY <1>1, <2>1, <3>2 DEF WalkInv, ActorInv
  <2>2. CASE \E p \in Actors : Histogram(p)
    <3>1. PICK p \in Actors : pc[p] = "rate" /\ pc' = [pc EXCEPT ![p] = "start"]
      BY <2>2 DEF Histogram, At, Goto
    <3>2. Sound("rate", regs[p]) /\ regs[p] \in Registers /\ ActorInv
      BY <3>1 DEF WalkInv, ActorInv
    <3>3. Sound("start", regs[p])'
      <4>1. Sound("start", regs[p])
        BY <3>2 DEF Sound
      <4>2. PICK x : x = regs[p]
        OBVIOUS
      <4>3. Sound("start", x)'
        BY <1>2, <4>1, <4>2
      <4> QED BY <1>1, <4>2, <4>3 DEF Sound
    <3>4. PICK x : x = regs[p]
      OBVIOUS
    <3>5. Sound("start", x)' /\ x \in Registers /\ regs' = [regs EXCEPT ![p] = x]
      BY <1>1, <3>2, <3>3, <3>4 DEF ActorInv, Sound
    <3>6. calls' \in [Calls -> Nat] /\ "start" \in Places
      BY <1>1, <3>2 DEF ActorInv, Places
    <3> QED BY <1>2, <3>1, <3>2, <3>5, <3>6, ActorMoves
  <2> QED BY <2>1, <2>2 DEF Given, ClockStarts
<1> QED BY <1>1, <1>2, <1>3, <1>4 DEF WalkInv

LEMMA WalkInitially == ASSUME ProfilerAssumption, Init PROVE WalkInv
<1> USE DEF NULL
<1>1. MemoryOK(memory)
  BY Sizes DEF Init, MemoryOK
<1>2. GraphInv
  <2>1. Len(entries) = 0 /\ Len(arcs) = 0 /\ entries = <<>> /\ arcs = <<>>
    BY DEF Init
  <2> QED BY <2>1 DEF Init, GraphInv
<1>3. ActorInv
  <2>1. Unused \in Registers /\ "out" \in Places
    BY DEF Unused, Registers, Places
  <2>2. Sound("out", Unused)
    BY DEF Sound
  <2>3. pc = [p \in Actors |-> "out"] /\ regs = [p \in Actors |-> Unused]
        /\ calls = [k \in Calls |-> 0]
    BY DEF Init
  <2> HIDE DEF Unused
  <2> QED BY <2>1, <2>2, <2>3 DEF ActorInv
<1> QED BY <1>1, <1>2, <1>3 DEF WalkInv

LEMMA VarsKeep == ASSUME WalkInv, UNCHANGED vars PROVE WalkInv'
BY DEF WalkInv, vars, graphVars, historyVars, samplerVars, MemoryOK, GraphInv, ActorInv,
       Sound, ArcsOf

LEMMA WalkNext == ASSUME ProfilerAssumption, WalkInv, [Unbounded]_vars PROVE WalkInv'
<1>1. ASSUME NEW p \in Actors, Link(p) PROVE WalkInv'
  BY <1>1, LinkInserts, LinkKeeps
<1> QED BY <1>1, VarsKeep, WalksKeep, StoreKeeps, MemoryKeeps DEF Unbounded

\* Without the bounds.
Open == Init /\ [][Unbounded]_vars

LEMMA OpenSpec == Spec => Open
BY WithoutBounds, PTL DEF Spec, Open

-----------------------------------------------------------------------------
(* Every call is in the graph.                                             *)

LEMMA RecordedNext ==
    ASSUME ProfilerAssumption, WalkInv, CallsRecorded, [Unbounded]_vars
    PROVE  CallsRecorded'
<1> SUFFICES ASSUME NEW f \in Functions, NEW c \in Callers, calls'[<<f, c>>] > 0
             PROVE  Copies(f, c)' # {}
  BY DEF CallsRecorded, Calls
<1>1. <<f, c>> \in Calls /\ calls \in [Calls -> Nat] /\ GraphInv
      /\ (calls[<<f, c>>] > 0 => Copies(f, c) # {})
  BY DEF Calls, WalkInv, ActorInv, CallsRecorded
<1>2. CASE UNCHANGED <<graphVars, calls>>
  <2>1. Copies(f, c)' = Copies(f, c)
    BY <1>1, <1>2, GraphStays
  <2> QED BY <1>1, <1>2, <2>1
<1>3. ASSUME NEW p \in Actors, Store(p) PROVE Copies(f, c)' # {}
  <2>1. /\ Copies(f, c)' = Copies(f, c)
        /\ regs[p].arc \in Copies(regs[p].self_pc, regs[p].from_pc)
        /\ calls' = [calls EXCEPT ![<<regs[p].self_pc, regs[p].from_pc>>] = @ + 1]
    BY <1>3, StoreKeeps
  <2>2. CASE f = regs[p].self_pc /\ c = regs[p].from_pc
    BY <2>1, <2>2
  <2>3. CASE ~(f = regs[p].self_pc /\ c = regs[p].from_pc)
    BY <1>1, <2>1, <2>3
  <2> QED BY <2>2, <2>3
<1>4. ASSUME NEW p \in Actors, Link(p) PROVE Copies(f, c)' # {}
  <2>1. PICK k, h : Inserted(p, k, h)
    BY <1>4, LinkInserts
  <2>2. /\ Copies(f, c)' = Copies(f, c) \union
              (IF f = regs[p].self_pc /\ c = regs[p].from_pc THEN {Len(arcs) + 1} ELSE {})
        /\ calls' = [calls EXCEPT ![<<regs[p].self_pc, regs[p].from_pc>>] = @ + 1]
    BY <1>4, <2>1, LinkKeeps
  <2>3. CASE f = regs[p].self_pc /\ c = regs[p].from_pc
    BY <2>2, <2>3
  <2>4. CASE ~(f = regs[p].self_pc /\ c = regs[p].from_pc)
    BY <1>1, <2>2, <2>4
  <2> QED BY <2>3, <2>4
<1>5. CASE UNCHANGED vars
  BY <1>2, <1>5 DEF vars, historyVars
<1>6. CASE Given \/ ClockStarts \/ \E p \in Actors : Histogram(p)
  BY <1>2, <1>6, MemoryKeeps
<1>7. CASE \E p \in Actors : Walks(p)
  BY <1>2, <1>7, WalksKeep
<1> QED BY <1>3, <1>4, <1>5, <1>6, <1>7 DEF Unbounded

\* Every call that was made is in the graph, for any number of functions,
\* callers and calls, also where the handler linked records between the
\* thread's search and its own insertion (alt_gmon.c:172-179).
THEOREM GraphRecords == ProfilerAssumption => (Open => []CallsRecorded)
<1> SUFFICES ASSUME ProfilerAssumption PROVE Open => []CallsRecorded
  OBVIOUS
<1>1. Init => WalkInv /\ CallsRecorded
  <2>1. Init => \A k \in Calls : calls[k] = 0
    BY DEF Init
  <2> QED BY <2>1, WalkInitially DEF CallsRecorded
<1>2. WalkInv /\ CallsRecorded /\ [Unbounded]_vars => (WalkInv /\ CallsRecorded)'
  BY WalkNext, RecordedNext
<1> QED BY <1>1, <1>2, PTL DEF Open

-----------------------------------------------------------------------------
(* What is handed out lies apart.                                          *)

Used(m) == {a \in Int : WORD <= a /\ a < m.heap_end /\ a < HEAP_LIMIT}
Slab(m) == Taking(m.slab_ptr, m.slab_size)

\* The regions K are in use, and the rest of the slab is not yet.
Apart(m, K) ==
    /\ MemoryOK(m) /\ m.heap_end >= WORD /\ IsFiniteSet(K)
    /\ \A r \in K : r # {} /\ r \subseteq Used(m) /\ r \cap Slab(m) = {}
    /\ \A r, s \in K : r # s => r \cap s = {}
    /\ Slab(m) \subseteq Used(m)

LEMMA ApartSubset ==
    ASSUME NEW m, NEW K, Apart(m, K), NEW L, L \subseteq K PROVE Apart(m, L)
BY FS_Subset DEF Apart

\* The regions are apart also with one that is beyond all of them.
LEMMA ApartAnother ==
    ASSUME NEW m, NEW K, Apart(m, K), NEW T, T # {}, T \subseteq Used(m),
           T \cap Slab(m) = {}, \A r \in K : r \cap T = {}
    PROVE  T \notin K /\ Apart(m, K \union {T})
<1>1. IsFiniteSet(K \union {T})
  BY FS_AddElement DEF Apart
<1>2. T \notin K
  OBVIOUS
<1> QED BY <1>1, <1>2 DEF Apart

LEMMA SbrkApart ==
    ASSUME ProfilerAssumption, NEW m, NEW K, Apart(m, K), NEW incr \in Nat \ {0}
    PROVE  LET s == Sbrk(m, incr)
               T == Taking(s.got, incr)
           IN  /\ Apart(s, K)
               /\ s.got # -1 => s.got > 0 /\ T \notin K /\ Apart(s, K \union {T})
<1> DEFINE s == Sbrk(m, incr)
           T == Taking(s.got, incr)
<1>1. /\ MemoryOK(s) /\ s.slab_ptr = m.slab_ptr /\ s.slab_size = m.slab_size
      /\ s.heap_end >= m.heap_end
      /\ s.got # -1 => /\ s.got >= m.heap_end /\ s.got + incr = s.heap_end
                       /\ s.heap_end <= HEAP_LIMIT
  BY SbrkFacts DEF Apart
<1> HIDE DEF s
<1>2. /\ s.heap_end \in Nat /\ m.heap_end \in Nat /\ s.got \in Int /\ WORD \in Nat
      /\ WORD > 0 /\ HEAP_LIMIT \in Nat /\ m.heap_end >= WORD
  BY <1>1, Sizes DEF Apart, MemoryOK
<1>3. Slab(s) = Slab(m) /\ Used(m) \subseteq Used(s)
  BY <1>1, <1>2 DEF Slab, Used
<1>4. Apart(s, K)
  BY <1>1, <1>2, <1>3 DEF Apart
<1>5. ASSUME s.got # -1 PROVE s.got > 0 /\ T \notin K /\ Apart(s, K \union {T})
  <2>1. T # {} /\ T \subseteq Used(s)
    <3>1. s.got \in T
      BY <1>2 DEF Taking
    <3> QED BY <1>1, <1>2, <1>5, <3>1 DEF Taking, Used
  <2>2. \A x \in Used(m) : x \notin T
    BY <1>1, <1>2, <1>5 DEF Taking, Used
  <2>3. T \cap Slab(s) = {} /\ \A r \in K : r \cap T = {}
    BY <1>3, <2>2 DEF Apart
  <2> QED BY <1>1, <1>2, <1>4, <1>5, <2>1, <2>3, ApartAnother
<1> QED BY <1>4, <1>5 DEF s

LEMMA AllocatedApart ==
    ASSUME ProfilerAssumption, NEW m, NEW K, Apart(m, K), Allocated(m).got # -1
    PROVE  LET s == Allocated(m)
               T == Taking(s.got, RECORD)
           IN  T \notin K /\ Apart(s, K \union {T})
<1> DEFINE s == Allocated(m)
           T == Taking(s.got, RECORD)
<1>1. /\ MemoryOK(s) /\ s.heap_end >= m.heap_end /\ s.slab_ptr = s.got + RECORD
      /\ \/ /\ s.heap_end = m.heap_end /\ s.got = m.slab_ptr
            /\ s.slab_size + RECORD = m.slab_size
         \/ /\ s.got >= m.heap_end /\ s.got + SLAB = s.heap_end
            /\ s.heap_end <= HEAP_LIMIT /\ s.slab_size + RECORD = SLAB
  <2>1. MemoryOK(m)
    BY DEF Apart
  <2>2. s.got # -1
    OBVIOUS
  <2> QED BY <2>1, <2>2, AllocatedFacts
<1> HIDE DEF s
<1>2. /\ s.heap_end \in Nat /\ m.heap_end \in Nat /\ s.got \in Int /\ WORD \in Nat
      /\ s.slab_size \in Nat /\ m.slab_size \in Nat /\ RECORD \in Nat /\ RECORD > 0
      /\ WORD > 0 /\ HEAP_LIMIT \in Nat /\ m.heap_end >= WORD /\ SLAB \in Nat
  BY <1>1, Sizes DEF Apart, MemoryOK
<1>3. T # {} /\ T \cap Slab(s) = {} /\ Used(m) \subseteq Used(s)
  <2>1. s.got \in T
    BY <1>2 DEF Taking
  <2> QED BY <1>1, <1>2, <2>1 DEF Taking, Slab, Used
<1>4. /\ T \subseteq Used(s) /\ Slab(s) \subseteq Used(s)
      /\ \A r \in K : r \cap T = {} /\ r \cap Slab(s) = {}
  <2>1. CASE s.heap_end = m.heap_end /\ s.got = m.slab_ptr
             /\ s.slab_size + RECORD = m.slab_size
    <3>1. T \subseteq Slab(m) /\ Slab(s) \subseteq Slab(m)
      BY <1>1, <1>2, <2>1 DEF Taking, Slab
    <3>2. Slab(m) \subseteq Used(s) /\ \A r \in K : r \cap Slab(m) = {}
      BY <1>3 DEF Apart
    <3> QED BY <3>1, <3>2
  <2>2. CASE s.got >= m.heap_end /\ s.got + SLAB = s.heap_end
             /\ s.heap_end <= HEAP_LIMIT /\ s.slab_size + RECORD = SLAB
    <3>1. T \subseteq Used(s) /\ Slab(s) \subseteq Used(s)
      BY <1>1, <1>2, <2>2 DEF Taking, Slab, Used
    <3>2. \A x \in Used(m) : x \notin T /\ x \notin Slab(s)
      BY <1>1, <1>2, <2>2 DEF Taking, Slab, Used
    <3> QED BY <3>1, <3>2 DEF Apart
  <2> QED BY <1>1, <2>1, <2>2
<1>5. Apart(s, K)
  BY <1>1, <1>2, <1>3, <1>4 DEF Apart
<1>6. T \notin K /\ Apart(s, K \union {T})
  <2> HIDE DEF T
  <2> QED BY <1>3, <1>4, <1>5, ApartAnother
<1> QED BY <1>6 DEF s

\* The regions but the histogram, and the histogram.
Kept == {Taking(entries[i].addr, RECORD) : i \in DOMAIN entries}
            \union {Taking(arcs[i].addr, RECORD) : i \in DOMAIN arcs}
            \union {Taking(b.base, b.size) : b \in blocks}
Sampled == IF s_pcsamples \in {NULL, -1} THEN {} ELSE {Taking(s_pcsamples, HISTOGRAM)}

\* The records are in memory: the code that links them does not look whether
\* sbrk failed, and a record at -1 stays in its list.
RecordsLast ==
    /\ \A i \in DOMAIN entries : entries[i].addr # -1
    /\ \A i \in DOMAIN arcs : arcs[i].addr # -1

MemoryInv ==
    /\ IsFiniteSet(blocks)
    /\ RecordsLast =>
           /\ Apart(memory, Kept \union Sampled) /\ Kept \cap Sampled = {}
           /\ Cardinality(Kept) = Len(entries) + Len(arcs) + Cardinality(blocks)

LEMMA MemoryInitially == ASSUME ProfilerAssumption, Init PROVE MemoryInv
<1>1. /\ entries = <<>> /\ arcs = <<>> /\ blocks = {} /\ s_pcsamples = 0
      /\ memory = [heap_end |-> WORD, slab_ptr |-> 0, slab_size |-> 0, got |-> 0]
  BY DEF Init, NULL
<1>2. Kept = {} /\ Sampled = {} /\ Len(entries) = 0 /\ Len(arcs) = 0
  BY <1>1 DEF Kept, Sampled, NULL
<1>3. Cardinality({}) = 0 /\ IsFiniteSet({})
  BY FS_EmptySet
<1>4. MemoryOK(memory) /\ memory.heap_end >= WORD /\ Slab(memory) = {}
  BY <1>1, Sizes DEF MemoryOK, Slab, Taking
<1>5. Apart(memory, {})
  BY <1>3, <1>4 DEF Apart
<1> QED BY <1>1, <1>2, <1>3, <1>5 DEF MemoryInv

\* One region more, and what it is for.
LEMMA KeptGrows ==
    ASSUME NEW m, NEW K, NEW H, NEW n \in Nat, Apart(m, K \union H), K \cap H = {},
           Cardinality(K) = n, NEW T, T \notin K \union H
    PROVE  /\ (K \union {T}) \cap H = {} /\ Cardinality(K \union {T}) = n + 1
           /\ (K \union {T}) \union H = (K \union H) \union {T}
<1>1. IsFiniteSet(K)
  BY FS_Subset DEF Apart
<1> QED BY <1>1, FS_AddElement

LEMMA MemoryGiven ==
    ASSUME ProfilerAssumption, WalkInv, MemoryInv, Given PROVE MemoryInv'
<1>1. PICK incr \in Nat \ {0} :
         /\ memory' = Sbrk(memory, incr)
         /\ blocks' = IF memory'.got = -1 THEN blocks
                      ELSE blocks \union {[base |-> memory'.got, size |-> incr]}
  BY Sizes DEF Given
<1>2. UNCHANGED <<entries, arcs, s_pcsamples>>
  BY DEF Given, graphVars, samplerVars
<1> DEFINE b == [base |-> memory'.got, size |-> incr]
           T == Taking(memory'.got, incr)
<1>3. b.base = memory'.got /\ b.size = incr
  OBVIOUS
<1> HIDE DEF b
<1>4. IsFiniteSet(blocks')
  BY <1>1, FS_AddElement DEF MemoryInv, b
<1>5. Sampled' = Sampled /\ (RecordsLast' <=> RecordsLast)
  BY <1>2 DEF Sampled, RecordsLast
<1>6. ASSUME RecordsLast
      PROVE  /\ Apart(memory', Kept' \union Sampled') /\ Kept' \cap Sampled' = {}
             /\ Cardinality(Kept') = Len(entries') + Len(arcs') + Cardinality(blocks')
  <2>1. /\ Apart(memory, Kept \union Sampled) /\ Kept \cap Sampled = {}
        /\ Cardinality(Kept) = Len(entries) + Len(arcs) + Cardinality(blocks)
        /\ IsFiniteSet(blocks)
    BY <1>6 DEF MemoryInv
  <2>2. /\ Apart(memory', Kept \union Sampled)
        /\ memory'.got # -1 => /\ T \notin Kept \union Sampled
                               /\ Apart(memory', Kept \union Sampled \union {T})
    BY <1>1, <2>1, SbrkApart
  <2>3. CASE memory'.got = -1
    <3>1. blocks' = blocks /\ Kept' = Kept
      BY <1>1, <1>2, <2>3 DEF Kept
    <3> QED BY <1>2, <1>5, <2>1, <2>2, <3>1
  <2>4. CASE memory'.got # -1
    <3>1. blocks' = blocks \union {b}
      BY <1>1, <2>4 DEF b
    <3>2. Kept' = Kept \union {T}
      BY <1>2, <1>3, <3>1 DEF Kept
    <3>3. b \notin blocks
      BY <1>3, <2>2, <2>4 DEF Kept
    <3> HIDE DEF T
    <3>4. Cardinality(blocks') = Cardinality(blocks) + 1 /\ Cardinality(blocks) \in Nat
      BY <2>1, <3>1, <3>3, FS_AddElement, FS_CardinalityType
    <3>5. Len(entries) \in Nat /\ Len(arcs) \in Nat
      BY DEF WalkInv, GraphInv
    <3>6. Len(entries) + Len(arcs) + Cardinality(blocks) \in Nat
      BY <3>4, <3>5
    <3>7. /\ (Kept \union {T}) \cap Sampled = {}
          /\ Cardinality(Kept \union {T}) = Len(entries) + Len(arcs) + Cardinality(blocks) + 1
          /\ (Kept \union {T}) \union Sampled = (Kept \union Sampled) \union {T}
      BY <2>1, <2>2, <2>4, <3>6, KeptGrows
    <3>8. Apart(memory', Kept' \union Sampled') /\ Kept' \cap Sampled' = {}
      BY <1>5, <2>2, <2>4, <3>2, <3>7
    <3>9. Len(entries') = Len(entries) /\ Len(arcs') = Len(arcs)
      BY <1>2
    <3>10. Cardinality(Kept') = Len(entries') + Len(arcs') + Cardinality(blocks')
      BY <3>2, <3>4, <3>5, <3>7, <3>9
    <3> QED BY <3>8, <3>10
  <2> QED BY <2>3, <2>4
<1> QED BY <1>4, <1>5, <1>6 DEF MemoryInv

\* A new histogram takes the place of an earlier one.
LEMMA MemoryHistogram ==
    ASSUME ProfilerAssumption, MemoryInv, NEW p \in Actors, Histogram(p)
    PROVE  MemoryInv'
<1>1. /\ memory' = Sbrk(memory, HISTOGRAM) /\ s_pcsamples' = memory'.got
      /\ UNCHANGED <<entries, arcs, blocks>>
  BY DEF Histogram, graphVars
<1>2. Kept' = Kept /\ (RecordsLast' <=> RecordsLast) /\ IsFiniteSet(blocks')
  BY <1>1 DEF Kept, RecordsLast, MemoryInv
<1>3. ASSUME RecordsLast
      PROVE  Apart(memory', Kept \union Sampled') /\ Kept \cap Sampled' = {}
  <2> DEFINE T == Taking(memory'.got, HISTOGRAM)
  <2>1. Apart(memory, Kept)
    <3>1. Apart(memory, Kept \union Sampled)
      BY <1>3 DEF MemoryInv
    <3> QED BY <3>1, ApartSubset
  <2>2. HISTOGRAM \in Nat \ {0}
    BY Sizes
  <2>3. /\ Apart(memory', Kept)
        /\ memory'.got # -1 => /\ memory'.got > 0 /\ T \notin Kept
                               /\ Apart(memory', Kept \union {T})
    BY <1>1, <2>1, <2>2, SbrkApart
  <2>4. CASE memory'.got = -1
    <3>1. Sampled' = {}
      BY <1>1, <2>4 DEF Sampled
    <3> QED BY <2>3, <3>1
  <2>5. CASE memory'.got # -1
    <3>1. memory'.got # 0
      BY <2>3, <2>5
    <3>2. Sampled' = {T}
      BY <1>1, <2>5, <3>1 DEF Sampled, NULL
    <3> QED BY <2>3, <2>5, <3>2
  <2> QED BY <2>4, <2>5
<1>4. RecordsLast => Cardinality(Kept) = Len(entries) + Len(arcs) + Cardinality(blocks)
  BY DEF MemoryInv
<1> QED BY <1>1, <1>2, <1>3, <1>4 DEF MemoryInv

\* The records of a list one longer.
LEMMA OneMore ==
    ASSUME NEW list, NEW more, NEW n \in Nat, DOMAIN list = 1..n, DOMAIN more = 1..(n + 1),
           \A i \in 1..n : more[i].addr = list[i].addr
    PROVE  {Taking(more[i].addr, RECORD) : i \in DOMAIN more}
             = {Taking(list[i].addr, RECORD) : i \in DOMAIN list}
                   \union {Taking(more[n + 1].addr, RECORD)}
<1>1. \A i \in 1..(n + 1) : i = n + 1 \/ i \in 1..n
  OBVIOUS
<1>2. n + 1 \in 1..(n + 1) /\ 1..n \subseteq 1..(n + 1)
  OBVIOUS
<1> QED BY <1>1, <1>2

LEMMA MemoryLink ==
    ASSUME ProfilerAssumption, WalkInv, MemoryInv, NEW p \in Actors, Link(p)
    PROVE  MemoryInv'
<1> USE DEF NULL
<1>1. PICK k, h : Inserted(p, k, h)
  BY LinkInserts
<1>2. UNCHANGED <<s_pcsamples, blocks>>
  BY DEF Link, samplerVars
<1> DEFINE n == Len(arcs)
           l == Len(entries)
           m == Allocated(memory)
           T == Taking(memory'.got, RECORD)
           B == {Taking(b.base, b.size) : b \in blocks}
           E == {Taking(entries[i].addr, RECORD) : i \in DOMAIN entries}
           A == {Taking(arcs[i].addr, RECORD) : i \in DOMAIN arcs}
<1>3. /\ n \in Nat /\ l \in Nat /\ DOMAIN arcs = 1..n /\ DOMAIN entries = 1..l
      /\ DOMAIN arcs' = 1..(n + 1) /\ Len(arcs') = n + 1
      /\ DOMAIN entries' = 1..Len(entries')
      /\ arcs'[n + 1].addr = memory'.got /\ \A i \in 1..n : arcs'[i].addr = arcs[i].addr
  BY <1>1 DEF Inserted, WalkInv, GraphInv
<1>4. {Taking(arcs'[i].addr, RECORD) : i \in DOMAIN arcs'} = A \union {T}
  BY <1>3, OneMore
<1>5. Sampled' = Sampled /\ IsFiniteSet(blocks')
  BY <1>2 DEF Sampled, MemoryInv
<1>6. RecordsLast' => memory'.got # -1
  <2>1. n + 1 \in 1..(n + 1)
    BY <1>3
  <2> QED BY <1>3, <2>1 DEF RecordsLast
<1>7. \A i \in 1..l : entries'[i].addr = entries[i].addr
  BY <1>1, <1>3 DEF Inserted
<1>8. RecordsLast' => RecordsLast
  <2>1. 1..l \subseteq 1..Len(entries') /\ 1..n \subseteq 1..(n + 1)
    BY <1>1, <1>3 DEF Inserted
  <2> QED BY <1>3, <1>7, <2>1 DEF RecordsLast
<1>9. ASSUME RecordsLast'
      PROVE  /\ Apart(memory', Kept' \union Sampled') /\ Kept' \cap Sampled' = {}
             /\ Cardinality(Kept') = Len(entries') + Len(arcs') + Cardinality(blocks')
  <2>1. /\ Apart(memory, Kept \union Sampled) /\ Kept \cap Sampled = {}
        /\ Cardinality(Kept) = l + n + Cardinality(blocks) /\ memory'.got # -1
    BY <1>6, <1>8, <1>9 DEF MemoryInv
  <2>2. Kept = (E \union A) \union B
    BY DEF Kept
  <2>3. Cardinality(blocks) \in Nat /\ l + n + Cardinality(blocks) \in Nat
    BY <1>3, FS_CardinalityType DEF MemoryInv
  <2>4. CASE memory' = m /\ Len(entries') = l
    <3>1. {Taking(entries'[i].addr, RECORD) : i \in DOMAIN entries'} = E
      BY <1>3, <1>7, <2>4
    <3>2. Kept' = Kept \union {T}
      BY <1>2, <1>4, <2>2, <3>1 DEF Kept
    <3>3. T \notin Kept \union Sampled
          /\ Apart(memory', (Kept \union Sampled) \union {T})
      BY <2>1, <2>4, AllocatedApart
    <3> HIDE DEF T
    <3>4. /\ (Kept \union {T}) \cap Sampled = {}
          /\ Cardinality(Kept \union {T}) = l + n + Cardinality(blocks) + 1
          /\ (Kept \union {T}) \union Sampled = (Kept \union Sampled) \union {T}
      BY <2>1, <2>3, <3>3, KeptGrows
    <3>5. Apart(memory', Kept' \union Sampled') /\ Kept' \cap Sampled' = {}
      BY <1>5, <3>2, <3>3, <3>4
    <3>6. Cardinality(Kept') = Len(entries') + Len(arcs') + Cardinality(blocks')
      BY <1>2, <1>3, <2>3, <2>4, <3>2, <3>4
    <3> QED BY <3>5, <3>6
  <2>5. CASE /\ memory' = Allocated(m) /\ Len(entries') = l + 1
             /\ entries'[l + 1].addr = m.got
    <3> DEFINE U == Taking(m.got, RECORD)
    <3>1. {Taking(entries'[i].addr, RECORD) : i \in DOMAIN entries'} = E \union {U}
      BY <1>3, <1>7, <2>5, OneMore
    <3>2. Kept' = (Kept \union {U}) \union {T}
      BY <1>2, <1>4, <2>2, <3>1 DEF Kept
    <3>3. m.got # -1
      <4>1. l + 1 \in DOMAIN entries'
        BY <1>3, <2>5
      <4> QED BY <1>9, <2>5, <4>1 DEF RecordsLast
    <3>4. U \notin Kept \union Sampled /\ Apart(m, (Kept \union Sampled) \union {U})
      BY <2>1, <3>3, AllocatedApart
    <3> HIDE DEF m
    <3>5. /\ T \notin (Kept \union Sampled) \union {U}
          /\ Apart(memory', ((Kept \union Sampled) \union {U}) \union {T})
      BY <2>1, <2>5, <3>4, AllocatedApart
    <3> HIDE DEF T, U
    <3>6. /\ (Kept \union {U}) \cap Sampled = {}
          /\ Cardinality(Kept \union {U}) = l + n + Cardinality(blocks) + 1
          /\ (Kept \union {U}) \union Sampled = (Kept \union Sampled) \union {U}
      BY <2>1, <2>3, <3>4, KeptGrows
    <3>7. l + n + Cardinality(blocks) + 1 \in Nat
      BY <2>3
    <3>8. /\ ((Kept \union {U}) \union {T}) \cap Sampled = {}
          /\ Cardinality((Kept \union {U}) \union {T}) = l + n + Cardinality(blocks) + 1 + 1
          /\ ((Kept \union {U}) \union {T}) \union Sampled
                = ((Kept \union {U}) \union Sampled) \union {T}
      BY <3>4, <3>5, <3>6, <3>7, KeptGrows
    <3>9. Apart(memory', Kept' \union Sampled') /\ Kept' \cap Sampled' = {}
      BY <1>5, <3>2, <3>5, <3>6, <3>8
    <3>10. Cardinality(Kept') = Len(entries') + Len(arcs') + Cardinality(blocks')
      BY <1>2, <1>3, <2>3, <2>5, <3>2, <3>8
    <3> QED BY <3>9, <3>10
  <2> QED BY <1>1, <2>4, <2>5 DEF Inserted
<1> QED BY <1>5, <1>9 DEF MemoryInv

LEMMA MemoryStore ==
    ASSUME WalkInv, MemoryInv, NEW p \in Actors, Store(p) PROVE MemoryInv'
<1>1. /\ UNCHANGED <<entries, memory, samplerVars, blocks>> /\ Len(arcs') = Len(arcs)
      /\ \A i \in 1..Len(arcs) : arcs'[i].addr = arcs[i].addr /\ WalkInv'
  BY StoreKeeps
<1>2. DOMAIN arcs = 1..Len(arcs) /\ DOMAIN arcs' = 1..Len(arcs)
  <2>1. arcs \in Seq(Arc) /\ arcs' \in Seq(Arc)
    BY StoreKeeps DEF WalkInv, GraphInv
  <2> QED BY <1>1, <2>1
<1>3. Kept' = Kept /\ Sampled' = Sampled /\ (RecordsLast' <=> RecordsLast)
  BY <1>1, <1>2 DEF Kept, Sampled, RecordsLast, samplerVars
<1> QED BY <1>1, <1>3 DEF MemoryInv

LEMMA MemoryNext ==
    ASSUME ProfilerAssumption, WalkInv, MemoryInv, [Unbounded]_vars PROVE MemoryInv'
<1>1. CASE UNCHANGED <<entries, arcs, memory, s_pcsamples, blocks>>
  BY <1>1 DEF MemoryInv, Kept, Sampled, RecordsLast
<1>2. CASE UNCHANGED vars
  BY <1>1, <1>2 DEF vars, graphVars, samplerVars
<1>3. CASE ClockStarts
  BY <1>1, <1>3 DEF ClockStarts, graphVars
<1>4. CASE \E p \in Actors : Walks(p)
  BY <1>1, <1>4 DEF Walks, Entered, FindEntry, FindArc, Load, Record, ClearNeed, NoRate,
                    StartAlarm, graphVars, samplerVars
<1> QED BY <1>2, <1>3, <1>4, MemoryGiven, MemoryHistogram, MemoryLink, MemoryStore
        DEF Unbounded

\* No memory request failed whose result is in use.
MemoryLasts == RecordsLast /\ s_pcsamples # -1

LEMMA ApartRegions ==
    ASSUME ProfilerAssumption, WalkInv, MemoryInv, MemoryLasts PROVE MemoryApart
<1> USE DEF NULL
<1>1. /\ Apart(memory, Kept \union Sampled) /\ Kept \cap Sampled = {}
      /\ Cardinality(Kept) = Len(entries) + Len(arcs) + Cardinality(blocks)
  BY DEF MemoryInv, MemoryLasts
<1>2. Regions = Kept \union Sampled
  BY DEF Regions, Kept, Sampled, MemoryLasts
<1>3. \A r \in Regions : r \subseteq WORD..(HEAP_LIMIT - 1)
  <2>1. WORD \in Nat /\ HEAP_LIMIT \in Nat /\ memory.heap_end \in Nat
    BY <1>1, Sizes DEF Apart, MemoryOK
  <2>2. Used(memory) \subseteq WORD..(HEAP_LIMIT - 1)
    BY <2>1 DEF Used
  <2> QED BY <1>1, <1>2, <2>2 DEF Apart
<1>4. Cardinality(Regions) = Len(entries) + Len(arcs) + Cardinality(blocks)
                                + (IF s_pcsamples = NULL THEN 0 ELSE 1)
  <2>0. Len(entries) \in Nat /\ Len(arcs) \in Nat /\ Cardinality(blocks) \in Nat
    BY FS_CardinalityType DEF WalkInv, GraphInv, MemoryInv
  <2>1. CASE s_pcsamples = NULL
    <3>1. Regions = Kept
      BY <1>2, <2>1 DEF Sampled
    <3> QED BY <1>1, <2>0, <2>1, <3>1
  <2>2. CASE s_pcsamples # NULL
    <3> DEFINE T == Taking(s_pcsamples, HISTOGRAM)
    <3>1. Sampled = {T}
      BY <2>2 DEF Sampled, MemoryLasts
    <3> HIDE DEF T
    <3>2. T \notin Kept /\ Regions = Kept \union {T} /\ IsFiniteSet(Kept)
      BY <1>1, <1>2, <3>1, FS_Subset DEF Apart
    <3>3. Cardinality(Regions) = Cardinality(Kept) + 1
      BY <3>2, FS_AddElement
    <3> QED BY <1>1, <2>0, <2>2, <3>3
  <2> QED BY <2>1, <2>2
<1> QED BY <1>1, <1>2, <1>3, <1>4 DEF MemoryApart, Apart

\* Whatever the sizes, and whoever asks for memory between which steps of the
\* others, records, histogram and blocks lie apart below the limit, as long as
\* no request failed whose result is used (alt_sbrk.c:73-97,
\* alt_gmon.c:133-148).
THEOREM HeapApart == ProfilerAssumption => (Open => [](MemoryLasts => MemoryApart))
<1> SUFFICES ASSUME ProfilerAssumption PROVE Open => [](MemoryLasts => MemoryApart)
  OBVIOUS
<1>1. Init => WalkInv /\ MemoryInv
  BY WalkInitially, MemoryInitially
<1>2. WalkInv /\ MemoryInv /\ [Unbounded]_vars => (WalkInv /\ MemoryInv)'
  BY WalkNext, MemoryNext
<1>3. WalkInv /\ MemoryInv => (MemoryLasts => MemoryApart)
  BY ApartRegions
<1> QED BY <1>1, <1>2, <1>3, PTL DEF Open

\* There is room for one more slab or histogram.
RoomIn(m) == m.heap_end + SLAB <= HEAP_LIMIT /\ m.heap_end + HISTOGRAM <= HEAP_LIMIT
Roomy == RoomIn(memory)

\* Where sbrk failed it left the end of the heap too high for the request.
LEMMA SbrkFails ==
    ASSUME ProfilerAssumption, NEW m, MemoryOK(m), NEW incr \in Nat,
           Sbrk(m, incr).got = -1
    PROVE  Sbrk(m, incr).heap_end + incr > HEAP_LIMIT
<1>1. m.heap_end \in Nat /\ Aligned(m.heap_end) \in Nat /\ HEAP_LIMIT \in Nat
  BY AlignedUp, Sizes DEF MemoryOK
<1> QED BY <1>1 DEF Sbrk, SbrkFrom, MemoryOK

LEMMA RoomBefore ==
    ASSUME ProfilerAssumption, NEW m, MemoryOK(m), NEW s, MemoryOK(s),
           s.heap_end >= m.heap_end, RoomIn(s)
    PROVE  RoomIn(m)
<1>1. /\ m.heap_end \in Nat /\ s.heap_end \in Nat /\ SLAB \in Nat /\ HISTOGRAM \in Nat
      /\ HEAP_LIMIT \in Nat
  BY Sizes DEF MemoryOK
<1> QED BY <1>1 DEF RoomIn

\* With room left a record was allocated.
LEMMA AllocatedWithRoom ==
    ASSUME ProfilerAssumption, NEW m, NEW K, Apart(m, K), RoomIn(Allocated(m))
    PROVE  Allocated(m).got # -1
<1> DEFINE b == Sbrk(m, SLAB)
           c == [b EXCEPT !.slab_ptr = b.got, !.slab_size = SLAB]
<1>0. MemoryOK(m) /\ m.heap_end \in Nat /\ m.slab_size \in Nat /\ m.slab_ptr \in Int
  BY DEF Apart, MemoryOK
<1>1. CASE RECORD > m.slab_size
  <2>1. MemoryOK(b)
    BY <1>0, SbrkFacts, Sizes
  <2> HIDE DEF b
  <2>2. /\ MemoryOK(c) /\ c.slab_ptr = b.got /\ c.heap_end = b.heap_end
    BY <2>1, Sizes DEF MemoryOK
  <2> HIDE DEF c
  <2>3. Taken(c).got = b.got /\ Taken(c).heap_end = b.heap_end
    BY <2>2 DEF Taken, MemoryOK
  <2>4. Allocated(m) = Taken(c)
    BY <1>1 DEF Allocated, c, b
  <2>5. b.heap_end + SLAB <= HEAP_LIMIT
    BY <2>3, <2>4 DEF RoomIn
  <2>6. b.got = -1 => b.heap_end + SLAB > HEAP_LIMIT
    BY <1>0, SbrkFails, Sizes DEF b
  <2>7. b.heap_end + SLAB \in Nat /\ HEAP_LIMIT \in Nat
    BY <2>1, Sizes DEF MemoryOK
  <2> QED BY <2>3, <2>4, <2>5, <2>6, <2>7
<1>2. CASE ~(RECORD > m.slab_size)
  <2>1. m.slab_ptr \in Slab(m)
    BY <1>0, <1>2, Sizes DEF Slab, Taking
  <2>2. m.slab_ptr > 0
    BY <1>0, <2>1, Sizes DEF Apart, Used
  <2>3. Allocated(m) = Taken(m)
    BY <1>2 DEF Allocated
  <2>4. Taken(m).got = m.slab_ptr
    BY <1>0 DEF Taken, MemoryOK
  <2> QED BY <1>0, <2>2, <2>3, <2>4
<1> QED BY <1>1, <1>2

LEMMA RoomLink ==
    ASSUME ProfilerAssumption, WalkInv, MemoryInv, Roomy => MemoryLasts, Roomy',
           NEW p \in Actors, Link(p)
    PROVE  MemoryLasts'
<1> USE DEF NULL
<1> DEFINE n == Len(arcs)
           l == Len(entries)
           m == Allocated(memory)
<1>1. PICK k, h : Inserted(p, k, h)
  BY LinkInserts
<1>2. s_pcsamples' = s_pcsamples /\ MemoryOK(memory) /\ RoomIn(memory')
  BY DEF Link, samplerVars, WalkInv, Roomy
<1>3. /\ n \in Nat /\ l \in Nat /\ DOMAIN arcs = 1..n /\ DOMAIN entries = 1..l
      /\ DOMAIN arcs' = 1..(n + 1) /\ DOMAIN entries' = 1..Len(entries')
      /\ arcs'[n + 1].addr = memory'.got /\ \A a \in 1..n : arcs'[a].addr = arcs[a].addr
      /\ \A e \in 1..l : entries'[e].addr = entries[e].addr
  BY <1>1 DEF Inserted, WalkInv, GraphInv
<1>4. MemoryOK(m) /\ m.heap_end >= memory.heap_end
  BY <1>2, AllocatedFacts
<1>5. RoomIn(m) => MemoryLasts /\ m.got # -1 /\ \E K : Apart(m, K)
  <2> SUFFICES ASSUME RoomIn(m) PROVE MemoryLasts /\ m.got # -1 /\ \E K : Apart(m, K)
    OBVIOUS
  <2>1. Roomy
    BY <1>2, <1>4, RoomBefore DEF Roomy
  <2>2. MemoryLasts /\ Apart(memory, Kept \union Sampled)
    BY <2>1 DEF MemoryLasts, MemoryInv
  <2>3. m.got # -1
    BY <2>2, AllocatedWithRoom
  <2>4. Apart(m, (Kept \union Sampled) \union {Taking(m.got, RECORD)})
    BY <2>2, <2>3, AllocatedApart
  <2> QED BY <2>2, <2>3, <2>4
<1>6. MemoryLasts /\ memory'.got # -1 /\ (Len(entries') = l + 1 => m.got # -1)
  <2> HIDE DEF m
  <2>1. CASE memory' = m /\ Len(entries') = l
    BY <1>2, <1>3, <1>5, <2>1
  <2>2. CASE memory' = Allocated(m)
    <3>1. MemoryOK(memory') /\ memory'.heap_end >= m.heap_end
      BY <1>4, <2>2, AllocatedFacts
    <3>2. RoomIn(m)
      BY <1>2, <1>4, <3>1, RoomBefore
    <3>3. memory'.got # -1
      BY <1>2, <1>5, <2>2, <3>2, AllocatedWithRoom
    <3> QED BY <1>5, <3>2, <3>3
  <2> QED BY <1>1, <2>1, <2>2 DEF Inserted, m
<1>7. \A a \in 1..(n + 1) : arcs'[a].addr # -1
  <2>1. \A a \in 1..(n + 1) : a = n + 1 \/ a \in 1..n
    BY <1>3
  <2> QED BY <1>3, <1>6, <2>1 DEF MemoryLasts, RecordsLast
<1>8. \A e \in 1..Len(entries') : entries'[e].addr # -1
  <2>1. \A e \in 1..l : entries'[e].addr # -1
    BY <1>3, <1>6 DEF MemoryLasts, RecordsLast
  <2>2. CASE Len(entries') = l
    BY <2>1, <2>2
  <2>3. CASE Len(entries') = l + 1 /\ entries'[l + 1].addr = m.got
    <3>1. \A e \in 1..(l + 1) : e = l + 1 \/ e \in 1..l
      BY <1>3
    <3> QED BY <1>6, <2>1, <2>3, <3>1
  <2> QED BY <1>1, <2>2, <2>3 DEF Inserted
<1> QED BY <1>2, <1>3, <1>6, <1>7, <1>8 DEF MemoryLasts, RecordsLast

LEMMA RoomNext ==
    ASSUME ProfilerAssumption, WalkInv, MemoryInv, Roomy => MemoryLasts,
           [Unbounded]_vars
    PROVE  (Roomy => MemoryLasts)'
<1>0. MemoryOK(memory)
  BY DEF WalkInv
<1>1. CASE UNCHANGED <<entries, arcs, memory, s_pcsamples>>
  BY <1>1 DEF Roomy, MemoryLasts, RecordsLast
<1>2. CASE UNCHANGED vars \/ ClockStarts
  BY <1>1, <1>2 DEF vars, ClockStarts, graphVars, samplerVars
<1>3. CASE \E p \in Actors : Walks(p)
  BY <1>1, <1>3 DEF Walks, Entered, FindEntry, FindArc, Load, Record, ClearNeed, NoRate,
                    StartAlarm, graphVars, samplerVars
<1>4. ASSUME NEW p \in Actors, Store(p) PROVE (Roomy => MemoryLasts)'
  <2>1. /\ UNCHANGED <<entries, memory, samplerVars>> /\ Len(arcs') = Len(arcs)
        /\ \A i \in 1..Len(arcs) : arcs'[i].addr = arcs[i].addr /\ WalkInv'
    BY <1>4, StoreKeeps
  <2>2. DOMAIN arcs = 1..Len(arcs) /\ DOMAIN arcs' = 1..Len(arcs)
    <3>1. arcs \in Seq(Arc) /\ arcs' \in Seq(Arc)
      BY <1>4, StoreKeeps DEF WalkInv, GraphInv
    <3> QED BY <2>1, <3>1
  <2> QED BY <2>1, <2>2 DEF Roomy, MemoryLasts, RecordsLast, samplerVars
<1>5. ASSUME NEW incr \in Nat, memory' = Sbrk(memory, incr), UNCHANGED graphVars, Roomy'
      PROVE  MemoryLasts /\ RecordsLast' /\ (incr = HISTOGRAM => memory'.got # -1)
  <2>1. MemoryOK(memory') /\ memory'.heap_end >= memory.heap_end
    BY <1>0, <1>5, SbrkFacts
  <2>2. Roomy
    BY <1>0, <1>5, <2>1, RoomBefore DEF Roomy
  <2>3. memory'.got = -1 => memory'.heap_end + incr > HEAP_LIMIT
    BY <1>0, <1>5, SbrkFails
  <2>4. /\ memory'.heap_end + HISTOGRAM <= HEAP_LIMIT /\ HEAP_LIMIT \in Nat
        /\ memory'.heap_end + HISTOGRAM \in Nat
    BY <1>5, <2>1, Sizes DEF Roomy, RoomIn, MemoryOK
  <2> QED BY <1>5, <2>2, <2>3, <2>4 DEF MemoryLasts, RecordsLast, graphVars
<1>6. CASE Given
  <2>1. PICK incr \in Nat : memory' = Sbrk(memory, incr)
    BY <1>6, Sizes DEF Given
  <2>2. UNCHANGED graphVars /\ s_pcsamples' = s_pcsamples
    BY <1>6 DEF Given, samplerVars
  <2> QED BY <1>5, <2>1, <2>2 DEF MemoryLasts
<1>7. ASSUME NEW p \in Actors, Histogram(p) PROVE (Roomy => MemoryLasts)'
  <2>1. /\ memory' = Sbrk(memory, HISTOGRAM) /\ s_pcsamples' = memory'.got
        /\ UNCHANGED graphVars /\ HISTOGRAM \in Nat
    BY <1>7, Sizes DEF Histogram
  <2> QED BY <1>5, <2>1 DEF MemoryLasts
<1> QED BY <1>2, <1>3, <1>4, <1>6, <1>7, RoomLink DEF Unbounded

\* The condition of HeapApart is met as long as a slab or a histogram would
\* still fit below the limit: sbrk never lowers the end of the heap, so every
\* request for one of them was granted (alt_sbrk.c:88-97).
THEOREM RoomSuffices == ProfilerAssumption => (Open => [](Roomy => MemoryApart))
<1> SUFFICES ASSUME ProfilerAssumption PROVE Open => [](Roomy => MemoryApart)
  OBVIOUS
<1>1. Init => WalkInv /\ MemoryInv /\ (Roomy => MemoryLasts)
  <2>1. Init => MemoryLasts
    BY DEF Init, MemoryLasts, RecordsLast, NULL
  <2> QED BY <2>1, WalkInitially, MemoryInitially
<1>2. WalkInv /\ MemoryInv /\ (Roomy => MemoryLasts) /\ [Unbounded]_vars
          => (WalkInv /\ MemoryInv /\ (Roomy => MemoryLasts))'
  BY WalkNext, MemoryNext, RoomNext
<1>3. WalkInv /\ MemoryInv /\ (Roomy => MemoryLasts) => (Roomy => MemoryApart)
  BY ApartRegions
<1> QED BY <1>1, <1>2, <1>3, PTL DEF Open

-----------------------------------------------------------------------------
(* Sums of counts.                                                         *)

Term(records, places, i) == IF i \in places THEN records[i].count ELSE 0

Totals(records, places) ==
    CHOOSE g : g = [i \in 0..Len(records) |->
                      IF i = 0 THEN 0
                      ELSE g[i - 1] + IF i \in places THEN records[i].count ELSE 0]

LEMMA TotalsExist ==
    ASSUME NEW records, NEW places, Len(records) \in Nat
    PROVE  \E g : g = [i \in 0..Len(records) |->
                         IF i = 0 THEN 0
                         ELSE g[i - 1] + IF i \in places THEN records[i].count ELSE 0]
<1> DEFINE n == Len(records)
           Sum(g, m) == g = [i \in 0..m |->
                               IF i = 0 THEN 0 ELSE g[i - 1] + Term(records, places, i)]
           S == {m \in Nat : \E g : Sum(g, m)}
<1>1. 0 \in S
  <2>1. Sum([i \in 0..0 |-> 0], 0)
    BY \A i \in 0..0 : i = 0
  <2> QED BY <2>1
<1>2. ASSUME NEW m \in Nat, m \in S PROVE m + 1 \in S
  <2>1. PICK g : Sum(g, m)
    BY <1>2
  <2> DEFINE h == [i \in 0..(m + 1) |->
                     IF i = m + 1 THEN g[m] + Term(records, places, m + 1) ELSE g[i]]
  <2>2. \A i \in 0..(m + 1) : i = m + 1 \/ i \in 0..m
    OBVIOUS
  <2>3. \A i \in 0..m : i # 0 => i - 1 \in 0..m
    OBVIOUS
  <2>4. \A i \in 0..m : h[i] = g[i] /\ i \in 0..(m + 1)
    OBVIOUS
  <2>5. \A i \in 0..(m + 1) :
           h[i] = IF i = 0 THEN 0 ELSE h[i - 1] + Term(records, places, i)
    <3> TAKE i \in 0..(m + 1)
    <3>1. CASE i = m + 1
      <4>1. i # 0 /\ i - 1 = m /\ m \in 0..m
        BY <3>1
      <4>2. h[i] = g[m] + Term(records, places, m + 1) /\ h[m] = g[m]
        BY <2>4, <3>1, <4>1
      <4> QED BY <3>1, <4>1, <4>2
    <3>2. CASE i \in 0..m
      <4>1. g[i] = IF i = 0 THEN 0 ELSE g[i - 1] + Term(records, places, i)
        BY <2>1, <3>2
      <4>2. h[i] = g[i] /\ (i # 0 => h[i - 1] = g[i - 1])
        BY <2>3, <2>4, <3>2
      <4> QED BY <4>1, <4>2
    <3> QED BY <2>2, <3>1, <3>2
  <2>6. h = [i \in 0..(m + 1) |-> h[i]]
    OBVIOUS
  <2> HIDE DEF h
  <2>7. Sum(h, m + 1)
    BY <2>5, <2>6
  <2> QED BY <2>7
<1>3. Nat \subseteq S
  <2> HIDE DEF S
  <2> QED BY <1>1, <1>2, Induction
<1>4. PICK g : Sum(g, n)
  BY <1>3
<1> QED BY <1>4 DEF Term

LEMMA TotalStep ==
    ASSUME NEW records, NEW places, Len(records) \in Nat
    PROVE  /\ Total(records, places) = Totals(records, places)[Len(records)]
           /\ Totals(records, places)[0] = 0
           /\ \A m \in 0..Len(records) : m # Len(records) =>
                 Totals(records, places)[m + 1]
                     = Totals(records, places)[m] + Term(records, places, m + 1)
<1> DEFINE t == Totals(records, places)
<1>1. t = [i \in 0..Len(records) |->
             IF i = 0 THEN 0
             ELSE t[i - 1] + IF i \in places THEN records[i].count ELSE 0]
  BY TotalsExist DEF Totals
<1>2. Total(records, places) = t[Len(records)]
  BY DEF Total, Totals
<1> HIDE DEF t
<1>3. t[0] = 0
  <2>1. 0 \in 0..Len(records)
    OBVIOUS
  <2> QED BY <1>1, <2>1
<1>4. ASSUME NEW m \in 0..Len(records), m # Len(records)
      PROVE  t[m + 1] = t[m] + Term(records, places, m + 1)
  <2>1. m + 1 \in 0..Len(records) /\ m + 1 # 0 /\ (m + 1) - 1 = m
    BY <1>4
  <2> QED BY <1>1, <2>1 DEF Term
<1> QED BY <1>2, <1>3, <1>4 DEF t

\* Where the terms differ in one place, so do the sums from there on.
Differ(records, places, more, others, a, d) ==
    \A i \in 1..Len(records) :
       /\ Term(records, places, i) \in Int
       /\ Term(more, others, i) = Term(records, places, i) + (IF i = a THEN d ELSE 0)

LEMMA TotalsDiffer ==
    ASSUME NEW records, NEW places, NEW more, NEW others,
           Len(records) \in Nat, Len(more) \in Nat, Len(records) <= Len(more),
           NEW a \in Nat \ {0}, NEW d \in Int,
           Differ(records, places, more, others, a, d)
    PROVE  \A m \in 0..Len(records) :
              /\ Totals(records, places)[m] \in Int
              /\ Totals(more, others)[m]
                    = Totals(records, places)[m] + (IF a <= m THEN d ELSE 0)
<1> DEFINE n == Len(records)
           t == Totals(records, places)
           u == Totals(more, others)
           S == {m \in Nat : t[m] \in Int /\ u[m] = t[m] + (IF a <= m THEN d ELSE 0)}
<1>0. n \in Nat /\ t[0] = 0 /\ u[0] = 0
  BY TotalStep
<1>1. 0 \in S
  <2>1. ~(a <= 0)
    OBVIOUS
  <2> HIDE DEF t, u
  <2> QED BY <1>0, <2>1
<1>2. ASSUME NEW m \in 0..n, m # n, m \in S PROVE m + 1 \in S
  <2>1. /\ m + 1 \in 1..n /\ m \in 0..Len(more) /\ m # Len(more) /\ m + 1 \in Nat
        /\ m \in Nat
    BY <1>0, <1>2
  <2>2. t[m + 1] = t[m] + Term(records, places, m + 1)
    BY <1>2, TotalStep
  <2>3. u[m + 1] = u[m] + Term(more, others, m + 1)
    BY <2>1, TotalStep
  <2> DEFINE x == Term(records, places, m + 1)
             y == Term(more, others, m + 1)
  <2>4. x \in Int /\ y = x + (IF m + 1 = a THEN d ELSE 0)
    BY <2>1 DEF Differ
  <2>5. t[m] \in Int /\ u[m] = t[m] + (IF a <= m THEN d ELSE 0)
    BY <1>2
  <2> HIDE DEF t, u, x, y
  <2>6. t[m + 1] = t[m] + x /\ u[m + 1] = u[m] + y
    BY <2>2, <2>3 DEF x, y
  <2>7. t[m + 1] \in Int /\ u[m + 1] = t[m + 1] + (IF a <= m + 1 THEN d ELSE 0)
    BY <2>1, <2>4, <2>5, <2>6
  <2> QED BY <2>1, <2>7
<1>3. 0..n \subseteq S
  <2> HIDE DEF S
  <2> QED BY <1>0, <1>1, <1>2, InductionUpTo
<1> QED BY <1>3

Agree(records, places, more, others) ==
    \A i \in 1..Len(records) :
       /\ Term(records, places, i) \in Int
       /\ Term(more, others, i) = Term(records, places, i)

LEMMA TotalsAgree ==
    ASSUME NEW records, NEW places, NEW more, NEW others,
           Len(records) \in Nat, Len(more) \in Nat, Len(records) <= Len(more),
           Agree(records, places, more, others)
    PROVE  \A m \in 0..Len(records) :
              /\ Totals(records, places)[m] \in Int
              /\ Totals(more, others)[m] = Totals(records, places)[m]
<1>1. PICK a \in Nat \ {0}, d \in Int : d = 0
  BY 1 \in Nat \ {0}, 0 \in Int
<1>2. Differ(records, places, more, others, a, d)
  BY <1>1 DEF Agree, Differ
<1>3. \A m \in 0..Len(records) :
         /\ Totals(records, places)[m] \in Int
         /\ Totals(more, others)[m]
               = Totals(records, places)[m] + (IF a <= m THEN d ELSE 0)
  BY <1>2, TotalsDiffer
<1> QED BY <1>1, <1>3

\* A list with one count changed, and a list with one record more.
Changed(records, more, a, v) ==
    /\ Len(records) \in Nat /\ Len(more) = Len(records) /\ a \in 1..Len(records)
    /\ \A i \in 1..Len(records) :
          /\ records[i].count \in Nat
          /\ more[i].count = IF i = a THEN v ELSE records[i].count

LEMMA TotalChanged ==
    ASSUME NEW records, NEW more, NEW places, NEW a, NEW v \in Nat,
           Changed(records, more, a, v)
    PROVE  /\ Total(records, places) \in Int
           /\ Total(more, places) = Total(records, places)
                                     + (IF a \in places THEN v - records[a].count ELSE 0)
<1> DEFINE d == IF a \in places THEN v - records[a].count ELSE 0
<1>1. d \in Int /\ a \in Nat \ {0}
  BY DEF Changed
<1>2. Differ(records, places, more, places, a, d)
  <2> SUFFICES ASSUME NEW i \in 1..Len(records)
               PROVE  /\ Term(records, places, i) \in Int
                      /\ Term(more, places, i)
                            = Term(records, places, i) + (IF i = a THEN d ELSE 0)
    BY DEF Differ
  <2>1. /\ records[i].count \in Nat
        /\ more[i].count = IF i = a THEN v ELSE records[i].count
    BY DEF Changed
  <2> QED BY <2>1 DEF Term
<1> HIDE DEF d
<1>3. Len(records) \in Nat /\ Len(more) \in Nat /\ Len(records) <= Len(more)
  BY DEF Changed
<1>4. \A m \in 0..Len(records) :
         /\ Totals(records, places)[m] \in Int
         /\ Totals(more, places)[m] = Totals(records, places)[m] + (IF a <= m THEN d ELSE 0)
  BY <1>1, <1>2, <1>3, TotalsDiffer
<1>5. /\ Totals(records, places)[Len(records)] \in Int
      /\ Totals(more, places)[Len(records)] = Totals(records, places)[Len(records)] + d
  BY <1>3, <1>4 DEF Changed
<1>6. /\ Total(records, places) = Totals(records, places)[Len(records)]
      /\ Total(more, places) = Totals(more, places)[Len(records)]
  BY <1>3, TotalStep DEF Changed
<1> QED BY <1>5, <1>6 DEF d

Longer(records, places, more, others) ==
    /\ Len(records) \in Nat /\ Len(more) = Len(records) + 1
    /\ \A i \in 1..Len(records) : /\ records[i].count \in Nat /\ more[i] = records[i]
                                  /\ i \in others <=> i \in places

LEMMA TotalLonger ==
    ASSUME NEW records, NEW more, NEW places, NEW others,
           Longer(records, places, more, others)
    PROVE  LET n == Len(records) IN
           /\ Total(records, places) \in Int
           /\ Total(more, others) = Total(records, places)
                                     + (IF n + 1 \in others THEN more[n + 1].count ELSE 0)
<1> DEFINE n == Len(records)
<1>1. Agree(records, places, more, others)
  BY DEF Term, Agree, Longer
<1>2. n \in 0..Len(records) /\ Len(records) \in Nat /\ Len(more) \in Nat
      /\ Len(records) <= Len(more) /\ n \in 0..Len(more) /\ n # Len(more)
  BY DEF Longer
<1>3. /\ Totals(records, places)[n] \in Int
      /\ Totals(more, others)[n] = Totals(records, places)[n]
  BY <1>1, <1>2, TotalsAgree
<1>4. Totals(more, others)[n + 1] = Totals(more, others)[n] + Term(more, others, n + 1)
  BY <1>2, TotalStep
<1>5. /\ Total(records, places) = Totals(records, places)[n]
      /\ Total(more, others) = Totals(more, others)[n + 1]
  BY <1>2, TotalStep DEF Longer
<1> QED BY <1>3, <1>4, <1>5 DEF Term

-----------------------------------------------------------------------------
(* The counts.                                                             *)

\* No arc is in the chains of two entries.
OneOwner == \A d, e \in 1..Len(entries) : d # e => ArcsOf(d) \cap ArcsOf(e) = {}

\* The count an actor loaded is still the one in memory.
Exact(p) == pc[p] = "store" => regs[p].count = arcs[regs[p].arc].count

CountInv ==
    /\ OneOwner /\ clash \in BOOLEAN
    /\ \A p \in Actors : pc[p] = "store" => regs[p].count <= arcs[regs[p].arc].count
    /\ Exact("handler") /\ (clash \/ Exact("thread"))
    /\ CountsHonest

LEMMA CountInitially == ASSUME ProfilerAssumption, Init PROVE CountInv
<1>1. /\ entries = <<>> /\ arcs = <<>> /\ clash = FALSE /\ calls = [k \in Calls |-> 0]
      /\ \A p \in Actors : pc[p] = "out"
  BY DEF Init
<1>2. OneOwner
  BY <1>1 DEF OneOwner
<1>3. Len(arcs) = 0 /\ Len(arcs) \in Nat
  BY <1>1
<1>4. \A f, c : Counted(f, c) = 0
  BY <1>3, TotalStep DEF Counted
<1>5. CountsHonest
  BY <1>1, <1>4 DEF CountsHonest
<1> QED BY <1>1, <1>2, <1>5 DEF CountInv, Exact, Actors

\* Whoever is at its store afterwards was there before or has just loaded.
LEMMA StoresLoaded ==
    ASSUME WalkInv, NEW p \in Actors, Walks(p), NEW q \in Actors, pc'[q] = "store"
    PROVE  \/ regs'[q].count = arcs'[regs'[q].arc].count
           \/ pc[q] = "store" /\ regs'[q] = regs[q]
<1>1. pc \in [Actors -> Places] /\ regs \in [Actors -> Registers]
      /\ regs[p] \in Registers
  BY DEF WalkInv, ActorInv
<1>2. CASE q # p
  <2>1. PICK r : regs' = [regs EXCEPT ![p] = r]
    <3>1. regs = [regs EXCEPT ![p] = regs[p]]
      BY <1>1
    <3>2. CASE regs' = regs
      BY <3>1, <3>2
    <3>3. CASE Entered(p) \/ FindEntry(p) \/ FindArc(p) \/ Load(p)
      BY <1>1, <3>3 DEF Entered, FindEntry, FindArc, Load
    <3> QED BY <3>2, <3>3 DEF Walks, Record, ClearNeed, NoRate, StartAlarm
  <2>2. pc'[q] = pc[q]
    BY <1>1, <1>2 DEF Walks, Entered, FindEntry, FindArc, Load, Record, ClearNeed,
                      NoRate, StartAlarm, Goto
  <2> QED BY <1>1, <1>2, <2>1, <2>2
<1>3. CASE q = p
  <2>1. Load(p)
    BY <1>1, <1>3 DEF Walks, Entered, FindEntry, FindArc, Record, ClearNeed, NoRate,
                      StartAlarm, Goto
  <2> DEFINE v == arcs[regs[p].arc].count
  <2>2. regs' = [regs EXCEPT ![p].count = v] /\ arcs' = arcs
    BY <2>1 DEF Load, graphVars
  <2> HIDE DEF v
  <2>3. regs'[p].count = v /\ regs'[p].arc = regs[p].arc
    BY <1>1, <2>2 DEF Registers
  <2> QED BY <1>3, <2>2, <2>3 DEF v
<1> QED BY <1>2, <1>3

\* A step that leaves graph, calls and clash alone, and brings nobody to its
\* store with another count than the one in memory.
LEMMA CountStays ==
    ASSUME WalkInv, WalkInv', CountInv, UNCHANGED <<graphVars, calls, clash>>,
           \A q \in Actors : pc'[q] = "store" =>
              \/ regs'[q].count = arcs'[regs'[q].arc].count
              \/ pc[q] = "store" /\ regs'[q] = regs[q]
    PROVE  CountInv'
<1>1. arcs' = arcs /\ entries' = entries
  BY DEF graphVars
<1>2. OneOwner' /\ (clash \in BOOLEAN)'
  BY <1>1 DEF CountInv, OneOwner, ArcsOf
<1>3. \A f, c : Counted(f, c)' = Counted(f, c)
  BY <1>1, GraphStays DEF Counted, WalkInv
<1>4. CountsHonest'
  BY <1>3 DEF CountInv, CountsHonest
<1>5. ASSUME NEW q \in Actors, pc'[q] = "store"
      PROVE  /\ regs'[q].count <= arcs'[regs'[q].arc].count
             /\ Exact(q) => Exact(q)'
  <2>1. CASE regs'[q].count = arcs'[regs'[q].arc].count
    <3>1. regs'[q].count \in Nat
      BY DEF WalkInv, ActorInv, Registers
    <3> QED BY <2>1, <3>1 DEF Exact
  <2>2. CASE pc[q] = "store" /\ regs'[q] = regs[q]
    BY <1>1, <2>2 DEF CountInv, Exact
  <2> QED BY <1>5, <2>1, <2>2
<1>6. \A q \in Actors : Exact(q) => Exact(q)'
  BY <1>5 DEF Exact
<1> QED BY <1>2, <1>4, <1>5, <1>6 DEF CountInv, Actors

LEMMA OneCountedMore ==
    ASSUME NEW t \in Int, NEW c \in Nat, NEW r \in Nat, NEW m \in Nat, t <= c, r <= m
    PROVE  /\ t + ((r + 1) - m) <= c + 1
           /\ t = c /\ r = m => t + ((r + 1) - m) = c + 1
OBVIOUS

LEMMA CountStore ==
    ASSUME WalkInv, CountInv, NEW p \in Actors, Store(p) PROVE CountInv'
<1> DEFINE a == regs[p].arc
           n == Len(arcs)
           v == regs[p].count + 1
<1>1. /\ WalkInv' /\ UNCHANGED entries
      /\ a \in 1..n /\ Len(arcs') = n
      /\ \A i \in 1..n : arcs'[i].count = IF i = a THEN v ELSE arcs[i].count
      /\ \A e \in 1..Len(entries) : ArcsOf(e)' = ArcsOf(e)
      /\ \A f, c : Copies(f, c)' = Copies(f, c)
      /\ regs[p].self_pc \in Functions /\ regs[p].from_pc \in Callers
      /\ a \in Copies(regs[p].self_pc, regs[p].from_pc)
      /\ pc[p] = "store"
      /\ calls' = [calls EXCEPT ![<<regs[p].self_pc, regs[p].from_pc>>] = @ + 1]
  BY StoreKeeps
<1>2. /\ pc \in [Actors -> Places] /\ regs \in [Actors -> Registers] /\ GraphInv
      /\ regs[p].count \in Nat /\ calls \in [Calls -> Nat] /\ n \in Nat
      /\ p = "thread" => pc["handler"] = "out"
      /\ pc' = [pc EXCEPT ![p] = "out"] /\ regs' = [regs EXCEPT ![p] = Unused]
      /\ clash' = (clash \/ (/\ p = "handler" /\ pc["thread"] = "store"
                             /\ regs["thread"].arc = regs[p].arc))
  BY DEF WalkInv, ActorInv, GraphInv, Registers, Store, At, Return, Goto
<1>3. \A i \in 1..n : arcs[i].count \in Nat
  <2>1. \A i \in 1..n : arcs[i] \in Arc
    BY <1>2 DEF GraphInv
  <2> QED BY <2>1 DEF Arc
<1>4. v \in Nat /\ regs[p].count <= arcs[a].count /\ (clash \/ regs[p].count = arcs[a].count)
  BY <1>1, <1>2 DEF CountInv, Exact, Actors
<1>5. OneOwner' /\ (clash \in BOOLEAN)'
  BY <1>1, <1>2 DEF CountInv, OneOwner
<1> HIDE DEF v
<1>6. \A f, c : /\ Counted(f, c) \in Int
                /\ Counted(f, c)' = Counted(f, c)
                      + (IF a \in Copies(f, c) THEN v - arcs[a].count ELSE 0)
  <2> TAKE f, c
  <2>1. /\ Total(arcs, Copies(f, c)) \in Int
        /\ Total(arcs', Copies(f, c)) = Total(arcs, Copies(f, c))
              + (IF a \in Copies(f, c) THEN v - arcs[a].count ELSE 0)
    <3>1. Changed(arcs, arcs', a, v)
      BY <1>1, <1>2, <1>3 DEF Changed
    <3> HIDE DEF a
    <3> QED BY <1>4, <3>1, TotalChanged
  <2> QED BY <1>1, <2>1 DEF Counted
<1>7. ASSUME NEW f, NEW c, a \in Copies(f, c)
      PROVE  f = regs[p].self_pc /\ c = regs[p].from_pc
  <2>1. PICK e \in 1..Len(entries) :
          entries[e].key = f /\ a \in ArcsOf(e) /\ arcs[a].key = c
    BY <1>2, <1>7, CopiesAre
  <2>2. PICK d \in 1..Len(entries) : /\ entries[d].key = regs[p].self_pc
                                     /\ a \in ArcsOf(d) /\ arcs[a].key = regs[p].from_pc
    BY <1>1, <1>2, CopiesAre
  <2>3. d = e
    BY <2>1, <2>2 DEF CountInv, OneOwner
  <2> QED BY <2>1, <2>2, <2>3
<1>8. CountsHonest'
  <2> SUFFICES ASSUME NEW f \in Functions, NEW c \in Callers
               PROVE  /\ Counted(f, c)' <= calls'[<<f, c>>]
                      /\ clash' \/ Counted(f, c)' = calls'[<<f, c>>]
    BY DEF CountsHonest, Calls
  <2>1. /\ Counted(f, c) <= calls[<<f, c>>] /\ (clash \/ Counted(f, c) = calls[<<f, c>>])
        /\ calls[<<f, c>>] \in Nat /\ Counted(f, c) \in Int
    BY <1>2, <1>6 DEF CountInv, CountsHonest, Calls
  <2>2. CASE a \in Copies(f, c)
    <3>1. Counted(f, c)' = Counted(f, c) + (v - arcs[a].count)
      BY <1>6, <2>2
    <3>2. calls'[<<f, c>>] = calls[<<f, c>>] + 1
      BY <1>1, <1>2, <1>7, <2>2 DEF Calls
    <3>3. v = regs[p].count + 1 /\ arcs[a].count \in Nat
      BY <1>1, <1>3 DEF v
    <3>4. /\ Counted(f, c) + (v - arcs[a].count) <= calls[<<f, c>>] + 1
          /\ Counted(f, c) = calls[<<f, c>>] /\ regs[p].count = arcs[a].count =>
                Counted(f, c) + (v - arcs[a].count) = calls[<<f, c>>] + 1
      BY <1>2, <1>4, <2>1, <3>3, OneCountedMore
    <3>5. clash' \/ (Counted(f, c) = calls[<<f, c>>] /\ regs[p].count = arcs[a].count)
      BY <1>2, <1>4, <2>1
    <3> QED BY <3>1, <3>2, <3>4, <3>5
  <2>3. CASE a \notin Copies(f, c)
    <3>1. Counted(f, c)' = Counted(f, c)
      BY <1>6, <2>3
    <3>2. ~(f = regs[p].self_pc /\ c = regs[p].from_pc)
      BY <1>1, <2>3
    <3>3. calls'[<<f, c>>] = calls[<<f, c>>]
      BY <1>1, <1>2, <3>2 DEF Calls
    <3> QED BY <1>2, <2>1, <3>1, <3>3
  <2> QED BY <2>2, <2>3
<1>9. ASSUME NEW q \in Actors, pc'[q] = "store"
      PROVE  /\ p = "handler" /\ q = "thread" /\ pc[q] = "store" /\ regs'[q] = regs[q]
  BY <1>2, <1>9 DEF Actors
<1>10. ASSUME NEW q \in Actors, pc'[q] = "store"
       PROVE  /\ regs'[q].count <= arcs'[regs'[q].arc].count
              /\ clash' \/ regs'[q].count = arcs'[regs'[q].arc].count
  <2>1. /\ p = "handler" /\ q = "thread" /\ pc[q] = "store" /\ regs'[q] = regs[q]
    BY <1>9, <1>10
  <2> DEFINE b == regs[q].arc
  <2>2. b \in 1..n /\ regs[q].count \in Nat
    <3>1. Sound(pc[q], regs[q]) /\ regs[q] \in Registers
      BY DEF WalkInv, ActorInv
    <3> QED BY <1>2, <2>1, <3>1, GraphLinked DEF Sound, Registers
  <2>3. /\ regs[q].count <= arcs[b].count /\ (clash \/ regs[q].count = arcs[b].count)
        /\ regs[p].count = arcs[a].count
    BY <1>1, <2>1 DEF CountInv, Exact
  <2>4. CASE b = a
    <3>1. arcs'[b].count = v /\ clash'
      BY <1>1, <1>2, <2>1, <2>2, <2>4
    <3>2. v = arcs[a].count + 1 /\ arcs[a].count \in Nat
      BY <1>1, <1>3, <2>3 DEF v
    <3> QED BY <2>1, <2>2, <2>3, <2>4, <3>1, <3>2
  <2>5. CASE b # a
    <3>1. arcs'[b].count = arcs[b].count
      BY <1>1, <2>2, <2>5
    <3> QED BY <1>2, <2>1, <2>3, <3>1
  <2> QED BY <2>4, <2>5
<1>11. Exact("handler")' /\ (clash \/ Exact("thread"))'
  BY <1>9, <1>10 DEF Exact, Actors
<1> QED BY <1>5, <1>8, <1>10, <1>11 DEF CountInv

LEMMA CountLink ==
    ASSUME ProfilerAssumption, WalkInv, CountInv, NEW p \in Actors, Link(p)
    PROVE  CountInv'
<1> DEFINE n == Len(arcs)
<1>1. PICK k, h : Inserted(p, k, h)
  BY LinkInserts
<1>2. /\ WalkInv' /\ regs[p].self_pc \in Functions /\ regs[p].from_pc \in Callers
      /\ \A f, c : Copies(f, c)' = Copies(f, c) \union
              (IF f = regs[p].self_pc /\ c = regs[p].from_pc THEN {n + 1} ELSE {})
      /\ calls' = [calls EXCEPT ![<<regs[p].self_pc, regs[p].from_pc>>] = @ + 1]
  BY <1>1, LinkKeeps
<1>3. /\ k \in 1..Len(entries')
      /\ ArcsOf(k)' = {n + 1} \union (IF k \in 1..Len(entries) THEN ArcsOf(k) ELSE {})
      /\ \A e \in 1..Len(entries) : e # k => ArcsOf(e)' = ArcsOf(e)
      /\ \A e \in 1..Len(entries') : e = k \/ e \in 1..Len(entries)
  BY <1>1, LinkChains
<1>4. /\ Len(arcs') = n + 1 /\ \A i \in 1..n : arcs'[i] = arcs[i]
      /\ arcs'[n + 1].count = 1
  BY <1>1 DEF Inserted
<1>5. /\ pc \in [Actors -> Places] /\ GraphInv /\ calls \in [Calls -> Nat] /\ n \in Nat
      /\ regs \in [Actors -> Registers]
      /\ pc' = [pc EXCEPT ![p] = "out"] /\ regs' = [regs EXCEPT ![p] = Unused]
      /\ clash' = clash
  BY DEF WalkInv, ActorInv, GraphInv, Link, At, Return, Goto
<1>6. /\ \A i \in 1..n : arcs[i].count \in Nat
      /\ \A e \in 1..Len(entries) : ArcsOf(e) \subseteq 1..n
  <2>1. \A i \in 1..n : arcs[i] \in Arc
    BY <1>5 DEF GraphInv
  <2> QED BY <1>5, <2>1, GraphLinked DEF Arc
<1>7. OneOwner' /\ (clash \in BOOLEAN)'
  <2>1. ASSUME NEW d \in 1..Len(entries'), NEW e \in 1..Len(entries'), d # e
        PROVE  ArcsOf(d)' \cap ArcsOf(e)' = {}
    <3>1. ASSUME NEW b \in 1..Len(entries), b # k PROVE ArcsOf(b)' \cap ArcsOf(k)' = {}
      <4>1. ArcsOf(b)' = ArcsOf(b) /\ n + 1 \notin ArcsOf(b)
        BY <1>3, <1>5, <1>6, <3>1
      <4>2. k \in 1..Len(entries) => ArcsOf(b) \cap ArcsOf(k) = {}
        BY <3>1 DEF CountInv, OneOwner
      <4> QED BY <1>3, <4>1, <4>2
    <3>2. CASE d # k /\ e # k
      <4>1. d \in 1..Len(entries) /\ e \in 1..Len(entries)
        BY <1>3, <3>2
      <4> QED BY <1>3, <2>1, <3>2, <4>1 DEF CountInv, OneOwner
    <3>3. CASE d = k
      BY <1>3, <2>1, <3>1, <3>3
    <3>4. CASE e = k
      BY <1>3, <2>1, <3>1, <3>4
    <3> QED BY <3>2, <3>3, <3>4
  <2> QED BY <1>5, <2>1 DEF CountInv, OneOwner
<1>8. \A f, c : /\ Counted(f, c) \in Int
                /\ Counted(f, c)' = Counted(f, c)
                      + (IF f = regs[p].self_pc /\ c = regs[p].from_pc THEN 1 ELSE 0)
  <2> TAKE f, c
  <2>1. n + 1 \in Copies(f, c)' <=> f = regs[p].self_pc /\ c = regs[p].from_pc
    <3>1. n + 1 \notin Copies(f, c)
      BY <1>5, <1>6, CopiesAre
    <3> QED BY <1>2, <3>1
  <2>2. Longer(arcs, Copies(f, c), arcs', Copies(f, c)')
    <3>1. \A i \in 1..n : i \in Copies(f, c)' <=> i \in Copies(f, c)
      BY <1>2, <1>5
    <3> QED BY <1>4, <1>5, <1>6, <3>1 DEF Longer
  <2>3. /\ Total(arcs, Copies(f, c)) \in Int
        /\ Total(arcs', Copies(f, c)') = Total(arcs, Copies(f, c))
              + (IF n + 1 \in Copies(f, c)' THEN arcs'[n + 1].count ELSE 0)
    BY <2>2, TotalLonger
  <2> QED BY <1>4, <2>1, <2>3 DEF Counted
<1>9. CountsHonest'
  <2> SUFFICES ASSUME NEW f \in Functions, NEW c \in Callers
               PROVE  /\ Counted(f, c)' <= calls'[<<f, c>>]
                      /\ clash' \/ Counted(f, c)' = calls'[<<f, c>>]
    BY DEF CountsHonest, Calls
  <2>1. /\ Counted(f, c) <= calls[<<f, c>>] /\ (clash \/ Counted(f, c) = calls[<<f, c>>])
        /\ calls[<<f, c>>] \in Nat /\ Counted(f, c) \in Int
    BY <1>5, <1>8 DEF CountInv, CountsHonest, Calls
  <2>2. calls'[<<f, c>>] = calls[<<f, c>>]
                + (IF f = regs[p].self_pc /\ c = regs[p].from_pc THEN 1 ELSE 0)
    <3>1. <<f, c>> \in Calls /\ <<regs[p].self_pc, regs[p].from_pc>> \in Calls
      BY <1>2 DEF Calls
    <3>2. CASE f = regs[p].self_pc /\ c = regs[p].from_pc
      BY <1>2, <1>5, <3>1, <3>2
    <3>3. CASE ~(f = regs[p].self_pc /\ c = regs[p].from_pc)
      <4>1. <<f, c>> # <<regs[p].self_pc, regs[p].from_pc>>
        BY <3>3
      <4>2. calls'[<<f, c>>] = calls[<<f, c>>]
        BY <1>2, <1>5, <3>1, <4>1
      <4> QED BY <2>1, <3>3, <4>2
    <3> QED BY <3>2, <3>3
  <2>3. Counted(f, c)' = Counted(f, c)
                + (IF f = regs[p].self_pc /\ c = regs[p].from_pc THEN 1 ELSE 0)
    BY <1>8
  <2> QED BY <1>5, <2>1, <2>2, <2>3
<1>10. ASSUME NEW q \in Actors, pc'[q] = "store"
       PROVE  /\ pc[q] = "store" /\ regs'[q] = regs[q]
              /\ arcs'[regs[q].arc].count = arcs[regs[q].arc].count
  <2>1. pc[q] = "store" /\ regs'[q] = regs[q]
    BY <1>5, <1>10
  <2>2. regs[q].arc \in 1..n
    <3>1. Sound(pc[q], regs[q])
      BY DEF WalkInv, ActorInv
    <3> QED BY <1>6, <2>1, <3>1 DEF Sound
  <2> QED BY <1>4, <2>1, <2>2
<1>11. \A q \in Actors : /\ pc'[q] = "store" => regs'[q].count <= arcs'[regs'[q].arc].count
                         /\ Exact(q) => Exact(q)'
  BY <1>10 DEF CountInv, Exact
<1> QED BY <1>5, <1>7, <1>9, <1>11 DEF CountInv, Actors

LEMMA CountNext ==
    ASSUME ProfilerAssumption, WalkInv, CountInv, [Unbounded]_vars PROVE CountInv'
<1>1. WalkInv'
  BY WalkNext
<1>2. CASE UNCHANGED vars
  BY <1>1, <1>2, CountStays DEF vars, historyVars
<1>3. CASE Given \/ ClockStarts \/ \E p \in Actors : Histogram(p)
  <2>1. UNCHANGED <<graphVars, calls, regs, clash>>
    BY <1>3, MemoryKeeps
  <2>2. \A q \in Actors : pc'[q] = "store" => pc[q] = "store"
    BY <1>3 DEF Given, ClockStarts, Histogram, Goto, WalkInv, ActorInv
  <2> QED BY <1>1, <2>1, <2>2, CountStays
<1>4. ASSUME NEW p \in Actors, Walks(p) PROVE CountInv'
  <2>1. UNCHANGED <<graphVars, calls>>
    BY <1>4, WalksKeep
  <2>2. clash' = clash
    BY <1>4 DEF Walks, Entered, FindEntry, FindArc, Load, Record, ClearNeed, NoRate,
                StartAlarm, historyVars
  <2> QED BY <1>1, <1>4, <2>1, <2>2, StoresLoaded, CountStays
<1> QED BY <1>2, <1>3, <1>4, CountStore, CountLink DEF Unbounded

\* The copies of an arc count no call twice, and together every call, except
\* where the handler counted one between a load and a store of the thread, for
\* any number of functions, callers and calls (alt_mcount.S:120-122,
\* alt_gmon.c:52-53).
THEOREM GraphCounts == ProfilerAssumption => (Open => []CountsHonest)
<1> SUFFICES ASSUME ProfilerAssumption PROVE Open => []CountsHonest
  OBVIOUS
<1>1. Init => WalkInv /\ CountInv
  BY WalkInitially, CountInitially
<1>2. WalkInv /\ CountInv /\ [Unbounded]_vars => (WalkInv /\ CountInv)'
  BY WalkNext, CountNext
<1>3. CountInv => CountsHonest
  BY DEF CountInv
<1> QED BY <1>1, <1>2, <1>3, PTL DEF Open

=============================================================================
