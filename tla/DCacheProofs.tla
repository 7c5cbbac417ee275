---------------------------- MODULE DCacheProofs ----------------------------
(***************************************************************************)
(* Proofs about the data cache, for every size of memory, cache and line.  *)
(***************************************************************************)
EXTENDS DCache, TLAPS

-----------------------------------------------------------------------------
(* Addresses, lines and sets.                                              *)

LEMMA Division ==
    ASSUME NEW n \in Nat, NEW d \in Nat, d > 0
    PROVE  /\ n \div d \in Nat /\ n % d \in 0..(d - 1)
           /\ n = (n \div d) * d + (n % d)
BY SMT

LEMMA Quotient ==
    ASSUME NEW q \in Nat, NEW d \in Nat, NEW r \in 0..(d - 1)
    PROVE  (q * d + r) % d = r /\ (q * d + r) \div d = q
BY SMT

LEMMA Multiple ==
    ASSUME NEW q \in Nat, NEW d \in Nat, d > 0 PROVE (q * d) % d = 0
BY SMT

LEMMA Times == ASSUME NEW m \in Nat, NEW n \in Nat PROVE m * n \in Nat
BY SMT

LEMMA Monotone ==
    ASSUME NEW m \in Nat, NEW n \in Nat, NEW d \in Nat, m < n
    PROVE  m * d + d <= n * d
<1>1. (m + 1) * d <= n * d
  BY SMT
<1>2. (m + 1) * d = m * d + d
  BY SMT
<1> QED BY <1>1, <1>2

LEMMA TimesMonotone ==
    ASSUME NEW m \in Nat, NEW n \in Nat, NEW d \in Nat, m <= n
    PROVE  m * d <= n * d
BY SMT

\* A bound on a product bounds the factor.
LEMMA Below ==
    ASSUME NEW m \in Nat, NEW n \in Nat, NEW d \in Nat, m * d < n * d
    PROVE  m < n
<1> SUFFICES ASSUME n <= m PROVE FALSE
  OBVIOUS
<1>1. n * d <= m * d
  BY SMT
<1>2. m * d \in Nat /\ n * d \in Nat
  BY Times
<1> QED BY <1>1, <1>2

LEMMA Distributed ==
    ASSUME NEW m \in Nat, NEW n \in Nat, NEW d \in Nat
    PROVE  (m + n) * d = m * d + n * d
BY SMT

LEMMA Sizes ==
    ASSUME DCacheAssumption
    PROVE  /\ LINE \in Nat /\ LINE > 0 /\ SETS \in Nat /\ SETS > 0
           /\ LINES \in Nat /\ LINES > 0 /\ LINES * LINE \in Nat
BY Times DEF DCacheAssumption

LineNumbers == 0..(LINES - 1)
Offsets == 0..(LINE - 1)

LEMMA AddressesNat ==
    ASSUME DCacheAssumption PROVE Addresses \subseteq Nat
<1> DEFINE u == LINES * LINE
<1>1. u \in Nat
  BY Sizes
<1>2. Addresses = 0..(u - 1)
  BY DEF Addresses
<1> HIDE DEF u
<1> QED BY <1>1, <1>2

\* An address is a line and an offset.
LEMMA AddressParts ==
    ASSUME DCacheAssumption, NEW a \in Addresses
    PROVE  /\ LineOf(a) \in LineNumbers /\ a % LINE \in Offsets
           /\ LineOf(a) * LINE + (a % LINE) = a
<1>1. /\ a \in Nat /\ a < LINES * LINE
      /\ LineOf(a) \in Nat /\ a % LINE \in Offsets
      /\ a = LineOf(a) * LINE + (a % LINE)
  <2> DEFINE u == LINES * LINE
  <2>1. u \in Nat
    BY Sizes
  <2>2. a \in 0..(u - 1)
    BY DEF Addresses
  <2>3. a \in Nat /\ a < u
    <3> HIDE DEF u
    <3> QED BY <2>1, <2>2
  <2>4. LINE \in Nat /\ LINE > 0
    BY Sizes
  <2>5. /\ a \div LINE \in Nat /\ a % LINE \in 0..(LINE - 1)
        /\ a = (a \div LINE) * LINE + (a % LINE)
    BY <2>3, <2>4, Division
  <2> QED BY <2>3, <2>5 DEF LineOf, Offsets
<1> DEFINE p == LineOf(a) * LINE
           t == LINES * LINE
<1>2. p \in Nat /\ p <= a
  <2>1. p \in Nat
    BY <1>1, Sizes, Times
  <2>2. a = p + (a % LINE) /\ a % LINE \in Nat
    BY <1>1 DEF Offsets
  <2> HIDE DEF p
  <2> QED BY <2>1, <2>2, <1>1
<1>3. LineOf(a) * LINE < LINES * LINE
  <2>1. t \in Nat /\ a < t
    BY <1>1, Sizes
  <2> HIDE DEF p, t
  <2>2. p < t
    BY <1>2, <2>1, <1>1
  <2> QED BY <2>2 DEF p, t
<1>4. LineOf(a) < LINES
  BY <1>1, <1>3, Sizes, Below
<1> QED BY <1>1, <1>4, Sizes DEF LineNumbers

LEMMA PartsAddress ==
    ASSUME DCacheAssumption, NEW l \in LineNumbers, NEW o \in Offsets
    PROVE  /\ l * LINE + o \in Addresses
           /\ LineOf(l * LINE + o) = l /\ (l * LINE + o) % LINE = o
<1>1. l \in Nat /\ o \in Nat /\ o < LINE /\ l < LINES
  BY Sizes DEF LineNumbers, Offsets
<1>2. l * LINE + LINE <= LINES * LINE
  BY <1>1, Sizes, Monotone
<1> DEFINE p == l * LINE
           t == LINES * LINE
<1>3. p \in Nat /\ t \in Nat
  BY <1>1, Sizes, Times
<1>4. p + o \in 0..(t - 1)
  <2>1. p + LINE <= t
    BY <1>2
  <2> HIDE DEF p, t
  <2> QED BY <1>1, <1>3, <2>1, Sizes
<1>5. (p + o) \div LINE = l /\ (p + o) % LINE = o
  <2>1. LINE \in Nat /\ o \in 0..(LINE - 1)
    BY Sizes DEF Offsets
  <2> QED BY <1>1, <2>1, Quotient
<1> QED BY <1>4, <1>5 DEF Addresses, LineOf

LEMMA SetExists ==
    ASSUME DCacheAssumption, NEW l \in LineNumbers
    PROVE  SetOf(l) \in 0..(SETS - 1)
<1>1. l \in Nat
  BY Sizes DEF LineNumbers
<1> QED BY <1>1, Sizes, Division DEF SetOf

\* A line on from an address is the next line.
LEMMA StepsOfLines ==
    ASSUME DCacheAssumption, NEW start \in Nat, NEW k \in Nat
    PROVE  LineOf(start + k * LINE) = LineOf(start) + k
<1>1. /\ LineOf(start) \in Nat /\ start % LINE \in 0..(LINE - 1)
      /\ start = LineOf(start) * LINE + (start % LINE)
  BY Sizes, Division DEF LineOf
<1>2. (LineOf(start) + k) * LINE = LineOf(start) * LINE + k * LINE
  BY <1>1, Sizes, Distributed
<1> DEFINE p == LineOf(start) * LINE
           q == k * LINE
           r == start % LINE
<1>3. p \in Nat /\ q \in Nat /\ r \in Nat /\ start = p + r
  BY <1>1, Sizes, Times
<1>4. start + q = (p + q) + r
  <2> HIDE DEF p, q, r
  <2> QED BY <1>3
<1>5. start + k * LINE = (LineOf(start) + k) * LINE + r
  BY <1>2, <1>4
<1>6. ((LineOf(start) + k) * LINE + r) \div LINE = LineOf(start) + k
  <2>1. LineOf(start) + k \in Nat
    BY <1>1
  <2>2. LINE \in Nat /\ r \in 0..(LINE - 1)
    BY <1>1, Sizes
  <2> HIDE DEF r
  <2> QED BY <2>1, <2>2, Quotient
<1> QED BY <1>5, <1>6 DEF LineOf

Steps(len) == (len + LINE - 1) \div LINE

LEMMA StepsCover ==
    ASSUME DCacheAssumption, NEW len \in Nat, len > 0
    PROVE  /\ Steps(len) \in Nat /\ Steps(len) >= 1 /\ len <= Steps(len) * LINE
           /\ Steps(len) * LINE <= len + LINE - 1
<1>1. len + LINE - 1 \in Nat
  BY Sizes
<1>2. /\ Steps(len) \in Nat /\ (len + LINE - 1) % LINE \in 0..(LINE - 1)
      /\ len + LINE - 1 = Steps(len) * LINE + ((len + LINE - 1) % LINE)
  BY <1>1, Sizes, Division DEF Steps
<1> DEFINE p == Steps(len) * LINE
           r == (len + LINE - 1) % LINE
<1>3. p \in Nat
  BY <1>2, Sizes, Times
<1>4. len <= p /\ p <= len + LINE - 1 /\ p > 0
  <2>1. len + LINE - 1 = p + r /\ r \in 0..(LINE - 1)
    BY <1>2
  <2> HIDE DEF p, r
  <2> QED BY <1>3, <2>1, Sizes
<1>5. Steps(len) # 0
  <2> SUFFICES ASSUME Steps(len) = 0 PROVE FALSE
    OBVIOUS
  <2>1. 0 * LINE = 0
    BY Sizes
  <2> QED BY <2>1, <1>4
<1> QED BY <1>2, <1>4, <1>5

\* The lines a flush names are all those of its region.
LEMMA GivenCovers ==
    ASSUME DCacheAssumption, NEW start \in Nat, NEW len \in Nat, len > 0,
           NEW a \in Region(start, len)
    PROVE  LineOf(a) \in Given(start, len)
<1>1. a \in Nat /\ start <= a /\ a < start + len
  BY DEF Region
<1>2. /\ LineOf(start) \in Nat /\ start % LINE \in 0..(LINE - 1)
      /\ start = LineOf(start) * LINE + (start % LINE)
      /\ LineOf(a) \in Nat /\ a % LINE \in 0..(LINE - 1)
      /\ a = LineOf(a) * LINE + (a % LINE)
  BY <1>1, Sizes, Division DEF LineOf
<1>3. /\ Steps(len) \in Nat /\ Steps(len) >= 1 /\ len <= Steps(len) * LINE
  BY StepsCover
<1> DEFINE b == LineOf(start)
           m == LineOf(a)
           n == Steps(len)
           r == start % LINE
           f == IF r # 0 THEN n ELSE n - 1
<1>4. b * LINE \in Nat /\ m * LINE \in Nat /\ n * LINE \in Nat
  BY <1>2, <1>3, Sizes, Times
<1>5. b <= m
  <2> SUFFICES ASSUME m < b PROVE FALSE
    BY <1>2
  <2>1. m * LINE + LINE <= b * LINE
    BY <1>2, Sizes, Monotone
  <2> DEFINE x == m * LINE
             y == b * LINE
             o == a % LINE
  <2>2. /\ x \in Nat /\ y \in Nat /\ x + LINE <= y
        /\ start = y + r /\ r \in 0..(LINE - 1)
        /\ a = x + o /\ o \in 0..(LINE - 1)
    BY <2>1, <1>2, <1>4
  <2> HIDE DEF x, y, o, r, b, m
  <2> QED BY <2>2, <1>1, Sizes
<1>6. m - b <= f
  <2> SUFFICES ASSUME f + 1 + b <= m PROVE FALSE
    BY <1>2, <1>3, <1>5
  <2>0. f \in Nat /\ b \in Nat /\ m \in Nat /\ LINE \in Nat
    <3>1. f \in Nat
      BY <1>3
    <3> QED BY <3>1, <1>2, Sizes
  <2>1. (f + 1 + b) * LINE <= m * LINE
    <3> DEFINE c == f + 1 + b
    <3>0. c \in Nat /\ c <= m
      <4> HIDE DEF f, b, m
      <4> QED BY <2>0
    <3> HIDE DEF c, m
    <3>1. c * LINE <= m * LINE
      BY <2>0, <3>0, TimesMonotone
    <3> QED BY <3>1 DEF c
  <2>2. (f + 1 + b) * LINE = (f + 1) * LINE + b * LINE
    <3> DEFINE g == f + 1
    <3>1. g \in Nat
      <4> HIDE DEF f
      <4> QED BY <2>0
    <3> HIDE DEF g, b
    <3>2. (g + b) * LINE = g * LINE + b * LINE
      BY <2>0, <3>1, Distributed
    <3> QED BY <3>2 DEF g
  <2>3. (n + 1) * LINE = n * LINE + LINE
    BY <1>3, Sizes, Distributed
  <2> DEFINE x == m * LINE
             y == b * LINE
             z == n * LINE
             o == a % LINE
             w == (f + 1) * LINE
  <2>4. w + y <= x /\ a = x + o /\ o \in Nat /\ start = y + r
    BY <2>1, <2>2, <1>2
  <2>5. x \in Nat /\ y \in Nat /\ z \in Nat /\ len <= z /\ r \in 0..(LINE - 1)
    BY <1>2, <1>3, <1>4
  <2>6. CASE r # 0
    <3>1. w = z + LINE
      BY <2>6, <2>3
    <3> HIDE DEF x, y, z, o, w, r
    <3> QED BY <3>1, <2>4, <2>5, <1>1, Sizes
  <2>7. CASE r = 0
    <3>1. f + 1 = n
      BY <2>7, <1>3
    <3>2. w = z
      BY <3>1
    <3> HIDE DEF x, y, z, o, w, r
    <3> QED BY <3>2, <2>4, <2>5, <2>7, <1>1, Sizes
  <2> QED BY <2>6, <2>7
<1>7. m - b \in 0..f
  BY <1>2, <1>3, <1>5, <1>6
<1>8. LineOf(start + (m - b) * LINE) = m
  <2>1. m - b \in Nat
    BY <1>2, <1>5
  <2>2. LineOf(start + (m - b) * LINE) = b + (m - b)
    BY <2>1, StepsOfLines
  <2> QED BY <2>2, <1>2
<1>9. f = LastStep(start, Steps(len))
  BY DEF LastStep
<1> QED BY <1>7, <1>8, <1>9 DEF Given, Steps

\* Of whole lines it names no others.
LEMMA GivenAligned ==
    ASSUME DCacheAssumption, NEW start \in Nat, NEW len \in Nat, len > 0,
           start % LINE = 0, len % LINE = 0,
           NEW a \in Addresses, LineOf(a) \in Given(start, len)
    PROVE  a \in Region(start, len)
<1> DEFINE b == LineOf(start)
           n == Steps(len)
           q == len \div LINE
<1>1. PICK k \in 0..LastStep(start, n) : LineOf(a) = LineOf(start + k * LINE)
  BY DEF Given, Steps
<1>2. n \in Nat /\ n >= 1 /\ n * LINE <= len + LINE - 1
  BY StepsCover
<1>3. k \in Nat /\ k + 1 <= n
  BY <1>1, <1>2 DEF LastStep
<1>4. LineOf(a) = b + k
  BY <1>1, <1>3, StepsOfLines
<1>5. b \in Nat /\ start = b * LINE /\ q \in Nat /\ len = q * LINE
  <2>1. LINE \in Nat /\ LINE > 0
    BY Sizes
  <2>2. b \in Nat /\ start = b * LINE + (start % LINE)
    BY <2>1, Division DEF LineOf
  <2>3. q \in Nat /\ len = q * LINE + (len % LINE)
    BY <2>1, Division
  <2>4. b * LINE \in Nat /\ q * LINE \in Nat
    BY <2>1, <2>2, <2>3, Times
  <2> QED BY <2>2, <2>3, <2>4
<1>6. n * LINE <= len
  <2>1. (q + 1) * LINE = q * LINE + LINE
    BY <1>5, Sizes, Distributed
  <2>2. n * LINE < (q + 1) * LINE
    <3> DEFINE x == n * LINE
               y == (q + 1) * LINE
    <3>1. y = len + LINE /\ x <= len + LINE - 1
      BY <2>1, <1>2, <1>5
    <3>2. x \in Nat /\ LINE \in Nat
      BY <1>2, Sizes, Times
    <3> HIDE DEF x, y
    <3>3. x < y
      BY <3>1, <3>2
    <3> QED BY <3>3 DEF x, y
  <2>3. n < q + 1
    <3>1. q + 1 \in Nat
      BY <1>5
    <3> HIDE DEF n, q
    <3> QED BY <2>2, <3>1, <1>2, Sizes, Below
  <2>4. n * LINE <= q * LINE
    <3>1. n <= q
      BY <2>3, <1>2, <1>5
    <3> HIDE DEF n, q
    <3> QED BY <3>1, <1>2, <1>5, Sizes, TimesMonotone
  <2> QED BY <2>4, <1>5
<1>7. (k + 1) * LINE <= n * LINE /\ (k + 1) * LINE = k * LINE + LINE
  <2>1. k + 1 \in Nat
    BY <1>3
  <2> HIDE DEF n
  <2> QED BY <2>1, <1>2, <1>3, Sizes, TimesMonotone, Distributed
<1>8. a = (b + k) * LINE + (a % LINE) /\ a % LINE \in Offsets
  BY <1>4, AddressParts
<1>9. (b + k) * LINE = b * LINE + k * LINE
  <2> HIDE DEF b
  <2> QED BY <1>5, <1>3, Sizes, Distributed
<1> DEFINE x == b * LINE
           y == k * LINE
           z == n * LINE
           o == a % LINE
<1>10. /\ a = (x + y) + o /\ o \in 0..(LINE - 1) /\ start = x /\ y + LINE <= z
       /\ z <= len
  BY <1>5, <1>6, <1>7, <1>8, <1>9 DEF Offsets
<1>11. x \in Nat /\ y \in Nat /\ z \in Nat
  BY <1>2, <1>3, <1>5, Sizes, Times
<1> HIDE DEF x, y, z, o
<1> QED BY <1>10, <1>11, Sizes DEF Region

-----------------------------------------------------------------------------
(* The inductive invariant.                                                *)

Types ==
    /\ memory \in [Addresses -> Values] /\ view \in [Addresses -> Values]
    /\ cache \in [0..(SETS - 1) ->
           [line : LineNumbers \union {None}, data : [Offsets -> Values \union {0}],
            dirty : BOOLEAN]]
    /\ handed \subseteq Addresses

\* A line is only ever in its own set.
InSet == \A s \in 0..(SETS - 1) :
    cache[s].line # None => SetOf(cache[s].line) = s

\* What the cache holds clean is what memory holds.
CleanAt(a) ==
    Hit(LineOf(a)) /\ ~cache[SetOf(LineOf(a))].dirty
    => cache[SetOf(LineOf(a))].data[a % LINE] = memory[a]

\* What an address holds, through the cache.
ValueAt(a) == IF Hit(LineOf(a)) THEN cache[SetOf(LineOf(a))].data[a % LINE]
              ELSE memory[a]

\* An uncached block is made of whole lines.
BlockOK ==
    \/ uncached = NoBlock
    \/ /\ uncached.base \in Nat /\ uncached.size \in Nat /\ uncached.size > 0
       /\ uncached.base % LINE = 0 /\ uncached.size % LINE = 0
       /\ Block \subseteq Addresses

LEMMA BlockFits == ASSUME BlockOK PROVE Block \subseteq Addresses
BY DEF BlockOK, Block, Region, NoBlock

CInv ==
    /\ Types /\ InSet /\ BlockOK
    /\ \A a \in Addresses : CleanAt(a) /\ ValueAt(a) = view[a]
    /\ \A a \in Addresses : a \in Block => ~Hit(LineOf(a))
    /\ FlushCovers

\* Bytes of a line are in the block together.
LEMMA BlockWhole ==
    ASSUME DCacheAssumption, BlockOK, NEW a \in Addresses, NEW b \in Addresses,
           LineOf(a) = LineOf(b), a \in Block
    PROVE  b \in Block
<1>1. uncached # NoBlock
  BY DEF Block, Region, NoBlock
<1>2. LineOf(a) \in Given(uncached.base, uncached.size)
  BY <1>1, GivenCovers DEF BlockOK, Block
<1> QED BY <1>1, <1>2, GivenAligned DEF BlockOK, Block

\* The cache's part of the invariant, for the bytes of other lines, when a
\* line is brought in.
LEMMA TouchOther ==
    ASSUME DCacheAssumption, Types, InSet, NEW a \in Addresses, NEW line,
           Touch(a, line), line.line = LineOf(a), NEW b \in Addresses,
           LineOf(b) # LineOf(a), CleanAt(b)
    PROVE  /\ ValueAt(b)' = ValueAt(b) /\ CleanAt(b)'
           /\ Hit(LineOf(b))' => Hit(LineOf(b))
           /\ ~Hit(LineOf(b)) => memory'[b] = memory[b]
<1> DEFINE s == SetOf(LineOf(a))
           t == SetOf(LineOf(b))
<1>1. /\ LineOf(a) \in LineNumbers /\ LineOf(b) \in LineNumbers
      /\ s \in 0..(SETS - 1) /\ t \in 0..(SETS - 1)
  BY AddressParts, SetExists
<1>2. LineOf(b) # None
  BY <1>1, Sizes DEF LineNumbers, None
<1>3. cache' = [cache EXCEPT ![s] = line] /\ DOMAIN cache = 0..(SETS - 1)
  BY DEF Touch, Types
<1>4. memory'[b] = IF ~Hit(LineOf(a)) /\ cache[s].dirty /\ LineOf(b) = cache[s].line
                   THEN cache[s].data[b % LINE] ELSE memory[b]
  BY DEF Touch, WrittenBack
<1>5. LineOf(b) = cache[s].line => t = s /\ Hit(LineOf(b))
  BY <1>1, <1>2 DEF InSet, Hit
<1>6. CASE t = s
  <2>1. ~Hit(LineOf(b))'
    BY <1>1, <1>3, <1>6 DEF Hit
  <2>2. Hit(LineOf(b)) => ~Hit(LineOf(a))
    BY <1>6 DEF Hit
  <2>3. ValueAt(b)' = memory'[b]
    BY <2>1 DEF ValueAt
  <2>4. CASE Hit(LineOf(b))
    <3>1. LineOf(b) = cache[s].line
      BY <2>4, <1>6 DEF Hit
    <3> QED BY <2>1, <2>2, <2>3, <2>4, <3>1, <1>4, <1>6 DEF ValueAt, CleanAt
  <2>5. CASE ~Hit(LineOf(b))
    BY <2>1, <2>3, <2>5, <1>4, <1>5 DEF ValueAt, CleanAt
  <2> QED BY <2>4, <2>5
<1>7. CASE t # s
  <2>1. cache'[t] = cache[t] /\ memory'[b] = memory[b]
    BY <1>1, <1>3, <1>4, <1>5, <1>7
  <2>2. Hit(LineOf(b))' <=> Hit(LineOf(b))
    BY <2>1 DEF Hit
  <2> QED BY <2>1, <2>2 DEF ValueAt, CleanAt
<1> QED BY <1>6, <1>7

\* And for the bytes of the line itself.
LEMMA TouchSame ==
    ASSUME DCacheAssumption, Types, NEW a \in Addresses, NEW line,
           Touch(a, line), line.line = LineOf(a), NEW b \in Addresses,
           LineOf(b) = LineOf(a)
    PROVE  /\ Hit(LineOf(b))' /\ memory'[b] = memory[b]
           /\ ValueAt(b)' = line.data[b % LINE]
           /\ CleanAt(b)' <=> (~line.dirty => line.data[b % LINE] = memory[b])
<1> DEFINE s == SetOf(LineOf(a))
<1>1. s \in 0..(SETS - 1)
  BY AddressParts, SetExists
<1>2. cache' = [cache EXCEPT ![s] = line] /\ DOMAIN cache = 0..(SETS - 1)
  BY DEF Touch, Types
<1>3. cache'[SetOf(LineOf(b))] = line
  BY <1>1, <1>2
<1>4. Hit(LineOf(b))'
  BY <1>3 DEF Hit
<1>5. memory'[b] = memory[b]
  BY DEF Touch, WrittenBack, Hit
<1> QED BY <1>3, <1>4, <1>5 DEF ValueAt, CleanAt

\* Bringing a line in leaves types and sets in order.
LEMMA TouchTypes ==
    ASSUME DCacheAssumption, Types, InSet, NEW a \in Addresses, NEW line,
           Touch(a, line), line.line = LineOf(a),
           line \in [line : LineNumbers \union {None},
                     data : [Offsets -> Values \union {0}], dirty : BOOLEAN],
           \A b \in Addresses : memory'[b] \in Values
    PROVE  /\ memory' \in [Addresses -> Values]
           /\ cache' \in [0..(SETS - 1) ->
                 [line : LineNumbers \union {None},
                  data : [Offsets -> Values \union {0}], dirty : BOOLEAN]]
           /\ handed' \subseteq Addresses /\ InSet'
<1> DEFINE s == SetOf(LineOf(a))
<1>1. s \in 0..(SETS - 1)
  BY AddressParts, SetExists
<1>2. cache' = [cache EXCEPT ![s] = line] /\ handed' \subseteq handed
  BY DEF Touch
<1>3. memory' \in [Addresses -> Values]
  <2>1. memory' = [b \in Addresses |-> memory'[b]]
    BY DEF Touch, WrittenBack, Types
  <2> QED BY <2>1
<1> QED BY <1>1, <1>2, <1>3 DEF Types, InSet

\* A line that is brought in holds what its addresses hold.
LEMMA FilledRight ==
    ASSUME DCacheAssumption, CInv, NEW a \in Addresses
    PROVE  /\ Filled(LineOf(a)) \in
                  [line : LineNumbers \union {None},
                   data : [Offsets -> Values \union {0}], dirty : BOOLEAN]
           /\ Filled(LineOf(a)).line = LineOf(a)
           /\ \A b \in Addresses : LineOf(b) = LineOf(a) =>
                 /\ Filled(LineOf(a)).data[b % LINE] = ValueAt(b)
                 /\ ~Filled(LineOf(a)).dirty => ValueAt(b) = memory[b]
<1> DEFINE l == LineOf(a)
<1>1. l \in LineNumbers /\ SetOf(l) \in 0..(SETS - 1)
  BY AddressParts, SetExists
<1>2. CASE Hit(l)
  <2>1. Filled(l) = cache[SetOf(l)] /\ cache[SetOf(l)].line = l
    BY <1>2 DEF Filled, Hit
  <2>2. ASSUME NEW b \in Addresses, LineOf(b) = l
        PROVE  /\ Filled(l).data[b % LINE] = ValueAt(b)
               /\ ~Filled(l).dirty => ValueAt(b) = memory[b]
    BY <1>2, <2>1, <2>2 DEF ValueAt, CInv, CleanAt
  <2> QED BY <1>1, <2>1, <2>2 DEF CInv, Types
<1>3. CASE ~Hit(l)
  <2>1. Filled(l) = [line |-> l, dirty |-> FALSE,
                     data |-> [o \in Offsets |-> memory[l * LINE + o]]]
    BY <1>3 DEF Filled, Offsets
  <2>2. \A o \in Offsets : l * LINE + o \in Addresses
    BY <1>1, PartsAddress
  <2>3. \A o \in Offsets : memory[l * LINE + o] \in Values
    BY <2>2 DEF CInv, Types
  <2>4. ASSUME NEW b \in Addresses, LineOf(b) = l
        PROVE  Filled(l).data[b % LINE] = ValueAt(b) /\ ValueAt(b) = memory[b]
    <3>1. l * LINE + (b % LINE) = b /\ b % LINE \in Offsets
      BY <2>4, AddressParts
    <3>2. ValueAt(b) = memory[b]
      BY <1>3, <2>4 DEF ValueAt
    <3> QED BY <2>1, <3>1, <3>2
  <2>5. [o \in Offsets |-> memory[l * LINE + o]] \in [Offsets -> Values \union {0}]
    BY <2>3
  <2>6. /\ Filled(l).line = l /\ Filled(l).dirty = FALSE
        /\ Filled(l) \in [line : LineNumbers \union {None},
                          data : [Offsets -> Values \union {0}], dirty : BOOLEAN]
    <3> HIDE DEF l
    <3> QED BY <1>1, <2>1, <2>5
  <2> QED BY <2>4, <2>6
<1> QED BY <1>2, <1>3

\* A value read is a value.
LEMMA WrittenTypes ==
    ASSUME DCacheAssumption, CInv, NEW a \in Addresses, NEW s \in 0..(SETS - 1)
    PROVE  memory[a] \in Values /\ WrittenBack(memory, s)[a] \in Values
<1>1. memory[a] \in Values /\ view[a] \in Values
  BY DEF CInv, Types
<1>2. WrittenBack(memory, s)[a] \in {memory[a], ValueAt(a)}
  <2>1. LineOf(a) \in LineNumbers /\ LineOf(a) # None
    BY AddressParts, Sizes DEF LineNumbers, None
  <2>2. LineOf(a) = cache[s].line => Hit(LineOf(a)) /\ SetOf(LineOf(a)) = s
    BY <2>1 DEF CInv, InSet, Hit
  <2> QED BY <2>2 DEF WrittenBack, ValueAt
<1>3. ValueAt(a) = view[a]
  BY DEF CInv
<1> QED BY <1>1, <1>2, <1>3

\* A cached access that leaves the line's addresses the values the program
\* last stored preserves the invariant.
LEMMA TouchNext ==
    ASSUME DCacheAssumption, CInv, NEW a \in Cached, NEW line, Touch(a, line),
           line \in [line : LineNumbers \union {None},
                     data : [Offsets -> Values \union {0}], dirty : BOOLEAN],
           line.line = LineOf(a),
           view' \in [Addresses -> Values],
           \A b \in Addresses : LineOf(b) = LineOf(a) =>
               /\ line.data[b % LINE] = view'[b]
               /\ ~line.dirty => line.data[b % LINE] = memory[b],
           \A b \in Addresses : LineOf(b) # LineOf(a) => view'[b] = view[b]
    PROVE  CInv'
<1>1. a \in Addresses /\ Block' = Block /\ BlockOK'
  BY DEF Cached, Touch, Block, CInv, BlockOK
<1>2. Types /\ InSet /\ BlockOK /\ FlushCovers
  BY DEF CInv
<1>3. ASSUME NEW b \in Addresses PROVE memory'[b] \in Values
  <2>1. SetOf(LineOf(a)) \in 0..(SETS - 1)
    BY <1>1, AddressParts, SetExists
  <2>2. memory' = memory \/ memory' = WrittenBack(memory, SetOf(LineOf(a)))
    BY DEF Touch
  <2> QED BY <2>1, <2>2, WrittenTypes
<1>4. Types' /\ InSet'
  BY <1>1, <1>2, <1>3, TouchTypes DEF Types
<1>5. ASSUME NEW b \in Addresses
      PROVE  /\ CleanAt(b)' /\ ValueAt(b)' = view'[b]
             /\ b \in Block => ~Hit(LineOf(b))'
             /\ b \in handed' => memory'[b] = view'[b] /\ ~Hit(LineOf(b))'
  <2>1. CASE LineOf(b) = LineOf(a)
    <3>1. CleanAt(b)' /\ ValueAt(b)' = view'[b]
      BY <1>1, <1>2, <2>1, TouchSame
    <3>2. b \notin Block
      BY <1>1, <1>2, <2>1, BlockWhole DEF Cached
    <3>3. b \notin handed'
      BY <2>1 DEF Touch, BytesOf
    <3> QED BY <3>1, <3>2, <3>3
  <2>2. CASE LineOf(b) # LineOf(a)
    <3>1. CleanAt(b) /\ ValueAt(b) = view[b] /\ (b \in Block => ~Hit(LineOf(b)))
      BY DEF CInv
    <3>2. /\ ValueAt(b)' = ValueAt(b) /\ CleanAt(b)'
          /\ Hit(LineOf(b))' => Hit(LineOf(b))
          /\ ~Hit(LineOf(b)) => memory'[b] = memory[b]
      BY <1>1, <1>2, <2>2, <3>1, TouchOther
    <3>3. b \in handed' => memory[b] = view[b] /\ ~Hit(LineOf(b))
      BY <1>2 DEF Touch, FlushCovers
    <3> QED BY <2>2, <3>1, <3>2, <3>3
  <2> QED BY <2>1, <2>2
<1>6. FlushCovers'
  <2>1. handed' \subseteq Addresses
    BY <1>4 DEF Types
  <2> QED BY <1>5, <2>1 DEF FlushCovers
<1> QED BY <1>1, <1>4, <1>5, <1>6 DEF CInv

\* Lines leave the cache and, dirty ones, reach memory.
LEMMA Evicted ==
    ASSUME DCacheAssumption, CInv, NEW L, NEW b \in Addresses,
           cache' = Without(L)
    PROVE  /\ Hit(LineOf(b))' <=> Hit(LineOf(b)) /\ LineOf(b) \notin L
           /\ Hit(LineOf(b))' =>
                  cache'[SetOf(LineOf(b))] = cache[SetOf(LineOf(b))]
<1> DEFINE t == SetOf(LineOf(b))
<1>1. LineOf(b) \in LineNumbers /\ t \in 0..(SETS - 1)
  BY AddressParts, SetExists
<1>2. LineOf(b) # None
  BY <1>1, Sizes DEF LineNumbers, None
<1>3. cache'[t] = IF cache[t].line \in L THEN Empty ELSE cache[t]
  BY <1>1 DEF Without, CInv, Types
<1>4. Empty.line = None
  BY DEF Empty
<1> QED BY <1>2, <1>3, <1>4 DEF Hit

LEMMA WithoutTypes ==
    ASSUME DCacheAssumption, Types, InSet, NEW L, cache' = Without(L)
    PROVE  /\ cache' \in [0..(SETS - 1) ->
                 [line : LineNumbers \union {None},
                  data : [Offsets -> Values \union {0}], dirty : BOOLEAN]]
           /\ InSet'
<1>1. /\ Empty \in [line : LineNumbers \union {None},
                    data : [Offsets -> Values \union {0}], dirty : BOOLEAN]
      /\ Empty.line = None
  BY DEF Empty, Offsets
<1> QED BY <1>1 DEF Types, InSet, Without

\* Writing back and dropping lines changes no value.
LEMMA WriteBackNext ==
    ASSUME DCacheAssumption, CInv, NEW L, WriteBack(L), view' = view, BlockOK',
           \A b \in Addresses : b \in Block' =>
               b \in Block \/ LineOf(b) \in L,
           handed' \subseteq Addresses,
           \A b \in handed' : b \in handed \/ LineOf(b) \in L
    PROVE  CInv'
<1>1. /\ cache' = Without(L) /\ memory' = AllWrittenBack(L)
      /\ Types /\ InSet /\ FlushCovers
  BY DEF WriteBack, CInv
<1>2. ASSUME NEW b \in Addresses
      PROVE  /\ memory'[b] \in Values
             /\ CleanAt(b)' /\ ValueAt(b)' = view'[b]
             /\ b \in Block' => ~Hit(LineOf(b))'
             /\ b \in handed' => memory'[b] = view'[b] /\ ~Hit(LineOf(b))'
  <2>1. /\ CleanAt(b) /\ ValueAt(b) = view[b] /\ (b \in Block => ~Hit(LineOf(b)))
        /\ memory[b] \in Values /\ view[b] \in Values
    BY DEF CInv, Types
  <2>2. /\ Hit(LineOf(b))' <=> Hit(LineOf(b)) /\ LineOf(b) \notin L
        /\ Hit(LineOf(b))' =>
               cache'[SetOf(LineOf(b))] = cache[SetOf(LineOf(b))]
    BY <1>1, Evicted
  <2>3. memory'[b] = IF LineOf(b) \in L /\ Hit(LineOf(b))
                     THEN cache[SetOf(LineOf(b))].data[b % LINE] ELSE memory[b]
    BY <1>1 DEF AllWrittenBack
  <2>4. memory'[b] \in {memory[b], ValueAt(b)}
    BY <2>3 DEF ValueAt
  <2>5. ValueAt(b)' = ValueAt(b)
    BY <2>2, <2>3 DEF ValueAt
  <2>6. CleanAt(b)'
    BY <2>1, <2>2, <2>3 DEF CleanAt
  <2>7. b \in Block' => ~Hit(LineOf(b))'
    BY <2>1, <2>2
  <2>8. b \in handed' => memory'[b] = view'[b] /\ ~Hit(LineOf(b))'
    <3>1. b \in handed' => ~Hit(LineOf(b))'
      BY <1>1, <2>2 DEF FlushCovers
    <3> QED BY <2>1, <2>5, <3>1 DEF ValueAt
  <2> QED BY <2>1, <2>4, <2>5, <2>6, <2>7, <2>8
<1>3. memory' \in [Addresses -> Values]
  <2>1. memory' = [b \in Addresses |-> memory'[b]]
    BY <1>1 DEF AllWrittenBack
  <2> QED BY <1>2, <2>1
<1>4. Types' /\ InSet'
  BY <1>1, <1>3, WithoutTypes DEF Types
<1>5. FlushCovers'
  BY <1>2 DEF FlushCovers
<1> QED BY <1>2, <1>4, <1>5 DEF CInv

\* A write past the cache, of an address that is not in it.
LEMMA WriteNext ==
    ASSUME DCacheAssumption, CInv, NEW a \in Addresses, NEW v \in Values,
           ~Hit(LineOf(a)), Write(a, v)
    PROVE  CInv'
<1>1. /\ memory' = [memory EXCEPT ![a] = v] /\ view' = [view EXCEPT ![a] = v]
      /\ UNCHANGED <<cache, uncached, handed>>
      /\ Types /\ InSet /\ BlockOK /\ FlushCovers
  BY DEF Write, CInv
<1>2. Types' /\ InSet' /\ BlockOK' /\ Block' = Block
  BY <1>1 DEF Types, InSet, BlockOK, Block
<1>3. ASSUME NEW b \in Addresses
      PROVE  /\ CleanAt(b)' /\ ValueAt(b)' = view'[b]
             /\ Hit(LineOf(b))' <=> Hit(LineOf(b))
             /\ memory[b] = view[b] => memory'[b] = view'[b]
  <2>1. CleanAt(b) /\ ValueAt(b) = view[b]
    BY DEF CInv
  <2>2. Hit(LineOf(b))' <=> Hit(LineOf(b))
    BY <1>1 DEF Hit
  <2>3. CASE b = a
    BY <1>1, <2>2, <2>3 DEF Types, CleanAt, ValueAt
  <2>4. CASE b # a
    <3>1. memory'[b] = memory[b] /\ view'[b] = view[b]
      BY <1>1, <2>4 DEF Types
    <3> QED BY <1>1, <2>1, <2>2, <3>1 DEF CleanAt, ValueAt
  <2> QED BY <2>3, <2>4
<1>4. FlushCovers'
  <2>1. ASSUME NEW b \in handed' PROVE memory'[b] = view'[b] /\ ~Hit(LineOf(b))'
    <3>1. b \in Addresses /\ memory[b] = view[b] /\ ~Hit(LineOf(b))
      BY <1>1 DEF FlushCovers, Types
    <3> QED BY <1>3, <3>1
  <2> QED BY <2>1 DEF FlushCovers
<1>5. \A b \in Addresses : b \in Block' => ~Hit(LineOf(b))'
  BY <1>2, <1>3 DEF CInv
<1> QED BY <1>2, <1>3, <1>4, <1>5 DEF CInv

\* A region of the program's is one a flush can be given.
LEMMA RegionsFit ==
    ASSUME DCacheAssumption, NEW r \in Regions
    PROVE  /\ r[1] \in Nat /\ r[2] \in Nat /\ r[2] > 0
           /\ Region(r[1], r[2]) \subseteq Addresses
<1>1. r[1] \in Addresses /\ r[2] \in 1..(2 * LINE)
  BY DEF Regions
<1>2. r[1] \in Nat
  BY <1>1, AddressesNat
<1>3. r[2] \in Nat /\ r[2] > 0
  BY <1>1, Sizes
<1> QED BY <1>2, <1>3 DEF Regions

LEMMA LoadNext == ASSUME DCacheAssumption, CInv, Load PROVE CInv'
<1>1. PICK a \in Cached : Touch(a, Filled(LineOf(a))) /\ UNCHANGED view
  BY DEF Load
<1>2. a \in Addresses
  BY DEF Cached
<1>3. view' \in [Addresses -> Values] /\ \A b \in Addresses : ValueAt(b) = view[b]
  BY <1>1 DEF CInv, Types
<1> QED BY <1>1, <1>2, <1>3, FilledRight, TouchNext

LEMMA StoreNext == ASSUME DCacheAssumption, CInv, Store PROVE CInv'
<1>1. PICK a \in Cached, v \in Values :
          /\ Touch(a, [Filled(LineOf(a)) EXCEPT !.data[a % LINE] = v, !.dirty = TRUE])
          /\ view' = [view EXCEPT ![a] = v]
  BY DEF Store
<1> DEFINE old == Filled(LineOf(a))
           line == [old EXCEPT !.data[a % LINE] = v, !.dirty = TRUE]
<1>2. a \in Addresses /\ a % LINE \in Offsets
  BY AddressParts DEF Cached
<1>3. /\ old \in [line : LineNumbers \union {None},
                   data : [Offsets -> Values \union {0}], dirty : BOOLEAN]
      /\ old.line = LineOf(a)
      /\ \A b \in Addresses : LineOf(b) = LineOf(a) => old.data[b % LINE] = ValueAt(b)
  BY <1>2, FilledRight
<1>4. /\ line \in [line : LineNumbers \union {None},
                    data : [Offsets -> Values \union {0}], dirty : BOOLEAN]
      /\ line.line = LineOf(a) /\ line.dirty
      /\ line.data = [old.data EXCEPT ![a % LINE] = v]
  <2> HIDE DEF old
  <2> QED BY <1>2, <1>3
<1>5. view \in [Addresses -> Values] /\ \A b \in Addresses : ValueAt(b) = view[b]
  BY DEF CInv, Types
<1>6. view' \in [Addresses -> Values]
  BY <1>1, <1>2, <1>5
<1>7. ASSUME NEW b \in Addresses, LineOf(b) = LineOf(a)
      PROVE  line.data[b % LINE] = view'[b]
  <2>1. b % LINE \in Offsets
    BY AddressParts
  <2>2. CASE b = a
    BY <1>1, <1>2, <1>3, <1>4, <1>5, <2>2
  <2>3. CASE b # a
    <3>1. b % LINE # a % LINE
      <4>1. /\ LineOf(a) * LINE + (a % LINE) = a
            /\ LineOf(b) * LINE + (b % LINE) = b
        BY <1>2, AddressParts
      <4> QED BY <4>1, <1>7, <2>3
    <3>2. line.data[b % LINE] = old.data[b % LINE]
      <4> HIDE DEF old, line
      <4> QED BY <1>3, <1>4, <2>1, <3>1
    <3>3. view'[b] = view[b]
      BY <1>1, <1>5, <2>3
    <3> QED BY <1>3, <1>5, <1>7, <3>2, <3>3
  <2> QED BY <2>2, <2>3
<1>8. \A b \in Addresses : LineOf(b) # LineOf(a) => view'[b] = view[b]
  BY <1>1, <1>5
<1>9. Touch(a, line)
  BY <1>1
<1> HIDE DEF line
<1> QED BY <1>4, <1>6, <1>7, <1>8, <1>9, TouchNext

LEMMA FlushNext == ASSUME DCacheAssumption, CInv, Flush PROVE CInv'
<1>1. PICK r \in Regions :
          /\ Region(r[1], r[2]) \subseteq Cached
          /\ WriteBack(Given(r[1], r[2]))
          /\ handed' = handed \union Region(r[1], r[2])
          /\ UNCHANGED <<uncached, view>>
  BY DEF Flush
<1>2. /\ r[1] \in Nat /\ r[2] \in Nat /\ r[2] > 0
      /\ Region(r[1], r[2]) \subseteq Addresses
  BY RegionsFit
<1>3. \A b \in Region(r[1], r[2]) : LineOf(b) \in Given(r[1], r[2])
  BY <1>2, GivenCovers
<1>4. BlockOK' /\ Block' = Block
  BY <1>1 DEF CInv, BlockOK, Block
<1>5. handed' \subseteq Addresses
  BY <1>1, <1>2 DEF CInv, Types
<1>6. \A b \in handed' : b \in handed \/ LineOf(b) \in Given(r[1], r[2])
  BY <1>1, <1>3
<1> QED BY <1>1, <1>4, <1>5, <1>6, WriteBackNext

LEMMA FlushAllNext == ASSUME DCacheAssumption, CInv, FlushAll PROVE CInv'
<1>1. /\ WriteBack(LineNumbers) /\ handed' = Cached
      /\ UNCHANGED <<uncached, view>>
  BY DEF FlushAll, LineNumbers
<1>2. BlockOK' /\ Block' = Block
  BY <1>1 DEF CInv, BlockOK, Block
<1>3. handed' \subseteq Addresses /\ \A b \in handed' : LineOf(b) \in LineNumbers
  BY <1>1, AddressParts DEF Cached
<1> QED BY <1>1, <1>2, <1>3, WriteBackNext

\* memalign gives whole lines, and as many as the size calls for.
LEMMA RoundedWhole ==
    ASSUME DCacheAssumption, NEW size \in 1..(2 * LINE), NEW l \in LineNumbers
    PROVE  /\ Rounded(size) \in Nat /\ Rounded(size) > 0 /\ Rounded(size) % LINE = 0
           /\ l * LINE \in Nat /\ (l * LINE) % LINE = 0
<1>1. size \in Nat /\ size > 0 /\ l \in Nat
  BY Sizes DEF LineNumbers
<1>2. Steps(size) \in Nat /\ size <= Steps(size) * LINE
  BY <1>1, StepsCover
<1> DEFINE n == Steps(size)
<1>3. n * LINE \in Nat /\ l * LINE \in Nat
  BY <1>1, <1>2, Sizes, Times
<1>4. (n * LINE) % LINE = 0 /\ (l * LINE) % LINE = 0
  <2>1. LINE \in Nat /\ LINE > 0
    BY Sizes
  <2> HIDE DEF n
  <2>2. n \in Nat
    BY <1>2 DEF n
  <2> QED BY <2>1, <2>2, <1>1, Multiple
<1>5. Rounded(size) = n * LINE
  BY DEF Rounded, Steps
<1>6. n * LINE > 0
  <2> DEFINE x == n * LINE
  <2>1. x \in Nat /\ size <= x
    BY <1>2, <1>3
  <2> HIDE DEF x
  <2>2. x > 0
    BY <1>1, <2>1
  <2> QED BY <2>2 DEF x
<1> QED BY <1>3, <1>4, <1>5, <1>6

LEMMA MallocNext == ASSUME DCacheAssumption, CInv, UncachedMalloc PROVE CInv'
<1>1. PICK l \in 0..(LINES - 1), size \in 1..(2 * LINE) :
          /\ uncached' = [base |-> l * LINE, size |-> Rounded(size)]
          /\ WriteBack(Given(l * LINE, Rounded(size)))
          /\ handed' = handed \ Region(l * LINE, Rounded(size))
          /\ Region(l * LINE, Rounded(size)) \subseteq Addresses
          /\ UNCHANGED view
  BY DEF UncachedMalloc
<1>2. /\ Rounded(size) \in Nat /\ Rounded(size) > 0 /\ Rounded(size) % LINE = 0
      /\ l * LINE \in Nat /\ (l * LINE) % LINE = 0
  BY RoundedWhole DEF LineNumbers
<1>3. BlockOK' /\ Block' = Region(l * LINE, Rounded(size))
  BY <1>1, <1>2 DEF BlockOK, Block
<1>4. \A b \in Block' : LineOf(b) \in Given(l * LINE, Rounded(size))
  BY <1>2, <1>3, GivenCovers
<1>5. handed' \subseteq handed /\ handed \subseteq Addresses
  BY <1>1 DEF CInv, Types
<1> QED BY <1>1, <1>3, <1>4, <1>5, WriteBackNext

LEMMA FreeNext == ASSUME DCacheAssumption, CInv, UncachedFree PROVE CInv'
<1>1. uncached' = NoBlock /\ UNCHANGED <<memory, cache, view, handed>>
  BY DEF UncachedFree
<1>2. BlockOK' /\ Block' = {}
  BY <1>1 DEF BlockOK, Block, Region, NoBlock
<1>3. ASSUME NEW b \in Addresses PROVE CleanAt(b)' /\ ValueAt(b)' = view'[b]
  <2>1. CleanAt(b) /\ ValueAt(b) = view[b]
    BY DEF CInv
  <2> QED BY <1>1, <2>1 DEF CleanAt, ValueAt, Hit
<1> QED BY <1>1, <1>2, <1>3 DEF CInv, Types, InSet, FlushCovers, Hit

\* Of whole lines, what the cache held is gone and memory is what is left.
LEMMA NoWritebackNext == ASSUME DCacheAssumption, CInv, FlushNoWriteback PROVE CInv'
<1>1. PICK r \in Regions :
          /\ r[1] % LINE = 0 /\ r[2] % LINE = 0
          /\ cache' = Without(Given(r[1], r[2]))
          /\ view' = [a \in Addresses |->
                         IF a \in Region(r[1], r[2]) THEN memory[a] ELSE view[a]]
          /\ handed' = handed \union Region(r[1], r[2])
          /\ UNCHANGED <<memory, uncached>>
  BY DEF FlushNoWriteback
<1>2. /\ r[1] \in Nat /\ r[2] \in Nat /\ r[2] > 0
      /\ Region(r[1], r[2]) \subseteq Addresses
  BY RegionsFit
<1>3. Types /\ InSet /\ BlockOK /\ FlushCovers
  BY DEF CInv
<1>4. BlockOK' /\ Block' = Block
  BY <1>1, <1>3 DEF BlockOK, Block
<1>5. ASSUME NEW b \in Addresses
      PROVE  /\ CleanAt(b)' /\ ValueAt(b)' = view'[b]
             /\ b \in Block' => ~Hit(LineOf(b))'
             /\ b \in handed' => memory'[b] = view'[b] /\ ~Hit(LineOf(b))'
  <2>1. /\ CleanAt(b) /\ ValueAt(b) = view[b] /\ (b \in Block => ~Hit(LineOf(b)))
    BY DEF CInv
  <2>2. /\ Hit(LineOf(b))' <=> Hit(LineOf(b)) /\ LineOf(b) \notin Given(r[1], r[2])
        /\ Hit(LineOf(b))' =>
               cache'[SetOf(LineOf(b))] = cache[SetOf(LineOf(b))]
    BY <1>1, Evicted
  <2>3. b \in Region(r[1], r[2]) <=> LineOf(b) \in Given(r[1], r[2])
    BY <1>1, <1>2, GivenCovers, GivenAligned
  <2>4. memory'[b] = memory[b]
    BY <1>1
  <2>5. CleanAt(b)'
    BY <2>1, <2>2, <2>4 DEF CleanAt
  <2>6. CASE b \in Region(r[1], r[2])
    <3>1. view'[b] = memory[b] /\ ~Hit(LineOf(b))'
      BY <1>1, <2>2, <2>3, <2>6
    <3> QED BY <2>1, <2>2, <2>4, <2>5, <3>1, <1>4 DEF ValueAt
  <2>7. CASE b \notin Region(r[1], r[2])
    <3>1. view'[b] = view[b] /\ (Hit(LineOf(b))' <=> Hit(LineOf(b)))
      BY <1>1, <2>2, <2>3, <2>7
    <3>2. ValueAt(b)' = ValueAt(b)
      BY <2>2, <2>4, <3>1 DEF ValueAt
    <3>3. b \in handed' => memory[b] = view[b] /\ ~Hit(LineOf(b))
      BY <1>1, <1>3, <2>7 DEF FlushCovers
    <3> QED BY <2>1, <2>4, <2>5, <3>1, <3>2, <3>3, <1>4
  <2> QED BY <2>6, <2>7
<1>6. view' \in [Addresses -> Values]
  BY <1>1, <1>3 DEF Types
<1>7. Types' /\ InSet'
  BY <1>1, <1>2, <1>3, <1>6, WithoutTypes DEF Types
<1>8. FlushCovers'
  BY <1>5, <1>7 DEF FlushCovers, Types
<1> QED BY <1>4, <1>5, <1>7, <1>8 DEF CInv

LEMMA CInit == ASSUME DCacheAssumption, Init PROVE CInv
<1>1. /\ memory \in [Addresses -> Values] /\ view = memory /\ handed = {}
      /\ uncached = NoBlock /\ cache = [s \in 0..(SETS - 1) |-> Empty]
  BY DEF Init, DCacheAssumption
<1>2. /\ Empty \in [line : LineNumbers \union {None},
                    data : [Offsets -> Values \union {0}], dirty : BOOLEAN]
      /\ Empty.line = None
  BY DEF Empty, Offsets
<1>3. ASSUME NEW b \in Addresses PROVE ~Hit(LineOf(b))
  <2>1. LineOf(b) \in LineNumbers /\ SetOf(LineOf(b)) \in 0..(SETS - 1)
    BY AddressParts, SetExists
  <2>2. LineOf(b) # None
    BY <2>1, Sizes DEF LineNumbers, None
  <2> QED BY <1>1, <1>2, <2>1, <2>2 DEF Hit
<1>4. Types /\ InSet /\ BlockOK /\ FlushCovers
  BY <1>1, <1>2 DEF Types, InSet, BlockOK, FlushCovers
<1> QED BY <1>1, <1>3, <1>4 DEF CInv, CleanAt, ValueAt

LEMMA CNext == ASSUME DCacheAssumption, CInv, [Next]_vars PROVE CInv'
<1>1. CASE Load
  BY <1>1, LoadNext
<1>2. CASE Store
  BY <1>2, StoreNext
<1>3. CASE UncachedStore
  <2>1. PICK a \in Block, v \in Values : Write(a, v)
    BY <1>3 DEF UncachedStore
  <2>2. a \in Addresses
    BY BlockFits DEF CInv
  <2> QED BY <2>1, <2>2, WriteNext DEF CInv
<1>4. CASE DeviceWrite
  <2>1. PICK a \in handed, v \in Values : Write(a, v)
    BY <1>4 DEF DeviceWrite
  <2> QED BY <2>1, WriteNext DEF CInv, Types, FlushCovers
<1>5. CASE Flush
  BY <1>5, FlushNext
<1>6. CASE FlushNoWriteback
  BY <1>6, NoWritebackNext
<1>7. CASE FlushAll
  BY <1>7, FlushAllNext
<1>8. CASE UncachedMalloc
  BY <1>8, MallocNext
<1>9. CASE UncachedFree
  BY <1>9, FreeNext
<1>10. CASE UNCHANGED vars
  <2>1. UNCHANGED <<memory, cache, uncached, view, handed>>
    BY <1>10 DEF vars
  <2>2. ASSUME NEW b \in Addresses PROVE CleanAt(b)' /\ ValueAt(b)' = view'[b]
    <3>1. CleanAt(b) /\ ValueAt(b) = view[b]
      BY DEF CInv
    <3> QED BY <2>1, <3>1 DEF CleanAt, ValueAt, Hit
  <2> QED BY <2>1, <2>2 DEF CInv, Types, InSet, BlockOK, Block, FlushCovers, Hit
<1> QED BY <1>1, <1>2, <1>3, <1>4, <1>5, <1>6, <1>7, <1>8, <1>9, <1>10
        DEF Next, Processor, Hal

LEMMA SeenIsValue == ASSUME CInv PROVE Coherent
<1> SUFFICES ASSUME NEW a \in Addresses PROVE Seen(a) = view[a]
  BY DEF Coherent
<1> QED BY DEF CInv, Seen, ValueAt, Cached

\* The program reads what was written last, through the cache or past it,
\* for every size of line, cache and memory (alt_uncached_malloc.c:47-63).
THEOREM CacheCoherent == DCacheAssumption => (Spec => []Coherent)
<1> SUFFICES ASSUME DCacheAssumption PROVE Spec => []Coherent
  OBVIOUS
<1>1. Init => CInv
  BY CInit
<1>2. CInv /\ [Next]_vars => CInv'
  BY CNext
<1>3. CInv => Coherent
  BY SeenIsValue
<1> QED BY <1>1, <1>2, <1>3, PTL DEF Spec

\* A flushed region is in memory and not in the cache, wherever in its lines
\* it begins and ends (alt_dcache_flush.c:52-66).
THEOREM FlushesCover == DCacheAssumption => (Spec => []FlushCovers)
<1> SUFFICES ASSUME DCacheAssumption PROVE Spec => []FlushCovers
  OBVIOUS
<1>1. Init => CInv
  BY CInit
<1>2. CInv /\ [Next]_vars => CInv'
  BY CNext
<1>3. CInv => FlushCovers
  BY DEF CInv
<1> QED BY <1>1, <1>2, <1>3, PTL DEF Spec
=============================================================================
