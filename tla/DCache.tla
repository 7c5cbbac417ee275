------------------------------- MODULE DCache -------------------------------
(***************************************************************************)
(* The data cache of the processor and the HAL's functions that keep it    *)
(* and the memory behind it in step: alt_dcache_flush,                     *)
(* alt_dcache_flush_no_writeback, alt_dcache_flush_all,                    *)
(* alt_uncached_malloc and alt_uncached_free.                              *)
(*                                                                         *)
(* The cache is direct mapped and writes back.  The program loads and      *)
(* stores cached data anywhere but in the uncached block, which it reaches *)
(* past the cache; a device reads and writes what the program has handed   *)
(* over by flushing it.                                                    *)
(***************************************************************************)
EXTENDS Integers

CONSTANTS
    LINE,      \* NIOS2_DCACHE_LINE_SIZE
    LINES,     \* lines of memory
    SETS,      \* NIOS2_DCACHE_SIZE in lines
    Values     \* of a byte

DCacheAssumption ==
    /\ LINE \in Nat \ {0} /\ SETS \in Nat \ {0}
    /\ LINES \in Nat \ {0}
    /\ Values # {}

VARIABLES
    memory,
    cache,       \* per set: the line of memory it holds, its bytes, dirty
    uncached,    \* the uncached block, base and size as malloc knows them
    view,        \* history: what was last written to an address
    handed       \* history: addresses flushed and not touched since

vars == <<memory, cache, uncached, view, handed>>

Addresses == 0..(LINES * LINE - 1)
LineOf(a) == a \div LINE
SetOf(l) == l % SETS
BytesOf(l) == {a \in Addresses : LineOf(a) = l}
Region(start, len) == start..(start + len - 1)

None == -1
Empty == [line |-> None, data |-> [o \in 0..(LINE - 1) |-> 0], dirty |-> FALSE]
NoBlock == [base |-> 0, size |-> 0]

Init ==
    /\ memory = [a \in Addresses |-> CHOOSE v \in Values : TRUE]
    /\ cache = [s \in 0..(SETS - 1) |-> Empty]
    /\ uncached = NoBlock
    /\ view = memory /\ handed = {}

-----------------------------------------------------------------------------
(* What the processor does.                                                *)

Hit(l) == cache[SetOf(l)].line = l

\* Memory once the set's line has been written back.
WrittenBack(m, s) ==
    IF cache[s].dirty
    THEN [a \in Addresses |->
            IF LineOf(a) = cache[s].line THEN cache[s].data[a % LINE] ELSE m[a]]
    ELSE m

\* Memory once every dirty line among these has been written back.
AllWrittenBack(lines) ==
    [a \in Addresses |-> IF LineOf(a) \in lines /\ Hit(LineOf(a))
                         THEN cache[SetOf(LineOf(a))].data[a % LINE]
                         ELSE memory[a]]

\* The cache without these lines.
Without(lines) ==
    [s \in DOMAIN cache |-> IF cache[s].line \in lines THEN Empty ELSE cache[s]]

Block == Region(uncached.base, uncached.size)
Cached == Addresses \ Block

\* A cached access brings the line in, in place of another.
Filled(l) ==
    IF Hit(l) THEN cache[SetOf(l)]
    ELSE [line |-> l, dirty |-> FALSE,
          data |-> [o \in 0..(LINE - 1) |-> memory[l * LINE + o]]]

Touch(a, line) ==
    LET s == SetOf(LineOf(a)) IN
    /\ memory' = IF Hit(LineOf(a)) THEN memory ELSE WrittenBack(memory, s)
    /\ cache' = [cache EXCEPT ![s] = line]
    /\ handed' = handed \ BytesOf(LineOf(a))
    /\ UNCHANGED uncached

Load == \E a \in Cached : Touch(a, Filled(LineOf(a))) /\ UNCHANGED view

Store == \E a \in Cached, v \in Values :
    /\ Touch(a, [Filled(LineOf(a)) EXCEPT !.data[a % LINE] = v, !.dirty = TRUE])
    /\ view' = [view EXCEPT ![a] = v]

\* A store past the cache, and a device's.
Write(a, v) ==
    /\ memory' = [memory EXCEPT ![a] = v] /\ view' = [view EXCEPT ![a] = v]
    /\ UNCHANGED <<cache, uncached, handed>>

UncachedStore == \E a \in Block, v \in Values : Write(a, v)
DeviceWrite == \E a \in handed, v \in Values : Write(a, v)

-----------------------------------------------------------------------------
(* The HAL.                                                                *)

\* The lines the loop of a flush names: from start in steps of a line, and
\* one step more unless start is the beginning of a line.
LastOfLoop(start, steps) == steps - 1
LastStep(start, steps) == IF start % LINE # 0 THEN steps ELSE steps - 1

Given(start, len) ==
    {LineOf(start + k * LINE) :
        k \in 0..LastStep(start, (len + LINE - 1) \div LINE)}

WriteBack(lines) == memory' = AllWrittenBack(lines) /\ cache' = Without(lines)

Regions == {r \in Addresses \X (1..(2 * LINE)) :
                Region(r[1], r[2]) \subseteq Addresses}

\* alt_dcache_flush, after which the program hands the region over.
Flush == \E r \in Regions :
    /\ Region(r[1], r[2]) \subseteq Cached
    /\ WriteBack(Given(r[1], r[2]))
    /\ handed' = handed \union Region(r[1], r[2])
    /\ UNCHANGED <<uncached, view>>

\* alt_dcache_flush_no_writeback, of whole lines: what the program stored
\* there and the cache still held is gone.
FlushNoWriteback == \E r \in Regions :
    /\ Region(r[1], r[2]) \subseteq Cached
    /\ r[1] % LINE = 0 /\ r[2] % LINE = 0
    /\ cache' = Without(Given(r[1], r[2]))
    /\ view' = [a \in Addresses |->
                    IF a \in Region(r[1], r[2]) THEN memory[a] ELSE view[a]]
    /\ handed' = handed \union Region(r[1], r[2])
    /\ UNCHANGED <<memory, uncached>>

\* alt_dcache_flush_all names every set.
FlushAll ==
    /\ WriteBack(0..(LINES - 1))
    /\ handed' = Cached
    /\ UNCHANGED <<uncached, view>>

\* alt_uncached_malloc: memalign gives any whole lines.
Unrounded(size) == size
Rounded(size) == ((size + LINE - 1) \div LINE) * LINE

UncachedMalloc == \E l \in 0..(LINES - 1), size \in 1..(2 * LINE) :
    LET base == l * LINE IN
    /\ uncached = NoBlock
    /\ Region(base, Rounded(size)) \subseteq Addresses
    /\ uncached' = [base |-> base, size |-> Rounded(size)]
    /\ WriteBack(Given(base, Rounded(size)))
    /\ handed' = handed \ Region(base, Rounded(size))
    /\ UNCHANGED view

\* alt_uncached_free.
UncachedFree ==
    /\ uncached # NoBlock
    /\ uncached' = NoBlock
    /\ UNCHANGED <<memory, cache, view, handed>>

-----------------------------------------------------------------------------
Processor == Load \/ Store \/ UncachedStore
Hal == Flush \/ FlushNoWriteback \/ FlushAll \/ UncachedMalloc \/ UncachedFree

Next == Processor \/ DeviceWrite \/ Hal

Spec == Init /\ [][Next]_vars

-----------------------------------------------------------------------------
(* Correctness.                                                            *)

TypeOK ==
    /\ memory \in [Addresses -> Values]
    /\ \A s \in 0..(SETS - 1) :
           cache[s].line # None => SetOf(cache[s].line) = s
    /\ handed \subseteq Addresses /\ Block \subseteq Addresses

Seen(a) == IF a \in Cached /\ Hit(LineOf(a))
           THEN cache[SetOf(LineOf(a))].data[a % LINE] ELSE memory[a]

\* The program reads what was written last, cached or not: a line with other
\* data on it never goes back over an uncached block
\* (alt_uncached_malloc.c:47-63).
Coherent == \A a \in Addresses : Seen(a) = view[a]

\* Of a region just flushed no byte is left in the cache and every byte is
\* in memory, wherever in its lines the region begins and ends
\* (alt_dcache_flush.c:52-66).
FlushCovers == \A a \in handed : memory[a] = view[a] /\ ~Hit(LineOf(a))
=============================================================================
