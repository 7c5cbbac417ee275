------------------------------ MODULE Profiler ------------------------------
(***************************************************************************)
(* The call graph the HAL's profiling support records: mcount, which every *)
(* instrumented function calls on entry, __mcount_record behind it, the    *)
(* start of the program counter sampler, and sbrk, which all of them and   *)
(* malloc take memory from.                                                *)
(*                                                                         *)
(* Two actors run mcount: the thread, and an interrupt handler that may    *)
(* come between any two of the thread's steps and then runs to its end.    *)
(* What runs with interrupts disabled is one step.  Only the heads of the  *)
(* lists and the counts change once a record is linked, so a step reads    *)
(* one of these and walks as far as it likes.  The lists are those of one  *)
(* hash bucket; the others share nothing with it but the memory.           *)
(***************************************************************************)
EXTENDS Integers, Sequences, FiniteSetsExt

CONSTANTS
    Functions,     \* instrumented functions of one hash bucket (self_pc)
    Callers,       \* call sites (from_pc)
    WORD,          \* sizes, in units of a histogram counter: of a word,
    RECORD,        \* of an mcount_fn_arc and an mcount_fn_entry,
    SLAB,          \* MCOUNT_SLAB_INCREMENT,
    HISTOGRAM,     \* of the sampler's histogram, one counter per bucket,
    HEAP_LIMIT,    \* and __alt_heap_limit, the heap starting at WORD
    Increments,    \* what malloc asks sbrk for
    MaxCalls,      \* bound: calls of instrumented functions
    MaxBlocks      \* bound: blocks malloc gets

ProfilerAssumption ==
    /\ {WORD, RECORD, SLAB, HISTOGRAM} \subseteq Nat \ {0}
    /\ RECORD % WORD = 0 /\ RECORD <= SLAB
    /\ HEAP_LIMIT \in Nat /\ MaxCalls \in Nat /\ MaxBlocks \in Nat
    /\ Increments \subseteq Nat \ {0}

VARIABLES
    \* the records, in the order of their allocation, and the bucket's head;
    \* a link is a place in its sequence
    entries, arcs, fn_head,
    \* heap_end, mcount_slab_ptr, mcount_slab_size, and what sbrk or
    \* mcount_allocate returned last
    memory,
    \* the sampler: to be started, its histogram, and whether the system
    \* clock, without which it cannot start, ticks
    pcsample_need_init, s_pcsamples, ticking,
    \* per actor: where it is in mcount, and its registers there
    pc, regs,
    \* history: completed calls, times the sampler's alarm was started,
    \* blocks malloc got, and whether the handler counted a call between the
    \* thread's load and store of the same count
    calls, starts, blocks, clash

graphVars   == <<entries, arcs, fn_head>>
samplerVars == <<pcsample_need_init, s_pcsamples, ticking, starts>>
historyVars == <<calls, clash>>
vars == <<graphVars, memory, samplerVars, pc, regs, blocks, historyVars>>

NULL == 0
Actors == {"thread", "handler"}
Calls == Functions \X Callers

\* Outside mcount its registers mean nothing.
Unused == [self_pc |-> NULL, from_pc |-> NULL, fn_entry |-> NULL, arc |-> NULL,
           count |-> 0]

-----------------------------------------------------------------------------
(* Memory.                                                                 *)

Aligned(a) == ((a + WORD - 1) \div WORD) * WORD

SbrkFrom(m, start, incr) ==
    IF start + incr > HEAP_LIMIT
    THEN [m EXCEPT !.heap_end = start, !.got = -1]
    ELSE [m EXCEPT !.heap_end = start + incr, !.got = start]

\* sbrk, with interrupts disabled.
Sbrk(m, incr) == SbrkFrom(m, Aligned(m.heap_end), incr)

TakenOnly(m) == [m EXCEPT !.got = m.slab_ptr, !.slab_ptr = @ + RECORD]
Taken(m) == [m EXCEPT !.got = m.slab_ptr, !.slab_ptr = @ + RECORD,
                      !.slab_size = @ - RECORD]

\* mcount_allocate: one record, out of the slab or a new one.
Allocated(m) ==
    IF RECORD > m.slab_size
    THEN LET s == Sbrk(m, SLAB)
         IN Taken([s EXCEPT !.slab_ptr = s.got, !.slab_size = SLAB])
    ELSE Taken(m)

\* The thread, and no handler, is running outside mcount.
ThreadFree == \A p \in Actors : pc[p] = "out"

\* What else the program needs memory for.
Malloc == \E incr \in Increments :
    /\ ThreadFree /\ Cardinality(blocks) < MaxBlocks
    /\ memory' = Sbrk(memory, incr)
    /\ blocks' = IF memory'.got = -1 THEN blocks
                 ELSE blocks \union {[base |-> memory'.got, size |-> incr]}
    /\ UNCHANGED <<graphVars, samplerVars, pc, regs, historyVars>>

-----------------------------------------------------------------------------
Init ==
    /\ entries = <<>> /\ arcs = <<>> /\ fn_head = NULL
    /\ memory = [heap_end |-> WORD, slab_ptr |-> NULL, slab_size |-> 0, got |-> NULL]
    /\ pcsample_need_init = TRUE /\ s_pcsamples = NULL /\ ticking = FALSE
    /\ pc = [p \in Actors |-> "out"] /\ regs = [p \in Actors |-> Unused]
    /\ calls = [k \in Calls |-> 0] /\ starts = 0 /\ blocks = {} /\ clash = FALSE

\* The handler pre-empts the thread and not the other way round.
At(p, l) == pc[p] = l /\ (p = "thread" => pc["handler"] = "out")
Goto(p, l) == pc' = [pc EXCEPT ![p] = l]

Begun == FoldFunction(+, 0, calls) + Cardinality({p \in Actors : pc[p] # "out"})

\* An instrumented function is entered.
Mcount(p) == \E f \in Functions, c \in Callers :
    /\ At(p, "out") /\ Begun < MaxCalls
    /\ regs' = [regs EXCEPT ![p].self_pc = f, ![p].from_pc = c]
    /\ Goto(p, "find_entry")
    /\ UNCHANGED <<graphVars, memory, samplerVars, blocks, historyVars>>

\* The first in the chain from head with the key.
First(records, key, head) ==
    LET first[i \in 0..Len(records)] ==
            IF i = NULL \/ records[i].key = key THEN i ELSE first[records[i].next]
    IN first[head]

\* The function's entry is looked for, ...
FindEntry(p) ==
    /\ At(p, "find_entry")
    /\ LET e == First(entries, regs[p].self_pc, fn_head) IN
       /\ regs' = [regs EXCEPT ![p].fn_entry = e]
       /\ Goto(p, IF e = NULL THEN "record" ELSE "find_arc")
    /\ UNCHANGED <<graphVars, memory, samplerVars, blocks, historyVars>>

\* ... then in its chain the arc from the caller, ...
FindArc(p) ==
    /\ At(p, "find_arc")
    /\ LET a == First(arcs, regs[p].from_pc, entries[regs[p].fn_entry].arc_head) IN
       /\ regs' = [regs EXCEPT ![p].arc = a]
       /\ Goto(p, IF a = NULL THEN "record" ELSE "load")
    /\ UNCHANGED <<graphVars, memory, samplerVars, blocks, historyVars>>

\* ... whose count is loaded by one instruction and stored by another.
Load(p) ==
    /\ At(p, "load")
    /\ regs' = [regs EXCEPT ![p].count = arcs[regs[p].arc].count]
    /\ Goto(p, "store")
    /\ UNCHANGED <<graphVars, memory, samplerVars, blocks, historyVars>>

Return(p) ==
    /\ calls' = [calls EXCEPT ![<<regs[p].self_pc, regs[p].from_pc>>] = @ + 1]
    /\ Goto(p, "out") /\ regs' = [regs EXCEPT ![p] = Unused]

Store(p) ==
    /\ At(p, "store")
    /\ arcs' = [arcs EXCEPT ![regs[p].arc].count = regs[p].count + 1]
    /\ clash' = (clash \/ /\ p = "handler" /\ pc["thread"] = "store"
                          /\ regs["thread"].arc = regs[p].arc)
    /\ Return(p)
    /\ UNCHANGED <<entries, fn_head, memory, samplerVars, blocks>>

-----------------------------------------------------------------------------
(* __mcount_record.                                                        *)

\* Is the sampler to be started?  The variable is read here, ...
Record(p) ==
    /\ At(p, "record")
    /\ Goto(p, IF pcsample_need_init THEN "sampler" ELSE "link")
    /\ UNCHANGED <<graphVars, memory, samplerVars, regs, blocks, historyVars>>

\* ... and cleared here.
ClearNeed(p) ==
    /\ At(p, "sampler")
    /\ pcsample_need_init' = FALSE
    /\ Goto(p, "rate")
    /\ UNCHANGED <<graphVars, memory, s_pcsamples, ticking, starts, regs, blocks,
                   historyVars>>

\* nios2_pcsample_init: without a clock it is to be called again, ...
NoRate(p) ==
    /\ At(p, "rate") /\ ~ticking
    /\ pcsample_need_init' = TRUE
    /\ Goto(p, "link")
    /\ UNCHANGED <<graphVars, memory, s_pcsamples, ticking, starts, regs, blocks,
                   historyVars>>

\* ... else it allocates the histogram ...
Histogram(p) ==
    /\ At(p, "rate") /\ ticking
    /\ memory' = Sbrk(memory, HISTOGRAM)
    /\ s_pcsamples' = memory'.got
    /\ Goto(p, "start")
    /\ UNCHANGED <<graphVars, pcsample_need_init, ticking, starts, regs, blocks,
                   historyVars>>

\* ... and starts the alarm that samples.
StartAlarm(p) ==
    /\ At(p, "start")
    /\ starts' = starts + 1 /\ pcsample_need_init' = FALSE
    /\ Goto(p, "link")
    /\ UNCHANGED <<graphVars, memory, s_pcsamples, ticking, regs, blocks, historyVars>>

\* With interrupts disabled: an entry, if none was found, and an arc, each at
\* the head of its chain.
EntryNextOnly(p) == NULL
EntryNext(p) == fn_head
ArcNext(e) == e.arc_head
FirstCountNone == 0
FirstCount == 1

Link(p) ==
    /\ At(p, "link")
    /\ LET r == regs[p]
           isNew == r.fn_entry = NULL
           m == IF isNew THEN Allocated(memory) ELSE memory
           k == IF isNew THEN Len(entries) + 1 ELSE r.fn_entry
           e == IF isNew THEN [addr |-> m.got, next |-> EntryNext(p),
                               key |-> r.self_pc, arc_head |-> NULL]
                         ELSE entries[k]
       IN /\ memory' = Allocated(m)
          /\ arcs' = Append(arcs, [addr |-> memory'.got, next |-> ArcNext(e),
                                   key |-> r.from_pc, count |-> FirstCount])
          /\ entries' = IF isNew
                        THEN Append(entries, [e EXCEPT !.arc_head = Len(arcs) + 1])
                        ELSE [entries EXCEPT ![k].arc_head = Len(arcs) + 1]
          /\ fn_head' = IF isNew THEN k ELSE fn_head
    /\ Return(p)
    /\ UNCHANGED <<samplerVars, blocks, clash>>

\* alt_sysclk_init, called while the drivers are initialised.
ClockStarts ==
    /\ ThreadFree /\ ~ticking
    /\ ticking' = TRUE
    /\ UNCHANGED <<graphVars, memory, pcsample_need_init, s_pcsamples, starts,
                   pc, regs, blocks, historyVars>>

-----------------------------------------------------------------------------
Step(p) == \/ Mcount(p) \/ FindEntry(p) \/ FindArc(p) \/ Load(p) \/ Store(p)
           \/ Record(p) \/ ClearNeed(p) \/ NoRate(p) \/ Histogram(p)
           \/ StartAlarm(p) \/ Link(p)

Next == Malloc \/ ClockStarts \/ \E p \in Actors : Step(p)

Spec == Init /\ [][Next]_vars

-----------------------------------------------------------------------------
(* Correctness.                                                            *)

TypeOK ==
    /\ fn_head \in 0..Len(entries)
    /\ \A i \in DOMAIN entries : /\ entries[i].next \in 0..(i - 1)
                                 /\ entries[i].arc_head \in 1..Len(arcs)
    /\ \A i \in DOMAIN arcs : arcs[i].next \in 0..(i - 1) /\ arcs[i].count \in Nat
    /\ pc \in [Actors -> {"out", "find_entry", "find_arc", "load", "store",
                          "record", "sampler", "rate", "start", "link"}]

\* What the host finds when it walks the lists from the head.
Chain(records, head) ==
    LET chain[i \in 0..Len(records)] ==
            IF i = NULL THEN {} ELSE {i} \union chain[records[i].next]
    IN chain[head]

Copies(f, c) ==
    {a \in UNION {Chain(arcs, entries[e].arc_head) :
                    e \in {x \in Chain(entries, fn_head) : entries[x].key = f}} :
        arcs[a].key = c}

\* The counts of the records at the places.
Total(records, places) ==
    LET total[i \in 0..Len(records)] ==
            IF i = 0 THEN 0
            ELSE total[i - 1] + IF i \in places THEN records[i].count ELSE 0
    IN total[Len(records)]

Counted(f, c) == Total(arcs, Copies(f, c))

\* Every call that was made is in the graph, also where the handler linked
\* records between the thread's search and its own insertion
\* (alt_gmon.c:172-179).
CallsRecorded == \A k \in Calls : calls[k] > 0 => Copies(k[1], k[2]) # {}

\* The copies of an arc count no call twice, and together every call, except
\* where the handler counted one between a load and a store
\* (alt_mcount.S:120-122, alt_gmon.c:52-53).
CountsHonest == \A k \in Calls :
    /\ Counted(k[1], k[2]) <= calls[k]
    /\ clash \/ Counted(k[1], k[2]) = calls[k]

\* Records, the histogram and malloc's blocks lie apart and below the limit,
\* whoever asked for them between which steps of the others
\* (alt_sbrk.c:73-97, alt_gmon.c:133-148).
Taking(base, size) == base..(base + size - 1)
Regions ==
    {Taking(entries[i].addr, RECORD) : i \in DOMAIN entries}
        \union {Taking(arcs[i].addr, RECORD) : i \in DOMAIN arcs}
        \union {Taking(b.base, b.size) : b \in blocks}
        \union IF s_pcsamples = NULL THEN {} ELSE {Taking(s_pcsamples, HISTOGRAM)}

MemoryApart ==
    /\ \A r, s \in Regions : r # s => r \cap s = {}
    /\ Cardinality(Regions) = Len(entries) + Len(arcs) + Cardinality(blocks)
                                  + (IF s_pcsamples = NULL THEN 0 ELSE 1)
    /\ \A r \in Regions : r \subseteq WORD..(HEAP_LIMIT - 1)

\* alt_gmon.c:212-213: the sampler's start is called "on subsequent calls to
\* mcount until it returns zero".
SamplerStartedOnce == starts <= 1
=============================================================================
