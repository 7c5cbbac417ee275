------------------------------ MODULE MCParts ------------------------------
(***************************************************************************)
(* Seven small parts of the system that share no state: profiling and the    *)
(* heap, the data cache, the time of day, the busy sleep, the lists of     *)
(* devices and filesystems, instruction exceptions, and the C/A code       *)
(* generator.  A behaviour takes the steps of one of them, chosen at the   *)
(* start, so that their states add up and do not multiply; what holds of   *)
(* each alone holds of all together.                                       *)
(***************************************************************************)
EXTENDS Integers

CONSTANTS
    Functions, Callers, WORD, RECORD, SLAB, HISTOGRAM, HEAP_LIMIT, Increments,
    MaxCalls, MaxBlocks,                      \* Profiler
    LINE, LINES, SETS, Values,                \* DCache
    WRAP, ALT_US, RATE, Seconds, MaxTicks,    \* TimeOfDay
    INT_MAX, PER_US,                          \* BusySleep
    Names, MaxListed,                         \* DevRegistry
    W, Operands, Answers,                     \* InstException
    Tracked                                   \* CaCode

\* Names that begin alike, of devices, mount points and files.
Paths == {<<"/">>, <<"/", "u">>, <<"/", "u", "/">>, <<"/", "u", "v">>,
          <<"/", "u", "/", "f">>}

VARIABLES
    part,
    entries, arcs, fn_head, memory, pcsample_need_init, s_pcsamples, ticking,
    pc, regs, calls, starts, blocks, clash,
    bytes, cache, uncached, view, handed,
    _alt_nticks, alt_resettime, ticks, set,
    asked, us, i, big_loops, rounds, sleep_pc,
    alt_dev_list, alt_fs_list,
    registers, frame, back, except_pc, insn, alt_instruction_exception_handler,
    before, cause,
    g1, g2, shifts, differ

Profile == INSTANCE Profiler
Cache == INSTANCE DCache WITH memory <- bytes
Clock == INSTANCE TimeOfDay
Sleep == INSTANCE BusySleep WITH pc <- sleep_pc
Registry == INSTANCE DevRegistry
Instruction == INSTANCE InstException WITH pc <- except_pc
Code == INSTANCE CaCode

profileVars == <<entries, arcs, fn_head, memory, pcsample_need_init, s_pcsamples,
                 ticking, pc, regs, calls, starts, blocks, clash>>
cacheVars == <<bytes, cache, uncached, view, handed>>
clockVars == <<_alt_nticks, alt_resettime, ticks, set>>
sleepVars == <<asked, us, i, big_loops, rounds, sleep_pc>>
registryVars == <<alt_dev_list, alt_fs_list>>
instructionVars == <<registers, frame, back, except_pc, insn,
                     alt_instruction_exception_handler, before, cause>>
codeVars == <<g1, g2, shifts, differ>>
vars == <<part, profileVars, cacheVars, clockVars, sleepVars, registryVars,
          instructionVars, codeVars>>

ASSUME PartsAssumption ==
    /\ Profile!ProfilerAssumption /\ Cache!DCacheAssumption
    /\ Clock!TimeOfDayAssumption /\ Sleep!BusySleepAssumption
    /\ Registry!DevRegistryAssumption /\ Instruction!InstExceptionAssumption
    /\ Code!CaCodeAssumption

-----------------------------------------------------------------------------
Init ==
    /\ part \in {"profile", "cache", "clock", "sleep", "registry",
                "instruction", "code"}
    /\ Profile!Init /\ Cache!Init /\ Clock!Init
    /\ Sleep!Init /\ Registry!Init /\ Instruction!Init
    \* The largest of the states, left out where it does not change.
    /\ \/ part = "code" /\ Code!Init
       \/ part # "code" /\ g1 = <<>> /\ g2 = <<>> /\ shifts = 0 /\ differ = <<>>

Next ==
    /\ UNCHANGED part
    /\ \/ part = "profile" /\ Profile!Next
       \/ part # "profile" /\ UNCHANGED profileVars
    /\ \/ part = "cache" /\ Cache!Next
       \/ part # "cache" /\ UNCHANGED cacheVars
    /\ \/ part = "clock" /\ Clock!Next
       \/ part # "clock" /\ UNCHANGED clockVars
    /\ \/ part = "sleep" /\ Sleep!Next
       \/ part # "sleep" /\ UNCHANGED sleepVars
    /\ \/ part = "registry" /\ Registry!Next
       \/ part # "registry" /\ UNCHANGED registryVars
    /\ \/ part = "instruction" /\ Instruction!Next
       \/ part # "instruction" /\ UNCHANGED instructionVars
    /\ \/ part = "code" /\ Code!Next
       \/ part # "code" /\ UNCHANGED codeVars

Spec == Init /\ [][Next]_vars

-----------------------------------------------------------------------------
(* The parts' properties.                                                  *)

\* Every call of an instrumented function is in the call graph
\* (alt_gmon.c:172-179).
CallsRecorded == part = "profile" => Profile!CallsRecorded

\* Its counts add up, except for a lost update (alt_mcount.S:120-122).
CountsHonest == part = "profile" => Profile!CountsHonest

\* What sbrk and mcount_allocate hand out does not overlap
\* (alt_sbrk.c:73-97, alt_gmon.c:133-148).
MemoryApart == part = "profile" => Profile!MemoryApart

\* The program reads what was written last, through the cache or past it
\* (alt_uncached_malloc.c:47-63).
Coherent == part = "cache" => Cache!Coherent

\* A flushed region is in memory and not in the cache
\* (alt_dcache_flush.c:52-66).
FlushCovers == part = "cache" => Cache!FlushCovers

\* The time of day is the time set and the time since
\* (alt_settod.c:82-84, alt_gettod.c:91-113).
ClockRight == part = "clock" => Clock!ClockRight

\* A busy sleep is never too short, and too long by a known amount
\* (alt_busy_sleep.c:75-131).
DelayKept == part = "sleep" => Sleep!DelayKept

\* A name leads to the last registered of those that may have it
\* (alt_find_dev.c:46-47, alt_find_file.c:50-52).
LastOwnerFound == Registry!LastOwnerFound

\* An exception leaves no trace but the result of the instruction
\* (alt_exception_entry.S:125-396, alt_exception_muldiv.S:98-573).
Transparent == part = "instruction" => Instruction!Transparent

\* The codes have their full length (cacode.v:11-19, cacodegen.m:71-83).
FullPeriod == part = "code" => Code!FullPeriod

\* Codes of two satellites do not correlate (cacode.v:21, cacode.m:66-102).
ToldApart == part = "code" => Code!ToldApart
=============================================================================
