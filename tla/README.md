# A verification project for the GPS receiver

`src/` holds a student-built GPS receiver for a Terasic DE2i-150 board: an FPGA
design (`sw/fpga`) whose Nios II soft processor runs a small firmware on Altera's
hardware abstraction layer (HAL), a processing program for a host (`sw/processing`)
driven by a rate-monotonic scheduler, and MATLAB course work on the signal
processing (`docs/matlab_gps`).  What the repository has of concurrency, hardware
interaction and long-running state is in the firmware, its board support package and
the scheduler, and these are what this project models.

Paths below are relative to `src/`; `BSP` is
`sw/fpga/src/software/gps_nios_bsp`, `HAL` is `BSP/HAL`, `RTL` is
`sw/fpga/src/nios_cpu/synthesis/submodules`.

## 1. Inventory

| component | source | state it keeps | operations | correct when |
|---|---|---|---|---|
| JTAG UART driver | `BSP/drivers/src/altera_avalon_jtag_uart_*.c` | two rings with their indices, `irq_enable`, `host_inactive`, `timeout` | `write`, `read`, `close`, `ioctl`, interrupt handler, one-second alarm | no character lost, repeated or reordered; no interrupt left off with work to do; waits end |
| JTAG UART hardware | `RTL/nios_cpu_jtag_uart.v` | two FIFOs, interrupt enables, `pause_irq`, `ac`, `woverflow` | data and control register, the JTAG port | requests an interrupt whenever the driver has something to do |
| file descriptors | `HAL/src/alt_{open,close,get_fd,release_fd,fcntl,ioctl,fd_lock,fd_unlock,io_redirect,dev}.c` | the pool, `alt_max_fd`, flags | `open`, `close`, `fcntl`, lock and unlock requests, redirection of stdio | no descriptor leaks; one lock holder per device, who shuts others out |
| interrupt support and boot | `HAL/src/alt_main.c`, `BSP/alt_sys_init.c`, `alt_iic_isr_register.c`, `alt_irq_handler.c`, `alt_irq_entry.S`, `inc/sys/alt_irq.h`, `inc/priv/alt_legacy_irq.h` | `status.PIE`, `ienable`, its mirror `alt_irq_active`, the handler table | `alt_irq_init`, registration, dispatch | an interrupt meets a registered handler, and the dispatcher finds what it was entered for |
| firmware | `sw/fpga/src/software/gps_nios/main.c` | the LED ports | `main`, `pushBtnIsr` | the red LEDs follow the switches; a button moves the green one |
| parallel ports | `RTL/nios_cpu_{push_btns,led_green,led_red,switches}.v` | data, interrupt mask | register accesses | |
| RMS scheduler | `sw/processing/src/rms/scheduler.c`, `gps_main.c` | a round counter | one round: 1000, 100, 10 and 1 Hz functions | each function once per period, faster before slower |
| alarms | `HAL/src/alt_alarm_start.c`, `alt_tick.c`, `inc/sys/alt_llist.h` | tick counter, list of alarms, time and rollover flag of each | start, stop, tick | every alarm called exactly when due, never after it stopped |
| profiling and heap | `HAL/src/alt_mcount.S`, `alt_gmon.c`, `alt_sbrk.c` | hash chains of function entries and arcs, slab, heap end, sampler | `mcount`, `__mcount_record`, start of the sampler, `sbrk` | every call is in the graph, counts are right, allocations lie apart |
| data cache support | `HAL/src/alt_dcache_flush*.c`, `alt_uncached_{malloc,free}.c` | none of its own; it moves bytes between cache and memory | flush a region, with and without writing back, or everything; get and free an uncached block | no byte of a flushed region stays behind; no cached data falls on an uncached block |
| time of day | `HAL/src/alt_{settod,gettod}.c` | the time at reset | `settimeofday`, `gettimeofday` | what is read is what was set and the ticks since |
| busy sleep | `HAL/src/alt_{busy_sleep,usleep}.c` | locals | `usleep` | never too short |
| registry | `HAL/src/alt_{dev_llist_insert,fs_reg,find_dev,find_file}.c` | lists of devices and filesystems | register, look up | a name leads to the last registered of those that may have it |
| C/A code generator | `sw/fpga/src/cacode.v`, `docs/matlab_gps/hw2/cacodegen.m`, `hw1/circcorr/cacode.m` | two shift registers | reset, shift | codes of full length that can be told apart |
| instruction exceptions | `HAL/src/alt_exception_{entry,muldiv,trap}.S`, `alt_instruction_exception_{entry,register}.c` | saved registers on the stack, the registered handler | entry, dispatch, emulation of multiply and divide, exit | a program goes on with its registers as they were and the result of the instruction it met |
| start-up, thin system calls, output helpers | rest of `HAL/src` | none, or none in this image | | not modelled, section 6 |
| processing program's configuration, vendor cores, MATLAB | | | | not modelled, section 6 |

How they interact:

* `printf` and the standard descriptors lead through the file descriptor pool to the
  UART driver's `write`.  `write`/`read` and the driver's interrupt handler share the
  rings and `irq_enable`; the handler and the hardware share the control and data
  registers; the hardware and the host share the FIFOs.
* The UART and the push buttons raise interrupt lines 0 and 1.  The dispatcher reads
  `ipending` and calls through the handler table that `alt_iic_isr_register` fills.
* In a build with a system clock the driver's alarm is called from `alt_tick`.  This
  image has no system clock (`system.h`: `ALT_SYS_CLK none`), so `alt_alarm_start`
  fails, the driver sets its timeout to `INT_MAX`, and waits never give up.
* An instrumented program calls `mcount` on every function entry, from the thread and
  from interrupt handlers; both take memory from `sbrk`, as `malloc` does.
* The processing program is separate; its scheduler calls four functions that are
  empty or print one line.
* The exception entry is one for interrupts and for instructions the processor does not
  execute; only what is not an interrupt reaches the emulation, the trap and the handler.
* The caches, the time of day, the busy sleep, the registry and the code generator share
  no state with each other or with the rest, except the tick counter, which `alt_tick`
  counts and the time of day reads.

What is hard here: the handler pre-empts the one thread between any two accesses; the
UART coalesces interrupts and raises one only near a full FIFO or when the host
pauses; a call waits by spinning; interrupt enables live in three places (device,
processor, mirror) that are written apart; counters and products wrap; the descriptor
pool's lock depends on a high water mark; profiling searches its chains with interrupts
enabled.  `PROJECT.json` lists each of these at its line.  No
property covers three of them, all in section 5: a callback that stops the alarm after its own
(`alt_tick.c:140`), a failed `sbrk` taken for memory (`alt_gmon.c:139`), and `sp` or `gp` in
an emulated instruction (`alt_exception_muldiv.S:154`).

## 2. Modules

| module | models | checked by |
|---|---|---|
| `JtagUart` | driver, UART, host, alarm | `uart`, `uart_live`, `uart_clock` |
| `ByteStream` | abstract: a bounded lossless ordered stream | refined by each direction of `JtagUart` |
| `FileDesc`, `MCFileDesc` | descriptor pool; its instances | `fd`, `fd_lock` |
| `Firmware` | boot, registration, dispatch, `main`, `pushBtnIsr`, ports | `firmware`, `firmware_button` |
| `RmsScheduler` | the scheduling loop | `rms`, `rms_onehz` |
| `Alarm`, `MCAlarm` | alarms, list and tick; its instances | `alarm` |
| `AlarmClock` | abstract: what an alarm promises | refined by `Alarm` |
| `Profiler` | `mcount`, sampler start, heap | `parts`, `profiler_start` |
| `InstException` | exception entry and exit, emulation, trap, registered handler | `parts` |
| `DCache`, `TimeOfDay`, `BusySleep`, `DevRegistry`, `CaCode` | one small component each | `parts` |
| `MCParts` | the last seven beside each other | `parts` |
| `JtagUartProofs`, `FileDescProofs`, `FirmwareProofs`, `RmsSchedulerProofs`, `AlarmProofs`, `DCacheProofs`, `ProfilerProofs` | proofs about the module they are named for | TLAPS |
| `PartsProofs` | proofs about `MCParts`: its small parts, and the theorems of `DCacheProofs` and `ProfilerProofs` taken over by instance | TLAPS |

Operators whose name says what is wrong with them (`FreeRunToLastCell`,
`KickedNot`, ...) stand just before the definition they are a mutated form of.  They
are used by nothing; `PROJECT.json` names which property each of them breaks.

### JtagUart

State: the UART's registers and FIFOs, the driver's struct field by field, and for
thread and handler a program counter and the locals that outlive a step.  A character
is its position in its stream, so order, loss and repetition are visible without
bytes.  The thread's steps are its accesses to state the handler shares: `WriteLoad`
(one read of `tx_out`, the free run), `WriteCopy` (memcpy), `WritePublish` (`tx_in`),
`WriteKick` (the section with interrupts off), `WriteSpin`, `WriteTest`,
`WriteReturn`, and in the same way for `read`; `CloseWait` and `SetTimeout` for
`close` and `ioctl`.  The handler is `IsrEnter`, `IsrControl` (the one read of the
control register that decides an iteration), `IsrRx...`, `IsrTx...`; it pre-empts the
thread between any two steps and the thread never runs while it does.  The host takes
a character, types one, or pauses at any time, also between two steps of the handler.
`Alarm` is the once-a-second callback, in builds with a clock.  It runs from the
timer's own interrupt and so never inside the UART's handler.

Left out: the operating system variants (`__ucosii__`), the small polled driver and
the logging, none of which is compiled; one-cycle delays inside the UART between a
register write and the interrupt line.  Those delays are why the driver reads the
control register back after turning an enable off; the model has the line follow at
once.  Calls that move 0 characters and negative counts do not differ from a count of 0.

### FileDesc

One step per call: the firmware has one thread, and `alt_fd_list_lock` compiles to
nothing.  `Redirect` is `alt_open_fd`, run three times before `main`, with its
copy over the standard descriptor and the release of the temporary one in the same
step.  `held` is history: what `open` returned and nobody closed.  A name leads to its
device or filesystem by the constant `Lookup`; what a driver's `open` answers is free
for those in `MayFail`.

### Firmware

A step is one write of a register or variable that the interrupt side depends on:
`alt_irq_init` is `InitMask`, `InitUnmask`; registration is `RegOff`, `RegTable`,
`RegEnable` (with its nested disable and enable), `RegOn`.  Boot runs both for the
UART, `main` runs both again for the button.  `ienable` starts with any value, because
a program downloaded to a running processor finds what was there before.  The UART is
reduced to its line and the fill of its ring; that its line never drops between the
processor's answer and the dispatcher's read is `InterruptHeld`, proved of
`JtagUart`.  `irqMask` is the button port's mask: out of reset it is empty and nothing
in the image writes it.  It starts with a member of `IrqMasks`: `{}` is the image, and
`{0, 1}` a firmware that had set it, for which only the dispatch and the LED update are
claimed.

### RmsScheduler

A round is four `RunThread` steps and an `Increment` of the 32-bit counter, which
wraps (the program is compiled with `-O0`; in C the overflow is undefined, and the
wrap is what this build does).  `ran`, `since` and `fresh` are history.

### Alarm

`start` and `stop` run with interrupts off, `alt_tick` in the timer's handler, so a
step is one call or one turn of the tick's loop; the callback is part of that turn and
may stop an alarm.  Preconditions taken from the only user, the UART driver: an alarm
is started only when it is not registered, and stopped only if it was started before.
`Spec` lets a callback stop any alarm of `MayStop`.  `CarefulSpec` adds `SparesNext`, the one
thing `alt_tick` needs: the callback does not stop the alarm after its own, where the
cursor goes next.  A driver whose callback stops at most its own alarm (`OwnOnly`), like
the UART's, meets it always.

### Profiler

The records are kept in the order of their allocation and linked by number; the chain is
that of one hash bucket.  Thread and handler each have a program counter and registers;
a step is one access to what the other may change, the section with interrupts off
(`Link`) is one step, and so is `sbrk`.  Once a record is linked only its count and the heads of
the chains change, which is why a search is one step that reads one head.  The
handler runs to its end before the thread goes on.  `ClockStarts` is the moment
`alt_sysclk_init` gives the HAL a tick rate; before it the sampler refuses to start and asks
to be called again.  `clash` records the one event that excuses a wrong count.

### DCache

A direct mapped cache that writes back, in front of bytes of memory.  The loops of the
flushes are sets of lines (`Given`), with the step more that `alt_dcache_flush` takes
when the region does not begin with a line.  `handed` are the addresses flushed and not
touched since: these a device may read and write.  `view` is history: what was last
written to an address, by whoever.  `alt_dcache_flush_no_writeback` is called for
whole lines, as discarding part of a line discards its neighbours; its last step, which
does write back, is then not reached.

### TimeOfDay, BusySleep, DevRegistry, CaCode

`TimeOfDay` gives each product its width: 32 bits in `alt_settod.c:84`, 64 in
`alt_gettod.c:93`.  `BusySleep` counts the rounds of the counting loops, which test after
they have counted: `CountToZero` and `CountDown` say how many rounds a word gives.
`DevRegistry` keeps the names from the head of each list, as sequences of characters,
because the searches look at where names end and at their slashes.  `CaCode` is `cacode.v`,
one clock per step; the tap table is from `cacode.m`, which has all 37 satellites.

### InstException

A register file by name and the stack frame's slots by the name of the register they
belong to.  The handler works in the very registers it has to give back, so the
emulation's `r3`, `r6`, `r9` to `r14`, `r16` and `r17` are entries of `registers`, and each
turn of its loops (`DivideBit`, `MultiplyBit`) is a step.  One register stands for those
that are treated alike.  `back` is slot `72(sp)`: whether the program resumes at the
instruction or after it.  C code on the way changes every register its caller saves
(`Clobbered`).  `before` and `cause` are history.  `estatus`, which is saved and restored
beside them, and the decoding of the instruction word are left out.

### MCParts

Seven components that share no state are checked in one run.  A behaviour takes the steps
of one of them, chosen at the start and kept in `part`, so the state spaces add up and
do not multiply.  What a component's formula says is asked in the behaviours of that
component.

## 3. Runs

| run | what it shows | bounds |
|---|---|---|
| `uart` | image without a clock: streams lossless in both directions, no interrupt stranded, none withdrawn; refinement of `ByteStream` both ways | rings of 3 cells, FIFOs of 2, threshold 1, calls of 0, 1 and 3 characters, 5 sent, 4 typed |
| `uart_live` | everything accepted arrives; waiting calls go on | rings and FIFOs of 3, calls of 1 and 3 |
| `uart_clock` | with the alarm running: the longest timeout is out of its reach; every call returns once the host is silent | rings of 2, FIFOs of 2, `INT_MAX` 5 |
| `fd` | no leak, mark above every descriptor, one lock holder, who shuts others out | 6 descriptors, 2 devices, 1 filesystem that may refuse, unlike standard streams |
| `fd_lock` | finding: the lock is granted beside another user | the image's standard streams |
| `firmware` | no empty table entry, no spurious interrupt, UART served after the second `alt_irq_init`, switches shown; with the mask set too, dispatch and LED update stay right | 2 buttons, 3 LEDs, ring of 1, 2 inputs |
| `firmware_button` | finding: the button is never serviced | the same, mask as in the image |
| `rms` | order and ratios of the rates over two turns of the counter | `INT_MAX` 1647 |
| `rms_onehz` | finding: a 1 Hz gap of 1296 rounds at the wrap | `INT_MAX` 1647 |
| `alarm` | list sound; starting, stopping and ticking implement `AlarmClock`, over any number of turns of the counter | 3 alarms, 2-bit counter, every delay but the longest, every interval, callbacks that stop any alarm but the one after their own |
| `parts` | calls recorded and counted, memory apart; cache coherent, flushes complete; time right; delays kept; names lead to their owners; exceptions leave only results; codes of full length and apart | see below |
| `profiler_start` | finding: the sampler is started twice | 2 functions, 2 call sites, 4 calls |

Why the bounds are enough.  Rings of three cells fill, empty and wrap; a call of three
characters needs two runs and a wait; five characters take each index through the ring
more than once, and the FIFO of two with threshold 1 has a level below, at and above
it.  Nothing in the driver compares characters or looks further than both ends of a
ring.  The descriptor pool's code treats descriptors above 2 alike, and three of them
are a holder, another user and the highest.  1647 is congruent to 2^31-1 modulo 1000
(and so modulo 100 and 10), which makes the gaps at the wrap the real ones.  A 2-bit
tick counter lets delays and intervals wrap before, with and after each other, and three
alarms are the callback's own, the one after it, and one that it may stop.

In `parts`: two functions of one bucket with two callers each, four calls and two
actors give new entries and new arcs on either side of an interruption, lost counts, and slabs of
two records with blocks between them.  Three lines of memory over two sets make two
lines share a set; lines of two bytes let a region begin and end inside one.  Words
of 5 and 8 bits let the products of the clock and of the sleep wrap, and every delay
of a word is tried.  Four registrations of five names put devices and mount points in every
order.  Words of 3 bits hold every combination of signs, carries
and the most negative number; the four operands are one register of each treatment the
frame knows: `zero`, saved on entry, saved by the emulation, and `ra`.  The codes are run
in full, for all satellites.

Where a theorem of section 7 states a property, the bounds do not matter to it: it holds
for every value of the constants that the assumptions there admit.

Bounds that cut behaviour: `MaxSent` and `MaxTyped` in `JtagUart` (the transmitter
and the host fall silent after them), `MaxTyped` in `Firmware`, `MaxCalls` and
`MaxBlocks` in `Profiler`, `MaxTicks` in `TimeOfDay`, `MaxListed` in `DevRegistry`.  The
other constants are sizes.

Deadlock is checked in every run but `parts` and `profiler_start`: a program that has made
its last call or registered its last device stops there.

## 4. Fairness

* `JtagUart`: `WF(Thread)` and `WF(Isr)`: the processor goes on executing, and takes an
  interrupt that stays requested.  That the thread makes calls is not assumed.  For
  `uart_live` also `WF(HostTake)` and `WF(HostPause)`: a terminal that is connected
  drains its end and pauses after what it sent.  `uart_clock` assumes nothing of the
  host, only `WF(Alarm)`, the periodic timer; its liveness property speaks of behaviours
  in which the host has fallen silent.
* `Firmware`: `WF(Thread)`, `WF(Handler)`, `WF(HostDrain)` for the same reasons.
  `Handler` is a disjunction because once entered each of its steps enables the next
  and nothing else disables it.
* `Alarm`: `WF(Tick /\ SparesNext)`, the periodic timer interrupt, in which callbacks are
  careful.  It implements weak fairness of each alarm's call and of time in `AlarmClock`.
* The other modules state no liveness: their operations end when their loops do.

## 5. Findings, and what the source says otherwise

Four runs find the code to differ from what the repository says of it: the lock
(`alt_fd_lock.c:61`), the button (`main.c:41`), the wrap of the scheduler
(`scheduler.c:54`) and the start of the sampler (`alt_gmon.c:167`).

More disagreements came up while modelling.  They have no run of their own: most are the
exceptions that a checked property names.

* `altera_avalon_jtag_uart_write.c:187` and `:214`: a write returns `EIO`, "Host not
  connected", after one inactive second, also when the host is connected and merely slow.
* `alt_alarm_start.c:84`: the longest delay, 2^32-1, comes round to the current tick with
  the rollover flag clear; the alarm goes off at once.  With `Delays` up to `WRAP - 1`
  `KeepsTime` fails.
* `alt_tick.c:140`: the successor read before a callback may be stopped by it.  Under `Spec`,
  without `SparesNext`, `OnlyRegistered` fails; the list stays sound all the same
  (`ListStaysSound` is a theorem of `Spec`).
* `alt_settod.c:61-63`: "an immediate call to gettimeofday() would return the value
  specified" fails once the product of words at line 84 has wrapped (71 minutes after
  reset); `ClockRight` is stated for before.
* `alt_busy_sleep.c:37-39` has the loops equivalent to one that counts the microseconds'
  rounds; a delay that is an exact multiple of the long loop leaves 0 for line 112, which
  counts through a whole word.  It is `Turn` in `DelayKept`.
* `alt_dcache_flush_no_writeback.c:65-68`: when the region does not begin with a line, the
  line after its last may be written back and dropped though the region has no byte in
  it (a line of 32, start 4, length 28).
* `alt_mcount.S:120-122`: a handler between load and store loses a count (`clash`).
  `alt_gmon.c:178-180` expects "two copies [...] both with count=1"; the copies can have
  other counts by the time anyone looks.
* `alt_gmon.c:226` and `:265`: when the text is not a multiple of 32 bytes, the histogram
  is allocated one bucket short of what the sampler counts in.  `alt_gmon.c:139` and
  `:229` do not look for the -1 of a `sbrk` that failed; `Parts.cfg` has enough memory.
* `alt_exception_muldiv.S:57-70` lists the operands for which the emulation does not match
  the instruction: `et` as a source, `sp` and `ea` as a destination, and `ba` and `bt`.  There
  are more: `sp` as a source yields the handler's own (line 154 saves it after line 139 has
  moved it), `ea` as a source a slot nobody filled, and a result for `gp` is stored and never
  loaded (line 564).  `Operands` leaves `sp` and `gp` out; with either in, `Transparent` fails.
* `alt_exception_entry.S:276` has the handler's return code 0 mean to skip the instruction;
  line 279 skips for any other, as `alt_exceptions.h:95-96` defines it.  Line 285 takes the
  address from `ea`, which no longer holds it if the handler itself met an instruction to
  emulate.
* `alt_sbrk.c:46` says it does no bounds checking; line 88 checks the limit.
* `cacodegen.m:20` gives PRN 5 the taps 1 and 0, where `cacode.m` has 1 and 9, and 0 is no
  index.

## 6. Not modelled, and why

* Start-up code, thin system calls, output helpers: straight-line code without state of
  its own, or formatting.
* An exception inside a registered handler, and the exceptions of an ECC, which this
  processor does not have.  In `Firmware` an instruction exception is the state `trap`: the
  image registers no handler.
* The sampler's histogram beyond its memory, and the file written at exit.
* Remapping a block between cached and uncached in place, and the instruction cache:
  the first is an address bit, the second holds no data to lose.
* DMA and flash: no such device in the image; their registration is `DevRegistry`'s.
* The stack check of `sbrk`, the operating system variants and the logging: not compiled.
* The processor, the interconnect, the NCO: generated or encrypted vendor cores; the
  models use what they do at their interface.
* `alt_jtag_atlantic` and the host's terminal: not in the repository.  They are the
  `Host` actions of `JtagUart`, from the port's signals in `nios_cpu_jtag_uart.v`.
* The MATLAB code other than the code generators: floating-point signal processing and
  orbit computations without state.
* `gps_cfg.c`: its call is commented out, and it only hands a file to a library.
* `pushBtnIsr` printing into a full ring: a blocking write from an interrupt handler
  waits for a handler that cannot run.  The image cannot get there, its button interrupt
  being masked, and a model that lets it run has nothing more to say.
* The board's documentation and demonstrations under `docs/DevKit_documentation`:
  third-party material that the design does not use, with a second copy of the board
  support package among it.  It and the vendor's cores are most of the repository's lines,
  which is why the mapped share of all lines is small although every component with
  state of its own is modelled at least in part.

## 7. What is proved

All theorems hold for every value of the constants that satisfies the module's named
assumption, and TLC evaluates each assumption in a run (those of the seven parts through
`PartsAssumption`):

* `UartAssumption`: rings of at least two cells, a threshold below the FIFO's depth, a
  default timeout from 2 up to the longest.
* `FileDescAssumption`: more than three descriptors, devices and filesystems distinct.
* `FirmwareAssumption`, `SchedulerAssumption`, `AlarmAssumption`, `DCacheAssumption`: the
  sizes are positive, the sets of the right kind.
* `ProfilerAssumption`: sizes are positive, a record is whole words and fits a slab.
* `BusySleepAssumption`: a long loop is worth at least two microseconds.
* `TimeOfDayAssumption`: the tick divides the second; two seconds of microseconds, and every
  time that is set or read, fit a signed word.  With words of 32 bits the first is two million
  and the second ends in 2038.
* `InstExceptionAssumption`: a word of at least two bits, operands other than `sp` and `gp`
  (section 5 says why).
* `DevRegistryAssumption`, `CaCodeAssumption`: names are sequences of characters and none is
  empty; satellites are 1 to 37.

The arguments:

* **JtagUart.** `Invariance` proves `IInv`.  `TxStream` alone is not inductive: between
  `WriteLoad` and `WritePublish` the handler moves `tx_out`, so `CopyInv` records that
  the run computed from the old `tx_out` still fits (room only grows), that it ends
  within the array, and after the copy what the cells hold; the same for `read`, where
  only more characters arrive.  `IsrInv` carries what the handler knows from its one
  control read: the space it saw is still there (`Len(wfifo) + space <= FIFO_DEPTH`,
  the host only takes), and characters left behind mean a full ring.  `ReadInv` and
  `ClockInv` say which waits can end how.  From it follow the two stream invariants,
  `TxArmed`, `RxArmed`, `BlockingComplete` and `LongTimeoutNeverExpires`;
  `TransmitImplementsStream` and `ReceiveImplementsStream` (every step is a step of
  `ByteStream` or leaves its variables alone); and `LineNeverDropped`.  The ring
  arithmetic is in lemmas of its own (`UsedAfterPut`, `UsedAfterTake`,
  `PlaceAfterTake`, `FreeRunFits`, ...).
* **FileDesc.** `IInv` adds `LockOrder`: where a locked device is shared, the holder is
  below the others.  This is what the scan that stops one short leaves of the
  comment's promise, and it is enough for `ExclusiveLock`: two holders would each have
  to be below the other.  `LockShutsOut`, `MarkCovers` and `Bookkeeping` use the high
  water mark.
* **Firmware.** `IInv` says that interrupts are off whenever a handler runs or the table
  changes, that `ienable` is within the mirror and the mirror within the registered
  handlers, except at reset.  `NoSpuriousInterrupt` holds with the mask clear; with it
  set a button's line may drop again.  `LedsShown`: the LED variable and its port stay 0
  or a power of two (`Shown`), for any number of LEDs: the shift doubles or falls off the end.
  `OneLed` counts the lit bits, so the proof shows that a power of two has one.
* **RmsScheduler.** `IInv` gives the rounds since each thread's last call as a function of
  the counter alone, on both sides of the wrap (`Stub`).  `GapBound`,
  `PeriodKept` and `RateMonotonic` follow for every width of the counter.
* **Alarm.** `ListStaysSound` takes the list as a ring of links through its head and the
  registered alarms (`Ring`, `Whole`), while an alarm outside it links to itself or nowhere
  (`Loose`), which is what makes a second stop harmless.  `CallsOnlyRegistered` and
  `AlarmsOnTime` are theorems of `CarefulSpec`, the second also under `DelaysKeptShort`, no
  delay of `WRAP - 1`; section 5 has what happens without.  `OwnAlarmsSpared`: under `OwnOnly`
  every behaviour of `Spec` is careful.  That a callback takes another alarm out of the ring
  in the middle of a tick makes none of the others be passed over is `AheadUnlinked`: what
  lies between the cursor and the head stays there.  For the refinement, `TimeInv` gives each alarm's ticks to go (`Due`) from its
  time, the counter and the flag, and shows that it survives the tick at which the
  counter turns.
* **DCache.** `CInv` adds to the two properties: a line is only in its own set, what the
  cache holds clean is what memory holds, and no byte of the uncached block is in the
  cache.  The last needs that blocks are whole lines (`BlockWhole`), and that is where the
  rounding in `alt_uncached_malloc` enters.  `GivenCovers` and `GivenAligned` are the flush loop's
  arithmetic: it names every line of a region, and of an aligned one no other.
* **Profiler.** The theorems are about `Open`, the specification without `MaxCalls` and
  `MaxBlocks`.  `WalkInv` says what the records look like as linked lists (a link leads to
  an older record, so every chain ends) and what an actor in the middle of `mcount` may
  rely on: the entry or arc it found is still there, under its key and in its chain,
  whatever the handler linked meanwhile.  `GraphRecords` (`CallsRecorded`) follows.  `GraphCounts`
  (`CountsHonest`) adds `CountInv`: no arc is in two entries' chains (`OneOwner`), and the
  count an actor has loaded is still the one in memory (`Exact`) unless `clash` says
  otherwise.  The chains and totals are recursive functions over the places of a sequence;
  what they give is shown from their equations, with a rule of induction for sets that
  `ProfilerProofs` proves first, by counting, as the library's take a predicate as a
  parameter.  `HeapApart`: `MemoryInv` says that records, histogram and blocks lie apart
  below the heap's end and beside what is left of the slab.  It holds as long as no `sbrk`
  failed whose -1 is used as an address (`MemoryLasts`; section 5 has the two lines that do
  not look).  `RoomSuffices` needs no word about failed requests: `sbrk` never lowers the end of the
  heap, so while a slab and a histogram would still fit below the limit (`Roomy`) each that
  was asked for did, and nothing overlaps.
* **DCache and Profiler in MCParts.** `CoherentHere`, `FlushCoversHere`, `CallsRecordedHere`,
  `CountsHonestHere`, `MemoryApartHere` and `RoomSufficesHere` carry these theorems to the specification
  that `parts` checks, whose steps are theirs when `part` is theirs.
* **BusySleep.** `DelaysKept`: after i long loops i times a long loop's microseconds are
  gone from `us`, which never wraps.  The rounds of every delay follow.
* **CaCode.** `RegistersNeverZero`: a one in stages 1 to 9 moves on, and a one in stage 10
  alone comes back into stage 1 through the feedback.  `CodesComplete` (`FullPeriod`) and
  `CodesToldApart` (`ToldApart`) are shown without running the registers.  What
  a register holds is a function of the number of shifts (`Orbit`), and the bits that leave
  it obey its feedback as a linear recurrence.  Substituted in itself the recurrence leaps
  16, 32, ... 1024 bits (`G1Leaps`, `G2Leaps`), and the last leap says that the bits repeat
  after 1023.  A shorter period would divide 1023 = 3 * 11 * 31 and so be one of 33, 93 and
  341 too (`ShorterPeriods`), and a bit that differs refutes each (`G1NotShorter`,
  `G2NotShorter`).  Hence 1023 shifts meet every value but zeros once (`CycleCounts`).  Of two
  different pairs of taps one has a stage the other has not, and to turn over its bit pairs
  the values that give both taps the same chip with those that do not; so 512 of the 1024
  tell them apart, and zeros is not among them (`HalfTell`).  `CodeInv` ties the registers
  and the counts in `differ` to the number of shifts.
* **TimeOfDay.** `ClocksRight`: `SetInv` says that `alt_resettime` is the time set less the
  ticks there had been, as seconds and microseconds that are borrowed apart, provided
  line 84's product did not wrap.  Reading adds the ticks of now; the lemmas are the
  arithmetic of division, remainder and carry between the two fields, in words that wrap.
* **DevRegistry.** `LastOwnersFound`: the code's comparison of lengths, characters and
  slashes is the same as being inside a mount point (`OwnsIsInside`), and the first match from
  the head of a list after an insertion is the new name if it matches and the old match otherwise
  (`MatchInserted`).  This is for any names and any number of registrations.
* **InstException.** `ExceptionsTransparent`, for every width of a word and every choice of
  operands without `sp` and `gp` (`InstExceptionAssumption`).  `Dividing` relates the registers after each turn of the division: what has come
  of the dividend is the quotient so far times the divisor and the remainder, and one word
  holds both the bits to come and, below them, the quotient.  `Multiplying` does the same for
  the two halves of a product, the low one built from the top of the multiplier and the
  high one from its bottom, with the carry out of each addition.  Signed forms are brought
  to these by the sign of each operand.  `ExceptionInv` says of every place in the handler
  that what the way out restores (`Restored`) is what the program is promised (`Leaves`).

Only model-checked:

* liveness, which TLAPS cannot prove as it does not reason about `ENABLED`: `TxDelivers`,
  `SendersReturn`, `ReaderWakes`, `OfflineReturns`, `UartServed`, `SwitchesShown`, and the
  fairness part of `KeepsTime`.

## 8. What is left

* The sampler's histogram beyond its memory.
* `times`, the time zone and the remapping of blocks, should the image come to use them.
