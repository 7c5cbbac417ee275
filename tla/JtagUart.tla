------------------------------ MODULE JtagUart ------------------------------
(***************************************************************************)
(* The console path of the firmware: the interrupt-driven Altera Avalon    *)
(* JTAG UART driver (fast variant) with the UART's registers and FIFOs.    *)
(*                                                                         *)
(* Four actors interleave: the only thread of the program (write, read,    *)
(* close, ioctl), the driver's interrupt handler, the host at the other    *)
(* end of the JTAG cable, and, in builds that have a system clock, the     *)
(* driver's once-a-second alarm.  The thread's steps are its accesses to   *)
(* state the handler shares; the handler pre-empts the thread between any  *)
(* two of them and the thread never pre-empts the handler.                 *)
(*                                                                         *)
(* A character is the position it has in its stream.  What the write calls *)
(* put in the transmit ring is 1, 2, ..., sent; what the host types is     *)
(* 1, 2, ..., typed.                                                       *)
(***************************************************************************)
EXTENDS Integers, Sequences

CONSTANTS
    BUF_LEN,          \* cells of rx_buf and of tx_buf
    FIFO_DEPTH,       \* characters in each hardware FIFO
    THRESHOLD,        \* fill level at which the UART raises its interrupts
    DEFAULT_TIMEOUT,  \* alarm ticks without a host before waits give up
    INT_MAX,          \* "no alarm: behave as though the host is present"
    HasClock,         \* does the build have a system clock?
    Counts,           \* lengths a caller may ask to write or read
    Timeouts,         \* values a caller may pass to TIOCSTIMEOUT
    MaxSent,          \* bound: characters offered by all write calls
    MaxTyped          \* bound: characters typed by the host

ASSUME UartAssumption ==
    /\ BUF_LEN \in Nat \ {0, 1}
    /\ FIFO_DEPTH \in Nat \ {0}
    /\ THRESHOLD \in Nat /\ THRESHOLD < FIFO_DEPTH
    /\ INT_MAX \in Nat /\ INT_MAX > 3
    /\ DEFAULT_TIMEOUT \in 2..(INT_MAX - 1)
    /\ HasClock \in BOOLEAN
    /\ Counts \subseteq Nat
    /\ Timeouts \subseteq Nat
    /\ MaxSent \in Nat /\ MaxTyped \in Nat

VARIABLES
    \* the UART
    wfifo, rfifo,     \* hardware FIFOs, towards and from the host
    ien,              \* interrupt enables of the control register
    pause_irq,        \* the host paused with characters left in rfifo
    ac,               \* host activity since the bit was last cleared
    woverflow,        \* the last data write found wfifo full
    \* struct altera_avalon_jtag_uart_state
    tx_buf, tx_in, tx_out,
    rx_buf, rx_in, rx_out,
    irq_enable, host_inactive, timeout,
    \* the thread: where it is, its locals and its last result
    pc, nonblock, want, done, in, out, n, ret,
    \* the interrupt handler: where it is and its locals
    isr, wi, ravail, space,
    \* history: what was accepted and what has arrived, per direction
    sent, shown,      \* by write; at the host
    typed, got        \* by the host; in the callers' read buffers

uartVars   == <<wfifo, rfifo, ien, pause_irq, ac, woverflow>>
txVars     == <<tx_buf, tx_in, tx_out>>
rxVars     == <<rx_buf, rx_in, rx_out>>
driverVars == <<irq_enable, host_inactive, timeout>>
threadVars == <<pc, nonblock, want, done, in, out, n, ret>>
isrVars    == <<isr, wi, ravail, space>>
history    == <<sent, shown, typed, got>>
vars == <<uartVars, txVars, rxVars, driverVars, threadVars, isrVars, history>>

-----------------------------------------------------------------------------
(* Ring arithmetic.  A ring is empty when its indices meet; one cell stays *)
(* free so that a full ring differs from an empty one.                     *)

Cells == 0..(BUF_LEN - 1)

Advance(i, k) == (i + k) % BUF_LEN

\* Cells from o forward to i: the characters a ring with these indices
\* holds, and the place in it of the cell i.
Used(i, o) == IF i >= o THEN i - o ELSE BUF_LEN - o + i

\* Longest run that can be copied in at i without wrapping or filling up.
FreeRunToLastCell(i, o) == IF i < o THEN o - i ELSE BUF_LEN - i
FreeRun(i, o) == IF i < o THEN o - 1 - i
                 ELSE IF o > 0 THEN BUF_LEN - i ELSE BUF_LEN - 1 - i

\* Longest run that can be copied out at o without wrapping.
UsedRun(i, o) == IF i >= o THEN i - o ELSE BUF_LEN - o

Least(a, b) == IF a <= b THEN a ELSE b

-----------------------------------------------------------------------------
(* Interrupt conditions of the UART, as the control register shows them.   *)

WI == "WE" \in ien /\ Len(wfifo) <= THRESHOLD

RIWithoutPause == "RE" \in ien /\ FIFO_DEPTH - Len(rfifo) <= THRESHOLD
RI == "RE" \in ien /\ (pause_irq \/ FIFO_DEPTH - Len(rfifo) <= THRESHOLD)

\* A write of irq_enable and of the control register, with nothing between.
SetEnables(mask) == irq_enable' = mask /\ ien' = mask

\* The host counts as present until host_inactive reaches timeout.
HostPresentAlways == TRUE
HostPresent == host_inactive < timeout

\* The default timeout counts only where there is a clock to count it with.
InitialTimeoutUnset == IF HasClock THEN DEFAULT_TIMEOUT ELSE 0
InitialTimeout == IF HasClock THEN DEFAULT_TIMEOUT ELSE INT_MAX

\* After altera_avalon_jtag_uart_init: read interrupts on, rings empty.
Init ==
    /\ wfifo = <<>> /\ rfifo = <<>>
    /\ ien = {"RE"} /\ irq_enable = {"RE"}
    /\ pause_irq = FALSE /\ ac = FALSE /\ woverflow = FALSE
    /\ tx_buf = [c \in Cells |-> 0] /\ tx_in = 0 /\ tx_out = 0
    /\ rx_buf = [c \in Cells |-> 0] /\ rx_in = 0 /\ rx_out = 0
    /\ host_inactive = 0
    /\ timeout = InitialTimeout
    /\ pc = "idle" /\ nonblock = FALSE /\ ret = 0
    /\ want = 0 /\ done = 0 /\ in = 0 /\ out = 0 /\ n = 0
    /\ isr = "off" /\ wi = FALSE /\ ravail = FALSE /\ space = 0
    /\ sent = 0 /\ shown = <<>> /\ typed = 0 /\ got = <<>>

-----------------------------------------------------------------------------
(* The thread.  It runs only while no handler does.                        *)

At(l) == pc = l /\ isr = "off"
Goto(l) == pc' = l

EIO == -5
EWOULDBLOCK == -11
ENOTTY == -25

\* read and write report what they moved, or why they moved nothing.
Result == IF done > 0 THEN done ELSE IF nonblock THEN EWOULDBLOCK ELSE EIO

\* The call is over and its locals with it.
Return(value) ==
    /\ Goto("idle") /\ ret' = value
    /\ nonblock' = FALSE /\ want' = 0 /\ done' = 0
    /\ in' = 0 /\ out' = 0 /\ n' = 0

Call(entry, count, nb) ==
    /\ At("idle")
    /\ Goto(entry) /\ ret' = 0
    /\ want' = count /\ nonblock' = nb
    /\ UNCHANGED <<uartVars, txVars, rxVars, driverVars, isrVars, history,
                   done, in, out, n>>

WriteCall == \E c \in Counts, nb \in BOOLEAN :
    sent + c <= MaxSent /\ Call("w_load", c, nb)

ReadCall == \E c \in Counts, nb \in BOOLEAN :
    Call(IF c > 0 THEN "r_load" ELSE "r_return", c, nb)

CloseCall == \E nb \in BOOLEAN : Call("c_wait", 0, nb)

\* Top of write's copy loop: tx_out is read once, the run computed from it.
WriteLoad ==
    /\ At("w_load")
    /\ IF want = 0
       THEN Goto("w_kick") /\ UNCHANGED <<in, out, n>>
       ELSE LET run == FreeRun(tx_in, tx_out) IN
            /\ in' = tx_in /\ out' = tx_out
            /\ n' = Least(run, want)
            /\ Goto(IF run = 0 THEN "w_kick" ELSE "w_copy")
    /\ UNCHANGED <<uartVars, txVars, rxVars, driverVars, isrVars, history,
                   nonblock, want, done, ret>>

\* memcpy into the free run: characters sent+1 .. sent+n.
WriteCopy ==
    /\ At("w_copy")
    /\ tx_buf' = [c \in Cells |-> IF c \in in..(in + n - 1)
                                  THEN sent + 1 + (c - in) ELSE tx_buf[c]]
    /\ Goto("w_publish")
    /\ UNCHANGED <<uartVars, tx_in, tx_out, rxVars, driverVars, isrVars,
                   history, nonblock, want, done, in, out, n, ret>>

\* From here on the handler may send what was copied.
WritePublish ==
    /\ At("w_publish")
    /\ tx_in' = Advance(in, n)
    /\ sent' = sent + n
    /\ want' = want - n /\ done' = done + n
    /\ Goto("w_load")
    /\ UNCHANGED <<uartVars, tx_buf, tx_out, rxVars, driverVars, isrVars,
                   shown, typed, got, nonblock, in, out, n, ret>>

KickedNot == irq_enable
KickedOnly == {"WE"}
Kicked == irq_enable \union {"WE"}

\* With interrupts disabled: turn the transmit interrupt on.
WriteKick ==
    /\ At("w_kick")
    /\ SetEnables(Kicked)
    /\ Goto(IF want > 0 /\ ~nonblock THEN "w_spin" ELSE "w_return")
    /\ UNCHANGED <<wfifo, rfifo, pause_irq, ac, woverflow, txVars, rxVars,
                   host_inactive, timeout, isrVars, history,
                   nonblock, want, done, in, out, n, ret>>

\* Leaving the wait: room was made, or the host is taken for absent.
WriteSpin ==
    /\ At("w_spin")
    /\ out # tx_out \/ ~HostPresent
    /\ Goto("w_test")
    /\ UNCHANGED <<uartVars, txVars, rxVars, driverVars, isrVars, history,
                   nonblock, want, done, in, out, n, ret>>

\* Any inactivity at all, not a full timeout, ends the call here.
WriteTest ==
    /\ At("w_test")
    /\ Goto(IF host_inactive > 0 THEN "w_return" ELSE "w_load")
    /\ UNCHANGED <<uartVars, txVars, rxVars, driverVars, isrVars, history,
                   nonblock, want, done, in, out, n, ret>>

WriteReturn ==
    /\ At("w_return")
    /\ Return(Result)
    /\ UNCHANGED <<uartVars, txVars, rxVars, driverVars, isrVars, history>>

\* Top of read's copy loop: rx_in is read once, the run computed from it.
ReadLoad ==
    /\ At("r_load")
    /\ LET run == UsedRun(rx_in, rx_out) IN
       /\ in' = rx_in /\ out' = rx_out
       /\ n' = Least(run, want)
       /\ Goto(IF run > 0 THEN "r_copy"
               ELSE IF done > 0 THEN "r_enable"
               ELSE IF nonblock THEN "r_return" ELSE "r_spin")
    /\ UNCHANGED <<uartVars, txVars, rxVars, driverVars, isrVars, history,
                   nonblock, want, done, ret>>

\* memcpy out of the ring into the caller's buffer.
ReadCopy ==
    /\ At("r_copy")
    /\ got' = got \o [k \in 1..n |-> rx_buf[out + k - 1]]
    /\ Goto("r_publish")
    /\ UNCHANGED <<uartVars, txVars, rxVars, driverVars, isrVars, sent, shown,
                   typed, nonblock, want, done, in, out, n, ret>>

\* From here on the handler may reuse the cells.
ReadPublish ==
    /\ At("r_publish")
    /\ rx_out' = Advance(out, n)
    /\ want' = want - n /\ done' = done + n
    /\ Goto(IF want > n THEN "r_load" ELSE "r_enable")
    /\ UNCHANGED <<uartVars, txVars, rx_buf, rx_in, driverVars, isrVars,
                   history, nonblock, in, out, n, ret>>

ReadSpin ==
    /\ At("r_spin")
    /\ in # rx_in \/ ~HostPresent
    /\ Goto("r_test")
    /\ UNCHANGED <<uartVars, txVars, rxVars, driverVars, isrVars, history,
                   nonblock, want, done, in, out, n, ret>>

ReadTest ==
    /\ At("r_test")
    /\ Goto(IF in = rx_in THEN "r_return" ELSE "r_load")
    /\ UNCHANGED <<uartVars, txVars, rxVars, driverVars, isrVars, history,
                   nonblock, want, done, in, out, n, ret>>

Receiving == irq_enable \union {"RE"}

\* With interrupts disabled: there is room again, so receive again.
ReadEnable ==
    /\ At("r_enable")
    /\ SetEnables(Receiving)
    /\ Goto("r_return")
    /\ UNCHANGED <<wfifo, rfifo, pause_irq, ac, woverflow, txVars, rxVars,
                   host_inactive, timeout, isrVars, history,
                   nonblock, want, done, in, out, n, ret>>

ReadReturn ==
    /\ At("r_return")
    /\ Return(Result)
    /\ UNCHANGED <<uartVars, txVars, rxVars, driverVars, isrVars, history>>

\* close waits for the transmit ring, not for the FIFO behind it.
CloseWait ==
    /\ At("c_wait")
    /\ \/ (tx_out = tx_in \/ ~HostPresent) /\ Return(0)
       \/ tx_out # tx_in /\ HostPresent /\ nonblock /\ Return(EWOULDBLOCK)
    /\ UNCHANGED <<uartVars, txVars, rxVars, driverVars, isrVars, history>>

\* TIOCSTIMEOUT; refused for good when there is no clock.
SetTimeout == \E t \in Timeouts :
    /\ At("idle")
    /\ IF timeout = INT_MAX
       THEN ret' = ENOTTY /\ UNCHANGED timeout
       ELSE /\ ret' = 0
            /\ timeout' = IF t >= 2 /\ t < INT_MAX THEN t ELSE INT_MAX - 1
    /\ UNCHANGED <<uartVars, txVars, rxVars, irq_enable, host_inactive, pc,
                   nonblock, want, done, in, out, n, isrVars, history>>

-----------------------------------------------------------------------------
(* The interrupt handler, altera_avalon_jtag_uart_irq.                     *)

IsrEnter ==
    /\ isr = "off"
    /\ WI \/ RI
    /\ isr' = "control"
    /\ UNCHANGED <<uartVars, txVars, rxVars, driverVars, threadVars, history,
                   wi, ravail, space>>

\* WSPACE of the control register.
WSpaceUnread == FIFO_DEPTH
WSpace == FIFO_DEPTH - Len(wfifo)

\* One read of the control register decides the whole iteration.
IsrControl ==
    /\ isr = "control"
    /\ isr' = IF RI THEN "rx" ELSE IF WI THEN "tx" ELSE "off"
    /\ wi' = WI
    /\ space' = IF WI THEN WSpace ELSE 0
    /\ ravail' = RI
    /\ UNCHANGED <<uartVars, txVars, rxVars, driverVars, threadVars, history>>

RxNeverFull == FALSE
RxFull == Advance(rx_in, 1) = rx_out

\* A data read that finds a character: RVALID, and RAVAIL counts the rest.
IsrRxTake ==
    /\ isr = "rx" /\ ~RxFull /\ rfifo # <<>>
    /\ rx_buf' = [rx_buf EXCEPT ![rx_in] = Head(rfifo)]
    /\ rx_in' = Advance(rx_in, 1)
    /\ rfifo' = Tail(rfifo)
    /\ ravail' = (Len(rfifo) > 1)
    /\ pause_irq' = FALSE
    /\ UNCHANGED <<wfifo, ien, ac, woverflow, txVars, rx_out, driverVars,
                   threadVars, isr, wi, space, history>>

\* A data read that finds rfifo empty.
IsrRxNone ==
    /\ isr = "rx" /\ ~RxFull /\ rfifo = <<>>
    /\ ravail' = FALSE
    /\ pause_irq' = FALSE
    /\ isr' = "rx_end"
    /\ UNCHANGED <<wfifo, rfifo, ien, ac, woverflow, txVars, rxVars,
                   driverVars, threadVars, wi, space, history>>

\* No cell is free: nothing may be read, it would be lost.
IsrRxFull ==
    /\ isr = "rx" /\ RxFull
    /\ isr' = "rx_end"
    /\ UNCHANGED <<uartVars, txVars, rxVars, driverVars, threadVars, history,
                   wi, ravail, space>>

LeftBehindAlways == TRUE
LeftBehind == ravail

\* Characters left behind mean the ring is full: stop receiving.
IsrRxEnd ==
    /\ isr = "rx_end"
    /\ isr' = IF wi THEN "tx" ELSE "control"
    /\ IF LeftBehind THEN SetEnables(irq_enable \ {"RE"})
                     ELSE UNCHANGED <<irq_enable, ien>>
    /\ ravail' = FALSE
    /\ UNCHANGED <<wfifo, rfifo, pause_irq, ac, woverflow, txVars, rxVars,
                   host_inactive, timeout, threadVars, wi, space, history>>

\* A data write; the UART drops it, and says so, when wfifo is full.
IsrTxPut ==
    /\ isr = "tx" /\ space > 0 /\ tx_out # tx_in
    /\ LET full == Len(wfifo) = FIFO_DEPTH IN
       /\ woverflow' = full
       /\ wfifo' = IF full THEN wfifo ELSE Append(wfifo, tx_buf[tx_out])
    /\ tx_out' = Advance(tx_out, 1)
    /\ space' = space - 1
    /\ UNCHANGED <<rfifo, ien, pause_irq, ac, tx_buf, tx_in, rxVars,
                   driverVars, threadVars, isr, wi, ravail, history>>

NothingLeftAlways == TRUE
NothingLeft == space > 0

\* Space left over means the ring is empty: stop transmitting.
IsrTxEnd ==
    /\ isr = "tx" /\ (space = 0 \/ tx_out = tx_in)
    /\ isr' = "control"
    /\ IF NothingLeft THEN SetEnables(irq_enable \ {"WE"})
                      ELSE UNCHANGED <<irq_enable, ien>>
    /\ wi' = FALSE /\ space' = 0
    /\ UNCHANGED <<wfifo, rfifo, pause_irq, ac, woverflow, txVars, rxVars,
                   host_inactive, timeout, threadVars, ravail, history>>

InactiveLimitReached == INT_MAX - 1
InactiveLimit == INT_MAX - 2

\* The alarm, altera_avalon_jtag_uart_timeout, called from the timer's
\* handler: clears the activity bit or counts one more tick without it.
Alarm ==
    /\ HasClock /\ isr = "off"
    /\ IF ac
       THEN /\ ac' = FALSE /\ ien' = irq_enable
            /\ host_inactive' = 0
       ELSE /\ host_inactive' = IF host_inactive < InactiveLimit
                                THEN host_inactive + 1 ELSE host_inactive
            /\ UNCHANGED <<ac, ien>>
    /\ UNCHANGED <<wfifo, rfifo, pause_irq, woverflow, txVars, rxVars,
                   irq_enable, timeout, threadVars, isrVars, history>>

-----------------------------------------------------------------------------
(* The host, through the UART's Atlantic port.                             *)

\* The host takes a character.  This does not count as activity.
HostTake ==
    /\ wfifo # <<>>
    /\ shown' = Append(shown, Head(wfifo))
    /\ wfifo' = Tail(wfifo)
    /\ UNCHANGED <<rfifo, ien, pause_irq, ac, woverflow, txVars, rxVars,
                   driverVars, threadVars, isrVars, sent, typed, got>>

\* The host types; it is held back while rfifo is full.
HostPut ==
    /\ Len(rfifo) < FIFO_DEPTH /\ typed < MaxTyped
    /\ typed' = typed + 1
    /\ rfifo' = Append(rfifo, typed + 1)
    /\ ac' = TRUE
    /\ UNCHANGED <<wfifo, ien, pause_irq, woverflow, txVars, rxVars,
                   driverVars, threadVars, isrVars, sent, shown, got>>

\* The host has nothing more for now.
HostPause ==
    /\ ac' = TRUE
    /\ pause_irq' = (pause_irq \/ rfifo # <<>>)
    /\ UNCHANGED <<wfifo, rfifo, ien, woverflow, txVars, rxVars, driverVars,
                   threadVars, isrVars, history>>

-----------------------------------------------------------------------------
\* What the thread does once called; whether it makes a call is its choice.
Thread == \/ WriteLoad \/ WriteCopy \/ WritePublish \/ WriteKick
          \/ WriteSpin \/ WriteTest \/ WriteReturn
          \/ ReadLoad \/ ReadCopy \/ ReadPublish
          \/ ReadSpin \/ ReadTest \/ ReadEnable \/ ReadReturn
          \/ CloseWait

Calls == WriteCall \/ ReadCall \/ CloseCall \/ SetTimeout

Isr == \/ IsrEnter \/ IsrControl
       \/ IsrRxTake \/ IsrRxNone \/ IsrRxFull \/ IsrRxEnd
       \/ IsrTxPut \/ IsrTxEnd

Host == HostTake \/ HostPut \/ HostPause

Next == Calls \/ Thread \/ Isr \/ Alarm \/ Host

Spec == Init /\ [][Next]_vars

\* The processor keeps executing and takes pending interrupts; a connected
\* host keeps draining its end and pausing after what it typed.
ProcessorFairness == WF_vars(Thread) /\ WF_vars(Isr)
HostFairness      == WF_vars(HostTake) /\ WF_vars(HostPause)

LiveSpec == Spec /\ ProcessorFairness /\ HostFairness

\* With a system clock, whose ticks keep coming; nothing is asked of the host.
ClockSpec == Spec /\ ProcessorFairness /\ WF_vars(Alarm)

-----------------------------------------------------------------------------
(* Correctness.                                                            *)

\* Types, and the values each control point can have.
UartTypes ==
    /\ wfifo \in Seq(Nat) /\ rfifo \in Seq(Nat)
    /\ Len(wfifo) <= FIFO_DEPTH /\ Len(rfifo) <= FIFO_DEPTH
    /\ ien \subseteq {"RE", "WE"}
    /\ pause_irq \in BOOLEAN /\ ac \in BOOLEAN /\ woverflow \in BOOLEAN
RingTypes ==
    /\ tx_buf \in [Cells -> Nat] /\ tx_in \in Cells /\ tx_out \in Cells
    /\ rx_buf \in [Cells -> Nat] /\ rx_in \in Cells /\ rx_out \in Cells
DriverTypes ==
    /\ irq_enable \subseteq {"RE", "WE"}
    /\ host_inactive \in Nat /\ timeout \in Nat
ThreadTypes ==
    /\ pc \in {"idle", "w_load", "w_copy", "w_publish", "w_kick", "w_spin",
               "w_test", "w_return", "r_load", "r_copy", "r_publish",
               "r_spin", "r_test", "r_enable", "r_return", "c_wait"}
    /\ nonblock \in BOOLEAN /\ want \in Nat /\ done \in Nat /\ ret \in Int
    /\ in \in Cells /\ out \in Cells /\ n \in Nat
IsrTypes ==
    /\ isr \in {"off", "control", "rx", "rx_end", "tx"}
    /\ wi \in BOOLEAN /\ ravail \in BOOLEAN /\ space \in 0..FIFO_DEPTH
HistoryTypes ==
    /\ sent \in Nat /\ typed \in Nat
    /\ shown \in Seq(Nat) /\ got \in Seq(Nat)
TypeOK == /\ UartTypes /\ RingTypes /\ DriverTypes
          /\ ThreadTypes /\ IsrTypes /\ HistoryTypes

\* Every character a write call accepted is at the host, in the FIFO or in
\* the ring, once and in order, whatever the handler and the thread do to
\* the two indices between them (write.c:100-127, init.c:169-184).
TxStream ==
    LET seen == Len(shown)
        left == Len(shown) + Len(wfifo)
    IN /\ \A k \in 1..Len(shown) : shown[k] = k
       /\ \A k \in 1..Len(wfifo) : wfifo[k] = seen + k
       /\ \A c \in Cells : Used(c, tx_out) < Used(tx_in, tx_out)
                            => tx_buf[c] = left + Used(c, tx_out) + 1
       /\ sent = left + Used(tx_in, tx_out)

\* Every character the host typed is in the FIFO, in the ring or with a
\* reader, once and in order: a full ring loses nothing and a wrapped copy
\* repeats nothing (read.c:120-142, init.c:125-167).
RxStream ==
    LET copied == IF pc = "r_publish" THEN n ELSE 0
        taken  == Len(got) - copied
        left   == taken + Used(rx_in, rx_out)
    IN /\ \A k \in 1..Len(got) : got[k] = k
       /\ \A c \in Cells : Used(c, rx_out) < Used(rx_in, rx_out)
                            => rx_buf[c] = taken + Used(c, rx_out) + 1
       /\ \A k \in 1..Len(rfifo) : rfifo[k] = left + k
       /\ typed = left + Len(rfifo)

\* The handler never writes to a full FIFO, although it works from the
\* space the control register showed before its first write (init.c:172).
NoOverflow == ~woverflow

\* Characters in the transmit ring are never stranded: the transmit
\* interrupt is on, or a write call is on its way to turn it on, although
\* the handler turns it off when it finds the ring empty (init.c:186-194,
\* write.c:136-139).
TxArmed ==
    tx_in # tx_out => \/ "WE" \in irq_enable
                      \/ pc \in {"w_load", "w_copy", "w_publish", "w_kick"}

\* Receiving stays off only while the ring is full, or until the read call
\* that made room turns it on again (init.c:156-166, read.c:188-195).
RxArmed ==
    "RE" \notin irq_enable =>
        \/ RxFull
        \/ done > 0 /\ pc \in {"r_load", "r_copy", "r_publish", "r_enable"}

\* Where no alarm can be started, a blocking write returns only when all of
\* its characters are in the ring, and a blocking read of at least one
\* character never returns without any (init.c:89-96).
BlockingComplete ==
    ~HasClock /\ ~nonblock =>
        /\ pc = "w_return" => want = 0
        /\ pc = "r_return" => want = 0 \/ done > 0

\* The timeout an invalid TIOCSTIMEOUT argument selects is out of the
\* alarm's reach (ioctl.c:65, init.c:215).
LongTimeoutNeverExpires == timeout >= INT_MAX - 1 => HostPresent

\* Both directions are bounded ordered streams.
Tx == INSTANCE ByteStream WITH
          Capacity <- BUF_LEN - 1 + FIFO_DEPTH,
          accepted <- sent, delivered <- shown
Rx == INSTANCE ByteStream WITH
          Capacity <- BUF_LEN - 1 + FIFO_DEPTH,
          accepted <- typed, delivered <- got

\* Transmission implements the stream: nothing reaches the host that was not
\* accepted, never out of order, never more in flight than ring and FIFO
\* hold (write.c:83-127, init.c:169-184, nios_cpu_jtag_uart.v:503).
TxImplementsStream == Tx!Spec

\* Reception implements the stream (init.c:125-154, read.c:119-142).
RxImplementsStream == Rx!Spec

\* With a host that drains its end, every accepted character arrives there:
\* no order of kicks and interrupts leaves the ring waiting.
TxDelivers == Tx!LiveSpec

Writing == pc \in {"w_load", "w_copy", "w_publish", "w_kick", "w_spin",
                   "w_test", "w_return"}
Closing == pc = "c_wait"

\* A write or a close always returns when the host drains its end, without
\* any clock to time out with (write.c:183, init.c:247).
SendersReturn == /\ Writing ~> ~Writing
                 /\ Closing ~> ~Closing

\* A read call that waits is woken by whatever the host typed (read.c:173).
ReaderWakes == (pc = "r_spin" /\ typed > Len(got)) ~> pc # "r_spin"

\* With a clock no call waits for ever for a host that has fallen silent, or
\* was never there, whatever it did before; only the longest timeout, out of
\* the alarm's reach, waits on (init.c:203-225, 243-247).
OfflineReturns ==
    <>[][~Host]_vars =>
        (pc # "idle" /\ timeout < INT_MAX - 1 ~> pc = "idle")

\* An interrupt that is requested stays requested until the handler has read
\* the control register: no kick, re-enabling or alarm between the two takes
\* it away, which the processor would treat as a fatal exception
\* (write.c:136-139, read.c:188-191, alt_exception_entry.S:325).
InterruptHeld ==
    [][(WI \/ RI) /\ {isr, isr'} \subseteq {"off", "control"}
          => (WI \/ RI)']_vars

-----------------------------------------------------------------------------
(* The inductive invariant: what each control point relies on.             *)

\* A run being copied stays inside the array and inside the free (used) part
\* of the ring, although the handler moves the other index meanwhile.
CopyInv ==
    /\ pc \in {"w_copy", "w_publish"} =>
           /\ in = tx_in /\ n \in 1..want
           /\ in + n <= BUF_LEN /\ Used(tx_in, tx_out) + n < BUF_LEN
    /\ pc = "w_publish" =>
           \A c \in in..(in + n - 1) : tx_buf[c] = sent + 1 + (c - in)
    /\ pc \in {"r_copy", "r_publish"} =>
           /\ out = rx_out /\ n \in 1..want
           /\ out + n <= BUF_LEN /\ n <= Used(rx_in, rx_out)

\* What a waiting or returning read knows.
ReadInv ==
    /\ pc = "idle" => done = 0
    /\ pc \in {"r_load", "r_spin", "r_test"} => want > 0
    /\ pc \in {"r_spin", "r_test"} => in = rx_out /\ ~nonblock
    /\ pc = "r_test" /\ ~HasClock => rx_in # rx_out
    /\ pc = "r_enable" => done > 0

\* What the handler knows; and the control register is what was written.
IsrInv ==
    /\ ien = irq_enable
    /\ isr = "rx" => "RE" \in irq_enable
    /\ isr = "rx_end" /\ ravail => RxFull
    /\ Len(wfifo) + space <= FIFO_DEPTH

ClockInv ==
    /\ host_inactive <= INT_MAX - 2
    /\ ~HasClock => timeout = INT_MAX /\ host_inactive = 0

IInv == /\ TypeOK /\ CopyInv /\ ReadInv /\ IsrInv /\ ClockInv
        /\ TxStream /\ RxStream
        /\ NoOverflow /\ TxArmed /\ RxArmed /\ BlockingComplete
=============================================================================
