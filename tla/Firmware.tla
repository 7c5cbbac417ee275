------------------------------ MODULE Firmware ------------------------------
(***************************************************************************)
(* The firmware from reset to its endless loop: the HAL's interrupt        *)
(* controller support and dispatcher, the boot sequence, main and the push *)
(* button's interrupt handler, with the processor's interrupt registers    *)
(* and the devices that raise interrupts.                                  *)
(*                                                                         *)
(* A step of the thread is a write of a register or variable the           *)
(* interrupt side depends on.  The console UART is reduced to what matters *)
(* here, its interrupt line and the fill of its transmit ring: JtagUart    *)
(* models it in full, and its InterruptHeld is what UartLine relies on.    *)
(***************************************************************************)
EXTENDS Integers

CONSTANTS
    Buttons,      \* bits of the push button port
    IrqMasks,     \* what the port's interrupt mask may hold: {} out of reset,
                  \* and for good in the image, or what another main would set
    LED_WIDTH,    \* bits of the green LED port
    RING,         \* pieces of output the UART's transmit ring holds
    MaxTyped      \* bound: times the host types

ASSUME FirmwareAssumption ==
    /\ 0 \in Buttons
    /\ IrqMasks \subseteq SUBSET Buttons
    /\ LED_WIDTH \in Nat \ {0}
    /\ RING \in Nat \ {0}
    /\ MaxTyped \in Nat

VARIABLES
    \* the processor: status.PIE and ienable
    pie, ienable,
    \* the HAL: alt_irq_active and the table of handlers
    active, handler,
    \* the UART: receive and transmit interrupts on, input waiting, FIFO
    \* taking output, the driver's transmit ring; input so far
    re, we, rx, room, ring, typed,
    \* the ports
    buttons, irqMask, switches, led, red,
    \* the thread: where it is, in which alt_irq_init, its saved status
    pc, phase, saved, in,
    \* the exception handler: where it is, what pushBtnIsr read
    isr, ledOut

cpuVars    == <<pie, ienable>>
halVars    == <<active, handler>>
uartVars   == <<re, we, rx, room, ring, typed>>
portVars   == <<buttons, irqMask, switches, led, red>>
threadVars == <<pc, phase, saved, in>>
isrVars    == <<isr, ledOut>>
vars == <<cpuVars, halVars, uartVars, portVars, threadVars, isrVars>>

JTAG_UART_IRQ == 0
PUSH_BTNS_IRQ == 1
Irqs == {JTAG_UART_IRQ, PUSH_BTNS_IRQ}

Leds == 0..(2^LED_WIDTH - 1)

\* The interrupt lines are levels.
UartLine == (re /\ rx) \/ (we /\ room)

ButtonLineUnmasked == buttons # {}
ButtonLine == buttons \cap irqMask # {}

\* ipending: the lines the processor lets through.
Pending == {i \in ienable : \/ i = JTAG_UART_IRQ /\ UartLine
                            \/ i = PUSH_BTNS_IRQ /\ ButtonLine}

\* At the entry of alt_main.  A download may leave any value in ienable.
Init ==
    /\ pie = FALSE /\ ienable \in SUBSET Irqs
    /\ active = {} /\ handler = [i \in Irqs |-> "none"]
    /\ re = FALSE /\ we = FALSE /\ rx = FALSE /\ room = TRUE
    /\ ring = 0 /\ typed = 0
    /\ buttons \in SUBSET Buttons /\ irqMask \in IrqMasks
    /\ switches \in BOOLEAN
    /\ led = 0 /\ red = FALSE
    /\ pc = "init_mask" /\ phase = "boot" /\ saved = FALSE /\ in = FALSE
    /\ isr = "off" /\ ledOut = 0

-----------------------------------------------------------------------------
(* The thread.                                                             *)

At(l) == pc = l /\ isr = "off"

\* alt_irq_init: no interrupt is enabled; alt_irq_active stays as it was.
IrqInitMirrorCleared == {}
IrqInitMirror == active
IrqInitEnableKept == ienable
IrqInitEnable == {}

InitMask ==
    /\ At("init_mask")
    /\ ienable' = IrqInitEnable /\ active' = IrqInitMirror
    /\ pc' = "init_unmask"
    /\ UNCHANGED <<pie, handler, uartVars, portVars, phase, saved, in, isrVars>>

\* alt_irq_cpu_enable_interrupts.
InitUnmask ==
    /\ At("init_unmask")
    /\ pie' = TRUE
    /\ pc' = IF phase = "boot" THEN "uart_init" ELSE "reg_off"
    /\ UNCHANGED <<ienable, halVars, uartVars, portVars, phase, saved, in, isrVars>>

\* altera_avalon_jtag_uart_init up to the registration of its handler.
UartInit ==
    /\ At("uart_init")
    /\ re' = TRUE
    /\ pc' = "reg_off"
    /\ UNCHANGED <<cpuVars, halVars, we, rx, room, ring, typed, portVars,
                   phase, saved, in, isrVars>>

\* Which interrupt is being registered, and for whom.
RegIrq == IF phase = "boot" THEN JTAG_UART_IRQ ELSE PUSH_BTNS_IRQ
RegHandler == IF phase = "boot" THEN "uart" ELSE "pushBtnIsr"

\* alt_iic_isr_register: disable everything, ...
RegOff ==
    /\ At("reg_off")
    /\ saved' = pie /\ pie' = FALSE
    /\ pc' = "reg_table"
    /\ UNCHANGED <<ienable, halVars, uartVars, portVars, phase, in, isrVars>>

\* ... fill in the table, ...
RegTable ==
    /\ At("reg_table")
    /\ handler' = [handler EXCEPT ![RegIrq] = RegHandler]
    /\ pc' = "reg_enable"
    /\ UNCHANGED <<cpuVars, active, uartVars, portVars, phase, saved, in, isrVars>>

\* ... enable the one interrupt, in a section nested in this one, ...
NestedRestoreOn == TRUE
NestedRestore == pie
EnabledWith(mirror) == mirror

RegEnable ==
    /\ At("reg_enable")
    /\ active' = active \union {RegIrq}
    /\ ienable' = EnabledWith(active')
    /\ pie' = NestedRestore
    /\ pc' = "reg_on"
    /\ UNCHANGED <<handler, uartVars, portVars, phase, saved, in, isrVars>>

\* ... and restore.
RegOn ==
    /\ At("reg_on")
    /\ pie' = saved
    /\ pc' = IF phase = "boot" THEN "leds" ELSE "print"
    /\ UNCHANGED <<ienable, halVars, uartVars, portVars, phase, saved, in, isrVars>>

\* main: the first LED, then interrupts are initialised once more.
Leds1 ==
    /\ At("leds")
    /\ led' = 1
    /\ pc' = "init_mask" /\ phase' = "main"
    /\ UNCHANGED <<cpuVars, halVars, uartVars, buttons, irqMask, switches, red,
                   saved, in, isrVars>>

\* A write on the console waits until the transmit ring has room.
Output == ring < RING /\ ring' = ring + 1 /\ we' = TRUE

PrintResult ==
    /\ At("print")
    /\ Output
    /\ pc' = "read"
    /\ UNCHANGED <<cpuVars, halVars, re, rx, room, typed, portVars,
                   phase, saved, in, isrVars>>

\* The endless loop, less its usleep.
ReadSwitches ==
    /\ At("read")
    /\ in' = switches
    /\ pc' = "show"
    /\ UNCHANGED <<cpuVars, halVars, uartVars, portVars, phase, saved, isrVars>>

ShowSwitches ==
    /\ At("show")
    /\ red' = in
    /\ pc' = "read"
    /\ UNCHANGED <<cpuVars, halVars, uartVars, buttons, irqMask, switches, led,
                   phase, saved, in, isrVars>>

-----------------------------------------------------------------------------
(* The exception handler.                                                  *)

\* The processor takes the interrupt and clears PIE.
Interrupt ==
    /\ isr = "off" /\ pie /\ Pending # {}
    /\ isr' = "entry" /\ pie' = FALSE
    /\ UNCHANGED <<ienable, halVars, uartVars, portVars, threadVars, ledOut>>

\* alt_irq_entry: with nothing pending this is no interrupt, and nobody
\* handles any other exception.
IrqEntry ==
    /\ isr = "entry"
    /\ isr' = IF Pending = {} THEN "trap" ELSE "first"
    /\ UNCHANGED <<cpuVars, halVars, uartVars, portVars, threadVars, ledOut>>

\* The handler of the lowest pending interrupt.
Dispatch(otherwise) ==
    IF Pending = {} THEN isr' = otherwise
    ELSE \E i \in Pending : /\ \A j \in Pending : i <= j
                            /\ isr' = handler[i]

\* alt_irq_handler's first read of ipending: its search for a bit that is
\* set does not end if there is none.
FirstPending ==
    /\ isr = "first"
    /\ Dispatch("spin")
    /\ UNCHANGED <<cpuVars, halVars, uartVars, portVars, threadVars, ledOut>>

\* The read after a handler returned; eret restores PIE.
MorePending ==
    /\ isr = "more"
    /\ Dispatch("off")
    /\ pie' = (Pending = {})
    /\ UNCHANGED <<ienable, halVars, uartVars, portVars, threadVars, ledOut>>

\* The UART driver's handler: input is taken, output moved into the FIFO,
\* and the transmit interrupt turned off with the ring empty.
UartIsr ==
    /\ isr = "uart"
    /\ rx' = FALSE
    /\ LET moved == IF we /\ room /\ ring > 0 THEN 1 ELSE 0 IN
       /\ ring' = ring - moved
       /\ room' = (room /\ moved = 0)
       /\ we' = (we /\ ring' > 0)
    /\ isr' = "more"
    /\ UNCHANGED <<cpuVars, halVars, re, typed, portVars, threadVars, ledOut>>

\* pushBtnIsr reads both ports, ...
ButtonRead ==
    /\ isr = "pushBtnIsr"
    /\ ledOut' = led
    /\ isr' = IF buttons = {0} THEN "button_led" ELSE "button_print"
    /\ UNCHANGED <<cpuVars, halVars, uartVars, portVars, threadVars>>

\* ... lights the next LED (the port drops the bits it has not), ...
ShiftedOneIn(l) == (l * 2 + 1) % 2^LED_WIDTH
Shifted(l) == (l * 2) % 2^LED_WIDTH

ButtonLed ==
    /\ isr = "button_led"
    /\ led' = Shifted(ledOut)
    /\ isr' = "button_print"
    /\ UNCHANGED <<cpuVars, halVars, uartVars, buttons, irqMask, switches, red,
                   threadVars, ledOut>>

\* ... and prints: stdio keeps the text or has to write it out.
ButtonPrint ==
    /\ isr = "button_print"
    /\ \/ isr' = "more" /\ UNCHANGED <<ring, we>>
       \/ Output /\ isr' = "more"
       \/ ring = RING /\ isr' = "button_wait" /\ UNCHANGED <<ring, we>>
    /\ UNCHANGED <<cpuVars, halVars, re, rx, room, typed, portVars,
                   threadVars, ledOut>>

-----------------------------------------------------------------------------
(* The world outside.                                                      *)

HostType ==
    /\ typed < MaxTyped
    /\ rx' = TRUE /\ typed' = typed + 1
    /\ UNCHANGED <<cpuVars, halVars, re, we, room, ring, portVars,
                   threadVars, isrVars>>

HostDrain ==
    /\ ~room
    /\ room' = TRUE
    /\ UNCHANGED <<cpuVars, halVars, re, we, rx, ring, typed, portVars,
                   threadVars, isrVars>>

Press ==
    /\ buttons' \in SUBSET Buttons
    /\ UNCHANGED <<cpuVars, halVars, uartVars, irqMask, switches, led, red,
                   threadVars, isrVars>>

Switch ==
    /\ switches' = ~switches
    /\ UNCHANGED <<cpuVars, halVars, uartVars, buttons, irqMask, led, red,
                   threadVars, isrVars>>

-----------------------------------------------------------------------------
Registration == RegOff \/ RegTable \/ RegEnable \/ RegOn

Thread == \/ InitMask \/ InitUnmask \/ UartInit \/ Registration
          \/ Leds1 \/ PrintResult \/ ReadSwitches \/ ShowSwitches

Handler == \/ Interrupt \/ IrqEntry \/ FirstPending \/ MorePending
           \/ UartIsr \/ ButtonRead \/ ButtonLed \/ ButtonPrint

World == HostType \/ HostDrain \/ Press \/ Switch

Next == Thread \/ Handler \/ World

Spec == Init /\ [][Next]_vars

\* The processor keeps executing and takes interrupts, and the host keeps
\* reading what the UART sends.
LiveSpec == Spec /\ WF_vars(Thread) /\ WF_vars(Handler) /\ WF_vars(HostDrain)

-----------------------------------------------------------------------------
(* Correctness.                                                            *)

TypeOK ==
    /\ pie \in BOOLEAN /\ ienable \subseteq Irqs
    /\ active \subseteq Irqs
    /\ handler \in [Irqs -> {"none", "uart", "pushBtnIsr"}]
    /\ re \in BOOLEAN /\ we \in BOOLEAN /\ rx \in BOOLEAN /\ room \in BOOLEAN
    /\ ring \in 0..RING /\ typed \in 0..MaxTyped
    /\ buttons \subseteq Buttons /\ irqMask \in IrqMasks
    /\ switches \in BOOLEAN
    /\ led \in Leds /\ red \in BOOLEAN
    /\ pc \in {"init_mask", "init_unmask", "uart_init", "reg_off",
               "reg_table", "reg_enable", "reg_on", "leds", "print",
               "read", "show"}
    /\ phase \in {"boot", "main"} /\ saved \in BOOLEAN /\ in \in BOOLEAN
    /\ isr \in {"off", "entry", "first", "more", "trap", "spin", "none",
                "uart", "pushBtnIsr", "button_led", "button_print",
                "button_wait"}
    /\ ledOut \in Leds

\* The dispatcher never jumps through an empty table entry: whatever ienable
\* held before, an interrupt is enabled only once its handler is registered
\* (altera_nios2_gen2_irq.c:36, alt_iic_isr_register.c:90-97).
HandlerFound == isr # "none"

\* With the buttons masked the dispatcher always finds the interrupt it was
\* entered for, as it must: an entry with nothing pending is a fatal
\* exception, and a first read of ipending that is empty never ends
\* (alt_irq_entry.S:82, alt_irq_handler.c:128-155, alt_exception_entry.S:325).
SourceFound == irqMask = {} => isr \notin {"trap", "spin"}

\* alt_irq_active and ienable agree except from an alt_irq_init to the next
\* registration (alt_irq_vars.c:40, alt_sys_init.c:81).
MirrorAgrees ==
    pc \notin {"init_mask", "init_unmask", "uart_init", "reg_off",
               "reg_table", "reg_enable"} => ienable = active

\* No handler runs while the table is being changed, although the enabling
\* inside has a disabling and an enabling of its own
\* (alt_iic_isr_register.c:84-88, priv/alt_legacy_irq.h:86-99).
TableQuiet == isr # "off" => pc \notin {"reg_table", "reg_enable", "reg_on"}

\* pushBtnIsr's read-modify-write of the LEDs shows one LED or none, at any
\* time after main lit the first (main.c:20-26,35).
OneLed == led = 0 \/ \E k \in 0..(LED_WIDTH - 1) : led = 2^k

\* The second alt_irq_init disables the UART's interrupt; it is served again
\* nevertheless, because registering the button writes the whole mirror
\* (main.c:38,41, priv/alt_legacy_irq.h:93-94).
UartServed == (irqMask = {} /\ UartLine) ~> ~UartLine

\* The red LEDs come to show the switches: nothing keeps the loop from
\* running (main.c:44-51).
SwitchesShown == \A v \in BOOLEAN :
    (irqMask = {} /\ switches = v) ~> (red = v \/ switches # v)

\* main.c:37: the button's interrupt is "to be serviced by pushBtnIsr()".
ButtonServiced ==
    (pc = "read" /\ buttons # {}) ~> (buttons = {} \/ isr = "pushBtnIsr")

-----------------------------------------------------------------------------
(* The inductive invariant.                                                *)

ControlTypes ==
    /\ pie \in BOOLEAN /\ ienable \subseteq Irqs /\ active \subseteq Irqs
    /\ handler \in [Irqs -> {"none", "uart", "pushBtnIsr"}]
    /\ phase \in {"boot", "main"} /\ saved \in BOOLEAN
    /\ isr \in {"entry", "first"} => Pending # {} \/ irqMask # {}

AtReset == pc = "init_mask" /\ phase = "boot"

\* An interrupt is enabled, now or in the mirror, only with a handler.
Registered ==
    /\ \A i \in active : handler[i] # "none"
    /\ ~AtReset => ienable \subseteq active
    /\ handler[JTAG_UART_IRQ] \in {"none", "uart"}
    /\ pc = "reg_enable" => handler[RegIrq] # "none"

\* Interrupts are off while a handler runs, the table changes or ienable may
\* hold anything.
Masked ==
    pie => /\ isr = "off"
           /\ pc \notin {"reg_table", "reg_enable", "reg_on"}
           /\ ~AtReset

\* Without the button's interrupt only the UART's handler ever runs.
OnlyUart ==
    irqMask = {} => isr \in {"off", "entry", "first", "more", "uart", "none"}

IInv == /\ ControlTypes /\ Registered /\ Masked /\ OnlyUart
        /\ HandlerFound /\ MirrorAgrees /\ TableQuiet
        /\ isr # "off" => ~AtReset
=============================================================================
