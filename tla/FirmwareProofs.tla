--------------------------- MODULE FirmwareProofs ---------------------------
(***************************************************************************)
(* Proofs about the firmware's interrupt handling, for every width of the  *)
(* ports, every ring length and, unless a theorem says otherwise, every    *)
(* mask of the push button port.                                           *)
(***************************************************************************)
EXTENDS Firmware, FiniteSets, FiniteSetTheorems, TLAPS

\* Initially interrupts are off, whatever ienable holds.
LEMMA InitInv == Init => IInv
BY DEF Init, AtReset, IInv, ControlTypes, Registered, Masked, OnlyUart, HandlerFound,
       MirrorAgrees, TableQuiet, RegIrq, Irqs, JTAG_UART_IRQ, PUSH_BTNS_IRQ

\* Steps that leave the interrupt state alone and do not lower the lines.
LEMMA QuietStep ==
    ASSUME IInv,
           UNCHANGED <<pie, ienable, active, handler, irqMask, pc, phase, saved, isr>>,
           isr \in {"entry", "first"} => (UartLine => UartLine')
    PROVE  IInv'
<1>1. ControlTypes'
  <2>1. ASSUME isr \in {"entry", "first"}, irqMask = {}
        PROVE  Pending' # {}
    <3>1. Pending # {}
      BY <2>1 DEF IInv, ControlTypes
    <3>2. PUSH_BTNS_IRQ \notin Pending
      BY <2>1 DEF Pending, ButtonLine, JTAG_UART_IRQ, PUSH_BTNS_IRQ
    <3>3. JTAG_UART_IRQ \in ienable /\ UartLine
      BY <3>1, <3>2 DEF Pending
    <3> QED BY <2>1, <3>3 DEF Pending
  <2> QED BY <2>1 DEF IInv, ControlTypes
<1>2. Registered' /\ Masked' /\ OnlyUart'
  BY DEF IInv, Registered, Masked, OnlyUart, AtReset, RegIrq
<1>3. HandlerFound' /\ MirrorAgrees' /\ TableQuiet'
  BY DEF IInv, HandlerFound, MirrorAgrees, TableQuiet
<1> QED BY <1>1, <1>2, <1>3 DEF IInv, AtReset

\* The handler selected has been registered, and without the button's
\* interrupt it is the UART's.
LEMMA DispatchFacts ==
    ASSUME IInv, isr # "off", NEW otherwise, Dispatch(otherwise)
    PROVE  \/ Pending = {} /\ isr' = otherwise
           \/ /\ Pending # {} /\ isr' \in {"uart", "pushBtnIsr"}
              /\ irqMask = {} => isr' = "uart"
<1>1. CASE Pending = {}
  BY <1>1 DEF Dispatch
<1>2. CASE Pending # {}
  <2> PICK i \in Pending : isr' = handler[i]
    BY <1>2 DEF Dispatch
  <2>1. i \in active /\ i \in Irqs
    BY DEF IInv, Registered, ControlTypes, Pending
  <2>2. handler[i] \in {"uart", "pushBtnIsr"}
    BY <2>1 DEF IInv, Registered, ControlTypes
  <2>3. irqMask = {} => i = JTAG_UART_IRQ
    BY DEF Pending, ButtonLine
  <2> QED BY <1>2, <2>2, <2>3 DEF IInv, Registered
<1> QED BY <1>1, <1>2

\* Nothing writes the button port's mask.
LEMMA MaskKept == ASSUME [Next]_vars PROVE irqMask' = irqMask
<1>1. CASE Thread
  BY <1>1 DEF Thread, InitMask, InitUnmask, UartInit, Registration, RegOff, RegTable,
              RegEnable, RegOn, Leds1, PrintResult, ReadSwitches, ShowSwitches, portVars
<1>2. CASE Handler
  BY <1>2 DEF Handler, Interrupt, IrqEntry, FirstPending, MorePending, UartIsr,
              ButtonRead, ButtonLed, ButtonPrint, portVars
<1>3. CASE World
  BY <1>3 DEF World, HostType, HostDrain, Press, Switch, portVars
<1>4. CASE UNCHANGED vars
  BY <1>4 DEF vars, portVars
<1> QED BY <1>1, <1>2, <1>3, <1>4 DEF Next

\* Every step keeps the invariant.
LEMMA StepInv == ASSUME IInv, [Next]_vars PROVE IInv'
<1> USE DEF JTAG_UART_IRQ, PUSH_BTNS_IRQ, Irqs, AtReset, RegIrq
<1>m. irqMask' = irqMask
  BY MaskKept
<1>i. /\ ControlTypes /\ Registered /\ Masked /\ OnlyUart
      /\ HandlerFound /\ MirrorAgrees /\ TableQuiet
      /\ isr # "off" => ~AtReset
  BY DEF IInv
<1> USE DEF ControlTypes, Registered, Masked, OnlyUart, HandlerFound,
            MirrorAgrees, TableQuiet
<1>1. CASE InitMask
  <2>1. /\ pc = "init_mask" /\ pc' = "init_unmask" /\ isr = "off" /\ isr' = "off"
        /\ ienable' = {} /\ active' = active /\ handler' = handler
        /\ pie' = pie /\ phase' = phase /\ saved' = saved
    BY <1>1 DEF InitMask, At, IrqInitMirror, IrqInitEnable, isrVars
  <2> QED BY <1>i, <1>m, <2>1 DEF IInv
<1>2. CASE InitUnmask
  BY <1>2, <1>i, <1>m DEF InitUnmask, At, halVars, isrVars, IInv
<1>3. CASE UartInit
  BY <1>3, <1>i, <1>m DEF UartInit, At, halVars, cpuVars, isrVars, IInv
<1>4. CASE RegOff
  BY <1>4, <1>i, <1>m DEF RegOff, At, halVars, isrVars, IInv
<1>5. CASE RegTable
  <2>1. /\ \A i \in Irqs : handler'[i] # handler[i] => handler'[i] # "none"
        /\ handler'[RegIrq] # "none"
    BY <1>5, <1>i, <1>m DEF RegTable, RegHandler
  <2>2. handler' \in [Irqs -> {"none", "uart", "pushBtnIsr"}]
    BY <1>5, <1>i, <1>m DEF RegTable, RegHandler
  <2>3. handler'[0] \in {"none", "uart"}
    BY <1>5, <1>i, <1>m DEF RegTable, RegHandler
  <2> QED BY <1>5, <1>i, <1>m, <2>1, <2>2, <2>3 DEF RegTable, At, cpuVars, isrVars, IInv
<1>6. CASE RegEnable
  <2>1. /\ pc = "reg_enable" /\ pc' = "reg_on" /\ isr = "off" /\ isr' = "off"
        /\ handler' = handler /\ pie' = pie /\ phase' = phase
        /\ saved' = saved
    BY <1>6 DEF RegEnable, At, NestedRestore, isrVars
  <2>2. /\ RegIrq \in Irqs /\ active' = active \union {RegIrq}
        /\ ienable' = active' /\ handler[RegIrq] # "none"
    BY <1>6, <1>i, <1>m DEF RegEnable, At, EnabledWith
  <2> QED BY <1>i, <1>m, <2>1, <2>2 DEF IInv
<1>7. CASE RegOn
  <2>1. /\ pc = "reg_on" /\ pc' \in {"leds", "print"} /\ isr = "off" /\ isr' = "off"
        /\ ienable' = ienable /\ active' = active /\ handler' = handler
        /\ phase' = phase /\ pie' = saved /\ saved' = saved
    BY <1>7 DEF RegOn, At, halVars, isrVars
  <2> QED BY <1>i, <1>m, <2>1 DEF IInv
<1>8. CASE Leds1
  BY <1>8, <1>i, <1>m DEF Leds1, At, halVars, cpuVars, isrVars, IInv
<1>9. CASE PrintResult
  BY <1>9, <1>i, <1>m DEF PrintResult, At, halVars, cpuVars, IInv, isrVars
<1>10. CASE ReadSwitches \/ ShowSwitches
  BY <1>10, <1>i, <1>m DEF ReadSwitches, ShowSwitches, At, halVars, cpuVars, isrVars, IInv
<1>11. CASE Interrupt
  <2>1. Pending' = Pending
    BY <1>11 DEF Interrupt, Pending, UartLine, ButtonLine, uartVars, portVars
  <2> QED BY <1>11, <1>i, <1>m, <2>1 DEF Interrupt, halVars, threadVars, IInv
<1>12. CASE IrqEntry
  <2>1. Pending' = Pending
    BY <1>12 DEF IrqEntry, Pending, UartLine, ButtonLine, uartVars, portVars, cpuVars
  <2> QED BY <1>12, <1>i, <1>m, <2>1 DEF IrqEntry, halVars, cpuVars, threadVars, IInv
<1>13. CASE FirstPending
  <2>1. Dispatch("spin") /\ isr = "first"
    BY <1>13 DEF FirstPending
  <2>2. \/ Pending = {} /\ isr' = "spin"
        \/ /\ Pending # {} /\ isr' \in {"uart", "pushBtnIsr"}
           /\ irqMask = {} => isr' = "uart"
    BY <2>1, DispatchFacts
  <2> QED BY <1>13, <1>i, <1>m, <2>2 DEF FirstPending, halVars, cpuVars, threadVars, IInv
<1>14. CASE MorePending
  <2>1. Dispatch("off") /\ isr = "more"
    BY <1>14 DEF MorePending
  <2>2. \/ Pending = {} /\ isr' = "off"
        \/ /\ Pending # {} /\ isr' \in {"uart", "pushBtnIsr"}
           /\ irqMask = {} => isr' = "uart"
    BY <2>1, DispatchFacts
  <2>3. pie' = (Pending = {})
    BY <1>14 DEF MorePending
  <2> QED BY <1>14, <1>i, <1>m, <2>2, <2>3 DEF MorePending, halVars, threadVars, IInv
<1>15. CASE UartIsr
  BY <1>15, <1>i, <1>m DEF UartIsr, halVars, cpuVars, threadVars, IInv
<1>16. CASE ButtonRead \/ ButtonLed \/ ButtonPrint
  <2>1. /\ isr \in {"pushBtnIsr", "button_led", "button_print"}
        /\ isr' \in {"button_led", "button_print", "more", "button_wait"}
        /\ UNCHANGED <<pie, ienable, active, handler, pc, phase, saved>>
    BY <1>16 DEF ButtonRead, ButtonLed, ButtonPrint, halVars, cpuVars, threadVars
  <2> QED BY <1>i, <1>m, <2>1 DEF IInv
<1>17. CASE World
  BY <1>17, <1>m, QuietStep DEF World, HostType, HostDrain, Press, Switch, UartLine,
                          cpuVars, halVars, threadVars, isrVars, uartVars
<1>18. CASE UNCHANGED vars
  BY <1>18, <1>m, QuietStep DEF vars, UartLine, cpuVars, halVars, threadVars,
                          isrVars, uartVars
<1> QED
  BY <1>1, <1>2, <1>3, <1>4, <1>5, <1>6, <1>7, <1>8, <1>9, <1>10, <1>11,
     <1>12, <1>13, <1>14, <1>15, <1>16, <1>17, <1>18
  DEF Next, Thread, Registration, Handler

\* The inductive invariant holds.
THEOREM Invariance == Spec => []IInv
<1>1. Init => IInv
  BY InitInv
<1>2. IInv /\ [Next]_vars => IInv'
  BY StepInv
<1> QED BY <1>1, <1>2, PTL DEF Spec

\* Whatever ienable held at reset and whatever the button port's mask is, an
\* interrupt finds its handler.
THEOREM HandlersRegistered == Spec => []HandlerFound
<1>1. IInv => HandlerFound
  BY DEF IInv
<1> QED BY <1>1, Invariance, PTL

\* No handler runs while the table of handlers changes.
THEOREM TableChangesAlone == Spec => []TableQuiet
<1>1. IInv => TableQuiet
  BY DEF IInv
<1> QED BY <1>1, Invariance, PTL

\* The HAL's mirror of ienable is right again after each registration.
THEOREM MirrorRight == Spec => []MirrorAgrees
<1>1. IInv => MirrorAgrees
  BY DEF IInv
<1> QED BY <1>1, Invariance, PTL

\* With the push buttons masked, as in the image, the dispatcher is never
\* entered in vain.
THEOREM NoSpuriousInterrupt == Spec => []SourceFound
<1>1. IInv => SourceFound
  BY DEF IInv, OnlyUart, SourceFound
<1> QED BY <1>1, Invariance, PTL
-----------------------------------------------------------------------------
(* Powers of two, of which the provers know nothing: a power of two is the *)
(* number of subsets of an interval.                                       *)

LEMMA PowerCounts ==
    ASSUME NEW n \in Nat
    PROVE  /\ IsFiniteSet(SUBSET (1..n)) /\ Cardinality(SUBSET (1..n)) = 2^n
           /\ 2^n \in Nat
<1>1. IsFiniteSet(1..n) /\ Cardinality(1..n) = n
  BY FS_Interval
<1> QED BY <1>1, FS_SUBSET, FS_CardinalityType

LEMMA PowerGrows ==
    ASSUME NEW m \in Nat, NEW n \in Nat, m < n
    PROVE  2^m < 2^n
<1> DEFINE A == SUBSET (1..m)
           B == SUBSET (1..n)
<1>1. A \in SUBSET B
  OBVIOUS
<1>2. (1..n) \in B /\ (1..n) \notin A
  <2>1. n \in 1..n /\ n \notin 1..m
    OBVIOUS
  <2> QED BY <2>1
<1>3. IsFiniteSet(B) /\ Cardinality(A) = 2^m /\ Cardinality(B) = 2^n
      /\ 2^m \in Nat /\ 2^n \in Nat
  BY PowerCounts
<1> HIDE DEF A, B
<1>4. Cardinality(A) <= Cardinality(B) /\ (Cardinality(B) = Cardinality(A) => B = A)
  BY <1>1, <1>3, FS_Subset
<1> QED BY <1>2, <1>3, <1>4

LEMMA PowerDoubles == ASSUME NEW n \in Nat PROVE 2^(n + 1) = 2 * 2^n
<1> DEFINE A == SUBSET (1..n)
           B == {u \in SUBSET (1..(n + 1)) : n + 1 \in u}
           f == [u \in A |-> u \union {n + 1}]
<1>1. IsFiniteSet(A) /\ Cardinality(A) = 2^n /\ 2^n \in Nat
  BY PowerCounts
<1>2. Cardinality(SUBSET (1..(n + 1))) = 2^(n + 1)
  BY PowerCounts
<1>3. 1..(n + 1) = (1..n) \union {n + 1} /\ n + 1 \notin 1..n
  OBVIOUS
<1>4. SUBSET (1..(n + 1)) = A \union B /\ A \intersect B = {}
  BY <1>3
<1>5. ExistsBijection(A, B)
  <2>1. f \in [A -> B]
    BY <1>3
  <2>2. \A u, v \in A : f[u] = f[v] => u = v
    <3> TAKE u, v \in A
    <3>1. n + 1 \notin u /\ n + 1 \notin v
      BY <1>3
    <3>2. f[u] = u \union {n + 1} /\ f[v] = v \union {n + 1}
      OBVIOUS
    <3> QED BY <3>1, <3>2
  <2>3. \A w \in B : \E u \in A : f[u] = w
    <3> TAKE w \in B
    <3>1. w \ {n + 1} \in A
      BY <1>3
    <3>2. f[w \ {n + 1}] = w
      BY <3>1
    <3> QED BY <3>1, <3>2
  <2> HIDE DEF f
  <2> QED BY <2>1, <2>2, <2>3 DEF ExistsBijection, Bijection, Injection, Surjection, IsInjective
<1> HIDE DEF A, B
<1>6. IsFiniteSet(B) /\ Cardinality(B) = 2^n
  BY <1>1, <1>5, FS_Bijection
<1>7. Cardinality(A \union B) = Cardinality(A) + Cardinality(B) - Cardinality({})
  BY <1>1, <1>4, <1>6, FS_Union
<1>8. Cardinality({}) = 0
  BY FS_EmptySet
<1> DEFINE p == 2^n
           q == 2^(n + 1)
<1>9. p \in Nat /\ q = p + p - 0
  BY <1>1, <1>2, <1>4, <1>6, <1>7, <1>8
<1>10. q = 2 * p
  <2> HIDE DEF p, q
  <2> QED BY <1>9
<1> QED BY <1>10

-----------------------------------------------------------------------------
(* The LEDs.                                                               *)

\* What the port shows while one LED is lit, or none.
Shown == {0} \union {2^k : k \in 0..(LED_WIDTH - 1)}

\* The next LED, or none after the last.
LEMMA ShiftedShown ==
    ASSUME NEW l \in Shown
    PROVE  Shifted(l) \in Shown
<1>1. LED_WIDTH \in Nat /\ LED_WIDTH > 0
  BY FirmwareAssumption
<1> DEFINE w == 2^LED_WIDTH
<1>2. w \in Nat
  BY <1>1, PowerCounts
<1>3. 2^0 < w
  BY <1>1, PowerGrows
<1>4. CASE l = 0
  <2>1. w > 0 /\ Shifted(l) = (0 * 2) % w
    BY <1>2, <1>3, <1>4 DEF Shifted
  <2> HIDE DEF w
  <2>2. Shifted(l) = 0
    BY <1>2, <2>1
  <2> QED BY <2>2 DEF Shown
<1>5. CASE l # 0
  <2>1. PICK k \in 0..(LED_WIDTH - 1) : l = 2^k
    BY <1>5 DEF Shown
  <2>2. k \in Nat /\ k + 1 \in Nat /\ k < LED_WIDTH
    BY <1>1
  <2>3. l \in Nat /\ 2^(k + 1) = 2 * l
    BY <2>1, <2>2, PowerDoubles, PowerCounts
  <2>4. Shifted(l) = (2 * l) % w
    BY <2>3 DEF Shifted
  <2>5. CASE k + 1 = LED_WIDTH
    <3>1. w = 2 * l
      BY <2>3, <2>5
    <3> HIDE DEF w
    <3>2. Shifted(l) = 0
      BY <1>2, <2>3, <2>4, <3>1, <1>5
    <3> QED BY <3>2 DEF Shown
  <2>6. CASE k + 1 # LED_WIDTH
    <3>1. 2^(k + 1) < w
      BY <1>1, <2>2, <2>6, PowerGrows
    <3>2. 2 * l < w
      BY <2>3, <3>1
    <3> HIDE DEF w
    <3>3. Shifted(l) = 2 * l
      BY <1>2, <2>3, <2>4, <3>2
    <3>4. k + 1 \in 0..(LED_WIDTH - 1)
      BY <1>1, <2>2, <2>6
    <3> QED BY <2>3, <3>3, <3>4 DEF Shown
  <2> QED BY <2>5, <2>6
<1> QED BY <1>4, <1>5

\* pushBtnIsr's read-modify-write of the LEDs shows one LED or none, whatever
\* interrupts it and however many LEDs the port has (main.c:20-26,35).
THEOREM LedsShown == Spec => []OneLed
<1> DEFINE Inv == led \in Shown /\ ledOut \in Shown
<1>1. Init => Inv
  BY DEF Init, Shown
<1>2. Inv /\ [Next]_vars => Inv'
  <2> SUFFICES ASSUME Inv, [Next]_vars PROVE Inv'
    OBVIOUS
  <2>1. CASE Leds1
    <3>1. 0 \in 0..(LED_WIDTH - 1)
      BY FirmwareAssumption
    <3>2. 1 \in Shown
      <4>1. 2^0 = 1
        OBVIOUS
      <4> QED BY <3>1, <4>1 DEF Shown
    <3> QED BY <2>1, <3>2 DEF Leds1, isrVars
  <2>2. CASE ButtonRead
    BY <2>2 DEF ButtonRead, portVars
  <2>3. CASE ButtonLed
    BY <2>3, ShiftedShown DEF ButtonLed
  <2>4. CASE UNCHANGED <<led, ledOut>>
    BY <2>4
  <2>5. Leds1 \/ ButtonRead \/ ButtonLed \/ UNCHANGED <<led, ledOut>>
    <3>1. CASE Thread
      BY <3>1 DEF Thread, InitMask, InitUnmask, UartInit, Registration, RegOff,
                  RegTable, RegEnable, RegOn, PrintResult, ReadSwitches,
                  ShowSwitches, portVars, isrVars
    <3>2. CASE Handler
      BY <3>2 DEF Handler, Interrupt, IrqEntry, FirstPending, MorePending, UartIsr,
                  ButtonPrint, portVars
    <3>3. CASE World
      BY <3>3 DEF World, HostType, HostDrain, Press, Switch, portVars, isrVars
    <3>4. CASE UNCHANGED vars
      BY <3>4 DEF vars, portVars, isrVars
    <3> QED BY <3>1, <3>2, <3>3, <3>4 DEF Next
  <2> QED BY <2>1, <2>2, <2>3, <2>4, <2>5
<1>3. Inv => OneLed
  BY DEF Shown, OneLed
<1> QED BY <1>1, <1>2, <1>3, PTL DEF Spec
=============================================================================
