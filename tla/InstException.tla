--------------------------- MODULE InstException ---------------------------
(***************************************************************************)
(* Instruction exceptions: alt_exception saves registers, interrupts go    *)
(* to their handler, multiplications and divisions the processor lacks     *)
(* are emulated bit by bit, a trap breaks into the debugger, and the rest  *)
(* is up to a handler the program may have registered.                     *)
(***************************************************************************)
EXTENDS Integers

CONSTANTS
    W,            \* bits of a word
    Operands,     \* registers the emulated instructions name
    Answers       \* what a registered handler may return

VARIABLES
    registers,
    frame,        \* the slots of the registers on the stack
    back,         \* slot 72(sp): the program resumes at "insn" or "after" it
    pc,
    insn,         \* the instruction at -4(ea)
    alt_instruction_exception_handler,    \* what it returns, or "none"
    before, cause    \* history: the program's registers, and who handled it

vars == <<registers, frame, back, pc, insn, alt_instruction_exception_handler,
          before, cause>>

\* at, r2, r4, r5, r7, r8 and r15 are saved like r3, and r19 to r23 like r18.
Scratch == {"r3", "r6", "r9", "r10", "r11", "r12", "r13", "r14", "ra"}
CalleeSaved == {"r16", "r17", "r18", "fp"}
Registers == {"zero", "gp", "sp"} \cup Scratch \cup CalleeSaved

WORDS == 2 ^ W
HIGH == 2 ^ (W - 1)
Words == 0..(WORDS - 1)
Word(n) == n % WORDS
Negative(w) == w >= HIGH

InstExceptionAssumption ==
    /\ W \in Nat \ {0, 1}
    /\ Operands \subseteq Registers \ {"gp", "sp"}
    /\ Answers \subseteq {"insn", "after"}

Multiplications == {"mul", "mulxuu", "mulxsu", "mulxss"}
Divisions == {"div", "divu"}

Instructions ==
    [op : Multiplications \cup Divisions, a : Operands, b : Operands, c : Operands]
        \cup [op : {"muli"}, a : Operands, b : Operands, imm : Words]
        \cup [op : {"trap", "other"}]

Emulated(i) == i.op \in Multiplications \cup Divisions \cup {"muli"}
\* muli is an I-type instruction: its field B is the destination.
Destination(i) == IF i.op = "muli" THEN i.b ELSE i.c

NoInstruction == [op |-> "none"]

Init ==
    /\ registers = [r \in Registers |-> 0] /\ before = registers
    /\ frame = [r \in Registers |-> 0]
    /\ back = "insn" /\ insn = NoInstruction /\ cause = "none"
    /\ pc = "program"
    /\ alt_instruction_exception_handler = "none"

-----------------------------------------------------------------------------
(* The program, and the way in (alt_exception_entry.S, alt_irq_entry.S).   *)

Register(answer) ==
    /\ pc = "program"
    /\ alt_instruction_exception_handler' = answer
    /\ UNCHANGED <<registers, frame, back, pc, insn, before, cause>>

\* The program comes to an instruction, with anything in its operands, and the
\* processor enters alt_exception instead of executing it.
Except == pc = "program" /\ \E i \in Instructions, x, y \in Words :
    /\ insn' = i
    /\ before' = [r \in Registers |->
                    IF ~Emulated(i) \/ r = "zero" THEN 0
                    ELSE IF r = i.a THEN x
                    ELSE IF i.op # "muli" /\ r = i.b THEN y ELSE 0]
    /\ registers' = [before' EXCEPT !.sp = Word(@ - 19)]
    /\ frame' = [r \in Registers |-> IF r \in Scratch THEN before'[r] ELSE frame[r]]
    /\ back' = "insn"
    /\ pc' = "irqtest"
    /\ UNCHANGED <<alt_instruction_exception_handler, cause>>

\* What C code may do to the registers its caller has to save.
Clobbered == [r \in Registers |->
    IF r \in Scratch THEN Word(registers[r] + 1) ELSE registers[r]]

Interrupt ==
    /\ pc = "irqtest"
    /\ registers' = Clobbered
    /\ cause' = "irq" /\ pc' = "exit"
    /\ UNCHANGED <<frame, back, insn, alt_instruction_exception_handler, before>>

NotIrq ==
    /\ pc = "irqtest"
    /\ back' = "after"
    /\ pc' = "soft"
    /\ UNCHANGED <<registers, frame, insn, alt_instruction_exception_handler, before, cause>>

-----------------------------------------------------------------------------
(* The emulation (alt_exception_muldiv.S).                                 *)

\* The frame is made whole, so that operands can be taken from it by number.
Whole == [r \in Registers |->
    CASE r = "zero" -> 0
      [] r \in CalleeSaved \cup {"gp"} -> registers[r]
      [] r = "sp" -> Word(registers.sp - 15)
      [] OTHER -> frame[r]]

Decode ==
    /\ pc = "soft" /\ Emulated(insn)
    /\ frame' = Whole
    /\ LET left == Whole[insn.a]
           right == IF insn.op = "muli" THEN insn.imm ELSE Whole[insn.b]
           loaded == [registers EXCEPT !.sp = Word(@ - 15), !.r14 = W,
                                       !.r3 = left, !.r6 = right]
           Magnitude(w) == IF insn.op = "div" /\ Negative(w) THEN Word(-w) ELSE w
       IN IF insn.op \in Divisions
          THEN /\ registers' = [loaded EXCEPT
                    !.r3 = Magnitude(left), !.r6 = Magnitude(right), !.r13 = 0,
                    \* of r17 only the sign is looked at
                    !.r17 = IF insn.op = "div" /\ Negative(left) # Negative(right)
                            THEN HIGH ELSE 0]
               /\ pc' = "divide"
          ELSE /\ registers' = [loaded EXCEPT
                    !.r9 = 0, !.r10 = 0, !.r11 = right, !.r12 = right, !.r16 = 1]
               /\ pc' = "multiply"
    /\ cause' = "emulated"
    /\ UNCHANGED <<back, insn, alt_instruction_exception_handler, before>>

\* One bit of the dividend moves into the remainder, one of the quotient comes.
DivideBit(r) ==
    LET remainder == Word(2 * r.r13) + IF Negative(r.r3) THEN 1 ELSE 0
        fits == remainder >= r.r6
    IN [r EXCEPT !.r13 = IF fits THEN remainder - r.r6 ELSE remainder,
                 !.r3 = Word(2 * @) + IF fits THEN 1 ELSE 0]

CarryLost(sum, addend) == 0
Carry(sum, addend) == IF sum < addend THEN HIGH ELSE 0

\* r9 collects the product's low word from the multiplier's high bit on, r10 its
\* high word from the low bit on, where a sum may carry out of the word.
MultiplyBit(r) ==
    LET odd == r.r12 % 2 = 1
        sum == IF odd THEN Word(r.r10 + r.r3) ELSE r.r10
    IN [r EXCEPT !.r9 = Word(2 * @ + IF Negative(r.r6) THEN r.r3 ELSE 0),
                 !.r10 = sum \div 2 + IF odd THEN Carry(sum, r.r3) ELSE 0,
                 !.r6 = Word(2 * @), !.r12 = @ \div 2]

Loop(here, bit) ==
    /\ pc = here
    /\ registers' = [bit EXCEPT !.r14 = @ - 1]
    /\ pc' = IF registers.r14 = 1 THEN "result" ELSE here
    /\ UNCHANGED <<frame, back, insn, alt_instruction_exception_handler, before, cause>>

Result ==
    LET r == registers
        mulxsu == r.r10 - IF Negative(r.r3) THEN r.r11 ELSE 0
    IN Word(CASE insn.op \in Divisions -> IF Negative(r.r17) THEN -r.r3 ELSE r.r3
              [] insn.op \in {"mul", "muli"} -> r.r9
              [] insn.op = "mulxuu" -> r.r10
              [] insn.op = "mulxsu" -> mulxsu
              [] insn.op = "mulxss" -> mulxsu - IF Negative(r.r11) THEN r.r3 ELSE 0)

StoreResult ==
    /\ pc = "result"
    /\ frame' = [frame EXCEPT ![Destination(insn)] = Result]
    /\ registers' = [r \in Registers |->
        CASE r \in CalleeSaved -> frame'[r]
          [] r = "sp" -> Word(registers.sp + 15)
          [] OTHER -> registers[r]]
    /\ pc' = "exit"
    /\ UNCHANGED <<back, insn, alt_instruction_exception_handler, before, cause>>

-----------------------------------------------------------------------------
(* The rest (alt_exception_trap.S, alt_instruction_exception_entry.c), and *)
(* the way out.                                                            *)

\* The search for an instruction to emulate has filled the frame and used
\* scratch registers by now.  The debugger goes on after its break.
Trap ==
    /\ pc = "soft" /\ insn.op = "trap"
    /\ frame' = Whole /\ registers' = Clobbered
    /\ cause' = "debugger" /\ pc' = "exit"
    /\ UNCHANGED <<back, insn, alt_instruction_exception_handler, before>>

\* Without a handler the program stops in the debugger, which may have it
\* return as if the handler had asked for the instruction again.
InstructionExceptionEntry ==
    /\ pc = "soft" /\ insn.op = "other"
    /\ frame' = Whole /\ registers' = Clobbered
    /\ back' = IF alt_instruction_exception_handler = "after" THEN back ELSE "insn"
    /\ cause' = IF alt_instruction_exception_handler = "none" THEN "debugger" ELSE "handler"
    /\ pc' = "exit"
    /\ UNCHANGED <<insn, alt_instruction_exception_handler, before>>

Exit ==
    /\ pc = "exit"
    /\ registers' = [r \in Registers |->
        CASE r \in Scratch -> frame[r]
          [] r = "sp" -> Word(registers.sp + 19)
          [] OTHER -> registers[r]]
    /\ pc' = "resumed"
    /\ UNCHANGED <<frame, back, insn, alt_instruction_exception_handler, before, cause>>

\* The program goes on; what its registers hold at the next exception is open.
GoOn ==
    /\ pc = "resumed" /\ pc' = "program"
    /\ registers' = [r \in Registers |-> 0] /\ before' = registers'
    /\ frame' = [r \in Registers |-> 0]
    /\ back' = "insn" /\ insn' = NoInstruction /\ cause' = "none"
    /\ UNCHANGED alt_instruction_exception_handler

Next ==
    \/ \E answer \in Answers \cup {"none"} : Register(answer)
    \/ Except \/ Interrupt \/ NotIrq
    \/ Decode
    \/ Loop("divide", DivideBit(registers)) \/ Loop("multiply", MultiplyBit(registers))
    \/ StoreResult
    \/ Trap \/ InstructionExceptionEntry
    \/ Exit \/ GoOn

Spec == Init /\ [][Next]_vars

-----------------------------------------------------------------------------
(* Correctness.                                                            *)

TypeOK ==
    /\ registers \in [Registers -> Words] /\ before \in [Registers -> Words]
    /\ frame \in [Registers -> Words]
    /\ back \in {"insn", "after"}
    /\ pc \in {"program", "irqtest", "soft", "divide", "multiply", "result", "exit",
               "resumed"}
    /\ insn \in Instructions \cup {NoInstruction}
    /\ alt_instruction_exception_handler \in Answers \cup {"none"}
    /\ cause \in {"none", "irq", "emulated", "debugger", "handler"}

\* What the instruction would have computed from operands x and y.
Signed(w) == IF Negative(w) THEN w - WORDS ELSE w
Abs(n) == IF n < 0 THEN -n ELSE n
Quotient(x, y) ==
    IF (x < 0) = (y < 0) THEN Abs(x) \div Abs(y) ELSE -(Abs(x) \div Abs(y))

Computes(op, x, y, w) ==
    CASE op \in {"mul", "muli"} -> w = Word(x * y)
      [] op = "mulxuu" -> w = (x * y) \div WORDS
      [] op = "mulxsu" -> w = Word((Signed(x) * y) \div WORDS)
      [] op = "mulxss" -> w = Word((Signed(x) * Signed(y)) \div WORDS)
      [] op = "divu" -> y # 0 => w = x \div y
      [] op = "div" -> y # 0 => w = Word(Quotient(Signed(x), Signed(y)))

\* An exception leaves no trace in the program but the result of the
\* instruction it stands for: the registers are as they were, the destination
\* holds what the instruction computes, also where it is one of the operands,
\* and the program resumes after an instruction that was dealt with and at one
\* that was only interrupted or that a handler wants again
\* (alt_exception_entry.S:125-396, alt_exception_muldiv.S:98-573).
Transparent ==
    LET target == IF cause = "emulated" /\ Destination(insn) # "zero"
                  THEN {Destination(insn)} ELSE {}
        right == IF insn.op = "muli" THEN insn.imm ELSE before[insn.b]
    IN pc = "resumed" =>
        /\ \A r \in Registers \ target : registers[r] = before[r]
        /\ \A r \in target : Computes(insn.op, before[insn.a], right, registers[r])
        /\ cause = "irq" => back = "insn"
        /\ (cause = "emulated" \/ (insn.op = "trap" /\ cause # "irq")) => back = "after"
        /\ cause = "handler" => back = alt_instruction_exception_handler
=============================================================================
