---------------------------- MODULE JtagUartProofs ----------------------------
(***************************************************************************)
(* The driver's safety properties for every ring size, FIFO depth,         *)
(* threshold, timeout and bound: IInv is inductive, and both directions    *)
(* implement ByteStream.                                                   *)
(*                                                                         *)
(* The proof has one lemma per part of IInv.  Each lemma first names the   *)
(* few actions that can disturb its part (the Frame lemmas show that all   *)
(* others leave the part's variables alone) and then treats them one by    *)
(* one.                                                                    *)
(***************************************************************************)
EXTENDS JtagUart, TLAPS, SequenceTheorems

-----------------------------------------------------------------------------
(* Ring arithmetic.                                                        *)

\* Advancing wraps at most once (write.c:126).
LEMMA AdvanceWraps ==
    ASSUME NEW i \in Cells, NEW k \in 0..BUF_LEN
    PROVE  /\ Advance(i, k) = IF i + k < BUF_LEN THEN i + k
                                                 ELSE i + k - BUF_LEN
           /\ Advance(i, k) \in Cells
<1> DEFINE s == i + k
<1>1. s \in 0..(2 * BUF_LEN - 1)
  BY UartAssumption DEF Cells
<1>2. CASE s < BUF_LEN
  <2>1. s % BUF_LEN = s
    BY <1>1, <1>2, UartAssumption, SMTT(20)
  <2> QED BY <2>1, <1>1, <1>2, UartAssumption DEF Advance, Cells
<1>3. CASE s >= BUF_LEN
  <2>1. s % BUF_LEN = s - BUF_LEN
    BY <1>1, <1>3, UartAssumption, SMTT(20)
  <2> QED BY <2>1, <1>1, <1>3, UartAssumption DEF Advance, Cells
<1> QED BY <1>1, <1>2, <1>3, UartAssumption

\* A ring never holds BUF_LEN characters, and holds none exactly when its
\* indices meet.
LEMMA UsedBounds ==
    ASSUME NEW i \in Cells, NEW o \in Cells
    PROVE  /\ Used(i, o) \in 0..(BUF_LEN - 1)
           /\ Used(i, o) = 0 <=> i = o
  BY UartAssumption DEF Used, Cells

\* The place in the ring identifies the cell.
LEMMA UsedInjective ==
    ASSUME NEW o \in Cells, NEW c \in Cells, NEW d \in Cells,
           Used(c, o) = Used(d, o)
    PROVE  c = d
  BY UartAssumption DEF Used, Cells

\* Putting k characters in: the ring grows by k.
LEMMA UsedAfterPut ==
    ASSUME NEW i \in Cells, NEW o \in Cells, NEW k \in 0..(BUF_LEN - 1),
           Used(i, o) + k < BUF_LEN
    PROVE  /\ Advance(i, k) \in Cells
           /\ Used(Advance(i, k), o) = Used(i, o) + k
<1>1. /\ Advance(i, k) = IF i + k < BUF_LEN THEN i + k ELSE i + k - BUF_LEN
      /\ Advance(i, k) \in Cells
  BY AdvanceWraps, UartAssumption
<1> QED BY <1>1, UartAssumption DEF Used, Cells

\* Taking k characters out: the ring shrinks by k, and so does the place of
\* every cell behind them.
LEMMA UsedAfterTake ==
    ASSUME NEW i \in Cells, NEW o \in Cells, NEW k \in 0..(BUF_LEN - 1),
           k <= Used(i, o)
    PROVE  /\ Advance(o, k) \in Cells
           /\ Used(i, Advance(o, k)) = Used(i, o) - k
<1>1. /\ Advance(o, k) = IF o + k < BUF_LEN THEN o + k ELSE o + k - BUF_LEN
      /\ Advance(o, k) \in Cells
  BY AdvanceWraps, UartAssumption
<1> QED BY <1>1, UartAssumption DEF Used, Cells

\* A cell in use after k characters were taken was in use, k places on.
LEMMA PlaceAfterTake ==
    ASSUME NEW i \in Cells, NEW o \in Cells, NEW k \in 0..(BUF_LEN - 1),
           NEW c \in Cells, k <= Used(i, o),
           Used(c, Advance(o, k)) < Used(i, o) - k
    PROVE  Used(c, o) = Used(c, Advance(o, k)) + k
<1>1. /\ Advance(o, k) = IF o + k < BUF_LEN THEN o + k ELSE o + k - BUF_LEN
      /\ Advance(o, k) \in Cells
  BY AdvanceWraps, UartAssumption
<1> QED BY <1>1, UartAssumption DEF Used, Cells

\* A ring is full when one more character would make its indices meet.
LEMMA FullMeansNoRoom ==
    ASSUME NEW i \in Cells, NEW o \in Cells
    PROVE  Advance(i, 1) = o <=> Used(i, o) = BUF_LEN - 1
<1>1. Advance(i, 1) = IF i + 1 < BUF_LEN THEN i + 1 ELSE i + 1 - BUF_LEN
  BY AdvanceWraps, UartAssumption
<1> QED BY <1>1, UartAssumption DEF Used, Cells

\* The run write copies fits the array and leaves one cell free.
LEMMA FreeRunFits ==
    ASSUME NEW i \in Cells, NEW o \in Cells
    PROVE  /\ FreeRun(i, o) \in 0..(BUF_LEN - 1)
           /\ i + FreeRun(i, o) <= BUF_LEN
           /\ Used(i, o) + FreeRun(i, o) < BUF_LEN
  BY UartAssumption DEF FreeRun, Used, Cells

\* The run read copies fits the array and is in use.
LEMMA UsedRunFits ==
    ASSUME NEW i \in Cells, NEW o \in Cells
    PROVE  /\ UsedRun(i, o) \in 0..BUF_LEN
           /\ o + UsedRun(i, o) <= BUF_LEN
           /\ UsedRun(i, o) <= Used(i, o)
           /\ UsedRun(i, o) = 0 => i = o
  BY UartAssumption DEF UsedRun, Used, Cells

\* A part of a run fits where the run fits.
LEMMA ShorterRun ==
    \A a, r, k \in Nat : k <= r =>
        /\ a + r <= BUF_LEN => a + k <= BUF_LEN
        /\ a + r < BUF_LEN => a + k < BUF_LEN
  BY UartAssumption

-----------------------------------------------------------------------------
(* Frames: which actions touch which part of the state.                    *)

\* Only these actions move transmitted characters.
LEMMA TxFrame ==
    ASSUME [Next]_vars
    PROVE  \/ WriteCopy \/ WritePublish \/ IsrTxPut \/ HostTake
           \/ UNCHANGED <<tx_buf, tx_in, tx_out, wfifo, woverflow, sent, shown>>
<1> USE DEF vars, uartVars, txVars, rxVars, driverVars, threadVars, isrVars,
            history
<1>1. CASE Calls
  BY <1>1 DEF Calls, WriteCall, ReadCall, CloseCall, Call, SetTimeout
<1>2. CASE Thread
  BY <1>2 DEF Thread, WriteLoad, WriteKick, WriteSpin, WriteTest,
              WriteReturn, ReadLoad, ReadCopy, ReadPublish, ReadSpin, ReadTest,
              ReadEnable, ReadReturn, CloseWait
<1>3. CASE Isr
  BY <1>3 DEF Isr, IsrEnter, IsrControl, IsrRxTake, IsrRxNone, IsrRxFull,
              IsrRxEnd, IsrTxEnd
<1>4. CASE Alarm
  BY <1>4 DEF Alarm
<1>5. CASE Host
  BY <1>5 DEF Host, HostPut, HostPause
<1>6. CASE UNCHANGED vars
  BY <1>6
<1> QED BY <1>1, <1>2, <1>3, <1>4, <1>5, <1>6 DEF Next

\* Only these actions move received characters.
LEMMA RxFrame ==
    ASSUME [Next]_vars
    PROVE  \/ ReadCopy \/ ReadPublish \/ IsrRxTake \/ HostPut
           \/ /\ UNCHANGED <<rx_buf, rx_in, rx_out, rfifo, typed, got>>
              /\ pc # "r_publish" /\ pc' # "r_publish"
           \/ UNCHANGED <<rx_buf, rx_in, rx_out, rfifo, typed, got, pc, n>>
<1> USE DEF vars, uartVars, txVars, rxVars, driverVars, threadVars, isrVars,
            history, At, Goto, Return
<1>1. CASE Calls
  BY <1>1 DEF Calls, WriteCall, ReadCall, CloseCall, Call, SetTimeout
<1>2. CASE Thread
  BY <1>2 DEF Thread, WriteLoad, WriteCopy, WritePublish, WriteKick,
              WriteSpin, WriteTest, WriteReturn, ReadLoad, ReadSpin, ReadTest,
              ReadEnable, ReadReturn, CloseWait
<1>3. CASE Isr
  BY <1>3 DEF Isr, IsrEnter, IsrControl, IsrRxNone, IsrRxFull, IsrRxEnd,
              IsrTxPut, IsrTxEnd
<1>4. CASE Alarm
  BY <1>4 DEF Alarm
<1>5. CASE Host
  BY <1>5 DEF Host, HostTake, HostPause
<1>6. CASE UNCHANGED vars
  BY <1>6
<1> QED BY <1>1, <1>2, <1>3, <1>4, <1>5, <1>6 DEF Next

-----------------------------------------------------------------------------
(* Type correctness, one part of the state at a time.                      *)

\* What a copying action knows of its run.
LEMMA CopyFits ==
    ASSUME TypeOK, CopyInv,
           pc \in {"w_copy", "w_publish", "r_copy", "r_publish"}
    PROVE  n \in 1..want /\ n \in 1..(BUF_LEN - 1) /\ n \in 0..BUF_LEN
<1>1. /\ Used(tx_in, tx_out) \in 0..(BUF_LEN - 1)
      /\ Used(rx_in, rx_out) \in 0..(BUF_LEN - 1)
  BY UsedBounds DEF TypeOK, RingTypes
<1> QED BY <1>1, UartAssumption DEF CopyInv, TypeOK, ThreadTypes

LEMMA TypeInit == Init => TypeOK
<1> SUFFICES ASSUME Init PROVE TypeOK
  OBVIOUS
<1> USE UartAssumption DEF Init
<1>0. 0 \in Cells /\ <<>> \in Seq(Nat) /\ Len(<<>>) = 0
  BY EmptySeq DEF Cells
<1>1. UartTypes
  BY <1>0 DEF UartTypes
<1>2. RingTypes /\ HistoryTypes /\ IsrTypes
  BY <1>0 DEF RingTypes, HistoryTypes, IsrTypes
<1>3. DriverTypes
  BY DEF DriverTypes, InitialTimeout
<1>4. ThreadTypes
  BY <1>0 DEF ThreadTypes
<1> QED BY <1>1, <1>2, <1>3, <1>4 DEF TypeOK

LEMMA UartTypesStep ==
    ASSUME TypeOK, [Next]_vars
    PROVE  UartTypes'
<1> USE UartAssumption DEF UartTypes, uartVars
<1>t. UartTypes /\ Len(wfifo) \in Nat /\ Len(rfifo) \in Nat
  BY LenProperties DEF TypeOK
<1>1. CASE WriteKick \/ ReadEnable
  BY <1>1, <1>t DEF WriteKick, ReadEnable, SetEnables, Kicked, Receiving,
                    TypeOK, DriverTypes
<1>2. CASE IsrRxEnd \/ IsrTxEnd
  BY <1>2, <1>t DEF IsrRxEnd, IsrTxEnd, SetEnables, TypeOK, DriverTypes
<1>3. CASE IsrRxTake
  <2>1. Tail(rfifo) \in Seq(Nat) /\ Len(Tail(rfifo)) = Len(rfifo) - 1
    BY <1>3, <1>t, HeadTailProperties DEF IsrRxTake
  <2>2. /\ rfifo' = Tail(rfifo) /\ pause_irq' = FALSE
        /\ UNCHANGED <<wfifo, ien, ac, woverflow>>
    BY <1>3 DEF IsrRxTake
  <2>3. pause_irq' \in BOOLEAN /\ ac' \in BOOLEAN /\ woverflow' \in BOOLEAN
    BY <1>t, <2>2, Zenon
  <2> QED BY <1>t, <2>1, <2>2, <2>3
<1>4. CASE IsrRxNone
  BY <1>4, <1>t DEF IsrRxNone
<1>5. CASE IsrTxPut
  <2>1. tx_buf[tx_out] \in Nat
    BY DEF TypeOK, RingTypes
  <2>2. /\ Append(wfifo, tx_buf[tx_out]) \in Seq(Nat)
        /\ Len(Append(wfifo, tx_buf[tx_out])) = Len(wfifo) + 1
    BY <1>t, <2>1
  <2> QED BY <1>5, <1>t, <2>2 DEF IsrTxPut
<1>6. CASE Alarm
  BY <1>6, <1>t DEF Alarm, TypeOK, DriverTypes
<1>7. CASE HostTake
  <2>1. Tail(wfifo) \in Seq(Nat) /\ Len(Tail(wfifo)) = Len(wfifo) - 1
    BY <1>7, <1>t, HeadTailProperties DEF HostTake
  <2> QED BY <1>7, <1>t, <2>1 DEF HostTake
<1>8. CASE HostPut
  <2>1. /\ Append(rfifo, typed + 1) \in Seq(Nat)
        /\ Len(Append(rfifo, typed + 1)) = Len(rfifo) + 1
    BY <1>t DEF TypeOK, HistoryTypes
  <2> QED BY <1>8, <1>t, <2>1 DEF HostPut
<1>9. CASE HostPause
  BY <1>9, <1>t DEF HostPause
<1>10. CASE UNCHANGED uartVars
  BY <1>10, <1>t
<1>11. \/ WriteKick \/ ReadEnable \/ IsrRxEnd \/ IsrTxEnd \/ IsrRxTake
       \/ IsrRxNone \/ IsrTxPut \/ Alarm \/ HostTake \/ HostPut \/ HostPause
       \/ UNCHANGED uartVars
  BY DEF Next, vars, Calls, WriteCall, ReadCall, CloseCall, Call, SetTimeout,
         Thread, WriteLoad, WriteCopy, WritePublish, WriteSpin, WriteTest,
         WriteReturn, ReadLoad, ReadCopy, ReadPublish, ReadSpin, ReadTest,
         ReadReturn, CloseWait, Isr, IsrEnter, IsrControl, IsrRxFull, Host
<1> QED BY <1>1, <1>2, <1>3, <1>4, <1>5, <1>6, <1>7, <1>8, <1>9, <1>10, <1>11

LEMMA RingTypesStep ==
    ASSUME TypeOK, CopyInv, [Next]_vars
    PROVE  RingTypes'
<1> USE UartAssumption DEF RingTypes
<1>t. RingTypes
  BY DEF TypeOK
<1>1. CASE WriteCopy
  <2>1. n \in 1..want /\ in \in Cells /\ sent \in Nat
    BY <1>1, CopyFits DEF WriteCopy, At, TypeOK, ThreadTypes, HistoryTypes
  <2>2. \A c \in Cells : c \in in..(in + n - 1) => sent + 1 + (c - in) \in Nat
    BY <2>1 DEF Cells
  <2> QED BY <1>1, <1>t, <2>2 DEF WriteCopy, rxVars
<1>2. CASE WritePublish
  <2>1. Advance(in, n) \in Cells
    BY <1>2, CopyFits, AdvanceWraps DEF WritePublish, At, TypeOK, ThreadTypes
  <2> QED BY <1>2, <1>t, <2>1 DEF WritePublish, rxVars
<1>3. CASE ReadPublish
  <2>1. Advance(out, n) \in Cells
    BY <1>3, CopyFits, AdvanceWraps DEF ReadPublish, At, TypeOK, ThreadTypes
  <2> QED BY <1>3, <1>t, <2>1 DEF ReadPublish, txVars
<1>4. CASE IsrRxTake
  <2>1. Head(rfifo) \in Nat
    BY <1>4, HeadTailProperties DEF IsrRxTake, TypeOK, UartTypes
  <2>2. Advance(rx_in, 1) \in Cells
    BY <1>t, AdvanceWraps
  <2> QED BY <1>4, <1>t, <2>1, <2>2 DEF IsrRxTake, txVars
<1>5. CASE IsrTxPut
  <2>1. Advance(tx_out, 1) \in Cells
    BY <1>t, AdvanceWraps
  <2> QED BY <1>5, <1>t, <2>1 DEF IsrTxPut, rxVars
<1>6. CASE UNCHANGED <<txVars, rxVars>>
  BY <1>6, <1>t DEF txVars, rxVars
<1>7. \/ WriteCopy \/ WritePublish \/ ReadPublish \/ IsrRxTake \/ IsrTxPut
      \/ UNCHANGED <<txVars, rxVars>>
  BY DEF Next, vars, Calls, WriteCall, ReadCall, CloseCall, Call, SetTimeout,
         Thread, WriteLoad, WriteKick, WriteSpin, WriteTest, WriteReturn,
         ReadLoad, ReadCopy, ReadSpin, ReadTest, ReadEnable, ReadReturn,
         CloseWait, Isr, IsrEnter, IsrControl, IsrRxNone, IsrRxFull, IsrRxEnd,
         IsrTxEnd, Alarm, Host, HostTake, HostPut, HostPause
<1> QED BY <1>1, <1>2, <1>3, <1>4, <1>5, <1>6, <1>7

LEMMA DriverTypesStep ==
    ASSUME TypeOK, [Next]_vars
    PROVE  DriverTypes'
<1> USE UartAssumption DEF DriverTypes, driverVars
<1>t. DriverTypes
  BY DEF TypeOK
<1>1. CASE WriteKick \/ ReadEnable
  BY <1>1, <1>t DEF WriteKick, ReadEnable, SetEnables, Kicked, Receiving
<1>2. CASE IsrRxEnd \/ IsrTxEnd
  BY <1>2, <1>t DEF IsrRxEnd, IsrTxEnd, SetEnables
<1>3. CASE SetTimeout
  BY <1>3, <1>t DEF SetTimeout
<1>4. CASE Alarm
  BY <1>4, <1>t DEF Alarm
<1>5. CASE UNCHANGED driverVars
  BY <1>5, <1>t
<1>6. \/ WriteKick \/ ReadEnable \/ IsrRxEnd \/ IsrTxEnd \/ SetTimeout \/ Alarm
      \/ UNCHANGED driverVars
  BY DEF Next, vars, Calls, WriteCall, ReadCall, CloseCall, Call,
         Thread, WriteLoad, WriteCopy, WritePublish, WriteSpin, WriteTest,
         WriteReturn, ReadLoad, ReadCopy, ReadPublish, ReadSpin, ReadTest,
         ReadReturn, CloseWait, Isr, IsrEnter, IsrControl, IsrRxTake,
         IsrRxNone, IsrRxFull, IsrTxPut, Host, HostTake, HostPut, HostPause
<1> QED BY <1>1, <1>2, <1>3, <1>4, <1>5, <1>6

LEMMA ThreadTypesStep ==
    ASSUME TypeOK, CopyInv, [Next]_vars
    PROVE  ThreadTypes'
<1> USE UartAssumption DEF ThreadTypes, threadVars, Goto
<1>t. ThreadTypes /\ RingTypes /\ 0 \in Cells
  BY DEF TypeOK, Cells
<1>1. CASE Calls
  <2>1. CASE WriteCall \/ ReadCall \/ CloseCall
    BY <2>1, <1>t DEF WriteCall, ReadCall, CloseCall, Call
  <2>2. CASE SetTimeout
    BY <2>2, <1>t DEF SetTimeout, ENOTTY
  <2> QED BY <1>1, <2>1, <2>2 DEF Calls
<1>2. CASE WriteLoad
  <2>1. \A k \in Nat : Least(FreeRun(tx_in, tx_out), k) \in Nat
    BY <1>t, FreeRunFits DEF Least, RingTypes
  <2> QED BY <1>2, <1>t, <2>1 DEF WriteLoad, RingTypes
<1>3. CASE ReadLoad
  <2>1. \A k \in Nat : Least(UsedRun(rx_in, rx_out), k) \in Nat
    BY <1>t, UsedRunFits DEF Least, RingTypes
  <2> QED BY <1>3, <1>t, <2>1 DEF ReadLoad, RingTypes
<1>4. CASE WriteCopy \/ ReadCopy
  BY <1>4, <1>t DEF WriteCopy, ReadCopy
<1>5. CASE WritePublish \/ ReadPublish
  <2>1. n \in 1..want
    BY <1>5, CopyFits DEF WritePublish, ReadPublish, At
  <2> QED BY <1>5, <1>t, <2>1 DEF WritePublish, ReadPublish
<1>6. CASE WriteKick \/ WriteSpin \/ WriteTest
  BY <1>6, <1>t DEF WriteKick, WriteSpin, WriteTest
<1>7. CASE ReadSpin \/ ReadTest \/ ReadEnable
  BY <1>7, <1>t DEF ReadSpin, ReadTest, ReadEnable
<1>8. CASE WriteReturn \/ ReadReturn
  <2>1. Result \in Int
    BY <1>t DEF Result, EIO, EWOULDBLOCK
  <2>2. /\ pc' = "idle" /\ ret' = Result /\ nonblock' = FALSE
        /\ want' = 0 /\ done' = 0 /\ in' = 0 /\ out' = 0 /\ n' = 0
    BY <1>8 DEF WriteReturn, ReadReturn, Return
  <2> QED BY <1>t, <2>1, <2>2
<1>9. CASE CloseWait
  <2>1. 0 \in Int /\ EWOULDBLOCK \in Int
    BY DEF EWOULDBLOCK
  <2>2. /\ pc' = "idle" /\ ret' \in {0, EWOULDBLOCK} /\ nonblock' = FALSE
        /\ want' = 0 /\ done' = 0 /\ in' = 0 /\ out' = 0 /\ n' = 0
    BY <1>9 DEF CloseWait, Return
  <2> QED BY <1>t, <2>1, <2>2
<1>10. CASE UNCHANGED threadVars
  BY <1>10, <1>t
<1>11. Calls \/ Thread \/ UNCHANGED threadVars
  BY DEF Next, vars, Isr, IsrEnter, IsrControl, IsrRxTake, IsrRxNone,
         IsrRxFull, IsrRxEnd, IsrTxPut, IsrTxEnd, Alarm, Host, HostTake,
         HostPut, HostPause
<1> QED BY <1>1, <1>2, <1>3, <1>4, <1>5, <1>6, <1>7, <1>8, <1>9, <1>10, <1>11
        DEF Thread

LEMMA IsrTypesStep ==
    ASSUME TypeOK, [Next]_vars
    PROVE  IsrTypes'
<1> USE UartAssumption DEF IsrTypes, isrVars
<1>t. IsrTypes /\ Len(wfifo) \in 0..FIFO_DEPTH
  BY LenProperties DEF TypeOK, UartTypes
<1>1. CASE IsrEnter
  BY <1>1, <1>t DEF IsrEnter
<1>2. CASE IsrControl
  <2>1. WI \in BOOLEAN /\ RI \in BOOLEAN /\ WSpace \in 0..FIFO_DEPTH
    BY <1>t DEF WI, RI, WSpace
  <2> QED BY <1>2, <1>t, <2>1 DEF IsrControl
<1>3. CASE IsrRxTake
  BY <1>3, <1>t DEF IsrRxTake
<1>4. CASE IsrRxNone \/ IsrRxFull
  BY <1>4, <1>t DEF IsrRxNone, IsrRxFull
<1>5. CASE IsrRxEnd
  BY <1>5, <1>t DEF IsrRxEnd
<1>6. CASE IsrTxPut
  BY <1>6, <1>t DEF IsrTxPut
<1>7. CASE IsrTxEnd
  <2>1. isr' = "control" /\ wi' = FALSE /\ space' = 0 /\ ravail' = ravail
    BY <1>7 DEF IsrTxEnd
  <2>2. wi' \in BOOLEAN /\ ravail' \in BOOLEAN
    BY <1>t, <2>1, Zenon
  <2> QED BY <1>t, <2>1, <2>2
<1>8. CASE UNCHANGED isrVars
  BY <1>8, <1>t
<1>9. Isr \/ UNCHANGED isrVars
  BY DEF Next, vars, Calls, WriteCall, ReadCall, CloseCall, Call, SetTimeout,
         Thread, WriteLoad, WriteCopy, WritePublish, WriteKick, WriteSpin,
         WriteTest, WriteReturn, ReadLoad, ReadCopy, ReadPublish, ReadSpin,
         ReadTest, ReadEnable, ReadReturn, CloseWait, Alarm, Host, HostTake,
         HostPut, HostPause
<1> QED BY <1>1, <1>2, <1>3, <1>4, <1>5, <1>6, <1>7, <1>8, <1>9 DEF Isr

LEMMA HistoryTypesStep ==
    ASSUME TypeOK, CopyInv, [Next]_vars
    PROVE  HistoryTypes'
<1> USE UartAssumption DEF HistoryTypes, history
<1>t. HistoryTypes
  BY DEF TypeOK
<1>1. CASE WritePublish
  BY <1>1, <1>t DEF WritePublish, TypeOK, ThreadTypes
<1>2. CASE ReadCopy
  <2>1. n \in 1..want /\ out \in Cells /\ out + n <= BUF_LEN
    BY <1>2, CopyFits DEF ReadCopy, At, CopyInv, TypeOK, ThreadTypes
  <2>2. \A k \in 1..n : out + k - 1 \in Cells
    BY <2>1 DEF Cells
  <2>3. [k \in 1..n |-> rx_buf[out + k - 1]] \in [1..n -> Nat]
    BY <2>2 DEF TypeOK, RingTypes
  <2>4. [k \in 1..n |-> rx_buf[out + k - 1]] \in Seq(Nat)
    BY <2>1, <2>3, SeqDef DEF TypeOK, ThreadTypes
  <2>5. got' \in Seq(Nat)
    BY <1>2, <1>t, <2>4, ConcatProperties DEF ReadCopy
  <2> QED BY <1>2, <1>t, <2>5 DEF ReadCopy
<1>3. CASE HostTake
  <2>1. Head(wfifo) \in Nat
    BY <1>3, HeadTailProperties DEF HostTake, TypeOK, UartTypes
  <2>2. Append(shown, Head(wfifo)) \in Seq(Nat)
    BY <1>t, <2>1
  <2> QED BY <1>3, <1>t, <2>2 DEF HostTake
<1>4. CASE HostPut
  BY <1>4, <1>t DEF HostPut
<1>5. CASE UNCHANGED history
  BY <1>5, <1>t
<1>6. WritePublish \/ ReadCopy \/ HostTake \/ HostPut \/ UNCHANGED history
  BY DEF Next, vars, Calls, WriteCall, ReadCall, CloseCall, Call, SetTimeout,
         Thread, WriteLoad, WriteCopy, WriteKick, WriteSpin, WriteTest,
         WriteReturn, ReadLoad, ReadPublish, ReadSpin, ReadTest, ReadEnable,
         ReadReturn, CloseWait, Isr, IsrEnter, IsrControl, IsrRxTake,
         IsrRxNone, IsrRxFull, IsrRxEnd, IsrTxPut, IsrTxEnd, Alarm, Host,
         HostPause
<1> QED BY <1>1, <1>2, <1>3, <1>4, <1>5, <1>6

LEMMA TypeStep ==
    ASSUME TypeOK, CopyInv, [Next]_vars
    PROVE  TypeOK'
  BY UartTypesStep, RingTypesStep, DriverTypesStep, ThreadTypesStep,
     IsrTypesStep, HistoryTypesStep DEF TypeOK

-----------------------------------------------------------------------------
(* The control points.                                                     *)

\* What the handler knows: the enables it finds, why it stops receiving, and
\* that the space it counts down is still free although the host drains.
LEMMA IsrInvStep ==
    ASSUME TypeOK, IsrInv, [Next]_vars
    PROVE  IsrInv'
<1> USE UartAssumption DEF IsrInv
<1>t. /\ Len(wfifo) \in 0..FIFO_DEPTH /\ space \in 0..FIFO_DEPTH
      /\ isr \in {"off", "control", "rx", "rx_end", "tx"}
  BY LenProperties DEF TypeOK, UartTypes, IsrTypes
<1>1. CASE WriteKick \/ ReadEnable
  BY <1>1 DEF WriteKick, ReadEnable, SetEnables, Kicked, Receiving, At,
              isrVars, txVars, rxVars, RxFull
<1>2. CASE IsrControl
  <2>1. RI => "RE" \in irq_enable
    BY DEF RI
  <2>2. Len(wfifo) + space' <= FIFO_DEPTH
    BY <1>2, <1>t DEF IsrControl, WSpace
  <2> QED BY <1>2, <2>1, <2>2 DEF IsrControl, uartVars, driverVars
<1>3. CASE IsrEnter
  BY <1>3 DEF IsrEnter, uartVars, driverVars
<1>4. CASE IsrRxTake
  BY <1>4 DEF IsrRxTake, driverVars
<1>5. CASE IsrRxNone
  BY <1>5 DEF IsrRxNone, driverVars
<1>6. CASE IsrRxFull
  BY <1>6 DEF IsrRxFull, RxFull, uartVars, rxVars, driverVars
<1>7. CASE IsrRxEnd
  <2>1. ien' = irq_enable' /\ isr' \in {"tx", "control"}
    BY <1>7 DEF IsrRxEnd, SetEnables
  <2> QED BY <1>7, <2>1 DEF IsrRxEnd
<1>8. CASE IsrTxPut
  <2>1. tx_buf[tx_out] \in Nat
    BY DEF TypeOK, RingTypes
  <2>2. Len(Append(wfifo, tx_buf[tx_out])) = Len(wfifo) + 1
    BY <2>1 DEF TypeOK, UartTypes
  <2>3. Len(wfifo') + space' <= FIFO_DEPTH
    BY <1>8, <1>t, <2>2 DEF IsrTxPut
  <2> QED BY <1>8, <2>3 DEF IsrTxPut, driverVars
<1>9. CASE IsrTxEnd
  <2>1. ien' = irq_enable' /\ isr' = "control"
    BY <1>9 DEF IsrTxEnd, SetEnables
  <2>2. Len(wfifo') + space' <= FIFO_DEPTH
    BY <1>9, <1>t DEF IsrTxEnd
  <2> QED BY <2>1, <2>2
<1>10. CASE ReadPublish
  BY <1>10 DEF ReadPublish, At, uartVars, driverVars, isrVars
<1>11. CASE Alarm
  BY <1>11 DEF Alarm, rxVars, isrVars, RxFull
<1>12. CASE HostTake
  <2>1. Len(Tail(wfifo)) = Len(wfifo) - 1
    BY <1>12, HeadTailProperties DEF HostTake, TypeOK, UartTypes
  <2> QED BY <1>12, <1>t, <2>1 DEF HostTake, rxVars, driverVars, isrVars, RxFull
<1>13. CASE UNCHANGED <<ien, irq_enable, isr, ravail, space, wfifo, rx_in, rx_out>>
  BY <1>13 DEF RxFull
<1>14. \/ WriteKick \/ ReadEnable \/ IsrControl \/ IsrEnter \/ IsrRxTake
       \/ IsrRxNone \/ IsrRxFull \/ IsrRxEnd \/ IsrTxPut \/ IsrTxEnd
       \/ ReadPublish \/ Alarm \/ HostTake
       \/ UNCHANGED <<ien, irq_enable, isr, ravail, space, wfifo, rx_in, rx_out>>
  BY DEF Next, vars, Calls, WriteCall, ReadCall, CloseCall, Call, SetTimeout,
         Thread, WriteLoad, WriteCopy, WritePublish, WriteSpin, WriteTest,
         WriteReturn, ReadLoad, ReadCopy, ReadSpin, ReadTest, ReadReturn,
         CloseWait, Isr, Host, HostPut, HostPause,
         uartVars, rxVars, driverVars, isrVars
<1> QED BY <1>1, <1>2, <1>3, <1>4, <1>5, <1>6, <1>7, <1>8, <1>9, <1>10, <1>11,
           <1>12, <1>13, <1>14

\* A waiting read waits on an empty ring; where there is no clock it goes on
\* only because the ring has something in it.
LEMMA ReadInvStep ==
    ASSUME TypeOK, CopyInv, ReadInv, ClockInv, [Next]_vars
    PROVE  ReadInv'
<1> USE UartAssumption DEF ReadInv, Goto
<1>t. /\ rx_in \in Cells /\ rx_out \in Cells /\ done \in Nat
      /\ nonblock \in BOOLEAN /\ in \in Cells /\ want \in Nat
  BY DEF TypeOK, RingTypes, ThreadTypes
<1>0. Counts \subseteq Nat
  BY UartAssumption
<1>1. CASE Calls
  BY <1>1 DEF Calls, WriteCall, ReadCall, CloseCall, Call, SetTimeout, At
<1>2. CASE ReadLoad
  <2>1. CASE pc' = "r_spin"
    <3>1. Least(UsedRun(rx_in, rx_out), want) \in Nat /\ ~nonblock
          /\ in' = rx_in /\ ~(UsedRun(rx_in, rx_out) > 0)
      BY <1>2, <1>t, <2>1, UsedRunFits DEF ReadLoad, Least, TypeOK, ThreadTypes
    <3>2. rx_in = rx_out
      BY <1>t, <3>1, UsedRunFits
    <3>3. want > 0 /\ want' = want /\ nonblock' = nonblock /\ rx_out' = rx_out
      BY <1>2 DEF ReadLoad, At, rxVars
    <3> QED BY <2>1, <3>1, <3>2, <3>3
  <2>2. CASE pc' # "r_spin"
    BY <1>2, <1>t, <2>2 DEF ReadLoad
  <2> QED BY <2>1, <2>2
<1>3. CASE ReadPublish
  <2>1. n \in 1..want
    BY <1>3, CopyFits DEF ReadPublish, At
  <2> QED BY <1>3, <1>t, <2>1 DEF ReadPublish
<1>4. CASE ReadSpin
  <2>1. ~HasClock => rx_in # rx_out
    BY <1>4 DEF ReadSpin, At, HostPresent, ClockInv
  <2> QED BY <1>4, <2>1 DEF ReadSpin, At, rxVars
<1>5. CASE ReadCopy \/ ReadTest \/ ReadEnable
  BY <1>5 DEF ReadCopy, ReadTest, ReadEnable, At
<1>6. CASE WriteLoad \/ WriteCopy \/ WritePublish
  BY <1>6 DEF WriteLoad, WriteCopy, WritePublish
<1>7. CASE WriteKick \/ WriteSpin \/ WriteTest
  BY <1>7 DEF WriteKick, WriteSpin, WriteTest
<1>8. CASE WriteReturn \/ ReadReturn \/ CloseWait
  BY <1>8 DEF WriteReturn, ReadReturn, CloseWait, Return, At, isrVars
<1>9. CASE IsrRxTake
  <2>1. rx_in # rx_out => Advance(rx_in, 1) # rx_out
    BY <1>9 DEF IsrRxTake, RxFull
  <2> QED BY <1>9, <2>1 DEF IsrRxTake, RxFull, threadVars
<1>10. CASE UNCHANGED <<rxVars, threadVars>>
  BY <1>10 DEF rxVars, threadVars
<1>11. \/ Calls \/ Thread \/ IsrRxTake \/ UNCHANGED <<rxVars, threadVars>>
  BY DEF Next, vars, Isr, IsrEnter, IsrControl, IsrRxNone, IsrRxFull, IsrRxEnd,
         IsrTxPut, IsrTxEnd, Alarm, Host, HostTake, HostPut, HostPause
<1> QED BY <1>1, <1>2, <1>3, <1>4, <1>5, <1>6, <1>7, <1>8, <1>9, <1>10, <1>11
        DEF Thread

\* The alarm stops counting two short of INT_MAX, and never counts where
\* there is no clock.
LEMMA ClockInvStep ==
    ASSUME TypeOK, ClockInv, [Next]_vars
    PROVE  ClockInv'
<1> USE UartAssumption DEF ClockInv
<1>1. CASE SetTimeout
  BY <1>1 DEF SetTimeout
<1>2. CASE Alarm
  BY <1>2 DEF Alarm, InactiveLimit, TypeOK, DriverTypes
<1>3. CASE UNCHANGED <<host_inactive, timeout>>
  BY <1>3
<1>4. SetTimeout \/ Alarm \/ UNCHANGED <<host_inactive, timeout>>
  BY DEF Next, vars, Calls, WriteCall, ReadCall, CloseCall, Call,
         Thread, WriteLoad, WriteCopy, WritePublish, WriteKick, WriteSpin,
         WriteTest, WriteReturn, ReadLoad, ReadCopy, ReadPublish, ReadSpin,
         ReadTest, ReadEnable, ReadReturn, CloseWait, Isr, IsrEnter,
         IsrControl, IsrRxTake, IsrRxNone, IsrRxFull, IsrRxEnd, IsrTxPut,
         IsrTxEnd, Host, HostTake, HostPut, HostPause, driverVars
<1> QED BY <1>1, <1>2, <1>3, <1>4

\* A run being copied stays free (in use): the handler only makes more room
\* on the transmit side and only puts more in on the receive side.
LEMMA CopyInvStep ==
    ASSUME TypeOK, CopyInv, ReadInv, [Next]_vars
    PROVE  CopyInv'
<1> USE UartAssumption DEF CopyInv, Goto
<1>t. /\ tx_in \in Cells /\ tx_out \in Cells /\ rx_in \in Cells /\ rx_out \in Cells
      /\ in \in Cells /\ out \in Cells /\ n \in Nat /\ want \in Nat /\ sent \in Nat
      /\ tx_buf \in [Cells -> Nat]
  BY DEF TypeOK, RingTypes, ThreadTypes, HistoryTypes
<1>1. CASE WriteLoad
  <2>1. CASE pc' = "w_copy"
    <3> DEFINE run == FreeRun(tx_in, tx_out)
    <3>1. in' = tx_in /\ n' = Least(run, want) /\ want # 0 /\ run # 0
      BY <1>1, <2>1 DEF WriteLoad
    <3>2. /\ run \in 0..(BUF_LEN - 1) /\ tx_in + run <= BUF_LEN
          /\ Used(tx_in, tx_out) + run < BUF_LEN
      BY <1>t, FreeRunFits
    <3>3. Used(tx_in, tx_out) \in Nat
      BY <1>t, UsedBounds
    <3>4. n' \in 1..want /\ n' <= run
      BY <1>t, <3>1, <3>2 DEF Least
    <3>5. tx_in + n' <= BUF_LEN /\ Used(tx_in, tx_out) + n' < BUF_LEN
      <4>1. tx_in \in Nat /\ run \in Nat /\ n' \in Nat
        BY <1>t, <3>2, <3>4 DEF Cells
      <4> QED BY <4>1, <3>2, <3>3, <3>4, ShorterRun
    <3>6. UNCHANGED <<tx_in, tx_out, want>>
      BY <1>1 DEF WriteLoad, txVars
    <3>7. Used(tx_in, tx_out)' = Used(tx_in, tx_out)
      BY <3>6 DEF Used
    <3> QED BY <2>1, <3>1, <3>4, <3>5, <3>6, <3>7
  <2>2. CASE pc' = "w_kick"
    BY <2>2
  <2> QED BY <1>1, <2>1, <2>2 DEF WriteLoad
<1>2. CASE WriteCopy
  <2>1. /\ in = tx_in /\ n \in 1..want
        /\ in + n <= BUF_LEN /\ Used(tx_in, tx_out) + n < BUF_LEN
    BY <1>2 DEF WriteCopy, At
  <2>2. /\ pc' = "w_publish"
        /\ UNCHANGED <<tx_in, tx_out, in, out, n, want, sent>>
    BY <1>2 DEF WriteCopy, history
  <2>3. \A c \in in..(in + n - 1) : tx_buf'[c] = sent + 1 + (c - in)
    <3>1. \A c \in in..(in + n - 1) : c \in Cells
      BY <1>t, <2>1 DEF Cells
    <3> QED BY <1>2, <3>1 DEF WriteCopy
  <2>4. Used(tx_in, tx_out)' = Used(tx_in, tx_out)
    BY <2>2 DEF Used
  <2> QED BY <2>1, <2>2, <2>3, <2>4
<1>3. CASE ReadLoad
  <2>1. CASE pc' = "r_copy"
    <3> DEFINE run == UsedRun(rx_in, rx_out)
    <3>1. out' = rx_out /\ n' = Least(run, want) /\ run > 0 /\ pc = "r_load"
      BY <1>3, <2>1 DEF ReadLoad, At
    <3>2. /\ run \in 0..BUF_LEN /\ rx_out + run <= BUF_LEN
          /\ run <= Used(rx_in, rx_out)
      BY <1>t, UsedRunFits
    <3>3. Used(rx_in, rx_out) \in Nat
      BY <1>t, UsedBounds
    <3>4. want > 0
      BY <3>1 DEF ReadInv
    <3>5. n' \in 1..want /\ n' <= run
      BY <1>t, <3>1, <3>2, <3>4 DEF Least
    <3>6. rx_out + n' <= BUF_LEN /\ n' <= Used(rx_in, rx_out)
      <4>1. rx_out \in Nat /\ run \in Nat /\ n' \in Nat
        BY <1>t, <3>2, <3>5 DEF Cells
      <4>2. rx_out + n' <= BUF_LEN
        BY <4>1, <3>2, <3>5, ShorterRun
      <4>3. ASSUME NEW a \in Nat, NEW r \in Nat, NEW k \in Nat, k <= r, r <= a
            PROVE  k <= a
        BY <4>3
      <4> QED BY <4>1, <4>2, <4>3, <3>2, <3>3, <3>5
    <3>7. UNCHANGED <<rx_in, rx_out, want>>
      BY <1>3 DEF ReadLoad, rxVars
    <3>8. Used(rx_in, rx_out)' = Used(rx_in, rx_out)
      BY <3>7 DEF Used
    <3> QED BY <2>1, <3>1, <3>5, <3>6, <3>7, <3>8
  <2>2. CASE pc' # "r_copy"
    BY <1>3, <2>2 DEF ReadLoad
  <2> QED BY <2>1, <2>2
<1>4. CASE ReadCopy
  <2>1. /\ pc = "r_copy" /\ pc' = "r_publish"
        /\ UNCHANGED <<rx_in, rx_out, out, n, want>>
    BY <1>4 DEF ReadCopy, At, rxVars
  <2>2. Used(rx_in, rx_out)' = Used(rx_in, rx_out)
    BY <2>1 DEF Used
  <2> QED BY <2>1, <2>2
<1>5. CASE IsrTxPut
  <2>1. /\ UNCHANGED <<tx_buf, tx_in, rx_in, rx_out, pc, in, out, n, want, sent>>
        /\ tx_out' = Advance(tx_out, 1) /\ tx_out # tx_in
    BY <1>5 DEF IsrTxPut, rxVars, threadVars, history
  <2>2. Used(tx_in, tx_out) \in 1..(BUF_LEN - 1)
    BY <1>t, <2>1, UsedBounds
  <2>3. Used(tx_in, tx_out)' = Used(tx_in, tx_out) - 1
    BY <1>t, <2>1, <2>2, UsedAfterTake
  <2>4. Used(rx_in, rx_out)' = Used(rx_in, rx_out)
    BY <2>1 DEF Used
  <2> QED BY <1>t, <2>1, <2>2, <2>3, <2>4
<1>6. CASE IsrRxTake
  <2>1. /\ UNCHANGED <<tx_buf, tx_in, tx_out, rx_out, pc, in, out, n, want, sent>>
        /\ rx_in' = Advance(rx_in, 1) /\ rx_in' # rx_out
    BY <1>6 DEF IsrRxTake, RxFull, txVars, threadVars, history
  <2>2. /\ Used(rx_in, rx_out) \in 0..(BUF_LEN - 1)
        /\ Used(rx_in, rx_out) # BUF_LEN - 1
    BY <1>t, <2>1, UsedBounds, FullMeansNoRoom
  <2>3. Used(rx_in, rx_out)' = Used(rx_in, rx_out) + 1
    BY <1>t, <2>1, <2>2, UsedAfterPut
  <2>4. Used(tx_in, tx_out)' = Used(tx_in, tx_out)
    BY <2>1 DEF Used
  <2> QED BY <1>t, <2>1, <2>2, <2>3, <2>4
<1>7. CASE pc' \notin {"w_copy", "w_publish", "r_copy", "r_publish"}
  BY <1>7
<1>8. CASE UNCHANGED <<tx_buf, tx_in, tx_out, rx_in, rx_out, pc, in, out, n, want,
                       sent>>
  BY <1>8 DEF Used
<1>9. \/ WriteLoad \/ WriteCopy \/ ReadLoad \/ ReadCopy \/ IsrTxPut \/ IsrRxTake
      \/ pc' \notin {"w_copy", "w_publish", "r_copy", "r_publish"}
      \/ UNCHANGED <<tx_buf, tx_in, tx_out, rx_in, rx_out, pc, in, out, n, want,
                     sent>>
  <2>1. CASE Calls
    BY <2>1 DEF Calls, WriteCall, ReadCall, CloseCall, Call, SetTimeout, At
  <2>2. CASE Thread
    BY <2>2 DEF Thread, WritePublish, WriteKick, WriteSpin, WriteTest,
                WriteReturn, ReadPublish, ReadSpin, ReadTest, ReadEnable,
                ReadReturn, CloseWait, Return
  <2>3. CASE Isr \/ Alarm \/ Host \/ UNCHANGED vars
    BY <2>3 DEF vars, Isr, IsrEnter, IsrControl, IsrRxNone, IsrRxFull,
                IsrRxEnd, IsrTxEnd, Alarm, Host, HostTake, HostPut, HostPause,
                txVars, rxVars, threadVars, history
  <2> QED BY <2>1, <2>2, <2>3 DEF Next
<1> QED BY <1>1, <1>2, <1>3, <1>4, <1>5, <1>6, <1>7, <1>8, <1>9

-----------------------------------------------------------------------------
(* The streams.                                                            *)

\* The handler finds room for every character it writes.
LEMMA NoOverflowStep ==
    ASSUME TypeOK, IsrInv, NoOverflow, [Next]_vars
    PROVE  NoOverflow'
<1>1. CASE IsrTxPut
  <2>1. /\ space \in 0..FIFO_DEPTH /\ space > 0
        /\ Len(wfifo) \in Nat /\ Len(wfifo) + space <= FIFO_DEPTH
    BY <1>1, LenProperties DEF IsrTxPut, IsrInv, TypeOK, UartTypes, IsrTypes
  <2>2. Len(wfifo) # FIFO_DEPTH
    BY <2>1, UartAssumption
  <2> QED BY <1>1, <2>2 DEF IsrTxPut, NoOverflow
<1>2. CASE UNCHANGED woverflow
  BY <1>2 DEF NoOverflow
<1>3. IsrTxPut \/ UNCHANGED woverflow
  BY TxFrame DEF WriteCopy, WritePublish, HostTake, uartVars
<1> QED BY <1>1, <1>2, <1>3

LEMMA TxStreamStep ==
    ASSUME TypeOK, CopyInv, IsrInv, TxStream, [Next]_vars
    PROVE  TxStream'
<1> USE UartAssumption
<1>t. /\ tx_in \in Cells /\ tx_out \in Cells /\ tx_buf \in [Cells -> Nat]
      /\ wfifo \in Seq(Nat) /\ shown \in Seq(Nat) /\ sent \in Nat
      /\ Len(wfifo) \in Nat /\ Len(shown) \in Nat /\ n \in Nat
      /\ space \in 0..FIFO_DEPTH
  BY LenProperties DEF TypeOK, RingTypes, UartTypes, HistoryTypes, ThreadTypes,
                       IsrTypes
<1>u. Used(tx_in, tx_out) \in 0..(BUF_LEN - 1)
  BY <1>t, UsedBounds
<1>1. CASE WriteCopy
  <2>1. /\ in = tx_in /\ n \in 1..want /\ in + n <= BUF_LEN
        /\ Used(tx_in, tx_out) + n < BUF_LEN
        /\ UNCHANGED <<tx_in, tx_out, wfifo, shown, sent>>
    BY <1>1 DEF WriteCopy, At, CopyInv, uartVars, history
  <2>2. ASSUME NEW c \in Cells, Used(c, tx_out) < Used(tx_in, tx_out)
        PROVE  c \notin in..(in + n - 1)
    BY <1>t, <2>1, <2>2 DEF Used, Cells
  <2>3. \A c \in Cells : Used(c, tx_out) < Used(tx_in, tx_out)
                         => tx_buf'[c] = tx_buf[c]
    BY <1>1, <2>2 DEF WriteCopy
  <2>4. \A c \in Cells : Used(c, tx_out)' = Used(c, tx_out)
    BY <2>1 DEF Used
  <2>5. Used(tx_in, tx_out)' = Used(tx_in, tx_out)
    BY <2>1 DEF Used
  <2> QED BY <2>1, <2>3, <2>4, <2>5 DEF TxStream
<1>2. CASE WritePublish
  <2>1. /\ in = tx_in /\ n \in 1..want /\ in + n <= BUF_LEN
        /\ Used(tx_in, tx_out) + n < BUF_LEN
        /\ \A c \in in..(in + n - 1) : tx_buf[c] = sent + 1 + (c - in)
        /\ UNCHANGED <<tx_buf, tx_out, wfifo, shown>>
        /\ tx_in' = Advance(tx_in, n) /\ sent' = sent + n
    BY <1>2 DEF WritePublish, At, CopyInv, uartVars
  <2>2. n \in 0..(BUF_LEN - 1)
    BY <1>t, <1>u, <2>1
  <2>3. Used(tx_in, tx_out)' = Used(tx_in, tx_out) + n
    BY <1>t, <2>1, <2>2, UsedAfterPut
  <2>4. ASSUME NEW c \in Cells, Used(c, tx_out) < Used(tx_in, tx_out) + n,
               ~(Used(c, tx_out) < Used(tx_in, tx_out))
        PROVE  /\ c \in in..(in + n - 1)
               /\ c - in = Used(c, tx_out) - Used(tx_in, tx_out)
    BY <1>t, <2>1, <2>4 DEF Used, Cells
  <2>5. sent = Len(shown) + Len(wfifo) + Used(tx_in, tx_out)
    BY DEF TxStream
  <2>6. ASSUME NEW c \in Cells, Used(c, tx_out) < Used(tx_in, tx_out) + n
        PROVE  tx_buf[c] = Len(shown) + Len(wfifo) + Used(c, tx_out) + 1
    <3>1. CASE Used(c, tx_out) < Used(tx_in, tx_out)
      BY <3>1 DEF TxStream
    <3>2. CASE ~(Used(c, tx_out) < Used(tx_in, tx_out))
      <4>1. Used(c, tx_out) \in Nat
        BY <1>t, UsedBounds
      <4>2. /\ tx_buf[c] = sent + 1 + (c - in)
            /\ c - in = Used(c, tx_out) - Used(tx_in, tx_out)
        BY <2>1, <2>4, <2>6, <3>2
      <4> QED BY <4>1, <4>2, <2>5, <1>t, <1>u
    <3> QED BY <3>1, <3>2
  <2>7. sent' = Len(shown) + Len(wfifo) + (Used(tx_in, tx_out) + n)
    BY <1>t, <1>u, <2>1, <2>5
  <2>8. \A c \in Cells : Used(c, tx_out)' = Used(c, tx_out)
    BY <2>1 DEF Used
  <2> QED BY <2>1, <2>3, <2>6, <2>7, <2>8 DEF TxStream
<1>3. CASE IsrTxPut
  <2> DEFINE x == tx_buf[tx_out]
  <2>1. /\ tx_out # tx_in /\ space > 0
        /\ tx_out' = Advance(tx_out, 1)
        /\ UNCHANGED <<tx_buf, tx_in, shown, sent>>
    BY <1>3 DEF IsrTxPut, history
  <2>2. Len(wfifo) # FIFO_DEPTH
    BY <1>t, <2>1 DEF IsrInv
  <2>3. wfifo' = Append(wfifo, x)
    BY <1>3, <2>2 DEF IsrTxPut
  <2>4. /\ Len(wfifo') = Len(wfifo) + 1
        /\ wfifo'[Len(wfifo) + 1] = x
        /\ \A k \in 1..Len(wfifo) : wfifo'[k] = wfifo[k]
    BY <1>t, <2>3
  <2>5. Used(tx_in, tx_out) \in 1..(BUF_LEN - 1)
    BY <1>t, <2>1, UsedBounds
  <2>6. /\ Advance(tx_out, 1) \in Cells
        /\ Used(tx_in, tx_out)' = Used(tx_in, tx_out) - 1
    BY <1>t, <2>1, <2>5, UsedAfterTake
  <2>7. x = Len(shown) + Len(wfifo) + 1
    <3>1. Used(tx_out, tx_out) = 0
      BY <1>t, UsedBounds
    <3>2. \A c \in Cells : Used(c, tx_out) < Used(tx_in, tx_out)
              => tx_buf[c] = Len(shown) + Len(wfifo) + Used(c, tx_out) + 1
      BY DEF TxStream
    <3>3. Used(tx_out, tx_out) < Used(tx_in, tx_out)
      BY <2>5, <3>1
    <3>4. tx_buf[tx_out] = Len(shown) + Len(wfifo) + Used(tx_out, tx_out) + 1
      BY <1>t, <3>2, <3>3
    <3> QED BY <1>t, <3>1, <3>4
  <2>8. ASSUME NEW c \in Cells,
               Used(c, tx_out)' < Used(tx_in, tx_out) - 1
        PROVE  tx_buf[c] = Len(shown) + (Len(wfifo) + 1) + Used(c, tx_out)' + 1
    <3>1. Used(c, tx_out)' = Used(c, Advance(tx_out, 1))
      BY <2>1 DEF Used
    <3>2. Used(c, tx_out) = Used(c, Advance(tx_out, 1)) + 1
      BY <1>t, <2>5, <2>8, <3>1, PlaceAfterTake
    <3>3. Used(c, Advance(tx_out, 1)) \in Nat
      BY <2>6, UsedBounds
    <3>4. tx_buf[c] = Len(shown) + Len(wfifo) + Used(c, tx_out) + 1
      BY <2>5, <2>8, <3>1, <3>2, <3>3 DEF TxStream
    <3> QED BY <1>t, <3>1, <3>2, <3>3, <3>4
  <2>9. /\ sent = Len(shown) + Len(wfifo) + Used(tx_in, tx_out)
        /\ \A k \in 1..Len(shown) : shown[k] = k
        /\ \A k \in 1..Len(wfifo) : wfifo[k] = Len(shown) + k
    BY DEF TxStream
  <2>10. sent = Len(shown) + (Len(wfifo) + 1) + (Used(tx_in, tx_out) - 1)
    BY <1>t, <2>5, <2>9
  <2>11. \A k \in 1..(Len(wfifo) + 1) : wfifo'[k] = Len(shown) + k
    BY <1>t, <2>4, <2>7, <2>9
  <2> HIDE DEF x
  <2> QED BY <2>1, <2>4, <2>6, <2>8, <2>9, <2>10, <2>11 DEF TxStream
<1>4. CASE HostTake
  <2>1. /\ wfifo # <<>> /\ wfifo' = Tail(wfifo)
        /\ shown' = Append(shown, Head(wfifo))
        /\ UNCHANGED <<tx_buf, tx_in, tx_out, sent>>
    BY <1>4 DEF HostTake, txVars
  <2>2. /\ Head(wfifo) = wfifo[1] /\ Head(wfifo) \in Nat
        /\ Len(wfifo') = Len(wfifo) - 1 /\ Len(wfifo) \in Nat \ {0}
        /\ \A k \in 1..(Len(wfifo) - 1) : wfifo'[k] = wfifo[k + 1]
    BY <1>t, <2>1, HeadTailProperties, EmptySeq
  <2>3. /\ Len(shown') = Len(shown) + 1
        /\ shown'[Len(shown) + 1] = Head(wfifo)
        /\ \A k \in 1..Len(shown) : shown'[k] = shown[k]
    BY <1>t, <2>1, <2>2
  <2>4. /\ sent = Len(shown) + Len(wfifo) + Used(tx_in, tx_out)
        /\ \A k \in 1..Len(shown) : shown[k] = k
        /\ \A k \in 1..Len(wfifo) : wfifo[k] = Len(shown) + k
        /\ \A c \in Cells : Used(c, tx_out) < Used(tx_in, tx_out)
               => tx_buf[c] = Len(shown) + Len(wfifo) + Used(c, tx_out) + 1
    BY DEF TxStream
  <2>5. \A k \in 1..(Len(shown) + 1) : shown'[k] = k
    <3>1. wfifo[1] = Len(shown) + 1
      BY <1>t, <2>2, <2>4
    <3>2. \A k \in 1..(Len(shown) + 1) : k \in 1..Len(shown) \/ k = Len(shown) + 1
      BY <1>t
    <3> QED BY <2>2, <2>3, <2>4, <3>1, <3>2
  <2>6. \A k \in 1..(Len(wfifo) - 1) : wfifo'[k] = Len(shown) + 1 + k
    BY <1>t, <2>2, <2>4
  <2>7. Len(shown') + Len(wfifo') = Len(shown) + Len(wfifo)
    BY <1>t, <2>2, <2>3
  <2>8. Used(tx_in, tx_out)' = Used(tx_in, tx_out)
    BY <2>1 DEF Used
  <2>9. \A c \in Cells : Used(c, tx_out)' = Used(c, tx_out)
    BY <2>1 DEF Used
  <2> QED BY <2>1, <2>2, <2>3, <2>4, <2>5, <2>6, <2>7, <2>8, <2>9 DEF TxStream
<1>5. CASE UNCHANGED <<tx_buf, tx_in, tx_out, wfifo, woverflow, sent, shown>>
  BY <1>5 DEF TxStream, Used
<1> QED BY <1>1, <1>2, <1>3, <1>4, <1>5, TxFrame

LEMMA RxStreamStep ==
    ASSUME TypeOK, CopyInv, IsrInv, RxStream, [Next]_vars
    PROVE  RxStream'
<1> USE UartAssumption
<1>t. /\ rx_in \in Cells /\ rx_out \in Cells /\ rx_buf \in [Cells -> Nat]
      /\ rfifo \in Seq(Nat) /\ got \in Seq(Nat) /\ typed \in Nat
      /\ Len(rfifo) \in Nat /\ Len(got) \in Nat /\ n \in Nat
  BY LenProperties DEF TypeOK, RingTypes, UartTypes, HistoryTypes, ThreadTypes
<1>u. Used(rx_in, rx_out) \in 0..(BUF_LEN - 1)
  BY <1>t, UsedBounds
<1> DEFINE taken == Len(got) - (IF pc = "r_publish" THEN n ELSE 0)
<1>s. /\ taken \in Int
      /\ \A k \in 1..Len(got) : got[k] = k
      /\ \A c \in Cells : Used(c, rx_out) < Used(rx_in, rx_out)
                            => rx_buf[c] = taken + Used(c, rx_out) + 1
      /\ \A k \in 1..Len(rfifo) : rfifo[k] = taken + Used(rx_in, rx_out) + k
      /\ typed = taken + Used(rx_in, rx_out) + Len(rfifo)
  BY <1>t DEF RxStream
<1>1. CASE ReadCopy
  <2>1. /\ pc = "r_copy" /\ pc' = "r_publish" /\ n' = n
        /\ out = rx_out /\ n \in 1..want /\ out + n <= BUF_LEN
        /\ n <= Used(rx_in, rx_out)
        /\ UNCHANGED <<rx_buf, rx_in, rx_out, rfifo, typed>>
    BY <1>1 DEF ReadCopy, At, Goto, CopyInv, uartVars, rxVars
  <2> DEFINE run == [k \in 1..n |-> rx_buf[out + k - 1]]
  <2>2. \A k \in 1..n : /\ out + k - 1 \in Cells
                        /\ Used(out + k - 1, rx_out) = k - 1
    BY <1>t, <2>1 DEF Used, Cells
  <2>3. \A k \in 1..n : run[k] = Len(got) + k
    <3> SUFFICES ASSUME NEW k \in 1..n
                 PROVE  rx_buf[out + k - 1] = Len(got) + k
      OBVIOUS
    <3>1. Used(out + k - 1, rx_out) < Used(rx_in, rx_out)
      BY <1>t, <1>u, <2>1, <2>2
    <3>2. rx_buf[out + k - 1] = taken + Used(out + k - 1, rx_out) + 1
      BY <1>s, <2>2, <3>1
    <3>3. taken = Len(got)
      BY <1>t, <2>1
    <3> QED BY <1>t, <2>2, <3>2, <3>3
  <2>4. run \in Seq(Nat) /\ Len(run) = n
    <3>1. run \in [1..n -> Nat]
      BY <1>t, <2>2
    <3> QED BY <1>t, <3>1, SeqDef
  <2>5. got' = got \o run
    BY <1>1 DEF ReadCopy
  <2>6. /\ Len(got') = Len(got) + n
        /\ \A k \in 1..(Len(got) + n) :
               got'[k] = IF k <= Len(got) THEN got[k] ELSE run[k - Len(got)]
    <3> HIDE DEF run
    <3> QED BY <1>t, <2>4, <2>5, ConcatProperties
  <2>7. \A k \in 1..(Len(got) + n) : got'[k] = k
    <3> SUFFICES ASSUME NEW k \in 1..(Len(got) + n)
                 PROVE  got'[k] = k
      OBVIOUS
    <3> HIDE DEF run
    <3>0. Len(got) \in Nat /\ n \in Nat
      BY <1>t
    <3>1. CASE k <= Len(got)
      <4>1. k \in 1..Len(got)
        BY <3>0, <3>1
      <4> QED BY <1>s, <2>6, <3>1, <4>1
    <3>2. CASE k > Len(got)
      <4>1. k - Len(got) \in 1..n
        BY <3>0, <3>2
      <4>2. run[k - Len(got)] = Len(got) + (k - Len(got))
        BY <2>3, <4>1
      <4>3. got'[k] = run[k - Len(got)]
        BY <2>6, <3>0, <3>2
      <4> QED BY <3>0, <4>2, <4>3
    <3> QED BY <3>0, <3>1, <3>2
  <2>8. (Len(got') - n') = taken
    BY <1>t, <2>1, <2>6
  <2>9. Used(rx_in, rx_out)' = Used(rx_in, rx_out)
    BY <2>1 DEF Used
  <2>10. \A c \in Cells : Used(c, rx_out)' = Used(c, rx_out)
    BY <2>1 DEF Used
  <2> HIDE DEF run, taken
  <2> QED BY <1>s, <2>1, <2>6, <2>7, <2>8, <2>9, <2>10 DEF RxStream
<1>2. CASE ReadPublish
  <2>0. pc = "r_publish" /\ pc' \in {"r_load", "r_enable"}
    BY <1>2 DEF ReadPublish, At, Goto
  <2>1. /\ pc = "r_publish" /\ pc' # "r_publish"
        /\ out = rx_out /\ n \in 1..want /\ n <= Used(rx_in, rx_out)
        /\ rx_out' = Advance(rx_out, n)
        /\ UNCHANGED <<rx_buf, rx_in, rfifo, typed, got>>
    <3>1. out = rx_out /\ n \in 1..want /\ n <= Used(rx_in, rx_out)
      BY <2>0 DEF CopyInv
    <3> QED BY <1>2, <2>0, <3>1 DEF ReadPublish, uartVars, history
  <2>2. n \in 0..(BUF_LEN - 1) /\ Len(got) = taken + n
    BY <1>t, <1>u, <2>1
  <2>3. /\ Advance(rx_out, n) \in Cells
        /\ Used(rx_in, rx_out)' = Used(rx_in, rx_out) - n
    BY <1>t, <2>1, <2>2, UsedAfterTake
  <2>4. ASSUME NEW c \in Cells, Used(c, rx_out)' < Used(rx_in, rx_out) - n
        PROVE  rx_buf[c] = (taken + n) + Used(c, rx_out)' + 1
    <3>1. Used(c, rx_out)' = Used(c, Advance(rx_out, n))
      BY <2>1 DEF Used
    <3>2. Used(c, rx_out) = Used(c, Advance(rx_out, n)) + n
      BY <1>t, <2>1, <2>2, <2>4, <3>1, PlaceAfterTake
    <3>3. Used(c, Advance(rx_out, n)) \in Nat
      BY <2>3, UsedBounds
    <3>4. Used(c, rx_out) < Used(rx_in, rx_out)
      BY <1>t, <1>u, <2>4, <3>1, <3>2, <3>3
    <3>5. rx_buf[c] = taken + Used(c, rx_out) + 1
      BY <1>s, <3>4
    <3> HIDE DEF taken
    <3> QED BY <1>t, <1>s, <3>1, <3>2, <3>3, <3>5
  <2>5. \A k \in 1..Len(rfifo) :
            rfifo[k] = (taken + n) + (Used(rx_in, rx_out) - n) + k
    <3> HIDE DEF taken
    <3> QED BY <1>s, <1>t, <1>u
  <2>6. typed = (taken + n) + (Used(rx_in, rx_out) - n) + Len(rfifo)
    <3> HIDE DEF taken
    <3> QED BY <1>s, <1>t, <1>u
  <2> HIDE DEF taken
  <2> QED BY <1>s, <2>1, <2>2, <2>3, <2>4, <2>5, <2>6 DEF RxStream
<1>3. CASE IsrRxTake
  <2>1. /\ rfifo # <<>> /\ rfifo' = Tail(rfifo)
        /\ rx_buf' = [rx_buf EXCEPT ![rx_in] = Head(rfifo)]
        /\ rx_in' = Advance(rx_in, 1) /\ Advance(rx_in, 1) # rx_out
        /\ UNCHANGED <<rx_out, typed, got, pc, n>>
    BY <1>3 DEF IsrRxTake, RxFull, threadVars, history
  <2>2. /\ Head(rfifo) = rfifo[1] /\ Len(rfifo) \in Nat \ {0}
        /\ Len(rfifo') = Len(rfifo) - 1
        /\ \A k \in 1..(Len(rfifo) - 1) : rfifo'[k] = rfifo[k + 1]
    BY <1>t, <2>1, HeadTailProperties, EmptySeq
  <2>3. Used(rx_in, rx_out) + 1 < BUF_LEN
    BY <1>t, <1>u, <2>1, FullMeansNoRoom
  <2>4. Used(rx_in, rx_out)' = Used(rx_in, rx_out) + 1
    BY <1>t, <2>1, <2>3, UsedAfterPut
  <2>5. Head(rfifo) = taken + Used(rx_in, rx_out) + 1
    BY <1>s, <2>2
  <2> HIDE DEF taken
  <2>6. ASSUME NEW c \in Cells, Used(c, rx_out) < Used(rx_in, rx_out) + 1
        PROVE  rx_buf'[c] = taken + Used(c, rx_out) + 1
    <3>1. CASE c = rx_in
      BY <1>t, <2>1, <2>5, <3>1
    <3>2. CASE c # rx_in
      <4>1. Used(c, rx_out) # Used(rx_in, rx_out)
        BY <1>t, <3>2, UsedInjective
      <4>2. Used(c, rx_out) \in Nat
        BY <1>t, UsedBounds
      <4>3. Used(c, rx_out) < Used(rx_in, rx_out)
        BY <1>u, <2>6, <4>1, <4>2
      <4> QED BY <1>s, <1>t, <2>1, <3>2, <4>3
    <3> QED BY <3>1, <3>2
  <2>7. ASSUME NEW k \in 1..(Len(rfifo) - 1)
        PROVE  rfifo'[k] = taken + (Used(rx_in, rx_out) + 1) + k
    <3>1. k + 1 \in 1..Len(rfifo)
      BY <2>2
    <3>2. rfifo[k + 1] = taken + Used(rx_in, rx_out) + (k + 1)
      BY <1>s, <3>1
    <3> QED BY <1>s, <1>u, <2>2, <3>2
  <2>8. typed = taken + (Used(rx_in, rx_out) + 1) + (Len(rfifo) - 1)
    BY <1>s, <1>t, <1>u, <2>2
  <2>9. \A c \in Cells : Used(c, rx_out)' = Used(c, rx_out)
    BY <2>1 DEF Used
  <2>10. taken' = taken
    BY <2>1 DEF taken
  <2> QED BY <1>s, <2>1, <2>2, <2>4, <2>6, <2>7, <2>8, <2>9, <2>10
          DEF RxStream, taken
<1>4. CASE HostPut
  <2>1. /\ typed' = typed + 1 /\ rfifo' = Append(rfifo, typed + 1)
        /\ UNCHANGED <<rx_buf, rx_in, rx_out, got, pc, n>>
    BY <1>4 DEF HostPut, rxVars, threadVars
  <2>2. /\ Len(rfifo') = Len(rfifo) + 1
        /\ rfifo'[Len(rfifo) + 1] = typed + 1
        /\ \A k \in 1..Len(rfifo) : rfifo'[k] = rfifo[k]
    BY <1>t, <2>1
  <2> HIDE DEF taken
  <2>3. \A k \in 1..(Len(rfifo) + 1) :
            rfifo'[k] = taken + Used(rx_in, rx_out) + k
    <3>0. Len(rfifo) \in Nat
      BY <1>t
    <3>1. \A k \in 1..(Len(rfifo) + 1) : k \in 1..Len(rfifo) \/ k = Len(rfifo) + 1
      BY <3>0
    <3>2. typed + 1 = taken + Used(rx_in, rx_out) + (Len(rfifo) + 1)
      BY <1>s, <1>t, <1>u
    <3> QED BY <1>s, <2>2, <3>1, <3>2
  <2>4. typed' = taken + Used(rx_in, rx_out) + (Len(rfifo) + 1)
    BY <1>s, <1>t, <1>u, <2>1
  <2>5. Used(rx_in, rx_out)' = Used(rx_in, rx_out)
    BY <2>1 DEF Used
  <2>6. \A c \in Cells : Used(c, rx_out)' = Used(c, rx_out)
    BY <2>1 DEF Used
  <2>7. taken' = taken
    BY <2>1 DEF taken
  <2> QED BY <1>s, <2>1, <2>2, <2>3, <2>4, <2>5, <2>6, <2>7 DEF RxStream, taken
<1>5. CASE UNCHANGED <<rx_buf, rx_in, rx_out, rfifo, typed, got, pc, n>>
  BY <1>5 DEF RxStream, Used
<1>6. CASE /\ UNCHANGED <<rx_buf, rx_in, rx_out, rfifo, typed, got>>
           /\ pc # "r_publish" /\ pc' # "r_publish"
  BY <1>6 DEF RxStream, Used
<1> HIDE DEF taken
<1> QED BY <1>1, <1>2, <1>3, <1>4, <1>5, <1>6, RxFrame

-----------------------------------------------------------------------------
(* The interrupt enables and the results.                                  *)

\* The handler turns the transmit interrupt off only on an empty ring.
LEMMA TxArmedStep ==
    ASSUME TypeOK, TxArmed, [Next]_vars
    PROVE  TxArmed'
<1> USE DEF TxArmed
<1>1. CASE Calls
  BY <1>1 DEF Calls, WriteCall, ReadCall, CloseCall, Call, SetTimeout, At, Goto,
              txVars, driverVars
<1>2. CASE WriteLoad \/ WriteCopy \/ WritePublish
  BY <1>2 DEF WriteLoad, WriteCopy, WritePublish, At, Goto, driverVars
<1>3. CASE WriteKick
  BY <1>3 DEF WriteKick, SetEnables, Kicked
<1>4. CASE WriteSpin \/ WriteTest \/ WriteReturn
  BY <1>4 DEF WriteSpin, WriteTest, WriteReturn, Return, At, Goto, txVars,
              driverVars
<1>5. CASE ReadLoad \/ ReadCopy \/ ReadPublish \/ ReadSpin \/ ReadTest
  BY <1>5 DEF ReadLoad, ReadCopy, ReadPublish, ReadSpin, ReadTest, At, Goto,
              txVars, driverVars
<1>6. CASE ReadEnable
  BY <1>6 DEF ReadEnable, SetEnables, Receiving, At, Goto, txVars
<1>7. CASE ReadReturn \/ CloseWait
  BY <1>7 DEF ReadReturn, CloseWait, Return, At, Goto, txVars, driverVars
<1>8. CASE IsrRxEnd
  BY <1>8 DEF IsrRxEnd, SetEnables, txVars, threadVars
<1>9. CASE IsrTxPut
  BY <1>9 DEF IsrTxPut, driverVars, threadVars
<1>10. CASE IsrTxEnd
  <2>1. /\ space \in 0..FIFO_DEPTH /\ (space = 0 \/ tx_out = tx_in)
        /\ UNCHANGED <<tx_in, tx_out, pc>>
    BY <1>10 DEF IsrTxEnd, txVars, threadVars, TypeOK, IsrTypes
  <2>2. CASE NothingLeft
    BY <2>1, <2>2, UartAssumption DEF NothingLeft
  <2>3. CASE ~NothingLeft
    BY <1>10, <2>1, <2>3 DEF IsrTxEnd
  <2> QED BY <2>2, <2>3
<1>11. CASE UNCHANGED <<irq_enable, tx_in, tx_out, pc>>
  BY <1>11
<1>12. \/ Calls \/ Thread \/ IsrRxEnd \/ IsrTxPut \/ IsrTxEnd
       \/ UNCHANGED <<irq_enable, tx_in, tx_out, pc>>
  BY DEF Next, vars, Isr, IsrEnter, IsrControl, IsrRxTake, IsrRxNone, IsrRxFull,
         Alarm, Host, HostTake, HostPut, HostPause, txVars, driverVars, threadVars
<1> QED BY <1>1, <1>2, <1>3, <1>4, <1>5, <1>6, <1>7, <1>8, <1>9, <1>10, <1>11,
           <1>12 DEF Thread

\* The handler stops receiving only on a full ring, and whoever makes room
\* starts it again.
LEMMA RxArmedStep ==
    ASSUME TypeOK, CopyInv, ReadInv, IsrInv, RxArmed, [Next]_vars
    PROVE  RxArmed'
<1> USE DEF RxArmed, RxFull
<1>t. done \in Nat /\ n \in Nat /\ want \in Nat
  BY DEF TypeOK, ThreadTypes
<1>1. CASE Calls
  BY <1>1 DEF Calls, WriteCall, ReadCall, CloseCall, Call, SetTimeout, At, Goto,
              rxVars, driverVars
<1>2. CASE WriteLoad \/ WriteCopy \/ WritePublish
  BY <1>2 DEF WriteLoad, WriteCopy, WritePublish, At, Goto, rxVars, driverVars
<1>3. CASE WriteKick
  BY <1>3 DEF WriteKick, SetEnables, Kicked, At, Goto, rxVars
<1>4. CASE WriteSpin \/ WriteTest \/ WriteReturn
  BY <1>4 DEF WriteSpin, WriteTest, WriteReturn, Return, At, Goto, rxVars,
              driverVars
<1>5. CASE ReadLoad \/ ReadCopy
  BY <1>5 DEF ReadLoad, ReadCopy, At, Goto, rxVars, driverVars
<1>6. CASE ReadPublish
  <2>1. n \in 1..want /\ pc' \in {"r_load", "r_enable"} /\ done' = done + n
    BY <1>6, CopyFits DEF ReadPublish, At, Goto
  <2>2. done' > 0
    BY <1>t, <2>1
  <2> QED BY <2>1, <2>2
<1>7. CASE ReadSpin \/ ReadTest
  BY <1>7 DEF ReadSpin, ReadTest, At, Goto, rxVars, driverVars
<1>8. CASE ReadEnable
  BY <1>8 DEF ReadEnable, SetEnables, Receiving
<1>9. CASE ReadReturn \/ CloseWait
  BY <1>9 DEF ReadReturn, CloseWait, Return, At, Goto, rxVars, driverVars
<1>10. CASE IsrRxTake
  BY <1>10 DEF IsrRxTake, IsrInv, driverVars
<1>11. CASE IsrRxEnd
  BY <1>11 DEF IsrRxEnd, SetEnables, LeftBehind, IsrInv, rxVars, threadVars
<1>12. CASE IsrTxEnd
  BY <1>12 DEF IsrTxEnd, SetEnables, rxVars, threadVars
<1>13. CASE UNCHANGED <<irq_enable, rx_in, rx_out, pc, done>>
  BY <1>13
<1>14. \/ Calls \/ Thread \/ IsrRxTake \/ IsrRxEnd \/ IsrTxEnd
       \/ UNCHANGED <<irq_enable, rx_in, rx_out, pc, done>>
  BY DEF Next, vars, Isr, IsrEnter, IsrControl, IsrRxNone, IsrRxFull, IsrTxPut,
         Alarm, Host, HostTake, HostPut, HostPause, rxVars, driverVars, threadVars
<1> QED BY <1>1, <1>2, <1>3, <1>4, <1>5, <1>6, <1>7, <1>8, <1>9, <1>10, <1>11,
           <1>12, <1>13, <1>14 DEF Thread

\* Without a clock no wait is given up.
LEMMA BlockingCompleteStep ==
    ASSUME TypeOK, ReadInv, ClockInv, BlockingComplete, [Next]_vars
    PROVE  BlockingComplete'
<1> SUFFICES ASSUME ~HasClock
             PROVE  BlockingComplete'
  BY DEF BlockingComplete
<1> USE DEF BlockingComplete
<1>t. /\ host_inactive = 0 /\ done \in Nat /\ want \in Nat
      /\ Counts \subseteq Nat
  BY UartAssumption DEF ClockInv, TypeOK, ThreadTypes
<1>1. CASE Calls
  <2>1. CASE ReadCall
    BY <1>t, <2>1 DEF ReadCall, Call, Goto
  <2>2. CASE WriteCall \/ CloseCall \/ SetTimeout
    BY <2>2 DEF WriteCall, CloseCall, SetTimeout, Call, At, Goto
  <2> QED BY <1>1, <2>1, <2>2 DEF Calls
<1>2. CASE WriteLoad \/ WriteCopy \/ WritePublish
  BY <1>2 DEF WriteLoad, WriteCopy, WritePublish, Goto
<1>3. CASE WriteKick
  BY <1>3, <1>t DEF WriteKick, Goto
<1>4. CASE WriteSpin \/ WriteTest \/ WriteReturn
  BY <1>4, <1>t DEF WriteSpin, WriteTest, WriteReturn, Return, Goto
<1>5. CASE ReadLoad
  BY <1>5, <1>t DEF ReadLoad, Goto
<1>6. CASE ReadCopy \/ ReadPublish
  BY <1>6 DEF ReadCopy, ReadPublish, Goto
<1>7. CASE ReadSpin
  BY <1>7 DEF ReadSpin, Goto
<1>8. CASE ReadTest
  BY <1>8 DEF ReadTest, Goto, ReadInv, At
<1>9. CASE ReadEnable
  BY <1>9 DEF ReadEnable, Goto, ReadInv, At
<1>10. CASE ReadReturn \/ CloseWait
  BY <1>10 DEF ReadReturn, CloseWait, Return, At, Goto
<1>11. CASE UNCHANGED threadVars
  BY <1>11 DEF threadVars
<1>12. Calls \/ Thread \/ UNCHANGED threadVars
  BY DEF Next, vars, Isr, IsrEnter, IsrControl, IsrRxTake, IsrRxNone,
         IsrRxFull, IsrRxEnd, IsrTxPut, IsrTxEnd, Alarm, Host, HostTake,
         HostPut, HostPause
<1> QED BY <1>1, <1>2, <1>3, <1>4, <1>5, <1>6, <1>7, <1>8, <1>9, <1>10, <1>11,
           <1>12 DEF Thread

-----------------------------------------------------------------------------
(* The theorems.                                                           *)

LEMMA IInvInit == Init => IInv
<1> SUFFICES ASSUME Init PROVE IInv
  OBVIOUS
<1>0. /\ Len(<<>>) = 0
      /\ \A c \in Cells : Used(c, 0) = c
  BY EmptySeq DEF Used, Cells
<1>1. TypeOK
  BY TypeInit
<1>2. CopyInv /\ ReadInv
  BY DEF Init, CopyInv, ReadInv
<1>3. IsrInv /\ ClockInv
  BY <1>0, UartAssumption DEF Init, IsrInv, ClockInv, InitialTimeout
<1>4. Used(0, 0) = 0
  BY DEF Used
<1>5. TxStream
  BY <1>0, <1>4 DEF Init, TxStream, Cells
<1>6. RxStream
  BY <1>0, <1>4 DEF Init, RxStream, Cells
<1>7. NoOverflow /\ TxArmed /\ RxArmed /\ BlockingComplete
  BY DEF Init, NoOverflow, TxArmed, RxArmed, BlockingComplete
<1> QED BY <1>1, <1>2, <1>3, <1>5, <1>6, <1>7 DEF IInv

\* No step of the thread, the handler, the alarm or the host breaks what the
\* others rely on (init.c:106-254, read.c:100-203, write.c:83-215).
THEOREM Invariance == Spec => []IInv
<1>1. ASSUME IInv, [Next]_vars
      PROVE  IInv'
  BY <1>1, TypeStep, CopyInvStep, ReadInvStep, IsrInvStep, ClockInvStep,
     TxStreamStep, RxStreamStep, NoOverflowStep, TxArmedStep, RxArmedStep,
     BlockingCompleteStep DEF IInv
<1> QED BY <1>1, IInvInit, PTL DEF Spec

\* Every variable keeps its type, every index its array.
THEOREM TypeCorrect == Spec => []TypeOK
<1>1. IInv => TypeOK
  BY DEF IInv
<1> QED BY <1>1, Invariance, PTL

\* Nothing a write call accepted is lost, repeated or reordered on its way
\* to the host.
THEOREM TransmitLossless == Spec => []TxStream
<1>1. IInv => TxStream
  BY DEF IInv
<1> QED BY <1>1, Invariance, PTL

\* No data write hits a full FIFO.
THEOREM FifoNeverOverflows == Spec => []NoOverflow
<1>1. IInv => NoOverflow
  BY DEF IInv
<1> QED BY <1>1, Invariance, PTL

\* Nothing the host typed is lost, repeated or reordered on its way to a
\* read call.
THEOREM ReceiveLossless == Spec => []RxStream
<1>1. IInv => RxStream
  BY DEF IInv
<1> QED BY <1>1, Invariance, PTL

\* Output waiting in the ring is never left with its interrupt off.
THEOREM TransmitArmed == Spec => []TxArmed
<1>1. IInv => TxArmed
  BY DEF IInv
<1> QED BY <1>1, Invariance, PTL

\* Reception is off only while the ring is full or a reader is about to turn
\* it on.
THEOREM ReceiveArmed == Spec => []RxArmed
<1>1. IInv => RxArmed
  BY DEF IInv
<1> QED BY <1>1, Invariance, PTL

\* Without a clock a blocking call never returns early.
THEOREM BlockingCallsComplete == Spec => []BlockingComplete
<1>1. IInv => BlockingComplete
  BY DEF IInv
<1> QED BY <1>1, Invariance, PTL

\* The alarm never reaches the timeout that stands for "wait for ever".
THEOREM LongTimeout == Spec => []LongTimeoutNeverExpires
<1>1. IInv => LongTimeoutNeverExpires
  BY UartAssumption DEF IInv, ClockInv, TypeOK, DriverTypes,
                        LongTimeoutNeverExpires, HostPresent
<1> QED BY <1>1, Invariance, PTL

-----------------------------------------------------------------------------
(* Both directions implement the bounded stream.                           *)

\* Publishing a run is the stream's Accept, the host's taking a character
\* its Deliver; every other step leaves the stream alone.
LEMMA TxStepSimulation ==
    ASSUME IInv, [Next]_vars
    PROVE  [Tx!Next]_(Tx!streamVars)
<1> USE UartAssumption
<1> DEFINE cap == BUF_LEN - 1 + FIFO_DEPTH
<1>i. TypeOK /\ CopyInv /\ IsrInv /\ TxStream
  BY DEF IInv
<1>t. /\ wfifo \in Seq(Nat) /\ shown \in Seq(Nat) /\ sent \in Nat
      /\ Len(wfifo) \in 0..FIFO_DEPTH /\ Len(shown) \in Nat
      /\ tx_in \in Cells /\ tx_out \in Cells
  BY <1>i, LenProperties DEF TypeOK, UartTypes, HistoryTypes, RingTypes
<1>u. Used(tx_in, tx_out) \in 0..(BUF_LEN - 1)
  BY <1>t, UsedBounds
<1>s. sent = Len(shown) + Len(wfifo) + Used(tx_in, tx_out)
  BY <1>i DEF TxStream
<1>1. CASE WritePublish
  <2>1. n \in 1..(BUF_LEN - 1) /\ Used(tx_in, tx_out) + n < BUF_LEN
    BY <1>1, <1>i, CopyFits DEF WritePublish, At, CopyInv
  <2>2. n \in 1..cap /\ sent + n <= Len(shown) + cap
    BY <1>t, <1>u, <1>s, <2>1
  <2>3. sent' = sent + n /\ shown' = shown
    BY <1>1 DEF WritePublish
  <2> QED BY <2>2, <2>3 DEF Tx!Next, Tx!Accept
<1>2. CASE HostTake
  <2>1. wfifo # <<>> /\ shown' = Append(shown, Head(wfifo)) /\ sent' = sent
    BY <1>2 DEF HostTake
  <2>2. Len(wfifo) \in Nat \ {0} /\ Head(wfifo) = wfifo[1]
    BY <1>t, <2>1, EmptySeq
  <2>3. Head(wfifo) = Len(shown) + 1
    BY <1>i, <1>t, <2>2 DEF TxStream
  <2> DEFINE next == [i \in 1..1 |-> Len(shown) + i]
  <2>4. next \in Seq(Nat) /\ Len(next) = 1 /\ next[1] = Len(shown) + 1
    <3>1. next \in [1..1 -> Nat]
      BY <1>t
    <3> QED BY <3>1, SeqDef
  <2>5. shown' = shown \o next
    <3> HIDE DEF next
    <3>0. /\ shown \o next \in Seq(Nat) /\ Len(shown \o next) = Len(shown) + Len(next)
          /\ \A i \in 1..(Len(shown) + Len(next)) :
                 (shown \o next)[i] = IF i <= Len(shown) THEN shown[i]
                                      ELSE next[i - Len(shown)]
      <4>1. shown \in Seq(Nat) /\ next \in Seq(Nat)
        BY <1>t, <2>4
      <4> QED BY ONLY <4>1, ConcatProperties
    <3>1. /\ shown \o next \in Seq(Nat) /\ Len(shown \o next) = Len(shown) + 1
          /\ \A i \in 1..(Len(shown) + 1) :
                 (shown \o next)[i] = IF i <= Len(shown) THEN shown[i]
                                      ELSE next[i - Len(shown)]
      <4>1. Len(next) = 1
        BY <2>4
      <4> QED BY ONLY <3>0, <4>1
    <3>2. /\ shown' \in Seq(Nat) /\ Len(shown') = Len(shown) + 1
          /\ \A i \in 1..(Len(shown) + 1) :
                 shown'[i] = IF i <= Len(shown) THEN shown[i] ELSE Len(shown) + 1
      BY <1>t, <2>1, <2>3
    <3>l. Len(shown) \in Nat
      BY <1>t
    <3>3. \A i \in 1..(Len(shown) + 1) : shown'[i] = (shown \o next)[i]
      <4> TAKE i \in 1..(Len(shown) + 1)
      <4>1. CASE i <= Len(shown)
        BY <3>1, <3>2, <4>1
      <4>2. CASE i = Len(shown) + 1
        <5>1. i - Len(shown) = 1 /\ ~(i <= Len(shown))
          BY <3>l, <4>2
        <5> QED BY <2>4, <3>1, <3>2, <5>1
      <4>3. i <= Len(shown) \/ i = Len(shown) + 1
        BY ONLY <3>l, i \in 1..(Len(shown) + 1)
      <4> QED BY <4>1, <4>2, <4>3
    <3> QED BY <1>t, <3>1, <3>2, <3>3, SeqEqual
  <2>6. 1 \in 1..(sent - Len(shown))
    BY <1>t, <1>u, <1>s, <2>2
  <2> QED BY <2>1, <2>5, <2>6 DEF Tx!Next, Tx!Deliver, Tx!InFlight
<1>3. CASE WriteCopy \/ IsrTxPut
  BY <1>3 DEF WriteCopy, IsrTxPut, history, Tx!streamVars
<1>4. CASE UNCHANGED <<tx_buf, tx_in, tx_out, wfifo, woverflow, sent, shown>>
  BY <1>4 DEF Tx!streamVars
<1> QED BY <1>1, <1>2, <1>3, <1>4, TxFrame

\* The transmit side implements the bounded, lossless, ordered stream.
THEOREM TransmitImplementsStream == Spec => TxImplementsStream
<1>1. Init => Tx!Init
  BY DEF Init, Tx!Init
<1>2. IInv /\ [Next]_vars => [Tx!Next]_(Tx!streamVars)
  BY TxStepSimulation
<1> QED BY <1>1, <1>2, Invariance, PTL DEF Spec, Tx!Spec, TxImplementsStream

\* The host's typing is the stream's Accept, the copy into the caller's
\* buffer its Deliver.
LEMMA RxStepSimulation ==
    ASSUME IInv, [Next]_vars
    PROVE  [Rx!Next]_(Rx!streamVars)
<1> USE UartAssumption
<1> DEFINE cap == BUF_LEN - 1 + FIFO_DEPTH
<1>i. TypeOK /\ CopyInv /\ RxStream
  BY DEF IInv
<1>t. /\ got \in Seq(Nat) /\ typed \in Nat /\ Len(got) \in Nat /\ n \in Nat
      /\ Len(rfifo) \in 0..FIFO_DEPTH
      /\ rx_in \in Cells /\ rx_out \in Cells
  BY <1>i, LenProperties DEF TypeOK, UartTypes, HistoryTypes, RingTypes,
                             ThreadTypes
<1>u. Used(rx_in, rx_out) \in 0..(BUF_LEN - 1)
  BY <1>t, UsedBounds
<1>s. /\ typed = Len(got) - (IF pc = "r_publish" THEN n ELSE 0)
                 + Used(rx_in, rx_out) + Len(rfifo)
  BY <1>i DEF RxStream
<1>1. CASE HostPut
  <2>1. typed' = typed + 1 /\ got' = got /\ Len(rfifo) < FIFO_DEPTH
    BY <1>1 DEF HostPut
  <2>2. 1 \in 1..cap /\ typed + 1 <= Len(got) + cap
    BY <1>t, <1>u, <1>s, <2>1
  <2> QED BY <2>1, <2>2 DEF Rx!Next, Rx!Accept
<1>2. CASE ReadCopy
  <2>1. /\ pc = "r_copy" /\ typed' = typed
        /\ out = rx_out /\ n \in 1..want /\ n <= Used(rx_in, rx_out)
        /\ out + n <= BUF_LEN
    BY <1>2, <1>i DEF ReadCopy, At, CopyInv, history
  <2>2. n \in 1..(typed - Len(got))
    BY <1>t, <1>u, <1>s, <2>1
  <2>3. \A k \in 1..n : rx_buf[out + k - 1] = Len(got) + k
    <3> SUFFICES ASSUME NEW k \in 1..n
                 PROVE  rx_buf[out + k - 1] = Len(got) + k
      OBVIOUS
    <3>1. out + k - 1 \in Cells /\ Used(out + k - 1, rx_out) = k - 1
      BY <1>t, <2>1 DEF Used, Cells
    <3>2. \A c \in Cells : Used(c, rx_out) < Used(rx_in, rx_out)
              => rx_buf[c] = Len(got) + Used(c, rx_out) + 1
      BY <1>i, <1>t, <2>1 DEF RxStream
    <3>3. Used(out + k - 1, rx_out) < Used(rx_in, rx_out)
      BY <1>t, <1>u, <2>1, <3>1
    <3>4. rx_buf[out + k - 1] = Len(got) + (k - 1) + 1
      BY <3>1, <3>2, <3>3
    <3> QED BY <1>t, <3>4
  <2>4. [k \in 1..n |-> rx_buf[out + k - 1]] = [i \in 1..n |-> Len(got) + i]
    BY <2>3
  <2>5. got' = got \o [i \in 1..n |-> Len(got) + i]
    BY <1>2, <2>4 DEF ReadCopy
  <2> QED BY <2>1, <2>2, <2>5 DEF Rx!Next, Rx!Deliver, Rx!InFlight
<1>3. CASE ReadPublish \/ IsrRxTake
  BY <1>3 DEF ReadPublish, IsrRxTake, history, Rx!streamVars
<1>4. CASE UNCHANGED <<rx_buf, rx_in, rx_out, rfifo, typed, got>>
  BY <1>4 DEF Rx!streamVars
<1> QED BY <1>1, <1>2, <1>3, <1>4, RxFrame

\* The receive side implements the bounded, lossless, ordered stream.
THEOREM ReceiveImplementsStream == Spec => RxImplementsStream
<1>1. Init => Rx!Init
  BY DEF Init, Rx!Init
<1>2. IInv /\ [Next]_vars => [Rx!Next]_(Rx!streamVars)
  BY RxStepSimulation
<1> QED BY <1>1, <1>2, Invariance, PTL DEF Spec, Rx!Spec, RxImplementsStream

-----------------------------------------------------------------------------
(* The interrupt line.                                                     *)

\* Enables are only added, the FIFO towards the host only shrinks and the
\* one from it only grows while no handler is past its first read.
LEMMA LineHeld ==
    ASSUME IInv, Next, WI \/ RI, {isr, isr'} \subseteq {"off", "control"}
    PROVE  (WI \/ RI)'
<1> USE UartAssumption
<1>i. TypeOK /\ ien = irq_enable
  BY DEF IInv, IsrInv
<1>t. /\ wfifo \in Seq(Nat) /\ rfifo \in Seq(Nat)
      /\ Len(wfifo) \in Nat /\ Len(rfifo) \in Nat
  BY <1>i, LenProperties DEF TypeOK, UartTypes
<1>o. isr \in {"off", "control"} /\ isr' \in {"off", "control"}
  OBVIOUS
<1>1. CASE WriteKick \/ ReadEnable
  <2>1. ien \subseteq ien' /\ UNCHANGED <<wfifo, rfifo, pause_irq>>
    BY <1>1, <1>i DEF WriteKick, ReadEnable, SetEnables, Kicked, Receiving
  <2> QED BY <2>1 DEF WI, RI
<1>2. CASE Alarm
  <2>1. UNCHANGED <<ien, wfifo, rfifo, pause_irq>>
    BY <1>2, <1>i DEF Alarm
  <2> QED BY <2>1 DEF WI, RI
<1>3. CASE HostTake
  <2>1. Len(wfifo') = Len(wfifo) - 1 /\ UNCHANGED <<ien, rfifo, pause_irq>>
    BY <1>3, <1>t, HeadTailProperties DEF HostTake
  <2> QED BY <1>t, <2>1 DEF WI, RI
<1>4. CASE HostPut
  <2>1. Len(rfifo') = Len(rfifo) + 1 /\ UNCHANGED <<ien, wfifo, pause_irq>>
    BY <1>4, <1>t, AppendProperties DEF HostPut
  <2> QED BY <1>t, <2>1 DEF WI, RI
<1>5. CASE HostPause
  <2>1. (pause_irq => pause_irq') /\ UNCHANGED <<ien, wfifo, rfifo>>
    BY <1>5 DEF HostPause
  <2> QED BY <2>1 DEF WI, RI
<1>6. CASE UNCHANGED uartVars
  BY <1>6 DEF uartVars, WI, RI
<1>7. CASE IsrRxTake \/ IsrRxNone \/ IsrRxFull \/ IsrRxEnd \/ IsrTxPut \/ IsrTxEnd
  BY <1>7, <1>o DEF IsrRxTake, IsrRxNone, IsrRxFull, IsrRxEnd, IsrTxPut, IsrTxEnd
<1>8. CASE Calls \/ IsrEnter \/ IsrControl
  BY <1>6, <1>8 DEF Calls, WriteCall, ReadCall, CloseCall, Call, SetTimeout,
                    IsrEnter, IsrControl
<1>9. CASE Thread /\ ~(WriteKick \/ ReadEnable)
  BY <1>6, <1>9 DEF Thread, WriteLoad, WriteCopy, WritePublish, WriteSpin,
                    WriteTest, WriteReturn, ReadLoad, ReadCopy, ReadPublish,
                    ReadSpin, ReadTest, ReadReturn, CloseWait
<1> QED
  BY <1>1, <1>2, <1>3, <1>4, <1>5, <1>7, <1>8, <1>9 DEF Next, Isr, Host

\* A requested interrupt is never withdrawn before the handler looks.
THEOREM LineNeverDropped == Spec => InterruptHeld
<1>1. ASSUME IInv, [Next]_vars
      PROVE  [(WI \/ RI) /\ {isr, isr'} \subseteq {"off", "control"}
                => (WI \/ RI)']_vars
  BY <1>1, LineHeld
<1> QED BY <1>1, Invariance, PTL DEF Spec, InterruptHeld
=============================================================================
