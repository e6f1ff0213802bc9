--------------------------- MODULE JtagUartProofs ---------------------------
(***************************************************************************)
(* Theorems about the JTAG UART driver, for every ring and FIFO size,      *)
(* every number of characters and every timeout.                           *)
(***************************************************************************)
EXTENDS JtagUart, SequenceTheorems, TLAPS

\* The chunk a copy works on: what the load step computed stays true until the
\* index store, because only the other side's index can move meanwhile.
ChunkOK ==
    /\ pc \in {"w_copy", "w_publish", "r_copy", "r_release"} => n <= left
    /\ pc = "r_copy" => out + n <= BufLen

IInv == TypeOK /\ ChunkOK

USE SizesAssumption DEF driver, device, locals, thread, counts, handler

\* A slot index advanced by any amount is a slot index again.
LEMMA AdvanceType == ASSUME NEW i \in Nat, NEW k \in Nat PROVE Advance(i, k) \in Slots
BY DEF Advance, Slots

\* The free and the filled run never reach the ring's full length.
LEMMA RunType ==
    ASSUME NEW i \in Slots, NEW o \in Slots
    PROVE  /\ Contiguous(i, o) \in Slots
           /\ Readable(i, o) \in Slots
           /\ o + Readable(i, o) <= BufLen
BY DEF Contiguous, Readable, Slots

LEMMA SmallerType ==
    ASSUME NEW a \in Slots, NEW b \in Nat
    PROVE  SmallerOf(a, b) \in Slots /\ SmallerOf(a, b) <= a /\ SmallerOf(a, b) <= b
BY DEF SmallerOf, Slots

\* A chunk to copy is inside the ring and within what the caller wants.
LEMMA ChunkFits ==
    ASSUME NEW i \in Slots, NEW o \in Slots, NEW k \in Nat
    PROVE  LET c == SmallerOf(Readable(i, o), k)
           IN  c \in Slots /\ c <= k /\ o + c <= BufLen
BY DEF SmallerOf, Readable, Slots

LEMMA SlotsNat == Slots \subseteq Nat /\ 0 \in Slots
BY DEF Slots

\* A call that returns leaves its locals dead.
LEMMA ReturnType == ASSUME NEW v \in Int, Return(v) PROVE ThreadType' /\ ChunkOK'
<1>1. mem' \in Seq(Nat)
  BY DEF Return
<1> QED
  BY <1>1, SlotsNat DEF Return, ThreadType, ChunkOK

LEMMA ResultType == ThreadType => Result \in Int
BY DEF ThreadType, Result, EIO, EWOULDBLOCK

LEMMA InitIInv == Init => IInv
BY DEF Init, IInv, TypeOK, ChunkOK, Slots, DriverType, DeviceType, ThreadType, HandlerType, CountsType

-----------------------------------------------------------------------------
\* Every step of altera_avalon_jtag_uart_write.
LEMMA WriteIInv == IInv /\ WriteStep => IInv'
<1> SUFFICES ASSUME IInv, WriteStep PROVE IInv'
  OBVIOUS
<1>1. CASE WriteLoad
  <2>1. ThreadType' /\ ChunkOK'
    <3>1. CASE left = 0
      BY <1>1, <3>1 DEF IInv, TypeOK, ThreadType, ChunkOK, WriteLoad
    <3>2. CASE left > 0
      <4>1. /\ in' = tx_in /\ out' = tx_out /\ n' = SmallerOf(Contiguous(tx_in, tx_out), left)
            /\ pc' \in {"w_kick", "w_copy"}
            /\ UNCHANGED <<flags, left, moved, mem, ret>>
        BY <1>1, <3>2 DEF WriteLoad, IInv, TypeOK, ThreadType
      <4>2. tx_in \in Slots /\ tx_out \in Slots /\ left \in Nat
        BY DEF IInv, TypeOK, DriverType, ThreadType
      <4>3. n' \in Slots /\ n' <= left
        BY <4>1, <4>2, RunType, SmallerType
      <4> QED
        BY <4>1, <4>2, <4>3 DEF IInv, TypeOK, ThreadType, ChunkOK
    <3> QED
      BY <3>1, <3>2 DEF IInv, TypeOK, ThreadType
  <2>2. DriverType' /\ DeviceType' /\ HandlerType' /\ CountsType'
    BY <1>1 DEF IInv, TypeOK, DriverType, DeviceType, HandlerType, CountsType, WriteLoad
  <2> QED
    BY <2>1, <2>2 DEF IInv, TypeOK
<1>2. CASE WriteCopy
  <2>1. DriverType'
    <3>1. \A s \in Slots : s \in in .. in + n - 1 => wseq + (s - in) \in Nat
      BY DEF IInv, TypeOK, ThreadType, CountsType, Slots
    <3>2. tx_buf' \in [Slots -> Nat]
      BY <1>2, <3>1 DEF WriteCopy, IInv, TypeOK, DriverType
    <3> QED
      BY <1>2, <3>2 DEF WriteCopy, IInv, TypeOK, DriverType
  <2>2. ThreadType' /\ ChunkOK'
    BY <1>2 DEF IInv, TypeOK, ThreadType, ChunkOK, WriteCopy, At
  <2>3. DeviceType' /\ HandlerType' /\ CountsType'
    BY <1>2 DEF IInv, TypeOK, DeviceType, HandlerType, CountsType, WriteCopy
  <2> QED
    BY <2>1, <2>2, <2>3 DEF IInv, TypeOK
<1>3. CASE WritePublish
  <2>1. DriverType'
    BY <1>3, AdvanceType, SlotsNat DEF IInv, TypeOK, DriverType, WritePublish, ThreadType
  <2>2. ThreadType' /\ ChunkOK' /\ CountsType'
    BY <1>3, SlotsNat DEF IInv, TypeOK, ThreadType, ChunkOK, CountsType, WritePublish, At
  <2>3. DeviceType' /\ HandlerType'
    BY <1>3 DEF IInv, TypeOK, DeviceType, HandlerType, WritePublish
  <2> QED
    BY <2>1, <2>2, <2>3 DEF IInv, TypeOK
<1>4. CASE WriteKick
  <2>1. DriverType'
    BY <1>4 DEF IInv, TypeOK, DriverType, WriteKick, TurnOn
  <2>2. ThreadType' /\ ChunkOK'
    BY <1>4 DEF IInv, TypeOK, ThreadType, ChunkOK, WriteKick
  <2>3. DeviceType' /\ HandlerType' /\ CountsType'
    BY <1>4 DEF IInv, TypeOK, DeviceType, HandlerType, CountsType, WriteKick
  <2> QED
    BY <2>1, <2>2, <2>3 DEF IInv, TypeOK
<1>5. CASE WriteSpin
  <2>1. ThreadType' /\ ChunkOK'
    BY <1>5 DEF IInv, TypeOK, ThreadType, ChunkOK, WriteSpin
  <2>2. DriverType' /\ DeviceType' /\ HandlerType' /\ CountsType'
    BY <1>5 DEF IInv, TypeOK, DriverType, DeviceType, HandlerType, CountsType, WriteSpin
  <2> QED
    BY <2>1, <2>2 DEF IInv, TypeOK
<1>6. CASE WriteCheck
  <2>1. ThreadType' /\ ChunkOK'
    BY <1>6 DEF IInv, TypeOK, ThreadType, ChunkOK, WriteCheck
  <2>2. DriverType' /\ DeviceType' /\ HandlerType' /\ CountsType'
    BY <1>6 DEF IInv, TypeOK, DriverType, DeviceType, HandlerType, CountsType, WriteCheck
  <2> QED
    BY <2>1, <2>2 DEF IInv, TypeOK
<1>7. CASE WriteReturn
  <2>1. ThreadType' /\ ChunkOK'
    BY <1>7, ReturnType, ResultType DEF IInv, TypeOK, WriteReturn
  <2>2. DriverType' /\ DeviceType' /\ HandlerType' /\ CountsType'
    BY <1>7 DEF IInv, TypeOK, DriverType, DeviceType, HandlerType, CountsType, WriteReturn
  <2> QED
    BY <2>1, <2>2 DEF IInv, TypeOK
<1> QED
  BY <1>1, <1>2, <1>3, <1>4, <1>5, <1>6, <1>7 DEF WriteStep

\* Every step of altera_avalon_jtag_uart_read.
LEMMA ReadIInv == IInv /\ ReadStep => IInv'
<1> SUFFICES ASSUME IInv, ReadStep PROVE IInv'
  OBVIOUS
<1>1. CASE ReadLoad
  <2>1. ThreadType' /\ ChunkOK'
    <3>1. CASE left = 0
      BY <1>1, <3>1 DEF IInv, TypeOK, ThreadType, ChunkOK, ReadLoad
    <3>2. CASE left > 0
      <4>1. /\ in' = rx_in /\ out' = rx_out /\ n' = SmallerOf(Readable(rx_in, rx_out), left)
            /\ pc' \in {"r_copy", "r_return", "r_spin"}
            /\ UNCHANGED <<flags, left, moved, mem, ret>>
        BY <1>1, <3>2 DEF ReadLoad, IInv, TypeOK, ThreadType
      <4>2. rx_in \in Slots /\ rx_out \in Slots /\ left \in Nat
        BY DEF IInv, TypeOK, DriverType, ThreadType
      <4>3. n' \in Slots /\ n' <= left /\ rx_out + n' <= BufLen
        BY <4>1, <4>2, ChunkFits
      <4> QED
        BY <4>1, <4>2, <4>3 DEF IInv, TypeOK, ThreadType, ChunkOK
    <3> QED
      BY <3>1, <3>2 DEF IInv, TypeOK, ThreadType
  <2>2. DriverType' /\ DeviceType' /\ HandlerType' /\ CountsType'
    BY <1>1 DEF IInv, TypeOK, DriverType, DeviceType, HandlerType, CountsType, ReadLoad
  <2> QED
    BY <2>1, <2>2 DEF IInv, TypeOK
<1>2. CASE ReadCopy
  <2>1. ThreadType' /\ ChunkOK'
    BY <1>2, SlotsNat DEF IInv, TypeOK, ThreadType, ChunkOK, ReadCopy, At, DriverType, Slots
  <2>2. DriverType' /\ DeviceType' /\ HandlerType' /\ CountsType'
    BY <1>2 DEF IInv, TypeOK, DriverType, DeviceType, HandlerType, CountsType, ReadCopy
  <2> QED
    BY <2>1, <2>2 DEF IInv, TypeOK
<1>3. CASE ReadRelease
  <2>1. DriverType'
    BY <1>3, AdvanceType, SlotsNat DEF IInv, TypeOK, DriverType, ReadRelease, ThreadType
  <2>2. ThreadType' /\ ChunkOK' /\ CountsType'
    BY <1>3, SlotsNat DEF IInv, TypeOK, ThreadType, ChunkOK, CountsType, ReadRelease, At
  <2>3. DeviceType' /\ HandlerType'
    BY <1>3 DEF IInv, TypeOK, DeviceType, HandlerType, ReadRelease
  <2> QED
    BY <2>1, <2>2, <2>3 DEF IInv, TypeOK
<1>4. CASE ReadSpin
  <2>1. ThreadType' /\ ChunkOK'
    BY <1>4 DEF IInv, TypeOK, ThreadType, ChunkOK, ReadSpin
  <2>2. DriverType' /\ DeviceType' /\ HandlerType' /\ CountsType'
    BY <1>4 DEF IInv, TypeOK, DriverType, DeviceType, HandlerType, CountsType, ReadSpin
  <2> QED
    BY <2>1, <2>2 DEF IInv, TypeOK
<1>5. CASE ReadCheck
  <2>1. ThreadType' /\ ChunkOK'
    BY <1>5 DEF IInv, TypeOK, ThreadType, ChunkOK, ReadCheck
  <2>2. DriverType' /\ DeviceType' /\ HandlerType' /\ CountsType'
    BY <1>5 DEF IInv, TypeOK, DriverType, DeviceType, HandlerType, CountsType, ReadCheck
  <2> QED
    BY <2>1, <2>2 DEF IInv, TypeOK
<1>6. CASE ReadReturn
  <2>1. DriverType'
    BY <1>6 DEF IInv, TypeOK, DriverType, ReadReturn, TurnOn
  <2>2. ThreadType' /\ ChunkOK'
    BY <1>6, ReturnType, ResultType DEF IInv, TypeOK, ReadReturn
  <2>3. DeviceType' /\ HandlerType' /\ CountsType'
    BY <1>6 DEF IInv, TypeOK, DeviceType, HandlerType, CountsType, ReadReturn
  <2> QED
    BY <2>1, <2>2, <2>3 DEF IInv, TypeOK
<1> QED
  BY <1>1, <1>2, <1>3, <1>4, <1>5, <1>6 DEF ReadStep

\* Every step of the interrupt handler.
LEMMA IrqIInv == IInv /\ Irq => IInv'
<1> SUFFICES ASSUME IInv, Irq PROVE IInv'
  OBVIOUS
<1>1. CASE IrqEnter
  <2>1. HandlerType'
    BY <1>1 DEF IInv, TypeOK, HandlerType, IrqEnter
  <2>2. DriverType' /\ DeviceType' /\ ThreadType' /\ CountsType' /\ ChunkOK'
    BY <1>1 DEF IInv, TypeOK, DriverType, DeviceType, ThreadType, CountsType, ChunkOK, IrqEnter
  <2> QED
    BY <2>1, <2>2 DEF IInv, TypeOK
<1>2. CASE IrqControl
  <2>1. HandlerType'
    BY <1>2 DEF IInv, TypeOK, HandlerType, IrqControl, DeviceType
  <2>2. DriverType' /\ DeviceType' /\ ThreadType' /\ CountsType' /\ ChunkOK'
    BY <1>2 DEF IInv, TypeOK, DriverType, DeviceType, ThreadType, CountsType, ChunkOK, IrqControl
  <2> QED
    BY <2>1, <2>2 DEF IInv, TypeOK
<1>3. CASE IrqRx
  <2>1. DriverType'
    <3>1. rfifo # <<>> => Head(rfifo) \in Nat
      BY DEF IInv, TypeOK, DeviceType
    <3>2. rx_buf' \in [Slots -> Nat]
      BY <1>3, <3>1 DEF IrqRx, IInv, TypeOK, DriverType
    <3>3. rx_in' \in Slots
      BY <1>3, AdvanceType, SlotsNat DEF IrqRx, IInv, TypeOK, DriverType
    <3> QED
      BY <1>3, <3>2, <3>3 DEF IrqRx, IInv, TypeOK, DriverType
  <2>2. DeviceType' /\ HandlerType'
    <3>1. rfifo # <<>> => /\ Tail(rfifo) \in Seq(Nat) /\ Len(Tail(rfifo)) <= FifoDepth
                          /\ Len(rfifo) - 1 \in 0 .. FifoDepth
      BY DEF IInv, TypeOK, DeviceType
    <3> QED
      <4>1. \/ rfifo' = rfifo /\ (ravail' = ravail \/ ravail' = 0)
            \/ rfifo # <<>> /\ rfifo' = Tail(rfifo) /\ ravail' = Len(rfifo) - 1
        BY <1>3 DEF IrqRx
      <4>2. isr' \in {"rx", "rx_end"} /\ UNCHANGED <<wfifo, ac, host, control, space>>
        BY <1>3 DEF IrqRx
      <4> QED
        <5>1. rfifo' \in Seq(Nat) /\ Len(rfifo') <= FifoDepth
          BY <3>1, <4>1 DEF IInv, TypeOK, DeviceType
        <5>2. ravail' \in 0 .. FifoDepth
          BY <3>1, <4>1 DEF IInv, TypeOK, HandlerType
        <5> QED
          BY <4>2, <5>1, <5>2 DEF IInv, TypeOK, DeviceType, HandlerType
  <2>3. ThreadType' /\ CountsType' /\ ChunkOK'
    BY <1>3 DEF IInv, TypeOK, ThreadType, CountsType, ChunkOK, IrqRx
  <2> QED
    BY <2>1, <2>2, <2>3 DEF IInv, TypeOK
<1>4. CASE IrqRxEnd
  <2>1. DriverType'
    BY <1>4 DEF IInv, TypeOK, DriverType, IrqRxEnd, TurnOff
  <2>2. HandlerType'
    BY <1>4 DEF IInv, TypeOK, HandlerType, IrqRxEnd
  <2>3. DeviceType' /\ ThreadType' /\ CountsType' /\ ChunkOK'
    BY <1>4 DEF IInv, TypeOK, DeviceType, ThreadType, CountsType, ChunkOK, IrqRxEnd
  <2> QED
    BY <2>1, <2>2, <2>3 DEF IInv, TypeOK
<1>5. CASE IrqTx
  <2>1. DriverType'
    BY <1>5, AdvanceType, SlotsNat DEF IInv, TypeOK, DriverType, IrqTx
  <2>2. DeviceType'
    <3>1. tx_buf[tx_out] \in Nat
      BY DEF IInv, TypeOK, DriverType
    <3>2. wfifo' \in Seq(Nat) /\ Len(wfifo') <= FifoDepth
      <4>1. wfifo \in Seq(Nat) /\ Len(wfifo) <= FifoDepth
        BY DEF IInv, TypeOK, DeviceType
      <4>2. Append(wfifo, tx_buf[tx_out]) \in Seq(Nat)
            /\ Len(Append(wfifo, tx_buf[tx_out])) = Len(wfifo) + 1
        BY <3>1, <4>1
      <4>3. \/ wfifo' = wfifo
            \/ Len(wfifo) < FifoDepth /\ wfifo' = Append(wfifo, tx_buf[tx_out])
        BY <1>5 DEF IrqTx
      <4> QED
        BY <4>1, <4>2, <4>3
    <3> QED
      BY <1>5, <3>2 DEF IrqTx, IInv, TypeOK, DeviceType
  <2>3. HandlerType'
    BY <1>5 DEF IInv, TypeOK, HandlerType, IrqTx
  <2>4. ThreadType' /\ CountsType' /\ ChunkOK'
    BY <1>5 DEF IInv, TypeOK, ThreadType, CountsType, ChunkOK, IrqTx
  <2> QED
    BY <2>1, <2>2, <2>3, <2>4 DEF IInv, TypeOK
<1>6. CASE IrqTxEnd
  <2>1. DriverType'
    BY <1>6 DEF IInv, TypeOK, DriverType, IrqTxEnd, TurnOff
  <2>2. HandlerType'
    BY <1>6 DEF IInv, TypeOK, HandlerType, IrqTxEnd
  <2>3. DeviceType' /\ ThreadType' /\ CountsType' /\ ChunkOK'
    BY <1>6 DEF IInv, TypeOK, DeviceType, ThreadType, CountsType, ChunkOK, IrqTxEnd
  <2> QED
    BY <2>1, <2>2, <2>3 DEF IInv, TypeOK
<1> QED
  BY <1>1, <1>2, <1>3, <1>4, <1>5, <1>6 DEF Irq

\* The alarm callback, close() and the host.
LEMMA OutsideIInv == IInv /\ (Timeout \/ CloseSpin \/ Host) => IInv'
<1> SUFFICES ASSUME IInv, (Timeout \/ CloseSpin \/ Host) PROVE IInv'
  OBVIOUS
<1>1. CASE Timeout
  <2>1. DriverType'
    BY <1>1 DEF IInv, TypeOK, DriverType, Timeout, SilentSeconds
  <2>2. DeviceType'
    BY <1>1 DEF IInv, TypeOK, DeviceType, Timeout
  <2>3. ThreadType' /\ HandlerType' /\ CountsType' /\ ChunkOK'
    BY <1>1 DEF IInv, TypeOK, ThreadType, HandlerType, CountsType, ChunkOK, Timeout
  <2> QED
    BY <2>1, <2>2, <2>3 DEF IInv, TypeOK
<1>2. CASE CloseSpin
  <2>1. ThreadType' /\ ChunkOK'
    BY <1>2, ReturnType DEF CloseSpin, EWOULDBLOCK
  <2>2. DriverType' /\ DeviceType' /\ HandlerType' /\ CountsType'
    BY <1>2 DEF IInv, TypeOK, DriverType, DeviceType, HandlerType, CountsType, CloseSpin
  <2> QED
    BY <2>1, <2>2 DEF IInv, TypeOK
<1>3. CASE HostTake
  <2>1. DeviceType' /\ CountsType'
    BY <1>3 DEF IInv, TypeOK, DeviceType, CountsType, HostTake
  <2>2. DriverType' /\ ThreadType' /\ HandlerType' /\ ChunkOK'
    BY <1>3 DEF IInv, TypeOK, DriverType, ThreadType, HandlerType, ChunkOK, HostTake
  <2> QED
    BY <2>1, <2>2 DEF IInv, TypeOK
<1>4. CASE HostSend
  <2>1. DeviceType' /\ CountsType'
    BY <1>4 DEF IInv, TypeOK, DeviceType, CountsType, HostSend
  <2>2. DriverType' /\ ThreadType' /\ HandlerType' /\ ChunkOK'
    BY <1>4 DEF IInv, TypeOK, DriverType, ThreadType, HandlerType, ChunkOK, HostSend
  <2> QED
    BY <2>1, <2>2 DEF IInv, TypeOK
<1>5. CASE HostPoll
  <2>1. DeviceType'
    BY <1>5 DEF IInv, TypeOK, DeviceType, HostPoll
  <2>2. DriverType' /\ ThreadType' /\ HandlerType' /\ CountsType' /\ ChunkOK'
    BY <1>5 DEF IInv, TypeOK, DriverType, ThreadType, HandlerType, CountsType, ChunkOK, HostPoll
  <2> QED
    BY <2>1, <2>2 DEF IInv, TypeOK
<1>6. CASE HostPlug
  <2>1. DeviceType'
    BY <1>6 DEF IInv, TypeOK, DeviceType, HostPlug
  <2>2. DriverType' /\ ThreadType' /\ HandlerType' /\ CountsType' /\ ChunkOK'
    BY <1>6 DEF IInv, TypeOK, DriverType, ThreadType, HandlerType, CountsType, ChunkOK, HostPlug
  <2> QED
    BY <2>1, <2>2 DEF IInv, TypeOK
<1> QED
  BY <1>1, <1>2, <1>3, <1>4, <1>5, <1>6 DEF Host

\* The start of any call.
LEMMA CallIInv == IInv /\ NewCall => IInv'
<1> SUFFICES ASSUME IInv, NewCall PROVE IInv'
  OBVIOUS
<1>1. ASSUME NEW size \in 0 .. MaxCall, NEW f \in SUBSET {"O_NONBLOCK"},
             NEW place \in {"w_load", "r_load", "c_spin"},
             Call(place, size, f)
      PROVE  IInv'
  <2>1. DriverType' /\ DeviceType' /\ HandlerType' /\ CountsType'
    <3>1. UNCHANGED <<driver, device, handler, counts>>
      BY <1>1 DEF Call
    <3>2. DriverType /\ DeviceType /\ HandlerType /\ CountsType
      BY DEF IInv, TypeOK
    <3>3. DriverType'
      BY <3>1, <3>2 DEF DriverType
    <3>4. DeviceType'
      BY <3>1, <3>2 DEF DeviceType
    <3>5. HandlerType' /\ CountsType'
      BY <3>1, <3>2 DEF HandlerType, CountsType
    <3> QED
      BY <3>3, <3>4, <3>5
  <2>2. ThreadType' /\ ChunkOK'
    BY <1>1 DEF Call, IInv, TypeOK, ThreadType, ChunkOK
  <2> QED
    BY <2>1, <2>2 DEF IInv, TypeOK
<1>2. ASSUME NEW t \in {1, 2, IntMax}, SetTimeout(t) PROVE IInv'
  <2>1. DriverType' /\ DeviceType' /\ HandlerType' /\ CountsType'
    <3>1. UNCHANGED <<device, handler, counts>> /\ timeout' \in 2 .. IntMax
          /\ UNCHANGED <<rx_in, rx_out, rx_buf, tx_in, tx_out, tx_buf, irq_enable, host_inactive>>
      BY <1>2 DEF SetTimeout, IInv, TypeOK, DriverType
    <3>2. DriverType /\ DeviceType /\ HandlerType /\ CountsType
      BY DEF IInv, TypeOK
    <3>3. DriverType'
      BY <3>1, <3>2 DEF DriverType
    <3>4. DeviceType'
      BY <3>1, <3>2 DEF DeviceType
    <3>5. HandlerType' /\ CountsType'
      BY <3>1, <3>2 DEF HandlerType, CountsType
    <3> QED
      BY <3>3, <3>4, <3>5
  <2>2. ThreadType' /\ ChunkOK'
    BY <1>2, ReturnType DEF SetTimeout, ENOTTY
  <2> QED
    BY <2>1, <2>2 DEF IInv, TypeOK
<1> QED
  BY <1>1, <1>2 DEF NewCall, Write, Read, Close

LEMMA IInvCorrect == Spec => []IInv
<1>1. IInv /\ [Next]_vars => IInv'
  <2> SUFFICES ASSUME IInv, [Next]_vars PROVE IInv'
    OBVIOUS
  <2>1. CASE UNCHANGED vars
    BY <2>1 DEF vars, IInv, TypeOK, ChunkOK, DriverType, DeviceType, ThreadType, HandlerType, CountsType
  <2> QED
    BY <2>1, WriteIInv, ReadIInv, CallIInv, IrqIInv, OutsideIInv DEF Next
<1> QED
  BY <1>1, InitIInv, PTL DEF Spec

\* Every variable of the driver, its callers and the device keeps its type.
THEOREM TypeCorrect == Spec => []TypeOK
BY IInvCorrect, PTL DEF IInv
-----------------------------------------------------------------------------
(* No interrupt enable is ever lost.  TxKick and RxArmed are inductive once *)
(* the handler's reasons for turning an interrupt off are recorded until it *)
(* does so, and once a chunk to be released is known not to be empty.       *)

HandlerReason ==
    /\ isr = "tx_end" /\ space > 0 => tx_in = tx_out
    /\ isr = "rx_end" /\ ravail > 0 => RxFull

ChunkNotEmpty == pc \in {"r_copy", "r_release"} => n > 0

ArmInv == TxKick /\ RxArmed /\ HandlerReason /\ ChunkNotEmpty

LEMMA InitArm == Init => ArmInv
BY DEF Init, ArmInv, TxKick, RxArmed, HandlerReason, ChunkNotEmpty

\* write() publishes before it kicks.
LEMMA WriteArm == IInv /\ ArmInv /\ WriteStep => ArmInv'
<1> SUFFICES ASSUME IInv, ArmInv, WriteStep PROVE ArmInv'
  OBVIOUS
<1> USE DEF ArmInv, TxKick, RxArmed, RxFull, HandlerReason, ChunkNotEmpty
<1>1. CASE WriteLoad
  BY <1>1 DEF WriteLoad, At, IInv, TypeOK, DriverType, ThreadType
<1>2. CASE WriteCopy
  BY <1>2 DEF WriteCopy, At, IInv, TypeOK, DriverType, ThreadType
<1>3. CASE WritePublish
  BY <1>3 DEF WritePublish, At, IInv, TypeOK, DriverType, ThreadType
<1>4. CASE WriteKick
  BY <1>4 DEF WriteKick, At, TurnOn, IInv, TypeOK, DriverType, ThreadType
<1>5. CASE WriteSpin
  BY <1>5 DEF WriteSpin, At, IInv, TypeOK, DriverType, ThreadType
<1>6. CASE WriteCheck
  BY <1>6 DEF WriteCheck, At, IInv, TypeOK, DriverType, ThreadType
<1>7. CASE WriteReturn
  BY <1>7 DEF WriteReturn, At, Return, IInv, TypeOK, DriverType, ThreadType
<1> QED
  BY <1>1, <1>2, <1>3, <1>4, <1>5, <1>6, <1>7 DEF WriteStep

\* read() re-arms after it has released anything.
LEMMA ReadArm == IInv /\ ArmInv /\ ReadStep => ArmInv'
<1> SUFFICES ASSUME IInv, ArmInv, ReadStep PROVE ArmInv'
  OBVIOUS
<1> USE DEF ArmInv, TxKick, RxArmed, RxFull, HandlerReason, ChunkNotEmpty
<1>1. CASE ReadLoad
  BY <1>1 DEF ReadLoad, At, Readable, SmallerOf, Slots, IInv, TypeOK, DriverType, ThreadType
<1>2. CASE ReadCopy
  BY <1>2 DEF ReadCopy, At, IInv, TypeOK, DriverType, ThreadType
<1>3. CASE ReadRelease
  BY <1>3 DEF ReadRelease, At, Slots, IInv, TypeOK, ThreadType
<1>4. CASE ReadSpin
  BY <1>4 DEF ReadSpin, At, IInv, TypeOK, DriverType, ThreadType
<1>5. CASE ReadCheck
  BY <1>5 DEF ReadCheck, At, IInv, TypeOK, DriverType, ThreadType
<1>6. CASE ReadReturn
  BY <1>6 DEF ReadReturn, At, Return, TurnOn, ReadSomething, IInv, TypeOK, DriverType, ThreadType
<1> QED
  BY <1>1, <1>2, <1>3, <1>4, <1>5, <1>6 DEF ReadStep

\* The handler turns an interrupt off only with nothing left to do for it.
LEMMA IrqArm == IInv /\ ArmInv /\ Irq => ArmInv'
<1> SUFFICES ASSUME IInv, ArmInv, Irq PROVE ArmInv'
  OBVIOUS
<1> USE DEF ArmInv, TxKick, RxArmed, RxFull, HandlerReason, ChunkNotEmpty
<1>1. CASE IrqEnter
  BY <1>1 DEF IrqEnter, IInv, TypeOK, DriverType, ThreadType
<1>2. CASE IrqControl
  BY <1>2 DEF IrqControl, IInv, TypeOK, DriverType, ThreadType
<1>3. CASE IrqRx
  BY <1>3 DEF IrqRx, IInv, TypeOK, DriverType, ThreadType
<1>4. CASE IrqRxEnd
  BY <1>4 DEF IrqRxEnd, TurnOff, IInv, TypeOK, DriverType, ThreadType
<1>5. CASE IrqTx
  BY <1>5 DEF IrqTx, IInv, TypeOK, DriverType, ThreadType
<1>6. CASE IrqTxEnd
  BY <1>6 DEF IrqTxEnd, TurnOff, NothingLeft, IInv, TypeOK, DriverType, ThreadType
<1> QED
  BY <1>1, <1>2, <1>3, <1>4, <1>5, <1>6 DEF Irq

\* Nobody else touches the enables or the rings.
LEMMA OutsideArm == IInv /\ ArmInv /\ (Timeout \/ CloseSpin \/ Host) => ArmInv'
<1> SUFFICES ASSUME IInv, ArmInv, (Timeout \/ CloseSpin \/ Host) PROVE ArmInv'
  OBVIOUS
<1> USE DEF ArmInv, TxKick, RxArmed, RxFull, HandlerReason, ChunkNotEmpty
<1>1. CASE Timeout
  BY <1>1 DEF Timeout, IInv, TypeOK, DriverType, ThreadType
<1>2. CASE CloseSpin
  BY <1>2 DEF CloseSpin, At, Return, IInv, TypeOK, DriverType, ThreadType
<1>3. CASE HostTake
  BY <1>3 DEF HostTake, IInv, TypeOK, DriverType, ThreadType
<1>4. CASE HostSend
  BY <1>4 DEF HostSend, IInv, TypeOK, DriverType, ThreadType
<1>5. CASE HostPoll
  BY <1>5 DEF HostPoll, IInv, TypeOK, DriverType, ThreadType
<1>6. CASE HostPlug
  BY <1>6 DEF HostPlug, IInv, TypeOK, DriverType, ThreadType
<1> QED
  BY <1>1, <1>2, <1>3, <1>4, <1>5, <1>6 DEF Host

\* A call begins from idle, where nobody owes an enable.
LEMMA CallArm == IInv /\ ArmInv /\ NewCall => ArmInv'
<1> SUFFICES ASSUME IInv, ArmInv, NewCall PROVE ArmInv'
  OBVIOUS
<1> USE DEF ArmInv, TxKick, RxArmed, RxFull, HandlerReason, ChunkNotEmpty
<1>1. ASSUME NEW size \in 0 .. MaxCall, NEW f \in SUBSET {"O_NONBLOCK"},
             NEW place \in {"w_load", "r_load", "c_spin"},
             Call(place, size, f)
      PROVE  ArmInv'
  BY <1>1 DEF Call, At
<1>2. ASSUME NEW t \in {1, 2, IntMax}, SetTimeout(t) PROVE ArmInv'
  BY <1>2 DEF SetTimeout, Return, At
<1> QED
  BY <1>1, <1>2 DEF NewCall, Write, Read, Close

LEMMA ArmCorrect == Spec => [](IInv /\ ArmInv)
<1>1. IInv /\ ArmInv /\ [Next]_vars => ArmInv'
  <2> SUFFICES ASSUME IInv, ArmInv, [Next]_vars PROVE ArmInv'
    OBVIOUS
  <2>1. CASE UNCHANGED vars
    BY <2>1 DEF vars, ArmInv, TxKick, RxArmed, RxFull, HandlerReason, ChunkNotEmpty
  <2> QED
    BY <2>1, WriteArm, ReadArm, CallArm, IrqArm, OutsideArm DEF Next
<1> QED
  BY <1>1, InitArm, IInvCorrect, PTL DEF Spec

\* The transmit interrupt is never left off with characters waiting, whatever
\* the sizes and however write() and the handler interleave.
THEOREM KickNeverLost == Spec => []TxKick
BY ArmCorrect, PTL DEF ArmInv

\* The receive interrupt is never left off with room in the ring, unless the
\* read() that made the room is about to turn it on.
THEOREM RearmNeverLost == Spec => []RxArmed
BY ArmCorrect, PTL DEF ArmInv

-----------------------------------------------------------------------------
\* How many characters a ring holds.
Fill(o, i) == (i - o + BufLen) % BufLen

LEMMA Modulo ==
    ASSUME NEW v \in 0 .. BufLen + BufLen - 1
    PROVE  v % BufLen = IF v < BufLen THEN v ELSE v - BufLen
<1>1. BufLen \in Nat /\ BufLen > 0
  OBVIOUS
<1>2. CASE v < BufLen
  BY <1>1, <1>2, SMT
<1>3. CASE ~(v < BufLen)
  <2>1. v - BufLen \in 0 .. BufLen - 1
    BY <1>3
  <2> QED
    BY <1>1, <1>3, <2>1, SMT
<1> QED
  BY <1>2, <1>3

LEMMA FillIs ==
    ASSUME NEW o \in Slots, NEW i \in Slots
    PROVE  /\ Fill(o, i) = IF i >= o THEN i - o ELSE i - o + BufLen
           /\ Fill(o, i) \in Slots
<1>1. i - o + BufLen \in 0 .. BufLen + BufLen - 1
  BY DEF Slots
<1> QED
  BY <1>1, Modulo DEF Fill, Slots

LEMMA AdvanceIs ==
    ASSUME NEW o \in Slots, NEW k \in 0 .. BufLen
    PROVE  /\ Advance(o, k) = IF o + k < BufLen THEN o + k ELSE o + k - BufLen
           /\ Advance(o, k) \in Slots
<1>1. o + k \in 0 .. BufLen + BufLen - 1
  BY DEF Slots
<1> QED
  BY <1>1, Modulo DEF Advance, Slots

\* Slots written past the end of a ring become its last ones.
LEMMA Extend ==
    ASSUME NEW o \in Slots, NEW i \in Slots, NEW k \in Nat,
           Fill(o, i) + k < BufLen, i + k <= BufLen
    PROVE  /\ Fill(o, Advance(i, k)) = Fill(o, i) + k
           /\ \A d \in 0 .. Fill(o, i) - 1, s \in i .. i + k - 1 : Advance(o, d) # s
           /\ \A d \in Fill(o, i) .. Fill(o, i) + k - 1 : Advance(o, d) = i + (d - Fill(o, i))
<1>1. k \in 0 .. BufLen /\ BufLen \in Nat
  BY FillIs DEF Slots
<1>2. Advance(i, k) \in Slots /\ Advance(i, k) = IF i + k < BufLen THEN i + k ELSE i + k - BufLen
  BY <1>1, AdvanceIs
<1>3. Fill(o, i) \in Slots /\ Fill(o, i) = IF i >= o THEN i - o ELSE i - o + BufLen
  BY FillIs
<1>4. \A d \in 0 .. BufLen : Advance(o, d) = IF o + d < BufLen THEN o + d ELSE o + d - BufLen
  BY AdvanceIs
<1>5. Fill(o, Advance(i, k)) = IF Advance(i, k) >= o THEN Advance(i, k) - o ELSE Advance(i, k) - o + BufLen
  BY <1>2, FillIs
<1>6. Fill(o, Advance(i, k)) = Fill(o, i) + k
  BY <1>1, <1>2, <1>3, <1>5 DEF Slots
<1>7. ASSUME NEW d \in 0 .. Fill(o, i) - 1, NEW s \in i .. i + k - 1
      PROVE  Advance(o, d) # s
  BY <1>1, <1>3, <1>4 DEF Slots
<1>8. ASSUME NEW d \in Fill(o, i) .. Fill(o, i) + k - 1
      PROVE  Advance(o, d) = i + (d - Fill(o, i))
  BY <1>1, <1>3, <1>4 DEF Slots
<1> QED
  BY <1>6, <1>7, <1>8

\* Slots released at the beginning of a ring leave the others in place.
LEMMA Shrink ==
    ASSUME NEW o \in Slots, NEW i \in Slots, NEW k \in 0 .. Fill(o, i)
    PROVE  /\ Fill(Advance(o, k), i) = Fill(o, i) - k
           /\ \A d \in 0 .. Fill(o, i) - k - 1 : Advance(Advance(o, k), d) = Advance(o, k + d)
<1>1. Fill(o, i) \in Slots /\ Fill(o, i) = IF i >= o THEN i - o ELSE i - o + BufLen
  BY FillIs
<1>2. k \in 0 .. BufLen /\ BufLen \in Nat
  BY <1>1 DEF Slots
<1>3. Advance(o, k) \in Slots /\ Advance(o, k) = IF o + k < BufLen THEN o + k ELSE o + k - BufLen
  BY <1>2, AdvanceIs
<1>4. \A d \in 0 .. BufLen : Advance(o, d) = IF o + d < BufLen THEN o + d ELSE o + d - BufLen
  BY AdvanceIs
<1>5. \A d \in 0 .. BufLen : Advance(Advance(o, k), d)
          = IF Advance(o, k) + d < BufLen THEN Advance(o, k) + d ELSE Advance(o, k) + d - BufLen
  BY <1>3, AdvanceIs
<1>6. Fill(Advance(o, k), i) = IF i >= Advance(o, k) THEN i - Advance(o, k) ELSE i - Advance(o, k) + BufLen
  BY <1>3, FillIs
<1>7. Fill(Advance(o, k), i) = Fill(o, i) - k
  BY <1>1, <1>2, <1>3, <1>6 DEF Slots
<1>8. ASSUME NEW d \in 0 .. Fill(o, i) - k - 1
      PROVE  Advance(Advance(o, k), d) = Advance(o, k + d)
  <2>1. d \in 0 .. BufLen /\ k + d \in 0 .. BufLen
    BY <1>1, <1>2 DEF Slots
  <2> QED
    BY <1>1, <1>2, <1>3, <1>4, <1>5, <2>1 DEF Slots
<1> QED
  BY <1>7, <1>8

-----------------------------------------------------------------------------
(* Both streams keep their order.  Characters are accounted for place by    *)
(* place, and a chunk under way is known to fit although the handler moves  *)
(* the other index while it is copied.                                      *)

\* The slots a ring holds are characters number first and following.
Holds(buf, o, i, first) == \A d \in 0 .. Fill(o, i) - 1 : buf[Advance(o, d)] = first + d

\* The space the handler counts on is there, and what the host has not taken
\* is in the write FIFO and the transmit ring, in order.
TxOrder ==
    /\ Len(wfifo) + space <= FifoDepth
    /\ hseq + Len(wfifo) + Fill(tx_out, tx_in) = wseq
    /\ \A k \in 1 .. Len(wfifo) : wfifo[k] = hseq + k - 1
    /\ Holds(tx_buf, tx_out, tx_in, hseq + Len(wfifo))

\* The chunk write() copies fits behind tx_in and is what it will publish.
TxChunk ==
    /\ pc \in {"w_copy", "w_publish"} =>
         in = tx_in /\ n > 0 /\ in + n <= BufLen /\ Fill(tx_out, tx_in) + n < BufLen
    /\ pc = "w_publish" => \A s \in in .. in + n - 1 : tx_buf[s] = wseq + (s - in)

TxInv == TxOrder /\ TxChunk

\* What read() has not handed over is in the receive ring and the read FIFO.
RxOrder ==
    /\ rgot + Fill(rx_out, rx_in) + Len(rfifo) = hsent
    /\ Holds(rx_buf, rx_out, rx_in, rgot)
    /\ \A k \in 1 .. Len(rfifo) : rfifo[k] = rgot + Fill(rx_out, rx_in) + k - 1

\* The chunk read() copies is in the ring, and copied it is what it releases.
RxChunk ==
    /\ pc \in {"r_copy", "r_release"} => out = rx_out /\ n <= Fill(rx_out, rx_in)
    /\ pc # "r_release" => mem = <<>>
    /\ mem = Run(rgot, rgot + Len(mem))

RxInv == RxOrder /\ RxChunk

LEMMA RunEmpty == ASSUME NEW a \in Nat PROVE Run(a, a) = <<>> /\ Run(a, a + Len(<<>>)) = <<>>
BY DEF Run

LEMMA InitStreams == Init => TxInv /\ RxInv
<1> SUFFICES ASSUME Init PROVE TxInv /\ RxInv
  OBVIOUS
<1>1. Fill(0, 0) = 0 /\ 0 \in Slots
  BY FillIs DEF Slots
<1>2. TxInv
  BY <1>1 DEF Init, TxInv, TxOrder, TxChunk, Holds
<1>3. RxInv
  BY <1>1, RunEmpty DEF Init, RxInv, RxOrder, RxChunk, Holds
<1> QED
  BY <1>2, <1>3

\* Steps that leave the transmit ring, the FIFO and the chunk alone.
LEMMA TxFrame ==
    ASSUME TxInv, UNCHANGED <<tx_in, tx_out, tx_buf, wfifo, hseq, wseq>>,
           Len(wfifo) + space' <= FifoDepth,
           pc' \in {"w_copy", "w_publish"} => UNCHANGED <<pc, in, n>>
    PROVE  TxInv'
<1>1. TxOrder'
  BY DEF TxInv, TxOrder, Holds, Fill, Advance
<1>2. TxChunk'
  BY DEF TxInv, TxChunk, Fill
<1> QED
  BY <1>1, <1>2 DEF TxInv

\* Steps that leave the receive ring, the FIFO and the chunk alone.
LEMMA RxFrame ==
    ASSUME RxInv, IInv, UNCHANGED <<rx_in, rx_out, rx_buf, rfifo, hsent, rgot>>,
           pc' \in {"r_copy", "r_release"} => UNCHANGED <<pc, out, n>>,
           mem' = <<>> \/ (mem' = mem /\ (pc = "r_release" => pc' = "r_release"))
    PROVE  RxInv'
<1>1. RxOrder'
  BY DEF RxInv, RxOrder, Holds, Fill, Advance
<1>2. RxChunk'
  <2>1. rgot \in Nat
    BY DEF IInv, TypeOK, CountsType
  <2>2. CASE mem' = <<>>
    BY <2>1, <2>2, RunEmpty DEF RxInv, RxChunk, Fill
  <2>3. CASE mem' = mem /\ (pc = "r_release" => pc' = "r_release")
    BY <2>3 DEF RxInv, RxChunk, Fill, Run
  <2> QED
    BY <2>2, <2>3
<1> QED
  BY <1>1, <1>2 DEF RxInv

\* The free run is free, up to the end of the ring.
LEMMA FreeRun ==
    ASSUME NEW i \in Slots, NEW o \in Slots
    PROVE  i + Contiguous(i, o) <= BufLen /\ Fill(o, i) + Contiguous(i, o) < BufLen
BY FillIs DEF Contiguous, Slots

\* write(): the characters copied behind tx_in become the last of the ring.
LEMMA WriteTx == IInv /\ TxInv /\ WriteStep => TxInv'
<1> SUFFICES ASSUME IInv, TxInv, WriteStep PROVE TxInv'
  OBVIOUS
<1>0. /\ tx_in \in Slots /\ tx_out \in Slots /\ n \in Slots /\ in \in Slots /\ left \in Nat
      /\ wseq \in Nat /\ hseq \in Nat /\ Len(wfifo) \in Nat /\ tx_buf \in [Slots -> Nat]
      /\ Fill(tx_out, tx_in) \in Slots
  <2>1. tx_in \in Slots /\ tx_out \in Slots /\ tx_buf \in [Slots -> Nat]
    BY DEF IInv, TypeOK, DriverType
  <2>2. n \in Slots /\ in \in Slots /\ left \in Nat
    BY DEF IInv, TypeOK, ThreadType
  <2>3. wseq \in Nat /\ hseq \in Nat /\ Len(wfifo) \in Nat
    BY DEF IInv, TypeOK, CountsType, DeviceType
  <2>4. Fill(tx_out, tx_in) \in Slots
    BY <2>1, FillIs
  <2> QED
    BY <2>1, <2>2, <2>3, <2>4
<1>1. CASE WriteLoad
  <2>1. UNCHANGED <<tx_in, tx_out, tx_buf, wfifo, hseq, wseq, space>>
    BY <1>1 DEF WriteLoad
  <2>2. TxOrder'
    BY <2>1 DEF TxInv, TxOrder, Holds, Fill, Advance
  <2>3. TxChunk'
    <3>1. pc' # "w_publish"
      BY <1>1 DEF WriteLoad
    <3>2. ASSUME pc' = "w_copy"
          PROVE  in' = tx_in /\ n' > 0 /\ in' + n' <= BufLen /\ Fill(tx_out, tx_in) + n' < BufLen
      <4>1. /\ left > 0 /\ in' = tx_in /\ n' = SmallerOf(Contiguous(tx_in, tx_out), left)
            /\ Contiguous(tx_in, tx_out) # 0
        BY <1>1, <3>2 DEF WriteLoad
      <4> DEFINE C == Contiguous(tx_in, tx_out)  F == Fill(tx_out, tx_in)
      <4>2. C \in Nat /\ F \in Nat /\ tx_in \in Nat
        BY <1>0, RunType DEF Slots
      <4>3. tx_in + C <= BufLen /\ F + C < BufLen
        BY <1>0, FreeRun
      <4>4. in' = tx_in /\ n' = SmallerOf(C, left) /\ C # 0 /\ left > 0
        BY <4>1
      <4> SUFFICES in' = tx_in /\ n' > 0 /\ in' + n' <= BufLen /\ F + n' < BufLen
        OBVIOUS
      <4> HIDE DEF C, F
      <4> QED
        BY <1>0, <4>2, <4>3, <4>4 DEF SmallerOf
    <3> QED
      BY <2>1, <3>1, <3>2 DEF TxChunk, Fill
  <2> QED
    BY <2>2, <2>3 DEF TxInv
<1>2. CASE WriteCopy
  <2>1. /\ UNCHANGED <<tx_in, tx_out, wfifo, hseq, wseq, space, in, n>>
        /\ pc = "w_copy" /\ pc' = "w_publish"
        /\ tx_buf' = [s \in Slots |-> IF s \in in .. in + n - 1 THEN wseq + (s - in) ELSE tx_buf[s]]
    BY <1>2 DEF WriteCopy, At
  <2>2. in = tx_in /\ n > 0 /\ in + n <= BufLen /\ Fill(tx_out, tx_in) + n < BufLen
    BY <2>1 DEF TxInv, TxChunk
  <2>3. \A d \in 0 .. Fill(tx_out, tx_in) - 1, s \in in .. in + n - 1 : Advance(tx_out, d) # s
    <3>1. n \in Nat /\ tx_in + n <= BufLen
      BY <1>0, <2>2 DEF Slots
    <3>2. Fill(tx_out, tx_in) + n < BufLen /\ tx_in \in Slots /\ tx_out \in Slots
      BY <1>0, <2>2
    <3>3. PICK o \in Slots, i \in Slots, k \in Nat : o = tx_out /\ i = tx_in /\ k = n
      BY <3>1, <3>2
    <3>4. Fill(o, i) + k < BufLen /\ i + k <= BufLen
      BY <3>1, <3>2, <3>3
    <3>5. \A d \in 0 .. Fill(o, i) - 1, s \in i .. i + k - 1 : Advance(o, d) # s
      BY <3>4, Extend
    <3> QED
      BY <2>2, <3>3, <3>5
  <2>4. \A d \in 0 .. Fill(tx_out, tx_in) - 1 : Advance(tx_out, d) \in Slots
    BY <1>0, AdvanceType DEF Slots
  <2>5. \A d \in 0 .. Fill(tx_out, tx_in) - 1 : tx_buf'[Advance(tx_out, d)] = tx_buf[Advance(tx_out, d)]
    BY <2>1, <2>3, <2>4
  <2>6. TxOrder'
    <3>1. Holds(tx_buf, tx_out, tx_in, hseq + Len(wfifo))'
      BY <2>1, <2>5 DEF TxInv, TxOrder, Holds, Fill, Advance
    <3> QED
      BY <2>1, <3>1 DEF TxInv, TxOrder, Fill
  <2>7. \A s \in in .. in + n - 1 : tx_buf'[s] = wseq + (s - in)
    <3>1. \A s \in in .. in + n - 1 : s \in Slots
      BY <1>0, <2>2 DEF Slots
    <3> QED
      BY <2>1, <3>1
  <2>8. TxChunk'
    BY <2>1, <2>2, <2>7 DEF TxChunk, Fill
  <2> QED
    BY <2>6, <2>8 DEF TxInv
<1>3. CASE WritePublish
  <2>1. /\ UNCHANGED <<tx_out, tx_buf, wfifo, hseq, space>>
        /\ pc = "w_publish" /\ pc' = "w_load"
        /\ tx_in' = Advance(in, n) /\ wseq' = wseq + n
    BY <1>3 DEF WritePublish, At
  <2>2. /\ in = tx_in /\ n > 0 /\ in + n <= BufLen /\ Fill(tx_out, tx_in) + n < BufLen
        /\ \A s \in in .. in + n - 1 : tx_buf[s] = wseq + (s - in)
    BY <2>1 DEF TxInv, TxChunk
  <2> DEFINE F == Fill(tx_out, tx_in)
  <2>3. /\ Fill(tx_out, Advance(tx_in, n)) = F + n
        /\ \A d \in F .. F + n - 1 : Advance(tx_out, d) = tx_in + (d - F)
    BY <1>0, <2>2, Extend DEF Slots
  <2>4. TxOrder'
    <3>1. /\ F \in Nat /\ n \in Nat /\ tx_in \in Nat
          /\ hseq + Len(wfifo) + F = wseq
          /\ \A d \in 0 .. F - 1 : tx_buf[Advance(tx_out, d)] = hseq + Len(wfifo) + d
      BY <1>0 DEF Slots, TxInv, TxOrder, Holds
    <3>2. Fill(tx_out', tx_in') = F + n
      BY <2>1, <2>2, <2>3
    <3> HIDE DEF F
    <3>3. ASSUME NEW d \in 0 .. F + n - 1
          PROVE  tx_buf[Advance(tx_out, d)] = hseq + Len(wfifo) + d
      <4>1. CASE d < F
        BY <3>1, <4>1
      <4>2. CASE ~(d < F)
        <5> DEFINE s == tx_in + (d - F)
        <5>1. d \in F .. F + n - 1 /\ s \in in .. in + n - 1 /\ s - in = d - F
          BY <2>2, <3>1, <4>2
        <5>2. Advance(tx_out, d) = s
          BY <2>3, <5>1
        <5> HIDE DEF s
        <5>3. tx_buf[s] = wseq + (s - in)
          BY <2>2, <5>1
        <5>4. wseq + (s - in) = hseq + Len(wfifo) + d
          BY <1>0, <3>1, <4>2, <5>1
        <5> QED
          BY <5>2, <5>3, <5>4
      <4> QED
        BY <4>1, <4>2
    <3>4. Holds(tx_buf, tx_out, tx_in, hseq + Len(wfifo))'
      <4>1. tx_buf' = tx_buf /\ tx_out' = tx_out /\ hseq' = hseq /\ wfifo' = wfifo
        BY <2>1
      <4>2. ASSUME NEW d \in 0 .. Fill(tx_out', tx_in') - 1
            PROVE  tx_buf'[Advance(tx_out', d)] = hseq' + Len(wfifo') + d
        <5>1. d \in 0 .. F + n - 1
          BY <3>1, <3>2
        <5> QED
          BY <3>3, <4>1, <5>1
      <4> QED
        BY <4>2 DEF Holds
    <3>5. hseq' + Len(wfifo') + Fill(tx_out', tx_in') = wseq'
      BY <1>0, <2>1, <3>1, <3>2
    <3> QED
      BY <2>1, <3>4, <3>5 DEF TxInv, TxOrder
  <2>5. TxChunk'
    BY <2>1 DEF TxChunk
  <2> QED
    BY <2>4, <2>5 DEF TxInv
<1>4. CASE WriteKick \/ WriteSpin \/ WriteCheck \/ WriteReturn
  <2>1. /\ UNCHANGED <<tx_in, tx_out, tx_buf, wfifo, hseq, wseq, space>>
        /\ pc' \notin {"w_copy", "w_publish"}
    BY <1>4 DEF WriteKick, WriteSpin, WriteCheck, WriteReturn, Return
  <2> QED
    BY <2>1, TxFrame DEF TxInv, TxOrder
<1> QED
  BY <1>1, <1>2, <1>3, <1>4 DEF WriteStep

-----------------------------------------------------------------------------
\* The handler moves the oldest character of the ring to the end of the FIFO,
\* which has room for it; the host takes the oldest of the FIFO.
LEMMA IrqTxStep == IInv /\ TxInv /\ IrqTx => TxInv'
<1> SUFFICES ASSUME IInv, TxInv, IrqTx PROVE TxInv'
  OBVIOUS
<1> DEFINE F == Fill(tx_out, tx_in)  L == Len(wfifo)
<1>1. /\ tx_in \in Slots /\ tx_out \in Slots /\ wfifo \in Seq(Nat) /\ L \in Nat /\ F \in Slots
      /\ space \in Nat /\ hseq \in Nat /\ wseq \in Nat
  BY FillIs DEF IInv, TypeOK, DriverType, DeviceType, CountsType, HandlerType
<1>2. /\ UNCHANGED <<tx_in, tx_buf, hseq, wseq, pc, in, n>>
  BY DEF IrqTx
<1>3. /\ L + space <= FifoDepth /\ hseq + L + F = wseq
      /\ \A k \in 1 .. L : wfifo[k] = hseq + k - 1
      /\ \A d \in 0 .. F - 1 : tx_buf[Advance(tx_out, d)] = hseq + L + d
  BY DEF TxInv, TxOrder, Holds
<1>4. CASE space = 0 \/ tx_out = tx_in
  <2>1. UNCHANGED <<wfifo, tx_out, space>>
    BY <1>4, <1>1 DEF IrqTx
  <2> QED
    BY <1>2, <1>3, <2>1, TxFrame
<1>5. CASE space > 0 /\ tx_out # tx_in
  <2>1. F > 0
    <3>1. F = IF tx_in >= tx_out THEN tx_in - tx_out ELSE tx_in - tx_out + BufLen
      BY <1>1, FillIs
    <3> HIDE DEF F
    <3> QED
      BY <1>1, <1>5, <3>1 DEF Slots
  <2>2. /\ wfifo' = Append(wfifo, tx_buf[tx_out])
        /\ tx_out' = Advance(tx_out, 1) /\ space' = space - 1
    BY <1>1, <1>3, <1>5 DEF IrqTx
  <2>3. tx_buf[tx_out] = hseq + L
    <3>1. Advance(tx_out, 0) = tx_out
      BY <1>1, AdvanceIs DEF Slots
    <3>2. F \in Nat
      BY <1>1 DEF Slots
    <3> HIDE DEF F, L
    <3> QED
      BY <1>1, <1>3, <2>1, <3>1, <3>2
  <2>4. /\ Len(wfifo') = L + 1
        /\ \A k \in 1 .. L + 1 : wfifo'[k] = IF k = L + 1 THEN tx_buf[tx_out] ELSE wfifo[k]
    BY <1>1, <2>2
  <2>5. /\ Fill(tx_out', tx_in') = F - 1
        /\ \A d \in 0 .. F - 2 : Advance(tx_out', d) = Advance(tx_out, 1 + d)
    <3>1. F \in Nat /\ 1 \in 0 .. F
      BY <1>1, <2>1 DEF Slots
    <3>2. \A d \in 0 .. F - 1 - 1 : Advance(Advance(tx_out, 1), d) = Advance(tx_out, 1 + d)
      BY <1>1, <3>1, Shrink
    <3>3. Fill(Advance(tx_out, 1), tx_in) = F - 1
      BY <1>1, <3>1, Shrink
    <3> HIDE DEF F
    <3>4. \A d \in 0 .. F - 2 : Advance(Advance(tx_out, 1), d) = Advance(tx_out, 1 + d)
      BY <3>1, <3>2
    <3> QED
      BY <1>2, <2>2, <3>3, <3>4
  <2>6. F \in Nat /\ L \in Nat
    BY <1>1 DEF Slots
  <2> HIDE DEF F, L
  <2>7. ASSUME NEW k \in 1 .. Len(wfifo') PROVE wfifo'[k] = hseq' + k - 1
    <3>1. k \in 1 .. L + 1 /\ hseq' = hseq
      BY <1>2, <2>4
    <3>2. CASE k = L + 1
      <4>1. wfifo'[k] = hseq + L
        BY <2>3, <2>4, <3>1, <3>2
      <4> QED
        BY <1>1, <2>6, <3>1, <3>2, <4>1
    <3>3. CASE k # L + 1
      <4>1. k \in 1 .. L
        BY <2>6, <3>1, <3>3
      <4>2. wfifo'[k] = wfifo[k]
        BY <2>4, <3>1, <3>3
      <4> QED
        BY <1>3, <3>1, <4>1, <4>2
    <3> QED
      BY <3>2, <3>3
  <2>8. ASSUME NEW d \in 0 .. Fill(tx_out', tx_in') - 1
        PROVE  tx_buf'[Advance(tx_out', d)] = hseq' + Len(wfifo') + d
    <3>1. d \in 0 .. F - 2 /\ 1 + d \in 0 .. F - 1
      BY <2>5, <2>6
    <3>2. tx_buf[Advance(tx_out, 1 + d)] = hseq + L + (1 + d)
      BY <1>3, <3>1
    <3>3. Advance(tx_out', d) = Advance(tx_out, 1 + d)
      BY <2>5, <3>1
    <3> QED
      BY <1>1, <1>2, <2>4, <2>6, <3>1, <3>2, <3>3
  <2>9. TxOrder'
    <3>1. Len(wfifo') + space' <= FifoDepth
      BY <1>1, <1>3, <2>2, <2>4, <2>6
    <3>2. hseq' + Len(wfifo') + Fill(tx_out', tx_in') = wseq'
      BY <1>1, <1>2, <1>3, <2>4, <2>5, <2>6
    <3> QED
      BY <2>7, <2>8, <3>1, <3>2 DEF TxOrder, Holds
  <2>10. TxChunk'
    <3>1. pc \in {"w_copy", "w_publish"} => Fill(tx_out', tx_in') + n < BufLen
      <4>1. n \in Nat
        BY DEF IInv, TypeOK, ThreadType, Slots
      <4>2. pc \in {"w_copy", "w_publish"} => F + n < BufLen
        BY DEF TxInv, TxChunk, F
      <4> QED
        BY <2>5, <2>6, <4>1, <4>2
    <3> QED
      BY <1>2, <3>1 DEF TxInv, TxChunk
  <2> QED
    BY <2>9, <2>10 DEF TxInv
<1> QED
  BY <1>1, <1>4, <1>5

LEMMA HostTakeTx == IInv /\ TxInv /\ HostTake => TxInv'
<1> SUFFICES ASSUME IInv, TxInv, HostTake PROVE TxInv'
  OBVIOUS
<1> DEFINE F == Fill(tx_out, tx_in)  L == Len(wfifo)
<1>0. tx_in \in Slots /\ tx_out \in Slots
  BY DEF IInv, TypeOK, DriverType
<1>1. /\ wfifo \in Seq(Nat) /\ L \in Nat /\ F \in Nat /\ space \in Nat /\ hseq \in Nat /\ wseq \in Nat
  <2>1. F \in Slots
    BY <1>0, FillIs
  <2> HIDE DEF F
  <2> QED
    BY <2>1, SlotsNat DEF IInv, TypeOK, DeviceType, CountsType, HandlerType
<1>2. /\ tx_in' = tx_in /\ tx_out' = tx_out /\ tx_buf' = tx_buf /\ wseq' = wseq /\ space' = space
      /\ UNCHANGED <<pc, in, n>>
      /\ wfifo # <<>> /\ wfifo' = Tail(wfifo) /\ hseq' = hseq + 1
  BY DEF HostTake
<1>3. L > 0 /\ Len(wfifo') = L - 1 /\ \A k \in 1 .. L - 1 : wfifo'[k] = wfifo[k + 1]
  BY <1>1, <1>2
<1>4. /\ L + space <= FifoDepth /\ hseq + L + F = wseq
      /\ \A k \in 1 .. L : wfifo[k] = hseq + k - 1
      /\ \A d \in 0 .. F - 1 : tx_buf[Advance(tx_out, d)] = hseq + L + d
  BY DEF TxInv, TxOrder, Holds
<1>5. Fill(tx_out', tx_in') = F
  BY <1>2
<1> HIDE DEF F, L
<1>6. hseq' + Len(wfifo') = hseq + L
  BY <1>1, <1>2, <1>3
<1>7. TxOrder'
  <2>1. Len(wfifo') + space' <= FifoDepth
    BY <1>1, <1>2, <1>3, <1>4
  <2>2. hseq' + Len(wfifo') + Fill(tx_out', tx_in') = wseq'
    BY <1>2, <1>4, <1>5, <1>6
  <2>3. ASSUME NEW k \in 1 .. Len(wfifo') PROVE wfifo'[k] = hseq' + k - 1
    <3>1. k \in 1 .. L - 1 /\ k + 1 \in 1 .. L
      BY <1>1, <1>3
    <3>2. wfifo'[k] = wfifo[k + 1] /\ wfifo[k + 1] = hseq + (k + 1) - 1
      BY <1>3, <1>4, <3>1
    <3> QED
      BY <1>1, <1>2, <3>1, <3>2
  <2>4. ASSUME NEW d \in 0 .. Fill(tx_out', tx_in') - 1
        PROVE  tx_buf'[Advance(tx_out', d)] = hseq' + Len(wfifo') + d
    <3>1. d \in 0 .. F - 1
      BY <1>5
    <3> QED
      BY <1>2, <1>4, <1>6, <3>1
  <2> QED
    BY <2>1, <2>2, <2>3, <2>4 DEF TxOrder, Holds
<1>8. TxChunk'
  BY <1>2 DEF TxInv, TxChunk
<1> QED
  BY <1>7, <1>8 DEF TxInv

\* Nothing else touches the transmit path.
LEMMA OtherTx ==
  ASSUME IInv, TxInv,
         ReadStep \/ NewCall \/ CloseSpin \/ Timeout \/ HostSend \/ HostPoll \/ HostPlug
         \/ IrqEnter \/ IrqControl \/ IrqRx \/ IrqRxEnd \/ IrqTxEnd
  PROVE  TxInv'
<1>1. /\ UNCHANGED <<tx_in, tx_out, tx_buf, wfifo, hseq, wseq>>
      /\ pc' \in {"w_copy", "w_publish"} => UNCHANGED <<pc, in, n>>
  <2>1. CASE ReadStep
    BY <2>1 DEF ReadStep, ReadLoad, ReadCopy, ReadRelease, ReadSpin, ReadCheck, ReadReturn, Return
  <2>2. CASE NewCall
    BY <2>2 DEF NewCall, Write, Read, Close, Call, SetTimeout, Return
  <2>3. CASE CloseSpin \/ Timeout \/ HostSend \/ HostPoll \/ HostPlug
    BY <2>3 DEF CloseSpin, Return, Timeout, HostSend, HostPoll, HostPlug
  <2>4. CASE IrqEnter \/ IrqControl \/ IrqRx \/ IrqRxEnd \/ IrqTxEnd
    BY <2>4 DEF IrqEnter, IrqControl, IrqRx, IrqRxEnd, IrqTxEnd
  <2> QED
    BY <2>1, <2>2, <2>3, <2>4
<1>2. Len(wfifo) + space' <= FifoDepth
  <2>1. Len(wfifo) \in 0 .. FifoDepth
    BY DEF IInv, TypeOK, DeviceType
  <2>2. CASE IrqControl
    BY <2>1, <2>2 DEF IrqControl
  <2>3. CASE ~IrqControl
    <3>1. space' = space
      BY <2>3 DEF ReadStep, ReadLoad, ReadCopy, ReadRelease, ReadSpin, ReadCheck, ReadReturn,
        NewCall, Write, Read, Close, Call, SetTimeout, CloseSpin, Timeout,
        HostSend, HostPoll, HostPlug, IrqEnter, IrqRx, IrqRxEnd, IrqTxEnd
    <3> QED
      BY <3>1 DEF TxInv, TxOrder
  <2> QED
    BY <2>2, <2>3
<1> QED
  BY <1>1, <1>2, TxFrame

-----------------------------------------------------------------------------
\* read(): the characters copied are the oldest of the ring, and released they
\* are the next ones handed over.
LEMMA ReadRx == IInv /\ RxInv /\ ReadStep => RxInv'
<1> SUFFICES ASSUME IInv, RxInv, ReadStep PROVE RxInv'
  OBVIOUS
<1> DEFINE F == Fill(rx_out, rx_in)
<1>1. /\ rx_in \in Slots /\ rx_out \in Slots /\ out \in Slots /\ n \in Slots /\ left \in Nat
      /\ rgot \in Nat /\ hsent \in Nat /\ Len(rfifo) \in Nat /\ F \in Slots
  <2>1. rx_in \in Slots /\ rx_out \in Slots
    BY DEF IInv, TypeOK, DriverType
  <2>2. out \in Slots /\ n \in Slots /\ left \in Nat
    BY DEF IInv, TypeOK, ThreadType
  <2>3. rgot \in Nat /\ hsent \in Nat /\ Len(rfifo) \in Nat
    BY DEF IInv, TypeOK, CountsType, DeviceType
  <2>4. F \in Slots
    BY <2>1, FillIs
  <2> QED
    BY <2>1, <2>2, <2>3, <2>4
<1>2. F \in Nat /\ n \in Nat /\ out \in Nat
  <2> HIDE DEF F
  <2> QED
    BY <1>1, SlotsNat
<1>3. /\ rgot + F + Len(rfifo) = hsent
      /\ \A d \in 0 .. F - 1 : rx_buf[Advance(rx_out, d)] = rgot + d
      /\ \A k \in 1 .. Len(rfifo) : rfifo[k] = rgot + F + k - 1
  BY DEF RxInv, RxOrder, Holds
<1>4. CASE ReadLoad
  <2>1. UNCHANGED <<rx_in, rx_out, rx_buf, rfifo, hsent, rgot, mem>> /\ pc = "r_load"
    BY <1>4 DEF ReadLoad, At
  <2>2. RxOrder'
    BY <2>1 DEF RxInv, RxOrder, Holds, Fill, Advance
  <2>3. mem = <<>> /\ mem = Run(rgot, rgot + Len(mem))
    BY <2>1 DEF RxInv, RxChunk
  <2>4. pc' # "r_release"
    BY <1>4 DEF ReadLoad
  <2>5. ASSUME pc' = "r_copy" PROVE out' = rx_out /\ n' <= F
    <3>1. out' = rx_out /\ n' = SmallerOf(Readable(rx_in, rx_out), left)
      BY <1>4, <2>5 DEF ReadLoad
    <3>2. Readable(rx_in, rx_out) <= F /\ Readable(rx_in, rx_out) \in Slots
      <4>1. F = IF rx_in >= rx_out THEN rx_in - rx_out ELSE rx_in - rx_out + BufLen
        BY <1>1, FillIs
      <4> HIDE DEF F
      <4> QED
        BY <1>1, <4>1, RunType DEF Readable, Slots
    <3>3. n' \in Slots /\ n' <= Readable(rx_in, rx_out)
      BY <1>1, <3>1, <3>2, SmallerType
    <3> DEFINE R == Readable(rx_in, rx_out)
    <3>4. R \in Nat /\ n' \in Nat /\ R <= F /\ n' <= R
      BY <3>2, <3>3, SlotsNat
    <3> HIDE DEF F, R
    <3> QED
      BY <1>2, <3>1, <3>4
  <2>6. RxChunk'
    <3>1. Fill(rx_out', rx_in') = F
      BY <2>1
    <3>2. pc' \in {"r_copy", "r_release"} => out' = rx_out' /\ n' <= Fill(rx_out', rx_in')
      BY <2>1, <2>4, <2>5, <3>1
    <3> QED
      BY <2>1, <2>3, <3>2 DEF RxChunk, Run
  <2> QED
    BY <2>2, <2>6 DEF RxInv
<1>5. CASE ReadCopy
  <2>1. /\ UNCHANGED <<rx_in, rx_out, rx_buf, rfifo, hsent, rgot, out, n>>
        /\ pc = "r_copy" /\ pc' = "r_release"
        /\ mem' = [d \in 1 .. n |-> rx_buf[out + d - 1]]
    BY <1>5 DEF ReadCopy, At
  <2>2. out = rx_out /\ n <= F /\ out + n <= BufLen
    BY <2>1 DEF RxInv, RxChunk, IInv, ChunkOK
  <2>3. RxOrder'
    BY <2>1 DEF RxInv, RxOrder, Holds, Fill, Advance
  <2>4. ASSUME NEW d \in 1 .. n PROVE rx_buf[out + d - 1] = rgot + d - 1
    <3>1. d - 1 \in 0 .. F - 1 /\ d - 1 \in 0 .. BufLen /\ out + (d - 1) < BufLen
          /\ out + (d - 1) = out + d - 1 /\ rgot + (d - 1) = rgot + d - 1
      <4> HIDE DEF F
      <4> QED
        BY <1>1, <1>2, <2>2
    <3>2. Advance(rx_out, d - 1) = out + d - 1
      BY <1>1, <2>2, <3>1, AdvanceIs
    <3>3. rx_buf[Advance(rx_out, d - 1)] = rgot + (d - 1)
      BY <1>3, <3>1
    <3> QED
      BY <3>1, <3>2, <3>3
  <2>5. Len(mem') = n
    BY <1>2, <2>1
  <2>6. mem' = Run(rgot, rgot + n)
    <3>1. 1 .. (rgot + n) - rgot = 1 .. n
      BY <1>1, <1>2
    <3> QED
      BY <2>1, <2>4, <3>1 DEF Run
  <2>7. RxChunk'
    <3>1. mem' = Run(rgot, rgot + Len(mem'))
      BY <2>5, <2>6
    <3>2. Fill(rx_out', rx_in') = F
      BY <2>1
    <3>3. Run(rgot', rgot' + Len(mem')) = Run(rgot, rgot + Len(mem'))
      BY <2>1
    <3> QED
      BY <2>1, <2>2, <3>1, <3>2, <3>3 DEF RxChunk, Run
  <2> QED
    BY <2>3, <2>7 DEF RxInv
<1>6. CASE ReadRelease
  <2>1. /\ UNCHANGED <<rx_in, rx_buf, rfifo, hsent>>
        /\ pc = "r_release" /\ pc' = "r_load" /\ mem' = <<>>
        /\ rx_out' = Advance(out, n) /\ rgot' = rgot + n
    BY <1>6 DEF ReadRelease, At
  <2>2. out = rx_out /\ n \in 0 .. F
    <3>1. out = rx_out /\ n <= F
      BY <2>1 DEF RxInv, RxChunk
    <3> HIDE DEF F
    <3> QED
      BY <1>2, <3>1
  <2>3. /\ Fill(rx_out', rx_in') = F - n
        /\ \A d \in 0 .. F - n - 1 : Advance(rx_out', d) = Advance(rx_out, n + d)
    BY <1>1, <2>1, <2>2, Shrink
  <2> HIDE DEF F
  <2>4. rgot' + Fill(rx_out', rx_in') = rgot + F /\ rgot' \in Nat
    BY <1>1, <1>2, <2>1, <2>2, <2>3
  <2>5. ASSUME NEW d \in 0 .. Fill(rx_out', rx_in') - 1
        PROVE  rx_buf'[Advance(rx_out', d)] = rgot' + d
    <3>1. d \in 0 .. F - n - 1 /\ n + d \in 0 .. F - 1
      BY <1>2, <2>2, <2>3
    <3>2. rx_buf[Advance(rx_out, n + d)] = rgot + (n + d)
      BY <1>3, <3>1
    <3>3. Advance(rx_out', d) = Advance(rx_out, n + d)
      BY <2>3, <3>1
    <3> QED
      BY <1>1, <1>2, <2>1, <3>1, <3>2, <3>3
  <2>6. RxOrder'
    <3>1. rgot' + Fill(rx_out', rx_in') + Len(rfifo') = hsent'
      BY <1>3, <2>1, <2>4
    <3>2. \A k \in 1 .. Len(rfifo') : rfifo'[k] = rgot' + Fill(rx_out', rx_in') + k - 1
      BY <1>3, <2>1, <2>4
    <3> QED
      BY <2>5, <3>1, <3>2 DEF RxOrder, Holds
  <2>7. RxChunk'
    BY <2>1, <2>4, RunEmpty DEF RxChunk, Run
  <2> QED
    BY <2>6, <2>7 DEF RxInv
<1>7. CASE ReadSpin \/ ReadCheck \/ ReadReturn
  <2>1. /\ UNCHANGED <<rx_in, rx_out, rx_buf, rfifo, hsent, rgot>>
        /\ pc' \notin {"r_copy", "r_release"} /\ pc # "r_release"
        /\ mem' = <<>> \/ mem' = mem
    BY <1>7 DEF ReadSpin, ReadCheck, ReadReturn, Return, At
  <2> QED
    BY <2>1, RxFrame
<1> QED
  BY <1>4, <1>5, <1>6, <1>7 DEF ReadStep

\* The handler puts the oldest of the FIFO behind the last of the ring, only
\* when a slot besides the empty one is free.
LEMMA IrqRxStep == IInv /\ RxInv /\ IrqRx => RxInv'
<1> SUFFICES ASSUME IInv, RxInv, IrqRx PROVE RxInv'
  OBVIOUS
<1> DEFINE F == Fill(rx_out, rx_in)  L == Len(rfifo)
<1>0. rx_in \in Slots /\ rx_out \in Slots /\ n \in Slots /\ rx_buf \in [Slots -> Nat]
  BY DEF IInv, TypeOK, DriverType, ThreadType
<1>1. /\ rx_in \in Slots /\ rx_out \in Slots /\ F \in Slots /\ n \in Slots
      /\ rx_buf \in [Slots -> Nat]
      /\ rgot \in Nat /\ hsent \in Nat /\ L \in Nat /\ rfifo \in Seq(Nat)
  <2>1. F \in Slots
    BY <1>0, FillIs
  <2> HIDE DEF F
  <2> QED
    BY <1>0, <2>1 DEF IInv, TypeOK, CountsType, DeviceType
<1>2. F \in Nat /\ n \in Nat /\ rx_in \in Nat /\ rx_in + 1 <= BufLen /\ F < BufLen
  <2> HIDE DEF F
  <2> QED
    BY <1>1 DEF Slots
<1>3. /\ rgot + F + L = hsent
      /\ \A d \in 0 .. F - 1 : rx_buf[Advance(rx_out, d)] = rgot + d
      /\ \A k \in 1 .. L : rfifo[k] = rgot + F + k - 1
  BY DEF RxInv, RxOrder, Holds
<1>4. UNCHANGED <<rx_out, pc, out, n, mem, hsent, rgot>>
  BY DEF IrqRx
<1>5. CASE RxFull \/ rfifo = <<>>
  <2>1. UNCHANGED <<rx_in, rx_buf, rfifo>>
    BY <1>5 DEF IrqRx
  <2> QED
    BY <1>4, <2>1, RxFrame
<1>6. CASE ~RxFull /\ rfifo # <<>>
  <2>1. /\ rx_buf' = [rx_buf EXCEPT ![rx_in] = Head(rfifo)]
        /\ rx_in' = Advance(rx_in, 1) /\ rfifo' = Tail(rfifo)
    BY <1>6 DEF IrqRx
  <2>2. F + 1 < BufLen
    <3>1. F = IF rx_in >= rx_out THEN rx_in - rx_out ELSE rx_in - rx_out + BufLen
      BY <1>1, FillIs
    <3>2. Advance(rx_in, 1) = IF rx_in + 1 < BufLen THEN rx_in + 1 ELSE rx_in + 1 - BufLen
      BY <1>1, AdvanceIs
    <3>3. Advance(rx_in, 1) # rx_out
      BY <1>6 DEF RxFull
    <3> HIDE DEF F
    <3> QED
      BY <1>1, <3>1, <3>2, <3>3 DEF Slots
  <2>3. /\ L > 0 /\ Head(rfifo) = rfifo[1] /\ Len(rfifo') = L - 1
        /\ \A k \in 1 .. L - 1 : rfifo'[k] = rfifo[k + 1]
    BY <1>1, <1>6, <2>1
  <2>4. /\ Fill(rx_out', rx_in') = F + 1
        /\ \A d \in 0 .. F - 1, s \in rx_in .. rx_in + 1 - 1 : Advance(rx_out, d) # s
        /\ \A d \in F .. F + 1 - 1 : Advance(rx_out, d) = rx_in + (d - F)
    BY <1>1, <1>2, <1>4, <2>1, <2>2, Extend
  <2> HIDE DEF F, L
  <2>5. Advance(rx_out, F) = rx_in /\ \A d \in 0 .. F - 1 : Advance(rx_out, d) # rx_in
    <3>1. F \in F .. F + 1 - 1 /\ rx_in \in rx_in .. rx_in + 1 - 1 /\ rx_in + (F - F) = rx_in
      BY <1>2
    <3> QED
      BY <2>4, <3>1
  <2>6. rfifo[1] = rgot + F
    BY <1>1, <1>2, <1>3, <2>3
  <2>7. ASSUME NEW d \in 0 .. Fill(rx_out', rx_in') - 1
        PROVE  rx_buf'[Advance(rx_out', d)] = rgot' + d
    <3>1. d \in Nat /\ d <= F
      BY <1>2, <2>4
    <3>2. CASE d = F
      <4>1. rx_buf'[rx_in] = rgot + F
        BY <1>1, <2>1, <2>3, <2>6
      <4> QED
        BY <1>4, <2>5, <3>2, <4>1
    <3>3. CASE d # F
      <4>1. d \in 0 .. F - 1
        BY <1>2, <3>1, <3>3
      <4>2. Advance(rx_out, d) \in Slots /\ Advance(rx_out, d) # rx_in
        BY <1>1, <2>5, <3>1, <4>1, SlotsNat, AdvanceType
      <4>3. rx_buf'[Advance(rx_out, d)] = rx_buf[Advance(rx_out, d)]
        BY <1>1, <2>1, <4>2
      <4> QED
        BY <1>3, <1>4, <4>1, <4>3
    <3> QED
      BY <3>2, <3>3
  <2>8. RxOrder'
    <3>1. rgot' + Fill(rx_out', rx_in') + Len(rfifo') = hsent'
      BY <1>1, <1>2, <1>3, <1>4, <2>3, <2>4
    <3>2. ASSUME NEW k \in 1 .. Len(rfifo')
          PROVE  rfifo'[k] = rgot' + Fill(rx_out', rx_in') + k - 1
      <4>1. k \in 1 .. L - 1 /\ k + 1 \in 1 .. L
        BY <1>1, <2>3
      <4>2. rfifo'[k] = rfifo[k + 1] /\ rfifo[k + 1] = rgot + F + (k + 1) - 1
        BY <1>3, <2>3, <4>1
      <4> QED
        BY <1>1, <1>2, <1>4, <2>4, <4>1, <4>2
    <3> QED
      BY <2>7, <3>1, <3>2 DEF RxOrder, Holds
  <2>9. RxChunk'
    <3>1. pc \in {"r_copy", "r_release"} => out = rx_out /\ n <= F
      BY DEF RxInv, RxChunk, F
    <3>2. pc' \in {"r_copy", "r_release"} => out' = rx_out' /\ n' <= Fill(rx_out', rx_in')
      BY <1>2, <1>4, <2>4, <3>1
    <3> QED
      BY <1>4, <3>2 DEF RxInv, RxChunk, Run
  <2> QED
    BY <2>8, <2>9 DEF RxInv
<1> QED
  BY <1>5, <1>6

\* The host's next character goes behind the last of the FIFO.
LEMMA HostSendRx == IInv /\ RxInv /\ HostSend => RxInv'
<1> SUFFICES ASSUME IInv, RxInv, HostSend PROVE RxInv'
  OBVIOUS
<1> DEFINE F == Fill(rx_out, rx_in)  L == Len(rfifo)
<1>0. rx_in \in Slots /\ rx_out \in Slots
  BY DEF IInv, TypeOK, DriverType
<1>1. F \in Nat /\ L \in Nat /\ rfifo \in Seq(Nat) /\ rgot \in Nat /\ hsent \in Nat
  <2>1. F \in Slots
    BY <1>0, FillIs
  <2> HIDE DEF F
  <2> QED
    BY <2>1, SlotsNat DEF IInv, TypeOK, DeviceType, CountsType
<1>2. /\ rx_in' = rx_in /\ rx_out' = rx_out /\ rx_buf' = rx_buf /\ rgot' = rgot
      /\ UNCHANGED <<pc, out, n, mem>>
      /\ rfifo' = Append(rfifo, hsent) /\ hsent' = hsent + 1
  BY DEF HostSend
<1>3. Fill(rx_out', rx_in') = F
  BY <1>2
<1>4. /\ rgot + F + L = hsent
      /\ \A d \in 0 .. F - 1 : rx_buf[Advance(rx_out, d)] = rgot + d
      /\ \A k \in 1 .. L : rfifo[k] = rgot + F + k - 1
  BY DEF RxInv, RxOrder, Holds
<1>5. Len(rfifo') = L + 1 /\ \A k \in 1 .. L + 1 : rfifo'[k] = IF k = L + 1 THEN hsent ELSE rfifo[k]
  BY <1>1, <1>2
<1>6. RxChunk'
  BY <1>2 DEF RxInv, RxChunk, Run
<1> HIDE DEF F, L
<1>7. RxOrder'
  <2>1. rgot' + Fill(rx_out', rx_in') + Len(rfifo') = hsent'
    BY <1>1, <1>2, <1>3, <1>4, <1>5
  <2>2. \A d \in 0 .. Fill(rx_out', rx_in') - 1 : rx_buf'[Advance(rx_out', d)] = rgot' + d
    BY <1>2, <1>3, <1>4
  <2>3. ASSUME NEW k \in 1 .. Len(rfifo')
        PROVE  rfifo'[k] = rgot' + Fill(rx_out', rx_in') + k - 1
    <3>1. k \in 1 .. L + 1
      BY <1>5
    <3>2. rfifo'[k] = rgot + F + k - 1
      BY <1>1, <1>4, <1>5, <3>1
    <3> QED
      BY <1>2, <1>3, <3>2
  <2> QED
    BY <2>1, <2>2, <2>3 DEF RxOrder, Holds
<1> QED
  BY <1>6, <1>7 DEF RxInv

\* Nothing else touches the receive path.
LEMMA OtherRx ==
  ASSUME IInv, RxInv,
         WriteStep \/ NewCall \/ CloseSpin \/ Timeout \/ HostTake \/ HostPoll \/ HostPlug
         \/ IrqEnter \/ IrqControl \/ IrqRxEnd \/ IrqTx \/ IrqTxEnd
  PROVE  RxInv'
<1>1. /\ UNCHANGED <<rx_in, rx_out, rx_buf, rfifo, hsent, rgot>>
      /\ pc' \in {"r_copy", "r_release"} => UNCHANGED <<pc, out, n>>
      /\ mem' = <<>> \/ (mem' = mem /\ (pc = "r_release" => pc' = "r_release"))
  <2>1. CASE WriteStep
    BY <2>1 DEF WriteStep, WriteLoad, WriteCopy, WritePublish, WriteKick, WriteSpin, WriteCheck,
      WriteReturn, Return, At
  <2>2. CASE NewCall
    BY <2>2 DEF NewCall, Write, Read, Close, Call, SetTimeout, Return, At
  <2>3. CASE CloseSpin \/ Timeout \/ HostTake \/ HostPoll \/ HostPlug
    BY <2>3 DEF CloseSpin, Return, Timeout, HostTake, HostPoll, HostPlug, At
  <2>4. CASE IrqEnter \/ IrqControl \/ IrqTx \/ IrqRxEnd \/ IrqTxEnd
    BY <2>4 DEF IrqEnter, IrqControl, IrqTx, IrqRxEnd, IrqTxEnd
  <2> QED
    BY <2>1, <2>2, <2>3, <2>4
<1> QED
  BY <1>1, RxFrame

-----------------------------------------------------------------------------
LEMMA StreamsCorrect == Spec => [](IInv /\ TxInv /\ RxInv)
<1>1. IInv /\ TxInv /\ RxInv /\ [Next]_vars => TxInv' /\ RxInv'
  <2> SUFFICES ASSUME IInv, TxInv, RxInv, [Next]_vars PROVE TxInv' /\ RxInv'
    OBVIOUS
  <2>1. CASE UNCHANGED vars
    <3>1. TxInv'
      <4>1. UNCHANGED <<tx_in, tx_out, tx_buf, wfifo, hseq, wseq, space, pc, in, n>>
        BY <2>1 DEF vars
      <4> QED
        BY <4>1, TxFrame DEF TxInv, TxOrder
    <3>2. RxInv'
      <4>1. UNCHANGED <<rx_in, rx_out, rx_buf, rfifo, hsent, rgot, pc, out, n, mem>>
        BY <2>1 DEF vars
      <4> QED
        BY <4>1, RxFrame
    <3> QED
      BY <3>1, <3>2
  <2>2. CASE Next
    <3>1. TxInv'
      BY <2>2, WriteTx, IrqTxStep, HostTakeTx, OtherTx DEF Next, Irq, Host
    <3>2. RxInv'
      BY <2>2, ReadRx, IrqRxStep, HostSendRx, OtherRx DEF Next, Irq, Host
    <3> QED
      BY <3>1, <3>2
  <2> QED
    BY <2>1, <2>2
<1> QED
  BY <1>1, InitStreams, IInvCorrect, PTL DEF Spec

\* A FIFO followed or preceded by a ring, both in order, is a run of numbers.
LEMMA RingIs ==
    ASSUME NEW buf, NEW o \in Slots, NEW i \in Slots, NEW first \in Nat, Holds(buf, o, i, first)
    PROVE  Ring(buf, o, i) = Run(first, first + Fill(o, i))
<1> DEFINE F == Fill(o, i)
<1>1. F \in Nat /\ F <= BufLen
  <2>1. F \in Slots
    BY FillIs
  <2> HIDE DEF F
  <2> QED
    BY <2>1 DEF Slots
<1>2. Ring(buf, o, i) = [d \in 1 .. F |-> buf[(o + d - 1) % BufLen]]
  BY DEF Ring, Fill
<1>3. ASSUME NEW d \in 1 .. F PROVE buf[(o + d - 1) % BufLen] = first + d - 1
  <2>1. d - 1 \in 0 .. F - 1 /\ first + (d - 1) = first + d - 1 /\ o + (d - 1) = o + d - 1
    <3> HIDE DEF F
    <3> QED
      BY <1>1 DEF Slots
  <2>2. buf[Advance(o, d - 1)] = first + (d - 1)
    BY <2>1 DEF Holds
  <2> QED
    BY <2>1, <2>2 DEF Advance
<1> HIDE DEF F
<1>4. (first + F) - first = F
  BY <1>1
<1>5. Ring(buf, o, i) = Run(first, first + F)
  BY <1>2, <1>3, <1>4 DEF Run
<1> QED
  BY <1>5 DEF F

\* The characters from a up to a + k are k characters.
LEMMA RunIs ==
    ASSUME NEW a \in Nat, NEW k \in Nat
    PROVE  /\ Run(a, a + k) \in Seq(Nat) /\ Len(Run(a, a + k)) = k
           /\ \A d \in 1 .. k : Run(a, a + k)[d] = a + d - 1
<1>1. (a + k) - a = k /\ \A d \in 1 .. k : a + d - 1 \in Nat
  OBVIOUS
<1>2. Run(a, a + k) = [d \in 1 .. k |-> a + d - 1]
  BY <1>1 DEF Run
<1> QED
  BY <1>1, <1>2

\* Two runs, the second going on where the first ends, are one.
LEMMA RunJoin ==
    ASSUME NEW a \in Nat, NEW k \in Nat, NEW m \in Nat
    PROVE  Run(a, a + k) \o Run(a + k, a + k + m) = Run(a, a + k + m)
<1> DEFINE s == Run(a, a + k)  t == Run(a + k, a + k + m)  u == Run(a, a + (k + m))
<1>1. /\ s \in Seq(Nat) /\ Len(s) = k /\ \A d \in 1 .. k : s[d] = a + d - 1
      /\ u \in Seq(Nat) /\ Len(u) = k + m /\ \A d \in 1 .. k + m : u[d] = a + d - 1
  <2>1. k + m \in Nat
    OBVIOUS
  <2>2. s \in Seq(Nat) /\ Len(s) = k /\ \A d \in 1 .. k : s[d] = a + d - 1
    BY RunIs
  <2>3. u \in Seq(Nat) /\ Len(u) = k + m /\ \A d \in 1 .. k + m : u[d] = a + d - 1
    BY <2>1, RunIs
  <2> QED
    BY <2>2, <2>3
<1>2. t \in Seq(Nat) /\ Len(t) = m /\ \A d \in 1 .. m : t[d] = a + k + d - 1
  <2>1. a + k \in Nat
    OBVIOUS
  <2> QED
    BY <2>1, RunIs
<1>3. a + (k + m) = a + k + m
  OBVIOUS
<1> HIDE DEF s, t, u
<1>4. /\ s \o t \in Seq(Nat) /\ Len(s \o t) = k + m
      /\ \A d \in 1 .. k + m : (s \o t)[d] = IF d <= k THEN s[d] ELSE t[d - k]
  BY <1>1, <1>2, ConcatProperties
<1>5. ASSUME NEW d \in 1 .. k + m PROVE (s \o t)[d] = u[d]
  <2>1. CASE d <= k
    BY <1>1, <1>4, <2>1
  <2>2. CASE ~(d <= k)
    <3>1. (s \o t)[d] = t[d - k] /\ d - k \in 1 .. m
      BY <1>4, <2>2
    <3>2. t[d - k] = a + k + (d - k) - 1
      BY <1>2, <3>1
    <3> QED
      BY <1>1, <3>1, <3>2
  <2> QED
    BY <2>1, <2>2
<1>6. s \o t = u
  BY <1>1, <1>4, <1>5, SeqEqual
<1> QED
  BY <1>3, <1>6 DEF s, t, u

\* The FIFO as the function it is.
LEMMA FifoIs ==
    ASSUME NEW q \in Seq(Nat), NEW a \in Nat, \A k \in 1 .. Len(q) : q[k] = a + k - 1
    PROVE  q = Run(a, a + Len(q))
<1>1. q = [d \in 1 .. Len(q) |-> q[d]] /\ (a + Len(q)) - a = Len(q)
  OBVIOUS
<1> QED
  BY <1>1 DEF Run

LEMMA TxInFlightIs == IInv /\ TxInv => TxInFlight = Run(hseq, wseq) /\ hseq <= wseq
                                       /\ wseq - hseq < BufLen + FifoDepth
<1> SUFFICES ASSUME IInv, TxInv
             PROVE  TxInFlight = Run(hseq, wseq) /\ hseq <= wseq /\ wseq - hseq < BufLen + FifoDepth
  OBVIOUS
<1> DEFINE F == Fill(tx_out, tx_in)  L == Len(wfifo)
<1>1. /\ tx_in \in Slots /\ tx_out \in Slots /\ hseq \in Nat /\ wseq \in Nat
      /\ wfifo \in Seq(Nat) /\ L \in Nat /\ L <= FifoDepth
  BY DEF IInv, TypeOK, DriverType, DeviceType, CountsType
<1>2. F \in Slots
  BY <1>1, FillIs
<1>3. F \in Nat /\ F < BufLen
  <2> HIDE DEF F
  <2> QED
    BY <1>2 DEF Slots
<1>4. hseq + L + F = wseq /\ hseq + L \in Nat
  BY <1>1 DEF TxInv, TxOrder
<1>5. wfifo = Run(hseq, hseq + L)
  <2>1. \A k \in 1 .. Len(wfifo) : wfifo[k] = hseq + k - 1
    BY DEF TxInv, TxOrder
  <2> QED
    BY <1>1, <2>1, FifoIs
<1>6. Ring(tx_buf, tx_out, tx_in) = Run(hseq + L, hseq + L + F)
  <2>1. Holds(tx_buf, tx_out, tx_in, hseq + L)
    BY DEF TxInv, TxOrder
  <2> HIDE DEF L
  <2> QED
    BY <1>1, <1>4, <2>1, RingIs
<1> HIDE DEF F, L
<1>7. TxInFlight = Run(hseq, hseq + L + F)
  <2>1. Run(hseq, hseq + L) \o Run(hseq + L, hseq + L + F) = Run(hseq, hseq + L + F)
    <3>1. hseq \in Nat /\ L \in Nat /\ F \in Nat
      BY <1>1, <1>3
    <3> QED
      BY <3>1, RunJoin, Zenon
  <2> QED
    BY <1>5, <1>6, <2>1 DEF TxInFlight
<1>8. hseq <= wseq /\ wseq - hseq < BufLen + FifoDepth
  BY <1>1, <1>3, <1>4
<1> QED
  BY <1>4, <1>7, <1>8

LEMMA RxInFlightIs == IInv /\ RxInv => RxInFlight = Run(rgot, hsent)
<1> SUFFICES ASSUME IInv, RxInv PROVE RxInFlight = Run(rgot, hsent)
  OBVIOUS
<1> DEFINE F == Fill(rx_out, rx_in)  L == Len(rfifo)
<1>1. /\ rx_in \in Slots /\ rx_out \in Slots /\ rgot \in Nat /\ hsent \in Nat
      /\ rfifo \in Seq(Nat) /\ L \in Nat
  BY DEF IInv, TypeOK, DriverType, DeviceType, CountsType
<1>2. F \in Slots
  BY <1>1, FillIs
<1>3. F \in Nat
  <2> HIDE DEF F
  <2> QED
    BY <1>2, SlotsNat
<1>4. rgot + F + L = hsent
  BY DEF RxInv, RxOrder
<1>5. Ring(rx_buf, rx_out, rx_in) = Run(rgot, rgot + F)
  <2>1. Holds(rx_buf, rx_out, rx_in, rgot)
    BY DEF RxInv, RxOrder
  <2> QED
    BY <1>1, <2>1, RingIs
<1>6. rfifo = Run(rgot + F, rgot + F + L)
  <2>1. \A k \in 1 .. Len(rfifo) : rfifo[k] = rgot + F + k - 1
    BY DEF RxInv, RxOrder
  <2>2. rgot + F \in Nat
    <3> HIDE DEF F
    <3> QED
      BY <1>1, <1>3
  <2> HIDE DEF F
  <2> QED
    BY <1>1, <2>1, <2>2, FifoIs DEF L
<1> HIDE DEF F, L
<1>7. RxInFlight = Run(rgot, rgot + F + L)
  <2>1. Run(rgot, rgot + F) \o Run(rgot + F, rgot + F + L) = Run(rgot, rgot + F + L)
    <3>1. rgot \in Nat /\ F \in Nat /\ L \in Nat
      BY <1>1, <1>3
    <3>2. PICK a \in Nat, f \in Nat, l \in Nat : a = rgot /\ f = F /\ l = L
      BY <3>1
    <3>3. Run(a, a + f) \o Run(a + f, a + f + l) = Run(a, a + f + l)
      BY RunJoin
    <3> QED
      BY <3>2, <3>3
  <2> QED
    BY <1>5, <1>6, <2>1 DEF RxInFlight
<1> QED
  BY <1>4, <1>7

\* Whatever the host has sent and read() has not handed over is in the receive
\* ring and the read FIFO, once each and in order, for every ring and FIFO size
\* and every interleaving of read() with the handler and the host.
THEOREM ReceivedInOrder == Spec => []RxStream
<1>1. IInv /\ RxInv => RxStream
  BY RxInFlightIs DEF RxStream, RxInv, RxChunk
<1> QED
  BY <1>1, StreamsCorrect, PTL

\* The host takes the oldest of a run.
LEMMA RunTail ==
    ASSUME NEW a \in Nat, NEW b \in Nat, a < b
    PROVE  /\ Len(Run(a, b)) = b - a
           /\ SubSeq(Run(a, b), 2, Len(Run(a, b))) = Run(a + 1, b)
<1> DEFINE k == b - a - 1  q == Run(a, a + (k + 1))  r == Run(a + 1, a + 1 + k)
<1>1. k \in Nat /\ a + (k + 1) = b /\ a + 1 + k = b /\ a + 1 \in Nat /\ k + 1 \in Nat /\ k + 1 = b - a
  OBVIOUS
<1> HIDE DEF k
<1>2. /\ q \in Seq(Nat) /\ Len(q) = k + 1 /\ \A d \in 1 .. k + 1 : q[d] = a + d - 1
  BY <1>1, RunIs
<1>3. r \in Seq(Nat) /\ Len(r) = k /\ \A d \in 1 .. k : r[d] = a + 1 + d - 1
  BY <1>1, RunIs
<1>4. q = Run(a, b) /\ r = Run(a + 1, b)
  BY <1>1
<1> HIDE DEF q, r
<1> DEFINE v == Tail(q)
<1>5. v \in Seq(Nat) /\ Len(v) = k /\ \A d \in 1 .. k : v[d] = q[d + 1]
  BY <1>1, <1>2
<1>6. SubSeq(q, 2, Len(q)) = v
  <2>1. q # <<>>
    BY <1>1, <1>2
  <2> QED
    BY <1>2, <2>1, TailIsSubSeq
<1> HIDE DEF v
<1>7. v = r
  <2>1. ASSUME NEW d \in 1 .. k PROVE v[d] = r[d]
    <3>1. d + 1 \in 1 .. k + 1 /\ a + (d + 1) - 1 = a + 1 + d - 1
      BY <1>1
    <3> QED
      BY <1>2, <1>3, <1>5, <3>1
  <2> QED
    BY <1>3, <1>5, <2>1, SeqEqual
<1> QED
  BY <1>1, <1>2, <1>4, <1>6, <1>7

\* Only write()'s publishing store puts characters in, and only the host's
\* read takes any out.
LEMMA OnlyPublishAndTake ==
    ASSUME [Next]_vars, ~WritePublish, ~HostTake
    PROVE  wseq' = wseq /\ hseq' = hseq
<1>1. CASE WriteStep
  BY <1>1 DEF WriteStep, WriteLoad, WriteCopy, WriteKick, WriteSpin, WriteCheck, WriteReturn
<1>2. CASE ReadStep
  BY <1>2 DEF ReadStep, ReadLoad, ReadCopy, ReadRelease, ReadSpin, ReadCheck, ReadReturn
<1>3. CASE NewCall
  BY <1>3 DEF NewCall, Write, Read, Close, Call, SetTimeout
<1>4. CASE Irq
  BY <1>4 DEF Irq, IrqEnter, IrqControl, IrqRx, IrqRxEnd, IrqTx, IrqTxEnd
<1>5. CASE CloseSpin \/ Timeout \/ Host
  BY <1>5 DEF CloseSpin, Timeout, Host, HostSend, HostPoll, HostPlug
<1>6. CASE UNCHANGED vars
  BY <1>6 DEF vars
<1> QED
  BY <1>1, <1>2, <1>3, <1>4, <1>5, <1>6 DEF Next

\* A step of the driver, its caller, the device or the host is a step of the
\* abstract channel or leaves it alone.
LEMMA StepRefines ==
    ASSUME IInv, TxInv, IInv', TxInv', [Next]_vars
    PROVE  [TxChannel!Next]_<<TxInFlight, wseq>>
<1>1. /\ TxInFlight = Run(hseq, wseq) /\ hseq <= wseq
      /\ TxInFlight' = Run(hseq', wseq') /\ hseq' <= wseq' /\ wseq' - hseq' < BufLen + FifoDepth
  <2>1. TxInFlight = Run(hseq, wseq) /\ hseq <= wseq
    BY TxInFlightIs
  <2>2. (TxInFlight = Run(hseq, wseq) /\ hseq <= wseq /\ wseq - hseq < BufLen + FifoDepth)'
    BY TxInFlightIs, PTL
  <2> QED
    BY <2>1, <2>2 DEF Run
<1>2. hseq \in Nat /\ wseq \in Nat /\ hseq' \in Nat /\ wseq' \in Nat /\ n \in Nat
  BY SlotsNat DEF IInv, TypeOK, CountsType, ThreadType
<1>3. CASE WritePublish
  <2>1. wseq' = wseq + n /\ hseq' = hseq /\ n > 0 /\ n < BufLen
    BY <1>3 DEF WritePublish, At, TxInv, TxChunk, IInv, TypeOK, ThreadType, Slots
  <2> DEFINE k == wseq - hseq
  <2>2. k \in Nat /\ wseq = hseq + k /\ wseq' = hseq + k + n /\ k + n < BufLen + FifoDepth
    BY <1>1, <1>2, <2>1
  <2> HIDE DEF k
  <2>3. Run(hseq, hseq + k) \o Run(hseq + k, hseq + k + n) = Run(hseq, hseq + k + n)
    <3>1. hseq \in Nat /\ k \in Nat /\ n \in Nat
      BY <1>2, <2>2
    <3> QED
      BY <3>1, RunJoin
  <2>4. Len(Run(hseq, hseq + k)) = k
    BY <1>2, <2>2, RunIs
  <2>5. Run(wseq, wseq + n) = [d \in 1 .. n |-> wseq + d - 1]
    <3>1. (wseq + n) - wseq = n
      BY <1>2
    <3> QED
      BY <3>1 DEF Run
  <2>6. TxInFlight' = TxInFlight \o [d \in 1 .. n |-> wseq + d - 1]
    BY <1>1, <2>1, <2>2, <2>3, <2>5
  <2>7. Len(TxInFlight) + n <= BufLen - 1 + FifoDepth
    BY <1>1, <1>2, <2>2, <2>4
  <2>8. TxChannel!Put(n)
    BY <2>1, <2>6, <2>7 DEF TxChannel!Put
  <2>9. n \in 1 .. BufLen - 1 + FifoDepth
    BY <1>2, <2>1
  <2> QED
    BY <2>8, <2>9 DEF TxChannel!Next
<1>4. CASE HostTake
  <2>1. wseq' = wseq /\ hseq' = hseq + 1 /\ hseq < wseq
    BY <1>1, <1>2, <1>4 DEF HostTake
  <2>2. Len(TxInFlight) = wseq - hseq /\ TxInFlight' = SubSeq(TxInFlight, 2, Len(TxInFlight))
    BY <1>1, <1>2, <2>1, RunTail
  <2>3. TxChannel!Take(1)
    BY <2>1, <2>2 DEF TxChannel!Take
  <2>4. 1 <= Len(TxInFlight) /\ 1 \in 1 .. BufLen - 1 + FifoDepth
    BY <1>2, <2>1, <2>2
  <2> QED
    BY <2>3, <2>4 DEF TxChannel!Next
<1>5. CASE ~WritePublish /\ ~HostTake
  <2>1. wseq' = wseq /\ hseq' = hseq
    BY <1>5, OnlyPublishAndTake
  <2> QED
    BY <1>1, <2>1
<1> QED
  BY <1>3, <1>4, <1>5

\* The transmit path is a bounded queue that hands the host every character
\* write() put in, once each and in order, for every ring and FIFO size and
\* every interleaving of write() with the handler, the timeout and the host.
THEOREM TransmitsInOrder == Spec => TxIsChannel
<1>1. Init => TxChannel!Init
  <2> SUFFICES ASSUME Init PROVE TxChannel!Init
    OBVIOUS
  <2>1. TxInFlight = Run(0, 0) /\ wseq = 0
    BY InitIInv, InitStreams, TxInFlightIs DEF Init
  <2>2. Run(0, 0) = <<>>
    BY RunEmpty
  <2> QED
    BY <2>1, <2>2 DEF TxChannel!Init
<1>2. IInv /\ TxInv /\ (IInv /\ TxInv)' /\ [Next]_vars => [TxChannel!Next]_<<TxInFlight, wseq>>
  BY StepRefines
<1>3. Spec => [](IInv /\ TxInv)
  BY StreamsCorrect, PTL
<1> QED
  BY <1>1, <1>2, <1>3, PTL DEF Spec, TxIsChannel, TxChannel!Spec

\* With the timeout disabled a close() that reports success has drained the
\* ring: host_inactive saturates below every value the limit then has.
THEOREM CloseLeavesNothing == Spec => CloseDrains
<1>1. IInv /\ [Next]_vars
        => [pc = "c_spin" /\ pc' = "idle" /\ ret' = 0 /\ timeout >= IntMax - 1
              => tx_in = tx_out]_vars
  <2> SUFFICES ASSUME IInv, [Next]_vars, pc = "c_spin", pc' = "idle", ret' = 0,
                      timeout >= IntMax - 1
               PROVE  tx_in = tx_out
    BY DEF vars
  <2>1. CloseSpin
    <3>1. ~WriteStep
      BY DEF WriteStep, WriteLoad, WriteCopy, WritePublish, WriteKick, WriteSpin, WriteCheck, WriteReturn, At
    <3>2. ~ReadStep
      BY DEF ReadStep, ReadLoad, ReadCopy, ReadRelease, ReadSpin, ReadCheck, ReadReturn, At
    <3>3. ~NewCall
      BY DEF NewCall, Write, Read, Close, Call, SetTimeout, At
    <3>4. ~Irq
      BY DEF Irq, IrqEnter, IrqControl, IrqRx, IrqRxEnd, IrqTx, IrqTxEnd
    <3>5. ~Timeout /\ ~Host
      BY DEF Timeout, Host, HostTake, HostSend, HostPoll, HostPlug
    <3>6. pc' # pc
      OBVIOUS
    <3>7. ~UNCHANGED vars
      BY <3>6 DEF vars
    <3> QED
      BY <3>1, <3>2, <3>3, <3>4, <3>5, <3>7 DEF Next
  <2>2. host_inactive < timeout
    <3>1. host_inactive \in 0 .. IntMax - 2 /\ timeout \in 2 .. IntMax
      BY DEF IInv, TypeOK, DriverType
    <3> QED
      BY <3>1
  <2>3. ~(tx_out # tx_in /\ host_inactive < timeout)
    BY <2>1 DEF CloseSpin, Return, EWOULDBLOCK
  <2> QED
    BY <2>2, <2>3
<1> QED
  BY <1>1, IInvCorrect, PTL DEF Spec, CloseDrains
=============================================================================
