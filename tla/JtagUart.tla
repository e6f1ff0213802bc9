------------------------------ MODULE JtagUart ------------------------------
(***************************************************************************)
(* The interrupt-driven ("fast") Altera Avalon JTAG UART driver of the HAL *)
(* board support packages, with the device and the host it talks to.       *)
(*                                                                         *)
(* One application thread calls read(), write(), close() and ioctl().  The *)
(* interrupt handler and the once-a-second timeout callback run between    *)
(* any two steps of the thread and never between two of their own; the     *)
(* device and the host run between any two steps of anything.  A step is   *)
(* one access to a word the other side can change.                         *)
(*                                                                         *)
(* A character is its position in its stream: the application writes       *)
(* 0, 1, 2, ... and the host sends 0, 1, 2, ...                            *)
(***************************************************************************)
EXTENDS Integers, Sequences

CONSTANTS
    BufLen,          \* ALTERA_AVALON_JTAG_UART_BUF_LEN
    FifoDepth,       \* characters each hardware FIFO holds
    WriteThreshold,  \* write FIFO level at or below which WI is raised
    IntMax,          \* INT_MAX
    DefaultTimeout,  \* ALTERA_AVALON_JTAG_UART_DEFAULT_TIMEOUT
    HasSysClk,       \* was the system clock running at driver initialisation?
    MaxTx, MaxRx,    \* bounds: characters the application writes, the host sends
    MaxCall          \* bound: largest space or count of one call

ASSUME SizesAssumption ==
    /\ BufLen \in Nat /\ BufLen >= 2
    /\ FifoDepth \in Nat \ {0}
    /\ WriteThreshold \in 0 .. FifoDepth - 1
    /\ IntMax \in Nat /\ IntMax >= 4
    /\ DefaultTimeout \in 2 .. IntMax - 2
    /\ HasSysClk \in BOOLEAN
    /\ MaxTx \in Nat /\ MaxRx \in Nat /\ MaxCall \in Nat \ {0}

VARIABLES
    rx_in, rx_out, rx_buf,   \* receive ring, filled by the interrupt handler
    tx_in, tx_out, tx_buf,   \* transmit ring, filled by write()
    irq_enable,              \* subset of {"RE", "WE"}; the CONTROL register holds the same bits
    host_inactive, timeout,  \* seconds without host activity, and the limit
    rfifo, wfifo, ac,        \* the device: two FIFOs and the sticky AC (activity) bit
    host,                    \* "attached" or "absent"
    pc,                      \* the thread's place in the call it is making
    flags, left, moved,      \* the descriptor's flags, characters still wanted, ptr - start
    in, out, n, mem,         \* locals of read() and write(); mem is what memcpy read
    ret,                     \* value the last call returned
    isr, control, space, ravail, \* the interrupt handler's place and locals
    wseq, hseq, hsent, rgot  \* characters: written, taken by host, sent by host, read

driver == <<rx_in, rx_out, rx_buf, tx_in, tx_out, tx_buf, irq_enable, host_inactive, timeout>>
device == <<rfifo, wfifo, ac, host>>
locals == <<flags, left, moved, in, out, n, mem>>
thread == <<pc, locals, ret>>
handler == <<isr, control, space, ravail>>
counts == <<wseq, hseq, hsent, rgot>>
vars == <<driver, device, thread, handler, counts>>

NonBlocking == "O_NONBLOCK" \in flags

EIO == -5
EWOULDBLOCK == -11
ENOTTY == -25

Slots == 0 .. BufLen - 1
\* Operators named X_Wrong... are plausible slips in X that a property must catch.
TurnOn_WrongAssign(bit) == {bit}
TurnOn_WrongNothing(bit) == irq_enable

Advance(i, k) == (i + k) % BufLen
TurnOn(bit) == irq_enable \cup {bit}
TurnOff(bit) == irq_enable \ {bit}
SmallerOf(a, b) == IF a < b THEN a ELSE b

\* The characters a ring holds, oldest first.
Ring(buf, o, i) ==
    [d \in 1 .. (i - o + BufLen) % BufLen |-> buf[(o + d - 1) % BufLen]]

Init ==
    /\ rx_in = 0 /\ rx_out = 0 /\ rx_buf = [s \in Slots |-> 0]
    /\ tx_in = 0 /\ tx_out = 0 /\ tx_buf = [s \in Slots |-> 0]
    /\ irq_enable = {"RE"}
    /\ host_inactive = 0
    /\ timeout = IF HasSysClk THEN DefaultTimeout ELSE IntMax
    /\ rfifo = <<>> /\ wfifo = <<>> /\ ac = 0
    /\ host \in {"attached", "absent"}
    /\ pc = "idle" /\ flags = {} /\ left = 0 /\ moved = 0
    /\ in = 0 /\ out = 0 /\ n = 0 /\ mem = <<>> /\ ret = 0
    /\ isr = "off" /\ control = {} /\ space = 0 /\ ravail = 0
    /\ wseq = 0 /\ hseq = 0 /\ hsent = 0 /\ rgot = 0

-----------------------------------------------------------------------------
(* The application thread runs when the interrupt handler does not.        *)

At(place) == isr = "off" /\ pc = place

\* A call begins: what the caller passes in.
Call(place, size, f) ==
    /\ At("idle")
    /\ pc' = place /\ left' = size /\ flags' = f /\ moved' = 0 /\ ret' = 0
    /\ UNCHANGED <<driver, device, handler, counts, in, out, n, mem>>

\* A call returns v; its locals die.
Return(v) ==
    /\ pc' = "idle" /\ ret' = v
    /\ flags' = {} /\ left' = 0 /\ moved' = 0
    /\ in' = 0 /\ out' = 0 /\ n' = 0 /\ mem' = <<>>

-----------------------------------------------------------------------------
(* altera_avalon_jtag_uart_write                                           *)

Write(count, f) ==
    /\ wseq + count <= MaxTx
    /\ Call("w_load", count, f)

SpinOver_WrongForever(indexMoved) == indexMoved
\* A spin ends when the other side has moved its index or the host is gone.
SpinOver(indexMoved) == indexMoved \/ host_inactive >= timeout

\* No slot kept empty to tell a full ring from an empty one.
Contiguous_WrongFillsUp(i, o) == IF i < o THEN o - 1 - i ELSE BufLen - i

\* The stable value of tx_out, and the run of slots free up to it or the end.
Contiguous(i, o) ==
    IF i < o THEN o - 1 - i
    ELSE IF o > 0 THEN BufLen - i
    ELSE BufLen - 1 - i

WriteLoad ==
    /\ At("w_load")
    /\ \/ left = 0 /\ pc' = "w_kick" /\ UNCHANGED <<in, out, n>>
       \/ /\ left > 0
          /\ in' = tx_in /\ out' = tx_out
          /\ LET run == Contiguous(tx_in, tx_out)
             IN  /\ n' = SmallerOf(run, left)
                 /\ pc' = IF run = 0 THEN "w_kick" ELSE "w_copy"
    /\ UNCHANGED <<driver, device, handler, counts, flags, left, moved, mem, ret>>

WriteCopy ==
    /\ At("w_copy")
    /\ tx_buf' = [s \in Slots |-> IF s \in in .. in + n - 1 THEN wseq + (s - in) ELSE tx_buf[s]]
    /\ pc' = "w_publish"
    /\ UNCHANGED <<rx_in, rx_out, rx_buf, tx_in, tx_out, irq_enable, host_inactive, timeout,
                   device, handler, counts, locals, ret>>

WritePublish ==
    /\ At("w_publish")
    /\ tx_in' = Advance(in, n)
    /\ wseq' = wseq + n /\ moved' = moved + n /\ left' = left - n
    /\ pc' = "w_load"
    /\ UNCHANGED <<rx_in, rx_out, rx_buf, tx_out, tx_buf, irq_enable, host_inactive, timeout,
                   device, handler, hseq, hsent, rgot, flags, in, out, n, mem, ret>>

\* Interrupts are off around the update, so the handler sees all of it or none.
WriteKick ==
    /\ At("w_kick")
    /\ irq_enable' = TurnOn("WE")
    /\ pc' = IF left > 0 /\ ~NonBlocking THEN "w_spin" ELSE "w_return"
    /\ UNCHANGED <<rx_in, rx_out, rx_buf, tx_in, tx_out, tx_buf, host_inactive, timeout,
                   device, handler, counts, locals, ret>>

WriteSpin ==
    /\ At("w_spin")
    /\ SpinOver(out # tx_out)
    /\ pc' = "w_check"
    /\ UNCHANGED <<driver, device, handler, counts, locals, ret>>

WriteCheck ==
    /\ At("w_check")
    /\ pc' = IF host_inactive # 0 THEN "w_return" ELSE "w_load"
    /\ UNCHANGED <<driver, device, handler, counts, locals, ret>>

Result == IF moved > 0 THEN moved ELSE IF NonBlocking THEN EWOULDBLOCK ELSE EIO

WriteReturn ==
    /\ At("w_return")
    /\ Return(Result)
    /\ UNCHANGED <<driver, device, handler, counts>>

-----------------------------------------------------------------------------
(* altera_avalon_jtag_uart_read                                            *)

Read(size, f) == MaxRx > 0 /\ Call("r_load", size, f)


\* The run of filled slots from o up to i or the end.
Readable(i, o) == IF i >= o THEN i - o ELSE BufLen - o

ReadLoad ==
    /\ At("r_load")
    /\ \/ left = 0 /\ pc' = "r_return" /\ UNCHANGED <<in, out, n>>
       \/ /\ left > 0
          /\ in' = rx_in /\ out' = rx_out
          /\ LET run == Readable(rx_in, rx_out)
             IN  /\ n' = SmallerOf(run, left)
                 /\ pc' = IF run > 0 THEN "r_copy"
                          ELSE IF moved > 0 \/ NonBlocking THEN "r_return"
                          ELSE "r_spin"
    /\ UNCHANGED <<driver, device, handler, counts, flags, left, moved, mem, ret>>

ReadCopy ==
    /\ At("r_copy")
    /\ mem' = [d \in 1 .. n |-> rx_buf[out + d - 1]]
    /\ pc' = "r_release"
    /\ UNCHANGED <<driver, device, handler, counts, flags, left, moved, in, out, n, ret>>

ReadRelease ==
    /\ At("r_release")
    /\ rx_out' = Advance(out, n)
    /\ rgot' = rgot + n /\ moved' = moved + n /\ left' = left - n /\ mem' = <<>>
    /\ pc' = "r_load"
    /\ UNCHANGED <<rx_in, rx_buf, tx_in, tx_out, tx_buf, irq_enable, host_inactive, timeout,
                   device, handler, wseq, hseq, hsent, flags, in, out, n, ret>>

ReadSpin ==
    /\ At("r_spin")
    /\ SpinOver(in # rx_in)
    /\ pc' = "r_check"
    /\ UNCHANGED <<driver, device, handler, counts, locals, ret>>

ReadCheck ==
    /\ At("r_check")
    /\ pc' = IF in = rx_in THEN "r_return" ELSE "r_load"
    /\ UNCHANGED <<driver, device, handler, counts, locals, ret>>

ReadSomething_WrongNever == FALSE
ReadSomething == moved > 0

\* Receive interrupts go back on, with interrupts off, if anything was read.
ReadReturn ==
    /\ At("r_return")
    /\ irq_enable' = IF ReadSomething THEN TurnOn("RE") ELSE irq_enable
    /\ Return(Result)
    /\ UNCHANGED <<rx_in, rx_out, rx_buf, tx_in, tx_out, tx_buf, host_inactive, timeout,
                   device, handler, counts>>

-----------------------------------------------------------------------------
(* altera_avalon_jtag_uart_close and altera_avalon_jtag_uart_ioctl         *)

Close(f) == Call("c_spin", 0, f)

CloseSpin ==
    /\ At("c_spin")
    /\ LET waiting == tx_out # tx_in /\ host_inactive < timeout
       IN  \/ ~waiting /\ Return(0)
           \/ waiting /\ NonBlocking /\ Return(EWOULDBLOCK)
    /\ UNCHANGED <<driver, device, handler, counts>>

SetTimeout(t) ==
    /\ At("idle")
    /\ \/ /\ timeout # IntMax
          /\ timeout' = IF t >= 2 /\ t < IntMax THEN t ELSE IntMax - 1
          /\ Return(0)
       \/ /\ timeout = IntMax
          /\ Return(ENOTTY)
          /\ UNCHANGED timeout
    /\ UNCHANGED <<rx_in, rx_out, rx_buf, tx_in, tx_out, tx_buf, irq_enable, host_inactive,
                   device, handler, counts>>

-----------------------------------------------------------------------------
(* altera_avalon_jtag_uart_irq.  WI is seen with the space there was when  *)
(* CONTROL was read; the host may drain more before it is used.            *)

RI == "RE" \in irq_enable /\ rfifo # <<>>
WI == "WE" \in irq_enable /\ Len(wfifo) <= WriteThreshold

IrqEnter ==
    /\ isr = "off" /\ (RI \/ WI)
    /\ isr' = "control"
    /\ UNCHANGED <<driver, device, thread, counts, control, space, ravail>>

IrqControl ==
    /\ isr = "control"
    /\ control' = (IF RI THEN {"RI"} ELSE {}) \cup (IF WI THEN {"WI"} ELSE {})
    /\ space' = IF WI THEN FifoDepth - Len(wfifo) ELSE 0
    /\ ravail' = IF RI THEN 1 ELSE 0
    /\ isr' = IF RI THEN "rx" ELSE IF WI THEN "tx" ELSE "off"
    /\ UNCHANGED <<driver, device, thread, counts>>

RxFull_WrongNever == FALSE
RxFull == Advance(rx_in, 1) = rx_out

\* One character, or the end of the inner loop.
IrqRx ==
    /\ isr = "rx"
    /\ \/ /\ RxFull
          /\ isr' = "rx_end"
          /\ UNCHANGED <<rx_in, rx_buf, rfifo, ravail>>
       \/ /\ ~RxFull /\ rfifo = <<>>
          /\ isr' = "rx_end" /\ ravail' = 0
          /\ UNCHANGED <<rx_in, rx_buf, rfifo>>
       \/ /\ ~RxFull /\ rfifo # <<>>
          /\ rx_buf' = [rx_buf EXCEPT ![rx_in] = Head(rfifo)]
          /\ rx_in' = Advance(rx_in, 1)
          /\ rfifo' = Tail(rfifo) /\ ravail' = Len(rfifo) - 1
          /\ UNCHANGED isr
    /\ UNCHANGED <<rx_out, tx_in, tx_out, tx_buf, irq_enable, host_inactive, timeout,
                   wfifo, ac, host, thread, control, space, counts>>

IrqRxEnd ==
    /\ isr = "rx_end"
    /\ irq_enable' = IF ravail > 0 THEN TurnOff("RE") ELSE irq_enable
    /\ isr' = IF "WI" \in control THEN "tx" ELSE "control"
    /\ UNCHANGED <<rx_in, rx_out, rx_buf, tx_in, tx_out, tx_buf, host_inactive, timeout,
                   device, thread, control, space, ravail, counts>>

\* One character into the write FIFO; the device drops it when the FIFO is full.
IrqTx ==
    /\ isr = "tx"
    /\ \/ /\ space > 0 /\ tx_out # tx_in
          /\ wfifo' = IF Len(wfifo) < FifoDepth THEN Append(wfifo, tx_buf[tx_out]) ELSE wfifo
          /\ tx_out' = Advance(tx_out, 1)
          /\ space' = space - 1
          /\ UNCHANGED isr
       \/ /\ space = 0 \/ tx_out = tx_in
          /\ isr' = "tx_end"
          /\ UNCHANGED <<wfifo, tx_out, space>>
    /\ UNCHANGED <<rx_in, rx_out, rx_buf, tx_in, tx_buf, irq_enable, host_inactive, timeout,
                   rfifo, ac, host, thread, control, ravail, counts>>

NothingLeft_WrongNever == FALSE
\* The ring ran out before the space seen in CONTROL did.
NothingLeft == space > 0

IrqTxEnd ==
    /\ isr = "tx_end"
    /\ irq_enable' = IF NothingLeft THEN TurnOff("WE") ELSE irq_enable
    /\ isr' = "control"
    /\ UNCHANGED <<rx_in, rx_out, rx_buf, tx_in, tx_out, tx_buf, host_inactive, timeout,
                   device, thread, control, space, ravail, counts>>

-----------------------------------------------------------------------------
(* altera_avalon_jtag_uart_timeout, the alarm callback: it exists only if  *)
(* alt_alarm_start succeeded, and runs at interrupt level.                 *)

SilentSeconds_WrongLimit == IF host_inactive < IntMax THEN host_inactive + 1 ELSE host_inactive

\* The count of silent seconds saturates.
SilentSeconds == IF host_inactive < IntMax - 2 THEN host_inactive + 1 ELSE host_inactive

Timeout ==
    /\ HasSysClk /\ isr = "off"
    /\ ac' = 0
    /\ host_inactive' = IF ac = 1 THEN 0 ELSE SilentSeconds
    /\ UNCHANGED <<rx_in, rx_out, rx_buf, tx_in, tx_out, tx_buf, irq_enable, timeout,
                   rfifo, wfifo, host, thread, handler, counts>>

-----------------------------------------------------------------------------
(* The device's host side.                                                 *)

HostTake ==
    /\ host = "attached" /\ wfifo # <<>>
    /\ wfifo' = Tail(wfifo) /\ hseq' = hseq + 1 /\ ac' = 1
    /\ UNCHANGED <<driver, rfifo, host, thread, handler, wseq, hsent, rgot>>

HostSend ==
    /\ host = "attached" /\ hsent < MaxRx /\ Len(rfifo) < FifoDepth
    /\ rfifo' = Append(rfifo, hsent) /\ hsent' = hsent + 1 /\ ac' = 1
    /\ UNCHANGED <<driver, wfifo, host, thread, handler, wseq, hseq, rgot>>

HostPoll ==
    /\ host = "attached" /\ ac = 0 /\ ac' = 1
    /\ UNCHANGED <<driver, rfifo, wfifo, host, thread, handler, counts>>

HostPlug ==
    /\ host' = IF host = "attached" THEN "absent" ELSE "attached"
    /\ UNCHANGED <<driver, rfifo, wfifo, ac, thread, handler, counts>>

-----------------------------------------------------------------------------
WriteStep == WriteLoad \/ WriteCopy \/ WritePublish \/ WriteKick
             \/ WriteSpin \/ WriteCheck \/ WriteReturn
ReadStep == ReadLoad \/ ReadCopy \/ ReadRelease \/ ReadSpin \/ ReadCheck \/ ReadReturn
Irq == IrqEnter \/ IrqControl \/ IrqRx \/ IrqRxEnd \/ IrqTx \/ IrqTxEnd

NewCall ==
    \/ \E k \in 0 .. MaxCall, f \in SUBSET {"O_NONBLOCK"} : Write(k, f) \/ Read(k, f)
    \/ \E f \in SUBSET {"O_NONBLOCK"} : Close(f)
    \/ \E t \in {1, 2, IntMax} : SetTimeout(t)

Host == HostTake \/ HostSend \/ HostPoll \/ HostPlug

Next == NewCall \/ WriteStep \/ ReadStep \/ CloseSpin \/ Irq \/ Timeout \/ Host

(* The processor takes pending interrupts and runs the thread otherwise,   *)
(* the alarm keeps firing, and a host that keeps being attached reads.     *)
Fairness ==
    /\ WF_vars(Irq)
    /\ WF_vars(WriteStep \/ ReadStep \/ CloseSpin)
    /\ WF_vars(Timeout)
    /\ SF_vars(HostTake)

Spec == Init /\ [][Next]_vars
FairSpec == Spec /\ Fairness

-----------------------------------------------------------------------------
DriverType ==
    /\ rx_in \in Slots /\ rx_out \in Slots /\ rx_buf \in [Slots -> Nat]
    /\ tx_in \in Slots /\ tx_out \in Slots /\ tx_buf \in [Slots -> Nat]
    /\ irq_enable \in SUBSET {"RE", "WE"}
    /\ host_inactive \in 0 .. IntMax - 2
    /\ timeout \in 2 .. IntMax

DeviceType ==
    /\ rfifo \in Seq(Nat) /\ Len(rfifo) <= FifoDepth
    /\ wfifo \in Seq(Nat) /\ Len(wfifo) <= FifoDepth
    /\ ac \in {0, 1} /\ host \in {"attached", "absent"}

ThreadType ==
    /\ pc \in {"idle", "w_load", "w_copy", "w_publish", "w_kick", "w_spin", "w_check", "w_return",
               "r_load", "r_copy", "r_release", "r_spin", "r_check", "r_return", "c_spin"}
    /\ flags \in SUBSET {"O_NONBLOCK"} /\ left \in Nat /\ moved \in Nat
    /\ in \in Slots /\ out \in Slots /\ n \in Slots /\ mem \in Seq(Nat)
    /\ ret \in Int

HandlerType ==
    /\ isr \in {"off", "control", "rx", "rx_end", "tx", "tx_end"}
    /\ control \in SUBSET {"RI", "WI"}
    /\ space \in 0 .. FifoDepth /\ ravail \in 0 .. FifoDepth

CountsType == wseq \in Nat /\ hseq \in Nat /\ hsent \in Nat /\ rgot \in Nat

\* Every variable of the driver, its callers, the device and the host has its
\* type; indices stay in the ring, FIFOs within their depth, host_inactive two
\* short of INT_MAX.
TypeOK == DriverType /\ DeviceType /\ ThreadType /\ HandlerType /\ CountsType

-----------------------------------------------------------------------------
(* The characters from number a up to, not including, number b.            *)
Run(a, b) == [d \in 1 .. b - a |-> a + d - 1]

TxInFlight == wfifo \o Ring(tx_buf, tx_out, tx_in)
RxInFlight == Ring(rx_buf, rx_out, rx_in) \o rfifo

\* Whatever the host has sent and read() has not handed over is in the receive
\* ring and the read FIFO in order, and the bytes read() copied before it moved
\* rx_out are the next ones although the handler ran in between.
RxStream ==
    /\ RxInFlight = Run(rgot, hsent)
    /\ mem = Run(rgot, rgot + Len(mem))

\* The write FIFO and the transmit ring are one bounded in-order queue: write()
\* puts runs of characters in and the host takes them one by one.
TxChannel == INSTANCE ByteChannel
    WITH queue <- TxInFlight, next <- wseq, Capacity <- BufLen - 1 + FifoDepth

\* The transmit path implements the abstract channel: the copy in write(), its
\* tx_in store and the interrupt handler lose, repeat and reorder nothing.
TxIsChannel == TxChannel!Spec

\* No lost kick: with characters in the transmit ring and the transmit
\* interrupt off, write() is still on its way to turning it on.
TxKick ==
    tx_in # tx_out /\ "WE" \notin irq_enable
        => pc \in {"w_load", "w_copy", "w_publish", "w_kick"}

\* No lost re-arm: the receive interrupt is off only while the ring is full or
\* a read() that has taken something has yet to turn it back on.
RxArmed ==
    "RE" \notin irq_enable
        => RxFull \/ (moved > 0 /\ pc \in {"r_load", "r_copy", "r_release", "r_return"})

\* A close() that reports success with the timeout disabled (TIOCSTIMEOUT out
\* of range, or no system clock) has left nothing in the transmit ring, however
\* long the host has been silent.
CloseDrains ==
    [][pc = "c_spin" /\ pc' = "idle" /\ ret' = 0 /\ timeout >= IntMax - 1
         => tx_in = tx_out]_vars

\* The interrupt handler's loops end, whatever the device and the host do.
IrqReturns == isr # "off" ~> isr = "off"

\* Every character write() accepts reaches a host that keeps being attached.
TxDelivered ==
    []<>(host = "attached") => \A k \in 1 .. MaxTx : wseq >= k ~> hseq >= k

\* A blocking write() or close() returns, unless the host is gone and the
\* timeout is disabled.
CallsReturn ==
    pc \in {"w_load", "c_spin"} ~> pc = "idle" \/ (host = "absent" /\ timeout >= IntMax - 1)

\* A read() waiting for input wakes once the host has sent something: the
\* receive interrupt is never left off with a reader waiting.
ReaderWakes == pc = "r_spin" /\ rgot < hsent ~> pc # "r_spin"
=============================================================================
