-------------------------- MODULE InterruptsProofs --------------------------
(***************************************************************************)
(* No trap meets a null handler and no search an empty mask, for every set *)
(* of platform interrupts, any lines up and any bits of mie at reset.      *)
(***************************************************************************)
EXTENDS Interrupts, TLAPS

\* The steps during which the main program keeps interrupts off.
Off == {"irqInit", "store", "enable", "restore"}

\* A line enabled one by one has its handler, except before alt_irq_init() and
\* for the line whose handler is just being removed.
Covered ==
  /\ step \in Off => level = "thread" /\ mstatusMie = 0
  /\ step \notin {"irqInit", "enable"} => mie \subseteq handlers
  /\ step = "enable" => mie \ {request.irq} \subseteq handlers
  /\ step = "enable" /\ request.isr = 1 => request.irq \in handlers
  /\ step = "timerEnable" => Timer \in handlers

\* What the trap handler has seen is still there when it looks again: lines
\* drop only when they are served.
Seen ==
  /\ level = "irq" => Pending \ {Timer} # {}
  /\ level = "timer" => Timer \in handlers
  /\ level = "scan" => active # {} /\ active \subseteq handlers

Inv == TypeOK /\ Covered /\ Seen

LEMMA TimerIsNone == Timer \notin Irqs
BY IrqsAssumption DEF Timer

LEMMA InitInv == Init => Inv
BY IrqsAssumption DEF Init, NoRequest, Inv, TypeOK, Lines, Covered, Seen, Off

\* A trap can be taken only where every enabled line has its handler.
LEMMA TrapsCovered ==
  ASSUME Inv, step \notin Off \/ level # "thread" \/ mstatusMie = 1
  PROVE  mie \subseteq handlers
BY DEF Inv, Covered, Off

LEMMA BootStep == Inv /\ Boot => Inv'
<1> SUFFICES ASSUME Inv, Boot PROVE Inv' OBVIOUS
<1> USE DEF Inv, Covered, Seen, From, Off
<1>1. CASE IrqInit
  BY <1>1 DEF IrqInit, Cleared, software, trap, TypeOK
<1>2. CASE UartInit
  BY <1>2, IrqsAssumption DEF UartInit, cpu, software, trap, TypeOK
<1>3. CASE UartAlarm
  BY <1>3 DEF UartAlarm, cpu, trap, TypeOK
<1>4. CASE SysclkInit
  BY <1>4 DEF SysclkInit, cpu, trap, TypeOK
<1>5. CASE TimerHandler
  BY <1>5 DEF TimerHandler, cpu, trap, TypeOK, Lines
<1>6. CASE TimerEnable
  BY <1>6 DEF TimerEnable, software, trap, TypeOK, Lines
<1> QED BY <1>1, <1>2, <1>3, <1>4, <1>5, <1>6 DEF Boot

LEMMA RegisterStep ==
  Inv /\ (Register \/ \E i \in Irqs, isr \in {0, 1} : AppRegister(i, isr)) => Inv'
<1> SUFFICES ASSUME Inv, Register \/ \E i \in Irqs, isr \in {0, 1} : AppRegister(i, isr)
             PROVE  Inv'
  OBVIOUS
<1> USE DEF Inv, Covered, Seen, From, Off
<1>1. CASE RegisterMask
  BY <1>1 DEF RegisterMask, Masked, software, trap, TypeOK
<1>2. CASE RegisterStore
  BY <1>2 DEF RegisterStore, cpu, trap, TypeOK, Lines
<1>3. CASE RegisterEnable
  BY <1>3 DEF RegisterEnable, software, trap, TypeOK, Lines
<1>4. CASE RegisterRestore
  BY <1>4, IrqsAssumption DEF RegisterRestore, Restored, NoRequest, software, trap, TypeOK
<1>5. CASE \E i \in Irqs, isr \in {0, 1} : AppRegister(i, isr)
  <2>1. PICK i \in Irqs, isr \in {0, 1} : AppRegister(i, isr) BY <1>5
  <2> QED BY <2>1 DEF AppRegister, cpu, software, trap, TypeOK
<1> QED BY <1>1, <1>2, <1>3, <1>4, <1>5 DEF Register

LEMMA TrapStep == Inv /\ (TimerTrap \/ IrqTrap) => Inv'
<1> SUFFICES ASSUME Inv, TimerTrap \/ IrqTrap PROVE Inv' OBVIOUS
<1>1. level = "thread" /\ mstatusMie = 1
  BY DEF TimerTrap, IrqTrap, Enter
<1>2. mie \subseteq handlers
  BY <1>1, TrapsCovered
<1>3. CASE TimerTrap
  BY <1>1, <1>2, <1>3
  DEF TimerTrap, Enter, Pending, main, software, Inv, TypeOK, Covered, Seen, Off
<1>4. CASE IrqTrap
  BY <1>1, <1>2, <1>4
  DEF IrqTrap, Enter, Pending, main, software, Inv, TypeOK, Covered, Seen, Off
<1> QED BY <1>3, <1>4

LEMMA ServeStep == Inv /\ Serve => Inv'
<1> SUFFICES ASSUME Inv, Serve PROVE Inv' OBVIOUS
<1>1. level # "thread" /\ mie \subseteq handlers
  <2>1. level # "thread"
    BY DEF Serve, TimerCall, IrqEnter, IrqCall, IrqAgain, IrqLeave
  <2> QED BY <2>1, TrapsCovered
<1>2. IrqPending \subseteq handlers /\ IrqPending \subseteq Irqs
  BY <1>1 DEF IrqPending, Pending
<1>3. level = "irq" => IrqPending # {}
  BY DEF Inv, TypeOK, Seen, Pending, IrqPending, Lines
<1>4. CASE TimerCall
  BY <1>1, <1>4 DEF TimerCall, Leave, main, software, Inv, TypeOK, Covered, Seen, Off
<1>5. CASE IrqEnter
  BY <1>1, <1>2, <1>3, <1>5
  DEF IrqEnter, main, cpu, software, Inv, TypeOK, Covered, Seen, Off
<1>6. CASE \E i \in Irqs : IrqCall(i)
  BY <1>1, <1>6 DEF IrqCall, main, cpu, software, Inv, TypeOK, Covered, Seen, Off
<1>7. CASE IrqAgain
  BY <1>1, <1>2, <1>7
  DEF IrqAgain, Finished, main, cpu, software, Inv, TypeOK, Covered, Seen, Off
<1>8. CASE IrqLeave
  BY <1>1, <1>8 DEF IrqLeave, Leave, main, software, Inv, TypeOK, Covered, Seen, Off
<1> QED BY <1>4, <1>5, <1>6, <1>7, <1>8 DEF Serve

LEMMA AssertStep == Inv /\ (\E l \in Lines : Assert(l)) => Inv'
BY DEF Assert, main, cpu, software, trap, Inv, TypeOK, Covered, Seen, Off, Pending

LEMMA StutterStep == Inv /\ UNCHANGED vars => Inv'
BY DEF vars, main, cpu, software, trap, Inv, TypeOK, Covered, Seen, Off, Pending

\* The invariant holds from reset on, through start-up and every trap.
THEOREM Invariance == Spec => []Inv
<1>1. Inv /\ [Next]_vars => Inv'
  BY BootStep, RegisterStep, TrapStep, ServeStep, AssertStep, StutterStep DEF Next
<1> QED BY InitInv, <1>1, PTL DEF Spec

\* Every variable keeps its type.
THEOREM TypeCorrect == Spec => []TypeOK
<1>1. Inv => TypeOK BY DEF Inv
<1> QED BY <1>1, Invariance, PTL

\* alt_irq_handler() and handle_trap() never call through a null pointer, from
\* the moment alt_irq_init() turns interrupts on.
THEOREM HandlersInPlace == Spec => []NoNullHandler
<1>1. Inv => NoNullHandler BY DEF Inv, Seen, NoNullHandler
<1> QED BY <1>1, Invariance, PTL

\* The search for an active bit in alt_irq_handler() finds one.
THEOREM SearchFinds == Spec => []SearchEnds
<1>1. Inv => SearchEnds BY DEF Inv, Seen, SearchEnds
<1> QED BY <1>1, Invariance, PTL
=============================================================================
