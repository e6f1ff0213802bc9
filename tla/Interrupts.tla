----------------------------- MODULE Interrupts -----------------------------
(***************************************************************************)
(* From reset to main(), and the dispatch of interrupts meanwhile and      *)
(* after: alt_main() brings up the interrupt controller, the JTAG UART and *)
(* the system clock in this order with interrupts already enabled, the     *)
(* application registers and removes handlers, and handle_trap() and       *)
(* alt_irq_handler() serve what is pending.                                *)
(*                                                                         *)
(* Lines are levels: once asserted a line stays up until its handler has   *)
(* served the device.  Platform interrupts have numbers, the lowest being  *)
(* the most urgent; the machine timer has a cause of its own.              *)
(***************************************************************************)
EXTENDS Integers, FiniteSets

CONSTANTS
  Irqs,      \* platform interrupt numbers in use
  Uart       \* DEBUG_IRQ

ASSUME IrqsAssumption == Irqs \subseteq Nat /\ IsFiniteSet(Irqs) /\ Uart \in Irqs

Timer == -1
Lines == Irqs \cup {Timer}

VARIABLES
  step,       \* main program: where start-up, or the application, is
  request,    \* the arguments of the alt_iic_isr_register() call under way
  saved,      \* the mstatus value that call will restore
  mstatusMie, \* global interrupt enable
  mie,        \* lines enabled one by one
  handlers,   \* lines whose handler pointer is not null
  tickRate,   \* _alt_tick_rate, 0 until alt_sysclk_init()
  hostAlarm,  \* what became of the UART driver's alarm
  asserted,   \* lines that are up
  level,      \* "thread", or how far the trap handler has come
  active      \* the local variable active of alt_irq_handler()

main == <<step, request, saved>>
cpu == <<mstatusMie, mie>>
software == <<handlers, tickRate, hostAlarm>>
trap == <<level, active>>
vars == <<main, cpu, software, asserted, trap>>

NoRequest == [irq |-> Uart, isr |-> 0]

\* After a reset of the processor alone the devices and mie are as they were.
Init ==
  /\ step = "irqInit"
  /\ request = NoRequest
  /\ saved = 0
  /\ mstatusMie = 0
  /\ mie \in SUBSET Lines
  /\ handlers = {}
  /\ tickRate = 0
  /\ hostAlarm = "unset"
  /\ asserted \in SUBSET Lines
  /\ level = "thread"
  /\ active = {}

(***************************************************************************)
(* Start-up.  The main program moves only outside the trap handler.        *)
(***************************************************************************)
From(here, there) == level = "thread" /\ step = here /\ step' = there

Cleared == {}

\* alt_irq_init(): every line disabled, then interrupts enabled.
IrqInit ==
  /\ From("irqInit", "uartInit")
  /\ mie' = Cleared
  /\ mstatusMie' = 1
  /\ UNCHANGED <<request, saved, software, asserted, trap>>

\* altera_avalon_jtag_uart_init() first lets the device interrupt, which it
\* may do from then on, then registers the handler, then starts the alarm.
UartInit ==
  /\ From("uartInit", "register")
  /\ request' = [irq |-> Uart, isr |-> 1]
  /\ UNCHANGED <<saved, cpu, software, asserted, trap>>

AlarmStarts == tickRate > 0

UartAlarm ==
  /\ From("uartAlarm", "sysclkInit")
  /\ hostAlarm' = IF AlarmStarts THEN "running" ELSE "refused"
  /\ UNCHANGED <<request, saved, cpu, handlers, tickRate, asserted, trap>>

\* INTEL_NIOSV_G_INIT
SysclkInit ==
  /\ From("sysclkInit", "timerHandler")
  /\ tickRate' = IF tickRate = 0 THEN 1 ELSE tickRate
  /\ UNCHANGED <<request, saved, cpu, handlers, hostAlarm, asserted, trap>>

TimerHandler ==
  /\ From("timerHandler", "timerEnable")
  /\ handlers' = handlers \cup {Timer}
  /\ UNCHANGED <<request, saved, cpu, tickRate, hostAlarm, asserted, trap>>

\* Setting mtimecmp ahead drops the line; MTimer shows the words of it.
TimerEnable ==
  /\ From("timerEnable", "app")
  /\ asserted' = asserted \ {Timer}
  /\ mie' = mie \cup {Timer}
  /\ UNCHANGED <<request, saved, mstatusMie, software, trap>>

(***************************************************************************)
(* alt_iic_isr_register(), called at start-up and by the application, which*)
(* may also remove a handler of its own.                                   *)
(***************************************************************************)
AppRegister(i, isr) ==
  /\ From("app", "register")
  /\ request' = [irq |-> i, isr |-> isr]
  /\ UNCHANGED <<saved, cpu, software, asserted, trap>>

\* Mutant: interrupts stay enabled while the table changes.
Masked_WrongKept == mstatusMie

Masked == 0

RegisterMask ==
  /\ From("register", "store")
  /\ saved' = mstatusMie
  /\ mstatusMie' = Masked
  /\ UNCHANGED <<request, mie, software, asserted, trap>>

RegisterStore ==
  /\ From("store", "enable")
  /\ handlers' = IF request.isr = 1 THEN handlers \cup {request.irq}
                                    ELSE handlers \ {request.irq}
  /\ UNCHANGED <<request, saved, cpu, tickRate, hostAlarm, asserted, trap>>

RegisterEnable ==
  /\ From("enable", "restore")
  /\ mie' = IF request.isr = 1 THEN mie \cup {request.irq}
                               ELSE mie \ {request.irq}
  /\ UNCHANGED <<request, saved, mstatusMie, software, asserted, trap>>

\* NIOSV_SET_CSR with the saved bit.
Restored == IF saved = 1 THEN 1 ELSE mstatusMie

RegisterRestore ==
  /\ From("restore", IF hostAlarm = "unset" THEN "uartAlarm" ELSE "app")
  /\ mstatusMie' = Restored
  /\ request' = NoRequest
  /\ saved' = 0
  /\ UNCHANGED <<mie, software, asserted, trap>>

(***************************************************************************)
(* The devices.                                                            *)
(***************************************************************************)
Assert(l) ==
  /\ l \notin asserted
  /\ asserted' = asserted \cup {l}
  /\ UNCHANGED <<main, cpu, software, trap>>

(***************************************************************************)
(* handle_trap() and alt_irq_handler().  Entry clears the global enable    *)
(* and mret sets it again.  Which cause is reported first when the timer   *)
(* and a platform line are both pending is left open.                      *)
(***************************************************************************)
Pending == asserted \cap mie

Enter(cause) ==
  /\ level = "thread"
  /\ mstatusMie = 1
  /\ mstatusMie' = 0
  /\ level' = cause
  /\ UNCHANGED <<main, mie, software, asserted, active>>

TimerTrap == Timer \in Pending /\ Enter("timer")
IrqTrap == Pending \ {Timer} # {} /\ Enter("irq")

Leave == level' = "thread" /\ mstatusMie' = 1

TimerCall ==
  /\ level = "timer"
  /\ asserted' = IF Timer \in handlers THEN asserted \ {Timer} ELSE asserted
  /\ Leave
  /\ UNCHANGED <<main, mie, software, active>>

IrqPending == Pending \cap Irqs

IrqEnter ==
  /\ level = "irq"
  /\ active' = IrqPending
  /\ level' = "scan"
  /\ UNCHANGED <<main, cpu, software, asserted>>

\* Mutant: the last bit found is served.
Chosen_WrongLast(i) == i \in active /\ \A k \in active : k <= i

Chosen(i) == i \in active /\ \A k \in active : i <= k

\* The handler found serves its device, then the pending lines are read anew.
IrqCall(i) ==
  /\ level = "scan"
  /\ Chosen(i)
  /\ i \in handlers
  /\ asserted' = asserted \ {i}
  /\ level' = "again"
  /\ UNCHANGED <<main, cpu, software, active>>

\* Mutant: the outer loop entered once more with nothing pending.
Finished_WrongNever == active = {}

Finished == IrqPending = {}

IrqAgain ==
  /\ level = "again"
  /\ ~Finished
  /\ active' = IrqPending
  /\ level' = "scan"
  /\ UNCHANGED <<main, cpu, software, asserted>>

IrqLeave ==
  /\ level = "again"
  /\ Finished
  /\ active' = {}
  /\ Leave
  /\ UNCHANGED <<main, mie, software, asserted>>

Boot == IrqInit \/ UartInit \/ UartAlarm \/ SysclkInit \/ TimerHandler \/ TimerEnable
Register == RegisterMask \/ RegisterStore \/ RegisterEnable \/ RegisterRestore
Serve == TimerCall \/ IrqEnter \/ (\E i \in Irqs : IrqCall(i)) \/ IrqAgain \/ IrqLeave

Next ==
  \/ Boot \/ Register \/ TimerTrap \/ IrqTrap \/ Serve
  \/ \E i \in Irqs, isr \in {0, 1} : AppRegister(i, isr)
  \/ \E l \in Lines : Assert(l)

\* Code runs on.  A line that stays up is taken when interrupts are enabled
\* again and again; the timer cannot keep a platform line out for ever, since
\* each of its ticks puts the next a whole period off.
Fairness == WF_vars(Boot \/ Register) /\ WF_vars(Serve) /\ SF_vars(IrqTrap)

Spec == Init /\ [][Next]_vars /\ Fairness

(***************************************************************************)
(* Properties                                                              *)
(***************************************************************************)
\* Every variable has its type.
TypeOK ==
  /\ step \in {"irqInit", "uartInit", "register", "store", "enable", "restore",
               "uartAlarm", "sysclkInit", "timerHandler", "timerEnable", "app"}
  /\ request \in [irq : Irqs, isr : {0, 1}]
  /\ saved \in {0, 1} /\ mstatusMie \in {0, 1}
  /\ mie \in SUBSET Lines /\ handlers \in SUBSET Lines
  /\ tickRate \in {0, 1}
  /\ hostAlarm \in {"unset", "running", "refused"}
  /\ asserted \in SUBSET Lines
  /\ level \in {"thread", "timer", "irq", "scan", "again"}
  /\ active \in SUBSET Irqs

\* No interrupt is dispatched through a null handler, from the first moment
\* interrupts are enabled on and while handlers come and go: neither the
\* platform lines found pending nor a timer trap lack their handler.
NoNullHandler ==
  /\ level = "scan" => active \subseteq handlers
  /\ level = "timer" => Timer \in handlers

\* The search for an active bit always finds one: alt_irq_handler() has no
\* other way out of its inner loop.
SearchEnds == level = "scan" => active # {}

\* The most urgent line is served however busy the others are, unless its
\* handler is removed.
MostUrgent == \A k \in Irqs : Uart <= k
UartServed ==
  MostUrgent => (Uart \in Pending ~> Uart \notin Pending)
=============================================================================
