------------------------------- MODULE MTimer -------------------------------
(***************************************************************************)
(* The system timer of the HAL on the RISC-V machine timer: mtime and      *)
(* mtimecmp are 64 bits wide and are read and written as two words, the    *)
(* counter runs on between any two accesses, and the timer interrupt may   *)
(* come between any two accesses of the main program.                      *)
(*                                                                         *)
(* A word holds Base values.  The bound MaxTime keeps mtime out of the     *)
(* last 2^32 cycles of its range, some eleven thousand years at 50 MHz.    *)
(***************************************************************************)
EXTENDS Integers

CONSTANTS
  Base,      \* 2^32, the number of values of a word
  Delta,     \* MTIMECMP_DELTA_AMT
  MaxTime    \* bound on mtime

ASSUME SizesAssumption ==
  /\ Base \in Nat /\ Base > 1
  /\ Delta \in Nat /\ Delta > 0
  /\ MaxTime \in Nat /\ MaxTime + Delta < (Base - 1) * Base

Word == 0 .. Base - 1
MaxWord == Base - 1
High(v) == v \div Base
Low(v) == v % Base
Joined(h, l) == h * Base + l

Contexts == {"main", "isr"}

VARIABLES
  mtime,          \* the counter
  cmpHigh, cmpLow,\* mtimecmp, word by word
  enabled,        \* the timer bit of mie
  nticks,         \* _alt_nticks
  booted,         \* alt_niosv_mtimecmp_interrupt_init() has returned
  pc, high, low,  \* per context: the next access and the words read so far
  since,          \* per context: what the value being read was at the call
  due,            \* the deadline last handed to alt_niosv_mtimecmp_set()
  start           \* the time from which the first deadline was counted

device == <<mtime, cmpHigh, cmpLow, enabled>>
software == <<nticks, booted>>
frames == <<pc, high, low, since>>
ghosts == <<due, start>>
vars == <<device, software, frames, ghosts>>

MainSteps == {"getHigh", "getLow", "getCheck", "setMask", "setLow", "setHigh",
              "enable", "idle", "ticksFirst", "ticksLow", "ticksHigh", "ticksEnd"}
IsrSteps == {"getHigh", "getLow", "getCheck", "setMask", "setLow", "setHigh",
             "tick", "idle"}

\* mtimecmp may hold anything before it is first set.
Init ==
  /\ mtime = 0
  /\ cmpHigh \in {0, MaxWord} /\ cmpLow \in {0, MaxWord}
  /\ enabled = 0
  /\ nticks = 0
  /\ booted = 0
  /\ pc = [c \in Contexts |-> IF c = "main" THEN "getHigh" ELSE "idle"]
  /\ high = [c \in Contexts |-> 0]
  /\ low = [c \in Contexts |-> 0]
  /\ since = [c \in Contexts |-> 0]
  /\ due = 0
  /\ start = 0

Pending == mtime >= Joined(cmpHigh, cmpLow)

\* The main program runs only while the handler does not.
Runs(c) == c = "main" => pc["isr"] = "idle"

At(c, here) == Runs(c) /\ pc[c] = here
Goto(c, there) == pc' = [pc EXCEPT ![c] = there]

\* The locals of a function that has returned.
Forget(c) ==
  /\ high' = [high EXCEPT ![c] = 0]
  /\ low' = [low EXCEPT ![c] = 0]
  /\ since' = [since EXCEPT ![c] = 0]

Elapse ==
  /\ mtime < MaxTime
  /\ mtime' = mtime + 1
  /\ UNCHANGED <<cmpHigh, cmpLow, enabled, software, frames, ghosts>>

(***************************************************************************)
(* alt_niosv_mtime_get()                                                   *)
(***************************************************************************)
GetHigh(c) ==
  /\ At(c, "getHigh")
  /\ high' = [high EXCEPT ![c] = High(mtime)]
  /\ Goto(c, "getLow")
  /\ UNCHANGED <<device, software, low, since, ghosts>>

GetLow(c) ==
  /\ At(c, "getLow")
  /\ low' = [low EXCEPT ![c] = Low(mtime)]
  /\ Goto(c, "getCheck")
  /\ UNCHANGED <<device, software, high, since, ghosts>>

\* Mutant: no guard against a rollover between the words.
Torn_WrongNever(c) == FALSE

Torn(c) == High(mtime) # high[c]

GetAgain(c) ==
  /\ At(c, "getCheck")
  /\ Torn(c)
  /\ Goto(c, "getHigh")
  /\ UNCHANGED <<device, software, high, low, since, ghosts>>

Got(c) == Joined(high[c], low[c])

\* Mutant: half a period from now.
Deadline_WrongHalf(v) == v + Delta \div 2

Deadline(v) == v + Delta

\* In the handler and at start-up the time read gives the next deadline.
GetSchedule(c) ==
  /\ At(c, "getCheck")
  /\ c = "main" => booted = 0
  /\ ~Torn(c)
  /\ due' = Deadline(Got(c))
  /\ start' = IF c = "main" THEN Got(c) ELSE start
  /\ Goto(c, "setMask")
  /\ Forget(c)
  /\ UNCHANGED <<device, software>>

(***************************************************************************)
(* alt_niosv_mtimecmp_set()                                                *)
(***************************************************************************)
\* Mutant: the high word left as it was.
Masked_WrongKept == cmpHigh

Masked == MaxWord

SetMask(c) ==
  /\ At(c, "setMask")
  /\ cmpHigh' = Masked
  /\ Goto(c, "setLow")
  /\ UNCHANGED <<mtime, cmpLow, enabled, software, high, low, since, ghosts>>

SetLow(c) ==
  /\ At(c, "setLow")
  /\ cmpLow' = Low(due)
  /\ Goto(c, "setHigh")
  /\ UNCHANGED <<mtime, cmpHigh, enabled, software, high, low, since, ghosts>>

\* Mutant: the high word of the time read, without the carry.
DueHigh_WrongCarry == High(due - Delta)

DueHigh == High(due)

SetHigh(c) ==
  /\ At(c, "setHigh")
  /\ cmpHigh' = DueHigh
  /\ Goto(c, IF c = "main" THEN "enable" ELSE "tick")
  /\ UNCHANGED <<mtime, cmpLow, enabled, software, high, low, since, ghosts>>

(***************************************************************************)
(* Start-up, the interrupt handler and the tick.                           *)
(***************************************************************************)
Enable ==
  /\ At("main", "enable")
  /\ enabled' = 1
  /\ booted' = 1
  /\ Goto("main", "idle")
  /\ UNCHANGED <<mtime, cmpHigh, cmpLow, nticks, high, low, since, ghosts>>

Interrupt ==
  /\ pc["isr"] = "idle"
  /\ enabled = 1
  /\ Pending
  /\ Goto("isr", "getHigh")
  /\ since' = [since EXCEPT !["isr"] = mtime]
  /\ UNCHANGED <<device, software, high, low, ghosts>>

\* alt_tick() adds one with interrupts off; the alarms are module Alarm's.
Tick ==
  /\ pc["isr"] = "tick"
  /\ nticks' = nticks + 1
  /\ Goto("isr", "idle")
  /\ UNCHANGED <<device, booted, high, low, since, ghosts>>

Access(c) ==
  GetHigh(c) \/ GetLow(c) \/ GetAgain(c) \/ GetSchedule(c)
  \/ SetMask(c) \/ SetLow(c) \/ SetHigh(c)

\* What happens to the timer whatever the program does: SystemTime adds that.
TimerNext == Elapse \/ (\E c \in Contexts : Access(c)) \/ Enable \/ Interrupt \/ Tick

(***************************************************************************)
(* Properties                                                              *)
(***************************************************************************)
\* A time read in two words lies between the time of the call and the time of
\* the return, wherever the counter carried and the interrupt came.
GetInWindow ==
  [][\A c \in Contexts : pc[c] = "getCheck" /\ pc'[c] \in {"setMask", "idle"} =>
       since[c] <= Got(c) /\ Got(c) <= mtime]_vars

\* While mtimecmp is rewritten word by word, and after that, the interrupt
\* line is low until the new deadline: no mixture of old and new words fires.
InSet == \E c \in Contexts : pc[c] \in {"setLow", "setHigh"}
Settled == booted = 1 /\ pc["isr"] \notin {"setMask"}
NoStray == InSet \/ Settled => (Pending => mtime >= due)

\* The clock never falls silent: outside the handler a deadline at most one
\* period ahead of the last reading is armed, whole.
NeverSilent ==
  booted = 1 /\ pc["isr"] = "idle" =>
    /\ Joined(cmpHigh, cmpLow) = due
    /\ due <= mtime + Delta

\* Ticks are never too many: the counted periods fit into the elapsed time,
\* so no delay measured in ticks ends early.
NotFast ==
  booted = 1 => start + nticks * Delta <= mtime

=============================================================================
