----------------------------- MODULE SystemTime -----------------------------
(***************************************************************************)
(* What programs do with the time the machine timer keeps: timestamps and  *)
(* sleeps on mtime (mtimer.c, alt_busy_sleep.c), the time of day on the    *)
(* tick counter (alt_gettod.c, alt_settod.c), and the LED blinker of       *)
(* project 2.  The calls go on while the timer counts and interrupts.      *)
(***************************************************************************)
EXTENDS MTimer

CONSTANTS
  Rate,      \* alt_ticks_per_second()
  Us,        \* ALT_US, the microseconds of a second
  Mhz,       \* CPU_FREQUENCY_MHZ
  Sleeps,    \* the sleeps programs ask for, in microseconds
  Times,     \* the times of day programs set, <<seconds, microseconds>>
  Interval,  \* red_interval of the blinker, in ticks
  MaxCalls   \* bound on the calls a program makes

\* A tick is a whole number of microseconds, as with 1000 ticks a second.
ASSUME TimeAssumption ==
  /\ Rate \in Nat \ {0} /\ Us \in Nat \ {0} /\ Us % Rate = 0
  /\ Mhz \in Nat /\ Sleeps \subseteq Nat
  /\ Times \subseteq Nat \X (0 .. Us - 1)
  /\ Interval \in 0 .. Base - 1 /\ MaxCalls \in Nat

VARIABLES
  call,      \* the call in progress, "none" between calls
  asked,     \* its argument, <<seconds, microseconds>>
  calls,     \* calls made so far
  offset,    \* alt_niosv_timestamp_offset
  reset,     \* alt_resettime
  last,      \* last_red of the blinker, a word
  told,      \* the time last set, and the ticks at the beginning and end of that call
  toggled    \* the tick at which the blinker last noted the time, -1 before it runs

program == <<call, asked, calls>>
clock == <<reset, told>>
blinker == <<last, toggled>>
sysVars == <<vars, program, offset, clock, blinker>>

SysInit ==
  /\ Init
  /\ call = "none" /\ asked = <<0, 0>> /\ calls = 0
  /\ offset = 0
  /\ reset = <<0, 0>> /\ told = <<0, 0, 0>>
  /\ last = 0 /\ toggled = -1

\* Calls begin here, with the time at which they do: a tick count for those
\* that read ticks, a time for the others.
Begin(what, argument, first, now) ==
  /\ At("main", "idle") /\ calls < MaxCalls /\ toggled = -1
  /\ call' = what /\ asked' = argument /\ calls' = calls + 1
  /\ Goto("main", first)
  /\ since' = [since EXCEPT !["main"] = now]
  /\ UNCHANGED <<device, software, high, low, ghosts, offset, clock, blinker>>

\* The call returns: the program goes on.
Return ==
  /\ Goto("main", "idle")
  /\ call' = "none" /\ asked' = <<0, 0>>
  /\ UNCHANGED calls
  /\ Forget("main")

-----------------------------------------------------------------------------
(* Timestamps and sleeps.                                                   *)

StartTimestamp == Begin("start", <<0, 0>>, "getHigh", mtime)
Timestamp == Begin("stamp", <<0, 0>>, "getHigh", mtime)
Sleep == \E us \in Sleeps : Begin("sleep", <<0, us>>, "getHigh", mtime)

HasTime == At("main", "getCheck") /\ booted = 1 /\ ~Torn("main")

TimestampStarted ==
  /\ HasTime /\ call = "start"
  /\ offset' = Got("main")
  /\ Return
  /\ UNCHANGED <<device, software, ghosts, clock, blinker>>

\* alt_busy_sleep() starts the timestamp counter, then reads it again and again.
SleepStarted ==
  /\ HasTime /\ call = "sleep"
  /\ offset' = Got("main")
  /\ call' = "spin"
  /\ Goto("main", "getHigh")
  /\ UNCHANGED <<device, software, high, low, since, ghosts, asked, calls, clock, blinker>>

TimestampRead ==
  /\ HasTime /\ call = "stamp"
  /\ Return
  /\ UNCHANGED <<device, software, ghosts, offset, clock, blinker>>

SpinOver_WrongMicroseconds == Got("main") - offset >= asked[2]
\* CPU_FREQUENCY_MHZ * us is a product of 32-bit words.
SpinOver == Got("main") - offset >= (Mhz * asked[2]) % Base

Spin ==
  /\ HasTime /\ call = "spin" /\ ~SpinOver
  /\ Goto("main", "getHigh")
  /\ UNCHANGED <<device, software, high, low, since, ghosts, program, offset, clock, blinker>>

SleepOver ==
  /\ HasTime /\ call = "spin" /\ SpinOver
  /\ Return
  /\ UNCHANGED <<device, software, ghosts, offset, clock, blinker>>

-----------------------------------------------------------------------------
(* The time of day.  alt_nticks() loads the words of its counter in an      *)
(* order of the compiler's choice.                                          *)

GetTimeOfDay == Begin("gettod", <<0, 0>>, "ticksFirst", nticks)
SetTimeOfDay == \E t \in Times : Begin("settod", t, "ticksFirst", nticks)

TicksHigh ==
  /\ At("main", "ticksFirst") \/ At("main", "ticksHigh")
  /\ high' = [high EXCEPT !["main"] = High(nticks)]
  /\ Goto("main", IF pc["main"] = "ticksFirst" THEN "ticksLow" ELSE "ticksEnd")
  /\ UNCHANGED <<device, software, low, since, ghosts, program, offset, clock, blinker>>

TicksLow ==
  /\ At("main", "ticksFirst") \/ At("main", "ticksLow")
  /\ low' = [low EXCEPT !["main"] = Low(nticks)]
  /\ Goto("main", IF pc["main"] = "ticksFirst" THEN "ticksHigh" ELSE "ticksEnd")
  /\ UNCHANGED <<device, software, high, since, ghosts, program, offset, clock, blinker>>

HasTicks == At("main", "ticksEnd")

Seconds(n) == n \div Rate
Microseconds(n) == (n * (Us \div Rate)) % Us

\* The loops of gettimeofday() that bring microseconds into a second; a time
\* before zero becomes zero.
Normal(sec, usec) ==
  IF usec < 0 /\ sec < -(usec \div Us) THEN <<0, 0>> ELSE <<sec + usec \div Us, usec % Us>>

Answer_WrongNoBorrow ==
  LET n == Got("main") IN
  <<reset[1] + Seconds(n), (reset[2] + Microseconds(n)) % Us>>

\* What gettimeofday() stores, from the ticks it has read.
Answer ==
  LET n == Got("main") IN Normal(reset[1] + Seconds(n), reset[2] + Microseconds(n))

TimeOfDay ==
  /\ HasTicks /\ call = "gettod"
  /\ Return
  /\ UNCHANGED <<device, software, ghosts, offset, clock, blinker>>

TimeOfDaySet ==
  /\ HasTicks /\ call = "settod"
  /\ reset' = <<asked[1] - Seconds(Got("main")), asked[2] - Microseconds(Got("main"))>>
  /\ told' = <<asked[1] * Us + asked[2], since["main"], nticks>>
  /\ Return
  /\ UNCHANGED <<device, software, ghosts, offset, blinker>>

-----------------------------------------------------------------------------
(* The blinker is a program of its own.  It keeps 32 bits of the tick       *)
(* count: one load, never torn.                                             *)

Due_WrongAbsolute == Low(nticks) >= last + Interval
Due == (Low(nticks) - last) % Base >= Interval

StartBlinking ==
  /\ At("main", "idle") /\ calls = 0 /\ toggled = -1
  /\ last' = Low(nticks) /\ toggled' = nticks
  /\ UNCHANGED <<device, software, frames, ghosts, program, offset, clock>>

Blink ==
  /\ At("main", "idle") /\ toggled # -1 /\ Due
  /\ last' = Low(nticks) /\ toggled' = nticks
  /\ UNCHANGED <<device, software, frames, ghosts, program, offset, clock>>

-----------------------------------------------------------------------------
Calls == StartTimestamp \/ Timestamp \/ Sleep \/ GetTimeOfDay \/ SetTimeOfDay

Main == \/ Calls
        \/ TimestampStarted \/ SleepStarted \/ TimestampRead \/ Spin \/ SleepOver
        \/ TicksHigh \/ TicksLow \/ TimeOfDay \/ TimeOfDaySet
        \/ StartBlinking \/ Blink

SysNext == \/ TimerNext /\ UNCHANGED <<program, offset, clock, blinker>>
           \/ Main

SysSpec == SysInit /\ [][SysNext]_sysVars

-----------------------------------------------------------------------------
\* The tick count returned by alt_nticks() is off only if the low word carried
\* during the call, a matter of one tick in 2^32.
Carried(first, final) == High(first) # High(final)

\* gettimeofday() answers the time last set plus the ticks since, for some
\* moment of each of the two calls; so it never runs backwards, and right after
\* settimeofday() it answers what was set.
TimeOfDayRight ==
  [][HasTicks /\ call = "gettod" /\ call' = "none"
       /\ ~Carried(since["main"], nticks) /\ ~Carried(told[2], told[3]) =>
     \E now \in since["main"] .. nticks, then \in told[2] .. told[3] :
       Answer[1] * Us + Answer[2] = told[1] + (now - then) * (Us \div Rate)]_sysVars

\* A sleep lasts as long as asked, interrupted or not, as long as its length in
\* cycles is a word.
SleepLasts ==
  [][call = "spin" /\ call' = "none" /\ Mhz * asked[2] < Base =>
       mtime >= since["main"] + Mhz * asked[2]]_sysVars

\* The blinker toggles neither before its interval is over nor, short of a wrap
\* of the whole word, fails to when it is, wherever the word wraps.
BlinkOnTime ==
  [][toggled # -1 =>
       /\ toggled' # toggled => toggled' - toggled >= Interval
       /\ nticks' - toggled' \in Interval .. Base - 1 => Due']_sysVars
=============================================================================
