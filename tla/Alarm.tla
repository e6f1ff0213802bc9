------------------------------- MODULE Alarm -------------------------------
(***************************************************************************)
(* The alarm list of the HAL: alt_alarm_start(), alt_alarm_stop() and the  *)
(* walk of alt_tick() over a doubly linked list that the callbacks it runs *)
(* may themselves change.                                                  *)
(*                                                                         *)
(* alt_tick() runs inside the timer interrupt, and start and stop disable  *)
(* interrupts around their list operations, so a thread acts only while no *)
(* walk is under way; during a walk the callbacks act.                     *)
(***************************************************************************)
EXTENDS Integers, FiniteSets

CONSTANTS
  Alarms,         \* the alt_alarm structures
  Head, Nil,      \* &alt_alarm_list, and the null of a list entry never used
  Delays,         \* arguments given to alt_alarm_start()
  Periods,        \* non-zero values returned by callbacks
  MaxTicks,       \* bound on _alt_nticks
  MaxOps,         \* bound on the starts and stops one callback makes
  MayStopNext     \* may a callback stop the alarm that follows its own?

ASSUME AlarmsAssumption == Head \notin Alarms /\ Nil \notin Alarms \cup {Head}
ASSUME DelaysAssumption == Delays \subseteq Nat /\ Periods \subseteq Nat \ {0}
ASSUME BoundsAssumption ==
  MaxTicks \in Nat /\ MaxOps \in Nat /\ MayStopNext \in BOOLEAN

Nodes == Alarms \cup {Head}

VARIABLES
  next, previous,   \* alt_llist links
  time,             \* alarm->time
  nticks,           \* _alt_nticks
  pc,               \* "idle", or where the walk is: "walk" or "callback"
  alarm, following, \* the local variables alarm and next of alt_tick()
  ops,              \* starts and stops the running callback has made
  registered        \* the caller's view: started, and neither stopped nor over

links == <<next, previous>>
walk == <<pc, alarm, following, ops>>
vars == <<next, previous, time, nticks, pc, alarm, following, ops, registered>>

Init ==
  /\ next = [n \in Nodes |-> IF n = Head THEN Head ELSE Nil]
  /\ previous = next
  /\ time = [a \in Alarms |-> 0]
  /\ nticks = 0
  /\ pc = "idle"
  /\ alarm = Head /\ following = Head
  /\ ops = 0
  /\ registered = {}

(***************************************************************************)
(* alt_llist_insert() at the head and alt_llist_remove().                  *)
(***************************************************************************)
\* Mutant: the old first element keeps pointing back at the head.
Insert_WrongBack(a) ==
  /\ next' = [next EXCEPT ![a] = next[Head], ![Head] = a]
  /\ previous' = [previous EXCEPT ![a] = Head]

Insert(a) ==
  /\ next' = [next EXCEPT ![a] = next[Head], ![Head] = a]
  /\ previous' = [previous EXCEPT ![a] = Head, ![next[Head]] = a]

\* The stores are made one after the other: an entry alone in the list, or
\* pointing at itself already, is its own neighbour.
Remove(a) ==
  /\ previous' = [previous EXCEPT ![next[a]] = previous[a], ![a] = a]
  /\ next' = [next EXCEPT ![previous[a]] = next[a], ![a] = a]

DueTime(n) == n + nticks + 1

(***************************************************************************)
(* alt_alarm_start() and alt_alarm_stop().  Nothing in the code stops a    *)
(* caller from starting an alarm that is on the list or from stopping one  *)
(* that never was; both corrupt memory and are left to the caller.         *)
(***************************************************************************)
Start(a, n) ==
  /\ a \notin registered
  /\ time' = [time EXCEPT ![a] = DueTime(n)]
  /\ Insert(a)
  /\ registered' = registered \cup {a}

Stop(a) ==
  /\ next[a] # Nil
  /\ Remove(a)
  /\ registered' = registered \ {a}
  /\ UNCHANGED time

ThreadStart(a, n) == pc = "idle" /\ Start(a, n) /\ UNCHANGED <<nticks, walk>>
ThreadStop(a) == pc = "idle" /\ Stop(a) /\ UNCHANGED <<nticks, walk>>

(***************************************************************************)
(* alt_tick()                                                              *)
(***************************************************************************)
Tick ==
  /\ pc = "idle"
  /\ nticks < MaxTicks
  /\ nticks' = nticks + 1
  /\ pc' = "walk"
  /\ alarm' = next[Head]
  /\ following' = Head
  /\ ops' = 0
  /\ UNCHANGED <<links, time, registered>>

\* Mutant: an alarm due at this very tick waits for the next one.
Due_WrongStrict(a) == time[a] < nticks

Due(a) == time[a] <= nticks

\* The loop head: the walk has come round to the list head.
WalkEnd ==
  /\ pc = "walk"
  /\ alarm = Head
  /\ pc' = "idle"
  /\ UNCHANGED <<links, time, nticks, alarm, following, ops, registered>>

WalkPast ==
  /\ pc = "walk"
  /\ alarm # Head
  /\ ~Due(alarm)
  /\ following' = next[alarm]
  /\ alarm' = next[alarm]
  /\ UNCHANGED <<links, time, nticks, pc, ops, registered>>

WalkCall ==
  /\ pc = "walk"
  /\ alarm # Head
  /\ Due(alarm)
  /\ following' = next[alarm]
  /\ pc' = "callback"
  /\ ops' = 0
  /\ UNCHANGED <<links, time, nticks, alarm, registered>>

(***************************************************************************)
(* What a callback does before it returns: it may start and stop alarms,   *)
(* its own included.                                                       *)
(***************************************************************************)
InCallback == pc = "callback" /\ ops < MaxOps

CallbackStart(a, n) ==
  InCallback /\ Start(a, n) /\ ops' = ops + 1 /\ UNCHANGED <<nticks, pc, alarm, following>>

CallbackStop(a) ==
  /\ InCallback
  /\ MayStopNext \/ a # following
  /\ Stop(a)
  /\ ops' = ops + 1
  /\ UNCHANGED <<nticks, pc, alarm, following>>

\* Mutant: the element after the callback's own is read only now.
Resume_WrongLate == next[alarm]

\* Where the walk goes on, read before the callback ran.
Resume == following

\* A callback that returns zero is unregistered.
ReturnZero ==
  /\ pc = "callback"
  /\ Stop(alarm)
  /\ pc' = "walk"
  /\ alarm' = Resume
  /\ UNCHANGED <<nticks, following, ops>>

\* Mutant: the new period is forgotten.
Rearmed_WrongKept(n) == time[alarm]

Rearmed(n) == time[alarm] + n

ReturnPeriod(n) ==
  /\ pc = "callback"
  /\ time' = [time EXCEPT ![alarm] = Rearmed(n)]
  /\ pc' = "walk"
  /\ alarm' = Resume
  /\ UNCHANGED <<links, nticks, following, ops, registered>>

Walk == WalkEnd \/ WalkPast \/ WalkCall
Return == ReturnZero \/ \E n \in Periods : ReturnPeriod(n)

Next ==
  \/ \E a \in Alarms :
       \/ \E n \in Delays : ThreadStart(a, n) \/ CallbackStart(a, n)
       \/ ThreadStop(a)
       \/ CallbackStop(a)
  \/ Tick \/ Walk \/ Return

\* The interrupt handler runs once it is entered, and callbacks return.
Fairness == WF_vars(Walk) /\ WF_vars(Return)

Spec == Init /\ [][Next]_vars /\ Fairness

(***************************************************************************)
(* Properties                                                              *)
(***************************************************************************)
\* A set that following next does not lead out of.
Closed(S) == \A n \in S : next[n] \in S

\* The nodes met on the way from the list head.
OnList == {n \in Nodes : \A S \in SUBSET Nodes : Head \in S /\ Closed(S) => n \in S}

\* The ring from the list head holds the registered alarms and nothing else,
\* it can be followed backwards as well, and it closes at the head, whatever
\* starts and stops threads and callbacks have made.
ListOK ==
  /\ OnList = registered \cup {Head} /\ Closed(OnList)
  /\ \A n \in registered \cup {Head} : previous[next[n]] = n /\ next[previous[n]] = n

\* No alarm is missed: between ticks every registered alarm lies ahead, also
\* one started or rearmed during the walk that has just ended.
NonePassed == pc = "idle" => \A a \in registered : time[a] > nticks

\* A callback runs in the tick it is due, neither early nor late, and so at
\* most once in any walk even where a callback makes the walk start over.
OnTime ==
  [][pc = "walk" /\ pc' = "callback" => time[alarm] = nticks]_vars

\* A stopped alarm's callback is not called, not even when the alarm was
\* stopped by a callback of the same walk.
StopIsFinal ==
  [][pc = "walk" /\ pc' = "callback" => alarm \in registered]_vars

\* Every walk comes to its end, so the timer interrupt returns.
WalkEnds == pc # "idle" ~> pc = "idle"

=============================================================================
