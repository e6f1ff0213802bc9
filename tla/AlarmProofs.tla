---------------------------- MODULE AlarmProofs ----------------------------
(***************************************************************************)
(* Theorems about the alarm list, for every set of alarms, all delays and  *)
(* periods, any number of ticks and any number of starts and stops that    *)
(* threads and callbacks make.                                             *)
(***************************************************************************)
EXTENDS Alarm, TLAPS

USE AlarmsAssumption, DelaysAssumption, BoundsAssumption

OnRing == registered \cup {Head}

TypeOK ==
  /\ next \in [Nodes -> Nodes \cup {Nil}] /\ previous \in [Nodes -> Nodes \cup {Nil}]
  /\ time \in [Alarms -> Nat] /\ nticks \in Nat
  /\ pc \in {"idle", "walk", "callback"} /\ alarm \in Nodes /\ following \in Nodes
  /\ ops \in Nat /\ registered \in SUBSET Alarms

\* The two links of a node on the ring lead to nodes on the ring and back.
TwoWay ==
  \A n \in OnRing : /\ next[n] \in OnRing /\ previous[n] \in OnRing
                    /\ previous[next[n]] = n /\ next[previous[n]] = n

\* An alarm that is off the list was never on it or points at itself, so that
\* another stop of it stores what is there already.
OffList ==
  \A a \in Alarms \ registered : next[a] = Nil \/ (next[a] = a /\ previous[a] = a)

\* S cannot be left along the links nx except from the nodes in E.
ClosedBut(nx, E, S) == \A n \in S \ E : nx[n] \in S

\* Every node of the ring is met on the way from the head.
OneLap == \A S \in SUBSET Nodes : Head \in S /\ ClosedBut(next, {}, S) => OnRing \subseteq S

LinkInv == TwoWay /\ OffList /\ OneLap

\* Every due alarm outside Done is met on the way from n to the head.
Ahead(n, Done) ==
  n \in OnRing =>
    \A S \in SUBSET Nodes : n \in S /\ ClosedBut(next, {Head}, S)
      => \A a \in registered \ Done : time[a] <= nticks => a \in S

\* The walk stands at a node that has been on the list and is not overdue.
Place(n) == next[n] # Nil /\ (n # Head => time[n] >= nticks)

\* What the walk has passed is not due any more, and what is due lies ahead.
WalkInv ==
  /\ pc = "idle" => \A a \in registered : time[a] > nticks
  /\ pc # "idle" => \A a \in registered : time[a] >= nticks
  /\ pc = "walk" => Place(alarm) /\ Ahead(alarm, {})
  /\ pc = "callback" =>
       /\ alarm # Head /\ Place(alarm) /\ Place(following) /\ Ahead(following, {alarm})

IInv == TypeOK /\ LinkInv /\ WalkInv

\* Where no callback stops the alarm that follows its own, the walk stays on
\* the ring.
Follows ==
  /\ pc = "walk" => alarm \in OnRing
  /\ pc = "callback" => following \in OnRing /\ following # alarm

-----------------------------------------------------------------------------
\* alt_llist_insert() and alt_llist_remove().

\* No registered alarm is its own neighbour.
LEMMA NoSelf == ASSUME TypeOK, LinkInv, NEW a \in registered PROVE next[a] # a
<1> SUFFICES ASSUME next[a] = a PROVE FALSE
  OBVIOUS
<1> DEFINE S == OnRing \ {a}
<1>1. a \in OnRing /\ a # Head /\ S \in SUBSET Nodes /\ Head \in S
  BY DEF OnRing, TypeOK, Nodes
<1>2. ASSUME NEW n \in S PROVE next[n] \in S
  <2>1. next[n] \in OnRing /\ previous[next[n]] = n /\ previous[next[a]] = a
    BY <1>1, <1>2 DEF LinkInv, TwoWay
  <2> QED
    BY <2>1
<1>3. ClosedBut(next, {}, S)
  BY <1>2 DEF ClosedBut
<1>4. OnRing \subseteq S
  BY <1>1, <1>3 DEF LinkInv, OneLap
<1> QED
  BY <1>1, <1>4

\* The links after an insertion, read entry by entry.
LEMMA InsertIs ==
    ASSUME TypeOK, LinkInv, NEW a \in Alarms \ registered, Insert(a)
    PROVE  /\ next' \in [Nodes -> Nodes \cup {Nil}] /\ previous' \in [Nodes -> Nodes \cup {Nil}]
           /\ next'[Head] = a /\ next'[a] = next[Head] /\ next[Head] \in OnRing
           /\ \A n \in Nodes \ {a, Head} : next'[n] = next[n]
           /\ previous'[a] = Head /\ previous'[next[Head]] = a
           /\ \A n \in Nodes \ {a, next[Head]} : previous'[n] = previous[n]
<1>1. next[Head] \in OnRing /\ OnRing \subseteq Nodes /\ Head \in Nodes /\ a \in Nodes
      /\ a # Head /\ a \notin OnRing
  BY DEF LinkInv, TwoWay, OnRing, TypeOK, Nodes
<1> QED
  BY <1>1 DEF Insert, TypeOK

\* What is closed after an insertion was closed on the ring before it.
LEMMA InsertClosed ==
    ASSUME TypeOK, LinkInv, NEW a \in Alarms \ registered, Insert(a),
           NEW E \in {{}, {Head}}, NEW S \in SUBSET Nodes, ClosedBut(next', E, S)
    PROVE  ClosedBut(next, E, S \cap OnRing)
<1>1. a \notin OnRing /\ OnRing \subseteq Nodes
  BY DEF OnRing, TypeOK, Nodes
<1>2. ASSUME NEW n \in (S \cap OnRing) \ E PROVE next[n] \in S \cap OnRing
  <2>1. next[n] \in OnRing /\ next'[n] \in S
    BY DEF LinkInv, TwoWay, ClosedBut
  <2>2. CASE n = Head
    <3>1. E = {} /\ a \in S
      BY <2>1, <2>2, InsertIs
    <3>2. next'[a] \in S
      BY <3>1 DEF ClosedBut
    <3> QED
      BY <2>1, <2>2, <3>2, InsertIs
  <2>3. CASE n # Head
    <3>1. next'[n] = next[n]
      BY <1>1, <2>3, InsertIs
    <3> QED
      BY <2>1, <3>1
  <2> QED
    BY <2>2, <2>3
<1> QED
  BY <1>2 DEF ClosedBut

\* An insertion keeps the ring whole.
LEMMA InsertLinks ==
    ASSUME TypeOK, LinkInv, NEW a \in Alarms \ registered, Insert(a),
           registered' = registered \cup {a}
    PROVE  LinkInv'
<1> DEFINE h == next[Head]
<1>1. /\ OnRing' = OnRing \cup {a} /\ a \notin OnRing /\ OnRing \subseteq Nodes
      /\ h \in OnRing /\ Head \in OnRing /\ a \in Nodes /\ a # Head
  BY InsertIs DEF OnRing, TypeOK, Nodes
<1>2. TwoWay'
  <2>1. ASSUME NEW n \in OnRing \cup {a}
        PROVE  /\ next'[n] \in OnRing \cup {a} /\ previous'[next'[n]] = n
    <3>1. CASE n = a
      BY <1>1, <3>1, InsertIs
    <3>2. CASE n = Head
      BY <1>1, <3>2, InsertIs
    <3>3. CASE n \in OnRing /\ n # Head
      <4>1. next'[n] = next[n] /\ next[n] \in OnRing /\ previous[next[n]] = n
        BY <1>1, <3>3, InsertIs DEF LinkInv, TwoWay
      <4>2. next[n] # h
        BY <1>1, <3>3, <4>1 DEF LinkInv, TwoWay
      <4> QED
        BY <1>1, <4>1, <4>2, InsertIs
    <3> QED
      BY <3>1, <3>2, <3>3
  <2>2. ASSUME NEW n \in OnRing \cup {a}
        PROVE  /\ previous'[n] \in OnRing \cup {a} /\ next'[previous'[n]] = n
    <3>1. CASE n = a
      BY <1>1, <3>1, InsertIs
    <3>2. CASE n = h
      BY <1>1, <3>2, InsertIs
    <3>3. CASE n \in OnRing /\ n # h
      <4>1. previous'[n] = previous[n] /\ previous[n] \in OnRing /\ next[previous[n]] = n
        BY <1>1, <3>3, InsertIs DEF LinkInv, TwoWay
      <4>2. previous[n] # Head
        BY <3>3, <4>1
      <4> QED
        BY <1>1, <4>1, <4>2, InsertIs
    <3> QED
      BY <3>1, <3>2, <3>3
  <2> QED
    BY <1>1, <2>1, <2>2 DEF TwoWay
<1>3. OffList'
  <2>1. ASSUME NEW b \in Alarms \ (registered \cup {a})
        PROVE  next'[b] = next[b] /\ previous'[b] = previous[b]
    <3>1. b \in Nodes /\ b # a /\ b # Head /\ b # h
      BY <1>1 DEF OnRing, Nodes
    <3> QED
      BY <3>1, InsertIs
  <2> QED
    BY <2>1 DEF OffList, LinkInv
<1>4. OneLap'
  <2>1. ASSUME NEW S \in SUBSET Nodes, Head \in S, ClosedBut(next', {}, S)
        PROVE  OnRing \cup {a} \subseteq S
    <3>1. ClosedBut(next, {}, S \cap OnRing)
      BY <2>1, InsertClosed
    <3>2. OnRing \subseteq S
      BY <1>1, <2>1, <3>1 DEF LinkInv, OneLap
    <3>3. next'[Head] \in S
      BY <2>1 DEF ClosedBut
    <3> QED
      BY <3>2, <3>3, InsertIs
  <2> QED
    BY <1>1, <2>1 DEF OneLap
<1> QED
  BY <1>2, <1>3, <1>4 DEF LinkInv

\* The links after the removal of a registered alarm, read entry by entry.
LEMMA RemoveIs ==
    ASSUME TypeOK, LinkInv, NEW a \in registered, Remove(a)
    PROVE  /\ next' \in [Nodes -> Nodes \cup {Nil}] /\ previous' \in [Nodes -> Nodes \cup {Nil}]
           /\ next[a] \in OnRing \ {a} /\ previous[a] \in OnRing \ {a}
           /\ next'[a] = a /\ next'[previous[a]] = next[a]
           /\ \A n \in Nodes \ {a, previous[a]} : next'[n] = next[n]
           /\ previous'[a] = a /\ previous'[next[a]] = previous[a]
           /\ \A n \in Nodes \ {a, next[a]} : previous'[n] = previous[n]
<1>1. /\ next[a] \in OnRing /\ previous[a] \in OnRing /\ next[a] # a
      /\ OnRing \subseteq Nodes /\ a \in Nodes
  BY NoSelf DEF LinkInv, TwoWay, OnRing, TypeOK, Nodes
<1>2. previous[a] # a
  BY <1>1 DEF LinkInv, TwoWay, OnRing
<1> QED
  BY <1>1, <1>2 DEF Remove, TypeOK

\* What is closed after a removal, the removed alarm added where the way led
\* through it, was closed on the ring before it.
LEMMA RemoveClosed ==
    ASSUME TypeOK, LinkInv, NEW a \in registered, Remove(a),
           NEW E \in {{}, {Head}}, NEW S \in SUBSET Nodes, ClosedBut(next', E, S)
    PROVE  \E T \in SUBSET Nodes :
             /\ ClosedBut(next, E, T) /\ T \subseteq S \cup {a} /\ (S \cap OnRing) \ {a} \subseteq T
<1> DEFINE p == previous[a]
<1>1. a \in OnRing /\ OnRing \subseteq Nodes /\ a # Head
  BY DEF OnRing, TypeOK, Nodes
<1>2. ASSUME NEW n \in (S \cap OnRing) \ {a, p}, n \notin E
      PROVE  next[n] \in (S \cap OnRing) \ {a}
  <2>1. next[n] \in OnRing /\ next'[n] \in S /\ next'[n] = next[n]
    BY <1>1, <1>2, RemoveIs DEF LinkInv, TwoWay, ClosedBut
  <2>2. next[n] # a
    BY <1>2 DEF LinkInv, TwoWay
  <2> QED
    BY <2>1, <2>2
<1>3. CASE p \in S \ E
  <2> DEFINE T == (S \cap OnRing) \cup {a}
  <2>1. next[a] \in S \cap OnRing /\ next[p] = a
    BY <1>1, <1>3, RemoveIs DEF ClosedBut, LinkInv, TwoWay
  <2>2. ASSUME NEW n \in T \ E PROVE next[n] \in T
    BY <1>2, <2>1, <2>2
  <2>3. ClosedBut(next, E, T) /\ T \in SUBSET Nodes
    BY <1>1, <2>2 DEF ClosedBut
  <2> QED
    BY <2>3
<1>4. CASE p \notin S \ E
  <2> DEFINE T == (S \cap OnRing) \ {a}
  <2>1. ASSUME NEW n \in T \ E PROVE next[n] \in T
    BY <1>2, <1>4, <2>1
  <2>2. ClosedBut(next, E, T) /\ T \in SUBSET Nodes
    BY <1>1, <2>1 DEF ClosedBut
  <2> QED
    BY <2>2
<1> QED
  BY <1>3, <1>4

\* A removal keeps the ring whole.
LEMMA RemoveLinks ==
    ASSUME TypeOK, LinkInv, NEW a \in registered, Remove(a), registered' = registered \ {a}
    PROVE  LinkInv'
<1> DEFINE p == previous[a]  q == next[a]
<1>1. /\ OnRing' = OnRing \ {a} /\ OnRing \subseteq Nodes /\ Head \in OnRing
      /\ a \in OnRing /\ a # Head
      /\ p \in OnRing \ {a} /\ q \in OnRing \ {a} /\ next[p] = a /\ previous[q] = a
  BY RemoveIs DEF OnRing, TypeOK, Nodes, LinkInv, TwoWay
<1>2. TwoWay'
  <2>1. ASSUME NEW n \in OnRing \ {a}
        PROVE  next'[n] \in OnRing \ {a} /\ previous'[next'[n]] = n
    <3>1. CASE n = p
      BY <1>1, <3>1, RemoveIs
    <3>2. CASE n # p
      <4>1. next'[n] = next[n] /\ next[n] \in OnRing /\ previous[next[n]] = n
        BY <1>1, <3>2, RemoveIs DEF LinkInv, TwoWay
      <4>2. next[n] # a /\ next[n] # q
        BY <1>1, <3>2, <4>1
      <4> QED
        BY <1>1, <4>1, <4>2, RemoveIs
    <3> QED
      BY <3>1, <3>2
  <2>2. ASSUME NEW n \in OnRing \ {a}
        PROVE  previous'[n] \in OnRing \ {a} /\ next'[previous'[n]] = n
    <3>1. CASE n = q
      BY <1>1, <3>1, RemoveIs
    <3>2. CASE n # q
      <4>1. previous'[n] = previous[n] /\ previous[n] \in OnRing /\ next[previous[n]] = n
        BY <1>1, <3>2, RemoveIs DEF LinkInv, TwoWay
      <4>2. previous[n] # a /\ previous[n] # p
        BY <1>1, <3>2, <4>1
      <4> QED
        BY <1>1, <4>1, <4>2, RemoveIs
    <3> QED
      BY <3>1, <3>2
  <2> QED
    BY <1>1, <2>1, <2>2 DEF TwoWay
<1>3. OffList'
  <2>1. ASSUME NEW b \in Alarms \ registered
        PROVE  next'[b] = next[b] /\ previous'[b] = previous[b]
    <3>1. b \in Nodes /\ b # a /\ b # p /\ b # q
      BY <1>1 DEF OnRing, Nodes
    <3> QED
      BY <3>1, RemoveIs
  <2>2. next'[a] = a /\ previous'[a] = a
    BY RemoveIs
  <2> QED
    BY <2>1, <2>2 DEF OffList, LinkInv
<1>4. OneLap'
  <2>1. ASSUME NEW S \in SUBSET Nodes, Head \in S, ClosedBut(next', {}, S)
        PROVE  OnRing \ {a} \subseteq S
    <3>1. PICK T \in SUBSET Nodes :
            ClosedBut(next, {}, T) /\ T \subseteq S \cup {a} /\ (S \cap OnRing) \ {a} \subseteq T
      BY <2>1, RemoveClosed
    <3>2. Head \in T
      BY <1>1, <2>1, <3>1
    <3>3. OnRing \subseteq T
      BY <3>1, <3>2 DEF LinkInv, OneLap
    <3> QED
      BY <3>1, <3>3
  <2> QED
    BY <1>1, <2>1 DEF OneLap
<1> QED
  BY <1>2, <1>3, <1>4 DEF LinkInv

\* Stopping an alarm that is off the list changes nothing.
LEMMA RemoveAgain ==
    ASSUME TypeOK, LinkInv, NEW a \in Alarms \ registered, next[a] # Nil, Remove(a)
    PROVE  next' = next /\ previous' = previous
<1>1. next[a] = a /\ previous[a] = a /\ a \in Nodes
  BY DEF LinkInv, OffList, Nodes
<1> QED
  BY <1>1 DEF Remove, TypeOK

-----------------------------------------------------------------------------
\* What start and stop do, whoever calls them.

LEMMA StartLinks ==
    ASSUME TypeOK, LinkInv, NEW a \in Alarms, NEW n \in Delays, Start(a, n)
    PROVE  /\ a \notin registered /\ registered' = registered \cup {a} /\ Insert(a)
           /\ next' \in [Nodes -> Nodes \cup {Nil}] /\ previous' \in [Nodes -> Nodes \cup {Nil}]
           /\ LinkInv'
           /\ time' \in [Alarms -> Nat] /\ time'[a] > nticks
           /\ \A b \in Alarms \ {a} : time'[b] = time[b]
<1>1. a \notin registered /\ registered' = registered \cup {a} /\ Insert(a)
  BY DEF Start
<1>2. time' = [time EXCEPT ![a] = n + nticks + 1] /\ n \in Nat /\ nticks \in Nat
  BY DEF Start, DueTime, TypeOK
<1>3. time' \in [Alarms -> Nat] /\ time'[a] > nticks /\ \A b \in Alarms \ {a} : time'[b] = time[b]
  BY <1>2 DEF TypeOK
<1> QED
  BY <1>1, <1>3, InsertIs, InsertLinks

LEMMA StopLinks ==
    ASSUME TypeOK, LinkInv, NEW a \in Alarms, Stop(a)
    PROVE  /\ registered' = registered \ {a} /\ time' = time /\ next[a] # Nil
           /\ next' \in [Nodes -> Nodes \cup {Nil}] /\ previous' \in [Nodes -> Nodes \cup {Nil}]
           /\ LinkInv'
<1>1. registered' = registered \ {a} /\ time' = time /\ next[a] # Nil /\ Remove(a)
  BY DEF Stop
<1>2. CASE a \in registered
  BY <1>1, <1>2, RemoveIs, RemoveLinks
<1>3. CASE a \notin registered
  <2>1. next' = next /\ previous' = previous /\ registered' = registered
    BY <1>1, <1>3, RemoveAgain
  <2> QED
    BY <1>1, <2>1 DEF TypeOK, LinkInv, TwoWay, OffList, OneLap, OnRing
<1> QED
  BY <1>2, <1>3

\* An entry that has been on the list keeps its links.
LEMMA NeverNil ==
    ASSUME TypeOK, LinkInv, NEW a \in Alarms, NEW m \in Nodes, next[m] # Nil,
           Stop(a) \/ \E n \in Delays : Start(a, n)
    PROVE  next'[m] # Nil
<1>1. Nil \notin Nodes /\ OnRing \subseteq Nodes
  BY DEF Nodes, OnRing, TypeOK
<1>2. CASE Stop(a)
  <2>1. CASE a \in registered
    <3>1. Remove(a)
      BY <1>2 DEF Stop
    <3>2. a \in Nodes /\ next[a] \in Nodes
      BY <1>1, <2>1, <3>1, RemoveIs DEF Nodes
    <3> QED
      BY <1>1, <2>1, <3>1, <3>2, RemoveIs
  <2>2. CASE a \notin registered
    BY <1>2, <2>2, RemoveAgain DEF Stop
  <2> QED
    BY <2>1, <2>2
<1>3. ASSUME NEW n \in Delays, Start(a, n) PROVE next'[m] # Nil
  <2>1. a \notin registered /\ Insert(a)
    BY <1>3 DEF Start
  <2> QED
    BY <1>1, <2>1, InsertIs DEF Nodes
<1> QED
  BY <1>2, <1>3

\* A start while a callback runs does not hide a due alarm from the walk.
LEMMA StartAhead ==
    ASSUME TypeOK, LinkInv, NEW a \in Alarms, NEW n \in Delays, Start(a, n), nticks' = nticks,
           NEW m \in Nodes, NEW Done \in SUBSET Alarms, Ahead(m, Done)
    PROVE  m \in OnRing' => \A S \in SUBSET Nodes : m \in S /\ ClosedBut(next', {Head}, S)
             => \A b \in registered' \ Done : time'[b] <= nticks' => b \in S
<1> SUFFICES ASSUME m \in OnRing', NEW S \in SUBSET Nodes, m \in S, ClosedBut(next', {Head}, S),
                    NEW b \in registered' \ Done, time'[b] <= nticks'
             PROVE  b \in S
  OBVIOUS
<1>1. /\ a \in Alarms \ registered /\ Insert(a) /\ registered' = registered \cup {a}
      /\ time'[a] > nticks /\ nticks \in Nat /\ time'[a] \in Nat
  BY StartLinks DEF TypeOK
<1>2. b \in registered \ Done /\ time[b] <= nticks
  <2>1. b # a
    BY <1>1
  <2>2. b \in registered /\ b \in Alarms
    BY <1>1, <2>1 DEF TypeOK
  <2> QED
    BY <2>1, <2>2, StartLinks
<1>3. ClosedBut(next, {Head}, S \cap OnRing)
  BY <1>1, InsertClosed
<1>4. OnRing \subseteq Nodes /\ OnRing' = OnRing \cup {a} /\ registered \subseteq OnRing
  BY <1>1 DEF OnRing, TypeOK, Nodes
<1>5. CASE m \in OnRing
  BY <1>2, <1>3, <1>4, <1>5 DEF Ahead
<1>6. CASE m = a
  <2> DEFINE T == (S \cap OnRing) \cup {Head}
  <2>1. next[Head] \in S /\ next[Head] \in OnRing
    <3>1. next'[a] \in S
      BY <1>1, <1>6 DEF ClosedBut
    <3> QED
      BY <1>1, <3>1, InsertIs
  <2>2. ClosedBut(next, {}, T)
    BY <1>3, <2>1 DEF ClosedBut
  <2>3. OnRing \subseteq T
    BY <1>4, <2>2 DEF LinkInv, OneLap, Nodes
  <2> QED
    BY <1>2, <1>4, <2>3 DEF TypeOK
<1> QED
  BY <1>4, <1>5, <1>6

\* Neither does a stop.
LEMMA StopAhead ==
    ASSUME TypeOK, LinkInv, NEW a \in Alarms, Stop(a), nticks' = nticks,
           NEW m \in Nodes, NEW Done \in SUBSET Alarms, Ahead(m, Done)
    PROVE  m \in OnRing' => \A S \in SUBSET Nodes : m \in S /\ ClosedBut(next', {Head}, S)
             => \A b \in registered' \ Done : time'[b] <= nticks' => b \in S
<1> SUFFICES ASSUME m \in OnRing', NEW S \in SUBSET Nodes, m \in S, ClosedBut(next', {Head}, S),
                    NEW b \in registered' \ Done, time'[b] <= nticks'
             PROVE  b \in S
  OBVIOUS
<1>1. registered' = registered \ {a} /\ time' = time /\ next[a] # Nil /\ Remove(a)
  BY DEF Stop
<1>2. /\ b \in registered \ Done /\ b # a /\ time[b] <= nticks
      /\ m \in OnRing /\ m # a
  BY <1>1 DEF OnRing, Nodes
<1>3. CASE a \in registered
  <2>1. PICK T \in SUBSET Nodes :
          ClosedBut(next, {Head}, T) /\ T \subseteq S \cup {a} /\ (S \cap OnRing) \ {a} \subseteq T
    BY <1>1, <1>3, RemoveClosed
  <2>2. m \in T
    BY <1>2, <2>1
  <2>3. b \in T
    BY <1>2, <2>1, <2>2 DEF Ahead
  <2> QED
    BY <1>2, <2>1, <2>3
<1>4. CASE a \notin registered
  <2>1. next' = next
    BY <1>1, <1>4, RemoveAgain
  <2> QED
    BY <1>2, <2>1 DEF Ahead
<1> QED
  BY <1>3, <1>4

\* One step of the walk past an alarm leaves behind at most that alarm.
LEMMA StepAhead ==
    ASSUME TypeOK, LinkInv, NEW m \in Alarms, next[m] # Nil, Ahead(m, {}),
           NEW Done \in SUBSET Alarms, m \in Done \/ ~(time[m] <= nticks)
    PROVE  Ahead(next[m], Done) /\ next[m] \in Nodes
<1>1. OnRing \subseteq Nodes /\ m \in Nodes /\ m # Head
  BY DEF OnRing, Nodes, TypeOK
<1>2. CASE m \in registered
  <2>1. m \in OnRing /\ next[m] \in OnRing
    BY <1>2 DEF LinkInv, TwoWay, OnRing
  <2>2. ASSUME NEW S \in SUBSET Nodes, next[m] \in S, ClosedBut(next, {Head}, S),
               NEW b \in registered \ Done, time[b] <= nticks
        PROVE  b \in S
    <3>1. ClosedBut(next, {Head}, S \cup {m})
      BY <2>2 DEF ClosedBut
    <3>2. b \in S \cup {m}
      BY <1>1, <2>1, <2>2, <3>1 DEF Ahead
    <3> QED
      BY <2>2, <3>2
  <2> QED
    BY <1>1, <2>1, <2>2 DEF Ahead
<1>3. CASE m \notin registered
  <2>1. next[m] = m /\ m \notin OnRing
    BY <1>1, <1>3 DEF LinkInv, OffList, OnRing
  <2> QED
    BY <1>1, <2>1 DEF Ahead
<1> QED
  BY <1>2, <1>3

-----------------------------------------------------------------------------
LEMMA InitIInv == Init => IInv
<1> SUFFICES ASSUME Init PROVE IInv
  OBVIOUS
<1>1. TypeOK
  BY DEF Init, TypeOK, Nodes
<1>2. LinkInv
  <2>1. OnRing = {Head} /\ Head \in Nodes
    BY DEF Init, OnRing, Nodes
  <2>2. next[Head] = Head /\ previous[Head] = Head /\ \A a \in Alarms : next[a] = Nil
    BY DEF Init, Nodes
  <2> QED
    BY <2>1, <2>2 DEF LinkInv, TwoWay, OffList, OneLap
<1>3. WalkInv
  BY DEF Init, WalkInv
<1> QED
  BY <1>1, <1>2, <1>3 DEF IInv

\* A thread starts or stops an alarm between ticks.
LEMMA ThreadIInv ==
    ASSUME IInv, NEW a \in Alarms, ThreadStop(a) \/ \E n \in Delays : ThreadStart(a, n)
    PROVE  IInv'
<1>1. /\ TypeOK /\ LinkInv /\ pc = "idle" /\ \A b \in registered : time[b] > nticks
      /\ UNCHANGED <<nticks, walk>>
  BY DEF IInv, WalkInv, ThreadStart, ThreadStop
<1>2. CASE ThreadStop(a)
  <2>1. /\ registered' = registered \ {a} /\ time' = time /\ LinkInv'
        /\ next' \in [Nodes -> Nodes \cup {Nil}] /\ previous' \in [Nodes -> Nodes \cup {Nil}]
    BY <1>1, <1>2, StopLinks DEF ThreadStop
  <2>2. TypeOK'
    BY <1>1, <2>1 DEF TypeOK, walk
  <2>3. WalkInv'
    BY <1>1, <2>1 DEF WalkInv, walk
  <2> QED
    BY <2>1, <2>2, <2>3 DEF IInv
<1>3. ASSUME NEW n \in Delays, ThreadStart(a, n) PROVE IInv'
  <2>1. Start(a, n)
    BY <1>3 DEF ThreadStart
  <2>2. /\ registered' = registered \cup {a} /\ LinkInv'
        /\ next' \in [Nodes -> Nodes \cup {Nil}] /\ previous' \in [Nodes -> Nodes \cup {Nil}]
        /\ time' \in [Alarms -> Nat] /\ time'[a] > nticks
        /\ \A b \in Alarms \ {a} : time'[b] = time[b]
    BY <1>1, <2>1, StartLinks
  <2>3. TypeOK'
    BY <1>1, <2>2 DEF TypeOK, walk
  <2>4. WalkInv'
    <3>1. \A b \in registered' : time'[b] > nticks'
      BY <1>1, <2>2 DEF TypeOK
    <3> QED
      BY <1>1, <3>1 DEF WalkInv, walk
  <2> QED
    BY <2>2, <2>3, <2>4 DEF IInv
<1> QED
  BY <1>2, <1>3

LEMMA TickIInv == IInv /\ Tick => IInv'
<1> SUFFICES ASSUME IInv, Tick PROVE IInv'
  OBVIOUS
<1>1. /\ UNCHANGED <<next, previous, time, registered>> /\ pc = "idle" /\ pc' = "walk"
      /\ nticks' = nticks + 1 /\ alarm' = next[Head] /\ following' = Head /\ ops' = 0
      /\ TypeOK /\ LinkInv
  BY DEF Tick, links, IInv
<1>2. next[Head] \in OnRing /\ OnRing \subseteq Nodes /\ Head \in Nodes
  BY <1>1 DEF LinkInv, TwoWay, OnRing, Nodes, TypeOK
<1>3. TypeOK'
  BY <1>1, <1>2 DEF TypeOK
<1>4. LinkInv'
  BY <1>1 DEF LinkInv, TwoWay, OffList, OneLap, OnRing
<1>5. \A a \in registered : time[a] >= nticks + 1
  <2>1. \A a \in registered : time[a] > nticks /\ time[a] \in Nat /\ nticks \in Nat
    BY <1>1 DEF IInv, WalkInv, TypeOK
  <2> QED
    BY <2>1
<1>6. Place(alarm)'
  <2>1. next[next[Head]] # Nil
    BY <1>1, <1>2 DEF LinkInv, TwoWay, Nodes
  <2>2. next[Head] # Head => time[next[Head]] >= nticks + 1
    BY <1>2, <1>5 DEF OnRing
  <2> QED
    BY <1>1, <2>1, <2>2 DEF Place
<1>7. Ahead(alarm, {})'
  <2>1. ASSUME NEW S \in SUBSET Nodes, next[Head] \in S, ClosedBut(next, {Head}, S)
        PROVE  registered \subseteq S
    <3>1. ClosedBut(next, {}, S \cup {Head})
      BY <2>1 DEF ClosedBut
    <3>2. OnRing \subseteq S \cup {Head}
      BY <1>1, <1>2, <3>1 DEF LinkInv, OneLap
    <3> QED
      BY <1>1, <3>2 DEF OnRing, TypeOK
  <2> QED
    BY <1>1, <2>1 DEF Ahead
<1>8. WalkInv'
  BY <1>1, <1>5, <1>6, <1>7 DEF WalkInv
<1> QED
  BY <1>3, <1>4, <1>8 DEF IInv

\* The loop of alt_tick() comes to its end, goes past an alarm or calls one.
LEMMA WalkIInv == IInv /\ Walk => IInv'
<1> SUFFICES ASSUME IInv, Walk PROVE IInv'
  OBVIOUS
<1>1. /\ UNCHANGED <<next, previous, time, registered, nticks>> /\ pc = "walk"
      /\ TypeOK /\ LinkInv /\ Place(alarm) /\ Ahead(alarm, {})
      /\ \A a \in registered : time[a] >= nticks
  BY DEF Walk, WalkEnd, WalkPast, WalkCall, links, IInv, WalkInv
<1>2. LinkInv'
  BY <1>1 DEF LinkInv, TwoWay, OffList, OneLap, OnRing
<1>3. nticks \in Nat /\ time \in [Alarms -> Nat] /\ registered \subseteq Alarms /\ alarm \in Nodes
  BY <1>1 DEF TypeOK
<1>4. CASE WalkEnd
  <2>1. alarm = Head /\ pc' = "idle" /\ UNCHANGED <<alarm, following, ops>>
    BY <1>4 DEF WalkEnd
  <2>2. ASSUME NEW a \in registered PROVE time[a] > nticks
    <3>1. ClosedBut(next, {Head}, {Head}) /\ {Head} \in SUBSET Nodes /\ Head \in OnRing
      BY DEF ClosedBut, Nodes, OnRing
    <3>2. time[a] <= nticks => a \in {Head}
      BY <1>1, <2>1, <3>1 DEF Ahead
    <3>3. a # Head /\ time[a] \in Nat
      BY <1>3
    <3> QED
      BY <1>3, <3>2, <3>3
  <2>3. TypeOK'
    BY <1>1, <2>1 DEF TypeOK
  <2>4. WalkInv'
    BY <1>1, <2>1, <2>2 DEF WalkInv
  <2> QED
    BY <1>2, <2>3, <2>4 DEF IInv
<1>5. ASSUME alarm # Head
      PROVE  alarm \in Alarms /\ next[alarm] \in Nodes /\ Place(next[alarm])
  <2>1. alarm \in Alarms /\ next[alarm] # Nil
    BY <1>1, <1>3, <1>5 DEF Nodes, Place
  <2>2. CASE alarm \in registered
    <3>1. next[alarm] \in OnRing /\ next[next[alarm]] \in OnRing /\ OnRing \subseteq Nodes
      BY <1>1, <2>2 DEF LinkInv, TwoWay, OnRing, Nodes, TypeOK
    <3>2. next[alarm] # Head => time[next[alarm]] >= nticks
      BY <1>1, <3>1 DEF OnRing
    <3> QED
      BY <2>1, <3>1, <3>2 DEF Place, Nodes
  <2>3. CASE alarm \notin registered
    <3>1. next[alarm] = alarm
      BY <1>1, <2>1, <2>3 DEF LinkInv, OffList
    <3> QED
      BY <1>1, <1>3, <2>1, <3>1 DEF Place
  <2> QED
    BY <2>2, <2>3
<1>6. CASE WalkPast
  <2>1. /\ alarm # Head /\ ~(time[alarm] <= nticks) /\ alarm' = next[alarm]
        /\ following' = next[alarm] /\ pc' = pc /\ ops' = ops
    BY <1>6 DEF WalkPast, Due
  <2>2. Ahead(next[alarm], {}) /\ Place(next[alarm]) /\ next[alarm] \in Nodes
    BY <1>1, <1>5, <2>1, StepAhead DEF Place
  <2>3. TypeOK'
    BY <1>1, <2>1, <2>2 DEF TypeOK
  <2>4. Place(alarm)' /\ Ahead(alarm, {})'
    BY <1>1, <2>1, <2>2 DEF Place, Ahead, OnRing, ClosedBut
  <2>5. WalkInv'
    BY <1>1, <2>1, <2>4 DEF WalkInv
  <2> QED
    BY <1>2, <2>3, <2>5 DEF IInv
<1>7. CASE WalkCall
  <2>1. /\ alarm # Head /\ alarm' = alarm
        /\ following' = next[alarm] /\ pc' = "callback" /\ ops' = 0
    BY <1>7 DEF WalkCall
  <2>2. Ahead(next[alarm], {alarm}) /\ Place(next[alarm]) /\ next[alarm] \in Nodes
    BY <1>1, <1>5, <2>1, StepAhead DEF Place
  <2>3. TypeOK'
    BY <1>1, <2>1, <2>2 DEF TypeOK
  <2>4. Place(alarm)' /\ Place(following)' /\ Ahead(following, {alarm})'
    BY <1>1, <2>1, <2>2 DEF Place, Ahead, OnRing, ClosedBut
  <2>5. WalkInv'
    BY <1>1, <2>1, <2>4 DEF WalkInv
  <2> QED
    BY <1>2, <2>3, <2>5 DEF IInv
<1> QED
  BY <1>4, <1>6, <1>7 DEF Walk

\* A callback starts or stops an alarm.
LEMMA CallbackIInv ==
    ASSUME IInv, NEW a \in Alarms, CallbackStop(a) \/ \E n \in Delays : CallbackStart(a, n)
    PROVE  IInv'
<1>1. /\ pc = "callback" /\ UNCHANGED <<nticks, pc, alarm, following>> /\ ops' = ops + 1
      /\ TypeOK /\ LinkInv /\ alarm # Head /\ Place(alarm) /\ Place(following)
      /\ Ahead(following, {alarm}) /\ \A b \in registered : time[b] >= nticks
  BY DEF CallbackStart, CallbackStop, InCallback, IInv, WalkInv
<1>2. /\ nticks \in Nat /\ time \in [Alarms -> Nat] /\ registered \subseteq Alarms
      /\ alarm \in Alarms /\ following \in Nodes /\ alarm \in Nodes
  BY <1>1 DEF TypeOK, Nodes
<1>3. CASE CallbackStop(a)
  <2>0. Stop(a)
    BY <1>3 DEF CallbackStop
  <2>1. /\ registered' = registered \ {a} /\ time' = time /\ LinkInv'
        /\ next' \in [Nodes -> Nodes \cup {Nil}] /\ previous' \in [Nodes -> Nodes \cup {Nil}]
    BY <1>1, <2>0, StopLinks
  <2>2. TypeOK'
    BY <1>1, <2>1 DEF TypeOK
  <2>3. Place(alarm)' /\ Place(following)'
    <3>1. next'[alarm] # Nil /\ next'[following] # Nil
      BY <1>1, <1>2, <2>0, NeverNil DEF Place
    <3> QED
      BY <1>1, <2>1, <3>1 DEF Place
  <2>4. Ahead(following, {alarm})'
    <3>1. following \in OnRing' => \A S \in SUBSET Nodes : following \in S /\ ClosedBut(next', {Head}, S)
            => \A b \in registered' \ {alarm} : time'[b] <= nticks' => b \in S
      BY <1>1, <1>2, <2>0, StopAhead
    <3> QED
      BY <1>1, <3>1 DEF Ahead, ClosedBut
  <2>5. WalkInv'
    BY <1>1, <2>1, <2>3, <2>4 DEF WalkInv
  <2> QED
    BY <2>1, <2>2, <2>5 DEF IInv
<1>4. ASSUME NEW n \in Delays, CallbackStart(a, n) PROVE IInv'
  <2>0. Start(a, n)
    BY <1>4 DEF CallbackStart
  <2>1. /\ registered' = registered \cup {a} /\ LinkInv'
        /\ next' \in [Nodes -> Nodes \cup {Nil}] /\ previous' \in [Nodes -> Nodes \cup {Nil}]
        /\ time' \in [Alarms -> Nat] /\ time'[a] > nticks
        /\ \A b \in Alarms \ {a} : time'[b] = time[b]
    BY <1>1, <2>0, StartLinks
  <2>2. TypeOK'
    BY <1>1, <2>1 DEF TypeOK
  <2>3. time'[a] >= nticks /\ \A b \in Alarms : time[b] >= nticks => time'[b] >= nticks
    BY <1>2, <2>1
  <2>4. Place(alarm)' /\ Place(following)'
    <3>1. next'[alarm] # Nil /\ next'[following] # Nil
      BY <1>1, <1>2, <2>0, NeverNil DEF Place
    <3>2. following # Head => following \in Alarms
      BY <1>2 DEF Nodes
    <3> QED
      BY <1>1, <1>2, <2>3, <3>1, <3>2 DEF Place
  <2>5. Ahead(following, {alarm})'
    <3>1. following \in OnRing' => \A S \in SUBSET Nodes : following \in S /\ ClosedBut(next', {Head}, S)
            => \A b \in registered' \ {alarm} : time'[b] <= nticks' => b \in S
      BY <1>1, <1>2, <2>0, StartAhead
    <3> QED
      BY <1>1, <3>1 DEF Ahead, ClosedBut
  <2>6. \A b \in registered' : time'[b] >= nticks'
    BY <1>1, <1>2, <2>1, <2>3
  <2>7. WalkInv'
    BY <1>1, <2>4, <2>5, <2>6 DEF WalkInv
  <2> QED
    BY <2>1, <2>2, <2>7 DEF IInv
<1> QED
  BY <1>3, <1>4

\* A callback returns: its alarm is taken off or given its next time.
LEMMA ReturnIInv == IInv /\ Return => IInv'
<1> SUFFICES ASSUME IInv, Return PROVE IInv'
  OBVIOUS
<1>1. /\ pc = "callback" /\ pc' = "walk" /\ alarm' = following
      /\ UNCHANGED <<nticks, following, ops>>
      /\ TypeOK /\ LinkInv /\ alarm # Head /\ Place(alarm) /\ Place(following)
      /\ Ahead(following, {alarm}) /\ \A b \in registered : time[b] >= nticks
  BY DEF Return, ReturnZero, ReturnPeriod, Resume, IInv, WalkInv
<1>2. /\ nticks \in Nat /\ time \in [Alarms -> Nat] /\ registered \subseteq Alarms
      /\ alarm \in Alarms /\ following \in Nodes /\ alarm \in Nodes
  BY <1>1 DEF TypeOK, Nodes
<1>3. CASE ReturnZero
  <2>0. Stop(alarm)
    BY <1>3 DEF ReturnZero
  <2>1. /\ registered' = registered \ {alarm} /\ time' = time /\ LinkInv'
        /\ next' \in [Nodes -> Nodes \cup {Nil}] /\ previous' \in [Nodes -> Nodes \cup {Nil}]
    BY <1>1, <1>2, <2>0, StopLinks
  <2>2. TypeOK'
    BY <1>1, <2>1 DEF TypeOK
  <2>3. Place(alarm)'
    <3>1. next'[following] # Nil
      BY <1>1, <1>2, <2>0, NeverNil DEF Place
    <3> QED
      BY <1>1, <2>1, <3>1 DEF Place
  <2>4. Ahead(alarm, {})'
    <3>1. following \in OnRing' => \A S \in SUBSET Nodes : following \in S /\ ClosedBut(next', {Head}, S)
            => \A b \in registered' \ {alarm} : time'[b] <= nticks' => b \in S
      BY <1>1, <1>2, <2>0, StopAhead
    <3>2. registered' \ {alarm} = registered'
      BY <2>1
    <3> QED
      BY <1>1, <3>1, <3>2 DEF Ahead, ClosedBut
  <2>5. WalkInv'
    BY <1>1, <2>1, <2>3, <2>4 DEF WalkInv
  <2> QED
    BY <2>1, <2>2, <2>5 DEF IInv
<1>4. ASSUME NEW n \in Periods, ReturnPeriod(n) PROVE IInv'
  <2>1. /\ UNCHANGED <<next, previous, registered>>
        /\ time' = [time EXCEPT ![alarm] = time[alarm] + n] /\ n \in Nat /\ n > 0
    BY <1>4 DEF ReturnPeriod, Rearmed, links
  <2>2. time[alarm] >= nticks
    BY <1>1 DEF Place
  <2>3. /\ time' \in [Alarms -> Nat] /\ time'[alarm] > nticks
        /\ \A b \in Alarms \ {alarm} : time'[b] = time[b]
    <3>1. time[alarm] \in Nat /\ time[alarm] + n \in Nat /\ time[alarm] + n > nticks
      BY <1>2, <2>1, <2>2
    <3> QED
      BY <1>2, <2>1, <3>1
  <2>4. TypeOK'
    BY <1>1, <2>1, <2>3 DEF TypeOK
  <2>5. LinkInv'
    BY <1>1, <2>1 DEF LinkInv, TwoWay, OffList, OneLap, OnRing
  <2>6. \A b \in Alarms : time[b] >= nticks => time'[b] >= nticks
    BY <1>2, <2>3
  <2>7. Place(alarm)'
    <3>1. following # Head => following \in Alarms
      BY <1>2 DEF Nodes
    <3> QED
      BY <1>1, <2>1, <2>6, <3>1 DEF Place
  <2>8. \A b \in registered : time'[b] <= nticks => b # alarm /\ time[b] <= nticks
    BY <1>2, <2>3
  <2>9. Ahead(alarm, {})'
    <3>1. ASSUME following \in OnRing, NEW S \in SUBSET Nodes, following \in S,
                 ClosedBut(next, {Head}, S), NEW b \in registered, time'[b] <= nticks
          PROVE  b \in S
      BY <1>1, <2>8, <3>1 DEF Ahead
    <3> QED
      BY <1>1, <2>1, <3>1 DEF Ahead, OnRing, ClosedBut
  <2>10. \A b \in registered' : time'[b] >= nticks'
    BY <1>1, <1>2, <2>1, <2>6
  <2>11. WalkInv'
    BY <1>1, <2>7, <2>9, <2>10 DEF WalkInv
  <2> QED
    BY <2>4, <2>5, <2>11 DEF IInv
<1> QED
  BY <1>3, <1>4 DEF Return

\* The list and the walk stay in order under every step.
LEMMA IInvCorrect == Spec => []IInv
<1>1. IInv /\ [Next]_vars => IInv'
  <2> SUFFICES ASSUME IInv, [Next]_vars PROVE IInv'
    OBVIOUS
  <2>1. CASE UNCHANGED vars
    BY <2>1 DEF vars, links, walk, IInv, TypeOK, LinkInv, TwoWay, OffList, OneLap, OnRing,
      ClosedBut, WalkInv, Ahead, Place
  <2>2. CASE Next
    BY <2>2, ThreadIInv, CallbackIInv, TickIInv, WalkIInv, ReturnIInv DEF Next
  <2> QED
    BY <2>1, <2>2
<1> QED
  BY <1>1, InitIInv, PTL DEF Spec

-----------------------------------------------------------------------------
\* alt_llist_insert() and alt_llist_remove() keep the list a ring of exactly
\* the registered alarms, whatever starts and stops threads and callbacks
\* make, second stops and stops from the alarm's own callback included.
THEOREM ListStaysWhole == Spec => []ListOK
<1>1. IInv => ListOK
  <2> SUFFICES ASSUME IInv PROVE ListOK
    OBVIOUS
  <2>1. Closed(OnRing) /\ OnRing \in SUBSET Nodes /\ Head \in OnRing
    BY DEF IInv, LinkInv, TwoWay, Closed, OnRing, TypeOK, Nodes
  <2>2. \A S \in SUBSET Nodes : Head \in S /\ Closed(S) => OnRing \subseteq S
    BY DEF IInv, LinkInv, OneLap, Closed, ClosedBut
  <2>3. OnList = OnRing
    BY <2>1, <2>2 DEF OnList
  <2>4. \A n \in OnRing : previous[next[n]] = n /\ next[previous[n]] = n
    BY DEF IInv, LinkInv, TwoWay
  <2> QED
    BY <2>1, <2>3, <2>4 DEF ListOK, OnRing
<1> QED
  BY <1>1, IInvCorrect, PTL

\* alt_tick() leaves no alarm behind: when a walk has ended every registered
\* alarm is still to come, whatever the callbacks started, stopped or rearmed.
THEOREM NoAlarmMissed == Spec => []NonePassed
<1>1. IInv => NonePassed
  BY DEF IInv, WalkInv, NonePassed
<1> QED
  BY <1>1, IInvCorrect, PTL

\* alt_tick() runs a callback in the tick its alarm is due and in no other,
\* also where a callback made the walk start over.
THEOREM CalledOnTime == Spec => OnTime
<1>1. IInv /\ [Next]_vars => [pc = "walk" /\ pc' = "callback" => time[alarm] = nticks]_vars
  <2> SUFFICES ASSUME IInv, [Next]_vars, pc = "walk", pc' = "callback"
               PROVE  time[alarm] = nticks
    BY DEF vars
  <2>1. WalkCall
    <3>1. ~UNCHANGED vars
      BY DEF vars, walk
    <3>2. ~Tick /\ ~Return /\ ~WalkEnd /\ ~WalkPast
      BY DEF Tick, Return, ReturnZero, ReturnPeriod, WalkEnd, WalkPast
    <3>3. \A a \in Alarms : /\ ~ThreadStop(a) /\ ~CallbackStop(a)
                            /\ \A n \in Delays : ~ThreadStart(a, n) /\ ~CallbackStart(a, n)
      BY DEF ThreadStop, CallbackStop, ThreadStart, CallbackStart, InCallback
    <3> QED
      BY <3>1, <3>2, <3>3 DEF Next, Walk
  <2>2. time[alarm] <= nticks /\ alarm # Head
    BY <2>1 DEF WalkCall, Due
  <2>3. time[alarm] >= nticks
    BY <2>2 DEF IInv, WalkInv, Place
  <2>4. time[alarm] \in Nat /\ nticks \in Nat
    BY <2>2 DEF IInv, TypeOK, Nodes
  <2> QED
    BY <2>2, <2>3, <2>4
<1> QED
  BY <1>1, IInvCorrect, PTL DEF Spec, OnTime

\* A walk that no callback takes the next alarm away from stays on the ring.
LEMMA FollowsStep == IInv /\ Follows /\ MayStopNext = FALSE /\ [Next]_vars => Follows'
<1> SUFFICES ASSUME IInv, Follows, MayStopNext = FALSE, [Next]_vars PROVE Follows'
  OBVIOUS
<1>0. /\ TypeOK /\ LinkInv /\ OnRing \subseteq Nodes /\ Head \in OnRing
      /\ \A n \in OnRing : next[n] \in OnRing
  BY DEF IInv, LinkInv, TwoWay, OnRing, TypeOK, Nodes
<1>1. CASE UNCHANGED vars
  BY <1>1 DEF vars, walk, Follows, OnRing
<1>2. ASSUME NEW a \in Alarms, ThreadStop(a) \/ \E n \in Delays : ThreadStart(a, n)
      PROVE  Follows'
  BY <1>2 DEF ThreadStop, ThreadStart, walk, Follows
<1>3. ASSUME NEW a \in Alarms, CallbackStop(a) PROVE Follows'
  <2>1. /\ pc = "callback" /\ UNCHANGED <<pc, alarm, following>> /\ a # following
        /\ registered' = registered \ {a}
    BY <1>3 DEF CallbackStop, InCallback, Stop
  <2> QED
    BY <2>1 DEF Follows, OnRing
<1>4. ASSUME NEW a \in Alarms, NEW n \in Delays, CallbackStart(a, n) PROVE Follows'
  <2>1. /\ pc = "callback" /\ UNCHANGED <<pc, alarm, following>>
        /\ registered' = registered \cup {a}
    BY <1>4 DEF CallbackStart, InCallback, Start
  <2> QED
    BY <2>1 DEF Follows, OnRing
<1>5. CASE Tick
  BY <1>0, <1>5 DEF Tick, links, Follows, OnRing
<1>6. CASE Walk
  <2>1. CASE WalkEnd
    BY <2>1 DEF WalkEnd, Follows
  <2>2. CASE WalkPast
    BY <1>0, <2>2 DEF WalkPast, Follows, OnRing
  <2>3. CASE WalkCall
    <3>1. alarm \in registered /\ following' = next[alarm] /\ alarm' = alarm
          /\ pc' = "callback" /\ registered' = registered
      BY <2>3 DEF WalkCall, Follows, OnRing
    <3>2. next[alarm] # alarm
      BY <1>0, <3>1, NoSelf
    <3> QED
      BY <1>0, <3>1, <3>2 DEF Follows, OnRing
  <2> QED
    BY <1>6, <2>1, <2>2, <2>3 DEF Walk
<1>7. CASE Return
  <2>1. CASE ReturnZero
    <3>1. /\ pc = "callback" /\ pc' = "walk" /\ alarm' = following
          /\ registered' = registered \ {alarm}
      BY <2>1 DEF ReturnZero, Resume, Stop
    <3> QED
      BY <3>1 DEF Follows, OnRing
  <2>2. CASE \E n \in Periods : ReturnPeriod(n)
    BY <2>2 DEF ReturnPeriod, Resume, Follows, OnRing
  <2> QED
    BY <1>7, <2>1, <2>2 DEF Return
<1> QED
  BY <1>1, <1>2, <1>3, <1>4, <1>5, <1>6, <1>7 DEF Next

\* Where no callback stops the alarm that follows its own, alt_tick() calls no
\* stopped alarm: the one stop it does not survive is that of the alarm whose
\* address it has already read.
THEOREM OnlyNextIsUnsafe == ASSUME MayStopNext = FALSE PROVE Spec => StopIsFinal
<1>1. Init => Follows
  BY DEF Init, Follows
<1>2. IInv /\ Follows /\ [Next]_vars => Follows'
  BY FollowsStep
<1>3. IInv /\ Follows /\ [Next]_vars
        => [pc = "walk" /\ pc' = "callback" => alarm \in registered]_vars
  <2> SUFFICES ASSUME IInv, Follows, [Next]_vars, pc = "walk", pc' = "callback"
               PROVE  alarm \in registered
    BY DEF vars
  <2>1. alarm # Head
    <3>1. ~UNCHANGED vars
      BY DEF vars, walk
    <3>2. ~Tick /\ ~Return /\ ~WalkEnd /\ ~WalkPast
      BY DEF Tick, Return, ReturnZero, ReturnPeriod, WalkEnd, WalkPast
    <3>3. \A a \in Alarms : /\ ~ThreadStop(a) /\ ~CallbackStop(a)
                            /\ \A n \in Delays : ~ThreadStart(a, n) /\ ~CallbackStart(a, n)
      BY DEF ThreadStop, CallbackStop, ThreadStart, CallbackStart, InCallback
    <3> QED
      BY <3>1, <3>2, <3>3 DEF Next, Walk, WalkCall
  <2> QED
    BY <2>1 DEF Follows, OnRing
<1> QED
  BY <1>1, <1>2, <1>3, IInvCorrect, PTL DEF Spec, StopIsFinal
=============================================================================
