-------------------------- MODULE SystemTimeProofs --------------------------
(***************************************************************************)
(* For words, periods and rates of any size and any calls of the program:  *)
(* times read in two words are never torn, a deadline half written never   *)
(* fires, one is always armed, and ticks are never too many; sleeps last,  *)
(* the blinker keeps time, and the time of day is the one set plus the     *)
(* ticks since.                                                            *)
(***************************************************************************)
EXTENDS SystemTime, TLAPS

Reads == {"getHigh", "getLow", "getCheck"}
Sets == {"setMask", "setLow", "setHigh"}

TimerType ==
  /\ mtime \in 0 .. MaxTime
  /\ cmpHigh \in Nat /\ cmpLow \in Nat
  /\ nticks \in Nat /\ due \in Nat /\ start \in Nat
  /\ pc \in [Contexts -> MainSteps \cup IsrSteps]
  /\ high \in [Contexts -> Nat] /\ low \in [Contexts -> Nat] /\ since \in [Contexts -> Nat]

\* Start-up is over before the first interrupt, and the program never sets a
\* deadline afterwards.
Phases ==
  /\ booted \in {0, 1} /\ enabled = booted
  /\ booted = 0 => /\ pc["isr"] = "idle" /\ nticks = 0
                   /\ pc["main"] \in Reads \cup Sets \cup {"enable"}
  /\ booted = 1 => pc["main"] \notin Sets \cup {"enable"}
  /\ pc["isr"] \in IsrSteps

\* The words read so far are those of moments since the call, in this order.
Reading(c) ==
  /\ pc[c] \in {"getHigh", "getLow"} => since[c] <= mtime
  /\ pc[c] = "getLow" => high[c] <= High(mtime)
  /\ pc[c] = "getCheck" =>
       \E t \in since[c] .. mtime : low[c] = Low(t) /\ high[c] <= High(t)

Readings == \A c \in Contexts : Reading(c)

\* mtimecmp is whole, or out of reach with the rest of the deadline to come.
Armed ==
  /\ \A c \in Contexts :
       /\ pc[c] \in {"setLow", "setHigh"} => cmpHigh = MaxWord
       /\ pc[c] = "setHigh" => cmpLow = Low(due)
  /\ pc["main"] = "enable" \/ (booted = 1 /\ pc["isr"] \notin Sets)
       => Joined(cmpHigh, cmpLow) = due
  /\ due <= mtime + Delta

\* The periods counted since start, and the one that is due next.
Counted == start + nticks * Delta
Counting ==
  /\ pc["main"] \in Sets \cup {"enable"} => due = start + Delta /\ start <= mtime
  /\ booted = 1 =>
       /\ pc["isr"] = "idle" => Counted + Delta <= due /\ Counted <= mtime
       /\ pc["isr"] \in Reads => Counted + Delta <= since["isr"] /\ since["isr"] <= mtime
       /\ pc["isr"] \in Sets \cup {"tick"} =>
            Counted + Delta + Delta <= due /\ Counted + Delta <= mtime

Inv == TimerType /\ Phases /\ Readings /\ Armed /\ Counting

-----------------------------------------------------------------------------
(* Words.                                                                  *)

\* A time is put together again from its words.
LEMMA Words ==
  ASSUME NEW v \in Nat
  PROVE  High(v) \in Nat /\ Low(v) \in 0 .. Base - 1 /\ v = Joined(High(v), Low(v))
BY SizesAssumption, SMT DEF High, Low, Joined

LEMMA Multiples ==
  ASSUME NEW s \in Nat \ {0}, NEW q \in Nat, NEW c \in Nat, q < c
  PROVE  q * s + s <= c * s
BY SMT

\* The high word of a later time is no smaller.
LEMMA HighGrows ==
  ASSUME NEW u \in Nat, NEW v \in Nat, u <= v
  PROVE  High(u) <= High(v)
<1> DEFINE q == High(u)  c == High(v)  r == Low(u)  p == Low(v)
<1>1. q \in Nat /\ c \in Nat /\ r \in 0 .. Base - 1 /\ p \in 0 .. Base - 1
      /\ u = q * Base + r /\ v = c * Base + p
  BY Words DEF Joined
<1> HIDE DEF q, c, r, p
<1> SUFFICES ASSUME c < q PROVE FALSE
  BY <1>1 DEF q, c
<1>2. c * Base + Base <= q * Base
  BY <1>1, Multiples, SizesAssumption
<1>3. c * Base \in Nat /\ q * Base \in Nat
  BY <1>1, SizesAssumption, SMT
<1> QED BY <1>1, <1>2, <1>3, SizesAssumption

\* A time that is not torn is the time of one moment since the call.
LEMMA Whole ==
  ASSUME Inv, NEW c \in Contexts, pc[c] = "getCheck", ~Torn(c)
  PROVE  Got(c) \in Nat /\ since[c] <= Got(c) /\ Got(c) <= mtime
<1>1. PICK t \in since[c] .. mtime : low[c] = Low(t) /\ high[c] <= High(t)
  BY DEF Inv, Readings, Reading
<1>2. t \in Nat /\ mtime \in Nat /\ since[c] \in Nat /\ high[c] \in Nat
  BY SizesAssumption DEF Inv, TimerType
<1>3. High(t) <= High(mtime) /\ High(t) \in Nat
  BY <1>1, <1>2, HighGrows, Words
<1>4. high[c] = High(t)
  BY <1>1, <1>2, <1>3 DEF Torn
<1>5. Got(c) = t
  BY <1>1, <1>2, <1>4, Words DEF Got
<1> QED BY <1>1, <1>2, <1>5

\* With its high word masked mtimecmp is out of reach.
LEMMA OutOfReach ==
  ASSUME TimerType, cmpHigh = MaxWord
  PROVE  ~Pending
<1> DEFINE m == (Base - 1) * Base
<1>1. m \in Nat /\ MaxTime + Delta < m BY SizesAssumption, SMT
<1>2. Joined(cmpHigh, cmpLow) = m + cmpLow BY DEF Joined, MaxWord
<1> HIDE DEF m
<1> QED BY <1>1, <1>2, SizesAssumption DEF Pending, TimerType

-----------------------------------------------------------------------------
(* The timer and its handler: every step preserves Inv.                    *)

LEMMA InitInv == SysInit => Inv
<1> SUFFICES ASSUME SysInit PROVE Inv OBVIOUS
<1>1. /\ pc = [c \in Contexts |-> IF c = "main" THEN "getHigh" ELSE "idle"]
      /\ pc["main"] = "getHigh" /\ pc["isr"] = "idle"
  BY DEF SysInit, Init, Contexts
<1>2. TimerType
  BY <1>1, SizesAssumption DEF SysInit, Init, TimerType, Contexts, MainSteps, IsrSteps, MaxWord
<1> QED
  BY <1>1, <1>2, SizesAssumption
  DEF SysInit, Init, Inv, Phases, Readings, Reading, Armed, Counting, Contexts, Reads, Sets, IsrSteps

\* The periods counted are a number, and a tick adds one.
LEMMA CountedType ==
  ASSUME Inv
  PROVE  Counted \in Nat /\ start + (nticks + 1) * Delta = Counted + Delta
<1>1. nticks \in Nat /\ start \in Nat /\ Delta \in Nat
  BY SizesAssumption DEF Inv, TimerType
<1>2. nticks * Delta \in Nat /\ (nticks + 1) * Delta = nticks * Delta + Delta
  BY <1>1, SMT
<1> QED BY <1>1, <1>2 DEF Counted

LEMMA ElapseStep == Inv /\ Elapse => Inv'
<1> SUFFICES ASSUME Inv, Elapse PROVE Inv' OBVIOUS
<1>0. mtime \in Nat /\ mtime' = mtime + 1 /\ mtime' \in 0 .. MaxTime
  BY SizesAssumption DEF Inv, TimerType, Elapse
<1>1. UNCHANGED <<cmpHigh, cmpLow, enabled, nticks, booted, pc, high, low, since, due, start>>
  BY DEF Elapse, software, frames, ghosts
<1>2. High(mtime) <= High(mtime') /\ High(mtime) \in Nat /\ High(mtime') \in Nat
  BY <1>0, HighGrows, Words
<1>3. TimerType' BY <1>0, <1>1 DEF Inv, TimerType
<1>4. Phases' BY <1>1 DEF Inv, Phases
<1>5. Readings'
  <2> SUFFICES ASSUME NEW c \in Contexts PROVE Reading(c)' BY DEF Readings
  <2>1. Reading(c) /\ since[c] \in Nat /\ high[c] \in Nat BY DEF Inv, Readings, TimerType
  <2>2. since[c] .. mtime \subseteq since[c] .. mtime' BY <1>0, <2>1
  <2> QED BY <1>0, <1>1, <1>2, <2>1, <2>2 DEF Reading, High
<1>6. Armed' BY <1>0, <1>1, SizesAssumption DEF Inv, TimerType, Armed
<1>7. Counting'
  <2>1. Counted' = Counted BY <1>1 DEF Counted
  <2>2. Counted \in Nat /\ Delta \in Nat /\ start \in Nat /\ due \in Nat /\ since["isr"] \in Nat
    BY CountedType, SizesAssumption DEF Inv, TimerType, Contexts
  <2> HIDE DEF Counted
  <2>3. Counting BY DEF Inv
  <2> QED BY <1>0, <1>1, <2>1, <2>2, <2>3 DEF Counting
<1> QED BY <1>3, <1>4, <1>5, <1>6, <1>7 DEF Inv

\* Where a context is after a step of it; the other stays where it was.
LEMMA Hop ==
  ASSUME TimerType, NEW c \in Contexts, NEW there \in MainSteps \cup IsrSteps, Goto(c, there)
  PROVE  /\ pc' \in [Contexts -> MainSteps \cup IsrSteps]
         /\ pc'[c] = there
         /\ \A d \in Contexts : d # c => pc'[d] = pc[d]
BY DEF TimerType, Goto

\* A step of a context within a phase leaves phases and counts as they are.
LEMMA SamePhase ==
  ASSUME Inv, NEW c \in Contexts, NEW there, Goto(c, there),
         \/ pc[c] \in Reads /\ there \in Reads
         \/ pc[c] \in {"setMask", "setLow"} /\ there \in {"setLow", "setHigh"},
         UNCHANGED <<mtime, enabled, booted, nticks, due, start, since>>
  PROVE  Phases' /\ Counting' /\ pc' \in [Contexts -> MainSteps \cup IsrSteps]
<1>1. there \in MainSteps \cup IsrSteps /\ TimerType
  BY DEF Inv, MainSteps, IsrSteps, Reads
<1>2. /\ pc' \in [Contexts -> MainSteps \cup IsrSteps] /\ pc'[c] = there
      /\ \A d \in Contexts : d # c => pc'[d] = pc[d]
  BY <1>1, Hop
<1>3. \A d \in Contexts :
        /\ pc[d] = pc'[d] \/ (pc[d] \in Reads /\ pc'[d] \in Reads)
           \/ (pc[d] \in Sets /\ pc'[d] \in Sets)
  BY <1>2 DEF Sets
<1>4. Counted' = Counted BY DEF Counted
<1>5. Phases' BY <1>3 DEF Inv, Phases, Contexts, Reads, Sets, IsrSteps
<1>6. Counting' BY <1>3, <1>4 DEF Inv, Counting, Contexts, Reads, Sets
<1> QED BY <1>2, <1>5, <1>6

\* A step that leaves mtimecmp alone and starts or ends no setting of it keeps it armed.
LEMMA StillArmed ==
  ASSUME Inv, NEW c \in Contexts, NEW there \in Reads, Goto(c, there), pc[c] \in Reads,
         UNCHANGED <<mtime, cmpHigh, cmpLow, booted, due>>
  PROVE  Armed'
<1>1. there \in MainSteps \cup IsrSteps /\ TimerType
  BY DEF Inv, MainSteps, IsrSteps, Reads
<1>2. pc'[c] = there /\ \A d \in Contexts : d # c => pc'[d] = pc[d]
  BY <1>1, Hop
<1> QED BY <1>2 DEF Inv, Armed, Joined, Low, Contexts, Reads, Sets

LEMMA GetHighStep == ASSUME Inv, NEW c \in Contexts, GetHigh(c) PROVE Inv'
<1>1. /\ UNCHANGED <<mtime, cmpHigh, cmpLow, enabled, nticks, booted, low, since, due, start>>
      /\ pc[c] = "getHigh" /\ Goto(c, "getLow") /\ high' = [high EXCEPT ![c] = High(mtime)]
  BY DEF GetHigh, At, device, software, ghosts
<1>2. TimerType /\ mtime \in Nat /\ High(mtime) \in Nat
  BY Words, SizesAssumption DEF Inv, TimerType
<1>3. Phases' /\ Counting' /\ pc' \in [Contexts -> MainSteps \cup IsrSteps]
  BY <1>1, SamePhase DEF Reads
<1>4. Armed' BY <1>1, StillArmed DEF Reads
<1>5. pc'[c] = "getLow" /\ \A d \in Contexts : d # c => pc'[d] = pc[d]
  BY <1>1, <1>2, Hop DEF MainSteps
<1>6. TimerType' BY <1>1, <1>2, <1>3 DEF TimerType
<1>7. Readings'
  <2> SUFFICES ASSUME NEW d \in Contexts PROVE Reading(d)' BY DEF Readings
  <2>1. Reading(d) /\ Reading(c) BY DEF Inv, Readings
  <2>2. CASE d = c BY <1>1, <1>2, <1>5, <2>1, <2>2 DEF Reading, TimerType
  <2>3. CASE d # c
    <3>1. high'[d] = high[d] BY <1>1, <1>2, <2>3 DEF TimerType
    <3> QED BY <1>1, <1>5, <2>1, <2>3, <3>1 DEF Reading, High, Low
  <2> QED BY <2>2, <2>3
<1> QED BY <1>3, <1>4, <1>6, <1>7 DEF Inv

LEMMA GetLowStep == ASSUME Inv, NEW c \in Contexts, GetLow(c) PROVE Inv'
<1>1. /\ UNCHANGED <<mtime, cmpHigh, cmpLow, enabled, nticks, booted, high, since, due, start>>
      /\ pc[c] = "getLow" /\ Goto(c, "getCheck") /\ low' = [low EXCEPT ![c] = Low(mtime)]
  BY DEF GetLow, At, device, software, ghosts
<1>2. TimerType /\ mtime \in Nat /\ Low(mtime) \in Nat
  BY Words, SizesAssumption DEF Inv, TimerType
<1>3. Phases' /\ Counting' /\ pc' \in [Contexts -> MainSteps \cup IsrSteps]
  BY <1>1, SamePhase DEF Reads
<1>4. Armed' BY <1>1, StillArmed DEF Reads
<1>5. pc'[c] = "getCheck" /\ \A d \in Contexts : d # c => pc'[d] = pc[d]
  BY <1>1, <1>2, Hop DEF MainSteps
<1>6. TimerType' BY <1>1, <1>2, <1>3 DEF TimerType
<1>7. Readings'
  <2> SUFFICES ASSUME NEW d \in Contexts PROVE Reading(d)' BY DEF Readings
  <2>1. Reading(d) /\ Reading(c) BY DEF Inv, Readings
  <2>2. CASE d = c
    <3>1. mtime \in since[c] .. mtime /\ low'[c] = Low(mtime) /\ high[c] <= High(mtime)
      BY <1>1, <1>2, <2>1 DEF Reading, TimerType
    <3> QED BY <1>1, <1>5, <2>2, <3>1 DEF Reading, High, Low
  <2>3. CASE d # c
    <3>1. low'[d] = low[d] BY <1>1, <1>2, <2>3 DEF TimerType
    <3> QED BY <1>1, <1>5, <2>1, <2>3, <3>1 DEF Reading, High, Low
  <2> QED BY <2>2, <2>3
<1> QED BY <1>3, <1>4, <1>6, <1>7 DEF Inv

LEMMA GetAgainStep == ASSUME Inv, NEW c \in Contexts, GetAgain(c) PROVE Inv'
<1>1. /\ UNCHANGED <<mtime, cmpHigh, cmpLow, enabled, nticks, booted, high, low, since, due, start>>
      /\ pc[c] = "getCheck" /\ Goto(c, "getHigh")
  BY DEF GetAgain, At, device, software, ghosts
<1>2. TimerType BY DEF Inv
<1>3. Phases' /\ Counting' /\ pc' \in [Contexts -> MainSteps \cup IsrSteps]
  BY <1>1, SamePhase DEF Reads
<1>4. Armed' BY <1>1, StillArmed DEF Reads
<1>5. pc'[c] = "getHigh" /\ \A d \in Contexts : d # c => pc'[d] = pc[d]
  BY <1>1, <1>2, Hop DEF MainSteps
<1>6. TimerType' BY <1>1, <1>2, <1>3 DEF TimerType
<1>7. Readings'
  <2> SUFFICES ASSUME NEW d \in Contexts PROVE Reading(d)' BY DEF Readings
  <2>1. Reading(d) /\ Reading(c) BY DEF Inv, Readings
  <2>2. CASE d = c
    <3>1. since[c] <= mtime BY <1>1, <1>2, <2>1, SizesAssumption DEF Reading, TimerType
    <3> QED BY <1>1, <1>5, <2>2, <3>1 DEF Reading
  <2>3. CASE d # c BY <1>1, <1>5, <2>1, <2>3 DEF Reading, High, Low
  <2> QED BY <2>2, <2>3
<1> QED BY <1>3, <1>4, <1>6, <1>7 DEF Inv

LEMMA GetScheduleStep == ASSUME Inv, NEW c \in Contexts, GetSchedule(c) PROVE Inv'
<1>1. /\ UNCHANGED <<mtime, cmpHigh, cmpLow, enabled, nticks, booted>>
      /\ pc[c] = "getCheck" /\ Goto(c, "setMask") /\ ~Torn(c) /\ Forget(c)
      /\ due' = Got(c) + Delta /\ start' = IF c = "main" THEN Got(c) ELSE start
      /\ c = "main" => booted = 0
  BY DEF GetSchedule, At, device, software, Deadline
<1>2. TimerType BY DEF Inv
<1>3. Got(c) \in Nat /\ since[c] <= Got(c) /\ Got(c) <= mtime
  BY <1>1, Whole
<1>4. /\ pc' \in [Contexts -> MainSteps \cup IsrSteps] /\ pc'[c] = "setMask"
      /\ \A d \in Contexts : d # c => pc'[d] = pc[d]
  BY <1>1, <1>2, Hop DEF MainSteps
<1>5. \/ /\ c = "main" /\ booted = 0 /\ pc["isr"] = "idle" /\ pc'["isr"] = "idle"
         /\ nticks = 0 /\ start' = Got(c) /\ pc'["main"] = "setMask"
      \/ /\ c = "isr" /\ booted = 1 /\ pc["isr"] = "getCheck" /\ pc'["isr"] = "setMask"
         /\ start' = start /\ pc["main"] \notin Sets \cup {"enable"} /\ pc'["main"] = pc["main"]
  BY <1>1, <1>4 DEF Inv, Phases, Contexts
<1>6. TimerType'
  <2>1. high' \in [Contexts -> Nat] /\ low' \in [Contexts -> Nat] /\ since' \in [Contexts -> Nat]
    BY <1>1, <1>2 DEF Forget, TimerType
  <2>2. due' \in Nat /\ start' \in Nat BY <1>1, <1>2, <1>3, SizesAssumption DEF TimerType
  <2> QED BY <1>1, <1>2, <1>4, <2>1, <2>2 DEF TimerType
<1>7. Phases' BY <1>1, <1>5 DEF Inv, Phases, Reads, Sets, IsrSteps
<1>8. Readings'
  <2> SUFFICES ASSUME NEW d \in Contexts PROVE Reading(d)' BY DEF Readings
  <2>1. Reading(d) BY DEF Inv, Readings
  <2>2. CASE d = c BY <1>4, <2>2 DEF Reading
  <2>3. CASE d # c
    <3>1. high'[d] = high[d] /\ low'[d] = low[d] /\ since'[d] = since[d]
      BY <1>1, <1>2, <2>3 DEF TimerType, Forget
    <3> QED BY <1>1, <1>4, <2>1, <2>3, <3>1 DEF Reading, High, Low
  <2> QED BY <2>2, <2>3
<1>9. Armed'
  <2>1. due' <= mtime' + Delta
    BY <1>1, <1>2, <1>3, SizesAssumption DEF TimerType
  <2> QED BY <1>1, <1>5, <2>1 DEF Armed, Contexts, Sets
<1>10. Counting'
  <2>1. Counted \in Nat /\ mtime \in Nat /\ Delta \in Nat
    BY CountedType, <1>2, SizesAssumption DEF TimerType
  <2>2. CASE c = "main" BY <1>1, <1>3, <1>5, <2>1, <2>2 DEF Counting
  <2>3. CASE c = "isr"
    <3>1. Counted' = Counted BY <1>1, <1>5, <2>3 DEF Counted
    <3>2. Counted + Delta <= since[c] /\ since[c] \in Nat
      BY <1>1, <1>2, <1>5, <2>3 DEF Inv, Counting, Reads, TimerType
    <3> HIDE DEF Counted
    <3> QED BY <1>1, <1>3, <1>5, <2>1, <2>3, <3>1, <3>2 DEF Counting, Reads, Sets
  <2> QED BY <2>2, <2>3 DEF Contexts
<1> QED BY <1>6, <1>7, <1>8, <1>9, <1>10 DEF Inv

\* Who sets the deadline: the program at start-up, the handler from then on.
LEMMA Setting ==
  ASSUME Inv, NEW c \in Contexts, pc[c] \in Sets
  PROVE  \A d \in Contexts : d # c => pc[d] \notin Sets \cup {"enable"}
BY DEF Inv, Phases, Contexts, Sets

\* What a write to mtimecmp leaves alone.
LEMMA SetFrame ==
  ASSUME Inv, NEW c \in Contexts, NEW there \in {"setLow", "setHigh"}, Goto(c, there),
         pc[c] \in {"setMask", "setLow"},
         UNCHANGED <<mtime, enabled, booted, nticks, high, low, since, due, start>>,
         cmpHigh' \in Nat, cmpLow' \in Nat
  PROVE  /\ TimerType' /\ Phases' /\ Readings' /\ Counting'
         /\ pc'[c] = there /\ \A d \in Contexts : d # c => pc'[d] = pc[d]
<1>1. TimerType /\ there \in MainSteps \cup IsrSteps BY DEF Inv, MainSteps
<1>2. Phases' /\ Counting' /\ pc' \in [Contexts -> MainSteps \cup IsrSteps] BY SamePhase
<1>3. pc'[c] = there /\ \A d \in Contexts : d # c => pc'[d] = pc[d] BY <1>1, Hop
<1>4. TimerType' BY <1>1, <1>2 DEF TimerType
<1>5. Readings'
  <2> SUFFICES ASSUME NEW d \in Contexts PROVE Reading(d)' BY DEF Readings
  <2>1. Reading(d) BY DEF Inv, Readings
  <2> QED BY <1>3, <2>1 DEF Reading, High, Low
<1> QED BY <1>2, <1>3, <1>4, <1>5

LEMMA SetMaskStep == ASSUME Inv, NEW c \in Contexts, SetMask(c) PROVE Inv'
<1>1. /\ UNCHANGED <<mtime, cmpLow, enabled, nticks, booted, high, low, since, due, start>>
      /\ pc[c] = "setMask" /\ Goto(c, "setLow") /\ cmpHigh' = MaxWord
  BY DEF SetMask, At, Masked, software, ghosts
<1>2. cmpHigh' \in Nat /\ cmpLow' \in Nat
  BY <1>1, SizesAssumption DEF MaxWord, Inv, TimerType
<1>3. /\ TimerType' /\ Phases' /\ Readings' /\ Counting'
      /\ pc'[c] = "setLow" /\ \A d \in Contexts : d # c => pc'[d] = pc[d]
  BY <1>1, <1>2, SetFrame
<1>4. \A d \in Contexts : d # c => pc[d] \notin Sets \cup {"enable"}
  BY <1>1, Setting DEF Sets
<1>5. c = "main" => booted = 0
  BY <1>1 DEF Inv, Phases, Sets
<1>6. Armed' BY <1>1, <1>3, <1>4, <1>5 DEF Inv, Armed, Contexts, Sets, MaxWord
<1> QED BY <1>3, <1>6 DEF Inv

LEMMA SetLowStep == ASSUME Inv, NEW c \in Contexts, SetLow(c) PROVE Inv'
<1>1. /\ UNCHANGED <<mtime, cmpHigh, enabled, nticks, booted, high, low, since, due, start>>
      /\ pc[c] = "setLow" /\ Goto(c, "setHigh") /\ cmpLow' = Low(due)
  BY DEF SetLow, At, software, ghosts
<1>2. cmpHigh' \in Nat /\ cmpLow' \in Nat
  BY <1>1, Words, SizesAssumption DEF Inv, TimerType
<1>3. /\ TimerType' /\ Phases' /\ Readings' /\ Counting'
      /\ pc'[c] = "setHigh" /\ \A d \in Contexts : d # c => pc'[d] = pc[d]
  BY <1>1, <1>2, SetFrame
<1>4. \A d \in Contexts : d # c => pc[d] \notin Sets \cup {"enable"}
  BY <1>1, Setting DEF Sets
<1>5. c = "main" => booted = 0
  BY <1>1 DEF Inv, Phases, Sets
<1>6. cmpHigh = MaxWord BY <1>1 DEF Inv, Armed
<1>7. Armed' BY <1>1, <1>3, <1>4, <1>5, <1>6 DEF Inv, Armed, Contexts, Sets, MaxWord, Low
<1> QED BY <1>3, <1>7 DEF Inv

LEMMA SetHighStep == ASSUME Inv, NEW c \in Contexts, SetHigh(c) PROVE Inv'
<1> DEFINE there == IF c = "main" THEN "enable" ELSE "tick"
<1>1. /\ UNCHANGED <<mtime, cmpLow, enabled, nticks, booted, high, low, since, due, start>>
      /\ pc[c] = "setHigh" /\ Goto(c, there) /\ cmpHigh' = High(due)
  BY DEF SetHigh, At, software, ghosts, DueHigh
<1>2. TimerType /\ there \in MainSteps \cup IsrSteps BY DEF Inv, MainSteps, IsrSteps
<1>3. /\ pc' \in [Contexts -> MainSteps \cup IsrSteps] /\ pc'[c] = there
      /\ \A d \in Contexts : d # c => pc'[d] = pc[d]
  BY <1>1, <1>2, Hop
<1>4. /\ \A d \in Contexts : d # c => pc[d] \notin Sets \cup {"enable"}
      /\ c = "main" => booted = 0 /\ pc["isr"] = "idle"
      /\ c = "isr" => booted = 1
  BY <1>1, Setting DEF Inv, Phases, Sets, Contexts
<1>5. cmpLow = Low(due) /\ Joined(High(due), Low(due)) = due /\ High(due) \in Nat
  BY <1>1, <1>2, Words DEF Inv, Armed, TimerType
<1>6. TimerType' BY <1>1, <1>2, <1>3, <1>5 DEF TimerType
<1>7. Phases' BY <1>1, <1>3, <1>4 DEF Inv, Phases, Contexts, Reads, Sets, IsrSteps
<1>8. Readings'
  <2> SUFFICES ASSUME NEW d \in Contexts PROVE Reading(d)' BY DEF Readings
  <2>1. Reading(d) BY DEF Inv, Readings
  <2> QED BY <1>1, <1>3, <2>1 DEF Reading, High, Low
<1>9. Armed'
  <2>1. Joined(cmpHigh, cmpLow)' = due' BY <1>1, <1>5 DEF Joined
  <2>2. due' <= mtime' + Delta BY <1>1 DEF Inv, Armed
  <2>3. \A d \in Contexts : pc'[d] \notin {"setLow", "setHigh"} BY <1>3, <1>4 DEF Sets
  <2> QED BY <2>1, <2>2, <2>3 DEF Armed
<1>10. Counting'
  <2>1. Counted' = Counted BY <1>1 DEF Counted
  <2> HIDE DEF Counted
  <2>2. CASE c = "main"
    BY <1>1, <1>3, <1>4, <2>1, <2>2 DEF Inv, Counting, Contexts, Sets
  <2>3. CASE c = "isr"
    BY <1>1, <1>3, <1>4, <2>1, <2>3 DEF Inv, Counting, Contexts, Sets, Reads
  <2> QED BY <2>2, <2>3 DEF Contexts
<1> QED BY <1>6, <1>7, <1>8, <1>9, <1>10 DEF Inv

LEMMA EnableStep == Inv /\ Enable => Inv'
<1> SUFFICES ASSUME Inv, Enable PROVE Inv' OBVIOUS
<1>1. /\ UNCHANGED <<mtime, cmpHigh, cmpLow, nticks, high, low, since, due, start>>
      /\ pc["main"] = "enable" /\ Goto("main", "idle") /\ enabled' = 1 /\ booted' = 1
  BY DEF Enable, At, ghosts
<1>2. TimerType BY DEF Inv
<1>3. /\ pc' \in [Contexts -> MainSteps \cup IsrSteps] /\ pc'["main"] = "idle"
      /\ pc'["isr"] = pc["isr"]
  BY <1>1, <1>2, Hop DEF MainSteps, Contexts
<1>4. booted = 0 /\ pc["isr"] = "idle" /\ nticks = 0
  BY <1>1 DEF Inv, Phases
<1>5. TimerType' BY <1>1, <1>2, <1>3 DEF TimerType
<1>6. Phases' BY <1>1, <1>3, <1>4 DEF Phases, Sets, IsrSteps
<1>7. Readings' BY <1>1, <1>3, <1>4 DEF Readings, Reading, Contexts
<1>8. Armed' BY <1>1, <1>3, <1>4 DEF Inv, Armed, Contexts, Joined
<1>9. Counting'
  <2>1. Counted' = start
    <3>1. 0 * Delta = 0 /\ start \in Nat BY <1>2, SizesAssumption DEF TimerType
    <3> QED BY <1>1, <1>4, <3>1 DEF Counted
  <2> HIDE DEF Counted
  <2> QED BY <1>1, <1>2, <1>3, <1>4, <2>1, SizesAssumption DEF Inv, Counting, Reads, Sets, TimerType
<1> QED BY <1>5, <1>6, <1>7, <1>8, <1>9 DEF Inv

LEMMA InterruptStep == Inv /\ Interrupt => Inv'
<1> SUFFICES ASSUME Inv, Interrupt PROVE Inv' OBVIOUS
<1>1. /\ UNCHANGED <<mtime, cmpHigh, cmpLow, enabled, nticks, booted, high, low, due, start>>
      /\ pc["isr"] = "idle" /\ Goto("isr", "getHigh") /\ enabled = 1 /\ Pending
      /\ since' = [since EXCEPT !["isr"] = mtime]
  BY DEF Interrupt, device, software, ghosts
<1>2. TimerType /\ mtime \in Nat BY SizesAssumption DEF Inv, TimerType
<1>3. /\ pc' \in [Contexts -> MainSteps \cup IsrSteps] /\ pc'["isr"] = "getHigh"
      /\ pc'["main"] = pc["main"]
  BY <1>1, <1>2, Hop DEF MainSteps, Contexts
<1>4. booted = 1 /\ due <= mtime
  BY <1>1 DEF Inv, Phases, Armed, Pending, Sets
<1>5. since' \in [Contexts -> Nat] /\ since'["isr"] = mtime /\ since'["main"] = since["main"]
  BY <1>1, <1>2 DEF TimerType, Contexts
<1>6. TimerType' BY <1>1, <1>2, <1>3, <1>5 DEF TimerType
<1>7. Phases' BY <1>1, <1>3, <1>4 DEF Inv, Phases, Sets, IsrSteps
<1>8. Readings'
  <2>1. Reading("main")
    BY DEF Inv, Readings, Contexts
  <2>2. Reading("main")' BY <1>1, <1>3, <1>5, <2>1 DEF Reading, High, Low
  <2>3. Reading("isr")' BY <1>1, <1>2, <1>3, <1>5 DEF Reading
  <2> QED BY <2>2, <2>3 DEF Readings, Contexts
<1>9. Armed' BY <1>1, <1>3, <1>4 DEF Inv, Armed, Contexts, Joined, Sets, Low
<1>10. Counting'
  <2>1. Counted' = Counted BY <1>1 DEF Counted
  <2>2. Counted \in Nat BY CountedType
  <2>3. Delta \in Nat /\ due \in Nat BY <1>2, SizesAssumption DEF TimerType
  <2> HIDE DEF Counted
  <2> QED BY <1>1, <1>2, <1>3, <1>4, <1>5, <2>1, <2>2, <2>3 DEF Inv, Counting, Reads, Sets
<1> QED BY <1>6, <1>7, <1>8, <1>9, <1>10 DEF Inv

LEMMA TickStep == Inv /\ Tick => Inv'
<1> SUFFICES ASSUME Inv, Tick PROVE Inv' OBVIOUS
<1>1. /\ UNCHANGED <<mtime, cmpHigh, cmpLow, enabled, booted, high, low, since, due, start>>
      /\ pc["isr"] = "tick" /\ Goto("isr", "idle") /\ nticks' = nticks + 1
  BY DEF Tick, device, ghosts
<1>2. TimerType BY DEF Inv
<1>3. /\ pc' \in [Contexts -> MainSteps \cup IsrSteps] /\ pc'["isr"] = "idle"
      /\ pc'["main"] = pc["main"]
  BY <1>1, <1>2, Hop DEF MainSteps, Contexts
<1>4. booted = 1 BY <1>1 DEF Inv, Phases
<1>5. TimerType' BY <1>1, <1>2, <1>3 DEF TimerType
<1>6. Phases' BY <1>1, <1>3, <1>4 DEF Inv, Phases, Sets, IsrSteps
<1>7. Readings'
  <2>1. Reading("main") BY DEF Inv, Readings, Contexts
  <2>2. Reading("main")' BY <1>1, <1>3, <2>1 DEF Reading, High, Low
  <2>3. Reading("isr")' BY <1>3 DEF Reading
  <2> QED BY <2>2, <2>3 DEF Readings, Contexts
<1>8. Armed' BY <1>1, <1>3 DEF Inv, Armed, Contexts, Joined, Sets, Low
<1>9. Counting'
  <2>1. Counted' = Counted + Delta /\ Counted \in Nat
    BY <1>1, CountedType DEF Counted
  <2>2. Delta \in Nat /\ due \in Nat /\ mtime \in Nat BY <1>2, SizesAssumption DEF TimerType
  <2> HIDE DEF Counted
  <2> QED BY <1>1, <1>3, <1>4, <2>1, <2>2 DEF Inv, Counting, Reads, Sets, Phases
<1> QED BY <1>5, <1>6, <1>7, <1>8, <1>9 DEF Inv

-----------------------------------------------------------------------------
(* The program: its calls read the time and leave the timer as it is.      *)

\* What a step of the program may do, whatever it calls.
Harmless ==
  /\ booted = 1 /\ pc["isr"] = "idle"
  /\ UNCHANGED <<mtime, cmpHigh, cmpLow, enabled, nticks, booted, due, start>>
  /\ pc' \in [Contexts -> MainSteps \cup IsrSteps] /\ pc'["isr"] = "idle"
  /\ pc'["main"] \notin Sets \cup {"enable", "getLow", "getCheck"}
  /\ pc'["main"] = "getHigh" => since'["main"] <= mtime
  /\ high' \in [Contexts -> Nat] /\ low' \in [Contexts -> Nat] /\ since' \in [Contexts -> Nat]

\* The program makes its calls only after start-up.
LEMMA Started ==
  ASSUME Inv, pc["main"] \notin Reads \cup Sets \cup {"enable"}
  PROVE  booted = 1
BY DEF Inv, Phases

LEMMA BeginStep ==
  ASSUME Inv, NEW what, NEW argument, NEW first \in {"getHigh", "ticksFirst"}, NEW now \in Nat,
         Begin(what, argument, first, now), first = "getHigh" => now = mtime
  PROVE  Harmless
<1>1. /\ pc["main"] = "idle" /\ pc["isr"] = "idle" /\ Goto("main", first)
      /\ since' = [since EXCEPT !["main"] = now]
      /\ UNCHANGED <<mtime, cmpHigh, cmpLow, enabled, nticks, booted, high, low, due, start>>
  BY DEF Begin, At, Runs, device, software, ghosts
<1>2. TimerType /\ first \in MainSteps \cup IsrSteps BY DEF Inv, MainSteps
<1>3. /\ pc' \in [Contexts -> MainSteps \cup IsrSteps] /\ pc'["main"] = first
      /\ pc'["isr"] = pc["isr"]
  BY <1>1, <1>2, Hop DEF Contexts
<1>4. booted = 1 BY <1>1, Started DEF Reads, Sets
<1>5. since' \in [Contexts -> Nat] /\ since'["main"] = now
  BY <1>1, <1>2 DEF TimerType, Contexts
<1>6. mtime <= mtime BY <1>2, SizesAssumption DEF TimerType
<1> QED BY <1>1, <1>2, <1>3, <1>4, <1>5, <1>6 DEF Harmless, TimerType, Sets

LEMMA ReturnStep ==
  ASSUME Inv, booted = 1, pc["isr"] = "idle", Return,
         UNCHANGED <<device, software, ghosts>>
  PROVE  Harmless
<1>1. Goto("main", "idle") /\ Forget("main") BY DEF Return
<1>2. TimerType BY DEF Inv
<1>3. /\ pc' \in [Contexts -> MainSteps \cup IsrSteps] /\ pc'["main"] = "idle"
      /\ pc'["isr"] = pc["isr"]
  BY <1>1, <1>2, Hop DEF Contexts, MainSteps
<1>4. high' \in [Contexts -> Nat] /\ low' \in [Contexts -> Nat] /\ since' \in [Contexts -> Nat]
  BY <1>1, <1>2 DEF Forget, TimerType
<1> QED BY <1>3, <1>4 DEF Harmless, device, software, ghosts, Sets

\* A sleep reads the time again within the call.
LEMMA AgainStep ==
  ASSUME Inv, HasTime, Goto("main", "getHigh"), UNCHANGED <<device, software, high, low, since, ghosts>>
  PROVE  Harmless
<1>1. TimerType /\ booted = 1 /\ pc["isr"] = "idle" /\ pc["main"] = "getCheck"
  BY DEF Inv, HasTime, At, Runs
<1>2. /\ pc' \in [Contexts -> MainSteps \cup IsrSteps] /\ pc'["main"] = "getHigh"
      /\ pc'["isr"] = pc["isr"]
  BY <1>1, Hop DEF Contexts, MainSteps
<1>3. since["main"] <= mtime
  BY <1>1, SizesAssumption DEF Inv, Readings, Reading, TimerType, Contexts
<1> QED BY <1>1, <1>2, <1>3 DEF Harmless, device, software, ghosts, Sets, TimerType

\* A word of the tick count.
LEMMA TicksStep ==
  ASSUME Inv, TicksHigh \/ TicksLow
  PROVE  Harmless
<1>1. /\ pc["isr"] = "idle" /\ pc["main"] \in {"ticksFirst", "ticksLow", "ticksHigh"}
      /\ \E there \in {"ticksLow", "ticksHigh", "ticksEnd"} : Goto("main", there)
      /\ UNCHANGED <<mtime, cmpHigh, cmpLow, enabled, nticks, booted, since, due, start>>
      /\ \/ high' = [high EXCEPT !["main"] = High(nticks)] /\ low' = low
         \/ low' = [low EXCEPT !["main"] = Low(nticks)] /\ high' = high
  BY DEF TicksHigh, TicksLow, At, Runs, device, software, ghosts
<1>2. TimerType BY DEF Inv
<1>3. PICK there \in {"ticksLow", "ticksHigh", "ticksEnd"} : Goto("main", there) BY <1>1
<1>4. /\ pc' \in [Contexts -> MainSteps \cup IsrSteps] /\ pc'["main"] = there
      /\ pc'["isr"] = pc["isr"]
  BY <1>2, <1>3, Hop DEF Contexts, MainSteps
<1>5. booted = 1 BY <1>1, Started DEF Reads, Sets
<1>6. High(nticks) \in Nat /\ Low(nticks) \in Nat
  BY <1>2, Words, SizesAssumption DEF TimerType
<1>7. high' \in [Contexts -> Nat] /\ low' \in [Contexts -> Nat]
  BY <1>1, <1>2, <1>6 DEF TimerType
<1> QED BY <1>1, <1>2, <1>3, <1>4, <1>5, <1>7 DEF Harmless, TimerType, Sets

LEMMA MainHarmless == Inv /\ Main => Harmless
<1> SUFFICES ASSUME Inv, Main PROVE Harmless OBVIOUS
<1>1. mtime \in Nat /\ nticks \in Nat BY SizesAssumption DEF Inv, TimerType
<1>2. CASE Calls
  <2>2. CASE StartTimestamp BY <1>1, <2>2, BeginStep DEF StartTimestamp
  <2>3. CASE Timestamp BY <1>1, <2>3, BeginStep DEF Timestamp
  <2>4. CASE Sleep
    <3>1. PICK us \in Sleeps : Begin("sleep", <<0, us>>, "getHigh", mtime) BY <2>4 DEF Sleep
    <3> QED BY <1>1, <3>1, BeginStep
  <2>5. CASE GetTimeOfDay BY <1>1, <2>5, BeginStep DEF GetTimeOfDay
  <2>6. CASE SetTimeOfDay
    <3>1. PICK t \in Times : Begin("settod", t, "ticksFirst", nticks) BY <2>6 DEF SetTimeOfDay
    <3> QED BY <1>1, <3>1, BeginStep
  <2> QED BY <1>2, <2>2, <2>3, <2>4, <2>5, <2>6 DEF Calls
<1>3. CASE TimestampStarted \/ TimestampRead \/ SleepOver
  BY <1>3, ReturnStep DEF TimestampStarted, TimestampRead, SleepOver, HasTime, At, Runs
<1>4. CASE SleepStarted \/ Spin
  BY <1>4, AgainStep DEF SleepStarted, Spin
<1>5. CASE TicksHigh \/ TicksLow BY <1>5, TicksStep
<1>6. CASE TimeOfDay \/ TimeOfDaySet
  <2>1. pc["main"] = "ticksEnd" /\ pc["isr"] = "idle"
    BY <1>6 DEF TimeOfDay, TimeOfDaySet, HasTicks, At, Runs
  <2>2. booted = 1 BY <2>1, Started DEF Reads, Sets
  <2> QED BY <1>6, <2>1, <2>2, ReturnStep DEF TimeOfDay, TimeOfDaySet
<1>7. CASE StartBlinking \/ Blink
  <2>1. /\ pc["main"] = "idle" /\ pc["isr"] = "idle"
        /\ UNCHANGED <<mtime, cmpHigh, cmpLow, enabled, nticks, booted, pc, high, low, since, due, start>>
    BY <1>7 DEF StartBlinking, Blink, At, Runs, device, software, frames, ghosts
  <2>2. booted = 1 BY <2>1, Started DEF Reads, Sets
  <2> QED BY <2>1, <2>2 DEF Harmless, Inv, TimerType, Sets
<1> QED BY <1>2, <1>3, <1>4, <1>5, <1>6, <1>7 DEF Main

LEMMA HarmlessStep == Inv /\ Harmless => Inv'
<1> SUFFICES ASSUME Inv, Harmless PROVE Inv' OBVIOUS
<1>1. TimerType' BY DEF Inv, TimerType, Harmless
<1>2. Phases' BY DEF Inv, Phases, Harmless, IsrSteps
<1>3. Readings' BY DEF Harmless, Readings, Reading, Contexts
<1>4. Armed'
  BY DEF Inv, Phases, Armed, Harmless, Contexts, Joined, Sets
<1>5. Counting'
  <2>1. Counted' = Counted BY DEF Harmless, Counted
  <2> HIDE DEF Counted
  <2> QED BY <2>1 DEF Inv, Counting, Harmless, Sets, Reads
<1> QED BY <1>1, <1>2, <1>3, <1>4, <1>5 DEF Inv

-----------------------------------------------------------------------------
LEMMA InvStep == Inv /\ [SysNext]_sysVars => Inv'
<1> SUFFICES ASSUME Inv, [SysNext]_sysVars PROVE Inv' OBVIOUS
<1>1. CASE Elapse BY <1>1, ElapseStep
<1>2. ASSUME NEW c \in Contexts, Access(c) PROVE Inv'
  BY <1>2, GetHighStep, GetLowStep, GetAgainStep, GetScheduleStep,
     SetMaskStep, SetLowStep, SetHighStep DEF Access
<1>3. CASE Enable BY <1>3, EnableStep
<1>4. CASE Interrupt BY <1>4, InterruptStep
<1>5. CASE Tick BY <1>5, TickStep
<1>6. CASE Main BY <1>6, MainHarmless, HarmlessStep
<1>7. CASE UNCHANGED sysVars
  <2>1. UNCHANGED <<mtime, cmpHigh, cmpLow, enabled, nticks, booted, pc, high, low, since, due, start>>
    BY <1>7 DEF sysVars, vars, device, software, frames, ghosts
  <2> QED BY <2>1 DEF Inv, TimerType, Phases, Readings, Reading, Armed, Counting, Counted, Joined, High, Low
<1> QED BY <1>1, <1>2, <1>3, <1>4, <1>5, <1>6, <1>7 DEF SysNext, TimerNext

\* Words read, the state of mtimecmp and the count of periods agree in every
\* state of mtimer.c, whatever the timer, its handler and the program do.
THEOREM Invariance == SysSpec => []Inv
<1>1. SysInit => Inv BY InitInv
<1>2. Inv /\ [SysNext]_sysVars => Inv' BY InvStep
<1> QED BY <1>1, <1>2, PTL DEF SysSpec

\* While alt_niosv_mtimecmp_set() writes mtimecmp word by word, and after it,
\* no deadline fires that is not due.
THEOREM NeverStray == SysSpec => []NoStray
<1>1. Inv => NoStray
  <2> SUFFICES ASSUME Inv, InSet \/ Settled, Pending PROVE mtime >= due BY DEF NoStray
  <2>1. \A c \in Contexts : pc[c] \notin {"setLow", "setHigh"}
    BY OutOfReach DEF Inv, Armed
  <2>2. Settled BY <2>1 DEF InSet
  <2>3. Joined(cmpHigh, cmpLow) = due
    BY <2>1, <2>2 DEF Settled, Inv, Armed, Sets, Contexts
  <2> QED BY <2>3 DEF Pending
<1> QED BY <1>1, Invariance, PTL

\* When the handler of mtimer.c has returned, a deadline at most one period
\* ahead is armed, whole: the clock does not fall silent.
THEOREM AlwaysArmed == SysSpec => []NeverSilent
<1>1. Inv => NeverSilent BY DEF Inv, Armed, NeverSilent, Sets
<1> QED BY <1>1, Invariance, PTL

\* The periods alt_tick() has counted fit into the time that has passed.
THEOREM TicksFit == SysSpec => []NotFast
<1>1. Inv => NotFast
  <2> SUFFICES ASSUME Inv, booted = 1 PROVE Counted <= mtime BY DEF NotFast, Counted
  <2>1. Counted \in Nat /\ Delta \in Nat /\ mtime \in Nat /\ since["isr"] \in Nat
    BY CountedType, SizesAssumption DEF Inv, TimerType, Contexts
  <2>2. pc["isr"] \in {"idle", "tick"} \cup Reads \cup Sets
    BY DEF Inv, Phases, IsrSteps, Reads, Sets
  <2> HIDE DEF Counted
  <2> QED BY <2>1, <2>2 DEF Inv, Counting
<1> QED BY <1>1, Invariance, PTL

\* alt_niosv_mtime_get(), which reads two words, returns a time the counter
\* showed during the call, wherever the interrupt came.
THEOREM ReadsInWindow == SysSpec => GetInWindow
<1>1. Inv /\ [SysNext]_sysVars =>
        [\A c \in Contexts : pc[c] = "getCheck" /\ pc'[c] \in {"setMask", "idle"} =>
           since[c] <= Got(c) /\ Got(c) <= mtime]_vars
  <2> SUFFICES ASSUME Inv, SysNext, NEW c \in Contexts, pc[c] = "getCheck",
                      pc'[c] \in {"setMask", "idle"}
               PROVE  ~Torn(c)
    BY Whole DEF sysVars, vars
  <2>1. TimerType BY DEF Inv
  <2>2. CASE Elapse BY <2>2 DEF Elapse, frames
  <2>3. ASSUME NEW d \in Contexts, Access(d) PROVE ~Torn(c)
    <3>1. CASE d = c
      <4>1. ~GetHigh(c) /\ ~GetLow(c) /\ ~SetMask(c) /\ ~SetLow(c) /\ ~SetHigh(c)
        BY DEF GetHigh, GetLow, SetMask, SetLow, SetHigh, At
      <4>2. ~GetAgain(c)
        <5>1. GetAgain(c) => pc'[c] = "getHigh" BY <2>1 DEF GetAgain, Goto, TimerType
        <5> QED BY <5>1
      <4> QED BY <2>3, <3>1, <4>1, <4>2 DEF Access, GetSchedule
    <3>2. CASE d # c
      <4>1. \E there : Goto(d, there)
        BY <2>3 DEF Access, GetHigh, GetLow, GetAgain, GetSchedule, SetMask, SetLow, SetHigh
      <4>2. pc'[c] = pc[c] BY <2>1, <3>2, <4>1 DEF Goto, TimerType
      <4> QED BY <4>2
    <3> QED BY <3>1, <3>2
  <2>4. CASE Enable \/ Interrupt \/ Tick
    <3>1. \E d \in Contexts, there \in {"idle", "getHigh"} :
            Goto(d, there) /\ pc[d] # "getCheck"
      BY <2>4 DEF Enable, Interrupt, Tick, At, Contexts
    <3> QED BY <2>1, <3>1 DEF Goto, TimerType
  <2>5. CASE Main
    <3>1. CASE c = "isr" BY <2>5, <3>1, MainHarmless DEF Harmless
    <3>2. CASE c = "main"
      <4>1. HasTime
        BY <2>5, <3>2 DEF Main, Calls, StartTimestamp, Timestamp, Sleep, GetTimeOfDay, SetTimeOfDay,
           Begin, At, TimestampStarted, SleepStarted, TimestampRead, Spin, SleepOver,
           TicksHigh, TicksLow, HasTicks, TimeOfDay, TimeOfDaySet, StartBlinking, Blink
      <4> QED BY <3>2, <4>1 DEF HasTime
    <3> QED BY <3>1, <3>2 DEF Contexts
  <2> QED BY <2>2, <2>3, <2>4, <2>5 DEF SysNext, TimerNext
<1> QED BY <1>1, Invariance, PTL DEF SysSpec, GetInWindow

-----------------------------------------------------------------------------
(* Sleeps.                                                                 *)

\* A sleep counts from a time no earlier than its call.
Sleeping ==
  /\ call \in {"sleep", "spin"} => booted = 1
  /\ call = "spin" => offset \in Nat /\ since["main"] <= offset /\ asked[2] \in Sleeps

SleepAsked == call = "sleep" => asked[2] \in Sleeps

LEMMA SleepTimerStep ==
  ASSUME Inv, Sleeping, SleepAsked, TimerNext, UNCHANGED <<program, offset, clock, blinker>>
  PROVE  (Sleeping /\ SleepAsked)'
<1>1. UNCHANGED <<call, asked, offset>> BY DEF program
<1>2. TimerType /\ (call \in {"sleep", "spin"} => booted = 1) BY DEF Inv, Sleeping
<1>3. ASSUME booted = 1 PROVE booted' = 1 /\ since'["main"] = since["main"]
  <2>1. CASE Elapse BY <1>3, <2>1 DEF Elapse, software, frames
  <2>2. ASSUME NEW c \in Contexts, Access(c) PROVE booted' = 1 /\ since'["main"] = since["main"]
    <3>1. CASE GetSchedule(c)
      <4>1. c # "main" /\ booted' = booted /\ since' = [since EXCEPT ![c] = 0]
        BY <1>3, <3>1 DEF GetSchedule, Forget, software
      <4> QED BY <1>2, <1>3, <4>1 DEF TimerType, Contexts
    <3> QED
      BY <1>3, <2>2, <3>1
      DEF Access, GetHigh, GetLow, GetAgain, SetMask, SetLow, SetHigh, software
  <2>3. CASE Enable \/ Tick BY <1>3, <2>3 DEF Enable, Tick
  <2>4. CASE Interrupt BY <1>2, <1>3, <2>4 DEF Interrupt, software, TimerType, Contexts
  <2> QED BY <2>1, <2>2, <2>3, <2>4 DEF TimerNext
<1> QED BY <1>1, <1>2, <1>3 DEF Sleeping, SleepAsked

LEMMA SleepMainStep ==
  ASSUME Inv, Sleeping, SleepAsked, Main
  PROVE  (Sleeping /\ SleepAsked)'
<1>1. Harmless BY MainHarmless
<1>2. booted' = 1 BY <1>1 DEF Harmless
<1>3. CASE StartTimestamp \/ Timestamp \/ GetTimeOfDay \/ SetTimeOfDay
  BY <1>3 DEF StartTimestamp, Timestamp, GetTimeOfDay, SetTimeOfDay, Begin, Sleeping, SleepAsked
<1>4. CASE Sleep
  <2>1. PICK us \in Sleeps : call' = "sleep" /\ asked' = <<0, us>>
    BY <1>4 DEF Sleep, Begin
  <2> QED BY <1>2, <2>1 DEF Sleeping, SleepAsked
<1>5. CASE TimestampStarted \/ TimestampRead \/ SleepOver \/ TimeOfDay \/ TimeOfDaySet
  BY <1>5
  DEF TimestampStarted, TimestampRead, SleepOver, TimeOfDay, TimeOfDaySet, Return, Sleeping, SleepAsked
<1>6. CASE SleepStarted
  <2>1. Got("main") \in Nat /\ since["main"] <= Got("main")
    BY <1>6, Whole DEF SleepStarted, HasTime, At, Contexts
  <2> QED BY <1>2, <1>6, <2>1 DEF SleepStarted, Sleeping, SleepAsked
<1>7. CASE Spin \/ TicksHigh \/ TicksLow \/ StartBlinking \/ Blink
  BY <1>2, <1>7 DEF Spin, TicksHigh, TicksLow, StartBlinking, Blink, program, frames, Sleeping, SleepAsked
<1> QED BY <1>3, <1>4, <1>5, <1>6, <1>7 DEF Main, Calls

\* alt_busy_sleep() lasts as long as asked, while its cycles fit a word.
THEOREM SleepsLast == SysSpec => SleepLasts
<1> DEFINE All == Inv /\ Sleeping /\ SleepAsked
<1>1. SysInit => All
  BY InitInv DEF SysInit, Sleeping, SleepAsked
<1>2. All /\ [SysNext]_sysVars => All'
  <2> SUFFICES ASSUME All, [SysNext]_sysVars PROVE All' OBVIOUS
  <2>1. Inv' BY InvStep
  <2>2. CASE Main BY <2>1, <2>2, SleepMainStep
  <2>3. CASE TimerNext /\ UNCHANGED <<program, offset, clock, blinker>>
    BY <2>1, <2>3, SleepTimerStep
  <2>4. CASE UNCHANGED sysVars
    <3>1. UNCHANGED <<call, asked, offset, booted, since>>
      BY <2>4 DEF sysVars, vars, software, frames, program
    <3> QED BY <2>1, <3>1 DEF Sleeping, SleepAsked
  <2> QED BY <2>2, <2>3, <2>4 DEF SysNext
<1>3. All /\ [SysNext]_sysVars =>
        [call = "spin" /\ call' = "none" /\ Mhz * asked[2] < Base =>
           mtime >= since["main"] + Mhz * asked[2]]_sysVars
  <2> SUFFICES ASSUME All, SysNext, call = "spin", call' = "none", Mhz * asked[2] < Base
               PROVE  mtime >= since["main"] + Mhz * asked[2]
    OBVIOUS
  <2> DEFINE cycles == Mhz * asked[2]
  <2>1. HasTime /\ SpinOver
    <3>1. Main BY DEF SysNext, program
    <3> QED BY <3>1 DEF Main, Calls, StartTimestamp, Timestamp, Sleep, GetTimeOfDay, SetTimeOfDay,
           Begin, TimestampStarted, SleepStarted, TimestampRead, Spin, SleepOver,
           TicksHigh, TicksLow, program, TimeOfDay, TimeOfDaySet, StartBlinking, Blink
  <2>2. Got("main") \in Nat /\ Got("main") <= mtime
    BY <2>1, Whole DEF HasTime, At, Contexts
  <2>3. cycles \in 0 .. Base - 1
    <3>1. asked[2] \in Nat /\ Mhz \in Nat BY TimeAssumption DEF Sleeping
    <3> QED BY <3>1, SizesAssumption, SMT
  <2> HIDE DEF cycles
  <2>4. cycles % Base = cycles BY <2>3, SizesAssumption, SMT
  <2>5. Got("main") - offset >= cycles BY <2>1, <2>4 DEF SpinOver, cycles
  <2>6. offset \in Nat /\ since["main"] <= offset /\ since["main"] \in Nat /\ mtime \in Nat
    BY SizesAssumption DEF Sleeping, Inv, TimerType, Contexts
  <2>7. mtime >= since["main"] + cycles BY <2>2, <2>3, <2>5, <2>6
  <2> QED BY <2>7 DEF cycles
<1> QED BY <1>1, <1>2, <1>3, PTL DEF SysSpec, SleepLasts

-----------------------------------------------------------------------------
(* The blinker.                                                            *)

\* The distance of two counts taken on their low words: the true one, short of
\* a wrap of the word, and never more than it.
LEMMA LowDistance ==
  ASSUME NEW t \in Nat, NEW n \in Nat, t <= n
  PROVE  /\ (Low(n) - Low(t)) % Base <= n - t
         /\ n - t < Base => (Low(n) - Low(t)) % Base = n - t
<1> DEFINE q == High(n)  c == High(t)  r == Low(n)  p == Low(t)
<1>1. /\ q \in Nat /\ c \in Nat /\ r \in 0 .. Base - 1 /\ p \in 0 .. Base - 1
      /\ n = q * Base + r /\ t = c * Base + p
  BY Words DEF Joined
<1>2. c <= q BY HighGrows
<1> HIDE DEF q, c, r, p
<1>3. q * Base \in Nat /\ c * Base \in Nat BY <1>1, SizesAssumption, SMT
<1>4. r >= p => (r - p) % Base = r - p BY <1>1, SizesAssumption, SMT
<1>5. r < p => (r - p) % Base = r - p + Base
  <2>1. r < p => r - p + Base \in 0 .. Base - 1 BY <1>1, SizesAssumption
  <2> QED BY <1>1, <2>1, SizesAssumption, SMT
<1>6. CASE q = c
  <2>1. n - t = r - p BY <1>1, <1>3, <1>6
  <2> QED BY <1>1, <1>4, <2>1 DEF r, p
<1>7. CASE c < q
  <2>1. c * Base + Base <= q * Base BY <1>1, <1>7, Multiples, SizesAssumption
  <2>2. n - t >= r - p + Base BY <1>1, <1>3, <2>1, SizesAssumption
  <2>3. CASE r >= p
    <3>1. n - t >= Base BY <1>1, <2>2, <2>3, SizesAssumption
    <3> QED BY <1>1, <1>4, <2>2, <2>3, <3>1, SizesAssumption DEF r, p
  <2>4. CASE r < p
    <3>1. n - t < Base => q * Base < c * Base + Base + Base
      BY <1>1, <1>3, <2>4, SizesAssumption
    <3>2. n - t < Base => q = c + 1
      <4> SUFFICES ASSUME n - t < Base, c + 1 < q PROVE FALSE BY <1>1, <1>7
      <4>1. (c + 1) * Base + Base <= q * Base BY <1>1, Multiples, SizesAssumption
      <4>2. (c + 1) * Base = c * Base + Base BY <1>1, SizesAssumption, SMT
      <4> QED BY <1>3, <3>1, <4>1, <4>2, SizesAssumption
    <3>3. (c + 1) * Base = c * Base + Base BY <1>1, SizesAssumption, SMT
    <3>4. n - t < Base => n - t = r - p + Base BY <1>1, <1>3, <3>2, <3>3, SizesAssumption
    <3> QED BY <1>5, <2>2, <2>4, <3>4 DEF r, p
  <2> QED BY <1>1, <2>3, <2>4
<1> QED BY <1>1, <1>2, <1>6, <1>7

\* The word kept is that of the tick noted.
Noted ==
  toggled = -1 \/ (toggled \in Nat /\ toggled <= nticks /\ last = Low(toggled))

LEMMA NotedStep == Inv /\ Noted /\ [SysNext]_sysVars => Noted'
<1> SUFFICES ASSUME Inv, Noted, [SysNext]_sysVars PROVE Noted' OBVIOUS
<1>1. nticks \in Nat BY DEF Inv, TimerType
<1>2. CASE StartBlinking \/ Blink
  BY <1>1, <1>2 DEF StartBlinking, Blink, software, Noted
<1>3. CASE ~(StartBlinking \/ Blink)
  <2>1. UNCHANGED <<last, toggled>>
    BY <1>3 DEF SysNext, sysVars, blinker, Main, Calls, StartTimestamp, Timestamp, Sleep,
       GetTimeOfDay, SetTimeOfDay, Begin, TimestampStarted, SleepStarted, TimestampRead,
       Spin, SleepOver, TicksHigh, TicksLow, TimeOfDay, TimeOfDaySet
  <2>2. nticks' = nticks \/ nticks' = nticks + 1
    <3>1. CASE Main BY <3>1, MainHarmless DEF Harmless
    <3>2. CASE TimerNext
      BY <3>2 DEF TimerNext, Elapse, Access, GetHigh, GetLow, GetAgain, GetSchedule,
         SetMask, SetLow, SetHigh, Enable, Interrupt, Tick, software
    <3> QED BY <3>1, <3>2 DEF SysNext, sysVars, vars, software
  <2> QED BY <1>1, <2>1, <2>2 DEF Noted, Low
<1> QED BY <1>2, <1>3

\* The loop of the blinker's main() toggles when its interval is over, and not
\* before, wherever the word it keeps wraps.
THEOREM BlinksOnTime == SysSpec => BlinkOnTime
<1>1. SysInit => Inv /\ Noted BY InitInv DEF SysInit, Noted
<1>2. Inv /\ Noted /\ [SysNext]_sysVars => (Inv /\ Noted)' BY InvStep, NotedStep
<1>3. Inv /\ Noted /\ Inv' /\ Noted' /\ [SysNext]_sysVars =>
        [toggled # -1 =>
           /\ toggled' # toggled => toggled' - toggled >= Interval
           /\ nticks' - toggled' \in Interval .. Base - 1 => Due']_sysVars
  <2> SUFFICES ASSUME Inv, Noted, Inv', Noted', SysNext, toggled # -1
               PROVE  /\ toggled' # toggled => toggled' - toggled >= Interval
                      /\ nticks' - toggled' \in Interval .. Base - 1 => Due'
    OBVIOUS
  <2>1. /\ Interval \in Nat /\ nticks \in Nat /\ nticks' \in Nat
        /\ toggled \in Nat /\ toggled <= nticks /\ last = Low(toggled)
    BY TimeAssumption DEF Inv, TimerType, Noted
  <2>2. \/ UNCHANGED <<last, toggled>>
        \/ Due /\ toggled' = nticks /\ nticks' = nticks
    BY DEF SysNext, sysVars, blinker, Main, Calls, StartTimestamp, Timestamp, Sleep,
       GetTimeOfDay, SetTimeOfDay, Begin, TimestampStarted, SleepStarted, TimestampRead,
       Spin, SleepOver, TicksHigh, TicksLow, TimeOfDay, TimeOfDaySet, StartBlinking, Blink, software
  <2>3. ASSUME toggled' # toggled PROVE toggled' - toggled >= Interval
    <3>1. (Low(nticks) - Low(toggled)) % Base >= Interval /\ toggled' = nticks
      BY <2>1, <2>2, <2>3 DEF Due
    <3>2. (Low(nticks) - Low(toggled)) % Base <= nticks - toggled BY <2>1, LowDistance
    <3>3. (Low(nticks) - Low(toggled)) % Base \in Int
      BY <2>1, Words, SizesAssumption, SMT
    <3> QED BY <2>1, <3>1, <3>2, <3>3
  <2>4. ASSUME nticks' - toggled' \in Interval .. Base - 1 PROVE Due'
    <3>1. toggled' \in Nat /\ toggled' <= nticks' /\ last' = Low(toggled')
      BY <2>1, <2>2 DEF Noted, Low
    <3>2. (Low(nticks') - Low(toggled')) % Base = nticks' - toggled'
      <4>1. \A t, n \in Nat : t <= n /\ n - t < Base => (Low(n) - Low(t)) % Base = n - t
        BY LowDistance
      <4>2. Base \in Nat BY SizesAssumption
      <4>3. nticks' \in Nat /\ toggled' \in Nat BY <2>1, <3>1
      <4>4. nticks' - toggled' < Base
        <5> DEFINE gap == nticks' - toggled'
        <5>1. gap \in Int BY <4>3
        <5>2. gap \in Interval .. Base - 1 BY <2>4
        <5>3. Interval \in Nat BY <2>1
        <5> HIDE DEF gap
        <5>4. gap < Base BY <4>2, <5>1, <5>2, <5>3
        <5> QED BY <5>4 DEF gap
      <4> QED BY <3>1, <4>1, <4>3, <4>4
    <3> QED BY <2>4, <3>1, <3>2 DEF Due, Low
  <2> QED BY <2>3, <2>4
<1> QED BY <1>1, <1>2, <1>3, PTL DEF SysSpec, BlinkOnTime

-----------------------------------------------------------------------------
(* The time of day.                                                        *)

Ticking == {"ticksFirst", "ticksLow", "ticksHigh", "ticksEnd"}

\* The words of the tick count are read at moments since the call.
TicksRead ==
  /\ pc["main"] \in Ticking => since["main"] <= nticks
  /\ pc["main"] \in {"ticksLow", "ticksEnd"} =>
       \E n \in since["main"] .. nticks : high["main"] = High(n)
  /\ pc["main"] \in {"ticksHigh", "ticksEnd"} =>
       \E n \in since["main"] .. nticks : low["main"] = Low(n)

\* The microseconds of a tick.
Step == Us \div Rate

\* The reset time is the time last set less the ticks of a moment of that call,
\* and a call that is reading the ticks began after it.
ClockSet ==
  /\ reset \in Int \X Int /\ told \in Nat \X Nat \X Nat
  /\ told[2] <= told[3] /\ told[3] <= nticks
  /\ pc["main"] \in Ticking => told[3] <= since["main"]
  /\ ~Carried(told[2], told[3]) =>
       \E then \in told[2] .. told[3] : reset[1] * Us + reset[2] = told[1] - then * Step
  /\ call = "settod" => asked \in Nat \X (0 .. Us - 1)

LEMMA DivMod ==
  ASSUME NEW a \in Int, NEW b \in Nat \ {0}
  PROVE  /\ a \div b \in Int /\ a % b \in 0 .. b - 1 /\ a = (a \div b) * b + (a % b)
         /\ a \in Nat => a \div b \in Nat
BY SMT

\* A number is divided in one way.
LEMMA DivUnique ==
  ASSUME NEW b \in Nat \ {0}, NEW q \in Nat, NEW c \in Nat,
         NEW r \in 0 .. b - 1, NEW s \in 0 .. b - 1, q * b + r = c * b + s
  PROVE  q = c /\ r = s
<1>1. q * b \in Nat /\ c * b \in Nat BY SMT
<1>2. ~(q < c)
  <2>1. q < c => q * b + b <= c * b BY Multiples
  <2> QED BY <1>1, <2>1
<1>3. ~(c < q)
  <2>1. c < q => c * b + b <= q * b BY Multiples
  <2> QED BY <1>1, <2>1
<1>4. q = c BY <1>2, <1>3
<1> QED BY <1>1, <1>4

LEMMA StepType == Step \in Nat \ {0} /\ Us = Step * Rate
<1>1. Rate \in Nat \ {0} /\ Us \in Nat \ {0} /\ Us % Rate = 0 BY TimeAssumption
<1>2. Step \in Int /\ Us = Step * Rate + 0 BY <1>1, DivMod DEF Step
<1> HIDE DEF Step
<1>3. Step * Rate \in Int BY <1>1, <1>2, SMT
<1>4. Us = Step * Rate BY <1>2, <1>3
<1>5. Step > 0
  <2> SUFFICES ASSUME Step <= 0 PROVE FALSE BY <1>2
  <2>1. Step * Rate <= 0 BY <1>1, <1>2, SMT
  <2> QED BY <1>1, <1>4, <2>1
<1> QED BY <1>2, <1>4, <1>5

\* Seconds and microseconds of a tick count make up its time.
LEMMA TickTime ==
  ASSUME NEW n \in Nat
  PROVE  /\ Seconds(n) \in Nat /\ Microseconds(n) \in Nat
         /\ Seconds(n) * Us + Microseconds(n) = n * Step
<1> DEFINE q == Seconds(n)  r == n % Rate  m == n * Step  c == m \div Us
<1>1. Rate \in Nat \ {0} /\ Us \in Nat \ {0} /\ Step \in Nat \ {0} /\ Us = Step * Rate
  BY StepType, TimeAssumption
<1>2. q \in Nat /\ r \in 0 .. Rate - 1 /\ n = q * Rate + r
  <2>1. n \in Int /\ q = n \div Rate BY DEF Seconds
  <2> QED BY <1>1, <2>1, DivMod
<1>3. m \in Nat BY <1>1, SMT
<1>4. Microseconds(n) = m % Us BY DEF Microseconds, Step
<1> HIDE DEF m, q, r, Step
<1>5. c \in Nat /\ m % Us \in 0 .. Us - 1 /\ m = c * Us + (m % Us)
  <2>1. m \in Int /\ Us \in Nat \ {0} BY <1>3, TimeAssumption
  <2> QED BY <1>3, <2>1, DivMod
<1>6. m = q * Us + r * Step
  <2>1. (q * Rate + r) * Step = q * (Step * Rate) + r * Step BY <1>1, <1>2, SMT
  <2> QED BY <1>1, <1>2, <2>1 DEF m
<1>7. r * Step \in 0 .. Us - 1
  <2>1. r * Step \in Nat /\ Rate * Step = Step * Rate BY <1>1, <1>2, SMT
  <2>2. r * Step + Step <= Rate * Step BY <1>1, <1>2, Multiples
  <2> QED BY <1>1, <2>1, <2>2
<1> HIDE DEF c
<1> DEFINE u == r * Step  v == m % Us
<1>8. u \in 0 .. Us - 1 /\ v \in 0 .. Us - 1 /\ q * Us + u = c * Us + v
  BY <1>5, <1>6, <1>7
<1> HIDE DEF u, v
<1>9. q = c /\ u = v BY <1>1, <1>2, <1>5, <1>8, DivUnique
<1>10. q * Us + v = m BY <1>5, <1>9 DEF v
<1> QED BY <1>1, <1>2, <1>4, <1>8, <1>10 DEF v, q, m

\* Bringing the microseconds into a second leaves a time that is not before
\* zero as it is.
LEMMA NormalValue ==
  ASSUME NEW sec \in Int, NEW usec \in Int, sec * Us + usec >= 0
  PROVE  Normal(sec, usec)[1] * Us + Normal(sec, usec)[2] = sec * Us + usec
<1> DEFINE d == usec \div Us  m == usec % Us
<1>1. Us \in Nat \ {0} /\ d \in Int /\ m \in 0 .. Us - 1 /\ usec = d * Us + m
  BY TimeAssumption, DivMod
<1> HIDE DEF d, m
<1>2. (sec + d) * Us = sec * Us + d * Us /\ sec * Us \in Int /\ d * Us \in Int
  BY <1>1, SMT
<1>3. ~(sec < -d)
  <2> SUFFICES ASSUME sec < -d PROVE FALSE OBVIOUS
  <2> DEFINE e == sec + d
  <2>1. e \in Int /\ e + 1 <= 0 BY <1>1
  <2> HIDE DEF e
  <2>2. (e + 1) * Us = e * Us + Us /\ e * Us \in Int /\ (e + 1) * Us <= 0 BY <1>1, <2>1, SMT
  <2>3. e * Us + m < 0 BY <1>1, <2>2
  <2> QED BY <1>1, <1>2, <2>3 DEF e
<1>4. Normal(sec, usec) = <<sec + d, m>> BY <1>3 DEF Normal, d, m
<1>5. (sec + d) * Us + m = sec * Us + usec BY <1>1, <1>2
<1> QED BY <1>4, <1>5

-----------------------------------------------------------------------------
(* Ticks read in two words, and the time set from them.                    *)

\* A step of the timer or its handler leaves the locals of the program alone.
LEMMA TimerQuiet ==
  ASSUME Inv, TimerNext
  PROVE  /\ nticks' \in {nticks, nticks + 1}
         /\ pc'["main"] \in Ticking =>
              /\ pc'["main"] = pc["main"] /\ since'["main"] = since["main"]
              /\ high'["main"] = high["main"] /\ low'["main"] = low["main"]
<1>1. /\ pc \in [Contexts -> MainSteps \cup IsrSteps] /\ high \in [Contexts -> Nat]
      /\ low \in [Contexts -> Nat] /\ since \in [Contexts -> Nat] /\ nticks \in Nat
  BY DEF Inv, TimerType
<1>2. nticks' \in {nticks, nticks + 1}
  BY DEF TimerNext, Elapse, Access, GetHigh, GetLow, GetAgain, GetSchedule,
     SetMask, SetLow, SetHigh, Enable, Interrupt, Tick, software
<1> SUFFICES ASSUME pc'["main"] \in Ticking
             PROVE  /\ pc'["main"] = pc["main"] /\ since'["main"] = since["main"]
                    /\ high'["main"] = high["main"] /\ low'["main"] = low["main"]
  BY <1>2
<1>3. CASE Elapse BY <1>3 DEF Elapse, frames
<1>4. ASSUME NEW c \in Contexts, Access(c)
      PROVE  /\ pc'["main"] = pc["main"] /\ since'["main"] = since["main"]
             /\ high'["main"] = high["main"] /\ low'["main"] = low["main"]
  <2>1. c # "main"
    <3> SUFFICES ASSUME c = "main" PROVE FALSE OBVIOUS
    <3>1. \E there \in {"getHigh", "getLow", "getCheck", "setMask", "setLow", "setHigh", "enable"} :
            Goto("main", there)
      BY <1>4 DEF Access, GetHigh, GetLow, GetAgain, GetSchedule, SetMask, SetLow, SetHigh
    <3> QED BY <1>1, <3>1 DEF Goto, Ticking, Contexts
  <2>2. \E there : Goto(c, there)
    BY <1>4 DEF Access, GetHigh, GetLow, GetAgain, GetSchedule, SetMask, SetLow, SetHigh
  <2>3. pc'["main"] = pc["main"] BY <1>1, <2>1, <2>2 DEF Goto, Contexts
  <2>4. \E h, l, s : /\ high' \in {high, [high EXCEPT ![c] = h]}
                     /\ low' \in {low, [low EXCEPT ![c] = l]}
                     /\ since' \in {since, [since EXCEPT ![c] = s]}
    BY <1>4 DEF Access, GetHigh, GetLow, GetAgain, GetSchedule, SetMask, SetLow, SetHigh, Forget
  <2> QED BY <1>1, <2>1, <2>3, <2>4 DEF Contexts
<1>5. CASE Enable
  <2>1. pc'["main"] = "idle" BY <1>1, <1>5 DEF Enable, Goto, Contexts
  <2> QED BY <2>1 DEF Ticking
<1>6. CASE Interrupt BY <1>1, <1>6 DEF Interrupt, Goto, Contexts
<1>7. CASE Tick BY <1>1, <1>7 DEF Tick, Goto, Contexts
<1> QED BY <1>3, <1>4, <1>5, <1>6, <1>7 DEF TimerNext

\* A moment of the call stays one as the ticks go on.
LEMMA Longer ==
  ASSUME Inv, nticks' \in {nticks, nticks + 1}
  PROVE  /\ since["main"] \in Nat /\ nticks \in Nat /\ nticks' \in Nat /\ nticks <= nticks'
         /\ since["main"] .. nticks \subseteq since["main"] .. nticks'
<1>1. nticks \in Nat /\ since["main"] \in Nat BY DEF Inv, TimerType, Contexts
<1> QED BY <1>1

LEMMA TicksReadTimer ==
  ASSUME Inv, TicksRead, TimerNext
  PROVE  TicksRead'
<1>1. CASE pc'["main"] \notin Ticking BY <1>1 DEF TicksRead, Ticking
<1>2. CASE pc'["main"] \in Ticking
  <2>1. /\ nticks' \in {nticks, nticks + 1}
        /\ pc'["main"] = pc["main"] /\ since'["main"] = since["main"]
        /\ high'["main"] = high["main"] /\ low'["main"] = low["main"]
    BY <1>2, TimerQuiet
  <2>2. /\ since["main"] \in Nat /\ nticks \in Nat /\ nticks' \in Nat /\ nticks <= nticks'
        /\ since["main"] .. nticks \subseteq since["main"] .. nticks'
    BY <2>1, Longer
  <2> QED BY <2>1, <2>2 DEF TicksRead, High, Low
<1> QED BY <1>1, <1>2

\* Where the program's step leads.
LEMMA MainGoes ==
  ASSUME Inv, NEW there \in MainSteps, Goto("main", there)
  PROVE  pc'["main"] = there
BY DEF Inv, TimerType, Goto, Contexts

LEMMA TicksReadMain ==
  ASSUME Inv, TicksRead, Main
  PROVE  TicksRead'
<1>1. /\ nticks \in Nat /\ since["main"] \in Nat
      /\ high \in [Contexts -> Nat] /\ low \in [Contexts -> Nat] /\ since \in [Contexts -> Nat]
      /\ pc \in [Contexts -> MainSteps \cup IsrSteps]
  BY DEF Inv, TimerType, Contexts
<1>2. nticks' = nticks BY MainHarmless DEF Harmless
<1>3. CASE StartTimestamp \/ Timestamp \/ Sleep \/ SleepStarted \/ Spin
  <2>1. Goto("main", "getHigh")
    BY <1>3 DEF StartTimestamp, Timestamp, Sleep, SleepStarted, Spin, Begin
  <2>2. pc'["main"] = "getHigh" BY <2>1, MainGoes DEF MainSteps
  <2> QED BY <2>2 DEF TicksRead, Ticking
<1>4. CASE GetTimeOfDay \/ SetTimeOfDay
  <2>1. Goto("main", "ticksFirst") /\ since' = [since EXCEPT !["main"] = nticks]
    BY <1>4 DEF GetTimeOfDay, SetTimeOfDay, Begin
  <2>2. pc'["main"] = "ticksFirst" /\ since'["main"] = nticks
    BY <1>1, <2>1, MainGoes DEF MainSteps, Contexts
  <2> QED BY <1>1, <1>2, <2>2 DEF TicksRead
<1>5. CASE TimestampStarted \/ TimestampRead \/ SleepOver \/ TimeOfDay \/ TimeOfDaySet
  <2>1. Goto("main", "idle")
    BY <1>5 DEF TimestampStarted, TimestampRead, SleepOver, TimeOfDay, TimeOfDaySet, Return
  <2>2. pc'["main"] = "idle" BY <2>1, MainGoes DEF MainSteps
  <2> QED BY <2>2 DEF TicksRead, Ticking
<1>6. CASE TicksHigh
  <2>1. /\ pc["main"] \in {"ticksFirst", "ticksHigh"}
        /\ high' = [high EXCEPT !["main"] = High(nticks)]
        /\ Goto("main", IF pc["main"] = "ticksFirst" THEN "ticksLow" ELSE "ticksEnd")
        /\ low' = low /\ since' = since
    BY <1>6 DEF TicksHigh, At
  <2>2. pc'["main"] = IF pc["main"] = "ticksFirst" THEN "ticksLow" ELSE "ticksEnd"
    BY <2>1, MainGoes DEF MainSteps
  <2>3. high'["main"] = High(nticks) BY <1>1, <2>1 DEF Contexts
  <2>4. since["main"] <= nticks BY <2>1 DEF TicksRead, Ticking
  <2>5. nticks \in since["main"] .. nticks BY <1>1, <2>4
  <2> HIDE DEF High, Low
  <2> QED BY <1>2, <2>1, <2>2, <2>3, <2>4, <2>5 DEF TicksRead, High, Low
<1>7. CASE TicksLow
  <2>1. /\ pc["main"] \in {"ticksFirst", "ticksLow"}
        /\ low' = [low EXCEPT !["main"] = Low(nticks)]
        /\ Goto("main", IF pc["main"] = "ticksFirst" THEN "ticksHigh" ELSE "ticksEnd")
        /\ high' = high /\ since' = since
    BY <1>7 DEF TicksLow, At
  <2>2. pc'["main"] = IF pc["main"] = "ticksFirst" THEN "ticksHigh" ELSE "ticksEnd"
    BY <2>1, MainGoes DEF MainSteps
  <2>3. low'["main"] = Low(nticks) BY <1>1, <2>1 DEF Contexts
  <2>4. since["main"] <= nticks BY <2>1 DEF TicksRead, Ticking
  <2>5. nticks \in since["main"] .. nticks BY <1>1, <2>4
  <2> QED BY <1>2, <2>1, <2>2, <2>3, <2>4, <2>5 DEF TicksRead, High, Low
<1>8. CASE StartBlinking \/ Blink
  <2>1. UNCHANGED <<pc, high, low, since>> BY <1>8 DEF StartBlinking, Blink, frames
  <2> QED BY <1>2, <2>1 DEF TicksRead, High, Low
<1> QED BY <1>3, <1>4, <1>5, <1>6, <1>7, <1>8 DEF Main, Calls

\* The tick count read is that of a moment of the call, unless the low word
\* carried during it.
LEMMA WholeTicks ==
  ASSUME Inv, TicksRead, HasTicks, ~Carried(since["main"], nticks)
  PROVE  Got("main") \in since["main"] .. nticks
<1>1. nticks \in Nat /\ since["main"] \in Nat BY DEF Inv, TimerType, Contexts
<1>2. pc["main"] = "ticksEnd" BY DEF HasTicks, At
<1>3. PICK h \in since["main"] .. nticks : high["main"] = High(h) BY <1>2 DEF TicksRead
<1>4. PICK l \in since["main"] .. nticks : low["main"] = Low(l) BY <1>2 DEF TicksRead
<1>5. \A n \in since["main"] .. nticks : High(n) = High(nticks)
  <2> SUFFICES ASSUME NEW n \in since["main"] .. nticks PROVE High(n) = High(nticks) OBVIOUS
  <2>1. n \in Nat /\ since["main"] <= n /\ n <= nticks BY <1>1
  <2>2. High(since["main"]) <= High(n) /\ High(n) <= High(nticks) BY <1>1, <2>1, HighGrows
  <2>3. High(n) \in Nat /\ High(nticks) \in Nat BY <1>1, <2>1, Words
  <2>4. High(since["main"]) = High(nticks) BY DEF Carried
  <2> QED BY <2>2, <2>3, <2>4
<1>6. Got("main") = Joined(High(l), Low(l)) BY <1>3, <1>4, <1>5 DEF Got
<1>7. l \in Nat BY <1>1
<1> QED BY <1>6, <1>7, Words

LEMMA ClockTimer ==
  ASSUME Inv, ClockSet, TimerNext, UNCHANGED <<program, offset, clock, blinker>>
  PROVE  ClockSet'
<1>1. UNCHANGED <<call, asked, reset, told>> BY DEF program, clock
<1>2. nticks' \in {nticks, nticks + 1} BY TimerQuiet
<1>3. nticks \in Nat /\ nticks' \in Nat /\ nticks <= nticks' BY <1>2, Longer
<1>4. told[2] \in Nat /\ told[3] \in Nat BY DEF ClockSet
<1>5. told'[3] <= nticks' BY <1>1, <1>3, <1>4 DEF ClockSet
<1>6. pc'["main"] \in Ticking => told'[3] <= since'["main"] BY <1>1, TimerQuiet DEF ClockSet
<1> QED BY <1>1, <1>5, <1>6 DEF ClockSet, Carried, High

LEMMA ClockMain ==
  ASSUME Inv, TicksRead, ClockSet, Main
  PROVE  ClockSet'
<1>1. /\ nticks \in Nat /\ since["main"] \in Nat
      /\ since \in [Contexts -> Nat] /\ pc \in [Contexts -> MainSteps \cup IsrSteps]
  BY DEF Inv, TimerType, Contexts
<1>2. nticks' = nticks BY MainHarmless DEF Harmless
<1>3. CASE StartTimestamp \/ Timestamp \/ Sleep \/ SleepStarted \/ Spin
  <2>1. /\ Goto("main", "getHigh") /\ UNCHANGED <<reset, told>>
        /\ call' # "settod" \/ UNCHANGED <<call, asked>>
    BY <1>3 DEF StartTimestamp, Timestamp, Sleep, SleepStarted, Spin, Begin, clock, program
  <2>2. pc'["main"] = "getHigh" BY <2>1, MainGoes DEF MainSteps
  <2> QED BY <1>2, <2>1, <2>2 DEF ClockSet, Ticking, Carried, High
<1>4. CASE GetTimeOfDay \/ SetTimeOfDay
  <2>1. /\ since' = [since EXCEPT !["main"] = nticks] /\ UNCHANGED <<reset, told>>
    BY <1>4 DEF GetTimeOfDay, SetTimeOfDay, Begin, clock
  <2>2. since'["main"] = nticks BY <1>1, <2>1 DEF Contexts
  <2>3. call' = "settod" => asked' \in Nat \X (0 .. Us - 1)
    BY <1>4, TimeAssumption DEF GetTimeOfDay, SetTimeOfDay, Begin
  <2> QED BY <1>2, <2>1, <2>2, <2>3 DEF ClockSet, Carried, High
<1>5. CASE TimestampStarted \/ TimestampRead \/ SleepOver \/ TimeOfDay
  <2>1. Goto("main", "idle") /\ UNCHANGED <<reset, told>> /\ call' = "none"
    BY <1>5 DEF TimestampStarted, TimestampRead, SleepOver, TimeOfDay, Return, clock
  <2>2. pc'["main"] = "idle" BY <2>1, MainGoes DEF MainSteps
  <2> QED BY <1>2, <2>1, <2>2 DEF ClockSet, Ticking, Carried, High
<1>6. CASE TimeOfDaySet
  <2> DEFINE n == Got("main")  a == asked[1]  b == asked[2]
  <2>1. /\ HasTicks /\ call = "settod" /\ Goto("main", "idle") /\ call' = "none"
        /\ reset' = <<a - Seconds(n), b - Microseconds(n)>>
        /\ told' = <<a * Us + b, since["main"], nticks>>
    BY <1>6 DEF TimeOfDaySet, Return
  <2>2. pc'["main"] = "idle" BY <2>1, MainGoes DEF MainSteps
  <2>3. asked \in Nat \X (0 .. Us - 1) BY <2>1 DEF ClockSet
  <2>4. a \in Nat /\ b \in Nat /\ Us \in Nat \ {0} BY <2>3, TimeAssumption
  <2>5. n \in Nat
    <3>1. high["main"] \in Nat /\ low["main"] \in Nat /\ Base \in Nat
      BY SizesAssumption DEF Inv, TimerType, Contexts
    <3> QED BY <3>1, SMT DEF Got, Joined
  <2>6. since["main"] <= nticks BY <2>1 DEF HasTicks, At, TicksRead, Ticking
  <2> HIDE DEF n, a, b
  <2> DEFINE s == Seconds(n)  m == Microseconds(n)
  <2>7. s \in Nat /\ m \in Nat /\ s * Us + m = n * Step BY <2>5, TickTime
  <2>8. n \in since["main"] .. nticks \/ Carried(since["main"], nticks)
    BY <2>1, WholeTicks DEF n
  <2> HIDE DEF s, m
  <2>9. a * Us \in Nat /\ s * Us \in Nat /\ (a - s) * Us = a * Us - s * Us
    BY <2>4, <2>7, SMT
  <2>10. (a - s) * Us + (b - m) = (a * Us + b) - n * Step BY <2>4, <2>7, <2>9
  <2>11. /\ reset'[1] = a - s /\ reset'[2] = b - m /\ reset' \in Int \X Int
         /\ told'[1] = a * Us + b /\ told'[2] = since["main"] /\ told'[3] = nticks
         /\ told' \in Nat \X Nat \X Nat
    <3>1. a - s \in Int /\ b - m \in Int /\ a * Us + b \in Nat BY <2>4, <2>7, <2>9
    <3> QED BY <1>1, <2>1, <3>1 DEF s, m
  <2>12. n \in since["main"] .. nticks =>
           \E then \in told'[2] .. told'[3] : reset'[1] * Us + reset'[2] = told'[1] - then * Step
    BY <2>10, <2>11
  <2> QED BY <1>1, <1>2, <2>1, <2>2, <2>6, <2>8, <2>11, <2>12 DEF ClockSet, Ticking, Carried, High
<1>7. CASE TicksHigh \/ TicksLow
  <2>1. /\ pc["main"] \in Ticking /\ since' = since /\ UNCHANGED <<call, asked, reset, told>>
    BY <1>7 DEF TicksHigh, TicksLow, At, Ticking, program, clock
  <2> QED BY <1>2, <2>1 DEF ClockSet, Carried, High
<1>8. CASE StartBlinking \/ Blink
  <2>1. UNCHANGED <<pc, since, call, asked, reset, told>>
    BY <1>8 DEF StartBlinking, Blink, frames, program, clock
  <2> QED BY <1>2, <2>1 DEF ClockSet, Carried, High
<1> QED BY <1>3, <1>4, <1>5, <1>6, <1>7, <1>8 DEF Main, Calls

\* gettimeofday() answers the time that settimeofday() last set plus the time
\* of the ticks since, whole microseconds carried or borrowed, unless the low
\* word of the tick counter carried while one of the two was reading it.
THEOREM TellsTime == SysSpec => TimeOfDayRight
<1> DEFINE All == Inv /\ TicksRead /\ ClockSet
<1>1. SysInit => All
  <2> SUFFICES ASSUME SysInit PROVE TicksRead /\ ClockSet BY InitInv
  <2>1. pc["main"] = "getHigh" /\ nticks = 0 /\ call = "none"
        /\ reset = <<0, 0>> /\ told = <<0, 0, 0>>
    BY DEF SysInit, Init, Contexts
  <2>2. Us \in Nat /\ Step \in Nat BY StepType, TimeAssumption
  <2> HIDE DEF Step
  <2>3. 0 \in told[2] .. told[3] /\ reset[1] * Us + reset[2] = told[1] - 0 * Step
    BY <2>1, <2>2
  <2> QED BY <2>1, <2>3 DEF TicksRead, ClockSet, Ticking
<1>2. All /\ [SysNext]_sysVars => All'
  <2> SUFFICES ASSUME All, [SysNext]_sysVars PROVE All' OBVIOUS
  <2>1. Inv' BY InvStep
  <2>2. CASE Main BY <2>1, <2>2, TicksReadMain, ClockMain
  <2>3. CASE TimerNext /\ UNCHANGED <<program, offset, clock, blinker>>
    BY <2>1, <2>3, TicksReadTimer, ClockTimer
  <2>4. CASE UNCHANGED sysVars
    <3>1. UNCHANGED <<call, asked, reset, told, pc, high, low, since, nticks>>
      BY <2>4 DEF sysVars, vars, software, frames, program, clock
    <3> QED BY <2>1, <3>1 DEF TicksRead, ClockSet, Carried, High, Low
  <2> QED BY <2>2, <2>3, <2>4 DEF SysNext
<1>3. All /\ [SysNext]_sysVars =>
        [HasTicks /\ call = "gettod" /\ call' = "none"
           /\ ~Carried(since["main"], nticks) /\ ~Carried(told[2], told[3]) =>
         \E now \in since["main"] .. nticks, then \in told[2] .. told[3] :
           Answer[1] * Us + Answer[2] = told[1] + (now - then) * (Us \div Rate)]_sysVars
  <2> SUFFICES ASSUME All, HasTicks,
                      ~Carried(since["main"], nticks), ~Carried(told[2], told[3])
               PROVE  \E now \in since["main"] .. nticks, then \in told[2] .. told[3] :
                        Answer[1] * Us + Answer[2] = told[1] + (now - then) * Step
    BY DEF Step
  <2> DEFINE n == Got("main")  s == Seconds(n)  m == Microseconds(n)
  <2>1. n \in since["main"] .. nticks BY WholeTicks
  <2>2. PICK then \in told[2] .. told[3] : reset[1] * Us + reset[2] = told[1] - then * Step
    BY DEF ClockSet
  <2>3. /\ reset[1] \in Int /\ reset[2] \in Int /\ told[1] \in Nat /\ told[2] \in Nat
        /\ told[3] \in Nat /\ nticks \in Nat /\ since["main"] \in Nat
    BY DEF ClockSet, Inv, TimerType, Contexts
  <2>4. told[3] <= since["main"] BY DEF ClockSet, HasTicks, At, Ticking
  <2>5. n \in Nat /\ then \in Nat /\ then <= n BY <2>1, <2>2, <2>3, <2>4
  <2>6. Answer = Normal(reset[1] + s, reset[2] + m) BY DEF Answer
  <2> HIDE DEF n
  <2>7. s \in Nat /\ m \in Nat /\ s * Us + m = n * Step BY <2>5, TickTime
  <2>8. Us \in Nat /\ Step \in Nat BY StepType, TimeAssumption
  <2> HIDE DEF s, m, Step
  <2> DEFINE total == (reset[1] + s) * Us + (reset[2] + m)
  <2>9. total = told[1] + (n - then) * Step
    <3>1. (reset[1] + s) * Us = reset[1] * Us + s * Us /\ reset[1] * Us \in Int /\ s * Us \in Int
      BY <2>3, <2>7, <2>8, SMT
    <3>2. (n - then) * Step = n * Step - then * Step /\ n * Step \in Int /\ then * Step \in Int
      BY <2>5, <2>8, SMT
    <3> QED BY <2>2, <2>3, <2>7, <3>1, <3>2
  <2>10. (n - then) * Step >= 0 /\ (n - then) * Step \in Int
    <3>1. n - then \in Nat BY <2>5
    <3> QED BY <2>8, <3>1, SMT
  <2>11. total >= 0 BY <2>3, <2>9, <2>10
  <2>12. Answer[1] * Us + Answer[2] = total
    <3>1. reset[1] + s \in Int /\ reset[2] + m \in Int BY <2>3, <2>7
    <3> HIDE DEF Answer
    <3> QED BY <2>6, <2>11, <3>1, NormalValue
  <2> QED BY <2>1, <2>2, <2>9, <2>12
<1> QED BY <1>1, <1>2, <1>3, PTL DEF SysSpec, TimeOfDayRight
=============================================================================
