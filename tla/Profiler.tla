------------------------------ MODULE Profiler ------------------------------
(***************************************************************************)
(* The call-graph profiler and the heap under it: mcount() before every    *)
(* function, __mcount_record() for arcs it does not find, the start of the *)
(* sampling alarm, the slabs the records are cut from, and sbrk(), which   *)
(* the program calls as well.                                              *)
(*                                                                         *)
(* The main program and the interrupt handlers are both instrumented.  A   *)
(* handler may come between any two accesses while interrupts are on; it   *)
(* is not interrupted itself.  Lists only grow, at the head, so a search   *)
(* sees the list as it was when it read the head: one step per list.  All  *)
(* functions here share one hash bucket; the others are independent of it. *)
(***************************************************************************)
EXTENDS Integers, Sequences, FiniteSetsExt

CONSTANTS
  Functions, Callers,  \* the values of self_pc and from_pc
  Record,              \* sizeof an entry and an arc
  Slab,                \* MCOUNT_SLAB_INCREMENT
  Histogram,           \* bytes of s_pcsamples
  HeapLimit,           \* __alt_heap_limit, counted from __alt_heap_start
  Requests,            \* the increments the program gives sbrk()
  MaxCalls,            \* bound on the functions each context calls
  MaxGrowths           \* bound on the program's calls of sbrk()

ASSUME SizesAssumption ==
  /\ Functions # {} /\ Callers # {}
  /\ Record \in Nat \ {0} /\ Slab \in Nat /\ Slab >= Record
  /\ Histogram \in Nat /\ HeapLimit \in Nat /\ Requests \subseteq Nat \ {0}
  \* A record is made of words, and the linker script aligns the heap.
  /\ Record % 4 = 0 /\ HeapLimit % 4 = 0
  /\ MaxCalls \in [{"main", "isr"} -> Nat] /\ MaxGrowths \in Nat

Contexts == {"main", "isr"}
Failed == -1

VARIABLES
  heapEnd,              \* heap_end
  given,                \* what sbrk() and the slabs have handed out: [at, size]
  growths,              \* calls of sbrk() the program has made
  slabPtr, slabSize,    \* mcount_slab_ptr, mcount_slab_size
  functions,            \* the entries of the bucket, oldest first: self_pc
  arcs,                 \* the arcs, oldest first: [entry, from, count]
  needInit,             \* pcsample_need_init
  rate,                 \* alt_ticks_per_second(): 0 until alt_sysclk_init()
  started,              \* times the sampling alarm was put on the alarm list
  mie,                  \* global interrupt enable
  trapped,              \* 1 while an interrupt is handled
  pc, self, from,       \* per context: the step of mcount() and its arguments
  entry, arc, count,    \*   t3, t1 and t0: indices (0 for NULL) and the count
  saved,                \*   context of __mcount_record()
  calls,                \* calls finished, per function and caller, and
  spoilt,               \*   increments a handler made between a load and a store
  begun                 \* calls each context has begun

heap == <<heapEnd, given>>
slab == <<slabPtr, slabSize>>
graph == <<functions, arcs>>
sampler == <<needInit, started>>
cpu == <<mie, trapped>>
frame == <<self, from, entry, arc, count, saved>>
ghosts == <<calls, spoilt, begun>>
vars == <<heap, growths, slab, graph, sampler, rate, cpu, pc, frame, ghosts>>

Zero == [c \in Contexts |-> 0]

Init ==
  /\ heapEnd = 0 /\ given = <<>> /\ growths = 0
  /\ slabPtr = 0 /\ slabSize = 0
  /\ functions = <<>> /\ arcs = <<>>
  /\ needInit = 1 /\ rate = 0 /\ started = 0
  /\ mie = 1 /\ trapped = 0
  /\ pc = [c \in Contexts |-> "idle"]
  /\ self \in [Contexts -> {CHOOSE f \in Functions : TRUE}]
  /\ from \in [Contexts -> {CHOOSE g \in Callers : TRUE}]
  /\ entry = Zero /\ arc = Zero /\ count = Zero /\ saved = Zero
  /\ calls = [x \in Functions \X Callers |-> 0]
  /\ spoilt = calls
  /\ begun = Zero

Runs(c) == IF c = "main" THEN trapped = 0 ELSE trapped = 1
At(c, here) == Runs(c) /\ pc[c] = here
Goto(c, there) == pc' = [pc EXCEPT ![c] = there]

(***************************************************************************)
(* sbrk(), with interrupts off from end to end.                            *)
(***************************************************************************)
Aligned(v) == 4 * ((v + 3) \div 4)
Fits(n) == Aligned(heapEnd) + n <= HeapLimit
Broken(n) == IF Fits(n) THEN Aligned(heapEnd) ELSE Failed
HeapEnd(n) == IF Fits(n) THEN Aligned(heapEnd) + n ELSE Aligned(heapEnd)

Grow(n) ==
  /\ At("main", "idle") /\ growths < MaxGrowths
  /\ heapEnd' = HeapEnd(n)
  /\ given' = IF Fits(n) THEN Append(given, [at |-> Broken(n), size |-> n]) ELSE given
  /\ growths' = growths + 1
  /\ UNCHANGED <<slab, graph, sampler, rate, cpu, pc, frame, ghosts>>

\* mcount_allocate(): what sbrk() returns is not looked at.
\* Mutant: a fresh slab is taken for untouched.
SlabLeft_WrongNotTaken(n) == IF n > slabSize THEN Slab ELSE slabSize - n
SlabLeft(n) == (IF n > slabSize THEN Slab ELSE slabSize) - n

Allocate(n) ==
  LET at == IF n > slabSize THEN Broken(Slab) ELSE slabPtr IN
  /\ heapEnd' = IF n > slabSize THEN HeapEnd(Slab) ELSE heapEnd
  /\ slabPtr' = at + n
  /\ slabSize' = SlabLeft(n)
  /\ given' = Append(given, [at |-> at, size |-> n])

(***************************************************************************)
(* mcount()                                                                *)
(***************************************************************************)
Call(c, f, g) ==
  /\ At(c, "idle") /\ begun[c] < MaxCalls[c]
  /\ self' = [self EXCEPT ![c] = f] /\ from' = [from EXCEPT ![c] = g]
  /\ begun' = [begun EXCEPT ![c] = @ + 1]
  /\ Goto(c, "function")
  /\ UNCHANGED <<heap, growths, slab, graph, sampler, rate, cpu, entry, arc, count, saved, calls, spoilt>>

\* The newest record wanted among those given, 0 where there is none.
Newest(S) == IF S = {} THEN 0 ELSE Max(S)

FindFunction(c) ==
  /\ At(c, "function")
  /\ entry' = [entry EXCEPT ![c] = Newest({i \in DOMAIN functions : functions[i] = self[c]})]
  /\ Goto(c, IF entry'[c] = 0 THEN "test" ELSE "arcs")
  /\ UNCHANGED <<heap, growths, slab, graph, sampler, rate, cpu, self, from, arc, count, saved, ghosts>>

\* Mutant: the search looks at the head of the list only.
ArcsOf_WrongHead(i) == {j \in DOMAIN arcs : arcs[j].entry = i /\ \A k \in DOMAIN arcs : arcs[k].entry = i => k <= j}
ArcsOf(i) == {j \in DOMAIN arcs : arcs[j].entry = i}

FindArc(c) ==
  /\ At(c, "arcs")
  /\ arc' = [arc EXCEPT ![c] = Newest({j \in ArcsOf(entry[c]) : arcs[j].from = from[c]})]
  /\ Goto(c, IF arc'[c] = 0 THEN "test" ELSE "load")
  /\ UNCHANGED <<heap, growths, slab, graph, sampler, rate, cpu, self, from, entry, count, saved, ghosts>>

LoadCount(c) ==
  /\ At(c, "load")
  /\ count' = [count EXCEPT ![c] = arcs[arc[c]].count]
  /\ Goto(c, "store")
  /\ UNCHANGED <<heap, growths, slab, graph, sampler, rate, cpu, self, from, entry, arc, saved, ghosts>>

\* Mutant: the count is stored as it was loaded.
Counted_WrongFromOne(c) == count[c]
Counted(c) == count[c] + 1

\* A handler that counts what the main program has loaded counts in vain.
InVain(c) == c = "isr" /\ pc["main"] = "store" /\ arc["main"] = arc[c]

Returned(c) ==
  /\ calls' = [calls EXCEPT ![<<self[c], from[c]>>] = @ + 1]
  /\ entry' = [entry EXCEPT ![c] = 0] /\ arc' = [arc EXCEPT ![c] = 0]
  /\ count' = [count EXCEPT ![c] = 0] /\ saved' = [saved EXCEPT ![c] = 0]
  /\ Goto(c, "idle")
  /\ UNCHANGED <<self, from, begun>>

StoreCount(c) ==
  /\ At(c, "store")
  /\ arcs' = [arcs EXCEPT ![arc[c]].count = Counted(c)]
  /\ spoilt' = IF InVain(c) THEN [spoilt EXCEPT ![<<self[c], from[c]>>] = @ + 1] ELSE spoilt
  /\ Returned(c)
  /\ UNCHANGED <<heap, growths, slab, functions, sampler, rate, cpu>>

(***************************************************************************)
(* __mcount_record(): first the sampler.                                   *)
(***************************************************************************)
TestInit(c) ==
  /\ At(c, "test")
  /\ Goto(c, IF needInit = 1 THEN "clear" ELSE "mask")
  /\ UNCHANGED <<heap, growths, slab, graph, sampler, rate, cpu, frame, ghosts>>

ClearInit(c) ==
  /\ At(c, "clear")
  /\ needInit' = 0
  /\ Goto(c, "sampler")
  /\ UNCHANGED <<heap, growths, slab, graph, started, rate, cpu, frame, ghosts>>

\* niosv_pcsample_init() without a system clock: to be tried again.
NoClock(c) ==
  /\ At(c, "sampler") /\ rate = 0
  /\ needInit' = 1
  /\ Goto(c, "mask")
  /\ UNCHANGED <<heap, growths, slab, graph, started, rate, cpu, frame, ghosts>>

SetHistogram(c) ==
  /\ At(c, "sampler") /\ rate # 0
  /\ heapEnd' = HeapEnd(Histogram)
  /\ given' = Append(given, [at |-> Broken(Histogram), size |-> Histogram])
  /\ Goto(c, "start")
  /\ UNCHANGED <<growths, slab, graph, sampler, rate, cpu, frame, ghosts>>

\* Mutant: a sampler that was started is started again.
InitResult_WrongAgain == 1
InitResult == 0

StartSampling(c) ==
  /\ At(c, "start")
  /\ started' = started + 1
  /\ needInit' = InitResult
  /\ Goto(c, "mask")
  /\ UNCHANGED <<heap, growths, slab, graph, rate, cpu, frame, ghosts>>

(***************************************************************************)
(* Then the records, with interrupts off.                                  *)
(***************************************************************************)
\* Mutant: the records are added with interrupts on.
Masked_WrongKept == mie
Masked == 0

Mask(c) ==
  /\ At(c, "mask")
  /\ saved' = [saved EXCEPT ![c] = mie]
  /\ mie' = Masked
  /\ Goto(c, IF entry[c] = 0 THEN "entry" ELSE "arc")
  /\ UNCHANGED <<heap, growths, slab, graph, sampler, rate, trapped, self, from, entry, arc, count, ghosts>>

AddEntry(c) ==
  /\ At(c, "entry")
  /\ Allocate(Record)
  /\ functions' = Append(functions, self[c])
  /\ entry' = [entry EXCEPT ![c] = Len(functions) + 1]
  /\ Goto(c, "arc")
  /\ UNCHANGED <<growths, arcs, sampler, rate, cpu, self, from, arc, count, saved, ghosts>>

AddArc(c) ==
  /\ At(c, "arc")
  /\ Allocate(Record)
  /\ arcs' = Append(arcs, [entry |-> entry[c], from |-> from[c], count |-> 1])
  /\ Goto(c, "unmask")
  /\ UNCHANGED <<growths, functions, sampler, rate, cpu, frame, ghosts>>

Unmask(c) ==
  /\ At(c, "unmask")
  /\ mie' = IF saved[c] = 1 THEN 1 ELSE mie
  /\ Returned(c)
  /\ UNCHANGED <<heap, growths, slab, graph, sampler, rate, trapped, spoilt>>

(***************************************************************************)
(* Interrupts, and the start of the system clock.                          *)
(***************************************************************************)
Enter ==
  /\ trapped = 0 /\ mie = 1
  /\ trapped' = 1 /\ mie' = 0
  /\ UNCHANGED <<heap, growths, slab, graph, sampler, rate, pc, frame, ghosts>>

Leave ==
  /\ At("isr", "idle")
  /\ trapped' = 0 /\ mie' = 1
  /\ UNCHANGED <<heap, growths, slab, graph, sampler, rate, pc, frame, ghosts>>

StartClock ==
  /\ At("main", "idle") /\ rate = 0
  /\ rate' = 1
  /\ UNCHANGED <<heap, growths, slab, graph, sampler, cpu, pc, frame, ghosts>>

Mcount(c) == FindFunction(c) \/ FindArc(c) \/ LoadCount(c) \/ StoreCount(c)
McountRecord(c) ==
  \/ TestInit(c) \/ ClearInit(c) \/ NoClock(c) \/ SetHistogram(c) \/ StartSampling(c)
  \/ Mask(c) \/ AddEntry(c) \/ AddArc(c) \/ Unmask(c)

Next ==
  \/ \E c \in Contexts :
       \/ \E f \in Functions, g \in Callers : Call(c, f, g)
       \/ Mcount(c) \/ McountRecord(c)
  \/ \E n \in Requests : Grow(n)
  \/ Enter \/ Leave \/ StartClock

Spec == Init /\ [][Next]_vars

(***************************************************************************)
(* Properties                                                              *)
(***************************************************************************)
\* mcount() follows the arcs of the function it has found without testing for
\* an empty list: there always is an arc, whatever the interrupted context was
\* about to add.
SearchSafe == \A c \in Contexts : At(c, "arcs") => ArcsOf(entry[c]) # {}

\* Nothing handed out overlaps anything else handed out or leaves the heap,
\* records cut from slabs and blocks of the program alike, as long as sbrk()
\* refuses the profiler nothing.
Refused == \E k \in DOMAIN given : given[k].at < 0
BlocksApart ==
  ~Refused =>
    \A k \in DOMAIN given :
      /\ given[k].at + given[k].size <= heapEnd /\ heapEnd <= HeapLimit
      /\ given[k].at % 4 = 0
      /\ \A l \in 1 .. k - 1 :
           \/ given[k].at + given[k].size <= given[l].at
           \/ given[l].at + given[l].size <= given[k].at

\* The copies of an arc the lookup races leave behind add up: the counts miss
\* just the calls a handler counted between a load and a store of the same
\* count, and no other.
Copies(f, g) == {j \in DOMAIN arcs : arcs[j].from = g /\ functions[arcs[j].entry] = f}
InFlight(f, g) ==
  Cardinality({c \in Contexts : pc[c] = "unmask" /\ self[c] = f /\ from[c] = g})
TotalCount(f, g) == MapThenSumSet(LAMBDA j : arcs[j].count, Copies(f, g))
CountsAddUp ==
  pc["main"] # "store" =>
  \A f \in Functions, g \in Callers :
    TotalCount(f, g) + spoilt[<<f, g>>]
      = calls[<<f, g>>] + InFlight(f, g)

\* However lookups and interrupts fall, a function has at most two entries and
\* an arc at most three copies.
FewCopies ==
  /\ \A f \in Functions : Cardinality({i \in DOMAIN functions : functions[i] = f}) <= 2
  /\ \A f \in Functions, g \in Callers : Cardinality(Copies(f, g)) <= 3

\* The sampler is started once, or twice where a handler came between the test
\* and the clearing of pcsample_need_init, and then never again.
InStart(c) == pc[c] \in {"clear", "sampler", "start"}
SamplerSettles ==
  /\ started + Cardinality({c \in Contexts : InStart(c)}) <= 2
  /\ started > 0 /\ (\A c \in Contexts : ~InStart(c)) => needInit = 0
=============================================================================
