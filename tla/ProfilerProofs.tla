--------------------------- MODULE ProfilerProofs ---------------------------
(***************************************************************************)
(* Theorems about the profiler and the heap under it, for every set of     *)
(* functions and callers, every size of a slab, the histogram and the      *)
(* heap, any number of calls and any interleaving with the handlers.       *)
(***************************************************************************)
EXTENDS Profiler, SequenceTheorems, FiniteSetTheorems, TLAPS

-----------------------------------------------------------------------------
(* Induction and recursion: of a statement that fails for some number there *)
(* is a first failure, and an equation that gives each value of a function  *)
(* from values of smaller rank has a solution.                              *)

\* A set of numbers has a least one: induction, told of the first failure.
LEMMA LeastNat ==
  ASSUME NEW S \in SUBSET Nat, S # {}
  PROVE  \E m \in S : \A k \in S : m <= k
<1> DEFINE F == FiniteSubsetsOf(Nat)
           R == StrictSubsetOrdering(Nat)
           T == {1 .. d : d \in S}
<1>1. \A d \in Nat : 1 .. d \in F
  <2> SUFFICES ASSUME NEW d \in Nat PROVE 1 .. d \in F
    OBVIOUS
  <2>1. 1 .. d \subseteq Nat /\ IsFiniteSet(1 .. d)
    BY FS_Interval
  <2> QED
    BY <2>1 DEF FiniteSubsetsOf
<1>2. T \subseteq F /\ T # {}
  BY <1>1
<1>3. IsWellFoundedOn(R, F)
  BY FS_StrictSubsetOrderingWellFounded
<1> HIDE DEF F, R, T
<1>4. PICK x \in T : \A y \in T : ~(<<y, x>> \in R)
  BY <1>2, <1>3, WFMin
<1>5. PICK m \in S : x = 1 .. m
  BY <1>4 DEF T
<1>6. ASSUME NEW k \in S, k < m PROVE FALSE
  <2>1. 1 .. k \in T /\ 1 .. k \in SUBSET Nat /\ 1 .. m \in SUBSET Nat
    BY <1>6 DEF T
  <2>2. 1 .. k \subseteq 1 .. m /\ m \in 1 .. m /\ m \notin 1 .. k
    BY <1>6
  <2>3. <<1 .. k, 1 .. m>> \in R
    BY <2>1, <2>2 DEF R, StrictSubsetOrdering
  <2> QED
    BY <1>4, <1>5, <2>1, <2>3
<1>7. \A k \in S : m <= k
  BY <1>6
<1> QED
  BY <1>7

\* Where a statement fails of some x, it fails of one of least rank.
LEMMA LeastRank ==
  ASSUME NEW X, NEW rank \in [X -> Nat], NEW S \in SUBSET X, S # {}
  PROVE  \E x \in S : \A y \in X : rank[y] < rank[x] => y \notin S
<1> DEFINE R == {rank[x] : x \in S}
<1>1. R \in SUBSET Nat /\ R # {}
  OBVIOUS
<1>2. PICK n \in R : \A k \in R : n <= k
  BY <1>1, LeastNat
<1>3. PICK x \in S : rank[x] = n
  BY <1>2
<1>4. \A y \in S : ~(rank[y] < rank[x])
  <2> SUFFICES ASSUME NEW y \in S, rank[y] < rank[x] PROVE FALSE
    OBVIOUS
  <2>1. n <= rank[y] /\ n \in Nat /\ rank[y] \in Nat
    BY <1>2
  <2> QED
    BY <1>3, <2>1
<1> QED
  BY <1>4

\* An equation u = G[u] has a solution when a value of G[u] depends only on
\* values of u of smaller rank: applied n times, G has settled the values of
\* rank below n.
Graded(G, X, V, rank, m) ==
  /\ V # {} /\ m \in Nat /\ rank \in [X -> 0 .. m]
  /\ G \in [[X -> V] -> [X -> V]]
  /\ \A u, v \in [X -> V] : \A x \in X :
        (\A y \in X : rank[y] < rank[x] => u[y] = v[y]) => G[u][x] = G[v][x]

LEMMA Fixpoint ==
  \A G, X, V, rank, m : Graded(G, X, V, rank, m) => \E u \in [X -> V] : G[u] = u
<1> SUFFICES ASSUME NEW G, NEW X, NEW V, NEW rank, NEW m, Graded(G, X, V, rank, m)
             PROVE  \E u \in [X -> V] : G[u] = u
  OBVIOUS
<1> USE DEF Graded
<1> DEFINE Settled(u, n) == \A x \in X : rank[x] < n => G[u][x] = u[x]
           S == {n \in Nat : ~\E u \in [X -> V] : Settled(u, n)}
<1>1. S = {}
  <2> SUFFICES ASSUME S # {} PROVE FALSE
    OBVIOUS
  <2>1. PICK n \in S : \A k \in S : n <= k
    BY LeastNat
  <2>2. n \in Nat /\ ~\E u \in [X -> V] : Settled(u, n)
    OBVIOUS
  <2>3. n # 0
    <3> SUFFICES ASSUME n = 0 PROVE FALSE
      OBVIOUS
    <3>1. PICK v \in V : TRUE
      OBVIOUS
    <3>2. [x \in X |-> v] \in [X -> V] /\ \A x \in X : ~(rank[x] < 0)
      OBVIOUS
    <3>3. Settled([x \in X |-> v], n)
      BY <3>2
    <3> QED
      BY <2>2, <3>2, <3>3
  <2> HIDE DEF Settled
  <2>4. n - 1 \in Nat /\ n - 1 \notin S
    <3>1. ~(n <= n - 1)
      BY <2>2
    <3> QED
      BY <2>1, <2>2, <2>3, <3>1
  <2>5. PICK u \in [X -> V] : Settled(u, n - 1)
    BY <2>4
  <2> USE DEF Settled
  <2>6. G[u] \in [X -> V]
    OBVIOUS
  <2>7. Settled(G[u], n)
    <3> SUFFICES ASSUME NEW x \in X, rank[x] < n PROVE G[G[u]][x] = G[u][x]
      OBVIOUS
    <3>1. \A y \in X : rank[y] < rank[x] => G[u][y] = u[y]
      <4> SUFFICES ASSUME NEW y \in X, rank[y] < rank[x] PROVE rank[y] < n - 1
        BY <2>5
      <4>1. rank[x] \in Nat /\ rank[y] \in Nat /\ n \in Nat
        OBVIOUS
      <4> QED
        BY <4>1
    <3> QED
      BY <2>6, <3>1
  <2> HIDE DEF Settled
  <2> QED
    BY <2>2, <2>6, <2>7
<1>2. m + 1 \in Nat
  OBVIOUS
<1>3. PICK u \in [X -> V] : Settled(u, m + 1)
  BY <1>1, <1>2
<1>4. \A x \in X : G[u][x] = u[x]
  <2> SUFFICES ASSUME NEW x \in X PROVE rank[x] < m + 1
    BY <1>3
  <2>1. rank[x] \in 0 .. m
    OBVIOUS
  <2> QED
    BY <2>1
<1>5. G[u] \in [X -> V]
  OBVIOUS
<1>6. G[u] = u
  BY <1>4, <1>5
<1> QED
  BY <1>6

-----------------------------------------------------------------------------
Steps ==
  {"idle", "function", "arcs", "load", "store", "test", "clear", "sampler", "start", "mask",
   "entry", "arc", "unmask"}

TypeOK ==
  /\ functions \in Seq(Functions)
  /\ arcs \in Seq([entry : Nat, from : Callers, count : Int])
  /\ needInit \in {0, 1} /\ rate \in {0, 1} /\ started \in Nat
  /\ mie \in {0, 1} /\ trapped \in {0, 1}
  /\ pc \in [Contexts -> Steps]
  /\ self \in [Contexts -> Functions] /\ from \in [Contexts -> Callers]
  /\ entry \in [Contexts -> Nat] /\ arc \in [Contexts -> Nat] /\ count \in [Contexts -> Int]
  /\ saved \in [Contexts -> {0, 1}]
  /\ \A c \in Contexts : pc[c] \in {"load", "store"} => arc[c] \in DOMAIN arcs

\* Records are added with interrupts off: a handler runs to its end, and never
\* while the program is adding any.
Masking == {"entry", "arc", "unmask"}

ModeInv ==
  /\ trapped = 0 => pc["isr"] = "idle"
  /\ trapped = 1 => mie = 0 /\ pc["main"] \notin Masking
  /\ pc["main"] \in Masking => mie = 0
  /\ pc["isr"] \in Masking => saved["isr"] = 0

\* What the search found is there, and only "arc" may have an entry without arcs.
SearchInv ==
  /\ \A c \in Contexts :
       /\ entry[c] <= Len(functions)
       /\ pc[c] \in {"idle", "function", "entry"} => entry[c] = 0
       /\ pc[c] \in {"arcs", "load", "store", "arc", "unmask"} => entry[c] # 0
  /\ \A j \in DOMAIN arcs : arcs[j].entry \in DOMAIN functions
  /\ \A i \in DOMAIN functions :
       ArcsOf(i) # {} \/ \E c \in Contexts : pc[c] = "arc" /\ entry[c] = i

\* Entries of f, and whether c is about to add one.
Entries(f) == {i \in DOMAIN functions : functions[i] = f}
Late == {"test", "clear", "sampler", "start", "mask"}
Adds(c, f) ==
  IF pc[c] \in Late \cup {"entry"} /\ entry[c] = 0 /\ self[c] = f THEN 1 ELSE 0

\* Copies of the arc from g at one entry, and whether c is about to add one.
CopiesAt(i, g) == {j \in DOMAIN arcs : arcs[j].entry = i /\ arcs[j].from = g}
AddsArc(c, i, g) ==
  IF pc[c] \in Late \cup {"arc"} /\ entry[c] = i /\ from[c] = g THEN 1 ELSE 0

\* A record is added twice only where both contexts had searched in vain; the
\* older of two entries is found no more, and has no arc twice.
EntryInv == \A f \in Functions :
  /\ Cardinality(Entries(f)) + Adds("main", f) + Adds("isr", f) <= 2
  /\ Adds("isr", f) = 1 => Entries(f) = {}

ArcInv == \A i \in DOMAIN functions, g \in Callers :
  /\ Cardinality(CopiesAt(i, g)) + AddsArc("main", i, g) + AddsArc("isr", i, g) <= 2
  /\ Adds("main", functions[i]) = 1 => Cardinality(CopiesAt(i, g)) + AddsArc("isr", i, g) <= 1

OlderInv == \A i \in DOMAIN functions, j \in DOMAIN functions :
  i < j /\ functions[i] = functions[j] =>
    /\ \A c \in Contexts : entry[c] # i
    /\ \A g \in Callers : Cardinality(CopiesAt(i, g)) <= 1

\* The blocks lie apart below heapEnd, and what is left of the slab lies apart
\* from all of them, once the heap has refused nothing.
Block == [at : Int, size : Nat]
Apart(a, m, b, n) == a + m <= b \/ b + n <= a
OnWord(v) == v % 4 = 0

BlocksInv == \A k \in DOMAIN given :
  /\ given[k].at + given[k].size <= heapEnd /\ OnWord(given[k].at)
  /\ \A l \in 1 .. k - 1 : Apart(given[k].at, given[k].size, given[l].at, given[l].size)

SlabInv ==
  /\ slabPtr >= 0 /\ OnWord(slabPtr)
  /\ slabSize > 0 =>
       /\ slabPtr + slabSize <= heapEnd
       /\ \A k \in DOMAIN given : Apart(slabPtr, slabSize, given[k].at, given[k].size)

HeapInv ==
  /\ heapEnd \in Nat /\ heapEnd <= HeapLimit
  /\ slabSize \in Nat /\ slabPtr \in Int /\ given \in Seq(Block)
  /\ ~Refused => BlocksInv /\ SlabInv

USE DEF heap, slab, graph, sampler, cpu, frame, ghosts

-----------------------------------------------------------------------------
LEMMA TwoContexts == Contexts = {"main", "isr"} /\ "main" # "isr"
BY DEF Contexts

\* The newest of a set of indices is one of them, or 0 where there is none.
LEMMA NewestIs ==
    ASSUME NEW N \in Nat, NEW S \in SUBSET (1 .. N)
    PROVE  /\ Newest(S) \in Nat
           /\ S = {} => Newest(S) = 0
           /\ S # {} => Newest(S) \in S /\ Newest(S) > 0 /\ \A x \in S : x <= Newest(S)
<1>1. CASE S = {}
  BY <1>1 DEF Newest
<1>2. CASE S # {}
  <2>1. \E m \in S : \A y \in S : m >= y
    <3> DEFINE U == {N - x : x \in S}
    <3>1. U \in SUBSET Nat /\ U # {}
      <4>1. \A x \in S : x \in 1 .. N /\ N - x \in Nat
        OBVIOUS
      <4>2. U \subseteq Nat
        BY <4>1
      <4>3. PICK x \in S : TRUE
        BY <1>2
      <4>4. N - x \in U
        BY <4>3
      <4> QED
        BY <4>2, <4>4
    <3>2. PICK u \in U : \A v \in U : <<v, u>> \notin OpToRel(<, Nat)
      BY <3>1, NatLessThanWellFounded, WFMin
    <3>3. PICK m \in S : u = N - m
      BY <3>2
    <3>4. ASSUME NEW y \in S PROVE m >= y
      <4>1. N - y \in U /\ N - y \in Nat /\ u \in Nat
        BY <3>1
      <4>2. ~(N - y < u)
        BY <3>2, <4>1 DEF OpToRel
      <4> QED
        BY <3>3, <4>1, <4>2
    <3> QED
      BY <3>4
  <2>2. Newest(S) = CHOOSE x \in S : \A y \in S : x >= y
    BY <1>2 DEF Newest, Max
  <2>3. Newest(S) \in S /\ \A y \in S : Newest(S) >= y
    BY <2>1, <2>2
  <2>4. Newest(S) \in 1 .. N
    BY <2>3
  <2> QED
    BY <1>2, <2>3, <2>4
<1> QED
  BY <1>1, <1>2

\* Storing a count changes no other field and no other record.
LEMMA StoreIs ==
    ASSUME TypeOK, NEW c \in Contexts, StoreCount(c)
    PROVE  /\ arcs' \in Seq([entry : Nat, from : Callers, count : Int])
           /\ Len(arcs') = Len(arcs) /\ DOMAIN arcs' = DOMAIN arcs
           /\ \A j \in DOMAIN arcs : arcs'[j].entry = arcs[j].entry /\ arcs'[j].from = arcs[j].from
           /\ arc[c] \in DOMAIN arcs /\ arcs'[arc[c]].count = count[c] + 1
           /\ \A j \in DOMAIN arcs \ {arc[c]} : arcs'[j] = arcs[j]
<1> DEFINE k == arc[c]  v == count[c] + 1  R == [entry : Nat, from : Callers, count : Int]
<1>1. k \in DOMAIN arcs /\ v \in Int /\ arcs \in Seq(R)
  BY DEF TypeOK, StoreCount, At
<1>2. arcs' = [arcs EXCEPT ![k].count = v]
  BY DEF StoreCount, Counted
<1>3. DOMAIN arcs' = DOMAIN arcs /\ Len(arcs) \in Nat /\ DOMAIN arcs = 1 .. Len(arcs)
  BY <1>1, <1>2
<1>4. \A j \in 1 .. Len(arcs) : arcs[j] \in R
  <2> HIDE DEF R
  <2> QED
    BY <1>1
<1> DEFINE r == [arcs[k] EXCEPT !.count = v]
<1>5. r \in R /\ r.entry = arcs[k].entry /\ r.from = arcs[k].from /\ r.count = v
  BY <1>1, <1>3, <1>4
<1>6. arcs' = [arcs EXCEPT ![k] = r]
  BY <1>2
<1> HIDE DEF r
<1>7. \A j \in DOMAIN arcs : arcs'[j] = IF j = k THEN r ELSE arcs[j]
  BY <1>6
<1>8. arcs' \in Seq(R)
  <2> HIDE DEF R
  <2>1. \A j \in 1 .. Len(arcs) : arcs'[j] \in R
    BY <1>3, <1>4, <1>5, <1>7
  <2>2. arcs' = [j \in 1 .. Len(arcs) |-> arcs'[j]]
    BY <1>3, <1>6
  <2> QED
    BY <1>3, <2>1, <2>2
<1>9. Len(arcs') = Len(arcs)
  BY <1>3, <1>8
<1> QED
  BY <1>1, <1>3, <1>5, <1>7, <1>8, <1>9

-----------------------------------------------------------------------------
LEMMA InitType == Init => TypeOK
<1>1. Functions # {} /\ Callers # {}
  BY SizesAssumption
<1> QED
  BY <1>1 DEF Init, TypeOK, Steps, Contexts, Zero

\* The finds: an index of a record that is there, or 0.
LEMMA FindFunctionIs ==
    ASSUME TypeOK, NEW c \in Contexts, FindFunction(c)
    PROVE  /\ entry' \in [Contexts -> Nat] /\ \A d \in Contexts \ {c} : entry'[d] = entry[d]
           /\ pc' \in [Contexts -> Steps] /\ \A d \in Contexts \ {c} : pc'[d] = pc[d]
           /\ pc[c] = "function" /\ pc'[c] = IF entry'[c] = 0 THEN "test" ELSE "arcs"
           /\ entry'[c] = 0 => Entries(self[c]) = {}
           /\ entry'[c] # 0 => entry'[c] \in Entries(self[c]) /\ \A i \in Entries(self[c]) : i <= entry'[c]
<1> DEFINE S == {i \in DOMAIN functions : functions[i] = self[c]}
<1>1. Len(functions) \in Nat /\ DOMAIN functions = 1 .. Len(functions)
  BY DEF TypeOK
<1>2. S \in SUBSET (1 .. Len(functions)) /\ S = Entries(self[c])
  BY <1>1 DEF Entries
<1>3. entry' = [entry EXCEPT ![c] = Newest(S)] /\ pc[c] = "function"
      /\ pc' = [pc EXCEPT ![c] = IF entry'[c] = 0 THEN "test" ELSE "arcs"]
  BY DEF FindFunction, At, Goto
<1> HIDE DEF S
<1>4. /\ Newest(S) \in Nat
      /\ S = {} => Newest(S) = 0
      /\ S # {} => Newest(S) \in S /\ Newest(S) > 0 /\ \A x \in S : x <= Newest(S)
  BY <1>1, <1>2, NewestIs
<1>5. entry' \in [Contexts -> Nat] /\ \A d \in Contexts \ {c} : entry'[d] = entry[d]
      /\ entry'[c] = Newest(S)
  <2>1. entry \in [Contexts -> Nat] /\ Newest(S) \in Nat /\ entry' = [entry EXCEPT ![c] = Newest(S)]
    BY <1>3, <1>4 DEF TypeOK
  <2> QED
    BY <2>1
<1>6. pc' \in [Contexts -> Steps] /\ \A d \in Contexts \ {c} : pc'[d] = pc[d]
      /\ pc'[c] = IF entry'[c] = 0 THEN "test" ELSE "arcs"
  BY <1>3 DEF TypeOK, Steps
<1> QED
  BY <1>2, <1>3, <1>4, <1>5, <1>6

LEMMA FindArcIs ==
    ASSUME TypeOK, NEW c \in Contexts, FindArc(c)
    PROVE  /\ arc' \in [Contexts -> Nat] /\ \A d \in Contexts \ {c} : arc'[d] = arc[d]
           /\ pc' \in [Contexts -> Steps] /\ \A d \in Contexts \ {c} : pc'[d] = pc[d]
           /\ pc[c] = "arcs" /\ pc'[c] = IF arc'[c] = 0 THEN "test" ELSE "load"
           /\ arc'[c] = 0 => CopiesAt(entry[c], from[c]) = {}
           /\ arc'[c] # 0 => arc'[c] \in DOMAIN arcs /\ arc'[c] \in CopiesAt(entry[c], from[c])
<1> DEFINE S == {j \in ArcsOf(entry[c]) : arcs[j].from = from[c]}
<1>1. Len(arcs) \in Nat /\ DOMAIN arcs = 1 .. Len(arcs)
  BY DEF TypeOK
<1>2. S \in SUBSET (1 .. Len(arcs)) /\ S = CopiesAt(entry[c], from[c])
  BY <1>1 DEF ArcsOf, CopiesAt
<1>3. arc' = [arc EXCEPT ![c] = Newest(S)] /\ pc[c] = "arcs"
      /\ pc' = [pc EXCEPT ![c] = IF arc'[c] = 0 THEN "test" ELSE "load"]
  BY DEF FindArc, At, Goto
<1> HIDE DEF S
<1>4. /\ Newest(S) \in Nat
      /\ S = {} => Newest(S) = 0
      /\ S # {} => Newest(S) \in S /\ Newest(S) > 0 /\ \A x \in S : x <= Newest(S)
  BY <1>1, <1>2, NewestIs
<1>5. arc' \in [Contexts -> Nat] /\ \A d \in Contexts \ {c} : arc'[d] = arc[d]
      /\ arc'[c] = Newest(S)
  <2>1. arc \in [Contexts -> Nat] /\ Newest(S) \in Nat /\ arc' = [arc EXCEPT ![c] = Newest(S)]
    BY <1>3, <1>4 DEF TypeOK
  <2> QED
    BY <2>1
<1>6. pc' \in [Contexts -> Steps] /\ \A d \in Contexts \ {c} : pc'[d] = pc[d]
      /\ pc'[c] = IF arc'[c] = 0 THEN "test" ELSE "load"
  BY <1>3 DEF TypeOK, Steps
<1> QED
  BY <1>1, <1>2, <1>3, <1>4, <1>5, <1>6

\* The additions: one more record at the end.
LEMMA AddEntryIs ==
    ASSUME TypeOK, NEW c \in Contexts, AddEntry(c)
    PROVE  /\ functions' \in Seq(Functions) /\ Len(functions') = Len(functions) + 1
           /\ DOMAIN functions' = DOMAIN functions \cup {Len(functions) + 1}
           /\ Len(functions) + 1 \notin DOMAIN functions
           /\ functions'[Len(functions) + 1] = self[c]
           /\ \A i \in DOMAIN functions : functions'[i] = functions[i]
<1>1. functions' = Append(functions, self[c]) /\ functions \in Seq(Functions) /\ self[c] \in Functions
  BY DEF AddEntry, TypeOK
<1> QED
  BY <1>1

LEMMA AddArcIs ==
    ASSUME TypeOK, NEW c \in Contexts, AddArc(c)
    PROVE  /\ arcs' \in Seq([entry : Nat, from : Callers, count : Int])
           /\ DOMAIN arcs' = DOMAIN arcs \cup {Len(arcs) + 1}
           /\ Len(arcs) + 1 \notin DOMAIN arcs
           /\ arcs'[Len(arcs) + 1].entry = entry[c] /\ arcs'[Len(arcs) + 1].from = from[c]
           /\ arcs'[Len(arcs) + 1].count = 1
           /\ \A j \in DOMAIN arcs : arcs'[j] = arcs[j]
<1> DEFINE r == [entry |-> entry[c], from |-> from[c], count |-> 1]
           R == [entry : Nat, from : Callers, count : Int]
<1>1. r \in R /\ r.entry = entry[c] /\ r.from = from[c] /\ r.count = 1
  BY DEF TypeOK
<1>2. arcs' = Append(arcs, r) /\ arcs \in Seq(R)
  BY DEF AddArc, TypeOK
<1> HIDE DEF r, R
<1>3. /\ arcs' \in Seq(R) /\ DOMAIN arcs' = DOMAIN arcs \cup {Len(arcs) + 1}
      /\ Len(arcs) + 1 \notin DOMAIN arcs
      /\ arcs'[Len(arcs) + 1] = r /\ \A j \in DOMAIN arcs : arcs'[j] = arcs[j]
  BY <1>1, <1>2
<1> QED
  BY <1>1, <1>3 DEF R

\* Every variable keeps its type.
LEMMA TypeStep == TypeOK /\ [Next]_vars => TypeOK'
<1> SUFFICES ASSUME TypeOK, [Next]_vars PROVE TypeOK'
  OBVIOUS
<1>1. CASE UNCHANGED vars
  BY <1>1 DEF vars, TypeOK
<1>2. ASSUME NEW c \in Contexts, NEW f \in Functions, NEW g \in Callers, Call(c, f, g)
      PROVE  TypeOK'
  BY <1>2 DEF Call, At, Goto, TypeOK, Steps
<1>3. ASSUME NEW c \in Contexts, FindFunction(c) PROVE TypeOK'
  <2>1. UNCHANGED <<functions, arcs, needInit, rate, started, mie, trapped, self, from, arc, count, saved>>
    BY <1>3 DEF FindFunction
  <2>2. /\ entry' \in [Contexts -> Nat] /\ pc' \in [Contexts -> Steps]
        /\ \A d \in Contexts : pc'[d] \in {"load", "store"} => pc[d] \in {"load", "store"}
    BY <1>3, FindFunctionIs
  <2> QED
    BY <2>1, <2>2 DEF TypeOK
<1>4. ASSUME NEW c \in Contexts, FindArc(c) PROVE TypeOK'
  <2>1. UNCHANGED <<functions, arcs, needInit, rate, started, mie, trapped, self, from, entry, count, saved>>
    BY <1>4 DEF FindArc
  <2>2. /\ arc' \in [Contexts -> Nat] /\ pc' \in [Contexts -> Steps]
        /\ \A d \in Contexts : pc'[d] \in {"load", "store"} => arc'[d] \in DOMAIN arcs
    BY <1>4, FindArcIs DEF TypeOK
  <2> QED
    BY <2>1, <2>2 DEF TypeOK
<1>5. ASSUME NEW c \in Contexts, LoadCount(c) PROVE TypeOK'
  <2>1. arc[c] \in 1 .. Len(arcs) /\ arcs \in Seq([entry : Nat, from : Callers, count : Int])
    BY <1>5 DEF LoadCount, At, TypeOK
  <2>2. arcs[arc[c]].count \in Int
    <3>1. arcs[arc[c]] \in [entry : Nat, from : Callers, count : Int]
      BY <2>1, ElementOfSeq
    <3> QED
      BY <3>1
  <2>3. /\ UNCHANGED <<functions, arcs, needInit, rate, started, mie, trapped, self, from, entry, arc, saved>>
        /\ count' = [count EXCEPT ![c] = arcs[arc[c]].count]
        /\ pc' = [pc EXCEPT ![c] = "store"] /\ pc[c] = "load"
    BY <1>5 DEF LoadCount, At, Goto
  <2>4. count' \in [Contexts -> Int] /\ pc' \in [Contexts -> Steps]
    BY <2>2, <2>3 DEF TypeOK, Steps
  <2>5. \A d \in Contexts : pc'[d] \in {"load", "store"} => pc[d] \in {"load", "store"}
    BY <2>3 DEF TypeOK
  <2> QED
    BY <2>3, <2>4, <2>5 DEF TypeOK
<1>6. ASSUME NEW c \in Contexts, StoreCount(c) PROVE TypeOK'
  <2>1. /\ UNCHANGED <<functions, needInit, rate, started, mie, trapped, self, from>>
        /\ entry' = [entry EXCEPT ![c] = 0] /\ arc' = [arc EXCEPT ![c] = 0]
        /\ count' = [count EXCEPT ![c] = 0] /\ saved' = [saved EXCEPT ![c] = 0]
        /\ pc' = [pc EXCEPT ![c] = "idle"]
    BY <1>6 DEF StoreCount, Returned, Goto
  <2>2. arcs' \in Seq([entry : Nat, from : Callers, count : Int]) /\ DOMAIN arcs' = DOMAIN arcs
    BY <1>6, StoreIs
  <2>3. /\ entry' \in [Contexts -> Nat] /\ arc' \in [Contexts -> Nat] /\ count' \in [Contexts -> Int]
        /\ saved' \in [Contexts -> {0, 1}] /\ pc' \in [Contexts -> Steps]
    BY <2>1 DEF TypeOK, Steps
  <2>4. \A d \in Contexts : pc'[d] \in {"load", "store"} => arc'[d] \in DOMAIN arcs
    BY <2>1 DEF TypeOK
  <2> QED
    BY <2>1, <2>2, <2>3, <2>4 DEF TypeOK
<1>7. ASSUME NEW c \in Contexts,
             TestInit(c) \/ ClearInit(c) \/ NoClock(c) \/ SetHistogram(c) \/ StartSampling(c) \/ Mask(c)
      PROVE  TypeOK'
  <2>1. /\ UNCHANGED <<functions, arcs, rate, trapped, self, from, entry, arc, count>>
        /\ needInit' \in {0, 1} /\ started' \in Nat /\ mie' \in {0, 1}
        /\ saved' = saved \/ saved' = [saved EXCEPT ![c] = mie]
    BY <1>7 DEF TestInit, ClearInit, NoClock, SetHistogram, StartSampling, Mask, Masked, InitResult, TypeOK
  <2>2. \E s \in {"clear", "mask", "sampler", "start", "entry", "arc"} : pc' = [pc EXCEPT ![c] = s]
    BY <1>7 DEF TestInit, ClearInit, NoClock, SetHistogram, StartSampling, Mask, Goto
  <2>3. pc' \in [Contexts -> Steps] /\ saved' \in [Contexts -> {0, 1}]
    BY <2>1, <2>2 DEF TypeOK, Steps
  <2>4. \A d \in Contexts : pc'[d] \in {"load", "store"} => pc[d] \in {"load", "store"}
    BY <2>2 DEF TypeOK
  <2> QED
    BY <2>1, <2>3, <2>4 DEF TypeOK
<1>8. ASSUME NEW c \in Contexts, AddEntry(c) PROVE TypeOK'
  <2>1. /\ UNCHANGED <<arcs, needInit, rate, started, mie, trapped, self, from, arc, count, saved>>
        /\ entry' = [entry EXCEPT ![c] = Len(functions) + 1] /\ pc' = [pc EXCEPT ![c] = "arc"]
    BY <1>8 DEF AddEntry, Goto
  <2>2. functions' \in Seq(Functions) /\ Len(functions) + 1 \in Nat
    BY <1>8, AddEntryIs DEF TypeOK
  <2>3. /\ entry' \in [Contexts -> Nat] /\ pc' \in [Contexts -> Steps]
        /\ \A d \in Contexts : pc'[d] \in {"load", "store"} => pc[d] \in {"load", "store"}
    BY <2>1, <2>2 DEF TypeOK, Steps
  <2> QED
    BY <2>1, <2>2, <2>3 DEF TypeOK
<1>9. ASSUME NEW c \in Contexts, AddArc(c) PROVE TypeOK'
  <2>1. /\ UNCHANGED <<functions, needInit, rate, started, mie, trapped, self, from, entry, arc, count, saved>>
        /\ pc' = [pc EXCEPT ![c] = "unmask"]
    BY <1>9 DEF AddArc, Goto
  <2>2. /\ arcs' \in Seq([entry : Nat, from : Callers, count : Int])
        /\ DOMAIN arcs \subseteq DOMAIN arcs'
    BY <1>9, AddArcIs
  <2>3. /\ pc' \in [Contexts -> Steps]
        /\ \A d \in Contexts : pc'[d] \in {"load", "store"} => pc[d] \in {"load", "store"}
    BY <2>1 DEF TypeOK, Steps
  <2> QED
    BY <2>1, <2>2, <2>3 DEF TypeOK
<1>10. ASSUME NEW c \in Contexts, Unmask(c) PROVE TypeOK'
  BY <1>10 DEF Unmask, Returned, Goto, TypeOK, Steps
<1>11. CASE Enter \/ Leave \/ StartClock \/ \E k \in Requests : Grow(k)
  BY <1>11 DEF Enter, Leave, StartClock, Grow, TypeOK
<1> QED
  BY <1>1, <1>2, <1>3, <1>4, <1>5, <1>6, <1>7, <1>8, <1>9, <1>10, <1>11 DEF Next, Mcount, McountRecord

-----------------------------------------------------------------------------
LEMMA InitMode == Init => ModeInv
BY DEF Init, ModeInv, Masking, Contexts

\* Interrupts are off while records are added, and a handler keeps them off.
LEMMA ModeStep == TypeOK /\ ModeInv /\ [Next]_vars => ModeInv'
<1> SUFFICES ASSUME TypeOK, ModeInv, [Next]_vars PROVE ModeInv'
  OBVIOUS
<1> USE TwoContexts DEF ModeInv, Masking
<1>1. CASE UNCHANGED vars
  BY <1>1 DEF vars
<1>2. ASSUME NEW c \in Contexts,
             \/ \E f \in Functions, g \in Callers : Call(c, f, g)
             \/ Mcount(c) \/ TestInit(c) \/ ClearInit(c) \/ NoClock(c) \/ SetHistogram(c) \/ StartSampling(c)
      PROVE  ModeInv'
  <2>1. /\ UNCHANGED <<mie, trapped>>
        /\ saved' = saved \/ saved' = [saved EXCEPT ![c] = 0]
        /\ Runs(c) /\ \E s \in Steps \ Masking : pc' = [pc EXCEPT ![c] = s]
    BY <1>2 DEF Call, Mcount, FindFunction, FindArc, LoadCount, StoreCount, Returned, TestInit,
      ClearInit, NoClock, SetHistogram, StartSampling, Goto, At, Steps
  <2> QED
    BY <2>1 DEF Runs, TypeOK
<1>3. ASSUME NEW c \in Contexts, Mask(c) PROVE ModeInv'
  <2>1. /\ trapped' = trapped /\ mie' = 0 /\ saved' = [saved EXCEPT ![c] = mie]
        /\ Runs(c) /\ \E s \in {"entry", "arc"} : pc' = [pc EXCEPT ![c] = s]
    BY <1>3 DEF Mask, Masked, Goto, At
  <2> QED
    BY <2>1 DEF Runs, TypeOK
<1>4. ASSUME NEW c \in Contexts, AddEntry(c) \/ AddArc(c) PROVE ModeInv'
  <2>1. /\ UNCHANGED <<mie, trapped, saved>> /\ pc[c] \in Masking
        /\ Runs(c) /\ \E s \in Masking : pc' = [pc EXCEPT ![c] = s]
    BY <1>4 DEF AddEntry, AddArc, Goto, At
  <2> QED
    BY <2>1 DEF Runs, TypeOK
<1>5. ASSUME NEW c \in Contexts, Unmask(c) PROVE ModeInv'
  <2>1. /\ trapped' = trapped /\ mie' = IF saved[c] = 1 THEN 1 ELSE mie
        /\ saved' = [saved EXCEPT ![c] = 0] /\ pc' = [pc EXCEPT ![c] = "idle"]
        /\ Runs(c) /\ pc[c] = "unmask"
    BY <1>5 DEF Unmask, Returned, Goto, At
  <2> QED
    BY <2>1 DEF Runs, TypeOK
<1>6. CASE Enter
  BY <1>6 DEF Enter, TypeOK
<1>7. CASE Leave
  BY <1>7 DEF Leave, At, Runs, TypeOK
<1>8. CASE StartClock \/ \E k \in Requests : Grow(k)
  BY <1>8 DEF StartClock, Grow
<1> QED
  BY <1>1, <1>2, <1>3, <1>4, <1>5, <1>6, <1>7, <1>8 DEF Next, McountRecord

\* A handler does not run to a step while the program does, and the program
\* finds the handler idle.
LEMMA OneRuns ==
    ASSUME TypeOK, ModeInv
    PROVE  /\ Runs("main") => pc["isr"] = "idle"
           /\ Runs("isr") => pc["main"] \notin Masking
BY DEF ModeInv, Runs

-----------------------------------------------------------------------------
LEMMA InitSearch == Init => SearchInv
BY DEF Init, SearchInv, Contexts, Zero

\* Steps that add no record and keep what the searches found.
LEMMA SearchFrame ==
    ASSUME TypeOK, SearchInv, UNCHANGED functions, DOMAIN arcs' = DOMAIN arcs,
           \A j \in DOMAIN arcs : arcs'[j].entry = arcs[j].entry,
           \A c \in Contexts :
             /\ entry'[c] <= Len(functions)
             /\ pc'[c] \in {"idle", "function", "entry"} => entry'[c] = 0
             /\ pc'[c] \in {"arcs", "load", "store", "arc", "unmask"} => entry'[c] # 0
             /\ pc[c] = "arc" => pc'[c] = "arc" /\ entry'[c] = entry[c]
    PROVE  SearchInv'
<1>1. \A j \in DOMAIN arcs' : arcs'[j].entry \in DOMAIN functions'
  BY DEF SearchInv
<1>2. \A i \in DOMAIN functions' :
        {j \in DOMAIN arcs' : arcs'[j].entry = i} # {} \/ \E c \in Contexts : pc'[c] = "arc" /\ entry'[c] = i
  <2>1. ASSUME NEW i \in DOMAIN functions
        PROVE  {j \in DOMAIN arcs' : arcs'[j].entry = i} = ArcsOf(i)
    BY DEF ArcsOf
  <2> QED
    BY <2>1 DEF SearchInv
<1> QED
  BY <1>1, <1>2 DEF SearchInv, ArcsOf

\* No entry without arcs is left behind with interrupts on.
LEMMA SearchStep == TypeOK /\ SearchInv /\ [Next]_vars => SearchInv'
<1> SUFFICES ASSUME TypeOK, SearchInv, [Next]_vars PROVE SearchInv'
  OBVIOUS
<1>0. /\ Len(functions) \in Nat /\ DOMAIN functions = 1 .. Len(functions)
      /\ \A c \in Contexts : entry[c] \in Nat
  BY DEF TypeOK
<1>1. ASSUME UNCHANGED <<functions, arcs, entry, pc>> PROVE SearchInv'
  BY <1>1 DEF SearchInv, ArcsOf
<1>2. ASSUME NEW c \in Contexts, NEW f \in Functions, NEW g \in Callers, Call(c, f, g)
      PROVE  SearchInv'
  <2>1. /\ UNCHANGED <<functions, arcs, entry>> /\ pc' = [pc EXCEPT ![c] = "function"]
        /\ pc[c] = "idle"
    BY <1>2 DEF Call, Goto, At
  <2> QED
    BY <2>1, SearchFrame DEF SearchInv, TypeOK
<1>3. ASSUME NEW c \in Contexts, FindFunction(c) PROVE SearchInv'
  <2>1. UNCHANGED <<functions, arcs>>
    BY <1>3 DEF FindFunction
  <2>2. /\ entry'[c] <= Len(functions)
        /\ \A d \in Contexts \ {c} : entry'[d] = entry[d] /\ pc'[d] = pc[d]
        /\ pc[c] = "function" /\ pc'[c] = IF entry'[c] = 0 THEN "test" ELSE "arcs"
    BY <1>0, <1>3, FindFunctionIs DEF Entries
  <2> QED
    BY <2>1, <2>2, SearchFrame DEF SearchInv
<1>4. ASSUME NEW c \in Contexts, FindArc(c) PROVE SearchInv'
  <2>1. UNCHANGED <<functions, arcs, entry>>
    BY <1>4 DEF FindArc
  <2>2. /\ \A d \in Contexts \ {c} : pc'[d] = pc[d]
        /\ pc[c] = "arcs" /\ pc'[c] \in {"test", "load"}
    BY <1>4, FindArcIs
  <2> QED
    BY <2>1, <2>2, SearchFrame DEF SearchInv
<1>5. ASSUME NEW c \in Contexts, LoadCount(c) PROVE SearchInv'
  <2>1. /\ UNCHANGED <<functions, arcs, entry>> /\ pc' = [pc EXCEPT ![c] = "store"]
        /\ pc[c] = "load"
    BY <1>5 DEF LoadCount, Goto, At
  <2> QED
    BY <2>1, SearchFrame DEF SearchInv, TypeOK
<1>6. ASSUME NEW c \in Contexts, StoreCount(c) PROVE SearchInv'
  <2>1. /\ UNCHANGED functions /\ pc' = [pc EXCEPT ![c] = "idle"]
        /\ entry' = [entry EXCEPT ![c] = 0] /\ pc[c] = "store"
    BY <1>6 DEF StoreCount, Returned, Goto, At
  <2>2. DOMAIN arcs' = DOMAIN arcs /\ \A j \in DOMAIN arcs : arcs'[j].entry = arcs[j].entry
    BY <1>6, StoreIs
  <2>3. /\ pc'[c] = "idle" /\ entry'[c] = 0
        /\ \A d \in Contexts \ {c} : pc'[d] = pc[d] /\ entry'[d] = entry[d]
    BY <2>1 DEF TypeOK
  <2>4. \A d \in Contexts :
          /\ entry'[d] <= Len(functions)
          /\ pc'[d] \in {"idle", "function", "entry"} => entry'[d] = 0
          /\ pc'[d] \in {"arcs", "load", "store", "arc", "unmask"} => entry'[d] # 0
          /\ pc[d] = "arc" => pc'[d] = "arc" /\ entry'[d] = entry[d]
    BY <1>0, <2>1, <2>3 DEF SearchInv
  <2> QED
    BY <2>1, <2>2, <2>4, SearchFrame
<1>7. ASSUME NEW c \in Contexts,
             TestInit(c) \/ ClearInit(c) \/ NoClock(c) \/ SetHistogram(c) \/ StartSampling(c) \/ Mask(c)
      PROVE  SearchInv'
  <2>1. /\ UNCHANGED <<functions, arcs, entry>> /\ pc[c] \in Late
        /\ \E s \in Late \cup {"entry", "arc"} :
             /\ pc' = [pc EXCEPT ![c] = s]
             /\ s = "entry" => entry[c] = 0
             /\ s = "arc" => entry[c] # 0
    BY <1>7 DEF TestInit, ClearInit, NoClock, SetHistogram, StartSampling, Mask, Goto, At, Late
  <2>2. PICK s \in Late \cup {"entry", "arc"} :
          /\ pc' = [pc EXCEPT ![c] = s]
          /\ s = "entry" => entry[c] = 0
          /\ s = "arc" => entry[c] # 0
    BY <2>1
  <2>3. pc'[c] = s /\ \A d \in Contexts \ {c} : pc'[d] = pc[d]
    BY <2>2 DEF TypeOK
  <2>4. \A d \in Contexts :
          /\ entry'[d] <= Len(functions)
          /\ pc'[d] \in {"idle", "function", "entry"} => entry'[d] = 0
          /\ pc'[d] \in {"arcs", "load", "store", "arc", "unmask"} => entry'[d] # 0
          /\ pc[d] = "arc" => pc'[d] = "arc" /\ entry'[d] = entry[d]
    BY <2>1, <2>2, <2>3 DEF SearchInv, Late
  <2> QED
    BY <2>1, <2>4, SearchFrame
<1>8. ASSUME NEW c \in Contexts, AddEntry(c) PROVE SearchInv'
  <2> DEFINE L == Len(functions) + 1
  <2>1. /\ UNCHANGED arcs /\ pc' = [pc EXCEPT ![c] = "arc"] /\ entry' = [entry EXCEPT ![c] = L]
        /\ pc[c] = "entry"
    BY <1>8 DEF AddEntry, Goto, At
  <2>2. DOMAIN functions' = DOMAIN functions \cup {L} /\ Len(functions') = L
    BY <1>8, AddEntryIs
  <2>3. pc'[c] = "arc" /\ entry'[c] = L /\ \A d \in Contexts \ {c} : pc'[d] = pc[d] /\ entry'[d] = entry[d]
    BY <2>1 DEF TypeOK
  <2>4. \A d \in Contexts :
          /\ entry'[d] <= Len(functions')
          /\ pc'[d] \in {"idle", "function", "entry"} => entry'[d] = 0
          /\ pc'[d] \in {"arcs", "load", "store", "arc", "unmask"} => entry'[d] # 0
    BY <1>0, <2>2, <2>3 DEF SearchInv
  <2>5. \A j \in DOMAIN arcs' : arcs'[j].entry \in DOMAIN functions'
    BY <2>1, <2>2 DEF SearchInv
  <2>6. ASSUME NEW i \in DOMAIN functions'
        PROVE  {j \in DOMAIN arcs' : arcs'[j].entry = i} # {}
               \/ \E d \in Contexts : pc'[d] = "arc" /\ entry'[d] = i
    <3>1. CASE i = L
      BY <2>3, <3>1
    <3>2. CASE i # L
      <4>1. i \in DOMAIN functions /\ {j \in DOMAIN arcs' : arcs'[j].entry = i} = ArcsOf(i)
        BY <2>1, <2>2, <3>2 DEF ArcsOf
      <4>2. pc[c] # "arc"
        BY <2>1
      <4> QED
        BY <2>3, <4>1, <4>2 DEF SearchInv
    <3> QED
      BY <3>1, <3>2
  <2> QED
    BY <2>4, <2>5, <2>6 DEF SearchInv, ArcsOf
<1>9. ASSUME NEW c \in Contexts, AddArc(c) PROVE SearchInv'
  <2>1. /\ UNCHANGED <<functions, entry>> /\ pc' = [pc EXCEPT ![c] = "unmask"] /\ pc[c] = "arc"
    BY <1>9 DEF AddArc, Goto, At
  <2>2. /\ DOMAIN arcs' = DOMAIN arcs \cup {Len(arcs) + 1}
        /\ arcs'[Len(arcs) + 1].entry = entry[c] /\ \A j \in DOMAIN arcs : arcs'[j] = arcs[j]
    BY <1>9, AddArcIs
  <2>3. pc'[c] = "unmask" /\ \A d \in Contexts \ {c} : pc'[d] = pc[d]
    BY <2>1 DEF TypeOK
  <2>4. entry[c] \in DOMAIN functions
    <3>1. entry[c] <= Len(functions) /\ entry[c] # 0 /\ entry[c] \in Nat
      BY <1>0, <2>1 DEF SearchInv
    <3> QED
      BY <1>0, <3>1
  <2>5. \A d \in Contexts :
          /\ entry'[d] <= Len(functions')
          /\ pc'[d] \in {"idle", "function", "entry"} => entry'[d] = 0
          /\ pc'[d] \in {"arcs", "load", "store", "arc", "unmask"} => entry'[d] # 0
    BY <2>1, <2>3 DEF SearchInv
  <2>6. \A j \in DOMAIN arcs' : arcs'[j].entry \in DOMAIN functions'
    BY <2>1, <2>2, <2>4 DEF SearchInv
  <2>7. ASSUME NEW i \in DOMAIN functions'
        PROVE  {j \in DOMAIN arcs' : arcs'[j].entry = i} # {}
               \/ \E d \in Contexts : pc'[d] = "arc" /\ entry'[d] = i
    <3>1. CASE i = entry[c]
      BY <2>2, <3>1
    <3>2. CASE i # entry[c]
      <4>1. i \in DOMAIN functions /\ ArcsOf(i) \subseteq {j \in DOMAIN arcs' : arcs'[j].entry = i}
        BY <2>1, <2>2 DEF ArcsOf
      <4> QED
        BY <2>1, <2>3, <3>2, <4>1 DEF SearchInv
    <3> QED
      BY <3>1, <3>2
  <2> QED
    BY <2>5, <2>6, <2>7 DEF SearchInv, ArcsOf
<1>10. ASSUME NEW c \in Contexts, Unmask(c) PROVE SearchInv'
  <2>1. /\ UNCHANGED <<functions, arcs>> /\ pc' = [pc EXCEPT ![c] = "idle"]
        /\ entry' = [entry EXCEPT ![c] = 0] /\ pc[c] = "unmask"
    BY <1>10 DEF Unmask, Returned, Goto, At
  <2>2. /\ pc'[c] = "idle" /\ entry'[c] = 0
        /\ \A d \in Contexts \ {c} : pc'[d] = pc[d] /\ entry'[d] = entry[d]
    BY <2>1 DEF TypeOK
  <2>3. \A d \in Contexts :
          /\ entry'[d] <= Len(functions)
          /\ pc'[d] \in {"idle", "function", "entry"} => entry'[d] = 0
          /\ pc'[d] \in {"arcs", "load", "store", "arc", "unmask"} => entry'[d] # 0
          /\ pc[d] = "arc" => pc'[d] = "arc" /\ entry'[d] = entry[d]
    BY <1>0, <2>1, <2>2 DEF SearchInv
  <2> QED
    BY <2>1, <2>3, SearchFrame
<1>11. CASE UNCHANGED vars \/ Enter \/ Leave \/ StartClock \/ \E k \in Requests : Grow(k)
  BY <1>1, <1>11 DEF vars, Enter, Leave, StartClock, Grow
<1> QED
  BY <1>2, <1>3, <1>4, <1>5, <1>6, <1>7, <1>8, <1>9, <1>10, <1>11 DEF Next, Mcount, McountRecord

LEMMA BaseCorrect == Spec => [](TypeOK /\ ModeInv /\ SearchInv)
<1>1. TypeOK /\ ModeInv /\ SearchInv /\ [Next]_vars => (TypeOK /\ ModeInv /\ SearchInv)'
  BY TypeStep, ModeStep, SearchStep
<1> QED
  BY <1>1, InitType, InitMode, InitSearch, PTL DEF Spec

\* mcount() never follows the arcs of a function that has none: the entry a
\* context is about to complete is masked from the other one's search, for
\* every graph and every interleaving of the program with its handlers.
THEOREM SearchNeverEmpty == Spec => []SearchSafe
<1>1. TypeOK /\ ModeInv /\ SearchInv => SearchSafe
  <2> SUFFICES ASSUME TypeOK, ModeInv, SearchInv, NEW c \in Contexts, At(c, "arcs")
               PROVE  ArcsOf(entry[c]) # {}
    BY DEF SearchSafe
  <2>1. entry[c] \in DOMAIN functions
    <3>1. entry[c] \in Nat /\ entry[c] # 0 /\ entry[c] <= Len(functions)
      BY DEF SearchInv, At, TypeOK
    <3>2. DOMAIN functions = 1 .. Len(functions) /\ Len(functions) \in Nat
      BY DEF TypeOK
    <3> QED
      BY <3>1, <3>2
  <2>2. ASSUME NEW d \in Contexts PROVE pc[d] # "arc"
    <3>1. CASE d = c
      BY <3>1 DEF At
    <3>2. CASE d # c
      BY <3>2, TwoContexts, OneRuns DEF At, Masking
    <3> QED
      BY <3>1, <3>2
  <2> QED
    BY <2>1, <2>2 DEF SearchInv
<1> QED
  BY <1>1, BaseCorrect, PTL

-----------------------------------------------------------------------------
\* How many contexts are in a place.
LEMMA CountContexts ==
    ASSUME NEW P \in [Contexts -> BOOLEAN]
    PROVE  Cardinality({c \in Contexts : P[c]})
             = (IF P["main"] THEN 1 ELSE 0) + (IF P["isr"] THEN 1 ELSE 0)
<1> DEFINE S == {c \in Contexts : P[c]}
<1>1. CASE P["main"] /\ P["isr"]
  <2>1. S = {"main"} \cup {"isr"}
    BY <1>1, TwoContexts
  <2>2. Cardinality({"main"}) = 1 /\ IsFiniteSet({"main"})
    BY FS_Singleton
  <2>3. Cardinality({"main"} \cup {"isr"}) = 2
    BY <2>2, FS_AddElement, TwoContexts
  <2> QED
    BY <1>1, <2>1, <2>3
<1>2. CASE P["main"] /\ ~P["isr"]
  <2>1. S = {"main"}
    BY <1>2, TwoContexts
  <2>2. Cardinality({"main"}) = 1
    BY FS_Singleton
  <2> QED
    BY <1>2, <2>1, <2>2
<1>3. CASE ~P["main"] /\ P["isr"]
  <2>1. S = {"isr"}
    BY <1>3, TwoContexts
  <2>2. Cardinality({"isr"}) = 1
    BY FS_Singleton
  <2> QED
    BY <1>3, <2>1, <2>2
<1>4. CASE ~P["main"] /\ ~P["isr"]
  <2>1. S = {}
    BY <1>4, TwoContexts
  <2> QED
    BY <1>4, <2>1, FS_EmptySet
<1> QED
  BY <1>1, <1>2, <1>3, <1>4

Starts(c) == IF pc[c] \in {"clear", "sampler", "start"} THEN 1 ELSE 0

LEMMA StartsIs == Cardinality({c \in Contexts : InStart(c)}) = Starts("main") + Starts("isr")
<1> DEFINE P == [c \in Contexts |-> InStart(c)]
<1>1. P \in [Contexts -> BOOLEAN]
  BY DEF InStart
<1>2. {c \in Contexts : InStart(c)} = {c \in Contexts : P[c]}
  OBVIOUS
<1>3. P["main"] = InStart("main") /\ P["isr"] = InStart("isr")
  BY TwoContexts
<1> HIDE DEF P
<1> QED
  BY <1>1, <1>2, <1>3, CountContexts DEF InStart, Starts

\* The sampler is not started before the clock, and once started never again
\* by a context that has yet to look.
SampleIInv ==
  /\ rate = 0 => started = 0 /\ \A c \in Contexts : pc[c] # "start"
  /\ started > 0 => needInit = 0
  /\ started + Starts("main") + Starts("isr") <= 2

LEMMA SampleStep == TypeOK /\ SampleIInv /\ [Next]_vars => SampleIInv'
<1> SUFFICES ASSUME TypeOK, SampleIInv, [Next]_vars PROVE SampleIInv'
  OBVIOUS
<1> USE TwoContexts DEF SampleIInv, Starts
<1>1. CASE UNCHANGED vars \/ Enter \/ Leave \/ StartClock \/ \E k \in Requests : Grow(k)
  BY <1>1 DEF vars, Enter, Leave, StartClock, Grow, TypeOK
<1>2. ASSUME NEW c \in Contexts,
             \/ \E f \in Functions, g \in Callers : Call(c, f, g)
             \/ Mcount(c) \/ Mask(c) \/ AddEntry(c) \/ AddArc(c) \/ Unmask(c)
      PROVE  SampleIInv'
  <2>1. /\ UNCHANGED <<needInit, started, rate>>
        /\ \E s \in Steps \ {"clear", "sampler", "start"} : pc' = [pc EXCEPT ![c] = s]
    BY <1>2 DEF Call, Mcount, FindFunction, FindArc, LoadCount, StoreCount, Returned, Mask,
      AddEntry, AddArc, Unmask, Goto, Steps
  <2> QED
    BY <2>1 DEF TypeOK
<1>3. ASSUME NEW c \in Contexts, TestInit(c) PROVE SampleIInv'
  BY <1>3 DEF TestInit, At, Goto, TypeOK
<1>4. ASSUME NEW c \in Contexts, ClearInit(c) PROVE SampleIInv'
  BY <1>4 DEF ClearInit, At, Goto, TypeOK
<1>5. ASSUME NEW c \in Contexts, NoClock(c) PROVE SampleIInv'
  BY <1>5 DEF NoClock, At, Goto, TypeOK
<1>6. ASSUME NEW c \in Contexts, SetHistogram(c) PROVE SampleIInv'
  BY <1>6 DEF SetHistogram, At, Goto, TypeOK
<1>7. ASSUME NEW c \in Contexts, StartSampling(c) PROVE SampleIInv'
  BY <1>7 DEF StartSampling, InitResult, At, Goto, TypeOK
<1> QED
  BY <1>1, <1>2, <1>3, <1>4, <1>5, <1>6, <1>7 DEF Next, McountRecord

\* The sampling alarm is put on the list at most twice, and then never again,
\* however many functions are called and wherever the handlers come between.
THEOREM SamplerStartsOnce == Spec => []SamplerSettles
<1>1. Init => SampleIInv
  BY TwoContexts DEF Init, SampleIInv, Starts
<1>2. TypeOK /\ SampleIInv /\ [Next]_vars => SampleIInv'
  BY SampleStep
<1>3. SampleIInv /\ TypeOK => SamplerSettles
  BY StartsIs DEF SampleIInv, SamplerSettles, TypeOK, Starts
<1> QED
  BY <1>1, <1>2, <1>3, BaseCorrect, PTL DEF Spec

-----------------------------------------------------------------------------
LEMMA FiniteSub ==
    ASSUME NEW n \in Nat, NEW S \in SUBSET (1 .. n)
    PROVE  IsFiniteSet(S) /\ Cardinality(S) \in Nat
<1>1. 1 \in Int /\ n \in Int
  OBVIOUS
<1>2. IsFiniteSet(1 .. n)
  BY <1>1, FS_Interval
<1>3. IsFiniteSet(S)
  BY <1>2, FS_Subset
<1> QED
  BY <1>3, FS_CardinalityType

\* The sets counted are finite, before a step and after it.
LEMMA CountsAreNat ==
    ASSUME TypeOK, TypeOK'
    PROVE  /\ \A f : /\ IsFiniteSet(Entries(f)) /\ Cardinality(Entries(f)) \in Nat
                     /\ IsFiniteSet(Entries(f)') /\ Cardinality(Entries(f))' \in Nat
           /\ \A i, g : /\ IsFiniteSet(CopiesAt(i, g)) /\ Cardinality(CopiesAt(i, g)) \in Nat
                        /\ IsFiniteSet(CopiesAt(i, g)') /\ Cardinality(CopiesAt(i, g))' \in Nat
<1>2. /\ Len(functions) \in Nat /\ DOMAIN functions = 1 .. Len(functions)
      /\ Len(functions') \in Nat /\ DOMAIN functions' = 1 .. Len(functions')
      /\ Len(arcs) \in Nat /\ DOMAIN arcs = 1 .. Len(arcs)
      /\ Len(arcs') \in Nat /\ DOMAIN arcs' = 1 .. Len(arcs')
  BY DEF TypeOK
<1>3. ASSUME NEW f
      PROVE  /\ Entries(f) \in SUBSET (1 .. Len(functions))
             /\ Entries(f)' \in SUBSET (1 .. Len(functions'))
  BY <1>2 DEF Entries
<1>4. ASSUME NEW i, NEW g
      PROVE  /\ CopiesAt(i, g) \in SUBSET (1 .. Len(arcs))
             /\ CopiesAt(i, g)' \in SUBSET (1 .. Len(arcs'))
  BY <1>2 DEF CopiesAt
<1>5. ASSUME NEW f
      PROVE  /\ IsFiniteSet(Entries(f)) /\ Cardinality(Entries(f)) \in Nat
             /\ IsFiniteSet(Entries(f)') /\ Cardinality(Entries(f)') \in Nat
  BY <1>2, <1>3, FiniteSub
<1>6. ASSUME NEW i, NEW g
      PROVE  /\ IsFiniteSet(CopiesAt(i, g)) /\ Cardinality(CopiesAt(i, g)) \in Nat
             /\ IsFiniteSet(CopiesAt(i, g)') /\ Cardinality(CopiesAt(i, g)') \in Nat
  BY <1>2, <1>4, FiniteSub
<1> QED
  BY <1>5, <1>6

LEMMA AddsAreBits ==
  \A c, f, i, g : /\ Adds(c, f) \in {0, 1} /\ Adds(c, f)' \in {0, 1}
                  /\ AddsArc(c, i, g) \in {0, 1} /\ AddsArc(c, i, g)' \in {0, 1}
BY DEF Adds, AddsArc

\* A step that adds no record, nor any reason to add one.
Quiet ==
  /\ functions' = functions
  /\ \A i, g : CopiesAt(i, g)' = CopiesAt(i, g)
  /\ \A d \in Contexts : entry'[d] \in {entry[d], 0}
  /\ \A d \in Contexts, f \in Functions : Adds(d, f)' <= Adds(d, f)
  /\ \A d \in Contexts, i \in Nat \ {0}, g \in Callers : AddsArc(d, i, g)' <= AddsArc(d, i, g)

LEMMA QuietFrame ==
    ASSUME TypeOK, NEW c \in Contexts, UNCHANGED functions,
           DOMAIN arcs' = DOMAIN arcs,
           \A j \in DOMAIN arcs : arcs'[j].entry = arcs[j].entry /\ arcs'[j].from = arcs[j].from,
           \A d \in Contexts \ {c} :
             pc'[d] = pc[d] /\ entry'[d] = entry[d] /\ self'[d] = self[d] /\ from'[d] = from[d],
           entry'[c] \in {entry[c], 0},
           \/ pc'[c] \notin Late \cup {"entry", "arc"}
           \/ /\ pc[c] \in Late /\ self'[c] = self[c] /\ from'[c] = from[c] /\ entry'[c] = entry[c]
              /\ pc'[c] = "arc" => entry[c] # 0
    PROVE  Quiet
<1>1. ASSUME NEW i, NEW g PROVE CopiesAt(i, g)' = CopiesAt(i, g)
  BY DEF CopiesAt
<1>2. ASSUME NEW d \in Contexts, NEW f \in Functions PROVE Adds(d, f)' <= Adds(d, f)
  <2>1. CASE d # c
    BY <2>1 DEF Adds
  <2>2. CASE d = c
    BY <2>2 DEF Adds, Late
  <2> QED
    BY <2>1, <2>2
<1>3. ASSUME NEW d \in Contexts, NEW i \in Nat \ {0}, NEW g \in Callers
      PROVE  AddsArc(d, i, g)' <= AddsArc(d, i, g)
  <2>1. CASE d # c
    BY <2>1 DEF AddsArc
  <2>2. CASE d = c
    BY <2>2 DEF AddsArc, Late
  <2> QED
    BY <2>1, <2>2
<1>4. \A d \in Contexts : entry'[d] \in {entry[d], 0}
  OBVIOUS
<1> QED
  BY <1>1, <1>2, <1>3, <1>4 DEF Quiet

\* Only a search in vain and the additions are not quiet.
Loud == \E c \in Contexts : FindFunction(c) \/ FindArc(c) \/ AddEntry(c) \/ AddArc(c)

LEMMA QuietStep == TypeOK /\ [Next]_vars => Quiet \/ Loud
<1> SUFFICES ASSUME TypeOK, [Next]_vars, ~Loud PROVE Quiet
  OBVIOUS
<1>1. ASSUME UNCHANGED <<functions, arcs, entry, pc, self, from>> PROVE Quiet
  BY <1>1, QuietFrame, TwoContexts DEF CopiesAt, Adds, AddsArc, Quiet
<1>2. ASSUME NEW c \in Contexts, NEW f \in Functions, NEW g \in Callers, Call(c, f, g)
      PROVE  Quiet
  <2>1. /\ UNCHANGED <<functions, arcs, entry>> /\ pc' = [pc EXCEPT ![c] = "function"]
        /\ self' = [self EXCEPT ![c] = f] /\ from' = [from EXCEPT ![c] = g]
    BY <1>2 DEF Call, Goto
  <2>2. /\ pc'[c] = "function"
        /\ \A d \in Contexts \ {c} : pc'[d] = pc[d] /\ self'[d] = self[d] /\ from'[d] = from[d]
    BY <2>1 DEF TypeOK
  <2> QED
    BY <2>1, <2>2, QuietFrame DEF Late
<1>3. ASSUME NEW c \in Contexts, LoadCount(c) PROVE Quiet
  <2>1. UNCHANGED <<functions, arcs, entry, self, from>> /\ pc' = [pc EXCEPT ![c] = "store"]
    BY <1>3 DEF LoadCount, Goto
  <2>2. pc'[c] = "store" /\ \A d \in Contexts \ {c} : pc'[d] = pc[d]
    BY <2>1 DEF TypeOK
  <2> QED
    BY <2>1, <2>2, QuietFrame DEF Late
<1>4. ASSUME NEW c \in Contexts, StoreCount(c) \/ Unmask(c) PROVE Quiet
  <2>1. /\ UNCHANGED <<functions, self, from>> /\ pc' = [pc EXCEPT ![c] = "idle"]
        /\ entry' = [entry EXCEPT ![c] = 0]
    BY <1>4 DEF StoreCount, Unmask, Returned, Goto
  <2>2. /\ DOMAIN arcs' = DOMAIN arcs
        /\ \A j \in DOMAIN arcs : arcs'[j].entry = arcs[j].entry /\ arcs'[j].from = arcs[j].from
    <3>1. CASE StoreCount(c)
      BY <3>1, StoreIs
    <3>2. CASE Unmask(c)
      BY <3>2 DEF Unmask
    <3> QED
      BY <1>4, <3>1, <3>2
  <2>3. /\ pc'[c] = "idle" /\ entry'[c] = 0
        /\ \A d \in Contexts \ {c} : pc'[d] = pc[d] /\ entry'[d] = entry[d]
    BY <2>1 DEF TypeOK
  <2> QED
    BY <2>1, <2>2, <2>3, QuietFrame DEF Late
<1>5. ASSUME NEW c \in Contexts,
             TestInit(c) \/ ClearInit(c) \/ NoClock(c) \/ SetHistogram(c) \/ StartSampling(c) \/ Mask(c)
      PROVE  Quiet
  <2>1. /\ UNCHANGED <<functions, arcs, entry, self, from>> /\ pc[c] \in Late
        /\ \E s : pc' = [pc EXCEPT ![c] = s] /\ (s = "arc" => entry[c] # 0)
    BY <1>5 DEF TestInit, ClearInit, NoClock, SetHistogram, StartSampling, Mask, Goto, At, Late
  <2>2. /\ pc'[c] = "arc" => entry[c] # 0
        /\ \A d \in Contexts \ {c} : pc'[d] = pc[d]
    BY <2>1 DEF TypeOK
  <2> QED
    BY <2>1, <2>2, QuietFrame
<1>6. CASE UNCHANGED vars \/ Enter \/ Leave \/ StartClock \/ \E k \in Requests : Grow(k)
  BY <1>1, <1>6 DEF vars, Enter, Leave, StartClock, Grow
<1> QED
  BY <1>2, <1>3, <1>4, <1>5, <1>6 DEF Next, Mcount, McountRecord, Loud

-----------------------------------------------------------------------------
\* What the four loud steps do to entries, copies and the contexts about to add.
LEMMA EntryFound ==
    ASSUME TypeOK, ModeInv, SearchInv, NEW c \in Contexts, FindFunction(c)
    PROVE  /\ functions' = functions /\ \A i, g : CopiesAt(i, g)' = CopiesAt(i, g)
           /\ \A d \in Contexts \ {c} : entry'[d] = entry[d]
           /\ \A d \in Contexts, f \in Functions : d # c => Adds(d, f)' = Adds(d, f)
           /\ \A f \in Functions : Adds(c, f)' = 1 => Entries(f) = {}
           /\ \A d \in Contexts, i \in Nat \ {0}, g \in Callers : AddsArc(d, i, g)' <= AddsArc(d, i, g)
           /\ entry'[c] # 0 => /\ entry'[c] \in DOMAIN functions
                               /\ \A j \in DOMAIN functions :
                                    functions[j] = functions[entry'[c]] => j <= entry'[c]
           /\ c = "main" => \A f \in Functions : Adds("isr", f) = 0
<1>1. UNCHANGED <<functions, arcs, self, from>> /\ At(c, "function")
  BY DEF FindFunction
<1>2. /\ entry' \in [Contexts -> Nat] /\ \A d \in Contexts \ {c} : entry'[d] = entry[d] /\ pc'[d] = pc[d]
      /\ pc[c] = "function" /\ pc'[c] = IF entry'[c] = 0 THEN "test" ELSE "arcs"
      /\ entry'[c] = 0 => Entries(self[c]) = {}
      /\ entry'[c] # 0 => entry'[c] \in Entries(self[c]) /\ \A i \in Entries(self[c]) : i <= entry'[c]
  BY FindFunctionIs
<1>3. \A i, g : CopiesAt(i, g)' = CopiesAt(i, g)
  BY <1>1 DEF CopiesAt
<1>4. \A d \in Contexts, f \in Functions : d # c => Adds(d, f)' = Adds(d, f)
  BY <1>1, <1>2 DEF Adds
<1>5. \A f \in Functions : Adds(c, f)' = 1 => Entries(f) = {}
  BY <1>1, <1>2 DEF Adds, Late
<1>6. ASSUME NEW d \in Contexts, NEW i \in Nat \ {0}, NEW g \in Callers
      PROVE  AddsArc(d, i, g)' <= AddsArc(d, i, g)
  <2>1. CASE d # c
    BY <1>1, <1>2, <2>1 DEF AddsArc
  <2>2. CASE d = c
    BY <1>1, <1>2, <2>2 DEF AddsArc, Late
  <2> QED
    BY <2>1, <2>2
<1>7. entry'[c] # 0 => /\ entry'[c] \in DOMAIN functions
                       /\ \A j \in DOMAIN functions :
                            functions[j] = functions[entry'[c]] => j <= entry'[c]
  BY <1>2 DEF Entries
<1>8. c = "main" => \A f \in Functions : Adds("isr", f) = 0
  BY <1>1, OneRuns DEF Adds, Late, At
<1> QED
  BY <1>1, <1>2, <1>3, <1>4, <1>5, <1>6, <1>7, <1>8

LEMMA ArcFound ==
    ASSUME TypeOK, SearchInv, NEW c \in Contexts, FindArc(c)
    PROVE  /\ UNCHANGED <<functions, entry>> /\ \A i, g : CopiesAt(i, g)' = CopiesAt(i, g)
           /\ \A d \in Contexts, f \in Functions : Adds(d, f)' <= Adds(d, f)
           /\ \A d \in Contexts : \A i, g : d # c => AddsArc(d, i, g)' = AddsArc(d, i, g)
           /\ \A i, g : AddsArc(c, i, g)' = 1 => CopiesAt(i, g) = {}
           /\ \A f : Adds(c, f)' = 0
<1>1. UNCHANGED <<functions, arcs, entry, self, from>>
  BY DEF FindArc
<1>2. /\ \A d \in Contexts \ {c} : pc'[d] = pc[d]
      /\ pc[c] = "arcs" /\ pc'[c] = IF arc'[c] = 0 THEN "test" ELSE "load"
      /\ arc'[c] = 0 => CopiesAt(entry[c], from[c]) = {}
  BY FindArcIs
<1>3. entry[c] # 0
  BY <1>2 DEF SearchInv
<1>4. \A i, g : CopiesAt(i, g)' = CopiesAt(i, g)
  BY <1>1 DEF CopiesAt
<1>5. \A f : Adds(c, f)' = 0
  BY <1>1, <1>3 DEF Adds
<1>6. \A d \in Contexts \ {c} : \A f : Adds(d, f)' = Adds(d, f)
  BY <1>1, <1>2 DEF Adds
<1>7. \A d \in Contexts : \A i, g : d # c => AddsArc(d, i, g)' = AddsArc(d, i, g)
  BY <1>1, <1>2 DEF AddsArc
<1>8. \A i, g : AddsArc(c, i, g)' = 1 => CopiesAt(i, g) = {}
  BY <1>1, <1>2 DEF AddsArc, Late
<1>9. \A d \in Contexts, f \in Functions : Adds(d, f)' <= Adds(d, f)
  BY <1>5, <1>6, AddsAreBits
<1> QED
  BY <1>1, <1>4, <1>5, <1>7, <1>8, <1>9

LEMMA EntryAdded ==
    ASSUME TypeOK, ModeInv, SearchInv, NEW c \in Contexts, AddEntry(c)
    PROVE  LET n == Len(functions) + 1 IN
           /\ DOMAIN functions' = DOMAIN functions \cup {n} /\ n \notin DOMAIN functions
           /\ functions'[n] = self[c] /\ \A i \in DOMAIN functions : functions'[i] = functions[i] /\ i < n
           /\ \A i, g : CopiesAt(i, g)' = CopiesAt(i, g)
           /\ \A g : CopiesAt(n, g) = {}
           /\ \A f : Entries(f)' = IF f = self[c] THEN Entries(f) \cup {n} ELSE Entries(f)
           /\ \A d \in Contexts \ {c} : entry'[d] = entry[d] /\ entry[d] # n
           /\ entry'[c] = n
           /\ \A f : Adds(c, f) = (IF f = self[c] THEN 1 ELSE 0) /\ Adds(c, f)' = 0
           /\ \A d \in Contexts : \A f : d # c => Adds(d, f)' = Adds(d, f)
           /\ \A i, g : i # n => AddsArc(c, i, g)' = 0
           /\ \A d \in Contexts : \A i, g : d # c => AddsArc(d, i, g)' = AddsArc(d, i, g)
           /\ \A d \in Contexts : \A g : d # c => AddsArc(d, n, g) = 0
           /\ c = "main" => entry["isr"] = 0 /\ \A f : Adds("isr", f) = 0
<1> DEFINE n == Len(functions) + 1
<1>1. /\ UNCHANGED <<arcs, self, from>> /\ pc[c] = "entry" /\ Runs(c)
      /\ pc' = [pc EXCEPT ![c] = "arc"] /\ entry' = [entry EXCEPT ![c] = n]
  BY DEF AddEntry, At, Goto
<1>2. /\ DOMAIN functions' = DOMAIN functions \cup {n} /\ n \notin DOMAIN functions
      /\ functions'[n] = self[c] /\ \A i \in DOMAIN functions : functions'[i] = functions[i]
  BY AddEntryIs
<1>3. /\ pc'[c] = "arc" /\ entry'[c] = n
      /\ \A d \in Contexts \ {c} : pc'[d] = pc[d] /\ entry'[d] = entry[d]
  BY <1>1 DEF TypeOK
<1>4. /\ Len(functions) \in Nat /\ DOMAIN functions = 1 .. Len(functions)
      /\ n # 0 /\ \A d \in Contexts : entry[d] <= Len(functions) /\ entry[d] # n
  BY DEF TypeOK, SearchInv
<1>5. entry[c] = 0
  BY <1>1 DEF SearchInv
<1>6. \A i \in DOMAIN functions : i < n
  BY <1>4
<1>7. \A i, g : CopiesAt(i, g)' = CopiesAt(i, g)
  BY <1>1 DEF CopiesAt
<1> HIDE DEF n
<1>8. \A g : CopiesAt(n, g) = {}
  BY <1>2 DEF CopiesAt, SearchInv
<1>9. \A f : Entries(f)' = IF f = self[c] THEN Entries(f) \cup {n} ELSE Entries(f)
  BY <1>2 DEF Entries
<1>10. \A f : Adds(c, f) = (IF f = self[c] THEN 1 ELSE 0) /\ Adds(c, f)' = 0
  BY <1>1, <1>3, <1>5 DEF Adds, Late
<1>11. \A d \in Contexts : \A f : d # c => Adds(d, f)' = Adds(d, f)
  BY <1>1, <1>3 DEF Adds
<1>12. \A i, g : i # n => AddsArc(c, i, g)' = 0
  BY <1>3 DEF AddsArc
<1>13. \A d \in Contexts : \A i, g : d # c => AddsArc(d, i, g)' = AddsArc(d, i, g)
  BY <1>1, <1>3 DEF AddsArc
<1>14. \A d \in Contexts : \A g : d # c => AddsArc(d, n, g) = 0
  BY <1>4 DEF AddsArc
<1>15. c = "main" => entry["isr"] = 0 /\ \A f : Adds("isr", f) = 0
  BY <1>1, OneRuns, TwoContexts DEF SearchInv, Adds, Late
<1> QED
  BY <1>2, <1>3, <1>4, <1>6, <1>7, <1>8, <1>9, <1>10, <1>11, <1>12, <1>13, <1>14, <1>15 DEF n

LEMMA ArcAdded ==
    ASSUME TypeOK, SearchInv, NEW c \in Contexts, AddArc(c)
    PROVE  LET n == Len(arcs) + 1 IN
           /\ UNCHANGED <<functions, entry>> /\ n \notin DOMAIN arcs
           /\ \A i, g : CopiesAt(i, g)' = IF i = entry[c] /\ g = from[c] THEN CopiesAt(i, g) \cup {n}
                                          ELSE CopiesAt(i, g)
           /\ \A d \in Contexts : \A f : Adds(d, f)' = Adds(d, f)
           /\ \A f : Adds(c, f) = 0
           /\ \A i, g : /\ AddsArc(c, i, g) = (IF i = entry[c] /\ g = from[c] THEN 1 ELSE 0)
                        /\ AddsArc(c, i, g)' = 0
           /\ \A d \in Contexts : \A i, g : d # c => AddsArc(d, i, g)' = AddsArc(d, i, g)
<1> DEFINE n == Len(arcs) + 1
<1>1. /\ UNCHANGED <<functions, entry, self, from>> /\ pc[c] = "arc"
      /\ pc' = [pc EXCEPT ![c] = "unmask"]
  BY DEF AddArc, At, Goto
<1>2. /\ DOMAIN arcs' = DOMAIN arcs \cup {n} /\ n \notin DOMAIN arcs
      /\ arcs'[n].entry = entry[c] /\ arcs'[n].from = from[c]
      /\ \A j \in DOMAIN arcs : arcs'[j] = arcs[j]
  BY AddArcIs
<1>3. pc'[c] = "unmask" /\ \A d \in Contexts \ {c} : pc'[d] = pc[d]
  BY <1>1 DEF TypeOK
<1> HIDE DEF n
<1>4. ASSUME NEW i, NEW g
      PROVE  CopiesAt(i, g)' = IF i = entry[c] /\ g = from[c] THEN CopiesAt(i, g) \cup {n}
                               ELSE CopiesAt(i, g)
  BY <1>2 DEF CopiesAt
<1>5. \A d \in Contexts : \A f : Adds(d, f)' = Adds(d, f)
  BY <1>1, <1>3 DEF Adds, Late
<1>6. \A f : Adds(c, f) = 0
  BY <1>1 DEF Adds, Late
<1>7. \A i, g : /\ AddsArc(c, i, g) = (IF i = entry[c] /\ g = from[c] THEN 1 ELSE 0)
                /\ AddsArc(c, i, g)' = 0
  BY <1>1, <1>3 DEF AddsArc, Late
<1>8. \A d \in Contexts : \A i, g : d # c => AddsArc(d, i, g)' = AddsArc(d, i, g)
  BY <1>1, <1>3 DEF AddsArc
<1> QED
  BY <1>1, <1>2, <1>4, <1>5, <1>6, <1>7, <1>8 DEF n

-----------------------------------------------------------------------------
FewInv == EntryInv /\ ArcInv /\ OlderInv

LEMMA InitFew == Init => FewInv
<1> SUFFICES ASSUME Init PROVE FewInv
  OBVIOUS
<1>1. functions = <<>> /\ DOMAIN functions = {} /\ \A c \in Contexts : pc[c] = "idle"
  BY DEF Init
<1>2. \A f : Entries(f) = {}
  BY <1>1 DEF Entries
<1>3. \A c \in Contexts : \A f : Adds(c, f) = 0
  BY <1>1 DEF Adds, Late
<1>4. Cardinality({}) = 0
  BY FS_EmptySet
<1>5. EntryInv
  BY <1>2, <1>3, <1>4, TwoContexts DEF EntryInv
<1>6. ArcInv /\ OlderInv
  BY <1>1 DEF ArcInv, OlderInv
<1> QED
  BY <1>5, <1>6 DEF FewInv

\* A second entry for a function is added only by the program, and a third by
\* nobody.
LEMMA EntryStep == TypeOK /\ TypeOK' /\ ModeInv /\ SearchInv /\ EntryInv /\ [Next]_vars => EntryInv'
<1> SUFFICES ASSUME TypeOK, TypeOK', ModeInv, SearchInv, EntryInv, [Next]_vars, NEW f \in Functions
             PROVE  /\ Cardinality(Entries(f)') + Adds("main", f)' + Adds("isr", f)' <= 2
                    /\ Adds("isr", f)' = 1 => Entries(f)' = {}
  BY DEF EntryInv
<1> USE TwoContexts, AddsAreBits
<1>0. /\ Cardinality(Entries(f)) \in Nat /\ IsFiniteSet(Entries(f))
      /\ Cardinality(Entries(f)) + Adds("main", f) + Adds("isr", f) <= 2
      /\ Adds("isr", f) = 1 => Entries(f) = {}
  BY CountsAreNat DEF EntryInv
<1>1. Cardinality({}) = 0
  BY FS_EmptySet
<1>2. ASSUME functions' = functions PROVE Entries(f)' = Entries(f)
  BY <1>2 DEF Entries
<1>3. CASE Quiet
  <2>1. Entries(f)' = Entries(f) /\ Adds("main", f)' <= Adds("main", f) /\ Adds("isr", f)' <= Adds("isr", f)
    BY <1>2, <1>3 DEF Quiet
  <2> QED
    BY <1>0, <2>1
<1>4. ASSUME NEW c \in Contexts, FindFunction(c)
      PROVE  /\ Cardinality(Entries(f)') + Adds("main", f)' + Adds("isr", f)' <= 2
             /\ Adds("isr", f)' = 1 => Entries(f)' = {}
  <2>1. /\ functions' = functions
        /\ \A d \in Contexts : d # c => Adds(d, f)' = Adds(d, f)
        /\ Adds(c, f)' = 1 => Entries(f) = {}
    BY <1>4, EntryFound
  <2>2. Entries(f)' = Entries(f)
    BY <1>2, <2>1
  <2>3. CASE Adds(c, f)' = 1
    <3>1. Entries(f)' = {} /\ Cardinality(Entries(f)') = 0
      BY <1>1, <2>1, <2>2, <2>3
    <3> QED
      BY <3>1
  <2>4. CASE Adds(c, f)' = 0
    BY <1>0, <2>1, <2>2, <2>4
  <2> QED
    BY <2>3, <2>4
<1>5. ASSUME NEW c \in Contexts, FindArc(c)
      PROVE  /\ Cardinality(Entries(f)') + Adds("main", f)' + Adds("isr", f)' <= 2
             /\ Adds("isr", f)' = 1 => Entries(f)' = {}
  <2>1. /\ functions' = functions
        /\ \A d \in Contexts : Adds(d, f)' <= Adds(d, f)
    BY <1>5, ArcFound
  <2> QED
    BY <1>0, <1>2, <2>1
<1>6. ASSUME NEW c \in Contexts, AddEntry(c)
      PROVE  /\ Cardinality(Entries(f)') + Adds("main", f)' + Adds("isr", f)' <= 2
             /\ Adds("isr", f)' = 1 => Entries(f)' = {}
  <2> DEFINE n == Len(functions) + 1
  <2>1. /\ Entries(f)' = IF f = self[c] THEN Entries(f) \cup {n} ELSE Entries(f)
        /\ Adds(c, f) = (IF f = self[c] THEN 1 ELSE 0) /\ Adds(c, f)' = 0
        /\ \A d \in Contexts : d # c => Adds(d, f)' = Adds(d, f)
        /\ c = "main" => Adds("isr", f) = 0
        /\ n \notin DOMAIN functions
    BY <1>6, EntryAdded
  <2>2. n \notin Entries(f)
    BY <2>1 DEF Entries
  <2> HIDE DEF n
  <2>3. Cardinality(Entries(f) \cup {n}) = Cardinality(Entries(f)) + 1
    BY <1>0, <2>2, FS_AddElement
  <2>4. CASE f = self[c]
    BY <1>0, <2>1, <2>3, <2>4
  <2>5. CASE f # self[c]
    BY <1>0, <2>1, <2>5
  <2> QED
    BY <2>4, <2>5
<1>7. ASSUME NEW c \in Contexts, AddArc(c)
      PROVE  /\ Cardinality(Entries(f)') + Adds("main", f)' + Adds("isr", f)' <= 2
             /\ Adds("isr", f)' = 1 => Entries(f)' = {}
  <2>1. /\ functions' = functions
        /\ \A d \in Contexts : Adds(d, f)' = Adds(d, f)
    BY <1>7, ArcAdded
  <2> QED
    BY <1>0, <1>2, <2>1
<1> QED
  BY <1>3, <1>4, <1>5, <1>6, <1>7, QuietStep DEF Loud

\* An arc is added a second time only where the program had searched before a
\* handler did, and only once to an entry the program does not know of.
LEMMA ArcStep == TypeOK /\ TypeOK' /\ ModeInv /\ SearchInv /\ ArcInv /\ [Next]_vars => ArcInv'
<1> SUFFICES ASSUME TypeOK, TypeOK', ModeInv, SearchInv, ArcInv, [Next]_vars,
                    NEW i \in DOMAIN functions', NEW g \in Callers,
                    NEW f, f = functions'[i]
             PROVE  /\ Cardinality(CopiesAt(i, g)') + AddsArc("main", i, g)' + AddsArc("isr", i, g)' <= 2
                    /\ Adds("main", f)' = 1 =>
                         Cardinality(CopiesAt(i, g)') + AddsArc("isr", i, g)' <= 1
  BY DEF ArcInv, Adds
<1> DEFINE Goal == /\ Cardinality(CopiesAt(i, g)') + AddsArc("main", i, g)' + AddsArc("isr", i, g)' <= 2
                   /\ Adds("main", f)' = 1 =>
                        Cardinality(CopiesAt(i, g)') + AddsArc("isr", i, g)' <= 1
<1> USE TwoContexts, AddsAreBits
<1>0. /\ Cardinality(CopiesAt(i, g)) \in Nat /\ IsFiniteSet(CopiesAt(i, g))
      /\ i \in DOMAIN functions =>
           /\ Cardinality(CopiesAt(i, g)) + AddsArc("main", i, g) + AddsArc("isr", i, g) <= 2
           /\ Adds("main", functions[i]) = 1 => Cardinality(CopiesAt(i, g)) + AddsArc("isr", i, g) <= 1
           /\ functions[i] \in Functions /\ i \in Nat \ {0}
  <2>1. Cardinality(CopiesAt(i, g)) \in Nat /\ IsFiniteSet(CopiesAt(i, g))
    BY CountsAreNat
  <2>2. i \in DOMAIN functions => functions[i] \in Functions /\ i \in Nat \ {0}
    BY DEF TypeOK
  <2> QED
    BY <2>1, <2>2 DEF ArcInv
<1>1. Cardinality({}) = 0
  BY FS_EmptySet
<1>3. CASE Quiet
  <2>1. /\ CopiesAt(i, g)' = CopiesAt(i, g) /\ functions' = functions
    BY <1>3 DEF Quiet
  <2>2. /\ AddsArc("main", i, g)' <= AddsArc("main", i, g) /\ AddsArc("isr", i, g)' <= AddsArc("isr", i, g)
        /\ Adds("main", f)' <= Adds("main", f)
    BY <1>0, <1>3, <2>1 DEF Quiet
  <2> QED
    BY <1>0, <2>1, <2>2
<1>4. ASSUME NEW c \in Contexts, FindFunction(c) PROVE Goal
  <2>1. /\ functions' = functions /\ CopiesAt(i, g)' = CopiesAt(i, g)
        /\ \A d \in Contexts, e \in Functions : d # c => Adds(d, e)' = Adds(d, e)
        /\ \A e \in Functions : Adds(c, e)' = 1 => Entries(e) = {}
        /\ i \in Nat \ {0} => \A d \in Contexts : AddsArc(d, i, g)' <= AddsArc(d, i, g)
    BY <1>4, EntryFound
  <2>2. Entries(f) # {}
    BY <2>1 DEF Entries
  <2>3. Adds("main", f)' = 1 => Adds("main", f) = 1
    BY <1>0, <2>1, <2>2
  <2> QED
    BY <1>0, <2>1, <2>3
<1>5. ASSUME NEW c \in Contexts, FindArc(c) PROVE Goal
  <2>1. /\ functions' = functions /\ CopiesAt(i, g)' = CopiesAt(i, g)
        /\ \A d \in Contexts, e \in Functions : Adds(d, e)' <= Adds(d, e)
        /\ \A d \in Contexts : d # c => AddsArc(d, i, g)' = AddsArc(d, i, g)
        /\ AddsArc(c, i, g)' = 1 => CopiesAt(i, g) = {}
        /\ \A e : Adds(c, e)' = 0
    BY <1>5, ArcFound
  <2>2. Adds("main", f)' <= Adds("main", f) /\ Adds(c, f)' = 0
    BY <1>0, <2>1
  <2>3. CASE AddsArc(c, i, g)' = 1
    <3>1. Cardinality(CopiesAt(i, g)') = 0
      BY <1>1, <2>1, <2>3
    <3> QED
      BY <3>1
  <2>4. CASE AddsArc(c, i, g)' = 0
    BY <1>0, <2>1, <2>2, <2>4
  <2> QED
    BY <2>3, <2>4
<1>6. ASSUME NEW c \in Contexts, AddEntry(c) PROVE Goal
  <2> DEFINE n == Len(functions) + 1
  <2>1. /\ DOMAIN functions' = DOMAIN functions \cup {n} /\ functions'[n] = self[c]
        /\ i \in DOMAIN functions => functions'[i] = functions[i] /\ i # n
        /\ CopiesAt(i, g)' = CopiesAt(i, g) /\ CopiesAt(n, g) = {}
        /\ \A e : Adds(c, e)' = 0
        /\ \A d \in Contexts : \A e : d # c => Adds(d, e)' = Adds(d, e)
        /\ i # n => AddsArc(c, i, g)' = 0
        /\ \A d \in Contexts : d # c => AddsArc(d, i, g)' = AddsArc(d, i, g)
        /\ \A d \in Contexts : d # c => AddsArc(d, n, g) = 0
    BY <1>6, EntryAdded
  <2> HIDE DEF n
  <2>2. CASE i = n
    <3>1. Cardinality(CopiesAt(i, g)') = 0
      BY <1>1, <2>1, <2>2
    <3>2. \A d \in Contexts : d # c => AddsArc(d, i, g)' = 0
      BY <2>1, <2>2
    <3> QED
      BY <3>1, <3>2, <2>1
  <2>3. CASE i # n
    <3>1. i \in DOMAIN functions /\ functions'[i] = functions[i]
      BY <2>1, <2>3
    <3>2. Adds("main", f)' = 1 => Adds("main", f) = 1
      BY <2>1
    <3>3. AddsArc("main", i, g)' <= AddsArc("main", i, g) /\ AddsArc("isr", i, g)' <= AddsArc("isr", i, g)
      BY <2>1, <2>3
    <3> QED
      BY <1>0, <2>1, <3>1, <3>2, <3>3
  <2> QED
    BY <2>2, <2>3
<1>7. ASSUME NEW c \in Contexts, AddArc(c) PROVE Goal
  <2> DEFINE n == Len(arcs) + 1
  <2>1. /\ functions' = functions /\ n \notin DOMAIN arcs
        /\ CopiesAt(i, g)' = IF i = entry[c] /\ g = from[c] THEN CopiesAt(i, g) \cup {n} ELSE CopiesAt(i, g)
        /\ \A d \in Contexts : \A e : Adds(d, e)' = Adds(d, e)
        /\ \A e : Adds(c, e) = 0
        /\ AddsArc(c, i, g) = (IF i = entry[c] /\ g = from[c] THEN 1 ELSE 0)
        /\ AddsArc(c, i, g)' = 0
        /\ \A d \in Contexts : d # c => AddsArc(d, i, g)' = AddsArc(d, i, g)
    BY <1>7, ArcAdded
  <2>2. n \notin CopiesAt(i, g)
    BY <2>1 DEF CopiesAt
  <2> HIDE DEF n
  <2>3. Cardinality(CopiesAt(i, g) \cup {n}) = Cardinality(CopiesAt(i, g)) + 1
    BY <1>0, <2>2, FS_AddElement
  <2>4. Adds("main", f)' = Adds("main", f) /\ Adds(c, f) = 0
    BY <2>1
  <2>5. CASE i = entry[c] /\ g = from[c]
    BY <1>0, <2>1, <2>3, <2>4, <2>5
  <2>6. CASE ~(i = entry[c] /\ g = from[c])
    BY <1>0, <2>1, <2>4, <2>6
  <2> QED
    BY <2>5, <2>6
<1> QED
  BY <1>3, <1>4, <1>5, <1>6, <1>7, QuietStep DEF Loud

\* A search stops at the newer of two entries, and the program does not finish
\* an entry that a handler's made the older one.
LEMMA OlderStep ==
  TypeOK /\ TypeOK' /\ ModeInv /\ SearchInv /\ EntryInv /\ ArcInv /\ OlderInv /\ [Next]_vars => OlderInv'
<1> SUFFICES ASSUME TypeOK, TypeOK', ModeInv, SearchInv, EntryInv, ArcInv, OlderInv, [Next]_vars,
                    NEW i \in DOMAIN functions', NEW j \in DOMAIN functions',
                    i < j, functions'[i] = functions'[j]
             PROVE  /\ \A c \in Contexts : entry'[c] # i
                    /\ \A g \in Callers : Cardinality(CopiesAt(i, g)') <= 1
  BY DEF OlderInv
<1> DEFINE Goal == /\ \A c \in Contexts : entry'[c] # i
                   /\ \A g \in Callers : Cardinality(CopiesAt(i, g)') <= 1
<1> USE TwoContexts
<1>1. /\ i \in Nat \ {0} /\ j \in Nat
      /\ \A c \in Contexts : entry[c] \in Nat
      /\ \A k \in DOMAIN functions : functions[k] \in Functions
  <2>1. functions' \in Seq(Functions) /\ functions \in Seq(Functions) /\ entry \in [Contexts -> Nat]
    BY DEF TypeOK
  <2>2. i \in Nat \ {0} /\ j \in Nat
    BY <2>1
  <2>3. \A k \in DOMAIN functions : functions[k] \in Functions
    BY <2>1
  <2> QED
    BY <2>1, <2>2, <2>3
<1>2. ASSUME functions' = functions
      PROVE  /\ \A c \in Contexts : entry[c] # i
             /\ \A g \in Callers : Cardinality(CopiesAt(i, g)) <= 1
  BY <1>2 DEF OlderInv
<1>3. CASE Quiet
  BY <1>1, <1>2, <1>3 DEF Quiet
<1>4. ASSUME NEW c \in Contexts, FindFunction(c) PROVE Goal
  <2>1. /\ functions' = functions /\ \A g : CopiesAt(i, g)' = CopiesAt(i, g)
        /\ \A d \in Contexts \ {c} : entry'[d] = entry[d]
        /\ entry'[c] # 0 => \A k \in DOMAIN functions : functions[k] = functions[entry'[c]] => k <= entry'[c]
    BY <1>4, EntryFound
  <2>2. entry'[c] # i
    BY <1>1, <2>1
  <2> QED
    BY <1>2, <2>1, <2>2
<1>5. ASSUME NEW c \in Contexts, FindArc(c) PROVE Goal
  <2>1. UNCHANGED <<functions, entry>> /\ \A g : CopiesAt(i, g)' = CopiesAt(i, g)
    BY <1>5, ArcFound
  <2> QED
    BY <1>2, <2>1
<1>6. ASSUME NEW c \in Contexts, AddEntry(c) PROVE Goal
  <2> DEFINE n == Len(functions) + 1
  <2>1. /\ DOMAIN functions' = DOMAIN functions \cup {n} /\ functions'[n] = self[c]
        /\ \A k \in DOMAIN functions : functions'[k] = functions[k] /\ k < n
        /\ \A g : CopiesAt(i, g)' = CopiesAt(i, g)
        /\ entry'[c] = n /\ \A d \in Contexts \ {c} : entry'[d] = entry[d]
        /\ \A f : Adds(c, f) = (IF f = self[c] THEN 1 ELSE 0)
        /\ c = "main" => entry["isr"] = 0
    BY <1>6, EntryAdded
  <2>2. n \in Nat
    BY DEF TypeOK
  <2> HIDE DEF n
  <2>3. i \in DOMAIN functions /\ i < n
    BY <1>1, <2>1, <2>2
  <2>4. CASE j = n
    <3>1. functions[i] = self[c] /\ Adds(c, functions[i]) = 1 /\ Entries(functions[i]) # {}
      BY <2>1, <2>3, <2>4 DEF Entries
    <3>2. c = "main"
      BY <1>1, <2>3, <3>1 DEF EntryInv
    <3>3. \A d \in Contexts : entry'[d] # i
      BY <1>1, <2>1, <2>2, <2>3, <3>2
    <3>4. ASSUME NEW g \in Callers PROVE Cardinality(CopiesAt(i, g)) <= 1
      <4>1. Cardinality(CopiesAt(i, g)) + AddsArc("isr", i, g) <= 1
        BY <2>3, <3>1, <3>2 DEF ArcInv
      <4>2. Cardinality(CopiesAt(i, g)) \in Nat /\ AddsArc("isr", i, g) \in {0, 1}
        BY CountsAreNat, AddsAreBits
      <4> QED
        BY <4>1, <4>2
    <3> QED
      BY <2>1, <3>3, <3>4
  <2>5. CASE j # n
    <3>1. j \in DOMAIN functions /\ functions[i] = functions[j]
      BY <2>1, <2>3, <2>5
    <3> QED
      BY <2>1, <2>2, <2>3, <3>1 DEF OlderInv
  <2> QED
    BY <2>4, <2>5
<1>7. ASSUME NEW c \in Contexts, AddArc(c) PROVE Goal
  <2>1. /\ UNCHANGED <<functions, entry>>
        /\ \A g : i # entry[c] => CopiesAt(i, g)' = CopiesAt(i, g)
    BY <1>7, ArcAdded
  <2> QED
    BY <1>2, <2>1
<1> QED
  BY <1>3, <1>4, <1>5, <1>6, <1>7, QuietStep DEF Loud

-----------------------------------------------------------------------------
\* A set without three members is a pair.
LEMMA PairIs ==
    ASSUME NEW S, IsFiniteSet(S), Cardinality(S) <= 2, NEW x \in S
    PROVE  \E y \in S : S = {x, y}
<1> SUFFICES ASSUME \A y \in S : S # {x, y} PROVE FALSE
  OBVIOUS
<1>1. PICK y \in S : y # x
  <2>1. S # {x, x}
    OBVIOUS
  <2> QED
    BY <2>1
<1>2. PICK z \in S : z \notin {x, y}
  BY <1>1
<1>3. IsFiniteSet({x}) /\ Cardinality({x}) = 1
  BY FS_Singleton
<1>4. IsFiniteSet({x} \cup {y}) /\ Cardinality({x} \cup {y}) = 1 + 1
  BY <1>1, <1>3, FS_AddElement
<1>5. IsFiniteSet(({x} \cup {y}) \cup {z}) /\ Cardinality(({x} \cup {y}) \cup {z}) = 1 + 1 + 1
  BY <1>2, <1>4, FS_AddElement
<1>6. ({x} \cup {y}) \cup {z} \subseteq S
  BY <1>1, <1>2
<1>7. Cardinality(({x} \cup {y}) \cup {z}) <= Cardinality(S) /\ Cardinality(S) \in Nat
  BY <1>6, FS_Subset, FS_CardinalityType
<1> QED
  BY <1>5, <1>7

\* The copies of an arc lie at the entries of its function.
LEMMA FewFollow == ASSUME TypeOK, SearchInv, FewInv PROVE FewCopies
<1> USE TwoContexts
<1>0. /\ \A f : IsFiniteSet(Entries(f)) /\ Cardinality(Entries(f)) \in Nat
      /\ \A i, g : IsFiniteSet(CopiesAt(i, g)) /\ Cardinality(CopiesAt(i, g)) \in Nat
  <2>2. /\ Len(functions) \in Nat /\ DOMAIN functions = 1 .. Len(functions)
        /\ Len(arcs) \in Nat /\ DOMAIN arcs = 1 .. Len(arcs)
    BY DEF TypeOK
  <2>3. ASSUME NEW f PROVE Entries(f) \in SUBSET (1 .. Len(functions))
    BY <2>2 DEF Entries
  <2>4. ASSUME NEW i, NEW g PROVE CopiesAt(i, g) \in SUBSET (1 .. Len(arcs))
    BY <2>2 DEF CopiesAt
  <2> QED
    BY <2>2, <2>3, <2>4, FiniteSub
<1>1. \A c, f, i, g : Adds(c, f) \in {0, 1} /\ AddsArc(c, i, g) \in {0, 1}
  BY DEF Adds, AddsArc
<1>2. ASSUME NEW f \in Functions PROVE Cardinality(Entries(f)) <= 2
  BY <1>0, <1>1 DEF FewInv, EntryInv
<1>3. ASSUME NEW i \in DOMAIN functions, NEW g \in Callers PROVE Cardinality(CopiesAt(i, g)) <= 2
  <2>1. /\ Cardinality(CopiesAt(i, g)) + AddsArc("main", i, g) + AddsArc("isr", i, g) <= 2
    BY DEF FewInv, ArcInv
  <2> QED
    BY <1>0, <1>1, <2>1
<1>4. ASSUME NEW f \in Functions, NEW g \in Callers PROVE Cardinality(Copies(f, g)) <= 3
  <2>1. Copies(f, g) \subseteq UNION {CopiesAt(i, g) : i \in Entries(f)}
    <3>1. ASSUME NEW k \in Copies(f, g)
          PROVE  arcs[k].entry \in Entries(f) /\ k \in CopiesAt(arcs[k].entry, g)
      BY DEF Copies, Entries, CopiesAt, SearchInv
    <3> QED
      BY <3>1
  <2>2. CASE Entries(f) = {}
    <3>1. Copies(f, g) = {}
      BY <2>1, <2>2
    <3>2. Cardinality({}) = 0
      BY FS_EmptySet
    <3> QED
      BY <3>1, <3>2
  <2>3. CASE Entries(f) # {}
    <3>1. PICK x \in Entries(f) : TRUE
      BY <2>3
    <3>2. PICK y \in Entries(f) : Entries(f) = {x, y}
      BY <1>0, <1>2, PairIs
    <3> DEFINE A == CopiesAt(x, g)  B == CopiesAt(y, g)
    <3>3. Copies(f, g) \subseteq A \cup B
      BY <2>1, <3>2
    <3>4. IsFiniteSet(A) /\ IsFiniteSet(B) /\ Cardinality(A) \in Nat /\ Cardinality(B) \in Nat
      BY <1>0
    <3>5. /\ x \in DOMAIN functions /\ y \in DOMAIN functions /\ functions[x] = functions[y]
          /\ x \in Nat /\ y \in Nat
      BY DEF Entries, TypeOK
    <3>6. Cardinality(A) <= 2 /\ Cardinality(B) <= 2
      BY <1>3, <3>5
    <3>7. x < y => Cardinality(A) <= 1
      BY <3>5 DEF FewInv, OlderInv
    <3>8. y < x => Cardinality(B) <= 1
      BY <3>5 DEF FewInv, OlderInv
    <3>9. x = y => A = B
      OBVIOUS
    <3> HIDE DEF A, B
    <3>10. /\ IsFiniteSet(A \cup B) /\ Cardinality(A \cup B) \in Nat
           /\ Cardinality(A \cup B) <= Cardinality(A) + Cardinality(B)
      <4>1. /\ IsFiniteSet(A \cup B)
            /\ Cardinality(A \cup B) = Cardinality(A) + Cardinality(B) - Cardinality(A \cap B)
        BY <3>4, FS_Union
      <4>2. Cardinality(A \cap B) \in Nat
        BY <3>4, FS_Intersection, FS_CardinalityType
      <4>3. Cardinality(A \cup B) \in Nat
        BY <4>1, FS_CardinalityType
      <4> QED
        BY <3>4, <4>1, <4>2, <4>3
    <3>11. Cardinality(A \cup B) <= 3
      <4>1. CASE x = y
        <5>1. Cardinality(A \cup B) = Cardinality(A)
          <6>1. A \cup B = A
            BY <3>9, <4>1
          <6> QED
            BY <6>1
        <5>2. Cardinality(A) <= 2 /\ Cardinality(A) \in Nat
          BY <3>4, <3>6
        <5> QED
          BY <5>1, <5>2
      <4>2. CASE x < y
        BY <3>4, <3>6, <3>7, <3>10, <4>2
      <4>3. CASE y < x
        BY <3>4, <3>6, <3>8, <3>10, <4>3
      <4> QED
        BY <3>5, <4>1, <4>2, <4>3
    <3>12. Cardinality(Copies(f, g)) \in Nat /\ Cardinality(Copies(f, g)) <= Cardinality(A \cup B)
      <4>1. IsFiniteSet(Copies(f, g)) /\ Cardinality(Copies(f, g)) <= Cardinality(A \cup B)
        BY <3>3, <3>10, FS_Subset
      <4> QED
        BY <4>1, FS_CardinalityType
    <3> QED
      BY <3>10, <3>11, <3>12
  <2> QED
    BY <2>2, <2>3
<1> QED
  BY <1>2, <1>4 DEF FewCopies, Entries

\* The searches and the additions of two contexts race, and still the graph
\* has at most two entries of a function and three copies of an arc, for every
\* number of functions and calls and every place a handler comes in.
THEOREM CopiesAreFew == Spec => []FewCopies
<1>1. TypeOK /\ TypeOK' /\ ModeInv /\ SearchInv /\ FewInv /\ [Next]_vars => FewInv'
  BY EntryStep, ArcStep, OlderStep DEF FewInv
<1>2. TypeOK /\ SearchInv /\ FewInv => FewCopies
  BY FewFollow
<1> QED
  BY <1>1, <1>2, InitFew, BaseCorrect, PTL DEF Spec

-----------------------------------------------------------------------------
\* The sizes, without the assumptions on words.
LEMMA Sizes ==
  /\ Record \in Nat \ {0} /\ Slab \in Nat /\ Record <= Slab /\ Histogram \in Nat
  /\ HeapLimit \in Nat /\ Requests \subseteq Nat /\ OnWord(Record) /\ OnWord(HeapLimit)
BY SizesAssumption DEF OnWord

LEMMA WordsAdd == ASSUME NEW a \in Int, NEW b \in Int, OnWord(a), OnWord(b) PROVE OnWord(a + b)
BY DEF OnWord

\* The next word is not beyond an aligned limit.
LEMMA AlignedIs ==
    ASSUME NEW v \in Nat, v <= HeapLimit
    PROVE  /\ Aligned(v) \in Nat /\ v <= Aligned(v) /\ Aligned(v) <= HeapLimit
           /\ OnWord(Aligned(v))
BY Sizes DEF Aligned, OnWord

\* sbrk(): the heap never shrinks and stays within its limit; a block that is
\* not refused begins on a word at the old end and ends at the new one.
LEMMA BrkIs ==
    ASSUME HeapInv, NEW n \in Nat
    PROVE  /\ HeapEnd(n) \in Nat /\ heapEnd <= HeapEnd(n) /\ HeapEnd(n) <= HeapLimit
           /\ Broken(n) \in Int
           /\ Fits(n) <=> Broken(n) >= 0
           /\ Fits(n) => heapEnd <= Broken(n) /\ Broken(n) + n = HeapEnd(n) /\ OnWord(Broken(n))
<1> DEFINE a == Aligned(heapEnd)
<1>1. a \in Nat /\ heapEnd <= a /\ a <= HeapLimit /\ OnWord(a) /\ heapEnd \in Nat
  BY AlignedIs DEF HeapInv
<1>2. /\ Fits(n) <=> a + n <= HeapLimit
      /\ Broken(n) = IF Fits(n) THEN a ELSE -1
      /\ HeapEnd(n) = IF Fits(n) THEN a + n ELSE a
  BY DEF Fits, Broken, HeapEnd, Failed
<1> HIDE DEF a
<1>3. CASE Fits(n)
  BY <1>1, <1>2, <1>3
<1>4. CASE ~Fits(n)
  BY <1>1, <1>2, <1>4
<1> QED
  BY <1>3, <1>4

\* One more block: what it has to lie apart from, and the slab from it.
LEMMA AddBlock ==
    ASSUME HeapInv, NEW a \in Int, NEW n \in Nat,
           given' = Append(given, [at |-> a, size |-> n]),
           heapEnd' \in Nat, heapEnd <= heapEnd', heapEnd' <= HeapLimit,
           slabSize' \in Nat, slabPtr' \in Int,
           ~Refused /\ a >= 0 =>
             /\ a + n <= heapEnd' /\ OnWord(a)
             /\ \A k \in DOMAIN given : Apart(a, n, given[k].at, given[k].size)
             /\ slabPtr' >= 0 /\ OnWord(slabPtr')
             /\ slabSize' > 0 =>
                  /\ slabPtr' + slabSize' <= heapEnd' /\ Apart(slabPtr', slabSize', a, n)
                  /\ \A k \in DOMAIN given : Apart(slabPtr', slabSize', given[k].at, given[k].size)
    PROVE  HeapInv'
<1> DEFINE b == [at |-> a, size |-> n]  m == Len(given) + 1
<1>1. b \in Block /\ b.at = a /\ b.size = n /\ given \in Seq(Block)
  BY DEF Block, HeapInv
<1>2. given' = Append(given, b)
  OBVIOUS
<1> HIDE DEF b
<1>3. /\ given' \in Seq(Block) /\ m \in Nat
      /\ DOMAIN given = 1 .. m - 1 /\ DOMAIN given' = 1 .. m
      /\ given'[m] = b /\ \A k \in 1 .. m - 1 : given'[k] = given[k]
  BY <1>1, <1>2
<1>4. \A k \in DOMAIN given : given[k].at \in Int /\ given[k].size \in Nat
  <2>1. ASSUME NEW k \in DOMAIN given PROVE given[k] \in Block
    BY <1>1
  <2> QED
    BY <2>1 DEF Block
<1>5. m \in 1 .. m /\ \A k \in 1 .. m - 1 : k \in 1 .. m
  BY <1>3
<1> HIDE DEF m
<1>6. ~Refused' => ~Refused /\ a >= 0
  BY <1>1, <1>3, <1>4, <1>5 DEF Refused
<1>7. ASSUME ~Refused' PROVE BlocksInv'
  <2>1. ~Refused /\ a >= 0 /\ BlocksInv
    BY <1>6, <1>7 DEF HeapInv
  <2>2. ASSUME NEW k \in 1 .. m - 1
        PROVE  /\ given'[k].at + given'[k].size <= heapEnd' /\ OnWord(given'[k].at)
               /\ \A l \in 1 .. k - 1 : Apart(given'[k].at, given'[k].size, given'[l].at, given'[l].size)
    <3>1. /\ given[k].at + given[k].size <= heapEnd /\ OnWord(given[k].at)
          /\ \A l \in 1 .. k - 1 : Apart(given[k].at, given[k].size, given[l].at, given[l].size)
      BY <1>3, <2>1 DEF BlocksInv
    <3>2. given'[k] = given[k] /\ \A l \in 1 .. k - 1 : given'[l] = given[l]
      BY <1>3
    <3>3. given[k].at + given[k].size <= heapEnd'
      <4>1. given[k].at \in Int /\ given[k].size \in Nat /\ heapEnd \in Nat
        BY <1>3, <1>4 DEF HeapInv
      <4> QED
        BY <3>1, <4>1
    <3> QED
      BY <3>1, <3>2, <3>3
  <2>3. /\ given'[m].at + given'[m].size <= heapEnd' /\ OnWord(given'[m].at)
        /\ \A l \in 1 .. m - 1 : Apart(given'[m].at, given'[m].size, given'[l].at, given'[l].size)
    BY <1>1, <1>3, <2>1
  <2>4. \A k \in 1 .. m : k = m \/ k \in 1 .. m - 1
    BY <1>3
  <2> QED
    BY <1>3, <2>2, <2>3, <2>4 DEF BlocksInv
<1>8. ASSUME ~Refused' PROVE SlabInv'
  <2>1. ~Refused /\ a >= 0
    BY <1>6, <1>8
  <2>2. slabSize' > 0 => \A k \in 1 .. m - 1 : Apart(slabPtr', slabSize', given'[k].at, given'[k].size)
    BY <1>3, <2>1
  <2>3. slabSize' > 0 => Apart(slabPtr', slabSize', given'[m].at, given'[m].size)
    BY <1>1, <1>3, <2>1
  <2>4. \A k \in DOMAIN given' : k = m \/ k \in 1 .. m - 1
    BY <1>3
  <2> QED
    BY <2>1, <2>2, <2>3, <2>4 DEF SlabInv
<1> QED
  BY <1>3, <1>7, <1>8 DEF HeapInv

\* A block above the old end of the heap lies apart from the others.
LEMMA AboveIsApart ==
    ASSUME HeapInv, ~Refused, NEW a \in Int, NEW n \in Nat, heapEnd <= a
    PROVE  /\ \A k \in DOMAIN given : Apart(a, n, given[k].at, given[k].size)
           /\ slabSize > 0 => Apart(slabPtr, slabSize, a, n)
<1>1. \A k \in DOMAIN given : given[k] \in Block
  BY DEF HeapInv
<1>2. ASSUME NEW k \in DOMAIN given PROVE Apart(a, n, given[k].at, given[k].size)
  <2>1. given[k].at \in Int /\ given[k].size \in Nat /\ heapEnd \in Nat
    BY <1>1 DEF Block, HeapInv
  <2>2. given[k].at + given[k].size <= heapEnd
    BY DEF HeapInv, BlocksInv
  <2> QED
    BY <2>1, <2>2 DEF Apart
<1>3. slabSize > 0 => Apart(slabPtr, slabSize, a, n)
  BY DEF HeapInv, SlabInv, Apart
<1> QED
  BY <1>2, <1>3

LEMMA InitHeap == Init => HeapInv
<1> SUFFICES ASSUME Init PROVE HeapInv
  OBVIOUS
<1>1. heapEnd = 0 /\ given = <<>> /\ slabPtr = 0 /\ slabSize = 0
  BY DEF Init
<1>2. OnWord(0)
  BY DEF OnWord
<1> QED
  BY <1>1, <1>2, Sizes DEF HeapInv, BlocksInv, SlabInv

\* A block from the top of the heap, the slab left as it is.
LEMMA GrowHeap ==
    ASSUME HeapInv, NEW n \in Nat, UNCHANGED slab, heapEnd' = HeapEnd(n),
           given' = Append(given, [at |-> Broken(n), size |-> n])
    PROVE  HeapInv'
<1> DEFINE a == Broken(n)
<1>1. /\ heapEnd' \in Nat /\ heapEnd <= heapEnd' /\ heapEnd' <= HeapLimit /\ a \in Int /\ heapEnd \in Nat
      /\ a >= 0 => heapEnd <= a /\ a + n = heapEnd' /\ OnWord(a)
  BY BrkIs DEF HeapInv
<1> HIDE DEF a
<1>2. slabPtr' = slabPtr /\ slabSize' = slabSize /\ slabPtr \in Int /\ slabSize \in Nat
  BY DEF HeapInv
<1>3. ASSUME ~Refused, a >= 0
      PROVE  /\ \A k \in DOMAIN given : Apart(a, n, given[k].at, given[k].size)
             /\ slabSize > 0 => Apart(slabPtr, slabSize, a, n)
  BY <1>1, <1>3, AboveIsApart
<1>4. ASSUME ~Refused
      PROVE  /\ slabPtr >= 0 /\ OnWord(slabPtr)
             /\ slabSize > 0 => /\ slabPtr + slabSize <= heapEnd'
                                /\ \A k \in DOMAIN given : Apart(slabPtr, slabSize, given[k].at, given[k].size)
  <2>1. SlabInv
    BY <1>4 DEF HeapInv
  <2> QED
    BY <1>1, <1>2, <2>1 DEF SlabInv
<1>5. given' = Append(given, [at |-> a, size |-> n])
  BY DEF a
<1>6. ~Refused /\ a >= 0 =>
        /\ a + n <= heapEnd' /\ OnWord(a)
        /\ \A k \in DOMAIN given : Apart(a, n, given[k].at, given[k].size)
        /\ slabPtr' >= 0 /\ OnWord(slabPtr')
        /\ slabSize' > 0 =>
             /\ slabPtr' + slabSize' <= heapEnd' /\ Apart(slabPtr', slabSize', a, n)
             /\ \A k \in DOMAIN given : Apart(slabPtr', slabSize', given[k].at, given[k].size)
  BY <1>1, <1>2, <1>3, <1>4
<1> QED
  BY <1>1, <1>2, <1>5, <1>6, AddBlock

\* A heap that only moves its end up to a word.
LEMMA AlignHeap ==
    ASSUME HeapInv, UNCHANGED <<given, slab>>, heapEnd' \in Nat, heapEnd <= heapEnd', heapEnd' <= HeapLimit
    PROVE  HeapInv'
<1>1. Refused' = Refused
  BY DEF Refused
<1>2. \A k \in DOMAIN given : given[k].at \in Int /\ given[k].size \in Nat
  <2>1. ASSUME NEW k \in DOMAIN given PROVE given[k] \in Block
    BY DEF HeapInv
  <2> QED
    BY <2>1 DEF Block
<1>3. BlocksInv => BlocksInv'
  BY <1>2 DEF BlocksInv, HeapInv
<1>4. SlabInv => SlabInv'
  BY DEF SlabInv, HeapInv
<1> QED
  BY <1>1, <1>3, <1>4 DEF HeapInv

\* A record cut from the slab, or from a new one.
LEMMA AllocateStep == ASSUME HeapInv, Allocate(Record) PROVE HeapInv'
<1>1. /\ Record \in Nat /\ Record > 0 /\ Slab \in Nat /\ Record <= Slab /\ OnWord(Record)
      /\ slabPtr \in Int /\ slabSize \in Nat /\ heapEnd \in Nat /\ heapEnd <= HeapLimit
  BY Sizes DEF HeapInv
<1>2. CASE Record > slabSize
  <2> DEFINE a == Broken(Slab)
  <2>1. /\ heapEnd' = HeapEnd(Slab) /\ slabPtr' = a + Record /\ slabSize' = Slab - Record
        /\ given' = Append(given, [at |-> a, size |-> Record])
    BY <1>2 DEF Allocate, SlabLeft
  <2>2. /\ heapEnd' \in Nat /\ heapEnd <= heapEnd' /\ heapEnd' <= HeapLimit /\ a \in Int
        /\ a >= 0 => heapEnd <= a /\ a + Slab = heapEnd' /\ OnWord(a)
    BY <1>1, <2>1, BrkIs
  <2> HIDE DEF a
  <2>3. slabPtr' \in Int /\ slabSize' \in Nat
    BY <1>1, <2>1, <2>2
  <2>4. ASSUME ~Refused, a >= 0
        PROVE  /\ \A k \in DOMAIN given : Apart(a, Record, given[k].at, given[k].size)
               /\ \A k \in DOMAIN given : Apart(slabPtr', slabSize', given[k].at, given[k].size)
    <3>1. heapEnd <= a /\ heapEnd <= slabPtr'
      BY <1>1, <2>1, <2>2, <2>4
    <3> QED
      BY <1>1, <2>2, <2>3, <2>4, <3>1, AboveIsApart
  <2>5. ASSUME a >= 0
        PROVE  /\ a + Record <= heapEnd' /\ OnWord(a)
               /\ slabPtr' >= 0 /\ OnWord(slabPtr')
               /\ slabPtr' + slabSize' <= heapEnd' /\ Apart(slabPtr', slabSize', a, Record)
    <3>1. OnWord(slabPtr')
      BY <1>1, <2>1, <2>2, <2>5, WordsAdd
    <3> QED
      BY <1>1, <2>1, <2>2, <2>5, <3>1 DEF Apart
  <2> QED
    BY <1>1, <2>1, <2>2, <2>3, <2>4, <2>5, AddBlock
<1>3. CASE ~(Record > slabSize)
  <2>1. /\ heapEnd' = heapEnd /\ slabPtr' = slabPtr + Record /\ slabSize' = slabSize - Record
        /\ given' = Append(given, [at |-> slabPtr, size |-> Record])
    BY <1>3 DEF Allocate, SlabLeft
  <2>2. slabPtr' \in Int /\ slabSize' \in Nat /\ slabSize > 0 /\ Record <= slabSize
    BY <1>1, <1>3, <2>1
  <2>3. ASSUME ~Refused
        PROVE  /\ slabPtr + Record <= heapEnd' /\ OnWord(slabPtr)
               /\ slabPtr' >= 0 /\ OnWord(slabPtr')
               /\ slabPtr' + slabSize' <= heapEnd' /\ Apart(slabPtr', slabSize', slabPtr, Record)
    <3>1. slabPtr >= 0 /\ OnWord(slabPtr) /\ slabPtr + slabSize <= heapEnd
      BY <2>2, <2>3 DEF HeapInv, SlabInv
    <3>2. OnWord(slabPtr')
      BY <1>1, <2>1, <3>1, WordsAdd
    <3> QED
      BY <1>1, <2>1, <2>2, <3>1, <3>2 DEF Apart
  <2>4. ASSUME ~Refused, NEW k \in DOMAIN given
        PROVE  /\ Apart(slabPtr, Record, given[k].at, given[k].size)
               /\ Apart(slabPtr', slabSize', given[k].at, given[k].size)
    <3>1. Apart(slabPtr, slabSize, given[k].at, given[k].size)
      BY <2>2, <2>4 DEF HeapInv, SlabInv
    <3>2. given[k].at \in Int /\ given[k].size \in Nat
      <4>1. given[k] \in Block
        BY DEF HeapInv
      <4> QED
        BY <4>1 DEF Block
    <3> QED
      BY <1>1, <2>1, <2>2, <3>1, <3>2 DEF Apart
  <2>5. heapEnd' \in Nat /\ heapEnd <= heapEnd' /\ heapEnd' <= HeapLimit
    BY <1>1, <2>1
  <2> QED
    BY <1>1, <2>1, <2>2, <2>3, <2>4, <2>5, AddBlock
<1> QED
  BY <1>2, <1>3

LEMMA HeapStep == HeapInv /\ [Next]_vars => HeapInv'
<1> SUFFICES ASSUME HeapInv, [Next]_vars PROVE HeapInv'
  OBVIOUS
<1>1. ASSUME UNCHANGED <<heapEnd, given, slabPtr, slabSize>> PROVE HeapInv'
  BY <1>1 DEF HeapInv, Refused, BlocksInv, SlabInv
<1>2. ASSUME NEW c \in Contexts, AddEntry(c) \/ AddArc(c) PROVE HeapInv'
  BY <1>2, AllocateStep DEF AddEntry, AddArc
<1>3. ASSUME NEW c \in Contexts, SetHistogram(c) PROVE HeapInv'
  BY <1>3, GrowHeap, Sizes DEF SetHistogram
<1>4. ASSUME NEW n \in Requests, Grow(n) PROVE HeapInv'
  <2>1. n \in Nat /\ UNCHANGED slab /\ heapEnd' = HeapEnd(n)
        /\ given' = IF Fits(n) THEN Append(given, [at |-> Broken(n), size |-> n]) ELSE given
    BY <1>4, Sizes DEF Grow
  <2>2. CASE Fits(n)
    BY <2>1, <2>2, GrowHeap
  <2>3. CASE ~Fits(n)
    <3>1. heapEnd' \in Nat /\ heapEnd <= heapEnd' /\ heapEnd' <= HeapLimit
      BY <2>1, BrkIs
    <3> QED
      BY <2>1, <2>3, <3>1, AlignHeap
  <2> QED
    BY <2>2, <2>3
<1>5. ASSUME NEW c \in Contexts,
             \/ \E f \in Functions, g \in Callers : Call(c, f, g)
             \/ Mcount(c) \/ TestInit(c) \/ ClearInit(c) \/ NoClock(c) \/ StartSampling(c)
             \/ Mask(c) \/ Unmask(c)
      PROVE  HeapInv'
  BY <1>1, <1>5 DEF Call, Mcount, FindFunction, FindArc, LoadCount, StoreCount, TestInit,
    ClearInit, NoClock, StartSampling, Mask, Unmask
<1>6. CASE UNCHANGED vars \/ Enter \/ Leave \/ StartClock
  BY <1>1, <1>6 DEF vars, Enter, Leave, StartClock
<1> QED
  BY <1>2, <1>3, <1>4, <1>5, <1>6 DEF Next, McountRecord

\* As long as the heap refuses nothing, the records cut from slabs, the
\* histogram and the program's own blocks lie apart on words below the limit,
\* for every size of the heap, of a slab and of a request.
THEOREM HeapHoldsApart == Spec => []BlocksApart
<1>1. HeapInv => BlocksApart
  BY DEF HeapInv, BlocksApart, BlocksInv, Apart, OnWord
<1> QED
  BY <1>1, InitHeap, HeapStep, PTL DEF Spec

-----------------------------------------------------------------------------
(* The counts.  A sum over a set takes away one element after another; it   *)
(* does not depend on which.                                                *)
OneOf(s) == CHOOSE x \in s : TRUE

IterOf(a, S) ==
  CHOOSE u : u = [s \in SUBSET S |->
                    IF s = {} THEN 0 ELSE a[OneOf(s)].count + u[s \ {OneOf(s)}]]

SumOf(a, S) == IterOf(a, S)[S]

LEMMA TotalIs == \A f, g : TotalCount(f, g) = SumOf(arcs, Copies(f, g))
BY DEF TotalCount, MapThenSumSet, MapThenFoldSet, SumOf, IterOf, OneOf

Summable(a, S) == IsFiniteSet(S) /\ \A j \in S : a[j].count \in Int

Size(S) == [s \in SUBSET S |-> Cardinality(s)]

LEMMA Sizing ==
    ASSUME NEW S, IsFiniteSet(S)
    PROVE  /\ Size(S) \in [SUBSET S -> 0 .. Cardinality(S)] /\ Size(S) \in [SUBSET S -> Nat]
           /\ Cardinality(S) \in Nat
           /\ \A s \in SUBSET S : \A x \in s :
                s \ {x} \in SUBSET S /\ Size(S)[s \ {x}] < Size(S)[s]
<1>1. \A s \in SUBSET S : IsFiniteSet(s) /\ Cardinality(s) \in Nat /\ Cardinality(s) <= Cardinality(S)
  BY FS_Subset, FS_CardinalityType
<1>2. Cardinality(S) \in Nat
  BY FS_CardinalityType
<1>3. \A s \in SUBSET S : \A x \in s : Cardinality(s \ {x}) = Cardinality(s) - 1
  BY <1>1, FS_RemoveElement
<1>4. \A s \in SUBSET S : \A x \in s : s \ {x} \in SUBSET S /\ Size(S)[s \ {x}] < Size(S)[s]
  <2> SUFFICES ASSUME NEW s \in SUBSET S, NEW x \in s
               PROVE  s \ {x} \in SUBSET S /\ Size(S)[s \ {x}] < Size(S)[s]
    OBVIOUS
  <2>1. s \ {x} \in SUBSET S /\ Cardinality(s) \in Nat /\ Cardinality(s \ {x}) = Cardinality(s) - 1
    BY <1>1, <1>3
  <2>2. Size(S)[s \ {x}] = Cardinality(s \ {x}) /\ Size(S)[s] = Cardinality(s)
    BY <2>1 DEF Size
  <2> QED
    BY <2>1, <2>2
<1>5. Size(S) \in [SUBSET S -> 0 .. Cardinality(S)] /\ Size(S) \in [SUBSET S -> Nat]
  BY <1>1, <1>2 DEF Size
<1> QED
  BY <1>2, <1>4, <1>5

LEMMA IterIs ==
    ASSUME NEW a, NEW S, Summable(a, S)
    PROVE  \A s \in SUBSET S :
             /\ IterOf(a, S)[s] \in Int
             /\ s = {} => IterOf(a, S)[s] = 0
             /\ s # {} => /\ OneOf(s) \in s
                          /\ IterOf(a, S)[s] = a[OneOf(s)].count + IterOf(a, S)[s \ {OneOf(s)}]
<1> DEFINE X == SUBSET S
           E(u, s) == IF s = {} THEN 0 ELSE a[OneOf(s)].count + u[s \ {OneOf(s)}]
           F == [X -> Int]
           G == [u \in F |-> [s \in X |-> E(u, s)]]
           I == IterOf(a, S)
<1>1. \A s \in X : s # {} => OneOf(s) \in s /\ OneOf(s) \in S /\ s \ {OneOf(s)} \in X
  BY DEF OneOf
<1>2. /\ Size(S) \in [X -> 0 .. Cardinality(S)] /\ Size(S) \in [X -> Nat] /\ Cardinality(S) \in Nat
      /\ \A s \in X : s # {} => Size(S)[s \ {OneOf(s)}] < Size(S)[s]
  BY <1>1, Sizing DEF Summable
<1>3. \A j \in S : a[j].count \in Int
  BY DEF Summable
<1>4. ASSUME NEW u \in F, NEW s \in X PROVE E(u, s) \in Int
  BY <1>1, <1>3
<1>5. ASSUME NEW u \in F, NEW v \in F, NEW s \in X,
             \A t \in X : Size(S)[t] < Size(S)[s] => u[t] = v[t]
      PROVE  E(u, s) = E(v, s)
  BY <1>1, <1>2, <1>5
<1>6. PICK u : u = [s \in X |-> E(u, s)]
  <2> HIDE DEF E
  <2>1. G \in [F -> F]
    BY <1>4
  <2>2. \A u, v \in F : \A s \in X :
          (\A t \in X : Size(S)[t] < Size(S)[s] => u[t] = v[t]) => G[u][s] = G[v][s]
    BY <1>5
  <2>3. Graded(G, X, Int, Size(S), Cardinality(S))
    <3> HIDE DEF G, X
    <3> QED
      BY <1>2, <2>1, <2>2 DEF Graded
  <2>4. PICK u \in F : G[u] = u
    <3> HIDE DEF G, X
    <3> QED
      BY <2>3, Fixpoint
  <2>5. G[u] = [s \in X |-> E(u, s)]
    OBVIOUS
  <2> QED
    BY <2>4, <2>5
<1>7. I = [s \in X |-> E(I, s)]
  BY <1>6 DEF IterOf
<1>8. \A s \in X : I[s] = E(I, s)
  <2> DEFINE H(s) == E(I, s)
  <2>1. I = [s \in X |-> H(s)]
    BY <1>7
  <2> HIDE DEF H, I
  <2>2. \A s \in X : I[s] = H(s)
    BY <2>1
  <2> QED
    BY <2>2 DEF H
<1> HIDE DEF I
<1>9. \A s \in X : I[s] \in Int
  <2> DEFINE Bad == {s \in X : I[s] \notin Int}
  <2> SUFFICES ASSUME Bad # {} PROVE FALSE
    OBVIOUS
  <2>1. PICK s \in Bad : \A t \in X : Size(S)[t] < Size(S)[s] => t \notin Bad
    <3>1. Bad \in SUBSET X
      OBVIOUS
    <3> HIDE DEF Bad, X
    <3> QED
      BY <1>2, <3>1, LeastRank
  <2>2. s # {} => I[s \ {OneOf(s)}] \in Int
    BY <1>1, <1>2, <2>1
  <2>3. I[s] \in Int
    <3>1. s \in X /\ I[s] = E(I, s)
      BY <1>8
    <3>2. CASE s = {}
      BY <3>1, <3>2
    <3>3. CASE s # {}
      <4>1. I[s] = a[OneOf(s)].count + I[s \ {OneOf(s)}]
        BY <3>1, <3>3
      <4>2. a[OneOf(s)].count \in Int
        BY <1>1, <1>3, <3>1, <3>3
      <4> QED
        BY <2>2, <3>3, <4>1, <4>2
    <3> QED
      BY <3>2, <3>3
  <2> QED
    BY <2>3
<1>10. ASSUME NEW s \in X
       PROVE  /\ I[s] \in Int
              /\ s = {} => I[s] = 0
              /\ s # {} => OneOf(s) \in s /\ I[s] = a[OneOf(s)].count + I[s \ {OneOf(s)}]
  BY <1>1, <1>8, <1>9
<1> QED
  BY <1>10 DEF I

\* The sum over a subset does not depend on what it is a subset of.
LEMMA IterAgrees ==
    ASSUME NEW a, NEW S, Summable(a, S), NEW T \in SUBSET S
    PROVE  IterOf(a, T)[T] = IterOf(a, S)[T]
<1>1. Summable(a, T)
  BY FS_Subset DEF Summable
<1> DEFINE X == SUBSET T
           Bad == {s \in X : IterOf(a, T)[s] # IterOf(a, S)[s]}
<1>2. Bad = {}
  <2> SUFFICES ASSUME Bad # {} PROVE FALSE
    OBVIOUS
  <2>1. PICK s \in Bad : \A t \in X : Size(T)[t] < Size(T)[s] => t \notin Bad
    <3>1. Bad \in SUBSET X /\ Size(T) \in [X -> Nat]
      BY <1>1, Sizing DEF Summable
    <3> HIDE DEF Bad, X
    <3> QED
      BY <3>1, LeastRank
  <2>2. s \in SUBSET T /\ s \in SUBSET S /\ IterOf(a, T)[s] # IterOf(a, S)[s]
    OBVIOUS
  <2>3. s # {}
    BY <1>1, <2>2, IterIs
  <2> DEFINE r == s \ {OneOf(s)}
  <2>4. OneOf(s) \in s
    BY <1>1, <2>2, <2>3, IterIs
  <2>5. r \in X /\ Size(T)[r] < Size(T)[s]
    BY <1>1, <2>2, <2>4, Sizing DEF Summable
  <2>6. IterOf(a, T)[r] = IterOf(a, S)[r]
    BY <2>1, <2>5
  <2>7. /\ IterOf(a, T)[s] = a[OneOf(s)].count + IterOf(a, T)[r]
        /\ IterOf(a, S)[s] = a[OneOf(s)].count + IterOf(a, S)[r]
    BY <1>1, <2>2, <2>3, IterIs
  <2> QED
    BY <2>2, <2>6, <2>7
<1> QED
  BY <1>2

LEMMA SumIs ==
    ASSUME NEW a, NEW S, Summable(a, S)
    PROVE  /\ SumOf(a, S) \in Int
           /\ S = {} => SumOf(a, S) = 0
           /\ S # {} => /\ OneOf(S) \in S
                        /\ SumOf(a, S) = a[OneOf(S)].count + SumOf(a, S \ {OneOf(S)})
<1>1. S \in SUBSET S /\ S \ {OneOf(S)} \in SUBSET S
  OBVIOUS
<1>2. IterOf(a, S \ {OneOf(S)})[S \ {OneOf(S)}] = IterOf(a, S)[S \ {OneOf(S)}]
  BY <1>1, IterAgrees
<1> QED
  BY <1>1, <1>2, IterIs DEF SumOf

\* Any element may be the one taken away.
LEMMA SumTake ==
    ASSUME NEW a, NEW S, Summable(a, S), NEW y \in S
    PROVE  SumOf(a, S) = a[y].count + SumOf(a, S \ {y})
<1> DEFINE X == SUBSET S
           Bad == {s \in X : \E x \in s : SumOf(a, s) # a[x].count + SumOf(a, s \ {x})}
<1>1. \A s \in X : Summable(a, s)
  BY FS_Subset DEF Summable
<1>2. Bad = {}
  <2> SUFFICES ASSUME Bad # {} PROVE FALSE
    OBVIOUS
  <2>1. PICK s \in Bad : \A t \in X : Size(S)[t] < Size(S)[s] => t \notin Bad
    <3>1. Bad \in SUBSET X /\ Size(S) \in [X -> Nat]
      BY Sizing DEF Summable
    <3> HIDE DEF Bad, X
    <3> QED
      BY <3>1, LeastRank
  <2>2. PICK x \in s : SumOf(a, s) # a[x].count + SumOf(a, s \ {x})
    OBVIOUS
  <2>3. PICK z \in s : z = OneOf(s) /\ SumOf(a, s) = a[z].count + SumOf(a, s \ {z})
    BY <1>1, SumIs
  <2>4. x # z
    BY <2>2, <2>3
  <2>5. /\ s \ {x} \in X /\ s \ {z} \in X /\ (s \ {x}) \ {z} \in X
        /\ Size(S)[s \ {x}] < Size(S)[s] /\ Size(S)[s \ {z}] < Size(S)[s]
    BY Sizing DEF Summable
  <2>6. s \ {x} \notin Bad /\ s \ {z} \notin Bad
    BY <2>1, <2>5
  <2>7. /\ SumOf(a, s \ {x}) = a[z].count + SumOf(a, (s \ {x}) \ {z})
        /\ SumOf(a, s \ {z}) = a[x].count + SumOf(a, (s \ {z}) \ {x})
    BY <2>4, <2>5, <2>6
  <2>8. (s \ {x}) \ {z} = (s \ {z}) \ {x}
    OBVIOUS
  <2>9. a[x].count \in Int /\ a[z].count \in Int /\ SumOf(a, (s \ {x}) \ {z}) \in Int
    BY <1>1, <2>5, SumIs DEF Summable
  <2> QED
    BY <2>2, <2>3, <2>7, <2>8, <2>9
<1>3. S \in X
  OBVIOUS
<1> QED
  BY <1>2, <1>3

\* The sum depends on the counts only.
LEMMA SumSame ==
    ASSUME NEW a, NEW b, NEW S, Summable(a, S), \A j \in S : b[j].count = a[j].count
    PROVE  SumOf(b, S) = SumOf(a, S)
<1> DEFINE X == SUBSET S
           Bad == {s \in X : SumOf(b, s) # SumOf(a, s)}
<1>1. \A s \in X : Summable(a, s) /\ Summable(b, s)
  BY FS_Subset DEF Summable
<1>2. Bad = {}
  <2> SUFFICES ASSUME Bad # {} PROVE FALSE
    OBVIOUS
  <2>1. PICK s \in Bad : \A t \in X : Size(S)[t] < Size(S)[s] => t \notin Bad
    <3>1. Bad \in SUBSET X /\ Size(S) \in [X -> Nat]
      BY Sizing DEF Summable
    <3> HIDE DEF Bad, X
    <3> QED
      BY <3>1, LeastRank
  <2>2. s # {}
    BY <1>1, SumIs
  <2>3. /\ OneOf(s) \in s
        /\ SumOf(a, s) = a[OneOf(s)].count + SumOf(a, s \ {OneOf(s)})
        /\ SumOf(b, s) = b[OneOf(s)].count + SumOf(b, s \ {OneOf(s)})
    BY <1>1, <2>2, SumIs
  <2>4. s \ {OneOf(s)} \in X /\ Size(S)[s \ {OneOf(s)}] < Size(S)[s]
    BY <2>3, Sizing DEF Summable
  <2>5. SumOf(b, s \ {OneOf(s)}) = SumOf(a, s \ {OneOf(s)})
    BY <2>1, <2>4
  <2> QED
    BY <2>3, <2>5
<1>3. S \in X
  OBVIOUS
<1> QED
  BY <1>2, <1>3

\* One more element, and one element changed.
LEMMA SumAdd ==
    ASSUME NEW a, NEW S, NEW y, y \notin S, Summable(a, S), a[y].count \in Int
    PROVE  SumOf(a, S \cup {y}) = a[y].count + SumOf(a, S) /\ SumOf(a, S) \in Int
<1>1. IsFiniteSet(S \cup {y})
  BY FS_AddElement DEF Summable
<1>2. Summable(a, S \cup {y}) /\ (S \cup {y}) \ {y} = S
  BY <1>1 DEF Summable
<1>3. SumOf(a, S \cup {y}) = a[y].count + SumOf(a, (S \cup {y}) \ {y})
  <2>1. y \in S \cup {y}
    OBVIOUS
  <2> QED
    BY <1>2, <2>1, SumTake
<1>4. SumOf(a, S) \in Int
  BY SumIs
<1> QED
  BY <1>2, <1>3, <1>4

LEMMA SumChange ==
    ASSUME NEW a, NEW b, NEW S, NEW y \in S, Summable(a, S), b[y].count \in Int,
           \A j \in S \ {y} : b[j].count = a[j].count
    PROVE  /\ SumOf(b, S) = SumOf(a, S) - a[y].count + b[y].count
           /\ SumOf(a, S) \in Int /\ a[y].count \in Int
<1>1. S \ {y} \in SUBSET S /\ IsFiniteSet(S \ {y})
  BY FS_Subset DEF Summable
<1>2. Summable(b, S) /\ Summable(a, S \ {y}) /\ a[y].count \in Int
  BY <1>1 DEF Summable
<1>3. SumOf(b, S \ {y}) = SumOf(a, S \ {y}) /\ SumOf(a, S \ {y}) \in Int /\ SumOf(a, S) \in Int
  <2>1. SumOf(b, S \ {y}) = SumOf(a, S \ {y})
    BY <1>2, SumSame
  <2>2. SumOf(a, S \ {y}) \in Int
    BY <1>2, SumIs
  <2>3. SumOf(a, S) \in Int
    BY SumIs
  <2> QED
    BY <2>1, <2>2, <2>3
<1>4. SumOf(b, S) = b[y].count + SumOf(b, S \ {y}) /\ SumOf(a, S) = a[y].count + SumOf(a, S \ {y})
  BY <1>2, SumTake
<1> QED
  BY <1>2, <1>3, <1>4

-----------------------------------------------------------------------------
\* The books of an arc: its counts and what handlers counted in vain against
\* the calls finished, those about to be, and what the program's stale count
\* is going to lose.
Pairs == Functions \X Callers

Open(c, f, g) == IF pc[c] = "unmask" /\ self[c] = f /\ from[c] = g THEN 1 ELSE 0

Missing(f, g) ==
  IF pc["main"] = "store" /\ self["main"] = f /\ from["main"] = g
  THEN arcs[arc["main"]].count - count["main"] ELSE 0

Balance(f, g) ==
  SumOf(arcs, Copies(f, g)) + spoilt[<<f, g>>]
    = calls[<<f, g>>] + Open("main", f, g) + Open("isr", f, g) + Missing(f, g)

BooksInv ==
  /\ calls \in [Pairs -> Nat] /\ spoilt \in [Pairs -> Nat]
  /\ \A f \in Functions, g \in Callers : Balance(f, g)

\* What a context has found belongs to the call it is in, and a handler stores
\* what it has loaded plus one.
PairInv ==
  /\ \A c \in Contexts : entry[c] # 0 => functions[entry[c]] = self[c]
  /\ \A c \in Contexts : pc[c] \in {"load", "store"} => arc[c] \in Copies(self[c], from[c])
  /\ pc["isr"] = "store" => count["isr"] = arcs[arc["isr"]].count

LEMMA InFlightIs == \A f, g : InFlight(f, g) = Open("main", f, g) + Open("isr", f, g)
<1> SUFFICES ASSUME NEW f, NEW g PROVE InFlight(f, g) = Open("main", f, g) + Open("isr", f, g)
  OBVIOUS
<1> DEFINE P == [c \in Contexts |-> pc[c] = "unmask" /\ self[c] = f /\ from[c] = g]
<1>1. P \in [Contexts -> BOOLEAN]
  OBVIOUS
<1>2. InFlight(f, g) = Cardinality({c \in Contexts : P[c]})
  <2>1. {c \in Contexts : P[c]} = {c \in Contexts : pc[c] = "unmask" /\ self[c] = f /\ from[c] = g}
    OBVIOUS
  <2> QED
    BY <2>1 DEF InFlight
<1>3. /\ P["main"] = (pc["main"] = "unmask" /\ self["main"] = f /\ from["main"] = g)
      /\ P["isr"] = (pc["isr"] = "unmask" /\ self["isr"] = f /\ from["isr"] = g)
  BY TwoContexts
<1> HIDE DEF P
<1>4. Cardinality({c \in Contexts : P[c]}) = (IF P["main"] THEN 1 ELSE 0) + (IF P["isr"] THEN 1 ELSE 0)
  BY <1>1, CountContexts
<1> QED
  BY <1>2, <1>3, <1>4 DEF Open

\* The counts of the records there are can be summed.
LEMMA CopiesSummable ==
    ASSUME TypeOK
    PROVE  /\ \A j \in DOMAIN arcs : arcs[j].count \in Int
           /\ \A f, g : Copies(f, g) \subseteq DOMAIN arcs /\ Summable(arcs, Copies(f, g))
                        /\ SumOf(arcs, Copies(f, g)) \in Int
<1> DEFINE R == [entry : Nat, from : Callers, count : Int]
<1>1. arcs \in Seq(R) /\ Len(arcs) \in Nat /\ DOMAIN arcs = 1 .. Len(arcs)
  BY DEF TypeOK
<1>2. ASSUME NEW j \in DOMAIN arcs PROVE arcs[j].count \in Int
  <2>1. arcs[j] \in R
    <3> HIDE DEF R
    <3> QED
      BY <1>1, ElementOfSeq
  <2> QED
    BY <2>1
<1>3. ASSUME NEW f, NEW g
      PROVE  Copies(f, g) \subseteq DOMAIN arcs /\ Summable(arcs, Copies(f, g))
             /\ SumOf(arcs, Copies(f, g)) \in Int
  <2>1. Copies(f, g) \in SUBSET (1 .. Len(arcs))
    BY <1>1 DEF Copies
  <2>2. IsFiniteSet(Copies(f, g))
    BY <1>1, <2>1, FiniteSub
  <2>3. Summable(arcs, Copies(f, g))
    BY <1>1, <1>2, <2>1, <2>2 DEF Summable
  <2> QED
    BY <1>1, <2>1, <2>3, SumIs
<1> QED
  BY <1>2, <1>3

\* A pair is what its arcs say: an arc is a copy of one pair only.
LEMMA OnePair ==
    ASSUME NEW f, NEW g, NEW h, NEW k, NEW j \in Copies(f, g), j \in Copies(h, k)
    PROVE  f = h /\ g = k
BY DEF Copies

\* More entries and other counts make no difference to which arcs are copies.
LEMMA CopiesKept ==
    ASSUME SearchInv, \A i \in DOMAIN functions : functions'[i] = functions[i],
           DOMAIN arcs' = DOMAIN arcs,
           \A j \in DOMAIN arcs : arcs'[j].entry = arcs[j].entry /\ arcs'[j].from = arcs[j].from
    PROVE  \A f, g : Copies(f, g)' = Copies(f, g)
<1> SUFFICES ASSUME NEW f, NEW g PROVE Copies(f, g)' = Copies(f, g)
  OBVIOUS
<1>1. \A j \in DOMAIN arcs : functions'[arcs[j].entry] = functions[arcs[j].entry]
  BY DEF SearchInv
<1>2. Copies(f, g)' = {j \in DOMAIN arcs : arcs[j].from = g /\ functions'[arcs[j].entry] = f}
  BY DEF Copies
<1> QED
  BY <1>1, <1>2 DEF Copies

\* A context is neither storing nor about to finish, or it has not moved.
Still(c) ==
  /\ pc'[c] = pc[c] /\ self'[c] = self[c] /\ from'[c] = from[c]
  /\ entry'[c] = entry[c] /\ arc'[c] = arc[c] /\ count'[c] = count[c]

Elsewhere == Steps \ {"load", "store", "unmask"}

Passes(c) == pc[c] \in Elsewhere \cup {"load"} /\ pc'[c] \in Elsewhere \cup {"load"}

LEMMA BooksFrame ==
    ASSUME TypeOK, SearchInv, BooksInv, UNCHANGED <<arcs, calls, spoilt>>,
           \A i \in DOMAIN functions : functions'[i] = functions[i],
           \A c \in Contexts : Still(c) \/ Passes(c)
    PROVE  BooksInv'
<1>1. \A f, g : Copies(f, g)' = Copies(f, g)
  BY CopiesKept
<1>2. ASSUME NEW c \in Contexts, NEW f \in Functions, NEW g \in Callers
      PROVE  Open(c, f, g)' = Open(c, f, g)
  BY DEF Still, Passes, Elsewhere, Open
<1>3. ASSUME NEW f \in Functions, NEW g \in Callers PROVE Missing(f, g)' = Missing(f, g)
  <2>1. Still("main") \/ Passes("main")
    BY TwoContexts
  <2> QED
    BY <2>1 DEF Still, Passes, Elsewhere, Missing
<1>4. ASSUME NEW f \in Functions, NEW g \in Callers PROVE Balance(f, g)'
  <2>1. Balance(f, g)
    BY DEF BooksInv
  <2>2. /\ Copies(f, g)' = Copies(f, g) /\ Missing(f, g)' = Missing(f, g)
        /\ Open("main", f, g)' = Open("main", f, g) /\ Open("isr", f, g)' = Open("isr", f, g)
    BY <1>1, <1>2, <1>3, TwoContexts
  <2> QED
    BY <2>1, <2>2 DEF Balance
<1> QED
  BY <1>4 DEF BooksInv

-----------------------------------------------------------------------------
\* Every step but the load, the store, the new arc and the end of a call only
\* passes: the books, and what the other context has found, stay as they are.
Passing(c) ==
  /\ \A d \in Contexts \ {c} : Still(d)
  /\ UNCHANGED <<arcs, calls, spoilt>>
  /\ \A i \in DOMAIN functions : functions'[i] = functions[i]
  /\ Passes(c)
  /\ entry'[c] # 0 => functions'[entry'[c]] = self'[c]
  /\ pc'[c] = "load" => arc'[c] \in Copies(self'[c], from'[c])

LEMMA FoundIs ==
    ASSUME TypeOK, SearchInv, NEW c \in Contexts, entry[c] # 0
    PROVE  entry[c] \in DOMAIN functions
<1>1. entry[c] \in Nat /\ Len(functions) \in Nat /\ DOMAIN functions = 1 .. Len(functions)
  BY DEF TypeOK
<1>2. entry[c] <= Len(functions)
  BY DEF SearchInv
<1> QED
  BY <1>1, <1>2

LEMMA PairFrame ==
    ASSUME TypeOK, SearchInv, PairInv, NEW c \in Contexts, Passing(c)
    PROVE  PairInv'
<1> DEFINE After(f, g) == {j \in DOMAIN arcs' : arcs'[j].from = g /\ functions'[arcs'[j].entry] = f}
<1>1. \A f, g : After(f, g) = Copies(f, g)
  <2>1. \A f, g : Copies(f, g)' = Copies(f, g)
    BY CopiesKept DEF Passing
  <2>2. \A f, g : Copies(f, g)' = After(f, g)
    BY DEF Copies
  <2> QED
    BY <2>1, <2>2
<1> HIDE DEF After
<1>2. ASSUME NEW d \in Contexts, entry'[d] # 0 PROVE functions'[entry'[d]] = self'[d]
  <2>1. CASE d = c
    BY <1>2, <2>1 DEF Passing
  <2>2. CASE d # c
    <3>1. entry'[d] = entry[d] /\ self'[d] = self[d]
      BY <2>2 DEF Passing, Still
    <3>2. entry[d] \in DOMAIN functions /\ functions[entry[d]] = self[d]
      BY <1>2, <3>1, FoundIs DEF PairInv
    <3> QED
      BY <3>1, <3>2 DEF Passing
  <2> QED
    BY <2>1, <2>2
<1>3. ASSUME NEW d \in Contexts, pc'[d] \in {"load", "store"}
      PROVE  arc'[d] \in After(self'[d], from'[d])
  <2>1. CASE d = c
    BY <1>1, <1>3, <2>1 DEF Passing, Passes, Elsewhere
  <2>2. CASE d # c
    <3>1. Still(d)
      BY <2>2 DEF Passing
    <3>2. arc[d] \in Copies(self[d], from[d])
      BY <1>3, <3>1 DEF Still, PairInv
    <3> QED
      BY <1>1, <3>1, <3>2 DEF Still
  <2> QED
    BY <2>1, <2>2
<1>4. ASSUME pc'["isr"] = "store" PROVE count'["isr"] = arcs'[arc'["isr"]].count
  <2>1. Still("isr")
    BY <1>4, TwoContexts DEF Passing, Passes, Elsewhere
  <2> QED
    BY <1>4, <2>1 DEF Still, Passing, PairInv
<1>5. \A d \in Contexts : pc'[d] \in {"load", "store"} => arc'[d] \in {j \in DOMAIN arcs' :
        arcs'[j].from = from'[d] /\ functions'[arcs'[j].entry] = self'[d]}
  BY <1>3 DEF After
<1> QED
  BY <1>2, <1>4, <1>5 DEF PairInv, Copies

LEMMA PassingStep ==
    ASSUME TypeOK, SearchInv, PairInv, NEW c \in Contexts,
           \/ \E f \in Functions, g \in Callers : Call(c, f, g)
           \/ FindFunction(c) \/ FindArc(c)
           \/ TestInit(c) \/ ClearInit(c) \/ NoClock(c) \/ SetHistogram(c) \/ StartSampling(c)
           \/ Mask(c) \/ AddEntry(c)
    PROVE  Passing(c)
<1>1. ASSUME NEW f \in Functions, NEW g \in Callers, Call(c, f, g) PROVE Passing(c)
  <2>1. /\ UNCHANGED <<functions, arcs, entry, arc, count, calls, spoilt>>
        /\ pc' = [pc EXCEPT ![c] = "function"] /\ pc[c] = "idle"
        /\ self' = [self EXCEPT ![c] = f] /\ from' = [from EXCEPT ![c] = g]
    BY <1>1 DEF Call, Goto, At
  <2>2. /\ pc'[c] = "function" /\ entry[c] = 0
        /\ \A d \in Contexts \ {c} : pc'[d] = pc[d] /\ self'[d] = self[d] /\ from'[d] = from[d]
    BY <2>1 DEF TypeOK, SearchInv
  <2> QED
    BY <2>1, <2>2 DEF Passing, Still, Passes, Elsewhere, Steps
<1>2. CASE FindFunction(c)
  <2>1. UNCHANGED <<functions, arcs, self, from, arc, count, calls, spoilt>>
    BY <1>2 DEF FindFunction
  <2>2. /\ \A d \in Contexts \ {c} : entry'[d] = entry[d] /\ pc'[d] = pc[d]
        /\ pc[c] = "function" /\ pc'[c] \in {"test", "arcs"}
        /\ entry'[c] # 0 => entry'[c] \in Entries(self[c])
    BY <1>2, FindFunctionIs
  <2>3. entry'[c] # 0 => functions[entry'[c]] = self[c]
    BY <2>2 DEF Entries
  <2> QED
    BY <2>1, <2>2, <2>3 DEF Passing, Still, Passes, Elsewhere, Steps
<1>3. CASE FindArc(c)
  <2>1. UNCHANGED <<functions, arcs, self, from, entry, count, calls, spoilt>>
    BY <1>3 DEF FindArc
  <2>2. /\ \A d \in Contexts \ {c} : arc'[d] = arc[d] /\ pc'[d] = pc[d]
        /\ pc[c] = "arcs" /\ pc'[c] = IF arc'[c] = 0 THEN "test" ELSE "load"
        /\ arc'[c] # 0 => arc'[c] \in CopiesAt(entry[c], from[c])
    BY <1>3, FindArcIs
  <2>3. entry[c] # 0 /\ functions[entry[c]] = self[c]
    BY <2>2 DEF SearchInv, PairInv
  <2>4. pc'[c] = "load" => arc'[c] \in Copies(self[c], from[c])
    BY <2>2, <2>3 DEF Copies, CopiesAt
  <2> QED
    BY <2>1, <2>2, <2>3, <2>4 DEF Passing, Still, Passes, Elsewhere, Steps
<1>4. CASE TestInit(c) \/ ClearInit(c) \/ NoClock(c) \/ SetHistogram(c) \/ StartSampling(c) \/ Mask(c)
  <2>1. /\ UNCHANGED <<functions, arcs, self, from, entry, arc, count, calls, spoilt>>
        /\ pc[c] \in Late
        /\ \E s \in Late \cup {"entry", "arc"} : pc' = [pc EXCEPT ![c] = s]
    BY <1>4 DEF TestInit, ClearInit, NoClock, SetHistogram, StartSampling, Mask, Goto, At, Late
  <2>2. /\ pc'[c] \in Late \cup {"entry", "arc"}
        /\ \A d \in Contexts \ {c} : pc'[d] = pc[d]
    BY <2>1 DEF TypeOK
  <2>3. entry[c] # 0 => functions[entry[c]] = self[c]
    BY DEF PairInv
  <2> QED
    BY <2>1, <2>2, <2>3 DEF Passing, Still, Passes, Elsewhere, Steps, Late
<1>5. CASE AddEntry(c)
  <2>1. /\ UNCHANGED <<arcs, self, from, arc, count, calls, spoilt>>
        /\ pc' = [pc EXCEPT ![c] = "arc"] /\ pc[c] = "entry"
        /\ entry' = [entry EXCEPT ![c] = Len(functions) + 1]
    BY <1>5 DEF AddEntry, Goto, At
  <2>2. /\ pc'[c] = "arc" /\ entry'[c] = Len(functions) + 1
        /\ \A d \in Contexts \ {c} : pc'[d] = pc[d] /\ entry'[d] = entry[d]
    BY <2>1 DEF TypeOK
  <2>3. /\ functions'[Len(functions) + 1] = self[c]
        /\ \A i \in DOMAIN functions : functions'[i] = functions[i]
    BY <1>5, AddEntryIs
  <2> QED
    BY <2>1, <2>2, <2>3 DEF Passing, Still, Passes, Elsewhere, Steps
<1> QED
  BY <1>1, <1>2, <1>3, <1>4, <1>5

LEMMA PassingBooks ==
    ASSUME TypeOK, SearchInv, BooksInv, PairInv, NEW c \in Contexts, Passing(c)
    PROVE  BooksInv' /\ PairInv'
<1>1. \A d \in Contexts : Still(d) \/ Passes(d)
  BY DEF Passing
<1>2. BooksInv'
  BY <1>1, BooksFrame DEF Passing
<1> QED
  BY <1>2, PairFrame

-----------------------------------------------------------------------------
\* The four steps that move the books.
LEMMA PairKept ==
    ASSUME PairInv, UNCHANGED <<functions, self, from>>,
           \A d \in Contexts : entry'[d] \in {0, entry[d]},
           \A d \in Contexts :
             pc'[d] \in {"load", "store"} => pc[d] \in {"load", "store"} /\ arc'[d] = arc[d],
           DOMAIN arcs \subseteq DOMAIN arcs',
           \A j \in DOMAIN arcs : arcs'[j].entry = arcs[j].entry /\ arcs'[j].from = arcs[j].from,
           pc'["isr"] = "store" => count'["isr"] = arcs'[arc'["isr"]].count
    PROVE  PairInv'
<1>1. \A d \in Contexts : entry'[d] # 0 => functions'[entry'[d]] = self'[d]
  BY DEF PairInv
<1>2. ASSUME NEW d \in Contexts, pc'[d] \in {"load", "store"}
      PROVE  arc'[d] \in {j \in DOMAIN arcs' :
               arcs'[j].from = from'[d] /\ functions'[arcs'[j].entry] = self'[d]}
  <2>1. arc'[d] = arc[d] /\ arc[d] \in Copies(self[d], from[d])
    BY <1>2 DEF PairInv
  <2> QED
    BY <2>1 DEF Copies
<1> QED
  BY <1>1, <1>2 DEF PairInv, Copies

LEMMA LoadBooks ==
    ASSUME TypeOK, SearchInv, BooksInv, PairInv, NEW c \in Contexts, LoadCount(c)
    PROVE  BooksInv' /\ PairInv'
<1>1. /\ UNCHANGED <<functions, arcs, self, from, entry, arc, calls, spoilt>>
      /\ count' = [count EXCEPT ![c] = arcs[arc[c]].count]
      /\ pc' = [pc EXCEPT ![c] = "store"] /\ pc[c] = "load"
  BY DEF LoadCount, Goto, At
<1>2. /\ pc'[c] = "store" /\ count'[c] = arcs[arc[c]].count
      /\ \A d \in Contexts \ {c} : pc'[d] = pc[d] /\ count'[d] = count[d]
  BY <1>1 DEF TypeOK
<1>3. PairInv'
  <2>1. pc'["isr"] = "store" => count'["isr"] = arcs'[arc'["isr"]].count
    BY <1>1, <1>2, TwoContexts DEF PairInv
  <2>2. \A d \in Contexts : pc'[d] \in {"load", "store"} => pc[d] \in {"load", "store"}
    BY <1>1, <1>2
  <2> QED
    BY <1>1, <2>1, <2>2, PairKept
<1>4. arcs[arc[c]].count \in Int
  <2>1. arc[c] \in DOMAIN arcs
    BY <1>1 DEF TypeOK
  <2> QED
    BY <2>1, CopiesSummable
<1>5. ASSUME NEW f \in Functions, NEW g \in Callers PROVE Balance(f, g)'
  <2>1. Open("main", f, g)' = Open("main", f, g) /\ Open("isr", f, g)' = Open("isr", f, g)
    BY <1>1, <1>2, TwoContexts DEF Open
  <2>2. Missing(f, g)' = Missing(f, g)
    <3>1. CASE c = "main"
      <4>1. Missing(f, g) = 0
        BY <1>1, <3>1 DEF Missing
      <4>2. Missing(f, g)' = 0
        BY <1>1, <1>2, <1>4, <3>1 DEF Missing
      <4> QED
        BY <4>1, <4>2
    <3>2. CASE c = "isr"
      BY <1>1, <1>2, <3>2, TwoContexts DEF Missing
    <3> QED
      BY <3>1, <3>2, TwoContexts
  <2>3. Copies(f, g)' = Copies(f, g)
    BY <1>1 DEF Copies
  <2>4. Balance(f, g)
    BY DEF BooksInv
  <2> QED
    BY <1>1, <2>1, <2>2, <2>3, <2>4 DEF Balance
<1>6. BooksInv'
  BY <1>1, <1>5 DEF BooksInv
<1> QED
  BY <1>3, <1>6

\* A call is counted for the pair it is of.
LEMMA CallsMove ==
    ASSUME BooksInv, TypeOK, NEW c \in Contexts,
           calls' = [calls EXCEPT ![<<self[c], from[c]>>] = @ + 1]
    PROVE  /\ calls' \in [Pairs -> Nat]
           /\ calls'[<<self[c], from[c]>>] = calls[<<self[c], from[c]>>] + 1
           /\ \A f \in Functions, g \in Callers :
                ~(f = self[c] /\ g = from[c]) => calls'[<<f, g>>] = calls[<<f, g>>]
           /\ \A f \in Functions, g \in Callers : calls[<<f, g>>] \in Nat /\ spoilt[<<f, g>>] \in Nat
<1>1. <<self[c], from[c]>> \in Pairs
  BY DEF TypeOK, Pairs
<1>2. \A f \in Functions, g \in Callers : <<f, g>> \in Pairs
  BY DEF Pairs
<1>3. calls \in [Pairs -> Nat] /\ spoilt \in [Pairs -> Nat]
  BY DEF BooksInv
<1>4. calls[<<self[c], from[c]>>] + 1 \in Nat
  BY <1>1, <1>3
<1> DEFINE p == <<self[c], from[c]>>
<1>5. \A f \in Functions, g \in Callers : ~(f = self[c] /\ g = from[c]) => <<f, g>> # p
  OBVIOUS
<1> HIDE DEF p
<1>6. calls' = [calls EXCEPT ![p] = @ + 1] /\ p \in Pairs /\ calls[p] + 1 \in Nat
  BY <1>1, <1>4 DEF p
<1>7. calls' \in [Pairs -> Nat] /\ calls'[p] = calls[p] + 1 /\ \A q \in Pairs \ {p} : calls'[q] = calls[q]
  BY <1>3, <1>6
<1>8. \A f \in Functions, g \in Callers :
        ~(f = self[c] /\ g = from[c]) => calls'[<<f, g>>] = calls[<<f, g>>]
  BY <1>2, <1>5, <1>7
<1>9. \A f \in Functions, g \in Callers : calls[<<f, g>>] \in Nat /\ spoilt[<<f, g>>] \in Nat
  BY <1>2, <1>3
<1> QED
  BY <1>7, <1>8, <1>9 DEF p

LEMMA MissingIs == ASSUME TypeOK, NEW f, NEW g PROVE Missing(f, g) \in Int
<1>1. CASE pc["main"] = "store"
  <2>1. arc["main"] \in DOMAIN arcs /\ count["main"] \in Int
    BY <1>1, TwoContexts DEF TypeOK
  <2>2. arcs[arc["main"]].count \in Int
    BY <2>1, CopiesSummable
  <2> QED
    BY <2>1, <2>2 DEF Missing
<1>2. CASE pc["main"] # "store"
  BY <1>2 DEF Missing
<1> QED
  BY <1>1, <1>2

LEMMA UnmaskBooks ==
    ASSUME TypeOK, SearchInv, BooksInv, PairInv, NEW c \in Contexts, Unmask(c)
    PROVE  BooksInv' /\ PairInv'
<1>1. /\ UNCHANGED <<functions, arcs, self, from, spoilt>>
      /\ entry' = [entry EXCEPT ![c] = 0] /\ arc' = [arc EXCEPT ![c] = 0]
      /\ count' = [count EXCEPT ![c] = 0]
      /\ calls' = [calls EXCEPT ![<<self[c], from[c]>>] = @ + 1]
      /\ pc' = [pc EXCEPT ![c] = "idle"] /\ pc[c] = "unmask"
  BY DEF Unmask, Returned, Goto, At
<1>2. /\ pc'[c] = "idle" /\ entry'[c] = 0
      /\ \A d \in Contexts \ {c} :
           pc'[d] = pc[d] /\ entry'[d] = entry[d] /\ arc'[d] = arc[d] /\ count'[d] = count[d]
  BY <1>1 DEF TypeOK
<1>3. PairInv'
  <2>1. pc'["isr"] = "store" => count'["isr"] = arcs'[arc'["isr"]].count
    BY <1>1, <1>2, TwoContexts DEF PairInv
  <2>2. \A d \in Contexts : pc'[d] \in {"load", "store"} => pc[d] \in {"load", "store"} /\ arc'[d] = arc[d]
    BY <1>2
  <2>3. \A d \in Contexts : entry'[d] \in {0, entry[d]}
    BY <1>2
  <2> QED
    BY <1>1, <2>1, <2>2, <2>3, PairKept
<1>4. /\ calls' \in [Pairs -> Nat]
      /\ calls'[<<self[c], from[c]>>] = calls[<<self[c], from[c]>>] + 1
      /\ \A f \in Functions, g \in Callers :
           ~(f = self[c] /\ g = from[c]) => calls'[<<f, g>>] = calls[<<f, g>>]
      /\ \A f \in Functions, g \in Callers : calls[<<f, g>>] \in Nat /\ spoilt[<<f, g>>] \in Nat
  BY <1>1, CallsMove
<1>5. ASSUME NEW f \in Functions, NEW g \in Callers PROVE Balance(f, g)'
  <2>1. Missing(f, g)' = Missing(f, g)
    BY <1>1, <1>2, TwoContexts DEF Missing
  <2>2. Copies(f, g)' = Copies(f, g)
    BY <1>1 DEF Copies
  <2>3. Balance(f, g) /\ SumOf(arcs, Copies(f, g)) \in Int
    BY CopiesSummable DEF BooksInv
  <2>4. /\ Open(c, f, g)' = 0
        /\ Open(c, f, g) = IF f = self[c] /\ g = from[c] THEN 1 ELSE 0
        /\ \A d \in Contexts \ {c} : Open(d, f, g)' = Open(d, f, g)
        /\ \A d \in Contexts : Open(d, f, g) \in {0, 1}
    BY <1>1, <1>2 DEF Open
  <2>5. /\ calls[<<f, g>>] \in Nat /\ spoilt[<<f, g>>] \in Nat
        /\ calls'[<<f, g>>] = calls[<<f, g>>] + Open(c, f, g)
    BY <1>4, <2>4
  <2>6. Open("main", f, g) + Open("isr", f, g)
          = Open("main", f, g)' + Open("isr", f, g)' + Open(c, f, g)
    BY <2>4, TwoContexts
  <2>7. /\ Open("main", f, g) \in Int /\ Open("isr", f, g) \in Int /\ Open(c, f, g) \in Int
        /\ Open("main", f, g)' \in Int /\ Open("isr", f, g)' \in Int
    BY <2>4, TwoContexts
  <2>8. Missing(f, g) \in Int
    BY MissingIs
  <2>9. SumOf(arcs, Copies(f, g))' = SumOf(arcs, Copies(f, g)) /\ spoilt' = spoilt
    BY <1>1, <2>2
  <2> QED
    BY <2>1, <2>3, <2>5, <2>6, <2>7, <2>8, <2>9 DEF Balance
<1>6. BooksInv'
  BY <1>1, <1>4, <1>5 DEF BooksInv
<1> QED
  BY <1>3, <1>6

LEMMA AddArcBooks ==
    ASSUME TypeOK, TypeOK', SearchInv, BooksInv, PairInv, NEW c \in Contexts, AddArc(c)
    PROVE  BooksInv' /\ PairInv'
<1> DEFINE y == Len(arcs) + 1
<1>1. /\ UNCHANGED <<functions, self, from, entry, arc, count, calls, spoilt>>
      /\ pc' = [pc EXCEPT ![c] = "unmask"] /\ pc[c] = "arc"
  BY DEF AddArc, Goto, At
<1>2. pc'[c] = "unmask" /\ \A d \in Contexts \ {c} : pc'[d] = pc[d]
  BY <1>1 DEF TypeOK
<1>3. /\ DOMAIN arcs' = DOMAIN arcs \cup {y} /\ y \notin DOMAIN arcs
      /\ arcs'[y].entry = entry[c] /\ arcs'[y].from = from[c] /\ arcs'[y].count = 1
      /\ \A j \in DOMAIN arcs : arcs'[j] = arcs[j]
  BY AddArcIs
<1> HIDE DEF y
<1>4. functions[entry[c]] = self[c]
  BY <1>1 DEF SearchInv, PairInv
<1>5. \A d \in Contexts : pc'[d] \in {"load", "store"} => d # c /\ pc[d] \in {"load", "store"}
  BY <1>2
<1>6. \A d \in Contexts : pc'[d] \in {"load", "store"} => arcs'[arc[d]] = arcs[arc[d]]
  BY <1>3, <1>5 DEF TypeOK
<1>7. PairInv'
  <2>1. pc'["isr"] = "store" => count'["isr"] = arcs'[arc'["isr"]].count
    BY <1>1, <1>2, <1>5, <1>6, TwoContexts DEF PairInv
  <2> QED
    BY <1>1, <1>3, <1>5, <2>1, PairKept
<1>8. ASSUME NEW f \in Functions, NEW g \in Callers PROVE Balance(f, g)'
  <2>1. Missing(f, g)' = Missing(f, g)
    <3>1. pc'["main"] = "store" <=> pc["main"] = "store"
      BY <1>1, <1>2, TwoContexts
    <3>2. pc'["main"] = "store" => arcs'[arc["main"]] = arcs[arc["main"]]
      BY <1>6, TwoContexts
    <3> QED
      BY <1>1, <3>1, <3>2 DEF Missing
  <2>2. /\ Balance(f, g) /\ Summable(arcs, Copies(f, g)) /\ SumOf(arcs, Copies(f, g)) \in Int
        /\ Copies(f, g) \subseteq DOMAIN arcs
    BY CopiesSummable DEF BooksInv
  <2>3. /\ Open(c, f, g) = 0
        /\ Open(c, f, g)' = IF f = self[c] /\ g = from[c] THEN 1 ELSE 0
        /\ \A d \in Contexts \ {c} : Open(d, f, g)' = Open(d, f, g)
        /\ \A d \in Contexts : Open(d, f, g) \in {0, 1}
    BY <1>1, <1>2 DEF Open
  <2>4. Copies(f, g)' = IF f = self[c] /\ g = from[c] THEN Copies(f, g) \cup {y} ELSE Copies(f, g)
    <3>1. Copies(f, g)' = {j \in DOMAIN arcs \cup {y} : arcs'[j].from = g /\ functions[arcs'[j].entry] = f}
      BY <1>1, <1>3 DEF Copies
    <3> QED
      BY <1>3, <1>4, <3>1 DEF Copies
  <2>5. SumOf(arcs', Copies(f, g)) = SumOf(arcs, Copies(f, g))
    <3>1. \A j \in Copies(f, g) : arcs'[j].count = arcs[j].count
      BY <1>3, <2>2
    <3> QED
      BY <2>2, <3>1, SumSame
  <2>6. SumOf(arcs', Copies(f, g)') = SumOf(arcs, Copies(f, g)) + Open(c, f, g)'
    <3>1. CASE f = self[c] /\ g = from[c]
      <4>1. y \notin Copies(f, g) /\ arcs'[y].count = 1
        BY <1>3, <2>2
      <4>2. Summable(arcs', Copies(f, g))
        <5>1. \A j \in Copies(f, g) : arcs'[j] = arcs[j]
          BY <1>3, <2>2
        <5> QED
          BY <2>2, <5>1 DEF Summable
      <4>3. SumOf(arcs', Copies(f, g) \cup {y}) = 1 + SumOf(arcs', Copies(f, g))
        BY <4>1, <4>2, SumAdd
      <4> QED
        BY <2>2, <2>3, <2>4, <2>5, <3>1, <4>3
    <3>2. CASE ~(f = self[c] /\ g = from[c])
      <4>1. Copies(f, g)' = Copies(f, g) /\ Open(c, f, g)' = 0
        BY <2>3, <2>4, <3>2
      <4> QED
        BY <2>2, <2>5, <4>1
    <3> QED
      BY <3>1, <3>2
  <2>7. Open("main", f, g)' + Open("isr", f, g)'
          = Open("main", f, g) + Open("isr", f, g) + Open(c, f, g)'
    BY <2>3, TwoContexts
  <2>8. /\ Open("main", f, g) \in Int /\ Open("isr", f, g) \in Int /\ Open(c, f, g)' \in Int
        /\ Missing(f, g) \in Int
    BY <2>3, MissingIs, TwoContexts
  <2>9. calls[<<f, g>>] \in Nat /\ spoilt[<<f, g>>] \in Nat
    <3>1. <<f, g>> \in Pairs
      BY DEF Pairs
    <3> QED
      BY <3>1 DEF BooksInv
  <2>10. /\ SumOf(arcs, Copies(f, g))' = SumOf(arcs, Copies(f, g)) + Open(c, f, g)'
         /\ spoilt' = spoilt /\ calls' = calls
    BY <1>1, <2>6
  <2> DEFINE S == SumOf(arcs, Copies(f, g))
             o == Open("main", f, g) + Open("isr", f, g)
             w == Open("main", f, g)' + Open("isr", f, g)'
             e == Open(c, f, g)'
  <2>11. S + spoilt[<<f, g>>] = calls[<<f, g>>] + o + Missing(f, g)
    BY <2>2, <2>8, <2>9 DEF Balance
  <2>12. S \in Int /\ o \in Int /\ w = o + e /\ e \in Int
    BY <2>2, <2>7, <2>8
  <2>13. (S + e) + spoilt[<<f, g>>] = calls[<<f, g>>] + w + Missing(f, g)
    <3> HIDE DEF S, o, w, e
    <3> QED
      BY <2>8, <2>9, <2>11, <2>12
  <2>14. Open("main", f, g)' \in Int /\ Open("isr", f, g)' \in Int
    BY <2>3, <2>8, TwoContexts
  <2> QED
    BY <2>1, <2>8, <2>9, <2>10, <2>13, <2>14 DEF Balance
<1>9. BooksInv'
  BY <1>1, <1>8 DEF BooksInv
<1> QED
  BY <1>7, <1>9

\* The store: the stale count of the program loses what a handler has added,
\* a handler adds one, which the program is about to lose if it has loaded.
LEMMA StoreBooks ==
    ASSUME TypeOK, ModeInv, SearchInv, BooksInv, PairInv, NEW c \in Contexts, StoreCount(c)
    PROVE  BooksInv' /\ PairInv'
<1> DEFINE k == arc[c]
<1>1. /\ UNCHANGED <<functions, self, from>>
      /\ entry' = [entry EXCEPT ![c] = 0] /\ arc' = [arc EXCEPT ![c] = 0]
      /\ count' = [count EXCEPT ![c] = 0]
      /\ calls' = [calls EXCEPT ![<<self[c], from[c]>>] = @ + 1]
      /\ spoilt' = IF InVain(c) THEN [spoilt EXCEPT ![<<self[c], from[c]>>] = @ + 1] ELSE spoilt
      /\ pc' = [pc EXCEPT ![c] = "idle"] /\ pc[c] = "store" /\ Runs(c)
  BY DEF StoreCount, Returned, Goto, At
<1>2. /\ pc'[c] = "idle" /\ entry'[c] = 0
      /\ \A d \in Contexts \ {c} :
           pc'[d] = pc[d] /\ entry'[d] = entry[d] /\ arc'[d] = arc[d] /\ count'[d] = count[d]
  BY <1>1 DEF TypeOK
<1>3. /\ DOMAIN arcs' = DOMAIN arcs /\ k \in DOMAIN arcs /\ arcs'[k].count = count[c] + 1
      /\ \A j \in DOMAIN arcs : arcs'[j].entry = arcs[j].entry /\ arcs'[j].from = arcs[j].from
      /\ \A j \in DOMAIN arcs \ {k} : arcs'[j] = arcs[j]
  BY StoreIs
<1>4. /\ c = "main" => pc["isr"] = "idle"
      /\ count[c] \in Int /\ arcs[k].count \in Int
      /\ c = "isr" => count[c] = arcs[k].count
      /\ k \in Copies(self[c], from[c])
  <2>1. c = "main" => pc["isr"] = "idle"
    BY <1>1, OneRuns
  <2>2. count[c] \in Int /\ arcs[k].count \in Int
    BY <1>3, CopiesSummable DEF TypeOK
  <2>3. c = "isr" => count[c] = arcs[k].count
    BY <1>1 DEF PairInv
  <2>4. k \in Copies(self[c], from[c])
    BY <1>1 DEF PairInv
  <2> QED
    BY <2>1, <2>2, <2>3, <2>4
<1> HIDE DEF k
<1>5. PairInv'
  <2>1. pc'["isr"] # "store"
    BY <1>2, <1>4, TwoContexts
  <2>2. \A d \in Contexts : pc'[d] \in {"load", "store"} => pc[d] \in {"load", "store"} /\ arc'[d] = arc[d]
    BY <1>2
  <2>3. \A d \in Contexts : entry'[d] \in {0, entry[d]}
    BY <1>2
  <2> QED
    BY <1>1, <1>3, <2>1, <2>2, <2>3, PairKept
<1>6. /\ calls' \in [Pairs -> Nat]
      /\ calls'[<<self[c], from[c]>>] = calls[<<self[c], from[c]>>] + 1
      /\ \A f \in Functions, g \in Callers :
           ~(f = self[c] /\ g = from[c]) => calls'[<<f, g>>] = calls[<<f, g>>]
      /\ \A f \in Functions, g \in Callers : calls[<<f, g>>] \in Nat /\ spoilt[<<f, g>>] \in Nat
  BY <1>1, CallsMove
<1>7. /\ spoilt' \in [Pairs -> Nat]
      /\ spoilt'[<<self[c], from[c]>>] = spoilt[<<self[c], from[c]>>] + (IF InVain(c) THEN 1 ELSE 0)
      /\ \A f \in Functions, g \in Callers :
           ~(f = self[c] /\ g = from[c]) => spoilt'[<<f, g>>] = spoilt[<<f, g>>]
  <2> DEFINE p == <<self[c], from[c]>>
  <2>1. p \in Pairs /\ spoilt \in [Pairs -> Nat]
    BY DEF TypeOK, Pairs, BooksInv
  <2>2. \A f \in Functions, g \in Callers :
          <<f, g>> \in Pairs /\ (~(f = self[c] /\ g = from[c]) => <<f, g>> # p)
    BY DEF Pairs
  <2>3. spoilt' = IF InVain(c) THEN [spoilt EXCEPT ![p] = @ + 1] ELSE spoilt
    BY <1>1
  <2> HIDE DEF p
  <2>4. /\ spoilt' \in [Pairs -> Nat]
        /\ spoilt'[p] = spoilt[p] + (IF InVain(c) THEN 1 ELSE 0)
        /\ \A q \in Pairs \ {p} : spoilt'[q] = spoilt[q]
    <3>1. spoilt[p] \in Nat
      BY <2>1
    <3>2. CASE InVain(c)
      BY <2>1, <2>3, <3>1, <3>2
    <3>3. CASE ~InVain(c)
      BY <2>1, <2>3, <3>1, <3>3
    <3> QED
      BY <3>2, <3>3
  <2>5. \A f \in Functions, g \in Callers :
          ~(f = self[c] /\ g = from[c]) => spoilt'[<<f, g>>] = spoilt[<<f, g>>]
    BY <2>2, <2>4
  <2> QED
    BY <2>4, <2>5 DEF p
<1>8. ASSUME NEW f \in Functions, NEW g \in Callers PROVE Balance(f, g)'
  <2> DEFINE S == SumOf(arcs, Copies(f, g))
             Z == SumOf(arcs', Copies(f, g)')
  <2>1. /\ Balance(f, g) /\ Summable(arcs, Copies(f, g)) /\ S \in Int
        /\ Copies(f, g) \subseteq DOMAIN arcs
    BY CopiesSummable DEF BooksInv
  <2>2. Copies(f, g)' = Copies(f, g)
    BY <1>1, <1>3, CopiesKept
  <2>3. /\ Open("main", f, g)' = Open("main", f, g) /\ Open("isr", f, g)' = Open("isr", f, g)
        /\ Open("main", f, g) \in Int /\ Open("isr", f, g) \in Int
    BY <1>1, <1>2, TwoContexts DEF Open
  <2>4. calls[<<f, g>>] \in Nat /\ spoilt[<<f, g>>] \in Nat /\ Missing(f, g) \in Int
    BY <1>6, MissingIs
  <2>5. CASE ~(f = self[c] /\ g = from[c])
    <3>1. k \notin Copies(f, g)
      BY <1>4, <2>5, OnePair
    <3>2. Z = S
      <4>1. \A j \in Copies(f, g) : arcs'[j].count = arcs[j].count
        BY <1>3, <2>1, <3>1
      <4> QED
        BY <2>1, <2>2, <4>1, SumSame
    <3>3. Missing(f, g)' = Missing(f, g)
      <4>1. CASE c = "main"
        BY <1>1, <1>2, <2>5, <4>1 DEF Missing
      <4>2. CASE c = "isr"
        <5>1. pc["main"] = "store" /\ self["main"] = f /\ from["main"] = g =>
                arcs'[arc["main"]] = arcs[arc["main"]]
          <6> SUFFICES ASSUME pc["main"] = "store", self["main"] = f, from["main"] = g
                       PROVE  arcs'[arc["main"]] = arcs[arc["main"]]
            OBVIOUS
          <6>1. arc["main"] \in Copies(f, g)
            BY TwoContexts DEF PairInv
          <6> QED
            BY <1>3, <2>1, <3>1, <6>1
        <5> QED
          BY <1>1, <1>2, <4>2, <5>1, TwoContexts DEF Missing
      <4> QED
        BY <4>1, <4>2, TwoContexts
    <3>4. calls'[<<f, g>>] = calls[<<f, g>>] /\ spoilt'[<<f, g>>] = spoilt[<<f, g>>]
      BY <1>6, <1>7, <2>5
    <3>5. SumOf(arcs, Copies(f, g))' = S
      BY <3>2
    <3> QED
      BY <2>1, <2>3, <3>3, <3>4, <3>5 DEF Balance
  <2>6. CASE f = self[c] /\ g = from[c]
    <3>1. Z = S - arcs[k].count + (count[c] + 1)
      <4>1. k \in Copies(f, g) /\ arcs'[k].count = count[c] + 1 /\ arcs'[k].count \in Int
        BY <1>3, <1>4, <2>6
      <4>2. \A j \in Copies(f, g) \ {k} : arcs'[j].count = arcs[j].count
        BY <1>3, <2>1
      <4>3. SumOf(arcs', Copies(f, g)) = SumOf(arcs, Copies(f, g)) - arcs[k].count + arcs'[k].count
        <5> DEFINE T == Copies(f, g)  b == arcs'
        <5>1. k \in T /\ Summable(arcs, T) /\ b[k].count \in Int /\ \A j \in T \ {k} : b[j].count = arcs[j].count
          BY <2>1, <4>1, <4>2
        <5> HIDE DEF T, b
        <5>2. SumOf(b, T) = SumOf(arcs, T) - arcs[k].count + b[k].count
          BY <5>1, SumChange
        <5> QED
          BY <5>2 DEF T, b
      <4> QED
        BY <2>2, <4>1, <4>3
    <3>2. calls'[<<f, g>>] = calls[<<f, g>>] + 1
      BY <1>6, <2>6
    <3>3. spoilt'[<<f, g>>] = spoilt[<<f, g>>] + (IF InVain(c) THEN 1 ELSE 0)
      BY <1>7, <2>6
    <3>4. SumOf(arcs, Copies(f, g))' = Z
      OBVIOUS
    <3>5. CASE c = "main"
      <4>1. Missing(f, g) = arcs[k].count - count[c] /\ Missing(f, g)' = 0
        BY <1>1, <1>2, <2>6, <3>5 DEF Missing, k
      <4>2. ~InVain(c)
        BY <3>5 DEF InVain
      <4>3. spoilt'[<<f, g>>] = spoilt[<<f, g>>]
        BY <2>4, <3>3, <4>2
      <4> HIDE DEF S, Z
      <4>4. S + spoilt[<<f, g>>] = calls[<<f, g>>] + Open("main", f, g) + Open("isr", f, g) + Missing(f, g)
        BY <2>1 DEF Balance, S
      <4>5. Z + spoilt'[<<f, g>>]
              = calls'[<<f, g>>] + Open("main", f, g)' + Open("isr", f, g)' + Missing(f, g)'
        BY <1>4, <2>1, <2>3, <2>4, <3>1, <3>2, <4>1, <4>3, <4>4
      <4> QED
        BY <3>4, <4>5 DEF Balance
    <3>6. CASE c = "isr"
      <4>1. Z = S + 1
        BY <1>4, <2>1, <3>1, <3>6
      <4>2. Missing(f, g)' = Missing(f, g) + (IF InVain(c) THEN 1 ELSE 0)
        <5>1. InVain(c) <=> pc["main"] = "store" /\ arc["main"] = k
          BY <3>6 DEF InVain, k
        <5>2. CASE InVain(c)
          <6>1. arc["main"] \in Copies(self["main"], from["main"])
            BY <5>1, <5>2, TwoContexts DEF PairInv
          <6>2. self["main"] = f /\ from["main"] = g
            BY <1>4, <2>6, <5>1, <5>2, <6>1, OnePair
          <6>3. Missing(f, g) = arcs[k].count - count["main"]
            BY <5>1, <5>2, <6>2 DEF Missing
          <6>4. Missing(f, g)' = arcs'[k].count - count["main"]
            BY <1>1, <1>2, <3>6, <5>1, <5>2, <6>2, TwoContexts DEF Missing
          <6>5. arcs'[k].count = arcs[k].count + 1 /\ count["main"] \in Int
            BY <1>3, <1>4, <3>6, TwoContexts DEF TypeOK
          <6> QED
            BY <1>4, <5>2, <6>3, <6>4, <6>5
        <5>3. CASE ~InVain(c)
          <6>1. pc["main"] = "store" => arcs'[arc["main"]] = arcs[arc["main"]]
            BY <1>3, <5>1, <5>3, TwoContexts DEF TypeOK
          <6>2. Missing(f, g)' = Missing(f, g)
            BY <1>1, <1>2, <3>6, <6>1, TwoContexts DEF Missing
          <6> QED
            BY <2>4, <5>3, <6>2
        <5> QED
          BY <5>2, <5>3
      <4> DEFINE v == IF InVain(c) THEN 1 ELSE 0
      <4>3. v \in Int /\ Missing(f, g)' = Missing(f, g) + v /\ spoilt'[<<f, g>>] = spoilt[<<f, g>>] + v
        BY <3>3, <4>2
      <4> HIDE DEF S, Z, v
      <4>4. S + spoilt[<<f, g>>] = calls[<<f, g>>] + Open("main", f, g) + Open("isr", f, g) + Missing(f, g)
        BY <2>1 DEF Balance, S
      <4>5. Z + spoilt'[<<f, g>>]
              = calls'[<<f, g>>] + Open("main", f, g)' + Open("isr", f, g)' + Missing(f, g)'
        BY <2>1, <2>3, <2>4, <3>2, <4>1, <4>3, <4>4
      <4> QED
        BY <3>4, <4>5 DEF Balance
    <3> QED
      BY <3>5, <3>6, TwoContexts
  <2> QED
    BY <2>5, <2>6
<1>9. BooksInv'
  BY <1>6, <1>7, <1>8 DEF BooksInv
<1> QED
  BY <1>5, <1>9

-----------------------------------------------------------------------------
LEMMA InitBooks == Init => BooksInv /\ PairInv
<1> SUFFICES ASSUME Init PROVE BooksInv /\ PairInv
  OBVIOUS
<1>1. /\ arcs = <<>> /\ calls = [x \in Pairs |-> 0] /\ spoilt = calls
      /\ \A c \in Contexts : pc[c] = "idle" /\ entry[c] = 0
  BY DEF Init, Zero, Pairs
<1>2. PairInv
  BY <1>1, TwoContexts DEF PairInv
<1>3. ASSUME NEW f \in Functions, NEW g \in Callers PROVE Balance(f, g)
  <2>1. Copies(f, g) = {}
    BY <1>1 DEF Copies
  <2>2. SumOf(arcs, Copies(f, g)) = 0
    <3>1. Summable(arcs, {})
      BY FS_EmptySet DEF Summable
    <3> QED
      BY <2>1, <3>1, SumIs
  <2>3. Open("main", f, g) = 0 /\ Open("isr", f, g) = 0 /\ Missing(f, g) = 0
    BY <1>1, TwoContexts DEF Open, Missing
  <2>4. calls[<<f, g>>] = 0 /\ spoilt[<<f, g>>] = 0
    BY <1>1 DEF Pairs
  <2> QED
    BY <2>2, <2>3, <2>4 DEF Balance
<1>4. BooksInv
  BY <1>1, <1>3 DEF BooksInv
<1> QED
  BY <1>2, <1>4

LEMMA BooksStep ==
  TypeOK /\ TypeOK' /\ ModeInv /\ SearchInv /\ BooksInv /\ PairInv /\ [Next]_vars => BooksInv' /\ PairInv'
<1> SUFFICES ASSUME TypeOK, TypeOK', ModeInv, SearchInv, BooksInv, PairInv, [Next]_vars
             PROVE  BooksInv' /\ PairInv'
  OBVIOUS
<1>1. ASSUME NEW c \in Contexts,
             \/ \E f \in Functions, g \in Callers : Call(c, f, g)
             \/ FindFunction(c) \/ FindArc(c)
             \/ TestInit(c) \/ ClearInit(c) \/ NoClock(c) \/ SetHistogram(c) \/ StartSampling(c)
             \/ Mask(c) \/ AddEntry(c)
      PROVE  BooksInv' /\ PairInv'
  <2>1. Passing(c)
    BY <1>1, PassingStep
  <2> QED
    BY <2>1, PassingBooks
<1>2. ASSUME NEW c \in Contexts, LoadCount(c) \/ StoreCount(c) \/ AddArc(c) \/ Unmask(c)
      PROVE  BooksInv' /\ PairInv'
  BY <1>2, LoadBooks, StoreBooks, AddArcBooks, UnmaskBooks
<1>3. CASE UNCHANGED vars \/ Enter \/ Leave \/ StartClock \/ \E k \in Requests : Grow(k)
  <2>1. UNCHANGED <<functions, arcs, pc, self, from, entry, arc, count, calls, spoilt>>
    BY <1>3 DEF vars, Enter, Leave, StartClock, Grow
  <2>2. BooksInv'
    BY <2>1, BooksFrame DEF Still
  <2>3. PairInv'
    <3>1. PairInv /\ \A f, g : Copies(f, g)' = Copies(f, g)
      BY <2>1 DEF Copies
    <3> QED
      BY <2>1 DEF PairInv, Copies
  <2> QED
    BY <2>2, <2>3
<1> QED
  BY <1>1, <1>2, <1>3 DEF Next, Mcount, McountRecord

\* Nothing is lost but what a handler counted in vain: whatever copies of an
\* arc the searches left behind, and wherever a handler came between a load
\* and a store, the counts add up to the calls, for every graph and any number
\* of calls.
THEOREM CountsAreCalls == Spec => []CountsAddUp
<1>1. TypeOK /\ BooksInv => CountsAddUp
  <2> SUFFICES ASSUME TypeOK, BooksInv, pc["main"] # "store", NEW f \in Functions, NEW g \in Callers
               PROVE  TotalCount(f, g) + spoilt[<<f, g>>] = calls[<<f, g>>] + InFlight(f, g)
    BY DEF CountsAddUp
  <2>1. Balance(f, g) /\ Missing(f, g) = 0 /\ <<f, g>> \in Pairs
    BY DEF BooksInv, Missing, Pairs
  <2>2. TotalCount(f, g) = SumOf(arcs, Copies(f, g))
    BY TotalIs
  <2>3. InFlight(f, g) = Open("main", f, g) + Open("isr", f, g)
    BY InFlightIs
  <2>4. calls[<<f, g>>] \in Nat /\ Open("main", f, g) \in Int /\ Open("isr", f, g) \in Int
    BY <2>1 DEF BooksInv, Open
  <2> QED
    BY <2>1, <2>2, <2>3, <2>4 DEF Balance
<1>2. TypeOK /\ TypeOK' /\ ModeInv /\ SearchInv /\ BooksInv /\ PairInv /\ [Next]_vars
        => (BooksInv /\ PairInv)'
  BY BooksStep
<1> QED
  BY <1>1, <1>2, InitBooks, BaseCorrect, PTL DEF Spec
=============================================================================
