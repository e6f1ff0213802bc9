--------------------------- MODULE DflScanProofs ---------------------------
(***************************************************************************)
(* For every ROM and every growth of the stack of parents: the stack keeps *)
(* step with the recursion of the scan (StackFits); the two passes agree,  *)
(* so that nothing is stored outside the table and a finished scan holds   *)
(* every header once, in the order of the recursion (ScanIsPreorder) and   *)
(* with the right parent where a first block branches                      *)
(* (FirstBranchHasParent); and what was allocated is what the table refers *)
(* to, however often one scans (BlocksOwned).                              *)
(***************************************************************************)
EXTENDS DflScan, SequenceTheorems, FiniteSetTheorems, TLAPS

-----------------------------------------------------------------------------
(* Induction and recursion: of a statement that fails for some number there *)
(* is a first failure, and an equation that gives each value of a function  *)
(* from values of smaller rank has a solution.                              *)

\* A set of numbers has a least one: induction, told of the first failure.
LEMMA LeastNat ==
  ASSUME NEW S \in SUBSET Nat, S # {}
  PROVE  \E m \in S : \A k \in S : m <= k
<1> DEFINE F == FiniteSubsetsOf(Nat)
           R == StrictSubsetOrdering(Nat)
           T == {1 .. d : d \in S}
<1>1. \A d \in Nat : 1 .. d \in F
  <2> SUFFICES ASSUME NEW d \in Nat PROVE 1 .. d \in F
    OBVIOUS
  <2>1. 1 .. d \subseteq Nat /\ IsFiniteSet(1 .. d)
    BY FS_Interval
  <2> QED
    BY <2>1 DEF FiniteSubsetsOf
<1>2. T \subseteq F /\ T # {}
  BY <1>1
<1>3. IsWellFoundedOn(R, F)
  BY FS_StrictSubsetOrderingWellFounded
<1> HIDE DEF F, R, T
<1>4. PICK x \in T : \A y \in T : ~(<<y, x>> \in R)
  BY <1>2, <1>3, WFMin
<1>5. PICK m \in S : x = 1 .. m
  BY <1>4 DEF T
<1>6. ASSUME NEW k \in S, k < m PROVE FALSE
  <2>1. 1 .. k \in T /\ 1 .. k \in SUBSET Nat /\ 1 .. m \in SUBSET Nat
    BY <1>6 DEF T
  <2>2. 1 .. k \subseteq 1 .. m /\ m \in 1 .. m /\ m \notin 1 .. k
    BY <1>6
  <2>3. <<1 .. k, 1 .. m>> \in R
    BY <2>1, <2>2 DEF R, StrictSubsetOrdering
  <2> QED
    BY <1>4, <1>5, <2>1, <2>3
<1>7. \A k \in S : m <= k
  BY <1>6
<1> QED
  BY <1>7

\* Where a statement fails of some x, it fails of one of least rank.
LEMMA LeastRank ==
  ASSUME NEW X, NEW rank \in [X -> Nat], NEW S \in SUBSET X, S # {}
  PROVE  \E x \in S : \A y \in X : rank[y] < rank[x] => y \notin S
<1> DEFINE R == {rank[x] : x \in S}
<1>1. R \in SUBSET Nat /\ R # {}
  OBVIOUS
<1>2. PICK n \in R : \A k \in R : n <= k
  BY <1>1, LeastNat
<1>3. PICK x \in S : rank[x] = n
  BY <1>2
<1>4. \A y \in S : ~(rank[y] < rank[x])
  <2> SUFFICES ASSUME NEW y \in S, rank[y] < rank[x] PROVE FALSE
    OBVIOUS
  <2>1. n <= rank[y] /\ n \in Nat /\ rank[y] \in Nat
    BY <1>2
  <2> QED
    BY <1>3, <2>1
<1> QED
  BY <1>4

\* An equation u = G[u] has a solution when a value of G[u] depends only on
\* values of u of smaller rank: applied n times, G has settled the values of
\* rank below n.
Graded(G, X, V, rank, m) ==
  /\ V # {} /\ m \in Nat /\ rank \in [X -> 0 .. m]
  /\ G \in [[X -> V] -> [X -> V]]
  /\ \A u, v \in [X -> V] : \A x \in X :
        (\A y \in X : rank[y] < rank[x] => u[y] = v[y]) => G[u][x] = G[v][x]

LEMMA Fixpoint ==
  \A G, X, V, rank, m : Graded(G, X, V, rank, m) => \E u \in [X -> V] : G[u] = u
<1> SUFFICES ASSUME NEW G, NEW X, NEW V, NEW rank, NEW m, Graded(G, X, V, rank, m)
             PROVE  \E u \in [X -> V] : G[u] = u
  OBVIOUS
<1> USE DEF Graded
<1> DEFINE Settled(u, n) == \A x \in X : rank[x] < n => G[u][x] = u[x]
           S == {n \in Nat : ~\E u \in [X -> V] : Settled(u, n)}
<1>1. S = {}
  <2> SUFFICES ASSUME S # {} PROVE FALSE
    OBVIOUS
  <2>1. PICK n \in S : \A k \in S : n <= k
    BY LeastNat
  <2>2. n \in Nat /\ ~\E u \in [X -> V] : Settled(u, n)
    OBVIOUS
  <2>3. n # 0
    <3> SUFFICES ASSUME n = 0 PROVE FALSE
      OBVIOUS
    <3>1. PICK v \in V : TRUE
      OBVIOUS
    <3>2. [x \in X |-> v] \in [X -> V] /\ \A x \in X : ~(rank[x] < 0)
      OBVIOUS
    <3>3. Settled([x \in X |-> v], n)
      BY <3>2
    <3> QED
      BY <2>2, <3>2, <3>3
  <2> HIDE DEF Settled
  <2>4. n - 1 \in Nat /\ n - 1 \notin S
    <3>1. ~(n <= n - 1)
      BY <2>2
    <3> QED
      BY <2>1, <2>2, <2>3, <3>1
  <2>5. PICK u \in [X -> V] : Settled(u, n - 1)
    BY <2>4
  <2> USE DEF Settled
  <2>6. G[u] \in [X -> V]
    OBVIOUS
  <2>7. Settled(G[u], n)
    <3> SUFFICES ASSUME NEW x \in X, rank[x] < n PROVE G[G[u]][x] = G[u][x]
      OBVIOUS
    <3>1. \A y \in X : rank[y] < rank[x] => G[u][y] = u[y]
      <4> SUFFICES ASSUME NEW y \in X, rank[y] < rank[x] PROVE rank[y] < n - 1
        BY <2>5
      <4>1. rank[x] \in Nat /\ rank[y] \in Nat /\ n \in Nat
        OBVIOUS
      <4> QED
        BY <4>1
    <3> QED
      BY <2>6, <3>1
  <2> HIDE DEF Settled
  <2> QED
    BY <2>2, <2>6, <2>7
<1>2. m + 1 \in Nat
  OBVIOUS
<1>3. PICK u \in [X -> V] : Settled(u, m + 1)
  BY <1>1, <1>2
<1>4. \A x \in X : G[u][x] = u[x]
  <2> SUFFICES ASSUME NEW x \in X PROVE rank[x] < m + 1
    BY <1>3
  <2>1. rank[x] \in 0 .. m
    OBVIOUS
  <2> QED
    BY <2>1
<1>5. G[u] \in [X -> V]
  OBVIOUS
<1>6. G[u] = u
  BY <1>4, <1>5
<1> QED
  BY <1>6

-----------------------------------------------------------------------------
RomType == [next : [Nodes -> 0 .. N], blocks : [Nodes -> Seq(0 .. N)], ending : {"null", "data"}]

\* A caller waits at a block of its own list.
Callers == {f \in Nodes \X Nat : f[2] < Len(Blocks(f[1]))}

WalkType ==
    /\ rom \in RomType
    /\ phase \in {"idle", "enter", "block", "sibling", "end", "overrun", "exit"}
    /\ node \in Nodes
    /\ block \in 0 .. Len(Blocks(node))
    /\ frames \in Seq(Callers)
    /\ index \in Int /\ top \in Nat /\ head \in Seq(Int)

\* One entry for each level under way, in a stack that has been allocated.
Balanced ==
    /\ phase \in {"enter", "block", "sibling"} => top = Len(frames) + 1
    /\ phase \in {"idle", "end"} => top = 0 /\ frames = <<>>
    /\ phase = "overrun" => Len(frames) + 1 >= IncrSize
    /\ Len(head) >= IncrSize \/ (head = <<>> /\ top = 0)

Inv == WalkType /\ Balanced

\* Every ROM the walk starts from has its links inside the ROM.
LEMMA RomsTyped == \A r \in Roms : r \in RomType
<1> SUFFICES ASSUME NEW way \in Ways, NEW length \in [Nodes -> 0 .. MaxBlocks],
                    NEW ending \in {"null", "data"}
             PROVE  Rom(way, length, ending) \in RomType
    BY DEF Roms
<1>1. \A d, k : Behind(way, d, k) \in 0 .. N
    <2> TAKE d, k
    <2>1. CASE \E c \in 2 .. N : way[c] = <<d, k>>
        <3> DEFINE b == CHOOSE c \in 2 .. N : way[c] = <<d, k>>
        <3>1. b \in 2 .. N BY <2>1
        <3>2. Behind(way, d, k) = b BY <2>1 DEF Behind
        <3> HIDE DEF b
        <3> QED BY <3>1, <3>2, RomAssumption
    <2>2. CASE ~\E c \in 2 .. N : way[c] = <<d, k>>
        BY <2>2, RomAssumption DEF Behind
    <2> QED BY <2>1, <2>2
<1>2. \A d \in Nodes : [k \in 1 .. length[d] |-> Behind(way, d, k)] \in Seq(0 .. N)
    <2> TAKE d \in Nodes
    <2>1. length[d] \in Nat BY RomAssumption
    <2>2. [k \in 1 .. length[d] |-> Behind(way, d, k)] \in [1 .. length[d] -> 0 .. N] BY <1>1
    <2>3. Seq(0 .. N) = UNION {[1 .. n -> 0 .. N] : n \in Nat} BY SeqDef, Zenon
    <2> QED BY <2>1, <2>2, <2>3
<1> QED BY <1>1, <1>2 DEF RomType, Rom

\* The stack once it has grown for a push.
LEMMA GrownType ==
    ASSUME WalkType, Balanced
    PROVE  Grown \in Seq(Int) /\ Len(Grown) >= IncrSize /\ (top = Len(head) => Len(Grown) = top + IncrSize)
<1>1. CASE top = Len(head)
    <2> DEFINE more == [i \in 1 .. IncrSize |-> 0]
    <2>1. more \in Seq(Int) /\ Len(more) = IncrSize BY RomAssumption
    <2>2. Grown = head \o more BY <1>1 DEF Grown
    <2> HIDE DEF more
    <2>3. head \o more \in Seq(Int) /\ Len(head \o more) = Len(head) + IncrSize
        BY <2>1, ConcatProperties DEF WalkType
    <2> QED BY <1>1, <2>2, <2>3, RomAssumption DEF WalkType
<1>2. CASE top # Len(head)
    <2>1. Grown = head BY <1>2 DEF Grown
    <2> QED BY <1>2, <2>1 DEF WalkType, Balanced
<1> QED BY <1>1, <1>2

\* The store of a push: it lands inside the stack, or the stack held at least
\* IncrSize entries and was one short.
LEMMA PushFits ==
    ASSUME WalkType, Balanced, NEW data \in Int, Push(data)
    PROVE  /\ top' = top + 1 /\ head' \in Seq(Int) /\ Len(head') >= IncrSize
           /\ phase' \in {"enter", "overrun"}
           /\ phase' = "overrun" => top + 1 >= IncrSize
<1>1. Grown \in Seq(Int) /\ Len(Grown) >= IncrSize /\ (top = Len(head) => Len(Grown) = top + IncrSize)
    BY GrownType
<1>2. CASE top + 1 < Len(Grown)
    <2>1. phase' = "enter" /\ head' = [Grown EXCEPT ![top + 2] = data] /\ top' = top + 1
        BY <1>2 DEF Push
    <2> HIDE DEF Grown
    <2>2. top + 2 \in 1 .. Len(Grown) BY <1>1, <1>2 DEF WalkType
    <2>3. head' \in Seq(Int) /\ Len(head') = Len(Grown)
        BY <1>1, <2>1, <2>2, ExceptSeq
    <2> QED BY <1>1, <2>1, <2>3
<1>3. CASE ~(top + 1 < Len(Grown))
    <2>1. phase' = "overrun" /\ head' = Grown /\ top' = top + 1 BY <1>3 DEF Push
    <2> HIDE DEF Grown
    <2> QED BY <1>1, <1>3, <2>1, RomAssumption DEF WalkType
<1> QED BY <1>2, <1>3

LEMMA InitInv == Init => Inv
<1> SUFFICES ASSUME Init PROVE Inv
    OBVIOUS
<1>1. rom \in RomType BY RomsTyped DEF Init
<1>2. Root \in Nodes BY RomAssumption DEF Root, Nodes
<1>3. Len(Blocks(node)) \in Nat BY <1>1, <1>2 DEF Init, RomType, Blocks
<1>4. WalkType BY <1>1, <1>2, <1>3 DEF Init, WalkType
<1>5. Balanced BY DEF Init, Balanced
<1> QED BY <1>4, <1>5 DEF Inv

\* A push begins a level: the scan's own, or a branch's.
LEMMA ScanStep == Inv /\ (Scan \/ Turn) => Inv'
<1> SUFFICES ASSUME Inv, Scan \/ Turn PROVE Inv'
    OBVIOUS
<1>1. Push(-1) /\ rom' = rom /\ node' = Root /\ block' = 0 BY DEF Scan, Turn
<1>2. index' \in Int BY DEF Scan, Turn, Inv, WalkType
<1>3. frames = <<>> /\ top = 0 BY DEF Scan, Turn, Inv, Balanced
<1>4. frames' = <<>> BY <1>3 DEF Scan, Turn
<1>5. /\ top' = top + 1 /\ head' \in Seq(Int) /\ Len(head') >= IncrSize
      /\ phase' \in {"enter", "overrun"}
      /\ phase' = "overrun" => top + 1 >= IncrSize
    BY <1>1, PushFits DEF Inv
<1>6. Root \in Nodes /\ Len(Blocks(Root)) \in Nat
    BY RomAssumption DEF Root, Nodes, Inv, WalkType, RomType, Blocks
<1>7. WalkType'
    <2>1. frames' \in Seq(Callers') BY <1>4
    <2>2. block' \in 0 .. Len(Blocks(node)') BY <1>1, <1>6 DEF Blocks
    <2> QED BY <1>1, <1>2, <1>3, <1>5, <1>6, <2>1, <2>2 DEF WalkType, Inv
<1>8. Balanced' BY <1>3, <1>4, <1>5 DEF Balanced
<1> QED BY <1>7, <1>8 DEF Inv

LEMMA BranchStep == Inv /\ Branch => Inv'
<1> SUFFICES ASSUME Inv, Branch PROVE Inv'
    OBVIOUS
<1> DEFINE child == Blocks(node)[block + 1]
<1>1. Push(index) /\ frames' = Append(frames, <<node, block>>) /\ node' = child
        /\ block' = 0 /\ rom' = rom /\ index' = index
    BY DEF Branch, scanned
<1>2. Blocks(node) \in Seq(0 .. N) /\ block \in Nat /\ block < Len(Blocks(node)) /\ child # 0
    BY DEF Branch, Inv, WalkType, RomType, Blocks, NullBlock, Plain
<1>3. child \in Nodes BY <1>2, RomAssumption DEF Nodes
<1>4. Len(Blocks(child)) \in Nat BY <1>3 DEF Inv, WalkType, RomType, Blocks
<1>5. <<node, block>> \in Callers BY <1>2 DEF Callers, Inv, WalkType
<1>6. frames' \in Seq(Callers) /\ Len(frames') = Len(frames) + 1
    <2> HIDE DEF Callers
    <2> QED BY <1>1, <1>5 DEF Inv, WalkType
<1>7. /\ top' = top + 1 /\ head' \in Seq(Int) /\ Len(head') >= IncrSize
      /\ phase' \in {"enter", "overrun"}
      /\ phase' = "overrun" => top + 1 >= IncrSize
    BY <1>1, PushFits DEF Inv, WalkType
<1>8. top = Len(frames) + 1 BY DEF Branch, Inv, Balanced
<1>9. WalkType'
    <2>1. Callers' = Callers BY <1>1 DEF Callers, Blocks
    <2>2. block' \in 0 .. Len(Blocks(node)') BY <1>1, <1>4 DEF Blocks
    <2> HIDE DEF Callers, child
    <2> QED BY <1>1, <1>3, <1>6, <1>7, <2>1, <2>2 DEF WalkType, Inv
<1>10. Balanced' BY <1>6, <1>7, <1>8 DEF Balanced
<1> QED BY <1>9, <1>10 DEF Inv

\* EOL takes one entry off for the level that ends.
LEMMA EndOfListStep == Inv /\ EndOfList => Inv'
<1> SUFFICES ASSUME Inv, EndOfList PROVE Inv'
    OBVIOUS
<1>1. /\ top' = top - 1 /\ rom' = rom /\ head' = head /\ index' = index
      /\ top = Len(frames) + 1 /\ frames \in Seq(Callers) /\ Len(frames) \in Nat
    BY DEF EndOfList, scanned, Inv, Balanced, WalkType
<1>2. Callers' = Callers BY <1>1 DEF Callers, Blocks
<1>3. CASE frames = <<>>
    <2>1. phase' = "end" /\ UNCHANGED <<node, block, frames>> BY <1>3 DEF EndOfList
    <2>2. top' = 0 BY <1>1, <1>3
    <2>3. Balanced' BY <1>1, <1>3, <2>1, <2>2 DEF Inv, Balanced
    <2>4. WalkType'
        <3>1. Blocks(node)' = Blocks(node) BY <1>1, <2>1 DEF Blocks
        <3> QED BY <1>1, <1>2, <2>1, <2>2, <3>1 DEF Inv, WalkType
    <2> QED BY <2>3, <2>4 DEF Inv
<1>4. CASE frames # <<>>
    <2> DEFINE caller == frames[Len(frames)]
    <2>1. /\ node' = caller[1] /\ PastBlock(caller[1], caller[2])
          /\ frames' = SubSeq(frames, 1, Len(frames) - 1)
        BY <1>4 DEF EndOfList
    <2>2. Len(frames) \in 1 .. Len(frames) BY <1>1, <1>4
    <2>3. caller \in Callers
        <3> HIDE DEF Callers
        <3> QED BY <1>1, <2>2, ElementOfSeq
    <2>4. caller[1] \in Nodes /\ caller[2] \in Nat /\ caller[2] < Len(Blocks(caller[1]))
        BY <2>3 DEF Callers
    <2>5. Len(Blocks(caller[1])) \in Nat
        BY <2>4 DEF Inv, WalkType, RomType, Blocks
    <2>6. phase' \in {"block", "sibling"} /\ block' \in 0 .. Len(Blocks(caller[1]))
        BY <2>1, <2>4, <2>5 DEF PastBlock
    <2>7. frames' \in Seq(Callers) /\ Len(frames') = Len(frames) - 1
        <3> HIDE DEF Callers
        <3> QED BY <1>1, <2>1, <2>2
    <2> HIDE DEF caller
    <2>8. Balanced' BY <1>1, <2>2, <2>6, <2>7 DEF Inv, Balanced
    <2>9. WalkType'
        <3>1. Blocks(node)' = Blocks(caller[1]) BY <1>1, <2>1 DEF Blocks
        <3>2. top' \in Nat BY <1>1
        <3> QED BY <1>1, <1>2, <2>1, <2>4, <2>6, <2>7, <3>1, <3>2 DEF Inv, WalkType
    <2> QED BY <2>8, <2>9 DEF Inv
<1> QED BY <1>3, <1>4

\* The other steps of the walk stay on their level.
LEMMA LevelStep ==
    Inv /\ (EnterCount \/ EnterCollect \/ PlainBlock \/ NoMoreBlocks \/ NextHeader) => Inv'
<1> SUFFICES ASSUME Inv, EnterCount \/ EnterCollect \/ PlainBlock \/ NoMoreBlocks \/ NextHeader
             PROVE  Inv'
    OBVIOUS
<1>1. UNCHANGED <<rom, frames, head, top>>
    BY DEF EnterCount, EnterCollect, PlainBlock, NoMoreBlocks, NextHeader, walk, stack
<1>2. phase \in {"enter", "block", "sibling"} /\ phase' \in {"enter", "block", "sibling"}
    BY DEF EnterCount, EnterCollect, PlainBlock, NoMoreBlocks, NextHeader, PastBlock
<1>3. Balanced' BY <1>1, <1>2 DEF Inv, Balanced
<1>4. index' \in Int
    BY DEF EnterCount, EnterCollect, PlainBlock, NoMoreBlocks, NextHeader, scanned, Inv, WalkType
<1>5. \A d \in Nodes : Len(Blocks(d)) \in Nat BY DEF Inv, WalkType, RomType, Blocks
<1>6. node' \in Nodes /\ block' \in 0 .. Len(Blocks(node'))
    <2>1. CASE EnterCount \/ EnterCollect \/ NoMoreBlocks
        BY <2>1 DEF EnterCount, EnterCollect, NoMoreBlocks, walk, Inv, WalkType
    <2>2. CASE PlainBlock
        BY <1>5, <2>2 DEF PlainBlock, PastBlock, NullBlock, Inv, WalkType
    <2>3. CASE NextHeader
        <3>1. rom.next[node] \in 0 .. N BY DEF Inv, WalkType, RomType
        <3>2. node' = rom.next[node] /\ node' # 0 /\ block' = 0 BY <2>3 DEF NextHeader, Eol
        <3>3. node' \in Nodes BY <3>1, <3>2, RomAssumption DEF Nodes
        <3> QED BY <1>5, <3>2, <3>3
    <2> QED BY <2>1, <2>2, <2>3
<1>7. WalkType'
    <2>1. Callers' = Callers BY <1>1 DEF Callers, Blocks
    <2>2. Blocks(node)' = Blocks(node') BY <1>1 DEF Blocks
    <2> QED BY <1>1, <1>2, <1>4, <1>6, <2>1, <2>2 DEF Inv, WalkType
<1> QED BY <1>3, <1>7 DEF Inv

\* What happens between scans, and the end of one, leave the stack empty.
LEMMA QuietStep == Inv /\ (Finish \/ OutOfMemory \/ Use \/ UNCHANGED vars) => Inv'
<1> SUFFICES ASSUME Inv, Finish \/ OutOfMemory \/ Use \/ UNCHANGED vars PROVE Inv'
    OBVIOUS
<1>1. UNCHANGED <<rom, node, block, frames, index, top>>
    BY DEF Finish, OutOfMemory, Use, Cleanup, Open, Close, InterruptOpen, InterruptClose, Set,
           walk, scanned, stack, vars
<1>2. \/ phase = "end" /\ phase' = "idle" /\ head' = <<>>
      \/ phase' = "exit" /\ head' = head
      \/ phase' = phase /\ head' = head
    BY DEF Finish, OutOfMemory, Use, Cleanup, Open, Close, InterruptOpen, InterruptClose, Set,
           walk, scanned, stack, vars
<1>3. Balanced' BY <1>1, <1>2 DEF Inv, Balanced
<1>4. WalkType'
    <2>1. Callers' = Callers BY <1>1 DEF Callers, Blocks
    <2>2. Blocks(node)' = Blocks(node) BY <1>1 DEF Blocks
    <2>3. head' \in Seq(Int)
        <3>1. <<>> \in Seq(Int) BY EmptySeq
        <3>2. head' = <<>> \/ head' = head BY <1>2
        <3> QED BY <3>1, <3>2 DEF Inv, WalkType
    <2>4. phase' \in {"idle", "enter", "block", "sibling", "end", "overrun", "exit"}
        BY <1>2 DEF Inv, WalkType
    <2>5. frames' \in Seq(Callers') BY <1>1, <2>1 DEF Inv, WalkType
    <2>6. block' \in 0 .. Len(Blocks(node)') BY <1>1, <2>2 DEF Inv, WalkType
    <2>7. rom' \in RomType /\ node' \in Nodes /\ index' \in Int /\ top' \in Nat
        BY <1>1 DEF Inv, WalkType, RomType, Nodes
    <2> QED BY <2>3, <2>4, <2>5, <2>6, <2>7 DEF WalkType
<1> QED BY <1>3, <1>4 DEF Inv

LEMMA NextInv == Inv /\ [Next]_vars => Inv'
<1> SUFFICES ASSUME Inv, [Next]_vars PROVE Inv'
    OBVIOUS
<1>1. CASE Scan \/ Turn BY <1>1, ScanStep
<1>2. CASE Branch BY <1>2, BranchStep
<1>3. CASE EndOfList BY <1>3, EndOfListStep
<1>4. CASE EnterCount \/ EnterCollect \/ PlainBlock \/ NoMoreBlocks \/ NextHeader
    BY <1>4, LevelStep
<1>5. CASE Finish \/ OutOfMemory \/ Use \/ UNCHANGED vars BY <1>5, QuietStep
<1> QED BY <1>1, <1>2, <1>3, <1>4, <1>5 DEF Next, Step

\* StackFits, for every list: the stack of parents overruns only below
\* IncrSize levels, and every pass empties it.
THEOREM ParentStackFits == Spec => []StackFits
<1>1. Inv => StackFits BY DEF Inv, Balanced, StackFits
<1> QED BY InitInv, NextInv, <1>1, PTL DEF Spec

-----------------------------------------------------------------------------
(* The two passes agree.  Under(r, d) is what hangs on header d: d, the     *)
(* lists its blocks branch to, its next, and so on.  A pass has still to    *)
(* enter what is left of the list at hand (Here) and what its callers have  *)
(* left (Above); these are disjoint, so each header is entered once in      *)
(* either pass, and the table made by counting is full when the second      *)
(* pass ends.                                                               *)

Slots(r, d) == 0 .. Len(r.blocks[d])
Slot(r, d, k) == IF k = 0 THEN r.next[d] ELSE r.blocks[d][k]

\* Every header is reached in at most one way, and from an earlier one.
Tree(r) ==
    \A d \in Nodes : \A k \in Slots(r, d) : Slot(r, d, k) # 0 =>
        /\ Slot(r, d, k) > d
        /\ \A c \in Nodes : \A j \in Slots(r, c) : Slot(r, c, j) = Slot(r, d, k) => c = d /\ j = k

Closed(r, T) == \A d \in T : \A k \in Slots(r, d) : Slot(r, d, k) # 0 => Slot(r, d, k) \in T

Under(r, d) == {e \in Nodes : d # 0 /\ \A T \in SUBSET Nodes : d \in T /\ Closed(r, T) => e \in T}

\* What is left of d past its first b blocks, its next included.
After(r, d, b) == UNION {Under(r, Slot(r, d, k)) : k \in {0} \cup ((b + 1) .. Len(r.blocks[d]))}

LEMMA RomsAreTrees == \A r \in Roms : Tree(r)
<1> SUFFICES ASSUME NEW way \in Ways, NEW length \in [Nodes -> 0 .. MaxBlocks],
                    NEW ending \in {"null", "data"}
             PROVE  Tree(Rom(way, length, ending))
    BY DEF Roms
<1> DEFINE r == Rom(way, length, ending)
<1>1. \A d, k : Behind(way, d, k) # 0 =>
          /\ Behind(way, d, k) \in 2 .. N
          /\ way[Behind(way, d, k)] = <<d, k>>
    <2> SUFFICES ASSUME NEW d, NEW k, Behind(way, d, k) # 0
                 PROVE  Behind(way, d, k) \in 2 .. N /\ way[Behind(way, d, k)] = <<d, k>>
        OBVIOUS
    <2> DEFINE P(c) == c \in 2 .. N /\ way[c] = <<d, k>>
    <2>1. \E c : P(c) BY DEF Behind
    <2>2. Behind(way, d, k) = CHOOSE c \in 2 .. N : way[c] = <<d, k>> BY <2>1 DEF Behind
    <2> QED BY <2>1, <2>2
<1>2. \A d \in Nodes : \A k \in Slots(r, d) : Slot(r, d, k) = Behind(way, d, k)
    <2> SUFFICES ASSUME NEW d \in Nodes, NEW k \in Slots(r, d)
                 PROVE  Slot(r, d, k) = Behind(way, d, k)
        OBVIOUS
    <2>1. r.next = [c \in Nodes |-> Behind(way, c, 0)] BY DEF Rom
    <2>2. r.blocks = [c \in Nodes |-> [j \in 1 .. length[c] |-> Behind(way, c, j)]] BY DEF Rom
    <2> HIDE DEF r
    <2>3. r.blocks[d] = [j \in 1 .. length[d] |-> Behind(way, d, j)] BY <2>2
    <2>4. length[d] \in Nat BY RomAssumption
    <2>5. Len(r.blocks[d]) = length[d] BY <2>3, <2>4
    <2>6. k = 0 \/ k \in 1 .. length[d] BY <2>4, <2>5 DEF Slots
    <2>7. k \in 1 .. length[d] => r.blocks[d][k] = Behind(way, d, k) BY <2>3
    <2>8. k \in 1 .. length[d] => k # 0 BY <2>4
    <2> QED BY <2>1, <2>6, <2>7, <2>8 DEF Slot
<1> HIDE DEF r
<1> SUFFICES ASSUME NEW d \in Nodes, NEW k \in Slots(r, d), Slot(r, d, k) # 0
             PROVE  /\ Slot(r, d, k) > d
                    /\ \A c \in Nodes : \A j \in Slots(r, c) :
                          Slot(r, c, j) = Slot(r, d, k) => c = d /\ j = k
    BY DEF Tree, r
<1> DEFINE e == Slot(r, d, k)
<1>3. e \in 2 .. N /\ way[e] = <<d, k>> BY <1>1, <1>2
<1>4. way[e][1] < e BY <1>3 DEF Ways
<1>5. ASSUME NEW c \in Nodes, NEW j \in Slots(r, c), Slot(r, c, j) = e PROVE c = d /\ j = k
    BY <1>1, <1>2, <1>3, <1>5
<1>6. e > d BY <1>3, <1>4, RomAssumption DEF Nodes
<1> QED BY <1>5, <1>6

\* A slot holds a header or nothing.
LEMMA SlotType ==
    ASSUME NEW r \in RomType, NEW d \in Nodes, NEW k \in Slots(r, d), Slot(r, d, k) # 0
    PROVE  Slot(r, d, k) \in Nodes
<1>1. r.next[d] \in 0 .. N /\ r.blocks[d] \in Seq(0 .. N) BY DEF RomType
<1>2. k # 0 => k \in 1 .. Len(r.blocks[d]) BY <1>1 DEF Slots
<1>3. Slot(r, d, k) \in 0 .. N BY <1>1, <1>2, ElementOfSeq DEF Slot
<1> QED BY <1>3, RomAssumption DEF Nodes

LEMMA UnderClosed ==
    ASSUME NEW r \in RomType, NEW d \in Nodes
    PROVE  /\ d \in Under(r, d) /\ Under(r, d) \subseteq Nodes /\ Closed(r, Under(r, d))
           /\ \A T \in SUBSET Nodes : d \in T /\ Closed(r, T) => Under(r, d) \subseteq T
<1>1. d # 0 BY RomAssumption DEF Nodes
<1>2. d \in Under(r, d) /\ Under(r, d) \subseteq Nodes BY <1>1 DEF Under
<1>3. \A T \in SUBSET Nodes : d \in T /\ Closed(r, T) => Under(r, d) \subseteq T BY DEF Under
<1>4. ASSUME NEW e \in Under(r, d), NEW k \in Slots(r, e), Slot(r, e, k) # 0
      PROVE  Slot(r, e, k) \in Under(r, d)
    <2>1. Slot(r, e, k) \in Nodes BY <1>2, <1>4, SlotType
    <2>2. ASSUME NEW T \in SUBSET Nodes, d \in T, Closed(r, T) PROVE Slot(r, e, k) \in T
        <3>1. e \in T BY <1>3, <1>4, <2>2
        <3> QED BY <1>4, <2>2, <3>1 DEF Closed
    <2> QED BY <1>1, <2>1, <2>2 DEF Under
<1>5. Closed(r, Under(r, d)) BY <1>4 DEF Closed
<1> QED BY <1>2, <1>3, <1>5

\* What hangs on a header comes after it.
LEMMA UnderLater ==
    ASSUME NEW r \in RomType, Tree(r), NEW d \in Nodes, NEW e \in Under(r, d)
    PROVE  e >= d
<1> DEFINE T == {c \in Nodes : c >= d}
<1>1. \A c \in Nodes : c \in Nat BY RomAssumption DEF Nodes
<1>2. d \in T BY <1>1
<1>3. Closed(r, T)
    <2> SUFFICES ASSUME NEW c \in T, NEW k \in Slots(r, c), Slot(r, c, k) # 0
                 PROVE  Slot(r, c, k) \in T
        BY DEF Closed
    <2>1. Slot(r, c, k) \in Nodes BY SlotType
    <2>2. Slot(r, c, k) > c BY DEF Tree
    <2> QED BY <1>1, <2>1, <2>2
<1>4. T \in SUBSET Nodes OBVIOUS
<1> HIDE DEF T
<1>5. e \in T BY <1>2, <1>3, <1>4, UnderClosed
<1> QED BY <1>5 DEF T

LEMMA UnderSlot ==
    ASSUME NEW r \in RomType, Tree(r), NEW d \in Nodes, NEW k \in Slots(r, d)
    PROVE  Under(r, Slot(r, d, k)) \subseteq Under(r, d) /\ d \notin Under(r, Slot(r, d, k))
<1>1. CASE Slot(r, d, k) = 0 BY <1>1 DEF Under
<1>2. CASE Slot(r, d, k) # 0
    <2>1. Slot(r, d, k) \in Nodes BY <1>2, SlotType
    <2>2. Under(r, d) \in SUBSET Nodes /\ Closed(r, Under(r, d)) /\ d \in Under(r, d) BY UnderClosed
    <2>3. Slot(r, d, k) \in Under(r, d) BY <1>2, <2>2 DEF Closed
    <2>4. Under(r, Slot(r, d, k)) \subseteq Under(r, d) BY <2>1, <2>2, <2>3, UnderClosed
    <2>5. Slot(r, d, k) > d BY <1>2 DEF Tree
    <2>6. d \in Nat /\ Slot(r, d, k) \in Nat BY <2>1, RomAssumption DEF Nodes
    <2>7. d \in Under(r, Slot(r, d, k)) => d >= Slot(r, d, k) BY <2>1, UnderLater
    <2> QED BY <2>4, <2>5, <2>6, <2>7
<1> QED BY <1>1, <1>2

\* A header, then what is left past none of its blocks.
LEMMA Unfold ==
    ASSUME NEW r \in RomType, Tree(r), NEW d \in Nodes
    PROVE  Under(r, d) = {d} \cup After(r, d, 0) /\ d \notin After(r, d, 0)
<1>0. r.blocks[d] \in Seq(0 .. N) BY DEF RomType
<1>1. {0} \cup ((0 + 1) .. Len(r.blocks[d])) = Slots(r, d) BY <1>0 DEF Slots
<1>2. After(r, d, 0) = UNION {Under(r, Slot(r, d, k)) : k \in Slots(r, d)} BY <1>1 DEF After
<1>3. After(r, d, 0) \subseteq Under(r, d) /\ d \notin After(r, d, 0) BY <1>2, UnderSlot
<1> DEFINE T == {d} \cup After(r, d, 0)
<1>4. T \in SUBSET Nodes BY <1>3, UnderClosed
<1>5. Closed(r, T)
    <2> SUFFICES ASSUME NEW e \in T, NEW k \in Slots(r, e), Slot(r, e, k) # 0
                 PROVE  Slot(r, e, k) \in After(r, d, 0)
        BY DEF Closed
    <2>1. CASE e = d
        <3>1. Slot(r, d, k) \in Nodes BY <2>1, SlotType
        <3>2. Slot(r, d, k) \in Under(r, Slot(r, d, k)) BY <3>1, UnderClosed
        <3> QED BY <1>2, <2>1, <3>2
    <2>2. CASE e # d
        <3>1. PICK j \in Slots(r, d) : e \in Under(r, Slot(r, d, j)) BY <1>2, <2>2
        <3>2. Slot(r, d, j) # 0 BY <3>1 DEF Under
        <3>3. Slot(r, d, j) \in Nodes BY <3>2, SlotType
        <3>4. Closed(r, Under(r, Slot(r, d, j))) BY <3>3, UnderClosed
        <3>5. Slot(r, e, k) \in Under(r, Slot(r, d, j)) BY <3>1, <3>4 DEF Closed
        <3> QED BY <1>2, <3>5
    <2> QED BY <2>1, <2>2
<1> HIDE DEF T
<1>6. d \in T BY DEF T
<1>7. Under(r, d) \subseteq T BY <1>4, <1>5, <1>6, UnderClosed
<1>8. d \in Under(r, d) BY UnderClosed
<1> QED BY <1>3, <1>7, <1>8 DEF T

\* What hangs on b, other than b, is reached from what hangs on b.
LEMMA ParentWithin ==
    ASSUME NEW r \in RomType, NEW b \in Nodes, NEW e \in Under(r, b), e # b
    PROVE  \E c \in Nodes, k \in Nat :
              c \in Under(r, b) /\ k \in Slots(r, c) /\ Slot(r, c, k) = e
<1> DEFINE U == Under(r, b) \ {e}
<1> SUFFICES ASSUME \A c \in Under(r, b) : \A k \in Slots(r, c) : Slot(r, c, k) # e
             PROVE  FALSE
    <2>1. Under(r, b) \subseteq Nodes BY UnderClosed
    <2>2. \A c \in Nodes : Slots(r, c) \subseteq Nat BY DEF Slots, RomType
    <2> QED BY <2>1, <2>2
<1>1. U \in SUBSET Nodes /\ b \in U BY UnderClosed
<1>2. Closed(r, U)
    <2>1. Closed(r, Under(r, b)) BY UnderClosed
    <2> QED BY <2>1 DEF Closed
<1> HIDE DEF U
<1>3. Under(r, b) \subseteq U BY <1>1, <1>2, UnderClosed
<1> QED BY <1>3 DEF U

\* What hangs on one slot of a header does not hang on another.
LEMMA SlotsApart ==
    ASSUME NEW r \in RomType, Tree(r), NEW d \in Nodes,
           NEW j \in Slots(r, d), NEW k \in Slots(r, d), j # k
    PROVE  Under(r, Slot(r, d, j)) \cap Under(r, Slot(r, d, k)) = {}
<1> DEFINE a == Slot(r, d, j)  b == Slot(r, d, k)  T == Under(r, a) \ Under(r, b)
<1>1. CASE a = 0 \/ b = 0 BY <1>1 DEF Under
<1>2. CASE a # 0 /\ b # 0
    <2>1. a \in Nodes /\ b \in Nodes BY <1>2, SlotType
    <2>2. d \notin Under(r, a) /\ d \notin Under(r, b) BY UnderSlot
    <2>3. /\ \A c \in Nodes : \A l \in Slots(r, c) : Slot(r, c, l) = a => c = d /\ l = j
          /\ \A c \in Nodes : \A l \in Slots(r, c) : Slot(r, c, l) = b => c = d /\ l = k
        BY <1>2 DEF Tree
    <2>4. a # b BY <2>3
    <2> HIDE DEF a, b
    <2>5. \A c \in Nodes : \A l \in Slots(r, c) :
              Slot(r, c, l) \in Under(r, b) /\ Slot(r, c, l) # b => c \in Under(r, b)
        <3> SUFFICES ASSUME NEW c \in Nodes, NEW l \in Slots(r, c),
                            Slot(r, c, l) \in Under(r, b), Slot(r, c, l) # b
                     PROVE  c \in Under(r, b)
            OBVIOUS
        <3>1. PICK g \in Nodes, i \in Nat : /\ g \in Under(r, b) /\ i \in Slots(r, g)
                                            /\ Slot(r, g, i) = Slot(r, c, l)
            BY <2>1, ParentWithin
        <3>2. Slot(r, c, l) # 0
            BY <2>1, UnderClosed, RomAssumption DEF Nodes
        <3> QED BY <3>1, <3>2 DEF Tree
    <2>6. a \in T
        <3>1. a \in Under(r, a) BY <2>1, UnderClosed
        <3>2. d \in Nodes /\ Slot(r, d, j) = a BY DEF a
        <3>3. a \notin Under(r, b) BY <2>1, <2>2, <2>4, <2>5, <3>2
        <3> QED BY <3>1, <3>3
    <2>7. Closed(r, T)
        <3> SUFFICES ASSUME NEW c \in T, NEW l \in Slots(r, c), Slot(r, c, l) # 0
                     PROVE  Slot(r, c, l) \in T
            BY DEF Closed
        <3>1. c \in Nodes BY <2>1, UnderClosed
        <3>2. Slot(r, c, l) \in Under(r, a) BY <2>1, UnderClosed DEF Closed
        <3>3. Slot(r, c, l) \in Nodes BY <3>1, SlotType
        <3>4. Slot(r, c, l) # b BY <2>2, <2>3, <3>1
        <3>5. Slot(r, c, l) \notin Under(r, b) BY <2>5, <3>1, <3>4
        <3> QED BY <3>2, <3>5
    <2>8. T \in SUBSET Nodes BY <2>1, UnderClosed
    <2> HIDE DEF T
    <2>9. Under(r, a) \subseteq T BY <2>1, <2>6, <2>7, <2>8, UnderClosed
    <2> QED BY <2>9 DEF T, a, b
<1> QED BY <1>1, <1>2

\* Past one block more: what hangs on that block has gone.
LEMMA Skip ==
    ASSUME NEW r \in RomType, Tree(r), NEW d \in Nodes, NEW b \in Nat, b < Len(r.blocks[d])
    PROVE  /\ After(r, d, b) = Under(r, r.blocks[d][b + 1]) \cup After(r, d, b + 1)
           /\ Under(r, r.blocks[d][b + 1]) \cap After(r, d, b + 1) = {}
<1>1. Len(r.blocks[d]) \in Nat BY DEF RomType
<1> DEFINE n == Len(r.blocks[d])
           Rest == {0} \cup ((b + 1 + 1) .. n)
<1>2. {0} \cup ((b + 1) .. n) = {b + 1} \cup Rest BY <1>1
<1>3. Rest \subseteq Slots(r, d) /\ b + 1 \in Slots(r, d) /\ b + 1 \notin Rest /\ b + 1 # 0
    BY <1>1 DEF Slots
<1>4. Slot(r, d, b + 1) = r.blocks[d][b + 1] BY <1>3 DEF Slot
<1>5. After(r, d, b) = UNION {Under(r, Slot(r, d, k)) : k \in {b + 1} \cup Rest}
    BY <1>2 DEF After
<1>6. After(r, d, b + 1) = UNION {Under(r, Slot(r, d, k)) : k \in Rest} BY DEF After
<1> HIDE DEF Rest, n
<1>7. \A k \in Rest : Under(r, Slot(r, d, b + 1)) \cap Under(r, Slot(r, d, k)) = {}
    BY <1>3, SlotsApart
<1> QED BY <1>4, <1>5, <1>6, <1>7

\* Past the last block only the next header is left.
LEMMA LastSkip ==
    ASSUME NEW r \in RomType, NEW d \in Nodes
    PROVE  After(r, d, Len(r.blocks[d])) = Under(r, r.next[d])
<1>1. Len(r.blocks[d]) \in Nat BY DEF RomType
<1>2. {0} \cup ((Len(r.blocks[d]) + 1) .. Len(r.blocks[d])) = {0} BY <1>1
<1>3. Slot(r, d, 0) = r.next[d] BY DEF Slot
<1>4. After(r, d, Len(r.blocks[d])) = UNION {Under(r, Slot(r, d, k)) : k \in {0}} BY <1>2 DEF After
<1> QED BY <1>3, <1>4

-----------------------------------------------------------------------------
Here == IF phase = "enter" THEN Under(rom, node)
        ELSE IF phase = "block" THEN After(rom, node, block)
        ELSE IF phase = "sibling" THEN Under(rom, rom.next[node])
        ELSE {}

\* What the caller waiting in frame i has left past the block it waits at.
Left(i) == After(rom, frames[i][1], frames[i][2] + 1)

Above == UNION {Left(i) : i \in 1 .. Len(frames)}
ToEnter == Here \cup Above

Apart ==
    /\ Tree(rom)
    /\ phase = "enter" => block = 0
    /\ \A i \in 1 .. Len(frames) : Here \cap Left(i) = {}
    /\ \A i, j \in 1 .. Len(frames) : i < j => Left(i) \cap Left(j) = {}

\* A step that keeps the callers and takes away from the list at hand.
LEMMA SameCallers ==
    ASSUME Apart, UNCHANGED <<rom, frames>>, Here' \subseteq Here, phase' = "enter" => block' = 0
    PROVE  Apart' /\ Above' = Above
<1>1. \A i : Left(i)' = Left(i) BY DEF Left
<1>2. Above' = Above BY <1>1 DEF Above
<1> QED BY <1>1, <1>2 DEF Apart

\* A header is entered: it has not been before, and it will not be again.
LEMMA EnterApart ==
    ASSUME Inv, Apart, EnterCount \/ EnterCollect
    PROVE  Apart' /\ ToEnter = {node} \cup ToEnter' /\ node \in ToEnter /\ node \notin ToEnter'
<1>1. UNCHANGED <<rom, node, block, frames>> /\ phase = "enter" /\ phase' = "block" /\ block = 0
    BY DEF EnterCount, EnterCollect, walk, Apart
<1>2. rom \in RomType /\ Tree(rom) /\ node \in Nodes BY DEF Inv, WalkType, Apart
<1>3. Here = Under(rom, node) /\ Here' = After(rom, node, 0) BY <1>1 DEF Here
<1>4. Here = {node} \cup Here' /\ node \notin Here' BY <1>2, <1>3, Unfold
<1>5. Apart' /\ Above' = Above BY <1>1, <1>4, SameCallers
<1>6. node \notin Above BY <1>4 DEF Apart, Above
<1> QED BY <1>4, <1>5, <1>6 DEF ToEnter

LEMMA LevelApart ==
    ASSUME Inv, Apart, PlainBlock \/ NoMoreBlocks \/ NextHeader
    PROVE  Apart' /\ ToEnter' = ToEnter
<1>1. UNCHANGED <<rom, frames>> BY DEF PlainBlock, NoMoreBlocks, NextHeader, walk
<1>2. rom \in RomType /\ Tree(rom) /\ node \in Nodes /\ Len(rom.blocks[node]) \in Nat
      /\ block \in 0 .. Len(rom.blocks[node])
    BY DEF Inv, WalkType, Apart, RomType, Blocks
<1>3. Here' = Here /\ (phase' = "enter" => block' = 0)
    <2>1. CASE PlainBlock
        <3>1. block \in Nat /\ block < Len(rom.blocks[node]) /\ rom.blocks[node][block + 1] = 0
              /\ node' = node /\ phase = "block"
            BY <1>2, <2>1 DEF PlainBlock, NullBlock, Blocks, Plain
        <3>2. Under(rom, rom.blocks[node][block + 1]) = {} BY <3>1 DEF Under
        <3>6. Here = After(rom, node, block) BY <3>1 DEF Here
        <3>7. After(rom, node, block)
                = Under(rom, rom.blocks[node][block + 1]) \cup After(rom, node, block + 1)
            BY <1>2, <3>1, Skip
        <3>3. Here = After(rom, node, block + 1) BY <3>2, <3>6, <3>7
        <3>4. CASE LastBlock(node, block)
            <4>1. phase' = "sibling" /\ block + 1 = Len(rom.blocks[node])
                BY <1>2, <2>1, <3>4 DEF PlainBlock, PastBlock, LastBlock, Blocks
            <4>2. Here' = Under(rom, rom.next[node]) BY <1>1, <3>1, <4>1 DEF Here
            <4> QED BY <1>2, <3>3, <4>1, <4>2, LastSkip
        <3>5. CASE ~LastBlock(node, block)
            <4>1. phase' = "block" /\ block' = block + 1 BY <2>1, <3>5 DEF PlainBlock, PastBlock
            <4> QED BY <1>1, <3>1, <3>3, <4>1 DEF Here
        <3> QED BY <3>4, <3>5
    <2>2. CASE NoMoreBlocks
        <3>1. phase = "block" /\ phase' = "sibling" /\ node' = node /\ block = Len(rom.blocks[node])
            BY <2>2 DEF NoMoreBlocks, NullBlock, walk, Blocks
        <3>2. Here = After(rom, node, block) /\ Here' = Under(rom, rom.next[node])
            BY <1>1, <3>1 DEF Here
        <3> QED BY <1>2, <3>1, <3>2, LastSkip
    <2>3. CASE NextHeader
        BY <1>1, <2>3 DEF NextHeader, Here
    <2> QED BY <2>1, <2>2, <2>3
<1>4. Apart' /\ Above' = Above BY <1>1, <1>3, SameCallers
<1> QED BY <1>3, <1>4 DEF ToEnter

\* A branch divides the list at hand into what hangs on the block and the rest.
LEMMA BranchApart ==
    ASSUME Inv, Apart, Branch
    PROVE  Apart' /\ (phase' = "enter" => ToEnter' = ToEnter)
<1> DEFINE child == Blocks(node)[block + 1]
<1> PICK n \in Nat : n = Len(frames) BY DEF Inv, WalkType
<1>1. /\ frames' = Append(frames, <<node, block>>) /\ node' = child /\ block' = 0 /\ rom' = rom
      /\ phase = "block" /\ phase' \in {"enter", "overrun"}
    BY DEF Branch, Push
<1>2. rom \in RomType /\ Tree(rom) /\ node \in Nodes /\ Len(rom.blocks[node]) \in Nat
      /\ block \in Nat /\ block < Len(rom.blocks[node])
    BY DEF Branch, NullBlock, Inv, WalkType, Apart, RomType, Blocks
<1>3. n \in Nat /\ frames \in Seq(Callers) BY DEF Inv, WalkType
<1>4. /\ Len(frames') = n + 1 /\ frames'[n + 1] = <<node, block>>
      /\ \A i \in 1 .. n : frames'[i] = frames[i]
    <2> HIDE DEF Callers
    <2>1. <<node, block>> \in Callers BY <1>2 DEF Callers, Blocks
    <2> QED BY <1>1, <1>3, <2>1, AppendProperties
<1>5. Here = Under(rom, child) \cup After(rom, node, block + 1)
      /\ Under(rom, child) \cap After(rom, node, block + 1) = {}
    BY <1>1, <1>2, Skip DEF Here, Blocks
<1> HIDE DEF child
<1>6. Here' \subseteq Under(rom, child) /\ (phase' = "enter" => Here' = Under(rom, child))
    BY <1>1 DEF Here
<1>7. Left(n + 1)' = After(rom, node, block + 1) BY <1>1, <1>4 DEF Left
<1>8. \A i \in 1 .. n : Left(i)' = Left(i) BY <1>1, <1>4 DEF Left
<1>9. \A i \in 1 .. Len(frames)' : i \in 1 .. n \/ i = n + 1 BY <1>3, <1>4
<1>10. Above' = Above \cup After(rom, node, block + 1)
    <2>1. Above' = UNION {Left(i)' : i \in 1 .. n + 1} BY <1>4 DEF Above
    <2>2. 1 .. n + 1 = (1 .. n) \cup {n + 1} BY <1>3
    <2>3. Above = UNION {Left(i) : i \in 1 .. n} BY DEF Above
    <2> QED BY <1>7, <1>8, <2>1, <2>2, <2>3
<1>11. Apart'
    <2>1. \A i \in 1 .. n : Here \cap Left(i) = {} BY DEF Apart
    <2>2. \A i \in 1 .. Len(frames)' : Here' \cap Left(i)' = {}
        BY <1>5, <1>6, <1>7, <1>8, <1>9, <2>1
    <2>3. \A i, j \in 1 .. Len(frames)' : i < j => Left(i)' \cap Left(j)' = {}
        <3> SUFFICES ASSUME NEW i \in 1 .. Len(frames)', NEW j \in 1 .. Len(frames)', i < j
                     PROVE  Left(i)' \cap Left(j)' = {}
            OBVIOUS
        <3>1. i \in 1 .. n BY <1>3, <1>9
        <3>2. CASE j \in 1 .. n BY <1>8, <3>1, <3>2 DEF Apart
        <3>3. CASE j = n + 1 BY <1>5, <1>7, <1>8, <2>1, <3>1, <3>3
        <3> QED BY <1>9, <3>2, <3>3
    <2> QED BY <1>1, <2>2, <2>3 DEF Apart
<1> QED BY <1>5, <1>6, <1>10, <1>11 DEF ToEnter

\* At the end of a list the caller goes on with what it has left.
LEMMA EndOfListApart ==
    ASSUME Inv, Apart, EndOfList
    PROVE  Apart' /\ ToEnter' = ToEnter
<1> PICK n \in Nat : n = Len(frames) BY DEF Inv, WalkType
<1> DEFINE caller == frames[n]
<1>1. rom' = rom /\ phase = "sibling" /\ rom.next[node] = 0 BY DEF EndOfList, Eol
<1>2. rom \in RomType /\ Tree(rom) BY DEF Inv, WalkType, Apart
<1>3. n \in Nat /\ frames \in Seq(Callers) BY DEF Inv, WalkType
<1>4. Here = {} BY <1>1 DEF Here, Under
<1>5. CASE frames = <<>>
    <2>1. phase' = "end" /\ UNCHANGED <<node, block, frames>> BY <1>5 DEF EndOfList
    <2>2. Here' = {} BY <2>1 DEF Here
    <2>3. Apart' /\ Above' = Above BY <1>1, <1>4, <2>1, <2>2, SameCallers
    <2> QED BY <1>4, <2>2, <2>3 DEF ToEnter
<1>6. CASE frames # <<>>
    <2>1. /\ node' = caller[1] /\ PastBlock(caller[1], caller[2])
          /\ frames' = SubSeq(frames, 1, n - 1)
        BY <1>6 DEF EndOfList
    <2>2. n \in 1 .. n /\ n - 1 \in Nat BY <1>3, <1>6
    <2>3. caller \in Callers
        <3> HIDE DEF Callers
        <3> QED BY <1>3, <2>2, ElementOfSeq
    <2>4. caller[1] \in Nodes /\ caller[2] \in Nat /\ caller[2] < Len(rom.blocks[caller[1]])
          /\ Len(rom.blocks[caller[1]]) \in Nat
        BY <1>2, <2>3 DEF Callers, Blocks, RomType
    <2>5. Len(frames') = n - 1 /\ \A i \in 1 .. n - 1 : frames'[i] = frames[i]
        <3> HIDE DEF Callers
        <3>1. \A i \in 1 .. n - 1 : frames[i] \in Callers BY <1>3, <2>2
        <3>2. 1 \in Int /\ n - 1 \in Int BY <2>2
        <3>3. /\ Len(frames') = IF 1 <= n - 1 THEN n - 1 - 1 + 1 ELSE 0
              /\ \A i \in 1 .. n - 1 - 1 + 1 : frames'[i] = frames[1 + i - 1]
            BY <2>1, <3>1, <3>2, SubSeqProperties
        <3>4. n - 1 - 1 + 1 = n - 1 /\ \A i \in 1 .. n - 1 : 1 + i - 1 = i BY <2>2
        <3> QED BY <2>2, <3>3, <3>4
    <2>6. Left(n) = After(rom, caller[1], caller[2] + 1) BY DEF Left
    <2> HIDE DEF caller
    <2>7. phase' \in {"block", "sibling"} BY <2>1 DEF PastBlock
    <2>8. Here' = Left(n)
        <3>1. CASE LastBlock(caller[1], caller[2])
            <4>1. phase' = "sibling" /\ caller[2] + 1 = Len(rom.blocks[caller[1]])
                BY <2>1, <2>4, <3>1 DEF PastBlock, LastBlock, Blocks
            <4>2. Here' = Under(rom, rom.next[caller[1]]) BY <1>1, <2>1, <4>1 DEF Here
            <4> QED BY <1>2, <2>4, <2>6, <4>1, <4>2, LastSkip
        <3>2. CASE ~LastBlock(caller[1], caller[2])
            <4>1. phase' = "block" /\ block' = caller[2] + 1 BY <2>1, <3>2 DEF PastBlock
            <4> QED BY <1>1, <2>1, <2>6, <4>1 DEF Here
        <3> QED BY <3>1, <3>2
    <2>9. \A i \in 1 .. n - 1 : Left(i)' = Left(i) BY <1>1, <2>5 DEF Left
    <2>10. 1 .. n = (1 .. n - 1) \cup {n} BY <2>2
    <2>11. Above = Above' \cup Left(n)
        <3>1. Above' = UNION {Left(i)' : i \in 1 .. n - 1} BY <2>5 DEF Above
        <3>2. Above = UNION {Left(i) : i \in 1 .. n} BY DEF Above
        <3> QED BY <2>9, <2>10, <3>1, <3>2
    <2>12. Apart'
        <3>1. \A i, j \in 1 .. n : i < j => Left(i) \cap Left(j) = {} BY DEF Apart
        <3>2. \A i \in 1 .. n - 1 : i \in 1 .. n /\ i < n BY <2>2
        <3>3. \A i \in 1 .. n - 1 : Left(i) \cap Left(n) = {} BY <2>2, <3>1, <3>2
        <3>4. \A i \in 1 .. Len(frames)' : Here' \cap Left(i)' = {}
            BY <2>5, <2>8, <2>9, <3>3
        <3>5. \A i, j \in 1 .. Len(frames)' : i < j => Left(i)' \cap Left(j)' = {}
            BY <2>5, <2>9, <3>1, <3>2
        <3> QED BY <1>1, <2>7, <3>4, <3>5 DEF Apart
    <2> QED BY <1>4, <2>8, <2>11, <2>12 DEF ToEnter
<1> QED BY <1>5, <1>6

\* A pass begins with everything to enter.
LEMMA StartApart ==
    ASSUME Inv, Apart, Scan \/ Turn
    PROVE  Apart' /\ (phase' = "enter" => ToEnter' = Under(rom, Root))
<1>1. Push(-1) /\ rom' = rom /\ node' = Root /\ block' = 0 BY DEF Scan, Turn
<1>2. frames' = <<>> BY DEF Scan, Turn, Inv, Balanced
<1>3. phase' \in {"enter", "overrun"} BY <1>1 DEF Push
<1>4. Above' = {} BY <1>2 DEF Above
<1>5. phase' = "enter" => Here' = Under(rom, Root) BY <1>1 DEF Here
<1>6. 1 .. Len(frames') = {} BY <1>2
<1>7. Apart' BY <1>1, <1>6 DEF Apart
<1> QED BY <1>4, <1>5, <1>7 DEF ToEnter

LEMMA QuietApart ==
    ASSUME Inv, Apart, Finish \/ OutOfMemory \/ Use \/ UNCHANGED vars
    PROVE  Apart' /\ (phase' = phase => ToEnter' = ToEnter)
<1>1. UNCHANGED <<rom, node, block, frames>>
    BY DEF Finish, OutOfMemory, Use, Cleanup, Open, Close, InterruptOpen, InterruptClose, Set,
           walk, scanned, stack, vars
<1>2. phase' \in {"idle", "exit"} \/ phase' = phase
    BY DEF Finish, OutOfMemory, Use, Cleanup, Open, Close, InterruptOpen, InterruptClose, Set, vars
<1>3. Here' \subseteq Here /\ (phase' = phase => Here' = Here) BY <1>1, <1>2 DEF Here
<1>4. Apart' /\ Above' = Above BY <1>1, <1>2, <1>3, SameCallers DEF Apart
<1> QED BY <1>3, <1>4 DEF ToEnter

-----------------------------------------------------------------------------
Walking == {"enter", "block", "sibling", "end"}

\* The headers this pass has entered, and all there are.
Entered == IF pass = "count" THEN count ELSE index + 1
Headers == Cardinality(Under(rom, Root))

Agree ==
    /\ count \in Nat
    /\ phase \in Walking =>
          /\ Entered + Cardinality(ToEnter) = Headers
          /\ pass = "collect" => index >= -1 /\ count = Headers /\ Len(table) = count
          /\ pass = "count" => table = <<>>

Entries == [node : 0 .. N, parent : Int, params : Nat, data : Nat, mmio : BOOLEAN, irq : BOOLEAN]

OwnedBy(t, i) == IF t[i].data = 0 THEN {}
                 ELSE {<<"params", i>>} \cup {<<"data", i, j>> : j \in 1 .. t[i].data}

\* An interface owns what was allocated for it, and its clean-up frees as much.
TableOK ==
    /\ table \in Seq(Entries)
    /\ \A i \in DOMAIN table : table[i].data <= table[i].params
    /\ pass = "collect" /\ phase \in Walking =>
          \A i \in DOMAIN table : i > index + 1 => table[i].data = 0
    /\ phase \in {"enter", "block", "sibling"} => top < Len(head)
    /\ heap = UNION {OwnedBy(table, i) : i \in DOMAIN table}

IInv == Inv /\ Apart /\ Agree /\ TableOK

LEMMA ToEnterFinite ==
    /\ ToEnter \subseteq Nodes /\ IsFiniteSet(ToEnter) /\ Cardinality(ToEnter) \in Nat
    /\ Under(rom, Root) \subseteq Nodes /\ Headers \in Nat
<1>1. \A d : Under(rom, d) \subseteq Nodes BY DEF Under
<1>2. \A d, b : After(rom, d, b) \subseteq Nodes BY <1>1 DEF After
<1>3. Here \subseteq Nodes BY <1>1, <1>2 DEF Here
<1>4. Above \subseteq Nodes BY <1>2 DEF Above, Left
<1>5. IsFiniteSet(Nodes) BY FS_Interval, RomAssumption DEF Nodes
<1>6. ToEnter \subseteq Nodes BY <1>3, <1>4 DEF ToEnter
<1>7. IsFiniteSet(ToEnter) /\ IsFiniteSet(Under(rom, Root)) BY <1>1, <1>5, <1>6, FS_Subset
<1> QED BY <1>1, <1>6, <1>7, FS_CardinalityType DEF Headers

\* Where a pass has ended nothing is left to enter.
LEMMA NothingLeft ==
    ASSUME Inv, phase = "end"
    PROVE  ToEnter = {} /\ Cardinality(ToEnter) = 0
<1>1. frames = <<>> BY DEF Inv, Balanced
<1>2. Above = {} BY <1>1 DEF Above
<1>3. Here = {} BY DEF Here
<1> QED BY <1>2, <1>3, FS_EmptySet DEF ToEnter

\* A header entered is one fewer to enter.
LEMMA OneFewer ==
    ASSUME Inv, Apart, EnterCount \/ EnterCollect
    PROVE  Cardinality(ToEnter) = Cardinality(ToEnter') + 1 /\ Cardinality(ToEnter') \in Nat
<1>1. ToEnter = ToEnter' \cup {node} /\ node \notin ToEnter' BY EnterApart
<1>2. IsFiniteSet(ToEnter') /\ Cardinality(ToEnter') \in Nat
    <2>1. IsFiniteSet(ToEnter) BY ToEnterFinite
    <2>2. IsFiniteSet(ToEnter') BY <1>1, <2>1, FS_Subset
    <2> QED BY <2>2, FS_CardinalityType
<1>3. Cardinality(ToEnter' \cup {node}) = Cardinality(ToEnter') + 1
    BY <1>1, <1>2, FS_AddElement
<1> QED BY <1>1, <1>2, <1>3

\* There is a place in the table for each header collected, and a parent on
\* the stack to note in it.
LEMMA PlaceForHeader ==
    ASSUME IInv, phase = "enter", pass = "collect"
    PROVE  /\ index + 2 \in DOMAIN table /\ index + 2 \in Nat
           /\ top + 1 \in DOMAIN head /\ head[top + 1] \in Int
<1>1. node \in ToEnter
    <2>1. node \in Nodes /\ rom \in RomType BY DEF IInv, Inv, WalkType
    <2> QED BY <2>1, UnderClosed DEF ToEnter, Here
<1>2. Cardinality(ToEnter) # 0 BY <1>1, ToEnterFinite, FS_EmptySet
<1>3. Cardinality(ToEnter) \in Nat /\ Headers \in Nat BY ToEnterFinite
<1>4. index + 1 + Cardinality(ToEnter) = Headers /\ index >= -1 /\ Len(table) = Headers /\ index \in Int
    BY DEF IInv, Agree, Walking, Entered, Inv, WalkType
<1>5. DOMAIN table = 1 .. Len(table) BY DEF IInv, TableOK
<1>6. index + 2 \in 1 .. Headers BY <1>2, <1>3, <1>4
<1>7. top \in Nat /\ head \in Seq(Int) /\ top < Len(head) BY DEF IInv, Inv, WalkType, TableOK
<1>8. top + 1 \in 1 .. Len(head) BY <1>7
<1> QED BY <1>4, <1>5, <1>6, <1>7, <1>8, ElementOfSeq

LEMMA InterfaceType ==
    ASSUME IInv, phase = "enter", pass = "collect"
    PROVE  /\ Interface(node) \in Entries
           /\ Interface(node).data = Len(Blocks(node)) /\ Interface(node).params = ParamCount(node)
           /\ Len(Blocks(node)) \in Nat /\ Len(Blocks(node)) <= ParamCount(node)
<1>1. node \in Nodes /\ Blocks(node) \in Seq(0 .. N) BY DEF IInv, Inv, WalkType, RomType, Blocks
<1>2. Len(Blocks(node)) \in Nat /\ (Blocks(node) = <<>> => Len(Blocks(node)) = 0) BY <1>1
<1>3. ParamCount(node) \in Nat /\ Len(Blocks(node)) <= ParamCount(node) BY <1>2 DEF ParamCount
<1>4. node \in 0 .. N BY <1>1, RomAssumption DEF Nodes
<1> HIDE DEF ParamCount, Blocks
<1>5. head[top + 1] \in Int BY PlaceForHeader
<1> QED BY <1>2, <1>3, <1>4, <1>5 DEF Interface, Entries

\* Steps of a pass that neither enter a header nor touch the table.
LEMMA PassStep ==
    ASSUME IInv, PlainBlock \/ NoMoreBlocks \/ NextHeader \/ Branch \/ EndOfList
    PROVE  Agree' /\ TableOK'
<1>1. UNCHANGED <<rom, pass, count, index, table, heap>> /\ phase \in {"block", "sibling"}
    BY DEF PlainBlock, NoMoreBlocks, NextHeader, Branch, EndOfList, walk, scanned
<1>2. Inv /\ Apart /\ Agree /\ TableOK BY DEF IInv
<1>3. phase' \in Walking => ToEnter' = ToEnter
    <2>1. CASE Branch BY <1>2, <2>1, BranchApart DEF Branch, Push, Walking
    <2>2. CASE EndOfList BY <1>2, <2>2, EndOfListApart
    <2>3. CASE PlainBlock \/ NoMoreBlocks \/ NextHeader BY <1>2, <2>3, LevelApart
    <2> QED BY <2>1, <2>2, <2>3
<1>4. Entered' = Entered /\ Headers' = Headers BY <1>1 DEF Entered, Headers
<1>5. Agree' BY <1>1, <1>2, <1>3, <1>4 DEF Agree, Walking
<1>6. phase' \in {"enter", "block", "sibling"} => top' < Len(head')
    <2>1. CASE Branch
        <3>1. phase' = "enter" => /\ top + 1 < Len(Grown) /\ top' = top + 1
                                  /\ head' = [Grown EXCEPT ![top + 2] = index]
            BY <2>1 DEF Branch, Push
        <3>2. phase' \in {"enter", "overrun"} BY <2>1 DEF Branch, Push
        <3>3. Push(index) /\ index \in Int /\ WalkType /\ Balanced
            BY <1>2, <2>1 DEF Branch, Inv, WalkType
        <3>4. Grown \in Seq(Int) BY <3>3, GrownType
        <3>5. phase' = "enter" => Len(head') = Len(Grown)
            <4>1. top \in Nat BY <3>3 DEF WalkType
            <4> HIDE DEF Grown
            <4>2. top + 1 < Len(Grown) => top + 2 \in 1 .. Len(Grown) BY <3>4, <4>1
            <4> QED BY <3>1, <3>3, <3>4, <4>2, ExceptSeq
        <3> QED BY <3>1, <3>2, <3>5
    <2>2. CASE EndOfList
        <3>1. top' = top - 1 /\ head' = head /\ top < Len(head) BY <1>1, <1>2, <2>2 DEF EndOfList, TableOK
        <3>2. top \in Nat /\ Len(head) \in Nat BY <1>2 DEF Inv, WalkType
        <3> QED BY <3>1, <3>2
    <2>3. CASE PlainBlock \/ NoMoreBlocks \/ NextHeader
        <3>1. UNCHANGED <<head, top>> BY <2>3 DEF PlainBlock, NoMoreBlocks, NextHeader, stack
        <3> QED BY <1>1, <1>2, <3>1 DEF TableOK
    <2> QED BY <2>1, <2>2, <2>3
<1>7. \A i : OwnedBy(table, i)' = OwnedBy(table, i) BY <1>1 DEF OwnedBy
<1>8. TableOK' BY <1>1, <1>2, <1>6, <1>7 DEF TableOK, Walking
<1> QED BY <1>5, <1>8

LEMMA EnterCountStep == ASSUME IInv, EnterCount PROVE Agree' /\ TableOK'
<1>1. UNCHANGED <<rom, pass, index, head, top, table, heap>> /\ pass = "count" /\ count' = count + 1
      /\ phase = "enter" /\ phase' = "block"
    BY DEF EnterCount, walk, stack
<1>2. Inv /\ Apart /\ Agree /\ TableOK BY DEF IInv
<1>3. Cardinality(ToEnter) = Cardinality(ToEnter') + 1 /\ Cardinality(ToEnter') \in Nat
    BY <1>2, OneFewer
<1>4. Headers' = Headers /\ Entered = count /\ Entered' = count + 1 BY <1>1 DEF Headers, Entered
<1>5. Agree'
    <2> DEFINE more == Cardinality(ToEnter)
    <2> HIDE DEF more
    <2>1. count \in Nat /\ count + more = Headers /\ table = <<>>
        BY <1>1, <1>2, <1>4 DEF Agree, Walking, more
    <2>2. count + 1 + Cardinality(ToEnter') = Headers BY <1>3, <2>1 DEF more
    <2> QED BY <1>1, <1>4, <2>1, <2>2 DEF Agree
<1>6. \A i : OwnedBy(table, i)' = OwnedBy(table, i) BY <1>1 DEF OwnedBy
<1>7. TableOK' BY <1>1, <1>2, <1>6 DEF TableOK, Walking
<1> QED BY <1>5, <1>7

LEMMA EnterCollectStep == ASSUME IInv, EnterCollect PROVE Agree' /\ TableOK'
<1> DEFINE e == Interface(node)
<1> PICK k \in Nat : k = index + 2 BY PlaceForHeader DEF EnterCollect
<1>1. /\ UNCHANGED <<rom, pass, count, head, top>> /\ pass = "collect" /\ phase = "enter"
      /\ phase' = "block" /\ index' = index + 1
      /\ table' = [table EXCEPT ![k] = e] /\ heap' = heap \cup Allocated(k, node)
    BY DEF EnterCollect, walk, stack
<1>2. Inv /\ Apart /\ Agree /\ TableOK BY DEF IInv
<1>3. k \in 1 .. Len(table) /\ table \in Seq(Entries) BY <1>1, <1>2, PlaceForHeader DEF TableOK
<1>4. /\ e \in Entries /\ e.data = Len(Blocks(node)) /\ e.params = ParamCount(node)
      /\ Len(Blocks(node)) \in Nat /\ Len(Blocks(node)) <= ParamCount(node)
    BY <1>1, InterfaceType
<1> HIDE DEF e
<1>5. /\ table' \in Seq(Entries) /\ Len(table') = Len(table)
      /\ \A i \in 1 .. Len(table) : table'[i] = IF i = k THEN e ELSE table[i]
    BY <1>1, <1>3, <1>4, ExceptSeq
<1>6. DOMAIN table = 1 .. Len(table) /\ DOMAIN table' = 1 .. Len(table) BY <1>3, <1>5
<1>7. Agree'
    <2>1. Cardinality(ToEnter) = Cardinality(ToEnter') + 1 /\ Cardinality(ToEnter') \in Nat
        BY <1>2, OneFewer
    <2> DEFINE more == Cardinality(ToEnter)
    <2> HIDE DEF more
    <2>2. Headers' = Headers /\ Entered = index + 1 /\ Entered' = index + 1 + 1
        BY <1>1 DEF Headers, Entered
    <2>3. index \in Int /\ index >= -1 /\ index + 1 + more = Headers /\ count = Headers
          /\ Len(table) = count /\ count \in Nat
        BY <1>1, <1>2, <2>2 DEF Agree, Walking, more, Inv, WalkType
    <2>4. index + 1 + 1 + Cardinality(ToEnter') = Headers BY <2>1, <2>3 DEF more
    <2> QED BY <1>1, <1>5, <2>2, <2>3, <2>4 DEF Agree
<1>8. \A i \in 1 .. Len(table) : table'[i].data <= table'[i].params
    BY <1>2, <1>4, <1>5, <1>6 DEF TableOK
<1>9. \A i \in 1 .. Len(table) : i > index' + 1 => table'[i].data = 0
    <2>1. index \in Int /\ index' + 1 = k BY <1>1, <1>2 DEF Inv, WalkType
    <2>2. \A i \in 1 .. Len(table) : i > index + 1 => table[i].data = 0
        BY <1>1, <1>2, <1>6 DEF TableOK, Walking
    <2> QED BY <1>3, <1>5, <2>1, <2>2
<1>10. heap' = UNION {OwnedBy(table', i) : i \in 1 .. Len(table)}
    <2>1. \A i \in 1 .. Len(table) : i # k => OwnedBy(table', i) = OwnedBy(table, i)
        BY <1>5 DEF OwnedBy
    <2>2. OwnedBy(table, k) = {}
        <3>1. k > index + 1 /\ k \in DOMAIN table BY <1>2, <1>3, <1>6 DEF Inv, WalkType
        <3>2. table[k].data = 0 BY <1>1, <1>2, <3>1 DEF TableOK, Walking
        <3> QED BY <3>2 DEF OwnedBy
    <2>3. OwnedBy(table', k) = Allocated(k, node)
        <3>1. table'[k] = e BY <1>3, <1>5
        <3>2. Blocks(node) = <<>> <=> Len(Blocks(node)) = 0
            BY <1>2 DEF Inv, WalkType, RomType, Blocks
        <3> QED BY <1>4, <3>1, <3>2 DEF OwnedBy, Allocated
    <2>4. heap = UNION {OwnedBy(table, i) : i \in 1 .. Len(table)} BY <1>2, <1>6 DEF TableOK
    <2> HIDE DEF OwnedBy, Allocated
    <2> QED BY <1>1, <1>3, <2>1, <2>2, <2>3, <2>4
<1>11. top' < Len(head') BY <1>1, <1>2 DEF TableOK
<1>12. TableOK' BY <1>1, <1>5, <1>6, <1>8, <1>9, <1>10, <1>11 DEF TableOK
<1> QED BY <1>7, <1>12

\* A clean-up frees what the table owns, and nothing else is in use.
LEMMA AllReleased ==
    ASSUME IInv
    PROVE  heap \ Released = {}
<1> SUFFICES ASSUME NEW b \in heap PROVE b \in Released OBVIOUS
<1>1. PICK i \in DOMAIN table : b \in OwnedBy(table, i) BY DEF IInv, TableOK
<1>2. table[i].data \in Nat /\ table[i].params \in Nat /\ table[i].data <= table[i].params
    <2>1. table \in Seq(Entries) /\ table[i].data <= table[i].params BY DEF IInv, TableOK
    <2>2. table[i] \in Entries BY <2>1
    <2> QED BY <2>1, <2>2 DEF Entries
<1>3. 1 .. table[i].data \subseteq 1 .. table[i].params BY <1>2
<1>4. b \in {<<"params", i>>} \cup {<<"data", i, j>> : j \in 1 .. table[i].params}
    BY <1>1, <1>3 DEF OwnedBy
<1> QED BY <1>4 DEF Released

LEMMA EmptyTableOK == ASSUME IInv, EmptyTable PROVE table' = <<>> /\ heap' = {}
BY AllReleased DEF EmptyTable

LEMMA PushRoom ==
    ASSUME IInv, NEW data \in Int, Push(data)
    PROVE  phase' \in {"enter", "overrun"} /\ (phase' = "enter" => top' < Len(head'))
<1>1. phase' = "enter" => /\ top + 1 < Len(Grown) /\ top' = top + 1
                          /\ head' = [Grown EXCEPT ![top + 2] = data]
    BY DEF Push
<1>2. phase' \in {"enter", "overrun"} BY DEF Push
<1>3. Grown \in Seq(Int) /\ top \in Nat BY GrownType DEF IInv, Inv, WalkType
<1> HIDE DEF Grown
<1>4. top + 1 < Len(Grown) => top + 2 \in 1 .. Len(Grown) BY <1>3
<1>5. phase' = "enter" => Len(head') = Len(Grown) BY <1>1, <1>3, <1>4, ExceptSeq
<1> QED BY <1>1, <1>2, <1>5

LEMMA ScanStepIInv == ASSUME IInv, Scan PROVE Agree' /\ TableOK'
<1>1. /\ Push(-1) /\ pass' = "count" /\ count' = 0 /\ rom' = rom /\ table' = <<>> /\ heap' = {}
    BY EmptyTableOK DEF Scan
<1>2. phase' \in {"enter", "overrun"} /\ (phase' = "enter" => top' < Len(head')) BY <1>1, PushRoom
<1>3. Inv /\ Apart BY DEF IInv
<1>4. phase' = "enter" => ToEnter' = Under(rom, Root) BY <1>3, StartApart
<1>5. Headers' = Headers /\ Headers \in Nat BY <1>1, ToEnterFinite DEF Headers
<1>6. Agree'
    <2>1. phase' = "enter" => Cardinality(ToEnter') = Headers BY <1>4 DEF Headers
    <2>2. Entered' = 0 BY <1>1 DEF Entered
    <2> QED BY <1>1, <1>2, <1>5, <2>1, <2>2 DEF Agree, Walking
<1>7. TableOK' BY <1>1, <1>2 DEF TableOK
<1> QED BY <1>6, <1>7

LEMMA TurnStep == ASSUME IInv, Turn PROVE Agree' /\ TableOK'
<1>1. /\ Push(-1) /\ pass = "count" /\ phase = "end" /\ pass' = "collect" /\ count' = count
      /\ rom' = rom /\ heap' = heap /\ index' = -1 /\ table' = [i \in 1 .. count |-> Blank]
    BY DEF Turn
<1>2. phase' \in {"enter", "overrun"} /\ (phase' = "enter" => top' < Len(head')) BY <1>1, PushRoom
<1>3. Inv /\ Apart /\ Agree /\ TableOK BY DEF IInv
<1>4. phase' = "enter" => ToEnter' = Under(rom, Root) BY <1>3, StartApart
<1>5. Headers' = Headers /\ Headers \in Nat BY <1>1, ToEnterFinite DEF Headers
<1>6. count \in Nat /\ count = Headers /\ table = <<>>
    <2>1. Cardinality(ToEnter) = 0 BY <1>1, <1>3, NothingLeft
    <2>2. count + 0 = Headers BY <1>1, <1>3, <2>1 DEF Agree, Walking, Entered
    <2> QED BY <1>1, <1>3, <2>2 DEF Agree, Walking
<1>7. Blank \in Entries BY RomAssumption DEF Blank, Entries
<1>8. table' \in Seq(Entries) /\ Len(table') = count /\ DOMAIN table' = 1 .. count
    BY <1>1, <1>6, <1>7
<1>9. \A i \in 1 .. count : table'[i].data = 0 /\ table'[i].params = 0 BY <1>1 DEF Blank
<1>10. Agree'
    <2>1. phase' = "enter" => Cardinality(ToEnter') = Headers BY <1>4 DEF Headers
    <2>2. Entered' = 0 BY <1>1 DEF Entered
    <2> QED BY <1>1, <1>2, <1>5, <1>6, <1>8, <2>1, <2>2 DEF Agree, Walking
<1>11. heap = {} BY <1>3, <1>6 DEF TableOK
<1>12. heap' = UNION {OwnedBy(table', i) : i \in DOMAIN table'}
    BY <1>1, <1>8, <1>9, <1>11 DEF OwnedBy
<1>13. TableOK' BY <1>2, <1>8, <1>9, <1>12 DEF TableOK
<1> QED BY <1>10, <1>13

LEMMA QuietStepIInv ==
    ASSUME IInv, Finish \/ OutOfMemory \/ Use \/ UNCHANGED vars PROVE Agree' /\ TableOK'
<1>0. Inv /\ Apart /\ Agree /\ TableOK BY DEF IInv
<1>1. CASE Finish \/ OutOfMemory
    <2>1. UNCHANGED <<rom, pass, count, index, table, heap>> /\ phase' \in {"idle", "exit"}
        BY <1>1 DEF Finish, OutOfMemory, walk, scanned
    <2>2. \A i : OwnedBy(table, i)' = OwnedBy(table, i) BY <2>1 DEF OwnedBy
    <2>3. Agree' BY <1>0, <2>1 DEF Agree, Walking
    <2> QED BY <1>0, <2>1, <2>2, <2>3 DEF TableOK, Walking
<1>2. CASE Cleanup
    <2>1. table' = <<>> /\ heap' = {} /\ phase' = "idle" /\ count' = count
        BY <1>2, EmptyTableOK DEF Cleanup, scanned
    <2> QED BY <1>0, <2>1 DEF Agree, TableOK, Walking
<1>3. ASSUME NEW i \in DOMAIN table, Open(i) \/ Close(i) \/ InterruptOpen(i) \/ InterruptClose(i)
      PROVE  Agree' /\ TableOK'
    <2>1. PICK f \in {"mmio", "irq"}, v \in BOOLEAN : Set(i, f, v)
        BY <1>3 DEF Open, Close, InterruptOpen, InterruptClose
    <2>2. phase = "idle" /\ phase' = "idle" /\ UNCHANGED <<count, heap>>
          /\ table' = [table EXCEPT ![i][f] = v]
        BY <2>1 DEF Set, scanned
    <2>3. table \in Seq(Entries) /\ i \in 1 .. Len(table) /\ table[i] \in Entries BY <1>0 DEF TableOK
    <2> DEFINE e == [table[i] EXCEPT ![f] = v]
    <2>4. e \in Entries /\ e.data = table[i].data /\ e.params = table[i].params
        BY <2>3 DEF Entries
    <2>5. table' = [table EXCEPT ![i] = e] BY <2>2
    <2> HIDE DEF e
    <2>6. /\ table' \in Seq(Entries) /\ Len(table') = Len(table)
          /\ \A j \in 1 .. Len(table) : table'[j] = IF j = i THEN e ELSE table[j]
        BY <2>3, <2>4, <2>5, ExceptSeq
    <2>7. DOMAIN table' = DOMAIN table /\ DOMAIN table = 1 .. Len(table) BY <2>3, <2>6
    <2>8. \A j \in DOMAIN table : table'[j].data = table[j].data /\ table'[j].params = table[j].params
        BY <2>4, <2>6, <2>7
    <2>9. \A j \in DOMAIN table : OwnedBy(table', j) = OwnedBy(table, j) BY <2>8 DEF OwnedBy
    <2>10. Agree' BY <1>0, <2>2 DEF Agree, Walking
    <2>11. UNION {OwnedBy(table', j) : j \in DOMAIN table'} = UNION {OwnedBy(table, j) : j \in DOMAIN table}
        BY <2>7, <2>9
    <2> QED BY <1>0, <2>2, <2>6, <2>7, <2>8, <2>10, <2>11 DEF TableOK, Walking
<1>4. CASE UNCHANGED vars
    <2>1. UNCHANGED <<rom, phase, pass, node, block, frames, count, index, head, top, table, heap>>
        BY <1>4 DEF vars
    <2>2. \A i : OwnedBy(table, i)' = OwnedBy(table, i) BY <2>1 DEF OwnedBy
    <2>3. ToEnter' = ToEnter BY <1>0, <1>4, QuietApart DEF vars
    <2>4. Entered' = Entered /\ Headers' = Headers BY <2>1 DEF Entered, Headers
    <2>5. Agree' BY <1>0, <2>1, <2>3, <2>4 DEF Agree
    <2> QED BY <1>0, <2>1, <2>2, <2>5 DEF TableOK
<1> QED BY <1>1, <1>2, <1>3, <1>4 DEF Use

LEMMA InitIInv == Init => IInv
<1> SUFFICES ASSUME Init PROVE IInv OBVIOUS
<1>1. Inv BY InitInv
<1>2. Tree(rom) BY RomsAreTrees DEF Init
<1>3. frames = <<>> /\ phase = "idle" /\ table = <<>> /\ heap = {} /\ count = 0 BY DEF Init
<1>4. Apart BY <1>2, <1>3 DEF Apart
<1>5. Agree /\ TableOK BY <1>3 DEF Agree, TableOK, Walking
<1> QED BY <1>1, <1>4, <1>5 DEF IInv

LEMMA NextIInv == IInv /\ [Next]_vars => IInv'
<1> SUFFICES ASSUME IInv, [Next]_vars PROVE IInv'
    OBVIOUS
<1>1. Inv /\ Apart BY DEF IInv
<1>2. Inv' BY <1>1, NextInv
<1>3. CASE Scan BY <1>1, <1>2, <1>3, StartApart, ScanStepIInv DEF IInv
<1>4. CASE Turn BY <1>1, <1>2, <1>4, StartApart, TurnStep DEF IInv
<1>5. CASE EnterCount BY <1>1, <1>2, <1>5, EnterApart, EnterCountStep DEF IInv
<1>6. CASE EnterCollect BY <1>1, <1>2, <1>6, EnterApart, EnterCollectStep DEF IInv
<1>7. CASE PlainBlock \/ NoMoreBlocks \/ NextHeader
    BY <1>1, <1>2, <1>7, LevelApart, PassStep DEF IInv
<1>8. CASE Branch BY <1>1, <1>2, <1>8, BranchApart, PassStep DEF IInv
<1>9. CASE EndOfList BY <1>1, <1>2, <1>9, EndOfListApart, PassStep DEF IInv
<1>10. CASE Finish \/ OutOfMemory \/ Use \/ UNCHANGED vars
    BY <1>1, <1>2, <1>10, QuietApart, QuietStepIInv DEF IInv
<1> QED BY <1>3, <1>4, <1>5, <1>6, <1>7, <1>8, <1>9, <1>10 DEF Next, Step

-----------------------------------------------------------------------------
(* What the second pass has stored: the headers entered, each once.         *)

Stored == {table[i].node : i \in 1 .. index + 1}

\* An entry says of its header what the ROM does, and is not open.
Described(e) ==
    e.params = ParamCount(e.node) /\ e.data = Len(Blocks(e.node)) /\ ~e.mmio /\ ~e.irq

Collected ==
    pass = "collect" /\ phase \in Walking =>
        /\ Stored \cap ToEnter = {}
        /\ Stored \cup ToEnter = Under(rom, Root)
        /\ \A i, j \in 1 .. index + 1 : table[i].node = table[j].node => i = j
        /\ \A i \in 1 .. index + 1 : Described(table[i])

LEMMA CollectStep == ASSUME IInv, IInv', Collected, EnterCollect PROVE Collected'
<1> PICK k \in Nat : k = index + 2 BY PlaceForHeader DEF EnterCollect
<1> PICK d \in Nodes : d = node BY DEF IInv, Inv, WalkType
<1> PICK e : e = Interface(node) OBVIOUS
<1>1. /\ UNCHANGED <<rom, pass, head, top>> /\ pass = "collect" /\ phase = "enter"
      /\ phase' = "block" /\ index' = index + 1 /\ table' = [table EXCEPT ![k] = e]
    BY DEF EnterCollect, walk, stack
<1>2. Inv /\ Apart /\ index \in Int /\ index >= -1
    BY <1>1 DEF IInv, Inv, WalkType, Agree, Walking
<1>3. k \in DOMAIN table BY <1>1, PlaceForHeader
<1>4. table'[k] = e /\ \A i \in 1 .. index + 1 : table'[i] = table[i]
    <2>1. \A i \in 1 .. index + 1 : i # k BY <1>2
    <2>2. \A i \in 1 .. index + 1 : i \in DOMAIN table
        <3>1. DOMAIN table = 1 .. Len(table) /\ Len(table) \in Nat BY DEF IInv, TableOK
        <3> QED BY <1>2, <1>3, <3>1
    <2> QED BY <1>1, <1>3, <2>1, <2>2
<1>5. 1 .. index' + 1 = (1 .. index + 1) \cup {k} BY <1>1, <1>2
<1>6. e.node = d /\ Described(e) BY DEF Interface, Described
<1>7. ToEnter = {d} \cup ToEnter' /\ d \in ToEnter /\ d \notin ToEnter' BY <1>2, EnterApart
<1>8. /\ Stored \cap ToEnter = {} /\ Stored \cup ToEnter = Under(rom, Root)
      /\ \A i, j \in 1 .. index + 1 : table[i].node = table[j].node => i = j
      /\ \A i \in 1 .. index + 1 : Described(table[i])
    BY <1>1 DEF Collected, Walking
<1>9. Stored' = Stored \cup {d}
    <2>1. Stored' = {table'[i].node : i \in 1 .. index' + 1} BY DEF Stored
    <2> QED BY <1>4, <1>5, <1>6, <2>1 DEF Stored
<1>10. \A i \in 1 .. index + 1 : table[i].node \in Stored /\ table[i].node # d
    BY <1>7, <1>8 DEF Stored
<1>11. \A i, j \in 1 .. index' + 1 : table'[i].node = table'[j].node => i = j
    <2>1. \A i \in 1 .. index + 1 : table'[i].node # d BY <1>4, <1>10
    <2> QED BY <1>4, <1>5, <1>6, <1>8, <2>1
<1>12. \A f : Described(f)' <=> Described(f) BY <1>1 DEF Described, ParamCount, Blocks
<1>13. \A i \in 1 .. index' + 1 : Described(table'[i]) BY <1>4, <1>5, <1>6, <1>8
<1>14. \A i \in 1 .. index' + 1 : Described(table[i])'
    <2> SUFFICES ASSUME NEW i \in 1 .. index' + 1 PROVE Described(table[i])' OBVIOUS
    <2>1. PICK f : f = table'[i] OBVIOUS
    <2>2. Described(f)' BY <1>12, <1>13, <2>1
    <2> QED BY <2>1, <2>2 DEF Described
<1> QED BY <1>1, <1>7, <1>8, <1>9, <1>11, <1>14 DEF Collected

\* What a step of the second pass that enters no header leaves alone.
LEMMA CollectQuiet ==
    ASSUME IInv, [Next]_vars, ~EnterCollect, ~Turn, pass' = "collect", phase' \in Walking
    PROVE  UNCHANGED <<rom, table, index, pass, ToEnter>> /\ phase \in Walking
<1>1. UNCHANGED <<rom, table, index, pass>> /\ phase \in Walking
    BY DEF Next, Scan, Step, EnterCount, PlainBlock, Branch, NoMoreBlocks, NextHeader,
       EndOfList, Finish, OutOfMemory, Use, Cleanup, Open, Close, InterruptOpen, InterruptClose,
       Set, walk, scanned, stack, vars, Walking
<1>2. CASE PlainBlock \/ NoMoreBlocks \/ NextHeader BY <1>1, <1>2, LevelApart DEF IInv
<1>3. CASE Branch BY <1>1, <1>3, BranchApart DEF IInv, Branch, Push, Walking
<1>4. CASE EndOfList BY <1>1, <1>4, EndOfListApart DEF IInv
<1>5. CASE Finish \/ OutOfMemory \/ Use \/ UNCHANGED vars
    <2>1. phase' = phase
        BY <1>1, <1>5 DEF Finish, OutOfMemory, Use, Cleanup, Open, Close, InterruptOpen,
           InterruptClose, Set, vars, Walking
    <2> QED BY <1>1, <1>5, <2>1, QuietApart DEF IInv
<1>6. CASE Scan \/ EnterCount BY <1>1, <1>6 DEF Scan, EnterCount, walk, Walking
<1> QED BY <1>2, <1>3, <1>4, <1>5, <1>6 DEF Next, Step

LEMMA CollectedStep == IInv /\ IInv' /\ Collected /\ [Next]_vars => Collected'
<1> SUFFICES ASSUME IInv, IInv', Collected, [Next]_vars, pass' = "collect", phase' \in Walking
             PROVE  Collected'
    BY DEF Collected
<1>1. CASE EnterCollect BY <1>1, CollectStep
<1>2. CASE Turn
    <2>1. /\ index' = -1 /\ rom' = rom /\ phase' = "enter" BY <1>2 DEF Turn, Push, Walking
    <2>2. ToEnter' = Under(rom, Root) BY <1>2, <2>1, StartApart DEF IInv
    <2>3. Stored' = {} /\ 1 .. index' + 1 = {} BY <2>1 DEF Stored
    <2> QED BY <2>1, <2>2, <2>3 DEF Collected
<1>3. CASE ~EnterCollect /\ ~Turn
    <2>1. UNCHANGED <<rom, table, index, pass, ToEnter>> /\ phase \in Walking BY <1>3, CollectQuiet
    <2>3. Stored' = Stored BY <2>1 DEF Stored
    <2>4. \A i : Described(table[i])' <=> Described(table[i]) BY <2>1 DEF Described, ParamCount, Blocks
    <2> QED BY <2>1, <2>3, <2>4 DEF Collected
<1> QED BY <1>1, <1>2, <1>3

-----------------------------------------------------------------------------
(* A list that hangs together is all reached from its first header.         *)

LEMMA LeastNode ==
    ASSUME NEW S \in SUBSET Nodes, S # {}
    PROVE  \E m \in S : \A k \in S : m <= k
<1>1. S \in SUBSET Nat BY RomAssumption DEF Nodes
<1> QED BY <1>1, LeastNat

LEMMA AllUnderRoot ==
    ASSUME NEW r \in RomType, Tree(r), WellFormed(r)
    PROVE  Under(r, Root) = Nodes /\ Cardinality(Under(r, Root)) = N
<1> DEFINE S == Nodes \ Under(r, Root)
<1>1. Root \in Nodes /\ \A d \in Nodes : d \in Nat BY RomAssumption DEF Root, Nodes
<1>2. Root \in Under(r, Root) /\ Under(r, Root) \subseteq Nodes /\ Closed(r, Under(r, Root))
    BY <1>1, UnderClosed
<1>3. S = {}
    <2> SUFFICES ASSUME S # {} PROVE FALSE OBVIOUS
    <2>1. PICK m \in S : \A k \in S : m <= k BY LeastNode
    <2>2. m \in 2 .. N /\ m # 0 BY <1>1, <1>2, RomAssumption DEF Nodes, Root
    <2>3. PICK c \in Nodes : \E k \in Slots(r, c) : Slot(r, c, k) = m
        <3>1. CASE \E c \in Nodes : r.next[c] = m
            <4>1. \A c \in Nodes : 0 \in Slots(r, c) /\ Slot(r, c, 0) = r.next[c]
                BY DEF Slots, Slot, RomType
            <4> QED BY <3>1, <4>1
        <3>2. CASE \E c \in Nodes : \E k \in Branches(r, c) : r.blocks[c][k] = m
            <4> PICK c \in Nodes : \E k \in Branches(r, c) : r.blocks[c][k] = m BY <3>2
            <4>1. PICK k \in Branches(r, c) : r.blocks[c][k] = m OBVIOUS
            <4>2. k \in 1 .. Len(r.blocks[c]) /\ Len(r.blocks[c]) \in Nat
                BY <4>1 DEF Branches, RomType
            <4>3. k \in Slots(r, c) /\ k # 0 BY <4>2 DEF Slots
            <4> QED BY <4>1, <4>3 DEF Slot
        <3> QED BY <2>2, <3>1, <3>2 DEF WellFormed
    <2>4. PICK k \in Slots(r, c) : Slot(r, c, k) = m BY <2>3
    <2>5. c < m BY <2>2, <2>4 DEF Tree
    <2>6. c \in Under(r, Root) BY <1>1, <2>1, <2>5
    <2> QED BY <1>2, <2>1, <2>2, <2>4, <2>6 DEF Closed
<1>4. Under(r, Root) = Nodes BY <1>2, <1>3
<1>5. Cardinality(Nodes) = N BY FS_Interval, RomAssumption DEF Nodes
<1> QED BY <1>4, <1>5

-----------------------------------------------------------------------------
(* The order of the list.  Header a comes before b if b is left past none   *)
(* of the blocks of a, or if they hang on two blocks of one header, a on    *)
(* the earlier, or a on a block and b on the next header.                   *)

Precedes(r, a, b) ==
    \/ b \in After(r, a, 0)
    \/ \E d \in Nodes : \E k, l \in Slots(r, d) :
          /\ a \in Under(r, Slot(r, d, k)) /\ b \in Under(r, Slot(r, d, l))
          /\ k # 0 /\ (l = 0 \/ k < l)

LEMMA UnderWithin ==
    ASSUME NEW r \in RomType, NEW s, NEW e \in Under(r, s), s = 0 \/ s \in Nodes
    PROVE  e \in Nodes /\ s \in Nodes /\ Under(r, e) \subseteq Under(r, s)
<1>1. s # 0 /\ e \in Nodes BY DEF Under
<1>2. s \in Nodes BY <1>1
<1> QED BY <1>1, <1>2, UnderClosed

LEMMA SlotZero ==
    ASSUME NEW r \in RomType, NEW d \in Nodes, NEW k \in Slots(r, d)
    PROVE  Slot(r, d, k) = 0 \/ Slot(r, d, k) \in Nodes
BY SlotType

\* A header hangs on one slot of d or is d.
LEMMA WhichSlot ==
    ASSUME NEW r \in RomType, Tree(r), NEW d \in Nodes, NEW e \in Under(r, d), e # d
    PROVE  \E k \in Slots(r, d) : e \in Under(r, Slot(r, d, k))
<1>1. e \in After(r, d, 0) BY Unfold
<1>2. {0} \cup ((0 + 1) .. Len(r.blocks[d])) = Slots(r, d) BY DEF RomType, Slots
<1> QED BY <1>1, <1>2 DEF After

\* Of two headers something hangs on, one hangs on the other.
LEMMA Chain ==
    ASSUME NEW r \in RomType, Tree(r), NEW a \in Nodes, NEW b \in Nodes,
           NEW e \in Under(r, a), e \in Under(r, b)
    PROVE  a \in Under(r, b) \/ b \in Under(r, a)
<1> SUFFICES ASSUME a \notin Under(r, b), b \notin Under(r, a) PROVE FALSE OBVIOUS
<1> DEFINE T == Under(r, a) \ Under(r, b)
<1>1. a \in T /\ T \in SUBSET Nodes BY UnderClosed
<1>2. Closed(r, T)
    <2> SUFFICES ASSUME NEW c \in T, NEW l \in Slots(r, c), Slot(r, c, l) # 0,
                        Slot(r, c, l) \in Under(r, b)
                 PROVE  FALSE
        BY UnderClosed DEF Closed
    <2>1. c \in Nodes BY <1>1
    <2>2. Slot(r, c, l) \in Under(r, a) BY UnderClosed DEF Closed
    <2>3. Slot(r, c, l) # b BY <2>2
    <2>4. PICK k \in Nodes, j \in Nat : /\ k \in Under(r, b) /\ j \in Slots(r, k)
                                        /\ Slot(r, k, j) = Slot(r, c, l)
        BY <2>3, ParentWithin
    <2> QED BY <2>1, <2>4 DEF Tree
<1> HIDE DEF T
<1>3. Under(r, a) \subseteq T BY <1>1, <1>2, UnderClosed
<1> QED BY <1>3 DEF T

LEMMA NotBeforeItself ==
    ASSUME NEW r \in RomType, Tree(r), NEW d \in Nodes, NEW a \in Under(r, d)
    PROVE  ~Precedes(r, a, d)
<1> SUFFICES ASSUME Precedes(r, a, d) PROVE FALSE OBVIOUS
<1>1. a \in Nodes BY UnderClosed
<1>2. CASE d \in After(r, a, 0)
    <2>1. d \in Under(r, a) /\ d # a BY <1>1, <1>2, Unfold
    <2>2. d >= a /\ a >= d BY <1>1, <2>1, UnderLater
    <2> QED BY <1>1, <2>1, <2>2, RomAssumption DEF Nodes
<1>3. CASE d \notin After(r, a, 0)
    <2> PICK e \in Nodes : \E k, l \in Slots(r, e) :
            a \in Under(r, Slot(r, e, k)) /\ d \in Under(r, Slot(r, e, l)) /\ k # 0 /\ (l = 0 \/ k < l)
        BY <1>3 DEF Precedes
<2> PICK k \in Slots(r, e), l \in Slots(r, e) :
            a \in Under(r, Slot(r, e, k)) /\ d \in Under(r, Slot(r, e, l)) /\ k # 0 /\ (l = 0 \/ k < l)
        OBVIOUS
    <2>1. k # l BY DEF Slots, RomType
    <2>2. a \in Under(r, Slot(r, e, l)) BY SlotZero, UnderWithin
    <2> QED BY <2>1, <2>2, SlotsApart
<1> QED BY <1>2, <1>3

\* What is left past a block does not come before what hangs on it.
LEMMA NotBeforeLeft ==
    ASSUME NEW r \in RomType, Tree(r), NEW c \in Nodes, NEW b \in Nat, b < Len(r.blocks[c]),
           NEW d \in Under(r, Slot(r, c, b + 1)), NEW a \in After(r, c, b + 1)
    PROVE  ~Precedes(r, a, d)
<1> SUFFICES ASSUME Precedes(r, a, d) PROVE FALSE OBVIOUS
<1>1. Len(r.blocks[c]) \in Nat BY DEF RomType
<1>2. PICK m \in {0} \cup ((b + 1 + 1) .. Len(r.blocks[c])) : a \in Under(r, Slot(r, c, m))
    BY DEF After
<1>3. m \in Slots(r, c) /\ b + 1 \in Slots(r, c) /\ (m = 0 \/ m > b + 1) /\ m # b + 1
    BY <1>1, <1>2 DEF Slots
<1>4. a \in Nodes /\ d \in Nodes /\ Under(r, a) \subseteq Under(r, Slot(r, c, m))
    BY <1>2, <1>3, SlotZero, UnderWithin
<1>5. d \notin Under(r, Slot(r, c, m)) BY <1>3, SlotsApart
<1>6. d \notin After(r, a, 0) BY <1>4, <1>5, Unfold
<1> PICK e \in Nodes : \E k, l \in Slots(r, e) :
        a \in Under(r, Slot(r, e, k)) /\ d \in Under(r, Slot(r, e, l)) /\ k # 0 /\ (l = 0 \/ k < l)
    BY <1>6 DEF Precedes
<1> PICK k \in Slots(r, e), l \in Slots(r, e) :
        a \in Under(r, Slot(r, e, k)) /\ d \in Under(r, Slot(r, e, l)) /\ k # 0 /\ (l = 0 \/ k < l)
    OBVIOUS
<1>7. k \in Nat /\ l \in Nat /\ k # l BY DEF Slots, RomType
<1>8. /\ a \in Under(r, c) /\ d \in Under(r, c)
      /\ a \in Under(r, e) /\ d \in Under(r, e)
    BY <1>2, <1>3, UnderSlot
<1>9. CASE e = c
    <2>1. k = m BY <1>2, <1>3, <1>9, SlotsApart
    <2>2. l = b + 1 BY <1>3, <1>9, SlotsApart
    <2> QED BY <1>3, <1>7, <2>1, <2>2
<1>10. CASE e # c /\ e \in Under(r, c)
    <2>1. PICK s \in Slots(r, c) : e \in Under(r, Slot(r, c, s)) BY <1>10, WhichSlot
    <2>2. a \in Under(r, Slot(r, c, s)) /\ d \in Under(r, Slot(r, c, s))
        BY <1>8, <2>1, SlotZero, UnderWithin
    <2>3. s = m BY <1>2, <1>3, <2>2, SlotsApart
    <2> QED BY <1>5, <2>2, <2>3
<1>11. CASE e # c /\ c \in Under(r, e)
    <2>1. PICK s \in Slots(r, e) : c \in Under(r, Slot(r, e, s)) BY <1>11, WhichSlot
    <2>2. a \in Under(r, Slot(r, e, s)) /\ d \in Under(r, Slot(r, e, s))
        BY <1>8, <2>1, SlotZero, UnderWithin
    <2>3. s = k BY <2>2, SlotsApart
    <2>4. s = l BY <2>2, SlotsApart
    <2> QED BY <1>7, <2>3, <2>4
<1> QED BY <1>8, <1>9, <1>10, <1>11, Chain

\* Any two headers have an order.
LEMMA OrderTotal ==
    ASSUME NEW r \in RomType, Tree(r), WellFormed(r), NEW a \in Nodes, NEW b \in Nodes, a # b
    PROVE  Precedes(r, a, b) \/ Precedes(r, b, a)
<1> DEFINE Common == {d \in Nodes : a \in Under(r, d) /\ b \in Under(r, d)}
           Mirror == {N + 1 - d : d \in Common}
<1>1. Root \in Common BY AllUnderRoot, RomAssumption DEF Root, Nodes
<1>2. Mirror \in SUBSET Nodes /\ Mirror # {} BY <1>1, RomAssumption DEF Nodes
<1>3. PICK m \in Mirror : \A k \in Mirror : m <= k BY <1>2, LeastNode
<1>4. PICK d \in Common : m = N + 1 - d BY <1>3
<1>5. \A c \in Common : c <= d
    <2> SUFFICES ASSUME NEW c \in Common PROVE c <= d OBVIOUS
    <2>1. N + 1 - d <= N + 1 - c BY <1>3, <1>4
    <2> QED BY <2>1, RomAssumption DEF Nodes
<1> HIDE DEF Mirror
<1>6. d \in Nodes /\ a \in Under(r, d) /\ b \in Under(r, d) BY <1>4
<1>7. CASE a = d
    <2>1. b \in After(r, a, 0) BY <1>6, <1>7, Unfold
    <2> QED BY <2>1 DEF Precedes
<1>8. CASE b = d
    <2>1. a \in After(r, b, 0) BY <1>6, <1>8, Unfold
    <2> QED BY <2>1 DEF Precedes
<1>9. CASE a # d /\ b # d
    <2>1. PICK k \in Slots(r, d) : a \in Under(r, Slot(r, d, k)) BY <1>6, <1>9, WhichSlot
    <2>2. PICK l \in Slots(r, d) : b \in Under(r, Slot(r, d, l)) BY <1>6, <1>9, WhichSlot
    <2>3. k # l
        <3> SUFFICES ASSUME k = l PROVE FALSE OBVIOUS
        <3>1. Slot(r, d, k) # 0 BY <2>1 DEF Under
        <3>2. Slot(r, d, k) \in Nodes BY <1>6, <2>1, <3>1, SlotType
        <3>3. Slot(r, d, k) \in Common BY <2>1, <2>2, <3>2
        <3>4. Slot(r, d, k) > d BY <1>6, <3>1 DEF Tree
        <3> QED BY <1>5, <1>6, <3>2, <3>3, <3>4, RomAssumption DEF Nodes
    <2>4. k \in Nat /\ l \in Nat BY <1>6 DEF Slots, RomType
    <2>5. CASE k # 0 /\ (l = 0 \/ k < l) BY <1>6, <2>1, <2>2, <2>5 DEF Precedes
    <2>6. CASE l # 0 /\ (k = 0 \/ l < k) BY <1>6, <2>1, <2>2, <2>6 DEF Precedes
    <2> QED BY <2>3, <2>4, <2>5, <2>6
<1> QED BY <1>7, <1>8, <1>9

\* The block a caller waits at.
Waiting(i) == Slot(rom, frames[i][1], frames[i][2] + 1)

\* The header at hand, and each caller's, hangs on the blocks its callers wait at.
Nested ==
    /\ \A i \in 1 .. Len(frames) : node \in Under(rom, Waiting(i))
    /\ \A i, j \in 1 .. Len(frames) : i < j => frames[j][1] \in Under(rom, Waiting(i))

InOrder ==
    pass = "collect" /\ phase \in Walking =>
        /\ \A i, j \in 1 .. index + 1 : Precedes(rom, table[i].node, table[j].node) => i < j
        /\ \A a \in ToEnter : \A i \in 1 .. index + 1 : ~Precedes(rom, a, table[i].node)

LEMMA CallerType ==
    ASSUME Inv, NEW i \in 1 .. Len(frames)
    PROVE  /\ frames[i] \in Callers /\ frames[i][1] \in Nodes /\ frames[i][2] \in Nat
           /\ frames[i][2] < Len(rom.blocks[frames[i][1]])
           /\ frames[i][2] + 1 \in Slots(rom, frames[i][1])
<1>1. frames \in Seq(Callers) /\ rom \in RomType BY DEF Inv, WalkType
<1>2. frames[i] \in Callers
    <2> HIDE DEF Callers
    <2> QED BY <1>1
<1>3. frames[i][1] \in Nodes /\ frames[i][2] \in Nat /\ frames[i][2] < Len(rom.blocks[frames[i][1]])
    BY <1>2 DEF Callers, Blocks
<1>4. Len(rom.blocks[frames[i][1]]) \in Nat BY <1>1, <1>3 DEF RomType
<1> QED BY <1>2, <1>3, <1>4 DEF Slots

\* From the header at hand on, the walk stays under the blocks its callers wait at.
LEMMA StaysUnder ==
    ASSUME Inv, NEW i \in 1 .. Len(frames), NEW d \in Nodes, d \in Under(rom, Waiting(i)),
           NEW k \in Slots(rom, d), Slot(rom, d, k) # 0
    PROVE  Slot(rom, d, k) \in Under(rom, Waiting(i))
<1>1. rom \in RomType BY DEF Inv, WalkType
<1>2. Waiting(i) \in Nodes BY <1>1, CallerType, SlotZero, UnderWithin DEF Waiting
<1>3. Closed(rom, Under(rom, Waiting(i))) BY <1>1, <1>2, UnderClosed
<1> QED BY <1>3 DEF Closed

LEMMA NestedStep == IInv /\ Nested /\ [Next]_vars => Nested'
<1> SUFFICES ASSUME IInv, Nested, [Next]_vars PROVE Nested' OBVIOUS
<1>1. Inv /\ Apart /\ rom \in RomType /\ Tree(rom) BY DEF IInv, Apart, Inv, WalkType
<1>2. CASE Scan \/ Turn
    <2>1. frames' = <<>> BY <1>1, <1>2 DEF Scan, Turn, Inv, Balanced
    <2>2. 1 .. Len(frames') = {} BY <2>1
    <2> QED BY <2>2 DEF Nested
<1>3. CASE Branch
    <2> PICK n \in Nat : n = Len(frames) BY <1>1 DEF Inv, WalkType
    <2> PICK child : child = Blocks(node)[block + 1] OBVIOUS
    <2>1. frames' = Append(frames, <<node, block>>) /\ node' = child /\ rom' = rom
        BY <1>3 DEF Branch
    <2>2. node \in Nodes /\ block \in Nat /\ block < Len(rom.blocks[node]) /\ child # 0
          /\ Len(rom.blocks[node]) \in Nat /\ frames \in Seq(Callers)
        BY <1>1, <1>3 DEF Branch, NullBlock, Inv, WalkType, RomType, Blocks, Plain
    <2>3. block + 1 \in Slots(rom, node) /\ Slot(rom, node, block + 1) = child
        BY <2>2 DEF Slots, Slot, Blocks
    <2>4. child \in Nodes /\ child \in Under(rom, child) BY <1>1, <2>2, <2>3, SlotType, UnderClosed
    <2>5. /\ Len(frames') = n + 1 /\ frames'[n + 1] = <<node, block>>
          /\ \A i \in 1 .. n : frames'[i] = frames[i]
        <3>1. <<node, block>> \in Callers BY <2>2 DEF Callers, Blocks
        <3> HIDE DEF Callers
        <3> QED BY <2>1, <2>2, <3>1, AppendProperties
    <2>6. \A i \in 1 .. n : Waiting(i)' = Waiting(i) BY <2>1, <2>5 DEF Waiting
    <2>7. Waiting(n + 1)' = child BY <2>1, <2>3, <2>5 DEF Waiting
    <2>8. \A i \in 1 .. n : child \in Under(rom, Waiting(i))
        BY <1>1, <2>2, <2>3, StaysUnder DEF Nested
    <2>9. \A i \in 1 .. Len(frames') : i \in 1 .. n \/ i = n + 1 BY <2>5
    <2>10. \A i \in 1 .. Len(frames') : node' \in Under(rom', Waiting(i)')
        BY <2>1, <2>4, <2>6, <2>7, <2>8, <2>9
    <2>11. ASSUME NEW i \in 1 .. Len(frames'), NEW j \in 1 .. Len(frames'), i < j
           PROVE  frames'[j][1] \in Under(rom', Waiting(i)')
        <3>1. i \in 1 .. n BY <2>5, <2>11
        <3>2. CASE j \in 1 .. n BY <2>1, <2>5, <2>6, <2>11, <3>1, <3>2 DEF Nested
        <3>3. CASE j = n + 1 BY <2>1, <2>5, <2>6, <3>1, <3>3 DEF Nested
        <3> QED BY <2>9, <3>2, <3>3
    <2> QED BY <2>10, <2>11 DEF Nested
<1>4. CASE EndOfList /\ frames # <<>>
    <2> PICK n \in Nat : n = Len(frames) BY <1>1 DEF Inv, WalkType
    <2>1. rom' = rom /\ node' = frames[n][1] /\ frames' = SubSeq(frames, 1, n - 1)
        BY <1>4 DEF EndOfList
    <2>2. frames \in Seq(Callers) /\ n \in 1 .. n /\ n - 1 \in Nat BY <1>1, <1>4 DEF Inv, WalkType
    <2>3. Len(frames') = n - 1 /\ \A i \in 1 .. n - 1 : frames'[i] = frames[i]
        <3> HIDE DEF Callers
        <3>1. \A i \in 1 .. n - 1 : frames[i] \in Callers BY <2>2
        <3>2. 1 \in Int /\ n - 1 \in Int BY <2>2
        <3>3. /\ Len(frames') = IF 1 <= n - 1 THEN n - 1 - 1 + 1 ELSE 0
              /\ \A i \in 1 .. n - 1 - 1 + 1 : frames'[i] = frames[1 + i - 1]
            BY <2>1, <3>1, <3>2, SubSeqProperties
        <3>4. n - 1 - 1 + 1 = n - 1 /\ \A i \in 1 .. n - 1 : 1 + i - 1 = i BY <2>2
        <3> QED BY <2>2, <3>3, <3>4
    <2>4. \A i \in 1 .. n - 1 : Waiting(i)' = Waiting(i) /\ i \in 1 .. n /\ i < n
        BY <2>1, <2>2, <2>3 DEF Waiting
    <2> QED BY <2>1, <2>2, <2>3, <2>4 DEF Nested
<1>5. CASE NextHeader
    <2>1. rom' = rom /\ frames' = frames /\ node' = rom.next[node] /\ rom.next[node] # 0
        BY <1>5 DEF NextHeader, Eol
    <2>2. node \in Nodes /\ 0 \in Slots(rom, node) /\ Slot(rom, node, 0) = rom.next[node]
        BY <1>1 DEF Inv, WalkType, RomType, Slots, Slot
    <2>3. \A i \in 1 .. Len(frames) : node' \in Under(rom, Waiting(i))
        BY <1>1, <2>1, <2>2, StaysUnder DEF Nested
    <2>4. \A i : Waiting(i)' = Waiting(i) BY <2>1 DEF Waiting
    <2> QED BY <2>1, <2>3, <2>4 DEF Nested
<1>6. CASE UNCHANGED <<rom, node, frames>>
    <2>1. \A i : Waiting(i)' = Waiting(i) BY <1>6 DEF Waiting
    <2> QED BY <1>6, <2>1 DEF Nested
<1>7. UNCHANGED <<rom, node, frames>> \/ Scan \/ Turn \/ Branch \/ NextHeader
      \/ (EndOfList /\ frames # <<>>)
    BY DEF Next, Step, EnterCount, EnterCollect, PlainBlock, NoMoreBlocks,
           EndOfList, Finish, OutOfMemory, Use, Cleanup, Open, Close, InterruptOpen, InterruptClose,
           Set, walk, vars
<1> QED BY <1>2, <1>3, <1>4, <1>5, <1>6, <1>7

\* Nothing still to be entered comes before the header entered now.
LEMMA NotBeforeNode ==
    ASSUME IInv, Nested, phase = "enter", NEW a \in ToEnter
    PROVE  ~Precedes(rom, a, node)
<1>1. Inv /\ Apart /\ rom \in RomType /\ Tree(rom) /\ node \in Nodes BY DEF IInv, Apart, Inv, WalkType
<1>2. CASE a \in Here BY <1>1, <1>2, NotBeforeItself DEF Here
<1>3. CASE a \in Above
    <2> PICK i \in 1 .. Len(frames) : a \in Left(i) BY <1>3 DEF Above
    <2> PICK c \in Nodes, b \in Nat : c = frames[i][1] /\ b = frames[i][2] BY <1>1, CallerType
    <2>1. b < Len(rom.blocks[c]) BY <1>1, CallerType
    <2>2. a \in After(rom, c, b + 1) BY DEF Left
    <2>3. node \in Under(rom, Slot(rom, c, b + 1)) BY DEF Nested, Waiting
    <2> QED BY <1>1, <2>1, <2>2, <2>3, NotBeforeLeft
<1> QED BY <1>2, <1>3 DEF ToEnter

LEMMA OrderCollectStep ==
    ASSUME IInv, Nested, Collected, InOrder, EnterCollect PROVE InOrder'
<1> PICK k \in Nat : k = index + 2 BY PlaceForHeader DEF EnterCollect
<1> PICK d \in Nodes : d = node BY DEF IInv, Inv, WalkType
<1>1. /\ rom' = rom /\ pass = "collect" /\ phase = "enter" /\ index' = index + 1
      /\ table' = [table EXCEPT ![k] = Interface(node)]
    BY DEF EnterCollect, walk
<1>2. Inv /\ Apart /\ index \in Int /\ index >= -1 /\ rom \in RomType /\ Tree(rom)
    BY <1>1 DEF IInv, Inv, WalkType, Agree, Walking, Apart
<1>3. k \in DOMAIN table /\ DOMAIN table = 1 .. Len(table) /\ Len(table) \in Nat
    BY <1>1, PlaceForHeader DEF IInv, TableOK
<1>4. table'[k].node = d /\ \A i \in 1 .. index + 1 : table'[i] = table[i]
    <2>1. Interface(node).node = d BY DEF Interface
    <2>2. \A i \in 1 .. index + 1 : i \in DOMAIN table /\ i # k BY <1>2, <1>3
    <2> QED BY <1>1, <1>3, <2>1, <2>2
<1>5. 1 .. index' + 1 = (1 .. index + 1) \cup {k} /\ \A i \in 1 .. index + 1 : i < k
    BY <1>1, <1>2
<1>6. ToEnter = {d} \cup ToEnter' /\ d \in ToEnter BY <1>2, EnterApart
<1>7. /\ \A i, j \in 1 .. index + 1 : Precedes(rom, table[i].node, table[j].node) => i < j
      /\ \A a \in ToEnter : \A i \in 1 .. index + 1 : ~Precedes(rom, a, table[i].node)
    BY <1>1 DEF InOrder, Walking
<1>8. \A a \in ToEnter : ~Precedes(rom, a, d) BY <1>1, NotBeforeNode
<1>9. \A i \in 1 .. index' + 1 : \A j \in 1 .. index' + 1 :
          Precedes(rom, table'[i].node, table'[j].node) => i < j
    <2> SUFFICES ASSUME NEW i \in 1 .. index' + 1, NEW j \in 1 .. index' + 1,
                        Precedes(rom, table'[i].node, table'[j].node)
                 PROVE  i < j
        OBVIOUS
    <2>1. CASE i = k
        <3>1. ~Precedes(rom, d, table'[j].node)
            <4>1. CASE j = k BY <1>4, <1>6, <1>8, <4>1
            <4>2. CASE j \in 1 .. index + 1 BY <1>4, <1>6, <1>7, <4>2
            <4> QED BY <1>5, <4>1, <4>2
        <3> QED BY <1>4, <2>1, <3>1
    <2>2. CASE i \in 1 .. index + 1 /\ j \in 1 .. index + 1 BY <1>4, <1>7, <2>2
    <2>3. CASE i \in 1 .. index + 1 /\ j = k BY <1>5, <2>3
    <2> QED BY <1>5, <2>1, <2>2, <2>3
<1>10. \A a \in ToEnter' : \A i \in 1 .. index' + 1 : ~Precedes(rom, a, table'[i].node)
    BY <1>4, <1>5, <1>6, <1>7, <1>8
<1> QED BY <1>1, <1>9, <1>10 DEF InOrder

LEMMA OrderStep == IInv /\ Nested /\ Collected /\ InOrder /\ [Next]_vars => InOrder'
<1> SUFFICES ASSUME IInv, Nested, Collected, InOrder, [Next]_vars,
                    pass' = "collect", phase' \in Walking
             PROVE  InOrder'
    BY DEF InOrder
<1>1. CASE EnterCollect BY <1>1, OrderCollectStep
<1>2. CASE Turn
    <2>1. index' = -1 BY <1>2 DEF Turn
    <2>2. 1 .. index' + 1 = {} BY <2>1
    <2> QED BY <2>2 DEF InOrder
<1>3. CASE ~EnterCollect /\ ~Turn
    <2>1. UNCHANGED <<rom, table, index, pass, ToEnter>> /\ phase \in Walking BY <1>3, CollectQuiet
    <2> QED BY <2>1 DEF InOrder
<1> QED BY <1>1, <1>2, <1>3

-----------------------------------------------------------------------------
\* The second pass ends with every header in the table once, as the ROM
\* describes it and not open, and no place of the table is left over.
AllCollected ==
    pass = "collect" /\ phase = "end" =>
        /\ Len(table) = N
        /\ {table[i].node : i \in 1 .. N} = Nodes
        /\ \A i, j \in 1 .. N : table[i].node = table[j].node => i = j
        /\ \A i \in 1 .. N : Described(table[i])

\* Every header collected finds a place in the table counted for it, and a
\* parent on the stack.
NoOverrun ==
    phase = "enter" /\ pass = "collect" => index + 2 \in DOMAIN table /\ top + 1 \in DOMAIN head

\* The stack, what is left of the list, the counts and the table always agree.
THEOREM IInvHolds == Spec => []IInv
<1> QED BY InitIInv, NextIInv, PTL DEF Spec

\* BlocksOwned, for every list and any sequence of scans and clean-ups: what
\* set_parameter_properties() allocated is what the table refers to, and
\* common_fpga_interface_info_vec_resize(0) frees all of it.
THEOREM NothingLeaks == Spec => []BlocksOwned
<1>1. IInv => BlocksOwned BY DEF IInv, TableOK, BlocksOwned, OwnedBy
<1> QED BY <1>1, IInvHolds, PTL

\* The two passes of common_dfl_scan_multi_interfaces() agree: the second one
\* stores into the table only where the first one made room.
THEOREM StoresFit == Spec => []NoOverrun
<1>1. IInv => NoOverrun BY PlaceForHeader DEF NoOverrun
<1> QED BY <1>1, IInvHolds, PTL

\* Everything the second pass keeps.
Full == IInv /\ Nested /\ Collected /\ InOrder /\ WellFormed(rom)

\* The second pass stores what it enters, each header once and in order.
THEOREM FullHolds == Spec => []Full
<1>1. Init => Full
    <2>1. Init => WellFormed(rom) BY DEF Init
    <2>2. Init => Collected /\ InOrder BY DEF Init, Collected, InOrder
    <2>3. Init => Nested
        <3>1. Init => 1 .. Len(frames) = {} BY DEF Init
        <3> QED BY <3>1 DEF Nested
    <2> QED BY <2>1, <2>2, <2>3, InitIInv DEF Full
<1>2. Full /\ [Next]_vars => Full'
    <2>1. [Next]_vars => rom' = rom
        BY DEF Next, Scan, Step, EnterCount, EnterCollect, PlainBlock, Branch, NoMoreBlocks,
           NextHeader, EndOfList, Turn, Finish, OutOfMemory, Use, Cleanup, Open, Close,
           InterruptOpen, InterruptClose, Set, vars
    <2>2. rom' = rom => (WellFormed(rom) => WellFormed(rom)') BY DEF WellFormed, Branches
    <2> QED BY <2>1, <2>2, NextIInv, NestedStep, CollectedStep, OrderStep DEF Full
<1> QED BY <1>1, <1>2, PTL DEF Spec

LEMMA FullAtEnd ==
    ASSUME Full, pass = "collect", phase = "end"
    PROVE  AllCollected /\ index + 1 = N
<1>1. ToEnter = {} /\ Cardinality(ToEnter) = 0 BY NothingLeft DEF Full, IInv
<1>2. Under(rom, Root) = Nodes /\ Headers = N
    BY AllUnderRoot DEF Full, IInv, Inv, WalkType, Apart, Headers
<1>3. index + 1 = N /\ Len(table) = N
    <2>1. index + 1 + 0 = N /\ Len(table) = N /\ index \in Int
        BY <1>1, <1>2 DEF Full, IInv, Inv, WalkType, Agree, Entered, Walking
    <2> QED BY <2>1
<1>4. Stored = Nodes BY <1>1, <1>2 DEF Full, Collected, Walking
<1> QED BY <1>3, <1>4 DEF Full, Collected, Walking, Stored, AllCollected

\* A finished scan has stored every header of the list exactly once.
THEOREM EveryHeaderOnce == Spec => []AllCollected
<1>1. Full => AllCollected BY FullAtEnd DEF AllCollected
<1> QED BY <1>1, FullHolds, PTL

\* A finished scan has stored the headers in the order of the list, the one
\* deal_with_interface_at_current_level() recurs in: here the order is a
\* relation between two headers, TableIsPreorder makes it one sequence.
TableInOrder ==
    pass = "collect" /\ phase = "end" =>
        \A i, j \in 1 .. N : i < j <=> Precedes(rom, table[i].node, table[j].node)

\* The table lists the interfaces as the feature list does, whatever it is.
THEOREM InListOrder == Spec => []TableInOrder
<1>1. Full => TableInOrder
    <2> SUFFICES ASSUME Full, pass = "collect", phase = "end",
                        NEW i \in 1 .. N, NEW j \in 1 .. N
                 PROVE  i < j <=> Precedes(rom, table[i].node, table[j].node)
        BY DEF TableInOrder
    <2>1. /\ {table[k].node : k \in 1 .. N} = Nodes
          /\ \A k, l \in 1 .. N : table[k].node = table[l].node => k = l
          /\ index + 1 = N
        BY FullAtEnd DEF AllCollected
    <2>2. \A k, l \in 1 .. N : Precedes(rom, table[k].node, table[l].node) => k < l
        BY <2>1 DEF Full, InOrder, Walking
    <2>3. ASSUME i < j PROVE Precedes(rom, table[i].node, table[j].node)
        <3>1. i \in Int /\ j \in Int /\ i # j BY <2>3, RomAssumption
        <3>2. table[i].node \in Nodes /\ table[j].node \in Nodes BY <2>1
        <3>3. table[i].node # table[j].node BY <2>1, <3>1
        <3>4. \/ Precedes(rom, table[i].node, table[j].node)
              \/ Precedes(rom, table[j].node, table[i].node)
            BY <3>2, <3>3, OrderTotal DEF Full, IInv, Inv, WalkType, Apart
        <3>5. ~Precedes(rom, table[j].node, table[i].node) BY <2>2, <2>3, <3>1
        <3> QED BY <3>4, <3>5
    <2> QED BY <2>2, <2>3
<1> QED BY <1>1, FullHolds, PTL

-----------------------------------------------------------------------------
(* The order of the list by recursion.  Preorder is written down part by    *)
(* part: what comes of a header past its first blocks.  A part is written   *)
(* from parts of later headers and from a later one of its own header.      *)

Parts == Nodes \X (0 .. MaxBlocks)

List(u, h) == IF h = 0 THEN <<>> ELSE <<h>> \o u[<<h, 0>>]

Part(u, at) ==
    IF at[2] < Len(Blocks(at[1])) THEN List(u, Blocks(at[1])[at[2] + 1]) \o u[<<at[1], at[2] + 1>>]
    ELSE List(u, rom.next[at[1]])

Written == CHOOSE u : u = [at \in Parts |-> Part(u, at)]

LEMMA PreorderIs == Preorder = <<Root>> \o Written[<<Root, 0>>]
BY DEF Preorder, Written, Parts, Part, List

\* The walk goes from parts of high rank to parts of low rank.
Rank == [at \in Parts |-> (N - at[1]) * (MaxBlocks + 1) + (MaxBlocks - at[2])]
TopRank == N * (MaxBlocks + 1)

LEMMA Multiples ==
    ASSUME NEW s \in Nat, NEW q \in Nat, NEW c \in Nat, q < c
    PROVE  q * s + s <= c * s /\ q * s \in Nat /\ c * s \in Nat
BY SMT

LEMMA Ranks ==
    /\ TopRank \in Nat /\ Rank \in [Parts -> 0 .. TopRank] /\ Rank \in [Parts -> Nat]
    /\ \A d \in Nodes : \A k \in 0 .. MaxBlocks : <<d, k>> \in Parts
    /\ \A d \in Nodes : \A e \in Nodes : \A k, j \in 0 .. MaxBlocks :
          d < e \/ (d = e /\ k < j) => Rank[<<e, j>>] < Rank[<<d, k>>]
<1> DEFINE B == MaxBlocks + 1
<1>1. B \in Nat /\ MaxBlocks \in Nat /\ N \in Nat /\ B = MaxBlocks + 1 BY RomAssumption
<1>2. \A d \in Nodes : d \in Nat /\ N - d \in Nat /\ N - d < N BY <1>1 DEF Nodes
<1>3. TopRank = N * B /\ TopRank \in Nat BY <1>1, SMT DEF TopRank
<1>4. \A d \in Nodes : \A k \in 0 .. MaxBlocks :
          <<d, k>> \in Parts /\ Rank[<<d, k>>] = (N - d) * B + (MaxBlocks - k)
    BY DEF Parts, Rank
<1>5. ASSUME NEW d \in Nodes, NEW k \in 0 .. MaxBlocks PROVE Rank[<<d, k>>] \in 0 .. TopRank
    <2> PICK q \in Nat : q = N - d /\ q < N BY <1>2
    <2> HIDE DEF B
    <2>1. q * B + B <= N * B /\ q * B \in Nat /\ N * B \in Nat BY <1>1, Multiples
    <2>2. MaxBlocks - k \in 0 .. MaxBlocks BY <1>1
    <2>3. Rank[<<d, k>>] = q * B + (MaxBlocks - k) BY <1>4
    <2> QED BY <1>1, <1>3, <2>1, <2>2, <2>3
<1>6. ASSUME NEW d \in Nodes, NEW e \in Nodes, NEW k \in 0 .. MaxBlocks, NEW j \in 0 .. MaxBlocks,
             d < e \/ (d = e /\ k < j)
      PROVE  Rank[<<e, j>>] < Rank[<<d, k>>]
    <2> PICK q \in Nat : q = N - d BY <1>2
    <2> PICK p \in Nat : p = N - e BY <1>2
    <2> HIDE DEF B
    <2>1. Rank[<<d, k>>] = q * B + (MaxBlocks - k) /\ Rank[<<e, j>>] = p * B + (MaxBlocks - j) BY <1>4
    <2>2. CASE d < e
        <3>1. p < q BY <1>1, <1>2, <2>2
        <3>2. p * B + B <= q * B /\ p * B \in Nat /\ q * B \in Nat BY <1>1, <3>1, Multiples
        <3> QED BY <1>1, <2>1, <3>2
    <2>3. CASE d = e /\ k < j
        <3>1. p = q BY <2>3
        <3>2. q * B \in Nat BY <1>1, SMT
        <3> QED BY <1>1, <2>1, <2>3, <3>1, <3>2
    <2> QED BY <1>6, <2>2, <2>3
<1>7. Rank \in [Parts -> 0 .. TopRank]
    <2>1. \A at \in Parts : at = <<at[1], at[2]>> /\ at[1] \in Nodes /\ at[2] \in 0 .. MaxBlocks
        BY DEF Parts
    <2>2. Rank = [at \in Parts |-> Rank[at]] BY DEF Rank
    <2> HIDE DEF Rank, Parts
    <2> QED BY <1>5, <2>1, <2>2
<1>8. 0 .. TopRank \subseteq Nat BY <1>3
<1> QED BY <1>3, <1>4, <1>6, <1>7, <1>8

Short(r) == \A d \in Nodes : Len(r.blocks[d]) <= MaxBlocks

LEMMA RomsAreShort == \A r \in Roms : Short(r)
<1> SUFFICES ASSUME NEW way \in Ways, NEW length \in [Nodes -> 0 .. MaxBlocks],
                    NEW ending \in {"null", "data"}
             PROVE  Short(Rom(way, length, ending))
    BY DEF Roms
<1>1. \A d \in Nodes : Rom(way, length, ending).blocks[d] = [k \in 1 .. length[d] |-> Behind(way, d, k)]
    BY DEF Rom
<1>2. \A d \in Nodes : length[d] \in Nat /\ length[d] <= MaxBlocks BY RomAssumption
<1>3. ASSUME NEW d \in Nodes PROVE Len(Rom(way, length, ending).blocks[d]) <= MaxBlocks
    <2> DEFINE b(k) == Behind(way, d, k)
               s == [k \in 1 .. length[d] |-> b(k)]
    <2>1. s \in Seq({b(k) : k \in 1 .. length[d]}) /\ Len(s) = length[d]
        <3> HIDE DEF b
        <3>1. DOMAIN s = 1 .. length[d] /\ s \in [1 .. length[d] -> {b(k) : k \in 1 .. length[d]}] OBVIOUS
        <3>2. s \in Seq({b(k) : k \in 1 .. length[d]}) BY <1>2, <3>1
        <3> HIDE DEF s
        <3> QED BY <1>2, <3>1, <3>2
    <2> HIDE DEF s
    <2>2. Rom(way, length, ending).blocks[d] = s BY <1>1 DEF s
    <2> QED BY <1>2, <2>1, <2>2
<1> QED BY <1>3 DEF Short

\* What a walk of the scan goes through.
Walkable == rom \in RomType /\ Tree(rom) /\ Short(rom)

\* Where the parts of a part lie.
LEMMA PartOf ==
    ASSUME Walkable, NEW d \in Nodes, NEW k \in 0 .. MaxBlocks
    PROVE  /\ Len(Blocks(d)) \in 0 .. MaxBlocks /\ k \in Nat
           /\ k < Len(Blocks(d)) =>
                 /\ k + 1 \in 0 .. MaxBlocks /\ k + 1 \in Slots(rom, d)
                 /\ Slot(rom, d, k + 1) = Blocks(d)[k + 1]
                 /\ Blocks(d)[k + 1] # 0 => Blocks(d)[k + 1] \in Nodes /\ Blocks(d)[k + 1] > d
           /\ Slot(rom, d, 0) = rom.next[d] /\ 0 \in Slots(rom, d)
           /\ rom.next[d] # 0 => rom.next[d] \in Nodes /\ rom.next[d] > d
<1>1. Len(rom.blocks[d]) \in Nat /\ MaxBlocks \in Nat /\ Len(rom.blocks[d]) <= MaxBlocks
    BY RomAssumption DEF Walkable, RomType, Short
<1>2. 0 \in Slots(rom, d) /\ Slot(rom, d, 0) = rom.next[d] BY <1>1 DEF Slots, Slot
<1>3. \A s \in Slots(rom, d) : Slot(rom, d, s) # 0 => Slot(rom, d, s) \in Nodes /\ Slot(rom, d, s) > d
    BY SlotType DEF Walkable, Tree
<1>4. ASSUME k < Len(rom.blocks[d])
      PROVE  /\ k + 1 \in 0 .. MaxBlocks /\ k + 1 \in Slots(rom, d)
             /\ Slot(rom, d, k + 1) = rom.blocks[d][k + 1]
    BY <1>1, <1>4 DEF Slots, Slot
<1> QED BY <1>1, <1>2, <1>3, <1>4 DEF Blocks

\* What is written from sequences of headers is one.
LEMMA PartType ==
    ASSUME Walkable, NEW at \in Parts, NEW u,
           \A h \in Nodes : h > at[1] => u[<<h, 0>>] \in Seq(Nodes),
           at[2] < Len(Blocks(at[1])) => u[<<at[1], at[2] + 1>>] \in Seq(Nodes)
    PROVE  Part(u, at) \in Seq(Nodes)
<1> PICK d \in Nodes, k \in 0 .. MaxBlocks : d = at[1] /\ k = at[2] BY DEF Parts
<1>1. \A h \in Nodes : h > d => List(u, h) \in Seq(Nodes)
    <2> SUFFICES ASSUME NEW h \in Nodes, h > d PROVE <<h>> \o u[<<h, 0>>] \in Seq(Nodes)
        <3>1. <<>> \in Seq(Nodes) OBVIOUS
        <3> QED BY <3>1 DEF List
    <2>1. <<h>> \in Seq(Nodes) /\ u[<<h, 0>>] \in Seq(Nodes) OBVIOUS
    <2> QED BY <2>1, ConcatProperties
<1>2. List(u, 0) \in Seq(Nodes) BY DEF List
<1>3. CASE k < Len(Blocks(d))
    <2>1. List(u, Blocks(d)[k + 1]) \in Seq(Nodes) BY <1>1, <1>2, <1>3, PartOf
    <2>2. u[<<d, k + 1>>] \in Seq(Nodes) BY <1>3
    <2> HIDE DEF List
    <2>3. List(u, Blocks(d)[k + 1]) \o u[<<d, k + 1>>] \in Seq(Nodes) BY <2>1, <2>2, ConcatProperties
    <2> QED BY <1>3, <2>3 DEF Part
<1>4. CASE ~(k < Len(Blocks(d)))
    <2>1. List(u, rom.next[d]) \in Seq(Nodes) BY <1>1, <1>2, PartOf
    <2> QED BY <1>4, <2>1 DEF Part
<1> QED BY <1>3, <1>4

LEMMA WrittenIs ==
    ASSUME Walkable
    PROVE  Written = [at \in Parts |-> Part(Written, at)]
<1> DEFINE F == [Parts -> Seq(Nodes)]
           G == [u \in F |-> [at \in Parts |-> Part(u, at)]]
<1>1. \A at \in Parts : /\ at[1] \in Nodes /\ at[2] \in 0 .. MaxBlocks /\ at = <<at[1], at[2]>>
    BY DEF Parts
<1>2. G \in [F -> F]
    <2> SUFFICES ASSUME NEW u \in F, NEW at \in Parts PROVE Part(u, at) \in Seq(Nodes) OBVIOUS
    <2>1. \A h \in Nodes : <<h, 0>> \in Parts BY Ranks, RomAssumption
    <2>2. at[2] < Len(Blocks(at[1])) => <<at[1], at[2] + 1>> \in Parts BY <1>1, Ranks, PartOf
    <2> QED BY <2>1, <2>2, PartType
<1>3. ASSUME NEW u \in F, NEW v \in F, NEW at \in Parts,
             \A by \in Parts : Rank[by] < Rank[at] => u[by] = v[by]
      PROVE  G[u][at] = G[v][at]
    <2> PICK d \in Nodes, k \in 0 .. MaxBlocks : d = at[1] /\ k = at[2] /\ at = <<d, k>> BY <1>1
    <2>1. \A h \in Nodes : h > d => u[<<h, 0>>] = v[<<h, 0>>]
        <3> SUFFICES ASSUME NEW h \in Nodes, h > d PROVE u[<<h, 0>>] = v[<<h, 0>>] OBVIOUS
        <3>1. 0 \in 0 .. MaxBlocks /\ d < h BY RomAssumption DEF Nodes
        <3>2. <<h, 0>> \in Parts /\ Rank[<<h, 0>>] < Rank[<<d, k>>] BY <3>1, Ranks
        <3> QED BY <1>3, <3>2
    <2>2. k < Len(Blocks(d)) => u[<<d, k + 1>>] = v[<<d, k + 1>>]
        <3> SUFFICES ASSUME k < Len(Blocks(d)) PROVE u[<<d, k + 1>>] = v[<<d, k + 1>>] OBVIOUS
        <3>1. k + 1 \in 0 .. MaxBlocks /\ k < k + 1 BY PartOf
        <3>2. <<d, k + 1>> \in Parts /\ Rank[<<d, k + 1>>] < Rank[<<d, k>>] BY <3>1, Ranks
        <3> QED BY <1>3, <3>2
    <2>3. \A h \in Nodes : h > d => List(u, h) = List(v, h) BY <2>1 DEF List
    <2>4. List(u, 0) = List(v, 0) BY DEF List
    <2>5. k < Len(Blocks(d)) => List(u, Blocks(d)[k + 1]) = List(v, Blocks(d)[k + 1])
        BY <2>3, <2>4, PartOf
    <2>6. List(u, rom.next[d]) = List(v, rom.next[d]) BY <2>3, <2>4, PartOf
    <2>7. Part(u, at) = Part(v, at) BY <2>2, <2>5, <2>6 DEF Part
    <2> QED BY <2>7
<1>4. Seq(Nodes) # {} BY EmptySeq
<1> DEFINE V == Seq(Nodes)
<1>5. \E u \in F : G[u] = u
    <2>1. G \in [[Parts -> V] -> [Parts -> V]] BY <1>2
    <2>2. \A u, v \in [Parts -> V] : \A at \in Parts :
              (\A by \in Parts : Rank[by] < Rank[at] => u[by] = v[by]) => G[u][at] = G[v][at]
        BY <1>3
    <2>3. V # {} BY <1>4
    <2>4. TopRank \in Nat /\ Rank \in [Parts -> 0 .. TopRank] BY Ranks
    <2> HIDE DEF G, V
    <2>5. Graded(G, Parts, V, Rank, TopRank) BY <2>1, <2>2, <2>3, <2>4 DEF Graded
    <2>6. \E u \in [Parts -> V] : G[u] = u BY <2>5, Fixpoint
    <2> QED BY <2>6 DEF V
<1>6. PICK u : u = [at \in Parts |-> Part(u, at)] BY <1>5
<1> QED BY <1>6 DEF Written

\* s lists the headers of T, each after those it comes behind.
Ordered(s, T) ==
    /\ s \in Seq(Nodes) /\ {s[i] : i \in 1 .. Len(s)} = T
    /\ \A i, j \in 1 .. Len(s) : i < j => Precedes(rom, s[i], s[j])

LEMMA OrderedShort ==
    /\ Ordered(<<>>, {})
    /\ \A h \in Nodes : Ordered(<<h>>, {h})
<1>1. <<>> \in Seq(Nodes) /\ Len(<<>>) = 0 /\ 1 .. 0 = {} OBVIOUS
<1>2. Ordered(<<>>, {}) BY <1>1 DEF Ordered
<1>3. ASSUME NEW h \in Nodes PROVE Ordered(<<h>>, {h})
    <2> DEFINE s == <<h>>
    <2>1. s \in Seq(Nodes) /\ Len(s) = 1 /\ s[1] = h OBVIOUS
    <2>2. 1 .. Len(s) = {1} BY <2>1
    <2> HIDE DEF s
    <2>3. {s[i] : i \in 1 .. Len(s)} = {h} BY <2>1, <2>2
    <2>4. \A i, j \in {1} : ~(i < j) OBVIOUS
    <2>5. Ordered(s, {h}) BY <2>1, <2>2, <2>3, <2>4 DEF Ordered
    <2> QED BY <2>5 DEF s
<1> QED BY <1>2, <1>3

LEMMA OrderedConcat ==
    ASSUME NEW s, NEW t, NEW S, NEW T, Ordered(s, S), Ordered(t, T),
           \A a \in S : \A b \in T : Precedes(rom, a, b)
    PROVE  Ordered(s \o t, S \cup T)
<1>1. s \in Seq(Nodes) /\ t \in Seq(Nodes) BY DEF Ordered
<1> DEFINE u == s \o t
<1>2. u \in Seq(Nodes) /\ Len(u) = Len(s) + Len(t) /\ Len(s) \in Nat /\ Len(t) \in Nat
    BY <1>1, ConcatProperties
<1>3. \A i \in 1 .. Len(u) : u[i] = IF i <= Len(s) THEN s[i] ELSE t[i - Len(s)]
    BY <1>1, ConcatProperties
<1> HIDE DEF u
<1>4. \A i \in 1 .. Len(s) : i \in 1 .. Len(u) /\ u[i] = s[i] BY <1>2, <1>3
<1>5. \A i \in 1 .. Len(t) : Len(s) + i \in 1 .. Len(u) /\ u[Len(s) + i] = t[i]
    <2> SUFFICES ASSUME NEW i \in 1 .. Len(t)
                 PROVE  Len(s) + i \in 1 .. Len(u) /\ u[Len(s) + i] = t[i]
        OBVIOUS
    <2>1. /\ Len(s) + i \in 1 .. Len(u) /\ ~(Len(s) + i <= Len(s)) /\ (Len(s) + i) - Len(s) = i
        BY <1>2
    <2> QED BY <1>3, <2>1
<1>6. \A i \in 1 .. Len(u) : \/ i \in 1 .. Len(s) /\ u[i] = s[i]
                             \/ i > Len(s) /\ i - Len(s) \in 1 .. Len(t) /\ u[i] = t[i - Len(s)]
    <2> SUFFICES ASSUME NEW i \in 1 .. Len(u), ~(i <= Len(s))
                 PROVE  i > Len(s) /\ i - Len(s) \in 1 .. Len(t)
        BY <1>2, <1>3
    <2> QED BY <1>2
<1>7. {u[i] : i \in 1 .. Len(u)} = S \cup T
    <2>1. S = {s[i] : i \in 1 .. Len(s)} /\ T = {t[i] : i \in 1 .. Len(t)} BY DEF Ordered
    <2>2. \A x \in S \cup T : x \in {u[i] : i \in 1 .. Len(u)} BY <1>4, <1>5, <2>1
    <2>3. \A i \in 1 .. Len(u) : u[i] \in S \cup T BY <1>6, <2>1
    <2> QED BY <2>2, <2>3
<1>8. ASSUME NEW i \in 1 .. Len(u), NEW j \in 1 .. Len(u), i < j PROVE Precedes(rom, u[i], u[j])
    <2>1. \A k, l \in 1 .. Len(s) : k < l => Precedes(rom, s[k], s[l]) BY DEF Ordered
    <2>2. \A k, l \in 1 .. Len(t) : k < l => Precedes(rom, t[k], t[l]) BY DEF Ordered
    <2>3. (\A k \in 1 .. Len(s) : s[k] \in S) /\ \A k \in 1 .. Len(t) : t[k] \in T BY DEF Ordered
    <2>4. CASE j \in 1 .. Len(s) /\ u[j] = s[j]
        <3>1. i \in 1 .. Len(s) BY <1>2, <1>8, <2>4
        <3>2. u[i] = s[i] BY <1>4, <3>1
        <3> QED BY <1>8, <2>1, <2>4, <3>1, <3>2
    <2>5. CASE j > Len(s) /\ j - Len(s) \in 1 .. Len(t) /\ u[j] = t[j - Len(s)]
        <3>1. CASE i \in 1 .. Len(s) /\ u[i] = s[i] BY <2>3, <2>5, <3>1
        <3>2. CASE i > Len(s) /\ i - Len(s) \in 1 .. Len(t) /\ u[i] = t[i - Len(s)]
            <4>1. i - Len(s) < j - Len(s) BY <1>2, <1>8
            <4> QED BY <2>2, <2>5, <3>2, <4>1
        <3> QED BY <1>6, <3>1, <3>2
    <2> QED BY <1>6, <2>4, <2>5
<1>9. Ordered(u, S \cup T) BY <1>2, <1>7, <1>8 DEF Ordered
<1> QED BY <1>9 DEF u

\* The part of the list written for a place is what the walk has left there.
LEMMA WrittenOrdered ==
    ASSUME Walkable, NEW d \in Nodes, NEW k \in 0 .. MaxBlocks, k <= Len(Blocks(d))
    PROVE  Ordered(Written[<<d, k>>], After(rom, d, k))
<1> DEFINE Good(at) == at[2] <= Len(Blocks(at[1])) =>
                           Ordered(Written[at], After(rom, at[1], at[2]))
           Bad == {at \in Parts : ~Good(at)}
<1>1. Bad = {}
    <2> SUFFICES ASSUME Bad # {} PROVE FALSE OBVIOUS
    <2>1. PICK at \in Bad : \A by \in Parts : Rank[by] < Rank[at] => by \notin Bad
        <3>1. Bad \in SUBSET Parts OBVIOUS
        <3> HIDE DEF Bad
        <3> QED BY <3>1, Ranks, LeastRank
    <2> PICK c \in Nodes, b \in 0 .. MaxBlocks : at = <<c, b>> /\ at \in Parts BY DEF Parts
    <2>2. b <= Len(Blocks(c)) /\ ~Ordered(Written[<<c, b>>], After(rom, c, b)) OBVIOUS
    <2>3. \A by \in Parts : Rank[by] < Rank[<<c, b>>] => Good(by) BY <2>1
    <2>4. Written[<<c, b>>] = Part(Written, <<c, b>>) BY WrittenIs
    <2> HIDE DEF Good, Bad
    <2>5. ASSUME NEW h \in Nodes, h > c PROVE Ordered(List(Written, h), Under(rom, h))
        <3>1. 0 \in 0 .. MaxBlocks /\ c < h /\ h # 0 BY <2>5, RomAssumption DEF Nodes
        <3>2. Good(<<h, 0>>) BY <2>3, <3>1, Ranks
        <3>3. 0 <= Len(Blocks(h)) BY <3>1, PartOf
        <3>4. Ordered(Written[<<h, 0>>], After(rom, h, 0)) BY <3>2, <3>3 DEF Good
        <3>5. Under(rom, h) = {h} \cup After(rom, h, 0) BY Unfold DEF Walkable
        <3>6. \A a \in {h} : \A e \in After(rom, h, 0) : Precedes(rom, a, e) BY DEF Precedes
        <3>7. Ordered(<<h>>, {h}) BY OrderedShort
        <3>8. Ordered(<<h>> \o Written[<<h, 0>>], {h} \cup After(rom, h, 0))
            BY <3>4, <3>6, <3>7, OrderedConcat
        <3> QED BY <3>1, <3>5, <3>8 DEF List
    <2>6. Ordered(List(Written, 0), Under(rom, 0))
        <3>1. Under(rom, 0) = {} BY DEF Under
        <3> QED BY <3>1, OrderedShort DEF List
    <2>7. CASE b < Len(Blocks(c))
        <3>1. /\ b + 1 \in 0 .. MaxBlocks /\ b + 1 \in Slots(rom, c) /\ b \in Nat
              /\ Slot(rom, c, b + 1) = Blocks(c)[b + 1]
              /\ Blocks(c)[b + 1] # 0 => Blocks(c)[b + 1] \in Nodes /\ Blocks(c)[b + 1] > c
              /\ Len(Blocks(c)) \in Nat
            BY <2>7, PartOf
        <3>2. b < b + 1 /\ b + 1 <= Len(Blocks(c)) BY <2>7, <3>1
        <3>3. Good(<<c, b + 1>>) BY <2>3, <3>1, <3>2, Ranks
        <3>4. Ordered(Written[<<c, b + 1>>], After(rom, c, b + 1)) BY <3>2, <3>3 DEF Good
        <3>5. Ordered(List(Written, Blocks(c)[b + 1]), Under(rom, Blocks(c)[b + 1]))
            BY <2>5, <2>6, <3>1
        <3>6. After(rom, c, b) = Under(rom, Blocks(c)[b + 1]) \cup After(rom, c, b + 1)
            BY <2>7, <3>1, Skip DEF Walkable, Blocks
        <3>7. ASSUME NEW a \in Under(rom, Blocks(c)[b + 1]), NEW e \in After(rom, c, b + 1)
              PROVE  Precedes(rom, a, e)
            <4>1. PICK l \in {0} \cup ((b + 1 + 1) .. Len(rom.blocks[c])) : e \in Under(rom, Slot(rom, c, l))
                BY <3>7 DEF After
            <4>2. l \in Slots(rom, c) /\ (l = 0 \/ b + 1 < l) BY <3>1 DEF Slots, Blocks
            <4>3. b + 1 # 0 BY <3>1
            <4> QED BY <3>1, <4>1, <4>2, <4>3 DEF Precedes
        <3>8. Ordered(List(Written, Blocks(c)[b + 1]) \o Written[<<c, b + 1>>], After(rom, c, b))
            BY <3>4, <3>5, <3>6, <3>7, OrderedConcat
        <3> QED BY <2>2, <2>4, <2>7, <3>8 DEF Part
    <2>8. CASE ~(b < Len(Blocks(c)))
        <3>1. Len(Blocks(c)) \in Nat /\ b \in Nat BY PartOf
        <3>2. b = Len(Blocks(c)) BY <2>2, <2>8, <3>1
        <3>3. After(rom, c, b) = Under(rom, rom.next[c]) BY <3>2, LastSkip DEF Walkable, Blocks
        <3>4. Ordered(List(Written, rom.next[c]), Under(rom, rom.next[c])) BY <2>5, <2>6, PartOf
        <3> QED BY <2>2, <2>4, <2>8, <3>3, <3>4 DEF Part
    <2> QED BY <2>7, <2>8
<1>2. <<d, k>> \in Parts BY Ranks
<1>3. Good(<<d, k>>) BY <1>1, <1>2
<1> QED BY <1>3

\* Preorder lists every header once.
LEMMA PreorderLists ==
    ASSUME Walkable, WellFormed(rom)
    PROVE  /\ Preorder \in Seq(Nodes) /\ Len(Preorder) = N
           /\ \A d \in Nodes : \E i \in 1 .. N : Preorder[i] = d
           /\ \A i, j \in 1 .. N : i < j => Precedes(rom, Preorder[i], Preorder[j])
           /\ \A i, j \in 1 .. N : Preorder[i] = Preorder[j] => i = j
<1> DEFINE p == Preorder
           n == Len(p)
<1>1. Ordered(p, Nodes)
    <2>1. Root \in Nodes /\ 0 \in 0 .. MaxBlocks BY RomAssumption DEF Root, Nodes
    <2>2. 0 <= Len(Blocks(Root)) BY <2>1, PartOf
    <2>3. Ordered(Written[<<Root, 0>>], After(rom, Root, 0)) BY <2>1, <2>2, WrittenOrdered
    <2>4. Ordered(<<Root>>, {Root}) BY <2>1, OrderedShort
    <2>5. \A a \in {Root} : \A e \in After(rom, Root, 0) : Precedes(rom, a, e) BY DEF Precedes
    <2>6. Ordered(<<Root>> \o Written[<<Root, 0>>], {Root} \cup After(rom, Root, 0))
        BY <2>3, <2>4, <2>5, OrderedConcat
    <2>7. Under(rom, Root) = {Root} \cup After(rom, Root, 0) BY <2>1, Unfold DEF Walkable
    <2>8. Under(rom, Root) = Nodes BY AllUnderRoot DEF Walkable
    <2> QED BY <2>6, <2>7, <2>8, PreorderIs
<1> HIDE DEF p
<1>2. /\ p \in Seq(Nodes) /\ n \in Nat /\ Nodes = {p[i] : i \in 1 .. n}
      /\ \A i, j \in 1 .. n : i < j => Precedes(rom, p[i], p[j])
    BY <1>1 DEF Ordered
<1>3. ASSUME NEW i \in 1 .. n, NEW j \in 1 .. n, p[i] = p[j] PROVE i = j
    <2>1. p[i] \in Nodes BY <1>2
    <2>2. p[i] \in Under(rom, p[i]) BY <2>1, UnderClosed DEF Walkable
    <2>3. ~Precedes(rom, p[i], p[i]) BY <2>1, <2>2, NotBeforeItself DEF Walkable
    <2>4. ~(i < j) /\ ~(j < i) BY <1>2, <1>3, <2>3
    <2> QED BY <1>2, <2>4
<1>4. n = N
    <2> DEFINE f == [i \in 1 .. n |-> p[i]]
    <2>1. f \in Bijection(1 .. n, Nodes)
        <3>1. f \in [1 .. n -> Nodes] BY <1>2
        <3>2. \A i, j \in 1 .. n : f[i] = f[j] => i = j BY <1>3
        <3>3. \A d \in Nodes : \E i \in 1 .. n : f[i] = d BY <1>2
        <3>4. DOMAIN f = 1 .. n OBVIOUS
        <3> HIDE DEF f, n
        <3>5. f \in Injection(1 .. n, Nodes) BY <3>1, <3>2, <3>4 DEF Injection, IsInjective
        <3>6. f \in Surjection(1 .. n, Nodes) BY <3>1, <3>3 DEF Surjection
        <3> QED BY <3>5, <3>6 DEF Bijection
    <2>2. IsFiniteSet(1 .. n) /\ Cardinality(1 .. n) = n
        <3>1. n \in Nat BY <1>2
        <3> HIDE DEF f, n
        <3> QED BY <3>1, FS_Interval
    <2>3. Cardinality(Nodes) = N BY FS_Interval, RomAssumption DEF Nodes
    <2>4. ExistsBijection(1 .. n, Nodes) BY <2>1 DEF ExistsBijection
    <2>5. Cardinality(1 .. n) = Cardinality(Nodes) BY <2>2, <2>4, FS_Bijection
    <2> QED BY <2>2, <2>3, <2>5
<1>5. \A d \in Nodes : \E i \in 1 .. N : p[i] = d BY <1>2, <1>4
<1> QED BY <1>2, <1>3, <1>4, <1>5 DEF p

LEMMA RomStays == [Next]_vars => rom' = rom
BY DEF Next, Scan, Step, EnterCount, EnterCollect, PlainBlock, Branch, NoMoreBlocks,
   NextHeader, EndOfList, Turn, Finish, OutOfMemory, Use, Cleanup, Open, Close,
   InterruptOpen, InterruptClose, Set, vars

Whole == Full /\ Short(rom)

LEMMA WholeHolds == Spec => []Whole
<1>1. Init => Short(rom) BY RomsAreShort DEF Init
<1>2. Short(rom) /\ [Next]_vars => Short(rom)'
    <2>1. rom' = rom => (Short(rom) => Short(rom)') BY DEF Short
    <2> QED BY <2>1, RomStays
<1>3. Spec => []Short(rom) BY <1>1, <1>2, PTL DEF Spec
<1> QED BY <1>3, FullHolds, PTL DEF Whole

LEMMA WholeWalkable == Whole => Walkable /\ WellFormed(rom) /\ Under(rom, Root) = Nodes
<1>1. Whole => Walkable /\ WellFormed(rom)
    BY DEF Whole, Full, Walkable, IInv, Inv, WalkType, Apart
<1> QED BY <1>1, AllUnderRoot DEF Walkable

\* The second pass has collected the beginning of the list: a header that comes
\* before one collected has been collected, and before it.
LEMMA Positions ==
    ASSUME Whole, pass = "collect", phase \in Walking
    PROVE  /\ index + 1 \in 0 .. N
           /\ \A i \in 1 .. index + 1 : i \in 1 .. N /\ table[i].node = Preorder[i]
<1>1. Walkable /\ WellFormed(rom) /\ Under(rom, Root) = Nodes BY WholeWalkable
<1>2. /\ \A i \in 1 .. N : Preorder[i] \in Nodes
      /\ \A d \in Nodes : \E i \in 1 .. N : Preorder[i] = d
      /\ \A i, j \in 1 .. N : i < j => Precedes(rom, Preorder[i], Preorder[j])
      /\ \A i, j \in 1 .. N : Preorder[i] = Preorder[j] => i = j
    <2>1. Preorder \in Seq(Nodes) /\ Len(Preorder) = N BY <1>1, PreorderLists
    <2>2. \A i \in 1 .. N : Preorder[i] \in Nodes BY <2>1, ElementOfSeq
    <2> QED BY <1>1, <2>2, PreorderLists
<1> PICK p : p = Preorder OBVIOUS
<1>3. index + 1 \in 0 .. N /\ N \in Nat
    <2>1. /\ index + 1 + Cardinality(ToEnter) = Headers /\ index >= -1 /\ index \in Int
        BY DEF Whole, Full, IInv, Inv, WalkType, Agree, Entered
    <2>2. Cardinality(ToEnter) \in Nat BY ToEnterFinite
    <2>3. Headers = N BY <1>1, AllUnderRoot DEF Headers, Walkable
    <2> QED BY <2>1, <2>2, <2>3, RomAssumption
<1>4. \A i \in 1 .. index + 1 : i \in 1 .. N BY <1>3
<1>5. /\ \A i \in 1 .. index + 1 : table[i].node \in Nodes
      /\ \A i, j \in 1 .. index + 1 : table[i].node = table[j].node => i = j
      /\ \A d \in Nodes : d \in ToEnter \/ \E i \in 1 .. index + 1 : table[i].node = d
    BY <1>1 DEF Whole, Full, Collected, Stored
<1>6. /\ \A i, j \in 1 .. index + 1 : Precedes(rom, table[i].node, table[j].node) => i < j
      /\ \A a \in ToEnter : \A i \in 1 .. index + 1 : ~Precedes(rom, a, table[i].node)
    BY DEF Whole, Full, InOrder
<1> DEFINE Bad == {i \in 1 .. index + 1 : table[i].node # p[i]}
<1>7. Bad = {}
    <2> SUFFICES ASSUME Bad # {} PROVE FALSE OBVIOUS
    <2>1. Bad \in SUBSET Nat BY <1>3
    <2>2. PICK i \in Bad : \A j \in Bad : i <= j BY <2>1, LeastNat
    <2>3. i \in 1 .. index + 1 /\ table[i].node # p[i] /\ i \in 1 .. N /\ i \in Nat BY <1>3, <1>4
    <2>4. ASSUME NEW j \in 1 .. index + 1, j < i PROVE table[j].node = p[j]
        <3>1. j \in Nat /\ ~(i <= j) BY <1>3, <2>3, <2>4
        <3> QED BY <2>2, <3>1
    <2> HIDE DEF Bad
    <2>5. PICK m \in 1 .. N : p[m] = table[i].node BY <1>2, <1>5, <2>3
    <2>6. m # i /\ m \in Nat BY <1>3, <2>3, <2>5
    <2>7. CASE m < i
        <3>1. m \in 1 .. index + 1 BY <1>3, <2>3, <2>6, <2>7
        <3>2. table[m].node = table[i].node BY <2>4, <2>5, <2>7, <3>1
        <3> QED BY <1>5, <2>3, <2>6, <3>1, <3>2
    <2>8. CASE i < m
        <3>1. Precedes(rom, p[i], table[i].node) BY <1>2, <2>3, <2>5, <2>8
        <3>2. p[i] \in Nodes BY <1>2, <2>3
        <3>3. p[i] \notin ToEnter BY <1>6, <2>3, <3>1
        <3>4. PICK j \in 1 .. index + 1 : table[j].node = p[i] BY <1>5, <3>2, <3>3
        <3>5. j < i BY <1>6, <2>3, <3>1, <3>4
        <3>6. p[j] = p[i] BY <2>4, <3>4, <3>5
        <3>7. j = i BY <1>2, <1>4, <2>3, <3>6
        <3> QED BY <2>3, <3>5, <3>7
    <2> QED BY <2>3, <2>6, <2>7, <2>8
<1> QED BY <1>3, <1>4, <1>7

BlankWith(d, x, y, z) == [Blank EXCEPT !.node = d, !.parent = x, !.params = y, !.data = z]

LEMMA WithBlank ==
    ASSUME NEW d, NEW x, NEW y, NEW z
    PROVE  BlankWith(d, x, y, z) =
           [node |-> d, parent |-> x, params |-> y, data |-> z, mmio |-> FALSE, irq |-> FALSE]
<1> DEFINE T(A, B, C, E) == [node : A, parent : B, params : C, data : E, mmio : {FALSE}, irq : {FALSE}]
<1>1. Blank \in T({0}, {0}, {0}, {0}) BY DEF Blank
<1>2. \A r \in T({0}, {0}, {0}, {0}) : [r EXCEPT !.node = d] \in T({d}, {0}, {0}, {0}) OBVIOUS
<1>3. \A r \in T({d}, {0}, {0}, {0}) : [r EXCEPT !.parent = x] \in T({d}, {x}, {0}, {0}) OBVIOUS
<1>4. \A r \in T({d}, {x}, {0}, {0}) : [r EXCEPT !.params = y] \in T({d}, {x}, {y}, {0}) OBVIOUS
<1>5. \A r \in T({d}, {x}, {y}, {0}) : [r EXCEPT !.data = z] \in T({d}, {x}, {y}, {z}) OBVIOUS
<1>6. \A r \in T({d}, {x}, {y}, {z}) :
          r = [node |-> d, parent |-> x, params |-> y, data |-> z, mmio |-> FALSE, irq |-> FALSE]
    <2> SUFFICES ASSUME NEW r \in T({d}, {x}, {y}, {z})
                 PROVE  r = [node |-> d, parent |-> x, params |-> y, data |-> z,
                             mmio |-> FALSE, irq |-> FALSE]
        OBVIOUS
    <2>1. r = [node |-> r.node, parent |-> r.parent, params |-> r.params, data |-> r.data,
               mmio |-> r.mmio, irq |-> r.irq]
        OBVIOUS
    <2>2. r.node = d /\ r.parent = x /\ r.params = y /\ r.data = z /\ r.mmio = FALSE /\ r.irq = FALSE
        OBVIOUS
    <2> HIDE DEF T
    <2> QED BY <2>1, <2>2, Zenon
<1> HIDE DEF T
<1>7. BlankWith(d, x, y, z) \in T({d}, {x}, {y}, {z})
    BY <1>1, <1>2, <1>3, <1>4, <1>5 DEF BlankWith
<1> QED BY <1>6, <1>7

\* What a finished scan stored for the i-th header of the list.
LEMMA EntryStored ==
    ASSUME Whole, pass = "collect", phase = "end", NEW i \in 1 .. N
    PROVE  table[i] = [Blank EXCEPT !.node = Preorder[i], !.parent = table[i].parent,
                                    !.params = ParamCount(Preorder[i]),
                                    !.data = Len(Blocks(Preorder[i]))]
<1>1. index + 1 = N /\ Len(table) = N /\ Described(table[i])
    BY FullAtEnd DEF Whole, AllCollected
<1>2. table[i].node = Preorder[i] BY <1>1, Positions DEF Walking
<1>3. table[i] \in Entries
    <2>1. table \in Seq(Entries) BY DEF Whole, Full, IInv, TableOK
    <2> QED BY <1>1, <2>1, ElementOfSeq
<1> PICK e : e = table[i] OBVIOUS
<1> PICK d : d = Preorder[i] OBVIOUS
<1>4. /\ e.node = d /\ e.params = ParamCount(d) /\ e.data = Len(Blocks(d))
      /\ e.mmio = FALSE /\ e.irq = FALSE
    BY <1>1, <1>2, <1>3 DEF Described, Entries
<1>5. e = [node |-> e.node, parent |-> e.parent, params |-> e.params, data |-> e.data,
           mmio |-> e.mmio, irq |-> e.irq]
    BY <1>3 DEF Entries
<1>6. BlankWith(d, e.parent, ParamCount(d), Len(Blocks(d))) = [node |-> d, parent |-> e.parent, params |-> ParamCount(d), data |-> Len(Blocks(d)),
         mmio |-> FALSE, irq |-> FALSE]
    BY WithBlank
<1> QED BY <1>4, <1>5, <1>6 DEF BlankWith

\* ScanIsPreorder, for every list and whatever was scanned before: a scan that
\* ends leaves the table with the headers as deal_with_interface_at_current_level()
\* reaches them by recursion, each once, none open.
THEOREM TableIsPreorder == Spec => ScanIsPreorder
<1> DEFINE A == phase = "end" /\ phase' = "idle" =>
                  /\ Len(table') = N
                  /\ \A i \in 1 .. N :
                        table'[i] = [Blank EXCEPT !.node = Preorder[i],
                                                  !.parent = table[i].parent,
                                                  !.params = ParamCount(Preorder[i]),
                                                  !.data = Len(Blocks(Preorder[i]))]
<1>1. Whole /\ [Next]_vars => [A]_vars
    <2> SUFFICES ASSUME Whole, [Next]_vars, phase = "end", phase' = "idle"
                 PROVE  /\ Len(table') = N
                        /\ \A i \in 1 .. N :
                              table'[i] = [Blank EXCEPT !.node = Preorder[i],
                                                        !.parent = table[i].parent,
                                                        !.params = ParamCount(Preorder[i]),
                                                        !.data = Len(Blocks(Preorder[i]))]
        OBVIOUS
    <2>1. Finish
        BY DEF Next, Scan, Step, EnterCount, EnterCollect, PlainBlock, Branch, NoMoreBlocks,
           NextHeader, EndOfList, Turn, Push, OutOfMemory, Use, Cleanup, Open, Close,
           InterruptOpen, InterruptClose, Set, vars
    <2>2. pass = "collect" /\ table' = table BY <2>1 DEF Finish
    <2>3. Len(table) = N BY <2>2, FullAtEnd DEF Whole, AllCollected
    <2> QED BY <2>2, <2>3, EntryStored
<1> QED BY <1>1, WholeHolds, PTL DEF Spec, ScanIsPreorder

-----------------------------------------------------------------------------
(* The parents.  A list hangs on the block its last caller waits at, so the *)
(* walk knows of each list where it branched off; what it pushed there is   *)
(* right where the block is the first of its header that branches, for then *)
(* the header was the last to be stored.                                    *)

\* Of any ROM r: the head of each list, the place of the interface a list hangs
\* on, and whether it hangs on the first branch.
HeadsIn(r) ==
    CHOOSE u : u = [c \in Nodes |-> IF \E b \in Nodes : r.next[b] = c
                                    THEN u[CHOOSE b \in Nodes : r.next[b] = c] ELSE c]

WrittenIn(r) ==
    CHOOSE u : u = [at \in Parts |->
        IF at[2] < Len(r.blocks[at[1]]) THEN List(u, r.blocks[at[1]][at[2] + 1]) \o u[<<at[1], at[2] + 1>>]
        ELSE List(u, r.next[at[1]])]

PlaceIn(r, d) == CHOOSE i \in 1 .. N : (<<Root>> \o WrittenIn(r)[<<Root, 0>>])[i] = d

BrancherIn(r, d) ==
    IF HeadsIn(r)[d] = Root THEN -1
    ELSE PlaceIn(r, CHOOSE c \in Nodes : \E k \in Branches(r, c) : r.blocks[c][k] = HeadsIn(r)[d]) - 1

FirstIn(r, d) ==
    \A c \in Nodes : \A k \in Branches(r, c) :
        r.blocks[c][k] = HeadsIn(r)[d] => \A j \in Branches(r, c) : k <= j

Same ==
    \A d : /\ Place(d) = PlaceIn(rom, d)
           /\ Brancher(d) = BrancherIn(rom, d)
           /\ OnFirstBranch(d) <=> FirstIn(rom, d)

LEMMA ParentsIn == Same
<1>1. \A d : ListHead(d) = HeadsIn(rom)[d] BY DEF ListHead, HeadsIn
<1>2. Preorder = <<Root>> \o WrittenIn(rom)[<<Root, 0>>]
    BY DEF Preorder, WrittenIn, Parts, List, Blocks
<1>3. \A d : Place(d) = PlaceIn(rom, d) BY <1>2 DEF Place, PlaceIn
<1>4. \A d : Brancher(d) = BrancherIn(rom, d)
    BY DEF Brancher, BrancherIn, ListHead, HeadsIn, Place, PlaceIn, Preorder, WrittenIn, Parts,
           List, Blocks
<1>5. \A d : OnFirstBranch(d) <=> FirstIn(rom, d) BY <1>1 DEF OnFirstBranch, FirstIn, Blocks
<1> QED BY <1>3, <1>4, <1>5 DEF Same

LEMMA ParentsInNext == Same'
BY ParentsIn, PTL

\* The head of a list is found by going back along the headers of its level.
LEMMA HeadsIs ==
    ASSUME Walkable
    PROVE  /\ \A c \in Nodes : (\A b \in Nodes : rom.next[b] # c) => HeadsIn(rom)[c] = c
           /\ \A b \in Nodes : rom.next[b] # 0 => HeadsIn(rom)[rom.next[b]] = HeadsIn(rom)[b]
<1> DEFINE From(c) == CHOOSE b \in Nodes : rom.next[b] = c
           Has(c) == \E b \in Nodes : rom.next[b] = c
           Eq(u) == [c \in Nodes |-> IF Has(c) THEN u[From(c)] ELSE c]
           F == [Nodes -> Nodes]
           G == [u \in F |-> Eq(u)]
           H == HeadsIn(rom)
<1>1. \A c \in Nodes : Has(c) => From(c) \in Nodes /\ From(c) < c /\ rom.next[From(c)] = c
    <2> SUFFICES ASSUME NEW c \in Nodes, Has(c)
                 PROVE  From(c) \in Nodes /\ From(c) < c /\ rom.next[From(c)] = c
        OBVIOUS
    <2>1. From(c) \in Nodes /\ rom.next[From(c)] = c OBVIOUS
    <2> PICK b \in Nodes : b = From(c) BY <2>1
    <2> HIDE DEF From, Has
    <2>2. 0 \in 0 .. MaxBlocks /\ c # 0 /\ c \in Int /\ b \in Int BY RomAssumption DEF Nodes
    <2>3. rom.next[b] > b BY <2>1, <2>2, PartOf
    <2> QED BY <2>1, <2>2, <2>3
<1> HIDE DEF From, Has
<1>2. ASSUME NEW u \in F PROVE Eq(u) \in F BY <1>1
<1>3. G \in [F -> F] BY <1>2
<1>4. ASSUME NEW u \in F, NEW v \in F, NEW c \in Nodes,
             \A b \in Nodes : b < c => u[b] = v[b]
      PROVE  G[u][c] = G[v][c]
    <2>1. Eq(u)[c] = Eq(v)[c] BY <1>1, <1>4
    <2> QED BY <2>1
<1>5. Nodes # {} /\ N \in Nat BY RomAssumption DEF Nodes
<1>6. PICK u : u = Eq(u)
    <2> DEFINE rank == [c \in Nodes |-> c]
    <2>1. rank \in [Nodes -> 0 .. N] BY <1>5 DEF Nodes
    <2>2. \A x, y \in F : \A c \in Nodes :
              (\A b \in Nodes : rank[b] < rank[c] => x[b] = y[b]) => G[x][c] = G[y][c]
        <3> SUFFICES ASSUME NEW x \in F, NEW y \in F, NEW c \in Nodes,
                            \A b \in Nodes : rank[b] < rank[c] => x[b] = y[b]
                     PROVE  G[x][c] = G[y][c]
            OBVIOUS
        <3>1. \A b \in Nodes : b < c => x[b] = y[b] OBVIOUS
        <3> HIDE DEF F, G
        <3> QED BY <1>4, <3>1
    <2>3. Graded(G, Nodes, Nodes, rank, N)
        <3> HIDE DEF G, rank
        <3> QED BY <1>3, <1>5, <2>1, <2>2 DEF Graded
    <2>4. \E x \in F : G[x] = x
        <3> HIDE DEF G, rank
        <3> QED BY <2>3, Fixpoint
    <2> HIDE DEF Eq
    <2>5. PICK x \in F : G[x] = x BY <2>4
    <2>6. G[x] = Eq(x) OBVIOUS
    <2> QED BY <2>5, <2>6
<1>7. H = [c \in Nodes |-> IF Has(c) THEN H[From(c)] ELSE c]
    BY <1>6 DEF HeadsIn, Has, From
<1> HIDE DEF H, Eq, G, F
<1>8. \A c \in Nodes : H[c] = IF Has(c) THEN H[From(c)] ELSE c
    <2> DEFINE E(c) == IF Has(c) THEN H[From(c)] ELSE c
    <2>1. H = [c \in Nodes |-> E(c)] BY <1>7
    <2> HIDE DEF E
    <2>2. \A c \in Nodes : H[c] = E(c) BY <2>1
    <2> QED BY <2>2 DEF E
<1>9. ASSUME NEW c \in Nodes, \A b \in Nodes : rom.next[b] # c PROVE H[c] = c
    BY <1>8, <1>9 DEF Has
<1>10. ASSUME NEW b \in Nodes, rom.next[b] # 0 PROVE H[rom.next[b]] = H[b]
    <2> PICK c \in Nodes : c = rom.next[b]
        <3>1. 0 \in 0 .. MaxBlocks BY RomAssumption
        <3> QED BY <1>10, <3>1, PartOf
    <2>1. Has(c) BY DEF Has
    <2>2. From(c) \in Nodes /\ rom.next[From(c)] = c BY <1>1, <2>1
    <2>3. From(c) = b
        <3>1. 0 \in 0 .. MaxBlocks BY RomAssumption
        <3>2. 0 \in Slots(rom, b) /\ Slot(rom, b, 0) = c /\ 0 \in Slots(rom, From(c))
              /\ Slot(rom, From(c), 0) = c
            BY <2>2, <3>1, PartOf
        <3>3. c # 0 BY <1>10
        <3> QED BY <2>2, <3>2, <3>3 DEF Walkable, Tree
    <2> QED BY <1>8, <2>1, <2>3
<1> QED BY <1>9, <1>10 DEF H

\* The first header, and a header a block branches to, head a list of their own.
LEMMA BranchHeads ==
    ASSUME Walkable
    PROVE  /\ HeadsIn(rom)[Root] = Root
           /\ \A c \in Nodes : \A k \in Branches(rom, c) :
                 /\ k \in Nat /\ k # 0 /\ k \in Slots(rom, c) /\ Slot(rom, c, k) = rom.blocks[c][k]
                 /\ rom.blocks[c][k] \in Nodes /\ rom.blocks[c][k] # Root
                 /\ HeadsIn(rom)[rom.blocks[c][k]] = rom.blocks[c][k]
<1>1. Root \in Nodes /\ \A c \in Nodes : c \in Nat /\ c >= Root BY RomAssumption DEF Root, Nodes
<1>2. 0 \in 0 .. MaxBlocks BY RomAssumption
<1>3. \A b \in Nodes : rom.next[b] # Root
    <2> SUFFICES ASSUME NEW b \in Nodes, rom.next[b] = Root PROVE FALSE OBVIOUS
    <2>1. Root # 0 BY DEF Root
    <2>2. rom.next[b] > b BY <1>2, <2>1, PartOf
    <2> QED BY <1>1, <2>2
<1>4. ASSUME NEW c \in Nodes, NEW k \in Branches(rom, c)
      PROVE  /\ k \in Nat /\ k # 0 /\ k \in Slots(rom, c) /\ Slot(rom, c, k) = rom.blocks[c][k]
             /\ rom.blocks[c][k] \in Nodes /\ rom.blocks[c][k] # Root
             /\ \A b \in Nodes : rom.next[b] # rom.blocks[c][k]
    <2>1. k \in 1 .. Len(rom.blocks[c]) /\ rom.blocks[c][k] # 0 /\ Len(rom.blocks[c]) \in Nat
        BY DEF Walkable, RomType, Branches, Plain
    <2>2. k \in Nat /\ k # 0 /\ k \in Slots(rom, c) /\ Slot(rom, c, k) = rom.blocks[c][k]
        BY <2>1 DEF Slots, Slot
    <2>3. rom.blocks[c][k] \in Nodes /\ rom.blocks[c][k] > c
        BY <2>1, <2>2, SlotType DEF Walkable, Tree
    <2>4. rom.blocks[c][k] # Root BY <1>1, <2>3
    <2>5. ASSUME NEW b \in Nodes, rom.next[b] = rom.blocks[c][k] PROVE FALSE
        <3>1. 0 \in Slots(rom, b) /\ Slot(rom, b, 0) = rom.blocks[c][k] BY <1>2, <2>5, PartOf
        <3>2. k = 0 BY <2>1, <2>2, <3>1 DEF Walkable, Tree
        <3> QED BY <2>2, <3>2
    <2> QED BY <2>2, <2>3, <2>4, <2>5
<1> QED BY <1>1, <1>3, <1>4, HeadsIs

\* A block that leads to the head of a list is the only one.
LEMMA OneBrancher ==
    ASSUME Walkable, NEW c \in Nodes, NEW k \in Branches(rom, c),
           NEW d \in Nodes, HeadsIn(rom)[d] = rom.blocks[c][k]
    PROVE  /\ BrancherIn(rom, d) = PlaceIn(rom, c) - 1
           /\ FirstIn(rom, d) => \A j \in Branches(rom, c) : k <= j
<1>1. ASSUME NEW b \in Nodes, NEW j \in Branches(rom, b), rom.blocks[b][j] = rom.blocks[c][k]
      PROVE  b = c
    BY <1>1, BranchHeads DEF Walkable, Tree, Nodes
<1>2. (CHOOSE b \in Nodes : \E j \in Branches(rom, b) : rom.blocks[b][j] = HeadsIn(rom)[d]) = c
    BY <1>1
<1>3. HeadsIn(rom)[d] # Root BY BranchHeads
<1> QED BY <1>2, <1>3 DEF BrancherIn, FirstIn

UnderWay == {"enter", "block", "sibling"}

\* The header that leads to the list the walk is on, with i callers.
LeadsTo(i) == IF i = 0 THEN Root ELSE rom.blocks[frames[i][1]][frames[i][2] + 1]

Lists ==
    phase \in UnderWay =>
        /\ HeadsIn(rom)[node] = LeadsTo(Len(frames))
        /\ \A i \in 1 .. Len(frames) :
              /\ frames[i][2] + 1 \in Branches(rom, frames[i][1])
              /\ HeadsIn(rom)[frames[i][1]] = LeadsTo(i - 1)

FirstBranch(d, b) == \A j \in Branches(rom, d) : b + 1 <= j

\* The interface at p, counted from 0, is that of d.
StoredAt(p, d) == p + 1 \in 1 .. index + 1 /\ table[p + 1].node = d

\* What the second pass has on the stack of parents.
Pushed ==
    pass = "collect" /\ phase \in UnderWay =>
        /\ head[2] = -1
        /\ \A i \in 1 .. Len(frames) :
              FirstBranch(frames[i][1], frames[i][2]) => StoredAt(head[i + 2], frames[i][1])
        /\ phase = "block" /\ FirstBranch(node, block) => StoredAt(index, node)

Parents == Lists /\ Pushed /\ FirstBranchHasParent

\* A branch adds a caller, the end of a list takes the last away.
LEMMA BranchFrames ==
    ASSUME IInv, Branch
    PROVE  /\ Len(frames) \in Nat /\ Len(frames') = Len(frames) + 1
           /\ frames'[Len(frames) + 1] = <<node, block>>
           /\ \A i \in 1 .. Len(frames) : frames'[i] = frames[i]
           /\ node \in Nodes /\ block + 1 \in Branches(rom, node)
           /\ node' = rom.blocks[node][block + 1]
<1>1. Inv BY DEF IInv
<1> PICK n \in Nat : n = Len(frames) BY <1>1 DEF Inv, WalkType
<1>2. frames' = Append(frames, <<node, block>>) /\ node' = rom.blocks[node][block + 1]
    BY DEF Branch, Blocks
<1>3. /\ node \in Nodes /\ block \in Nat /\ block < Len(rom.blocks[node])
      /\ rom.blocks[node][block + 1] # 0 /\ Len(rom.blocks[node]) \in Nat
      /\ rom.blocks[node] \in Seq(0 .. N) /\ frames \in Seq(Callers)
    BY <1>1 DEF Branch, NullBlock, Inv, WalkType, RomType, Blocks, Plain
<1>4. block + 1 \in Branches(rom, node) BY <1>3 DEF Branches, Plain
<1>5. Len(frames') = n + 1 /\ frames'[n + 1] = <<node, block>>
      /\ \A i \in 1 .. n : frames'[i] = frames[i]
    <2>1. <<node, block>> \in Callers BY <1>3 DEF Callers, Blocks
    <2> HIDE DEF Callers
    <2> QED BY <1>2, <1>3, <2>1, AppendProperties
<1> QED BY <1>2, <1>3, <1>4, <1>5

LEMMA EndFrames ==
    ASSUME IInv, EndOfList, frames # <<>>
    PROVE  /\ Len(frames) \in Nat /\ Len(frames) > 0 /\ Len(frames') = Len(frames) - 1
           /\ \A i \in 1 .. Len(frames) - 1 : frames'[i] = frames[i]
           /\ node' = frames[Len(frames)][1]
           /\ phase' = "block" => block' = frames[Len(frames)][2] + 1
<1>1. Inv BY DEF IInv
<1> PICK n \in Nat : n = Len(frames) BY <1>1 DEF Inv, WalkType
<1>2. /\ node' = frames[n][1] /\ frames' = SubSeq(frames, 1, n - 1)
      /\ PastBlock(frames[n][1], frames[n][2])
    BY DEF EndOfList
<1>3. frames \in Seq(Callers) /\ n > 0 /\ n - 1 \in Nat BY <1>1 DEF Inv, WalkType
<1>4. Len(frames') = n - 1 /\ \A i \in 1 .. n - 1 : frames'[i] = frames[i]
    <2> HIDE DEF Callers
    <2>1. \A i \in 1 .. n - 1 : frames[i] \in Callers BY <1>3
    <2>2. 1 \in Int /\ n - 1 \in Int BY <1>3
    <2>3. /\ Len(frames') = IF 1 <= n - 1 THEN n - 1 - 1 + 1 ELSE 0
          /\ \A i \in 1 .. n - 1 - 1 + 1 : frames'[i] = frames[1 + i - 1]
        BY <1>2, <2>1, <2>2, SubSeqProperties
    <2>4. n - 1 - 1 + 1 = n - 1 /\ \A i \in 1 .. n - 1 : 1 + i - 1 = i BY <1>3
    <2> QED BY <1>3, <2>3, <2>4
<1>5. phase' = "block" => block' = frames[n][2] + 1
    <2> HIDE DEF LastBlock
    <2> QED BY <1>2 DEF PastBlock
<1> QED BY <1>2, <1>3, <1>4, <1>5

\* A store that lands in the stack changes nothing else on it.
LEMMA PushStores ==
    ASSUME Inv, NEW data \in Int, Push(data), phase' = "enter"
    PROVE  /\ top \in Nat /\ head'[top + 2] = data
           /\ \A i \in 1 .. Len(head) : i # top + 2 => head'[i] = head[i]
<1>1. /\ Grown \in Seq(Int) /\ Len(Grown) >= IncrSize /\ head \in Seq(Int) /\ top \in Nat
      /\ \A i \in 1 .. Len(head) : i \in 1 .. Len(Grown) /\ Grown[i] = head[i]
    <2>1. Grown \in Seq(Int) /\ Len(Grown) >= IncrSize /\ head \in Seq(Int) /\ top \in Nat
        BY GrownType DEF Inv, WalkType
    <2>2. CASE top = Len(head)
        <3> DEFINE more == [i \in 1 .. IncrSize |-> 0]
        <3>1. Grown = head \o more BY <2>2 DEF Grown
        <3>2. more \in Seq(Int) BY RomAssumption
        <3> HIDE DEF more
        <3>3. /\ Len(head \o more) = Len(head) + Len(more)
              /\ \A i \in 1 .. Len(head) + Len(more) :
                    (head \o more)[i] = IF i <= Len(head) THEN head[i] ELSE more[i - Len(head)]
            BY <2>1, <3>2, ConcatProperties
        <3>4. Len(head) \in Nat /\ Len(more) \in Nat BY <2>1, <3>2
        <3> QED BY <2>1, <3>1, <3>3, <3>4
    <2>3. CASE top # Len(head) BY <2>1, <2>3 DEF Grown
    <2> QED BY <2>1, <2>2, <2>3
<1>2. top + 1 < Len(Grown) /\ head' = [Grown EXCEPT ![top + 2] = data] BY DEF Push
<1> HIDE DEF Grown
<1>3. top + 2 \in 1 .. Len(Grown) BY <1>1, <1>2
<1>4. DOMAIN Grown = 1 .. Len(Grown) BY <1>1
<1> QED BY <1>1, <1>2, <1>3, <1>4

\* The steps that may change where the walk stands.
LEMMA Moves ==
    ASSUME IInv, [Next]_vars, phase' \in UnderWay
    PROVE  \/ (Scan \/ Turn) /\ frames' = <<>> /\ node' = Root /\ phase' = "enter"
           \/ Branch /\ phase' = "enter"
           \/ EndOfList /\ frames # <<>> /\ phase = "sibling"
           \/ NextHeader
           \/ UNCHANGED <<node, frames>> /\ phase \in UnderWay
<1>1. CASE Scan \/ Turn
    BY <1>1 DEF Scan, Turn, Push, UnderWay, IInv, Inv, Balanced
<1>2. CASE Branch BY <1>2 DEF Branch, Push, UnderWay
<1>3. CASE EndOfList BY <1>3 DEF EndOfList, UnderWay
<1>4. CASE ~Scan /\ ~Turn /\ ~Branch /\ ~EndOfList /\ ~NextHeader
    BY <1>4 DEF Next, Step, EnterCount, EnterCollect, PlainBlock, NoMoreBlocks, Finish, OutOfMemory,
       Use, Cleanup, Open, Close, InterruptOpen, InterruptClose, Set, walk, vars, UnderWay
<1> QED BY <1>1, <1>2, <1>3, <1>4

LEMMA ListsStep == Whole /\ Lists /\ [Next]_vars => Lists'
<1> SUFFICES ASSUME Whole, Lists, [Next]_vars, phase' \in UnderWay
             PROVE  /\ HeadsIn(rom')[node'] = LeadsTo(Len(frames))'
                    /\ \A i \in 1 .. Len(frames') :
                          /\ frames'[i][2] + 1 \in Branches(rom', frames'[i][1])
                          /\ HeadsIn(rom')[frames'[i][1]] = LeadsTo(i - 1)'
    BY DEF Lists
<1>1. rom' = rom /\ Walkable /\ IInv /\ Inv
    BY RomStays, WholeWalkable DEF Whole, Full, IInv
<1> PICK n \in Nat : n = Len(frames) BY <1>1 DEF Inv, WalkType
<1>2. ASSUME phase \in UnderWay
      PROVE  /\ HeadsIn(rom)[node] = LeadsTo(n)
             /\ \A i \in 1 .. n : /\ frames[i][2] + 1 \in Branches(rom, frames[i][1])
                                  /\ HeadsIn(rom)[frames[i][1]] = LeadsTo(i - 1)
    BY <1>2 DEF Lists
<1>3. CASE frames' = <<>> /\ node' = Root
    <2>1. Len(frames') = 0 /\ 1 .. 0 = {} BY <1>3
    <2>2. LeadsTo(0)' = Root BY DEF LeadsTo
    <2> QED BY <1>1, <1>3, <2>1, <2>2, BranchHeads
<1>4. CASE Branch
    <2>1. /\ Len(frames') = n + 1 /\ frames'[n + 1] = <<node, block>>
          /\ \A i \in 1 .. n : frames'[i] = frames[i]
          /\ node \in Nodes /\ block + 1 \in Branches(rom, node)
          /\ node' = rom.blocks[node][block + 1]
        BY <1>1, <1>4, BranchFrames
    <2>2. phase \in UnderWay BY <1>4 DEF Branch, UnderWay
    <2>3. \A i \in 0 .. n : LeadsTo(i)' = LeadsTo(i)
        <3> SUFFICES ASSUME NEW i \in 0 .. n PROVE LeadsTo(i)' = LeadsTo(i) OBVIOUS
        <3>1. CASE i = 0 BY <3>1 DEF LeadsTo
        <3>2. CASE i # 0
            <4>1. i \in 1 .. n BY <3>2
            <4> QED BY <1>1, <2>1, <4>1 DEF LeadsTo
        <3> QED BY <3>1, <3>2
    <2>4. LeadsTo(n + 1)' = node'
        <3>1. n + 1 # 0 OBVIOUS
        <3> QED BY <1>1, <2>1, <3>1 DEF LeadsTo
    <2>5. HeadsIn(rom)[node'] = node' BY <1>1, <2>1, BranchHeads
    <2>6. ASSUME NEW i \in 1 .. n + 1
          PROVE  /\ frames'[i][2] + 1 \in Branches(rom, frames'[i][1])
                 /\ HeadsIn(rom)[frames'[i][1]] = LeadsTo(i - 1)'
        <3>1. CASE i \in 1 .. n
            <4>1. i - 1 \in 0 .. n BY <3>1
            <4> QED BY <1>2, <2>1, <2>2, <2>3, <3>1, <4>1
        <3>2. CASE i = n + 1
            <4>1. i - 1 = n /\ n \in 0 .. n BY <3>2
            <4> QED BY <1>2, <2>1, <2>2, <2>3, <3>2, <4>1
        <3> QED BY <3>1, <3>2
    <2> QED BY <1>1, <2>1, <2>4, <2>5, <2>6
<1>5. CASE EndOfList /\ frames # <<>>
    <2>1. /\ n > 0 /\ Len(frames') = n - 1 /\ node' = frames[n][1]
          /\ \A i \in 1 .. n - 1 : frames'[i] = frames[i]
        BY <1>1, <1>5, EndFrames
    <2>2. phase \in UnderWay BY <1>5 DEF EndOfList, UnderWay
    <2>3. \A i \in 0 .. n - 1 : LeadsTo(i)' = LeadsTo(i)
        <3> SUFFICES ASSUME NEW i \in 0 .. n - 1 PROVE LeadsTo(i)' = LeadsTo(i) OBVIOUS
        <3>1. CASE i = 0 BY <3>1 DEF LeadsTo
        <3>2. CASE i # 0
            <4>1. i \in 1 .. n - 1 BY <3>2
            <4> QED BY <1>1, <2>1, <4>1 DEF LeadsTo
        <3> QED BY <3>1, <3>2
    <2>4. n \in 1 .. n /\ n - 1 \in 0 .. n - 1 BY <2>1
    <2>5. HeadsIn(rom)[node'] = LeadsTo(n - 1)' BY <1>2, <2>1, <2>2, <2>3, <2>4
    <2>6. \A i \in 1 .. n - 1 : i \in 1 .. n /\ i - 1 \in 0 .. n - 1 BY <2>1
    <2>7. \A i \in 1 .. n - 1 : /\ frames'[i][2] + 1 \in Branches(rom, frames'[i][1])
                                /\ HeadsIn(rom)[frames'[i][1]] = LeadsTo(i - 1)'
        BY <1>2, <2>1, <2>2, <2>3, <2>6
    <2> QED BY <1>1, <2>1, <2>5, <2>7
<1>6. CASE NextHeader
    <2>1. node' = rom.next[node] /\ rom.next[node] # 0 /\ frames' = frames /\ node \in Nodes
          /\ phase \in UnderWay
        BY <1>1, <1>6 DEF NextHeader, Eol, Inv, WalkType, UnderWay
    <2>2. HeadsIn(rom)[node'] = HeadsIn(rom)[node] BY <1>1, <2>1, HeadsIs
    <2>3. \A i : LeadsTo(i)' = LeadsTo(i) BY <1>1, <2>1 DEF LeadsTo
    <2> QED BY <1>1, <1>2, <2>1, <2>2, <2>3
<1>7. CASE UNCHANGED <<node, frames>> /\ phase \in UnderWay
    <2>1. \A i : LeadsTo(i)' = LeadsTo(i) BY <1>1, <1>7 DEF LeadsTo
    <2> QED BY <1>1, <1>2, <1>7, <2>1
<1> QED BY <1>1, <1>3, <1>4, <1>5, <1>6, <1>7, Moves

\* What the steps of the second pass keep of the stack and of what was stored.
LEMMA PushedStep == Whole /\ Lists /\ Pushed /\ [Next]_vars => Pushed'
<1> SUFFICES ASSUME Whole, Lists, Pushed, [Next]_vars, pass' = "collect", phase' \in UnderWay
             PROVE  /\ head'[2] = -1
                    /\ \A i \in 1 .. Len(frames') :
                          FirstBranch(frames[i][1], frames[i][2])' => StoredAt(head[i + 2], frames[i][1])'
                    /\ phase' = "block" /\ FirstBranch(node, block)' => StoredAt(index, node)'
    BY DEF Pushed
<1>1. rom' = rom /\ Walkable /\ IInv /\ Inv
    BY RomStays, WholeWalkable DEF Whole, Full, IInv
<1>2. /\ index \in Int /\ block \in Nat /\ node \in Nodes /\ top \in Nat /\ head \in Seq(Int)
      /\ Len(head) \in Nat
    <2>1. Len(Blocks(node)) \in Nat BY <1>1 DEF Inv, WalkType, RomType, Blocks
    <2> QED BY <1>1, <2>1 DEF Inv, WalkType
<1> PICK n \in Nat : n = Len(frames) BY <1>1 DEF Inv, WalkType
<1>3. ASSUME pass = "collect", phase \in UnderWay
      PROVE  /\ head[2] = -1 /\ top = n + 1 /\ n + 2 <= Len(head)
             /\ \A i \in 1 .. n :
                   FirstBranch(frames[i][1], frames[i][2]) => StoredAt(head[i + 2], frames[i][1])
             /\ phase = "block" /\ FirstBranch(node, block) => StoredAt(index, node)
    <2>1. top = n + 1 BY <1>1, <1>3 DEF Inv, Balanced, UnderWay
    <2>2. top < Len(head) BY <1>1, <1>3 DEF IInv, TableOK, UnderWay
    <2>3. n + 2 <= Len(head) BY <1>2, <2>1, <2>2
    <2>4. /\ head[2] = -1
          /\ \A i \in 1 .. n :
                FirstBranch(frames[i][1], frames[i][2]) => StoredAt(head[i + 2], frames[i][1])
          /\ phase = "block" /\ FirstBranch(node, block) => StoredAt(index, node)
        BY <1>3 DEF Pushed
    <2> QED BY <2>1, <2>3, <2>4
<1>4. CASE Turn
    <2>1. Push(-1) /\ frames' = frames /\ phase' = "enter" BY <1>4 DEF Turn, Push, UnderWay
    <2>2. top = 0 /\ n = 0 BY <1>1, <1>4 DEF Turn, Inv, Balanced
    <2>3. head'[0 + 2] = -1 BY <1>1, <2>1, <2>2, PushStores
    <2>4. 1 .. Len(frames') = {} BY <2>1, <2>2
    <2> QED BY <2>1, <2>3, <2>4
<1>5. CASE Branch
    <2>1. /\ Len(frames') = n + 1 /\ frames'[n + 1] = <<node, block>>
          /\ \A i \in 1 .. n : frames'[i] = frames[i]
        BY <1>1, <1>5, BranchFrames
    <2>2. /\ phase = "block" /\ phase' = "enter" /\ pass = "collect" /\ Push(index)
          /\ UNCHANGED <<index, table>>
        BY <1>5 DEF Branch, Push, UnderWay, scanned
    <2>3. /\ head[2] = -1 /\ top = n + 1 /\ n + 2 <= Len(head)
          /\ \A i \in 1 .. n :
                FirstBranch(frames[i][1], frames[i][2]) => StoredAt(head[i + 2], frames[i][1])
          /\ FirstBranch(node, block) => StoredAt(index, node)
        BY <1>3, <2>2 DEF UnderWay
    <2>4. /\ head'[n + 3] = index
          /\ \A i \in 1 .. n + 2 : head'[i] = head[i]
        <3>1. head'[top + 2] = index /\ \A i \in 1 .. Len(head) : i # top + 2 => head'[i] = head[i]
            BY <1>1, <1>2, <2>2, PushStores
        <3>2. top + 2 = n + 3 /\ \A i \in 1 .. n + 2 : i \in 1 .. Len(head) /\ i # n + 3
            BY <1>2, <2>3
        <3> QED BY <3>1, <3>2
    <2>6. ASSUME NEW i \in 1 .. n + 1, FirstBranch(frames[i][1], frames[i][2])'
          PROVE  StoredAt(head[i + 2], frames[i][1])'
        <3>1. CASE i \in 1 .. n
            <4>1. i + 2 \in 1 .. n + 2 BY <3>1
            <4>2. frames'[i] = frames[i] /\ head'[i + 2] = head[i + 2] BY <2>1, <2>4, <3>1, <4>1
            <4>3. FirstBranch(frames[i][1], frames[i][2]) BY <1>1, <2>6, <4>2 DEF FirstBranch
            <4>4. StoredAt(head[i + 2], frames[i][1]) BY <2>3, <3>1, <4>3
            <4> QED BY <2>2, <4>2, <4>4 DEF StoredAt
        <3>2. CASE i = n + 1
            <4>1. i + 2 = n + 3 BY <3>2
            <4>2. frames'[i][1] = node /\ frames'[i][2] = block /\ head'[i + 2] = index
                BY <2>1, <2>4, <3>2, <4>1
            <4>3. FirstBranch(node, block) BY <1>1, <2>6, <4>2 DEF FirstBranch
            <4>4. StoredAt(index, node) BY <2>3, <4>3
            <4> QED BY <2>2, <4>2, <4>4 DEF StoredAt
        <3> QED BY <3>1, <3>2
    <2>7. head'[2] = -1
        <3>1. 2 \in 1 .. n + 2 OBVIOUS
        <3> QED BY <2>3, <2>4, <3>1
    <2> QED BY <2>1, <2>2, <2>6, <2>7
<1>6. CASE EndOfList /\ frames # <<>>
    <2>1. /\ n > 0 /\ Len(frames') = n - 1 /\ node' = frames[n][1]
          /\ \A i \in 1 .. n - 1 : frames'[i] = frames[i]
          /\ phase' = "block" => block' = frames[n][2] + 1
        BY <1>1, <1>6, EndFrames
    <2>2. /\ phase = "sibling" /\ pass = "collect" /\ UNCHANGED <<index, table, head>>
        BY <1>6 DEF EndOfList, scanned
    <2>3. /\ head[2] = -1
          /\ \A i \in 1 .. n :
                FirstBranch(frames[i][1], frames[i][2]) => StoredAt(head[i + 2], frames[i][1])
        BY <1>3, <2>2 DEF UnderWay
    <2>4. ASSUME NEW i \in 1 .. n - 1, FirstBranch(frames[i][1], frames[i][2])'
          PROVE  StoredAt(head[i + 2], frames[i][1])'
        <3>1. i \in 1 .. n /\ frames'[i] = frames[i] BY <2>1
        <3>2. FirstBranch(frames[i][1], frames[i][2]) BY <1>1, <2>4, <3>1 DEF FirstBranch
        <3>3. StoredAt(head[i + 2], frames[i][1]) BY <2>3, <3>1, <3>2
        <3> QED BY <2>2, <3>1, <3>3 DEF StoredAt
    <2>5. ASSUME phase' = "block", FirstBranch(node, block)' PROVE FALSE
        <3>1. n \in 1 .. n BY <2>1
        <3> PICK b \in Nat : b = frames[n][2] BY <1>1, <3>1, CallerType
        <3>2. b + 1 \in Branches(rom, frames[n][1]) BY <2>2, <3>1 DEF Lists, UnderWay
        <3>3. node' = frames[n][1] /\ block' = b + 1 BY <2>1, <2>5
        <3>4. b + 1 + 1 <= b + 1 BY <1>1, <2>5, <3>2, <3>3 DEF FirstBranch
        <3> QED BY <3>4
    <2> QED BY <2>1, <2>2, <2>3, <2>4, <2>5
<1>7. CASE EnterCollect
    <2> PICK k \in Nat : k = index + 2 BY <1>1, <1>7, PlaceForHeader DEF EnterCollect
    <2>1. /\ phase = "enter" /\ pass = "collect" /\ index' = index + 1
          /\ table' = [table EXCEPT ![k] = Interface(node)]
          /\ UNCHANGED <<node, block, frames, head>>
        BY <1>7 DEF EnterCollect, walk, stack
    <2>2. k \in DOMAIN table BY <1>1, <2>1, PlaceForHeader
    <2>3. /\ head[2] = -1
          /\ \A i \in 1 .. n :
                FirstBranch(frames[i][1], frames[i][2]) => StoredAt(head[i + 2], frames[i][1])
        BY <1>3, <2>1 DEF UnderWay
    <2>4. \A p, d : StoredAt(p, d) => p + 1 \in 1 .. index' + 1 /\ table'[p + 1].node = d
        <3> SUFFICES ASSUME NEW p, NEW d, StoredAt(p, d)
                     PROVE  p + 1 \in 1 .. index' + 1 /\ table'[p + 1].node = d
            OBVIOUS
        <3> PICK m \in 1 .. index + 1 : m = p + 1 /\ table[m].node = d BY DEF StoredAt
        <3>1. m \in 1 .. index' + 1 /\ m # k BY <1>2, <2>1
        <3>2. table'[m] = table[m] BY <2>1, <3>1
        <3> QED BY <3>1, <3>2
    <2>5. ASSUME NEW i \in 1 .. n, FirstBranch(frames[i][1], frames[i][2])'
          PROVE  StoredAt(head[i + 2], frames[i][1])'
        <3>1. FirstBranch(frames[i][1], frames[i][2]) BY <1>1, <2>1, <2>5 DEF FirstBranch
        <3>2. StoredAt(head[i + 2], frames[i][1]) BY <2>3, <3>1
        <3> QED BY <2>1, <2>4, <3>2 DEF StoredAt
    <2>6. StoredAt(index, node)'
        <3>1. index' + 1 = k /\ k \in 1 .. index' + 1
            <4>1. index >= -1 BY <1>1, <2>1 DEF IInv, Agree, Walking
            <4> QED BY <1>2, <2>1, <4>1
        <3>2. table'[k] = Interface(node) BY <2>1, <2>2
        <3>3. Interface(node).node = node BY DEF Interface
        <3> QED BY <2>1, <3>1, <3>2, <3>3 DEF StoredAt
    <2> QED BY <2>1, <2>3, <2>5, <2>6
<1>8. CASE NextHeader \/ PlainBlock \/ NoMoreBlocks \/ UNCHANGED vars
    <2>1. UNCHANGED <<index, table, head, frames, pass>> /\ phase \in UnderWay
        BY <1>8 DEF NextHeader, PlainBlock, NoMoreBlocks, vars, walk, scanned, stack, UnderWay
    <2>2. /\ head[2] = -1
          /\ \A i \in 1 .. n :
                FirstBranch(frames[i][1], frames[i][2]) => StoredAt(head[i + 2], frames[i][1])
          /\ phase = "block" /\ FirstBranch(node, block) => StoredAt(index, node)
        BY <1>3, <2>1
    <2>3. ASSUME NEW i \in 1 .. n, FirstBranch(frames[i][1], frames[i][2])'
          PROVE  StoredAt(head[i + 2], frames[i][1])'
        <3>1. FirstBranch(frames[i][1], frames[i][2]) BY <1>1, <2>1, <2>3 DEF FirstBranch
        <3>2. StoredAt(head[i + 2], frames[i][1]) BY <2>2, <3>1
        <3> QED BY <2>1, <3>2 DEF StoredAt
    <2>4. ASSUME phase' = "block", FirstBranch(node, block)' PROVE StoredAt(index, node)'
        <3>1. node' = node /\ phase = "block" /\ (block' = block \/ block' = block + 1)
            <4> HIDE DEF LastBlock, NullBlock
            <4> QED BY <1>8, <2>4 DEF NextHeader, PlainBlock, PastBlock, NoMoreBlocks, vars, walk
        <3>2. FirstBranch(node, block)
            <4>1. \A j \in Branches(rom, node) : j \in Nat BY <1>1, <1>2, BranchHeads
            <4>2. \A j \in Branches(rom, node) : block' + 1 <= j BY <1>1, <2>4, <3>1 DEF FirstBranch
            <4> QED BY <1>2, <3>1, <4>1, <4>2 DEF FirstBranch
        <3>3. StoredAt(index, node) BY <2>2, <3>1, <3>2
        <3> QED BY <2>1, <3>1, <3>3 DEF StoredAt
    <2> QED BY <2>1, <2>2, <2>3, <2>4
<1>9. Turn \/ Branch \/ (EndOfList /\ frames # <<>>) \/ EnterCollect \/ NextHeader
      \/ PlainBlock \/ NoMoreBlocks \/ UNCHANGED vars
    BY DEF Next, Step, Scan, EnterCount, EndOfList, Finish, OutOfMemory, Use, Cleanup, Open, Close,
       InterruptOpen, InterruptClose, Set, walk, UnderWay
<1> QED BY <1>4, <1>5, <1>6, <1>7, <1>8, <1>9

\* The parent noted for a header is what its list's last caller pushed.
LEMMA ParentPushed ==
    ASSUME Whole, Lists, Pushed, EnterCollect, OnFirstBranch(node)
    PROVE  head[top + 1] = Brancher(node)
<1>1. /\ Walkable /\ IInv /\ Inv /\ phase = "enter" /\ pass = "collect"
    BY WholeWalkable DEF Whole, Full, IInv, EnterCollect
<1> PICK n \in Nat : n = Len(frames) BY <1>1 DEF Inv, WalkType
<1>2. node \in Nodes /\ top = n + 1 BY <1>1 DEF Inv, WalkType, Balanced
<1>3. /\ head[2] = -1
      /\ \A i \in 1 .. n :
            FirstBranch(frames[i][1], frames[i][2]) => StoredAt(head[i + 2], frames[i][1])
      /\ HeadsIn(rom)[node] = LeadsTo(n)
      /\ \A i \in 1 .. n : frames[i][2] + 1 \in Branches(rom, frames[i][1])
    BY <1>1 DEF Lists, Pushed, UnderWay
<1>4. Brancher(node) = BrancherIn(rom, node) /\ FirstIn(rom, node) BY ParentsIn DEF Same
<1>5. CASE n = 0
    <2>1. HeadsIn(rom)[node] = Root BY <1>3, <1>5 DEF LeadsTo
    <2>2. BrancherIn(rom, node) = -1 BY <2>1 DEF BrancherIn
    <2> QED BY <1>2, <1>3, <1>4, <1>5, <2>2
<1>6. CASE n > 0
    <2>1. n \in 1 .. n /\ n # 0 /\ top + 1 = n + 2 BY <1>2, <1>6
    <2> PICK c \in Nodes, b \in Nat : c = frames[n][1] /\ b = frames[n][2] BY <1>1, <2>1, CallerType
    <2>2. b + 1 \in Branches(rom, c) /\ HeadsIn(rom)[node] = rom.blocks[c][b + 1]
        BY <1>3, <2>1 DEF LeadsTo
    <2>3. BrancherIn(rom, node) = PlaceIn(rom, c) - 1 /\ FirstBranch(c, b)
        BY <1>1, <1>2, <1>4, <2>2, OneBrancher DEF FirstBranch
    <2>4. StoredAt(head[n + 2], c) BY <1>3, <2>1, <2>3
    <2> PICK p : p = head[n + 2] OBVIOUS
    <2>5. p + 1 \in 1 .. N /\ Preorder[p + 1] = c
        <3>1. p + 1 \in 1 .. index + 1 /\ table[p + 1].node = c BY <2>4 DEF StoredAt
        <3> QED BY <1>1, <3>1, Positions DEF Walking
    <2>6. Place(c) = p + 1
        <3>1. \A i \in 1 .. N : Preorder[i] = c => i = p + 1
            BY <1>1, <2>5, PreorderLists, WholeWalkable
        <3> QED BY <2>5, <3>1 DEF Place
    <2>7. p \in Int
        <3>1. top < Len(head) /\ head \in Seq(Int) /\ Len(head) \in Nat
            BY <1>1 DEF IInv, TableOK, Inv, WalkType
        <3>2. n + 2 \in 1 .. Len(head) BY <1>2, <3>1
        <3> QED BY <3>1, <3>2, ElementOfSeq
    <2>8. PlaceIn(rom, c) - 1 = p BY <2>6, <2>7, ParentsIn DEF Same
    <2> QED BY <1>4, <2>1, <2>3, <2>8
<1> QED BY <1>5, <1>6

\* A step that stores no header, and leaves stored headers and their parents.
LEMMA FirstBranchStep ==
    Whole /\ Lists /\ Pushed /\ FirstBranchHasParent /\ [Next]_vars => FirstBranchHasParent'
<1> SUFFICES ASSUME Whole, Lists, Pushed, FirstBranchHasParent, [Next]_vars
             PROVE  FirstBranchHasParent'
    OBVIOUS
<1> DEFINE Right(e) == e.node # 0 /\ FirstIn(rom, e.node) => e.parent = BrancherIn(rom, e.node)
<1>1. rom' = rom /\ IInv BY RomStays DEF Whole, Full
<1>2. \A i \in DOMAIN table : Right(table[i]) BY ParentsIn DEF FirstBranchHasParent, Same
<1>3. (\A i \in DOMAIN table' : Right(table'[i])) => FirstBranchHasParent'
    <2> SUFFICES ASSUME \A i \in DOMAIN table' : Right(table'[i]) PROVE FirstBranchHasParent' OBVIOUS
    <2> QED BY <1>1, ParentsInNext DEF FirstBranchHasParent, Same
<1>4. CASE EnterCollect
    <2> PICK k \in Nat : k = index + 2 BY <1>1, <1>4, PlaceForHeader DEF EnterCollect
    <2>1. table' = [table EXCEPT ![k] = Interface(node)] BY <1>4 DEF EnterCollect
    <2>2. Interface(node).node = node /\ Interface(node).parent = head[top + 1] BY DEF Interface
    <2>3. Right(Interface(node)) BY <1>4, <2>2, ParentPushed, ParentsIn DEF Same
    <2> HIDE DEF Right
    <2> QED BY <1>2, <1>3, <2>1, <2>3
<1>5. CASE table' = <<>>
    <2>1. DOMAIN table' = {} BY <1>5
    <2> QED BY <1>3, <2>1
<1>6. CASE Turn
    <2>1. table' = [i \in 1 .. count |-> Blank] BY <1>6 DEF Turn
    <2>2. Right(Blank) BY DEF Blank
    <2> HIDE DEF Right
    <2> QED BY <1>3, <2>1, <2>2
<1>7. CASE table' = table BY <1>2, <1>3, <1>7
<1>8. ASSUME NEW i \in DOMAIN table, Open(i) \/ Close(i) \/ InterruptOpen(i) \/ InterruptClose(i)
      PROVE  FirstBranchHasParent'
    <2>1. PICK f \in {"mmio", "irq"}, v \in BOOLEAN : Set(i, f, v)
        BY <1>8 DEF Open, Close, InterruptOpen, InterruptClose
    <2>2. table' = [table EXCEPT ![i][f] = v] BY <2>1 DEF Set
    <2>3. table[i] \in Entries
        <3>1. table \in Seq(Entries) BY <1>1 DEF IInv, TableOK
        <3> HIDE DEF Entries
        <3> QED BY <1>8, <3>1
    <2> DEFINE e == [table[i] EXCEPT ![f] = v]
    <2>4. e.node = table[i].node /\ e.parent = table[i].parent BY <2>3 DEF Entries
    <2>5. table' = [table EXCEPT ![i] = e] BY <2>2
    <2> HIDE DEF e
    <2>6. Right(e) BY <1>2, <2>4
    <2> HIDE DEF Right
    <2> QED BY <1>2, <1>3, <2>5, <2>6
<1>9. \/ EnterCollect \/ Turn \/ table' = <<>> \/ table' = table
      \/ \E i \in DOMAIN table : Open(i) \/ Close(i) \/ InterruptOpen(i) \/ InterruptClose(i)
    BY DEF Next, Scan, Step, EnterCount, PlainBlock, Branch, NoMoreBlocks, NextHeader, EndOfList,
       Finish, OutOfMemory, Use, Cleanup, EmptyTable, walk, vars
<1> QED BY <1>4, <1>5, <1>6, <1>7, <1>8, <1>9

\* FirstBranchHasParent, for every list and any sequence of scans and clean-ups:
\* the parent common_dfl_scan_multi_interfaces() notes is the interface whose
\* block the list hangs on, if that is the first of its blocks that branches.
THEOREM FirstBranchParents == Spec => []FirstBranchHasParent
<1>1. Init => Parents
    <2> SUFFICES ASSUME Init PROVE Parents OBVIOUS
    <2>1. phase \notin UnderWay /\ DOMAIN table = {} BY DEF Init, UnderWay
    <2> QED BY <2>1 DEF Parents, Lists, Pushed, FirstBranchHasParent
<1>2. Whole /\ Parents /\ [Next]_vars => Parents'
    BY ListsStep, PushedStep, FirstBranchStep DEF Parents
<1>3. Spec => []Parents BY <1>1, <1>2, WholeHolds, PTL DEF Spec
<1>4. Parents => FirstBranchHasParent BY DEF Parents
<1> QED BY <1>3, <1>4, PTL

-----------------------------------------------------------------------------
(* A scan ends: what it has before it grows less at each step, counted in   *)
(* passes, headers, callers and blocks in this order.                       *)

PassesLeft == IF pass = "count" THEN 1 ELSE 0

\* A header under way to be entered counts for less than one still in its list.
HeadersLeft == 2 * (Headers - Entered) - (IF phase = "enter" THEN 1 ELSE 0)

BlocksLeft == IF phase = "block" THEN Len(Blocks(node)) - block + 2
              ELSE IF phase = "sibling" THEN 1 ELSE 0

Counted == HeadersLeft \in Nat /\ Len(frames) \in Nat /\ BlocksLeft \in Nat

Less ==
    \/ PassesLeft' < PassesLeft
    \/ /\ PassesLeft' = PassesLeft
       /\ \/ HeadersLeft' < HeadersLeft
          \/ HeadersLeft' = HeadersLeft /\ Len(frames') < Len(frames)
          \/ HeadersLeft' = HeadersLeft /\ Len(frames') = Len(frames) /\ BlocksLeft' < BlocksLeft

\* A scan that goes on has less before it, of what there is a number of.
Shrinks == phase \in Walking /\ (phase' \in Walking) => Counted /\ Less

LEMMA CountedHolds == ASSUME IInv, phase \in Walking PROVE Counted
<1> PICK n \in Nat : n = Len(frames) BY DEF IInv, Inv, WalkType
<1> PICK h \in Nat : h = Headers BY ToEnterFinite
<1> PICK t \in Nat : t = Cardinality(ToEnter) BY ToEnterFinite
<1>1. Entered + t = h /\ Entered \in Int BY DEF IInv, Agree, Entered, Inv, WalkType
<1>2. phase = "enter" => t # 0
    <2> SUFFICES ASSUME phase = "enter" PROVE t # 0 OBVIOUS
    <2>1. node \in Nodes /\ rom \in RomType BY DEF IInv, Inv, WalkType
    <2>2. node \in ToEnter BY <2>1, UnderClosed DEF ToEnter, Here
    <2> QED BY <2>2, ToEnterFinite, FS_EmptySet
<1>3. HeadersLeft \in Nat
    <2>1. h - Entered = t BY <1>1
    <2> HIDE DEF Entered, Headers
    <2>2. HeadersLeft = 2 * t - (IF phase = "enter" THEN 1 ELSE 0) BY <2>1 DEF HeadersLeft
    <2> QED BY <1>2, <2>2
<1>4. BlocksLeft \in Nat
    <2>1. Blocks(node) \in Seq(0 .. N) /\ block \in 0 .. Len(Blocks(node))
        BY DEF IInv, Inv, WalkType, RomType, Blocks
    <2> PICK b \in Nat : b = Len(Blocks(node)) BY <2>1
    <2> QED BY <2>1 DEF BlocksLeft
<1> QED BY <1>3, <1>4 DEF Counted

LEMMA StepShrinks == IInv /\ [Next]_vars => Shrinks \/ UNCHANGED vars
<1> SUFFICES ASSUME IInv, Next, phase \in Walking, phase' \in Walking PROVE Less
    BY CountedHolds DEF Shrinks
<1>1. Counted BY CountedHolds
<1>2. UNCHANGED rom /\ Headers' = Headers /\ Headers \in Nat
    <2>1. UNCHANGED rom BY RomStays
    <2> QED BY <2>1, ToEnterFinite DEF Headers, Under, Closed
<1>3. count \in Int /\ index \in Int BY DEF IInv, Agree, Inv, WalkType
<1>4. CASE EnterCount
    <2>1. PassesLeft' = PassesLeft /\ Entered' = Entered + 1 /\ phase = "enter" /\ phase' = "block"
        BY <1>4 DEF EnterCount, PassesLeft, Entered, walk
    <2>2. Entered \in Int BY <1>3 DEF Entered
    <2> QED BY <1>2, <2>1, <2>2 DEF Less, HeadersLeft
<1>5. CASE EnterCollect
    <2>1. PassesLeft' = PassesLeft /\ Entered' = Entered + 1 /\ phase = "enter" /\ phase' = "block"
        BY <1>3, <1>5 DEF EnterCollect, PassesLeft, Entered, walk
    <2>2. Entered \in Int BY <1>3 DEF Entered
    <2> QED BY <1>2, <2>1, <2>2 DEF Less, HeadersLeft
<1>6. CASE Branch \/ NextHeader
    <2>1. PassesLeft' = PassesLeft /\ Entered' = Entered /\ phase # "enter" /\ phase' = "enter"
        BY <1>6 DEF Branch, NextHeader, Push, PassesLeft, Entered, scanned, Walking
    <2>2. Entered \in Int BY <1>3 DEF Entered
    <2> QED BY <1>2, <2>1, <2>2 DEF Less, HeadersLeft
<1>7. ASSUME PlainBlock \/ NoMoreBlocks \/ EndOfList
      PROVE  PassesLeft' = PassesLeft /\ HeadersLeft' = HeadersLeft
    <2>1. /\ PassesLeft' = PassesLeft /\ Entered' = Entered /\ phase # "enter" /\ phase' # "enter"
        BY <1>7 DEF PlainBlock, NoMoreBlocks, EndOfList, PastBlock, PassesLeft, Entered, scanned, walk
    <2> QED BY <1>2, <2>1 DEF HeadersLeft
<1>8. CASE PlainBlock \/ NoMoreBlocks
    <2>1. Blocks(node) \in Seq(0 .. N) /\ block \in 0 .. Len(Blocks(node))
        BY DEF IInv, Inv, WalkType, RomType, Blocks
    <2> PICK b \in Nat : b = Len(Blocks(node)) BY <2>1
    <2>2. /\ UNCHANGED <<node, frames>> /\ phase = "block"
          /\ \/ phase' = "sibling"
             \/ phase' = "block" /\ block' = block + 1
        BY <1>8 DEF PlainBlock, NoMoreBlocks, PastBlock, walk
    <2>3. Blocks(node)' = Blocks(node) BY <1>2, <2>2 DEF Blocks
    <2>4. BlocksLeft = b - block + 2 /\ BlocksLeft' \in {1, b - (block + 1) + 2}
        BY <2>2, <2>3 DEF BlocksLeft
    <2>5. BlocksLeft' < BlocksLeft BY <2>1, <2>4
    <2> QED BY <1>7, <1>8, <2>2, <2>5 DEF Less
<1>9. CASE EndOfList
    <2>1. CASE frames = <<>>
        <3>1. UNCHANGED frames /\ phase = "sibling" /\ phase' = "end" BY <1>9, <2>1 DEF EndOfList
        <3>2. BlocksLeft' < BlocksLeft BY <3>1 DEF BlocksLeft
        <3> QED BY <1>7, <1>9, <3>1, <3>2 DEF Less
    <2>2. CASE frames # <<>>
        <3>2. Len(frames') < Len(frames) BY <1>9, <2>2, EndFrames
        <3> QED BY <1>7, <1>9, <3>2 DEF Less
    <2> QED BY <2>1, <2>2
<1>10. CASE Turn
    BY <1>10 DEF Turn, PassesLeft, Less
<1>11. ~(Scan \/ Finish \/ OutOfMemory \/ Use)
    BY DEF Scan, Finish, OutOfMemory, Use, Cleanup, Open, Close, InterruptOpen, InterruptClose, Set,
           Walking
<1> QED BY <1>4, <1>5, <1>6, <1>8, <1>9, <1>10, <1>11 DEF Next, Step

\* The recursion of deal_with_interface_at_current_level() and its loop over the
\* blocks are bounded, for every list: whatever a scan under way does lowers the
\* passes left, or the headers, or the callers, or the blocks.
THEOREM ScanShrinks == Spec => [][Shrinks]_vars
<1>1. IInv /\ [Next]_vars => [Shrinks]_vars BY StepShrinks
<1> QED BY <1>1, IInvHolds, PTL DEF Spec
=============================================================================
