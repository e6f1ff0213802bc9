------------------------------ MODULE DflScan ------------------------------
(***************************************************************************)
(* intel_fpga_api_cmn_dfl.c: the scan of the device feature list.  A ROM   *)
(* holds feature headers; each has a list of parameter blocks, some of     *)
(* which branch to a list one level down, and is followed by the next      *)
(* header of its level or by the end of the list (EOL).  The scan walks    *)
(* the headers twice, first to count them and then to collect them into    *)
(* the table of interfaces (intel_fpga_api_cmn_inf.c), and keeps a stack   *)
(* of parents of its own.  The C calls in progress are `frames'; the call  *)
(* for the next header of a level is the last thing its caller does.       *)
(***************************************************************************)
EXTENDS Integers, Sequences, FiniteSets

CONSTANTS N,             \* headers in the ROM
          MaxBlocks,     \* parameter blocks of a header
          MaxBranches,   \* branches of a header
          IncrSize,      \* DFH_PARENT_STACK_INCR_SIZE
          MaxOpen        \* bound: interfaces open at a time

ASSUME RomAssumption ==
    /\ N \in Nat \ {0} /\ MaxBlocks \in Nat /\ MaxBranches \in Nat /\ MaxOpen \in Nat
    /\ IncrSize \in Nat /\ IncrSize >= 2

VARIABLES rom,       \* the headers and their blocks
          phase,     \* where the scan stands; "idle" between scans
          pass,      \* collect_interfaces: "count" or "collect"
          node,      \* current_dfh_addr
          block,     \* param_block_index
          frames,    \* callers waiting for a branch: <<node, block>>
          count,     \* s_scanned_interface_count
          index,     \* s_interface_index
          head, top, \* dfh_parent_stack; its size is the length of head
          table,     \* g_common_fpga_interface_info_vec
          heap       \* parameters and data obtained from malloc, not yet freed

vars == <<rom, phase, pass, node, block, frames, count, index, head, top, table, heap>>
walk == <<pass, node, block, frames>>
stack == <<head, top>>
scanned == <<count, index>>

Nodes == 1 .. N
Root == 1
Eol == 0
Plain == 0           \* a block that does not branch

-----------------------------------------------------------------------------
(* The ROM.  Every header but the first is reached in one way: as the next  *)
(* of an earlier one (slot 0) or through one of its blocks.                 *)

Ways == {f \in [2 .. N -> Nodes \X (0 .. MaxBlocks)] :
            /\ \A d \in 2 .. N : f[d][1] < d
            /\ \A c, d \in 2 .. N : f[c] = f[d] => c = d}

Behind(way, d, k) == IF \E c \in 2 .. N : way[c] = <<d, k>>
                     THEN CHOOSE c \in 2 .. N : way[c] = <<d, k>> ELSE 0

Rom(way, length, ending) ==
    [next |-> [d \in Nodes |-> Behind(way, d, 0)],
     blocks |-> [d \in Nodes |-> [k \in 1 .. length[d] |-> Behind(way, d, k)]],
     ending |-> ending]

Roms == {Rom(c[1], c[2], c[3]) :
            c \in Ways \X [Nodes -> 0 .. MaxBlocks] \X {"null", "data"}}

Branches(r, d) == {k \in DOMAIN r.blocks[d] : r.blocks[d][k] # Plain}

\* The lists that hang together: no block lies beyond the end of its list.
WellFormed(r) ==
    /\ \A d \in 2 .. N : \/ \E c \in Nodes : r.next[c] = d
                         \/ \E c \in Nodes : \E k \in Branches(r, c) : r.blocks[c][k] = d
    /\ \A d \in Nodes : Cardinality(Branches(r, d)) <= MaxBranches

Blocks(d) == rom.blocks[d]

\* The list of parameters ends with an empty block or with one that carries
\* data and the end mark.
LastBlock(d, b) == rom.ending = "data" /\ b = Len(Blocks(d)) - 1

NullBlock(d, b) == b = Len(Blocks(d))

-----------------------------------------------------------------------------
(* The table and what it owns.                                             *)

Blank == [node |-> 0, parent |-> 0, params |-> 0, data |-> 0, mmio |-> FALSE, irq |-> FALSE]

\* num_of_parameters counts the empty block that ends the list, if one does.
ParamCount(d) ==
    IF Blocks(d) = <<>> THEN 0
    ELSE IF rom.ending = "null" THEN Len(Blocks(d)) + 1 ELSE Len(Blocks(d))

Interface_WrongLatest(d) ==
    [node |-> d, parent |-> index, params |-> ParamCount(d), data |-> Len(Blocks(d)),
     mmio |-> FALSE, irq |-> FALSE]
Interface(d) ==
    [node |-> d, parent |-> head[top + 1], params |-> ParamCount(d), data |-> Len(Blocks(d)),
     mmio |-> FALSE, irq |-> FALSE]

\* What set_parameter_properties allocates for the header it stores at i.
Allocated(i, d) ==
    IF Blocks(d) = <<>> THEN {}
    ELSE {<<"params", i>>} \cup {<<"data", i, j>> : j \in 1 .. Len(Blocks(d))}

\* Operators named X_Wrong... are plausible slips in X that a property must catch.
Released_WrongCount ==
    UNION {{<<"params", i>>} \cup {<<"data", i, j>> : j \in 1 .. table[i].params - 1} :
              i \in DOMAIN table}
\* What common_fpga_interface_info_vec_resize(0) frees.
Released ==
    UNION {{<<"params", i>>} \cup {<<"data", i, j>> : j \in 1 .. table[i].params} :
              i \in DOMAIN table}

EmptyTable == /\ table' = <<>>
              /\ heap' = heap \ Released

-----------------------------------------------------------------------------
Init ==
    /\ rom \in {r \in Roms : WellFormed(r)}
    /\ phase = "idle" /\ pass = "count" /\ node = Root /\ block = 0 /\ frames = <<>>
    /\ count = 0 /\ index = 0
    /\ head = <<>> /\ top = 0
    /\ table = <<>> /\ heap = {}

Grown == IF top = Len(head) THEN head \o [i \in 1 .. IncrSize |-> 0] ELSE head

\* dfh_parent_stack_push: a store past the end is undefined, and the model
\* stops there.
Push(data) ==
    /\ top' = top + 1
    /\ head' = IF top + 1 < Len(Grown) THEN [Grown EXCEPT ![top + 2] = data] ELSE Grown
    /\ phase' = IF top + 1 < Len(Grown) THEN "enter" ELSE "overrun"

\* common_dfl_scan_multi_interfaces up to the first header of the first pass.
Scan ==
    /\ phase = "idle"
    /\ count' = 0
    /\ EmptyTable
    /\ pass' = "count" /\ node' = Root /\ block' = 0 /\ frames' = <<>>
    /\ Push(-1)
    /\ UNCHANGED <<rom, index>>

EnterCount ==
    /\ phase = "enter" /\ pass = "count"
    /\ count' = count + 1
    /\ phase' = "block"
    /\ UNCHANGED <<rom, walk, index, stack, table, heap>>

EnterCollect ==
    /\ phase = "enter" /\ pass = "collect"
    /\ index' = index + 1
    /\ table' = [table EXCEPT ![index + 2] = Interface(node)]
    /\ heap' = heap \cup Allocated(index + 2, node)
    /\ phase' = "block"
    /\ UNCHANGED <<rom, walk, count, stack>>

PastBlock_WrongLeaves(d, b) ==
    /\ block' = b + 1
    /\ phase' = IF LastBlock(d, b) \/ Blocks(d)[b + 1] # Plain THEN "sibling" ELSE "block"

PastBlock_WrongNoBreak(d, b) ==
    /\ block' = IF LastBlock(d, b) THEN b ELSE b + 1
    /\ phase' = "block"

\* The walk goes to the block after b of d, or past the list if b was the last.
PastBlock(d, b) ==
    /\ block' = IF LastBlock(d, b) THEN b ELSE b + 1
    /\ phase' = IF LastBlock(d, b) THEN "sibling" ELSE "block"

PlainBlock ==
    /\ phase = "block" /\ ~NullBlock(node, block) /\ Blocks(node)[block + 1] = Plain
    /\ PastBlock(node, block)
    /\ UNCHANGED <<rom, pass, node, frames, scanned, stack, table, heap>>

\* handle_branch_param_id
Branch ==
    /\ phase = "block" /\ ~NullBlock(node, block) /\ Blocks(node)[block + 1] # Plain
    /\ Push(index)
    /\ frames' = Append(frames, <<node, block>>)
    /\ node' = Blocks(node)[block + 1] /\ block' = 0
    /\ UNCHANGED <<rom, pass, scanned, table, heap>>

NoMoreBlocks ==
    /\ phase = "block" /\ NullBlock(node, block)
    /\ phase' = "sibling"
    /\ UNCHANGED <<rom, walk, scanned, stack, table, heap>>

NextHeader ==
    /\ phase = "sibling" /\ rom.next[node] # Eol
    /\ node' = rom.next[node] /\ block' = 0
    /\ phase' = "enter"
    /\ UNCHANGED <<rom, pass, frames, scanned, stack, table, heap>>

EndOfList_WrongPops ==
    /\ phase = "sibling" /\ rom.next[node] = Eol
    /\ top' = IF frames = <<>> THEN top ELSE top - 1
    /\ IF frames = <<>>
       THEN /\ phase' = "end"
            /\ UNCHANGED <<node, block, frames>>
       ELSE LET caller == frames[Len(frames)] IN
            /\ node' = caller[1]
            /\ PastBlock(caller[1], caller[2])
            /\ frames' = SubSeq(frames, 1, Len(frames) - 1)
    /\ UNCHANGED <<rom, pass, head, scanned, table, heap>>

\* EOL: dfh_parent_stack_pop, then back to the block that branched here.
EndOfList ==
    /\ phase = "sibling" /\ rom.next[node] = Eol
    /\ top' = top - 1
    /\ IF frames = <<>>
       THEN /\ phase' = "end"
            /\ UNCHANGED <<node, block, frames>>
       ELSE LET caller == frames[Len(frames)] IN
            /\ node' = caller[1]
            /\ PastBlock(caller[1], caller[2])
            /\ frames' = SubSeq(frames, 1, Len(frames) - 1)
    /\ UNCHANGED <<rom, pass, head, scanned, table, heap>>

\* Between the passes the table is made as large as the headers counted.
Turn ==
    /\ phase = "end" /\ pass = "count"
    /\ table' = [i \in 1 .. count |-> Blank]
    /\ index' = -1
    /\ pass' = "collect" /\ node' = Root /\ block' = 0
    /\ Push(-1)
    /\ UNCHANGED <<rom, frames, count, heap>>

\* dfh_parent_stack_resize(0) frees the stack and leaves top where it is.
Finish ==
    /\ phase = "end" /\ pass = "collect"
    /\ head' = <<>>
    /\ phase' = "idle"
    /\ UNCHANGED <<rom, walk, scanned, top, table, heap>>

\* fpga_throw_runtime_exception ends the program when malloc or realloc fails.
OutOfMemory ==
    /\ \/ phase = "idle"
       \/ phase = "enter" /\ pass = "collect" /\ Allocated(index + 2, node) # {}
       \/ phase = "block" /\ ~NullBlock(node, block) /\ Blocks(node)[block + 1] # Plain
             /\ top = Len(head)
       \/ phase = "end" /\ pass = "count"
    /\ phase' = "exit"
    /\ UNCHANGED <<rom, walk, scanned, stack, table, heap>>

-----------------------------------------------------------------------------
(* What a program does with the table between scans.                       *)

Opened == {i \in DOMAIN table : table[i].mmio}
IrqOpened == {i \in DOMAIN table : table[i].irq}

Cleanup ==
    /\ phase = "idle" /\ table # <<>>
    /\ EmptyTable
    /\ UNCHANGED <<rom, phase, walk, scanned, stack>>

Set(i, field, value) ==
    /\ phase = "idle"
    /\ table' = [table EXCEPT ![i][field] = value]
    /\ UNCHANGED <<rom, phase, walk, scanned, stack, heap>>

Open(i) == i \notin Opened /\ Cardinality(Opened) < MaxOpen /\ Set(i, "mmio", TRUE)
Close(i) == Set(i, "mmio", FALSE)
InterruptOpen(i) == i \notin IrqOpened /\ Cardinality(IrqOpened) < MaxOpen /\ Set(i, "irq", TRUE)
InterruptClose(i) == Set(i, "irq", FALSE)

Step == \/ EnterCount \/ EnterCollect \/ PlainBlock \/ Branch \/ NoMoreBlocks
        \/ NextHeader \/ EndOfList \/ Turn \/ Finish

Use == \/ Cleanup
       \/ \E i \in DOMAIN table : Open(i) \/ Close(i) \/ InterruptOpen(i) \/ InterruptClose(i)

Next == Scan \/ Step \/ OutOfMemory \/ Use

Spec == Init /\ [][Next]_vars

\* Nothing preempts the scan: the processor carries it on.
FairSpec == Spec /\ WF_vars(Step)

-----------------------------------------------------------------------------
(* Properties                                                              *)

\* The headers in the order a reader of the list would write them down: a
\* header, then the lists its blocks branch to, then its next.  written[d, k] is
\* what comes of d past its first k blocks.
Preorder ==
    LET written[at \in Nodes \X (0 .. MaxBlocks)] ==
            LET d == at[1]
                k == at[2]
                list(h) == IF h = 0 THEN <<>> ELSE <<h>> \o written[<<h, 0>>]
            IN  IF k < Len(Blocks(d)) THEN list(Blocks(d)[k + 1]) \o written[<<d, k + 1>>]
                ELSE list(rom.next[d])
    IN  <<Root>> \o written[<<Root, 0>>]

\* Whatever was scanned, opened or cleaned up before, a scan that ends leaves
\* the table with every header once, in the order of the list, nothing open.
ScanIsPreorder ==
    [][phase = "end" /\ phase' = "idle" =>
          /\ Len(table') = N
          /\ \A i \in 1 .. N :
                table'[i] = [Blank EXCEPT !.node = Preorder[i],
                                          !.parent = table[i].parent,
                                          !.params = ParamCount(Preorder[i]),
                                          !.data = Len(Blocks(Preorder[i]))]]_vars

\* The stack of parents is too small only for a list nested IncrSize levels
\* deep, however often the list was scanned before, and no pass leaves
\* anything on it.
StackFits ==
    /\ phase = "overrun" => Len(frames) + 1 >= IncrSize
    /\ phase \in {"idle", "end"} => top = 0

\* The blocks in use are those the table refers to: nothing leaks over any
\* sequence of scans and clean-ups, and nothing is freed under the table.
BlocksOwned ==
    heap = UNION {IF table[i].data = 0 THEN {}
                  ELSE {<<"params", i>>} \cup {<<"data", i, j>> : j \in 1 .. table[i].data} :
                     i \in DOMAIN table}

\* The interface, by its place in the table, whose block leads to the list of d.
ListHead(d) == LET first[c \in Nodes] == IF \E b \in Nodes : rom.next[b] = c
                                         THEN first[CHOOSE b \in Nodes : rom.next[b] = c] ELSE c
               IN  first[d]
Place(d) == CHOOSE i \in 1 .. N : Preorder[i] = d
Brancher(d) == IF ListHead(d) = Root THEN -1
               ELSE Place(CHOOSE c \in Nodes : \E k \in Branches(rom, c) :
                                                   Blocks(c)[k] = ListHead(d)) - 1

\* The list of d hangs on the first block of its interface that branches.
OnFirstBranch(d) ==
    \A c \in Nodes : \A k \in Branches(rom, c) :
        Blocks(c)[k] = ListHead(d) => \A j \in Branches(rom, c) : k <= j

\* dfh_parent is right for the lists on the first branch of an interface.
FirstBranchHasParent ==
    \A i \in DOMAIN table :
        table[i].node # 0 /\ OnFirstBranch(table[i].node)
            => table[i].parent = Brancher(table[i].node)

\* intel_fpga_platform_niosv.h:78 says of dfh_parent: "Index to the
\* FPGA_INTERFACE_INFO of the parent; -1 if there is no parent".
ParentIsBranching ==
    \A i \in DOMAIN table : table[i].node # 0 => table[i].parent = Brancher(table[i].node)

\* A scan of a list that closes on itself nowhere comes to its end.
ScanEnds == phase = "enter" ~> phase \in {"idle", "overrun", "exit"}
=============================================================================
