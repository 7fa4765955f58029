----------------------------- MODULE HardwareDesc -----------------------------
(***************************************************************************)
(* How firmware describes the hardware to what it boots (mini-hardware-desc)*)
(* the list of hand-off blocks (hob.c) and the flattened device tree, read  *)
(* token by token into nodes that are then looked up (device_tree.c).       *)
(*                                                                         *)
(* Abstracted: a property is a name and its 32-bit cells, numbers keep two  *)
(* cells and wrap; strings of "compatible" stand as cells; a blob is good   *)
(* when its magic and version are.  Nodes are numbered in the order they    *)
(* are allocated, so a parent comes before its children; 0 is NULL.         *)
(* Not modelled: interrupt specifiers, AML, ACPI and SMBIOS tables, printing*)
(***************************************************************************)
EXTENDS Integers, Sequences, FiniteSets, FiniteSetsExt, SequencesExt

CONSTANTS
  HobKinds,      \* types of the blocks a caller adds
  MaxHobs,       \* HOB_MAX_COUNT (256)
  FtBlobs,       \* blobs: [good, offsets : BOOLEAN, reserve : Seq(cells), tokens]
  CellWord,      \* values of a cell (2^32)
  FtAddresses,   \* addresses translated
  MaxFtProps, MaxFtChildren, MaxFtReserve, MaxPhandles
                 \* FDT_MAX_PROPS, _CHILDREN, _RESERVE_ENTRIES, _PHANDLE_MAP

VARIABLES
  hbList,        \* HOBList: [hobs, finalized]
  hbHanded,      \* history: the list as it was when it was finalized
  ftBlob,        \* the blob being read
  ftAt,          \* tokens of it that were read
  ftNodes,       \* nodes: [name, parent, kids, props, phandle]
  ftStack,       \* calls of fdt_parse_struct, innermost last: [parent, node]
  ftTree,        \* FDTTree: [root, parsed, reserve, map]
  ftClosed       \* history: nodes whose FDT_END_NODE was read

hobvars == <<hbList, hbHanded>>
fdtvars == <<ftBlob, ftAt, ftNodes, ftStack, ftTree, ftClosed>>
hwvars == <<hobvars, fdtvars>>

-----------------------------------------------------------------------------
\* Hand-off blocks.

HobInit == hbList = [hobs |-> << >>, finalized |-> FALSE] /\ hbHanded = << >>

\* hob_init, by which every list begins, whatever it held.
HobStart ==
  /\ hbList' = [hobs |-> <<"phit">>, finalized |-> FALSE]
  /\ hbHanded' = << >>

HobRoom == hbList.hobs # << >> /\ ~hbList.finalized /\ Len(hbList.hobs) < MaxHobs

\* Mutant: a block is taken after the end of the list.
HobAddLate(kind) ==
  /\ hbList.hobs # << >> /\ Len(hbList.hobs) < MaxHobs
  /\ hbList' = [hbList EXCEPT !.hobs = Append(@, kind)]
  /\ UNCHANGED hbHanded

\* hob_add_memory_alloc, _resource_desc, _firmware_volume, _cpu
HobAdd(kind) ==
  /\ HobRoom
  /\ hbList' = [hbList EXCEPT !.hobs = Append(@, kind)]
  /\ UNCHANGED hbHanded

\* hob_finalize: the end takes a place of its own, which a full list refuses.
HobFinalize ==
  /\ HobRoom
  /\ hbList' = [hobs |-> Append(hbList.hobs, "end"), finalized |-> TRUE]
  /\ hbHanded' = <<hbList.hobs>>

\* hob_find_by_type
HobFind(kind, max) ==
  LET all == SelectSeq(hbList.hobs, LAMBDA h : h = kind)
  IN  SubSeq(all, 1, Min({Len(all), max}))

HobNext == HobStart \/ (\E k \in HobKinds : HobAdd(k)) \/ HobFinalize

-----------------------------------------------------------------------------
\* Reading a device tree.

NoTree == [root |-> 0, parsed |-> FALSE, reserve |-> << >>, map |-> << >>]
NoBlob == [good |-> FALSE, offsets |-> FALSE, reserve |-> << >>, tokens |-> << >>]
FdtInit ==
  /\ ftBlob = NoBlob /\ ftAt = 0 /\ ftNodes = << >> /\ ftStack = << >>
  /\ ftTree = NoTree /\ ftClosed = {}

\* fdt_parse_mem_rsvmap: up to an entry that is zero.
Reserved(list) ==
  LET zeros == {i \in DOMAIN list : list[i] = <<0, 0>>}
      upto  == IF zeros = {} THEN Len(list) ELSE Min(zeros) - 1
  IN  SubSeq(list, 1, Min({upto, MaxFtReserve}))

\* fdt_parse up to the structure block: it clears the tree, which its owner has freed.
FdtStart(blob) ==
  /\ ftStack = << >> /\ ftBlob = NoBlob
  /\ ftBlob' = blob /\ ftAt' = 0 /\ ftNodes' = << >> /\ ftClosed' = {}
  /\ ftTree' = IF blob.good THEN [NoTree EXCEPT !.reserve = Reserved(blob.reserve)] ELSE NoTree
  /\ ftStack' = IF blob.good THEN <<[parent |-> 0, node |-> 0]>> ELSE << >>

Token == ftBlob.tokens[ftAt + 1]
Frame == Last(ftStack)
Reads(kind) ==
  /\ ftStack # << >> /\ ftAt < Len(ftBlob.tokens) /\ Token.kind = kind
  /\ ftAt' = ftAt + 1
  /\ UNCHANGED ftBlob

\* Mutant: a node hangs on the sibling before it.
AttachedToSibling(name) ==
  LET above == IF Frame.node # 0 THEN Frame.node ELSE Frame.parent
      node == [name |-> name, parent |-> Frame.parent, kids |-> << >>, props |-> << >>, phandle |-> 0]
  IN  [i \in 1..(Len(ftNodes) + 1) |->
         IF i > Len(ftNodes) THEN node
         ELSE IF i = above THEN [ftNodes[i] EXCEPT !.kids = Append(@, Len(ftNodes) + 1)]
         ELSE ftNodes[i]]

\* The nodes with one more under the parent of the call, listed there while it has room.
Attached(name) ==
  LET node == [name |-> name, parent |-> Frame.parent, kids |-> << >>, props |-> << >>, phandle |-> 0]
  IN  [i \in 1..(Len(ftNodes) + 1) |->
         IF i > Len(ftNodes) THEN node
         ELSE IF i = Frame.parent /\ Len(ftNodes[i].kids) < MaxFtChildren
         THEN [ftNodes[i] EXCEPT !.kids = Append(@, Len(ftNodes) + 1)]
         ELSE ftNodes[i]]

\* fdt_parse_struct, FDT_BEGIN_NODE: a call for what the node contains.
FdtBegin ==
  /\ Reads("begin")
  /\ LET new == Len(ftNodes) + 1
     IN  /\ ftNodes' = Attached(Token.name)
         /\ ftTree' = IF Frame.parent = 0 THEN [ftTree EXCEPT !.root = new] ELSE ftTree
         /\ ftStack' = Append(ReplaceAt(ftStack, Len(ftStack), [Frame EXCEPT !.node = new]),
                              [parent |-> new, node |-> 0])
  /\ UNCHANGED ftClosed

\* The node a token belongs to: the last child begun in this call, if there is one.
Current == IF Frame.node # 0 THEN Frame.node ELSE Frame.parent

Phandles(n) == SelectSeq(ftNodes[n].props, LAMBDA p : p.name = "phandle" /\ p.cells # << >>)

\* fdt_parse_struct, FDT_END_NODE: caches a phandle and returns.
FdtEnd ==
  /\ Reads("end")
  /\ ftStack' = Front(ftStack)
  /\ ftClosed' = IF Frame.parent = 0 THEN ftClosed ELSE ftClosed \union {Frame.parent}
  /\ IF Current # 0 /\ Phandles(Current) # << >>
     THEN LET p == Phandles(Current)[1].cells[1]
          IN  /\ ftNodes' = [ftNodes EXCEPT ![Current].phandle = p]
              /\ ftTree' = IF Len(ftTree.map) < MaxPhandles
                           THEN [ftTree EXCEPT !.map = Append(@, [phandle |-> p, node |-> Current])]
                           ELSE ftTree
     ELSE UNCHANGED <<ftNodes, ftTree>>

\* fdt_parse_struct, FDT_PROP
FdtProp ==
  /\ Reads("prop")
  /\ Current # 0
  /\ ftNodes' = IF Len(ftNodes[Current].props) < MaxFtProps
                THEN [ftNodes EXCEPT ![Current].props =
                        Append(@, [name |-> Token.name, cells |-> Token.cells])]
                ELSE ftNodes
  /\ UNCHANGED <<ftStack, ftTree, ftClosed>>

\* fdt_parse_struct, FDT_END, which ends one call and not its callers; FDT_NOP.
FdtFinish ==
  /\ Reads("finish")
  /\ ftTree' = [ftTree EXCEPT !.parsed = TRUE]
  /\ ftStack' = Front(ftStack)
  /\ UNCHANGED <<ftNodes, ftClosed>>
FdtNop == Reads("nop") /\ UNCHANGED <<ftNodes, ftStack, ftTree, ftClosed>>

\* fdt_parse_struct gives up on a token it does not know and on a property before
\* any node, and every call with it; what was read stays.
FdtRefuse ==
  /\ Reads("bad") \/ (Reads("prop") /\ Current = 0)
  /\ ftStack' = << >>
  /\ UNCHANGED <<ftNodes, ftTree, ftClosed>>

\* fdt_parse_struct at the end of the blob: every call returns.
FdtRunOut ==
  /\ ftStack # << >> /\ ftAt = Len(ftBlob.tokens)
  /\ ftStack' = << >>
  /\ UNCHANGED <<ftBlob, ftAt, ftNodes, ftTree, ftClosed>>

\* fdt_validate
FdtValid == ftTree.parsed /\ ftBlob.good /\ ftTree.root # 0 /\ ftBlob.offsets

\* fdt_free_tree
FdtFree ==
  /\ ftStack = << >>
  /\ ftBlob' = NoBlob /\ ftAt' = 0 /\ ftNodes' = << >> /\ ftTree' = NoTree /\ ftClosed' = {}
  /\ UNCHANGED ftStack

FdtNext ==
  \/ \E blob \in FtBlobs : FdtStart(blob)
  \/ FdtBegin \/ FdtEnd \/ FdtProp \/ FdtFinish \/ FdtNop \/ FdtRefuse \/ FdtRunOut
  \/ FdtFree

HardwareDescInit == HobInit /\ FdtInit
-----------------------------------------------------------------------------
\* Looking things up.

\* fdt_find_child_by_name, and a step of fdt_find_node_by_path.
ChildNamed(n, name) ==
  LET found == {k \in DOMAIN ftNodes[n].kids : ftNodes[ftNodes[n].kids[k]].name = name}
  IN  IF found = {} THEN 0 ELSE ftNodes[n].kids[Min(found)]
FindByPath(path) ==
  FoldLeft(LAMBDA n, name : IF n = 0 THEN 0 ELSE ChildNamed(n, name), ftTree.root, path)

\* fdt_find_node_by_phandle: the first cached.
FindByPhandle(p) ==
  LET found == {i \in DOMAIN ftTree.map : ftTree.map[i].phandle = p}
  IN  IF p = 0 \/ found = {} THEN 0 ELSE ftTree.map[Min(found)].node

\* fdt_get_prop_value, fdt_read_prop_u32: the first property of the name.
PropsNamed(n, name) == SelectSeq(ftNodes[n].props, LAMBDA p : p.name = name)
Cells(n, name) == IF PropsNamed(n, name) = << >> THEN << >> ELSE PropsNamed(n, name)[1].cells

\* fdt_get_address_cells, fdt_get_size_cells: a node without the property takes
\* the number of its parent, the root the default.
CellsOf(n, name, default) ==
  LET count[i \in 0..Len(ftNodes)] ==
        IF i = 0 THEN default
        ELSE IF Cells(i, name) # << >> THEN Cells(i, name)[1] ELSE count[ftNodes[i].parent]
  IN  count[n]
AddressCells(n) == CellsOf(n, "#address-cells", 2)
SizeCells(n) == CellsOf(n, "#size-cells", 1)

AddrWord == CellWord * CellWord
Number(cells) == FoldLeft(LAMBDA acc, c : (acc * CellWord + c) % AddrWord, 0, cells)

\* The windows of a bus, as fdt_translate_address cuts its "ranges".
Windows(n) ==
  LET cc == AddressCells(n)
      pc == AddressCells(ftNodes[n].parent)
      sc == SizeCells(n)
      cells == Cells(n, "ranges")
      entry(i) == (i - 1) * (cc + pc + sc)
  IN  [i \in 1..(Len(cells) \div (cc + pc + sc)) |->
         [child  |-> Number(SubSeq(cells, entry(i) + 1, entry(i) + cc)),
          parent |-> Number(SubSeq(cells, entry(i) + cc + 1, entry(i) + cc + pc)),
          size   |-> Number(SubSeq(cells, entry(i) + cc + pc + 1, entry(i) + cc + pc + sc))]]

\* fdt_translate_address, one bus: the first window around the address; the end
\* of a window wraps.
Shifted(n, addr) ==
  LET w == Windows(n)
      around == {i \in DOMAIN w : addr >= w[i].child /\ addr < (w[i].child + w[i].size) % AddrWord}
  IN  IF Cells(n, "ranges") = << >> \/ around = {} THEN addr
      ELSE (w[Min(around)].parent + (addr - w[Min(around)].child)) % AddrWord

\* fdt_translate_address, up to the root.
TranslateAddress(n, addr) ==
  LET up[i \in 1..Len(ftNodes), a \in 0..(AddrWord - 1)] ==
        IF ftNodes[i].parent = 0 THEN a ELSE up[ftNodes[i].parent, Shifted(i, a)]
  IN  up[n, addr]

\* fdt_find_interrupt_parent: a name, of the node or on the way up, is final even
\* if it leads nowhere; on the way up a controller comes before its own name.
InterruptParent(n) ==
  LET named(i) == Cells(i, "interrupt-parent") # << >> /\ Cells(i, "interrupt-parent")[1] # 0
      lookup(i) == FindByPhandle(Cells(i, "interrupt-parent")[1])
      up[i \in 0..Len(ftNodes)] ==
        IF i = 0 THEN 0
        ELSE IF PropsNamed(i, "interrupt-controller") # << >> THEN i
        ELSE IF named(i) THEN lookup(i) ELSE up[ftNodes[i].parent]
  IN  IF named(n) THEN lookup(n) ELSE up[ftNodes[n].parent]

\* fdt_find_compatible, from the root.
Reachable(n) ==
  LET r[i \in 1..Len(ftNodes)] ==
        i = ftTree.root \/ (ftNodes[i].parent # 0 /\ i \in Range(ftNodes[ftNodes[i].parent].kids)
                            /\ r[ftNodes[i].parent])
  IN  r[n]
FindCompatible(name) ==
  LET found == {n \in DOMAIN ftNodes :
                  Reachable(n) /\ \E p \in Range(PropsNamed(n, "compatible")) : name \in Range(p.cells)}
  IN  IF found = {} THEN 0 ELSE Min(found)

-----------------------------------------------------------------------------
\* Properties.

HardwareDescTypeOK ==
  /\ Len(hbList.hobs) <= MaxHobs /\ hbList.finalized \in BOOLEAN
  /\ ftAt \in 0..Len(ftBlob.tokens)
  /\ \A i \in DOMAIN ftNodes :
       /\ ftNodes[i].parent \in 0..(i - 1)
       /\ Range(ftNodes[i].kids) \subseteq (i + 1)..Len(ftNodes)
       /\ Len(ftNodes[i].kids) <= MaxFtChildren /\ Len(ftNodes[i].props) <= MaxFtProps
  /\ ftTree.root \in 0..Len(ftNodes)
  /\ Len(ftTree.map) <= MaxPhandles /\ Len(ftTree.reserve) <= MaxFtReserve

\* What is handed over is what was there when the list was ended: one table first
\* and one end, last; a list that filled up before it was ended never gets one
\* (hob.c).
HobsHandedOver ==
  /\ hbList.finalized => hbList.hobs = Append(hbHanded[1], "end")
  /\ hbList.hobs # << >> => HobFind("phit", MaxHobs) = <<"phit">> /\ hbList.hobs[1] = "phit"
  /\ Len(HobFind("end", MaxHobs)) = IF hbList.finalized THEN 1 ELSE 0

\* The names on the way from the root to a node.
PathOf(n) ==
  LET path[i \in 0..Len(ftNodes)] ==
        IF i = 0 \/ ftNodes[i].parent = 0 THEN << >>
        ELSE Append(path[ftNodes[i].parent], ftNodes[i].name)
  IN  path[n]

\* The children of a node are the first that began in it, as many as there is room
\* for.  A node of a tree without twins is found by the names on the way to it; among
\* twins only the first is followed, even where it leads nowhere.  The interrupts
\* of a node reach nobody only if nobody on its way offers to take them, or
\* somebody on it names one that is not in the cache.  A tree that validates was
\* read up to a FDT_END, and if that came after all its nodes, to its end
\* (device_tree.c).
TreeFollowsBlob ==
  /\ FdtValid => \E f \in 1..ftAt :
       LET counted(kind) == Cardinality({i \in 1..f : ftBlob.tokens[i].kind = kind})
       IN  /\ ftBlob.tokens[f].kind = "finish" /\ counted("finish") = 1
           /\ counted("begin") = counted("end") => ftStack = << >> /\ ftTree.root \in ftClosed
  /\ \A n \in DOMAIN ftNodes :
       LET begun == SelectSeq([i \in DOMAIN ftNodes |-> i], LAMBDA i : ftNodes[i].parent = n)
       IN  ftNodes[n].kids = SubSeq(begun, 1, Min({Len(begun), MaxFtChildren}))
  /\ ftTree.parsed => \A n \in DOMAIN ftNodes :
       LET m == FindByPath(PathOf(n))
           upTo[i \in 0..Len(ftNodes)] ==
             IF i = 0 THEN {} ELSE {i} \union upTo[ftNodes[i].parent]
           way == upTo[n]
           twins == \E i, j \in DOMAIN ftNodes : i < j /\ PathOf(i) = PathOf(j)
       IN  /\ Reachable(n) => (m # 0 /\ m <= n /\ PathOf(m) = PathOf(n)) \/ (m = 0 /\ twins)
           /\ InterruptParent(n) = 0
                /\ (\E i \in way \ {n} : PropsNamed(i, "interrupt-controller") # << >>) =>
              \E i \in way : Cells(i, "interrupt-parent") # << >> /\
                             FindByPhandle(Cells(i, "interrupt-parent")[1]) = 0
           /\ \A q \in Range(PropsNamed(n, "compatible")) : \A c \in Range(q.cells) :
                Reachable(n) => FindCompatible(c) \in 1..n

\* A phandle is cached when its node is closed without children, and when the
\* node is the last child of one that is closed; never otherwise, so that a
\* controller with children may be unknown by name (device_tree.c:88).
PhandlesCached ==
  LET lastOf(n) == {k \in DOMAIN ftNodes : ftNodes[k].parent = n}
      cached(n) == \/ n \in ftClosed /\ lastOf(n) = {}
                   \/ \E p \in ftClosed : lastOf(p) # {} /\ Max(lastOf(p)) = n
  IN  \A n \in DOMAIN ftNodes : Phandles(n) # << >> /\ Len(ftTree.map) < MaxPhandles =>
        (cached(n) <=> \E i \in DOMAIN ftTree.map : ftTree.map[i].node = n)

\* "cache phandle for the closing node" (device_tree.c:90): a node that is closed is
\* found by its phandle.  It is not if it has children and a sibling after it.
ClosedPhandlesCached ==
  \A n \in ftClosed : Phandles(n) # << >> /\ Len(ftTree.map) < MaxPhandles =>
    \E i \in DOMAIN ftTree.map : ftTree.map[i].node = n

\* An address is shifted by the first window that holds it as a range of numbers,
\* bus after bus up to the root, as long as no window reaches the last address
\* (device_tree.c).
AddressesFollowWindows ==
  ftTree.parsed => \A n \in DOMAIN ftNodes : \A a \in FtAddresses :
    LET whole(i) == ftNodes[i].parent = 0 \/
                      \A k \in DOMAIN Windows(i) : Windows(i)[k].child + Windows(i)[k].size < AddrWord
        around(i, b) == {k \in DOMAIN Windows(i) :
                           b - Windows(i)[k].child \in 0..(Windows(i)[k].size - 1)}
        up[i \in 1..Len(ftNodes), b \in 0..(AddrWord - 1)] ==
          IF ftNodes[i].parent = 0 THEN b
          ELSE IF around(i, b) = {} THEN up[ftNodes[i].parent, b]
          ELSE LET w == Windows(i)[Min(around(i, b))]
               IN  up[ftNodes[i].parent, (w.parent + b - w.child) % AddrWord]
    IN  (\A i \in DOMAIN ftNodes : whole(i)) => TranslateAddress(n, a) = up[n, a]
=============================================================================
