--------------------------- MODULE DeviceTreePatch ---------------------------
(***************************************************************************)
(* The device tree on its way through the firmware (runtime device_tree.rs *)
(* and device_tree/patch): the blob that the previous stage passes is      *)
(* validated before anything reads it, and rewritten for the next stage,   *)
(* with a reservation for the firmware added and the nodes of devices that *)
(* the firmware keeps replaced by NOPs.  The next stage may start the      *)
(* firmware again with what it was given.                                  *)
(*                                                                         *)
(* The structure block is a sequence of tokens.  A node name is its stem   *)
(* and its unit address, NoUnit for none; a property names a string by its *)
(* place in the string block, and its value is a sequence of 32-bit words, *)
(* of which there are Word.  A run of NOPs is one token with its length.   *)
(***************************************************************************)
EXTENDS Integers, Sequences
LOCAL INSTANCE SequencesExt

CONSTANTS
    Blobs,     \* what the previous stage may pass: header, reservations, structure, strings
    Edits,     \* what may be asked for: reserve, <<address, size>> or NoReserve; hide, a set of paths
    Word,      \* u32::MAX + 1
    MaxDepth   \* MAX_FDT_DEPTH

VARIABLES
    blob,      \* the blob of this boot
    edit,      \* the edit asked for
    dtStep,    \* "entry", "retained", "handed"; "refused" at the entry, "rejected" later
    output,    \* the blob for the next stage
    reboots    \* whether the firmware was started again

dtVars == <<blob, edit, dtStep, output, reboots>>

NoUnit == -1
NoCell == -1
NoReserve == <<0, 0>>
NoEdit == [reserve |-> NoReserve, hide |-> {}]
RootName == <<"", NoUnit>>
BEGIN_NODE(name) == <<"begin", name>>
PROPERTY(place, value) == <<"property", place, value>>
END_NODE == <<"end_node">>
NOP(words) == <<"nop", words>>
END == <<"end">>

(* ------------------------------ format.rs ------------------------------- *)

HEADER_SIZE == 40
align_up(n, a) == ((n + a - 1) \div a) * a

\* What take_u32, take_c_string and take_aligned pass over, in bytes.
TokenBytes(t) ==
    CASE t[1] = "begin" -> 4 + align_up(Len(t[2][1]) + (IF t[2][2] = NoUnit THEN 0 ELSE 2) + 1, 4)
      [] t[1] = "property" -> 12 + 4 * Len(t[3])
      [] t[1] = "nop" -> 4 * t[2]
      [] t[1] = "odd" -> 2          \* a block that does not end at a word
      [] OTHER -> 4
StructureBytes(s) == FoldLeft(LAMBDA n, t : n + TokenBytes(t), 0, s)
StringsBytes(s) == FoldLeft(LAMBDA n, name : n + Len(name) + 1, 0, s)

\* The memory reservation block has an empty entry at its end.
ReservationBytes(b) == 16 * (b.reservations + 1)

\* Layout::parse accepts the header.
LayoutParses(b) ==
    LET h == b.header IN
    /\ h.total >= HEADER_SIZE
    /\ h.version = 17 /\ h.compatible <= 17
    /\ h.structure % 4 = 0 /\ h.strings % 4 = 0 /\ h.reservations % 8 = 0
    /\ h.reservations >= HEADER_SIZE
    /\ h.reservations + ReservationBytes(b) <= h.structure
    /\ h.structure + h.structureSize <= h.strings
    /\ h.strings + h.stringsSize <= h.total

(* -------------------- plan.rs: validate_structure ----------------------- *)

NewNode == [address |-> NoCell, size |-> NoCell, child |-> FALSE]
cells(n) == <<IF n.address = NoCell THEN 2 ELSE n.address, IF n.size = NoCell THEN 1 ELSE n.size>>
Invalid(s) == [s EXCEPT !.ok = FALSE]

ValidateBegin(s, name) ==
    IF (s.nodes = <<>> /\ (s.root \/ name # RootName)) \/ Len(s.nodes) >= MaxDepth
    THEN Invalid(s)
    ELSE [s EXCEPT !.root = TRUE,
                   !.nodes = Append([i \in DOMAIN @ |-> IF i = Len(@) THEN [@[i] EXCEPT !.child = TRUE] ELSE @[i]],
                                    NewNode)]

validate_reg_length(value, parent) ==
    parent[1] + parent[2] # 0 /\ Len(value) % (parent[1] + parent[2]) = 0

ValidateProperty(s, strings, place, value) ==
    LET depth == Len(s.nodes)
        node == s.nodes[depth]
        parent == IF depth = 1 THEN <<2, 1>> ELSE cells(s.nodes[depth - 1])
        Cell(old, new) == IF Len(value) = 1 /\ old = NoCell THEN [s EXCEPT !.nodes[depth] = new] ELSE Invalid(s)
    IN IF depth = 0 \/ place \notin DOMAIN strings THEN Invalid(s)
       ELSE IF node.child THEN Invalid(s)
       ELSE CASE strings[place] = "#address-cells" -> Cell(node.address, [node EXCEPT !.address = value[1]])
              [] strings[place] = "#size-cells" -> Cell(node.size, [node EXCEPT !.size = value[1]])
              [] strings[place] = "reg" -> IF validate_reg_length(value, parent) THEN s ELSE Invalid(s)
              [] OTHER -> s

OnlyNops(tokens) == \A i \in DOMAIN tokens : tokens[i][1] = "nop"

ValidateToken(s, b, i) ==
    LET t == b.structure[i] IN
    CASE t[1] = "begin" -> ValidateBegin(s, t[2])
      [] t[1] = "property" -> ValidateProperty(s, b.strings, t[2], t[3])
      [] t[1] = "end_node" -> IF s.nodes = <<>> THEN Invalid(s) ELSE [s EXCEPT !.nodes = Front(@)]
      [] t[1] = "nop" -> s
      [] t[1] = "end" ->
            IF s.root /\ s.nodes = <<>> /\ OnlyNops(SubSeq(b.structure, i + 1, Len(b.structure)))
            THEN [s EXCEPT !.ended = TRUE] ELSE Invalid(s)
      [] OTHER -> Invalid(s)

validate_structure(b) ==
    LET after[i \in 0 .. Len(b.structure)] ==
            IF i = 0 THEN [ok |-> TRUE, root |-> FALSE, ended |-> FALSE, nodes |-> <<>>]
            ELSE LET s == after[i - 1] IN IF s.ok /\ ~s.ended THEN ValidateToken(s, b, i) ELSE s
        last == after[Len(b.structure)]
    IN last.ok /\ last.ended

Valid(b) == LayoutParses(b) /\ validate_structure(b)

(* ----------------------- plan.rs: EditPlanner --------------------------- *)

NoPlace == 0

\* The path of a node is the names of the open nodes below the root.
NodePath(stack) == [i \in 1 .. Len(stack) - 1 |-> stack[i + 1].name]

IsReservedMemory(path) == Len(path) = 1 /\ path[1][1] = "reserved-memory"

PlanBegin(p, i, name) ==
    IF p.rootEnd # NoPlace \/ (p.stack = <<>> /\ name # RootName)
    THEN Invalid(p)
    ELSE [p EXCEPT !.stack = Append(@, [start |-> i, name |-> name, address |-> NoCell, size |-> NoCell,
                                        enabled |-> TRUE, emptyRanges |-> FALSE])]

PlanProperty(p, strings, place, value) ==
    LET depth == Len(p.stack)
        reserved == IsReservedMemory(NodePath(p.stack))
    IN IF depth = 0 \/ place \notin DOMAIN strings THEN Invalid(p)
       ELSE CASE strings[place] = "#address-cells" ->
                    IF Len(value) = 1 THEN [p EXCEPT !.stack[depth].address = value[1]] ELSE Invalid(p)
              [] strings[place] = "#size-cells" ->
                    IF Len(value) = 1 THEN [p EXCEPT !.stack[depth].size = value[1]] ELSE Invalid(p)
              [] strings[place] = "ranges" /\ reserved -> [p EXCEPT !.stack[depth].emptyRanges = value = <<>>]
              [] strings[place] = "status" /\ reserved ->
                    [p EXCEPT !.stack[depth].enabled = value \in {<<"ok">>, <<"okay">>}]
              [] OTHER -> p

\* Mutant: a node under /reserved-memory is added behind its end, not before it.
MReservedEnd(i) == i + 1

\* The end of /reserved-memory is the offset of its end token.
ReservedEnd(i) == i

PlanEnd(p, i, e, resvName) ==
    LET node == Last(p.stack)
        path == NodePath(p.stack)
        hides == IF path \in e.hide THEN <<<<node.start, i>>>> ELSE <<>>
    IN IF p.stack = <<>> \/ (IsReservedMemory(path) /\ p.reserved.end # NoPlace) THEN Invalid(p)
       ELSE [p EXCEPT
                !.stack = Front(@),
                !.reserved = IF IsReservedMemory(path)
                             THEN [end |-> ReservedEnd(i), cells |-> cells(node),
                                   accepts |-> node.enabled /\ node.address # NoCell /\ node.size # NoCell
                                               /\ node.emptyRanges]
                             ELSE @,
                !.exists = @ \/ (Len(path) = 2 /\ IsReservedMemory(Front(path)) /\ path[2] = resvName),
                !.hidden = @ \o hides,
                !.rootEnd = IF path = <<>> THEN i ELSE @,
                !.rootCells = IF path = <<>> THEN cells(node) ELSE @]

PlanToken(p, b, i, e, resvName) ==
    LET t == b.structure[i] IN
    CASE t[1] = "begin" -> PlanBegin(p, i, t[2])
      [] t[1] = "property" -> PlanProperty(p, b.strings, t[2], t[3])
      [] t[1] = "end_node" -> PlanEnd(p, i, e, resvName)
      [] t[1] = "nop" -> p
      [] t[1] = "end" ->
            IF p.stack = <<>> /\ p.rootEnd # NoPlace /\ OnlyNops(SubSeq(b.structure, i + 1, Len(b.structure)))
            THEN [p EXCEPT !.ended = TRUE] ELSE Invalid(p)
      [] OTHER -> Invalid(p)

\* format!("mmode_resv1@{:x}", address)
ReservationName(e) == <<"mmode_resv1", e.reserve[1]>>

plan_edits(b, e) ==
    LET resvName == IF e.reserve = NoReserve THEN RootName ELSE ReservationName(e)
        after[i \in 0 .. Len(b.structure)] ==
            IF i = 0
            THEN [ok |-> TRUE, ended |-> FALSE, stack |-> <<>>, rootEnd |-> NoPlace, rootCells |-> <<0, 0>>,
                  reserved |-> [end |-> NoPlace, cells |-> <<0, 0>>, accepts |-> FALSE],
                  exists |-> FALSE, hidden |-> <<>>]
            ELSE LET p == after[i - 1] IN IF p.ok /\ ~p.ended THEN PlanToken(p, b, i, e, resvName) ELSE p
    IN after[Len(b.structure)]

Planned(p) == p.ok /\ p.ended

(* ------------------------------ patch.rs -------------------------------- *)

nop_nodes(structure, spans) ==
    [i \in DOMAIN structure |->
        IF \E k \in DOMAIN spans : i \in spans[k][1] .. spans[k][2]
        THEN NOP(TokenBytes(structure[i]) \div 4)
        ELSE structure[i]]

FitsCells(value, count) == count = 2 \/ (count = 1 /\ value < Word)
push_cells(value, count) == IF count = 1 THEN <<value>> ELSE <<value \div Word, value % Word>>

\* Mutant: a reservation that is there already is not looked for.
MCanReserve(p, e) ==
    /\ p.reserved.end # NoPlace => p.reserved.accepts /\ p.reserved.cells = p.rootCells
    /\ p.rootCells[1] \in 1 .. 2 /\ p.rootCells[2] \in 1 .. 2
    /\ FitsCells(e.reserve[1], p.rootCells[1]) /\ FitsCells(e.reserve[2], p.rootCells[2])

\* What add_firmware_reservation accepts: it wants an enabled /reserved-memory
\* whose cells are the root's, or none at all.
CanReserve(p, e) ==
    /\ p.reserved.end # NoPlace => p.reserved.accepts /\ p.reserved.cells = p.rootCells /\ ~p.exists
    /\ p.rootCells[1] \in 1 .. 2 /\ p.rootCells[2] \in 1 .. 2
    /\ FitsCells(e.reserve[1], p.rootCells[1]) /\ FitsCells(e.reserve[2], p.rootCells[2])

\* rebuild: the blocks one after the other, and a header for them.
Rebuilt(b, structure, strings) ==
    LET at == HEADER_SIZE + ReservationBytes(b)
        stringsAt == at + StructureBytes(structure)
    IN [b EXCEPT !.structure = structure, !.strings = strings,
                 !.header = [@ EXCEPT !.reservations = HEADER_SIZE, !.structure = at, !.strings = stringsAt,
                                      !.structureSize = StructureBytes(structure),
                                      !.stringsSize = StringsBytes(strings),
                                      !.total = align_up(stringsAt + StringsBytes(strings), 4)]]

add_firmware_reservation(b, p, structure, e) ==
    LET n == Len(b.strings)
        reg == push_cells(e.reserve[1], p.rootCells[1]) \o push_cells(e.reserve[2], p.rootCells[2])
        child == <<BEGIN_NODE(ReservationName(e)), PROPERTY(n + 4, reg), PROPERTY(n + 5, <<>>), END_NODE>>
        parent == <<BEGIN_NODE(<<"reserved-memory", NoUnit>>), PROPERTY(n + 1, <<p.rootCells[1]>>),
                    PROPERTY(n + 2, <<p.rootCells[2]>>), PROPERTY(n + 3, <<>>)>> \o child \o <<END_NODE>>
        place == IF p.reserved.end # NoPlace THEN p.reserved.end ELSE p.rootEnd
        insertion == IF p.reserved.end # NoPlace THEN child ELSE parent
    IN Rebuilt(b, SubSeq(structure, 1, place - 1) \o insertion \o SubSeq(structure, place, Len(structure)),
               b.strings \o <<"#address-cells", "#size-cells", "ranges", "reg", "no-map">>)

prepare_next_stage(b, e) ==
    LET p == plan_edits(b, e)
        structure == nop_nodes(b.structure, p.hidden)
    IN IF e.reserve = NoReserve THEN [b EXCEPT !.structure = structure]
       ELSE add_firmware_reservation(b, p, structure, e)

CanPrepare(b, e) ==
    /\ \A path \in e.hide : path # <<>>
    /\ LayoutParses(b) /\ Planned(plan_edits(b, e))
    /\ e.reserve # NoReserve => CanReserve(plan_edits(b, e), e)

(* -------------------------- device_tree.rs ------------------------------ *)

DtInit ==
    /\ blob \in Blobs
    /\ edit = NoEdit /\ dtStep = "entry" /\ output = blob /\ reboots = 0

from_raw ==
    /\ dtStep = "entry"
    /\ dtStep' = IF Valid(blob) THEN "retained" ELSE "refused"
    /\ UNCHANGED <<blob, edit, output, reboots>>

\* With nothing to change the next stage gets the blob itself.
PrepareNextStage(e) ==
    /\ dtStep = "retained"
    /\ edit' = e
    /\ \/ e = NoEdit /\ dtStep' = "handed" /\ output' = blob
       \/ e # NoEdit /\ CanPrepare(blob, e) /\ dtStep' = "handed" /\ output' = prepare_next_stage(blob, e)
       \/ e # NoEdit /\ ~CanPrepare(blob, e) /\ dtStep' = "rejected" /\ UNCHANGED output
    /\ UNCHANGED <<blob, reboots>>

\* The next stage starts the firmware with the tree that it was given.
StartAgain ==
    /\ dtStep = "handed" /\ reboots = 0
    /\ blob' = output /\ dtStep' = "entry" /\ reboots' = 1
    /\ UNCHANGED <<edit, output>>

DtNext == from_raw \/ (\E e \in Edits : PrepareNextStage(e)) \/ StartAgain

DtSpec == DtInit /\ [][DtNext]_dtVars

(* ------------------------------ properties ------------------------------ *)

\* The tree of a valid blob, as the next stage reads it: its nodes in document
\* order, each with its path and its properties.
ReadTree(b) ==
    LET after[i \in 0 .. Len(b.structure)] ==
            IF i = 0 THEN [path |-> <<>>, nodes |-> <<>>]
            ELSE LET t == b.structure[i]
                     r == after[i - 1]
                     n == Len(r.nodes)
                 IN CASE t[1] = "begin" ->
                            LET path == IF n = 0 THEN <<>> ELSE Append(r.path, t[2])
                            IN [path |-> path, nodes |-> Append(r.nodes, [path |-> path, props |-> <<>>])]
                      [] t[1] = "property" ->
                            [r EXCEPT !.nodes[n].props = Append(@, <<b.strings[t[2]], t[3]>>)]
                      [] t[1] = "end_node" -> [r EXCEPT !.path = IF @ = <<>> THEN @ ELSE Front(@)]
                      [] OTHER -> r
    IN after[Len(b.structure)].nodes

PropertyOf(node, name, default) ==
    LET found == SelectSeq(node.props, LAMBDA q : q[1] = name)
    IN IF found = <<>> THEN default ELSE found[1][2]
CellsOf(node) == <<PropertyOf(node, "#address-cells", <<2>>)[1], PropertyOf(node, "#size-cells", <<1>>)[1]>>
NumberIn(words) == FoldLeft(LAMBDA n, w : n * Word + w, 0, words)

\* Node n of the tree keeps the range from the next stage: its reg is the range
\* in its parent's cells, and a parent that is on maps its addresses one to one.
ReservesRange(tree, n, range) ==
    LET reg == PropertyOf(tree[n], "reg", <<>>) IN
    \E m \in 1 .. n - 1 :
        LET width == CellsOf(tree[m]) IN
        /\ tree[m].path = Front(tree[n].path) /\ IsReservedMemory(tree[m].path)
        /\ PropertyOf(tree[m], "ranges", <<0>>) = <<>>
        /\ PropertyOf(tree[m], "status", <<"okay">>) \in {<<"ok">>, <<"okay">>}
        /\ width = CellsOf(tree[1])
        /\ Len(reg) = width[1] + width[2]
        /\ <<NumberIn(SubSeq(reg, 1, width[1])), NumberIn(SubSeq(reg, width[1] + 1, Len(reg)))>> = range
        /\ PropertyOf(tree[n], "no-map", <<"missing">>) = <<>>

\* The next stage sees the tree without the hidden nodes, with the reservation
\* of the firmware where one was asked for, and otherwise as it was.
NextTreeIsExact ==
    dtStep = "handed" =>
        LET kept == SelectSeq(ReadTree(blob), LAMBDA n : \A h \in edit.hide : ~IsPrefix(h, n.path))
            got == ReadTree(output)
        IN IF edit.reserve = NoReserve THEN got = kept
           ELSE \E n \in DOMAIN got :
                    /\ got[n].path # <<>> /\ Last(got[n].path) = ReservationName(edit)
                    /\ ReservesRange(got, n, edit.reserve)
                    /\ \/ RemoveAt(got, n) = kept
                       \/ n = Len(got) /\ SubSeq(got, 1, n - 2) = kept
                          /\ \A i \in DOMAIN kept : ~IsReservedMemory(kept[i].path)

\* What is handed on would be retained by a firmware that is started with it, and
\* its header describes its blocks.
NextBlobIsValid ==
    dtStep = "handed" =>
        /\ Valid(output)
        /\ output.header.structureSize = StructureBytes(output.structure)
        /\ output.header.stringsSize = StringsBytes(output.strings)
        /\ output.reservations = blob.reservations

\* Why a tree has no room for the firmware's reservation: the root's cells cannot
\* hold the range, or a /reserved-memory is off, does not map its addresses one to
\* one, does not say that its cells are the root's, or has a node of the name.
HasNoRoom(tree, e) ==
    LET width == CellsOf(tree[1]) IN
    \/ \E k \in 1 .. 2 : width[k] \notin 1 .. 2 \/ (width[k] = 1 /\ e.reserve[k] >= Word)
    \/ \E m \in DOMAIN tree : IsReservedMemory(tree[m].path) /\
        \/ PropertyOf(tree[m], "status", <<"okay">>) \notin {<<"ok">>, <<"okay">>}
        \/ PropertyOf(tree[m], "ranges", <<0>>) # <<>>
        \/ PropertyOf(tree[m], "#address-cells", <<>>) # <<width[1]>>
        \/ PropertyOf(tree[m], "#size-cells", <<>>) # <<width[2]>>
        \/ \E n \in DOMAIN tree : tree[n].path = Append(tree[m].path, ReservationName(e))

\* A tree that was retained is rejected when it is to be changed exactly if it has
\* two /reserved-memory nodes, whatever the change, or has no room for the
\* reservation asked for.  The firmware's own output has none for the same one.
RejectionIsJustified ==
    dtStep \in {"handed", "rejected"} /\ edit # NoEdit =>
        LET tree == ReadTree(blob) IN
        dtStep = "rejected" <=>
            \/ \E m, n \in DOMAIN tree : m # n /\ IsReservedMemory(tree[m].path) /\ IsReservedMemory(tree[n].path)
            \/ edit.reserve # NoReserve /\ HasNoRoom(tree, edit)

\* Rewriting the device tree changes what was asked for and nothing else, leaves a
\* tree that a firmware started with it would retain, and is refused exactly for
\* what the tree says about reservations, one made by this firmware included.
\* (prepare_next_stage, plan_edits, add_firmware_reservation, rebuild)
PatchIsExact == NextTreeIsExact /\ NextBlobIsValid /\ RejectionIsJustified
==============================================================================
