----------------------------- MODULE MCDeviceTree -----------------------------
(****************************************************************************)
(* DeviceTreePatch for TLC: trees with and without a usable reserved-memory *)
(* node, devices to hide at the root and below a bus, malformed structures, *)
(* and headers whose blocks have gaps, overlap or are not aligned.          *)
(****************************************************************************)
EXTENDS DeviceTreePatch

TreeStrings == <<"#address-cells", "#size-cells", "ranges", "reg", "status">>
CellProps(a, s) == <<PROPERTY(1, <<a>>), PROPERTY(2, <<s>>)>>
Node(stem, unit, inner) == <<BEGIN_NODE(<<stem, unit>>)>> \o inner \o <<END_NODE>>
Root(inner) == Node("", NoUnit, inner) \o <<END>>

Imsic == Node("imsic", 8, <<>>)
Soc == Node("soc", NoUnit, Imsic \o <<NOP(1)>> \o Node("uart", 1, <<>>))
RootCells == {<<>>, CellProps(1, 1), CellProps(2, 2), CellProps(2, 3)}
EmptyRanges == <<PROPERTY(3, <<>>)>>
ReservedNodes ==
    {Node("reserved-memory", NoUnit, c \o r \o k) :
        c \in {<<>>, CellProps(1, 1), CellProps(2, 2)},
        r \in {<<>>, EmptyRanges, <<PROPERTY(3, <<0>>)>>, EmptyRanges \o <<PROPERTY(5, <<"disabled">>)>>},
        k \in {<<>>, Node("mmode_resv1", 2, <<>>), Node("keep", 3, <<PROPERTY(4, <<1, 1>>)>>)}}
    \cup {Node("reserved-memory", 0, CellProps(2, 2) \o EmptyRanges)}
Trees ==
    {Root(c \o a \o r \o d) : c \in RootCells, a \in {<<>>, Imsic}, r \in {<<>>} \cup ReservedNodes, d \in {<<>>, Soc}}
    \cup {Root(CellProps(2, 2) \o Node("reserved-memory", NoUnit, <<>>) \o Node("reserved-memory", 0, <<>>))}

Deep(inner) == Node("a", 1, Node("b", 1, inner))
Malformed ==
    {Root(<<>>) \o <<NOP(2)>>, Root(<<>>) \o <<<<"odd">>>>, Root(<<>>) \o <<END_NODE>>,
     Node("", NoUnit, <<>>) \o Root(<<>>), <<BEGIN_NODE(RootName), END>>, <<END_NODE, END>>, <<END>>,
     Node("", NoUnit, <<>>), Node("a", 1, <<>>) \o <<END>>, <<PROPERTY(1, <<1>>), END>>,
     Root(<<PROPERTY(9, <<1>>)>>), Root(<<PROPERTY(1, <<>>)>>), Root(Imsic \o CellProps(1, 1)),
     Root(CellProps(1, 1) \o CellProps(1, 1)), Root(CellProps(0, 0) \o Node("a", 1, <<PROPERTY(4, <<1>>)>>)),
     Root(<<<<"odd">>>>), Root(Deep(Imsic)), Root(Deep(Node("c", 1, Imsic)))}

\* gap is between the blocks, early how much the strings begin too early.
WithHeader(s, entries, gap, early) ==
    LET at == HEADER_SIZE + 16 * (entries + 1) + gap
        stringsAt == align_up(at + StructureBytes(s), 4) + gap - early
    IN [header |-> [total |-> stringsAt + StringsBytes(TreeStrings) + gap, structure |-> at, strings |-> stringsAt,
                    reservations |-> HEADER_SIZE, structureSize |-> StructureBytes(s),
                    stringsSize |-> StringsBytes(TreeStrings), version |-> 17, compatible |-> 16],
        reservations |-> entries, structure |-> s, strings |-> TreeStrings]

MCBlobs ==
    {WithHeader(s, 1, 0, 0) : s \in Trees \cup Malformed}
    \cup {WithHeader(Root(CellProps(1, 1) \o Imsic), n, g, e) : n \in 0 .. 2, g \in {0, 2, 4, 8}, e \in {0, 4}}

\* Reservations of one cell, and with an address or a size of two.
MCEdits ==
    [reserve : {NoReserve, <<2, 3>>, <<6, 1>>, <<3, 5>>},
     hide : {{}, {<<<<"imsic", 8>>>>, <<<<"soc", NoUnit>>, <<"imsic", 8>>>>},
             {<<<<"soc", NoUnit>>>>, <<<<"soc", NoUnit>>, <<"imsic", 8>>>>}}]
==============================================================================
