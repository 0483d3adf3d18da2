----------------------------- MODULE SlotLayout -----------------------------
(***************************************************************************)
(* Where the canvas puts the nodes: computeSlotPositions of slotLayout.ts, *)
(* with the lanes of laneMapping.ts.  A node belongs to the folder group   *)
(* with the longest prefix of its package, else to the lane of its depth;  *)
(* the user's slots are columns from left to right, the lanes of a slot    *)
(* are stacked, a long lane wraps into sub-columns, and the nodes without  *)
(* a slot form a grid below.  One step places one slot.  Packages and      *)
(* prefixes are sequences of their segments, and the canvas gives the size *)
(* of every node (the fixed pitch for callers that do not measure is left  *)
(* out).                                                                   *)
(***************************************************************************)
EXTENDS Columns

CONSTANTS
    Graphs,             \* as in Columns, with the package and width of each node
    Editors,            \* [groups |-> Seq([id, prefix]), slots |-> Seq(Seq(lane))]
    MaxNodesPerColumn,  \* 14
    MaxLaneHeight       \* Px(1800)

(* A lane is in one place: ArrangementsConsistent of LayerEditor.          *)
IsArrangement(e) ==
    /\ e.groups \in Seq(ToSet(e.groups))
    /\ \A i \in DOMAIN e.groups : e.groups[i].prefix \in Seq(ToSet(e.groups[i].prefix))
    /\ e.slots \in Seq(ToSet(e.slots))
    /\ \A s \in DOMAIN e.slots : e.slots[s] \in Seq(ToSet(e.slots[s]))
    /\ \A s, t \in DOMAIN e.slots : \A i \in DOMAIN e.slots[s], j \in DOMAIN e.slots[t] :
            e.slots[s][i] = e.slots[t][j] => s = t /\ i = j

ASSUME SlotAssumption ==
    /\ MaxNodesPerColumn \in Nat /\ MaxNodesPerColumn >= 2
    /\ MaxLaneHeight \in Nat
    /\ \A g \in Graphs : /\ IsLayoutGraph(g)
                         /\ g.width \in [IdsOf(g) -> Nat \ {0}]
                         /\ \A n \in IdsOf(g) : g.width[n] % 8 = 0
    /\ \A e \in Editors : IsArrangement(e)

VARIABLES
    graph, editor,      \* the input
    resolution,         \* the lane of every node
    slot,               \* the next slot of the sweep
    rows,               \* lanePlans: the nodes of a lane placed so far, in order
    pos                 \* out: the nodes placed so far

canvas == <<graph, editor, resolution, slot, rows, pos>>

TopPadding == Px(80)
MinNodeGap == Px(110)
ColumnGap == Px(160)
NodeBuffer == Px(24)
IntraSlotPadding == Px(80)
InterSlotGap == Px(120)
DeadDy == Px(240)
DefaultWidth == Px(160)

Bfs(d) == <<"bfs", d>>
Folder(id) == <<"folder", id>>
NoLane == <<"none", 0>>

Ids == IdsOf(graph)
Placed == DOMAIN pos

----------------------------------------------------------------------------
(* Lanes.                                                                  *)

MatchesPrefix(package, prefix) == prefix # <<>> /\ IsPrefix(prefix, package)

LongestFirst ==
    LET groups == editor.groups
        Length(i) == Len(groups[i].prefix)
    IN  {p \in (DOMAIN groups) \X (DOMAIN groups) :
            \/ Length(p[1]) > Length(p[2])
            \/ Length(p[1]) = Length(p[2]) /\ p[1] < p[2]}

(* Mutation: the groups are searched in the order they were made.          *)
GroupsAsMade == editor.groups

SortedGroups ==
    LET order == Ranked(DOMAIN editor.groups, LongestFirst)
    IN  [i \in DOMAIN order |-> editor.groups[order[i]]]

(* The group that claims a package, 0 if none does.                        *)
PickFolderGroup(package) ==
    LET hits == {i \in DOMAIN SortedGroups : MatchesPrefix(package, SortedGroups[i].prefix)}
    IN  IF hits = {} THEN 0 ELSE Min(hits)

DepthLane(n) ==
    IF n \in DOMAIN Depths(graph) THEN Bfs(Depths(graph)[n]) ELSE NoLane
ResolveLane(n) ==
    LET i == PickFolderGroup(graph.package[n])
    IN  IF i # 0 THEN Folder(SortedGroups[i].id) ELSE DepthLane(n)
LaneOf(n) == resolution[n]

Slots == DOMAIN editor.slots
LanesIn(s) == ToSet(editor.slots[s])

(* The slot of a lane, 0 if it has none, and its place in the slot.        *)
SlotOf(lane) ==
    LET at == {s \in Slots : lane \in LanesIn(s)}
    IN  IF at = {} THEN 0 ELSE Max(at)
StackIndex(lane) == Position(editor.slots[SlotOf(lane)], lane)

LaneMembers(lane) == {n \in Ids : LaneOf(n) = lane}
SlotMembers(s) == {n \in Ids : SlotOf(LaneOf(n)) = s}

----------------------------------------------------------------------------
(* The slots from left to right.                                           *)

SlotWidth(s) ==
    LET widths == {graph.width[n] : n \in {x \in Ids : LaneOf(x) \in LanesIn(s)}}
    IN  (IF widths = {} THEN DefaultWidth ELSE Max(widths)) + IntraSlotPadding

(* A slot without lanes takes no room.                                     *)
SlotPitch(s) == IF editor.slots[s] = <<>> THEN 0 ELSE SlotWidth(s) + InterSlotGap

SlotCentre(s) ==
    TopPadding + Sums([t \in Slots |-> SlotPitch(t)])[s - 1] + SlotWidth(s) \div 2

(* The mean height of the callers in slots further left.                   *)
Barycentre(n, s) ==
    Mean(graph, n, {p \in Placed : SlotOf(LaneOf(p)) \in 1..(s - 1)}, pos)
Ordered(lane, s) ==
    LET ids == LaneMembers(lane)
    IN  InOrder(graph, ids, [n \in ids |-> Barycentre(n, s)])

----------------------------------------------------------------------------
(* The sub-columns of a lane.                                              *)

ColumnHeight(ids, i, j) ==
    LET heights == Sums([k \in DOMAIN ids |-> graph.height[ids[k]]])
    IN  heights[j] - heights[i - 1] + (j - i) * MinNodeGap

TallestColumn(ids, count) ==
    LET size == CeilDiv(Len(ids), count)
    IN  Max({ColumnHeight(ids, TopRow(k, size), BottomRow(ids, k, size)) : k \in DOMAIN ids})

(* The fewest columns that respect both limits, one node each at most.     *)
ColumnCount(ids) ==
    Min({k \in CeilDiv(Len(ids), MaxNodesPerColumn)..Len(ids) :
              k = Len(ids) \/ TallestColumn(ids, k) <= MaxLaneHeight})
BaseColumnSize(ids) == CeilDiv(Len(ids), ColumnCount(ids))
Band(ids) == TallestColumn(ids, ColumnCount(ids))

PairGap(a, b) ==
    Max({MinNodeGap, (graph.height[a] + graph.height[b]) \div 2 + NodeBuffer})

(* How far the k-th of a lane would stand below the first in one column.   *)
Offset(ids, k) == Sums([i \in 1..(Len(ids) - 1) |-> PairGap(ids[i], ids[i+1])])[k - 1]

StepX(s, count) ==
    IF count = 1 THEN 0
    ELSE Min({ColumnGap, (SlotWidth(s) - IntraSlotPadding) \div (count - 1)})

(* The x of a sub-column, and the y of the k-th of a lane in a sub-column  *)
(* from row i to row j that is centred at a height.                        *)
ColumnX(s, count, c) ==
    SlotCentre(s) - ((count - 1) * StepX(s, count)) \div 2 + c * StepX(s, count)
RowY(ids, i, j, k, middle) ==
    middle - (Offset(ids, j) - Offset(ids, i) + graph.height[ids[j]]) \div 2
        + graph.height[ids[i]] \div 2 + Offset(ids, k) - Offset(ids, i)

(* The k-th of a lane whose band begins at top.                            *)
InBand(ids, k, s, top) ==
    LET size == BaseColumnSize(ids)
        first == TopRow(k, size)
    IN  [x |-> ColumnX(s, ColumnCount(ids), ColumnOf(k, size)),
         y |-> RowY(ids, first, BottomRow(ids, k, size), k, top + Band(ids) \div 2)]

(* Mutation: the lanes of a slot all begin at its top.                     *)
LaneTopSame(s, i, plans) == TopPadding

(* The lanes of a slot that have nodes are stacked.                        *)
LanePitch(ids) == IF ids = <<>> THEN 0 ELSE Band(ids) + MinNodeGap
LaneTop(s, i, plans) ==
    LET lanes == editor.slots[s]
    IN  TopPadding + Sums([j \in DOMAIN lanes |-> LanePitch(plans[lanes[j]])])[i - 1]

(* Where a node of slot s goes, given the order of the lanes.              *)
PlaceOf(n, s, plans) ==
    LET lane == LaneOf(n)
        ids == plans[lane]
    IN  InBand(ids, Position(ids, n), s, LaneTop(s, StackIndex(lane), plans))

----------------------------------------------------------------------------
SlotInit ==
    /\ graph \in Graphs
    /\ editor \in Editors
    /\ resolution = [n \in Ids |-> ResolveLane(n)]
    /\ slot = 1
    /\ rows = <<>>
    /\ pos = <<>>

PlaceSlot ==
    /\ slot \in Slots
    /\ slot' = slot + 1
    /\ rows' = Merged([lane \in LanesIn(slot) |-> Ordered(lane, slot)], rows)
    /\ pos' = Merged([n \in SlotMembers(slot) |-> PlaceOf(n, slot, rows')], pos)
    /\ UNCHANGED <<graph, editor, resolution>>

(* A square grid under everything that is placed.                          *)
PlaceDead ==
    /\ slot = Len(editor.slots) + 1
    /\ slot' = slot + 1
    /\ LET left == IF Placed = {} THEN TopPadding ELSE Min({pos[n].x : n \in Placed})
           top == (IF Placed = {} THEN TopPadding ELSE Max({pos[n].y : n \in Placed})) + DeadDy
           gap == Max({Px(60), (MinNodeGap * 6) \div 10})
       IN  pos' = Merged(InGrid(graph, SlotMembers(0), left, top, gap), pos)
    /\ UNCHANGED <<graph, editor, resolution, rows>>

SlotNext == PlaceSlot \/ PlaceDead

SlotSpec == SlotInit /\ [][SlotNext]_canvas

----------------------------------------------------------------------------
(* Properties.                                                             *)

Swept == slot = Len(editor.slots) + 2

(* The lane of a node as laneMapping.ts promises it: the first of the      *)
(* groups whose prefix matches its package and of which none has a longer  *)
(* one.                                                                    *)
PromisedLane(n) ==
    LET groups == editor.groups
        hits == {i \in DOMAIN groups : MatchesPrefix(graph.package[n], groups[i].prefix)}
        longest == {i \in hits : \A j \in hits : Len(groups[j].prefix) <= Len(groups[i].prefix)}
    IN  IF hits # {} THEN Folder(groups[Min(longest)].id) ELSE DepthLane(n)

(* When the sweep is over every node has been placed, the nodes of a lane  *)
(* around the centre of its slot, and those without a slot below the       *)
(* others: no group, depth or unassigned lane leaves a node where it was.  *)
PlacedWhereItBelongs ==
    Swept =>
        /\ Placed = Ids
        /\ \A n \in Ids :
               LET s == SlotOf(PromisedLane(n))
                   room == SlotWidth(s) - IntraSlotPadding
               IN  IF s # 0
                   THEN 2 * (pos[n].x - SlotCentre(s)) \in (-room)..room
                   ELSE \A m \in Ids : SlotOf(PromisedLane(m)) # 0 =>
                                            pos[n].y >= pos[m].y + DeadDy

Apart(a, b, d, size) == 2 * d >= size[a] + size[b] \/ -2 * d >= size[a] + size[b]
BoxesMeet(a, b) ==
    /\ ~Apart(a, b, pos[a].x - pos[b].x, graph.width)
    /\ ~Apart(a, b, pos[a].y - pos[b].y, graph.height)

SubColumn(n) ==
    LET ids == rows[LaneOf(n)] IN ColumnOf(Position(ids, n), BaseColumnSize(ids))

(* How wide the sub-columns of a lane spread.  Lanes of different slots    *)
(* keep apart if they spread over 200 px each or less, as when they wrap   *)
(* once.                                                                   *)
Spread(lane) ==
    LET count == ColumnCount(rows[lane])
    IN  (count - 1) * StepX(SlotOf(lane), count)
Narrow(a, b) == Spread(a) + Spread(b) <= 2 * (IntraSlotPadding + InterSlotGap)

(* Stacked lanes keep apart if neither has a node 392 px taller than       *)
(* another: a sub-column with a short and a tall end is not centred in its *)
(* band.                                                                   *)
Level(lane) ==
    \A a, b \in LaneMembers(lane) :
        graph.height[a] - graph.height[b] <= 2 * (2 * MinNodeGap - NodeBuffer)

KeptApart(a, b) ==
    LET s == SlotOf(LaneOf(a))
        t == SlotOf(LaneOf(b))
    IN  \/ LaneOf(a) = LaneOf(b) /\ SubColumn(a) = SubColumn(b)
        \/ LaneOf(a) # LaneOf(b) /\ s = t /\ Level(LaneOf(a)) /\ Level(LaneOf(b))
        \/ s # t /\ Narrow(LaneOf(a), LaneOf(b))

(* Nodes of one sub-column never cover one another, whatever their sizes;  *)
(* those of stacked lanes do not unless the heights differ too much, those *)
(* of different slots unless a lane spreads too far (the grid of nodes     *)
(* without a slot packs them without their sizes).                         *)
BoxesApart ==
    \A a, b \in {n \in Placed : SlotOf(LaneOf(n)) # 0} :
        a # b /\ KeptApart(a, b) => ~BoxesMeet(a, b)

(* What GraphCanvas.tsx:810-812 says of the sizes it passes: "the          *)
(* positioner picks dynamic slot widths and lane heights and stops         *)
(* overlapping the bounding boxes of expanded compounds against            *)
(* neighbours"; slotLayout.test.ts:175-218 asserts it of two slots.        *)
NoBoxesMeet ==
    \A a, b \in Placed : a # b => ~BoxesMeet(a, b)

(* What slotLayout.ts:487-489 says: "multiple columns can share the slot   *)
(* without spilling into the next one".                                    *)
NoneSpills ==
    \A a, b \in {n \in Placed : SlotOf(LaneOf(n)) # 0} :
        SlotOf(LaneOf(a)) # SlotOf(LaneOf(b)) => ~BoxesMeet(a, b)
=============================================================================
