---------------------------- MODULE MemberLayout ----------------------------
(***************************************************************************)
(* Where the members of a package go when it is opened: applyExpansion of  *)
(* useAggregateExpand.ts with computeReachDepthPositions of reachDepth.ts. *)
(* The members the entries reach stand in layers by depth, from left to    *)
(* right, a long layer wraps into sub-columns, the others form a grid      *)
(* below, and all of it is then moved over the node that was opened.  One  *)
(* step places one layer.                                                  *)
(***************************************************************************)
EXTENDS Columns

CONSTANTS
    Expansions,             \* the members of packages, with their calls
    MaxMembersPerColumn     \* 8

(* A package without members is not laid out.  Members are measured.       *)
ASSUME MemberAssumption ==
    /\ MaxMembersPerColumn \in Nat /\ MaxMembersPerColumn >= 2
    /\ \A ms \in Expansions : IsLayoutGraph(ms)

VARIABLES
    members,    \* the input
    seed,       \* the position of the opened node
    stage,      \* "closed", "layers", "centre" or "done"
    depth,      \* of the members the entries reach
    xCursor,    \* where it begins
    place       \* out: the members placed so far

opened == <<members, seed, stage, depth, xCursor, place>>

Padding == Px(60)
LayerGap == Px(140)
MemberGap == Px(70)
MemberColumnGap == Px(80)
MemberBuffer == Px(20)
RestDy == Px(90)

Members == IdsOf(members)
Done == DOMAIN place
CanvasHeight == Max({Px(600), Px(80 + 60 * Len(members.nodes))})
Usable == CanvasHeight - 2 * Padding

Layer(d) == {n \in DOMAIN depth : depth[n] = d}
Left == DOMAIN depth \ Done

(* The mean height of the callers one layer above; there are none above    *)
(* the first.                                                              *)
CallersMean(n, d) ==
    Mean(members, n, Layer(d - 1) \cap Done, place)
OrderedLayer(d) == InOrder(members, Layer(d), [n \in Layer(d) |-> CallersMean(n, d)])

ColumnsOf(ids) == Max({1, CeilDiv(Len(ids), MaxMembersPerColumn)})
ColumnSize(ids) == CeilDiv(Len(ids), ColumnsOf(ids))

Half(n) == members.height[n] \div 2

(* Mutation: tall members are spaced like the others.                      *)
MemberPairGapFixed(a, b) == MemberGap

MemberPairGap(a, b) == Max({MemberGap, Half(a) + Half(b) + MemberBuffer})

(* How far the k-th of a layer would stand below the first in one column.  *)
Drop(ids, k) == Sums([i \in 1..(Len(ids) - 1) |-> MemberPairGap(ids[i], ids[i+1])])[k - 1]

(* Where a column from row i to row j begins: it is centred in the canvas, *)
(* below the upper edge.                                                   *)
ColumnStart(ids, i, j) ==
    LET total == Drop(ids, j) - Drop(ids, i)
        middle == Padding + Usable \div 2
        topEdge == Padding + Half(ids[i])
        bottomEdge == Padding + Usable - Half(ids[j])
        centred == Max({middle - total \div 2, topEdge})
    IN  IF centred + total > bottomEdge THEN Max({topEdge, bottomEdge - total})
        ELSE centred

PlacedMember(ids, k) ==
    LET size == ColumnSize(ids)
        top == TopRow(k, size)
    IN  [x |-> xCursor + ColumnOf(k, size) * MemberColumnGap,
         y |-> ColumnStart(ids, top, BottomRow(ids, k, size)) + Drop(ids, k) - Drop(ids, top)]

----------------------------------------------------------------------------
NoMembers == [nodes |-> <<>>, edges |-> <<>>, entries |-> {}, height |-> <<>>]

MemberInit ==
    /\ members = NoMembers /\ seed = [x |-> 0, y |-> 0]
    /\ stage = "closed" /\ depth = <<>> /\ xCursor = Padding /\ place = <<>>

(* The node at a position is opened.                                       *)
Open(ms, at) ==
    /\ stage = "closed" /\ stage' = "layers"
    /\ members' = ms /\ seed' = at /\ depth' = Depths(ms)
    /\ UNCHANGED <<xCursor, place>>

(* Mutation: the columns of a layer do not move the next one.              *)
NextCursorOne(ids) == xCursor + LayerGap

NextCursor(ids) == xCursor + (ColumnsOf(ids) - 1) * MemberColumnGap + LayerGap

(* The layers are placed by depth.                                         *)
PlaceLayer ==
    /\ stage = "layers" /\ Left # {}
    /\ LET d == Min({depth[n] : n \in Left})
           ids == OrderedLayer(d)
       IN  /\ place' = Merged([n \in Layer(d) |-> PlacedMember(ids, Position(ids, n))], place)
           /\ xCursor' = NextCursor(ids)
    /\ UNCHANGED <<members, seed, stage, depth>>

(* The grid goes below the layers, or where they would begin.              *)
PlaceRest ==
    /\ stage = "layers" /\ Left = {}
    /\ LET left == IF Done = {} THEN Padding ELSE Min({place[n].x : n \in Done})
           top == IF Done = {} THEN Padding ELSE Max({place[n].y : n \in Done}) + RestDy
           gap == Max({Px(60), (MemberGap * 6) \div 10})
       IN  place' = Merged(InGrid(members, Members \ Done, left, top, gap), place)
    /\ stage' = "centre"
    /\ UNCHANGED <<members, seed, depth, xCursor>>

(* The whole is centred on the node that was opened.                       *)
Centre ==
    /\ stage = "centre"
    /\ LET xs == {place[n].x : n \in Done}
           ys == {place[n].y : n \in Done}
       IN  place' = [n \in Done |-> [x |-> place[n].x + seed.x - (Min(xs) + Max(xs)) \div 2,
                                     y |-> place[n].y + seed.y - (Min(ys) + Max(ys)) \div 2]]
    /\ stage' = "done"
    /\ UNCHANGED <<members, seed, depth, xCursor>>

MemberNext == PlaceLayer \/ PlaceRest \/ Centre

----------------------------------------------------------------------------
(* Properties.                                                             *)

(* A call goes from left to right: a deeper member stands further right,   *)
(* however many columns the layers above have; what no entry reaches       *)
(* stands below everything; and nothing is left without a place.           *)
LayersInOrder ==
    /\ \A a, b \in Done \cap DOMAIN depth : depth[a] < depth[b] => place[a].x < place[b].x
    /\ \A a \in Done \ DOMAIN depth, b \in Done \cap DOMAIN depth :
            place[a].y >= place[b].y + RestDy
    /\ stage \in {"centre", "done"} => Done = Members

(* Members of one column keep the buffer between their boxes, whatever     *)
(* their heights and however full the canvas is, and when all is done the  *)
(* cluster is around the node that was opened.                             *)
MembersApart ==
    /\ \A a, b \in Done \cap DOMAIN depth :
            a # b /\ place[a].x = place[b].x
            => \/ place[a].y - place[b].y >= Half(a) + Half(b) + MemberBuffer
               \/ place[b].y - place[a].y >= Half(a) + Half(b) + MemberBuffer
    /\ stage = "done" =>
            LET xs == {place[n].x : n \in Members}
                ys == {place[n].y : n \in Members}
            IN  /\ 2 * seed.x = Min(xs) + Max(xs)
                /\ 2 * seed.y = Min(ys) + Max(ys)
=============================================================================
