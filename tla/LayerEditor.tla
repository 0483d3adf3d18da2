----------------------------- MODULE LayerEditor ----------------------------
(***************************************************************************)
(* The layer editor of the main page and the positions of the canvas, for  *)
(* one project: the arrangement of lanes into slots, the arrangement and   *)
(* the preset in localStorage, the positions on the canvas and those in    *)
(* localStorage, which are written half a second after the last change.    *)
(* Where each node goes is the subject of SlotLayout; here a set of        *)
(* positions is known by the nodes it is for and by whether the last to    *)
(* change it was a layout, the user's dragging or the stored positions.    *)
(* Opening another project in the mounted page and the members of expanded *)
(* packages are left out; graphs of one size have the same nodes.          *)
(***************************************************************************)
EXTENDS Integers, Sequences, FiniteSets, FiniteSetsExt, SequencesExt, Filtering, Absent

CONSTANTS
    Graphs,         \* what the server may answer
    NodesOf,        \* the nodes of a graph
    DepthsOf,       \* the BFS depths in a graph, ascending
    Groups,         \* folder groups the user may make
    Imports,        \* arrangements exported earlier, here or elsewhere
    MaxSlots,       \* slots of an arrangement (a bound)
    MaxPresetSlots  \* slots of one that is saved as a preset (a bound)

Bfs(d) == <<"bfs", d>>
Folder(g) == <<"folder", g>>

Lanes == ({"bfs"} \X Nat) \cup ({"folder"} \X Groups)
Arrangements == [groups : SUBSET Groups, slots : Seq(Seq(Lanes)), unassigned : Seq(Lanes)]
Places == [of : {NodesOf[g] : g \in Graphs}, kind : {"layout", "restored", "dropped"}]

(* The chips of a slot; slot 0 is "unassigned".                            *)
Chips(e, i) == IF i = 0 THEN e.unassigned ELSE e.slots[i]

Known(e) == UNION {ToSet(Chips(e, i)) : i \in 0..Len(e.slots)}

(* No lane is in two places, and there is a lane for a group exactly while *)
(* the group exists.                                                       *)
Consistent(e) ==
    /\ \A i, j \in 0..Len(e.slots) :
          \A a \in DOMAIN Chips(e, i), b \in DOMAIN Chips(e, j) :
             Chips(e, i)[a] = Chips(e, j)[b] => i = j /\ a = b
    /\ {g \in Groups : Folder(g) \in Known(e)} = e.groups

(* Arrangements to be imported were made by an editor.                     *)
ASSUME LayerAssumption ==
    /\ \A g, h \in Graphs : Cardinality(NodesOf[g]) = Cardinality(NodesOf[h])
                              => NodesOf[g] = NodesOf[h]
    /\ \A g \in Graphs : NodesOf[g] # {}
    /\ DepthsOf \in [Graphs -> Seq(Nat)]
    /\ \A g \in Graphs : \A i, j \in DOMAIN DepthsOf[g] : i < j => DepthsOf[g][i] < DepthsOf[g][j]
    /\ Imports \subseteq Arrangements /\ \A e \in Imports : Consistent(e)
    /\ MaxSlots \in Nat /\ MaxPresetSlots \in Nat
    /\ None \notin Graphs \cup Arrangements \cup Places

VARIABLES
    graph,          \* the graph the canvas shows
    editor,         \* LayerEditorState: [groups, slots, unassigned]
    storedEditor,   \* localStorage "layer-editor"
    preset,         \* localStorage "layer-presets", one preset (a bound)
    pos,            \* the positions on the canvas
    pending,        \* pendingRef, with its timer
    storedPos,      \* localStorage "positions"
    dragged         \* userDraggedRef

arrangement == <<editor, storedEditor, preset>>
positions == <<pos, pending, storedPos, dragged>>
vars == <<graph, arrangement, positions>>

----------------------------------------------------------------------------
(* Arrangements.                                                           *)

Default(g) ==
    [groups |-> {},
     slots |-> IF g = None THEN <<>>
               ELSE [i \in DOMAIN DepthsOf[g] |-> <<Bfs(DepthsOf[g][i])>>],
     unassigned |-> <<>>]

(* Mutation: new depths go before what the user arranged.                  *)
BackfilledBefore(e, g) ==
    LET missing == Kept(DepthsOf[g], {d \in Nat : Bfs(d) \notin Known(e)})
    IN  [e EXCEPT !.slots = [i \in DOMAIN missing |-> <<Bfs(missing[i])>>] \o @]

(* Depths the arrangement does not know get slots of their own, on the     *)
(* right.                                                                  *)
Backfilled(e, g) ==
    LET missing == Kept(DepthsOf[g], {d \in Nat : Bfs(d) \notin Known(e)})
    IN  [e EXCEPT !.slots = @ \o [i \in DOMAIN missing |-> <<Bfs(missing[i])>>]]

Without(lanes, lane) == Kept(lanes, Lanes \ {lane})

(* Mutation: a lane is taken out of the slots only.                        *)
TakenFromSlots(e, lane) ==
    [e EXCEPT !.slots = [i \in DOMAIN @ |-> Without(@[i], lane)]]

(* An arrangement without a lane; a slot may be left empty.                *)
Taken(e, lane) ==
    [e EXCEPT !.slots = [i \in DOMAIN @ |-> Without(@[i], lane)],
              !.unassigned = Without(@, lane)]

(* Without the empty slots at the end.                                     *)
Trimmed(slots) ==
    LET used == {i \in DOMAIN slots : slots[i] # <<>>}
    IN  SubSeq(slots, 1, IF used = {} THEN 0 ELSE Max(used))

(* moveLane: slots are added up to the one dropped on.                     *)
Moved(e, lane, to, at) ==
    LET left == Taken(e, lane)
        length == Max({to, Len(left.slots)})
        grown == [i \in 1..length |-> IF i \in DOMAIN left.slots THEN left.slots[i] ELSE <<>>]
    IN  IF to = 0
        THEN [left EXCEPT !.slots = Trimmed(@), !.unassigned = Append(@, lane)]
        ELSE LET index == Min({at, Len(grown[to]) + 1})
             IN  [left EXCEPT !.slots = Trimmed([grown EXCEPT ![to] = InsertAt(@, index, lane)])]

(* removeGroup of useLayerEditorState.                                     *)
WithoutGroup(e, g) == [Taken(e, Folder(g)) EXCEPT !.groups = @ \ {g}]

----------------------------------------------------------------------------
(* Positions.                                                              *)

Layout(g) == [of |-> NodesOf[g], kind |-> "layout"]
Restored(g) == [of |-> NodesOf[g], kind |-> "restored"]
Dropped(g) == [of |-> NodesOf[g], kind |-> "dropped"]

(* Mutation: a write does not replace the one that waits for the timer.    *)
WriteOnce(p) == pending' = IF pending = None THEN p ELSE pending

(* write of usePositionsStorage: the last value counts, the timer restarts.*)
Write(p) == pending' = p

(* The editor has a new state: the layer effect lays the graph out again   *)
(* and writes the positions, whatever the user dragged.                    *)
LayerEffect ==
    IF graph = None THEN UNCHANGED positions
    ELSE /\ pos' = Layout(graph)
         /\ Write(Layout(graph))
         /\ UNCHANGED <<storedPos, dragged>>

(* setState of useLayerEditorState.                                        *)
SetState(e) ==
    /\ Len(e.slots) <= MaxSlots
    /\ editor' = e
    /\ storedEditor' = e
    /\ LayerEffect
    /\ UNCHANGED <<graph, preset>>

----------------------------------------------------------------------------
Init ==
    /\ graph = None
    /\ storedEditor = None
    /\ editor = Default(None)
    /\ preset = None
    /\ pos = None /\ pending = None /\ storedPos = None
    /\ dragged = FALSE

(* The canvas has another number of nodes than before.                     *)
Changed(g) == graph = None \/ NodesOf[graph] # NodesOf[g]

(* What a snapshot holds where the canvas shows stored positions.          *)
Snapshot(p) == IF p.kind = "restored" THEN [p EXCEPT !.kind = storedPos.kind] ELSE p

DepthsNow == IF graph = None THEN <<>> ELSE DepthsOf[graph]

(* A graph comes: the canvas lays it out if it was empty or has another    *)
(* number of nodes now, unless every node has a stored position, and       *)
(* writes the positions unless the user has dragged; then the editor's     *)
(* effect, if the depths are others than before, adds those the            *)
(* arrangement lacks, and that lays the canvas out once more.              *)
GraphArrives(g) ==
    LET restored == storedPos # None /\ NodesOf[g] \subseteq storedPos.of
        first == IF ~Changed(g) THEN pos
                 ELSE IF ~restored THEN Layout(g)
                 ELSE IF graph = None \/ NodesOf[g] \ NodesOf[graph] # {}
                      THEN Restored(g)
                      ELSE [of |-> NodesOf[g], kind |-> pos.kind]
        e == IF DepthsOf[g] = DepthsNow THEN editor ELSE Backfilled(editor, g)
    IN  /\ Len(e.slots) <= MaxSlots
        /\ graph' = g
        /\ editor' = e
        /\ IF e # editor THEN pos' = Layout(g) /\ Write(Layout(g))
           ELSE /\ pos' = first
                /\ IF Changed(g) /\ ~dragged THEN Write(Snapshot(first)) ELSE UNCHANGED pending
        /\ UNCHANGED <<storedEditor, preset, storedPos, dragged>>

(* The user drops a node.                                                  *)
Drag ==
    /\ graph # None
    /\ dragged' = TRUE
    /\ pos' = Dropped(graph)
    /\ Write(Dropped(graph))
    /\ UNCHANGED <<graph, arrangement, storedPos>>

Timer ==
    /\ pending # None
    /\ storedPos' = pending
    /\ pending' = None
    /\ UNCHANGED <<graph, arrangement, pos, dragged>>

(* The relayout button.                                                    *)
Relayout ==
    /\ storedPos' = None
    /\ IF graph = None THEN pending' = None /\ UNCHANGED <<pos, dragged>>
       ELSE /\ dragged' = FALSE
            /\ pos' = Layout(graph)
            /\ Write(Layout(graph))
    /\ UNCHANGED <<graph, arrangement>>

(* Groups made of one prefix twice are left out.                           *)
AddGroup(g) ==
    /\ g \notin editor.groups
    /\ SetState([editor EXCEPT !.groups = @ \cup {g},
                               !.unassigned = Append(@, Folder(g))])

RemoveGroup(g) == g \in editor.groups /\ SetState(WithoutGroup(editor, g))

Room(to) == IF to \in DOMAIN editor.slots THEN Len(editor.slots[to]) ELSE 0

(* A chip is dropped on a slot, the empty one at the right included, above *)
(* one of its chips or below them; its own chip is among those counted.    *)
(* The strip of unassigned chips is there only while there are some.       *)
MoveLane(lane, to, at) ==
    /\ lane \in Known(editor)
    /\ to = 0 => editor.unassigned # <<>>
    /\ to <= Len(editor.slots) + 1
    /\ SetState(Moved(editor, lane, to, at))

Reset == SetState(Default(graph))

(* The preset is kept whatever happens to the page.                        *)
SavePreset ==
    /\ preset = None /\ Len(editor.slots) <= MaxPresetSlots
    /\ preset' = editor
    /\ UNCHANGED <<graph, editor, storedEditor, positions>>

LoadPreset == preset # None /\ SetState(preset)

DeletePreset ==
    /\ preset # None
    /\ preset' = None
    /\ UNCHANGED <<graph, editor, storedEditor, positions>>

Import(e) == SetState(e)

(* The page is mounted anew, with the stored arrangement.                  *)
Mounted ==
    /\ graph' = None /\ pos' = None /\ pending' = None
    /\ dragged' = FALSE
    /\ editor' = IF storedEditor = None THEN Default(None) ELSE storedEditor
    /\ UNCHANGED <<storedEditor, preset>>

(* The page is left and opened again: pending positions are written first. *)
Leave ==
    /\ storedPos' = IF pending = None THEN storedPos ELSE pending
    /\ Mounted

(* The tab is reloaded: pending positions are lost.                        *)
Reload ==
    /\ UNCHANGED storedPos
    /\ Mounted

Next ==
    \/ \E g \in Graphs : GraphArrives(g)
    \/ Drag \/ Timer \/ Relayout
    \/ \E g \in Groups : AddGroup(g) \/ RemoveGroup(g)
    \/ \E lane \in Known(editor), to \in 0..MaxSlots : \E at \in 1..(Room(to) + 1) :
          MoveLane(lane, to, at)
    \/ \E e \in Imports : Import(e)
    \/ Reset \/ SavePreset \/ LoadPreset \/ DeletePreset
    \/ Leave \/ Reload

Spec == Init /\ [][Next]_vars

----------------------------------------------------------------------------
(* Properties.                                                             *)

(* Type invariant; it includes that all nodes of the graph on the canvas,  *)
(* and no others, have been given their place.                             *)
TypeOK ==
    /\ dragged \in BOOLEAN
    /\ graph \in Graphs \cup {None}
    /\ {pending, storedPos} \subseteq Places \cup {None}
    /\ IF graph = None THEN pos = None ELSE pos \in Places /\ pos.of = NodesOf[graph]
    /\ editor \in Arrangements /\ {storedEditor, preset} \subseteq Arrangements \cup {None}

(* However lanes are moved, groups made and removed and arrangements       *)
(* saved, loaded, imported and extended by new depths: no lane is in two   *)
(* places, and there is a lane for a group exactly while the group exists. *)
ArrangementsConsistent ==
    \A e \in {editor, storedEditor, preset} \ {None} : Consistent(e)

(* What the user arranged stays as it was arranged until the user changes  *)
(* it, over reloads and new graphs: the editor shows the stored state,     *)
(* with slots of single new depths to the right of it at most.             *)
ArrangementKept ==
    storedEditor # None =>
        /\ editor.groups = storedEditor.groups
        /\ editor.unassigned = storedEditor.unassigned
        /\ IsPrefix(storedEditor.slots, editor.slots)
        /\ \A i \in (Len(storedEditor.slots) + 1)..Len(editor.slots) :
              Len(editor.slots[i]) = 1 /\ editor.slots[i][1][1] = "bfs"

(* While the canvas shows what the user dragged, nothing else of the same  *)
(* nodes is stored or waits to be (FR-26): not the layout of the graph's   *)
(* arrival, nor what the running timer had to write.                       *)
DropIsKept ==
    pos # None /\ pos.kind = "dropped" =>
        LET last == IF pending # None THEN pending ELSE storedPos
        IN  last # None /\ (last.of = pos.of => last.kind = "dropped")

(* What GraphCanvas.tsx:297-298 says the stored positions are for: "so     *)
(* subsequent reloads are stable (FR-26)".                                 *)
StableOverReload ==
    [][graph = None /\ graph' # None /\ storedPos # None /\ NodesOf[graph'] \subseteq storedPos.of
            /\ storedPos.kind = "dropped"
        => pos'.kind = "restored"]_vars
=============================================================================
