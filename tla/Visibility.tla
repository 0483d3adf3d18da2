----------------------------- MODULE Visibility -----------------------------
(***************************************************************************)
(* What the main page hides, for one project: the dead-code mode, the      *)
(* filter panel and the hidden subtrees.  Each puts classes of its own on  *)
(* the elements of the canvas, from an effect that runs when some of what  *)
(* it depends on changes, while the elements come and go with the graphs   *)
(* the server answers and with the packages and structs the user opens.    *)
(* Answers to an expansion that come late are the subject of Canvas; here  *)
(* an expansion is one step.  An edge follows its ends and is left out,    *)
(* save for the edges a subtree is walked along.                           *)
(***************************************************************************)
EXTENDS Naturals, FiniteSets

CONSTANTS
    Packages,       \* package paths; the graph has one node for each
    PackageNode,    \* that node
    Inside,         \* what an expanded package shows
    Members,        \* what an expanded struct shows
    Structs,        \* nodes that can be expanded
    KindOf, PackageOf, External,    \* data of a node
    Edges,          \* calls, contains, embeds and references
    Graphs,         \* answers of the server: [dead, partial], sets of nodes
    Matching,       \* nodes whose name contains the search text
    OtherSpecs,     \* filters another tab may store
    ToggledKinds,   \* kinds the user toggles (a bound)
    Roots,          \* nodes whose subtree the user hides (a bound)
    None

Base == {PackageNode[p] : p \in Packages}
Nodes == Base \cup (UNION {Inside[p] : p \in Packages})
              \cup (UNION {Members[s] : s \in Structs})

(* A project has the same packages in each of its graphs, and what another *)
(* tab stores it has chosen among them.                                    *)
ASSUME VisibilityAssumption ==
    /\ IsFiniteSet(Packages)
    /\ \A p \in Packages : PackageOf[PackageNode[p]] = p
    /\ \A n \in Nodes : PackageOf[n] \in Packages
    /\ \A s \in OtherSpecs :
          /\ DOMAIN s = {"off", "all", "selected", "find", "hideExternal"}
          /\ s.all \in BOOLEAN /\ s.selected \subseteq Packages

Texts == {"", "text"}
Modes == {"live-only", "live-dead", "dead-only"}

VARIABLES
    status,         \* of useGraphData: "loading" or "settled" (ready or error)
    graph,          \* effectiveGraph
    canvas,         \* the nodes of the Cytoscape core
    dead,           \* those with class dead
    partial,        \* those with partial_dead
    expanded,       \* expandedPackages
    cached,         \* aggregatedCacheRef: [dead, partial] of package nodes
    mode,           \* useDeadMode, and localStorage "dead-mode"
    modeHidden,     \* nodes with class mode-hide-live or mode-hide-dead
    spec,           \* filterSpec, and localStorage "filters"
    draft,          \* findDraft
    timer,          \* the spec the debounce timer has captured
    shown,          \* classes of useFilters: [hidden, match, dim]
    collapsed,      \* collapsedIds, and localStorage "collapsed"
    collapsedHidden,\* nodes with class collapsed-hidden
    late            \* nodes added since the filters were last applied
                    \* (a history variable)

data == <<status, graph>>
elements == <<canvas, dead, partial, expanded, cached>>
deadMode == <<mode, modeHidden>>
filters == <<spec, draft, timer, shown, late>>
subtrees == <<collapsed, collapsedHidden>>
vars == <<data, elements, deadMode, filters, subtrees>>

----------------------------------------------------------------------------
(* Dead mode.                                                              *)

(* A package with some dead members belongs to both views.                 *)
HiddenByMode ==
    CASE mode = "live-only" -> dead \ partial
      [] mode = "dead-only" -> canvas \ (dead \cup partial)
      [] OTHER -> {}

(* Mutation: the classes are put on when the mode changes and only then.   *)
RenderedOnChange ==
    modeHidden' = IF mode' # mode THEN HiddenByMode' ELSE modeHidden \cap canvas'

(* MainView calls refresh in an effect that depends on an object made anew *)
(* by every render, hence after every render.                              *)
Rendered == modeHidden' = HiddenByMode'

NextMode(m) ==
    CASE m = "live-only" -> "live-dead"
      [] m = "live-dead" -> "dead-only"
      [] OTHER -> "live-only"

----------------------------------------------------------------------------
(* Filters.                                                                *)

DefaultSpec ==
    [off |-> {}, all |-> TRUE, selected |-> {}, find |-> "", hideExternal |-> TRUE]

Rejected(s, n) ==
    \/ KindOf[n] \in s.off
    \/ ~s.all /\ PackageOf[n] \notin s.selected
    \/ s.hideExternal /\ n \in External

Classes(s, nodes) ==
    LET hidden == {n \in nodes : Rejected(s, n)}
        match == IF s.find = "" THEN {} ELSE (nodes \ hidden) \cap Matching
    IN  [hidden |-> hidden,
         match |-> match,
         dim |-> IF match = {} THEN {} ELSE nodes \ (hidden \cup match)]

ApplyFilters ==
    /\ shown' = Classes(spec', canvas')
    /\ late' = {}

(* The elements change and the filters are not applied.                    *)
ElementsOnly ==
    /\ late' = (late \cap canvas') \cup (canvas' \ canvas)
    /\ shown' = [c \in DOMAIN shown |-> shown[c] \cap canvas']

(* The list of packages of the panel, from the canvas.                     *)
Listed == {PackageOf[n] : n \in canvas}

(* Boxes of packages, one or a bulk, are turned on or off.                 *)
WithPackages(s, ps, on) ==
    LET baseline == IF s.all THEN Listed ELSE s.selected
        selected == IF on THEN baseline \cup ps ELSE baseline \ ps
        all == Cardinality(selected) = Cardinality(Listed)
    IN  [s EXCEPT !.all = all, !.selected = IF all THEN {} ELSE selected]

(* Mutation: a timer that runs is not set anew when the spec changes.      *)
DebounceOnce(s, text) ==
    /\ spec' = s
    /\ draft' = text
    /\ timer' = IF text = s.find THEN None ELSE IF timer = None THEN s ELSE timer

(* A new spec, a new text in the field: the effect of the field clears the *)
(* timer and sets another one while the two differ.                        *)
Debounce(s, text) ==
    /\ spec' = s
    /\ draft' = text
    /\ timer' = IF text = s.find THEN None ELSE s

(* Another find in the spec replaces the text in the field.                *)
DraftFor(s) == IF s.find # spec.find THEN s.find ELSE draft

(* A new spec is stored and applied, and MainView renders.                 *)
NewSpec(s, text) ==
    /\ Debounce(s, text)
    /\ UNCHANGED <<data, elements, mode, subtrees>>
    /\ ApplyFilters
    /\ Rendered

(* Only the field of the panel changes.                                    *)
NewDraft(text) ==
    /\ Debounce(spec, text)
    /\ UNCHANGED <<data, elements, deadMode, shown, late, subtrees>>

ToggleKind(k) ==
    /\ \E n \in canvas : KindOf[n] = k
    /\ LET s == [spec EXCEPT !.off = IF k \in @ THEN @ \ {k} ELSE @ \cup {k}]
       IN  NewSpec(s, DraftFor(s))

ToggleExternal ==
    /\ canvas \cap External # {}
    /\ LET s == [spec EXCEPT !.hideExternal = ~@]
       IN  NewSpec(s, DraftFor(s))

(* The box of a package, and the bulk buttons for the packages that match. *)
TogglePackages(ps, on) ==
    /\ ps # {} /\ ps \subseteq Listed
    /\ LET s == WithPackages(spec, ps, on) IN NewSpec(s, DraftFor(s))

ResetPackages ==
    /\ canvas # {}
    /\ LET s == [spec EXCEPT !.all = TRUE, !.selected = {}]
       IN  NewSpec(s, DraftFor(s))

ResetAll == NewSpec(DefaultSpec, "")

TypeFind(text) ==
    /\ text # draft
    /\ NewDraft(text)

FindFires ==
    /\ timer # None
    /\ LET s == [timer EXCEPT !.find = draft] IN NewSpec(s, DraftFor(s))

EscapeFind ==
    IF spec.find = "" THEN NewDraft("")
    ELSE NewSpec([spec EXCEPT !.find = ""], "")

(* A storage event from another tab of the project.                        *)
OtherTabFilters(s) ==
    /\ s # spec
    /\ NewSpec(s, DraftFor(s))

----------------------------------------------------------------------------
(* The mode.                                                               *)

SetMode(m) ==
    /\ m # mode
    /\ mode' = m
    /\ UNCHANGED <<data, elements, filters, subtrees>>
    /\ Rendered

(* The hotkey, on the mode the switcher shows.                             *)
CycleMode == SetMode(NextMode(mode))

(* Any other state of MainView changes: a selection, the phase of a run.   *)
OtherRender ==
    /\ UNCHANGED <<data, elements, mode, filters, subtrees>>
    /\ Rendered

----------------------------------------------------------------------------
(* Hidden subtrees.                                                        *)

(* The nodes a walk along the edges of the canvas finds, without its root. *)
Descendants(root, nodes) ==
    LET reach[k \in 0..Cardinality(nodes)] ==
            IF k = 0 THEN {root}
            ELSE LET before == reach[k - 1]
                 IN  before \cup {n \in nodes : \E m \in before : <<m, n>> \in Edges}
    IN  reach[Cardinality(nodes)] \ {root}

(* Mutation: the classes of a root that is shown again stay.               *)
SubtreesHiddenAlso(roots, nodes) ==
    collapsedHidden \cup UNION {Descendants(r, nodes) : r \in roots \cap nodes}

SubtreesHidden(roots, nodes) ==
    UNION {Descendants(r, nodes) : r \in roots \cap nodes}

NewRoots(roots) ==
    /\ roots # collapsed
    /\ collapsed' = roots
    /\ collapsedHidden' = SubtreesHidden(roots, canvas)
    /\ UNCHANGED <<data, elements, mode, filters>>
    /\ Rendered

Hidden == shown.hidden \cup modeHidden \cup collapsedHidden

(* What is inside a package node goes with it.                             *)
Visible ==
    {n \in canvas \ Hidden :
        \A p \in Packages : n \in Inside[p] => PackageNode[p] \notin Hidden}

(* Items of the context menu of a node.                                    *)
HideSubtree(n) == n \in Visible /\ NewRoots(collapsed \cup {n})
ShowSubtree(n) == n \in Visible /\ NewRoots(collapsed \ {n})

ExpandAll == NewRoots({})

----------------------------------------------------------------------------
(* Graphs and expansions.                                                  *)

NotCached == [dead |-> FALSE, partial |-> FALSE]

(* Cytoscape forgets the classes of what is removed.                       *)
NodesBecome(nodes, deadNodes, partialNodes) ==
    /\ canvas' = nodes
    /\ dead' = deadNodes
    /\ partial' = partialNodes
    /\ collapsedHidden' = collapsedHidden \cap nodes

(* syncElements: the package nodes and nothing else.                       *)
Synced(g) == NodesBecome(Base, g.dead \cap Base, g.partial)

(* A re-analysis is done: the graph is asked for.                          *)
Refresh ==
    /\ status # "loading"
    /\ status' = "loading"
    /\ UNCHANGED <<graph, elements, mode, spec, draft, timer, subtrees>>
    /\ ApplyFilters /\ Rendered

(* Mutation: the filters wait for the spec to change (the bug R9 was).     *)
GraphUnfiltered(g) ==
    /\ status = "loading"
    /\ status' = "settled" /\ graph' = g
    /\ Synced(g)
    /\ UNCHANGED <<expanded, cached, mode, spec, draft, timer, shown, late, collapsed>>
    /\ Rendered

GraphArrives(g) ==
    /\ status = "loading"
    /\ status' = "settled" /\ graph' = g
    /\ Synced(g)
    /\ UNCHANGED <<expanded, cached, mode, spec, draft, timer, collapsed>>
    /\ ApplyFilters /\ Rendered

GraphFails ==
    /\ status = "loading"
    /\ status' = "settled"
    /\ UNCHANGED <<graph, elements, mode, spec, draft, timer, subtrees>>
    /\ ApplyFilters /\ Rendered

(* An empty answer to a re-analysis: reachability is recomputed locally.   *)
LocalFallback(g) ==
    /\ status # "loading" /\ graph # None /\ g.dead # graph.dead
    /\ graph' = [graph EXCEPT !.dead = g.dead]
    /\ Synced(graph')
    /\ UNCHANGED <<status, expanded, cached, mode, spec, draft, timer, collapsed>>
    /\ ElementsOnly /\ Rendered

Added(nodes, g) ==
    NodesBecome(canvas \cup nodes, dead \cup (g.dead \cap (nodes \ canvas)), partial)

(* A package is opened; g is the graph the server has.  One with nothing   *)
(* inside is left alone (a bound).                                         *)
ExpandPackage(p, g) ==
    /\ graph # None /\ PackageNode[p] \in Visible /\ p \notin expanded
    /\ Inside[p] # {}
    /\ expanded' = expanded \cup {p}
    /\ cached' = [cached EXCEPT ![p] = [dead |-> PackageNode[p] \in dead,
                                         partial |-> PackageNode[p] \in partial]]
    /\ Added(Inside[p], g)
    /\ UNCHANGED <<data, mode, spec, draft, timer, collapsed>>
    /\ ElementsOnly /\ Rendered

(* Nothing of MainView changes.                                            *)
ExpandStruct(s, g) ==
    /\ s \in Visible /\ Members[s] \ canvas # {}
    /\ Added(Members[s], g)
    /\ UNCHANGED <<data, expanded, cached, mode, spec, draft, timer, collapsed>>
    /\ modeHidden' = modeHidden
    /\ ElementsOnly

(* The nodes of the packages go and their own come back, as cached.        *)
Closed(ps) ==
    /\ LET others == {n \in canvas : PackageOf[n] \notin ps}
           deadAgain == {p \in ps : cached[p].dead}
           partialAgain == {p \in ps : cached[p].partial}
           Node(qs) == {PackageNode[p] : p \in qs}
       IN  /\ canvas' = others \cup Node(ps)
           /\ dead' = (dead \cap others) \cup Node(deadAgain)
           /\ partial' = (partial \cap others) \cup Node(partialAgain)
           /\ collapsedHidden' = collapsedHidden \cap others
           /\ shown' = [c \in DOMAIN shown |-> shown[c] \cap others]
           /\ late' = (late \cap others) \cup Node(ps)
    /\ expanded' = expanded \ ps
    /\ cached' = [p \in Packages |-> IF p \in ps THEN NotCached ELSE cached[p]]
    /\ UNCHANGED <<data, mode, spec, draft, timer, collapsed>>
    /\ Rendered

CollapsePackage(p) ==
    /\ p \in expanded /\ \E n \in Visible : PackageOf[n] = p
    /\ Closed({p})

CollapseAll == expanded # {} /\ Closed(expanded)

----------------------------------------------------------------------------
NoClasses == [hidden |-> {}, match |-> {}, dim |-> {}]
NoCache == [p \in Packages |-> NotCached]

Init ==
    /\ mode = "live-dead" /\ spec = DefaultSpec /\ collapsed = {}
    /\ status = "loading" /\ graph = None
    /\ canvas = {} /\ dead = {} /\ partial = {} /\ expanded = {} /\ cached = NoCache
    /\ modeHidden = {} /\ collapsedHidden = {}
    /\ shown = NoClasses /\ late = {} /\ timer = None /\ draft = ""

(* The page is loaded again: the hooks read localStorage, while the canvas *)
(* is still empty.                                                         *)
Reload ==
    /\ canvas # {}
    /\ UNCHANGED <<mode, spec, collapsed>>
    /\ status' = "loading" /\ graph' = None
    /\ canvas' = {} /\ dead' = {} /\ partial' = {} /\ expanded' = {} /\ cached' = NoCache
    /\ modeHidden' = {} /\ collapsedHidden' = {}
    /\ shown' = NoClasses /\ late' = {} /\ timer' = None /\ draft' = spec.find

PanelNext ==
    \/ \E k \in ToggledKinds : ToggleKind(k)
    \/ \E ps \in SUBSET Packages, on \in BOOLEAN : TogglePackages(ps, on)
    \/ \E text \in Texts : TypeFind(text)
    \/ ToggleExternal \/ ResetPackages \/ ResetAll \/ FindFires \/ EscapeFind

UserNext ==
    \/ PanelNext
    \/ CycleMode \/ ExpandAll \/ CollapseAll \/ OtherRender \/ Reload
    \/ \E m \in Modes : SetMode(m)
    \/ \E n \in Roots : HideSubtree(n) \/ ShowSubtree(n)
    \/ \E p \in Packages, g \in Graphs : ExpandPackage(p, g)
    \/ \E p \in Packages : CollapsePackage(p)
    \/ \E s \in Structs, g \in Graphs : ExpandStruct(s, g)

GraphNext ==
    \/ Refresh \/ GraphFails
    \/ \E g \in Graphs : GraphArrives(g) \/ LocalFallback(g)
    \/ \E s \in OtherSpecs : OtherTabFilters(s)

Next == UserNext \/ GraphNext

Spec == Init /\ [][Next]_vars
----------------------------------------------------------------------------
(* Properties.                                                             *)

(* What the mode hides is what the classes on the canvas say, whatever the *)
(* order of renders, graphs and expansions; only members of a struct that  *)
(* was just opened may wait for the next render.                           *)
ModeHolds ==
    LET settled == canvas \ UNION {Members[s] : s \in Structs}
        live == {n \in settled : n \notin dead \/ n \in partial}
    IN  settled \ modeHidden =
            CASE mode = "live-only" -> live
              [] mode = "dead-only" -> settled \cap (dead \cup partial)
              [] OTHER -> settled

(* The filters hold for every node that was on the canvas when they were   *)
(* applied, and what the search marks is what it finds among those left,   *)
(* although neither a new local graph nor an expansion applies them; every *)
(* package keeps its node or its members.                                  *)
FiltersHold ==
    /\ LET expected == Classes(spec, canvas)
       IN  /\ shown.hidden \ late = expected.hidden \ late
           /\ shown.match \ late = expected.match \ late
    /\ spec.find = "" => shown.dim = {}
    /\ graph # None => Base \subseteq canvas

(* In every state a box or a bulk button of the panel would change the     *)
(* packages it is for and no other, in both modes of the list and with the *)
(* packages the canvas then has; and the search that waits would take back *)
(* no filter that was set while its timer ran, here or in another tab.     *)
Allowed(s, p) == s.all \/ p \in s.selected
EditsAreLocal ==
    /\ \A ps \in SUBSET Listed, on \in BOOLEAN :
        LET s == WithPackages(spec, ps, on)
        IN  \A p \in Listed : Allowed(s, p) <=> IF p \in ps THEN on ELSE Allowed(spec, p)
    /\ timer # None => [timer EXCEPT !.find = draft] = [spec EXCEPT !.find = draft]

(* No subtree stays hidden once nothing is marked as hidden: "Expand all"  *)
(* brings back everything, although roots leave the canvas with graphs and *)
(* packages.                                                               *)
NothingLost == collapsed = {} => collapsedHidden = {}

(* useCollapse.ts: a tab reload restores the same hidden branches.         *)
ReloadRestores ==
    [][graph = None /\ graph' # None
        => collapsedHidden' = SubtreesHidden(collapsed', canvas')]_vars
====
