------------------------------- MODULE Canvas -------------------------------
(***************************************************************************)
(* The canvas of the main page.  A large graph arrives aggregated to its   *)
(* packages; a double tap on a package fetches its structs and a double    *)
(* tap on a struct its members, the context menu and "collapse all" undo   *)
(* it.  The fetches are asynchronous: their answers come to a canvas that  *)
(* has been refreshed, collapsed or given to another project.  The two     *)
(* projects are uploads of one source tree, so that their node ids agree.  *)
(* What is hidden by filters, modes and collapsed subtrees is the subject  *)
(* of Visibility, positions that of LayerEditor; a tap may hit any node    *)
(* that is on the canvas.                                                  *)
(***************************************************************************)
EXTENDS Naturals, FiniteSets, FiniteSetsExt

CONSTANTS
    Projects,
    Nodes,          \* the ids of the graph of the project
    PackageOf,      \* the package path of a node, named by its package node
    KindOf,
    Edges,          \* records [from, to, kind], at most one of a kind
    MaxFetches,     \* scoped fetches under way at a time (a bound)
    None

Packages == {n \in Nodes : KindOf[n] = "package"}
Structs == {n \in Nodes : KindOf[n] \in {"struct", "interface"}}

ASSUME CanvasAssumption ==
    /\ PackageOf \in [Nodes -> Packages]
    /\ \A p \in Packages : PackageOf[p] = p
    /\ \A e \in Edges : /\ e.from \in Nodes /\ e.to \in Nodes
                        /\ e.kind = "imports" => {e.from, e.to} \subseteq Packages
    /\ MaxFetches \in Nat \ {0}
    /\ None \notin Projects \cup Nodes

VARIABLES
    project,        \* the project of the route
    view,           \* useGraphData: "loading", "ready", "error"
    nodes,          \* the elements of Cytoscape
    edges,
    expanded,       \* expandedPackages
    structs,        \* expandedStructsRef
    inFlight,       \* inFlightRef
    cached,         \* aggregatedCacheRef: the packages it has a node for
    fetches,        \* scoped getGraph calls without an answer
    menu            \* the context menu: the package of its node, and if the
                    \* package can be collapsed

elements == <<nodes, edges>>
drill == <<expanded, structs, inFlight, cached, fetches>>
vars == <<project, view, elements, drill, menu>>

----------------------------------------------------------------------------
(* What the server answers.                                                *)

Plain(e) == [id |-> <<"plain", e.from, e.to, e.kind>>,
             from |-> e.from, to |-> e.to, kind |-> e.kind]

(* Package nodes and the imports between them.                             *)
Aggregate ==
    [nodes |-> Packages,
     edges |-> {Plain(e) : e \in {x \in Edges : /\ x.kind = "imports"
                                                /\ PackageOf[x.from] # PackageOf[x.to]}}]

(* An edge that leaves the package is anchored at the other package's      *)
(* node; one that starts or ends there anyway is left out.                 *)
Boundary(e, p) ==
    [id |-> <<"boundary", e.from, e.to, e.kind>>, kind |-> e.kind,
     from |-> IF PackageOf[e.from] = p THEN e.from ELSE PackageOf[e.from],
     to |-> IF PackageOf[e.to] = p THEN e.to ELSE PackageOf[e.to]]

Scope(p) ==
    LET In(n) == PackageOf[n] = p
        cross == {e \in Edges : /\ In(e.from) # In(e.to)
                                /\ ~In(e.from) => e.from \notin Packages
                                /\ ~In(e.to) => e.to \notin Packages}
        own == {n \in Nodes : In(n)}
        foreign == UNION {{PackageOf[e.from], PackageOf[e.to]} : e \in cross}
    IN  [nodes |-> own \cup foreign,
         edges |-> {Plain(e) : e \in {x \in Edges : In(x.from) /\ In(x.to)}}
                     \cup {Boundary(e, p) : e \in cross}]

Restricted(v, keep) ==
    [nodes |-> keep, edges |-> {e \in v.edges : e.from \in keep /\ e.to \in keep}]

ContainedBy(parent) ==
    {e.to : e \in {x \in Edges : x.kind = "contains" /\ x.from = parent}}

(* level=struct: not the methods and fields, nor what a struct contains.   *)
StructLevel(p) ==
    LET v == Scope(p)
        inStruct == UNION {ContainedBy(t) : t \in Structs}
    IN  Restricted(v, {n \in v.nodes :
            \/ PackageOf[n] # p
            \/ KindOf[n] \in {"struct", "interface", "package"}
            \/ KindOf[n] \in {"var", "const", "func"} /\ n \notin inStruct})

(* level=members: a struct, what it contains, and the packages around it.  *)
MemberLevel(t) ==
    LET v == Scope(PackageOf[t])
    IN  Restricted(v, (v.nodes \cap ({t} \cup ContainedBy(t) \cup Packages)))

----------------------------------------------------------------------------
(* The graph of the page.                                                  *)

(* The page is mounted: the canvas is empty when the hooks see it.         *)
NothingDrilled ==
    /\ expanded' = {} /\ structs' = {} /\ inFlight' = {}
    /\ cached' = {}

Init ==
    /\ project \in Projects
    /\ view = "loading"
    /\ nodes = {} /\ edges = {}
    /\ expanded = {} /\ structs = {} /\ inFlight = {}
    /\ cached = {}
    /\ fetches = {}
    /\ menu = None

(* The tab is reloaded: answers to the old page are lost.                  *)
Reload ==
    /\ view' = "loading"
    /\ nodes' = {} /\ edges' = {}
    /\ NothingDrilled
    /\ fetches' = {}
    /\ menu' = None
    /\ UNCHANGED project

(* Another project is opened in the mounted page: the hooks reset what     *)
(* they keep, and the canvas keeps the old graph until the new one comes.  *)
Switch(p) ==
    /\ p # project
    /\ project' = p
    /\ view' = "loading"
    /\ NothingDrilled
    /\ UNCHANGED <<elements, fetches, menu>>

(* The refresh button, or the end of a re-analysis.                        *)
Refresh ==
    /\ view' = "loading"
    /\ UNCHANGED <<project, elements, drill, menu>>

(* Mutation: members of expanded packages survive a new graph.             *)
GraphArrivesBeside ==
    /\ view = "loading"
    /\ view' = "ready"
    /\ nodes' = nodes \cup Aggregate.nodes
    /\ edges' = edges \cup Aggregate.edges
    /\ UNCHANGED <<project, drill, menu>>

(* syncElements: what the new graph lacks is removed.                      *)
GraphArrives ==
    /\ view = "loading"
    /\ view' = "ready"
    /\ nodes' = Aggregate.nodes
    /\ edges' = Aggregate.edges
    /\ UNCHANGED <<project, drill, menu>>

GraphFails ==
    /\ view = "loading"
    /\ view' = "error"
    /\ UNCHANGED <<project, elements, drill, menu>>

----------------------------------------------------------------------------
(* Drilling down.                                                          *)

Fetch(key) == [of |-> project, key |-> key]

(* A double tap on a package.  Two fetches of one package for one project  *)
(* (after switching there and back) are left out.                          *)
Expand(p) ==
    /\ p \in nodes
    /\ p \notin expanded /\ p \notin inFlight
    /\ Cardinality(fetches) < MaxFetches
    /\ Fetch(p) \notin fetches
    /\ inFlight' = inFlight \cup {p}
    /\ cached' = cached \cup {p}
    /\ fetches' = fetches \cup {Fetch(p)}
    /\ UNCHANGED <<project, view, elements, expanded, structs, menu>>

(* A double tap on a struct or an interface.                               *)
ExpandStruct(t) ==
    /\ t \in nodes
    /\ t \notin structs /\ t \notin inFlight
    /\ Cardinality(fetches) < MaxFetches
    /\ Fetch(t) \notin fetches
    /\ inFlight' = inFlight \cup {t}
    /\ fetches' = fetches \cup {Fetch(t)}
    /\ UNCHANGED <<project, view, elements, expanded, structs, cached, menu>>

(* Elements of an answer that are on the canvas already are not added.     *)
EdgesAdded(v) == edges \cup {e \in v.edges : \A x \in edges : x.id # e.id}

(* Mutation: the mark is taken away on the way out of a success only.      *)
LandFailsMarked(f) ==
    /\ fetches' = fetches \ {f}
    /\ UNCHANGED inFlight

(* The finally block, which runs whatever the canvas shows by now.         *)
Land(f) ==
    /\ fetches' = fetches \ {f}
    /\ inFlight' = inFlight \ {f.key}

ExpandDone(f) ==
    /\ f \in fetches /\ f.key \in Packages
    /\ nodes' = nodes \cup StructLevel(f.key).nodes
    /\ edges' = EdgesAdded(StructLevel(f.key))
    /\ expanded' = expanded \cup {f.key}
    /\ Land(f)
    /\ UNCHANGED <<project, view, structs, cached, menu>>

(* Nothing is added when the struct is gone, but it counts as expanded.    *)
StructDone(f) ==
    /\ f \in fetches /\ f.key \in Structs
    /\ IF f.key \notin nodes THEN UNCHANGED elements
       ELSE /\ nodes' = nodes \cup MemberLevel(f.key).nodes
            /\ edges' = EdgesAdded(MemberLevel(f.key))
    /\ structs' = structs \cup {f.key}
    /\ Land(f)
    /\ UNCHANGED <<project, view, expanded, cached, menu>>

FetchFails(f) ==
    /\ f \in fetches
    /\ Land(f)
    /\ UNCHANGED <<project, view, elements, expanded, structs, cached, menu>>

----------------------------------------------------------------------------
(* Undoing it.                                                             *)

(* Mutation: only the source of a boundary edge is moved to the package.   *)
RewrittenSource(p, es) ==
    {[e EXCEPT !.id = <<"collapsed", p, e.to, e.kind>>, !.from = p] :
        e \in {x \in es : /\ x.id[1] # "plain"
                          /\ PackageOf[x.from] = p /\ PackageOf[x.to] # p}}

(* Boundary edges that touch package p are anchored at its node again.     *)
Rewritten(p, es) ==
    LET touched == {x \in es : /\ x.id[1] # "plain"
                               /\ PackageOf[x.from] = p \/ PackageOf[x.to] = p}
        At(n) == IF PackageOf[n] = p THEN p ELSE n
    IN  {[id |-> <<"collapsed", At(e.from), At(e.to), e.kind>>,
          from |-> At(e.from), to |-> At(e.to), kind |-> e.kind] :
            e \in {x \in touched : At(x.from) # At(x.to)}}

(* The canvas after collapsePackage of the packages ps: without a cached   *)
(* node the package itself is not put back.                                *)
NodesWithout(ps) == {n \in nodes : PackageOf[n] \notin ps} \cup (ps \cap cached)

EdgesWithout(p, es) ==
    LET left == {e \in es : PackageOf[e.from] # p /\ PackageOf[e.to] # p}
    IN  IF p \notin cached THEN left
        ELSE left \cup {e \in Rewritten(p, es) : \A x \in left : x.id # e.id}

Forget(ps) ==
    /\ structs' = {t \in structs : PackageOf[t] \notin ps \/ t \notin nodes}
    /\ cached' = cached \ ps
    /\ expanded' = expanded \ ps
    /\ UNCHANGED <<inFlight, fetches>>

(* A right click: what the menu offers is decided now.                     *)
OpenMenu(n) ==
    /\ n \in nodes
    /\ menu' = [package |-> PackageOf[n], inExpanded |-> PackageOf[n] \in expanded]
    /\ UNCHANGED <<project, view, elements, drill>>

CloseMenu ==
    /\ menu # None
    /\ menu' = None
    /\ UNCHANGED <<project, view, elements, drill>>

(* "Collapse package" of the menu.                                         *)
MenuCollapsePackage ==
    /\ menu # None /\ menu.inExpanded
    /\ menu' = None
    /\ LET p == menu.package
       IN  IF \A n \in nodes : PackageOf[n] # p THEN UNCHANGED <<elements, drill>>
           ELSE /\ nodes' = NodesWithout({p})
                /\ edges' = EdgesWithout(p, edges)
                /\ Forget({p})
    /\ UNCHANGED <<project, view>>

(* "collapse all" of the top bar, one package after the other.  The menu   *)
(* stays open: only a click on the canvas closes it.                       *)
CollapseAll ==
    /\ expanded # {}
    /\ LET ps == {p \in expanded : \E n \in nodes : PackageOf[n] = p}
       IN  /\ nodes' = NodesWithout(ps)
           /\ edges' = FoldSet(EdgesWithout, edges, ps)
           /\ Forget(ps)
    /\ UNCHANGED <<project, view, menu>>

Next ==
    \/ Reload \/ Refresh \/ GraphArrives \/ GraphFails
    \/ \E p \in Projects : Switch(p)
    \/ \E p \in Packages : Expand(p)
    \/ \E n \in Structs : ExpandStruct(n)
    \/ \E f \in fetches : ExpandDone(f) \/ StructDone(f) \/ FetchFails(f)
    \/ \E n \in Nodes : OpenMenu(n)
    \/ CloseMenu \/ MenuCollapsePackage \/ CollapseAll

Spec == Init /\ [][Next]_vars

----------------------------------------------------------------------------
(* Properties.                                                             *)

(* Type invariant.                                                         *)
TypeOK ==
    /\ project \in Projects
    /\ view \in {"loading", "ready", "error"}
    /\ nodes \subseteq Nodes
    /\ \A e \in edges : e.from \in nodes /\ e.to \in nodes
    /\ expanded \subseteq Packages /\ structs \subseteq Structs
    /\ inFlight \subseteq Packages \cup Structs
    /\ cached \subseteq Packages
    /\ fetches \subseteq [of : Projects, key : Packages \cup Structs]
    /\ menu = None \/ menu \in [package : Packages, inExpanded : BOOLEAN]

(* On a canvas that shows a graph, whatever is not a package lies in a     *)
(* package that counts as expanded, so that "collapse package" and         *)
(* "collapse all" can take it away again: late answers, a refresh in       *)
(* between and collapsing in the middle of a fetch included.               *)
MembersMeanExpanded ==
    view = "ready" => \A n \in nodes \ Packages : PackageOf[n] \in expanded

(* A use across packages keeps its arrow, however often its two ends are   *)
(* expanded and collapsed: when an end comes onto the canvas an edge of    *)
(* its kind joins each end or its package, and while an end and both       *)
(* packages stay no step takes the last such edge away.                    *)
CrossUses == {e \in Edges : /\ PackageOf[e.from] # PackageOf[e.to]
                            /\ {e.from, e.to} \cap Packages = {}}
EndShown(e) == {e.from, e.to} \cap nodes # {}
PackagesShown(e) == {PackageOf[e.from], PackageOf[e.to]} \subseteq nodes
Arrow(e) ==
    \E x \in edges : /\ x.kind = e.kind
                     /\ x.from \in {e.from, PackageOf[e.from]}
                     /\ x.to \in {e.to, PackageOf[e.to]}

ArrowKept ==
    [][\A e \in CrossUses :
        EndShown(e)' /\ PackagesShown(e)' /\ (EndShown(e) => Arrow(e)) => Arrow(e)']_vars

(* The mark that makes a node ignore double taps while one is answered     *)
(* goes with its request: it is on a node only while a request for the     *)
(* node is under way, whether that fails, comes late or is for another     *)
(* project.  Double taps are also ignored by what counts as expanded; of   *)
(* that, StructTapsHeard and PackageTapsHeard say what does not hold.      *)
MarkMeansRequest ==
    \A k \in inFlight : \E f \in fetches : f.key = k

(* What useAggregateExpand.ts:116-117 says: a double tap on a struct does  *)
(* nothing when "its members are already on the canvas" (or it is no       *)
(* struct), so that one that counts as expanded shows its members.         *)
StructTapsHeard ==
    view = "ready" => \A t \in structs \cap nodes : ContainedBy(t) \subseteq nodes

(* The same of packages, by lines 102-103: expandedPackages are those      *)
(* "that have been expanded so far on the current graph snapshot", so that *)
(* they show what the expansion brought.                                   *)
PackageTapsHeard ==
    view = "ready" =>
        \A p \in expanded \cap nodes :
            {n \in StructLevel(p).nodes : PackageOf[n] = p} \subseteq nodes

(* What useAggregateExpand.ts:162-163 says: "Reset the expansion set       *)
(* whenever the snapshot identity changes (project switch, re-analyze,     *)
(* aggregation flip). Every fresh graph starts clean."                     *)
FreshGraphStartsClean ==
    [][view = "loading" /\ view' = "ready" => expanded' = {}]_vars
=============================================================================
