---------------------------- MODULE Reachability ----------------------------
(***************************************************************************)
(* The reachability stage of an analysis: server/internal/reach marks the  *)
(* nodes that can be reached from the entry points and reports the rest as *)
(* dead; pages/Main/localReachability.ts does the same search over the     *)
(* graph the browser holds, by other rules, when the server's answer to a  *)
(* change of entry points is of no use.                                    *)
(*                                                                         *)
(* A step of a search visits one node.  The code takes the nodes in the    *)
(* order they were found; here any pending one may be next, so that what   *)
(* holds does not hang on the order of the edges.                          *)
(***************************************************************************)
EXTENDS EntryResolver

VARIABLES spec,        \* the spec of the request
          entries,     \* the entry ids the resolver returned
          reached,     \* the ids the search of the server found
          pending,     \* those it has not visited
          reachable,   \* the nodes whose Reachable flag is set
          deadCount,   \* Stats.DeadCount of the server's graph
          report       \* the nodes of the dead-code report

VARIABLES localSpec,   \* the spec the user has chosen since
          localIDs,    \* the entry ids the browser picked for it
          visited,     \* the ids the search of the browser found
          queue,       \* those it has not visited
          shown,       \* the nodes the browser shows as reachable
          shownDead    \* stats.dead_count of the browser's graph

serverVars == <<spec, entries, reached, pending, reachable, deadCount, report>>
browserVars == <<localSpec, localIDs, visited, queue, shown, shownDead>>
vars == <<builderVars, serverVars, browserVars>>

-----------------------------------------------------------------------------
(* Mutation: a member that is reached pulls in its container.              *)
SuccessorsContainsBoth(edges, id) ==
  {e.target : e \in {e \in edges : e.source = id /\ e.kind # "imports"}}
    \cup {e.source : e \in {e \in edges : e.target = id
                              /\ e.kind \in {"implements", "contains"}}}

(* buildAdjacency: implements is followed both ways, imports not at all.   *)
Successors(edges, id) ==
  {e.target : e \in {e \in edges : e.source = id /\ e.kind # "imports"}}
    \cup {e.source : e \in {e \in edges : e.target = id /\ e.kind = "implements"}}

ResolveEntries ==
  /\ phase = "built"
  /\ IF ValidSpec(spec)
     THEN /\ phase' = "marking"
          /\ entries' = Resolve(spec)
          /\ reached' = entries' \cap DOMAIN nodes
          /\ pending' = reached'
     ELSE /\ phase' = "failed"
          /\ UNCHANGED <<entries, reached, pending>>
  /\ UNCHANGED <<program, next, nodes, weight, objectIDs, spec,
                 reachable, deadCount, report, browserVars>>

(* One turn of the loop of Mark.  An edge may lead to what is no node.     *)
Visit(id) ==
  /\ phase = "marking"
  /\ id \in pending
  /\ LET found == (Successors(Edges, id) \cap DOMAIN nodes) \ reached
     IN  /\ reached' = reached \cup found
         /\ pending' = (pending \ {id}) \cup found
  /\ UNCHANGED <<builderVars, spec, entries, reachable, deadCount, report,
                 browserVars>>

(* The end of Mark, and DeadCode.  Packages and what the user's module     *)
(* does not own are counted as dead, not reported.                         *)
FinishMark ==
  /\ phase = "marking"
  /\ pending = {}
  /\ phase' = "reported"
  /\ reachable' = reached \cap DOMAIN nodes
  /\ deadCount' = Cardinality(DOMAIN nodes) - Cardinality(reached)
  /\ report' = {id \in DOMAIN nodes \ reachable' :
                  nodes[id].kind # "package" /\ ~nodes[id].external}
  /\ UNCHANGED <<program, next, nodes, weight, objectIDs,
                 spec, entries, reached, pending, browserVars>>

-----------------------------------------------------------------------------
(* What the panel of the entry points can make of the default spec: auto   *)
(* mode goes with an empty manual list, and no interface is ever named.    *)
LocalSpecs == {s \in Specs : /\ s.mode = "auto" => s.manual = {}
                              /\ s.interfaces = {}}

(* nodeToFqn: functions have a name, and methods that some struct or       *)
(* interface contains.                                                     *)
FQNs(id) ==
  LET node == nodes[id]
  IN  CASE node.kind = "func" -> {<<node.package, node.name, None>>}
        [] node.kind = "method" ->
             {<<node.package, nodes[e.source].name, node.name>> :
                e \in {e \in EdgesOfKind("contains") : e.target = id /\
                         e.source \in NodesOfKind("struct") \cup
                                      NodesOfKind("interface")}}
        [] OTHER -> {}

(* Any func main will do; the manual names count in every mode; the        *)
(* interfaces are ignored.                                                 *)
PickEntryIDs(s) ==
  {id \in DOMAIN nodes :
     \/ /\ s.mode \in {"auto", "mixed"}
        /\ nodes[id].kind = "func" /\ nodes[id].name = "main"
     \/ FQNs(id) \cap s.manual # {}}

(* Mutation: a member that is reached pulls in its container.              *)
LocalSuccessorsContainsBoth(id) ==
  {e.target : e \in {e \in Edges : e.source = id /\ e.kind # "imports"}}
    \cup {e.source : e \in {e \in Edges : e.target = id /\ e.kind = "contains"}}

(* Every edge is followed from its source to its target only.              *)
LocalSuccessors(id) ==
  {e.target : e \in {e \in Edges : e.source = id /\ e.kind # "imports"}}

(* The user chooses other entry points and the server answers with an      *)
(* empty graph; the search runs over the graph the server last gave, which *)
(* is the one marked here as long as it is small enough (1000 nodes) not   *)
(* to be aggregated by package.                                            *)
StartLocal ==
  /\ phase \in {"reported", "shown"}
  /\ phase' = "local"
  /\ \E s \in LocalSpecs :
       /\ localSpec' = s
       /\ localIDs' = PickEntryIDs(s)
       /\ visited' = localIDs'
       /\ queue' = localIDs'
  /\ UNCHANGED <<program, next, nodes, weight, objectIDs, serverVars,
                 shown, shownDead>>

(* Mutation: a neighbour is queued although it was visited.                *)
VisitLocalAgain(id) ==
  /\ phase = "local"
  /\ id \in queue
  /\ visited' = visited \cup LocalSuccessors(id)
  /\ queue' = (queue \ {id}) \cup LocalSuccessors(id)
  /\ UNCHANGED <<builderVars, serverVars, localSpec, localIDs, shown, shownDead>>

VisitLocal(id) ==
  /\ phase = "local"
  /\ id \in queue
  /\ LET found == LocalSuccessors(id) \ visited
     IN  /\ visited' = visited \cup found
         /\ queue' = (queue \ {id}) \cup found
  /\ UNCHANGED <<builderVars, serverVars, localSpec, localIDs, shown, shownDead>>

(* The flags of the nodes and their count.                                 *)
RebuildGraph ==
  /\ phase = "local"
  /\ queue = {}
  /\ phase' = "shown"
  /\ shown' = (visited \cup localIDs) \cap DOMAIN nodes
  /\ shownDead' = Cardinality(DOMAIN nodes \ shown')
  /\ UNCHANGED <<program, next, nodes, weight, objectIDs, serverVars,
                 localSpec, localIDs, visited, queue>>

-----------------------------------------------------------------------------
Init ==
  /\ BuilderInit
  /\ spec \in Specs
  /\ entries = {} /\ reached = {} /\ pending = {}
  /\ reachable = {} /\ deadCount = 0 /\ report = {}
  /\ localSpec = spec
  /\ localIDs = {} /\ visited = {} /\ queue = {}
  /\ shown = {} /\ shownDead = 0

Build == BuilderNext /\ UNCHANGED <<serverVars, browserVars>>

(* One analysis: a goroutine that runs to its end.                         *)
Analyse == \/ Build
           \/ ResolveEntries
           \/ \E id \in pending : Visit(id)
           \/ FinishMark

(* One recomputation: a synchronous function of the browser.               *)
Recompute == (\E id \in queue : VisitLocal(id)) \/ RebuildGraph

Next == Analyse \/ StartLocal \/ Recompute

Spec == Init /\ [][Next]_vars /\ WF_vars(Analyse) /\ WF_vars(Recompute)

-----------------------------------------------------------------------------
TypeOK ==
  /\ phase \in {"packages", "wiring", "implements", "built", "cancelled",
                "marking", "failed", "reported", "local", "shown"}
  /\ \A id \in DOMAIN nodes : nodes[id].kind \in NodeKinds
  /\ \A e \in Edges : e.kind \in EdgeKinds /\ weight[e] \in Nat \ {0}
  /\ pending \subseteq reached /\ reached \subseteq DOMAIN nodes
  /\ reachable \subseteq DOMAIN nodes /\ report \subseteq DOMAIN nodes
  /\ localIDs \subseteq DOMAIN nodes /\ shown \subseteq DOMAIN nodes
  /\ queue \subseteq visited
  /\ deadCount \in Nat /\ shownDead \in Nat

(* The graph that the analyser, the aggregator and the exporter are given: *)
(* edges start at nodes and end at nodes, but for embedded types that were *)
(* not loaded; a node has one container at most, and every node but a      *)
(* package has one.                                                        *)
GraphWellFormed ==
  phase = "built" =>
    /\ \A e \in Edges : /\ e.source \in DOMAIN nodes
                        /\ e.target \in DOMAIN nodes \/ e.kind = "embeds"
    /\ \A d, e \in EdgesOfKind("contains") : d.target = e.target => d = e
    /\ \A id \in DOMAIN nodes : nodes[id].kind # "package" =>
         \E e \in EdgesOfKind("contains") : e.target = id

(* Every use that a function of the program makes of an object that has a  *)
(* node is an edge of the graph, wherever the two are declared.  A method  *)
(* of an instance of a generic type has no node, unless an alias names the *)
(* instance, although the method it was made from has one.                 *)
UsesBecomeEdges ==
  phase = "built" =>
    \A p \in Range(program.pkgs) : \A use \in Range(p.uses) :
      LET from == objectIDs[use.in]
          to   == objectIDs[use.object]
      IN  /\ {use.in, use.object} \subseteq DOMAIN objectIDs
          /\ from # to
          => Edge(from, to, IF use.func THEN "calls" ELSE "references") \in Edges

(* A set of nodes is closed under the policy the godoc of buildAdjacency   *)
(* states: an edge leads from its source to its target unless it is an     *)
(* import, and an implements edge leads back as well.                      *)
Closed(ids, edges, set) ==
  \A e \in edges :
    /\ e.kind # "imports" /\ e.source \in set /\ e.target \in ids => e.target \in set
    /\ e.kind = "implements" /\ e.target \in set /\ e.source \in ids => e.source \in set

(* What is reachable from the seeds: the nodes of every closed set of      *)
(* nodes that holds the seeds.                                             *)
Live(ids, edges, seeds) ==
  {id \in ids : \A set \in SUBSET ids :
     seeds \cap ids \subseteq set /\ Closed(ids, edges, set) => id \in set}

(* Mark sets the flag of the nodes that the entries reach, no more and no  *)
(* less, whatever the cycles of the graph and the order of its edges.      *)
MarkExact == phase = "reported" => reachable = Live(DOMAIN nodes, Edges, entries)

(* Nothing the report calls dead is an entry point, or is used in the body *)
(* of a function that is live.  The object the use resolves to is what has *)
(* a node; of generic types that is not always what is declared, for which *)
(* see GenericUsesCount.                                                   *)
ReportSound ==
  phase = "reported" =>
    /\ report \cap entries = {}
    /\ \A p \in Range(program.pkgs) : \A use \in Range(p.uses) :
         /\ {use.in, use.object} \subseteq DOMAIN objectIDs
         /\ objectIDs[use.in] \in reachable
         => objectIDs[use.object] \notin report

(* The declared object a use is about.                                     *)
Declared(object) ==
  IF object \in DOMAIN program.origin THEN program.origin[object] ELSE object

(* The same of declarations: docs/requirements.md:99 (FR-19) has "dead" be *)
(* what the entry points do not reach, so that no declaration is reported  *)
(* that a live function uses, a generic one among them.                    *)
GenericUsesCount ==
  phase = "reported" =>
    \A p \in Range(program.pkgs) : \A use \in Range(p.uses) :
      /\ {use.in, Declared(use.object)} \subseteq DOMAIN objectIDs
      /\ objectIDs[use.in] \in reachable
      => objectIDs[Declared(use.object)] \notin report

(* A spec with a name that cannot be resolved marks nothing: what is       *)
(* marked holds an entry for every name the user gave.                     *)
EveryNameCounts ==
  phase = "reported" =>
    \A fqn \in ByHand(spec) : LookupSymbol(fqn) \cap reachable # {}

(* The dead are what is not reachable, in the counts of both graphs.       *)
DeadCountAgrees ==
  /\ phase = "reported" => deadCount = Cardinality(DOMAIN nodes \ reachable)
  /\ phase = "shown" => shownDead = Cardinality(DOMAIN nodes \ shown)

(* The browser never shows as live what the server's rule would not reach  *)
(* from the same entries.                                                  *)
LocalNeverWidens ==
  phase = "shown" => shown \subseteq Live(DOMAIN nodes, Edges, localIDs)

(* Both searches end, whatever the cycles.                                 *)
SearchesEnd ==
  /\ phase = "packages" ~> phase \in {"cancelled", "failed", "reported"}
  /\ phase = "local" ~> phase = "shown"

(* pages/Main/panels/LegendPanel.tsx tells the user that implements edges  *)
(* are "bidirectional in reach"; the search of the browser would then show *)
(* all that the server's rule reaches from the same entries.               *)
LocalNeverNarrows ==
  phase = "shown" => Live(DOMAIN nodes, Edges, localIDs) \subseteq shown

(* The nodes of the declarations that denote a named type.                 *)
TypeNodes(named) ==
  UNION {{NodeID(p.path, d.name, None) :
            d \in {d \in Range(p.scope) : d.sort = "type" /\ d.named = named}} :
           p \in {p \in Range(program.pkgs) : p.typed}}

(* "one implements-edge per (T, I) pair where                              *)
(* types.Implements(types.NewPointer(T), I) holds": the node an edge       *)
(* starts from is that of a type for which it holds.                       *)
ImplementsEdgesTrue ==
  phase = "built" =>
    \A e \in EdgesOfKind("implements") : \E pair \in program.implements :
      e.source \in TypeNodes(pair[1]) /\ e.target \in TypeNodes(pair[2])
=============================================================================
