--------------------------- MODULE ProjectService ---------------------------
(***************************************************************************)
(* What the HTTP API promises the clients of one server process about a    *)
(* project, whatever uploads, analyses, deletions and evictions overlap:   *)
(* an id is handed out once and does not come back after its project is    *)
(* gone; the graph GET /graph serves is only ever replaced by that of a    *)
(* later analysis; and what a done event announces is what is served.      *)
(***************************************************************************)
EXTENDS Naturals

CONSTANTS
    ProjectIDs,     \* the ids domain.NewProjectID can return
    MaxRuns         \* bound: how many analyses are admitted

VARIABLES
    phase,          \* of a project: none, uploading, ready (201 sent) or gone
    graph,          \* the analysis whose graph.json is served, 0 for none
    announced       \* the last analysis whose client was told it is done

vars == <<phase, graph, announced>>

Here(p) == phase[p] \in {"uploading", "ready"}

TypeOK ==
    /\ phase \in [ProjectIDs -> {"none", "uploading", "ready", "gone"}]
    /\ graph \in [ProjectIDs -> 0..MaxRuns]
    /\ announced \in [ProjectIDs -> 0..MaxRuns]

Init ==
    /\ phase = [p \in ProjectIDs |-> "none"]
    /\ graph = [p \in ProjectIDs |-> 0]
    /\ announced = [p \in ProjectIDs |-> 0]

Upload(p) ==
    /\ phase[p] = "none"
    /\ phase' = [phase EXCEPT ![p] = "uploading"]
    /\ UNCHANGED <<graph, announced>>

Complete(p) ==
    /\ phase[p] = "uploading"
    /\ phase' = [phase EXCEPT ![p] = "ready"]
    /\ UNCHANGED <<graph, announced>>

(* DELETE, eviction, or an upload that failed: from now on every request   *)
(* for these projects is answered 404.                                     *)
Remove(S) ==
    /\ \A p \in S : Here(p)
    /\ phase' = [p \in ProjectIDs |-> IF p \in S THEN "gone" ELSE phase[p]]
    /\ graph' = [p \in ProjectIDs |-> IF p \in S THEN 0 ELSE graph[p]]
    /\ announced' = [p \in ProjectIDs |-> IF p \in S THEN 0 ELSE announced[p]]

Publish(p) ==
    /\ Here(p)
    /\ \E n \in (graph[p] + 1)..MaxRuns : graph' = [graph EXCEPT ![p] = n]
    /\ UNCHANGED <<phase, announced>>

Announce(p) ==
    /\ Here(p)
    /\ graph[p] > announced[p]
    /\ announced' = [announced EXCEPT ![p] = graph[p]]
    /\ UNCHANGED <<phase, graph>>

Next ==
    \/ \E p \in ProjectIDs : Upload(p) \/ Complete(p) \/ Publish(p) \/ Announce(p)
    \/ \E S \in SUBSET ProjectIDs : Remove(S)

Spec == Init /\ [][Next]_vars
=============================================================================
