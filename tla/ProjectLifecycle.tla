-------------------------- MODULE ProjectLifecycle --------------------------
(***************************************************************************)
(* One server process at work: POST /projects (the loader), POST /analyze  *)
(* (slot, parse, export), DELETE and the sweeper act on the same projects. *)
(* The cache manager appears as its registry and the two directories of a  *)
(* project (DiskCache has its locks and temporary files), the analysis as  *)
(* the steps that touch shared state (Orchestrator has its events).  A     *)
(* request for an unknown id (404) changes nothing and is no step.         *)
(***************************************************************************)
EXTENDS Naturals

CONSTANTS
    Requests,       \* handler goroutines
    ProjectIDs,     \* the ids domain.NewProjectID can return
    Parts,          \* the entries of an uploaded archive
    MaxRuns,        \* bound: how many analyses are admitted
    NoProject       \* what a goroutine outside a request works on

ASSUME LifecycleAssumption ==
    /\ MaxRuns \in Nat
    /\ NoProject \notin ProjectIDs

VARIABLES
    issued,         \* the ids NewProjectID has returned
    live,           \* the keys of manager.projects
    dirs,           \* ids whose sources directory exists
    tree,           \* the archive entries in a sources directory
    uploaded,       \* ids whose POST was answered 201
    graph,          \* graph.json: the analysis that wrote it, 0 for no file
    report,         \* dead-code.json, likewise
    announced,      \* the last analysis of a project that emitted done
    slot,           \* ids whose mutex in Orchestrator.inflight is held
    runs,           \* analyses admitted so far
    doomed,         \* ids unregistered by the sweeper, not removed yet
    pc,             \* where a handler is
    target,         \* the project it works on
    left,           \* the archive entries its loader has not written yet
    run             \* the analysis it executes

disk == <<dirs, tree, graph, report>>
service == <<issued, live, uploaded, announced, doomed>>
frame == <<pc, target, left, run>>
vars == <<service, disk, slot, runs, frame>>

Uploading == {"extract", "finish", "meta", "storeMeta", "rollback"}
Analysing == {"parse", "graphPath", "writeGraph", "reportPath", "writeReport", "done"}
Removing == {"delete", "rmSources", "rmCache"}

TypeOK ==
    /\ issued \subseteq ProjectIDs
    /\ live \subseteq issued
    /\ dirs \subseteq issued
    /\ uploaded \subseteq issued
    /\ doomed \subseteq issued
    /\ slot \subseteq issued
    /\ tree \in [ProjectIDs -> SUBSET Parts]
    /\ runs \in 0..MaxRuns
    /\ graph \in [ProjectIDs -> 0..runs]
    /\ report \in [ProjectIDs -> 0..runs]
    /\ announced \in [ProjectIDs -> 0..runs]
    /\ pc \in [Requests -> {"idle", "admitted"} \cup Uploading \cup Analysing \cup Removing]
    /\ target \in [Requests -> issued \cup {NoProject}]
    /\ \A r \in Requests : pc[r] = "idle" <=> target[r] = NoProject
    /\ left \in [Requests -> SUBSET Parts]
    /\ run \in [Requests -> 0..runs]

Init ==
    /\ issued = {} /\ live = {} /\ dirs = {} /\ uploaded = {} /\ doomed = {} /\ slot = {}
    /\ tree = [p \in ProjectIDs |-> {}]
    /\ runs = 0
    /\ graph = [p \in ProjectIDs |-> 0]
    /\ report = [p \in ProjectIDs |-> 0]
    /\ announced = [p \in ProjectIDs |-> 0]
    /\ pc = [r \in Requests |-> "idle"]
    /\ target = [r \in Requests |-> NoProject]
    /\ left = [r \in Requests |-> {}]
    /\ run = [r \in Requests |-> 0]
----------------------------------------------------------------------------
At(r, step) == pc[r] = step

Goto(r, step) ==
    /\ pc' = [pc EXCEPT ![r] = step]
    /\ UNCHANGED <<target, left, run>>

Start(r, step, p) ==
    /\ At(r, "idle")
    /\ pc' = [pc EXCEPT ![r] = step]
    /\ target' = [target EXCEPT ![r] = p]

Finish(r) ==
    /\ pc' = [pc EXCEPT ![r] = "idle"]
    /\ target' = [target EXCEPT ![r] = NoProject]
    /\ left' = [left EXCEPT ![r] = {}]
    /\ run' = [run EXCEPT ![r] = 0]

(* A step of a handler that may fail: either it goes on, or it is at step. *)
OrElse(r, next, step) == Goto(r, next) \/ Goto(r, step)
----------------------------------------------------------------------------
(* POST /api/projects.                                                     *)

(* The archive was spooled and passed preflight; NewProject makes the two  *)
(* directories and registers the id, so every other request may use it.    *)
BeginUpload(r) ==
    /\ \E p \in ProjectIDs \ issued :
         /\ Start(r, "extract", p)
         /\ issued' = issued \cup {p}
         /\ live' = live \cup {p}
         /\ dirs' = dirs \cup {p}
    /\ left' = [left EXCEPT ![r] = Parts]
    /\ UNCHANGED <<uploaded, announced, doomed, tree, graph, report, slot, runs, run>>

(* MkdirAll of the parent, which brings a removed sources directory back,  *)
(* and the content of one entry.                                           *)
ExtractEntry(r) ==
    /\ At(r, "extract")
    /\ \E e \in left[r] :
         /\ left' = [left EXCEPT ![r] = @ \ {e}]
         /\ tree' = [tree EXCEPT ![target[r]] = @ \cup {e}]
    /\ dirs' = dirs \cup {target[r]}
    /\ UNCHANGED <<service, graph, report, slot, runs, pc, target, run>>

(* An entry is refused or can not be written, or the client leaves.  The   *)
(* directory may have been made again by then.                             *)
ExtractFails(r) ==
    /\ At(r, "extract")
    /\ left[r] # {}
    /\ dirs' \in {dirs, dirs \cup {target[r]}}
    /\ Goto(r, "rollback")
    /\ UNCHANGED <<service, tree, graph, report, slot, runs>>

(* Mutation: the error of an entry ends the loop, not the upload.          *)
ExtractEndsEarly(r) ==
    /\ At(r, "extract")
    /\ Goto(r, "finish")
    /\ UNCHANGED <<service, disk, slot, runs>>

ExtractEnds(r) ==
    /\ At(r, "extract")
    /\ left[r] = {}
    /\ Goto(r, "finish")
    /\ UNCHANGED <<service, disk, slot, runs>>

(* flattenSingleWrapperDir and readModuleName: a sources directory that is *)
(* gone, or that has no go.mod, is an error.                               *)
CheckModule(r) ==
    /\ At(r, "finish")
    /\ IF target[r] \in dirs THEN OrElse(r, "meta", "rollback") ELSE Goto(r, "rollback")
    /\ UNCHANGED <<service, disk, slot, runs>>

(* WriteMeta: the locked section, ErrProjectNotFound for a project that    *)
(* was deleted or evicted meanwhile; then meta.json, and 201.              *)
WriteMeta(r) ==
    /\ At(r, "meta")
    /\ Goto(r, IF target[r] \in live THEN "storeMeta" ELSE "rollback")
    /\ UNCHANGED <<service, disk, slot, runs>>

StoreMeta(r) ==
    /\ At(r, "storeMeta")
    /\ \/ /\ uploaded' = uploaded \cup {target[r]}
          /\ Finish(r)
       \/ /\ Goto(r, "rollback")
          /\ UNCHANGED uploaded
    /\ UNCHANGED <<issued, live, announced, doomed, disk, slot, runs>>
----------------------------------------------------------------------------
(* DELETE /api/projects/{id}, the loader's rollback and the sweeper.       *)

LookupDelete(r) ==
    /\ \E p \in live : Start(r, "delete", p)
    /\ UNCHANGED <<service, disk, slot, runs, left, run>>

(* DeleteProject unregisters the project; one that is not registered (any  *)
(* more) is not an error and nothing is removed.                           *)
DeleteProject(r) ==
    /\ pc[r] \in {"delete", "rollback"}
    /\ IF target[r] \in live
       THEN live' = live \ {target[r]} /\ Goto(r, "rmSources")
       ELSE Finish(r) /\ UNCHANGED live
    /\ UNCHANGED <<issued, uploaded, announced, doomed, disk, slot, runs>>

RemoveSources(p) ==
    /\ dirs' = dirs \ {p}
    /\ tree' = [tree EXCEPT ![p] = {}]

RemoveCache(p) ==
    /\ graph' = [graph EXCEPT ![p] = 0]
    /\ report' = [report EXCEPT ![p] = 0]

RemoveSourcesDir(r) ==
    /\ At(r, "rmSources")
    /\ RemoveSources(target[r])
    /\ Goto(r, "rmCache")
    /\ UNCHANGED <<service, graph, report, slot, runs>>

RemoveCacheDir(r) ==
    /\ At(r, "rmCache")
    /\ RemoveCache(target[r])
    /\ Finish(r)
    /\ UNCHANGED <<service, dirs, tree, slot, runs>>

(* sweep: which projects are idle is left open (DiskCache has the clock).  *)
(* A tick begins when the list of the last one is worked off.              *)
Sweep ==
    /\ doomed = {}
    /\ \E S \in SUBSET live \ {{}} :
         /\ live' = live \ S
         /\ doomed' = S
    /\ UNCHANGED <<issued, uploaded, announced, disk, slot, runs, frame>>

Evict ==
    /\ \E p \in doomed :
         /\ RemoveSources(p)
         /\ RemoveCache(p)
         /\ doomed' = doomed \ {p}
    /\ UNCHANGED <<issued, live, uploaded, announced, slot, runs, frame>>
----------------------------------------------------------------------------
(* POST /api/projects/{id}/analyze.                                        *)

(* GetProject.  Ids are also to be had from GET /api/projects, which lists *)
(* what is registered, uploads in progress included.                       *)
LookupAnalyze(r) ==
    /\ \E p \in live : Start(r, "admitted", p)
    /\ UNCHANGED <<service, disk, slot, runs, left, run>>

(* Mutation: TryLock's answer is ignored.                                  *)
ReserveAnyway(r) ==
    /\ At(r, "admitted")
    /\ runs < MaxRuns
    /\ slot' = slot \cup {target[r]}
    /\ runs' = runs + 1
    /\ run' = [run EXCEPT ![r] = runs + 1]
    /\ pc' = [pc EXCEPT ![r] = "parse"]
    /\ UNCHANGED <<service, disk, target, left>>

(* The body was decoded meanwhile; the project may be gone by now.  The    *)
(* slot of an id is never forgotten, so an id finds the same mutex.        *)
Reserve(r) ==
    /\ At(r, "admitted")
    /\ target[r] \notin slot
    /\ runs < MaxRuns
    /\ slot' = slot \cup {target[r]}
    /\ runs' = runs + 1
    /\ run' = [run EXCEPT ![r] = runs + 1]
    /\ pc' = [pc EXCEPT ![r] = "parse"]
    /\ UNCHANGED <<service, disk, target, left>>

(* A bad body (400), or analysis_in_progress (409).                        *)
Refuse(r) ==
    /\ At(r, "admitted")
    /\ Finish(r)
    /\ UNCHANGED <<service, disk, slot, runs>>

(* handleAnalyze returns and the deferred release runs: after done, or     *)
(* after an error, a panic, or an emit to a client that has left.          *)
Release(r) ==
    /\ slot' = slot \ {target[r]}
    /\ Finish(r)

AnalysisFails(r) ==
    /\ pc[r] \in Analysing
    /\ Release(r)
    /\ UNCHANGED <<service, disk, runs>>

(* Parsing, which starts with an os.Stat of the sources directory (the     *)
(* manager names one for an unregistered id, too), building and marking.   *)
Parse(r) ==
    /\ At(r, "parse")
    /\ target[r] \in dirs
    /\ Goto(r, "graphPath")
    /\ UNCHANGED <<service, disk, slot, runs>>

(* WriteGraph and WriteDeadCode ask the manager for the directory, which   *)
(* only a registered project has, and rename the file into it later.       *)
ResolvePath(r) ==
    /\ pc[r] \in {"graphPath", "reportPath"}
    /\ target[r] \in live
    /\ Goto(r, IF At(r, "graphPath") THEN "writeGraph" ELSE "writeReport")
    /\ UNCHANGED <<service, disk, slot, runs>>

WriteGraph(r) ==
    /\ At(r, "writeGraph")
    /\ graph' = [graph EXCEPT ![target[r]] = run[r]]
    /\ Goto(r, "reportPath")
    /\ UNCHANGED <<service, dirs, tree, report, slot, runs>>

WriteReport(r) ==
    /\ At(r, "writeReport")
    /\ report' = [report EXCEPT ![target[r]] = run[r]]
    /\ Goto(r, "done")
    /\ UNCHANGED <<service, dirs, tree, graph, slot, runs>>

(* Mutation: the slot is given back before the last event.                 *)
EmitDoneLate(r) ==
    /\ At(r, "done")
    /\ IF target[r] \in slot
       THEN /\ slot' = slot \ {target[r]}
            /\ UNCHANGED <<announced, frame>>
       ELSE /\ announced' = [announced EXCEPT ![target[r]] = run[r]]
            /\ Finish(r)
            /\ UNCHANGED slot
    /\ UNCHANGED <<issued, live, uploaded, doomed, disk, runs>>

EmitDone(r) ==
    /\ At(r, "done")
    /\ announced' = [announced EXCEPT ![target[r]] = run[r]]
    /\ Release(r)
    /\ UNCHANGED <<issued, live, uploaded, doomed, disk, runs>>
----------------------------------------------------------------------------
Upload(r) ==
    \/ BeginUpload(r) \/ ExtractEntry(r) \/ ExtractFails(r) \/ ExtractEnds(r)
    \/ CheckModule(r) \/ WriteMeta(r) \/ StoreMeta(r)

Delete(r) ==
    \/ LookupDelete(r) \/ DeleteProject(r)
    \/ RemoveSourcesDir(r) \/ RemoveCacheDir(r)

Analyze(r) ==
    \/ LookupAnalyze(r) \/ Refuse(r) \/ Reserve(r) \/ Parse(r) \/ ResolvePath(r)
    \/ WriteGraph(r) \/ WriteReport(r) \/ EmitDone(r) \/ AnalysisFails(r)

Next ==
    \/ \E r \in Requests : Upload(r) \/ Delete(r) \/ Analyze(r)
    \/ Sweep
    \/ Evict

Spec == Init /\ [][Next]_vars
----------------------------------------------------------------------------
(* Properties.                                                             *)

(* What a 201 stands for: as long as the project is registered its whole   *)
(* archive is on disk, whatever deletions, rollbacks and evictions run.    *)
UploadsWhole ==
    \A p \in uploaded \cap live : p \in dirs /\ tree[p] = Parts

(* A client that was told done finds both artefacts of that analysis or of *)
(* later ones; the dead-code report is never ahead of the graph.  It rests *)
(* on the slot and on the order of the two writes and the event.           *)
DoneIsServed ==
    \A p \in live : announced[p] <= report[p] /\ report[p] <= graph[p]

(* api-contract section 5: a project can not be deleted during analysis.   *)
NoDeleteDuringAnalysis ==
    [][\A r \in Requests : At(r, "delete") /\ target[r] \in live \ live'
            => target[r] \notin slot]_vars

(* runPipeline: "sources are already on disk by the time the orchestrator  *)
(* runs".                                                                  *)
SourcesOnDisk ==
    \A r \in Requests : At(r, "parse") /\ target[r] \in live => tree[target[r]] = Parts

(* Load: "on any error after NewProject succeeds, the per-project          *)
(* directories are removed".  It fails when the project was deleted or     *)
(* evicted during extraction: an entry makes the directory again, and the  *)
(* rollback finds nothing registered to delete.                            *)
NoLeakedUploads ==
    (\A r \in Requests : At(r, "idle")) /\ doomed = {} => dirs \subseteq live

(* The service its clients see.  A project outside the registry answers    *)
(* 404, whatever its directories hold.                                     *)
Phases ==
    [p \in ProjectIDs |->
        IF p \notin issued THEN "none"
        ELSE IF p \notin live THEN "gone"
        ELSE IF p \in uploaded THEN "ready" ELSE "uploading"]

Served(f) == [p \in ProjectIDs |-> IF p \in live THEN f[p] ELSE 0]

Service == INSTANCE ProjectService WITH
    phase <- Phases, graph <- Served(graph), announced <- Served(announced)

ImplementsService == Service!Spec
=============================================================================
