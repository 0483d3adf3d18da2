----------------------- MODULE ProjectLifecycleProofs -----------------------
(***************************************************************************)
(* Theorems about ProjectLifecycle for every number of requests, projects, *)
(* archive entries and analyses.                                           *)
(***************************************************************************)
EXTENDS ProjectLifecycle, TLAPS

(* The variables always hold values of their types.                        *)
LEMMA TypeInit == Init => TypeOK
  BY LifecycleAssumption DEF LifecycleAssumption, Init, TypeOK

LEMMA TypeNext == TypeOK /\ [Next]_vars => TypeOK'
<1> SUFFICES ASSUME TypeOK, [Next]_vars
             PROVE  TypeOK'
  OBVIOUS
<1> USE LifecycleAssumption DEF LifecycleAssumption, TypeOK, service, disk, frame,
        Uploading, Analysing, Removing, At, Goto, Start, Finish, OrElse
<1>1. ASSUME NEW r \in Requests, Upload(r)
      PROVE  TypeOK'
  <2>1. CASE BeginUpload(r)
    BY <2>1 DEF BeginUpload
  <2>2. CASE ExtractEntry(r)
    BY <2>2 DEF ExtractEntry
  <2>3. CASE ExtractFails(r)
    BY <2>3 DEF ExtractFails
  <2>4. CASE ExtractEnds(r)
    BY <2>4 DEF ExtractEnds
  <2>5. CASE CheckModule(r)
    BY <2>5 DEF CheckModule
  <2>6. CASE WriteMeta(r)
    BY <2>6 DEF WriteMeta
  <2>7. CASE StoreMeta(r)
    BY <2>7 DEF StoreMeta
  <2> QED
    BY <1>1, <2>1, <2>2, <2>3, <2>4, <2>5, <2>6, <2>7 DEF Upload
<1>2. ASSUME NEW r \in Requests, Delete(r)
      PROVE  TypeOK'
  <2>1. CASE LookupDelete(r)
    BY <2>1 DEF LookupDelete
  <2>2. CASE DeleteProject(r)
    BY <2>2 DEF DeleteProject
  <2>3. CASE RemoveSourcesDir(r)
    BY <2>3 DEF RemoveSourcesDir, RemoveSources
  <2>4. CASE RemoveCacheDir(r)
    BY <2>4 DEF RemoveCacheDir, RemoveCache
  <2> QED
    BY <1>2, <2>1, <2>2, <2>3, <2>4 DEF Delete
<1>3. ASSUME NEW r \in Requests, Analyze(r)
      PROVE  TypeOK'
  <2>1. CASE LookupAnalyze(r)
    BY <2>1 DEF LookupAnalyze
  <2>2. CASE Refuse(r)
    BY <2>2 DEF Refuse
  <2>3. CASE Reserve(r)
    BY <2>3 DEF Reserve
  <2>4. CASE Parse(r)
    BY <2>4 DEF Parse
  <2>5. CASE ResolvePath(r)
    BY <2>5 DEF ResolvePath
  <2>6. CASE WriteGraph(r)
    BY <2>6 DEF WriteGraph
  <2>7. CASE WriteReport(r)
    BY <2>7 DEF WriteReport
  <2>8. CASE EmitDone(r)
    BY <2>8 DEF EmitDone, Release
  <2>9. CASE AnalysisFails(r)
    BY <2>9 DEF AnalysisFails, Release
  <2> QED
    BY <1>3, <2>1, <2>2, <2>3, <2>4, <2>5, <2>6, <2>7, <2>8, <2>9 DEF Analyze
<1>4. CASE Sweep
  BY <1>4 DEF Sweep
<1>5. CASE Evict
  BY <1>5 DEF Evict, RemoveSources, RemoveCache
<1>6. CASE UNCHANGED vars
  BY <1>6 DEF vars
<1> QED
  BY <1>1, <1>2, <1>3, <1>4, <1>5, <1>6 DEF Next

THEOREM TypeCorrect == Spec => []TypeOK
  BY TypeInit, TypeNext, PTL DEF Spec
----------------------------------------------------------------------------
(* The sources of the registered projects.  UploadsWhole needs what a      *)
(* loader on its way has already brought to disk, and that whoever removes *)
(* directories works on a project that is out of the registry.             *)

UploadInv ==
    \A r \in Requests : target[r] \in live =>
        /\ At(r, "extract") => target[r] \in dirs /\ Parts \ left[r] \subseteq tree[target[r]]
        /\ pc[r] \in {"finish", "meta", "storeMeta"} =>
               target[r] \in dirs /\ tree[target[r]] = Parts

RemovedGone ==
    /\ doomed \cap live = {}
    /\ \A r \in Requests : pc[r] \in {"rmSources", "rmCache"} => target[r] \notin live

TreeInv == UploadsWhole /\ UploadInv /\ RemovedGone

LEMMA TreeInit == Init => TreeInv
  BY LifecycleAssumption
     DEF LifecycleAssumption, Init, TreeInv, UploadsWhole, UploadInv, RemovedGone, At

LEMMA TreeNext == TypeOK /\ TreeInv /\ [Next]_vars => TreeInv'
<1> SUFFICES ASSUME TypeOK, TreeInv, [Next]_vars
             PROVE  TreeInv'
  OBVIOUS
<1> USE LifecycleAssumption DEF LifecycleAssumption, TypeOK, TreeInv, UploadsWhole, UploadInv,
        RemovedGone, service, disk, frame, At, Goto, Start, Finish, OrElse
<1>1. ASSUME NEW r \in Requests, Upload(r)
      PROVE  TreeInv'
  <2>1. CASE BeginUpload(r)
    BY <2>1 DEF BeginUpload
  <2>2. CASE ExtractEntry(r)
    BY <2>2 DEF ExtractEntry
  <2>3. CASE ExtractFails(r)
    BY <2>3 DEF ExtractFails
  <2>4. CASE ExtractEnds(r)
    <3>1. /\ UNCHANGED <<live, dirs, tree, uploaded, doomed, target, left>>
          /\ left[r] = {} /\ At(r, "extract") /\ pc' = [pc EXCEPT ![r] = "finish"]
      BY <2>4 DEF ExtractEnds
    <3>2. ASSUME target[r] \in live
          PROVE  target[r] \in dirs /\ tree[target[r]] = Parts
      <4>1. target[r] \in dirs /\ Parts \subseteq tree[target[r]]
        BY <3>1, <3>2
      <4>2. tree[target[r]] \subseteq Parts
        BY <3>2
      <4> QED
        BY <4>1, <4>2
    <3> QED
      BY <3>1, <3>2
  <2>5. CASE CheckModule(r)
    BY <2>5 DEF CheckModule
  <2>6. CASE WriteMeta(r)
    BY <2>6 DEF WriteMeta
  <2>7. CASE StoreMeta(r)
    BY <2>7 DEF StoreMeta
  <2> QED
    BY <1>1, <2>1, <2>2, <2>3, <2>4, <2>5, <2>6, <2>7 DEF Upload
<1>2. ASSUME NEW r \in Requests, Delete(r)
      PROVE  TreeInv'
  <2>1. CASE LookupDelete(r)
    BY <2>1 DEF LookupDelete
  <2>2. CASE DeleteProject(r)
    BY <2>2 DEF DeleteProject
  <2>3. CASE RemoveSourcesDir(r)
    BY <2>3 DEF RemoveSourcesDir, RemoveSources
  <2>4. CASE RemoveCacheDir(r)
    BY <2>4 DEF RemoveCacheDir, RemoveCache
  <2> QED
    BY <1>2, <2>1, <2>2, <2>3, <2>4 DEF Delete
<1>3. ASSUME NEW r \in Requests, Analyze(r)
      PROVE  TreeInv'
  <2>1. UNCHANGED <<live, dirs, tree, uploaded, doomed>>
    BY <1>3 DEF Analyze, LookupAnalyze, Refuse, Reserve, Parse, ResolvePath, WriteGraph,
                WriteReport, EmitDone, AnalysisFails, Release
  <2>2. \A q \in Requests : pc'[q] \in {"extract", "finish", "meta", "storeMeta", "rmSources", "rmCache"}
            => pc'[q] = pc[q] /\ target'[q] = target[q] /\ left'[q] = left[q]
    BY <1>3 DEF Analyze, LookupAnalyze, Refuse, Reserve, Parse, ResolvePath, WriteGraph,
                WriteReport, EmitDone, AnalysisFails, Release
  <2> QED
    BY <2>1, <2>2
<1>4. CASE Sweep
  BY <1>4 DEF Sweep
<1>5. CASE Evict
  BY <1>5 DEF Evict, RemoveSources, RemoveCache
<1>6. CASE UNCHANGED vars
  BY <1>6 DEF vars
<1> QED
  BY <1>1, <1>2, <1>3, <1>4, <1>5, <1>6 DEF Next

LEMMA TreeCorrect == Spec => []TreeInv
  BY TypeCorrect, TreeInit, TreeNext, PTL DEF Spec

(* A project that was answered 201 has its whole archive on disk as long   *)
(* as it is registered.                                                    *)
THEOREM UploadsWholeAlways == Spec => []UploadsWhole
<1>1. TreeInv => UploadsWhole
  BY DEF TreeInv
<1> QED
  BY <1>1, TreeCorrect, PTL
----------------------------------------------------------------------------
(* The artefacts.  DoneIsServed needs that an analysis has its project's   *)
(* slot to itself, how far it has come with its two files, and that it is  *)
(* younger than everything its project has so far.                         *)

SlotInv ==
    \A r \in Requests : pc[r] \in Analysing =>
        /\ target[r] \in slot
        /\ \A q \in Requests \ {r} : pc[q] \in Analysing => target[q] # target[r]

Progress(r) ==
    /\ announced[target[r]] < run[r]
    /\ pc[r] \in {"parse", "graphPath", "writeGraph"} => graph[target[r]] < run[r]
    /\ pc[r] \in {"reportPath", "writeReport", "done"} => graph[target[r]] = run[r]
    /\ At(r, "done") => report[target[r]] = run[r]

ProgressInv ==
    \A r \in Requests : pc[r] \in Analysing /\ target[r] \in live => Progress(r)

(* An id that was never handed out has no files.                           *)
FreshInv ==
    \A p \in ProjectIDs \ issued : graph[p] = 0 /\ report[p] = 0 /\ announced[p] = 0

ServeInv == DoneIsServed /\ SlotInv /\ ProgressInv /\ FreshInv

LEMMA ServeInit == Init => ServeInv
  BY LifecycleAssumption
     DEF LifecycleAssumption, Init, ServeInv, DoneIsServed, SlotInv, ProgressInv, FreshInv, Analysing

LEMMA ServeNext == TypeOK /\ TreeInv /\ ServeInv /\ [Next]_vars => ServeInv'
<1> SUFFICES ASSUME TypeOK, RemovedGone, ServeInv, [Next]_vars
             PROVE  ServeInv'
  BY DEF TreeInv
<1> USE LifecycleAssumption DEF LifecycleAssumption, TypeOK, ServeInv, DoneIsServed, SlotInv,
        ProgressInv, Progress, FreshInv, Analysing, service, disk, frame, At, Goto, Start, Finish, OrElse
<1>1. ASSUME NEW r \in Requests, Upload(r)
      PROVE  ServeInv'
  <2>1. CASE BeginUpload(r)
    BY <2>1 DEF BeginUpload
  <2>2. CASE ~BeginUpload(r)
    <3>1. /\ UNCHANGED <<issued, live, graph, report, announced, slot>>
          /\ \A q \in Requests : pc'[q] \in Analysing
                => pc'[q] = pc[q] /\ target'[q] = target[q] /\ run'[q] = run[q]
      BY <1>1, <2>2 DEF Upload, ExtractEntry, ExtractFails, ExtractEnds, CheckModule, WriteMeta, StoreMeta
    <3> QED
      BY <3>1
  <2> QED
    BY <2>1, <2>2
<1>2. ASSUME NEW r \in Requests, Delete(r)
      PROVE  ServeInv'
  <2>1. CASE LookupDelete(r)
    BY <2>1 DEF LookupDelete
  <2>2. CASE DeleteProject(r)
    BY <2>2 DEF DeleteProject
  <2>3. CASE RemoveSourcesDir(r)
    BY <2>3 DEF RemoveSourcesDir, RemoveSources
  <2>4. CASE RemoveCacheDir(r)
    BY <2>4 DEF RemoveCacheDir, RemoveCache, RemovedGone
  <2> QED
    BY <1>2, <2>1, <2>2, <2>3, <2>4 DEF Delete
<1>3. ASSUME NEW r \in Requests, Analyze(r)
      PROVE  ServeInv'
  <2>1. CASE LookupAnalyze(r)
    BY <2>1 DEF LookupAnalyze
  <2>2. CASE Refuse(r)
    BY <2>2 DEF Refuse
  <2>3. CASE Reserve(r)
    BY <2>3 DEF Reserve
  <2>4. CASE Parse(r)
    BY <2>4 DEF Parse
  <2>5. CASE ResolvePath(r)
    BY <2>5 DEF ResolvePath
  <2>6. CASE WriteGraph(r)
    BY <2>6 DEF WriteGraph
  <2>7. CASE WriteReport(r)
    BY <2>7 DEF WriteReport
  <2>8. CASE EmitDone(r)
    BY <2>8 DEF EmitDone, Release
  <2>9. CASE AnalysisFails(r)
    BY <2>9 DEF AnalysisFails, Release
  <2> QED
    BY <1>3, <2>1, <2>2, <2>3, <2>4, <2>5, <2>6, <2>7, <2>8, <2>9 DEF Analyze
<1>4. CASE Sweep
  BY <1>4 DEF Sweep
<1>5. CASE Evict
  BY <1>5 DEF Evict, RemoveSources, RemoveCache, RemovedGone
<1>6. CASE UNCHANGED vars
  BY <1>6 DEF vars
<1> QED
  BY <1>1, <1>2, <1>3, <1>4, <1>5, <1>6 DEF Next

LEMMA ServeCorrect == Spec => []ServeInv
  BY TypeCorrect, TreeCorrect, ServeInit, ServeNext, PTL DEF Spec

(* The artefacts of a registered project are those of the last analysis    *)
(* that was announced done, or later ones, and the report is not ahead.    *)
THEOREM DoneIsServedAlways == Spec => []DoneIsServed
<1>1. ServeInv => DoneIsServed
  BY DEF ServeInv
<1> QED
  BY <1>1, ServeCorrect, PTL
----------------------------------------------------------------------------
(* The refinement.  Phases and what is served are a function of the        *)
(* registry, the answers and the two artefacts.                            *)

mapped == <<Phases, Served(graph), Served(announced)>>

LEMMA ServiceInit == Init => Service!Init
  BY DEF Init, Service!Init, Phases, Served

LEMMA ServiceNext == TypeOK /\ TreeInv /\ ServeInv /\ [Next]_vars => Service!Next \/ UNCHANGED mapped
<1> SUFFICES ASSUME TypeOK, RemovedGone, ProgressInv, FreshInv, [Next]_vars
             PROVE  Service!Next \/ UNCHANGED mapped
  BY DEF TreeInv, ServeInv
<1> USE DEF service, disk, frame, At, Goto, Finish, OrElse, mapped
<1>1. ASSUME UNCHANGED <<issued, live, uploaded, graph, announced>>
      PROVE  UNCHANGED mapped
  BY <1>1 DEF Phases, Served
<1>2. ASSUME NEW S \in SUBSET live, live' = live \ S,
             UNCHANGED <<issued, uploaded, graph, announced>>
      PROVE  Service!Next
  <2>1. Service!Remove(S)
    BY <1>2 DEF TypeOK, Service!Remove, Service!Here, Phases, Served
  <2> QED
    BY <1>2, <2>1 DEF TypeOK, Service!Next
<1>3. ASSUME NEW r \in Requests, Upload(r)
      PROVE  Service!Next \/ UNCHANGED mapped
  <2>1. CASE BeginUpload(r)
    <3>1. PICK p \in ProjectIDs \ issued : issued' = issued \cup {p} /\ live' = live \cup {p}
      BY <2>1 DEF BeginUpload
    <3>2. Service!Upload(p)
      BY <2>1, <3>1, ZenonT(60) DEF BeginUpload, TypeOK, FreshInv, Service!Upload, Phases, Served
    <3> QED
      BY <3>2 DEF Service!Next
  <2>2. CASE StoreMeta(r)
    <3>1. CASE target[r] \in live \ uploaded /\ uploaded' = uploaded \cup {target[r]}
      <4>1. Service!Complete(target[r])
        BY <2>2, <3>1 DEF StoreMeta, TypeOK, Service!Complete, Phases, Served
      <4> QED
        BY <3>1, <4>1 DEF TypeOK, Service!Next
    <3>2. CASE ~(target[r] \in live \ uploaded /\ uploaded' = uploaded \cup {target[r]})
      BY <2>2, <3>2 DEF StoreMeta, TypeOK, Phases, Served
    <3> QED
      BY <3>1, <3>2
  <2> QED
    BY <1>1, <1>3, <2>1, <2>2 DEF Upload, ExtractEntry, ExtractFails, ExtractEnds, CheckModule, WriteMeta
<1>4. ASSUME NEW r \in Requests, Delete(r)
      PROVE  Service!Next \/ UNCHANGED mapped
  <2>1. CASE DeleteProject(r)
    BY <1>1, <1>2, <2>1 DEF DeleteProject
  <2>2. CASE RemoveCacheDir(r)
    BY <2>2 DEF RemoveCacheDir, RemoveCache, RemovedGone, TypeOK, Phases, Served
  <2> QED
    BY <1>1, <1>4, <2>1, <2>2 DEF Delete, LookupDelete, RemoveSourcesDir
<1>5. ASSUME NEW r \in Requests, Analyze(r)
      PROVE  Service!Next \/ UNCHANGED mapped
  <2>1. CASE WriteGraph(r) /\ target[r] \in live
    <3>1. run[r] \in (graph[target[r]] + 1)..MaxRuns
      BY <2>1, LifecycleAssumption
         DEF LifecycleAssumption, WriteGraph, TypeOK, ProgressInv, Progress, Analysing
    <3>2. Service!Publish(target[r])
      BY <2>1, <3>1, ZenonT(60) DEF WriteGraph, TypeOK, Service!Publish, Service!Here, Phases, Served
    <3> QED
      BY <2>1, <3>2 DEF TypeOK, Service!Next
  <2>2. CASE EmitDone(r) /\ target[r] \in live
    <3>1. Service!Announce(target[r])
      BY <2>2 DEF EmitDone, Release, TypeOK, ProgressInv, Progress, Analysing, Service!Announce,
                  Service!Here, Phases, Served
    <3> QED
      BY <2>2, <3>1 DEF TypeOK, Service!Next
  <2>3. CASE (WriteGraph(r) \/ EmitDone(r)) /\ target[r] \notin live
    BY <2>3 DEF WriteGraph, EmitDone, Release, TypeOK, Phases, Served
  <2> QED
    BY <1>1, <1>5, <2>1, <2>2, <2>3 DEF Analyze, LookupAnalyze, Refuse, Reserve, Parse, ResolvePath,
                                      WriteReport, AnalysisFails, Release
<1>6. CASE Sweep
  BY <1>2, <1>6 DEF Sweep
<1>7. CASE Evict
  BY <1>7 DEF Evict, RemoveCache, RemovedGone, TypeOK, Phases, Served
<1>8. CASE UNCHANGED vars
  BY <1>1, <1>8 DEF vars
<1> QED
  BY <1>3, <1>4, <1>5, <1>6, <1>7, <1>8 DEF Next

(* Uploads, analyses, deletions and evictions together give the clients    *)
(* the service ProjectService promises.                                    *)
THEOREM LifecycleImplementsService == Spec => ImplementsService
  BY TypeCorrect, TreeCorrect, ServeCorrect, ServiceInit, ServiceNext, PTL
     DEF Spec, ImplementsService, Service!Spec, Service!vars, mapped
=============================================================================
