-------------------------- MODULE DiskCacheProofs --------------------------
(***************************************************************************)
(* Theorems about DiskCache for every number of goroutines, of projects,   *)
(* of restarts and every clock bound.                                      *)
(***************************************************************************)
EXTENDS DiskCache, TLAPS

(* The variables always hold values of their types.                        *)
LEMMA TypeInit == Init => TypeOK
<1> SUFFICES ASSUME Init
             PROVE  TypeOK
  OBVIOUS
<1> USE DiskCacheAssumption DEF DiskCacheAssumption, Init
<1>1. files \in [ProjectIDs -> SUBSET Files]
  OBVIOUS
<1>2. sweep \in [pc : {"waiting", "collecting", "evicting", "exited"},
                 now : 0..MaxTime, expired : SUBSET issued]
  OBVIOUS
<1>3. /\ pc \in [Workers -> Steps]
      /\ call \in [Workers -> Calls]
  BY DEF Steps, Calls
<1>4. /\ target \in [Workers -> issued \cup {NoProject}]
      /\ \A w \in Workers : pc[w] = "idle" <=> target[w] = NoProject
  OBVIOUS
<1>5. /\ lastAccess \in [ProjectIDs -> 0..MaxTime]
      /\ stamp \in [Workers -> 0..MaxTime]
      /\ now \in 0..MaxTime
      /\ restarts \in 0..MaxRestarts
  OBVIOUS
<1> QED
  BY <1>1, <1>2, <1>3, <1>4, <1>5 DEF TypeOK

LEMMA TypeNext == TypeOK /\ [Next]_vars => TypeOK'
<1> SUFFICES ASSUME TypeOK, [Next]_vars
             PROVE  TypeOK'
  OBVIOUS
<1> USE DiskCacheAssumption DEF DiskCacheAssumption, TypeOK, registry, disk, frame, world, Steps, Calls, Files
<1>1. ASSUME NEW w \in Workers, Begin(w)
      PROVE  TypeOK'
  <2>1. CASE BeginNew(w)
    BY <2>1 DEF BeginNew, Enter
  <2>2. CASE BeginGet(w)
    BY <2>2 DEF BeginGet, Enter
  <2>3. CASE BeginWrite(w)
    BY <2>3 DEF BeginWrite, Enter
  <2>4. CASE DeleteProject(w)
    BY <2>4 DEF DeleteProject, Enter
  <2> QED
    BY <1>1, <2>1, <2>2, <2>3, <2>4 DEF Begin
<1>2. ASSUME NEW w \in Workers, Continue(w)
      PROVE  TypeOK'
  <2>1. CASE RegisterProject(w)
    BY <2>1 DEF RegisterProject, Goto
  <2>2. CASE RollbackNew(w)
    BY <2>2 DEF RollbackNew, Goto
  <2>3. CASE LookupProject(w)
    BY <2>3 DEF LookupProject, Goto, Return
  <2>4. CASE CopyMeta(w)
    BY <2>4 DEF CopyMeta
  <2>5. CASE WriteMeta(w)
    BY <2>5 DEF WriteMeta, Goto
  <2>6. CASE OpenTemp(w)
    BY <2>6 DEF OpenTemp, Goto
  <2>7. CASE OpenTempFails(w)
    BY <2>7 DEF OpenTempFails, WriteFailed, Goto, Return
  <2>8. CASE Commit(w)
    BY <2>8 DEF Commit, FileOf, Goto, Return
  <2>9. CASE CommitFails(w)
    BY <2>9 DEF CommitFails, WriteFailed, Goto, Return
  <2>10. CASE DiscardUpload(w)
    BY <2>10 DEF DiscardUpload, Goto, Return
  <2>11. CASE RemoveSourcesDir(w)
    BY <2>11 DEF RemoveSourcesDir, Goto
  <2>12. CASE RemoveCacheDir(w)
    BY <2>12 DEF RemoveCacheDir, RemoveCache, Return
  <2> QED
    BY <1>2, <2>1, <2>2, <2>3, <2>4, <2>5, <2>6, <2>7, <2>8, <2>9, <2>10, <2>11, <2>12
       DEF Continue
<1>3. CASE Sweeper
  <2>1. CASE SweepTick
    BY <2>1 DEF SweepTick
  <2>2. CASE CollectExpired
    BY <2>2 DEF CollectExpired, SweepWith, Expired
  <2>3. CASE Evict
    BY <2>3 DEF Evict, SweepWith, RemoveCache
  <2>4. CASE SweepExit
    BY <2>4 DEF SweepExit
  <2> QED
    BY <1>3, <2>1, <2>2, <2>3, <2>4 DEF Sweeper
<1>4. CASE Close
  BY <1>4 DEF Close
<1>5. CASE Tick
  BY <1>5 DEF Tick
<1>6. CASE Restart
  <2> USE <1>6 DEF Restart
  <2>1. sweep' \in [pc : {"waiting", "collecting", "evicting", "exited"},
                    now : 0..MaxTime, expired : SUBSET issued']
    OBVIOUS
  <2>2. /\ pc' \in [Workers -> Steps]
        /\ call' \in [Workers -> Calls]
        /\ stamp' \in [Workers -> 0..MaxTime]
        /\ target' \in [Workers -> issued' \cup {NoProject}]
        /\ \A w \in Workers : pc'[w] = "idle" <=> target'[w] = NoProject
    OBVIOUS
  <2>3. /\ issued' \subseteq ProjectIDs /\ projects' \subseteq issued'
        /\ sources' \subseteq issued' /\ caches' \subseteq issued'
        /\ preserved' \subseteq issued' /\ temps' \subseteq Workers
        /\ lastAccess' \in [ProjectIDs -> 0..MaxTime]
        /\ files' \in [ProjectIDs -> SUBSET Files]
        /\ closed' \in BOOLEAN /\ now' \in 0..MaxTime
    OBVIOUS
  <2>4. restarts' \in 0..MaxRestarts
    OBVIOUS
  <2> HIDE <1>6 DEF Restart
  <2> QED
    BY <2>1, <2>2, <2>3, <2>4
<1>7. CASE UNCHANGED vars
  BY <1>7 DEF vars
<1> QED
  BY <1>1, <1>2, <1>3, <1>4, <1>5, <1>6, <1>7 DEF Next

THEOREM TypeCorrect == Spec => []TypeOK
  BY TypeInit, TypeNext, PTL DEF Spec
----------------------------------------------------------------------------
(* The directories of the registered projects.  RegisteredHaveDirs is not  *)
(* inductive: whoever is about to remove a directory, or to register one,  *)
(* has to be known to work on a project that is not in the registry.       *)

(* Only one goroutine has got hold of an id that is not registered yet; a  *)
(* GetProject may ask for it.                                              *)
RegisterExclusive ==
    \A w \in Workers : pc[w] = "register" =>
        /\ target[w] \in (sources \cap caches) \ (projects \cup sweep.expired)
        /\ \A v \in Workers \ {w} : target[v] = target[w] => pc[v] = "lookup"

(* Directories are removed after the project has left the registry.        *)
RemovedGone ==
    \A w \in Workers : pc[w] \in {"rmSources", "rmCache"} => target[w] \notin projects

ExpiredGone == sweep.expired \cap projects = {}

DirsInv ==
    /\ RegisteredHaveDirs
    /\ RegisterExclusive
    /\ RemovedGone
    /\ ExpiredGone

LEMMA DirsInit == Init => DirsInv
  BY DEF Init, DirsInv, RegisteredHaveDirs, RegisterExclusive, RemovedGone, ExpiredGone

LEMMA DirsNext == TypeOK /\ DirsInv /\ [Next]_vars => DirsInv'
<1> SUFFICES ASSUME TypeOK, DirsInv, [Next]_vars
             PROVE  DirsInv'
  OBVIOUS
<1> USE DiskCacheAssumption DEF DiskCacheAssumption, DirsInv, RegisteredHaveDirs,
        RegisterExclusive, RemovedGone, ExpiredGone, TypeOK, registry, disk, frame, world
<1>1. ASSUME NEW w \in Workers, Begin(w)
      PROVE  DirsInv'
  <2>1. CASE BeginNew(w)
    BY <2>1 DEF BeginNew, Enter
  <2>2. CASE BeginGet(w)
    BY <2>2 DEF BeginGet, Enter
  <2>3. CASE BeginWrite(w)
    BY <2>3 DEF BeginWrite, Enter
  <2>4. CASE DeleteProject(w)
    BY <2>4 DEF DeleteProject, Enter
  <2> QED
    BY <1>1, <2>1, <2>2, <2>3, <2>4 DEF Begin
<1>2. ASSUME NEW w \in Workers, Continue(w)
      PROVE  DirsInv'
  <2>1. CASE RegisterProject(w)
    BY <2>1 DEF RegisterProject, Goto
  <2>2. CASE RollbackNew(w)
    BY <2>2 DEF RollbackNew, Goto
  <2>3. CASE LookupProject(w)
    BY <2>3 DEF LookupProject, Goto, Return
  <2>4. CASE CopyMeta(w)
    BY <2>4 DEF CopyMeta
  <2>5. CASE WriteMeta(w)
    BY <2>5 DEF WriteMeta, Goto
  <2>6. CASE OpenTemp(w)
    BY <2>6 DEF OpenTemp, Goto
  <2>7. CASE OpenTempFails(w)
    BY <2>7 DEF OpenTempFails, WriteFailed, Goto, Return
  <2>8. CASE Commit(w)
    BY <2>8 DEF Commit, Goto, Return
  <2>9. CASE CommitFails(w)
    BY <2>9 DEF CommitFails, WriteFailed, Goto, Return
  <2>10. CASE DiscardUpload(w)
    BY <2>10 DEF DiscardUpload, Goto, Return
  <2>11. CASE RemoveSourcesDir(w)
    BY <2>11 DEF RemoveSourcesDir, Goto
  <2>12. CASE RemoveCacheDir(w)
    BY <2>12 DEF RemoveCacheDir, RemoveCache, Return
  <2> QED
    BY <1>2, <2>1, <2>2, <2>3, <2>4, <2>5, <2>6, <2>7, <2>8, <2>9, <2>10, <2>11, <2>12
       DEF Continue
<1>3. CASE Sweeper
  <2>1. CASE SweepTick
    BY <2>1 DEF SweepTick
  <2>2. CASE CollectExpired
    BY <2>2 DEF CollectExpired, SweepWith, Expired
  <2>3. CASE Evict
    BY <2>3 DEF Evict, SweepWith, RemoveCache
  <2>4. CASE SweepExit
    BY <2>4 DEF SweepExit
  <2> QED
    BY <1>3, <2>1, <2>2, <2>3, <2>4 DEF Sweeper
<1>4. CASE Close
  BY <1>4 DEF Close
<1>5. CASE Tick
  BY <1>5 DEF Tick
<1>6. CASE Restart
  BY <1>6 DEF Restart
<1>7. CASE UNCHANGED vars
  BY <1>7 DEF vars
<1> QED
  BY <1>1, <1>2, <1>3, <1>4, <1>5, <1>6, <1>7 DEF Next

LEMMA DirsCorrect == Spec => []DirsInv
  BY TypeCorrect, DirsInit, DirsNext, PTL DEF Spec

(* A project found in the registry has both of its directories, whatever   *)
(* removals, rollbacks, sweeps and restarts run at the same time.          *)
THEOREM RegisteredHaveDirsAlways == Spec => []RegisteredHaveDirs
<1>1. DirsInv => RegisteredHaveDirs
  BY DEF DirsInv
<1> QED
  BY DirsCorrect, <1>1, PTL
----------------------------------------------------------------------------
(* The files of the registered projects.                                   *)

(* A step that takes files away removes a cache directory, and whoever     *)
(* does that works on a project that left the registry before.             *)
LEMMA FilesStay ==
    ASSUME TypeOK, RemovedGone, ExpiredGone, [Next]_vars,
           NEW id \in projects, id \in projects'
    PROVE  files[id] \subseteq files'[id]
<1>1. CASE \E w \in Workers : RemoveCacheDir(w)
  <2>1. PICK w \in Workers : RemoveCacheDir(w)
    BY <1>1
  <2>2. target[w] # id
    BY <2>1 DEF RemoveCacheDir, RemovedGone
  <2>3. files' = [files EXCEPT ![target[w]] = {}]
    BY <2>1 DEF RemoveCacheDir, RemoveCache
  <2>4. QED
    BY <2>2, <2>3 DEF TypeOK
<1>2. CASE Evict
  <2>1. PICK other \in sweep.expired : files' = [files EXCEPT ![other] = {}]
    BY <1>2 DEF Evict, RemoveCache
  <2>2. other # id
    BY <2>1 DEF ExpiredGone
  <2>3. QED
    BY <2>1, <2>2 DEF TypeOK
<1>3. CASE \E w \in Workers : Commit(w)
  <2>1. PICK w \in Workers : Commit(w)
    BY <1>3
  <2>2. files' = [files EXCEPT ![target[w]] = @ \cup {FileOf(call[w])}]
    BY <2>1 DEF Commit
  <2>3. QED
    BY <2>2 DEF TypeOK
<1>4. CASE Restart
  BY <1>4 DEF Restart
<1>5. CASE UNCHANGED files
  BY <1>5
<1>6. ASSUME NEW w \in Workers, Begin(w)
      PROVE  UNCHANGED files
  BY <1>6 DEF Begin, BeginNew, BeginGet, BeginWrite, DeleteProject, disk
<1>7. ASSUME NEW w \in Workers, Continue(w), ~RemoveCacheDir(w), ~Commit(w)
      PROVE  UNCHANGED files
  BY <1>7 DEF Continue, RegisterProject, RollbackNew, LookupProject, CopyMeta, WriteMeta, OpenTemp,
              OpenTempFails, CommitFails, DiscardUpload, RemoveSourcesDir, disk
<1>8. CASE SweepTick \/ CollectExpired \/ SweepExit \/ Close \/ Tick \/ UNCHANGED vars
  BY <1>5, <1>8 DEF SweepTick, CollectExpired, SweepExit, Close, Tick, vars, disk
<1>9. QED
  BY <1>1, <1>2, <1>3, <1>4, <1>5, <1>6, <1>7, <1>8 DEF Next, Sweeper

(* What was written for a project stays while it is registered: neither a  *)
(* DELETE, an eviction nor a rollback reaches the directory of a live one. *)
THEOREM LiveFilesAlwaysKept == Spec => LiveFilesKept
<1>1. TypeOK /\ DirsInv /\ [Next]_vars
      => [\A id \in projects \cap projects' : files[id] \subseteq files'[id]]_vars
  BY FilesStay DEF DirsInv
<1>2. QED
  BY <1>1, TypeCorrect, DirsCorrect, PTL DEF Spec, LiveFilesKept
----------------------------------------------------------------------------
(* Every sources directory has an owner: the registry, the sweeper's list, *)
(* a goroutine that will register or remove it, or a process that died.    *)
SourcesOwned ==
    \A id \in sources :
        \/ id \in projects \cup preserved \cup sweep.expired
        \/ \E w \in Workers : target[w] = id /\ pc[w] \in {"register", "rmSources"}

(* The sweeper has a list only while it evicts.                            *)
SweepShape == sweep.pc # "evicting" => sweep.expired = {}

SourcesInv == SourcesOwned /\ SweepShape

LEMMA SourcesInit == Init => SourcesInv
  BY DEF Init, SourcesInv, SourcesOwned, SweepShape

LEMMA SourcesNext == TypeOK /\ SourcesInv /\ [Next]_vars => SourcesInv'
<1> SUFFICES ASSUME TypeOK, SourcesInv, [Next]_vars
             PROVE  SourcesInv'
  OBVIOUS
<1> USE DiskCacheAssumption DEF DiskCacheAssumption, SourcesInv, SourcesOwned, SweepShape,
        TypeOK, registry, disk, frame, world
<1>1. ASSUME NEW w \in Workers, Begin(w)
      PROVE  SourcesInv'
  <2>1. CASE BeginNew(w)
    BY <2>1 DEF BeginNew, Enter
  <2>2. CASE BeginGet(w)
    BY <2>2 DEF BeginGet, Enter
  <2>3. CASE BeginWrite(w)
    BY <2>3 DEF BeginWrite, Enter
  <2>4. CASE DeleteProject(w)
    BY <2>4 DEF DeleteProject, Enter
  <2> QED
    BY <1>1, <2>1, <2>2, <2>3, <2>4 DEF Begin
<1>2. ASSUME NEW w \in Workers, Continue(w)
      PROVE  SourcesInv'
  <2>1. CASE RegisterProject(w)
    BY <2>1 DEF RegisterProject, Goto
  <2>2. CASE RollbackNew(w)
    BY <2>2 DEF RollbackNew, Goto
  <2>3. CASE LookupProject(w)
    BY <2>3 DEF LookupProject, Goto, Return
  <2>4. CASE CopyMeta(w)
    BY <2>4 DEF CopyMeta
  <2>5. CASE WriteMeta(w)
    BY <2>5 DEF WriteMeta, Goto
  <2>6. CASE OpenTemp(w)
    BY <2>6 DEF OpenTemp, Goto
  <2>7. CASE OpenTempFails(w)
    BY <2>7 DEF OpenTempFails, WriteFailed, Goto, Return
  <2>8. CASE Commit(w)
    BY <2>8 DEF Commit, Goto, Return
  <2>9. CASE CommitFails(w)
    BY <2>9 DEF CommitFails, WriteFailed, Goto, Return
  <2>10. CASE DiscardUpload(w)
    BY <2>10 DEF DiscardUpload, Goto, Return
  <2>11. CASE RemoveSourcesDir(w)
    BY <2>11 DEF RemoveSourcesDir, Goto
  <2>12. CASE RemoveCacheDir(w)
    BY <2>12 DEF RemoveCacheDir, RemoveCache, Return
  <2> QED
    BY <1>2, <2>1, <2>2, <2>3, <2>4, <2>5, <2>6, <2>7, <2>8, <2>9, <2>10, <2>11, <2>12
       DEF Continue
<1>3. CASE Sweeper
  <2>1. CASE SweepTick
    BY <2>1 DEF SweepTick
  <2>2. CASE CollectExpired
    BY <2>2 DEF CollectExpired, SweepWith, Expired
  <2>3. CASE Evict
    BY <2>3 DEF Evict, SweepWith, RemoveCache
  <2>4. CASE SweepExit
    BY <2>4 DEF SweepExit
  <2> QED
    BY <1>3, <2>1, <2>2, <2>3, <2>4 DEF Sweeper
<1>4. CASE Close
  BY <1>4 DEF Close
<1>5. CASE Tick
  BY <1>5 DEF Tick
<1>6. CASE Restart
  BY <1>6 DEF Restart
<1>7. CASE UNCHANGED vars
  BY <1>7 DEF vars
<1> QED
  BY <1>1, <1>2, <1>3, <1>4, <1>5, <1>6, <1>7 DEF Next

(* When every call has returned and no eviction is under way, the only     *)
(* sources directories left belong to live projects or to a dead process.  *)
THEOREM NoLeakedSourcesAlways == Spec => []NoLeakedSources
<1>1. SourcesInv => NoLeakedSources
  BY DEF SourcesInv, SourcesOwned, NoLeakedSources, Quiescent
<1> QED
  BY TypeCorrect, SourcesInit, SourcesNext, <1>1, PTL DEF Spec
----------------------------------------------------------------------------
(* The refinement: every step of the manager is a step of ProjectRegistry  *)
(* or leaves the registry alone.                                           *)

(* A time that was read lies in the past: what lets an eviction decided on *)
(* the sweeper's old reading be one at the current time.                   *)
PastTimes ==
    /\ \A id \in ProjectIDs : lastAccess[id] <= now
    /\ \A w \in Workers : stamp[w] <= now
    /\ sweep.now <= now

LEMMA PastInit == Init => PastTimes
  BY DEF Init, PastTimes

LEMMA PastNext == TypeOK /\ PastTimes /\ [Next]_vars => PastTimes'
<1> SUFFICES ASSUME TypeOK, PastTimes, [Next]_vars
             PROVE  PastTimes'
  OBVIOUS
<1> USE DiskCacheAssumption DEF DiskCacheAssumption, PastTimes, TypeOK, registry, disk,
        frame, world
<1>1. ASSUME NEW w \in Workers, Begin(w)
      PROVE  PastTimes'
  BY <1>1 DEF Begin, BeginNew, BeginGet, BeginWrite, DeleteProject, Enter
<1>2. ASSUME NEW w \in Workers, Continue(w)
      PROVE  PastTimes'
  <2>1. CASE RegisterProject(w) \/ LookupProject(w) \/ CopyMeta(w) \/ WriteMeta(w)
    BY <2>1 DEF RegisterProject, LookupProject, CopyMeta, WriteMeta, Goto, Return
  <2>2. CASE RollbackNew(w) \/ DiscardUpload(w) \/ RemoveSourcesDir(w) \/ RemoveCacheDir(w)
    BY <2>2 DEF RollbackNew, DiscardUpload, RemoveSourcesDir, RemoveCacheDir, RemoveCache,
                Goto, Return
  <2>3. CASE OpenTemp(w) \/ Commit(w)
    BY <2>3 DEF OpenTemp, Commit, Goto, Return
  <2>4. CASE OpenTempFails(w) \/ CommitFails(w)
    BY <2>4 DEF OpenTempFails, CommitFails, WriteFailed, Goto, Return
  <2> QED
    BY <1>2, <2>1, <2>2, <2>3, <2>4 DEF Continue
<1>3. CASE Sweeper
  <2>1. CASE SweepTick
    BY <2>1 DEF SweepTick
  <2>2. CASE CollectExpired
    <3>1. sweep'.now = 0
      BY <2>2 DEF CollectExpired, SweepWith
    <3> QED
      BY <2>2, <3>1 DEF CollectExpired
  <2>3. CASE Evict
    <3>1. sweep'.now = 0
      BY <2>3 DEF Evict, SweepWith
    <3> QED
      BY <2>3, <3>1 DEF Evict
  <2>4. CASE SweepExit
    BY <2>4 DEF SweepExit
  <2> QED
    BY <1>3, <2>1, <2>2, <2>3, <2>4 DEF Sweeper
<1>4. CASE Close \/ Tick \/ Restart
  BY <1>4 DEF Close, Tick, Restart
<1>5. CASE UNCHANGED vars
  BY <1>5 DEF vars
<1> QED
  BY <1>1, <1>2, <1>3, <1>4, <1>5 DEF Next

(* What the refinement mapping reads; a step that keeps it is a stutter.   *)
mapped == <<projects, lastAccess, issued \ Registering, closed, now, restarts>>

LEMMA RegistryInit == Init => Registry!Init
  BY DEF Init, Registry!Init, Registering

LEMMA RegistryNext ==
    TypeOK /\ DirsInv /\ PastTimes /\ [Next]_vars => [Registry!Next]_(Registry!vars)
<1> SUFFICES ASSUME TypeOK, DirsInv, PastTimes, [Next]_vars
             PROVE  Registry!Next \/ UNCHANGED mapped
  BY DEF Registry!vars, mapped
<1> USE DiskCacheAssumption DEF DiskCacheAssumption, TypeOK, registry, disk, frame, world
<1>1. ASSUME NEW w \in Workers, BeginNew(w)
      PROVE  UNCHANGED mapped
  <2>1. PICK id \in ProjectIDs \ issued : issued' = issued \cup {id}
                                          /\ Enter(w, "new", "register", id, now)
    BY <1>1 DEF BeginNew
  <2>2. Registering' = Registering \cup {id}
    BY <2>1 DEF Enter, Registering
  <2> QED
    BY <1>1, <2>1, <2>2 DEF BeginNew, mapped, Registering
<1>2. ASSUME NEW w \in Workers, BeginGet(w) \/ BeginWrite(w)
      PROVE  UNCHANGED mapped
  <2>1. Registering' = Registering
    BY <1>2 DEF BeginGet, BeginWrite, Enter, Registering
  <2> QED
    BY <1>2, <2>1 DEF BeginGet, BeginWrite, mapped
<1>3. ASSUME NEW w \in Workers, DeleteProject(w)
      PROVE  Registry!Next
  <2>1. PICK id \in projects : projects' = projects \ {id} /\ Enter(w, "delete", "rmSources", id, 0)
    BY <1>3 DEF DeleteProject
  <2>2. Registering' = Registering
    BY <2>1 DEF Enter, Registering
  <2>3. Registry!Forget(id)
    BY <1>3, <2>1, <2>2 DEF DeleteProject, Registry!Forget
  <2> QED
    BY <2>3 DEF Registry!Next
<1>4. ASSUME NEW w \in Workers, RegisterProject(w)
      PROVE  Registry!Next
  <2> DEFINE id == target[w]
  <2>1. Registering' = Registering \ {id} /\ id \in Registering
    BY <1>4 DEF RegisterProject, Goto, Registering, DirsInv, RegisterExclusive
  <2>2. id \in issued /\ (issued \ Registering)' = (issued \ Registering) \cup {id}
    BY <1>4, <2>1 DEF RegisterProject
  <2>3. CASE closed
    <3>1. Registry!Abandon(id)
      BY <1>4, <2>1, <2>2, <2>3 DEF RegisterProject, Registry!Abandon
    <3> QED
      BY <2>2, <3>1 DEF Registry!Next
  <2>4. CASE ~closed
    <3>1. stamp[w] \in 0..now
      BY DEF PastTimes
    <3>2. Registry!Register(id)
      BY <1>4, <2>1, <2>2, <2>4, <3>1 DEF RegisterProject, Registry!Register
    <3> QED
      BY <2>2, <3>2 DEF Registry!Next
  <2> QED
    BY <2>3, <2>4
<1>5. ASSUME NEW w \in Workers, LookupProject(w)
      PROVE  Registry!Next \/ UNCHANGED mapped
  <2>1. Registering' = Registering
    BY <1>5 DEF LookupProject, Goto, Return, Registering
  <2>2. CASE target[w] \in projects
    BY <1>5, <2>1, <2>2 DEF LookupProject, Registry!Touch, Registry!Next
  <2>3. CASE target[w] \notin projects
    BY <1>5, <2>1, <2>3 DEF LookupProject, mapped
  <2> QED
    BY <2>2, <2>3
<1>6. ASSUME NEW w \in Workers, WriteMeta(w)
      PROVE  Registry!Next \/ UNCHANGED mapped
  <2>1. Registering' = Registering
    BY <1>6 DEF WriteMeta, Goto, Registering
  <2>2. CASE target[w] \in projects
    <3>1. stamp[w] \in 0..now
      BY DEF PastTimes
    <3>2. Registry!Overwrite(target[w])
      BY <1>6, <2>1, <2>2, <3>1 DEF WriteMeta, Registry!Overwrite
    <3> QED
      BY <2>2, <3>2 DEF Registry!Next
  <2>3. CASE target[w] \notin projects
    BY <1>6, <2>1, <2>3 DEF WriteMeta, mapped
  <2> QED
    BY <2>2, <2>3
<1>7. ASSUME NEW w \in Workers, RollbackNew(w) \/ DiscardUpload(w)
      PROVE  Registry!Next \/ UNCHANGED mapped
  <2>1. Registering' = Registering
    <3>1. CASE RollbackNew(w)
      BY <3>1 DEF RollbackNew, Goto, Registering
    <3>2. CASE DiscardUpload(w)
      BY <3>2 DEF DiscardUpload, Goto, Return, Registering
    <3> QED
      BY <1>7, <3>1, <3>2
  <2>2. CASE target[w] \in projects
    <3>1. Registry!Forget(target[w])
      BY <1>7, <2>1, <2>2 DEF RollbackNew, DiscardUpload, Registry!Forget
    <3> QED
      BY <2>2, <3>1 DEF Registry!Next
  <2>3. CASE target[w] \notin projects
    <3>1. CASE RollbackNew(w)
      BY <2>1, <2>3, <3>1 DEF RollbackNew, mapped
    <3>2. CASE DiscardUpload(w)
      BY <2>1, <2>3, <3>2 DEF DiscardUpload, mapped
    <3> QED
      BY <1>7, <3>1, <3>2
  <2> QED
    BY <2>2, <2>3
<1>8. ASSUME NEW w \in Workers,
             \/ CopyMeta(w) \/ OpenTemp(w) \/ Commit(w)
             \/ RemoveSourcesDir(w) \/ RemoveCacheDir(w)
      PROVE  UNCHANGED mapped
  <2>1. Registering' = Registering
    BY <1>8 DEF CopyMeta, OpenTemp, Commit, RemoveSourcesDir, RemoveCacheDir, Goto, Return,
                Registering
  <2> QED
    BY <1>8, <2>1 DEF CopyMeta, OpenTemp, Commit, RemoveSourcesDir, RemoveCacheDir, mapped
<1>9. ASSUME NEW w \in Workers, OpenTempFails(w) \/ CommitFails(w)
      PROVE  UNCHANGED mapped
  <2>1. Registering' = Registering
    BY <1>9 DEF OpenTempFails, CommitFails, WriteFailed, Goto, Return, Registering
  <2> QED
    BY <1>9, <2>1 DEF OpenTempFails, CommitFails, mapped
<1>10. CASE Sweeper
  <2>1. Registering' = Registering
    BY <1>10 DEF Sweeper, SweepTick, CollectExpired, Evict, SweepExit, RemoveCache, Registering
  <2>2. CASE CollectExpired
    <3>1. CASE closed
      BY <2>1, <2>2, <3>1 DEF CollectExpired, mapped
    <3>2. CASE ~closed
      <4>1. \A id \in Expired(sweep.now) : lastAccess[id] + IdleTTL <= now
        BY DEF Expired, PastTimes
      <4>2. Expired(sweep.now) \in SUBSET projects
        BY DEF Expired
      <4>3. Registry!Expire(Expired(sweep.now))
        BY <2>1, <2>2, <3>2, <4>1, <4>2 DEF CollectExpired, Registry!Expire
      <4> QED
        BY <4>2, <4>3 DEF Registry!Next
    <3> QED
      BY <3>1, <3>2
  <2>3. CASE SweepTick \/ Evict \/ SweepExit
    BY <2>1, <2>3 DEF SweepTick, Evict, SweepExit, mapped
  <2> QED
    BY <1>10, <2>2, <2>3 DEF Sweeper
<1>11. CASE Close
  BY <1>11 DEF Close, Registering, Registry!Close, Registry!Next
<1>12. CASE Tick
  BY <1>12 DEF Tick, Registering, Registry!Tick, Registry!Next
<1>13. CASE Restart
  <2>1. Registering' = {} /\ Registering \subseteq ProjectIDs
    BY <1>13 DEF Restart, Registering
  <2>2. (issued \ Registering)' = (issued \ Registering) \cup (Registering \cap issued)
    BY <1>13, <2>1 DEF Restart
  <2>3. Registering \cap issued \in SUBSET ProjectIDs
    OBVIOUS
  <2>4. Registry!Restart
    BY <1>13, <2>2, <2>3 DEF Restart, Registry!Restart
  <2> QED
    BY <2>4 DEF Registry!Next
<1>14. CASE UNCHANGED vars
  BY <1>14 DEF vars, mapped, Registering
<1> QED
  BY <1>1, <1>2, <1>3, <1>4, <1>5, <1>6, <1>7, <1>8, <1>9, <1>10, <1>11, <1>12, <1>13, <1>14
     DEF Next, Begin, Continue

(* The manager implements the registry it promises: ids are registered at  *)
(* most once and never after Close, and only projects idle at the moment   *)
(* of the eviction are evicted.                                            *)
THEOREM ManagerImplementsRegistry == Spec => ImplementsRegistry
  BY TypeCorrect, DirsCorrect, PastInit, PastNext, RegistryInit, RegistryNext, PTL
     DEF Spec, ImplementsRegistry, Registry!Spec
============================================================================
