----------------------------- MODULE DiskCache -----------------------------
(***************************************************************************)
(* src/server/internal/cache: the manager's registry, the two directories  *)
(* it keeps per project, the goroutines that call it and its sweeper.      *)
(*                                                                         *)
(* A critical section of manager.mu is one step: nothing in it blocks.     *)
(* Everything the code does after the unlock (creating a temporary file,   *)
(* renaming it, removing a directory) is a step of its own, so that the    *)
(* steps of other goroutines come in between as they can in the program.   *)
(* os.RemoveAll is one step and succeeds.  A mkdir, a create or a write    *)
(* may fail (disk full, no descriptors).                                   *)
(***************************************************************************)
EXTENDS Naturals, FiniteSets

CONSTANTS
    Workers,        \* goroutines that call the manager (one per request)
    ProjectIDs,     \* the ids domain.NewProjectID can return
    Artefacts,      \* graph.json, dead-code.json, parsed.gob
    IdleTTL,        \* Options.IdleTTL, in clock ticks
    MaxTime,        \* bound: the last reading of the clock
    MaxRestarts,    \* bound: how often the process is restarted
    NoProject       \* what a goroutine outside a call works on

ASSUME DiskCacheAssumption ==
    /\ IdleTTL \in Nat \ {0}
    /\ MaxTime \in Nat
    /\ MaxRestarts \in Nat
    /\ NoProject \notin ProjectIDs
    /\ Artefacts \cap {"none", "new", "get", "meta", "delete"} = {}

(* What a cache directory holds besides temporary files.                   *)
Files == Artefacts \cup {"meta.json"}

VARIABLES
    projects,       \* the keys of manager.projects
    issued,         \* the ids NewProjectID has returned
    lastAccess,     \* Meta.LastAccessAt of the Project record of an id
    closed,         \* manager.closed
    now,            \* Clock.Now()
    sources,        \* ids whose directory under RootTmp exists
    caches,         \* ids whose directory under RootCache exists
    files,          \* the files in the cache directory of an id
    temps,          \* goroutines whose .tmp-* file exists on disk
    pc,             \* where a goroutine is
    call,           \* which operation it executes
    target,         \* the project it works on
    stamp,          \* the access time it carries (its copy of the Meta)
    sweep,          \* the sweeper: its pc, its reading of the clock, its list
    restarts,       \* restarts so far
    preserved       \* ids whose directories a restart left on disk

disk == <<sources, caches, files, temps>>
registry == <<projects, lastAccess>>
frame == <<pc, call, target, stamp>>
world == <<closed, restarts, preserved>>
vars == <<registry, issued, now, disk, frame, sweep, world>>

Calls == {"none", "new", "get", "meta", "delete"} \cup Artefacts

Steps == {"idle", "register", "lookup", "held", "discard", "metaLock",
          "openTemp", "commit", "rollback", "rmSources", "rmCache"}

TypeOK ==
    /\ issued \subseteq ProjectIDs
    /\ projects \subseteq issued
    /\ lastAccess \in [ProjectIDs -> 0..MaxTime]
    /\ closed \in BOOLEAN
    /\ now \in 0..MaxTime
    /\ sources \subseteq issued
    /\ caches \subseteq issued
    /\ files \in [ProjectIDs -> SUBSET Files]
    /\ temps \subseteq Workers
    /\ pc \in [Workers -> Steps]
    /\ call \in [Workers -> Calls]
    /\ target \in [Workers -> issued \cup {NoProject}]
    /\ \A w \in Workers : pc[w] = "idle" <=> target[w] = NoProject
    /\ stamp \in [Workers -> 0..MaxTime]
    /\ sweep \in [pc : {"waiting", "collecting", "evicting", "exited"},
                  now : 0..MaxTime, expired : SUBSET issued]
    /\ restarts \in 0..MaxRestarts
    /\ preserved \subseteq issued

Init ==
    /\ projects = {}
    /\ issued = {}
    /\ lastAccess = [id \in ProjectIDs |-> 0]
    /\ closed = FALSE
    /\ now = 0
    /\ sources = {}
    /\ caches = {}
    /\ files = [id \in ProjectIDs |-> {}]
    /\ temps = {}
    /\ pc = [w \in Workers |-> "idle"]
    /\ call = [w \in Workers |-> "none"]
    /\ target = [w \in Workers |-> NoProject]
    /\ stamp = [w \in Workers |-> 0]
    /\ sweep = [pc |-> "waiting", now |-> 0, expired |-> {}]
    /\ restarts = 0
    /\ preserved = {}
----------------------------------------------------------------------------
(* Goroutine bookkeeping.                                                  *)

Enter(w, c, step, id, t) ==
    /\ pc[w] = "idle"
    /\ pc' = [pc EXCEPT ![w] = step]
    /\ call' = [call EXCEPT ![w] = c]
    /\ target' = [target EXCEPT ![w] = id]
    /\ stamp' = [stamp EXCEPT ![w] = t]

Goto(w, step) ==
    /\ pc' = [pc EXCEPT ![w] = step]
    /\ UNCHANGED <<call, target, stamp>>

Return(w) ==
    /\ pc' = [pc EXCEPT ![w] = "idle"]
    /\ call' = [call EXCEPT ![w] = "none"]
    /\ target' = [target EXCEPT ![w] = NoProject]
    /\ stamp' = [stamp EXCEPT ![w] = 0]

(* os.RemoveAll of a cache directory takes the temporary files with it.    *)
RemoveCache(id) ==
    /\ caches' = caches \ {id}
    /\ files' = [files EXCEPT ![id] = {}]
    /\ temps' = {w \in temps : target[w] # id}
----------------------------------------------------------------------------
(* NewProject.                                                             *)

(* guardOpen, NewProjectID, the clock and the two MkdirAll.  No other      *)
(* goroutine knows the id yet.  A failing MkdirAll leaves nothing behind   *)
(* and no trace: the call is not modelled then.                            *)
BeginNew(w) ==
    /\ ~closed
    /\ \E id \in ProjectIDs \ issued :
         /\ issued' = issued \cup {id}
         /\ sources' = sources \cup {id}
         /\ caches' = caches \cup {id}
         /\ Enter(w, "new", "register", id, now)
    /\ UNCHANGED <<registry, now, files, temps, sweep, world>>

(* Mutation: closed is tested by guardOpen only.                           *)
RegisterUnchecked(w) ==
    /\ pc[w] = "register"
    /\ projects' = projects \cup {target[w]}
    /\ lastAccess' = [lastAccess EXCEPT ![target[w]] = stamp[w]]
    /\ Goto(w, "openTemp")
    /\ UNCHANGED <<issued, now, disk, sweep, world>>

(* Mutation: ErrManagerClosed is returned without removing the             *)
(* directories.                                                            *)
RegisterLeaves(w) ==
    /\ pc[w] = "register"
    /\ IF closed
       THEN /\ Return(w)
            /\ UNCHANGED registry
       ELSE /\ projects' = projects \cup {target[w]}
            /\ lastAccess' = [lastAccess EXCEPT ![target[w]] = stamp[w]]
            /\ Goto(w, "openTemp")
    /\ UNCHANGED <<issued, now, disk, sweep, world>>

(* The locked section re-reads closed: Close may have run since guardOpen. *)
RegisterProject(w) ==
    /\ pc[w] = "register"
    /\ IF closed
       THEN /\ Goto(w, "rmSources")
            /\ UNCHANGED registry
       ELSE /\ projects' = projects \cup {target[w]}
            /\ lastAccess' = [lastAccess EXCEPT ![target[w]] = stamp[w]]
            /\ Goto(w, "openTemp")
    /\ UNCHANGED <<issued, now, disk, sweep, world>>

(* Mutation: the directories are removed under a project still registered. *)
RollbackRegistered(w) ==
    /\ pc[w] = "rollback"
    /\ Goto(w, "rmSources")
    /\ UNCHANGED <<registry, issued, now, disk, sweep, world>>

(* meta.json could not be written: unregister, then remove both            *)
(* directories.                                                            *)
RollbackNew(w) ==
    /\ pc[w] = "rollback"
    /\ projects' = projects \ {target[w]}
    /\ Goto(w, "rmSources")
    /\ UNCHANGED <<lastAccess, issued, now, disk, sweep, world>>
----------------------------------------------------------------------------
(* GetProject.                                                             *)

BeginGet(w) ==
    /\ ~closed
    /\ \E id \in issued : Enter(w, "get", "lookup", id, 0)
    /\ UNCHANGED <<registry, issued, now, disk, sweep, world>>

(* The clock is read and the record renewed under the lock; meta.json is   *)
(* written from a copy after the unlock.                                   *)
LookupProject(w) ==
    /\ pc[w] = "lookup"
    /\ IF target[w] \in projects
       THEN /\ lastAccess' = [lastAccess EXCEPT ![target[w]] = now]
            /\ Goto(w, "openTemp")
       ELSE /\ Return(w)
            /\ UNCHANGED lastAccess
    /\ UNCHANGED <<projects, issued, now, disk, sweep, world>>
----------------------------------------------------------------------------
(* WriteMeta, called by the loader on the handle NewProject gave it.       *)

(* updated := project.Meta, read through the handle without the lock.      *)
CopyMeta(w) ==
    /\ pc[w] = "held"
    /\ pc' = [pc EXCEPT ![w] = "metaLock"]
    /\ call' = [call EXCEPT ![w] = "meta"]
    /\ stamp' = [stamp EXCEPT ![w] = lastAccess[target[w]]]
    /\ UNCHANGED <<registry, issued, now, disk, target, sweep, world>>

(* The whole record is overwritten, LastAccessAt included.  A project that *)
(* is gone by now is ErrProjectNotFound.                                   *)
WriteMeta(w) ==
    /\ pc[w] = "metaLock"
    /\ IF target[w] \in projects
       THEN /\ lastAccess' = [lastAccess EXCEPT ![target[w]] = stamp[w]]
            /\ Goto(w, "openTemp")
       ELSE /\ Goto(w, "discard")
            /\ UNCHANGED lastAccess
    /\ UNCHANGED <<projects, issued, now, disk, sweep, world>>
----------------------------------------------------------------------------
(* WriteGraph, WriteDeadCode, WriteParsedBlob: cacheDir under the read     *)
(* lock, then writeAtomic or newAtomicWriteCloser on the path it gave.     *)
BeginWrite(w) ==
    /\ \E id \in projects, f \in Artefacts : Enter(w, f, "openTemp", id, 0)
    /\ UNCHANGED <<registry, issued, now, disk, sweep, world>>

FileOf(c) == IF c \in Artefacts THEN c ELSE "meta.json"

(* What follows a failed write: NewProject rolls back, the loader deletes  *)
(* the project whose meta it could not persist, the others return.         *)
WriteFailed(w) ==
    CASE call[w] = "new"  -> Goto(w, "rollback")
      [] call[w] = "meta" -> Goto(w, "discard")
      [] OTHER            -> Return(w)

(* MkdirAll of the parent directory, which brings a removed one back, and  *)
(* CreateTemp in it.                                                       *)
OpenTemp(w) ==
    /\ pc[w] = "openTemp"
    /\ caches' = caches \cup {target[w]}
    /\ temps' = temps \cup {w}
    /\ Goto(w, "commit")
    /\ UNCHANGED <<registry, issued, now, sources, files, sweep, world>>

(* Either of the two fails: with CreateTemp the directory is already made. *)
OpenTempFails(w) ==
    /\ pc[w] = "openTemp"
    /\ caches' \in {caches, caches \cup {target[w]}}
    /\ WriteFailed(w)
    /\ UNCHANGED <<registry, issued, now, sources, files, temps, sweep, world>>

(* The rename.  It fails when the directory, and the temporary file in it, *)
(* were removed meanwhile.                                                 *)
Commit(w) ==
    /\ pc[w] = "commit"
    /\ w \in temps
    /\ files' = [files EXCEPT ![target[w]] = @ \cup {FileOf(call[w])}]
    /\ temps' = temps \ {w}
    /\ IF call[w] = "new" THEN Goto(w, "held") ELSE Return(w)
    /\ UNCHANGED <<registry, issued, now, sources, caches, sweep, world>>

(* The write, the sync or the rename fails (or the blob writer is          *)
(* aborted): the temporary file is removed.                                *)
CommitFails(w) ==
    /\ pc[w] = "commit"
    /\ temps' = temps \ {w}
    /\ WriteFailed(w)
    /\ UNCHANGED <<registry, issued, now, sources, caches, files, sweep, world>>
----------------------------------------------------------------------------
(* DeleteProject: by a request for any id.  An unknown id is not an error  *)
(* and changes nothing.                                                    *)
DeleteProject(w) ==
    /\ \E id \in projects :
         /\ projects' = projects \ {id}
         /\ Enter(w, "delete", "rmSources", id, 0)
    /\ UNCHANGED <<lastAccess, issued, now, disk, sweep, world>>

(* DeleteProject by the loader that rolls its upload back, because the     *)
(* extraction failed ("held") or WriteMeta did ("discard").  The project   *)
(* may have been deleted or evicted before.                                *)
DiscardUpload(w) ==
    /\ pc[w] \in {"held", "discard"}
    /\ IF target[w] \in projects
       THEN /\ projects' = projects \ {target[w]}
            /\ Goto(w, "rmSources")
       ELSE /\ Return(w)
            /\ UNCHANGED projects
    /\ UNCHANGED <<lastAccess, issued, now, disk, sweep, world>>

RemoveSourcesDir(w) ==
    /\ pc[w] = "rmSources"
    /\ sources' = sources \ {target[w]}
    /\ Goto(w, "rmCache")
    /\ UNCHANGED <<registry, issued, now, caches, files, temps, sweep, world>>

RemoveCacheDir(w) ==
    /\ pc[w] = "rmCache"
    /\ RemoveCache(target[w])
    /\ Return(w)
    /\ UNCHANGED <<registry, issued, now, sources, sweep, world>>
----------------------------------------------------------------------------
(* The sweeper goroutine.                                                  *)

(* ticker.C: sweep reads the clock before it asks for the lock.            *)
SweepTick ==
    /\ sweep.pc = "waiting"
    /\ sweep' = [sweep EXCEPT !.pc = "collecting", !.now = now]
    /\ UNCHANGED <<registry, issued, now, disk, frame, world>>

Expired(t) == {id \in projects : t >= lastAccess[id] + IdleTTL}

(* The sweeper with S left to evict: done with the tick when S is empty.   *)
SweepWith(S) ==
    [pc |-> IF S = {} THEN "waiting" ELSE "evicting", now |-> 0, expired |-> S]

(* Mutation: the list is made under the lock, the registry cleaned later.  *)
CollectOnly ==
    /\ sweep.pc = "collecting"
    /\ sweep' = SweepWith(IF closed THEN {} ELSE Expired(sweep.now))
    /\ UNCHANGED <<registry, issued, now, disk, frame, world>>

CollectExpired ==
    /\ sweep.pc = "collecting"
    /\ LET gone == IF closed THEN {} ELSE Expired(sweep.now)
       IN  /\ projects' = projects \ gone
           /\ sweep' = SweepWith(gone)
    /\ UNCHANGED <<lastAccess, issued, now, disk, frame, world>>

(* One evict: both directories of a project the sweep has unregistered.    *)
Evict ==
    /\ sweep.pc = "evicting"
    /\ \E id \in sweep.expired :
         /\ sources' = sources \ {id}
         /\ RemoveCache(id)
         /\ sweep' = SweepWith(sweep.expired \ {id})
    /\ UNCHANGED <<registry, issued, now, frame, world>>

(* ctx.Done(): the goroutine ends and Close, which waits for it, returns.  *)
SweepExit ==
    /\ sweep.pc = "waiting"
    /\ closed
    /\ sweep' = [sweep EXCEPT !.pc = "exited"]
    /\ UNCHANGED <<registry, issued, now, disk, frame, world>>
----------------------------------------------------------------------------
(* Close marks the manager closed and cancels the sweeper's context.       *)
Close ==
    /\ ~closed
    /\ closed' = TRUE
    /\ UNCHANGED <<registry, issued, now, disk, frame, sweep, restarts, preserved>>

Tick ==
    /\ now < MaxTime
    /\ now' = now + 1
    /\ UNCHANGED <<registry, issued, disk, frame, sweep, world>>

(* The process ends at any point, with or without Close, and a new one     *)
(* calls New: the directories stay, the registry starts empty.             *)
Restart ==
    /\ restarts < MaxRestarts
    /\ restarts' = restarts + 1
    /\ projects' = {}
    /\ closed' = FALSE
    /\ temps' = {}
    /\ pc' = [w \in Workers |-> "idle"]
    /\ call' = [w \in Workers |-> "none"]
    /\ target' = [w \in Workers |-> NoProject]
    /\ stamp' = [w \in Workers |-> 0]
    /\ sweep' = [pc |-> "waiting", now |-> 0, expired |-> {}]
    /\ preserved' = preserved \cup sources \cup caches
    /\ UNCHANGED <<lastAccess, issued, now, sources, caches, files>>
----------------------------------------------------------------------------
(* The steps of a goroutine inside a call.                                 *)
Continue(w) ==
    \/ RegisterProject(w)
    \/ RollbackNew(w)
    \/ LookupProject(w)
    \/ CopyMeta(w)
    \/ WriteMeta(w)
    \/ OpenTemp(w)
    \/ OpenTempFails(w)
    \/ Commit(w)
    \/ CommitFails(w)
    \/ DiscardUpload(w)
    \/ RemoveSourcesDir(w)
    \/ RemoveCacheDir(w)

Begin(w) == BeginNew(w) \/ BeginGet(w) \/ BeginWrite(w) \/ DeleteProject(w)

Sweeper == SweepTick \/ CollectExpired \/ Evict \/ SweepExit

Next ==
    \/ \E w \in Workers : Begin(w) \/ Continue(w)
    \/ Sweeper
    \/ Close
    \/ Tick
    \/ Restart

Spec == Init /\ [][Next]_vars
----------------------------------------------------------------------------
(* Properties.                                                             *)

(* Whoever finds a project in the registry finds both of its directories   *)
(* on disk, whatever deletions, evictions, rollbacks and restarts are      *)
(* under way: the unregister-then-remove order of DeleteProject, NewProject *)
(* and sweep.                                                              *)
RegisteredHaveDirs == projects \subseteq sources \cap caches

Quiescent ==
    /\ \A w \in Workers : pc[w] = "idle"
    /\ sweep.expired = {}

(* No call of the manager ever loses a sources directory: when all of them *)
(* have returned, only live projects have one (and what a dead process     *)
(* left).  NewProject racing Close, two removals of one project, and a     *)
(* failed meta.json are the hard cases.  The loader, which writes into the *)
(* directory without the manager, is in ProjectLifecycle.                  *)
NoLeakedSources == Quiescent => sources \subseteq projects \cup preserved

(* The same of the cache directories, which package doc and api-contract   *)
(* promise of an eviction and of DELETE.  It does not hold: a writer that  *)
(* resolved the directory before the removal makes it anew (MkdirAll in    *)
(* writeAtomic) and nothing knows of it any more.                          *)
NoLeakedCaches == Quiescent => caches \subseteq projects \cup preserved

(* An access never shortens a lease: LastAccessAt moves back only when the *)
(* loader's WriteMeta stores the copy it took from its handle.             *)
LastAccessOnlyRenewed ==
    [][\A id \in ProjectIDs : lastAccess'[id] < lastAccess[id] =>
          \E w \in Workers : /\ call[w] = "meta" /\ target[w] = id
                             /\ pc[w] = "metaLock" /\ pc'[w] = "openTemp"]_vars

(* What was written for a project stays readable as long as the project is *)
(* registered: no removal, even of an older list of the sweeper, reaches   *)
(* the directory of a live project.                                        *)
LiveFilesKept ==
    [][\A id \in projects \cap projects' : files[id] \subseteq files'[id]]_vars

(* With disk and goroutines left out the manager is the ProjectRegistry:   *)
(* no id is registered twice or after Close, and an eviction is of         *)
(* projects idle at that moment, although sweep read the clock earlier.    *)
Registering == {target[w] : w \in {v \in Workers : pc[v] = "register"}}

Registry == INSTANCE ProjectRegistry WITH
    live <- projects, spent <- issued \ Registering, accessed <- lastAccess

ImplementsRegistry == Registry!Spec
=============================================================================
