-------------------------- MODULE ProjectRegistry --------------------------
(***************************************************************************)
(* What cache.Manager promises its callers (the loader, the handlers, the  *)
(* orchestrator), with the disk, the goroutines and their locks left out:  *)
(* a set of live projects, each with the time of its last access.  A       *)
(* project is registered once and never comes back, it leaves only by a    *)
(* request, by idleness or with the process, and nothing is registered or  *)
(* evicted once the manager is closed.                                     *)
(***************************************************************************)
EXTENDS Naturals

CONSTANTS
    ProjectIDs,     \* the ids domain.NewProjectID can return
    IdleTTL,        \* Options.IdleTTL, in clock ticks
    MaxTime,        \* bound: the last reading of the clock
    MaxRestarts     \* bound: how often the process is restarted

VARIABLES
    live,           \* the keys of manager.projects
    spent,          \* the ids that can not be registered any more
    accessed,       \* Meta.LastAccessAt of every id
    closed,         \* manager.closed
    now,            \* Clock.Now()
    restarts        \* restarts so far

vars == <<live, spent, accessed, closed, now, restarts>>

TypeOK ==
    /\ live \subseteq spent
    /\ spent \subseteq ProjectIDs
    /\ accessed \in [ProjectIDs -> 0..MaxTime]
    /\ closed \in BOOLEAN
    /\ now \in 0..MaxTime
    /\ restarts \in 0..MaxRestarts

Init ==
    /\ live = {}
    /\ spent = {}
    /\ accessed = [id \in ProjectIDs |-> 0]
    /\ closed = FALSE
    /\ now = 0
    /\ restarts = 0

(* NewProject: the clock was read before the project became visible.       *)
Register(id) ==
    /\ ~closed
    /\ id \notin spent
    /\ \E t \in 0..now : accessed' = [accessed EXCEPT ![id] = t]
    /\ live' = live \cup {id}
    /\ spent' = spent \cup {id}
    /\ UNCHANGED <<closed, now, restarts>>

(* GetProject renews the lease at the current time.                        *)
Touch(id) ==
    /\ id \in live
    /\ accessed' = [accessed EXCEPT ![id] = now]
    /\ UNCHANGED <<live, spent, closed, now, restarts>>

(* WriteMeta stores whatever access time its caller read earlier.          *)
Overwrite(id) ==
    /\ id \in live
    /\ \E t \in 0..now : accessed' = [accessed EXCEPT ![id] = t]
    /\ UNCHANGED <<live, spent, closed, now, restarts>>

(* DeleteProject, or the rollback of a NewProject that failed.             *)
Forget(id) ==
    /\ id \in live
    /\ live' = live \ {id}
    /\ UNCHANGED <<spent, accessed, closed, now, restarts>>

(* A NewProject that finds the manager closed uses its id up.              *)
Abandon(id) ==
    /\ closed
    /\ id \notin spent
    /\ spent' = spent \cup {id}
    /\ UNCHANGED <<live, accessed, closed, now, restarts>>

(* One sweep: only projects that really are idle at this moment.           *)
Expire(S) ==
    /\ ~closed
    /\ S \subseteq live
    /\ \A id \in S : accessed[id] + IdleTTL <= now
    /\ live' = live \ S
    /\ UNCHANGED <<spent, accessed, closed, now, restarts>>

Close ==
    /\ ~closed
    /\ closed' = TRUE
    /\ UNCHANGED <<live, spent, accessed, now, restarts>>

Tick ==
    /\ now < MaxTime
    /\ now' = now + 1
    /\ UNCHANGED <<live, spent, accessed, closed, restarts>>

(* A new process starts with an empty registry; the calls that were about  *)
(* to register an id died with the old one.                                *)
Restart ==
    /\ restarts < MaxRestarts
    /\ restarts' = restarts + 1
    /\ live' = {}
    /\ closed' = FALSE
    /\ \E dead \in SUBSET ProjectIDs : spent' = spent \cup dead
    /\ UNCHANGED <<accessed, now>>

Next ==
    \/ \E id \in ProjectIDs :
           \/ Register(id) \/ Abandon(id)
           \/ Touch(id) \/ Overwrite(id) \/ Forget(id)
    \/ \E S \in SUBSET live : Expire(S)
    \/ Close
    \/ Tick
    \/ Restart

Spec == Init /\ [][Next]_vars
=============================================================================
