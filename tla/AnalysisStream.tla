--------------------------- MODULE AnalysisStream ---------------------------
(***************************************************************************)
(* What POST /api/projects/{id}/analyze promises its clients: at most one  *)
(* open event stream per project; events that only move forward through    *)
(* the phases; a successful end only after the last phase; one terminal    *)
(* event, after which the stream is silent; and an end without it only     *)
(* when the client has left or nothing was ever sent.  A pipeline that     *)
(* panicked is the exception: progress events may still trickle in.        *)
(***************************************************************************)
EXTENDS Naturals

CONSTANTS
    Requests,       \* the POST requests
    ProjectIDs,     \* the projects they name
    NoProject,      \* the target of a request that was not admitted
    LastPhase       \* the position of the exporting phase

VARIABLES
    status,         \* what has become of the stream of a request
    target,         \* the project it analyses
    position,       \* the point of the pipeline an open stream has reached
    seq,            \* how many frames were emitted on it
    gone,           \* its client has disconnected
    crashed         \* its pipeline has panicked

vars == <<status, target, position, seq, gone, crashed>>

TypeOK ==
    /\ status \in [Requests -> {"none", "open", "done", "failed", "cut"}]
    /\ target \in [Requests -> ProjectIDs \cup {NoProject}]
    /\ position \in [Requests -> 0..LastPhase]
    /\ seq \in [Requests -> Nat]
    /\ gone \in [Requests -> BOOLEAN]
    /\ crashed \in [Requests -> BOOLEAN]

Init ==
    /\ status = [r \in Requests |-> "none"]
    /\ target = [r \in Requests |-> NoProject]
    /\ position = [r \in Requests |-> 0]
    /\ seq = [r \in Requests |-> 0]
    /\ gone = [r \in Requests |-> FALSE]
    /\ crashed = [r \in Requests |-> FALSE]

(* A project that is being analysed admits no second stream (HTTP 409).    *)
Open(r, p) ==
    /\ status[r] = "none"
    /\ \A q \in Requests : status[q] = "open" => target[q] # p
    /\ status' = [status EXCEPT ![r] = "open"]
    /\ target' = [target EXCEPT ![r] = p]
    /\ UNCHANGED <<position, seq, gone, crashed>>

(* A phase, warning or partial_graph event.                                *)
Event(r) ==
    /\ status[r] = "open"
    /\ \E k \in position[r]..LastPhase : position' = [position EXCEPT ![r] = k]
    /\ seq' = [seq EXCEPT ![r] = @ + 1]
    /\ UNCHANGED <<status, target, gone, crashed>>

(* done with phase=done: everything is exported.                           *)
Finish(r) ==
    /\ status[r] = "open"
    /\ position[r] = LastPhase
    /\ ~crashed[r]
    /\ status' = [status EXCEPT ![r] = "done"]
    /\ seq' = [seq EXCEPT ![r] = @ + 1]
    /\ position' = [position EXCEPT ![r] = 0]
    /\ UNCHANGED <<target, gone, crashed>>

(* done with phase=failed.                                                 *)
Fail(r) ==
    /\ status[r] = "open"
    /\ status' = [status EXCEPT ![r] = "failed"]
    /\ seq' = [seq EXCEPT ![r] = @ + 1]
    /\ position' = [position EXCEPT ![r] = 0]
    /\ UNCHANGED <<target, gone, crashed>>

(* The stream ends without a done event.                                   *)
Cut(r) ==
    /\ status[r] = "open"
    /\ gone[r] \/ seq[r] = 0
    /\ status' = [status EXCEPT ![r] = "cut"]
    /\ \E n \in {seq[r], seq[r] + 1} : seq' = [seq EXCEPT ![r] = n]
    /\ position' = [position EXCEPT ![r] = 0]
    /\ UNCHANGED <<target, gone, crashed>>

Crash(r) ==
    /\ status[r] = "open"
    /\ crashed' = [crashed EXCEPT ![r] = TRUE]
    /\ UNCHANGED <<status, target, position, seq, gone>>

(* A late progress event of a pipeline that panicked.                      *)
Stray(r) ==
    /\ crashed[r]
    /\ seq' = [seq EXCEPT ![r] = @ + 1]
    /\ UNCHANGED <<status, target, position, gone, crashed>>

Leave(r) ==
    /\ gone' = [gone EXCEPT ![r] = TRUE]
    /\ UNCHANGED <<status, target, position, seq, crashed>>

Next ==
    \E r \in Requests :
        \/ \E p \in ProjectIDs : Open(r, p)
        \/ Event(r) \/ Finish(r) \/ Fail(r) \/ Cut(r)
        \/ Crash(r) \/ Stray(r) \/ Leave(r)

Spec == Init /\ [][Next]_vars
=============================================================================
