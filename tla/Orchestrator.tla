---------------------------- MODULE Orchestrator ----------------------------
(***************************************************************************)
(* src/server/internal/orchestrator and the handler that drives it: the    *)
(* single-flight slot of a project, the pipeline of one POST .../analyze,  *)
(* the goroutine that forwards the progress of the parser and the builder, *)
(* and the SSE stream both write to.                                       *)
(*                                                                         *)
(* Every emit, every blocking operation on the progress channel and every  *)
(* stage that can fail or panic is a step of its own.  A write to the      *)
(* client has no deadline (main.go: WriteTimeout is 0): it waits for as    *)
(* long as the client stays and does not read.  What an event says is left *)
(* out but for its position in the pipeline.  The 400, 404 and 409 answers *)
(* change no state of this module and are not steps.                       *)
(***************************************************************************)
EXTENDS Naturals

CONSTANTS
    Requests,       \* the POST requests, each served by a goroutine
    ProjectIDs,     \* the projects they name
    Capacity,       \* the buffer of a progress channel (64)
    MaxTicks,       \* bound: progress values sent by one stage
    MaxChunks,      \* bound: partial_graph events of one analysis
    NoRequest,      \* a slot nobody holds
    NoProject       \* the target of a request that was not admitted

ASSUME OrchestratorAssumption ==
    /\ Capacity \in Nat \ {0}
    /\ MaxTicks \in Nat \ {0}
    /\ MaxChunks \in Nat \ {0}
    /\ NoRequest \notin Requests
    /\ NoProject \notin ProjectIDs

VARIABLES
    slot,           \* who has locked the mutex inflight keeps for a project
    pc,             \* where the goroutine of a request is
    target,         \* the project of a request
    gone,           \* the client has disconnected, r.Context() is cancelled
    stalled,        \* the client stays and does not read: writes block
    stage,          \* the position whose progress is (or was last) forwarded
    left,           \* values the stage, or chunks streamPartialGraph, will send
    buffered,       \* values in the progress channel
    open,           \* the progress channel is not closed
    forwarder,      \* where the forwarding goroutine is
    outcome,        \* how the stage ended: res, an error, or a panic
    seq,            \* SSEStreamer.seq
    position,       \* position of the last event that reached the wire
    terminal        \* the done event that reached the wire

slots == <<slot, target>>
client == <<gone, stalled>>
channel == <<stage, left, buffered, open, forwarder>>
stream == <<seq, position, terminal>>
vars == <<slots, pc, client, channel, outcome, stream>>

(* The order of the events on the wire; warnings have places of their own. *)
Loading == 1
Parsing == 2
ParseWarnings == 3
Building == 4
Partial == 5
Reachability == 6
EntryWarnings == 7
Exporting == 8
Terminal == 9

(* Where the handler's goroutine is in a call of Emit (or stream.Close).   *)
Emitting == {"loading", "parsing", "parseWarnings", "building", "partial",
             "reachability", "entryWarnings", "exporting", "done",
             "failing", "panicked", "close"}
Staging == {"working", "sending", "await"}
Computing == {"resolve", "mark", "writeGraph", "writeDeadCode"}
Steps == {"idle", "open", "runParse", "runBuild", "release", "finished"}
            \cup Emitting \cup Staging \cup Computing

Running(r) == pc[r] \notin {"idle", "finished"}

TypeOK ==
    /\ slot \in [ProjectIDs -> Requests \cup {NoRequest}]
    /\ pc \in [Requests -> Steps]
    /\ target \in [Requests -> ProjectIDs \cup {NoProject}]
    /\ gone \in [Requests -> BOOLEAN]
    /\ stalled \in [Requests -> BOOLEAN]
    /\ stage \in [Requests -> {Parsing, Building}]
    /\ left \in [Requests -> 0..(MaxTicks + MaxChunks)]
    /\ \A r \in Requests : pc[r] = "partial" => left[r] > 0
    /\ buffered \in [Requests -> 0..Capacity]
    /\ open \in [Requests -> BOOLEAN]
    /\ forwarder \in [Requests -> {"none", "receiving", "emitting"}]
    /\ outcome \in [Requests -> {"ok", "error", "panic"}]
    /\ seq \in [Requests -> Nat]
    /\ position \in [Requests -> 0..Terminal]
    /\ terminal \in [Requests -> {"none", "done", "failed"}]

Init ==
    /\ slot = [p \in ProjectIDs |-> NoRequest]
    /\ pc = [r \in Requests |-> "idle"]
    /\ target = [r \in Requests |-> NoProject]
    /\ gone = [r \in Requests |-> FALSE]
    /\ stalled = [r \in Requests |-> FALSE]
    /\ stage = [r \in Requests |-> Parsing]
    /\ left = [r \in Requests |-> 0]
    /\ buffered = [r \in Requests |-> 0]
    /\ open = [r \in Requests |-> FALSE]
    /\ forwarder = [r \in Requests |-> "none"]
    /\ outcome = [r \in Requests |-> "ok"]
    /\ seq = [r \in Requests |-> 0]
    /\ position = [r \in Requests |-> 0]
    /\ terminal = [r \in Requests |-> "none"]
----------------------------------------------------------------------------
Goto(r, step) == pc' = [pc EXCEPT ![r] = step]

(* SSEStreamer.Emit counts the frame before it writes and flushes it.  The *)
(* write waits for the client to read, fails only when the client has left *)
(* and need not fail even then.                                            *)
Count(r) == seq' = [seq EXCEPT ![r] = @ + 1]

Emit(r, k) ==
    /\ ~stalled[r]
    /\ Count(r)
    /\ position' = [position EXCEPT ![r] = k]

EmitFails(r) ==
    /\ gone[r]
    /\ Count(r)
    /\ UNCHANGED <<position, terminal>>

(* An emit of the pipeline at position k: on failure runPipeline returns   *)
(* without a done event.                                                   *)
Announce(r, at, k, then) ==
    /\ pc[r] = at
    /\ \/ Emit(r, k) /\ Goto(r, then) /\ UNCHANGED terminal
       \/ EmitFails(r) /\ Goto(r, "close")
    /\ UNCHANGED <<slots, client, channel, outcome>>

(* The loop over the warnings of a stage: one event or none stands for any *)
(* number of them.                                                         *)
Warn(r, at, k, then) ==
    \/ Announce(r, at, k, then)
    \/ /\ pc[r] = at
       /\ Goto(r, then)
       /\ UNCHANGED <<slots, client, channel, outcome, stream>>

(* A stage of the handler's goroutine that computes, fails or panics.      *)
Compute(r, at, then) ==
    /\ pc[r] = at
    /\ \/ Goto(r, then) /\ UNCHANGED outcome
       \/ Goto(r, "failing") /\ outcome' = [outcome EXCEPT ![r] = "error"]
       \/ Goto(r, "panicked") /\ outcome' = [outcome EXCEPT ![r] = "panic"]
    /\ UNCHANGED <<slots, client, channel, stream>>
----------------------------------------------------------------------------
(* handleAnalyze.                                                          *)

(* Mutation: the result of TryLock is ignored.                             *)
ReserveAnyway(r, p) ==
    /\ pc[r] = "idle"
    /\ slot' = [slot EXCEPT ![p] = r]
    /\ target' = [target EXCEPT ![r] = p]
    /\ Goto(r, "open")
    /\ UNCHANGED <<client, channel, outcome, stream>>

(* Reserve: LoadOrStore of the mutex and TryLock.                          *)
Reserve(r, p) ==
    /\ pc[r] = "idle"
    /\ slot[p] = NoRequest
    /\ slot' = [slot EXCEPT ![p] = r]
    /\ target' = [target EXCEPT ![r] = p]
    /\ Goto(r, "open")
    /\ UNCHANGED <<client, channel, outcome, stream>>

(* NewSSEStreamer flushes the headers; it fails before that when the       *)
(* writer can not flush, and there is no stream to close then.             *)
OpenStream(r) ==
    /\ pc[r] = "open"
    /\ \/ ~stalled[r] /\ Goto(r, "loading")
       \/ Goto(r, "release")
    /\ UNCHANGED <<slots, client, channel, outcome, stream>>

(* stream.Close writes as well; its error is ignored.                      *)
CloseStream(r) ==
    /\ pc[r] = "close"
    /\ ~stalled[r]
    /\ Goto(r, "release")
    /\ UNCHANGED <<slots, client, channel, outcome, stream>>

(* The deferred release.                                                   *)
Release(r) ==
    /\ pc[r] = "release"
    /\ slot' = [slot EXCEPT ![target[r]] = NoRequest]
    /\ Goto(r, "finished")
    /\ UNCHANGED <<target, client, channel, outcome, stream>>

(* The buffers on the way to a client that stays and does not read are     *)
(* full, and the next write of the handler or the forwarder blocks; or the *)
(* client reads again.                                                     *)
Writing(r) == pc[r] \in Emitting \cup {"open"} \/ forwarder[r] = "emitting"

Stall(r) ==
    /\ Running(r) /\ Writing(r)
    /\ ~gone[r] /\ ~stalled[r]
    /\ stalled' = [stalled EXCEPT ![r] = TRUE]
    /\ UNCHANGED <<slots, pc, gone, channel, outcome, stream>>

ReadOn(r) ==
    /\ stalled[r]
    /\ stalled' = [stalled EXCEPT ![r] = FALSE]
    /\ UNCHANGED <<slots, pc, gone, channel, outcome, stream>>

(* The browser closes the connection: a write that waits returns.          *)
Disconnect(r) ==
    /\ Running(r)
    /\ ~gone[r]
    /\ gone' = [gone EXCEPT ![r] = TRUE]
    /\ stalled' = [stalled EXCEPT ![r] = FALSE]
    /\ UNCHANGED <<slots, pc, channel, outcome, stream>>
----------------------------------------------------------------------------
(* runParse and runBuild: a stage that sends its progress on a channel and *)
(* a goroutine that forwards it.                                           *)

(* The channel is made and the forwarder started.                          *)
StartStage(r) ==
    /\ pc[r] \in {"runParse", "runBuild"}
    /\ stage' = [stage EXCEPT ![r] = IF pc[r] = "runParse" THEN Parsing
                                                            ELSE Building]
    /\ \E n \in 1..MaxTicks : left' = [left EXCEPT ![r] = n]
    /\ open' = [open EXCEPT ![r] = TRUE]
    /\ forwarder' = [forwarder EXCEPT ![r] = "receiving"]
    /\ Goto(r, "working")
    /\ UNCHANGED <<slots, client, buffered, outcome, stream>>

(* progress <- v: the stage has computed its next value ...                *)
NextTick(r) ==
    /\ pc[r] = "working"
    /\ left[r] > 0
    /\ left' = [left EXCEPT ![r] = @ - 1]
    /\ Goto(r, "sending")
    /\ UNCHANGED <<slots, client, stage, buffered, open, forwarder, outcome, stream>>

(* ... and blocks until the buffer has room for it.                        *)
SendTick(r) ==
    /\ pc[r] = "sending"
    /\ buffered[r] < Capacity
    /\ buffered' = [buffered EXCEPT ![r] = @ + 1]
    /\ Goto(r, "working")
    /\ UNCHANGED <<slots, client, stage, left, open, forwarder, outcome, stream>>

(* LoadLive or Build returns and its deferred close(progress) runs.  It    *)
(* succeeds after its last value and fails (a bad project, the deadline, a *)
(* cancelled context) at any time.                                         *)
StageReturns(r) ==
    /\ pc[r] = "working"
    /\ \E res \in {"ok", "error"} :
         /\ res = "ok" => left[r] = 0
         /\ outcome' = [outcome EXCEPT ![r] = res]
    /\ open' = [open EXCEPT ![r] = FALSE]
    /\ Goto(r, "await")
    /\ UNCHANGED <<slots, client, stage, left, buffered, forwarder, stream>>

(* A panic closes the channel as well, but leaves runParse or runBuild     *)
(* without waiting for the forwarder.                                      *)
StagePanics(r) ==
    /\ pc[r] = "working"
    /\ outcome' = [outcome EXCEPT ![r] = "panic"]
    /\ open' = [open EXCEPT ![r] = FALSE]
    /\ Goto(r, "panicked")
    /\ UNCHANGED <<slots, client, stage, left, buffered, forwarder, stream>>

(* Mutation: runParse returns as soon as the stage does.                   *)
AwaitNothing(r) ==
    /\ pc[r] = "await"
    /\ Goto(r, CASE outcome[r] = "error" -> "failing"
                 [] outcome[r] = "ok" /\ stage[r] = Parsing -> "parseWarnings"
                 [] OTHER -> "partial")
    /\ \E n \in 1..MaxChunks : left' = [left EXCEPT ![r] = n]
    /\ UNCHANGED <<slots, client, stage, buffered, open, forwarder, outcome, stream>>

(* Mutation: an error of the stage is returned without emitFailed.         *)
AwaitSilent(r) ==
    /\ pc[r] = "await"
    /\ forwarder[r] = "none"
    /\ Goto(r, CASE outcome[r] = "error" -> "close"
                 [] outcome[r] = "ok" /\ stage[r] = Parsing -> "parseWarnings"
                 [] OTHER -> "partial")
    /\ \E n \in 1..MaxChunks : left' = [left EXCEPT ![r] = n]
    /\ UNCHANGED <<slots, client, stage, buffered, open, forwarder, outcome, stream>>

(* <-progressDone, then the result is looked at.  The graph a build        *)
(* returns is sliced into at least one chunk.                              *)
Await(r) ==
    /\ pc[r] = "await"
    /\ forwarder[r] = "none"
    /\ Goto(r, CASE outcome[r] = "error" -> "failing"
                 [] outcome[r] = "ok" /\ stage[r] = Parsing -> "parseWarnings"
                 [] OTHER -> "partial")
    /\ \E n \in 1..MaxChunks : left' = [left EXCEPT ![r] = n]
    /\ UNCHANGED <<slots, client, stage, buffered, open, forwarder, outcome, stream>>
----------------------------------------------------------------------------
(* The forwarding goroutine.                                               *)

(* A value is received; one of the parser that is less than 5% ahead of    *)
(* the last is dropped.                                                    *)
Receive(r) ==
    /\ forwarder[r] = "receiving"
    /\ buffered[r] > 0
    /\ buffered' = [buffered EXCEPT ![r] = @ - 1]
    /\ \/ forwarder' = [forwarder EXCEPT ![r] = "emitting"]
       \/ stage[r] = Parsing /\ UNCHANGED forwarder
    /\ UNCHANGED <<slots, pc, client, stage, left, open, outcome, stream>>

(* Mutation: the goroutine gives up when an emit fails.                    *)
ForwardOrQuit(r) ==
    /\ forwarder[r] = "emitting"
    /\ \/ /\ Emit(r, stage[r]) /\ UNCHANGED terminal
          /\ forwarder' = [forwarder EXCEPT ![r] = "receiving"]
       \/ /\ EmitFails(r)
          /\ forwarder' = [forwarder EXCEPT ![r] = "none"]
    /\ UNCHANGED <<slots, pc, client, stage, left, buffered, open, outcome>>

(* The emit of a progress event; its error is ignored.                     *)
Forward(r) ==
    /\ forwarder[r] = "emitting"
    /\ \/ Emit(r, stage[r]) /\ UNCHANGED terminal
       \/ EmitFails(r)
    /\ forwarder' = [forwarder EXCEPT ![r] = "receiving"]
    /\ UNCHANGED <<slots, pc, client, stage, left, buffered, open, outcome>>

(* The channel is closed and drained.                                      *)
ForwarderExits(r) ==
    /\ forwarder[r] = "receiving"
    /\ buffered[r] = 0
    /\ ~open[r]
    /\ forwarder' = [forwarder EXCEPT ![r] = "none"]
    /\ UNCHANGED <<slots, pc, client, stage, left, buffered, open, outcome, stream>>
----------------------------------------------------------------------------
(* The rest of runPipeline.                                                *)

(* One chunk of streamPartialGraph.                                        *)
PartialChunk(r) ==
    /\ pc[r] = "partial"
    /\ \/ /\ Emit(r, Partial)
          /\ left' = [left EXCEPT ![r] = @ - 1]
          /\ Goto(r, IF left[r] = 1 THEN "reachability" ELSE "partial")
          /\ UNCHANGED terminal
       \/ /\ EmitFails(r)
          /\ Goto(r, "close")
          /\ UNCHANGED left
    /\ UNCHANGED <<slots, client, stage, buffered, open, forwarder, outcome>>

(* Mutation: emitFailed without the return after it.                       *)
EmitDoneContinues(r) ==
    /\ pc[r] \in {"done", "failing", "panicked"}
    /\ \/ /\ Emit(r, Terminal)
          /\ terminal' = [terminal EXCEPT ![r] =
                             IF pc[r] = "done" THEN "done" ELSE "failed"]
       \/ EmitFails(r)
    /\ Goto(r, IF pc[r] = "failing" THEN "done" ELSE "close")
    /\ UNCHANGED <<slots, client, channel, outcome>>

(* The terminal event of a success, or emitFailed: after either the        *)
(* pipeline returns.                                                       *)
EmitDone(r) ==
    /\ pc[r] \in {"done", "failing", "panicked"}
    /\ \/ /\ Emit(r, Terminal)
          /\ terminal' = [terminal EXCEPT ![r] =
                             IF pc[r] = "done" THEN "done" ELSE "failed"]
       \/ EmitFails(r)
    /\ Goto(r, "close")
    /\ UNCHANGED <<slots, client, channel, outcome>>

Pipeline(r) ==
    \/ Announce(r, "loading", Loading, "parsing")
    \/ Announce(r, "parsing", Parsing, "runParse")
    \/ Warn(r, "parseWarnings", ParseWarnings, "building")
    \/ Announce(r, "building", Building, "runBuild")
    \/ PartialChunk(r)
    \/ Announce(r, "reachability", Reachability, "resolve")
    \/ Compute(r, "resolve", "entryWarnings")
    \/ Warn(r, "entryWarnings", EntryWarnings, "mark")
    \/ Compute(r, "mark", "exporting")
    \/ Announce(r, "exporting", Exporting, "writeGraph")
    \/ Compute(r, "writeGraph", "writeDeadCode")
    \/ Compute(r, "writeDeadCode", "done")
    \/ EmitDone(r)

Handler(r) ==
    \/ OpenStream(r) \/ CloseStream(r) \/ Release(r)
    \/ StartStage(r) \/ NextTick(r) \/ SendTick(r)
    \/ StageReturns(r) \/ StagePanics(r) \/ Await(r)
    \/ Pipeline(r)

Forwarder(r) == Receive(r) \/ Forward(r) \/ ForwarderExits(r)

(* Every request has been served: nothing is left to do.                   *)
Served ==
    /\ \A r \in Requests : pc[r] = "finished" /\ forwarder[r] = "none"
    /\ UNCHANGED vars

Next ==
    \/ \E r \in Requests :
           \/ \E p \in ProjectIDs : Reserve(r, p)
           \/ Handler(r)
           \/ Forwarder(r)
           \/ Stall(r) \/ ReadOn(r) \/ Disconnect(r)
    \/ Served

(* Goroutines that can run do run, and the stages end: packages.Load under *)
(* the deadline of runParse, the rest because it only computes.  A write   *)
(* is enabled while the client reads, which it may do now and then; each   *)
(* time some of the frame goes, so that fairness is strong.  All other     *)
(* steps stay enabled until they are taken.  Nothing is assumed of the     *)
(* clients: they need not arrive, stay, leave or read.                     *)
Fairness ==
    \A r \in Requests : SF_vars(Handler(r)) /\ SF_vars(Forwarder(r))

Spec == Init /\ [][Next]_vars

FairSpec == Spec /\ Fairness
----------------------------------------------------------------------------
(* Properties.                                                             *)

(* Two analyses of one project never overlap, from the reservation to the  *)
(* end of the stream (ADR-10): the artefacts they write do not mix.        *)
SingleFlight ==
    \A q, r \in Requests :
        Running(q) /\ Running(r) /\ target[q] = target[r] => q = r

(* While nothing has panicked the phases reach the wire in their order,    *)
(* although two goroutines emit them: no parsing progress after            *)
(* building_graph, no progress after done.                                 *)
PhasesInOrder ==
    [][\A r \in Requests :
          outcome'[r] # "panic" => position[r] <= position'[r]]_vars

(* A client that stays learns how the analysis ended: the stream is never  *)
(* closed without a done event, unless it could not be opened at all.      *)
EndIsAnnounced ==
    \A r \in Requests :
        pc[r] = "finished" /\ seq[r] > 0 /\ ~gone[r] => terminal[r] # "none"

(* SSEStreamer "is not safe for concurrent use; callers (the orchestrator) *)
(* drive it from a single goroutine" (sse.go): the handler and the         *)
(* forwarder are never in Emit together.  It fails when a stage panics.    *)
SingleDriver ==
    \A r \in Requests : ~(pc[r] \in Emitting /\ forwarder[r] = "emitting")

(* The same as long as no stage has panicked.                              *)
SingleDriverUnlessPanic ==
    \A r \in Requests :
        outcome[r] # "panic" => ~(pc[r] \in Emitting /\ forwarder[r] = "emitting")

(* Every analysis gives its slot back, whatever its stages do, provided    *)
(* that its client does not stay for ever without reading: it may leave,   *)
(* or stall again and again.  In particular the stage never blocks for     *)
(* ever on a progress channel nobody drains.                               *)
SlotReleased ==
    \A r \in Requests :
        []<>~stalled[r] => ((pc[r] = "open") ~> (pc[r] = "finished"))

(* docs/architecture.md:66: the orchestrator gives each analysis a context *)
(* with a deadline, so that it ends whatever its client does.  The         *)
(* deadline is that of the parse; a write has none.                        *)
EveryAnalysisEnds ==
    \A r \in Requests : (pc[r] = "open") ~> (pc[r] = "finished")

(* The stream the clients see is the AnalysisStream.                       *)
StatusOf(r) ==
    IF pc[r] = "idle" THEN "none"
    ELSE IF terminal[r] # "none" THEN terminal[r]
    ELSE IF pc[r] \in {"close", "release", "finished"} THEN "cut"
    ELSE "open"

Stream == INSTANCE AnalysisStream WITH
    LastPhase <- Exporting,
    status <- [r \in Requests |-> StatusOf(r)],
    position <- [r \in Requests |->
                    IF StatusOf(r) = "open" THEN position[r] ELSE 0],
    crashed <- [r \in Requests |-> outcome[r] = "panic"]

ImplementsStream == Stream!Spec
=============================================================================
