------------------------- MODULE OrchestratorProofs -------------------------
(***************************************************************************)
(* Theorems about Orchestrator for every set of requests and projects,     *)
(* every channel capacity and every number of progress values and chunks.  *)
(***************************************************************************)
EXTENDS Orchestrator, TLAPS

LEMMA TypeInit == Init => TypeOK
  BY OrchestratorAssumption
     DEF Init, TypeOK, Steps, OrchestratorAssumption, Parsing, Building, Terminal

(* An emit of the pipeline keeps the types.                                *)
LEMMA AnnounceType ==
    ASSUME TypeOK, NEW r \in Requests, NEW at, NEW k \in 1..Exporting, 
           NEW then \in Steps \ {"partial"}, Warn(r, at, k, then)
    PROVE  TypeOK'
<1> USE DEF TypeOK, Goto, Count, slots, client, channel, stream, Exporting, Terminal
<1> "close" \in Steps
  BY DEF Steps, Emitting
<1>1. CASE Announce(r, at, k, then)
  BY <1>1 DEF Announce, Emit, EmitFails
<1>2. CASE pc' = [pc EXCEPT ![r] = then] /\ UNCHANGED <<slots, client, channel, outcome, stream>>
  BY <1>2
<1> QED
  BY <1>1, <1>2 DEF Warn

(* A stage that computes keeps the types.                                  *)
LEMMA ComputeType ==
    ASSUME TypeOK, NEW r \in Requests, NEW at, NEW then \in Steps \ {"partial"},
           Compute(r, at, then)
    PROVE  TypeOK'
  BY DEF Compute, TypeOK, Goto, Steps, Emitting, slots, client, channel, stream

LEMMA TypeNext == TypeOK /\ [Next]_vars => TypeOK'
<1> SUFFICES ASSUME TypeOK, [Next]_vars
             PROVE  TypeOK'
  OBVIOUS
<1> USE OrchestratorAssumption DEF OrchestratorAssumption
<1>1. ASSUME NEW r \in Requests, NEW p \in ProjectIDs, Reserve(r, p)
      PROVE  TypeOK'
  BY <1>1 DEF Reserve, TypeOK, Goto, Steps, client, channel, stream
<1>2. ASSUME NEW r \in Requests, Handler(r)
      PROVE  TypeOK'
  <2>1. ASSUME ~Pipeline(r)
        PROVE  TypeOK'
    <3> USE DEF TypeOK, Goto, Steps, Emitting, Staging, slots, client, channel, stream
    <3>1. CASE OpenStream(r)
      BY <3>1 DEF OpenStream
    <3>2. CASE Release(r)
      BY <3>2 DEF Release
    <3>3. CASE StartStage(r)
      BY <3>3 DEF StartStage
    <3>4. CASE NextTick(r)
      BY <3>4 DEF NextTick
    <3>5. CASE SendTick(r)
      BY <3>5 DEF SendTick
    <3>6. CASE StageReturns(r)
      BY <3>6 DEF StageReturns
    <3>7. CASE StagePanics(r)
      BY <3>7 DEF StagePanics
    <3>8. CASE Await(r)
      BY <3>8 DEF Await
    <3>9. CASE CloseStream(r)
      BY <3>9 DEF CloseStream
    <3> HIDE DEF TypeOK
    <3> QED
      BY <1>2, <2>1, <3>1, <3>2, <3>3, <3>4, <3>5, <3>6, <3>7, <3>8, <3>9 DEF Handler
  <2>2. CASE PartialChunk(r) \/ EmitDone(r)
    <3> USE DEF TypeOK, Goto, Steps, Emitting, slots, client, stream, channel, Emit, EmitFails, Count,
                Partial, Terminal
    <3>1. CASE PartialChunk(r)
      BY <2>2, <3>1 DEF PartialChunk
    <3>2. CASE EmitDone(r)
      BY <2>2, <3>2 DEF EmitDone
    <3> QED
      BY <2>2, <3>1, <3>2
  <2>3. CASE \/ \E at : \E k \in 1..Exporting : \E then \in Steps \ {"partial"} :
                    Warn(r, at, k, then)
             \/ \E at : \E then \in Steps \ {"partial"} : Compute(r, at, then)
    BY <2>3, AnnounceType, ComputeType
  <2> QED
    <3>1. {"parsing", "runParse", "building", "runBuild", "resolve", "mark", "writeGraph",
           "entryWarnings", "exporting", "writeDeadCode", "done"} \subseteq Steps \ {"partial"}
      BY DEF Steps, Emitting, Computing
    <3>2. {Loading, Parsing, ParseWarnings, Building, Reachability, EntryWarnings, Exporting}
             \subseteq 1..Exporting
      BY DEF Loading, Parsing, ParseWarnings, Building, Reachability, EntryWarnings, Exporting
    <3>3. ASSUME Pipeline(r), ~PartialChunk(r), ~EmitDone(r)
          PROVE  \/ \E at : \E k \in 1..Exporting : \E then \in Steps \ {"partial"} :
                        Warn(r, at, k, then)
                 \/ \E at : \E then \in Steps \ {"partial"} : Compute(r, at, then)
      BY ONLY <3>1, <3>2, <3>3 DEF Pipeline, Warn
    <3> QED
      BY <2>1, <2>2, <2>3, <3>3
<1>3. ASSUME NEW r \in Requests, Forwarder(r)
      PROVE  TypeOK'
  <2> USE DEF TypeOK, slots, client, stream, Parsing, Building, Terminal
  <2>1. CASE Receive(r)
    BY <2>1 DEF Receive
  <2>2. CASE Forward(r)
    BY <2>2 DEF Forward, Emit, EmitFails, Count
  <2>3. CASE ForwarderExits(r)
    BY <2>3 DEF ForwarderExits
  <2> QED
    BY <1>3, <2>1, <2>2, <2>3 DEF Forwarder
<1>4. ASSUME NEW r \in Requests, Stall(r) \/ ReadOn(r) \/ Disconnect(r)
      PROVE  TypeOK'
  BY <1>4 DEF Stall, ReadOn, Disconnect, TypeOK, slots, client, channel, stream
<1>5. CASE Served \/ UNCHANGED vars
  BY <1>5 DEF Served, vars, TypeOK, slots, client, channel, stream
<1> QED
  BY <1>1, <1>2, <1>3, <1>4, <1>5 DEF Next

(* The variables always hold values of their types; in particular a        *)
(* progress channel never holds more than its buffer.                      *)
THEOREM TypeCorrect == Spec => []TypeOK
  BY TypeInit, TypeNext, PTL DEF Spec
----------------------------------------------------------------------------
(* The slots: a request that runs holds the slot of its project.           *)
SlotInv ==
    \A r \in Requests :
        Running(r) => target[r] \in ProjectIDs /\ slot[target[r]] = r

LEMMA SlotNext == TypeOK /\ SlotInv /\ [Next]_vars => SlotInv'
<1> SUFFICES ASSUME TypeOK, SlotInv, [Next]_vars
             PROVE  SlotInv'
  OBVIOUS
<1> USE OrchestratorAssumption DEF OrchestratorAssumption, TypeOK, SlotInv, Running, Goto
<1>1. ASSUME NEW r \in Requests, NEW p \in ProjectIDs, Reserve(r, p)
      PROVE  SlotInv'
  BY <1>1 DEF Reserve
<1>2. ASSUME NEW r \in Requests, Release(r)
      PROVE  SlotInv'
  BY <1>2 DEF Release
<1>3. ASSUME NEW r \in Requests, UNCHANGED slots,
             pc[r] \notin {"idle", "finished"},
             \A q \in Requests : q # r => pc'[q] = pc[q]
      PROVE  SlotInv'
  BY <1>3 DEF slots
<1>4. ASSUME NEW r \in Requests, Handler(r), ~Release(r)
      PROVE  SlotInv'
  <2>1. UNCHANGED slots /\ pc[r] \notin {"idle", "finished"}
    BY <1>4 DEF Handler, Pipeline, OpenStream, CloseStream, StartStage, NextTick, SendTick, StageReturns,
                StagePanics, Await, PartialChunk, EmitDone, Announce, Warn, Compute
  <2>2. \E step : pc' = [pc EXCEPT ![r] = step]
    BY <1>4 DEF Handler, Pipeline, OpenStream, CloseStream, StartStage, NextTick, SendTick, StageReturns,
                StagePanics, Await, PartialChunk, EmitDone, Announce, Warn, Compute
  <2> QED
    BY <1>3, <2>1, <2>2
<1>5. ASSUME NEW r \in Requests, Forwarder(r) \/ Stall(r) \/ ReadOn(r) \/ Disconnect(r)
      PROVE  SlotInv'
  BY <1>5 DEF Forwarder, Receive, Forward, ForwarderExits, Stall, ReadOn, Disconnect, slots
<1>6. CASE Served \/ UNCHANGED vars
  BY <1>6 DEF Served, vars, slots
<1> QED
  BY <1>1, <1>2, <1>4, <1>5, <1>6 DEF Next

LEMMA SlotCorrect == Spec => []SlotInv
<1>1. Init => SlotInv
  BY DEF Init, SlotInv, Running
<1> QED
  BY <1>1, TypeCorrect, SlotNext, PTL DEF Spec

(* Two analyses of one project never overlap.                              *)
THEOREM SingleFlightAlways == Spec => []SingleFlight
<1>1. SlotInv => SingleFlight
  BY DEF SlotInv, SingleFlight
<1> QED
  BY <1>1, SlotCorrect, PTL
----------------------------------------------------------------------------
(* What a goroutine can have put on the wire when it is at a step, and     *)
(* when it shares the stream with the forwarder.                           *)
Reached(step) ==
    CASE step \in {"idle", "open", "loading"} -> 0
      [] step = "parsing" -> Loading
      [] step \in {"runParse", "parseWarnings"} -> Parsing
      [] step = "building" -> ParseWarnings
      [] step = "runBuild" -> Building
      [] step \in {"partial", "reachability"} -> Partial
      [] step \in {"resolve", "entryWarnings"} -> Reachability
      [] step \in {"mark", "exporting"} -> EntryWarnings
      [] step \in {"close", "release", "finished"} -> Terminal
      [] OTHER -> Exporting

ReachedInv ==
    \A r \in Requests :
        /\ position[r] <= IF pc[r] \in Staging THEN stage[r] ELSE Reached(pc[r])
        /\ pc[r] \in {"writeGraph", "writeDeadCode", "done"} => position[r] = Exporting
        /\ pc[r] = "panicked" /\ forwarder[r] # "none" => position[r] <= stage[r]

ForwarderInv ==
    \A r \in Requests :
        /\ outcome[r] = "panic" => pc[r] \in {"panicked", "close", "release", "finished"}
        /\ forwarder[r] # "none" => pc[r] \in Staging \/ outcome[r] = "panic"

EndInv ==
    \A r \in Requests :
        /\ terminal[r] # "none" => pc[r] \in {"close", "release", "finished"}
        /\ pc[r] \in {"idle", "open", "loading"} => seq[r] = 0
        /\ pc[r] \in {"close", "release", "finished"} =>
              \/ terminal[r] # "none"
              \/ gone[r]
              \/ seq[r] = 0 /\ forwarder[r] = "none"

WireInv == ReachedInv /\ ForwarderInv /\ EndInv

LEMMA WireInit == Init => WireInv
  BY DEF Init, WireInv, ReachedInv, ForwarderInv, EndInv, Reached, Staging, Parsing

LEMMA WireNext == TypeOK /\ WireInv /\ [Next]_vars => WireInv'
<1> SUFFICES ASSUME TypeOK, WireInv, [Next]_vars
             PROVE  WireInv'
  OBVIOUS
<1> USE OrchestratorAssumption
    DEF OrchestratorAssumption, TypeOK, WireInv, ReachedInv, ForwarderInv, EndInv, Reached, Staging,
        Goto, Count, Emit, EmitFails, Loading, Parsing, ParseWarnings, Building, Partial,
        Reachability, EntryWarnings, Exporting, Terminal, slots, client, channel, stream
<1>1. ASSUME NEW r \in Requests, NEW p \in ProjectIDs, Reserve(r, p)
      PROVE  WireInv'
  BY <1>1 DEF Reserve
<1>2. ASSUME NEW r \in Requests, OpenStream(r)
      PROVE  WireInv'
  BY <1>2 DEF OpenStream
<1>3. ASSUME NEW r \in Requests, Release(r)
      PROVE  WireInv'
  BY <1>3 DEF Release
<1>4. ASSUME NEW r \in Requests, StartStage(r)
      PROVE  WireInv'
  BY <1>4 DEF StartStage
<1>5. ASSUME NEW r \in Requests, NextTick(r)
      PROVE  WireInv'
  BY <1>5 DEF NextTick
<1>6. ASSUME NEW r \in Requests, SendTick(r)
      PROVE  WireInv'
  BY <1>6 DEF SendTick
<1>7. ASSUME NEW r \in Requests, StageReturns(r)
      PROVE  WireInv'
  BY <1>7 DEF StageReturns
<1>8. ASSUME NEW r \in Requests, StagePanics(r)
      PROVE  WireInv'
  BY <1>8 DEF StagePanics
<1>9. ASSUME NEW r \in Requests, Await(r)
      PROVE  WireInv'
  BY <1>9 DEF Await
<1>10. ASSUME NEW r \in Requests, Announce(r, "loading", Loading, "parsing")
      PROVE  WireInv'
  BY <1>10 DEF Announce
<1>11. ASSUME NEW r \in Requests, Announce(r, "parsing", Parsing, "runParse")
      PROVE  WireInv'
  BY <1>11 DEF Announce
<1>12. ASSUME NEW r \in Requests, Announce(r, "building", Building, "runBuild")
      PROVE  WireInv'
  BY <1>12 DEF Announce
<1>13. ASSUME NEW r \in Requests, Announce(r, "reachability", Reachability, "resolve")
      PROVE  WireInv'
  BY <1>13 DEF Announce
<1>14. ASSUME NEW r \in Requests, Announce(r, "exporting", Exporting, "writeGraph")
      PROVE  WireInv'
  BY <1>14 DEF Announce
<1>15. ASSUME NEW r \in Requests, Warn(r, "parseWarnings", ParseWarnings, "building")
      PROVE  WireInv'
  BY <1>15, SMTT(30) DEF Warn, Announce
<1>16. ASSUME NEW r \in Requests, Warn(r, "entryWarnings", EntryWarnings, "mark")
      PROVE  WireInv'
  BY <1>16 DEF Warn, Announce
<1>17. ASSUME NEW r \in Requests, Compute(r, "resolve", "entryWarnings")
      PROVE  WireInv'
  BY <1>17 DEF Compute
<1>18. ASSUME NEW r \in Requests, Compute(r, "mark", "exporting")
      PROVE  WireInv'
  BY <1>18 DEF Compute
<1>19. ASSUME NEW r \in Requests, Compute(r, "writeGraph", "writeDeadCode")
      PROVE  WireInv'
  BY <1>19 DEF Compute
<1>20. ASSUME NEW r \in Requests, Compute(r, "writeDeadCode", "done")
      PROVE  WireInv'
  BY <1>20 DEF Compute
<1>21. ASSUME NEW r \in Requests, PartialChunk(r)
      PROVE  WireInv'
  BY <1>21, SMTT(30) DEF PartialChunk
<1>22. ASSUME NEW r \in Requests, EmitDone(r)
      PROVE  WireInv'
  BY <1>22 DEF EmitDone
<1>23. ASSUME NEW r \in Requests, Receive(r)
      PROVE  WireInv'
  BY <1>23 DEF Receive
<1>24. ASSUME NEW r \in Requests, Forward(r)
      PROVE  WireInv'
  BY <1>24 DEF Forward
<1>25. ASSUME NEW r \in Requests, ForwarderExits(r)
      PROVE  WireInv'
  BY <1>25 DEF ForwarderExits
<1>26. ASSUME NEW r \in Requests, Stall(r) \/ ReadOn(r) \/ Disconnect(r)
      PROVE  WireInv'
  BY <1>26 DEF Stall, ReadOn, Disconnect
<1>27. CASE Served \/ UNCHANGED vars
  BY <1>27 DEF Served, vars
<1>28. ASSUME NEW r \in Requests, CloseStream(r)
      PROVE  WireInv'
  BY <1>28 DEF CloseStream
<1> QED
  BY <1>1, <1>2, <1>3, <1>4, <1>5, <1>6, <1>7, <1>8, <1>9, <1>10, <1>11, <1>12, <1>13,
      <1>14, <1>15, <1>16, <1>17, <1>18, <1>19, <1>20, <1>21, <1>22, <1>23, <1>24, <1>25, <1>26, <1>27, <1>28
     DEF Next, Handler, Pipeline, Forwarder

LEMMA WireCorrect == Spec => []WireInv
  BY TypeCorrect, WireInit, WireNext, PTL DEF Spec
(* While no stage has panicked, the handler and the forwarder are never in *)
(* Emit together.                                                          *)
THEOREM SingleDriverAlways == Spec => []SingleDriverUnlessPanic
<1>1. WireInv => SingleDriverUnlessPanic
  BY DEF WireInv, ForwarderInv, SingleDriverUnlessPanic, Staging, Emitting
<1> QED
  BY <1>1, WireCorrect, PTL

(* A client that stays is told how its analysis ended.                     *)
THEOREM EndIsAnnouncedAlways == Spec => []EndIsAnnounced
<1>1. WireInv => EndIsAnnounced
  BY DEF WireInv, EndInv, EndIsAnnounced
<1> QED
  BY <1>1, WireCorrect, PTL

(* The phases reach the wire in their order.                               *)
LEMMA OrderNext ==
    TypeOK /\ WireInv /\ [Next]_vars =>
        [\A r \in Requests : outcome'[r] # "panic" => position[r] <= position'[r]]_vars
<1> SUFFICES ASSUME TypeOK, WireInv, Next, NEW q \in Requests, outcome'[q] # "panic"
             PROVE  position[q] <= position'[q]
  BY DEF vars
<1> USE DEF TypeOK, stream, Terminal
<1>1. ASSUME NEW r \in Requests, Handler(r), ~Pipeline(r)
      PROVE  position' = position
  BY <1>1 DEF Handler, OpenStream, CloseStream, Release, StartStage, NextTick, SendTick,
              StageReturns, StagePanics, Await
<1>2. ASSUME NEW r \in Requests, Pipeline(r)
      PROVE  position[q] <= position'[q]
  <2> USE DEF WireInv, ReachedInv, Reached, Staging, Emit, EmitFails, Announce, Warn,
              Loading, Parsing, ParseWarnings, Building, Partial, Reachability, EntryWarnings,
              Exporting
  <2>1. CASE \/ Announce(r, "loading", Loading, "parsing")
             \/ Announce(r, "parsing", Parsing, "runParse")
             \/ Announce(r, "building", Building, "runBuild")
    BY <2>1
  <2>2. CASE \/ Announce(r, "reachability", Reachability, "resolve")
             \/ Announce(r, "exporting", Exporting, "writeGraph")
    BY <2>2
  <2>3. CASE \/ Warn(r, "parseWarnings", ParseWarnings, "building")
             \/ Warn(r, "entryWarnings", EntryWarnings, "mark")
    BY <2>3
  <2>4. CASE PartialChunk(r) \/ EmitDone(r)
    BY <2>4 DEF PartialChunk, EmitDone
  <2>5. ASSUME NEW at, NEW then, Compute(r, at, then)
        PROVE  position' = position
    BY <2>5 DEF Compute
  <2> HIDE DEF Announce, Warn
  <2> QED
    BY <1>2, <2>1, <2>2, <2>3, <2>4, <2>5 DEF Pipeline
<1>3. ASSUME NEW r \in Requests, Forward(r)
      PROVE  position[q] <= position'[q]
  BY <1>3 DEF WireInv, ReachedInv, ForwarderInv, Forward, Emit, EmitFails
<1>4. ASSUME NEW r \in Requests, \/ Receive(r) \/ ForwarderExits(r)
                                \/ Stall(r) \/ ReadOn(r) \/ Disconnect(r)
      PROVE  position' = position
  BY <1>4 DEF Receive, ForwarderExits, Stall, ReadOn, Disconnect
<1>5. ASSUME NEW r \in Requests, NEW p \in ProjectIDs, Reserve(r, p)
      PROVE  position' = position
  BY <1>5 DEF Reserve
<1>6. CASE Served
  BY <1>6 DEF Served, vars
<1> QED
  BY <1>1, <1>2, <1>3, <1>4, <1>5, <1>6 DEF Next, Forwarder

THEOREM PhasesInOrderAlways == Spec => PhasesInOrder
  BY TypeCorrect, WireCorrect, OrderNext, PTL DEF Spec, PhasesInOrder
----------------------------------------------------------------------------
(* Refinement.                                                             *)
mapped == <<[r \in Requests |-> StatusOf(r)], target,
            [r \in Requests |-> IF StatusOf(r) = "open" THEN position[r] ELSE 0],
            seq, gone, [r \in Requests |-> outcome[r] = "panic"]>>

LEMMA StreamInit == Init => Stream!Init
  BY ZenonT(60) DEF Init, Stream!Init, StatusOf

LEMMA StreamNext ==
    TypeOK /\ SlotInv /\ WireInv /\ [Next]_vars => Stream!Next \/ UNCHANGED mapped
<1> SUFFICES ASSUME TypeOK, SlotInv, WireInv, [Next]_vars
             PROVE  Stream!Next \/ UNCHANGED mapped
  OBVIOUS
<1> USE OrchestratorAssumption
    DEF OrchestratorAssumption, TypeOK, StatusOf, Goto, slots, client, channel, stream
<1> DEFINE St == [q \in Requests |-> StatusOf(q)]
           Pos == [q \in Requests |-> IF StatusOf(q) = "open" THEN position[q] ELSE 0]
<1>1. ASSUME NEW r \in Requests, NEW p \in ProjectIDs, Reserve(r, p)
      PROVE  Stream!Open(r, p)
  <2>1. terminal[r] = "none" /\ \A q \in Requests : StatusOf(q) = "open" => target[q] # p
    BY <1>1 DEF Reserve, SlotInv, Running, WireInv, EndInv
  <2>2. position[r] = 0
    BY <1>1 DEF Reserve, WireInv, ReachedInv, Reached, Staging, Terminal
  <2>3. St' = [St EXCEPT ![r] = "open"] /\ Pos' = Pos
    BY <1>1, <2>1, <2>2 DEF Reserve
  <2>4. St[r] = "none" /\ \A q \in Requests : St[q] = "open" => target[q] # p
    BY <1>1, <2>1 DEF Reserve
  <2> HIDE DEF StatusOf
  <2> QED
    BY <1>1, <2>3, <2>4 DEF Reserve, Stream!Open
(* An emit of the handler that reaches the wire.                           *)
<1>2. ASSUME NEW r \in Requests, NEW k \in 1..Exporting, NEW step,
             Emit(r, k), pc' = [pc EXCEPT ![r] = step],
             UNCHANGED <<target, gone, outcome, terminal>>, position[r] <= k,
             StatusOf(r) = "open", step \notin {"idle", "close", "release", "finished"}
      PROVE  Stream!Event(r)
  <2>1. St' = St /\ Pos' = [Pos EXCEPT ![r] = k] /\ Pos[r] = position[r]
    BY <1>2, ZenonT(60) DEF Emit
  <2>2. k \in Pos[r]..Exporting
    BY <1>2, <2>1 DEF Exporting, Terminal
  <2> QED
    BY <1>2, <2>1, <2>2 DEF Emit, Count, Stream!Event
(* An emit of the pipeline that fails.                                     *)
<1>3. ASSUME NEW r \in Requests, EmitFails(r), pc' = [pc EXCEPT ![r] = "close"],
             UNCHANGED <<target, outcome, gone>>, StatusOf(r) = "open"
      PROVE  Stream!Cut(r)
  BY <1>3, ZenonT(60) DEF EmitFails, Count, Stream!Cut
(* A step the clients do not see.                                          *)
<1>4. ASSUME NEW r \in Requests, NEW step, pc' = [pc EXCEPT ![r] = step],
             UNCHANGED <<target, gone, seq, position, terminal>>,
             \A q \in Requests : outcome'[q] = "panic" <=> outcome[q] = "panic",
             StatusOf(r) = "open" /\ step \notin {"idle", "close", "release", "finished"}
      PROVE  UNCHANGED mapped
  BY <1>4 DEF mapped
(* A panic.                                                                *)
<1>5. ASSUME NEW r \in Requests, pc' = [pc EXCEPT ![r] = "panicked"],
             UNCHANGED <<target, gone, seq, position, terminal>>,
             outcome' = [outcome EXCEPT ![r] = "panic"], StatusOf(r) = "open"
      PROVE  Stream!Crash(r)
  BY <1>5, ZenonT(60) DEF Stream!Crash
<1>6. ASSUME NEW r \in Requests, pc[r] \notin {"idle", "close", "release", "finished"}
      PROVE  StatusOf(r) = "open"
  BY <1>6 DEF WireInv, EndInv
<1>7. ASSUME NEW r \in Requests, Handler(r), ~Pipeline(r)
      PROVE  Stream!Next \/ UNCHANGED mapped
  <2>1. CASE OpenStream(r)
    <3>1. CASE pc' = [pc EXCEPT ![r] = "loading"]
      BY <1>4, <1>6, <2>1, <3>1 DEF OpenStream
    <3>2. CASE pc' = [pc EXCEPT ![r] = "release"]
      <4>1. seq[r] = 0 /\ StatusOf(r) = "open"
        BY <1>6, <2>1 DEF OpenStream, WireInv, EndInv
      <4>2. Stream!Cut(r)
        BY <2>1, <3>2, <4>1 DEF OpenStream, Stream!Cut
      <4> QED
        BY <4>2 DEF Stream!Next
    <3> QED
      BY <2>1, <3>1, <3>2 DEF OpenStream
  <2>2. CASE CloseStream(r) \/ Release(r)
    BY <2>2 DEF CloseStream, Release, mapped
  <2>3. CASE StartStage(r)
    BY <1>4, <1>6, <2>3 DEF StartStage
  <2>4. CASE NextTick(r) \/ SendTick(r)
    BY <1>4, <1>6, <2>4 DEF NextTick, SendTick
  <2>5. CASE StageReturns(r)
    <3>1. \A q \in Requests : outcome'[q] = "panic" <=> outcome[q] = "panic"
      BY <2>5 DEF StageReturns, WireInv, ForwarderInv
    <3> QED
      BY <1>4, <1>6, <2>5, <3>1 DEF StageReturns
  <2>6. CASE StagePanics(r)
    BY <1>5, <1>6, <2>6 DEF StagePanics, Stream!Next
  <2>7. CASE Await(r)
    BY <1>4, <1>6, <2>7 DEF Await
  <2> QED
    BY <1>7, <2>1, <2>2, <2>3, <2>4, <2>5, <2>6, <2>7 DEF Handler
<1>8. ASSUME NEW r \in Requests, Pipeline(r)
      PROVE  Stream!Next \/ UNCHANGED mapped
  <2> DEFINE Positions == {Loading, Parsing, ParseWarnings, Building, Reachability,
                           EntryWarnings, Exporting}
  <2>1. ASSUME NEW at, NEW k \in Positions, NEW then,
               Warn(r, at, k, then), at \notin {"idle", "close", "release", "finished"},
               position[r] <= k, then \notin {"idle", "close", "release", "finished"}
        PROVE  Stream!Next \/ UNCHANGED mapped
    <3>1. StatusOf(r) = "open" /\ k \in 1..Exporting
      BY <1>6, <2>1 DEF Warn, Announce, Loading, Parsing, ParseWarnings, Building, Reachability,
                        EntryWarnings, Exporting
    <3>2. CASE Emit(r, k) /\ pc' = [pc EXCEPT ![r] = then] /\ UNCHANGED terminal
      BY <1>2, <2>1, <3>1, <3>2 DEF Warn, Announce, Stream!Next
    <3>3. CASE EmitFails(r) /\ pc' = [pc EXCEPT ![r] = "close"]
      BY <1>3, <2>1, <3>1, <3>3 DEF Warn, Announce, Stream!Next
    <3>4. CASE pc' = [pc EXCEPT ![r] = then]
               /\ UNCHANGED <<slots, client, channel, outcome, stream>>
      BY <1>4, <2>1, <3>1, <3>4
    <3> QED
      BY <2>1, <3>2, <3>3, <3>4 DEF Warn, Announce
  <2>2. ASSUME NEW at \in Computing, NEW then, Compute(r, at, then),
               then \notin {"idle", "close", "release", "finished"}
        PROVE  Stream!Next \/ UNCHANGED mapped
    <3>1. StatusOf(r) = "open" /\ outcome[r] # "panic"
      BY <1>6, <2>2 DEF Compute, Computing, WireInv, ForwarderInv
    <3>2. CASE outcome'[r] = "panic"
      BY <1>5, <2>2, <3>1, <3>2 DEF Compute, Stream!Next
    <3>3. CASE outcome'[r] # "panic"
      BY <1>4, <2>2, <3>1, <3>3 DEF Compute
    <3> QED
      BY <3>2, <3>3
  <2>3. CASE PartialChunk(r)
    <3>1. StatusOf(r) = "open" /\ position[r] <= Partial /\ Partial \in 1..Exporting
      BY <1>6, <2>3 DEF PartialChunk, WireInv, ReachedInv, Reached, Staging, Partial, Exporting
    <3>2. CASE /\ Emit(r, Partial) /\ UNCHANGED terminal
               /\ Goto(r, IF left[r] = 1 THEN "reachability" ELSE "partial")
      BY <1>2, <2>3, <3>1, <3>2 DEF PartialChunk, Stream!Next
    <3>3. CASE EmitFails(r) /\ pc' = [pc EXCEPT ![r] = "close"]
      BY <1>3, <2>3, <3>1, <3>3 DEF PartialChunk, Stream!Next
    <3> QED
      BY <2>3, <3>2, <3>3 DEF PartialChunk
  <2>4. CASE EmitDone(r)
    <3>1. StatusOf(r) = "open"
      BY <1>6, <2>4 DEF EmitDone
    <3>2. CASE EmitFails(r)
      BY <1>3, <2>4, <3>1, <3>2 DEF EmitDone, Stream!Next
    <3>3. CASE /\ Emit(r, Terminal) /\ pc[r] = "done"
               /\ terminal' = [terminal EXCEPT ![r] = "done"]
      <4>1. position[r] = Exporting /\ outcome[r] # "panic"
        BY <3>3 DEF WireInv, ReachedInv, ForwarderInv
      <4>2. St' = [St EXCEPT ![r] = "done"] /\ Pos' = [Pos EXCEPT ![r] = 0]
        BY <2>4, <3>3 DEF EmitDone, Emit
      <4> HIDE DEF StatusOf
      <4>3. Stream!Finish(r)
        BY <4>2, <2>4, <3>1, <3>3, <4>1 DEF EmitDone, Emit, Count, Stream!Finish, Terminal
      <4> QED
        BY <4>3 DEF Stream!Next
    <3>4. CASE /\ Emit(r, Terminal) /\ pc[r] # "done"
               /\ terminal' = [terminal EXCEPT ![r] = "failed"]
      <4>1. St' = [St EXCEPT ![r] = "failed"] /\ Pos' = [Pos EXCEPT ![r] = 0]
        BY <2>4, <3>4 DEF EmitDone, Emit
      <4>2. Stream!Fail(r)
        BY <4>1, <2>4, <3>1, <3>4 DEF EmitDone, Emit, Count, Stream!Fail, Terminal
      <4> QED
        BY <4>2 DEF Stream!Next
    <3> QED
      BY <2>4, <3>2, <3>3, <3>4 DEF EmitDone
  <2>5. ASSUME ~PartialChunk(r), ~EmitDone(r)
        PROVE  Stream!Next \/ UNCHANGED mapped
    <3>1. /\ pc[r] = "loading" => position[r] <= Loading
          /\ pc[r] = "parsing" => position[r] <= Parsing
          /\ pc[r] = "parseWarnings" => position[r] <= ParseWarnings
          /\ pc[r] = "building" => position[r] <= Building
          /\ pc[r] = "reachability" => position[r] <= Reachability
          /\ pc[r] = "entryWarnings" => position[r] <= EntryWarnings
          /\ pc[r] = "exporting" => position[r] <= Exporting
      BY DEF WireInv, ReachedInv, Reached, Staging, Loading, Parsing, ParseWarnings, Building,
             Partial, Reachability, EntryWarnings, Exporting, Terminal
    <3> HIDE DEF TypeOK
    <3>2. CASE Announce(r, "loading", Loading, "parsing")
      BY <2>1, <3>1, <3>2 DEF Warn, Announce
    <3>3. CASE Announce(r, "parsing", Parsing, "runParse")
      BY <2>1, <3>1, <3>3 DEF Warn, Announce
    <3>4. CASE Warn(r, "parseWarnings", ParseWarnings, "building")
      BY <2>1, <3>1, <3>4 DEF Warn, Announce
    <3>5. CASE Announce(r, "building", Building, "runBuild")
      BY <2>1, <3>1, <3>5 DEF Warn, Announce
    <3>6. CASE Announce(r, "reachability", Reachability, "resolve")
      BY <2>1, <3>1, <3>6 DEF Warn, Announce
    <3>7. CASE Warn(r, "entryWarnings", EntryWarnings, "mark")
      BY <2>1, <3>1, <3>7 DEF Warn, Announce
    <3>9. CASE Announce(r, "exporting", Exporting, "writeGraph")
      BY <2>1, <3>1, <3>9 DEF Warn, Announce
    <3>8. CASE \/ Compute(r, "resolve", "entryWarnings") \/ Compute(r, "mark", "exporting")
               \/ Compute(r, "writeGraph", "writeDeadCode") \/ Compute(r, "writeDeadCode", "done")
      BY <2>2, <3>8 DEF Computing
    <3> QED
      BY <1>8, <2>5, <3>2, <3>3, <3>4, <3>5, <3>6, <3>7, <3>8, <3>9 DEF Pipeline
  <2> QED
    BY <2>3, <2>4, <2>5
<1>9. ASSUME NEW r \in Requests, Forward(r)
      PROVE  Stream!Next \/ UNCHANGED mapped
  <2> USE <1>9 DEF Forward, Emit, EmitFails, Count
  <2>1. St' = St
    OBVIOUS
  <2>2. CASE StatusOf(r) = "open"
    <3>1. \E k \in Pos[r]..Exporting : Pos' = [Pos EXCEPT ![r] = k]
      <4>1. position[r] <= stage[r]
        BY <2>2 DEF WireInv, ReachedInv, ForwarderInv
      <4>2. Pos[r] = position[r] /\ position'[r] \in position[r]..Exporting
        BY <2>2, <4>1 DEF Parsing, Building, Exporting, Terminal
      <4>3. position' = [position EXCEPT ![r] = position'[r]]
        OBVIOUS
      <4>4. Pos' = [Pos EXCEPT ![r] = position'[r]]
        BY <2>1, <2>2, <4>3
      <4> QED
        BY <4>2, <4>4
    <3>2. Stream!Event(r)
      BY <2>1, <2>2, <3>1 DEF Stream!Event
    <3> QED
      BY <3>2 DEF Stream!Next
  <2>3. CASE StatusOf(r) # "open"
    <3>1. outcome[r] = "panic"
      BY <2>3 DEF WireInv, ForwarderInv, EndInv, Staging
    <3>2. Pos' = Pos
      BY <2>3
    <3>3. Stream!Stray(r)
      BY <2>1, <3>1, <3>2 DEF Stream!Stray
    <3> QED
      BY <3>3 DEF Stream!Next
  <2> QED
    BY <2>2, <2>3
<1>10. ASSUME NEW r \in Requests, \/ Receive(r) \/ ForwarderExits(r)
                                 \/ Stall(r) \/ ReadOn(r)
       PROVE  UNCHANGED mapped
  BY <1>10 DEF Receive, ForwarderExits, Stall, ReadOn, mapped
<1>11. ASSUME NEW r \in Requests, Disconnect(r)
       PROVE  Stream!Leave(r)
  BY <1>11 DEF Disconnect, Stream!Leave
<1>12. CASE Served \/ UNCHANGED vars
  BY <1>12 DEF Served, vars, mapped
<1> QED
  BY <1>1, <1>7, <1>8, <1>9, <1>10, <1>11, <1>12 DEF Next, Forwarder, Stream!Next

(* The streams the clients see are those AnalysisStream promises.          *)
THEOREM OrchestratorImplementsStream == Spec => ImplementsStream
  BY TypeCorrect, SlotCorrect, WireCorrect, StreamInit, StreamNext, PTL
     DEF Spec, ImplementsStream, Stream!Spec, Stream!vars, mapped
=============================================================================
