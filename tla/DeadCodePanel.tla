---------------------------- MODULE DeadCodePanel ---------------------------
(***************************************************************************)
(* The dead-code panel of the main page beside the graph it reports on.    *)
(* The server writes graph.json and then dead-code.json; the tab fetches   *)
(* them in requests of their own, the report again whenever generated_at   *)
(* of the graph changes, which is the time of graph.json asked for after   *)
(* the graph was read.  An analysis counts the generations of a project's  *)
(* graph, and the n-th report is that of the n-th graph.  The stream of an *)
(* analysis is BrowserSession; here it brings a done event or nothing.     *)
(* The name of a declaration stands for the id of its node.                *)
(***************************************************************************)
EXTENDS Naturals, Sequences, FiniteSets, Absent

CONSTANTS
    Projects,
    Slots,          \* requests of a report under way at a time (a bound)
    MaxGen,         \* analyses of a project that write a graph (a bound)
    Nodes,          \* the nodes of a graph, in order
    Place           \* of a node: its package, file and line

(* What requests and the effects keep: generations, answers and stamps.    *)
Gens == Nat \cup {None}
Gets == [gen : Gens, stamp : Gens, whole : BOOLEAN]
Answers == [ok : BOOLEAN, gen : Gens]
Requests == [of : Projects, answer : Answers \cup {None}]
Stamps == Projects \X Nat

ASSUME PanelAssumption ==
    /\ MaxGen \in Nat
    /\ None \notin Projects \cup Slots \cup Nat \cup {"mine", "other"}
    /\ None \notin Gets \cup Answers \cup Requests \cup Stamps
    /\ \A i \in DOMAIN Nodes : Nodes[i] \in DOMAIN Place

VARIABLES
    graphGen,   \* generation of graph.json, 0 when there is none
    reportGen,  \* generation of dead-code.json
    analysis,   \* of a project: [by, wrote], by this tab ("mine") or another
    done,       \* a done event on its way to this tab, or None
    project,    \* the project of the main page, None when there is none
    graphData,  \* state of useGraphData: [status, gen, stamp, whole], where
                \* whole (history): its report was there when it was read
    get,        \* GET /graph under way: [gen, stamp, whole], or None
    lastStamp,  \* lastReadyAtRef
    report,     \* state of the panel: [status, of, gen]
    asks,       \* GET /dead-code under way: [of, answer], or None
    asked,      \* the one whose effect was not cleaned up, or None
    since,      \* generation of the report when that was sent (history)
    heard,      \* generation of the last done event heard (history)
    selected    \* [row, node] of the last click in the list, or None

server == <<graphGen, reportGen, analysis>>
page == <<graphData, get, lastStamp>>
panel == <<report, asks, asked, since>>
reportVars == <<server, done, project, page, panel, heard, selected>>

Idle == [by |-> None, wrote |-> FALSE]
NoGraph == [status |-> "idle", gen |-> None, stamp |-> None, whole |-> FALSE]
NoReport == [status |-> "idle", of |-> None, gen |-> None]

ReportInit ==
    /\ graphGen = [p \in Projects |-> 0]
    /\ reportGen = [p \in Projects |-> 0]
    /\ analysis = [p \in Projects |-> Idle]
    /\ done = None /\ project = None
    /\ graphData = NoGraph /\ get = None /\ lastStamp = None
    /\ report = NoReport /\ asks = [s \in Slots |-> None]
    /\ asked = None /\ since = 0 /\ heard = 0 /\ selected = None

----------------------------------------------------------------------------
(* Requests of the tab.                                                    *)

Free == {s \in Slots : asks[s] = None}

(* The effect of the panel: the request before this one is cancelled.      *)
Ask(p) ==
    \E s \in Free :
        /\ asks' = [asks EXCEPT ![s] = [of |-> p, answer |-> None]]
        /\ asked' = s
        /\ report' = [status |-> "loading", of |-> p, gen |-> None]
        /\ since' = reportGen[p]

(* The effect of useGraphData: the graph stays while it is fetched again.  *)
Fetch(p) ==
    /\ get' = [gen |-> None, stamp |-> None, whole |-> FALSE]
    /\ graphData' = [graphData EXCEPT !.status = "loading"]

(* An analysis of this tab whose stream is aborted goes on without it.     *)
Disown(p) ==
    IF p # None /\ analysis[p].by = "mine"
    THEN analysis' = [analysis EXCEPT ![p].by = "other"] ELSE UNCHANGED analysis

----------------------------------------------------------------------------
(* The main page.                                                          *)

(* navigate("main") with a project, whatever the page showed before.       *)
Open(p) ==
    /\ p # project
    /\ project' = p
    /\ Fetch(p) /\ Ask(p) /\ Disown(project)
    /\ done' = None /\ heard' = 0
    /\ UNCHANGED <<graphGen, reportGen, lastStamp, selected>>

(* "Main" in the top bar, while a project is shown: the page keeps its     *)
(* state and shows no panel.                                               *)
Close ==
    /\ project # None
    /\ project' = None
    /\ get' = None /\ report' = NoReport /\ asked' = None
    /\ Disown(project)
    /\ done' = None /\ heard' = 0
    /\ UNCHANGED <<graphGen, reportGen, graphData, lastStamp, asks, since, selected>>

(* Another page is shown and the state of this one dropped.                *)
LeavePage ==
    /\ project # None
    /\ project' = None
    /\ graphData' = NoGraph /\ get' = None /\ lastStamp' = None
    /\ report' = NoReport /\ asked' = None /\ selected' = None
    /\ Disown(project)
    /\ done' = None /\ heard' = 0
    /\ UNCHANGED <<graphGen, reportGen, asks, since>>

(* The button; a graph that is loading ends the re-analysis under way.     *)
Refresh ==
    /\ project # None
    /\ Fetch(project) /\ Disown(project)
    /\ done' = None
    /\ UNCHANGED <<graphGen, reportGen, project, lastStamp, panel, heard, selected>>

(* handleGraph reads graph.json, and asks for its time afterwards.         *)
ReadGraph ==
    /\ get # None /\ get.gen = None /\ graphGen[project] > 0
    /\ get' = [get EXCEPT !.gen = graphGen[project],
                          !.whole = graphGen[project] = reportGen[project]]
    /\ UNCHANGED <<server, done, project, graphData, lastStamp, panel, heard, selected>>

StatGraph ==
    /\ get # None /\ get.gen # None /\ get.stamp = None
    /\ get' = [get EXCEPT !.stamp = graphGen[project]]
    /\ UNCHANGED <<server, done, project, graphData, lastStamp, panel, heard, selected>>

(* Mutation: the report is fetched for the first graph only.               *)
ShowGraphOnce ==
    /\ get # None /\ get.stamp # None
    /\ get' = None
    /\ graphData' = [status |-> "ready", gen |-> get.gen, stamp |-> get.stamp,
                     whole |-> get.whole]
    /\ lastStamp' = <<project, get.stamp>>
    /\ IF lastStamp # None THEN UNCHANGED panel ELSE Ask(project)
    /\ UNCHANGED <<server, done, project, heard, selected>>

(* The effect of MainView bumps the key of the panel for a new stamp.      *)
ShowGraph ==
    /\ get # None /\ get.stamp # None
    /\ get' = None
    /\ graphData' = [status |-> "ready", gen |-> get.gen, stamp |-> get.stamp,
                     whole |-> get.whole]
    /\ lastStamp' = <<project, get.stamp>>
    /\ IF lastStamp = <<project, get.stamp>> THEN UNCHANGED panel ELSE Ask(project)
    /\ UNCHANGED <<server, done, project, heard, selected>>

(* 404 while there is no graph, or a broken connection.                    *)
GraphFailed ==
    /\ get # None
    /\ get' = None
    /\ graphData' = [graphData EXCEPT !.status = "error"]
    /\ UNCHANGED <<server, done, project, lastStamp, panel, heard, selected>>

(* onDone of useReanalyze: the graph is fetched again.                     *)
HearDone ==
    /\ done # None
    /\ done' = None /\ heard' = done
    /\ Fetch(project) /\ Disown(project)
    /\ UNCHANGED <<graphGen, reportGen, project, lastStamp, panel, selected>>

----------------------------------------------------------------------------
(* The panel.                                                              *)

(* handleDeadCode: the report as it is, generation 0 for 404 no_graph_yet; *)
(* or any other failure.                                                   *)
Answer(s) ==
    /\ asks[s] # None /\ asks[s].answer = None
    /\ \E ok \in BOOLEAN :
          asks' = [asks EXCEPT ![s].answer =
                      [ok |-> ok, gen |-> IF ok THEN reportGen[asks[s].of] ELSE None]]
    /\ UNCHANGED <<server, done, project, page, report, asked, since, heard, selected>>

Outcome(of, a) ==
    [status |-> IF ~a.ok THEN "error" ELSE IF a.gen = 0 THEN "no report" ELSE "ready",
     of |-> of, gen |-> a.gen]

Take(s) ==
    /\ asks[s] # None /\ asks[s].answer # None
    /\ asks' = [asks EXCEPT ![s] = None]
    /\ UNCHANGED <<server, done, project, page, since, heard, selected>>

(* Mutation: an answer is not asked whether it is still wanted.            *)
DeliverAny(s) ==
    /\ Take(s)
    /\ report' = Outcome(asks[s].of, asks[s].answer)
    /\ asked' = None

(* then and catch of the effect, unless it was cleaned up.                 *)
Deliver(s) ==
    /\ Take(s)
    /\ IF s = asked
       THEN report' = Outcome(asks[s].of, asks[s].answer) /\ asked' = None
       ELSE UNCHANGED <<report, asked>>

(* The button, which an error other than no_graph_yet has.                 *)
Retry ==
    /\ project # None /\ report.status = "error"
    /\ Ask(project)
    /\ UNCHANGED <<server, done, project, page, heard, selected>>

(* nodeIdByEntry: of the nodes at one place the map keeps the last.        *)
NodeAt(place) ==
    LET at == {i \in DOMAIN Nodes : Place[Nodes[i]] = place}
    IN Nodes[CHOOSE i \in at : \A j \in at : j <= i]

(* handleRowActivate, for a row whose node is on the canvas.               *)
ActivateRow(d) ==
    /\ report.status = "ready" /\ graphData.gen # None
    /\ \E i \in DOMAIN Nodes : Place[Nodes[i]] = Place[d]
    /\ selected' = [row |-> d, node |-> NodeAt(Place[d])]
    /\ UNCHANGED <<server, done, project, page, panel, heard>>

----------------------------------------------------------------------------
(* The server: one analysis of a project at a time.                        *)

(* A change of the entry points, which ends the analysis before it.        *)
Reanalyse ==
    /\ project # None /\ graphData.status = "ready"
    /\ analysis[project].by = None
    /\ analysis' = [analysis EXCEPT ![project].by = "mine"]
    /\ done' = None
    /\ UNCHANGED <<graphGen, reportGen, project, page, panel, heard, selected>>

(* Another change meets the slot of the first, and is refused with 409.    *)
ReanalyseRefused ==
    /\ project # None /\ graphData.status = "ready"
    /\ analysis[project].by # None
    /\ Disown(project)
    /\ done' = None
    /\ UNCHANGED <<graphGen, reportGen, project, page, panel, heard, selected>>

OtherAnalyses(p) ==
    /\ analysis[p].by = None
    /\ analysis' = [analysis EXCEPT ![p].by = "other"]
    /\ UNCHANGED <<graphGen, reportGen, done, project, page, panel, heard, selected>>

WriteGraph(p) ==
    /\ analysis[p].by # None /\ ~analysis[p].wrote
    /\ graphGen[p] < MaxGen
    /\ graphGen' = [graphGen EXCEPT ![p] = @ + 1]
    /\ analysis' = [analysis EXCEPT ![p].wrote = TRUE]
    /\ UNCHANGED <<reportGen, done, project, page, panel, heard, selected>>

WriteReport(p) ==
    /\ analysis[p].wrote
    /\ reportGen' = [reportGen EXCEPT ![p] = graphGen[p]]
    /\ analysis' = [analysis EXCEPT ![p] = Idle]
    /\ done' = IF analysis[p].by = "mine" THEN graphGen[p] ELSE done
    /\ UNCHANGED <<graphGen, project, page, panel, heard, selected>>

(* A stage fails, either write among them.                                 *)
AnalysisFails(p) ==
    /\ analysis[p].by # None
    /\ analysis' = [analysis EXCEPT ![p] = Idle]
    /\ UNCHANGED <<graphGen, reportGen, done, project, page, panel, heard, selected>>

----------------------------------------------------------------------------

ReportNext ==
    \/ Close \/ LeavePage \/ Refresh
    \/ ReadGraph \/ StatGraph \/ ShowGraph \/ GraphFailed \/ HearDone
    \/ Retry \/ Reanalyse \/ ReanalyseRefused
    \/ \E s \in Slots : Answer(s) \/ Deliver(s)
    \/ \E d \in DOMAIN Place : ActivateRow(d)
    \/ \E p \in Projects :
          \/ Open(p) \/ OtherAnalyses(p)
          \/ WriteGraph(p) \/ WriteReport(p) \/ AnalysisFails(p)

ReportSpec == ReportInit /\ [][ReportNext]_reportVars

----------------------------------------------------------------------------
(* Properties.                                                             *)

(* DeadCodePanel.tsx, the effect: the report on the screen is of the       *)
(* project on the screen, and no older than what the server had when the   *)
(* panel asked last, in whatever order the answers arrive; and the         *)
(* skeleton rows are shown only while an answer is still to come.          *)
ReportAnswersLastAsk ==
    /\ report.status = "ready" => report.of = project /\ report.gen >= since
    /\ report.status = "loading" => asked # None /\ asks[asked] # None

(* MainView.tsx, reportRefreshKey: once a re-analysis of this tab is done  *)
(* and its graph was loaded, the report beside it is not from before it,   *)
(* whatever other tabs analyse and the user refreshes meanwhile.           *)
DoneIsReported ==
    graphData.status = "ready" /\ report.status = "ready" => report.gen >= heard

Quiet == get = None /\ asked = None /\ analysis[project] = Idle

(* MainView.tsx:319: after every successful refresh of the graph the panel *)
(* fetches its report.  A graph that was read when its report was there    *)
(* then has that report beside it.                                         *)
RefreshReloadsReport ==
    graphData.status = "ready" /\ report.status = "ready" /\ graphData.whole /\ Quiet
        => report.gen >= graphData.gen

(* DeadCodePanel.tsx:300: package, file and line are unique per            *)
(* declaration, so that a click in the list finds the node of its row.     *)
RowFindsItsNode == selected # None => selected.node = selected.row
=============================================================================
