--------------------------- MODULE BrowserSession ---------------------------
(***************************************************************************)
(* The web client of the analyses: the landing page uploads and restores   *)
(* projects, the analyzing page runs one analysis, the main page shows a   *)
(* graph and analyses again when the entry points change.  The server is   *)
(* what AnalysisStream promises, which Orchestrator implements: one stream *)
(* of a project at a time, and one terminal event unless the client leaves *)
(* first.  A graph is reduced to the specification it was made for.        *)
(* Hooks of React run as part of the action that changes what they depend  *)
(* on; every callback of a promise or a stream is an action of its own, so *)
(* it finds the page as the user has left it by then.                      *)
(***************************************************************************)
EXTENDS Naturals, Sequences, FiniteSets

CONSTANTS
    Projects,       \* the ids the server gives to uploads
    Specs,          \* entry-point specifications, up to the order of their parts
    DefaultSpec,    \* what a project without stored settings has
    Requests,       \* POST /analyze requests under way at a time (a bound)
    None

ASSUME SessionAssumption ==
    /\ DefaultSpec \in Specs
    /\ None \notin Projects \cup Specs \cup Requests

VARIABLES
    hosted,     \* what the server has of a project
    graphOf,    \* the specification its graph.json was made for
    call,       \* the server's side of each POST
    queue,      \* the POSTs that the server has not looked at
    wire,       \* frames on their way to the tab
    stored,     \* localStorage: the entry-point specification of a project
    uploads,    \* uploads without an answer
    restores,   \* restores without an answer
    route, project,     \* the screen and the project it was opened with
    run,        \* useAnalysis of the analyzing page
    view,       \* useGraphData of the main page, and its override
    rerun       \* useReanalyze of the main page

store == <<hosted, graphOf>>
network == <<call, queue, wire>>
landing == <<uploads, restores>>
screen == <<route, project, run, view, rerun>>
vars == <<store, network, stored, landing, screen>>

NoCall == [state |-> "none", project |-> None, spec |-> None, left |-> FALSE]
NoRun == [status |-> "idle", req |-> None]
NoView == [status |-> "idle", of |-> None, spec |-> None, override |-> None]
NoRerun == [status |-> "idle", req |-> None, last |-> None, of |-> None]

Init ==
    /\ hosted \in [Projects -> {"new", "up"}]
    /\ graphOf \in [Projects -> Specs \cup {None}]
    /\ \A p \in Projects : hosted[p] = "new" => graphOf[p] = None
    /\ stored = [p \in Projects |-> DefaultSpec]
    /\ call = [r \in Requests |-> NoCall]
    /\ queue = <<>>
    /\ wire = [r \in Requests |-> <<>>]
    /\ uploads = {} /\ restores = {}
    /\ route = "landing" /\ project = None
    /\ run = NoRun /\ view = NoView /\ rerun = NoRerun

----------------------------------------------------------------------------
(* What the tab does with requests.                                        *)

Unused == {r \in Requests : call[r] = NoCall /\ r \notin {run.req, rerun.req}}
Fresh == CHOOSE r \in Unused : TRUE

(* AbortController.abort() of the requests rs: nothing of them is read, a  *)
(* handler that runs will notice.                                          *)
Abort(rs) ==
    /\ call' = [r \in Requests |->
                  IF r \in rs /\ call[r] # NoCall THEN [call[r] EXCEPT !.left = TRUE]
                  ELSE call[r]]
    /\ wire' = [r \in Requests |-> IF r \in rs THEN <<>> ELSE wire[r]]
    /\ UNCHANGED queue

(* The same, and then fetch of POST /analyze with project p and spec s.    *)
AbortAndPost(rs, p, s) ==
    /\ call' = [r \in Requests |->
                  IF r = Fresh
                  THEN [state |-> "sent", project |-> p, spec |-> s, left |-> FALSE]
                  ELSE IF r \in rs /\ call[r] # NoCall THEN [call[r] EXCEPT !.left = TRUE]
                  ELSE call[r]]
    /\ wire' = [r \in Requests |-> IF r \in rs THEN <<>> ELSE wire[r]]
    /\ queue' = Append(queue, Fresh)

----------------------------------------------------------------------------
(* Navigation: what is mounted, unmounted and started.                     *)

StartRun == [status |-> "streaming", req |-> Fresh]

(* A page is set up anew when it is entered or is given another project.   *)
SetUp(to, p) == p # None /\ <<route, project>> # <<to, p>>

(* The mount effect of useAnalysis and its cleanup; without a project the  *)
(* stream is torn down and the reducer keeps its state.                    *)
RunOn(to, p) ==
    CASE to # "analyzing" -> NoRun
      [] to = "analyzing" /\ SetUp(to, p) -> StartRun
      [] to = "analyzing" /\ p = None ->
            IF route = to THEN [run EXCEPT !.req = None] ELSE NoRun
      [] OTHER -> run

(* Mutation: the project is not among the dependencies of the effect.      *)
ViewOnOnce(to, p) ==
    CASE to # "main" -> NoView
      [] to = "main" /\ route # to /\ p # None -> [NoView EXCEPT !.status = "loading"]
      [] OTHER -> view

(* The fetch effect of useGraphData: another project keeps the graph.      *)
ViewOn(to, p) ==
    CASE to # "main" -> NoView
      [] to = "main" /\ SetUp(to, p) ->
            [IF route = to THEN view ELSE NoView EXCEPT
                !.status = "loading", !.override = None]
      [] to = "main" /\ p = None ->
            IF route = to THEN [view EXCEPT !.override = None]
            ELSE NoView
      [] OTHER -> view

(* useReanalyze: a new project ends the run and keeps the rest.            *)
RerunOn(to, p) ==
    IF to # "main" \/ route # to THEN NoRerun
    ELSE IF p # project THEN [rerun EXCEPT !.req = None]
    ELSE rerun

(* navigate(to, {projectId: p}).                                           *)
Navigate(to, p) ==
    /\ to = "analyzing" /\ SetUp(to, p) => Unused # {}
    /\ route' = to /\ project' = p
    /\ run' = RunOn(to, p)
    /\ view' = ViewOn(to, p)
    /\ rerun' = RerunOn(to, p)
    /\ IF to = "analyzing" /\ SetUp(to, p)
       THEN AbortAndPost({run.req, rerun.req}, p, stored[p])
       ELSE Abort({run.req, rerun.req} \ {run'.req, rerun'.req})

(* The buttons of the top bar and of the fallbacks carry no project.       *)
TopBar(to) ==
    /\ <<route, project>> # <<to, None>>
    /\ Navigate(to, None)
    /\ UNCHANGED <<store, stored, landing>>

(* window.location.reload(), by the user or by the error boundary.         *)
Reload ==
    /\ route' = "landing" /\ project' = None
    /\ run' = NoRun /\ view' = NoView /\ rerun' = NoRerun
    /\ Abort({run.req, rerun.req})
    /\ uploads' = {} /\ restores' = {}
    /\ UNCHANGED <<store, stored>>

----------------------------------------------------------------------------
(* The landing page.  Its promises outlive it: they navigate wherever the  *)
(* user is when they are resolved.                                         *)

Upload(p) ==
    /\ route = "landing"
    /\ hosted[p] = "new" /\ p \notin uploads
    /\ uploads' = uploads \cup {p}
    /\ UNCHANGED <<store, network, stored, restores, screen>>

UploadDone(p) ==
    /\ p \in uploads
    /\ uploads' = uploads \ {p}
    /\ hosted' = [hosted EXCEPT ![p] = "up"]
    /\ Navigate("analyzing", p)
    /\ UNCHANGED <<graphOf, stored, restores>>

UploadFailed(p) ==
    /\ p \in uploads
    /\ uploads' = uploads \ {p}
    /\ UNCHANGED <<store, network, stored, restores, screen>>

Restore(p) ==
    /\ route = "landing"
    /\ hosted[p] # "new" /\ p \notin restores
    /\ restores' = restores \cup {p}
    /\ UNCHANGED <<store, network, stored, uploads, screen>>

RestoreDone(p) ==
    /\ p \in restores
    /\ hosted[p] = "up" /\ graphOf[p] # None
    /\ restores' = restores \ {p}
    /\ Navigate("main", p)
    /\ UNCHANGED <<store, stored, uploads>>

(* 404 when the project is gone or was never analysed, and other errors.   *)
RestoreFailed(p) ==
    /\ p \in restores
    /\ restores' = restores \ {p}
    /\ UNCHANGED <<store, network, stored, uploads, screen>>

----------------------------------------------------------------------------
(* The analyzing page.                                                     *)

(* Mutation: the stream is aborted and the reducer not told.               *)
CancelSilently ==
    /\ route = "analyzing" /\ project # None
    /\ run.status = "streaming"
    /\ run' = [run EXCEPT !.req = None]
    /\ Abort({run.req})
    /\ UNCHANGED <<store, stored, landing, route, project, view, rerun>>

(* The cancel button, which appears after a while in one phase.            *)
Cancel ==
    /\ route = "analyzing" /\ project # None
    /\ run.status = "streaming"
    /\ run' = [status |-> "cancelled", req |-> None]
    /\ Abort({run.req})
    /\ UNCHANGED <<store, stored, landing, route, project, view, rerun>>

Retry ==
    /\ route = "analyzing" /\ project # None
    /\ run.status \in {"failed", "cancelled"}
    /\ Unused # {}
    /\ run' = StartRun
    /\ AbortAndPost({}, project, stored[project])
    /\ UNCHANGED <<store, stored, landing, route, project, view, rerun>>

----------------------------------------------------------------------------
(* The main page.                                                          *)

(* Mutation: the stream under way is not aborted.                          *)
ReanalyseBeside(s) ==
    IF rerun.last \in {None, s}
    THEN rerun' = [rerun EXCEPT !.last = s] /\ UNCHANGED network
    ELSE /\ Unused # {}
         /\ rerun' = [status |-> "running", req |-> Fresh, last |-> s, of |-> project]
         /\ AbortAndPost({}, project, s)

(* The effect of useReanalyze when the graph becomes ready, or the         *)
(* specification changes while it is: the first time it only remembers.    *)
Reanalyse(s) ==
    IF rerun.last \in {None, s}
    THEN rerun' = [rerun EXCEPT !.last = s] /\ UNCHANGED network
    ELSE /\ Unused # {}
         /\ rerun' = [status |-> "running", req |-> Fresh, last |-> s, of |-> project]
         /\ AbortAndPost({rerun.req}, project, s)

(* Entry points are edited in their panel unless it is busy, and added     *)
(* from the info panel and the context menu even then.                     *)
Edit(s) ==
    /\ route = "main" /\ project # None
    /\ s # stored[project]
    /\ stored' = [stored EXCEPT ![project] = s]
    /\ IF view.status = "ready"
       THEN Reanalyse(s)
       ELSE UNCHANGED <<rerun, network>>
    /\ UNCHANGED <<store, landing, route, project, run, view>>

(* bumpTick: the graph is fetched again, and stays on the canvas.          *)
Refetch == view' = [view EXCEPT !.status = "loading"]

(* The button.  A graph that is loading disables useReanalyze, whose       *)
(* cleanup aborts the analysis under way and leaves its status.            *)
Refresh ==
    /\ route = "main" /\ project # None
    /\ Refetch
    /\ rerun' = [rerun EXCEPT !.req = None]
    /\ Abort({rerun.req})
    /\ UNCHANGED <<store, stored, landing, route, project, run>>

(* The answer to GET /graph, unless the effect that asked was cleaned up.  *)
ShowGraph ==
    /\ view.status = "loading" /\ project # None
    /\ hosted[project] = "up" /\ graphOf[project] # None
    /\ view' = [status |-> "ready", of |-> project, spec |-> graphOf[project],
                override |-> None]
    /\ Reanalyse(stored[project])
    /\ UNCHANGED <<store, stored, landing, route, project, run>>

FetchFailed ==
    /\ view.status = "loading" /\ project # None
    /\ view' = [view EXCEPT !.status = "error"]
    /\ UNCHANGED <<store, network, stored, landing, route, project, run, rerun>>

----------------------------------------------------------------------------
(* What the tab reads of a stream.                                         *)

Read(r, frame) ==
    /\ wire[r] # <<>> /\ Head(wire[r]) = frame
    /\ wire' = [wire EXCEPT ![r] = Tail(@)]
    /\ UNCHANGED <<store, call, queue, stored>>

(* phase, partial_graph and warning events change no status.               *)
ReadProgress(r) ==
    /\ Read(r, "progress")
    /\ UNCHANGED <<landing, screen>>

(* onComplete leaves for the main page in the same turn of the event loop. *)
ReadDone(r) ==
    /\ r = run.req
    /\ wire[r] # <<>> /\ Head(wire[r]) \in {"done", "empty"}
    /\ Navigate("main", project)
    /\ UNCHANGED <<store, stored, landing>>

ReadFailed(r) ==
    /\ \E frame \in {"failed", "error"} : Read(r, frame)
    /\ IF r = run.req
       THEN run' = [run EXCEPT !.status = "failed", !.req = None] /\ UNCHANGED rerun
       ELSE rerun' = [rerun EXCEPT !.status = "failed", !.req = None] /\ UNCHANGED run
    /\ UNCHANGED <<landing, route, project, view>>

(* Mutation: the graph is not asked for again.                             *)
ReadRerunDoneStays(r) ==
    /\ r = rerun.req
    /\ Read(r, "done")
    /\ rerun' = [rerun EXCEPT !.status = "done", !.req = None]
    /\ UNCHANGED <<landing, route, project, run, view>>

(* handleReanalyzeDone: refresh, which lets go of the run; a server that   *)
(* counts no nodes is not believed.                                        *)
ReadRerunDone(r) ==
    /\ r = rerun.req
    /\ \/ /\ Read(r, "done")
          /\ Refetch
       \/ /\ Read(r, "empty")
          /\ IF view.of # None
             THEN view' = [view EXCEPT !.override = stored[project]]
             ELSE Refetch
    /\ rerun' = [rerun EXCEPT !.status = "done", !.req = None]
    /\ UNCHANGED <<landing, route, project, run>>

----------------------------------------------------------------------------
(* The server.                                                             *)

client == <<stored, landing, screen>>

(* Frames that a tab which has left will not read are not kept.            *)
Send(r, frame) ==
    wire' = IF call[r].left THEN wire ELSE [wire EXCEPT ![r] = Append(@, frame)]

End(r) == call' = [call EXCEPT ![r] = NoCall]

Analysed(p) == \E q \in Requests : call[q].state = "open" /\ call[q].project = p

Admit(r) ==
    /\ queue # <<>> /\ r = Head(queue)
    /\ hosted[call[r].project] = "up" /\ ~Analysed(call[r].project)
    /\ call' = [call EXCEPT ![r].state = "open"]
    /\ queue' = Tail(queue)
    /\ UNCHANGED <<store, wire, client>>

(* 409 while the project is analysed, 404 when it is gone.                 *)
Refuse(r) ==
    /\ queue # <<>> /\ r = Head(queue)
    /\ hosted[call[r].project] # "up" \/ Analysed(call[r].project)
    /\ Send(r, "error")
    /\ End(r)
    /\ queue' = Tail(queue)
    /\ UNCHANGED <<store, client>>

(* phase, partial_graph and warning events.                                *)
Progress(r) ==
    /\ call[r].state = "open" /\ ~call[r].left /\ wire[r] = <<>>
    /\ Send(r, "progress")
    /\ UNCHANGED <<store, call, queue, client>>

Finish(r) ==
    /\ call[r].state = "open"
    /\ \E frame \in {"done", "empty"} : Send(r, frame)
    /\ End(r)
    /\ graphOf' = [graphOf EXCEPT ![call[r].project] = call[r].spec]
    /\ UNCHANGED <<hosted, queue, client>>

(* A failure, or that the tab has left, before the graph is written.       *)
Fail(r) ==
    /\ call[r].state = "open"
    /\ Send(r, "failed")
    /\ End(r)
    /\ UNCHANGED <<store, queue, client>>

(* The connection breaks: reading fails with what is still on the way.     *)
Lose(r) ==
    /\ call[r].state = "open" /\ ~call[r].left
    /\ call' = [call EXCEPT ![r].left = TRUE]
    /\ wire' = [wire EXCEPT ![r] = <<"error">>]
    /\ UNCHANGED <<store, queue, client>>

(* The sweeper evicts a project that is not being analysed.                *)
Evict(p) ==
    /\ hosted[p] = "up" /\ ~Analysed(p)
    /\ hosted' = [hosted EXCEPT ![p] = "gone"]
    /\ graphOf' = [graphOf EXCEPT ![p] = None]
    /\ UNCHANGED <<network, client>>

----------------------------------------------------------------------------
Serve(r) == Admit(r) \/ Refuse(r) \/ Finish(r) \/ Fail(r)
Listen(r) == ReadProgress(r) \/ ReadDone(r) \/ ReadFailed(r) \/ ReadRerunDone(r)

Next ==
    \/ \E to \in {"landing", "analyzing", "main"} : TopBar(to)
    \/ Reload
    \/ \E p \in Projects :
        \/ Upload(p) \/ UploadDone(p) \/ UploadFailed(p)
        \/ Restore(p) \/ RestoreDone(p) \/ RestoreFailed(p)
        \/ Evict(p)
    \/ Cancel \/ Retry
    \/ \E s \in Specs : Edit(s)
    \/ Refresh \/ ShowGraph \/ FetchFailed
    \/ \E r \in Requests : Serve(r) \/ Listen(r) \/ Progress(r) \/ Lose(r)

(* The server works on what it has accepted, and the browser hands over    *)
(* what has arrived.                                                       *)
Fairness == \A r \in Requests : WF_vars(Serve(r)) /\ WF_vars(Listen(r))

Spec == Init /\ [][Next]_vars /\ Fairness

----------------------------------------------------------------------------
TypeOK ==
    /\ hosted \in [Projects -> {"new", "up", "gone"}]
    /\ graphOf \in [Projects -> Specs \cup {None}]
    /\ call \in [Requests -> [state : {"sent", "open"}, project : Projects,
                              spec : Specs, left : BOOLEAN] \cup {NoCall}]
    /\ queue \in Seq(Requests)
    /\ wire \in [Requests -> Seq({"progress", "done", "empty", "failed", "error"})]
    /\ stored \in [Projects -> Specs]
    /\ uploads \subseteq Projects /\ restores \subseteq Projects
    /\ route \in {"landing", "analyzing", "main"}
    /\ project \in Projects \cup {None}
    /\ run \in [status : {"idle", "streaming", "failed", "cancelled"},
                req : Requests \cup {None}]
    /\ view \in [status : {"idle", "loading", "ready", "error"},
                 of : Projects \cup {None},
                 spec : Specs \cup {None}, override : Specs \cup {None}]
    /\ rerun \in [status : {"idle", "running", "done", "failed"},
                  req : Requests \cup {None}, last : Specs \cup {None},
                  of : Projects \cup {None}]
    /\ view.status = "ready" => view.of \in Projects /\ view.spec \in Specs

(* A stream the tab still listens to is that of the page on the screen, of *)
(* its project and for the settings that are stored: there is never a      *)
(* second one, whatever is clicked and whichever promise resolves late.    *)
OneWantedStream ==
    \A r \in Requests : (call[r] # NoCall /\ ~call[r].left) =>
        /\ r \in {run.req, rerun.req}
        /\ call[r].project = project /\ call[r].spec = stored[project]

(* A graph that is shown as ready is the graph of the project on screen.   *)
ReadyGraphBelongs ==
    (route = "main" /\ project # None /\ view.status = "ready") => view.of = project

(* After a successful re-analysis the canvas shows a graph of the          *)
(* specification it was asked for.                                         *)
Shown == IF view.override # None THEN view.override ELSE view.spec
DoneGraphIsOfSpec ==
    (view.status = "ready" /\ rerun.status = "done" /\ rerun.of = project)
        => Shown = rerun.last

(* An analysis on the screen comes to an end, or its project is left.      *)
RunEnds ==
    (run.status = "streaming" /\ project # None)
        ~> (run.status # "streaming" \/ project = None)

(* MainView: the overlay is there while the stream of the run is.          *)
OverlayMeansStream ==
    (project # None /\ rerun.status = "running") => rerun.req # None

(* useReanalyze: the stream under way is aborted so that the new one starts *)
(* cleanly, so the server has no reason of the tab's own making to refuse.  *)
StartsCleanly ==
    \A r \in Requests :
        (queue # <<>> /\ r = Head(queue) /\ r = rerun.req /\ hosted[call[r].project] = "up")
            => ~Analysed(call[r].project)
=============================================================================
