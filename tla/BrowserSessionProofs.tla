------------------------ MODULE BrowserSessionProofs ------------------------
(***************************************************************************)
(* What holds of the web client for any number of projects, specifications *)
(* and requests: a stream the tab listens to is the one the page wants, a  *)
(* graph that is shown belongs to the project on screen, and after a       *)
(* re-analysis it is the graph of the specification that was asked for.    *)
(***************************************************************************)
EXTENDS BrowserSession, SequenceTheorems, TLAPS

Frame == {"progress", "done", "empty", "failed", "error"}

Live(r) == call[r] # NoCall /\ ~call[r].left

(* The server's side: what waits is sent once, and a frame that ends a     *)
(* stream is its last and comes when nothing of the request is live.       *)
Calls == call \in [Requests -> [state : {"sent", "open"}, project : Projects,
                                spec : Specs, left : BOOLEAN] \cup {NoCall}]
Queued ==
    /\ queue \in Seq(Requests)
    /\ \A i \in 1..Len(queue) :
        /\ call[queue[i]] # NoCall /\ call[queue[i]].state = "sent"
        /\ \A j \in 1..Len(queue) : queue[i] = queue[j] => i = j
Ordered ==
    /\ wire \in [Requests -> Seq(Frame)]
    /\ \A r \in Requests : \A i \in 1..Len(wire[r]) :
        wire[r][i] # "progress" => i = Len(wire[r]) /\ ~Live(r)
Network == Calls /\ Queued /\ Ordered

(* The tab's side: one page at a time has a stream, which is of what the   *)
(* page shows.                                                             *)
Screen ==
    /\ stored \in [Projects -> Specs]
    /\ uploads \subseteq Projects /\ restores \subseteq Projects
    /\ route \in {"landing", "analyzing", "main"}
    /\ project \in Projects \cup {None}
    /\ run \in [status : {"idle", "streaming", "failed", "cancelled"},
                req : Requests \cup {None}]
    /\ view \in [status : {"idle", "loading", "ready", "error"},
                 of : Projects \cup {None},
                 spec : Specs \cup {None}, override : Specs \cup {None}]
    /\ rerun \in [status : {"idle", "running", "done", "failed"},
                  req : Requests \cup {None}, last : Specs \cup {None},
                  of : Projects \cup {None}]
Pages ==
    /\ run.req # None => route = "analyzing" /\ project # None /\ run.status = "streaming"
    /\ rerun.req # None => /\ route = "main" /\ project # None /\ view.status = "ready"
                           /\ rerun.last = stored[project]
    /\ view.status # "idle" => route = "main"
    /\ view.status = "ready" /\ project # None => view.of = project

(* What is read is of the requests the pages have.                         *)
Wanted ==
    \A r \in Requests :
        /\ Live(r) => /\ r \in {run.req, rerun.req}
                      /\ call[r].project = project /\ call[r].spec = stored[project]
        /\ wire[r] # <<>> => r \in {run.req, rerun.req}

Inv == Network /\ Screen /\ Pages /\ Wanted
----------------------------------------------------------------------------
(* What the tab does with requests.                                        *)

(* A request to abort is neither read nor listened to afterwards, and the  *)
(* others are as they were.                                                *)
LEMMA AbortKeeps ==
    ASSUME Network, NEW rs, Abort(rs)
    PROVE  /\ Network'
           /\ \A r \in Requests :
                /\ Live(r)' => Live(r) /\ r \notin rs /\ call'[r] = call[r]
                /\ wire'[r] # <<>> => r \notin rs /\ wire'[r] = wire[r]
<1> DEFINE Now(r) == IF r \in rs /\ call[r] # NoCall THEN [call[r] EXCEPT !.left = TRUE]
                     ELSE call[r]
<1>1. /\ call' = [r \in Requests |-> Now(r)]
      /\ wire' = [r \in Requests |-> IF r \in rs THEN <<>> ELSE wire[r]]
      /\ queue' = queue
  BY DEF Abort
<1>2. \A r \in Requests :
        /\ Now(r) \in [state : {"sent", "open"}, project : Projects,
                       spec : Specs, left : BOOLEAN] \cup {NoCall}
        /\ Now(r) = NoCall <=> call[r] = NoCall
        /\ call[r] # NoCall => Now(r).state = call[r].state
        /\ Now(r) # NoCall /\ ~Now(r).left => r \notin rs /\ Now(r) = call[r]
  BY DEF Network, Calls, NoCall
<1> HIDE DEF Now
<1>3. Calls'
  BY <1>1, <1>2 DEF Calls, NoCall
<1>4. Queued'
  BY <1>1, <1>2 DEF Network, Queued, NoCall
<1>5. \A r \in Requests :
        /\ Live(r)' => Live(r) /\ r \notin rs /\ call'[r] = call[r]
        /\ wire'[r] # <<>> => r \notin rs /\ wire'[r] = wire[r]
  BY <1>1, <1>2 DEF Live, NoCall
<1>6. Ordered'
  BY <1>1, <1>5 DEF Network, Ordered, Live, NoCall
<1>7. QED
  BY <1>3, <1>4, <1>5, <1>6 DEF Network

(* A request that is posted is the one that is new.                        *)
LEMMA PostKeeps ==
    ASSUME Network, Wanted, Unused # {}, NEW rs, NEW p \in Projects, NEW s \in Specs,
           AbortAndPost(rs, p, s)
    PROVE  /\ Network'
           /\ Fresh \in Requests /\ Fresh \notin {run.req, rerun.req}
           /\ call'[Fresh].project = p /\ call'[Fresh].spec = s
           /\ \A r \in Requests \ {Fresh} :
                Live(r)' => Live(r) /\ r \notin rs /\ call'[r] = call[r]
           /\ \A r \in Requests :
                wire'[r] # <<>> => r \notin rs /\ wire'[r] = wire[r]
<1> DEFINE new == [state |-> "sent", project |-> p, spec |-> s, left |-> FALSE]
           Now(r) == IF r = Fresh THEN new
                     ELSE IF r \in rs /\ call[r] # NoCall THEN [call[r] EXCEPT !.left = TRUE]
                     ELSE call[r]
<1>1. /\ call' = [r \in Requests |-> Now(r)]
      /\ wire' = [r \in Requests |-> IF r \in rs THEN <<>> ELSE wire[r]]
      /\ queue' = Append(queue, Fresh)
  BY DEF AbortAndPost
<1>2. /\ Fresh \in Requests /\ Fresh \notin {run.req, rerun.req}
      /\ call[Fresh] = NoCall /\ wire[Fresh] = <<>>
  <2>1. Fresh \in Unused
    BY DEF Fresh
  <2>2. QED
    BY <2>1 DEF Unused, Wanted
<1>3. /\ Now(Fresh) = new /\ new.state = "sent" /\ new.project = p /\ new.spec = s
      /\ new \in [state : {"sent", "open"}, project : Projects, spec : Specs, left : BOOLEAN]
  OBVIOUS
<1>4. \A r \in Requests \ {Fresh} :
        /\ Now(r) \in [state : {"sent", "open"}, project : Projects,
                       spec : Specs, left : BOOLEAN] \cup {NoCall}
        /\ Now(r) = NoCall <=> call[r] = NoCall
        /\ call[r] # NoCall => Now(r).state = call[r].state
        /\ Now(r) # NoCall /\ ~Now(r).left => r \notin rs /\ Now(r) = call[r]
  BY DEF Network, Calls, NoCall
<1> HIDE DEF Now, new
<1>5. Calls'
  BY <1>1, <1>2, <1>3, <1>4 DEF Calls, NoCall
<1>6. Queued'
  <2>1. /\ queue' \in Seq(Requests) /\ Len(queue') = Len(queue) + 1 /\ Len(queue) \in Nat
        /\ \A i \in 1..Len(queue) : queue'[i] = queue[i] /\ queue[i] \in Requests
        /\ queue'[Len(queue) + 1] = Fresh
    BY <1>1, <1>2 DEF Network, Queued
  <2>2. \A i \in 1..Len(queue) : queue[i] # Fresh
    BY <1>2 DEF Network, Queued
  <2>3. new # NoCall
    BY <1>3 DEF NoCall
  <2>4. \A i \in 1..Len(queue') : call'[queue'[i]] # NoCall /\ call'[queue'[i]].state = "sent"
    <3> SUFFICES ASSUME NEW i \in 1..Len(queue')
                 PROVE  call'[queue'[i]] # NoCall /\ call'[queue'[i]].state = "sent"
      OBVIOUS
    <3>1. CASE i \in 1..Len(queue)
      BY <1>1, <1>4, <2>1, <2>2, <3>1 DEF Network, Queued
    <3>2. CASE i = Len(queue) + 1
      BY <1>1, <1>2, <1>3, <2>1, <2>3, <3>2
    <3>3. QED
      BY <2>1, <3>1, <3>2
  <2>5. \A i, j \in 1..Len(queue') : queue'[i] = queue'[j] => i = j
    BY <2>1, <2>2 DEF Network, Queued
  <2>6. QED
    BY <2>1, <2>4, <2>5 DEF Queued, NoCall
<1>7. /\ \A r \in Requests \ {Fresh} :
            Live(r)' => Live(r) /\ r \notin rs /\ call'[r] = call[r]
      /\ \A r \in Requests : wire'[r] # <<>> => r \notin rs /\ wire'[r] = wire[r]
  BY <1>1, <1>2, <1>4 DEF Live, NoCall
<1>8. Ordered'
  <2>1. wire' \in [Requests -> Seq(Frame)]
    BY <1>1 DEF Network, Ordered
  <2>2. ASSUME NEW r \in Requests, NEW i \in 1..Len(wire'[r]), wire'[r][i] # "progress"
        PROVE  i = Len(wire'[r]) /\ ~Live(r)'
    <3>1. wire'[r] # <<>>
      BY <2>2
    <3>2. wire'[r] = wire[r] /\ r # Fresh
      BY <1>2, <1>7, <3>1
    <3>3. QED
      BY <1>7, <2>2, <3>2 DEF Network, Ordered
  <2>3. QED
    BY <2>1, <2>2 DEF Ordered, Live, NoCall
<1>9. call'[Fresh].project = p /\ call'[Fresh].spec = s
  BY <1>1, <1>2, <1>3
<1>10. Network'
  BY <1>5, <1>6, <1>8 DEF Network
<1>11. QED
  BY <1>2, <1>7, <1>9, <1>10

(* While no page has a request, nothing is live.                           *)
LEMMA Alone ==
    ASSUME Inv
    PROVE  /\ run.req = None \/ rerun.req = None
           /\ None \notin Requests /\ None \notin Specs /\ None \notin Projects
<1>1. run.req = None \/ rerun.req = None
  BY DEF Inv, Pages
<1>2. None \notin Requests /\ None \notin Specs /\ None \notin Projects
  BY SessionAssumption DEF SessionAssumption
<1>3. QED
  BY <1>1, <1>2
----------------------------------------------------------------------------
(* Navigation.                                                             *)

LEMMA NavigateKeeps ==
    ASSUME Inv, NEW to \in {"landing", "analyzing", "main"}, NEW p \in Projects \cup {None},
           Navigate(to, p), stored' = stored,
           uploads' \subseteq Projects, restores' \subseteq Projects
    PROVE  Inv'
<1> DEFINE started == to = "analyzing" /\ SetUp(to, p)
<1>0. /\ route' = to /\ project' = p
      /\ run' = RunOn(to, p) /\ view' = ViewOn(to, p) /\ rerun' = RerunOn(to, p)
  BY DEF Navigate
<1>1. ~started => run' \in {NoRun, run, [run EXCEPT !.req = None]}
  BY <1>0 DEF RunOn
<1>2. rerun' \in {NoRerun, rerun, [rerun EXCEPT !.req = None]}
  BY <1>0 DEF RerunOn
<1>3. view' \in [status : {"idle", "loading", "ready", "error"},
                 of : Projects \cup {None},
                 spec : Specs \cup {None}, override : Specs \cup {None}]
  BY <1>0 DEF ViewOn, NoView, Inv, Screen
<1>4. /\ view'.status # "idle" => to = "main"
      /\ view'.status = "ready" /\ p # None => view'.of = p
  BY <1>0 DEF ViewOn, NoView, SetUp, Inv, Screen, Pages
<1>5. CASE started
  <2>1. run' = StartRun /\ rerun' = NoRerun /\ p \in Projects
    <3>1. run' = StartRun
      BY <1>0, <1>5 DEF RunOn, SetUp
    <3>2. rerun' = NoRerun
      BY <1>0, <1>5 DEF RerunOn
    <3>3. p \in Projects
      BY <1>5 DEF SetUp
    <3>4. QED
      BY <3>1, <3>2, <3>3
  <2>2. Unused # {} /\ AbortAndPost({run.req, rerun.req}, p, stored[p])
    BY <1>5 DEF Navigate
  <2>3. stored[p] \in Specs
    BY <2>1 DEF Inv, Screen
  <2>4. /\ Network'
        /\ Fresh \in Requests
        /\ call'[Fresh].project = p /\ call'[Fresh].spec = stored[p]
        /\ \A r \in Requests \ {Fresh} : ~Live(r)'
        /\ \A r \in Requests : wire'[r] = <<>>
    <3>1. Network /\ Wanted
      BY DEF Inv
    <3> DEFINE rs == {run.req, rerun.req}
               s == stored[p]
    <3>2. \A r \in Requests : (Live(r) => r \in rs) /\ (wire[r] # <<>> => r \in rs)
      BY <3>1 DEF Wanted
    <3>3. AbortAndPost(rs, p, s) /\ s \in Specs
      BY <2>2, <2>3
    <3> HIDE DEF rs, s
    <3>4. /\ Network'
          /\ Fresh \in Requests
          /\ call'[Fresh].project = p /\ call'[Fresh].spec = s
          /\ \A r \in Requests \ {Fresh} :
                Live(r)' => Live(r) /\ r \notin rs /\ call'[r] = call[r]
          /\ \A r \in Requests : wire'[r] # <<>> => r \notin rs /\ wire'[r] = wire[r]
      BY <2>1, <2>2, <3>1, <3>3, PostKeeps
    <3>5. QED
      BY <3>2, <3>4 DEF s
  <2>5. run'.status = "streaming" /\ run'.req = Fresh /\ rerun'.req = None
    BY <2>1 DEF StartRun, NoRerun
  <2>6. Screen'
    BY <1>0, <1>3, <2>1, <2>4 DEF StartRun, NoRerun, Inv, Screen
  <2>7. Pages'
    BY <1>0, <1>4, <1>5, <2>1, <2>5, Alone DEF Pages
  <2>8. Wanted'
    BY <1>0, <2>4, <2>5 DEF Wanted
  <2>9. QED
    BY <2>4, <2>6, <2>7, <2>8 DEF Inv
<1>6. CASE ~started
  <2>1. Abort({run.req, rerun.req} \ {run'.req, rerun'.req})
    BY <1>6 DEF Navigate
  <2>2. /\ run'.req # None => run' = run /\ to = route /\ p = project
        /\ rerun'.req # None => /\ rerun' = rerun /\ view' = view
                                /\ to = route /\ p = project
    BY <1>0, <1>6 DEF RunOn, RerunOn, ViewOn, NoRun, NoRerun, SetUp, Inv, Screen, Pages
  <2>3. Screen'
    BY <1>0, <1>1, <1>2, <1>3, <1>6 DEF NoRun, NoRerun, Inv, Screen
  <2>4. Pages'
    BY <1>0, <1>4, <2>2 DEF Inv, Pages
  <2>5. Network' /\ Wanted'
    <3> DEFINE rs == {run.req, rerun.req} \ {run'.req, rerun'.req}
    <3>1. Abort(rs)
      BY <2>1
    <3>2. \A r \in {run.req, rerun.req} : r \notin rs => r \in {run'.req, rerun'.req}
      OBVIOUS
    <3> HIDE DEF rs
    <3>3. /\ Network'
          /\ \A r \in Requests :
                /\ Live(r)' => Live(r) /\ r \notin rs /\ call'[r] = call[r]
                /\ wire'[r] # <<>> => r \notin rs /\ wire'[r] = wire[r]
      BY <3>1, AbortKeeps DEF Inv
    <3>4. \A r \in Requests :
            /\ Live(r)' => /\ r \in {run'.req, rerun'.req}
                           /\ call'[r].project = project' /\ call'[r].spec = stored'[project']
            /\ wire'[r] # <<>> => r \in {run'.req, rerun'.req}
      BY <1>0, <2>2, <3>2, <3>3, Alone DEF Inv, Wanted
    <3>5. QED
      BY <3>3, <3>4 DEF Wanted
  <2>6. QED
    BY <2>3, <2>4, <2>5 DEF Inv
<1>7. QED
  BY <1>5, <1>6

(* The page is loaded anew.                                                *)
LEMMA ReloadKeeps == Inv /\ Reload => Inv'
<1> SUFFICES ASSUME Inv, Reload
             PROVE  Inv'
  OBVIOUS
<1> DEFINE rs == {run.req, rerun.req}
<1>1. /\ Abort(rs) /\ stored' = stored
      /\ route' = "landing" /\ project' = None
      /\ run' = NoRun /\ view' = NoView /\ rerun' = NoRerun
      /\ uploads' = {} /\ restores' = {}
  BY DEF Reload
<1>2. \A r \in Requests : (Live(r) => r \in rs) /\ (wire[r] # <<>> => r \in rs)
  BY DEF Inv, Wanted
<1> HIDE DEF rs
<1>3. Network' /\ \A r \in Requests : ~Live(r)' /\ wire'[r] = <<>>
  BY <1>1, <1>2, AbortKeeps DEF Inv
<1>4. Screen' /\ Pages'
  BY <1>1 DEF Inv, Screen, Pages, NoRun, NoView, NoRerun
<1>5. Wanted'
  BY <1>3 DEF Wanted
<1>6. QED
  BY <1>3, <1>4, <1>5 DEF Inv
----------------------------------------------------------------------------
(* The pages.                                                              *)

(* A stream that was not asked to go on: the tab has no request any more.  *)
LEMMA LetGo ==
    ASSUME Inv, NEW rs, Abort(rs), rs = {run.req} \/ rs = {rerun.req},
           rs = {run.req} => rerun.req = None, rs = {rerun.req} => run.req = None
    PROVE  Network' /\ \A r \in Requests : ~Live(r)' /\ wire'[r] = <<>>
<1>1. \A r \in Requests : (Live(r) => r \in rs) /\ (wire[r] # <<>> => r \in rs)
  BY Alone DEF Inv, Wanted
<1>2. QED
  BY <1>1, AbortKeeps DEF Inv

LEMMA CancelKeeps == Inv /\ Cancel => Inv'
<1> SUFFICES ASSUME Inv, Cancel
             PROVE  Inv'
  OBVIOUS
<1>1. rerun.req = None
  BY DEF Cancel, Inv, Pages
<1>2. Network' /\ \A r \in Requests : ~Live(r)' /\ wire'[r] = <<>>
  <2> DEFINE rs == {run.req}
  <2>1. Abort(rs) /\ (rs = {run.req} \/ rs = {rerun.req})
    BY DEF Cancel
  <2>2. rs = {rerun.req} => run.req = None
    BY <1>1
  <2> HIDE DEF rs
  <2>3. QED
    BY <1>1, <2>1, <2>2, LetGo
<1>3. run' = [status |-> "cancelled", req |-> None] /\ UNCHANGED <<stored, landing, route, project, view, rerun>>
  BY DEF Cancel
<1>4. Screen' /\ Pages'
  BY <1>1, <1>3 DEF landing, Inv, Screen, Pages
<1>5. Wanted'
  BY <1>2 DEF Wanted
<1>6. QED
  BY <1>2, <1>4, <1>5 DEF Inv

LEMMA RetryKeeps == Inv /\ Retry => Inv'
<1> SUFFICES ASSUME Inv, Retry
             PROVE  Inv'
  OBVIOUS
<1> DEFINE s == stored[project]
<1>1. /\ run.req = None /\ rerun.req = None /\ project \in Projects
      /\ s \in Specs
  BY DEF Retry, Inv, Screen, Pages
<1>2. /\ Unused # {} /\ AbortAndPost({}, project, s)
      /\ run' = StartRun /\ UNCHANGED <<stored, landing, route, project, view, rerun>>
  BY DEF Retry
<1> HIDE DEF s
<1>3. /\ Network' /\ Fresh \in Requests
      /\ call'[Fresh].project = project /\ call'[Fresh].spec = s
      /\ \A r \in Requests \ {Fresh} : Live(r)' => Live(r)
      /\ \A r \in Requests : wire'[r] # <<>> => wire'[r] = wire[r]
  BY <1>1, <1>2, PostKeeps DEF Inv
<1>4. \A r \in Requests : ~Live(r) /\ wire[r] = <<>>
  BY <1>1, Alone DEF Inv, Wanted
<1>5. run'.status = "streaming" /\ run'.req = Fresh
  BY <1>2 DEF StartRun
<1>6. Screen'
  BY <1>2, <1>3 DEF StartRun, landing, Inv, Screen
<1>7. Pages'
  BY <1>1, <1>2, <1>5 DEF Retry, Inv, Pages
<1>8. Wanted'
  BY <1>2, <1>3, <1>4, <1>5 DEF Wanted, s
<1>9. QED
  BY <1>3, <1>6, <1>7, <1>8 DEF Inv

(* What an edit or a graph starts is what the page then wants.             *)
LEMMA ReanalyseKeeps ==
    ASSUME Inv, NEW s \in Specs, Reanalyse(s),
           stored' \in [Projects -> Specs], project \in Projects, stored'[project] = s,
           stored' = stored \/ stored[project] # s,
           route = "main", view' \in [status : {"ready"}, of : {project},
                                      spec : Specs \cup {None}, override : Specs \cup {None}],
           UNCHANGED <<landing, route, project, run>>
    PROVE  Inv'
<1>1. run.req = None /\ run' = run
  BY DEF Inv, Pages
<1>2. CASE rerun.last \in {None, s}
  <2>1. rerun' = [rerun EXCEPT !.last = s] /\ UNCHANGED network
    BY <1>2 DEF Reanalyse
  <2>2. Network'
    BY <2>1 DEF network, Inv, Network, Calls, Queued, Ordered, Live, NoCall
  <2>3. rerun'.req = rerun.req /\ rerun'.last = s
    BY <2>1 DEF Inv, Screen
  <2>4. Screen' /\ Pages'
    BY <1>1, <2>1, <2>3 DEF landing, Inv, Screen, Pages
  <2>5. rerun.req # None => stored[project] = s
    <3>1. rerun.req # None => rerun.last = stored[project] /\ stored[project] \in Specs
      BY DEF Inv, Screen, Pages
    <3>2. QED
      BY <1>2, <3>1, Alone
  <2>6. Wanted'
    <3>1. \A r \in Requests : Live(r)' <=> Live(r)
      BY <2>1 DEF network, Live, NoCall
    <3>2. call' = call /\ wire' = wire
      BY <2>1 DEF network
    <3>3. QED
      BY <1>1, <2>3, <2>5, <3>1, <3>2, Alone DEF Inv, Wanted
  <2>7. QED
    BY <2>2, <2>4, <2>6 DEF Inv
<1>3. CASE rerun.last \notin {None, s}
  <2> DEFINE rs == {rerun.req}
  <2>1. /\ Unused # {} /\ AbortAndPost(rs, project, s)
        /\ rerun' = [status |-> "running", req |-> Fresh, last |-> s, of |-> project]
    BY <1>3 DEF Reanalyse
  <2>2. \A r \in Requests : (Live(r) => r \in rs) /\ (wire[r] # <<>> => r \in rs)
    BY <1>1, Alone DEF Inv, Wanted
  <2> HIDE DEF rs
  <2>3. /\ Network' /\ Fresh \in Requests
        /\ call'[Fresh].project = project /\ call'[Fresh].spec = s
        /\ \A r \in Requests \ {Fresh} : Live(r)' => Live(r) /\ r \notin rs
        /\ \A r \in Requests : wire'[r] # <<>> => r \notin rs /\ wire'[r] = wire[r]
    <3>1. Network /\ Wanted
      BY DEF Inv
    <3>2. /\ Network'
          /\ Fresh \in Requests /\ Fresh \notin {run.req, rerun.req}
          /\ call'[Fresh].project = project /\ call'[Fresh].spec = s
          /\ \A r \in Requests \ {Fresh} :
               Live(r)' => Live(r) /\ r \notin rs /\ call'[r] = call[r]
          /\ \A r \in Requests :
               wire'[r] # <<>> => r \notin rs /\ wire'[r] = wire[r]
      BY <2>1, <3>1, PostKeeps, ZenonT(30)
    <3>3. QED
      BY <3>2
  <2>4. rerun'.req = Fresh /\ rerun'.last = s
    BY <2>1
  <2>5. Screen' /\ Pages'
    <3>1. rerun' \in [status : {"idle", "running", "done", "failed"},
                      req : Requests \cup {None}, last : Specs \cup {None},
                      of : Projects \cup {None}]
      BY <2>1, <2>3
    <3>2. Screen'
      BY <1>1, <3>1 DEF landing, Inv, Screen
    <3>3. Pages'
      BY <1>1, <2>4, Alone DEF Pages
    <3>4. QED
      BY <3>2, <3>3
  <2>6. Wanted'
    BY <2>2, <2>3, <2>4 DEF Wanted
  <2>7. QED
    BY <2>3, <2>5, <2>6 DEF Inv
<1>4. QED
  BY <1>2, <1>3

LEMMA EditKeeps == Inv /\ (\E s \in Specs : Edit(s)) => Inv'
<1> SUFFICES ASSUME Inv, NEW s \in Specs, Edit(s)
             PROVE  Inv'
  OBVIOUS
<1>1. /\ route = "main" /\ project \in Projects /\ s # stored[project]
      /\ stored' = [stored EXCEPT ![project] = s]
      /\ UNCHANGED <<landing, route, project, run, view>>
  BY DEF Edit, Inv, Screen
<1>2. stored' \in [Projects -> Specs] /\ stored'[project] = s
  BY <1>1 DEF Inv, Screen
<1>3. CASE view.status = "ready"
  <2>1. Reanalyse(s)
    BY <1>3 DEF Edit
  <2>2. view' \in [status : {"ready"}, of : {project},
                   spec : Specs \cup {None}, override : Specs \cup {None}]
    BY <1>1, <1>3, Alone DEF Inv, Screen, Pages
  <2>3. QED
    BY <1>1, <1>2, <2>1, <2>2, ReanalyseKeeps
<1>4. CASE view.status # "ready"
  <2>1. rerun.req = None /\ run.req = None /\ UNCHANGED <<rerun, network>>
    BY <1>1, <1>4 DEF Edit, Inv, Pages
  <2>2. \A r \in Requests : ~Live(r) /\ wire[r] = <<>>
    BY <2>1, Alone DEF Inv, Wanted
  <2>3. Network'
    BY <2>1 DEF network, Inv, Network, Calls, Queued, Ordered, Live, NoCall
  <2>4. Screen' /\ Pages'
    BY <1>1, <1>2, <2>1 DEF landing, Inv, Screen, Pages
  <2>5. Wanted'
    BY <2>1, <2>2 DEF network, Wanted, Live, NoCall
  <2>6. QED
    BY <2>3, <2>4, <2>5 DEF Inv
<1>5. QED
  BY <1>3, <1>4

LEMMA ShowGraphKeeps ==
    ASSUME Inv, ShowGraph, graphOf[project] \in Specs \cup {None}
    PROVE  Inv'
<1>1. /\ view.status = "loading" /\ project # None
      /\ view' = [status |-> "ready", of |-> project, spec |-> graphOf[project],
                  override |-> None]
      /\ Reanalyse(stored[project])
      /\ UNCHANGED <<stored, landing, route, project, run>>
  BY DEF ShowGraph
<1>2. route = "main" /\ project \in Projects /\ stored[project] \in Specs
  BY <1>1 DEF Inv, Screen, Pages
<1>3. view' \in [status : {"ready"}, of : {project},
                 spec : Specs \cup {None}, override : Specs \cup {None}]
  BY <1>1
<1>4. stored' \in [Projects -> Specs] /\ stored' = stored
  BY <1>1 DEF Inv, Screen
<1>5. QED
  BY <1>1, <1>2, <1>3, <1>4, ReanalyseKeeps

LEMMA RefreshKeeps == Inv /\ Refresh => Inv'
<1> SUFFICES ASSUME Inv, Refresh
             PROVE  Inv'
  OBVIOUS
<1>1. /\ route = "main"
      /\ view' = [view EXCEPT !.status = "loading"]
      /\ rerun' = [rerun EXCEPT !.req = None]
      /\ UNCHANGED <<stored, landing, route, project, run>>
  BY DEF Refresh, Refetch
<1>2. run.req = None
  BY <1>1 DEF Inv, Pages
<1>3. Network' /\ \A r \in Requests : ~Live(r)' /\ wire'[r] = <<>>
  <2> DEFINE rs == {rerun.req}
  <2>1. Abort(rs) /\ (rs = {run.req} \/ rs = {rerun.req})
    BY DEF Refresh
  <2>2. rs = {run.req} => rerun.req = None
    BY <1>2
  <2> HIDE DEF rs
  <2>3. QED
    BY <1>2, <2>1, <2>2, LetGo
<1>4. Screen' /\ Pages'
  BY <1>1, <1>2 DEF landing, Inv, Screen, Pages
<1>5. Wanted'
  BY <1>3 DEF Wanted
<1>6. QED
  BY <1>3, <1>4, <1>5 DEF Inv

LEMMA FetchFailedKeeps == Inv /\ FetchFailed => Inv'
<1> SUFFICES ASSUME Inv, FetchFailed
             PROVE  Inv'
  OBVIOUS
<1>1. /\ view.status = "loading" /\ view' = [view EXCEPT !.status = "error"]
      /\ UNCHANGED <<network, stored, landing, route, project, run, rerun>>
  BY DEF FetchFailed
<1>2. Network'
  BY <1>1 DEF network, Inv, Network, Calls, Queued, Ordered, Live, NoCall
<1>3. Screen' /\ Pages'
  BY <1>1 DEF landing, Inv, Screen, Pages
<1>4. Wanted'
  BY <1>1 DEF network, Inv, Wanted, Live, NoCall
<1>5. QED
  BY <1>2, <1>3, <1>4 DEF Inv
----------------------------------------------------------------------------
(* What is read.                                                           *)

(* Of what is on its way one frame less.                                   *)
LEMMA ReadKeeps ==
    ASSUME Inv, NEW r \in Requests, NEW frame, Read(r, frame)
    PROVE  /\ Network'
           /\ call' = call /\ stored' = stored
           /\ r \in {run.req, rerun.req}
           /\ wire' = [wire EXCEPT ![r] = Tail(@)]
           /\ frame # "progress" => ~Live(r) /\ wire'[r] = <<>>
<1>1. /\ wire[r] # <<>> /\ Head(wire[r]) = frame
      /\ wire' = [wire EXCEPT ![r] = Tail(@)]
      /\ UNCHANGED <<call, queue, stored>>
  BY DEF Read
<1> DEFINE tail == Tail(wire[r])
           k == Len(tail)
           n == Len(wire[r])
<1>2. /\ wire \in [Requests -> Seq(Frame)] /\ wire[r] \in Seq(Frame)
      /\ tail \in Seq(Frame) /\ k = n - 1 /\ n \in Nat \ {0} /\ wire[r][1] = frame
      /\ \A i \in 1..k : tail[i] = wire[r][i + 1]
      /\ k = 0 => tail = <<>>
  BY <1>1, HeadTailProperties, EmptySeq DEF Inv, Network, Ordered
<1>0. wire' = [wire EXCEPT ![r] = tail] /\ wire'[r] = tail
  BY <1>1, <1>2
<1>3. \A q \in Requests : \A i \in 1..Len(wire[q]) :
        wire[q][i] # "progress" => i = Len(wire[q]) /\ ~Live(q)
  BY DEF Inv, Network, Ordered
<1>4. Ordered'
  <2>1. wire' \in [Requests -> Seq(Frame)]
    BY <1>1, <1>2
  <2>2. ASSUME NEW q \in Requests, NEW i \in 1..Len(wire'[q]), wire'[q][i] # "progress"
        PROVE  i = Len(wire'[q]) /\ ~Live(q)
    <3>1. CASE q # r
      BY <1>1, <1>2, <1>3, <2>2, <3>1
    <3>2. CASE q = r
      <4>1. i \in 1..k /\ tail[i] # "progress" /\ Len(wire'[q]) = k
        BY <1>0, <2>2, <3>2
      <4>2. i + 1 \in 1..n /\ wire[r][i + 1] # "progress"
        <5> HIDE DEF k, n, tail
        <5>1. QED
          BY <1>2, <4>1
      <4>3. i + 1 = n /\ ~Live(r)
        BY <1>3, <4>2
      <4>4. i = k
        <5> HIDE DEF k, n, tail
        <5>1. QED
          BY <1>2, <4>1, <4>3
      <4>5. QED
        BY <3>2, <4>1, <4>3, <4>4
    <3>3. QED
      BY <3>1, <3>2
  <2>3. \A q \in Requests : Live(q)' <=> Live(q)
    BY <1>1 DEF Live, NoCall
  <2>4. QED
    BY <2>1, <2>2, <2>3 DEF Ordered, Live, NoCall
<1>5. Calls' /\ Queued'
  BY <1>1 DEF Inv, Network, Calls, Queued, NoCall
<1>6. r \in {run.req, rerun.req}
  BY <1>1 DEF Inv, Wanted
<1>7. ASSUME frame # "progress"
      PROVE  ~Live(r) /\ wire'[r] = <<>>
  <2>1. 1 = n /\ ~Live(r)
    BY <1>2, <1>3, <1>7
  <2>2. k = 0
    <3> HIDE DEF k, n, tail
    <3>1. QED
      BY <1>2, <2>1
  <2>3. QED
    BY <1>0, <1>2, <2>1, <2>2
<1>8. QED
  BY <1>1, <1>4, <1>5, <1>6, <1>7 DEF Network

(* The end of a stream leaves the tab without one.                         *)
LEMMA LastRead ==
    ASSUME Inv, NEW r \in Requests, NEW frame \in Frame \ {"progress"}, Read(r, frame)
    PROVE  /\ Network' /\ stored' = stored
           /\ run.req = r \/ rerun.req = r
           /\ \A q \in Requests : ~Live(q)' /\ wire'[q] = <<>>
<1>1. /\ Network' /\ call' = call /\ stored' = stored
      /\ r \in {run.req, rerun.req}
      /\ wire' = [wire EXCEPT ![r] = Tail(@)]
      /\ ~Live(r) /\ wire'[r] = <<>>
  BY ReadKeeps
<1>2. \A q \in Requests : q # r => ~Live(q) /\ wire[q] = <<>>
  BY <1>1, Alone DEF Inv, Wanted
<1>3. \A q \in Requests : wire'[q] = <<>>
  BY <1>1, <1>2 DEF Inv, Network, Ordered
<1>4. \A q \in Requests : ~Live(q)'
  BY <1>1, <1>2 DEF Live, NoCall
<1>5. QED
  BY <1>1, <1>3, <1>4

LEMMA ListenKeeps ==
    ASSUME Inv, NEW r \in Requests, Listen(r)
    PROVE  Inv'
<1>1. CASE ReadProgress(r)
  <2>1. Read(r, "progress") /\ UNCHANGED <<landing, screen>>
    BY <1>1 DEF ReadProgress
  <2>2. /\ Network' /\ call' = call /\ stored' = stored
        /\ wire' = [wire EXCEPT ![r] = Tail(@)] /\ r \in {run.req, rerun.req}
    BY <2>1, ReadKeeps
  <2>3. Screen' /\ Pages'
    BY <2>1, <2>2 DEF landing, screen, Inv, Screen, Pages
  <2>4. Wanted'
    <3>1. \A q \in Requests : Live(q)' <=> Live(q)
      BY <2>2 DEF Live, NoCall
    <3>2. \A q \in Requests : wire'[q] # <<>> => q \in {run.req, rerun.req}
      BY <2>2 DEF Inv, Wanted, Network, Ordered
    <3>3. QED
      BY <2>1, <2>2, <3>1, <3>2 DEF screen, Inv, Wanted
  <2>5. QED
    BY <2>2, <2>3, <2>4 DEF Inv
<1>2. CASE ReadDone(r)
  <2>1. Navigate("main", project) /\ UNCHANGED <<stored, landing>>
    BY <1>2 DEF ReadDone
  <2>2. /\ project \in Projects \cup {None} /\ stored' = stored
        /\ uploads' \subseteq Projects /\ restores' \subseteq Projects
    BY <2>1 DEF landing, Inv, Screen
  <2>3. QED
    BY <2>1, <2>2, NavigateKeeps
<1>3. CASE ReadFailed(r)
  <2>1. PICK frame \in {"failed", "error"} : Read(r, frame)
    BY <1>3 DEF ReadFailed
  <2>2. /\ Network' /\ stored' = stored
        /\ run.req = r \/ rerun.req = r
        /\ \A q \in Requests : ~Live(q)' /\ wire'[q] = <<>>
    BY <2>1, LastRead DEF Frame
  <2>3. /\ IF r = run.req
           THEN run' = [run EXCEPT !.status = "failed", !.req = None] /\ UNCHANGED rerun
           ELSE rerun' = [rerun EXCEPT !.status = "failed", !.req = None] /\ UNCHANGED run
        /\ UNCHANGED <<landing, route, project, view>>
    BY <1>3 DEF ReadFailed
  <2>4. Screen'
    <3>1. UNCHANGED <<stored, uploads, restores, route, project, view>>
      BY <2>2, <2>3 DEF landing
    <3>2. CASE r = run.req
      BY <2>3, <3>1, <3>2 DEF Inv, Screen
    <3>3. CASE r # run.req
      BY <2>3, <3>1, <3>3 DEF Inv, Screen
    <3>4. QED
      BY <3>2, <3>3
  <2>5. run'.req = None /\ rerun'.req = None
    BY <2>2, <2>3, Alone DEF Inv, Screen
  <2>6. Pages'
    BY <2>3, <2>5 DEF Inv, Pages
  <2>7. Wanted'
    BY <2>2 DEF Wanted
  <2>8. QED
    BY <2>2, <2>4, <2>6, <2>7 DEF Inv
<1>4. CASE ReadRerunDone(r)
  <2>1. PICK frame \in {"done", "empty"} : Read(r, frame)
    BY <1>4 DEF ReadRerunDone
  <2>2. /\ Network' /\ stored' = stored
        /\ \A q \in Requests : ~Live(q)' /\ wire'[q] = <<>>
    BY <2>1, LastRead DEF Frame
  <2>3. /\ r = rerun.req
        /\ \/ view' = [view EXCEPT !.status = "loading"]
           \/ view' = [view EXCEPT !.override = stored[project]]
        /\ rerun' = [rerun EXCEPT !.status = "done", !.req = None]
        /\ UNCHANGED <<landing, route, project, run>>
    BY <1>4 DEF ReadRerunDone, Refetch
  <2>4. /\ route = "main" /\ project \in Projects /\ stored[project] \in Specs
        /\ run.req = None
    BY <2>3, Alone DEF Inv, Screen, Pages
  <2>5. Screen'
    BY <2>2, <2>3, <2>4 DEF landing, Inv, Screen
  <2>6. rerun'.req = None
    BY <2>3 DEF Inv, Screen
  <2>7. view'.of = view.of /\ (view'.status = view.status \/ view'.status = "loading")
    BY <2>3 DEF Inv, Screen
  <2>8. Pages'
    BY <2>3, <2>4, <2>6, <2>7 DEF Inv, Pages
  <2>9. Wanted'
    BY <2>2 DEF Wanted
  <2>10. QED
    BY <2>2, <2>5, <2>8, <2>9 DEF Inv
<1>5. QED
  BY <1>1, <1>2, <1>3, <1>4 DEF Listen
----------------------------------------------------------------------------
(* The server.                                                             *)

(* It changes what is on its way and what is live, and nothing in the tab. *)
LEMMA ServerKeeps ==
    ASSUME Inv, Network', UNCHANGED client,
           \A r \in Requests :
                /\ Live(r)' => Live(r) /\ call'[r].project = call[r].project
                                       /\ call'[r].spec = call[r].spec
                /\ wire'[r] # <<>> => wire[r] # <<>> \/ Live(r)
    PROVE  Inv'
<1>1. UNCHANGED <<stored, uploads, restores, route, project, run, view, rerun>>
  BY DEF client, landing, screen
<1>2. Screen' /\ Pages'
  BY <1>1 DEF Inv, Screen, Pages
<1>3. Wanted'
  BY <1>1 DEF Inv, Wanted
<1>4. QED
  BY <1>2, <1>3 DEF Inv

(* A frame is added to a stream that is still read.                        *)
LEMMA SendKeeps ==
    ASSUME Network, NEW r \in Requests, NEW frame \in Frame, Send(r, frame),
           call[r] # NoCall, Calls', Queued',
           frame # "progress" => ~Live(r)', \A q \in Requests : Live(q)' => Live(q)
    PROVE  /\ Network'
           /\ \A q \in Requests : wire'[q] # <<>> => wire[q] # <<>> \/ Live(q)
<1>1. CASE call[r].left
  <2>1. wire' = wire
    BY <1>1 DEF Send
  <2>2. Ordered'
    BY <2>1 DEF Network, Ordered, Live, NoCall
  <2>3. QED
    BY <2>1, <2>2 DEF Network
<1>2. CASE ~call[r].left
  <2>1. wire' = [wire EXCEPT ![r] = Append(@, frame)] /\ Live(r)
    BY <1>2 DEF Send, Live
  <2>2. /\ wire[r] \in Seq(Frame) /\ wire'[r] = Append(wire[r], frame)
        /\ wire' \in [Requests -> Seq(Frame)]
    BY <2>1 DEF Network, Ordered
  <2>3. ASSUME NEW q \in Requests, NEW i \in 1..Len(wire'[q]), wire'[q][i] # "progress"
        PROVE  i = Len(wire'[q]) /\ ~Live(q)'
    <3>1. CASE q # r
      BY <2>1, <2>3, <3>1 DEF Network, Ordered
    <3>2. CASE q = r
      <4>1. /\ Len(wire'[r]) = Len(wire[r]) + 1 /\ wire'[r][Len(wire[r]) + 1] = frame
            /\ Len(wire[r]) \in Nat
            /\ \A j \in 1..Len(wire[r]) : wire'[r][j] = wire[r][j]
        BY <2>2
      <4>2. \A j \in 1..Len(wire[r]) : wire[r][j] = "progress"
        BY <2>1 DEF Network, Ordered
      <4>3. i = Len(wire[r]) + 1
        BY <2>3, <3>2, <4>1, <4>2
      <4>4. QED
        BY <2>3, <3>2, <4>1, <4>3
    <3>3. QED
      BY <3>1, <3>2
  <2>4. Ordered'
    BY <2>2, <2>3 DEF Ordered, Live, NoCall
  <2>5. QED
    BY <2>1, <2>4 DEF Network, Ordered
<1>3. QED
  BY <1>1, <1>2

LEMMA ServeKeeps ==
    ASSUME Inv, NEW r \in Requests, Serve(r)
    PROVE  Inv'
<1> DEFINE Sent == [state : {"sent", "open"}, project : Projects, spec : Specs, left : BOOLEAN]
<1>1. UNCHANGED client
  BY DEF Serve, Admit, Refuse, Finish, Fail
<1>2. ASSUME queue # <<>>, r = Head(queue), queue' = Tail(queue)
      PROVE  /\ queue' \in Seq(Requests)
             /\ call[r] \in Sent /\ call[r] # NoCall
             /\ \A i \in 1..Len(queue') :
                   /\ queue'[i] # r /\ queue'[i] \in Requests
                   /\ call[queue'[i]] # NoCall /\ call[queue'[i]].state = "sent"
                   /\ \A j \in 1..Len(queue') : queue'[i] = queue'[j] => i = j
  <2> DEFINE tail == Tail(queue)
             n == Len(queue)
             k == Len(tail)
  <2>1. /\ queue \in Seq(Requests) /\ tail \in Seq(Requests)
        /\ n \in Nat \ {0} /\ k = n - 1 /\ queue[1] = r
        /\ \A i \in 1..k : tail[i] = queue[i + 1]
        /\ \A i \in 1..n :
              /\ queue[i] \in Requests
              /\ call[queue[i]] # NoCall /\ call[queue[i]].state = "sent"
              /\ \A j \in 1..n : queue[i] = queue[j] => i = j
    BY <1>2, HeadTailProperties, EmptySeq DEF Inv, Network, Queued
  <2> HIDE DEF tail, n, k
  <2>2. \A i \in 1..k : i + 1 \in 1..n /\ i + 1 # 1
    BY <2>1
  <2>3. 1 \in 1..n
    BY <2>1
  <2>4. \A i \in 1..k :
          /\ tail[i] # r /\ tail[i] \in Requests
          /\ call[tail[i]] # NoCall /\ call[tail[i]].state = "sent"
          /\ \A j \in 1..k : tail[i] = tail[j] => i = j
    <3> TAKE i \in 1..k
    <3>1. i + 1 \in 1..n /\ i + 1 # 1 /\ tail[i] = queue[i + 1]
      BY <2>1, <2>2
    <3>2. /\ tail[i] # r /\ tail[i] \in Requests
          /\ call[tail[i]] # NoCall /\ call[tail[i]].state = "sent"
      BY <2>1, <2>3, <3>1
    <3>3. ASSUME NEW j \in 1..k, tail[i] = tail[j]
          PROVE  i = j
      <4>1. j + 1 \in 1..n /\ tail[j] = queue[j + 1]
        BY <2>1, <2>2
      <4>2. i + 1 = j + 1
        BY <2>1, <3>1, <3>3, <4>1
      <4>3. QED
        BY <4>2
    <3>4. QED
      BY <3>2, <3>3
  <2>5. call[r] # NoCall
    BY <2>1, <2>3
  <2>6. call[r] \in Sent
    BY <2>5 DEF Inv, Network, Calls
  <2>7. queue' = tail
    BY <1>2 DEF tail
  <2>8. QED
    BY <2>1, <2>4, <2>5, <2>6, <2>7 DEF k
<1>3. ASSUME call[r].state = "open"
      PROVE  call[r] \in Sent /\ call[r] # NoCall
  BY <1>3 DEF Inv, Network, Calls, NoCall
<1>4. CASE Admit(r)
  <2>1. /\ queue # <<>> /\ r = Head(queue) /\ queue' = Tail(queue) /\ wire' = wire
        /\ call' = [call EXCEPT ![r].state = "open"]
    BY <1>4 DEF Admit
  <2>2. [call[r] EXCEPT !.state = "open"] \in Sent
    BY <1>2, <2>1
  <2>3. /\ \A q \in Requests \ {r} : call'[q] = call[q]
        /\ call'[r] \in Sent /\ call'[r].project = call[r].project
        /\ call'[r].spec = call[r].spec /\ call'[r].left = call[r].left
        /\ call' = [call EXCEPT ![r] = [call[r] EXCEPT !.state = "open"]]
    BY <1>2, <2>1, <2>2 DEF Inv, Network, Calls
  <2>4. Calls'
    BY <2>2, <2>3 DEF Inv, Network, Calls, NoCall
  <2>5. Queued'
    BY <1>2, <2>1, <2>3 DEF Queued, NoCall
  <2>6. \A q \in Requests : Live(q)' => Live(q)
    BY <1>2, <2>1, <2>3 DEF Live, NoCall
  <2>7. Ordered'
    BY <2>1, <2>6 DEF Inv, Network, Ordered, Live, NoCall
  <2>8. QED
    BY <1>1, <2>1, <2>3, <2>4, <2>5, <2>6, <2>7, ServerKeeps DEF Network
<1>5. ASSUME call[r] \in Sent, call[r] # NoCall, call' = [call EXCEPT ![r] = NoCall],
             Queued', NEW frame \in Frame, Send(r, frame)
      PROVE  Inv'
  <2>1. /\ \A q \in Requests \ {r} : call'[q] = call[q]
        /\ call'[r] = NoCall
    BY <1>5 DEF Inv, Network, Calls
  <2>2. Calls'
    BY <1>5 DEF Inv, Network, Calls, NoCall
  <2>3. ~Live(r)' /\ \A q \in Requests : Live(q)' => Live(q) /\ call'[q] = call[q]
    BY <2>1 DEF Live, NoCall
  <2>4. /\ Network'
        /\ \A q \in Requests : wire'[q] # <<>> => wire[q] # <<>> \/ Live(q)
    BY <1>5, <2>2, <2>3, SendKeeps DEF Inv
  <2>5. QED
    BY <1>1, <2>3, <2>4, ServerKeeps
<1>6. CASE Refuse(r)
  <2>1. /\ queue # <<>> /\ r = Head(queue) /\ queue' = Tail(queue)
        /\ call' = [call EXCEPT ![r] = NoCall] /\ Send(r, "error")
    BY <1>6 DEF Refuse, End
  <2>2. \A q \in Requests \ {r} : call'[q] = call[q]
    BY <2>1 DEF Inv, Network, Calls
  <2>3. Queued'
    BY <1>2, <2>1, <2>2 DEF Queued, NoCall
  <2>4. QED
    BY <1>2, <1>5, <2>1, <2>3 DEF Frame
<1>7. ASSUME call[r].state = "open", call' = [call EXCEPT ![r] = NoCall], queue' = queue
      PROVE  Queued'
  <2>1. \A q \in Requests \ {r} : call'[q] = call[q]
    BY <1>7 DEF Inv, Network, Calls
  <2>2. \A i \in 1..Len(queue) : queue[i] # r /\ queue[i] \in Requests
    BY <1>7 DEF Inv, Network, Queued
  <2>3. QED
    BY <1>7, <2>1, <2>2 DEF Inv, Network, Queued, NoCall
<1>8. CASE Finish(r)
  <2>1. /\ call[r].state = "open" /\ queue' = queue
        /\ call' = [call EXCEPT ![r] = NoCall] /\ \E frame \in {"done", "empty"} : Send(r, frame)
    BY <1>8 DEF Finish, End
  <2>2. QED
    BY <1>3, <1>5, <1>7, <2>1 DEF Frame
<1>9. CASE Fail(r)
  <2>1. /\ call[r].state = "open" /\ queue' = queue
        /\ call' = [call EXCEPT ![r] = NoCall] /\ Send(r, "failed")
    BY <1>9 DEF Fail, End
  <2>2. QED
    BY <1>3, <1>5, <1>7, <2>1 DEF Frame
<1>10. QED
  BY <1>4, <1>6, <1>8, <1>9 DEF Serve

LEMMA ProgressKeeps ==
    ASSUME Inv, NEW r \in Requests, Progress(r)
    PROVE  Inv'
<1>1. /\ call[r].state = "open" /\ Send(r, "progress")
      /\ call' = call /\ queue' = queue /\ UNCHANGED client
  BY DEF Progress
<1>2. call[r] # NoCall
  BY <1>1 DEF NoCall
<1>3. Calls' /\ Queued' /\ \A q \in Requests : Live(q)' => Live(q) /\ call'[q] = call[q]
  BY <1>1 DEF Inv, Network, Calls, Queued, Live, NoCall
<1>4. /\ Network'
      /\ \A q \in Requests : wire'[q] # <<>> => wire[q] # <<>> \/ Live(q)
  BY <1>1, <1>2, <1>3, SendKeeps DEF Inv, Frame
<1>5. QED
  BY <1>1, <1>3, <1>4, ServerKeeps

LEMMA LoseKeeps ==
    ASSUME Inv, NEW r \in Requests, Lose(r)
    PROVE  Inv'
<1> DEFINE Sent == [state : {"sent", "open"}, project : Projects, spec : Specs, left : BOOLEAN]
           lost == [call[r] EXCEPT !.left = TRUE]
<1>1. /\ call[r].state = "open" /\ ~call[r].left
      /\ call' = [call EXCEPT ![r].left = TRUE]
      /\ wire' = [wire EXCEPT ![r] = <<"error">>]
      /\ queue' = queue /\ UNCHANGED client
  BY DEF Lose
<1>2. call[r] \in Sent /\ Live(r)
  BY <1>1 DEF Inv, Network, Calls, NoCall, Live
<1>3. lost \in Sent /\ lost.left = TRUE /\ lost.state = "open"
  BY <1>1, <1>2
<1> HIDE DEF lost
<1>4. /\ call' = [call EXCEPT ![r] = lost] /\ call'[r] = lost
      /\ \A q \in Requests \ {r} : call'[q] = call[q]
  BY <1>1 DEF lost, Inv, Network, Calls
<1>5. ~Live(r)' /\ \A q \in Requests : Live(q)' => Live(q) /\ call'[q] = call[q]
  BY <1>3, <1>4 DEF Live, NoCall
<1>6. Calls'
  BY <1>3, <1>4 DEF Inv, Network, Calls, NoCall
<1>7. Queued'
  <2>1. \A i \in 1..Len(queue) : queue[i] # r /\ queue[i] \in Requests
    BY <1>1 DEF Inv, Network, Queued
  <2>2. QED
    BY <1>1, <1>4, <2>1 DEF Inv, Network, Queued, NoCall
<1>8. Ordered'
  <2>1. /\ wire' \in [Requests -> Seq(Frame)]
        /\ wire'[r] = <<"error">> /\ Len(wire'[r]) = 1
        /\ \A q \in Requests \ {r} : wire'[q] = wire[q]
    BY <1>1 DEF Inv, Network, Ordered, Frame
  <2>2. ASSUME NEW q \in Requests, NEW i \in 1..Len(wire'[q]),
               wire'[q][i] # "progress"
        PROVE  i = Len(wire'[q]) /\ ~Live(q)'
    <3>1. CASE q = r
      <4>1. ~Live(r)'
        BY <1>5
      <4>2. Len(wire'[q]) = 1
        BY <2>1, <3>1
      <4>3. i = 1
        BY <4>2
      <4>4. QED
        BY <3>1, <4>1, <4>2, <4>3
    <3>2. CASE q # r
      <4>1. wire'[q] = wire[q] /\ (Live(q)' => Live(q))
        BY <1>5, <2>1, <3>2
      <4>2. i = Len(wire[q]) /\ ~Live(q)
        BY <2>2, <4>1 DEF Inv, Network, Ordered
      <4>3. QED
        BY <4>1, <4>2
    <3>3. QED
      BY <3>1, <3>2
  <2>3. QED
    BY <2>1, <2>2 DEF Ordered
<1>9. \A q \in Requests : wire'[q] # <<>> => wire[q] # <<>> \/ Live(q)
  BY <1>1, <1>2 DEF Inv, Network, Ordered
<1>10. QED
  BY <1>1, <1>5, <1>6, <1>7, <1>8, <1>9, ServerKeeps DEF Network
----------------------------------------------------------------------------
(* Everything.                                                             *)

Store ==
    /\ hosted \in [Projects -> {"new", "up", "gone"}]
    /\ graphOf \in [Projects -> Specs \cup {None}]

LEMMA InitInv == Init => Inv /\ Store
<1> SUFFICES ASSUME Init
             PROVE  Inv /\ Store
  OBVIOUS
<1>1. Network
  BY DEF Init, Network, Calls, Queued, Ordered
<1>2. Screen /\ Pages
  BY SessionAssumption DEF SessionAssumption, Init, Screen, Pages, NoRun, NoView, NoRerun
<1>3. Wanted
  BY DEF Init, Wanted, Live
<1>4. QED
  BY <1>1, <1>2, <1>3 DEF Init, Inv, Store

LEMMA StoreNext == Inv /\ Store /\ [Next]_vars => Store'
<1> SUFFICES ASSUME Inv, Store, [Next]_vars
             PROVE  Store'
  OBVIOUS
<1>1. CASE UNCHANGED store
  BY <1>1 DEF store, Store
<1>2. ASSUME NEW r \in Requests, Finish(r)
      PROVE  Store'
  <2>1. call[r].spec \in Specs
    BY <1>2 DEF Finish, Inv, Network, Calls, NoCall
  <2>2. QED
    BY <1>2, <2>1 DEF Finish, Store
<1>3. ASSUME NEW p \in Projects, UploadDone(p) \/ Evict(p)
      PROVE  Store'
  BY <1>3 DEF UploadDone, Evict, Store
<1>4. QED
  BY <1>1, <1>2, <1>3
     DEF Next, vars, store, TopBar, Reload, Upload, UploadFailed, Restore, RestoreDone,
         RestoreFailed, Cancel, Retry, Edit, Refresh, ShowGraph, FetchFailed, Serve, Admit,
         Refuse, Fail, Listen, ReadProgress, ReadDone, ReadFailed, ReadRerunDone, Read,
         Progress, Lose

LEMMA NextInv == Inv /\ Store /\ [Next]_vars => Inv'
<1> SUFFICES ASSUME Inv, Store, [Next]_vars
             PROVE  Inv'
  OBVIOUS
<1>1. ASSUME UNCHANGED <<network, stored, screen>>,
             uploads' \subseteq Projects, restores' \subseteq Projects
      PROVE  Inv'
  <2>1. Network'
    BY <1>1 DEF network, Inv, Network, Calls, Queued, Ordered, Live, NoCall
  <2>2. Screen' /\ Pages'
    BY <1>1 DEF screen, Inv, Screen, Pages
  <2>3. Wanted'
    BY <1>1 DEF network, screen, Inv, Wanted, Live, NoCall
  <2>4. QED
    BY <2>1, <2>2, <2>3 DEF Inv
<1>2. uploads \subseteq Projects /\ restores \subseteq Projects
  BY DEF Inv, Screen
<1>3. CASE \E to \in {"landing", "analyzing", "main"} : TopBar(to)
  <2>1. PICK to \in {"landing", "analyzing", "main"} : TopBar(to)
    BY <1>3
  <2>2. Navigate(to, None) /\ stored' = stored /\ uploads' = uploads /\ restores' = restores
    BY <2>1 DEF TopBar, landing
  <2>3. QED
    BY <1>2, <2>2, NavigateKeeps
<1>4. ASSUME NEW p \in Projects, UploadDone(p)
      PROVE  Inv'
  <2>1. /\ Navigate("analyzing", p) /\ stored' = stored
        /\ uploads' \subseteq Projects /\ restores' \subseteq Projects
    BY <1>2, <1>4 DEF UploadDone
  <2>2. QED
    BY <2>1, NavigateKeeps
<1>5. ASSUME NEW p \in Projects, RestoreDone(p)
      PROVE  Inv'
  <2>1. /\ Navigate("main", p) /\ stored' = stored
        /\ uploads' \subseteq Projects /\ restores' \subseteq Projects
    BY <1>2, <1>5 DEF RestoreDone
  <2>2. QED
    BY <2>1, NavigateKeeps
<1>6. ASSUME NEW p \in Projects,
             Upload(p) \/ UploadFailed(p) \/ Restore(p) \/ RestoreFailed(p) \/ Evict(p)
      PROVE  Inv'
  BY <1>1, <1>2, <1>6 DEF Upload, UploadFailed, Restore, RestoreFailed, Evict, client, landing
<1>7. CASE ShowGraph
  <2>1. project \in Projects
    BY <1>7 DEF ShowGraph, Inv, Screen
  <2>2. graphOf[project] \in Specs \cup {None}
    BY <2>1 DEF Store
  <2>3. QED
    BY <1>7, <2>2, ShowGraphKeeps
<1>8. CASE UNCHANGED vars
  BY <1>1, <1>2, <1>8 DEF vars, landing
<1>9. QED
  BY <1>3, <1>4, <1>5, <1>6, <1>7, <1>8, ReloadKeeps, CancelKeeps, RetryKeeps, EditKeeps,
     RefreshKeeps, FetchFailedKeeps, ServeKeeps, ListenKeeps, ProgressKeeps, LoseKeeps
     DEF Next

LEMMA Invariance == Spec => [](Inv /\ Store)
<1>1. Inv /\ Store /\ [Next]_vars => (Inv /\ Store)'
  BY StoreNext, NextInv
<1>2. QED
  BY <1>1, InitInv, PTL DEF Spec

----------------------------------------------------------------------------
(* What a re-analysis leaves behind.  The server begins the requests in    *)
(* the order they were sent and has one of a project at a time, and that   *)
(* of useReanalyze is the last sent: when its stream brings a done event,  *)
(* no other of its project is on the server, so the graph there stays that *)
(* of the specification it was for until the tab sends the next one.       *)

Answered(r) == \E i \in 1..Len(wire[r]) : wire[r][i] \in {"done", "empty"}

NoneOf(p) == \A q \in Requests : call[q] # NoCall => call[q].project # p

Settled(p, s) == NoneOf(p) /\ graphOf[p] \in {s, None}

InTurn ==
    /\ \A q, r \in Requests :
          (call[q].state = "open" /\ call[r].state = "open" /\ call[q].project = call[r].project)
            => q = r
    /\ \A r \in Requests : call[r].state = "sent" => \E i \in 1..Len(queue) : queue[i] = r

Newest ==
    rerun.req # None =>
        /\ rerun.status = "running" /\ rerun.of = project
        /\ queue # <<>> => queue[Len(queue)] = rerun.req
        /\ Answered(rerun.req) => /\ call[rerun.req] = NoCall
                                  /\ Settled(project, rerun.last)

DoneSettled ==
    rerun.status = "done" =>
        /\ rerun.last # None /\ rerun.of # None /\ rerun.req = None
        /\ Settled(rerun.of, rerun.last)

RerunOnMain == rerun.status # "idle" => route = "main"

Rerun == Newest /\ DoneSettled /\ RerunOnMain /\ DoneGraphIsOfSpec

(* Every call that is not over is one of the two kinds.                    *)
LEMMA CallKinds ==
    ASSUME Calls, NEW r \in Requests
    PROVE  /\ call[r] # NoCall <=> call[r].state \in {"sent", "open"}
           /\ call[r] # NoCall => /\ call[r].project \in Projects /\ call[r].spec \in Specs
                                  /\ call[r].left \in BOOLEAN
                                  /\ DOMAIN call[r] = {"state", "project", "spec", "left"}
  BY DEF Calls, NoCall

(* Aborting changes no call but in who reads it.                           *)
LEMMA AbortTurn ==
    ASSUME Network, InTurn, NEW rs, Abort(rs)
    PROVE  /\ InTurn' /\ queue' = queue
           /\ \A q \in Requests : /\ call'[q] = NoCall <=> call[q] = NoCall
                                  /\ call'[q].project = call[q].project
                                  /\ Answered(q)' => Answered(q)
<1>1. queue' = queue
  BY DEF Abort
<1>2. \A q \in Requests : /\ call'[q] = NoCall <=> call[q] = NoCall
                          /\ call'[q].project = call[q].project
                          /\ call'[q].state = call[q].state
  <2>1. TAKE q \in Requests
  <2>2. CASE q \in rs /\ call[q] # NoCall
    <3>1. /\ call'[q] = [call[q] EXCEPT !.left = TRUE]
          /\ DOMAIN call[q] = {"state", "project", "spec", "left"}
          /\ call[q].state \in {"sent", "open"}
      BY <2>2, CallKinds DEF Abort, Network
    <3>2. call'[q].state = call[q].state /\ call'[q].project = call[q].project
      BY <3>1
    <3>3. call'[q] # NoCall
      BY <3>1, <3>2 DEF NoCall
    <3>4. QED
      BY <2>2, <3>2, <3>3
  <2>3. CASE ~(q \in rs /\ call[q] # NoCall)
    BY <2>3 DEF Abort
  <2>4. QED
    BY <2>2, <2>3
<1>3. InTurn'
  BY <1>1, <1>2 DEF InTurn
<1>4. \A q \in Requests : Answered(q)' => Answered(q)
  <2>1. \A q \in Requests : wire'[q] # <<>> => wire'[q] = wire[q]
    BY DEF Abort
  <2>2. QED
    BY <2>1 DEF Answered
<1>5. QED
  BY <1>1, <1>2, <1>3, <1>4

(* The new request goes behind those that wait.                            *)
LEMMA PostTurn ==
    ASSUME Network, Wanted, InTurn, Unused # {}, NEW rs, NEW p \in Projects, NEW s \in Specs,
           AbortAndPost(rs, p, s)
    PROVE  /\ InTurn' /\ queue' # <<>> /\ queue'[Len(queue')] = Fresh
           /\ wire'[Fresh] = <<>>
<1> DEFINE new == [state |-> "sent", project |-> p, spec |-> s, left |-> FALSE]
<1>1. Fresh \in Requests /\ call[Fresh] = NoCall /\ wire[Fresh] = <<>>
  <2>1. Fresh \in Unused
    BY DEF Fresh
  <2>2. QED
    BY <2>1 DEF Unused, Wanted
<1>2. /\ queue \in Seq(Requests) /\ Len(queue) \in Nat
      /\ queue' \in Seq(Requests) /\ Len(queue') = Len(queue) + 1
      /\ \A i \in 1..Len(queue) : queue'[i] = queue[i]
      /\ queue'[Len(queue')] = Fresh
  BY <1>1 DEF AbortAndPost, Network, Queued
<1>3. call'[Fresh].state = "sent"
  BY <1>1 DEF AbortAndPost
<1>4. \A q \in Requests \ {Fresh} : /\ call'[q].project = call[q].project
                                    /\ call'[q].state = call[q].state
  <2>1. TAKE q \in Requests \ {Fresh}
  <2>2. CASE q \in rs /\ call[q] # NoCall
    <3>1. /\ call'[q] = [call[q] EXCEPT !.left = TRUE]
          /\ DOMAIN call[q] = {"state", "project", "spec", "left"}
      BY <2>2, CallKinds DEF AbortAndPost, Network
    <3>2. QED
      BY <3>1
  <2>3. CASE ~(q \in rs /\ call[q] # NoCall)
    BY <2>3 DEF AbortAndPost
  <2>4. QED
    BY <2>2, <2>3
<1>5. InTurn'
  <2>1. \A q, r \in Requests :
          (call'[q].state = "open" /\ call'[r].state = "open"
             /\ call'[q].project = call'[r].project) => q = r
    BY <1>3, <1>4 DEF InTurn
  <2>2. ASSUME NEW r \in Requests, call'[r].state = "sent"
        PROVE  \E i \in 1..Len(queue') : queue'[i] = r
    <3>1. CASE r = Fresh
      BY <1>2, <3>1
    <3>2. CASE r # Fresh
      <4>1. PICK i \in 1..Len(queue) : queue[i] = r
        BY <1>4, <2>2, <3>2 DEF InTurn
      <4>2. i \in 1..Len(queue') /\ queue'[i] = r
        BY <1>2, <4>1
      <4>3. QED
        BY <4>2
    <3>3. QED
      BY <3>1, <3>2
  <2>3. QED
    BY <2>1, <2>2 DEF InTurn
<1>6. wire'[Fresh] = <<>>
  BY <1>1 DEF AbortAndPost
<1>7. queue' # <<>>
  BY <1>2
<1>8. QED
  BY <1>2, <1>5, <1>6, <1>7

(* A step of the server.                                                   *)
LEMMA ServerRerun ==
    ASSUME Inv, Rerun, UNCHANGED client,
           \A q \in Requests :
              call'[q] # NoCall => call[q] # NoCall /\ call'[q].project = call[q].project,
           queue' = queue \/ (queue # <<>> /\ queue' = Tail(queue)),
           rerun.req # None /\ Answered(rerun.req)' =>
              \/ Answered(rerun.req)
              \/ call'[rerun.req] = NoCall /\ Settled(project, rerun.last)',
           \A p \in Projects : NoneOf(p) => graphOf'[p] \in {graphOf[p], None}
    PROVE  Rerun'
<1>1. UNCHANGED <<stored, route, project, run, view, rerun>>
  BY DEF client, screen
<1>2. \A p \in Projects : \A s : Settled(p, s) => Settled(p, s)'
  BY DEF Settled, NoneOf
<1>3. Newest'
  <2> SUFFICES ASSUME rerun.req # None
               PROVE  /\ queue' # <<>> => queue'[Len(queue')] = rerun.req
                      /\ Answered(rerun.req)' => /\ call'[rerun.req] = NoCall
                                                 /\ Settled(project, rerun.last)'
    BY <1>1 DEF Rerun, Newest, Settled, NoneOf, Answered, NoCall
  <2>1. /\ rerun.req \in Requests /\ project \in Projects
        /\ queue # <<>> => queue[Len(queue)] = rerun.req
        /\ Answered(rerun.req) => call[rerun.req] = NoCall /\ Settled(project, rerun.last)
    BY DEF Inv, Screen, Pages, Rerun, Newest
  <2>2. ASSUME queue' # <<>>
        PROVE  queue'[Len(queue')] = rerun.req
    <3>1. CASE queue' = queue
      BY <2>1, <2>2, <3>1
    <3>2. CASE queue # <<>> /\ queue' = Tail(queue)
      <4> DEFINE tail == Tail(queue)
      <4>1. /\ tail \in Seq(Requests) /\ Len(tail) = Len(queue) - 1 /\ Len(queue) \in Nat
            /\ \A i \in 1..Len(tail) : tail[i] = queue[i + 1]
            /\ Len(tail) # 0
        BY <2>2, <3>2, HeadTailProperties, EmptySeq DEF Inv, Network, Queued
      <4> HIDE DEF tail
      <4>2. tail[Len(tail)] = queue[Len(queue)]
        BY <4>1
      <4>3. QED
        BY <2>1, <3>2, <4>2 DEF tail
    <3>3. QED
      BY <3>1, <3>2
  <2>3. ASSUME Answered(rerun.req)'
        PROVE  call'[rerun.req] = NoCall /\ Settled(project, rerun.last)'
    BY <1>1, <1>2, <2>1, <2>3
  <2>4. QED
    BY <2>2, <2>3
<1>4. DoneSettled'
  <2>1. rerun.status = "done" => rerun.of \in Projects
    BY DEF Inv, Screen, Rerun, DoneSettled
  <2>2. rerun.status = "done" => Settled(rerun.of, rerun.last)'
    BY <1>1, <1>2, <2>1 DEF Rerun, DoneSettled
  <2>3. QED
    BY <1>1, <2>2 DEF Rerun, DoneSettled, Settled, NoneOf, NoCall
<1>5. RerunOnMain' /\ DoneGraphIsOfSpec'
  BY <1>1 DEF Rerun, RerunOnMain, DoneGraphIsOfSpec, Shown
<1>6. QED
  BY <1>3, <1>4, <1>5 DEF Rerun

(* A step of the tab that sends nothing.                                   *)
LEMMA TabRerun ==
    ASSUME Inv, Rerun, graphOf' = graphOf, queue' = queue, route' = route,
           \A q \in Requests : /\ call'[q] = NoCall <=> call[q] = NoCall
                               /\ call'[q].project = call[q].project
                               /\ Answered(q)' => Answered(q),
           rerun' = rerun \/ rerun' = [rerun EXCEPT !.req = None],
           rerun'.req # None => project' = project,
           DoneGraphIsOfSpec'
    PROVE  Rerun'
<1>1. /\ rerun'.status = rerun.status /\ rerun'.last = rerun.last /\ rerun'.of = rerun.of
      /\ rerun'.req \in {rerun.req, None}
  BY DEF Inv, Screen
<1>2. \A p, s : Settled(p, s) => Settled(p, s)'
  BY DEF Settled, NoneOf
<1>3. Newest'
  <2> SUFFICES ASSUME rerun'.req # None
               PROVE  /\ rerun'.status = "running" /\ rerun'.of = project'
                      /\ queue' # <<>> => queue'[Len(queue')] = rerun'.req
                      /\ Answered(rerun.req)' => /\ call'[rerun.req] = NoCall
                                                 /\ Settled(project, rerun.last)'
    BY <1>1 DEF Newest, Settled, NoneOf, Answered, NoCall
  <2>1. rerun.req # None /\ rerun'.req = rerun.req /\ rerun.req \in Requests
    BY <1>1 DEF Inv, Screen
  <2>2. QED
    BY <1>1, <1>2, <2>1 DEF Rerun, Newest
<1>4. DoneSettled'
  BY <1>1, <1>2 DEF Rerun, DoneSettled, Settled, NoneOf, NoCall
<1>5. QED
  BY <1>1, <1>3, <1>4 DEF Rerun, RerunOnMain

(* useReanalyze is set up anew.                                            *)
LEMMA NoRerunKeeps ==
    ASSUME rerun'.status = "idle", rerun'.req = None
    PROVE  Rerun'
  BY DEF Rerun, Newest, DoneSettled, RerunOnMain, DoneGraphIsOfSpec

LEMMA NavigateRerun ==
    ASSUME Inv, InTurn, Rerun, NEW to \in {"landing", "analyzing", "main"},
           NEW p \in Projects \cup {None}, Navigate(to, p), stored' = stored, graphOf' = graphOf
    PROVE  InTurn' /\ Rerun'
<1> DEFINE started == to = "analyzing" /\ SetUp(to, p)
           rs == {run.req, rerun.req}
           kept == rs \ {run'.req, rerun'.req}
<1>0. /\ route' = to /\ project' = p
      /\ run' = RunOn(to, p) /\ view' = ViewOn(to, p) /\ rerun' = RerunOn(to, p)
  BY DEF Navigate
<1>1. CASE started
  <2>1. AbortAndPost(rs, p, stored[p]) /\ Unused # {} /\ p \in Projects
    BY <1>1 DEF Navigate, SetUp
  <2>2. stored[p] \in Specs
    BY <2>1 DEF Inv, Screen
  <2>3. InTurn'
    <3> DEFINE s == stored[p]
    <3>1. AbortAndPost(rs, p, s) /\ s \in Specs /\ Network /\ Wanted
      BY <2>1, <2>2 DEF Inv
    <3> HIDE DEF rs, s
    <3>2. QED
      BY <2>1, <3>1, PostTurn
  <2>4. rerun' = NoRerun
    BY <1>0, <1>1 DEF RerunOn
  <2>5. QED
    BY <2>3, <2>4, NoRerunKeeps DEF NoRerun
<1>2. CASE ~started
  <2>1. Abort(kept)
    BY <1>2 DEF Navigate
  <2> HIDE DEF kept, rs
  <2>2. /\ InTurn' /\ queue' = queue
        /\ \A q \in Requests : /\ call'[q] = NoCall <=> call[q] = NoCall
                               /\ call'[q].project = call[q].project
                               /\ Answered(q)' => Answered(q)
    BY <2>1, AbortTurn DEF Inv
  <2>3. CASE to # "main" \/ route # to
    <3>1. rerun' = NoRerun
      BY <1>0, <2>3 DEF RerunOn
    <3>2. QED
      BY <2>2, <3>1, NoRerunKeeps DEF NoRerun
  <2>4. CASE to = "main" /\ route = "main"
    <3>1. /\ rerun' = rerun \/ rerun' = [rerun EXCEPT !.req = None]
          /\ rerun'.req # None => project' = project
      BY <1>0, <2>4 DEF RerunOn, Inv, Screen
    <3>2. /\ rerun'.status = rerun.status /\ rerun'.last = rerun.last /\ rerun'.of = rerun.of
      BY <3>1 DEF Inv, Screen
    <3>3. DoneGraphIsOfSpec'
      <4> SUFFICES ASSUME view'.status = "ready", rerun.status = "done", rerun.of = p
                   PROVE  Shown' = rerun.last
        BY <1>0, <3>2 DEF DoneGraphIsOfSpec
      <4>1. p # None
        BY DEF Rerun, DoneSettled
      <4>2. p = project
        BY <1>0, <2>4, <4>1 DEF ViewOn, SetUp, Inv, Screen
      <4>3. view' = view
        BY <1>0, <2>4, <4>1, <4>2 DEF ViewOn, SetUp
      <4>4. QED
        BY <4>2, <4>3 DEF Rerun, DoneGraphIsOfSpec, Shown
    <3>4. QED
      BY <1>0, <2>2, <2>4, <3>1, <3>3, TabRerun
  <2>5. QED
    BY <2>3, <2>4
<1>3. QED
  BY <1>1, <1>2

LEMMA ReloadRerun == Inv /\ InTurn /\ Reload => InTurn' /\ Rerun'
<1> SUFFICES ASSUME Inv, InTurn, Reload
             PROVE  InTurn' /\ Rerun'
  OBVIOUS
<1> DEFINE rs == {run.req, rerun.req}
<1>1. Abort(rs) /\ rerun' = NoRerun
  BY DEF Reload
<1> HIDE DEF rs
<1>2. QED
  BY <1>1, AbortTurn, NoRerunKeeps DEF Inv, NoRerun

(* The analyzing page has no re-analysis.                                  *)
LEMMA AnalyzingRerun ==
    ASSUME Inv, InTurn, Rerun, Cancel \/ Retry
    PROVE  InTurn' /\ Rerun'
<1>1. rerun'.status = "idle" /\ rerun'.req = None
  BY DEF Cancel, Retry, Rerun, RerunOnMain, Inv, Pages
<1>2. CASE Cancel
  <2> DEFINE rs == {run.req}
  <2>1. Abort(rs)
    BY <1>2 DEF Cancel
  <2> HIDE DEF rs
  <2>2. QED
    BY <1>1, <2>1, AbortTurn, NoRerunKeeps DEF Inv
<1>3. CASE Retry
  <2> DEFINE s == stored[project]
  <2>1. /\ project \in Projects /\ s \in Specs
        /\ Unused # {} /\ AbortAndPost({}, project, s) /\ Network /\ Wanted
    BY <1>3 DEF Retry, Inv, Screen
  <2> HIDE DEF s
  <2>2. InTurn'
    BY <2>1, PostTurn
  <2>3. QED
    BY <1>1, <2>2, NoRerunKeeps
<1>4. QED
  BY <1>2, <1>3

LEMMA ReanalyseRerun ==
    ASSUME Inv, InTurn, Rerun, NEW s \in Specs, Reanalyse(s), graphOf' = graphOf,
           project \in Projects, route = "main", UNCHANGED <<route, project>>,
           (rerun.status = "done" /\ rerun.of = project /\ rerun.last = s) => Shown' = s
    PROVE  InTurn' /\ Rerun'
<1>1. CASE rerun.last \in {None, s}
  <2>1. rerun' = [rerun EXCEPT !.last = s] /\ UNCHANGED <<call, queue, wire>>
    BY <1>1 DEF Reanalyse, network
  <2>2. InTurn'
    BY <2>1 DEF InTurn
  <2>3. /\ rerun'.status = rerun.status /\ rerun'.of = rerun.of /\ rerun'.req = rerun.req
        /\ rerun'.last = s
    BY <2>1 DEF Inv, Screen
  <2>4. CASE rerun.last = s
    <3>1. rerun' = rerun
      BY <2>1, <2>4 DEF Inv, Screen
    <3>2. DoneGraphIsOfSpec'
      BY <2>4, <3>1 DEF DoneGraphIsOfSpec
    <3>3. \A q \in Requests : Answered(q)' => Answered(q)
      BY <2>1 DEF Answered
    <3>4. QED
      BY <2>1, <2>2, <3>1, <3>2, <3>3, TabRerun
  <2>5. CASE rerun.last = None
    <3>1. rerun.status # "done"
      BY <2>5 DEF Rerun, DoneSettled
    <3>2. rerun.req = None
      <4>1. stored[project] \in Specs
        BY DEF Inv, Screen
      <4>2. QED
        BY <2>5, <4>1, Alone DEF Inv, Pages
    <3>3. QED
      BY <2>2, <2>3, <3>1, <3>2
         DEF Rerun, Newest, DoneSettled, RerunOnMain, DoneGraphIsOfSpec
  <2>6. QED
    BY <1>1, <2>4, <2>5
<1>2. CASE rerun.last \notin {None, s}
  <2> DEFINE rs == {rerun.req}
  <2>1. /\ Unused # {} /\ AbortAndPost(rs, project, s)
        /\ rerun' = [status |-> "running", req |-> Fresh, last |-> s, of |-> project]
        /\ Network /\ Wanted
    BY <1>2 DEF Reanalyse, Inv
  <2> HIDE DEF rs
  <2>2. /\ InTurn' /\ queue' # <<>> /\ queue'[Len(queue')] = Fresh
        /\ wire'[Fresh] = <<>>
    BY <2>1, PostTurn
  <2>3. ~Answered(rerun.req)'
    <3>1. wire'[rerun'.req] = <<>>
      BY <2>1, <2>2
    <3>2. QED
      BY <3>1 DEF Answered
  <2>4. Newest'
    BY <2>1, <2>2, <2>3 DEF Newest
  <2>5. QED
    BY <2>1, <2>2, <2>4 DEF Rerun, DoneSettled, RerunOnMain, DoneGraphIsOfSpec
<1>3. QED
  BY <1>1, <1>2

LEMMA EditRerun ==
    ASSUME Inv, InTurn, Rerun, NEW s \in Specs, Edit(s)
    PROVE  InTurn' /\ Rerun'
<1>1. /\ route = "main" /\ project \in Projects
      /\ UNCHANGED <<route, project, view, graphOf>>
  BY DEF Edit, store, Inv, Screen
<1>2. CASE view.status = "ready"
  <2>1. Reanalyse(s)
    BY <1>2 DEF Edit
  <2>2. (rerun.status = "done" /\ rerun.of = project /\ rerun.last = s) => Shown' = s
    BY <1>1, <1>2 DEF Rerun, DoneGraphIsOfSpec, Shown
  <2>3. QED
    BY <1>1, <2>1, <2>2, ReanalyseRerun
<1>3. CASE view.status # "ready"
  <2>1. UNCHANGED <<rerun, call, queue, wire>>
    BY <1>3 DEF Edit, network
  <2>2. InTurn' /\ DoneGraphIsOfSpec' /\ \A q \in Requests : Answered(q)' => Answered(q)
    BY <1>1, <1>3, <2>1 DEF InTurn, DoneGraphIsOfSpec, Answered
  <2>3. QED
    BY <1>1, <2>1, <2>2, TabRerun
<1>4. QED
  BY <1>2, <1>3

(* The graph that comes after a done event is the one the event was for.   *)
LEMMA ShowGraphRerun ==
    ASSUME Inv, InTurn, Rerun, ShowGraph
    PROVE  InTurn' /\ Rerun'
<1>1. /\ view.status = "loading" /\ project # None /\ graphOf[project] # None
      /\ view' = [status |-> "ready", of |-> project, spec |-> graphOf[project],
                  override |-> None]
      /\ Reanalyse(stored[project])
      /\ UNCHANGED <<graphOf, stored, route, project>>
  BY DEF ShowGraph, store
<1>2. route = "main" /\ project \in Projects /\ stored[project] \in Specs
  BY <1>1 DEF Inv, Screen, Pages
<1>3. Shown' = graphOf[project]
  BY <1>1 DEF Shown
<1>4. rerun.status = "done" /\ rerun.of = project => graphOf[project] = rerun.last
  BY <1>1 DEF Rerun, DoneSettled, Settled
<1>5. QED
  BY <1>1, <1>2, <1>3, <1>4, ReanalyseRerun

LEMMA RefreshRerun ==
    ASSUME Inv, InTurn, Rerun, Refresh
    PROVE  InTurn' /\ Rerun'
<1> DEFINE rs == {rerun.req}
<1>1. /\ Abort(rs) /\ view' = [view EXCEPT !.status = "loading"]
      /\ rerun' = [rerun EXCEPT !.req = None]
      /\ UNCHANGED <<graphOf, route, project>>
  BY DEF Refresh, Refetch, store
<1> HIDE DEF rs
<1>2. /\ InTurn' /\ queue' = queue
      /\ \A q \in Requests : /\ call'[q] = NoCall <=> call[q] = NoCall
                             /\ call'[q].project = call[q].project
                             /\ Answered(q)' => Answered(q)
  BY <1>1, AbortTurn DEF Inv
<1>3. view'.status # "ready"
  BY <1>1 DEF Inv, Screen
<1>4. QED
  BY <1>1, <1>2, <1>3, TabRerun DEF DoneGraphIsOfSpec

LEMMA FetchFailedRerun ==
    ASSUME Inv, InTurn, Rerun, FetchFailed
    PROVE  InTurn' /\ Rerun'
<1>1. /\ view' = [view EXCEPT !.status = "error"]
      /\ UNCHANGED <<graphOf, route, project, rerun, call, queue, wire>>
  BY DEF FetchFailed, store, network
<1>2. view'.status # "ready"
  BY <1>1 DEF Inv, Screen
<1>3. InTurn' /\ \A q \in Requests : Answered(q)' => Answered(q)
  BY <1>1 DEF InTurn, Answered
<1>4. QED
  BY <1>1, <1>2, <1>3, TabRerun DEF DoneGraphIsOfSpec

(* What is left to read of a stream was there before.                      *)
LEMMA TailAnswers ==
    ASSUME Network, NEW r \in Requests, wire[r] # <<>>, wire' = [wire EXCEPT ![r] = Tail(@)]
    PROVE  \A q \in Requests : Answered(q)' => Answered(q)
<1> DEFINE tail == Tail(wire[r])
<1>1. /\ tail \in Seq(Frame) /\ Len(tail) = Len(wire[r]) - 1 /\ Len(wire[r]) \in Nat
      /\ \A i \in 1..Len(tail) : tail[i] = wire[r][i + 1]
  BY HeadTailProperties DEF Network, Ordered
<1>2. wire'[r] = tail /\ \A q \in Requests \ {r} : wire'[q] = wire[q]
  BY DEF Network, Ordered
<1> HIDE DEF tail
<1>3. ASSUME NEW i \in 1..Len(tail), tail[i] \in {"done", "empty"}
      PROVE  Answered(r)
  <2>1. i + 1 \in 1..Len(wire[r]) /\ wire[r][i + 1] \in {"done", "empty"}
    BY <1>1, <1>3
  <2>2. QED
    BY <2>1 DEF Answered
<1>4. SUFFICES ASSUME NEW q \in Requests,
                      \E i \in 1..Len(wire'[q]) : wire'[q][i] \in {"done", "empty"}
               PROVE  Answered(q)
  BY DEF Answered
<1>5. CASE q = r
  BY <1>2, <1>3, <1>4, <1>5
<1>6. CASE q # r
  BY <1>2, <1>4, <1>6 DEF Answered
<1>7. QED
  BY <1>5, <1>6

(* The stream of useReanalyze ends with a done event: the graph is that of *)
(* the specification it was asked for, and nobody will change it.          *)
LEMMA ListenRerun ==
    ASSUME Inv, InTurn, Rerun, NEW r \in Requests, Listen(r)
    PROVE  InTurn' /\ Rerun'
<1>1. ASSUME NEW frame, Read(r, frame)
      PROVE  /\ InTurn' /\ UNCHANGED <<graphOf, stored, call, queue>>
             /\ wire[r] # <<>> /\ Head(wire[r]) = frame
             /\ \A q \in Requests : Answered(q)' => Answered(q)
  <2>1. /\ wire[r] # <<>> /\ Head(wire[r]) = frame /\ wire' = [wire EXCEPT ![r] = Tail(@)]
        /\ UNCHANGED <<graphOf, stored, call, queue>>
    BY <1>1 DEF Read, store
  <2>2. InTurn'
    BY <2>1 DEF InTurn
  <2>3. QED
    BY <2>1, <2>2, TailAnswers DEF Inv
<1>2. CASE ReadProgress(r)
  <2>1. Read(r, "progress") /\ UNCHANGED <<route, project, view, rerun>>
    BY <1>2 DEF ReadProgress, screen
  <2>2. DoneGraphIsOfSpec'
    BY <2>1 DEF Rerun, DoneGraphIsOfSpec, Shown
  <2>3. QED
    BY <1>1, <2>1, <2>2, TabRerun
<1>3. CASE ReadDone(r)
  <2>1. Navigate("main", project) /\ UNCHANGED <<stored, graphOf>>
    BY <1>3 DEF ReadDone, store
  <2>2. project \in Projects \cup {None}
    BY DEF Inv, Screen
  <2>3. QED
    BY <2>1, <2>2, NavigateRerun
<1>4. CASE ReadFailed(r)
  <2>1. PICK frame \in {"failed", "error"} : Read(r, frame)
    BY <1>4 DEF ReadFailed
  <2>2. UNCHANGED <<route, project, view>>
    BY <1>4 DEF ReadFailed
  <2>3. CASE r = run.req
    <3>1. UNCHANGED rerun
      BY <1>4, <2>3 DEF ReadFailed
    <3>2. DoneGraphIsOfSpec'
      BY <2>2, <3>1 DEF Rerun, DoneGraphIsOfSpec, Shown
    <3>3. QED
      BY <1>1, <2>1, <2>2, <3>1, <3>2, TabRerun
  <2>4. CASE r # run.req
    <3>1. rerun' = [rerun EXCEPT !.status = "failed", !.req = None]
      BY <1>4, <2>4 DEF ReadFailed
    <3>2. rerun'.status = "failed" /\ rerun'.req = None
      BY <3>1 DEF Inv, Screen
    <3>3. r = rerun.req
      BY <1>1, <2>1, <2>4 DEF Inv, Wanted
    <3>4. route' = "main"
      BY <2>2, <3>3, Alone DEF Inv, Pages
    <3>5. Rerun'
      BY <3>2, <3>4 DEF Rerun, Newest, DoneSettled, RerunOnMain, DoneGraphIsOfSpec
    <3>6. QED
      BY <1>1, <2>1, <3>5
  <2>5. QED
    BY <2>3, <2>4
<1>5. CASE ReadRerunDone(r)
  <2>1. PICK frame \in {"done", "empty"} : Read(r, frame)
    BY <1>5 DEF ReadRerunDone
  <2>2. /\ InTurn' /\ UNCHANGED <<graphOf, stored, call, queue>>
        /\ wire[r] # <<>> /\ Head(wire[r]) = frame
    BY <1>1, <2>1
  <2>3. Answered(r)
    <3>1. wire[r] \in Seq(Frame) /\ 1 \in 1..Len(wire[r]) /\ wire[r][1] = frame
      BY <2>2, HeadTailProperties, EmptySeq DEF Inv, Network, Ordered
    <3>2. QED
      BY <3>1 DEF Answered
  <2>4. /\ r = rerun.req /\ rerun.req # None
        /\ rerun' = [rerun EXCEPT !.status = "done", !.req = None]
        /\ UNCHANGED <<route, project>>
    BY <1>5, Alone DEF ReadRerunDone
  <2>5. /\ rerun'.status = "done" /\ rerun'.req = None
        /\ rerun'.last = rerun.last /\ rerun'.of = rerun.of
    BY <2>4 DEF Inv, Screen
  <2>6. /\ route = "main" /\ project \in Projects /\ rerun.last = stored[project]
        /\ view.status = "ready" /\ stored[project] \in Specs
    BY <2>4 DEF Inv, Screen, Pages
  <2>7. rerun.of = project /\ Settled(project, rerun.last)
    BY <2>3, <2>4 DEF Rerun, Newest
  <2>8. DoneSettled'
    BY <2>2, <2>5, <2>6, <2>7, Alone DEF DoneSettled, Settled, NoneOf, NoCall
  <2>9. \/ view' = [view EXCEPT !.status = "loading"]
        \/ view' = [view EXCEPT !.override = stored[project]]
    BY <1>5 DEF ReadRerunDone, Refetch
  <2>10. DoneGraphIsOfSpec'
    <3>1. CASE view' = [view EXCEPT !.status = "loading"]
      <4>1. view'.status # "ready"
        BY <3>1 DEF Inv, Screen
      <4>2. QED
        BY <4>1 DEF DoneGraphIsOfSpec
    <3>2. CASE view' = [view EXCEPT !.override = stored[project]]
      <4>1. view'.override = stored[project]
        BY <3>2 DEF Inv, Screen
      <4>2. Shown' = stored[project]
        BY <2>6, <4>1, Alone DEF Shown
      <4>3. QED
        BY <2>5, <2>6, <4>2 DEF DoneGraphIsOfSpec
    <3>3. QED
      BY <2>9, <3>1, <3>2
  <2>11. QED
    BY <2>2, <2>4, <2>5, <2>6, <2>8, <2>10 DEF Rerun, Newest, RerunOnMain
<1>6. QED
  BY <1>2, <1>3, <1>4, <1>5 DEF Listen

(* A frame that is sent is at the end of what is on its way.               *)
LEMMA SendAnswers ==
    ASSUME Network, NEW r \in Requests, NEW frame \in Frame, Send(r, frame)
    PROVE  \A q \in Requests :
              Answered(q)' => \/ Answered(q)
                              \/ q = r /\ ~call[r].left /\ frame \in {"done", "empty"}
<1>1. CASE call[r].left
  <2>1. wire' = wire
    BY <1>1 DEF Send
  <2>2. QED
    BY <2>1 DEF Answered
<1>2. CASE ~call[r].left
  <2>1. /\ wire'[r] = Append(wire[r], frame) /\ wire[r] \in Seq(Frame)
        /\ \A q \in Requests \ {r} : wire'[q] = wire[q]
    BY <1>2 DEF Send, Network, Ordered
  <2>2. /\ Len(wire'[r]) = Len(wire[r]) + 1 /\ Len(wire[r]) \in Nat
        /\ \A i \in 1..Len(wire[r]) : wire'[r][i] = wire[r][i]
        /\ wire'[r][Len(wire[r]) + 1] = frame
    BY <2>1
  <2>3. SUFFICES ASSUME NEW q \in Requests,
                        NEW i \in 1..Len(wire'[q]), wire'[q][i] \in {"done", "empty"}
                 PROVE  Answered(q) \/ (q = r /\ frame \in {"done", "empty"})
    BY <1>2 DEF Answered
  <2>4. CASE q # r
    BY <2>1, <2>3, <2>4 DEF Answered
  <2>5. CASE q = r
    <3>1. i \in 1..Len(wire[r]) \/ i = Len(wire[r]) + 1
      BY <2>2, <2>3, <2>5
    <3>2. QED
      BY <2>2, <2>3, <2>5, <3>1 DEF Answered
  <2>6. QED
    BY <2>4, <2>5
<1>3. QED
  BY <1>1, <1>2

(* The first that waits is begun or refused.                               *)
LEMMA HeadTurn ==
    ASSUME Network, InTurn, NEW r \in Requests,
           queue # <<>>, r = Head(queue), queue' = Tail(queue),
           \A q \in Requests \ {r} : call'[q] = call[q],
           call'[r].state # "sent",
           call'[r].state = "open" => ~Analysed(call'[r].project)
    PROVE  InTurn'
<1> DEFINE tail == Tail(queue)
<1>1. /\ tail \in Seq(Requests) /\ Len(tail) = Len(queue) - 1 /\ Len(queue) \in Nat
      /\ \A i \in 1..Len(tail) : tail[i] = queue[i + 1]
      /\ queue[1] = r
  BY HeadTailProperties DEF Network, Queued
<1>2. queue' = tail
  OBVIOUS
<1> HIDE DEF tail
<1>3. ASSUME NEW q \in Requests, call'[q].state = "sent"
      PROVE  \E i \in 1..Len(tail) : tail[i] = q
  <2>1. q # r /\ call[q].state = "sent"
    BY <1>3
  <2>2. PICK i \in 1..Len(queue) : queue[i] = q
    BY <2>1 DEF InTurn
  <2>3. i # 1 /\ i - 1 \in 1..Len(tail)
    BY <1>1, <2>1, <2>2
  <2>4. tail[i - 1] = q
    BY <1>1, <2>2, <2>3
  <2>5. QED
    BY <2>3, <2>4
<1>4. \A p, q \in Requests :
        (call'[p].state = "open" /\ call'[q].state = "open" /\ call'[p].project = call'[q].project)
           => p = q
  BY DEF InTurn, Analysed
<1>5. QED
  BY <1>2, <1>3, <1>4 DEF InTurn

LEMMA ServeRerun ==
    ASSUME Inv, Store, InTurn, Rerun, NEW r \in Requests, Serve(r)
    PROVE  InTurn' /\ Rerun'
<1>1. UNCHANGED client
  BY DEF Serve, Admit, Refuse, Finish, Fail
<1>2. Calls /\ r \in DOMAIN call /\ DOMAIN call = Requests
  BY DEF Inv, Network, Calls
<1>3. ASSUME queue # <<>>, r = Head(queue)
      PROVE  call[r] # NoCall /\ call[r].project \in Projects
             /\ DOMAIN call[r] = {"state", "project", "spec", "left"}
  <2>1. r = queue[1] /\ 1 \in 1..Len(queue)
    BY <1>3, HeadTailProperties, EmptySeq DEF Inv, Network, Queued
  <2>2. call[r] # NoCall
    BY <2>1 DEF Inv, Network, Queued
  <2>3. QED
    BY <1>2, <2>2, CallKinds
<1>4. CASE Admit(r)
  <2>1. /\ queue # <<>> /\ r = Head(queue) /\ queue' = Tail(queue) /\ UNCHANGED <<wire, graphOf>>
        /\ ~Analysed(call[r].project)
        /\ call' = [call EXCEPT ![r].state = "open"]
    BY <1>4 DEF Admit, store
  <2>2. /\ call'[r] = [call[r] EXCEPT !.state = "open"]
        /\ \A q \in Requests \ {r} : call'[q] = call[q]
    BY <1>2, <2>1
  <2>3. call'[r].state = "open" /\ call'[r].project = call[r].project
    BY <1>3, <2>1, <2>2
  <2>4. InTurn'
    BY <2>1, <2>2, <2>3, HeadTurn DEF Inv
  <2>5. \A q \in Requests : /\ Answered(q)' => Answered(q)
                            /\ call'[q] # NoCall => /\ call[q] # NoCall
                                                    /\ call'[q].project = call[q].project
    BY <1>3, <2>1, <2>2, <2>3 DEF Answered
  <2>6. Rerun'
    <3>1. rerun.req # None => rerun.req \in Requests
      BY DEF Inv, Screen
    <3>2. rerun'.req = rerun.req
      BY <1>1 DEF client, screen
    <3>3. rerun.req # None /\ Answered(rerun.req)' => Answered(rerun.req)
      BY <2>1, <3>2 DEF Answered
    <3>4. QED
      BY <1>1, <2>1, <2>5, <3>3, ServerRerun
  <2>7. QED
    BY <2>4, <2>6
<1>5. ASSUME call' = [call EXCEPT ![r] = NoCall], NEW frame \in Frame, Send(r, frame),
             queue' = queue \/ (queue # <<>> /\ queue' = Tail(queue)),
             \A p \in Projects : NoneOf(p) => graphOf'[p] \in {graphOf[p], None},
             frame \in {"done", "empty"} /\ r = rerun.req /\ ~call[r].left
                => Settled(project, rerun.last)'
      PROVE  Rerun'
  <2>1. /\ call'[r] = NoCall
        /\ \A q \in Requests : call'[q] # NoCall => /\ call[q] # NoCall
                                                    /\ call'[q].project = call[q].project
    BY <1>2, <1>5
  <2>2. rerun.req # None => rerun.req \in Requests
    BY DEF Inv, Screen
  <2>3. rerun'.req = rerun.req
    BY <1>1 DEF client, screen
  <2>4. \A q \in Requests : Answered(q)' =>
            Answered(q) \/ (q = r /\ ~call[r].left /\ frame \in {"done", "empty"})
    BY <1>5, SendAnswers DEF Inv
  <2>5. rerun.req # None /\ Answered(rerun.req)' =>
            \/ Answered(rerun.req)
            \/ call'[rerun.req] = NoCall /\ Settled(project, rerun.last)'
    BY <1>5, <2>1, <2>2, <2>3, <2>4
  <2>6. QED
    BY <1>1, <1>5, <2>1, <2>5, ServerRerun
<1>6. CASE Refuse(r)
  <2>1. /\ queue # <<>> /\ r = Head(queue) /\ queue' = Tail(queue) /\ UNCHANGED graphOf
        /\ call' = [call EXCEPT ![r] = NoCall] /\ Send(r, "error")
    BY <1>6 DEF Refuse, End, store
  <2>2. call'[r] = NoCall /\ \A q \in Requests \ {r} : call'[q] = call[q]
    BY <1>2, <2>1
  <2>3. InTurn'
    BY <2>1, <2>2, HeadTurn DEF Inv, NoCall
  <2>4. Rerun'
    BY <1>5, <2>1 DEF Frame
  <2>5. QED
    BY <2>3, <2>4
<1>7. ASSUME call' = [call EXCEPT ![r] = NoCall], queue' = queue, call[r].state = "open"
      PROVE  InTurn'
  <2>1. call'[r] = NoCall /\ \A q \in Requests \ {r} : call'[q] = call[q]
    BY <1>2, <1>7
  <2>2. QED
    BY <1>7, <2>1 DEF InTurn, NoCall
<1>8. CASE Finish(r)
  <2>1. /\ call[r].state = "open" /\ queue' = queue
        /\ call' = [call EXCEPT ![r] = NoCall]
        /\ graphOf' = [graphOf EXCEPT ![call[r].project] = call[r].spec]
    BY <1>8 DEF Finish, End
  <2>2. PICK frame \in {"done", "empty"} : Send(r, frame)
    BY <1>8 DEF Finish
  <2>3. call[r] # NoCall /\ call[r].project \in Projects /\ call[r].spec \in Specs
    BY <1>2, <2>1, CallKinds
  <2>4. \A p \in Projects : NoneOf(p) => graphOf'[p] \in {graphOf[p], None}
    BY <2>1, <2>3 DEF NoneOf, Store
  <2>5. ASSUME r = rerun.req, ~call[r].left
        PROVE  Settled(project, rerun.last)'
    <3>1. /\ call[r].project = project /\ call[r].spec = stored[project]
          /\ rerun.last = stored[project] /\ project \in Projects
      BY <2>3, <2>5, Alone DEF Inv, Screen, Pages, Wanted, Live
    <3>2. queue = <<>>
      <4>1. SUFFICES ASSUME queue # <<>> PROVE FALSE
        OBVIOUS
      <4>2. queue[Len(queue)] = r /\ Len(queue) \in 1..Len(queue)
        BY <2>5, <4>1, Alone, EmptySeq DEF Rerun, Newest, Inv, Network, Queued
      <4>3. QED
        BY <2>1, <4>2 DEF Inv, Network, Queued
    <3>3. \A q \in Requests : call[q] # NoCall => call[q].state = "open"
      <4>1. \A q \in Requests : call[q].state # "sent"
        BY <3>2 DEF InTurn
      <4>2. QED
        BY <1>2, <4>1, CallKinds
    <3>4. \A q \in Requests \ {r} : call[q] # NoCall => call[q].project # project
      BY <2>1, <3>1, <3>3 DEF InTurn
    <3>5. \A q \in Requests : call'[q] # NoCall => call'[q].project # project
      BY <1>2, <2>1, <3>4
    <3>6. graphOf'[project] = rerun.last
      BY <2>1, <3>1 DEF Store
    <3>7. project' = project /\ rerun' = rerun
      BY <1>1 DEF client, screen
    <3>8. QED
      BY <3>5, <3>6, <3>7 DEF Settled, NoneOf, NoCall
  <2>6. QED
    BY <1>5, <1>7, <2>1, <2>2, <2>4, <2>5 DEF Frame
<1>9. CASE Fail(r)
  <2>1. /\ call[r].state = "open" /\ queue' = queue /\ UNCHANGED graphOf
        /\ call' = [call EXCEPT ![r] = NoCall] /\ Send(r, "failed")
    BY <1>9 DEF Fail, End, store
  <2>2. Rerun'
    BY <1>5, <2>1 DEF Frame
  <2>3. QED
    BY <1>7, <2>1, <2>2
<1>10. QED
  BY <1>4, <1>6, <1>8, <1>9 DEF Serve

LEMMA ProgressLoseRerun ==
    ASSUME Inv, InTurn, Rerun, NEW r \in Requests, Progress(r) \/ Lose(r)
    PROVE  InTurn' /\ Rerun'
<1>1. /\ UNCHANGED client /\ UNCHANGED <<queue, graphOf>>
      /\ call[r].state = "open" /\ ~call[r].left
  BY DEF Progress, Lose, store
<1>2. rerun.req # None => rerun.req \in Requests
  BY DEF Inv, Screen
<1>3. rerun'.req = rerun.req
  BY <1>1 DEF client, screen
<1>4. CASE Progress(r)
  <2>1. call' = call /\ Send(r, "progress")
    BY <1>4 DEF Progress
  <2>2. \A q \in Requests : Answered(q)' => Answered(q)
    BY <2>1, SendAnswers DEF Inv, Frame
  <2>3. InTurn'
    BY <1>1, <2>1 DEF InTurn
  <2>4. rerun.req # None /\ Answered(rerun.req)' => Answered(rerun.req)
    BY <1>2, <1>3, <2>2
  <2>5. QED
    BY <1>1, <2>1, <2>3, <2>4, ServerRerun
<1>5. CASE Lose(r)
  <2>1. /\ call' = [call EXCEPT ![r].left = TRUE] /\ wire' = [wire EXCEPT ![r] = <<"error">>]
        /\ call \in [Requests -> [state : {"sent", "open"}, project : Projects,
                                  spec : Specs, left : BOOLEAN] \cup {NoCall}]
    BY <1>5 DEF Lose, Inv, Network, Calls
  <2>2. call[r] # NoCall /\ DOMAIN call[r] = {"state", "project", "spec", "left"}
    BY <1>1, CallKinds DEF Inv, Network
  <2>3. /\ call'[r] = [call[r] EXCEPT !.left = TRUE]
        /\ \A q \in Requests \ {r} : call'[q] = call[q]
    BY <2>1
  <2>4. call'[r].state = call[r].state /\ call'[r].project = call[r].project
    BY <2>2, <2>3
  <2>5. InTurn'
    <3>1. /\ queue' = queue
          /\ \A q \in Requests : /\ call'[q].state = call[q].state
                                 /\ call'[q].project = call[q].project
      BY <1>1, <2>3, <2>4
    <3>2. QED
      BY <3>1 DEF InTurn
  <2>6. \A q \in Requests : call'[q] # NoCall => /\ call[q] # NoCall
                                                 /\ call'[q].project = call[q].project
    BY <2>2, <2>3, <2>4
  <2>7. ASSUME rerun.req # None, Answered(rerun.req)'
        PROVE  Answered(rerun.req)
    <3>1. wire'[r] = <<"error">> /\ \A q \in Requests \ {r} : wire'[q] = wire[q]
      BY <2>1 DEF Inv, Network, Ordered
    <3>2. CASE rerun.req = r
      <4>1. \E i \in 1..Len(<<"error">>) : <<"error">>[i] \in {"done", "empty"}
        BY <1>3, <2>7, <3>1, <3>2 DEF Answered
      <4>2. QED
        BY <4>1
    <3>3. CASE rerun.req # r
      BY <1>2, <1>3, <2>7, <3>1, <3>3 DEF Answered
    <3>4. QED
      BY <3>2, <3>3
  <2>8. QED
    BY <1>1, <2>5, <2>6, <2>7, ServerRerun
<1>6. QED
  BY <1>4, <1>5

LEMMA InitRerun == Init => InTurn /\ Rerun
  BY DEF Init, InTurn, Rerun, Newest, DoneSettled, RerunOnMain, DoneGraphIsOfSpec, NoCall, NoRerun

LEMMA NextRerun == Inv /\ Store /\ InTurn /\ Rerun /\ [Next]_vars => InTurn' /\ Rerun'
<1> SUFFICES ASSUME Inv, Store, InTurn, Rerun, [Next]_vars
             PROVE  InTurn' /\ Rerun'
  OBVIOUS
<1>1. ASSUME UNCHANGED <<graphOf, network, stored, screen>>
      PROVE  InTurn' /\ Rerun'
  <2>1. UNCHANGED <<graphOf, call, queue, wire, route, project, view, rerun>>
    BY <1>1 DEF network, screen
  <2>2. InTurn' /\ DoneGraphIsOfSpec' /\ \A q \in Requests : Answered(q)' => Answered(q)
    BY <2>1 DEF InTurn, Rerun, DoneGraphIsOfSpec, Shown, Answered
  <2>3. QED
    BY <2>1, <2>2, TabRerun
<1>2. CASE \E to \in {"landing", "analyzing", "main"} : TopBar(to)
  <2>1. PICK to \in {"landing", "analyzing", "main"} : TopBar(to)
    BY <1>2
  <2>2. Navigate(to, None) /\ UNCHANGED <<stored, graphOf>>
    BY <2>1 DEF TopBar, store
  <2>3. QED
    BY <2>2, NavigateRerun
<1>3. ASSUME NEW p \in Projects, UploadDone(p) \/ RestoreDone(p)
      PROVE  InTurn' /\ Rerun'
  <2>1. /\ UNCHANGED <<stored, graphOf>>
        /\ Navigate("analyzing", p) \/ Navigate("main", p)
    BY <1>3 DEF UploadDone, RestoreDone, store
  <2>2. QED
    BY <2>1, NavigateRerun
<1>4. ASSUME NEW p \in Projects, Upload(p) \/ UploadFailed(p) \/ Restore(p) \/ RestoreFailed(p)
      PROVE  InTurn' /\ Rerun'
  BY <1>1, <1>4 DEF Upload, UploadFailed, Restore, RestoreFailed, store
<1>5. ASSUME NEW p \in Projects, Evict(p)
      PROVE  InTurn' /\ Rerun'
  <2>1. UNCHANGED client /\ UNCHANGED <<call, queue, wire>>
        /\ graphOf' = [graphOf EXCEPT ![p] = None]
    BY <1>5 DEF Evict, network
  <2>2. InTurn'
    BY <2>1 DEF InTurn
  <2>3. rerun' = rerun
    BY <2>1 DEF client, screen
  <2>4. Answered(rerun.req)' => Answered(rerun.req)
    BY <2>1, <2>3 DEF Answered
  <2>5. \A q \in Projects : graphOf'[q] \in {graphOf[q], None}
    BY <2>1 DEF Store
  <2>6. QED
    BY <2>1, <2>2, <2>4, <2>5, ServerRerun
<1>6. CASE UNCHANGED vars
  BY <1>1, <1>6 DEF vars, store
<1>7. QED
  BY <1>2, <1>3, <1>4, <1>5, <1>6, ReloadRerun, AnalyzingRerun, EditRerun, ShowGraphRerun,
     RefreshRerun, FetchFailedRerun, ServeRerun, ListenRerun, ProgressLoseRerun
     DEF Next

(* After a successful re-analysis the canvas shows the graph of what was   *)
(* asked for, whatever was analysed for the project before and however     *)
(* long the server went on with what the tab had left.                     *)
THEOREM DoneGraphAlwaysOfSpec == Spec => []DoneGraphIsOfSpec
<1>1. Spec => [](InTurn /\ Rerun)
  <2>1. (Inv /\ Store) /\ (InTurn /\ Rerun) /\ [Next]_vars => (InTurn /\ Rerun)'
    BY NextRerun
  <2>2. QED
    BY <2>1, InitRerun, Invariance, PTL DEF Spec
<1>2. Rerun => DoneGraphIsOfSpec
  BY DEF Rerun
<1>3. QED
  BY <1>1, <1>2, PTL

(* Whatever is clicked and whichever promise settles late, there is never  *)
(* a second stream nor one of another project or for other settings.       *)
THEOREM StreamAlwaysWanted == Spec => []OneWantedStream
<1>1. Inv => OneWantedStream
  BY DEF Inv, Wanted, Live, OneWantedStream
<1>2. QED
  BY <1>1, Invariance, PTL

(* No late answer shows the graph of one project on the page of another.   *)
THEOREM GraphAlwaysBelongs == Spec => []ReadyGraphBelongs
<1>1. Inv => ReadyGraphBelongs
  BY DEF Inv, Pages, ReadyGraphBelongs
<1>2. QED
  BY <1>1, Invariance, PTL
=============================================================================
