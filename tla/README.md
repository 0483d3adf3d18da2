# Formal model of the Go dependencies visualizer

The program is a Go server that accepts a zipped Go module, analyses it and
serves its dependency graph, and a React client that uploads, follows the
analysis over server-sent events and shows the graph. This directory holds TLA+
modules of the parts where steps of several actors meet or where an algorithm is
easy to get wrong, the TLC runs that check them on small instances, and TLAPS
proofs for every size. File names below are relative to `src/`; `PROJECT.json`
maps every definition to the lines it stands for.

## 1. Inventory

The server, under `server/internal`:

| Part | State it keeps | Operations | What is hard | What makes it correct |
|---|---|---|---|---|
| cache manager | registry of projects under one RWMutex, `closed`, two directories per project on disk | NewProject, GetProject, DeleteProject, Read/Write of meta, graph, dead code and the parsed blob, Close; a sweeper goroutine | all disk work happens outside the lock, on paths resolved under it; restart loses the registry and keeps the disk | a registered project has its directories and files; nothing is left behind; a lease is only renewed |
| upload loader | a spool file, the sources directory it fills | spool, preflight, extract, flatten, go.mod, WriteMeta, rollback | the project is visible to everyone while it is extracted | an upload is complete or leaves nothing |
| orchestrator | `inflight`: a mutex per project | Reserve, RunReserved (parse, build, resolve, mark, write, emit) | a forwarding goroutine beside the pipeline, a bounded channel, a parse deadline, panics, clients that leave or stop reading | one analysis per project; events in order, one terminal event; the slot comes back |
| SSE streamer | `seq` | Emit, Close | not safe for concurrent use; writes without a deadline | one driver at a time |
| request handlers | none of their own | upload, list, delete, analyze, graph, dead code, symbols | each is a sequence of calls with other requests in between | 404 for what is gone; what `done` announces is served |
| parser | parsed.gob | LoadLive with progress | blocks on the progress channel | close it on every return |
| graph builder | nodes, weighted edges, the id minted for each `types.Object` | two passes over the packages, the implements resolver | the second pass depends on what the first minted; aliases and equal names mint twice; instances of generic types have objects of their own | every use of what has a node is an edge; every edge starts at a node |
| entry resolver, reachability, aggregation, exporter | flags on the nodes | Resolve, Mark, DeadCode | cyclic graphs, edges followed one way or both, names that cannot be resolved | marking is the closure of the edges; the report is sound |

The client, under `web/src`:

| Part | State it keeps | Operations | What is hard | What makes it correct |
|---|---|---|---|---|
| router, landing, analyzing and main pages | route, `useAnalysis`, `useGraphData`, `useReanalyze` | upload, restore, delete, analyze, cancel, retry, refresh, edit entry points, navigate, reload | aborts that race the server's slot; promises that resolve on another page; streams that end without a terminal event | one stream, the wanted one; the graph shown is of the project and the settings shown; a run that ends is shown as ended |
| dead-code panel | the report, the request for it | load, reload with the graph, retry, click a row | two files and two requests beside a running analysis; answers out of order | the report is of the project shown and follows every analysis that is done |
| expansion (`useAggregateExpand`) | elements of the canvas, expanded packages, cached package nodes, requests under way | double tap, collapse, collapse all, refresh | an answer comes to a canvas that is no longer the one it was asked for | what was opened can be closed; no node is locked; a use keeps its arrow |
| filters, dead mode, collapsed subtrees | filter spec, search draft and timer, mode, roots; classes on the elements | panel, hotkeys, other tabs, reload | classes put on by effects that do not all run when the elements change | what is hidden is what the settings say |
| entry points panel and dialog | the stored spec, one copy per tab, the symbol catalogue, the highlighted row | tick, add, remove, add from a node | edits of several tabs that cross; the list changes under the highlighted row | the panel tells what the server will do |
| layers and positions | arrangement of lanes, preset, positions, pending write, `userDragged` | move, group, import, preset, drag, relayout, reload | a debounced write against drags, layouts and reloads | a lane is in one place; what was dragged stays |
| layout algorithms | none | `computeSlotPositions`, `computeReachDepthPositions` | wrapping, centring, sizes, cyclic graphs | every node in its slot; boxes apart; layers in order |
| local reachability | none | `recomputeReachability` | other rules than the server's | shows nothing as live that is dead |
| API client, storage | symbol cache, `localStorage` | analyze with abort, events of other tabs | see the parts that use them | |
| theme, texts, tooltips, toasts | | render | | nothing is stated of these |

Interactions: a handler calls the manager under its lock and touches the disk
afterwards; the loader writes into a directory of the manager without it; the
orchestrator calls parser and builder, which send progress into a channel of 64
that a goroutine of the orchestrator drains into the streamer of the handler;
the sweeper calls nobody and shares the registry and the disk with all of them.
A tab posts analyses and reads their streams; an abort is noticed by the server
some time later, and until then the project is taken. The pages pass project ids
to one another; the panels and the canvas communicate through state that effects
read, and tabs through `localStorage` and its events. `PROJECT.json` lists every
component with its modules, and the hazards at the lines where they bite.

## 2. Modules

### Server

`DiskCache` is the cache manager. Its actions are the critical sections of
`manager.mu` (`RegisterProject`, `LookupProject`, `DeleteProject`,
`CollectExpired`, ...) and, one by one, the disk operations that follow the
unlock (`OpenTemp`, `Commit`, `RemoveSourcesDir`, `Evict`, ...). A goroutine has
a `pc`, the call it executes, its project and the copy of the access time it
carries. `Restart` ends the process at any step, empties the registry and keeps
the disk. `ProjectRegistry` is what the package promises its callers: ids
registered once, leases, removal by call or when idle. `DiskCache` implements
it with `spent` as the ids issued and no longer on their way into the map.

`Orchestrator` is one `POST .../analyze` per request: `Reserve` takes the slot,
`OpenStream` makes the streamer, `Pipeline` goes through the stages in order,
with an `Announce`, `Warn`, `Compute` or `PartialChunk` for every emit and every
stage. A parse or build sends ticks into the channel (`SendTick` blocks when it
is full), returns or panics; `Await` is the wait on `progressDone` that a panic
skips. The forwarder is a process of its own. An event is its position in the
pipeline. A write has no deadline (`cmd/server/main.go:88-90`, `api/sse.go:73-76`):
`Stall` is a client that stays and does not read, while which no `Emit` and no
`CloseStream` of its stream is enabled, `ReadOn` and `Disconnect` end it. `AnalysisStream` is what a client is promised: positions that do not
go back, one end, nothing after it, and what is left of that after a panic.

`ProjectLifecycle` composes the server: uploads, deletions, analyses and the
sweeper act on the same projects. From the manager it keeps the registry and
the two directories, from the orchestrator the slot and the two artefacts, and
it adds the loader. An artefact is the number of the analysis that wrote it.
`ProjectService` is the API as clients see it: an id is handed out once and does
not come back; the served graph is only replaced by a later one; a `done` event
announces what is served. What a directory outside the registry holds is not
visible there, which is why a late write of a deleted project is a stutter.

`GraphBuilder`, `EntryResolver` and `Reachability` are what the stages between
parsing and exporting compute. A program (packages, declarations, uses, what
go/types says of its types) is a constant. `GraphBuilder` has a step per package
and pass (`AddPackage`, `WirePackage`) and one for the implements resolver; nodes
are a function from ids, edges a bag whose counts are the weights, and
`objectIDs` stands for the four maps from objects to ids. An object is what
go/types has an address for: a declaration, or a method or field of an instance
of a generic type, which `origin` relates to the declared one. The code never
asks for that, and neither does `IsWire`; only `GenericUsesCount` does. `EntryResolver` has
`Resolve` and the refusal of a spec. `Reachability` composes them with `Mark`,
one visited node per step in any order (`Visit`, `FinishMark`), and with
`recomputeReachability` of the browser (`StartLocal`, `VisitLocal`,
`RebuildGraph`), which runs over the same graph by other rules. The reference
for both searches is `Live`: the nodes of every closed set that holds the seeds.

### Client

`BrowserSession` is one tab with the server reduced to what `AnalysisStream`
promises: a project is analysed by one request at a time, and the client gets one
terminal event unless it has left. The hooks of React run in the action that
changes what they depend on: `Navigate` unmounts a page and mounts another with
their effects and cleanups (`RunOn`, `ViewOn`, `RerunOn`), `Edit` and `Refresh`
run the effect of `useReanalyze`. Every callback of a promise or a stream is an
action of its own (`UploadDone`, `ShowGraph`, `Listen`), so that it meets the
page the user has come to by then. `Serve` is what the server does with a
request next, `Lose` a broken connection. A graph is the settings it was made
for.

`Canvas` is the graph on the main page: the package view the server answers for
a large graph (`Aggregate`), the scoped answers for one package (`Scope` with
`StructLevel` and `MemberLevel`), and what `useAggregateExpand` does with an
answer that may have been overtaken by a refresh, a collapse or another project.

`Visibility` has the three things that hide nodes, each with the effect that puts
its classes on and the dependencies that effect has; the filter panel with its
debounced search and the other tab; and the elements, which come and go. `late`
is a history variable: the nodes that came after the filters were last applied.

`EntryPoints` is the entry-point settings in several tabs: the normalisation on
reading, the edits by the panel, the dialog and the nodes, the storage events,
the analysis each change starts, the catalogue of symbols and the ranking and
highlighting in the dialog. `typed` and `crossed` are history variables.

`DeadCodePanel` is the report beside the graph. The server side is the two
artefacts as generations, with an action for each write (`WriteGraph`,
`WriteReport`) and for each read (`ReadGraph`, `StatGraph`, `Answer`); the client
side is the effect of the panel (`Ask`, `Deliver`), the loading of the graph
(`Fetch`, `ShowGraph`) and the key in `MainView` that ties them. `since`, `heard`
and `whole` are history variables.

`LayerEditor` is the arrangement of lanes in slots with all operations of its
hook, its preset, the backfilling of new depths, and the positions: on the
canvas, waiting for the timer, and stored. A set of positions is known by its
nodes and by who made it.

`SlotLayout` and `MemberLayout` are the two layout algorithms, one step per slot
or layer, over integers: eighths of a pixel, so that the halving in the code stays
exact, and means are compared as fractions. `Columns` is what the two have in
common (depths, the order of a layer, the wrapping into columns, the grid of the
rest). `Layouts` composes them: the canvas is laid out, then a package is opened
where it stands.

`Filtering` says what filtering a sequence returns, by counting the matches before
each; `LayerEditor` and `EntryPoints` filter lists, and the library's `SelectSeq`
is recursive. `Absent` is the value of what is undefined or null in the client.
The three panels share both and are reasoned about together, so that their
specifications have names of their own: `Spec`, `EntrySpec` and `ReportSpec`.

### Model checking and proofs

`MC...` modules add model values, symmetry sets and the small inputs; `...Proofs`
hold the theorems. A definition introduced by a comment "Mutation" in a
component's module is a plausible bug of the definition after it; nothing uses
it, and each shows that a property notices that bug.

## 3. Runs

| Run | Checks | Instance |
|---|---|---|
| `disk_cache` | `RegisteredHaveDirs`, `NoLeakedSources`, `LiveFilesKept`, `ImplementsRegistry` | 2 goroutines, 2 ids, 1 artefact, clock to 2 with a TTL of 1, 1 restart; 2.4 M states |
| `pipeline` | `SingleFlight`, `EndIsAnnounced`, `PhasesInOrder`, `ImplementsStream` | 2 requests, 1 project, channel of 1, 2 ticks, 2 chunks, clients that leave or stall; 1.2 M states |
| `pipeline_ends` | `SlotReleased` under `FairSpec` | 1 request, channel of 2, 5 ticks, 3 chunks, a client that leaves, stalls and reads on; 12 k states |
| `lifecycle` | `UploadsWhole`, `DoneIsServed`, `ImplementsService` | 3 requests, 2 ids, 2 archive entries, 2 analyses; 1.4 M states |
| `reachability` | `MarkExact`, `ReportSound`, `LocalNeverWidens`, `SearchesEnd` | 135 programs of up to 2 packages, 7 specs; 79 k states |
| `session` | `OneWantedStream`, `ReadyGraphBelongs`, `DoneGraphIsOfSpec`, `RunEnds` | 2 projects, 2 settings, 2 requests at a time; 0.6 M states |
| `canvas` | `MembersMeanExpanded`, `MarkMeansRequest`, `ArrowKept` | 2 projects, 2 packages with a struct, a method and uses both ways, 2 fetches; 0.48 M states |
| `layouts` | `PlacedWhereItBelongs`, `BoxesApart`, `LayersInOrder`, `MembersApart` | 96 graphs of 4 packages, 15 arrangements; 1152 member graphs; 12 k states |
| `layers` | `ArrangementsConsistent`, `ArrangementKept`, `DropIsKept` | 2 graphs, 1 group, 2 slots, 1 preset, 1 import; 0.59 M states |
| `visibility` | `ModeHolds`, `FiltersHold`, `NothingLost`, `EditsAreLocal` | 2 packages, 1 struct with a member, 2 server graphs, another tab; 0.31 M states |
| `entries` | `PanelTellsTheTruth`, `EnterTakesTheLitRow`, `TabsAgree`, `PickedNamesResolve` | 2 tabs, 3 changes, 4 names, a picker of 2 rows; 0.55 M states |
| `dead_code` | `ReportAnswersLastAsk`, `DoneIsReported` | 2 projects, 2 analyses of each, 2 reports under way, one row; 2.3 M states |

What they show, beyond the names. `disk_cache`: whatever the sweeper, a DELETE,
`Close` and a restart do between a critical section and the disk work after it,
no registered project loses its files. `pipeline`: progress never overtakes a
phase, and a client that stays hears of the end. `pipeline_ends`: the slot comes
back but from a client that stays for ever and does not read. `lifecycle`: an answered upload
is whole although others could delete, evict and analyse it half-way; nobody is
told `done` of artefacts that are not those served. `reachability`: from the
declarations to the report, for every order of the search, a use counts that
resolves to an object with a node; for what generic types lose see section 4. `session`: a tab never
listens to a stream of another project or of other settings, however late uploads,
graphs and streams answer. `canvas`: an answer that was overtaken neither strands
members on the canvas nor leaves the mark of an answered double tap behind nor
costs a use its arrow; that it can mark a node as expanded that is not is said in
section 4. `visibility`:
the three ways to hide, applied by effects with different dependencies, leave the
classes that the settings ask for; a search that fires late takes back nothing.
`entries`: any mixture of edits in two tabs leaves a spec the server takes as the
panel shows it. `dead_code`: refreshes, aborts and other
tabs' analyses between the two files and the two requests never leave the report
of a finished re-analysis behind. `layers`: the debounced write never replaces a
drop by a layout.
`layouts`: no node is lost, in the wrong slot, or over another of its column; of
two lanes or two slots, a node is over another only in the cases of section 4.

Why these bounds. Every race of the manager is between two callers, or a caller
and the sweeper, over one project; the second id makes the sweeper's list longer
than one and lets one project live while another goes. The clock needs one tick
for a lease to run out and one more for a renewal to matter. Analyses of different
projects share nothing in the code but the map of slots, so that two requests for
one project are the interesting ones. A channel of 1 with
2 ticks is full, drained and full again; 5 ticks over a channel of 2 make the
stage block twice. Uploads, deletions and analyses of one project need three
requests to meet; two analyses are the least for artefacts to be mixed, two
entries the least for half an archive.

A tab has at most one stream it wants and one it has aborted and the server has
not noticed yet; the next post needs the second of the two to be gone, so that a
third request would only wait (`Requests` is a bound: `Unused # {}` is a guard).
Two projects and two settings tell "another" from "the same". `MaxFetches` of 2
lets one answer overtake another; with both packages expandable, uses in both
directions and one within a struct, an edge meets every order of expanding and
collapsing its ends. The two projects of `Canvas` are two uploads of one source
tree, so that a late answer of one fits the ids of the other: the worst case.
Three changes are the least for two tabs to cross and for one of them to change
again; `PickerLimit` of 2 below four names cuts the list. `MaxSlots` of 2 and two
depths let a lane share a slot, leave it empty and go past the end.
`MaxPresetSlots` keeps presets short. In `layouts` two nodes make a column full,
so that four wrap, and `MaxLaneHeight` of 600 pixels makes tall nodes wrap earlier;
the code's 14, 8 and 1800 pixels are constants of the same formulas. The heights of
large and small nodes differ by more than the 392 pixels that stacked lanes allow. Two generations
tell a report from the one before it, and two reports under way let an older
answer overtake. `MaxTicks`, `MaxChunks`, `MaxTime`, `MaxRestarts`, `MaxRuns`,
`Requests`, `MaxFetches`, `MaxEdits`, `DialogTabs`, `MaxSlots`, `MaxPresetSlots`,
`ToggledKinds`, `Roots`, `Slots` and `MaxGen` are the only bounds; they stand in
guards or in the ranges of actions, and the theorems, of the modules that have
any, hold for every value of them.

The programs of `reachability` are every subset of six uses (calls and
references, within and across two packages, with a cycle) over a skeleton that
has a struct with a method, an interface it implements, an embedded type that
was not loaded, a variable with an initialiser, and a second package that is the
user's own or not; and seven programs for an alias across packages, a generic
type used through an instance, with and without an alias of that, two types with
one set of fields, two declarations of one canonical name, a package without
types, and no package. The
specs cover the three modes, a name of each sort, an interface, and names that
cannot be resolved. There are no counters: every search is finite. An edge needs
two declarations and a search that goes wrong a path of two or three, so more
packages repeat what these show; the theorems hold for every program.

Symmetry is used in the runs without liveness only. Deadlock is checked in the
pipeline runs, where `Served` is the one step left when every request has ended,
and in all runs of the client except `layouts`, which ends when all is placed. It
is off for `DiskCache` and `ProjectLifecycle`, where clock, ids, restarts or
analyses run out and the bounded system does stop, and for `Reachability`, where
an analysis that was refused or given up is over.

Fairness. `FairSpec` of `Orchestrator`: strong fairness of the handler's and of
the forwarder's goroutine. Go schedules every runnable goroutine; parsing ends
because `runParse` sets a deadline, and building, marking and writing only
compute. Fairness is strong because of the writes: one is enabled while the
client reads, which it may do now and then, and each time some of the frame
leaves the buffers. All other steps stay enabled until taken, so that weak
fairness would do for them. No client is assumed to stay, leave or read. The
condition on it is in the property: `SlotReleased` is about the requests whose
client is, again and again, not stalled (`[]<>~stalled[r]`), which one that leaves
is. Without it the property is `EveryAnalysisEnds`, which fails (section 4).
`Spec` of `Reachability` has weak fairness of the
analysis, a goroutine that computes, and of the recomputation, a synchronous
function of the browser; the user need never start one. `Spec` of
`BrowserSession` has weak fairness of `Serve`, which is what `SlotReleased` and
the handler's scheduling give for a tab that reads its stream or aborts it, as its
reader loop does (`api/client.ts`), and of `Listen`, the browser's event loop; no
user action, no answer of an upload or a graph request, and no broken connection
is assumed to happen. The other modules state safety only.

Every property of a passing run has a mutant in `PROJECT.json`: the "Mutation"
definition put in the place of the one it spoils makes TLC report that property.

## 4. Known disagreements

The properties below state what a document or a comment says and are violated by
what the code does. They are in the modules and not in the runs; to reproduce
one, put it as the only INVARIANT (PROPERTY where noted) into the configuration
named and run TLC.

| Property | Configuration | The text | What the code does |
|---|---|---|---|
| `NoLeakedCaches` of `DiskCache` | `DiskCache.cfg` | `cache/doc.go:23-25`: an idle project "is removed from the in-memory registry together with both of its directories" | `writeAtomic` makes the cache directory anew after DELETE or the sweeper removed it (`cache/atomic.go:33`); nobody owns the result |
| `SingleDriver` of `Orchestrator` | `Orchestrator.cfg` | `api/sse.go:23-24`: callers "drive it from a single goroutine" | after a panic in the parser or the builder the recovery emits while the forwarder is still emitting (`orchestrator.go:259`) |
| `EveryAnalysisEnds` of `Orchestrator` (PROPERTY) | `OrchestratorLive.cfg` | `docs/architecture.md:66`: an analysis runs under a `context.Context` with a deadline | only the parse has one (`orchestrator.go:422`); the server has no write timeout (`cmd/server/main.go:90`) and an event is written and flushed without a deadline (`api/sse.go:73-76`), so that a client that stays and stops reading blocks the handler, or the forwarder and, once the channel is full, the stage, and keeps the slot |
| `NoDeleteDuringAnalysis` of `ProjectLifecycle` (PROPERTY) | `ProjectLifecycle.cfg` | `docs/api-contract.md:310`: DELETE answers 409 `analysis_in_progress` | nothing asks for the slot (`api/server.go:248`) |
| `SourcesOnDisk` of `ProjectLifecycle` | `ProjectLifecycle.cfg` | `orchestrator.go:279-280`: "sources are already on disk by the time the orchestrator runs" | the project is registered before it is extracted (`loader.go:150`) |
| `NoLeakedUploads` of `ProjectLifecycle` | `ProjectLifecycle.cfg` | `loader.go:111-113`: on any error "the per-project sources/cache directories are removed" | the rollback of an upload that was deleted or evicted meanwhile removes nothing (`loader.go:160`) |
| `ImplementsEdgesTrue` of `Reachability` | `Reachability.cfg` | `graph/implements.go:32-33`: "one implements-edge per (T, I) pair where types.Implements(...) holds" | an alias of another package's type gives an edge to an unrelated type of that package with the alias's name (`implements.go:182`) |
| `GenericUsesCount` of `Reachability` | `Reachability.cfg` | `docs/requirements.md:99-101` (FR-19): dead is what the entry points do not reach, with a precision of 100% | a method or field of an instance of a generic type is another object of go/types than the declared one the builder has minted (`builder.go:140-146`); it is looked up without `Origin()` (`ast_calls.go:87,91`) and not found, so that the use makes no edge: a method called on a variable of type `Box[int]` is reported dead when nothing live names `Box` |
| `LocalNeverNarrows` of `Reachability` | `Reachability.cfg` | `LegendPanel.tsx:65`: "bidirectional in reach" | the browser's search follows implements edges one way (`localReachability.ts:82`) |
| `FreshGraphStartsClean` of `Canvas` (PROPERTY) | `Canvas.cfg` | `useAggregateExpand.ts:162-163`: "Every fresh graph starts clean" | the effect depends on the project and the aggregation only (line 169), which a refresh or a re-analysis leaves as they are: the members go with the old graph, the package still counts as expanded, and a double tap on it does nothing until "collapse all" |
| `StructTapsHeard` of `Canvas` | `Canvas.cfg` | `useAggregateExpand.ts:116-117`: a double tap does nothing when the struct's "members are already on the canvas" | an answer that comes after the package was collapsed adds nothing and counts the struct as expanded all the same (line 269); with the package open again the struct has no members and ignores double taps (line 241) until the package is collapsed |
| `PackageTapsHeard` of `Canvas` | `Canvas.cfg` | `useAggregateExpand.ts:102-103`: `expandedPackages` are those expanded "on the current graph snapshot" | an answer that comes while a refresh loads marks the package (line 207), and the new graph takes its members away; the package ignores double taps (line 182) until "collapse all" |
| `RefreshReloadsReport` of `DeadCodePanel` | `DeadCodePanel.cfg` | `MainView.tsx:319-320`: the panel re-fetches its report "after every successful graph refresh" | only a new modification time of graph.json makes it (line 331): a graph loaded between the two writes of another tab's analysis has the older report beside it, and no refresh replaces it until the next analysis |
| `RowFindsItsNode` of `DeadCodePanel` | `DeadCodePanel.cfg` with `Nodes <- OneLine`, `Place <- OneLinePlace` | `DeadCodePanel.tsx:297-300`: package, file and line are "unique per source declaration" | `var a, b = 1, 2` has two on one line, and the row of one selects the node of the other (line 130) |
| `OverlayMeansStream` of `BrowserSession` | `BrowserSession.cfg` | `MainView.tsx:17-19`: the overlay shows "while the SSE stream runs" | a refresh turns `enabled` off, the cleanup aborts the stream and the status stays "running" (`useReanalyze.ts:181`) |
| `StartsCleanly` of `BrowserSession` | `BrowserSession.cfg` | `useReanalyze.ts:178-179`: "abort the in-flight stream so the new one starts cleanly" | the next POST meets the slot of the aborted one, is answered 409 and is not sent again |
| `TabsInSync` of `EntryPoints` | `EntryPoints.cfg` | `useLocalStorage.ts`: "the displayed state stays in sync" | two tabs that write before each has heard of the other show each other's value |
| `RejectionIsShown` of `EntryPoints` | `EntryPoints.cfg` | `MainView.tsx:384-385`: `invalid_entry_point` is what "the dialog handles inline" | the dialog that submitted the name closes at once, so that a rejection that comes meets no dialog |
| `NoBoxesMeet` of `SlotLayout` | `Layouts.cfg` | `GraphCanvas.tsx:810-812`: the positioner "stops overlapping the bounding boxes of expanded compounds against neighbours" | the sub-columns of a wrapped lane stand 160 px apart or, the more there are, less, however wide their nodes are (`slotLayout.ts:491`); a sub-column is centred by its offsets and its last height (line 481), so that with one end 392 px taller than the other it leaves its band and meets the lane stacked next to it; the grid of dead nodes ignores sizes |
| `NoneSpills` of `SlotLayout` | `Layouts.cfg` with `Graphs <- Fan` | `slotLayout.ts:487-489`: "multiple columns can share the slot without spilling into the next one" | the step divides the room that the widest node leaves (line 490), as if the nodes of the outer sub-columns had no width: four sub-columns of large nodes reach over the nodes of the slot beside theirs |
| `StableOverReload` of `LayerEditor` (PROPERTY) | `LayerEditor.cfg` | `GraphCanvas.tsx:297-298`: "subsequent reloads are stable (FR-26)" | without a stored arrangement the backfill after a reload lays the canvas out again and overwrites the drops (`GraphCanvas.tsx:354`) |
| `ReloadRestores` of `Visibility` (PROPERTY) | `Visibility.cfg` with `Roots = {"A"}` | `useCollapse.ts:13-15`: "a tab reload restores the same hidden branches" | the effect finds an empty canvas after the reload and does not run again (`useCollapse.ts:118`) |

Not disagreements with a text, but what a reader of the code should know:

* A selector adds two to the weight of its edge (`ast_calls.go:71`, the selector
  and its right-hand identifier); an interface has no method nodes, as
  `NumMethods` of a named interface is zero; an alias has its own copies of the
  methods and fields of its type, and uses lead to the copy minted last;
  initialisers of variables and signatures are not uses, so what is used only
  there is reported as dead.
* Members of packages opened since, and package nodes closed since, show
  unfiltered until the filters are applied again (`late` in `FiltersHold`).
* Every change of the entry points in one tab starts an analysis in the other
  tabs of the project too; the server refuses all but one.
* Loading a preset or importing an arrangement adds no lanes for depths it lacks;
  a chip moved down inside its own slot lands one place below where it was
  dropped (`LayerEditorBar.tsx:195-207`).
* The list of recent projects drops every entry whose graph is answered 404,
  which is also the answer for a project that was uploaded and not analysed
  (`Landing.tsx:203`); and "Forget" stores the list of its own page, so that it
  can bring back what another tab has just forgotten (`Landing.tsx:180`).
* The dead-code panel offers no retry for `no_graph_yet`, so that a report asked
  for before it was first written is asked for again only with the next graph; in
  the package view no node has the place of a declaration, and a click on a row
  finds nothing.
* When the catalogue arrives with as many rows as were listed, the highlighted
  index stays and the row under it may be another one.

## 5. Proofs

All theorems hold for every number of goroutines, requests, projects, packages,
nodes, tabs, files and ticks, and every value of the bounds. The assumptions are
those on the constants, in the component modules: bounds are naturals, the marker
values are no elements of the sets they mark, a channel has room for one value, a
package node lies in its package, edges join nodes, and imports join packages
(`graph/builder.go:360-376` makes no others). Three say more. `LayerAssumption`:
the depths of a graph ascend, graphs of one size have the same nodes (section 6),
and what is imported was exported by an editor; `decodePreset` checks the shape
only, and of a text made by hand nothing is claimed. `NamesAssumption`: the names
the ranking compares have a length and a package, and the server resolves what
its graph was made from, functions of a package and methods by a type that
contains them; the builder and the resolver agree on those. `PanelAssumption`:
the marker is no generation, answer or request. Of the layouts `SlotAssumption` and
`MemberAssumption` ask that sizes are whole pixels, that a column holds two nodes
at least (`Math.max(2, ...)` in the code) and that a lane is in one place, which is
`ArrangementsConsistent` of `LayerEditor`.

*DiskCache.* `RegisteredHaveDirs` alone is not inductive: a step that removes a
directory must know its project is out of the registry. `DirsInv` adds that a
goroutine in `rmSources`, `rmCache` or `rollback`, and the sweeper's list, work
on unregistered ids, that nobody else's id is on its way into the map, and that
`register` has made both directories. `SourcesInv` says who is responsible for
every sources directory (the registry, a call, the sweeper or a dead process),
from which `NoLeakedSources` follows when nothing is under way. With both, every
step is a step of `ProjectRegistry` or a stutter. `LiveFilesKept` is about one
step: whoever takes files away removes a directory, and `DirsInv` says of whom.

*Orchestrator.* `SlotInv` ties `slot` to the requests that run; `SingleFlight`
follows. `WireInv` is the conjunction of `ReachedInv` (at each program point, no
later event has reached the wire), `ForwarderInv` (a forwarder that is alive
belongs to a stage that has not been awaited, unless it panicked) and `EndInv`
(after the end there is no forwarder and the terminal event says how it ended).
They give `SingleDriverUnlessPanic`, `EndIsAnnounced`, `PhasesInOrder` and the
refinement of `AnalysisStream`, whatever the clients do: a client that stalls
only keeps steps from happening.

*ProjectLifecycle.* `TreeInv` adds to `UploadsWhole` what a loader has brought to
disk so far as long as its project is registered, and that directories are
removed for unregistered ids only; the second part is what makes an extraction
that lost its directory end in the rollback. `ServeInv` adds to `DoneIsServed`
that an analysis has its slot to itself (`SlotInv`), how far it has come and that
it is younger than all its project has (`ProgressInv`), and that an unused id has
no files (`FreshInv`). The refinement of `ProjectService` uses all of them:
`BeginUpload`, `StoreMeta`, `DeleteProject`, `Sweep`, `WriteGraph` and `EmitDone`
are its steps, the rest stutters.

*Reachability.* Three layers. `BuilderInv`: ids of objects are nodes, edges start
at nodes, and the uses of every package the second pass has done are edges
(`WiredInv`); it needs that an id minted again is one of those minted
(`LastMintedIsMinted`, a maximum over positions). `SearchInv`: while marking,
what was visited has no neighbour outside of what was found, and what was found
is in every closed set that holds the entries (`MarkingInv`); with no node
pending the two halves make it the least such set (`MarkedInv`), which is
`MarkExact`. `ReportSound` puts both together: the use of an object that
was minted is an edge, and the search has followed it; nothing is proved of uses
through an instance of a generic type, whose objects have no node. `LocalInv` is the second half for the browser, whose search may
leave the nodes and stops there because edges start at nodes. The only assumption
is that packages and declarations are sequences.

*BrowserSession.* `Inv` has a part for the network and one for the tab. `Network`:
a request waits in the queue once, and the frame that ends a stream is its last
and comes when nothing of the request is live. `Pages`: a page that has a stream
is the page on the screen, of a project, and for the settings last asked for are
those stored. `Wanted`, which is `OneWantedStream` with the frames on the wire
added, needs both: what is aborted is neither live nor read (`AbortKeeps`), what
is posted is what the page then wants (`PostKeeps`), and the server only takes
away (`ServerKeeps`). Without the frames on the wire the terminal event of an
aborted stream could reach the page that replaced it. `ReadyGraphBelongs` is a
conjunct of `Pages`: another project turns the view to loading in the same step.
`DoneGraphIsOfSpec` needs the server's order as well. `InTurn`: of the requests of
one project at most one is open and the others wait. `Newest`: the request
of a re-analysis that runs was sent last, and when an answer is on its way to it
its call is over. `Settled` is what then holds of its project: no call, and no
graph but one of those settings; it lasts until something new is sent, which ends
the "done" first.

*Canvas.* `MembersMeanExpanded` needs to know that what a package shows when it
is closed is its node (`CachedPackages`) and that an answer for a package holds
nothing of another but its node (`ScopeIsLocal`, `LevelsAreLocal`). `MarkMeansRequest`
is inductive once a late answer of another project is shown to unlock too.
`ArrowKept` rests on `Drawable`, the edges a canvas can hold: the id of one tells
what it joins (`IdsTell`), so that an edge that is not added because of its id has
an equal already (`AddedJoins`), and a collapse moves an arrow or finds it moved
(`CollapseJoins`). "Collapse all" is a fold over packages: `FoldStays` shows that
the recursive function in the library's fold exists, by the least number of
elements for which it would not, and that what each collapse keeps the fold keeps.
The order of collapsing does not matter.

*Layouts.* The two algorithms are nested folds over sorted sequences; what has
to be known of them is proved once, for any numbers, and used by both. `Sums`,
the prefix sums, is a recursive function, of which `SumsAre` shows that it
exists, prefix by prefix (`StepByStep`, which takes the least counterexample).
`RankedIs`: a finite set in a strict order is listed once by the number of
elements before each, and `AboveIsOrder` makes the comparison of means, with its
ties, such an order. `RowsAre`, `NoMoreRoom` and `EndsAreLevel` are about a
column: its rows are between its ends, its boxes take no more room than if they
stood one after the other, and if its ends are about as tall it stands within
half a gap of the middle of that room.
`SlotInv` says that every lane of a slot that was passed is listed once and that
each of its nodes stands where the list puts it (`SlotsPlaced`), which is all
that later slots need of earlier ones; `PlacedWhereItBelongs` follows with
`ResolvedAsPromised`, that the first match in the sorted groups is the first of
the longest, and `BoxesApart` by its three cases (`ColumnApart`, `LaneAbove`,
`SlotLeft`). Beyond the bounds in the last two, 392 and 400 px, boxes can meet
(section 4). `MemberInv` adds to `LayersInOrder` and `MembersApart` that what is
placed is left of the cursor and of what is not placed (`Sweeping`), and that
places are even until the cluster is moved (`EvenPlaces`): its middle is then a
place, without a remainder.

*Visibility.* The three properties are inductive nearly as they stand; what has
to be proved is that each action renders, applies the filters, or leaves what it
does not apply in step. `ModeInv` restates the mode on the settled nodes;
`FilterInv` says node by node what the classes are, with `ElementsKeepCurrent`
for the actions that change elements without applying the filters and `Whole` for
closed packages, which get their node back. Classes of subtrees only go
(`SubtreesOnlyGo`) unless the roots change, which computes them anew.
`EditsAreLocal` is about a panel that compares a selection with its list by their
sizes. `EditInv`: the canvas is empty or has all packages, so that the list is
empty or everything (`ListIsWhole`), and a finite set has no proper subset of its
size; a timer that runs holds the spec in force.

*LayerEditor.* An arrangement is taken apart into its rows (`RowsAre`): none holds
a lane twice, no two share one, and the lanes of groups are those of the groups
(`ConsistentIs`); each edit moves, drops or adds one lane. `ArrangementKept` is
`ShowsStored`: what is drawn is what is stored with one slot for each new depth
behind it; graphs come and go, so the proof is that taking the depths of a new
graph from the stored arrangement gives a state of that shape again
(`BackfilledKeeps`, `ShowsBackfilled`). `DropIsKept` is not inductive: `DropWritten`
says that while dragged positions are shown, what was written last (what waits for
the timer, or else what is stored) was dragged too, whatever nodes it is for.

*EntryPoints.* `AllGood`: everything shown, stored or on its way between tabs was
made by an edit of something that was good before (`Truthful`). `UpToDate`: the
last event on its way to a tab tells what is stored, unless two tabs crossed,
from which `TabsAgree` follows when nothing is on its way. The lemmas on the
edits go through the mode and the kinds by cases. `PickedNamesResolve` is in
`AllGood` too, with `Resolvable` and `typed` as the sources of names. For
`EnterTakesTheLitRow` the highlighted index is a row whenever there are rows
(`Lit`), through every key, every change of the query and the late catalogue. A
match has as its rank one more than the number of matches before it;
`PlacesAreTaken` shows that in a strict total order on finitely many things every
rank from the first to the last is taken, once.

*DeadCodePanel.* Generations only grow. `FetchedSince` and `AskedSince` bound from
below what a graph and a report request will find. `MineIsNews` and `DoneIsNews`:
an analysis of this tab that has written, and its done event on the way, are of a
graph newer than any whose time the effects have seen; so the graph loaded after
it has another time, the key of the panel changes, and the panel asks again.
`Waiting` and `Shown` tie the panel's status to its request and its project.

The library's induction theorems cannot be used with the provers at hand; where a
proof needs induction it takes the least counterexample (`LeastNumber`, or `WFMin`
on subsets) instead.

Only model-checked: `SlotReleased`, `SearchesEnd` and `RunEnds`; liveness under
fairness is beyond the prover. Every safety property of a run is a theorem. `Spec` of
`Reachability` and `FairSpec` have their safety proved, their fairness is used in
the runs only. The type invariants of the server's modules, `UsesBecomeEdges` (a
step towards `ReportSound`) and `EveryNameCounts` are theorems and no longer part
of the runs; the type invariants of `Reachability`, `BrowserSession` and
`LayerEditor` can be added to their configurations.

## 6. What is abstracted or left out

* Contents of files, events and requests; wording, logging, formatting.
* `os.RemoveAll` is one step that succeeds. Crashes and restarts are in
  `DiskCache` only, extraction in `ProjectLifecycle` only: `NoLeakedSources` is a
  statement about the manager, `NoLeakedUploads` the one about the loader.
* `ProjectLifecycle` lets the sweeper evict any registered project at any time,
  which includes what the idle clock allows; `DiskCache` has the clock.
* GET handlers read state and change none but the lease that `GetProject`
  renews, which is in `DiskCache`.
* In `GraphBuilder` an id is its canonical name, so that hashes do not collide
  and equal names do. Declarations named `_`, warnings and positions are left
  out. `Orchestrator` and `Reachability` are not composed: to the pipeline a
  stage is a computation that succeeds or fails, to the graph the order of the
  stages is what `phase` says.
* The browser's search is modelled over the full graph; above 1000 nodes it holds
  the package view instead.
* The hooks of React run within the action that changes their dependencies; two
  state changes that React batches are one action where the code sets them in one
  callback. The effect of `MainView` that refreshes the mode runs after every
  render, because it depends on an object made anew by each (`Rendered`).
* `BrowserSession` is one tab; what other tabs do to the settings is in
  `EntryPoints`, to the filters in `Visibility`. In `EntryPoints` the graph is
  ready throughout, in `Visibility` an expansion is one step: the late answers
  are the subject of `Canvas`.
* `DeadCodePanel` leaves out the local reachability that `handleReanalyzeDone`
  falls back to when the server reports an empty graph, takes every failure of a
  report but `no_graph_yet` for one, and reduces an event stream to its `done`.
  Downloads keep no state.
* `LayerEditor` leaves out opening another project in the mounted page and the
  members of expanded packages, and takes graphs of one size to have the same
  nodes (an assumption on its constants): the code compares counts.
* In `SlotLayout` and `MemberLayout` what the code halves in floating point stays
  exact in eighths of a pixel; what is left over in `StepX`, the step between three
  or more sub-columns, is rounded down. Nodes are measured: the fixed pitch for
  callers that give no sizes is left out.

Not modelled, because there is no state or no second actor: the rendering of the
report, types and identifiers, middleware, flags and static files, the splitting
of bytes into frames, texts, tooltips, toasts, zoom and theme, the list of recent
projects. Not modelled although a property could be stated:
the arithmetic of the loader's budgets and the flattening of a wrapper directory
(sequential, over the contents of one archive), the chunk size of partial graphs,
the weights and dead counts of the package view, the symbol cache of the client,
and a full or refused `localStorage`. `PROJECT.json` says the same component by
component, and lists as hazards without a property those that this leaves.

## 7. Plan

Done: the server (`DiskCache`, `Orchestrator`, `ProjectLifecycle`,
`Reachability`), then the client (`BrowserSession`, `Canvas`, `Visibility`,
`EntryPoints`, `LayerEditor`, `Layouts`, `DeadCodePanel`), and the proofs of
section 5.

What would come next, by importance:

1. `BrowserSession` over the real `Orchestrator` instead of the operators that
   stand for its stream, with the refinement of `AnalysisStream` used as a lemma.
2. `Loader`: budgets at their limits, saturating addition modulo 2^w, the
   flattening of a wrapper over small trees.
3. The package view of `reach/aggregator.go` with its weights.
4. `LayerEditor` over two projects in one mounted page, where the flush writes
   the positions of the old project under the new key
   (`usePositionsStorage.ts:52,67-71`).
