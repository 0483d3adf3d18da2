----------------------------- MODULE EntryPoints ----------------------------
(***************************************************************************)
(* The entry points of one project in several tabs of one browser: the     *)
(* panel and its dialog, "Add as entry point" on a node, the specification *)
(* in localStorage with the events that tell the other tabs, the catalogue *)
(* of symbols, and the analysis every change starts; another tab on the    *)
(* landing page may forget the project.  The graph of a tab is ready       *)
(* throughout: what a refresh does to an analysis is in BrowserSession.    *)
(* A name is <<package, receiver, name>>; interface_impl, which nothing    *)
(* edits, is left out.                                                     *)
(***************************************************************************)
EXTENDS Integers, Sequences, FiniteSets, SequencesExt, Functions, Filtering, Absent

CONSTANTS
    Tabs,
    DialogTabs,         \* tabs whose dialog is used (a bound)
    Contents,           \* what a canvas may hold: [nodes |-> Seq of [kind,
                        \* package, name], contains |-> Seq of pairs of indices]
    Catalogue,          \* the names GET symbols answers, in order
    Resolvable,         \* the names the server resolves
    Typed,              \* well-formed names the user types
    Queries,            \* search texts
    Starts, InWord, InName, InFqn,  \* per text: the names it matches, and how
    NameLength, PackageOrder,       \* of a name
    PickerLimit,        \* rows of the picker
    MaxEdits            \* changes of the specification (a bound)

ASSUME EntryAssumption ==
    /\ DialogTabs \subseteq Tabs
    /\ PickerLimit \in Nat \ {0} /\ MaxEdits \in Nat
    /\ ToSet(Catalogue) \subseteq Resolvable

VARIABLES
    stored,     \* localStorage "entry-points", NoSpec when there is none
    inbox,      \* storage events a tab has not seen yet
    value,      \* entrySpec of a tab
    busy,       \* the status of useReanalyze is "running"
    rejected,   \* its lastError has the code invalid_entry_point
    catalogue,  \* symbolsCache of the tab's client: "none", "asked" or "kept"
    dialog,     \* None, or the state of AddEntryDialog
    edits,
    typed,      \* names that were typed in (a history variable)
    crossed     \* a tab has changed the specification while an event was on
                \* its way to it (a history variable)

storage == <<stored, inbox>>
runs == <<busy, rejected>>
history == <<edits, typed, crossed>>
entryVars == <<storage, value, runs, catalogue, dialog, history>>

----------------------------------------------------------------------------
(* Specifications.                                                         *)

DefaultSpec == [mode |-> "auto", kinds |-> {"main"}, manual |-> <<>>]

NoSpec == [mode |-> "absent"]

(* What is not there is replaced by the default.                           *)
Normalized(s) == IF s = NoSpec THEN DefaultSpec ELSE s

(* The order of the manual list does not count.                            *)
Canonical(s) == [s EXCEPT !.manual = ToSet(@)]

IsAutoOn(s) == s.mode \in {"auto", "mixed"} /\ s.kinds # {}

(* Mutation: the mode is left alone while there are manual names.          *)
WithAutoKept(s, on) ==
    [s EXCEPT !.mode = IF s.manual # <<>> THEN @ ELSE IF on THEN "auto" ELSE "manual",
              !.kinds = IF on THEN @ \cup {"main"} ELSE {}]

WithAutoEnabled(s, on) ==
    [s EXCEPT !.mode = IF ~on THEN "manual" ELSE IF s.manual # <<>> THEN "mixed" ELSE "auto",
              !.kinds = IF on THEN @ \cup {"main"} ELSE {}]

WithManualAdded(s, fqn) ==
    [s EXCEPT !.mode = IF @ = "manual" THEN "manual" ELSE "mixed",
              !.manual = Append(@, fqn)]

WithManualRemoved(s, fqn) ==
    LET manual == Kept(s.manual, ToSet(s.manual) \ {fqn})
    IN  [s EXCEPT !.manual = manual,
                  !.mode = IF manual = <<>> THEN IF s.kinds # {} THEN "auto" ELSE "manual"
                           ELSE IF @ = "mixed" /\ s.kinds = {} THEN "manual" ELSE @]

----------------------------------------------------------------------------
(* Names of nodes.                                                         *)

(* The struct or interface whose contains edge to the node comes first.    *)
Receiver(g, n) ==
    LET parents == {i \in DOMAIN g.contains :
                      /\ g.contains[i][2] = n
                      /\ g.nodes[g.contains[i][1]].kind \in {"struct", "interface"}}
    IN  IF parents = {} THEN None ELSE g.nodes[g.contains[Min(parents)][1]].name

(* Mutation: a method is named like a function.                            *)
NodeToFqnBare(g, n) ==
    LET node == g.nodes[n]
    IN  IF node.kind \in {"func", "method"} THEN <<node.package, None, node.name>> ELSE None

NodeToFqn(g, n) ==
    LET node == g.nodes[n]
    IN  CASE node.kind = "func" -> <<node.package, None, node.name>>
          [] node.kind = "method" /\ Receiver(g, n) # None ->
                <<node.package, Receiver(g, n), node.name>>
          [] OTHER -> None

GraphToSymbols(g) ==
    LET names == [n \in DOMAIN g.nodes |-> NodeToFqn(g, n)]
    IN  Kept(names, ToSet(names) \ {None})

(* The names the picker may compare have a length and a package.           *)
Names == DOMAIN NameLength

(* The server resolves what the graph was made from: a function of a       *)
(* package, and a method by the name of a type that contains it.           *)
ASSUME NamesAssumption ==
    /\ {NameLength, PackageOrder} \subseteq [Names -> Nat]
    /\ Catalogue \in Seq(Names)
    /\ \A g \in Contents :
          /\ g.nodes \in Seq(ToSet(g.nodes)) /\ g.contains \in Seq(ToSet(g.contains))
          /\ \A n \in DOMAIN g.nodes :
                /\ NodeToFqn(g, n) \in Names \cup {None}
                /\ g.nodes[n].kind = "func"
                      => <<g.nodes[n].package, None, g.nodes[n].name>> \in Resolvable
          /\ \A i \in DOMAIN g.contains :
                LET type == g.nodes[g.contains[i][1]]
                    method == g.nodes[g.contains[i][2]]
                IN  type.kind \in {"struct", "interface"} /\ method.kind = "method"
                      => <<method.package, type.name, method.name>> \in Resolvable

----------------------------------------------------------------------------
(* The picker.                                                             *)

Score(fqn, q) ==
    IF fqn \in Starts[q] THEN 3
    ELSE IF fqn \in InWord[q] THEN 2
    ELSE IF fqn \in InName[q] THEN 1
    ELSE IF fqn \in InFqn[q] THEN 0 ELSE -1

(* The better match, the shorter name, the package, the order they came in.*)
Before(symbols, q, i, j) ==
    LET f == symbols[i]
        g == symbols[j]
    IN  \/ Score(f, q) > Score(g, q)
        \/ /\ Score(f, q) = Score(g, q)
           /\ \/ NameLength[f] < NameLength[g]
              \/ /\ NameLength[f] = NameLength[g]
                 /\ \/ PackageOrder[f] < PackageOrder[g]
                    \/ PackageOrder[f] = PackageOrder[g] /\ i < j

Matches(symbols, q) == {i \in DOMAIN symbols : Score(symbols[i], q) >= 0}

(* The match that n - 1 others come before.                                *)
RankSymbols(symbols, q, n) ==
    CHOOSE i \in Matches(symbols, q) :
        Cardinality({j \in Matches(symbols, q) : Before(symbols, q, j, i)}) = n - 1

(* No text, no rows.                                                       *)
Rows(d) ==
    IF d.query = "" THEN 0 ELSE Min({Cardinality(Matches(d.symbols, d.query)), PickerLimit})

Ranked(d) == [n \in 1..Rows(d) |-> d.symbols[RankSymbols(d.symbols, d.query, n)]]

----------------------------------------------------------------------------
(* A change of the specification.                                          *)

(* A different specification is analysed at once.                          *)
Shows(t, s) ==
    /\ value' = [value EXCEPT ![t] = s]
    /\ IF Canonical(s) = Canonical(value[t])
       THEN UNCHANGED busy
       ELSE busy' = [busy EXCEPT ![t] = TRUE]

(* localStorage is written, and the other tabs will be told.               *)
Change(t, s) ==
    /\ edits < MaxEdits /\ edits' = edits + 1
    /\ Shows(t, s)
    /\ rejected' = [rejected EXCEPT ![t] = FALSE]
    /\ stored' = s
    /\ inbox' = [u \in Tabs |-> IF u = t \/ s = stored THEN inbox[u] ELSE Append(inbox[u], s)]
    /\ crossed' = (crossed \/ inbox[t] # <<>>)

(* Mutation: an event is dropped while an analysis runs.                   *)
StorageEventUnlessBusy(t) ==
    /\ inbox[t] # <<>>
    /\ inbox' = [inbox EXCEPT ![t] = Tail(@)]
    /\ IF busy[t] THEN UNCHANGED <<value, runs>>
       ELSE Shows(t, Normalized(Head(inbox[t]))) /\ UNCHANGED rejected
    /\ UNCHANGED <<stored, catalogue, dialog, history>>

StorageEvent(t) ==
    /\ inbox[t] # <<>>
    /\ inbox' = [inbox EXCEPT ![t] = Tail(@)]
    /\ LET s == Normalized(Head(inbox[t]))
       IN  /\ Shows(t, s)
           /\ rejected' = IF Canonical(s) = Canonical(value[t]) THEN rejected
                          ELSE [rejected EXCEPT ![t] = FALSE]
    /\ UNCHANGED <<stored, catalogue, dialog, history>>

(* "Forget" on the landing page of another tab: the settings of the        *)
(* project are purged, and the tabs that show it fall back to the default. *)
Forget ==
    /\ stored # NoSpec
    /\ edits < MaxEdits /\ edits' = edits + 1
    /\ stored' = NoSpec
    /\ inbox' = [u \in Tabs |-> Append(inbox[u], NoSpec)]
    /\ UNCHANGED <<value, runs, catalogue, dialog, typed, crossed>>

ToggleAuto(t, on) ==
    /\ ~busy[t] /\ on # IsAutoOn(value[t])
    /\ Change(t, WithAutoEnabled(value[t], on))
    /\ UNCHANGED <<catalogue, dialog, typed>>

RemoveManual(t, fqn) ==
    /\ ~busy[t] /\ fqn \in ToSet(value[t].manual)
    /\ Change(t, WithManualRemoved(value[t], fqn))
    /\ UNCHANGED <<catalogue, dialog, typed>>

(* From the panel about a node, or from its menu.  Nobody asks whether an  *)
(* analysis runs; a name that is there already is a message only.          *)
AddNode(t, g, n) ==
    /\ dialog[t] = None
    /\ NodeToFqn(g, n) # None /\ NodeToFqn(g, n) \notin ToSet(value[t].manual)
    /\ Change(t, WithManualAdded(value[t], NodeToFqn(g, n)))
    /\ UNCHANGED <<catalogue, dialog, typed>>

----------------------------------------------------------------------------
(* The dialog.                                                             *)

SetDialog(t, d) == dialog' = [dialog EXCEPT ![t] = d]

(* A catalogue that came earlier is there at once (in the next microtask); *)
(* an empty one leaves the names taken from the graph.                     *)
(* When no change is left the dialog is not opened (part of the bound).    *)
OpenDialog(t, g) ==
    /\ dialog[t] = None /\ ~busy[t]
    /\ edits < MaxEdits
    /\ SetDialog(t, [tab |-> "pick", query |-> "", fqn |-> None, active |-> 0,
                     symbols |-> IF catalogue[t] = "kept" /\ Catalogue # <<>>
                                 THEN Catalogue ELSE GraphToSymbols(g)])
    /\ catalogue' = [catalogue EXCEPT ![t] = IF @ = "none" THEN "asked" ELSE @]
    /\ UNCHANGED <<storage, value, runs, history>>

(* The button, Escape, or a click that began on the backdrop.              *)
CloseDialog(t) ==
    /\ dialog[t] # None
    /\ SetDialog(t, None)
    /\ UNCHANGED <<storage, value, runs, catalogue, history>>

(* Mutation: the highlight stays where it is.                              *)
ReshapedNever(old, new) == new

(* The highlight goes back to the first row when the rows change in number *)
(* or the text changes.                                                    *)
Reshaped(old, new) ==
    IF new.query # old.query \/ Rows(new) # Rows(old)
    THEN [new EXCEPT !.active = 0] ELSE new

DialogBecomes(t, new) ==
    /\ SetDialog(t, Reshaped(dialog[t], new))
    /\ UNCHANGED <<storage, value, runs, catalogue, history>>

SetTab(t, tab) ==
    /\ dialog[t] # None /\ dialog[t].tab # tab
    /\ DialogBecomes(t, [dialog[t] EXCEPT !.tab = tab])

TypeQuery(t, q) ==
    /\ dialog[t] # None /\ dialog[t].tab = "pick" /\ dialog[t].query # q
    /\ DialogBecomes(t, [dialog[t] EXCEPT !.query = q])

(* None: nothing, or nothing well-formed.                                  *)
TypeFqn(t, fqn) ==
    /\ dialog[t] # None /\ dialog[t].tab = "fqn" /\ dialog[t].fqn # fqn
    /\ DialogBecomes(t, [dialog[t] EXCEPT !.fqn = fqn])

(* Keys, and the mouse over a row.                                         *)
Highlight(t) ==
    /\ dialog[t] # None /\ dialog[t].tab = "pick"
    /\ LET d == dialog[t]
           rows == Rows(d)
       IN  /\ rows > 0
           /\ \E i \in {(d.active + 1) % rows, (d.active - 1 + rows) % rows, 0, rows - 1}
                        \cup 0..(rows - 1) :
                 DialogBecomes(t, [d EXCEPT !.active = i])

(* The answer to GET symbols; no rows leave those of the graph.            *)
SymbolsArrive(t) ==
    /\ catalogue[t] = "asked"
    /\ catalogue' = [catalogue EXCEPT ![t] = "kept"]
    /\ SetDialog(t, IF dialog[t] = None \/ Catalogue = <<>> THEN dialog[t]
                    ELSE Reshaped(dialog[t], [dialog[t] EXCEPT !.symbols = Catalogue]))
    /\ UNCHANGED <<storage, value, runs, history>>

SymbolsFail(t) ==
    /\ catalogue[t] = "asked"
    /\ catalogue' = [catalogue EXCEPT ![t] = "none"]
    /\ UNCHANGED <<storage, value, runs, dialog, history>>

(* A new name closes the dialog before the server has seen it.             *)
Submit(t, fqn) ==
    /\ fqn \notin ToSet(value[t].manual)
    /\ Change(t, WithManualAdded(value[t], fqn))
    /\ SetDialog(t, None)
    /\ UNCHANGED catalogue

(* The row Enter or Tab takes.                                             *)
Target(d) ==
    Ranked(d)[IF d.active < Rows(d) THEN d.active + 1 ELSE Rows(d)]

CommitActive(t) ==
    /\ dialog[t] # None /\ dialog[t].tab = "pick" /\ Rows(dialog[t]) > 0
    /\ Submit(t, Target(dialog[t]))
    /\ UNCHANGED typed

FqnSubmit(t) ==
    /\ dialog[t] # None /\ dialog[t].tab = "fqn" /\ dialog[t].fqn # None
    /\ Submit(t, dialog[t].fqn)
    /\ typed' = typed \cup {dialog[t].fqn}

----------------------------------------------------------------------------
(* The analysis, and the page.                                             *)

(* The server looks at the manual names unless the mode is auto.           *)
Rejected(s) == s.mode # "auto" /\ ~(ToSet(s.manual) \subseteq Resolvable)

RunEnds(t, isRejected) ==
    /\ busy[t]
    /\ busy' = [busy EXCEPT ![t] = FALSE]
    /\ rejected' = [rejected EXCEPT ![t] = isRejected]
    /\ UNCHANGED <<storage, value, catalogue, dialog, history>>

RunRejected(t) == Rejected(value[t]) /\ RunEnds(t, TRUE)

(* It is done; or the other tab's analysis holds the project, the stream   *)
(* breaks, ...                                                             *)
RunOver(t) == RunEnds(t, FALSE)

EntryInit ==
    /\ stored = NoSpec /\ inbox = [t \in Tabs |-> <<>>]
    /\ value = [t \in Tabs |-> DefaultSpec]
    /\ busy = [t \in Tabs |-> FALSE] /\ rejected = [t \in Tabs |-> FALSE]
    /\ catalogue = [t \in Tabs |-> "none"] /\ dialog = [t \in Tabs |-> None]
    /\ edits = 0 /\ typed = {} /\ crossed = FALSE

ReloadTab(t) ==
    /\ value' = [value EXCEPT ![t] = Normalized(stored)]
    /\ inbox' = [inbox EXCEPT ![t] = <<>>]
    /\ busy' = [busy EXCEPT ![t] = FALSE] /\ rejected' = [rejected EXCEPT ![t] = FALSE]
    /\ catalogue' = [catalogue EXCEPT ![t] = "none"]
    /\ SetDialog(t, None)
    /\ UNCHANGED <<stored, history>>

PanelNext(t) ==
    \/ \E on \in BOOLEAN : ToggleAuto(t, on)
    \/ \E f \in ToSet(value[t].manual) : RemoveManual(t, f)
    \/ \E g \in Contents : \E n \in DOMAIN g.nodes : AddNode(t, g, n)

DialogNext(t) ==
    \/ \E g \in Contents : OpenDialog(t, g)
    \/ \E tab \in {"pick", "fqn"} : SetTab(t, tab)
    \/ \E q \in Queries : TypeQuery(t, q)
    \/ \E f \in Typed \cup {None} : TypeFqn(t, f)
    \/ CloseDialog(t) \/ Highlight(t) \/ CommitActive(t) \/ FqnSubmit(t)

OtherNext(t) ==
    \/ StorageEvent(t) \/ SymbolsArrive(t) \/ SymbolsFail(t)
    \/ RunRejected(t) \/ RunOver(t) \/ ReloadTab(t)

EntryNext ==
    \/ \E t \in Tabs : PanelNext(t) \/ OtherNext(t)
    \/ \E t \in DialogTabs : DialogNext(t)
    \/ Forget

EntrySpec == EntryInit /\ [][EntryNext]_entryVars
----------------------------------------------------------------------------
(* Properties.                                                             *)

(* What a panel shows is what the server will do: main functions are       *)
(* entries exactly when the box is ticked, and every name in the list      *)
(* counts, whichever tab, dialog or node it came from.                     *)
Truthful(s) ==
    /\ IsAutoOn(s) <=> s.mode # "manual"
    /\ s.manual # <<>> => s.mode # "auto"
PanelTellsTheTruth ==
    /\ \A t \in Tabs : Truthful(value[t])
    /\ Truthful(Normalized(stored))

(* The row Enter takes is the row that is lit, although the catalogue may  *)
(* come between two keys and change the rows.                              *)
EnterTakesTheLitRow ==
    \A t \in Tabs :
        dialog[t] # None /\ Rows(dialog[t]) > 0
        => dialog[t].active \in 0..(Rows(dialog[t]) - 1)

(* Once every event has been seen all tabs show what is stored, unless two *)
(* of them changed it across one another.                                  *)
TabsAgree ==
    ~crossed /\ (\A t \in Tabs : inbox[t] = <<>>)
    => \A t \in Tabs : value[t] = Normalized(stored)

(* A name that was picked, on the canvas or in the dialog, is one the      *)
(* server resolves: only what was typed by hand can be rejected.           *)
PickedNamesResolve ==
    \A t \in Tabs : ToSet(value[t].manual) \subseteq Resolvable \cup typed

(* useLocalStorage.ts: "Reacts to storage events from other tabs, so the   *)
(* displayed state stays in sync."  Two tabs that change the specification *)
(* before each has heard of the other show each other's, for good.         *)
TabsInSync ==
    (\A t \in Tabs : inbox[t] = <<>>) => \A t, u \in Tabs : value[t] = value[u]

(* MainView.tsx: invalid_entry_point is what "the dialog handles inline".  *)
(* The dialog that submitted the name is closed by then.                   *)
RejectionIsShown ==
    \A t \in Tabs : rejected[t] => dialog[t] # None
=============================================================================
