-------------------------- MODULE VisibilityProofs --------------------------
(***************************************************************************)
(* What the dead-code mode, the filters and the hidden subtrees leave on   *)
(* the canvas, proved for every graph, every set of packages and structs   *)
(* and every text of the search.  The first three properties are inductive *)
(* as they stand; what has to be shown is that every action that changes   *)
(* the elements or one of the three leaves the classes in step.  That the  *)
(* panel changes what it shows rests on the packages of the canvas.        *)
(***************************************************************************)
EXTENDS Visibility, FiniteSetTheorems, TLAPS

Settled == canvas \ UNION {Members[s] : s \in Structs}

(* The classes of the mode are those a render puts on.                     *)
ModeInv == Settled \cap modeHidden = Settled \cap HiddenByMode

(* A render that puts on the classes makes the mode hold.                  *)
LEMMA RenderSettles == Rendered => ModeInv'
  BY DEF Rendered, ModeInv, Settled

LEMMA ModeInvMeansHolds == ModeInv <=> ModeHolds
  BY DEF ModeInv, ModeHolds, Settled, HiddenByMode

(* Opening a struct adds members, which are not settled, and no class to   *)
(* what was there.                                                         *)
LEMMA StructKeepsMode ==
    ASSUME ModeInv, NEW s \in Structs, NEW g, ExpandStruct(s, g)
    PROVE  ModeInv'
<1>1. /\ canvas' = canvas \cup Members[s] /\ partial' = partial /\ mode' = mode
      /\ dead' = dead \cup (g.dead \cap (Members[s] \ canvas))
      /\ modeHidden' = modeHidden
  BY DEF ExpandStruct, Added, NodesBecome
<1>2. Settled' = Settled
  BY <1>1 DEF Settled
<1>3. \A n \in Settled : n \in canvas /\ n \notin Members[s]
  BY DEF Settled
<1>4. \A n \in Settled : n \in HiddenByMode' <=> n \in HiddenByMode
  BY <1>1, <1>3 DEF HiddenByMode
<1>5. QED
  BY <1>1, <1>2, <1>4 DEF ModeInv

(* Every other action renders, or leaves the elements and the mode alone.  *)
Rests == UNCHANGED <<canvas, dead, partial, mode, modeHidden>>

LEMMA RestKeepsMode == ModeInv /\ Rests => ModeInv'
  BY DEF ModeInv, Rests, Settled, HiddenByMode

LEMMA DraftRests == \A text : NewDraft(text) => Rests
  BY DEF NewDraft, Rests, elements, deadMode

LEMMA SpecRenders == \A s, text : NewSpec(s, text) => Rendered
  BY DEF NewSpec

LEMMA PanelRenders == PanelNext => Rendered \/ Rests
<1> SUFFICES ASSUME PanelNext
             PROVE  Rendered \/ Rests
  OBVIOUS
<1>1. CASE \E k \in ToggledKinds : ToggleKind(k)
  BY <1>1, SpecRenders DEF ToggleKind
<1>2. CASE \E ps \in SUBSET Packages, on \in BOOLEAN : TogglePackages(ps, on)
  BY <1>2, SpecRenders DEF TogglePackages
<1>3. CASE \E text \in Texts : TypeFind(text)
  BY <1>3, DraftRests DEF TypeFind
<1>4. CASE ToggleExternal \/ ResetPackages \/ ResetAll \/ FindFires
  BY <1>4, SpecRenders DEF ToggleExternal, ResetPackages, ResetAll, FindFires
<1>5. CASE EscapeFind
  BY <1>5, SpecRenders, DraftRests DEF EscapeFind
<1>6. QED
  BY <1>1, <1>2, <1>3, <1>4, <1>5 DEF PanelNext

LEMMA ModeKept == ModeInv /\ [Next]_vars => ModeInv'
<1> SUFFICES ASSUME ModeInv, [Next]_vars
             PROVE  ModeInv'
  OBVIOUS
<1>1. CASE PanelNext
  BY <1>1, PanelRenders, RenderSettles, RestKeepsMode
<1>2. CASE Reload
  BY <1>2 DEF Reload, ModeInv, Settled, HiddenByMode
<1>3. CASE \E s \in Structs, g \in Graphs : ExpandStruct(s, g)
  BY <1>3, StructKeepsMode
<1>4. CASE \/ CycleMode \/ ExpandAll \/ CollapseAll \/ OtherRender
           \/ \E m \in Modes : SetMode(m)
           \/ \E n \in Roots : HideSubtree(n) \/ ShowSubtree(n)
           \/ \E p \in Packages, g \in Graphs : ExpandPackage(p, g)
           \/ \E p \in Packages : CollapsePackage(p)
  BY <1>4, RenderSettles
     DEF CycleMode, SetMode, ExpandAll, NewRoots, CollapseAll, CollapsePackage, Closed,
         OtherRender, HideSubtree, ShowSubtree, ExpandPackage
<1>5. CASE GraphNext
  BY <1>5, SpecRenders, RenderSettles
     DEF GraphNext, Refresh, GraphFails, GraphArrives, LocalFallback, OtherTabFilters
<1>6. CASE UNCHANGED vars
  BY <1>6, RestKeepsMode DEF vars, elements, deadMode, Rests
<1>7. QED
  BY <1>1, <1>2, <1>3, <1>4, <1>5, <1>6 DEF Next, UserNext

(* useDeadMode.ts: what the mode hides is what the classes say, in every   *)
(* reachable state.                                                        *)
THEOREM ModeAlwaysHolds == Spec => []ModeHolds
<1>1. Init => ModeInv
  BY DEF Init, ModeInv, Settled, HiddenByMode
<1>2. QED
  BY <1>1, ModeKept, ModeInvMeansHolds, PTL DEF Spec

----------------------------------------------------------------------------
(* Hidden subtrees.                                                        *)

(* Without a new choice of roots, classes of subtrees only go.             *)
LEMMA SubtreesOnlyGo ==
    ASSUME [Next]_vars, ~\E roots : NewRoots(roots)
    PROVE  /\ collapsed' = collapsed
           /\ collapsedHidden' \subseteq collapsedHidden \/ collapsedHidden' = {}
<1>1. ASSUME NEW s, NEW text, NewSpec(s, text)
      PROVE  collapsed' = collapsed /\ collapsedHidden' = collapsedHidden
  BY <1>1 DEF NewSpec, subtrees
<1>2. ASSUME NEW text, NewDraft(text)
      PROVE  collapsed' = collapsed /\ collapsedHidden' = collapsedHidden
  BY <1>2 DEF NewDraft, subtrees
<1>3. CASE PanelNext
  <2>1. (\E s, text : NewSpec(s, text)) \/ (\E text : NewDraft(text))
    BY <1>3 DEF PanelNext, ToggleKind, TogglePackages, TypeFind, ToggleExternal,
                ResetPackages, ResetAll, FindFires, EscapeFind
  <2>2. QED
    BY <1>1, <1>2, <2>1
<1>4. CASE Reload
  BY <1>4 DEF Reload
<1>5. CASE CycleMode \/ OtherRender \/ \E m \in Modes : SetMode(m)
  BY <1>5 DEF CycleMode, SetMode, OtherRender, subtrees
<1>6. CASE CollapseAll \/ \E p \in Packages : CollapsePackage(p)
  BY <1>6 DEF CollapseAll, CollapsePackage, Closed
<1>7. CASE \E p \in Packages, g \in Graphs : ExpandPackage(p, g)
  BY <1>7 DEF ExpandPackage, Added, NodesBecome
<1>8. CASE \E s \in Structs, g \in Graphs : ExpandStruct(s, g)
  BY <1>8 DEF ExpandStruct, Added, NodesBecome
<1>9. CASE ExpandAll \/ \E n \in Roots : HideSubtree(n) \/ ShowSubtree(n)
  BY <1>9 DEF ExpandAll, HideSubtree, ShowSubtree
<1>10. CASE GraphNext
  BY <1>1, <1>10 DEF GraphNext, Refresh, GraphFails, GraphArrives, LocalFallback,
                     OtherTabFilters, Synced, NodesBecome, subtrees
<1>11. CASE UNCHANGED vars
  BY <1>11 DEF vars, subtrees
<1>12. QED
  BY <1>3, <1>4, <1>5, <1>6, <1>7, <1>8, <1>9, <1>10, <1>11 DEF Next, UserNext

LEMMA RootsShowAgain == NothingLost /\ [Next]_vars => NothingLost'
<1> SUFFICES ASSUME NothingLost, [Next]_vars
             PROVE  NothingLost'
  OBVIOUS
<1>1. ASSUME NEW roots, NewRoots(roots)
      PROVE  NothingLost'
  BY <1>1 DEF NewRoots, SubtreesHidden, NothingLost
<1>2. CASE ~\E roots : NewRoots(roots)
  BY <1>2, SubtreesOnlyGo DEF NothingLost
<1>3. QED
  BY <1>1, <1>2

(* useCollapse.ts: once nothing is marked as collapsed no subtree stays    *)
(* hidden, in every reachable state.                                       *)
THEOREM NothingEverLost == Spec => []NothingLost
<1>1. Init => NothingLost
  BY DEF Init, NothingLost
<1>2. QED
  BY <1>1, RootsShowAgain, PTL DEF Spec

----------------------------------------------------------------------------
(* Filters.                                                                *)

(* What the classes are, node by node, for a node that was there when they *)
(* were last put on; and that every package has its node or its members.   *)
Shape == DOMAIN shown = {"hidden", "match", "dim"}
Current ==
    \A n : n \notin late =>
        /\ n \in shown.hidden <=> n \in canvas /\ Rejected(spec, n)
        /\ n \in shown.match <=> /\ n \in canvas /\ n \in Matching
                                  /\ spec.find # "" /\ ~Rejected(spec, n)
NoDim == spec.find = "" => shown.dim = {}
Whole == graph # None => Base \subseteq canvas
FilterInv == Shape /\ Current /\ NoDim /\ Whole

LEMMA FilterInvMeansHold == FilterInv => FiltersHold
<1> SUFFICES ASSUME FilterInv
             PROVE  FiltersHold
  OBVIOUS
<1> DEFINE expected == Classes(spec, canvas)
<1>1. \A n : n \in expected.hidden <=> n \in canvas /\ Rejected(spec, n)
  BY DEF Classes
<1>2. \A n : n \in expected.match <=> /\ n \in canvas /\ n \in Matching
                                      /\ spec.find # "" /\ ~Rejected(spec, n)
  BY DEF Classes
<1> HIDE DEF expected
<1>3. /\ shown.hidden \ late = expected.hidden \ late
      /\ shown.match \ late = expected.match \ late
  BY <1>1, <1>2 DEF FilterInv, Current
<1>4. QED
  BY <1>3 DEF FilterInv, NoDim, Whole, FiltersHold, expected

(* Applying the filters puts on the classes of the spec, whatever was      *)
(* there.                                                                  *)
LEMMA ApplyIsCurrent == ApplyFilters => Shape' /\ Current' /\ NoDim'
<1> SUFFICES ASSUME ApplyFilters
             PROVE  Shape' /\ Current' /\ NoDim'
  OBVIOUS
<1> DEFINE h == {n \in canvas' : Rejected(spec', n)}
           m == IF spec'.find = "" THEN {} ELSE (canvas' \ h) \cap Matching
           d == IF m = {} THEN {} ELSE canvas' \ (h \cup m)
<1>1. late' = {} /\ shown' = [hidden |-> h, match |-> m, dim |-> d]
  BY DEF ApplyFilters, Classes
<1>2. /\ DOMAIN shown' = {"hidden", "match", "dim"}
      /\ shown'.hidden = h /\ shown'.match = m /\ shown'.dim = d
  BY <1>1
<1>3. \A n : n \in h <=> n \in canvas' /\ Rejected(spec', n)
  OBVIOUS
<1>4. \A n : n \in m <=> n \in canvas' /\ n \in Matching /\ spec'.find # "" /\ n \notin h
  OBVIOUS
<1>5. spec'.find = "" => d = {}
  OBVIOUS
<1> HIDE DEF h, m, d
<1>6. Current'
  BY <1>2, <1>3, <1>4 DEF Current, Rejected
<1>7. QED
  BY <1>2, <1>5, <1>6 DEF Shape, NoDim

(* Elements that come are late, and those that go take their classes away. *)
LEMMA ElementsKeepCurrent ==
    ASSUME Shape, Current, NoDim, spec' = spec, NEW kept,
           \A n : n \notin late' => (n \in canvas' <=> n \in canvas \cap kept)
                                   /\ (n \in kept => n \notin late),
           shown' = [c \in DOMAIN shown |-> shown[c] \cap kept]
    PROVE  Shape' /\ Current' /\ NoDim'
<1>1. /\ DOMAIN shown' = {"hidden", "match", "dim"}
      /\ shown'.hidden = shown.hidden \cap kept
      /\ shown'.match = shown.match \cap kept
      /\ shown'.dim = shown.dim \cap kept
  BY DEF Shape
<1>2. \A n : Rejected(spec', n) <=> Rejected(spec, n)
  OBVIOUS
<1>3. Current'
  <2> SUFFICES ASSUME NEW n, n \notin late'
               PROVE  /\ n \in shown'.hidden <=> n \in canvas' /\ Rejected(spec', n)
                      /\ n \in shown'.match <=> /\ n \in canvas' /\ n \in Matching
                                  /\ spec'.find # "" /\ ~Rejected(spec', n)
    BY DEF Current, Rejected
  <2>1. (n \in canvas' <=> n \in canvas \cap kept) /\ (n \in kept => n \notin late)
    OBVIOUS
  <2>2. CASE n \notin kept
    BY <1>1, <2>1, <2>2
  <2>3. CASE n \in kept
    BY <1>1, <1>2, <2>1, <2>3 DEF Current
  <2>4. QED
    BY <2>2, <2>3
<1>4. QED
  BY <1>1, <1>3 DEF Shape, NoDim

LEMMA ElementsOnlyKeeps ==
    ASSUME Shape, Current, NoDim, spec' = spec, ElementsOnly
    PROVE  Shape' /\ Current' /\ NoDim'
  BY ElementsKeepCurrent DEF ElementsOnly

(* What happens to the filters: they are applied, or the elements change   *)
(* without them, or nothing does.                                          *)
StepApplies ==
    ApplyFilters /\ (UNCHANGED <<graph, canvas>> \/ canvas' = Base)
StepChanges ==
    /\ spec' = spec /\ ElementsOnly
    /\ (graph' = graph /\ canvas \subseteq canvas') \/ canvas' = Base
StepRests == UNCHANGED <<graph, canvas, spec, shown, late>>

LEMMA SpecApplies == \A s, text : NewSpec(s, text) => StepApplies
  BY DEF NewSpec, StepApplies, data, elements

LEMMA DraftLeaves == \A text : NewDraft(text) => StepRests
  BY DEF NewDraft, Debounce, StepRests, data, elements

LEMMA PanelSteps == PanelNext => StepApplies \/ StepRests
<1> SUFFICES ASSUME PanelNext
             PROVE  StepApplies \/ StepRests
  OBVIOUS
<1>1. (\E s, text : NewSpec(s, text)) \/ (\E text : NewDraft(text))
  BY DEF PanelNext, ToggleKind, TogglePackages, TypeFind, ToggleExternal,
         ResetPackages, ResetAll, FindFires, EscapeFind
<1>2. QED
  BY <1>1, SpecApplies, DraftLeaves

LEMMA GraphSteps == GraphNext => StepApplies \/ StepChanges
<1> SUFFICES ASSUME GraphNext
             PROVE  StepApplies \/ StepChanges
  OBVIOUS
<1>1. CASE Refresh \/ GraphFails
  BY <1>1 DEF Refresh, GraphFails, StepApplies, elements
<1>2. CASE \E g \in Graphs : GraphArrives(g)
  BY <1>2 DEF GraphArrives, Synced, NodesBecome, StepApplies
<1>3. CASE \E g \in Graphs : LocalFallback(g)
  BY <1>3 DEF LocalFallback, Synced, NodesBecome, StepChanges
<1>4. CASE \E s \in OtherSpecs : OtherTabFilters(s)
  BY <1>4, SpecApplies DEF OtherTabFilters
<1>5. QED
  BY <1>1, <1>2, <1>3, <1>4 DEF GraphNext

(* A package that is closed gets its node back, late for the filters.      *)
LEMMA ClosedKeeps ==
    ASSUME FilterInv, NEW ps, Closed(ps)
    PROVE  FilterInv'
<1> DEFINE others == {n \in canvas : PackageOf[n] \notin ps}
           new == {PackageNode[p] : p \in ps}
<1>1. /\ canvas' = others \cup new
      /\ shown' = [c \in DOMAIN shown |-> shown[c] \cap others]
      /\ late' = (late \cap others) \cup new
      /\ spec' = spec /\ graph' = graph
  BY DEF Closed, data
<1>2. others \subseteq canvas
  OBVIOUS
<1>3. Whole'
  <2>1. ASSUME NEW p \in Packages, graph # None
        PROVE  PackageNode[p] \in others \cup new
    <3>1. PackageNode[p] \in canvas
      BY <2>1 DEF FilterInv, Whole, Base
    <3>2. PackageOf[PackageNode[p]] = p
      BY VisibilityAssumption
    <3>3. QED
      BY <3>1, <3>2
  <2>2. QED
    BY <1>1, <2>1 DEF Whole, Base
<1> HIDE DEF others, new
<1>4. \A n : n \notin late' => (n \in canvas' <=> n \in canvas \cap others)
                              /\ (n \in others => n \notin late)
  BY <1>1, <1>2
<1>5. Shape' /\ Current' /\ NoDim'
  BY <1>1, <1>4, ElementsKeepCurrent DEF FilterInv
<1>6. QED
  BY <1>3, <1>5 DEF FilterInv

LEMMA FiltersKept == FilterInv /\ [Next]_vars => FilterInv'
<1> SUFFICES ASSUME FilterInv, [Next]_vars
             PROVE  FilterInv'
  OBVIOUS
<1>1. CASE StepApplies
  BY <1>1, ApplyIsCurrent DEF StepApplies, FilterInv, Whole
<1>2. CASE StepChanges
  <2>1. Whole'
    BY <1>2 DEF StepChanges, FilterInv, Whole
  <2>2. QED
    BY <1>2, <2>1, ElementsOnlyKeeps DEF StepChanges, FilterInv
<1>3. CASE StepRests
  BY <1>3 DEF StepRests, FilterInv, Shape, Current, NoDim, Whole, Rejected
<1>4. CASE PanelNext \/ GraphNext
  BY <1>1, <1>2, <1>3, <1>4, PanelSteps, GraphSteps
<1>5. CASE \/ CycleMode \/ ExpandAll \/ OtherRender
           \/ \E m \in Modes : SetMode(m)
           \/ \E n \in Roots : HideSubtree(n) \/ ShowSubtree(n)
  <2>1. StepRests
    BY <1>5 DEF CycleMode, SetMode, ExpandAll, NewRoots, OtherRender, HideSubtree, ShowSubtree,
                StepRests, data, elements, filters
  <2>2. QED
    BY <1>3, <2>1
<1>6. CASE \E p \in Packages, g \in Graphs : ExpandPackage(p, g)
  <2>1. StepChanges
    BY <1>6 DEF ExpandPackage, Added, NodesBecome, StepChanges, data
  <2>2. QED
    BY <1>2, <2>1
<1>7. CASE \E s \in Structs, g \in Graphs : ExpandStruct(s, g)
  <2>1. StepChanges
    BY <1>7 DEF ExpandStruct, Added, NodesBecome, StepChanges, data
  <2>2. QED
    BY <1>2, <2>1
<1>8. CASE \E p \in Packages : CollapsePackage(p)
  BY <1>8, ClosedKeeps DEF CollapsePackage
<1>9. CASE CollapseAll
  BY <1>9, ClosedKeeps DEF CollapseAll
<1>10. CASE Reload
  <2>1. graph' = None /\ canvas' = {} /\ shown' = NoClasses /\ late' = {}
    BY <1>10 DEF Reload
  <2>2. QED
    BY <2>1 DEF NoClasses, FilterInv, Shape, Current, NoDim, Whole
<1>11. CASE UNCHANGED vars
  <2>1. StepRests
    BY <1>11 DEF vars, data, elements, filters, StepRests
  <2>2. QED
    BY <1>3, <2>1
<1>12. QED
  BY <1>4, <1>5, <1>6, <1>7, <1>8, <1>9, <1>10, <1>11 DEF Next, UserNext

(* useFilters.ts: the filters hold for every node that was on the canvas   *)
(* when they were last applied, and every package keeps its node or its    *)
(* members, in every reachable state.                                      *)
THEOREM FiltersAlwaysHold == Spec => []FiltersHold
<1>1. Init => FilterInv
  <2> SUFFICES ASSUME Init
               PROVE  FilterInv
    OBVIOUS
  <2>1. graph = None /\ canvas = {} /\ shown = NoClasses /\ late = {}
    BY DEF Init
  <2>2. QED
    BY <2>1 DEF NoClasses, FilterInv, Shape, Current, NoDim, Whole
<1>2. QED
  BY <1>1, FiltersKept, FilterInvMeansHold, PTL DEF Spec
----------------------------------------------------------------------------
(* The packages of the panel.                                              *)

Fields == {"off", "all", "selected", "find", "hideExternal"}

(* A spec as the panel and the other tabs make it.                         *)
IsSpec(s) == DOMAIN s = Fields /\ s.all \in BOOLEAN /\ s.selected \subseteq Packages

(* The timer has the spec that is in force, or does not run.               *)
TimerCurrent == timer \in {None, spec}

(* The canvas is empty, or has all packages and no other.                  *)
Canvas ==
    /\ canvas \subseteq Nodes /\ expanded \subseteq Packages
    /\ canvas # {} \/ expanded # {} => Base \subseteq canvas

EditInv == IsSpec(spec) /\ TimerCurrent /\ Canvas

LEMMA ListIsWhole == Canvas => Listed \in {{}, Packages}
<1> SUFFICES ASSUME Canvas, canvas # {}
             PROVE  Listed = Packages
  BY DEF Listed
<1>1. Base \subseteq canvas
  BY DEF Canvas
<1>2. \A p \in Packages : PackageOf[PackageNode[p]] = p /\ PackageNode[p] \in canvas
  BY <1>1, VisibilityAssumption DEF Base
<1>3. \A n \in canvas : PackageOf[n] \in Packages
  BY VisibilityAssumption DEF Canvas
<1>4. QED
  BY <1>2, <1>3 DEF Listed

(* A selection that counts as many packages as are listed has them all.    *)
LEMMA EditIsLocal ==
    ASSUME IsSpec(spec), Listed \in {{}, Packages},
           NEW ps \in SUBSET Listed, NEW on \in BOOLEAN, NEW p \in Listed
    PROVE  Allowed(WithPackages(spec, ps, on), p) <=> IF p \in ps THEN on ELSE Allowed(spec, p)
<1> DEFINE baseline == IF spec.all THEN Listed ELSE spec.selected
           selected == IF on THEN baseline \cup ps ELSE baseline \ ps
           all == Cardinality(selected) = Cardinality(Listed)
           s == WithPackages(spec, ps, on)
<1>1. Listed = Packages /\ IsFiniteSet(Listed)
  BY VisibilityAssumption
<1>2. selected \subseteq Listed
  BY <1>1 DEF IsSpec
<1>3. all => selected = Listed
  BY <1>1, <1>2, FS_Subset
<1>4. s = [spec EXCEPT !.all = all, !.selected = IF all THEN {} ELSE selected]
  BY DEF WithPackages
<1>5. p \in selected <=> IF p \in ps THEN on ELSE Allowed(spec, p)
  BY DEF Allowed
<1> HIDE DEF selected, all
<1>6. s.all = all /\ s.selected = IF all THEN {} ELSE selected
  BY <1>4 DEF IsSpec, Fields
<1> HIDE DEF s
<1>7. Allowed(s, p) <=> p \in selected
  BY <1>3, <1>6 DEF Allowed
<1>8. QED
  BY <1>5, <1>7 DEF s

LEMMA EditInvMeansLocal == EditInv => EditsAreLocal
<1> SUFFICES ASSUME EditInv
             PROVE  EditsAreLocal
  OBVIOUS
<1>1. Listed \in {{}, Packages}
  BY ListIsWhole DEF EditInv
<1>2. \A ps \in SUBSET Listed, on \in BOOLEAN :
        LET s == WithPackages(spec, ps, on)
        IN  \A p \in Listed : Allowed(s, p) <=> IF p \in ps THEN on ELSE Allowed(spec, p)
  BY <1>1, EditIsLocal DEF EditInv
<1>3. timer # None => [timer EXCEPT !.find = draft] = [spec EXCEPT !.find = draft]
  BY DEF EditInv, TimerCurrent
<1>4. QED
  BY <1>2, <1>3 DEF EditsAreLocal

(* Whatever becomes of the spec, the timer is set anew for it.             *)
LEMMA SpecKeepsEdit ==
    ASSUME EditInv, NEW s, NEW text, IsSpec(s), NewSpec(s, text)
    PROVE  EditInv'
<1>1. /\ spec' = s /\ timer' \in {None, s}
      /\ UNCHANGED <<canvas, expanded>>
  BY DEF NewSpec, Debounce, data, elements
<1>2. QED
  BY <1>1 DEF EditInv, IsSpec, Fields, TimerCurrent, Canvas

LEMMA DraftKeepsEdit ==
    ASSUME EditInv, NEW text, NewDraft(text)
    PROVE  EditInv'
<1>1. /\ spec' = spec /\ timer' \in {None, spec}
      /\ UNCHANGED <<canvas, expanded>>
  BY DEF NewDraft, Debounce, data, elements
<1>2. QED
  BY <1>1 DEF EditInv, IsSpec, Fields, TimerCurrent, Canvas

(* What the panel and other tabs make of a spec is one.                    *)
LEMMA PanelKeepsEdit == EditInv /\ PanelNext => EditInv'
<1> SUFFICES ASSUME EditInv, PanelNext
             PROVE  EditInv'
  OBVIOUS
<1>1. IsSpec(spec)
  BY DEF EditInv
<1>2. \A off : IsSpec([spec EXCEPT !.off = off])
  BY <1>1 DEF IsSpec, Fields
<1>3. \A find : IsSpec([spec EXCEPT !.find = find])
  BY <1>1 DEF IsSpec, Fields
<1>4. \A all \in BOOLEAN, selected \in SUBSET Packages :
        IsSpec([spec EXCEPT !.all = all, !.selected = selected])
  BY <1>1 DEF IsSpec, Fields
<1>5. CASE \E k \in ToggledKinds : ToggleKind(k)
  <2>1. PICK k \in ToggledKinds : ToggleKind(k)
    BY <1>5
  <2> DEFINE off == IF k \in spec.off THEN spec.off \ {k} ELSE spec.off \cup {k}
             s == [spec EXCEPT !.off = off]
  <2>2. NewSpec(s, DraftFor(s))
    BY <2>1, <1>1 DEF ToggleKind, IsSpec, Fields
  <2>3. IsSpec(s)
    BY <1>2
  <2> HIDE DEF s
  <2>4. QED
    BY <2>2, <2>3, SpecKeepsEdit
<1>6. CASE ToggleExternal
  <2> DEFINE s == [spec EXCEPT !.hideExternal = ~@]
  <2>1. NewSpec(s, DraftFor(s)) /\ IsSpec(s)
    BY <1>1, <1>6 DEF ToggleExternal, IsSpec, Fields
  <2> HIDE DEF s
  <2>2. QED
    BY <2>1, SpecKeepsEdit
<1>7. CASE \E ps \in SUBSET Packages, on \in BOOLEAN : TogglePackages(ps, on)
  <2>1. PICK ps \in SUBSET Packages, on \in BOOLEAN : TogglePackages(ps, on)
    BY <1>7
  <2> DEFINE s == WithPackages(spec, ps, on)
  <2>2. NewSpec(s, DraftFor(s))
    BY <2>1 DEF TogglePackages
  <2>3. IsSpec(s)
    <3>1. Listed \subseteq Packages
      BY ListIsWhole DEF EditInv
    <3>2. QED
      BY <1>1, <1>4, <3>1 DEF WithPackages, IsSpec
  <2> HIDE DEF s
  <2>4. QED
    BY <2>2, <2>3, SpecKeepsEdit
<1>8. CASE ResetPackages
  <2> DEFINE s == [spec EXCEPT !.all = TRUE, !.selected = {}]
  <2>1. NewSpec(s, DraftFor(s)) /\ IsSpec(s)
    BY <1>4, <1>8 DEF ResetPackages
  <2> HIDE DEF s
  <2>2. QED
    BY <2>1, SpecKeepsEdit
<1>9. CASE ResetAll
  <2>1. IsSpec(DefaultSpec)
    BY DEF DefaultSpec, IsSpec, Fields
  <2>2. QED
    BY <1>9, <2>1, SpecKeepsEdit DEF ResetAll
<1>10. CASE FindFires
  <2> DEFINE s == [timer EXCEPT !.find = draft]
  <2>1. NewSpec(s, DraftFor(s)) /\ IsSpec(s)
    BY <1>3, <1>10 DEF FindFires, EditInv, TimerCurrent
  <2> HIDE DEF s
  <2>2. QED
    BY <2>1, SpecKeepsEdit
<1>11. CASE EscapeFind
  BY <1>3, <1>11, SpecKeepsEdit, DraftKeepsEdit DEF EscapeFind
<1>12. CASE \E text \in Texts : TypeFind(text)
  BY <1>12, DraftKeepsEdit DEF TypeFind
<1>13. QED
  BY <1>5, <1>6, <1>7, <1>8, <1>9, <1>10, <1>11, <1>12 DEF PanelNext

LEMMA ElementsKeepEdit ==
    ASSUME EditInv, UNCHANGED <<spec, timer>>, expanded' \subseteq Packages,
           canvas' \subseteq Nodes,
           canvas' # {} \/ expanded' # {} => Base \subseteq canvas'
    PROVE  EditInv'
  BY DEF EditInv, IsSpec, Fields, TimerCurrent, Canvas

LEMMA EditKept == EditInv /\ [Next]_vars => EditInv'
<1> SUFFICES ASSUME EditInv, [Next]_vars
             PROVE  EditInv'
  OBVIOUS
<1>1. /\ canvas \subseteq Nodes /\ expanded \subseteq Packages /\ Base \subseteq Nodes
      /\ canvas # {} \/ expanded # {} => Base \subseteq canvas
      /\ Visible \subseteq canvas
  BY DEF EditInv, Canvas, Nodes, Visible
<1>2. ASSUME UNCHANGED <<canvas, expanded, spec, timer>>
      PROVE  EditInv'
  BY <1>1, <1>2, ElementsKeepEdit
<1>3. CASE PanelNext
  BY <1>3, PanelKeepsEdit
<1>4. CASE \E s \in OtherSpecs : OtherTabFilters(s)
  <2>1. PICK s \in OtherSpecs : OtherTabFilters(s)
    BY <1>4
  <2>2. IsSpec(s)
    BY VisibilityAssumption DEF IsSpec, Fields
  <2>3. QED
    BY <2>1, <2>2, SpecKeepsEdit DEF OtherTabFilters
<1>5. CASE \/ CycleMode \/ ExpandAll \/ OtherRender \/ Refresh \/ GraphFails
           \/ \E m \in Modes : SetMode(m)
           \/ \E n \in Roots : HideSubtree(n) \/ ShowSubtree(n)
  BY <1>2, <1>5 DEF CycleMode, SetMode, ExpandAll, NewRoots, OtherRender, HideSubtree,
                    ShowSubtree, Refresh, GraphFails, data, elements, filters
<1>6. CASE \E g \in Graphs : GraphArrives(g)
  <2>1. PICK g \in Graphs : GraphArrives(g)
    BY <1>6
  <2>2. canvas' = Base /\ UNCHANGED <<expanded, spec, timer>>
    BY <2>1 DEF GraphArrives, Synced, NodesBecome
  <2>3. QED
    BY <1>1, <2>2, ElementsKeepEdit
<1>7. CASE \E g \in Graphs : LocalFallback(g)
  <2>1. canvas' = Base /\ UNCHANGED <<expanded, spec, timer>>
    BY <1>7 DEF LocalFallback, Synced, NodesBecome
  <2>2. QED
    BY <1>1, <2>1, ElementsKeepEdit
<1>8. CASE \E p \in Packages, g \in Graphs : ExpandPackage(p, g)
  <2>1. PICK p \in Packages, g \in Graphs : ExpandPackage(p, g)
    BY <1>8
  <2>2. /\ canvas' = canvas \cup Inside[p] /\ expanded' = expanded \cup {p}
        /\ UNCHANGED <<spec, timer>> /\ PackageNode[p] \in Visible
    BY <2>1 DEF ExpandPackage, Added, NodesBecome
  <2>3. Inside[p] \subseteq Nodes
    BY DEF Nodes
  <2>4. QED
    BY <1>1, <2>2, <2>3, ElementsKeepEdit
<1>9. CASE \E s \in Structs, g \in Graphs : ExpandStruct(s, g)
  <2>1. PICK s \in Structs, g \in Graphs : ExpandStruct(s, g)
    BY <1>9
  <2>2. /\ canvas' = canvas \cup Members[s] /\ s \in Visible
        /\ UNCHANGED <<expanded, spec, timer>>
    BY <2>1 DEF ExpandStruct, Added, NodesBecome
  <2>3. Members[s] \subseteq Nodes
    BY DEF Nodes
  <2>4. Base \subseteq canvas
    <3>1. s \in canvas
      BY <1>1, <2>2
    <3>2. canvas # {}
      BY <3>1
    <3>3. QED
      BY <1>1, <3>2
  <2>5. QED
    BY <1>1, <2>2, <2>3, <2>4, ElementsKeepEdit
<1>10. ASSUME NEW ps \in SUBSET Packages, expanded # {}, Closed(ps)
       PROVE  EditInv'
  <2> DEFINE others == {n \in canvas : PackageOf[n] \notin ps}
             new == {PackageNode[p] : p \in ps}
  <2>1. canvas' = others \cup new /\ expanded' \subseteq expanded /\ UNCHANGED <<spec, timer>>
    BY <1>10 DEF Closed
  <2>2. canvas' \subseteq Nodes
    BY <1>1, <2>1 DEF Base
  <2>3. ASSUME NEW p \in Packages
        PROVE  PackageNode[p] \in others \cup new
    <3>1. PackageNode[p] \in canvas /\ PackageOf[PackageNode[p]] = p
      BY <1>1, <1>10, VisibilityAssumption DEF Base
    <3>2. QED
      BY <3>1
  <2>4. Base \subseteq canvas'
    BY <2>1, <2>3 DEF Base
  <2>5. QED
    BY <1>1, <2>1, <2>2, <2>4, ElementsKeepEdit
<1>11. CASE CollapseAll
  BY <1>1, <1>10, <1>11 DEF CollapseAll
<1>12. CASE \E p \in Packages : CollapsePackage(p)
  <2>1. PICK p \in Packages : CollapsePackage(p)
    BY <1>12
  <2>2. /\ {p} \in SUBSET Packages /\ expanded # {} /\ Closed({p})
    BY <2>1 DEF CollapsePackage
  <2> DEFINE ps == {p}
  <2> HIDE DEF ps
  <2>3. ps \in SUBSET Packages /\ expanded # {} /\ Closed(ps)
    BY <2>2 DEF ps
  <2>4. QED
    BY <1>10, <2>3
<1>13. CASE Reload
  BY <1>13 DEF Reload, EditInv, IsSpec, Fields, TimerCurrent, Canvas
<1>14. CASE UNCHANGED vars
  BY <1>2, <1>14 DEF vars, data, elements, filters
<1>15. QED
  BY <1>3, <1>4, <1>5, <1>6, <1>7, <1>8, <1>9, <1>11, <1>12, <1>13, <1>14
     DEF Next, UserNext, GraphNext

(* FiltersPanel.tsx: boxes and bulk buttons change the packages they are   *)
(* for and no other, and the search that waits takes no filter back, in    *)
(* every reachable state.                                                  *)
THEOREM EditsAlwaysLocal == Spec => []EditsAreLocal
<1>1. Init => EditInv
  <2>1. IsSpec(DefaultSpec)
    BY DEF DefaultSpec, IsSpec, Fields
  <2>2. QED
    BY <2>1 DEF Init, EditInv, TimerCurrent, Canvas
<1>2. QED
  BY <1>1, EditKept, EditInvMeansLocal, PTL DEF Spec
=============================================================================
