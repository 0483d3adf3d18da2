---------------------------- MODULE CanvasProofs ----------------------------
(***************************************************************************)
(* What is on the canvas, and where it stands.                             *)
(*                                                                         *)
(* Canvas, for every graph, any number of projects and any number of       *)
(* fetches under way: members lie in packages that count as expanded, no   *)
(* node waits for an answer that nobody will give, and a use between       *)
(* packages keeps its arrow.  The last rests on what an id tells: an edge  *)
(* that is left out because of its id has an equal on the canvas.          *)
(* "Collapse all" folds over packages; what each collapse keeps, the fold  *)
(* keeps.                                                                  *)
(*                                                                         *)
(* Layouts, for every graph, arrangement, opened package and every size of *)
(* the nodes: each gets a place, where it belongs, and boxes keep apart.   *)
(* Both layouts order a layer, wrap it into columns and space it by sums   *)
(* of gaps; that is proved once, in the part on columns.                   *)
(***************************************************************************)
EXTENDS Canvas, Layouts, FiniteSetTheorems, SequenceTheorems, WellFoundedInduction, TLAPS

(* What is kept to be put back is a package node.                          *)
CachedPackages == cached \subseteq Packages

Inv == CachedPackages /\ MembersMeanExpanded /\ MarkMeansRequest
----------------------------------------------------------------------------
(* The answers.                                                            *)

(* What the answer for a package holds lies in that package, or is the     *)
(* node of a package.                                                      *)
LEMMA ScopeIsLocal ==
    ASSUME NEW p \in Packages, NEW n \in Scope(p).nodes, n \notin Packages
    PROVE  PackageOf[n] = p
<1> DEFINE In(x) == PackageOf[x] = p
           cross == {e \in Edges : /\ In(e.from) # In(e.to)
                                   /\ ~In(e.from) => e.from \notin Packages
                                   /\ ~In(e.to) => e.to \notin Packages}
           own == {x \in Nodes : In(x)}
           foreign == UNION {{PackageOf[e.from], PackageOf[e.to]} : e \in cross}
<1>1. foreign \subseteq Packages
  <2>1. \A e \in Edges : PackageOf[e.from] \in Packages /\ PackageOf[e.to] \in Packages
    BY CanvasAssumption DEF CanvasAssumption
  <2>2. QED
    BY <2>1
<1>2. Scope(p).nodes = own \cup foreign
  BY DEF Scope
<1>3. QED
  BY <1>1, <1>2

(* So it is for what the two levels keep of it.                            *)
LEMMA LevelsAreLocal ==
    /\ \A p \in Packages : \A n \in StructLevel(p).nodes \ Packages : PackageOf[n] = p
    /\ \A t \in Structs : /\ t \notin Packages
                          /\ \A n \in MemberLevel(t).nodes \ Packages :
                                PackageOf[n] = PackageOf[t]
<1>1. \A p : StructLevel(p).nodes \subseteq Scope(p).nodes
  BY DEF StructLevel, Restricted
<1>2. \A t : MemberLevel(t).nodes \subseteq Scope(PackageOf[t]).nodes
  BY DEF MemberLevel, Restricted
<1>3. \A t \in Structs : t \notin Packages /\ PackageOf[t] \in Packages
  BY CanvasAssumption DEF CanvasAssumption, Structs, Packages
<1>4. QED
  BY <1>1, <1>2, <1>3, ScopeIsLocal

----------------------------------------------------------------------------
(* The steps.                                                              *)

LEMMA InitInv == Init => Inv
  BY DEF Init, Inv, CachedPackages, MembersMeanExpanded, MarkMeansRequest

(* A graph is asked for, comes or does not come, and the page with it.     *)
LEMMA PageKeeps ==
    ASSUME Inv, Reload \/ Refresh \/ GraphArrives \/ GraphFails \/ \E p \in Projects : Switch(p)
    PROVE  Inv'
<1>1. CASE Reload
  BY <1>1 DEF Reload, NothingDrilled, Inv, CachedPackages, MembersMeanExpanded, MarkMeansRequest
<1>2. CASE Refresh \/ GraphFails
  BY <1>2 DEF Refresh, GraphFails, drill,
              Inv, CachedPackages, MembersMeanExpanded, MarkMeansRequest
<1>3. CASE GraphArrives
  BY <1>3 DEF GraphArrives, Aggregate, drill,
              Inv, CachedPackages, MembersMeanExpanded, MarkMeansRequest
<1>4. CASE \E p \in Projects : Switch(p)
  BY <1>4 DEF Switch, NothingDrilled, Inv, CachedPackages, MembersMeanExpanded, MarkMeansRequest
<1>5. QED
  BY <1>1, <1>2, <1>3, <1>4

(* A double tap.                                                           *)
LEMMA TapKeeps ==
    ASSUME Inv, \/ \E p \in Packages : Expand(p)
                \/ \E t \in Structs : ExpandStruct(t)
    PROVE  Inv'
<1>1. ASSUME NEW k, inFlight' = inFlight \cup {k}, fetches' = fetches \cup {Fetch(k)}
      PROVE  MarkMeansRequest'
  <2>1. Fetch(k).key = k
    BY DEF Fetch
  <2>2. QED
    BY <1>1, <2>1 DEF Inv, MarkMeansRequest
<1>2. CASE \E p \in Packages : Expand(p)
  BY <1>1, <1>2 DEF Expand, elements, Inv, CachedPackages, MembersMeanExpanded
<1>3. CASE \E t \in Structs : ExpandStruct(t)
  BY <1>1, <1>3 DEF ExpandStruct, elements, Inv, CachedPackages, MembersMeanExpanded
<1>4. QED
  BY <1>2, <1>3

(* A request ends, with an answer or without.                              *)
LEMMA LandKeeps ==
    ASSUME Inv, NEW f \in fetches, ExpandDone(f) \/ StructDone(f) \/ FetchFails(f)
    PROVE  Inv'
<1>1. Land(f) => MarkMeansRequest'
  BY DEF Land, Inv, MarkMeansRequest
<1>2. CASE ExpandDone(f)
  <2>1. MembersMeanExpanded'
    <3> SUFFICES ASSUME view' = "ready", NEW n \in nodes' \ Packages
                 PROVE  PackageOf[n] \in expanded'
      BY DEF MembersMeanExpanded
    <3>1. view = "ready" /\ expanded' = expanded \cup {f.key} /\ f.key \in Packages
      BY <1>2 DEF ExpandDone
    <3>2. CASE n \in nodes
      BY <3>1, <3>2 DEF Inv, MembersMeanExpanded
    <3>3. CASE n \in StructLevel(f.key).nodes
      BY <3>1, <3>3, LevelsAreLocal
    <3>4. QED
      BY <1>2, <3>2, <3>3 DEF ExpandDone
  <2>2. QED
    BY <1>1, <1>2, <2>1 DEF ExpandDone, Inv, CachedPackages
<1>3. CASE StructDone(f)
  <2>1. MembersMeanExpanded'
    <3> SUFFICES ASSUME view' = "ready", NEW n \in nodes' \ Packages
                 PROVE  PackageOf[n] \in expanded'
      BY DEF MembersMeanExpanded
    <3>1. view = "ready" /\ expanded' = expanded /\ f.key \in Structs
      BY <1>3 DEF StructDone
    <3>2. CASE n \in nodes
      BY <3>1, <3>2 DEF Inv, MembersMeanExpanded
    <3>3. CASE f.key \in nodes /\ n \in MemberLevel(f.key).nodes
      BY <3>1, <3>3, LevelsAreLocal DEF Inv, MembersMeanExpanded
    <3>4. QED
      BY <1>3, <3>2, <3>3 DEF StructDone, elements
  <2>2. QED
    BY <1>1, <1>3, <2>1 DEF StructDone, Inv, CachedPackages
<1>4. CASE FetchFails(f)
  BY <1>1, <1>4 DEF FetchFails, elements, Inv, CachedPackages, MembersMeanExpanded
<1>5. QED
  BY <1>2, <1>3, <1>4

(* Packages are collapsed: none of their members stays on the canvas.      *)
LEMMA CollapseKeeps ==
    ASSUME Inv, NEW ps, nodes' = NodesWithout(ps), Forget(ps), view' = view
    PROVE  Inv'
<1>1. CachedPackages'
  BY DEF Forget, Inv, CachedPackages
<1>2. MembersMeanExpanded'
  BY DEF Forget, NodesWithout, Inv, CachedPackages, MembersMeanExpanded
<1>3. MarkMeansRequest'
  BY DEF Forget, Inv, MarkMeansRequest
<1>4. QED
  BY <1>1, <1>2, <1>3 DEF Inv

LEMMA NextInv == Inv /\ [Next]_vars => Inv'
<1> SUFFICES ASSUME Inv, [Next]_vars PROVE Inv'
  OBVIOUS
<1>1. ASSUME UNCHANGED <<view, nodes, drill>>
      PROVE  Inv'
  BY <1>1 DEF drill, Inv, CachedPackages, MembersMeanExpanded, MarkMeansRequest
<1>2. CASE CloseMenu \/ \E n \in Nodes : OpenMenu(n)
  BY <1>1, <1>2 DEF CloseMenu, OpenMenu, elements
<1>3. CASE MenuCollapsePackage
  BY <1>1, <1>3, CollapseKeeps DEF MenuCollapsePackage, elements
<1>4. CASE CollapseAll
  BY <1>4, CollapseKeeps DEF CollapseAll
<1>5. CASE UNCHANGED vars
  BY <1>1, <1>5 DEF vars, elements
<1>6. QED
  BY <1>2, <1>3, <1>4, <1>5, PageKeeps, TapKeeps, LandKeeps DEF Next

LEMMA Invariance == Spec => []Inv
  BY InitInv, NextInv, PTL DEF Spec

(* On every graph that is shown, "collapse" can take away again whatever   *)
(* an answer brought, however late it came.                                *)
THEOREM MembersAlwaysExpanded == Spec => []MembersMeanExpanded
  BY Invariance, PTL DEF Inv

(* The mark of a double tap that is being answered never outlives its      *)
(* request, whether the answer fails, comes late or is for another project.*)
THEOREM MarksHaveRequests == Spec => []MarkMeansRequest
  BY Invariance, PTL DEF Inv

----------------------------------------------------------------------------
(* Numbers and folds.                                                      *)

(* Every set of numbers has a least one.                                   *)
LEMMA LeastNumber ==
    ASSUME NEW S \in SUBSET Nat, S # {}
    PROVE  \E n \in S : \A m \in S : n <= m
<1> DEFINE R == {pair \in Nat \X Nat : pair[1] < pair[2]}
<1>1. IsWellFoundedOn(R, Nat)
  BY NatLessThanWellFounded DEF OpToRel
<1>2. PICK n \in S : \A m \in S : <<m, n>> \notin R
  <2> HIDE DEF R
  <2>1. QED
    BY <1>1, WFMin
<1>3. \A m \in S : n <= m
  <2> SUFFICES ASSUME NEW m \in S PROVE n <= m
    OBVIOUS
  <2>1. ~(m < n)
    BY <1>2
  <2>2. QED
    BY <2>1
<1>4. QED
  BY <1>3

(* What each collapse keeps, the collapse of them all keeps.               *)
LEMMA FoldStays ==
    ASSUME NEW S, IsFiniteSet(S), NEW V, NEW base \in V,
           \A p \in S : \A es \in V : EdgesWithout(p, es) \in V
    PROVE  FoldSet(EdgesWithout, base, S) \in V
<1> DEFINE First(s) == CHOOSE x \in s : TRUE
           Rest(s) == s \ {First(s)}
           Follows(f, s) == f[s] = IF s = {} THEN base ELSE EdgesWithout(First(s), f[Rest(s)])
           Until(n) == \E f \in [SUBSET S -> V] :
                           \A s \in SUBSET S : Cardinality(s) <= n => Follows(f, s)
           late == {n \in Nat : ~Until(n)}
<1>1. \A s \in SUBSET S :
         /\ Cardinality(s) \in Nat
         /\ s = {} <=> Cardinality(s) = 0
         /\ s # {} => /\ First(s) \in S /\ Rest(s) \in SUBSET S
                      /\ Cardinality(Rest(s)) = Cardinality(s) - 1
  <2> SUFFICES ASSUME NEW s \in SUBSET S
               PROVE  /\ Cardinality(s) \in Nat
                      /\ s = {} <=> Cardinality(s) = 0
                      /\ s # {} => /\ First(s) \in S /\ Rest(s) \in SUBSET S
                                   /\ Cardinality(Rest(s)) = Cardinality(s) - 1
    OBVIOUS
  <2>1. IsFiniteSet(s)
    BY FS_Subset
  <2>2. s # {} => First(s) \in s
    OBVIOUS
  <2> HIDE DEF First
  <2>3. s # {} => Cardinality(Rest(s)) = Cardinality(s) - 1
    BY <2>1, <2>2, FS_RemoveElement
  <2>4. QED
    BY <2>1, <2>2, <2>3, FS_CardinalityType, FS_EmptySet
<1> HIDE DEF First, Rest
<1>2. Until(0)
  <2>1. [s \in SUBSET S |-> base] \in [SUBSET S -> V]
    OBVIOUS
  <2>2. \A s \in SUBSET S : Cardinality(s) <= 0 => s = {}
    BY <1>1
  <2>3. QED
    BY <2>1, <2>2
<1>3. ASSUME NEW n \in Nat, Until(n) PROVE Until(n + 1)
  <2>1. PICK f \in [SUBSET S -> V] :
            \A s \in SUBSET S : Cardinality(s) <= n => Follows(f, s)
    BY <1>3
  <2> DEFINE g == [s \in SUBSET S |->
                      IF s = {} \/ Cardinality(s) <= n THEN f[s]
                      ELSE EdgesWithout(First(s), f[Rest(s)])]
  <2>2. g \in [SUBSET S -> V]
    BY <1>1, <2>1
  <2>3. ASSUME NEW s \in SUBSET S, Cardinality(s) <= n + 1 PROVE Follows(g, s)
    <3>1. CASE s = {}
      <4>1. Cardinality(s) <= n
        BY <1>1, <3>1
      <4>2. g[s] = f[s] /\ f[s] = base
        BY <2>1, <3>1, <4>1
      <4>3. QED
        BY <3>1, <4>2
    <3>2. CASE s # {}
      <4>1. Rest(s) \in SUBSET S /\ Cardinality(Rest(s)) <= n
        BY <1>1, <2>3, <3>2
      <4>2. g[Rest(s)] = f[Rest(s)]
        BY <4>1
      <4>3. QED
        BY <2>1, <3>2, <4>2
    <3>3. QED
      BY <3>1, <3>2
  <2> HIDE DEF g
  <2>4. QED
    BY <2>2, <2>3
<1>4. \A n \in Nat : Until(n)
  <2> SUFFICES ASSUME late # {} PROVE FALSE
    OBVIOUS
  <2>1. PICK n \in late : \A m \in late : n <= m
    <3> HIDE DEF late
    <3>1. late \in SUBSET Nat
      BY DEF late
    <3>2. QED
      BY <3>1, LeastNumber
  <2> HIDE DEF Until
  <2>2. n \in Nat /\ n # 0
    BY <1>2, <2>1
  <2>3. n - 1 \in Nat /\ ~(n <= n - 1)
    BY <2>2
  <2>4. Until(n - 1)
    BY <2>1, <2>3
  <2>5. Until((n - 1) + 1)
    BY <1>3, <2>3, <2>4
  <2>6. (n - 1) + 1 = n
    BY <2>2
  <2>7. QED
    BY <2>1, <2>5, <2>6
<1>5. Cardinality(S) \in Nat /\ \A s \in SUBSET S : Cardinality(s) <= Cardinality(S)
  BY FS_Subset, FS_CardinalityType
<1>6. PICK f : f = [s \in SUBSET S |->
                      IF s = {} THEN base ELSE EdgesWithout(First(s), f[Rest(s)])]
  <2>1. PICK f \in [SUBSET S -> V] : \A s \in SUBSET S : Follows(f, s)
    BY <1>4, <1>5
  <2>2. QED
    BY <2>1
<1> DEFINE iter == CHOOSE g : g = [s \in SUBSET S |->
                      IF s = {} THEN base ELSE EdgesWithout(First(s), g[Rest(s)])]
<1>7. FoldSet(EdgesWithout, base, S) = iter[S]
  BY DEF FoldSet, MapThenFoldSet, First, Rest
<1>8. \A s \in SUBSET S : Follows(iter, s)
  <2>1. iter = [s \in SUBSET S |->
                   IF s = {} THEN base ELSE EdgesWithout(First(s), iter[Rest(s)])]
    BY <1>6
  <2> HIDE DEF iter
  <2>2. QED
    BY <2>1
<1> HIDE DEF iter
<1> DEFINE wrong == {n \in Nat : \E s \in SUBSET S : Cardinality(s) = n /\ iter[s] \notin V}
<1>9. wrong = {}
  <2> SUFFICES ASSUME wrong # {} PROVE FALSE
    OBVIOUS
  <2>1. PICK n \in wrong : \A m \in wrong : n <= m
    <3>1. wrong \in SUBSET Nat
      OBVIOUS
    <3> HIDE DEF wrong
    <3>2. QED
      BY <3>1, LeastNumber
  <2>2. PICK s \in SUBSET S : Cardinality(s) = n /\ iter[s] \notin V
    BY <2>1
  <2>3. s # {}
    BY <1>8, <2>2
  <2>4. Rest(s) \in SUBSET S /\ First(s) \in S /\ Cardinality(Rest(s)) \in Nat
        /\ ~(n <= Cardinality(Rest(s)))
    BY <1>1, <2>2, <2>3
  <2>5. iter[Rest(s)] \in V
    BY <2>1, <2>4
  <2>6. QED
    BY <1>8, <2>2, <2>3, <2>4, <2>5
<1>10. QED
  BY <1>1, <1>7, <1>9

----------------------------------------------------------------------------
(* The edges.                                                              *)

(* An edge that stands for e, at its own ends or at their packages.        *)
Joins(x, e) ==
    /\ x.kind = e.kind
    /\ x.from \in {e.from, PackageOf[e.from]}
    /\ x.to \in {e.to, PackageOf[e.to]}

(* What the canvas draws: edges within a package and imports as they are,  *)
(* others anchored at one of their packages, and what a collapse makes of  *)
(* them.                                                                   *)
PlainEdges ==
    {Plain(e) : e \in {x \in Edges : \/ PackageOf[x.from] = PackageOf[x.to]
                                     \/ x.kind = "imports"}}
BoundaryEdges ==
    UNION {{Boundary(e, PackageOf[e.from]), Boundary(e, PackageOf[e.to])} : e \in Edges}
CollapsedEdges ==
    {[id |-> <<"collapsed", a, b, k>>, from |-> a, to |-> b, kind |-> k] :
        a \in Nodes, b \in Nodes, k \in {e.kind : e \in Edges}}
Drawable == PlainEdges \cup BoundaryEdges \cup CollapsedEdges

(* The ends of the edges.                                                  *)
LEMMA EndsAreNodes ==
    /\ \A e \in Edges : /\ e.from \in Nodes /\ e.to \in Nodes
                        /\ e.kind = "imports" => e.from \in Packages
    /\ \A n \in Nodes : PackageOf[n] \in Packages
    /\ \A p \in Packages : p \in Nodes /\ PackageOf[p] = p
<1>1. \A e \in Edges : e.from \in Nodes /\ e.to \in Nodes
  BY CanvasAssumption DEF CanvasAssumption
<1>2. \A e \in Edges : e.kind = "imports" => e.from \in Packages
  BY CanvasAssumption DEF CanvasAssumption
<1>3. \A n \in Nodes : PackageOf[n] \in Packages
  BY CanvasAssumption DEF CanvasAssumption
<1>4. \A p \in Packages : p \in Nodes /\ PackageOf[p] = p
  BY CanvasAssumption DEF CanvasAssumption, Packages
<1>5. QED
  BY <1>1, <1>2, <1>3, <1>4

(* The id of an edge tells what it joins, and no plain one joins packages  *)
(* but an import.                                                          *)
LEMMA IdsTell ==
    ASSUME NEW x \in Drawable
    PROVE  /\ x.from \in Nodes /\ x.to \in Nodes /\ x.kind \in {e.kind : e \in Edges}
           /\ \A e \in CrossUses : x.id[1] = "plain" => ~Joins(x, e)
           /\ \A e \in CrossUses : x.id = <<"boundary", e.from, e.to, e.kind>> => Joins(x, e)
           /\ \A a, b, k : x.id = <<"collapsed", a, b, k>> => x.from = a /\ x.to = b /\ x.kind = k
<1>1. Packages \subseteq Nodes
  BY DEF Packages
<1>2. CASE x \in PlainEdges
  <2>1. PICK e \in Edges : /\ x = Plain(e)
                           /\ PackageOf[e.from] = PackageOf[e.to] \/ e.kind = "imports"
    BY <1>2 DEF PlainEdges
  <2>2. x.id[1] = "plain" /\ x.from = e.from /\ x.to = e.to /\ x.kind = e.kind
    BY <2>1 DEF Plain
  <2>3. e.from \in Nodes /\ e.to \in Nodes
    BY EndsAreNodes
  <2>4. \A c \in CrossUses : ~Joins(x, c)
    <3> SUFFICES ASSUME NEW c \in CrossUses, Joins(x, c) PROVE FALSE
      OBVIOUS
    <3>1. /\ c \in Edges /\ c.from \in Nodes \ Packages /\ c.to \in Nodes \ Packages
          /\ PackageOf[c.from] # PackageOf[c.to]
      BY EndsAreNodes DEF CrossUses
    <3>2. PackageOf[e.from] = PackageOf[c.from] /\ PackageOf[e.to] = PackageOf[c.to]
      BY <2>2, <3>1, EndsAreNodes DEF Joins
    <3>3. c.kind = "imports"
      BY <2>1, <2>2, <3>1, <3>2 DEF Joins
    <3>4. QED
      BY <3>1, <3>3, EndsAreNodes
  <2>5. /\ \A a, b, k : x.id # <<"boundary", a, b, k>>
        /\ \A a, b, k : x.id # <<"collapsed", a, b, k>>
    BY <2>2
  <2>6. QED
    BY <2>2, <2>3, <2>4, <2>5
<1>3. CASE x \in BoundaryEdges
  <2>1. PICK e \in Edges : x \in {Boundary(e, PackageOf[e.from]), Boundary(e, PackageOf[e.to])}
    BY <1>3 DEF BoundaryEdges
  <2>2. /\ x.id = <<"boundary", e.from, e.to, e.kind>> /\ x.kind = e.kind
        /\ x.from \in {e.from, PackageOf[e.from]} /\ x.to \in {e.to, PackageOf[e.to]}
    BY <2>1 DEF Boundary
  <2>3. e.from \in Nodes /\ e.to \in Nodes
    BY EndsAreNodes
  <2>4. x.from \in Nodes /\ x.to \in Nodes
    BY <1>1, <2>2, <2>3, EndsAreNodes
  <2>5. \A c : x.id = <<"boundary", c.from, c.to, c.kind>> => Joins(x, c)
    BY <2>2 DEF Joins
  <2>6. x.id[1] # "plain" /\ \A a, b, k : x.id # <<"collapsed", a, b, k>>
    BY <2>2
  <2>7. QED
    BY <2>2, <2>4, <2>5, <2>6
<1>4. CASE x \in CollapsedEdges
  <2>1. PICK a \in Nodes, b \in Nodes, k \in {e.kind : e \in Edges} :
            x = [id |-> <<"collapsed", a, b, k>>, from |-> a, to |-> b, kind |-> k]
    BY <1>4 DEF CollapsedEdges
  <2>2. x.id = <<"collapsed", a, b, k>> /\ x.from = a /\ x.to = b /\ x.kind = k
    BY <2>1
  <2>3. x.id[1] # "plain" /\ \A l, m, n : x.id # <<"boundary", l, m, n>>
    BY <2>2
  <2>4. QED
    BY <2>2, <2>3
<1>5. QED
  BY <1>2, <1>3, <1>4 DEF Drawable

(* The collapse of one package draws what can be drawn, ...                *)
LEMMA CollapseDraws ==
    ASSUME NEW p \in Packages, NEW es \in SUBSET Drawable
    PROVE  EdgesWithout(p, es) \in SUBSET Drawable
<1>1. Packages \subseteq Nodes
  BY DEF Packages
<1>2. \A x \in Drawable : x.from \in Nodes /\ x.to \in Nodes /\ x.kind \in {e.kind : e \in Edges}
  BY IdsTell
<1>3. Rewritten(p, es) \subseteq CollapsedEdges
  BY <1>1, <1>2 DEF Rewritten, CollapsedEdges
<1>4. EdgesWithout(p, es) \subseteq es \cup Rewritten(p, es)
  BY DEF EdgesWithout
<1>5. QED
  BY <1>3, <1>4 DEF Drawable

(* ... and moves the arrow of a use to the package, when its node comes    *)
(* back.                                                                   *)
LEMMA CollapseJoins ==
    ASSUME NEW p \in Packages, NEW es \in SUBSET Drawable, NEW e \in CrossUses,
           p \in {PackageOf[e.from], PackageOf[e.to]} => p \in cached,
           NEW x \in es, Joins(x, e)
    PROVE  \E y \in EdgesWithout(p, es) : Joins(y, e)
<1> DEFINE At(n) == IF PackageOf[n] = p THEN p ELSE n
           left == {y \in es : PackageOf[y.from] # p /\ PackageOf[y.to] # p}
           moved == [id |-> <<"collapsed", At(x.from), At(x.to), x.kind>>,
                     from |-> At(x.from), to |-> At(x.to), kind |-> x.kind]
<1>1. /\ e \in Edges /\ e.from \in Nodes /\ e.to \in Nodes
      /\ PackageOf[e.from] # PackageOf[e.to]
  BY EndsAreNodes DEF CrossUses
<1>2. PackageOf[x.from] = PackageOf[e.from] /\ PackageOf[x.to] = PackageOf[e.to]
  BY <1>1, EndsAreNodes DEF Joins
<1>3. x.id[1] # "plain"
  BY IdsTell
<1>4. CASE p \notin {PackageOf[e.from], PackageOf[e.to]}
  <2>1. x \in left
    BY <1>2, <1>4
  <2>2. QED
    BY <2>1 DEF EdgesWithout
<1>5. CASE p \in {PackageOf[e.from], PackageOf[e.to]}
  <2>1. At(x.from) # At(x.to)
    <3>1. PackageOf[At(x.from)] = PackageOf[e.from] /\ PackageOf[At(x.to)] = PackageOf[e.to]
      BY <1>2, EndsAreNodes
    <3>2. QED
      BY <1>1, <3>1
  <2>2. moved \in Rewritten(p, es)
    BY <1>2, <1>3, <1>5, <2>1 DEF Rewritten
  <2>3. Joins(moved, e)
    <3>1. moved.from = At(x.from) /\ moved.to = At(x.to) /\ moved.kind = x.kind
      OBVIOUS
    <3>2. At(x.from) \in {x.from, PackageOf[x.from]} /\ At(x.to) \in {x.to, PackageOf[x.to]}
      OBVIOUS
    <3> HIDE DEF moved, At
    <3>3. QED
      BY <1>2, <3>1, <3>2 DEF Joins
  <2>4. CASE \A y \in left : y.id # moved.id
    <3> HIDE DEF moved
    <3>1. moved \in EdgesWithout(p, es)
      BY <1>5, <2>2, <2>4 DEF EdgesWithout
    <3>2. QED
      BY <2>3, <3>1
  <2>5. CASE \E y \in left : y.id = moved.id
    <3>1. PICK y \in left : y.id = moved.id
      BY <2>5
    <3>2. y.from = moved.from /\ y.to = moved.to /\ y.kind = moved.kind
      BY <3>1, IdsTell
    <3> HIDE DEF moved
    <3>3. Joins(y, e)
      BY <2>3, <3>2 DEF Joins
    <3>4. y \in EdgesWithout(p, es)
      BY <3>1 DEF EdgesWithout
    <3>5. QED
      BY <3>3, <3>4
  <2>6. QED
    BY <2>4, <2>5
<1>6. QED
  BY <1>4, <1>5

(* So it is of all of them.                                                *)
LEMMA CollapsesJoin ==
    ASSUME NEW ps \in SUBSET Packages, IsFiniteSet(ps), NEW es \in SUBSET Drawable
    PROVE  /\ FoldSet(EdgesWithout, es, ps) \in SUBSET Drawable
           /\ \A e \in CrossUses :
                 /\ {PackageOf[e.from], PackageOf[e.to]} \cap ps \subseteq cached
                 /\ \E x \in es : Joins(x, e)
                 => \E x \in FoldSet(EdgesWithout, es, ps) : Joins(x, e)
<1>1. FoldSet(EdgesWithout, es, ps) \in SUBSET Drawable
  <2> DEFINE V == SUBSET Drawable
  <2>1. \A p \in ps : \A s \in V : EdgesWithout(p, s) \in V
    BY CollapseDraws
  <2> HIDE DEF V
  <2>2. es \in V => FoldSet(EdgesWithout, es, ps) \in V
    BY <2>1, FoldStays
  <2>3. QED
    BY <2>2 DEF V
<1>2. ASSUME NEW e \in CrossUses, {PackageOf[e.from], PackageOf[e.to]} \cap ps \subseteq cached,
             \E x \in es : Joins(x, e)
      PROVE  \E x \in FoldSet(EdgesWithout, es, ps) : Joins(x, e)
  <2> DEFINE V == {s \in SUBSET Drawable : \E x \in s : Joins(x, e)}
  <2>1. \A p \in ps : \A s \in V : EdgesWithout(p, s) \in V
    BY <1>2, CollapseDraws, CollapseJoins
  <2>2. es \in V
    BY <1>2
  <2> HIDE DEF V
  <2>3. FoldSet(EdgesWithout, es, ps) \in V
    BY <2>1, <2>2, FoldStays
  <2>4. QED
    BY <2>3 DEF V
<1>3. QED
  BY <1>1, <1>2

(* What the server answers can be drawn, ...                               *)
LEMMA AnswersDraw ==
    /\ Aggregate.edges \subseteq Drawable
    /\ \A p \in Packages : Scope(p).edges \subseteq Drawable
    /\ \A p \in Packages : StructLevel(p).edges \subseteq Drawable
    /\ \A t \in Structs : MemberLevel(t).edges \subseteq Drawable
<1>1. Aggregate.edges \subseteq Drawable
  BY DEF Aggregate, Drawable, PlainEdges
<1>2. ASSUME NEW p \in Packages PROVE Scope(p).edges \subseteq Drawable
  <2> DEFINE In(n) == PackageOf[n] = p
             cross == {e \in Edges : /\ In(e.from) # In(e.to)
                                     /\ ~In(e.from) => e.from \notin Packages
                                     /\ ~In(e.to) => e.to \notin Packages}
             within == {x \in Edges : In(x.from) /\ In(x.to)}
  <2>1. Scope(p).edges = {Plain(e) : e \in within} \cup {Boundary(e, p) : e \in cross}
    BY DEF Scope
  <2>2. {Plain(e) : e \in within} \subseteq PlainEdges
    BY DEF PlainEdges
  <2>3. {Boundary(e, p) : e \in cross} \subseteq BoundaryEdges
    <3>1. \A e \in cross : e \in Edges /\ p \in {PackageOf[e.from], PackageOf[e.to]}
      OBVIOUS
    <3> HIDE DEF cross
    <3>2. QED
      BY <3>1 DEF BoundaryEdges
  <2>4. QED
    BY <2>1, <2>2, <2>3 DEF Drawable
<1>3. /\ \A p : StructLevel(p).edges \subseteq Scope(p).edges
      /\ \A t : MemberLevel(t).edges \subseteq Scope(PackageOf[t]).edges
  BY DEF StructLevel, MemberLevel, Restricted
<1>4. \A t \in Structs : PackageOf[t] \in Packages
  BY EndsAreNodes DEF Structs
<1>5. QED
  BY <1>1, <1>2, <1>3, <1>4

(* ... and brings with a node an edge for each use of it.                  *)
LEMMA AnswersJoin ==
    ASSUME NEW e \in CrossUses, NEW n \in {e.from, e.to},
           NEW v, \/ \E p \in Packages : v = StructLevel(p)
                  \/ \E t \in Structs : v = MemberLevel(t),
           n \in v.nodes
    PROVE  \E x \in v.edges : x.id = <<"boundary", e.from, e.to, e.kind>> /\ Joins(x, e)
<1>1. /\ e \in Edges /\ e.from \in Nodes \ Packages /\ e.to \in Nodes \ Packages
      /\ PackageOf[e.from] # PackageOf[e.to]
  BY EndsAreNodes DEF CrossUses
<1>2. ASSUME NEW p \in Packages, PackageOf[n] = p
      PROVE  /\ Boundary(e, p) \in Scope(p).edges
             /\ Boundary(e, p).id = <<"boundary", e.from, e.to, e.kind>>
             /\ Joins(Boundary(e, p), e)
             /\ {Boundary(e, p).from, Boundary(e, p).to} \subseteq
                   {n} \cup {q \in Scope(p).nodes \cap Packages : PackageOf[q] # p}
  <2> DEFINE In(k) == PackageOf[k] = p
             cross == {c \in Edges : /\ In(c.from) # In(c.to)
                                     /\ ~In(c.from) => c.from \notin Packages
                                     /\ ~In(c.to) => c.to \notin Packages}
             foreign == UNION {{PackageOf[c.from], PackageOf[c.to]} : c \in cross}
  <2>1. e \in cross
    BY <1>1, <1>2
  <2>2. Boundary(e, p) \in Scope(p).edges /\ foreign \subseteq Scope(p).nodes
    BY <2>1 DEF Scope
  <2>3. PackageOf[e.from] \in foreign /\ PackageOf[e.to] \in foreign
    BY <2>1
  <2>4. /\ PackageOf[e.from] \in Packages /\ PackageOf[PackageOf[e.from]] = PackageOf[e.from]
        /\ PackageOf[e.to] \in Packages /\ PackageOf[PackageOf[e.to]] = PackageOf[e.to]
    BY <1>1, EndsAreNodes
  <2>5. /\ Boundary(e, p).id = <<"boundary", e.from, e.to, e.kind>>
        /\ Boundary(e, p).kind = e.kind
        /\ Boundary(e, p).from = IF PackageOf[e.from] = p THEN e.from ELSE PackageOf[e.from]
        /\ Boundary(e, p).to = IF PackageOf[e.to] = p THEN e.to ELSE PackageOf[e.to]
    BY DEF Boundary
  <2> HIDE DEF foreign, cross
  <2>6. {Boundary(e, p).from, Boundary(e, p).to} \subseteq
            {n} \cup {q \in Scope(p).nodes \cap Packages : PackageOf[q] # p}
    BY <1>1, <1>2, <2>2, <2>3, <2>4, <2>5
  <2>7. QED
    BY <2>2, <2>5, <2>6 DEF Joins
<1>3. ASSUME NEW p \in Packages, v = StructLevel(p)
      PROVE  \E x \in v.edges : x.id = <<"boundary", e.from, e.to, e.kind>> /\ Joins(x, e)
  <2>1. PackageOf[n] = p
    BY <1>1, <1>3, LevelsAreLocal
  <2>2. /\ {q \in Scope(p).nodes : PackageOf[q] # p} \subseteq v.nodes
        /\ \A x \in Scope(p).edges : x.from \in v.nodes /\ x.to \in v.nodes => x \in v.edges
    BY <1>3 DEF StructLevel, Restricted
  <2>3. QED
    BY <1>2, <2>1, <2>2
<1>4. ASSUME NEW t \in Structs, v = MemberLevel(t)
      PROVE  \E x \in v.edges : x.id = <<"boundary", e.from, e.to, e.kind>> /\ Joins(x, e)
  <2> DEFINE p == PackageOf[t]
  <2>1. PackageOf[n] = p /\ p \in Packages
    BY <1>1, <1>4, LevelsAreLocal, EndsAreNodes DEF Structs
  <2>2. /\ Scope(p).nodes \cap Packages \subseteq v.nodes
        /\ \A x \in Scope(p).edges : x.from \in v.nodes /\ x.to \in v.nodes => x \in v.edges
    BY <1>4 DEF MemberLevel, Restricted
  <2> HIDE DEF p
  <2>3. QED
    BY <1>2, <2>1, <2>2
<1>5. QED
  BY <1>3, <1>4

(* An edge that is not added because of its id is there already.           *)
LEMMA AddedJoins ==
    ASSUME edges \subseteq Drawable, NEW e \in CrossUses, NEW v, NEW x \in v.edges,
           x.id = <<"boundary", e.from, e.to, e.kind>>, Joins(x, e)
    PROVE  \E y \in EdgesAdded(v) : Joins(y, e)
<1>1. CASE \A y \in edges : y.id # x.id
  BY <1>1 DEF EdgesAdded
<1>2. CASE \E y \in edges : y.id = x.id
  BY <1>2, IdsTell DEF EdgesAdded
<1>3. QED
  BY <1>1, <1>2

----------------------------------------------------------------------------
(* The arrow of a use.                                                     *)

(* The canvas is drawn of these edges, finitely many packages of the graph *)
(* are expanded, and the menu is of a package.                             *)
DrawnInv ==
    /\ edges \subseteq Drawable
    /\ expanded \subseteq Packages /\ IsFiniteSet(expanded)
    /\ menu = None \/ menu.package \in Packages

LEMMA DrawnInit == Init => DrawnInv
  BY FS_EmptySet DEF Init, DrawnInv

LEMMA DrawnNext == DrawnInv /\ [Next]_vars => DrawnInv'
<1> SUFFICES ASSUME DrawnInv, [Next]_vars PROVE DrawnInv'
  OBVIOUS
<1>1. CASE Reload \/ Refresh \/ GraphFails \/ \E p \in Projects : Switch(p)
  BY <1>1, FS_EmptySet DEF Reload, Refresh, GraphFails, Switch, NothingDrilled, elements, drill,
                           DrawnInv
<1>2. CASE GraphArrives
  BY <1>2, AnswersDraw DEF GraphArrives, drill, DrawnInv
<1>3. CASE (\E p \in Packages : Expand(p)) \/ \E t \in Structs : ExpandStruct(t)
  BY <1>3 DEF Expand, ExpandStruct, elements, DrawnInv
<1>4. ASSUME NEW f \in fetches, ExpandDone(f) \/ StructDone(f) \/ FetchFails(f)
      PROVE  DrawnInv'
  <2>1. CASE ExpandDone(f)
    <3>1. edges' \subseteq Drawable
      BY <2>1, AnswersDraw DEF ExpandDone, EdgesAdded, DrawnInv
    <3>2. IsFiniteSet(expanded')
      BY <2>1, FS_AddElement DEF ExpandDone, DrawnInv
    <3>3. QED
      BY <2>1, <3>1, <3>2 DEF ExpandDone, DrawnInv
  <2>2. CASE StructDone(f)
    BY <2>2, AnswersDraw DEF StructDone, EdgesAdded, elements, DrawnInv
  <2>3. CASE FetchFails(f)
    BY <2>3 DEF FetchFails, elements, DrawnInv
  <2>4. QED
    BY <1>4, <2>1, <2>2, <2>3
<1>5. CASE CloseMenu \/ \E n \in Nodes : OpenMenu(n)
  <2>1. \A n \in Nodes : PackageOf[n] \in Packages
    BY EndsAreNodes
  <2>2. QED
    BY <1>5, <2>1 DEF CloseMenu, OpenMenu, elements, drill, DrawnInv
<1>6. ASSUME NEW ps, Forget(ps)
      PROVE  expanded' \subseteq Packages /\ IsFiniteSet(expanded')
  BY <1>6, FS_Subset DEF Forget, DrawnInv
<1>7. CASE MenuCollapsePackage
  <2>1. menu.package \in Packages /\ menu' = None
    BY <1>7 DEF MenuCollapsePackage, DrawnInv
  <2>2. CASE UNCHANGED <<elements, drill>>
    BY <2>1, <2>2 DEF elements, drill, DrawnInv
  <2>3. CASE edges' = EdgesWithout(menu.package, edges) /\ Forget({menu.package})
    BY <1>6, <2>1, <2>3, CollapseDraws DEF DrawnInv
  <2>4. QED
    BY <1>7, <2>2, <2>3 DEF MenuCollapsePackage
<1>8. CASE CollapseAll
  <2> DEFINE ps == {p \in expanded : \E n \in nodes : PackageOf[n] = p}
  <2>1. edges' = FoldSet(EdgesWithout, edges, ps) /\ Forget(ps) /\ menu' = menu
    BY <1>8 DEF CollapseAll
  <2>2. ps \in SUBSET Packages /\ IsFiniteSet(ps)
    BY FS_Subset DEF DrawnInv
  <2> HIDE DEF ps
  <2>3. edges' \subseteq Drawable
    BY <2>1, <2>2, CollapsesJoin DEF DrawnInv
  <2>4. QED
    BY <1>6, <2>1, <2>3 DEF DrawnInv
<1>9. CASE UNCHANGED vars
  BY <1>9 DEF vars, elements, drill, DrawnInv
<1>10. QED
  BY <1>1, <1>2, <1>3, <1>4, <1>5, <1>7, <1>8, <1>9 DEF Next

(* No step takes the arrow of a use away while an end and both packages    *)
(* stay, and none brings an end without one.                               *)
LEMMA ArrowStays ==
    ASSUME DrawnInv, [Next]_vars, NEW e \in CrossUses,
           EndShown(e)', PackagesShown(e)', EndShown(e) => \E x \in edges : Joins(x, e)
    PROVE  \E x \in edges' : Joins(x, e)
<1>1. /\ e \in Edges /\ e.from \in Nodes \ Packages /\ e.to \in Nodes \ Packages
      /\ PackageOf[e.from] # PackageOf[e.to]
  BY EndsAreNodes DEF CrossUses
<1>2. PICK n \in {e.from, e.to} : n \in nodes'
  BY DEF EndShown
<1>3. {PackageOf[e.from], PackageOf[e.to]} \subseteq nodes'
  BY DEF PackagesShown
<1>4. n \in nodes => \E x \in edges : Joins(x, e)
  BY DEF EndShown
<1>5. CASE UNCHANGED elements
  BY <1>2, <1>4, <1>5 DEF elements
<1>6. CASE Reload \/ GraphArrives
  BY <1>1, <1>2, <1>6 DEF Reload, GraphArrives, Aggregate
<1>7. ASSUME NEW v, nodes' = nodes \cup v.nodes, edges' = EdgesAdded(v),
             \/ \E p \in Packages : v = StructLevel(p)
             \/ \E t \in Structs : v = MemberLevel(t)
      PROVE  \E x \in edges' : Joins(x, e)
  <2>1. CASE n \in nodes
    BY <1>4, <1>7, <2>1 DEF EdgesAdded
  <2>2. CASE n \in v.nodes
    <3>1. PICK x \in v.edges : x.id = <<"boundary", e.from, e.to, e.kind>> /\ Joins(x, e)
      BY <1>7, <2>2, AnswersJoin
    <3>2. QED
      BY <1>7, <3>1, AddedJoins DEF DrawnInv
  <2>3. QED
    BY <1>2, <1>7, <2>1, <2>2
<1>8. ASSUME NEW f \in fetches, ExpandDone(f) \/ StructDone(f)
      PROVE  \E x \in edges' : Joins(x, e)
  BY <1>5, <1>7, <1>8 DEF ExpandDone, StructDone
<1>9. ASSUME NEW ps \in SUBSET Packages, nodes' = NodesWithout(ps)
      PROVE  /\ {PackageOf[e.from], PackageOf[e.to]} \cap ps \subseteq cached
             /\ \E x \in edges : Joins(x, e)
  <2>1. n \in nodes
    BY <1>1, <1>2, <1>9 DEF NodesWithout
  <2>2. /\ PackageOf[PackageOf[e.from]] = PackageOf[e.from]
        /\ PackageOf[PackageOf[e.to]] = PackageOf[e.to]
    BY <1>1, EndsAreNodes
  <2>3. QED
    BY <1>3, <1>4, <1>9, <2>1, <2>2 DEF NodesWithout
<1>10. CASE MenuCollapsePackage
  <2> DEFINE p == menu.package
  <2>1. p \in Packages
    BY <1>10 DEF MenuCollapsePackage, DrawnInv
  <2>2. CASE nodes' = NodesWithout({p}) /\ edges' = EdgesWithout(p, edges)
    <3> HIDE DEF p
    <3>1. /\ {PackageOf[e.from], PackageOf[e.to]} \cap {p} \subseteq cached
          /\ \E x \in edges : Joins(x, e)
      BY <1>9, <2>1, <2>2
    <3>2. QED
      BY <2>1, <2>2, <3>1, CollapseJoins DEF DrawnInv
  <2>3. QED
    BY <1>5, <1>10, <2>2 DEF MenuCollapsePackage
<1>11. CASE CollapseAll
  <2> DEFINE ps == {p \in expanded : \E k \in nodes : PackageOf[k] = p}
  <2>1. nodes' = NodesWithout(ps) /\ edges' = FoldSet(EdgesWithout, edges, ps)
    BY <1>11 DEF CollapseAll
  <2>2. ps \in SUBSET Packages /\ IsFiniteSet(ps)
    BY FS_Subset DEF DrawnInv
  <2> HIDE DEF ps
  <2>3. QED
    BY <1>9, <2>1, <2>2, CollapsesJoin DEF DrawnInv
<1>12. CASE \/ Refresh \/ GraphFails \/ CloseMenu
            \/ \E p \in Projects : Switch(p)
            \/ \E p \in Packages : Expand(p)
            \/ \E t \in Structs : ExpandStruct(t)
            \/ \E f \in fetches : FetchFails(f)
            \/ \E k \in Nodes : OpenMenu(k)
            \/ UNCHANGED vars
  BY <1>5, <1>12 DEF Refresh, GraphFails, CloseMenu, Switch, Expand, ExpandStruct, FetchFails,
                     OpenMenu, vars
<1>13. QED
  BY <1>6, <1>8, <1>10, <1>11, <1>12 DEF Next

(* A use between packages keeps its arrow, for every graph and whatever is *)
(* expanded, collapsed, refreshed and answered in between.                 *)
THEOREM ArrowAlwaysKept == Spec => ArrowKept
<1>1. DrawnInv /\ [Next]_vars
      => [\A e \in CrossUses :
             EndShown(e)' /\ PackagesShown(e)' /\ (EndShown(e) => Arrow(e)) => Arrow(e)']_vars
  BY ArrowStays DEF Arrow, Joins
<1>2. QED
  BY <1>1, DrawnInit, DrawnNext, PTL DEF Spec, ArrowKept

----------------------------------------------------------------------------
(* What the layouts have in common: numbers.                               *)

(* What holds at the first number and passes from each to the next holds   *)
(* up to the last.                                                         *)
LEMMA StepByStep ==
    ASSUME NEW n \in Nat, NEW S, 0 \in S, \A k \in 0..(n-1) : k \in S => k + 1 \in S
    PROVE  0..n \subseteq S
<1> DEFINE late == (0..n) \ S
<1>1. SUFFICES ASSUME late # {} PROVE FALSE
  OBVIOUS
<1>2. PICK m \in late : \A k \in late : m <= k
  <2>1. late \in SUBSET Nat
    OBVIOUS
  <2> HIDE DEF late
  <2>2. QED
    BY <1>1, <2>1, LeastNumber
<1>3. m \in 1..n /\ m - 1 \in 0..(n-1) /\ (m - 1) + 1 = m
  BY <1>2
<1>4. m - 1 \in S
  BY <1>2, <1>3
<1>5. QED
  BY <1>2, <1>3, <1>4

----------------------------------------------------------------------------
(* Lengths of whole pixels can be halved twice.                            *)
Fours == {x \in Nat : x % 4 = 0}

(* Sums.                                                                   *)

(* What the sums of the first numbers are, of numbers that can be added.   *)
LEMMA SumsAre ==
    ASSUME NEW V \in SUBSET Int, 0 \in V, \A a, b \in V : a + b \in V,
           NEW n \in Nat, NEW f \in [1..n -> V]
    PROVE  /\ Sums(f) \in [0..n -> V]
           /\ Sums(f)[0] = 0
           /\ \A k \in 1..n : Sums(f)[k] = Sums(f)[k-1] + f[k]
           /\ Len(f) = n
<1>1. Len(f) = n
  BY SMT
<1> DEFINE Adds(s, m) == s[0] = 0 /\ \A k \in 1..n : k <= m => s[k] = s[k-1] + f[k]
           S == {m \in 0..n : \E s \in [0..n -> V] : Adds(s, m)}
<1>2. 0 \in S
  <2>1. [k \in 0..n |-> 0] \in [0..n -> V] /\ Adds([k \in 0..n |-> 0], 0)
    OBVIOUS
  <2>2. QED
    BY <2>1
<1>3. ASSUME NEW m \in 0..(n-1), m \in S PROVE m + 1 \in S
  <2>1. PICK s \in [0..n -> V] : Adds(s, m)
    BY <1>3
  <2> DEFINE t == [s EXCEPT ![m + 1] = s[m] + f[m + 1]]
  <2>2. t \in [0..n -> V]
    <3>1. m \in 0..n /\ m + 1 \in 1..n
      OBVIOUS
    <3>2. s[m] + f[m + 1] \in V
      BY <3>1
    <3>3. QED
      BY <3>2
  <2>3. t[0] = 0
    BY <2>1
  <2>4. ASSUME NEW k \in 1..n, k <= m + 1 PROVE t[k] = t[k-1] + f[k]
    <3>1. CASE k = m + 1
      BY <3>1
    <3>2. CASE k # m + 1
      <4>1. k <= m /\ k - 1 # m + 1 /\ k - 1 \in 0..n
        BY <2>4, <3>2
      <4>2. t[k] = s[k] /\ t[k-1] = s[k-1]
        BY <3>2, <4>1
      <4>3. QED
        BY <2>1, <4>1, <4>2
    <3>3. QED
      BY <3>1, <3>2
  <2>5. Adds(t, m + 1)
    BY <2>3, <2>4
  <2> HIDE DEF t, Adds
  <2>6. QED
    BY <2>2, <2>5
<1>4. n \in S
  <2> HIDE DEF S
  <2>1. 0..n \subseteq S
    BY <1>2, <1>3, StepByStep
  <2>2. QED
    BY <2>1
<1>5. PICK s \in [0..n -> V] : Adds(s, n)
  BY <1>4
<1>6. s = [k \in 0..n |-> IF k = 0 THEN 0 ELSE s[k-1] + f[k]]
  BY <1>5
<1> DEFINE sum == CHOOSE g : g = [k \in 0..n |-> IF k = 0 THEN 0 ELSE g[k-1] + f[k]]
<1>7. Sums(f) = sum
  BY <1>1 DEF Sums
<1>8. sum = [k \in 0..n |-> IF k = 0 THEN 0 ELSE sum[k-1] + f[k]]
  BY <1>6
<1> HIDE DEF sum, Adds
<1>9. sum[0] = 0 /\ \A k \in 1..n : sum[k] = sum[k-1] + f[k]
  <2>1. 0 \in 0..n /\ \A k \in 1..n : k \in 0..n /\ k # 0
    OBVIOUS
  <2>2. QED
    BY <1>8, <2>1
<1> DEFINE T == {k \in 0..n : sum[k] \in V}
<1>10. 0..n \subseteq T
  <2>1. 0 \in T
    BY <1>9
  <2>2. ASSUME NEW k \in 0..(n-1), k \in T PROVE k + 1 \in T
    <3>1. k + 1 \in 1..n /\ (k + 1) - 1 = k /\ k + 1 \in 0..n
      OBVIOUS
    <3>2. sum[k+1] = sum[k] + f[k+1]
      BY <1>9, <3>1
    <3>3. QED
      BY <2>2, <3>1, <3>2
  <2> HIDE DEF T
  <2>3. QED
    BY <2>1, <2>2, StepByStep
<1>11. sum \in [0..n -> V]
  BY <1>8, <1>10
<1>12. QED
  BY <1>1, <1>7, <1>9, <1>11

(* Sums of what is not negative grow.                                      *)
LEMMA NaturalSums ==
    ASSUME NEW n \in Nat, NEW f \in [1..n -> Nat]
    PROVE  /\ Sums(f) \in [0..n -> Nat]
           /\ \A k \in 1..n : Sums(f)[k] = Sums(f)[k-1] + f[k]
<1>1. Nat \in SUBSET Int /\ 0 \in Nat /\ (\A a, b \in Nat : a + b \in Nat)
  OBVIOUS
<1>2. QED
  BY <1>1, SumsAre

(* The sums of naturals are naturals that grow.                            *)
LEMMA SumsGrow ==
    ASSUME NEW n \in Nat, NEW f \in [1..n -> Nat]
    PROVE  /\ Sums(f) \in [0..n -> Nat]
           /\ \A i, j \in 0..n : i <= j => Sums(f)[i] <= Sums(f)[j]
<1>1. /\ Sums(f) \in [0..n -> Nat]
      /\ \A k \in 1..n : Sums(f)[k] = Sums(f)[k-1] + f[k]
  BY NaturalSums
<1> DEFINE s == Sums(f)
<1> SUFFICES ASSUME NEW i \in 0..n
             PROVE  \A j \in 0..n : i <= j => s[i] <= s[j]
  BY <1>1
<1> HIDE DEF s
<1>2. /\ s \in [0..n -> Nat]
      /\ \A k \in 1..n : s[k] = s[k-1] + f[k]
  BY <1>1 DEF s
<1> DEFINE S == {j \in 0..n : i <= j => s[i] <= s[j]}
<1>3. 0 \in S
  BY <1>2
<1>4. ASSUME NEW k \in 0..(n-1), k \in S PROVE k + 1 \in S
  <2>1. k + 1 \in 1..n /\ (k + 1) - 1 = k
    OBVIOUS
  <2>2. s[k+1] = s[k] + f[k+1] /\ f[k+1] \in Nat
    BY <1>2, <2>1
  <2>3. s[k+1] >= s[k] /\ s[k] \in Nat /\ s[k+1] \in Nat /\ s[i] \in Nat
    BY <1>2, <2>2, <2>1
  <2>4. QED
    BY <1>4, <2>3, <2>1
<1> HIDE DEF S
<1>5. 0..n \subseteq S
  BY <1>3, <1>4, StepByStep
<1>6. QED
  BY <1>5 DEF S

----------------------------------------------------------------------------
(* Orders.                                                                 *)

(* A strict order of a set in which any two are ordered.                   *)
IsOrder(S, R) ==
    /\ \A a \in S : <<a, a>> \notin R
    /\ \A a, b, c \in S : <<a, b>> \in R /\ <<b, c>> \in R => <<a, c>> \in R
    /\ \A a, b \in S : a # b => <<a, b>> \in R \/ <<b, a>> \in R

(* Each element of a set once.                                             *)
IsListing(ids, S) ==
    /\ ids \in [1..Cardinality(S) -> S]
    /\ Cardinality(S) \in Nat
    /\ \A i, j \in 1..Cardinality(S) : ids[i] = ids[j] => i = j
    /\ \A a \in S : \E i \in 1..Cardinality(S) : ids[i] = a

(* The elements of a finite set in an order.                               *)
LEMMA RankedIs ==
    ASSUME NEW S, IsFiniteSet(S), NEW R, IsOrder(S, R)
    PROVE  /\ IsListing(Ranked(S, R), S)
           /\ \A i, j \in 1..Cardinality(S) :
                  i < j => <<Ranked(S, R)[i], Ranked(S, R)[j]>> \in R
<1> DEFINE N == Cardinality(S)
           below == [a \in S |-> {b \in S : <<b, a>> \in R}]
           at == Ranked(S, R)
           rank == [a \in S |-> Cardinality(below[a]) + 1]
<1>1. N \in Nat
  BY FS_CardinalityType
<1>2. /\ \A a \in S : below[a] \in SUBSET S /\ a \notin below[a]
      /\ \A a, b \in S : b \in below[a] <=> <<b, a>> \in R
  BY DEF IsOrder
<1>3. \A a \in S : below[a] = {b \in S : <<b, a>> \in R}
  OBVIOUS
<1> HIDE DEF below
<1>4. \A a \in S : IsFiniteSet(below[a]) /\ Cardinality(below[a]) \in Nat
  BY <1>2, FS_Subset, FS_CardinalityType
<1>5. ASSUME NEW a \in S, NEW b \in S, <<a, b>> \in R
      PROVE  Cardinality(below[a]) < Cardinality(below[b])
  <2>1. below[a] \in SUBSET below[b] /\ below[a] # below[b]
    <3>1. a \in below[b] /\ a \notin below[a]
      BY <1>2, <1>5
    <3>2. ASSUME NEW c \in below[a] PROVE c \in below[b]
      <4>1. c \in S /\ <<c, a>> \in R
        BY <1>2, <3>2
      <4>2. QED
        BY <1>2, <1>5, <4>1 DEF IsOrder
    <3>3. QED
      BY <3>1, <3>2
  <2>2. /\ Cardinality(below[a]) <= Cardinality(below[b])
        /\ Cardinality(below[b]) = Cardinality(below[a]) => below[b] = below[a]
    BY <1>4, <2>1, FS_Subset
  <2>3. QED
    BY <1>4, <2>1, <2>2
<1>6. \A a, b \in S : Cardinality(below[a]) = Cardinality(below[b]) => a = b
  <2> SUFFICES ASSUME NEW a \in S, NEW b \in S, a # b
               PROVE  Cardinality(below[a]) # Cardinality(below[b])
    OBVIOUS
  <2>1. <<a, b>> \in R \/ <<b, a>> \in R
    BY DEF IsOrder
  <2>2. QED
    BY <1>4, <1>5, <2>1
<1>7. \A a \in S : Cardinality(below[a]) < N
  <2> SUFFICES ASSUME NEW a \in S PROVE Cardinality(below[a]) < N
    OBVIOUS
  <2>1. below[a] \in SUBSET S /\ below[a] # S
    BY <1>2
  <2>2. Cardinality(below[a]) <= N /\ (N = Cardinality(below[a]) => S = below[a])
    BY <2>1, FS_Subset
  <2>3. QED
    BY <1>1, <1>4, <2>1, <2>2
<1> HIDE DEF N
<1>8. rank \in Injection(S, 1..N)
  <2>1. rank \in [S -> 1..N]
    BY <1>1, <1>4, <1>7
  <2>2. \A a, b \in S : rank[a] = rank[b] => a = b
    BY <1>4, <1>6
  <2>3. QED
    BY <2>1, <2>2 DEF Injection, IsInjective
<1>9. rank \in Surjection(S, 1..N)
  <2>1. IsFiniteSet(1..N) /\ Cardinality(1..N) = N
    BY <1>1, FS_Interval
  <2> HIDE DEF rank
  <2>2. QED
    BY <1>8, <2>1, FS_Injection DEF N
<1>10. ASSUME NEW i \in 1..N
       PROVE  at[i] \in S /\ Cardinality(below[at[i]]) = i - 1
  <2>1. PICK a \in S : rank[a] = i
    <3> HIDE DEF rank
    <3>1. QED
      BY <1>9 DEF Surjection
  <2>2. Cardinality(below[a]) = i - 1
    BY <1>4, <2>1
  <2>3. at[i] = CHOOSE x \in S : Cardinality({b \in S : <<b, x>> \in R}) = i - 1
    BY DEF Ranked, N
  <2>4. at[i] \in S /\ Cardinality({b \in S : <<b, at[i]>> \in R}) = i - 1
    <3>1. Cardinality({b \in S : <<b, a>> \in R}) = i - 1
      BY <1>3, <2>2
    <3> HIDE DEF at
    <3>2. QED
      BY <2>3, <3>1
  <2> HIDE DEF at
  <2>5. QED
    BY <1>3, <2>4
<1>11. at = [i \in 1..N |-> CHOOSE a \in S : Cardinality({b \in S : <<b, a>> \in R}) = i - 1]
  BY DEF Ranked, N
<1> HIDE DEF at, rank
<1>12. at \in [1..N -> S]
  BY <1>10, <1>11
<1>13. \A i, j \in 1..N : at[i] = at[j] => i = j
  BY <1>1, <1>10
<1>14. \A a \in S : \E i \in 1..N : at[i] = a
  <2> SUFFICES ASSUME NEW a \in S PROVE \E i \in 1..N : at[i] = a
    OBVIOUS
  <2>1. Cardinality(below[a]) + 1 \in 1..N /\ Cardinality(below[a]) \in Nat
    BY <1>1, <1>4, <1>7
  <2>2. at[Cardinality(below[a]) + 1] \in S
        /\ Cardinality(below[at[Cardinality(below[a]) + 1]]) = (Cardinality(below[a]) + 1) - 1
    BY <1>10, <2>1
  <2>3. at[Cardinality(below[a]) + 1] = a
    BY <1>6, <2>1, <2>2
  <2>4. QED
    BY <2>1, <2>3
<1>15. ASSUME NEW i \in 1..N, NEW j \in 1..N, i < j PROVE <<at[i], at[j]>> \in R
  <2>1. /\ at[i] \in S /\ Cardinality(below[at[i]]) = i - 1
        /\ at[j] \in S /\ Cardinality(below[at[j]]) = j - 1
    BY <1>10
  <2>2. at[i] # at[j]
    BY <1>13, <1>15
  <2>3. <<at[i], at[j]>> \in R \/ <<at[j], at[i]>> \in R
    BY <2>1, <2>2 DEF IsOrder
  <2>4. CASE <<at[j], at[i]>> \in R
    <3>1. j - 1 < i - 1
      BY <1>5, <2>1, <2>4
    <3>2. QED
      BY <1>15, <3>1
  <2>5. QED
    BY <2>3, <2>4
<1>16. QED
  BY <1>1, <1>12, <1>13, <1>14, <1>15 DEF IsListing, N, at

(* The least and the greatest of some numbers.                             *)
LEMMA NumbersAreOrdered ==
    ASSUME NEW S \in SUBSET Int, IsFiniteSet(S), S # {}
    PROVE  /\ Min(S) \in S /\ \A a \in S : Min(S) <= a
           /\ Max(S) \in S /\ \A a \in S : a <= Max(S)
<1> DEFINE R == {p \in S \X S : p[1] < p[2]}
           N == Cardinality(S)
           at == Ranked(S, R)
<1>1. \A a, b \in S : <<a, b>> \in R <=> a < b
  OBVIOUS
<1>2. IsOrder(S, R)
  BY <1>1 DEF IsOrder
<1> HIDE DEF R
<1>3. IsListing(at, S) /\ \A i, j \in 1..N : i < j => <<at[i], at[j]>> \in R
  BY <1>2, RankedIs
<1>4. N \in Nat \ {0}
  BY FS_EmptySet, FS_CardinalityType
<1> HIDE DEF at, N
<1>5. /\ at \in [1..N -> S]
      /\ \A i, j \in 1..N : i < j => at[i] < at[j]
      /\ \A a \in S : \E i \in 1..N : at[i] = a
  BY <1>1, <1>3 DEF IsListing, N
<1>6. /\ at[1] \in S /\ \A a \in S : at[1] <= a
      /\ at[N] \in S /\ \A a \in S : a <= at[N]
  <2>1. 1 \in 1..N /\ N \in 1..N
    BY <1>4
  <2>2. ASSUME NEW a \in S PROVE at[1] <= a /\ a <= at[N]
    <3>1. PICK i \in 1..N : at[i] = a
      BY <1>5
    <3>2. (i = 1 \/ 1 < i) /\ (i = N \/ i < N)
      BY <1>4
    <3>3. at[i] \in Int /\ at[1] \in Int /\ at[N] \in Int
      BY <1>5, <2>1
    <3>4. QED
      BY <1>5, <2>1, <3>1, <3>2, <3>3
  <2>3. QED
    BY <1>5, <2>1, <2>2
<1>7. Min(S) \in S /\ \A a \in S : Min(S) <= a
  BY <1>6 DEF Min
<1>8. Max(S) \in S /\ \A a \in S : Max(S) >= a
  BY <1>6 DEF Max
<1>9. QED
  BY <1>7, <1>8

(* One of two numbers.                                                     *)
LEMMA OfTwo ==
    ASSUME NEW a \in Int, NEW b \in Int
    PROVE  /\ Max({a, b}) = IF a >= b THEN a ELSE b
           /\ Min({a, b}) = IF a <= b THEN a ELSE b
<1>1. {a, b} = {a} \cup {b} /\ IsFiniteSet({a})
  BY FS_Singleton
<1>2. IsFiniteSet({a, b}) /\ {a, b} \in SUBSET Int /\ {a, b} # {}
  BY <1>1, FS_AddElement
<1>3. /\ Min({a, b}) \in {a, b} /\ \A c \in {a, b} : Min({a, b}) <= c
      /\ Max({a, b}) \in {a, b} /\ \A c \in {a, b} : c <= Max({a, b})
  BY <1>2, NumbersAreOrdered
<1>4. QED
  BY <1>3

(* Fractions are compared by their cross products.                         *)
LEMMA CrossMultiplied ==
    ASSUME NEW p \in Int, NEW q \in Int, NEW r \in Int,
           NEW a \in Nat \ {0}, NEW b \in Nat \ {0}, NEW c \in Nat \ {0}
    PROVE  /\ p * b < q * a /\ q * c < r * b => p * c < r * a
           /\ p * b < q * a /\ q * c = r * b => p * c < r * a
           /\ p * b = q * a /\ q * c < r * b => p * c < r * a
           /\ p * b = q * a /\ q * c = r * b => p * c = r * a
<1>1. \A x, y \in Int, k \in Nat \ {0} : /\ x < y <=> x * k < y * k
                                         /\ x = y <=> x * k = y * k
  OBVIOUS
<1>2. p * b \in Int /\ q * a \in Int /\ q * c \in Int /\ r * b \in Int /\ p * c \in Int
      /\ r * a \in Int
  OBVIOUS
<1>3. /\ p * b < q * a <=> (p * b) * c < (q * a) * c
      /\ p * b = q * a <=> (p * b) * c = (q * a) * c
      /\ q * c < r * b <=> (q * c) * a < (r * b) * a
      /\ q * c = r * b <=> (q * c) * a = (r * b) * a
      /\ p * c < r * a <=> (p * c) * b < (r * a) * b
      /\ p * c = r * a <=> (p * c) * b = (r * a) * b
  BY <1>1, <1>2
<1>4. /\ (p * b) * c = (p * c) * b
      /\ (q * a) * c = (q * c) * a
      /\ (r * b) * a = (r * a) * b
  OBVIOUS
<1>5. (p * b) * c \in Int /\ (q * c) * a \in Int /\ (r * b) * a \in Int
  BY <1>2
<1>6. QED
  BY <1>3, <1>4, <1>5

(* The order within a layer is an order.                                   *)
LEMMA AboveIsOrder ==
    ASSUME NEW g, IsLayoutGraph(g), NEW S \in SUBSET IdsOf(g),
           NEW mean \in [S -> Int \X Nat]
    PROVE  IsOrder(S, Above(g, S, mean))
<1> DEFINE R == Above(g, S, mean)
           M(a) == mean[a]
           I(a) == Index(g, a)
<1>1. \A a \in S : I(a) \in Int /\ g.nodes[I(a)] = a
  <2> SUFFICES ASSUME NEW a \in S PROVE I(a) \in Int /\ g.nodes[I(a)] = a
    OBVIOUS
  <2>1. a \in IdsOf(g) /\ DOMAIN g.nodes = 1..Len(g.nodes) /\ Len(g.nodes) \in Nat
    BY LenProperties DEF IsLayoutGraph
  <2>2. PICK i \in DOMAIN g.nodes : g.nodes[i] = a
    BY <2>1 DEF IdsOf, ToSet
  <2>3. I(a) \in DOMAIN g.nodes /\ g.nodes[I(a)] = a
    BY <2>2 DEF Index
  <2> HIDE DEF I
  <2>4. QED
    BY <2>1, <2>3
<1>2. \A a, b \in S :
          <<a, b>> \in R <=> Smaller(M(a), M(b)) \/ (Equal(M(a), M(b)) /\ I(a) < I(b))
  BY DEF Above
<1>3. \A a \in S : M(a) \in Int \X Nat
  OBVIOUS
<1> HIDE DEF R, M, I
<1>4. \A x \in Int \X Nat : ~Smaller(x, x)
  BY DEF Smaller
<1>5. \A x, y \in Int \X Nat : Smaller(x, y) \/ Smaller(y, x) \/ Equal(x, y)
  BY DEF Smaller, Equal
<1>6. ASSUME NEW x \in Int \X Nat, NEW y \in Int \X Nat, NEW z \in Int \X Nat
      PROVE  /\ Smaller(x, y) /\ Smaller(y, z) => Smaller(x, z)
             /\ Smaller(x, y) /\ Equal(y, z) => Smaller(x, z)
             /\ Equal(x, y) /\ Smaller(y, z) => Smaller(x, z)
             /\ Equal(x, y) /\ Equal(y, z) => Equal(x, z)
  <2>1. PICK p \in Int, a \in Nat, q \in Int, b \in Nat, r \in Int, c \in Nat :
            x = <<p, a>> /\ y = <<q, b>> /\ z = <<r, c>>
    OBVIOUS
  <2>2. /\ Smaller(x, y) <=> a > 0 /\ (b = 0 \/ p * b < q * a)
        /\ Smaller(y, z) <=> b > 0 /\ (c = 0 \/ q * c < r * b)
        /\ Smaller(x, z) <=> a > 0 /\ (c = 0 \/ p * c < r * a)
        /\ Equal(x, y) <=> IF a = 0 THEN b = 0 ELSE b > 0 /\ p * b = q * a
        /\ Equal(y, z) <=> IF b = 0 THEN c = 0 ELSE c > 0 /\ q * c = r * b
        /\ Equal(x, z) <=> IF a = 0 THEN c = 0 ELSE c > 0 /\ p * c = r * a
    BY <2>1 DEF Smaller, Equal
  <2>3. ASSUME a > 0, b > 0, c > 0
        PROVE  /\ p * b < q * a /\ q * c < r * b => p * c < r * a
               /\ p * b < q * a /\ q * c = r * b => p * c < r * a
               /\ p * b = q * a /\ q * c < r * b => p * c < r * a
               /\ p * b = q * a /\ q * c = r * b => p * c = r * a
    BY <2>3, CrossMultiplied
  <2>4. QED
    BY <2>2, <2>3
<1>7. \A a \in S : <<a, a>> \notin R
  BY <1>1, <1>2, <1>3, <1>4
<1>8. ASSUME NEW a \in S, NEW b \in S, NEW c \in S, <<a, b>> \in R, <<b, c>> \in R
      PROVE  <<a, c>> \in R
  <2>1. I(a) < I(b) /\ I(b) < I(c) => I(a) < I(c)
    BY <1>1
  <2>2. M(a) \in Int \X Nat /\ M(b) \in Int \X Nat /\ M(c) \in Int \X Nat
    BY <1>3
  <2>3. /\ Smaller(M(a), M(b)) \/ (Equal(M(a), M(b)) /\ I(a) < I(b))
        /\ Smaller(M(b), M(c)) \/ (Equal(M(b), M(c)) /\ I(b) < I(c))
    BY <1>2, <1>8
  <2>4. Smaller(M(a), M(c)) \/ (Equal(M(a), M(c)) /\ I(a) < I(c))
    BY <1>6, <2>1, <2>2, <2>3
  <2>5. QED
    BY <1>2, <2>4
<1>9. ASSUME NEW a \in S, NEW b \in S, a # b PROVE <<a, b>> \in R \/ <<b, a>> \in R
  <2>1. I(a) < I(b) \/ I(b) < I(a)
    BY <1>1, <1>9
  <2>2. M(a) \in Int \X Nat /\ M(b) \in Int \X Nat
    BY <1>3
  <2>3. Equal(M(a), M(b)) => Equal(M(b), M(a))
    BY <2>2 DEF Equal
  <2>4. QED
    BY <1>2, <1>5, <2>1, <2>2, <2>3
<1>10. QED
  BY <1>7, <1>8, <1>9 DEF IsOrder, R

(* A mean is a sum and a count.                                            *)
LEMMA MeanIs ==
    ASSUME NEW g, IsLayoutGraph(g), NEW n, NEW callers, NEW at,
           \A c \in callers : at[c].y \in Int
    PROVE  Mean(g, n, callers, at) \in Int \X Nat
<1> DEFINE N == Len(g.edges)
           calls == {i \in DOMAIN g.edges : g.edges[i][2] = n /\ g.edges[i][1] \in callers}
           f == [i \in DOMAIN g.edges |-> IF i \in calls THEN at[g.edges[i][1]].y ELSE 0]
<1>1. N \in Nat /\ DOMAIN g.edges = 1..N
  BY LenProperties DEF IsLayoutGraph
<1> HIDE DEF N
<1>2. f \in [1..N -> Int]
  BY <1>1
<1>3. calls \in SUBSET (1..N)
  BY <1>1
<1>4. Mean(g, n, callers, at) = <<Total(f), Cardinality(calls)>>
  BY DEF Mean
<1> HIDE DEF f, calls
<1>5. Sums(f) \in [0..N -> Int] /\ Len(f) = N
  <2>1. Int \in SUBSET Int /\ 0 \in Int /\ \A a, b \in Int : a + b \in Int
    OBVIOUS
  <2>2. QED
    BY <1>1, <1>2, <2>1, SumsAre
<1>6. Total(f) \in Int
  BY <1>1, <1>5 DEF Total
<1>7. Cardinality(calls) \in Nat
  <2>1. IsFiniteSet(1..N)
    BY <1>1, FS_Interval
  <2>2. QED
    BY <1>3, <2>1, FS_Subset, FS_CardinalityType
<1>8. QED
  BY <1>4, <1>6, <1>7

(* There are finitely many nodes.                                          *)
LEMMA NodesAreFinite ==
    ASSUME NEW g, IsLayoutGraph(g)
    PROVE  /\ IsFiniteSet(IdsOf(g)) /\ IdsOf(g) # {}
           /\ Len(g.nodes) \in Nat \ {0}
           /\ \A n \in IdsOf(g) : Index(g, n) \in 1..Len(g.nodes) /\ g.nodes[Index(g, n)] = n
<1> DEFINE N == Len(g.nodes)
<1>1. N \in Nat \ {0} /\ DOMAIN g.nodes = 1..N /\ g.nodes \in [1..N -> IdsOf(g)]
  BY LenProperties, EmptySeq DEF IsLayoutGraph
<1>2. IdsOf(g) = {g.nodes[i] : i \in 1..N}
  BY <1>1 DEF IdsOf, ToSet
<1>3. \A n \in IdsOf(g) : Index(g, n) \in 1..N /\ g.nodes[Index(g, n)] = n
  <2> SUFFICES ASSUME NEW n \in IdsOf(g)
               PROVE  Index(g, n) \in 1..N /\ g.nodes[Index(g, n)] = n
    OBVIOUS
  <2>1. PICK i \in DOMAIN g.nodes : g.nodes[i] = n
    BY <1>1, <1>2
  <2>2. Index(g, n) \in DOMAIN g.nodes /\ g.nodes[Index(g, n)] = n
    BY <2>1 DEF Index
  <2>3. QED
    BY <1>1, <2>2
<1> HIDE DEF N
<1>4. g.nodes \in Surjection(1..N, IdsOf(g))
  BY <1>1, <1>2 DEF Surjection
<1>5. IsFiniteSet(1..N)
  BY <1>1, FS_Interval
<1>6. IsFiniteSet(IdsOf(g))
  BY <1>4, <1>5, FS_Surjection
<1>7. 1 \in 1..N
  BY <1>1
<1>8. QED
  BY <1>1, <1>2, <1>3, <1>6, <1>7 DEF N

(* So a layer is listed once.                                              *)
LEMMA InOrderIs ==
    ASSUME NEW g, IsLayoutGraph(g), NEW S \in SUBSET IdsOf(g),
           NEW mean \in [S -> Int \X Nat]
    PROVE  IsListing(InOrder(g, S, mean), S)
<1>1. IsFiniteSet(S)
  BY NodesAreFinite, FS_Subset
<1>2. IsOrder(S, Above(g, S, mean))
  BY AboveIsOrder
<1>3. QED
  BY <1>1, <1>2, RankedIs DEF InOrder

(* A list has each element in one place.                                   *)
LEMMA ListingIs ==
    ASSUME NEW S, NEW ids, IsListing(ids, S)
    PROVE  /\ Len(ids) \in Nat /\ DOMAIN ids = 1..Len(ids) /\ ids \in [1..Len(ids) -> S]
           /\ \A i, j \in 1..Len(ids) : ids[i] = ids[j] => i = j
           /\ \A a \in S : Position(ids, a) \in 1..Len(ids) /\ ids[Position(ids, a)] = a
           /\ \A i \in 1..Len(ids) : Position(ids, ids[i]) = i
           /\ Len(ids) = Cardinality(S)
           /\ S # {} => Len(ids) > 0
<1>1. Len(ids) = Cardinality(S) /\ Len(ids) \in Nat
  BY DEF IsListing
<1>2. DOMAIN ids = 1..Len(ids) /\ ids \in [1..Len(ids) -> S]
  BY <1>1 DEF IsListing
<1>3. \A i, j \in 1..Len(ids) : ids[i] = ids[j] => i = j
  BY <1>1 DEF IsListing
<1>4. ASSUME NEW a \in S PROVE Position(ids, a) \in 1..Len(ids) /\ ids[Position(ids, a)] = a
  <2>1. PICK i \in DOMAIN ids : ids[i] = a
    BY <1>1, <1>2 DEF IsListing
  <2>2. Position(ids, a) \in DOMAIN ids /\ ids[Position(ids, a)] = a
    BY <2>1 DEF Position
  <2>3. QED
    BY <1>2, <2>2
<1>5. \A i \in 1..Len(ids) : ids[i] \in S
  BY <1>2
<1>6. \A i \in 1..Len(ids) : Position(ids, ids[i]) = i
  BY <1>3, <1>4, <1>5
<1>7. S # {} => Len(ids) > 0
  BY <1>1, <1>4
<1>8. QED
  BY <1>1, <1>2, <1>3, <1>4, <1>6, <1>7

----------------------------------------------------------------------------
(* Columns.                                                                *)

(* What division leaves.                                                   *)
LEMMA DivIs ==
    ASSUME NEW a \in Nat, NEW b \in Nat \ {0}
    PROVE  /\ a \div b \in Nat
           /\ (a \div b) * b <= a /\ a < (a \div b) * b + b
<1>1. a \div b \in Int /\ b * (a \div b) <= a /\ a < b * (a \div b) + b /\ a \div b >= 0
  OBVIOUS
<1>2. b * (a \div b) = (a \div b) * b
  BY <1>1
<1>3. QED
  BY <1>1, <1>2

(* A product is as large as its factors are.                               *)
LEMMA ProductsGrow ==
    ASSUME NEW a \in Int, NEW b \in Int, NEW k \in Nat, a <= b
    PROVE  a * k <= b * k /\ k * a <= k * b /\ a * k \in Int /\ b * k \in Int
  OBVIOUS

(* What division leaves when it rounds up.                                 *)
LEMMA CeilDivIs ==
    ASSUME NEW a \in Nat, NEW b \in Nat \ {0}
    PROVE  /\ CeilDiv(a, b) \in Nat
           /\ a <= CeilDiv(a, b) * b
           /\ CeilDiv(a, b) * b < a + b
           /\ a > 0 => CeilDiv(a, b) \in 1..a
<1> DEFINE q == (a + b - 1) \div b
<1>1. CeilDiv(a, b) = q
  BY DEF CeilDiv
<1>2. q \in Nat /\ q * b <= a + b - 1 /\ a + b - 1 < q * b + b
  <2>1. a + b - 1 \in Nat
    OBVIOUS
  <2>2. QED
    BY <2>1, DivIs
<1> HIDE DEF q
<1>3. q * b \in Nat
  BY <1>2
<1>4. ASSUME a > 0 PROVE q \in 1..a
  <2>1. q # 0
    <3>1. 0 * b = 0
      OBVIOUS
    <3>2. QED
      BY <1>2, <1>4, <3>1
  <2>2. ASSUME q > a PROVE FALSE
    <3>1. (a + 1) * b <= q * b
      BY <1>2, <2>2, ProductsGrow
    <3>2. (a + 1) * b = a * b + b /\ a * b >= a
      <4>1. a * 1 <= a * b
        OBVIOUS
      <4>2. QED
        BY <4>1
    <3>3. QED
      BY <1>2, <1>3, <3>1, <3>2
  <2>3. QED
    BY <1>2, <2>1, <2>2
<1>5. QED
  BY <1>1, <1>2, <1>3, <1>4

(* A row is in one column, not before its first row.                       *)
LEMMA ColumnIs ==
    ASSUME NEW i \in Nat \ {0}, NEW size \in Nat \ {0}
    PROVE  /\ ColumnOf(i, size) \in Nat
           /\ TopRow(i, size) \in 1..i
           /\ i < TopRow(i, size) + size
           /\ TopRow(i, size) = ColumnOf(i, size) * size + 1
<1> DEFINE c == (i - 1) \div size
<1>1. c \in Nat /\ c * size <= i - 1 /\ i - 1 < c * size + size
  <2>1. i - 1 \in Nat
    OBVIOUS
  <2>2. QED
    BY <2>1, DivIs
<1>2. ColumnOf(i, size) = c /\ TopRow(i, size) = c * size + 1
  BY DEF ColumnOf, TopRow
<1> HIDE DEF c
<1>3. c * size \in Nat
  BY <1>1
<1>4. QED
  BY <1>1, <1>2, <1>3

(* A row stands in one of the columns, between the first and the last of   *)
(* its column.                                                             *)
LEMMA RowsAre ==
    ASSUME NEW n \in Nat \ {0}, NEW count \in 1..n, NEW size, size = CeilDiv(n, count),
           NEW ids, Len(ids) = n, NEW i \in 1..n
    PROVE  /\ size \in 1..n
           /\ ColumnOf(i, size) \in 0..(count - 1)
           /\ TopRow(i, size) \in 1..i
           /\ BottomRow(ids, i, size) \in i..n
           /\ BottomRow(ids, i, size) < TopRow(i, size) + size
           /\ TopRow(i, size) = ColumnOf(i, size) * size + 1
<1>1. size \in 1..n /\ n <= size * count
  <2>1. n \in Nat /\ n > 0 /\ count \in Nat \ {0}
    OBVIOUS
  <2>2. QED
    BY <2>1, CeilDivIs
<1>2. /\ ColumnOf(i, size) \in Nat
      /\ TopRow(i, size) \in 1..i
      /\ i < TopRow(i, size) + size
      /\ TopRow(i, size) = ColumnOf(i, size) * size + 1
  <2>1. i \in Nat \ {0} /\ size \in Nat \ {0}
    BY <1>1
  <2>2. QED
    BY <2>1, ColumnIs
<1>3. ColumnOf(i, size) < count
  <2>1. SUFFICES ASSUME ColumnOf(i, size) >= count PROVE FALSE
    BY <1>2
  <2>2. count * size <= ColumnOf(i, size) * size /\ count * size = size * count
        /\ size * count \in Int /\ ColumnOf(i, size) * size \in Int
    BY <1>1, <1>2, <2>1, ProductsGrow
  <2>3. QED
    BY <1>1, <1>2, <2>2
<1>4. BottomRow(ids, i, size) = IF n <= TopRow(i, size) + size - 1 THEN n
                                ELSE TopRow(i, size) + size - 1
  <2> DEFINE last == TopRow(i, size) + size - 1
  <2>1. last \in Int /\ n \in Int
    BY <1>1, <1>2
  <2>2. BottomRow(ids, i, size) = Min({n, last})
    BY DEF BottomRow
  <2> HIDE DEF last
  <2>3. BottomRow(ids, i, size) = IF n <= last THEN n ELSE last
    BY <2>1, <2>2, OfTwo
  <2>4. QED
    BY <2>3 DEF last
<1>5. QED
  BY <1>1, <1>2, <1>3, <1>4

(* Rows of one column share its ends.                                      *)
LEMMA SameEnds ==
    ASSUME NEW ids, NEW i, NEW j, NEW size, ColumnOf(i, size) = ColumnOf(j, size)
    PROVE  /\ TopRow(i, size) = TopRow(j, size)
           /\ BottomRow(ids, i, size) = BottomRow(ids, j, size)
  BY DEF TopRow, BottomRow

(* The grid lies below its upper edge.                                     *)
LEMMA GridIs ==
    ASSUME NEW g, IsLayoutGraph(g), NEW S \in SUBSET IdsOf(g),
           NEW left \in Int, NEW top \in Int, NEW gap \in Nat
    PROVE  /\ DOMAIN InGrid(g, S, left, top, gap) = S
           /\ \A n \in S :
                  LET at == InGrid(g, S, left, top, gap)[n]
                  IN  /\ at.x \in Int /\ at.y \in Int /\ at.y >= top
                      /\ left % 2 = 0 /\ gap % 2 = 0 => at.x % 2 = 0
                      /\ top % 2 = 0 /\ gap % 2 = 0 => at.y % 2 = 0
<1> DEFINE N == Cardinality(S)
           sizes == {c \in 1..(N + 1) : c * c >= N}
           cols == Min(sizes)
           before(n) == Cardinality({m \in S : Index(g, m) < Index(g, n)})
<1>1. IsFiniteSet(S) /\ N \in Nat
  BY NodesAreFinite, FS_Subset, FS_CardinalityType
<1>2. cols \in Nat \ {0}
  <2>1. N + 1 \in sizes
    <3>1. (N + 1) * (N + 1) = N * N + 2 * N + 1 /\ N * N \in Nat
      BY <1>1
    <3>2. QED
      BY <1>1, <3>1
  <2>2. sizes \in SUBSET Int /\ IsFiniteSet(sizes)
    <3>1. IsFiniteSet(1..(N + 1)) /\ sizes \in SUBSET (1..(N + 1)) /\ 1..(N + 1) \subseteq Int
      BY <1>1, FS_Interval
    <3> HIDE DEF sizes
    <3>2. IsFiniteSet(sizes)
      BY <3>1, FS_Subset
    <3>3. QED
      BY <3>1, <3>2
  <2>3. cols \in sizes
    <3> HIDE DEF sizes
    <3>1. QED
      BY <2>1, <2>2, NumbersAreOrdered
  <2>4. QED
    BY <1>1, <2>3
<1>3. \A n \in S : before(n) \in Nat
  BY <1>1, FS_Subset, FS_CardinalityType
<1>4. InGrid(g, S, left, top, gap) = [n \in S |-> [x |-> left + (before(n) % cols) * gap,
                                                   y |-> top + (before(n) \div cols) * gap]]
  BY DEF InGrid
<1> HIDE DEF cols, before
<1>5. \A n \in S : before(n) % cols \in Nat /\ before(n) \div cols \in Nat
  <2> SUFFICES ASSUME NEW n \in S PROVE before(n) % cols \in Nat /\ before(n) \div cols \in Nat
    OBVIOUS
  <2>1. before(n) \in Nat
    BY <1>3
  <2>2. QED
    BY <1>2, <2>1, DivIs
<1>6. ASSUME NEW u \in Int, NEW i \in Nat
      PROVE  /\ u + i * gap \in Int /\ u + i * gap >= u
             /\ u % 2 = 0 /\ gap % 2 = 0 => (u + i * gap) % 2 = 0
  <2>1. i * gap \in Nat
    OBVIOUS
  <2>2. gap % 2 = 0 => (i * gap) % 2 = 0
    <3>1. ASSUME gap % 2 = 0 PROVE (i * gap) % 2 = 0
      <4>1. PICK h \in Nat : gap = 2 * h
        BY <3>1
      <4>2. i * gap = 2 * (i * h) /\ i * h \in Nat
        BY <4>1
      <4>3. \A v \in Nat : (2 * v) % 2 = 0
        OBVIOUS
      <4>4. QED
        BY <4>2, <4>3
    <3>2. QED
      BY <3>1
  <2>3. \A v \in Nat : /\ u + v \in Int /\ u + v >= u
                      /\ u % 2 = 0 /\ v % 2 = 0 => (u + v) % 2 = 0
    OBVIOUS
  <2>4. QED
    BY <2>1, <2>2, <2>3
<1>7. \A n \in S : /\ InGrid(g, S, left, top, gap)[n].x = left + (before(n) % cols) * gap
                   /\ InGrid(g, S, left, top, gap)[n].y = top + (before(n) \div cols) * gap
  BY <1>4
<1>8. DOMAIN InGrid(g, S, left, top, gap) = S
  BY <1>4
<1>9. QED
  BY <1>5, <1>6, <1>7, <1>8

(* Boxes whose centres are a gap apart, where the gap leaves room for two  *)
(* neighbours, leave room for any two.                                     *)
LEMMA RoomForTwo ==
    ASSUME NEW n \in Nat, NEW B \in Nat,
           NEW gap \in [1..n -> Nat], NEW half \in [1..(n+1) -> Nat],
           \A i \in 1..n : gap[i] >= half[i] + half[i+1] + B
    PROVE  \A i, j \in 1..(n+1) :
               i < j => Sums(gap)[j-1] - Sums(gap)[i-1] >= half[i] + half[j] + B
<1> DEFINE s == Sums(gap)
<1>1. /\ s \in [0..n -> Nat]
      /\ \A k \in 1..n : s[k] = s[k-1] + gap[k]
  <2>1. Nat \in SUBSET Int /\ 0 \in Nat /\ (\A a, b \in Nat : a + b \in Nat)
    OBVIOUS
  <2>2. QED
    BY <2>1, SumsAre
<1> HIDE DEF s
<1> SUFFICES ASSUME NEW i \in 1..(n+1)
             PROVE  \A j \in 1..(n+1) : i < j => s[j-1] - s[i-1] >= half[i] + half[j] + B
  BY DEF s
<1> DEFINE P(j) == i < j => s[j-1] - s[i-1] >= half[i] + half[j] + B
           S == {j \in 0..(n+1) : P(j)}
<1>2. P(0)
  OBVIOUS
<1>3. ASSUME NEW j \in 0..n, P(j) PROVE P(j + 1)
  <2>1. CASE j < i
    BY <2>1
  <2>2. CASE i <= j
    <3>1. /\ j \in 1..n /\ j \in 1..(n+1) /\ j + 1 \in 1..(n+1) /\ (j + 1) - 1 = j
          /\ i - 1 \in 0..n /\ j - 1 \in 0..n /\ j \in 0..n
      BY <2>2
    <3>2. s[j] = s[j-1] + gap[j] /\ gap[j] >= half[j] + half[j+1] + B
      BY <1>1, <3>1
    <3>3. /\ s[j] \in Nat /\ s[j-1] \in Nat /\ s[i-1] \in Nat /\ gap[j] \in Nat
          /\ half[i] \in Nat /\ half[j] \in Nat /\ half[j+1] \in Nat
      BY <1>1, <3>1
    <3>4. s[j] - s[i-1] >= half[i] + half[j+1] + B
      <4> HIDE DEF P, S
      <4>1. \A t, u, v, w, x, y, z \in Nat :
                v = u + w /\ w >= y + z + B /\ (u - t >= x + y + B \/ (u = t /\ x = y))
                => v - t >= x + z + B
        OBVIOUS
      <4>2. s[j-1] - s[i-1] >= half[i] + half[j] + B \/ (s[j-1] = s[i-1] /\ half[i] = half[j])
        <5>1. CASE i = j
          BY <5>1
        <5>2. CASE i # j
          <6>1. i < j
            BY <2>2, <3>1, <5>2
          <6>2. QED
            BY <1>3, <6>1 DEF P
        <5>3. QED
          BY <5>1, <5>2
      <4>3. QED
        BY <3>2, <3>3, <4>1, <4>2
    <3>5. QED
      BY <3>1, <3>4
  <2>3. QED
    BY <2>1, <2>2
<1> HIDE DEF P
<1>4. 0 \in S /\ \A j \in 0..((n+1)-1) : j \in S => j + 1 \in S
  BY <1>2, <1>3
<1> DEFINE m == n + 1
<1>5. 0..m \subseteq S
  <2>1. m \in Nat /\ \A j \in 0..(m-1) : j \in S => j + 1 \in S
    BY <1>4
  <2> HIDE DEF m, S
  <2>2. QED
    BY <1>4, <2>1, StepByStep
<1>6. \A j \in 1..(n+1) : P(j)
  BY <1>5 DEF S
<1>7. QED
  BY <1>6 DEF P

(* Boxes of a column, a gap G apart or further if two neighbours need it,  *)
(* take no more room than if they stood one after the other, G apart.      *)
LEMMA NoMoreRoom ==
    ASSUME NEW n \in Nat, NEW G \in Nat,
           NEW gap \in [1..n -> Nat], NEW half \in [1..(n+1) -> Nat], NEW tall \in [1..(n+1) -> Nat],
           \A i \in 1..(n+1) : tall[i] = 2 * half[i],
           \A i \in 1..n : gap[i] <= half[i] + half[i+1] + G
    PROVE  \A i, j \in 1..(n+1) :
               i <= j => Sums(gap)[j-1] - Sums(gap)[i-1] + half[i] + half[j]
                            <= Sums(tall)[j] - Sums(tall)[i-1] + (j - i) * G
<1> DEFINE s == Sums(gap)
           h == Sums(tall)
<1>1. /\ s \in [0..n -> Nat] /\ h \in [0..(n+1) -> Nat]
      /\ \A k \in 1..n : s[k] = s[k-1] + gap[k]
      /\ \A k \in 1..(n+1) : h[k] = h[k-1] + tall[k]
  <2>1. s \in [0..n -> Nat] /\ \A k \in 1..n : s[k] = s[k-1] + gap[k]
    BY NaturalSums
  <2> DEFINE m == n + 1
  <2>2. m \in Nat /\ tall \in [1..m -> Nat]
    OBVIOUS
  <2> HIDE DEF m, s
  <2>3. h \in [0..m -> Nat] /\ \A k \in 1..m : h[k] = h[k-1] + tall[k]
    BY <2>2, NaturalSums
  <2>4. QED
    BY <2>1, <2>3 DEF m
<1> HIDE DEF s, h
<1> SUFFICES ASSUME NEW i \in 1..(n+1)
             PROVE  \A j \in 1..(n+1) :
                        i <= j => s[j-1] - s[i-1] + half[i] + half[j] <= h[j] - h[i-1] + (j - i) * G
  BY DEF s, h
<1> DEFINE P(j) == i <= j => s[j-1] - s[i-1] + half[i] + half[j] <= h[j] - h[i-1] + (j - i) * G
           S == {j \in 0..(n+1) : P(j)}
<1>2. P(0)
  OBVIOUS
<1>3. ASSUME NEW j \in 0..n, P(j) PROVE P(j + 1)
  <2>1. CASE j + 1 < i
    BY <2>1
  <2>2. CASE j + 1 = i
    <3>1. /\ i \in 1..(n+1) /\ i - 1 \in 0..n /\ i - 1 \in 0..(n+1) /\ i \in 0..(n+1)
      BY <2>2
    <3>2. h[i] = h[i-1] + tall[i] /\ tall[i] = 2 * half[i]
      BY <1>1, <3>1
    <3>3. h[i] \in Nat /\ h[i-1] \in Nat /\ s[i-1] \in Nat /\ half[i] \in Nat /\ tall[i] \in Nat
      BY <1>1, <3>1
    <3>4. s[i-1] - s[i-1] + half[i] + half[i] <= h[i] - h[i-1] + 0
      <4>1. \A s0, a, b, c, d \in Nat :
                a = b + c /\ c = 2 * d => s0 - s0 + d + d <= a - b + 0
        OBVIOUS
      <4> HIDE DEF P, S
      <4>2. QED
        BY <3>2, <3>3, <4>1
    <3>5. (i - i) * G = 0
      OBVIOUS
    <3>6. QED
      BY <2>2, <3>4, <3>5
  <2>3. CASE i <= j
    <3>1. /\ j \in 1..n /\ j \in 1..(n+1) /\ j + 1 \in 1..(n+1) /\ (j + 1) - 1 = j
          /\ i - 1 \in 0..n /\ j - 1 \in 0..n /\ j \in 0..n
          /\ i - 1 \in 0..(n+1) /\ j \in 0..(n+1) /\ j + 1 \in 0..(n+1)
      BY <2>3
    <3>2. /\ s[j] = s[j-1] + gap[j] /\ gap[j] <= half[j] + half[j+1] + G
          /\ h[j+1] = h[j] + tall[j+1] /\ tall[j+1] = 2 * half[j+1]
      <4>1. h[j+1] = h[(j+1)-1] + tall[j+1]
        BY <1>1, <3>1
      <4>2. QED
        BY <1>1, <3>1, <4>1
    <3>3. /\ s[j] \in Nat /\ s[j-1] \in Nat /\ s[i-1] \in Nat /\ gap[j] \in Nat
          /\ h[j] \in Nat /\ h[j+1] \in Nat /\ h[i-1] \in Nat
          /\ half[i] \in Nat /\ half[j] \in Nat /\ half[j+1] \in Nat
      BY <1>1, <3>1
    <3>4. (j + 1 - i) * G = (j - i) * G + G /\ (j - i) * G \in Nat
      BY <2>3
    <3>5. s[j-1] - s[i-1] + half[i] + half[j] <= h[j] - h[i-1] + (j - i) * G
      BY <1>3, <2>3
    <3>6. s[j] - s[i-1] + half[i] + half[j+1] <= h[j+1] - h[i-1] + (j + 1 - i) * G
      <4> HIDE DEF P, S
      <4>2. h[j+1] = h[j] + 2 * half[j+1]
        BY <3>2
      <4> DEFINE D == (j - i) * G
      <4>3. D \in Nat /\ s[j-1] - s[i-1] + half[i] + half[j] <= h[j] - h[i-1] + D
        BY <3>4, <3>5
      <4>4. (j + 1 - i) * G = D + G
        BY <3>4
      <4> HIDE DEF D
      <4>5. s[j] - s[i-1] + half[i] + half[j+1] <= h[j+1] - h[i-1] + (D + G)
        <5>1. PICK s0 \in Nat, s1 \in Nat, s2 \in Nat :
                  s0 = s[i-1] /\ s1 = s[j-1] /\ s2 = s[j]
          BY <3>3
        <5>2. PICK h0 \in Nat, h1 \in Nat, h2 \in Nat :
                  h0 = h[i-1] /\ h1 = h[j] /\ h2 = h[j+1]
          BY <3>3
        <5>3. PICK g \in Nat, a \in Nat, b \in Nat, c \in Nat :
                  g = gap[j] /\ a = half[i] /\ b = half[j] /\ c = half[j+1]
          BY <3>3
        <5>4. s2 - s0 + a + c <= h2 - h0 + (D + G)
          <6>1. s2 = s1 + g /\ g <= b + c + G /\ h2 = h1 + 2 * c
            BY <3>2, <4>2, <5>1, <5>2, <5>3
          <6>2. s1 - s0 + a + b <= h1 - h0 + D /\ D \in Nat
            BY <4>3, <5>1, <5>2, <5>3
          <6>3. QED
            BY <6>1, <6>2
        <5>5. QED
          BY <5>1, <5>2, <5>3, <5>4
      <4>6. QED
        BY <4>4, <4>5
    <3>7. QED
      BY <3>1, <3>6
  <2>4. QED
    BY <2>1, <2>2, <2>3
<1> HIDE DEF P
<1>4. 0 \in S /\ \A j \in 0..((n+1)-1) : j \in S => j + 1 \in S
  BY <1>2, <1>3
<1> DEFINE m == n + 1
<1>5. 0..m \subseteq S
  <2>1. m \in Nat /\ \A j \in 0..(m-1) : j \in S => j + 1 \in S
    BY <1>4
  <2> HIDE DEF m, S
  <2>2. QED
    BY <1>4, <2>1, StepByStep
<1>6. \A j \in 1..(n+1) : P(j)
  BY <1>5 DEF S
<1>7. QED
  BY <1>6 DEF P

(* If the two ends of a column are about as tall, it stands in the middle  *)
(* of what it would take: half a gap further at most.                      *)
LEMMA EndsAreLevel ==
    ASSUME NEW n \in Nat, NEW G \in Nat, NEW B \in Nat, B <= G,
           NEW gap \in [1..n -> Nat], NEW half \in [1..(n+1) -> Nat], NEW tall \in [1..(n+1) -> Nat],
           \A i \in 1..(n+1) : tall[i] = 2 * half[i],
           \A i \in 1..n : gap[i] = IF G >= half[i] + half[i+1] + B THEN G
                                    ELSE half[i] + half[i+1] + B,
           NEW i \in 1..(n+1), NEW j \in i..(n+1),
           tall[i] - tall[j] <= 2 * (2 * G - B), tall[j] - tall[i] <= 2 * (2 * G - B)
    PROVE  LET room == Sums(tall)[j] - Sums(tall)[i-1] + (j - i) * G
               span == Sums(gap)[j-1] - Sums(gap)[i-1]
           IN  span + tall[i] <= room + G /\ span + tall[j] <= room + G
<1> DEFINE s == Sums(gap)
           h == Sums(tall)
           P(a, b) == s[b-1] - s[a-1] + half[a] + half[b] <= h[b] - h[a-1] + (b - a) * G
<1>1. /\ s \in [0..n -> Nat] /\ h \in [0..(n+1) -> Nat]
      /\ \A k \in 1..n : s[k] = s[k-1] + gap[k]
      /\ \A k \in 1..(n+1) : h[k] = h[k-1] + tall[k]
  <2>1. s \in [0..n -> Nat] /\ \A k \in 1..n : s[k] = s[k-1] + gap[k]
    BY NaturalSums
  <2> DEFINE m == n + 1
  <2>2. m \in Nat /\ tall \in [1..m -> Nat]
    <3>1. m \in Nat
      OBVIOUS
    <3>2. tall \in [1..m -> Nat]
      BY Zenon
    <3>3. QED
      BY <3>1, <3>2
  <2> HIDE DEF m, s
  <2>3. h \in [0..m -> Nat] /\ \A k \in 1..m : h[k] = h[k-1] + tall[k]
    BY <2>2, NaturalSums
  <2>4. QED
    BY <2>1, <2>3 DEF m
<1>2. \A k \in 1..n : gap[k] <= half[k] + half[k+1] + G
  <2> SUFFICES ASSUME NEW k \in 1..n PROVE gap[k] <= half[k] + half[k+1] + G
    OBVIOUS
  <2>1. k \in 1..(n+1) /\ k + 1 \in 1..(n+1)
    OBVIOUS
  <2>2. half[k] \in Nat /\ half[k+1] \in Nat
    BY <2>1
  <2>3. PICK a \in Nat, b \in Nat : a = half[k] /\ b = half[k+1]
    BY <2>2
  <2>4. gap[k] = IF G >= a + b + B THEN G ELSE a + b + B
    BY <2>3
  <2>5. (IF G >= a + b + B THEN G ELSE a + b + B) <= a + b + G
    OBVIOUS
  <2>6. QED
    BY <2>3, <2>4, <2>5
<1>3. \A a, b \in 1..(n+1) : a <= b => P(a, b)
  BY <1>2, NoMoreRoom
<1> HIDE DEF s, h
<1>4. i - 1 \in 0..n /\ j - 1 \in 0..n /\ i \in 0..(n+1) /\ j \in 1..(n+1)
      /\ i - 1 \in 0..(n+1) /\ j \in 0..(n+1) /\ j - 1 \in 0..(n+1)
  OBVIOUS
<1>5. PICK a \in Nat, b \in Nat : a = half[i] /\ b = half[j]
  BY <1>4
<1>6. PICK u \in Nat, v \in Nat, w \in Nat, x \in Nat :
          u = s[i-1] /\ v = s[j-1] /\ w = h[i-1] /\ x = h[j]
  BY <1>1, <1>4
<1>7. tall[i] = 2 * a /\ tall[j] = 2 * b /\ a - b <= 2 * G - B /\ b - a <= 2 * G - B
  <2>1. tall[i] = 2 * a /\ tall[j] = 2 * b
    BY <1>4, <1>5
  <2>2. 2 * a - 2 * b <= 2 * (2 * G - B) /\ 2 * b - 2 * a <= 2 * (2 * G - B)
    BY <2>1
  <2>3. QED
    BY <2>1, <2>2
<1> DEFINE c == (j - i) * G
<1>8. c \in Nat
  <2>1. j - i \in Nat
    OBVIOUS
  <2>2. QED
    BY <2>1
<1>9. CASE i = j
  <2>1. x = w + 2 * a /\ v = u /\ c = 0 /\ b = a
    BY <1>1, <1>4, <1>5, <1>6, <1>7, <1>9
  <2> HIDE DEF c
  <2>2. v - u + 2 * a <= (x - w + c) + G /\ v - u + 2 * b <= (x - w + c) + G
    BY <2>1
  <2>3. QED
    BY <1>6, <1>7, <2>2 DEF s, h, c
<1>10. CASE i # j
  <2>1. /\ i \in 1..n /\ i + 1 \in 1..(n+1) /\ i + 1 <= j /\ i <= j /\ (i + 1) - 1 = i
        /\ j - 1 \in 1..n /\ j - 1 \in 1..(n+1) /\ i <= j - 1 /\ (j - 1) + 1 = j /\ i \in 0..n
        /\ (j - 1) - 1 \in 0..n
    BY <1>10
  <2>2. P(i, j) /\ P(i + 1, j) /\ P(i, j - 1)
    BY <1>3, <1>4, <2>1
  <2>3. PICK a2 \in Nat, b2 \in Nat, u2 \in Nat, v2 \in Nat, w2 \in Nat, x2 \in Nat :
            /\ a2 = half[i+1] /\ b2 = half[j-1] /\ u2 = s[i] /\ v2 = s[(j-1)-1]
            /\ w2 = h[i] /\ x2 = h[j-1]
    BY <1>1, <1>4, <2>1
  <2>4. w2 = w + 2 * a /\ x = x2 + 2 * b
    BY <1>1, <1>4, <1>6, <1>7, <2>3
  <2>5. /\ u2 = u + G \/ u2 = u + (a + a2 + B)
        /\ v = v2 + G \/ v = v2 + (b2 + b + B)
    <3>1. u2 = u + gap[i] /\ gap[i] = IF G >= a + a2 + B THEN G ELSE a + a2 + B
      BY <1>1, <1>5, <1>6, <2>1, <2>3
    <3>2. v = v2 + gap[j-1] /\ gap[j-1] = IF G >= b2 + b + B THEN G ELSE b2 + b + B
      <4>1. s[j-1] = s[(j-1)-1] + gap[j-1]
        BY <1>1, <2>1
      <4>2. gap[j-1] = IF G >= half[j-1] + half[(j-1)+1] + B THEN G
                       ELSE half[j-1] + half[(j-1)+1] + B
        BY <2>1
      <4>3. QED
        BY <1>5, <1>6, <2>1, <2>3, <4>1, <4>2
    <3>3. QED
      BY <3>1, <3>2
  <2>6. /\ (j - (i + 1)) * G = c - G /\ ((j - 1) - i) * G = c - G
    OBVIOUS
  <2>7. v - u + a + b <= x - w + c
    BY <1>5, <1>6, <2>2
  <2>8. v - u2 + a2 + b <= x - w2 + (c - G)
    BY <1>5, <1>6, <2>1, <2>2, <2>3, <2>6
  <2>9. v2 - u + a + b2 <= x2 - w + (c - G)
    BY <1>5, <1>6, <2>2, <2>3, <2>6
  <2> HIDE DEF c, P
  <2>10. v - u + 2 * a <= (x - w + c) + G
    <3>1. v - u2 + a2 + b + 2 * a <= x - w + (c - G)
      BY <1>8, <2>4, <2>8
    <3>2. 2 * a <= 2 * b + 2 * (2 * G - B)
      BY <1>7
    <3>3. CASE u2 = u + G
      BY <1>8, <2>7, <3>1, <3>2, <3>3
    <3>4. CASE u2 = u + (a + a2 + B)
      BY <1>8, <2>7, <3>1, <3>2, <3>4
    <3>5. QED
      BY <2>5, <3>3, <3>4
  <2>11. v - u + 2 * b <= (x - w + c) + G
    <3>1. v2 - u + a + b2 + 2 * b <= x - w + (c - G)
      BY <1>8, <2>4, <2>9
    <3>2. 2 * b <= 2 * a + 2 * (2 * G - B)
      BY <1>7
    <3>3. CASE v = v2 + G
      BY <1>8, <2>7, <3>1, <3>2, <3>3
    <3>4. CASE v = v2 + (b2 + b + B)
      BY <1>8, <2>7, <3>1, <3>2, <3>4
    <3>5. QED
      BY <2>5, <3>3, <3>4
  <2>12. QED
    BY <1>6, <1>7, <2>10, <2>11 DEF s, h, c
<1>11. QED
  BY <1>9, <1>10

(* What is computed of finitely many is finitely many.                     *)
LEMMA ImagesAreFinite ==
    ASSUME NEW S, IsFiniteSet(S), NEW f, DOMAIN f = S
    PROVE  IsFiniteSet({f[a] : a \in S})
<1> DEFINE T == {f[a] : a \in S}
           h == [a \in S |-> f[a]]
<1>1. h \in Surjection(S, T)
  BY DEF Surjection
<1> HIDE DEF h, T
<1>2. IsFiniteSet(T)
  BY <1>1, FS_Surjection
<1>3. QED
  BY <1>2 DEF T

(* Numbers that are moved.                                                 *)
LEMMA MovedNumbers ==
    ASSUME NEW S \in SUBSET Int, IsFiniteSet(S), S # {}, NEW d \in Int,
           NEW T, T = {a + d : a \in S}
    PROVE  Min(T) = Min(S) + d /\ Max(T) = Max(S) + d
<1>1. /\ Min(S) \in S /\ \A a \in S : Min(S) <= a
      /\ Max(S) \in S /\ \A a \in S : a <= Max(S)
  BY NumbersAreOrdered
<1>2. T \in SUBSET Int /\ T # {} /\ Min(S) + d \in T /\ Max(S) + d \in T
  <2>1. \A a \in S : a + d \in T /\ a + d \in Int
    OBVIOUS
  <2>2. T \in SUBSET Int
    BY <2>1
  <2>3. QED
    BY <1>1, <2>1, <2>2
<1>3. IsFiniteSet(T)
  <2> DEFINE f == [a \in S |-> a + d]
  <2>1. DOMAIN f = S /\ T = {f[a] : a \in S}
    OBVIOUS
  <2> HIDE DEF f
  <2>2. \A h : DOMAIN h = S => IsFiniteSet({h[a] : a \in S})
    BY ImagesAreFinite
  <2>3. QED
    BY <2>1, <2>2
<1>4. /\ Min(T) \in T /\ \A a \in T : Min(T) <= a
      /\ Max(T) \in T /\ \A a \in T : a <= Max(T)
  BY <1>2, <1>3, NumbersAreOrdered
<1>5. PICK a \in S, b \in S : Min(T) = a + d /\ Max(T) = b + d
  BY <1>4
<1>6. Min(S) <= a /\ b <= Max(S) /\ a \in Int /\ b \in Int /\ Min(S) \in Int /\ Max(S) \in Int
  BY <1>1, <1>5
<1>7. Min(T) <= Min(S) + d /\ Max(S) + d <= Max(T)
  BY <1>2, <1>4
<1>8. QED
  BY <1>5, <1>6, <1>7

----------------------------------------------------------------------------
(* Lengths are in eighths of a pixel.                                      *)
USE DEF Px

(* The slots of the canvas: SlotLayout.                                    *)

(* The input is one of those that are laid out.                            *)
Laid ==
    /\ graph \in Graphs /\ editor \in Editors
    /\ resolution = [n \in Ids |-> ResolveLane(n)]

LEMMA InputIs ==
    ASSUME SlotAssumption, Laid
    PROVE  /\ IsLayoutGraph(graph) /\ IsFiniteSet(Ids)
           /\ graph.width \in [Ids -> Nat \ {0}] /\ \A n \in Ids : graph.width[n] % 8 = 0
           /\ IsArrangement(editor)
           /\ MaxNodesPerColumn \in Nat \ {0} /\ MaxLaneHeight \in Nat
<1>1. IsLayoutGraph(graph) /\ IsArrangement(editor)
  BY DEF Laid, SlotAssumption
<1>2. IsFiniteSet(Ids)
  BY <1>1, NodesAreFinite DEF Ids
<1>3. QED
  BY <1>1, <1>2 DEF Laid, SlotAssumption, Ids

(* A lane has one slot, and one place in it.                               *)
LEMMA LanesAre ==
    ASSUME SlotAssumption, Laid
    PROVE  /\ Len(editor.slots) \in Nat /\ Slots = 1..Len(editor.slots)
           /\ \A s \in Slots : /\ Len(editor.slots[s]) \in Nat
                               /\ DOMAIN editor.slots[s] = 1..Len(editor.slots[s])
           /\ \A lane : SlotOf(lane) # 0 => SlotOf(lane) \in Slots /\ lane \in LanesIn(SlotOf(lane))
           /\ \A s \in Slots : \A lane \in LanesIn(s) :
                  /\ SlotOf(lane) = s
                  /\ StackIndex(lane) \in 1..Len(editor.slots[s])
                  /\ editor.slots[s][StackIndex(lane)] = lane
<1>1. IsArrangement(editor)
  BY InputIs
<1>2. /\ Len(editor.slots) \in Nat /\ Slots = 1..Len(editor.slots)
      /\ \A s \in Slots : /\ Len(editor.slots[s]) \in Nat
                          /\ DOMAIN editor.slots[s] = 1..Len(editor.slots[s])
  BY <1>1 DEF IsArrangement, Slots
<1>3. IsFiniteSet(Slots) /\ Slots \in SUBSET Int
  BY <1>2, FS_Interval
<1>4. ASSUME NEW lane, SlotOf(lane) # 0
      PROVE  SlotOf(lane) \in Slots /\ lane \in LanesIn(SlotOf(lane))
  <2> DEFINE at == {s \in Slots : lane \in LanesIn(s)}
  <2>1. at \in SUBSET Slots
    OBVIOUS
  <2>2. at # {} /\ SlotOf(lane) = Max(at)
    BY <1>4 DEF SlotOf
  <2> HIDE DEF at
  <2>3. IsFiniteSet(at) /\ at \in SUBSET Int
    <3>1. IsFiniteSet(at)
      BY <1>3, <2>1, FS_Subset
    <3>2. QED
      BY <1>3, <2>1, <3>1
  <2>4. Max(at) \in at
    BY <2>2, <2>3, NumbersAreOrdered
  <2>5. QED
    BY <2>2, <2>4 DEF at
<1>5. ASSUME NEW s \in Slots, NEW lane \in LanesIn(s)
      PROVE  /\ SlotOf(lane) = s
             /\ StackIndex(lane) \in 1..Len(editor.slots[s])
             /\ editor.slots[s][StackIndex(lane)] = lane
  <2>1. PICK i \in DOMAIN editor.slots[s] : editor.slots[s][i] = lane
    BY DEF LanesIn, ToSet
  <2>2. ASSUME NEW t \in Slots, lane \in LanesIn(t) PROVE t = s
    <3>1. PICK j \in DOMAIN editor.slots[t] : editor.slots[t][j] = lane
      BY <2>2 DEF LanesIn, ToSet
    <3>2. QED
      BY <1>1, <2>1, <3>1 DEF IsArrangement, Slots
  <2> DEFINE at == {t \in Slots : lane \in LanesIn(t)}
  <2>3. at = {s} /\ SlotOf(lane) = Max(at)
    BY <2>2 DEF SlotOf
  <2>4. Max({s}) = s
    <3>1. {s} \in SUBSET Int /\ IsFiniteSet({s}) /\ {s} # {}
      BY <1>3, FS_Singleton
    <3>2. QED
      BY <3>1, NumbersAreOrdered
  <2>5. SlotOf(lane) = s
    BY <2>3, <2>4
  <2>6. StackIndex(lane) = CHOOSE k \in DOMAIN editor.slots[s] : editor.slots[s][k] = lane
    BY <2>5 DEF StackIndex, Position
  <2>7. QED
    BY <1>2, <2>1, <2>5, <2>6
<1>6. QED
  BY <1>2, <1>4, <1>5

(* A slot is as wide as its nodes, with the padding.                       *)
LEMMA WidthsAre ==
    ASSUME SlotAssumption, Laid, NEW s \in Slots
    PROVE  /\ SlotWidth(s) \in Nat /\ SlotWidth(s) % 8 = 0 /\ SlotWidth(s) >= IntraSlotPadding
           /\ \A n \in Ids : LaneOf(n) \in LanesIn(s)
                  => graph.width[n] + IntraSlotPadding <= SlotWidth(s)
<1> DEFINE those == {x \in Ids : LaneOf(x) \in LanesIn(s)}
           widths == {graph.width[n] : n \in those}
           f == [n \in those |-> graph.width[n]]
           widest == IF widths = {} THEN DefaultWidth ELSE Max(widths)
<1>1. /\ graph.width \in [Ids -> Nat \ {0}] /\ \A n \in Ids : graph.width[n] % 8 = 0
      /\ IsFiniteSet(Ids)
  BY InputIs
<1>2. SlotWidth(s) = widest + IntraSlotPadding
  BY DEF SlotWidth
<1>3. those \in SUBSET Ids /\ widths \in SUBSET Int /\ \A w \in widths : w \in Nat /\ w % 8 = 0
  BY <1>1
<1>4. widths = {f[n] : n \in those} /\ DOMAIN f = those /\ \A n \in those : graph.width[n] \in widths
  OBVIOUS
<1> HIDE DEF f
<1>5. IsFiniteSet(widths)
  <2> HIDE DEF widths, those
  <2>1. IsFiniteSet(those)
    BY <1>1, <1>3, FS_Subset
  <2>2. IsFiniteSet({f[n] : n \in those})
    BY <1>4, <2>1, ImagesAreFinite
  <2>3. QED
    BY <1>4, <2>2
<1>6. /\ widest \in Nat /\ widest % 8 = 0
      /\ \A w \in widths : w <= widest
  <2> HIDE DEF widths
  <2>1. CASE widths = {}
    BY <2>1 DEF DefaultWidth
  <2>2. CASE widths # {}
    <3>1. Max(widths) \in widths /\ \A w \in widths : w <= Max(widths)
      BY <1>3, <1>5, <2>2, NumbersAreOrdered
    <3>2. QED
      BY <1>3, <2>2, <3>1
  <2>3. QED
    BY <2>1, <2>2
<1>7. \A n \in Ids : LaneOf(n) \in LanesIn(s) => graph.width[n] \in widths
  OBVIOUS
<1> HIDE DEF widths, widest
<1>8. IntraSlotPadding = 640
  BY DEF IntraSlotPadding
<1>9. \A n \in Ids : graph.width[n] \in Nat
  BY <1>1
<1>10. QED
  BY <1>2, <1>6, <1>7, <1>8, <1>9

(* Slots that have lanes stand a gap apart.                                *)
LEMMA CentresAre ==
    ASSUME SlotAssumption, Laid
    PROVE  /\ \A s \in Slots : SlotCentre(s) \in Int
           /\ \A s, t \in Slots :
                  s < t /\ editor.slots[s] # <<>>
                  => 2 * (SlotCentre(t) - SlotCentre(s))
                        >= SlotWidth(s) + SlotWidth(t) + 2 * InterSlotGap
<1> DEFINE N == Len(editor.slots)
           f == [t \in Slots |-> SlotPitch(t)]
<1>1. N \in Nat /\ Slots = 1..N
  BY LanesAre
<1>2. \A s \in Slots : SlotWidth(s) \in Nat /\ SlotWidth(s) % 8 = 0
  BY WidthsAre
<1>3. InterSlotGap = 960 /\ TopPadding = 640
  BY DEF InterSlotGap, TopPadding
<1>4. \A s \in Slots : /\ SlotPitch(s) \in Nat
                       /\ editor.slots[s] # <<>> => SlotPitch(s) = SlotWidth(s) + 960
  BY <1>2, <1>3 DEF SlotPitch
<1> HIDE DEF N
<1>5. f \in [1..N -> Nat] /\ \A s \in Slots : f[s] = SlotPitch(s)
  BY <1>1, <1>4
<1>6. \A s \in Slots : SlotCentre(s) = 640 + Sums(f)[s - 1] + SlotWidth(s) \div 2
  BY <1>3 DEF SlotCentre
<1> HIDE DEF f
<1>7. /\ Sums(f) \in [0..N -> Nat]
      /\ \A k \in 1..N : Sums(f)[k] = Sums(f)[k-1] + f[k]
      /\ \A i, j \in 0..N : i <= j => Sums(f)[i] <= Sums(f)[j]
  BY <1>1, <1>5, NaturalSums, SumsGrow
<1>8. \A s \in Slots : s - 1 \in 0..N /\ s \in 0..N
  BY <1>1
<1>9. \A s \in Slots : SlotCentre(s) \in Int
  <2> SUFFICES ASSUME NEW s \in Slots PROVE SlotCentre(s) \in Int
    OBVIOUS
  <2>1. PICK w \in Nat, c \in Nat : w = SlotWidth(s) /\ c = Sums(f)[s-1]
    BY <1>2, <1>7, <1>8
  <2>2. SlotCentre(s) = 640 + c + w \div 2
    BY <1>6, <2>1
  <2>3. QED
    BY <2>2
<1>10. ASSUME NEW s \in Slots, NEW t \in Slots, s < t, editor.slots[s] # <<>>
       PROVE  2 * (SlotCentre(t) - SlotCentre(s)) >= SlotWidth(s) + SlotWidth(t) + 2 * InterSlotGap
  <2>1. PICK v \in Nat, w \in Nat : v = SlotWidth(s) /\ w = SlotWidth(t) /\ v % 8 = 0 /\ w % 8 = 0
    BY <1>2
  <2>2. PICK c \in Nat, d \in Nat, e \in Nat : c = Sums(f)[s-1] /\ d = Sums(f)[s] /\ e = Sums(f)[t-1]
    BY <1>7, <1>8
  <2>3. d = c + (v + 960)
    <3>1. d = c + f[s]
      BY <1>1, <1>7, <2>2
    <3>2. f[s] = v + 960
      BY <1>4, <1>5, <1>10, <2>1
    <3>3. QED
      BY <3>1, <3>2
  <2>4. d <= e
    <3>1. s <= t - 1
      BY <1>1, <1>10
    <3>2. QED
      BY <1>7, <1>8, <2>2, <3>1
  <2>5. SlotCentre(s) = 640 + c + v \div 2 /\ SlotCentre(t) = 640 + e + w \div 2
    BY <1>6, <2>1, <2>2
  <2>6. 2 * (v \div 2) = v /\ 2 * (w \div 2) = w /\ v \div 2 \in Nat /\ w \div 2 \in Nat
    BY <2>1
  <2>7. QED
    BY <1>3, <2>1, <2>3, <2>4, <2>5, <2>6
<1>11. QED
  BY <1>9, <1>10

----------------------------------------------------------------------------
(* The columns of a lane.                                                  *)

(* A lane has columns, and not more than nodes.                            *)
LEMMA ColumnCountIs ==
    ASSUME SlotAssumption, Laid, NEW S \in SUBSET Ids, S # {}, NEW ids, IsListing(ids, S)
    PROVE  /\ ColumnCount(ids) \in 1..Len(ids)
           /\ BaseColumnSize(ids) = CeilDiv(Len(ids), ColumnCount(ids))
<1> DEFINE N == Len(ids)
           least == CeilDiv(N, MaxNodesPerColumn)
           counts == {k \in least..N : k = N \/ TallestColumn(ids, k) <= MaxLaneHeight}
<1>1. N \in Nat /\ N > 0
  BY ListingIs
<1>2. least \in 1..N
  <2>1. MaxNodesPerColumn \in Nat \ {0}
    BY InputIs
  <2> HIDE DEF N
  <2>2. QED
    BY <1>1, <2>1, CeilDivIs
<1>3. ColumnCount(ids) = Min(counts)
  BY DEF ColumnCount
<1>4. counts \in SUBSET (least..N) /\ N \in counts
  <2> HIDE DEF N, least
  <2>1. QED
    BY <1>1, <1>2
<1> HIDE DEF N, least, counts
<1>5. IsFiniteSet(counts) /\ counts \in SUBSET Int /\ counts # {}
  <2>1. IsFiniteSet(least..N) /\ least..N \subseteq Int
    <3>1. least \in Int /\ N \in Int
      BY <1>1, <1>2
    <3>2. QED
      BY <3>1, FS_Interval
  <2>2. IsFiniteSet(counts)
    BY <1>4, <2>1, FS_Subset
  <2>3. QED
    BY <1>4, <2>1, <2>2
<1>6. Min(counts) \in counts
  BY <1>5, NumbersAreOrdered
<1>7. Min(counts) \in 1..N
  <2>1. Min(counts) \in least..N
    BY <1>4, <1>6
  <2>2. least \in Nat \ {0} /\ N \in Nat
    BY <1>1, <1>2
  <2>3. QED
    BY <2>1, <2>2
<1>8. QED
  BY <1>3, <1>7 DEF BaseColumnSize, N

(* How tall the nodes are.                                                 *)
HalfHeight(n) == graph.height[n] \div 2

(* Heights are whole pixels.                                               *)
LEMMA HeightsAre ==
    ASSUME SlotAssumption, Laid, NEW n \in Ids
    PROVE  /\ HalfHeight(n) \in Fours
           /\ graph.height[n] \in Nat /\ graph.height[n] % 8 = 0
           /\ graph.height[n] = 2 * HalfHeight(n)
<1>1. graph.height[n] \in Nat /\ graph.height[n] % 8 = 0
  BY InputIs DEF IsLayoutGraph, Ids
<1>2. QED
  BY <1>1 DEF HalfHeight, Fours

(* The gap of two nodes is the usual one, or what their boxes need.        *)
LEMMA GapIs ==
    ASSUME SlotAssumption, Laid, NEW a \in Ids, NEW b \in Ids
    PROVE  /\ PairGap(a, b)
                  = IF MinNodeGap >= HalfHeight(a) + HalfHeight(b) + NodeBuffer THEN MinNodeGap
                    ELSE HalfHeight(a) + HalfHeight(b) + NodeBuffer
           /\ PairGap(a, b) \in Fours
           /\ PairGap(a, b) >= HalfHeight(a) + HalfHeight(b) + NodeBuffer
<1>1. PICK u \in Fours, v \in Fours : u = HalfHeight(a) /\ v = HalfHeight(b)
  BY HeightsAre
<1>2. graph.height[a] = 2 * u /\ graph.height[b] = 2 * v
  BY <1>1, HeightsAre
<1>3. (2 * u + 2 * v) \div 2 = u + v /\ u + v + 192 \in Int
  BY DEF Fours
<1> DEFINE m == (graph.height[a] + graph.height[b]) \div 2 + NodeBuffer
<1>4. MinNodeGap = 880 /\ m = u + v + 192
  <2>1. (graph.height[a] + graph.height[b]) \div 2 = u + v
    BY <1>2, <1>3
  <2>2. MinNodeGap = 880 /\ NodeBuffer = 192
    BY DEF MinNodeGap, NodeBuffer
  <2>3. QED
    BY <2>1, <2>2
<1>5. PairGap(a, b) = IF 880 >= u + v + 192 THEN 880 ELSE u + v + 192
  <2>1. PairGap(a, b) = Max({MinNodeGap, m})
    BY DEF PairGap
  <2> HIDE DEF m
  <2>2. MinNodeGap \in Int /\ m \in Int
    BY <1>3, <1>4
  <2>3. PairGap(a, b) = IF MinNodeGap >= m THEN MinNodeGap ELSE m
    BY <2>1, <2>2, OfTwo
  <2>4. QED
    BY <1>4, <2>3
<1>6. QED
  BY <1>1, <1>5 DEF Fours, MinNodeGap, NodeBuffer

(* How far apart the nodes of a lane are.                                  *)
LEMMA OffsetsAre ==
    ASSUME SlotAssumption, Laid, NEW S \in SUBSET Ids, S # {}, NEW ids, IsListing(ids, S)
    PROVE  /\ \A k \in 1..Len(ids) : Offset(ids, k) \in Fours
           /\ \A k, l \in 1..Len(ids) : k <= l => Offset(ids, k) <= Offset(ids, l)
           /\ \A k, l \in 1..Len(ids) :
                  k < l => Offset(ids, l) - Offset(ids, k)
                               >= HalfHeight(ids[k]) + HalfHeight(ids[l]) + NodeBuffer
           /\ \A i \in 1..Len(ids) : \A j \in i..Len(ids) :
                  LET hi == graph.height[ids[i]]
                      hj == graph.height[ids[j]]
                  IN  /\ ColumnHeight(ids, i, j) \in Nat
                      /\ /\ hi - hj <= 2 * (2 * MinNodeGap - NodeBuffer)
                         /\ hj - hi <= 2 * (2 * MinNodeGap - NodeBuffer)
                         => /\ Offset(ids, j) - Offset(ids, i) + hi
                                   <= ColumnHeight(ids, i, j) + MinNodeGap
                            /\ Offset(ids, j) - Offset(ids, i) + hj
                                   <= ColumnHeight(ids, i, j) + MinNodeGap
<1> DEFINE N == Len(ids)
           m == N - 1
           gap == [i \in 1..(N - 1) |-> PairGap(ids[i], ids[i+1])]
           half == [i \in 1..N |-> HalfHeight(ids[i])]
           tall == [i \in 1..N |-> graph.height[ids[i]]]
<1>1. N \in Nat \ {0} /\ ids \in [1..N -> S] /\ DOMAIN ids = 1..N
  BY ListingIs
<1>2. \A k \in 1..N : Offset(ids, k) = Sums(gap)[k - 1]
  BY DEF Offset
<1>3. \A i, j : ColumnHeight(ids, i, j) = Sums(tall)[j] - Sums(tall)[i - 1] + (j - i) * 880
  <2>1. tall = [i \in DOMAIN ids |-> graph.height[ids[i]]]
    BY <1>1
  <2>2. QED
    BY <2>1 DEF ColumnHeight, MinNodeGap
<1> HIDE DEF N
<1>4. m \in Nat /\ N = m + 1 /\ m = N - 1
  BY <1>1
<1>5. \A i \in 1..m : ids[i] \in Ids /\ ids[i+1] \in Ids /\ i \in 1..N /\ i + 1 \in 1..N
  BY <1>1, <1>4
<1>6. \A i \in 1..N : ids[i] \in Ids
  BY <1>1
<1>7. /\ \A i \in 1..m : gap[i] = PairGap(ids[i], ids[i+1])
      /\ \A i \in 1..N : half[i] = HalfHeight(ids[i]) /\ tall[i] = graph.height[ids[i]]
      /\ DOMAIN gap = 1..m
  BY <1>4
<1>8. gap \in [1..m -> Fours] /\ half \in [1..N -> Fours] /\ tall \in [1..N -> Nat]
  BY <1>4, <1>5, <1>6, GapIs, HeightsAre
<1> HIDE DEF m, gap, half, tall
<1>9. Fours \in SUBSET Int /\ Fours \subseteq Nat /\ 0 \in Fours /\ \A a, b \in Fours : a + b \in Fours
  BY DEF Fours
<1>10. gap \in [1..m -> Nat] /\ half \in [1..N -> Nat]
  BY <1>8, <1>9
<1>11. Sums(gap) \in [0..m -> Fours]
  BY <1>4, <1>8, <1>9, SumsAre
<1>12. \A i, j \in 0..m : i <= j => Sums(gap)[i] <= Sums(gap)[j]
  BY <1>4, <1>10, SumsGrow
<1>13. \A k \in 1..N : k - 1 \in 0..m
  BY <1>4
<1>14. \A k \in 1..N : Offset(ids, k) \in Fours
  BY <1>2, <1>11, <1>13
<1>15. \A k, l \in 1..N : k <= l => Offset(ids, k) <= Offset(ids, l)
  <2> SUFFICES ASSUME NEW k \in 1..N, NEW l \in 1..N, k <= l
               PROVE  Offset(ids, k) <= Offset(ids, l)
    OBVIOUS
  <2>1. k - 1 <= l - 1
    BY <1>1
  <2>2. QED
    BY <1>2, <1>12, <1>13, <2>1
<1>16. MinNodeGap \in Nat /\ NodeBuffer \in Nat /\ NodeBuffer <= MinNodeGap
  BY DEF MinNodeGap, NodeBuffer
<1>17. half \in [1..(m+1) -> Nat] /\ tall \in [1..(m+1) -> Nat]
  BY <1>4, <1>8, <1>10
<1>18. \A i \in 1..m : gap[i] >= half[i] + half[i+1] + NodeBuffer
  BY <1>5, <1>7, GapIs
<1>19. ASSUME NEW k \in 1..N, NEW l \in 1..N, k < l
       PROVE  Offset(ids, l) - Offset(ids, k)
                  >= HalfHeight(ids[k]) + HalfHeight(ids[l]) + NodeBuffer
  <2>1. \A i, j \in 1..(m+1) :
            i < j => Sums(gap)[j-1] - Sums(gap)[i-1] >= half[i] + half[j] + NodeBuffer
    BY <1>4, <1>10, <1>16, <1>17, <1>18, RoomForTwo
  <2>2. k \in 1..(m+1) /\ l \in 1..(m+1)
    BY <1>4
  <2>3. Sums(gap)[l-1] - Sums(gap)[k-1] >= half[k] + half[l] + NodeBuffer
    BY <1>19, <2>1, <2>2
  <2>4. QED
    BY <1>2, <1>7, <2>3
<1>20. ASSUME NEW i \in 1..N, NEW j \in i..N
       PROVE  ColumnHeight(ids, i, j) \in Nat
  <2>1. /\ Sums(tall) \in [0..N -> Nat]
        /\ \A k, l \in 0..N : k <= l => Sums(tall)[k] <= Sums(tall)[l]
    BY <1>1, <1>8, SumsGrow
  <2>2. /\ i - 1 \in 0..N /\ j \in 0..N /\ i - 1 <= j
        /\ j - i \in Nat
    BY <1>1
  <2>3. /\ Sums(tall)[j] \in Nat /\ Sums(tall)[i - 1] \in Nat
        /\ Sums(tall)[i - 1] <= Sums(tall)[j]
        /\ (j - i) * 880 \in Nat
    BY <2>1, <2>2
  <2>4. QED
    BY <1>3, <2>3
<1>21. \A k \in 1..(m+1) : tall[k] = 2 * half[k]
  BY <1>4, <1>6, <1>7, HeightsAre
<1>22. \A i \in 1..m :
           gap[i] = IF MinNodeGap >= half[i] + half[i+1] + NodeBuffer THEN MinNodeGap
                    ELSE half[i] + half[i+1] + NodeBuffer
  BY <1>5, <1>7, GapIs
<1>23. ASSUME NEW i \in 1..N, NEW j \in i..N,
              graph.height[ids[i]] - graph.height[ids[j]] <= 2 * (2 * MinNodeGap - NodeBuffer),
              graph.height[ids[j]] - graph.height[ids[i]] <= 2 * (2 * MinNodeGap - NodeBuffer)
       PROVE  /\ Offset(ids, j) - Offset(ids, i) + graph.height[ids[i]]
                     <= ColumnHeight(ids, i, j) + MinNodeGap
              /\ Offset(ids, j) - Offset(ids, i) + graph.height[ids[j]]
                     <= ColumnHeight(ids, i, j) + MinNodeGap
  <2>1. j \in 1..N /\ i \in 1..(m+1) /\ j \in i..(m+1)
    BY <1>1, <1>4
  <2>2. tall[i] = graph.height[ids[i]] /\ tall[j] = graph.height[ids[j]]
    BY <1>7, <2>1
  <2>3. /\ tall[i] - tall[j] <= 2 * (2 * MinNodeGap - NodeBuffer)
        /\ tall[j] - tall[i] <= 2 * (2 * MinNodeGap - NodeBuffer)
    BY <1>23, <2>2
  <2> DEFINE room == Sums(tall)[j] - Sums(tall)[i-1] + (j - i) * MinNodeGap
             span == Sums(gap)[j-1] - Sums(gap)[i-1]
  <2>4. span + tall[i] <= room + MinNodeGap /\ span + tall[j] <= room + MinNodeGap
    BY <1>4, <1>10, <1>16, <1>17, <1>21, <1>22, <2>1, <2>3, EndsAreLevel
  <2>5. ColumnHeight(ids, i, j) = room /\ Offset(ids, j) - Offset(ids, i) = span
    BY <1>2, <1>3, <2>1 DEF MinNodeGap
  <2>6. QED
    BY <2>2, <2>4, <2>5
<1>24. QED
  BY <1>14, <1>15, <1>19, <1>20, <1>23 DEF N

(* The band of a lane is as tall as the tallest of its columns.            *)
LEMMA BandIs ==
    ASSUME SlotAssumption, Laid, NEW S \in SUBSET Ids, S # {}, NEW ids, IsListing(ids, S)
    PROVE  /\ Band(ids) \in Nat
           /\ \A k \in 1..Len(ids) :
                  LET size == BaseColumnSize(ids)
                      first == TopRow(k, size)
                      last == BottomRow(ids, k, size)
                  IN  /\ first \in 1..k /\ last \in k..Len(ids)
                      /\ ColumnOf(k, size) \in 0..(ColumnCount(ids) - 1)
                      /\ ColumnHeight(ids, first, last) <= Band(ids)
<1> DEFINE N == Len(ids)
           size == BaseColumnSize(ids)
           first(k) == TopRow(k, size)
           last(k) == BottomRow(ids, k, size)
           f == [k \in 1..N |-> ColumnHeight(ids, first(k), last(k))]
           heights == {f[k] : k \in 1..N}
<1>1. N \in Nat \ {0} /\ DOMAIN ids = 1..N
  BY ListingIs
<1>2. ColumnCount(ids) \in 1..N /\ size = CeilDiv(N, ColumnCount(ids))
  BY ColumnCountIs
<1>3. \A k \in 1..N : /\ first(k) \in 1..k /\ last(k) \in k..N
                      /\ ColumnOf(k, size) \in 0..(ColumnCount(ids) - 1)
  <2> HIDE DEF size
  <2>1. QED
    BY <1>1, <1>2, RowsAre
<1>4. Band(ids) = Max(heights)
  <2>1. heights = {ColumnHeight(ids, first(k), last(k)) : k \in DOMAIN ids}
    BY <1>1
  <2>2. size = CeilDiv(Len(ids), ColumnCount(ids))
    BY <1>2
  <2> HIDE DEF heights, size
  <2>3. QED
    BY <2>1, <2>2 DEF Band, TallestColumn
<1>5. \A k \in 1..N : ColumnHeight(ids, first(k), last(k)) \in Nat
  <2> SUFFICES ASSUME NEW k \in 1..N PROVE ColumnHeight(ids, first(k), last(k)) \in Nat
    OBVIOUS
  <2>1. first(k) \in 1..N /\ last(k) \in first(k)..N
    BY <1>1, <1>3
  <2> HIDE DEF first, last
  <2>2. QED
    BY <2>1, OffsetsAre
<1> HIDE DEF first, last, N, size
<1>6. IsFiniteSet(1..N)
  <2>1. N \in Int
    BY <1>1
  <2>2. QED
    BY <2>1, FS_Interval
<1>7. /\ heights \in SUBSET Nat /\ heights \in SUBSET Int /\ heights # {}
      /\ \A k \in 1..N : ColumnHeight(ids, first(k), last(k)) \in heights
  BY <1>1, <1>5
<1>8. DOMAIN f = 1..N
  OBVIOUS
<1> HIDE DEF f
<1>9. IsFiniteSet(heights)
  BY <1>6, <1>8, ImagesAreFinite
<1> HIDE DEF heights
<1>10. Max(heights) \in heights /\ \A h \in heights : h <= Max(heights)
  BY <1>7, <1>9, NumbersAreOrdered
<1>11. Band(ids) \in Nat
  BY <1>4, <1>7, <1>10
<1>12. QED
  BY <1>3, <1>4, <1>7, <1>10, <1>11 DEF first, last, N, size

(* The columns of a lane spread around the centre of its slot.             *)
LEMMA ColumnsSpread ==
    ASSUME SlotAssumption, Laid, NEW s \in Slots, NEW count \in Nat \ {0}, NEW c \in 0..(count - 1)
    PROVE  LET spread == (count - 1) * StepX(s, count)
           IN  /\ spread \in 0..(SlotWidth(s) - IntraSlotPadding)
               /\ ColumnX(s, count, c) \in Int
               /\ 2 * (ColumnX(s, count, c) - SlotCentre(s)) \in (-spread)..(spread + 1)
<1> DEFINE room == SlotWidth(s) - IntraSlotPadding
           step == StepX(s, count)
           spread == (count - 1) * step
<1>1. room \in Nat
  BY WidthsAre DEF IntraSlotPadding
<1>2. SlotCentre(s) \in Int
  BY CentresAre
<1>3. step \in Nat /\ spread \in 0..room
  <2>1. CASE count = 1
    <3>1. step = 0
      BY <2>1 DEF StepX
    <3>2. QED
      BY <1>1, <2>1, <3>1
  <2>2. CASE count # 1
    <3> DEFINE part == room \div (count - 1)
    <3>1. count - 1 \in Nat \ {0}
      BY <2>2
    <3>2. step = Min({1280, part})
      BY <2>2 DEF StepX, ColumnGap
    <3> HIDE DEF room, step
    <3>3. part \in Nat /\ part * (count - 1) <= room
      BY <1>1, <3>1, DivIs
    <3> HIDE DEF part
    <3>4. step \in Nat /\ step <= part
      <4>1. step = IF 1280 <= part THEN 1280 ELSE part
        BY <3>2, <3>3, OfTwo
      <4>2. QED
        BY <3>3, <4>1
    <3>5. /\ (count - 1) * step \in Nat
          /\ (count - 1) * step <= (count - 1) * part
          /\ (count - 1) * part = part * (count - 1)
      BY <3>1, <3>3, <3>4, ProductsGrow
    <3>6. QED
      BY <1>1, <3>3, <3>4, <3>5
  <2>3. QED
    BY <2>1, <2>2
<1>4. ColumnX(s, count, c) = SlotCentre(s) - spread \div 2 + c * step
  BY DEF ColumnX
<1> HIDE DEF room, step
<1>5. c * step \in 0..spread
  <2>1. c \in Int /\ count - 1 \in Int /\ c <= count - 1 /\ c \in Nat
    OBVIOUS
  <2>2. c * step <= (count - 1) * step
    BY <1>3, <2>1, ProductsGrow
  <2>3. c * step \in Nat
    BY <1>3, <2>1
  <2>4. QED
    BY <1>3, <2>2, <2>3
<1> HIDE DEF spread
<1>6. \A m \in Int, w \in Nat : \A d \in 0..w :
          /\ m - w \div 2 + d \in Int
          /\ 2 * (m - w \div 2 + d - m) \in (-w)..(w + 1)
  OBVIOUS
<1>7. QED
  BY <1>1, <1>2, <1>3, <1>4, <1>5, <1>6 DEF spread, step, room

(* Where the nodes of a lane stand, whose band begins at a height.         *)
LEMMA InBandIs ==
    ASSUME SlotAssumption, Laid, NEW s \in Slots, NEW top \in Int,
           NEW S \in SUBSET Ids, S # {}, NEW ids, IsListing(ids, S)
    PROVE  LET count == ColumnCount(ids)
               size == BaseColumnSize(ids)
               spread == (count - 1) * StepX(s, count)
               at(k) == InBand(ids, k, s, top)
           IN  /\ spread \in 0..(SlotWidth(s) - IntraSlotPadding)
               /\ \A k \in 1..Len(ids) :
                      /\ at(k).x \in Int /\ at(k).y \in Int
                      /\ 2 * (at(k).x - SlotCentre(s)) \in (-spread)..(spread + 1)
               /\ \A k, l \in 1..Len(ids) :
                      k < l /\ ColumnOf(k, size) = ColumnOf(l, size)
                      => 2 * (at(l).y - at(k).y)
                            >= graph.height[ids[k]] + graph.height[ids[l]]
               /\ (\A a, b \in S :
                       graph.height[a] - graph.height[b] <= 2 * (2 * MinNodeGap - NodeBuffer))
                  => \A k \in 1..Len(ids) :
                         /\ 2 * at(k).y - graph.height[ids[k]] >= 2 * top - MinNodeGap
                         /\ 2 * at(k).y + graph.height[ids[k]]
                                <= 2 * (top + Band(ids)) + MinNodeGap
<1> DEFINE N == Len(ids)
           count == ColumnCount(ids)
           size == BaseColumnSize(ids)
           spread == (count - 1) * StepX(s, count)
           first(k) == TopRow(k, size)
           last(k) == BottomRow(ids, k, size)
           col(k) == ColumnOf(k, size)
           middle == top + Band(ids) \div 2
           at(k) == InBand(ids, k, s, top)
           O(k) == Offset(ids, k)
           H(k) == graph.height[ids[k]]
           level == \A a, b \in S :
                        graph.height[a] - graph.height[b] <= 2 * (2 * MinNodeGap - NodeBuffer)
<1>1. N \in Nat \ {0} /\ ids \in [1..N -> S]
  BY ListingIs
<1>2. count \in 1..N
  BY ColumnCountIs
<1>3. /\ Band(ids) \in Nat
      /\ \A k \in 1..N : /\ first(k) \in 1..k /\ last(k) \in k..N
                         /\ col(k) \in 0..(count - 1)
                         /\ ColumnHeight(ids, first(k), last(k)) <= Band(ids)
  BY BandIs
<1>4. /\ \A k \in 1..N : O(k) \in Fours
      /\ \A k, l \in 1..N : k < l => 2 * (O(l) - O(k)) >= H(k) + H(l)
      /\ \A k \in 1..N : H(k) \in Nat /\ H(k) % 8 = 0
  <2>1. \A k \in 1..N : ids[k] \in Ids
    BY <1>1
  <2>2. \A k \in 1..N : /\ HalfHeight(ids[k]) \in Fours /\ H(k) \in Nat /\ H(k) % 8 = 0
                        /\ H(k) = 2 * HalfHeight(ids[k])
    BY <2>1, HeightsAre
  <2>3. \A k \in 1..N : O(k) \in Fours
    BY OffsetsAre
  <2>4. ASSUME NEW k \in 1..N, NEW l \in 1..N, k < l PROVE 2 * (O(l) - O(k)) >= H(k) + H(l)
    <3>1. O(l) - O(k) >= HalfHeight(ids[k]) + HalfHeight(ids[l]) + NodeBuffer
      BY <2>4, OffsetsAre
    <3>2. PICK a \in Nat, b \in Nat, u \in Nat, v \in Nat :
              a = HalfHeight(ids[k]) /\ b = HalfHeight(ids[l]) /\ u = O(l) /\ v = O(k)
      BY <2>2, <2>3 DEF Fours
    <3>3. u - v >= a + b + 192
      BY <3>1, <3>2 DEF NodeBuffer
    <3>4. 2 * (u - v) >= 2 * a + 2 * b
      BY <3>3
    <3>5. QED
      BY <2>2, <3>2, <3>4
  <2>5. QED
    BY <2>2, <2>3, <2>4
<1>5. ASSUME NEW k \in 1..N
      PROVE  /\ at(k).x = ColumnX(s, count, col(k))
             /\ at(k).y = middle - (O(last(k)) - O(first(k)) + H(last(k))) \div 2
                              + H(first(k)) \div 2 + O(k) - O(first(k))
  BY DEF InBand, RowY
<1> HIDE DEF N, count, at, col, first, last, O, H, spread
<1>6. /\ spread \in 0..(SlotWidth(s) - IntraSlotPadding)
      /\ \A k \in 1..N : /\ at(k).x \in Int
                         /\ 2 * (at(k).x - SlotCentre(s)) \in (-spread)..(spread + 1)
  <2>1. count \in Nat \ {0}
    BY <1>1, <1>2
  <2>2. 0 \in 0..(count - 1)
    BY <2>1
  <2>3. \A c \in 0..(count - 1) :
            /\ spread \in 0..(SlotWidth(s) - IntraSlotPadding)
            /\ ColumnX(s, count, c) \in Int
            /\ 2 * (ColumnX(s, count, c) - SlotCentre(s)) \in (-spread)..(spread + 1)
    BY <2>1, ColumnsSpread DEF spread
  <2>4. QED
    BY <1>3, <1>5, <2>2, <2>3
<1>7. \A k \in 1..N : first(k) \in 1..N /\ last(k) \in 1..N /\ first(k) <= k /\ k <= last(k)
  BY <1>1, <1>3
<1>8. middle \in Int /\ 2 * middle <= 2 * top + Band(ids) /\ 2 * middle >= 2 * top + Band(ids) - 1
  <2>1. \A t, b \in Int : /\ t + b \div 2 \in Int /\ 2 * (t + b \div 2) <= 2 * t + b
                          /\ 2 * (t + b \div 2) >= 2 * t + b - 1
    OBVIOUS
  <2>2. QED
    BY <1>3, <2>1
<1> HIDE DEF middle
(* Twice the height at which a node stands.                                *)
<1>9. ASSUME NEW k \in 1..N
      PROVE  /\ at(k).y \in Int
             /\ 2 * at(k).y = 2 * middle - (O(last(k)) - O(first(k)) + H(last(k)))
                                  + H(first(k)) + 2 * (O(k) - O(first(k)))
  <2>1. PICK m \in Int, o \in Fours, p \in Fours, q \in Fours, h \in Nat, i \in Nat :
            /\ m = middle /\ o = O(k) /\ p = O(first(k)) /\ q = O(last(k))
            /\ h = H(first(k)) /\ h % 8 = 0 /\ i = H(last(k)) /\ i % 8 = 0
    BY <1>4, <1>7, <1>8
  <2>2. at(k).y = m - (q - p + i) \div 2 + h \div 2 + o - p
    BY <1>5, <2>1
  <2>3. /\ (q - p + i) \div 2 \in Int /\ 2 * ((q - p + i) \div 2) = q - p + i
        /\ h \div 2 \in Int /\ 2 * (h \div 2) = h
    BY <2>1 DEF Fours
  <2>4. 2 * at(k).y = 2 * m - (q - p + i) + h + 2 * (o - p) /\ at(k).y \in Int
    BY <2>2, <2>3 DEF Fours
  <2>5. QED
    BY <2>1, <2>4
<1>10. ASSUME NEW k \in 1..N, NEW l \in 1..N, k < l, col(k) = col(l)
       PROVE  2 * (at(l).y - at(k).y) >= H(k) + H(l)
  <2>1. first(k) = first(l) /\ last(k) = last(l)
    BY <1>10, SameEnds DEF col, first, last
  <2>2. PICK c \in Int, o \in Nat, p \in Nat, q \in Nat :
            /\ c = 2 * middle - (O(last(k)) - O(first(k)) + H(last(k))) + H(first(k))
            /\ o = O(k) /\ p = O(l) /\ q = O(first(k))
    <3>1. /\ O(k) \in Nat /\ O(l) \in Nat /\ O(first(k)) \in Nat /\ O(last(k)) \in Nat
          /\ H(first(k)) \in Nat /\ H(last(k)) \in Nat
      BY <1>4, <1>7 DEF Fours
    <3>2. 2 * middle - (O(last(k)) - O(first(k)) + H(last(k))) + H(first(k)) \in Int
      BY <1>8, <3>1
    <3>3. QED
      BY <3>1, <3>2
  <2>3. 2 * at(k).y = c + 2 * (o - q) /\ 2 * at(l).y = c + 2 * (p - q)
    BY <1>9, <2>1, <2>2
  <2>4. PICK y \in Int, z \in Int : y = at(k).y /\ z = at(l).y
    BY <1>9
  <2>5. 2 * (z - y) = 2 * (p - o)
    BY <2>3, <2>4
  <2>6. 2 * (p - o) >= H(k) + H(l)
    BY <1>4, <1>10, <2>2
  <2>7. QED
    BY <2>4, <2>5, <2>6
<1>11. ASSUME level, NEW k \in 1..N
       PROVE  /\ 2 * at(k).y - H(k) >= 2 * top - MinNodeGap
              /\ 2 * at(k).y + H(k) <= 2 * (top + Band(ids)) + MinNodeGap
  <2>1. /\ ids[first(k)] \in S /\ ids[last(k)] \in S
        /\ first(k) \in 1..Len(ids) /\ last(k) \in first(k)..Len(ids)
    BY <1>1, <1>7 DEF N
  <2>2. PICK C \in Int : C = ColumnHeight(ids, first(k), last(k)) /\ C <= Band(ids)
    <3>1. ColumnHeight(ids, first(k), last(k)) \in Nat
      BY <2>1, OffsetsAre
    <3>2. QED
      BY <1>3, <3>1
  <2>3. PICK m \in Int, o \in Nat, p \in Nat, q \in Nat, h \in Nat, i \in Nat, x \in Nat :
            /\ m = middle /\ o = O(k) /\ p = O(first(k)) /\ q = O(last(k))
            /\ h = H(first(k)) /\ i = H(last(k)) /\ x = H(k) /\ x % 8 = 0
    BY <1>4, <1>7, <1>8 DEF Fours
  <2>4. q - p + h <= C + 880 /\ q - p + i <= C + 880
    <3>1. /\ graph.height[ids[first(k)]] - graph.height[ids[last(k)]]
                 <= 2 * (2 * MinNodeGap - NodeBuffer)
          /\ graph.height[ids[last(k)]] - graph.height[ids[first(k)]]
                 <= 2 * (2 * MinNodeGap - NodeBuffer)
      BY <1>11, <2>1
    <3>2. /\ Offset(ids, last(k)) - Offset(ids, first(k)) + graph.height[ids[first(k)]]
                 <= ColumnHeight(ids, first(k), last(k)) + MinNodeGap
          /\ Offset(ids, last(k)) - Offset(ids, first(k)) + graph.height[ids[last(k)]]
                 <= ColumnHeight(ids, first(k), last(k)) + MinNodeGap
      BY <2>1, <3>1, OffsetsAre
    <3>3. MinNodeGap = 880
      BY DEF MinNodeGap
    <3>4. QED
      BY <2>2, <2>3, <3>2, <3>3 DEF O, H
  <2>5. PICK y \in Int : y = at(k).y /\ 2 * y = 2 * m - (q - p + i) + h + 2 * (o - p)
    BY <1>9, <2>3
  <2>6. k = first(k) \/ 2 * (o - p) >= h + x
    <3>1. k = first(k) \/ first(k) < k
      BY <1>1, <1>7
    <3>2. k = first(k) \/ 2 * (O(k) - O(first(k))) >= H(first(k)) + H(k)
      BY <1>4, <1>7, <3>1
    <3>3. QED
      BY <2>3, <3>2
  <2>7. k = last(k) \/ 2 * (q - o) >= x + i
    <3>1. k = last(k) \/ k < last(k)
      BY <1>1, <1>7
    <3>2. k = last(k) \/ 2 * (O(last(k)) - O(k)) >= H(k) + H(last(k))
      BY <1>4, <1>7, <3>1
    <3>3. QED
      BY <2>3, <3>2
  <2>8. (k = first(k) => o = p /\ x = h) /\ (k = last(k) => o = q /\ x = i)
    BY <2>3
  <2>9. PICK B \in Int : B = Band(ids) /\ C <= B /\ 2 * m <= 2 * top + B /\ 2 * m >= 2 * top + B - 1
    BY <1>3, <1>8, <2>2, <2>3
  <2>10. 2 * y - x >= 2 * top - 881
    BY <2>4, <2>5, <2>6, <2>8, <2>9
  <2>11. 2 * y + x <= 2 * (top + B) + 880
    BY <2>4, <2>5, <2>7, <2>8, <2>9
  <2>12. 2 * y - x >= 2 * top - 880
    BY <2>3, <2>10
  <2>13. MinNodeGap = 880
    BY DEF MinNodeGap
  <2>14. QED
    BY <2>3, <2>5, <2>9, <2>11, <2>12, <2>13
<1>12. QED
  BY <1>6, <1>9, <1>10, <1>11 DEF N, count, at, col, H, spread

----------------------------------------------------------------------------
(* The lane of a node is the one that is promised: the first match in the  *)
(* sorted groups is the first of the longest.                              *)
LEMMA ResolvedAsPromised ==
    ASSUME SlotAssumption, Laid, NEW n
    PROVE  ResolveLane(n) = PromisedLane(n)
<1> DEFINE groups == editor.groups
           G == DOMAIN groups
           length(i) == Len(groups[i].prefix)
           R == LongestFirst
           order == Ranked(G, R)
           Matches(i) == MatchesPrefix(graph.package[n], groups[i].prefix)
           first == {i \in DOMAIN SortedGroups :
                         MatchesPrefix(graph.package[n], SortedGroups[i].prefix)}
           hits == {i \in G : Matches(i)}
           longest == {i \in hits : \A j \in hits : length(j) <= length(i)}
<1>1. /\ IsFiniteSet(G) /\ G \in SUBSET Int /\ 0 \notin G
      /\ \A i \in G : length(i) \in Nat
  <2>1. groups \in Seq(ToSet(groups)) /\ \A i \in G : length(i) \in Nat
    BY InputIs DEF IsArrangement
  <2>2. Len(groups) \in Nat /\ G = 1..Len(groups)
    BY <2>1
  <2> HIDE DEF groups, G, length
  <2>3. IsFiniteSet(1..Len(groups))
    BY <2>2, FS_Interval
  <2>4. QED
    BY <2>1, <2>2, <2>3
<1>2. \A i, j \in G : <<i, j>> \in R <=> \/ length(i) > length(j)
                                         \/ length(i) = length(j) /\ i < j
  BY DEF LongestFirst
<1>3. /\ SortedGroups = [i \in DOMAIN order |-> groups[order[i]]]
      /\ DOMAIN SortedGroups = DOMAIN order
  BY DEF SortedGroups
<1>4. PickFolderGroup(graph.package[n]) = IF first = {} THEN 0 ELSE Min(first)
  BY DEF PickFolderGroup
<1>5. ResolveLane(n) = IF PickFolderGroup(graph.package[n]) # 0
                       THEN Folder(SortedGroups[PickFolderGroup(graph.package[n])].id)
                       ELSE DepthLane(n)
  BY DEF ResolveLane
<1>6. PromisedLane(n) = IF hits # {} THEN Folder(groups[Min(longest)].id) ELSE DepthLane(n)
  BY DEF PromisedLane
<1>7. \A i \in DOMAIN order : i \in first <=> Matches(order[i])
  BY <1>3
<1>8. first \subseteq DOMAIN order /\ hits \in SUBSET G /\ longest \in SUBSET hits
  BY <1>3
<1>9. \A i \in G : i \in hits <=> Matches(i)
  OBVIOUS
<1>10. \A i \in hits : i \in longest <=> \A j \in hits : length(j) <= length(i)
  OBVIOUS
<1> HIDE DEF groups, G, R, length, first, hits, longest, Matches
<1>11. IsOrder(G, R)
  <2>1. ASSUME NEW i \in G PROVE <<i, i>> \notin R
    <3>1. PICK x \in Nat, k \in Int : x = length(i) /\ k = i
      BY <1>1
    <3>2. ~(x > x \/ (x = x /\ k < k))
      OBVIOUS
    <3>3. QED
      BY <1>2, <3>1, <3>2
  <2>2. ASSUME NEW i \in G, NEW j \in G, NEW k \in G, <<i, j>> \in R, <<j, k>> \in R
        PROVE  <<i, k>> \in R
    <3>1. PICK x \in Nat, y \in Nat, z \in Nat : x = length(i) /\ y = length(j) /\ z = length(k)
      BY <1>1
    <3>2. (x > y \/ (x = y /\ i < j)) /\ (y > z \/ (y = z /\ j < k))
      BY <1>2, <2>2, <3>1
    <3>3. i \in Int /\ j \in Int /\ k \in Int
      BY <1>1
    <3>4. x > z \/ (x = z /\ i < k)
      BY <3>2, <3>3
    <3>5. QED
      BY <1>2, <3>1, <3>4
  <2>3. ASSUME NEW i \in G, NEW j \in G, i # j PROVE <<i, j>> \in R \/ <<j, i>> \in R
    <3>1. PICK x \in Nat, y \in Nat : x = length(i) /\ y = length(j)
      BY <1>1
    <3>2. i \in Int /\ j \in Int
      BY <1>1
    <3>3. (x > y \/ (x = y /\ i < j)) \/ (y > x \/ (y = x /\ j < i))
      BY <2>3, <3>2
    <3>4. QED
      BY <1>2, <3>1, <3>3
  <2>4. QED
    BY <2>1, <2>2, <2>3 DEF IsOrder
<1>12. /\ IsListing(order, G)
       /\ \A i, j \in 1..Cardinality(G) : i < j => <<order[i], order[j]>> \in R
  BY <1>1, <1>11, RankedIs
<1> HIDE DEF order
<1> DEFINE N == Len(order)
<1>13. /\ N \in Nat /\ DOMAIN order = 1..N /\ order \in [1..N -> G]
       /\ \A i, j \in 1..N : i < j => <<order[i], order[j]>> \in R
       /\ \A a \in G : \E i \in 1..N : order[i] = a
  BY <1>12, ListingIs
<1> HIDE DEF N
<1>14. \A a \in hits : \E i \in first : order[i] = a
  BY <1>7, <1>8, <1>9, <1>13
<1>15. CASE first = {}
  <2>1. hits = {}
    BY <1>14, <1>15
  <2>2. QED
    BY <1>4, <1>5, <1>6, <1>15, <2>1
<1>16. CASE first # {}
  <2> DEFINE m == Min(first)
             g == order[m]
  <2>1. first \in SUBSET Int /\ IsFiniteSet(first)
    <3>1. IsFiniteSet(1..N) /\ 1..N \subseteq Int
      BY <1>13, FS_Interval
    <3>2. first \in SUBSET (1..N)
      BY <1>8, <1>13
    <3>3. IsFiniteSet(first)
      BY <3>1, <3>2, FS_Subset
    <3>4. QED
      BY <3>1, <3>2, <3>3
  <2>2. m \in first /\ \A i \in first : m <= i
    BY <1>16, <2>1, NumbersAreOrdered
  <2> HIDE DEF m
  <2>3. m \in 1..N /\ m # 0 /\ g \in G /\ g \in hits
    BY <1>7, <1>8, <1>9, <1>13, <2>2
  <2> HIDE DEF g
  <2>4. ASSUME NEW j \in hits PROVE j = g \/ <<g, j>> \in R
    <3>1. PICK i \in first : order[i] = j
      BY <1>14
    <3>2. i \in 1..N /\ m <= i
      BY <1>8, <1>13, <2>2, <3>1
    <3>3. i = m \/ m < i
      BY <1>13, <2>3, <3>2
    <3>4. QED
      BY <1>13, <2>3, <3>1, <3>2, <3>3 DEF g
  <2>5. \A j \in hits : j \in G /\ length(j) \in Nat /\ length(g) \in Nat
    BY <1>1, <1>8, <2>3
  <2>6. g \in longest
    <3>1. ASSUME NEW j \in hits PROVE length(j) <= length(g)
      <4>1. PICK x \in Nat, y \in Nat : x = length(j) /\ y = length(g)
        BY <2>5
      <4>2. j = g \/ y > x \/ y = x
        BY <1>2, <2>3, <2>4, <2>5, <4>1
      <4>3. x <= y
        BY <4>1, <4>2
      <4>4. QED
        BY <4>1, <4>3
    <3>2. QED
      BY <1>10, <2>3, <3>1
  <2>7. ASSUME NEW j \in longest PROVE g <= j
    <3>1. j \in hits /\ length(g) <= length(j)
      BY <1>8, <1>10, <2>3
    <3>2. g \in Int /\ j \in Int
      BY <1>1, <1>8, <2>3, <3>1
    <3>3. PICK x \in Nat, y \in Nat : x = length(j) /\ y = length(g)
      BY <2>5, <3>1
    <3>4. j = g \/ y > x \/ (y = x /\ g < j)
      BY <1>2, <2>3, <2>4, <2>5, <3>1, <3>3
    <3>5. y <= x
      BY <3>1, <3>3
    <3>6. QED
      BY <3>2, <3>4, <3>5
  <2>8. Min(longest) = g
    <3>1. longest \in SUBSET Int /\ IsFiniteSet(longest) /\ longest # {}
      <4>1. longest \in SUBSET G
        BY <1>8
      <4>2. IsFiniteSet(longest)
        BY <1>1, <4>1, FS_Subset
      <4>3. QED
        BY <1>1, <2>6, <4>1, <4>2
    <3>2. Min(longest) \in longest /\ \A i \in longest : Min(longest) <= i
      BY <3>1, NumbersAreOrdered
    <3>3. Min(longest) \in Int /\ g \in Int /\ Min(longest) <= g /\ g <= Min(longest)
      BY <2>6, <2>7, <3>1, <3>2
    <3>4. QED
      BY <3>3
  <2>9. SortedGroups[m] = groups[g]
    BY <1>3, <1>13, <2>3 DEF g
  <2>10. QED
    BY <1>4, <1>5, <1>6, <1>16, <2>3, <2>8, <2>9 DEF m
<1>17. QED
  BY <1>15, <1>16

----------------------------------------------------------------------------
(* The invariant.                                                          *)

(* The lanes of a slot that is placed are listed, and its nodes stand      *)
(* where the lists put them.                                               *)
Listed(s, plans) == \A lane \in LanesIn(s) : IsListing(plans[lane], LaneMembers(lane))

SlotsPlaced ==
    /\ \A s \in Slots : s < slot => LanesIn(s) \subseteq DOMAIN rows /\ Listed(s, rows)
    /\ \A n \in Ids : SlotOf(LaneOf(n)) \in 1..(slot - 1) =>
            n \in Placed /\ pos[n] = PlaceOf(n, SlotOf(LaneOf(n)), rows)
    /\ slot <= Len(editor.slots) + 1 =>
            \A n \in Placed : SlotOf(LaneOf(n)) \in 1..(slot - 1)

(* When all is placed, what has no slot stands below what has one.         *)
RestPlaced ==
    Swept => /\ Placed = Ids
             /\ \A n, m \in Ids :
                    SlotOf(LaneOf(n)) = 0 /\ SlotOf(LaneOf(m)) # 0 => pos[n].y >= pos[m].y + DeadDy

(* The inductive invariant of the sweep over the slots.                    *)
SlotInv ==
    /\ Laid
    /\ slot \in 1..(Len(editor.slots) + 2)
    /\ Placed \subseteq Ids
    /\ \A n \in Placed : pos[n].x \in Int /\ pos[n].y \in Int
    /\ SlotsPlaced
    /\ RestPlaced

(* What the layout reads does not change.                                  *)
LEMMA SameInput ==
    ASSUME UNCHANGED <<graph, editor, resolution>>
    PROVE  /\ Ids' = Ids /\ Slots' = Slots
           /\ \A s : LanesIn(s)' = LanesIn(s)
           /\ \A lane : SlotOf(lane)' = SlotOf(lane) /\ LaneMembers(lane)' = LaneMembers(lane)
           /\ \A n : LaneOf(n)' = LaneOf(n)
           /\ \A n, s, plans : PlaceOf(n, s, plans)' = PlaceOf(n, s, plans)
<1>1. /\ Ids' = Ids /\ Slots' = Slots
      /\ \A s : LanesIn(s)' = LanesIn(s)
      /\ \A n : LaneOf(n)' = LaneOf(n)
  BY DEF Ids, Slots, LanesIn, LaneOf
<1>2. \A lane : SlotOf(lane)' = SlotOf(lane)
  BY <1>1 DEF SlotOf
<1>3. \A lane : LaneMembers(lane)' = LaneMembers(lane)
  BY <1>1 DEF LaneMembers
<1>4. \A lane : StackIndex(lane)' = StackIndex(lane)
  BY <1>2 DEF StackIndex
<1>5. \A s : SlotWidth(s)' = SlotWidth(s)
  BY <1>1 DEF SlotWidth
<1>6. \A s : SlotPitch(s)' = SlotPitch(s)
  BY <1>5 DEF SlotPitch
<1>7. \A s : SlotCentre(s)' = SlotCentre(s)
  BY <1>1, <1>5, <1>6 DEF SlotCentre
<1>8. \A ids, i, j : ColumnHeight(ids, i, j)' = ColumnHeight(ids, i, j)
  BY DEF ColumnHeight
<1>9. \A ids, k : TallestColumn(ids, k)' = TallestColumn(ids, k)
  BY <1>8 DEF TallestColumn
<1>10. \A ids : ColumnCount(ids)' = ColumnCount(ids)
  BY <1>9 DEF ColumnCount
<1>11. \A ids : BaseColumnSize(ids)' = BaseColumnSize(ids) /\ Band(ids)' = Band(ids)
  BY <1>9, <1>10 DEF BaseColumnSize, Band
<1>12. \A a, b : PairGap(a, b)' = PairGap(a, b)
  BY DEF PairGap
<1>13. \A ids, k : Offset(ids, k)' = Offset(ids, k)
  BY <1>12 DEF Offset
<1>14. \A s, count, c : ColumnX(s, count, c)' = ColumnX(s, count, c)
  BY <1>5, <1>7 DEF ColumnX, StepX
<1>15. \A ids, i, j, k, m : RowY(ids, i, j, k, m)' = RowY(ids, i, j, k, m)
  BY <1>13 DEF RowY
<1>16. \A ids, k, s, top : InBand(ids, k, s, top)' = InBand(ids, k, s, top)
  BY <1>10, <1>11, <1>14, <1>15 DEF InBand
<1>17. \A s, i, plans : LaneTop(s, i, plans)' = LaneTop(s, i, plans)
  BY <1>11 DEF LaneTop, LanePitch
<1>18. \A n, s, plans : PlaceOf(n, s, plans)' = PlaceOf(n, s, plans)
  BY <1>1, <1>4, <1>16, <1>17 DEF PlaceOf
<1>19. QED
  BY <1>1, <1>2, <1>3, <1>18

(* What is said of the input stays true.                                   *)
LEMMA LaidStays ==
    ASSUME Laid, UNCHANGED <<graph, editor, resolution>>
    PROVE  Laid'
<1>1. Ids' = Ids
  BY DEF Ids
<1>2. SortedGroups' = SortedGroups
  BY DEF SortedGroups, LongestFirst
<1>3. \A p : PickFolderGroup(p)' = PickFolderGroup(p)
  BY <1>2 DEF PickFolderGroup
<1>4. \A n : DepthLane(n)' = DepthLane(n)
  BY DEF DepthLane
<1>5. \A n : ResolveLane(n)' = ResolveLane(n)
  BY <1>2, <1>3, <1>4 DEF ResolveLane
<1>6. QED
  BY <1>1, <1>5 DEF Laid

(* Only the lists of a slot decide where its nodes go.                     *)
LEMMA SamePlans ==
    ASSUME SlotAssumption, Laid, NEW s \in Slots, NEW p, NEW q,
           \A lane \in LanesIn(s) : p[lane] = q[lane],
           NEW n, LaneOf(n) \in LanesIn(s)
    PROVE  PlaceOf(n, s, p) = PlaceOf(n, s, q)
<1> DEFINE lanes == editor.slots[s]
<1>1. \A j \in DOMAIN lanes : lanes[j] \in LanesIn(s)
  BY DEF LanesIn, ToSet
<1>2. [j \in DOMAIN lanes |-> LanePitch(p[lanes[j]])] = [j \in DOMAIN lanes |-> LanePitch(q[lanes[j]])]
  BY <1>1
<1>3. \A i : LaneTop(s, i, p) = LaneTop(s, i, q)
  BY <1>2 DEF LaneTop
<1>4. QED
  BY <1>3 DEF PlaceOf

(* The lanes of a slot are stacked.                                        *)
LEMMA LaneTopsAre ==
    ASSUME SlotAssumption, Laid, NEW s \in Slots, NEW plans, Listed(s, plans)
    PROVE  /\ \A i \in 1..Len(editor.slots[s]) : LaneTop(s, i, plans) \in Int
           /\ \A i, j \in 1..Len(editor.slots[s]) :
                  i < j /\ LaneMembers(editor.slots[s][i]) # {}
                  => LaneTop(s, j, plans)
                        >= LaneTop(s, i, plans) + Band(plans[editor.slots[s][i]]) + MinNodeGap
<1> DEFINE lanes == editor.slots[s]
           N == Len(lanes)
           f == [j \in DOMAIN lanes |-> LanePitch(plans[lanes[j]])]
<1>1. N \in Nat /\ DOMAIN lanes = 1..N
  BY LanesAre
<1>2. \A i : LaneTop(s, i, plans) = 640 + Sums(f)[i - 1]
  BY DEF LaneTop, TopPadding
<1>3. ASSUME NEW j \in 1..N
      PROVE  /\ LanePitch(plans[lanes[j]]) \in Nat
             /\ LaneMembers(lanes[j]) # {}
                => /\ Band(plans[lanes[j]]) \in Nat
                   /\ LanePitch(plans[lanes[j]]) = Band(plans[lanes[j]]) + MinNodeGap
  <2> DEFINE S == LaneMembers(lanes[j])
             ids == plans[lanes[j]]
  <2>1. lanes[j] \in LanesIn(s)
    BY <1>1 DEF LanesIn, ToSet
  <2>2. IsListing(ids, S) /\ S \in SUBSET Ids
    BY <2>1 DEF Listed, LaneMembers
  <2>3. MinNodeGap \in Nat
    BY DEF MinNodeGap
  <2> HIDE DEF S, ids
  <2>4. CASE S = {}
    <3>1. Cardinality({}) = 0
      BY FS_EmptySet
    <3>2. Len(ids) = 0 /\ ids \in [1..Len(ids) -> S]
      BY <2>2, <2>4, <3>1, ListingIs
    <3>3. ids = <<>>
      BY <3>2
    <3>4. LanePitch(ids) = 0
      BY <3>3 DEF LanePitch
    <3>5. QED
      BY <2>4, <3>4 DEF S, ids
  <2>5. CASE S # {}
    <3>1. Len(ids) > 0 /\ Band(ids) \in Nat
      BY <2>2, <2>5, ListingIs, BandIs
    <3>2. ids # <<>>
      BY <3>1
    <3>3. LanePitch(ids) = Band(ids) + MinNodeGap
      BY <3>2 DEF LanePitch
    <3>4. QED
      BY <2>3, <3>1, <3>3 DEF ids
  <2>6. QED
    BY <2>4, <2>5
<1>4. f \in [1..N -> Nat] /\ \A j \in 1..N : f[j] = LanePitch(plans[lanes[j]])
  BY <1>1, <1>3
<1> HIDE DEF f, N
<1>5. /\ Sums(f) \in [0..N -> Nat]
      /\ \A k \in 1..N : Sums(f)[k] = Sums(f)[k-1] + f[k]
      /\ \A i, j \in 0..N : i <= j => Sums(f)[i] <= Sums(f)[j]
  BY <1>1, <1>4, NaturalSums, SumsGrow
<1>6. \A i \in 1..N : i - 1 \in 0..N /\ i \in 0..N
  BY <1>1
<1>7. \A i \in 1..N : LaneTop(s, i, plans) \in Int
  BY <1>2, <1>5, <1>6
<1>8. ASSUME NEW i \in 1..N, NEW j \in 1..N, i < j, LaneMembers(lanes[i]) # {}
      PROVE  LaneTop(s, j, plans) >= LaneTop(s, i, plans) + Band(plans[lanes[i]]) + MinNodeGap
  <2>1. Sums(f)[i] <= Sums(f)[j-1]
    <3>1. i <= j - 1
      BY <1>1, <1>8
    <3>2. QED
      BY <1>5, <1>6, <3>1
  <2>2. Sums(f)[i] = Sums(f)[i-1] + f[i] /\ f[i] = Band(plans[lanes[i]]) + MinNodeGap
    BY <1>3, <1>4, <1>5, <1>8
  <2>3. PICK u \in Nat, v \in Nat, w \in Nat, x \in Nat :
            u = Sums(f)[i-1] /\ v = Sums(f)[i] /\ w = Sums(f)[j-1] /\ x = f[i]
    BY <1>4, <1>5, <1>6
  <2>4. 640 + w >= 640 + u + x
    BY <2>1, <2>2, <2>3
  <2>5. PICK b \in Nat : b = Band(plans[lanes[i]])
    BY <1>3, <1>8
  <2>6. x = b + MinNodeGap /\ MinNodeGap \in Nat
    BY <2>2, <2>3, <2>5 DEF MinNodeGap
  <2>7. 640 + w >= 640 + u + b + MinNodeGap
    BY <2>4, <2>6
  <2>8. QED
    BY <1>2, <2>3, <2>5, <2>7
<1>9. QED
  BY <1>7, <1>8 DEF N

(* Where a node goes, given the lists.                                     *)
LEMMA SpotIs ==
    ASSUME SlotAssumption, Laid, NEW s \in Slots, NEW plans, Listed(s, plans),
           NEW n \in Ids, LaneOf(n) \in LanesIn(s)
    PROVE  LET ids == plans[LaneOf(n)]
               k == Position(ids, n)
               top == LaneTop(s, StackIndex(LaneOf(n)), plans)
           IN  /\ IsListing(ids, LaneMembers(LaneOf(n)))
               /\ LaneMembers(LaneOf(n)) \in SUBSET Ids /\ n \in LaneMembers(LaneOf(n))
               /\ k \in 1..Len(ids) /\ ids[k] = n /\ top \in Int
               /\ PlaceOf(n, s, plans) = InBand(ids, k, s, top)
               /\ PlaceOf(n, s, plans).x \in Int /\ PlaceOf(n, s, plans).y \in Int
<1> DEFINE ids == plans[LaneOf(n)]
           S == LaneMembers(LaneOf(n))
           k == Position(ids, n)
           top == LaneTop(s, StackIndex(LaneOf(n)), plans)
<1>1. IsListing(ids, S) /\ S \in SUBSET Ids /\ n \in S
  BY DEF Listed, LaneMembers
<1>2. k \in 1..Len(ids) /\ ids[k] = n
  <2> HIDE DEF ids, S
  <2>1. QED
    BY <1>1, ListingIs
<1>3. top \in Int
  <2>1. StackIndex(LaneOf(n)) \in 1..Len(editor.slots[s])
    BY LanesAre
  <2>2. QED
    BY <2>1, LaneTopsAre
<1>4. PlaceOf(n, s, plans) = InBand(ids, k, s, top)
  BY DEF PlaceOf
<1> HIDE DEF ids, S, k, top
<1>5. InBand(ids, k, s, top).x \in Int /\ InBand(ids, k, s, top).y \in Int
  <2>1. S # {}
    BY <1>1
  <2>2. QED
    BY <1>1, <1>2, <1>3, <2>1, InBandIs
<1>6. QED
  BY <1>1, <1>2, <1>3, <1>4, <1>5 DEF ids, S, k, top

(* The order of a lane lists its nodes.                                    *)
LEMMA OrderedIs ==
    ASSUME SlotAssumption, SlotInv, NEW lane, NEW s
    PROVE  IsListing(Ordered(lane, s), LaneMembers(lane))
<1> DEFINE S == LaneMembers(lane)
           mean == [n \in S |-> Barycentre(n, s)]
<1>1. IsLayoutGraph(graph) /\ S \in SUBSET IdsOf(graph)
  BY InputIs DEF SlotInv, LaneMembers, Ids
<1>2. mean \in [S -> Int \X Nat]
  <2>1. \A p \in Placed : pos[p].y \in Int
    BY DEF SlotInv
  <2>2. \A n : Barycentre(n, s) \in Int \X Nat
    BY <1>1, <2>1, MeanIs DEF Barycentre
  <2>3. QED
    BY <2>2
<1>3. Ordered(lane, s) = InOrder(graph, S, mean)
  BY DEF Ordered
<1> HIDE DEF S, mean
<1>4. IsListing(InOrder(graph, S, mean), S)
  BY <1>1, <1>2, InOrderIs
<1>5. QED
  BY <1>3, <1>4 DEF S

(* Nothing is placed at first.                                             *)
LEMMA SlotStarts ==
    ASSUME SlotAssumption, SlotInit
    PROVE  SlotInv
<1>1. graph \in Graphs /\ editor \in Editors /\ slot = 1 /\ rows = <<>> /\ pos = <<>> /\ Laid
  BY DEF SlotInit, Laid
<1>2. Placed = {}
  BY <1>1 DEF Placed
<1>3. Len(editor.slots) \in Nat /\ Slots = 1..Len(editor.slots)
  BY <1>1, LanesAre
<1>4. slot \in 1..(Len(editor.slots) + 2) /\ ~Swept
  BY <1>1, <1>3 DEF Swept
<1>5. SlotsPlaced
  <2>1. \A s \in Slots : ~(s < slot)
    BY <1>1, <1>3
  <2>2. \A x : x \notin 1..(slot - 1)
    BY <1>1
  <2>3. QED
    BY <1>2, <2>1, <2>2 DEF SlotsPlaced
<1>6. QED
  BY <1>1, <1>2, <1>4, <1>5 DEF SlotInv, RestPlaced

(* A slot that is placed leaves those before it where they are.            *)
LEMMA SlotKeeps ==
    ASSUME SlotAssumption, SlotInv, PlaceSlot
    PROVE  SlotInv'
<1> DEFINE lists == [lane \in LanesIn(slot) |-> Ordered(lane, slot)]
           spots == [n \in SlotMembers(slot) |-> PlaceOf(n, slot, rows')]
<1>1. /\ slot \in Slots /\ slot' = slot + 1
      /\ rows' = Merged(lists, rows) /\ pos' = Merged(spots, pos)
      /\ UNCHANGED <<graph, editor, resolution>>
  BY DEF PlaceSlot
<1>2. /\ Laid /\ SlotsPlaced /\ Placed \subseteq Ids
      /\ \A n \in Placed : pos[n].x \in Int /\ pos[n].y \in Int
  BY DEF SlotInv
<1>3. /\ Len(editor.slots) \in Nat /\ Slots = 1..Len(editor.slots)
      /\ \A lane : SlotOf(lane) # 0 => SlotOf(lane) \in Slots /\ lane \in LanesIn(SlotOf(lane))
      /\ \A s \in Slots : \A lane \in LanesIn(s) : SlotOf(lane) = s
  BY <1>2, LanesAre
<1>4. slot \in Nat /\ slot >= 1 /\ slot <= Len(editor.slots)
  BY <1>1, <1>3
<1>5. /\ Ids' = Ids /\ Slots' = Slots
      /\ \A s : LanesIn(s)' = LanesIn(s)
      /\ \A lane : SlotOf(lane)' = SlotOf(lane) /\ LaneMembers(lane)' = LaneMembers(lane)
      /\ \A n : LaneOf(n)' = LaneOf(n)
      /\ \A n, s, plans : PlaceOf(n, s, plans)' = PlaceOf(n, s, plans)
  BY <1>1, SameInput
<1>6. /\ DOMAIN rows' = LanesIn(slot) \cup DOMAIN rows
      /\ \A lane \in LanesIn(slot) : rows'[lane] = Ordered(lane, slot)
      /\ \A lane \in DOMAIN rows : lane \notin LanesIn(slot) => rows'[lane] = rows[lane]
  BY <1>1 DEF Merged
<1>7. /\ Placed' = SlotMembers(slot) \cup Placed
      /\ \A n \in SlotMembers(slot) : pos'[n] = PlaceOf(n, slot, rows')
      /\ \A n \in Placed : n \notin SlotMembers(slot) => pos'[n] = pos[n]
  BY <1>1 DEF Merged, Placed
<1> HIDE DEF lists, spots
<1>8. \A n \in Ids : n \in SlotMembers(slot) <=> SlotOf(LaneOf(n)) = slot
  BY DEF SlotMembers
<1>9. SlotMembers(slot) \subseteq Ids
  BY DEF SlotMembers
<1>10. Listed(slot, rows')
  BY <1>6, OrderedIs DEF Listed
<1>11. ASSUME NEW s \in Slots, s < slot
       PROVE  /\ LanesIn(s) \subseteq DOMAIN rows' /\ Listed(s, rows')
              /\ \A lane \in LanesIn(s) : rows'[lane] = rows[lane]
  <2>1. LanesIn(s) \subseteq DOMAIN rows /\ Listed(s, rows)
    BY <1>2, <1>11 DEF SlotsPlaced
  <2>2. \A lane \in LanesIn(s) : lane \notin LanesIn(slot)
    BY <1>1, <1>3, <1>4, <1>11
  <2>3. \A lane \in LanesIn(s) : rows'[lane] = rows[lane]
    BY <1>6, <2>1, <2>2
  <2>4. QED
    BY <1>6, <2>1, <2>3 DEF Listed
<1>12. \A n \in SlotMembers(slot) : LaneOf(n) \in LanesIn(slot) /\ n \in Ids /\ SlotOf(LaneOf(n)) = slot
  <2>1. slot # 0
    BY <1>4
  <2>2. QED
    BY <1>3, <1>8, <1>9, <2>1
<1>13. \A n \in SlotMembers(slot) : pos'[n].x \in Int /\ pos'[n].y \in Int
  BY <1>1, <1>2, <1>7, <1>10, <1>12, SpotIs
<1>14. \A n \in Placed' : pos'[n].x \in Int /\ pos'[n].y \in Int
  <2> SUFFICES ASSUME NEW n \in Placed' PROVE pos'[n].x \in Int /\ pos'[n].y \in Int
    OBVIOUS
  <2>1. CASE n \in SlotMembers(slot)
    BY <1>13, <2>1
  <2>2. CASE n \notin SlotMembers(slot)
    BY <1>2, <1>7, <2>2
  <2>3. QED
    BY <2>1, <2>2
<1>15. SlotsPlaced'
  <2>1. ASSUME NEW s \in Slots, s < slot + 1
        PROVE  LanesIn(s) \subseteq DOMAIN rows' /\ Listed(s, rows')
    <3>1. s = slot \/ s < slot
      BY <1>3, <1>4, <2>1
    <3>2. QED
      BY <1>6, <1>10, <1>11, <3>1
  <2>2. ASSUME NEW n \in Ids, SlotOf(LaneOf(n)) \in 1..((slot + 1) - 1)
        PROVE  n \in Placed' /\ pos'[n] = PlaceOf(n, SlotOf(LaneOf(n)), rows')
    <3> DEFINE s == SlotOf(LaneOf(n))
    <3>1. s = slot \/ s \in 1..(slot - 1)
      BY <1>4, <2>2
    <3>2. CASE s = slot
      BY <1>7, <1>8, <3>2
    <3>3. CASE s \in 1..(slot - 1)
      <4>1. s \in Slots /\ s < slot /\ s # slot /\ LaneOf(n) \in LanesIn(s)
        BY <1>3, <1>4, <3>3
      <4>2. n \in Placed /\ pos[n] = PlaceOf(n, s, rows) /\ n \notin SlotMembers(slot)
        BY <1>2, <1>8, <3>3, <4>1 DEF SlotsPlaced
      <4>3. \A lane \in LanesIn(s) : rows'[lane] = rows[lane]
        BY <1>11, <4>1
      <4> HIDE DEF s
      <4>4. PlaceOf(n, s, rows') = PlaceOf(n, s, rows)
        BY <1>2, <4>1, <4>3, SamePlans
      <4>5. QED
        BY <1>7, <4>2, <4>4 DEF s
    <3>4. QED
      BY <3>1, <3>2, <3>3
  <2>3. \A n \in Placed' : SlotOf(LaneOf(n)) \in 1..((slot + 1) - 1)
    <3> SUFFICES ASSUME NEW n \in Placed' PROVE SlotOf(LaneOf(n)) \in 1..((slot + 1) - 1)
      OBVIOUS
    <3>1. CASE n \in SlotMembers(slot)
      BY <1>4, <1>12, <3>1
    <3>2. CASE n \in Placed
      <4>1. SlotOf(LaneOf(n)) \in 1..(slot - 1)
        BY <1>2, <1>4, <3>2 DEF SlotsPlaced
      <4>2. QED
        BY <1>4, <4>1
    <3>3. QED
      BY <1>7, <3>1, <3>2
  <2>4. /\ \A s : Listed(s, rows)' = Listed(s, rows')
        /\ \A n : SlotOf(LaneOf(n))' = SlotOf(LaneOf(n))
    BY <1>5 DEF Listed
  <2>5. \A n : PlaceOf(n, SlotOf(LaneOf(n)), rows)' = PlaceOf(n, SlotOf(LaneOf(n)), rows')
    BY <1>5, <2>4
  <2>6. QED
    BY <1>1, <1>5, <2>1, <2>2, <2>3, <2>4, <2>5 DEF SlotsPlaced
<1>16. ~Swept'
  <2>1. slot' # Len(editor.slots) + 2
    BY <1>1, <1>3, <1>4
  <2>2. QED
    BY <1>1, <2>1 DEF Swept
<1>17. Laid'
  BY <1>1, <1>2, LaidStays
<1>18. slot' \in 1..(Len(editor.slots) + 2) /\ editor' = editor
  BY <1>1, <1>3, <1>4
<1>19. QED
  BY <1>2, <1>5, <1>7, <1>9, <1>14, <1>15, <1>16, <1>17, <1>18 DEF SlotInv, RestPlaced

(* The grid of what has no slot goes below all that has.                   *)
LEMMA DeadKeeps ==
    ASSUME SlotAssumption, SlotInv, PlaceDead
    PROVE  SlotInv'
<1> DEFINE S == SlotMembers(0)
           xs == {pos[n].x : n \in Placed}
           ys == {pos[n].y : n \in Placed}
           left == IF Placed = {} THEN TopPadding ELSE Min(xs)
           top == (IF Placed = {} THEN TopPadding ELSE Max(ys)) + DeadDy
           gap == Max({Px(60), (MinNodeGap * 6) \div 10})
           grid == InGrid(graph, S, left, top, gap)
<1>1. /\ slot = Len(editor.slots) + 1 /\ slot' = slot + 1
      /\ pos' = Merged(grid, pos)
      /\ UNCHANGED <<graph, editor, resolution, rows>>
  BY DEF PlaceDead
<1>2. /\ Laid /\ SlotsPlaced /\ Placed \subseteq Ids
      /\ \A n \in Placed : pos[n].x \in Int /\ pos[n].y \in Int
      /\ IsLayoutGraph(graph) /\ IsFiniteSet(Ids)
  BY InputIs DEF SlotInv
<1>3. /\ Len(editor.slots) \in Nat /\ Slots = 1..Len(editor.slots)
      /\ \A lane : SlotOf(lane) # 0 => SlotOf(lane) \in Slots
  BY <1>2, LanesAre
<1>4. /\ Ids' = Ids /\ Slots' = Slots
      /\ \A s : LanesIn(s)' = LanesIn(s)
      /\ \A lane : SlotOf(lane)' = SlotOf(lane) /\ LaneMembers(lane)' = LaneMembers(lane)
      /\ \A n : LaneOf(n)' = LaneOf(n)
      /\ \A n, s, plans : PlaceOf(n, s, plans)' = PlaceOf(n, s, plans)
  BY <1>1, SameInput
<1>5. \A n \in Ids : n \in Placed <=> SlotOf(LaneOf(n)) # 0
  <2> SUFFICES ASSUME NEW n \in Ids PROVE n \in Placed <=> SlotOf(LaneOf(n)) # 0
    OBVIOUS
  <2>1. CASE n \in Placed
    BY <1>1, <1>2, <1>3, <2>1 DEF SlotsPlaced
  <2>2. CASE SlotOf(LaneOf(n)) # 0
    <3>1. SlotOf(LaneOf(n)) \in 1..(slot - 1)
      BY <1>1, <1>3, <2>2
    <3>2. QED
      BY <1>2, <2>2, <3>1 DEF SlotsPlaced
  <2>3. QED
    BY <2>1, <2>2
<1>6. \A n \in Ids : n \in S <=> SlotOf(LaneOf(n)) = 0
  BY DEF SlotMembers
<1>7. S \subseteq Ids /\ S \in SUBSET IdsOf(graph)
  BY DEF SlotMembers, Ids
<1>8. gap = 528
  <2>1. Px(60) = 480 /\ (MinNodeGap * 6) \div 10 = 528
    BY DEF MinNodeGap
  <2>2. Max({480, 528}) = 528
    BY OfTwo
  <2>3. QED
    BY <2>1, <2>2
<1>9. DeadDy = 1920 /\ TopPadding = 640
  BY DEF DeadDy, TopPadding
<1>10. left \in Int /\ top \in Int /\ \A m \in Placed : pos[m].y + DeadDy <= top
  <2>1. CASE Placed = {}
    BY <1>9, <2>1
  <2>2. CASE Placed # {}
    <3> DEFINE fx == [n \in Placed |-> pos[n].x]
               fy == [n \in Placed |-> pos[n].y]
    <3>1. IsFiniteSet(Placed)
      BY <1>2, FS_Subset
    <3>2. /\ xs = {fx[n] : n \in Placed} /\ DOMAIN fx = Placed
          /\ ys = {fy[n] : n \in Placed} /\ DOMAIN fy = Placed
      OBVIOUS
    <3>3. /\ xs \in SUBSET Int /\ xs # {} /\ ys \in SUBSET Int /\ ys # {}
          /\ \A n \in Placed : pos[n].y \in ys
      BY <1>2, <2>2
    <3>4. left = Min(xs) /\ top = Max(ys) + DeadDy
      BY <2>2
    <3> HIDE DEF fx, fy, xs, ys, left, top
    <3>5. IsFiniteSet({fx[n] : n \in Placed}) /\ IsFiniteSet({fy[n] : n \in Placed})
      BY <3>1, <3>2, ImagesAreFinite
    <3>6. IsFiniteSet(xs) /\ IsFiniteSet(ys)
      BY <3>2, <3>5
    <3>7. /\ Min(xs) \in xs /\ Max(ys) \in ys /\ \A y \in ys : y <= Max(ys)
      BY <3>3, <3>6, NumbersAreOrdered
    <3>8. PICK b \in Int : b = Max(ys)
      BY <3>3, <3>7
    <3>9. top = b + 1920 /\ left \in Int
      <4>1. Min(xs) \in Int
        BY <3>3, <3>7
      <4>2. top = b + 1920
        BY <1>9, <3>4, <3>8
      <4>3. QED
        BY <3>4, <4>1, <4>2
    <3>10. \A m \in Placed : pos[m].y <= b /\ pos[m].y \in Int
      BY <1>2, <3>3, <3>7, <3>8
    <3>11. QED
      BY <1>9, <3>9, <3>10
  <2>3. QED
    BY <2>1, <2>2
<1> HIDE DEF left, top, gap, S
<1>11. /\ DOMAIN grid = S
       /\ \A n \in S : grid[n].x \in Int /\ grid[n].y \in Int /\ grid[n].y >= top
  <2>1. IsLayoutGraph(graph) /\ S \in SUBSET IdsOf(graph)
    BY <1>2, <1>7
  <2>2. left \in Int /\ top \in Int /\ gap \in Nat
    BY <1>8, <1>10
  <2>3. /\ DOMAIN InGrid(graph, S, left, top, gap) = S
        /\ \A n \in S : /\ InGrid(graph, S, left, top, gap)[n].x \in Int
                        /\ InGrid(graph, S, left, top, gap)[n].y \in Int
                        /\ InGrid(graph, S, left, top, gap)[n].y >= top
    BY <2>1, <2>2, GridIs
  <2>4. QED
    BY <2>3
<1> HIDE DEF grid
<1>12. /\ Placed' = S \cup Placed
       /\ \A n \in S : pos'[n] = grid[n]
       /\ \A n \in Placed : n \notin S => pos'[n] = pos[n]
  BY <1>1, <1>11 DEF Merged, Placed
<1>13. Placed' = Ids
  BY <1>2, <1>5, <1>6, <1>7, <1>12
<1>14. \A n \in Placed : n \notin S /\ pos'[n] = pos[n]
  BY <1>2, <1>5, <1>6, <1>12
<1>15. \A n \in Ids : pos'[n].x \in Int /\ pos'[n].y \in Int
  <2> SUFFICES ASSUME NEW n \in Ids PROVE pos'[n].x \in Int /\ pos'[n].y \in Int
    OBVIOUS
  <2>1. CASE n \in S
    BY <1>11, <1>12, <2>1
  <2>2. CASE n \in Placed
    BY <1>2, <1>14, <2>2
  <2>3. QED
    BY <1>5, <1>6, <2>1, <2>2
<1>16. ASSUME NEW n \in Ids, NEW m \in Ids, SlotOf(LaneOf(n)) = 0, SlotOf(LaneOf(m)) # 0
       PROVE  pos'[n].y >= pos'[m].y + DeadDy
  <2>1. n \in S /\ m \in Placed
    BY <1>5, <1>6, <1>16
  <2>2. PICK u \in Int, v \in Int : u = pos'[n].y /\ v = pos'[m].y
    BY <1>15
  <2>3. u >= top /\ v + DeadDy <= top
    BY <1>10, <1>11, <1>12, <1>14, <2>1, <2>2
  <2>4. QED
    BY <1>9, <1>10, <2>2, <2>3
<1>17. SlotsPlaced'
  <2>1. \A s \in Slots : s < slot
    BY <1>1, <1>3
  <2>2. ASSUME NEW s \in Slots PROVE LanesIn(s) \subseteq DOMAIN rows /\ Listed(s, rows)
    BY <1>2, <2>1 DEF SlotsPlaced
  <2>3. ASSUME NEW n \in Ids, SlotOf(LaneOf(n)) \in 1..((slot + 1) - 1)
        PROVE  n \in Placed' /\ pos'[n] = PlaceOf(n, SlotOf(LaneOf(n)), rows)
    <3>1. SlotOf(LaneOf(n)) # 0
      BY <2>3
    <3>2. SlotOf(LaneOf(n)) \in 1..(slot - 1)
      BY <1>1, <1>3, <3>1
    <3>3. pos[n] = PlaceOf(n, SlotOf(LaneOf(n)), rows) /\ n \in Placed
      BY <1>2, <3>2 DEF SlotsPlaced
    <3>4. QED
      BY <1>13, <1>14, <3>3
  <2>4. /\ \A s : Listed(s, rows)' = Listed(s, rows)
        /\ \A n : SlotOf(LaneOf(n))' = SlotOf(LaneOf(n))
    BY <1>1, <1>4 DEF Listed
  <2>5. \A n : PlaceOf(n, SlotOf(LaneOf(n)), rows)' = PlaceOf(n, SlotOf(LaneOf(n)), rows)
    BY <1>1, <1>4, <2>4
  <2>6. ~(slot' <= Len(editor'.slots) + 1)
    BY <1>1, <1>3
  <2>7. QED
    BY <1>1, <1>4, <2>2, <2>3, <2>4, <2>5, <2>6 DEF SlotsPlaced
<1>18. RestPlaced'
  BY <1>4, <1>13, <1>16 DEF RestPlaced, DeadDy
<1>19. Laid'
  BY <1>1, <1>2, LaidStays
<1>20. slot' \in 1..(Len(editor.slots) + 2) /\ editor' = editor
  BY <1>1, <1>3
<1>21. QED
  BY <1>4, <1>13, <1>15, <1>17, <1>18, <1>19, <1>20 DEF SlotInv

(* Without a step of the slots nothing moves.                              *)
LEMMA SlotsStay ==
    ASSUME SlotInv, UNCHANGED canvas
    PROVE  SlotInv'
<1>1. UNCHANGED <<graph, editor, resolution>> /\ slot' = slot /\ rows' = rows /\ pos' = pos
  BY DEF canvas
<1>2. /\ Ids' = Ids /\ Slots' = Slots
      /\ \A s : LanesIn(s)' = LanesIn(s)
      /\ \A lane : SlotOf(lane)' = SlotOf(lane) /\ LaneMembers(lane)' = LaneMembers(lane)
      /\ \A n : LaneOf(n)' = LaneOf(n)
      /\ \A n, s, plans : PlaceOf(n, s, plans)' = PlaceOf(n, s, plans)
  BY <1>1, SameInput
<1>3. Laid'
  BY <1>1, LaidStays DEF SlotInv
<1>4. Placed' = Placed /\ Swept' = Swept
  BY <1>1 DEF Placed, Swept
<1>5. /\ \A s : Listed(s, rows)' = Listed(s, rows)
      /\ \A n : SlotOf(LaneOf(n))' = SlotOf(LaneOf(n))
  BY <1>1, <1>2 DEF Listed
<1>6. \A n : PlaceOf(n, SlotOf(LaneOf(n)), rows)' = PlaceOf(n, SlotOf(LaneOf(n)), rows)
  BY <1>1, <1>2, <1>5
<1>7. SlotsPlaced'
  BY <1>1, <1>2, <1>4, <1>5, <1>6 DEF SlotInv, SlotsPlaced
<1>8. RestPlaced'
  BY <1>1, <1>2, <1>4, <1>5 DEF SlotInv, RestPlaced, DeadDy
<1>9. QED
  BY <1>1, <1>2, <1>3, <1>4, <1>7, <1>8 DEF SlotInv

----------------------------------------------------------------------------
(* What the invariant says of the places.                                  *)

(* A node that is placed stands where the list of its lane puts it.        *)
LEMMA NodeStands ==
    ASSUME SlotAssumption, SlotInv, NEW n \in Placed, SlotOf(LaneOf(n)) # 0
    PROVE  LET s == SlotOf(LaneOf(n))
               ids == rows[LaneOf(n)]
               k == Position(ids, n)
               top == LaneTop(s, StackIndex(LaneOf(n)), rows)
           IN  /\ s \in Slots /\ LaneOf(n) \in LanesIn(s) /\ Listed(s, rows) /\ n \in Ids
               /\ IsListing(ids, LaneMembers(LaneOf(n)))
               /\ LaneMembers(LaneOf(n)) \in SUBSET Ids /\ n \in LaneMembers(LaneOf(n))
               /\ k \in 1..Len(ids) /\ ids[k] = n /\ top \in Int
               /\ pos[n] = InBand(ids, k, s, top)
               /\ pos[n].x \in Int /\ pos[n].y \in Int
<1> DEFINE s == SlotOf(LaneOf(n))
<1>1. Laid /\ SlotsPlaced /\ n \in Ids /\ pos[n].x \in Int /\ pos[n].y \in Int
  BY DEF SlotInv
<1>2. s \in Slots /\ LaneOf(n) \in LanesIn(s) /\ Slots = 1..Len(editor.slots) /\ Len(editor.slots) \in Nat
  BY <1>1, LanesAre
<1>3. slot \in 1..(Len(editor.slots) + 2)
  BY DEF SlotInv
<1>4. s \in 1..(slot - 1)
  <2>1. CASE slot <= Len(editor.slots) + 1
    BY <1>1, <2>1 DEF SlotsPlaced
  <2>2. CASE slot = Len(editor.slots) + 2
    <3> HIDE DEF s
    <3>1. QED
      BY <1>2, <2>2
  <2>3. QED
    BY <1>2, <1>3, <2>1, <2>2
<1>5. pos[n] = PlaceOf(n, s, rows)
  BY <1>1, <1>4 DEF SlotsPlaced
<1>6. Listed(s, rows)
  <2>1. s < slot
    BY <1>3, <1>4
  <2>2. QED
    BY <1>1, <1>2, <2>1 DEF SlotsPlaced
<1> HIDE DEF s
<1>7. LET ids == rows[LaneOf(n)]
          k == Position(ids, n)
          top == LaneTop(s, StackIndex(LaneOf(n)), rows)
      IN  /\ IsListing(ids, LaneMembers(LaneOf(n)))
          /\ LaneMembers(LaneOf(n)) \in SUBSET Ids /\ n \in LaneMembers(LaneOf(n))
          /\ k \in 1..Len(ids) /\ ids[k] = n /\ top \in Int
          /\ PlaceOf(n, s, rows) = InBand(ids, k, s, top)
  BY <1>1, <1>2, <1>6, SpotIs
<1>8. QED
  BY <1>1, <1>2, <1>5, <1>6, <1>7 DEF s

(* A node stands around the centre of its slot.                            *)
LEMMA AroundTheCentre ==
    ASSUME SlotAssumption, SlotInv, NEW n \in Placed, SlotOf(LaneOf(n)) # 0
    PROVE  LET s == SlotOf(LaneOf(n))
               spread == Spread(LaneOf(n))
           IN  /\ spread \in 0..(SlotWidth(s) - IntraSlotPadding)
               /\ SlotCentre(s) \in Int /\ SlotWidth(s) \in Nat /\ SlotWidth(s) % 8 = 0
               /\ graph.width[n] + IntraSlotPadding <= SlotWidth(s)
               /\ graph.width[n] \in Nat /\ graph.width[n] % 8 = 0
               /\ 2 * (pos[n].x - SlotCentre(s)) \in (-spread)..(spread + 1)
<1> DEFINE s == SlotOf(LaneOf(n))
           ids == rows[LaneOf(n)]
           S == LaneMembers(LaneOf(n))
           k == Position(ids, n)
           top == LaneTop(s, StackIndex(LaneOf(n)), rows)
           spread == (ColumnCount(ids) - 1) * StepX(s, ColumnCount(ids))
<1>1. Laid
  BY DEF SlotInv
<1>2. /\ s \in Slots /\ LaneOf(n) \in LanesIn(s) /\ n \in Ids
      /\ IsListing(ids, S) /\ S \in SUBSET Ids /\ n \in S
      /\ k \in 1..Len(ids) /\ top \in Int /\ pos[n] = InBand(ids, k, s, top)
  BY NodeStands
<1>3. Spread(LaneOf(n)) = spread
  BY DEF Spread
<1> HIDE DEF s, ids, S, k, top
<1>4. /\ spread \in 0..(SlotWidth(s) - IntraSlotPadding)
      /\ 2 * (InBand(ids, k, s, top).x - SlotCentre(s)) \in (-spread)..(spread + 1)
  <2>1. S # {}
    BY <1>2
  <2>2. QED
    BY <1>1, <1>2, <2>1, InBandIs
<1>5. /\ SlotWidth(s) \in Nat /\ SlotWidth(s) % 8 = 0 /\ SlotCentre(s) \in Int
      /\ graph.width[n] + IntraSlotPadding <= SlotWidth(s)
  BY <1>1, <1>2, WidthsAre, CentresAre
<1>6. graph.width[n] \in Nat /\ graph.width[n] % 8 = 0
  BY <1>1, <1>2, InputIs
<1>7. QED
  BY <1>2, <1>3, <1>4, <1>5, <1>6 DEF s

(* The invariant says where a node belongs.                                *)
LEMMA InvGivesPlaces ==
    ASSUME SlotAssumption, SlotInv
    PROVE  PlacedWhereItBelongs
<1> SUFFICES ASSUME Swept PROVE Placed = Ids /\
        \A n \in Ids : LET s == SlotOf(PromisedLane(n))
                           room == SlotWidth(s) - IntraSlotPadding
                       IN  IF s # 0 THEN 2 * (pos[n].x - SlotCentre(s)) \in (-room)..room
                           ELSE \A m \in Ids : SlotOf(PromisedLane(m)) # 0 =>
                                                    pos[n].y >= pos[m].y + DeadDy
  BY DEF PlacedWhereItBelongs
<1>1. Laid /\ Placed = Ids
  BY DEF SlotInv, RestPlaced
<1>2. \A n \in Ids : PromisedLane(n) = LaneOf(n)
  BY <1>1, ResolvedAsPromised DEF Laid, LaneOf
<1>3. ASSUME NEW n \in Ids, SlotOf(LaneOf(n)) # 0
      PROVE  LET s == SlotOf(LaneOf(n))
                 room == SlotWidth(s) - IntraSlotPadding
             IN  2 * (pos[n].x - SlotCentre(s)) \in (-room)..room
  <2> DEFINE s == SlotOf(LaneOf(n))
  <2>1. /\ Spread(LaneOf(n)) \in 0..(SlotWidth(s) - IntraSlotPadding)
        /\ SlotCentre(s) \in Int /\ SlotWidth(s) \in Nat /\ SlotWidth(s) % 8 = 0
        /\ 2 * (pos[n].x - SlotCentre(s)) \in (-Spread(LaneOf(n)))..(Spread(LaneOf(n)) + 1)
        /\ pos[n].x \in Int
    BY <1>1, <1>3, AroundTheCentre, NodeStands
  <2> HIDE DEF s
  <2>2. PICK w \in Nat, p \in Nat, c \in Int, x \in Int :
            w = SlotWidth(s) /\ p = Spread(LaneOf(n)) /\ c = SlotCentre(s) /\ x = pos[n].x
    BY <2>1
  <2>3. /\ p \in 0..(w - 640) /\ w % 8 = 0 /\ 2 * (x - c) \in (-p)..(p + 1)
    BY <2>1, <2>2 DEF IntraSlotPadding
  <2>4. 2 * (x - c) \in (-(w - 640))..(w - 640)
    BY <2>3
  <2>5. QED
    BY <2>2, <2>4 DEF s, IntraSlotPadding
<1>4. ASSUME NEW n \in Ids, NEW m \in Ids, SlotOf(LaneOf(n)) = 0, SlotOf(LaneOf(m)) # 0
      PROVE  pos[n].y >= pos[m].y + DeadDy
  BY <1>4 DEF SlotInv, RestPlaced
<1>5. QED
  BY <1>1, <1>2, <1>3, <1>4

(* Above one another in a sub-column.                                      *)
LEMMA ColumnApart ==
    ASSUME SlotAssumption, SlotInv, NEW a \in Placed, NEW b \in Placed,
           SlotOf(LaneOf(a)) # 0, a # b, LaneOf(a) = LaneOf(b), SubColumn(a) = SubColumn(b)
    PROVE  Apart(a, b, pos[a].y - pos[b].y, graph.height)
<1> DEFINE s == SlotOf(LaneOf(a))
           ids == rows[LaneOf(a)]
           S == LaneMembers(LaneOf(a))
           k == Position(ids, a)
           l == Position(ids, b)
           top == LaneTop(s, StackIndex(LaneOf(a)), rows)
           size == BaseColumnSize(ids)
<1>1. Laid
  BY DEF SlotInv
<1>2. /\ s \in Slots /\ IsListing(ids, S) /\ S \in SUBSET Ids /\ a \in S
      /\ k \in 1..Len(ids) /\ ids[k] = a /\ top \in Int /\ pos[a] = InBand(ids, k, s, top)
      /\ pos[a].y \in Int
  BY NodeStands
<1>3. /\ l \in 1..Len(ids) /\ ids[l] = b /\ pos[b] = InBand(ids, l, s, top)
      /\ pos[b].y \in Int /\ b \in S
  BY NodeStands
<1>4. ColumnOf(k, size) = ColumnOf(l, size)
  BY DEF SubColumn
<1> HIDE DEF s, ids, S, k, l, top, size
<1>5. Len(ids) \in Nat /\ S # {}
  BY <1>2, ListingIs
<1>6. k < l \/ l < k
  BY <1>2, <1>3, <1>5
<1>7. \A i, j \in 1..Len(ids) :
          i < j /\ ColumnOf(i, size) = ColumnOf(j, size)
          => 2 * (InBand(ids, j, s, top).y - InBand(ids, i, s, top).y)
                >= graph.height[ids[i]] + graph.height[ids[j]]
  BY <1>1, <1>2, <1>5, InBandIs DEF size
<1>8. /\ k < l => 2 * (pos[b].y - pos[a].y) >= graph.height[a] + graph.height[b]
      /\ l < k => 2 * (pos[a].y - pos[b].y) >= graph.height[b] + graph.height[a]
  BY <1>2, <1>3, <1>4, <1>7
<1>9. PICK y \in Int, z \in Int, g \in Nat, h \in Nat :
          y = pos[a].y /\ z = pos[b].y /\ g = graph.height[a] /\ h = graph.height[b]
  BY <1>1, <1>2, <1>3, HeightsAre
<1>10. 2 * (y - z) >= g + h \/ -2 * (y - z) >= g + h
  BY <1>6, <1>8, <1>9
<1>11. QED
  BY <1>9, <1>10 DEF Apart

(* One lane above another.                                                 *)
LEMMA LaneAbove ==
    ASSUME SlotAssumption, SlotInv, NEW a \in Placed, NEW b \in Placed,
           SlotOf(LaneOf(a)) # 0, SlotOf(LaneOf(a)) = SlotOf(LaneOf(b)),
           StackIndex(LaneOf(a)) < StackIndex(LaneOf(b)), Level(LaneOf(a)), Level(LaneOf(b))
    PROVE  2 * (pos[b].y - pos[a].y) >= graph.height[a] + graph.height[b]
<1> DEFINE s == SlotOf(LaneOf(a))
           A == LaneMembers(LaneOf(a))
           B == LaneMembers(LaneOf(b))
           ia == rows[LaneOf(a)]
           ib == rows[LaneOf(b)]
           k == Position(ia, a)
           l == Position(ib, b)
           i == StackIndex(LaneOf(a))
           j == StackIndex(LaneOf(b))
           ta == LaneTop(s, i, rows)
           tb == LaneTop(s, j, rows)
<1>1. Laid
  BY DEF SlotInv
<1>2. /\ s \in Slots /\ LaneOf(a) \in LanesIn(s) /\ Listed(s, rows)
      /\ IsListing(ia, A) /\ A \in SUBSET Ids /\ a \in A
      /\ k \in 1..Len(ia) /\ ia[k] = a /\ ta \in Int /\ pos[a] = InBand(ia, k, s, ta)
      /\ pos[a].y \in Int
  BY NodeStands
<1>3. /\ LaneOf(b) \in LanesIn(s)
      /\ IsListing(ib, B) /\ B \in SUBSET Ids /\ b \in B
      /\ l \in 1..Len(ib) /\ ib[l] = b /\ tb \in Int /\ pos[b] = InBand(ib, l, s, tb)
      /\ pos[b].y \in Int
  BY NodeStands
<1>4. /\ \A x, y \in A : graph.height[x] - graph.height[y] <= 2 * (2 * MinNodeGap - NodeBuffer)
      /\ \A x, y \in B : graph.height[x] - graph.height[y] <= 2 * (2 * MinNodeGap - NodeBuffer)
  BY DEF Level
<1>5. /\ i \in 1..Len(editor.slots[s]) /\ j \in 1..Len(editor.slots[s])
      /\ editor.slots[s][i] = LaneOf(a)
  BY <1>1, <1>2, <1>3, LanesAre
<1>6. tb >= ta + Band(ia) + MinNodeGap
  <2>1. LaneMembers(editor.slots[s][i]) # {} /\ rows[editor.slots[s][i]] = ia
    BY <1>2, <1>5
  <2>2. i < j
    OBVIOUS
  <2> HIDE DEF s, A, B, ia, ib, i, j
  <2>3. LaneTop(s, j, rows) >= LaneTop(s, i, rows) + Band(rows[editor.slots[s][i]]) + MinNodeGap
    BY <1>1, <1>2, <1>5, <2>1, <2>2, LaneTopsAre
  <2>4. QED
    BY <2>1, <2>3
<1> HIDE DEF s, A, B, ia, ib, k, l, i, j, ta, tb
<1>7. A # {} /\ B # {}
  BY <1>2, <1>3
<1>8. 2 * pos[a].y + graph.height[a] <= 2 * (ta + Band(ia)) + MinNodeGap /\ Band(ia) \in Nat
  BY <1>1, <1>2, <1>4, <1>7, InBandIs, BandIs
<1>9. 2 * pos[b].y - graph.height[b] >= 2 * tb - MinNodeGap
  BY <1>1, <1>2, <1>3, <1>4, <1>7, InBandIs
<1>10. PICK y \in Int, z \in Int, g \in Nat, h \in Nat, d \in Nat :
          /\ y = pos[a].y /\ z = pos[b].y /\ g = graph.height[a] /\ h = graph.height[b]
          /\ d = Band(ia)
  BY <1>1, <1>2, <1>3, <1>8, HeightsAre
<1>11. /\ 2 * y + g <= 2 * (ta + d) + 880 /\ 2 * z - h >= 2 * tb - 880
       /\ tb >= ta + d + 880 /\ ta \in Int /\ tb \in Int
  BY <1>2, <1>3, <1>6, <1>8, <1>9, <1>10 DEF MinNodeGap
<1>12. 2 * (z - y) >= g + h
  BY <1>11
<1>13. QED
  BY <1>10, <1>12

(* One slot left of another.                                               *)
LEMMA SlotLeft ==
    ASSUME SlotAssumption, SlotInv, NEW a \in Placed, NEW b \in Placed,
           SlotOf(LaneOf(a)) # 0, SlotOf(LaneOf(b)) # 0,
           SlotOf(LaneOf(a)) < SlotOf(LaneOf(b)),
           Spread(LaneOf(a)) + Spread(LaneOf(b)) <= 2 * (IntraSlotPadding + InterSlotGap)
    PROVE  2 * (pos[b].x - pos[a].x) >= graph.width[a] + graph.width[b]
<1> DEFINE s == SlotOf(LaneOf(a))
           t == SlotOf(LaneOf(b))
<1>1. Laid
  BY DEF SlotInv
<1>2. s \in Slots /\ t \in Slots /\ LaneOf(a) \in LanesIn(s) /\ pos[a].x \in Int /\ pos[b].x \in Int
  BY NodeStands
<1>3. editor.slots[s] # <<>>
  BY <1>2 DEF LanesIn, ToSet
<1>4. 2 * (SlotCentre(t) - SlotCentre(s)) >= SlotWidth(s) + SlotWidth(t) + 2 * InterSlotGap
  <2>1. s < t
    OBVIOUS
  <2> HIDE DEF s, t
  <2>2. QED
    BY <1>1, <1>2, <1>3, <2>1, CentresAre
<1>5. /\ Spread(LaneOf(a)) \in 0..(SlotWidth(s) - IntraSlotPadding)
      /\ SlotCentre(s) \in Int /\ SlotWidth(s) \in Nat /\ SlotWidth(s) % 8 = 0
      /\ graph.width[a] + IntraSlotPadding <= SlotWidth(s)
      /\ graph.width[a] \in Nat /\ graph.width[a] % 8 = 0
      /\ 2 * (pos[a].x - SlotCentre(s)) \in (-Spread(LaneOf(a)))..(Spread(LaneOf(a)) + 1)
  BY AroundTheCentre
<1>6. /\ Spread(LaneOf(b)) \in 0..(SlotWidth(t) - IntraSlotPadding)
      /\ SlotCentre(t) \in Int /\ SlotWidth(t) \in Nat /\ SlotWidth(t) % 8 = 0
      /\ graph.width[b] + IntraSlotPadding <= SlotWidth(t)
      /\ graph.width[b] \in Nat /\ graph.width[b] % 8 = 0
      /\ 2 * (pos[b].x - SlotCentre(t)) \in (-Spread(LaneOf(b)))..(Spread(LaneOf(b)) + 1)
  BY AroundTheCentre
<1> HIDE DEF s, t
<1>7. /\ 2 * (pos[a].x - SlotCentre(s)) <= Spread(LaneOf(a)) + 1
      /\ 2 * (pos[b].x - SlotCentre(t)) >= -Spread(LaneOf(b))
      /\ Spread(LaneOf(a)) \in Nat /\ Spread(LaneOf(b)) \in Nat
  <2>1. /\ 2 * (pos[a].x - SlotCentre(s)) <= Spread(LaneOf(a)) + 1
        /\ Spread(LaneOf(a)) \in Nat
    BY <1>5 DEF IntraSlotPadding
  <2>2. /\ 2 * (pos[b].x - SlotCentre(t)) >= -Spread(LaneOf(b))
        /\ Spread(LaneOf(b)) \in Nat
    BY <1>6 DEF IntraSlotPadding
  <2>3. QED
    BY <2>1, <2>2
<1>8. PICK p \in Nat, c \in Int, u \in Nat, w \in Nat, x \in Int :
          /\ p = Spread(LaneOf(a)) /\ c = SlotCentre(s) /\ u = SlotWidth(s)
          /\ w = graph.width[a] /\ x = pos[a].x
  <2>1. /\ Spread(LaneOf(a)) \in Nat /\ SlotCentre(s) \in Int /\ SlotWidth(s) \in Nat
        /\ graph.width[a] \in Nat /\ pos[a].x \in Int
    BY <1>2, <1>5, <1>7
  <2>2. QED
    BY <2>1
<1>9. PICK q \in Nat, d \in Int, v \in Nat, z \in Nat, y \in Int :
          /\ q = Spread(LaneOf(b)) /\ d = SlotCentre(t) /\ v = SlotWidth(t)
          /\ z = graph.width[b] /\ y = pos[b].x
  <2>1. /\ Spread(LaneOf(b)) \in Nat /\ SlotCentre(t) \in Int /\ SlotWidth(t) \in Nat
        /\ graph.width[b] \in Nat /\ pos[b].x \in Int
    BY <1>2, <1>6, <1>7
  <2>2. QED
    BY <2>1
<1>10. /\ w + 640 <= u /\ w % 8 = 0 /\ 2 * (x - c) <= p + 1
       /\ z + 640 <= v /\ z % 8 = 0 /\ 2 * (y - d) >= -q
  BY <1>5, <1>6, <1>7, <1>8, <1>9 DEF IntraSlotPadding
<1>11. p + q <= 3200 /\ 2 * (d - c) >= u + v + 1920
  BY <1>4, <1>8, <1>9 DEF IntraSlotPadding, InterSlotGap
<1>12. 2 * (y - x) >= w + z - 1
  BY <1>10, <1>11
<1>13. 2 * (y - x) >= w + z
  BY <1>10, <1>12
<1>14. QED
  BY <1>8, <1>9, <1>13

(* The invariant keeps boxes apart.                                        *)
LEMMA InvKeepsApart ==
    ASSUME SlotAssumption, SlotInv
    PROVE  BoxesApart
<1> SUFFICES ASSUME NEW a \in Placed, NEW b \in Placed,
                    SlotOf(LaneOf(a)) # 0, SlotOf(LaneOf(b)) # 0, a # b, KeptApart(a, b)
             PROVE  \/ Apart(a, b, pos[a].x - pos[b].x, graph.width)
                    \/ Apart(a, b, pos[a].y - pos[b].y, graph.height)
  BY DEF BoxesApart, BoxesMeet
<1> DEFINE s == SlotOf(LaneOf(a))
           t == SlotOf(LaneOf(b))
<1>1. Laid
  BY DEF SlotInv
<1>2. /\ s \in Slots /\ LaneOf(a) \in LanesIn(s) /\ a \in Ids
      /\ pos[a].x \in Int /\ pos[a].y \in Int
  BY NodeStands
<1>3. /\ t \in Slots /\ LaneOf(b) \in LanesIn(t) /\ b \in Ids
      /\ pos[b].x \in Int /\ pos[b].y \in Int
  BY NodeStands
<1>4. /\ graph.height[a] \in Nat /\ graph.height[b] \in Nat
      /\ graph.width[a] \in Nat /\ graph.width[b] \in Nat
  BY <1>1, <1>2, <1>3, HeightsAre, InputIs
<1>5. /\ 2 * (pos[b].x - pos[a].x) >= graph.width[a] + graph.width[b]
         => Apart(a, b, pos[a].x - pos[b].x, graph.width)
      /\ 2 * (pos[a].x - pos[b].x) >= graph.width[b] + graph.width[a]
         => Apart(a, b, pos[a].x - pos[b].x, graph.width)
  BY <1>2, <1>3, <1>4 DEF Apart
<1>6. /\ 2 * (pos[b].y - pos[a].y) >= graph.height[a] + graph.height[b]
         => Apart(a, b, pos[a].y - pos[b].y, graph.height)
      /\ 2 * (pos[a].y - pos[b].y) >= graph.height[b] + graph.height[a]
         => Apart(a, b, pos[a].y - pos[b].y, graph.height)
  BY <1>2, <1>3, <1>4 DEF Apart
<1>7. CASE LaneOf(a) = LaneOf(b) /\ SubColumn(a) = SubColumn(b)
  BY <1>7, ColumnApart
<1>8. CASE LaneOf(a) # LaneOf(b) /\ s = t /\ Level(LaneOf(a)) /\ Level(LaneOf(b))
  <2> DEFINE i == StackIndex(LaneOf(a))
             j == StackIndex(LaneOf(b))
  <2>1. /\ i \in 1..Len(editor.slots[s]) /\ editor.slots[s][i] = LaneOf(a)
        /\ j \in 1..Len(editor.slots[s]) /\ editor.slots[s][j] = LaneOf(b)
    BY <1>1, <1>2, <1>3, <1>8, LanesAre
  <2>2. i < j \/ j < i
    <3> HIDE DEF i, j, s, t
    <3>1. QED
      BY <1>8, <2>1
  <2>3. CASE i < j
    BY <1>6, <1>8, <2>3, LaneAbove
  <2>4. CASE j < i
    BY <1>6, <1>8, <2>4, LaneAbove
  <2>5. QED
    BY <2>2, <2>3, <2>4
<1>9. CASE s # t /\ Narrow(LaneOf(a), LaneOf(b))
  <2>1. Slots \subseteq Int
    BY <1>1, LanesAre
  <2>2. s < t \/ t < s
    <3> HIDE DEF s, t
    <3>1. QED
      BY <1>2, <1>3, <1>9, <2>1
  <2>3. CASE s < t
    <3>1. Spread(LaneOf(a)) + Spread(LaneOf(b)) <= 2 * (IntraSlotPadding + InterSlotGap)
      BY <1>9 DEF Narrow
    <3>2. QED
      BY <1>5, <2>3, <3>1, SlotLeft
  <2>4. CASE t < s
    <3>1. Spread(LaneOf(b)) + Spread(LaneOf(a)) <= 2 * (IntraSlotPadding + InterSlotGap)
      <4>1. /\ Spread(LaneOf(a)) \in 0..(SlotWidth(s) - IntraSlotPadding)
            /\ Spread(LaneOf(b)) \in 0..(SlotWidth(t) - IntraSlotPadding)
        BY AroundTheCentre
      <4>2. Spread(LaneOf(a)) \in Int /\ Spread(LaneOf(b)) \in Int
        BY <4>1
      <4>3. QED
        BY <1>9, <4>2 DEF Narrow
    <3>2. QED
      BY <1>5, <2>4, <3>1, SlotLeft
  <2>5. QED
    BY <2>2, <2>3, <2>4
<1>10. QED
  BY <1>7, <1>8, <1>9 DEF KeptApart

----------------------------------------------------------------------------
(* The members of a package: MemberLayout.                                 *)

(* How tall the members are.                                               *)
LEMMA HalvesAre ==
    ASSUME IsLayoutGraph(members), NEW n \in Members
    PROVE  Half(n) \in Fours /\ members.height[n] \in Nat /\ members.height[n] = 2 * Half(n)
<1>1. members.height[n] \in Nat /\ members.height[n] % 8 = 0
  BY DEF IsLayoutGraph, Members
<1>2. QED
  BY <1>1 DEF Half, Fours

(* The gap of two members has room for the halves of their boxes.          *)
LEMMA PairGapIs ==
    ASSUME IsLayoutGraph(members), NEW a \in Members, NEW b \in Members
    PROVE  MemberPairGap(a, b) \in Fours /\ MemberPairGap(a, b) >= Half(a) + Half(b) + MemberBuffer
<1>1. Half(a) \in Fours /\ Half(b) \in Fours
  BY HalvesAre
<1> DEFINE h == Half(a) + Half(b) + MemberBuffer
<1>2. h \in Fours /\ MemberGap \in Fours
  BY <1>1 DEF MemberBuffer, MemberGap, Fours
<1>3. MemberPairGap(a, b) = IF MemberGap >= h THEN MemberGap ELSE h
  <2>1. MemberGap \in Int /\ h \in Int
    BY <1>2 DEF Fours
  <2>2. MemberPairGap(a, b) = Max({MemberGap, h})
    BY DEF MemberPairGap
  <2> HIDE DEF h
  <2>3. QED
    BY <2>1, <2>2, OfTwo
<1> HIDE DEF h
<1>4. MemberPairGap(a, b) >= h
  BY <1>2, <1>3 DEF Fours
<1>5. QED
  BY <1>2, <1>3, <1>4 DEF h

(* How far down the members of a column stand.                             *)
LEMMA DropsAre ==
    ASSUME IsLayoutGraph(members), NEW S \in SUBSET Members, S # {}, NEW ids, IsListing(ids, S)
    PROVE  /\ \A k \in 1..Len(ids) : Drop(ids, k) \in Fours
           /\ \A k, l \in 1..Len(ids) : k <= l => Drop(ids, k) <= Drop(ids, l)
           /\ \A k, l \in 1..Len(ids) : k < l =>
                  Drop(ids, l) - Drop(ids, k) >= Half(ids[k]) + Half(ids[l]) + MemberBuffer
<1> DEFINE N == Len(ids)
           gap == [i \in 1..(N - 1) |-> MemberPairGap(ids[i], ids[i+1])]
           half == [i \in 1..N |-> Half(ids[i])]
<1>1. N \in Nat \ {0} /\ ids \in [1..N -> S]
  BY ListingIs
<1> HIDE DEF N
<1>2. \A i \in 1..(N-1) : /\ ids[i] \in Members /\ ids[i+1] \in Members
                          /\ i \in 1..N /\ i + 1 \in 1..N
  BY <1>1
<1>3. gap \in [1..(N-1) -> Fours]
  BY <1>2, PairGapIs
<1>4. half \in [1..N -> Nat]
  BY <1>1, HalvesAre DEF Fours
<1>5. \A i \in 1..(N-1) : gap[i] >= half[i] + half[i+1] + MemberBuffer
  BY <1>2, PairGapIs
<1>6. MemberBuffer \in Nat /\ N - 1 \in Nat /\ (N - 1) + 1 = N /\ Fours \subseteq Nat /\ Fours \in SUBSET Int
      /\ 0 \in Fours /\ \A a, b \in Fours : a + b \in Fours
  BY <1>1 DEF MemberBuffer, Fours
<1>7. \A k \in 1..N : Drop(ids, k) = Sums(gap)[k - 1]
  BY DEF Drop, N
<1>8. \A k \in 1..N : half[k] = Half(ids[k])
  OBVIOUS
<1> HIDE DEF gap, half
<1>9. Sums(gap) \in [0..(N-1) -> Fours]
  BY <1>3, <1>6, SumsAre
<1>10. \A k \in 1..N : k - 1 \in 0..(N-1)
  BY <1>1
<1>11. gap \in [1..(N-1) -> Nat]
  BY <1>3, <1>6
<1>12. \A i, j \in 0..(N-1) : i <= j => Sums(gap)[i] <= Sums(gap)[j]
  BY <1>6, <1>11, SumsGrow
<1>13. \A i, j \in 1..N :
            i < j => Sums(gap)[j-1] - Sums(gap)[i-1] >= half[i] + half[j] + MemberBuffer
  <2> DEFINE m == N - 1
  <2>1. m \in Nat /\ N = m + 1
    BY <1>6
  <2>2. half \in [1..(m+1) -> Nat] /\ gap \in [1..m -> Nat]
        /\ \A i \in 1..m : gap[i] >= half[i] + half[i+1] + MemberBuffer
    BY <1>4, <1>5, <1>11, <2>1
  <2> HIDE DEF m
  <2>3. QED
    BY <1>6, <2>1, <2>2, RoomForTwo
<1>14. \A k \in 1..N : Drop(ids, k) \in Fours
  BY <1>7, <1>9, <1>10
<1>15. \A k, l \in 1..N : k <= l => Drop(ids, k) <= Drop(ids, l)
  <2> SUFFICES ASSUME NEW k \in 1..N, NEW l \in 1..N, k <= l PROVE Drop(ids, k) <= Drop(ids, l)
    OBVIOUS
  <2>1. k - 1 <= l - 1
    BY <1>1
  <2>2. QED
    BY <1>7, <1>10, <1>12, <2>1
<1>16. QED
  BY <1>7, <1>8, <1>13, <1>14, <1>15 DEF N

(* The size of the canvas.                                                 *)
LEMMA UsableIs ==
    ASSUME IsLayoutGraph(members)
    PROVE  Usable \in Int /\ Usable % 8 = 0
<1>1. Len(members.nodes) \in Nat
  BY NodesAreFinite
<1> DEFINE h == Px(80 + 60 * Len(members.nodes))
<1>2. h \in Int /\ h % 8 = 0
  <2>1. \A l \in Nat : 8 * (80 + 60 * l) \in Int /\ (8 * (80 + 60 * l)) % 8 = 0
    OBVIOUS
  <2>2. QED
    BY <1>1, <2>1
<1>3. CanvasHeight = Max({4800, h})
  BY DEF CanvasHeight
<1> HIDE DEF h
<1>4. CanvasHeight = IF 4800 >= h THEN 4800 ELSE h
  BY <1>2, <1>3, OfTwo
<1>5. QED
  BY <1>2, <1>4 DEF Usable, Padding

(* A column begins at an even height: halves are whole.                    *)
LEMMA StartsEven ==
    ASSUME IsLayoutGraph(members), NEW S \in SUBSET Members, S # {}, NEW ids, IsListing(ids, S),
           NEW i \in 1..Len(ids), NEW j \in i..Len(ids)
    PROVE  ColumnStart(ids, i, j) \in Int /\ ColumnStart(ids, i, j) % 2 = 0
<1> DEFINE total == Drop(ids, j) - Drop(ids, i)
           middle == Padding + Usable \div 2
           topEdge == Padding + Half(ids[i])
           bottomEdge == Padding + Usable - Half(ids[j])
           free == middle - total \div 2
           centred == Max({free, topEdge})
<1>1. Len(ids) \in Nat /\ j \in 1..Len(ids) /\ ids[i] \in Members /\ ids[j] \in Members
  BY ListingIs
<1>2. total \in Int /\ total % 4 = 0
  <2>1. Drop(ids, j) \in Fours /\ Drop(ids, i) \in Fours
    BY <1>1, DropsAre
  <2>2. QED
    BY <2>1 DEF Fours
<1>3. middle \in Int /\ middle % 4 = 0
  BY UsableIs DEF Padding
<1>4. topEdge \in Int /\ topEdge % 4 = 0 /\ bottomEdge \in Int /\ bottomEdge % 4 = 0
  <2>1. Half(ids[i]) \in Fours /\ Half(ids[j]) \in Fours
    BY <1>1, HalvesAre
  <2>2. Usable \in Int /\ Usable % 4 = 0
    BY UsableIs
  <2>3. \A a \in Fours : Padding + a \in Int /\ (Padding + a) % 4 = 0
    BY DEF Fours, Padding
  <2>4. \A b \in Fours, u \in Int :
            u % 4 = 0 => Padding + u - b \in Int /\ (Padding + u - b) % 4 = 0
    BY DEF Fours, Padding
  <2>5. topEdge \in Int /\ topEdge % 4 = 0
    BY <2>1, <2>3
  <2>6. bottomEdge \in Int /\ bottomEdge % 4 = 0
    BY <2>1, <2>2, <2>4
  <2>7. QED
    BY <2>5, <2>6
<1>5. ColumnStart(ids, i, j) = IF centred + total > bottomEdge
                               THEN Max({topEdge, bottomEdge - total}) ELSE centred
  BY DEF ColumnStart
<1> HIDE DEF total, middle, topEdge, bottomEdge
<1>6. free \in Int /\ free % 2 = 0
  BY <1>2, <1>3
<1>7. centred \in Int /\ centred % 2 = 0
  <2> HIDE DEF free
  <2>1. centred = IF free >= topEdge THEN free ELSE topEdge
    BY <1>4, <1>6, OfTwo
  <2>2. QED
    BY <1>4, <1>6, <2>1
<1>8. Max({topEdge, bottomEdge - total}) \in Int /\ Max({topEdge, bottomEdge - total}) % 2 = 0
  <2>1. bottomEdge - total \in Int /\ (bottomEdge - total) % 4 = 0
    BY <1>2, <1>4
  <2>2. Max({topEdge, bottomEdge - total})
            = IF topEdge >= bottomEdge - total THEN topEdge ELSE bottomEdge - total
    BY <1>4, <2>1, OfTwo
  <2>3. QED
    BY <1>4, <2>1, <2>2
<1> HIDE DEF centred
<1>9. QED
  BY <1>5, <1>7, <1>8

(* Where the members of a layer stand.                                     *)
LEMMA LayerStands ==
    ASSUME MemberAssumption, IsLayoutGraph(members), NEW S \in SUBSET Members, S # {},
           NEW ids, IsListing(ids, S), xCursor \in Int, xCursor % 2 = 0
    PROVE  /\ NextCursor(ids) \in Int /\ NextCursor(ids) % 2 = 0
           /\ \A k \in 1..Len(ids) :
                  /\ PlacedMember(ids, k).x \in xCursor..(NextCursor(ids) - LayerGap)
                  /\ PlacedMember(ids, k).x % 2 = 0
                  /\ PlacedMember(ids, k).y \in Int
                  /\ PlacedMember(ids, k).y % 2 = 0
           /\ \A k, l \in 1..Len(ids) :
                  k < l /\ PlacedMember(ids, k).x = PlacedMember(ids, l).x
                  => PlacedMember(ids, l).y - PlacedMember(ids, k).y
                         >= Half(ids[k]) + Half(ids[l]) + MemberBuffer
<1> DEFINE N == Len(ids)
           size == ColumnSize(ids)
           count == ColumnsOf(ids)
           col(k) == ColumnOf(k, size)
           top(k) == TopRow(k, size)
           bottom(k) == BottomRow(ids, k, size)
<1>1. N \in Nat \ {0}
  BY ListingIs
<1>2. count \in 1..N
  <2>1. CeilDiv(N, MaxMembersPerColumn) \in 1..N
    <3>1. N \in Nat /\ N > 0 /\ MaxMembersPerColumn \in Nat \ {0}
      BY <1>1 DEF MemberAssumption
    <3> HIDE DEF N
    <3>2. QED
      BY <3>1, CeilDivIs
  <2> HIDE DEF N
  <2>2. 1 <= CeilDiv(N, MaxMembersPerColumn) /\ CeilDiv(N, MaxMembersPerColumn) \in Int
    BY <2>1
  <2>3. Max({1, CeilDiv(N, MaxMembersPerColumn)}) = CeilDiv(N, MaxMembersPerColumn)
    BY <2>2, OfTwo
  <2>4. QED
    BY <2>1, <2>3 DEF ColumnsOf, N
<1>3. size = CeilDiv(N, count)
  BY DEF ColumnSize
<1> HIDE DEF N, count, size
<1>4. ASSUME NEW k \in 1..N
      PROVE  /\ col(k) \in 0..(count - 1)
             /\ top(k) \in 1..k /\ bottom(k) \in k..N
  BY <1>1, <1>2, <1>3, RowsAre DEF N
<1>5. \A k, l \in 1..N : col(k) = col(l) => top(k) = top(l) /\ bottom(k) = bottom(l)
  BY SameEnds
<1>6. \A k : PlacedMember(ids, k) =
          [x |-> xCursor + col(k) * MemberColumnGap,
           y |-> ColumnStart(ids, top(k), bottom(k)) + Drop(ids, k) - Drop(ids, top(k))]
  BY DEF PlacedMember, size
<1>7. NextCursor(ids) = xCursor + (count - 1) * 640 + 1120
  BY DEF NextCursor, count, MemberColumnGap, LayerGap
<1> HIDE DEF col, top, bottom
<1>8. NextCursor(ids) \in Int /\ NextCursor(ids) % 2 = 0
  <2>1. \A x \in Int, c \in Nat : x % 2 = 0 => /\ x + (c - 1) * 640 + 1120 \in Int
                                               /\ (x + (c - 1) * 640 + 1120) % 2 = 0
    OBVIOUS
  <2>2. count \in Nat
    BY <1>2
  <2>3. QED
    BY <1>7, <2>1, <2>2
<1>9. ASSUME NEW k \in 1..N
      PROVE  /\ PlacedMember(ids, k).x \in xCursor..(NextCursor(ids) - LayerGap)
             /\ PlacedMember(ids, k).x % 2 = 0
  <2>1. PlacedMember(ids, k).x = xCursor + col(k) * 640
    BY <1>6 DEF MemberColumnGap
  <2>2. \A x \in Int, c \in Nat \ {0} : \A d \in 0..(c - 1) :
            x % 2 = 0 => /\ x + d * 640 \in x..((x + (c - 1) * 640 + 1120) - 1120)
                         /\ (x + d * 640) % 2 = 0
    OBVIOUS
  <2>3. count \in Nat \ {0} /\ col(k) \in 0..(count - 1)
    BY <1>1, <1>2, <1>4
  <2>4. LayerGap = 1120
    BY DEF LayerGap
  <2>5. QED
    BY <1>7, <2>1, <2>2, <2>3, <2>4
<1>10. ASSUME NEW k \in 1..N
       PROVE  /\ top(k) \in 1..N
              /\ ColumnStart(ids, top(k), bottom(k)) \in Int
              /\ ColumnStart(ids, top(k), bottom(k)) % 2 = 0
              /\ Drop(ids, k) \in Fours /\ Drop(ids, top(k)) \in Fours
  <2>1. top(k) \in 1..N /\ bottom(k) \in top(k)..N
    BY <1>1, <1>4
  <2>2. QED
    BY <2>1, StartsEven, DropsAre DEF N
<1>11. ASSUME NEW k \in 1..N
       PROVE  PlacedMember(ids, k).y \in Int /\ PlacedMember(ids, k).y % 2 = 0
  <2>1. PlacedMember(ids, k).y
            = ColumnStart(ids, top(k), bottom(k)) + Drop(ids, k) - Drop(ids, top(k))
    BY <1>6
  <2>2. \A u \in Int, v, w \in Fours : u % 2 = 0 => u + v - w \in Int /\ (u + v - w) % 2 = 0
    BY DEF Fours
  <2>3. QED
    BY <1>10, <2>1, <2>2
<1>12. ASSUME NEW k \in 1..N, NEW l \in 1..N, k < l,
              PlacedMember(ids, k).x = PlacedMember(ids, l).x
       PROVE  PlacedMember(ids, l).y - PlacedMember(ids, k).y
                  >= Half(ids[k]) + Half(ids[l]) + MemberBuffer
  <2>1. col(k) = col(l)
    <3>1. xCursor + col(k) * 640 = xCursor + col(l) * 640
      BY <1>6, <1>12 DEF MemberColumnGap
    <3>2. PICK a \in Int, b \in Int : a = col(k) /\ b = col(l)
      BY <1>2, <1>4
    <3>3. xCursor + a * 640 = xCursor + b * 640
      BY <3>1, <3>2
    <3>4. \A x, u, v \in Int : x + u * 640 = x + v * 640 => u = v
      OBVIOUS
    <3>5. a = b
      BY <3>3, <3>4
    <3>6. QED
      BY <3>2, <3>5
  <2>2. top(k) = top(l) /\ bottom(k) = bottom(l)
    BY <1>5, <2>1
  <2>3. Drop(ids, l) - Drop(ids, k) >= Half(ids[k]) + Half(ids[l]) + MemberBuffer
    BY <1>12, DropsAre DEF N
  <2>4. \A u \in Int, v, w, x \in Fours : (u + v - x) - (u + w - x) = v - w
    BY DEF Fours
  <2>5. PlacedMember(ids, l).y - PlacedMember(ids, k).y = Drop(ids, l) - Drop(ids, k)
    BY <1>6, <1>10, <2>2, <2>4
  <2>6. QED
    BY <2>3, <2>5
<1>13. QED
  BY <1>8, <1>9, <1>11, <1>12 DEF N

----------------------------------------------------------------------------
(* The invariant.                                                          *)

(* Of what the layers hold: they are placed one after the other, and the   *)
(* cursor is beyond them.                                                  *)
Sweeping ==
    /\ Done \subseteq DOMAIN depth
    /\ \A a \in Done, b \in Left : depth[a] < depth[b]
    /\ \A a \in Done : place[a].x <= xCursor - LayerGap

(* The middle between two places is a place.                               *)
EvenPlaces == \A a \in Done : place[a].x % 2 = 0 /\ place[a].y % 2 = 0

(* What the variables of the members hold.                                 *)
MemberTypes ==
    /\ stage \in {"closed", "layers", "centre", "done"}
    /\ seed.x \in Int /\ seed.y \in Int
    /\ xCursor \in Int /\ xCursor % 2 = 0
    /\ \A a \in Done : place[a].x \in Int /\ place[a].y \in Int
    /\ stage = "closed" => depth = <<>> /\ place = <<>>
    /\ stage # "closed" => IsLayoutGraph(members)
    /\ DOMAIN depth \subseteq Members /\ depth \in [DOMAIN depth -> Nat]

(* The inductive invariant of the sweep over the layers.                   *)
MemberInv ==
    /\ MemberTypes
    /\ stage = "layers" => Sweeping
    /\ stage # "done" => EvenPlaces
    /\ LayersInOrder
    /\ MembersApart

(* Nothing is opened at first.                                             *)
LEMMA MemberStarts == MemberInit => MemberInv
<1> SUFFICES ASSUME MemberInit PROVE MemberInv
  OBVIOUS
<1>1. /\ stage = "closed" /\ depth = <<>> /\ place = <<>> /\ xCursor = 480
      /\ seed = [x |-> 0, y |-> 0]
  BY DEF MemberInit, Padding
<1>2. DOMAIN depth = {} /\ DOMAIN place = {}
  BY <1>1
<1>3. MemberTypes
  BY <1>1, <1>2 DEF MemberTypes, Done
<1>4. QED
  BY <1>1, <1>2, <1>3 DEF MemberInv, EvenPlaces, LayersInOrder, MembersApart, Done

(* Depths are numbers, of some of the nodes.                               *)
LEMMA DepthsAre ==
    ASSUME NEW g, IsLayoutGraph(g)
    PROVE  /\ DOMAIN Depths(g) \subseteq IdsOf(g)
           /\ Depths(g) \in [DOMAIN Depths(g) -> Nat]
<1> DEFINE steps == 0..Len(g.nodes)
           L == Levels(g)
           D == {m \in IdsOf(g) : \E k \in steps : m \in L[k]}
           of(n) == {k \in steps : n \in L[k]}
<1>1. Depths(g) = [n \in D |-> Min(of(n))]
  BY DEF Depths
<1>2. IsFiniteSet(steps) /\ steps \subseteq Nat
  <2>1. Len(g.nodes) \in Int /\ 0 \in Int
    BY NodesAreFinite
  <2>2. IsFiniteSet(0..Len(g.nodes))
    BY <2>1, FS_Interval
  <2>3. QED
    BY <2>2
<1> HIDE DEF L, steps
<1>3. ASSUME NEW n \in D PROVE Min(of(n)) \in Nat
  <2> DEFINE O == of(n)
  <2>1. O # {} /\ O \subseteq steps
    OBVIOUS
  <2> HIDE DEF O
  <2>2. IsFiniteSet(O) /\ O \in SUBSET Int /\ O \subseteq Nat
    <3>1. O \subseteq Nat /\ O \in SUBSET steps
      BY <1>2, <2>1
    <3>2. IsFiniteSet(O)
      BY <1>2, <3>1, FS_Subset
    <3>3. O \in SUBSET Int
      BY <3>1
    <3>4. QED
      BY <3>1, <3>2, <3>3
  <2>3. Min(O) \in O
    BY <2>1, <2>2, NumbersAreOrdered
  <2>4. Min(O) \in Nat
    BY <2>2, <2>3
  <2>5. QED
    BY <2>4 DEF O
<1> HIDE DEF of
<1>4. D \subseteq IdsOf(g)
  OBVIOUS
<1> HIDE DEF D
<1>5. QED
  BY <1>1, <1>3, <1>4

(* A package is opened at a place of the canvas.                           *)
LEMMA OpenKeeps ==
    ASSUME MemberAssumption, MemberInv, NEW ms \in Expansions, NEW at,
           at.x \in Int, at.y \in Int, Open(ms, at)
    PROVE  MemberInv'
<1>1. /\ stage = "closed" /\ stage' = "layers" /\ members' = ms /\ seed' = at
      /\ depth' = Depths(ms) /\ xCursor' = xCursor /\ place' = place
  BY DEF Open
<1>2. place = <<>> /\ DOMAIN place = {}
  BY <1>1 DEF MemberInv, MemberTypes
<1>3. IsLayoutGraph(ms)
  BY DEF MemberAssumption
<1>4. MemberTypes'
  <2>1. (DOMAIN depth \subseteq Members /\ depth \in [DOMAIN depth -> Nat])'
    BY <1>1, <1>3, DepthsAre DEF Members
  <2>2. QED
    BY <1>1, <1>2, <1>3, <2>1 DEF MemberInv, MemberTypes, Done
<1>5. Sweeping' /\ EvenPlaces' /\ LayersInOrder' /\ MembersApart'
  BY <1>1, <1>2 DEF Sweeping, EvenPlaces, LayersInOrder, MembersApart, Done, Left
<1>6. QED
  BY <1>4, <1>5 DEF MemberInv

(* A layer is listed once.                                                 *)
LEMMA LayerIsListed ==
    ASSUME MemberInv, stage # "closed", NEW d
    PROVE  IsListing(OrderedLayer(d), Layer(d)) /\ Layer(d) \subseteq Members
<1>1. IsLayoutGraph(members) /\ Layer(d) \in SUBSET Members
  BY DEF MemberInv, MemberTypes, Layer
<1>2. [n \in Layer(d) |-> CallersMean(n, d)] \in [Layer(d) -> Int \X Nat]
  <2>1. \A c \in Layer(d - 1) \cap Done : place[c].y \in Int
    BY DEF MemberInv, MemberTypes
  <2>2. \A n : CallersMean(n, d) \in Int \X Nat
    BY <1>1, <2>1, MeanIs DEF CallersMean
  <2>3. QED
    BY <2>2
<1> DEFINE mean == [n \in Layer(d) |-> CallersMean(n, d)]
<1>3. OrderedLayer(d) = InOrder(members, Layer(d), mean)
  BY DEF OrderedLayer
<1> HIDE DEF mean
<1>4. mean \in [Layer(d) -> Int \X Nat]
  BY <1>2 DEF mean
<1>5. IsListing(InOrder(members, Layer(d), mean), Layer(d))
  BY <1>1, <1>4, InOrderIs DEF Members
<1>6. QED
  BY <1>1, <1>3, <1>5

(* A layer that is placed stands right of those before it.                 *)
LEMMA LayerKeeps ==
    ASSUME MemberAssumption, MemberInv, PlaceLayer
    PROVE  MemberInv'
<1> DEFINE d == Min({depth[n] : n \in Left})
           S == Layer(d)
           ids == OrderedLayer(d)
           N == Len(ids)
           new == [n \in S |-> PlacedMember(ids, Position(ids, n))]
<1>1. /\ stage = "layers" /\ Left # {}
      /\ place' = Merged(new, place) /\ xCursor' = NextCursor(ids)
      /\ UNCHANGED <<members, seed, stage, depth>>
  BY DEF PlaceLayer
<1>2. /\ IsLayoutGraph(members) /\ xCursor \in Int /\ xCursor % 2 = 0
      /\ DOMAIN depth \subseteq Members /\ depth \in [DOMAIN depth -> Nat]
      /\ Sweeping /\ EvenPlaces
      /\ \A a \in Done : place[a].x \in Int /\ place[a].y \in Int
  BY <1>1 DEF MemberInv, MemberTypes
<1>3. /\ d \in Nat /\ \A n \in Left : d <= depth[n]
      /\ \E n \in Left : depth[n] = d
  <2> DEFINE D == {depth[n] : n \in Left}
             f == [n \in Left |-> depth[n]]
  <2>1. IsFiniteSet(Left)
    BY <1>2, NodesAreFinite, FS_Subset DEF Left, Members
  <2>2. \A n \in Left : depth[n] \in Nat
    BY <1>2 DEF Left
  <2>3. D \in SUBSET Int /\ D # {}
    BY <1>1, <2>2
  <2>4. D = {f[n] : n \in Left} /\ DOMAIN f = Left
    OBVIOUS
  <2> HIDE DEF f, D
  <2>5. IsFiniteSet({f[n] : n \in Left})
    BY <2>1, <2>4, ImagesAreFinite
  <2> USE DEF D
  <2>6. IsFiniteSet(D)
    BY <2>4, <2>5
  <2> HIDE DEF D
  <2>7. Min(D) \in D /\ \A x \in D : Min(D) <= x
    BY <2>3, <2>6, NumbersAreOrdered
  <2>8. QED
    BY <2>2, <2>7 DEF D
<1> HIDE DEF d
<1>4. S \subseteq Left /\ S # {} /\ \A n \in S : depth[n] = d
  <2>1. \A n \in S : n \in DOMAIN depth /\ depth[n] = d
    BY DEF Layer
  <2>2. S # {}
    BY <1>3 DEF Layer, Left
  <2>3. ASSUME NEW n \in S, n \in Done PROVE FALSE
    <3>1. PICK m \in Left : depth[m] = d
      BY <1>3
    <3>2. depth[n] < depth[m]
      BY <1>2, <2>3, <3>1 DEF Sweeping
    <3>3. QED
      BY <1>3, <2>1, <3>1, <3>2
  <2>4. QED
    BY <2>1, <2>2, <2>3 DEF Left
<1>5. IsListing(ids, S) /\ S \subseteq Members
  BY <1>1, LayerIsListed
<1> HIDE DEF S, ids
<1>6. /\ xCursor' \in Int /\ xCursor' % 2 = 0
      /\ \A k \in 1..N :
             /\ PlacedMember(ids, k).x \in xCursor..(xCursor' - LayerGap)
             /\ PlacedMember(ids, k).x % 2 = 0
             /\ PlacedMember(ids, k).y \in Int
             /\ PlacedMember(ids, k).y % 2 = 0
      /\ \A k, l \in 1..N :
             k < l /\ PlacedMember(ids, k).x = PlacedMember(ids, l).x
             => PlacedMember(ids, l).y - PlacedMember(ids, k).y
                    >= Half(ids[k]) + Half(ids[l]) + MemberBuffer
  BY <1>1, <1>2, <1>4, <1>5, LayerStands
<1>7. \A n \in S : Position(ids, n) \in 1..N /\ ids[Position(ids, n)] = n
  BY <1>5, ListingIs
<1>8. Done' = Done \cup S
  BY <1>1 DEF Done, Merged
<1>9. \A n \in S : place'[n] = PlacedMember(ids, Position(ids, n))
  BY <1>1 DEF Merged
<1>10. \A n \in Done : n \notin S /\ place'[n] = place[n]
  BY <1>1, <1>4 DEF Merged, Done, Left
<1> HIDE DEF new, N
(* The new ones stand right of the others, and apart.                      *)
<1>11. \A n \in S : /\ place'[n].x \in xCursor..(xCursor' - LayerGap)
                    /\ place'[n].x % 2 = 0
                    /\ place'[n].y \in Int
                    /\ place'[n].y % 2 = 0
  BY <1>6, <1>7, <1>9
<1>12. LayerGap = 1120 /\ MemberBuffer = 160
  BY DEF LayerGap, MemberBuffer
<1>13. \A a \in Done, b \in S : place'[a].x < place'[b].x /\ depth[a] < depth[b]
  <2> SUFFICES ASSUME NEW a \in Done, NEW b \in S
               PROVE  place'[a].x < place'[b].x /\ depth[a] < depth[b]
    OBVIOUS
  <2>1. place'[a].x <= xCursor - LayerGap /\ place'[a].x \in Int
    BY <1>2, <1>10 DEF Sweeping
  <2>2. place'[b].x \in Int /\ xCursor <= place'[b].x
    BY <1>2, <1>6, <1>11
  <2>3. depth[a] < depth[b]
    BY <1>2, <1>4 DEF Sweeping
  <2>4. QED
    BY <1>2, <1>12, <2>1, <2>2, <2>3
<1>14. Done' \subseteq DOMAIN depth /\ Left' = Left \ S
  BY <1>1, <1>2, <1>4, <1>8 DEF Sweeping, Left
<1>15. Sweeping'
  <2>1. ASSUME NEW a \in Done', NEW b \in Left' PROVE depth[a] < depth[b]
    <3>1. b \in Left /\ b \notin S
      BY <1>14
    <3>2. CASE a \in Done
      BY <1>2, <3>1, <3>2 DEF Sweeping
    <3>3. CASE a \in S
      <4>1. depth[a] = d /\ d <= depth[b] /\ depth[b] # d
        BY <1>3, <1>4, <3>1, <3>3 DEF Layer, Left, S
      <4>2. depth[b] \in Nat
        BY <1>2, <3>1 DEF Left
      <4>3. QED
        BY <1>3, <4>1, <4>2
    <3>4. QED
      BY <1>8, <3>2, <3>3
  <2>2. ASSUME NEW a \in Done' PROVE place'[a].x <= xCursor' - LayerGap
    <3>1. CASE a \in S
      BY <1>6, <1>11, <1>12, <3>1
    <3>2. CASE a \in Done
      <4>1. place'[a].x <= xCursor - LayerGap /\ place'[a].x \in Int
        BY <1>2, <1>10, <3>2 DEF Sweeping
      <4>2. PICK b \in S : TRUE
        BY <1>4
      <4>3. xCursor <= xCursor' - LayerGap
        BY <1>2, <1>6, <1>11, <1>12, <4>2
      <4>4. QED
        BY <1>2, <1>6, <1>12, <4>1, <4>3
    <3>3. QED
      BY <1>8, <3>1, <3>2
  <2>3. QED
    BY <1>1, <1>14, <2>1, <2>2 DEF Sweeping
<1>16. \A a \in Done' : /\ place'[a].x \in Int /\ place'[a].y \in Int
                        /\ place'[a].x % 2 = 0 /\ place'[a].y % 2 = 0
  <2> SUFFICES ASSUME NEW a \in Done'
               PROVE  /\ place'[a].x \in Int /\ place'[a].y \in Int
                      /\ place'[a].x % 2 = 0 /\ place'[a].y % 2 = 0
    OBVIOUS
  <2>1. CASE a \in S
    BY <1>2, <1>6, <1>11, <2>1
  <2>2. CASE a \in Done
    BY <1>2, <1>10, <2>2 DEF EvenPlaces
  <2>3. QED
    BY <1>8, <2>1, <2>2
<1>17. LayersInOrder'
  <2>1. ASSUME NEW a \in Done', NEW b \in Done', depth[a] < depth[b]
        PROVE  place'[a].x < place'[b].x
    <3>1. CASE a \in Done /\ b \in Done
      <4>1. a \in Done \cap DOMAIN depth /\ b \in Done \cap DOMAIN depth
        BY <1>2, <3>1 DEF Sweeping
      <4>2. place[a].x < place[b].x
        BY <2>1, <4>1 DEF MemberInv, LayersInOrder
      <4>3. QED
        BY <1>10, <3>1, <4>2
    <3>2. CASE a \in Done /\ b \in S
      BY <1>13, <3>2
    <3>3. CASE a \in S /\ b \in Done
      <4>1. depth[b] < depth[a] /\ a \in DOMAIN depth /\ b \in DOMAIN depth
        BY <1>2, <1>4, <1>13, <3>3 DEF Sweeping, Left
      <4>2. QED
        BY <1>2, <2>1, <4>1
    <3>4. CASE a \in S /\ b \in S
      BY <1>3, <1>4, <2>1, <3>4
    <3>5. QED
      BY <1>8, <3>1, <3>2, <3>3, <3>4
  <2>2. Done' \ DOMAIN depth' = {}
    BY <1>1, <1>14
  <2>3. QED
    BY <1>1, <2>1, <2>2 DEF LayersInOrder
<1>18. MembersApart'
  <2>1. \A n : Half(n)' = Half(n)
    BY <1>1 DEF Half
  <2>2. ASSUME NEW a \in Done', NEW b \in Done', a # b, place'[a].x = place'[b].x
        PROVE  \/ place'[a].y - place'[b].y >= Half(a) + Half(b) + MemberBuffer
               \/ place'[b].y - place'[a].y >= Half(a) + Half(b) + MemberBuffer
    <3>1. CASE a \in Done /\ b \in Done
      <4>1. a \in Done \cap DOMAIN depth /\ b \in Done \cap DOMAIN depth
        BY <1>2, <3>1 DEF Sweeping
      <4>2. place[a].x = place[b].x
        BY <1>10, <2>2, <3>1
      <4>3. \/ place[a].y - place[b].y >= Half(a) + Half(b) + MemberBuffer
            \/ place[b].y - place[a].y >= Half(a) + Half(b) + MemberBuffer
        BY <2>2, <4>1, <4>2 DEF MemberInv, MembersApart
      <4>4. QED
        BY <1>10, <3>1, <4>3
    <3>2. CASE a \in Done /\ b \in S
      <4>1. place'[a].x < place'[b].x /\ place'[a].x \in Int
        BY <1>13, <1>16, <2>2, <3>2
      <4>2. QED
        BY <2>2, <4>1
    <3>3. CASE a \in S /\ b \in Done
      <4>1. place'[b].x < place'[a].x /\ place'[a].x \in Int
        BY <1>13, <1>16, <2>2, <3>3
      <4>2. QED
        BY <2>2, <4>1
    <3>4. CASE a \in S /\ b \in S
      <4> DEFINE k == Position(ids, a)
                 l == Position(ids, b)
      <4>1. k \in 1..N /\ ids[k] = a /\ l \in 1..N /\ ids[l] = b /\ k # l
        BY <1>7, <2>2, <3>4
      <4>2. place'[a] = PlacedMember(ids, k) /\ place'[b] = PlacedMember(ids, l)
        BY <1>9, <3>4
      <4>3. N \in Nat
        BY <1>5, ListingIs DEF N
      <4> HIDE DEF k, l
      <4>4. k < l \/ l < k
        BY <4>1, <4>3
      <4>5. k < l => place'[b].y - place'[a].y >= Half(a) + Half(b) + MemberBuffer
        BY <1>6, <2>2, <4>1, <4>2
      <4>6. l < k => place'[a].y - place'[b].y >= Half(b) + Half(a) + MemberBuffer
        BY <1>6, <2>2, <4>1, <4>2
      <4>7. Half(a) \in Nat /\ Half(b) \in Nat
        BY <1>2, <1>5, <3>4, HalvesAre DEF Fours
      <4>8. Half(b) + Half(a) = Half(a) + Half(b)
        BY <4>7
      <4>9. QED
        BY <4>4, <4>5, <4>6, <4>8
    <3>5. QED
      BY <1>8, <3>1, <3>2, <3>3, <3>4
  <2>3. stage' # "done"
    BY <1>1
  <2>4. QED
    BY <2>1, <2>2, <2>3 DEF MembersApart
<1>19. MemberTypes'
  BY <1>1, <1>6, <1>16 DEF MemberInv, MemberTypes, Members
<1>20. EvenPlaces'
  BY <1>16 DEF EvenPlaces
<1>21. QED
  BY <1>15, <1>17, <1>18, <1>19, <1>20 DEF MemberInv

(* The extent of what is placed.                                           *)
LEMMA ExtentIs ==
    ASSUME MemberTypes, stage # "closed", Done # {}, Done \subseteq Members
    PROVE  LET xs == {place[n].x : n \in Done}
               ys == {place[n].y : n \in Done}
           IN  /\ xs \in SUBSET Int /\ IsFiniteSet(xs) /\ xs # {}
               /\ ys \in SUBSET Int /\ IsFiniteSet(ys) /\ ys # {}
               /\ Min(xs) \in xs /\ Max(xs) \in xs /\ Min(ys) \in ys /\ Max(ys) \in ys
               /\ \A n \in Done : place[n].y <= Max(ys)
<1> DEFINE xs == {place[n].x : n \in Done}
           ys == {place[n].y : n \in Done}
           fx == [n \in Done |-> place[n].x]
           fy == [n \in Done |-> place[n].y]
<1>1. IsFiniteSet(Done)
  BY NodesAreFinite, FS_Subset DEF MemberTypes, Members
<1>2. xs \in SUBSET Int /\ xs # {} /\ ys \in SUBSET Int /\ ys # {}
  BY DEF MemberTypes
<1>3. /\ xs = {fx[n] : n \in Done} /\ DOMAIN fx = Done
      /\ ys = {fy[n] : n \in Done} /\ DOMAIN fy = Done
  OBVIOUS
<1>4. \A n \in Done : place[n].y \in ys
  OBVIOUS
<1> HIDE DEF fx, fy, xs, ys
<1>5. IsFiniteSet({fx[n] : n \in Done}) /\ IsFiniteSet({fy[n] : n \in Done})
  BY <1>1, <1>3, ImagesAreFinite
<1>6. IsFiniteSet(xs) /\ IsFiniteSet(ys)
  BY <1>3, <1>5
<1>7. /\ Min(xs) \in xs /\ Max(xs) \in xs
      /\ Min(ys) \in ys /\ Max(ys) \in ys /\ \A a \in ys : a <= Max(ys)
  BY <1>2, <1>6, NumbersAreOrdered
<1>8. QED
  BY <1>2, <1>4, <1>6, <1>7 DEF xs, ys

(* The grid of what is not reached goes below the layers.                  *)
LEMMA RestKeeps ==
    ASSUME MemberInv, PlaceRest
    PROVE  MemberInv'
<1> DEFINE S == Members \ Done
           left == IF Done = {} THEN Padding ELSE Min({place[n].x : n \in Done})
           top == IF Done = {} THEN Padding ELSE Max({place[n].y : n \in Done}) + RestDy
           gap == Max({Px(60), (MemberGap * 6) \div 10})
           grid == InGrid(members, S, left, top, gap)
<1>1. /\ stage = "layers" /\ stage' = "centre" /\ Left = {}
      /\ place' = Merged(grid, place)
      /\ UNCHANGED <<members, seed, depth, xCursor>>
  BY DEF PlaceRest
<1>2. /\ IsLayoutGraph(members) /\ DOMAIN depth = Done /\ Done \subseteq Members
      /\ EvenPlaces
      /\ \A a \in Done : place[a].x \in Int /\ place[a].y \in Int
  BY <1>1 DEF MemberInv, MemberTypes, Sweeping, Left
<1>3. gap = 480
  <2>1. (MemberGap * 6) \div 10 = 336 /\ Px(60) = 480
    BY DEF MemberGap
  <2>2. Max({480, 336}) = 480
    BY OfTwo
  <2>3. QED
    BY <2>1, <2>2
<1>4. /\ left \in Int /\ left % 2 = 0 /\ top \in Int /\ top % 2 = 0
      /\ \A n \in Done : place[n].y + RestDy <= top
  <2>1. CASE Done = {}
    BY <2>1 DEF Padding
  <2>2. CASE Done # {}
    <3> DEFINE xs == {place[n].x : n \in Done}
               ys == {place[n].y : n \in Done}
    <3>1. /\ Min(xs) \in xs /\ Max(ys) \in ys
          /\ \A n \in Done : place[n].y <= Max(ys)
      BY <1>1, <1>2, <2>2, ExtentIs DEF MemberInv
    <3>2. \A u \in xs \cup ys : u \in Int /\ u % 2 = 0
      BY <1>2 DEF EvenPlaces
    <3>3. left = Min(xs) /\ top = Max(ys) + RestDy
      BY <2>2
    <3> HIDE DEF xs, ys, left, top
    <3>4. PICK a \in Int, b \in Int : a = left /\ b = Max(ys) /\ a % 2 = 0 /\ b % 2 = 0
      BY <3>1, <3>2, <3>3
    <3>5. RestDy = 720
      BY DEF RestDy
    <3>6. top = b + 720 /\ (b + 720) % 2 = 0
      BY <3>3, <3>4, <3>5
    <3>7. QED
      BY <1>2, <3>1, <3>4, <3>5, <3>6
  <2>3. QED
    BY <2>1, <2>2
<1> HIDE DEF left, top, gap
<1>5. /\ DOMAIN grid = S
      /\ \A n \in S : /\ grid[n].x \in Int /\ grid[n].y \in Int /\ grid[n].y >= top
                      /\ grid[n].x % 2 = 0 /\ grid[n].y % 2 = 0
  <2>1. gap \in Nat /\ gap % 2 = 0 /\ S \in SUBSET IdsOf(members)
    BY <1>3 DEF Members
  <2> HIDE DEF S
  <2>2. QED
    BY <1>2, <1>4, <2>1, GridIs
<1> HIDE DEF grid
<1>6. /\ Done' = Members
      /\ \A n \in Done : place'[n] = place[n]
      /\ \A n \in S : place'[n] = grid[n]
  BY <1>1, <1>2, <1>5 DEF Merged, Done
<1>7. \A n \in S : /\ place'[n].x \in Int /\ place'[n].y \in Int
                    /\ place'[n].x % 2 = 0 /\ place'[n].y % 2 = 0
                    /\ place'[n].y >= top
  BY <1>5, <1>6
<1>8. \A n \in Done' : n \in Done \/ n \in S
  BY <1>6
<1>9. \A a \in Done' : /\ place'[a].x \in Int /\ place'[a].y \in Int
                       /\ place'[a].x % 2 = 0 /\ place'[a].y % 2 = 0
  BY <1>2, <1>6, <1>7, <1>8 DEF EvenPlaces
<1>10. MemberTypes' /\ EvenPlaces'
  BY <1>1, <1>2, <1>9 DEF MemberInv, MemberTypes, EvenPlaces, Members
<1>11. LayersInOrder'
  <2>1. \A a, b \in Done : depth[a] < depth[b] => place'[a].x < place'[b].x
    BY <1>2, <1>6 DEF MemberInv, LayersInOrder
  <2>2. ASSUME NEW a \in S, NEW b \in Done PROVE place'[a].y >= place'[b].y + RestDy
    <3>1. PICK u \in Int, v \in Int : u = place'[a].y /\ v = place'[b].y
      BY <1>2, <1>6, <1>7
    <3>2. u >= top /\ v + RestDy <= top
      BY <1>4, <1>6, <1>7, <3>1
    <3>3. QED
      BY <1>4, <3>1, <3>2 DEF RestDy
  <2>3. /\ Done' \ DOMAIN depth' = S /\ Done' \cap DOMAIN depth' = Done
        /\ depth' = depth /\ Members' = Members
    BY <1>1, <1>2, <1>6 DEF Members
  <2>4. QED
    BY <1>6, <2>1, <2>2, <2>3 DEF LayersInOrder
<1>12. MembersApart'
  <2>1. \A n : Half(n)' = Half(n)
    BY <1>1 DEF Half
  <2>2. Done' \cap DOMAIN depth' = Done
    BY <1>1, <1>2, <1>6
  <2>3. Done \cap DOMAIN depth = Done /\ stage' # "done"
    BY <1>1, <1>2
  <2>4. QED
    BY <1>6, <2>1, <2>2, <2>3 DEF MemberInv, MembersApart
<1>13. QED
  BY <1>1, <1>10, <1>11, <1>12 DEF MemberInv

(* The cluster is moved as a whole.                                        *)
LEMMA CentreKeeps ==
    ASSUME MemberInv, Centre
    PROVE  MemberInv'
<1> DEFINE xs == {place[n].x : n \in Done}
           ys == {place[n].y : n \in Done}
           dx == seed.x - (Min(xs) + Max(xs)) \div 2
           dy == seed.y - (Min(ys) + Max(ys)) \div 2
           xs2 == {place'[n].x : n \in Done}
           ys2 == {place'[n].y : n \in Done}
<1>1. /\ stage = "centre" /\ stage' = "done"
      /\ place' = [n \in Done |-> [x |-> place[n].x + seed.x - (Min(xs) + Max(xs)) \div 2,
                                   y |-> place[n].y + seed.y - (Min(ys) + Max(ys)) \div 2]]
      /\ UNCHANGED <<members, seed, depth, xCursor>>
  BY DEF Centre
<1>2. /\ IsLayoutGraph(members) /\ Done = Members /\ EvenPlaces
      /\ DOMAIN depth \subseteq Members /\ depth \in [DOMAIN depth -> Nat]
      /\ seed.x \in Int /\ seed.y \in Int
      /\ \A a \in Done : place[a].x \in Int /\ place[a].y \in Int
  BY <1>1 DEF MemberInv, MemberTypes, LayersInOrder
<1>3. Done # {}
  <2>1. members.nodes \in Seq(Members) /\ members.nodes # <<>>
    BY <1>2 DEF IsLayoutGraph, Members
  <2>2. members.nodes[1] \in Members
    BY <2>1
  <2>3. QED
    BY <1>2, <2>2
<1>4. /\ xs \in SUBSET Int /\ IsFiniteSet(xs) /\ xs # {}
      /\ ys \in SUBSET Int /\ IsFiniteSet(ys) /\ ys # {}
      /\ Min(xs) \in xs /\ Max(xs) \in xs /\ Min(ys) \in ys /\ Max(ys) \in ys
  BY <1>1, <1>2, <1>3, ExtentIs DEF MemberInv
<1>5. \A u \in xs \cup ys : u \in Int /\ u % 2 = 0
  BY <1>2 DEF EvenPlaces
<1> HIDE DEF xs, ys
<1>6. /\ dx \in Int /\ 2 * dx = 2 * seed.x - (Min(xs) + Max(xs))
      /\ dy \in Int /\ 2 * dy = 2 * seed.y - (Min(ys) + Max(ys))
  <2>1. \A u, v, w \in Int :
            v % 2 = 0 /\ w % 2 = 0 => /\ u - (v + w) \div 2 \in Int
                                     /\ 2 * (u - (v + w) \div 2) = 2 * u - (v + w)
    OBVIOUS
  <2>2. /\ Min(xs) \in Int /\ Max(xs) \in Int /\ Min(xs) % 2 = 0 /\ Max(xs) % 2 = 0
        /\ Min(ys) \in Int /\ Max(ys) \in Int /\ Min(ys) % 2 = 0 /\ Max(ys) % 2 = 0
    BY <1>4, <1>5
  <2>3. QED
    BY <1>2, <2>1, <2>2
<1>7. Done' = Done
  BY <1>1 DEF Done
<1>8. \A n \in Done : place'[n].x = place[n].x + dx /\ place'[n].y = place[n].y + dy
  <2>1. \A u, v, w \in Int : u + v - w = u + (v - w)
    OBVIOUS
  <2>2. (Min(xs) + Max(xs)) \div 2 \in Int /\ (Min(ys) + Max(ys)) \div 2 \in Int
    <3>1. Min(xs) \in Int /\ Max(xs) \in Int /\ Min(ys) \in Int /\ Max(ys) \in Int
      BY <1>4, <1>5
    <3>2. \A u, v \in Int : (u + v) \div 2 \in Int
      OBVIOUS
    <3>3. QED
      BY <3>1, <3>2
  <2>3. QED
    BY <1>1, <1>2, <2>1, <2>2
<1> HIDE DEF dx, dy
<1>9. xs2 = {u + dx : u \in xs} /\ ys2 = {u + dy : u \in ys}
  BY <1>8 DEF xs, ys
<1>10. Members' = Members
  BY <1>1 DEF Members
<1>11. LayersInOrder'
  <2>1. ASSUME NEW a \in Done \cap DOMAIN depth, NEW b \in Done \cap DOMAIN depth,
               depth[a] < depth[b]
        PROVE  place'[a].x < place'[b].x
    <3>1. place[a].x < place[b].x
      BY <2>1 DEF MemberInv, LayersInOrder
    <3>2. QED
      BY <1>2, <1>6, <1>8, <3>1
  <2>2. ASSUME NEW a \in Done \ DOMAIN depth, NEW b \in Done \cap DOMAIN depth
        PROVE  place'[a].y >= place'[b].y + RestDy
    <3>1. place[a].y >= place[b].y + RestDy
      BY DEF MemberInv, LayersInOrder
    <3>2. QED
      BY <1>2, <1>6, <1>8, <3>1 DEF RestDy
  <2>3. depth' = depth
    BY <1>1
  <2>4. QED
    BY <1>2, <1>7, <1>10, <2>1, <2>2, <2>3 DEF LayersInOrder
<1>12. MembersApart'
  <2>1. \A n : Half(n)' = Half(n)
    BY <1>1 DEF Half
  <2>2. ASSUME NEW a \in Done \cap DOMAIN depth, NEW b \in Done \cap DOMAIN depth,
               a # b, place'[a].x = place'[b].x
        PROVE  \/ place'[a].y - place'[b].y >= Half(a) + Half(b) + MemberBuffer
               \/ place'[b].y - place'[a].y >= Half(a) + Half(b) + MemberBuffer
    <3>1. place[a].x = place[b].x
      BY <1>2, <1>6, <1>8, <2>2
    <3>2. \/ place[a].y - place[b].y >= Half(a) + Half(b) + MemberBuffer
          \/ place[b].y - place[a].y >= Half(a) + Half(b) + MemberBuffer
      BY <2>2, <3>1 DEF MemberInv, MembersApart
    <3>3. /\ place'[a].y - place'[b].y = place[a].y - place[b].y
          /\ place'[b].y - place'[a].y = place[b].y - place[a].y
      BY <1>2, <1>6, <1>8
    <3>4. QED
      BY <3>2, <3>3
  <2>3. /\ 2 * seed.x = Min(xs2) + Max(xs2)
        /\ 2 * seed.y = Min(ys2) + Max(ys2)
    <3> HIDE DEF xs2, ys2
    <3>1. Min(xs2) = Min(xs) + dx /\ Max(xs2) = Max(xs) + dx
      BY <1>4, <1>6, <1>9, MovedNumbers
    <3>2. Min(ys2) = Min(ys) + dy /\ Max(ys2) = Max(ys) + dy
      BY <1>4, <1>6, <1>9, MovedNumbers
    <3>3. Min(xs) \in Int /\ Max(xs) \in Int /\ Min(ys) \in Int /\ Max(ys) \in Int
      BY <1>4
    <3>4. QED
      BY <1>2, <1>6, <3>1, <3>2, <3>3
  <2>4. depth' = depth /\ seed' = seed
    BY <1>1
  <2>5. /\ {place[n].x : n \in Members}' = xs2 /\ {place[n].y : n \in Members}' = ys2
    BY <1>2, <1>10
  <2> HIDE DEF xs2, ys2
  <2>6. QED
    BY <1>7, <2>1, <2>2, <2>3, <2>4, <2>5 DEF MembersApart
<1>13. MemberTypes'
  <2>1. \A a \in Done : place'[a].x \in Int /\ place'[a].y \in Int
    BY <1>2, <1>6, <1>8
  <2>2. xCursor \in Int /\ xCursor % 2 = 0
    BY DEF MemberInv, MemberTypes
  <2>3. QED
    BY <1>1, <1>2, <1>7, <1>10, <2>1, <2>2 DEF MemberTypes
<1>14. QED
  BY <1>1, <1>11, <1>12, <1>13 DEF MemberInv

(* Without a step of the members nothing moves.                            *)
LEMMA MembersStay ==
    ASSUME MemberInv, UNCHANGED opened
    PROVE  MemberInv'
BY DEF opened, MemberInv, MemberTypes, Sweeping, EvenPlaces, LayersInOrder, MembersApart,
    Members, Done, Left, Half

----------------------------------------------------------------------------
(* Layouts: the theorems.                                                  *)

(* Both layouts, one after the other.                                      *)
LayoutInv == SlotInv /\ MemberInv

LEMMA LayoutStarts == LayoutsInit => LayoutInv
  BY SlotAssumption, SlotStarts, MemberStarts DEF LayoutsInit, LayoutInv

(* A step of one layout leaves the other alone; a package is opened when   *)
(* the slots are done, at a place that is then final.                      *)
LEMMA LayoutNext == LayoutInv /\ [LayoutsNext]_<<canvas, opened>> => LayoutInv'
<1> SUFFICES ASSUME SlotInv, MemberInv, [LayoutsNext]_<<canvas, opened>>
             PROVE  SlotInv' /\ MemberInv'
  BY DEF LayoutInv
<1>1. CASE SlotNext /\ UNCHANGED opened
  <2>1. MemberInv'
    BY <1>1, MembersStay
  <2>2. SlotInv'
    BY <1>1, SlotAssumption, SlotKeeps, DeadKeeps DEF SlotNext
  <2>3. QED
    BY <2>1, <2>2
<1>2. CASE OpenPackage
  <2>1. SlotInv'
    BY <1>2, SlotsStay DEF OpenPackage
  <2>2. PICK o \in Openings, ms \in Expansions :
            Swept /\ o.node \in Ids /\ Open(ms, pos[o.node])
    BY <1>2 DEF OpenPackage
  <2>3. o.node \in Placed
    BY <2>2 DEF SlotInv, RestPlaced
  <2>4. pos[o.node].x \in Int /\ pos[o.node].y \in Int
    BY <2>3 DEF SlotInv
  <2>5. MemberInv'
    BY <2>2, <2>4, MemberAssumption, OpenKeeps
  <2>6. QED
    BY <2>1, <2>5
<1>3. CASE MemberNext /\ UNCHANGED canvas
  <2>1. SlotInv'
    BY <1>3, SlotsStay
  <2>2. MemberInv'
    BY <1>3, MemberAssumption, LayerKeeps, RestKeeps, CentreKeeps DEF MemberNext
  <2>3. QED
    BY <2>1, <2>2
<1>4. CASE UNCHANGED <<canvas, opened>>
  BY <1>4, SlotsStay, MembersStay
<1>5. QED
  BY <1>1, <1>2, <1>3, <1>4 DEF LayoutsNext

LEMMA LayoutInvariance == LayoutsSpec => []LayoutInv
  BY LayoutStarts, LayoutNext, PTL DEF LayoutsSpec

(* However the lanes, groups and slots are arranged and whatever is        *)
(* called: when the sweep of slotLayout.ts is over, every node has a place,*)
(* at its slot if its lane has one, below the others if not.               *)
THEOREM NodesAlwaysPlaced == LayoutsSpec => []PlacedWhereItBelongs
<1>1. LayoutInv => PlacedWhereItBelongs
  BY SlotAssumption, InvGivesPlaces DEF LayoutInv
<1>2. QED
  BY <1>1, LayoutInvariance, PTL

(* For every size of the nodes: the boxes of one sub-column are apart, of  *)
(* stacked lanes if the nodes of a lane are about as tall, of slots if     *)
(* their lanes do not spread too far.                                      *)
THEOREM BoxesAlwaysApart == LayoutsSpec => []BoxesApart
<1>1. LayoutInv => BoxesApart
  BY SlotAssumption, InvKeepsApart DEF LayoutInv
<1>2. QED
  BY <1>1, LayoutInvariance, PTL

(* For every package and every call graph of its members: reachDepth.ts    *)
(* places them all, the deeper further right and the unreached below.      *)
THEOREM LayersAlwaysInOrder == LayoutsSpec => []LayersInOrder
  BY LayoutInvariance, PTL DEF LayoutInv, MemberInv

(* For every height of the members: those of a column keep a buffer, and   *)
(* the whole ends up around the node that was opened.                      *)
THEOREM MembersAlwaysApart == LayoutsSpec => []MembersApart
  BY LayoutInvariance, PTL DEF LayoutInv, MemberInv
=============================================================================
