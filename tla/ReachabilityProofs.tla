------------------------ MODULE ReachabilityProofs ------------------------
(***************************************************************************)
(* For every program and every spec: the graph records the uses of the     *)
(* program, the server's search finds what the entries reach and nothing   *)
(* else, and the report of dead code is sound.  The argument is in three   *)
(* layers, an invariant each: what the builder has recorded so far, what   *)
(* the search of the server has found, what that of the browser has found. *)
(***************************************************************************)
EXTENDS Reachability, FiniteSetTheorems, WellFoundedInduction, TLAPS

-----------------------------------------------------------------------------
(* The builder.                                                            *)

Later == {"implements", "built", "marking", "failed", "reported", "local", "shown"}

Phases == {"packages", "wiring", "cancelled"} \cup Later

PositionInv ==
  /\ program \in Programs
  /\ next \in Nat \ {0}
  /\ phase \in Phases

(* The ids of objects are nodes, edges start at nodes, and so does every   *)
(* package that was added.                                                 *)
RecordedInv ==
  /\ \A object \in DOMAIN objectIDs : objectIDs[object] \in DOMAIN nodes
  /\ \A e \in Edges : e.source \in DOMAIN nodes
  /\ \A i \in DOMAIN program.pkgs :
       program.pkgs[i].typed /\ (phase \in {"packages", "cancelled"} => i < next)
       => program.pkgs[i].path \in DOMAIN nodes

(* The packages of which the second pass has made the edges.               *)
IsWired(i) == phase \in Later \/ (phase = "wiring" /\ i < next)

WiredInv ==
  \A i \in DOMAIN program.pkgs : IsWired(i) =>
    \A use \in Range(program.pkgs[i].uses) : IsWire(use) => Wire(use) \in Edges

BuilderInv == PositionInv /\ RecordedInv /\ WiredInv

(* A nonempty bounded set of naturals has a greatest element: the one with *)
(* the least set of elements above it.                                     *)
LEMMA GreatestExists ==
  ASSUME NEW n \in Nat, NEW S, S \subseteq 0 .. n, S # {}
  PROVE  \E k \in S : \A j \in S : j <= k
<1> DEFINE Above(k) == {j \in S : j > k}
           aboves == {Above(k) : k \in S}
<1>1. IsFiniteSet(S) /\ S \subseteq Int
  <2>1. IsFiniteSet(0 .. n)
    <3>1. 0 \in Int /\ n \in Int
      OBVIOUS
    <3> QED
      BY <3>1, FS_Interval
  <2>2. IsFiniteSet(S)
    BY <2>1, FS_Subset
  <2>3. S \subseteq Int
    OBVIOUS
  <2> QED
    BY <2>2, <2>3
<1>2. aboves \subseteq FiniteSubsetsOf(S) /\ aboves # {}
  <2>1. \A k \in S : Above(k) \in SUBSET S
    OBVIOUS
  <2>2. \A k \in S : IsFiniteSet(Above(k))
    <3> HIDE DEF Above
    <3> QED
      BY <1>1, <2>1, FS_Subset
  <2> HIDE DEF Above
  <2> QED
    BY <2>1, <2>2 DEF FiniteSubsetsOf
<1>3. PICK least \in aboves : \A a \in aboves : <<a, least>> \notin StrictSubsetOrdering(S)
  <2> HIDE DEF aboves
  <2> QED
    BY <1>2, WFMin, FS_StrictSubsetOrderingWellFounded
<1>4. PICK k \in S : least = Above(k)
  BY <1>3
<1>5. \A j \in S : ~(j > k)
  <2> SUFFICES ASSUME NEW j \in S, j > k
               PROVE  FALSE
    OBVIOUS
  <2>1. Above(j) \in aboves
    OBVIOUS
  <2>2. j \in Above(k) /\ j \notin Above(j)
    BY <1>1
  <2>3. Above(j) \subseteq Above(k)
    <3> SUFFICES ASSUME NEW i \in S, i > j
                 PROVE  i > k
      OBVIOUS
    <3> QED
      <4>1. i \in Int /\ j \in Int /\ k \in Int
        BY <1>1
      <4> QED
        BY <4>1
  <2>4. Above(j) \in SUBSET S /\ Above(k) \in SUBSET S
    OBVIOUS
  <2>5. <<Above(j), Above(k)>> \in StrictSubsetOrdering(S)
    <3> HIDE DEF Above
    <3> QED
      BY <2>2, <2>3, <2>4 DEF StrictSubsetOrdering
  <2> QED
    BY <2>1, <2>5, <1>3, <1>4
<1>6. \A j \in S : j <= k
  <2> SUFFICES ASSUME NEW j \in S
               PROVE  j <= k
    OBVIOUS
  <2>1. j \in Int /\ k \in Int /\ ~(j > k)
    BY <1>1, <1>5
  <2> QED
    BY <2>1
<1> QED
  BY <1>6

(* A type is minted itself, under the id that its members and the types it *)
(* embeds are linked to.                                                   *)
LEMMA TypeIsMinted ==
  ASSUME NEW pkg, pkg.typed, NEW i \in DOMAIN pkg.scope, pkg.scope[i].sort = "type"
  PROVE  \E m \in MintedBy(pkg) : /\ m.id = NodeID(pkg.path, pkg.scope[i].name, None)
                                  /\ m.container = pkg.path
<1> DEFINE d == pkg.scope[i]
           kind == IF program.named[d.named].shape \in {"interface", "emptyInterface"}
                   THEN "interface" ELSE "struct"
           t == Minted(pkg, i, <<pkg.path, d.name, None>>, d.name, None, pkg.path, kind)
<1>1. t \in MintedType(pkg, i, d)
  BY DEF MintedType
<1>2. MintedType(pkg, i, d) \subseteq MintedBy(pkg)
  BY DEF MintedBy
<1>3. t.id = NodeID(pkg.path, d.name, None) /\ t.container = pkg.path
  BY DEF Minted
<1> QED
  BY <1>1, <1>2, <1>3

(* What a package mints is contained in the package or in one of its types.*)
LEMMA MintedInPackage ==
  ASSUME NEW pkg, NEW m \in MintedBy(pkg)
  PROVE  /\ m.id \in PackageIDs(pkg)
         /\ m.container \in PackageIDs(pkg)
         /\ m.position \in DOMAIN pkg.scope
<1>1. pkg.typed
  BY DEF MintedBy
<1>2. PICK i \in DOMAIN pkg.scope :
        m \in IF pkg.scope[i].sort = "type" THEN MintedType(pkg, i, pkg.scope[i])
                                            ELSE MintedMember(pkg, i, pkg.scope[i])
  BY DEF MintedBy
<1>3. m.id \in PackageIDs(pkg)
  BY <1>1 DEF PackageIDs
<1>4. m.position = i
  BY <1>2 DEF MintedType, MintedMember, MintedMethods, MintedFields, Minted
<1>5. m.container \in {pkg.path} \cup {n.id : n \in MintedBy(pkg)}
  <2>1. CASE pkg.scope[i].sort # "type"
    BY <1>2, <2>1 DEF MintedMember, Minted
  <2>2. CASE pkg.scope[i].sort = "type"
    <3>1. \/ m.container = pkg.path
          \/ m.container = NodeID(pkg.path, pkg.scope[i].name, None)
      <4> DEFINE d == pkg.scope[i]
      <4>1. CASE m \in MintedMethods(pkg, i, d.name, d.named)
        BY <4>1 DEF MintedMethods, Minted
      <4>2. CASE m \in MintedFields(pkg, i, d.name, d.named)
        BY <4>2 DEF MintedFields, Minted
      <4>3. CASE /\ m \notin MintedMethods(pkg, i, d.name, d.named)
                 /\ m \notin MintedFields(pkg, i, d.name, d.named)
        BY <1>2, <2>2, <4>3 DEF MintedType, Minted
      <4> QED
        BY <4>1, <4>2, <4>3
    <3> QED
      BY <1>1, <2>2, <3>1, TypeIsMinted
  <2> QED
    BY <2>1, <2>2
<1> QED
  BY <1>1, <1>2, <1>3, <1>4, <1>5 DEF PackageIDs

(* The edges of the first pass start at a node of the package.             *)
LEMMA PackageEdgesInside ==
  ASSUME NEW pkg, NEW e \in PackageEdges(pkg)
  PROVE  e.source \in PackageIDs(pkg)
<1>1. CASE e \in {Edge(m.container, m.id, "contains") : m \in MintedBy(pkg)}
  BY <1>1, MintedInPackage DEF Edge
<1>2. CASE e \in EmbedsEdges(pkg)
  <2>1. PICK i \in DOMAIN pkg.scope :
          /\ pkg.typed /\ pkg.scope[i].sort = "type"
          /\ e.source = NodeID(pkg.path, pkg.scope[i].name, None)
    BY <1>2 DEF EmbedsEdges, Edge, Range
  <2>2. \E m \in MintedBy(pkg) : m.id = NodeID(pkg.path, pkg.scope[i].name, None)
    BY <2>1, TypeIsMinted
  <2> QED
    BY <2>1, <2>2, MintedInPackage
<1> QED
  BY <1>1, <1>2 DEF PackageEdges

(* The last id minted for an object is minted.                             *)
LEMMA LastMintedIsMinted ==
  ASSUME NEW pkg, pkg.scope \in Seq(Range(pkg.scope)),
         NEW object \in PackageObjects(pkg)
  PROVE  LastMinted(pkg, object).id \in PackageIDs(pkg)
<1> DEFINE mine == {m \in MintedBy(pkg) : m.object = object}
           positions == {m.position : m \in mine}
<1>1. positions # {} /\ positions \subseteq 0 .. Len(pkg.scope)
  <2>1. \A m \in mine : m.position \in 1 .. Len(pkg.scope)
    BY MintedInPackage
  <2>2. mine # {}
    BY DEF PackageObjects
  <2>3. Len(pkg.scope) \in Nat
    OBVIOUS
  <2> HIDE DEF mine
  <2> QED
    BY <2>1, <2>2, <2>3
<1>2. PICK k \in positions : \A j \in positions : j <= k
  <2>1. Len(pkg.scope) \in Nat
    OBVIOUS
  <2> HIDE DEF positions
  <2> QED
    BY <1>1, <2>1, GreatestExists
<1>3. LastMinted(pkg, object) \in MintedBy(pkg)
  BY <1>2 DEF LastMinted
<1> QED
  BY <1>3, MintedInPackage

LEMMA BagUnionDomain ==
  ASSUME NEW B1, NEW B2
  PROVE  DOMAIN (B1 (+) B2) = DOMAIN B1 \cup DOMAIN B2
BY DEF (+)

LEMMA SetToBagDomain ==
  ASSUME NEW S
  PROVE  DOMAIN SetToBag(S) = S
BY DEF SetToBag

(* The ids of objects are those of nodes, so the wires start at nodes.     *)
LEMMA WiresStartAtNodes ==
  ASSUME RecordedInv, NEW pkg, pkg.typed => pkg.path \in DOMAIN nodes
  PROVE  \A e \in ImportEdges(pkg) \cup DOMAIN UseEdges(pkg) : e.source \in DOMAIN nodes
<1>1. \A e \in ImportEdges(pkg) : e.source \in DOMAIN nodes
  BY DEF ImportEdges, Edge
<1>2. \A use : IsWire(use) => Wire(use).source \in DOMAIN nodes
  BY DEF RecordedInv, IsWire, Wire, Edge
<1>3. DOMAIN UseEdges(pkg) = {Wire(pkg.uses[i]) : i \in {i \in DOMAIN pkg.uses : IsWire(pkg.uses[i])}}
  BY DEF UseEdges
<1> QED
  BY <1>1, <1>2, <1>3

(* The steps that leave the graph alone.                                   *)
LEMMA GraphKept ==
  ASSUME BuilderInv, UNCHANGED <<program, next, nodes, weight, objectIDs>>,
         phase' = phase \/ (phase \in Later /\ phase' \in Later)
  PROVE  BuilderInv'
<1>1. PositionInv'
  BY DEF BuilderInv, PositionInv, Phases, Later
<1>2. RecordedInv'
  <2>1. phase' \in {"packages", "cancelled"} <=> phase \in {"packages", "cancelled"}
    BY DEF Later
  <2> QED
    BY <2>1 DEF BuilderInv, RecordedInv, Edges
<1>3. WiredInv'
  <2>1. \A i : IsWired(i)' <=> IsWired(i)
    BY DEF IsWired, Later
  <2>2. \A use : (IsWire(use)' <=> IsWire(use)) /\ Wire(use)' = Wire(use)
    BY DEF IsWire, Wire
  <2> QED
    BY <2>1, <2>2 DEF BuilderInv, WiredInv, Edges
<1> QED
  BY <1>1, <1>2, <1>3 DEF BuilderInv

(* A step of a pass deals with the next package; after it the packages up  *)
(* to that one are done, and these are all when the pass ends.             *)
LEMMA PassPosition ==
  ASSUME PositionInv, NEW pass \in Phases, NEW following \in Phases,
         PassContinues(pass, following)
  PROVE  /\ PositionInv'
         /\ next \in DOMAIN program.pkgs
         /\ program.pkgs[next].scope \in Seq(Range(program.pkgs[next].scope))
         /\ \/ phase' = following /\ \A i \in DOMAIN program.pkgs : i < next \/ i = next
            \/ /\ phase' = pass
               /\ \A i \in DOMAIN program.pkgs : i < next' => i < next \/ i = next
<1>1. program.pkgs \in Seq(Range(program.pkgs)) /\ next \in DOMAIN program.pkgs
  BY ProgramsAssumption DEF PositionInv, PassContinues
<1>2. DOMAIN program.pkgs = 1 .. Len(program.pkgs) /\ Len(program.pkgs) \in Nat
  BY <1>1
<1>3. next' \in Nat \ {0} /\ phase' \in Phases /\ program' = program
  BY DEF PositionInv, PassContinues
<1>4. program.pkgs[next].scope \in Seq(Range(program.pkgs[next].scope))
  BY <1>1, ProgramsAssumption DEF PositionInv, Range
<1>5. CASE next = Len(program.pkgs)
  BY <1>1, <1>2, <1>3, <1>4, <1>5 DEF PositionInv, PassContinues
<1>6. CASE next # Len(program.pkgs)
  <2>1. phase' = pass /\ next' = next + 1
    BY <1>6 DEF PassContinues
  <2>2. \A i \in DOMAIN program.pkgs : i < next + 1 => i < next \/ i = next
    BY <1>2, <1>1
  <2> QED
    BY <1>1, <1>3, <1>4, <2>1, <2>2 DEF PositionInv
<1> QED
  BY <1>5, <1>6

LEMMA AddPackageStep ==
  ASSUME BuilderInv, AddPackage
  PROVE  BuilderInv'
<1> DEFINE pkg == program.pkgs[next]
<1>1. /\ PositionInv' /\ next \in DOMAIN program.pkgs
      /\ pkg.scope \in Seq(Range(pkg.scope))
      /\ \/ phase' = "wiring" /\ \A i \in DOMAIN program.pkgs : i < next \/ i = next
         \/ /\ phase' = "packages"
            /\ \A i \in DOMAIN program.pkgs : i < next' => i < next \/ i = next
  <2>1. "packages" \in Phases /\ "wiring" \in Phases
    BY DEF Phases
  <2> QED
    BY <2>1, PassPosition DEF BuilderInv, AddPackage
<1>2. phase = "packages" /\ program' = program
  BY DEF AddPackage, PassContinues
<1>3. DOMAIN nodes' = DOMAIN nodes \cup PackageIDs(pkg)
  BY DEF AddPackage, PackageNodes
<1>4. Edges' = Edges \cup PackageEdges(pkg)
  BY BagUnionDomain, SetToBagDomain DEF AddPackage, Edges
<1>5. \A object \in DOMAIN objectIDs' : objectIDs'[object] \in DOMAIN nodes'
  <2> SUFFICES ASSUME NEW object \in DOMAIN objectIDs'
               PROVE  objectIDs'[object] \in DOMAIN nodes'
    OBVIOUS
  <2>1. objectIDs' = PackageObjectIDs(pkg)
    BY DEF AddPackage
  <2>2. CASE object \in PackageObjects(pkg)
    BY <2>1, <2>2, <1>1, <1>3, LastMintedIsMinted DEF PackageObjectIDs
  <2>3. CASE object \notin PackageObjects(pkg)
    BY <2>1, <2>3, <1>3 DEF PackageObjectIDs, BuilderInv, RecordedInv
  <2> QED
    BY <2>2, <2>3
<1>6. \A e \in Edges' : e.source \in DOMAIN nodes'
  BY <1>3, <1>4, PackageEdgesInside DEF BuilderInv, RecordedInv
<1>7. \A i \in DOMAIN program.pkgs :
        program.pkgs[i].typed /\ (phase' \in {"packages", "cancelled"} => i < next')
        => program.pkgs[i].path \in DOMAIN nodes'
  <2>1. pkg.typed => pkg.path \in PackageIDs(pkg)
    BY DEF PackageIDs
  <2>2. \A i \in DOMAIN program.pkgs :
          program.pkgs[i].typed /\ i < next => program.pkgs[i].path \in DOMAIN nodes
    BY DEF BuilderInv, RecordedInv
  <2> QED
    BY <1>1, <1>3, <2>1, <2>2
<1>8. WiredInv'
  <2>1. \A i \in DOMAIN program.pkgs : ~IsWired(i)'
    <3> SUFFICES ASSUME NEW i \in DOMAIN program.pkgs, phase' = "wiring" /\ i < next'
                 PROVE  FALSE
      BY <1>1 DEF IsWired, Later
    <3>1. next' = 1 /\ i \in Nat \ {0}
      <4>1. program.pkgs \in Seq(Range(program.pkgs))
        BY ProgramsAssumption DEF BuilderInv, PositionInv
      <4> QED
        BY <4>1 DEF AddPackage, PassContinues
    <3> QED
      BY <3>1
  <2> QED
    BY <2>1, <1>2 DEF WiredInv
<1> QED
  BY <1>1, <1>2, <1>5, <1>6, <1>7, <1>8 DEF BuilderInv, RecordedInv

LEMMA WirePackageStep ==
  ASSUME BuilderInv, WirePackage
  PROVE  BuilderInv'
<1> DEFINE pkg == program.pkgs[next]
<1>1. /\ PositionInv' /\ next \in DOMAIN program.pkgs
      /\ \/ phase' = "implements" /\ \A i \in DOMAIN program.pkgs : i < next \/ i = next
         \/ /\ phase' = "wiring"
            /\ \A i \in DOMAIN program.pkgs : i < next' => i < next \/ i = next
  <2>1. "wiring" \in Phases /\ "implements" \in Phases
    BY DEF Phases, Later
  <2> QED
    BY <2>1, PassPosition DEF BuilderInv, WirePackage
<1>2. phase = "wiring" /\ program' = program /\ nodes' = nodes /\ objectIDs' = objectIDs
  BY DEF WirePackage, PassContinues
<1>3. Edges' = Edges \cup ImportEdges(pkg) \cup DOMAIN UseEdges(pkg)
  <2> DEFINE imported == weight (+) SetToBag(ImportEdges(pkg))
  <2>1. weight' = imported (+) UseEdges(pkg)
    BY DEF WirePackage
  <2>2. DOMAIN imported = Edges \cup ImportEdges(pkg)
    BY BagUnionDomain, SetToBagDomain DEF Edges
  <2> HIDE DEF imported, pkg
  <2> QED
    BY <2>1, <2>2, BagUnionDomain DEF Edges
<1>4. RecordedInv'
  <2>1. \A i \in DOMAIN program.pkgs :
          program.pkgs[i].typed => program.pkgs[i].path \in DOMAIN nodes
    BY <1>2 DEF BuilderInv, RecordedInv
  <2>2. \A e \in Edges' : e.source \in DOMAIN nodes
    <3>1. RecordedInv /\ (pkg.typed => pkg.path \in DOMAIN nodes)
      BY <1>1, <2>1 DEF BuilderInv
    <3> HIDE DEF pkg
    <3>2. \A e \in ImportEdges(pkg) \cup DOMAIN UseEdges(pkg) : e.source \in DOMAIN nodes
      BY <3>1, WiresStartAtNodes
    <3> QED
      BY <1>3, <3>1, <3>2 DEF RecordedInv
  <2> QED
    BY <1>2, <2>1, <2>2 DEF BuilderInv, RecordedInv
<1>5. WiredInv'
  <2>1. \A use : (IsWire(use)' <=> IsWire(use)) /\ Wire(use)' = Wire(use)
    BY <1>2 DEF IsWire, Wire
  <2>2. \A use \in Range(pkg.uses) : IsWire(use) => Wire(use) \in DOMAIN UseEdges(pkg)
    BY DEF UseEdges, Range
  <2>3. \A i \in DOMAIN program.pkgs : IsWired(i)' => IsWired(i) \/ i = next
    BY <1>1, <1>2 DEF IsWired, Later
  <2> QED
    BY <1>2, <1>3, <2>1, <2>2, <2>3 DEF BuilderInv, WiredInv
<1> QED
  BY <1>1, <1>4, <1>5 DEF BuilderInv

LEMMA ResolveImplementsStep ==
  ASSUME BuilderInv, ResolveImplements
  PROVE  BuilderInv'
<1>1. Edges' = Edges \cup ImplementsEdges
  BY BagUnionDomain, SetToBagDomain DEF ResolveImplements, Edges
<1>2. \A e \in ImplementsEdges : e.source \in DOMAIN nodes
  <2> SUFFICES ASSUME NEW e \in ImplementsEdges
               PROVE  e.source \in DOMAIN nodes
    OBVIOUS
  <2>1. PICK pair \in ImplementsPairs : e.source = objectIDs[TypeFQN(pair[1])]
    BY DEF ImplementsEdges, Edge
  <2>2. TypeFQN(pair[1]) \in DOMAIN objectIDs
    BY DEF ImplementsPairs
  <2> QED
    BY <2>1, <2>2 DEF BuilderInv, RecordedInv
<1>3. phase = "implements" /\ phase' = "built" /\ UNCHANGED <<program, next, nodes, objectIDs>>
  BY DEF ResolveImplements
<1>4. PositionInv'
  BY <1>3 DEF BuilderInv, PositionInv, Phases, Later
<1>5. RecordedInv'
  BY <1>1, <1>2, <1>3 DEF BuilderInv, RecordedInv
<1>6. WiredInv'
  <2>1. \A use : (IsWire(use)' <=> IsWire(use)) /\ Wire(use)' = Wire(use)
    BY <1>3 DEF IsWire, Wire
  <2>2. \A i : IsWired(i)
    BY <1>3 DEF IsWired, Later
  <2> QED
    BY <1>1, <1>3, <2>1, <2>2 DEF BuilderInv, WiredInv
<1> QED
  BY <1>4, <1>5, <1>6 DEF BuilderInv


(* The builder's invariant holds at the start.                             *)
LEMMA BuilderStart ==
  ASSUME Init
  PROVE  BuilderInv
<1>1. PositionInv
  BY DEF Init, BuilderInit, PositionInv, Phases
<1>2. \A i \in DOMAIN program.pkgs : ~(i < next)
  <2>1. program.pkgs \in Seq(Range(program.pkgs)) /\ next = 1
    BY ProgramsAssumption DEF Init, BuilderInit
  <2> QED
    BY <2>1
<1>3. phase = "packages" /\ DOMAIN objectIDs = {} /\ Edges = {}
  BY DEF Init, BuilderInit, Edges
<1>4. RecordedInv
  BY <1>2, <1>3 DEF RecordedInv
<1>5. WiredInv
  BY <1>2, <1>3 DEF WiredInv, IsWired, Later
<1> QED
  BY <1>1, <1>4, <1>5 DEF BuilderInv

(* A build of nothing, or one that is given up.                            *)
LEMMA BuildEndsEarly ==
  ASSUME BuilderInv, BuildNothing \/ CancelBuild
  PROVE  BuilderInv'
<1>1. UNCHANGED <<program, next, nodes, weight, objectIDs>>
  BY DEF BuildNothing, CancelBuild
<1>2. phase' \in {"built", "cancelled"}
  BY DEF BuildNothing, CancelBuild
<1>3. PositionInv'
  BY <1>1, <1>2 DEF BuilderInv, PositionInv, Phases, Later
<1>4. CASE BuildNothing
  <2>1. DOMAIN program.pkgs = {}
    BY <1>4 DEF BuildNothing
  <2> QED
    BY <1>1, <1>3, <2>1 DEF BuilderInv, RecordedInv, WiredInv, Edges
<1>5. CASE CancelBuild
  <2>1. phase' = "cancelled" /\ phase \in {"packages", "implements"}
    BY <1>5 DEF CancelBuild
  <2>2. RecordedInv'
    BY <1>1, <2>1 DEF BuilderInv, RecordedInv, Edges
  <2>3. WiredInv'
    BY <2>1 DEF WiredInv, IsWired, Later
  <2> QED
    BY <1>3, <2>2, <2>3 DEF BuilderInv
<1> QED
  BY <1>4, <1>5

(* What is done with the graph leaves it alone.                            *)
LEMMA SearchesKeepGraph ==
  ASSUME \/ ResolveEntries \/ FinishMark \/ StartLocal \/ RebuildGraph
         \/ (\E id \in pending : Visit(id)) \/ (\E id \in queue : VisitLocal(id))
         \/ UNCHANGED vars
  PROVE  /\ UNCHANGED <<program, next, nodes, weight, objectIDs>>
         /\ phase' = phase \/ (phase \in Later /\ phase' \in Later)
<1>1. CASE ResolveEntries
  BY <1>1 DEF ResolveEntries, Later
<1>2. CASE FinishMark
  BY <1>2 DEF FinishMark, Later
<1>3. CASE StartLocal
  BY <1>3 DEF StartLocal, Later
<1>4. CASE RebuildGraph
  BY <1>4 DEF RebuildGraph, Later
<1>5. CASE \E id \in pending : Visit(id)
  BY <1>5 DEF Visit, builderVars
<1>6. CASE \E id \in queue : VisitLocal(id)
  BY <1>6 DEF VisitLocal, builderVars
<1>7. CASE UNCHANGED vars
  BY <1>7 DEF vars, builderVars
<1> QED
  BY <1>1, <1>2, <1>3, <1>4, <1>5, <1>6, <1>7

LEMMA BuilderStep ==
  ASSUME BuilderInv, [Next]_vars
  PROVE  BuilderInv'
<1>1. CASE Build
  BY <1>1, AddPackageStep, WirePackageStep, ResolveImplementsStep, BuildEndsEarly
  DEF Build, BuilderNext
<1>2. CASE ~Build
  BY <1>2, SearchesKeepGraph, GraphKept DEF Next, Analyse, Recompute
<1> QED
  BY <1>1, <1>2

(* For every program, the graph has an edge for every use that a function  *)
(* makes of something that has a node, across packages too.                *)
THEOREM GraphRecordsUses == Spec => []UsesBecomeEdges
<1>1. Init => BuilderInv
  BY BuilderStart
<1>2. BuilderInv /\ [Next]_vars => BuilderInv'
  BY BuilderStep
<1>3. BuilderInv => UsesBecomeEdges
  <2> SUFFICES ASSUME BuilderInv, phase = "built",
                      NEW p \in Range(program.pkgs), NEW use \in Range(p.uses),
                      {use.in, use.object} \subseteq DOMAIN objectIDs,
                      objectIDs[use.in] # objectIDs[use.object]
               PROVE  Wire(use) \in Edges
    BY DEF UsesBecomeEdges, Wire
  <2>1. PICK i \in DOMAIN program.pkgs : p = program.pkgs[i]
    BY DEF Range
  <2>2. IsWired(i) /\ IsWire(use)
    BY DEF IsWired, Later, IsWire
  <2> QED
    BY <2>1, <2>2 DEF BuilderInv, WiredInv
<1> QED
  BY <1>1, <1>2, <1>3, PTL DEF Spec


-----------------------------------------------------------------------------
(* The search of the server.                                               *)

(* A set of nodes that the search cannot leave.                            *)
Bounds(set, seeds) ==
  /\ set \in SUBSET DOMAIN nodes
  /\ seeds \cap DOMAIN nodes \subseteq set
  /\ Closed(DOMAIN nodes, Edges, set)

(* While the search runs, what was visited has no neighbour outside of     *)
(* what was found, and no set that bounds the search was left.             *)
MarkingInv ==
  phase = "marking" =>
    /\ pending \subseteq reached /\ reached \subseteq DOMAIN nodes
    /\ entries \cap DOMAIN nodes \subseteq reached
    /\ \A id \in reached \ pending :
         Successors(Edges, id) \cap DOMAIN nodes \subseteq reached
    /\ \A set : Bounds(set, entries) => reached \subseteq set

(* What the search has left: the least set that holds the entries.         *)
MarkedInv ==
  phase \in {"reported", "local", "shown"} =>
    /\ Bounds(reachable, entries)
    /\ \A set : Bounds(set, entries) => reachable \subseteq set
    /\ report \cap reachable = {} /\ report \subseteq DOMAIN nodes

(* Each name of the spec was resolved, and what it stands for is an entry. *)
NamesInv ==
  phase \in {"marking", "reported"} =>
    \A fqn \in ByHand(spec) : LookupSymbol(fqn) # {} /\ LookupSymbol(fqn) \subseteq entries

SearchInv == MarkingInv /\ MarkedInv /\ NamesInv

(* Being closed is having no successor outside.                            *)
LEMMA ClosedBySuccessors ==
  ASSUME NEW ids, NEW edges, NEW set \in SUBSET ids
  PROVE  Closed(ids, edges, set)
           <=> \A id \in set : Successors(edges, id) \cap ids \subseteq set
<1>1. ASSUME Closed(ids, edges, set), NEW id \in set,
             NEW to \in Successors(edges, id) \cap ids
      PROVE  to \in set
  BY <1>1 DEF Closed, Successors
<1>2. ASSUME \A id \in set : Successors(edges, id) \cap ids \subseteq set,
             NEW e \in edges
      PROVE  /\ e.kind # "imports" /\ e.source \in set /\ e.target \in ids => e.target \in set
             /\ e.kind = "implements" /\ e.target \in set /\ e.source \in ids => e.source \in set
  BY <1>2 DEF Successors
<1> QED
  BY <1>1, <1>2 DEF Closed

(* The least closed set that holds the seeds is what is live.              *)
LEMMA LeastIsLive ==
  ASSUME NEW set, NEW seeds, Bounds(set, seeds),
         \A other : Bounds(other, seeds) => set \subseteq other
  PROVE  set = Live(DOMAIN nodes, Edges, seeds)
BY DEF Live, Bounds

LEMMA LookupInNodes ==
  ASSUME NEW fqn
  PROVE  LookupSymbol(fqn) \subseteq DOMAIN nodes
BY DEF LookupSymbol, LookupName, LookupMethod

LEMMA ResolveEntriesStep ==
  ASSUME ResolveEntries
  PROVE  SearchInv'
<1>1. nodes' = nodes /\ Edges' = Edges /\ program' = program /\ spec' = spec
  BY DEF ResolveEntries, Edges
<1>2. MarkedInv'
  BY DEF ResolveEntries, MarkedInv
<1>3. CASE ~ValidSpec(spec)
  BY <1>2, <1>3 DEF ResolveEntries, SearchInv, MarkingInv, NamesInv
<1>4. CASE ValidSpec(spec)
  <2>1. /\ phase' = "marking" /\ entries' = Resolve(spec)
        /\ reached' = entries' \cap DOMAIN nodes /\ pending' = reached'
    BY <1>4 DEF ResolveEntries
  <2>2. MarkingInv'
    BY <1>1, <2>1 DEF MarkingInv, Bounds
  <2>3. NamesInv'
    <3>1. \A fqn : LookupSymbol(fqn)' = LookupSymbol(fqn)
      BY <1>1 DEF LookupSymbol, LookupName, LookupMethod, Scope, Typed
    <3>2. \A fqn \in ByHand(spec) : LookupSymbol(fqn) # {}
      BY <1>4 DEF ValidSpec
    <3>3. \A fqn \in ByHand(spec) : LookupSymbol(fqn) \subseteq entries'
      BY <2>1 DEF Resolve
    <3> QED
      BY <1>1, <3>1, <3>2, <3>3 DEF NamesInv
  <2> QED
    BY <1>2, <2>2, <2>3 DEF SearchInv
<1> QED
  BY <1>3, <1>4

LEMMA VisitStep ==
  ASSUME SearchInv, NEW id \in pending, Visit(id)
  PROVE  SearchInv'
<1> DEFINE found == (Successors(Edges, id) \cap DOMAIN nodes) \ reached
<1>1. /\ phase = "marking" /\ phase' = "marking"
      /\ reached' = reached \cup found /\ pending' = (pending \ {id}) \cup found
      /\ UNCHANGED <<nodes, program, spec, entries>> /\ Edges' = Edges
  BY DEF Visit, builderVars, Edges
<1>2. /\ pending \subseteq reached /\ reached \subseteq DOMAIN nodes
      /\ entries \cap DOMAIN nodes \subseteq reached
      /\ \A old \in reached \ pending :
           Successors(Edges, old) \cap DOMAIN nodes \subseteq reached
      /\ \A set : Bounds(set, entries) => reached \subseteq set
  BY <1>1 DEF SearchInv, MarkingInv
<1>3. pending' \subseteq reached' /\ reached' \subseteq DOMAIN nodes
  BY <1>1, <1>2
<1>4. \A old \in reached' \ pending' :
        Successors(Edges, old) \cap DOMAIN nodes \subseteq reached'
  BY <1>1, <1>2
<1>5. ASSUME NEW set, Bounds(set, entries)
      PROVE  reached' \subseteq set
  <2>1. id \in set /\ reached \subseteq set
    BY <1>2, <1>5
  <2>2. Successors(Edges, id) \cap DOMAIN nodes \subseteq set
    BY <1>5, <2>1, ClosedBySuccessors DEF Bounds
  <2> QED
    BY <1>1, <2>1, <2>2
<1>6. MarkingInv'
  <2>1. \A set : Bounds(set, entries)' <=> Bounds(set, entries)
    BY <1>1 DEF Bounds
  <2>2. entries' \cap DOMAIN nodes' \subseteq reached'
    BY <1>1, <1>2
  <2> HIDE DEF found
  <2> QED
    BY <1>1, <1>3, <1>4, <1>5, <2>2 DEF MarkingInv, Bounds
<1>7. MarkedInv'
  BY <1>1 DEF MarkedInv
<1>8. NamesInv'
  <2>1. \A fqn : LookupSymbol(fqn)' = LookupSymbol(fqn)
    BY <1>1 DEF LookupSymbol, LookupName, LookupMethod, Scope, Typed
  <2> QED
    BY <1>1, <2>1 DEF SearchInv, NamesInv
<1> QED
  BY <1>6, <1>7, <1>8 DEF SearchInv

LEMMA FinishMarkStep ==
  ASSUME SearchInv, FinishMark
  PROVE  SearchInv'
<1>1. /\ phase = "marking" /\ phase' = "reported" /\ pending = {}
      /\ UNCHANGED <<nodes, program, spec, entries>> /\ Edges' = Edges
  BY DEF FinishMark, Edges
<1>2. /\ reached \subseteq DOMAIN nodes
      /\ entries \cap DOMAIN nodes \subseteq reached
      /\ \A id \in reached : Successors(Edges, id) \cap DOMAIN nodes \subseteq reached
      /\ \A set : Bounds(set, entries) => reached \subseteq set
  BY <1>1 DEF SearchInv, MarkingInv
<1>3. reachable' = reached
  BY <1>2 DEF FinishMark
<1>4. Bounds(reached, entries)
  BY <1>2, ClosedBySuccessors DEF Bounds
<1>5. report' \cap reachable' = {} /\ report' \subseteq DOMAIN nodes'
  BY <1>1 DEF FinishMark
<1>6. MarkedInv'
  BY <1>1, <1>2, <1>3, <1>4, <1>5 DEF MarkedInv, Bounds
<1>7. MarkingInv'
  BY <1>1 DEF MarkingInv
<1>8. NamesInv'
  <2>1. \A fqn : LookupSymbol(fqn)' = LookupSymbol(fqn)
    BY <1>1 DEF LookupSymbol, LookupName, LookupMethod, Scope, Typed
  <2> QED
    BY <1>1, <2>1 DEF SearchInv, NamesInv
<1> QED
  BY <1>6, <1>7, <1>8 DEF SearchInv

(* The builder has nothing to do with the search, which starts after it;   *)
(* the browser's search leaves what the server marked alone.               *)
LEMMA ElsewhereStep ==
  ASSUME SearchInv,
         \/ Build \/ StartLocal \/ RebuildGraph \/ UNCHANGED vars
         \/ \E id \in queue : VisitLocal(id)
  PROVE  SearchInv'
<1>1. CASE Build
  <2>1. phase' \notin {"marking", "reported", "local", "shown"}
    BY <1>1 DEF Build, BuilderNext, AddPackage, WirePackage, ResolveImplements,
                BuildNothing, CancelBuild, PassContinues
  <2> QED
    BY <2>1 DEF SearchInv, MarkingInv, MarkedInv, NamesInv
<1>2. CASE UNCHANGED vars
  <2>1. UNCHANGED <<program, phase, nodes, weight, spec, entries, reached, pending,
                    reachable, report>>
    BY <1>2 DEF vars, builderVars, serverVars
  <2>2. \A fqn : LookupSymbol(fqn)' = LookupSymbol(fqn)
    BY <2>1 DEF LookupSymbol, LookupName, LookupMethod, Scope, Typed
  <2>3. NamesInv'
    BY <2>1, <2>2 DEF SearchInv, NamesInv
  <2>4. Edges' = Edges
    BY <2>1 DEF Edges
  <2>5. MarkingInv'
    BY <2>1, <2>4 DEF SearchInv, MarkingInv, Bounds
  <2>6. MarkedInv'
    BY <2>1, <2>4 DEF SearchInv, MarkedInv, Bounds
  <2> QED
    BY <2>3, <2>5, <2>6 DEF SearchInv
<1>3. CASE StartLocal \/ RebuildGraph \/ \E id \in queue : VisitLocal(id)
  <2>1. /\ UNCHANGED <<nodes, weight, entries, reachable, report>>
        /\ phase \in {"reported", "local", "shown"} /\ phase' \in {"local", "shown"}
    BY <1>3 DEF StartLocal, RebuildGraph, VisitLocal, builderVars, serverVars
  <2>2. Edges' = Edges
    BY <2>1 DEF Edges
  <2>3. MarkedInv'
    BY <2>1, <2>2 DEF SearchInv, MarkedInv, Bounds
  <2> QED
    BY <2>1, <2>3 DEF SearchInv, MarkingInv, NamesInv
<1> QED
  BY <1>1, <1>2, <1>3

LEMMA SearchStep ==
  ASSUME SearchInv, [Next]_vars
  PROVE  SearchInv'
BY ResolveEntriesStep, VisitStep, FinishMarkStep, ElsewhereStep
DEF Next, Analyse, Recompute

LEMMA SearchStart == Init => SearchInv
BY DEF Init, BuilderInit, SearchInv, MarkingInv, MarkedInv, NamesInv

(* For every program and spec, the server marks what the entries reach.    *)
THEOREM MarkIsExact == Spec => []MarkExact
<1>1. SearchInv => MarkExact
  BY LeastIsLive DEF SearchInv, MarkedInv, MarkExact
<1> QED
  BY <1>1, SearchStart, SearchStep, PTL DEF Spec

(* For every program and spec, a name that the user gave is an entry that  *)
(* is marked, or nothing is.                                               *)
THEOREM NamesAreMarked == Spec => []EveryNameCounts
<1>1. SearchInv => EveryNameCounts
  <2> SUFFICES ASSUME SearchInv, phase = "reported", NEW fqn \in ByHand(spec)
               PROVE  LookupSymbol(fqn) \cap reachable # {}
    BY DEF EveryNameCounts
  <2>1. LookupSymbol(fqn) # {} /\ LookupSymbol(fqn) \subseteq entries
    BY DEF SearchInv, NamesInv
  <2>2. entries \cap DOMAIN nodes \subseteq reachable
    BY DEF SearchInv, MarkedInv, Bounds
  <2> QED
    BY <2>1, <2>2, LookupInNodes
<1> QED
  BY <1>1, SearchStart, SearchStep, PTL DEF Spec

(* For every program and spec, the report of dead code spares the entries  *)
(* and what the functions that are live use: the builder has made an edge  *)
(* of the use, and the search has followed it.                             *)
THEOREM ReportIsSound == Spec => []ReportSound
<1>1. BuilderInv /\ SearchInv => ReportSound
  <2> SUFFICES ASSUME BuilderInv, SearchInv, phase = "reported"
               PROVE  ReportSound
    BY DEF ReportSound
  <2>1. /\ Bounds(reachable, entries)
        /\ report \cap reachable = {} /\ report \subseteq DOMAIN nodes
    BY DEF SearchInv, MarkedInv
  <2>2. report \cap entries = {}
    BY <2>1 DEF Bounds
  <2>3. ASSUME NEW p \in Range(program.pkgs), NEW use \in Range(p.uses),
               {use.in, use.object} \subseteq DOMAIN objectIDs,
               objectIDs[use.in] \in reachable
        PROVE  objectIDs[use.object] \notin report
    <3>1. CASE objectIDs[use.in] = objectIDs[use.object]
      BY <2>1, <2>3, <3>1
    <3>2. CASE objectIDs[use.in] # objectIDs[use.object]
      <4>1. PICK i \in DOMAIN program.pkgs : p = program.pkgs[i]
        BY DEF Range
      <4>2. IsWired(i) /\ IsWire(use)
        BY <2>3, <3>2 DEF IsWired, Later, IsWire
      <4>3. Wire(use) \in Edges
        BY <2>3, <4>1, <4>2 DEF BuilderInv, WiredInv
      <4>4. /\ Wire(use).source = objectIDs[use.in]
            /\ Wire(use).target = objectIDs[use.object]
            /\ Wire(use).kind # "imports"
        BY DEF Wire, Edge
      <4>5. objectIDs[use.object] \in reachable
        <5>1. objectIDs[use.object] \in DOMAIN nodes
          BY <2>3 DEF BuilderInv, RecordedInv
        <5> QED
          BY <2>1, <2>3, <4>3, <4>4, <5>1 DEF Bounds, Closed
      <4> QED
        BY <2>1, <4>5
    <3> QED
      BY <3>1, <3>2
  <2> QED
    BY <2>2, <2>3 DEF ReportSound
<1> QED
  BY <1>1, BuilderStart, BuilderStep, SearchStart, SearchStep, PTL DEF Spec

-----------------------------------------------------------------------------
(* The search of the browser.                                              *)

(* Of what it has found, the nodes are in every closed set that holds the  *)
(* entries it picked.  It may find what is no node, and stops there: edges *)
(* start at nodes.                                                         *)
LocalInv ==
  /\ phase = "local" =>
       /\ queue \subseteq visited
       /\ \A set : Bounds(set, localIDs) => visited \cap DOMAIN nodes \subseteq set
  /\ phase = "shown" =>
       /\ shown \subseteq DOMAIN nodes
       /\ \A set : Bounds(set, localIDs) => shown \subseteq set

LEMMA VisitLocalStep ==
  ASSUME BuilderInv, LocalInv, NEW id \in queue, VisitLocal(id)
  PROVE  LocalInv'
<1>1. /\ phase = "local" /\ phase' = "local" /\ Edges' = Edges
      /\ UNCHANGED <<nodes, localIDs>>
      /\ visited' = visited \cup LocalSuccessors(id)
      /\ queue' \subseteq queue \cup visited'
  BY DEF VisitLocal, builderVars, Edges
<1>2. id \in visited /\ queue \subseteq visited
  BY <1>1 DEF LocalInv
<1>3. ASSUME NEW set, Bounds(set, localIDs)
      PROVE  visited' \cap DOMAIN nodes \subseteq set
  <2>1. visited \cap DOMAIN nodes \subseteq set
    BY <1>1, <1>3 DEF LocalInv
  <2>2. ASSUME NEW to \in LocalSuccessors(id) \cap DOMAIN nodes
        PROVE  to \in set
    <3>1. PICK e \in Edges : e.source = id /\ e.kind # "imports" /\ e.target = to
      BY <2>2 DEF LocalSuccessors
    <3>2. id \in set
      BY <1>2, <2>1, <3>1 DEF BuilderInv, RecordedInv
    <3> QED
      BY <1>3, <2>2, <3>1, <3>2 DEF Bounds, Closed
  <2> QED
    BY <1>1, <2>1, <2>2
<1> QED
  BY <1>1, <1>2, <1>3 DEF LocalInv, Bounds

LEMMA LocalStep ==
  ASSUME BuilderInv, LocalInv, [Next]_vars
  PROVE  LocalInv'
<1>1. CASE Analyse
  <2>1. phase' \notin {"local", "shown"}
    BY <1>1 DEF Analyse, Build, BuilderNext, AddPackage, WirePackage, ResolveImplements,
                BuildNothing, CancelBuild, PassContinues, ResolveEntries, Visit, FinishMark,
                builderVars
  <2> QED
    BY <2>1 DEF LocalInv
<1>2. CASE StartLocal
  <2>1. /\ phase' = "local" /\ UNCHANGED nodes /\ Edges' = Edges
        /\ visited' = localIDs' /\ queue' = localIDs'
    BY <1>2 DEF StartLocal, Edges
  <2> QED
    BY <2>1 DEF LocalInv, Bounds
<1>3. CASE \E id \in queue : VisitLocal(id)
  BY <1>3, VisitLocalStep
<1>4. CASE RebuildGraph
  <2>1. /\ phase = "local" /\ phase' = "shown" /\ Edges' = Edges
        /\ UNCHANGED <<nodes, localIDs>>
        /\ shown' = (visited \cup localIDs) \cap DOMAIN nodes
    BY <1>4 DEF RebuildGraph, Edges
  <2>2. ASSUME NEW set, Bounds(set, localIDs)
        PROVE  shown' \subseteq set
    BY <2>1, <2>2 DEF LocalInv, Bounds
  <2> QED
    BY <2>1, <2>2 DEF LocalInv, Bounds
<1>5. CASE UNCHANGED vars
  <2>1. UNCHANGED <<phase, nodes, localIDs, visited, queue, shown>> /\ Edges' = Edges
    BY <1>5 DEF vars, builderVars, browserVars, Edges
  <2> QED
    BY <2>1 DEF LocalInv, Bounds
<1> QED
  BY <1>1, <1>2, <1>3, <1>4, <1>5 DEF Next, Recompute

(* For every program, graph and choice of entry points, the browser shows  *)
(* nothing as live that the server's rule would not reach.                 *)
THEOREM LocalIsNarrower == Spec => []LocalNeverWidens
<1>1. Init => LocalInv
  BY DEF Init, BuilderInit, LocalInv
<1>2. LocalInv => LocalNeverWidens
  BY DEF LocalInv, LocalNeverWidens, Live, Bounds
<1> QED
  BY <1>1, <1>2, BuilderStart, BuilderStep, LocalStep, PTL DEF Spec
=============================================================================
