SPECIFICATION Spec
CONSTANTS
  Packages <- MCPackages
  PackageNode <- MCPackageNode
  Inside <- MCInside
  Members <- MCMembers
  Structs = {"S"}
  KindOf <- MCKindOf
  PackageOf <- MCPackageOf
  External = {"B"}
  Edges <- MCEdges
  Graphs <- MCGraphs
  Matching = {"S"}
  OtherSpecs <- MCOtherSpecs
  ToggledKinds = {"struct"}
  Roots = {"S"}
  None = None
INVARIANTS ModeHolds FiltersHold NothingLost EditsAreLocal
