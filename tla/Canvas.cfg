SPECIFICATION Spec
CONSTANTS
    Projects = {p1, p2}
    Nodes <- MCNodes
    PackageOf <- MCPackageOf
    KindOf <- MCKindOf
    Edges <- MCEdges
    MaxFetches = 2
    None = None
SYMMETRY MCSymmetry
INVARIANTS
    MembersMeanExpanded
    MarkMeansRequest
PROPERTIES
    ArrowKept
