SPECIFICATION LayoutsSpec
CONSTANTS
    Graphs <- MCGraphs
    Editors <- MCEditors
    Openings <- MCOpenings
    Expansions <- MCExpansions
    MaxNodesPerColumn = 2
    MaxLaneHeight = 4800
    MaxMembersPerColumn = 2
INVARIANTS
    PlacedWhereItBelongs
    BoxesApart
    LayersInOrder
    MembersApart
CHECK_DEADLOCK FALSE
