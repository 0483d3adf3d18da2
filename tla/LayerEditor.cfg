SPECIFICATION Spec
CONSTANTS
    Graphs = {"small", "large"}
    NodesOf <- MCNodesOf
    DepthsOf <- MCDepthsOf
    Groups = {1}
    Imports <- MCImports
    MaxSlots = 2
    MaxPresetSlots = 1
    None = None
INVARIANTS
    ArrangementsConsistent
    ArrangementKept
    DropIsKept
