SPECIFICATION Spec
CONSTANTS
  Workers = {w1, w2}
  ProjectIDs = {p1, p2}
  Artefacts <- MCArtefacts
  IdleTTL = 1
  MaxTime = 2
  MaxRestarts = 1
  NoProject = NoProject
SYMMETRY MCSymmetry
INVARIANTS RegisteredHaveDirs NoLeakedSources
PROPERTIES LiveFilesKept ImplementsRegistry
CHECK_DEADLOCK FALSE
