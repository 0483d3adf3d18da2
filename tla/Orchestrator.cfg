SPECIFICATION Spec
CONSTANTS
  Requests = {r1, r2}
  ProjectIDs = {p1}
  Capacity = 1
  MaxTicks = 2
  MaxChunks = 2
  NoRequest = NoRequest
  NoProject = NoProject
SYMMETRY MCSymmetry
INVARIANTS SingleFlight EndIsAnnounced
PROPERTIES PhasesInOrder ImplementsStream
