SPECIFICATION Spec
CONSTANTS
  Requests = {r1, r2, r3}
  ProjectIDs = {p1, p2}
  Parts = {e1, e2}
  MaxRuns = 2
  NoProject = NoProject
SYMMETRY MCSymmetry
INVARIANTS UploadsWhole DoneIsServed
PROPERTY ImplementsService
CHECK_DEADLOCK FALSE
