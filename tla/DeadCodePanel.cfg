SPECIFICATION ReportSpec
CONSTANTS
    Projects = {p1, p2}
    Slots = {s1, s2}
    MaxGen = 2
    Nodes <- Alone
    Place <- AlonePlace
    None = None
SYMMETRY Alike
INVARIANTS
    ReportAnswersLastAsk
    DoneIsReported
