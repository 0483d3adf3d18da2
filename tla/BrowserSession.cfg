SPECIFICATION Spec
CONSTANTS
    Projects = {p1, p2}
    Specs = {s1, s2}
    DefaultSpec = s1
    Requests = {r1, r2}
    None = None
INVARIANTS
    OneWantedStream
    ReadyGraphBelongs
    DoneGraphIsOfSpec
PROPERTY
    RunEnds
