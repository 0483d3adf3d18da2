------------------------------ MODULE MCCanvas ------------------------------
(* Two packages; P has a struct with a method that calls into Q, and Q a   *)
(* function that returns the struct.                                       *)
EXTENDS Canvas, TLC

MCNodes == {"P", "s", "m", "Q", "f"}
MCPackageOf == [n \in MCNodes |-> IF n \in {"P", "s", "m"} THEN "P" ELSE "Q"]
MCKindOf ==
    [n \in MCNodes |-> CASE n \in {"P", "Q"} -> "package"
                        [] n = "s" -> "struct"
                        [] n = "m" -> "method"
                        [] n = "f" -> "func"]
Edge(a, b, k) == [from |-> a, to |-> b, kind |-> k]
MCEdges ==
    {Edge("P", "s", "contains"), Edge("s", "m", "contains"), Edge("Q", "f", "contains"),
     Edge("P", "Q", "imports"), Edge("m", "f", "calls"), Edge("f", "s", "references")}
MCSymmetry == Permutations(Projects)
=============================================================================
