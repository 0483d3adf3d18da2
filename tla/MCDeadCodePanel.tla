--------------------------- MODULE MCDeadCodePanel --------------------------
EXTENDS DeadCodePanel, TLC

(* var a, b = 1, 2                                                         *)
OneLine == <<"a", "b">>
OneLinePlace == [n \in {"a", "b"} |-> "main.go:3"]

Alike == Permutations(Projects) \cup Permutations(Slots)

Alone == <<"a">>
AlonePlace == [n \in {"a"} |-> "main.go:3"]
=============================================================================
