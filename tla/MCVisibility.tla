---------------------------- MODULE MCVisibility ----------------------------
(***************************************************************************)
(* Package a with a struct that has a method, and external package b; the  *)
(* package a is live, or partly dead, or dead.                             *)
(***************************************************************************)
EXTENDS Visibility

MCPackages == {"a", "b"}
MCPackageNode == [p \in MCPackages |-> IF p = "a" THEN "A" ELSE "B"]
MCInside == [p \in MCPackages |-> IF p = "a" THEN {"S"} ELSE {}]
MCMembers == [s \in {"S"} |-> {"M"}]
MCKindOf == [n \in {"A", "B", "S", "M"} |->
    CASE n = "S" -> "struct" [] n = "M" -> "method" [] OTHER -> "package"]
MCPackageOf == [n \in {"A", "B", "S", "M"} |-> IF n = "B" THEN "b" ELSE "a"]
MCEdges == {<<"A", "B">>, <<"A", "S">>, <<"S", "M">>, <<"M", "B">>}
MCGraphs == {[dead |-> {"M"}, partial |-> {"A"}], [dead |-> {"A", "S", "M"}, partial |-> {}]}
MCOtherSpecs == {[DefaultSpec EXCEPT !.off = {"struct"}, !.all = FALSE, !.selected = {"b"}]}
====
