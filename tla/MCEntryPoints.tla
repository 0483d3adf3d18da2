---------------------------- MODULE MCEntryPoints ---------------------------
(***************************************************************************)
(* A struct with a method, a method whose struct is not on the canvas, and *)
(* a function; the catalogue has the struct too.                           *)
(***************************************************************************)
EXTENDS EntryPoints

S == <<"p", None, "S">>
M == <<"p", "S", "M">>
F == <<"p", None, "F">>
X == <<"p", None, "X">>
Bare == <<"p", None, "M">>
BareN == <<"p", None, "N">>

Nodes == <<[kind |-> "package", package |-> "p", name |-> "p"],
           [kind |-> "struct", package |-> "p", name |-> "S"],
           [kind |-> "method", package |-> "p", name |-> "M"],
           [kind |-> "method", package |-> "p", name |-> "N"],
           [kind |-> "func", package |-> "p", name |-> "F"]>>
MCContents == {[nodes |-> Nodes, contains |-> <<<<1, 2>>, <<2, 3>>, <<1, 5>>>>]}
MCCatalogue == <<F, S, M>>
MCResolvable == {F, S, M}
MCTyped == {X}
MCQueries == {"", "s", "f"}
MCStarts == [q \in MCQueries |-> IF q = "s" THEN {S, M} ELSE IF q = "f" THEN {F} ELSE {}]
MCInWord == [q \in MCQueries |-> {}]
MCInName == [q \in MCQueries |-> {}]
MCInFqn == [q \in MCQueries |-> IF q = "s" THEN {F} ELSE {}]
MCNameLength == [f \in {S, M, F, X, Bare, BareN} |-> IF f = M THEN 3 ELSE 1]
MCPackageOrder == [f \in {S, M, F, X, Bare, BareN} |-> 1]
=============================================================================
