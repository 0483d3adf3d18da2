----------------------------- MODULE Filtering ------------------------------
(***************************************************************************)
(* Filtering as counting: what SelectSeq gives.  SelectSeq means nothing   *)
(* to the provers, and nothing could be proved of what is built with it.   *)
(***************************************************************************)
EXTENDS Naturals, Sequences, FiniteSets

(* The elements of a sequence that are in S, in the order of the sequence: *)
(* the n-th has n - 1 of them before it.                                   *)
Kept(s, S) ==
    LET kept == {i \in DOMAIN s : s[i] \in S}
    IN  [n \in 1..Cardinality(kept) |->
            s[CHOOSE i \in kept : Cardinality({j \in kept : j < i}) = n - 1]]
=============================================================================
