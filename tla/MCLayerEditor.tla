---------------------------- MODULE MCLayerEditor ---------------------------
(* A graph of two packages, one that calls the other, and the same program *)
(* after a re-analysis with one more package at a new depth.               *)
EXTENDS LayerEditor

MCNodesOf == [small |-> {"a", "b"}, large |-> {"a", "b", "c"}]
MCDepthsOf == [small |-> <<0>>, large |-> <<0, 1>>]
MCImports ==
    {[groups |-> {1}, slots |-> <<<<Folder(1)>>>>, unassigned |-> <<Bfs(0)>>]}
=============================================================================
