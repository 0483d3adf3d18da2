------------------------- MODULE MCProjectLifecycle -------------------------
EXTENDS ProjectLifecycle, TLC
MCSymmetry == Permutations(Requests) \cup Permutations(ProjectIDs) \cup Permutations(Parts)
=============================================================================
