--------------------------- MODULE MCOrchestrator ---------------------------
EXTENDS Orchestrator, TLC
MCSymmetry == Permutations(Requests)
=============================================================================
