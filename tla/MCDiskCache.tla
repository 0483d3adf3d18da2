---------------------------- MODULE MCDiskCache ----------------------------
EXTENDS DiskCache, TLC
MCArtefacts == {"graph.json"}
MCSymmetry == Permutations(Workers) \cup Permutations(ProjectIDs)
============================================================================
