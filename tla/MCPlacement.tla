----------------------------- MODULE MCPlacement -----------------------------
EXTENDS Placement, TLC

Symmetry == Permutations(Others) \cup Permutations(Streams) \cup Permutations(Sandboxes)
=============================================================================
