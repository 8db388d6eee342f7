------------------------- MODULE MCSessionStorage -------------------------
EXTENDS SessionStorage, TLC

Symmetry == Permutations(Ops) \cup Permutations(Sandboxes) \cup Permutations(Claims)
=============================================================================
