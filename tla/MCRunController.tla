--------------------------- MODULE MCRunController ---------------------------
EXTENDS RunController, TLC

Symmetry == Permutations(Runs)
=============================================================================
