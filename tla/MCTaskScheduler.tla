-------------------------- MODULE MCTaskScheduler --------------------------
EXTENDS TaskScheduler, TLC

Symmetry == Permutations(Schedulers) \cup Permutations(Runs)
=============================================================================
