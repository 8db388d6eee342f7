-------------------------- MODULE MCSandboxBinder --------------------------
EXTENDS SandboxBinder, TLC

Symmetry == Permutations(Ops) \cup Permutations(Sandboxes)
=============================================================================
