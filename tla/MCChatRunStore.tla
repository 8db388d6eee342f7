--------------------------- MODULE MCChatRunStore ---------------------------
(* Model checking of ChatRunStore: runs and request ids are interchangeable. *)
EXTENDS ChatRunStore, TLC

Symmetry == Permutations(Runs) \cup Permutations(Requests)
=============================================================================
