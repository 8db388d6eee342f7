---------------------------- MODULE MCTokenQuota ----------------------------
EXTENDS TokenQuota, TLC

UserCap == [s \in Scopes |-> IF s = "user" THEN 1 ELSE 0]
BothCaps == [s \in Scopes |-> IF s = "user" THEN 1 ELSE 2]
SlotSymmetry == Permutations(Slots)
=============================================================================
