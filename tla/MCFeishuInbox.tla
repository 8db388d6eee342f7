--------------------------- MODULE MCFeishuInbox ---------------------------
EXTENDS FeishuInbox, TLC

Symmetry == Permutations(Gateways) \cup Permutations(Messages)

\* The messages are interchangeable: it is the same one that is received first.  Any
\* other behaviour is one of these with the messages renamed (a symmetry that a
\* liveness check can use).
NamedInOrder == queue = <<>> \/ Head(queue) = CHOOSE m \in Messages : TRUE
=============================================================================
