--------------------------- MODULE MCKnowledgeBase ---------------------------
(***************************************************************************)
(* Instances of KnowledgeBase: two writers that take the lease in turn.    *)
(***************************************************************************)
EXTENDS KnowledgeBase, TLC

CONSTANTS w1, w2, a

TwoWriters == {w1, w2}
OneWriter == {w1}
OnePage == {a}
AnyWriter == Permutations(TwoWriters)

=============================================================================
