------------------------------ MODULE MCRBTree ------------------------------
(***************************************************************************)
(* The red-black tree alone, for TLC: four keys are enough for a deleted   *)
(* node whose right child has a left one.                                  *)
(***************************************************************************)
EXTENDS RBTree

MCEntry == {<<k, k>> : k \in 1 .. 4}

=============================================================================
