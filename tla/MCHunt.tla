------------------------------- MODULE MCHunt -------------------------------
(* One instance with two items. *)
EXTENDS Hunt, TLC

CONSTANTS i1, x1, x2
MCOne == {i1}
MCItems == {x1, x2}
MCSymmetry == Permutations(Items)
=============================================================================
