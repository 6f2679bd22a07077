---------------------------- MODULE MCUserPanel -----------------------------
(* UserPanel for TLC: which of the users has which id does not matter.       *)
EXTENDS UserPanel

MCSymmetry == Permutations(Ids)
=============================================================================
