-------------------------- MODULE MCRedemptionQueue --------------------------
(* RedemptionQueue on small instances; the .cfg files give the constants.     *)
EXTENDS RedemptionQueue, TLC

Symmetry == Permutations(Users)
=============================================================================
