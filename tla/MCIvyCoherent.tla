--------------------------- MODULE MCIvyCoherent ---------------------------
(* Instances of IvyCoherent for TLC. *)
EXTENDS IvyCoherent, IvyPageCohInv, TLC

\* Calls are interchangeable: an identity is only compared for equality.
CallSymmetry == Permutations(Call)
=============================================================================
