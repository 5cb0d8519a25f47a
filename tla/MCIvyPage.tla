----------------------------- MODULE MCIvyPage -----------------------------
\* Instances of IvyPage, and of its inductive invariants, for TLC.
EXTENDS IvyPageInv, TLC

\* Calls are interchangeable: an identity is only compared for equality.
CallSymmetry == Permutations(Call)
=============================================================================
