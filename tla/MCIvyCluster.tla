---------------------------- MODULE MCIvyCluster ----------------------------
\* Instances of IvyCluster for TLC.
EXTENDS IvyCluster, TLC

\* Calls are interchangeable: nothing orders their identities.
CallSymmetry == Permutations(Call)
=============================================================================
