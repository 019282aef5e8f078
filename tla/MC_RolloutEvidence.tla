-------------------------- MODULE MC_RolloutEvidence --------------------------
EXTENDS RolloutEvidence, TLC

Symmetry == {f @@ g : f \in Permutations(SHAs), g \in Permutations(Sockets)}
===============================================================================
