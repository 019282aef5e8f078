--------------------------- MODULE MC_AgentRollout ---------------------------
EXTENDS AgentRollout, TLC

Symmetry == Permutations(Machines) \cup Permutations(Conns) \cup Permutations(SHAs)
==============================================================================
