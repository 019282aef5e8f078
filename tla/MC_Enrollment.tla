---------------------------- MODULE MC_Enrollment ----------------------------
EXTENDS Enrollment, TLC

Symmetry == Permutations(Secrets) \cup Permutations(Conns) \cup Permutations(Tokens)

\* Whatever frame is lost and whoever crashes, the agent's files hold a secret the
\* hub takes, and the one connectLoop falls back to is such a secret.
StaysEnrolled == NotStranded /\ FallbackIsValid
==============================================================================
