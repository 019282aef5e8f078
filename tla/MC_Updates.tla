------------------------------ MODULE MC_Updates ------------------------------
EXTENDS Updates

\* Builds of release 1, 2 (a good one and one that crash-loops), 3 (unsigned)
\* and one without a release.
McBins == {"r1", "r2", "r2b", "r3", "r0"}
McRel == [b \in McBins |-> CASE b = "r1" -> 1 [] b \in {"r2", "r2b"} -> 2
                             [] b = "r3" -> 3 [] b = "r0" -> 0]
McSigned == McBins \ {"r3"}

S(c, p, f, e, s) == [crash |-> c, power |-> p, fault |-> f, edit |-> e, serve |-> s]
McSelfBudgets ==
    {S(1, 0, 1, 1, 1), S(0, 1, 1, 0, 1), S(1, 1, 0, 0, 2), S(0, 0, 0, 1, 2), S(0, 0, 0, 0, 0)}

H(k, r, f, w) == [kill |-> k, reboot |-> r, fault |-> f, write |-> w]
McBudgets == {H(1, 0, 1, 1), H(0, 1, 1, 1), H(1, 1, 0, 1), H(0, 0, 0, 0)}
=============================================================================
