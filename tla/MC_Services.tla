----------------------------- MODULE MC_Services -----------------------------
EXTENDS Services

A(n, t, r, f, v, d) ==
    [connect |-> n, flip |-> t, restart |-> r, fault |-> f, revoke |-> v, delete |-> d]
McAiBudgets ==
    {A(2, 1, 1, 1, 0, 0), A(1, 2, 1, 1, 0, 0), A(2, 1, 0, 0, 1, 1), A(0, 0, 0, 0, 0, 0)}
=============================================================================
