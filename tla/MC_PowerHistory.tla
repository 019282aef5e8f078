--------------------------- MODULE MC_PowerHistory ---------------------------
EXTENDS PowerHistory

\* Ticks and worker steps of a failure, crashes, write errors, lost sends, reads.
Faults(t, s, c, f, l, r) ==
    [tick |-> t, step |-> s, crash |-> c, fault |-> f, loss |-> l, read |-> r]
McBudgets == {Faults(3, 0, 1, 1, 1, 0), Faults(3, 2, 0, 0, 0, 0),
              Faults(4, 0, 0, 0, 1, 0), Faults(3, 0, 0, 0, 1, 2),
              Faults(4, 0, 0, 2, 0, 0)}
=============================================================================
