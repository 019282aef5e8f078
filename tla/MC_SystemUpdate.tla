--------------------------- MODULE MC_SystemUpdate ---------------------------
EXTENDS SystemUpdate

\* One crash of the worker, nothing else.
McBudgets == {[kill |-> 1, reboot |-> 0, fault |-> 0, write |-> 0]}
=============================================================================
