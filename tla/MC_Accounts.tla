----------------------------- MODULE MC_Accounts -----------------------------
EXTENDS Accounts

\* One administrator is set up and creates others; two changes run at once.
McBudgets == {[setup |-> 1, create |-> 2, update |-> 2, delete |-> 1, fault |-> 0, restart |-> 0]}
=============================================================================
