SPECIFICATION Spec
CONSTANTS
  Modes = {"native", "compose"}
  Rids = {"q1", "q2"}
  Budgets <- McBudgets
  None = "none"
INVARIANT AcceptedRequestRuns
CHECK_DEADLOCK FALSE
