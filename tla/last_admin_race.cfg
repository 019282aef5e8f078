SPECIFICATION Spec
CONSTANTS
  Users = {"u1", "u2", "u3"}
  Calls = {1, 2}
  EnvToken = FALSE
  AccountBudgets <- McBudgets
INVARIANT NeverWithoutAdmin
CHECK_DEADLOCK FALSE
