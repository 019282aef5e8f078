SPECIFICATION UpdatesLiveSpec
CONSTANTS
  Modes = {"native", "compose"}
  Rids = {"q1", "q2"}
  Budgets <- McBudgets
  None = "none"
  Bins <- McBins
  Rel <- McRel
  Signed <- McSigned
  Broken = {"r2b"}
  First = "r1"
  Oses = {"linux", "windows"}
  SelfBudgets <- McSelfBudgets
  MaxHelpers = 2
  Torn = "torn"
  Corrupt = "corrupt"
INVARIANTS FloorCoversBinary NoWriteLost BuildIsWhole
PROPERTIES OnlyForward Converges ServiceReturns
CHECK_DEADLOCK FALSE
