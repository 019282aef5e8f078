SPECIFICATION ServicesLiveSpec
CONSTANTS
  Conns = {1, 2}
  Toggles = {1, 2}
  AiBudgets <- McAiBudgets
  Browsers = {"b1", "b2"}
  Targets = {"t1", "t2", "t3"}
  Severing = {"t1"}
  Concurrency = 2
INVARIANTS NothingKept AnswersAreTrue
PROPERTIES GateFollowsSwitch RequestsEnd
CHECK_DEADLOCK FALSE
