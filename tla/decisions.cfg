SPECIFICATION DecisionsSpec
CONSTANTS
  Machines = {m1, m2, m3, m4}
  CanaryCapacity = 1
  BatchCapacity = 2
  MaxStage = 2
  Rules = {"hot", "gone"}
  Offline = {"gone"}
  Duration <- McDuration
  Threshold = 1
  Intervals = {0, 1}
  Fresh = 1
  Continuity = 1
  Levels = {0, 2, None}
  LongPoll = 0
  Switched = {{"hot"}, {"gone"}}
  MaxTime = 3
  AlertBudgets <- McAlertBudgets
  None = None
  Users = {"u1", "u2", "u3"}
  Calls = {1, 2}
  EnvToken = FALSE
  AccountBudgets <- McAccountBudgets
  Pollers = {1, 2, 3, 4}
  Settings = {"s1", "s2"}
  Requests = {1, 2}
  PollerBudgets <- McPollerBudgets
  Gpus = {"g1", "g2", "g3"}
  Domains = {"cpu"}
  Sources = {s1, s2}
  Watts = {1}
  Expected = 2
  MaxSensors = 2
  MaxEvents = 3
  Charted = {"m1", "m2"}
  Width = 2
  Bins = 2
  Now = 3
  Skew = 0
  Lookback = 1
  Stores <- McStores
  Arrivals <- McArrivals
  Caps = {0, 1, 2}
  Symbols <- McSymbols
  Prefix <- McPrefix
  Numbers = {"7", "8"}
  Stop = ":"
  Chunk = 5
  Streams <- McStreams
  Unnumbered = "unnumbered"
  Refused = "refused"
  Reading = "reading"
INVARIANTS ExposureBounded CanaryFirst OpenedWhenHeld AdminsKept OnePoller WindowsAreSound
           FleetReadsAreTrue ScanIsContract
PROPERTIES EndsByEvidence
CHECK_DEADLOCK FALSE
