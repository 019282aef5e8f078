SPECIFICATION LiveSpec
CONSTANTS
  Machines = {m1}
  NoMachine = NoMachine
  Conns = {c1}
  NoConn = NoConn
  SHAs = {A, B}
  NoSHA = NoSHA
  Dwell = 0
  Gap = 0
  CanaryCapacity = 1
  BatchCapacity = 2
  AttemptTimeout = 0
  Grace = 0
  MaxResends = 1
  MaxGen = 1
  MaxAttempts = 1
  MaxStage = 1
  Faults = {"crash","pause","revoke"}
  Free = {"crash"}
  MaxFaults = 1
PROPERTIES AttemptResolves
