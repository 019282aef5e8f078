SPECIFICATION Spec
CONSTANTS
  Machines = {m1}
  NoMachine = NoMachine
  Conns = {c1, c2}
  NoConn = NoConn
  SHAs = {A, B}
  NoSHA = NoSHA
  Dwell = 0
  Gap = 0
  CanaryCapacity = 1
  BatchCapacity = 2
  AttemptTimeout = 0
  Grace = 0
  MaxResends = 0
  MaxGen = 2
  MaxAttempts = 1
  MaxStage = 1
  Faults = {"delete", "displace", "serve", "pause", "revoke"}
  Free = {}
  MaxFaults = 2
SYMMETRY Symmetry
PROPERTIES PromotionEarned ObservedIsRunning
