SPECIFICATION SumSpec
CONSTANTS
  Machines = {m1}
  NoMachine = NoMachine
  Conns = {c1}
  NoConn = NoConn
  SHAs = {A, B}
  NoSHA = NoSHA
  Dwell = 0
  Gap = 0
  CanaryCapacity = 1
  BatchCapacity = 2
  AttemptTimeout = 2
  Grace = 1
  MaxResends = 1
  MaxGen = 1
  MaxAttempts = 2
  MaxStage = 1
  Faults = {"crash", "pause", "delete", "revoke"}
  Free = {"crash", "pause", "delete", "revoke"}
  MaxFaults = 0
  Sockets = {k1, k2}
  NoSocket = NoSocket
  HealthDwell = 2
  HealthGap = 1
  MaxClock = 2
  MaxFrames = 4
  MaxHealthGen = 2
SYMMETRY Symmetry
INVARIANTS SentIsTracked SendBarrier SlotHasMachine DwellIsObserved
PROPERTIES DecidedStays DeadlineFixed RefinesPolicy
