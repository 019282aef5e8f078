SPECIFICATION LiveSpec
CONSTANTS
  Machines = {m1}
  NoMachine = NoMachine
  Windows = {m1}
  Enrolled = {m1}
  Tokens = {t1}
  NoToken = NoToken
  Secrets = {s1, s2, s3, s4}
  NoSecret = NoSecret
  Conns = {c1}
  NoConn = NoConn
  Faults = {"mint", "reenroll", "expire", "install", "drop", "crash", "timeout", "restart", "savefail", "revoke", "delete"}
  Calms = TRUE
CHECK_DEADLOCK FALSE
INVARIANTS StaysEnrolled
PROPERTIES Reconnects ReplacedOnlyByStaged
