SPECIFICATION Spec
CONSTANTS
  Machines = {m1, m2}
  NoMachine = NoMachine
  Windows = {m1}
  Enrolled = {}
  Tokens = {t1, t2}
  NoToken = NoToken
  Secrets = {s1, s2, s3}
  NoSecret = NoSecret
  Conns = {c1, c2}
  NoConn = NoConn
  Faults = {"mint", "reenroll", "install", "drop", "dberror", "revoke"}
  Calms = FALSE
SYMMETRY Symmetry
CHECK_DEADLOCK FALSE
INVARIANTS CredentialsPaid RegisteredHasCredential
PROPERTIES PromotesWhatHubHolds
