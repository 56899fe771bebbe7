SPECIFICATION Spec
CONSTANTS
  Clients = {c1, c2}
  Foreign = {c2}
  Slots = {s1, s2, s3}
  None = None
  MaxSessions = 2
  Cadence = 2
  Retention = 2
  Window = 1
  Reports = {none}
  NoReport = none
  MaxNow = 3
  MaxStepsBack = 0
  MaxRestarts = 1
  MaxCert = 1
  MaxLate = 1
SYMMETRY Symmetry
INVARIANTS PermitsBalance WholeHistory
PROPERTIES NothingAfterStop
CHECK_DEADLOCK FALSE
