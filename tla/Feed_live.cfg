SPECIFICATION FairSpec
CONSTANTS
  Clients = {c1}
  Foreign = {}
  Slots = {s1, s2}
  None = None
  MaxSessions = 1
  Cadence = 2
  Retention = 4
  Window = 1
  Reports = {none, r1}
  NoReport = none
  MaxNow = 2
  MaxStepsBack = 1
  MaxRestarts = 1
  MaxCert = 1
  MaxLate = 1
INVARIANT WeatherSettled
PROPERTIES CatchesUp StopEnds Promised
CHECK_DEADLOCK FALSE
