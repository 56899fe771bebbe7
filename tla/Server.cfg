SPECIFICATION FairSpec
CONSTANTS
  Tasks = {"source", "stream", "copy", "told", "newest", "door", "range"}
  every = 2
  SILENT_FOR = 6
  RETRY_AFTER = 1
  LATE = 3
  RENEW_AT = 3
  RENEW_RETRY_AFTER = 1
  MaxVersions = 2
  MaxCrashes = 2
  MaxSets = 1
  None = None
  Part = Part
  Times = {0, 3, 6}
  CLOCK_SLACK = 1
  AUTHORITY_LASTS = 3
  MaxMade = 2
  MaxStops = 3
  Subjects = {h1, h2, h3}
  Unnamed = Unnamed
  REISSUE_AFTER = 2
  CERTIFICATE_LASTS = 3
  MOST_SUBJECTS = 2
  Untold = Untold
  s1 = s1
  s2 = s2
  p1 = p1
  p2 = p2
  q1 = q1
  q2 = q2
  ESCAPE = esc
  Other = {x}
  LengthOf <- Bodies
  ModeS = {"2", "3"}
  MaxFrames = 2
  MaxConnections = 2
INVARIANTS TrustedOnce ShownGood Bounded ExactlyWhole ToldIsKept WeatherTold
PROPERTIES RefusedOnlyWhen Spaced HeardAgain RenewalReaches LeavesAreTold
CHECK_DEADLOCK FALSE
