SPECIFICATION MCSpec
CONSTANTS
  None = None
  Junk = Junk
  OnGround = OnGround
  PartsRun = {"settings", "sheet", "instruments"}
  Mixed = FALSE
  Tall = {"list"}
  Short = {"maps"}
  MEDIUM = 2
  LARGE = 5
  Fingers = {f1, f2}
  DECIDE = 1
  PULL = 2
  Speeds = {0, 1, 3}
  FLING = 3
  COAST = 3
  RUBBER = 55
  w1 = w1
  w2 = w2
  l1 = l1
  l2 = l2
  k1 = k1
  k2 = k2
  s1 = s1
  s2 = s2
  laneA = laneA
  laneB = laneB
  A = A
  B = B
  C = C
  item = item
INVARIANTS SettingsKept SheetFollows InstrumentsTrue
PROPERTIES NeverJumps
CHECK_DEADLOCK FALSE
