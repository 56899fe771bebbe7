SPECIFICATION MCSpec
CONSTANTS
  None = None
  Fingers = {f1, f2, f3}
  MaxFingers = 3
  AllLanes = {a, i}
  Instruments = {i}
  MaxRaces = 1
  MIN_WINDOW_SEC = 2
  WIDTH = 2
  MaxNow = 5
  Identities = {i1, i2}
  MaxImports = 2
  MaxLoads = 1
  Older = {i1}
  PartsRun = {"touch", "mouse", "chords", "both", "lanes", "window", "sets", "tree", "column"}
INVARIANTS LetGo SetsKept
PROPERTIES WindowShown
CHECK_DEADLOCK FALSE
