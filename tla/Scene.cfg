SPECIFICATION MCFairSpec
CONSTANTS
  Hexes = {h1, h2}
  Dirs = {n, e}
  Nowhere = nowhere
  Null = Null
  MaxAsks = 3
  Slots = {"targets", "overlays"}
  MaxChanges = 3
  None = None
  Unfiled = Unfiled
  Malformed = Malformed
  p1 = p1
  p2 = p2
INVARIANTS InTurn Carried DrawnTrue
PROPERTIES DropStands Keeps SceneDrawn
CHECK_DEADLOCK FALSE
