SPECIFICATION RendererSpec
CONSTANTS
  Slots = {"targets", "overlays"}
  MaxChanges = 2
INVARIANT ClosedOnceLost
CHECK_DEADLOCK FALSE
