SPECIFICATION Spec
CONSTANTS
  Addresses = {a1}
  Nothing = Nothing
  Kinds = {"Velocity", "Reply", "TrackAndTurn"}
  Spoken = {"track_deg"}
  Values = {0, 1, 2, 3, 4, 5, 6, 7}
  Steps = {1, 2}
  Circle = 8
  WIND_WITHIN = 1
  RELATED = 2
  LAPSE = 3
  IDENTIFICATION_LAPSE = 3
  MaxNow = 2
  MaxMessages = 3
PROPERTIES BearingsSteady
CHECK_DEADLOCK FALSE
