SPECIFICATION PictureSpec
CONSTANTS
  Addresses = {a1}
  Nothing = Nothing
  Kinds = {"AirbornePosition", "Reply"}
  Spoken = {"fix"}
  Values = {0, 1}
  Steps = {1}
  Circle = 2
  WIND_WITHIN = 1
  RELATED = 1
  LAPSE = 2
  IDENTIFICATION_LAPSE = 4
  HISTORY_RETENTION_SEC = 8
  REMEMBERED_SEC = 4
  MaxNow = 8
  MaxMessages = 4
  MaxGap = 1
  MaxAway = 6
INVARIANTS FlightsApart
CHECK_DEADLOCK FALSE
