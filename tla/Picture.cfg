SPECIFICATION MCSpec
CONSTANTS
  Addresses = {a1}
  Nothing = Nothing
  Kinds = {"AirbornePosition", "Reply"}
  Spoken = {"fix"}
  Values = {0, 1}
  Steps = {1}
  Circle = 2
  WIND_WITHIN = 1
  RELATED = 1
  LAPSE = 1
  IDENTIFICATION_LAPSE = 2
  HISTORY_RETENTION_SEC = 4
  REMEMBERED_SEC = 2
  MaxNow = 8
  MaxMessages = 4
  MaxGap = 2
  MaxAway = 2
  north = north
  east = east
  v1 = v1
  v2 = v2
  v3 = v3
  NoOne = NoOne
  p1 = p1
  p2 = p2
  p3 = p3
INVARIANTS StoreSound Ordered OperatorKept ChartTrue
PROPERTIES AsShown
CHECK_DEADLOCK FALSE
