SPECIFICATION MCSpec
CONSTANTS
  Addresses = {a1, a2}
  Nothing = Nothing
  OnGround = OnGround
  Kinds = {"Identification", "Reply", "CallsignRegister", "Velocity", "TrackAndTurn", "SurfacePosition", "HeadingAndSpeed"}
  Spoken = {"callsign", "ground_speed_kt", "track_deg", "magnetic_heading_deg", "true_airspeed_kt", "mach"}
  Values = {0, 1, 2}
  Steps = {1, 2, 4}
  Circle = 8
  WIND_WITHIN = 1
  RELATED = 2
  LAPSE = 3
  IDENTIFICATION_LAPSE = 4
  MaxNow = 6
  MaxMessages = 4
INVARIANTS Records FixesSound LanesTrue
PROPERTIES ValuesSteady
CHECK_DEADLOCK FALSE
