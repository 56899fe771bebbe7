----------------------------- MODULE MCTracker ------------------------------
(***************************************************************************)
(* The tracker, on inputs as few as each of its questions allows: one of   *)
(* callsigns and lapses, one of values in steps, one of what is derived,   *)
(* one of positions, and one of what a lane of the scope draws of a        *)
(* contact heard so.  A behaviour is of the question it begins with.       *)
(***************************************************************************)
EXTENDS Traffic, TLC

CONSTANT OnGround

VARIABLES question,
          site, place, pairing, fix, truth,
          lane, samples, shownAt, window, hoverPx

(* Picked one by one, for TLC to list them once. *)
Picked(S, kinds, spoken, values, steps) ==
  UNION {IF /\ m.kind \in kinds /\ DOMAIN m.said \subseteq spoken
            /\ \A f \in DOMAIN m.said : m.said[f] \in values
            /\ m.step \in steps \cup {0}
         THEN {m} ELSE {} : m \in S}

Asked(addresses, kinds, spoken, values, steps, until, most) ==
  [addresses |-> addresses, until |-> until, most |-> most,
   messages |-> Picked(Messages, kinds, spoken, values, steps),
   answers |-> Picked(Readings, kinds, spoken, values, steps)]

One == {CHOOSE a \in Addresses : TRUE}

Inputs ==
  [calls |-> Asked(Addresses, {"Identification", "Reply", "CallsignRegister"},
                   {"callsign"}, {0, 1}, {1}, 7, 4),
   said  |-> Asked(One, {"Velocity", "Reply", "TrackAndTurn", "SurfacePosition"},
                   {"ground_speed_kt"}, Values, Steps, 4, 4),
   drawn |-> Asked(One, {"Reply", "TrackAndTurn", "HeadingAndSpeed"},
                   Spoken, {0, 1}, {1}, 2, 3)]

(* A globe of two zones a quadrant, whose zones of longitude change in     *)
(* number where the code's formula has them do so.                         *)
MCBoundaries ==
  2 :> 5376 @@ 3 :> 5080 @@ 4 :> 4556 @@ 5 :> 3936 @@ 6 :> 3188 @@ 7 :> 2236
At(lat, lon) == [lat |-> lat, lon |-> lon]
FlownUntil == 4

Flown == INSTANCE Fixes WITH
  QUADRANT <- 2, STEPS <- 128, Multiple <- 420, Boundaries <- MCBoundaries,
  Sites <- {At(2200, 107000), At(-3900, -30000), At(10, 500), At(5300, -107400)},
  Starts <- {At(0, 0), At(-150, 2100), At(2400, 20000)},
  Moves <- {At(0, 0), At(100, 900), At(-100, -900)},
  NearGround <- 12, MAX_RANGE <- 80, PAIR_WITHIN <- 2, LAPSE <- 3, MaxNow <- FlownUntil

(* A gap of six seconds and a minimum window as long; a contact kept for   *)
(* nine.  Values are near a step of the scale, altitudes either side of    *)
(* the transition by the crew's setting and the operator's, a turn round   *)
(* north, two targets either side of the other, and winds that round up    *)
(* and down.                                                               *)
LaneNews ==
  [alt   |-> {"verticalRate" :> -1, "alt" :> 5 @@ "verticalRate" :> -2 @@ "selAlt" :> 60,
              "alt" :> 25 @@ "navQnh" :> -3 @@ "selAlt" :> 59,
              "alt" :> OnGround @@ "fmsAlt" :> 91 @@ "selAlt" :> Nothing @@ "navQnh" :> Nothing},
   trk   |-> {<<>>, "track" :> 350 @@ "heading" :> Nothing @@ "navModes" :> Nothing,
              "heading" :> 352 @@ "selHeading" :> 354 @@ "navModes" :> <<"autopilot">>,
              "heading" :> 340 @@ "selHeading" :> 0, "navModes" :> <<"lnav">>},
   modes |-> {<<>>, "navModes" :> <<"autopilot">>, "navModes" :> <<"autopilot", "lnav">>,
              "navModes" :> Nothing},
   wind  |-> {<<>>, "windSpeed" :> 58 @@ "windDir" :> 240, "windSpeed" :> 2 @@ "windDir" :> 250,
              "windSpeed" :> Nothing @@ "windDir" :> Nothing},
   age   |-> {"seen" :> 0 @@ "seenPos" :> 13, "seen" :> 1}]

Drawn == INSTANCE Strips WITH
  None <- Nothing, Ground <- OnGround, now <- shownAt, LANES <- DOMAIN LaneNews, News <- LaneNews,
  Elapsed <- {3, 6}, LAPSE_SEC <- 6, MIN_WINDOW_SEC <- 6, LENGTH <- 9, RETENTION_SEC <- 9,
  WIDTH <- 144, Pixels <- {0, 72}, HEIGHT <- 84, PAD_TOP <- 22, PAD_BOTTOM <- 11,
  STEPS_SEC <- <<2, 3, 6, 12>>, HOUR_SEC <- 24,
  GLYPH_PITCH <- 36, GLYPH_REACH <- 20, BARB_PITCH <- 32, BARB_REACH <- 18,
  TRANSITION <- 24, OPERATOR <- 2,
  AGREE_FT <- 32, HOLD_DEG <- 3, CLIMB_DEAD_BAND <- 1, MaxNow <- 12

ASSUME TrackerAssumption ==
  /\ TrafficAssumption /\ Flown!FixesAssumption /\ Drawn!StripsAssumption
  /\ Addresses # {} /\ FlownUntil <= MaxNow

fixVars == <<site, place, pairing, fix, truth>>
laneVars == <<lane, samples, shownAt, window, hoverPx>>
Flying == question = "flown"
Drawing == question = "drawn in a lane"
NoFix == site = 0 /\ place = 0 /\ pairing = 0 /\ fix = 0 /\ truth = 0
NoLane == lane = 0 /\ samples = 0 /\ shownAt = 0 /\ window = 0 /\ hoverPx = 0

MCInit ==
  \/ question \in DOMAIN Inputs /\ Init /\ NoFix /\ NoLane
  \/ question = "flown" /\ Init /\ Flown!Init /\ NoLane
  \/ question = "drawn in a lane" /\ Init /\ NoFix /\ Drawn!Init

(* The messages of the question, and how long it goes on. *)
MCTick == now < Inputs[question].until /\ Tick
MCListen ==
  LET inputs == Inputs[question] IN
  /\ messages < inputs.most
  /\ \E a \in inputs.addresses, trust \in {"announced", "recovered"},
        m \in inputs.messages, answer \in inputs.answers \cup {Nothing} :
       Hear(a, trust, m, answer)

MCNext ==
  /\ UNCHANGED question
  /\ \/ /\ question \in DOMAIN Inputs /\ (MCTick \/ MCListen \/ Snapshot)
        /\ UNCHANGED <<fixVars, laneVars>>
     \/ /\ Flying /\ Flown!Next
        /\ UNCHANGED <<aircraft, remembered, messages, called, newest, announced, laneVars>>
     \/ Drawing /\ Drawn!Next /\ UNCHANGED <<vars, fixVars>>

MCSpec == MCInit /\ [][MCNext]_<<question, vars, fixVars, laneVars>>

-----------------------------------------------------------------------------
(* What is checked here of the tracker itself is Traffic's Records and     *)
(* ValuesSteady.                                                           *)

(* Fixes.FixIsTrue and Fixes.PairPlaces: an aircraft is fixed where it     *)
(* was, and two of its positions heard together do fix it.                 *)
FixesSound == Flying => Flown!FixIsTrue /\ Flown!PairPlaces

(* Strips.StripsTrue: what a lane draws of a contact and reads at the      *)
(* pointer is what was heard of it, and nothing is drawn where nothing     *)
(* was (trace.ts:43).                                                      *)
LanesTrue == Drawing => Drawn!StripsTrue
=============================================================================
