------------------------------- MODULE MCPage -------------------------------
(***************************************************************************)
(* The page around the scope: the settings its copies keep in one browser, *)
(* the sheet its panels share on a phone, and its instruments.  They share *)
(* nothing here: one is run at a time, and the others stand at their start.*)
(***************************************************************************)
EXTENDS Integers, Sequences, SequencesExt, TLC

CONSTANTS
  None, OnGround,
  A, B, C,               \* aircraft
  item                   \* what a display draws at a point

VARIABLES
  instrument,            \* the one that is run
  now, clock, framesUntil, framing, key, angle, points, reports,
  own, tracks, moment, standing, range,
  width, of, at, mark,
  pfdNow, value, pfdHeard, seen, samples, pfdMoment, altimeter, changed,
  target, drawnAs, picked, drawnNow, trail, trailSec

Gliding == INSTANCE Glide WITH
  GLIDE <- 2, WRAP <- 32, Angles <- {0, 8, 16, 24},
  Items <- {item}, Spots <- {<<0, 0>>, <<0, 8>>}, Keys <- {1, 2},
  MaxReports <- 3, MaxTime <- 4

(* What may be said of the aircraft of the display: own ship with each     *)
(* advisory, with each value lapsed, lost, on the ground and climbing away *)
(* from the altitude selected; another near, at the edges of the band and  *)
(* off the display; and a third at the end of the range.                   *)
AllFresh == {"position", "alt", "track", "heading", "verticalRate", "gs",
             "selHeading", "selAlt", "trackRate"}
Level ==
  [at |-> <<0, 0>>, alt |-> 1000, track |-> 0, heading |-> 0, gs |-> 120, sel |-> 90,
   modes |-> {}, turn |-> 1, selAlt |-> 1500, rate |-> 500, ra |-> None,
   fresh |-> AllFresh, lost |-> FALSE]
Advised == [terminated |-> FALSE, address |-> None, range |-> None, bearing |-> None,
            altitude |-> None]
NamesB == [Advised EXCEPT !.address = B]
Placed(nm, bearing, alt) ==
  [Advised EXCEPT !.range = nm, !.bearing = bearing, !.altitude = alt]
Aging(t) ==
  {t, [t EXCEPT !.lost = TRUE], [t EXCEPT !.track = None]}
  \cup {[t EXCEPT !.fresh = AllFresh \ {k}] : k \in {"position", "alt", "track", "heading"}}
Said ==
  (A :> (UNION {Aging([Level EXCEPT !.ra = ra]) : ra \in {NamesB, Placed(2, 0, 1450)}}
         \cup {[Level EXCEPT !.ra = ra] :
                 ra \in {None, [NamesB EXCEPT !.terminated = TRUE], Placed(0, 180, None),
                         Placed(3, 90, 900), Placed(None, 0, None)}}
         \cup {[Level EXCEPT !.track = 90, !.ra = ra] : ra \in {None, NamesB}}
         \cup {[Level EXCEPT !.alt = OnGround],
               [Level EXCEPT !.modes = {"lnav"}, !.rate = -500],
               [Level EXCEPT !.modes = None, !.sel = 0, !.turn = 0,
                             !.fresh = AllFresh \ {"selAlt", "selHeading"}],
               [Level EXCEPT !.modes = None, !.gs = 1800,
                             !.fresh = AllFresh \ {"verticalRate", "trackRate"}],
               [Level EXCEPT !.gs = 1800]})
   @@ B :> (Aging([Level EXCEPT !.at = <<1, 3>>, !.alt = 1050, !.track = 180, !.rate = -500])
         \cup {[Level EXCEPT !.at = p, !.alt = a, !.track = 180] :
                 p \in {<<0, 0>>, <<3, 0>>, <<0, -2>>, <<6, 6>>}, a \in {950, 3700, 3750}})
   @@ C :> {[Level EXCEPT !.at = <<2, 3>>], [Level EXCEPT !.at = <<0, 9>>, !.alt = 2300]})

Display == INSTANCE Nd WITH
  Hexes <- {A, B, C}, Samples <- {Level}, Reports <- Said,
  ND_RANGES <- <<10, 20>>, SPAN_NUM <- 373, SPAN_DEN <- 100, R <- 40, EDGE <- 4,
  MARGIN <- 11, TCAS_BAND <- 2700, PROXIMATE_NM <- 6, PROXIMATE_ALT <- 1200,
  ARROW <- 500, LEVEL_OFF_MIN_PX <- 14, TREND_MIN_RATE <- 1

Drawing == INSTANCE Tapes WITH
  Widths <- {300, 337},
  Spans <- [alt |-> {<<-130, 130>>, <<880, 1120>>, <<9880, 10120>>, <<-1020, -980>>},
            ias |-> {<<0, 60>>, <<380, 440>>},
            vs |-> {<<-450, -390>>, <<-60, 60>>, <<980, 1020>>, <<1990, 2010>>,
                    <<5980, 6020>>},
            roll |-> {<<1, 12>>}],
  Marks <- {-400, 0, 530, 12000},
  Rolls <- <<<<5, -12, 13>>, <<3, -4, 5>>, <<4, -3, 5>>, <<12, -5, 13>>, <<1, 0, 1>>,
             <<24, 7, 25>>, <<12, 5, 13>>, <<4, 3, 5>>, <<3, 4, 5>>, <<5, 12, 13>>,
             <<7, 24, 25>>, <<0, 1, 1>>>>,
  Paths <- {<<0, 0>>, <<30, 0>>, <<-150, 90>>, <<300, -200>>}

(* The modes of a target and when they changed; and its values, with the   *)
(* altitude about one selected and about the transition.                   *)
Engaged == INSTANCE Pfd WITH
  now <- pfdNow, heard <- pfdHeard, moment <- pfdMoment,
  Reports <- {[navModes |-> m] : m \in {{}, {"lnav"}, {"lnav", "approach", "althold"}}}
             \cup {[ias |-> 200], <<>>},
  LAPSE <- 3, MODE_CHANGE <- 2, KEEP <- 5, FT_PER_STEP <- 27,
  Altimeters <- {[setting |-> 0, transition |-> 1200]}, MaxTime <- 6
Read == INSTANCE Pfd WITH
  now <- pfdNow, heard <- pfdHeard, moment <- pfdMoment,
  Reports <- {[alt |-> 1000, position |-> 1], [alt |-> OnGround, position |-> 1],
              [alt |-> 1150, selAlt |-> 1049, fmsAlt |-> 1000],
              [navQnh |-> 3, roll |-> 5, gs |-> 100, verticalRate |-> 500],
              [verticalRate |-> 0, gs |-> 0, track |-> 5, nic |-> 8, rc |-> 1],
              [heading |-> 1, selAlt |-> 960], <<>>},
  LAPSE <- 2, MODE_CHANGE <- 1, KEEP <- 3, FT_PER_STEP <- 27,
  Altimeters <- {[setting |-> 0, transition |-> 1200], [setting |-> -2, transition |-> 800]},
  MaxTime <- 4

(* How a target is drawn: in each state of emergency; at levels about the  *)
(* transition, one selected, the edges of a filter and the highest that    *)
(* three digits write; and steered by its crew.                            *)
Known ==
  [squawk |-> 4000, emergency |-> None, ra |-> None, ident |-> FALSE, alt |-> 60,
   verticalRate |-> None, selAlt |-> None, navQnh |-> None, selHeading |-> None,
   navModes |-> None, seenPos |-> 0, source |-> "adsb"]
Resolution(kind, flags, ended) == [kind |-> kind, flags |-> flags, terminated |-> ended]
Resolutions ==
  {None, Resolution("advisory", {"positive", "corrective", "downward"}, FALSE),
   Resolution("advisory", {"corrective"}, TRUE),
   Resolution("corrections", {"positiveClimb", "crossing"}, FALSE),
   Resolution("advisory", {"positive", "corrective", "reversal", "increased"}, FALSE)}
Statuses ==
  {None, "general", "nordo", "unlawful", "downed", "lifeguard", "minfuel", "reserved"}
InDistress ==
  {[Known EXCEPT !.squawk = s, !.emergency = e, !.ra = ra, !.ident = i] :
     s \in {None, 1200, 7500, 7600}, e \in Statuses, ra \in Resolutions, i \in BOOLEAN}
AtLevel ==
  {[Known EXCEPT !.alt = a, !.verticalRate = v, !.selAlt = sel, !.navQnh = q, !.seenPos = age] :
     a \in {None, OnGround, 49, 139, 1002}, v \in {None, 4, -4}, sel \in {None, 51, 1000},
     q \in {None, 2}, age \in {0, 30}}
Steered ==
  {[Known EXCEPT !.selHeading = h, !.navModes = m, !.source = s] :
     h \in {None, 0, 90}, m \in {None, {}, {"lnav"}}, s \in {"adsb", "mlat", "tisb"}}
SeenSo == InDistress \cup AtLevel \cup Steered
Everything == [ground |-> FALSE, lower |-> None, upper |-> None, squawk |-> "all"]
Configured ==
  {[altimeter |-> [transition |-> 140, qnh |-> q], filter |-> f] :
     q \in {0, 2},
     f \in {Everything, [Everything EXCEPT !.lower = 50, !.upper = 150],
            [Everything EXCEPT !.squawk = "nonvfr"], [Everything EXCEPT !.squawk = "emergency"]}}

Scope == INSTANCE Targets WITH
  settings <- drawnAs, selected <- picked, now <- drawnNow, history <- trail,
  Ground <- OnGround, Seen <- SeenSo,
  News <- [ident |-> BOOLEAN, alt |-> {49, 1002}], Settings <- Configured,
  Offsets <- {260, -1060, -400, -30, -790},
  DB_COLUMNS <- 12, DB_WIDTH <- 800, GLYPH <- 66, DB_HEIGHT <- 26, DB_LINE <- 12,
  DATA_BLOCK_PERIOD_SEC <- 8, LAPSE_SEC <- 30, LEVEL_TOLERANCE <- 2, DEAD_BAND <- 3,
  TRAIL_DECIMATION_SEC <- 4, TRAIL_TARGET_GAP_SEC <- 2, RETENTION_SEC <- 12,
  Windows <- {0, 7}, MaxNow <- 13

ASSUME InstrumentsAssumption ==
  /\ Gliding!GlideAssumption /\ Display!NdAssumption /\ Drawing!TapesAssumption
  /\ Engaged!PfdAssumption /\ Read!PfdAssumption /\ Scope!TargetsAssumption

glideVars == <<now, clock, framesUntil, framing, key, angle, points, reports>>
ndVars == <<own, tracks, moment, standing, range>>
tapesVars == <<width, of, at, mark>>
pfdVars == <<pfdNow, value, pfdHeard, seen, samples, pfdMoment, altimeter, changed>>
targetVars == <<target, drawnAs, picked, drawnNow, trail, trailSec>>
instrumentVars == <<instrument, glideVars, ndVars, tapesVars, pfdVars, targetVars>>

(* Those that are not run stand at one of their starts. *)
Standing(i) ==
  /\ instrument = i
  /\ Gliding!Init /\ (i = "glide" \/ key = 1)
  /\ Display!Init /\ (i = "nd" \/ (own = C /\ tracks[C].alt = 1000))
  /\ Drawing!Init /\ (i = "tapes" \/ (width = 300 /\ of = "roll" /\ mark = <<0, 0>>))
  /\ IF i = "values" THEN Read!Init ELSE Engaged!Init
  /\ IF i = "block" THEN TRUE ELSE target = Known /\ drawnAs = CHOOSE s \in Configured : TRUE
  /\ IF i = "trail" THEN TRUE ELSE trailSec = 0
  /\ Scope!Init
NoInstrument == Standing("none")
InstrumentsInit == \E i \in {"glide", "nd", "tapes", "modes", "values", "block", "trail"} : Standing(i)

Of(i, Do) == instrument = i /\ Do /\ UNCHANGED instrument
InstrumentsNext ==
  \/ Of("glide", Gliding!Next /\ UNCHANGED <<ndVars, tapesVars, pfdVars, targetVars>>)
  \/ Of("nd", Display!Next /\ UNCHANGED <<glideVars, tapesVars, pfdVars, targetVars>>)
  \/ Of("tapes", Drawing!Next /\ UNCHANGED <<glideVars, ndVars, pfdVars, targetVars>>)
  \/ Of("modes", Engaged!Next /\ UNCHANGED <<glideVars, ndVars, tapesVars, targetVars>>)
  \/ Of("values", Read!Next /\ UNCHANGED <<glideVars, ndVars, tapesVars, targetVars>>)
  \/ Of("block", Scope!DrawNext /\ UNCHANGED <<glideVars, ndVars, tapesVars, pfdVars>>)
  \/ Of("trail", Scope!TrailNext /\ UNCHANGED <<glideVars, ndVars, tapesVars, pfdVars>>)

-----------------------------------------------------------------------------

CONSTANTS
  Junk,
  PartsRun,              \* those that are run
  Tall, Short,           \* panels whose sheets have two detents, and one
  MEDIUM, LARGE,         \* the heights of the detents
  Fingers, DECIDE, PULL, Speeds, FLING, COAST, RUBBER,
  Mixed,                 \* whether fingers mix on the sheet
  w1, w2,                \* pages
  l1, l2, k1, k2,        \* layers, and keys of their items
  s1, s2,                \* stations
  laneA, laneB           \* lanes

VARIABLES
  part,
  shown, heard, stored, kept, changesMade,
  active, detent, slides, sheet, fingers

(* What may be stored: settings of this version, and the same with a field *)
(* of another version or of no sense, and nothing at all.                  *)
Saved ==
  [rangeNm |-> 3, trailSec |-> 1,
   filter |-> [ground |-> FALSE, lowerFl |-> 1, upperFl |-> 4, squawk |-> "nonvfr"],
   exceptions |-> [l \in {l1} |-> <<k2, k1>>],
   openLayers |-> <<l2, l1>>,
   altimeter |-> [transition |-> 1, qnh |-> -1],
   qnh |-> [auto |-> FALSE, station |-> s2],
   plotted |-> <<laneB, laneA>>]
Spoilt ==
  {[Saved EXCEPT !.rangeNm = 9],
   [Saved EXCEPT !.trailSec = Junk],
   [Saved EXCEPT !.filter = Junk],
   [Saved EXCEPT !.filter.lowerFl = 4],
   [Saved EXCEPT !.filter.lowerFl = -1],
   [Saved EXCEPT !.filter.upperFl = 9, !.filter.ground = Junk],
   [Saved EXCEPT !.exceptions = (l1 :> <<Junk, k1>> @@ Junk :> <<k1>> @@ l2 :> Junk)],
   [Saved EXCEPT !.openLayers = <<Junk, l1>>],
   [Saved EXCEPT !.altimeter.qnh = 5],
   [Saved EXCEPT !.qnh.station = Junk],
   [Saved EXCEPT !.plotted = <<laneA, Junk, laneB, laneA>>]}

Preferences == INSTANCE Settings WITH
  Pages <- {w1, w2},
  FL_MAX <- 6, GAP <- 2, STEP <- 2,
  RANGE_STEPS <- {2, 4}, RANGE_MIN_NM <- 1, RANGE_MAX_NM <- 5,
  TRAIL_STEPS <- <<0, 1>>, SQUAWKS <- {"all", "nonvfr", "emergency"},
  QNH_MIN <- -1, QNH_MAX <- 1, TRANSITION_MAX <- 3,
  Stations <- <<s1, s2>>, Reported <- {1, 2},
  LayerOrder <- <<l1, l2>>, Lanes <- {laneA, laneB},
  Stored <- {Junk, Saved} \cup Spoilt, MaxChanges <- 3,
  changes <- changesMade

SheetPanels == Tall \cup Short
SheetDetents == [p \in SheetPanels |-> IF p \in Tall THEN <<"medium", "large">> ELSE <<"large">>]
Shared == INSTANCE Sheet WITH
  Panels <- SheetPanels, DETENTS <- SheetDetents,
  Heights <- [medium |-> MEDIUM, large |-> LARGE],
  Velocities <- Speeds \cup {-v : v \in Speeds}

ASSUME PageAssumption ==
  Preferences!SettingsAssumption /\ Shared!SheetAssumption

settingsVars == <<shown, heard, stored, kept, changesMade>>
sheetVars == <<active, detent, slides, sheet, fingers>>
pageVars == <<part, settingsVars, sheetVars>>
MCVars == <<pageVars, instrumentVars>>

MCInit ==
  /\ part \in PartsRun
  /\ Preferences!Init /\ (part = "settings" \/ stored = Junk)
  /\ Shared!Init
  /\ IF part = "instruments" THEN InstrumentsInit ELSE NoInstrument

OfSettings(Do) == part = "settings" /\ Do /\ UNCHANGED <<part, sheetVars, instrumentVars>>
OfSheet(Do) == part = "sheet" /\ Do /\ UNCHANGED <<part, settingsVars, instrumentVars>>

MCNext ==
  \/ OfSettings(Preferences!Next)
  \/ OfSheet(Shared!Next)
  \/ part = "instruments" /\ InstrumentsNext /\ UNCHANGED pageVars

MCSpec == MCInit /\ [][MCNext]_MCVars

-----------------------------------------------------------------------------
(* Glide.StandsWhenStill, and Nd.ThreatOnce, ThreatTold, Mutual,           *)
(* CompassTrue and ReadsAlike: an instrument that is still shows what was  *)
(* reported, and a navigation display draws each aircraft once, tells of a *)
(* threat it can place, and draws and writes alike what holds, and no more.*)
NdTrue ==
  /\ instrument = "glide" => Gliding!StandsWhenStill
  /\ instrument = "nd" =>
       /\ Display!ThreatOnce /\ Display!ThreatTold /\ Display!Mutual
       /\ Display!CompassTrue /\ Display!ReadsAlike

(* Tapes.WheelsRead, Windows, TapesWhole, VsiTrue and HorizonCuts, and     *)
(* Pfd.BoxesStand and ReadsTogether: a flight display reads what it is     *)
(* given, a box is about a mode that changed, and what is drawn together   *)
(* agrees.                                                                 *)
PfdTrue ==
  /\ instrument = "tapes" =>
       /\ Drawing!WheelsRead /\ Drawing!Windows /\ Drawing!TapesWhole
       /\ Drawing!VsiTrue /\ Drawing!HorizonCuts
  /\ instrument = "modes" => Engaged!BoxesStand /\ Engaged!ReadsTogether
  /\ instrument = "values" => Read!BoxesStand /\ Read!ReadsTogether

(* NdTrue, PfdTrue and Targets.TargetTrue: each instrument, and the scope  *)
(* itself, shows what was reported of its target, while that holds.        *)
InstrumentsTrue ==
  /\ NdTrue /\ PfdTrue
  /\ instrument = "block" => Scope!TargetTrue

(* Glide.NeverJumps, Tapes.TurnsSmoothly and Targets.MarksStay: a reading  *)
(* shown goes on to where it was going, by the short way, or is of another *)
(* target; as it glides it turns its wheels and moves its needle without a *)
(* leap; and the slashes of a trail stay where they were drawn.            *)
NeverJumps ==
  /\ Gliding!NeverJumps /\ Drawing!TurnsSmoothly
  /\ [][instrument = "trail" => Scope!MarksStay]_instrumentVars

(* Settings.SettingsKept and NeverHidden: the settings last written are    *)
(* those the next page opens with, whatever another version stored, and no *)
(* filter hides an emergency, the selection, or what is drawn as inside.   *)
SettingsKept == part = "settings" => Preferences!SettingsKept /\ Preferences!NeverHidden

(* Sheet.SheetFollows: a sheet no finger is on is drawn where it rests,    *)
(* and one that is pulled follows the finger that pulls it.                *)
SheetFollows == Shared!SheetFollows

(* Sheet.ReleasedOnLift: a sheet is let go of by the finger that pulls it. *)
ReleasedOnLift == Shared!ReleasedOnLift
=============================================================================
