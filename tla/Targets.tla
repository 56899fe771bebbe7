------------------------------ MODULE Targets ------------------------------
(***************************************************************************)
(* How a target is drawn on the scope: its colour and glyph, its block of  *)
(* text and where each line of it starts, the tags of its states, what of  *)
(* it the header of the details says, and the slashes of its trail.  Text  *)
(* is so many columns; altitudes are in hundreds of feet, and lengths      *)
(* across a block in tenths of a pixel.                                    *)
(***************************************************************************)
EXTENDS Integers, SequencesExt, FiniteSetsExt

CONSTANTS
  None, Ground,
  Seen,               \* what may be known of the target
  News,               \* what a report may say anew, one value at a time
  Settings,           \* of the altimeter and the filter
  Offsets,            \* where a block may be from its target, dragged or resting
  DB_COLUMNS, DB_WIDTH, GLYPH, DB_HEIGHT, DB_LINE,
  DATA_BLOCK_PERIOD_SEC, LAPSE_SEC,
  LEVEL_TOLERANCE, DEAD_BAND,
  TRAIL_DECIMATION_SEC, TRAIL_TARGET_GAP_SEC, RETENTION_SEC,
  Windows,            \* how long a trail may be asked for
  MaxNow              \* bounds the time

TargetsAssumption ==
  /\ DB_COLUMNS * GLYPH <= DB_WIDTH
  /\ TRAIL_DECIMATION_SEC \in Nat \ {0} /\ \A w \in Windows : w + TRAIL_DECIMATION_SEC <= RETENTION_SEC

VARIABLES target, settings, selected, now, history, trailSec

vars == <<target, settings, selected, now, history, trailSec>>

-----------------------------------------------------------------------------
(* States of emergency, as a squawk and a status tell them.                *)
SquawkCode(squawk) ==
  CASE squawk = 7500 -> "HJ" [] squawk = 7600 -> "RF" [] squawk = 7700 -> "EM" [] OTHER -> None
StatusCode(emergency) ==
  CASE emergency \in {"general", "downed"} -> "EM" [] emergency = "nordo" -> "RF"
    [] emergency = "unlawful" -> "HJ" [] OTHER -> None
EmergencyCode(t) ==
  IF SquawkCode(t.squawk) # None THEN SquawkCode(t.squawk) ELSE StatusCode(t.emergency)
(* Each told once. *)
StatusTags(t) ==
  LET code == SquawkCode(t.squawk)
      declared == IF t.emergency = "downed" THEN "DOWNED" ELSE StatusCode(t.emergency)
  IN [code |-> code, status |-> IF declared = code THEN None ELSE declared,
      priority |-> IF t.emergency \in {"lifeguard", "minfuel"} THEN t.emergency ELSE None]

(* The words of an advisory, of one threat or of several. *)
Qualified(sense, flags) ==
  IF "reversal" \in flags THEN <<sense, "NOW">>
  ELSE IF "increased" \in flags THEN <<"INCREASE", sense>>
  ELSE IF "crossing" \in flags THEN <<"CROSSING", sense>> ELSE <<sense>>
AdvisoryWord(ra) ==
  CASE ra.terminated -> <<"CLEAR">>
    [] ra.kind = "advisory" /\ "positive" \notin ra.flags ->
         IF "corrective" \in ra.flags THEN <<"ADJUST VS">> ELSE <<"MONITOR VS">>
    [] ra.kind = "advisory" /\ "corrective" \notin ra.flags -> <<"MAINTAIN VS">>
    [] ra.kind = "advisory" -> Qualified(IF "downward" \in ra.flags THEN "DESCEND" ELSE "CLIMB", ra.flags)
    [] "positiveClimb" \in ra.flags -> Qualified("CLIMB", ra.flags \ {"increased"})
    [] "positiveDescent" \in ra.flags -> Qualified("DESCEND", ra.flags \ {"increased"})
    [] OTHER -> <<"ADJUST VS">>

(* Altitudes, as the scope shows them and as the crew reads them. *)
QnhAltitude(alt, qnh) == alt + qnh
DisplayLevel(alt, altimeter) ==
  IF alt \in {None, Ground} THEN alt
  ELSE IF QnhAltitude(alt, altimeter.qnh) < altimeter.transition
       THEN QnhAltitude(alt, altimeter.qnh) ELSE alt
Uncorrected(altimeter) == [altimeter EXCEPT !.qnh = 0]
Abs(x) == IF x < 0 THEN -x ELSE x
HoldsSelected(t, altimeter) ==
  LET crew == IF t.navQnh = None THEN altimeter ELSE [altimeter EXCEPT !.qnh = t.navQnh]
      level == DisplayLevel(t.alt, crew)
  IN level \notin {None, Ground} /\ t.selAlt # None /\ Abs(level - t.selAlt) <= LEVEL_TOLERANCE
SteeringHeading(t) ==
  IF \/ t.navModes # None /\ t.navModes \cap {"lnav", "approach"} # {}
     \/ t.selHeading = 0 /\ t.navModes = None
  THEN None ELSE t.selHeading
ClimbState(rate) ==
  IF rate = None THEN "level" ELSE IF rate > DEAD_BAND THEN "climbing"
  ELSE IF rate < -DEAD_BAND THEN "descending" ELSE "level"

-----------------------------------------------------------------------------
(* What the filter leaves of the target, its colour and its glyph.         *)
Classify(t, filter, altimeter) ==
  LET level == DisplayLevel(t.alt, altimeter)
      banded == filter.lower # None \/ filter.upper # None
      outside == CASE level = Ground -> ~filter.ground
                   [] level = None -> banded
                   [] OTHER -> \/ filter.lower # None /\ level < filter.lower
                               \/ filter.upper # None /\ level > filter.upper
      unasked == (filter.squawk = "nonvfr" /\ t.squawk = 1200) \/ filter.squawk = "emergency"
  IN IF EmergencyCode(t) = None /\ (outside \/ unasked) THEN "filtered" ELSE "shown"
Visibility(t) ==
  IF selected THEN "shown" ELSE Classify(t, settings.filter, settings.altimeter)

IsStale(t) == t.seenPos >= LAPSE_SEC
TrackColor(t) ==
  IF EmergencyCode(t) # None THEN "emergency" ELSE IF selected THEN "selected"
  ELSE IF IsStale(t) THEN "stale" ELSE IF t.alt = Ground THEN "ground"
  ELSE ClimbState(t.verticalRate)
TargetShape(t) ==
  IF Visibility(t) = "filtered" THEN "hollow diamond"
  ELSE CASE t.source = "mlat" -> "ring" [] t.source = "tisb" -> "diamond" [] OTHER -> "square"

(* The block: the tags that fit above it, its two lines, a heading below.  *)
Run(text, columns, tone) == [text |-> text, columns |-> columns, tone |-> tone]
When(condition, run) == IF condition THEN <<run>> ELSE <<>>
Columns(runs) == FoldLeft(LAMBDA sum, r : sum + r.columns, 0, runs)
Spaced(tags) == Columns(tags) + Max({0, Len(tags) - 1})
(* Mutated: the spaces between them are not counted. *)
FittingUnspaced(tags) ==
  SubSeq(tags, 1, Max({n \in 0 .. Len(tags) : Columns(SubSeq(tags, 1, n)) <= DB_COLUMNS}))
Fitting(tags) ==
  SubSeq(tags, 1, Max({n \in 0 .. Len(tags) : Spaced(SubSeq(tags, 1, n)) <= DB_COLUMNS}))
Active(t) == t.ra # None /\ ~t.ra.terminated
AllTags(t) ==
  LET priority == StatusTags(t).priority
  IN When(EmergencyCode(t) # None, Run(EmergencyCode(t), 2, "alert"))
     \o When(Active(t), Run("RA", 2, "alert"))
     \o When(priority # None, Run(priority, IF priority = "minfuel" THEN 4 ELSE 3, "caution"))
     \o When(t.ident, Run("ID", 2, "ident"))
TagsOf(t) == Fitting(AllTags(t))

HeadingLine(t) == When(SteeringHeading(t) # None, Run(SteeringHeading(t), 4, "intent"))
ExtraLines(t) ==
  (IF TagsOf(t) # <<>> THEN 1 ELSE 0) + (IF SteeringHeading(t) # None THEN 1 ELSE 0)

FormatAltitude(alt, altimeter) ==
  LET level == DisplayLevel(alt, altimeter)
  IN Run(level, IF level \notin {None, Ground} /\ level >= 1000 THEN 4 ELSE 3, "plain")
Toned(run, tone) == [run EXCEPT !.tone = tone]
LevelRuns(t, altimeter) ==
  LET level == FormatAltitude(t.alt, altimeter)
  IN IF HoldsSelected(t, altimeter) THEN <<level, Run("holds", 1, "intent")>>
     ELSE <<level, Run(ClimbState(t.verticalRate), 1, "plain")>>
          \o When(t.selAlt # None,
                  Toned(FormatAltitude(t.selAlt, Uncorrected(altimeter)), "intent"))
ShowsType(sec) == (sec \div DATA_BLOCK_PERIOD_SEC) % 2 = 0
Second(sec) == IF ShowsType(sec) THEN Run("type", 4, "plain") ELSE Run("speed", 3, "plain")
DataBlock(t) ==
  When(TagsOf(t) # <<>>, TagsOf(t))
  \o <<<<Run("label", 8, "plain")>>,
       LevelRuns(t, settings.altimeter) \o <<Run("space", 1, "plain"), Second(now)>>>>
  \o When(HeadingLine(t) # <<>>, HeadingLine(t))
WidthOf(t, line) ==
  GLYPH * (IF TagsOf(t) # <<>> /\ line = 1 THEN Spaced(TagsOf(t)) ELSE Columns(DataBlock(t)[line]))

(* A line starts at the leader's tip, or as near as keeps it in the block. *)
LeaderTip(dx) == Max({dx, Min({0, dx + DB_WIDTH})})
(* Mutated: as near as keeps it in the block to the right. *)
LineFromTip(dx, width) == Max({dx, LeaderTip(dx)})
LineStart(dx, width) == Max({dx, Min({LeaderTip(dx), dx + DB_WIDTH - width})})
RowOf(line) == (line - 1) * DB_LINE
BlockHeight(extra) == DB_HEIGHT + extra * DB_LINE

Hovered(t) == ~selected /\ Visibility(t) = "shown"
Draws(t) ==
  {"glyph"} \cup (IF Visibility(t) = "filtered" THEN {} ELSE {"block", "trail"})
            \cup (IF selected THEN {"history", "selection"} ELSE {})

(* What the header of the details says of it. *)
HeaderSays(t) ==
  LET tags == StatusTags(t)
  IN [alerts |-> {tags.code, tags.status} \ {None}, priority |-> tags.priority, ident |-> t.ident,
      advisory |-> IF Active(t) THEN AdvisoryWord(t.ra) ELSE None]

-----------------------------------------------------------------------------
(* The slashes of a trail: the oldest fix of each slot of the clock, while *)
(* it is in the window, and none by the target.                            *)
SlotOf(t) == t \div TRAIL_DECIMATION_SEC
(* Mutated: the oldest fix of each slot that is in the window. *)
DecimateWithin(fixes, at, windowSec) ==
  LET eligible == {t \in Range(fixes) : t <= at - TRAIL_TARGET_GAP_SEC /\ t >= at - windowSec}
  IN IF windowSec = 0 THEN {}
     ELSE {t \in eligible : \A u \in eligible : SlotOf(u) = SlotOf(t) => t <= u}
DecimateTrail(fixes, at, windowSec) ==
  LET eligible == {t \in Range(fixes) : t <= at - TRAIL_TARGET_GAP_SEC}
      first == {t \in eligible : \A u \in eligible : SlotOf(u) = SlotOf(t) => t <= u}
  IN IF windowSec = 0 THEN {} ELSE {t \in first : t >= at - windowSec}
Marks == DecimateTrail(history, now, trailSec)

-----------------------------------------------------------------------------
Report(f, v) ==
  /\ [target EXCEPT ![f] = v] \in Seen
  /\ target' = [target EXCEPT ![f] = v]
  /\ UNCHANGED <<settings, selected, now, history, trailSec>>
Configure(s) ==
  /\ settings' = s
  /\ UNCHANGED <<target, selected, now, history, trailSec>>
Select ==
  /\ selected' = ~selected
  /\ UNCHANGED <<target, settings, now, history, trailSec>>
AskTrail(w) ==
  /\ trailSec' = w
  /\ UNCHANGED <<target, settings, selected, now, history>>
(* A snapshot, which says a fix of it or not. *)
Snapshot(elapsed, fixed) ==
  /\ now + elapsed <= MaxNow
  /\ now' = now + elapsed
  /\ history' = SelectSeq(IF fixed THEN Append(history, now') ELSE history,
                          LAMBDA t : t >= now' - RETENTION_SEC)
  /\ UNCHANGED <<target, settings, selected, trailSec>>

Init ==
  /\ target \in Seen /\ settings \in Settings /\ selected = FALSE
  /\ now = 0 /\ history = <<>> /\ trailSec \in Windows

DrawNext ==
  \/ \E f \in DOMAIN News : \E v \in News[f] : Report(f, v)
  \/ \E s \in Settings : Configure(s)
  \/ Select
TrailNext ==
  \/ \E elapsed \in {2, 3}, fixed \in BOOLEAN : Snapshot(elapsed, fixed)
  \/ \E w \in Windows : AskTrail(w)
Next == DrawNext \/ TrailNext

Spec == Init /\ [][Next]_vars

-----------------------------------------------------------------------------
(* An emergency is drawn whatever is filtered, in its colour and first of  *)
(* its tags, and the header says it, and says none that the block does not *)
(* (filter.ts:37).  A tag is left out only with all those after it; and an *)
(* active advisory never is, which the header words too.                   *)
StatesAgree ==
  LET emergency == EmergencyCode(target) # None
      tags == TagsOf(target)
      all == AllTags(target)
      says == HeaderSays(target)
  IN /\ emergency => /\ Visibility(target) = "shown" /\ TrackColor(target) = "emergency"
                     /\ tags[1].text = EmergencyCode(target)
     /\ emergency = (says.alerts # {})
     /\ \A i \in DOMAIN tags : tags[i] = all[i]
     /\ (\E i \in DOMAIN tags : tags[i].text = "RA") = (says.advisory # None)
     /\ says.advisory # <<"CLEAR">>

(* A block is as high as it was placed for, no line of it runs out of it   *)
(* but one of a level of four digits, and each meets its leader            *)
(* (datablock.ts:90).                                                      *)
LinesMeetLeader ==
  \A block \in {DataBlock(target)} :
  \A widths \in {[line \in DOMAIN block |-> WidthOf(target, line)]} :
     /\ Len(block) = 2 + ExtraLines(target)
     /\ RowOf(Len(block)) + DB_LINE <= BlockHeight(ExtraLines(target))
     /\ \A width \in Range(widths), dx \in Offsets : width <= DB_WIDTH =>
          \A start \in {LineStart(dx, width)}, tip \in {LeaderTip(dx)} :
            /\ dx <= start /\ start + width <= dx + DB_WIDTH
            /\ start <= tip /\ tip <= start + width
     /\ (\E width \in Range(widths) : width > DB_WIDTH) =>
          \E alt \in {target.alt, target.selAlt} : alt \notin {None, Ground} /\ alt >= 998

(* A hover leads to a block only where one is drawn. *)
HoverLeads == Hovered(target) => "block" \in Draws(target)

TargetTrue == StatesAgree /\ LinesMeetLeader /\ HoverLeads

(* A slash stays where it was drawn, at one place in a slot of the clock,  *)
(* until the window leaves it behind, whatever is heard of the target in   *)
(* the meantime (trails.ts:10).                                            *)
MarksStay ==
  trailSec' = trailSec =>
    /\ \A t \in Marks : t >= now' - trailSec => t \in Marks'
    /\ \A t \in Marks', u \in Marks \cup Marks' : SlotOf(t) = SlotOf(u) => t = u
TrailSteady == [][MarksStay]_vars
=============================================================================
