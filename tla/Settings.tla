------------------------------ MODULE Settings ------------------------------
(***************************************************************************)
(* The settings of the scope, kept by the browser for all of its pages:    *)
(* read field by field when a page opens, whatever is stored, and written  *)
(* whole after every change.  A field of one value among several is like   *)
(* trailSec here, and a list of what is open like openLayers; altitudes    *)
(* are in levels, and the altimeter setting is in levels off standard.     *)
(***************************************************************************)
EXTENDS Integers, FiniteSets, Sequences, SequencesExt

CONSTANTS
  None, Junk,            \* nothing; what no page of this version writes
  OnGround,              \* the altitude of a target on the ground
  Pages,
  FL_MAX, GAP, STEP,     \* the band: its top stop, least width and drag step
  RANGE_STEPS, RANGE_MIN_NM, RANGE_MAX_NM,
  TRAIL_STEPS, SQUAWKS,  \* what the pills offer, in order
  QNH_MIN, QNH_MAX, TRANSITION_MAX,
  Stations,              \* from the nearest to the site
  Reported,              \* the settings a METAR may carry
  LayerOrder,            \* the layers in their order
  Lanes,
  Stored,                \* what may be stored before any page opens
  MaxChanges             \* bound: what is done on the pages

SettingsAssumption ==
  /\ RANGE_MIN_NM <= RANGE_MAX_NM /\ RANGE_STEPS \subseteq RANGE_MIN_NM .. RANGE_MAX_NM
  /\ GAP \in Nat \ {0} /\ GAP <= FL_MAX /\ STEP \in Nat \ {0}
  /\ QNH_MIN <= 0 /\ 0 <= QNH_MAX /\ IsInjective(TRAIL_STEPS) /\ "all" \in SQUAWKS

FL_MIN == 0
Layer == {LayerOrder[i] : i \in DOMAIN LayerOrder}
Station == {Stations[i] : i \in DOMAIN Stations}

VARIABLES
  shown,     \* the settings of each open page, none of one closed
  heard,     \* qnhReports of each page
  stored,    \* the entry of the browser's storage
  kept,      \* history: the settings the storage has taken last, none before
  changes    \* what was done

vars == <<shown, heard, stored, kept, changes>>

DEFAULTS ==
  [rangeNm |-> CHOOSE r \in RANGE_STEPS : TRUE,
   trailSec |-> TRAIL_STEPS[1],
   filter |-> [ground |-> TRUE, lowerFl |-> FL_MIN, upperFl |-> FL_MAX, squawk |-> "all"],
   exceptions |-> <<>>,
   openLayers |-> {},
   altimeter |-> [transition |-> TRANSITION_MAX, qnh |-> 0],
   qnh |-> [auto |-> TRUE, station |-> None],
   plotted |-> SetToSeq(Lanes)]

-----------------------------------------------------------------------------
(* Reading what is stored.  A field that is not there reads as junk.       *)

At(raw, key) == IF raw # Junk /\ key \in DOMAIN raw THEN raw[key] ELSE Junk

flag(raw, fallback) == IF raw \in BOOLEAN THEN raw ELSE fallback
numberIn(min, max, raw, fallback) == IF raw \in min .. max THEN raw ELSE fallback
anyNumber(raw, fallback) == IF raw # Junk THEN raw ELSE fallback
oneOf(values, raw, fallback) == IF raw \in values THEN raw ELSE fallback

(* What is known of a list, whatever its order, or each once in its order. *)
known(among, raw, fallback) ==
  IF raw = Junk THEN fallback ELSE {x \in among : \E i \in DOMAIN raw : raw[i] = x}
ReadPlotted(raw, fallback) ==
  IF raw = Junk THEN fallback
  ELSE LET first(i) == raw[i] \in Lanes /\ \A j \in 1 .. i - 1 : raw[j] # raw[i]
           places == SetToSortSeq({i \in DOMAIN raw : first(i)}, <)
       IN [i \in DOMAIN places |-> raw[places[i]]]

(* The filter; the edges of its band stand or fall together. *)
ReadFilter(raw, fallback) ==
  LET lower == anyNumber(At(raw, "lowerFl"), fallback.lowerFl)
      upper == anyNumber(At(raw, "upperFl"), fallback.upperFl)
      band == lower >= FL_MIN /\ lower < upper /\ upper <= FL_MAX
  IN [ground |-> flag(At(raw, "ground"), fallback.ground),
      squawk |-> oneOf(SQUAWKS, At(raw, "squawk"), fallback.squawk),
      lowerFl |-> IF band THEN lower ELSE fallback.lowerFl,
      upperFl |-> IF band THEN upper ELSE fallback.upperFl]

(* The exceptions of each layer that is known, in their order. *)
ReadExceptions(raw, fallback) ==
  IF raw = Junk THEN fallback
  ELSE [layer \in {l \in Layer : At(raw, l) # Junk} |->
          SelectSeq(raw[layer], LAMBDA key : key # Junk)]

(* loadPersisted: each field by its own loader. *)
Load(raw) ==
  LET d == DEFAULTS
      altimeter == At(raw, "altimeter")
      qnh == At(raw, "qnh")
  IN [rangeNm |-> numberIn(RANGE_MIN_NM, RANGE_MAX_NM, At(raw, "rangeNm"), d.rangeNm),
      trailSec |-> oneOf(ToSet(TRAIL_STEPS), At(raw, "trailSec"), d.trailSec),
      filter |-> ReadFilter(At(raw, "filter"), d.filter),
      exceptions |-> ReadExceptions(At(raw, "exceptions"), d.exceptions),
      openLayers |-> known(Layer, At(raw, "openLayers"), d.openLayers),
      altimeter |->
        [transition |-> numberIn(0, TRANSITION_MAX, At(altimeter, "transition"),
                                 d.altimeter.transition),
         qnh |-> numberIn(QNH_MIN, QNH_MAX, At(altimeter, "qnh"), d.altimeter.qnh)],
      qnh |-> [auto |-> flag(At(qnh, "auto"), d.qnh.auto),
               station |-> oneOf(Station \cup {None}, At(qnh, "station"), d.qnh.station)],
      plotted |-> ReadPlotted(At(raw, "plotted"), d.plotted)]

(* savePersisted: sets are written as lists. *)
Save(s) == [s EXCEPT !.openLayers = SetToSeq(@)]

-----------------------------------------------------------------------------
(* The band of altitudes, whose edges never cross.                         *)

clamp(v, lo, hi) == IF v < lo THEN lo ELSE IF v > hi THEN hi ELSE v
HigherOf(a, b) == IF a > b THEN a ELSE b
LowerOf(a, b) == IF a < b THEN a ELSE b

(* An edge moved, pushing the other ahead of it when they get too close.   *)
WithLower(filter, v) ==
  LET edge == clamp(v, FL_MIN, FL_MAX - GAP)
  IN [filter EXCEPT !.lowerFl = edge, !.upperFl = HigherOf(@, edge + GAP)]
WithUpper(filter, v) ==
  LET edge == clamp(v, FL_MIN + GAP, FL_MAX)
  IN [filter EXCEPT !.lowerFl = LowerOf(@, edge - GAP), !.upperFl = edge]

(* formatEdge and parseEdge: the top stop reads as unlimited, and digits   *)
(* past it do too; what cannot be read is none.                            *)
Text == [unlimited : {TRUE}, digits : {None}]
        \cup [unlimited : {FALSE}, digits : (FL_MIN .. FL_MAX + 1) \cup {None}]
FormatEdge(v) ==
  [unlimited |-> v >= FL_MAX, digits |-> IF v >= FL_MAX THEN None ELSE v]
ParseEdge(text) ==
  CASE text.unlimited -> FL_MAX
    [] text.digits = None -> None
    [] OTHER -> LowerOf(text.digits, FL_MAX)

(* Where an edge lands when the pointer has come down by so much of the    *)
(* scale since the drag began at start.                                    *)
DraggedEdge(start, down) ==
  clamp(((2 * (start - down) + STEP) \div (2 * STEP)) * STEP, FL_MIN, FL_MAX)

-----------------------------------------------------------------------------
(* What the filter does to a target: its altitude is a pressure altitude,  *)
(* OnGround or none, and its squawk and status say an emergency or not.    *)

(* displayLevel: the altitude on the setting below the transition          *)
(* altitude, and the flight level from there up.                           *)
DisplayLevel(alt, a) ==
  IF alt \in {OnGround, None} THEN alt
  ELSE IF alt + a.qnh < a.transition THEN alt + a.qnh ELSE alt

(* Whether a level is inside the band; an edge resting on its stop is open. *)
Within(level, f) ==
  /\ f.lowerFl > FL_MIN => level >= f.lowerFl
  /\ f.upperFl < FL_MAX => level <= f.upperFl

BandActive(f) == f.lowerFl > FL_MIN \/ f.upperFl < FL_MAX

(* visibility, and classify: whether a target is shown in full. *)
Visible(t, f, a) ==
  LET level == DisplayLevel(t.alt, a)
  IN \/ t.selected \/ t.squawk = "emergency"
     \/ /\ CASE level = OnGround -> f.ground
             [] level = None -> ~BandActive(f)
             [] OTHER -> Within(level, f)
        /\ f.squawk = "nonvfr" => t.squawk # "vfr"
        /\ f.squawk # "emergency"

(* The profile of the axis: the bin a level falls in, and whether a bin is *)
(* drawn as inside the band.                                               *)
BinCount == (FL_MAX - FL_MIN + STEP - 1) \div STEP
BinIndex(level) == clamp((level - FL_MIN) \div STEP, 0, BinCount - 1)
InBand(bin, f) ==
  FL_MIN + bin * STEP >= f.lowerFl /\ FL_MIN + (bin + 1) * STEP <= f.upperFl

(* altitudeProfile and groundCount: the targets counted in each bin. *)
Profile(targets, a) ==
  [bin \in 0 .. BinCount - 1 |->
     Cardinality({t \in targets :
       LET level == DisplayLevel(t.alt, a)
       IN level \notin {OnGround, None} /\ BinIndex(level) = bin})]
GroundCount(targets) == Cardinality({t \in targets : t.alt = OnGround})

(* pickedBin: the bin of the target selected, to be told from the others.  *)
PickedBin(t, a) ==
  LET level == DisplayLevel(t.alt, a)
  IN IF level \in {OnGround, None} THEN level ELSE BinIndex(level)

-----------------------------------------------------------------------------
(* The altimeter setting.                                                  *)

(* reportFor: the report of the chosen station, or else of the nearest to  *)
(* the site, which the page does not know before the feed has told it.     *)
ReportFor(station, h) ==
  IF station # None
  THEN IF station \in DOMAIN h.of THEN h.of[station] ELSE None
  ELSE LET there == SelectSeq(Stations, LAMBDA s : s \in DOMAIN h.of)
       IN IF h.site /\ there # <<>> THEN h.of[there[1]] ELSE None

(* Mutated: the report becomes the setting only as it comes in. *)
FollowsNothing(s, h) == s
(* The effect that follows the report while the setting is automatic. *)
Follows(s, h) ==
  LET report == ReportFor(s.qnh.station, h)
  IN IF s.qnh.auto /\ report # None THEN [s EXCEPT !.altimeter.qnh = report] ELSE s

-----------------------------------------------------------------------------
Init ==
  /\ shown = [p \in Pages |-> None]
  /\ heard = [p \in Pages |-> [site |-> FALSE, of |-> <<>>]]
  /\ stored \in Stored
  /\ kept = None
  /\ changes = 0

(* The settings of a page become s: the effects follow the report and      *)
(* write them all, unless the browser refuses.                             *)
Persist(p, s) ==
  /\ shown' = [shown EXCEPT ![p] = s]
  /\ \/ stored' = Save(s) /\ kept' = s
     \/ UNCHANGED <<stored, kept>>

Count == changes < MaxChanges /\ changes' = changes + 1

(* A page opens, or is loaded again, and closes; it persists what it read. *)
Open(p) ==
  /\ shown[p] = None
  /\ heard' = [heard EXCEPT ![p] = [site |-> FALSE, of |-> <<>>]]
  /\ Persist(p, Load(stored))
  /\ Count
Close(p) ==
  /\ shown' = [shown EXCEPT ![p] = None]
  /\ UNCHANGED <<heard, stored, kept>>
  /\ Count

(* Something is set on a page, and nothing is when it is as it was. *)
Set(p, s) ==
  /\ Follows(s, heard[p]) # shown[p]
  /\ Persist(p, Follows(s, heard[p]))
  /\ UNCHANGED heard
  /\ Count

(* The feed tells a page the site or the reports. *)
Hear(p, h) ==
  /\ heard[p] # h
  /\ heard' = [heard EXCEPT ![p] = h]
  /\ LET s == Follows(shown[p], h)
     IN IF s = shown[p] THEN UNCHANGED <<shown, stored, kept>> ELSE Persist(p, s)
  /\ Count
Site(p) == Hear(p, [heard[p] EXCEPT !.site = TRUE])
Report(p) ==
  \E stations \in SUBSET Station : \E of \in [stations -> Reported] :
    Hear(p, [heard[p] EXCEPT !.of = of])

(* stepRange: the next preset up or down; setRange: a zoom, within limits. *)
Step(p) ==
  LET s == shown[p]
      beyond(up) == {r \in RANGE_STEPS : IF up THEN r > s.rangeNm ELSE r < s.rangeNm}
  IN \E up \in BOOLEAN :
       \E r \in beyond(up) :
         /\ \A other \in beyond(up) : IF up THEN r <= other ELSE r >= other
         /\ Set(p, [s EXCEPT !.rangeNm = r])
Zoom(p) ==
  \E r \in RANGE_MIN_NM - 1 .. RANGE_MAX_NM + 1 :
    Set(p, [shown[p] EXCEPT !.rangeNm = clamp(r, RANGE_MIN_NM, RANGE_MAX_NM)])

(* A pill of the trail or of the squawks, and cycle: the next of the       *)
(* steps, from the last to the first.                                      *)
Pill(p) ==
  \/ \E sec \in ToSet(TRAIL_STEPS) : Set(p, [shown[p] EXCEPT !.trailSec = sec])
  \/ \E q \in SQUAWKS : Set(p, [shown[p] EXCEPT !.filter.squawk = q])
Cycle(p) ==
  LET i == CHOOSE i \in DOMAIN TRAIL_STEPS : TRAIL_STEPS[i] = shown[p].trailSec
  IN Set(p, [shown[p] EXCEPT !.trailSec = TRAIL_STEPS[(i % Len(TRAIL_STEPS)) + 1]])

(* An edge of the band is moved: its field typed in or dragged, or its     *)
(* thumb slid, from notch to notch.                                        *)
MoveTo(p, v) ==
  \/ Set(p, [shown[p] EXCEPT !.filter = WithLower(@, v)])
  \/ Set(p, [shown[p] EXCEPT !.filter = WithUpper(@, v)])
MoveEdge(p) ==
  \E v \in {ParseEdge(text) : text \in Text}
           \cup {DraggedEdge(start, down) : start \in FL_MIN .. FL_MAX,
                                            down \in -FL_MAX .. FL_MAX} :
    v # None /\ MoveTo(p, v)
Slide(p) == \E v \in {FL_MIN + STEP * n : n \in 0 .. BinCount} : v <= FL_MAX /\ MoveTo(p, v)

(* The switch of the ground traffic, and the reset of the whole axis. *)
Ground(p) == Set(p, [shown[p] EXCEPT !.filter.ground = ~@])
ResetBand(p) ==
  Set(p, [shown[p] EXCEPT !.filter.ground = TRUE, !.filter.lowerFl = FL_MIN,
                          !.filter.upperFl = FL_MAX])

(* The fields of the altimeter: out of range leaves the setting as it was, *)
(* but a setting typed ends automatic updates.                             *)
Transition(p) ==
  \E v \in 0 .. TRANSITION_MAX : Set(p, [shown[p] EXCEPT !.altimeter.transition = v])
ManualQnh(p) ==
  \E v \in QNH_MIN - 1 .. QNH_MAX + 1 :
    Set(p, [shown[p] EXCEPT !.altimeter.qnh = IF v \in QNH_MIN .. QNH_MAX THEN v ELSE @,
                            !.qnh.auto = FALSE])
SetStation(p) ==
  \E s \in Station \cup {None} : Set(p, [shown[p] EXCEPT !.qnh.station = s])
Auto(p) == Set(p, [shown[p] EXCEPT !.qnh.auto = ~@])

Change(p) ==
  \/ Site(p) \/ Report(p)
  \/ Step(p) \/ Zoom(p) \/ Pill(p) \/ Cycle(p)
  \/ MoveEdge(p) \/ Slide(p) \/ Ground(p) \/ ResetBand(p)
  \/ Transition(p) \/ ManualQnh(p) \/ SetStation(p) \/ Auto(p)

Next == \E p \in Pages : Open(p) \/ (shown[p] # None /\ (Close(p) \/ Change(p)))

Spec == Init /\ [][Next]_vars

-----------------------------------------------------------------------------
(* The limits every page keeps, whatever was stored: an altimeter setting  *)
(* beyond its field comes only of a report.                                *)
Sound(s) ==
  /\ s.rangeNm \in RANGE_MIN_NM .. RANGE_MAX_NM
  /\ s.trailSec \in ToSet(TRAIL_STEPS)
  /\ FL_MIN <= s.filter.lowerFl /\ s.filter.lowerFl < s.filter.upperFl
  /\ s.filter.upperFl <= FL_MAX
  /\ s.altimeter.transition \in 0 .. TRANSITION_MAX
  /\ s.altimeter.qnh \in (QNH_MIN .. QNH_MAX) \cup Reported
  /\ IsInjective(s.plotted) /\ ToSet(s.plotted) \subseteq Lanes

(* Of what another version or another program stored, a page opens with    *)
(* every value it could have stored itself, and junk costs a field and no  *)
(* other: the settings of two entries that differ in one field differ in   *)
(* no other.                                                               *)
JunkCostsItsField ==
  \A one, other \in Stored :
    /\ Sound(Load(one))
    /\ LET apart == {key \in DOMAIN DEFAULTS : At(one, key) # At(other, key)}
           read == {key \in DOMAIN DEFAULTS : Load(one)[key] # Load(other)[key]}
       IN read \subseteq apart

(* The settings last written are those the next page opens with, but for   *)
(* an altimeter setting beyond its field, which only a report brings; and  *)
(* the altimeter of a page that is automatic is on the report it follows,  *)
(* however the page came to be automatic, its station to be chosen, its    *)
(* site to be known and the report to be heard.                            *)
SettingsKept ==
  /\ \A p \in Pages : shown[p] # None =>
       /\ Sound(shown[p])
       /\ LET report == ReportFor(shown[p].qnh.station, heard[p])
          IN shown[p].qnh.auto /\ report # None => shown[p].altimeter.qnh = report
  /\ changes = 0 => JunkCostsItsField
  /\ kept # None =>
       LET back == Load(stored)
       IN /\ kept.altimeter.qnh \in QNH_MIN .. QNH_MAX => back = kept
          /\ [back EXCEPT !.altimeter.qnh = 0] = [kept EXCEPT !.altimeter.qnh = 0]

(* Targets of every altitude around the band and of every squawk. *)
Target ==
  [alt : (FL_MIN - 2 .. FL_MAX + 2) \cup {OnGround, None},
   squawk : {"emergency", "vfr", "other"}, selected : {FALSE}]
  \cup [alt : {FL_MIN, FL_MAX, OnGround, None}, squawk : {"vfr"}, selected : {TRUE}]

(* No filter hides an emergency, nor the target selected; nothing is       *)
(* hidden when nothing is set; a wider band hides no more; and what the    *)
(* axis draws as inside the band is shown, each target counted once.       *)
NeverHidden ==
  \A p \in Pages : shown[p] # None =>
    LET f == shown[p].filter
        a == shown[p].altimeter
        airborne == {t \in Target : t.alt \notin {OnGround, None}}
        profile == Profile(Target, a)
    IN /\ \A t \in Target :
            /\ t.selected \/ t.squawk = "emergency" => Visible(t, f, a)
            /\ f.ground /\ ~BandActive(f) /\ f.squawk = "all" => Visible(t, f, a)
            /\ Visible(t, f, a) =>
                 /\ Visible(t, [f EXCEPT !.lowerFl = HigherOf(FL_MIN, @ - 1)], a)
                 /\ Visible(t, [f EXCEPT !.upperFl = LowerOf(FL_MAX, @ + 1)], a)
       /\ \A t \in airborne :
            LET level == DisplayLevel(t.alt, a)
            IN /\ level \in FL_MIN .. FL_MAX => ParseEdge(FormatEdge(level)) = level
               /\ InBand(PickedBin(t, a), f) /\ f.squawk = "all" => Visible(t, f, a)
               /\ ~t.selected /\ t.squawk # "emergency" /\ Visible(t, f, a)
                  /\ level \in FL_MIN .. FL_MAX => level \in f.lowerFl .. f.upperFl
       /\ FoldFunction(+, 0, profile) + GroundCount(Target)
            = Cardinality({t \in Target : t.alt # None})
=============================================================================
