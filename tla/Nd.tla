---------------------------------- MODULE Nd ----------------------------------
(***************************************************************************)
(* The navigation display of a target: its compass, what it draws of the   *)
(* target's own readings, and the traffic around it, with the threat of a  *)
(* resolution advisory.  Places are of a grid of miles, altitudes are in   *)
(* feet on one setting, and bearings in degrees, magnetic and true alike.  *)
(***************************************************************************)
EXTENDS Integers, FiniteSets, Sequences, SequencesExt, FiniteSetsExt

CONSTANTS
  None, OnGround,
  Hexes,                 \* the aircraft there may be
  Reports,               \* what a snapshot may say of each
  Samples,               \* what the past of a target may hold
  ND_RANGES,             \* the ranges, smallest first
  SPAN_NUM, SPAN_DEN,    \* the tangent of the arc's span either side
  R, EDGE,               \* the arc's radius, and the margin in it, pixels
  MARGIN,                \* PLANE_MARGIN in tenths
  TCAS_BAND, PROXIMATE_NM, PROXIMATE_ALT, ARROW,
  LEVEL_OFF_MIN_PX, TREND_MIN_RATE

NdAssumption ==
  /\ \A h \in Hexes : Reports[h] # {}
  /\ R > EDGE /\ MARGIN >= 10
  /\ \A i \in 1 .. Len(ND_RANGES) - 1 : ND_RANGES[i] < ND_RANGES[i + 1]

VARIABLES
  own,       \* the address of the target the display is of
  tracks,    \* what the last snapshot listed
  moment,    \* what is drawn: now, a sample of the past, or a gap
  standing,  \* the orientation of the frame before
  range      \* ndRangeNm, one for all targets

vars == <<own, tracks, moment, standing, range>>

-----------------------------------------------------------------------------
(* Freshness: a value read of these keys is as old as the oldest heard of  *)
(* them; one of a report names the keys that have not lapsed.              *)
HoldsAll(t, keys) == \A k \in keys : k \in t.fresh
IfHolds(t, keys, v) == IF HoldsAll(t, keys) THEN v ELSE None

(* momentOf: the target as it is now, a sample, or nothing over a gap. *)
Drawn == IF moment.kind = "now" THEN tracks[own] ELSE moment.r

(* modeOf and orientOf: track-up while the track holds. *)
ModeOf(kind, t) ==
  IF kind = "empty" THEN "empty"
  ELSE IF t.lost THEN "lost"
  ELSE IF t.track # None /\ HoldsAll(t, {"track"}) THEN "track"
  ELSE "blank"
OrientOf(t) == IF t.track # None THEN t.track ELSE IF t.heading # None THEN t.heading ELSE 0

(* ndFrame: over a gap the compass stays as the frame before left it. *)
NdFrame(kind, t, stood) ==
  [mode |-> ModeOf(kind, t), orient |-> IF kind = "empty" THEN stood ELSE OrientOf(t)]
Flagged(mode) == mode \in {"lost", "blank"}
Box(frame) == IF frame.mode = "track" THEN frame.orient ELSE None

(* steeringHeading: the selected heading while it steers the aircraft. *)
SteeringHeading(t) ==
  IF t.modes = None THEN (IF t.sel = 0 THEN None ELSE t.sel)
  ELSE IF t.modes \cap {"lnav", "approach"} # {} THEN None ELSE t.sel

(* ndReadouts: the corners, each on its own freshness, blank once lost. *)
NdReadouts(kind, t) ==
  LET read(keys, v) == IF kind = "empty" \/ t.lost THEN None ELSE IfHolds(t, keys, v)
  IN [gs |-> read({"gs"}, t.gs), hdg |-> read({"heading"}, t.heading),
      sel |-> read({"selHeading"}, SteeringHeading(t))]

Sign(v) == IF v > 0 THEN 1 ELSE IF v < 0 THEN -1 ELSE 0
Abs(v) == IF v < 0 THEN -v ELSE v

(* trendOf and levelOffOf: how far ahead it levels off, where it climbs or *)
(* descends toward the altitude its crew selected.                         *)
TrendOf(t) ==
  IF t.turn = None \/ t.gs = None \/ ~HoldsAll(t, {"trackRate", "gs"}) THEN None
  ELSE IF Abs(t.turn) < TREND_MIN_RATE \/ t.gs <= 0 THEN None
  ELSE [rate |-> t.turn, gs |-> t.gs]
LevelOffOf(t) ==
  IF t.selAlt = None \/ t.rate = None \/ t.gs = None \/ t.alt \in {None, OnGround} THEN None
  ELSE IF ~HoldsAll(t, {"alt", "selAlt", "verticalRate", "gs"}) THEN None
  ELSE IF t.rate = 0 \/ Sign(t.selAlt - t.alt) # Sign(t.rate) THEN None
  ELSE (t.gs * Abs(t.selAlt - t.alt)) \div (60 * Abs(t.rate))

(* ndSymbols: only on a live frame. *)
NoSymbols == [track |-> None, heading |-> None, sel |-> None, trend |-> None, levelOff |-> None]
NdSymbols(kind, t) ==
  IF ModeOf(kind, t) # "track" THEN NoSymbols
  ELSE [track |-> IfHolds(t, {"track"}, t.track), heading |-> IfHolds(t, {"heading"}, t.heading),
        sel |-> IfHolds(t, {"selHeading"}, SteeringHeading(t)),
        trend |-> TrendOf(t), levelOff |-> LevelOffOf(t)]

-----------------------------------------------------------------------------
(* The compass: what stands on its arc, and where a bug off it is parked.  *)
SPAN_DEG == 75
Turn(from, to) == ((to - from + 540) % 360) - 180
OnArc(rel) == Abs(rel) <= SPAN_DEG

(* compass: every five degrees a tick and every ten a label, by its        *)
(* bearing in tens; those near the ends have no label.                     *)
Ticks(orient) ==
  {[at |-> b - orient, bearing |-> b % 360] :
     b \in {n \in orient - SPAN_DEG .. orient + SPAN_DEG : n % 5 = 0}}
Labels(orient) ==
  {[at |-> t.at, text |-> t.bearing \div 10, big |-> (t.bearing \div 10) % 3 = 0] :
     t \in {u \in Ticks(orient) : u.bearing % 10 = 0 /\ Abs(u.at) <= 70}}
(* bugPath and headingPointerPath: a bug off the arc is parked, half of    *)
(* it, at the nearer end; a pointer is not drawn there.                    *)
Bug(rel) ==
  IF OnArc(rel) THEN [at |-> rel, half |-> FALSE]
  ELSE [at |-> Sign(rel) * SPAN_DEG, half |-> TRUE]
Pointer(rel) == IF OnArc(rel) THEN rel ELSE None

(* ndRangeAfter: none past either end. *)
NdRangeAfter(from, step) ==
  LET i == CHOOSE n \in DOMAIN ND_RANGES : ND_RANGES[n] = from
  IN IF i + step \in DOMAIN ND_RANGES THEN ND_RANGES[i + step] ELSE None

(* levelOffPath: off the aircraft's symbol and short of the arc. *)
LevelOffShown(nm) == nm # None /\ nm * R > LEVEL_OFF_MIN_PX * range /\ nm < range

-----------------------------------------------------------------------------
(* Places: east and north of own ship, in miles. *)
Offset(from, at) == <<at[1] - from[1], at[2] - from[2]>>
Square(p) == p[1] * p[1] + p[2] * p[2]

(* What lies so far east and north, ahead and to the right with a bearing  *)
(* at the top; the length of neither is kept, only their proportion.       *)
Ahead(p, orient) ==
  CASE orient = 0 -> p[2] [] orient = 90 -> p[1] [] orient = 180 -> -p[2]
    [] orient = 270 -> -p[1]
Across(p, orient) == Ahead(p, (orient + 90) % 360)

(* pointOnDisplay: toward the arc and within the range. *)
Reached(toward, p, orient) ==
  /\ Ahead(toward, orient) > 0
  /\ SPAN_DEN * Abs(Across(toward, orient)) <= SPAN_NUM * Ahead(toward, orient)
  /\ Square(p) * R * R <= (range * (R - EDGE)) * (range * (R - EDGE))
(* polarOf: what is where own ship is lies ahead of it. *)
OnDisplay(p, orient) == p = <<0, 0>> \/ Reached(p, p, orient)

(* nearOnPlane: the cheap test, with its margin. *)
Near(p) == Square(p) * R * R * 100 <= (range * (R - EDGE) * MARGIN) * (range * (R - EDGE) * MARGIN)

HeldPosition(t) == IF t = None THEN None ELSE IfHolds(t, {"position"}, t.at)
HeldAltitude(t) ==
  IF t = None THEN None ELSE IfHolds(t, {"alt"}, IF t.alt = OnGround THEN None ELSE t.alt)

(* The label of a relative altitude: whole hundreds, halves away from zero, *)
(* signed by the rounded value, above its symbol or below it.              *)
HundredsOf(feet) == Sign(feet) * ((Abs(feet) + 50) \div 100)
LabelOf(feet) ==
  [text |-> <<IF HundredsOf(feet) < 0 THEN "-" ELSE "+", Abs(HundredsOf(feet))>>,
   below |-> HundredsOf(feet) < 0]
VerticalArrow(t) ==
  IF t.rate = None \/ Abs(t.rate) < ARROW \/ ~HoldsAll(t, {"verticalRate"}) THEN None
  ELSE IF t.rate > 0 THEN "up" ELSE "down"

TrafficKind(p, delta) ==
  IF Square(p) <= PROXIMATE_NM * PROXIMATE_NM /\ Abs(delta) <= PROXIMATE_ALT
  THEN "proximate" ELSE "other"

SymbolOf(kind, h, p, delta) ==
  [kind |-> kind, key |-> h, at |-> p, label |-> LabelOf(delta),
   arrow |-> VerticalArrow(tracks[h])]

-----------------------------------------------------------------------------
(* threatAddress: whom the advisory in force names, who is no ordinary     *)
(* traffic.                                                                *)
Active(ra) == ra # None /\ ~ra.terminated
ThreatAddress(ra) == IF Active(ra) THEN ra.address ELSE None
(* Mutated: the threat is ordinary traffic as well. *)
OthersAll(t) == DOMAIN tracks
Others(t) == DOMAIN tracks \ {ThreatAddress(t.ra)}

(* trafficAround: the others that hold a position and an altitude in the   *)
(* band, where the display reaches; none unless own ship holds both.       *)
TrafficAround(me, t, orient) ==
  LET from == HeldPosition(t)
      alt == HeldAltitude(t)
      one(h) ==
        LET at == HeldPosition(tracks[h])
            level == HeldAltitude(tracks[h])
        IN /\ h # me /\ at # None /\ level # None
           /\ Abs(level - alt) <= TCAS_BAND
           /\ Near(Offset(from, at)) /\ OnDisplay(Offset(from, at), orient)
  IN IF from = None \/ alt = None THEN {}
     ELSE {[hex |-> h, at |-> Offset(from, tracks[h].at), delta |-> tracks[h].alt - alt] :
             h \in {o \in Others(t) : one(o)}}

(* placeThreat: wherever it is held, out of the band too. *)
Threat(t) ==
  LET h == ThreatAddress(t.ra) IN IF h \in DOMAIN tracks THEN tracks[h] ELSE None
PlaceThreat(t, orient) ==
  LET from == HeldPosition(t)
      alt == HeldAltitude(t)
      at == HeldPosition(Threat(t))
      level == HeldAltitude(Threat(t))
  IN IF from = None \/ alt = None \/ at = None \/ level = None THEN None
     ELSE IF ~OnDisplay(Offset(from, at), orient) THEN None
     ELSE SymbolOf("threat", ThreatAddress(t.ra), Offset(from, at), level - alt)
AddressOffscale(t, orient) ==
  LET from == HeldPosition(t)
      at == HeldPosition(Threat(t))
  IN from # None /\ at # None /\ ~OnDisplay(Offset(from, at), orient)

(* estimateOf: the threat by its range and its bearing from the heading,   *)
(* which must hold; labelled when both altitudes are known.                *)
EstimateOf(t) ==
  IF ~Active(t.ra) \/ t.ra.range = None \/ t.ra.bearing = None THEN None
  ELSE IF t.heading = None \/ ~HoldsAll(t, {"heading"}) THEN None
  ELSE LET toward == (t.heading + t.ra.bearing) % 360
           to(nm) == <<Ahead(<<nm, 0>>, toward), Ahead(<<0, nm>>, toward)>>
       IN [at |-> to(t.ra.range), toward |-> to(1)]
EstimatedThreat(t, orient) ==
  LET e == EstimateOf(t)
      alt == HeldAltitude(t)
  IN IF e = None THEN None
     ELSE IF ~Reached(e.toward, e.at, orient) THEN None
     ELSE [kind |-> "threat", key |-> "estimate", at |-> e.at, arrow |-> None,
           label |-> IF t.ra.altitude = None \/ alt = None THEN None
                     ELSE LabelOf(t.ra.altitude - alt)]
EstimateOffscale(t, orient) ==
  LET e == EstimateOf(t) IN e # None /\ ~Reached(e.toward, e.at, orient)

(* ndTraffic: other traffic, proximate over it, and the threat over both;  *)
(* none on a lost or blank display, nor of the past.                       *)
NoTraffic == [symbols |-> <<>>, traffic |-> FALSE, offscale |-> FALSE]
NdTraffic(me, kind, t, stood) ==
  LET frame == NdFrame(kind, t, stood)
      placed == TrafficAround(me, t, frame.orient)
      of(k) == SetToSeq({SymbolOf(k, p.hex, p.at, p.delta) :
                           p \in {q \in placed : TrafficKind(q.at, q.delta) = k}})
      drawn(s) == IF s = None THEN <<>> ELSE <<s>>
  IN IF kind # "now" \/ frame.mode \in {"lost", "blank"} THEN NoTraffic
     ELSE [symbols |-> of("other") \o of("proximate") \o drawn(PlaceThreat(t, frame.orient))
                       \o drawn(EstimatedThreat(t, frame.orient)),
           traffic |-> Active(t.ra),
           offscale |-> AddressOffscale(t, frame.orient) \/ EstimateOffscale(t, frame.orient)]

(* peekable: the symbols a pointer can hover, all that a track backs. *)
Peekable(symbols) == SelectSeq(symbols, LAMBDA s : s.key # "estimate")

-----------------------------------------------------------------------------
Init ==
  /\ own \in Hexes
  /\ (\E t \in Reports[own] : tracks = (own :> t)) /\ moment = [kind |-> "now", r |-> None]
  /\ standing = NdFrame("now", tracks[own], 0).orient
  /\ range = ND_RANGES[1]

(* The display follows what it is of: over a gap from the frame before. *)
Redraw == standing' = NdFrame(moment'.kind, Drawn', standing).orient

(* A snapshot: an aircraft is heard, anew or for the first time, or gone.  *)
Hear(h) ==
  /\ \E t \in Reports[h] : tracks' = (h :> t) @@ tracks
  /\ UNCHANGED <<own, moment, range>> /\ Redraw
Drop(h) ==
  /\ h # own
  /\ tracks' = [o \in DOMAIN tracks \ {h} |-> tracks[o]]
  /\ UNCHANGED <<own, moment, range>> /\ Redraw

(* The lanes read the past at a sample, or where there is none. *)
Read ==
  /\ moment' \in {[kind |-> "now", r |-> None], [kind |-> "empty", r |-> None]}
                 \cup {[kind |-> "sample", r |-> t] : t \in Samples}
  /\ UNCHANGED <<own, tracks, range>> /\ Redraw
Select(h) ==
  /\ own' = h /\ moment' = [kind |-> "now", r |-> None]
  /\ UNCHANGED <<tracks, range>> /\ Redraw
Zoom(step) ==
  /\ NdRangeAfter(range, step) # None
  /\ range' = NdRangeAfter(range, step)
  /\ UNCHANGED <<own, tracks, moment, standing>>

Next ==
  \/ \E h \in Hexes : Hear(h)
  \/ \E h \in DOMAIN tracks : Drop(h) \/ Select(h)
  \/ Read
  \/ \E step \in {1, -1} : Zoom(step)

Spec == Init /\ [][Next]_vars

-----------------------------------------------------------------------------
Here == NdTraffic(own, moment.kind, Drawn, standing)
Orient == NdFrame(moment.kind, Drawn, standing).orient

(* Each aircraft is drawn once and own ship never, the threat last and as  *)
(* a threat only; and of nothing that has lapsed, nor where the display    *)
(* does not reach, nor of another time than now.                           *)
DrawnOnce(s, orient) ==
  /\ \A i, j \in DOMAIN s : s[i].key = s[j].key => i = j
  /\ \A i \in DOMAIN s :
       /\ s[i].key # own
       /\ s[i].kind = "threat" <=> Active(Drawn.ra) /\ s[i].key \in {Drawn.ra.address, "estimate"}
       /\ s[i].kind = "threat" => i = Len(s)
       /\ s[i].key # "estimate" =>
            /\ OnDisplay(s[i].at, orient)
            /\ {"position", "alt"} \subseteq Drawn.fresh \cap tracks[s[i].key].fresh
       /\ i > 1 /\ s[i].kind = "other" => s[i - 1].kind = "other"
  /\ s # <<>> => moment.kind = "now" /\ ModeOf("now", Drawn) = "track"
ThreatOnce == DrawnOnce(Here.symbols, Orient)

(* While an advisory is in force, a threat that is held with its altitude, *)
(* or estimated under a held heading, is drawn or said to be off scale,    *)
(* and never both; and what is so said is of an advisory in force.         *)
ThreatTold ==
  \A here \in {Here}, t \in {Drawn} :
    LET drawn == \E i \in DOMAIN here.symbols : here.symbols[i].kind = "threat"
        held(o) == HeldPosition(o) # None /\ HeldAltitude(o) # None
    IN /\ drawn \/ here.offscale => here.traffic
       /\ ~(drawn /\ here.offscale)
       /\ moment.kind = "now" /\ ModeOf("now", t) = "track" /\ Active(t.ra)
            /\ ((held(t) /\ held(Threat(t))) \/ EstimateOf(t) # None)
            => drawn \/ here.offscale

(* Two aircraft that see each other see each other alike: as near, and as  *)
(* far above as below.                                                     *)
SeesAlike(one, other) ==
  /\ one.kind = other.kind
  /\ one.label.text[2] = other.label.text[2]
  /\ one.label.below # other.label.below \/ one.label.text = <<"+", 0>>
Mutual ==
  \A seen \in {[x \in DOMAIN tracks |-> Range(NdTraffic(x, "now", tracks[x], 0).symbols)]} :
    \A a, b \in DOMAIN tracks : \A one \in seen[a], other \in seen[b] :
      one.key = b /\ other.key = a /\ "threat" \notin {one.kind, other.kind}
        => SeesAlike(one, other)

(* The compass has a label at every ten degrees it reaches, in its place;  *)
(* a bug off it is parked at the end nearer to it.                         *)
CompassTrue ==
  \A labels \in {Labels(Orient)} :
     /\ \A n \in 0 .. 35 :
          LET rel == Turn(Orient, 10 * n)
          IN {l.at : l \in {m \in labels : m.text = n}} = IF Abs(rel) <= 70 THEN {rel} ELSE {}
     /\ \A b \in {15 * n : n \in 0 .. 23} :
          LET rel == Turn(Orient, b)
              bug == Bug(rel)
          IN /\ bug.half <=> Pointer(rel) = None
             /\ bug.half => Abs(Turn(bug.at, rel)) <= Abs(Turn(-bug.at, rel))
             /\ ~bug.half => bug.at = rel

(* A bearing is drawn and written alike, and both or neither of it lapse:  *)
(* what the display draws of the target is on a live frame only, turned to *)
(* the track its box reads, and nothing is read of a target that is lost.  *)
ReadsAlike ==
  \A frame \in {NdFrame(moment.kind, Drawn, standing)},
     drawn \in {NdSymbols(moment.kind, Drawn)}, read \in {NdReadouts(moment.kind, Drawn)} :
     /\ drawn.heading \in {None, read.hdg} /\ drawn.sel \in {None, read.sel}
     /\ drawn.track = Box(frame)
     /\ Box(frame) # None => Box(frame) = frame.orient /\ ~Flagged(frame.mode)
     /\ drawn.trend # None \/ LevelOffShown(drawn.levelOff) => read.gs # None
     /\ LevelOffShown(drawn.levelOff) =>
          Sign(Drawn.selAlt - Drawn.alt) = Sign(Drawn.rate) /\ drawn.levelOff < range
     /\ frame.mode = "lost" =>
          drawn = NoSymbols /\ read = [gs |-> None, hdg |-> None, sel |-> None]
     /\ moment.kind = "empty" => frame.orient = standing
=============================================================================
