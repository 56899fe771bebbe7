-------------------------------- MODULE Strips --------------------------------
(***************************************************************************)
(* What a lane of the detail column draws of a contact's history, and what *)
(* it reads at the pointer: traces and their scale, the shaded gaps, bars, *)
(* barbs and glyphs at round times, and the readout with the intents of    *)
(* the lane.  A sample says some values, each heard at an instant of its   *)
(* own.  Values are as the lane shows them, and places across are pixels.  *)
(***************************************************************************)
EXTENDS Integers, SequencesExt, FiniteSetsExt

CONSTANTS
  None, Ground,
  LANES,                 \* the lanes looked at, of those PLOTS has
  News,                  \* what a report may say anew of each, None for no more
  Elapsed,               \* how long after the last the next report may be
  LAPSE_SEC, MIN_WINDOW_SEC,
  LENGTH,                \* of a window asked for
  WIDTH, Pixels,         \* of the plot, and where the pointer may be
  HEIGHT, PAD_TOP, PAD_BOTTOM,
  STEPS_SEC, HOUR_SEC, GLYPH_PITCH, GLYPH_REACH, BARB_PITCH, BARB_REACH,
  TRANSITION, OPERATOR,  \* the operator's altimeter: below it, what its QNH adds
  AGREE_FT, HOLD_DEG, CLIMB_DEAD_BAND,
  RETENTION_SEC,         \* how long the contact keeps a sample
  MaxNow                 \* bounds the time

StripsAssumption ==
  /\ LAPSE_SEC \in Nat \ {0} /\ LENGTH \in Nat \ {0} /\ MIN_WINDOW_SEC \in Nat \ {0}
  /\ Pixels \subseteq 0 .. WIDTH /\ Elapsed \subseteq Nat \ {0} /\ MaxNow \in Nat
  /\ HEIGHT > PAD_TOP + PAD_BOTTOM
  /\ {TRANSITION, OPERATOR} \subseteq Int /\ CLIMB_DEAD_BAND \in Nat

VARIABLES
  lane,
  samples,   \* of the contact, oldest first
  now,       \* of the last snapshot
  window,    \* of the lanes
  hoverPx    \* where the pointer is across the plots, or None

vars == <<lane, samples, now, window, hoverPx>>

Interval(from, to) == [from |-> from, to |-> to]
Distance(a, b) == IF a < b THEN b - a ELSE a - b
WithinLapse(a, b) == Distance(a, b) < LAPSE_SEC
Said(s, f) == IF f \in DOMAIN s.said THEN s.said[f] ELSE None

-----------------------------------------------------------------------------
(* The readings, by the values each is made of; the first of a lane is its *)
(* own, the others the intents drawn in it.                                *)
ReadingsIn(l) ==
  IF l = "alt" THEN <<"alt", "selAlt", "fmsAlt">>
  ELSE IF l = "trk" THEN <<"trk", "selHdg">> ELSE <<l>>
HEARD(key) ==
  CASE key = "trk" -> {"track", "heading"} [] key = "selHdg" -> {"selHeading"}
    [] key = "modes" -> {"navModes"} [] key = "wind" -> {"windSpeed", "windDir"}
    [] key = "age" -> {} [] OTHER -> {key}
(* PLOTS: how each is drawn. *)
Kind(key) ==
  CASE key \in {"selAlt", "fmsAlt", "selHdg"} -> "intent" [] key = "trk" -> "heading"
    [] key = "modes" -> "gantt" [] key = "wind" -> "barbs" [] key = "age" -> "pair"
    [] OTHER -> "line"
QUANTUM == 12
(* displayAltitude: by a setting, as what it adds to the standard one, and *)
(* a level, which no setting changes, from the transition altitude up.     *)
DisplayAltitude(alt, setting) ==
  IF alt \in {None, Ground} THEN alt
  ELSE IF alt + setting < TRANSITION THEN [kind |-> "altitude", feet |-> alt + setting]
  ELSE [kind |-> "level", feet |-> alt]
(* crewAltitudeFt: by the crew's own setting once it is known. *)
Setting(s) == IF Said(s, "navQnh") = None THEN OPERATOR ELSE Said(s, "navQnh")
CrewAltitude(s) ==
  LET shown == DisplayAltitude(Said(s, "alt"), Setting(s))
  IN IF shown \in {None, Ground} THEN None ELSE shown.feet

(* steeringHeading: the selected heading, but while the aircraft is flown  *)
(* by another mode, or says a heading of 0 and no modes.                   *)
SteeringHeading(s) ==
  LET modes == Said(s, "navModes")
      managed == IF modes = None THEN Said(s, "selHeading") = 0
                 ELSE Range(modes) \cap {"lnav", "approach"} # {}
  IN IF managed THEN None ELSE Said(s, "selHeading")

(* windOf: both its speed and its direction, or none. *)
Wind(s) ==
  IF None \in {Said(s, "windSpeed"), Said(s, "windDir")} THEN None
  ELSE [speed |-> Said(s, "windSpeed"), dir |-> Said(s, "windDir")]

(* What is plotted of a sample: a value of a reading, its second, or that   *)
(* it has a state to show along the floor.                                 *)
Read(s, key, part) ==
  CASE part = "floor" -> IF key = "alt" /\ Said(s, "alt") = Ground THEN 0 ELSE None
    [] part = "second" -> Said(s, "seenPos")
    [] key = "alt" -> CrewAltitude(s)
    [] key = "age" -> Said(s, "seen")
    [] key = "selHdg" -> SteeringHeading(s)
    [] key = "modes" -> Said(s, "navModes")
    [] key = "wind" -> Wind(s)
    [] OTHER -> Said(s, key)

OldestHeard(s, fs) ==
  LET heard == fs \cap DOMAIN s.heard
  IN IF heard = {} THEN None ELSE Min({s.heard[f] : f \in heard})
HeardNear(s, fs, t) ==
  fs = {} \/ (fs \cap DOMAIN s.heard # {} /\ WithinLapse(t, OldestHeard(s, fs)))
(* The track and the heading each on its own. *)
HeardNearAt(keys, s, t) ==
  LET parts == UNION {IF k = "trk" THEN {{"track"}, {"heading"}} ELSE {HEARD(k)} : k \in keys}
      lapsed == UNION {p \in parts : ~HeardNear(s, p, t)}
  IN [s EXCEPT !.said = [f \in DOMAIN s.said \ lapsed |-> s.said[f]]]

-----------------------------------------------------------------------------
(* Samples by time. *)
Apart(a, b) == b.t - a.t >= LAPSE_SEC
CountBefore(ss, t, through) ==
  Cardinality({k \in DOMAIN ss : ss[k].t < t \/ (through /\ ss[k].t = t)})
IndicesIn(ss, i) == (CountBefore(ss, i.from, FALSE) + 1) .. CountBefore(ss, i.to, TRUE)
(* From the one before the interval through the one after it. *)
Around(ss, i) ==
  SubSeq(ss, Max({1, CountBefore(ss, i.from, FALSE)}),
             Min({Len(ss), CountBefore(ss, i.to, TRUE) + 1}))

(* The runs a trace joins: of a stretch, each point a new report, and none *)
(* where the reading went unheard for the gap.                             *)
Ended(acc) == [acc EXCEPT !.run = <<>>,
                          !.runs = IF acc.run = <<>> THEN @ ELSE Append(@, acc.run)]
(* Mutated: a run goes on however long its reading went unheard. *)
JoinedUnheard(acc, s, v, at) ==
  IF at = None \/ at = acc.last \/ ~WithinLapse(s.t, at) THEN acc
  ELSE [acc EXCEPT !.run = Append(@, [t |-> s.t, v |-> v]), !.last = at]
Joined(acc, s, v, at) ==
  IF at = None \/ at = acc.last \/ ~WithinLapse(s.t, at) THEN acc
  ELSE LET on == IF acc.last # None /\ at - acc.last >= LAPSE_SEC THEN Ended(acc) ELSE acc
       IN [on EXCEPT !.run = Append(@, [t |-> s.t, v |-> v]), !.last = at]
RunsOf(ss, key, part, i) ==
  LET fs == HEARD(key)
      take(acc, s) ==
        LET on == IF acc.prev # None /\ Apart([t |-> acc.prev], s)
                  THEN [Ended(acc) EXCEPT !.last = None] ELSE acc
            v == Read(s, key, part)
        IN [(IF v = None THEN Ended(on)
             ELSE Joined(on, s, v, IF fs = {} THEN s.t ELSE OldestHeard(s, fs)))
            EXCEPT !.prev = s.t]
  IN Ended(FoldLeft(take, [runs |-> <<>>, run |-> <<>>, last |-> None, prev |-> None],
                    Around(ss, i))).runs

(* laneTraces: its own, along the floor, the second of a pair, the intents. *)
Trace(ss, key, part, i) ==
  [key |-> key, part |-> part, runs |-> RunsOf(ss, key, part, i)]
LaneTraces(ss, keys, i) ==
  LET own == keys[1]
      floored == Trace(ss, own, "floor", i)
  IN IF Kind(own) \notin {"line", "pair"} THEN <<>>
     ELSE <<Trace(ss, own, "own", i)>>
          \o (IF floored.runs = <<>> THEN <<>> ELSE <<floored>>)
          \o (IF Kind(own) = "pair" THEN <<Trace(ss, own, "second", i)>> ELSE <<>>)
          \o [k \in 1 .. Len(keys) - 1 |-> Trace(ss, keys[k + 1], "intent", i)]

Points(traces) == UNION {UNION {Range(r) : r \in Range(tr.runs)} : tr \in traces}
Segments(traces) ==
  UNION {UNION {{<<r[k], r[k + 1]>> : k \in 1 .. Len(r) - 1} : r \in Range(tr.runs)} : tr \in traces}
Crossing(p, q, t) == p.v + ((q.v - p.v) * (t - p.t)) \div (q.t - p.t)
(* The lowest and highest drawn, also where a segment crosses an edge. *)
RangeOf(traces, i) ==
  LET at == {p.v : p \in {x \in Points(traces) : x.t >= i.from /\ x.t <= i.to}}
      cut == UNION {{Crossing(s[1], s[2], edge) :
                       edge \in {x \in {i.from, i.to} : s[1].t < x /\ s[2].t > x}} :
                    s \in Segments(traces)}
  IN IF at \cup cut = {} THEN None ELSE [lo |-> Min(at \cup cut), hi |-> Max(at \cup cut)]
Snapped(r) ==
  LET lo == (r.lo \div QUANTUM) * QUANTUM
      hi == -((-r.hi) \div QUANTUM) * QUANTUM
  IN [lo |-> lo, hi |-> IF hi = lo THEN lo + QUANTUM ELSE hi]
LaneRange(traces, i) ==
  LET r == RangeOf({tr \in Range(traces) : tr.part # "floor"}, i)
  IN IF r = None THEN None ELSE Snapped(r)
YOf(v, r) ==
  LET span == HEIGHT - PAD_TOP - PAD_BOTTOM
  IN IF r.hi = r.lo THEN PAD_TOP + span \div 2
     ELSE HEIGHT - PAD_BOTTOM - ((v - r.lo) * span) \div (r.hi - r.lo)

(* Between two stretches, and after the last report while the target is    *)
(* lost, cut to the interval.                                              *)
GapsIn(ss, i, lost) ==
  LET between == {Interval(Max({ss[k].t, i.from}), Min({ss[k + 1].t, i.to})) :
                    k \in {n \in 1 .. Len(ss) - 1 : Apart(ss[n], ss[n + 1])}}
      after == IF lost /\ ss # <<>> THEN {Interval(Max({Last(ss).t, i.from}), i.to)} ELSE {}
  IN {g \in between \cup after : g.from < g.to}

(* The earlier of two as near. *)
NearestSample(ss, t, i) ==
  LET inside == IndicesIn(ss, i)
      nearest == {k \in inside : \A j \in inside : Distance(ss[k].t, t) <= Distance(ss[j].t, t)}
  IN IF inside = {} THEN None ELSE ss[Min(nearest)]
NewestSample(ss, i) ==
  IF IndicesIn(ss, i) = {} THEN None ELSE ss[Max(IndicesIn(ss, i))]
(* Mutated: at the sample that ends a gap it is over the gap yet. *)
OverGapThrough(ss, t, lost) ==
  LET k == CountBefore(ss, t, FALSE)
  IN k > 0 /\ (IF k = Len(ss) THEN lost ELSE Apart(ss[k], ss[k + 1]))
OverGap(ss, t, lost) ==
  LET k == CountBefore(ss, t, FALSE)
  IN /\ k > 0
     /\ IF k = Len(ss) THEN lost ELSE t # ss[k + 1].t /\ Apart(ss[k], ss[k + 1])
TimeAt(px, i) == i.from + (px * (i.to - i.from)) \div WIDTH
XOf(t, i) == ((t - i.from) * WIDTH) \div (i.to - i.from)
PeekAt(ss, px, i, lost) ==
  LET t == TimeAt(px, i)
      near == NearestSample(ss, t, i)
  IN IF OverGap(ss, t, lost) THEN [t |-> t, sample |-> None]
     ELSE IF near = None THEN None ELSE [t |-> near.t, sample |-> near]

-----------------------------------------------------------------------------
(* Bars: from the sample that first reports a name to the last before one  *)
(* that does not, or a gap.                                                *)
Names(s) ==
  IF HeardNear(s, HEARD("modes"), s.t) /\ Said(s, "navModes") # None
  THEN Range(Said(s, "navModes")) ELSE {}
BarsOf(ss) ==
  LET on(name, a, b) ==
        /\ \A k \in a .. b : name \in Names(ss[k])
        /\ \A k \in a .. (b - 1) : ~Apart(ss[k], ss[k + 1])
      longest(name, a, b) ==
        /\ on(name, a, b)
        /\ a > 1 => ~on(name, a - 1, b)
        /\ b < Len(ss) => ~on(name, a, b + 1)
  IN [name \in UNION {Names(s) : s \in Range(ss)} |->
        {Interval(ss[x[1]].t, ss[x[2]].t) :
           x \in {y \in (DOMAIN ss) \X (DOMAIN ss) : y[1] <= y[2] /\ longest(name, y[1], y[2])}}]

(* clockStep, ticks and clearOfEnds: round times at which marks of a reach *)
(* fit whole, at least a pitch apart.                                      *)
ClockStep(span, most) ==
  LET few == {k \in DOMAIN STEPS_SEC : span <= most * STEPS_SEC[k]}
  IN IF few = {} THEN HOUR_SEC ELSE STEPS_SEC[Min(few)]
Ticks(i, step) == {t \in i.from .. i.to : t % step = 0}
ClearOfEnds(at, i, reach) == {t \in at : XOf(t, i) >= reach /\ XOf(t, i) <= WIDTH - reach}

(* headingAt: none when neither the track nor the heading was heard. *)
HeadingAt(s, t) ==
  LET h == HeardNearAt({"trk", "selHdg"}, s, t)
  IN IF Said(h, "track") = None /\ Said(h, "heading") = None THEN None
     ELSE [trk |-> Said(h, "track"), hdg |-> Said(h, "heading"), sel |-> SteeringHeading(h)]
(* atTicks: a sample with a heading a little off, while one is within reach. *)
AtTick(ss, t, withinSec) ==
  LET all == IF ss = <<>> THEN Interval(0, 0) ELSE Interval(ss[1].t, Last(ss).t)
      preferred == SelectSeq(ss, LAMBDA s : Said(s, "heading") # None)
      near == NearestSample(preferred, t, all)
      s == IF near = None THEN NearestSample(ss, t, all)
           ELSE IF Distance(near.t, t) <= withinSec /\ WithinLapse(near.t, t) THEN near
           ELSE NearestSample(ss, t, all)
  IN IF s = None THEN None ELSE IF WithinLapse(s.t, t) THEN HeadingAt(s, t) ELSE None

(* headingGlyph: what is drawn of it, and which way round it has to turn. *)
Turn(a, b) == ((((b - a) % 360) + 540) % 360) - 180
HeadingGlyph(h) ==
  IF h.hdg # None
  THEN {"aircraft"} \cup (IF h.trk = None THEN {} ELSE {"vector"})
       \cup (IF h.sel = None THEN {}
             ELSE IF Distance(Turn(h.hdg, h.sel), 0) < HOLD_DEG THEN {"held"}
             ELSE IF Turn(h.hdg, h.sel) > 0 THEN {"right"} ELSE {"left"})
  ELSE IF h.trk = None THEN {}
  ELSE {"arrow"} \cup (IF h.sel = None THEN {} ELSE {"tick"})
StepEvery(i, pitch) == ClockStep(i.to - i.from, Max({1, WIDTH \div pitch}))
Glyphs(ss, i) ==
  LET step == StepEvery(i, GLYPH_PITCH)
  IN {[t |-> t, h |-> AtTick(ss, t, step \div 2)] :
        t \in ClearOfEnds(Ticks(i, step), i, GLYPH_REACH)}

(* barbMarks: a pennant per 50 kt, a barb per 10, a half barb for 5. *)
BarbMarks(kt) ==
  LET left == ((kt * 2 + 5) \div 10) * 5
  IN [k \in 1 .. left \div 50 |-> "pennant"]
     \o [k \in 1 .. (left % 50) \div 10 |-> "full"]
     \o (IF left % 10 = 5 THEN <<"half">> ELSE <<>>)
(* A barb of the sample nearest a tick, of a wind heard near enough to it. *)
Barbs(ss, i) ==
  LET step == StepEvery(i, BARB_PITCH)
      near(t) == NearestSample(ss, t, Interval(ss[1].t, Last(ss).t))
      drawn(t) == /\ WithinLapse(near(t).t, t) /\ HeardNear(near(t), HEARD("wind"), t)
                  /\ Wind(near(t)) # None
  IN {[t |-> t, s |-> near(t)] :
        t \in {x \in ClearOfEnds(Ticks(i, step), i, BARB_REACH) : drawn(x)}}

-----------------------------------------------------------------------------
(* The readout of a lane at a sample. *)
ClimbState(rate) ==
  IF rate = None THEN "level" ELSE IF rate > CLIMB_DEAD_BAND THEN "climbing"
  ELSE IF rate < -CLIMB_DEAD_BAND THEN "descending" ELSE "level"
FmsFirst(alt, rate, sel, fms) ==
  CASE ClimbState(rate) = "climbing" -> fms < sel
    [] ClimbState(rate) = "descending" -> fms > sel
    [] OTHER -> IF alt = None THEN FALSE ELSE Distance(fms, alt) < Distance(sel, alt)
(* altTargets: in the order the aircraft levels at them; one if they agree. *)
AltTargets(alt, rate, sel, fms) ==
  CASE sel = None /\ fms = None -> <<>>
    [] fms = None -> <<"selAlt">> [] sel = None -> <<"fmsAlt">>
    [] OTHER -> IF Distance(sel, fms) < AGREE_FT THEN <<"selAlt">>
                ELSE IF FmsFirst(alt, rate, sel, fms) THEN <<"fmsAlt", "selAlt">>
                ELSE <<"selAlt", "fmsAlt">>

(* An altitude reads by the operator's setting, but one the crew selected  *)
(* as they set it.                                                         *)
TextOf(key, s) ==
  CASE key = "trk" -> LET h == [track |-> Said(s, "track"), heading |-> Said(s, "heading")]
                      IN IF h.track = None /\ h.heading = None THEN None ELSE h
    [] key = "alt" -> DisplayAltitude(Said(s, "alt"), OPERATOR)
    [] key \in {"selAlt", "fmsAlt"} -> DisplayAltitude(Said(s, key), 0)
    [] OTHER -> Read(s, key, "own")
IntentsOf(keys, s) ==
  IF keys[1] # "alt" THEN [keys |-> Tail(keys), agreed |-> FALSE]
  ELSE LET sel == Said(s, "selAlt")
           fms == Said(s, "fmsAlt")
           levels == AltTargets(Read(s, "alt", "own"), Said(s, "verticalRate"), sel, fms)
       IN [keys |-> levels, agreed |-> Len(levels) = 1 /\ sel # None /\ fms # None]
ReadoutOf(keys, at) ==
  IF at = None THEN [value |-> None, intents |-> <<>>, agreed |-> FALSE]
  ELSE LET s == HeardNearAt(Range(keys), at, at.t)
           intents == IntentsOf(keys, s)
       IN [value |-> TextOf(keys[1], s),
           intents |-> SelectSeq(intents.keys, LAMBDA k : TextOf(k, s) # None),
           agreed |-> intents.agreed]
HeldIntents(keys, ss) ==
  SelectSeq(Tail(keys), LAMBDA k : \E s \in Range(ss) : Read(s, k, "intent") # None)
(* Mutated: the slot left over is the second intent's, whichever is first. *)
SlotsInOrder(r, held) ==
  IF held = <<>> THEN <<>>
  ELSE LET first == IF r.intents # <<>> THEN r.intents[1] ELSE held[1]
       IN IF Len(held) = 1 \/ r.agreed THEN <<first>>
          ELSE <<first, IF Len(r.intents) > 1 THEN r.intents[2] ELSE held[2]>>
ReadoutSlots(r, held) ==
  IF held = <<>> THEN <<>>
  ELSE LET first == IF r.intents # <<>> THEN r.intents[1] ELSE held[1]
           rest == {k \in DOMAIN held : held[k] # first}
       IN IF Len(held) = 1 \/ r.agreed THEN <<first>>
          ELSE <<first, IF Len(r.intents) > 1 THEN r.intents[2] ELSE held[Min(rest)]>>

-----------------------------------------------------------------------------
(* The column. *)
IsLost == now - Last(samples).t >= LAPSE_SEC
Panel == INSTANCE Window WITH contact <- Interval(samples[1].t, now), start <- None
Visible == Panel!Visible
Gaps == GapsIn(samples, Visible, IsLost)
Peek == IF hoverPx = None THEN None ELSE PeekAt(samples, hoverPx, Visible, IsLost)
At == IF Peek = None THEN NewestSample(samples, Visible) ELSE Peek.sample
Past == Peek # None \/ window.kind = "held"
ShownReadout ==
  IF At = None /\ ~Past THEN None ELSE ReadoutOf(ReadingsIn(lane), At)
(* Kept whole inside the plot. *)
CursorX ==
  IF Peek = None THEN None ELSE Max({0, Min({XOf(Peek.t, Visible), WIDTH - 1})})

Init ==
  /\ lane \in LANES
  /\ samples = <<[t |-> 0, said |-> <<>>, heard |-> <<>>]>>
  /\ now = 0 /\ window = Panel!Live(Panel!Infinity) /\ hoverPx = None

(* A snapshot of the target heard: what it says anew, the rest as before;  *)
(* samples too old are trimmed.                                            *)
Report(wait, news) ==
  /\ LET s == Last(samples)
         gone == {f \in DOMAIN news : news[f] = None}
         kept == DOMAIN s.said \ DOMAIN news
         t == s.t + wait
         anew == DOMAIN news \ gone
         next == [t |-> t,
                  said |-> [f \in kept \cup anew |-> IF f \in anew THEN news[f] ELSE s.said[f]],
                  heard |-> [f \in kept \cup anew |-> IF f \in anew THEN t ELSE s.heard[f]]]
     IN /\ t >= now /\ t <= MaxNow
        /\ samples' = SelectSeq(Append(samples, next), LAMBDA x : x.t >= t - RETENTION_SEC)
        /\ now' = t
  /\ UNCHANGED <<lane, window, hoverPx>>
(* One of the others only: the target is silent, and lost in the end. *)
Silence ==
  /\ ~IsLost
  /\ now' = Last(samples).t + LAPSE_SEC
  /\ UNCHANGED <<lane, samples, window, hoverPx>>
Hover(px) == hoverPx # px /\ hoverPx' = px /\ UNCHANGED <<lane, samples, now, window>>
(* The window asked for: as long as that, held where it stands or live     *)
(* again, or a gap further back.                                           *)
SetWindow ==
  /\ window' \in {Panel!ZoomWindow(LENGTH, Visible.to), Panel!PanWindow(-LAPSE_SEC),
                   IF window.kind = "live" THEN Panel!Held(Visible.from, Visible.to)
                   ELSE Panel!Live(Visible.to - Visible.from)}
  /\ window' # window
  /\ UNCHANGED <<lane, samples, now, hoverPx>>

Next ==
  \/ \E wait \in Elapsed, news \in News[lane] : Report(wait, news)
  \/ Silence
  \/ \E px \in Pixels \cup {None} : Hover(px)
  \/ SetWindow

-----------------------------------------------------------------------------
Own == LaneTraces(samples, ReadingsIn(lane), Visible)
Inside(a, b, g) == a < g.to /\ b > g.from

(* No trace, bar or glyph is drawn where the lane is shaded for want of    *)
(* reports (trace.ts:43), gaps never overlap, and a segment joins only     *)
(* reports of its reading heard less than the gap apart.                   *)
NoneOverGaps ==
  /\ \A g, h \in Gaps : g # h => ~Inside(g.from, g.to, h)
  /\ \A s \in Segments(Range(Own)) :
       /\ s[1].t < s[2].t
       /\ \A g \in Gaps : ~Inside(s[1].t, s[2].t, g)
  /\ \A tr \in Range(Own) : tr.part # "second" /\ HEARD(tr.key) # {} =>
       \A s \in Segments({tr}) :
         LET of(t) == CHOOSE x \in Range(samples) : x.t = t
         IN OldestHeard(of(s[2].t), HEARD(tr.key)) - OldestHeard(of(s[1].t), HEARD(tr.key))
              < LAPSE_SEC
  /\ lane = "modes" =>
       \A name \in DOMAIN BarsOf(samples) : \A b \in BarsOf(samples)[name], g \in Gaps :
         ~Inside(b.from, b.to, g)

(* The scale holds all that is drawn in the window, so no trace leaves the *)
(* lane however steeply it enters (trace.ts:98), and never is flat.        *)
ScaleHolds ==
  LET r == LaneRange(Own, Visible)
      drawn == {tr \in Range(Own) : tr.part # "floor"}
  IN /\ r # None => r.lo < r.hi
     /\ \A p \in Points(drawn) : p.t >= Visible.from /\ p.t <= Visible.to =>
          /\ r # None
          /\ YOf(p.v, r) \in PAD_TOP .. HEIGHT - PAD_BOTTOM
     /\ \A s \in Segments(drawn) :
          \A t \in {Visible.from, Visible.to} : s[1].t < t /\ t < s[2].t =>
            YOf(Crossing(s[1], s[2], t), r) \in PAD_TOP .. HEIGHT - PAD_BOTTOM

(* The pointer reads none exactly where the lane is shaded, and elsewhere  *)
(* a sample in view; and the altitude read there is the one its trace came *)
(* to last, not longer ago than a reading holds, and reads as it is drawn, *)
(* unless the crew's setting differs below the transition altitude: it is  *)
(* drawn by theirs and read by the operator's (plots.ts:71,                *)
(* readings.ts:75-76).                                                     *)
ReadsTheTrace ==
  Peek # None =>
    LET t == TimeAt(hoverPx, Visible)
        everywhere == Interval(samples[1].t, now)
        before == {p \in Points({Trace(samples, lane, "own", everywhere)}) : p.t <= Peek.t}
        latest == CHOOSE p \in before : \A q \in before : q.t <= p.t
        value == ReadoutOf(ReadingsIn(lane), At).value
    IN /\ (Peek.sample = None) <=>
            /\ \A s \in Range(samples) : s.t # t
            /\ \E g \in Gaps : g.from <= t /\ t <= g.to
       /\ CursorX \in 0 .. WIDTH - 1
       /\ lane = "alt" /\ value \notin {None, Ground} /\ samples[1].t = 0 =>
            LET drawn == CHOOSE s \in Range(samples) : s.t = latest.t
            IN /\ before # {}
               /\ Said(drawn, "alt") = Said(Peek.sample, "alt") /\ Peek.t - latest.t < LAPSE_SEC
               /\ Setting(drawn) = OPERATOR
                    \/ (latest.v >= TRANSITION /\ value.kind = "level") => value.feet = latest.v

(* The readout has a slot for each intent the contact had, or one where    *)
(* they agree: none twice, none known left out, and as many wherever it    *)
(* is read (Lane.tsx:142).                                                 *)
SlotsStand ==
  LET keys == ReadingsIn(lane)
      held == HeldIntents(keys, samples)
  IN \A s \in Range(samples) :
       LET r == ReadoutOf(keys, s)
           slots == ReadoutSlots(r, held)
       IN /\ IsInjective(slots)
          /\ Len(slots) = IF r.agreed THEN 1 ELSE Len(held)
          /\ Range(r.intents) \subseteq Range(slots)

(* A glyph never shows both that the heading holds its selection and that  *)
(* it is turning to it, and reads nothing heard a gap or more away.        *)
GlyphsHeard ==
  lane = "trk" =>
    \A g \in Glyphs(samples, Visible) : g.h # None =>
      /\ Cardinality(HeadingGlyph(g.h) \cap {"held", "left", "right", "tick"})
           = (IF g.h.sel = None THEN 0 ELSE 1)
      /\ \E s \in Range(samples) : WithinLapse(s.t, g.t) /\
           \E f \in {"track", "heading"} : HeardNear(s, {f}, g.t)

(* A barb tells a wind heard less than a gap away, to the 5 kt its marks   *)
(* can say, with no more marks than it takes (trace.ts:253).               *)
BarbsHeard ==
  lane = "wind" =>
    \A b \in Barbs(samples, Visible) :
      LET marks == BarbMarks(Said(b.s, "windSpeed"))
          kt == FoldLeft(LAMBDA sum, m : sum + (CASE m = "pennant" -> 50 [] m = "full" -> 10
                                                  [] OTHER -> 5), 0, marks)
      IN /\ 2 * Distance(kt, Said(b.s, "windSpeed")) <= 5
         /\ WithinLapse(OldestHeard(b.s, {"windSpeed", "windDir"}), b.t)
         /\ Cardinality({k \in DOMAIN marks : marks[k] = "full"}) < 5
         /\ Cardinality({k \in DOMAIN marks : marks[k] = "half"}) < 2

StripsTrue == BarbsHeard /\ NoneOverGaps /\ ScaleHolds /\ ReadsTheTrace /\ SlotsStand /\ GlyphsHeard
=============================================================================
