-------------------------------- MODULE Tapes --------------------------------
(***************************************************************************)
(* What the primary flight display draws of a reading: its tapes, digit    *)
(* wheels, vertical speed scale and horizon.  Lengths are in hundredths of *)
(* a pixel, down from the top; a speed is in quarters of a knot; a roll is *)
(* one of a list, each a right triangle of whole sides.                    *)
(***************************************************************************)
EXTENDS Integers, Sequences, FiniteSets, SequencesExt, FiniteSetsExt

CONSTANTS
  Widths,                \* of the box it stands in, pixels
  Spans,                 \* by reading, the stretches of values that are run
  Marks,                 \* altitudes that are selected or of the FMS
  Rolls,                 \* <<cosine, sine, hypotenuse>>, as the roll grows
  Paths                  \* <<climb, drift>> of a flight path, tenths of degrees

TapesAssumption ==
  /\ \A w \in Widths : w > 240
  /\ DOMAIN Spans = {"alt", "ias", "vs", "roll"}
  /\ \A i \in DOMAIN Rolls :
       Rolls[i][1] * Rolls[i][1] + Rolls[i][2] * Rolls[i][2] = Rolls[i][3] * Rolls[i][3]

VARIABLES
  width, of, at,         \* the box, the reading shown, and its value
  mark                   \* what else is drawn beside it

vars == <<width, of, at, mark>>

PX == 100
KT == 4

Abs(v) == IF v < 0 THEN -v ELSE v
Sign(v) == IF v > 0 THEN 1 ELSE IF v < 0 THEN -1 ELSE 0
Larger(a, b) == IF a > b THEN a ELSE b
Clamp(v, low, high) == IF v < low THEN low ELSE IF v > high THEN high ELSE v

-----------------------------------------------------------------------------
(* pfdGeometry: the columns and lines of a display so wide.                *)
InstrumentHeight(w) == (2 * w) \div 3
PfdGeometry(w) ==
  LET h == InstrumentHeight(w) * PX
      vL == (w - 24) * PX
      aR == vL - 6 * PX
      aL == aR - 58 * PX
      wxr == aL - 16 * PX
      wyb == h - 36 * PX
      yc == (52 * PX + wyb) \div 2
  IN [w |-> w * PX, h |-> h, sL |-> 8 * PX, sR |-> 54 * PX, wx |-> 68 * PX, wxr |-> wxr,
      wy |-> 52 * PX, wyb |-> wyb, acx |-> (68 * PX + wxr) \div 2, yc |-> yc,
      yTop |-> 36 * PX, yBot |-> 2 * yc - 36 * PX, aL |-> aL, aR |-> aR, vL |-> vL,
      rr |-> yc - 52 * PX - 12 * PX]
G == PfdGeometry(width)

(* tapeY, times the span of the tape. *)
TapeY(v, from, span) == G.yc * span - (v - from) * (G.yc - G.yTop)
(* The steps worked out about a reading that are on the tape. *)
Steps(from, reach, step, span, margin) ==
  {v \in {n \in from - reach .. from + reach : n % step = 0} :
     /\ TapeY(v, from, span) >= (G.yTop + margin) * span
     /\ TapeY(v, from, span) <= (G.yBot - margin) * span}
ClearOf(v, from, span, clear) == Abs(TapeY(v, from, span) - G.yc * span) > clear * span

(* speedTape: a tick every ten knots, from none; a label every twenty,     *)
(* clear of the readout.                                                   *)
SpeedTape(ias) ==
  LET ticks == {v \in Steps(ias, 50 * KT, 10 * KT, 45 * KT, 4 * PX) : v >= 0}
  IN [ticks |-> ticks,
      labels |-> {v \in ticks : v % (20 * KT) = 0 /\ ClearOf(v, ias, 45 * KT, 22 * PX)}]

(* altitudeTape: likewise; a label is its thousands, signed, and the rest; *)
(* a labelled thousand has a bar above it and one below, where they fit.   *)
LabelledTape(ft, ticks) ==
  LET labels == {v \in ticks : v % 200 = 0 /\ ClearOf(v, ft, 450, 24 * PX)}
      bars(v) == {TapeY(v, ft, 450) + n * 9 * PX * 450 : n \in {-1, 1}}
  IN [ticks |-> ticks,
      labels |-> {[of |-> v, negative |-> v < 0, hi |-> Abs(v) \div 1000,
                   lo |-> Abs(v) % 1000] : v \in labels},
      bars |-> {b \in UNION {bars(v) : v \in {l \in labels : l % 1000 = 0}} :
                  b >= G.yTop * 450 /\ b <= G.yBot * 450}]
AltitudeTape(ft) == LabelledTape(ft, Steps(ft, 600, 100, 450, 3 * PX))

(* selBugPath: off the scale it parks at the end; fmsLinePath: not drawn.  *)
SelBug(ft, sel) == Clamp(TapeY(sel, ft, 450), G.yTop * 450, G.yBot * 450)
FmsShown(ft, fms) ==
  TapeY(fms, ft, 450) >= G.yTop * 450 /\ TapeY(fms, ft, 450) <= G.yBot * 450
SelDigits(sel) == [hi |-> sel \div 1000, lo |-> sel % 1000]

-----------------------------------------------------------------------------
(* The digit wheels: their rows from the top, and how far each has turned  *)
(* to the row above the one at rest, of a whole row.                       *)
(* Mutated: the digit rolls after it changes. *)
CarriedLate(a, place, step) == Larger(0, step - (a % place))
Carried(a, place, step) == Larger(0, (a % place) - (place - step))
CarryWheel(a, place, step, rows) ==
  [rows |-> rows, turned |-> Carried(a, place, step), whole |-> step]
Blank == 0

SpeedDigits(ias) ==
  LET base == ias \div KT
      hundreds == base \div 100
      tens == base \div 10
  IN [hundreds |-> CarryWheel(ias, 100 * KT, KT, <<hundreds + 1, hundreds>>),
      tens |-> CarryWheel(ias, 10 * KT, KT, <<(tens + 1) % 10, tens % 10>>),
      ones |-> [rows |-> [i \in 1 .. 4 |->
                            IF base + 3 - i < 0 THEN Blank ELSE (base + 3 - i) % 10],
                turned |-> ias - base * KT, whole |-> KT]]

(* The slot of the ten-thousands: a digit, a hatch below them, or NEG. *)
SlotRow(ft) ==
  IF ft < 0 THEN [kind |-> "neg", digit |-> 0]
  ELSE IF ft < 10000 THEN [kind |-> "hatch", digit |-> 0]
  ELSE [kind |-> "digit", digit |-> ft \div 10000]
AltitudeDigits(ft) ==
  LET a == Abs(ft)
      base == (a \div 20) * 20
      wheel(place) ==
        CarryWheel(a, place, 20, <<(a \div place + 1) % 10, (a \div place) % 10>>)
  IN [tenThousands |-> CarryWheel(a, 10000, 20,
                         <<[kind |-> "digit", digit |-> a \div 10000 + 1], SlotRow(ft)>>),
      thousands |-> wheel(1000), hundreds |-> wheel(100),
      drum |-> [rows |-> [i \in 1 .. 4 |-> Abs(base + 20 * (3 - i)) % 100],
                turned |-> a - base, whole |-> 20]]

(* carryPitch and carryCell: the window of a digit's wheel, from its right *)
(* edge; drumCell: that of the last digits.  A row's baseline is 0.36 of   *)
(* its font below its middle, its capitals 0.73 tall, its digits 0.6 wide. *)
INNER_HALF == 17 * PX
CarryPitch(line) ==
  LET clear == Larger(INNER_HALF + 36 * line, INNER_HALF + (73 - 36) * line)
  IN ((clear + 24) \div 25) * 25
CarryCell(line, edge, font) ==
  [x |-> edge - 60 * font, w |-> 60 * font, lineH |-> CarryPitch(line), above |-> 1, px |-> font,
   restTop2 |-> 2 * INNER_HALF + 72 * line - CarryPitch(line) - 72 * font]
DrumCell(x, w, line, font) ==
  [x |-> x, w |-> w, lineH |-> line * PX, above |-> 2, px |-> font,
   restTop2 |-> 2 * INNER_HALF - line * PX]
SpeedReadout ==
  LET right == G.sR - 14 * PX
      tens == CarryCell(16, right - 12 * PX, 16)
  IN [hundreds |-> CarryCell(16, tens.x, 16), tens |-> tens,
      ones |-> DrumCell(right - 11 * PX, 10 * PX, 18, 16)]
AltitudeReadout ==
  LET right == G.aR + 5 * PX
      hundreds == CarryCell(17, right - 18 * PX, 13)
      thousands == CarryCell(17, hundreds.x, 17)
  IN [tenThousands |-> CarryCell(17, thousands.x, 17), thousands |-> thousands,
      hundreds |-> hundreds, drum |-> DrumCell(right - 17 * PX, 16 * PX, 17, 13)]

(* columnTop, twice and times the wheel's whole turn; and where a row's    *)
(* digits stand in the window, likewise: their baseline and their top.     *)
ColumnTop(cell, wheel) ==
  wheel.whole * (cell.restTop2 - 2 * cell.above * cell.lineH) + 2 * wheel.turned * cell.lineH
Baseline(cell, wheel, row) ==
  ColumnTop(cell, wheel) + wheel.whole * (2 * (row - 1) * cell.lineH + cell.lineH + 72 * cell.px)
CapTop(cell, wheel, row) == Baseline(cell, wheel, row) - wheel.whole * 2 * 73 * cell.px

-----------------------------------------------------------------------------
(* vsiOffset: steepest about none and capped, in parts of the half scale.  *)
VSI_FULL == 80000
VSI_SLOPES == <<<<0, 0, 30>>, <<1000, 30, 22>>, <<2000, 52, 7>>>>
VsiOffset(vs) ==
  LET v == IF Abs(vs) > 6000 THEN 6000 ELSE Abs(vs)
      s == VSI_SLOPES[Max({i \in DOMAIN VSI_SLOPES : v >= VSI_SLOPES[i][1]})]
  IN Sign(vs) * (s[2] * 1000 + (v - s[1]) * s[3])
VsiMarks == {500, 1000, 1500, 2000, 4000, 6000}
(* vsiScale: each mark above and below; vsiDigits: to fifties, from 400.   *)
VsiScale == {[of |-> v, labelled |-> Abs(v) \in {1000, 2000, 6000}, at |-> VsiOffset(v)] :
               v \in VsiMarks \cup {-v : v \in VsiMarks}}
VsiDigits(vs) == Abs(((vs + 25) \div 50) * 50)
VsiDigitsShown(vs) == Abs(vs) >= 400

-----------------------------------------------------------------------------
(* The horizon at a roll, through the window's centre: a point's height    *)
(* over it, times the hypotenuse, and the parts of the window either side. *)
(* Here lengths are in halves of a pixel.                                  *)
HALF == PX \div 2
Centre == <<G.acx \div HALF, G.yc \div HALF>>
Height(p, centre, roll) == -(p[1] - centre[1]) * roll[2] - (p[2] - centre[2]) * roll[1]
Corners ==
  LET point(x, y) == <<x \div HALF, y \div HALF>>
  IN <<point(G.wx, G.wy), point(G.wxr, G.wy), point(G.wxr, G.wyb), point(G.wx, G.wyb)>>
Inside(d, keepSky) == IF keepSky THEN d >= 0 ELSE d < 0
(* clipSide: the corners on one side, and where the edges are cut, each    *)
(* with what its coordinates are times; of corners so high over it.        *)
Next4(i) == (i % 4) + 1
Cut(a, b, da, db) == [x |-> b[1] * da - a[1] * db, y |-> b[2] * da - a[2] * db, of |-> da - db]
ClipSide(corners, d, keepSky) ==
  LET isIn == {i \in 1 .. 4 : Inside(d[i], keepSky)}
  IN [corners |-> isIn,
      cuts |-> [i \in {j \in 1 .. 4 : (j \in isIn) # (Next4(j) \in isIn)} |->
                  Cut(corners[i], corners[Next4(i)], d[i], d[Next4(i)])]]

(* The ladder's rungs, by tenths of degrees at 3.6 pixels a degree: none   *)
(* that is at none, under the bank scale or past the window's foot.        *)
Ladder ==
  {d \in {25 * n : n \in -8 .. 8} :
     d # 0 /\ d * 36 <= G.rr - 16 * PX /\ -d * 36 <= G.wyb - G.yc - 4 * PX}

(* fpvAt: at the ladder's scale in the rolled frame, kept in the window;   *)
(* fpvPath: as far as its circle, wings and fin reach.                     *)
FpvAt(roll, path) ==
  LET climb == path[1] * 36
      drift == path[2] * 36
  IN <<Clamp(G.acx + (drift * roll[1] - climb * roll[2]) \div roll[3],
             G.wx + 18 * PX, G.wxr - 18 * PX),
       Clamp(G.yc - (climb * roll[1] + drift * roll[2]) \div roll[3],
             G.wy + 12 * PX, G.wyb - 5 * PX)>>
FpvReach(p) ==
  [left |-> p[1] - (5 + 13) * PX, right |-> p[1] + (5 + 13) * PX,
   top |-> p[2] - (5 + 7) * PX, bottom |-> p[2] + 5 * PX]

-----------------------------------------------------------------------------
MarksOf(r) == IF r = "alt" THEN Marks ELSE IF r = "roll" THEN Paths ELSE {<<0, 0>>}

Init ==
  /\ width \in Widths /\ of \in DOMAIN Spans
  /\ \E s \in Spans[of] : at = s[1]
  /\ mark \in MarksOf(of)

(* The reading glides on or back, by the least there is. *)
Glide ==
  /\ \E d \in {-1, 1} :
       /\ at' = at + d
       /\ \E s \in Spans[of] : {at, at'} \subseteq s[1] .. s[2]
  /\ UNCHANGED <<width, of, mark>>

Next == Glide

Spec == Init /\ [][Next]_vars

-----------------------------------------------------------------------------
(* The number wheels show when each is read by the row nearer its window's *)
(* middle: that of the row above once it has turned half way.              *)
Row(wheel, rest) == wheel.rows[IF 2 * wheel.turned >= wheel.whole THEN rest - 1 ELSE rest]

(* Read so, even amid a carry, the wheels show the reading to the nearest  *)
(* step of the last of them, and NEG stands just below zero.               *)
WheelsRead ==
  /\ of = "alt" =>
       LET d == AltitudeDigits(at)
       IN /\ 10000 * Row(d.tenThousands, 2).digit + 1000 * Row(d.thousands, 2)
               + 100 * Row(d.hundreds, 2) + Row(d.drum, 3) = ((Abs(at) + 10) \div 20) * 20
          /\ (d.tenThousands.rows[2].kind = "neg") <=> at < 0
  /\ of = "ias" =>
       LET d == SpeedDigits(at)
       IN 100 * Row(d.hundreds, 2) + 10 * Row(d.tens, 2) + Row(d.ones, 3)
            = (at + KT \div 2) \div KT

(* In its window a wheel at rest shows one whole digit and nothing of the  *)
(* next, one that has turned nothing of the last; the drums leave no gap;  *)
(* and no window is over another or outside its box.                       *)
WindowsRead(cells, wheels, left, right) ==
  \A n \in DOMAIN cells :
    LET cell == cells[n]
        wheel == wheels[n]
        foot == 4 * INNER_HALF * wheel.whole
    IN /\ left <= cell.x /\ cell.x + cell.w <= right
       /\ \A m \in DOMAIN cells \ {n} :
            cell.x + cell.w <= cells[m].x \/ cells[m].x + cells[m].w <= cell.x
       /\ IF cell.above = 1
          THEN /\ wheel.turned = 0 =>
                    /\ Baseline(cell, wheel, 1) <= 0
                    /\ CapTop(cell, wheel, 2) >= 0
                    /\ Baseline(cell, wheel, 2) <= foot
               /\ CapTop(cell, [wheel EXCEPT !.turned = wheel.whole], 2) >= foot
          ELSE /\ ColumnTop(cell, wheel) <= 0
               /\ ColumnTop(cell, wheel) + 2 * 4 * cell.lineH * wheel.whole >= foot
Windows ==
  /\ of = "alt" => WindowsRead(AltitudeReadout, AltitudeDigits(at), G.aL + 15 * PX, G.aR + 5 * PX)
  /\ of = "ias" => WindowsRead(SpeedReadout, SpeedDigits(at), G.sL - 4 * PX, G.sR - 14 * PX)

(* The tapes have each tick that fits, however far from the reading it was *)
(* worked out; an altitude's label reads what it stands at; the bug is off *)
(* the scale only at the end that it is beyond, where no line is drawn.    *)
TapesWhole ==
  /\ of = "alt" =>
       \A tape \in {AltitudeTape(at)}, end \in {(at - mark) * (G.yc - G.yTop)} :
          /\ tape.ticks = {v \in {100 * n : n \in (at \div 100) - 9 .. (at \div 100) + 9} :
                             Abs(v - at) * (G.yc - G.yTop) <= (G.yc - G.yTop - 3 * PX) * 450}
          /\ \A l \in tape.labels :
               /\ (IF l.negative THEN -1 ELSE 1) * (1000 * l.hi + l.lo) = l.of
               /\ l.hi = 0 /\ l.lo = 0 => ~l.negative
          /\ IF FmsShown(at, mark) THEN SelBug(at, mark) = G.yc * 450 + end
             ELSE SelBug(at, mark) = (IF mark > at THEN G.yTop ELSE G.yBot) * 450
          /\ mark >= 0 => 1000 * SelDigits(mark).hi + SelDigits(mark).lo = mark
  /\ of = "ias" =>
       \A tape \in {SpeedTape(at)} :
          /\ tape.ticks = {v \in {10 * KT * n : n \in 0 .. 99} :
                             Abs(v - at) * (G.yc - G.yTop) <= (G.yc - G.yTop - 4 * PX) * 45 * KT}
          /\ tape.labels \subseteq tape.ticks

(* The vertical speed scale is the same up and down, full at its end and   *)
(* further apart the further from none; the digits are near the rate.      *)
VsiTrue ==
  of = "vs" =>
    /\ VsiOffset(-at) = -VsiOffset(at) /\ Abs(VsiOffset(at)) <= VSI_FULL
    /\ \A m, n \in VsiScale : m.of < n.of <=> m.at < n.at
    /\ \E m \in VsiScale : m.at = VSI_FULL /\ m.labelled
    /\ VsiDigitsShown(at) => Abs(VsiDigits(at) - Abs(at)) <= 25 /\ VsiDigits(at) >= 400

(* At every roll the horizon cuts the window twice, as far from its centre *)
(* either way; each corner is on one side of it; a rung has all those      *)
(* nearer the horizon; and the flight path's symbol is whole in the window.*)
CutByHorizon(sky, ground, centre) ==
  LET ends == DOMAIN sky.cuts
  IN /\ Cardinality(ends) = 2 /\ DOMAIN ground.cuts = ends
     /\ sky.corners \cup ground.corners = 1 .. 4 /\ sky.corners \cap ground.corners = {}
     /\ \A i, j \in ends : i # j =>
          /\ sky.cuts[j].of = -sky.cuts[i].of
          /\ sky.cuts[i].x - sky.cuts[j].x = 2 * centre[1] * sky.cuts[i].of
          /\ sky.cuts[i].y - sky.cuts[j].y = 2 * centre[2] * sky.cuts[i].of
HorizonCuts ==
  of = "roll" =>
    /\ \A centre \in {Centre}, corners \in {Corners} :
         \A d \in {[i \in 1 .. 4 |-> Height(corners[i], centre, Rolls[at])]} :
           CutByHorizon(ClipSide(corners, d, TRUE), ClipSide(corners, d, FALSE), centre)
    /\ \A rungs \in {Ladder} : \A d \in rungs, e \in {25 * n : n \in -8 .. 8} \ {0} :
         Sign(d) = Sign(e) /\ Abs(e) < Abs(d) => e \in rungs
    /\ \A f \in {FpvReach(FpvAt(Rolls[at], mark))} :
         G.wx <= f.left /\ f.right <= G.wxr /\ G.wy <= f.top /\ f.bottom <= G.wyb

(* A reading that glides turns no wheel and moves no needle by a leap: a   *)
(* wheel turns by the part of its row that the reading moved, one that is  *)
(* carried not at all or as fast as the last.                              *)
Turning(wheel, rest) ==
  LET at10(r) == wheel.rows[r] * wheel.whole IN at10(rest) + wheel.turned
Leapless(was, is, rest) ==
  LET by == (Turning(is, rest) - Turning(was, rest)) % (10 * was.whole)
  IN by \in {0, 1, 10 * was.whole - 1}
TurnsSmoothly ==
  [][/\ of = "alt" =>
          LET was == AltitudeDigits(at)
              is == AltitudeDigits(at')
          IN Leapless(was.thousands, is.thousands, 2) /\ Leapless(was.hundreds, is.hundreds, 2)
     /\ of = "ias" =>
          LET was == SpeedDigits(at)
              is == SpeedDigits(at')
          IN Leapless(was.tens, is.tens, 2) /\ Leapless(was.ones, is.ones, 3)
     /\ of = "vs" =>
          LET by == VsiOffset(at') - VsiOffset(at)
          IN by * (at' - at) \in 0 .. 30]_vars
=============================================================================
