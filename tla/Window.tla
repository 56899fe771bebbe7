------------------------------- MODULE Window -------------------------------
(***************************************************************************)
(* The stretch of a contact that the history lanes show: its last seconds  *)
(* as time goes on, or an interval that stays put.  The contact grows with *)
(* every snapshot and is trimmed at its start; the window is zoomed,       *)
(* panned, selected, pinched, held and let go.  Times are whole seconds,   *)
(* where a division leaves a rest it is cut off.                           *)
(***************************************************************************)
EXTENDS Integers

CONSTANTS MIN_WINDOW_SEC,
          WIDTH,         \* of the plots, in the pixels fingers are told apart by
          MaxNow,        \* bound on the time
          None

WindowAssumption ==
  MIN_WINDOW_SEC \in Nat \ {0} /\ WIDTH \in Nat \ {0} /\ MaxNow \in Nat

VARIABLES
  window,    \* the window, live or held
  contact,   \* from the first sample to now
  start      \* what two fingers began on, while they pinch

vars == <<window, contact, start>>

Least(a, b) == IF a < b THEN a ELSE b
Most(a, b) == IF a < b THEN b ELSE a
Length(i) == i.to - i.from
Interval(from, to) == [from |-> from, to |-> to]

(* As long as any contact. *)
Infinity == MaxNow + MIN_WINDOW_SEC
Live(sec) == [kind |-> "live", sec |-> sec]
Held(from, to) == [kind |-> "held", from |-> from, to |-> to]

Init ==
  /\ window = Live(Infinity)
  /\ contact = Interval(0, 0)
  /\ start = None

(* At least the minimum, at most the whole contact. *)
WindowSec(sec) ==
  Least(Most(sec, MIN_WINDOW_SEC), Most(MIN_WINDOW_SEC, Length(contact)))

(* Mutated: what was trimmed of the contact is shown yet. *)
ResolveUntrimmed(w) ==
  IF w.kind = "live" THEN Interval(contact.to - WindowSec(w.sec), contact.to)
  ELSE Interval(w.from, w.from + Most(MIN_WINDOW_SEC, Length(w)))
(* The interval shown. *)
Resolve(w) ==
  IF w.kind = "live" THEN Interval(contact.to - WindowSec(w.sec), contact.to)
  ELSE LET sec == Most(MIN_WINDOW_SEC, Length(w))
           to == Least(Most(w.from, contact.from) + sec, contact.to)
       IN Interval(to - sec, to)

Visible == Resolve(window)

LiveOf(sec) == Live(IF sec >= Length(contact) THEN Infinity ELSE sec)
(* Moved up to the start of the contact, live when it reaches now. *)
Settle(from, sec) ==
  LET first == Most(from, contact.from) IN
  IF first + sec >= contact.to THEN LiveOf(sec) ELSE Held(first, first + sec)

(* A live window keeps its right edge, a held one its pivot. *)
ZoomWindow(sec, pivot) ==
  LET asked == WindowSec(sec)
      before == ((pivot - Visible.from) * asked) \div Length(Visible)
  IN IF window.kind = "live" THEN LiveOf(asked) ELSE Settle(pivot - before, asked)

PanWindow(sec) ==
  IF window.kind = "live" /\ sec >= 0 THEN window
  ELSE Settle(Visible.from + sec, Length(Visible))

(* What is selected is visible already, so that it needs no clamp. *)
SelectWindow(t0, t1) ==
  LET from == Least(t0, t1) IN
  Settle(from, Most(MIN_WINDOW_SEC, Most(t0, t1) - from))

(* Two fingers at a and b that landed at a0 and b0: what was between them  *)
(* follows them when held, and now does when live.                         *)
PinchWindow(a0, b0, a, b) ==
  LET seen == start.visible
      gap(x, y) == Most(1, Most(x, y) - Least(x, y))
      sec == WindowSec((Length(seen) * gap(a0, b0)) \div gap(a, b))
      first == IF start.window.kind = "live"
               THEN contact.to - sec - (((a + b - a0 - b0) * sec) \div (2 * WIDTH))
               ELSE seen.from + (((a0 + b0) * Length(seen) - (a + b) * sec) \div (2 * WIDTH))
  IN Settle(first, sec)

-----------------------------------------------------------------------------
To(w) == window' = w /\ UNCHANGED contact

Zoom(sec, pivot) == To(ZoomWindow(sec, pivot)) /\ UNCHANGED start
Pan(sec) == To(PanWindow(sec)) /\ UNCHANGED start
Select(t0, t1) == To(SelectWindow(t0, t1)) /\ UNCHANGED start
Hold == To(Held(Visible.from, Visible.to)) /\ UNCHANGED start
GoLive == To(Live(Length(Visible))) /\ UNCHANGED start
Reset == To(Live(Infinity)) /\ UNCHANGED start

Land(a0, b0) ==
  /\ start = None
  /\ start' = [window |-> window, visible |-> Visible, a0 |-> a0, b0 |-> b0]
  /\ UNCHANGED <<window, contact>>
Pinch(a, b) ==
  /\ start # None
  /\ To(PinchWindow(start.a0, start.b0, a, b))
  /\ UNCHANGED start
Part == start # None /\ start' = None /\ UNCHANGED <<window, contact>>

(* A snapshot: now goes on, and the oldest samples may be dropped. *)
Snapshot(dropped) ==
  /\ contact.to < MaxNow
  /\ contact' = Interval(contact.from + dropped, contact.to + 1)
  /\ UNCHANGED <<window, start>>

Keys == \E sec \in {-1, 1} : Pan(sec)
Spreads == {p \in (0 .. WIDTH) \X (0 .. WIDTH) : p[1] <= p[2]}

Next ==
  \/ \E f \in {-1, 1}, pivot \in {Visible.from, Visible.to} :
       Zoom(Length(Visible) + f, pivot)
  \/ Keys \/ Hold \/ GoLive \/ Reset \/ Part
  \/ \E t0, t1 \in Visible.from .. Visible.to : Select(t0, t1)
  \/ \E p \in Spreads : Land(p[1], p[2]) \/ Pinch(p[1], p[2])
  \/ \E dropped \in 0 .. 1 : Snapshot(dropped)

Spec == Init /\ [][Next]_vars

-----------------------------------------------------------------------------
TypeOK ==
  /\ window.kind = "live" => window.sec \in Nat
  /\ window.kind = "held" => window.from <= window.to
  /\ 0 <= contact.from /\ contact.from <= contact.to /\ contact.to <= MaxNow

(* What is shown is of the contact: it ends by now, is as long as the      *)
(* minimum, and begins before the contact only when that is shorter than   *)
(* what is shown.                                                          *)
OfContact(shown, of) ==
  /\ shown.to <= of.to
  /\ Length(shown) >= MIN_WINDOW_SEC
  /\ shown.from < of.from => shown.to = of.to

(* What a snapshot does to what is shown: a live window follows it, and    *)
(* keeps its length, unless it is of the whole contact or the contact is   *)
(* shorter; a held one stands, until its start is trimmed, when it is      *)
(* moved on as long as it was.                                             *)
Stands(shown, next, of) ==
  /\ window.kind = "live" =>
       next.to = of.to
         /\ (Length(next) # Length(shown) =>
               Length(next) = Most(MIN_WINDOW_SEC, Length(of)))
  /\ window.kind = "held" =>
       Length(next) = Length(shown)
         /\ (next # shown => next.from = of.from \/ next.to = of.to)

(* Whatever is asked for, at any time, what is shown is of the contact; a  *)
(* snapshot moves it as it moves and no further; and of a held window the  *)
(* end it is zoomed about stands, while the contact has room.              *)
WindowShownStep ==
  /\ OfContact(Visible', contact')
  /\ contact' # contact => Stands(Visible, Visible', contact')
  /\ \A f \in {-1, 1} :
       Zoom(Length(Visible) + f, Visible.to)
         /\ window.kind = "held" /\ window'.kind = "held"
         /\ Visible'.from > contact.from
       => Visible'.to = Visible.to
WindowShown == [][WindowShownStep]_vars
=============================================================================
