-------------------------------- MODULE Glide --------------------------------
(***************************************************************************)
(* The glides of the instruments: a reading shown is on its way to the     *)
(* value last reported, and so is each point of a moving set of items; the *)
(* frames are drawn for as long as one of them moves, and no longer.       *)
(* Time is in steps, of which a glide takes GLIDE.                         *)
(***************************************************************************)
EXTENDS Integers

CONSTANTS
  None,
  GLIDE, WRAP,           \* GLIDE_MS, and the circle an angle is on
  Angles,                \* values reported of an angle
  Items, Spots,          \* items drawn at a point, and where they may be
  Keys,                  \* whose readings they are, and on what scale
  MaxReports, MaxTime    \* bounds of what is explored

GlideAssumption ==
  GLIDE \in Nat \ {0} /\ WRAP \in Nat \ {0} /\ Angles \subseteq 0 .. WRAP - 1

VARIABLES
  now,           \* performance.now()
  clock,         \* when the last frame was drawn
  framesUntil, framing,
  key,
  angle,         \* the glide of a reading, or none
  points,        \* the glides of each item's point
  reports

vars == <<now, clock, framesUntil, framing, key, angle, points, reports>>

-----------------------------------------------------------------------------
Clamp(v, low, high) == IF v < low THEN low ELSE IF v > high THEN high ELSE v

(* shortWay, and where an angle comes to on its circle. *)
ShortWay(from, to) == ((to - from + WRAP + WRAP \div 2) % WRAP) - WRAP \div 2
OnCircle(v) == v % WRAP

(* glideAt: at one pace, there after GLIDE; an angle the short way round. *)
GlideAt(g, at, wraps) ==
  LET gone == Clamp(at - g.startedAt, 0, GLIDE)
  IN IF wraps THEN OnCircle(g.from + (ShortWay(g.from, g.to) * gone) \div GLIDE)
     ELSE g.from + ((g.to - g.from) * gone) \div GLIDE

(* Mutated: it sets off from where it was going, not from where it is. *)
GlideFromEnd(current, to, wraps) ==
  IF current = None THEN [from |-> to, to |-> to, startedAt |-> now]
  ELSE IF current.to = to THEN current
  ELSE [from |-> current.to, to |-> to, startedAt |-> now]
GlideToward(current, to, wraps) ==
  IF current = None THEN [from |-> to, to |-> to, startedAt |-> now]
  ELSE IF current.to = to THEN current
  ELSE [from |-> GlideAt(current, now, wraps), to |-> to, startedAt |-> now]

RetargetGlide(current, to, wraps) ==
  IF to = None THEN None ELSE GlideToward(current, to, wraps)

(* retargetPoints: an item no longer there is dropped, a new one stands. *)
RetargetPoints(current, targets) ==
  [item \in DOMAIN targets |->
     [axis \in 1 .. 2 |->
        GlideToward(IF item \in DOMAIN current THEN current[item][axis] ELSE None,
                    targets[item][axis], FALSE)]]

(* Those that set off now ask for frames until they have arrived. *)
SetOff(g) == g # None /\ g.startedAt = now /\ g.from # g.to
FrameUntil(glides) ==
  IF \E g \in glides : SetOff(g)
  THEN /\ framesUntil' = IF framesUntil > now + GLIDE THEN framesUntil ELSE now + GLIDE
       /\ framing' = TRUE
  ELSE UNCHANGED <<framesUntil, framing>>

-----------------------------------------------------------------------------
Init ==
  /\ now = 0 /\ clock = 0 /\ framesUntil = 0 /\ framing = FALSE
  /\ key \in Keys
  /\ angle = None /\ points = <<>>
  /\ reports = 0

(* glided and glidedPoints: a report comes, of the same target or another. *)
Report(k, a, targets) ==
  LET kept(current, none) == IF k = key THEN current ELSE none
  IN /\ reports < MaxReports
     /\ reports' = reports + 1
     /\ key' = k
     /\ angle' = RetargetGlide(kept(angle, None), a, TRUE)
     /\ points' = RetargetPoints(kept(points, <<>>), targets)
     /\ FrameUntil({angle'} \cup {points'[i][axis] : i \in DOMAIN targets, axis \in 1 .. 2})
     /\ UNCHANGED <<now, clock>>

(* frame: once one is drawn past the time asked for, none comes after it. *)
Frame ==
  /\ framing
  /\ clock' = now
  /\ framing' = (now < framesUntil)
  /\ UNCHANGED <<now, framesUntil, key, angle, points, reports>>

Tick ==
  /\ now < MaxTime
  /\ now' = now + 1
  /\ UNCHANGED <<clock, framesUntil, framing, key, angle, points, reports>>

Targets == UNION {[S -> Spots] : S \in SUBSET Items}

Next ==
  \/ \E k \in Keys, a \in Angles \cup {None}, targets \in Targets :
       Report(k, a, targets)
  \/ Frame
  \/ Tick

Spec == Init /\ [][Next]_vars

-----------------------------------------------------------------------------
(* What is shown is read at the clock of the frames. *)
Shown(g, wraps) == IF g = None THEN None ELSE GlideAt(g, clock, wraps)
Apart(a, b, wraps) ==
  LET d == IF wraps THEN ShortWay(a, b) ELSE b - a IN IF d < 0 THEN -d ELSE d

(* With no frame due every reading stands where it was last reported: no   *)
(* glide is left short of its end, whatever came while others were moving. *)
StandsWhenStill ==
  ~framing =>
    /\ angle # None => Shown(angle, TRUE) = angle.to
    /\ \A i \in DOMAIN points : \A axis \in 1 .. 2 :
         Shown(points[i][axis], FALSE) = points[i][axis].to

(* A reading shown never jumps, turns back or goes the long way round: any *)
(* step leaves it on the way it was going and no further along than it has *)
(* had time for, except one to another target or scale, which shows that   *)
(* one where it is.                                                        *)
Onward(g, h, wraps) ==
  LET was == Shown(g, wraps)
      is == GlideAt(h, clock', wraps)
      by == GlideAt(g, now', wraps)
  IN g # None /\ h # None =>
       IF key' = key THEN Apart(was, is, wraps) + Apart(is, by, wraps) = Apart(was, by, wraps)
       ELSE is = h.to
NeverJumps ==
  [][/\ Onward(angle, angle', TRUE)
     /\ \A i \in DOMAIN points \cap DOMAIN points' : \A axis \in 1 .. 2 :
          Onward(points[i][axis], points'[i][axis], FALSE)]_vars
=============================================================================
