-------------------------------- MODULE Sheet --------------------------------
(***************************************************************************)
(* The bottom sheet the panels share on a phone: which panel holds it, the *)
(* detent it rests at, and the fingers that pull it by its grabber or by   *)
(* its content.  Each panel has a sheet of its own, with a pull of its own,*)
(* and one of them at a time is shown.  Lengths are in steps of the wobble *)
(* of a tap; how fast a finger lifts off is any of a few speeds.           *)
(***************************************************************************)
EXTENDS Integers, FiniteSets, Sequences, SequencesExt

CONSTANTS
  None,
  Panels, DETENTS,       \* the detents of each panel's sheet, smallest first
  Heights,               \* the height of each detent
  Fingers,
  DECIDE, PULL,          \* how far a finger goes before it does something
  Velocities, FLING, COAST, RUBBER,
  Mixed                  \* whether the grabber and the tabs are used while
                         \* another finger is on the sheet

SheetAssumption ==
  /\ \A p \in Panels : DETENTS[p] # <<>> /\ IsInjective(DETENTS[p])
  /\ {Heights[d] : d \in DOMAIN Heights} \subseteq Nat \ {0}
  /\ {DECIDE, PULL} \subseteq Nat \ {0} /\ DECIDE <= PULL /\ Velocities \subseteq Int
  /\ {FLING, COAST} \subseteq Nat \ {0} /\ RUBBER \in 1 .. 99
  /\ None \notin Panels \cup Fingers

Room == Heights["large"]
Detents(p) == ToSet(DETENTS[p])

VARIABLES
  active,    \* activeSheet: the panel that holds the sheet, or none
  detent,    \* sheetDetent: where the open sheet rests
  slides,    \* sheetSlides: whether it slides as it shows or hides
  sheet,     \* each panel's: its pull, and the frame it is drawn at
  fingers    \* where each finger is that is down, and what it landed on

vars == <<active, detent, slides, sheet, fingers>>

Idle ==
  [pressed |-> FALSE, pulled |-> FALSE, landedAt |-> 0, shown |-> 0, extent |-> 0,
   frame |-> None, landed |-> None, pulling |-> None]

Init ==
  /\ active = None /\ detent = "medium" /\ slides = TRUE
  /\ sheet = [p \in Panels |-> Idle]
  /\ fingers = <<>>

-----------------------------------------------------------------------------
Far(a, b) == IF a > b THEN a - b ELSE b - a
Smallest(p) == Heights[DETENTS[p][1]]
Largest(p) == Heights[Last(DETENTS[p])]

(* sheetFrame, with its rubber band: what is drawn when so much of the     *)
(* sheet is to show.                                                       *)
SheetFrame(extent, smallest, largest) ==
  IF extent > largest
  THEN LET give == RUBBER * (extent - largest) * largest
       IN [height |-> largest + (give \div (RUBBER * (extent - largest) + 100 * largest)),
           shift |-> 0]
  ELSE IF extent >= smallest THEN [height |-> extent, shift |-> 0]
  ELSE [height |-> smallest, shift |-> smallest - (IF extent > 0 THEN extent ELSE 0)]

(* sheetStops: where a sheet may rest, closed among them. *)
Stops(p) == {0} \cup {Heights[d] : d \in Detents(p)}
DetentAt(p, stop) ==
  IF stop = 0 THEN None ELSE CHOOSE d \in Detents(p) : Heights[d] = stop

(* Of some stops, the one nearest; the lower of two as near. *)
Nearest(stops, extent) ==
  CHOOSE s \in stops : \A other \in stops :
    Far(s, extent) < Far(other, extent) \/ (Far(s, extent) = Far(other, extent) /\ s <= other)

(* settle: the stop its flick coasts nearest to, out of the two either     *)
(* side of it unless it is flung.                                          *)
Settled(p, extent, velocity) ==
  LET stops == Stops(p)
      below == {s \in stops : s <= extent}
      above == stops \ below
      either == {s \in below : \A t \in below : t <= s}
                \cup {s \in above : \A t \in above : s <= t}
      among == IF Far(velocity, 0) >= FLING THEN stops ELSE either
  IN DetentAt(p, Nearest(among, extent + velocity * COAST))

(* contentMovesSheet: up while the sheet is short of its largest detent,   *)
(* down while the content is scrolled to its top.                          *)
ContentMoves(p, up, sideways, atTop) ==
  ~sideways /\ (IF up > 0 THEN detent # Last(DETENTS[p]) ELSE atTop)

-----------------------------------------------------------------------------
(* The pull of a sheet, worked by the grabber or by the content.           *)

(* How much of a sheet shows, and the pull as a pointer lands. *)
ShownOf(p) ==
  IF active # p THEN 0
  ELSE IF sheet[p].frame # None THEN sheet[p].frame.height - sheet[p].frame.shift
  ELSE Heights[detent]
Down(p, s, y) ==
  [s EXCEPT !.landedAt = y, !.pressed = TRUE, !.pulled = FALSE, !.shown = ShownOf(p)]

(* A move: once past a tap, the sheet is as far up as the finger has come. *)
Dragged(p, s, y) ==
  IF ~s.pressed \/ (~s.pulled /\ Far(y, s.landedAt) < PULL) THEN s
  ELSE LET extent == s.shown + s.landedAt - y
       IN [s EXCEPT !.pulled = TRUE, !.extent = extent,
                    !.frame = SheetFrame(extent, Smallest(p), Largest(p))]

(* What a pull no pointer presses comes to: where it landed and how far it *)
(* went are not read again before the next one lands.                      *)
Unpressed(s) == [Idle EXCEPT !.pulled = s.pulled, !.frame = s.frame, !.landed = s.landed,
                             !.pulling = s.pulling]
(* A lift is a move first, which is none to where the last one was, and    *)
(* lets a pulled sheet go, to settle where its flick carries it.           *)
Up(p, s, y) ==
  LET moved == Dragged(p, s, y)
  IN IF moved.pressed /\ moved.pulled
     THEN \E velocity \in Velocities :
            LET rest == Settled(p, moved.extent, velocity)
            IN /\ sheet' = [sheet EXCEPT ![p] = [Unpressed(moved) EXCEPT !.frame = None]]
               /\ IF rest = None THEN slides' = TRUE /\ active' = None /\ UNCHANGED detent
                  ELSE detent' = rest /\ UNCHANGED <<active, slides>>
     ELSE /\ sheet' = [sheet EXCEPT ![p] = Unpressed(moved)]
          /\ UNCHANGED <<active, detent, slides>>

-----------------------------------------------------------------------------
(* cycleDetent: one up, and from the largest back to the smallest. *)
NextDetent(p) ==
  LET places == {i \in DOMAIN DETENTS[p] : DETENTS[p][i] = detent}
      place == IF places = {} THEN 0 ELSE CHOOSE i \in places : TRUE
  IN DETENTS[p][(place % Len(DETENTS[p])) + 1]

(* Mutated: a panel takes the sheet where it rests. *)
DetentForAny(p) == IF active = None THEN DETENTS[p][1] ELSE detent
(* detentFor: where a panel takes the sheet. *)
DetentFor(p) ==
  IF active # None /\ detent \in Detents(p) THEN detent ELSE DETENTS[p][1]

(* toggleSheet: a tap on the tab of a panel. *)
Tab(p) ==
  /\ Mixed \/ fingers = <<>>
  /\ IF active = p
     THEN slides' = TRUE /\ active' = None /\ UNCHANGED detent
     ELSE detent' = DetentFor(p) /\ slides' = (active = None) /\ active' = p
  /\ UNCHANGED <<sheet, fingers>>

(* A finger lands on the open sheet. *)
Lands(f, on, y) ==
  fingers' = [g \in DOMAIN fingers \cup {f} |->
                IF g = f THEN [on |-> on, of |-> active, y |-> y] ELSE fingers[g]]

(* It lands on the grabber. *)
PressGrip(f, y) ==
  LET s == sheet[active]
  IN /\ Mixed \/ fingers = <<>>
     /\ Len(DETENTS[active]) > 1
     /\ Lands(f, "grip", y)
     /\ sheet' = [sheet EXCEPT ![active] =
          [Down(active, s, y) EXCEPT !.landed = IF s.pulling = None THEN None ELSE @]]
     /\ UNCHANGED <<active, detent, slides>>

(* It lands on the content: it may pull once alone on the screen and on    *)
(* nothing that takes drags itself.                                        *)
PressContent(f, y) ==
  LET s == sheet[active]
  IN /\ Mixed \/ \A g \in DOMAIN fingers : fingers[g].on = "content"
     /\ Lands(f, "content", y)
     /\ \E free \in BOOLEAN :
          sheet' = [sheet EXCEPT ![active].landed =
            IF s.pulling # None THEN @
            ELSE IF fingers = <<>> /\ free THEN [finger |-> f, y |-> y] ELSE None]
     /\ UNCHANGED <<active, detent, slides>>

(* It moves on the content: the first move past the wobble of a tap tells  *)
(* a pull from a scroll, and the finger that pulls is followed.            *)
MoveContent(f, y) ==
  LET p == fingers[f].of
      s == sheet[p]
      first == s.landed # None /\ s.landed.finger = f
      decided(sideways, atTop, selecting) ==
        IF ~selecting /\ ContentMoves(p, s.landed.y - y, sideways, atTop)
        THEN [Down(p, s, s.landed.y) EXCEPT !.pulling = f, !.landed = None]
        ELSE [s EXCEPT !.landed = None]
      follow(t) == IF t.pulling = f THEN Dragged(p, t, y) ELSE t
  IN \/ /\ first
        /\ \E sideways, atTop, selecting \in BOOLEAN :
             /\ sideways \/ Far(s.landed.y, y) >= DECIDE
             /\ sheet' = [sheet EXCEPT ![p] = follow(decided(sideways, atTop, selecting))]
     \/ first /\ Far(s.landed.y, y) < DECIDE /\ UNCHANGED sheet
     \/ /\ ~first
        /\ sheet' = [sheet EXCEPT ![p] = follow(s)]

Move(f) ==
  \E y \in 0 .. Room :
    /\ y # fingers[f].y
    /\ fingers' = [fingers EXCEPT ![f].y = y]
    /\ IF fingers[f].on = "content" THEN MoveContent(f, y)
       ELSE sheet' = [sheet EXCEPT ![fingers[f].of] = Dragged(fingers[f].of, @, y)]
    /\ UNCHANGED <<active, detent, slides>>

(* A finger lifts.  On the grabber a mouse ends a pull in a click as well, *)
(* and a tap is a click; on the content the finger that pulled lets go.    *)
Lift(f) ==
  LET p == fingers[f].of
      s == sheet[p]
      lifted == [s EXCEPT !.landed = IF @ # None /\ @.finger = f THEN None ELSE @,
                          !.pulling = IF @ = f THEN None ELSE @]
  IN /\ fingers' = [g \in DOMAIN fingers \ {f} |-> fingers[g]]
     /\ IF fingers[f].on = "grip" \/ s.pulling = f THEN Up(p, lifted, fingers[f].y)
        ELSE /\ sheet' = [sheet EXCEPT ![p] = lifted]
             /\ UNCHANGED <<active, detent, slides>>

(* A click on the grabber, of a tap or the one that ends a mouse's pull.   *)
Click(p) ==
  /\ active = p /\ Len(DETENTS[p]) > 1 /\ fingers = <<>>
  /\ detent' = IF sheet[p].pulled THEN detent ELSE NextDetent(p)
  /\ sheet' = [sheet EXCEPT ![p].pulled = FALSE]
  /\ UNCHANGED <<active, slides, fingers>>

Next ==
  \/ \E p \in Panels : Tab(p) \/ Click(p)
  \/ \E f \in Fingers \ DOMAIN fingers, y \in 0 .. Room :
       active # None /\ (PressGrip(f, y) \/ PressContent(f, y))
  \/ \E f \in DOMAIN fingers : Move(f) \/ Lift(f)

Spec == Init /\ [][Next]_vars

-----------------------------------------------------------------------------
(* A sheet no finger is on is drawn at the detent it rests at, which its   *)
(* panel has; and one that is pulled is as far up as the finger that pulls *)
(* it has come since it landed, whatever other fingers do meanwhile.       *)
SheetFollows ==
  /\ active # None => detent \in Detents(active)
  /\ \A p \in Panels :
       /\ (\A f \in DOMAIN fingers : fingers[f].of # p)
            => sheet[p].frame = None /\ sheet[p].pulling = None /\ ~sheet[p].pressed
       /\ sheet[p].frame # None =>
            /\ active = p
            /\ sheet[p].pressed /\ sheet[p].pulled
            /\ \E f \in DOMAIN fingers :
                 /\ fingers[f].of = p
                 /\ fingers[f].on = "content" => sheet[p].pulling = f
                 /\ sheet[p].frame =
                      SheetFrame(sheet[p].shown + sheet[p].landedAt - fingers[f].y,
                                 Smallest(p), Largest(p))

(* As the tests of the content's drag say: the sheet is let go of when the *)
(* finger that pulls it lifts, whatever landed meanwhile.                  *)
ReleasedOnLift ==
  [][\A p \in Panels :
       sheet[p].pulling # None /\ sheet'[p].pulling = None => sheet'[p].frame = None]_vars
=============================================================================
