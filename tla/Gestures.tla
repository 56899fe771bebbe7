------------------------------ MODULE Gestures ------------------------------
(***************************************************************************)
(* What fingers and the mouse do to the scope: taps, long presses, pinches *)
(* and zooms after a double tap; clicks, drags of the scope, of a data     *)
(* block or of a line out of the selected target, right drags that         *)
(* measure, and menus.  All of it is of one target, its block, and the     *)
(* rest of the scope, places further apart than a press may stray.         *)
(*                                                                         *)
(* A browser says of a mouse when its first button goes down and when its  *)
(* last comes up; and the window hears of every finger, also of those that *)
(* landed beside the canvas.                                               *)
(***************************************************************************)
EXTENDS Naturals, FiniteSets

CONSTANTS Fingers, MaxFingers, None

Places == {"target", "block", "scope"}
Kinds == {"pan", "block", "rbl"}
Buttons == {"left", "right"}
Outcomes == Kinds \cup {"tap", "menu", "zoom", "range"}

(* What is grabbed; a press that may zoom, one that may tap, and one that  *)
(* may measure.                                                            *)
Grabs == [from : Places, moved : BOOLEAN, hovers : BOOLEAN]
Zooms == [id : Fingers, at : Places, started : BOOLEAN]
Taps == [id : Fingers, at : Places]
Rights == [at : Places, started : BOOLEAN]

GesturesAssumption ==
  /\ MaxFingers \in Nat \ {0}
  /\ None \notin Fingers \cup Places \cup Grabs \cup Zooms \cup Taps \cup Rights

VARIABLES
  scope,     \* what input changes of the scope, with what is grabbed of it
  touch,     \* the recognizer of fingers
  mouse,     \* the recognizer of the mouse
  fingers,   \* the fingers on the canvas
  buttons,   \* the mouse buttons that are down
  cursor,    \* the place the mouse is at
  over,      \* whether that is on the canvas
  asks,      \* a context menu is about to be asked for
  platform,  \* whether it is when the button goes "down" or comes "up"
  there,     \* whether the target has a position
  chorded,   \* history: whether two buttons were ever down at once
  mixed      \* history: whether a pointer moved while another held

vars == <<scope, touch, mouse, fingers, buttons, cursor, over, asks, platform,
          there, chorded, mixed>>

Nothing == [k \in Kinds |-> None]

Init ==
  /\ scope = [selected |-> FALSE, pending |-> "none", mode |-> "none", label |-> FALSE,
              zoomBase |-> FALSE, range |-> FALSE, menu |-> FALSE, pointer |-> FALSE,
              grab |-> Nothing, did |-> {}]
  /\ touch = [pinch |-> FALSE, zoom |-> None, timer |-> None, tapping |-> None,
              lastTap |-> FALSE, doubleTap |-> None]
  /\ mouse = [pressing |-> FALSE, right |-> None, heldMenu |-> FALSE, quiet |-> FALSE,
              mine |-> FALSE]
  /\ fingers = {} /\ buttons = {}
  /\ cursor = "scope" /\ over = FALSE
  /\ asks = FALSE
  /\ platform \in {"down", "up"}
  /\ there = TRUE
  /\ chorded = FALSE /\ mixed = FALSE

-----------------------------------------------------------------------------
(* What the actions do to a scope s.                                       *)

(* What was done, kept as long as one pointer at a time does anything. *)
Did(s, done) == IF mixed \/ chorded THEN {} ELSE s.did \cup done

StartsRbl(s, p) == p = "target" /\ there /\ s.selected

Grab(s, p, hovers) ==
  LET kind == IF StartsRbl(s, p) THEN "rbl"
              ELSE IF p = "block" /\ there THEN "block" ELSE "pan"
  IN [s EXCEPT !.grab[kind] = [from |-> p, moved |-> FALSE, hovers |-> hovers]]

Held(s, k) == s.grab[k] # None
Moved(s, k) == Held(s, k) /\ s.grab[k].moved

(* What is held moves to p, once it is past the threshold.  A line out of  *)
(* the target is pending when it starts to.                                *)
DragTo(s, p) ==
  LET moving == {k \in Kinds : Held(s, k) /\ (s.grab[k].moved \/ s.grab[k].from # p)}
      starts == "rbl" \in moving /\ ~Moved(s, "rbl")
  IN [s EXCEPT
       !.grab = [k \in Kinds |->
                   IF k \in moving THEN [s.grab[k] EXCEPT !.moved = TRUE] ELSE s.grab[k]],
       !.pending = IF starts THEN "b" ELSE @,
       !.mode = IF starts THEN "release" ELSE @,
       !.pointer = @ \/ "rbl" \in moving,
       !.label = @ \/ ("block" \in moving /\ there),
       !.did = Did(s, moving \cap {"pan"})]

(* What is held is let go: a block stays where its target is yet, a line   *)
(* is drawn unless its first end was given up.                             *)
Release(s) ==
  [s EXCEPT
    !.grab = Nothing,
    !.pending = IF Moved(s, "rbl") THEN "none" ELSE @,
    !.mode = IF Moved(s, "rbl") THEN "none" ELSE @,
    !.pointer = @ /\ ~(Moved(s, "rbl") /\ ~s.grab["rbl"].hovers),
    !.label = @ /\ ~Held(s, "block"),
    !.did = Did(s, {k \in {"block"} : Moved(s, k) /\ there}
                     \cup {k \in {"rbl"} : Moved(s, k) /\ s.pending = "b"})]
Swallows(s) == Moved(s, "pan") \/ Moved(s, "rbl") \/ (Moved(s, "block") /\ there)

(* Mutated: a block that is dropped stays as it was drawn. *)
DropUnseen(s) == [s EXCEPT !.grab = Nothing]
DropGrab(s) ==
  [s EXCEPT
    !.grab = Nothing,
    !.pending = IF Moved(s, "rbl") THEN "none" ELSE @,
    !.mode = IF Moved(s, "rbl") THEN "none" ELSE @,
    !.label = FALSE]

(* Selects what is there, or takes it for an end of the pending line. *)
Tap(s, p) ==
  [s EXCEPT
    !.pending = CASE @ = "a" -> "b" [] OTHER -> "none",
    !.mode = CASE s.pending = "a" -> "B" [] s.pending = "b" -> "none" [] OTHER -> @,
    !.selected = IF s.pending = "none" THEN p # "scope" /\ there ELSE @,
    !.did = Did(s, {"tap"})]

OpenMenu(s) == [s EXCEPT !.menu = TRUE, !.did = Did(s, {"menu"})]

ZoomStart(s) == [DropGrab(s) EXCEPT !.zoomBase = TRUE, !.did = Did(s, {"zoom"})]
ZoomEnd(s) == [s EXCEPT !.zoomBase = FALSE]

(* A press outside an open menu closes it.  The first press of all starts  *)
(* over what was done.                                                     *)
Pressed(s) == [s EXCEPT !.menu = FALSE,
                        !.did = IF fingers = {} /\ buttons = {} THEN {} ELSE @]

-----------------------------------------------------------------------------
(* Fingers.                                                                *)

(* Whether a zoom after a double tap has begun. *)
Zooming == touch.zoom # None /\ touch.zoom.started

(* A first finger is the second touch of a double tap when it lands soon   *)
(* after a tap and near it: a slide from there zooms, unless a line would  *)
(* be dragged out.  Else it grabs what is there, and may tap or be long.   *)
Lands(f, p, soon) ==
  LET second == touch.lastTap /\ soon
      zooms == second /\ ~StartsRbl(scope, p)
  IN /\ touch' = [touch EXCEPT
            !.lastTap = FALSE,
            !.doubleTap = IF second THEN f ELSE @,
            !.zoom = IF zooms THEN [id |-> f, at |-> p, started |-> FALSE] ELSE @,
            !.tapping = IF zooms THEN @ ELSE [id |-> f, at |-> p],
            !.timer = IF zooms THEN @ ELSE p]
     /\ scope' = IF zooms THEN Pressed(scope) ELSE Grab(Pressed(scope), p, FALSE)

(* A second finger pinches. *)
Pinches ==
  /\ touch' = [touch EXCEPT !.timer = None, !.tapping = None, !.zoom = None, !.pinch = TRUE]
  /\ scope' = ZoomStart(Pressed(scope))

FingerDown(f, p, soon) ==
  /\ f \notin fingers /\ Cardinality(fingers) < MaxFingers
  /\ fingers' = fingers \cup {f}
  /\ \/ fingers = {} /\ Lands(f, p, soon)
     \/ Cardinality(fingers) = 1 /\ Pinches
     \/ Cardinality(fingers) > 1 /\ scope' = Pressed(scope) /\ UNCHANGED touch
  /\ mouse' = [mouse EXCEPT !.mine = FALSE]
  /\ mixed' = (mixed \/ buttons # {} \/ asks)
  /\ UNCHANGED <<buttons, cursor, over, asks, platform, there, chorded>>

(* A pinch takes every move there is. *)
FingerMove(f, p) ==
  /\ f \in fingers /\ ~touch.pinch
  /\ IF touch.zoom # None /\ touch.zoom.id = f
     THEN /\ ~Zooming /\ touch.zoom.at # p
          /\ touch' = [touch EXCEPT !.zoom.started = TRUE]
          /\ scope' = ZoomStart(scope)
     ELSE /\ touch' = IF touch.tapping # None /\ touch.tapping.at # p
                      THEN [touch EXCEPT !.tapping = None, !.timer = None] ELSE touch
          /\ scope' = DragTo(scope, p)
  /\ UNCHANGED <<mouse, fingers, buttons, cursor, over, asks, platform, there, chorded,
                 mixed>>

(* A finger lifts, or the browser cancels it, which is never a tap. *)
FingerUp(f, p, cancelled) ==
  LET lifted == [touch EXCEPT !.timer = None, !.doubleTap = IF @ = f THEN None ELSE @]
      tapped == touch.tapping # None /\ ~cancelled
  IN
  /\ f \in fingers
  /\ touch.tapping # None => p = touch.tapping.at
  /\ fingers' = fingers \ {f}
  /\ CASE touch.pinch ->
            LET over2 == Cardinality(fingers) = 2 IN
            /\ touch' = [lifted EXCEPT !.pinch = ~over2]
            /\ scope' = IF over2 THEN ZoomEnd(scope) ELSE scope
       [] ~touch.pinch /\ touch.zoom # None ->
            /\ touch' = [lifted EXCEPT !.zoom = None]
            /\ scope' = IF Zooming THEN ZoomEnd(scope) ELSE scope
       [] OTHER ->
            /\ touch' = [lifted EXCEPT !.lastTap = tapped, !.tapping = None]
            /\ scope' = Release(IF tapped THEN Tap(scope, p) ELSE scope)
  /\ UNCHANGED <<mouse, buttons, cursor, over, asks, platform, there, chorded, mixed>>

Held450(t) == [t EXCEPT !.timer = None, !.tapping = None]
LongPress ==
  /\ touch.timer # None
  /\ touch' = Held450(touch)
  /\ scope' = OpenMenu(DropGrab(scope))
  /\ UNCHANGED <<mouse, fingers, buttons, cursor, over, asks, platform, there, chorded,
                 mixed>>

(* A finger that landed beside the canvas moves, or lifts. *)
Stray(s) ==
  /\ \E k \in Kinds : Held(scope, k)
  /\ scope' = s
  /\ mixed' = TRUE
  /\ UNCHANGED <<touch, mouse, fingers, buttons, cursor, over, asks, platform, there,
                 chorded>>
StrayMove(p) == ~touch.pinch /\ Stray(DragTo(scope, p))
StrayUp == Stray(Release(scope))

-----------------------------------------------------------------------------
(* The mouse.  A context menu that is asked for comes at once.             *)

AsksOn(b, edge) == b = "right" /\ platform = edge /\ over

MouseDown(b) ==
  /\ ~asks /\ buttons = {} /\ over
  /\ buttons' = {b}
  /\ mouse' = IF b = "right"
              THEN [mouse EXCEPT !.mine = TRUE, !.right = [at |-> cursor, started |-> FALSE]]
              ELSE [mouse EXCEPT !.mine = TRUE, !.pressing = TRUE]
  /\ scope' = IF b = "right" THEN Pressed(scope) ELSE Grab(Pressed(scope), cursor, TRUE)
  /\ asks' = AsksOn(b, "down")
  /\ mixed' = (mixed \/ fingers # {})
  /\ UNCHANGED <<touch, fingers, cursor, over, platform, there, chorded>>

MouseMove(p, on) ==
  LET ranges == mouse.right # None /\ ~mouse.right.started /\ mouse.right.at # p
      hovers == IF on THEN TRUE ELSE scope.pointer /\ ~over
  IN
  /\ ~asks
  /\ p # cursor \/ on # over
  /\ cursor' = p /\ over' = on
  /\ mouse' = IF ranges THEN [mouse EXCEPT !.right.started = TRUE] ELSE mouse
  /\ scope' = DragTo([scope EXCEPT
                        !.pointer = hovers, !.range = @ \/ ranges,
                        !.did = IF ranges THEN Did(scope, {"range"}) ELSE @], p)
  /\ mixed' = (mixed \/ fingers # {})
  /\ UNCHANGED <<touch, fingers, buttons, asks, platform, there, chorded>>

(* The left button comes up, or is cancelled.  A drag is no click. *)
LeftUp(s, cancelled) ==
  IF ~mouse.pressing THEN s
  ELSE IF Swallows(s) \/ cancelled THEN Release(s) ELSE Tap(Release(s), cursor)

RightUp(m) ==
  IF m.right = None THEN m
  ELSE [m EXCEPT !.quiet = @ \/ m.right.started, !.heldMenu = FALSE, !.right = None]

MouseUp(b, cancelled) ==
  /\ ~asks
  /\ buttons = {b}
  /\ cancelled => b = "left"
  /\ buttons' = {}
  /\ \/ /\ b = "left"
        /\ mouse' = [mouse EXCEPT !.pressing = FALSE]
        /\ scope' = LeftUp(scope, cancelled)
     \/ /\ b = "right"
        /\ mouse' = RightUp(mouse)
        /\ scope' = IF mouse.right = None THEN scope
                    ELSE IF mouse.heldMenu /\ ~mouse.right.started
                         THEN [OpenMenu(scope) EXCEPT !.range = FALSE]
                         ELSE [scope EXCEPT !.range = FALSE]
  /\ asks' = AsksOn(b, "up")
  /\ UNCHANGED <<touch, fingers, cursor, over, platform, there, chorded, mixed>>

(* A second button goes down, or comes up before the other: no more is     *)
(* heard of it than a move.                                                *)
Chord(b) ==
  /\ ~asks
  /\ IF b \in buttons THEN buttons = Buttons ELSE buttons # {}
  /\ buttons' = IF b \in buttons THEN buttons \ {b} ELSE buttons \cup {b}
  /\ asks' = AsksOn(b, IF b \in buttons THEN "up" ELSE "down")
  /\ chorded' = TRUE
  /\ UNCHANGED <<scope, touch, mouse, fingers, cursor, over, platform, there, mixed>>

(* contextMenu: not after a right drag, and only at the end of a press. *)
ContextMenu ==
  LET right == mouse.right IN
  /\ asks
  /\ asks' = FALSE
  /\ CASE ~mouse.mine \/ mouse.quiet -> UNCHANGED <<mouse, scope>>
       [] mouse.mine /\ ~mouse.quiet /\ right # None /\ ~right.started ->
            mouse' = [mouse EXCEPT !.heldMenu = TRUE] /\ UNCHANGED scope
       [] OTHER -> scope' = OpenMenu(scope) /\ UNCHANGED mouse
  /\ UNCHANGED <<touch, fingers, buttons, cursor, over, platform, there, chorded, mixed>>

QuietEnds ==
  /\ mouse.quiet /\ ~asks
  /\ mouse' = [mouse EXCEPT !.quiet = FALSE]
  /\ UNCHANGED <<scope, touch, fingers, buttons, cursor, over, asks, platform, there,
                 chorded, mixed>>

-----------------------------------------------------------------------------
(* The keyboard, and the menu. *)
OnlyScope(s) ==
  /\ scope' = s
  /\ UNCHANGED <<touch, mouse, fingers, buttons, cursor, over, asks, platform, there,
                 chorded, mixed>>
Cancel == OnlyScope([scope EXCEPT !.pending = "none", !.mode = "none", !.range = FALSE,
                                  !.menu = FALSE])
StartRbl == OnlyScope([scope EXCEPT !.pending = "a", !.mode = "A"])
StartRblHere ==
  /\ scope.menu
  /\ OnlyScope([scope EXCEPT !.pending = "b", !.mode = "B", !.menu = FALSE])

(* The target is lost. *)
Lost ==
  /\ there /\ there' = FALSE
  /\ UNCHANGED <<scope, touch, mouse, fingers, buttons, cursor, over, asks, platform,
                 chorded, mixed>>

FingersNext ==
  \/ \E f \in Fingers, p \in Places :
       \/ \E soon \in BOOLEAN : FingerDown(f, p, soon)
       \/ FingerMove(f, p)
       \/ \E cancelled \in BOOLEAN : FingerUp(f, p, cancelled)
  \/ \E p \in Places : StrayMove(p)
  \/ LongPress \/ StrayUp
MouseNext ==
  \/ \E p \in Places, on \in BOOLEAN : MouseMove(p, on)
  \/ \E b \in Buttons : MouseDown(b) \/ \E cancelled \in BOOLEAN : MouseUp(b, cancelled)
  \/ ContextMenu \/ QuietEnds
OthersNext == Cancel \/ StartRbl \/ StartRblHere \/ Lost

ChordNext == \E b \in Buttons : Chord(b)

Next == FingersNext \/ MouseNext \/ OthersNext \/ ChordNext

Spec == Init /\ [][Next]_vars

-----------------------------------------------------------------------------
Scopes ==
  [selected : BOOLEAN, pending : {"none", "a", "b"}, mode : {"none", "A", "B", "release"},
   label : BOOLEAN, zoomBase : BOOLEAN, range : BOOLEAN, menu : BOOLEAN, pointer : BOOLEAN,
   grab : [Kinds -> Grabs \cup {None}], did : SUBSET Outcomes]
Touches ==
  [pinch : BOOLEAN, zoom : Zooms \cup {None}, timer : Places \cup {None},
   tapping : Taps \cup {None}, lastTap : BOOLEAN, doubleTap : Fingers \cup {None}]
Mice ==
  [pressing : BOOLEAN, right : Rights \cup {None}, heldMenu : BOOLEAN, quiet : BOOLEAN,
   mine : BOOLEAN]
TypeOK ==
  /\ scope \in Scopes /\ touch \in Touches /\ mouse \in Mice
  /\ fingers \subseteq Fingers /\ IsFiniteSet(fingers) /\ buttons \subseteq Buttons
  /\ cursor \in Places /\ over \in BOOLEAN /\ asks \in BOOLEAN
  /\ platform \in {"down", "up"} /\ there \in BOOLEAN
  /\ chorded \in BOOLEAN /\ mixed \in BOOLEAN

(* Nothing outlives the pointer that did it: with no finger on the canvas  *)
(* and no button down nothing is dragged, drawn as if dragged, zoomed or   *)
(* measured, no long press is to come, and nobody is asked to release.     *)
(* What is asked for is always what is pending.                            *)
LetGo ==
  /\ (scope.mode = "none") = (scope.pending = "none")
  /\ (scope.mode = "A") = (scope.pending = "a")
  /\ fingers = {} /\ buttons = {} /\ ~chorded =>
       /\ scope.grab = Nothing /\ ~scope.label /\ ~scope.zoomBase /\ ~scope.range
       /\ touch.timer = None /\ touch.tapping = None /\ touch.zoom = None
       /\ touch.doubleTap = None /\ ~touch.pinch
       /\ ~mouse.pressing /\ mouse.right = None
       /\ ~mixed => scope.mode # "release"

(* Whatever is pressed comes to one thing: what taps or opens the menu has *)
(* moved nothing, what measured opens no menu, and one thing is moved at   *)
(* most.                                                                   *)
OneOutcome ==
  ~chorded /\ ~mixed =>
    /\ "tap" \in scope.did => scope.did = {"tap"}
    /\ "menu" \in scope.did => scope.did \subseteq {"menu", "zoom"}
    /\ Cardinality(scope.did \cap Kinds) <= 1
=============================================================================
