------------------------------- MODULE Lanes -------------------------------
(***************************************************************************)
(* The gestures on the lanes of the detail column.  A mouse selects a span *)
(* of a history lane when it goes sideways first, and drags the lane       *)
(* otherwise.  A finger lifts the lane it rests on, drags it once it moves *)
(* and opens its picker when it rests longer; sideways first it swipes the *)
(* row or peeks along the plot; a second finger pinches the window.  Esc,  *)
(* the pointer lost, and the lane removed some other way give it up.       *)
(***************************************************************************)
EXTENDS Naturals, Sequences, FiniteSets, SequencesExt

CONSTANTS
  AllLanes, Instruments, None,
  MaxRaces               \* bound on the holds that a move tells of before their timers do

Parts(l) == IF l \in Instruments THEN {"instrument"} ELSE {"row", "plot"}
(* Where a pointer is from its press: within the slop, or past it, further *)
(* across than down or not.                                                *)
Moves == {"near", "x", "y"}
Mouse == "mouse"
Pair == {"first", "second"}
Held ==
  [pointer : Pair \cup {Mouse}, lane : AllLanes, part : {"row", "plot", "instrument"},
   touch : BOOLEAN, from : Nat \ {0}, stage : {"pressed", "lifted", "picker"}, ms : 0 .. 2,
   last : Moves, lift : BOOLEAN, picker : BOOLEAN, loop : BOOLEAN]
Drags ==
  [lane : AllLanes, from : Nat \ {0}, slot : Nat \ {0}, overBin : BOOLEAN, still : BOOLEAN]

LanesAssumption ==
  /\ IsFiniteSet(AllLanes) /\ Instruments \subseteq AllLanes /\ MaxRaces \in Nat
  /\ None \notin AllLanes \cup {"add"} \cup Held \cup Drags \cup BOOLEAN

VARIABLES
  plotted,   \* the lanes of the column, in order
  hold,      \* the hold of a lane: whose, of which, and how far it has come
  drag,      \* the lane dragged
  swipe,     \* whether the row swiped would be removed, if one is
  holding, picking, peeking,
  span,      \* whether a span is being selected
  loops,     \* the frames asked for over and over to scroll at the edges
  picker,    \* the lane of the picker open, "add" to add one
  touches,   \* the fingers on the column
  pinch,     \* whether the two pinch the window
  raced,     \* history: whether a move told of a hold before its timer did
  shifted    \* history: whether the lanes changed while one was held

vars == <<plotted, hold, drag, swipe, holding, picking, peeking, span, loops, picker,
          touches, pinch, raced, shifted>>
gestureVars == <<hold, drag, swipe, holding, picking, peeking, span, loops>>

Init ==
  /\ plotted \in SetToSeqs(AllLanes)
  /\ hold = None /\ drag = None /\ swipe = None
  /\ holding = FALSE /\ picking = FALSE /\ peeking = FALSE /\ span = FALSE
  /\ loops = 0
  /\ picker = None
  /\ touches = {} /\ pinch = FALSE
  /\ raced = FALSE /\ shifted = FALSE

-----------------------------------------------------------------------------
(* The lanes of the column.                                                *)
IndexOf(lane) == CHOOSE i \in DOMAIN plotted : plotted[i] = lane
(* Each is there once. *)
RemoveLane(lane) ==
  IF lane \in Range(plotted) THEN RemoveAt(plotted, IndexOf(lane)) ELSE plotted
MoveLane(from, to) ==
  IF from \in DOMAIN plotted
  THEN InsertAt(RemoveAt(plotted, from),
                IF to > Len(plotted) THEN Len(plotted) ELSE to, plotted[from])
  ELSE plotted
SwitchLane(from, to) ==
  IF to \in Range(plotted) THEN plotted
  ELSE [i \in DOMAIN plotted |-> IF plotted[i] = from THEN to ELSE plotted[i]]
AddLane(lane) == IF lane \in Range(plotted) THEN plotted ELSE Append(plotted, lane)

-----------------------------------------------------------------------------
(* touchHoldOf, ms telling how long ago the press was: 0, the lift's time  *)
(* or 2, the picker's.                                                     *)
TouchHoldOf(stage, part, move, ms) ==
  CASE stage # "pressed" /\ move # "near" -> "drag"
    [] stage # "pressed" /\ move = "near" ->
         IF stage = "lifted" /\ ms >= 2 THEN "picker" ELSE "none"
    [] stage = "pressed" /\ move = "near" -> IF ms >= 1 THEN "lift" ELSE "none"
    [] stage = "pressed" /\ move = "x" /\ part = "row" -> "swipe"
    [] stage = "pressed" /\ move = "x" /\ part = "plot" -> "peek"
    [] OTHER -> "pass"

LaneGestureOf(part, touch, move, ms) ==
  IF touch
  THEN LET g == TouchHoldOf("pressed", part, move, ms) IN IF g = "lift" THEN "drag" ELSE g
  ELSE CASE move = "near" -> "none"
         [] move = "x" /\ part # "instrument" -> "select"
         [] OTHER -> "drag"

PinchesFrom ==
  /\ holding \/ peeking
  /\ drag = None /\ swipe = None /\ ~picking
  /\ hold # None /\ hold.part # "instrument"

(* What a finger does on the lanes, and what its moves are kept from: from *)
(* scrolling once it does something, and from the sheet from its press.    *)
Flags ==
  [drag |-> drag # None, swipe |-> swipe # None,
   holding |-> holding, picking |-> picking, peeking |-> peeking]
KeepsTouch(g) ==
  LET prevent == g.drag \/ g.swipe \/ g.picking \/ g.peeking
  IN [prevent |-> prevent, stop |-> prevent \/ g.holding]
Keep == KeepsTouch(Flags)

(* Mutated: a timer is left to run. *)
EndKeeping ==
  /\ hold' = None /\ drag' = None /\ swipe' = None
  /\ peeking' = FALSE /\ picking' = FALSE
  /\ span' = (span /\ hold = None)
  /\ loops' = IF hold # None /\ hold.loop THEN loops - 1 ELSE loops
  /\ UNCHANGED holding
(* end: the gesture is over, whatever it was. *)
End ==
  /\ hold' = None /\ drag' = None /\ swipe' = None
  /\ holding' = FALSE /\ peeking' = FALSE /\ picking' = FALSE
  /\ span' = (span /\ hold = None)
  /\ loops' = IF hold # None /\ hold.loop THEN loops - 1 ELSE loops

(* A change of the lanes by anything but the gesture on them: one that     *)
(* takes the lane held with it ends the gesture.                           *)
ChangeTo(lanes) ==
  /\ plotted' = lanes
  /\ IF hold # None /\ hold.lane \notin Range(lanes) THEN End ELSE UNCHANGED gestureVars
  /\ shifted' = ((shifted \/ lanes # plotted) /\ hold' # None)

-----------------------------------------------------------------------------
(* The pointers.                                                           *)

Grabbed(pointer, lane, part) ==
  [pointer |-> pointer, lane |-> lane, part |-> part, touch |-> pointer # Mouse,
   from |-> IndexOf(lane), stage |-> "pressed", ms |-> 0, last |-> "near",
   lift |-> pointer # Mouse, picker |-> pointer # Mouse, loop |-> FALSE]

(* A lane is the first pointer's, which lets go of whatever another holds. *)
Grab(pointer, lane, part) ==
  /\ hold' = Grabbed(pointer, lane, part)
  /\ drag' = None /\ swipe' = None /\ peeking' = FALSE /\ picking' = FALSE
  /\ span' = FALSE
  /\ holding' = (pointer # Mouse)
  /\ loops' = IF hold # None /\ hold.loop THEN loops - 1 ELSE loops
  /\ shifted' = FALSE

MouseDown(lane, part) ==
  /\ hold # None => hold.pointer # Mouse
  /\ Grab(Mouse, lane, part)
  /\ UNCHANGED <<plotted, picker, touches, pinch, raced>>

(* A second finger pinches while the first rests or peeks. *)
FingerDown(f, lane, part) ==
  /\ f \notin touches
  /\ touches' = touches \cup {f}
  /\ CASE touches = {} -> Grab(f, lane, part) /\ UNCHANGED pinch
       [] touches # {} /\ PinchesFrom ->
            End /\ pinch' = TRUE /\ UNCHANGED shifted
       [] OTHER -> UNCHANGED <<gestureVars, pinch, shifted>>
  /\ UNCHANGED <<plotted, picker, raced>>

(* pickUp: the lane is dragged from where it was, over whatever slot. *)
PickUp(held, still) ==
  /\ \E slot \in DOMAIN plotted :
       drag' = [lane |-> held.lane, from |-> held.from, slot |-> slot,
                overBin |-> FALSE, still |-> still]
  /\ hold' = [held EXCEPT !.loop = TRUE]
  /\ loops' = loops + 1
  /\ holding' = FALSE

(* The pointer moves: what that means depends on what it does already. *)
MoveFar ==
  /\ picker' = None
  /\ picking' = FALSE
  /\ PickUp([hold EXCEPT !.stage = "lifted"], FALSE)
  /\ UNCHANGED <<swipe, peeking, span, raced>>
MoveDragged ==
  /\ \E slot \in DOMAIN plotted, bin \in BOOLEAN :
       drag' = [drag EXCEPT !.slot = slot, !.overBin = bin, !.still = FALSE]
  /\ UNCHANGED <<hold, swipe, holding, picking, peeking, span, loops, picker, raced>>
Swipe ==
  /\ swipe' \in BOOLEAN
  /\ holding' = FALSE
  /\ UNCHANGED <<drag, picking, peeking, span, loops, picker, raced>>
MoveFirst(move) ==
  LET held == [hold EXCEPT !.last = move]
      g == LaneGestureOf(hold.part, hold.touch, move, hold.ms)
  IN
  \/ g = "none" /\ hold' = held
     /\ UNCHANGED <<drag, swipe, holding, picking, peeking, span, loops, picker, raced>>
  \/ g = "pass" /\ End /\ UNCHANGED <<picker, raced>>
  \/ g = "swipe" /\ hold' = held /\ Swipe
  \/ /\ g = "drag" /\ PickUp(held, FALSE)
     /\ hold.lift => loops < MaxRaces
     /\ raced' = (raced \/ hold.lift)
     /\ UNCHANGED <<swipe, picking, peeking, span, picker>>
  \/ /\ g = "peek"
     /\ hold' = [held EXCEPT !.lift = FALSE, !.picker = FALSE]
     /\ peeking' = TRUE /\ holding' = FALSE
     /\ UNCHANGED <<drag, swipe, picking, span, loops, picker, raced>>
  \/ /\ g = "select" /\ hold' = held /\ span' = TRUE
     /\ UNCHANGED <<drag, swipe, holding, picking, peeking, loops, picker, raced>>

Move(move) ==
  /\ hold # None
  /\ CASE hold.stage = "picker" -> move # "near" /\ MoveFar
       [] hold.stage # "picker" /\ ~span /\ ~peeking /\ drag # None ->
            (drag.still => move # "near") /\ MoveDragged
       [] hold.stage # "picker" /\ ~span /\ ~peeking /\ drag = None /\ swipe # None ->
            UNCHANGED hold /\ Swipe
       [] hold.stage # "picker" /\ ~span /\ ~peeking /\ drag = None /\ swipe = None ->
            MoveFirst(move)
       [] OTHER -> FALSE
  /\ UNCHANGED <<plotted, touches, pinch, shifted>>

(* Time goes on while a pointer holds a lane; the timers run out. *)
Tick ==
  /\ hold # None /\ hold.ms < 2
  /\ hold' = [hold EXCEPT !.ms = @ + 1]
  /\ UNCHANGED <<plotted, drag, swipe, holding, picking, peeking, span, loops, picker,
                 touches, pinch, raced, shifted>>

Lift ==
  /\ hold # None /\ hold.lift /\ hold.ms >= 1
  /\ LET ran == [hold EXCEPT !.lift = FALSE] IN
     IF TouchHoldOf("pressed", hold.part, hold.last, 1) = "lift"
     THEN /\ PickUp([ran EXCEPT !.stage = "lifted"], TRUE)
          /\ UNCHANGED <<swipe, picking, peeking, span>>
     ELSE hold' = ran /\ UNCHANGED <<drag, swipe, holding, picking, peeking, span, loops>>
  /\ UNCHANGED <<plotted, picker, touches, pinch, raced, shifted>>

OpenPicker ==
  /\ hold # None /\ hold.picker /\ hold.ms >= 2 /\ ~hold.lift
  /\ IF drag # None /\ drag.still
     THEN /\ hold' = [hold EXCEPT !.picker = FALSE, !.stage = "picker", !.loop = FALSE]
          /\ loops' = IF hold.loop THEN loops - 1 ELSE loops
          /\ picking' = TRUE /\ drag' = None
          /\ picker' = hold.lane
          /\ UNCHANGED <<swipe, holding, peeking, span>>
     ELSE /\ hold' = [hold EXCEPT !.picker = FALSE]
          /\ UNCHANGED <<drag, swipe, holding, picking, peeking, span, loops, picker>>
  /\ UNCHANGED <<plotted, touches, pinch, raced, shifted>>

(* The lanes once one is let go over the bin or a slot, and onDrop. *)
DropOf(d) == IF d.overBin THEN RemoveLane(d.lane) ELSE MoveLane(d.from, d.slot)
Dropped ==
  CASE hold.stage = "picker" -> plotted
    [] hold.stage # "picker" /\ drag # None -> DropOf(drag)
    [] hold.stage # "picker" /\ drag = None /\ swipe = TRUE -> RemoveLane(hold.lane)
    [] OTHER -> plotted

(* The pointer that holds the lane comes up: the gesture ends, and then    *)
(* what was dragged or swiped is dropped.  A removal closes the picker.    *)
LetGo(pointer) ==
  /\ hold # None /\ hold.pointer = pointer
  /\ plotted' = Dropped
  /\ End
  /\ picker' = IF Len(Dropped) < Len(plotted) THEN None ELSE picker
  /\ shifted' = FALSE

(* A finger lifts: a pinch needs both. *)
FingerUp(f) ==
  /\ f \in touches
  /\ touches' = touches \ {f}
  /\ pinch' = FALSE
  /\ IF hold # None /\ hold.pointer = f THEN LetGo(f)
     ELSE UNCHANGED <<gestureVars, plotted, picker, shifted>>
  /\ UNCHANGED raced

MouseUp == LetGo(Mouse) /\ UNCHANGED <<touches, pinch, raced>>

(* Esc, or the pointer is lost; a finger that is cancelled is gone. *)
GiveUp ==
  /\ hold # None
  /\ End
  /\ \/ UNCHANGED <<touches, pinch>>
     \/ touches' = touches \ {hold.pointer} /\ pinch' = FALSE
  /\ shifted' = FALSE
  /\ UNCHANGED <<plotted, picker, raced>>

-----------------------------------------------------------------------------
(* The picker, opened otherwise than by a hold, and what it does. *)
Ask(own) ==
  /\ picker' = own
  /\ UNCHANGED <<plotted, gestureVars, touches, pinch, raced, shifted>>
ClosePicker == picker # None /\ Ask(None)
Take(own, lane) ==
  CASE lane = own \/ lane \in Range(plotted) -> plotted
    [] lane # own /\ lane \notin Range(plotted) /\ own = "add" -> AddLane(lane)
    [] OTHER -> SwitchLane(own, lane)
Pick(lane) ==
  /\ picker # None
  /\ picker' = None
  /\ ChangeTo(Take(picker, lane))
  /\ UNCHANGED <<touches, pinch, raced>>
(* The LANE row: a place up or down, or removed. *)
Perform(own, lanes) ==
  /\ picker = own /\ own \in Range(plotted)
  /\ picker' = None
  /\ ChangeTo(lanes)
  /\ UNCHANGED <<touches, pinch, raced>>
Rearrange(own) ==
  \E i \in DOMAIN plotted :
    /\ plotted[i] = own
    /\ \/ i > 1 /\ Perform(own, MoveLane(i, i - 1))
       \/ i < Len(plotted) /\ Perform(own, MoveLane(i, i + 1))
       \/ Perform(own, RemoveLane(own))

Next ==
  \/ \E l \in Range(plotted) : \E part \in Parts(l) :
       MouseDown(l, part) \/ \E f \in Pair : FingerDown(f, l, part)
  \/ \E m \in Moves : Move(m)
  \/ Tick \/ OpenPicker \/ Lift
  \/ MouseUp \/ GiveUp \/ \E f \in Pair : FingerUp(f)
  \/ ClosePicker \/ \E l \in Range(plotted) \cup {"add"} : picker = None /\ Ask(l)
  \/ \E l \in AllLanes : Pick(l) \/ Rearrange(l)

Spec == Init /\ [][Next]_vars

-----------------------------------------------------------------------------
TypeOK ==
  /\ plotted \in Seq(AllLanes) /\ IsInjective(plotted)
  /\ hold \in Held \cup {None} /\ drag \in Drags \cup {None}
  /\ swipe \in BOOLEAN \cup {None}
  /\ {holding, picking, peeking, span, pinch, raced, shifted} \subseteq BOOLEAN
  /\ loops \in Nat
  /\ picker \in AllLanes \cup {None, "add"}
  /\ touches \subseteq Pair

(* Nothing outlives the pointer that holds a lane, and it does one thing   *)
(* at a time: it rests, drags, swipes, peeks, selects or has the picker    *)
(* open, and no two fingers pinch meanwhile.  What is dragged is the lane  *)
(* held, which is where it was taken from.  It scrolls in one place, and   *)
(* the finger that holds it moves neither the sheet nor, once it does more *)
(* than rest, the page (hold.ts:82).                                       *)
LaneHeld ==
  /\ hold = None =>
       /\ drag = None /\ swipe = None
       /\ ~holding /\ ~picking /\ ~peeking /\ ~span
       /\ ~raced => loops = 0
       /\ ~Keep.stop
  /\ hold # None =>
       /\ Cardinality({thing \in {"rest", "drag", "swipe", "peek", "pick", "select"} :
            CASE thing = "rest" -> holding [] thing = "drag" -> drag # None
              [] thing = "swipe" -> swipe # None [] thing = "peek" -> peeking
              [] thing = "pick" -> picking [] OTHER -> span}) <= 1
       /\ hold.lane \in Range(plotted)
       /\ picking = (hold.stage = "picker")
       /\ hold.touch =>
            /\ hold.pointer \in touches /\ ~pinch
            /\ Keep = [prevent |-> ~holding, stop |-> TRUE]
       /\ ~raced => loops = IF drag # None THEN 1 ELSE 0
  /\ drag # None /\ ~shifted =>
       drag.lane = hold.lane /\ drag.lane = plotted[drag.from]
=============================================================================
