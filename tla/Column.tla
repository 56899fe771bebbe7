------------------------------- MODULE Column -------------------------------
(***************************************************************************)
(* The lanes' column: where its lanes and its axis stand while one of them *)
(* is dragged, how far the column is scrolled and what is kept of that,    *)
(* and the picker over it with the focus it takes and gives back.  What a  *)
(* pointer means to a lane is Lanes'; here it drags one or it does not.    *)
(*                                                                         *)
(* Lengths are whole and few to a lane.  A scroll is told by an event in a *)
(* later frame, and a change of size by an observer.                       *)
(***************************************************************************)
EXTENDS Integers, Sequences, FiniteSets, SequencesExt

CONSTANTS
  Nothing,
  Readings, Dials,        \* the lanes there may be: of a reading, of an instrument
  HeightOf,               \* how tall each is, and the axis and the button under them
  ScrollerAt,             \* the box of the scroller in the page when it is shown
  Page,                   \* how large the page is
  PickerSize, ChipSize,   \* how large the picker is, and wide the chip of a lane
  EDGE_PX, EDGE_SPEED_PX, MIN_THUMB_PX,
  Points,                 \* bound: where a pointer may be, each [x, y]
  Tops                    \* bound: where the operator scrolls to

LaneKeys == Readings \cup Dials

(* What the constants are taken to be, assumed where they are given values. *)
ColumnAssumption ==
  /\ LaneKeys \cup {"axis", "add"} \subseteq DOMAIN HeightOf
  /\ {EDGE_PX, EDGE_SPEED_PX, MIN_THUMB_PX, PickerSize.width, PickerSize.height, ChipSize}
       \subseteq Nat \ {0}

VARIABLES
  lanes,     \* the lanes plotted, in order
  kept,      \* how far down the lanes of the target shown are kept scrolled
  scroller,  \* its scroll, and its size, none while hidden: [top, size]
  pending,   \* whether a scroll is still to be told
  view,      \* the thumb, and which edges cut a lane
  dragged,   \* the lane dragged, over which slot and whether over the bin
  picker,    \* the picker: whose, and where it was asked for
  focus,     \* what has the focus
  left       \* history: where the scroll was left, and whether it was hidden untold

vars == <<lanes, kept, scroller, pending, view, dragged, picker, focus, left>>

-----------------------------------------------------------------------------
MinOf(x, y) == IF x <= y THEN x ELSE y
MaxOf(x, y) == IF x >= y THEN x ELSE y
Clamp(v, low, high) == MaxOf(low, MinOf(v, high))
Tall(items) == FoldLeft(LAMBDA sum, item : sum + HeightOf[item], 0, items)

(* The place of the last history lane, 0 with none. *)
LastHistoryIndex(order) ==
  CHOOSE k \in 0 .. Len(order) :
    /\ k = 0 \/ order[k] \in Readings
    /\ \A later \in k + 1 .. Len(order) : order[later] \notin Readings
(* What stands in the column: the axis under the last history lane, and    *)
(* the button under them all.                                              *)
ItemsOf(order, under) ==
  SubSeq(order, 1, under) \o (IF under = 0 THEN <<>> ELSE <<"axis">>)
    \o SubSeq(order, under + 1, Len(order)) \o <<"add">>
Items(order) == ItemsOf(order, LastHistoryIndex(order))
Place(sequence, item) == CHOOSE k \in DOMAIN sequence : sequence[k] = item
Above(items, item) == Tall(SubSeq(items, 1, Place(items, item) - 1))

(* Boxes in the page, and what is in them. *)
Shown == [ScrollerAt EXCEPT !.bottom = ScrollerAt.top + scroller.size]
BoxAt(item, scrolled) ==
  LET top == ScrollerAt.top - scrolled + Above(Items(lanes), item)
  IN [ScrollerAt EXCEPT !.top = top, !.bottom = top + HeightOf[item]]
BoxOf(item) == BoxAt(item, scroller.top)
ClipBox(a, b) ==
  LET l == MaxOf(a.left, b.left)
      t == MaxOf(a.top, b.top)
  IN [left |-> l, top |-> t,
      right |-> MaxOf(l, MinOf(a.right, b.right)), bottom |-> MaxOf(t, MinOf(a.bottom, b.bottom))]
Inside(p, b) == p.x \in b.left .. b.right /\ p.y \in b.top .. b.bottom
OverBin(p, bin, seen) == Inside(p, bin) /\ Inside(p, seen)

(* The slot of items one under another that a pointer y down them is over. *)
SlotAt(y, items) ==
  CHOOSE k \in DOMAIN items :
    /\ k = Len(items) \/ y < Tall(SubSeq(items, 1, k))
    /\ k = 1 \/ y >= Tall(SubSeq(items, 1, k - 1))
(* Mutated: the lane at the slot itself stays. *)
PlaceOfPast(i, from, slot) ==
  CASE i = from -> slot
    [] from < slot /\ i > from /\ i < slot -> i - 1
    [] slot < from /\ i >= slot /\ i < from -> i + 1
    [] OTHER -> i
(* Where item i stands while the one at from is held over slot. *)
PlaceOf(i, from, slot) ==
  CASE i = from -> slot
    [] from < slot /\ i > from /\ i <= slot -> i - 1
    [] slot < from /\ i >= slot /\ i < from -> i + 1
    [] OTHER -> i

EdgePull(depth) == (Clamp(EDGE_PX - depth, 0, EDGE_PX) * EDGE_SPEED_PX) \div EDGE_PX
EdgeSpeed(y, top, bottom) == EdgePull(bottom - y) - EdgePull(y - top)

SlotShown(d) == IF d.overBin THEN d.from ELSE d.slot
(* How far the axis moves to stay where it was. *)
AxisShift(order, from, slot, under) ==
  Tall(SubSeq(order, 1, under))
    - Tall(SelectSeq(order, LAMBDA l : PlaceOf(Place(order, l), from, slot) <= under))
(* The left of the chip lifted with a dragged lane, kept whole inside. *)
LiftLeft(x, grabX, width, chipWidth) == Clamp(x - grabX, 0, MaxOf(0, width - chipWidth))

(* What is shown of the drag: where each lane and the axis stand, whether  *)
(* the lane is off its place, and then its chip.                           *)
Placed(k) ==
  IF dragged = Nothing THEN k ELSE PlaceOf(k, dragged.from, SlotShown(dragged))
AxisOffset ==
  IF dragged = Nothing THEN 0
  ELSE AxisShift(lanes, dragged.from, SlotShown(dragged), LastHistoryIndex(lanes))
Moving == dragged # Nothing /\ ~dragged.still
ChipLeft ==
  LiftLeft(dragged.at.x - ScrollerAt.left, MinOf(dragged.grabX, ChipSize),
           ScrollerAt.right - ScrollerAt.left, ChipSize)

(* The view of what is height tall, client of it in view, scrolled top. *)
ScrollView(top, client, height) ==
  LET room == height - client
      thumb == MaxOf(MIN_THUMB_PX, (client * client) \div height)
  IN IF room <= 0 \/ client = 0
     THEN [thumb |-> Nothing, cutTop |-> FALSE, cutBottom |-> FALSE]
     ELSE [thumb |-> [top |-> ((client - thumb) * top) \div room, height |-> thumb],
           cutTop |-> top > 0, cutBottom |-> top < room]
Height(order) == Tall(Items(order))
Room(order, size) == IF size = 0 THEN 0 ELSE MaxOf(0, Height(order) - size)
Measured(order, s) == ScrollView(s.top, s.size, Height(order))

-----------------------------------------------------------------------------
(* The picker. *)
LaneAfter(order, lane) ==
  LET at == Place(order, lane) IN IF at = Len(order) THEN "add" ELSE order[at + 1]
RemoveLane(order, lane) == SelectSeq(order, LAMBDA k : k # lane)
MoveLane(order, from, to) == InsertAt(RemoveAt(order, from), to, order[from])
ChipOf(own, lane) ==
  IF lane = own THEN "own" ELSE IF lane \in Range(lanes) THEN "open" ELSE "free"
PickOf(own, lane) ==
  IF ChipOf(own, lane) # "free" THEN "reveal" ELSE IF own = Nothing THEN "add" ELSE "switch"

(* The part of what it is for that stands lit. *)
Lit(item) == ClipBox(BoxOf(item), Shown)

(* Where it stands: at its anchor, or on the point's other side where it   *)
(* would pass an edge, whole in the page.                                  *)
PickerBox(anchor, size, page) ==
  LET first == IF anchor.up THEN anchor.y - size.height ELSE anchor.y
      other == IF anchor.up THEN anchor.y ELSE anchor.y - size.height
      top == IF first >= 0 /\ first + size.height <= page.height THEN first ELSE other
      across == IF anchor.x + size.width > page.width THEN anchor.x - size.width ELSE anchor.x
  IN [left |-> Clamp(across, 0, MaxOf(0, page.width - size.width)),
      top |-> Clamp(top, 0, MaxOf(0, page.height - size.height))]

Anchor(x, y, up) == [x |-> x, y |-> y, up |-> up]
LanePickerAnchor(source, p, box) ==
  IF source = "keyboard" THEN Anchor(box.left, box.top, FALSE) ELSE Anchor(p.x, p.y, FALSE)
AddPickerAnchor(source, p, button) ==
  IF source = "keyboard" THEN Anchor(button.left, button.top, TRUE) ELSE Anchor(p.x, p.y, TRUE)

(* Its buttons that take the focus: a chip of each lane, and a lane's own  *)
(* row, up and down unless at the end and removal.                         *)
First(own) == own = lanes[1]
LastOne(own) == own = lanes[Len(lanes)]
Chips == SetToSeq(LaneKeys)
Stops(own) ==
  Chips \o IF own = Nothing THEN <<>>
           ELSE (IF First(own) THEN <<>> ELSE <<"up">>)
                  \o (IF LastOne(own) THEN <<>> ELSE <<"down">>) \o <<"remove">>
WrapIndex(i, count, back) == ((i - 1 + (IF back THEN count - 1 ELSE 1)) % count) + 1
TabRound(stops, at, back) == stops[WrapIndex(Place(stops, at), Len(stops), back)]
On(what) == [in |-> "column", at |-> what]
InPicker == [in |-> "picker", at |-> "picker"]
OffPage == [in |-> "page", at |-> "page"]
AnchorOf(own) == On(IF own = Nothing THEN "add" ELSE own)
Opened(own, anchor) ==
  /\ picker' = [own |-> own, at |-> anchor]
  /\ focus' = InPicker
Closed == picker' = Nothing
(* Closed by itself, which gives the focus back. *)
Close == Closed /\ focus' = AnchorOf(picker.own)

-----------------------------------------------------------------------------
Init ==
  /\ lanes = SetToSeq(LaneKeys)
  /\ kept = 0
  /\ scroller = [top |-> 0, size |-> ScrollerAt.bottom - ScrollerAt.top]
  /\ pending = FALSE
  /\ view = Measured(lanes, scroller)
  /\ dragged = Nothing /\ picker = Nothing /\ focus = OffPage
  /\ left = [top |-> 0, untold |-> FALSE]

(* What is begun anew comes a frame after what was done before. *)
Idle == scroller.size > 0 /\ dragged = Nothing /\ picker = Nothing
Free == Idle /\ ~pending
ScrolledTo(top) ==
  /\ scroller' = [scroller EXCEPT !.top = top]
  /\ pending' = (pending \/ top # scroller.top)
  /\ left' = [top |-> top, untold |-> FALSE]

(* The drag with the slot and the bin read again at the pointer. *)
ReadAt(d, p, top) ==
  [d EXCEPT !.at = p, !.slot = SlotAt(p.y - ScrollerAt.top + top, lanes),
            !.overBin = OverBin(p, BoxAt("add", top), Shown)]

(* A lane is picked up where it is, by a mouse or by a finger that rests. *)
PickUp(lane, p, still) ==
  LET from == Place(lanes, lane) IN
  /\ Free /\ Inside(p, ClipBox(BoxOf(lane), Shown))
  /\ dragged' = ReadAt([lane |-> lane, from |-> from, slot |-> from, overBin |-> FALSE,
                        still |-> still, grabX |-> p.x - ScrollerAt.left, at |-> p],
                       p, scroller.top)
  /\ focus' = IF still THEN focus ELSE On(lane)
  /\ UNCHANGED <<lanes, kept, scroller, pending, view, picker, left>>

DragTo(p) ==
  /\ dragged # Nothing
  /\ dragged' = [ReadAt(dragged, p, scroller.top) EXCEPT !.still = FALSE]
  /\ UNCHANGED <<lanes, kept, scroller, pending, view, picker, focus, left>>

(* A frame, after its scrolls are told: near an edge the column scrolls    *)
(* under the pointer.                                                      *)
Frame ==
  /\ dragged # Nothing /\ ~pending
  /\ LET speed == EdgeSpeed(dragged.at.y, ScrollerAt.top, ScrollerAt.top + scroller.size)
         top == Clamp(scroller.top + speed, 0, Room(lanes, scroller.size))
     IN /\ speed # 0 /\ ScrolledTo(top)
        /\ dragged' = ReadAt(dragged, dragged.at, top)
  /\ UNCHANGED <<lanes, kept, view, picker, focus>>
GiveUp ==
  /\ dragged # Nothing /\ dragged' = Nothing
  /\ UNCHANGED <<lanes, kept, scroller, pending, view, picker, focus, left>>

(* The lanes change: what they no longer fill is not scrolled to, and the  *)
(* view is measured; and then an item is brought into view and gets the    *)
(* focus.                                                                  *)
Nearest(order, item, top, size) ==
  LET above == Above(Items(order), item)
      below == above + HeightOf[item]
  IN IF above < top THEN above ELSE IF below > top + size THEN below - size ELSE top
Becomes(order, item) ==
  /\ lanes' = order
  /\ LET cut == MinOf(scroller.top, Room(order, scroller.size))
         top == Nearest(order, item, cut, scroller.size)
     IN /\ view' = Measured(order, [scroller EXCEPT !.top = cut])
        /\ scroller' = [scroller EXCEPT !.top = top]
        /\ pending' = (pending \/ cut # scroller.top \/ top # cut)
        /\ left' = [top |-> top, untold |-> FALSE]
  /\ focus' = On(item)
  /\ Closed /\ dragged' = Nothing
  /\ UNCHANGED kept
(* Mutated: the next lane is looked for once the lane is gone. *)
RemovedFirst(lane) == Becomes(RemoveLane(lanes, lane), "add")
Removed(lane) == Becomes(RemoveLane(lanes, lane), LaneAfter(lanes, lane))
Moved(from, to) == Becomes(MoveLane(lanes, from, to), lanes[from])

LetGo ==
  /\ dragged # Nothing
  /\ IF dragged.overBin THEN Removed(dragged.lane) ELSE Moved(dragged.from, dragged.slot)

(* What a key or the picker's row asks of a lane. *)
Perform(ask, lane) ==
  LET at == Place(lanes, lane) IN
  \/ ask = "up" /\ ~First(lane) /\ Moved(at, at - 1)
  \/ ask = "down" /\ ~LastOne(lane) /\ Moved(at, at + 1)
  \/ ask = "remove" /\ Removed(lane)
Key(ask) ==
  /\ Free /\ focus.in = "column" /\ focus.at # "add"
  /\ Perform(ask, focus.at)
InRow(ask) == picker # Nothing /\ picker.own # Nothing /\ Perform(ask, picker.own)
Pick(lane) ==
  /\ picker # Nothing
  /\ CASE PickOf(picker.own, lane) = "reveal" -> Becomes(lanes, lane)
       [] PickOf(picker.own, lane) = "add" -> Becomes(Append(lanes, lane), lane)
       [] OTHER -> Becomes([lanes EXCEPT ![Place(lanes, picker.own)] = lane], lane)

(* The picker is asked for: by a key or a mouse of a lane, by a finger     *)
(* that holds one longer, and of the button under them.                    *)
OpenLanePicker(lane, source, p) ==
  /\ Free
  /\ IF source = "keyboard" THEN focus = On(lane) ELSE Inside(p, ClipBox(BoxOf(lane), Shown))
  /\ Opened(lane, LanePickerAnchor(source, p, BoxOf(lane)))
  /\ UNCHANGED <<lanes, kept, scroller, pending, view, dragged, left>>
HoldPicker ==
  /\ dragged # Nothing /\ dragged.still
  /\ dragged' = Nothing
  /\ Opened(dragged.lane, Anchor(dragged.at.x, dragged.at.y, FALSE))
  /\ UNCHANGED <<lanes, kept, scroller, pending, view, left>>
OpenAdd(source, p) ==
  /\ Free
  /\ IF source = "keyboard" THEN focus = On("add") ELSE Inside(p, ClipBox(BoxOf("add"), Shown))
  /\ Opened(Nothing, AddPickerAnchor(source, p, BoxOf("add")))
  /\ UNCHANGED <<lanes, kept, scroller, pending, view, dragged, left>>

(* Esc, or a press or a turn of the wheel on the backdrop. *)
CloseIt ==
  /\ picker # Nothing /\ Close
  /\ UNCHANGED <<lanes, kept, scroller, pending, view, dragged, left>>

(* The focus goes about with Tab and clicks. *)
Focus(what) ==
  /\ Free /\ focus' = what
  /\ UNCHANGED <<lanes, kept, scroller, pending, view, dragged, picker, left>>

-----------------------------------------------------------------------------
(* The operator scrolls, with the wheel while a lane is dragged too; each  *)
(* time once the one before is told.                                       *)
Scroll(to) ==
  /\ ~pending /\ scroller.size > 0 /\ picker = Nothing /\ (dragged # Nothing => ~dragged.still)
  /\ LET top == MinOf(to, Room(lanes, scroller.size)) IN top # scroller.top /\ ScrolledTo(top)
  /\ UNCHANGED <<lanes, kept, view, dragged, picker, focus>>

(* The scroll is told: it is kept, measured and the drag read again; and   *)
(* whatever scrolls closes the picker.                                     *)
ScrollEvent ==
  /\ pending /\ pending' = FALSE
  /\ IF picker # Nothing THEN Close ELSE UNCHANGED <<picker, focus>>
  /\ kept' = scroller.top
  /\ view' = Measured(lanes, scroller)
  /\ dragged' = IF dragged = Nothing THEN Nothing ELSE ReadAt(dragged, dragged.at, scroller.top)
  /\ left' = [left EXCEPT !.untold = @ \/ scroller.size = 0]
  /\ UNCHANGED <<lanes, scroller>>

(* The panel is hidden, which drops the scroll; the observer tells of it,  *)
(* and when it is shown again, after the scrolls of that frame, it is      *)
(* scrolled back.                                                          *)
Hide ==
  /\ Idle
  /\ scroller' = [top |-> 0, size |-> 0]
  /\ view' = Measured(lanes, [top |-> 0, size |-> 0])
  /\ focus' = OffPage
  /\ UNCHANGED <<lanes, kept, pending, dragged, picker, left>>
(* Mutated: it is only measured. *)
ResizedMeasured(size) ==
  /\ scroller' = [scroller EXCEPT !.size = size]
  /\ view' = Measured(lanes, [scroller EXCEPT !.size = size])
  /\ UNCHANGED pending
Resized(size) ==
  LET top == MinOf(kept, Room(lanes, size)) IN
  /\ scroller' = [top |-> top, size |-> size]
  /\ pending' = (top # 0)
  /\ view' = Measured(lanes, [top |-> top, size |-> size])
Show ==
  /\ scroller.size = 0 /\ ~pending
  /\ Resized(ScrollerAt.bottom - ScrollerAt.top)
  /\ UNCHANGED <<lanes, kept, dragged, picker, focus, left>>

(* Another target is selected: the view kept is dropped, and its own       *)
(* begins at the top.                                                      *)
Select ==
  /\ kept' = 0
  /\ scroller' = [scroller EXCEPT !.top = 0]
  /\ pending' = (pending \/ scroller.top # 0)
  /\ view' = Measured(lanes, [scroller EXCEPT !.top = 0])
  /\ left' = [top |-> 0, untold |-> FALSE]
  /\ Closed /\ focus' = IF picker = Nothing THEN focus ELSE OffPage
  /\ dragged = Nothing /\ UNCHANGED <<lanes, dragged>>

Asks == {"up", "down", "remove"}
Sources == {"keyboard", "mouse"}
Next ==
  \/ \E l \in Range(lanes), p \in Points :
       \/ \E still \in BOOLEAN : PickUp(l, p, still)
       \/ \E s \in Sources : OpenLanePicker(l, s, p)
  \/ \E p \in Points : DragTo(p) \/ \E s \in Sources : OpenAdd(s, p)
  \/ Frame \/ GiveUp \/ LetGo \/ HoldPicker \/ CloseIt
  \/ \E a \in Asks : Key(a) \/ InRow(a)
  \/ \E l \in LaneKeys : Pick(l)
  \/ \E l \in Range(lanes) \cup {"add"} : Focus(On(l))
  \/ \E t \in Tops : Scroll(t)
  \/ ScrollEvent \/ Hide \/ Show \/ Select

Spec == Init /\ [][Next]_vars

-----------------------------------------------------------------------------
(* What is shown while a lane is dragged: the lanes in an order, the one   *)
(* that letting go leaves, and over the bin the one they are in; the axis  *)
(* where it was (drag.ts:22); the slot under the pointer, once scrolls are *)
(* told (laneDrag.ts:119); and the chip whole, under the pointer.          *)
DragShown ==
  dragged # Nothing =>
    LET placed == [k \in DOMAIN lanes |-> Placed(k)]
        shown == [at \in DOMAIN lanes |-> lanes[CHOOSE k \in DOMAIN lanes : placed[k] = at]]
        under == LastHistoryIndex(lanes)
    IN /\ Range(placed) = DOMAIN lanes
       /\ shown = IF dragged.overBin THEN lanes
                  ELSE MoveLane(lanes, dragged.from, dragged.slot)
       /\ under > 0 =>
            Above(ItemsOf(shown, under), "axis") + AxisOffset = Above(Items(lanes), "axis")
       /\ ~pending => dragged = ReadAt(dragged, dragged.at, scroller.top)
       /\ Moving /\ Inside(dragged.at, ScrollerAt) =>
            dragged.at.x - ScrollerAt.left \in ChipLeft .. ChipLeft + ChipSize

(* The scroll is what was left, and what is kept is what is shown: hidden, *)
(* shown again, and of the target selected (Lanes.tsx:224); and the thumb  *)
(* is along the view, at its ends when the scroll is.                      *)
ScrollKept ==
  scroller.size > 0 =>
    /\ ~left.untold => scroller.top = left.top
    /\ ~pending => kept = scroller.top /\ view = Measured(lanes, scroller)
    /\ view.thumb # Nothing =>
         /\ view.thumb.top >= 0 /\ view.thumb.top + view.thumb.height <= scroller.size
         /\ ~view.cutTop => view.thumb.top = 0
         /\ ~view.cutBottom => view.thumb.top + view.thumb.height = scroller.size

(* The picker has the focus while it is open, and what has it is there;    *)
(* it stands whole in the page with the point it was asked for at a corner *)
(* where there is room, and lights no more than is shown of its lane.      *)
PickerStands ==
  /\ (focus.in = "picker") = (picker # Nothing)
  /\ focus.in = "column" => focus.at \in Range(lanes) \cup {"add"}
  /\ picker # Nothing =>
       LET box == PickerBox(picker.at, PickerSize, Page)
           lit == Lit(AnchorOf(picker.own).at)
       IN /\ picker.own \in Range(lanes) \cup {Nothing}
          /\ \A stop \in Range(Stops(picker.own)), back \in BOOLEAN :
               TabRound(Stops(picker.own), TabRound(Stops(picker.own), stop, back), ~back)
                 = stop
          /\ box.left \in 0 .. Page.width - PickerSize.width
          /\ box.top \in 0 .. Page.height - PickerSize.height
          /\ \/ picker.at.y \in {box.top, box.top + PickerSize.height}
             \/ picker.at.y - PickerSize.height < 0
                  /\ picker.at.y + PickerSize.height > Page.height
             \/ picker.at.y \notin 0 .. Page.height
          /\ lit.bottom - lit.top <= scroller.size

ColumnTrue == DragShown /\ ScrollKept /\ PickerStands

(* A change of the lanes leaves the focus on a lane whole in view: the one *)
(* that moved or came, or that took the place of the one removed; or on    *)
(* the button when it was the last (pickerState.ts:93).                   *)
FocusFollows ==
  lanes' # lanes =>
    /\ focus'.in = "column"
    /\ LET above == Above(Items(lanes'), focus'.at)
       IN scroller'.top <= above
            /\ above + HeightOf[focus'.at] <= scroller'.top + scroller'.size
    /\ \A k \in DOMAIN lanes :
         lanes' = RemoveAt(lanes, k) =>
           focus'.at = IF k > Len(lanes') THEN "add" ELSE lanes'[k]
=============================================================================
