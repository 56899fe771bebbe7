-------------------------------- MODULE Board --------------------------------
(***************************************************************************)
(* What the operator does to the aircraft shown: hovering and selecting    *)
(* them on the scope, the list and the navigation display, menus, and      *)
(* range and bearing lines.  A line has two ends, each a target or a free  *)
(* place.  All of it lies along one axis, in pixels: the place of a target *)
(* is of the world, and a pointer's of the canvas, moved by the pan.       *)
(***************************************************************************)
EXTENDS Integers, FiniteSets, Sequences, SequencesExt, FiniteSetsExt

CONSTANTS
  None,
  Snapshots,             \* what the track store may list, in its order
  Points, Pans,          \* where a pointer and the scope may be
  Pointers,              \* how exactly each kind lands: reach, snap, hovers
  BLOCK,                 \* where a block lies from its target, from and to
  TARGET_PX, RBL_SNAP_PX, RBL_PX, DRAG_THRESHOLD_PX,
  TAGS, Untagged,        \* the tags of lines, and that of one past the last
  MaxLines               \* bounds the lines ever drawn

BoardAssumption ==
  /\ \A t \in Snapshots : \A i, j \in DOMAIN t : t[i].hex = t[j].hex => i = j
  /\ MaxLines \in Nat /\ IsInjective(TAGS) /\ Untagged \notin Range(TAGS)

VARIABLES
  tracks,    \* the store: address, place or None, callsign, whether the filter reduces it
  pan, selected, sort,
  hover,     \* None, or an aircraft and the surface that hovers it
  place,     \* None, or where the mouse rests on the list or the display
  pointer,   \* where a pointer is on the canvas, or None
  menu,      \* None, or what the menu was opened on
  pending,   \* rblPending: None, or [a |-> None or an anchor]
  modeText,  \* None, or the anchor asked for
  rbls,      \* the lines, each an object of its own
  made,      \* the lines drawn so far
  drag,      \* rblDrag
  cursor     \* rangeCursor

vars == <<tracks, pan, selected, sort, hover, place, pointer, menu, pending, modeText,
          rbls, made, drag, cursor>>

Distance(a, b) == IF a < b THEN b - a ELSE a - b
ToScreen(x) == x - pan
ToWorld(p) == p + pan

Listed(ts) == {t.hex : t \in Range(ts)}
TrackOf(hex) == CHOOSE t \in Range(tracks) : t.hex = hex
(* isFiltered: never the selected one. *)
IsFiltered(t) == t.filtered /\ t.hex # selected

-----------------------------------------------------------------------------
(* What is under a point of the canvas. *)

(* targetAt: the nearest, the first of those as near. *)
TargetAt(p, reach) ==
  LET away(i) == Distance(ToScreen(tracks[i].at), p)
      near == {i \in DOMAIN tracks : tracks[i].at # None /\ away(i) < reach}
      nearest == {i \in near : \A j \in near : away(i) <= away(j)}
  IN IF near = {} THEN None ELSE tracks[Min(nearest)].hex

(* blockAt: the first block drawn there, and the scope's own order. *)
BlockAt(p) ==
  LET under == {i \in DOMAIN tracks :
                  /\ tracks[i].at # None /\ ~IsFiltered(tracks[i])
                  /\ p - ToScreen(tracks[i].at) \in BLOCK[1] .. BLOCK[2]}
  IN IF under = {} THEN None ELSE tracks[Min(under)].hex

OnTarget(hex) == [kind |-> "target", hex |-> hex]
Free(x) == [kind |-> "free", at |-> x]
AnchorFor(hex, x) == IF hex # None THEN OnTarget(hex) ELSE Free(x)
AnchorAt(p, reach) == AnchorFor(TargetAt(p, reach), ToWorld(p))

(* anchorPoint: a target's end is nowhere while it is gone or has no place. *)
AnchorPoint(a) ==
  IF a.kind = "free" THEN a.at
  ELSE IF a.hex \in Listed(tracks) THEN TrackOf(a.hex).at ELSE None

(* What buildOverlays draws: the lines with both their ends, the pending   *)
(* one to the pointer, snapped as for a cursor, and the range cursor.      *)
Ends(r) == <<AnchorPoint(r.a), AnchorPoint(r.b)>>
DrawnLines == SelectSeq(rbls, LAMBDA r : None \notin Range(Ends(r)))
PendingEnd ==
  IF pending = None \/ pointer = None THEN None
  ELSE IF pending.a = None THEN None
  ELSE IF AnchorPoint(pending.a) = None THEN None ELSE AnchorAt(pointer, RBL_SNAP_PX)
RangeDrawn ==
  IF cursor = None \/ pointer = None THEN None ELSE AnchorPoint(cursor)

(* rblNear: the first line drawn within reach. *)
RblAt(p) ==
  LET near == {i \in DOMAIN rbls :
                 LET both == Range(Ends(rbls[i]))
                 IN /\ None \notin both
                    /\ \E x \in Min(both) .. Max(both) :
                         Distance(ToScreen(x), p) <= RBL_PX}
  IN IF near = {} THEN None ELSE rbls[Min(near)]

-----------------------------------------------------------------------------
(* Lines. *)
(* Mutated: the tags of lines that are not drawn now are free. *)
NextDrawnTag(existing) ==
  LET free == {i \in DOMAIN TAGS : \A r \in Range(existing) :
                 r.tag # TAGS[i] \/ None \in Range(Ends(r))}
  IN IF free = {} THEN Untagged ELSE TAGS[Min(free)]
NextRblTag(existing) ==
  LET free == {i \in DOMAIN TAGS : \A r \in Range(existing) : r.tag # TAGS[i]}
  IN IF free = {} THEN Untagged ELSE TAGS[Min(free)]

AppendRbl(existing, a, b) ==
  IF a = b /\ a.kind = "target" THEN existing
  ELSE Append(existing, [a |-> a, b |-> b, tag |-> NextRblTag(existing), id |-> made])
Drawn(a, b) == rbls' = AppendRbl(rbls, a, b) /\ made' = made + (Len(rbls') - Len(rbls))
(* Mutated: by its tag. *)
DeleteTagged(existing, r) == SelectSeq(existing, LAMBDA x : x.tag # r.tag)
DeleteRbl(existing, r) == SelectSeq(existing, LAMBDA x : x.id # r.id)

Asks(a, text) == pending' = [a |-> a] /\ modeText' = text
AsksNothing == pending' = None /\ modeText' = None

-----------------------------------------------------------------------------
(* The surfaces that hover. *)

(* setHovered: nothing hovered clears only the surface's own hover. *)
SetHovered(h, by, hex) ==
  IF hex # None THEN [by |-> by, hex |-> hex]
  ELSE IF h # None /\ h.by = by THEN None ELSE h
(* Mutated: what is hovered stays when its aircraft has left. *)
ForgetNothing(h, ts) == h
ForgetHovered(h, ts) == IF h # None /\ h.hex \notin Listed(ts) THEN None ELSE h

(* sortTracks: rows without a value go last either way; the sort is stable. *)
Value(t, key) == IF key = "dist" /\ t.at # None THEN Distance(0, t.at)
                 ELSE IF key = "id" THEN t.label ELSE None
SortTracks(ts, by) ==
  LET v(i) == Value(ts[i], by.key)
      before(i, j) ==
        IF v(i) = None THEN v(j) = None /\ i < j
        ELSE IF v(j) = None THEN TRUE
        ELSE IF v(i) = v(j) THEN i < j
        ELSE (v(i) < v(j)) = (by.dir = "asc")
      order == SetToSortSeq(DOMAIN ts, before)
  IN [n \in DOMAIN ts |-> ts[order[n]].hex]
ToggleSort(current, key) ==
  [key |-> key,
   dir |-> IF current.key = key /\ current.dir = "asc" THEN "desc" ELSE "asc"]

(* What each surface shows, by place: the rows of the list, and the others *)
(* about the selected aircraft on its display, nothing where it is gone.   *)
Shows(surface, ts, by, chosen) ==
  IF surface = "list" THEN SortTracks(ts, by)
  ELSE IF chosen \notin Listed(ts) THEN <<>>
  ELSE LET others == SelectSeq(ts, LAMBDA t : t.at # None /\ t.hex # chosen)
       IN [n \in DOMAIN others |-> others[n].hex]
HexAt(hexes, n) == IF n \in DOMAIN hexes THEN hexes[n] ELSE None

(* hoverPlace: the place under the mouse hovers what it shows now; a place *)
(* that is taken away is dropped, and hovers nothing.                      *)
Follows(h, ts, by, chosen) ==
  IF place = None THEN hover' = h /\ UNCHANGED place
  ELSE LET shown == Shows(place.on, ts, by, chosen)
       IN /\ place' = IF place.n \in DOMAIN shown THEN place ELSE None
          /\ hover' = SetHovered(h, place.on, HexAt(shown, place.n))
(* What is seen of an aircraft that is both hovered and selected. *)
HoverMark == IF hover = None THEN None ELSE IF hover.hex = selected THEN None ELSE hover.hex

Selects(hex) == selected' = hex /\ Follows(hover, tracks, sort, hex)

-----------------------------------------------------------------------------
Init ==
  /\ tracks \in Snapshots /\ pan = 0
  /\ selected = None /\ sort = [key |-> "dist", dir |-> "asc"]
  /\ hover = None /\ place = None /\ pointer = None
  /\ menu = None /\ pending = None /\ modeText = None
  /\ rbls = <<>> /\ made = 0
  /\ drag = None /\ cursor = None

linesVars == <<pending, modeText, rbls, made>>

(* ingest, forgetHovered and bumpSnapshot, with what follows the last. *)
Snapshot ==
  \E ts \in Snapshots \ {tracks} :
    /\ tracks' = ts
    /\ Follows(ForgetHovered(hover, ts), ts, sort, selected)
    /\ UNCHANGED <<pan, selected, sort, pointer, menu, linesVars, drag, cursor>>

(* hover of the canvas: it leaves the list and the display first. *)
Hover(p) ==
  /\ place = None
  /\ pointer' = p
  /\ hover' = SetHovered(hover, "scope", TargetAt(p, TARGET_PX))
  /\ UNCHANGED <<tracks, pan, selected, sort, place, menu, linesVars, drag, cursor>>
Leave ==
  /\ pointer # None
  /\ pointer' = None
  /\ hover' = SetHovered(hover, "scope", None)
  /\ UNCHANGED <<tracks, pan, selected, sort, place, menu, linesVars, drag, cursor>>

(* The mouse enters a row of the list or an aircraft of the display. *)
Enter(surface, n) ==
  /\ pointer = None /\ place = None
  /\ n \in DOMAIN Shows(surface, tracks, sort, selected)
  /\ place' = [on |-> surface, n |-> n]
  /\ hover' = SetHovered(hover, surface, HexAt(Shows(surface, tracks, sort, selected), n))
  /\ UNCHANGED <<tracks, pan, selected, sort, pointer, menu, linesVars, drag, cursor>>
Exit ==
  /\ place # None
  /\ place' = None /\ hover' = SetHovered(hover, place.on, None)
  /\ UNCHANGED <<tracks, pan, selected, sort, pointer, menu, linesVars, drag, cursor>>

Sort(key) ==
  /\ place = None
  /\ sort' = ToggleSort(sort, key)
  /\ Follows(hover, tracks, sort', selected)
  /\ UNCHANGED <<tracks, pan, selected, pointer, menu, linesVars, drag, cursor>>

(* tap: the next end of the pending line, else what is under it. *)
Tap(p, precision) ==
  /\ IF pending # None
     THEN /\ LET anchor == AnchorAt(p, precision.snap)
             IN IF pending.a = None THEN Asks(anchor, "b") /\ UNCHANGED <<rbls, made>>
                ELSE made < MaxLines /\ Drawn(pending.a, anchor) /\ AsksNothing
          /\ UNCHANGED <<selected, hover, place>>
     ELSE /\ LET hex == TargetAt(p, precision.reach)
             IN Selects(IF hex # None THEN hex ELSE BlockAt(p))
          /\ UNCHANGED linesVars
  /\ menu = None /\ drag = None
  /\ precision.hovers => pointer = p
  /\ UNCHANGED <<tracks, pan, sort, pointer, menu, drag, cursor>>

(* A click on the row the mouse is on. *)
Click ==
  /\ place # None /\ place.on = "list"
  /\ Selects(HexAt(Shows("list", tracks, sort, selected), place.n))
  /\ UNCHANGED <<tracks, pan, sort, pointer, menu, linesVars, drag, cursor>>

(* menu: what it holds is of when it was opened. *)
TargetMenu(hex) == [of |-> "target", hex |-> hex]
RblMenu(r) == [of |-> "line", lines |-> <<r>>]
ScopeMenu(p) == [of |-> "scope", at |-> ToWorld(p), lines |-> rbls]
OpenMenu(p, precision) ==
  /\ LET hex == TargetAt(p, precision.reach)
         r == RblAt(p)
     IN menu' = IF hex # None THEN TargetMenu(hex)
                ELSE IF r # None THEN RblMenu(r) ELSE ScopeMenu(p)
  /\ UNCHANGED <<tracks, pan, selected, sort, hover, place, pointer, linesVars, drag, cursor>>
OpenRowMenu ==
  /\ place # None /\ place.on = "list"
  /\ menu' = TargetMenu(HexAt(Shows("list", tracks, sort, selected), place.n))
  /\ UNCHANGED <<tracks, pan, selected, sort, hover, place, pointer, linesVars, drag, cursor>>

(* An item of the menu, which is closed then. *)
MenuSelect ==
  /\ menu # None /\ menu.of = "target" /\ menu' = None
  /\ Selects(menu.hex)
  /\ UNCHANGED <<tracks, pan, sort, pointer, linesVars, drag, cursor>>
MenuStart ==
  /\ menu # None /\ menu.of \in {"target", "scope"} /\ menu' = None
  /\ Asks(IF menu.of = "target" THEN OnTarget(menu.hex) ELSE Free(menu.at), "b")
  /\ UNCHANGED <<tracks, pan, selected, sort, hover, place, pointer, rbls, made, drag, cursor>>
MenuDelete(r) ==
  /\ menu # None /\ menu.of \in {"line", "scope"} /\ r \in Range(menu.lines)
  /\ menu' = None
  /\ rbls' = DeleteRbl(rbls, r)
  /\ UNCHANGED <<tracks, pan, selected, sort, hover, place, pointer, pending, modeText, made,
                 drag, cursor>>
MenuClear ==
  /\ menu # None /\ menu.of = "scope" /\ menu.lines # <<>> /\ menu' = None
  /\ rbls' = <<>>
  /\ UNCHANGED <<tracks, pan, selected, sort, hover, place, pointer, pending, modeText, made,
                 drag, cursor>>
MenuResetPan ==
  /\ menu # None /\ menu.of = "scope" /\ menu' = None
  /\ pan' = 0
  /\ UNCHANGED <<tracks, selected, sort, hover, place, pointer, linesVars, drag, cursor>>
DismissMenu ==
  /\ menu # None /\ menu' = None
  /\ UNCHANGED <<tracks, pan, selected, sort, hover, place, pointer, linesVars, drag, cursor>>

(* Keys, which the menu does not keep from the scope. *)
Pan(x) ==
  /\ pan' = x /\ menu = None
  /\ UNCHANGED <<tracks, selected, sort, hover, place, pointer, menu, linesVars, drag, cursor>>
StartRbl ==
  /\ Asks(None, "a")
  /\ UNCHANGED <<tracks, pan, selected, sort, hover, place, pointer, menu, rbls, made, drag,
                 cursor>>
DeleteLastRbl ==
  /\ rbls # <<>> /\ rbls' = Front(rbls)
  /\ UNCHANGED <<tracks, pan, selected, sort, hover, place, pointer, menu, pending, modeText,
                 made, drag, cursor>>
ClearRbls ==
  /\ rbls # <<>> /\ rbls' = <<>>
  /\ UNCHANGED <<tracks, pan, selected, sort, hover, place, pointer, menu, pending, modeText,
                 made, drag, cursor>>
Cancel ==
  /\ AsksNothing /\ cursor' = None /\ menu' = None
  /\ UNCHANGED <<tracks, pan, selected, sort, hover, place, pointer, rbls, made, drag>>

-----------------------------------------------------------------------------
(* A line dragged out of the selected target, and what a right drag shows. *)
Grab(p, precision) ==
  /\ menu = None /\ drag = None
  /\ precision.hovers => pointer = p
  /\ selected # None /\ TargetAt(p, precision.reach) = selected
  /\ drag' = [hex |-> selected, from |-> p, moved |-> FALSE, precision |-> precision]
  /\ UNCHANGED <<tracks, pan, selected, sort, hover, place, pointer, menu, linesVars, cursor>>
(* The window hears of it, and then the canvas of a mouse. *)
DragTo(p) ==
  /\ drag # None /\ p # drag.from
  /\ LET moved == drag.moved \/ Distance(p, drag.from) > DRAG_THRESHOLD_PX
     IN /\ drag' = [drag EXCEPT !.moved = moved]
        /\ IF moved /\ ~drag.moved THEN Asks(OnTarget(drag.hex), "release")
           ELSE UNCHANGED <<pending, modeText>>
        /\ pointer' = IF moved \/ drag.precision.hovers THEN p ELSE pointer
  /\ hover' = IF drag.precision.hovers
              THEN SetHovered(hover, "scope", TargetAt(p, TARGET_PX)) ELSE hover
  /\ UNCHANGED <<tracks, pan, selected, sort, place, menu, rbls, made, cursor>>
(* end: a key may have taken the pending anchor meanwhile. *)
Release(p) ==
  /\ drag # None /\ drag' = None
  /\ drag.moved /\ pointer = p
  /\ made < MaxLines
  /\ IF pending # None /\ pending.a # None
     THEN Drawn(pending.a, AnchorAt(p, drag.precision.snap))
     ELSE UNCHANGED <<rbls, made>>
  /\ AsksNothing
  /\ pointer' = IF drag.precision.hovers THEN pointer ELSE None
  /\ UNCHANGED <<tracks, pan, selected, sort, hover, place, menu, cursor>>
(* A press that did not move, or a zoom that takes over. *)
DropGrab ==
  /\ drag # None /\ drag' = None
  /\ IF drag.moved THEN AsksNothing ELSE UNCHANGED <<pending, modeText>>
  /\ UNCHANGED <<tracks, pan, selected, sort, hover, place, pointer, menu, rbls, made, cursor>>

(* rangeOrigin, and its end when the button comes up. *)
ShowRange(p) ==
  /\ menu = None /\ drag = None /\ pointer = p /\ cursor = None
  /\ cursor' = AnchorAt(p, TARGET_PX)
  /\ UNCHANGED <<tracks, pan, selected, sort, hover, place, pointer, menu, linesVars, drag>>
HideRange ==
  /\ cursor # None /\ cursor' = None
  /\ UNCHANGED <<tracks, pan, selected, sort, hover, place, pointer, menu, linesVars, drag>>

(* All there is to do with the aircraft, and with the lines. *)
HoverNext ==
  \/ Snapshot \/ Leave \/ Exit \/ Click
  \/ \E p \in Points : Hover(p) \/ ShowRange(p)
  \/ \E s \in {"list", "nd"}, n \in 1 .. 3 : Enter(s, n)
  \/ \E k \in {"dist", "id"} : Sort(k)
  \/ OpenRowMenu \/ MenuSelect \/ MenuResetPan \/ DismissMenu \/ HideRange
  \/ \E x \in Pans : Pan(x)
  \/ \E p \in Points, k \in Pointers : OpenMenu(p, k) \/ (pending = None /\ Tap(p, k))

LinesNext ==
  \/ Snapshot \/ Leave
  \/ \E p \in Points : Hover(p) \/ DragTo(p) \/ Release(p)
  \/ \E p \in Points, k \in Pointers : Tap(p, k) \/ OpenMenu(p, k) \/ Grab(p, k)
  \/ MenuStart \/ MenuClear \/ DismissMenu
  \/ menu # None /\ menu.of # "target" /\ \E r \in Range(menu.lines) : MenuDelete(r)
  \/ StartRbl \/ DeleteLastRbl \/ ClearRbls \/ Cancel \/ DropGrab

Next == HoverNext \/ LinesNext

-----------------------------------------------------------------------------
(* The aircraft hovered is listed, and what rests under the mouse on the   *)
(* list or the display hovers what its place shows now (hoverPlace.ts:6):  *)
(* the hover follows the place through every sort and every snapshot, and  *)
(* never the aircraft.                                                     *)
HoverTrue ==
  /\ hover # None => hover.hex \in Listed(tracks)
  /\ place # None =>
       hover = [by |-> place.on, hex |-> HexAt(Shows(place.on, tracks, sort, selected), place.n)]
  /\ place = None /\ hover # None => hover.by = "scope"

(* No line joins a target to itself, and no two that have a tag have the   *)
(* same, whichever were deleted between.                                   *)
LinesApart ==
  /\ \A r \in Range(rbls) : ~(r.a.kind = "target" /\ r.a = r.b)
  /\ \A i, j \in DOMAIN rbls :
       i # j /\ rbls[i].tag = rbls[j].tag => rbls[i].tag = Untagged

(* The prompt tells which anchor is waited for, and there is none when no  *)
(* line is (scope.ts:137), whatever keys are pressed in a drag.            *)
PromptTrue ==
  /\ (modeText = None) <=> (pending = None)
  /\ pending # None => ((modeText = "a") <=> (pending.a = None))

(* A line's own menu deletes the line it named when it was opened and no   *)
(* other, also when that line was deleted meanwhile and another took its   *)
(* tag (menus.ts:35).                                                      *)
DeletesNamed ==
  [][menu # None /\ menu.of = "line" /\ menu' = None =>
       \A r \in Range(rbls) \ Range(rbls') :
         \E x \in Range(menu.lines) : x.id = r.id]_<<menu, rbls>>

(* A line ends where it was drawn to as pending (hit.ts:18), for a pointer *)
(* that shows where it is: where it taps, and where it lets go of a drag.  *)
EndsAsDrawn ==
  [][LET lets == IF drag = None THEN \E p \in Points, k \in Pointers : k.hovers /\ Tap(p, k)
                 ELSE drag.precision.hovers
     IN PendingEnd # None /\ lets =>
          \A r \in Range(rbls') \ Range(rbls) : r.b = PendingEnd]_rbls
=============================================================================
