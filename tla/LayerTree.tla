----------------------------- MODULE LayerTree -----------------------------
(***************************************************************************)
(* The tree of layers as it is read and walked: its rows, those open, and  *)
(* those a search keeps; the focus, which arrow keys take from row to row, *)
(* and the item pointed at, which the scope traces.  What the rows set is  *)
(* in Layers.  A term of a search is what it matches: the text of layers   *)
(* and of their groups, and items.                                         *)
(***************************************************************************)
EXTENDS Naturals, Sequences, FiniteSets, SequencesExt

CONSTANTS
  None, Box,       \* no element, and the box that filters the tree
  Groups,          \* the groups in order, each [title, layers]
  Items,           \* the items in the order the tree lists them, each [key, layer, set]
  Sets,            \* the map sets
  Around(_),       \* of a layer, the terms that match its name or its group's
  Own(_),          \* of an item's key, the terms that match its name or tag
  Queries,         \* what may be searched for, each a set of terms
  FIRST_ROWS

(* What the constants are taken to be, assumed where they are given values. *)
LayerTreeAssumption ==
  /\ FIRST_ROWS \in Nat \ {0}
  /\ \A i \in Range(Items) : i.set \in Sets /\ \E g \in Range(Groups) : i.layer \in Range(g.layers)
  /\ {} \in Queries

VARIABLES
  sets,            \* those enabled
  query, text,     \* what is searched for, and what is in the box
  composing,       \* whether a composition is in progress in the box
  open, closed,    \* the rows open, and those closed during this search
  drawn,           \* the layers whose list has drawn, and has all its rows
  heads,           \* the heads of the rows that are there, in order
  focus,           \* the element with focus
  focused,         \* the item row that said it took the focus
  underMouse       \* the item row that said the mouse entered it

vars ==
  <<sets, query, text, composing, open, closed, drawn, heads, focus, focused, underMouse>>

Keys == {i.key : i \in Range(Items)}
Layers == UNION {Range(g.layers) : g \in Range(Groups)}
Titles == {g.title : g \in Range(Groups)}

-----------------------------------------------------------------------------
(* What the search keeps.  A layer that every term names keeps all its     *)
(* items; another those that every term that does not name it matches.     *)
Searching == query # {}
TreeItems(l) == SelectSeq(Items, LAMBDA i : i.layer = l /\ i.set \in sets)
Left(l) == query \ Around(l)
(* Mutated: an item stays when its own text matches every term. *)
KeptOwn(l) == SelectSeq(TreeItems(l), LAMBDA i : query \subseteq Own(i.key))
Kept(l) == SelectSeq(TreeItems(l), LAMBDA i : Left(l) \subseteq Own(i.key))
IsLayerListed(l) == ~Searching \/ Left(l) = {} \/ Kept(l) # <<>>
ListedItems(l) == IF Searching THEN Kept(l) ELSE TreeItems(l)
Leaves(g) == SelectSeq(g.layers, IsLayerListed)

(* While searching every row is open but those closed since it changed. *)
IsOpen(id) == IF Searching THEN id \notin closed ELSE id \in open
HasItems(l) == TreeItems(l) # <<>>
(* Whether a head is open: None for one that opens nothing. *)
Expanded(head) ==
  IF head \in Titles \/ (head \in Layers /\ HasItems(head)) THEN IsOpen(head) ELSE None

(* The rows of a layer's list, the first of them until it has drawn. *)
RowsNow(l) ==
  LET keys == [i \in DOMAIN ListedItems(l) |-> ListedItems(l)[i].key]
  IN IF l \in drawn \/ Len(keys) <= FIRST_ROWS THEN keys ELSE SubSeq(keys, 1, FIRST_ROWS)
LayerBranch(l) == <<l>> \o (IF Expanded(l) = TRUE THEN RowsNow(l) ELSE <<>>)
GroupBranch(g) ==
  LET layers == Leaves(g)
  IN IF layers = <<>> THEN <<>>
     ELSE <<g.title>> \o (IF IsOpen(g.title)
                          THEN FlattenSeq([i \in DOMAIN layers |-> LayerBranch(layers[i])])
                          ELSE <<>>)
HeadsNow == FlattenSeq([i \in DOMAIN Groups |-> GroupBranch(Groups[i])])
Rows == Range(heads)
(* The layers whose list is there. *)
Mounted ==
  UNION {{l \in Range(Leaves(g)) : Expanded(l) = TRUE} : g \in {h \in Range(Groups) : IsOpen(h.title)}}

Parent(head) ==
  CASE head \in Keys -> (CHOOSE i \in Range(Items) : i.key = head).layer
    [] head \in Layers -> (CHOOSE g \in Range(Groups) : head \in Range(g.layers)).title
    [] OTHER -> None

-----------------------------------------------------------------------------
(* A row's pointer or focus gone only clears its own key. *)
Clearing(key, signal) == IF signal = key THEN None ELSE signal
(* Mutated: a row that is gone keeps its key. *)
ClearedNever(signal, there) == signal
(* A row that is gone clears its key. *)
Cleared(signal, there) == IF signal \in there THEN signal ELSE None

(* The rows that are gone take the focus with them, and none is told; f is *)
(* the element that has taken it.                                          *)
Redrawn(f, entered) ==
  LET blurred == Clearing(focus, focused)
      taken == IF f = focus THEN focused ELSE IF f \in Keys THEN f ELSE blurred
  IN /\ drawn' = drawn \cap Mounted'
     /\ heads' = HeadsNow'
     /\ focus' = IF f \in Rows' \cup {Box} THEN f ELSE None
     /\ focused' = Cleared(taken, Rows')
     /\ underMouse' = Cleared(entered, Rows')

SetQuery(q) == query' = q /\ text' = q /\ closed' = {}
Unchanged == UNCHANGED <<sets, query, text, composing, open, closed>>

(* The box.  While a composition is in progress it waits for its end. *)
Type(q) ==
  /\ focus = Box
  /\ IF composing THEN text' = q /\ UNCHANGED <<query, closed>> ELSE SetQuery(q)
  /\ UNCHANGED <<sets, composing, open>>
  /\ Redrawn(focus, underMouse)
Compose ==
  /\ focus = Box /\ ~composing /\ composing' = TRUE
  /\ UNCHANGED <<sets, query, text, open, closed, drawn, heads, focus, focused, underMouse>>
ComposeEnd ==
  /\ composing /\ composing' = FALSE
  /\ SetQuery(text)
  /\ UNCHANGED <<sets, open>>
  /\ Redrawn(focus, underMouse)
BoxEscape ==
  /\ focus = Box /\ ~composing /\ text # {}
  /\ SetQuery({})
  /\ UNCHANGED <<sets, composing, open>>
  /\ Redrawn(focus, underMouse)
(* Mutated: the focus stays where it was. *)
ClearStaying ==
  /\ ~composing /\ query # {}
  /\ SetQuery({})
  /\ UNCHANGED <<sets, composing, open>>
  /\ Redrawn(focus, underMouse)
Clear ==
  /\ ~composing /\ query # {}
  /\ SetQuery({})
  /\ UNCHANGED <<sets, composing, open>>
  /\ Redrawn(Box, underMouse)
BoxDown ==
  /\ focus = Box /\ ~composing /\ heads # <<>>
  /\ Unchanged /\ Redrawn(heads[1], underMouse)

(* The focus goes to the box, or off the tree. *)
Focus(f) ==
  /\ ~composing /\ f # focus
  /\ Unchanged /\ Redrawn(f, underMouse)

-----------------------------------------------------------------------------
Flipped(ids, id) == IF id \in ids THEN ids \ {id} ELSE ids \cup {id}
ToggleOpen(id) ==
  /\ IF Searching THEN closed' = Flipped(closed, id) /\ UNCHANGED open
     ELSE open' = Flipped(open, id) /\ UNCHANGED closed
  /\ UNCHANGED <<sets, query, text, composing>>

(* A head clicked, which takes the focus; one that opens nothing sets.     *)
Click(head) ==
  /\ head \in Rows /\ ~composing
  /\ IF Expanded(head) = None THEN Unchanged ELSE ToggleOpen(head)
  /\ Redrawn(head, underMouse)

(* Which way a key moves from a row. *)
TreeMove(key, expanded) ==
  CASE key = "ArrowDown" -> "next"
    [] key = "ArrowUp" -> "previous"
    [] key = "ArrowRight" /\ expanded = TRUE -> "next"
    [] key = "ArrowRight" /\ expanded = FALSE -> "toggle"
    [] key = "ArrowLeft" /\ expanded = TRUE -> "toggle"
    [] key = "ArrowLeft" -> "parent"
    [] OTHER -> None
TargetOf(move, head) ==
  LET at == CHOOSE i \in DOMAIN heads : heads[i] = head
      next == IF at < Len(heads) THEN heads[at + 1] ELSE None
      previous == IF at > 1 THEN heads[at - 1] ELSE Box
      target == CASE move = "next" -> next [] move = "previous" -> previous
                  [] OTHER -> Parent(head)
  IN IF target = None THEN head ELSE target
OnTreeKey(key) ==
  /\ focus \in Rows
  /\ LET move == TreeMove(key, Expanded(focus))
     IN /\ move # None
        /\ IF move = "toggle" THEN Click(focus)
           ELSE Unchanged /\ Redrawn(TargetOf(move, focus), underMouse)

EnterRow(key) ==
  /\ key \in Rows \cap Keys /\ key # underMouse
  /\ Unchanged /\ Redrawn(focus, key)
LeaveRow ==
  /\ underMouse # None
  /\ Unchanged /\ Redrawn(focus, Clearing(underMouse, underMouse))

(* The frame a list drew in is out of the way. *)
Drew(l) ==
  /\ l \in Mounted \ drawn /\ drawn' = drawn \cup {l}
  /\ UNCHANGED <<sets, query, text, composing, open, closed, focus, focused, underMouse>>
  /\ heads' = HeadsNow'

(* A set is imported or removed, or switched on or off. *)
SetTopology(s) ==
  /\ sets' = s /\ s # sets
  /\ UNCHANGED <<query, text, composing, open, closed>>
  /\ Redrawn(focus, underMouse)

(* The panel is no longer shown; what was pressed for it has the focus. *)
Hide ==
  /\ focus = None /\ underMouse = None /\ ~composing
  /\ SetQuery({})
  /\ UNCHANGED <<sets, composing, open>>
  /\ Redrawn(None, None)

Init ==
  /\ sets = {} /\ query = {} /\ text = {} /\ composing = FALSE
  /\ open = {} /\ closed = {} /\ drawn = {} /\ heads = HeadsNow
  /\ focus = None /\ focused = None /\ underMouse = None

Next ==
  \/ \E q \in Queries : Type(q)
  \/ Compose \/ ComposeEnd \/ BoxEscape \/ Clear \/ BoxDown
  \/ \E f \in {Box, None} : Focus(f)
  \/ \E head \in Titles \cup Layers \cup Keys : Click(head)
  \/ \E key \in {"ArrowDown", "ArrowUp", "ArrowLeft", "ArrowRight"} : OnTreeKey(key)
  \/ \E key \in Keys : EnterRow(key)
  \/ LeaveRow
  \/ \E l \in Layers : Drew(l)
  \/ \E s \in SUBSET Sets : SetTopology(s)
  \/ Hide

Spec == Init /\ [][Next]_vars

-----------------------------------------------------------------------------
(* The item pointed at is of a row that is there, and the row with focus   *)
(* is the one that says so; nothing the scope traces outlives its row      *)
(* (ItemList.tsx:39).                                                      *)
PointsAtRows ==
  /\ focus \in Rows \cup {Box, None}
  /\ focused = IF focus \in Keys THEN focus ELSE None
  /\ underMouse \in (Rows \cap Keys) \cup {None}

(* A row that is open has a row under it, so the key that goes into it     *)
(* stays within it, and the row a row is under is listed (treeKeys.ts:17). *)
GoesInto ==
  \A n \in DOMAIN heads :
    /\ Expanded(heads[n]) = TRUE => n < Len(heads) /\ Parent(heads[n + 1]) = heads[n]
    /\ Parent(heads[n]) \in Rows \cup {None}

(* The box filters by what it shows, once no composition is in progress. *)
BoxFilters == composing \/ text = query

TreeTrue == PointsAtRows /\ GoesInto /\ BoxFilters

(* The row with focus goes only with its set or as the focus is taken off  *)
(* the tree: to open, to close, to search and to walk never lose it; and a *)
(* search leaves the rows open as they were.                               *)
FocusStays ==
  /\ focus \in Rows \ Rows' /\ sets' = sets => focus' \in Rows' \cup {Box}
  /\ open' # open => ~Searching /\ query' = query
=============================================================================
