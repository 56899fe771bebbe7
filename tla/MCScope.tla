------------------------------ MODULE MCScope ------------------------------
(***************************************************************************)
(* What an operator does to the page: the gestures on the scope and on the *)
(* lanes, the window the lanes show and the column they stand in, the map  *)
(* sets and the tree of layers.                                            *)
(* They share nothing here: one is run at a time, and the others stand at  *)
(* their start.  The gestures on the scope are run of fingers alone, of    *)
(* the mouse alone, and of the mouse with one finger.                      *)
(***************************************************************************)
EXTENDS Naturals, Sequences, FiniteSets

CONSTANTS
  None,
  Fingers, MaxFingers,
  AllLanes, Instruments, MaxRaces,
  MIN_WINDOW_SEC, WIDTH, MaxNow,
  Identities, MaxImports, MaxLoads,
  PartsRun,                 \* those that are run
  Older                  \* the sets that may be there from the start

VARIABLES
  part,
  scope, touch, mouse, fingers, buttons, cursor, over, asks, platform, there, chorded,
  mixed,
  plotted, hold, drag, swipe, holding, picking, peeking, span, loops, picker, touches,
  pinch, raced, shifted,
  window, contact, start,
  sets, disabled, store, oldFlags, opening, records, hydrated, setsAsked, writes,
  draws,
  drawn, imports, loads, off, failed, early, unadopted,
  treeSets, treeQuery, boxText, composing, openRows, closedRows, drawnLists, heads,
  focus, focused, underMouse,
  columnLanes, keptScroll, scroller, untoldScroll, scrollView, laneDragged, lanePicker,
  laneFocus, leftScroll

G == INSTANCE Gestures
L == INSTANCE Lanes
W == INSTANCE Window
M == INSTANCE MapSets WITH asked <- setsAsked

(* Two groups of a layer each, one with an item of either set, the first   *)
(* of which a list draws at once; and terms that match a layer, a group    *)
(* and an item.                                                            *)
TermsAround(layer) == IF layer = "fir" THEN {"layer"} ELSE {"group"}
TermsOf(key) == IF key = "x2" THEN {"item"} ELSE {}
T == INSTANCE LayerTree WITH
  Box <- "box",
  Groups <- <<[title |-> "Airspace", layers |-> <<"fir">>], [title |-> "Routes", layers |-> <<"vfr">>]>>,
  Items <- <<[key |-> "x1", layer |-> "fir", set |-> "s1"],
             [key |-> "x2", layer |-> "fir", set |-> "s2"]>>,
  Sets <- {"s1", "s2"}, Around <- TermsAround, Own <- TermsOf,
  Queries <- {{}, {"layer"}, {"item"}, {"layer", "item"}, {"group"}}, FIRST_ROWS <- 1,
  sets <- treeSets, query <- treeQuery, text <- boxText, open <- openRows,
  closed <- closedRows, drawn <- drawnLists

(* Two readings and an instrument, which fill the column twice over. *)
C == INSTANCE Column WITH
  lanes <- columnLanes, kept <- keptScroll, pending <- untoldScroll, view <- scrollView,
  dragged <- laneDragged, picker <- lanePicker, focus <- laneFocus, left <- leftScroll,
  Nothing <- None, Readings <- {"alt", "vs"}, Dials <- {"nd"},
  HeightOf <- [alt |-> 3, vs |-> 3, nd |-> 4, axis |-> 1, add |-> 2],
  ScrollerAt <- [left |-> 2, right |-> 8, top |-> 1, bottom |-> 7],
  Page <- [width |-> 10, height |-> 9], PickerSize <- [width |-> 4, height |-> 5],
  ChipSize <- 3, EDGE_PX <- 2, EDGE_SPEED_PX <- 4, MIN_THUMB_PX <- 1,
  Points <- {[x |-> 3, y |-> 2], [x |-> 3, y |-> 7], [x |-> 9, y |-> 4]}, Tops <- {0, 9}

ASSUME ScopeAssumption ==
  /\ G!GesturesAssumption /\ L!LanesAssumption /\ W!WindowAssumption
  /\ M!MapSetsAssumption /\ T!LayerTreeAssumption
  /\ C!ColumnAssumption

gestureVars == <<scope, touch, mouse, fingers, buttons, cursor, over, asks, platform,
                 there, chorded, mixed>>
laneVars == <<plotted, hold, drag, swipe, holding, picking, peeking, span, loops, picker,
              touches, pinch, raced, shifted>>
windowVars == <<window, contact, start>>
setVars == <<sets, disabled, store, oldFlags, opening, records, hydrated, setsAsked, writes,
             draws, drawn, imports, loads, off, failed, early, unadopted>>
treeVars == <<treeSets, treeQuery, boxText, composing, openRows, closedRows, drawnLists,
              heads, focus, focused, underMouse>>
columnVars == <<columnLanes, keptScroll, scroller, untoldScroll, scrollView, laneDragged,
                lanePicker, laneFocus, leftScroll>>
MCVars == <<part, gestureVars, laneVars, windowVars, setVars, treeVars, columnVars>>

Gestures == {"touch", "mouse", "chords", "both"}

MCInit ==
  /\ part \in PartsRun
  /\ G!Init /\ L!Init /\ W!Init /\ M!Init /\ T!Init /\ C!Init
  /\ part \notin {"mouse", "chords", "both"} => platform = "down"
  /\ part # "lanes" => plotted = CHOOSE lanes \in L!SetToSeqs(AllLanes) : TRUE
  /\ IF part = "sets" THEN DOMAIN store \subseteq Older
     ELSE oldFlags = None /\ DOMAIN store = {}

OfGestures(A) ==
  A /\ UNCHANGED <<part, laneVars, windowVars, setVars, treeVars, columnVars>>
OfLanes(A) ==
  /\ part = "lanes" /\ A
  /\ UNCHANGED <<part, gestureVars, windowVars, setVars, treeVars, columnVars>>
OfWindow(A) ==
  /\ part = "window" /\ A
  /\ UNCHANGED <<part, gestureVars, laneVars, setVars, treeVars, columnVars>>
OfSets(A) ==
  /\ part = "sets" /\ A
  /\ UNCHANGED <<part, gestureVars, laneVars, windowVars, treeVars, columnVars>>
OfTree(A) ==
  /\ part = "tree" /\ A
  /\ UNCHANGED <<part, gestureVars, laneVars, windowVars, setVars, columnVars>>
OfColumn(A) ==
  /\ part = "column" /\ A
  /\ UNCHANGED <<part, gestureVars, laneVars, windowVars, setVars, treeVars>>

MCNext ==
  \/ part = "touch" /\ OfGestures(G!FingersNext \/ G!OthersNext)
  \/ part = "mouse" /\ OfGestures(G!MouseNext \/ G!OthersNext)
  \/ part = "chords" /\ OfGestures(G!MouseNext \/ G!ChordNext)
  \/ part = "both" /\ OfGestures(/\ G!FingersNext \/ G!MouseNext
                                /\ Cardinality(fingers') <= 1 /\ "right" \notin buttons')
  \/ OfLanes(L!Next) \/ OfWindow(W!Next) \/ OfSets(M!Next) \/ OfTree(T!Next)
  \/ OfColumn(C!Next)

MCSpec == MCInit /\ [][MCNext]_MCVars

-----------------------------------------------------------------------------
(* Gestures.LetGo and OneOutcome, and Lanes.LaneHeld: nothing outlives the *)
(* pointer that did it, and whatever is pressed comes to one thing; a lane *)
(* is held by one pointer, which does one thing.                           *)
LetGo ==
  /\ part \in Gestures => G!TypeOK /\ G!LetGo /\ G!OneOutcome
  /\ part = "lanes" => L!TypeOK /\ L!LaneHeld

(* Window.WindowShown, LayerTree.FocusStays and Column.FocusFollows: what  *)
(* the lanes show is of the contact, and moves no further than it has to;  *)
(* the focus is taken from no row but by its set, or off the tree; and it  *)
(* goes with a lane that moves, to a place in view.                        *)
(* LayerTree.TreeTrue and Column.ColumnTrue: what the tree points at and   *)
(* goes into is there; what is shown of the column while a lane is dragged *)
(* is what letting go leaves, its scroll is kept, and its picker stands in *)
(* the page with the focus.                                                *)
WindowShown ==
  /\ [][part = "window" => W!WindowShownStep]_windowVars
  /\ [][part = "tree" => T!FocusStays]_treeVars
  /\ [][part = "column" => C!FocusFollows]_columnVars
  /\ [](part = "tree" => T!TreeTrue)
  /\ [](part = "column" => C!ColumnTrue)

(* MapSets.SetsKept: the next session has the sets this one lists, with    *)
(* what the operator has switched off.                                     *)
SetsKept == part = "sets" => M!TypeOK /\ M!SetsKept
=============================================================================
