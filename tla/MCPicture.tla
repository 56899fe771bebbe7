----------------------------- MODULE MCPicture ------------------------------
(***************************************************************************)
(* What the page has to draw.  The track store: fed by the tracker of a    *)
(* source that comes and goes, of which it keeps trails for long, or no    *)
(* longer than it remembers; and, on questions of its own, fed any         *)
(* snapshots there may be: one of trails and projections, one of samples,  *)
(* one of what the operator sets.  And the chart: which of its items are   *)
(* shown, and how their lines are drawn.  And what the operator does with  *)
(* the aircraft shown.  A behaviour is of the question it begins with, and *)
(* what is of the others stands at its start.                              *)
(***************************************************************************)
EXTENDS Picture

CONSTANTS NoOne, p1, p2, p3   \* none, and aircraft

VARIABLES
  board,     \* what is run
  listing, pan, selected, sort, hover, place, pointer, menu, asking, modeText, rbls, numbered,
  drag, cursor

boardVars == <<listing, pan, selected, sort, hover, place, pointer, menu, asking, modeText,
               rbls, numbered, drag, cursor>>

T(h, x, name, reduced) == [hex |-> h, at |-> x, label |-> name, filtered |-> reduced]
Cursor == [reach |-> 14, snap |-> 15, hovers |-> TRUE]
Finger == [reach |-> 24, snap |-> 24, hovers |-> FALSE]

(* Three aircraft, one of them reduced by the filter; two, one without a   *)
(* place and one that is new; and two in another order.  A point is on     *)
(* one, in the reach of two, or on the block of one.                       *)
Hovering == INSTANCE Board WITH
  None <- NoOne,
  tracks <- listing, pending <- asking, made <- numbered,
  Snapshots <- {<<T(p1, 0, 2, TRUE), T(p2, 60, 1, FALSE), T(p3, -20, 2, FALSE)>>,
                <<T(p1, 16, 2, TRUE), T(p3, NoOne, 3, FALSE)>>,
                <<T(p2, -70, 1, TRUE), T(p1, 20, 2, FALSE)>>},
  Points <- {0, 8, 34}, Pans <- {0, 26}, Pointers <- {Cursor, Finger}, BLOCK <- <<26, 50>>,
  TARGET_PX <- 14, RBL_SNAP_PX <- 15, RBL_PX <- 6, DRAG_THRESHOLD_PX <- 5,
  TAGS <- <<"A">>, Untagged <- "?", MaxLines <- 0

(* Two aircraft, of which one goes and comes back, and lines that end on   *)
(* them or beside: a point is in the snap of a cursor and out of its reach.*)
Lining == INSTANCE Board WITH
  None <- NoOne,
  tracks <- listing, pending <- asking, made <- numbered,
  Snapshots <- {<<T(p1, 0, 1, FALSE), T(p2, 40, 2, FALSE)>>, <<T(p2, 40, 2, FALSE)>>},
  Points <- {14, 40}, Pans <- {0}, Pointers <- {Cursor}, BLOCK <- <<1, 2>>,
  TARGET_PX <- 14, RBL_SNAP_PX <- 15, RBL_PX <- 6, DRAG_THRESHOLD_PX <- 5,
  TAGS <- <<"A", "B">>, Untagged <- "?", MaxLines <- 2

BoardsAssumption == Hovering!BoardAssumption /\ Lining!BoardAssumption

(* One of the two is run, and a board that is not stands at one start. *)
BoardInit(b) ==
  /\ board = b
  /\ IF b = "hover" THEN Hovering!Init ELSE Lining!Init /\ (b = "lines" \/ Len(listing) = 1)
BoardNext ==
  /\ UNCHANGED board
  /\ (board = "hover" /\ Hovering!HoverNext) \/ (board = "lines" /\ Lining!LinesNext)

-----------------------------------------------------------------------------

CONSTANTS north, east,  \* two bearings
          v1, v2, v3    \* three vertices

VARIABLES question, project, operated,
          chart, query, shown, exceptions, said, vague,
          paths, drawn, stops, lines, homes

Brief == INSTANCE Picture WITH
  HISTORY_RETENTION_SEC <- 2, MaxNow <- 6, MaxMessages <- 5

Trails == INSTANCE TrackStore_proofs WITH
  Hexes <- Addresses, Places <- {1, 2}, Projections <- {1, 2}, Bearings <- {north},
  Counts <- {1}, HISTORY_RETENTION_SEC <- 2, REMEMBERED_SEC <- 2,
  MaxTime <- 3, MaxTrail <- 3, remembered <- kept

Samples == INSTANCE TrackStore_proofs WITH
  Hexes <- Addresses, Places <- {1}, Projections <- {1}, Bearings <- {north},
  Counts <- {1, 2, Nothing}, HISTORY_RETENTION_SEC <- 2, REMEMBERED_SEC <- 2,
  MaxTime <- 5, MaxTrail <- 2, remembered <- kept

Drags == INSTANCE TrackStore_proofs WITH
  Hexes <- Addresses, Places <- {1}, Projections <- {1}, Bearings <- {north, east},
  Counts <- {1, 2}, HISTORY_RETENTION_SEC <- 2, REMEMBERED_SEC <- 2,
  MaxTime <- 4, MaxTrail <- 2, remembered <- kept

(* Two map sets, of which one files a fix twice, near the other's of that  *)
(* name and far from it.                                                   *)
Feature(layer, name, at) == [layer |-> layer, name |-> name, at |-> at]
FiledIn(s) ==
  IF s = "import" THEN <<Feature("fix", 1, 1), Feature("ctr", 1, 0)>>
  ELSE <<Feature("fix", 1, 2), Feature("fix", 2, 5), Feature("fix", 3, 7)>>
NearBy(p, q) == p - q \in -1 .. 1

Listing == INSTANCE Layers WITH
  Groups <- {{"fix", "ctr"}}, PointLayers <- {"fix"}, DefaultShown <- {"fix"},
  Precedence <- <<"import", "openaip">>, Filed <- FiledIn, Near <- NearBy,
  Terms <- {[layers |-> {"ctr"}, names |-> {1}]}, EXCEPTIONS_MAX <- 2

(* Outlines that share edges, the same way and against it, run an edge     *)
(* back, are closed, or have no edge: two of any of them, three of some.   *)
(* A second position stands at the vertex of the first.                    *)
Second == <<v1, 2>>
VertexAt(position) == IF position = Second THEN v1 ELSE position
Outline(part, rank, upper, shape) ==
  [part |-> part, rank |-> rank, upper |-> upper, coordinates |-> shape]
Shapes == {<<v1, v2, v3>>, <<v3, v2, Second>>, <<v1, v2, v1>>, <<Second, v2, v3, Second>>,
           <<v2, v1, Second>>, <<v3, v2, v1, v3>>, <<v2, v3, v2, v1>>, <<Second>>}
Twos == {<<Outline(1, 1, u, s), Outline(p, r, FALSE, t)>> :
           u \in BOOLEAN, r \in {0, 1}, p \in {1, 2}, s \in Shapes, t \in Shapes}
Few == {<<v1, v2, v3>>, <<v3, v2, Second>>, <<v2, v3, v2, v1>>}
Threes == {<<Outline(1, 1, TRUE, s), Outline(2, 1, FALSE, t), Outline(3, 1, FALSE, u)>> :
             s \in Few, t \in Few, u \in Few}

Lines == INSTANCE Paths WITH
  VertexOf <- VertexAt, Outlines <- Twos \cup Threes,
  Points <- {[vertex |-> v2, size |-> 1], [vertex |-> v2, size |-> 2]},
  CLEARANCE <- 3, None <- Nothing

ASSUME MCAssumption ==
  /\ PictureAssumption /\ Brief!PictureAssumption
  /\ Trails!StoreAssumption /\ Samples!StoreAssumption /\ Drags!StoreAssumption
  /\ Listing!LayersAssumption /\ Lines!PathsAssumption /\ BoardsAssumption

trackerVars == <<vars, sourceVars, flightVars>>
storeVars == <<project, operated>>
layerVars == <<chart, query, shown, exceptions, said, vague>>
lineVars == <<paths, drawn, stops, lines, homes>>
chartVars == <<layerVars, lineVars>>
asideVars == <<board, boardVars>>
restVars == <<chartVars, asideVars>>

MCInit ==
  /\ question \in {"picture", "brief", "layers", "lines", "board", "trails", "samples", "drags"}
  /\ PictureInit
  /\ Listing!Init /\ Lines!Init
  /\ \/ question = "lines"
     \/ paths = Lines!NetworkOf(CHOOSE outlines \in Twos : TRUE)
  /\ IF question = "board" THEN \E of \in {"hover", "lines"} : BoardInit(of)
     ELSE BoardInit("none")
  /\ \/ /\ question \in {"picture", "brief", "layers", "lines", "board"}
        /\ project = 0 /\ operated = Store!None
     \/ question = "trails" /\ Trails!Init
     \/ question = "samples" /\ Samples!Init
     \/ question = "drags" /\ Drags!Init

MCNext ==
  /\ UNCHANGED question
  /\ \/ question = "picture" /\ PictureNext /\ UNCHANGED <<storeVars, restVars>>
     \/ question = "brief" /\ Brief!PictureNext /\ UNCHANGED <<storeVars, restVars>>
     \/ question = "trails" /\ Trails!Next /\ UNCHANGED <<trackerVars, restVars>>
     \/ question = "samples" /\ Samples!Next /\ UNCHANGED <<trackerVars, restVars>>
     \/ question = "drags" /\ Drags!Next /\ UNCHANGED <<trackerVars, restVars>>
     \/ /\ question = "layers" /\ Listing!Next
        /\ UNCHANGED <<pictureVars, storeVars, lineVars, asideVars>>
     \/ /\ question = "lines" /\ Lines!Next
        /\ UNCHANGED <<pictureVars, storeVars, layerVars, asideVars>>
     \/ /\ question = "board" /\ BoardNext
        /\ UNCHANGED <<pictureVars, storeVars, chartVars>>

MCSpec == MCInit /\ [][MCNext]_<<question, pictureVars, storeVars, restVars>>

-----------------------------------------------------------------------------
(* Board.HoverTrue, LinesApart and PromptTrue: what is hovered, asked for  *)
(* and drawn between aircraft agrees with what is listed, whatever is done *)
(* in the meantime.                                                        *)
BoardTrue ==
  /\ board = "hover" => Hovering!HoverTrue
  /\ board = "lines" => Lining!HoverTrue /\ Lining!LinesApart /\ Lining!PromptTrue

(* Board.DeletesNamed and EndsAsDrawn: a menu takes the line it named, and *)
(* a line ends where it was drawn to.                                      *)
LinesStand == Lining!DeletesNamed /\ Lining!EndsAsDrawn

(* TrackStore.TypeOK, OneCopy and Projected: a target is listed or         *)
(* remembered, never both, and all its coordinates are of the projection   *)
(* in use, whatever the store is fed.                                      *)
StoreSound ==
  /\ question = "trails" => Trails!TypeOK /\ Trails!OneCopy /\ Trails!Projected
  /\ question = "samples" => Samples!TypeOK
  /\ question = "drags" => Drags!TypeOK

(* TrackStore.SamplesOrdered, Picture.TrailForward and FlightsApart:       *)
(* samples are of distinct times, oldest first, a trail runs forward and   *)
(* lapses, and a track is of one flight of the target.                     *)
Ordered ==
  /\ question = "picture" => FlightsApart
  /\ question = "samples" => Samples!SamplesOrdered
  /\ question = "brief" => Brief!TrailForward

(* TrackStore.OperatorKept, and Board.HoverTrue, LinesApart and PromptTrue: *)
(* what the operator did stands, a block dragged, an aircraft pointed at,   *)
(* a line drawn, whatever is listed in the meantime.                        *)
OperatorKept == (question = "drags" => Drags!OperatorKept) /\ BoardTrue

(* Layers.ShownAsSaid and RowsAgree, and Paths.LinesDrawn: what is shown   *)
(* of the chart is what the operator last said, and what the rows say; and *)
(* an edge of it is drawn once, and lines along it agree.                  *)
ChartTrue ==
  /\ question = "layers" => Listing!TypeOK /\ Listing!ShownAsSaid /\ Listing!RowsAgree
  /\ question = "lines" => Lines!TypeOK /\ Lines!LinesDrawn

(* Board.DeletesNamed and EndsAsDrawn: a menu takes the line it named, and *)
(* a line ends where it was drawn to.                                      *)
AsShown == LinesStand
=============================================================================
