------------------------------ MODULE MCScene ------------------------------
(***************************************************************************)
(* What draws the scope and what is named on it: the two workers of the    *)
(* page, the placer's and the renderer's, the slides of the blocks, the    *)
(* names of the chart, and the file a set of it is read from.  They share  *)
(* nothing here: one is run at a time, and the others stand at their       *)
(* start.                                                                  *)
(***************************************************************************)
EXTENDS Placer, Renderer, TLC

CONSTANT Unfiled   \* a limit, a footprint or a room that there is not

VARIABLES naming, chartInput, namesShown, routeLabels, areaBlocks, areaNames

nameVars == <<naming, chartInput, namesShown, routeLabels, areaBlocks, areaNames>>

(* Two airways along one line against each other, one of them one-way, a   *)
(* procedure along either half of it, and a one-way route with no label;   *)
(* a point that stops them between the halves.  Scales at which a half and *)
(* the whole have room, have not, or are in between for each of the names. *)
Along == INSTANCE RouteNames WITH
  input <- chartInput, shown <- namesShown, labels <- routeLabels,
  LAYER_TABLE <- [airway |-> [rank |-> 3, kind |-> "airway", from |-> 1],
                  sid |-> [rank |-> 1, kind |-> "procedure", from |-> 2],
                  vfr |-> [rank |-> 5, kind |-> "other", from |-> Unfiled]],
  PARTS <- [q1 |-> [vertices |-> <<1, 2, 4>>, oneWay |-> FALSE],
            q2 |-> [vertices |-> <<4, 2, 1>>, oneWay |-> TRUE],
            q3 |-> [vertices |-> <<2, 4>>, oneWay |-> TRUE],
            q4 |-> [vertices |-> <<1, 2>>, oneWay |-> FALSE],
            q5 |-> [vertices |-> <<4, 2>>, oneWay |-> TRUE]],
  ITEMS <- [a1 |-> [layer |-> "airway", name |-> 1, parts |-> <<"q1">>],
            a2 |-> [layer |-> "airway", name |-> 2, parts |-> <<"q2">>],
            s1 |-> [layer |-> "sid", name |-> 3, parts |-> <<"q4", "q3">>],
            v1 |-> [layer |-> "vfr", name |-> 4, parts |-> <<"q5">>]],
  PATHS <- <<"q3", "q4", "q1", "q2", "q5">>,
  WidthOf <- <<20, 30, 24, 20>>,
  Cuts <- {<<>>, 2 :> 6}, DENSITIES <- {0, 2}, SCALES <- {26, 35, 55},
  SEPARATOR_PX <- 9, CHEVRON_SLOT_PX <- 7, CHEVRON_CLEAR_PX <- 3, MARGIN_PX <- 28,
  NoName <- 0, Unlabelled <- Unfiled

Stands(footprint, room) == [footprint |-> footprint, room |-> room]
Limits(lower, upper) == [lower |-> lower, upper |-> upper]
Area(layer, name, parts, frequency, place) ==
  [layer |-> layer, name |-> name, parts |-> parts, frequency |-> frequency, place |-> place]

(* A sector, two areas of one footprint, and a line that has none. *)
Inside == INSTANCE AreaNames WITH
  input <- chartInput, shown <- namesShown, blocks <- areaBlocks,
  LAYERS <- <<"sector", "tma">>, FromOf <- [sector |-> 1, tma |-> 2],
  AREAS <- [s1 |-> Area("sector", 1, {Limits(Unfiled, 195)}, TRUE, Stands("f", 2)),
            t1 |-> Area("tma", 3, {Limits(15, 65), Limits(25, 115)}, FALSE, Stands("f", 2)),
            t2 |-> Area("tma", 1, {Limits(115, 195)}, FALSE, Stands("f", 2)),
            t3 |-> Area("tma", 2, {Limits(Unfiled, Unfiled)}, FALSE, Stands(Unfiled, Unfiled))],
  WidthOf <- <<60, 40, 52>>, DETAIL_WIDTH <- 30, LIMIT_WIDTH <- 36,
  DENSITIES <- {1, 3}, DENSE <- 3, SCALES <- {9, 14, 16, 30},
  UPPER_Y <- 20, RULE_Y <- 31, LOWER_Y <- 42, ROW_PX <- 24, DETAIL_GAP_PX <- 12,
  SURFACE <- 0, UNLIMITED <- 999, None <- Unfiled

NamesAssumption == Along!RouteNamesAssumption /\ Inside!AreaNamesAssumption

NamesInit(n) ==
  /\ naming = n
  /\ IF n = "areas" THEN Inside!Init ELSE areaBlocks = 0 /\ areaNames = 0
  /\ IF n = "routes" THEN Along!Init ELSE routeLabels = 0
  /\ n = "none" => chartInput = 0 /\ namesShown = 0
NamesNext ==
  /\ UNCHANGED naming
  /\ \/ naming = "routes" /\ Along!Next /\ UNCHANGED <<areaBlocks, areaNames>>
     \/ naming = "areas" /\ Inside!Next /\ UNCHANGED routeLabels

-----------------------------------------------------------------------------

CONSTANTS None, p1, p2   \* none, and targets

CONSTANT Malformed     \* a value that does not fit

VARIABLES setFile, fileSets, filesStored, fileJobs, fileNote, armedSet, filesPicked

fileVars ==
  <<setFile, fileSets, filesStored, fileJobs, fileNote, armedSet, filesPicked>>

Filed(properties, geometry) == [properties |-> properties, geometry |-> geometry]
At(place) == [type |-> "Point", coordinates |-> place]
Fix == [layer |-> "fix", id |-> "p"]
Ctr == [layer |-> "ctr", name |-> 1]
CtrArea ==   \* its first ring is left open
  Filed(Ctr, [type |-> "Polygon", coordinates |-> <<<<1, 2, 3, 4>>, <<1, 2, 3, 1>>>>])
Navaid == Filed([Fix EXCEPT !.layer = "navaid"], At(2))
Plain == [type |-> "FeatureCollection", version |-> 2, title |-> "t", features |-> <<>>]
Named == [id |-> "s"] @@ Plain

(* A file of up to three Features of ten kinds: points of one id in three  *)
(* layers, one with a member too many, one with none, and one of a layer   *)
(* that is not a set's; an area, plain and with a frequency twice; a hold  *)
(* with no course; a route.                                                *)
Filing == INSTANCE SetFile WITH
  file <- setFile, sets <- fileSets, stored <- filesStored, jobs <- fileJobs,
  note <- fileNote, armed <- armedSet, picks <- filesPicked,
  Untitled <- "untitled", BUILTIN_ID <- "builtin", MaxFeatures <- 3, MaxPicks <- 2,
  Features <- {Filed(Fix, At(1)), Navaid, Filed([Fix EXCEPT !.layer = "vfr"], At(3)),
               Filed([turn |-> "L"] @@ Fix, At(4)), Filed(None, At(1)),
               Filed([layer |-> "coast"], At(1)),
               CtrArea, [CtrArea EXCEPT !.properties = [freqs |-> <<1, 1>>] @@ @],
               Filed([layer |-> "hold", turn |-> "L"], At(1)),
               Filed([layer |-> "conv", name |-> 1],
                     [type |-> "LineString", coordinates |-> <<1, 2>>])},
  Roots <- {Plain, Named, [version |-> 3] @@ Plain, [title |-> Malformed] @@ Named,
            [id |-> Malformed] @@ Named, [bbox |-> 1] @@ Plain,
            [bbox |-> Malformed, note |-> 2] @@ Plain,
            [features |-> Malformed] @@ Plain, [id |-> "builtin"] @@ Plain},
  Picks <- {[Plain EXCEPT !.features = <<CtrArea>>],
            [Named EXCEPT !.features = <<Filed(Fix, At(1)), Navaid>>],
            Named, [Named EXCEPT !.features = <<Filed(Fix, At(1))>>],
            [id |-> "builtin"] @@ Plain, Plain, [version |-> 3] @@ Plain}

FileInit(read) ==
  IF read THEN Filing!Init
  ELSE /\ setFile = 0 /\ fileSets = <<>> /\ filesStored = <<>> /\ fileJobs = <<>>
       /\ fileNote = None /\ armedSet = None /\ filesPicked = 0

VARIABLES part,
          targets, sent, blocks, moves, framing, labelDrag, grabbed, draws

Sliding == INSTANCE Blocks WITH
  tracks <- targets, changes <- draws,
  Hexes <- {p1, p2}, Dirs <- {4}, Lines <- {0, 1}, Drops <- {<<-6, -70>>},
  LEADER <- 26, DIAGONAL <- 19, DB_WIDTH <- 80, DB_HEIGHT <- 26, DB_LINE <- 12,
  MOVE_MS <- 2, MaxChanges <- 2

ASSUME SceneAssumption ==
  Sliding!BlocksAssumption /\ NamesAssumption /\ Filing!SetFileAssumption

blockVars == <<targets, sent, blocks, moves, framing, labelDrag, grabbed, draws>>
mcVars == <<part, vars, rendererVars, blockVars, nameVars, fileVars>>

MCInit ==
  /\ part \in {"placer", "renderer", "blocks", "names", "file"}
  /\ Init /\ RendererInit
  /\ Sliding!Init /\ (part = "blocks" \/ targets[p1].lines = 0)
  /\ IF part = "names" THEN \E of \in {"routes", "areas"} : NamesInit(of)
     ELSE NamesInit("none")
  /\ FileInit(part = "file")

OfPlacer(A) ==
  part = "placer" /\ A /\ UNCHANGED <<part, rendererVars, blockVars, nameVars, fileVars>>
OfRenderer(A) ==
  part = "renderer" /\ A /\ UNCHANGED <<part, vars, blockVars, nameVars, fileVars>>
OfBlocks(A) ==
  part = "blocks" /\ A /\ UNCHANGED <<part, vars, rendererVars, nameVars, fileVars>>
OfNames(A) ==
  part = "names" /\ A /\ UNCHANGED <<part, vars, rendererVars, blockVars, fileVars>>
OfFile(A) ==
  part = "file" /\ A /\ UNCHANGED <<part, vars, rendererVars, blockVars, nameVars>>

MCNext ==
  \/ OfPlacer(Next) \/ OfRenderer(RendererNext) \/ OfBlocks(Sliding!Next)
  \/ OfNames(NamesNext) \/ OfFile(Filing!Next)

(* The fairness of each, as its module has it: answers come, and frames. *)
Answered == \E h \in {p1, p2} : Sliding!Placed(h, 4)
MCFairSpec ==
  /\ MCInit /\ [][MCNext]_mcVars
  /\ WF_mcVars(OfPlacer(Answer)) /\ WF_mcVars(OfPlacer(Settle))
  /\ WF_mcVars(OfRenderer(HearReady)) /\ WF_mcVars(OfRenderer(HearLost))
  /\ WF_mcVars(OfRenderer(Frame)) /\ WF_mcVars(OfRenderer(WorkerTakes))
  /\ WF_mcVars(OfBlocks(Sliding!Tick)) /\ WF_mcVars(OfBlocks(Sliding!Frame))
  /\ WF_mcVars(OfBlocks(Answered))

-----------------------------------------------------------------------------
(* RouteNames.RouteNamesTrue and AreaNames.AreaNamesTrue: what the chart   *)
(* names has room, once, its chevrons point the ways flown, and an item    *)
(* that is lit says so where the chart does.                               *)
NamesTrue ==
  /\ naming = "routes" => Along!RouteNamesTrue
  /\ naming = "areas" => Inside!AreaNamesTrue

(* RouteNames.AirwaysSteady and AreaNames.StacksSteady: names do not come  *)
(* and go within a tenth of the room they need.                            *)
NamesSteady ==
  [][/\ naming = "routes" => Along!AirwaysKeep
     /\ naming = "areas" => Inside!StacksKeep]_nameVars

(* Blocks.BlocksTrue, NamesTrue and SetFile.ReadTrue: blocks are clear of  *)
(* their targets, and slide while there are frames to come; the chart      *)
(* names what has room, once; and a file reads the same strictly and       *)
(* leniently but for what the one refuses and the other leaves out.        *)
DrawnTrue ==
  /\ part = "blocks" => Sliding!BlocksTrue
  /\ NamesTrue
  /\ part = "file" => Filing!ReadTrue

(* Renderer.SceneIsDrawn, Blocks.Rest and NeverLeaps, NamesSteady and      *)
(* SetFile.Kept: the scene as set last is drawn at last; a block moves on  *)
(* from where it was drawn, and comes to rest; names do not come and go as *)
(* the chart zooms within a tenth of the room they need (fits.ts:13); and  *)
(* a set leaves the list by a second click alone.                          *)
SceneDrawn ==
  /\ part = "renderer" => SceneIsDrawn
  /\ Sliding!Rest /\ Sliding!NeverLeaps
  /\ NamesSteady
  /\ [][part = "file" => Filing!Kept]_fileVars
=============================================================================
