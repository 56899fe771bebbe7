------------------------------ MODULE AreaNames ------------------------------
(***************************************************************************)
(* The names of the areas of the chart: each a block of rows, those of one *)
(* footprint stacked into one label that is shown or hidden as one, and    *)
(* the block of an area that is lit, which hangs off the name the chart    *)
(* drew.  Limits are in hundreds of feet, names are numbers in their order *)
(* and text has a width and no more.  All of the layout is in half pixels, *)
(* from the middle of the block, which is at the place of an area.         *)
(***************************************************************************)
EXTENDS Integers, SequencesExt, FiniteSetsExt, TLC

CONSTANTS
  LAYERS,      \* back first
  FromOf,      \* of each, the density its label is from
  AREAS,       \* of an area: its layer, its name, its parts' limits, its frequency, and its place
  WidthOf,     \* of each name
  DETAIL_WIDTH, LIMIT_WIDTH,
  DENSITIES, DENSE, SCALES,
  UPPER_Y, RULE_Y, LOWER_Y, ROW_PX, DETAIL_GAP_PX,
  SURFACE, UNLIMITED, None

AreaNamesAssumption ==
  /\ DENSE \in DENSITIES /\ SCALES \subseteq Nat \ {0}
  /\ \A a \in DOMAIN AREAS : AREAS[a].layer \in Range(LAYERS)
  /\ LOWER_Y % 2 = 0 /\ ROW_PX % 2 = 0 /\ SURFACE < UNLIMITED

VARIABLES
  input,      \* the areas that draw, the density and the settled scale
  shown,      \* the memory: of each stack, by its areas, whether it was shown
  blocks,     \* the blocks the chart draws: of which areas, and laid out how
  areaNames   \* where it drew each area's name

vars == <<input, shown, blocks, areaNames>>

(* As RouteNames.Fits, of half a width in a room. *)
FitsAnew(room, threshold, memory, key) == room >= threshold
Fits(room, threshold, memory, key) ==
  \/ room * 10 >= threshold * 11
  \/ room >= threshold /\ (key \in DOMAIN memory => memory[key])

-----------------------------------------------------------------------------
(* The limits of an area, over its parts; none filed is no limit there.    *)
LowerOf(part) == IF part.lower = None THEN SURFACE ELSE part.lower
UpperOf(part) == IF part.upper = None THEN UNLIMITED ELSE part.upper
BandOf(a) == [lower |-> Min({LowerOf(p) : p \in AREAS[a].parts}),
              upper |-> Max({UpperOf(p) : p \in AREAS[a].parts})]
HasFraction(a) == \E p \in AREAS[a].parts : p.lower # None \/ p.upper # None
HasStratum(a) == BandOf(a).lower > SURFACE \/ BandOf(a).upper < UNLIMITED

(* A block: its rows, each of an area, so wide and so far below the middle. *)
Abs(x) == IF x < 0 THEN -x ELSE x
RowOf(a, width, y) == [key |-> a, width |-> width, y |-> y]
DetailsOf(a) ==
  Cardinality({detail \in {"frequency", "stratum"} :
     IF detail = "frequency" THEN AREAS[a].frequency ELSE HasStratum(a)})
NameRow(a, density) ==
  LET details == IF AREAS[a].layer = "sector" /\ density = DENSE THEN DetailsOf(a) ELSE 0
  IN RowOf(a, WidthOf[AREAS[a].name] + details * (DETAIL_GAP_PX + DETAIL_WIDTH), 0)
Block(rows, rules) ==
  [rows |-> rows, rules |-> rules, width |-> Max({r.width : r \in Range(rows)})]
BlockOf(a, density) ==
  LET first == NameRow(a, density)
      top == -(LOWER_Y \div 2)
  IN IF AREAS[a].layer = "sector" \/ density # DENSE \/ ~HasFraction(a)
     THEN Block(<<first>>, {})
     ELSE Block(<<[first EXCEPT !.y = top], RowOf(a, LIMIT_WIDTH, top + UPPER_Y),
                  RowOf(a, LIMIT_WIDTH, top + LOWER_Y)>>, {top + RULE_Y})

HeightOf(block) ==
  LET ys == {r.y : r \in Range(block.rows)} IN Max(ys) - Min(ys) + ROW_PX
Shifted(block, by) ==
  [block EXCEPT !.rows = [i \in DOMAIN @ |-> [@[i] EXCEPT !.y = @ + by]],
                !.rules = {y + by : y \in @}]
(* Mutated: blocks are put a row apart, however high they are. *)
StackedByRow(bs) ==
  LET placed == [i \in DOMAIN bs |-> Shifted(bs[i], (i - 1) * ROW_PX - (Len(bs) * ROW_PX) \div 2)]
  IN Block(FlattenSeq([i \in DOMAIN bs |-> placed[i].rows]),
           UNION {placed[i].rules : i \in DOMAIN bs})
(* Blocks one under another, the whole about the middle. *)
StackedBlock(bs) ==
  LET until[i \in 0 .. Len(bs)] == IF i = 0 THEN 0 ELSE until[i - 1] + HeightOf(bs[i])
      middle(i) == (until[i - 1] + until[i] - until[Len(bs)]) \div 2
      placed == [i \in DOMAIN bs |-> Shifted(bs[i], middle(i))]
  IN Block(FlattenSeq([i \in DOMAIN bs |-> placed[i].rows]),
           UNION {placed[i].rules : i \in DOMAIN bs})

-----------------------------------------------------------------------------
(* Areas of one footprint, the lowest stratum first; one with none alone.  *)
MembersOf(layer, drawn) == {a \in drawn : AREAS[a].layer = layer /\ AREAS[a].place # None}
FootprintOf(a) == AREAS[a].place.footprint
StacksOf(members) ==
  LET lower(a) == BandOf(a).lower
      order(S) == SetToSortSeq(S, LAMBDA a, b :
        lower(a) < lower(b) \/ (lower(a) = lower(b) /\ AREAS[a].name < AREAS[b].name))
  IN {order(S) : S \in {{b \in members : b = a \/ (FootprintOf(a) # None /\ FootprintOf(b) = FootprintOf(a))} :
                          a \in members}}

Stacks(in) ==
  UNION {StacksOf(MembersOf(layer, in.drawn)) :
           layer \in {l \in Range(LAYERS) : in.density >= FromOf[l]}}
BlockOfStack(stack, density) ==
  StackedBlock([i \in DOMAIN stack |-> BlockOf(stack[i], density)])
(* It needs half its width about the first's place; a line has no edge. *)
StackFits(stack, in, memory) ==
  LET room == AREAS[stack[1]].place.room
  IN \/ room = None
     \/ Fits(2 * room * in.scale, BlockOfStack(stack, in.density).width, memory, Range(stack))

(* A name is at the first run of the first row of its area. *)
Anchor(of, px, py) == [of |-> of, px |-> px, py |-> py]
NameIn(block, a, of) ==
  LET row == block.rows[Min({i \in DOMAIN block.rows : block.rows[i].key = a})]
  IN Anchor(of, -row.width, 2 * row.y)

Build(in, memory) ==
  LET tested == {s \in Stacks(in) : AREAS[s[1]].place.room # None}
      drawn == {s \in Stacks(in) : StackFits(s, in, memory)}
      of(a) == CHOOSE s \in drawn : a \in Range(s)
  IN [blocks |-> {[stack |-> s, block |-> BlockOfStack(s, in.density)] : s \in drawn},
      names |-> [a \in UNION {Range(s) : s \in drawn} |->
                   NameIn(BlockOfStack(of(a), in.density), a, of(a)[1])],
      shown |-> [key \in {Range(s) : s \in tested} |->
                   \E s \in drawn : Range(s) = key] @@ memory]

(* Lit, an area says what it says at the densest: on its name, if the      *)
(* chart drew it, else about its place.                                    *)
(* Mutated: the block is put about the name, not from its first row. *)
PutAboutName(block, name) ==
  Anchor(name.of, name.px + Head(block.rows).width, name.py)
PutAtName(block, name) ==
  Anchor(name.of, name.px + Head(block.rows).width, name.py - 2 * Head(block.rows).y)
LitArea(a) ==
  LET block == BlockOf(a, DENSE)
  IN [block |-> block,
      at |-> IF a \in DOMAIN areaNames THEN PutAtName(block, areaNames[a]) ELSE Anchor(a, 0, 0)]

-----------------------------------------------------------------------------
Rebuild(in) ==
  /\ in # input
  /\ input' = in
  /\ \E built \in {Build(in, shown)} :
       blocks' = built.blocks /\ areaNames' = built.names /\ shown' = built.shown

Toggle(a) == Rebuild([input EXCEPT !.drawn = SymDiff(@, {a})])
SetDensity(density) == Rebuild([input EXCEPT !.density = density])
Zoom(scale) == Rebuild([input EXCEPT !.scale = scale])

Init ==
  \E density \in DENSITIES, scale \in SCALES :
    /\ input = [drawn |-> {}, density |-> density, scale |-> scale]
    /\ shown = <<>> /\ blocks = {} /\ areaNames = <<>>

Next ==
  \/ \E a \in DOMAIN AREAS : Toggle(a)
  \/ \E density \in DENSITIES : SetDensity(density)
  \/ \E scale \in SCALES : Zoom(scale)

Spec == Init /\ [][Next]_vars

-----------------------------------------------------------------------------
(* Areas of one layer and footprint are named all or none, in one block,   *)
(* the lowest at the top, and no row of one is within a row of another's;  *)
(* the block is about its place, as far above it as below, and fits in it. *)
StacksAsOne ==
  /\ \A a, b \in input.drawn :
       (AREAS[a].layer = AREAS[b].layer /\ AREAS[a].place # None /\ AREAS[b].place # None
          /\ FootprintOf(a) # None /\ FootprintOf(a) = FootprintOf(b)) =>
         /\ (a \in DOMAIN areaNames) = (b \in DOMAIN areaNames)
         /\ (a \in DOMAIN areaNames /\ BandOf(a).lower < BandOf(b).lower) =>
              areaNames[a].of = areaNames[b].of /\ areaNames[a].py < areaNames[b].py
  /\ \A drawn \in blocks :
       LET rows == Range(drawn.block.rows)
           ys == {r.y : r \in rows}
           room == AREAS[drawn.stack[1]].place.room
       IN /\ \A r, q \in rows : r.key # q.key => Abs(r.y - q.y) >= ROW_PX
          /\ Max(ys) + Min(ys) = 0
          /\ room # None => 2 * room * input.scale >= drawn.block.width

(* Lit, an area's name is where the chart drew it, whatever is said more   *)
(* (areaBlocks.ts:163).                                                    *)
LitNameStands ==
  \A a \in DOMAIN areaNames :
    LET lit == LitArea(a)
        row == Head(lit.block.rows)
    IN areaNames[a] = Anchor(lit.at.of, lit.at.px - row.width, lit.at.py + 2 * row.y)

AreaNamesTrue == StacksAsOne /\ LitNameStands

(* As the chart zooms within a tenth of the room a stack needs, it does    *)
(* not come to be shown, or to be hidden (fits.ts:13).                     *)
StacksKeep ==
  \A stack \in Stacks(input) :
    LET room == AREAS[stack[1]].place.room
        threshold == BlockOfStack(stack, input.density).width
    IN (/\ input'.scale # input.scale /\ room # None
        /\ 2 * room * input'.scale >= threshold
        /\ 20 * room * input'.scale < 11 * threshold)
       => (stack[1] \in DOMAIN areaNames) = (stack[1] \in DOMAIN areaNames')
StacksSteady == [][StacksKeep]_vars
=============================================================================
