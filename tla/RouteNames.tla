----------------------------- MODULE RouteNames -----------------------------
(***************************************************************************)
(* The names along the routes of the chart: which span of a route says     *)
(* which names, which way the chevrons of its one-way routes point, and    *)
(* what a route that is lit says instead.  A label is shown from a tenth   *)
(* more than the room it needs, hidden below it, and between keeps what it *)
(* was, which a memory of each span holds from one build to the next.      *)
(*                                                                         *)
(* A vertex is its place on a line that reads onwards, and names are       *)
(* numbers, in their order; a chevron alone has no name, NoName.  Where a  *)
(* label is put, its colours and the order labels are drawn in are left    *)
(* out.  No span is a loop, which has one start whichever way it is flown. *)
(***************************************************************************)
EXTENDS Integers, SequencesExt, FiniteSetsExt, TLC

CONSTANTS
  LAYER_TABLE,  \* of a layer: its rank, its kind, and the density its label is from, or Unlabelled
  PARTS,        \* of a part: the vertices of its path, and whether it is flown one way
  ITEMS,        \* of an item: its layer, its name and its parts
  PATHS,        \* the parts with a path, front first
  WidthOf,      \* of each name
  Cuts,         \* what may stop the routes: of vertices, how far they are cut back
  DENSITIES, SCALES,
  SEPARATOR_PX, CHEVRON_SLOT_PX, CHEVRON_CLEAR_PX, MARGIN_PX,
  NoName, Unlabelled

RouteNamesAssumption ==
  /\ SCALES \subseteq Nat \ {0} /\ DENSITIES \subseteq Nat
  /\ \A d \in DOMAIN PARTS : PARTS[d].vertices[1] # Last(PARTS[d].vertices)
  /\ {SEPARATOR_PX, CHEVRON_SLOT_PX, CHEVRON_CLEAR_PX, MARGIN_PX} \subseteq Nat

VARIABLES
  input,   \* the items that draw, what stops the routes, the density and the settled scale
  shown,   \* the memory: of a span's name and of its chevron, whether it was shown
  labels   \* the chart's, by span

vars == <<input, shown, labels>>

CHEVRON_PX == CHEVRON_SLOT_PX + CHEVRON_CLEAR_PX
CHEVRON_ROOM_PX == CHEVRON_SLOT_PX + MARGIN_PX

(* Mutated: a label in between is as it has room, whatever it was. *)
FitsAnew(room, threshold, memory, key) == room >= threshold
Fits(room, threshold, memory, key) ==
  \/ room * 10 >= threshold * 11
  \/ room >= threshold /\ (key \in DOMAIN memory => memory[key])

-----------------------------------------------------------------------------
(* The spans of a path between the stops, in order, and the label of one.  *)
RouteSpans(d, cuts) ==
  LET vs == PARTS[d].vertices
      ends == SetToSortSeq({1, Len(vs)} \cup {i \in DOMAIN vs : vs[i] \in DOMAIN cuts}, <)
      cutAt(i) == IF vs[i] \in DOMAIN cuts THEN cuts[vs[i]] ELSE 0
  IN [k \in 1 .. Len(ends) - 1 |->
        [vs |-> SubSeq(vs, ends[k], ends[k + 1]),
         cut |-> cutAt(ends[k]) + cutAt(ends[k + 1])]]
SpanIdentity(span) == {span.vs, Reverse(span.vs)}

Abs(x) == IF x < 0 THEN -x ELSE x
Reach(vs, i) == FoldLeft(LAMBDA sum, j : sum + Abs(vs[j + 1] - vs[j]), 0,
                         [j \in 1 .. i - 1 |-> j])
Length(vs) == Reach(vs, Len(vs))
(* The edge half-way along it, and whether its label reads against it. *)
MiddleOf(vs) == Max({i \in 1 .. Len(vs) - 1 : i = 1 \/ 2 * Reach(vs, i) <= Length(vs)})
Flipped(vs) == vs[MiddleOf(vs) + 1] < vs[MiddleOf(vs)]

EmptyLabel(span) == [span |-> span, designators |-> <<>>, named |-> FALSE]
LabelOf(spanLabels, span) ==
  IF SpanIdentity(span) \in DOMAIN spanLabels THEN spanLabels[SpanIdentity(span)]
  ELSE EmptyLabel(span)
RoomOf(label, scale) == Length(label.span.vs) * scale - label.span.cut

(* A designator of a part, as its chevron points along a label. *)
KeyOf(d) == CHOOSE k \in DOMAIN ITEMS : d \in Range(ITEMS[k].parts)
LayerOf(d) == LAYER_TABLE[ITEMS[KeyOf(d)].layer]
Designator(d, name) ==
  [key |-> KeyOf(d), name |-> name, rank |-> LayerOf(d).rank, oneWay |-> PARTS[d].oneWay]
HasLabel(d) == LayerOf(d).from # Unlabelled
LabelReaches(d, density) == HasLabel(d) /\ density >= LayerOf(d).from
DesignatorOf(d) == Designator(d, ITEMS[KeyOf(d)].name)
ChevronOf(d) == Designator(d, NoName)

(* Mutated: a route is taken to be flown as the label's first is. *)
PlacedAsFirst(designator, span, label) ==
  [key |-> designator.key, name |-> designator.name, rank |-> designator.rank,
   oneWay |-> designator.oneWay, reads |-> ~Flipped(label.span.vs)]
Placed(designator, span, label) ==
  [key |-> designator.key, name |-> designator.name, rank |-> designator.rank,
   oneWay |-> designator.oneWay,
   reads |-> (Head(span.vs) = Head(label.span.vs)) # Flipped(label.span.vs)]
PointsLike(d, placed) == d.oneWay /\ d.reads = placed.reads

AdvanceOf(d) ==
  IF d.name = NoName THEN CHEVRON_SLOT_PX
  ELSE WidthOf[d.name] + (IF d.oneWay THEN CHEVRON_PX ELSE 0)
WidthOfLabel(ds) ==
  FoldLeft(LAMBDA sum, d : sum + AdvanceOf(d), 0, ds) + SEPARATOR_PX * Max({0, Len(ds) - 1})
IsNamed(d) == d.name # NoName
ThresholdOf(ds) == WidthOfLabel(SelectSeq(ds, IsNamed)) + MARGIN_PX

(* In the order of the stack, then by name, then as they came. *)
ByStack(ds) ==
  LET first(i, j) ==
        \/ ds[i].rank < ds[j].rank
        \/ ds[i].rank = ds[j].rank /\ ds[i].name < ds[j].name
        \/ ds[i].rank = ds[j].rank /\ ds[i].name = ds[j].name /\ i < j
      order == SetToSortSeq(DOMAIN ds, first)
  IN [i \in DOMAIN ds |-> ds[order[i]]]

-----------------------------------------------------------------------------
(* The labels of the chart.                                                *)
DrawnPaths(in) == SelectSeq(PATHS, LAMBDA d : KeyOf(d) \in in.drawn)
(* The paths of parts and their spans, in order. *)
SpansOfParts(parts, cuts) ==
  FlattenSeq([i \in DOMAIN parts |->
    [k \in DOMAIN RouteSpans(parts[i], cuts) |->
      [d |-> parts[i], span |-> RouteSpans(parts[i], cuts)[k]]]])
SpansOfItem(key, cuts) ==
  SpansOfParts(SelectSeq(ITEMS[key].parts, LAMBDA d : d \in Range(PATHS)), cuts)

Labelled(spanLabels, label) == SpanIdentity(label.span) :> label @@ spanLabels
With(label, placed) == [label EXCEPT !.designators = Append(@, placed)]

(* Every airway that draws, on every span it runs along, once a name. *)
AirwayLabels(in) ==
  LET airways == SelectSeq(DrawnPaths(in), LAMBDA d :
                   LayerOf(d).kind = "airway" /\ LabelReaches(d, in.density))
      add(spanLabels, at) ==
        LET label == LabelOf(spanLabels, at.span)
            placed == Placed(DesignatorOf(at.d), at.span, label)
            present == \E d \in Range(label.designators) :
                         d.name = placed.name /\ d.rank = placed.rank
        IN Labelled(spanLabels, IF present THEN label ELSE With(label, placed))
  IN FoldLeft(add, <<>>, SpansOfParts(airways, in.cuts))

Settled(memory, label, scale) ==
  Fits(RoomOf(label, scale), ThresholdOf(label.designators), memory,
       <<"name", SpanIdentity(label.span)>>)
SettleAirways(spanLabels, memory, in) ==
  LET named == [id \in DOMAIN spanLabels |-> Settled(memory, spanLabels[id], in.scale)]
  IN [labels |-> [id \in DOMAIN spanLabels |-> [spanLabels[id] EXCEPT !.named = named[id]]],
      shown |-> [key \in {<<"name", id>> : id \in DOMAIN spanLabels} |-> named[key[2]]]
                  @@ memory]

ProcedureItems(in) ==
  LET keys == {k \in in.drawn : LAYER_TABLE[ITEMS[k].layer].kind = "procedure"}
      rank(k) == LAYER_TABLE[ITEMS[k].layer].rank
  IN SetToSortSeq(keys, LAMBDA j, k :
       rank(j) < rank(k) \/ (rank(j) = rank(k) /\ ITEMS[j].name < ITEMS[k].name))

(* A procedure is named on the first span with room for it and all that is *)
(* along it; one it fails remembers whether it says its label as it was.   *)
NameOn(acc, at, in, more) ==
  LET label == LabelOf(acc.labels, at.span)
      placed == With(label, Placed(DesignatorOf(at.d), at.span, label))
      fit == Settled(acc.shown, placed, in.scale)
      made == IF fit THEN [placed EXCEPT !.named = TRUE] ELSE label
  IN IF acc.done \/ ~LabelReaches(at.d, in.density) THEN acc
     ELSE [labels |-> Labelled(acc.labels, made),
           shown |-> <<"name", SpanIdentity(at.span)>> :> made.named @@ acc.shown,
           done |-> fit /\ ~more]
(* Mutated: it is named on every span with room. *)
NameProcedureAgain(acc, key, in) ==
  FoldLeft(LAMBDA a, at : NameOn(a, at, in, TRUE),
           [labels |-> acc.labels, shown |-> acc.shown, done |-> FALSE],
           SpansOfItem(key, in.cuts))
NameProcedure(acc, key, in) ==
  FoldLeft(LAMBDA a, at : NameOn(a, at, in, FALSE),
           [labels |-> acc.labels, shown |-> acc.shown, done |-> FALSE],
           SpansOfItem(key, in.cuts))

(* A chevron of every one-way route that draws, at any density, beside what *)
(* its span says, once a way.                                               *)
PutChevron(acc, at, scale) ==
  LET label == LabelOf(acc.labels, at.span)
      key == <<"chevron", SpanIdentity(at.span)>>
      fit == Fits(RoomOf(label, scale), CHEVRON_ROOM_PX, acc.shown, key)
      placed == Placed(ChevronOf(at.d), at.span, label)
      new == fit /\ \A d \in Range(label.designators) : ~PointsLike(d, placed)
  IN [labels |-> Labelled(acc.labels, IF new THEN With(label, placed) ELSE label),
      shown |-> key :> fit @@ acc.shown]
PutChevrons(acc, in) ==
  FoldLeft(LAMBDA a, at : PutChevron(a, at, in.scale), acc,
           SpansOfParts(SelectSeq(DrawnPaths(in), LAMBDA d : PARTS[d].oneWay), in.cuts))

(* Those that are not named say nothing; and those that say nothing are    *)
(* not drawn, and the others say it in the order of the stack.             *)
Kept(acc) ==
  [acc EXCEPT !.labels = [id \in DOMAIN acc.labels |->
     IF acc.labels[id].named THEN acc.labels[id]
     ELSE [acc.labels[id] EXCEPT !.designators = <<>>]]]
Drawn(acc) ==
  [acc EXCEPT !.labels = [id \in {i \in DOMAIN acc.labels : acc.labels[i].designators # <<>>} |->
     [acc.labels[id] EXCEPT !.designators = ByStack(@)]]]
NameProcedures(acc, in) ==
  FoldLeft(LAMBDA a, key : NameProcedure(a, key, in), acc, ProcedureItems(in))
Build(in, memory) ==
  Drawn(PutChevrons(Kept(NameProcedures(SettleAirways(AirwayLabels(in), memory, in), in)), in))

-----------------------------------------------------------------------------
(* The labels of a route that is lit: the chart's, with its name where it  *)
(* fits as the chart's would, by a memory that lighting never writes.      *)
LitAs(key, at, label, placed) ==
  LET others == SelectSeq(label.designators, LAMBDA d :
                  d.key # key /\ ~(placed.oneWay /\ ~IsNamed(d) /\ PointsLike(d, placed)))
      pointed == placed.oneWay /\ Fits(RoomOf(label, input.scale), CHEVRON_ROOM_PX, shown,
                                       <<"chevron", SpanIdentity(at.span)>>)
      saying(d) == [label EXCEPT !.designators = ByStack(Append(others, d))]
      unnamed == IF pointed THEN saying([placed EXCEPT !.name = NoName])
                 ELSE [label EXCEPT !.designators = others]
  IN [unnamed |-> unnamed, named |-> IF IsNamed(placed) THEN saying(placed) ELSE unnamed]
LitSpan(key, at) ==
  LET label == LabelOf(labels, at.span)
      designator == IF HasLabel(at.d) THEN DesignatorOf(at.d) ELSE ChevronOf(at.d)
  IN LitAs(key, at, label, Placed(designator, at.span, label))

LitSpans(key) ==
  LET all == SelectSeq(SpansOfItem(key, input.cuts), LAMBDA at : HasLabel(at.d) \/ PARTS[at.d].oneWay)
      first == SetToSortSeq({i \in DOMAIN all :
                 \A j \in 1 .. i - 1 : SpanIdentity(all[j].span) # SpanIdentity(all[i].span)}, <)
  IN [i \in DOMAIN first |-> LitSpan(key, all[first[i]])]

NamesItem(label, key) == \E d \in Range(label.designators) : d.key = key /\ IsNamed(d)
NamedOnce(spans, key) ==
  LET listed == SelectSeq(spans, LAMBDA s :
                  NamesItem(LabelOf(labels, s.named.span), key))
  IN IF listed # <<>> THEN listed ELSE SubSeq(spans, 1, Min({1, Len(spans)}))

RoomyOf(key, spans) ==
  LET roomy == SelectSeq(spans, LAMBDA at : Settled(shown, at.named, input.scale))
  IN IF LAYER_TABLE[ITEMS[key].layer].kind = "procedure" THEN NamedOnce(roomy, key) ELSE roomy
LabelsOf(spans, lit) ==
  {label \in {IF at \in Range(lit) THEN at.named ELSE at.unnamed : at \in Range(spans)} :
     label.designators # <<>>}
ItemLabels(key) ==
  UNION {LabelsOf(spans, RoomyOf(key, spans)) : spans \in {LitSpans(key)}}

-----------------------------------------------------------------------------
(* Whatever labels read changes, and they are built anew. *)
Rebuild(in) ==
  /\ in # input
  /\ input' = in
  /\ \E built \in {Build(in, shown)} : labels' = built.labels /\ shown' = built.shown

Toggled(key) == [input EXCEPT !.drawn = SymDiff(@, {key})]
Stopped(cuts) == [input EXCEPT !.cuts = cuts]
Densely(density) == [input EXCEPT !.density = density]
Zoomed(scale) == [input EXCEPT !.scale = scale]

Init ==
  /\ \E cuts \in Cuts, density \in DENSITIES, scale \in SCALES :
       input = [drawn |-> {}, cuts |-> cuts, density |-> density, scale |-> scale]
  /\ labels = <<>> /\ shown = <<>>

Next ==
  \E in \in {Toggled(key) : key \in DOMAIN ITEMS} \cup {Stopped(cuts) : cuts \in Cuts}
              \cup {Densely(density) : density \in DENSITIES} \cup {Zoomed(scale) : scale \in SCALES} :
    Rebuild(in)

Spec == Init /\ [][Next]_vars

-----------------------------------------------------------------------------
NamesIn(label) == {<<d.key, d.name>> : d \in {x \in Range(label.designators) : IsNamed(x)}}
NamesAt(id) == IF id \in DOMAIN labels THEN NamesIn(labels[id]) ELSE {}
SpansAlong(key) == {at.span : at \in Range(SpansOfItem(key, input.cuts))}

(* What a span says has room there, its airways and its procedures         *)
(* together, and lit as well (fits.ts:10).                                  *)
LabelFits(lit) ==
  \A label \in Range(labels) \cup UNION Range(lit) :
    NamesIn(label) # {} => RoomOf(label, input.scale) >= ThresholdOf(label.designators)

(* A procedure that draws is named on one span of it, or on none if none   *)
(* has room and a tenth for it beside the airways there; lit, it is named  *)
(* where it is already, and nowhere besides (spanDesignators.ts:203).      *)
ProceduresOnce(lit) ==
  \A key \in DOMAIN ITEMS : LAYER_TABLE[ITEMS[key].layer].kind = "procedure" =>
    LET on == {id \in DOMAIN labels : NamesItem(labels[id], key)}
        lights == {SpanIdentity(label.span) : label \in {l \in lit[key] : NamesItem(l, key)}}
    IN /\ Cardinality(on) <= 1 /\ Cardinality(lights) <= 1
       /\ on # {} => lights = on

(* A chevron points the way a one-way route of its item runs the middle of *)
(* its span, and each that draws has one there its way if there is room    *)
(* and a tenth for it; no chevron alone says again what another says.      *)
Runs(d, label, reads) ==
  LET vs == IF Flipped(label.span.vs) = reads THEN Reverse(label.span.vs) ELSE label.span.vs
      at == PARTS[d].vertices
  IN \E i \in 1 .. Len(at) - Len(vs) + 1 : SubSeq(at, i, i + Len(vs) - 1) = vs
ChevronsTrue ==
  /\ \A label \in Range(labels) :
       /\ \A i \in DOMAIN label.designators :
            LET chevron == label.designators[i] IN chevron.oneWay =>
            /\ chevron.key \in input.drawn
            /\ \E d \in Range(ITEMS[chevron.key].parts) :
                 PARTS[d].oneWay /\ Runs(d, label, chevron.reads)
            /\ ~IsNamed(chevron) => \A j \in DOMAIN label.designators \ {i} :
                 ~PointsLike(label.designators[j], chevron)
  /\ \A d \in {x \in Range(DrawnPaths(input)) : PARTS[x].oneWay} :
       \A span \in Range(RouteSpans(d, input.cuts)) :
         LET label == LabelOf(labels, span) IN
         RoomOf(label, input.scale) * 10 >= CHEVRON_ROOM_PX * 11 =>
           \E chevron \in Range(label.designators) :
             chevron.oneWay /\ Runs(d, label, chevron.reads)

(* Where the chart names an item, the item lit is named too, and what else *)
(* the span says stays said, whatever draws (spanDesignators.ts:253).      *)
LitAgrees(lit) ==
  \A key \in DOMAIN ITEMS :
    /\ \A id \in DOMAIN labels : NamesItem(labels[id], key) =>
         \E label \in lit[key] : SpanIdentity(label.span) = id /\ NamesIn(label) = NamesAt(id)
    /\ \A label \in lit[key] :
         {named \in NamesIn(label) : named[1] # key} =
           {named \in NamesAt(SpanIdentity(label.span)) : named[1] # key}

(* Of the labels of each item that is lit. *)
RouteNamesTrue ==
  /\ ChevronsTrue
  /\ \A lit \in {[key \in DOMAIN ITEMS |-> ItemLabels(key)]} :
       LabelFits(lit) /\ ProceduresOnce(lit) /\ LitAgrees(lit)

(* As the chart zooms within a tenth of the room that the airways of a     *)
(* span need, the span does not come to say them, or to leave them out     *)
(* (fits.ts:13), where no procedure runs along it.                         *)
AirwaysKeep ==
  \A label \in Range(AirwayLabels(input)) :
    LET id == SpanIdentity(label.span)
        room == RoomOf(label, input'.scale)
        threshold == ThresholdOf(label.designators)
    IN (/\ input'.scale # input.scale
        /\ room >= threshold /\ room * 10 < threshold * 11
        /\ \A key \in input.drawn : LAYER_TABLE[ITEMS[key].layer].kind = "procedure" =>
             \A span \in SpansAlong(key) : SpanIdentity(span) # id)
       => (NamesAt(id) = {}) = (NamesAt(id)' = {})
AirwaysSteady == [][AirwaysKeep]_vars
=============================================================================
