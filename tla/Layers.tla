------------------------------- MODULE Layers -------------------------------
(***************************************************************************)
(* Which items of the chart are shown.  The chart is merged of the map     *)
(* sets that are there; a layer keeps whether it is shown and the keys of  *)
(* the items that go against that, those of items not in the chart too;    *)
(* the layer tree sets items, layers and groups of layers, or what a       *)
(* search keeps of them.  Which rows of the tree are open is left out, and *)
(* a term of a search is what it matches.                                  *)
(***************************************************************************)
EXTENDS Naturals, Sequences, FiniteSets, SequencesExt

CONSTANTS
  Groups,          \* the groups of the tree, each the set of its layers
  PointLayers,     \* the layers of which an item is a point
  DefaultShown,    \* the layers shown until the operator says otherwise
  Precedence,      \* the map sets, the first before the others
  Filed(_),        \* of a set, its features in order: layer, name and place
  Near(_, _),      \* whether two places are of one point
  Terms,           \* the terms of a search: the layers and names they match
  EXCEPTIONS_MAX

(* What the constants are taken to be, assumed where they are given values. *)
LayersAssumption ==
  /\ EXCEPTIONS_MAX \in Nat \ {0}
  /\ PointLayers \cup DefaultShown \subseteq UNION Groups
  /\ \A g, h \in Groups : g # h => g \cap h = {}

Layers == UNION Groups
Sets == Range(Precedence)

VARIABLES
  chart,       \* the keys of the items in the chart
  query,       \* the terms searched for
  shown,       \* of a layer, its mode
  exceptions,  \* of a layer, the keys of the items that go against it, oldest first
  said,        \* history: of a key, the last word of the operator
  vague        \* history: the keys of items that were not in the chart when the
               \* operator set all the items of their layer in it alike, or when
               \* exceptions had to be dropped

vars == <<chart, query, shown, exceptions, said, vague>>

Key(layer, name, at) == [layer |-> layer, name |-> name, at |-> at]
(* Of an item of a layer of which no set has any yet. *)
Later(l) == Key(l, 0, 0)

-----------------------------------------------------------------------------
(* The chart.  Features of one layer and name in a set are one item; of    *)
(* items of several sets that are one thing the first set's is kept.       *)
Naming(f) == <<f.layer, f.name>>
IsPoint(n) == n[1] \in PointLayers
NamesOf(s) == {Naming(f) : f \in Range(Filed(s))}
PartsOf(s, n) == SelectSeq(Filed(s), LAMBDA f : Naming(f) = n)
IsSameThing(s, t, n) ==
  IsPoint(n) => \E p \in Range(PartsOf(s, n)), q \in Range(PartsOf(t, n)) :
                  Near(p.at, q.at)

(* A point is told from another of its name by where it stands. *)
Keyed(s, n) == Key(n[1], n[2], IF IsPoint(n) THEN PartsOf(s, n)[1].at ELSE 0)

ChartOf(on) ==
  LET kept[i \in DOMAIN Precedence] ==
        IF Precedence[i] \notin on THEN {}
        ELSE {n \in NamesOf(Precedence[i]) :
                \A j \in 1 .. i - 1 :
                  n \in kept[j] => ~IsSameThing(Precedence[j], Precedence[i], n)}
  IN UNION {{Keyed(Precedence[i], n) : n \in kept[i]} : i \in DOMAIN Precedence}

(* The items of a layer as the tree lists them: by name. *)
TreeItems(l) ==
  SetToSortSeq({k \in chart : k.layer = l},
               LAMBDA a, b : a.name < b.name \/ (a.name = b.name /\ a.at < b.at))

Keys == UNION {{Keyed(s, n) : n \in NamesOf(s)} : s \in Sets}
KeysOf(l) == {k \in DOMAIN said : k.layer = l}

-----------------------------------------------------------------------------
Init ==
  /\ chart = {} /\ query = {}
  /\ shown = [l \in Layers |-> l \in DefaultShown]
  /\ exceptions = [l \in Layers |-> <<>>]
  /\ said = [k \in Keys \cup {Later(l) : l \in Layers} |-> k.layer \in DefaultShown]
  /\ vague = {}

LayerState(l) == [mode |-> shown[l], exceptions |-> exceptions[l]]
IsItemShown(state, key) == state.mode # (key \in Range(state.exceptions))
EveryItemSet(on) == [mode |-> on, exceptions |-> <<>>]

(* While there are too many, those of items not in the chart are dropped,  *)
(* the oldest first.                                                       *)
Capped(keys, present) ==
  LET absent == {i \in DOMAIN keys : keys[i] \notin present}
      dropped == {keys[i] : i \in {j \in absent :
                    Cardinality({h \in absent : h <= j}) <= Len(keys) - EXCEPTIONS_MAX}}
  IN SelectSeq(keys, LAMBDA k : k \notin dropped)

(* Mutated: the oldest are dropped, in the chart or not. *)
CappedAny(keys, present) ==
  IF Len(keys) <= EXCEPTIONS_MAX THEN keys
  ELSE SubSeq(keys, Len(keys) - EXCEPTIONS_MAX + 1, Len(keys))

(* Items are set one way; when all of the chart then go against the mode,  *)
(* the mode flips.                                                         *)
ItemsSetTo(state, keys, on, present) ==
  LET others == SelectSeq(state.exceptions, LAMBDA k : k \notin Range(keys))
      next == IF on # state.mode THEN others \o keys ELSE others
  IN IF present \subseteq Range(next) THEN EveryItemSet(~state.mode)
     ELSE [mode |-> state.mode, exceptions |-> Capped(next, present)]

-----------------------------------------------------------------------------
(* Searching: a term that matches a layer or its group is met; the items   *)
(* that every other term matches are kept.                                 *)
Searching == query # {}
Unmet(l) == {t \in query : l \notin t.layers}
ListedItems(l) == SelectSeq(TreeItems(l), LAMBDA k : \A t \in Unmet(l) : k.name \in t.names)
IsLayerListed(l) == Unmet(l) = {} \/ ListedItems(l) # <<>>

LeavesOf(l) == [listed |-> ListedItems(l), present |-> Range(TreeItems(l))]

(* A layer without items is a leaf itself. *)
LeafShown(l) ==
  IF LeavesOf(l).present = {} THEN {shown[l]}
  ELSE {IsItemShown(LayerState(l), k) : k \in Range(LeavesOf(l).listed)}
RowStateOf(leaves) ==
  IF FALSE \notin leaves THEN "on" ELSE IF TRUE \in leaves THEN "mixed" ELSE "off"
RowState(layers) == RowStateOf(UNION {LeafShown(l) : l \in layers})
IsOn(layers) == RowState(layers) = "on"
(* What a group's row says, and a layer's of all its items. *)
GroupCount(layers) ==
  [on |-> Cardinality({l \in layers : RowState({l}) # "off"}), all |-> Cardinality(layers)]
LayerSummary(l) ==
  LET items == Range(TreeItems(l))
      on == {k \in items : IsItemShown(LayerState(l), k)}
  IN IF items = {} THEN "none" ELSE IF on \in {{}, items} THEN "count" ELSE "subset"

(* Mutated: a search sets the layers it lists whole. *)
AfterDotWhole(l, on) == EveryItemSet(on)
(* What a dot sets a layer to. *)
AfterDot(l, on) ==
  IF Searching /\ LeavesOf(l).present # {}
  THEN ItemsSetTo(LayerState(l), LeavesOf(l).listed, on, LeavesOf(l).present)
  ELSE EveryItemSet(on)

(* Layers are set, each to its state. *)
SetLayers(states) ==
  /\ shown' = [l \in DOMAIN states |-> states[l].mode] @@ shown
  /\ exceptions' = [l \in DOMAIN states |-> states[l].exceptions] @@ exceptions
  /\ UNCHANGED <<chart, query>>

(* What the operator says of keys, which are of the chart when there are   *)
(* others of their layer that are not.                                     *)
Said(keys, on) ==
  LET next == [k \in DOMAIN said |-> IF k \in keys THEN on ELSE said[k]]
      layers == {k.layer : k \in keys}
      alike == {l \in layers : \A k \in Range(TreeItems(l)) \ vague : next[k] = on}
      full == {l \in layers : Len(exceptions[l]) + Cardinality(keys) > EXCEPTIONS_MAX}
  IN /\ said' = next
     /\ vague' = (vague \cup {k \in DOMAIN said \ chart : k.layer \in alike \cup full})
                   \ keys

(* A tap on a dot: every leaf under it shown, or all hidden when all are. *)
TapDot(layers) ==
  LET on == ~IsOn(layers)
      keysOf(l) == IF Searching /\ TreeItems(l) # <<>> THEN Range(ListedItems(l))
                   ELSE KeysOf(l)
  IN /\ layers # {}
     /\ SetLayers([l \in layers |-> AfterDot(l, on)])
     /\ Said(UNION {keysOf(l) : l \in layers}, on)

TapLayer(l) == IsLayerListed(l) /\ TapDot({l})
TapGroup(group) == TapDot({l \in group : IsLayerListed(l)})

(* A tap on an item's row. *)
TapItem(l, k) ==
  LET on == ~IsItemShown(LayerState(l), k)
  IN /\ IsLayerListed(l) /\ k \in Range(ListedItems(l))
     /\ SetLayers([m \in {l} |->
          ItemsSetTo(LayerState(m), <<k>>, on, LeavesOf(m).present)])
     /\ Said({k}, on)

SetQuery(terms) ==
  /\ query' = terms
  /\ UNCHANGED <<chart, shown, exceptions, said, vague>>

(* Sets are read, imported, removed, and switched on and off. *)
SetTopology(on) ==
  /\ chart' = ChartOf(on)
  /\ UNCHANGED <<query, shown, exceptions, said, vague>>

(* The page is loaded again.  Modes and exceptions were written as they    *)
(* changed, the exceptions as lists in their order, and are read back; no  *)
(* set is read yet.                                                        *)
Load ==
  /\ chart' = {} /\ query' = {}
  /\ UNCHANGED <<shown, exceptions, said, vague>>

Next ==
  \/ \E l \in Layers : TapLayer(l) \/ \E k \in chart : TapItem(l, k)
  \/ \E group \in Groups : TapGroup(group)
  \/ \E terms \in SUBSET Terms : SetQuery(terms)
  \/ \E on \in SUBSET Sets : SetTopology(on)
  \/ Load

Spec == Init /\ [][Next]_vars

-----------------------------------------------------------------------------
TypeOK ==
  /\ chart \subseteq DOMAIN said /\ query \subseteq Terms
  /\ \A l \in Layers : shown[l] \in BOOLEAN /\ Range(exceptions[l]) \subseteq KeysOf(l)

(* What is shown is what the operator last said of it, by its own row, by  *)
(* its layer's or group's dot, or while searching: whatever other items    *)
(* were set meanwhile, whatever sets came and went, however the page was   *)
(* loaded.  Nor is it ever of two minds: each exception is kept once.      *)
ShownAsSaid ==
  \A l \in Layers :
    /\ IsInjective(exceptions[l])
    /\ \A k \in (chart \cap KeysOf(l)) \cup {Later(l)} :
         k \notin vague => IsItemShown(LayerState(l), k) = said[k]

(* What the rows say of one thing agrees: a dot that is mixed with a       *)
(* summary of some of its items, also of those that a search leaves out,   *)
(* and with no search the other way; and a group's dot with its count.     *)
RowsAgree ==
  /\ \A l \in Layers :
       /\ RowState({l}) = "mixed" => LayerSummary(l) = "subset"
       /\ ~Searching /\ LayerSummary(l) = "subset" => RowState({l}) = "mixed"
  /\ \A g \in Groups : \A listed \in {{l \in g : IsLayerListed(l)}} :
       \A row \in {RowState(listed)}, count \in {GroupCount(listed)} :
         /\ row = "on" => count.on = count.all
         /\ listed # {} => (row = "off" <=> count.on = 0)
=============================================================================
