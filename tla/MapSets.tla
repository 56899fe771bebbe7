------------------------------ MODULE MapSets ------------------------------
(***************************************************************************)
(* The map sets an operator imports: listed at once for the session, and   *)
(* kept in the browser's database, which opens late or never, may refuse a *)
(* write, and is written only once the chart has drawn.  The sets switched *)
(* off are kept with the settings; an earlier version kept them with the   *)
(* sets.  The page may be loaded again at any time.                        *)
(***************************************************************************)
EXTENDS Naturals, Sequences, FiniteSets, SequencesExt, SequenceTheorems, FiniteSetTheorems,
        TLAPS

CONSTANTS Identities,    \* of the sets imported
          None,
          MaxImports, MaxLoads

Builtin == "openaip"

(* The built-in set is not one that is imported. *)
MapSetsAssumption ==
  /\ IsFiniteSet(Identities) /\ MaxImports \in Nat /\ MaxLoads \in Nat
  /\ Builtin \notin Identities /\ None \notin {"on", "off"}

All == Identities \cup {Builtin}

VARIABLES
  sets,      \* the sets listed
  disabled,  \* those switched off, kept with the settings
  store,     \* the database: of every set, when it was imported and an old flag
  oldFlags,  \* the key of the earlier version is there: whether it has the built-in off
  opening,   \* the database "opens", is "open", or "fails"
  records,   \* what was read of it, until it is merged
  hydrated,
  asked,     \* the imports that wait for their task
  writes,    \* the writes that wait, for the database and the draws asked for before
  draws, drawn,          \* the draws asked for, and done
  imports, loads,
  off,       \* history: the sets the operator has switched off
  failed,    \* history: the sets of which a write failed or a load cut one short
  early,     \* history: the sets removed before the merge
  unadopted  \* history: the sets that what an earlier version kept may be wrong of

vars == <<sets, disabled, store, oldFlags, opening, records, hydrated, asked, writes,
          draws, drawn, imports, loads, off, failed, early, unadopted>>

MapSet(id, imported) == [identity |-> id, imported |-> imported]
Placeholder == <<MapSet(Builtin, 0)>>
Listed == {sets[i].identity : i \in DOMAIN sets}

(* The built-in set that an earlier version had switched off. *)
AdoptOff(ids) == IF oldFlags = "off" THEN ids \cup {Builtin} ELSE ids

(* An earlier version's records may say that they are off. *)
Init ==
  /\ oldFlags \in {None, "on", "off"}
  /\ \E kept \in SUBSET Identities, flagged \in SUBSET Identities :
       /\ flagged \subseteq kept /\ (oldFlags = None => flagged = {})
       /\ store = [id \in kept |-> [imported |-> 0, enabled |-> id \notin flagged]]
       /\ off = IF oldFlags = "off" THEN flagged \cup {Builtin} ELSE flagged
  /\ sets = Placeholder
  /\ disabled = AdoptOff({})
  /\ opening = "opens" /\ records = None /\ hydrated = FALSE
  /\ asked = <<>> /\ writes = <<>>
  /\ draws = 0 /\ drawn = 0
  /\ imports = 0 /\ loads = 0
  /\ failed = {} /\ early = {} /\ unadopted = {}

-----------------------------------------------------------------------------
IsEnabled(id) == id \notin disabled
Enable(id) == disabled' = disabled \ {id}

(* The built-in set last, the imports newest first; ties stay as they were. *)
ByPrecedence(list) ==
  LET precedes(a, b) == /\ a.identity # Builtin
                        /\ b.identity = Builtin \/ a.imported > b.imported
      before(i, j) == \/ precedes(list[i], list[j])
                      \/ ~precedes(list[j], list[i]) /\ i < j
      order == CHOOSE p \in [DOMAIN list -> DOMAIN list] :
                 \A i, j \in DOMAIN list : i < j => before(p[i], p[j])
  IN [n \in DOMAIN list |-> list[order[n]]]

Without(id) ==
  IF id \notin Listed THEN sets
  ELSE RemoveAt(sets, CHOOSE i \in DOMAIN sets : sets[i].identity = id)

(* Mutated: only what is put waits, whose clone would hold up the draw. *)
StoredAtOnce(write, id, imported) ==
  [write |-> write, identity |-> id, imported |-> imported,
   after |-> IF write = "put" THEN draws' ELSE 0]
(* A write waits for the database, and for the draw asked for last. *)
Stored(write, id, imported) ==
  [write |-> write, identity |-> id, imported |-> imported, after |-> draws']

(* What an earlier version kept is adopted after what the operator does.   *)
Unadopted(ids) == IF oldFlags = None THEN unadopted ELSE unadopted \cup ids

(* importMapSet: a set that is valid and not the built-in is listed in its *)
(* own task, with the time it was imported, by a clock that goes on from   *)
(* one import to the next.                                                 *)
Import(id) ==
  /\ imports < MaxImports
  /\ imports' = imports + 1
  /\ asked' = Append(asked, MapSet(id, imports + 1))
  /\ UNCHANGED <<sets, disabled, store, oldFlags, opening, records, hydrated, writes,
                 draws, drawn, loads, off, failed, early, unadopted>>

ImportTask ==
  /\ asked # <<>>
  /\ LET set == Head(asked) IN
     /\ asked' = Tail(asked)
     /\ sets' = <<set>> \o Without(set.identity)
     /\ Enable(set.identity)
     /\ draws' = draws + 1
     /\ writes' = Append(writes, Stored("put", set.identity, set.imported))
     /\ off' = off \ {set.identity}
     /\ failed' = failed \ {set.identity}
     /\ unadopted' = Unadopted({set.identity})
  /\ UNCHANGED <<early, store, oldFlags, opening, records, hydrated, drawn, imports, loads>>

ToggleMapSet(id) ==
  /\ id \in Listed
  /\ disabled' = IF IsEnabled(id) THEN disabled \cup {id} ELSE disabled \ {id}
  /\ off' = IF id \in off THEN off \ {id} ELSE off \cup {id}
  /\ unadopted' = Unadopted({id})
  /\ UNCHANGED <<early, sets, store, oldFlags, opening, records, hydrated, asked, writes,
                 draws, drawn, imports, loads, failed>>

RemoveMapSet(id) ==
  /\ id \in Listed \ {Builtin}
  /\ draws' = draws
  /\ writes' = Append(writes, Stored("delete", id, 0))
  /\ sets' = Without(id)
  /\ Enable(id)
  /\ off' = off \ {id}
  /\ failed' = failed \ {id}
  /\ early' = IF hydrated THEN early ELSE early \cup {id}
  /\ unadopted' = Unadopted({id})
  /\ UNCHANGED <<store, oldFlags, opening, records, hydrated, asked, drawn, imports, loads>>

-----------------------------------------------------------------------------
(* The database opens, and every record of it is read first, or it fails. *)
Open ==
  /\ opening = "opens"
  /\ opening' = "open"
  /\ records' = store
  /\ UNCHANGED <<sets, disabled, store, oldFlags, hydrated, asked, writes, draws, drawn,
                 imports, loads, off, failed, early, unadopted>>

(* What was read is merged: what the session lists already stands.         *)
Hydrate ==
  LET loaded == {MapSet(id, records[id].imported) : id \in DOMAIN records \ Listed}
      flagged == {id \in DOMAIN records : ~records[id].enabled}
  IN
  /\ records # None
  /\ records' = None /\ hydrated' = TRUE /\ oldFlags' = None
  /\ disabled' = IF oldFlags = None THEN disabled ELSE disabled \cup flagged
  /\ sets' = ByPrecedence(sets \o SetToSeq(loaded))
  /\ UNCHANGED <<store, opening, asked, writes, draws, drawn, imports, loads, off, failed,
                 early, unadopted>>

(* The database cannot be opened, or read: nothing is merged, and where it *)
(* is not open no write is done.                                           *)
OpenFails ==
  /\ ~hydrated
  /\ \/ opening = "opens" /\ opening' = "fails"
     \/ records # None /\ UNCHANGED opening
  /\ records' = None /\ hydrated' = TRUE /\ oldFlags' = None
  /\ failed' = All
  /\ unadopted' = Unadopted(DOMAIN store)
  /\ UNCHANGED <<sets, disabled, store, asked, writes, draws, drawn, imports, loads, off,
                 early>>

(* The next frame is out of the way. *)
AfterFrame ==
  /\ drawn < draws
  /\ drawn' = drawn + 1
  /\ UNCHANGED <<sets, disabled, store, oldFlags, opening, records, hydrated, asked,
                 writes, draws, imports, loads, off, failed, early, unadopted>>

(* A write is done when all it waits for is there, the first asked first,  *)
(* or refused.                                                             *)
Ready(i) == writes[i].after <= drawn /\ opening # "opens"
Write(done) ==
  \E i \in DOMAIN writes :
    LET w == writes[i] IN
    /\ Ready(i) /\ \A j \in 1 .. i - 1 : ~Ready(j)
    /\ done => opening = "open"
    /\ writes' = RemoveAt(writes, i)
    /\ store' = CASE ~done -> store
                  [] done /\ w.write = "put" ->
                       [id \in DOMAIN store \cup {w.identity} |->
                          IF id = w.identity
                          THEN [imported |-> w.imported, enabled |-> TRUE] ELSE store[id]]
                  [] OTHER -> [id \in DOMAIN store \ {w.identity} |-> store[id]]
    /\ failed' = IF done THEN failed ELSE failed \cup {w.identity}
    /\ UNCHANGED <<sets, disabled, oldFlags, opening, records, hydrated, asked, draws,
                   drawn, imports, loads, off, early, unadopted>>

(* The page is loaded again: what waited is gone. *)
Load ==
  /\ loads < MaxLoads
  /\ loads' = loads + 1
  /\ sets' = Placeholder
  /\ disabled' = AdoptOff(disabled)
  /\ opening' = "opens" /\ records' = None /\ hydrated' = FALSE
  /\ asked' = <<>> /\ writes' = <<>>
  /\ draws' = 0 /\ drawn' = 0
  /\ UNCHANGED <<store, oldFlags, imports, off, unadopted>>
  /\ failed' = {}
  /\ early' = {}

Next ==
  \/ \E id \in Identities : Import(id) \/ RemoveMapSet(id)
  \/ \E id \in All : ToggleMapSet(id)
  \/ ImportTask \/ Open \/ Hydrate \/ OpenFails \/ AfterFrame \/ Load
  \/ \E done \in BOOLEAN : Write(done)

Spec == Init /\ [][Next]_vars

-----------------------------------------------------------------------------
TypeOK ==
  /\ Listed \subseteq All /\ Builtin \in Listed
  /\ disabled \subseteq All /\ DOMAIN store \subseteq Identities
  /\ oldFlags \in {None, "on", "off"} /\ opening \in {"opens", "open", "fails"}
  /\ drawn <= draws

Settled == hydrated /\ asked = <<>> /\ writes = <<>>

(* The built-in set is last and the imports are newest first, each once.   *)
(* Once everything is done the database has what the session lists, save   *)
(* where it refused, so that the next session lists the same; and what is  *)
(* switched off is what the operator switched off, through any number of   *)
(* loads.                                                                  *)
SetsKept ==
  /\ Last(sets).identity = Builtin
  /\ \A i, j \in 1 .. Len(sets) - 1 :
       i < j => sets[i].identity # sets[j].identity /\ sets[i].imported >= sets[j].imported
  /\ Settled =>
       /\ \A id \in Identities \ (failed \cup early) :
            /\ (id \in DOMAIN store) = (id \in Listed)
            /\ \A i \in DOMAIN sets :
                 sets[i].identity = id => sets[i].imported = store[id].imported
       /\ \A id \in Listed \ unadopted : (id \in disabled) = (id \in off)

-----------------------------------------------------------------------------
(* A sequence without one of its elements. *)
LEMMA RemovedIs ==
  ASSUME NEW S, NEW s \in Seq(S), NEW i \in 1 .. Len(s), NEW r,
         r = SubSeq(s, 1, i - 1) \o SubSeq(s, i + 1, Len(s))
  PROVE  /\ r \in Seq(S) /\ Len(r) = Len(s) - 1
         /\ \A j \in 1 .. Len(s) - 1 : r[j] = IF j < i THEN s[j] ELSE s[j + 1]
<1> DEFINE a == SubSeq(s, 1, i - 1)
           b == SubSeq(s, i + 1, Len(s))
           n == Len(s) - 1
<1>1. Len(s) \in Nat /\ n \in Nat /\ \A k \in 1 .. Len(s) : s[k] \in S
  OBVIOUS
<1>2. /\ a \in Seq(S) /\ Len(a) = i - 1
      /\ \A j \in 1 .. i - 1 : a[j] = s[j]
  BY <1>1
<1>3. /\ b \in Seq(S) /\ Len(b) = Len(s) - i
      /\ \A j \in 1 .. Len(s) - i : b[j] = s[i + j]
  BY <1>1
<1>4. r = a \o b
  OBVIOUS
<1> HIDE DEF a, b
<1>5. r \in Seq(S) /\ Len(r) = Len(a) + Len(b)
  BY <1>2, <1>3, <1>4, ConcatProperties
<1>6. Len(r) = n
  <2>1. i \in Nat /\ i - 1 + (Len(s) - i) = Len(s) - 1
    BY <1>1
  <2>2. QED
    BY <1>2, <1>3, <1>5, <2>1
<1>7. ASSUME NEW j \in 1 .. n PROVE r[j] = IF j < i THEN s[j] ELSE s[j + 1]
  <2>1. CASE j < i
    <3>1. j \in 1 .. Len(a)
      BY <1>2, <2>1
    <3>2. (a \o b)[j] = a[j]
      BY <1>2, <1>3, <3>1, ConcatProperties
    <3>3. QED
      BY <1>2, <1>4, <2>1, <3>1, <3>2
  <2>2. CASE ~(j < i)
    <3>1. j - Len(a) \in 1 .. Len(b) /\ ~(j \in 1 .. Len(a))
      BY <1>1, <1>2, <1>3, <2>2
    <3>2. (a \o b)[j] = b[j - Len(a)]
      BY <1>1, <1>2, <1>3, <3>1, ConcatProperties
    <3>3. i + (j - Len(a)) = j + 1
      BY <1>1, <1>2
    <3>4. QED
      BY <1>2, <1>3, <1>4, <2>2, <3>1, <3>2, <3>3
  <2>3. QED
    BY <2>1, <2>2
<1>8. QED
  BY <1>5, <1>6, <1>7

-----------------------------------------------------------------------------
(* What is in a total order can be put in order, and in one way only that  *)
(* has each once.                                                          *)
Orders(R, n) ==
  /\ \A i \in 1 .. n : <<i, i>> \notin R
  /\ \A i, j \in 1 .. n : i # j => <<i, j>> \in R \/ <<j, i>> \in R
  /\ \A i, j, k \in 1 .. n : <<i, j>> \in R /\ <<j, k>> \in R => <<i, k>> \in R

LEMMA OntoItself ==
  ASSUME NEW n \in Nat, NEW f \in [1 .. n -> 1 .. n], \A i, j \in 1 .. n : f[i] = f[j] => i = j
  PROVE  \A k \in 1 .. n : \E i \in 1 .. n : f[i] = k
<1> DEFINE D == 1 .. n
<1>1. IsFiniteSet(D)
  BY FS_Interval
<1> SUFFICES ASSUME NEW k \in D, \A i \in D : f[i] # k PROVE FALSE
  OBVIOUS
<1>2. IsFiniteSet(D \ {k}) /\ Cardinality(D \ {k}) < Cardinality(D)
  <2>1. IsFiniteSet(D \ {k}) /\ Cardinality(D \ {k}) = Cardinality(D) - 1
        /\ Cardinality(D) \in Nat
    <3> HIDE DEF D
    <3> QED
      BY <1>1, FS_RemoveElement, FS_CardinalityType
  <2> HIDE DEF D
  <2>2. QED
    BY <2>1
<1>3. f \in [D -> D \ {k}]
  OBVIOUS
<1>4. \E x, y \in D : x # y /\ f[x] = f[y]
  <2> HIDE DEF D
  <2> QED
    BY <1>1, <1>2, <1>3, FS_PigeonHole
<1>5. QED
  BY <1>4

LEMMA OrderExists ==
  ASSUME NEW n \in Nat, NEW R, Orders(R, n)
  PROVE  \E p \in [1 .. n -> 1 .. n] : \A i, j \in 1 .. n : i < j => <<p[i], p[j]>> \in R
<1> DEFINE D == 1 .. n
           Under(i) == {j \in D : <<j, i>> \in R}
           Rank(i) == Cardinality(Under(i)) + 1
<1>1. IsFiniteSet(D) /\ Cardinality(D) = n
  BY FS_Interval
<1>2. \A i \in D : IsFiniteSet(Under(i)) /\ Cardinality(Under(i)) \in Nat
  <2> TAKE i \in D
  <2>1. Under(i) \in SUBSET D
    OBVIOUS
  <2>2. QED
    BY <1>1, <2>1, FS_Subset, FS_CardinalityType
<1>3. \A i \in D : Rank(i) \in D
  <2> TAKE i \in D
  <2>1. Under(i) \in SUBSET (D \ {i})
    BY DEF Orders
  <2>2. IsFiniteSet(D \ {i}) /\ Cardinality(D \ {i}) = n - 1
    BY <1>1, FS_RemoveElement
  <2>3. Cardinality(Under(i)) <= n - 1
    <3> HIDE DEF Under, D
    <3> QED
      BY <2>1, <2>2, FS_Subset
  <2>4. Cardinality(Under(i)) \in Nat
    BY <1>2
  <2> HIDE DEF Under
  <2>5. QED
    BY <2>3, <2>4
<1>4. ASSUME NEW i \in D, NEW j \in D, <<i, j>> \in R PROVE Rank(i) < Rank(j)
  <2>1. i \notin Under(i) /\ Under(i) \cup {i} \in SUBSET Under(j)
    BY <1>4 DEF Orders
  <2>2. Cardinality(Under(i) \cup {i}) = Cardinality(Under(i)) + 1
    <3> HIDE DEF Under
    <3> QED
      BY <1>2, <2>1, FS_AddElement
  <2>3. Cardinality(Under(i) \cup {i}) <= Cardinality(Under(j))
    <3> HIDE DEF Under
    <3> QED
      BY <1>2, <2>1, FS_Subset
  <2>4. QED
    <3> HIDE DEF Under
    <3> QED
      BY <1>2, <2>2, <2>3
<1> DEFINE rank == [i \in D |-> Rank(i)]
<1>5. rank \in [1 .. n -> 1 .. n]
  BY <1>3
<1>6. \A i, j \in D : Rank(i) = Rank(j) => i = j
  <2> SUFFICES ASSUME NEW i \in D, NEW j \in D, Rank(i) = Rank(j), i # j PROVE FALSE
    OBVIOUS
  <2>1. Rank(i) \in Nat /\ Rank(j) \in Nat
    BY <1>2
  <2>2. <<i, j>> \in R \/ <<j, i>> \in R
    BY DEF Orders
  <2> HIDE DEF Rank
  <2>3. QED
    BY <1>4, <2>1, <2>2
<1>7. \A k \in D : \E i \in D : Rank(i) = k
  <2>1. \A i, j \in D : rank[i] = rank[j] => i = j
    BY <1>6
  <2>2. \A k \in 1 .. n : \E i \in 1 .. n : rank[i] = k
    <3> HIDE DEF rank
    <3> QED
      BY <1>5, <2>1, OntoItself
  <2>3. QED
    BY <2>2
<1> DEFINE p == [k \in D |-> CHOOSE i \in D : Rank(i) = k]
<1> HIDE DEF Rank
<1>8. \A k \in D : p[k] \in D /\ Rank(p[k]) = k
  BY <1>7
<1>9. ASSUME NEW i \in D, NEW j \in D, i < j PROVE <<p[i], p[j]>> \in R
  <2>1. p[i] # p[j] /\ ~(Rank(p[j]) < Rank(p[i]))
    BY <1>8, <1>9
  <2>2. <<p[j], p[i]>> \notin R
    BY <1>4, <1>8, <2>1
  <2>3. QED
    BY <1>8, <2>1, <2>2 DEF Orders
<1>10. p \in [1 .. n -> 1 .. n]
  BY <1>8
<1> HIDE DEF p
<1>11. QED
  BY <1>9, <1>10

-----------------------------------------------------------------------------
(* The map sets: of any sets, imported any number of times.                *)
ListedSet == [identity : All, imported : Nat]
AskedSet == [identity : Identities, imported : Nat]
StoredSet == [imported : Nat, enabled : BOOLEAN]
WaitingWrite ==
  [write : {"put", "delete"}, identity : Identities, imported : Nat, after : Nat]

In(list) == {list[i] : i \in 1 .. Len(list)}

(* The built-in set last, the imports newest first, each once. *)
Ranked(list) ==
  /\ list # <<>> /\ list[Len(list)].identity = Builtin
  /\ \A i, j \in 1 .. Len(list) :
       i < j => /\ list[i].identity # list[j].identity
                /\ j < Len(list) => list[i].imported >= list[j].imported

Precedes(a, b) == a.identity # Builtin /\ (b.identity = Builtin \/ a.imported > b.imported)

LEMMA ListIs ==
  ASSUME NEW list \in Seq(ListedSet)
  PROVE  /\ Len(list) \in Nat /\ DOMAIN list = 1 .. Len(list)
         /\ \A i \in 1 .. Len(list) :
              list[i] \in ListedSet /\ list[i].imported \in Nat /\ list[i].identity \in All
<1>1. Len(list) \in Nat /\ DOMAIN list = 1 .. Len(list) /\ \A i \in 1 .. Len(list) : list[i] \in ListedSet
  OBVIOUS
<1>2. \A set \in ListedSet : set.imported \in Nat /\ set.identity \in All
  BY DEF ListedSet
<1>3. QED
  BY <1>1, <1>2

LEMMA ByPrecedenceIs ==
  ASSUME NEW list \in Seq(ListedSet)
  PROVE  \E p \in [1 .. Len(list) -> 1 .. Len(list)] :
           /\ ByPrecedence(list) = [n \in 1 .. Len(list) |-> list[p[n]]]
           /\ \A i, j \in 1 .. Len(list) : p[i] = p[j] => i = j
           /\ \A k \in 1 .. Len(list) : \E i \in 1 .. Len(list) : p[i] = k
           /\ \A i, j \in 1 .. Len(list) : i < j => ~Precedes(list[p[j]], list[p[i]])
<1> DEFINE D == 1 .. Len(list)
           before(i, j) == \/ Precedes(list[i], list[j])
                           \/ ~Precedes(list[j], list[i]) /\ i < j
           order == CHOOSE p \in [D -> D] : \A i, j \in D : i < j => before(p[i], p[j])
           R == {d \in D \X D : before(d[1], d[2])}
<1>1. /\ Len(list) \in Nat /\ DOMAIN list = D
      /\ \A i \in D : list[i].imported \in Nat
  BY ListIs
<1>2. ByPrecedence(list) = [n \in D |-> list[order[n]]]
  BY <1>1 DEF ByPrecedence, Precedes
<1>3. \A i, j \in D : <<i, j>> \in R <=> before(i, j)
  OBVIOUS
<1>4. \A i, j \in D : ~(before(i, j) /\ before(j, i))
  BY <1>1 DEF Precedes
<1>5. Orders(R, Len(list))
  <2>1. \A i \in D : <<i, i>> \notin R
    BY <1>1, <1>3 DEF Precedes
  <2>2. \A i, j \in D : i # j => before(i, j) \/ before(j, i)
    BY <1>1 DEF Precedes
  <2>3. ASSUME NEW i \in D, NEW j \in D, NEW k \in D, before(i, j), before(j, k)
        PROVE  before(i, k)
    BY <1>1, <2>3 DEF Precedes
  <2> HIDE DEF before, D
  <2>4. \A i, j, k \in D : <<i, j>> \in R /\ <<j, k>> \in R => <<i, k>> \in R
    BY <1>3, <2>3
  <2>5. \A i, j \in D : i # j => <<i, j>> \in R \/ <<j, i>> \in R
    BY <1>3, <2>2
  <2>6. QED
    BY <2>1, <2>4, <2>5 DEF Orders, D
<1>6. \E p \in [D -> D] : \A i, j \in D : i < j => <<p[i], p[j]>> \in R
  <2> HIDE DEF R
  <2> QED
    BY <1>1, <1>5, OrderExists
<1>7. \E p \in [D -> D] : \A i, j \in D : i < j => before(p[i], p[j])
  <2> HIDE DEF before, R
  <2> QED
    BY <1>3, <1>6
<1>8. order \in [D -> D] /\ \A i, j \in D : i < j => before(order[i], order[j])
  <2> HIDE DEF before, D
  <2> QED
    BY <1>7
<1> HIDE DEF order
<1>9. \A i, j \in D : order[i] = order[j] => i = j
  <2> SUFFICES ASSUME NEW i \in D, NEW j \in D, order[i] = order[j], i # j PROVE FALSE
    OBVIOUS
  <2>1. before(order[i], order[j]) \/ before(order[j], order[i])
    <3> HIDE DEF before
    <3> QED
      BY <1>1, <1>8
  <2>2. order[i] \in D
    BY <1>8
  <2> HIDE DEF before
  <2>3. QED
    BY <1>4, <2>1, <2>2
<1>10. \A k \in D : \E i \in D : order[i] = k
  <2> HIDE DEF before
  <2> QED
    BY <1>1, <1>8, <1>9, OntoItself
<1>11. \A i, j \in D : i < j => ~Precedes(list[order[j]], list[order[i]])
  <2> TAKE i, j \in D
  <2>1. order[i] \in D /\ order[j] \in D
    BY <1>8
  <2>2. before(order[i], order[j]) => ~Precedes(list[order[j]], list[order[i]])
    BY <1>1, <2>1 DEF Precedes
  <2> HIDE DEF before
  <2>3. QED
    BY <1>8, <2>2
<1>12. QED
  BY <1>2, <1>8, <1>9, <1>10, <1>11

(* What is merged is ranked, and nothing else is listed. *)
LEMMA RankedOnce ==
  ASSUME MapSetsAssumption, NEW list \in Seq(ListedSet),
         \A i, j \in 1 .. Len(list) : i # j => list[i].identity # list[j].identity,
         \E i \in 1 .. Len(list) : list[i].identity = Builtin
  PROVE  LET r == ByPrecedence(list)
         IN r \in Seq(ListedSet) /\ Ranked(r) /\ In(r) = In(list)
<1> DEFINE r == ByPrecedence(list)
           D == 1 .. Len(list)
<1>1. PICK p \in [D -> D] :
           /\ r = [n \in D |-> list[p[n]]]
           /\ \A i, j \in D : p[i] = p[j] => i = j
           /\ \A k \in D : \E i \in D : p[i] = k
           /\ \A i, j \in D : i < j => ~Precedes(list[p[j]], list[p[i]])
  BY ByPrecedenceIs
<1>2. Len(list) \in Nat /\ \A i \in D : list[i] \in ListedSet /\ list[i].imported \in Nat
  BY ListIs
<1> HIDE DEF r
<1>3. r \in Seq(ListedSet) /\ Len(r) = Len(list) /\ \A n \in D : r[n] = list[p[n]] /\ p[n] \in D
  <2>1. \A n \in D : p[n] \in D /\ list[p[n]] \in ListedSet
    BY <1>1, <1>2
  <2>2. r = [n \in D |-> list[p[n]]]
    BY <1>1
  <2>3. r \in [1 .. Len(list) -> ListedSet] /\ Len(list) \in Nat
    BY <1>2, <2>1, <2>2
  <2>4. r \in Seq(ListedSet) /\ Len(r) = Len(list)
    BY <2>3
  <2>5. QED
    BY <2>1, <2>2, <2>4
<1>4. In(r) = In(list)
  <2>1. \A x : x \in In(r) <=> \E n \in D : x = r[n]
    BY <1>3 DEF In
  <2>2. \A x : x \in In(list) <=> \E n \in D : x = list[n]
    BY DEF In
  <2>3. ASSUME NEW k \in D PROVE list[k] \in In(r)
    <3>1. PICK n \in D : p[n] = k
      BY <1>1
    <3>2. r[n] = list[k]
      BY <1>3, <3>1
    <3>3. QED
      BY <2>1, <3>2
  <2>4. ASSUME NEW n \in D PROVE r[n] \in In(list)
    BY <1>3, <2>2
  <2>5. QED
    BY <2>1, <2>2, <2>3, <2>4
<1>5. ASSUME NEW i \in D, NEW j \in D, i < j
      PROVE  /\ r[i].identity # r[j].identity /\ r[i].identity # Builtin
             /\ r[j].identity # Builtin => r[i].imported >= r[j].imported
  <2>1. r[i] = list[p[i]] /\ r[j] = list[p[j]] /\ p[i] \in D /\ p[j] \in D /\ p[i] # p[j]
    BY <1>1, <1>3, <1>5
  <2>2. r[i].identity # r[j].identity
    BY <2>1
  <2>3. ~Precedes(r[j], r[i])
    BY <1>1, <1>5, <2>1
  <2>4. r[i].imported \in Nat /\ r[j].imported \in Nat
    BY <1>2, <2>1
  <2>5. QED
    BY <2>2, <2>3, <2>4 DEF Precedes
<1>6. r[Len(r)].identity = Builtin /\ Len(r) # 0
  <2>1. PICK k \in D : list[k].identity = Builtin
    OBVIOUS
  <2>2. PICK i \in D : p[i] = k
    BY <1>1
  <2>3. r[i].identity = Builtin /\ Len(list) \in D
    BY <1>2, <1>3, <2>1, <2>2
  <2>4. ~(i < Len(list))
    BY <1>5, <2>3
  <2>5. i = Len(list) /\ Len(list) # 0
    BY <1>2, <2>4
  <2>6. Len(r) = Len(list)
    BY <1>3
  <2>7. QED
    BY <2>3, <2>5, <2>6
<1>7. Ranked(r)
  <2>1. r # <<>>
    BY <1>3, <1>6
  <2>2. ASSUME NEW i \in 1 .. Len(r), NEW j \in 1 .. Len(r), i < j
        PROVE  /\ r[i].identity # r[j].identity
               /\ j < Len(r) => r[i].imported >= r[j].imported
    <3>1. j < Len(r) => r[j].identity # Builtin
      <4>1. Len(r) \in D
        BY <1>2, <1>3, <1>6
      <4>2. QED
        BY <1>3, <1>5, <4>1
    <3>2. QED
      BY <1>3, <1>5, <2>2, <3>1
  <2>3. QED
    BY <1>6, <2>1, <2>2 DEF Ranked
<1>8. QED
  BY <1>3, <1>4, <1>7 DEF r

LEMMA InIs ==
  ASSUME NEW list
  PROVE  \A x : x \in In(list) <=> \E i \in 1 .. Len(list) : x = list[i]
BY DEF In

LEMMA ListedIs ==
  ASSUME NEW list \in Seq(ListedSet)
  PROVE  {list[i].identity : i \in DOMAIN list} = {s.identity : s \in In(list)}
<1>1. DOMAIN list = 1 .. Len(list)
  BY ListIs
<1>2. QED
  BY <1>1 DEF In

(* A set taken off the list. *)
LEMMA WithoutIs ==
  ASSUME sets \in Seq(ListedSet), Ranked(sets), NEW id \in Identities, MapSetsAssumption
  PROVE  LET r == Without(id)
         IN r \in Seq(ListedSet) /\ Ranked(r) /\ In(r) = {s \in In(sets) : s.identity # id}
<1> DEFINE r == Without(id)
<1>1. Len(sets) \in Nat /\ DOMAIN sets = 1 .. Len(sets) /\ Len(sets) # 0
  BY ListIs DEF Ranked
<1>2. CASE id \notin Listed
  <2>1. r = sets /\ \A i \in 1 .. Len(sets) : sets[i].identity # id
    BY <1>1, <1>2 DEF Without, Listed
  <2>2. In(r) = {s \in In(sets) : s.identity # id}
    BY <2>1 DEF In
  <2>3. QED
    BY <2>1, <2>2
<1>3. CASE id \in Listed
  <2> DEFINE at == CHOOSE i \in DOMAIN sets : sets[i].identity = id
  <2>1. at \in 1 .. Len(sets) /\ sets[at].identity = id
    BY <1>1, <1>3 DEF Listed
  <2>2. r = SubSeq(sets, 1, at - 1) \o SubSeq(sets, at + 1, Len(sets))
    BY <1>3 DEF Without, RemoveAt
  <2> HIDE DEF at, r
  <2> DEFINE n == Len(sets) - 1
             From(j) == IF j < at THEN j ELSE j + 1
  <2>3. r \in Seq(ListedSet) /\ Len(r) = n /\ \A j \in 1 .. n : r[j] = sets[From(j)]
    BY <2>1, <2>2, RemovedIs
  <2>4. at < Len(sets)
    <3>1. sets[Len(sets)].identity # id
      BY DEF Ranked, MapSetsAssumption
    <3>2. QED
      BY <1>1, <2>1, <3>1
  <2>5. \A j \in 1 .. n : From(j) \in 1 .. Len(sets) /\ From(j) # at
        /\ (From(j) < Len(sets) <=> j < n)
    BY <1>1, <2>1, <2>4
  <2>6. \A i, j \in 1 .. n : i < j => From(i) < From(j)
    BY <1>1, <2>1
  <2>7. n \in Nat /\ n # 0 /\ From(n) = Len(sets)
    <3>1. n \in Nat /\ n # 0 /\ ~(n < at) /\ n + 1 = Len(sets)
      BY <1>1, <2>1, <2>4
    <3>2. QED
      BY <3>1
  <2>8. \A k \in 1 .. Len(sets) : k # at => \E j \in 1 .. n : From(j) = k
    <3> SUFFICES ASSUME NEW k \in 1 .. Len(sets), k # at PROVE \E j \in 1 .. n : From(j) = k
      OBVIOUS
    <3>1. CASE k < at
      <4>1. k \in 1 .. n /\ From(k) = k
        BY <1>1, <2>1, <2>4, <3>1
      <4>2. QED
        BY <4>1
    <3>2. CASE ~(k < at)
      <4>1. k - 1 \in 1 .. n /\ From(k - 1) = k
        BY <1>1, <2>1, <2>4, <3>2
      <4>2. QED
        BY <4>1
    <3>3. QED
      BY <3>1, <3>2
  <2> HIDE DEF From, n
  <2>9. Ranked(r)
    <3>1. r # <<>> /\ r[Len(r)].identity = Builtin
      <4>1. n \in 1 .. n
        BY <2>7
      <4>2. r[n] = sets[Len(sets)]
        BY <2>3, <2>7, <4>1
      <4>3. QED
        BY <2>3, <2>7, <4>2 DEF Ranked
    <3>2. ASSUME NEW i \in 1 .. n, NEW j \in 1 .. n, i < j
          PROVE  /\ r[i].identity # r[j].identity
                 /\ j < n => r[i].imported >= r[j].imported
      <4>1. /\ From(i) \in 1 .. Len(sets) /\ From(j) \in 1 .. Len(sets) /\ From(i) < From(j)
            /\ (From(j) < Len(sets) <=> j < n)
        BY <2>5, <2>6, <3>2
      <4>2. /\ sets[From(i)].identity # sets[From(j)].identity
            /\ From(j) < Len(sets) => sets[From(i)].imported >= sets[From(j)].imported
        BY <4>1 DEF Ranked
      <4>3. QED
        BY <2>3, <4>1, <4>2
    <3>3. QED
      BY <2>3, <3>1, <3>2 DEF Ranked
  <2>10. In(r) = {s \in In(sets) : s.identity # id}
    <3>1. ASSUME NEW j \in 1 .. n PROVE r[j] \in In(sets) /\ r[j].identity # id
      <4>1. From(j) \in 1 .. Len(sets) /\ From(j) # at /\ r[j] = sets[From(j)]
        BY <2>3, <2>5
      <4>2. sets[From(j)].identity # sets[at].identity
        BY <1>1, <2>1, <4>1 DEF Ranked
      <4>3. QED
        BY <2>1, <4>1, <4>2, InIs
    <3>2. ASSUME NEW k \in 1 .. Len(sets), sets[k].identity # id PROVE sets[k] \in In(r)
      <4>1. PICK j \in 1 .. n : From(j) = k
        BY <2>1, <2>8, <3>2
      <4>2. r[j] = sets[k]
        BY <2>3, <4>1
      <4>3. QED
        BY <2>3, <4>2, InIs
    <3>3. QED
      BY <2>3, <3>1, <3>2, InIs
  <2>11. QED
    BY <2>3, <2>9, <2>10 DEF r
<1>4. QED
  BY <1>2, <1>3

-----------------------------------------------------------------------------
(* The stores there may be. *)
IsStore(kept) ==
  /\ DOMAIN kept \subseteq Identities
  /\ \A id \in DOMAIN kept : kept[id] \in StoredSet

SetTypes ==
  /\ sets \in Seq(ListedSet) /\ disabled \subseteq All
  /\ IsStore(store) /\ (records # None => IsStore(records))
  /\ oldFlags \in {None, "on", "off"} /\ opening \in {"opens", "open", "fails"}
  /\ hydrated \in BOOLEAN
  /\ asked \in Seq(AskedSet) /\ writes \in Seq(WaitingWrite)
  /\ draws \in Nat /\ drawn \in Nat /\ drawn <= draws /\ imports \in Nat

(* What is merged was read before. *)
ReadFirst ==
  /\ opening = "opens" => ~hydrated /\ records = None
  /\ hydrated => records = None /\ oldFlags = None

(* The imports are numbered as they are asked for: what waits for its task *)
(* is newer than all that is listed, kept, read or to be written.          *)
Numbers ==
  {s.imported : s \in In(sets)} \cup {store[id].imported : id \in DOMAIN store}
  \cup (IF records = None THEN {} ELSE {records[id].imported : id \in DOMAIN records})
  \cup {writes[n].imported : n \in 1 .. Len(writes)}
Numbered ==
  /\ \A v \in Numbers :
       v <= imports /\ \A n \in 1 .. Len(asked) : v <= asked[n].imported
  /\ \A n \in 1 .. Len(asked) : asked[n].imported <= imports
  /\ \A m, n \in 1 .. Len(asked) :
       m < n => asked[m].imported <= asked[n].imported

(* The writes wait for draws in the order they were asked for, so that the *)
(* first of them is the first that is ready.                               *)
WaitInOrder ==
  /\ \A n \in 1 .. Len(writes) : writes[n].after <= draws
  /\ \A m, n \in 1 .. Len(writes) : m < n => writes[m].after <= writes[n].after

Waits(id) == \E n \in 1 .. Len(writes) : writes[n].identity = id
IsLast(n, id) ==
  writes[n].identity = id /\ \A m \in 1 .. Len(writes) : m > n => writes[m].identity # id
Same(one, other, id) ==
  (id \in DOMAIN one <=> id \in DOMAIN other) /\ (id \in DOMAIN one => one[id] = other[id])

(* No write waits for a set, and what was read of it is what is kept. *)
Untouched(id) == ~Waits(id) /\ (records # None => Same(records, store, id))

(* What the database comes to have of a set is what is listed of it. *)
Comes(id) ==
  /\ \A n \in 1 .. Len(writes) : IsLast(n, id) =>
       /\ writes[n].write = "put" <=> id \in Listed
       /\ \A s \in In(sets) : s.identity = id => s.imported = writes[n].imported
  /\ ~Waits(id) =>
       /\ id \in DOMAIN store <=> id \in Listed
       /\ \A s \in In(sets) : s.identity = id => s.imported = store[id].imported

Agreed ==
  \A id \in Identities \ (failed \cup early) :
    IF ~hydrated /\ id \notin Listed THEN Untouched(id) ELSE Comes(id)

(* A set is off as the operator has it, by the list or by the flag an      *)
(* earlier version kept, until it is adopted.                              *)
FlagsAgreed ==
  /\ oldFlags = "off" /\ Builtin \notin unadopted => Builtin \in disabled
  /\ \A id \in All \ unadopted :
       IF oldFlags = None THEN id \in disabled <=> id \in off
       ELSE /\ Untouched(id)
            /\ id \in off <=> id \in disabled \/ (id \in DOMAIN store /\ ~store[id].enabled)

Lasting ==
  /\ SetTypes /\ ReadFirst /\ Ranked(sets) /\ Numbered /\ WaitInOrder /\ Agreed
  /\ FlagsAgreed

LEMMA AskedAre ==
  ASSUME SetTypes
  PROVE  /\ Len(asked) \in Nat
         /\ \A n \in 1 .. Len(asked) :
              /\ asked[n] \in AskedSet /\ asked[n].imported \in Nat
              /\ asked[n].identity \in Identities
<1>1. \A s \in AskedSet : s.imported \in Nat /\ s.identity \in Identities
  BY DEF AskedSet
<1>2. Len(asked) \in Nat /\ \A n \in 1 .. Len(asked) : asked[n] \in AskedSet
  BY DEF SetTypes
<1>3. QED
  BY <1>1, <1>2

LEMMA WritesAre ==
  ASSUME SetTypes
  PROVE  /\ Len(writes) \in Nat /\ DOMAIN writes = 1 .. Len(writes)
         /\ \A n \in 1 .. Len(writes) :
              /\ writes[n] \in WaitingWrite /\ writes[n].imported \in Nat
              /\ writes[n].after \in Nat /\ writes[n].identity \in Identities
              /\ writes[n].write \in {"put", "delete"}
<1>1. \A w \in WaitingWrite : /\ w.imported \in Nat /\ w.after \in Nat /\ w.identity \in Identities
                              /\ w.write \in {"put", "delete"}
  BY DEF WaitingWrite
<1>2. /\ Len(writes) \in Nat /\ DOMAIN writes = 1 .. Len(writes)
      /\ \A n \in 1 .. Len(writes) : writes[n] \in WaitingWrite
  BY DEF SetTypes
<1>3. QED
  BY <1>1, <1>2

LEMMA NumbersAre ==
  ASSUME SetTypes
  PROVE  Numbers \subseteq Nat
<1>1. \A s \in In(sets) : s.imported \in Nat
  <2>1. \A i \in 1 .. Len(sets) : sets[i].imported \in Nat
    BY ListIs DEF SetTypes
  <2>2. QED
    BY <2>1, InIs
<1>2. \A s \in StoredSet : s.imported \in Nat
  BY DEF StoredSet
<1>3. QED
  BY <1>1, <1>2, WritesAre DEF SetTypes, IsStore, Numbers

(* No newer number than those there are, or none that waits: the order     *)
(* stands.                                                                 *)
LEMMA StillNumbered ==
  ASSUME SetTypes, Numbered, UNCHANGED imports, UNCHANGED asked \/ asked' = <<>>,
         Numbers' \subseteq Numbers \cup {0}
  PROVE  Numbered'
<1>1. \A n \in 1 .. Len(asked) : 0 <= asked[n].imported
  BY AskedAre
<1>2. 0 <= imports
  BY DEF SetTypes
<1>3. CASE UNCHANGED asked
  <2>1. \A v \in Numbers' : v <= imports /\ \A n \in 1 .. Len(asked) : v <= asked[n].imported
    BY <1>1, <1>2 DEF Numbered
  <2> HIDE DEF Numbers
  <2>2. QED
    BY <1>3, <2>1 DEF Numbered
<1>4. CASE asked' = <<>>
  <2>1. \A v \in Numbers' : v <= imports
    BY <1>2 DEF Numbered
  <2>2. Len(asked') = 0
    BY <1>4
  <2> HIDE DEF Numbers
  <2>3. QED
    BY <2>1, <2>2 DEF Numbered
<1>5. QED
  BY <1>3, <1>4

LEMMA NumbersAlike ==
  ASSUME UNCHANGED <<sets, store, records, writes>>
  PROVE  Numbers' = Numbers
BY DEF Numbers, In

LEMMA StillAgreed ==
  ASSUME Agreed, UNCHANGED <<sets, store, records, hydrated, writes>>,
         failed \subseteq failed', UNCHANGED early
  PROVE  Agreed'
<1>1. Listed' = Listed /\ In(sets)' = In(sets)
  BY DEF Listed, In
<1>2. \A id : (Comes(id) <=> Comes(id)') /\ (Untouched(id) <=> Untouched(id)')
  BY <1>1 DEF Comes, Untouched, IsLast, Waits, Same
<1>3. QED
  BY <1>1, <1>2 DEF Agreed

LEMMA StillFlagged ==
  ASSUME FlagsAgreed, UNCHANGED <<disabled, store, oldFlags, records, writes, off, unadopted>>
  PROVE  FlagsAgreed'
<1>1. \A id : Untouched(id) <=> Untouched(id)'
  BY DEF Untouched, Waits, Same
<1>2. QED
  BY <1>1 DEF FlagsAgreed

(* Of a set whose last write and whose place on the list are the same. *)
LEMMA StillComes ==
  ASSUME NEW x, Comes(x), x \in Listed' <=> x \in Listed,
         \A s \in In(sets') : s.identity = x => s \in In(sets),
         Waits(x)' <=> Waits(x),
         \A m \in 1 .. Len(writes') : IsLast(m, x)' =>
           \E n \in 1 .. Len(writes) : IsLast(n, x) /\ writes'[m] = writes[n],
         ~Waits(x) => Same(store, store', x)
  PROVE  Comes(x)'
<1>1. ASSUME NEW m \in 1 .. Len(writes'), IsLast(m, x)'
      PROVE  /\ writes'[m].write = "put" <=> x \in Listed'
             /\ \A s \in In(sets') : s.identity = x => s.imported = writes'[m].imported
  <2>1. PICK n \in 1 .. Len(writes) : IsLast(n, x) /\ writes'[m] = writes[n]
    BY <1>1
  <2>2. /\ writes[n].write = "put" <=> x \in Listed
        /\ \A s \in In(sets) : s.identity = x => s.imported = writes[n].imported
    BY <2>1 DEF Comes
  <2>3. QED
    BY <2>1, <2>2
<1>2. ASSUME ~Waits(x)'
      PROVE  /\ x \in DOMAIN store' <=> x \in Listed'
             /\ \A s \in In(sets') : s.identity = x => s.imported = store'[x].imported
  <2>1. /\ x \in DOMAIN store <=> x \in Listed
        /\ \A s \in In(sets) : s.identity = x => s.imported = store[x].imported
    BY <1>2 DEF Comes
  <2>2. (x \in DOMAIN store' <=> x \in DOMAIN store) /\ (x \in DOMAIN store => store'[x] = store[x])
    BY <1>2 DEF Same
  <2>3. ASSUME NEW s \in In(sets'), s.identity = x PROVE s.imported = store'[x].imported
    <3>1. s \in In(sets) /\ s.imported = store[x].imported
      BY <2>1, <2>3
    <3>2. x \in DOMAIN store'
      <4>1. x \in Listed
        BY <3>1, <2>3 DEF In, Listed
      <4>2. QED
        BY <2>1, <2>2, <4>1
    <3>3. QED
      BY <2>2, <3>1, <3>2
  <2>4. QED
    BY <2>1, <2>2, <2>3
<1>3. QED
  BY <1>1, <1>2 DEF Comes

(* A write asked for waits behind the others, and is the last on its set.  *)
LEMMA AppendedWrite ==
  ASSUME SetTypes, WaitInOrder, NEW w \in WaitingWrite, writes' = Append(writes, w),
         w.after = draws', draws' \in Nat, draws <= draws'
  PROVE  /\ writes' \in Seq(WaitingWrite) /\ WaitInOrder'
         /\ {writes'[n].imported : n \in 1 .. Len(writes')}
              = {writes[n].imported : n \in 1 .. Len(writes)} \cup {w.imported}
         /\ Waits(w.identity)'
         /\ \A n \in 1 .. Len(writes') : IsLast(n, w.identity)' => writes'[n] = w
         /\ \A id : id # w.identity =>
              /\ Waits(id)' <=> Waits(id)
              /\ \A n \in 1 .. Len(writes') : IsLast(n, id)' =>
                   n \in 1 .. Len(writes) /\ IsLast(n, id) /\ writes'[n] = writes[n]
<1> DEFINE N == Len(writes)
<1>1. /\ N \in Nat /\ writes \in Seq(WaitingWrite)
      /\ \A n \in 1 .. N : writes[n].after \in Nat
  BY WritesAre DEF SetTypes
<1>2. /\ writes' \in Seq(WaitingWrite) /\ Len(writes') = N + 1
      /\ \A n \in 1 .. N : writes'[n] = writes[n]
      /\ writes'[N + 1] = w
  BY <1>1
<1>3. \A n \in 1 .. N + 1 : n \in 1 .. N \/ n = N + 1
  BY <1>1
<1>4. WaitInOrder'
  <2>1. ASSUME NEW n \in 1 .. N + 1 PROVE writes'[n].after <= draws'
    BY <1>1, <1>2, <1>3 DEF WaitInOrder, SetTypes
  <2>2. ASSUME NEW m \in 1 .. N + 1, NEW n \in 1 .. N + 1, m < n
        PROVE  writes'[m].after <= writes'[n].after
    <3>1. m \in 1 .. N
      BY <1>1, <2>2
    <3>2. CASE n \in 1 .. N
      BY <1>2, <3>1, <3>2, <2>2 DEF WaitInOrder
    <3>3. CASE n = N + 1
      BY <1>2, <2>1, <3>3
    <3>4. QED
      BY <1>3, <3>2, <3>3
  <2>3. QED
    BY <1>2, <2>1, <2>2 DEF WaitInOrder
<1>5. {writes'[n].imported : n \in 1 .. Len(writes')}
        = {writes[n].imported : n \in 1 .. Len(writes)} \cup {w.imported}
  <2>1. N + 1 \in 1 .. N + 1 /\ 1 .. N \subseteq 1 .. N + 1
    BY <1>1
  <2>2. QED
    BY <1>2, <1>3, <2>1
<1>6. Waits(w.identity)'
  <2>1. N + 1 \in 1 .. N + 1
    BY <1>1
  <2>2. QED
    BY <1>2, <2>1 DEF Waits
<1>7. ASSUME NEW n \in 1 .. Len(writes'), IsLast(n, w.identity)' PROVE writes'[n] = w
  <2>1. N + 1 \in 1 .. Len(writes') /\ (n < N + 1 \/ n = N + 1)
    BY <1>1, <1>2
  <2>2. QED
    BY <1>2, <1>7, <2>1 DEF IsLast
<1>8. ASSUME NEW id, id # w.identity
      PROVE  /\ Waits(id)' <=> Waits(id)
             /\ \A n \in 1 .. Len(writes') : IsLast(n, id)' =>
                  n \in 1 .. N /\ IsLast(n, id) /\ writes'[n] = writes[n]
  <2>1. 1 .. N \subseteq 1 .. N + 1
    BY <1>1
  <2>2. Waits(id)' <=> Waits(id)
    BY <1>2, <1>3, <1>8, <2>1 DEF Waits
  <2>3. ASSUME NEW n \in 1 .. Len(writes'), IsLast(n, id)'
        PROVE  n \in 1 .. N /\ IsLast(n, id) /\ writes'[n] = writes[n]
    <3>1. n \in 1 .. N
      BY <1>2, <1>3, <1>8, <2>3 DEF IsLast
    <3>2. QED
      BY <1>2, <2>1, <2>3, <3>1 DEF IsLast
  <2>4. QED
    BY <2>2, <2>3
<1>9. QED
  BY <1>2, <1>4, <1>5, <1>6, <1>7, <1>8

(* The first write done, or refused. *)
LEMMA FirstWrite ==
  ASSUME SetTypes, NEW done \in BOOLEAN, WaitInOrder, Write(done)
  PROVE  /\ writes # <<>> /\ Len(writes) # 0 /\ writes' \in Seq(WaitingWrite)
         /\ Len(writes') = Len(writes) - 1
         /\ \A n \in 1 .. Len(writes') : n + 1 \in 1 .. Len(writes) /\ writes'[n] = writes[n + 1]
         /\ store' = IF ~done THEN store
                     ELSE IF writes[1].write = "put"
                     THEN [id \in DOMAIN store \cup {writes[1].identity} |->
                             IF id = writes[1].identity
                             THEN [imported |-> writes[1].imported, enabled |-> TRUE]
                             ELSE store[id]]
                     ELSE [id \in DOMAIN store \ {writes[1].identity} |-> store[id]]
         /\ failed' = IF done THEN failed ELSE failed \cup {writes[1].identity}
<1>1. PICK i \in DOMAIN writes :
        /\ Ready(i) /\ \A j \in 1 .. i - 1 : ~Ready(j)
        /\ writes' = RemoveAt(writes, i)
        /\ store' = CASE ~done -> store
                     [] done /\ writes[i].write = "put" ->
                          [id \in DOMAIN store \cup {writes[i].identity} |->
                             IF id = writes[i].identity
                             THEN [imported |-> writes[i].imported, enabled |-> TRUE]
                             ELSE store[id]]
                     [] OTHER -> [id \in DOMAIN store \ {writes[i].identity} |-> store[id]]
        /\ failed' = IF done THEN failed ELSE failed \cup {writes[i].identity}
  BY DEF Write
<1>2. i \in 1 .. Len(writes) /\ Len(writes) \in Nat /\ Len(writes) # 0
  BY WritesAre
<1>3. i = 1
  <2> SUFFICES ASSUME i # 1 PROVE FALSE
    OBVIOUS
  <2>1. 1 \in 1 .. i - 1 /\ 1 \in 1 .. Len(writes) /\ 1 < i
    BY <1>2
  <2>2. writes[1].after <= writes[i].after
    BY <1>2, <2>1 DEF WaitInOrder
  <2>3. Ready(1)
    <3>1. writes[1].after \in Nat /\ writes[i].after \in Nat /\ drawn \in Nat
      BY <1>2, <2>1, WritesAre DEF SetTypes
    <3>2. writes[i].after <= drawn /\ opening # "opens"
      BY <1>1 DEF Ready
    <3>3. QED
      BY <2>2, <3>1, <3>2 DEF Ready
  <2>4. QED
    BY <1>1, <2>1, <2>3
<1>4. writes' = SubSeq(writes, 1, 1 - 1) \o SubSeq(writes, 1 + 1, Len(writes))
  BY <1>1, <1>3 DEF RemoveAt
<1>5. /\ writes' \in Seq(WaitingWrite) /\ Len(writes') = Len(writes) - 1
      /\ \A j \in 1 .. Len(writes) - 1 : writes'[j] = IF j < 1 THEN writes[j] ELSE writes[j + 1]
  <2>1. 1 \in 1 .. Len(writes) /\ writes \in Seq(WaitingWrite)
    BY <1>2 DEF SetTypes
  <2>2. ASSUME NEW r, r = SubSeq(writes, 1, 1 - 1) \o SubSeq(writes, 1 + 1, Len(writes))
        PROVE  /\ r \in Seq(WaitingWrite) /\ Len(r) = Len(writes) - 1
               /\ \A j \in 1 .. Len(writes) - 1 : r[j] = IF j < 1 THEN writes[j] ELSE writes[j + 1]
    BY <2>1, <2>2, RemovedIs
  <2>3. QED
    BY <1>4, <2>2
<1>6. \A n \in 1 .. Len(writes') : n + 1 \in 1 .. Len(writes) /\ writes'[n] = writes[n + 1]
  BY <1>2, <1>5
<1>7. writes # <<>>
  BY <1>2
<1>8. QED
  BY <1>1, <1>2, <1>3, <1>5, <1>6, <1>7

LEMMA RestOfWrites ==
  ASSUME SetTypes, WaitInOrder, NEW w, w = writes[1], Len(writes) # 0, Len(writes') = Len(writes) - 1,
         \A n \in 1 .. Len(writes') : n + 1 \in 1 .. Len(writes) /\ writes'[n] = writes[n + 1],
         UNCHANGED draws
  PROVE  /\ WaitInOrder'
         /\ \A id : id # w.identity => (Waits(id)' <=> Waits(id))
         /\ \A id, n : n \in 1 .. Len(writes') /\ IsLast(n, id)' => IsLast(n + 1, id)
         /\ ~Waits(w.identity)' => IsLast(1, w.identity)
<1> DEFINE N == Len(writes)
<1>1. N \in Nat /\ Len(writes') = N - 1 /\ N - 1 \in Nat
  BY WritesAre
<1>2. \A m \in 1 .. N : m > 1 => m - 1 \in 1 .. N - 1 /\ writes'[m - 1] = writes[m]
  <2> SUFFICES ASSUME NEW m \in 1 .. N, m > 1
               PROVE  m - 1 \in 1 .. N - 1 /\ writes'[m - 1] = writes[m]
    OBVIOUS
  <2>1. m - 1 \in 1 .. N - 1 /\ (m - 1) + 1 = m
    BY <1>1
  <2>2. QED
    BY <1>1, <2>1
<1>3. WaitInOrder'
  <2>1. \A n \in 1 .. N - 1 : writes'[n].after <= draws
    BY <1>1 DEF WaitInOrder
  <2>2. ASSUME NEW m \in 1 .. N - 1, NEW n \in 1 .. N - 1, m < n
        PROVE  writes'[m].after <= writes'[n].after
    <3>1. m + 1 \in 1 .. N /\ n + 1 \in 1 .. N /\ m + 1 < n + 1
      BY <1>1, <2>2
    <3>2. writes[m + 1].after <= writes[n + 1].after
      BY <3>1 DEF WaitInOrder
    <3>3. QED
      BY <1>1, <3>2
  <2>3. QED
    BY <1>1, <2>1, <2>2 DEF WaitInOrder
<1>4. ASSUME NEW id, id # w.identity PROVE Waits(id)' <=> Waits(id)
  <2>1. Waits(id)' => Waits(id)
    BY DEF Waits
  <2>2. ASSUME NEW m \in 1 .. N, writes[m].identity = id PROVE Waits(id)'
    <3>1. m > 1
      BY <1>1, <1>4, <2>2
    <3>2. QED
      BY <1>1, <1>2, <2>2, <3>1 DEF Waits
  <2>3. QED
    BY <2>1, <2>2 DEF Waits
<1>5. ASSUME NEW id, NEW n \in 1 .. N - 1, IsLast(n, id)' PROVE IsLast(n + 1, id)
  <2>1. writes[n + 1].identity = id
    BY <1>1, <1>5 DEF IsLast
  <2>2. ASSUME NEW m \in 1 .. N, m > n + 1 PROVE writes[m].identity # id
    <3>1. m > 1 /\ m - 1 > n
      BY <1>1, <2>2
    <3>2. QED
      BY <1>1, <1>2, <1>5, <3>1 DEF IsLast
  <2>3. QED
    BY <2>1, <2>2 DEF IsLast
<1>6. ASSUME ~Waits(w.identity)' PROVE IsLast(1, w.identity)
  BY <1>1, <1>2, <1>6 DEF Waits, IsLast
<1>7. QED
  BY <1>1, <1>3, <1>4, <1>5, <1>6

-----------------------------------------------------------------------------
LEMMA ImportLasts ==
  ASSUME Lasting, NEW id \in Identities, Import(id)
  PROVE  Lasting'
<1> DEFINE set == MapSet(id, imports + 1)
           n == Len(asked)
<1>1. /\ UNCHANGED <<sets, disabled, store, oldFlags, opening, records, hydrated, writes, draws,
                     drawn, off, failed, early, unadopted>>
      /\ imports' = imports + 1 /\ asked' = Append(asked, set)
  BY DEF Import
<1>2. set \in AskedSet /\ set.imported = imports + 1 /\ imports \in Nat /\ asked \in Seq(AskedSet)
  BY DEF Lasting, SetTypes, MapSet, AskedSet
<1> HIDE DEF set
<1>3. /\ asked' \in Seq(AskedSet) /\ Len(asked') = n + 1 /\ n \in Nat
      /\ \A m \in 1 .. n : asked'[m] = asked[m]
      /\ asked'[n + 1] = set
  BY <1>1, <1>2
<1>4. \A m \in 1 .. n + 1 : m \in 1 .. n \/ m = n + 1
  BY <1>3
<1>5. /\ \A v \in Numbers : v \in Nat /\ v <= imports
                           /\ \A m \in 1 .. n : v <= asked[m].imported
      /\ \A m \in 1 .. n : asked[m].imported \in Nat /\ asked[m].imported <= imports
      /\ \A l, m \in 1 .. n : l < m => asked[l].imported <= asked[m].imported
  BY NumbersAre, AskedAre DEF Lasting, Numbered
<1>6. SetTypes' /\ ReadFirst' /\ WaitInOrder' /\ Ranked(sets)'
  BY <1>1, <1>2, <1>3
     DEF Lasting, SetTypes, IsStore, ReadFirst, WaitInOrder, Ranked
<1>7. Numbered'
  <2>1. Numbers' = Numbers
    BY <1>1, NumbersAlike
  <2>2. ASSUME NEW v \in Numbers, NEW m \in 1 .. n + 1
        PROVE  v <= imports + 1 /\ v <= asked'[m].imported
    BY <1>2, <1>3, <1>4, <1>5
  <2>3. \A v \in Numbers : v <= imports + 1
    BY <1>2, <1>5
  <2>4. \A m \in 1 .. n + 1 : asked'[m].imported <= imports + 1
    BY <1>2, <1>3, <1>4, <1>5
  <2>5. ASSUME NEW l \in 1 .. n + 1, NEW m \in 1 .. n + 1, l < m
        PROVE  asked'[l].imported <= asked'[m].imported
    <3>1. l \in 1 .. n
      BY <1>3, <2>5
    <3>2. QED
      BY <1>2, <1>3, <1>4, <1>5, <2>5, <3>1
  <2> HIDE DEF Numbers
  <2>6. QED
    BY <1>1, <1>3, <2>1, <2>2, <2>3, <2>4, <2>5 DEF Numbered
<1>8. Agreed' /\ FlagsAgreed'
  BY <1>1, StillAgreed, StillFlagged DEF Lasting
<1>9. QED
  BY <1>6, <1>7, <1>8 DEF Lasting

LEMMA ToggleLasts ==
  ASSUME MapSetsAssumption, Lasting, NEW id \in All, ToggleMapSet(id)
  PROVE  Lasting'
<1>1. /\ UNCHANGED <<sets, store, oldFlags, opening, records, hydrated, asked, writes, draws,
                     drawn, imports, failed, early>>
      /\ disabled' = IF id \in disabled THEN disabled \ {id} ELSE disabled \cup {id}
      /\ off' = IF id \in off THEN off \ {id} ELSE off \cup {id}
      /\ unadopted' = IF oldFlags = None THEN unadopted ELSE unadopted \cup {id}
  BY DEF ToggleMapSet, IsEnabled, Unadopted
<1>2. SetTypes' /\ ReadFirst' /\ WaitInOrder' /\ Ranked(sets)'
  BY <1>1 DEF Lasting, SetTypes, IsStore, ReadFirst, WaitInOrder, Ranked
<1>3. Numbered' /\ Agreed'
  BY <1>1, NumbersAlike, StillNumbered, StillAgreed DEF Lasting
<1>4. FlagsAgreed'
  <2>1. \A x : Untouched(x) <=> Untouched(x)'
    BY <1>1 DEF Untouched, Waits, Same
  <2>2. oldFlags = "off" /\ Builtin \notin unadopted' => Builtin \in disabled'
    <3>1. oldFlags = "off" => oldFlags # None
      BY MapSetsAssumption DEF MapSetsAssumption
    <3>2. QED
      BY <1>1, <3>1 DEF Lasting, FlagsAgreed
  <2>3. ASSUME NEW x \in All \ unadopted'
        PROVE  IF oldFlags = None THEN x \in disabled' <=> x \in off'
               ELSE /\ Untouched(x)
                    /\ x \in off' <=> x \in disabled' \/ (x \in DOMAIN store /\ ~store[x].enabled)
    <3>1. x \in All \ unadopted
      BY <1>1
    <3>2. x = id => oldFlags = None
      BY <1>1
    <3>3. x # id => (x \in disabled' <=> x \in disabled) /\ (x \in off' <=> x \in off)
      BY <1>1
    <3>4. x = id => (x \in disabled' <=> x \notin disabled) /\ (x \in off' <=> x \notin off)
      BY <1>1
    <3>5. IF oldFlags = None THEN x \in disabled <=> x \in off
          ELSE /\ Untouched(x)
               /\ x \in off <=> x \in disabled \/ (x \in DOMAIN store /\ ~store[x].enabled)
      BY <3>1 DEF Lasting, FlagsAgreed
    <3> HIDE DEF Untouched
    <3>6. QED
      BY <3>2, <3>3, <3>4, <3>5
  <2>4. QED
    BY <1>1, <2>1, <2>2, <2>3 DEF FlagsAgreed
<1>5. QED
  BY <1>2, <1>3, <1>4 DEF Lasting

LEMMA OpenLasts ==
  ASSUME Lasting, Open
  PROVE  Lasting'
<1>1. /\ UNCHANGED <<sets, disabled, store, oldFlags, hydrated, asked, writes, draws, drawn,
                     imports, off, failed, early, unadopted>>
      /\ records' = store /\ opening' = "open" /\ opening = "opens"
  BY DEF Open
<1>2. SetTypes' /\ ReadFirst' /\ WaitInOrder' /\ Ranked(sets)'
  BY <1>1 DEF Lasting, SetTypes, IsStore, ReadFirst, WaitInOrder, Ranked
<1>3. Numbered'
  <2>1. Numbers' \subseteq Numbers \cup {0}
    BY <1>1 DEF Numbers, In
  <2>2. QED
    BY <1>1, <2>1, StillNumbered DEF Lasting
<1>4. Listed' = Listed /\ In(sets)' = In(sets)
  BY <1>1 DEF Listed, In
<1>5. \A id : (Comes(id) <=> Comes(id)') /\ (Untouched(id) => Untouched(id)')
  BY <1>1, <1>4 DEF Comes, Untouched, IsLast, Waits, Same
<1>6. Agreed' /\ FlagsAgreed'
  BY <1>1, <1>4, <1>5 DEF Lasting, Agreed, FlagsAgreed
<1>7. QED
  BY <1>2, <1>3, <1>6 DEF Lasting

LEMMA AfterFrameLasts ==
  ASSUME Lasting, AfterFrame
  PROVE  Lasting'
<1>1. /\ UNCHANGED <<sets, disabled, store, oldFlags, opening, records, hydrated, asked,
                     writes, draws, imports, off, failed, early, unadopted>>
      /\ drawn' = drawn + 1 /\ drawn < draws
  BY DEF AfterFrame
<1>2. SetTypes' /\ ReadFirst' /\ WaitInOrder' /\ Ranked(sets)'
  BY <1>1 DEF Lasting, SetTypes, IsStore, ReadFirst, WaitInOrder, Ranked
<1>3. Numbered' /\ Agreed' /\ FlagsAgreed'
  BY <1>1, NumbersAlike, StillNumbered, StillAgreed, StillFlagged DEF Lasting
<1>4. QED
  BY <1>2, <1>3 DEF Lasting

(* Nothing could be read: no set is said to be kept, and of those that are *)
(* stored nothing of what an earlier version kept is said.                 *)
LEMMA OpenFailsLasts ==
  ASSUME MapSetsAssumption, Lasting, OpenFails
  PROVE  Lasting'
<1>1. /\ UNCHANGED <<sets, disabled, store, asked, writes, draws, drawn, imports, off, early>>
      /\ records' = None /\ hydrated' = TRUE /\ oldFlags' = None /\ failed' = All
      /\ unadopted' = IF oldFlags = None THEN unadopted ELSE unadopted \cup DOMAIN store
      /\ (opening = "opens" /\ opening' = "fails") \/ (records # None /\ opening' = opening)
  BY DEF OpenFails, Unadopted
<1>2. SetTypes' /\ WaitInOrder' /\ Ranked(sets)'
  BY <1>1 DEF Lasting, SetTypes, IsStore, WaitInOrder, Ranked
<1>3. ReadFirst'
  BY <1>1 DEF Lasting, ReadFirst
<1>4. Numbered'
  <2>1. Numbers' \subseteq Numbers \cup {0}
    BY <1>1 DEF Numbers, In
  <2>2. QED
    BY <1>1, <2>1, StillNumbered DEF Lasting
<1>5. Agreed'
  BY <1>1 DEF Agreed, All
<1>6. FlagsAgreed'
  <2>1. "off" # None
    BY MapSetsAssumption DEF MapSetsAssumption
  <2>2. ASSUME NEW id \in All \ unadopted' PROVE id \in disabled <=> id \in off
    BY <1>1, <2>2 DEF Lasting, FlagsAgreed
  <2>3. QED
    BY <1>1, <2>1, <2>2 DEF FlagsAgreed
<1>7. QED
  BY <1>2, <1>3, <1>4, <1>5, <1>6 DEF Lasting

LEMMA LoadLasts ==
  ASSUME MapSetsAssumption, Lasting, Load
  PROVE  Lasting'
<1>1. /\ UNCHANGED <<store, oldFlags, imports, off, unadopted>>
      /\ sets' = <<MapSet(Builtin, 0)>>
      /\ disabled' = IF oldFlags = "off" THEN disabled \cup {Builtin} ELSE disabled
      /\ opening' = "opens" /\ records' = None /\ hydrated' = FALSE
      /\ asked' = <<>> /\ writes' = <<>> /\ draws' = 0 /\ drawn' = 0
      /\ failed' = {} /\ early' = {}
  BY DEF Load, AdoptOff, Placeholder
<1>2. /\ MapSet(Builtin, 0) \in ListedSet /\ MapSet(Builtin, 0).imported = 0
      /\ MapSet(Builtin, 0).identity = Builtin /\ Builtin \in All
  BY DEF MapSet, ListedSet, All
<1> DEFINE set == MapSet(Builtin, 0)
<1> HIDE DEF set
<1>3. sets' \in Seq(ListedSet) /\ Len(sets') = 1 /\ sets'[1] = set /\ sets' # <<>>
  BY <1>1, <1>2 DEF set
<1>4. SetTypes' /\ ReadFirst' /\ WaitInOrder'
  <2>1. asked' \in Seq(AskedSet) /\ writes' \in Seq(WaitingWrite) /\ Len(writes') = 0
    BY <1>1
  <2>2. disabled' \subseteq All /\ IsStore(store') /\ hydrated' \in BOOLEAN
    BY <1>1, <1>2 DEF Lasting, SetTypes, IsStore
  <2>3. SetTypes'
    BY <1>1, <1>3, <2>1, <2>2 DEF Lasting, SetTypes, IsStore
  <2>4. ReadFirst' /\ WaitInOrder'
    BY <1>1, <2>1 DEF ReadFirst, WaitInOrder
  <2>5. QED
    BY <2>3, <2>4
<1>5. Ranked(sets)'
  BY <1>2, <1>3 DEF Ranked, set
<1>6. In(sets)' = {set} /\ Listed' = {Builtin}
  <2>1. In(sets)' = {set}
    BY <1>3 DEF In
  <2>2. Listed' = {s.identity : s \in {set}}
    BY <1>3, <2>1, ListedIs DEF Listed
  <2>3. QED
    BY <1>2, <2>1, <2>2 DEF set
<1>7. Numbered'
  <2>1. Numbers' \subseteq Numbers \cup {0}
    <3>1. Len(writes') = 0
      BY <1>1
    <3>2. set.imported = 0
      BY <1>2 DEF set
    <3>3. QED
      BY <1>1, <1>6, <3>1, <3>2 DEF Numbers
  <2>2. QED
    BY <1>1, <2>1, StillNumbered DEF Lasting
<1>8. \A id : Untouched(id)'
  BY <1>1 DEF Untouched, Waits
<1>9. Agreed'
  <2>1. Builtin \notin Identities
    BY MapSetsAssumption DEF MapSetsAssumption
  <2>2. QED
    BY <1>1, <1>6, <1>8, <2>1 DEF Agreed
<1>10. FlagsAgreed'
  <2>1. "off" # None
    BY MapSetsAssumption DEF MapSetsAssumption
  <2>2. oldFlags = "off" => Builtin \in disabled'
    BY <1>1
  <2>3. \A id \in All \ unadopted : id \in disabled' <=> id \in disabled
    BY <1>1 DEF Lasting, FlagsAgreed
  <2>4. QED
    BY <1>1, <1>8, <2>1, <2>2, <2>3 DEF Lasting, FlagsAgreed
<1>11. QED
  BY <1>4, <1>5, <1>7, <1>9, <1>10 DEF Lasting

LEMMA ImportTaskLasts ==
  ASSUME MapSetsAssumption, Lasting, ImportTask
  PROVE  Lasting'
<1> DEFINE n == Len(asked)
<1>set. PICK set : set = Head(asked)
  OBVIOUS
<1> DEFINE id == set.identity
<1>rest. PICK rest : rest = Without(id)
  OBVIOUS
<1>put. PICK w : w = [write |-> "put", identity |-> id, imported |-> set.imported, after |-> draws']
  OBVIOUS
<1>1. /\ UNCHANGED <<early, store, oldFlags, opening, records, hydrated, drawn, imports>>
      /\ asked # <<>> /\ asked' = Tail(asked)
      /\ sets' = <<set>> \o rest
      /\ disabled' = disabled \ {id} /\ draws' = draws + 1
      /\ writes' = Append(writes, w)
      /\ off' = off \ {id} /\ failed' = failed \ {id}
      /\ unadopted' = IF oldFlags = None THEN unadopted ELSE unadopted \cup {id}
  BY <1>set, <1>rest, <1>put DEF ImportTask, Enable, Stored, Unadopted
<1>2. /\ asked \in Seq(AskedSet) /\ n \in Nat /\ n # 0 /\ set = asked[1]
      /\ set \in AskedSet /\ id \in Identities /\ set.imported \in Nat
  <2>1. asked \in Seq(AskedSet) /\ n \in Nat /\ n # 0 /\ set = asked[1]
    BY <1>1, <1>set DEF Lasting, SetTypes
  <2>2. 1 \in 1 .. n
    BY <2>1
  <2>3. QED
    BY <2>1, <2>2, AskedAre DEF Lasting
<1>3. /\ Len(asked') = n - 1 /\ asked' \in Seq(AskedSet)
      /\ \A m \in 1 .. n - 1 : m + 1 \in 1 .. n /\ asked'[m] = asked[m + 1]
  BY <1>1, <1>2
<1>4. w \in WaitingWrite /\ w.identity = id /\ w.imported = set.imported /\ w.write = "put"
      /\ w.after = draws' /\ draws' \in Nat /\ draws <= draws'
  BY <1>1, <1>2, <1>put DEF Lasting, SetTypes, WaitingWrite
<1>5. /\ rest \in Seq(ListedSet) /\ Ranked(rest)
      /\ In(rest) = {s \in In(sets) : s.identity # id}
  BY <1>2, <1>rest, WithoutIs, MapSetsAssumption DEF Lasting, SetTypes
<1>6. set \in ListedSet
  BY <1>2 DEF AskedSet, ListedSet, All
<1>7. /\ sets' \in Seq(ListedSet) /\ Len(sets') = Len(rest) + 1 /\ Len(rest) \in Nat
      /\ sets'[1] = set
      /\ \A i \in 2 .. Len(rest) + 1 : i - 1 \in 1 .. Len(rest) /\ sets'[i] = rest[i - 1]
  <2>1. <<set>> \in Seq(ListedSet) /\ Len(<<set>>) = 1 /\ <<set>>[1] = set
    BY <1>6
  <2>2. Len(rest) \in Nat
    BY <1>5, ListIs
  <2>3. /\ sets' \in Seq(ListedSet) /\ Len(sets') = 1 + Len(rest)
        /\ \A i \in 1 .. 1 + Len(rest) : sets'[i] = IF i <= 1 THEN <<set>>[i] ELSE rest[i - 1]
    BY <1>1, <1>5, <2>1, ConcatProperties
  <2>4. 1 \in 1 .. 1 + Len(rest)
    BY <2>2
  <2>5. QED
    BY <2>1, <2>2, <2>3, <2>4
<1>8. In(sets)' = {s \in In(sets) : s.identity # id} \cup {set}
  <2>1. 1 \in 1 .. Len(rest) + 1 /\ \A i \in 1 .. Len(rest) + 1 : i = 1 \/ i \in 2 .. Len(rest) + 1
    BY <1>7
  <2>2. \A k \in 1 .. Len(rest) : k + 1 \in 2 .. Len(rest) + 1 /\ (k + 1) - 1 = k
    BY <1>7
  <2>3. set \in In(sets')
    BY <1>7, <2>1, InIs
  <2>4. ASSUME NEW x \in In(rest) PROVE x \in In(sets')
    <3>1. PICK k \in 1 .. Len(rest) : x = rest[k]
      BY InIs
    <3>2. sets'[k + 1] = x /\ k + 1 \in 1 .. Len(sets')
      BY <1>7, <2>2, <3>1
    <3>3. QED
      BY <3>2, InIs
  <2>5. ASSUME NEW x \in In(sets') PROVE x = set \/ x \in In(rest)
    <3>1. PICK i \in 1 .. Len(sets') : x = sets'[i]
      BY InIs
    <3>2. i = 1 \/ i \in 2 .. Len(rest) + 1
      BY <1>7, <2>1
    <3>3. QED
      BY <1>7, <3>1, <3>2, InIs
  <2>6. QED
    BY <1>5, <2>3, <2>4, <2>5
<1>9. \A x : x \in Listed' <=> x \in Listed \/ x = id
  <2>1. Listed' = {s.identity : s \in In(sets')} /\ Listed = {s.identity : s \in In(sets)}
    BY <1>7, ListedIs DEF Listed, Lasting, SetTypes
  <2>2. QED
    BY <1>8, <2>1
<1>10. /\ \A v \in Numbers : v \in Nat /\ v <= imports
                            /\ \A m \in 1 .. n : v <= asked[m].imported
       /\ \A m \in 1 .. n : asked[m].imported \in Nat /\ asked[m].imported <= imports
       /\ \A l, m \in 1 .. n : l < m => asked[l].imported <= asked[m].imported
       /\ 1 \in 1 .. n
  BY <1>2, NumbersAre, AskedAre DEF Lasting, Numbered
<1>11. Ranked(sets)'
  <2>1. sets' # <<>> /\ sets'[Len(sets')].identity = Builtin
    <3>1. Len(rest) # 0
      BY <1>5 DEF Ranked
    <3>2. Len(rest) + 1 \in 2 .. Len(rest) + 1 /\ (Len(rest) + 1) - 1 = Len(rest)
      BY <1>7, <3>1
    <3>3. sets'[Len(sets')] = rest[Len(rest)]
      BY <1>7, <3>2
    <3>4. QED
      BY <1>5, <1>7, <3>3 DEF Ranked
  <2>2. ASSUME NEW i \in 1 .. Len(sets'), NEW j \in 1 .. Len(sets'), i < j
        PROVE  /\ sets'[i].identity # sets'[j].identity
               /\ j < Len(sets') => sets'[i].imported >= sets'[j].imported
    <3>1. j \in 2 .. Len(rest) + 1 /\ j - 1 \in 1 .. Len(rest) /\ sets'[j] = rest[j - 1]
          /\ (j < Len(sets') <=> j - 1 < Len(rest))
      BY <1>7, <2>2
    <3>2. CASE i = 1
      <4>1. rest[j - 1] \in In(rest)
        BY <3>1, InIs
      <4>2. sets'[j] \in In(sets) /\ sets'[j].identity # id
        BY <1>5, <3>1, <4>1
      <4>3. sets'[j].imported \in Numbers
        BY <4>2 DEF Numbers
      <4>4. sets'[j].imported <= set.imported
        BY <1>2, <1>10, <4>3
      <4>5. QED
        BY <1>2, <1>7, <1>10, <3>2, <4>2, <4>3, <4>4
    <3>3. CASE i # 1
      <4>1. i \in 2 .. Len(rest) + 1 /\ i - 1 < j - 1 /\ i - 1 \in 1 .. Len(rest)
            /\ sets'[i] = rest[i - 1]
        BY <1>7, <2>2, <3>3
      <4>2. /\ rest[i - 1].identity # rest[j - 1].identity
            /\ j - 1 < Len(rest) => rest[i - 1].imported >= rest[j - 1].imported
        BY <1>5, <3>1, <4>1 DEF Ranked
      <4>3. QED
        BY <3>1, <4>1, <4>2
    <3>4. QED
      BY <3>2, <3>3
  <2>3. QED
    BY <2>1, <2>2 DEF Ranked
<1>12. /\ writes' \in Seq(WaitingWrite) /\ WaitInOrder'
       /\ {writes'[m].imported : m \in 1 .. Len(writes')}
            = {writes[m].imported : m \in 1 .. Len(writes)} \cup {w.imported}
       /\ Waits(w.identity)'
       /\ \A m \in 1 .. Len(writes') : IsLast(m, w.identity)' => writes'[m] = w
       /\ \A x : x # w.identity =>
            /\ Waits(x)' <=> Waits(x)
            /\ \A m \in 1 .. Len(writes') : IsLast(m, x)' =>
                 m \in 1 .. Len(writes) /\ IsLast(m, x) /\ writes'[m] = writes[m]
  <2>1. SetTypes /\ WaitInOrder /\ writes' = Append(writes, w)
    BY <1>1 DEF Lasting
  <2>2. w \in WaitingWrite /\ w.after = draws' /\ draws' \in Nat /\ draws <= draws'
    BY <1>4
  <2>3. QED
    BY <2>1, <2>2, AppendedWrite
<1>13. SetTypes' /\ ReadFirst'
  <2>1. disabled' \subseteq All /\ drawn' <= draws'
    BY <1>1, <1>4 DEF Lasting, SetTypes
  <2>2. QED
    BY <1>1, <1>3, <1>4, <1>7, <1>12, <2>1 DEF Lasting, SetTypes, IsStore, ReadFirst
<1>14. Numbered'
  <2>1. Numbers' \subseteq Numbers \cup {set.imported}
    <3>1. {s.imported : s \in In(sets')} \subseteq Numbers \cup {set.imported}
      BY <1>8 DEF Numbers
    <3>2. {writes'[m].imported : m \in 1 .. Len(writes')} \subseteq Numbers \cup {set.imported}
      BY <1>4, <1>12 DEF Numbers
    <3>3. QED
      BY <1>1, <3>1, <3>2 DEF Numbers
  <2>2. ASSUME NEW v \in Numbers'
        PROVE  v <= imports /\ \A m \in 1 .. n - 1 : v <= asked[m + 1].imported
    <3>1. CASE v \in Numbers
      BY <1>3, <1>10, <3>1
    <3>2. CASE v = set.imported
      <4>1. \A m \in 1 .. n - 1 : 1 < m + 1
        BY <1>2
      <4>2. QED
        BY <1>2, <1>3, <1>10, <3>2, <4>1
    <3>3. QED
      BY <2>1, <3>1, <3>2
  <2>3. \A l, m \in 1 .. n - 1 : l < m => l + 1 < m + 1
    BY <1>2
  <2> HIDE DEF Numbers
  <2>4. \A m \in 1 .. n - 1 : asked[m + 1].imported <= imports
    BY <1>3, <1>10
  <2>5. \A l, m \in 1 .. n - 1 : l < m => asked[l + 1].imported <= asked[m + 1].imported
    BY <1>3, <1>10, <2>3
  <2>6. \A v \in Numbers' : v <= imports' /\ \A m \in 1 .. Len(asked') : v <= asked'[m].imported
    BY <1>1, <1>3, <2>2
  <2>7. \A m \in 1 .. Len(asked') : asked'[m].imported <= imports'
    BY <1>1, <1>3, <2>4
  <2>8. \A l, m \in 1 .. Len(asked') : l < m => asked'[l].imported <= asked'[m].imported
    BY <1>3, <2>5
  <2>9. QED
    BY <2>6, <2>7, <2>8 DEF Numbered
<1>15. Agreed'
  <2> SUFFICES ASSUME NEW x \in Identities \ (failed' \cup early')
               PROVE  IF ~hydrated' /\ x \notin Listed' THEN Untouched(x)' ELSE Comes(x)'
    BY DEF Agreed
  <2>1. CASE x = id
    <3>1. x \in Listed'
      BY <1>9, <2>1
    <3>2. \A s \in In(sets') : s.identity = x => s = set
      BY <1>8, <2>1
    <3>3. Waits(x)' /\ \A m \in 1 .. Len(writes') : IsLast(m, x)' => writes'[m] = w
      BY <1>4, <1>12, <2>1
    <3>4. Comes(x)'
      BY <1>4, <3>1, <3>2, <3>3 DEF Comes
    <3>5. QED
      BY <3>1, <3>4
  <2>2. CASE x # id
    <3>1. x \in Identities \ (failed \cup early) /\ (x \in Listed' <=> x \in Listed)
      BY <1>1, <1>9, <2>2
    <3>2. \A s : s.identity = x => (s \in In(sets') <=> s \in In(sets))
      BY <1>8, <2>2
    <3>3. Untouched(x) => Untouched(x)'
      BY <1>1, <1>4, <1>12, <2>2 DEF Untouched, Same
    <3>4. /\ Waits(x)' <=> Waits(x)
          /\ \A m \in 1 .. Len(writes') : IsLast(m, x)' =>
               m \in 1 .. Len(writes) /\ IsLast(m, x) /\ writes'[m] = writes[m]
      BY <1>4, <1>12, <2>2
    <3>5. Comes(x) => Comes(x)'
      <4>1. Same(store, store', x)
        BY <1>1 DEF Same
      <4>2. QED
        BY <3>1, <3>2, <3>4, <4>1, StillComes
    <3>6. QED
      BY <1>1, <3>1, <3>3, <3>5 DEF Lasting, Agreed
  <2>3. QED
    BY <2>1, <2>2
<1>16. FlagsAgreed'
  <2>1. "off" # None /\ id # Builtin
    BY <1>2, MapSetsAssumption DEF MapSetsAssumption
  <2>2. ASSUME NEW x \in All \ unadopted'
        PROVE  IF oldFlags = None THEN x \in disabled' <=> x \in off'
               ELSE /\ Untouched(x)'
                    /\ x \in off' <=> x \in disabled' \/ (x \in DOMAIN store /\ ~store[x].enabled)
    <3>1. x \in All \ unadopted /\ (oldFlags # None => x # id)
      BY <1>1
    <3>2. x # id => (x \in disabled' <=> x \in disabled) /\ (x \in off' <=> x \in off)
      BY <1>1
    <3>3. x = id => x \notin disabled' /\ x \notin off'
      BY <1>1
    <3>4. x # id /\ Untouched(x) => Untouched(x)'
      BY <1>1, <1>4, <1>12 DEF Untouched, Same
    <3>5. IF oldFlags = None THEN x \in disabled <=> x \in off
          ELSE /\ Untouched(x)
               /\ x \in off <=> x \in disabled \/ (x \in DOMAIN store /\ ~store[x].enabled)
      BY <3>1 DEF Lasting, FlagsAgreed
    <3> HIDE DEF Untouched
    <3>6. QED
      BY <3>1, <3>2, <3>3, <3>4, <3>5
  <2>3. oldFlags = "off" /\ Builtin \notin unadopted' => Builtin \in disabled'
    BY <1>1, <2>1 DEF Lasting, FlagsAgreed
  <2>4. QED
    BY <1>1, <2>2, <2>3 DEF FlagsAgreed
<1>17. QED
  BY <1>11, <1>12, <1>13, <1>14, <1>15, <1>16 DEF Lasting

LEMMA RemoveLasts ==
  ASSUME MapSetsAssumption, Lasting, NEW id \in Identities, RemoveMapSet(id)
  PROVE  Lasting'
<1>delete. PICK w : w = [write |-> "delete", identity |-> id, imported |-> 0, after |-> draws']
  OBVIOUS
<1>1. /\ UNCHANGED <<store, oldFlags, opening, records, hydrated, asked, drawn, imports>>
      /\ draws' = draws /\ writes' = Append(writes, w)
      /\ sets' = Without(id) /\ disabled' = disabled \ {id}
      /\ off' = off \ {id} /\ failed' = failed \ {id}
      /\ early' = IF hydrated THEN early ELSE early \cup {id}
      /\ unadopted' = IF oldFlags = None THEN unadopted ELSE unadopted \cup {id}
  BY <1>delete DEF RemoveMapSet, Enable, Stored, Unadopted
<1>2. w \in WaitingWrite /\ w.identity = id /\ w.imported = 0 /\ w.write = "delete"
      /\ w.after = draws' /\ draws' \in Nat /\ draws <= draws'
  BY <1>1, <1>delete DEF Lasting, SetTypes, WaitingWrite
<1>3. /\ sets' \in Seq(ListedSet) /\ Ranked(sets')
      /\ In(sets') = {s \in In(sets) : s.identity # id}
  BY <1>1, WithoutIs, MapSetsAssumption DEF Lasting, SetTypes
<1>4. \A x : x \in Listed' <=> x \in Listed /\ x # id
  <2>1. Listed' = {s.identity : s \in In(sets')} /\ Listed = {s.identity : s \in In(sets)}
    BY <1>3, ListedIs DEF Listed, Lasting, SetTypes
  <2>2. QED
    BY <1>3, <2>1
<1>5. /\ writes' \in Seq(WaitingWrite) /\ WaitInOrder'
      /\ {writes'[m].imported : m \in 1 .. Len(writes')}
           = {writes[m].imported : m \in 1 .. Len(writes)} \cup {w.imported}
      /\ Waits(w.identity)'
      /\ \A m \in 1 .. Len(writes') : IsLast(m, w.identity)' => writes'[m] = w
      /\ \A x : x # w.identity =>
           /\ Waits(x)' <=> Waits(x)
           /\ \A m \in 1 .. Len(writes') : IsLast(m, x)' =>
                m \in 1 .. Len(writes) /\ IsLast(m, x) /\ writes'[m] = writes[m]
  <2>1. SetTypes /\ WaitInOrder /\ writes' = Append(writes, w)
    BY <1>1 DEF Lasting
  <2>2. QED
    BY <1>2, <2>1, AppendedWrite
<1>6. SetTypes' /\ ReadFirst'
  BY <1>1, <1>3, <1>5 DEF Lasting, SetTypes, IsStore, ReadFirst
<1>7. Numbered'
  <2>1. {s.imported : s \in In(sets')} \subseteq Numbers
    BY <1>3 DEF Numbers
  <2>2. {writes'[m].imported : m \in 1 .. Len(writes')} \subseteq Numbers \cup {0}
    BY <1>2, <1>5 DEF Numbers
  <2>3. Numbers' \subseteq Numbers \cup {0}
    BY <1>1, <2>1, <2>2 DEF Numbers
  <2>4. QED
    BY <1>1, <2>3, StillNumbered DEF Lasting
<1>8. Agreed'
  <2> SUFFICES ASSUME NEW x \in Identities \ (failed' \cup early')
               PROVE  IF ~hydrated' /\ x \notin Listed' THEN Untouched(x)' ELSE Comes(x)'
    BY DEF Agreed
  <2>1. CASE x = id
    <3>1. x \notin Listed' /\ hydrated'
      BY <1>1, <1>4, <2>1
    <3>2. \A s \in In(sets') : s.identity # x
      BY <1>3, <2>1
    <3>3. Waits(x)' /\ \A m \in 1 .. Len(writes') : IsLast(m, x)' => writes'[m] = w
      BY <1>2, <1>5, <2>1
    <3>4. Comes(x)'
      BY <1>2, <3>1, <3>2, <3>3 DEF Comes
    <3>5. QED
      BY <3>1, <3>4
  <2>2. CASE x # id
    <3>1. x \in Identities \ (failed \cup early) /\ (x \in Listed' <=> x \in Listed)
      BY <1>1, <1>4, <2>2
    <3>2. \A s \in In(sets') : s \in In(sets)
      BY <1>3
    <3>3. Untouched(x) => Untouched(x)'
      BY <1>1, <1>2, <1>5, <2>2 DEF Untouched, Same
    <3>4. /\ Waits(x)' <=> Waits(x)
          /\ \A m \in 1 .. Len(writes') : IsLast(m, x)' =>
               m \in 1 .. Len(writes) /\ IsLast(m, x) /\ writes'[m] = writes[m]
      BY <1>2, <1>5, <2>2
    <3>5. Comes(x) => Comes(x)'
      <4>1. Same(store, store', x)
        BY <1>1 DEF Same
      <4>2. QED
        BY <3>1, <3>2, <3>4, <4>1, StillComes
    <3>6. QED
      BY <1>1, <3>1, <3>3, <3>5 DEF Lasting, Agreed
  <2>3. QED
    BY <2>1, <2>2
<1>9. FlagsAgreed'
  <2>1. "off" # None /\ id # Builtin
    BY MapSetsAssumption DEF MapSetsAssumption
  <2>2. ASSUME NEW x \in All \ unadopted'
        PROVE  IF oldFlags = None THEN x \in disabled' <=> x \in off'
               ELSE /\ Untouched(x)'
                    /\ x \in off' <=> x \in disabled' \/ (x \in DOMAIN store /\ ~store[x].enabled)
    <3>1. x \in All \ unadopted /\ (oldFlags # None => x # id)
      BY <1>1
    <3>2. x # id => (x \in disabled' <=> x \in disabled) /\ (x \in off' <=> x \in off)
      BY <1>1
    <3>3. x = id => x \notin disabled' /\ x \notin off'
      BY <1>1
    <3>4. x # id /\ Untouched(x) => Untouched(x)'
      BY <1>1, <1>2, <1>5 DEF Untouched, Same
    <3>5. IF oldFlags = None THEN x \in disabled <=> x \in off
          ELSE /\ Untouched(x)
               /\ x \in off <=> x \in disabled \/ (x \in DOMAIN store /\ ~store[x].enabled)
      BY <3>1 DEF Lasting, FlagsAgreed
    <3> HIDE DEF Untouched
    <3>6. QED
      BY <3>1, <3>2, <3>3, <3>4, <3>5
  <2>3. oldFlags = "off" /\ Builtin \notin unadopted' => Builtin \in disabled'
    BY <1>1, <2>1 DEF Lasting, FlagsAgreed
  <2>4. QED
    BY <1>1, <2>2, <2>3 DEF FlagsAgreed
<1>10. QED
  BY <1>3, <1>5, <1>6, <1>7, <1>8, <1>9 DEF Lasting

LEMMA WriteLasts ==
  ASSUME Lasting, NEW done \in BOOLEAN, Write(done)
  PROVE  Lasting'
<1>first. PICK w : w = writes[1]
  OBVIOUS
<1>1. /\ UNCHANGED <<sets, disabled, oldFlags, opening, records, hydrated, asked, draws, drawn,
                     imports, off, early, unadopted>>
  BY DEF Write
<1>2. /\ Len(writes) # 0 /\ writes' \in Seq(WaitingWrite)
      /\ Len(writes') = Len(writes) - 1
      /\ \A n \in 1 .. Len(writes') : n + 1 \in 1 .. Len(writes) /\ writes'[n] = writes[n + 1]
      /\ store' = IF ~done THEN store
                  ELSE IF w.write = "put"
                  THEN [id \in DOMAIN store \cup {w.identity} |->
                          IF id = w.identity
                          THEN [imported |-> w.imported, enabled |-> TRUE]
                          ELSE store[id]]
                  ELSE [id \in DOMAIN store \ {w.identity} |-> store[id]]
      /\ failed' = IF done THEN failed ELSE failed \cup {w.identity}
  BY <1>first, FirstWrite DEF Lasting
<1>3. /\ WaitInOrder'
      /\ \A id : id # w.identity => (Waits(id)' <=> Waits(id))
      /\ \A id, n : n \in 1 .. Len(writes') /\ IsLast(n, id)' => IsLast(n + 1, id)
      /\ ~Waits(w.identity)' => IsLast(1, w.identity)
  <2>1. SetTypes /\ WaitInOrder /\ UNCHANGED draws
    BY <1>1 DEF Lasting
  <2>2. QED
    BY <1>2, <1>first, <2>1, RestOfWrites
<1>4. /\ 1 \in 1 .. Len(writes) /\ w \in WaitingWrite /\ w.identity \in Identities
      /\ w.imported \in Nat /\ w.write \in {"put", "delete"} /\ Waits(w.identity)
  <2>1. 1 \in 1 .. Len(writes)
    BY <1>2, WritesAre DEF Lasting
  <2>2. QED
    BY <1>first, <2>1, WritesAre DEF Lasting, Waits
<1>5. IsStore(store')
  <2>1. [imported |-> w.imported, enabled |-> TRUE] \in StoredSet
    BY <1>4 DEF StoredSet
  <2>2. QED
    BY <1>2, <1>4, <2>1 DEF Lasting, SetTypes, IsStore
<1>6. \A x : x # w.identity => Same(store, store', x) /\ Same(store', store, x)
  BY <1>2 DEF Same
<1>7. SetTypes' /\ ReadFirst' /\ Ranked(sets)'
  BY <1>1, <1>2, <1>5 DEF Lasting, SetTypes, IsStore, ReadFirst, Ranked
<1>8. Numbered'
  <2>1. {writes'[m].imported : m \in 1 .. Len(writes')} \subseteq Numbers
    BY <1>2 DEF Numbers
  <2>2. w.imported \in Numbers
    BY <1>first, <1>4 DEF Numbers
  <2>3. {store'[id].imported : id \in DOMAIN store'} \subseteq Numbers
    <3>1. ASSUME NEW id \in DOMAIN store' PROVE store'[id].imported \in Numbers
      <4>1. CASE id \in DOMAIN store /\ store'[id] = store[id]
        BY <4>1 DEF Numbers
      <4>2. CASE id = w.identity /\ store'[id] = [imported |-> w.imported, enabled |-> TRUE]
        BY <2>2, <4>2
      <4>3. QED
        BY <1>2, <4>1, <4>2
    <3>2. QED
      BY <3>1
  <2>4. In(sets') = In(sets)
    BY <1>1
  <2>5. Numbers' \subseteq Numbers \cup {0}
    BY <1>1, <2>1, <2>3, <2>4 DEF Numbers
  <2>6. QED
    BY <1>1, <2>5, StillNumbered DEF Lasting
<1>9. Listed' = Listed /\ In(sets') = In(sets)
  BY <1>1 DEF Listed
<1>10. \A x : x # w.identity /\ Untouched(x) => Untouched(x)'
  BY <1>1, <1>3, <1>6 DEF Untouched, Same
<1>11. ASSUME NEW x, Comes(x), x = w.identity => done
       PROVE  Comes(x)'
  <2>1. ASSUME NEW m \in 1 .. Len(writes'), IsLast(m, x)'
        PROVE  m + 1 \in 1 .. Len(writes) /\ IsLast(m + 1, x) /\ writes'[m] = writes[m + 1]
    BY <1>2, <1>3, <2>1
  <2>2. CASE x # w.identity
    <3>1. \A m \in 1 .. Len(writes') : IsLast(m, x)' =>
            \E n \in 1 .. Len(writes) : IsLast(n, x) /\ writes'[m] = writes[n]
      BY <2>1
    <3>2. QED
      BY <1>3, <1>6, <1>9, <1>11, <2>2, <3>1, StillComes
  <2>3. CASE x = w.identity
    <3>1. ASSUME NEW m \in 1 .. Len(writes'), IsLast(m, x)'
          PROVE  /\ writes'[m].write = "put" <=> x \in Listed'
                 /\ \A s \in In(sets') : s.identity = x => s.imported = writes'[m].imported
      <4>1. m + 1 \in 1 .. Len(writes) /\ IsLast(m + 1, x) /\ writes'[m] = writes[m + 1]
        BY <2>1, <3>1
      <4>2. QED
        BY <1>9, <1>11, <4>1 DEF Comes
    <3>2. ASSUME ~Waits(x)'
          PROVE  /\ x \in DOMAIN store' <=> x \in Listed'
                 /\ \A s \in In(sets') : s.identity = x => s.imported = store'[x].imported
      <4>1. /\ w.write = "put" <=> x \in Listed
            /\ \A s \in In(sets) : s.identity = x => s.imported = w.imported
        BY <1>3, <1>4, <1>first, <1>11, <2>3, <3>2 DEF Comes
      <4>2. done
        BY <1>11, <2>3
      <4>3. CASE w.write = "put"
        <5>1. x \in DOMAIN store' /\ store'[x].imported = w.imported
          BY <1>2, <2>3, <4>2, <4>3
        <5>2. QED
          BY <1>9, <4>1, <4>3, <5>1
      <4>4. CASE w.write # "put"
        <5>1. x \notin DOMAIN store' /\ x \notin Listed
          BY <1>2, <2>3, <4>1, <4>2, <4>4
        <5>2. \A s \in In(sets) : s.identity # x
          BY <5>1, ListedIs DEF Listed, Lasting, SetTypes
        <5>3. QED
          BY <1>9, <5>1, <5>2
      <4>5. QED
        BY <4>3, <4>4
    <3>3. QED
      BY <3>1, <3>2 DEF Comes
  <2>4. QED
    BY <2>2, <2>3
<1>12. Agreed'
  <2> SUFFICES ASSUME NEW x \in Identities \ (failed' \cup early')
               PROVE  IF ~hydrated' /\ x \notin Listed' THEN Untouched(x)' ELSE Comes(x)'
    BY DEF Agreed
  <2>1. x \in Identities \ (failed \cup early) /\ (x = w.identity => done)
    BY <1>1, <1>2
  <2>2. Untouched(x) => x # w.identity
    BY <1>4 DEF Untouched
  <2>3. QED
    BY <1>1, <1>9, <1>10, <1>11, <2>1, <2>2 DEF Lasting, Agreed
<1>13. FlagsAgreed'
  <2>1. ASSUME NEW x, Untouched(x) PROVE Untouched(x)' /\ Same(store, store', x)
    <3>1. x # w.identity
      BY <1>4, <2>1 DEF Untouched
    <3>2. QED
      BY <1>6, <1>10, <2>1, <3>1
  <2>2. ASSUME NEW x \in All \ unadopted
        PROVE  IF oldFlags = None THEN x \in disabled <=> x \in off
               ELSE /\ Untouched(x)'
                    /\ x \in off <=> x \in disabled \/ (x \in DOMAIN store' /\ ~store'[x].enabled)
    <3>1. IF oldFlags = None THEN x \in disabled <=> x \in off
          ELSE /\ Untouched(x)
               /\ x \in off <=> x \in disabled \/ (x \in DOMAIN store /\ ~store[x].enabled)
      BY DEF Lasting, FlagsAgreed
    <3>2. Same(store, store', x) => (x \in DOMAIN store /\ ~store[x].enabled
                                      <=> x \in DOMAIN store' /\ ~store'[x].enabled)
      BY DEF Same
    <3> HIDE DEF Untouched, Same
    <3>3. QED
      BY <2>1, <3>1, <3>2
  <2>3. QED
    BY <1>1, <2>2 DEF Lasting, FlagsAgreed
<1>14. QED
  BY <1>3, <1>7, <1>8, <1>12, <1>13 DEF Lasting

-----------------------------------------------------------------------------
(* What was read, as a sequence: each of the sets once. *)
LEMMA InSequence ==
  ASSUME NEW S, IsFiniteSet(S), NEW s, s = SetToSeq(S)
  PROVE  /\ s \in Seq(S) /\ In(s) = S
         /\ \A i, j \in 1 .. Len(s) : s[i] = s[j] => i = j
<1> DEFINE N == Cardinality(S)
           D == 1 .. N
<1>1. N \in Nat /\ ExistsBijection(D, S)
  BY FS_CardinalityType
<1>2. \E f \in [D -> S] : \A a, b \in D : f[a] = f[b] => a = b
  <2>1. PICK f : f \in Bijection(D, S)
    BY <1>1 DEF ExistsBijection
  <2>2. f \in [D -> S] /\ \A a, b \in D : f[a] = f[b] => a = b
    BY <2>1 DEF Bijection, Injection, IsInjective
  <2>3. QED
    BY <2>2
<1>3. \A f : IsInjective(f) <=> \A a, b \in DOMAIN f : f[a] = f[b] => a = b
  BY DEF IsInjective
<1>4. s = CHOOSE f \in [D -> S] : IsInjective(f)
  <2>1. Cardinality(S) = Cardinality(S)
    BY DEF Cardinality, Cardinality
  <2>2. QED
    BY <2>1 DEF SetToSeq
<1> HIDE DEF N
<1>5. s \in [D -> S] /\ \A a, b \in D : s[a] = s[b] => a = b
  <2>1. \E f \in [D -> S] : IsInjective(f)
    BY <1>2, <1>3
  <2>2. s \in [D -> S] /\ IsInjective(s)
    BY <1>4, <2>1
  <2>3. QED
    BY <1>3, <2>2
<1>6. s \in Seq(S) /\ Len(s) = N
  BY <1>1, <1>5
<1>7. ASSUME NEW x \in S, \A i \in D : s[i] # x PROVE FALSE
  <2>1. IsFiniteSet(D) /\ Cardinality(D) = N
    BY <1>1, FS_Interval
  <2>2. IsFiniteSet(S \ {x}) /\ Cardinality(S \ {x}) = N - 1
    BY FS_RemoveElement DEF N
  <2>3. Cardinality(S \ {x}) < Cardinality(D)
    BY <1>1, <2>1, <2>2
  <2>4. s \in [D -> S \ {x}]
    BY <1>5, <1>7
  <2>5. \E a, b \in D : a # b /\ s[a] = s[b]
    <3> HIDE DEF D
    <3> QED
      BY <2>1, <2>2, <2>3, <2>4, FS_PigeonHole
  <2>6. QED
    BY <1>5, <2>5
<1>8. In(s) = S
  BY <1>5, <1>6, <1>7 DEF In
<1>9. QED
  BY <1>5, <1>6, <1>8

(* What was read is merged: it is what is kept, of the sets the session    *)
(* has not touched.                                                        *)
LEMMA HydrateLasts ==
  ASSUME MapSetsAssumption, Lasting, Hydrate
  PROVE  Lasting'
<1>loaded. PICK loaded : loaded = {MapSet(id, records[id].imported) : id \in DOMAIN records \ Listed}
  OBVIOUS
<1>read. PICK read : read = SetToSeq(loaded)
  OBVIOUS
<1>1. /\ UNCHANGED <<store, opening, asked, writes, draws, drawn, imports, off, failed, early,
                     unadopted>>
      /\ records # None /\ records' = None /\ hydrated' = TRUE /\ oldFlags' = None
      /\ disabled' = IF oldFlags = None THEN disabled
                     ELSE disabled \cup {id \in DOMAIN records : ~records[id].enabled}
      /\ sets' = ByPrecedence(sets \o read)
  BY <1>loaded, <1>read DEF Hydrate
<1>2. ~hydrated /\ IsStore(records) /\ sets \in Seq(ListedSet) /\ Ranked(sets)
  BY <1>1 DEF Lasting, ReadFirst, SetTypes
<1>3. \A id \in DOMAIN records : id \in Identities /\ records[id].imported \in Nat
  <2>1. \A r \in StoredSet : r.imported \in Nat
    BY DEF StoredSet
  <2>2. QED
    BY <1>2, <2>1 DEF IsStore
<1>4. \A s \in loaded : /\ s \in ListedSet
                         /\ s.identity \in DOMAIN records \ Listed
                         /\ s.imported = records[s.identity].imported
  BY <1>loaded, <1>3 DEF MapSet, ListedSet, All
<1>5. ASSUME NEW id \in DOMAIN records \ Listed PROVE \E s \in loaded : s.identity = id
  <2>1. MapSet(id, records[id].imported) \in loaded
    BY <1>loaded
  <2>2. MapSet(id, records[id].imported).identity = id
    BY DEF MapSet
  <2>3. QED
    BY <2>1, <2>2
<1>6. \A s, t \in loaded : s.identity = t.identity => s = t
  BY <1>loaded DEF MapSet
<1>7. IsFiniteSet(loaded)
  <2>1. IsFiniteSet(Identities)
    BY MapSetsAssumption DEF MapSetsAssumption
  <2>2. DOMAIN records \ Listed \in SUBSET Identities
    BY <1>3
  <2>3. IsFiniteSet(DOMAIN records \ Listed)
    BY <2>1, <2>2, FS_Subset
  <2> DEFINE S == DOMAIN records \ Listed
             f == [id \in S |-> MapSet(id, records[id].imported)]
  <2>4. f \in [S -> loaded] /\ \A s \in loaded : \E id \in S : f[id] = s
    BY <1>loaded
  <2>5. f \in Surjection(S, loaded)
    <3> HIDE DEF S, f
    <3> QED
      BY <2>4 DEF Surjection
  <2>6. QED
    <3> HIDE DEF S, f
    <3>1. IsFiniteSet(S)
      BY <2>3 DEF S
    <3>2. QED
      BY <2>5, <3>1, FS_Surjection
<1>8. /\ read \in Seq(loaded) /\ In(read) = loaded
      /\ \A i, j \in 1 .. Len(read) : read[i] = read[j] => i = j
  BY <1>7, <1>read, InSequence
<1> DEFINE list == sets \o read
           n == Len(sets)
<1>9. read \in Seq(ListedSet) /\ Len(read) \in Nat /\ \A i \in 1 .. Len(read) : read[i] \in loaded
  <2>1. Len(read) \in Nat /\ \A i \in 1 .. Len(read) : read[i] \in loaded
    BY <1>8
  <2>2. read \in [1 .. Len(read) -> ListedSet]
    BY <1>4, <1>8, <2>1
  <2>3. QED
    BY <2>1, <2>2
<1>10. /\ n \in Nat /\ n # 0 /\ list \in Seq(ListedSet) /\ Len(list) = n + Len(read)
       /\ \A i \in 1 .. n + Len(read) : list[i] = IF i <= n THEN sets[i] ELSE read[i - n]
  <2>1. n \in Nat /\ n # 0
    BY <1>2, ListIs DEF Ranked
  <2>2. QED
    BY <1>2, <1>9, <2>1, ConcatProperties
<1> HIDE DEF list
<1>11. \A i \in 1 .. n + Len(read) :
         \/ i \in 1 .. n /\ list[i] = sets[i]
         \/ i - n \in 1 .. Len(read) /\ list[i] = read[i - n] /\ i > n
  BY <1>9, <1>10
<1>12. /\ \A i \in 1 .. n : i \in 1 .. n + Len(read) /\ list[i] = sets[i]
       /\ \A k \in 1 .. Len(read) : n + k \in 1 .. n + Len(read) /\ list[n + k] = read[k]
  <2>1. \A k \in 1 .. Len(read) : n + k \in 1 .. n + Len(read) /\ ~(n + k <= n) /\ (n + k) - n = k
    BY <1>9, <1>10
  <2>2. QED
    BY <1>9, <1>10, <2>1
<1>13. In(list) = In(sets) \cup loaded
  <2>1. ASSUME NEW i \in 1 .. n + Len(read) PROVE list[i] \in In(sets) \/ list[i] \in loaded
    BY <1>9, <1>11, InIs
  <2>2. \A i \in 1 .. n : sets[i] \in In(list)
    BY <1>10, <1>12, InIs
  <2>3. \A k \in 1 .. Len(read) : read[k] \in In(list)
    BY <1>10, <1>12, InIs
  <2>4. \A s \in In(sets) : s \in In(list)
    BY <2>2, InIs
  <2>5. \A s \in loaded : s \in In(list)
    BY <1>8, <2>3, InIs
  <2>6. \A s \in In(list) : s \in In(sets) \/ s \in loaded
    BY <1>10, <2>1, InIs
  <2>7. QED
    BY <2>4, <2>5, <2>6
<1>14. Listed = {s.identity : s \in In(sets)}
  BY <1>2, ListedIs DEF Listed
<1>15. \A i, j \in 1 .. Len(list) : i # j => list[i].identity # list[j].identity
  <2>1. \A i, j \in 1 .. n : i # j => sets[i].identity # sets[j].identity
    BY <1>2, <1>10 DEF Ranked
  <2>2. \A i, j \in 1 .. Len(read) : i # j => read[i].identity # read[j].identity
    BY <1>6, <1>8, <1>9
  <2>3. ASSUME NEW i \in 1 .. n, NEW k \in 1 .. Len(read) PROVE sets[i].identity # read[k].identity
    <3>1. sets[i].identity \in Listed
      BY <1>14, InIs
    <3>2. read[k].identity \notin Listed
      BY <1>4, <1>9
    <3>3. QED
      BY <3>1, <3>2
  <2>4. ASSUME NEW i \in 1 .. Len(list), NEW j \in 1 .. Len(list), i # j
        PROVE  list[i].identity # list[j].identity
    <3>1. i - n \in 1 .. Len(read) /\ j - n \in 1 .. Len(read) => i - n # j - n
      BY <1>9, <1>10, <2>4
    <3>2. CASE i \in 1 .. n /\ j \in 1 .. n
      BY <1>12, <2>1, <2>4, <3>2
    <3>3. CASE i \in 1 .. n /\ j \notin 1 .. n
      <4>1. j - n \in 1 .. Len(read) /\ list[j] = read[j - n] /\ list[i] = sets[i]
        BY <1>10, <1>11, <1>12, <3>3
      <4>2. sets[i].identity # read[j - n].identity
        BY <2>3, <3>3, <4>1
      <4>3. QED
        BY <4>1, <4>2
    <3>4. CASE i \notin 1 .. n /\ j \in 1 .. n
      <4>1. i - n \in 1 .. Len(read) /\ list[i] = read[i - n] /\ list[j] = sets[j]
        BY <1>10, <1>11, <1>12, <3>4
      <4>2. sets[j].identity # read[i - n].identity
        BY <2>3, <3>4, <4>1
      <4>3. QED
        BY <4>1, <4>2
    <3>5. CASE i \notin 1 .. n /\ j \notin 1 .. n
      <4>1. /\ i - n \in 1 .. Len(read) /\ list[i] = read[i - n]
            /\ j - n \in 1 .. Len(read) /\ list[j] = read[j - n]
        BY <1>10, <1>11, <3>5
      <4>2. i - n # j - n
        BY <3>1, <4>1
      <4>3. QED
        BY <2>2, <4>1, <4>2
    <3>6. QED
      BY <3>2, <3>3, <3>4, <3>5
  <2>5. QED
    BY <2>4
<1>16. \E i \in 1 .. Len(list) : list[i].identity = Builtin
  <2>1. n \in 1 .. n /\ sets[n].identity = Builtin
    BY <1>2, <1>10 DEF Ranked
  <2>2. QED
    BY <1>10, <1>12, <2>1
<1>17. /\ sets' \in Seq(ListedSet) /\ Ranked(sets') /\ In(sets') = In(sets) \cup loaded
  BY <1>1, <1>10, <1>13, <1>15, <1>16, RankedOnce, MapSetsAssumption DEF list
<1>18. \A x : x \in Listed' <=> x \in Listed \/ x \in DOMAIN records
  <2>1. Listed' = {s.identity : s \in In(sets')}
    BY <1>17, ListedIs DEF Listed
  <2>2. QED
    BY <1>4, <1>5, <1>14, <1>17, <2>1
<1>19. SetTypes' /\ ReadFirst' /\ WaitInOrder'
  <2>1. disabled' \subseteq All
    BY <1>1, <1>3 DEF Lasting, SetTypes, All
  <2>2. SetTypes'
    BY <1>1, <1>17, <2>1 DEF Lasting, SetTypes, IsStore
  <2>3. ReadFirst' /\ WaitInOrder'
    BY <1>1 DEF Lasting, ReadFirst, WaitInOrder
  <2>4. QED
    BY <2>2, <2>3
<1>20. Numbered'
  <2>1. {s.imported : s \in In(sets')} \subseteq Numbers
    <3>1. \A s \in loaded : s.imported \in Numbers
      BY <1>1, <1>4 DEF Numbers
    <3>2. QED
      BY <1>17, <3>1 DEF Numbers
  <2>2. Numbers' \subseteq Numbers \cup {0}
    BY <1>1, <2>1 DEF Numbers
  <2>3. QED
    BY <1>1, <2>2, StillNumbered DEF Lasting
<1>21. \A id : (Waits(id)' <=> Waits(id)) /\ \A m : IsLast(m, id)' <=> IsLast(m, id)
  BY <1>1 DEF Waits, IsLast
<1>22. Agreed'
  <2> SUFFICES ASSUME NEW x \in Identities \ (failed' \cup early') PROVE Comes(x)'
    BY <1>1 DEF Agreed
  <2>1. x \in Identities \ (failed \cup early)
    BY <1>1
  <2>2. CASE x \in Listed
    <3>1. Comes(x)
      BY <2>1, <2>2 DEF Lasting, Agreed
    <3>2. \A s \in In(sets') : s.identity = x => s \in In(sets)
      BY <1>4, <1>17, <2>2
    <3>3. \A m \in 1 .. Len(writes') : IsLast(m, x)' =>
            \E k \in 1 .. Len(writes) : IsLast(k, x) /\ writes'[m] = writes[k]
      BY <1>1, <1>21
    <3>4. Same(store, store', x) /\ x \in Listed'
      BY <1>1, <1>18, <2>2 DEF Same
    <3>5. QED
      BY <1>21, <2>2, <3>1, <3>2, <3>3, <3>4, StillComes
  <2>3. CASE x \notin Listed
    <3>1. ~Waits(x) /\ Same(records, store, x)
      BY <1>1, <1>2, <2>1, <2>3 DEF Lasting, Agreed, Untouched
    <3>2. ~Waits(x)' /\ \A m \in 1 .. Len(writes') : ~IsLast(m, x)'
      BY <1>1, <1>21, <3>1 DEF Waits, IsLast
    <3>3. x \in DOMAIN store' <=> x \in Listed'
      BY <1>1, <1>18, <2>3, <3>1 DEF Same
    <3>4. ASSUME NEW s \in In(sets'), s.identity = x PROVE s.imported = store'[x].imported
      <4>1. s \in loaded
        BY <1>14, <1>17, <2>3, <3>4
      <4>2. x \in DOMAIN records /\ s.imported = records[x].imported
        BY <1>4, <3>4, <4>1
      <4>3. QED
        BY <1>1, <3>1, <4>2 DEF Same
    <3>5. QED
      BY <3>2, <3>3, <3>4 DEF Comes
  <2>4. QED
    BY <2>2, <2>3
<1>23. FlagsAgreed'
  <2>1. "off" # None
    BY MapSetsAssumption DEF MapSetsAssumption
  <2>2. ASSUME NEW x \in All \ unadopted PROVE x \in disabled' <=> x \in off
    <3>1. CASE oldFlags = None
      BY <1>1, <3>1 DEF Lasting, FlagsAgreed
    <3>2. CASE oldFlags # None
      <4>1. /\ Same(records, store, x)
            /\ x \in off <=> x \in disabled \/ (x \in DOMAIN store /\ ~store[x].enabled)
        BY <1>1, <3>2 DEF Lasting, FlagsAgreed, Untouched
      <4>2. x \in DOMAIN store /\ ~store[x].enabled <=> x \in DOMAIN records /\ ~records[x].enabled
        BY <4>1 DEF Same
      <4>3. QED
        BY <1>1, <3>2, <4>1, <4>2
    <3>3. QED
      BY <3>1, <3>2
  <2>3. QED
    BY <1>1, <2>1, <2>2 DEF FlagsAgreed
<1>24. QED
  BY <1>17, <1>19, <1>20, <1>22, <1>23 DEF Lasting

-----------------------------------------------------------------------------
LEMMA LastingAtFirst ==
  ASSUME MapSetsAssumption, Init
  PROVE  Lasting
<1>1. PICK kept \in SUBSET Identities, flagged \in SUBSET Identities :
         /\ flagged \subseteq kept /\ (oldFlags = None => flagged = {})
         /\ store = [id \in kept |-> [imported |-> 0, enabled |-> id \notin flagged]]
         /\ off = IF oldFlags = "off" THEN flagged \cup {Builtin} ELSE flagged
  BY DEF Init
<1>2. /\ oldFlags \in {None, "on", "off"} /\ sets = <<MapSet(Builtin, 0)>>
      /\ disabled = IF oldFlags = "off" THEN {Builtin} ELSE {}
      /\ opening = "opens" /\ records = None /\ hydrated = FALSE
      /\ asked = <<>> /\ writes = <<>> /\ draws = 0 /\ drawn = 0
      /\ imports = 0 /\ loads = 0 /\ failed = {} /\ early = {} /\ unadopted = {}
  BY DEF Init, AdoptOff, Placeholder
<1>set. PICK set : set = MapSet(Builtin, 0)
  OBVIOUS
<1>3. /\ set \in ListedSet /\ set.imported = 0 /\ set.identity = Builtin /\ Builtin \in All
  BY <1>set DEF MapSet, ListedSet, All
<1>4. sets \in Seq(ListedSet) /\ Len(sets) = 1 /\ sets[1] = set /\ sets # <<>>
  BY <1>2, <1>3, <1>set
<1>5. In(sets) = {set} /\ Listed = {Builtin}
  <2>1. In(sets) = {set}
    BY <1>4 DEF In
  <2>2. Listed = {s.identity : s \in {set}}
    BY <1>4, <2>1, ListedIs DEF Listed
  <2>3. QED
    BY <1>3, <2>1, <2>2
<1>6. IsStore(store) /\ \A id \in DOMAIN store : store[id].imported = 0
  BY <1>1 DEF IsStore, StoredSet
<1>7. Len(writes) = 0 /\ Len(asked) = 0 /\ writes \in Seq(WaitingWrite) /\ asked \in Seq(AskedSet)
  BY <1>2
<1>8. SetTypes
  <2>1. disabled \subseteq All
    BY <1>2, <1>3
  <2>2. drawn <= draws /\ draws \in Nat /\ drawn \in Nat /\ imports \in Nat
    BY <1>2
  <2>3. /\ oldFlags \in {None, "on", "off"} /\ opening \in {"opens", "open", "fails"}
        /\ hydrated \in BOOLEAN /\ records = None
    BY <1>2
  <2>4. QED
    BY <1>4, <1>6, <1>7, <2>1, <2>2, <2>3 DEF SetTypes
<1>9. Ranked(sets)
  BY <1>3, <1>4 DEF Ranked
<1>10. ReadFirst /\ WaitInOrder
  BY <1>2, <1>7 DEF ReadFirst, WaitInOrder
<1>11. Numbered
  <2>1. Numbers \subseteq {0}
    BY <1>2, <1>3, <1>5, <1>6, <1>7 DEF Numbers
  <2>2. QED
    BY <1>2, <1>7, <2>1 DEF Numbered
<1>12. \A id : Untouched(id)
  BY <1>2, <1>7 DEF Untouched, Waits
<1>13. Agreed
  <2>1. Builtin \notin Identities
    BY MapSetsAssumption DEF MapSetsAssumption
  <2>2. QED
    BY <1>2, <1>5, <1>12, <2>1 DEF Agreed
<1>14. FlagsAgreed
  <2>1. \A id \in DOMAIN store : store[id].enabled <=> id \notin flagged
    BY <1>1
  <2>2. \A id : id \in flagged <=> id \in DOMAIN store /\ ~store[id].enabled
    BY <1>1, <2>1
  <2>3. "off" # None
    BY MapSetsAssumption DEF MapSetsAssumption
  <2>4. ASSUME NEW id \in All
        PROVE  IF oldFlags = None THEN id \in disabled <=> id \in off
               ELSE id \in off <=> id \in disabled \/ (id \in DOMAIN store /\ ~store[id].enabled)
    BY <1>1, <1>2, <2>2, <2>3
  <2>5. QED
    BY <1>2, <1>12, <2>4 DEF FlagsAgreed
<1>15. QED
  BY <1>8, <1>9, <1>10, <1>11, <1>13, <1>14 DEF Lasting

LEMMA LastingKept ==
  ASSUME MapSetsAssumption, Lasting, [Next]_vars
  PROVE  Lasting'
<1>1. CASE UNCHANGED vars
  <2>1. UNCHANGED <<sets, disabled, store, oldFlags, opening, records, hydrated, asked, writes,
                    draws, drawn, imports, off, failed, early, unadopted>>
    BY <1>1 DEF vars
  <2>2. SetTypes' /\ ReadFirst' /\ WaitInOrder' /\ Ranked(sets)'
    BY <2>1 DEF Lasting, SetTypes, IsStore, ReadFirst, WaitInOrder, Ranked
  <2>3. Numbered' /\ Agreed' /\ FlagsAgreed'
    BY <2>1, NumbersAlike, StillNumbered, StillAgreed, StillFlagged DEF Lasting
  <2>4. QED
    BY <2>2, <2>3 DEF Lasting
<1>2. CASE Next
  BY <1>2, MapSetsAssumption, ImportLasts, RemoveLasts, ToggleLasts, ImportTaskLasts, OpenLasts, HydrateLasts,
     OpenFailsLasts, AfterFrameLasts, LoadLasts, WriteLasts DEF Next
<1>3. QED
  BY <1>1, <1>2

(* What is agreed is what is kept once everything is done. *)
LEMMA LastingIsKept ==
  ASSUME Lasting
  PROVE  TypeOK /\ SetsKept
<1>1. sets \in Seq(ListedSet) /\ Ranked(sets) /\ Len(sets) \in Nat /\ Len(sets) # 0
      /\ DOMAIN sets = 1 .. Len(sets)
  <2>1. sets \in Seq(ListedSet) /\ Ranked(sets)
    BY DEF Lasting, SetTypes
  <2>2. QED
    BY <2>1, ListIs DEF Ranked
<1>2. Listed = {s.identity : s \in In(sets)}
  BY <1>1, ListedIs DEF Listed
<1>3. TypeOK
  <2>1. \A i \in 1 .. Len(sets) : sets[i].identity \in All
    BY <1>1, ListIs
  <2>2. Listed \subseteq All
    BY <1>1, <2>1 DEF Listed
  <2>3. Len(sets) \in 1 .. Len(sets) /\ sets[Len(sets)].identity = Builtin
    BY <1>1 DEF Ranked
  <2>4. Builtin \in Listed
    BY <1>1, <2>3 DEF Listed
  <2>5. QED
    BY <2>2, <2>4 DEF TypeOK, Lasting, SetTypes, IsStore
<1>4. Last(sets).identity = Builtin
  BY <1>1 DEF Last, Ranked
<1>5. ASSUME NEW i \in 1 .. Len(sets) - 1, NEW j \in 1 .. Len(sets) - 1, i < j
      PROVE  sets[i].identity # sets[j].identity /\ sets[i].imported >= sets[j].imported
  <2>1. i \in 1 .. Len(sets) /\ j \in 1 .. Len(sets) /\ j < Len(sets)
    BY <1>1
  <2>2. QED
    BY <1>1, <1>5, <2>1 DEF Ranked
<1>6. ASSUME Settled, NEW id \in Identities \ (failed \cup early)
      PROVE  /\ (id \in DOMAIN store) = (id \in Listed)
             /\ \A i \in DOMAIN sets :
                  sets[i].identity = id => sets[i].imported = store[id].imported
  <2>1. Len(writes) = 0 /\ hydrated
    BY <1>6 DEF Settled
  <2>2. Comes(id) /\ ~Waits(id)
    BY <1>6, <2>1 DEF Lasting, Agreed, Waits
  <2>3. /\ id \in DOMAIN store <=> id \in Listed
        /\ \A s \in In(sets) : s.identity = id => s.imported = store[id].imported
    BY <2>2 DEF Comes
  <2>4. \A i \in DOMAIN sets : sets[i] \in In(sets)
    BY <1>1, InIs
  <2>5. QED
    BY <2>3, <2>4
<1>7. ASSUME Settled, NEW id \in Listed \ unadopted
      PROVE  (id \in disabled) = (id \in off)
  <2>1. id \in All \ unadopted /\ oldFlags = None
    BY <1>3, <1>7 DEF Settled, TypeOK, Lasting, ReadFirst
  <2>2. QED
    BY <2>1 DEF Lasting, FlagsAgreed
<1>8. QED
  BY <1>3, <1>4, <1>5, <1>6, <1>7 DEF SetsKept
=============================================================================
