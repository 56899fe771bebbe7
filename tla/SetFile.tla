------------------------------ MODULE SetFile ------------------------------
(***************************************************************************)
(* A map set as it is written, a GeoJSON file, and as it is read: strictly *)
(* when it is imported or comes back from the browser's database, where    *)
(* the answer says which Feature is at fault; and leniently when it is the *)
(* set served with the page, where what does not fit is left out.  And the *)
(* list of sources of the Maps panel, where a file is picked and a set is  *)
(* removed in two clicks.                                                  *)
(*                                                                         *)
(* A value that does not fit what its member asks for is Malformed; of     *)
(* those that do, only what the reader looks at is told apart.             *)
(***************************************************************************)
EXTENDS Naturals, Sequences, FiniteSets, SequencesExt

CONSTANTS
  Malformed, None,     \* a value that does not fit, and none
  Untitled,            \* the title of a set that names none
  BUILTIN_ID,
  Roots,               \* the members a file may open with, its features aside
  Features,            \* the Features that may be written in one
  MaxFeatures,         \* bound on those of a file
  Picks,               \* bound: the files that are picked
  MaxPicks             \* bound on the picks

(* What the constants are taken to be, assumed where they are given values. *)
SetFileAssumption ==
  /\ {MaxFeatures, MaxPicks} \subseteq Nat
  /\ \A r \in Roots : {"type", "version", "features"} \subseteq DOMAIN r

VARIABLES
  file,      \* the file, as it is written
  sets,      \* those imported, the newest first, each [identity, data]
  stored,    \* those the browser's database has
  jobs,      \* the imports in progress, each [file, stage, kept], in the order picked
  note,      \* what the panel says of an import
  armed,     \* the set whose removal is armed
  picks      \* how many files were picked

vars == <<file, sets, stored, jobs, note, armed, picks>>

-----------------------------------------------------------------------------
(* The layers by the geometry of their features. *)
GEOMETRY ==
  [ad |-> "point", navaid |-> "point", fix |-> "point", vfr |-> "point",
   conv |-> "route", rnav |-> "route", dct |-> "route", sid |-> "route",
   star |-> "route", trans |-> "route",
   hold |-> "hold",
   ctr |-> "area", tma |-> "area", cta |-> "area", advisory |-> "area",
   sector |-> "area", fir |-> "area", asr |-> "area", pr |-> "area", dng |-> "area",
   tra |-> "area", adiz |-> "area", civt |-> "area",
   coast |-> "scope", rings |-> "scope"]
LayersOf(geometries) == {l \in DOMAIN GEOMETRY : GEOMETRY[l] \in geometries}
LAYERS == LayersOf({"point", "route", "hold", "area"})
POINT_ID_LAYERS == {"ad", "navaid", "fix"}

(* The members of a Feature's properties: those it must have, and those it *)
(* may.                                                                    *)
PointProperties == [must |-> {"layer", "id"}, may |-> {"kind", "name", "ad"}]
RouteProperties == [must |-> {"layer", "name"}, may |-> {"oneWay", "kind"}]
HoldProperties == [must |-> {"layer", "turn"}, may |-> {"inboundMag", "inboundTrue", "kind"}]
AreaProperties ==
  [must |-> {"layer", "name"}, may |-> {"kind", "lower", "upper", "callsign", "freqs"}]

IsUnique(items) == IsInjective(items)
Fits(member, v) ==
  v # Malformed /\ (member = "freqs" => v # <<>> /\ Malformed \notin Range(v) /\ IsUnique(v))
PropertiesFit(p, shape) ==
  /\ shape.must \subseteq DOMAIN p /\ DOMAIN p \subseteq shape.must \cup shape.may
  /\ \A m \in DOMAIN p : Fits(m, p[m])
HoldBears(p) == {"inboundMag", "inboundTrue"} \cap DOMAIN p # {}

Point(g) == g.type = "Point" /\ g.coordinates # Malformed
LineString(g) ==
  g.type = "LineString" /\ Len(g.coordinates) >= 2 /\ Malformed \notin Range(g.coordinates)
Polygon(g) ==
  /\ g.type = "Polygon" /\ g.coordinates # <<>>
  /\ \A r \in Range(g.coordinates) : Len(r) >= 4 /\ Malformed \notin Range(r)

(* Whether a raw Feature fits the schema of its layer. *)
FeatureFits(raw) ==
  LET p == raw.properties IN
  CASE GEOMETRY[p.layer] = "hold" ->
         PropertiesFit(p, HoldProperties) /\ HoldBears(p) /\ Point(raw.geometry)
    [] GEOMETRY[p.layer] = "point" -> PropertiesFit(p, PointProperties) /\ Point(raw.geometry)
    [] GEOMETRY[p.layer] = "route" ->
         PropertiesFit(p, RouteProperties) /\ LineString(raw.geometry)
    [] OTHER ->
         PropertiesFit(p, AreaProperties) /\ (Polygon(raw.geometry) \/ LineString(raw.geometry))

(* A ring that does not end where it starts is closed. *)
Closed(ring) == IF Head(ring) # Last(ring) THEN Append(ring, Head(ring)) ELSE ring
WithClosedRings(area) ==
  IF area.geometry.type # "Polygon" THEN area
  ELSE [area EXCEPT !.geometry.coordinates = [i \in DOMAIN @ |-> Closed(@[i])]]

(* One Feature, by its layer: None when it is malformed. *)
ParseFeature(raw) ==
  IF raw.properties = None \/ "layer" \notin DOMAIN raw.properties THEN None
  ELSE IF raw.properties.layer \notin LAYERS \/ ~FeatureFits(raw) THEN None
  ELSE WithClosedRings(raw)

(* Mutated: an id repeats within its own layer. *)
RepeatedInLayer(features) ==
  {later \in DOMAIN features :
     /\ features[later].properties.layer \in POINT_ID_LAYERS
     /\ \E earlier \in 1 .. later - 1 :
          /\ features[earlier].properties.layer = features[later].properties.layer
          /\ features[earlier].properties.id = features[later].properties.id}
(* The Features that repeat the id of an earlier ad, navaid or fix. *)
RepeatedIds(features) ==
  {later \in DOMAIN features :
     /\ features[later].properties.layer \in POINT_ID_LAYERS
     /\ \E earlier \in 1 .. later - 1 :
          /\ features[earlier].properties.layer \in POINT_ID_LAYERS
          /\ features[earlier].properties.id = features[later].properties.id}

OPTIONAL_MEMBERS == {"id", "effective", "note"}
KnownMembers == {"type", "version", "title", "features", "bbox"} \cup OPTIONAL_MEMBERS
Restricted(r, members) == [m \in DOMAIN r \cap members |-> r[m]]
IsMapSet(raw) == raw.type = "FeatureCollection" /\ raw.version = 2
Collection(raw) ==
  /\ IsMapSet(raw) /\ "title" \in DOMAIN raw
  /\ \A m \in DOMAIN raw \cap KnownMembers : raw[m] # Malformed

(* Strict: the set, or where the file is at fault: the numbers of its      *)
(* Features, 0 for its other members.                                      *)
Refused(at) == [ok |-> FALSE, at |-> at]
ValidateMapSet(raw) ==
  IF ~Collection(raw) THEN Refused({0})
  ELSE LET parsed == [i \in DOMAIN raw.features |-> ParseFeature(raw.features[i])]
           issues == {i \in DOMAIN parsed : parsed[i] = None}
           repeats == RepeatedIds(parsed)
       IN IF issues # {} THEN Refused(issues)
          ELSE IF repeats # {} THEN Refused(repeats)
          ELSE [ok |-> TRUE, data |-> [Restricted(raw, KnownMembers) EXCEPT !.features = parsed]]

(* The members that fit: a malformed one is left out, or is the default. *)
WellFormedMembers(raw) ==
  [m \in {"title"} \cup {o \in OPTIONAL_MEMBERS \cap DOMAIN raw : raw[o] # Malformed} |->
     IF m = "title" /\ ("title" \notin DOMAIN raw \/ raw[m] = Malformed) THEN Untitled ELSE raw[m]]

(* Mutated: what is malformed counts for the ids of what follows. *)
ParseAllIds(raw) ==
  LET all == IF raw.features = Malformed THEN <<>> ELSE raw.features
      kept == {i \in DOMAIN all \ {j \in DOMAIN all : \E k \in 1 .. j - 1 :
                 /\ all[j].properties # None /\ all[k].properties # None
                 /\ {"id"} \subseteq DOMAIN all[j].properties \cap DOMAIN all[k].properties
                 /\ all[j].properties.id = all[k].properties.id} : ParseFeature(all[i]) # None}
  IN [m \in DOMAIN WellFormedMembers(raw) \cup {"type", "version", "features"} |->
        IF m = "features"
        THEN [n \in 1 .. Cardinality(kept) |->
                ParseFeature(all[SetToSortSeq(kept, <)[n]])]
        ELSE IF m \in {"type", "version"} THEN raw[m] ELSE WellFormedMembers(raw)[m]]
(* Lenient: a Feature that is malformed, or repeats an earlier point's id, *)
(* is left out.                                                            *)
ParseMapSet(raw) ==
  LET parsed == IF raw.features = Malformed THEN <<>>
                ELSE [i \in DOMAIN raw.features |-> ParseFeature(raw.features[i])]
      valid == SelectSeq(parsed, LAMBDA f : f # None)
      repeats == RepeatedIds(valid)
      once == SetToSortSeq(DOMAIN valid \ repeats, <)
      members == WellFormedMembers(raw)
  IN [m \in DOMAIN members \cup {"type", "version", "features"} |->
        CASE m = "features" -> [n \in DOMAIN once |-> valid[once[n]]]
          [] m \in {"type", "version"} -> raw[m]
          [] OTHER -> members[m]]

SetIdentity(set) == IF "id" \in DOMAIN set THEN set.id ELSE set.title

-----------------------------------------------------------------------------
Init ==
  /\ file \in Roots
  /\ sets = <<>> /\ stored = <<>>
  /\ jobs = <<>> /\ note = None /\ armed = None /\ picks = 0

(* The file is written, a Feature after another. *)
Write(f) ==
  /\ picks = 0
  /\ file.features # Malformed /\ Len(file.features) < MaxFeatures
  /\ file' = [file EXCEPT !.features = Append(@, f)]
  /\ UNCHANGED <<sets, stored, jobs, note, armed, picks>>

(* A file is picked: its text is asked for. *)
Pick(f) ==
  /\ picks < MaxPicks /\ (picks = 0 => f = file) /\ f \in Picks
  /\ file' = f /\ picks' = picks + 1
  /\ jobs' = Append(jobs, [file |-> f, stage |-> "text", kept |-> None])
  /\ UNCHANGED <<sets, stored, note, armed>>

Done(i) == jobs' = RemoveAt(jobs, i)
Says(what, at) == note' = [what |-> what, at |-> at]

Unread(i) ==
  /\ jobs[i].stage = "text"
  /\ Done(i) /\ Says("unread", {})
  /\ UNCHANGED <<file, sets, stored, armed, picks>>

Imported(set) == SelectSeq(sets, LAMBDA s : s.identity # set.identity)
StoredBefore(set) == SelectSeq(stored, LAMBDA s : s.identity # set.identity)
(* The text is there: the set is read, and draws in a task of its own. *)
Read(i) ==
  /\ jobs[i].stage = "text"
  /\ \A valid \in {ValidateMapSet(jobs[i].file)} :
       IF ~valid.ok THEN Done(i) /\ Says("faulty", valid.at)
       ELSE IF SetIdentity(valid.data) = BUILTIN_ID THEN Done(i) /\ Says("built in", {})
       ELSE /\ jobs' = [jobs EXCEPT ![i] = [@ EXCEPT !.file = valid.data, !.stage = "task"]]
            /\ UNCHANGED note
  /\ UNCHANGED <<file, sets, stored, armed, picks>>

(* The task: the set is listed, and put in the database, unless the chart  *)
(* cannot be built or the database is full.                                *)
Task(i, kept) ==
  LET set == [identity |-> SetIdentity(jobs[i].file), data |-> jobs[i].file] IN
  /\ jobs[i].stage = "task"
  /\ sets' = <<set>> \o Imported(set)
  /\ stored' = IF kept = "kept" THEN <<set>> \o StoredBefore(set) ELSE stored
  /\ jobs' = [jobs EXCEPT ![i] = [@ EXCEPT !.stage = "done", !.kept = kept]]
  /\ UNCHANGED <<file, note, armed, picks>>
(* importNote: what there is to say of it. *)
ImportNote(i) ==
  /\ jobs[i].stage = "done"
  /\ Done(i) /\ IF jobs[i].kept = "kept" THEN note' = None ELSE Says(jobs[i].kept, {})
  /\ UNCHANGED <<file, sets, stored, armed, picks>>

(* Mutated: one click removes. *)
ArmRemovalOnce(clicked) == [armed |-> None, remove |-> clicked]
(* Removing takes two clicks on the same control. *)
ArmRemoval(clicked) ==
  IF armed = clicked THEN [armed |-> None, remove |-> clicked]
  ELSE [armed |-> clicked, remove |-> None]

ClickRemove(identity) ==
  LET next == ArmRemoval(identity) IN
  /\ identity \in {s.identity : s \in Range(sets)}
  /\ armed' = next.armed
  /\ sets' = SelectSeq(sets, LAMBDA s : s.identity # next.remove)
  /\ stored' = SelectSeq(stored, LAMBDA s : s.identity # next.remove)
  /\ UNCHANGED <<file, jobs, note, picks>>
Disarm ==
  /\ armed # None /\ armed' = None
  /\ UNCHANGED <<file, sets, stored, jobs, note, picks>>

(* A record of the database as a set, if its data passes the strict parse. *)
SetFrom(record) ==
  LET valid == ValidateMapSet(record.data)
  IN IF valid.ok THEN [record EXCEPT !.data = valid.data] ELSE None
(* The page is loaded again. *)
Reload ==
  /\ picks > 0
  /\ sets' = SelectSeq([i \in DOMAIN stored |-> SetFrom(stored[i])], LAMBDA s : s # None)
  /\ jobs' = <<>> /\ note' = None /\ armed' = None
  /\ UNCHANGED <<file, stored, picks>>

Next ==
  \/ \E f \in Features : Write(f)
  \/ \E f \in Picks : Pick(f)
  \/ \E i \in DOMAIN jobs :
       Unread(i) \/ Read(i) \/ ImportNote(i)
         \/ \E kept \in {"kept", "for this session", "not drawn"} : Task(i, kept)
  \/ \E s \in Range(sets) : ClickRemove(s.identity)
  \/ Disarm \/ Reload

Spec == Init /\ [][Next]_vars

-----------------------------------------------------------------------------
(* The two readings of a file, strict and lenient, agree: strict refuses   *)
(* where lenient leaves something out, and says where; else they read the  *)
(* same, but for its bounding box (mapset.ts:211, 246).                    *)
ReadAlike(strict, lenient) ==
  IF strict.ok
  THEN lenient = Restricted(strict.data, DOMAIN strict.data \ {"bbox"})
  ELSE \/ strict.at = {0}
       \/ /\ strict.at # {} /\ strict.at \subseteq DOMAIN file.features
          /\ Len(lenient.features) < Len(file.features)
          /\ \A i \in strict.at :
               ValidateMapSet([file EXCEPT !.features = SubSeq(@, 1, i)]).ok = FALSE

(* What is read is a set to read: it comes back from the database as it    *)
(* went there, with every ring closed, and no point's id twice.            *)
ReadsBack(read) ==
  LET again == ValidateMapSet(read) IN
  /\ again.ok /\ again.data = read
  /\ \A f, g \in DOMAIN read.features :
       f # g /\ {read.features[f].properties.layer, read.features[g].properties.layer}
                  \subseteq POINT_ID_LAYERS
         => read.features[f].properties.id # read.features[g].properties.id

ReadTrue ==
  /\ picks = 0 /\ IsMapSet(file) =>
       \A lenient \in {ParseMapSet(file)} :
         ReadAlike(ValidateMapSet(file), lenient) /\ ReadsBack(lenient)
  /\ armed # None => \E s \in Range(sets) : s.identity = armed

(* A Feature more changes nothing of how those before it are read; and a   *)
(* set leaves the list only by a second click, or with the page when it    *)
(* could not be stored (mapsets.ts:219).                                   *)
Kept ==
  /\ file' # file /\ picks' = 0 /\ IsMapSet(file) =>
       IsPrefix(ParseMapSet(file).features, ParseMapSet(file').features)
  /\ \A s \in Range(sets) :
       \/ \E t \in Range(sets') : t.identity = s.identity
       \/ armed = s.identity \/ s \notin Range(stored)
=============================================================================
