----------------------------- MODULE TrackStore -----------------------------
(***************************************************************************)
(* The scope's track store, rebuilt from every snapshot of the feed: the   *)
(* trail, the samples and what the operator set carry over from one to the *)
(* next, and those of a target the feed drops are kept for its return.     *)
(*                                                                         *)
(* A place is what is projected, and a projected coordinate is the         *)
(* projection it was made with.  Readings no step turns on, and the rates  *)
(* worked out of the counts, are left out.                                 *)
(***************************************************************************)
EXTENDS Integers, Sequences, FiniteSets

CONSTANTS
  Hexes,
  Places, Projections, Bearings,
  Nothing,                \* undefined
  Counts,                 \* message counts a report may give, or Nothing
  HISTORY_RETENTION_SEC, REMEMBERED_SEC,
  MaxTime,                \* bound on the times of the snapshots
  MaxTrail                \* bound on the fixes of a trail

(* What the constants are taken to be, assumed where they are given values. *)
StoreAssumption ==
  /\ HISTORY_RETENTION_SEC \in Nat \ {0} /\ REMEMBERED_SEC \in Nat \ {0}
  /\ MaxTime \in Nat /\ MaxTrail \in Nat
  /\ Nothing \notin Places

VARIABLES
  tracks,      \* of the hexes listed last
  remembered,  \* Carried of the targets no longer listed
  project,     \* the projection in use
  statsNow,    \* stats.now
  operated     \* history: what the operator last set on each target's block

vars == <<tracks, remembered, project, statsNow, operated>>

Times == 0 .. MaxTime
freshOps == [dir |-> Nothing, manual |-> FALSE]
OperatorState == [dir : Bearings \cup {Nothing}, manual : BOOLEAN]

(* What the feed reports of a target: when it was last heard, and its       *)
(* position, if any, and when that was.                                    *)
Reports == [messages : Counts, heard : Times, at : Places \cup {Nothing},
            positionHeard : Times]
(* The snapshots of a time, in which nothing was heard later. *)
Snapshots ==
  UNION {{[now |-> t, aircraft |-> f] :
            f \in UNION {[D -> {r \in Reports : r.heard <= t /\ r.positionHeard <= r.heard}] :
                           D \in SUBSET Hexes}} : t \in Times}

Fixes == [at : Places, by : Projections, t : Times]
Samples == [messages : Counts, t : Times]
Carried == [history : Seq(Fixes), samples : Seq(Samples), ops : OperatorState]
Positions == [at : Places, by : Projections] \cup {Nothing}
Tracks == [history : Seq(Fixes), samples : Seq(Samples), ops : OperatorState,
           position : Positions]

-----------------------------------------------------------------------------
LastOf(s) == s[Len(s)]

(* A fix where the position moved, dated by when that was heard. *)
AppendFix(history, place, t) ==
  IF \/ place = Nothing
     \/ /\ history # <<>>
        /\ LastOf(history).at = place /\ LastOf(history).by = project
  THEN history
  ELSE Append(history, [at |-> place, by |-> project, t |-> t])

(* Mutated: a snapshot of the same time makes a sample too. *)
HeardAgain(last, r, now) ==
  IF r.messages # Nothing /\ last.messages # Nothing
  THEN r.messages # last.messages ELSE r.heard > last.t
(* Whether the target was heard since its last sample. *)
HeardSince(last, r, now) ==
  /\ now > last.t
  /\ IF r.messages # Nothing /\ last.messages # Nothing
     THEN r.messages # last.messages ELSE r.heard > last.t

AppendSample(samples, r, now) ==
  IF samples = <<>> \/ HeardSince(LastOf(samples), r, now)
  THEN Append(samples, [messages |-> r.messages, t |-> now])
  ELSE samples

(* Drops the first items, up to one that is young enough. *)
TrimOld(items, now) ==
  LET young == {i \in 1 .. Len(items) : items[i].t >= now - HISTORY_RETENTION_SEC} IN
  IF young = {} THEN <<>>
  ELSE SubSeq(items, CHOOSE i \in young : \A j \in young : i <= j, Len(items))

ToTrack(r, previous, now) ==
  [history |-> TrimOld(AppendFix(previous.history, r.at, r.positionHeard), now),
   samples |-> TrimOld(AppendSample(previous.samples, r, now), now),
   ops |-> previous.ops,
   position |-> IF r.at = Nothing THEN Nothing ELSE [at |-> r.at, by |-> project]]

(* What is remembered of a target has lapsed. *)
Lapsed(hex, now) ==
  LET samples == remembered[hex].samples IN
  samples = <<>> \/ now - LastOf(samples).t >= REMEMBERED_SEC

(* Mutated: what the operator set is left behind. *)
CarriedOfTrail(t) == [history |-> t.history, samples |-> t.samples, ops |-> freshOps]
CarriedOf(t) == [history |-> t.history, samples |-> t.samples, ops |-> t.ops]

(* What a target listed now carries on from. *)
Previous(hex, now) ==
  IF hex \in DOMAIN tracks THEN tracks[hex]
  ELSE IF hex \in DOMAIN remembered /\ ~Lapsed(hex, now) THEN remembered[hex]
  ELSE [history |-> <<>>, samples |-> <<>>, ops |-> freshOps]

(* The targets remembered from here on. *)
Left(s) ==
  ({h \in DOMAIN remembered : ~Lapsed(h, s.now)} \cup DOMAIN tracks)
    \ DOMAIN s.aircraft

-----------------------------------------------------------------------------
None == [h \in {} |-> Nothing]

Init ==
  /\ tracks = None /\ remembered = None /\ project \in Projections
  /\ statsNow = 0 /\ operated = None

(* TrackStore.ingest: a snapshot older than the last one is left alone. *)
Ingest(s) ==
  /\ s.now >= statsNow
  /\ tracks' = [h \in DOMAIN s.aircraft |->
                  ToTrack(s.aircraft[h], Previous(h, s.now), s.now)]
  /\ \A h \in DOMAIN s.aircraft : Len(tracks'[h].history) <= MaxTrail
  /\ remembered' = [h \in Left(s) |->
                      IF h \in DOMAIN tracks THEN CarriedOf(tracks[h]) ELSE remembered[h]]
  /\ statsNow' = s.now
  /\ operated' =
       [h \in {k \in DOMAIN operated : k \in DOMAIN tracks \/ ~Lapsed(k, s.now)} |->
          operated[h]]
  /\ UNCHANGED project

Reprojected(history, by) ==
  [i \in DOMAIN history |-> [history[i] EXCEPT !.by = by]]

(* Mutated: what is remembered stays as it was projected. *)
ReprojectListed(by) ==
  [h \in DOMAIN remembered |-> remembered[h]]
ReprojectRemembered(by) ==
  [h \in DOMAIN remembered |->
     [remembered[h] EXCEPT !.history = Reprojected(@, by)]]

(* TrackStore.reproject. *)
Reproject(by) ==
  /\ project' = by
  /\ tracks' = [h \in DOMAIN tracks |->
       [tracks[h] EXCEPT !.history = Reprojected(@, by),
                         !.position = IF @ = Nothing THEN Nothing
                                      ELSE [at |-> @.at, by |-> by]]]
  /\ remembered' = ReprojectRemembered(by)
  /\ UNCHANGED <<statsNow, operated>>

(* The operator drags the block of a target shown. *)
Drag(hex, dir) ==
  /\ hex \in DOMAIN tracks /\ tracks[hex].position # Nothing
  /\ tracks' = [tracks EXCEPT ![hex].ops = [dir |-> dir, manual |-> TRUE]]
  /\ operated' = [h \in DOMAIN operated \cup {hex} |->
                    IF h = hex THEN dir ELSE operated[h]]
  /\ UNCHANGED <<remembered, project, statsNow>>

Next ==
  \/ \E s \in Snapshots : Ingest(s)
  \/ \E by \in Projections : Reproject(by)
  \/ \E hex \in Hexes, dir \in Bearings : Drag(hex, dir)

Spec == Init /\ [][Next]_vars

-----------------------------------------------------------------------------
TypeOK ==
  /\ DOMAIN tracks \subseteq Hexes /\ DOMAIN remembered \subseteq Hexes
  /\ DOMAIN operated \subseteq Hexes
  /\ \A h \in DOMAIN tracks : tracks[h] \in Tracks
  /\ \A h \in DOMAIN remembered : remembered[h] \in Carried
  /\ \A h \in DOMAIN operated : operated[h] \in Bearings
  /\ project \in Projections /\ statsNow \in Times

(* A target is listed or remembered, never both: its trail is in one place.*)
OneCopy == DOMAIN tracks \cap DOMAIN remembered = {}

(* Every projected coordinate, of the targets gone too, is of the          *)
(* projection in use: a trail never bends where the projection changed.    *)
Projected ==
  /\ \A h \in DOMAIN tracks :
       /\ tracks[h].position # Nothing => tracks[h].position.by = project
       /\ \A i \in DOMAIN tracks[h].history : tracks[h].history[i].by = project
  /\ \A h \in DOMAIN remembered :
       \A i \in DOMAIN remembered[h].history : remembered[h].history[i].by = project

(* The samples of a target are of distinct times, oldest first, none older *)
(* than the retention while it is listed, and none of a snapshot to come.  *)
Ordered(samples) ==
  /\ \A i, j \in DOMAIN samples : i < j => samples[i].t < samples[j].t
  /\ \A i \in DOMAIN samples : samples[i].t <= statsNow
SamplesOrdered ==
  /\ \A h \in DOMAIN tracks :
       /\ Ordered(tracks[h].samples)
       /\ \A i \in DOMAIN tracks[h].samples :
            tracks[h].samples[i].t >= statsNow - HISTORY_RETENTION_SEC
  /\ \A h \in DOMAIN remembered : Ordered(remembered[h].samples)

(* A block stands where the operator dragged it, when the target is gone   *)
(* from the feed for a while too.                                          *)
OperatorKept ==
  \A h \in DOMAIN tracks :
    tracks[h].ops =
      IF h \in DOMAIN operated THEN [dir |-> operated[h], manual |-> TRUE]
      ELSE freshOps
=============================================================================
