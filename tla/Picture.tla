------------------------------ MODULE Picture -------------------------------
(***************************************************************************)
(* What the tracker hears of a source that comes and goes, and what the    *)
(* scope keeps of it: each snapshot published is taken by the track store, *)
(* or missed by a page that follows no session just then and is not given  *)
(* it among the history later.                                             *)
(***************************************************************************)
EXTENDS Traffic, Sequences

CONSTANTS
  HISTORY_RETENTION_SEC, REMEMBERED_SEC,
  MaxGap,  \* the longest the page goes without a snapshot published
  MaxAway  \* the longest the source is away

(* What the constants are taken to be, assumed where they are given values. *)
PictureAssumption ==
  /\ TrafficAssumption
  /\ {HISTORY_RETENTION_SEC, REMEMBERED_SEC} \subseteq Nat \ {0}
  /\ {MaxGap, MaxAway} \subseteq Nat

VARIABLES up,    \* whether the source is there
          made,  \* when a snapshot was last published
          tracks, kept, statsNow,
          \* history variables: when each address was last heard, and when it
          \* was last heard again after long enough to be another flight
          lastHeard, began

sourceVars == <<up, made>>
pageVars == <<tracks, kept, statsNow>>
flightVars == <<lastHeard, began>>
pictureVars == <<vars, sourceVars, pageVars, flightVars>>

Store == INSTANCE TrackStore WITH
  Hexes <- Addresses, Places <- Values, Projections <- {0}, Bearings <- {},
  Counts <- 0 .. MaxMessages, MaxTime <- MaxNow, MaxTrail <- MaxMessages,
  remembered <- kept, project <- 0,
  operated <- [h \in {} |-> Nothing]

(* Tracked.at, as far as the store keeps it. *)
Report(tracked) ==
  LET fix == Within(tracked.kept["fix"], LAPSE) IN
  [messages |-> tracked.messages, heard |-> tracked.seen,
   at |-> IF fix = Nothing THEN Nothing ELSE fix.said,
   positionHeard |-> IF fix = Nothing THEN tracked.seen ELSE fix.at]

(* The snapshot the tracker makes now. *)
Taking == [now |-> now, aircraft |-> [a \in {b \in Addresses : Listed(b)} |->
                                         Report(aircraft[a])]]

PictureInit ==
  /\ Init /\ up = TRUE /\ made = 0
  /\ tracks = Store!None /\ kept = Store!None /\ statsNow = 0
  /\ lastHeard = [a \in Addresses |-> Nothing]
  /\ began = [a \in Addresses |-> 0]

(* Time passes: a snapshot is published at every instant the source is     *)
(* there, and none while it is away.                                       *)
Pass ==
  /\ IF up THEN made = now ELSE now < made + MaxAway
  /\ Tick /\ UNCHANGED <<sourceVars, pageVars, flightVars>>

(* The source is lost, and found again: what was heard of it is kept.      *)
Lose == up /\ up' = FALSE /\ UNCHANGED <<vars, made, pageVars, flightVars>>
Find == ~up /\ up' = TRUE /\ UNCHANGED <<vars, made, pageVars, flightVars>>

(* An address heard again begins another flight, when it was not heard for *)
(* as long as it is remembered, and the snapshots that may miss it besides.*)
HearOf(a) ==
  /\ up /\ Listen(a)
  /\ lastHeard' = [lastHeard EXCEPT ![a] = now]
  /\ began' = IF /\ lastHeard[a] # Nothing
                 /\ now - lastHeard[a] >= REMEMBERED_SEC + MaxGap
              THEN [began EXCEPT ![a] = now] ELSE began
  /\ UNCHANGED <<sourceVars, pageVars>>

(* A snapshot is published, and the page takes it or misses it. *)
Publish == up /\ made < now /\ Snapshot /\ made' = now /\ UNCHANGED <<up, flightVars>>
Show == Publish /\ Store!Ingest(Taking)
Miss == Publish /\ now < statsNow + MaxGap /\ UNCHANGED pageVars

PictureNext ==
  Pass \/ Lose \/ Find \/ Show \/ Miss \/ \E a \in Addresses : HearOf(a)

PictureSpec == PictureInit /\ [][PictureNext]_pictureVars

-----------------------------------------------------------------------------
(* The trail and the samples of a track are of one flight: once a target   *)
(* was not heard for as long as it is remembered, it starts anew.          *)
OneSide(items, t) ==
  (\A i \in DOMAIN items : items[i].t >= t) \/ (\A i \in DOMAIN items : items[i].t < t)
FlightsApart ==
  \A a \in DOMAIN tracks :
    OneSide(tracks[a].samples, began[a]) /\ OneSide(tracks[a].history, began[a])

(* A trail runs forward in time, none of it older than the retention, so   *)
(* that what is too old is at its start, where it is dropped.              *)
TrailForward ==
  \A a \in DOMAIN tracks : LET history == tracks[a].history IN
    /\ \A i, j \in DOMAIN history : i < j => history[i].t <= history[j].t
    /\ \A i \in DOMAIN history : history[i].t >= statsNow - HISTORY_RETENTION_SEC
=============================================================================
