---------------------------------- MODULE Pfd ----------------------------------
(***************************************************************************)
(* What the primary flight display and the surveillance panel read of a    *)
(* target: each value while it holds, the modes and the box about one that *)
(* changed, the altitude as the crew reads it.  Time is in ticks; altitudes*)
(* are in feet, settings in steps off the standard one.                    *)
(***************************************************************************)
EXTENDS Integers, Sequences, SequencesExt, FiniteSetsExt

CONSTANTS
  None, OnGround,
  Reports,               \* what a snapshot may bring anew, by key
  LAPSE, MODE_CHANGE,    \* LAPSE_SEC and MODE_CHANGE_SEC
  FT_PER_STEP,           \* of the altimeter's setting
  Altimeters,            \* of the operator: the setting and the transition
  KEEP,                  \* how long a sample is kept
  MaxTime

PfdAssumption ==
  /\ {LAPSE, MODE_CHANGE, KEEP, MaxTime} \subseteq Nat \ {0}
  /\ MODE_CHANGE < LAPSE /\ LAPSE < KEEP

VARIABLES
  now,
  value, heard,          \* the values of the target, and when each was heard
  seen,                  \* when it last was
  samples,               \* its past: what it was at each snapshot it spoke in
  moment,                \* what is drawn: now, a sample by its place, or a gap
  altimeter,
  changed                \* history: when each column came to read as it does

vars == <<now, value, heard, seen, samples, moment, altimeter, changed>>

Keys == {"alt", "selAlt", "fmsAlt", "navQnh", "navModes", "ias", "roll", "verticalRate",
         "gs", "heading", "track", "nic", "rc", "position"}
Now == 0
Gap == -1
Columns == {"lateral", "vertical"}
Abs(v) == IF v < 0 THEN -v ELSE v

-----------------------------------------------------------------------------
(* holds, oldestHeard and holdsAll: of a key never heard nothing is asked, *)
(* unless none was; eachHolds asks each.                                   *)
Holds(at, instant, lapse) == at # None /\ instant - at < lapse
Oldest(r, keys) ==
  LET times == {r.heard[k] : k \in keys} \ {None} IN IF times = {} THEN None ELSE Min(times)
HoldsAll(r, keys, instant) == Holds(Oldest(r, keys), instant, LAPSE)
EachHolds(r, keys, instant) == \A k \in keys : HoldsAll(r, {k}, instant)
IfHolds(r, k, instant) == IF HoldsAll(r, {k}, instant) THEN r.value[k] ELSE None
IsLost(r, instant) == instant - r.seen >= LAPSE

(* momentOf: what is drawn, and when its freshness is judged. *)
Target == [value |-> value, heard |-> heard, seen |-> seen, t |-> now]
Drawn == IF moment = Now THEN Target ELSE samples[moment]
Instant == Drawn.t

-----------------------------------------------------------------------------
(* displayAltitude and crewAltitudeFt: on the crew's own setting when they *)
(* sent it, else the operator's, below the transition; the level above.    *)
QnhAltitude(ft, setting) == ft + setting * FT_PER_STEP
CrewAltitude(r) ==
  LET setting == IF r.value.navQnh = None THEN altimeter.setting ELSE r.value.navQnh
      ft == QnhAltitude(r.value.alt, setting)
  IN IF r.value.alt \in {None, OnGround} THEN None
     ELSE IF ft < altimeter.transition THEN ft ELSE r.value.alt
(* selectedFt: to the hundred; holdsSelected: within the tolerance. *)
SelectedFt(ft) == ((ft + 50) \div 100) * 100
LEVEL_TOLERANCE == 200
HoldsSelected(r) ==
  /\ CrewAltitude(r) # None /\ r.value.selAlt # None
  /\ Abs(CrewAltitude(r) - r.value.selAlt) <= LEVEL_TOLERANCE

-----------------------------------------------------------------------------
(* fmaColumns: the first of a column's modes that is engaged. *)
FmaColumns(modes) ==
  [c \in Columns |->
     LET order == IF c = "lateral" THEN <<"approach", "lnav">> ELSE <<"althold", "vnav">>
         engaged == {i \in 1 .. 2 : order[i] \in modes}
     IN IF engaged = {} THEN None ELSE order[Min(engaged)]]
TextOf(modes, column) == IF modes = None THEN None ELSE FmaColumns(modes)[column]

(* modeChangedAt: of the samples up to an instant whose modes held when    *)
(* they were taken, that from which on the column reads as at the last.    *)
(* Mutated: samples from before the modes were heard count, as blank ones. *)
CountedAny(s) == TRUE
Counted(s) == s.value.navModes # None /\ HoldsAll(s, {"navModes"}, s.t)
ModeChangedAt(column, instant) ==
  LET counted == SelectSeq(samples, LAMBDA s : s.t <= instant /\ Counted(s))
      text(i) == TextOf(counted[i].value.navModes, column)
      last == Len(counted)
      first == Min({i \in 1 .. last : \A j \in i .. last : text(j) = text(last)})
  IN IF last = 0 THEN None
     ELSE IF text(last) = None \/ first = 1 THEN None ELSE counted[first].t

(* pfdFma: blank once lost or lapsed. *)
EmptyFma == [columns |-> [c \in Columns |-> None], ap |-> FALSE, boxed |-> [c \in Columns |-> FALSE]]
PfdFma ==
  IF moment = Gap THEN EmptyFma
  ELSE LET modes == Drawn.value.navModes
       IN IF IsLost(Drawn, Instant) \/ modes = None \/ ~HoldsAll(Drawn, {"navModes"}, Instant)
          THEN EmptyFma
          ELSE [columns |-> FmaColumns(modes), ap |-> "autopilot" \in modes,
                boxed |-> [c \in Columns |->
                             /\ FmaColumns(modes)[c] # None
                             /\ Holds(ModeChangedAt(c, Instant), Instant, MODE_CHANGE)]]

(* altitudeOf: the setting is not aged. *)
AltitudeOf(r, instant) ==
  IF ~HoldsAll(r, {"alt"}, instant) THEN [kind |-> "flag"]
  ELSE IF r.value.alt = OnGround THEN [kind |-> "ground"]
  ELSE IF CrewAltitude(r) = None THEN [kind |-> "flag"]
  ELSE [kind |-> "feet", ft |-> CrewAltitude(r)]

(* fpvOf and driftOf: the path while what it is made of holds and the      *)
(* aircraft is under way; off the heading only while both hold.            *)
DriftOf(r, instant) ==
  IF {r.value.heading, r.value.track} \cap {None} = {}
     /\ EachHolds(r, {"heading", "track"}, instant)
  THEN r.value.track - r.value.heading ELSE 0
FpvOf(r, instant) ==
  IF r.value.verticalRate = None \/ r.value.gs = None THEN None
  ELSE IF r.value.gs <= 0 \/ ~EachHolds(r, {"roll", "verticalRate", "gs"}, instant) THEN None
  ELSE [climb |-> r.value.verticalRate, drift |-> DriftOf(r, instant)]

(* pfdReadouts: each value on its own, none over a gap nor once lost; the  *)
(* FMS altitude is hidden when it is the selected one.                     *)
EmptyReadouts ==
  [ias |-> None, roll |-> None, fpv |-> None, altitude |-> [kind |-> "flag"],
   selAlt |-> None, fmsAlt |-> None, vs |-> None, baro |-> None]
PfdReadouts ==
  IF moment = Gap THEN EmptyReadouts
  ELSE IF IsLost(Drawn, Instant) THEN EmptyReadouts
  ELSE LET read(k) == IfHolds(Drawn, k, Instant)
           set(k) == IF read(k) = None THEN None ELSE SelectedFt(read(k))
       IN [ias |-> read("ias"), roll |-> read("roll"), fpv |-> FpvOf(Drawn, Instant),
           altitude |-> AltitudeOf(Drawn, Instant), selAlt |-> set("selAlt"),
           fmsAlt |-> IF set("fmsAlt") = set("selAlt") THEN None ELSE set("fmsAlt"),
           vs |-> read("verticalRate"), baro |-> read("navQnh")]

(* survCells: the position and the age dim once the position is stale, one *)
(* never heard is not; the quality is read while it holds.                 *)
IsStale(r, instant) == r.heard.position # None /\ ~HoldsAll(r, {"position"}, instant)
SurvCells ==
  IF moment = Gap THEN [c \in {"pos", "nic", "age"} |-> [r |-> None, dim |-> TRUE]]
  ELSE LET nic == IF HoldsAll(Drawn, {"nic", "rc"}, Instant) THEN Drawn.value.nic ELSE None
       IN [pos |-> [r |-> Drawn.value.position,
                    dim |-> Drawn.value.position = None \/ IsStale(Drawn, Instant)],
           nic |-> [r |-> nic, dim |-> nic = None],
           age |-> [r |-> Instant - Drawn.seen, dim |-> IsStale(Drawn, Instant)]]

-----------------------------------------------------------------------------
Init ==
  /\ now = 0
  /\ value = [k \in Keys |-> None] /\ heard = [k \in Keys |-> None] /\ seen = 0
  /\ samples = <<[value |-> value, heard |-> heard, seen |-> 0, t |-> 0]>>
  /\ moment = Now
  /\ altimeter \in Altimeters
  /\ changed = [c \in Columns |-> [text |-> None, at |-> None, count |-> 0]]

(* A snapshot: what was said since is taken, and is a sample of the past   *)
(* when anything was; the oldest samples go.                               *)
Snapshot(said) ==
  /\ now < MaxTime
  /\ now' = now + 1
  /\ value' = said @@ value
  /\ heard' = [k \in DOMAIN said |-> now'] @@ heard
  /\ seen' = IF DOMAIN said = {} THEN seen ELSE now'
  /\ samples' =
       SelectSeq(IF DOMAIN said = {} THEN samples
                 ELSE Append(samples, [value |-> value', heard |-> heard', seen |-> now',
                                       t |-> now']),
                 LAMBDA s : s.t >= now' - KEEP)
  /\ moment' = Now
  /\ changed' =
       IF DOMAIN said = {} \/ ~Holds(heard'.navModes, now', LAPSE) THEN changed
       ELSE [c \in Columns |->
               LET text == TextOf(value'.navModes, c)
               IN IF text = changed[c].text THEN [changed[c] EXCEPT !.count = 1]
                  ELSE [text |-> text, count |-> 1,
                        at |-> IF changed[c].count = 0 THEN None ELSE now']]
  /\ UNCHANGED altimeter

(* The lanes read the past: a sample, or where there is none. *)
Peek ==
  /\ moment' \in DOMAIN samples \cup {Now, Gap}
  /\ UNCHANGED <<now, value, heard, seen, samples, altimeter, changed>>

Next == (\E said \in Reports : Snapshot(said)) \/ Peek

Spec == Init /\ [][Next]_vars

-----------------------------------------------------------------------------
(* A column is boxed for as long after it came to read as it does, and no  *)
(* longer: not when its modes were first heard, nor when they were heard   *)
(* again as they had been before they lapsed; and never when it is blank.  *)
BoxesStand ==
  /\ \A c \in Columns : PfdFma.boxed[c] => PfdFma.columns[c] # None
  /\ moment = Now =>
       \A c \in Columns :
         PfdFma.columns[c] # None =>
           (PfdFma.boxed[c] <=> Holds(changed[c].at, now, MODE_CHANGE))

(* What is drawn together agrees: the altitude and its bug stand together  *)
(* when the data block ticks the selected altitude as held, and apart when *)
(* it does not; a flight path has an attitude under it and a needle beside *)
(* it; two altitudes selected are never drawn as one; nothing is read of a *)
(* target that is lost; and a sample just taken reads as now.              *)
ReadsTogether ==
  \A r \in {PfdReadouts}, cells \in {SurvCells} :
     /\ r.altitude.kind = "feet" /\ r.selAlt # None =>
          \A apart \in {Abs(r.altitude.ft - r.selAlt)} :
            (HoldsSelected(Drawn) => apart <= 250) /\ (apart <= 150 => HoldsSelected(Drawn))
     /\ r.fpv # None => r.roll # None /\ r.vs # None
     /\ r.fmsAlt # None => r.fmsAlt # r.selAlt
     /\ moment # Gap /\ IsLost(Drawn, Instant) =>
          r = EmptyReadouts /\ PfdFma = EmptyFma /\ cells.pos.dim
     /\ cells.pos.dim <=> cells.age.dim \/ cells.pos.r = None
     /\ moment = Now /\ samples # <<>> =>
          LET last == samples[Len(samples)]
          IN last.t = now => [last EXCEPT !.t = 0] = [Target EXCEPT !.t = 0]
=============================================================================
