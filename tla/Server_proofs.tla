--------------------------- MODULE Server_proofs ---------------------------
(***************************************************************************)
(* What the tasks of the server promise, for every value of the constants: *)
(* first the authority and its door, then each task as the whole server    *)
(* runs it.                                                                *)
(***************************************************************************)
EXTENDS MCServer, FiniteSetTheorems, SequenceTheorems, TLAPS

-----------------------------------------------------------------------------
(* The authority: for every number of stops and of authorities made.  What *)
(* makes its promises hold is the order in which the files are written: a  *)
(* certificate is there only with its key.                                 *)

(* The files, as far as the phase does not matter. *)
Files ==
  /\ crt # None => key \in Nat
  /\ crt \in Nat => key = crt

(* Devices were given the authority kept, or none. *)
Given == trusted # {} => crt \in Nat /\ trusted = {crt}

(* What the server that runs has, at each step of open. *)
Keeping ==
  /\ phase = "key" => crt = None /\ held \in Nat
  /\ phase = "crt" => crt = Part /\ held \in Nat /\ key = held

Running == phase = "opened" => crt \in Nat /\ held = crt

Inductive == TypeOK /\ Files /\ Given /\ Keeping /\ Running

-----------------------------------------------------------------------------
LEMMA Initially == Init => Inductive
  BY AuthorityBounds, FilesAssumption, ClockAssumption
  DEF Init, Inductive, TypeOK, Files, Given, Keeping, Running, Authorities

(* A new authority is made only while there is no certificate. *)
LEMMA NoneKept == Inductive /\ (crt = None \/ key = None) => crt = None /\ trusted = {}
  BY FilesAssumption DEF Inductive, Files, Given

LEMMA OpenKeeps == Inductive /\ Open => Inductive'
<1> SUFFICES ASSUME Inductive, Open PROVE Inductive'
  OBVIOUS
<1>1. CASE crt = None \/ key = None
  <2>1. Create
    BY <1>1 DEF Open
  <2>2. crt = None /\ trusted = {}
    BY <1>1, NoneKept
  <2>3. TypeOK'
    <3>1. begun' \in Seq(Times) /\ Len(begun') = made + 1
      BY <2>1 DEF Create, Inductive, TypeOK
    <3>2. QED
      BY <2>1, <3>1, AuthorityBounds, FilesAssumption DEF Create, Inductive, TypeOK, Authorities
  <2>4. (Files /\ Given)'
    BY <2>1, <2>2, AuthorityBounds, FilesAssumption
    DEF Create, Inductive, TypeOK, Files, Given, Authorities
  <2>5. (Keeping /\ Running)'
    BY <2>1, <2>2, AuthorityBounds, FilesAssumption
    DEF Create, Inductive, TypeOK, Keeping, Running, Authorities
  <2>6. QED
    BY <2>3, <2>4, <2>5 DEF Inductive
<1>2. CASE crt # None /\ key # None
  <2> USE <1>2, FilesAssumption, AuthorityBounds
  <2>1. (TypeOK /\ Files /\ Given /\ Keeping)'
    BY DEF Open, Usable, Inductive, TypeOK, Files, Given, Keeping, Authorities
  <2>2. Running'
    BY DEF Open, Usable, Inductive, TypeOK, Files, Running, Authorities
  <2>3. QED
    BY <2>1, <2>2 DEF Inductive
<1>3. QED
  BY <1>1, <1>2

LEMMA KeepKeyKeeps == Inductive /\ KeepKey => Inductive'
<1> SUFFICES ASSUME Inductive, KeepKey PROVE Inductive'
  OBVIOUS
<1> USE AuthorityBounds, FilesAssumption
<1>1. held \in Authorities \cap Nat
  BY DEF Inductive, KeepKey, Keeping, TypeOK
<1>2. QED
  BY <1>1 DEF KeepKey, Inductive, TypeOK, Files, Given, Keeping, Running, Authorities

LEMMA KeepCrtKeeps == Inductive /\ KeepCrt => Inductive'
<1> SUFFICES ASSUME Inductive, KeepCrt PROVE Inductive'
  OBVIOUS
<1> USE AuthorityBounds, FilesAssumption
<1>1. held \in Authorities \cap Nat /\ key = held /\ trusted = {}
  BY DEF Inductive, KeepCrt, Keeping, Given, TypeOK
<1>2. QED
  BY <1>1 DEF KeepCrt, Inductive, TypeOK, Files, Given, Keeping, Running, Authorities

LEMMA RunningKeeps == Inductive /\ (Trust \/ Stop \/ SetClock) => Inductive'
<1> SUFFICES ASSUME Inductive PROVE Trust \/ Stop \/ SetClock => Inductive'
  OBVIOUS
<1> USE AuthorityBounds, FilesAssumption
<1>1. ASSUME Trust PROVE Inductive'
  BY <1>1 DEF Trust, Inductive, TypeOK, Files, Given, Keeping, Running, Authorities
<1>2. ASSUME Stop PROVE Inductive'
  BY <1>2 DEF Stop, Inductive, TypeOK, Files, Given, Keeping, Running, Authorities
<1>3. ASSUME SetClock PROVE Inductive'
  BY <1>3 DEF SetClock, Inductive, TypeOK, Files, Given, Keeping, Running, Authorities
<1>4. QED
  BY <1>1, <1>2, <1>3

LEMMA InductiveHolds == Spec => []Inductive
<1>1. Inductive /\ [Next]_vars => Inductive'
  <2> SUFFICES ASSUME Inductive, [Next]_vars PROVE Inductive'
    OBVIOUS
  <2>1. CASE UNCHANGED vars
    BY <2>1 DEF vars, Inductive, TypeOK, Files, Given, Keeping, Running
  <2>2. CASE Next
    BY <2>2, OpenKeeps, KeepKeyKeeps, KeepCrtKeeps, RunningKeeps DEF Next
  <2>3. QED
    BY <2>1, <2>2
<1>2. QED
  BY Initially, <1>1, PTL DEF Spec

(* A device trusts the server once for good: whatever the number of stops, *)
(* and wherever they fall, the files never mix two authorities, devices    *)
(* are given one at most, and the server goes by it.                       *)
THEOREM TrustedOnceHolds == Spec => []TrustedOnce
<1>1. Inductive => TrustedOnce
  <2> SUFFICES ASSUME Inductive PROVE TrustedOnce
    OBVIOUS
  <2>1. trusted = {} \/ trusted = {crt}
    BY DEF Inductive, Given
  <2>2. Cardinality(trusted) <= 1
    <3>1. Cardinality({}) = 0 /\ Cardinality({crt}) = 1
      BY FS_EmptySet, FS_Singleton
    <3>2. QED
      BY <2>1, <3>1
  <2>3. phase = "opened" /\ trusted # {} => held \in trusted
    BY DEF Inductive, Given, Running
  <2>4. crt \in Nat => key = crt
    BY DEF Inductive, Files
  <2>5. QED
    BY <2>2, <2>3, <2>4 DEF TrustedOnce
<1>2. QED
  BY InductiveHolds, <1>1, PTL

(* What is kept is refused at a start only while the clock is outside the  *)
(* validity of the authority, before it was made or after its end, or when *)
(* its certificate was never written to its end and no device was given    *)
(* it.  A step that refuses is one of open, and of the files it reads      *)
(* Inductive says that whole ones are each other's.                        *)
THEOREM RefusedOnlyWhenHolds == Spec => RefusedOnlyWhen
<1> DEFINE Allowed == phase = "read" /\ phase' = "refused" =>
                        \/ crt \in Nat /\ ~Valid(crt)
                        \/ crt = Part /\ trusted = {}
<1>1. Inductive /\ Next => Allowed
  <2> SUFFICES ASSUME Inductive, Next, phase = "read", phase' = "refused"
               PROVE  (crt \in Nat /\ ~Valid(crt)) \/ (crt = Part /\ trusted = {})
    OBVIOUS
  <2>1. Open
    BY DEF Next, KeepKey, KeepCrt, Trust, Stop, SetClock
  <2>2. crt # None /\ key # None /\ ~Usable
    BY <2>1 DEF Open, Create
  <2>3. CASE crt \in Nat
    BY <2>2, <2>3 DEF Usable, Inductive, Files
  <2>4. CASE crt = Part
    BY <2>4, FilesAssumption DEF Inductive, Given
  <2>5. crt \in Nat \/ crt = Part
    BY <2>2, AuthorityBounds DEF Inductive, TypeOK, Authorities
  <2>6. QED
    BY <2>3, <2>4, <2>5
<1>2. Inductive /\ [Next]_vars => [Allowed]_vars
  BY <1>1
<1>3. QED
  BY InductiveHolds, <1>2, PTL DEF Spec, RefusedOnlyWhen

-----------------------------------------------------------------------------
(* The door: for any subjects, and whatever the browsers name.             *)

(* A step of the door is a step of the authority, or none of its. *)
LEMMA DoorStepsOfAuthority == [DoorNext]_<<vars, doorVars>> => [Next]_vars
  BY DEF DoorNext, Serve, Pass, Connect

LEMMA DoorIsAuthority == DoorSpec => Spec
<1>1. DoorInit => Init
  BY DEF DoorInit
<1>2. QED
  BY <1>1, DoorStepsOfAuthority, PTL DEF DoorSpec, Spec

(* A certificate kept is of its subject and of the authority that is gone  *)
(* by, and there is none while the server does not answer.                 *)
Signed ==
  /\ only \in Subjects \cup {None}
  /\ IsFiniteSet(DOMAIN issued) /\ Cardinality(DOMAIN issued) <= MOST_SUBJECTS
  /\ phase # "opened" => issued = <<>>
  /\ \A s \in DOMAIN issued : issued[s] \in [of : {s}, by : {held}, age : Nat]

(* What was shown last still holds. *)
Shown ==
  shown # None =>
    /\ shown.certificate.of = shown.opened
    /\ trusted \subseteq {shown.certificate.by}
    /\ shown.certificate.age < REISSUE_AFTER
    /\ only \in {None, shown.opened}

LEMMA NothingIssued == DOMAIN <<>> = {} /\ IsFiniteSet({}) /\ Cardinality({}) = 0
  BY FS_EmptySet

LEMMA SignedAtStart == DoorInit => Signed /\ Shown
  BY NothingIssued, DoorAssumption DEF DoorInit, Signed, Shown

(* There is room for one more. *)
LEMMA RoomIs ==
  ASSUME Signed
  PROVE  /\ IsFiniteSet(DOMAIN Room)
         /\ Cardinality(DOMAIN Room) \in Nat /\ Cardinality(DOMAIN Room) < MOST_SUBJECTS
         /\ \A s \in DOMAIN Room : Room[s] \in [of : {s}, by : {held}, age : Nat]
<1>1. CASE Full
  BY <1>1, NothingIssued, DoorAssumption DEF Room
<1>2. CASE ~Full
  <2>1. Cardinality(DOMAIN issued) \in Nat
    BY FS_CardinalityType DEF Signed
  <2>2. QED
    BY <1>2, <2>1, DoorAssumption DEF Full, Room, Signed
<1>3. QED
  BY <1>1, <1>2

(* Issuing keeps to the most there may be. *)
LEMMA IssueKeeps ==
  ASSUME Signed, NEW subject
  PROVE  /\ subject \in DOMAIN Issue(subject)
         /\ IsFiniteSet(DOMAIN Issue(subject))
         /\ Cardinality(DOMAIN Issue(subject)) <= MOST_SUBJECTS
         /\ \A s \in DOMAIN Issue(subject) :
              Issue(subject)[s] \in [of : {s}, by : {held}, age : Nat]
         /\ Issue(subject)[subject].age = 0
<1>1. DOMAIN Issue(subject) = DOMAIN Room \cup {subject}
  BY DEF Issue
<1>2. /\ IsFiniteSet(DOMAIN Room \cup {subject})
      /\ Cardinality(DOMAIN Room \cup {subject}) <= Cardinality(DOMAIN Room) + 1
  BY RoomIs, FS_AddElement
<1>3. \A s \in DOMAIN Room \cup {subject} :
        Issue(subject)[s] = IF s = subject THEN [of |-> s, by |-> held, age |-> 0] ELSE Room[s]
  BY DEF Issue
<1>4. Issue(subject)[subject] = [of |-> subject, by |-> held, age |-> 0]
  BY <1>3
<1>5. \A s \in DOMAIN Room : s # subject => Issue(subject)[s] = Room[s]
  BY <1>3
<1>6. Cardinality(DOMAIN Issue(subject)) <= MOST_SUBJECTS
  <2>1. Cardinality(DOMAIN Room \cup {subject}) \in Nat
    BY <1>2, FS_CardinalityType
  <2>2. QED
    BY <1>1, <1>2, <2>1, RoomIs, DoorAssumption
<1>7. \A s \in DOMAIN Issue(subject) : Issue(subject)[s] \in [of : {s}, by : {held}, age : Nat]
  BY <1>1, <1>4, <1>5, RoomIs
<1>8. Issue(subject)[subject].age = 0
  BY <1>4
<1>9. QED
  BY <1>1, <1>2, <1>6, <1>7, <1>8

(* What a connection is shown is good. *)
LEMMA ConnectKeeps ==
  ASSUME Inductive, Signed,
         NEW hello \in Subjects \cup {Unnamed}, NEW reached \in Subjects,
         Connect(hello, reached)
  PROVE  (Signed /\ Shown)'
<1> DEFINE subject == SubjectOf(hello, reached)
           good(certificates) ==
             /\ subject \in DOMAIN certificates /\ IsFiniteSet(DOMAIN certificates)
             /\ Cardinality(DOMAIN certificates) <= MOST_SUBJECTS
             /\ \A s \in DOMAIN certificates :
                  certificates[s] \in [of : {s}, by : {held}, age : Nat]
             /\ certificates[subject].age < REISSUE_AFTER
           shows(certificates) ==
             shown' = [opened |-> subject, certificate |-> certificates[subject]]
<1>1. phase = "opened" /\ UNCHANGED <<vars, only>>
  BY DEF Connect
<1>2. trusted \subseteq {held} /\ trusted' = trusted /\ held' = held
  BY <1>1 DEF Inductive, Given, Running, vars
<1>3. ASSUME NEW certificates, good(certificates), issued' = certificates, shows(certificates),
             only \in {None, subject}
      PROVE  (Signed /\ Shown)'
  <2> HIDE DEF subject
  <2>1. Signed'
    BY <1>1, <1>2, <1>3 DEF Signed, vars
  <2>2. Shown'
    BY <1>1, <1>2, <1>3 DEF Shown
  <2>3. QED
    BY <2>1, <2>2
<1>4. CASE UNCHANGED issued /\ shown' = None
  BY <1>1, <1>4 DEF Signed, Shown, vars
<1>5. CASE only \in {None, subject} /\ Kept(subject) /\ UNCHANGED issued /\ shows(issued)
  <2>1. good(issued)
    BY <1>5 DEF Kept, Signed
  <2>2. QED
    BY <1>3, <1>5, <2>1
<1>6. CASE only \in {None, subject} /\ issued' = Issue(subject) /\ shows(Issue(subject))
  <2>1. good(Issue(subject))
    BY IssueKeeps, DoorAssumption
  <2>2. QED
    BY <1>3, <1>6, <2>1
<1>7. CASE issued' = Room /\ shown' = None
  <2>1. Cardinality(DOMAIN Room) <= MOST_SUBJECTS
    BY RoomIs, DoorAssumption
  <2>2. QED
    BY <1>1, <1>2, <1>7, <2>1, RoomIs DEF Signed, Shown, vars
<1>8. QED
  BY <1>4, <1>5, <1>6, <1>7 DEF Connect

LEMMA PassKeeps == ASSUME Signed, Pass PROVE (Signed /\ Shown)'
<1>1. DOMAIN issued' = DOMAIN issued /\ shown' = None /\ UNCHANGED <<vars, only>>
  BY DEF Pass
<1>2. phase # "opened" => issued' = <<>>
  <2> SUFFICES ASSUME phase # "opened" PROVE issued' = <<>>
    OBVIOUS
  <2>1. issued = <<>> /\ DOMAIN issued = {}
    BY NothingIssued DEF Signed
  <2>2. QED
    BY <2>1 DEF Pass
<1>3. \A s \in DOMAIN issued : issued'[s] \in [of : {s}, by : {held}, age : Nat]
  <2> SUFFICES ASSUME NEW s \in DOMAIN issued
               PROVE  issued'[s] \in [of : {s}, by : {held}, age : Nat]
    OBVIOUS
  <2>1. issued[s] \in [of : {s}, by : {held}, age : Nat]
    BY DEF Signed
  <2>2. issued'[s] = [issued[s] EXCEPT !.age = IF issued[s].age < CERTIFICATE_LASTS
                                               THEN issued[s].age + 1 ELSE issued[s].age]
    BY DEF Pass
  <2>3. QED
    BY <2>1, <2>2
<1>4. QED
  BY <1>1, <1>2, <1>3 DEF Signed, Shown, vars

LEMMA ServeKeeps == ASSUME Signed, Serve PROVE (Signed /\ Shown)'
<1>1. shown' = None /\ only' = only /\ issued' = IF phase' = "read" THEN <<>> ELSE issued
  BY DEF Serve
<1>2. Shown'
  BY <1>1 DEF Shown
<1>3. CASE phase' = "read"
  <2>1. issued' = <<>> /\ DOMAIN issued' = {}
    BY <1>1, <1>3, NothingIssued
  <2>2. 0 <= MOST_SUBJECTS
    BY DoorAssumption
  <2>3. QED
    BY <1>1, <1>2, <1>3, <2>1, <2>2, NothingIssued DEF Signed
<1>4. CASE phase' # "read"
  <2>1. phase = "opened" => phase' = "opened" /\ held' = held
    BY <1>4 DEF Serve, Next, Open, Create, KeepKey, KeepCrt, Trust, Stop, SetClock
  <2>2. phase # "opened" => \A s \in DOMAIN issued : FALSE
    BY NothingIssued DEF Signed
  <2>3. QED
    BY <1>1, <1>2, <1>4, <2>1, <2>2 DEF Signed
<1>5. QED
  BY <1>2, <1>3, <1>4

(* A connection is shown a certificate for what its browser opened, signed *)
(* by the authority every device trusts, with as much left as one that is  *)
(* to be issued anew has, whatever was issued before, however old, and     *)
(* however often the server stopped; and of no more subjects than          *)
(* MOST_SUBJECTS is a certificate kept (certificates.rs: a stop forgets    *)
(* them, and a full table is emptied before one is added).                 *)
THEOREM ShownGoodHolds == DoorSpec => []ShownGood
<1>1. DoorInit => Signed /\ Shown
  BY SignedAtStart
<1>2. Inductive /\ Signed /\ Shown /\ [DoorNext]_<<vars, doorVars>> => (Signed /\ Shown)'
  <2> SUFFICES ASSUME Inductive, Signed, Shown, [DoorNext]_<<vars, doorVars>>
               PROVE  (Signed /\ Shown)'
    OBVIOUS
  <2>1. CASE UNCHANGED <<vars, doorVars>>
    BY <2>1 DEF vars, doorVars, Signed, Shown
  <2>2. CASE DoorNext
    BY <2>2, ConnectKeeps, PassKeeps, ServeKeeps DEF DoorNext
  <2>3. QED
    BY <2>1, <2>2
<1>3. Signed /\ Shown => ShownGood
  BY DEF Signed, Shown, ShownGood
<1>4. QED
  BY <1>1, <1>2, <1>3, DoorIsAuthority, InductiveHolds, PTL DEF DoorSpec

-----------------------------------------------------------------------------
(* The following of the source: for any lengths of the periods and however *)
(* late the task is.                                                       *)

(* While a connection is heard, the time since the last snapshot and the   *)
(* time to the next make up a period, unless a whole one has passed; and   *)
(* what it was quiet for when it last ticked was not long enough to tell.  *)
Paced ==
  /\ since \in 0 .. every /\ due \in Int /\ quiet \in Nat
  /\ sourcePhase = "hearing" =>
       /\ since = every \/ since + due >= every
       /\ -LATE <= due /\ due <= every
       /\ quiet + due < SILENT_FOR + every

LEMMA PacedAtStart == ASSUME Source!FollowAssumption PROVE Source!Init => Paced
  BY DEF Source!FollowAssumption, Source!Init, Paced

LEMMA PacedKept ==
  ASSUME Source!FollowAssumption, Paced, [Source!Next]_(Source!vars)
  PROVE  Paced' /\ (Source!SpacedStep \/ UNCHANGED Source!vars)
<1> USE DEF Source!FollowAssumption, Paced, Source!SpacedStep, Source!Lose
<1>1. CASE Source!Connect
  BY <1>1 DEF Source!Connect
<1>2. CASE Source!Refused \/ Source!End \/ Source!Retry \/ Source!Close
  BY <1>2 DEF Source!Refused, Source!End, Source!Retry, Source!Close
<1>3. CASE Source!Hear \/ Source!Go \/ Source!Return
  BY <1>3 DEF Source!Hear, Source!Go, Source!Return
<1>4. CASE Source!Tick
  <2>1. sourcePhase = "hearing" /\ due <= 0 /\ since = every
    BY <1>4 DEF Source!Tick
  <2>2. CASE Source!Silent
    BY <1>4, <2>1, <2>2 DEF Source!Tick
  <2>3. CASE ~Source!Silent
    BY <1>4, <2>1, <2>3 DEF Source!Tick, Source!Publish, Source!NextTick, Source!Silent
  <2>4. QED
    BY <2>2, <2>3
<1>5. CASE Source!Pass
  <2>1. since' \in 0 .. every /\ (since' = every \/ since' = since + 1)
    BY <1>5 DEF Source!Pass, Source!AtMost
  <2>2. sourcePhase' = sourcePhase /\ snapshots' = snapshots
    BY <1>5 DEF Source!Pass
  <2>3. CASE sourcePhase = "hearing"
    <3>1. due > -LATE /\ due' = due - 1
      BY <1>5, <2>3 DEF Source!Pass
    <3>2. quiet' \in Nat /\ quiet' <= quiet + 1
      BY <1>5, <2>3 DEF Source!Pass, Source!AtMost, Source!MaxQuiet
    <3>3. QED
      BY <2>1, <2>2, <2>3, <3>1, <3>2
  <2>4. CASE sourcePhase # "hearing"
    BY <1>5, <2>1, <2>2, <2>4 DEF Source!Pass
  <2>5. QED
    BY <2>3, <2>4
<1>6. CASE UNCHANGED Source!vars
  BY <1>6 DEF Source!vars
<1>7. QED
  BY <1>1, <1>2, <1>3, <1>4, <1>5, <1>6 DEF Source!Next

(* However late the task gets to its ticks and however often connections   *)
(* are lost, no two snapshots are published within a period (follow.rs:108:*)
(* a tick missed is not made up for).                                      *)
THEOREM SourceSpaced == ASSUME Source!FollowAssumption PROVE Source!Spec => Source!Spaced
<1>1. Source!Init => Paced
  BY PacedAtStart
<1>2. Paced /\ [Source!Next]_(Source!vars)
        => Paced' /\ (Source!SpacedStep \/ UNCHANGED Source!vars)
  BY PacedKept
<1>3. QED
  BY <1>1, <1>2, PTL DEF Source!Spec, Source!Spaced

(* A connection that says nothing is given up at the first tick after its  *)
(* silence tells, of which there is one every period (follow.rs:121).      *)
THEOREM NoticesSilenceHolds ==
  ASSUME Source!FollowAssumption PROVE Source!Spec => []Source!NoticesSilence
<1>1. Source!Init => Paced
  BY PacedAtStart
<1>2. Paced /\ [Source!Next]_(Source!vars) => Paced'
  BY PacedKept
<1>3. Paced => Source!NoticesSilence
  BY DEF Source!FollowAssumption, Paced, Source!NoticesSilence
<1>4. QED
  BY <1>1, <1>2, <1>3, PTL DEF Source!Spec

LEMMA SourceLengths ==
  ASSUME Source!FollowAssumption
  PROVE  /\ every \in Nat \ {0} /\ SILENT_FOR \in Nat \ {0} /\ RETRY_AFTER \in Nat \ {0}
         /\ LATE \in Nat /\ Source!MaxQuiet \in Nat
         /\ Source!MaxQuiet = SILENT_FOR + every + LATE
  BY DEF Source!FollowAssumption, Source!MaxQuiet

LEMMA SourceTyped ==
  ASSUME Source!FollowAssumption, Source!TypeOK, [Source!Next]_(Source!vars)
  PROVE  Source!TypeOK'
<1>1. source' \in BOOLEAN /\ link' \in BOOLEAN
  BY DEF Source!TypeOK, Source!Next, Source!vars, Source!Connect, Source!Refused,
     Source!Hear, Source!End, Source!Tick, Source!Retry, Source!Close, Source!Go, Source!Return,
         Source!Pass, Source!Lose, Source!Publish
<1>2. sourcePhase' \in {"connecting", "hearing", "retrying", "over"}
  BY DEF Source!TypeOK, Source!Next, Source!vars, Source!Connect, Source!Refused,
     Source!Hear, Source!End, Source!Tick, Source!Retry, Source!Close, Source!Go, Source!Return,
         Source!Pass, Source!Lose, Source!Publish
<1>3. /\ quiet' \in 0 .. Source!MaxQuiet /\ due' \in -LATE .. every
      /\ wait' \in 0 .. RETRY_AFTER /\ since' \in 0 .. every
      /\ snapshots' \in {0, 1}
  <2> USE SourceLengths DEF Source!TypeOK, Source!Lose
  <2>1. CASE Source!Connect
    BY <2>1 DEF Source!Connect
  <2>2. CASE Source!Refused \/ Source!End \/ Source!Retry \/ Source!Close
    BY <2>2 DEF Source!Refused, Source!End, Source!Retry, Source!Close
  <2>3. CASE Source!Hear \/ Source!Go \/ Source!Return
    BY <2>3 DEF Source!Hear, Source!Go, Source!Return
  <2>4. CASE Source!Tick
    BY <2>4 DEF Source!Tick, Source!Publish, Source!NextTick
  <2>5. CASE Source!Pass
    <3>1. since' \in 0 .. every /\ wait' \in 0 .. RETRY_AFTER /\ snapshots' = snapshots
      BY <2>5 DEF Source!Pass, Source!AtMost
    <3>2. due' \in -LATE .. every
      BY <2>5 DEF Source!Pass
    <3>3. quiet' \in 0 .. Source!MaxQuiet
      BY <2>5 DEF Source!Pass, Source!AtMost
    <3>4. QED
      BY <3>1, <3>2, <3>3
  <2>6. CASE UNCHANGED Source!vars
    BY <2>6 DEF Source!vars
  <2>7. QED
    BY <2>1, <2>2, <2>3, <2>4, <2>5, <2>6 DEF Source!Next
<1>4. QED
  BY <1>1, <1>2, <1>3 DEF Source!TypeOK

(* Nothing counts beyond its bound: not how long ago a connection was heard*)
(* or a snapshot published, nor how late the tick is (follow.rs:108).      *)
THEOREM SourceTypeHolds == ASSUME Source!FollowAssumption PROVE Source!Spec => []Source!TypeOK
<1>1. Source!Init => Source!TypeOK
  <2> SUFFICES ASSUME Source!Init PROVE Source!TypeOK
    OBVIOUS
  <2>1. source \in BOOLEAN /\ link \in BOOLEAN
    BY DEF Source!Init
  <2>2. sourcePhase \in {"connecting", "hearing", "retrying", "over"}
    BY DEF Source!Init
  <2>3. quiet \in 0 .. Source!MaxQuiet
    BY SourceLengths DEF Source!Init
  <2>4. due \in -LATE .. every
    BY SourceLengths DEF Source!Init
  <2>5. wait \in 0 .. RETRY_AFTER /\ since \in 0 .. every /\ snapshots \in {0, 1}
    BY SourceLengths DEF Source!Init
  <2>6. QED
    BY <2>1, <2>2, <2>3, <2>4, <2>5 DEF Source!TypeOK
<1>2. Source!TypeOK /\ [Source!Next]_(Source!vars) => Source!TypeOK'
  BY SourceTyped
<1>3. QED
  BY <1>1, <1>2, PTL DEF Source!Spec

-----------------------------------------------------------------------------
(* The mirrors: for any number of renewals, stops and settings of the      *)
(* clock.                                                                  *)

(* The version downloaded, on its way to the copy, is as new as any told:  *)
(* nothing else is told meanwhile; and once it is there, the copy is it.   *)
OnItsWay ==
  mirrorPhase \in {"write", "writing", "rename", "done"} =>
    /\ read \in Copy!Versions /\ best <= read /\ read <= upstream
    /\ mirrorPhase = "done" /\ place => kept # None /\ kept.of = read

(* Nothing is newer than what is published. *)
NoneNewer ==
  /\ upstream \in Copy!Versions /\ best \in 0 .. upstream
  /\ kept \in {None} \cup Copy!Copies /\ (kept # None => kept.of <= upstream)

CopyKeeps == NoneNewer /\ OnItsWay /\ Copy!ToldIsKept

LEMMA CopyKeepsAtStart == ASSUME Copy!MirrorAssumption PROVE Copy!Init => CopyKeeps
<1> SUFFICES ASSUME Copy!Init PROVE CopyKeeps
  OBVIOUS
<1>1. kept \in {None} \cup Copy!Copies /\ (kept # None => kept.of \in {0, 1})
  BY DEF Copy!Init, Copy!Copies, Copy!Versions, Copy!Unreadable, Copy!MirrorAssumption
<1>2. QED
  BY <1>1 DEF Copy!Init, CopyKeeps, NoneNewer, OnItsWay, Copy!ToldIsKept, Copy!Versions,
     Copy!MirrorAssumption

(* The age of a copy may be any; what it is of stays. *)
LEMMA OlderCopy ==
  ASSUME Copy!MirrorAssumption, NoneNewer, kept # None, NEW age \in Copy!Ages
  PROVE  /\ [kept EXCEPT !.age = age] \in Copy!Copies /\ [kept EXCEPT !.age = age] # None
         /\ [kept EXCEPT !.age = age].of = kept.of
  BY DEF NoneNewer, Copy!Copies, Copy!MirrorAssumption

LEMMA CopyKeepsOn ==
  ASSUME Copy!MirrorAssumption, CopyKeeps, [Copy!Next]_(Copy!vars)
  PROVE  CopyKeeps'
<1> USE DEF CopyKeeps, NoneNewer, OnItsWay, Copy!ToldIsKept, Copy!world
<1>1. upstream \in Nat /\ best \in Nat /\ Copy!Versions \subseteq Nat \ {0}
  BY DEF Copy!Versions, Copy!MirrorAssumption
<1>2. kept # None => kept.of \in {0} \cup Copy!Versions
  BY DEF Copy!Copies, Copy!Unreadable
<1>3. CASE Copy!Start
  <2>1. CASE kept # None /\ kept.of # Copy!Unreadable
    <3>1. kept.of \in Nat \ {0} /\ kept.of <= upstream
      BY <1>1, <1>2, <2>1 DEF Copy!Unreadable
    <3>2. best' = IF kept.of > best THEN kept.of ELSE best
      BY <1>3, <2>1 DEF Copy!Start, Copy!Publish
    <3>3. mirrorPhase' = "look" /\ kept' = kept /\ place' = place /\ upstream' = upstream
      BY <1>3 DEF Copy!Start
    <3>4. best' \in 0 .. upstream /\ (place => kept.of >= best')
      BY <1>1, <2>1, <3>1, <3>2
    <3>5. QED
      BY <2>1, <3>3, <3>4
  <2>2. CASE ~(kept # None /\ kept.of # Copy!Unreadable)
    BY <1>3, <2>2 DEF Copy!Start
  <2>3. QED
    BY <2>1, <2>2
<1>4. CASE Copy!Look
  BY <1>4 DEF Copy!Look
<1>5. CASE Copy!Obtain
  BY <1>1, <1>5 DEF Copy!Obtain
<1>6. CASE Copy!Write \/ Copy!Written
  BY <1>6 DEF Copy!Write, Copy!Written
<1>7. CASE Copy!Rename
  <2>1. kept' = [of |-> read, age |-> 0] /\ read \in Copy!Versions
    BY <1>7 DEF Copy!Rename
  <2>2. kept' \in Copy!Copies
    BY <2>1 DEF Copy!Copies, Copy!Ages, Copy!MirrorAssumption
  <2>3. QED
    BY <1>1, <1>7, <2>1, <2>2 DEF Copy!Rename, Copy!MirrorAssumption
<1>8. CASE Copy!Done
  BY <1>1, <1>8 DEF Copy!Done, Copy!Publish
<1>9. CASE Copy!Fail \/ Copy!Wake \/ Copy!Close
  BY <1>9 DEF Copy!Fail, Copy!Wake, Copy!Close
<1>10. CASE Copy!Tick
  <2>1. kept' = kept \/ (kept # None /\ kept.age \in Copy!Ages /\ kept.age # RENEW_AT
                         /\ kept' = [kept EXCEPT !.age = kept.age + 1])
    BY <1>10 DEF Copy!Tick, Copy!Copies
  <2>2. kept' = kept \/ (kept # None /\ \E age \in Copy!Ages : kept' = [kept EXCEPT !.age = age])
    BY <2>1 DEF Copy!Ages, Copy!MirrorAssumption
  <2>3. QED
    BY <1>10, <2>2, OlderCopy DEF Copy!Tick
<1>11. CASE Copy!Set
  BY <1>11, OlderCopy DEF Copy!Set
<1>12. CASE Copy!Renew
  BY <1>1, <1>2, <1>12 DEF Copy!Renew, Copy!Versions, Copy!MirrorAssumption
<1>13. CASE Copy!Crash
  BY <1>13 DEF Copy!Crash
<1>14. CASE UNCHANGED Copy!vars
  BY <1>14 DEF Copy!vars
<1>15. QED
  BY <1>3, <1>4, <1>5, <1>6, <1>7, <1>8, <1>9, <1>10, <1>11, <1>12, <1>13, <1>14 DEF Copy!Next

(* Wherever the program stops or fails to write, what was told stays kept  *)
(* (mirror.rs:104: written aside, renamed, and only then told).            *)
THEOREM CopyToldIsKept == ASSUME Copy!MirrorAssumption PROVE Copy!Spec => []Copy!ToldIsKept
<1>1. Copy!Init => CopyKeeps
  BY CopyKeepsAtStart
<1>2. CopyKeeps /\ [Copy!Next]_(Copy!vars) => CopyKeeps'
  BY CopyKeepsOn
<1>3. CopyKeeps => Copy!ToldIsKept
  BY DEF CopyKeeps
<1>4. QED
  BY <1>1, <1>2, <1>3, PTL DEF Copy!Spec

LEMMA CopyLengths ==
  ASSUME Copy!MirrorAssumption
  PROVE  /\ RENEW_RETRY_AFTER \in Nat \ {0} /\ RENEW_AT \in Nat /\ RENEW_RETRY_AFTER < RENEW_AT
         /\ MaxVersions \in Nat /\ MaxCrashes \in Nat /\ MaxSets \in Nat
         /\ None \notin Copy!Copies /\ None \notin Nat
  BY DEF Copy!MirrorAssumption

LEMMA CopyTypedAtStart == ASSUME Copy!MirrorAssumption PROVE Copy!Init => Copy!TypeOK
<1> SUFFICES ASSUME Copy!Init PROVE Copy!TypeOK
  OBVIOUS
<1>1. kept \in {None} \cup Copy!Copies
  BY CopyLengths DEF Copy!Init, Copy!Copies, Copy!Versions
<1>2. place \in BOOLEAN /\ usable \in BOOLEAN /\ reset \in BOOLEAN
  BY DEF Copy!Init
<1>3. /\ upstream \in Copy!Versions /\ best \in 0 .. MaxVersions + 1
      /\ mirrorWait \in 0 .. RENEW_AT
      /\ crashes \in 0 .. MaxCrashes /\ sets \in 0 .. MaxSets
  BY CopyLengths DEF Copy!Init, Copy!Versions
<1>4. QED
  BY <1>1, <1>2, <1>3 DEF Copy!Init, Copy!TypeOK

(* The types hold along with Keeps, which says what a download is of. *)
LEMMA CopyTyped ==
  ASSUME Copy!MirrorAssumption, Copy!TypeOK, CopyKeeps, CopyKeeps', [Copy!Next]_(Copy!vars)
  PROVE  Copy!TypeOK'
<1>1. place' \in BOOLEAN /\ usable' \in BOOLEAN /\ reset' \in BOOLEAN
  BY DEF Copy!TypeOK, Copy!Next, Copy!vars, Copy!world, Copy!Start, Copy!Look, Copy!Obtain,
     Copy!Write, Copy!Written, Copy!Rename, Copy!Done,
         Copy!Fail, Copy!Wake, Copy!Tick, Copy!Set, Copy!Renew, Copy!Crash, Copy!Close
<1>2. /\ aside' \in {None, "part", "whole"}
      /\ mirrorPhase' \in {"start", "look", "download", "write", "writing", "rename", "done",
                     "asleep", "over"}
  BY DEF Copy!TypeOK, Copy!Next, Copy!vars, Copy!world, Copy!Start, Copy!Look, Copy!Obtain,
     Copy!Write, Copy!Written, Copy!Rename, Copy!Done,
         Copy!Fail, Copy!Wake, Copy!Tick, Copy!Set, Copy!Renew, Copy!Crash, Copy!Close
<1>3. upstream' \in Copy!Versions /\ kept' \in {None} \cup Copy!Copies
  BY DEF CopyKeeps, NoneNewer
<1>4. best' \in 0 .. MaxVersions + 1
  BY CopyLengths, <1>3 DEF CopyKeeps, NoneNewer, Copy!Versions
<1>5. crashes' \in 0 .. MaxCrashes /\ sets' \in 0 .. MaxSets
  BY CopyLengths DEF Copy!TypeOK, Copy!Next, Copy!vars, Copy!world, Copy!Start, Copy!Look,
     Copy!Obtain, Copy!Write, Copy!Written, Copy!Rename,
         Copy!Done, Copy!Fail, Copy!Wake, Copy!Tick, Copy!Set, Copy!Renew, Copy!Crash, Copy!Close
<1>6. read' \in {None} \cup Copy!Versions
  BY DEF Copy!TypeOK, Copy!Next, Copy!vars, Copy!world, Copy!Start, Copy!Look, Copy!Obtain,
     Copy!Write, Copy!Written, Copy!Rename, Copy!Done,
         Copy!Fail, Copy!Wake, Copy!Tick, Copy!Set, Copy!Renew, Copy!Crash, Copy!Close
<1>7. told' \in {None} \cup Copy!Versions
  <2>1. CASE Copy!Start
    BY <2>1 DEF Copy!TypeOK, Copy!Start, Copy!Publish, Copy!Copies, Copy!Unreadable
  <2>2. CASE Copy!Done
    BY <2>2 DEF CopyKeeps, OnItsWay, Copy!Done, Copy!Publish
  <2>3. CASE [Copy!Next]_(Copy!vars) /\ ~Copy!Start /\ ~Copy!Done
    BY <2>3 DEF Copy!TypeOK, Copy!Next, Copy!vars, Copy!world, Copy!Look, Copy!Obtain,
       Copy!Write, Copy!Written, Copy!Rename,
           Copy!Fail, Copy!Wake, Copy!Tick, Copy!Set, Copy!Renew, Copy!Crash, Copy!Close
  <2>4. QED
    BY <2>1, <2>2, <2>3
<1>8. mirrorWait' \in 0 .. RENEW_AT
  <2>1. CASE Copy!Look
    <3>1. Copy!Left \in 0 .. RENEW_AT
      BY CopyLengths DEF Copy!TypeOK, Copy!Left, Copy!Copies, Copy!Ages
    <3>2. QED
      BY <2>1, <3>1 DEF Copy!Look
  <2>2. CASE Copy!Tick
    BY <2>2, CopyLengths DEF Copy!TypeOK, Copy!Tick
  <2>3. CASE [Copy!Next]_(Copy!vars) /\ ~Copy!Look /\ ~Copy!Tick
    BY <2>3, CopyLengths DEF Copy!TypeOK, Copy!Next, Copy!vars, Copy!world, Copy!Start,
       Copy!Obtain, Copy!Write, Copy!Written, Copy!Rename,
           Copy!Done, Copy!Fail, Copy!Wake, Copy!Set, Copy!Renew, Copy!Crash, Copy!Close
  <2>4. QED
    BY <2>1, <2>2, <2>3
<1>9. QED
  BY <1>1, <1>2, <1>3, <1>4, <1>5, <1>6, <1>7, <1>8 DEF Copy!TypeOK

(* The copy that is gone by is the one told, but for a moment while a newer*)
(* one that is kept already is still to be told; that one is written just  *)
(* now.                                                                    *)
GoneBy ==
  /\ mirrorPhase = "start" => ~usable
  /\ usable /\ place /\ mirrorPhase # "done" => kept # None /\ kept.of = told
  /\ mirrorPhase = "done" /\ place => reset \/ kept.age = 0
  /\ mirrorPhase \in {"write", "writing", "rename"} => place
  /\ ~place => kept = None

Sleeps == GoneBy /\ Copy!SleepsUntilDue

LEMMA SleepsAtStart == ASSUME Copy!MirrorAssumption PROVE Copy!Init => Sleeps
  BY DEF Copy!Init, Sleeps, GoneBy, Copy!SleepsUntilDue

LEMMA SleepsOn ==
  ASSUME Copy!MirrorAssumption, Copy!TypeOK, CopyKeeps, Sleeps, [Copy!Next]_(Copy!vars)
  PROVE  Sleeps'
<1> USE CopyLengths DEF Sleeps, GoneBy, Copy!SleepsUntilDue, Copy!world
<1>1. CASE Copy!Start
  BY <1>1 DEF Copy!Start, Copy!Publish
<1>2. CASE Copy!Look
  <2>1. /\ mirrorWait' = Copy!Left
        /\ mirrorPhase' = IF Copy!Left > 0 THEN "asleep" ELSE "download"
        /\ UNCHANGED <<place, kept, usable, told>>
    BY <1>2 DEF Copy!Look
  <2>2. place => Copy!Left \in Int
    BY DEF Copy!TypeOK, Copy!Left, Copy!Copies, Copy!Ages
  <2>3. place /\ Copy!Left > 0 => /\ usable /\ kept # None /\ kept.age \in 0 .. RENEW_AT
                             /\ Copy!Left = RENEW_AT - kept.age
    BY DEF Copy!TypeOK, Copy!Left, Copy!Copies, Copy!Ages
  <2>4. GoneBy'
    BY <1>2, <2>1 DEF Copy!Look
  <2>5. Copy!SleepsUntilDue'
    BY <1>2, <2>1, <2>2, <2>3 DEF Copy!Look
  <2>6. QED
    BY <2>4, <2>5
<1>3. CASE Copy!Obtain \/ Copy!Write \/ Copy!Written
  BY <1>3 DEF Copy!Obtain, Copy!Write, Copy!Written
<1>4. CASE Copy!Rename
  BY <1>4 DEF Copy!Rename
<1>5. CASE Copy!Done
  <2>1. place => kept # None /\ kept.of = read
    BY <1>5 DEF Copy!Done, CopyKeeps, OnItsWay
  <2>2. QED
    BY <1>5, <2>1 DEF Copy!Done, Copy!Publish
<1>6. CASE Copy!Fail \/ Copy!Wake \/ Copy!Close
  BY <1>6 DEF Copy!Fail, Copy!Wake, Copy!Close
<1>7. CASE Copy!Tick
  <2>1. /\ mirrorPhase' = mirrorPhase /\ mirrorPhase \in {"asleep", "download"}
        /\ mirrorWait' = IF mirrorPhase = "asleep" THEN mirrorWait - 1 ELSE mirrorWait
        /\ mirrorPhase = "asleep" => mirrorWait > 0
        /\ UNCHANGED <<place, usable, told, reset>>
    BY <1>7 DEF Copy!Tick
  <2>2. \/ kept' = kept /\ (kept = None \/ kept.age = RENEW_AT)
        \/ /\ kept # None /\ kept' # None /\ kept'.of = kept.of
           /\ kept'.age = kept.age + 1 /\ kept.age # RENEW_AT
    BY <1>7 DEF Copy!Tick, Copy!TypeOK, Copy!Copies, Copy!Ages
  <2>3. mirrorWait \in 0 .. RENEW_AT /\ (kept # None => kept.age \in -RENEW_AT .. RENEW_AT)
    BY DEF Copy!TypeOK, Copy!Copies, Copy!Ages
  <2>4. GoneBy'
    BY <2>1, <2>2
  <2>5. Copy!SleepsUntilDue'
    <3> SUFFICES ASSUME mirrorPhase' = "asleep", mirrorWait' > RENEW_RETRY_AFTER, place'
                 PROVE  /\ kept' # None /\ kept'.of = told'
                        /\ ~reset' => /\ kept'.age \in 0 .. RENEW_AT
                                      /\ kept'.age + mirrorWait' <= RENEW_AT
      OBVIOUS
    <3>1. /\ mirrorPhase = "asleep" /\ mirrorWait > RENEW_RETRY_AFTER
          /\ mirrorWait' = mirrorWait - 1 /\ place
      BY <2>1, <2>3
    <3>2. /\ kept # None /\ kept.of = told
          /\ ~reset => kept.age \in 0 .. RENEW_AT /\ kept.age + mirrorWait <= RENEW_AT
      BY <3>1
    <3>3. kept'.of = kept.of /\ kept' # None /\ told' = told /\ reset' = reset
      BY <2>1, <2>2, <3>2
    <3>4. ASSUME ~reset
          PROVE  kept'.age \in 0 .. RENEW_AT /\ kept'.age + mirrorWait' <= RENEW_AT
      <4>1. kept.age \in 0 .. RENEW_AT /\ kept.age + mirrorWait <= RENEW_AT /\ mirrorWait \in Nat
        BY <2>3, <3>2, <3>4
      <4>2. kept.age # RENEW_AT
        BY <3>1, <4>1
      <4>3. kept'.age = kept.age + 1
        BY <2>2, <3>2, <4>2
      <4>4. QED
        BY <3>1, <4>1, <4>3
    <3>5. QED
      BY <3>2, <3>3, <3>4
  <2>6. QED
    BY <2>4, <2>5
<1>8. CASE Copy!Set
  <2>1. /\ kept # None /\ kept' # None /\ kept'.of = kept.of
        /\ reset' = TRUE /\ UNCHANGED <<mirrorPhase, place, usable, mirrorWait, told>>
    BY <1>8, OlderCopy DEF Copy!Set, CopyKeeps
  <2>2. QED
    BY <2>1
<1>9. CASE Copy!Renew \/ Copy!Crash
  BY <1>9 DEF Copy!Renew, Copy!Crash
<1>10. CASE UNCHANGED Copy!vars
  BY <1>10 DEF Copy!vars
<1>11. QED
  BY <1>1, <1>2, <1>3, <1>4, <1>5, <1>6, <1>7, <1>8, <1>9, <1>10 DEF Copy!Next

(* The mirror never sleeps past the renewal of what it told, unless the    *)
(* clock was set meanwhile, and a copy is only gone by that is what was    *)
(* told (mirror.rs:85: due, and told, by the one copy).                    *)
THEOREM SleepsUntilDueHolds ==
  ASSUME Copy!MirrorAssumption PROVE Copy!Spec => [](Copy!TypeOK /\ Copy!SleepsUntilDue)
<1>1. Copy!Init => CopyKeeps /\ Copy!TypeOK /\ Sleeps
  BY CopyKeepsAtStart, CopyTypedAtStart, SleepsAtStart
<1>2. CopyKeeps /\ Copy!TypeOK /\ Sleeps /\ [Copy!Next]_(Copy!vars)
        => (CopyKeeps /\ Copy!TypeOK /\ Sleeps)'
  <2>1. CopyKeeps /\ [Copy!Next]_(Copy!vars) => CopyKeeps'
    BY CopyKeepsOn
  <2>2. QED
    BY <2>1, CopyTyped, SleepsOn
<1>3. CopyKeeps /\ Copy!TypeOK /\ Sleeps => Copy!TypeOK /\ Copy!SleepsUntilDue
  BY DEF Sleeps
<1>4. QED
  BY <1>1, <1>2, <1>3, PTL DEF Copy!Spec

-----------------------------------------------------------------------------
(* The reading of the source's stream, for frames of any lengths, with any *)
(* bytes, sent and broken off in any order, and for a stream cut up in any *)
(* way: exactly the frames that came whole are read.                       *)

(* Induction over the natural numbers, of a set. *)
LEMMA AllNaturals ==
  ASSUME NEW S, 0 \in S, \A n \in Nat : n \in S => n + 1 \in S
  PROVE  Nat \subseteq S
<1> SUFFICES ASSUME ~(Nat \subseteq S) PROVE FALSE
  OBVIOUS
<1> DEFINE R == StrictSubsetOrdering(Nat)
           T == {0 .. n : n \in Nat \ S}
<1>1. IsWellFoundedOn(R, FiniteSubsetsOf(Nat))
  BY FS_StrictSubsetOrderingWellFounded
<1>2. T \subseteq FiniteSubsetsOf(Nat)
  <2> SUFFICES ASSUME NEW n \in Nat \ S PROVE 0 .. n \in FiniteSubsetsOf(Nat)
    OBVIOUS
  <2>1. IsFiniteSet(0 .. n)
    BY FS_Interval
  <2>2. 0 .. n \in SUBSET Nat
    OBVIOUS
  <2>3. QED
    BY <2>1, <2>2 DEF FiniteSubsetsOf
<1>3. T # {}
  OBVIOUS
<1>4. \E x \in T : \A y \in T : <<y, x>> \notin R
  <2> HIDE DEF R, T
  <2>1. QED
    BY <1>1, <1>2, <1>3, WFMin
<1>5. PICK n \in Nat \ S : \A y \in T : <<y, 0 .. n>> \notin R
  BY <1>4
<1>6. n # 0 /\ n - 1 \in Nat
  OBVIOUS
<1>7. n - 1 \in S
  <2> SUFFICES ASSUME n - 1 \notin S PROVE FALSE
    OBVIOUS
  <2>1. 0 .. n - 1 \in T
    BY <1>6
  <2>2. 0 .. n - 1 # 0 .. n /\ 0 .. n - 1 \subseteq 0 .. n /\ 0 .. n \subseteq Nat
    BY <1>6
  <2>3. <<0 .. n - 1, 0 .. n>> \in R
    BY <2>2 DEF StrictSubsetOrdering
  <2>4. QED
    BY <1>5, <2>1, <2>3
<1>8. (n - 1) + 1 = n
  BY <1>6
<1>9. QED
  BY <1>6, <1>7, <1>8

(* What is defined step by step is well defined. *)
LEMMA JoinExists ==
  ASSUME NEW body
  PROVE  \A last \in Nat : \E join :
           join = [i \in 0 .. last |-> IF i = 0 THEN <<>> ELSE join[i - 1] \o Stream!Escaped(body[i])]
<1> DEFINE Is(join, last) ==
             join = [i \in 0 .. last |-> IF i = 0 THEN <<>> ELSE join[i - 1] \o Stream!Escaped(body[i])]
           Defined == {last \in Nat : \E join : Is(join, last)}
<1>1. 0 \in Defined
  <2>1. Is([i \in 0 .. 0 |-> <<>>], 0)
    OBVIOUS
  <2>2. QED
    BY <2>1
<1>2. ASSUME NEW last \in Nat, last \in Defined PROVE last + 1 \in Defined
  <2>1. PICK join : Is(join, last)
    BY <1>2
  <2> DEFINE more == [i \in 0 .. last + 1 |->
                        IF i = last + 1 THEN join[last] \o Stream!Escaped(body[i]) ELSE join[i]]
  <2>2. \A i \in 0 .. last : more[i] = join[i]
    OBVIOUS
  <2>3. \A i \in 0 .. last + 1 :
          more[i] = IF i = 0 THEN <<>> ELSE more[i - 1] \o Stream!Escaped(body[i])
    <3> SUFFICES ASSUME NEW i \in 0 .. last + 1
                 PROVE  more[i] = IF i = 0 THEN <<>> ELSE more[i - 1] \o Stream!Escaped(body[i])
      OBVIOUS
    <3>1. CASE i = last + 1
      <4>1. i \in 0 .. last + 1 /\ i - 1 = last /\ i # 0
        BY <3>1
      <4>3. more[i] = join[last] \o Stream!Escaped(body[i])
        BY <3>1, <4>1
      <4>2. more[last] = join[last] /\ i = last + 1
        BY <2>2, <3>1
      <4> HIDE DEF more, Is
      <4>4. QED
        BY <4>1, <4>2, <4>3
    <3>2. CASE i # last + 1
      <4>1. i \in 0 .. last
        BY <3>2
      <4>2. join[i] = IF i = 0 THEN <<>> ELSE join[i - 1] \o Stream!Escaped(body[i])
        BY <2>1, <4>1
      <4>3. i # 0 => more[i - 1] = join[i - 1]
        BY <2>2, <4>1
      <4>4. more[i] = join[i]
        BY <2>2, <4>1
      <4> HIDE DEF more, Is
      <4>5. QED
        BY <4>2, <4>3, <4>4
    <3>3. QED
      BY <3>1, <3>2
  <2>4. Is(more, last + 1)
    <3>1. more = [i \in 0 .. last + 1 |-> more[i]]
      OBVIOUS
    <3> HIDE DEF more
    <3>2. [i \in 0 .. last + 1 |-> more[i]]
          = [i \in 0 .. last + 1 |-> IF i = 0 THEN <<>> ELSE more[i - 1] \o Stream!Escaped(body[i])]
      BY <2>3
    <3>3. QED
      BY <3>1, <3>2
  <2>5. QED
    <3> HIDE DEF more, Is
    <3>1. QED
      BY <2>4
<1>3. Nat \subseteq Defined
  <2> HIDE DEF Defined
  <2>1. QED
    BY <1>1, <1>2, AllNaturals
<1>4. QED
  BY <1>3

LEMMA WholeExists ==
  ASSUME NEW s, NEW n
  PROVE  \A last \in Nat : \E whole :
           whole = [i \in 0 .. last |-> IF i = 0 THEN <<>> ELSE Stream!Longer(whole[i - 1], s[i], n)]
<1> DEFINE Is(whole, last) ==
             whole = [i \in 0 .. last |-> IF i = 0 THEN <<>> ELSE Stream!Longer(whole[i - 1], s[i], n)]
           Defined == {last \in Nat : \E whole : Is(whole, last)}
<1>1. 0 \in Defined
  <2>1. Is([i \in 0 .. 0 |-> <<>>], 0)
    OBVIOUS
  <2>2. QED
    BY <2>1
<1>2. ASSUME NEW last \in Nat, last \in Defined PROVE last + 1 \in Defined
  <2>1. PICK whole : Is(whole, last)
    BY <1>2
  <2> DEFINE more == [i \in 0 .. last + 1 |->
                        IF i = last + 1 THEN Stream!Longer(whole[last], s[i], n) ELSE whole[i]]
  <2>2. \A i \in 0 .. last : more[i] = whole[i]
    OBVIOUS
  <2>3. \A i \in 0 .. last + 1 :
          more[i] = IF i = 0 THEN <<>> ELSE Stream!Longer(more[i - 1], s[i], n)
    <3> SUFFICES ASSUME NEW i \in 0 .. last + 1
                 PROVE  more[i] = IF i = 0 THEN <<>> ELSE Stream!Longer(more[i - 1], s[i], n)
      OBVIOUS
    <3>1. CASE i = last + 1
      <4>1. i \in 0 .. last + 1 /\ i - 1 = last /\ i # 0
        BY <3>1
      <4>3. more[i] = Stream!Longer(whole[last], s[i], n)
        BY <3>1, <4>1
      <4>2. more[last] = whole[last] /\ i = last + 1
        BY <2>2, <3>1
      <4> HIDE DEF more, Is
      <4>4. QED
        BY <4>1, <4>2, <4>3
    <3>2. CASE i # last + 1
      <4>1. i \in 0 .. last
        BY <3>2
      <4>2. whole[i] = IF i = 0 THEN <<>> ELSE Stream!Longer(whole[i - 1], s[i], n)
        BY <2>1, <4>1
      <4>3. i # 0 => more[i - 1] = whole[i - 1]
        BY <2>2, <4>1
      <4>4. more[i] = whole[i]
        BY <2>2, <4>1
      <4> HIDE DEF more, Is
      <4>5. QED
        BY <4>2, <4>3, <4>4
    <3>3. QED
      BY <3>1, <3>2
  <2>4. Is(more, last + 1)
    <3>1. more = [i \in 0 .. last + 1 |-> more[i]]
      OBVIOUS
    <3> HIDE DEF more
    <3>2. [i \in 0 .. last + 1 |-> more[i]]
          = [i \in 0 .. last + 1 |-> IF i = 0 THEN <<>> ELSE Stream!Longer(more[i - 1], s[i], n)]
      BY <2>3
    <3>3. QED
      BY <3>1, <3>2
  <2>5. QED
    <3> HIDE DEF more, Is
    <3>1. QED
      BY <2>4
<1>3. Nat \subseteq Defined
  <2> HIDE DEF Defined
  <2>1. QED
    BY <1>1, <1>2, AllNaturals
<1>4. QED
  BY <1>3


(* Where a frame sent starts, counted from the first byte of the stream. *)
Start(s, j) == IF j = 1 THEN 0 ELSE s[j - 1].end

(* From the place on, the bytes are those of a frame of the type, as far   *)
(* as there are any; used[i] of them hold the first i of its body.         *)
Opens(bytes, o, type, body, n, used) ==
  /\ used[0] = 0
  /\ o + 1 <= Len(bytes) => bytes[o + 1] = ESCAPE
  /\ o + 2 <= Len(bytes) => bytes[o + 2] = type
  /\ \A i \in 1 .. n :
       /\ used[i] = used[i - 1] + (IF body[i] = ESCAPE THEN 2 ELSE 1)
       /\ o + 3 + used[i - 1] <= Len(bytes) => bytes[o + 3 + used[i - 1]] = body[i]
       /\ (body[i] = ESCAPE /\ o + 4 + used[i - 1] <= Len(bytes))
            => bytes[o + 4 + used[i - 1]] = ESCAPE

(* From the place on, len bytes are those of the frame, whole, or of one   *)
(* that breaks off and is of no Mode S type.                               *)
Item(bytes, o, len, frame) ==
  \E type \in Stream!Types : \E n \in 0 .. LengthOf[type] :
  \E body \in [1 .. n -> Stream!Bytes] : \E used \in [0 .. n -> Nat] :
    /\ Opens(bytes, o, type, body, n, used)
    /\ len = 2 + used[n]
    /\ \/ n = LengthOf[type] /\ frame = [type |-> type, body |-> body]
       \/ n < LengthOf[type] /\ frame.type \notin ModeS

(* The bytes a body takes grow with it, by two at most. *)
LEMMA UsedGrows ==
  ASSUME NEW n \in Nat, NEW used \in [0 .. n -> Nat], NEW body, used[0] = 0,
         \A i \in 1 .. n : used[i] = used[i - 1] + (IF body[i] = ESCAPE THEN 2 ELSE 1)
  PROVE  \A i \in 0 .. n : used[i] <= 2 * i /\ used[i] <= used[n]
<1> DEFINE Grown == {i \in Nat : i <= n =>
                       used[i] <= 2 * i /\ \A j \in 0 .. i : used[j] <= used[i]}
<1>1. 0 \in Grown
  OBVIOUS
<1>2. ASSUME NEW i \in Nat, i \in Grown PROVE i + 1 \in Grown
  <2> SUFFICES ASSUME i + 1 <= n
               PROVE  used[i + 1] <= 2 * (i + 1) /\ \A j \in 0 .. i + 1 : used[j] <= used[i + 1]
    OBVIOUS
  <2>1. used[i] <= 2 * i /\ \A j \in 0 .. i : used[j] <= used[i]
    BY <1>2
  <2>2. i + 1 \in 1 .. n /\ (i + 1) - 1 = i
    OBVIOUS
  <2>3. used[i + 1] = used[i] + (IF body[i + 1] = ESCAPE THEN 2 ELSE 1)
    BY <2>2
  <2>4. i \in 0 .. n /\ i + 1 \in 0 .. n /\ used[i] \in Nat /\ used[i + 1] \in Nat
    OBVIOUS
  <2>5. used[i + 1] <= 2 * (i + 1) /\ used[i] <= used[i + 1]
    BY <2>1, <2>3, <2>4
  <2>6. ASSUME NEW j \in 0 .. i + 1 PROVE used[j] <= used[i + 1]
    <3>1. CASE j = i + 1
      BY <3>1, <2>4
    <3>2. CASE j # i + 1
      <4>1. j \in 0 .. i /\ j \in 0 .. n
        BY <3>2
      <4>2. used[j] <= used[i] /\ used[j] \in Nat
        BY <2>1, <4>1
      <4>3. QED
        BY <4>2, <2>4, <2>5
    <3>3. QED
      BY <3>1, <3>2
  <2>7. QED
    BY <2>5, <2>6
<1>3. Nat \subseteq Grown
  <2> HIDE DEF Grown
  <2>1. QED
    BY <1>1, <1>2, AllNaturals
<1>4. QED
  BY <1>3

(* The bytes of a frame are its, wherever they stand. *)
LEMMA ItemMoves ==
  ASSUME Stream!BeastAssumption, NEW bytes, NEW gone, NEW o \in Nat, NEW p \in Nat, NEW len \in Nat,
         NEW frame, Len(bytes) \in Nat, Len(gone) \in Nat, Item(bytes, o, len, frame),
         \A q \in 1 .. len : p + q <= Len(gone) =>
           o + q <= Len(bytes) /\ gone[p + q] = bytes[o + q]
  PROVE  Item(gone, p, len, frame)
<1>1. PICK type \in Stream!Types : \E n \in 0 .. LengthOf[type] :
        \E body \in [1 .. n -> Stream!Bytes] : \E used \in [0 .. n -> Nat] :
          /\ Opens(bytes, o, type, body, n, used)
          /\ len = 2 + used[n]
          /\ \/ n = LengthOf[type] /\ frame = [type |-> type, body |-> body]
             \/ n < LengthOf[type] /\ frame.type \notin ModeS
  BY DEF Item
<1>2. PICK n \in 0 .. LengthOf[type] :
        \E body \in [1 .. n -> Stream!Bytes] : \E used \in [0 .. n -> Nat] :
          /\ Opens(bytes, o, type, body, n, used)
          /\ len = 2 + used[n]
          /\ \/ n = LengthOf[type] /\ frame = [type |-> type, body |-> body]
             \/ n < LengthOf[type] /\ frame.type \notin ModeS
  BY <1>1
<1>3. PICK body \in [1 .. n -> Stream!Bytes] : \E used \in [0 .. n -> Nat] :
          /\ Opens(bytes, o, type, body, n, used)
          /\ len = 2 + used[n]
          /\ \/ n = LengthOf[type] /\ frame = [type |-> type, body |-> body]
             \/ n < LengthOf[type] /\ frame.type \notin ModeS
  BY <1>2
<1>4. PICK used \in [0 .. n -> Nat] :
          /\ Opens(bytes, o, type, body, n, used)
          /\ len = 2 + used[n]
          /\ \/ n = LengthOf[type] /\ frame = [type |-> type, body |-> body]
             \/ n < LengthOf[type] /\ frame.type \notin ModeS
  BY <1>3
<1>5. n \in Nat
  BY DEF Stream!BeastAssumption, Stream!Types
<1>6. \A i \in 0 .. n : used[i] <= used[n] /\ used[i] \in Nat
  BY <1>4, <1>5, UsedGrows, ZenonT(60) DEF Opens
<1>7. Opens(gone, p, type, body, n, used)
  <2>1. used[0] = 0
    BY <1>4 DEF Opens
  <2>2. p + 1 <= Len(gone) => gone[p + 1] = ESCAPE
    BY <1>4, <1>5, <1>6 DEF Opens
  <2>3. p + 2 <= Len(gone) => gone[p + 2] = type
    BY <1>4, <1>5, <1>6 DEF Opens
  <2>4. ASSUME NEW i \in 1 .. n
        PROVE  /\ used[i] = used[i - 1] + (IF body[i] = ESCAPE THEN 2 ELSE 1)
               /\ p + 3 + used[i - 1] <= Len(gone) => gone[p + 3 + used[i - 1]] = body[i]
               /\ (body[i] = ESCAPE /\ p + 4 + used[i - 1] <= Len(gone))
                    => gone[p + 4 + used[i - 1]] = ESCAPE
    <3>1. /\ used[i] = used[i - 1] + (IF body[i] = ESCAPE THEN 2 ELSE 1)
          /\ o + 3 + used[i - 1] <= Len(bytes) => bytes[o + 3 + used[i - 1]] = body[i]
          /\ (body[i] = ESCAPE /\ o + 4 + used[i - 1] <= Len(bytes))
               => bytes[o + 4 + used[i - 1]] = ESCAPE
      BY <1>4 DEF Opens
    <3>2. i - 1 \in 0 .. n /\ i \in 0 .. n
      BY <1>5
    <3>3. used[i - 1] \in Nat /\ used[i] \in Nat /\ used[n] \in Nat /\ used[i] <= used[n]
      BY <1>5, <1>6, <3>2
    <3> DEFINE a == used[i - 1]
               b == used[i]
               c == used[n]
    <3>10. /\ a \in Nat /\ b \in Nat /\ c \in Nat /\ b <= c /\ len = 2 + c
           /\ (b = a + 1 \/ b = a + 2)
      BY <1>4, <3>1, <3>3
    <3>11. body[i] = ESCAPE => b = a + 2
      BY <3>1
    <3> HIDE DEF a, b, c
    <3>12. 3 + a \in 1 .. len /\ (b = a + 2 => 4 + a \in 1 .. len)
      BY <3>10
    <3>4. 3 + used[i - 1] \in 1 .. len
      BY <3>12 DEF a
    <3>5. ASSUME body[i] = ESCAPE PROVE 4 + used[i - 1] \in 1 .. len
      BY <3>5, <3>11, <3>12 DEF a
    <3>6. p + 3 + used[i - 1] <= Len(gone) => gone[p + 3 + used[i - 1]] = body[i]
      <4>1. p + 3 + used[i - 1] = p + (3 + used[i - 1])
            /\ o + 3 + used[i - 1] = o + (3 + used[i - 1])
        BY <3>3
      <4>2. QED
        BY <4>1, <3>1, <3>4
    <3>7. (body[i] = ESCAPE /\ p + 4 + used[i - 1] <= Len(gone))
             => gone[p + 4 + used[i - 1]] = ESCAPE
      <4>1. p + 4 + used[i - 1] = p + (4 + used[i - 1])
            /\ o + 4 + used[i - 1] = o + (4 + used[i - 1])
        BY <3>3, SMTT(60)
      <4>2. QED
        BY <4>1, <3>1, <3>5
    <3>8. QED
      BY <3>1, <3>6, <3>7
  <2>5. QED
    BY <2>1, <2>2, <2>3, <2>4 DEF Opens
<1>8. QED
  BY <1>4, <1>7 DEF Item

(* One sequence of bytes after another. *)
LEMMA Joining ==
  ASSUME NEW a \in Seq(Stream!Bytes), NEW b \in Seq(Stream!Bytes)
  PROVE  /\ a \o b \in Seq(Stream!Bytes) /\ Len(a) \in Nat /\ Len(b) \in Nat
         /\ Len(a \o b) = Len(a) + Len(b)
         /\ \A p \in 1 .. Len(a) : (a \o b)[p] = a[p]
         /\ \A p \in 1 .. Len(b) : (a \o b)[Len(a) + p] = b[p]
<1> DEFINE S == Stream!Bytes
<1>1. a \in Seq(S) /\ b \in Seq(S)
  OBVIOUS
<1> HIDE DEF S
<1>2. /\ a \o b \in Seq(S) /\ Len(a \o b) = Len(a) + Len(b)
      /\ \A p \in 1 .. Len(a) + Len(b) :
           (a \o b)[p] = IF p <= Len(a) THEN a[p] ELSE b[p - Len(a)]
  BY <1>1, ConcatProperties
<1>3. Len(a) \in Nat /\ Len(b) \in Nat
  BY <1>1
<1>4. \A p \in 1 .. Len(a) : (a \o b)[p] = a[p]
  BY <1>2, <1>3
<1>5. ASSUME NEW p \in 1 .. Len(b) PROVE (a \o b)[Len(a) + p] = b[p]
  <2>1. Len(a) + p \in 1 .. Len(a) + Len(b) /\ ~(Len(a) + p <= Len(a)) /\ (Len(a) + p) - Len(a) = p
    BY <1>3
  <2>2. QED
    BY <1>2, <2>1
<1>6. QED
  BY <1>2, <1>3, <1>4, <1>5 DEF S

LEMMA JoiningThree ==
  ASSUME NEW a \in Seq(Stream!Bytes), NEW b \in Seq(Stream!Bytes), NEW c \in Seq(Stream!Bytes)
  PROVE  (a \o b) \o c = a \o (b \o c)
<1> DEFINE S == Stream!Bytes
<1>1. a \in Seq(S) /\ b \in Seq(S) /\ c \in Seq(S)
  OBVIOUS
<1> HIDE DEF S
<1>2. QED
  BY <1>1, ConcatAssociative

(* What is written of a frame, whole or broken off, is laid out as one. *)
LEMMA WriteLaid ==
  ASSUME Stream!BeastAssumption, NEW type \in Stream!Types, NEW m \in Nat, NEW n \in 0 .. m,
         NEW body \in [1 .. m -> Stream!Bytes]
  PROVE  /\ <<ESCAPE, type>> \o Stream!Body(body, n) \in Seq(Stream!Bytes)
         /\ \E used \in [0 .. n -> Nat] :
              /\ Opens(<<ESCAPE, type>> \o Stream!Body(body, n), 0, type, body, n, used)
              /\ Len(<<ESCAPE, type>> \o Stream!Body(body, n)) = 2 + used[n]
<1> DEFINE Is(join) ==
             join = [i \in 0 .. n |-> IF i = 0 THEN <<>> ELSE join[i - 1] \o Stream!Escaped(body[i])]
<1>0. n \in Nat
  OBVIOUS
<1>1. \E join : Is(join)
  BY JoinExists, <1>0
<1> DEFINE join == CHOOSE join : Is(join)
<1>2. Is(join)
  BY <1>1
<1>3. Stream!Body(body, n) = join[n]
  BY DEF Stream!Body
<1> HIDE DEF join
<1>4. /\ join[0] = <<>>
      /\ \A i \in 1 .. n : join[i] = join[i - 1] \o Stream!Escaped(body[i])
  <2>1. 0 \in 0 .. n /\ \A i \in 1 .. n : i \in 0 .. n /\ i # 0
    BY <1>0
  <2>2. QED
    BY <1>2, <2>1
<1> HIDE DEF Is
<1>5. \A i \in 1 .. n : /\ Stream!Escaped(body[i]) \in Seq(Stream!Bytes)
                        /\ Len(Stream!Escaped(body[i])) = (IF body[i] = ESCAPE THEN 2 ELSE 1)
                        /\ Stream!Escaped(body[i])[1] = body[i]
                        /\ body[i] = ESCAPE => Stream!Escaped(body[i])[2] = ESCAPE
  <2> SUFFICES ASSUME NEW i \in 1 .. n
               PROVE  /\ Stream!Escaped(body[i]) \in Seq(Stream!Bytes)
                      /\ Len(Stream!Escaped(body[i])) = (IF body[i] = ESCAPE THEN 2 ELSE 1)
                      /\ Stream!Escaped(body[i])[1] = body[i]
                      /\ body[i] = ESCAPE => Stream!Escaped(body[i])[2] = ESCAPE
    OBVIOUS
  <2>1. body[i] \in Stream!Bytes
    OBVIOUS
  <2>2. QED
    BY <2>1 DEF Stream!Escaped
(* Each of the joins starts with those before it. *)
<1> DEFINE Joined == {i \in Nat : i <= n =>
                        /\ join[i] \in Seq(Stream!Bytes)
                        /\ \A j \in 0 .. i :
                             /\ join[j] \in Seq(Stream!Bytes) /\ Len(join[j]) <= Len(join[i])
                             /\ \A p \in 1 .. Len(join[j]) : join[i][p] = join[j][p]}
<1>6. 0 \in Joined
  <2>1. join[0] \in Seq(Stream!Bytes) /\ Len(join[0]) = 0
    BY <1>4
  <2>2. \A j \in 0 .. 0 : j = 0
    OBVIOUS
  <2>3. QED
    BY <2>1, <2>2
<1>7. ASSUME NEW i \in Nat, i \in Joined PROVE i + 1 \in Joined
  <2> SUFFICES ASSUME i + 1 <= n
               PROVE  /\ join[i + 1] \in Seq(Stream!Bytes)
                      /\ \A j \in 0 .. i + 1 :
                           /\ join[j] \in Seq(Stream!Bytes) /\ Len(join[j]) <= Len(join[i + 1])
                           /\ \A p \in 1 .. Len(join[j]) : join[i + 1][p] = join[j][p]
    OBVIOUS
  <2>1. /\ join[i] \in Seq(Stream!Bytes)
        /\ \A j \in 0 .. i :
             /\ join[j] \in Seq(Stream!Bytes) /\ Len(join[j]) <= Len(join[i])
             /\ \A p \in 1 .. Len(join[j]) : join[i][p] = join[j][p]
    BY <1>7
  <2>2. i + 1 \in 1 .. n /\ (i + 1) - 1 = i
    OBVIOUS
  <2>3. join[i + 1] = join[i] \o Stream!Escaped(body[i + 1])
    BY <1>4, <2>2
  <2>4. Stream!Escaped(body[i + 1]) \in Seq(Stream!Bytes)
    BY <1>5, <2>2
  <2> HIDE DEF Joined
  <2>5. join[i + 1] \in Seq(Stream!Bytes) /\ Len(join[i]) <= Len(join[i + 1])
        /\ \A p \in 1 .. Len(join[i]) : join[i + 1][p] = join[i][p]
    <3>1. Len(join[i] \o Stream!Escaped(body[i + 1])) = Len(join[i]) + Len(Stream!Escaped(body[i + 1]))
      BY <2>1, <2>4, Joining
    <3>2. /\ join[i] \o Stream!Escaped(body[i + 1]) \in Seq(Stream!Bytes)
          /\ \A p \in 1 .. Len(join[i]) :
               (join[i] \o Stream!Escaped(body[i + 1]))[p] = join[i][p]
          /\ Len(join[i]) \in Nat /\ Len(Stream!Escaped(body[i + 1])) \in Nat
      BY <2>1, <2>4, Joining
    <3>3. Len(join[i]) <= Len(join[i + 1])
      <4>1. Len(join[i + 1]) = Len(join[i]) + Len(Stream!Escaped(body[i + 1]))
        BY <2>3, <3>1
      <4> DEFINE a == Len(join[i])
                 b == Len(Stream!Escaped(body[i + 1]))
      <4>2. a \in Nat /\ b \in Nat
        BY <3>2
      <4>4. Len(join[i + 1]) = a + b
        BY <4>1
      <4> HIDE DEF a, b
      <4>5. a <= Len(join[i + 1])
        BY <4>2, <4>4
      <4>6. QED
        BY <4>5 DEF a
    <3>4. join[i + 1] \in Seq(Stream!Bytes) /\ \A p \in 1 .. Len(join[i]) : join[i + 1][p] = join[i][p]
      BY <2>3, <3>2
    <3>5. QED
      BY <3>3, <3>4
  <2>6. ASSUME NEW j \in 0 .. i + 1
        PROVE  /\ join[j] \in Seq(Stream!Bytes) /\ Len(join[j]) <= Len(join[i + 1])
               /\ \A p \in 1 .. Len(join[j]) : join[i + 1][p] = join[j][p]
    <3>1. CASE j = i + 1
      BY <3>1, <2>5
    <3>2. CASE j # i + 1
      <4>1. j \in 0 .. i
        BY <3>2
      <4>2. /\ join[j] \in Seq(Stream!Bytes) /\ Len(join[j]) <= Len(join[i])
            /\ \A p \in 1 .. Len(join[j]) : join[i][p] = join[j][p]
        BY <2>1, <4>1
      <4>3. Len(join[j]) \in Nat /\ Len(join[i]) \in Nat /\ Len(join[i + 1]) \in Nat
        BY <2>1, <2>5, <4>2
      <4>4. QED
        BY <4>2, <4>3, <2>5
    <3>3. QED
      BY <3>1, <3>2
  <2>7. QED
    BY <2>5, <2>6
<1>8. Nat \subseteq Joined
  <2> HIDE DEF Joined
  <2>1. QED
    BY <1>6, <1>7, AllNaturals
<1>9. \A i \in 0 .. n :
        /\ join[i] \in Seq(Stream!Bytes)
        /\ Len(join[i]) <= Len(join[n])
        /\ \A p \in 1 .. Len(join[i]) : join[n][p] = join[i][p]
  <2>1. \A i \in 0 .. n : i \in Joined
    <3> HIDE DEF Joined
    <3>1. QED
      BY <1>8
  <2>2. n \in Joined
    BY <1>8, <1>0
  <2>3. QED
    BY <2>1, <2>2
<1> HIDE DEF Joined
<1> DEFINE used == [i \in 0 .. n |-> Len(join[i])]
           laid == <<ESCAPE, type>> \o Stream!Body(body, n)
<1>10. used \in [0 .. n -> Nat]
  BY <1>9
<1>11. ESCAPE \in Stream!Bytes /\ type \in Stream!Bytes /\ n \in 0 .. n /\ n \in Nat
  BY DEF Stream!Bytes
<1>12. join[n] \in Seq(Stream!Bytes)
  BY <1>9, <1>11
<1>13. /\ laid \in Seq(Stream!Bytes) /\ Len(laid) = 2 + Len(join[n])
       /\ laid[1] = ESCAPE /\ laid[2] = type
       /\ \A p \in 1 .. Len(join[n]) : laid[2 + p] = join[n][p]
  BY <1>3, <1>11, <1>12
<1> HIDE DEF laid
<1>14. ASSUME NEW i \in 1 .. n
       PROVE  /\ used[i] = used[i - 1] + (IF body[i] = ESCAPE THEN 2 ELSE 1)
              /\ laid[3 + used[i - 1]] = body[i]
              /\ body[i] = ESCAPE => laid[4 + used[i - 1]] = ESCAPE
  <2>1. i \in 0 .. n /\ i - 1 \in 0 .. n
    OBVIOUS
  <2>2. join[i] = join[i - 1] \o Stream!Escaped(body[i])
    BY <1>4
  <2>3. join[i] \in Seq(Stream!Bytes) /\ join[i - 1] \in Seq(Stream!Bytes) /\ Stream!Escaped(body[i]) \in Seq(Stream!Bytes)
    BY <1>5, <1>9, <2>1
  <2> DEFINE first == Len(join[i - 1])
             byte == Stream!Escaped(body[i])
  <2>4. /\ Len(join[i]) = first + Len(byte) /\ first \in Nat
        /\ \A p \in 1 .. Len(byte) : join[i][first + p] = byte[p]
    <3>1. /\ Len(join[i - 1] \o Stream!Escaped(body[i])) = Len(join[i - 1]) + Len(Stream!Escaped(body[i]))
          /\ Len(join[i - 1]) \in Nat
          /\ \A p \in 1 .. Len(Stream!Escaped(body[i])) :
               (join[i - 1] \o Stream!Escaped(body[i]))[Len(join[i - 1]) + p] = Stream!Escaped(body[i])[p]
      BY <2>3, Joining
    <3>2. QED
      BY <2>2, <3>1
  <2>5. /\ Len(byte) = (IF body[i] = ESCAPE THEN 2 ELSE 1) /\ byte[1] = body[i]
        /\ body[i] = ESCAPE => byte[2] = ESCAPE
    BY <1>5
  <2>6. used[i] = Len(join[i]) /\ used[i - 1] = first
    BY <2>1
  <2> HIDE DEF first, byte, used
  <2>7. Len(byte) \in {1, 2} /\ (body[i] = ESCAPE => Len(byte) = 2)
    BY <2>5
  <2>8. join[i][first + 1] = body[i] /\ (body[i] = ESCAPE => join[i][first + 2] = ESCAPE)
    BY <2>4, <2>5, <2>7
  <2>9. \A p \in 1 .. Len(join[i]) : p \in 1 .. Len(join[n]) /\ laid[2 + p] = join[i][p]
    <3>1. Len(join[n]) \in Nat /\ Len(join[i]) \in Nat
      BY <1>12, <2>3
    <3>2. Len(join[i]) <= Len(join[n]) /\ \A p \in 1 .. Len(join[i]) : join[n][p] = join[i][p]
      BY <1>9, <2>1
    <3> SUFFICES ASSUME NEW p \in 1 .. Len(join[i])
                 PROVE  p \in 1 .. Len(join[n]) /\ laid[2 + p] = join[i][p]
      OBVIOUS
    <3>3. p \in 1 .. Len(join[n])
      BY <3>1, <3>2
    <3>4. laid[2 + p] = join[n][p]
      BY <1>13, <3>3
    <3>5. join[n][p] = join[i][p]
      BY <3>2
    <3>6. QED
      BY <3>3, <3>4, <3>5
  <2>10. laid[2 + (first + 1)] = body[i]
    <3>1. first + 1 \in 1 .. Len(join[i])
      <4>1. Len(join[i]) = first + Len(byte) /\ first \in Nat /\ Len(byte) \in {1, 2}
        BY <2>4, <2>7
      <4> DEFINE a == Len(join[i])
                 b == Len(byte)
      <4>2. a = first + b /\ first \in Nat /\ b \in {1, 2}
        BY <4>1
      <4> HIDE DEF a, b
      <4>3. first + 1 \in 1 .. a
        BY <4>2
      <4>4. QED
        BY <4>3 DEF a
    <3>2. laid[2 + (first + 1)] = join[i][first + 1]
      BY <2>9, <3>1
    <3>3. QED
      BY <2>8, <3>2
  <2>11. body[i] = ESCAPE => laid[2 + (first + 2)] = ESCAPE
    <3> SUFFICES ASSUME body[i] = ESCAPE PROVE laid[2 + (first + 2)] = ESCAPE
      OBVIOUS
    <3>1. Len(byte) = 2 /\ join[i][first + 2] = ESCAPE
      BY <2>7, <2>8
    <3>2. first + 2 \in 1 .. Len(join[i])
      BY <2>4, <3>1
    <3>3. QED
      BY <2>9, <3>1, <3>2
  <2>12. 2 + (first + 1) = 3 + first /\ 2 + (first + 2) = 4 + first
    BY <2>4
  <2>13. QED
    BY <2>4, <2>5, <2>6, <2>10, <2>11, <2>12
<1>15. used[0] = 0 /\ used[n] = Len(join[n])
  BY <1>4, <1>11
<1>16. \A i \in 1 .. n : used[i - 1] \in Nat
  BY <1>10
<1> HIDE DEF used
<1>17. Opens(laid, 0, type, body, n, used)
  <2>1. \A i \in 1 .. n : 0 + 3 + used[i - 1] = 3 + used[i - 1] /\ 0 + 4 + used[i - 1] = 4 + used[i - 1]
    BY <1>16
  <2>2. QED
    BY <1>13, <1>14, <1>15, <2>1 DEF Opens
<1>18. QED
  <2>1. Len(laid) = 2 + used[n]
    BY <1>13, <1>15
  <2>2. QED
    BY <1>10, <1>13, <1>17, <2>1 DEF laid

-----------------------------------------------------------------------------
(* What the bytes of a frame are read as. *)

(* What may follow a frame: the start of another. *)
Follows(bytes, len) ==
  /\ len + 1 <= Len(bytes) => bytes[len + 1] = ESCAPE
  /\ len + 2 <= Len(bytes) => bytes[len + 2] \in Stream!Types

Kinds == {"Frame", "Incomplete", "Skip"}
Was == [kind : Kinds, at : Nat, body : Seq(Stream!Bytes)]

(* How far a body is read after i bytes of it, of bytes that hold n: to    *)
(* the i-th, unless they end before, and past the n-th not at all.         *)
Reading(bytes, body, n, used, i, was) ==
  /\ was \in Was
  /\ i <= n =>
       \/ /\ was.kind = "Frame" /\ was.at = 3 + used[i] /\ was.at <= Len(bytes) + 1
          /\ was.body = [j \in 1 .. i |-> body[j]]
       \/ was.kind = "Incomplete" /\ Len(bytes) < 2 + used[i]
  /\ i > n =>
       \/ was.kind = "Incomplete" /\ Len(bytes) < 4 + used[n]
       \/ was.kind = "Skip" /\ was.at = 3 + used[n] /\ was.at < Len(bytes)

LEMMA Appended ==
  ASSUME NEW n \in Nat, NEW i \in Nat, i < n, NEW body \in [1 .. n -> Stream!Bytes]
  PROVE  /\ Append([j \in 1 .. i |-> body[j]], body[i + 1]) = [j \in 1 .. i + 1 |-> body[j]]
         /\ [j \in 1 .. i + 1 |-> body[j]] \in Seq(Stream!Bytes)
<1> DEFINE first == [j \in 1 .. i |-> body[j]]
           more == [j \in 1 .. i + 1 |-> body[j]]
<1>1. \A j \in 1 .. i + 1 : j \in 1 .. n
  OBVIOUS
<1>2. first \in [1 .. i -> Stream!Bytes] /\ more \in [1 .. i + 1 -> Stream!Bytes] /\ body[i + 1] \in Stream!Bytes
  BY <1>1
<1>3. first \in Seq(Stream!Bytes) /\ Len(first) = i
  BY <1>2
<1>4. more \in Seq(Stream!Bytes) /\ Len(more) = i + 1
  BY <1>2
<1>5. \A j \in 1 .. i : more[j] = first[j]
  OBVIOUS
<1>6. more[i + 1] = body[i + 1]
  OBVIOUS
<1> HIDE DEF first, more
<1>7. Append(first, body[i + 1]) = more
  BY <1>2, <1>3, <1>4, <1>5, <1>6, AppendProperties
<1>8. QED
  BY <1>4, <1>7 DEF first, more

(* The reading that comes next, of another kind or of a byte more. *)
LEMMA WasNext ==
  ASSUME NEW was \in Was
  PROVE  /\ \A kind \in Kinds :
              /\ [was EXCEPT !.kind = kind] \in Was
              /\ [was EXCEPT !.kind = kind].kind = kind
              /\ [was EXCEPT !.kind = kind].at = was.at
         /\ \A at \in Nat, body \in Seq(Stream!Bytes) :
              /\ [was EXCEPT !.at = at, !.body = body] \in Was
              /\ [was EXCEPT !.at = at, !.body = body].kind = was.kind
              /\ [was EXCEPT !.at = at, !.body = body].at = at
              /\ [was EXCEPT !.at = at, !.body = body].body = body
<1> DEFINE S == Seq(Stream!Bytes)
<1>1. was \in [kind : Kinds, at : Nat, body : S]
  BY DEF Was
<1> HIDE DEF S
<1>2. \A kind \in Kinds :
        /\ [was EXCEPT !.kind = kind] \in [kind : Kinds, at : Nat, body : S]
        /\ [was EXCEPT !.kind = kind].kind = kind
        /\ [was EXCEPT !.kind = kind].at = was.at
  BY <1>1
<1>3. \A at \in Nat, body \in S :
        /\ [was EXCEPT !.at = at, !.body = body] \in [kind : Kinds, at : Nat, body : S]
        /\ [was EXCEPT !.at = at, !.body = body].kind = was.kind
        /\ [was EXCEPT !.at = at, !.body = body].at = at
        /\ [was EXCEPT !.at = at, !.body = body].body = body
  BY <1>1
<1>4. QED
  BY <1>2, <1>3 DEF S, Was

LEMMA ReadByteGoes ==
  ASSUME Stream!BeastAssumption, NEW bytes \in Seq(Stream!Bytes), NEW type \in Stream!Types,
         NEW n \in 0 .. LengthOf[type], NEW body \in [1 .. n -> Stream!Bytes],
         NEW used \in [0 .. n -> Nat], Opens(bytes, 0, type, body, n, used),
         Follows(bytes, 2 + used[n]),
         NEW i \in Nat, i < LengthOf[type], NEW was, Reading(bytes, body, n, used, i, was)
  PROVE  Reading(bytes, body, n, used, i + 1, Stream!ReadByte(bytes, was))
<1>1. LengthOf[type] \in Nat /\ n \in Nat /\ Len(bytes) \in Nat /\ used[n] \in Nat
  BY DEF Stream!BeastAssumption, Stream!Types
<1>2. was \in Was
  BY DEF Reading
<1>3. CASE was.kind # "Frame"
  <2>1. Stream!ReadByte(bytes, was) = was
    BY <1>3 DEF Stream!ReadByte
  <2>2. CASE i <= n
    <3>1. was.kind = "Incomplete" /\ Len(bytes) < 2 + used[i]
      BY <1>3, <2>2 DEF Reading
    <3>2. CASE i = n
      <4>1. i + 1 > n /\ ~(i + 1 <= n) /\ Len(bytes) < 4 + used[n]
        BY <1>1, <3>1, <3>2
      <4>2. QED
        BY <1>2, <2>1, <3>1, <4>1 DEF Reading
    <3>3. CASE i # n
      <4>1. i + 1 \in 1 .. n /\ (i + 1) - 1 = i
        BY <1>1, <2>2, <3>3
      <4>2. used[i + 1] = used[i] + (IF body[i + 1] = ESCAPE THEN 2 ELSE 1)
        BY <4>1 DEF Opens
      <4>3. used[i] \in Nat /\ used[i + 1] \in Nat
        BY <4>1, <1>1
      <4>4. Len(bytes) < 2 + used[i + 1]
        BY <1>1, <3>1, <4>2, <4>3
      <4>5. ~(i + 1 > n)
        BY <4>1
      <4>6. QED
        BY <1>2, <2>1, <3>1, <4>4, <4>5 DEF Reading
    <3>4. QED
      BY <3>2, <3>3
  <2>3. CASE i > n
    <3>1. i + 1 > n /\ ~(i + 1 <= n)
      BY <1>1, <2>3
    <3>2. QED
      BY <2>1, <2>3, <3>1 DEF Reading
  <2>4. QED
    BY <1>1, <2>2, <2>3
<1>4. ASSUME was.kind = "Frame" PROVE Reading(bytes, body, n, used, i + 1, Stream!ReadByte(bytes, was))
  <2>1. /\ i <= n /\ was.at = 3 + used[i] /\ was.at <= Len(bytes) + 1
        /\ was.body = [j \in 1 .. i |-> body[j]] /\ was.at \in Nat
    BY <1>1, <1>2, <1>4 DEF Reading, Was
  <2>2. CASE i < n
    <3>1. i + 1 \in 1 .. n /\ (i + 1) - 1 = i
      BY <1>1, <2>2
    <3>2. used[i] \in Nat /\ used[i + 1] \in Nat
      BY <3>1, <1>1
    <3>3. /\ used[i + 1] = used[i] + (IF body[i + 1] = ESCAPE THEN 2 ELSE 1)
          /\ 0 + 3 + used[i] <= Len(bytes) => bytes[0 + 3 + used[i]] = body[i + 1]
          /\ (body[i + 1] = ESCAPE /\ 0 + 4 + used[i] <= Len(bytes))
               => bytes[0 + 4 + used[i]] = ESCAPE
      BY <3>1 DEF Opens
    <3>4. 0 + 3 + used[i] = was.at /\ 0 + 4 + used[i] = was.at + 1
      BY <2>1, <3>2
    <3>5. /\ was.at <= Len(bytes) => bytes[was.at] = body[i + 1]
          /\ (body[i + 1] = ESCAPE /\ was.at + 1 <= Len(bytes)) => bytes[was.at + 1] = ESCAPE
      BY <3>3, <3>4
    <3>6. i + 1 <= n /\ ~(i + 1 > n)
      BY <3>1
    <3>7. CASE Stream!Unfinished(bytes, was.at)
      <4>1. Stream!ReadByte(bytes, was) = [was EXCEPT !.kind = "Incomplete"]
        BY <1>4, <3>7 DEF Stream!ReadByte
      <4>2. was.at > Len(bytes) \/ (body[i + 1] = ESCAPE /\ was.at = Len(bytes))
        BY <3>5, <3>7, <1>1, <2>1 DEF Stream!Unfinished
      <4>6. /\ Stream!ReadByte(bytes, was) \in Was
            /\ Stream!ReadByte(bytes, was).kind = "Incomplete"
        <5>1. "Incomplete" \in Kinds
          BY DEF Kinds
        <5>2. /\ [was EXCEPT !.kind = "Incomplete"] \in Was
              /\ [was EXCEPT !.kind = "Incomplete"].kind = "Incomplete"
          BY <1>2, <5>1, WasNext, ZenonT(60)
        <5>3. QED
          BY <4>1, <5>2
      <4>3. CASE was.at > Len(bytes)
        <5>1. used[i + 1] >= used[i] + 1
          BY <3>2, <3>3
        <5>2. Len(bytes) < 2 + used[i + 1]
          BY <1>1, <2>1, <3>2, <4>3, <5>1, SMTT(60)
        <5>3. QED
          BY <3>6, <4>6, <5>2 DEF Reading
      <4>4. CASE body[i + 1] = ESCAPE /\ was.at = Len(bytes)
        <5>1. used[i + 1] = used[i] + 2
          BY <3>3, <4>4
        <5>2. Len(bytes) < 2 + used[i + 1]
          BY <1>1, <2>1, <3>2, <4>4, <5>1, SMTT(60)
        <5>3. QED
          BY <3>6, <4>6, <5>2 DEF Reading
      <4>5. QED
        BY <4>2, <4>3, <4>4
    <3>8. CASE ~Stream!Unfinished(bytes, was.at)
      <4>1. was.at <= Len(bytes) /\ bytes[was.at] = body[i + 1]
        BY <3>5, <3>8, <1>1, <2>1 DEF Stream!Unfinished
      <4>2. /\ Append(was.body, body[i + 1]) = [j \in 1 .. i + 1 |-> body[j]]
            /\ [j \in 1 .. i + 1 |-> body[j]] \in Seq(Stream!Bytes)
        <5>1. /\ Append([j \in 1 .. i |-> body[j]], body[i + 1]) = [j \in 1 .. i + 1 |-> body[j]]
              /\ [j \in 1 .. i + 1 |-> body[j]] \in Seq(Stream!Bytes)
          BY <1>1, <2>2, Appended
        <5>2. QED
          BY <2>1, <5>1
      <4>3. CASE body[i + 1] # ESCAPE
        <5>1. Stream!ReadByte(bytes, was)
              = [was EXCEPT !.at = was.at + 1, !.body = Append(was.body, body[i + 1])]
          BY <1>4, <3>8, <4>1, <4>3 DEF Stream!ReadByte
        <5>2. used[i + 1] = used[i] + 1
          BY <3>3, <4>3
        <5> DEFINE next == Stream!ReadByte(bytes, was)
        <5>3. /\ next \in Was /\ next.kind = "Frame" /\ next.at = was.at + 1
              /\ next.body = [j \in 1 .. i + 1 |-> body[j]]
          <6>1. was.at + 1 \in Nat
            BY <2>1
          <6> DEFINE at == was.at + 1
                     longer == Append(was.body, body[i + 1])
                     more == [was EXCEPT !.at = at, !.body = longer]
          <6>2. longer \in Seq(Stream!Bytes) /\ at \in Nat /\ longer = [j \in 1 .. i + 1 |-> body[j]]
            BY <4>2, <6>1
          <6>4. next = more
            BY <5>1
          <6>5. at = was.at + 1
            OBVIOUS
          <6> HIDE DEF next, at, longer
          <6>3. more \in Was /\ more.kind = was.kind /\ more.at = at /\ more.body = longer
            <7> DEFINE S == Seq(Stream!Bytes)
            <7>1. was \in [kind : Kinds, at : Nat, body : S] /\ longer \in S /\ at \in Nat
              BY <1>2, <6>2 DEF Was
            <7> HIDE DEF S
            <7>2. /\ more \in [kind : Kinds, at : Nat, body : S]
                  /\ more.kind = was.kind /\ more.at = at /\ more.body = longer
              BY <7>1
            <7>3. QED
              BY <7>2 DEF S, Was
          <6> HIDE DEF more
          <6>6. QED
            BY <1>4, <6>2, <6>3, <6>4, <6>5
        <5>4. was.at + 1 = 3 + used[i + 1] /\ was.at + 1 <= Len(bytes) + 1
          BY <1>1, <2>1, <3>2, <4>1, <5>2, SMTT(60)
        <5> HIDE DEF next
        <5>5. Reading(bytes, body, n, used, i + 1, next)
          BY <3>6, <5>3, <5>4 DEF Reading
        <5>6. QED
          BY <5>5 DEF next
      <4>4. CASE body[i + 1] = ESCAPE
        <5>1. was.at < Len(bytes) /\ bytes[was.at + 1] = ESCAPE
          <6>1. was.at # Len(bytes)
            BY <3>8, <4>1, <4>4 DEF Stream!Unfinished
          <6>2. was.at < Len(bytes) /\ was.at + 1 <= Len(bytes)
            BY <1>1, <2>1, <4>1, <6>1, SMTT(60)
          <6>3. QED
            BY <3>5, <4>4, <6>2
        <5>2. Stream!ReadByte(bytes, was)
              = [was EXCEPT !.at = was.at + 2, !.body = Append(was.body, ESCAPE)]
          BY <1>4, <3>8, <4>1, <4>4, <5>1 DEF Stream!ReadByte
        <5>3. used[i + 1] = used[i] + 2
          BY <3>3, <4>4
        <5> DEFINE next == Stream!ReadByte(bytes, was)
        <5>4. /\ next \in Was /\ next.kind = "Frame" /\ next.at = was.at + 2
              /\ next.body = [j \in 1 .. i + 1 |-> body[j]]
          <6>1. was.at + 2 \in Nat
            BY <2>1
          <6>2. next = [was EXCEPT !.at = was.at + 2, !.body = Append(was.body, body[i + 1])]
            BY <4>4, <5>2
          <6> DEFINE at == was.at + 2
                     longer == Append(was.body, body[i + 1])
                     more == [was EXCEPT !.at = at, !.body = longer]
          <6>3. longer \in Seq(Stream!Bytes) /\ at \in Nat /\ longer = [j \in 1 .. i + 1 |-> body[j]]
            BY <4>2, <6>1
          <6>4. next = more
            BY <6>2
          <6>5. at = was.at + 2
            OBVIOUS
          <6> HIDE DEF next, at, longer
          <6>6. more \in Was /\ more.kind = was.kind /\ more.at = at /\ more.body = longer
            <7> DEFINE S == Seq(Stream!Bytes)
            <7>1. was \in [kind : Kinds, at : Nat, body : S] /\ longer \in S /\ at \in Nat
              BY <1>2, <6>3 DEF Was
            <7> HIDE DEF S
            <7>2. /\ more \in [kind : Kinds, at : Nat, body : S]
                  /\ more.kind = was.kind /\ more.at = at /\ more.body = longer
              BY <7>1
            <7>3. QED
              BY <7>2 DEF S, Was
          <6> HIDE DEF more
          <6>7. QED
            BY <1>4, <6>3, <6>4, <6>5, <6>6
        <5>5. was.at + 2 = 3 + used[i + 1] /\ was.at + 2 <= Len(bytes) + 1
          BY <1>1, <2>1, <3>2, <5>1, <5>3, SMTT(60)
        <5> HIDE DEF next
        <5>6. Reading(bytes, body, n, used, i + 1, next)
          BY <3>6, <5>4, <5>5 DEF Reading
        <5>7. QED
          BY <5>6 DEF next
      <4>5. QED
        BY <4>3, <4>4
    <3>9. QED
      BY <3>7, <3>8
  <2>3. CASE i = n
    <3>1. i + 1 > n /\ ~(i + 1 <= n) /\ was.at = 3 + used[n]
      BY <1>1, <2>1, <2>3
    <3>2. /\ was.at <= Len(bytes) => bytes[was.at] = ESCAPE
          /\ was.at + 1 <= Len(bytes) => bytes[was.at + 1] \in Stream!Types
      <4>1. (2 + used[n]) + 1 = was.at /\ (2 + used[n]) + 2 = was.at + 1
        BY <1>1, <3>1
      <4>2. QED
        BY <4>1 DEF Follows
    <3>3. CASE Stream!Unfinished(bytes, was.at)
      <4>1. Stream!ReadByte(bytes, was) = [was EXCEPT !.kind = "Incomplete"]
        BY <1>4, <3>3 DEF Stream!ReadByte
      <4>2. Len(bytes) < 4 + used[n]
        BY <1>1, <3>1, <3>3 DEF Stream!Unfinished
      <4>3. Stream!ReadByte(bytes, was) \in Was /\ Stream!ReadByte(bytes, was).kind = "Incomplete"
        <5>1. "Incomplete" \in Kinds
          BY DEF Kinds
        <5>2. /\ [was EXCEPT !.kind = "Incomplete"] \in Was
              /\ [was EXCEPT !.kind = "Incomplete"].kind = "Incomplete"
          BY <1>2, <5>1, WasNext, ZenonT(60)
        <5>3. QED
          BY <4>1, <5>2
      <4>4. QED
        BY <3>1, <4>2, <4>3 DEF Reading
    <3>4. CASE ~Stream!Unfinished(bytes, was.at)
      <4>1. was.at < Len(bytes) /\ bytes[was.at] = ESCAPE
        BY <1>1, <2>1, <3>2, <3>4 DEF Stream!Unfinished
      <4>2. bytes[was.at + 1] # ESCAPE
        BY <1>1, <2>1, <3>2, <4>1, SMTT(60) DEF Stream!BeastAssumption
      <4>3. Stream!ReadByte(bytes, was) = [was EXCEPT !.kind = "Skip"]
        BY <1>4, <3>4, <4>1, <4>2 DEF Stream!ReadByte, Stream!BreaksOff
      <4>4. /\ Stream!ReadByte(bytes, was) \in Was /\ Stream!ReadByte(bytes, was).kind = "Skip"
            /\ Stream!ReadByte(bytes, was).at = was.at
        <5>1. "Skip" \in Kinds
          BY DEF Kinds
        <5>2. /\ [was EXCEPT !.kind = "Skip"] \in Was
              /\ [was EXCEPT !.kind = "Skip"].kind = "Skip"
              /\ [was EXCEPT !.kind = "Skip"].at = was.at
          BY <1>2, <5>1, WasNext
        <5>3. QED
          BY <4>3, <5>2
      <4>5. QED
        BY <3>1, <4>1, <4>4 DEF Reading
    <3>5. QED
      BY <3>3, <3>4
  <2>4. QED
    BY <1>1, <2>1, <2>2, <2>3
<1>5. QED
  BY <1>3, <1>4

RunOfBody(step, bytes, type, start, last) ==
  /\ step[0] = start
  /\ \A i \in 1 .. last : step[i] = Stream!ReadByte(bytes, step[i - 1])
  /\ Stream!ReadBody(bytes, type) = step[last]

LEMMA BodySteps ==
  ASSUME NEW bytes, NEW type, NEW last \in Nat, last = LengthOf[type],
         NEW start, start = [kind |-> "Frame", at |-> 3, body |-> <<>>]
  PROVE  \E step : RunOfBody(step, bytes, type, start, last)
<1> DEFINE Is(step, l) ==
             step = [i \in 0 .. l |-> IF i = 0 THEN start ELSE Stream!ReadByte(bytes, step[i - 1])]
           Defined == {l \in Nat : \E step : Is(step, l)}
<1>1. 0 \in Defined
  <2>1. Is([i \in 0 .. 0 |-> start], 0)
    OBVIOUS
  <2>2. QED
    BY <2>1
<1>2. ASSUME NEW l \in Nat, l \in Defined PROVE l + 1 \in Defined
  <2>1. PICK step : Is(step, l)
    BY <1>2
  <2> DEFINE more == [i \in 0 .. l + 1 |->
                        IF i = l + 1 THEN Stream!ReadByte(bytes, step[l]) ELSE step[i]]
  <2>2. \A i \in 0 .. l : more[i] = step[i]
    OBVIOUS
  <2>3. \A i \in 0 .. l + 1 :
          more[i] = IF i = 0 THEN start ELSE Stream!ReadByte(bytes, more[i - 1])
    <3> SUFFICES ASSUME NEW i \in 0 .. l + 1
                 PROVE  more[i] = IF i = 0 THEN start ELSE Stream!ReadByte(bytes, more[i - 1])
      OBVIOUS
    <3>1. CASE i = l + 1
      <4>1. i \in 0 .. l + 1 /\ i - 1 = l /\ i # 0
        BY <3>1
      <4>3. more[i] = Stream!ReadByte(bytes, step[l])
        BY <3>1, <4>1
      <4>2. more[l] = step[l] /\ i = l + 1
        BY <2>2, <3>1
      <4> HIDE DEF more, Is
      <4>4. QED
        BY <4>1, <4>2, <4>3
    <3>2. CASE i # l + 1
      <4>1. i \in 0 .. l
        BY <3>2
      <4>2. step[i] = IF i = 0 THEN start ELSE Stream!ReadByte(bytes, step[i - 1])
        BY <2>1, <4>1
      <4>3. i # 0 => more[i - 1] = step[i - 1]
        BY <2>2, <4>1
      <4>4. more[i] = step[i]
        BY <2>2, <4>1
      <4> HIDE DEF more, Is
      <4>5. QED
        BY <4>2, <4>3, <4>4
    <3>3. QED
      BY <3>1, <3>2
  <2>4. Is(more, l + 1)
    <3>1. more = [i \in 0 .. l + 1 |-> more[i]]
      OBVIOUS
    <3> HIDE DEF more
    <3>2. [i \in 0 .. l + 1 |-> more[i]]
          = [i \in 0 .. l + 1 |-> IF i = 0 THEN start ELSE Stream!ReadByte(bytes, more[i - 1])]
      BY <2>3
    <3>3. QED
      BY <3>1, <3>2
  <2>5. QED
    <3> HIDE DEF more, Is
    <3>1. QED
      BY <2>4
<1>3. Nat \subseteq Defined
  <2> HIDE DEF Defined
  <2>1. QED
    BY <1>1, <1>2, AllNaturals
<1>4. \E t : Is(t, last)
  BY <1>3
<1> HIDE DEF Defined
<1> DEFINE sofar == CHOOSE t : Is(t, last)
<1>5. Is(sofar, last)
  BY <1>4
<1>6. Stream!ReadBody(bytes, type) = sofar[last]
  BY DEF Stream!ReadBody
<1> HIDE DEF sofar
<1>7. sofar[0] = start /\ \A i \in 1 .. last : sofar[i] = Stream!ReadByte(bytes, sofar[i - 1])
  <2>1. 0 \in 0 .. last /\ \A i \in 1 .. last : i \in 0 .. last /\ i # 0
    OBVIOUS
  <2>2. QED
    BY <1>5, <2>1
<1> HIDE DEF Is
<1>8. RunOfBody(sofar, bytes, type, start, last)
  BY <1>6, <1>7 DEF RunOfBody
<1>9. QED
  BY <1>8

LEMMA StartOfBody ==
  ASSUME NEW S, NEW none \in S
  PROVE  [kind |-> "Frame", at |-> 3, body |-> none] \in [kind : Kinds, at : Nat, body : S]
<1>1. "Frame" \in Kinds
  BY DEF Kinds
<1>2. \A kind \in Kinds, at \in Nat, body \in S :
        [kind |-> kind, at |-> at, body |-> body] \in [kind : Kinds, at : Nat, body : S]
  OBVIOUS
<1>3. QED
  BY <1>1, <1>2

LEMMA BodyRead ==
  ASSUME Stream!BeastAssumption, NEW bytes \in Seq(Stream!Bytes), NEW type \in Stream!Types, Len(bytes) >= 2,
         NEW n \in 0 .. LengthOf[type], NEW body \in [1 .. n -> Stream!Bytes],
         NEW used \in [0 .. n -> Nat], Opens(bytes, 0, type, body, n, used),
         Follows(bytes, 2 + used[n])
  PROVE  Reading(bytes, body, n, used, LengthOf[type], Stream!ReadBody(bytes, type))
<1> DEFINE start == [kind |-> "Frame", at |-> 3, body |-> <<>>]
           last == LengthOf[type]
<1>1. last \in Nat /\ n \in Nat
  BY DEF Stream!BeastAssumption, Stream!Types
<1>2. \E step : RunOfBody(step, bytes, type, start, last)
  <2>1. last \in Nat /\ last = LengthOf[type]
        /\ start = [kind |-> "Frame", at |-> 3, body |-> <<>>]
    BY <1>1
  <2> HIDE DEF start, last
  <2>2. QED
    BY <2>1, BodySteps
<1>3. PICK step : RunOfBody(step, bytes, type, start, last)
  BY <1>2
<1>4. Stream!ReadBody(bytes, type) = step[last]
  BY <1>3 DEF RunOfBody
<1>5. step[0] = start /\ \A i \in 1 .. last : step[i] = Stream!ReadByte(bytes, step[i - 1])
  BY <1>3 DEF RunOfBody
<1> HIDE DEF last
<1> DEFINE Gone == {i \in Nat : i <= last => Reading(bytes, body, n, used, i, step[i])}
<1>6. 0 \in Gone
  <2>1. start \in Was /\ start.kind = "Frame" /\ start.at = 3 /\ start.body = <<>>
    <3> DEFINE S == Seq(Stream!Bytes)
               none == <<>>
    <3>1. none \in S /\ start = [kind |-> "Frame", at |-> 3, body |-> none]
      OBVIOUS
    <3> HIDE DEF S, none, start
    <3>2. start \in [kind : Kinds, at : Nat, body : S]
      BY <3>1, StartOfBody
    <3>3. start \in Was
      BY <3>2 DEF S, Was
    <3> USE DEF start
    <3>4. QED
      BY <3>3
  <2>2. [j \in 1 .. 0 |-> body[j]] = <<>>
    OBVIOUS
  <2>3. used[0] = 0 /\ ~(0 > n) /\ 0 <= n
    BY <1>1 DEF Opens
  <2> HIDE DEF start
  <2>4. Reading(bytes, body, n, used, 0, start)
    BY <2>1, <2>2, <2>3 DEF Reading
  <2>5. QED
    BY <1>5, <2>4
<1>7. ASSUME NEW i \in Nat, i \in Gone PROVE i + 1 \in Gone
  <2> SUFFICES ASSUME i + 1 <= last PROVE Reading(bytes, body, n, used, i + 1, step[i + 1])
    OBVIOUS
  <2>1. i < last /\ i + 1 \in 1 .. last /\ (i + 1) - 1 = i
    BY <1>1
  <2>2. step[i + 1] = Stream!ReadByte(bytes, step[i])
    BY <1>5, <2>1
  <2>3. Reading(bytes, body, n, used, i, step[i])
    BY <1>1, <1>7, <2>1
  <2>4. Reading(bytes, body, n, used, i + 1, Stream!ReadByte(bytes, step[i]))
    BY <2>1, <2>3, ReadByteGoes DEF last
  <2>5. QED
    BY <2>2, <2>4
<1>8. Nat \subseteq Gone
  <2> HIDE DEF Gone
  <2>1. QED
    BY <1>6, <1>7, AllNaturals
<1>9. Reading(bytes, body, n, used, last, step[last])
  BY <1>1, <1>8
<1>10. QED
  BY <1>4, <1>9 DEF last

(* What is left to be read on is the start of one frame. *)
Short(bytes) ==
  bytes # <<>> =>
    /\ bytes[1] = ESCAPE
    /\ Len(bytes) > 1 => bytes[2] \in Stream!Types /\ Len(bytes) <= 1 + 2 * LengthOf[bytes[2]]

(* What bytes are read as that start with a frame of the length. *)
Parsed(bytes, len, frame, parsed) ==
  \/ /\ parsed.kind = "Incomplete" /\ Short(bytes) /\ Len(bytes) < len + 2
     /\ frame.type \in ModeS => Len(bytes) < len
  \/ /\ parsed.kind = "Frame" /\ parsed.len = len /\ len <= Len(bytes)
     /\ frame = [type |-> parsed.type, body |-> parsed.body]
  \/ parsed.kind = "Skip" /\ parsed.len = len /\ len <= Len(bytes) /\ frame.type \notin ModeS

(* A frame is read as what it is, or as too short as yet. *)
LEMMA ItemParsed ==
  ASSUME Stream!BeastAssumption, NEW bytes \in Seq(Stream!Bytes), NEW len, NEW frame,
         Item(bytes, 0, len, frame), Follows(bytes, len)
  PROVE  Parsed(bytes, len, frame, Stream!Parse(bytes))
<1>1. PICK type \in Stream!Types : \E n \in 0 .. LengthOf[type] :
        \E body \in [1 .. n -> Stream!Bytes] : \E used \in [0 .. n -> Nat] :
          /\ Opens(bytes, 0, type, body, n, used)
          /\ len = 2 + used[n]
          /\ \/ n = LengthOf[type] /\ frame = [type |-> type, body |-> body]
             \/ n < LengthOf[type] /\ frame.type \notin ModeS
  BY DEF Item
<1>2. PICK n \in 0 .. LengthOf[type] :
        \E body \in [1 .. n -> Stream!Bytes] : \E used \in [0 .. n -> Nat] :
          /\ Opens(bytes, 0, type, body, n, used)
          /\ len = 2 + used[n]
          /\ \/ n = LengthOf[type] /\ frame = [type |-> type, body |-> body]
             \/ n < LengthOf[type] /\ frame.type \notin ModeS
  BY <1>1
<1>3. PICK body \in [1 .. n -> Stream!Bytes] : \E used \in [0 .. n -> Nat] :
          /\ Opens(bytes, 0, type, body, n, used)
          /\ len = 2 + used[n]
          /\ \/ n = LengthOf[type] /\ frame = [type |-> type, body |-> body]
             \/ n < LengthOf[type] /\ frame.type \notin ModeS
  BY <1>2
<1>4. PICK used \in [0 .. n -> Nat] :
          /\ Opens(bytes, 0, type, body, n, used)
          /\ len = 2 + used[n]
          /\ \/ n = LengthOf[type] /\ frame = [type |-> type, body |-> body]
             \/ n < LengthOf[type] /\ frame.type \notin ModeS
  BY <1>3
<1>5. n \in Nat /\ LengthOf[type] \in Nat /\ LengthOf[type] >= 1 /\ Len(bytes) \in Nat
  BY DEF Stream!BeastAssumption, Stream!Types
<1>6. used[n] \in Nat /\ used[n] <= 2 * n
  <2>1. /\ used[0] = 0
        /\ \A i \in 1 .. n : used[i] = used[i - 1] + (IF body[i] = ESCAPE THEN 2 ELSE 1)
    BY <1>4 DEF Opens
  <2>2. n \in 0 .. n
    BY <1>5
  <2>3. \A i \in 0 .. n : used[i] <= 2 * i /\ used[i] <= used[n]
    BY <1>5, <2>1, UsedGrows
  <2>4. QED
    BY <2>2, <2>3
<1>7. /\ Len(bytes) >= 1 => bytes[1] = ESCAPE
      /\ Len(bytes) >= 2 => bytes[2] = type
  BY <1>4, <1>5 DEF Opens
<1>8. CASE Len(bytes) < 2
  <2>1. Stream!Parse(bytes) = Stream!Incomplete
    <3>1. CASE bytes = <<>>
      BY <3>1 DEF Stream!Parse
    <3>2. CASE bytes # <<>>
      <4>1. Len(bytes) # 0
        <5>1. Len(bytes) \in Nat \ {0}
          BY <3>2, EmptySeq
        <5>2. QED
          BY <5>1
      <4>3. Len(bytes) = 1 /\ bytes[1] = ESCAPE
        <5>1. Len(bytes) \in Nat
          BY <1>5
        <5>2. Len(bytes) = 1
          BY <1>8, <4>1, <5>1
        <5>3. QED
          BY <1>7, <5>2
      <4>2. QED
        BY <3>2, <4>3 DEF Stream!Parse
    <3>3. QED
      BY <3>1, <3>2
  <2>2. Short(bytes)
    BY <1>5, <1>7, <1>8, EmptySeq DEF Short
  <2>3. Len(bytes) < len /\ Len(bytes) < len + 2
    BY <1>4, <1>5, <1>6, <1>8
  <2>4. QED
    BY <2>1, <2>2, <2>3 DEF Parsed, Stream!Incomplete
<1>9. CASE Len(bytes) >= 2
  <2> DEFINE sofar == Stream!ReadBody(bytes, type)
  <2>1. Reading(bytes, body, n, used, LengthOf[type], sofar)
    BY <1>4, <1>9, BodyRead
  <2>2. bytes # <<>> /\ bytes[1] = ESCAPE /\ bytes[2] = type /\ Len(bytes) # 1
    BY <1>5, <1>7, <1>9
  <2>3. Stream!Parse(bytes) = CASE sofar.kind = "Incomplete" -> Stream!Incomplete
                         [] sofar.kind = "Skip" -> Stream!Skip(sofar.at - 1)
                         [] OTHER -> Stream!Frame(type, sofar.body, sofar.at - 1)
    BY <2>2 DEF Stream!Parse
  <2> HIDE DEF sofar
  <2>4. ASSUME Len(bytes) <= 1 + 2 * LengthOf[type] PROVE Short(bytes)
    BY <2>2, <2>4, <1>1 DEF Short
  <2>5. CASE n = LengthOf[type] /\ frame = [type |-> type, body |-> body]
    <3>1. \/ /\ sofar.kind = "Frame" /\ sofar.at = 3 + used[n] /\ sofar.at <= Len(bytes) + 1
             /\ sofar.body = [j \in 1 .. n |-> body[j]]
          \/ sofar.kind = "Incomplete" /\ Len(bytes) < 2 + used[n]
      <4>1. Reading(bytes, body, n, used, n, sofar) /\ n <= n
        <5>1. n = LengthOf[type]
          BY <2>5
        <5>2. n <= n
          BY <1>5
        <5>3. QED
          BY <2>1, <5>1, <5>2
      <4>2. QED
        BY <4>1 DEF Reading
    <3>2. CASE sofar.kind = "Incomplete" /\ Len(bytes) < 2 + used[n]
      <4>1. Len(bytes) < len /\ Len(bytes) < len + 2 /\ Len(bytes) <= 1 + 2 * LengthOf[type]
        BY <1>4, <1>5, <1>6, <2>5, <3>2
      <4>2. Stream!Parse(bytes) = Stream!Incomplete
        BY <2>3, <3>2
      <4>3. QED
        BY <2>4, <4>1, <4>2 DEF Parsed, Stream!Incomplete
    <3>3. CASE /\ sofar.kind = "Frame" /\ sofar.at = 3 + used[n] /\ sofar.at <= Len(bytes) + 1
               /\ sofar.body = [j \in 1 .. n |-> body[j]]
      <4>1. Stream!Parse(bytes) = Stream!Frame(type, body, sofar.at - 1)
        <5>1. sofar.body = body
          BY <3>3
        <5>2. QED
          BY <2>3, <3>3, <5>1
      <4>2. sofar.at - 1 = len /\ len <= Len(bytes)
        BY <1>4, <1>5, <1>6, <3>3
      <4>3. QED
        BY <2>5, <4>1, <4>2 DEF Parsed, Stream!Frame
    <3>4. QED
      BY <3>1, <3>2, <3>3
  <2>6. CASE n < LengthOf[type] /\ frame.type \notin ModeS
    <3>1. \/ sofar.kind = "Incomplete" /\ Len(bytes) < 4 + used[n]
          \/ sofar.kind = "Skip" /\ sofar.at = 3 + used[n] /\ sofar.at < Len(bytes)
      BY <1>5, <2>1, <2>6 DEF Reading
    <3>2. CASE sofar.kind = "Incomplete" /\ Len(bytes) < 4 + used[n]
      <4>1. Len(bytes) < len + 2 /\ Len(bytes) <= 1 + 2 * LengthOf[type]
        BY <1>4, <1>5, <1>6, <2>6, <3>2
      <4>2. Stream!Parse(bytes) = Stream!Incomplete
        BY <2>3, <3>2
      <4>3. QED
        BY <2>4, <2>6, <4>1, <4>2 DEF Parsed, Stream!Incomplete
    <3>3. CASE sofar.kind = "Skip" /\ sofar.at = 3 + used[n] /\ sofar.at < Len(bytes)
      <4>1. Stream!Parse(bytes) = Stream!Skip(sofar.at - 1)
        BY <2>3, <3>3
      <4>2. sofar.at - 1 = len /\ len <= Len(bytes)
        BY <1>4, <1>5, <1>6, <3>3
      <4>3. QED
        BY <2>6, <4>1, <4>2 DEF Parsed, Stream!Skip
    <3>4. QED
      BY <3>1, <3>2, <3>3
  <2>7. QED
    BY <1>4, <2>5, <2>6
<1>10. QED
  BY <1>5, <1>8, <1>9

-----------------------------------------------------------------------------
(* The frames of what was sent. *)

LEMMA WholeSteps ==
  ASSUME NEW s, Len(s) \in Nat, NEW n
  PROVE  \E whole : /\ Stream!Whole(s, n) = whole[Len(s)] /\ whole[0] = <<>>
                    /\ \A i \in 1 .. Len(s) : whole[i] = Stream!Longer(whole[i - 1], s[i], n)
<1> DEFINE last == Len(s)
           Is(whole) == whole = [i \in 0 .. last |-> IF i = 0 THEN <<>>
                                                     ELSE Stream!Longer(whole[i - 1], s[i], n)]
<1> DEFINE whole == CHOOSE t : Is(t)
<1>2. Is(whole)
  BY WholeExists
<1>3. Stream!Whole(s, n) = whole[last]
  BY DEF Stream!Whole
<1> HIDE DEF whole
<1>4. whole[0] = <<>> /\ \A i \in 1 .. last : whole[i] = Stream!Longer(whole[i - 1], s[i], n)
  <2> HIDE DEF last
  <2>1. 0 \in 0 .. last /\ \A i \in 1 .. last : i \in 0 .. last /\ i # 0
    BY DEF last
  <2>2. QED
    BY <1>2, <2>1
<1>5. QED
  BY <1>3, <1>4

(* They are those of one place as of another, if none ends in between. *)
LEMMA WholeSame ==
  ASSUME NEW s, Len(s) \in Nat, NEW n \in Nat, NEW m \in Nat,
         \A i \in 1 .. Len(s) : s[i].frame.type \in ModeS => (s[i].end <= n <=> s[i].end <= m)
  PROVE  Stream!Whole(s, n) = Stream!Whole(s, m)
<1>1. PICK w : /\ Stream!Whole(s, n) = w[Len(s)] /\ w[0] = <<>>
               /\ \A i \in 1 .. Len(s) : w[i] = Stream!Longer(w[i - 1], s[i], n)
  BY WholeSteps
<1>2. PICK v : /\ Stream!Whole(s, m) = v[Len(s)] /\ v[0] = <<>>
               /\ \A i \in 1 .. Len(s) : v[i] = Stream!Longer(v[i - 1], s[i], m)
  BY WholeSteps
<1> DEFINE Same == {i \in Nat : i <= Len(s) => w[i] = v[i]}
<1>3. 0 \in Same
  BY <1>1, <1>2
<1>4. ASSUME NEW i \in Nat, i \in Same PROVE i + 1 \in Same
  <2> SUFFICES ASSUME i + 1 <= Len(s) PROVE w[i + 1] = v[i + 1]
    OBVIOUS
  <2>1. i + 1 \in 1 .. Len(s) /\ (i + 1) - 1 = i /\ i <= Len(s)
    OBVIOUS
  <2>2. w[i] = v[i]
    BY <1>4, <2>1
  <2>3. w[i + 1] = Stream!Longer(w[i], s[i + 1], n) /\ v[i + 1] = Stream!Longer(v[i], s[i + 1], m)
    BY <1>1, <1>2, <2>1
  <2>4. Stream!Longer(w[i], s[i + 1], n) = Stream!Longer(w[i], s[i + 1], m)
    <3>1. s[i + 1].frame.type \in ModeS => (s[i + 1].end <= n <=> s[i + 1].end <= m)
      BY <2>1
    <3> DEFINE item == s[i + 1]
    <3> HIDE DEF item
    <3>2. item.frame.type \in ModeS => (item.end <= n <=> item.end <= m)
      BY <3>1 DEF item
    <3>3. Stream!Longer(w[i], item, n) = Stream!Longer(w[i], item, m)
      BY <3>2 DEF Stream!Longer
    <3>4. QED
      BY <3>3 DEF item
  <2>5. QED
    BY <2>2, <2>3, <2>4
<1>5. Nat \subseteq Same
  <2> HIDE DEF Same
  <2>1. QED
    BY <1>3, <1>4, AllNaturals
<1>6. QED
  BY <1>1, <1>2, <1>5

(* One more, where one ends in between and none before it. *)
LEMMA WholeLonger ==
  ASSUME NEW s, Len(s) \in Nat, NEW n \in Nat, NEW m \in Nat, n <= m, NEW j \in 1 .. Len(s),
         \A i \in 1 .. j - 1 : s[i].end <= n /\ s[i].end <= m,
         ~(s[j].end <= n), s[j].end <= m,
         \A i \in j + 1 .. Len(s) : ~(s[i].end <= n) /\ ~(s[i].end <= m)
  PROVE  Stream!Whole(s, m) = IF s[j].frame.type \in ModeS THEN Append(Stream!Whole(s, n), s[j].frame)
                                                    ELSE Stream!Whole(s, n)
<1>1. PICK w : /\ Stream!Whole(s, n) = w[Len(s)] /\ w[0] = <<>>
               /\ \A i \in 1 .. Len(s) : w[i] = Stream!Longer(w[i - 1], s[i], n)
  BY WholeSteps
<1>2. PICK v : /\ Stream!Whole(s, m) = v[Len(s)] /\ v[0] = <<>>
               /\ \A i \in 1 .. Len(s) : v[i] = Stream!Longer(v[i - 1], s[i], m)
  BY WholeSteps
<1> DEFINE More(x) == IF s[j].frame.type \in ModeS THEN Append(x, s[j].frame) ELSE x
           After == {i \in Nat : i <= Len(s) =>
                       /\ i < j => v[i] = w[i]
                       /\ i >= j => v[i] = More(w[i])}
<1>3. 0 \in After
  BY <1>1, <1>2
<1>4. ASSUME NEW i \in Nat, i \in After PROVE i + 1 \in After
  <2> SUFFICES ASSUME i + 1 <= Len(s)
               PROVE  (i + 1 < j => v[i + 1] = w[i + 1])
                      /\ (i + 1 >= j => v[i + 1] = More(w[i + 1]))
    OBVIOUS
  <2>1. i + 1 \in 1 .. Len(s) /\ (i + 1) - 1 = i /\ i <= Len(s)
    OBVIOUS
  <2>2. (i < j => v[i] = w[i]) /\ (i >= j => v[i] = More(w[i]))
    BY <1>4, <2>1
  <2>3. w[i + 1] = Stream!Longer(w[i], s[i + 1], n) /\ v[i + 1] = Stream!Longer(v[i], s[i + 1], m)
    BY <1>1, <1>2, <2>1
  <2>4. CASE i + 1 < j
    <3>1. i + 1 \in 1 .. j - 1 /\ i < j
      BY <2>1, <2>4
    <3>2. s[i + 1].end <= n /\ s[i + 1].end <= m
      BY <3>1
    <3>3. v[i + 1] = w[i + 1]
      BY <2>2, <2>3, <3>1, <3>2, Zenon DEF Stream!Longer
    <3>4. ~(i + 1 >= j)
      BY <2>4
    <3>5. QED
      BY <3>3, <3>4
  <2>5. CASE i + 1 = j
    <3>1. v[i] = w[i]
      BY <2>2, <2>5
    <3>2. w[i + 1] = w[i]
      BY <2>3, <2>5, Zenon DEF Stream!Longer
    <3>3. v[i + 1] = More(v[i])
      BY <2>3, <2>5, Zenon DEF Stream!Longer
    <3>4. ~(i + 1 < j)
      BY <2>5
    <3> HIDE DEF More
    <3>5. QED
      BY <3>1, <3>2, <3>3, <3>4
  <2>6. CASE i + 1 > j
    <3>1. i + 1 \in j + 1 .. Len(s) /\ i >= j /\ ~(i + 1 < j)
      BY <2>1, <2>6
    <3>2. ~(s[i + 1].end <= n) /\ ~(s[i + 1].end <= m)
      BY <3>1
    <3>3. w[i + 1] = w[i] /\ v[i + 1] = v[i]
      BY <2>3, <3>2, Zenon DEF Stream!Longer
    <3>4. v[i] = More(w[i])
      BY <2>2, <3>1
    <3> HIDE DEF More
    <3>5. QED
      BY <3>1, <3>3, <3>4
  <2>7. QED
    BY <2>4, <2>5, <2>6
<1>5. Nat \subseteq After
  <2> HIDE DEF After
  <2>1. QED
    BY <1>3, <1>4, AllNaturals
<1>6. v[Len(s)] = More(w[Len(s)])
  BY <1>5
<1>7. QED
  BY <1>1, <1>2, <1>6

(* What is sent now ends later. *)
LEMMA WholeBefore ==
  ASSUME NEW X, NEW s \in Seq(X), NEW item \in X, NEW n, ~(item.end <= n)
  PROVE  Stream!Whole(Append(s, item), n) = Stream!Whole(s, n)
<1> DEFINE more == Append(s, item)
<1>1. /\ Len(s) \in Nat /\ Len(more) = Len(s) + 1
      /\ \A i \in 1 .. Len(s) : more[i] = s[i]
      /\ more[Len(s) + 1] = item
  OBVIOUS
<1> HIDE DEF more
<1>2. PICK w : /\ Stream!Whole(s, n) = w[Len(s)] /\ w[0] = <<>>
               /\ \A i \in 1 .. Len(s) : w[i] = Stream!Longer(w[i - 1], s[i], n)
  BY <1>1, WholeSteps
<1>3. PICK v : /\ Stream!Whole(more, n) = v[Len(more)] /\ v[0] = <<>>
               /\ \A i \in 1 .. Len(more) : v[i] = Stream!Longer(v[i - 1], more[i], n)
  BY <1>1, WholeSteps, SMTT(60)
<1> DEFINE Same == {i \in Nat : i <= Len(s) => w[i] = v[i]}
<1>4. 0 \in Same
  BY <1>2, <1>3
<1>5. ASSUME NEW i \in Nat, i \in Same PROVE i + 1 \in Same
  <2> SUFFICES ASSUME i + 1 <= Len(s) PROVE w[i + 1] = v[i + 1]
    OBVIOUS
  <2>1. /\ i + 1 \in 1 .. Len(s) /\ (i + 1) - 1 = i /\ i <= Len(s)
        /\ i + 1 \in 1 .. Len(more)
    BY <1>1
  <2>2. w[i] = v[i] /\ more[i + 1] = s[i + 1]
    BY <1>1, <1>5, <2>1
  <2>3. w[i + 1] = Stream!Longer(w[i], s[i + 1], n) /\ v[i + 1] = Stream!Longer(v[i], more[i + 1], n)
    BY <1>2, <1>3, <2>1
  <2>4. QED
    BY <2>2, <2>3
<1>6. Nat \subseteq Same
  <2> HIDE DEF Same
  <2>1. QED
    BY <1>4, <1>5, AllNaturals
<1>7. w[Len(s)] = v[Len(s)]
  BY <1>1, <1>6
<1>8. v[Len(more)] = Stream!Longer(v[Len(s)], item, n)
  <2>1. Len(s) + 1 \in 1 .. Len(more) /\ (Len(s) + 1) - 1 = Len(s)
    BY <1>1
  <2>2. QED
    BY <1>1, <1>3, <2>1
<1>9. Stream!Longer(v[Len(s)], item, n) = v[Len(s)]
  BY Zenon DEF Stream!Longer
<1>10. QED
  BY <1>2, <1>3, <1>7, <1>8, <1>9 DEF more

(* What was sent of whole frames and of broken ones, each of two bytes at  *)
(* least.                                                                  *)
Rows(s) ==
  /\ s \in Seq([frame : Stream!Frames \cup {[type |-> "none"]}, end : Nat])
  /\ \A j \in 1 .. Len(s) : s[j].end >= Start(s, j) + 2

LEMMA StartsGrow ==
  ASSUME NEW s, Rows(s)
  PROVE  /\ Len(s) \in Nat
         /\ \A j \in 1 .. Len(s) + 1 : Start(s, j) \in Nat
         /\ \A j \in 1 .. Len(s) : s[j].end \in Nat /\ Start(s, j + 1) = s[j].end
         /\ \A j \in 1 .. Len(s) + 1 : \A i \in 1 .. j : i < j => Start(s, i) + 2 <= Start(s, j)
<1> DEFINE X == [frame : Stream!Frames \cup {[type |-> "none"]}, end : Nat]
<1>1. Len(s) \in Nat /\ \A j \in 1 .. Len(s) : s[j].end \in Nat
  <2>1. s \in Seq(X)
    BY DEF Rows
  <2>2. \A x \in X : x.end \in Nat
    OBVIOUS
  <2> HIDE DEF X
  <2>3. Len(s) \in Nat /\ \A j \in 1 .. Len(s) : s[j] \in X
    BY <2>1
  <2>4. QED
    BY <2>2, <2>3
<1>2. \A j \in 1 .. Len(s) : Start(s, j + 1) = s[j].end
  BY <1>1 DEF Start
<1>3. \A j \in 1 .. Len(s) + 1 : Start(s, j) \in Nat
  <2> SUFFICES ASSUME NEW j \in 1 .. Len(s) + 1 PROVE Start(s, j) \in Nat
    OBVIOUS
  <2>1. CASE j = 1
    BY <2>1 DEF Start
  <2>2. CASE j # 1
    <3>1. j - 1 \in 1 .. Len(s)
      BY <1>1, <2>2
    <3>2. QED
      BY <1>1, <2>2, <3>1 DEF Start
  <2>3. QED
    BY <2>1, <2>2
<1> DEFINE Grown == {j \in Nat : j \in 1 .. Len(s) + 1 =>
                       \A i \in 1 .. j : i < j => Start(s, i) + 2 <= Start(s, j)}
<1>4. 0 \in Grown
  OBVIOUS
<1>5. ASSUME NEW j \in Nat, j \in Grown PROVE j + 1 \in Grown
  <2> SUFFICES ASSUME j + 1 \in 1 .. Len(s) + 1, NEW i \in 1 .. j + 1, i < j + 1
               PROVE  Start(s, i) + 2 <= Start(s, j + 1)
    OBVIOUS
  <2>1. j \in 1 .. Len(s) /\ j \in 1 .. Len(s) + 1 /\ i \in 1 .. j
    BY <1>1
  <2>2. Start(s, j + 1) >= Start(s, j) + 2
    BY <1>2, <2>1 DEF Rows
  <2>3. Start(s, i) \in Nat /\ Start(s, j) \in Nat /\ Start(s, j + 1) \in Nat
    BY <1>1, <1>3, <2>1
  <2>4. CASE i = j
    BY <2>2, <2>4
  <2>5. CASE i # j
    <3>1. Start(s, i) + 2 <= Start(s, j)
      BY <1>5, <2>1, <2>5
    <3>2. QED
      BY <2>2, <2>3, <3>1
  <2>6. QED
    BY <2>4, <2>5
<1>6. Nat \subseteq Grown
  <2> HIDE DEF Grown
  <2>1. QED
    BY <1>4, <1>5, AllNaturals
<1>7. QED
  BY <1>1, <1>2, <1>3, <1>6

(* Read as far as one frame and then past it, one more is returned if it   *)
(* is of Mode S.                                                           *)
LEMMA WholePast ==
  ASSUME NEW s, Rows(s), NEW j \in 1 .. Len(s)
  PROVE  Stream!Whole(s, Start(s, j + 1)) =
           IF s[j].frame.type \in ModeS THEN Append(Stream!Whole(s, Start(s, j)), s[j].frame)
                                        ELSE Stream!Whole(s, Start(s, j))
<1>1. /\ Len(s) \in Nat
      /\ \A i \in 1 .. Len(s) + 1 : Start(s, i) \in Nat
      /\ \A i \in 1 .. Len(s) : s[i].end \in Nat /\ Start(s, i + 1) = s[i].end
      /\ \A k \in 1 .. Len(s) + 1 : \A i \in 1 .. k : i < k => Start(s, i) + 2 <= Start(s, k)
  BY StartsGrow
<1> DEFINE n == Start(s, j)
           m == Start(s, j + 1)
<1>2. j \in 1 .. Len(s) + 1 /\ j + 1 \in 1 .. Len(s) + 1 /\ j \in 1 .. j + 1 /\ j < j + 1
  BY <1>1
<1>3. n \in Nat /\ m \in Nat /\ n + 2 <= m /\ s[j].end = m
  BY <1>1, <1>2
<1>4. ASSUME NEW i \in 1 .. j - 1 PROVE s[i].end <= n /\ s[i].end <= m
  <2>1. i \in 1 .. Len(s) /\ i + 1 \in 1 .. j /\ i + 1 \in 1 .. Len(s) + 1
    BY <1>1
  <2>2. s[i].end = Start(s, i + 1) /\ s[i].end \in Nat
    BY <1>1, <2>1
  <2>3. i + 1 # j => Start(s, i + 1) + 2 <= n
    BY <1>1, <1>2, <2>1
  <2>4. i + 1 = j => Start(s, i + 1) = n
    OBVIOUS
  <2> HIDE DEF n, m
  <2>5. QED
    BY <1>3, <2>2, <2>3, <2>4
<1>5. ASSUME NEW i \in j + 1 .. Len(s) PROVE ~(s[i].end <= n) /\ ~(s[i].end <= m)
  <2>1. i \in 1 .. Len(s) /\ i + 1 \in 1 .. Len(s) + 1 /\ j + 1 \in 1 .. i + 1 /\ j + 1 < i + 1
    BY <1>1
  <2>2. m + 2 <= Start(s, i + 1) /\ s[i].end = Start(s, i + 1) /\ s[i].end \in Nat
    BY <1>1, <2>1
  <2> HIDE DEF n, m
  <2>3. QED
    BY <1>3, <2>2
<1>6. ~(s[j].end <= n) /\ s[j].end <= m /\ n <= m
  <2> HIDE DEF n, m
  <2>1. QED
    BY <1>3
<1> HIDE DEF n, m
<1>7. Stream!Whole(s, m) = IF s[j].frame.type \in ModeS THEN Append(Stream!Whole(s, n), s[j].frame)
                                                 ELSE Stream!Whole(s, n)
  BY <1>1, <1>3, <1>4, <1>5, <1>6, WholeLonger
<1>8. QED
  BY <1>7 DEF n, m

(* What was returned is of what was sent. *)
LEMMA WholeSent ==
  ASSUME NEW s, Len(s) \in Nat, NEW n
  PROVE  Stream!Whole(s, n) \in Seq({s[i].frame : i \in 1 .. Len(s)})
<1> DEFINE F == {s[i].frame : i \in 1 .. Len(s)}
<1>1. PICK w : /\ Stream!Whole(s, n) = w[Len(s)] /\ w[0] = <<>>
               /\ \A i \in 1 .. Len(s) : w[i] = Stream!Longer(w[i - 1], s[i], n)
  BY WholeSteps
<1> DEFINE Typed == {i \in Nat : i <= Len(s) => w[i] \in Seq(F)}
<1>2. 0 \in Typed
  <2> HIDE DEF F
  <2>1. <<>> \in Seq(F)
    OBVIOUS
  <2>2. w[0] \in Seq(F)
    BY <1>1, <2>1
  <2>3. QED
    BY <2>2
<1>3. ASSUME NEW i \in Nat, i \in Typed PROVE i + 1 \in Typed
  <2> SUFFICES ASSUME i + 1 <= Len(s) PROVE w[i + 1] \in Seq(F)
    OBVIOUS
  <2>1. i + 1 \in 1 .. Len(s) /\ (i + 1) - 1 = i /\ i <= Len(s)
    OBVIOUS
  <2>2. w[i] \in Seq(F) /\ s[i + 1].frame \in F /\ w[i + 1] = Stream!Longer(w[i], s[i + 1], n)
    BY <1>1, <1>3, <2>1
  <2> HIDE DEF F
  <2>3. Append(w[i], s[i + 1].frame) \in Seq(F)
    BY <2>2
  <2>4. QED
    BY <2>2, <2>3, Zenon DEF Stream!Longer
<1>4. Nat \subseteq Typed
  <2> HIDE DEF Typed
  <2>1. QED
    BY <1>2, <1>3, AllNaturals
<1>5. QED
  BY <1>1, <1>4

-----------------------------------------------------------------------------
(* Reading bytes on. *)

(* The bytes that are left of the stream, from the k-th frame sent on, and *)
(* those of them that have come to the reader.                             *)
Laid(rest, s, k) ==
  \A j \in k .. Len(s) :
    Item(rest, Start(s, j) - Start(s, k), s[j].end - Start(s, j), s[j].frame)

Stands(bytes, rest, s, k) ==
  /\ Rows(s) /\ k \in 1 .. Len(s) + 1 /\ rest \in Seq(Stream!Bytes)
  /\ Start(s, Len(s) + 1) = Start(s, k) + Len(rest)
  /\ Laid(rest, s, k)
  /\ bytes \in Seq(Stream!Bytes) /\ Len(bytes) <= Len(rest)
  /\ \A p \in 1 .. Len(bytes) : bytes[p] = rest[p]

LEMMA ItemHead ==
  ASSUME Stream!BeastAssumption, NEW bytes, NEW o, NEW len, NEW frame, Item(bytes, o, len, frame)
  PROVE  /\ len \in Nat /\ len >= 2
         /\ o + 1 <= Len(bytes) => bytes[o + 1] = ESCAPE
         /\ o + 2 <= Len(bytes) => bytes[o + 2] \in Stream!Types
<1>1. PICK type \in Stream!Types : \E n \in 0 .. LengthOf[type] :
        \E body \in [1 .. n -> Stream!Bytes] : \E used \in [0 .. n -> Nat] :
          Opens(bytes, o, type, body, n, used) /\ len = 2 + used[n]
  BY DEF Item
<1>2. PICK n \in 0 .. LengthOf[type] :
        \E body \in [1 .. n -> Stream!Bytes] : \E used \in [0 .. n -> Nat] :
          Opens(bytes, o, type, body, n, used) /\ len = 2 + used[n]
  BY <1>1
<1>3. PICK body \in [1 .. n -> Stream!Bytes] : \E used \in [0 .. n -> Nat] :
          Opens(bytes, o, type, body, n, used) /\ len = 2 + used[n]
  BY <1>2
<1>4. PICK used \in [0 .. n -> Nat] :
          Opens(bytes, o, type, body, n, used) /\ len = 2 + used[n]
  BY <1>3
<1>5. n \in Nat /\ n \in 0 .. n
  BY DEF Stream!BeastAssumption, Stream!Types
<1>6. used[n] \in Nat
  BY <1>5
<1>7. QED
  BY <1>4, <1>6 DEF Opens

LEMMA FromIs ==
  ASSUME NEW bytes \in Seq(Stream!Bytes), NEW n \in Nat, n <= Len(bytes)
  PROVE  /\ Stream!From(bytes, n) \in Seq(Stream!Bytes) /\ Len(Stream!From(bytes, n)) = Len(bytes) - n
         /\ \A p \in 1 .. Len(bytes) - n : Stream!From(bytes, n)[p] = bytes[n + p]
<1>1. Len(bytes) \in Nat /\ n + 1 \in 1 .. Len(bytes) + 1 /\ Len(bytes) \in n .. Len(bytes)
  OBVIOUS
<1>2. QED
  BY <1>1, SubSeqProperties DEF Stream!From

(* What is left after the frames before it is the next one, or nothing. *)
LEMMA LeftParsed ==
  ASSUME Stream!BeastAssumption, NEW bytes, NEW rest, NEW s, NEW k, Stands(bytes, rest, s, k),
         NEW j \in k .. Len(s) + 1, NEW r, r = Start(s, j) - Start(s, k), r <= Len(bytes)
  PROVE  /\ r \in Nat /\ Stream!From(bytes, r) \in Seq(Stream!Bytes)
         /\ Len(Stream!From(bytes, r)) = Len(bytes) - r
         /\ j = Len(s) + 1 => Stream!From(bytes, r) = <<>>
         /\ j # Len(s) + 1 =>
              Parsed(Stream!From(bytes, r), s[j].end - Start(s, j), s[j].frame, Stream!Parse(Stream!From(bytes, r)))
<1>1. /\ Len(s) \in Nat
      /\ \A i \in 1 .. Len(s) + 1 : Start(s, i) \in Nat
      /\ \A i \in 1 .. Len(s) : s[i].end \in Nat /\ Start(s, i + 1) = s[i].end
      /\ \A m \in 1 .. Len(s) + 1 : \A i \in 1 .. m : i < m => Start(s, i) + 2 <= Start(s, m)
  BY StartsGrow DEF Stands
<1>2. /\ k \in 1 .. Len(s) + 1 /\ rest \in Seq(Stream!Bytes) /\ bytes \in Seq(Stream!Bytes)
      /\ Start(s, Len(s) + 1) = Start(s, k) + Len(rest) /\ Len(bytes) <= Len(rest)
      /\ \A p \in 1 .. Len(bytes) : bytes[p] = rest[p]
  BY DEF Stands
<1>3. Len(rest) \in Nat /\ Len(bytes) \in Nat /\ k \in Nat /\ j \in 1 .. Len(s) + 1 /\ k \in 1 .. j
  BY <1>1, <1>2
<1>4. Start(s, j) \in Nat /\ Start(s, k) \in Nat /\ Start(s, k) <= Start(s, j)
  <2>1. Start(s, j) \in Nat /\ Start(s, k) \in Nat
    BY <1>1, <1>2, <1>3
  <2>2. k < j => Start(s, k) + 2 <= Start(s, j)
    BY <1>1, <1>3
  <2>3. k < j \/ k = j
    BY <1>3
  <2>4. QED
    BY <2>1, <2>2, <2>3
<1>5. r \in Nat
  BY <1>4
<1> DEFINE left == Stream!From(bytes, r)
<1>6. /\ left \in Seq(Stream!Bytes) /\ Len(left) = Len(bytes) - r
      /\ \A p \in 1 .. Len(bytes) - r : left[p] = bytes[r + p]
  BY <1>2, <1>5, FromIs
<1> HIDE DEF left
<1>7. \A p \in 1 .. Len(left) : r + p <= Len(rest) /\ left[p] = rest[r + p]
  <2> SUFFICES ASSUME NEW p \in 1 .. Len(left)
               PROVE  r + p <= Len(rest) /\ left[p] = rest[r + p]
    OBVIOUS
  <2>1. p \in 1 .. Len(bytes) - r /\ r + p \in 1 .. Len(bytes) /\ r + p <= Len(rest)
    BY <1>2, <1>3, <1>5, <1>6
  <2>2. QED
    BY <1>2, <1>6, <2>1
<1>8. CASE j = Len(s) + 1
  <2>1. Len(left) = 0
    BY <1>2, <1>3, <1>4, <1>6, <1>8
  <2>2. QED
    BY <1>5, <1>6, <1>8, <2>1, EmptySeq DEF left
<1>9. CASE j # Len(s) + 1
  <2> DEFINE len == s[j].end - Start(s, j)
  <2>1. j \in 1 .. Len(s) /\ j \in k .. Len(s)
    BY <1>1, <1>2, <1>3, <1>9
  <2>2. Item(rest, r, len, s[j].frame)
    BY <2>1 DEF Stands, Laid
  <2>3. len \in Nat /\ s[j].end \in Nat /\ Start(s, j + 1) = s[j].end
    BY <1>1, <2>1, <2>2, ItemHead
  <2>4. s[j].end = Start(s, j) + len
    BY <1>4, <2>3, SMTT(60)
  <2> HIDE DEF len
  <2>5. Item(left, 0, len, s[j].frame)
    <3>1. \A q \in 1 .. len : 0 + q <= Len(left) =>
            r + q <= Len(rest) /\ left[0 + q] = rest[r + q]
      <4> SUFFICES ASSUME NEW q \in 1 .. len, 0 + q <= Len(left)
                   PROVE  r + q <= Len(rest) /\ left[0 + q] = rest[r + q]
        OBVIOUS
      <4>1. q \in 1 .. Len(left) /\ 0 + q = q
        BY <1>3, <1>5, <1>6
      <4>2. QED
        BY <1>7, <4>1
    <3>2. Len(left) \in Nat
      BY <1>6
    <3>3. QED
      BY <1>3, <1>5, <2>2, <2>3, <3>1, <3>2, ItemMoves
  <2>6. Follows(left, len)
    <3>1. CASE Len(left) <= len
      <4>1. ~(len + 1 <= Len(left)) /\ ~(len + 2 <= Len(left))
        BY <1>6, <2>3, <3>1
      <4>2. QED
        BY <4>1 DEF Follows
    <3>2. CASE ~(Len(left) <= len)
      <4>1. len + 1 \in 1 .. Len(left)
        BY <1>6, <2>3, <3>2
      <4>2. r + (len + 1) <= Len(rest)
        BY <1>7, <4>1
      <4>3. j + 1 # Len(s) + 1
        <5> SUFFICES ASSUME j + 1 = Len(s) + 1 PROVE FALSE
          OBVIOUS
        <5>1. Start(s, k) + Len(rest) = Start(s, j) + len
          BY <1>2, <2>3, <2>4
        <5>2. QED
          BY <1>3, <1>4, <2>3, <4>2, <5>1
      <4>4. j + 1 \in k .. Len(s) /\ j + 1 \in 1 .. Len(s) + 1
        BY <1>1, <1>2, <2>1, <4>3
      <4>5. Start(s, j + 1) - Start(s, k) = r + len
        BY <1>4, <2>3, <2>4
      <4>6. Item(rest, r + len, s[j + 1].end - Start(s, j + 1), s[j + 1].frame)
        BY <4>4, <4>5 DEF Stands, Laid
      <4>7. /\ (r + len) + 1 <= Len(rest) => rest[(r + len) + 1] = ESCAPE
            /\ (r + len) + 2 <= Len(rest) => rest[(r + len) + 2] \in Stream!Types
        BY <4>6, ItemHead
      <4>8. left[len + 1] = ESCAPE
        <5>1. (r + len) + 1 = r + (len + 1)
          BY <1>5, <2>3
        <5>2. QED
          BY <1>7, <4>1, <4>2, <4>7, <5>1
      <4>9. len + 2 <= Len(left) => left[len + 2] \in Stream!Types
        <5> SUFFICES ASSUME len + 2 <= Len(left) PROVE left[len + 2] \in Stream!Types
          OBVIOUS
        <5>1. (r + len) + 2 = r + (len + 2) /\ len + 2 \in 1 .. Len(left)
          BY <1>5, <1>6, <2>3
        <5>2. QED
          BY <1>7, <4>7, <5>1
      <4>10. QED
        BY <4>8, <4>9 DEF Follows
    <3>3. QED
      BY <3>1, <3>2
  <2>7. Parsed(left, len, s[j].frame, Stream!Parse(left))
    BY <1>6, <2>5, <2>6, ItemParsed
  <2>8. QED
    BY <1>5, <1>6, <1>9, <2>7 DEF left, len
<1>10. QED
  BY <1>8, <1>9

(* How far the bytes are read after i frames at least: up to one of those  *)
(* sent, with all before it returned, as long as there is more to read.    *)
ReadTo(bytes, s, k, i, was) ==
  /\ was \in [frames : Seq({s[x].frame : x \in 1 .. Len(s)}), read : Nat, more : BOOLEAN]
  /\ \E j \in k .. Len(s) + 1 :
       /\ was.read = Start(s, j) - Start(s, k) /\ was.read <= Len(bytes)
       /\ Stream!Whole(s, Start(s, j)) = Stream!Whole(s, Start(s, k)) \o was.frames
  /\ was.more => was.read >= i
  /\ ~was.more => Stream!Parse(Stream!From(bytes, was.read)).kind = "Incomplete"

LEMMA ReadOneGoes ==
  ASSUME Stream!BeastAssumption, NEW bytes, NEW rest, NEW s, NEW k, Stands(bytes, rest, s, k),
         NEW i \in Nat, NEW was, ReadTo(bytes, s, k, i, was)
  PROVE  ReadTo(bytes, s, k, i + 1, Stream!ReadOne(bytes, was))
<1> DEFINE F == {s[x].frame : x \in 1 .. Len(s)}
           parsed == Stream!Parse(Stream!From(bytes, was.read))
<1>1. was \in [frames : Seq(F), read : Nat, more : BOOLEAN]
  BY DEF ReadTo
<1>2. PICK j \in k .. Len(s) + 1 :
        /\ was.read = Start(s, j) - Start(s, k) /\ was.read <= Len(bytes)
        /\ Stream!Whole(s, Start(s, j)) = Stream!Whole(s, Start(s, k)) \o was.frames
  BY DEF ReadTo
<1>3. /\ was.more => was.read >= i
      /\ ~was.more => parsed.kind = "Incomplete"
  BY DEF ReadTo
<1>4. CASE ~was.more \/ parsed.kind = "Incomplete"
  <2> DEFINE next == Stream!ReadOne(bytes, was)
  <2>1. next = [was EXCEPT !.more = FALSE]
    BY <1>4 DEF Stream!ReadOne
  <2>2. parsed.kind = "Incomplete"
    BY <1>3, <1>4
  <2>3. /\ next \in [frames : Seq(F), read : Nat, more : BOOLEAN]
        /\ next.frames = was.frames /\ next.read = was.read /\ next.more = FALSE
    <3> HIDE DEF F, parsed
    <3>1. QED
      BY <1>1, <2>1
  <2>4. Stream!Parse(Stream!From(bytes, next.read)).kind = "Incomplete"
    BY <2>2, <2>3
  <2> HIDE DEF next
  <2>5. ReadTo(bytes, s, k, i + 1, next)
    BY <1>2, <2>3, <2>4 DEF ReadTo
  <2>6. QED
    BY <2>5 DEF next
<1>5. CASE was.more /\ parsed.kind # "Incomplete"
  <2> DEFINE r == was.read
             left == Stream!From(bytes, r)
             len == s[j].end - Start(s, j)
             frame == s[j].frame
  <2>1. /\ r \in Nat /\ Len(left) = Len(bytes) - r
        /\ j = Len(s) + 1 => left = <<>>
        /\ j # Len(s) + 1 => Parsed(left, len, frame, parsed)
    <3> HIDE DEF len, frame
    <3>1. QED
      BY <1>2, LeftParsed DEF len, frame
  <2>2. j # Len(s) + 1
    <3> SUFFICES ASSUME left = <<>> PROVE parsed.kind = "Incomplete"
      BY <1>5, <2>1
    <3>1. QED
      BY DEF Stream!Parse, Stream!Incomplete
  <2>3. /\ Rows(s) /\ k \in 1 .. Len(s) + 1 /\ bytes \in Seq(Stream!Bytes) /\ rest \in Seq(Stream!Bytes)
    BY DEF Stands
  <2>4. /\ Len(s) \in Nat
        /\ \A x \in 1 .. Len(s) + 1 : Start(s, x) \in Nat
        /\ \A x \in 1 .. Len(s) : s[x].end \in Nat /\ Start(s, x + 1) = s[x].end
    BY <2>3, StartsGrow
  <2>5. j \in k .. Len(s) /\ j \in 1 .. Len(s) /\ j \in 1 .. Len(s) + 1 /\ j + 1 \in k .. Len(s) + 1
    BY <2>2, <2>3, <2>4
  <2>6. /\ Start(s, j) \in Nat /\ Start(s, k) \in Nat /\ s[j].end \in Nat
        /\ Start(s, j + 1) = s[j].end
    BY <2>3, <2>4, <2>5
  <2>7. Item(rest, Start(s, j) - Start(s, k), len, frame)
    BY <2>5 DEF Stands, Laid
  <2>8. len \in Nat /\ len >= 2
    BY <2>7, ItemHead
  <2>9. Stream!Whole(s, Start(s, j + 1)) =
          IF frame.type \in ModeS THEN Append(Stream!Whole(s, Start(s, j)), frame)
                                  ELSE Stream!Whole(s, Start(s, j))
    BY <2>3, <2>5, WholePast
  <2>10. \/ /\ parsed.kind = "Frame" /\ parsed.len = len /\ len <= Len(left)
            /\ frame = [type |-> parsed.type, body |-> parsed.body]
         \/ /\ parsed.kind = "Skip" /\ parsed.len = len /\ len <= Len(left)
            /\ frame.type \notin ModeS
    BY <1>5, <2>1, <2>2 DEF Parsed
  <2>11. frame \in F
    BY <2>5
  <2>12. Stream!Whole(s, Start(s, k)) \in Seq(F)
    BY <2>4, WholeSent
  <2> DEFINE next == Stream!ReadOne(bytes, was)
             frames1 == IF frame.type \in ModeS THEN Append(was.frames, frame) ELSE was.frames
  <2>13. next = [was EXCEPT !.read = r + len, !.frames = frames1]
    <3>1. next = [was EXCEPT !.read = r + parsed.len,
                             !.frames = IF parsed.kind = "Frame" /\ parsed.type \in ModeS
                                        THEN Append(was.frames, [type |-> parsed.type,
                                                                 body |-> parsed.body])
                                        ELSE was.frames]
      BY <1>5 DEF Stream!ReadOne
    <3> HIDE DEF parsed, frame, len, next, left, r
    <3>2. (IF parsed.kind = "Frame" /\ parsed.type \in ModeS
           THEN Append(was.frames, [type |-> parsed.type, body |-> parsed.body])
           ELSE was.frames) = frames1
      <4>1. CASE parsed.kind = "Frame" /\ frame = [type |-> parsed.type, body |-> parsed.body]
        <5>1. frame.type = parsed.type
          BY <4>1
        <5>2. QED
          BY <4>1, <5>1
      <4>2. CASE parsed.kind = "Skip" /\ frame.type \notin ModeS
        BY <4>2
      <4>3. QED
        BY <2>10, <4>1, <4>2
    <3>3. parsed.len = len
      BY <2>10
    <3> HIDE DEF frames1
    <3>4. QED
      BY <3>1, <3>2, <3>3
  <2> HIDE DEF parsed, frame, len, left, F
  <2>14. frames1 \in Seq(F)
    BY <1>1, <2>11
  <2>15. Stream!Whole(s, Start(s, j + 1)) = Stream!Whole(s, Start(s, k)) \o frames1
    <3> DEFINE W == Stream!Whole(s, Start(s, k))
               L == was.frames
    <3>1. W \in Seq(F) /\ L \in Seq(F) /\ Stream!Whole(s, Start(s, j)) = W \o L
      BY <1>1, <1>2, <2>12
    <3> HIDE DEF W, L
    <3>2. Append(W \o L, frame) = W \o Append(L, frame)
      <4>1. /\ Append(W \o L, frame) = (W \o L) \o <<frame>>
            /\ Append(L, frame) = L \o <<frame>>
        BY <2>11, <3>1, AppendIsConcat, ConcatProperties
      <4>2. <<frame>> \in Seq(F)
        BY <2>11
      <4>3. QED
        BY <3>1, <4>1, <4>2, ConcatAssociative, SMTT(60)
    <3>3. QED
      BY <2>9, <3>1, <3>2 DEF W, L
  <2>16. /\ next \in [frames : Seq(F), read : Nat, more : BOOLEAN]
         /\ next.frames = frames1 /\ next.read = r + len /\ next.more = was.more
    <3> DEFINE S == Seq(F)
               n == r + len
    <3>1. was \in [frames : S, read : Nat, more : BOOLEAN] /\ frames1 \in S
      BY <1>1, <2>14
    <3>2. n \in Nat
      BY <2>1, <2>8
    <3>3. next = [was EXCEPT !.read = n, !.frames = frames1]
      BY <2>13
    <3> HIDE DEF S, n, next, frames1
    <3>4. /\ next \in [frames : S, read : Nat, more : BOOLEAN]
          /\ next.frames = frames1 /\ next.read = n /\ next.more = was.more
      BY <3>1, <3>2, <3>3
    <3>5. QED
      BY <3>4 DEF S, n
  <2>17. r + len = Start(s, j + 1) - Start(s, k)
    BY <1>2, <2>6 DEF len
  <2>18. r + len <= Len(bytes) /\ r + len >= i + 1
    <3>1. r >= i
      BY <1>3, <1>5
    <3>2. len <= Len(left) /\ Len(bytes) \in Nat
      BY <2>3, <2>10
    <3>3. QED
      BY <2>1, <2>8, <3>1, <3>2
  <2> HIDE DEF next, frames1, r
  <2>19. ReadTo(bytes, s, k, i + 1, next)
    <3>1. next.more = TRUE
      BY <1>1, <1>5, <2>16
    <3>2. \E x \in k .. Len(s) + 1 :
            /\ next.read = Start(s, x) - Start(s, k) /\ next.read <= Len(bytes)
            /\ Stream!Whole(s, Start(s, x)) = Stream!Whole(s, Start(s, k)) \o next.frames
      BY <2>5, <2>15, <2>16, <2>17, <2>18
    <3>3. QED
      BY <2>16, <2>18, <3>1, <3>2 DEF ReadTo, F
  <2>20. QED
    BY <2>19 DEF next
<1>6. QED
  BY <1>4, <1>5

(* ReadAll is the last of as many steps of ReadOne as there are bytes, and one. *)
LEMMA AllSteps ==
  ASSUME NEW bytes, NEW last \in Nat, last = Len(bytes) + 1,
         NEW start, start = [frames |-> <<>>, read |-> 0, more |-> TRUE]
  PROVE  \E step :
           /\ step[0] = start
           /\ \A i \in 1 .. last : step[i] = Stream!ReadOne(bytes, step[i - 1])
           /\ Stream!ReadAll(bytes) = step[last]
<1> DEFINE Is(step, l) ==
             step = [i \in 0 .. l |-> IF i = 0 THEN start ELSE Stream!ReadOne(bytes, step[i - 1])]
           Defined == {l \in Nat : \E step : Is(step, l)}
<1>1. 0 \in Defined
  <2>1. Is([i \in 0 .. 0 |-> start], 0)
    OBVIOUS
  <2>2. QED
    BY <2>1
<1>2. ASSUME NEW l \in Nat, l \in Defined PROVE l + 1 \in Defined
  <2>1. PICK step : Is(step, l)
    BY <1>2
  <2> DEFINE more == [i \in 0 .. l + 1 |->
                        IF i = l + 1 THEN Stream!ReadOne(bytes, step[l]) ELSE step[i]]
  <2>2. \A i \in 0 .. l : more[i] = step[i]
    OBVIOUS
  <2>3. \A i \in 0 .. l + 1 :
          more[i] = IF i = 0 THEN start ELSE Stream!ReadOne(bytes, more[i - 1])
    <3> SUFFICES ASSUME NEW i \in 0 .. l + 1
                 PROVE  more[i] = IF i = 0 THEN start ELSE Stream!ReadOne(bytes, more[i - 1])
      OBVIOUS
    <3>1. CASE i = l + 1
      <4>1. i \in 0 .. l + 1 /\ i - 1 = l /\ i # 0
        BY <3>1
      <4>3. more[i] = Stream!ReadOne(bytes, step[l])
        BY <3>1, <4>1
      <4>2. more[l] = step[l] /\ i = l + 1
        BY <2>2, <3>1
      <4> HIDE DEF more, Is
      <4>4. QED
        BY <4>1, <4>2, <4>3
    <3>2. CASE i # l + 1
      <4>1. i \in 0 .. l
        BY <3>2
      <4>2. step[i] = IF i = 0 THEN start ELSE Stream!ReadOne(bytes, step[i - 1])
        BY <2>1, <4>1
      <4>3. i # 0 => more[i - 1] = step[i - 1]
        BY <2>2, <4>1
      <4>4. more[i] = step[i]
        BY <2>2, <4>1
      <4> HIDE DEF more, Is
      <4>5. QED
        BY <4>2, <4>3, <4>4
    <3>3. QED
      BY <3>1, <3>2
  <2>4. Is(more, l + 1)
    <3>1. more = [i \in 0 .. l + 1 |-> more[i]]
      OBVIOUS
    <3> HIDE DEF more
    <3>2. [i \in 0 .. l + 1 |-> more[i]]
          = [i \in 0 .. l + 1 |-> IF i = 0 THEN start ELSE Stream!ReadOne(bytes, more[i - 1])]
      BY <2>3
    <3>3. QED
      BY <3>1, <3>2
  <2>5. QED
    <3> HIDE DEF more, Is
    <3>1. QED
      BY <2>4
<1>3. Nat \subseteq Defined
  <2> HIDE DEF Defined
  <2>1. QED
    BY <1>1, <1>2, AllNaturals
<1>4. \E t : Is(t, last)
  BY <1>3
<1> HIDE DEF Defined
<1> DEFINE sofar == CHOOSE t : Is(t, last)
<1>5. Is(sofar, last)
  BY <1>4
<1>6. Stream!ReadAll(bytes) = sofar[last]
  BY DEF Stream!ReadAll
<1> HIDE DEF sofar
<1>7. sofar[0] = start /\ \A i \in 1 .. last : sofar[i] = Stream!ReadOne(bytes, sofar[i - 1])
  <2>1. 0 \in 0 .. last /\ \A i \in 1 .. last : i \in 0 .. last /\ i # 0
    OBVIOUS
  <2>2. QED
    BY <1>5, <2>1
<1> HIDE DEF Is
<1>8. QED
  BY <1>6, <1>7

(* All the bytes are read but for what is left of the last. *)
LEMMA AllRead ==
  ASSUME Stream!BeastAssumption, NEW bytes, NEW rest, NEW s, NEW k, Stands(bytes, rest, s, k)
  PROVE  /\ Stream!ReadAll(bytes).read \in Nat /\ Stream!ReadAll(bytes).read <= Len(bytes)
         /\ Stream!Parse(Stream!From(bytes, Stream!ReadAll(bytes).read)).kind = "Incomplete"
         /\ \E j \in k .. Len(s) + 1 :
              /\ Stream!ReadAll(bytes).read = Start(s, j) - Start(s, k)
              /\ Stream!Whole(s, Start(s, j)) = Stream!Whole(s, Start(s, k)) \o Stream!ReadAll(bytes).frames
<1> DEFINE start == [frames |-> <<>>, read |-> 0, more |-> TRUE]
           last == Len(bytes) + 1
<1>1. /\ bytes \in Seq(Stream!Bytes) /\ last \in Nat /\ Len(bytes) \in Nat
      /\ Rows(s) /\ k \in 1 .. Len(s) + 1
  BY DEF Stands
<1>2. \E step : /\ step[0] = start
                /\ \A i \in 1 .. last : step[i] = Stream!ReadOne(bytes, step[i - 1])
                /\ Stream!ReadAll(bytes) = step[last]
  <2>1. last \in Nat /\ last = Len(bytes) + 1
        /\ start = [frames |-> <<>>, read |-> 0, more |-> TRUE]
    BY <1>1
  <2> HIDE DEF start, last
  <2>2. QED
    BY <2>1, AllSteps
<1>3. PICK step : /\ step[0] = start
                  /\ \A i \in 1 .. last : step[i] = Stream!ReadOne(bytes, step[i - 1])
                  /\ Stream!ReadAll(bytes) = step[last]
  BY <1>2
<1>4. Stream!ReadAll(bytes) = step[last]
  BY <1>3
<1>5. step[0] = start /\ \A i \in 1 .. last : step[i] = Stream!ReadOne(bytes, step[i - 1])
  BY <1>3
<1> DEFINE Gone == {i \in Nat : i <= last => ReadTo(bytes, s, k, i, step[i])}
<1>6. 0 \in Gone
  <2>1. /\ Len(s) \in Nat /\ Start(s, k) \in Nat
    BY <1>1, StartsGrow
  <2>2. k \in k .. Len(s) + 1 /\ Start(s, k) - Start(s, k) = 0
    BY <1>1, <2>1
  <2> DEFINE F == {s[x].frame : x \in 1 .. Len(s)}
             W == Stream!Whole(s, Start(s, k))
  <2>3. W \in Seq(F)
    BY <2>1, WholeSent
  <2>4. W = W \o <<>>
    <3> HIDE DEF W, F
    <3>1. QED
      BY <2>3, ConcatEmptySeq
  <2>5. /\ start.frames = <<>> /\ start.read = 0 /\ start.more = TRUE
        /\ start \in [frames : Seq(F), read : Nat, more : BOOLEAN]
    <3> HIDE DEF F
    <3>1. QED
      OBVIOUS
  <2> HIDE DEF start
  <2>6. \E j \in k .. Len(s) + 1 :
          /\ start.read = Start(s, j) - Start(s, k) /\ start.read <= Len(bytes)
          /\ Stream!Whole(s, Start(s, j)) = Stream!Whole(s, Start(s, k)) \o start.frames
    BY <1>1, <2>2, <2>4, <2>5
  <2>7. ReadTo(bytes, s, k, 0, start)
    BY <2>5, <2>6 DEF ReadTo
  <2>8. QED
    BY <1>5, <2>7
<1>7. ASSUME NEW i \in Nat, i \in Gone PROVE i + 1 \in Gone
  <2> SUFFICES ASSUME i + 1 <= last PROVE ReadTo(bytes, s, k, i + 1, step[i + 1])
    OBVIOUS
  <2>1. i + 1 \in 1 .. last /\ (i + 1) - 1 = i /\ i <= last
    BY <1>1
  <2>2. step[i + 1] = Stream!ReadOne(bytes, step[i])
    BY <1>5, <2>1
  <2>3. ReadTo(bytes, s, k, i, step[i])
    BY <1>7, <2>1
  <2>4. QED
    BY <2>2, <2>3, ReadOneGoes
<1>8. Nat \subseteq Gone
  <2> HIDE DEF Gone
  <2>1. QED
    BY <1>6, <1>7, AllNaturals
<1> DEFINE was == Stream!ReadAll(bytes)
<1>9. ReadTo(bytes, s, k, last, was)
  BY <1>1, <1>4, <1>8
<1>10. last > Len(bytes)
  BY <1>1
<1> HIDE DEF was, last
<1>11. was.read \in Nat /\ was.more \in BOOLEAN
  BY <1>9 DEF ReadTo
<1>12. PICK j \in k .. Len(s) + 1 :
         /\ was.read = Start(s, j) - Start(s, k) /\ was.read <= Len(bytes)
         /\ Stream!Whole(s, Start(s, j)) = Stream!Whole(s, Start(s, k)) \o was.frames
  BY <1>9 DEF ReadTo
<1>13. ~was.more
  <2> SUFFICES ASSUME was.more PROVE FALSE
    OBVIOUS
  <2>1. was.read >= last
    BY <1>9 DEF ReadTo
  <2>2. QED
    BY <1>1, <1>10, <1>11, <1>12, <2>1
<1>14. Stream!Parse(Stream!From(bytes, was.read)).kind = "Incomplete"
  BY <1>9, <1>13 DEF ReadTo
<1>15. QED
  BY <1>11, <1>12, <1>14 DEF was

(* The bytes read with those left before, and what is left of both. *)
LEMMA CutUp ==
  ASSUME NEW a \in Seq(Stream!Bytes), NEW b \in Seq(Stream!Bytes), NEW n \in 1 .. Len(b)
  PROVE  /\ a \o SubSeq(b, 1, n) \in Seq(Stream!Bytes) /\ a \o b \in Seq(Stream!Bytes)
         /\ Len(a \o SubSeq(b, 1, n)) = Len(a) + n /\ Len(a \o b) = Len(a) + Len(b)
         /\ \A p \in 1 .. Len(a) + n : (a \o SubSeq(b, 1, n))[p] = (a \o b)[p]
<1> DEFINE c == SubSeq(b, 1, n)
<1>1. Len(a) \in Nat /\ Len(b) \in Nat /\ n \in Nat /\ n <= Len(b)
  OBVIOUS
<1>2. c \in Seq(Stream!Bytes) /\ Len(c) = n /\ \A p \in 1 .. n : c[p] = b[p]
  <2>1. \A p \in 1 .. n : b[p] \in Stream!Bytes
    OBVIOUS
  <2>2. QED
    BY <2>1, SubSeqProperties
<1> HIDE DEF c
<1>3. /\ a \o c \in Seq(Stream!Bytes) /\ Len(a \o c) = Len(a) + n
      /\ \A p \in 1 .. Len(a) + n : (a \o c)[p] = IF p <= Len(a) THEN a[p] ELSE c[p - Len(a)]
  BY <1>1, <1>2, SMTT(60)
<1>4. /\ a \o b \in Seq(Stream!Bytes) /\ Len(a \o b) = Len(a) + Len(b)
      /\ \A p \in 1 .. Len(a) + Len(b) :
           (a \o b)[p] = IF p <= Len(a) THEN a[p] ELSE b[p - Len(a)]
  OBVIOUS
<1>5. \A p \in 1 .. Len(a) + n : (a \o c)[p] = (a \o b)[p]
  <2> SUFFICES ASSUME NEW p \in 1 .. Len(a) + n PROVE (a \o c)[p] = (a \o b)[p]
    OBVIOUS
  <2>1. p \in 1 .. Len(a) + Len(b)
    BY <1>1
  <2>2. CASE p <= Len(a)
    BY <1>3, <1>4, <2>1, <2>2
  <2>3. CASE ~(p <= Len(a))
    <3>1. p - Len(a) \in 1 .. n
      BY <1>1, <2>3
    <3>2. (a \o c)[p] = c[p - Len(a)] /\ (a \o b)[p] = b[p - Len(a)]
      BY <1>3, <1>4, <2>1, <2>3
    <3>3. QED
      BY <1>2, <3>1, <3>2
  <2>4. QED
    BY <2>2, <2>3
<1>6. QED
  BY <1>3, <1>4, <1>5 DEF c

LEMMA LeftOn ==
  ASSUME NEW a \in Seq(Stream!Bytes), NEW b \in Seq(Stream!Bytes), NEW n \in 1 .. Len(b),
         NEW r \in Nat, r <= Len(a) + n
  PROVE  LET left == Stream!From(a \o SubSeq(b, 1, n), r) rest == left \o Stream!From(b, n) IN
         /\ left \in Seq(Stream!Bytes) /\ Len(left) = Len(a) + n - r
         /\ Stream!From(b, n) \in Seq(Stream!Bytes) /\ Len(Stream!From(b, n)) = Len(b) - n
         /\ rest \in Seq(Stream!Bytes) /\ Len(rest) = Len(a) + Len(b) - r
         /\ \A p \in 1 .. Len(a) + Len(b) - r : rest[p] = (a \o b)[r + p]
<1> DEFINE c == a \o SubSeq(b, 1, n)
           all == a \o b
           left == Stream!From(c, r)
           later == Stream!From(b, n)
<1>1. /\ c \in Seq(Stream!Bytes) /\ all \in Seq(Stream!Bytes) /\ Len(c) = Len(a) + n
      /\ Len(all) = Len(a) + Len(b) /\ \A p \in 1 .. Len(a) + n : c[p] = all[p]
  BY CutUp
<1>2. \A p \in 1 .. Len(b) : all[Len(a) + p] = b[p]
  OBVIOUS
<1>3. Len(a) \in Nat /\ Len(b) \in Nat /\ n \in Nat /\ n <= Len(b)
  OBVIOUS
<1> HIDE DEF c, all
<1>4. /\ left \in Seq(Stream!Bytes) /\ Len(left) = Len(a) + n - r
      /\ \A p \in 1 .. Len(a) + n - r : left[p] = c[r + p]
  <2>1. r <= Len(c)
    BY <1>1
  <2>2. /\ left \in Seq(Stream!Bytes) /\ Len(left) = Len(c) - r
        /\ \A p \in 1 .. Len(c) - r : left[p] = c[r + p]
    BY <1>1, <2>1, FromIs
  <2>3. QED
    BY <1>1, <2>2, SMTT(60)
<1>5. /\ later \in Seq(Stream!Bytes) /\ Len(later) = Len(b) - n
      /\ \A p \in 1 .. Len(b) - n : later[p] = b[n + p]
  BY <1>3, FromIs
<1> HIDE DEF left, later
<1>6. /\ left \o later \in Seq(Stream!Bytes) /\ Len(left \o later) = Len(left) + Len(later)
      /\ \A p \in 1 .. Len(left) + Len(later) :
           (left \o later)[p] = IF p <= Len(left) THEN left[p] ELSE later[p - Len(left)]
  <2> DEFINE S == Stream!Bytes
  <2>1. left \in Seq(S) /\ later \in Seq(S)
    BY <1>4, <1>5
  <2> HIDE DEF S
  <2>2. /\ left \o later \in Seq(S) /\ Len(left \o later) = Len(left) + Len(later)
        /\ \A p \in 1 .. Len(left) + Len(later) :
             (left \o later)[p] = IF p <= Len(left) THEN left[p] ELSE later[p - Len(left)]
    BY <2>1, ConcatProperties
  <2>3. QED
    BY <2>2 DEF S
<1>7. Len(left) + Len(later) = Len(a) + Len(b) - r
  BY <1>3, <1>4, <1>5
<1>8. ASSUME NEW p \in 1 .. Len(a) + Len(b) - r PROVE (left \o later)[p] = all[r + p]
  <2>1. p \in 1 .. Len(left) + Len(later)
    BY <1>7
  <2>2. CASE p <= Len(left)
    <3>1. p \in 1 .. Len(a) + n - r /\ r + p \in 1 .. Len(a) + n
      BY <1>3, <1>4, <2>2
    <3>2. QED
      BY <1>1, <1>4, <1>6, <2>1, <2>2, <3>1
  <2>3. CASE ~(p <= Len(left))
    <3> DEFINE q == p - Len(left)
    <3>1. q \in 1 .. Len(b) - n /\ n + q \in 1 .. Len(b) /\ Len(a) + (n + q) = r + p
      BY <1>3, <1>4, <2>3
    <3>2. (left \o later)[p] = later[q]
      BY <1>6, <2>1, <2>3
    <3>3. later[q] = b[n + q]
      BY <1>5, <3>1
    <3>4. b[n + q] = all[Len(a) + (n + q)]
      BY <1>2, <3>1
    <3> HIDE DEF q
    <3>5. QED
      BY <3>1, <3>2, <3>3, <3>4
  <2>4. QED
    BY <2>2, <2>3
<1>9. QED
  BY <1>4, <1>5, <1>6, <1>7, <1>8 DEF left, later, c, all

-----------------------------------------------------------------------------
(* What holds of the reader at every step: what it has not returned is the *)
(* stream from the start of one frame sent on, the k-th, and of that one   *)
(* it has not all the bytes, nor those that tell that it broke off.        *)
Reads(rest, s, k, sofar, returned) ==
  /\ Laid(rest, s, k)
  /\ returned = Stream!Whole(s, Start(s, k))
  /\ k # Len(s) + 1 => /\ sofar < s[k].end + 2
                       /\ s[k].frame.type \in ModeS => sofar < s[k].end

Received ==
  /\ wire \in Seq(Stream!Bytes) /\ pending \in Seq(Stream!Bytes) /\ taken \in Nat
  /\ written = taken + Len(wire)
  /\ Rows(sent) /\ Start(sent, Len(sent) + 1) = written
  /\ Short(pending)
  /\ \E k \in 1 .. Len(sent) + 1 :
       Start(sent, k) = taken - Len(pending) /\ Reads(pending \o wire, sent, k, taken, frames)

(* Nothing sent, and nothing read. *)
LEMMA Afresh ==
  ASSUME wire = <<>>, pending = <<>>, frames = <<>>, sent = <<>>, written = 0, taken = 0
  PROVE  Received
<1>1. Len(sent) = 0 /\ Len(wire) = 0 /\ Len(pending) = 0
  OBVIOUS
<1>2. Rows(sent) /\ Start(sent, 1) = 0
  BY <1>1 DEF Rows, Start
<1>3. Stream!Whole(sent, 0) = <<>>
  BY <1>1, WholeSteps
<1>4. Reads(pending \o wire, sent, 1, taken, frames)
  BY <1>1, <1>2, <1>3 DEF Reads, Laid
<1>5. QED
  BY <1>1, <1>2, <1>4 DEF Received, Short

LEMMA AfreshNext ==
  ASSUME wire' = <<>>, pending' = <<>>, frames' = <<>>, sent' = <<>>, written' = 0, taken' = 0
  PROVE  Received'
<1>1. Len(sent') = 0 /\ Len(wire') = 0 /\ Len(pending') = 0
  OBVIOUS
<1>2. Rows(sent') /\ Start(sent', 1) = 0
  BY <1>1 DEF Rows, Start
<1>3. Stream!Whole(sent', 0) = <<>>
  BY <1>1, WholeSteps
<1>4. Reads(pending' \o wire', sent', 1, taken', frames')
  BY <1>1, <1>2, <1>3 DEF Reads, Laid
<1>5. QED
  BY <1>1, <1>2, <1>4 DEF Received, Short

LEMMA SendKeeps ==
  ASSUME Stream!BeastAssumption, Received, NEW more \in Seq(Stream!Bytes),
         NEW frame \in Stream!Frames \cup {[type |-> "none"]}, Item(more, 0, Len(more), frame),
         wire' = wire \o more, written' = written + Len(more),
         sent' = Append(sent, [frame |-> frame, end |-> written + Len(more)]),
         UNCHANGED <<pending, frames, taken>>
  PROVE  Received'
<1> DEFINE item == [frame |-> frame, end |-> written + Len(more)]
           s == sent
           t == Append(sent, item)
           X == [frame : Stream!Frames \cup {[type |-> "none"]}, end : Nat]
           rest == pending \o wire
<1>1. /\ wire \in Seq(Stream!Bytes) /\ pending \in Seq(Stream!Bytes) /\ taken \in Nat
      /\ written = taken + Len(wire) /\ Rows(s) /\ Start(s, Len(s) + 1) = written
      /\ Short(pending)
  BY DEF Received
<1>2. PICK k \in 1 .. Len(s) + 1 :
        Start(s, k) = taken - Len(pending) /\ Reads(rest, s, k, taken, frames)
  BY DEF Received
<1>3. /\ Len(s) \in Nat
      /\ \A j \in 1 .. Len(s) + 1 : Start(s, j) \in Nat
      /\ \A j \in 1 .. Len(s) : s[j].end \in Nat /\ Start(s, j + 1) = s[j].end
      /\ \A j \in 1 .. Len(s) + 1 : \A i \in 1 .. j : i < j => Start(s, i) + 2 <= Start(s, j)
  BY <1>1, StartsGrow
<1>4. /\ Len(wire) \in Nat /\ Len(pending) \in Nat /\ Len(more) \in Nat /\ written \in Nat
      /\ Len(more) >= 2
  BY <1>1, ItemHead
<1>5. s \in Seq(X) /\ \A j \in 1 .. Len(s) : s[j].end >= Start(s, j) + 2
  BY <1>1 DEF Rows
<1>6. item \in X /\ item.frame = frame /\ item.end = written + Len(more) /\ item.end \in Nat
  BY <1>4
<1> HIDE DEF item, X
<1>7. /\ t \in Seq(X) /\ Len(t) = Len(s) + 1 /\ t[Len(s) + 1] = item
      /\ \A j \in 1 .. Len(s) : t[j] = s[j]
  BY <1>5, <1>6
<1> HIDE DEF t
<1>8. /\ \A j \in 1 .. Len(s) + 1 : Start(t, j) = Start(s, j)
      /\ Start(t, Len(t) + 1) = item.end
  <2>1. ASSUME NEW j \in 1 .. Len(s) + 1 PROVE Start(t, j) = Start(s, j)
    <3>1. j # 1 => j - 1 \in 1 .. Len(s)
      BY <1>3
    <3>2. QED
      BY <1>7, <3>1 DEF Start
  <2>2. Len(t) + 1 # 1 /\ (Len(t) + 1) - 1 = Len(s) + 1
    BY <1>3, <1>7
  <2>3. QED
    BY <1>7, <2>1, <2>2 DEF Start
<1>9. Rows(t)
  <2>1. ASSUME NEW j \in 1 .. Len(t) PROVE t[j].end >= Start(t, j) + 2
    <3>1. CASE j \in 1 .. Len(s)
      <4>1. j \in 1 .. Len(s) + 1
        BY <1>3, <3>1
      <4>2. QED
        BY <1>5, <1>7, <1>8, <3>1, <4>1
    <3>2. CASE j = Len(s) + 1
      <4>1. t[j].end = written + Len(more) /\ Start(t, j) = written
        BY <1>1, <1>3, <1>6, <1>7, <1>8, <3>2
      <4>2. QED
        BY <1>4, <4>1
    <3>3. QED
      BY <1>3, <1>7, <3>1, <3>2
  <2>2. QED
    BY <1>7, <2>1 DEF Rows, X
<1>10. /\ rest \in Seq(Stream!Bytes) /\ Len(rest) = Len(pending) + Len(wire)
       /\ wire' \in Seq(Stream!Bytes) /\ Len(wire') = Len(wire) + Len(more)
       /\ rest \o more \in Seq(Stream!Bytes) /\ Len(rest \o more) = Len(rest) + Len(more)
       /\ \A p \in 1 .. Len(rest) : (rest \o more)[p] = rest[p]
       /\ \A p \in 1 .. Len(more) : (rest \o more)[Len(rest) + p] = more[p]
       /\ pending \o wire' = rest \o more
  <2>1. rest \in Seq(Stream!Bytes) /\ Len(rest) = Len(pending) + Len(wire)
    BY <1>1
  <2>2. wire' \in Seq(Stream!Bytes) /\ Len(wire') = Len(wire) + Len(more)
    BY <1>1
  <2>3. pending \o wire' = rest \o more
    <3>1. (pending \o wire) \o more = pending \o (wire \o more)
      BY <1>1, JoiningThree
    <3>2. QED
      BY <3>1
  <2> HIDE DEF rest
  <2>4. /\ rest \o more \in Seq(Stream!Bytes) /\ Len(rest \o more) = Len(rest) + Len(more)
        /\ \A p \in 1 .. Len(rest) : (rest \o more)[p] = rest[p]
        /\ \A p \in 1 .. Len(more) : (rest \o more)[Len(rest) + p] = more[p]
    BY <2>1, Joining
  <2>5. QED
    BY <2>1, <2>2, <2>3, <2>4
<1> DEFINE all == rest \o more
<1>11. /\ Start(s, k) \in Nat /\ Start(s, k) + Len(rest) = written /\ Len(rest) \in Nat
       /\ Start(t, k) = Start(s, k) /\ k \in 1 .. Len(t) + 1 /\ k \in Nat
  <2>1. Start(s, k) \in Nat /\ Start(t, k) = Start(s, k) /\ Start(s, k) = taken - Len(pending)
    BY <1>2, <1>3, <1>8
  <2>2. k \in 1 .. Len(t) + 1 /\ k \in Nat
    BY <1>3, <1>7
  <2>3. /\ taken \in Nat /\ written = taken + Len(wire)
        /\ Len(wire) \in Nat /\ Len(pending) \in Nat
    BY <1>1, <1>4
  <2>4. Len(rest) = Len(pending) + Len(wire)
    BY <1>10
  <2> DEFINE a == Start(s, k)
             l == Len(rest)
             w == Len(wire)
             p == Len(pending)
  <2>5. /\ a \in Nat /\ a = taken - p /\ taken \in Nat /\ written = taken + w
        /\ w \in Nat /\ p \in Nat /\ l = p + w
    BY <2>1, <2>3, <2>4
  <2> HIDE DEF a, l, w, p
  <2>6. a + l = written /\ l \in Nat
    BY <2>5
  <2>7. QED
    BY <2>1, <2>2, <2>6 DEF a, l
<1> HIDE DEF all, rest
<1>12. Laid(all, t, k)
  <2> SUFFICES ASSUME NEW j \in k .. Len(t)
               PROVE  Item(all, Start(t, j) - Start(t, k), t[j].end - Start(t, j), t[j].frame)
    BY DEF Laid
  <2>1. CASE j = Len(s) + 1
    <3>1. Start(t, j) - Start(t, k) = Len(rest) /\ t[j].end - Start(t, j) = Len(more)
          /\ t[j].frame = frame
      <4>1. Start(t, j) = written /\ t[j] = item
        <5>1. Len(s) + 1 \in 1 .. Len(s) + 1
          BY <1>3
        <5>2. QED
          BY <1>1, <1>7, <1>8, <2>1, <5>1
      <4>2. t[j].frame = frame /\ t[j].end = written + Len(more)
        BY <1>6, <4>1
      <4> DEFINE a == Start(s, k)
                 l == Len(rest)
                 m == Len(more)
                 e == t[j].end
                 b == Start(t, j)
      <4>5. /\ a \in Nat /\ l \in Nat /\ m \in Nat /\ a + l = written
            /\ e = written + m /\ b = written
        BY <1>4, <1>11, <4>1, <4>2
      <4> HIDE DEF a, l, m, e, b
      <4>6. e - b = m /\ written - a = l
        BY <4>5
      <4>3. t[j].end - Start(t, j) = Len(more) /\ written - Start(s, k) = Len(rest)
        BY <4>6 DEF a, l, m, e, b
      <4>4. QED
        BY <1>11, <4>1, <4>2, <4>3
    <3>2. \A q \in 1 .. Len(more) : Len(rest) + q <= Len(all) =>
            0 + q <= Len(more) /\ all[Len(rest) + q] = more[0 + q]
      <4> SUFFICES ASSUME NEW q \in 1 .. Len(more)
                   PROVE  0 + q <= Len(more) /\ all[Len(rest) + q] = more[0 + q]
        OBVIOUS
      <4>1. 0 + q = q /\ q <= Len(more)
        BY <1>4
      <4>2. all[Len(rest) + q] = more[q]
        BY <1>10 DEF all
      <4>3. QED
        BY <4>1, <4>2
    <3>3. Len(all) \in Nat
      BY <1>10 DEF all
    <3>4. Item(all, Len(rest), Len(more), frame)
      BY <1>4, <1>11, <3>2, <3>3, ItemMoves
    <3>5. QED
      BY <3>1, <3>4
  <2>2. CASE j # Len(s) + 1
    <3>1. j \in k .. Len(s) /\ j \in 1 .. Len(s) /\ j \in 1 .. Len(s) + 1
          /\ j + 1 \in 1 .. Len(s) + 1
      BY <1>2, <1>3, <1>7, <2>2
    <3> DEFINE o == Start(s, j) - Start(s, k)
               len == s[j].end - Start(s, j)
    <3>2. Item(rest, o, len, s[j].frame)
      BY <1>2, <3>1 DEF Reads, Laid
    <3>3. Start(t, j) = Start(s, j) /\ t[j] = s[j]
      BY <1>7, <1>8, <3>1
    <3>4. /\ Start(s, j) \in Nat /\ s[j].end \in Nat /\ s[j].end <= written
          /\ Start(s, k) <= Start(s, j)
      <4>1. Start(s, j) \in Nat /\ s[j].end \in Nat /\ s[j].end = Start(s, j + 1)
        BY <1>3, <3>1
      <4>2. j + 1 # Len(s) + 1 => Start(s, j + 1) + 2 <= written
        <5>1. Len(s) + 1 \in 1 .. Len(s) + 1 /\ j + 1 \in 1 .. Len(s) + 1
              /\ (j + 1 # Len(s) + 1 => j + 1 < Len(s) + 1)
          BY <1>3, <3>1
        <5>2. QED
          BY <1>1, <1>3, <5>1
      <4>3. j + 1 = Len(s) + 1 => Start(s, j + 1) = written
        BY <1>1
      <4>4. k # j => Start(s, k) + 2 <= Start(s, j)
        <5>1. k \in 1 .. j /\ (k # j => k < j)
          BY <1>3, <1>11, <3>1
        <5>2. QED
          BY <1>3, <3>1, <5>1
      <4>5. written \in Nat /\ Start(s, k) \in Nat
        BY <1>4, <1>11
      <4>6. s[j].end <= written
        BY <4>1, <4>2, <4>3, <4>5
      <4>7. Start(s, k) <= Start(s, j)
        BY <4>1, <4>4, <4>5
      <4>8. QED
        BY <4>1, <4>6, <4>7
    <3>5. o \in Nat /\ len \in Nat /\ o + len <= Len(rest)
      <4>1. len \in Nat
        BY <3>2, ItemHead
      <4>2. Start(s, k) \in Nat /\ Len(rest) \in Nat /\ written = Start(s, k) + Len(rest)
        BY <1>11
      <4> DEFINE a == Start(s, k)
                 b == Start(s, j)
                 e == s[j].end
                 l == Len(rest)
      <4>3. /\ a \in Nat /\ b \in Nat /\ e \in Nat /\ l \in Nat /\ e - b \in Nat
            /\ a <= b /\ e <= written /\ written = a + l
        BY <3>4, <4>1, <4>2
      <4> HIDE DEF a, b, e, l
      <4>4. b - a \in Nat /\ e - b \in Nat /\ (b - a) + (e - b) <= l
        BY <4>3
      <4>5. QED
        BY <4>4 DEF a, b, e, l
    <3> HIDE DEF o, len
    <3>6. \A q \in 1 .. len : o + q <= Len(all) => o + q <= Len(rest) /\ all[o + q] = rest[o + q]
      <4> SUFFICES ASSUME NEW q \in 1 .. len PROVE o + q <= Len(rest) /\ all[o + q] = rest[o + q]
        OBVIOUS
      <4>1. o + q \in 1 .. Len(rest)
        BY <1>11, <3>5
      <4>2. QED
        BY <1>10, <4>1 DEF all
    <3>7. Len(all) \in Nat
      BY <1>10 DEF all
    <3>8. Item(all, o, len, s[j].frame)
      BY <1>11, <3>2, <3>5, <3>6, <3>7, ItemMoves
    <3>9. QED
      BY <1>11, <3>3, <3>8 DEF o, len
  <2>3. QED
    BY <2>1, <2>2
<1>13. frames = Stream!Whole(t, Start(t, k))
  <2>1. ~(item.end <= Start(s, k))
    BY <1>4, <1>6, <1>11
  <2>2. Stream!Whole(t, Start(s, k)) = Stream!Whole(s, Start(s, k))
    BY <1>5, <1>6, <2>1, WholeBefore DEF t
  <2>3. QED
    BY <1>2, <1>11, <2>2 DEF Reads
<1>14. ASSUME k # Len(t) + 1
       PROVE  taken < t[k].end + 2 /\ (t[k].frame.type \in ModeS => taken < t[k].end)
  <2>1. CASE k = Len(s) + 1
    <3>1. t[k].end = written + Len(more)
      BY <1>6, <1>7, <2>1
    <3>2. QED
      BY <1>1, <1>4, <3>1
  <2>2. CASE k # Len(s) + 1
    <3>1. t[k] = s[k]
      BY <1>2, <1>3, <1>7, <2>2, SMTT(60)
    <3>2. QED
      BY <1>2, <2>2, <3>1 DEF Reads
  <2>3. QED
    BY <2>1, <2>2
<1>15. Reads(all, t, k, taken, frames)
  BY <1>12, <1>13, <1>14 DEF Reads
<1>16. /\ sent' = t /\ pending' \o wire' = all /\ taken' = taken /\ pending' = pending
       /\ frames' = frames /\ written' = written + Len(more)
  BY <1>10 DEF t, item, all
<1>17. written' = taken' + Len(wire') /\ Start(t, Len(t) + 1) = written'
  BY <1>1, <1>4, <1>6, <1>8, <1>10, <1>16
<1>18. Start(t, k) = taken' - Len(pending')
  BY <1>2, <1>11, <1>16
<1>19. QED
  BY <1>1, <1>9, <1>10, <1>11, <1>15, <1>16, <1>17, <1>18 DEF Received

LEMMA ReadKeeps ==
  ASSUME Stream!BeastAssumption, Received, NEW n \in 1 .. Len(wire), Stream!Read(n)
  PROVE  Received'
<1> DEFINE s == sent
           rest == pending \o wire
           bytes == pending \o SubSeq(wire, 1, n)
           sofar == Stream!ReadAll(bytes)
           left == Stream!From(bytes, sofar.read)
<1>1. /\ wire \in Seq(Stream!Bytes) /\ pending \in Seq(Stream!Bytes) /\ taken \in Nat
      /\ written = taken + Len(wire) /\ Rows(s) /\ Start(s, Len(s) + 1) = written
      /\ Len(wire) \in Nat /\ Len(pending) \in Nat /\ n \in Nat /\ n <= Len(wire)
  BY DEF Received
<1>2. PICK k \in 1 .. Len(s) + 1 :
        Start(s, k) = taken - Len(pending) /\ Reads(rest, s, k, taken, frames)
  BY DEF Received
<1>3. /\ Len(s) \in Nat
      /\ \A j \in 1 .. Len(s) + 1 : Start(s, j) \in Nat
      /\ \A j \in 1 .. Len(s) : s[j].end \in Nat /\ Start(s, j + 1) = s[j].end
      /\ \A j \in 1 .. Len(s) + 1 : \A i \in 1 .. j : i < j => Start(s, i) + 2 <= Start(s, j)
  BY <1>1, StartsGrow
<1>4. /\ bytes \in Seq(Stream!Bytes) /\ rest \in Seq(Stream!Bytes) /\ Len(bytes) = Len(pending) + n
      /\ Len(rest) = Len(pending) + Len(wire)
      /\ \A p \in 1 .. Len(pending) + n : bytes[p] = rest[p]
  BY <1>1, CutUp
<1>5. /\ frames' = frames \o sofar.frames /\ pending' = left /\ wire' = Stream!From(wire, n)
      /\ taken' = taken + n /\ sent' = s /\ written' = written
  BY DEF Stream!Read
<1> HIDE DEF bytes, rest, left, sofar
<1>6. Stands(bytes, rest, s, k)
  <2>1. Start(s, Len(s) + 1) = Start(s, k) + Len(rest)
    BY <1>1, <1>2, <1>4
  <2>2. Len(bytes) <= Len(rest)
    BY <1>1, <1>4
  <2>3. QED
    BY <1>1, <1>2, <1>4, <2>1, <2>2 DEF Stands, Reads
<1>7. /\ sofar.read \in Nat /\ sofar.read <= Len(bytes)
      /\ Stream!Parse(left).kind = "Incomplete"
      /\ \E j \in k .. Len(s) + 1 :
           /\ sofar.read = Start(s, j) - Start(s, k)
           /\ Stream!Whole(s, Start(s, j)) = Stream!Whole(s, Start(s, k)) \o sofar.frames
  BY <1>6, AllRead, SMTT(60) DEF sofar, left
<1>8. PICK j \in k .. Len(s) + 1 :
        /\ sofar.read = Start(s, j) - Start(s, k)
        /\ Stream!Whole(s, Start(s, j)) = Stream!Whole(s, Start(s, k)) \o sofar.frames
  BY <1>7
<1> DEFINE r == sofar.read
           later == Stream!From(wire, n)
           all == left \o later
<1>9. /\ left \in Seq(Stream!Bytes) /\ Len(left) = Len(pending) + n - r
      /\ later \in Seq(Stream!Bytes) /\ Len(later) = Len(wire) - n
      /\ all \in Seq(Stream!Bytes) /\ Len(all) = Len(pending) + Len(wire) - r
      /\ \A p \in 1 .. Len(pending) + Len(wire) - r : all[p] = rest[r + p]
  <2>1. r \in Nat /\ r <= Len(pending) + n
    BY <1>4, <1>7
  <2> HIDE DEF r, later, all
  <2> DEFINE at == Stream!From(pending \o SubSeq(wire, 1, n), r)
             on == Stream!From(wire, n)
  <2>2. /\ at \in Seq(Stream!Bytes) /\ Len(at) = Len(pending) + n - r
        /\ on \in Seq(Stream!Bytes) /\ Len(on) = Len(wire) - n
        /\ at \o on \in Seq(Stream!Bytes) /\ Len(at \o on) = Len(pending) + Len(wire) - r
        /\ \A p \in 1 .. Len(pending) + Len(wire) - r :
             (at \o on)[p] = (pending \o wire)[r + p]
    BY <1>1, <2>1, LeftOn, ZenonT(60)
  <2>3. left = at /\ later = on
    BY DEF left, bytes, later, r
  <2>4. all = at \o on /\ rest = pending \o wire
    BY <2>3 DEF all, rest
  <2> HIDE DEF at, on
  <2>5. QED
    BY <2>2, <2>3, <2>4
<1>10. /\ j # Len(s) + 1 =>
            Parsed(left, s[j].end - Start(s, j), s[j].frame, Stream!Parse(left))
       /\ j = Len(s) + 1 => left = <<>>
  <2>1. r = Start(s, j) - Start(s, k) /\ r <= Len(bytes)
    BY <1>7, <1>8
  <2>2. /\ j # Len(s) + 1 =>
             Parsed(Stream!From(bytes, r), s[j].end - Start(s, j), s[j].frame, Stream!Parse(Stream!From(bytes, r)))
        /\ j = Len(s) + 1 => Stream!From(bytes, r) = <<>>
    <3> HIDE DEF r
    <3>1. QED
      BY <1>6, <2>1, LeftParsed
  <2>3. QED
    BY <2>2 DEF left
<1> HIDE DEF later, all
<1>11. /\ j \in 1 .. Len(s) + 1 /\ Start(s, j) \in Nat /\ Start(s, k) \in Nat /\ r \in Nat
       /\ Start(s, j) = Start(s, k) + r
  <2>1. j \in 1 .. Len(s) + 1 /\ k \in 1 .. Len(s) + 1
    BY <1>2, <1>3, <1>8
  <2>2. Start(s, j) \in Nat /\ Start(s, k) \in Nat
    BY <1>3, <2>1
  <2>3. r = Start(s, j) - Start(s, k) /\ r \in Nat
    BY <1>7, <1>8
  <2> HIDE DEF r
  <2>4. QED
    BY <2>1, <2>2, <2>3
<1> HIDE DEF r
<1>12. /\ Start(s, j) = taken' - Len(left) /\ written = taken' + Len(later) /\ taken' \in Nat
       /\ taken' = Start(s, j) + Len(left) /\ Len(left) \in Nat /\ Len(later) \in Nat
  <2>1. /\ taken \in Nat /\ Len(pending) \in Nat /\ n \in Nat /\ Len(wire) \in Nat
        /\ n <= Len(wire) /\ written = taken + Len(wire)
    BY <1>1
  <2>2. /\ Start(s, k) = taken - Len(pending) /\ taken' = taken + n
        /\ Len(left) = Len(pending) + n - r /\ Len(later) = Len(wire) - n
    BY <1>2, <1>5, <1>9
  <2>3. Len(left) \in Nat
    BY <1>9
  <2>4. /\ Start(s, j) \in Nat /\ Start(s, k) \in Nat /\ r \in Nat
        /\ Start(s, j) = Start(s, k) + r
    BY <1>11
  <2>5. QED
    BY <2>1, <2>2, <2>3, <2>4
<1>13. Laid(all, s, j)
  <2> SUFFICES ASSUME NEW i \in j .. Len(s)
               PROVE  Item(all, Start(s, i) - Start(s, j), s[i].end - Start(s, i), s[i].frame)
    BY DEF Laid
  <2>1. i \in k .. Len(s) /\ i \in 1 .. Len(s) + 1 /\ j \in 1 .. i /\ (j # i => j < i)
    BY <1>2, <1>3, <1>8
  <2> DEFINE o == Start(s, i) - Start(s, k)
             p == Start(s, i) - Start(s, j)
             len == s[i].end - Start(s, i)
  <2>2. Item(rest, o, len, s[i].frame)
    BY <1>2, <2>1 DEF Reads, Laid
  <2>3. len \in Nat
    BY <2>2, ItemHead
  <2>4. o \in Nat /\ p \in Nat /\ o = p + r
    <3>1. Start(s, i) \in Nat /\ (j # i => Start(s, j) + 2 <= Start(s, i))
      BY <1>3, <2>1
    <3>2. Start(s, j) <= Start(s, i)
      BY <1>11, <3>1
    <3>3. Start(s, j) \in Nat /\ Start(s, k) \in Nat /\ r \in Nat /\ Start(s, j) = Start(s, k) + r
      BY <1>11
    <3> DEFINE a == Start(s, k)
               b == Start(s, j)
               c == Start(s, i)
    <3>4. a \in Nat /\ b \in Nat /\ c \in Nat /\ r \in Nat /\ b = a + r /\ b <= c
      BY <3>1, <3>2, <3>3
    <3> HIDE DEF a, b, c
    <3>5. c - a \in Nat /\ c - b \in Nat /\ c - a = (c - b) + r
      BY <3>4
    <3>6. QED
      BY <3>5 DEF a, b, c
  <2> HIDE DEF o, p, len
  <2>5. \A q \in 1 .. len : p + q <= Len(all) => o + q <= Len(rest) /\ all[p + q] = rest[o + q]
    <3> SUFFICES ASSUME NEW q \in 1 .. len, p + q <= Len(all)
                 PROVE  o + q <= Len(rest) /\ all[p + q] = rest[o + q]
      OBVIOUS
    <3>4. /\ Len(pending) \in Nat /\ Len(wire) \in Nat /\ r \in Nat
          /\ Len(all) = Len(pending) + Len(wire) - r /\ Len(rest) = Len(pending) + Len(wire)
      BY <1>1, <1>4, <1>9, <1>11
    <3>5. q \in Nat /\ q >= 1
      BY <2>3
    <3>1. p + q \in 1 .. Len(pending) + Len(wire) - r /\ r + (p + q) = o + q
      BY <2>4, <3>4, <3>5
    <3>2. o + q <= Len(rest)
      BY <2>4, <3>1, <3>4, <3>5
    <3>3. QED
      BY <1>9, <3>1, <3>2
  <2>6. Len(all) \in Nat /\ Len(rest) \in Nat
    BY <1>4, <1>9
  <2>7. Item(all, p, len, s[i].frame)
    BY <2>2, <2>3, <2>4, <2>5, <2>6, ItemMoves
  <2>8. QED
    BY <2>7 DEF p, len
<1>14. frames' = Stream!Whole(s, Start(s, j))
  BY <1>2, <1>5, <1>8 DEF Reads
<1>15. Short(left) /\ (j # Len(s) + 1 =>
         /\ Len(left) < s[j].end - Start(s, j) + 2
         /\ s[j].frame.type \in ModeS => Len(left) < s[j].end - Start(s, j))
  <2>1. CASE j = Len(s) + 1
    BY <1>10, <2>1 DEF Short
  <2>2. CASE j # Len(s) + 1
    BY <1>7, <1>10, <2>2 DEF Parsed
  <2>3. QED
    BY <2>1, <2>2
<1>16. ASSUME j # Len(s) + 1
       PROVE  taken' < s[j].end + 2 /\ (s[j].frame.type \in ModeS => taken' < s[j].end)
  <2>1. s[j].end \in Nat /\ Len(left) \in Nat /\ Start(s, j) \in Nat
    <3>1. j \in 1 .. Len(s)
      BY <1>3, <1>11, <1>16
    <3>2. QED
      BY <1>3, <1>11, <1>12, <3>1
  <2>2. Len(left) < s[j].end - Start(s, j) + 2
        /\ (s[j].frame.type \in ModeS => Len(left) < s[j].end - Start(s, j))
    BY <1>15, <1>16
  <2>3. taken' = Start(s, j) + Len(left)
    BY <1>12
  <2>4. taken' < s[j].end + 2
    <3>1. Len(left) < s[j].end - Start(s, j) + 2
      BY <2>2
    <3>2. QED
      BY <2>1, <2>3, <3>1, SMTT(60)
  <2>5. ASSUME s[j].frame.type \in ModeS PROVE taken' < s[j].end
    <3>1. Len(left) < s[j].end - Start(s, j)
      BY <2>2, <2>5
    <3>2. QED
      BY <2>1, <2>3, <3>1
  <2>6. QED
    BY <2>4, <2>5
<1>17. Reads(all, s, j, taken', frames')
  BY <1>13, <1>14, <1>16 DEF Reads
<1>18. wire' = later /\ pending' = left /\ pending' \o wire' = all
  BY <1>5 DEF later, all
<1>19. QED
  BY <1>1, <1>5, <1>9, <1>11, <1>12, <1>15, <1>17, <1>18 DEF Received

LEMMA NextKeeps ==
  ASSUME Stream!BeastAssumption, Received, [Stream!Next]_(Stream!vars)
  PROVE  Received'
<1>1. ASSUME NEW f \in Stream!Frames, Stream!Send(f) PROVE Received'
  <2>1. PICK type \in Stream!Types : f \in [type : {type}, body : [1 .. LengthOf[type] -> Stream!Bytes]]
    BY DEF Stream!Frames
  <2>2. /\ f.type = type /\ f.body \in [1 .. LengthOf[type] -> Stream!Bytes]
        /\ f = [type |-> type, body |-> f.body]
    BY <2>1
  <2>3. LengthOf[type] \in Nat /\ LengthOf[type] \in 0 .. LengthOf[type]
    BY DEF Stream!BeastAssumption, Stream!Types
  <2> DEFINE more == Stream!Write(f)
             n == LengthOf[type]
  <2>4. /\ more \in Seq(Stream!Bytes)
        /\ \E used \in [0 .. n -> Nat] :
             Opens(more, 0, type, f.body, n, used) /\ Len(more) = 2 + used[n]
    BY <2>2, <2>3, WriteLaid DEF Stream!Write
  <2> HIDE DEF more
  <2>5. Item(more, 0, Len(more), f)
    BY <2>2, <2>3, <2>4 DEF Item
  <2>6. f \in Stream!Frames \cup {[type |-> "none"]}
    OBVIOUS
  <2>7. /\ wire' = wire \o more /\ written' = written + Len(more)
        /\ sent' = Append(sent, [frame |-> f, end |-> written + Len(more)])
        /\ UNCHANGED <<pending, frames, taken>>
    BY <1>1 DEF Stream!Send, more
  <2>8. QED
    BY <2>4, <2>5, <2>6, <2>7, SendKeeps
<1>2. ASSUME NEW f \in Stream!Frames, NEW n \in 0 .. Len(f.body) - 1, Stream!SendBroken(f, n) PROVE Received'
  <2>1. PICK type \in Stream!Types : f \in [type : {type}, body : [1 .. LengthOf[type] -> Stream!Bytes]]
    BY DEF Stream!Frames
  <2>2. f.type = type /\ f.body \in [1 .. LengthOf[type] -> Stream!Bytes]
    BY <2>1
  <2>3. LengthOf[type] \in Nat
    BY DEF Stream!BeastAssumption, Stream!Types
  <2>4. n < LengthOf[type] /\ n \in Nat /\ n \in 0 .. LengthOf[type]
    <3>1. Len(f.body) = LengthOf[type]
      BY <2>2, <2>3
    <3>2. QED
      BY <2>3, <3>1
  <2> DEFINE more == Stream!Broken(f, n)
             none == [type |-> "none"]
             body == [i \in 1 .. n |-> f.body[i]]
  <2>5. /\ more \in Seq(Stream!Bytes)
        /\ \E used \in [0 .. n -> Nat] :
             Opens(more, 0, type, f.body, n, used) /\ Len(more) = 2 + used[n]
    BY <2>2, <2>3, <2>4, WriteLaid DEF Stream!Broken
  <2> HIDE DEF more
  <2>6. body \in [1 .. n -> Stream!Bytes] /\ \A i \in 1 .. n : body[i] = f.body[i]
    <3>1. \A i \in 1 .. n : i \in 1 .. LengthOf[type]
      BY <2>3, <2>4
    <3>2. QED
      BY <2>2, <3>1
  <2> HIDE DEF body
  <2>7. PICK used \in [0 .. n -> Nat] :
          Opens(more, 0, type, f.body, n, used) /\ Len(more) = 2 + used[n]
    BY <2>5
  <2>8. Opens(more, 0, type, body, n, used)
    BY <2>6, <2>7 DEF Opens
  <2>9. none.type \notin ModeS
    BY DEF Stream!BeastAssumption
  <2>10. Item(more, 0, Len(more), none)
    BY <2>4, <2>6, <2>7, <2>8, <2>9 DEF Item
  <2>11. none \in Stream!Frames \cup {[type |-> "none"]}
    OBVIOUS
  <2>12. /\ wire' = wire \o more /\ written' = written + Len(more)
         /\ sent' = Append(sent, [frame |-> none, end |-> written + Len(more)])
         /\ UNCHANGED <<pending, frames, taken>>
    BY <1>2 DEF Stream!SendBroken, more
  <2> HIDE DEF none
  <2>13. QED
    BY <2>5, <2>10, <2>11, <2>12, SendKeeps DEF none
<1>3. CASE Stream!Reconnect
  BY <1>3, AfreshNext DEF Stream!Reconnect, Stream!Default
<1>4. CASE UNCHANGED Stream!vars
  BY <1>4 DEF Stream!vars, Received
<1>5. QED
  BY <1>1, <1>2, <1>3, <1>4, ReadKeeps DEF Stream!Next

(* What the reader has returned is what it should have. *)
LEMMA InductiveTells ==
  ASSUME Stream!BeastAssumption, Received
  PROVE  Stream!ExactlyWhole /\ Stream!PendingShort
<1> DEFINE s == sent
<1>1. PICK k \in 1 .. Len(s) + 1 :
        Start(s, k) = taken - Len(pending) /\ Reads(pending \o wire, s, k, taken, frames)
  BY DEF Received
<1>2. taken \in Nat /\ Len(pending) \in Nat /\ Rows(s) /\ Short(pending)
  BY DEF Received
<1>3. /\ Len(s) \in Nat
      /\ \A j \in 1 .. Len(s) + 1 : Start(s, j) \in Nat
      /\ \A j \in 1 .. Len(s) : s[j].end \in Nat /\ Start(s, j + 1) = s[j].end
      /\ \A j \in 1 .. Len(s) + 1 : \A i \in 1 .. j : i < j => Start(s, i) + 2 <= Start(s, j)
  BY <1>2, StartsGrow
<1> DEFINE c == Start(s, k)
<1>4. c \in Nat /\ c <= taken /\ frames = Stream!Whole(s, c)
  BY <1>1, <1>2, <1>3 DEF Reads
<1>5. ASSUME NEW i \in 1 .. Len(s), s[i].frame.type \in ModeS
      PROVE  s[i].end <= c <=> s[i].end <= taken
  <2>1. s[i].end \in Nat /\ s[i].end = Start(s, i + 1) /\ i + 1 \in 1 .. Len(s) + 1
    BY <1>3
  <2>2. CASE i < k
    <3>1. i + 1 \in 1 .. k /\ (i + 1 # k => i + 1 < k)
      BY <1>1, <1>3, <2>2
    <3>2. i + 1 # k => s[i].end + 2 <= c
      BY <1>1, <1>3, <2>1, <3>1
    <3>3. i + 1 = k => s[i].end = c
      BY <2>1
    <3> HIDE DEF c
    <3>4. QED
      BY <1>2, <1>4, <2>1, <3>2, <3>3
  <2>3. CASE i = k
    <3>1. k # Len(s) + 1
      BY <1>3, <2>3
    <3>2. taken < s[i].end
      BY <1>1, <1>5, <2>3, <3>1 DEF Reads
    <3> HIDE DEF c
    <3>3. QED
      BY <1>2, <1>4, <2>1, <3>2
  <2>4. CASE i > k
    <3>1. k # Len(s) + 1 /\ k \in 1 .. Len(s) /\ k + 1 \in 1 .. i + 1 /\ k + 1 < i + 1
          /\ k + 1 \in 1 .. Len(s) + 1
      BY <1>1, <1>3, <2>4
    <3>2. taken < s[k].end + 2
      BY <1>1, <3>1 DEF Reads
    <3>3. s[k].end + 2 <= s[i].end /\ s[k].end \in Nat
      BY <1>3, <2>1, <3>1
    <3> HIDE DEF c
    <3>4. QED
      BY <1>2, <1>4, <2>1, <3>2, <3>3, SMTT(60)
  <2>5. QED
    BY <1>1, <1>3, <2>2, <2>3, <2>4
<1>6. Stream!Whole(s, c) = Stream!Whole(s, taken)
  <2> HIDE DEF c
  <2>1. QED
    BY <1>2, <1>3, <1>4, <1>5, WholeSame
<1>7. QED
  BY <1>2, <1>4, <1>6 DEF Stream!ExactlyWhole, Stream!PendingShort, Short

(* However the stream is cut up, whatever frames are broken off in it and  *)
(* however many connections are made, the reader has returned exactly the  *)
(* Mode S frames that came whole on this one, in order, and what it keeps  *)
(* of the next is the start of one frame (beast.rs:20-140).                *)
THEOREM StreamExactlyWhole ==
  ASSUME Stream!BeastAssumption PROVE Stream!Spec => [](Stream!ExactlyWhole /\ Stream!PendingShort)
<1>1. Stream!Init => Received
  BY Afresh DEF Stream!Init
<1>2. Received /\ [Stream!Next]_(Stream!vars) => Received'
  BY NextKeeps
<1>3. Received => Stream!ExactlyWhole /\ Stream!PendingShort
  BY InductiveTells
<1>4. QED
  BY <1>1, <1>2, <1>3, PTL DEF Stream!Spec

-----------------------------------------------------------------------------
(* The whole server: whatever the other tasks do, each goes on as its own  *)
(* module has it.                                                          *)

LEMMA TaskIsDoor == TaskSpec => DoorSpec
<1>1. TaskInit => DoorInit
  BY DEF TaskInit
<1>2. [TaskNext]_<<taskVars, vars, doorVars>> => [DoorNext]_<<vars, doorVars>>
  BY DEF TaskNext, OfSource, OfStream, OfCopy, OfWeather, OfDoor, Beside
<1>3. QED
  BY <1>1, <1>2, PTL DEF TaskSpec, DoorSpec

LEMMA SourceStep ==
  [TaskNext]_<<taskVars, vars, doorVars>> => [Source!Next]_(Source!vars)
  BY DEF TaskNext, OfSource, OfStream, OfCopy, OfWeather, OfDoor, Beside,
         taskVars, sourceVars, Source!vars

LEMMA TaskIsSource == TaskSpec => Source!Spec
<1>1. TaskInit => Source!Init
  BY DEF TaskInit
<1>2. QED
  BY <1>1, SourceStep, PTL DEF TaskSpec, Source!Spec

(* Follow.Spaced, in the server. *)
THEOREM SpacedHolds == TaskSpec => Spaced
<1>1. Source!Spec => Source!Spaced
  BY SourceSpaced, ServerAssumption
<1>2. Source!Spaced => Spaced
  BY DEF Source!Spaced, Spaced, Source!vars, sourceVars
<1>3. QED
  BY <1>1, <1>2, TaskIsSource, PTL

LEMMA CopyStep ==
  [TaskNext]_<<taskVars, vars, doorVars>> => [Copy!Next]_(Copy!vars)
  BY DEF TaskNext, OfSource, OfStream, OfCopy, OfWeather, OfDoor, Beside,
         taskVars, copyVars, Copy!vars

LEMMA TaskIsCopy == TaskSpec => Copy!Spec
<1>1. TaskInit => Copy!Init
  BY DEF TaskInit
<1>2. QED
  BY <1>1, CopyStep, PTL DEF TaskSpec, Copy!Spec

(* Mirror.ToldIsKept, in the server: wherever it stops or fails to write,  *)
(* what was told stays kept.                                               *)
THEOREM ToldIsKeptHolds == TaskSpec => []ToldIsKept
<1>1. Copy!Spec => []Copy!ToldIsKept
  BY CopyToldIsKept, ServerAssumption
<1>2. Copy!ToldIsKept => ToldIsKept
  BY DEF ToldIsKept
<1>3. QED
  BY <1>1, <1>2, TaskIsCopy, PTL

LEMMA StreamStep ==
  [TaskNext]_<<taskVars, vars, doorVars>> => [Stream!Next]_(Stream!vars)
  BY DEF TaskNext, OfSource, OfStream, OfCopy, OfWeather, OfDoor, Beside,
         taskVars, streamVars, Stream!vars

LEMMA TaskReads == TaskSpec => [](ExactlyWhole /\ Stream!PendingShort)
<1>1. TaskInit => Stream!Init
  BY DEF TaskInit
<1>2. TaskSpec => Stream!Spec
  BY <1>1, StreamStep, PTL DEF TaskSpec, Stream!Spec
<1>3. Stream!Spec => [](Stream!ExactlyWhole /\ Stream!PendingShort)
  BY StreamExactlyWhole, ServerAssumption
<1>4. Stream!ExactlyWhole => ExactlyWhole
  BY DEF ExactlyWhole
<1>5. QED
  BY <1>2, <1>3, <1>4, PTL

(* Beast.ExactlyWhole, in the server: the frames read on a connection are  *)
(* those of Mode S that came whole on it, however the stream is cut up.    *)
THEOREM ExactlyWholeHolds == TaskSpec => []ExactlyWhole
  BY TaskReads, PTL

-----------------------------------------------------------------------------
(* The polls of the weather, in the server, for the stations of each task. *)
LEMMA WeatherSteps ==
  ASSUME [TaskNext]_<<taskVars, vars, doorVars>>
  PROVE  /\ task' = task
         /\ task = "told" => [Told!Next]_(Told!vars)
         /\ task = "newest" => [Newest!Next]_(Newest!vars)
         /\ task = "range" => [Leaving!Next]_(Leaving!vars)
  BY DEF TaskNext, OfSource, OfStream, OfCopy, OfWeather, OfDoor, Beside,
         taskVars, weatherVars, Told!vars, Newest!vars, Leaving!vars

(* Each poll keeps what its module does while it is the task that is run.  *)
PollsKeep ==
  /\ task = "told" => Told!Keeps
  /\ task = "newest" => Newest!Keeps
  /\ task = "range" => Leaving!Keeps

LEMMA TaskPolls == TaskSpec => []PollsKeep
<1>1. TaskInit => PollsKeep
  <2> SUFFICES ASSUME TaskInit PROVE PollsKeep
    OBVIOUS
  <2>1. /\ task = "told" => Told!Init
        /\ task = "newest" => Newest!Init
        /\ task = "range" => Leaving!Init
    BY DEF TaskInit
  <2>2. QED
    BY <2>1, Told!KeepsAtStart, Newest!KeepsAtStart, Leaving!KeepsAtStart,
       ServerAssumption DEF PollsKeep
<1>2. PollsKeep /\ [TaskNext]_<<taskVars, vars, doorVars>> => PollsKeep'
  <2> SUFFICES ASSUME PollsKeep, [TaskNext]_<<taskVars, vars, doorVars>>
               PROVE  PollsKeep'
    OBVIOUS
  <2>1. ASSUME task = "told" PROVE Told!Keeps'
    BY <2>1, WeatherSteps, Told!KeepsOn, ServerAssumption DEF PollsKeep
  <2>2. ASSUME task = "newest" PROVE Newest!Keeps'
    BY <2>2, WeatherSteps, Newest!KeepsOn, ServerAssumption DEF PollsKeep
  <2>3. ASSUME task = "range" PROVE Leaving!Keeps'
    BY <2>3, WeatherSteps, Leaving!KeepsOn, ServerAssumption DEF PollsKeep
  <2>4. QED
    BY <2>1, <2>2, <2>3, WeatherSteps DEF PollsKeep
<1>3. QED
  BY <1>1, <1>2, PTL DEF TaskSpec

(* Weather.ToldIsCurrent, NoneStale and NeverBack, in the server. *)
THEOREM WeatherToldHolds == TaskSpec => []WeatherTold
<1>1. PollsKeep => WeatherTold
  <2> SUFFICES ASSUME PollsKeep PROVE WeatherTold
    OBVIOUS
  <2>1. task = "told" => Told!ToldIsCurrent /\ Told!NoneStale
    BY Told!NeverStale, ServerAssumption DEF PollsKeep, Told!Keeps, Told!UpTo
  <2>2. task = "newest" => Newest!NeverBack
    BY DEF PollsKeep, Newest!Keeps
  <2>3. QED
    BY <2>1, <2>2 DEF WeatherTold
<1>2. QED
  BY <1>1, TaskPolls, PTL

(* Every task keeps its bounds: no count, delay or leftover of any of them *)
(* grows with the time the server runs, whatever its sources do.           *)
THEOREM BoundedHolds == TaskSpec => []Bounded
<1>1. TaskSpec => [](Source!TypeOK /\ Source!NoticesSilence)
  <2>1. Source!Spec => []Source!TypeOK
    BY SourceTypeHolds, ServerAssumption
  <2>2. Source!Spec => []Source!NoticesSilence
    BY NoticesSilenceHolds, ServerAssumption
  <2>3. QED
    BY <2>1, <2>2, TaskIsSource, PTL
<1>2. TaskSpec => [](Copy!TypeOK /\ Copy!SleepsUntilDue)
  <2>1. Copy!Spec => [](Copy!TypeOK /\ Copy!SleepsUntilDue)
    BY SleepsUntilDueHolds, ServerAssumption
  <2>2. QED
    BY <2>1, TaskIsCopy, PTL
<1>3. /\ Source!TypeOK /\ Source!NoticesSilence /\ Copy!TypeOK /\ Copy!SleepsUntilDue
      /\ Stream!PendingShort /\ PollsKeep
      => Bounded
  BY DEF Bounded, PollsKeep, Told!Keeps, Newest!Keeps, Leaving!Keeps
<1>4. QED
  BY <1>1, <1>2, <1>3, TaskReads, TaskPolls, PTL

(* What the authority and its door promise holds in the whole server.      *)
COROLLARY DoorInServer == TaskSpec => [](TrustedOnce /\ ShownGood) /\ RefusedOnlyWhen
  BY TaskIsDoor, DoorIsAuthority, TrustedOnceHolds, RefusedOnlyWhenHolds, ShownGoodHolds, PTL
=============================================================================
