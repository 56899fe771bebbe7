------------------------------- MODULE Mirror -------------------------------
(***************************************************************************)
(* A file others publish and renew (the aircraft database, the METAR       *)
(* stations), kept current: told as the copy on disk has it, downloaded    *)
(* when that copy is too old, missing or unreadable, and written aside     *)
(* before it takes the copy's place.  The program may stop at any step and *)
(* be started again, and the clock of the machine may be set meanwhile.    *)
(***************************************************************************)
EXTENDS Integers

CONSTANTS
  RENEW_AT, RETRY_AFTER,
  None,                  \* no copy, and nothing told
  MaxVersions, MaxCrashes, MaxSets  \* bounds: renewals, stops, settings of the clock

Unreadable == 0           \* what does not read as the publication
Versions == 1 .. MaxVersions + 1

(* How long ago a copy was written: less than nothing when the clock was   *)
(* set back since; RENEW_AT stands for longer ages too.                    *)
Ages == -RENEW_AT .. RENEW_AT
Copies == [of : {Unreadable} \cup Versions, age : Ages]

(* What the constants are taken to be, assumed where they are given values. *)
MirrorAssumption ==
  /\ RETRY_AFTER \in Nat \ {0} /\ RENEW_AT \in Nat /\ RENEW_AT > RETRY_AFTER
  /\ {MaxVersions, MaxCrashes, MaxSets} \subseteq Nat
  /\ None \notin Copies \cup Nat

VARIABLES
  upstream,  \* the version published
  place,     \* whether there is a file to keep a copy in
  kept,      \* that file: its contents and its age, or none
  aside,     \* the file beside it: none, in part, or whole
  phase,     \* where refresh is
  usable,    \* whether there is a copy that reads
  read,      \* the version downloaded
  wait,      \* how long is left to sleep
  told,      \* what the readers have
  crashes, sets,
  reset,     \* history: whether the clock was set since the copy was looked at
             \* or written
  best       \* history: the newest version ever told

vars == <<upstream, place, kept, aside, phase, usable, read, wait, told,
          crashes, sets, reset, best>>
world == <<upstream, place, crashes, sets>>

-----------------------------------------------------------------------------
Init ==
  /\ upstream = 1
  /\ place \in BOOLEAN
  /\ kept \in {None} \cup [of : {Unreadable, 1}, age : Ages]
  /\ place = FALSE => kept = None
  /\ aside = None
  /\ phase = "start"
  /\ usable = FALSE
  /\ read = None /\ wait = 0
  /\ told = None /\ best = 0
  /\ crashes = 0 /\ sets = 0
  /\ reset = FALSE

(* What the readers are told. *)
Publish(version) ==
  /\ told' = version
  /\ best' = IF version > best THEN version ELSE best

(* The copy kept is read and told, when there is one that reads. *)
Start ==
  /\ phase = "start"
  /\ IF kept # None /\ kept.of # Unreadable
     THEN usable' = TRUE /\ Publish(kept.of)
     ELSE usable' = FALSE /\ UNCHANGED <<told, best>>
  /\ phase' = "look"
  /\ UNCHANGED <<world, kept, aside, read, wait, reset>>

(* Mutated: a period starts whenever the copy is looked at. *)
LeftFromNow == IF usable THEN RENEW_AT ELSE 0
(* Mutated: a copy dated later than now is as new as can be. *)
LeftOfFuture ==
  IF kept = None \/ ~usable THEN 0
  ELSE IF kept.age < 0 THEN RENEW_AT ELSE RENEW_AT - kept.age
(* What is left before the copy is due, nothing when it is missing, does   *)
(* not read, or is dated later than now.                                   *)
Left ==
  IF kept = None \/ ~usable \/ kept.age < 0 THEN 0 ELSE RENEW_AT - kept.age

(* The copy is waited for while it is recent, and else downloaded. *)
Look ==
  /\ phase = "look"
  /\ wait' = Left
  /\ phase' = IF Left > 0 THEN "asleep" ELSE "download"
  /\ reset' = FALSE
  /\ UNCHANGED <<world, kept, aside, usable, read, told, best>>

(* What was asked for came, and reads; to be written aside when there is a *)
(* place, and else told.                                                   *)
Obtain ==
  /\ phase = "download"
  /\ read' = upstream
  /\ phase' = IF place THEN "write" ELSE "done"
  /\ UNCHANGED <<world, kept, aside, usable, wait, told, reset, best>>

(* Mutated: written over the copy, whose contents are gone meanwhile. *)
OverCopy ==
  /\ phase = "write"
  /\ kept' = [of |-> Unreadable, age |-> 0]
  /\ aside' = "part"
  /\ phase' = "writing"
  /\ UNCHANGED <<world, usable, read, wait, told, reset, best>>
Write ==
  /\ phase = "write"
  /\ aside' = "part"
  /\ phase' = "writing"
  /\ UNCHANGED <<world, kept, usable, read, wait, told, reset, best>>

Written ==
  /\ phase = "writing"
  /\ aside' = "whole"
  /\ phase' = "rename"
  /\ UNCHANGED <<world, kept, usable, read, wait, told, reset, best>>

Rename ==
  /\ phase = "rename"
  /\ kept' = [of |-> read, age |-> 0]
  /\ aside' = None
  /\ phase' = "done"
  /\ reset' = FALSE
  /\ UNCHANGED <<world, usable, read, wait, told, best>>

(* Told once it is kept, for a whole period. *)
Done ==
  /\ phase = "done"
  /\ Publish(read)
  /\ usable' = TRUE
  /\ wait' = RENEW_AT
  /\ read' = None
  /\ phase' = "asleep"
  /\ UNCHANGED <<world, kept, aside, reset>>

(* Mutated: what could not be kept is told all the same. *)
TellAnyway ==
  /\ phase \in {"download", "write", "writing", "rename"}
  /\ IF read # None
     THEN Publish(read) /\ usable' = TRUE /\ wait' = RENEW_AT
     ELSE UNCHANGED <<told, best, usable>> /\ wait' = RETRY_AFTER
  /\ read' = None
  /\ phase' = "asleep"
  /\ UNCHANGED <<world, kept, aside, reset>>
(* The download fails, does not read, or cannot be written or renamed. *)
Fail ==
  /\ phase \in {"download", "write", "writing", "rename"}
  /\ wait' = RETRY_AFTER
  /\ read' = None
  /\ phase' = "asleep"
  /\ UNCHANGED <<world, kept, aside, usable, told, reset, best>>

Wake ==
  /\ phase = "asleep" /\ wait = 0
  /\ phase' = "look"
  /\ UNCHANGED <<world, kept, aside, usable, read, wait, told, reset, best>>

-----------------------------------------------------------------------------
(* Time passes, on the clock and for the sleep alike. *)
Tick ==
  /\ phase \in {"asleep", "download"}
  /\ phase = "asleep" => wait > 0
  /\ wait' = IF phase = "asleep" THEN wait - 1 ELSE wait
  /\ kept' = IF kept = None \/ kept.age = RENEW_AT THEN kept
             ELSE [kept EXCEPT !.age = @ + 1]
  /\ UNCHANGED <<world, aside, phase, usable, read, told, reset, best>>

(* The clock is set, forward or back. *)
Set ==
  /\ sets < MaxSets
  /\ kept # None
  /\ \E age \in Ages : kept' = [kept EXCEPT !.age = age]
  /\ sets' = sets + 1
  /\ reset' = TRUE
  /\ UNCHANGED <<upstream, place, aside, phase, usable, read, wait, told, crashes, best>>

(* The publisher renews the file. *)
Renew ==
  /\ upstream <= MaxVersions
  /\ upstream' = upstream + 1
  /\ UNCHANGED <<place, kept, aside, phase, usable, read, wait, told, crashes,
                 sets, reset, best>>

(* The program stops where it is and is started again. *)
Crash ==
  /\ crashes < MaxCrashes
  /\ crashes' = crashes + 1
  /\ phase' = "start"
  /\ usable' = FALSE /\ read' = None /\ wait' = 0 /\ told' = None
  /\ reset' = FALSE
  /\ UNCHANGED <<upstream, place, kept, aside, sets, best>>

(* Nobody reads the publication any longer, and what refresh was at is     *)
(* dropped.                                                                *)
Close ==
  /\ phase \in {"download", "asleep"}
  /\ phase' = "over"
  /\ UNCHANGED <<world, kept, aside, usable, read, wait, told, reset, best>>

Next ==
  \/ Start \/ Look \/ Obtain \/ Write \/ Written \/ Rename \/ Done \/ Fail \/ Wake
  \/ Tick \/ Set \/ Renew \/ Crash \/ Close

Spec == Init /\ [][Next]_vars

(* The program and time go on; the publisher is reached, and the disk      *)
(* written, every so often.                                                *)
FairSpec ==
  /\ Spec
  /\ WF_vars(Start) /\ WF_vars(Look) /\ WF_vars(Done) /\ WF_vars(Wake)
  /\ WF_vars(Tick /\ phase = "asleep")
  /\ SF_vars(Obtain) /\ SF_vars(Write) /\ SF_vars(Written) /\ SF_vars(Rename)

-----------------------------------------------------------------------------
TypeOK ==
  /\ upstream \in Versions
  /\ place \in BOOLEAN
  /\ kept \in {None} \cup Copies
  /\ aside \in {None, "part", "whole"}
  /\ phase \in {"start", "look", "download", "write", "writing", "rename", "done",
                "asleep", "over"}
  /\ usable \in BOOLEAN
  /\ read \in {None} \cup Versions
  /\ wait \in 0 .. RENEW_AT
  /\ told \in {None} \cup Versions
  /\ best \in 0 .. MaxVersions + 1
  /\ crashes \in 0 .. MaxCrashes /\ sets \in 0 .. MaxSets
  /\ reset \in BOOLEAN

(* With a place to keep a copy, nothing is told that would be lost: the    *)
(* copy is at least as new as all that was ever told, so a restart never   *)
(* takes the readers back to an older version, and no stop, failure or     *)
(* full disk while a copy is written costs the one there is.               *)
ToldIsKept == place /\ best > 0 => kept # None /\ kept.of >= best

(* Asleep for longer than a retry, there is a copy that reads, what it     *)
(* says is what was told, and it will be looked at by the time it is due.  *)
SleepsUntilDue ==
  phase = "asleep" /\ wait > RETRY_AFTER /\ place =>
    /\ kept # None /\ kept.of = told
    /\ reset \/ (kept.age \in 0 .. RENEW_AT /\ kept.age + wait <= RENEW_AT)

(* Every version is told at last, or a newer one, as long as the publisher *)
(* is reached and the disk written every so often: however old the copy,   *)
(* whatever the clock was set to, and wherever the program stopped.        *)
RenewalReaches ==
  \A v \in Versions : upstream >= v ~> (phase = "over" \/ (told # None /\ told >= v))

=============================================================================
