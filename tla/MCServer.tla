------------------------------ MODULE MCServer ------------------------------
(***************************************************************************)
(* The tasks of the server that keep it supplied and share nothing: the    *)
(* following of the source, the reading of its stream, the mirror of a     *)
(* published file and the poll of the weather; and its door, with the      *)
(* authority behind it.  Whatever each of them does leaves the others as   *)
(* they are, so that one is run at a time, and the others stand at their   *)
(* start.                                                                  *)
(***************************************************************************)
EXTENDS Door

CONSTANTS Tasks,         \* those that are run
          every, SILENT_FOR, RETRY_AFTER, LATE,  \* of the source
          RENEW_AT, RENEW_RETRY_AFTER, MaxVersions, MaxCrashes, MaxSets,  \* of the mirror
          Untold,
          s1, s2, p1, p2, q1, q2,  \* stations, places of theirs, and settings
          ESCAPE, Other, LengthOf, ModeS, MaxFrames, MaxConnections  \* of its stream

VARIABLES task,
          source, sourcePhase, link, quiet, due, wait, since, snapshots,
          upstream, place, kept, aside, mirrorPhase, usable, read, mirrorWait,
          told, crashes, sets, reset, best,
          now, listed, lists, asked, moved, reports, weather, pollPhase,
          pollSince, newest,
          wire, pending, frames, sent, written, taken, connections

Source == INSTANCE Follow WITH phase <- sourcePhase

(* The lengths of the bodies: a short and a long message, and a status as  *)
(* long as the latter.                                                     *)
Bodies == [t \in {"2", "3", "4"} |-> IF t = "2" THEN 1 ELSE 2]
Stream == INSTANCE Beast

Copy == INSTANCE Mirror WITH
  RETRY_AFTER <- RENEW_RETRY_AFTER, phase <- mirrorPhase, wait <- mirrorWait

(* The weather, of stations that move and change their setting; of one     *)
(* that answers with several reports at once; and of one that only leaves. *)
Told == INSTANCE Weather WITH
  Stations <- {s1, s2}, Places <- {p1, p2}, Settings <- {q1, q2},
  POLL_EVERY <- 2, ANSWER_WITHIN <- 1, STALE_S <- 2, Day <- 4,
  Observations <- {0, 2, 4, 6}, MaxNow <- 7, MaxLists <- 1, MaxLines <- 1,
  phase <- pollPhase, since <- pollSince
Newest == INSTANCE Weather WITH
  Stations <- {s1, s2}, Places <- {p1}, Settings <- {q1},
  POLL_EVERY <- 2, ANSWER_WITHIN <- 1, STALE_S <- 4, Day <- 4,
  Observations <- {0, 2, 4, 6}, MaxNow <- 9, MaxLists <- 2, MaxLines <- 2,
  phase <- pollPhase, since <- pollSince
Leaving == INSTANCE Weather WITH
  Stations <- {s1, s2}, Places <- {p1, p2}, Settings <- {q1},
  POLL_EVERY <- 2, ANSWER_WITHIN <- 1, STALE_S <- 2, Day <- 4,
  Observations <- {0, 2}, MaxNow <- 4, MaxLists <- 1, MaxLines <- 1,
  phase <- pollPhase, since <- pollSince

ASSUME ServerAssumption ==
  /\ Source!FollowAssumption /\ Stream!BeastAssumption /\ Copy!MirrorAssumption
  /\ Told!WeatherAssumption /\ Newest!WeatherAssumption /\ Leaving!WeatherAssumption

sourceVars == <<source, sourcePhase, link, quiet, due, wait, since, snapshots>>
streamVars == <<wire, pending, frames, sent, written, taken, connections>>
copyVars == <<upstream, place, kept, aside, mirrorPhase, usable, read, mirrorWait,
              told, crashes, sets, reset, best>>
weatherVars == <<now, listed, lists, asked, moved, reports, weather, pollPhase,
                 pollSince, newest>>
taskVars == <<task, sourceVars, streamVars, copyVars, weatherVars>>

TaskInit ==
  /\ DoorInit
  /\ task \in Tasks
  /\ task # "door" => only = None /\ clock = CHOOSE t \in Times : TRUE
  /\ Source!Init /\ (task = "source" \/ source = FALSE)
  /\ Stream!Init
  /\ Copy!Init /\ (task = "copy" \/ (kept = None /\ place = FALSE))
  /\ CASE task = "told" -> Told!Init
       [] task = "newest" -> Newest!Init
       [] task = "range" -> Leaving!Init
       [] OTHER -> Told!Init /\ listed = <<>>

(* A step of the task that is run. *)
Beside(t, A) == task = t /\ A /\ UNCHANGED <<task, vars, doorVars>>
OfSource(A) == Beside("source", A /\ UNCHANGED <<streamVars, copyVars, weatherVars>>)
OfStream(A) == Beside("stream", A /\ UNCHANGED <<sourceVars, copyVars, weatherVars>>)
OfCopy(A) == Beside("copy", A /\ UNCHANGED <<sourceVars, streamVars, weatherVars>>)
OfWeather(t, A) == Beside(t, A /\ UNCHANGED <<sourceVars, streamVars, copyVars>>)
OfDoor(A) == task = "door" /\ A /\ UNCHANGED taskVars

TaskNext ==
  \/ OfSource(Source!Next) \/ OfStream(Stream!Next) \/ OfCopy(Copy!Next)
  \/ OfWeather("told", Told!Next) \/ OfWeather("newest", Newest!Next)
  \/ OfWeather("range", Leaving!Next) \/ OfDoor(DoorNext)

TaskSpec == TaskInit /\ [][TaskNext]_<<taskVars, vars, doorVars>>

(* The fairness of each task, as its module has it. *)
FairSpec ==
  /\ TaskSpec
  /\ WF_taskVars(OfSource(Source!Tick)) /\ WF_taskVars(OfSource(Source!Retry))
  /\ WF_taskVars(OfSource(Source!Pass /\ sourcePhase \in {"hearing", "retrying"}))
  /\ SF_taskVars(OfSource(Source!Connect))
  /\ WF_taskVars(OfCopy(Copy!Start)) /\ WF_taskVars(OfCopy(Copy!Look))
  /\ WF_taskVars(OfCopy(Copy!Done)) /\ WF_taskVars(OfCopy(Copy!Wake))
  /\ WF_taskVars(OfCopy(Copy!Tick /\ mirrorPhase = "asleep"))
  /\ SF_taskVars(OfCopy(Copy!Obtain)) /\ SF_taskVars(OfCopy(Copy!Write))
  /\ SF_taskVars(OfCopy(Copy!Written)) /\ SF_taskVars(OfCopy(Copy!Rename))
  /\ WF_taskVars(OfWeather("range", Leaving!Ask))
  /\ WF_taskVars(OfWeather("range", Leaving!Answer \/ Leaving!Fail))
  /\ WF_taskVars(OfWeather("range", Leaving!Look))

-----------------------------------------------------------------------------
(* Every bound the tasks are to keep, they keep: the types of their state, *)
(* Follow.NoticesSilence, the bytes pending (Beast.PendingShort) and how   *)
(* long the mirror sleeps (Mirror.SleepsUntilDue).                         *)
Bounded ==
  /\ Source!TypeOK /\ Copy!TypeOK
  /\ task = "told" => Told!TypeOK
  /\ task = "newest" => Newest!TypeOK
  /\ task = "range" => Leaving!TypeOK
  /\ Source!NoticesSilence /\ Stream!PendingShort /\ Copy!SleepsUntilDue

(* Follow.Spaced: snapshots are a whole period apart. *)
Spaced == [][Source!SpacedStep]_sourceVars

(* Follow.HeardAgain: a source that comes back to stay is heard again. *)
HeardAgain == task = "source" => Source!HeardAgain

(* Beast.ExactlyWhole: the frames read are those sent, whole. *)
ExactlyWhole == Stream!ExactlyWhole

(* Mirror.ToldIsKept: what was told is kept, whatever stops. *)
ToldIsKept == Copy!ToldIsKept

(* Mirror.RenewalReaches: every version is told at last, or a newer one. *)
RenewalReaches == task = "copy" => Copy!RenewalReaches

(* Weather.ToldIsCurrent, NoneStale and NeverBack: the sessions are told   *)
(* the reports that are kept, no setting long after it is stale, and no    *)
(* older observation of a station after a newer.                           *)
WeatherTold ==
  /\ task = "told" => Told!ToldIsCurrent /\ Told!NoneStale
  /\ task = "newest" => Newest!NeverBack

(* Weather.LeavesAreTold: a station that left is told no longer. *)
LeavesAreTold == task = "range" => Leaving!LeavesAreTold
=============================================================================
