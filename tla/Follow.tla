------------------------------- MODULE Follow -------------------------------
(***************************************************************************)
(* The following of a Beast source: connections to it are made, heard, and *)
(* lost, by an end or an error or, when the source is gone without a word, *)
(* by its silence; and a snapshot is published every period that a         *)
(* connection is heard.  Times count steps of the monotonic clock.         *)
(***************************************************************************)
EXTENDS Integers

CONSTANTS
  every, SILENT_FOR, RETRY_AFTER,
  LATE                   \* how late at most the task gets to a tick

(* What the constants are taken to be, assumed where they are given values. *)
FollowAssumption ==
  /\ {every, SILENT_FOR, RETRY_AFTER} \subseteq Nat \ {0}
  /\ LATE \in Nat

VARIABLES
  source,    \* whether the source takes connections and speaks over them
  phase,     \* "connecting", "hearing", "retrying", or "over"
  link,      \* whether the source is still at the other end of the connection
  quiet,     \* how long ago the connection was last heard
  due,       \* how long until the tick
  wait,      \* how long until the next connection is tried
  since,     \* history: how long ago a snapshot was published
  snapshots  \* history: the snapshots published, odd or even

vars == <<source, phase, link, quiet, due, wait, since, snapshots>>

(* As long as matters. *)
MaxQuiet == SILENT_FOR + every + LATE

-----------------------------------------------------------------------------
Init ==
  /\ source \in BOOLEAN
  /\ phase = "connecting" /\ link = FALSE
  /\ quiet = 0 /\ due = 0 /\ wait = 0
  /\ since = every /\ snapshots = 0

(* A connection is made, and heard from then on. *)
Connect ==
  /\ phase = "connecting"
  /\ source
  /\ phase' = "hearing" /\ link' = TRUE
  /\ quiet' = 0 /\ due' = every
  /\ UNCHANGED <<source, wait, since, snapshots>>

(* The connection is lost, and another is tried in a while. *)
Lose == phase' = "retrying" /\ link' = FALSE /\ wait' = RETRY_AFTER

Refused ==
  /\ phase = "connecting"
  /\ Lose
  /\ UNCHANGED <<source, quiet, due, since, snapshots>>

(* Bytes come, from the source or what was between. *)
Hear ==
  /\ phase = "hearing" /\ link
  /\ quiet' = 0
  /\ UNCHANGED <<source, phase, link, due, wait, since, snapshots>>

(* The connection ends, or cannot be read. *)
End ==
  /\ phase = "hearing"
  /\ Lose
  /\ UNCHANGED <<source, quiet, due, since, snapshots>>

(* Mutated: the periods missed are made up for. *)
NextBurst == due + every
(* The tick after one that is gotten to now: a whole period later. *)
NextTick == every

Publish ==
  /\ due' = NextTick
  /\ since' = 0 /\ snapshots' = 1 - snapshots

(* Mutated: a source is there as long as its connection is. *)
Attentive == FALSE
(* Whether the source is no longer there. *)
Silent == quiet >= SILENT_FOR

(* The tick: the silence of a source is noticed, or else what was heard    *)
(* published.                                                              *)
Tick ==
  /\ phase = "hearing" /\ due <= 0
  /\ IF Silent
     THEN Lose /\ UNCHANGED <<due, since, snapshots>>
     ELSE Publish /\ UNCHANGED <<phase, link, wait>>
  /\ UNCHANGED <<source, quiet>>

Retry ==
  /\ phase = "retrying" /\ wait = 0
  /\ phase' = "connecting"
  /\ UNCHANGED <<source, link, quiet, due, wait, since, snapshots>>

(* Nobody listens to the feed any longer. *)
Close ==
  /\ phase # "over"
  /\ phase' = "over" /\ link' = FALSE
  /\ UNCHANGED <<source, quiet, due, wait, since, snapshots>>

-----------------------------------------------------------------------------
(* The source goes, with its connection or leaving it to hang, or returns. *)
Go ==
  /\ source
  /\ source' = FALSE /\ link' = FALSE
  /\ UNCHANGED <<phase, quiet, due, wait, since, snapshots>>
Return ==
  /\ ~source
  /\ source' = TRUE
  /\ UNCHANGED <<phase, link, quiet, due, wait, since, snapshots>>

AtMost(n, most) == IF n > most THEN most ELSE n

(* Time passes, until the task must get to what is due. *)
Pass ==
  /\ phase = "hearing" => due > -LATE
  /\ phase = "retrying" => wait > 0
  /\ phase # "over"
  /\ IF phase = "hearing"
     THEN due' = due - 1 /\ quiet' = AtMost(quiet + 1, MaxQuiet)
     ELSE UNCHANGED <<due, quiet>>
  /\ wait' = IF phase = "retrying" THEN wait - 1 ELSE wait
  /\ since' = AtMost(since + 1, every)
  /\ UNCHANGED <<source, phase, link, snapshots>>

Next ==
  \/ Connect \/ Refused \/ Hear \/ End \/ Tick \/ Retry \/ Close
  \/ Go \/ Return \/ Pass

Spec == Init /\ [][Next]_vars

(* The task goes on, and so does time; a source that is there is reached   *)
(* when it is tried often enough.                                          *)
FairSpec ==
  /\ Spec
  /\ WF_vars(Tick) /\ WF_vars(Retry)
  /\ WF_vars(Pass /\ phase \in {"hearing", "retrying"})
  /\ SF_vars(Connect)

-----------------------------------------------------------------------------
TypeOK ==
  /\ source \in BOOLEAN /\ link \in BOOLEAN
  /\ phase \in {"connecting", "hearing", "retrying", "over"}
  /\ quiet \in 0 .. MaxQuiet
  /\ due \in -LATE .. every
  /\ wait \in 0 .. RETRY_AFTER
  /\ since \in 0 .. every
  /\ snapshots \in {0, 1}

(* A connection that says nothing is given up within a period of the       *)
(* silence that tells, and the time the task may take to get to the tick.  *)
NoticesSilence == phase = "hearing" => quiet < SILENT_FOR + every + LATE

(* Snapshots are a whole period apart however late the task was, and over  *)
(* the loss of a connection too, so that a trail never has two samples of  *)
(* the same moment and the pace the scope expects is never exceeded.       *)
SpacedStep == snapshots' # snapshots => since >= every
Spaced == [][SpacedStep]_vars

(* A source that comes back to stay is heard and published again and       *)
(* again, even when it went without a word and its connection hangs,       *)
(* unless its connections keep ending or nobody listens any longer.        *)
HeardAgain ==
  /\ <>[](source /\ phase # "over")
  /\ <>[][phase = "hearing" /\ phase' = "retrying" => Silent]_vars
  => /\ []<>link
     /\ []<><<snapshots' # snapshots>>_vars

=============================================================================
