------------------------------- MODULE Placer -------------------------------
(***************************************************************************)
(* The data blocks' placer: scenes are sent one at a time to a worker that *)
(* answers with a direction for every block, while snapshots, drops and    *)
(* zooms ask for newer ones, and the operator drags blocks meanwhile.      *)
(*                                                                         *)
(* Where the placer puts a block is any direction here.                    *)
(***************************************************************************)
EXTENDS Integers, Sequences

CONSTANTS
  Hexes, Dirs, Nowhere,  \* the targets, the directions, and none yet (null)
  Null,                  \* no request, or a failed answer
  MaxAsks                \* bound on the scenes asked for

ASSUME AsksAssumption == MaxAsks \in Nat

VARIABLES
  ops,      \* what is set on the block of each target
  asked,    \* the scenes asked for so far, each the next number
  busy, waiting,  \* createPlacer
  pending,  \* workerPlacer.pending, the request it answers
  inbox,    \* messages on their way to the worker
  outbox,   \* and from it
  done,     \* history: the last scene placed, or failed
  dropped   \* history: the last scene asked for before the last drop of a block

vars == <<ops, asked, busy, waiting, pending, inbox, outbox, done, dropped>>
workerVars == <<busy, waiting, pending, inbox, outbox>>

OperatorState == [dir : Dirs \cup {Nowhere}, manual : BOOLEAN]
Fresh == [dir |-> Nowhere, manual |-> FALSE]
(* A scene: its number, and its blocks as they are when it is made. *)
Requests == UNION {[id : 1 .. MaxAsks, seen : [S -> OperatorState]] : S \in SUBSET Hexes}
Replies == UNION {[id : 1 .. MaxAsks, dirs : [S -> Dirs]] : S \in SUBSET Hexes}
Failures == [id : 1 .. MaxAsks, dirs : {Null}]

ASSUME NullAssumption == Nowhere \notin Dirs /\ Null \notin Requests

-----------------------------------------------------------------------------
Init ==
  /\ ops = [h \in Hexes |-> Fresh] /\ asked = 0
  /\ busy = FALSE /\ waiting = Null /\ pending = Null
  /\ inbox = <<>> /\ outbox = <<>>
  /\ done = 0 /\ dropped = [h \in Hexes |-> 0]

(* createPlacer's run, workerPlacer's send. *)
Run(request) ==
  /\ busy' = TRUE /\ pending' = request /\ inbox' = Append(inbox, request)

(* Mutated: the scene that waits goes first. *)
PlaceInTurn(request) ==
  IF busy
  THEN /\ waiting' = IF waiting = Null THEN request ELSE waiting
       /\ UNCHANGED <<busy, pending, inbox, outbox>>
  ELSE Run(request) /\ UNCHANGED <<waiting, outbox>>
(* Placer.place: a scene waits in place of any scene still waiting. *)
Place(request) ==
  IF busy
  THEN waiting' = request /\ UNCHANGED <<busy, pending, inbox, outbox>>
  ELSE Run(request) /\ UNCHANGED <<waiting, outbox>>

(* The scene of the blocks of S, as ops has them by now. *)
Scene(S, now) == [id |-> asked + 1, seen |-> [h \in S |-> now[h]]]

(* A snapshot came, or the scale or what is shown changed: some targets    *)
(* may be listed anew, and the blocks of those on the canvas are placed.   *)
Ask(S, anew) ==
  /\ asked < MaxAsks /\ asked' = asked + 1
  /\ ops' = [h \in Hexes |-> IF h \in anew THEN Fresh ELSE ops[h]]
  /\ Place(Scene(S, ops'))
  /\ dropped' = [h \in Hexes |-> IF h \in anew THEN 0 ELSE dropped[h]]
  /\ UNCHANGED done

(* The operator drops a block dragged, and the blocks are placed again. *)
Drop(hex, dir, S) ==
  /\ asked < MaxAsks /\ asked' = asked + 1
  /\ ops' = [ops EXCEPT ![hex] = [dir |-> dir, manual |-> TRUE]]
  /\ Place(Scene(S, ops'))
  /\ dropped' = [dropped EXCEPT ![hex] = asked]
  /\ UNCHANGED done

(* What the worker may answer: a direction for every block of the scene. *)
Answers(scene) == [DOMAIN scene.seen -> Dirs]

(* The worker places a scene, or fails to and reports the error. *)
Answer ==
  /\ inbox # <<>> /\ inbox' = Tail(inbox)
  /\ LET scene == Head(inbox) IN
     \E reply \in [id : {scene.id}, dirs : Answers(scene) \cup {Null}] :
       outbox' = Append(outbox, reply)
  /\ UNCHANGED <<ops, asked, busy, waiting, pending, done, dropped>>

(* Where an answer leaves a block: a block that has moved since, or is     *)
(* another's by now, stands.                                               *)
Moved(h, dirs, seen) ==
  IF ops[h] = seen[h] THEN dirs[h] ELSE ops[h].dir

(* applyPlacement: a block the operator placed is the placer's once it     *)
(* moves.                                                                  *)
Apply(dirs, seen) ==
  ops' = [h \in Hexes |->
            IF h \notin DOMAIN seen \/ Moved(h, dirs, seen) = ops[h].dir THEN ops[h]
            ELSE [dir |-> Moved(h, dirs, seen), manual |-> FALSE]]

(* Mutated: an answer is applied, a newer scene asked for or not. *)
OvertakenNever == FALSE
(* A newer scene came first. *)
Overtaken == waiting # Null

(* Mutated: what waits is left to wait for the next answer. *)
NextLater(request) ==
  /\ busy' = FALSE /\ pending' = Null /\ inbox' = inbox
(* What settling an answer sends next. *)
RunNext(request) ==
  IF request # Null THEN Run(request)
  ELSE /\ busy' = FALSE /\ pending' = Null /\ inbox' = inbox

(* A reply, or an error, reaches the scope: createPlacer's settle. *)
Settle ==
  /\ outbox # <<>> /\ outbox' = Tail(outbox)
  /\ LET reply == Head(outbox) IN
     IF Overtaken \/ reply.dirs = Null THEN ops' = ops
     ELSE Apply(reply.dirs, pending.seen)
  /\ waiting' = Null /\ RunNext(waiting)
  /\ done' = pending.id
  /\ UNCHANGED <<asked, dropped>>

Next ==
  \/ \E S, anew \in SUBSET Hexes : Ask(S, anew)
  \/ \E hex \in Hexes, dir \in Dirs, S \in SUBSET Hexes : Drop(hex, dir, S)
  \/ Answer \/ Settle

Spec == Init /\ [][Next]_vars

(* The worker takes its messages, and the scope its events, in turn. *)
FairSpec == Spec /\ WF_vars(Answer) /\ WF_vars(Settle)

-----------------------------------------------------------------------------
TypeOK ==
  /\ ops \in [Hexes -> OperatorState] /\ asked \in 0 .. MaxAsks /\ busy \in BOOLEAN
  /\ waiting \in Requests \cup {Null} /\ pending \in Requests \cup {Null}
  /\ inbox \in Seq(Requests) /\ outbox \in Seq(Replies \cup Failures)
  /\ done \in 0 .. MaxAsks /\ dropped \in [Hexes -> 0 .. MaxAsks]

(* While the placer is busy, one scene is with the worker or answered, and *)
(* it is the one whose promise waits: no promise is ever left unsettled.   *)
OneInFlight ==
  /\ busy <=> pending # Null
  /\ waiting # Null => busy
  /\ Len(inbox) + Len(outbox) = IF busy THEN 1 ELSE 0
  /\ inbox # <<>> => Head(inbox) = pending
  /\ outbox # <<>> => Head(outbox).id = pending.id

(* What waits, or else is in flight, is the newest scene asked for: the    *)
(* placer is never more than a scene behind.                               *)
NewestNext ==
  /\ waiting # Null => waiting.id = asked
  /\ busy /\ waiting = Null => pending.id = asked

(* Scenes are placed one at a time, and none but the newest next.          *)
InTurn == OneInFlight /\ NewestNext

(* An answer moves no block that the operator dropped since the scene it   *)
(* answers was made, even one back where it was then.                      *)
DropStands ==
  [][done' # done =>
       \A h \in Hexes : ops'[h] # ops[h] => pending.id > dropped[h]]_vars

(* The newest scene asked for is placed, or fails, in the end. *)
Keeps == \A n \in 1 .. MaxAsks : asked = n ~> done >= n
=============================================================================
