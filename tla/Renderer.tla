------------------------------ MODULE Renderer ------------------------------
(***************************************************************************)
(* The renderer of the scope: on a canvas handed to a worker when the      *)
(* worker has a GPU, else on the main thread.  The scene changes part by   *)
(* part, a view, a glyph atlas and the slots, before the renderer is ready *)
(* too; it draws a frame per animation frame at most.  The device may be   *)
(* lost at any time, and the page may let go of the renderer.              *)
(*                                                                         *)
(* What a part holds is how often it was set, 0 before it ever was.        *)
(***************************************************************************)
EXTENDS Integers, Sequences, FiniteSets, SequencesExt

CONSTANTS
  Slots,                 \* the slots, by name
  MaxChanges             \* bound on the changes to the scene

ASSUME RendererAssumption ==
  /\ MaxChanges \in Nat
  /\ IsFiniteSet(Slots) /\ {"view", "atlas", "draw"} \cap Slots = {}

Parts == {"view", "atlas"} \cup Slots
Scenes == [Parts -> Nat]
Unset == [p \in Parts |-> 0]
(* The page has a view from the start. *)
First == [Unset EXCEPT !["view"] = 1]

VARIABLES
  phase,     \* "probe", "worker", "main" while one is made ready; "up" or "failed"
  sink,      \* whichever renderer takes calls: "worker", "main", or "none"
  retained,  \* what is kept to be replayed
  frame,     \* the animation frame: "none", "due", or "cancelled" for good
  toWorker, fromWorker,
  gpu,       \* the parts the GPU holds
  device,    \* whether the GPU has its device, on whichever thread
  lost,      \* whether the device was lost
  destroyed,
  screen,    \* the scene last drawn, as far as it was set
  scene,     \* history: the scene as last set
  changes

rendererVars == <<phase, sink, retained, frame, toWorker, fromWorker, gpu, device, lost,
          destroyed, screen, scene, changes>>

-----------------------------------------------------------------------------
RendererInit ==
  /\ phase = "probe"
  /\ sink = "none"
  /\ retained = First
  /\ frame = "none"
  /\ toWorker = <<>> /\ fromWorker = <<>>
  /\ gpu = Unset
  /\ device = FALSE /\ lost = FALSE
  /\ destroyed = FALSE
  /\ screen = Unset
  /\ scene = First
  /\ changes = 0

Part(p, version) == [part |-> p, version |-> version]
Draw == [part |-> "draw", version |-> 0]

(* Mutated: the slots are kept no longer, and not replayed either. *)
ReplayView(kept) == <<Part("view", kept["view"])>>
(* What is kept, as calls: an atlas when there is one, the slots kept, and *)
(* the view.                                                               *)
Replay(kept) ==
  SetToSeq({Part(p, kept[p]) : p \in {q \in Parts \ {"view"} : kept[q] > 0}})
    \o <<Part("view", kept["view"])>>

(* The calls made on a GPU that holds these: the last of a part stands. *)
After(held, calls) ==
  [p \in Parts |->
     LET of == {i \in DOMAIN calls : calls[i].part = p}
     IN IF of = {} THEN held[p] ELSE calls[Max(of)].version]

(* Calls posted to the worker, which once it is ended takes none.          *)
Post(calls) == toWorker' = IF destroyed THEN toWorker ELSE toWorker \o calls

(* Mutated: no frame is asked for. *)
FrameAfter(kind) == frame
(* requestFrame: one is due, unless one was asked for already or nothing   *)
(* would draw.                                                             *)
FrameDue(kind) == IF frame = "none" /\ kind # "none" THEN "due" ELSE frame

(* open: a renderer takes calls from now on, what was kept first, and a    *)
(* frame is due.  The slots are kept no longer.                            *)
Open(kind, held) ==
  /\ sink' = kind
  /\ phase' = "up"
  /\ IF kind = "main"
     THEN gpu' = After(held, Replay(retained)) /\ UNCHANGED toWorker
     ELSE Post(Replay(retained)) /\ UNCHANGED gpu
  /\ retained' = [p \in Parts |-> IF p \in Slots THEN 0 ELSE retained[p]]
  /\ frame' = FrameDue(kind)

-----------------------------------------------------------------------------
(* The start.                                                              *)

(* The worker says that it has a GPU, and the canvas goes to it with the   *)
(* view that there was at the start.                                       *)
StartWorker ==
  /\ phase = "probe"
  /\ ~destroyed
  /\ phase' = "worker"
  /\ UNCHANGED <<sink, retained, frame, toWorker, fromWorker, gpu, device, lost,
                 destroyed, screen, scene, changes>>

(* The worker has none, does not say in time, or the page let go.          *)
StartMain ==
  /\ phase = "probe"
  /\ phase' = IF destroyed THEN "failed" ELSE "main"
  /\ UNCHANGED <<sink, retained, frame, toWorker, fromWorker, gpu, device, lost,
                 destroyed, screen, scene, changes>>

(* The device is there, with the first view; the worker says it is ready.  *)
WorkerReady ==
  /\ phase = "worker" /\ ~device /\ ~destroyed
  /\ device' = TRUE
  /\ gpu' = First
  /\ fromWorker' = Append(fromWorker, "ready")
  /\ UNCHANGED <<phase, sink, retained, frame, toWorker, lost, destroyed, screen,
                 scene, changes>>

(* The same on the main thread, which opens at once, even when the page    *)
(* let go meanwhile.                                                       *)
MainReady ==
  /\ phase = "main"
  /\ device' = TRUE
  /\ Open("main", First)
  /\ UNCHANGED <<fromWorker, lost, destroyed, screen, scene, changes>>

(* There is no device after all. *)
Fails ==
  /\ phase \in {"worker", "main"} /\ ~device
  /\ phase' = "failed"
  /\ UNCHANGED <<sink, retained, frame, toWorker, fromWorker, gpu, device, lost,
                 destroyed, screen, scene, changes>>

(* The main thread hears the worker: that it is ready... *)
HearReady ==
  /\ ~destroyed
  /\ fromWorker # <<>> /\ Head(fromWorker) = "ready"
  /\ fromWorker' = Tail(fromWorker)
  /\ Open("worker", gpu)
  /\ UNCHANGED <<device, lost, destroyed, screen, scene, changes>>

(* ...or that its device is lost: the worker is ended. *)
HearLost ==
  /\ ~destroyed
  /\ fromWorker # <<>> /\ Head(fromWorker) = "lost"
  /\ sink' = "none"
  /\ toWorker' = <<>> /\ fromWorker' = <<>>
  /\ UNCHANGED <<phase, retained, frame, gpu, device, lost, destroyed, screen,
                 scene, changes>>

-----------------------------------------------------------------------------
(* The scene.                                                              *)

(* setView, setAtlas and setSlot. *)
Set(p) ==
  /\ changes < MaxChanges
  /\ changes' = changes + 1
  /\ LET version == scene[p] + 1 IN
     /\ scene' = [scene EXCEPT ![p] = version]
     /\ retained' = IF sink # "none" /\ p \in Slots THEN retained
                    ELSE [retained EXCEPT ![p] = version]
     /\ CASE sink = "worker" -> Post(<<Part(p, version)>>) /\ UNCHANGED gpu
          [] sink = "main" -> gpu' = [gpu EXCEPT ![p] = version] /\ UNCHANGED toWorker
          [] OTHER -> UNCHANGED <<gpu, toWorker>>
  /\ frame' = FrameDue(sink)
  /\ UNCHANGED <<phase, sink, fromWorker, device, lost, destroyed, screen>>

(* The animation frame. *)
Frame ==
  /\ frame = "due"
  /\ frame' = "none"
  /\ CASE sink = "worker" -> Post(<<Draw>>) /\ UNCHANGED screen
       [] sink = "main" -> screen' = (IF lost THEN screen ELSE gpu)
                             /\ UNCHANGED toWorker
       [] OTHER -> UNCHANGED <<toWorker, screen>>
  /\ UNCHANGED <<phase, sink, retained, fromWorker, gpu, device, lost, destroyed,
                 scene, changes>>

(* The worker takes a call. *)
WorkerTakes ==
  /\ toWorker # <<>> /\ device
  /\ LET call == Head(toWorker) IN
     IF call = Draw
     THEN screen' = (IF lost THEN screen ELSE gpu) /\ UNCHANGED gpu
     ELSE gpu' = After(gpu, <<call>>) /\ UNCHANGED screen
  /\ toWorker' = Tail(toWorker)
  /\ UNCHANGED <<phase, sink, retained, frame, fromWorker, device, lost, destroyed,
                 scene, changes>>

(* The device is lost. *)
Lose ==
  /\ device /\ ~lost
  /\ lost' = TRUE
  /\ fromWorker' = IF ~destroyed /\ (phase = "worker" \/ sink = "worker")
                   THEN Append(fromWorker, "lost") ELSE fromWorker
  /\ UNCHANGED <<phase, sink, retained, frame, toWorker, gpu, device, destroyed,
                 screen, scene, changes>>

(* The page lets go: the frame due is cancelled, and none asked for again; *)
(* the worker is ended, with what it was told and had to say; the device   *)
(* of the main thread is let go when it has one.                           *)
Destroy ==
  /\ ~destroyed
  /\ destroyed' = TRUE
  /\ frame' = IF frame = "due" THEN "cancelled" ELSE frame
  /\ IF phase = "worker" \/ sink = "worker"
     THEN toWorker' = <<>> /\ fromWorker' = <<>> /\ UNCHANGED <<lost, device>>
     ELSE lost' = (lost \/ device) /\ UNCHANGED <<device, toWorker, fromWorker>>
  /\ UNCHANGED <<phase, sink, retained, gpu, screen, scene, changes>>

RendererNext ==
  \/ StartWorker \/ StartMain \/ WorkerReady \/ MainReady \/ Fails
  \/ HearReady \/ HearLost
  \/ \E p \in Parts : Set(p)
  \/ Frame \/ WorkerTakes \/ Lose \/ Destroy

RendererSpec == RendererInit /\ [][RendererNext]_rendererVars

-----------------------------------------------------------------------------
RendererTypeOK ==
  /\ phase \in {"probe", "worker", "main", "up", "failed"}
  /\ sink \in {"worker", "main", "none"}
  /\ retained \in Scenes /\ gpu \in Scenes /\ screen \in Scenes /\ scene \in Scenes
  /\ toWorker \in Seq([part : Parts, version : Nat] \cup {Draw})
  /\ fromWorker \in Seq({"ready", "lost"})
  /\ device \in BOOLEAN /\ lost \in BOOLEAN /\ destroyed \in BOOLEAN
  /\ frame \in {"none", "due", "cancelled"}
  /\ changes \in 0 .. MaxChanges

(* Until the renderer is ready what is kept is the scene, and from then on *)
(* what the GPU has comes to be the scene once it took the calls on the    *)
(* way.                                                                    *)
NothingLost ==
  ~destroyed /\ ~lost =>
    IF sink = "none" THEN retained = scene ELSE After(gpu, toWorker) = scene

(* What is on the screen is the scene whenever no more is due: a frame, or *)
(* a call to draw that comes after every change on the way.                *)
DrawnOrDue ==
  sink # "none" /\ ~destroyed /\ ~lost =>
    \/ frame = "due"
    \/ screen = scene
    \/ toWorker # <<>> /\ Last(toWorker) = Draw

(* No change to the scene is lost or overtaken, in whichever thread it is  *)
(* drawn and however late that one is up, and what is not on the screen is *)
(* due there.                                                              *)
Carried == RendererTypeOK /\ NothingLost /\ DrawnOrDue

(* The scene as it was set last is drawn at last, once a renderer is up,   *)
(* as long as its device is there and the page keeps it.                   *)
SceneIsDrawn ==
  sink # "none" /\ changes = MaxChanges ~> screen = scene \/ lost \/ destroyed

(* Whichever renderer takes calls takes none once its device is lost and   *)
(* every message was heard.                                                *)
ClosedOnceLost == lost /\ fromWorker = <<>> => sink = "none" \/ destroyed
=============================================================================
