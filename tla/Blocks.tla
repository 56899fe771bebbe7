------------------------------- MODULE Blocks -------------------------------
(***************************************************************************)
(* The data blocks of the scope: where a block lies from its target at     *)
(* each bearing, how it slides from one to another as bearings are placed, *)
(* and how the operator drags it and lets it go.  Offsets are in pixels    *)
(* from the target, and moments in frames of a slide.                      *)
(***************************************************************************)
EXTENDS Integers, FiniteSets, FiniteSetsExt

CONSTANTS
  None,
  Hexes,
  Dirs,                  \* the bearings the placer may answer with
  Lines,                 \* the lines a block may have beyond its two
  Drops,                 \* where a block may be dragged to
  LEADER,                \* from its target to its block, along an axis
  DIAGONAL,              \* and along each axis where it is tilted
  DB_WIDTH, DB_HEIGHT, DB_LINE,
  MOVE_MS,               \* how many frames a slide takes
  MaxChanges             \* bounds what changes the bearings

BlocksAssumption ==
  /\ Dirs \subseteq 0 .. 7 /\ Lines \subseteq 0 .. 2
  /\ LEADER > DIAGONAL /\ DIAGONAL > 0 /\ DB_WIDTH > 0 /\ DB_LINE % 2 = 0 /\ DB_HEIGHT % 2 = 0
  /\ MOVE_MS \in Nat \ {0} /\ MaxChanges \in Nat

VARIABLES
  tracks,    \* what is known of each: whether it is drawn, its lines, and its ops
  sent,      \* None, or what the placer is asked of each, until it answers
  blocks,    \* drawnBlocks
  moves,     \* the slides under way
  framing,   \* whether a frame is asked for
  labelDrag, \* the block dragged, and where to
  grabbed,   \* blockDrag
  changes

vars == <<tracks, sent, blocks, moves, framing, labelDrag, grabbed, changes>>

-----------------------------------------------------------------------------
(* Where a block lies.  A bearing is 0 east, then clockwise on screen. *)
NE == 7
Step(dir) ==
  <<CASE dir \in {0, 1, 7} -> 1 [] dir \in {3, 4, 5} -> -1 [] OTHER -> 0,
    CASE dir \in {1, 2, 3} -> 1 [] dir \in {5, 6, 7} -> -1 [] OTHER -> 0>>
Sign(v) == IF v > 0 THEN 1 ELSE IF v < 0 THEN -1 ELSE 0
Clamp(v, lo, hi) == IF v < lo THEN lo ELSE IF v > hi THEN hi ELSE v

BlockDir(dir) == IF dir = None THEN NE ELSE dir
BlockHeight(lines) == DB_HEIGHT + lines * DB_LINE

(* blockOffset: its nearest point lies on the ray of its bearing. *)
BlockOffset(dir, lines) ==
  LET s == Step(dir)
      reach == IF s[1] = 0 \/ s[2] = 0 THEN LEADER ELSE DIAGONAL
      h == BlockHeight(lines)
  IN <<s[1] * reach - (IF s[1] < 0 THEN DB_WIDTH ELSE 0),
       s[2] * reach - (IF s[2] < 0 THEN h ELSE IF s[2] = 0 THEN h \div 2 ELSE 0)>>

(* leaderTip and leaderDir: the bearing its nearest point shows, and NE    *)
(* where the block covers its target.                                      *)
LeaderTip(o, lines) ==
  <<Clamp(0, o[1], o[1] + DB_WIDTH), Clamp(0, o[2], o[2] + BlockHeight(lines))>>
LeaderDir(o, lines) ==
  LET p == LeaderTip(o, lines)
      along == {d \in 0 .. 7 : Step(d) = <<Sign(p[1]), Sign(p[2])>>}
  IN IF along = {} THEN NE ELSE Min(along)

RestingOffset(t) == BlockOffset(BlockDir(t.dir), t.lines)

-----------------------------------------------------------------------------
(* Slides.  Fast first, then settling: one that has come d frames of n has *)
(* gone 1 - (1 - d/n)^3 of its way.                                        *)
Cube(n) == n * n * n
Moved(m) ==
  LET gone == Cube(MOVE_MS) - Cube(MOVE_MS - m.age)
      along(i) == m.from[i] + ((m.to[i] - m.from[i]) * gone) \div Cube(MOVE_MS)
  IN <<along(1), along(2)>>
(* Mutated: from where the slide was going. *)
RetargetFromEnd(current, drawn, to) ==
  [from |-> IF current = None THEN drawn ELSE current.to, to |-> to, age |-> 0]
Retarget(current, drawn, to) ==
  [from |-> IF current = None THEN drawn ELSE Moved(current), to |-> to, age |-> 0]
Moving(ms) == \E h \in Hexes : ms[h] # None

(* drawnOffset: with the drag, along its slide, else at its bearing. *)
DrawnOffset(h, ts, drag, ms) ==
  IF drag # None /\ drag.hex = h THEN drag.at
  ELSE IF ms[h] # None THEN Moved(ms[h]) ELSE RestingOffset(ts[h])

(* startMoves: of blocks drawn elsewhere than at, or on the way to, theirs. *)
StartMoves(ts, drag, ms, last) ==
  [h \in Hexes |->
     IF ts[h] = None \/ last[h] = None \/ (drag # None /\ drag.hex = h) THEN ms[h]
     ELSE LET heading == IF ms[h] = None THEN last[h] ELSE ms[h].to
          IN IF heading = RestingOffset(ts[h]) THEN ms[h]
             ELSE Retarget(ms[h], last[h], RestingOffset(ts[h]))]

(* The targets slot is built: it starts slides and keeps where blocks are. *)
Builds(ts, drag, ms, last) ==
  /\ moves' = StartMoves(ts, drag, ms, last)
  /\ framing' = Moving(moves')
  /\ blocks' = [h \in Hexes |-> IF ts[h] # None /\ ts[h].live
                                THEN DrawnOffset(h, ts, drag, moves') ELSE None]

(* settleMoves: what has run its course is dropped, and drawn at its end. *)
RunOut(m) == m # None /\ m.age >= MOVE_MS
Left(ms) == [h \in Hexes |-> IF RunOut(ms[h]) THEN None ELSE ms[h]]
Ended(ms, last) == [h \in Hexes |-> IF RunOut(ms[h]) THEN ms[h].to ELSE last[h]]

-----------------------------------------------------------------------------
(* A block the operator has moved since it was sent stands. *)
Sent(ts) ==
  [h \in {k \in Hexes : ts[k] # None} |->
     IF ts[h].live THEN [dir |-> ts[h].dir, manual |-> ts[h].manual] ELSE None]
AsSent(h) ==
  /\ tracks[h] # None /\ h \in DOMAIN sent
  /\ sent[h] = [dir |-> tracks[h].dir, manual |-> tracks[h].manual]

New(lines) == [live |-> TRUE, lines |-> lines, dir |-> None, manual |-> FALSE]
Init ==
  /\ \E l \in Lines : tracks = [h \in Hexes |-> New(l)]
  /\ sent = Sent(tracks)
  /\ blocks = [h \in Hexes |-> None] /\ moves = [h \in Hexes |-> None]
  /\ framing = FALSE
  /\ labelDrag = None /\ grabbed = None
  /\ changes = 0

Changes == changes < MaxChanges /\ changes' = changes + 1

(* A snapshot lists the target or not, with its place or not, and with     *)
(* other lines; the placer is asked, and nothing is drawn before it says.  *)
Snapshot(h) ==
  /\ Changes
  /\ \E t \in {None} \cup {[(IF tracks[h] = None THEN New(l) ELSE tracks[h])
                              EXCEPT !.live = v, !.lines = l] : v \in BOOLEAN, l \in Lines} :
       t # tracks[h] /\ tracks' = [tracks EXCEPT ![h] = t]
  /\ sent' = Sent(tracks')
  /\ UNCHANGED <<blocks, moves, framing, labelDrag, grabbed>>

(* The placer answers: its bearings are put on, and the blocks are drawn. *)
Placed(h, d) ==
  /\ sent # None /\ sent' = None
  /\ tracks' = IF AsSent(h) /\ d # tracks[h].dir
               THEN [tracks EXCEPT ![h].dir = d, ![h].manual = FALSE] ELSE tracks
  /\ Builds(tracks', labelDrag, moves, blocks)
  /\ UNCHANGED <<labelDrag, grabbed, changes>>

(* Drawn again for another reason, as when a setting or the selection changes. *)
Redraw ==
  /\ Changes
  /\ Builds(tracks, labelDrag, moves, blocks)
  /\ UNCHANGED <<tracks, sent, labelDrag, grabbed>>

(* Time passes to the next frame that is asked for, which draws. *)
Tick ==
  /\ framing
  /\ \E h \in Hexes : moves[h] # None /\ moves[h].age < MOVE_MS
  /\ moves' = [h \in Hexes |->
                 IF moves[h] = None THEN None
                 ELSE [moves[h] EXCEPT !.age = IF @ < MOVE_MS THEN @ + 1 ELSE @]]
  /\ UNCHANGED <<tracks, sent, blocks, framing, labelDrag, grabbed, changes>>
Frame ==
  /\ framing
  /\ Builds(tracks, labelDrag, Left(moves), Ended(moves, blocks))
  /\ UNCHANGED <<tracks, sent, labelDrag, grabbed, changes>>

-----------------------------------------------------------------------------
(* A block under the pointer is where it was last drawn. *)
Grab(h) ==
  /\ grabbed = None /\ Changes
  /\ tracks[h] # None /\ tracks[h].live
  /\ grabbed' = [hex |-> h, moved |-> FALSE]
  /\ UNCHANGED <<tracks, sent, blocks, moves, framing, labelDrag>>
(* Past the threshold it follows the pointer, while its target has a place. *)
DragTo(o) ==
  /\ grabbed # None /\ labelDrag # [hex |-> grabbed.hex, at |-> o]
  /\ grabbed' = [grabbed EXCEPT !.moved = TRUE]
  /\ IF tracks[grabbed.hex] # None /\ tracks[grabbed.hex].live
     THEN /\ labelDrag' = [hex |-> grabbed.hex, at |-> o]
          /\ Builds(tracks, labelDrag', moves, blocks)
     ELSE UNCHANGED <<labelDrag, moves, framing, blocks>>
  /\ UNCHANGED <<tracks, sent, changes>>
(* Let go, it is the operator's at the bearing its leader shows, as the    *)
(* placer is told, and slides there.                                       *)
Release(o) ==
  /\ grabbed # None /\ grabbed' = None
  /\ labelDrag # None => labelDrag.at = o
  /\ LET h == grabbed.hex
         drops == grabbed.moved /\ tracks[h] # None /\ tracks[h].live
     IN /\ tracks' = IF drops
                     THEN [tracks EXCEPT ![h].dir = LeaderDir(o, tracks[h].lines),
                                         ![h].manual = TRUE]
                     ELSE tracks
        /\ sent' = IF drops THEN Sent(tracks') ELSE sent
  /\ labelDrag' = None
  /\ IF labelDrag # None THEN Builds(tracks', None, moves, blocks)
     ELSE UNCHANGED <<moves, framing, blocks>>
  /\ UNCHANGED changes
(* A zoom takes over, and the block goes back. *)
DropGrab ==
  /\ grabbed # None /\ grabbed' = None
  /\ labelDrag' = None
  /\ IF labelDrag # None THEN Builds(tracks, None, moves, blocks)
     ELSE UNCHANGED <<moves, framing, blocks>>
  /\ UNCHANGED <<tracks, sent, changes>>

Next ==
  \/ \E h \in Hexes : Snapshot(h) \/ Grab(h) \/ \E d \in Dirs : Placed(h, d)
  \/ Redraw \/ Tick \/ Frame
  \/ \E o \in Drops : DragTo(o) \/ Release(o)
  \/ DropGrab

-----------------------------------------------------------------------------
(* A block at a bearing shows that bearing by its leader, so one dropped   *)
(* where it rests stays, and it lies clear of its target on every side     *)
(* (datablock.ts:68); and a slide under way always has a frame to come.    *)
BlocksTrue ==
  /\ changes = 0 => \A d \in 0 .. 7, l \in 0 .. 2 :
       LET o == BlockOffset(d, l)
           tip == LeaderTip(o, l)
       IN /\ LeaderDir(o, l) = d
          /\ \A i \in {1, 2} : tip[i] \in {-LEADER, -DIAGONAL, 0, DIAGONAL, LEADER}
          /\ tip[1] * tip[2] # 0 => tip[1] \in {tip[2], -tip[2]}
  /\ Moving(moves) => framing

(* A block is drawn on from where it was last drawn (scene.ts:194): there, *)
(* along its slide, or at its end; and one let go of slides from where it  *)
(* was held, unless it was caught in a slide that is under way yet.        *)
NeverLeaps ==
  [][\A h \in Hexes :
       blocks[h] # None /\ blocks'[h] # None =>
         \/ labelDrag' # None /\ labelDrag'.hex = h
         \/ blocks'[h] = blocks[h]
         \/ moves[h] # None /\ blocks'[h] = Moved(moves[h])]_blocks

(* Every block comes to rest at its bearing, or under the pointer. *)
Rest == <>[](\A h \in Hexes :
               blocks[h] # None => \/ grabbed # None
                                   \/ tracks[h] # None /\ blocks[h] = RestingOffset(tracks[h]))
=============================================================================
