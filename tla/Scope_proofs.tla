---------------------------- MODULE Scope_proofs ----------------------------
(***************************************************************************)
(* What is done on the canvas and to the lanes, by fingers and the mouse,  *)
(* for every value of the constants; and what MapSets proves of the map    *)
(* sets, of the page as it is run.                                         *)
(***************************************************************************)
EXTENDS MCScope, SequenceTheorems, FiniteSetTheorems, TLAPS

-----------------------------------------------------------------------------
(* The gestures: of any number of fingers, and of a mouse.                 *)

(* The module counts with operators of its own, which are the usual ones. *)
LEMMA CountsAlike ==
  ASSUME NEW S
  PROVE  (G!IsFiniteSet(S) <=> IsFiniteSet(S)) /\ G!Cardinality(S) = Cardinality(S)
<1>1. G!IsFiniteSet(S) <=> IsFiniteSet(S)
  BY DEF G!IsFiniteSet, IsFiniteSet
<1>2. G!Cardinality(S) = Cardinality(S)
  BY DEF G!Cardinality, Cardinality
<1>3. QED
  BY <1>1, <1>2

(* Something is grabbed. *)
Holds(s) == \E k \in G!Kinds : G!Held(s, k)

(* What is asked of the operator is what is pending. *)
AskedIn(s) ==
  /\ s.mode = "none" <=> s.pending = "none"
  /\ s.mode = "A" <=> s.pending = "a"

(* A block is drawn as if dragged only while it is held; and a line is to  *)
(* be released only while it is dragged, by pointers used one at a time.   *)
Asked ==
  /\ AskedIn(scope)
  /\ scope.label => G!Held(scope, "block")
  /\ scope.mode = "release" => G!Moved(scope, "rbl") \/ mixed \/ chorded

(* What the recognizer knows of the fingers: two or more pinch; one that   *)
(* may zoom, tap or be long is there, and alone.                           *)
Fingering ==
  /\ touch.pinch <=> G!Cardinality(fingers) > 1
  /\ touch.zoom # None => fingers = {touch.zoom.id}
  /\ touch.tapping # None => fingers = {touch.tapping.id} /\ touch.zoom = None
  /\ touch.timer # None => touch.tapping # None
  /\ touch.doubleTap # None => touch.doubleTap \in fingers
  /\ scope.zoomBase => touch.pinch \/ G!Zooming

(* What the recognizer knows of the buttons, which are down one at a time. *)
Pressing ==
  ~chorded =>
    /\ buttons # G!Buttons
    /\ mouse.pressing => buttons = {"left"} /\ ~asks
    /\ mouse.right # None <=> buttons = {"right"}
    /\ scope.range => mouse.right # None

(* Who holds what is grabbed: the left button, or fingers that neither     *)
(* pinch nor zoom, and so one.                                             *)
Grabbed ==
  Holds(scope) => mouse.pressing \/ (fingers # {} /\ ~touch.pinch /\ touch.zoom = None)

(* While no pointer was mixed with another, fingers and mouse take turns. *)
Alone == ~mixed => fingers = {} \/ (buttons = {} /\ ~asks)

(* What was done is one thing: OneOutcome, without the counting. *)
OneComesOf(did) ==
  /\ "tap" \in did => did = {"tap"}
  /\ "menu" \in did => did \subseteq {"menu", "zoom"}
  /\ \A j, k \in did \cap G!Kinds : j = k

(* What was done so far, by what is held, pressed, and yet to be a tap:    *)
(* one that may tap has done and moved nothing, and one thing is held.     *)
Doing ==
  ~chorded /\ ~mixed =>
    /\ OneComesOf(scope.did)
    /\ \A j, k \in G!Kinds : G!Held(scope, j) /\ G!Held(scope, k) => j = k
    /\ fingers # {} \/ buttons # {} => scope.did \subseteq {"pan", "zoom", "menu", "range"}
    /\ Holds(scope) =>
         /\ "menu" \notin scope.did
         /\ "pan" \in scope.did => G!Moved(scope, "pan")
    /\ mouse.pressing =>
         scope.did \subseteq {"pan"} /\ ("pan" \in scope.did => G!Moved(scope, "pan"))
    /\ touch.tapping # None =>
         /\ scope.did = {}
         /\ \A k \in G!Kinds : G!Held(scope, k) =>
              ~scope.grab[k].moved /\ scope.grab[k].from = touch.tapping.at
    /\ mouse.right # None /\ ~mouse.right.started => scope.did = {}
    /\ asks /\ mouse.right # None => ~mouse.right.started
    /\ asks /\ ~mouse.quiet /\ mouse.right = None => scope.did \subseteq {"menu"}

Steady == G!TypeOK /\ Asked /\ Fingering /\ Pressing /\ Grabbed /\ Alone /\ Doing

-----------------------------------------------------------------------------
(* What the actions do to a scope.                                         *)

LEMMA HeldIs ==
  ASSUME G!GesturesAssumption, NEW s \in G!Scopes, NEW k \in G!Kinds
  PROVE  G!Held(s, k) <=> s.grab[k] \in G!Grabs
BY DEF G!GesturesAssumption, G!Scopes, G!Held

LEMMA GrabDoes ==
  ASSUME G!GesturesAssumption, NEW s \in G!Scopes, NEW p \in G!Places, NEW hovers \in BOOLEAN
  PROVE  LET t == G!Grab(s, p, hovers) IN
         /\ t \in G!Scopes
         /\ t.pending = s.pending /\ t.mode = s.mode /\ t.label = s.label
         /\ t.zoomBase = s.zoomBase /\ t.range = s.range /\ t.did = s.did
         /\ \E kind \in G!Kinds :
              /\ G!Held(t, kind) /\ t.grab[kind].from = p /\ ~t.grab[kind].moved
              /\ \A k \in G!Kinds \ {kind} : t.grab[k] = s.grab[k]
<1> DEFINE kind == IF G!StartsRbl(s, p) THEN "rbl"
                   ELSE IF p = "block" /\ there THEN "block" ELSE "pan"
           g == [from |-> p, moved |-> FALSE, hovers |-> hovers]
           t == G!Grab(s, p, hovers)
<1>1. kind \in G!Kinds
  BY DEF G!Kinds
<1>2. g \in G!Grabs /\ g # None
  <2>1. g \in G!Grabs
    BY DEF G!Grabs
  <2>2. QED
    BY <2>1 DEF G!GesturesAssumption
<1> HIDE DEF kind, g
<1>3. t = [s EXCEPT !.grab[kind] = g]
  BY DEF G!Grab, kind, g
<1> HIDE DEF t
<1>4. t \in G!Scopes
  BY <1>1, <1>2, <1>3 DEF G!Scopes
<1>5. /\ t.pending = s.pending /\ t.mode = s.mode /\ t.label = s.label
      /\ t.zoomBase = s.zoomBase /\ t.range = s.range /\ t.did = s.did
      /\ t.grab[kind] = g /\ \A k \in G!Kinds \ {kind} : t.grab[k] = s.grab[k]
  BY <1>1, <1>3 DEF G!Scopes
<1>6. g.from = p /\ ~g.moved
  BY DEF g
<1>7. G!Held(t, kind) /\ t.grab[kind].from = p /\ ~t.grab[kind].moved
  BY <1>2, <1>5, <1>6 DEF G!Held
<1>8. \E k \in G!Kinds :
        /\ G!Held(t, k) /\ t.grab[k].from = p /\ ~t.grab[k].moved
        /\ \A j \in G!Kinds \ {k} : t.grab[j] = s.grab[j]
  BY <1>1, <1>5, <1>7
<1>9. QED
  BY <1>4, <1>5, <1>8 DEF t

LEMMA DragDoes ==
  ASSUME G!GesturesAssumption, NEW s \in G!Scopes, NEW p \in G!Places
  PROVE  LET t == G!DragTo(s, p) IN
         /\ t \in G!Scopes
         /\ t.zoomBase = s.zoomBase /\ t.range = s.range
         /\ \A k \in G!Kinds :
              /\ G!Held(t, k) <=> G!Held(s, k)
              /\ G!Moved(s, k) => G!Moved(t, k)
              /\ G!Held(s, k) => t.grab[k].from = s.grab[k].from
              /\ G!Moved(t, k) => G!Moved(s, k) \/ s.grab[k].from # p
         /\ \/ t.pending = s.pending /\ t.mode = s.mode
            \/ t.pending = "b" /\ t.mode = "release" /\ G!Moved(t, "rbl")
         /\ t.label => s.label \/ G!Held(s, "block")
         /\ t.did \subseteq s.did \cup {"pan"}
         /\ "pan" \in t.did => "pan" \in s.did \/ G!Moved(t, "pan")
<1> DEFINE moving == {k \in G!Kinds : G!Held(s, k) /\ (s.grab[k].moved \/ s.grab[k].from # p)}
           starts == "rbl" \in moving /\ ~G!Moved(s, "rbl")
           grab == [k \in G!Kinds |->
                     IF k \in moving THEN [s.grab[k] EXCEPT !.moved = TRUE] ELSE s.grab[k]]
           t == G!DragTo(s, p)
<1>1. /\ s.grab \in [G!Kinds -> G!Grabs \cup {None}] /\ s.did \subseteq G!Outcomes
      /\ s.pending \in {"none", "a", "b"} /\ s.mode \in {"none", "A", "B", "release"}
      /\ s.pointer \in BOOLEAN /\ s.label \in BOOLEAN
  BY DEF G!Scopes
<1>2. /\ t.grab = grab /\ t.zoomBase = s.zoomBase /\ t.range = s.range
      /\ t.pending = IF starts THEN "b" ELSE s.pending
      /\ t.mode = IF starts THEN "release" ELSE s.mode
      /\ t.label = (s.label \/ ("block" \in moving /\ there))
      /\ t.did = G!Did(s, moving \cap {"pan"})
  BY DEF G!DragTo, G!Scopes
<1>3. ASSUME NEW k \in G!Kinds
      PROVE  /\ grab[k] \in G!Grabs \cup {None} /\ (grab[k] # None <=> s.grab[k] # None)
             /\ s.grab[k] # None => grab[k].from = s.grab[k].from
             /\ s.grab[k] # None => grab[k].moved = (s.grab[k].moved \/ k \in moving)
  <2>1. CASE s.grab[k] = None
    BY <2>1 DEF G!Held
  <2>2. CASE s.grab[k] # None
    <3>1. s.grab[k] \in G!Grabs
      BY <1>1, <2>2
    <3>2. [s.grab[k] EXCEPT !.moved = TRUE] \in G!Grabs
      BY <3>1 DEF G!Grabs
    <3>3. QED
      BY <2>2, <3>1, <3>2 DEF G!GesturesAssumption, G!Grabs
  <2>3. QED
    BY <2>1, <2>2
<1>4. t.did \subseteq G!Outcomes
  BY <1>1, <1>2 DEF G!Did, G!Outcomes, G!Kinds
<1>5. grab \in [G!Kinds -> G!Grabs \cup {None}]
  BY <1>3
<1>6. t \in G!Scopes
  BY <1>1, <1>4, <1>5 DEF G!DragTo, G!Scopes
<1>7. \A k \in G!Kinds :
        /\ G!Held(t, k) <=> G!Held(s, k)
        /\ G!Moved(s, k) => G!Moved(t, k)
        /\ G!Held(s, k) => t.grab[k].from = s.grab[k].from
        /\ G!Moved(t, k) => G!Moved(s, k) \/ s.grab[k].from # p
        /\ k \in moving => G!Moved(t, k)
  BY <1>2, <1>3 DEF G!Held, G!Moved
<1>8. "rbl" \in G!Kinds /\ "pan" \in G!Kinds
  BY DEF G!Kinds
<1>9. \/ t.pending = s.pending /\ t.mode = s.mode
      \/ t.pending = "b" /\ t.mode = "release" /\ G!Moved(t, "rbl")
  BY <1>2, <1>7, <1>8
<1>10. t.label => s.label \/ G!Held(s, "block")
  BY <1>2
<1>11. t.did \subseteq s.did \cup {"pan"} /\ ("pan" \in t.did => "pan" \in s.did \/ G!Moved(t, "pan"))
  BY <1>2, <1>7, <1>8 DEF G!Did
<1>12. QED
  BY <1>2, <1>6, <1>7, <1>9, <1>10, <1>11

LEMMA NothingHeld ==
  ASSUME G!GesturesAssumption
  PROVE  /\ G!Nothing \in [G!Kinds -> G!Grabs \cup {None}]
         /\ \A s \in G!Scopes : s.grab = G!Nothing <=> ~Holds(s)
         /\ \A s : s.grab = G!Nothing => \A k \in G!Kinds : ~G!Held(s, k) /\ ~G!Moved(s, k)
<1>1. G!Nothing \in [G!Kinds -> G!Grabs \cup {None}] /\ \A k \in G!Kinds : G!Nothing[k] = None
  BY DEF G!Nothing
<1>2. ASSUME NEW s \in G!Scopes, ~Holds(s) PROVE s.grab = G!Nothing
  BY <1>2 DEF G!Scopes, Holds, G!Held, G!Nothing
<1>3. \A s : s.grab = G!Nothing => \A k \in G!Kinds : ~G!Held(s, k) /\ ~G!Moved(s, k)
  BY <1>1 DEF G!Held, G!Moved
<1>4. QED
  BY <1>1, <1>2, <1>3 DEF Holds

LEMMA ReleaseDoes ==
  ASSUME G!GesturesAssumption, NEW s \in G!Scopes
  PROVE  LET t == G!Release(s) IN
         /\ t \in G!Scopes /\ t.grab = G!Nothing
         /\ t.zoomBase = s.zoomBase /\ t.range = s.range
         /\ \/ t.pending = "none" /\ t.mode = "none"
            \/ t.pending = s.pending /\ t.mode = s.mode /\ ~G!Moved(s, "rbl")
         /\ t.label => s.label /\ ~G!Held(s, "block")
         /\ t.did \subseteq s.did \cup {k \in {"block", "rbl"} : G!Moved(s, k)}
         /\ ~G!Swallows(s) => t.did \subseteq s.did
<1> DEFINE t == G!Release(s)
           comes == {k \in {"block"} : G!Moved(s, k) /\ there}
                     \cup {k \in {"rbl"} : G!Moved(s, k) /\ s.pending = "b"}
<1>1. /\ s.grab \in [G!Kinds -> G!Grabs \cup {None}] /\ s.did \subseteq G!Outcomes
      /\ s.pending \in {"none", "a", "b"} /\ s.mode \in {"none", "A", "B", "release"}
      /\ s.pointer \in BOOLEAN /\ s.label \in BOOLEAN
  BY DEF G!Scopes
<1>2. /\ t.grab = G!Nothing /\ t.zoomBase = s.zoomBase /\ t.range = s.range
      /\ t.pending = IF G!Moved(s, "rbl") THEN "none" ELSE s.pending
      /\ t.mode = IF G!Moved(s, "rbl") THEN "none" ELSE s.mode
      /\ t.label = (s.label /\ ~G!Held(s, "block"))
      /\ t.did = G!Did(s, comes)
  BY DEF G!Release, G!Scopes
<1>3. t.did \subseteq G!Outcomes
  BY <1>1, <1>2 DEF G!Did, G!Outcomes, G!Kinds
<1>4. t \in G!Scopes
  BY <1>1, <1>3, NothingHeld DEF G!Release, G!Scopes
<1>5. /\ t.did \subseteq s.did \cup {k \in {"block", "rbl"} : G!Moved(s, k)}
      /\ ~G!Swallows(s) => t.did \subseteq s.did
  BY <1>2 DEF G!Did, G!Swallows
<1>6. QED
  BY <1>2, <1>4, <1>5

LEMMA DropDoes ==
  ASSUME G!GesturesAssumption, NEW s \in G!Scopes
  PROVE  LET t == G!DropGrab(s) IN
         /\ t \in G!Scopes /\ t.grab = G!Nothing /\ ~t.label
         /\ t.zoomBase = s.zoomBase /\ t.range = s.range /\ t.did = s.did
         /\ \/ t.pending = "none" /\ t.mode = "none"
            \/ t.pending = s.pending /\ t.mode = s.mode /\ ~G!Moved(s, "rbl")
BY NothingHeld DEF G!DropGrab, G!Scopes

LEMMA TapDoes ==
  ASSUME G!GesturesAssumption, NEW s \in G!Scopes, NEW p \in G!Places, there \in BOOLEAN, AskedIn(s)
  PROVE  LET t == G!Tap(s, p) IN
         /\ t \in G!Scopes /\ t.grab = s.grab /\ t.label = s.label
         /\ t.zoomBase = s.zoomBase /\ t.range = s.range
         /\ AskedIn(t) /\ t.mode # "release"
         /\ t.did \subseteq s.did \cup {"tap"}
<1> DEFINE t == G!Tap(s, p)
<1>1. /\ s.pending \in {"none", "a", "b"} /\ s.mode \in {"none", "A", "B", "release"}
      /\ s.did \subseteq G!Outcomes /\ s.selected \in BOOLEAN
  BY DEF G!Scopes
<1>2. t.did = G!Did(s, {"tap"}) /\ t.did \subseteq G!Outcomes
  BY <1>1 DEF G!Tap, G!Scopes, G!Did, G!Outcomes
<1>3. /\ t.pending = IF s.pending = "a" THEN "b" ELSE "none"
      /\ t.mode = IF s.pending = "a" THEN "B" ELSE IF s.pending = "b" THEN "none" ELSE s.mode
      /\ t.grab = s.grab /\ t.label = s.label
      /\ t.zoomBase = s.zoomBase /\ t.range = s.range
  BY <1>1 DEF G!Tap, G!Scopes
<1>4. t.selected \in BOOLEAN
  BY <1>1 DEF G!Tap, G!Scopes
<1>5. t.mode \in {"none", "A", "B", "release"} /\ t.pending \in {"none", "a", "b"}
  BY <1>1, <1>3
<1>6. t \in G!Scopes
  BY <1>2, <1>4, <1>5 DEF G!Tap, G!Scopes
<1>7. AskedIn(t) /\ t.mode # "release"
  BY <1>1, <1>3 DEF AskedIn
<1>8. QED
  BY <1>2, <1>3, <1>6, <1>7 DEF G!Did

LEMMA MenuDoes ==
  ASSUME NEW s \in G!Scopes
  PROVE  LET t == G!OpenMenu(s) IN
         /\ t \in G!Scopes /\ t.grab = s.grab /\ t.label = s.label
         /\ t.zoomBase = s.zoomBase /\ t.range = s.range
         /\ t.pending = s.pending /\ t.mode = s.mode
         /\ t.did \subseteq s.did \cup {"menu"}
<1>1. G!Did(s, {"menu"}) \subseteq G!Outcomes /\ G!Did(s, {"menu"}) \subseteq s.did \cup {"menu"}
  BY DEF G!Did, G!Scopes, G!Outcomes
<1>2. QED
  BY <1>1 DEF G!OpenMenu, G!Scopes

LEMMA ZoomDoes ==
  ASSUME G!GesturesAssumption, NEW s \in G!Scopes
  PROVE  LET t == G!ZoomStart(s) IN
         /\ t \in G!Scopes /\ t.grab = G!Nothing /\ ~t.label
         /\ t.zoomBase /\ t.range = s.range
         /\ \/ t.pending = "none" /\ t.mode = "none"
            \/ t.pending = s.pending /\ t.mode = s.mode /\ ~G!Moved(s, "rbl")
         /\ t.did \subseteq s.did \cup {"zoom"}
<1>1. G!Did(s, {"zoom"}) \subseteq G!Outcomes /\ G!Did(s, {"zoom"}) \subseteq s.did \cup {"zoom"}
  BY DEF G!Did, G!Scopes, G!Outcomes
<1> DEFINE d == G!DropGrab(s)
<1>2. /\ d \in G!Scopes /\ d.grab = G!Nothing /\ ~d.label /\ d.range = s.range
      /\ \/ d.pending = "none" /\ d.mode = "none"
         \/ d.pending = s.pending /\ d.mode = s.mode /\ ~G!Moved(s, "rbl")
  BY DropDoes
<1> HIDE DEF d
<1>3. G!ZoomStart(s) = [d EXCEPT !.zoomBase = TRUE, !.did = G!Did(s, {"zoom"})]
  BY DEF G!ZoomStart, d
<1>4. QED
  BY <1>1, <1>2, <1>3 DEF G!Scopes

LEMMA EndDoes ==
  ASSUME NEW s \in G!Scopes
  PROVE  LET t == G!ZoomEnd(s) IN
         /\ t \in G!Scopes /\ t.grab = s.grab /\ t.label = s.label
         /\ ~t.zoomBase /\ t.range = s.range
         /\ t.pending = s.pending /\ t.mode = s.mode /\ t.did = s.did
BY DEF G!ZoomEnd, G!Scopes

LEMMA PressDoes ==
  ASSUME NEW s \in G!Scopes
  PROVE  LET t == G!Pressed(s) IN
         /\ t \in G!Scopes /\ t.grab = s.grab /\ t.label = s.label
         /\ t.zoomBase = s.zoomBase /\ t.range = s.range
         /\ t.pending = s.pending /\ t.mode = s.mode
         /\ t.did = IF fingers = {} /\ buttons = {} THEN {} ELSE s.did
BY DEF G!Pressed, G!Scopes

-----------------------------------------------------------------------------
(* How many fingers there are.                                             *)

LEMMA Counted ==
  ASSUME NEW S, G!IsFiniteSet(S)
  PROVE  /\ G!Cardinality(S) \in Nat /\ (G!Cardinality(S) = 0 <=> S = {})
         /\ \A x : x \in S => (G!Cardinality(S) = 1 <=> S = {x})
         /\ \A x : G!Cardinality({x}) = 1 /\ G!IsFiniteSet({x})
         /\ \A x : x \notin S =>
              G!IsFiniteSet(S \cup {x}) /\ G!Cardinality(S \cup {x}) = G!Cardinality(S) + 1
         /\ \A x : x \in S =>
              G!IsFiniteSet(S \ {x}) /\ G!Cardinality(S \ {x}) = G!Cardinality(S) - 1
<1>1. G!Cardinality(S) \in Nat /\ (G!Cardinality(S) = 0 <=> S = {})
  BY FS_CardinalityType, FS_EmptySet, CountsAlike
<1>2. \A x : G!Cardinality({x}) = 1 /\ G!IsFiniteSet({x})
  BY FS_Singleton, CountsAlike
<1>3. ASSUME NEW x, x \notin S
      PROVE  G!IsFiniteSet(S \cup {x}) /\ G!Cardinality(S \cup {x}) = G!Cardinality(S) + 1
  BY <1>3, FS_AddElement, CountsAlike
<1>4. ASSUME NEW x, x \in S
      PROVE  G!IsFiniteSet(S \ {x}) /\ G!Cardinality(S \ {x}) = G!Cardinality(S) - 1
  BY <1>4, FS_RemoveElement, CountsAlike
<1>5. ASSUME NEW x, x \in S PROVE (G!Cardinality(S) = 1 <=> S = {x})
  <2>1. G!IsFiniteSet(S \ {x}) /\ G!Cardinality(S \ {x}) = G!Cardinality(S) - 1
    BY <1>4, <1>5
  <2>2. G!Cardinality(S \ {x}) = 0 <=> S \ {x} = {}
    BY <2>1, FS_EmptySet, CountsAlike
  <2>3. S = {x} <=> S \ {x} = {}
    BY <1>5
  <2>4. QED
    BY <1>1, <2>1, <2>2, <2>3
<1>6. QED
  BY <1>1, <1>2, <1>3, <1>4, <1>5

(* What is seen of the invariant with one finger, or none.                 *)
LEMMA FewFingers ==
  ASSUME G!TypeOK, Fingering
  PROVE  /\ touch.zoom # None => G!Cardinality(fingers) = 1
         /\ touch.tapping # None => G!Cardinality(fingers) = 1
         /\ touch.timer # None => G!Cardinality(fingers) = 1
         /\ fingers = {} => /\ touch.zoom = None /\ touch.tapping = None /\ touch.timer = None
                            /\ touch.doubleTap = None /\ ~touch.pinch
         /\ touch.pinch => fingers # {}
<1>1. G!IsFiniteSet(fingers)
  BY DEF G!TypeOK
<1>2. (G!Cardinality(fingers) = 0 <=> fingers = {}) /\ \A x : G!Cardinality({x}) = 1
  BY <1>1, Counted
<1>3. /\ touch.pinch <=> G!Cardinality(fingers) > 1
      /\ touch.zoom # None => fingers = {touch.zoom.id}
      /\ touch.tapping # None => fingers = {touch.tapping.id}
      /\ touch.timer # None => touch.tapping # None
      /\ touch.doubleTap # None => touch.doubleTap \in fingers
  BY DEF Fingering
<1>4. fingers = {} => G!Cardinality(fingers) = 0 /\ ~(G!Cardinality(fingers) > 1)
  BY <1>2
<1>5. QED
  BY <1>2, <1>3, <1>4

-----------------------------------------------------------------------------
LEMMA Unmoved ==
  ASSUME Steady, UNCHANGED G!vars
  PROVE  Steady'
<1>1. G!TypeOK'
  BY DEF Steady, G!vars, G!TypeOK
<1>2. Asked'
  BY DEF Steady, G!vars, Asked, AskedIn, G!Moved, G!Held
<1>3. Fingering'
  BY DEF Steady, G!vars, Fingering, G!Zooming
<1>4. Pressing' /\ Alone'
  BY DEF Steady, G!vars, Pressing, Alone
<1>5. Grabbed'
  BY DEF Steady, G!vars, Grabbed, Holds, G!Held
<1>6. Doing'
  BY DEF Steady, G!vars, Doing, Holds, G!Held, G!Moved
<1>7. QED
  BY <1>1, <1>2, <1>3, <1>4, <1>5, <1>6 DEF Steady

LEMMA SteadyAtStart == G!GesturesAssumption /\ G!Init => Steady
<1> SUFFICES ASSUME G!GesturesAssumption, G!Init PROVE Steady
  OBVIOUS
<1>1. scope.grab = G!Nothing /\ scope \in G!Scopes
  BY NothingHeld DEF G!Init, G!Scopes
<1>2. \A k \in G!Kinds : ~G!Held(scope, k)
  BY <1>1, NothingHeld
<1>3. G!IsFiniteSet({}) /\ G!Cardinality({}) = 0
  BY FS_EmptySet, CountsAlike
<1>4. G!TypeOK
  <2>1. touch \in G!Touches /\ mouse \in G!Mice
    BY DEF G!Init, G!Touches, G!Mice
  <2>2. QED
    BY <1>1, <1>3, <2>1 DEF G!Init, G!TypeOK, G!Places
<1>5. Asked /\ Alone /\ Grabbed
  BY <1>2 DEF G!Init, Asked, AskedIn, Alone, Grabbed, Holds
<1>6. Fingering /\ Pressing
  BY <1>3 DEF G!Init, Fingering, Pressing, G!Buttons
<1>7. Doing
  BY <1>2 DEF G!Init, Doing, OneComesOf, Holds
<1>8. QED
  BY <1>4, <1>5, <1>6, <1>7 DEF Steady

LEMMA Enough ==
  ASSUME G!GesturesAssumption, Steady
  PROVE  G!TypeOK /\ G!LetGo /\ G!OneOutcome
<1>1. G!TypeOK /\ scope \in G!Scopes
  BY DEF Steady, G!TypeOK
<1>2. ASSUME fingers = {}, buttons = {}, ~chorded
      PROVE  /\ scope.grab = G!Nothing /\ ~scope.label /\ ~scope.zoomBase /\ ~scope.range
             /\ touch.timer = None /\ touch.tapping = None /\ touch.zoom = None
             /\ touch.doubleTap = None /\ ~touch.pinch
             /\ ~mouse.pressing /\ mouse.right = None
             /\ ~mixed => scope.mode # "release"
  <2>1. ~mouse.pressing /\ mouse.right = None /\ ~scope.range
    <3>1. buttons # {"left"} /\ buttons # {"right"}
      BY <1>2
    <3>2. /\ mouse.pressing => buttons = {"left"}
          /\ mouse.right # None <=> buttons = {"right"}
          /\ scope.range => mouse.right # None
      BY <1>2 DEF Steady, Pressing
    <3>3. QED
      BY <3>1, <3>2
  <2>2. /\ touch.timer = None /\ touch.tapping = None /\ touch.zoom = None
        /\ touch.doubleTap = None /\ ~touch.pinch
    BY <1>2, FewFingers DEF Steady
  <2>3. ~Holds(scope) /\ scope.grab = G!Nothing
    BY <1>1, <1>2, <2>1, NothingHeld DEF Steady, Grabbed
  <2>4. ~scope.zoomBase
    BY <2>2 DEF Steady, Fingering, G!Zooming
  <2>5. ~scope.label /\ (~mixed => scope.mode # "release")
    <3>1. ~G!Held(scope, "block") /\ ~G!Moved(scope, "rbl")
      BY <2>3, NothingHeld DEF G!Kinds
    <3>2. QED
      BY <1>2, <3>1 DEF Steady, Asked
  <2>6. QED
    BY <2>1, <2>2, <2>3, <2>4, <2>5
<1>3. G!LetGo
  BY <1>2 DEF G!LetGo, Steady, Asked, AskedIn
<1>4. ASSUME ~chorded, ~mixed
      PROVE  G!Cardinality(scope.did \cap G!Kinds) <= 1
  <2> DEFINE comes == scope.did \cap G!Kinds
  <2>1. \A j, k \in comes : j = k
    BY <1>4 DEF Steady, Doing, OneComesOf
  <2>2. CASE comes = {}
    BY <2>2, FS_EmptySet, CountsAlike
  <2>3. CASE comes # {}
    <3>1. PICK k \in comes : comes = {k}
      BY <2>1, <2>3
    <3>2. G!Cardinality(comes) = 1
      BY <3>1, FS_Singleton, CountsAlike
    <3>3. QED
      BY <3>2
  <2>4. QED
    BY <2>2, <2>3
<1>5. G!OneOutcome
  BY <1>4 DEF Steady, Doing, OneComesOf, G!OneOutcome
<1>6. QED
  BY <1>1, <1>3, <1>5

-----------------------------------------------------------------------------
(* What changes little.                                                    *)

LEMMA OnlyScopeKeeps ==
  ASSUME G!GesturesAssumption, Steady, NEW s \in G!Scopes, G!OnlyScope(s),
         s.grab = scope.grab, s.label = scope.label, s.zoomBase = scope.zoomBase,
         s.did = scope.did, s.range => scope.range, AskedIn(s), s.mode # "release"
  PROVE  Steady'
<1>1. scope' = s /\ UNCHANGED <<touch, mouse, fingers, buttons, cursor, over, asks, platform,
                                there, chorded, mixed>>
  BY DEF G!OnlyScope
<1>2. G!TypeOK'
  BY <1>1 DEF Steady, G!TypeOK
<1>3. Asked'
  BY <1>1 DEF Steady, Asked, AskedIn, G!Held
<1>4. Fingering'
  BY <1>1 DEF Steady, Fingering, G!Zooming
<1>5. Pressing' /\ Alone'
  BY <1>1 DEF Steady, Pressing, Alone
<1>6. Grabbed'
  BY <1>1 DEF Steady, Grabbed, Holds, G!Held
<1>7. Doing'
  BY <1>1 DEF Steady, Doing, Holds, G!Held, G!Moved
<1>8. QED
  BY <1>2, <1>3, <1>4, <1>5, <1>6, <1>7 DEF Steady

LEMMA KeysKeep ==
  ASSUME G!GesturesAssumption, Steady, G!Cancel \/ G!StartRbl \/ G!StartRblHere
  PROVE  Steady'
<1>1. scope \in G!Scopes
  BY DEF Steady, G!TypeOK
<1>2. CASE G!Cancel
  <2> DEFINE s == [scope EXCEPT !.pending = "none", !.mode = "none", !.range = FALSE,
                                !.menu = FALSE]
  <2>1. /\ s \in G!Scopes /\ s.grab = scope.grab /\ s.label = scope.label
        /\ s.zoomBase = scope.zoomBase /\ s.did = scope.did /\ ~s.range
        /\ s.mode = "none" /\ s.pending = "none"
    BY <1>1 DEF G!Scopes
  <2>2. G!OnlyScope(s)
    BY <1>2 DEF G!Cancel
  <2> HIDE DEF s
  <2>3. QED
    BY <2>1, <2>2, OnlyScopeKeeps DEF AskedIn
<1>3. CASE G!StartRbl
  <2> DEFINE s == [scope EXCEPT !.pending = "a", !.mode = "A"]
  <2>1. /\ s \in G!Scopes /\ s.grab = scope.grab /\ s.label = scope.label
        /\ s.zoomBase = scope.zoomBase /\ s.did = scope.did /\ s.range = scope.range
        /\ s.mode = "A" /\ s.pending = "a"
    BY <1>1 DEF G!Scopes
  <2>2. G!OnlyScope(s)
    BY <1>3 DEF G!StartRbl
  <2> HIDE DEF s
  <2>3. QED
    BY <2>1, <2>2, OnlyScopeKeeps DEF AskedIn
<1>4. CASE G!StartRblHere
  <2> DEFINE s == [scope EXCEPT !.pending = "b", !.mode = "B", !.menu = FALSE]
  <2>1. /\ s \in G!Scopes /\ s.grab = scope.grab /\ s.label = scope.label
        /\ s.zoomBase = scope.zoomBase /\ s.did = scope.did /\ s.range = scope.range
        /\ s.mode = "B" /\ s.pending = "b"
    BY <1>1 DEF G!Scopes
  <2>2. G!OnlyScope(s)
    BY <1>4 DEF G!StartRblHere
  <2> HIDE DEF s
  <2>3. QED
    BY <2>1, <2>2, OnlyScopeKeeps DEF AskedIn
<1>5. QED
  BY <1>2, <1>3, <1>4

LEMMA LostKeeps ==
  ASSUME Steady, G!Lost
  PROVE  Steady'
<1>1. there' = FALSE /\ UNCHANGED <<scope, touch, mouse, fingers, buttons, cursor, over, asks,
                                    platform, chorded, mixed>>
  BY DEF G!Lost
<1>2. G!TypeOK'
  BY <1>1 DEF Steady, G!TypeOK
<1>3. Asked'
  BY <1>1 DEF Steady, Asked, AskedIn, G!Moved, G!Held
<1>4. Fingering'
  BY <1>1 DEF Steady, Fingering, G!Zooming
<1>5. Pressing' /\ Alone'
  BY <1>1 DEF Steady, Pressing, Alone
<1>6. Grabbed'
  BY <1>1 DEF Steady, Grabbed, Holds, G!Held
<1>7. Doing'
  BY <1>1 DEF Steady, Doing, Holds, G!Held, G!Moved
<1>8. QED
  BY <1>2, <1>3, <1>4, <1>5, <1>6, <1>7 DEF Steady

LEMMA QuietEndsKeeps ==
  ASSUME Steady, G!QuietEnds
  PROVE  Steady'
<1>1. /\ mouse' = [mouse EXCEPT !.quiet = FALSE] /\ ~asks
      /\ UNCHANGED <<scope, touch, fingers, buttons, cursor, over, asks, platform, there,
                     chorded, mixed>>
  BY DEF G!QuietEnds
<1>2. /\ mouse' \in G!Mice /\ mouse'.pressing = mouse.pressing
      /\ mouse'.right = mouse.right
  BY <1>1 DEF Steady, G!TypeOK, G!Mice
<1>3. G!TypeOK'
  BY <1>1, <1>2 DEF Steady, G!TypeOK
<1>4. Asked'
  BY <1>1 DEF Steady, Asked, AskedIn, G!Moved, G!Held
<1>5. Fingering'
  BY <1>1 DEF Steady, Fingering, G!Zooming
<1>6. Pressing' /\ Alone'
  BY <1>1, <1>2 DEF Steady, Pressing, Alone
<1>7. Grabbed'
  BY <1>1, <1>2 DEF Steady, Grabbed, Holds, G!Held
<1>8. Doing'
  BY <1>1, <1>2 DEF Steady, Doing, Holds, G!Held, G!Moved
<1>9. QED
  BY <1>3, <1>4, <1>5, <1>6, <1>7, <1>8 DEF Steady

(* A second button ends all that is said of one. *)
LEMMA ChordKeeps ==
  ASSUME Steady, NEW b \in G!Buttons, G!Chord(b)
  PROVE  Steady'
<1>1. /\ chorded' /\ chorded' = TRUE /\ buttons' \subseteq G!Buttons /\ asks' \in BOOLEAN
      /\ buttons # {}
      /\ UNCHANGED <<scope, touch, mouse, fingers, cursor, over, platform, there, mixed>>
  <2>1. asks' \in BOOLEAN
    BY DEF G!Chord, G!AsksOn, Steady, G!TypeOK
  <2>2. buttons' \subseteq G!Buttons /\ buttons # {}
    BY DEF G!Chord, Steady, G!TypeOK
  <2>3. QED
    BY <2>1, <2>2 DEF G!Chord
<1>2. G!TypeOK'
  BY <1>1 DEF Steady, G!TypeOK
<1>3. Asked'
  BY <1>1 DEF Steady, Asked, AskedIn, G!Moved, G!Held
<1>4. Fingering'
  BY <1>1 DEF Steady, Fingering, G!Zooming
<1>5. Pressing' /\ Alone' /\ Doing'
  BY <1>1 DEF Steady, Pressing, Alone, Doing
<1>6. Grabbed'
  BY <1>1 DEF Steady, Grabbed, Holds, G!Held
<1>7. QED
  BY <1>2, <1>3, <1>4, <1>5, <1>6 DEF Steady

(* A menu that is asked for opens, or is put off. *)
LEMMA ContextMenuKeeps ==
  ASSUME G!GesturesAssumption, Steady, G!ContextMenu
  PROVE  Steady'
<1>1. /\ asks /\ ~asks' /\ asks' = FALSE
      /\ UNCHANGED <<touch, fingers, buttons, cursor, over, platform, there, chorded, mixed>>
  BY DEF G!ContextMenu
<1>2. scope \in G!Scopes /\ mouse \in G!Mice
  BY DEF Steady, G!TypeOK
<1>3. /\ mouse' \in G!Mice /\ mouse'.pressing = mouse.pressing /\ mouse'.right = mouse.right
  BY <1>2 DEF G!ContextMenu, G!Mice
<1>4. /\ scope' \in G!Scopes /\ scope'.grab = scope.grab /\ scope'.label = scope.label
      /\ scope'.zoomBase = scope.zoomBase /\ scope'.range = scope.range
      /\ scope'.pending = scope.pending /\ scope'.mode = scope.mode
      /\ \/ scope'.did = scope.did
         \/ /\ scope'.did \subseteq scope.did \cup {"menu"} /\ ~mouse.quiet
            /\ mouse.right = None \/ mouse.right.started
  BY <1>2, MenuDoes DEF G!ContextMenu
<1>5. G!TypeOK'
  BY <1>1, <1>3, <1>4 DEF Steady, G!TypeOK
<1>6. Asked'
  BY <1>1, <1>4 DEF Steady, Asked, AskedIn, G!Moved, G!Held
<1>7. Fingering'
  BY <1>1, <1>4 DEF Steady, Fingering, G!Zooming
<1>8. Pressing' /\ Alone'
  BY <1>1, <1>3, <1>4 DEF Steady, Pressing, Alone
<1>9. Grabbed'
  BY <1>1, <1>3, <1>4 DEF Steady, Grabbed, Holds, G!Held
<1>10. Doing'
  <2> SUFFICES ASSUME ~chorded, ~mixed PROVE Doing'
    BY <1>1 DEF Doing
  <2>1. CASE scope'.did = scope.did
    BY <1>1, <1>3, <1>4, <2>1 DEF Steady, Doing, Holds, G!Held, G!Moved
  <2>2. CASE scope'.did # scope.did
    <3>1. mouse.right = None
      BY <1>1, <1>4, <2>2 DEF Steady, Doing
    <3>2. scope.did \subseteq {"menu"} /\ scope'.did \subseteq {"menu"}
      BY <1>1, <1>4, <2>2, <3>1 DEF Steady, Doing
    <3>3. fingers = {} /\ ~mouse.pressing
      BY <1>1 DEF Steady, Alone, Pressing
    <3>4. ~Holds(scope)
      BY <3>3 DEF Steady, Grabbed
    <3>5. touch.tapping = None
      BY <3>3, FewFingers DEF Steady
    <3>6. \A k \in G!Kinds : ~G!Held(scope, k)' /\ k # "menu"
      BY <1>4, <3>4 DEF Holds, G!Held, G!Kinds
    <3>7. OneComesOf(scope'.did)
      BY <3>2 DEF OneComesOf, G!Kinds
    <3>8. QED
      BY <1>1, <1>3, <3>1, <3>2, <3>3, <3>5, <3>6, <3>7 DEF Doing, Holds
  <2>3. QED
    BY <2>1, <2>2
<1>11. QED
  BY <1>5, <1>6, <1>7, <1>8, <1>9, <1>10 DEF Steady

-----------------------------------------------------------------------------
(* One pointer at a time.                                                  *)

LEMMA FingersAlone ==
  ASSUME Steady, ~mixed, ~chorded, fingers # {}
  PROVE  buttons = {} /\ ~asks /\ ~mouse.pressing /\ mouse.right = None
<1>1. buttons = {} /\ ~asks
  BY DEF Steady, Alone
<1>2. buttons # {"left"} /\ buttons # {"right"}
  BY <1>1
<1>3. QED
  BY <1>1, <1>2 DEF Steady, Pressing

LEMMA MouseAlone ==
  ASSUME Steady, ~mixed, buttons # {} \/ asks
  PROVE  /\ fingers = {} /\ touch.tapping = None /\ touch.zoom = None /\ touch.timer = None
         /\ ~touch.pinch /\ (Holds(scope) => mouse.pressing)
<1>1. fingers = {}
  BY DEF Steady, Alone
<1>2. QED
  BY <1>1, FewFingers DEF Steady, Grabbed

-----------------------------------------------------------------------------
(* Fingers.                                                                *)

LEMMA LongPressKeeps ==
  ASSUME G!GesturesAssumption, Steady, G!LongPress
  PROVE  Steady'
<1>1. /\ touch.timer # None /\ touch' = [touch EXCEPT !.timer = None, !.tapping = None]
      /\ scope' = G!OpenMenu(G!DropGrab(scope))
      /\ UNCHANGED <<mouse, fingers, buttons, cursor, over, asks, platform, there, chorded,
                     mixed>>
  BY DEF G!LongPress, G!Held450
<1>2. scope \in G!Scopes /\ touch \in G!Touches
  BY DEF Steady, G!TypeOK
<1>3. /\ scope' \in G!Scopes /\ scope'.grab = G!Nothing /\ ~scope'.label
      /\ scope'.zoomBase = scope.zoomBase /\ scope'.range = scope.range
      /\ scope'.did \subseteq scope.did \cup {"menu"}
      /\ \/ scope'.pending = "none" /\ scope'.mode = "none"
         \/ scope'.pending = scope.pending /\ scope'.mode = scope.mode /\ ~G!Moved(scope, "rbl")
  <2> DEFINE d == G!DropGrab(scope)
  <2>1. /\ d \in G!Scopes /\ d.grab = G!Nothing /\ ~d.label
        /\ d.zoomBase = scope.zoomBase /\ d.range = scope.range /\ d.did = scope.did
        /\ \/ d.pending = "none" /\ d.mode = "none"
           \/ d.pending = scope.pending /\ d.mode = scope.mode /\ ~G!Moved(scope, "rbl")
    BY <1>2, DropDoes
  <2> HIDE DEF d
  <2>2. scope' = G!OpenMenu(d)
    BY <1>1 DEF d
  <2>3. QED
    BY <2>1, <2>2, MenuDoes
<1>4. /\ touch' \in G!Touches /\ touch'.pinch = touch.pinch /\ touch'.zoom = touch.zoom
      /\ touch'.timer = None /\ touch'.tapping = None /\ touch'.doubleTap = touch.doubleTap
  BY <1>1, <1>2 DEF G!Touches
<1>5. G!TypeOK'
  BY <1>1, <1>3, <1>4 DEF Steady, G!TypeOK
<1>6. \A k \in G!Kinds : ~G!Held(scope, k)'
  BY <1>3, NothingHeld
<1>7. Asked'
  BY <1>1, <1>3 DEF Steady, Asked, AskedIn
<1>8. Fingering'
  BY <1>1, <1>3, <1>4 DEF Steady, Fingering, G!Zooming
<1>9. Pressing' /\ Alone'
  BY <1>1, <1>3 DEF Steady, Pressing, Alone
<1>10. Grabbed'
  BY <1>6 DEF Grabbed, Holds
<1>11. Doing'
  <2> SUFFICES ASSUME ~chorded, ~mixed PROVE Doing'
    BY <1>1 DEF Doing
  <2>1. touch.tapping # None /\ fingers # {}
    BY <1>1, FewFingers DEF Steady, Fingering
  <2>2. scope.did = {}
    BY <2>1 DEF Steady, Doing
  <2>3. OneComesOf(scope'.did) /\ scope'.did \subseteq {"menu"}
    BY <1>3, <2>2 DEF OneComesOf, G!Kinds
  <2>4. ~mouse'.pressing /\ mouse'.right = None
    BY <1>1, <2>1, FingersAlone
  <2>5. QED
    BY <1>4, <1>6, <2>3, <2>4 DEF Doing, Holds
<1>12. QED
  BY <1>5, <1>7, <1>8, <1>9, <1>10, <1>11 DEF Steady

LEMMA StrayMoveKeeps ==
  ASSUME G!GesturesAssumption, Steady, NEW p \in G!Places, G!StrayMove(p)
  PROVE  Steady'
<1>1. /\ scope' = G!DragTo(scope, p) /\ mixed' /\ mixed' = TRUE
      /\ UNCHANGED <<touch, mouse, fingers, buttons, cursor, over, asks, platform, there,
                     chorded>>
  BY DEF G!StrayMove, G!Stray
<1>2. /\ scope' \in G!Scopes
      /\ scope'.zoomBase = scope.zoomBase /\ scope'.range = scope.range
      /\ \A k \in G!Kinds : G!Held(scope', k) <=> G!Held(scope, k)
      /\ \/ scope'.pending = scope.pending /\ scope'.mode = scope.mode
         \/ scope'.pending = "b" /\ scope'.mode = "release"
      /\ scope'.label => scope.label \/ G!Held(scope, "block")
  BY <1>1, DragDoes DEF Steady, G!TypeOK
<1>3. G!TypeOK'
  BY <1>1, <1>2 DEF Steady, G!TypeOK
<1>4. Asked'
  BY <1>1, <1>2 DEF Steady, Asked, AskedIn, G!Kinds
<1>5. Fingering'
  BY <1>1, <1>2 DEF Steady, Fingering, G!Zooming
<1>6. Pressing' /\ Alone' /\ Doing'
  BY <1>1, <1>2 DEF Steady, Pressing, Alone, Doing
<1>7. Grabbed'
  BY <1>1, <1>2 DEF Steady, Grabbed, Holds
<1>8. QED
  BY <1>3, <1>4, <1>5, <1>6, <1>7 DEF Steady

LEMMA StrayUpKeeps ==
  ASSUME G!GesturesAssumption, Steady, G!StrayUp
  PROVE  Steady'
<1>1. /\ scope' = G!Release(scope) /\ mixed' /\ mixed' = TRUE
      /\ UNCHANGED <<touch, mouse, fingers, buttons, cursor, over, asks, platform, there,
                     chorded>>
  BY DEF G!StrayUp, G!Stray
<1>2. /\ scope' \in G!Scopes /\ scope'.grab = G!Nothing
      /\ scope'.zoomBase = scope.zoomBase /\ scope'.range = scope.range
      /\ \/ scope'.pending = scope.pending /\ scope'.mode = scope.mode
         \/ scope'.pending = "none" /\ scope'.mode = "none"
      /\ scope'.label => scope.label /\ ~G!Held(scope, "block")
  BY <1>1, ReleaseDoes DEF Steady, G!TypeOK
<1>3. G!TypeOK'
  BY <1>1, <1>2 DEF Steady, G!TypeOK
<1>4. Asked'
  BY <1>1, <1>2 DEF Steady, Asked, AskedIn
<1>5. Fingering'
  BY <1>1, <1>2 DEF Steady, Fingering, G!Zooming
<1>6. Pressing' /\ Alone' /\ Doing'
  BY <1>1, <1>2 DEF Steady, Pressing, Alone, Doing
<1>7. Grabbed'
  BY <1>2, NothingHeld DEF Grabbed, Holds
<1>8. QED
  BY <1>3, <1>4, <1>5, <1>6, <1>7 DEF Steady

(* A finger moves what it holds, or begins to zoom. *)
LEMMA FingerMoveKeeps ==
  ASSUME G!GesturesAssumption, Steady, NEW f \in Fingers, NEW p \in G!Places, G!FingerMove(f, p)
  PROVE  Steady'
<1>1. /\ f \in fingers /\ ~touch.pinch
      /\ UNCHANGED <<mouse, fingers, buttons, cursor, over, asks, platform, there, chorded,
                     mixed>>
  BY DEF G!FingerMove
<1>2. scope \in G!Scopes /\ touch \in G!Touches
  BY DEF Steady, G!TypeOK
<1>3. CASE touch.zoom # None /\ touch.zoom.id = f
  <2>1. scope' = G!ZoomStart(scope) /\ touch' = [touch EXCEPT !.zoom.started = TRUE]
    BY <1>3 DEF G!FingerMove
  <2>2. touch.zoom \in G!Zooms
    BY <1>2, <1>3 DEF G!Touches
  <2>3. [touch.zoom EXCEPT !.started = TRUE] \in G!Zooms
    BY <2>2 DEF G!Zooms
  <2>4. /\ touch' \in G!Touches /\ touch'.pinch = touch.pinch /\ touch'.timer = touch.timer
        /\ touch'.tapping = touch.tapping /\ touch'.doubleTap = touch.doubleTap
        /\ touch'.zoom \in G!Zooms /\ touch'.zoom.id = touch.zoom.id /\ touch'.zoom.started
    BY <1>2, <2>1, <2>2, <2>3 DEF G!Touches, G!Zooms
  <2>5. touch'.zoom # None
    BY <2>4 DEF G!GesturesAssumption
  <2>6. /\ scope' \in G!Scopes /\ scope'.grab = G!Nothing /\ ~scope'.label
        /\ scope'.range = scope.range /\ scope'.did \subseteq scope.did \cup {"zoom"}
        /\ \/ scope'.pending = "none" /\ scope'.mode = "none"
           \/ scope'.pending = scope.pending /\ scope'.mode = scope.mode
              /\ ~G!Moved(scope, "rbl")
    BY <1>2, <2>1, ZoomDoes
  <2>7. G!TypeOK'
    BY <1>1, <2>4, <2>6 DEF Steady, G!TypeOK
  <2>8. \A k \in G!Kinds : ~G!Held(scope', k)
    BY <2>6, NothingHeld
  <2>9. Asked'
    BY <1>1, <2>6 DEF Steady, Asked, AskedIn
  <2>10. touch.tapping = None
    BY <1>3 DEF Steady, Fingering
  <2>11. Fingering'
    BY <1>1, <1>3, <2>4, <2>5, <2>10 DEF Steady, Fingering, G!Zooming
  <2>12. Pressing' /\ Alone'
    BY <1>1, <2>6 DEF Steady, Pressing, Alone
  <2>13. Grabbed'
    BY <2>8 DEF Grabbed, Holds
  <2>14. Doing'
    <3> SUFFICES ASSUME ~chorded, ~mixed PROVE Doing'
      BY <1>1 DEF Doing
    <3>1. /\ OneComesOf(scope.did) /\ scope.did \subseteq {"pan", "zoom", "menu", "range"}
      BY <1>1 DEF Steady, Doing
    <3>2. /\ OneComesOf(scope'.did) /\ scope'.did \subseteq {"pan", "zoom", "menu", "range"}
      BY <2>6, <3>1 DEF OneComesOf, G!Kinds
    <3>3. ~mouse'.pressing /\ mouse'.right = None /\ ~asks'
      BY <1>1, FingersAlone
    <3>4. QED
      BY <2>4, <2>8, <2>10, <3>2, <3>3 DEF Doing, Holds
  <2>15. QED
    BY <2>7, <2>9, <2>11, <2>12, <2>13, <2>14 DEF Steady
<1>4. CASE ~(touch.zoom # None /\ touch.zoom.id = f)
  <2>1. /\ scope' = G!DragTo(scope, p)
        /\ touch' = IF touch.tapping # None /\ touch.tapping.at # p
                    THEN [touch EXCEPT !.tapping = None, !.timer = None] ELSE touch
    BY <1>4 DEF G!FingerMove
  <2>2. /\ touch' \in G!Touches /\ touch'.pinch = touch.pinch /\ touch'.zoom = touch.zoom
        /\ touch'.doubleTap = touch.doubleTap
        /\ \/ touch'.tapping = None /\ touch'.timer = None
           \/ /\ touch'.tapping = touch.tapping /\ touch'.timer = touch.timer
              /\ touch.tapping # None => touch.tapping.at = p
    BY <1>2, <2>1 DEF G!Touches
  <2>3. /\ scope' \in G!Scopes
        /\ scope'.zoomBase = scope.zoomBase /\ scope'.range = scope.range
        /\ \A k \in G!Kinds :
             /\ G!Held(scope', k) <=> G!Held(scope, k)
             /\ G!Moved(scope, k) => G!Moved(scope', k)
             /\ G!Held(scope, k) => scope'.grab[k].from = scope.grab[k].from
             /\ G!Moved(scope', k) => G!Moved(scope, k) \/ scope.grab[k].from # p
        /\ \/ scope'.pending = scope.pending /\ scope'.mode = scope.mode
           \/ scope'.pending = "b" /\ scope'.mode = "release" /\ G!Moved(scope', "rbl")
        /\ scope'.label => scope.label \/ G!Held(scope, "block")
        /\ scope'.did \subseteq scope.did \cup {"pan"}
        /\ "pan" \in scope'.did => "pan" \in scope.did \/ G!Moved(scope', "pan")
    BY <1>2, <2>1, DragDoes
  <2>4. G!TypeOK'
    BY <1>1, <2>2, <2>3 DEF Steady, G!TypeOK
  <2>5. "block" \in G!Kinds /\ "rbl" \in G!Kinds /\ "pan" \in G!Kinds /\ "menu" \notin G!Kinds
    BY DEF G!Kinds
  <2>6. Asked'
    BY <1>1, <2>3, <2>5 DEF Steady, Asked, AskedIn
  <2>7. Fingering'
    BY <1>1, <2>2, <2>3 DEF Steady, Fingering, G!Zooming
  <2>8. Pressing' /\ Alone'
    BY <1>1, <2>3 DEF Steady, Pressing, Alone
  <2>9. Grabbed'
    BY <1>1, <2>2, <2>3 DEF Steady, Grabbed, Holds
  <2>10. Doing'
    <3> SUFFICES ASSUME ~chorded, ~mixed PROVE Doing'
      BY <1>1 DEF Doing
    <3>1. /\ OneComesOf(scope.did) /\ scope.did \subseteq {"pan", "zoom", "menu", "range"}
          /\ \A j, k \in G!Kinds : G!Held(scope, j) /\ G!Held(scope, k) => j = k
          /\ Holds(scope) =>
               "menu" \notin scope.did /\ ("pan" \in scope.did => G!Moved(scope, "pan"))
          /\ touch.tapping # None =>
               /\ scope.did = {}
               /\ \A k \in G!Kinds : G!Held(scope, k) =>
                    ~G!Moved(scope, k) /\ scope.grab[k].from = touch.tapping.at
      BY <1>1 DEF Steady, Doing, G!Moved
    <3>2. ~mouse'.pressing /\ mouse'.right = None /\ ~asks'
      BY <1>1, FingersAlone
    <3>3. CASE ~Holds(scope)
      <4>1. ~Holds(scope') /\ \A k \in G!Kinds : ~G!Held(scope', k)
        BY <2>3, <3>3 DEF Holds
      <4>2. scope'.did \subseteq scope.did
        BY <2>3, <2>5, <4>1 DEF G!Moved
      <4>3. OneComesOf(scope'.did) /\ scope'.did \subseteq {"pan", "zoom", "menu", "range"}
        BY <3>1, <4>2 DEF OneComesOf
      <4>4. touch'.tapping # None => scope'.did = {}
        BY <2>2, <3>1, <4>2
      <4>5. QED
        BY <3>2, <4>1, <4>3, <4>4 DEF Doing
    <3>4. CASE Holds(scope)
      <4>1. /\ OneComesOf(scope'.did) /\ scope'.did \subseteq {"pan", "zoom", "range"}
        BY <2>3, <3>1, <3>4 DEF OneComesOf, G!Kinds
      <4>2. "pan" \in scope'.did => G!Moved(scope', "pan")
        BY <2>3, <2>5, <3>1, <3>4
      <4>3. \A j, k \in G!Kinds : G!Held(scope', j) /\ G!Held(scope', k) => j = k
        BY <2>3, <3>1
      <4>4. ASSUME touch'.tapping # None
            PROVE  /\ scope'.did = {}
                   /\ \A k \in G!Kinds : G!Held(scope', k) =>
                        ~scope'.grab[k].moved /\ scope'.grab[k].from = touch'.tapping.at
        <5>1. touch'.tapping = touch.tapping /\ touch.tapping # None /\ touch.tapping.at = p
          BY <2>2, <4>4
        <5>2. \A k \in G!Kinds : G!Held(scope', k) =>
                ~G!Moved(scope', k) /\ scope'.grab[k].from = touch'.tapping.at
          BY <2>3, <3>1, <5>1
        <5>3. ~G!Moved(scope', "pan")
          BY <2>5, <5>2 DEF G!Moved
        <5>4. QED
          BY <2>3, <3>1, <4>2, <5>1, <5>2, <5>3 DEF G!Moved
      <4>5. QED
        BY <3>2, <4>1, <4>2, <4>3, <4>4 DEF Doing
    <3>5. QED
      BY <3>3, <3>4
  <2>11. QED
    BY <2>4, <2>6, <2>7, <2>8, <2>9, <2>10 DEF Steady
<1>5. QED
  BY <1>3, <1>4

(* A finger lifts, of a pinch, of a zoom, or of what it holds. *)
LEMMA FingerUpKeeps ==
  ASSUME G!GesturesAssumption, Steady, NEW f \in Fingers, NEW p \in G!Places,
         NEW cancelled \in BOOLEAN, G!FingerUp(f, p, cancelled)
  PROVE  Steady'
<1> DEFINE lifted == [touch EXCEPT !.timer = None, !.doubleTap = IF @ = f THEN None ELSE @]
           tapped == touch.tapping # None /\ ~cancelled
           over2 == G!Cardinality(fingers) = 2
<1>1. /\ f \in fingers /\ fingers' = fingers \ {f}
      /\ UNCHANGED <<mouse, buttons, cursor, over, asks, platform, there, chorded, mixed>>
  BY DEF G!FingerUp
<1>2. scope \in G!Scopes /\ touch \in G!Touches /\ fingers \subseteq Fingers /\ G!IsFiniteSet(fingers)
  BY DEF Steady, G!TypeOK
<1>3. /\ G!Cardinality(fingers) \in Nat /\ G!Cardinality(fingers) # 0
      /\ (G!Cardinality(fingers) = 1 <=> fingers = {f})
      /\ G!IsFiniteSet(fingers') /\ G!Cardinality(fingers') = G!Cardinality(fingers) - 1
  BY <1>1, <1>2, Counted
<1>4. /\ lifted \in G!Touches /\ lifted.pinch = touch.pinch /\ lifted.zoom = touch.zoom
      /\ lifted.timer = None /\ lifted.tapping = touch.tapping
      /\ lifted.doubleTap # None => lifted.doubleTap = touch.doubleTap /\ touch.doubleTap # f
  BY <1>2 DEF G!Touches
<1>5. lifted.doubleTap # None => lifted.doubleTap \in fingers'
  BY <1>1, <1>4 DEF Steady, Fingering
<1> HIDE DEF lifted
<1>6. /\ touch.zoom # None => G!Cardinality(fingers) = 1
      /\ touch.tapping # None => G!Cardinality(fingers) = 1
      /\ touch.pinch <=> G!Cardinality(fingers) > 1
  BY FewFingers DEF Steady, Fingering
<1>7. (Pressing /\ scope'.range = scope.range => Pressing') /\ Alone'
  BY <1>1 DEF Steady, Pressing, Alone
<1>8. CASE touch.pinch
  <2>1. /\ touch' = [lifted EXCEPT !.pinch = ~over2]
        /\ scope' = IF over2 THEN G!ZoomEnd(scope) ELSE scope
    BY <1>8 DEF G!FingerUp, lifted
  <2>2. touch.zoom = None /\ touch.tapping = None
    BY <1>3, <1>6, <1>8
  <2>3. /\ touch' \in G!Touches /\ (touch'.pinch <=> ~over2) /\ touch'.zoom = None
        /\ touch'.timer = None /\ touch'.tapping = None
        /\ touch'.doubleTap = lifted.doubleTap
    BY <1>4, <2>1, <2>2 DEF G!Touches
  <2>4. /\ scope' \in G!Scopes /\ scope'.grab = scope.grab /\ scope'.label = scope.label
        /\ scope'.range = scope.range /\ scope'.pending = scope.pending
        /\ scope'.mode = scope.mode /\ scope'.did = scope.did
        /\ over2 => ~scope'.zoomBase
    BY <1>2, <2>1, EndDoes
  <2>5. G!TypeOK'
    BY <1>1, <1>2, <1>3, <2>3, <2>4 DEF Steady, G!TypeOK
  <2>6. Asked'
    BY <1>1, <2>4 DEF Steady, Asked, AskedIn, G!Held, G!Moved
  <2>7. Fingering'
    BY <1>3, <1>5, <1>6, <1>8, <2>3, <2>4 DEF Fingering
  <2>8. Grabbed'
    BY <1>1, <1>8, <2>4 DEF Steady, Grabbed, Holds, G!Held
  <2>9. Doing'
    <3> SUFFICES ASSUME ~chorded, ~mixed PROVE Doing'
      BY <1>1 DEF Doing
    <3>1. ~mouse.pressing /\ mouse.right = None /\ ~asks
      BY <1>1, FingersAlone
    <3>2. ~Holds(scope) /\ \A k \in G!Kinds : ~G!Held(scope', k)
      BY <1>8, <2>4, <3>1 DEF Steady, Grabbed, Holds, G!Held
    <3>3. OneComesOf(scope.did) /\ scope.did \subseteq {"pan", "zoom", "menu", "range"}
      BY <1>1 DEF Steady, Doing
    <3>4. QED
      BY <1>1, <2>3, <2>4, <3>1, <3>2, <3>3 DEF Doing, Holds
  <2>10. QED
    BY <1>7, <2>4, <2>5, <2>6, <2>7, <2>8, <2>9 DEF Steady
<1>9. CASE ~touch.pinch
  <2>1. G!Cardinality(fingers) = 1 /\ fingers = {f} /\ fingers' = {} /\ G!Cardinality(fingers') = 0
    BY <1>1, <1>3, <1>6, <1>9
  <2>2. lifted.doubleTap = None
    BY <1>5, <2>1
  <2>3. CASE touch.zoom # None
    <3>1. /\ touch' = [lifted EXCEPT !.zoom = None]
          /\ scope' = IF G!Zooming THEN G!ZoomEnd(scope) ELSE scope
      BY <1>9, <2>3 DEF G!FingerUp, lifted
    <3>2. touch.tapping = None
      BY <2>3 DEF Steady, Fingering
    <3>3. /\ touch' \in G!Touches /\ ~touch'.pinch /\ touch'.zoom = None
          /\ touch'.timer = None /\ touch'.tapping = None /\ touch'.doubleTap = None
      BY <1>4, <1>9, <2>2, <3>1, <3>2 DEF G!Touches
    <3>4. /\ scope' \in G!Scopes /\ scope'.grab = scope.grab /\ scope'.label = scope.label
          /\ scope'.range = scope.range /\ scope'.pending = scope.pending
          /\ scope'.mode = scope.mode /\ scope'.did = scope.did
          /\ G!Zooming => ~scope'.zoomBase
          /\ ~G!Zooming => scope' = scope
      BY <1>2, <3>1, EndDoes
    <3>5. ~scope'.zoomBase
      BY <1>9, <3>4 DEF Steady, Fingering
    <3>6. G!TypeOK'
      BY <1>1, <1>2, <1>3, <3>3, <3>4 DEF Steady, G!TypeOK
    <3>7. Asked'
      BY <1>1, <3>4 DEF Steady, Asked, AskedIn, G!Held, G!Moved
    <3>8. Fingering'
      BY <2>1, <3>3, <3>5 DEF Fingering
    <3>9. Grabbed'
      BY <1>1, <2>3, <3>4 DEF Steady, Grabbed, Holds, G!Held
    <3>10. Doing'
      <4> SUFFICES ASSUME ~chorded, ~mixed PROVE Doing'
        BY <1>1 DEF Doing
      <4>1. ~mouse.pressing /\ mouse.right = None /\ ~asks /\ buttons = {}
        BY <1>1, FingersAlone
      <4>2. ~Holds(scope) /\ \A k \in G!Kinds : ~G!Held(scope', k)
        BY <2>3, <3>4, <4>1 DEF Steady, Grabbed, Holds, G!Held
      <4>3. OneComesOf(scope.did)
        BY DEF Steady, Doing
      <4>4. QED
        BY <1>1, <2>1, <3>3, <3>4, <4>1, <4>2, <4>3 DEF Doing, Holds
    <3>11. QED
      BY <1>7, <3>4, <3>6, <3>7, <3>8, <3>9, <3>10 DEF Steady
  <2>4. CASE touch.zoom = None
    <3> DEFINE r == IF tapped THEN G!Tap(scope, p) ELSE scope
    <3>1. /\ touch' = [lifted EXCEPT !.lastTap = tapped, !.tapping = None]
          /\ scope' = G!Release(r)
      BY <1>9, <2>4 DEF G!FingerUp, lifted
    <3>2. /\ touch' \in G!Touches /\ ~touch'.pinch /\ touch'.zoom = None
          /\ touch'.timer = None /\ touch'.tapping = None /\ touch'.doubleTap = None
      <4>1. tapped \in BOOLEAN
        OBVIOUS
      <4> HIDE DEF tapped
      <4>2. QED
        BY <1>4, <1>9, <2>2, <2>4, <3>1, <4>1 DEF G!Touches
    <3>3. AskedIn(scope) /\ there \in BOOLEAN
      BY DEF Steady, Asked, G!TypeOK
    <3>4. /\ r \in G!Scopes /\ r.grab = scope.grab /\ r.label = scope.label
          /\ r.zoomBase = scope.zoomBase /\ r.range = scope.range
          /\ AskedIn(r) /\ (r.mode = "release" => scope.mode = "release")
          /\ r.did \subseteq scope.did \cup (IF tapped THEN {"tap"} ELSE {})
      BY <1>2, <3>3, TapDoes
    <3> HIDE DEF r
    <3>5. /\ scope' \in G!Scopes /\ scope'.grab = G!Nothing
          /\ scope'.zoomBase = scope.zoomBase /\ scope'.range = scope.range
          /\ \/ scope'.pending = "none" /\ scope'.mode = "none"
             \/ scope'.pending = r.pending /\ scope'.mode = r.mode /\ ~G!Moved(scope, "rbl")
          /\ scope'.label => scope.label /\ ~G!Held(scope, "block")
          /\ scope'.did \subseteq r.did \cup {k \in {"block", "rbl"} : G!Moved(scope, k)}
      BY <3>1, <3>4, ReleaseDoes DEF G!Held, G!Moved
    <3>6. G!TypeOK'
      BY <1>1, <1>2, <1>3, <3>2, <3>5 DEF Steady, G!TypeOK
    <3>7. Asked'
      BY <1>1, <3>4, <3>5 DEF Steady, Asked, AskedIn
    <3>8. ~scope.zoomBase
      BY <1>9, <2>4 DEF Steady, Fingering, G!Zooming
    <3>9. Fingering'
      BY <2>1, <3>2, <3>5, <3>8 DEF Fingering
    <3>10. \A k \in G!Kinds : ~G!Held(scope', k)
      BY <3>5, NothingHeld
    <3>11. Grabbed'
      BY <3>10 DEF Grabbed, Holds
    <3>12. Doing'
      <4> SUFFICES ASSUME ~chorded, ~mixed PROVE Doing'
        BY <1>1 DEF Doing
      <4>1. ~mouse.pressing /\ mouse.right = None /\ ~asks /\ buttons = {}
        BY <1>1, FingersAlone
      <4>2. /\ OneComesOf(scope.did) /\ scope.did \subseteq {"pan", "zoom", "menu", "range"}
            /\ \A j, k \in G!Kinds : G!Held(scope, j) /\ G!Held(scope, k) => j = k
            /\ \A k \in G!Kinds : G!Held(scope, k) =>
                 "menu" \notin scope.did /\ ("pan" \in scope.did => G!Moved(scope, "pan"))
            /\ touch.tapping # None =>
                 scope.did = {} /\ \A k \in G!Kinds : ~G!Moved(scope, k)
        BY <1>1 DEF Steady, Doing, G!Moved, Holds
      <4>3. \A k : G!Moved(scope, k) => G!Held(scope, k)
        BY DEF G!Moved
      <4>4. {"block", "rbl", "pan"} = G!Kinds
        BY DEF G!Kinds
      <4>5. OneComesOf(scope'.did)
        <5>1. CASE tapped
          <6>1. scope'.did \subseteq {"tap"}
            BY <3>4, <3>5, <4>2, <4>4, <5>1
          <6>2. QED
            BY <6>1, <4>4 DEF OneComesOf
        <5>2. CASE ~tapped
          <6>1. scope'.did \subseteq scope.did \cup {k \in {"block", "rbl"} : G!Moved(scope, k)}
            BY <3>4, <3>5, <5>2
          <6>2. CASE ~G!Moved(scope, "block") /\ ~G!Moved(scope, "rbl")
            <7>1. scope'.did \subseteq scope.did
              BY <6>1, <6>2
            <7>2. QED
              BY <7>1, <4>2 DEF OneComesOf
          <6>3. ASSUME NEW k \in {"block", "rbl"}, G!Moved(scope, k) PROVE OneComesOf(scope'.did)
            <7>1. \A j \in G!Kinds : G!Moved(scope, j) => j = k
              BY <4>2, <4>3, <4>4, <6>3
            <7>2. "pan" \notin scope.did /\ "menu" \notin scope.did
              BY <4>2, <4>3, <4>4, <6>3, <7>1
            <7>3. scope'.did \subseteq {"zoom", "range", k}
              BY <4>2, <4>4, <6>1, <7>1, <7>2
            <7>4. QED
              BY <6>3, <7>3, <4>4 DEF OneComesOf
          <6>4. QED
            BY <6>2, <6>3
        <5>3. QED
          BY <5>1, <5>2
      <4>6. QED
        BY <1>1, <2>1, <3>2, <3>10, <4>1, <4>5 DEF Doing, Holds
    <3>13. QED
      BY <1>7, <3>5, <3>6, <3>7, <3>9, <3>11, <3>12 DEF Steady
  <2>5. QED
    BY <2>3, <2>4
<1>10. QED
  BY <1>8, <1>9

(* A finger lands: alone, with another, or with more. *)
LEMMA FingerDownKeeps ==
  ASSUME G!GesturesAssumption, Steady, NEW f \in Fingers, NEW p \in G!Places,
         NEW soon \in BOOLEAN, G!FingerDown(f, p, soon)
  PROVE  Steady'
<1> DEFINE pressed == G!Pressed(scope)
<1>1. /\ f \notin fingers /\ fingers' = fingers \cup {f}
      /\ mouse' = [mouse EXCEPT !.mine = FALSE]
      /\ mixed' = (mixed \/ buttons # {} \/ asks)
      /\ UNCHANGED <<buttons, cursor, over, asks, platform, there, chorded>>
  BY DEF G!FingerDown
<1>2. /\ scope \in G!Scopes /\ touch \in G!Touches /\ mouse \in G!Mice
      /\ fingers \subseteq Fingers /\ G!IsFiniteSet(fingers)
  BY DEF Steady, G!TypeOK
<1>3. /\ G!Cardinality(fingers) \in Nat /\ (G!Cardinality(fingers) = 0 <=> fingers = {})
      /\ G!IsFiniteSet(fingers') /\ G!Cardinality(fingers') = G!Cardinality(fingers) + 1
      /\ fingers' \subseteq Fingers /\ fingers' # {}
  BY <1>1, <1>2, Counted
<1>4. /\ mouse' \in G!Mice /\ mouse'.pressing = mouse.pressing /\ mouse'.right = mouse.right
  BY <1>1, <1>2 DEF G!Mice
<1>5. /\ pressed \in G!Scopes /\ pressed.grab = scope.grab /\ pressed.label = scope.label
      /\ pressed.zoomBase = scope.zoomBase /\ pressed.range = scope.range
      /\ pressed.pending = scope.pending /\ pressed.mode = scope.mode
      /\ pressed.did = IF fingers = {} /\ buttons = {} THEN {} ELSE scope.did
  BY <1>2, PressDoes
<1> HIDE DEF pressed
<1>6. mixed' \in BOOLEAN /\ (~mixed' => ~mixed /\ buttons = {} /\ ~asks)
  BY <1>1 DEF Steady, G!TypeOK
<1>7. ASSUME ~mixed', ~chorded
      PROVE  ~mouse'.pressing /\ mouse'.right = None /\ ~asks' /\ buttons' = {}
  <2>1. buttons # {"left"} /\ buttons # {"right"} /\ ~asks /\ buttons = {}
    BY <1>6, <1>7
  <2>2. QED
    BY <1>1, <1>4, <1>7, <2>1 DEF Steady, Pressing
<1>8. Alone'
  BY <1>1, <1>6 DEF Alone
<1>9. (scope'.range = scope.range) => Pressing'
  BY <1>1, <1>4 DEF Steady, Pressing
<1>10. /\ touch' \in G!Touches /\ scope' \in G!Scopes => G!TypeOK'
  BY <1>1, <1>2, <1>3, <1>4, <1>6 DEF Steady, G!TypeOK
<1>11. CASE fingers = {} /\ G!Lands(f, p, soon)
  <2> DEFINE second == touch.lastTap /\ soon
             zooms == second /\ ~G!StartsRbl(scope, p)
             tap == [id |-> f, at |-> p]
             zoom == [id |-> f, at |-> p, started |-> FALSE]
  <2>1. /\ touch' = [touch EXCEPT
               !.lastTap = FALSE,
               !.doubleTap = IF second THEN f ELSE @,
               !.zoom = IF zooms THEN zoom ELSE @,
               !.tapping = IF zooms THEN @ ELSE tap,
               !.timer = IF zooms THEN @ ELSE p]
        /\ scope' = IF zooms THEN pressed ELSE G!Grab(pressed, p, FALSE)
    BY <1>11 DEF G!Lands, pressed
  <2>2. /\ touch.zoom = None /\ touch.tapping = None /\ touch.timer = None
        /\ touch.doubleTap = None /\ ~touch.pinch /\ ~scope.zoomBase
    BY <1>11, FewFingers DEF Steady, Fingering, G!Zooming
  <2>3. fingers' = {f} /\ ~(G!Cardinality(fingers') > 1)
    BY <1>1, <1>3, <1>11
  <2>4. /\ tap \in G!Taps /\ tap.id = f /\ tap.at = p
        /\ zoom \in G!Zooms /\ zoom.id = f
    BY DEF G!Taps, G!Zooms
  <2>5. /\ ~mixed' /\ ~chorded => ~Holds(scope)
        /\ Holds(scope) => mouse.pressing
    BY <1>4, <1>7, <1>11 DEF Steady, Grabbed
  <2> HIDE DEF tap, zoom, second
  <2>6. CASE zooms
    <3>1. /\ touch' \in G!Touches /\ touch'.pinch = touch.pinch /\ touch'.zoom = zoom
          /\ touch'.tapping = None /\ touch'.timer = None
          /\ touch'.doubleTap \in {f, None} /\ scope' = pressed
      BY <1>2, <2>1, <2>2, <2>4, <2>6 DEF G!Touches
    <3>2. Asked'
      BY <1>1, <1>5, <1>6, <3>1 DEF Steady, Asked, AskedIn, G!Held, G!Moved
    <3>3. Fingering'
      BY <1>5, <2>2, <2>3, <2>4, <3>1 DEF Fingering
    <3>4. Grabbed'
      BY <1>4, <1>5, <2>5, <3>1 DEF Grabbed, Holds, G!Held
    <3>5. Doing'
      <4> SUFFICES ASSUME ~chorded, ~mixed' PROVE Doing'
        BY <1>1 DEF Doing
      <4>1. ~Holds(scope) /\ scope'.did = {}
        BY <1>5, <1>6, <1>11, <2>5, <3>1
      <4>2. \A k \in G!Kinds : ~G!Held(scope', k)
        BY <1>5, <3>1, <4>1 DEF Holds, G!Held
      <4>3. QED
        BY <1>7, <3>1, <4>1, <4>2 DEF Doing, OneComesOf, Holds
    <3>6. QED
      BY <1>5, <1>8, <1>9, <1>10, <3>1, <3>2, <3>3, <3>4, <3>5 DEF Steady
  <2>7. CASE ~zooms
    <3>1. /\ touch' \in G!Touches /\ touch'.pinch = touch.pinch /\ touch'.zoom = None
          /\ touch'.tapping = tap /\ touch'.timer = p
          /\ touch'.doubleTap \in {f, None} /\ scope' = G!Grab(pressed, p, FALSE)
      BY <1>2, <2>1, <2>2, <2>4, <2>7 DEF G!Touches
    <3>2. tap # None
      BY <2>4 DEF G!GesturesAssumption
    <3>3. /\ scope' \in G!Scopes
          /\ scope'.pending = scope.pending /\ scope'.mode = scope.mode
          /\ scope'.label = scope.label /\ scope'.zoomBase = scope.zoomBase
          /\ scope'.range = scope.range /\ scope'.did = pressed.did
          /\ \E kind \in G!Kinds :
               /\ G!Held(scope', kind) /\ scope'.grab[kind].from = p /\ ~scope'.grab[kind].moved
               /\ \A k \in G!Kinds \ {kind} : scope'.grab[k] = scope.grab[k]
      <4> DEFINE t == G!Grab(pressed, p, FALSE)
      <4>1. /\ t \in G!Scopes
            /\ t.pending = pressed.pending /\ t.mode = pressed.mode
            /\ t.label = pressed.label /\ t.zoomBase = pressed.zoomBase
            /\ t.range = pressed.range /\ t.did = pressed.did
            /\ \E kind \in G!Kinds :
                 /\ G!Held(t, kind) /\ t.grab[kind].from = p /\ ~t.grab[kind].moved
                 /\ \A k \in G!Kinds \ {kind} : t.grab[k] = pressed.grab[k]
        BY <1>5, GrabDoes
      <4> HIDE DEF t
      <4>2. scope' = t
        BY <3>1 DEF t
      <4>3. QED
        BY <1>5, <4>1, <4>2 DEF G!Held
    <3>4. PICK kind \in G!Kinds :
            /\ G!Held(scope', kind) /\ scope'.grab[kind].from = p /\ ~scope'.grab[kind].moved
            /\ \A k \in G!Kinds \ {kind} : scope'.grab[k] = scope.grab[k]
      BY <3>3
    <3>5. "block" \in G!Kinds /\ "rbl" \in G!Kinds
      BY DEF G!Kinds
    <3>6. Asked'
      <4>1. AskedIn(scope')
        BY <3>3 DEF Steady, Asked, AskedIn
      <4>2. scope'.label => G!Held(scope', "block")
        BY <3>3, <3>4, <3>5 DEF Steady, Asked, G!Held
      <4>3. ASSUME scope'.mode = "release", ~mixed', ~chorded' PROVE FALSE
        <5>1. ~Holds(scope) /\ ~mixed
          BY <1>1, <1>6, <2>5, <4>3
        <5>2. scope.mode = "release" /\ ~G!Moved(scope, "rbl")
          BY <3>3, <3>5, <4>3, <5>1 DEF Holds, G!Moved
        <5>3. QED
          BY <1>1, <4>3, <5>1, <5>2 DEF Steady, Asked
      <4>4. QED
        BY <4>1, <4>2, <4>3 DEF Asked
    <3>7. Fingering'
      BY <2>2, <2>3, <2>4, <3>1, <3>2, <3>3 DEF Fingering
    <3>8. Grabbed'
      BY <1>3, <2>2, <3>1 DEF Grabbed
    <3>9. Doing'
      <4> SUFFICES ASSUME ~chorded, ~mixed' PROVE Doing'
        BY <1>1 DEF Doing
      <4>1. ~Holds(scope) /\ scope'.did = {}
        BY <1>5, <1>6, <1>11, <2>5, <3>3
      <4>2. \A k \in G!Kinds : G!Held(scope', k) => k = kind
        BY <3>4, <4>1 DEF Holds, G!Held
      <4>3. QED
        BY <1>7, <2>4, <3>1, <3>4, <4>1, <4>2 DEF Doing, OneComesOf, Holds
    <3>10. QED
      BY <1>8, <1>9, <1>10, <3>1, <3>3, <3>6, <3>7, <3>8, <3>9 DEF Steady
  <2>8. QED
    BY <2>6, <2>7
<1>12. CASE G!Cardinality(fingers) = 1 /\ G!Pinches
  <2>1. /\ touch' = [touch EXCEPT !.timer = None, !.tapping = None, !.zoom = None,
                                  !.pinch = TRUE]
        /\ scope' = G!ZoomStart(pressed)
    BY <1>12 DEF G!Pinches, pressed
  <2>2. /\ touch' \in G!Touches /\ touch'.pinch /\ touch'.zoom = None
        /\ touch'.tapping = None /\ touch'.timer = None
        /\ touch'.doubleTap = touch.doubleTap
    BY <1>2, <2>1 DEF G!Touches
  <2>3. /\ scope' \in G!Scopes /\ scope'.grab = G!Nothing /\ ~scope'.label
        /\ scope'.range = scope.range
        /\ \/ scope'.pending = "none" /\ scope'.mode = "none"
           \/ scope'.pending = scope.pending /\ scope'.mode = scope.mode
              /\ ~G!Moved(scope, "rbl")
        /\ scope'.did \subseteq scope.did \cup {"zoom"}
    <3>1. fingers # {}
      BY <1>3, <1>12
    <3>2. pressed.did = scope.did
      BY <1>5, <3>1
    <3>3. QED
      BY <1>5, <2>1, <3>2, ZoomDoes DEF G!Moved, G!Held
  <2>4. \A k \in G!Kinds : ~G!Held(scope', k)
    BY <2>3, NothingHeld
  <2>5. Asked'
    BY <1>1, <1>6, <2>3 DEF Steady, Asked, AskedIn
  <2>6. G!Cardinality(fingers') > 1
    BY <1>3, <1>12
  <2>7. Fingering'
    BY <1>1, <2>2, <2>6 DEF Steady, Fingering
  <2>8. Grabbed'
    BY <2>4 DEF Grabbed, Holds
  <2>9. Doing'
    <3> SUFFICES ASSUME ~chorded, ~mixed' PROVE Doing'
      BY <1>1 DEF Doing
    <3>1. OneComesOf(scope.did) /\ scope.did \subseteq {"pan", "zoom", "menu", "range"}
      BY <1>3, <1>6, <1>12 DEF Steady, Doing
    <3>2. OneComesOf(scope'.did) /\ scope'.did \subseteq {"pan", "zoom", "menu", "range"}
      BY <2>3, <3>1 DEF OneComesOf, G!Kinds
    <3>3. QED
      BY <1>7, <2>2, <2>4, <3>2 DEF Doing, Holds
  <2>10. QED
    BY <1>8, <1>9, <1>10, <2>2, <2>3, <2>5, <2>7, <2>8, <2>9 DEF Steady
<1>13. CASE G!Cardinality(fingers) > 1 /\ scope' = G!Pressed(scope) /\ UNCHANGED touch
  <2>1. scope' = pressed /\ touch' = touch /\ fingers # {} /\ scope'.did = scope.did
    BY <1>3, <1>5, <1>13 DEF pressed
  <2>2. /\ touch.pinch /\ touch.zoom = None /\ touch.tapping = None /\ touch.timer = None
    BY <1>3, <1>13, FewFingers DEF Steady, Fingering
  <2>3. Asked'
    BY <1>1, <1>5, <1>6, <2>1 DEF Steady, Asked, AskedIn, G!Held, G!Moved
  <2>4. G!Cardinality(fingers') > 1
    BY <1>3, <1>13
  <2>5. Fingering'
    BY <1>1, <2>1, <2>2, <2>4 DEF Steady, Fingering
  <2>6. Grabbed'
    BY <1>4, <1>5, <2>1, <2>2 DEF Steady, Grabbed, Holds, G!Held
  <2>7. Doing'
    <3> SUFFICES ASSUME ~chorded, ~mixed' PROVE Doing'
      BY <1>1 DEF Doing
    <3>1. OneComesOf(scope.did) /\ scope.did \subseteq {"pan", "zoom", "menu", "range"}
      BY <1>6, <2>1 DEF Steady, Doing
    <3>2. ~Holds(scope)
      BY <1>4, <1>7, <2>2 DEF Steady, Grabbed
    <3>3. \A k \in G!Kinds : ~G!Held(scope', k)
      BY <1>5, <2>1, <3>2 DEF Holds, G!Held
    <3>4. QED
      BY <1>7, <2>1, <2>2, <3>1, <3>3 DEF Doing, Holds
  <2>8. QED
    BY <1>2, <1>5, <1>8, <1>9, <1>10, <2>1, <2>3, <2>5, <2>6, <2>7 DEF Steady
<1>14. QED
  BY <1>11, <1>12, <1>13 DEF G!FingerDown

-----------------------------------------------------------------------------
(* The mouse.                                                              *)

LEMMA RightDownKeeps ==
  ASSUME G!GesturesAssumption, Steady, G!MouseDown("right")
  PROVE  Steady'
<1> DEFINE right == [at |-> cursor, started |-> FALSE]
<1>1. /\ ~asks /\ buttons = {} /\ buttons' = {"right"}
      /\ mouse' = [mouse EXCEPT !.mine = TRUE, !.right = right]
      /\ scope' = G!Pressed(scope) /\ asks' \in BOOLEAN
      /\ mixed' = (mixed \/ fingers # {})
      /\ UNCHANGED <<touch, fingers, cursor, over, platform, there, chorded>>
  BY DEF G!MouseDown, G!AsksOn, Steady, G!TypeOK
<1>2. scope \in G!Scopes /\ mouse \in G!Mice /\ cursor \in G!Places /\ mixed \in BOOLEAN
  BY DEF Steady, G!TypeOK
<1>3. right \in G!Rights /\ ~right.started
  BY <1>2 DEF G!Rights
<1>4. right # None
  BY <1>3 DEF G!GesturesAssumption
<1> HIDE DEF right
<1>5. mouse' \in G!Mice /\ mouse'.pressing = mouse.pressing /\ mouse'.right = right
  BY <1>1, <1>2, <1>3 DEF G!Mice
<1>6. /\ scope' \in G!Scopes /\ scope'.grab = scope.grab /\ scope'.label = scope.label
      /\ scope'.zoomBase = scope.zoomBase /\ scope'.range = scope.range
      /\ scope'.pending = scope.pending /\ scope'.mode = scope.mode
      /\ fingers = {} => scope'.did = {}
  BY <1>1, <1>2, PressDoes
<1>7. mixed' \in BOOLEAN /\ (~mixed' => ~mixed /\ fingers = {})
  BY <1>1, <1>2
<1>8. G!TypeOK'
  BY <1>1, <1>5, <1>6, <1>7 DEF Steady, G!TypeOK, G!Buttons
<1>9. Asked'
  BY <1>1, <1>6, <1>7 DEF Steady, Asked, AskedIn, G!Held, G!Moved
<1>10. Fingering'
  BY <1>1, <1>6 DEF Steady, Fingering, G!Zooming
<1>11. {"right"} # {"left"} /\ {"right"} # G!Buttons /\ buttons # {"left"}
  BY <1>1 DEF G!Buttons
<1>12. ~chorded => ~mouse.pressing
  BY <1>11 DEF Steady, Pressing
<1>13. Pressing' /\ Alone'
  BY <1>1, <1>4, <1>5, <1>7, <1>11, <1>12 DEF Pressing, Alone
<1>14. Grabbed'
  BY <1>1, <1>5, <1>6 DEF Steady, Grabbed, Holds, G!Held
<1>15. Doing'
  <2> SUFFICES ASSUME ~chorded, ~mixed' PROVE Doing'
    BY <1>1 DEF Doing
  <2>1. touch'.tapping = None /\ scope'.did = {} /\ ~mouse'.pressing
    BY <1>1, <1>5, <1>6, <1>7, <1>12, FewFingers DEF Steady
  <2>2. ~Holds(scope)
    BY <1>7, <1>12 DEF Steady, Grabbed
  <2>3. \A k \in G!Kinds : ~G!Held(scope', k)
    BY <1>6, <2>2 DEF Holds, G!Held
  <2>4. QED
    BY <1>3, <1>5, <2>1, <2>3 DEF Doing, OneComesOf, Holds
<1>16. QED
  BY <1>8, <1>9, <1>10, <1>13, <1>14, <1>15 DEF Steady

LEMMA LeftDownKeeps ==
  ASSUME G!GesturesAssumption, Steady, G!MouseDown("left")
  PROVE  Steady'
<1> DEFINE pressed == G!Pressed(scope)
<1>1. /\ ~asks /\ buttons = {} /\ buttons' = {"left"}
      /\ mouse' = [mouse EXCEPT !.mine = TRUE, !.pressing = TRUE]
      /\ scope' = G!Grab(pressed, cursor, TRUE) /\ ~asks' /\ asks' = FALSE
      /\ mixed' = (mixed \/ fingers # {})
      /\ UNCHANGED <<touch, fingers, cursor, over, platform, there, chorded>>
  BY DEF G!MouseDown, G!AsksOn
<1>2. scope \in G!Scopes /\ mouse \in G!Mice /\ cursor \in G!Places /\ mixed \in BOOLEAN
  BY DEF Steady, G!TypeOK
<1>3. /\ pressed \in G!Scopes /\ pressed.grab = scope.grab /\ pressed.label = scope.label
      /\ pressed.zoomBase = scope.zoomBase /\ pressed.range = scope.range
      /\ pressed.pending = scope.pending /\ pressed.mode = scope.mode
      /\ fingers = {} => pressed.did = {}
  BY <1>1, <1>2, PressDoes
<1> HIDE DEF pressed
<1>4. mouse' \in G!Mice /\ mouse'.pressing /\ mouse'.right = mouse.right
  BY <1>1, <1>2 DEF G!Mice
<1>5. /\ scope' \in G!Scopes
      /\ scope'.pending = scope.pending /\ scope'.mode = scope.mode
      /\ scope'.label = scope.label /\ scope'.zoomBase = scope.zoomBase
      /\ scope'.range = scope.range /\ scope'.did = pressed.did
      /\ \E kind \in G!Kinds :
           /\ G!Held(scope', kind) /\ ~scope'.grab[kind].moved
           /\ \A k \in G!Kinds \ {kind} : scope'.grab[k] = scope.grab[k]
  <2> DEFINE t == G!Grab(pressed, cursor, TRUE)
  <2>1. /\ t \in G!Scopes
        /\ t.pending = pressed.pending /\ t.mode = pressed.mode
        /\ t.label = pressed.label /\ t.zoomBase = pressed.zoomBase
        /\ t.range = pressed.range /\ t.did = pressed.did
        /\ \E kind \in G!Kinds :
             /\ G!Held(t, kind) /\ t.grab[kind].from = cursor /\ ~t.grab[kind].moved
             /\ \A k \in G!Kinds \ {kind} : t.grab[k] = pressed.grab[k]
    BY <1>2, <1>3, GrabDoes
  <2> HIDE DEF t
  <2>2. scope' = t
    BY <1>1 DEF t
  <2>3. QED
    BY <1>3, <2>1, <2>2 DEF G!Held
<1>6. PICK kind \in G!Kinds :
        /\ G!Held(scope', kind) /\ ~scope'.grab[kind].moved
        /\ \A k \in G!Kinds \ {kind} : scope'.grab[k] = scope.grab[k]
  BY <1>5
<1>7. mixed' \in BOOLEAN /\ (~mixed' => ~mixed /\ fingers = {})
  BY <1>1, <1>2
<1>8. G!TypeOK'
  BY <1>1, <1>4, <1>5, <1>7 DEF Steady, G!TypeOK, G!Buttons
<1>9. /\ {"left"} # G!Buttons /\ {"left"} # {"right"} /\ buttons # {"left"}
      /\ buttons # {"right"}
  BY <1>1 DEF G!Buttons
<1>10. ~chorded => ~mouse.pressing /\ mouse.right = None /\ (scope.range => FALSE)
  BY <1>9 DEF Steady, Pressing
<1>11. ~chorded /\ ~mixed' => ~Holds(scope)
  BY <1>7, <1>10 DEF Steady, Grabbed
<1>12. "block" \in G!Kinds /\ "rbl" \in G!Kinds
  BY DEF G!Kinds
<1>13. Asked'
  <2>1. AskedIn(scope')
    BY <1>5 DEF Steady, Asked, AskedIn
  <2>2. scope'.label => G!Held(scope', "block")
    BY <1>5, <1>6, <1>12 DEF Steady, Asked, G!Held
  <2>3. ASSUME scope'.mode = "release", ~mixed', ~chorded' PROVE FALSE
    <3>1. ~Holds(scope) /\ ~mixed /\ ~chorded
      BY <1>1, <1>7, <1>11, <2>3
    <3>2. scope.mode = "release" /\ ~G!Moved(scope, "rbl")
      BY <1>5, <1>12, <2>3, <3>1 DEF Holds, G!Moved
    <3>3. QED
      BY <3>1, <3>2 DEF Steady, Asked
  <2>4. QED
    BY <2>1, <2>2, <2>3 DEF Asked
<1>14. Fingering'
  BY <1>1, <1>5 DEF Steady, Fingering, G!Zooming
<1>15. Pressing' /\ Alone'
  BY <1>1, <1>4, <1>5, <1>7, <1>9, <1>10 DEF Pressing, Alone
<1>16. Grabbed'
  BY <1>4 DEF Grabbed
<1>17. Doing'
  <2> SUFFICES ASSUME ~chorded, ~mixed' PROVE Doing'
    BY <1>1 DEF Doing
  <2>1. touch'.tapping = None /\ scope'.did = {} /\ mouse'.right = None
    BY <1>1, <1>3, <1>4, <1>5, <1>7, <1>10, FewFingers DEF Steady
  <2>2. \A k \in G!Kinds : G!Held(scope', k) => k = kind
    BY <1>6, <1>11 DEF Holds, G!Held
  <2>3. \A j, k \in G!Kinds : G!Held(scope', j) /\ G!Held(scope', k) => j = k
    BY <2>2
  <2>4. QED
    BY <1>1, <2>1, <2>3 DEF Doing, OneComesOf, Holds
<1>18. QED
  BY <1>8, <1>13, <1>14, <1>15, <1>16, <1>17 DEF Steady

(* The mouse moves what it holds, or begins to measure. *)
LEMMA MouseMoveKeeps ==
  ASSUME G!GesturesAssumption, Steady, NEW p \in G!Places, NEW on \in BOOLEAN, G!MouseMove(p, on)
  PROVE  Steady'
<1> DEFINE ranges == mouse.right # None /\ ~mouse.right.started /\ mouse.right.at # p
           hovers == IF on THEN TRUE ELSE scope.pointer /\ ~over
           s == [scope EXCEPT
                   !.pointer = hovers, !.range = @ \/ ranges,
                   !.did = IF ranges THEN G!Did(scope, {"range"}) ELSE @]
<1>1. /\ ~asks /\ cursor' = p /\ over' = on
      /\ mouse' = IF ranges THEN [mouse EXCEPT !.right.started = TRUE] ELSE mouse
      /\ scope' = G!DragTo(s, p)
      /\ mixed' = (mixed \/ fingers # {})
      /\ UNCHANGED <<touch, fingers, buttons, asks, platform, there, chorded>>
  BY DEF G!MouseMove
<1>2. scope \in G!Scopes /\ mouse \in G!Mice /\ mixed \in BOOLEAN
  BY DEF Steady, G!TypeOK
<1>3. /\ s \in G!Scopes /\ s.grab = scope.grab /\ s.label = scope.label
      /\ s.zoomBase = scope.zoomBase /\ (s.range <=> scope.range \/ ranges)
      /\ s.pending = scope.pending /\ s.mode = scope.mode
      /\ s.did \subseteq scope.did \cup (IF ranges THEN {"range"} ELSE {})
  <2>1. hovers \in BOOLEAN /\ ranges \in BOOLEAN
    BY <1>2 DEF G!Scopes, Steady, G!TypeOK
  <2> HIDE DEF hovers, ranges
  <2> DEFINE comes == IF ranges THEN G!Did(scope, {"range"}) ELSE scope.did
  <2>2. comes \subseteq G!Outcomes /\ comes \subseteq scope.did \cup (IF ranges THEN {"range"} ELSE {})
    BY <1>2 DEF G!Did, G!Scopes, G!Outcomes
  <2> HIDE DEF comes
  <2>3. s = [scope EXCEPT !.pointer = hovers, !.range = scope.range \/ ranges, !.did = comes]
    BY <1>2 DEF comes, G!Scopes
  <2>4. (scope.range \/ ranges) \in BOOLEAN
    BY <1>2, <2>1 DEF G!Scopes
  <2> HIDE DEF s
  <2>5. s \in G!Scopes
    BY <1>2, <2>1, <2>2, <2>3, <2>4 DEF G!Scopes
  <2>6. /\ s.grab = scope.grab /\ s.label = scope.label /\ s.zoomBase = scope.zoomBase
        /\ s.pending = scope.pending /\ s.mode = scope.mode /\ s.did = comes
    BY <1>2, <2>3 DEF G!Scopes
  <2>7. s.range <=> (scope.range \/ ranges)
    BY <1>2, <2>3, <2>4 DEF G!Scopes
  <2>8. QED
    BY <2>2, <2>5, <2>6, <2>7
<1> HIDE DEF s
<1>4. /\ scope' \in G!Scopes
      /\ scope'.zoomBase = scope.zoomBase /\ (scope'.range <=> scope.range \/ ranges)
      /\ \A k \in G!Kinds :
           /\ G!Held(scope', k) <=> G!Held(scope, k)
           /\ G!Moved(scope, k) => G!Moved(scope', k)
      /\ \/ scope'.pending = scope.pending /\ scope'.mode = scope.mode
         \/ scope'.pending = "b" /\ scope'.mode = "release" /\ G!Moved(scope', "rbl")
      /\ scope'.label => scope.label \/ G!Held(scope, "block")
      /\ scope'.did \subseteq scope.did \cup {"pan"} \cup (IF ranges THEN {"range"} ELSE {})
      /\ "pan" \in scope'.did => "pan" \in scope.did \/ G!Moved(scope', "pan")
  BY <1>1, <1>3, DragDoes DEF G!Held, G!Moved
<1>5. /\ mouse' \in G!Mice /\ mouse'.pressing = mouse.pressing
      /\ mouse'.right # None <=> mouse.right # None
      /\ IF ranges THEN mouse'.right.started ELSE mouse'.right = mouse.right
      /\ mouse'.quiet = mouse.quiet
  <2>1. CASE ranges
    <3>1. mouse.right \in G!Rights
      BY <1>2, <2>1 DEF G!Mice
    <3>2. [mouse.right EXCEPT !.started = TRUE] \in G!Rights
      BY <3>1 DEF G!Rights
    <3>3. /\ mouse' \in G!Mice /\ mouse'.pressing = mouse.pressing
          /\ mouse'.right \in G!Rights /\ mouse'.right.started /\ mouse'.quiet = mouse.quiet
      BY <1>1, <1>2, <2>1, <3>1, <3>2 DEF G!Mice, G!Rights
    <3>4. mouse'.right # None
      BY <3>3 DEF G!GesturesAssumption
    <3>5. QED
      BY <2>1, <3>3, <3>4
  <2>2. CASE ~ranges
    BY <1>1, <1>2, <2>2
  <2>3. QED
    BY <2>1, <2>2
<1>6. mixed' \in BOOLEAN /\ (~mixed' => ~mixed /\ fingers = {})
  BY <1>1, <1>2
<1>7. G!TypeOK'
  BY <1>1, <1>4, <1>5, <1>6 DEF Steady, G!TypeOK
<1>8. "block" \in G!Kinds /\ "rbl" \in G!Kinds /\ "pan" \in G!Kinds
  BY DEF G!Kinds
<1>9. Asked'
  BY <1>1, <1>4, <1>6, <1>8 DEF Steady, Asked, AskedIn
<1>10. Fingering'
  BY <1>1, <1>4 DEF Steady, Fingering, G!Zooming
<1>11. Alone'
  BY <1>6, <1>1 DEF Alone
<1>12. Pressing'
  BY <1>1, <1>4, <1>5 DEF Steady, Pressing
<1>13. Grabbed'
  BY <1>1, <1>4, <1>5 DEF Steady, Grabbed, Holds
<1>14. Doing'
  <2> SUFFICES ASSUME ~chorded, ~mixed' PROVE Doing'
    BY <1>1 DEF Doing
  <2>1. ~mixed /\ fingers = {} /\ touch'.tapping = None /\ (Holds(scope) => mouse.pressing)
    BY <1>1, <1>6, FewFingers DEF Steady, Grabbed
  <2>2. /\ OneComesOf(scope.did)
        /\ \A j, k \in G!Kinds : G!Held(scope, j) /\ G!Held(scope, k) => j = k
        /\ buttons # {} => scope.did \subseteq {"pan", "zoom", "menu", "range"}
        /\ mouse.pressing =>
             scope.did \subseteq {"pan"} /\ ("pan" \in scope.did => G!Moved(scope, "pan"))
        /\ mouse.right # None /\ ~mouse.right.started => scope.did = {}
    BY <2>1 DEF Steady, Doing
  <2>3. \A j, k \in G!Kinds : G!Held(scope', j) /\ G!Held(scope', k) => j = k
    BY <1>4, <2>2
  <2>4. CASE Holds(scope)
    <3>1. mouse.pressing /\ ~ranges /\ mouse'.right = None /\ mouse'.pressing
      <4>1. mouse.pressing /\ buttons = {"left"} /\ buttons # {"right"}
        BY <2>1, <2>4 DEF Steady, Pressing
      <4>2. QED
        BY <1>5, <4>1 DEF Steady, Pressing
    <3>2. scope'.did \subseteq {"pan"}
      BY <1>4, <2>2, <3>1
    <3>3. "pan" \in scope'.did => G!Moved(scope', "pan")
      BY <1>4, <1>8, <2>2, <3>1
    <3>4. OneComesOf(scope'.did) /\ "menu" \notin scope'.did
      BY <3>2 DEF OneComesOf
    <3>5. QED
      BY <1>1, <2>1, <2>3, <3>1, <3>2, <3>3, <3>4 DEF Doing
  <2>5. CASE ~Holds(scope)
    <3>1. ~Holds(scope') /\ \A k \in G!Kinds : ~G!Held(scope', k) /\ ~G!Moved(scope', k)
      BY <1>4, <2>5 DEF Holds, G!Moved
    <3>2. "pan" \in scope'.did => "pan" \in scope.did
      BY <1>4, <1>8, <3>1
    <3>3. CASE ranges
      <4>1. scope.did = {} /\ scope'.did \subseteq {"range"}
        BY <1>4, <2>2, <3>2, <3>3
      <4>2. ~mouse'.pressing /\ mouse'.right.started
        <5>1. buttons = {"right"} /\ buttons # {"left"}
          BY <3>3 DEF Steady, Pressing
        <5>2. ~mouse.pressing
          BY <5>1 DEF Steady, Pressing
        <5>3. QED
          BY <1>5, <3>3, <5>2
      <4>3. OneComesOf(scope'.did)
        BY <4>1 DEF OneComesOf, G!Kinds
      <4>4. QED
        BY <1>1, <2>1, <3>1, <4>1, <4>2, <4>3 DEF Doing
    <3>4. CASE ~ranges
      <4>1. scope'.did \subseteq scope.did /\ mouse'.right = mouse.right
        BY <1>4, <1>5, <3>2, <3>4
      <4>2. OneComesOf(scope'.did)
        BY <2>2, <4>1 DEF OneComesOf
      <4>3. mouse'.pressing => scope'.did \subseteq {"pan"} /\ "pan" \notin scope'.did
        BY <1>5, <1>8, <2>2, <2>5, <3>2, <4>1 DEF Holds, G!Moved
      <4>4. mouse'.right # None /\ ~mouse'.right.started => scope'.did = {}
        BY <2>2, <4>1
      <4>5. buttons' # {} => scope'.did \subseteq {"pan", "zoom", "menu", "range"}
        BY <1>1, <2>2, <4>1
      <4>6. QED
        BY <1>1, <2>1, <3>1, <4>2, <4>3, <4>4, <4>5 DEF Doing
    <3>5. QED
      BY <3>3, <3>4
  <2>6. QED
    BY <2>4, <2>5
<1>15. QED
  BY <1>7, <1>9, <1>10, <1>11, <1>12, <1>13, <1>14 DEF Steady

LEMMA RightUpKeeps ==
  ASSUME G!GesturesAssumption, Steady, NEW cancelled \in BOOLEAN, G!MouseUp("right", cancelled)
  PROVE  Steady'
<1>1. /\ ~asks /\ buttons = {"right"} /\ buttons' = {} /\ mouse' = G!RightUp(mouse)
      /\ scope' = IF mouse.right = None THEN scope
                  ELSE IF mouse.heldMenu /\ ~mouse.right.started
                       THEN [G!OpenMenu(scope) EXCEPT !.range = FALSE]
                       ELSE [scope EXCEPT !.range = FALSE]
      /\ asks' \in BOOLEAN
      /\ UNCHANGED <<touch, fingers, cursor, over, platform, there, chorded, mixed>>
  BY DEF G!MouseUp, G!AsksOn, Steady, G!TypeOK
<1>2. scope \in G!Scopes /\ mouse \in G!Mice
  BY DEF Steady, G!TypeOK
<1>3. /\ mouse' \in G!Mice /\ mouse'.pressing = mouse.pressing /\ mouse'.right = None
      /\ mouse.right # None /\ mouse.right.started => mouse'.quiet
  <2>1. CASE mouse.right = None
    BY <1>1, <1>2, <2>1 DEF G!RightUp
  <2>2. CASE mouse.right # None
    <3>1. mouse.right \in G!Rights
      BY <1>2, <2>2 DEF G!Mice
    <3>2. mouse.right.started \in BOOLEAN
      BY <3>1 DEF G!Rights
    <3>3. mouse' = [mouse EXCEPT !.quiet = @ \/ mouse.right.started, !.heldMenu = FALSE,
                                 !.right = None]
      BY <1>1, <2>2 DEF G!RightUp
    <3>4. QED
      BY <1>2, <3>2, <3>3 DEF G!Mice
  <2>3. QED
    BY <2>1, <2>2
<1>4. /\ scope' \in G!Scopes /\ scope'.grab = scope.grab /\ scope'.label = scope.label
      /\ scope'.zoomBase = scope.zoomBase
      /\ scope'.pending = scope.pending /\ scope'.mode = scope.mode
      /\ mouse.right # None => ~scope'.range
      /\ mouse.right = None => scope'.range = scope.range
      /\ \/ scope'.did = scope.did
         \/ /\ mouse.right # None /\ ~mouse.right.started
            /\ scope'.did \subseteq scope.did \cup {"menu"}
  <2>1. CASE mouse.right = None
    BY <1>1, <1>2, <2>1
  <2>2. CASE mouse.right # None /\ mouse.heldMenu /\ ~mouse.right.started
    <3> DEFINE m == G!OpenMenu(scope)
    <3>1. /\ m \in G!Scopes /\ m.grab = scope.grab /\ m.label = scope.label
          /\ m.zoomBase = scope.zoomBase /\ m.pending = scope.pending /\ m.mode = scope.mode
          /\ m.did \subseteq scope.did \cup {"menu"}
      BY <1>2, MenuDoes
    <3> HIDE DEF m
    <3>2. scope' = [m EXCEPT !.range = FALSE]
      BY <1>1, <2>2 DEF m
    <3>3. QED
      BY <2>2, <3>1, <3>2 DEF G!Scopes
  <2>3. CASE mouse.right # None /\ ~(mouse.heldMenu /\ ~mouse.right.started)
    <3>1. scope' = [scope EXCEPT !.range = FALSE]
      BY <1>1, <2>3
    <3>2. QED
      BY <1>2, <2>3, <3>1 DEF G!Scopes
  <2>4. QED
    BY <2>1, <2>2, <2>3
<1>5. G!TypeOK'
  BY <1>1, <1>3, <1>4 DEF Steady, G!TypeOK
<1>6. Asked'
  BY <1>1, <1>4 DEF Steady, Asked, AskedIn, G!Held, G!Moved
<1>7. Fingering'
  BY <1>1, <1>4 DEF Steady, Fingering, G!Zooming
<1>8. buttons # {"left"} /\ {} # G!Buttons /\ buttons' # {"right"}
  BY <1>1 DEF G!Buttons
<1>9. ~chorded => ~mouse.pressing /\ mouse.right # None
  BY <1>1, <1>8 DEF Steady, Pressing
<1>10. Alone' /\ Pressing'
  BY <1>1, <1>3, <1>4, <1>8, <1>9, MouseAlone DEF Pressing, Alone
<1>11. Grabbed'
  BY <1>1, <1>3, <1>4 DEF Steady, Grabbed, Holds, G!Held
<1>12. Doing'
  <2> SUFFICES ASSUME ~chorded, ~mixed PROVE Doing'
    BY <1>1 DEF Doing
  <2>1. fingers = {} /\ touch.tapping = None /\ (Holds(scope) => mouse.pressing)
    BY <1>1, MouseAlone
  <2>2. \A k \in G!Kinds : ~G!Held(scope', k)
    BY <1>4, <1>9, <2>1 DEF Holds, G!Held
  <2>3. /\ OneComesOf(scope.did)
        /\ ~mouse.right.started => scope.did = {}
    BY <1>9 DEF Steady, Doing
  <2>4. OneComesOf(scope'.did)
    BY <1>4, <2>3 DEF OneComesOf, G!Kinds
  <2>5. ~mouse'.quiet => scope'.did \subseteq {"menu"}
    BY <1>3, <1>4, <1>9, <2>3
  <2>6. QED
    BY <1>1, <1>3, <1>9, <2>1, <2>2, <2>4, <2>5 DEF Doing, Holds
<1>13. QED
  BY <1>5, <1>6, <1>7, <1>10, <1>11, <1>12 DEF Steady

LEMMA LeftUpKeeps ==
  ASSUME G!GesturesAssumption, Steady, NEW cancelled \in BOOLEAN, G!MouseUp("left", cancelled)
  PROVE  Steady'
<1> DEFINE r == G!Release(scope)
<1>1. /\ ~asks /\ buttons = {"left"} /\ buttons' = {}
      /\ mouse' = [mouse EXCEPT !.pressing = FALSE]
      /\ scope' = G!LeftUp(scope, cancelled) /\ ~asks' /\ asks' = FALSE
      /\ UNCHANGED <<touch, fingers, cursor, over, platform, there, chorded, mixed>>
  BY DEF G!MouseUp, G!AsksOn
<1>2. /\ scope \in G!Scopes /\ mouse \in G!Mice /\ cursor \in G!Places /\ there \in BOOLEAN
      /\ AskedIn(scope)
  BY DEF Steady, G!TypeOK, Asked
<1>3. mouse' \in G!Mice /\ ~mouse'.pressing /\ mouse'.right = mouse.right
  BY <1>1, <1>2 DEF G!Mice
<1>4. /\ r \in G!Scopes /\ r.grab = G!Nothing
      /\ r.zoomBase = scope.zoomBase /\ r.range = scope.range
      /\ \/ r.pending = "none" /\ r.mode = "none"
         \/ r.pending = scope.pending /\ r.mode = scope.mode /\ ~G!Moved(scope, "rbl")
      /\ r.label => scope.label /\ ~G!Held(scope, "block")
      /\ r.did \subseteq scope.did \cup {k \in {"block", "rbl"} : G!Moved(scope, k)}
      /\ ~G!Swallows(scope) => r.did \subseteq scope.did
  BY <1>2, ReleaseDoes
<1>5. AskedIn(r)
  BY <1>2, <1>4 DEF AskedIn
<1> DEFINE t == G!Tap(r, cursor)
<1>6. /\ t \in G!Scopes /\ t.grab = G!Nothing /\ t.label = r.label
      /\ t.zoomBase = scope.zoomBase /\ t.range = scope.range
      /\ AskedIn(t) /\ t.mode # "release" /\ t.did \subseteq r.did \cup {"tap"}
  BY <1>2, <1>4, <1>5, TapDoes
<1> HIDE DEF r, t
<1>7. \/ ~mouse.pressing /\ scope' = scope
      \/ mouse.pressing /\ scope' = r
      \/ mouse.pressing /\ ~G!Swallows(scope) /\ scope' = t
  BY <1>1 DEF G!LeftUp, r, t
<1>8. /\ scope' \in G!Scopes /\ scope'.zoomBase = scope.zoomBase
      /\ scope'.range = scope.range
  BY <1>2, <1>4, <1>6, <1>7
<1>9. G!TypeOK'
  BY <1>1, <1>3, <1>8 DEF Steady, G!TypeOK
<1>10. Asked'
  <2>1. CASE scope' = scope
    BY <1>1, <2>1 DEF Steady, Asked, AskedIn, G!Held, G!Moved
  <2>2. CASE scope' = r
    BY <1>1, <1>4, <1>5, <2>2 DEF Steady, Asked
  <2>3. CASE scope' = t
    BY <1>1, <1>4, <1>6, <2>3 DEF Steady, Asked
  <2>4. QED
    BY <1>7, <2>1, <2>2, <2>3
<1>11. Fingering'
  BY <1>1, <1>8 DEF Steady, Fingering, G!Zooming
<1>12. buttons # {"right"} /\ {} # G!Buttons /\ buttons' # {"right"}
  BY <1>1 DEF G!Buttons
<1>13. Alone' /\ Pressing'
  BY <1>1, <1>3, <1>8, <1>12 DEF Steady, Pressing, Alone
<1>14. Grabbed'
  <2>1. CASE scope' = scope /\ ~mouse.pressing
    BY <1>1, <2>1 DEF Steady, Grabbed, Holds, G!Held
  <2>2. CASE scope'.grab = G!Nothing
    BY <2>2, NothingHeld DEF Grabbed, Holds
  <2>3. QED
    BY <1>4, <1>6, <1>7, <2>1, <2>2
<1>15. Doing'
  <2> SUFFICES ASSUME ~chorded, ~mixed PROVE Doing'
    BY <1>1 DEF Doing
  <2>1. /\ fingers = {} /\ touch.tapping = None /\ (Holds(scope) => mouse.pressing)
        /\ mouse.right = None
    BY <1>1, <1>12, MouseAlone DEF Steady, Pressing
  <2>2. \A k \in G!Kinds : ~G!Held(scope', k)
    BY <1>4, <1>6, <1>7, <2>1, NothingHeld DEF Holds
  <2>3. /\ OneComesOf(scope.did)
        /\ \A j, k \in G!Kinds : G!Held(scope, j) /\ G!Held(scope, k) => j = k
        /\ mouse.pressing =>
             scope.did \subseteq {"pan"} /\ ("pan" \in scope.did => G!Moved(scope, "pan"))
    BY DEF Steady, Doing
  <2>4. \A k \in G!Kinds : G!Moved(scope, k) => G!Held(scope, k)
    BY DEF G!Moved
  <2>5. {"block", "rbl", "pan"} = G!Kinds
    BY DEF G!Kinds
  <2>6. OneComesOf(scope'.did)
    <3>1. CASE scope' = scope
      BY <2>3, <3>1
    <3>2. CASE mouse.pressing /\ scope' = r
      <4>1. \A k \in {"block", "rbl", "pan"} : k \in scope'.did => G!Moved(scope, k)
        BY <1>4, <2>3, <3>2
      <4>2. scope'.did \subseteq G!Kinds
        BY <1>4, <2>3, <2>5, <3>2
      <4>3. \A j, k \in scope'.did : j = k
        BY <2>3, <2>4, <2>5, <4>1, <4>2
      <4>4. QED
        BY <2>5, <4>2, <4>3 DEF OneComesOf
    <3>3. CASE mouse.pressing /\ ~G!Swallows(scope) /\ scope' = t
      <4>1. scope.did = {}
        BY <2>3, <3>3 DEF G!Swallows
      <4>2. scope'.did \subseteq {"tap"}
        BY <1>4, <1>6, <3>3, <4>1
      <4>3. QED
        BY <2>5, <4>2 DEF OneComesOf
    <3>4. QED
      BY <1>7, <3>1, <3>2, <3>3
  <2>7. QED
    BY <1>1, <1>3, <2>1, <2>2, <2>6 DEF Doing, Holds
<1>16. QED
  BY <1>9, <1>10, <1>11, <1>13, <1>14, <1>15 DEF Steady

-----------------------------------------------------------------------------
LEMMA SteadyKept ==
  ASSUME G!GesturesAssumption, Steady, [G!Next]_(G!vars)
  PROVE  Steady'
<1>1. CASE G!FingersNext
  BY <1>1, FingerDownKeeps, FingerMoveKeeps, FingerUpKeeps, StrayMoveKeeps, LongPressKeeps,
     StrayUpKeeps DEF G!FingersNext
<1>2. CASE G!MouseNext
  <2>1. ASSUME NEW b \in G!Buttons, G!MouseDown(b) PROVE Steady'
    BY <2>1, LeftDownKeeps, RightDownKeeps DEF G!Buttons
  <2>2. ASSUME NEW b \in G!Buttons, NEW cancelled \in BOOLEAN, G!MouseUp(b, cancelled)
        PROVE  Steady'
    BY <2>2, LeftUpKeeps, RightUpKeeps DEF G!Buttons
  <2>3. QED
    BY <1>2, <2>1, <2>2, MouseMoveKeeps, ContextMenuKeeps, QuietEndsKeeps DEF G!MouseNext
<1>3. CASE G!OthersNext
  BY <1>3, KeysKeep, LostKeeps DEF G!OthersNext
<1>4. CASE G!ChordNext
  BY <1>4, ChordKeeps DEF G!ChordNext
<1>5. CASE UNCHANGED G!vars
  BY <1>5, Unmoved
<1>6. QED
  BY <1>1, <1>2, <1>3, <1>4, <1>5 DEF G!Next

(* Of any fingers and a mouse, in any order and together: nothing outlives *)
(* the pointer that did it, and whatever is pressed comes to one thing.    *)
THEOREM GesturesHold ==
  ASSUME G!GesturesAssumption
  PROVE  G!Spec => [](G!TypeOK /\ G!LetGo /\ G!OneOutcome)
<1>1. G!Init => Steady
  BY SteadyAtStart
<1>2. Steady /\ [G!Next]_(G!vars) => Steady'
  BY SteadyKept
<1>3. Steady => G!TypeOK /\ G!LetGo /\ G!OneOutcome
  BY Enough
<1>4. QED
  BY <1>1, <1>2, <1>3, PTL DEF G!Spec

-----------------------------------------------------------------------------
(* The gestures on the lanes: of any lanes.                                *)

(* The lanes of a column, each there once. *)
Columns == {s \in Seq(AllLanes) : L!IsInjective(s)}

LEMMA ColumnIs ==
  ASSUME NEW s \in Columns
  PROVE  /\ s \in Seq(AllLanes) /\ Len(s) \in Nat /\ DOMAIN s = 1 .. Len(s)
         /\ \A i \in 1 .. Len(s) : s[i] \in AllLanes
         /\ \A i, j \in 1 .. Len(s) : s[i] = s[j] => i = j
         /\ \A lane : lane \in L!Range(s) <=> \E i \in 1 .. Len(s) : s[i] = lane
BY DEF Columns, L!IsInjective, L!Range

LEMMA ColumnOf ==
  ASSUME NEW n \in Nat, NEW s \in [1 .. n -> AllLanes],
         \A i, j \in 1 .. n : s[i] = s[j] => i = j
  PROVE  s \in Columns /\ Len(s) = n
<1>1. s \in Seq(AllLanes) /\ Len(s) = n /\ DOMAIN s = 1 .. n
  OBVIOUS
<1>2. QED
  BY <1>1 DEF Columns, L!IsInjective

LEMMA RemoveAtIs ==
  ASSUME NEW s \in Columns, NEW i \in 1 .. Len(s)
  PROVE  /\ L!RemoveAt(s, i) \in Columns /\ Len(L!RemoveAt(s, i)) = Len(s) - 1
         /\ \A j \in 1 .. Len(s) - 1 :
              L!RemoveAt(s, i)[j] = IF j < i THEN s[j] ELSE s[j + 1]
         /\ s[i] \notin L!Range(L!RemoveAt(s, i))
<1> DEFINE r == L!RemoveAt(s, i)
           a == SubSeq(s, 1, i - 1)
           b == SubSeq(s, i + 1, Len(s))
           n == Len(s) - 1
<1>1. /\ Len(s) \in Nat /\ s \in Seq(AllLanes) /\ n \in Nat
      /\ \A k \in 1 .. Len(s) : s[k] \in AllLanes
      /\ \A k, j \in 1 .. Len(s) : s[k] = s[j] => k = j
  <2>1. Len(s) \in Nat /\ Len(s) # 0
    BY ColumnIs
  <2>2. QED
    BY <2>1, ColumnIs
<1>2. /\ a \in Seq(AllLanes) /\ Len(a) = i - 1
      /\ \A j \in 1 .. i - 1 : a[j] = s[j]
  BY <1>1
<1>3. /\ b \in Seq(AllLanes) /\ Len(b) = Len(s) - i
      /\ \A j \in 1 .. Len(s) - i : b[j] = s[i + j]
  BY <1>1
<1>4. r = a \o b
  BY DEF L!RemoveAt
<1> HIDE DEF a, b, r
<1>5. /\ r \in Seq(AllLanes) /\ Len(r) = n
      /\ \A j \in 1 .. n : r[j] = IF j < i THEN s[j] ELSE s[j + 1]
  <2>1. r \in Seq(AllLanes) /\ Len(r) = Len(a) + Len(b)
    BY <1>2, <1>3, <1>4, ConcatProperties
  <2>2. Len(r) = n
    BY <1>1, <1>2, <1>3, <2>1
  <2>3. ASSUME NEW j \in 1 .. n PROVE r[j] = IF j < i THEN s[j] ELSE s[j + 1]
    <3>1. CASE j < i
      <4>1. j \in 1 .. Len(a)
        BY <1>2, <3>1
      <4>2. r[j] = a[j]
        BY <1>2, <1>3, <1>4, <4>1
      <4>3. QED
        BY <1>2, <3>1, <4>1, <4>2
    <3>2. CASE ~(j < i)
      <4>1. j - Len(a) \in 1 .. Len(b) /\ ~(j \in 1 .. Len(a))
        BY <1>1, <1>2, <1>3, <3>2
      <4>2. r[j] = b[j - Len(a)]
        BY <1>2, <1>3, <1>4, <4>1
      <4>3. i + (j - Len(a)) = j + 1
        BY <1>1, <1>2
      <4>4. QED
        BY <1>2, <1>3, <3>2, <4>1, <4>2, <4>3
    <3>3. QED
      BY <3>1, <3>2
  <2>4. QED
    BY <2>1, <2>2, <2>3
<1>6. r \in [1 .. n -> AllLanes]
  BY <1>1, <1>5
<1>7. ASSUME NEW j \in 1 .. n, NEW k \in 1 .. n, r[j] = r[k] PROVE j = k
  <2>1. r[j] = s[IF j < i THEN j ELSE j + 1] /\ r[k] = s[IF k < i THEN k ELSE k + 1]
    BY <1>5
  <2>2. (IF j < i THEN j ELSE j + 1) \in 1 .. Len(s) /\ (IF k < i THEN k ELSE k + 1) \in 1 .. Len(s)
    BY <1>1
  <2>3. (IF j < i THEN j ELSE j + 1) = (IF k < i THEN k ELSE k + 1)
    BY <1>1, <1>7, <2>1, <2>2
  <2>4. QED
    BY <1>1, <2>3
<1>8. r \in Columns /\ Len(r) = n
  BY <1>1, <1>6, <1>7, ColumnOf
<1>9. s[i] \notin L!Range(r)
  <2>1. SUFFICES ASSUME NEW j \in 1 .. n, r[j] = s[i] PROVE FALSE
    BY <1>8, ColumnIs
  <2>2. r[j] = s[IF j < i THEN j ELSE j + 1]
    BY <1>5
  <2>3. (IF j < i THEN j ELSE j + 1) \in 1 .. Len(s)
    BY <1>1
  <2>4. (IF j < i THEN j ELSE j + 1) = i
    BY <1>1, <2>1, <2>2, <2>3
  <2>5. QED
    BY <1>1, <2>4
<1>10. QED
  BY <1>5, <1>8, <1>9 DEF r

LEMMA InsertAtIs ==
  ASSUME NEW s \in Columns, NEW i \in 1 .. Len(s) + 1, NEW e \in AllLanes, e \notin L!Range(s)
  PROVE  L!InsertAt(s, i, e) \in Columns /\ Len(L!InsertAt(s, i, e)) = Len(s) + 1
<1> DEFINE r == L!InsertAt(s, i, e)
           a == SubSeq(s, 1, i - 1)
           b == SubSeq(s, i, Len(s))
           n == Len(s) + 1
           From(j) == IF j < i THEN j ELSE j - 1
<1>1. /\ Len(s) \in Nat /\ s \in Seq(AllLanes) /\ n \in Nat
      /\ \A k \in 1 .. Len(s) : s[k] \in AllLanes /\ s[k] # e
      /\ \A k, j \in 1 .. Len(s) : s[k] = s[j] => k = j
  BY ColumnIs
<1>2. /\ a \in Seq(AllLanes) /\ Len(a) = i - 1
      /\ \A j \in 1 .. i - 1 : a[j] = s[j]
  BY <1>1
<1>3. /\ b \in Seq(AllLanes) /\ Len(b) = n - i
      /\ \A j \in 1 .. n - i : b[j] = s[i + j - 1]
  BY <1>1
<1>4. r = a \o <<e>> \o b
  BY DEF L!InsertAt
<1> DEFINE c == a \o <<e>>
<1> HIDE DEF a, b, r
<1>5. /\ c \in Seq(AllLanes) /\ Len(c) = i
      /\ c[i] = e /\ \A j \in 1 .. i - 1 : c[j] = a[j]
  <2>1. c \in Seq(AllLanes) /\ Len(c) = Len(a) + 1 /\ c[Len(a) + 1] = e
    BY <1>2
  <2>2. \A j \in 1 .. i - 1 : c[j] = a[j]
    BY <1>2
  <2>3. Len(a) + 1 = i
    BY <1>2
  <2>4. QED
    BY <2>1, <2>2, <2>3
<1>6. r = c \o b
  BY <1>4
<1> HIDE DEF c
<1>7. /\ r \in Seq(AllLanes) /\ Len(r) = n /\ r[i] = e
      /\ \A j \in 1 .. n : j # i => r[j] = s[From(j)]
  <2>1. r \in Seq(AllLanes) /\ Len(r) = Len(c) + Len(b)
    BY <1>3, <1>5, <1>6, ConcatProperties
  <2>2. Len(r) = n
    BY <1>1, <1>3, <1>5, <2>1
  <2>3. r[i] = e
    <3>1. i \in 1 .. Len(c)
      BY <1>5
    <3>2. r[i] = c[i]
      BY <1>3, <1>5, <1>6, <3>1
    <3>3. QED
      BY <1>5, <3>2
  <2>4. ASSUME NEW j \in 1 .. n, j # i PROVE r[j] = s[From(j)]
    <3>1. CASE j < i
      <4>1. j \in 1 .. Len(c) /\ j \in 1 .. i - 1
        BY <1>5, <3>1
      <4>2. r[j] = c[j]
        BY <1>3, <1>5, <1>6, <4>1
      <4>3. QED
        BY <1>2, <1>5, <3>1, <4>1, <4>2
    <3>2. CASE ~(j < i)
      <4>1. j - Len(c) \in 1 .. Len(b) /\ ~(j \in 1 .. Len(c)) /\ j - i \in 1 .. n - i
        BY <1>1, <1>3, <1>5, <2>4, <3>2
      <4>2. r[j] = b[j - Len(c)]
        BY <1>3, <1>5, <1>6, <4>1
      <4>3. i + (j - i) - 1 = j - 1
        BY <1>1
      <4>4. QED
        BY <1>3, <1>5, <3>2, <4>1, <4>2, <4>3
    <3>3. QED
      BY <3>1, <3>2
  <2>5. QED
    BY <2>1, <2>2, <2>3, <2>4
<1>8. \A j \in 1 .. n : j # i => From(j) \in 1 .. Len(s)
  BY <1>1
<1>9. r \in [1 .. n -> AllLanes]
  BY <1>1, <1>7
<1>10. ASSUME NEW j \in 1 .. n, NEW k \in 1 .. n, r[j] = r[k] PROVE j = k
  <2>1. CASE j = i \/ k = i
    BY <1>1, <1>7, <1>8, <1>10, <2>1
  <2>2. CASE j # i /\ k # i
    <3>1. From(j) = From(k)
      <4> HIDE DEF From
      <4> QED
        BY <1>1, <1>7, <1>8, <1>10, <2>2
    <3>2. QED
      BY <1>1, <2>2, <3>1
  <2>3. QED
    BY <2>1, <2>2
<1>11. QED
  BY <1>1, <1>9, <1>10, ColumnOf DEF r

-----------------------------------------------------------------------------
LEMMA IndexOfIs ==
  ASSUME plotted \in Columns, NEW lane \in L!Range(plotted)
  PROVE  L!IndexOf(lane) \in 1 .. Len(plotted) /\ plotted[L!IndexOf(lane)] = lane
         /\ lane \in AllLanes
BY ColumnIs DEF L!IndexOf

LEMMA RemoveLaneIs ==
  ASSUME plotted \in Columns, NEW lane
  PROVE  L!RemoveLane(lane) \in Columns
<1>1. CASE lane \in L!Range(plotted)
  BY <1>1, IndexOfIs, RemoveAtIs DEF L!RemoveLane
<1>2. CASE lane \notin L!Range(plotted)
  BY <1>2 DEF L!RemoveLane
<1>3. QED
  BY <1>1, <1>2

LEMMA MoveLaneIs ==
  ASSUME plotted \in Columns, NEW from, NEW to \in Nat \ {0}
  PROVE  L!MoveLane(from, to) \in Columns
<1>1. CASE from \notin DOMAIN plotted
  BY <1>1 DEF L!MoveLane
<1>2. CASE from \in DOMAIN plotted
  <2> DEFINE r == L!RemoveAt(plotted, from)
             k == IF to > Len(plotted) THEN Len(plotted) ELSE to
  <2>1. from \in 1 .. Len(plotted) /\ Len(plotted) \in Nat /\ plotted[from] \in AllLanes
    BY <1>2, ColumnIs
  <2>2. r \in Columns /\ Len(r) = Len(plotted) - 1 /\ plotted[from] \notin L!Range(r)
    BY <2>1, RemoveAtIs
  <2>3. k \in 1 .. Len(plotted)
    BY <2>1
  <2> HIDE DEF r, k
  <2>4. k \in 1 .. Len(r) + 1
    BY <2>1, <2>2, <2>3
  <2>5. L!InsertAt(r, k, plotted[from]) \in Columns
    BY <2>1, <2>2, <2>4, InsertAtIs
  <2>6. QED
    BY <1>2, <2>5 DEF L!MoveLane, r, k
<1>3. QED
  BY <1>1, <1>2

LEMMA SwitchLaneIs ==
  ASSUME plotted \in Columns, NEW from, NEW to \in AllLanes
  PROVE  L!SwitchLane(from, to) \in Columns
<1>1. CASE to \in L!Range(plotted)
  BY <1>1 DEF L!SwitchLane
<1>2. CASE to \notin L!Range(plotted)
  <2> DEFINE r == [i \in DOMAIN plotted |-> IF plotted[i] = from THEN to ELSE plotted[i]]
             n == Len(plotted)
  <2>1. /\ n \in Nat /\ DOMAIN plotted = 1 .. n
        /\ \A i \in 1 .. n : plotted[i] \in AllLanes /\ plotted[i] # to
        /\ \A i, j \in 1 .. n : plotted[i] = plotted[j] => i = j
    BY <1>2, ColumnIs
  <2>2. r \in [1 .. n -> AllLanes]
    BY <2>1
  <2>3. \A i, j \in 1 .. n : r[i] = r[j] => i = j
    BY <2>1
  <2>4. r \in Columns
    <3> HIDE DEF r, n
    <3> QED
      BY <2>1, <2>2, <2>3, ColumnOf
  <2>5. QED
    BY <1>2, <2>4 DEF L!SwitchLane
<1>3. QED
  BY <1>1, <1>2

LEMMA AddLaneIs ==
  ASSUME plotted \in Columns, NEW lane \in AllLanes
  PROVE  L!AddLane(lane) \in Columns
<1>1. CASE lane \in L!Range(plotted)
  BY <1>1 DEF L!AddLane
<1>2. CASE lane \notin L!Range(plotted)
  <2> DEFINE n == Len(plotted)
             r == Append(plotted, lane)
  <2>1. /\ n \in Nat /\ plotted \in Seq(AllLanes)
        /\ \A i \in 1 .. n : plotted[i] \in AllLanes /\ plotted[i] # lane
        /\ \A i, j \in 1 .. n : plotted[i] = plotted[j] => i = j
    BY <1>2, ColumnIs
  <2>2. /\ r \in [1 .. n + 1 -> AllLanes] /\ r[n + 1] = lane
        /\ \A i \in 1 .. n : r[i] = plotted[i]
    <3>1. /\ r \in Seq(AllLanes) /\ Len(r) = n + 1 /\ r[n + 1] = lane
          /\ \A i \in 1 .. n : r[i] = plotted[i]
      BY <2>1, AppendProperties
    <3> HIDE DEF r, n
    <3>2. r \in [1 .. n + 1 -> AllLanes]
      BY <3>1
    <3>3. QED
      BY <3>1, <3>2
  <2>3. ASSUME NEW i \in 1 .. n + 1, NEW j \in 1 .. n + 1, r[i] = r[j] PROVE i = j
    <3> HIDE DEF r, n
    <3>1. (i = n + 1 \/ i \in 1 .. n) /\ (j = n + 1 \/ j \in 1 .. n)
      BY <2>1
    <3>2. QED
      BY <2>1, <2>2, <2>3, <3>1
  <2>4. r \in Columns
    <3> HIDE DEF r
    <3> QED
      BY <2>1, <2>2, <2>3, ColumnOf
  <2>5. QED
    BY <1>2, <2>4 DEF L!AddLane
<1>3. QED
  BY <1>1, <1>2

-----------------------------------------------------------------------------
(* A lane held, and what is done of it.                                    *)

LaneTypes ==
  /\ plotted \in Columns
  /\ hold \in L!Held \cup {None} /\ drag \in L!Drags \cup {None}
  /\ swipe \in BOOLEAN \cup {None}
  /\ holding \in BOOLEAN /\ picking \in BOOLEAN /\ peeking \in BOOLEAN /\ span \in BOOLEAN
  /\ pinch \in BOOLEAN /\ raced \in BOOLEAN /\ shifted \in BOOLEAN
  /\ loops \in Nat /\ picker \in AllLanes \cup {None, "add"}
  /\ touches \subseteq L!Pair

NoneHeld ==
  hold = None =>
    /\ drag = None /\ swipe = None /\ ~holding /\ ~picking /\ ~peeking /\ ~span
    /\ ~raced => loops = 0

(* One thing at a time. *)
OneThing ==
  /\ holding => drag = None /\ swipe = None /\ ~peeking /\ ~picking /\ ~span
  /\ drag # None => swipe = None /\ ~peeking /\ ~picking /\ ~span
  /\ swipe # None => ~peeking /\ ~picking /\ ~span
  /\ peeking => ~picking /\ ~span
  /\ picking => ~span

(* What is scrolled for, and what the hold knows of it: a timer that still *)
(* runs finds the lane at rest, or swiped, or dragged by a move that told  *)
(* of it first.                                                            *)
Loops ==
  /\ hold.loop <=> drag # None
  /\ drag # None => loops > 0
  /\ ~raced => loops = IF drag # None THEN 1 ELSE 0
Timers ==
  /\ hold.lift => ~peeking /\ ~picking
  /\ hold.lift /\ swipe # None => hold.last = "x"
  /\ hold.lift /\ drag # None => raced

Pointed ==
  /\ hold.touch <=> hold.pointer # L!Mouse
  /\ hold.touch =>
       /\ hold.pointer \in touches /\ ~pinch /\ ~span
       /\ holding \/ drag # None \/ swipe # None \/ peeking \/ picking
  /\ ~hold.touch =>
       ~holding /\ swipe = None /\ ~peeking /\ ~picking /\ ~hold.lift /\ ~hold.picker

(* The lane held is there, and where it was unless the column changed. *)
Placed ==
  /\ hold.lane \in L!Range(plotted)
  /\ ~shifted => hold.from \in 1 .. Len(plotted) /\ plotted[hold.from] = hold.lane

OneHeld ==
  hold # None =>
    /\ OneThing /\ Loops /\ Timers /\ Pointed /\ Placed
    /\ picking <=> hold.stage = "picker"
    /\ drag # None => drag.lane = hold.lane /\ drag.from = hold.from

Firm == LaneTypes /\ NoneHeld /\ OneHeld /\ (pinch => touches = L!Pair)

-----------------------------------------------------------------------------
LEMMA HeldParts ==
  ASSUME L!LanesAssumption, NEW h \in L!Held
  PROVE  /\ h # None /\ h.pointer \in L!Pair \cup {L!Mouse} /\ h.lane \in AllLanes
         /\ h.part \in {"row", "plot", "instrument"} /\ h.touch \in BOOLEAN
         /\ h.from \in Nat \ {0} /\ h.stage \in {"pressed", "lifted", "picker"}
         /\ h.ms \in 0 .. 2 /\ h.last \in L!Moves /\ h.lift \in BOOLEAN
         /\ h.picker \in BOOLEAN /\ h.loop \in BOOLEAN
BY DEF L!LanesAssumption, L!Held

LEMMA DragParts ==
  ASSUME L!LanesAssumption, NEW d \in L!Drags
  PROVE  /\ d # None /\ d.lane \in AllLanes /\ d.from \in Nat \ {0}
         /\ d.slot \in Nat \ {0} /\ d.overBin \in BOOLEAN /\ d.still \in BOOLEAN
BY DEF L!LanesAssumption, L!Drags

(* Nothing is held any more. *)
LEMMA EndDoesLanes ==
  ASSUME L!LanesAssumption, Firm, L!End
  PROVE  /\ hold' = None /\ drag' = None /\ swipe' = None
         /\ holding' = FALSE /\ picking' = FALSE /\ peeking' = FALSE /\ span' = FALSE
         /\ loops' \in Nat /\ (~raced => loops' = 0)
<1>1. hold' = None /\ drag' = None /\ swipe' = None
      /\ holding' = FALSE /\ picking' = FALSE /\ peeking' = FALSE
  BY DEF L!End
<1>2. span' = FALSE
  <2>1. CASE hold = None
    BY <2>1 DEF Firm, NoneHeld, L!End
  <2>2. CASE hold # None
    BY <2>2 DEF L!End
  <2>3. QED
    BY <2>1, <2>2
<1>3. loops' \in Nat /\ (~raced => loops' = 0)
  <2>1. loops \in Nat /\ loops' = IF hold # None /\ hold.loop THEN loops - 1 ELSE loops
    BY DEF Firm, LaneTypes, L!End
  <2>2. CASE hold = None
    BY <2>1, <2>2 DEF Firm, NoneHeld
  <2>3. CASE hold # None
    BY <2>1, <2>3 DEF Firm, OneHeld, Loops
  <2>4. QED
    BY <2>2, <2>3
<1>4. QED
  BY <1>1, <1>2, <1>3

(* So far as the rest is, too. *)
LEMMA EndLeavesFirm ==
  ASSUME L!LanesAssumption, Firm, L!End, plotted' \in Columns, raced' = raced,
         shifted' \in BOOLEAN, pinch' \in BOOLEAN, touches' \subseteq L!Pair,
         pinch' => touches' = L!Pair, picker' \in AllLanes \cup {None, "add"}
  PROVE  Firm'
BY EndDoesLanes DEF Firm, LaneTypes, NoneHeld, OneHeld

(* A lane grabbed is the pointer's that grabbed it. *)
LEMMA GrabDoesLanes ==
  ASSUME L!LanesAssumption, Firm, NEW pointer \in L!Pair \cup {L!Mouse},
         NEW lane \in L!Range(plotted), NEW kind \in L!Parts(lane),
         L!Grab(pointer, lane, kind), plotted' = plotted, raced' = raced, picker' = picker,
         touches' \subseteq L!Pair, pointer # L!Mouse => pointer \in touches' /\ ~pinch',
         pinch' = pinch, pinch' => touches' = L!Pair
  PROVE  Firm'
<1> DEFINE h == L!Grabbed(pointer, lane, kind)
<1>1. L!IndexOf(lane) \in 1 .. Len(plotted) /\ plotted[L!IndexOf(lane)] = lane
      /\ lane \in AllLanes /\ Len(plotted) \in Nat
  BY IndexOfIs, ColumnIs DEF Firm, LaneTypes
<1>2. h \in L!Held
  BY <1>1 DEF L!Grabbed, L!Held, L!Parts, L!Moves
<1>3. /\ h.pointer = pointer /\ h.lane = lane /\ h.from = L!IndexOf(lane) /\ h.stage = "pressed"
      /\ h.touch = (pointer # L!Mouse) /\ h.lift = (pointer # L!Mouse)
      /\ h.picker = (pointer # L!Mouse) /\ h.loop = FALSE
  BY DEF L!Grabbed
<1> HIDE DEF h
<1>4. /\ hold' = h /\ drag' = None /\ swipe' = None /\ peeking' = FALSE /\ picking' = FALSE
      /\ span' = FALSE /\ holding' = (pointer # L!Mouse) /\ shifted' = FALSE
      /\ loops' = IF hold # None /\ hold.loop THEN loops - 1 ELSE loops
  BY DEF L!Grab, h
<1>5. loops' \in Nat /\ (~raced => loops' = 0)
  <2>1. loops \in Nat
    BY DEF Firm, LaneTypes
  <2>2. CASE hold = None
    BY <1>4, <2>1, <2>2 DEF Firm, NoneHeld
  <2>3. CASE hold # None
    BY <1>4, <2>1, <2>3 DEF Firm, OneHeld, Loops
  <2>4. QED
    BY <2>2, <2>3
<1>6. LaneTypes'
  BY <1>2, <1>4, <1>5 DEF Firm, LaneTypes
<1>7. hold' # None
  BY <1>2, <1>4, HeldParts
<1>8. OneThing' /\ Loops' /\ Timers'
  BY <1>3, <1>4, <1>5 DEF OneThing, Loops, Timers
<1>9. Pointed'
  BY <1>3, <1>4 DEF Pointed
<1>10. Placed'
  BY <1>1, <1>3, <1>4 DEF Placed
<1>11. (picking' <=> hold'.stage = "picker") /\ drag' = None
  BY <1>3, <1>4
<1>12. QED
  BY <1>6, <1>7, <1>8, <1>9, <1>10, <1>11 DEF Firm, NoneHeld, OneHeld

LEMMA MouseDownFirm ==
  ASSUME L!LanesAssumption, Firm, NEW lane \in L!Range(plotted), NEW kind \in L!Parts(lane),
         L!MouseDown(lane, kind)
  PROVE  Firm'
<1>1. touches' \subseteq L!Pair /\ (pinch' => touches' = L!Pair)
  BY DEF Firm, LaneTypes, L!MouseDown
<1>2. QED
  BY <1>1, GrabDoesLanes DEF L!MouseDown

(* What is held stays held as it is while another finger lands or lifts. *)
LEMMA HeldStill ==
  ASSUME Firm, UNCHANGED <<hold, drag, swipe, holding, picking, peeking, span, loops, plotted,
                           raced, shifted>>,
         picker' \in AllLanes \cup {None, "add"},
         touches' \subseteq L!Pair, pinch' \in BOOLEAN, pinch' => touches' = L!Pair,
         hold # None /\ hold.touch => hold.pointer \in touches' /\ ~pinch'
  PROVE  Firm'
<1>1. LaneTypes' /\ NoneHeld'
  BY DEF Firm, LaneTypes, NoneHeld
<1>2. hold # None => OneThing' /\ Loops' /\ Timers' /\ Pointed' /\ Placed'
  BY DEF Firm, OneHeld, OneThing, Loops, Timers, Pointed, Placed
<1>3. OneHeld'
  BY <1>2 DEF Firm, OneHeld
<1>4. QED
  BY <1>1, <1>3 DEF Firm

LEMMA FingerDownFirm ==
  ASSUME L!LanesAssumption, Firm, NEW f \in L!Pair, NEW lane \in L!Range(plotted),
         NEW kind \in L!Parts(lane), L!FingerDown(f, lane, kind)
  PROVE  Firm'
<1>1. /\ touches \subseteq L!Pair /\ f \notin touches /\ touches' = touches \cup {f}
      /\ touches' \subseteq L!Pair
      /\ UNCHANGED <<plotted, picker, raced>> /\ picker \in AllLanes \cup {None, "add"}
      /\ plotted \in Columns /\ (pinch => touches = L!Pair) /\ pinch \in BOOLEAN
  BY DEF Firm, LaneTypes, L!FingerDown
<1>2. CASE touches = {}
  <2>1. L!Grab(f, lane, kind) /\ pinch' = pinch
    BY <1>2 DEF L!FingerDown
  <2>2. ~pinch /\ f # L!Mouse
    BY <1>1, <1>2 DEF L!Pair, L!Mouse
  <2>3. QED
    BY <1>1, <2>1, <2>2, GrabDoesLanes
<1>3. CASE touches # {} /\ L!PinchesFrom
  <2>1. L!End /\ pinch' = TRUE /\ shifted' = shifted
    BY <1>3 DEF L!FingerDown
  <2>2. touches' = L!Pair
    BY <1>1, <1>3 DEF L!Pair
  <2>3. shifted' \in BOOLEAN
    BY <2>1 DEF Firm, LaneTypes
  <2>4. QED
    BY <1>1, <2>1, <2>2, <2>3, EndLeavesFirm
<1>4. CASE touches # {} /\ ~L!PinchesFrom
  <2>1. UNCHANGED <<hold, drag, swipe, holding, picking, peeking, span, loops, pinch, shifted>>
    BY <1>4 DEF L!FingerDown, L!gestureVars
  <2>2. pinch' => touches' = L!Pair
    BY <1>1, <2>1
  <2>3. hold # None /\ hold.touch => hold.pointer \in touches' /\ ~pinch'
    BY <1>1, <2>1 DEF Firm, OneHeld, Pointed
  <2>4. QED
    BY <1>1, <2>1, <2>2, <2>3, HeldStill
<1>5. QED
  BY <1>2, <1>3, <1>4

(* A lane picked up is dragged from where it was. *)
LEMMA PickUpDoes ==
  ASSUME L!LanesAssumption, plotted \in Columns, loops \in Nat, NEW h \in L!Held,
         NEW still \in BOOLEAN, L!PickUp(h, still)
  PROVE  /\ drag' \in L!Drags /\ drag' # None /\ drag'.lane = h.lane /\ drag'.from = h.from
         /\ hold' \in L!Held /\ hold' # None /\ hold'.loop = TRUE
         /\ hold'.pointer = h.pointer /\ hold'.lane = h.lane /\ hold'.part = h.part
         /\ hold'.touch = h.touch /\ hold'.from = h.from /\ hold'.stage = h.stage
         /\ hold'.ms = h.ms /\ hold'.last = h.last /\ hold'.lift = h.lift
         /\ hold'.picker = h.picker
         /\ loops' = loops + 1 /\ holding' = FALSE
<1>1. PICK slot \in DOMAIN plotted :
        drag' = [lane |-> h.lane, from |-> h.from, slot |-> slot, overBin |-> FALSE, still |-> still]
  BY DEF L!PickUp
<1>2. slot \in Nat \ {0}
  BY ColumnIs
<1>3. drag' \in L!Drags
  BY <1>1, <1>2, HeldParts DEF L!Drags
<1>4. hold' = [h EXCEPT !.loop = TRUE] /\ loops' = loops + 1 /\ holding' = FALSE
  BY DEF L!PickUp
<1>5. hold' \in L!Held
  BY <1>4 DEF L!Held
<1>6. QED
  BY <1>1, <1>3, <1>4, <1>5, HeldParts, DragParts DEF L!Held

(* The lane held is dragged from now on. *)
LEMMA PickUpFirm ==
  ASSUME L!LanesAssumption, Firm, hold # None, NEW h \in L!Held, NEW still \in BOOLEAN,
         L!PickUp(h, still),
         h.pointer = hold.pointer, h.lane = hold.lane, h.touch = hold.touch, h.from = hold.from,
         h.lift = hold.lift, h.picker = hold.picker, h.stage # "picker",
         swipe = None, ~peeking, ~span, ~picking',
         UNCHANGED <<plotted, swipe, peeking, span, touches, pinch, shifted>>,
         picker' \in AllLanes \cup {None, "add"}, picking' \in BOOLEAN,
         raced' \in BOOLEAN, ~raced' => ~raced /\ drag = None /\ ~hold.lift
  PROVE  Firm'
<1>1. /\ plotted \in Columns /\ loops \in Nat /\ drag' \in L!Drags /\ drag' # None
      /\ drag'.lane = h.lane /\ drag'.from = h.from
      /\ hold' \in L!Held /\ hold' # None /\ hold'.loop = TRUE
      /\ hold'.pointer = h.pointer /\ hold'.lane = h.lane /\ hold'.touch = h.touch
      /\ hold'.from = h.from /\ hold'.stage = h.stage /\ hold'.lift = h.lift
      /\ hold'.picker = h.picker /\ loops' = loops + 1 /\ holding' = FALSE
  BY PickUpDoes DEF Firm, LaneTypes
<1>2. LaneTypes'
  <2>1. loops' \in Nat
    BY <1>1
  <2>2. span \in BOOLEAN /\ peeking \in BOOLEAN /\ pinch \in BOOLEAN /\ shifted \in BOOLEAN
        /\ touches \subseteq L!Pair
    BY DEF Firm, LaneTypes
  <2>3. QED
    BY <1>1, <2>1, <2>2 DEF LaneTypes
<1>3. OneThing'
  BY <1>1 DEF OneThing
<1>4. Loops'
  BY <1>1 DEF Firm, OneHeld, Loops
<1>5. Timers'
  BY <1>1 DEF Timers
<1>6. Pointed'
  BY <1>1 DEF Firm, OneHeld, Pointed
<1>7. Placed'
  BY <1>1 DEF Firm, OneHeld, Placed
<1>8. (picking' <=> hold'.stage = "picker") /\ drag'.lane = hold'.lane /\ drag'.from = hold'.from
  BY <1>1
<1>9. QED
  BY <1>1, <1>2, <1>3, <1>4, <1>5, <1>6, <1>7, <1>8 DEF Firm, NoneHeld, OneHeld

(* The rest of it stays as it is. *)
LEMMA HoldAlike ==
  ASSUME L!LanesAssumption, Firm, hold # None, hold' \in L!Held,
         hold'.pointer = hold.pointer, hold'.lane = hold.lane, hold'.touch = hold.touch,
         hold'.from = hold.from, hold'.stage = hold.stage, hold'.loop = hold.loop,
         hold'.lift => hold.lift, hold'.picker => hold.picker,
         hold'.lift /\ swipe' # None => hold'.last = "x", hold'.lift => ~peeking',
         UNCHANGED <<plotted, drag, picking, loops, picker, touches, pinch, raced, shifted>>,
         swipe' \in BOOLEAN \cup {None}, holding' \in BOOLEAN, peeking' \in BOOLEAN,
         span' \in BOOLEAN,
         OneThing',
         hold.touch => ~span' /\ (holding' \/ drag # None \/ swipe' # None \/ peeking' \/ picking),
         ~hold.touch => ~holding' /\ swipe' = None /\ ~peeking'
  PROVE  Firm'
<1>1. LaneTypes' /\ hold' # None
  BY HeldParts DEF Firm, LaneTypes
<1>2. Loops' /\ Timers'
  BY HeldParts DEF Firm, OneHeld, Loops, Timers
<1>3. Pointed'
  BY DEF Firm, OneHeld, Pointed
<1>4. Placed'
  BY DEF Firm, OneHeld, Placed
<1>5. (picking' <=> hold'.stage = "picker")
      /\ (drag' # None => drag'.lane = hold'.lane /\ drag'.from = hold'.from)
  BY DEF Firm, OneHeld
<1>6. QED
  BY <1>1, <1>2, <1>3, <1>4, <1>5 DEF Firm, NoneHeld, OneHeld

LEMMA MoveFirm ==
  ASSUME L!LanesAssumption, Firm, NEW move \in L!Moves, L!Move(move)
  PROVE  Firm'
<1>1. /\ hold \in L!Held /\ hold # None /\ UNCHANGED <<plotted, touches, pinch, shifted>>
      /\ plotted \in Columns /\ loops \in Nat
      /\ picker \in AllLanes \cup {None, "add"} /\ raced \in BOOLEAN
      /\ OneThing /\ Loops /\ Timers /\ Pointed /\ Placed
      /\ picking <=> hold.stage = "picker"
      /\ drag # None => drag.lane = hold.lane /\ drag.from = hold.from
  BY DEF Firm, LaneTypes, OneHeld, L!Move
<1>2. CASE hold.stage = "picker"
  <2> DEFINE h == [hold EXCEPT !.stage = "lifted"]
  <2>1. L!MoveFar
    BY <1>2 DEF L!Move
  <2>2. /\ h \in L!Held /\ h.pointer = hold.pointer /\ h.lane = hold.lane /\ h.touch = hold.touch
        /\ h.from = hold.from /\ h.lift = hold.lift /\ h.picker = hold.picker /\ h.stage = "lifted"
    BY <1>1 DEF L!Held
  <2>3. L!PickUp(h, FALSE)
    BY <2>1 DEF L!MoveFar
  <2> HIDE DEF h
  <2>4. picking /\ swipe = None /\ ~peeking /\ ~span /\ drag = None /\ ~hold.lift
    BY <1>1, <1>2 DEF OneThing, Timers
  <2>5. picker' = None /\ picking' = FALSE /\ UNCHANGED <<swipe, peeking, span, raced>>
    BY <2>1 DEF L!MoveFar
  <2>6. picker' \in AllLanes \cup {None, "add"} /\ raced' \in BOOLEAN /\ picking' \in BOOLEAN
    BY <1>1, <2>5
  <2>7. QED
    BY <1>1, <2>2, <2>3, <2>4, <2>5, <2>6, PickUpFirm
<1>3. CASE hold.stage # "picker" /\ ~span /\ ~peeking /\ drag # None
  <2>1. L!MoveDragged
    BY <1>3 DEF L!Move
  <2>2. PICK slot \in DOMAIN plotted, bin \in BOOLEAN :
          drag' = [drag EXCEPT !.slot = slot, !.overBin = bin, !.still = FALSE]
    BY <2>1 DEF L!MoveDragged
  <2>3. drag \in L!Drags /\ slot \in Nat \ {0}
    BY <1>1, <1>3, ColumnIs DEF Firm, LaneTypes
  <2>4. drag' \in L!Drags /\ drag' # None /\ drag'.lane = drag.lane /\ drag'.from = drag.from
    <3>1. drag' \in L!Drags /\ drag'.lane = drag.lane /\ drag'.from = drag.from
      BY <2>2, <2>3 DEF L!Drags
    <3>2. QED
      BY <3>1, DragParts
  <2>5. UNCHANGED <<hold, swipe, holding, picking, peeking, span, loops, picker, raced,
                    plotted, touches, pinch, shifted>>
    BY <1>1, <2>1 DEF L!MoveDragged
  <2>6. LaneTypes'
    BY <2>4, <2>5 DEF Firm, LaneTypes
  <2>7. OneThing' /\ Loops' /\ Timers' /\ Pointed' /\ Placed'
    BY <1>1, <1>3, <2>4, <2>5 DEF OneThing, Loops, Timers, Pointed, Placed
  <2>8. QED
    BY <1>1, <1>3, <2>4, <2>5, <2>6, <2>7 DEF Firm, NoneHeld, OneHeld
<1>4. CASE hold.stage # "picker" /\ ~span /\ ~peeking /\ drag = None /\ swipe # None
  <2>1. hold' = hold /\ L!Swipe
    BY <1>4 DEF L!Move
  <2>2. swipe' \in BOOLEAN /\ swipe' # None /\ holding' = FALSE
        /\ UNCHANGED <<drag, picking, peeking, span, loops, picker, raced>>
    BY <2>1 DEF L!Swipe, L!LanesAssumption
  <2>3. ~picking /\ hold.touch
    BY <1>1, <1>4 DEF Pointed
  <2>4. OneThing'
    BY <1>4, <2>2, <2>3 DEF OneThing
  <2>5. peeking \in BOOLEAN /\ span \in BOOLEAN /\ swipe' \in BOOLEAN \cup {None}
    BY <2>2 DEF Firm, LaneTypes
  <2>6. hold'.lift /\ swipe' # None => hold'.last = "x"
    BY <1>1, <1>4, <2>1 DEF Timers
  <2>7. QED
    BY <1>1, <1>4, <2>1, <2>2, <2>3, <2>4, <2>5, <2>6, HoldAlike
<1>5. CASE hold.stage # "picker" /\ ~span /\ ~peeking /\ drag = None /\ swipe = None
  <2> DEFINE h == [hold EXCEPT !.last = move]
             g == L!LaneGestureOf(hold.part, hold.touch, move, hold.ms)
  <2>1. L!MoveFirst(move)
    BY <1>5 DEF L!Move
  <2>2. /\ h \in L!Held /\ h.pointer = hold.pointer /\ h.lane = hold.lane /\ h.touch = hold.touch
        /\ h.from = hold.from /\ h.lift = hold.lift /\ h.picker = hold.picker
        /\ h.stage = hold.stage /\ h.loop = hold.loop /\ h.last = move
    BY <1>1 DEF L!Held
  <2>3. ~picking /\ (hold.touch => holding) /\ (~hold.touch => ~holding)
    BY <1>1, <1>5 DEF Pointed
  <2>4. peeking \in BOOLEAN /\ span \in BOOLEAN /\ holding \in BOOLEAN /\ picking \in BOOLEAN
    BY DEF Firm, LaneTypes
  <2>5. g = "swipe" => hold.touch /\ move = "x"
    BY DEF L!LaneGestureOf, L!TouchHoldOf
  <2>6. g = "peek" => hold.touch
    BY DEF L!LaneGestureOf, L!TouchHoldOf
  <2>7. g = "select" => ~hold.touch
    BY DEF L!LaneGestureOf, L!TouchHoldOf
  <2>8. \/ /\ g = "none" /\ hold' = h
           /\ UNCHANGED <<drag, swipe, holding, picking, peeking, span, loops, picker, raced>>
        \/ g = "pass" /\ L!End /\ UNCHANGED <<picker, raced>>
        \/ g = "swipe" /\ hold' = h /\ L!Swipe
        \/ /\ g = "drag" /\ L!PickUp(h, FALSE)
           /\ raced' = (raced \/ hold.lift)
           /\ UNCHANGED <<swipe, picking, peeking, span, picker>>
        \/ /\ g = "peek" /\ hold' = [h EXCEPT !.lift = FALSE, !.picker = FALSE]
           /\ peeking' = TRUE /\ holding' = FALSE
           /\ UNCHANGED <<drag, swipe, picking, span, loops, picker, raced>>
        \/ /\ g = "select" /\ hold' = h /\ span' = TRUE
           /\ UNCHANGED <<drag, swipe, holding, picking, peeking, loops, picker, raced>>
    BY <2>1 DEF L!MoveFirst
  <2>9. [h EXCEPT !.lift = FALSE, !.picker = FALSE] \in L!Held
    BY <2>2 DEF L!Held
  <2> DEFINE peeked == [h EXCEPT !.lift = FALSE, !.picker = FALSE]
  <2>10. /\ peeked.pointer = hold.pointer /\ peeked.lane = hold.lane /\ peeked.touch = hold.touch
         /\ peeked.from = hold.from /\ peeked.stage = hold.stage /\ peeked.loop = hold.loop
         /\ ~peeked.lift /\ ~peeked.picker
    BY <1>1 DEF L!Held
  <2> HIDE DEF h, g, peeked
  <2>11. CASE g = "none" /\ hold' = h
              /\ UNCHANGED <<drag, swipe, holding, picking, peeking, span, loops, picker, raced>>
    <3>1. OneThing'
      BY <1>1, <2>11 DEF OneThing
    <3>2. swipe' \in BOOLEAN \cup {None} /\ swipe' = None
      BY <1>5, <2>11
    <3>3. QED
      BY <1>1, <1>5, <2>2, <2>3, <2>4, <2>11, <3>1, <3>2, HoldAlike
  <2>12. CASE g = "pass" /\ L!End /\ UNCHANGED <<picker, raced>>
    <3>1. shifted' \in BOOLEAN /\ pinch' \in BOOLEAN /\ touches' \subseteq L!Pair
          /\ (pinch' => touches' = L!Pair)
      BY <1>1 DEF Firm, LaneTypes
    <3>2. QED
      BY <1>1, <2>12, <3>1, EndLeavesFirm
  <2>13. CASE g = "swipe" /\ hold' = h /\ L!Swipe
    <3>1. swipe' \in BOOLEAN /\ swipe' # None /\ holding' = FALSE
          /\ UNCHANGED <<drag, picking, peeking, span, loops, picker, raced>>
      BY <2>13 DEF L!Swipe, L!LanesAssumption
    <3>2. OneThing'
      BY <1>5, <2>3, <3>1 DEF OneThing
    <3>3. QED
      BY <1>1, <1>5, <2>2, <2>3, <2>4, <2>5, <2>13, <3>1, <3>2, HoldAlike
  <2>14. CASE g = "drag" /\ L!PickUp(h, FALSE) /\ raced' = (raced \/ hold.lift)
              /\ UNCHANGED <<swipe, picking, peeking, span, picker>>
    <3>1. raced' \in BOOLEAN /\ picking' \in BOOLEAN
      BY <1>1, <2>4, <2>14
    <3>2. QED
      BY <1>1, <1>5, <2>2, <2>3, <2>14, <3>1, PickUpFirm
  <2>15. CASE /\ g = "peek" /\ hold' = peeked
              /\ peeking' = TRUE /\ holding' = FALSE
              /\ UNCHANGED <<drag, swipe, picking, span, loops, picker, raced>>
    <3>1. OneThing'
      BY <1>5, <2>3, <2>15 DEF OneThing
    <3>2. swipe' = None /\ hold' \in L!Held
      BY <1>5, <2>9, <2>15 DEF peeked
    <3>3. QED
      BY <1>1, <1>5, <2>3, <2>4, <2>6, <2>10, <2>15, <3>1, <3>2, HoldAlike
  <2>16. CASE /\ g = "select" /\ hold' = h /\ span' = TRUE
              /\ UNCHANGED <<drag, swipe, holding, picking, peeking, loops, picker, raced>>
    <3>1. OneThing'
      BY <1>5, <2>3, <2>7, <2>16 DEF OneThing
    <3>2. swipe' = None
      BY <1>5, <2>16
    <3>3. QED
      BY <1>1, <1>5, <2>2, <2>3, <2>4, <2>7, <2>16, <3>1, <3>2, HoldAlike
  <2>17. QED
    BY <2>8, <2>11, <2>12, <2>13, <2>14, <2>15, <2>16 DEF peeked
<1>6. QED
  BY <1>2, <1>3, <1>4, <1>5 DEF L!Move

(* Time goes on, and the timers run out. *)
LEMMA TickFirm ==
  ASSUME L!LanesAssumption, Firm, L!Tick
  PROVE  Firm'
<1>1. hold \in L!Held /\ hold # None /\ hold.ms \in 0 .. 2 /\ hold.ms < 2
  BY HeldParts DEF Firm, LaneTypes, L!Tick
<1>2. /\ hold' \in L!Held /\ hold'.pointer = hold.pointer /\ hold'.lane = hold.lane
      /\ hold'.touch = hold.touch /\ hold'.from = hold.from /\ hold'.stage = hold.stage
      /\ hold'.loop = hold.loop /\ hold'.lift = hold.lift /\ hold'.picker = hold.picker
      /\ hold'.last = hold.last
  BY <1>1 DEF L!Tick, L!Held
<1>3. UNCHANGED <<plotted, drag, swipe, holding, picking, peeking, span, loops, picker,
                  touches, pinch, raced, shifted>>
  BY DEF L!Tick
<1>4. OneThing' /\ swipe' \in BOOLEAN \cup {None} /\ holding' \in BOOLEAN /\ peeking' \in BOOLEAN
      /\ span' \in BOOLEAN
  BY <1>1, <1>3 DEF Firm, LaneTypes, OneHeld, OneThing
<1>5. /\ hold.touch => ~span' /\ (holding' \/ drag # None \/ swipe' # None \/ peeking' \/ picking)
      /\ ~hold.touch => ~holding' /\ swipe' = None /\ ~peeking'
      /\ hold'.lift /\ swipe' # None => hold'.last = "x"
      /\ hold'.lift => ~peeking'
  BY <1>1, <1>2, <1>3 DEF Firm, OneHeld, Pointed, Timers
<1>6. QED
  BY <1>1, <1>2, <1>3, <1>4, <1>5, HoldAlike

LEMMA LiftFirm ==
  ASSUME L!LanesAssumption, Firm, L!Lift
  PROVE  Firm'
<1> DEFINE ran == [hold EXCEPT !.lift = FALSE]
           h == [ran EXCEPT !.stage = "lifted"]
<1>1. /\ hold \in L!Held /\ hold # None /\ hold.lift
      /\ UNCHANGED <<plotted, picker, touches, pinch, raced, shifted>>
      /\ plotted \in Columns /\ loops \in Nat
      /\ picker \in AllLanes \cup {None, "add"} /\ raced \in BOOLEAN
      /\ OneThing /\ Loops /\ Timers /\ Pointed /\ Placed
      /\ picking <=> hold.stage = "picker"
      /\ drag # None => drag.lane = hold.lane /\ drag.from = hold.from
      /\ peeking \in BOOLEAN /\ span \in BOOLEAN /\ holding \in BOOLEAN /\ picking \in BOOLEAN
      /\ swipe \in BOOLEAN \cup {None}
  BY DEF Firm, LaneTypes, OneHeld, L!Lift
<1>2. /\ ran \in L!Held /\ ran.pointer = hold.pointer /\ ran.lane = hold.lane
      /\ ran.touch = hold.touch /\ ran.from = hold.from /\ ran.stage = hold.stage
      /\ ran.loop = hold.loop /\ ran.lift = FALSE /\ ran.picker = hold.picker
  BY <1>1 DEF L!Held
<1>3. /\ h \in L!Held /\ h.pointer = hold.pointer /\ h.lane = hold.lane
      /\ h.touch = hold.touch /\ h.from = hold.from /\ h.stage = "lifted"
      /\ h.lift = FALSE /\ h.picker = hold.picker
  BY <1>2 DEF L!Held
<1>4. hold.touch /\ ~span /\ ~peeking /\ ~picking
  BY <1>1 DEF Pointed, Timers
<1>5. CASE L!TouchHoldOf("pressed", hold.part, hold.last, 1) = "lift"
  <2>1. L!PickUp(h, TRUE) /\ UNCHANGED <<swipe, picking, peeking, span>>
    BY <1>5 DEF L!Lift
  <2>2. hold.last = "near"
    BY <1>1, <1>5, HeldParts DEF L!TouchHoldOf, L!Moves
  <2>3. swipe = None
    BY <1>1, <2>2 DEF Timers
  <2> HIDE DEF ran, h
  <2>4. /\ drag' \in L!Drags /\ drag' # None /\ drag'.lane = h.lane /\ drag'.from = h.from
        /\ hold' \in L!Held /\ hold' # None /\ hold'.loop = TRUE
        /\ hold'.pointer = h.pointer /\ hold'.lane = h.lane /\ hold'.touch = h.touch
        /\ hold'.from = h.from /\ hold'.stage = h.stage /\ hold'.lift = h.lift
        /\ hold'.picker = h.picker /\ loops' = loops + 1 /\ holding' = FALSE
    BY <1>1, <1>3, <2>1, PickUpDoes
  <2>5. LaneTypes'
    <3>1. loops' \in Nat
      BY <1>1, <2>4
    <3>2. pinch \in BOOLEAN /\ shifted \in BOOLEAN /\ touches \subseteq L!Pair
      BY DEF Firm, LaneTypes
    <3>3. QED
      BY <1>1, <2>1, <2>4, <3>1, <3>2 DEF LaneTypes
  <2>6. OneThing' /\ Timers'
    BY <1>3, <1>4, <2>1, <2>3, <2>4 DEF OneThing, Timers
  <2>7. Loops'
    BY <1>1, <2>4 DEF Loops, Timers
  <2>8. Pointed' /\ Placed'
    BY <1>1, <1>3, <1>4, <2>1, <2>3, <2>4 DEF Pointed, Placed
  <2>9. (picking' <=> hold'.stage = "picker") /\ drag'.lane = hold'.lane /\ drag'.from = hold'.from
    BY <1>3, <1>4, <2>1, <2>4
  <2>10. QED
    BY <1>1, <2>4, <2>5, <2>6, <2>7, <2>8, <2>9 DEF Firm, NoneHeld, OneHeld
<1>6. CASE L!TouchHoldOf("pressed", hold.part, hold.last, 1) # "lift"
  <2>1. hold' = ran /\ UNCHANGED <<drag, swipe, holding, picking, peeking, span, loops>>
    BY <1>6 DEF L!Lift
  <2> HIDE DEF ran, h
  <2>2. OneThing'
    BY <1>1, <2>1 DEF OneThing
  <2>3. hold.touch => ~span' /\ (holding' \/ drag # None \/ swipe' # None \/ peeking' \/ picking)
    BY <1>1, <2>1 DEF Pointed
  <2>4. QED
    BY <1>1, <1>2, <1>4, <2>1, <2>2, <2>3, HoldAlike
<1>7. QED
  BY <1>5, <1>6

LEMMA OpenPickerFirm ==
  ASSUME L!LanesAssumption, Firm, L!OpenPicker
  PROVE  Firm'
<1>1. /\ hold \in L!Held /\ hold # None /\ ~hold.lift /\ hold.picker
      /\ UNCHANGED <<plotted, touches, pinch, raced, shifted>>
      /\ plotted \in Columns /\ loops \in Nat
      /\ picker \in AllLanes \cup {None, "add"} /\ raced \in BOOLEAN
      /\ OneThing /\ Loops /\ Timers /\ Pointed /\ Placed
      /\ picking <=> hold.stage = "picker"
      /\ drag # None => drag.lane = hold.lane /\ drag.from = hold.from
      /\ peeking \in BOOLEAN /\ span \in BOOLEAN /\ holding \in BOOLEAN /\ picking \in BOOLEAN
      /\ swipe \in BOOLEAN \cup {None}
  BY DEF Firm, LaneTypes, OneHeld, L!OpenPicker
<1>2. hold.touch
  BY <1>1 DEF Pointed
<1>3. CASE drag # None /\ drag.still
  <2>1. /\ hold' = [hold EXCEPT !.picker = FALSE, !.stage = "picker", !.loop = FALSE]
        /\ loops' = IF hold.loop THEN loops - 1 ELSE loops
        /\ picking' = TRUE /\ drag' = None /\ picker' = hold.lane
        /\ UNCHANGED <<swipe, holding, peeking, span>>
    BY <1>3 DEF L!OpenPicker
  <2>2. /\ hold' \in L!Held /\ hold'.pointer = hold.pointer /\ hold'.lane = hold.lane
        /\ hold'.touch = hold.touch /\ hold'.from = hold.from /\ hold'.stage = "picker"
        /\ hold'.loop = FALSE /\ hold'.lift = FALSE /\ hold'.picker = FALSE
    BY <1>1, <2>1, HeldParts DEF L!Held
  <2>3. ~holding /\ swipe = None /\ ~peeking /\ ~span
    BY <1>1, <1>3 DEF OneThing
  <2>4. loops' = loops - 1 /\ loops' \in Nat /\ (~raced => loops' = 0)
    BY <1>1, <1>3, <2>1 DEF Loops
  <2>5. LaneTypes' /\ hold' # None
    BY <1>1, <2>1, <2>2, <2>4, HeldParts DEF Firm, LaneTypes
  <2>6. OneThing' /\ Loops' /\ Timers' /\ Pointed' /\ Placed'
    BY <1>1, <1>2, <2>1, <2>2, <2>3, <2>4 DEF OneThing, Loops, Timers, Pointed, Placed
  <2>7. QED
    BY <1>1, <2>1, <2>2, <2>5, <2>6 DEF Firm, NoneHeld, OneHeld
<1>4. CASE ~(drag # None /\ drag.still)
  <2>1. /\ hold' = [hold EXCEPT !.picker = FALSE]
        /\ UNCHANGED <<drag, swipe, holding, picking, peeking, span, loops, picker>>
    BY <1>4 DEF L!OpenPicker
  <2>2. /\ hold' \in L!Held /\ hold'.pointer = hold.pointer /\ hold'.lane = hold.lane
        /\ hold'.touch = hold.touch /\ hold'.from = hold.from /\ hold'.stage = hold.stage
        /\ hold'.loop = hold.loop /\ hold'.lift = FALSE /\ hold'.picker = FALSE
    BY <1>1, <2>1 DEF L!Held
  <2>3. OneThing'
    BY <1>1, <2>1 DEF OneThing
  <2>4. hold.touch => ~span' /\ (holding' \/ drag # None \/ swipe' # None \/ peeking' \/ picking)
    BY <1>1, <2>1 DEF Pointed
  <2>5. QED
    BY <1>1, <1>2, <2>1, <2>2, <2>3, <2>4, HoldAlike
<1>5. QED
  BY <1>3, <1>4

(* The lanes that are left once one is let go of. *)
LEMMA DroppedIs ==
  ASSUME L!LanesAssumption, Firm
  PROVE  L!Dropped \in Columns
<1>1. plotted \in Columns /\ drag \in L!Drags \cup {None}
  BY DEF Firm, LaneTypes
<1>2. drag # None => L!DropOf(drag) \in Columns
  <2>1. ASSUME drag # None PROVE L!DropOf(drag) \in Columns
    <3>1. drag.slot \in Nat \ {0}
      BY <1>1, <2>1, DragParts
    <3>2. QED
      BY <1>1, <3>1, RemoveLaneIs, MoveLaneIs DEF L!DropOf
  <2>2. QED
    BY <2>1
<1>3. L!RemoveLane(hold.lane) \in Columns
  BY <1>1, RemoveLaneIs
<1>4. CASE hold.stage # "picker" /\ drag = None /\ swipe # TRUE
  BY <1>1, <1>4 DEF L!Dropped
<1>5. QED
  BY <1>1, <1>2, <1>3, <1>4 DEF L!Dropped

LEMMA LetGoFirm ==
  ASSUME L!LanesAssumption, Firm, NEW pointer, L!LetGo(pointer), raced' = raced,
         touches' \subseteq L!Pair, pinch' \in BOOLEAN, pinch' => touches' = L!Pair
  PROVE  Firm'
<1>1. plotted' \in Columns /\ L!End /\ shifted' \in BOOLEAN
  BY DroppedIs DEF L!LetGo
<1>2. picker' \in AllLanes \cup {None, "add"}
  BY DEF Firm, LaneTypes, L!LetGo
<1>3. QED
  BY <1>1, <1>2, EndLeavesFirm

LEMMA FingerUpFirm ==
  ASSUME L!LanesAssumption, Firm, NEW f \in L!Pair, L!FingerUp(f)
  PROVE  Firm'
<1>1. /\ touches' = touches \ {f} /\ touches' \subseteq L!Pair /\ pinch' = FALSE /\ raced' = raced
      /\ picker \in AllLanes \cup {None, "add"}
  BY DEF Firm, LaneTypes, L!FingerUp
<1>2. CASE hold # None /\ hold.pointer = f
  BY <1>1, <1>2, LetGoFirm DEF L!FingerUp
<1>3. CASE ~(hold # None /\ hold.pointer = f)
  <2>1. UNCHANGED <<hold, drag, swipe, holding, picking, peeking, span, loops, plotted, picker, shifted>>
    BY <1>3 DEF L!FingerUp, L!gestureVars
  <2>2. hold # None /\ hold.touch => hold.pointer \in touches' /\ ~pinch'
    BY <1>1, <1>3 DEF Firm, OneHeld, Pointed
  <2>3. QED
    BY <1>1, <2>1, <2>2, HeldStill
<1>4. QED
  BY <1>2, <1>3

LEMMA MouseUpFirm ==
  ASSUME L!LanesAssumption, Firm, L!MouseUp
  PROVE  Firm'
<1>1. touches' \subseteq L!Pair /\ pinch' \in BOOLEAN /\ (pinch' => touches' = L!Pair)
      /\ raced' = raced /\ L!LetGo(L!Mouse)
  BY DEF Firm, LaneTypes, L!MouseUp
<1>2. QED
  BY <1>1, LetGoFirm

LEMMA GiveUpFirm ==
  ASSUME L!LanesAssumption, Firm, L!GiveUp
  PROVE  Firm'
<1>1. /\ L!End /\ plotted' = plotted /\ picker' = picker /\ raced' = raced /\ shifted' = FALSE
      /\ plotted \in Columns /\ picker \in AllLanes \cup {None, "add"}
  BY DEF Firm, LaneTypes, L!GiveUp
<1>2. touches' \subseteq L!Pair /\ pinch' \in BOOLEAN /\ (pinch' => touches' = L!Pair)
  <2>1. touches \subseteq L!Pair /\ pinch \in BOOLEAN /\ (pinch => touches = L!Pair)
    BY DEF Firm, LaneTypes
  <2>2. \/ UNCHANGED <<touches, pinch>>
        \/ touches' = touches \ {hold.pointer} /\ pinch' = FALSE
    BY DEF L!GiveUp
  <2>3. CASE UNCHANGED <<touches, pinch>>
    BY <2>1, <2>3
  <2>4. CASE touches' = touches \ {hold.pointer} /\ pinch' = FALSE
    BY <2>1, <2>4
  <2>5. QED
    BY <2>2, <2>3, <2>4
<1>3. QED
  BY <1>1, <1>2, EndLeavesFirm

(* The lanes changed some other way: the gesture ends with its lane. *)
LEMMA ChangeToFirm ==
  ASSUME L!LanesAssumption, Firm, NEW lanes \in Columns, L!ChangeTo(lanes),
         picker' = None, UNCHANGED <<touches, pinch, raced>>
  PROVE  Firm'
<1>1. /\ plotted' = lanes /\ shifted' = ((shifted \/ lanes # plotted) /\ hold' # None)
      /\ touches \subseteq L!Pair /\ pinch \in BOOLEAN /\ (pinch => touches = L!Pair)
      /\ shifted \in BOOLEAN
  BY DEF Firm, LaneTypes, L!ChangeTo
<1>2. shifted' \in BOOLEAN
  BY <1>1
<1>3. CASE hold # None /\ hold.lane \notin L!Range(lanes)
  <2>1. L!End
    BY <1>3 DEF L!ChangeTo
  <2>2. QED
    BY <1>1, <1>2, <2>1, EndLeavesFirm
<1>4. CASE ~(hold # None /\ hold.lane \notin L!Range(lanes))
  <2>1. UNCHANGED <<hold, drag, swipe, holding, picking, peeking, span, loops>>
    BY <1>4 DEF L!ChangeTo, L!gestureVars
  <2>2. LaneTypes' /\ NoneHeld'
    BY <1>1, <1>2, <2>1 DEF Firm, LaneTypes, NoneHeld
  <2>3. hold # None => OneThing' /\ Loops' /\ Timers' /\ Pointed'
    BY <2>1 DEF Firm, OneHeld, OneThing, Loops, Timers, Pointed
  <2>4. hold # None => Placed'
    <3>1. SUFFICES ASSUME hold # None PROVE Placed'
      OBVIOUS
    <3>2. hold.lane \in L!Range(lanes)
      BY <1>4, <3>1
    <3>3. ~shifted' => lanes = plotted /\ ~shifted
      BY <1>1, <2>1, <3>1
    <3>4. QED
      BY <1>1, <2>1, <3>1, <3>2, <3>3 DEF Firm, OneHeld, Placed
  <2>5. OneHeld'
    BY <2>1, <2>3, <2>4 DEF Firm, OneHeld
  <2>6. QED
    BY <1>1, <2>2, <2>5 DEF Firm
<1>5. QED
  BY <1>3, <1>4

LEMMA AskFirm ==
  ASSUME L!LanesAssumption, Firm, NEW own \in AllLanes \cup {None, "add"}, L!Ask(own)
  PROVE  Firm'
<1>1. /\ UNCHANGED <<hold, drag, swipe, holding, picking, peeking, span, loops, plotted,
                     touches, pinch, raced, shifted>>
      /\ picker' \in AllLanes \cup {None, "add"}
  BY DEF L!Ask, L!gestureVars
<1>2. /\ touches' \subseteq L!Pair /\ pinch' \in BOOLEAN /\ (pinch' => touches' = L!Pair)
      /\ hold # None /\ hold.touch => hold.pointer \in touches' /\ ~pinch'
  BY <1>1 DEF Firm, LaneTypes, OneHeld, Pointed
<1>3. QED
  BY <1>1, <1>2, HeldStill

LEMMA PickFirm ==
  ASSUME L!LanesAssumption, Firm, NEW lane \in AllLanes, L!Pick(lane)
  PROVE  Firm'
<1>1. plotted \in Columns
  BY DEF Firm, LaneTypes
<1>2. L!Take(picker, lane) \in Columns
  <2>1. CASE lane = picker \/ lane \in L!Range(plotted)
    BY <1>1, <2>1 DEF L!Take
  <2>2. CASE lane # picker /\ lane \notin L!Range(plotted) /\ picker = "add"
    BY <1>1, <2>2, AddLaneIs DEF L!Take
  <2>3. CASE lane # picker /\ lane \notin L!Range(plotted) /\ picker # "add"
    BY <1>1, <2>3, SwitchLaneIs DEF L!Take
  <2>4. QED
    BY <2>1, <2>2, <2>3
<1>3. QED
  BY <1>2, ChangeToFirm DEF L!Pick

LEMMA RearrangeFirm ==
  ASSUME L!LanesAssumption, Firm, NEW own, L!Rearrange(own)
  PROVE  Firm'
<1>1. plotted \in Columns
  BY DEF Firm, LaneTypes
<1>2. PICK i \in DOMAIN plotted :
        \/ i > 1 /\ L!Perform(own, L!MoveLane(i, i - 1))
        \/ i < Len(plotted) /\ L!Perform(own, L!MoveLane(i, i + 1))
        \/ L!Perform(own, L!RemoveLane(own))
  BY DEF L!Rearrange
<1>3. i \in Nat \ {0}
  BY <1>1, ColumnIs
<1>4. \A lanes \in Columns : L!Perform(own, lanes) => Firm'
  BY ChangeToFirm DEF L!Perform
<1>5. CASE i > 1 /\ L!Perform(own, L!MoveLane(i, i - 1))
  <2>1. i - 1 \in Nat \ {0}
    BY <1>3, <1>5
  <2>2. QED
    BY <1>1, <1>4, <1>5, <2>1, MoveLaneIs
<1>6. CASE L!Perform(own, L!MoveLane(i, i + 1))
  <2>1. i + 1 \in Nat \ {0}
    BY <1>3
  <2>2. QED
    BY <1>1, <1>4, <1>6, <2>1, MoveLaneIs
<1>7. CASE L!Perform(own, L!RemoveLane(own))
  BY <1>1, <1>4, <1>7, RemoveLaneIs
<1>8. QED
  BY <1>2, <1>5, <1>6, <1>7

(* At first, and after every step. *)
LEMMA FirmAtFirst ==
  L!LanesAssumption /\ L!Init => Firm
<1> SUFFICES ASSUME L!LanesAssumption, L!Init PROVE Firm
  OBVIOUS
<1>1. plotted \in Columns
  <2>1. L!Cardinality(AllLanes) = Cardinality(AllLanes) /\ IsFiniteSet(AllLanes)
    BY DEF L!Cardinality, Cardinality, L!LanesAssumption, L!IsFiniteSet, IsFiniteSet
  <2> DEFINE n == L!Cardinality(AllLanes)
  <2>2. n \in Nat
    BY <2>1, FS_CardinalityType
  <2>3. plotted \in [1 .. n -> AllLanes] /\ \A i, j \in 1 .. n : i # j => plotted[i] # plotted[j]
    BY DEF L!Init, L!SetToSeqs
  <2> HIDE DEF n
  <2>4. QED
    BY <2>2, <2>3, ColumnOf
<1>2. LaneTypes
  BY <1>1 DEF L!Init, LaneTypes
<1>3. QED
  BY <1>2 DEF L!Init, Firm, NoneHeld, OneHeld

LEMMA FirmKept ==
  ASSUME L!LanesAssumption, Firm, [L!Next]_(L!vars)
  PROVE  Firm'
<1>1. CASE UNCHANGED L!vars
  <2>1. /\ UNCHANGED <<hold, drag, swipe, holding, picking, peeking, span, loops, plotted, picker,
                       touches, pinch, raced, shifted>>
        /\ picker \in AllLanes \cup {None, "add"} /\ touches \subseteq L!Pair /\ pinch \in BOOLEAN
        /\ pinch => touches = L!Pair
        /\ hold # None /\ hold.touch => hold.pointer \in touches /\ ~pinch
    BY <1>1 DEF L!vars, Firm, LaneTypes, OneHeld, Pointed
  <2>2. QED
    BY <2>1, HeldStill
<1>2. CASE L!Next
  <2>1. plotted \in Columns
    BY DEF Firm, LaneTypes
  <2>2. \A l \in L!Range(plotted) : l \in AllLanes
    BY <2>1, ColumnIs
  <2>3. L!ClosePicker => Firm'
    BY AskFirm DEF L!ClosePicker
  <2>4. (\E l \in L!Range(plotted) \cup {"add"} : picker = None /\ L!Ask(l)) => Firm'
    BY <2>2, AskFirm
  <2>5. QED
    BY <1>2, <2>3, <2>4, MouseDownFirm, FingerDownFirm, MoveFirm, TickFirm, OpenPickerFirm,
       LiftFirm, MouseUpFirm, GiveUpFirm, FingerUpFirm, PickFirm, RearrangeFirm
       DEF L!Next
<1>3. QED
  BY <1>1, <1>2

(* What a lane held comes to is what is asked of it. *)
LEMMA FirmIsHeld ==
  ASSUME L!LanesAssumption, Firm
  PROVE  L!TypeOK /\ L!LaneHeld
<1>1. L!TypeOK
  <2>1. plotted \in Seq(AllLanes) /\ L!IsInjective(plotted)
    BY DEF Firm, LaneTypes, Columns
  <2>2. {holding, picking, peeking, span, pinch, raced, shifted} \subseteq BOOLEAN
    BY DEF Firm, LaneTypes
  <2>3. QED
    BY <2>1, <2>2 DEF Firm, LaneTypes, L!TypeOK
<1>2. ASSUME hold = None
      PROVE  /\ drag = None /\ swipe = None /\ ~holding /\ ~picking /\ ~peeking /\ ~span
             /\ ~raced => loops = 0
             /\ ~L!Keep.stop
  <2>1. drag = None /\ swipe = None /\ ~holding /\ ~picking /\ ~peeking /\ ~span
        /\ (~raced => loops = 0)
    BY <1>2 DEF Firm, NoneHeld
  <2>2. ~L!Keep.stop
    BY <2>1 DEF L!Keep, L!KeepsTouch, L!Flags
  <2>3. QED
    BY <2>1, <2>2
<1>3. ASSUME hold # None
      PROVE  L!Cardinality({thing \in {"rest", "drag", "swipe", "peek", "pick", "select"} :
               CASE thing = "rest" -> holding [] thing = "drag" -> drag # None
                 [] thing = "swipe" -> swipe # None [] thing = "peek" -> peeking
                 [] thing = "pick" -> picking [] OTHER -> span}) <= 1
  <2> DEFINE S == {thing \in {"rest", "drag", "swipe", "peek", "pick", "select"} :
               CASE thing = "rest" -> holding [] thing = "drag" -> drag # None
                 [] thing = "swipe" -> swipe # None [] thing = "peek" -> peeking
                 [] thing = "pick" -> picking [] OTHER -> span}
  <2>1. \A x, y \in S : x = y
    BY <1>3 DEF Firm, OneHeld, OneThing
  <2>2. S = {} \/ \E x : S = {x}
    <3> HIDE DEF S
    <3> QED
      BY <2>1
  <2>3. Cardinality(S) <= 1
    <3> HIDE DEF S
    <3>1. CASE S = {}
      BY <3>1, FS_EmptySet
    <3>2. ASSUME NEW x, S = {x} PROVE Cardinality(S) <= 1
      <4>1. Cardinality({x}) = 1
        BY FS_Singleton
      <4>2. QED
        BY <3>2, <4>1
    <3>3. QED
      BY <2>2, <3>1, <3>2
  <2>4. L!Cardinality(S) = Cardinality(S)
    BY DEF L!Cardinality, Cardinality
  <2>5. QED
    BY <2>3, <2>4
<1>4. ASSUME hold # None
      PROVE  /\ hold.lane \in L!Range(plotted)
             /\ picking = (hold.stage = "picker")
             /\ ~raced => loops = IF drag # None THEN 1 ELSE 0
  <2>1. picking \in BOOLEAN /\ (picking <=> hold.stage = "picker")
    BY <1>4 DEF Firm, LaneTypes, OneHeld
  <2>2. QED
    BY <1>4, <2>1 DEF Firm, OneHeld, Placed, Loops
<1>5. ASSUME hold # None, hold.touch
      PROVE  /\ hold.pointer \in touches /\ ~pinch
             /\ L!Keep = [prevent |-> ~holding, stop |-> TRUE]
  <2>1. /\ hold.pointer \in touches /\ ~pinch
        /\ holding \/ drag # None \/ swipe # None \/ peeking \/ picking
        /\ OneThing
    BY <1>5 DEF Firm, OneHeld, Pointed
  <2> DEFINE prevent == drag # None \/ swipe # None \/ picking \/ peeking
  <2>2. L!Keep = [prevent |-> prevent, stop |-> prevent \/ holding]
    BY DEF L!Keep, L!KeepsTouch, L!Flags
  <2>3. (prevent <=> ~holding) /\ (prevent \/ holding)
    BY <2>1 DEF OneThing
  <2>4. prevent = ~holding /\ (prevent \/ holding) = TRUE
    BY <2>3
  <2>5. QED
    BY <2>1, <2>2, <2>4
<1>6. drag # None /\ ~shifted => drag.lane = hold.lane /\ drag.lane = plotted[drag.from]
  <2>1. drag # None => hold # None
    BY DEF Firm, NoneHeld
  <2>2. QED
    BY <2>1 DEF Firm, OneHeld, Placed
<1>7. L!LaneHeld
  BY <1>2, <1>3, <1>4, <1>5, <1>6 DEF L!LaneHeld
<1>8. QED
  BY <1>1, <1>7

-----------------------------------------------------------------------------
(* The same of the page that is run, whichever part of it: the rest leaves *)
(* the gestures alone, those on the scope and those on the lanes.          *)
THEOREM LetGoHolds == MCSpec => []LetGo
<1>1. MCInit => Steady /\ Firm
  BY ScopeAssumption, SteadyAtStart, FirmAtFirst DEF MCInit
<1>2. Steady /\ Firm /\ [MCNext]_MCVars => Steady' /\ Firm'
  <2> SUFFICES ASSUME Steady, Firm, [MCNext]_MCVars PROVE Steady' /\ Firm'
    OBVIOUS
  <2>1. [G!Next]_(G!vars)
    BY DEF MCNext, MCVars, OfLanes, OfWindow, OfSets, OfTree, OfColumn, OfGestures, gestureVars,
           G!Next, G!vars
  <2>2. [L!Next]_(L!vars)
    BY DEF MCNext, MCVars, OfLanes, OfWindow, OfSets, OfTree, OfColumn, OfGestures, laneVars,
           L!vars
  <2>3. QED
    BY <2>1, <2>2, ScopeAssumption, SteadyKept, FirmKept
<1>3. Steady /\ Firm => LetGo
  BY ScopeAssumption, Enough, FirmIsHeld DEF LetGo
<1>4. QED
  BY <1>1, <1>2, <1>3, PTL DEF MCSpec

(* The page as it is run has only sets it can have, the built-in last and  *)
(* the imports newest first; and once what is to be written is written,    *)
(* the database has the sets that are listed, of the imports listed, and   *)
(* what is switched off is what the operator switched off (mapsets.ts:129).*)
THEOREM SetsKeptHolds == MCSpec => []SetsKept
<1>1. MCInit => M!Lasting
  BY ScopeAssumption, M!LastingAtFirst DEF MCInit
<1>2. M!Lasting /\ [MCNext]_MCVars => M!Lasting'
  <2> SUFFICES ASSUME M!Lasting, [MCNext]_MCVars PROVE M!Lasting'
    OBVIOUS
  <2>1. [M!Next]_(M!vars)
    BY DEF MCNext, MCVars, OfGestures, OfLanes, OfWindow, OfSets, OfTree, OfColumn, setVars,
           M!vars
  <2>2. QED
    BY <2>1, ScopeAssumption, M!LastingKept
<1>3. M!Lasting => SetsKept
  BY M!LastingIsKept DEF SetsKept
<1>4. QED
  BY <1>1, <1>2, <1>3, PTL DEF MCSpec

=============================================================================
