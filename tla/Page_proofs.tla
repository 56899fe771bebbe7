---------------------------- MODULE Page_proofs ----------------------------
(***************************************************************************)
(* What the page around the scope promises, for every value of the         *)
(* constants: the sheet of a phone, and the placer and the renderer that   *)
(* draw for it.                                                            *)
(***************************************************************************)
EXTENDS MCPage, Placer, Renderer, SequenceTheorems, FiniteSetTheorems,
        FunctionTheorems, TLAPS

-----------------------------------------------------------------------------
(* The sheet, of any panels, pulled by any fingers, at any speeds.         *)

Frames == [height : Int, shift : Int] \cup {None}
Pulls ==
  [pressed : BOOLEAN, pulled : BOOLEAN, landedAt : Int, shown : Int, extent : Int,
   frame : Frames, landed : [finger : Fingers, y : Int] \cup {None},
   pulling : Fingers \cup {None}]

(* The sheet that is open rests at a detent its panel has. *)
Rests ==
  /\ active \in SheetPanels \cup {None}
  /\ active # None => detent \in Shared!Detents(active)

(* The fingers that are down are on one sheet, which is open unless it was *)
(* closed under them; one on the grabber is alone.                         *)
Down ==
  /\ DOMAIN fingers \subseteq Fingers
  /\ \A f \in DOMAIN fingers :
       /\ fingers[f] \in [on : {"grip", "content"}, of : SheetPanels, y : Int]
       /\ active \in {None, fingers[f].of}
  /\ \A f, g \in DOMAIN fingers :
       /\ fingers[f].of = fingers[g].of
       /\ fingers[f].on = "grip" => f = g

(* The finger that works the pull of a sheet. *)
Works(f, p) ==
  /\ f \in DOMAIN fingers /\ fingers[f].of = p
  /\ fingers[f].on = "content" => sheet[p].pulling = f

(* What a pull is of: the finger that may yet pull is alone and has pressed*)
(* nothing; the one that pulls is down, and presses; what is pressed is    *)
(* open and worked; and what is drawn follows who works it.                *)
Worked(p) ==
  /\ sheet[p].landed # None =>
       /\ ~sheet[p].pressed /\ active = p
       /\ DOMAIN fingers = {sheet[p].landed.finger}
       /\ fingers[sheet[p].landed.finger].on = "content"
       /\ fingers[sheet[p].landed.finger].of = p
  /\ sheet[p].pulling # None =>
       /\ sheet[p].pulling \in DOMAIN fingers /\ fingers[sheet[p].pulling].of = p
       /\ fingers[sheet[p].pulling].on = "content" /\ sheet[p].pressed
  /\ sheet[p].pressed => active = p /\ \E f \in DOMAIN fingers : Works(f, p)
  /\ sheet[p].frame # None =>
       /\ sheet[p].pressed /\ sheet[p].pulled
       /\ \A f \in DOMAIN fingers : Works(f, p) =>
            sheet[p].frame =
              Shared!SheetFrame(sheet[p].shown + sheet[p].landedAt - fingers[f].y,
                                Shared!Smallest(p), Shared!Largest(p))

Sheets == sheet \in [SheetPanels -> Pulls] /\ \A p \in SheetPanels : Worked(p)

Follows == Rests /\ Down /\ Sheets

LEMMA FollowsIsEnough == Follows => SheetFollows
<1> SUFFICES ASSUME Follows PROVE Shared!SheetFollows
  BY DEF SheetFollows
<1>1. active # None => detent \in Shared!Detents(active)
  BY DEF Follows, Rests
<1>2. ASSUME NEW p \in SheetPanels, \A f \in DOMAIN fingers : fingers[f].of # p
      PROVE  sheet[p].frame = None /\ sheet[p].pulling = None /\ ~sheet[p].pressed
  BY <1>2 DEF Follows, Sheets, Worked, Works
<1>3. ASSUME NEW p \in SheetPanels, sheet[p].frame # None
      PROVE  /\ active = p /\ sheet[p].pressed /\ sheet[p].pulled
             /\ \E f \in DOMAIN fingers :
                  /\ fingers[f].of = p
                  /\ fingers[f].on = "content" => sheet[p].pulling = f
                  /\ sheet[p].frame =
                       Shared!SheetFrame(sheet[p].shown + sheet[p].landedAt - fingers[f].y,
                                         Shared!Smallest(p), Shared!Largest(p))
  BY <1>3 DEF Follows, Sheets, Worked, Works
<1>4. QED
  BY <1>1, <1>2, <1>3 DEF Shared!SheetFollows

LEMMA FollowsAtStart == Shared!Init => Follows
<1> SUFFICES ASSUME Shared!Init PROVE Follows
  OBVIOUS
<1>1. Shared!Idle \in Pulls
  BY DEF Shared!Idle, Pulls, Frames
<1>2. DOMAIN fingers = {}
  BY DEF Shared!Init
<1>3. \A p \in SheetPanels : sheet[p] = Shared!Idle
  BY DEF Shared!Init
<1>4. Rests /\ Down
  BY <1>2 DEF Shared!Init, Rests, Down
<1>5. \A p \in SheetPanels : Worked(p)
  BY <1>2, <1>3 DEF Worked, Shared!Idle
<1>6. QED
  BY <1>1, <1>3, <1>4, <1>5 DEF Shared!Init, Follows, Sheets

-----------------------------------------------------------------------------
(* Where a sheet may rest. *)

LEMMA SheetLengths ==
  /\ MEDIUM \in Nat \ {0} /\ LARGE \in Nat \ {0}
  /\ DECIDE \in Nat \ {0} /\ PULL \in Nat \ {0} /\ COAST \in Nat /\ FLING \in Nat /\ RUBBER \in 1 .. 99
  /\ \A v \in Speeds \cup {-w : w \in Speeds} : v \in Int
  /\ None \notin SheetPanels /\ None \notin Fingers
<1> DEFINE heights == [medium |-> MEDIUM, large |-> LARGE]
<1>1. {heights[d] : d \in DOMAIN heights} \subseteq Nat \ {0}
  BY PageAssumption DEF Shared!SheetAssumption
<1>2. "medium" \in DOMAIN heights /\ "large" \in DOMAIN heights
      /\ heights["medium"] = MEDIUM /\ heights["large"] = LARGE
  OBVIOUS
<1> HIDE DEF heights
<1>3. MEDIUM \in Nat \ {0} /\ LARGE \in Nat \ {0}
  BY <1>1, <1>2
<1>4. QED
  BY <1>3, PageAssumption DEF Shared!SheetAssumption

LEMMA PairAndOne ==
  ASSUME NEW S, NEW a \in S, NEW b \in S
  PROVE  /\ <<a, b>> \in Seq(S) /\ Len(<<a, b>>) = 2
         /\ <<b>> \in Seq(S) /\ Len(<<b>>) = 1
  OBVIOUS

LEMMA DetentsOf ==
  ASSUME NEW p \in SheetPanels
  PROVE  /\ SheetDetents[p] \in Seq({"medium", "large"}) /\ Len(SheetDetents[p]) \in Nat \ {0}
         /\ Shared!Detents(p) \subseteq {"medium", "large"}
         /\ \A i \in 1 .. Len(SheetDetents[p]) : SheetDetents[p][i] \in Shared!Detents(p)
<1>1. SheetDetents[p] = <<"medium", "large">> \/ SheetDetents[p] = <<"large">>
  BY DEF SheetDetents
<1>2. SheetDetents[p] \in Seq({"medium", "large"}) /\ Len(SheetDetents[p]) \in Nat \ {0}
  <2> DEFINE m == "medium"
             l == "large"
             S == {m, l}
  <2>1. SheetDetents[p] = <<m, l>> \/ SheetDetents[p] = <<l>>
    BY <1>1
  <2>2. m \in S /\ l \in S
    OBVIOUS
  <2> HIDE DEF m, l, S
  <2>3. /\ <<m, l>> \in Seq(S) /\ Len(<<m, l>>) = 2
        /\ <<l>> \in Seq(S) /\ Len(<<l>>) = 1
    BY <2>2, PairAndOne
  <2> DEFINE long == <<m, l>>
             short == <<l>>
  <2> HIDE DEF long, short
  <2>4. SheetDetents[p] \in Seq(S) /\ Len(SheetDetents[p]) \in Nat \ {0}
    <3>1. SheetDetents[p] = long \/ SheetDetents[p] = short
      BY <2>1 DEF long, short
    <3>2. long \in Seq(S) /\ Len(long) = 2 /\ short \in Seq(S) /\ Len(short) = 1
      BY <2>3 DEF long, short
    <3>3. 1 \in Nat \ {0} /\ 2 \in Nat \ {0}
      OBVIOUS
    <3>4. QED
      BY <3>1, <3>2, <3>3
  <2>5. QED
    BY <2>4 DEF m, l, S
<1>3. DOMAIN SheetDetents[p] = 1 .. Len(SheetDetents[p])
  BY <1>2
<1>4. Shared!Detents(p) = {SheetDetents[p][i] : i \in 1 .. Len(SheetDetents[p])}
  BY <1>3 DEF Shared!Detents, Shared!ToSet
<1>5. \A i \in 1 .. Len(SheetDetents[p]) : SheetDetents[p][i] \in {"medium", "large"}
  BY <1>2
<1>6. QED
  BY <1>2, <1>4, <1>5

LEMMA HeightsAre ==
  ASSUME NEW d \in {"medium", "large"}
  PROVE  [medium |-> MEDIUM, large |-> LARGE][d] \in {MEDIUM, LARGE}
  OBVIOUS

LEMMA StopsAre ==
  ASSUME NEW p \in SheetPanels
  PROVE  0 \in Shared!Stops(p) /\ Shared!Stops(p) \subseteq {0, MEDIUM, LARGE}
  BY DetentsOf, HeightsAre DEF Shared!Stops

(* Of up to three of the things an order orders there is a first. *)
LEMMA FirstOfThree ==
  ASSUME NEW D, NEW a \in D, NEW b \in D, NEW c \in D, NEW X \in SUBSET {a, b, c}, X # {}, NEW R,
         \A s, t \in D : <<s, t>> \in R \/ <<t, s>> \in R,
         \A s, t, u \in D : <<s, t>> \in R /\ <<t, u>> \in R => <<s, u>> \in R
  PROVE  \E s \in X : \A t \in X : <<s, t>> \in R
<1>1. ASSUME NEW Y \in SUBSET {a, b}, Y # {}
      PROVE  \E s \in Y : \A t \in Y : <<s, t>> \in R
  <2>1. CASE a \in Y /\ <<a, b>> \in R
    BY <2>1
  <2>2. CASE b \in Y /\ <<b, a>> \in R
    BY <2>2
  <2>3. CASE Y = {a} \/ Y = {b}
    BY <2>3
  <2>4. Y = {a} \/ Y = {b} \/ (a \in Y /\ b \in Y)
    BY <1>1
  <2>5. QED
    BY <2>1, <2>2, <2>3, <2>4
<1>2. CASE c \notin X
  BY <1>1, <1>2
<1>3. CASE X = {c}
  BY <1>3
<1>4. CASE c \in X /\ X # {c}
  <2>1. X \ {c} \in SUBSET {a, b} /\ X \ {c} # {}
    BY <1>4
  <2>2. PICK s \in X \ {c} : \A t \in X \ {c} : <<s, t>> \in R
    BY <1>1, <2>1
  <2>3. CASE <<s, c>> \in R
    BY <1>4, <2>2, <2>3
  <2>4. CASE <<c, s>> \in R
    <3>1. \A t \in X \ {c} : <<c, t>> \in R
      BY <2>2, <2>4
    <3>2. <<c, c>> \in R
      OBVIOUS
    <3>3. QED
      BY <1>4, <3>1, <3>2
  <2>5. QED
    BY <2>3, <2>4
<1>5. QED
  BY <1>2, <1>3, <1>4

(* The same, for an order of whole numbers and the stops of a sheet. *)
LEMMA FirstStop ==
  ASSUME NEW X \in SUBSET {0, MEDIUM, LARGE}, X # {}, NEW R,
         \A s, t \in Int : <<s, t>> \in R \/ <<t, s>> \in R,
         \A s, t, u \in Int : <<s, t>> \in R /\ <<t, u>> \in R => <<s, u>> \in R
  PROVE  \E s \in X : \A t \in X : <<s, t>> \in R
<1>1. 0 \in Int /\ MEDIUM \in Int /\ LARGE \in Int
  BY SheetLengths
<1>2. QED
  BY <1>1, FirstOfThree, ZenonT(60)

LEMMA NearestIsOne ==
  ASSUME NEW X \in SUBSET {0, MEDIUM, LARGE}, X # {}, NEW extent \in Int
  PROVE  Shared!Nearest(X, extent) \in X
<1> DEFINE Closer(s, other) ==
             \/ Shared!Far(s, extent) < Shared!Far(other, extent)
             \/ Shared!Far(s, extent) = Shared!Far(other, extent) /\ s <= other
<1>1. X \subseteq Int /\ MEDIUM \in Int /\ LARGE \in Int
  BY SheetLengths
<1>2. \A s, t \in Int : Closer(s, t) \/ Closer(t, s)
  BY DEF Shared!Far
<1>3. \A s, t, u \in Int : Closer(s, t) /\ Closer(t, u) => Closer(s, u)
  BY DEF Shared!Far
<1>4. \E s \in X : \A other \in X : Closer(s, other)
  <2> HIDE DEF Closer
  <2> DEFINE R == {r \in Int \X Int : Closer(r[1], r[2])}
  <2>1. \A s, t \in Int : <<s, t>> \in R <=> Closer(s, t)
    OBVIOUS
  <2> HIDE DEF R
  <2>2. /\ \A s, t \in Int : <<s, t>> \in R \/ <<t, s>> \in R
        /\ \A s, t, u \in Int : <<s, t>> \in R /\ <<t, u>> \in R => <<s, u>> \in R
    BY <1>2, <1>3, <2>1
  <2>3. \E s \in X : \A t \in X : <<s, t>> \in R
    BY <2>2, FirstStop
  <2>4. QED
    BY <1>1, <2>1, <2>3
<1>5. QED
  BY <1>4 DEF Shared!Nearest

(* A sheet let go of settles at a detent of its panel, or closes. *)
LEMMA SettlesAtDetent ==
  ASSUME NEW p \in SheetPanels, NEW extent \in Int,
         NEW velocity \in Speeds \cup {-v : v \in Speeds}
  PROVE  Shared!Settled(p, extent, velocity) \in Shared!Detents(p) \cup {None}
<1> DEFINE stops == Shared!Stops(p)
           below == {s \in stops : s <= extent}
           above == stops \ below
           either == {s \in below : \A t \in below : t <= s}
                     \cup {s \in above : \A t \in above : s <= t}
           among == IF Shared!Far(velocity, 0) >= FLING THEN stops ELSE either
           nearest == Shared!Nearest(among, extent + velocity * COAST)
<1>1. 0 \in stops /\ stops \subseteq {0, MEDIUM, LARGE}
  BY StopsAre
<1>2. MEDIUM \in Nat /\ LARGE \in Nat /\ extent + velocity * COAST \in Int
  BY SheetLengths
<1>3. either # {}
  <2>1. CASE below = {}
    <3>1. 0 \in above /\ \A t \in above : 0 <= t
      BY <1>1, <1>2, <2>1
    <3>2. QED
      BY <3>1
  <2>2. CASE below # {}
    <3>1. below \subseteq {0, MEDIUM, LARGE}
      BY <1>1
    <3> HIDE DEF below
    <3> DEFINE R == {r \in Int \X Int : r[2] <= r[1]}
    <3>2. \A s, t \in Int : <<s, t>> \in R <=> t <= s
      OBVIOUS
    <3> HIDE DEF R
    <3>3. /\ \A s, t \in Int : <<s, t>> \in R \/ <<t, s>> \in R
          /\ \A s, t, u \in Int : <<s, t>> \in R /\ <<t, u>> \in R => <<s, u>> \in R
      BY <3>2
    <3>4. \E s \in below : \A t \in below : <<s, t>> \in R
      BY <2>2, <3>1, <3>3, FirstStop
    <3>5. below \subseteq Int
      BY <1>2, <3>1
    <3>6. \E s \in below : \A t \in below : t <= s
      BY <3>2, <3>4, <3>5
    <3>7. QED
      BY <3>6 DEF below
  <2>3. QED
    BY <2>1, <2>2
<1>4. among # {} /\ among \subseteq stops
  BY <1>1, <1>3
<1>5. nearest \in stops
  <2>1. among \in SUBSET {0, MEDIUM, LARGE}
    BY <1>1, <1>4
  <2>2. nearest \in among
    <3> HIDE DEF among
    <3>1. QED
      BY <1>2, <1>4, <2>1, NearestIsOne
  <2>3. QED
    BY <1>4, <2>2
<1>6. Shared!Settled(p, extent, velocity) = Shared!DetentAt(p, nearest)
  BY DEF Shared!Settled
<1> HIDE DEF nearest
<1>7. CASE nearest = 0
  BY <1>6, <1>7 DEF Shared!DetentAt
<1>8. CASE nearest # 0
  <2>1. \E d \in Shared!Detents(p) : [medium |-> MEDIUM, large |-> LARGE][d] = nearest
    BY <1>5, <1>8 DEF Shared!Stops
  <2>2. QED
    BY <1>6, <1>8, <2>1 DEF Shared!DetentAt
<1>9. QED
  BY <1>7, <1>8

(* The next detent, and where a panel takes the sheet, are its detents. *)
LEMMA NextIsDetent ==
  ASSUME NEW p \in SheetPanels
  PROVE  Shared!NextDetent(p) \in Shared!Detents(p) /\ Shared!DetentFor(p) \in Shared!Detents(p)
<1> DEFINE places == {i \in DOMAIN SheetDetents[p] : SheetDetents[p][i] = detent}
           place == IF places = {} THEN 0 ELSE CHOOSE i \in places : TRUE
           n == Len(SheetDetents[p])
<1>1. n \in Nat \ {0} /\ DOMAIN SheetDetents[p] = 1 .. n
  BY DetentsOf
<1>2. place \in Nat
  BY <1>1
<1> HIDE DEF place, n
<1>3. (place % n) + 1 \in 1 .. n
  BY <1>1, <1>2
<1>4. Shared!NextDetent(p) = SheetDetents[p][(place % n) + 1]
  BY DEF Shared!NextDetent, place, n
<1>5. QED
  BY <1>1, <1>3, <1>4, DetentsOf DEF Shared!DetentFor, n

-----------------------------------------------------------------------------
(* What a step does to the sheet a finger is on, and to the others. *)

Quiet(p) ==
  /\ sheet[p].landed = None /\ sheet[p].pulling = None
  /\ ~sheet[p].pressed /\ sheet[p].frame = None

LEMMA FrameTyped ==
  ASSUME NEW p \in SheetPanels, NEW extent \in Int
  PROVE  Shared!SheetFrame(extent, Shared!Smallest(p), Shared!Largest(p)) \in Frames
<1> DEFINE small == Shared!Smallest(p)
           large == Shared!Largest(p)
<1>1. small \in Nat \ {0} /\ large \in Nat \ {0}
  <2>1. /\ SheetDetents[p][1] \in {"medium", "large"}
        /\ SheetDetents[p][Len(SheetDetents[p])] \in {"medium", "large"}
    BY DetentsOf
  <2>2. small \in {MEDIUM, LARGE} /\ large \in {MEDIUM, LARGE}
    BY <2>1, HeightsAre DEF Shared!Smallest, Shared!Largest, Shared!Last
  <2>3. QED
    BY <2>2, SheetLengths
<1> HIDE DEF small, large
<1>2. ASSUME extent > large
      PROVE  ((RUBBER * (extent - large) * large)
                \div (RUBBER * (extent - large) + 100 * large)) \in Int
  <2> DEFINE over == RUBBER * (extent - large)
  <2>1. RUBBER \in Nat /\ extent - large \in Nat
    BY <1>1, <1>2, SheetLengths
  <2>2. over \in Nat
    BY <2>1
  <2> HIDE DEF over
  <2>3. over + 100 * large \in Nat \ {0} /\ over * large \in Int
    BY <1>1, <2>2
  <2>4. ((over * large) \div (over + 100 * large)) \in Int
    BY <2>3
  <2>5. QED
    BY <2>4 DEF over
<1>3. Shared!SheetFrame(extent, small, large) \in Frames
  BY <1>1, <1>2 DEF Shared!SheetFrame, Frames
<1>4. QED
  BY <1>3 DEF small, large

(* A drag leaves the pull as it was, or draws it where the finger is. *)
LEMMA DraggedIs ==
  ASSUME NEW p \in SheetPanels, NEW s \in Pulls, NEW y \in Int, NEW t, t = Shared!Dragged(p, s, y)
  PROVE  /\ t \in Pulls
         /\ t.landed = s.landed /\ t.pulling = s.pulling /\ t.pressed = s.pressed
         /\ t.shown = s.shown /\ t.landedAt = s.landedAt
         /\ \/ t.frame = s.frame /\ ~(s.pressed /\ s.pulled)
            \/ /\ t.pulled /\ t.pressed
               /\ t.frame = Shared!SheetFrame(s.shown + s.landedAt - y,
                                              Shared!Smallest(p), Shared!Largest(p))
<1> DEFINE slid == Shared!SheetFrame(s.shown + s.landedAt - y,
                                     Shared!Smallest(p), Shared!Largest(p))
<1>1. s.shown + s.landedAt - y \in Int
  BY DEF Pulls
<1>2. slid \in Frames
  BY <1>1, FrameTyped
<1>3. \/ t = s /\ ~(s.pressed /\ s.pulled)
      \/ s.pressed /\ t = [s EXCEPT !.pulled = TRUE, !.extent = s.shown + s.landedAt - y,
                                    !.frame = slid]
  BY DEF Shared!Dragged
<1> HIDE DEF slid
<1>4. CASE t = s /\ ~(s.pressed /\ s.pulled)
  BY <1>4
<1>5. CASE s.pressed /\ t = [s EXCEPT !.pulled = TRUE, !.extent = s.shown + s.landedAt - y,
                                      !.frame = slid]
  <2>1. t \in Pulls
    BY <1>1, <1>2, <1>5 DEF Pulls
  <2>2. /\ t.landed = s.landed /\ t.pulling = s.pulling /\ t.pressed = s.pressed
        /\ t.shown = s.shown /\ t.landedAt = s.landedAt
        /\ t.pulled = TRUE /\ t.frame = slid
    BY <1>5 DEF Pulls
  <2>3. QED
    BY <1>5, <2>1, <2>2 DEF slid
<1>6. QED
  BY <1>3, <1>4, <1>5

LEMMA QuietWorks == ASSUME NEW p \in SheetPanels, Quiet(p) PROVE Worked(p)
BY DEF Quiet, Worked

LEMMA QuietWorksNext == ASSUME NEW p \in SheetPanels, Quiet(p)' PROVE Worked(p)'
BY DEF Quiet, Worked

(* The sheets no finger is on are quiet. *)
LEMMA OthersQuiet ==
  ASSUME Follows, NEW q \in SheetPanels, \A f \in DOMAIN fingers : fingers[f].of # q
  PROVE  Quiet(q)
BY DEF Follows, Sheets, Worked, Works, Quiet

LEMMA OneSheet ==
  ASSUME Follows, NEW p \in SheetPanels, NEW t \in Pulls, sheet' = [sheet EXCEPT ![p] = t],
         \A q \in SheetPanels \ {p} : Quiet(q),
         Rests', Down', sheet'[p] = t => Worked(p)'
  PROVE  Follows'
<1>1. DOMAIN sheet' = SheetPanels /\ sheet'[p] = t
      /\ \A q \in SheetPanels \ {p} : sheet'[q] = sheet[q]
  BY DEF Follows, Sheets
<1>2. \A q \in SheetPanels \ {p} : Quiet(q)'
  BY <1>1 DEF Quiet
<1>3. \A q \in SheetPanels : Worked(q)'
  BY <1>1, <1>2, QuietWorksNext
<1>4. sheet' \in [SheetPanels -> Pulls]
  BY DEF Follows, Sheets
<1>5. QED
  BY <1>1, <1>3, <1>4 DEF Follows, Sheets

LEMMA TabFollows ==
  ASSUME ~Mixed, Follows, NEW p \in SheetPanels, Shared!Tab(p)
  PROVE  Follows'
<1>1. DOMAIN fingers = {} /\ fingers' = fingers /\ sheet' = sheet
  BY DEF Shared!Tab
<1>2. \A q \in SheetPanels : Quiet(q)
  BY <1>1, OthersQuiet
<1>3. \A q \in SheetPanels : Quiet(q)'
  BY <1>1, <1>2 DEF Quiet
<1>4. Rests'
  BY NextIsDetent DEF Shared!Tab, Rests
<1>5. Down'
  BY <1>1 DEF Down
<1>6. QED
  BY <1>1, <1>3, <1>4, <1>5, QuietWorksNext DEF Follows, Sheets

LEMMA ClickFollows ==
  ASSUME Follows, NEW p \in SheetPanels, Shared!Click(p)
  PROVE  Follows'
<1> DEFINE t == [sheet[p] EXCEPT !.pulled = FALSE]
<1>1. DOMAIN fingers = {} /\ fingers' = fingers /\ sheet' = [sheet EXCEPT ![p] = t]
      /\ active' = active /\ active = p
  BY DEF Shared!Click
<1>2. \A q \in SheetPanels : Quiet(q)
  BY <1>1, OthersQuiet
<1>3. sheet[p] \in Pulls
  BY DEF Follows, Sheets
<1>4. t \in Pulls /\ t.landed = sheet[p].landed /\ t.pulling = sheet[p].pulling
      /\ t.pressed = sheet[p].pressed /\ t.frame = sheet[p].frame
  BY <1>3 DEF Pulls
<1>5. Rests'
  BY <1>1, NextIsDetent DEF Shared!Click, Rests, Follows
<1>6. Down'
  BY <1>1 DEF Down
<1> HIDE DEF t
<1>7. sheet'[p] = t => Worked(p)'
  <2>1. sheet'[p] = t => Quiet(p)'
    BY <1>2, <1>4 DEF Quiet
  <2>2. QED
    BY <2>1, QuietWorksNext
<1>8. QED
  BY <1>1, <1>2, <1>4, <1>5, <1>6, <1>7, OneSheet

(* Where a finger lands, the others stay; and it is on the open sheet. *)
LEMMA LandsIs ==
  ASSUME NEW f, NEW on, NEW y, Shared!Lands(f, on, y)
  PROVE  /\ DOMAIN fingers' = DOMAIN fingers \cup {f}
         /\ fingers'[f] = [on |-> on, of |-> active, y |-> y]
         /\ \A g \in DOMAIN fingers \ {f} : fingers'[g] = fingers[g]
BY DEF Shared!Lands

LEMMA PressGripFollows ==
  ASSUME ~Mixed, Follows, active # None, NEW f \in Fingers \ DOMAIN fingers,
         NEW y \in 0 .. Shared!Room, Shared!PressGrip(f, y)
  PROVE  Follows'
<1>0. PICK p \in SheetPanels : p = active
  BY DEF Follows, Rests
<1> DEFINE s == sheet[p]
           t == [Shared!Down(p, s, y) EXCEPT !.landed = IF s.pulling = None THEN None ELSE @]
<1>1. /\ DOMAIN fingers = {} /\ sheet' = [sheet EXCEPT ![p] = t]
      /\ active' = active /\ active = p /\ detent' = detent /\ Shared!Lands(f, "grip", y)
  BY <1>0 DEF Shared!PressGrip
<1>2. detent \in Shared!Detents(p) /\ s \in Pulls
  BY <1>0 DEF Follows, Rests, Sheets
<1>3. DOMAIN fingers' = {f} /\ fingers'[f] = [on |-> "grip", of |-> p, y |-> y]
  BY <1>1, LandsIs, ZenonT(60)
<1>4. \A q \in SheetPanels : Quiet(q)
  BY <1>1, OthersQuiet
<1>5. y \in Int /\ Shared!ShownOf(p) \in Int
  <2>1. detent \in {"medium", "large"}
    BY <1>2, DetentsOf
  <2>2. Shared!ShownOf(p) = [medium |-> MEDIUM, large |-> LARGE][detent]
    BY <1>1, <1>2, <1>4 DEF Quiet, Shared!ShownOf
  <2>3. QED
    BY <2>1, <2>2, HeightsAre, SheetLengths DEF Shared!Room
<1>6. t \in Pulls /\ t.landed = None /\ t.pulling = None /\ t.pressed /\ t.frame = None
  <2>1. s.landed = None /\ s.pulling = None /\ s.frame = None
    BY <1>2, <1>4 DEF Quiet
  <2>2. t = [s EXCEPT !.landedAt = y, !.pressed = TRUE, !.pulled = FALSE,
                      !.shown = Shared!ShownOf(p), !.landed = None]
    BY <1>2, <2>1 DEF Shared!Down, Pulls
  <2>3. QED
    BY <1>2, <1>5, <2>1, <2>2 DEF Pulls
<1>7. Rests'
  BY <1>1 DEF Follows, Rests
<1>8. Down'
  BY <1>1, <1>2, <1>3, <1>5 DEF Down
<1> HIDE DEF t
<1>9. sheet'[p] = t => Worked(p)'
  BY <1>1, <1>3, <1>6 DEF Worked, Works
<1>10. QED
  BY <1>1, <1>2, <1>4, <1>6, <1>7, <1>8, <1>9, OneSheet

LEMMA PressContentFollows ==
  ASSUME ~Mixed, Follows, active # None, NEW f \in Fingers \ DOMAIN fingers,
         NEW y \in 0 .. Shared!Room, Shared!PressContent(f, y)
  PROVE  Follows'
<1>0. PICK p \in SheetPanels : p = active
  BY DEF Follows, Rests
<1> DEFINE s == sheet[p]
<1>1. PICK landed :
        /\ landed \in {s.landed, [finger |-> f, y |-> y], None}
        /\ s.pulling # None => landed = s.landed
        /\ s.pulling = None /\ DOMAIN fingers # {} => landed = None
        /\ s.pulling = None /\ DOMAIN fingers = {} => landed \in {[finger |-> f, y |-> y], None}
        /\ sheet' = [sheet EXCEPT ![p] = [s EXCEPT !.landed = landed]]
  <2>1. PICK free \in BOOLEAN :
          sheet' = [sheet EXCEPT ![p].landed =
            IF s.pulling # None THEN @
            ELSE IF fingers = <<>> /\ free THEN [finger |-> f, y |-> y] ELSE None]
    BY <1>0 DEF Shared!PressContent
  <2>2. DOMAIN fingers # {} => fingers # <<>>
    OBVIOUS
  <2>3. QED
    BY <2>1, <2>2
<1>2. /\ active' = active /\ active = p /\ detent' = detent
      /\ Shared!Lands(f, "content", y)
      /\ \A g \in DOMAIN fingers : fingers[g].on = "content"
  BY <1>0 DEF Shared!PressContent
<1>3. s \in Pulls /\ Worked(p) /\ None \notin Fingers
  BY SheetLengths DEF Follows, Rests, Sheets
<1>4. /\ DOMAIN fingers' = DOMAIN fingers \cup {f}
      /\ fingers'[f] = [on |-> "content", of |-> p, y |-> y]
      /\ \A g \in DOMAIN fingers : fingers'[g] = fingers[g]
  <2>1. /\ DOMAIN fingers' = DOMAIN fingers \cup {f}
        /\ fingers'[f] = [on |-> "content", of |-> active, y |-> y]
        /\ \A g \in DOMAIN fingers \ {f} : fingers'[g] = fingers[g]
    BY <1>2, LandsIs
  <2>2. QED
    BY <1>2, <2>1
<1>5. \A g \in DOMAIN fingers : fingers[g].of = p
  BY <1>0 DEF Follows, Down
<1>6. \A q \in SheetPanels \ {p} : Quiet(q)
  BY <1>5, OthersQuiet
<1>7. y \in Int
  BY SheetLengths DEF Shared!Room
<1> DEFINE t == [s EXCEPT !.landed = landed]
<1>8. /\ t \in Pulls /\ t.landed = landed /\ t.pulling = s.pulling /\ t.pressed = s.pressed
      /\ t.pulled = s.pulled /\ t.frame = s.frame /\ t.shown = s.shown
      /\ t.landedAt = s.landedAt
  BY <1>1, <1>3, <1>7 DEF Pulls
<1>9. Rests'
  BY <1>2 DEF Follows, Rests
<1>10. Down'
  <2>1. /\ DOMAIN fingers' \subseteq Fingers
        /\ \A g \in DOMAIN fingers' :
             /\ fingers'[g].of = p /\ fingers'[g].on = "content"
             /\ fingers'[g] \in [on : {"grip", "content"}, of : SheetPanels, y : Int]
    BY <1>2, <1>4, <1>5, <1>7 DEF Follows, Down
  <2>2. QED
    BY <1>2, <1>3, <2>1 DEF Down
<1>11. ASSUME sheet'[p] = t PROVE Worked(p)'
  <2>1. \A g \in DOMAIN fingers' : Works(g, p)' => g \in DOMAIN fingers /\ Works(g, p)
    BY <1>3, <1>4, <1>8, <1>11 DEF Works, Worked
  <2>2. \A g \in DOMAIN fingers : Works(g, p) => Works(g, p)'
    BY <1>4, <1>8, <1>11 DEF Works
  <2>3. CASE DOMAIN fingers = {}
    <3>1. s.pulling = None /\ ~s.pressed /\ s.frame = None
      BY <1>3, <2>3 DEF Worked, Works
    <3>2. landed \in {[finger |-> f, y |-> y], None}
      BY <1>1, <2>3, <3>1
    <3>3. QED
      BY <1>2, <1>4, <1>8, <1>11, <2>3, <3>1, <3>2 DEF Worked, Works
  <2>4. CASE DOMAIN fingers # {}
    <3>1. landed = None
      BY <1>1, <1>3, <2>4 DEF Worked
    <3>2. s.pulling # None => s.pulling \in DOMAIN fingers'
            /\ fingers'[s.pulling].of = p /\ fingers'[s.pulling].on = "content" /\ s.pressed
      BY <1>3, <1>4 DEF Worked
    <3>3. s.pressed => active' = p /\ \E g \in DOMAIN fingers' : Works(g, p)'
      BY <1>2, <1>3, <1>4, <2>2 DEF Worked
    <3>4. s.frame # None =>
            /\ s.pressed /\ s.pulled
            /\ \A g \in DOMAIN fingers' : Works(g, p)' =>
                 s.frame = Shared!SheetFrame(s.shown + s.landedAt - fingers'[g].y,
                                             Shared!Smallest(p), Shared!Largest(p))
      BY <1>3, <1>4, <2>1 DEF Worked
    <3>5. QED
      BY <1>2, <1>8, <1>11, <3>1, <3>2, <3>3, <3>4 DEF Worked
  <2>5. QED
    BY <2>3, <2>4
<1> HIDE DEF t
<1>12. QED
  BY <1>1, <1>3, <1>6, <1>8, <1>9, <1>10, <1>11, OneSheet DEF t

(* What holds of the sheet a finger is on as it moves or lifts. *)
LEMMA OnOne ==
  ASSUME Follows, NEW f \in DOMAIN fingers
  PROVE  /\ fingers[f].of \in SheetPanels /\ fingers[f].on \in {"grip", "content"}
         /\ sheet[fingers[f].of] \in Pulls /\ Worked(fingers[f].of)
         /\ f \in Fingers /\ f # None
         /\ \A g \in DOMAIN fingers : fingers[g].of = fingers[f].of
         /\ fingers[f].on = "grip" => DOMAIN fingers = {f}
         /\ fingers[f].on = "content" => \A g \in DOMAIN fingers : fingers[g].on = "content"
         /\ \A q \in SheetPanels \ {fingers[f].of} : Quiet(q)
<1>1. /\ fingers[f].of \in SheetPanels /\ fingers[f].on \in {"grip", "content"} /\ f \in Fingers
      /\ \A g \in DOMAIN fingers : fingers[g].of = fingers[f].of
  BY DEF Follows, Down
<1>2. fingers[f].on = "grip" => DOMAIN fingers = {f}
  BY DEF Follows, Down
<1>3. fingers[f].on = "content" => \A g \in DOMAIN fingers : fingers[g].on = "content"
  BY DEF Follows, Down
<1>4. \A q \in SheetPanels \ {fingers[f].of} : Quiet(q)
  BY <1>1, OthersQuiet
<1>5. QED
  BY <1>1, <1>2, <1>3, <1>4, SheetLengths DEF Follows, Sheets

(* A finger that moves stays on its sheet, and the others where they were. *)
LEMMA MovedIs ==
  ASSUME Follows, NEW f \in DOMAIN fingers, NEW y \in Int,
         fingers' = [fingers EXCEPT ![f].y = y], active' = active, detent' = detent
  PROVE  /\ DOMAIN fingers' = DOMAIN fingers
         /\ fingers'[f].of = fingers[f].of /\ fingers'[f].on = fingers[f].on
         /\ fingers'[f].y = y
         /\ \A g \in DOMAIN fingers \ {f} : fingers'[g] = fingers[g]
         /\ Rests' /\ Down'
<1>1. Rests'
  BY DEF Follows, Rests
<1>2. fingers[f] \in [on : {"grip", "content"}, of : SheetPanels, y : Int]
  BY DEF Follows, Down
<1> DEFINE moved == [fingers[f] EXCEPT !.y = y]
<1>3. /\ moved \in [on : {"grip", "content"}, of : SheetPanels, y : Int]
      /\ moved.of = fingers[f].of /\ moved.on = fingers[f].on /\ moved.y = y
  BY <1>2
<1>4. /\ DOMAIN fingers' = DOMAIN fingers /\ fingers'[f] = moved
      /\ \A g \in DOMAIN fingers \ {f} : fingers'[g] = fingers[g]
  OBVIOUS
<1> HIDE DEF moved
<1>5. \A g \in DOMAIN fingers' :
        /\ fingers'[g] \in [on : {"grip", "content"}, of : SheetPanels, y : Int]
        /\ fingers'[g].of = fingers[g].of /\ fingers'[g].on = fingers[g].on
  BY <1>3, <1>4 DEF Follows, Down
<1>6. Down'
  BY <1>4, <1>5 DEF Follows, Down
<1>7. QED
  BY <1>1, <1>3, <1>4, <1>6

LEMMA MoveGripFollows ==
  ASSUME Follows, NEW f \in DOMAIN fingers, fingers[f].on = "grip", NEW y \in Int,
         fingers' = [fingers EXCEPT ![f].y = y], active' = active, detent' = detent,
         sheet' = [sheet EXCEPT ![fingers[f].of] = Shared!Dragged(fingers[f].of, @, y)]
  PROVE  Follows'
<1>1. PICK p \in SheetPanels : p = fingers[f].of
  BY OnOne
<1> DEFINE s == sheet[p]
<1>2. s \in Pulls /\ Worked(p) /\ DOMAIN fingers = {f} /\ f # None
      /\ \A q \in SheetPanels \ {p} : Quiet(q)
  BY <1>1, OnOne
<1>3. PICK t : t = Shared!Dragged(p, s, y)
  OBVIOUS
<1>4. s.landed = None /\ s.pulling = None
  BY <1>1, <1>2 DEF Worked
<1>5. /\ t \in Pulls
      /\ t.landed = s.landed /\ t.pulling = s.pulling /\ t.pressed = s.pressed
      /\ t.shown = s.shown /\ t.landedAt = s.landedAt
      /\ \/ t.frame = s.frame /\ ~(s.pressed /\ s.pulled)
         \/ /\ t.pulled /\ t.pressed
            /\ t.frame = Shared!SheetFrame(s.shown + s.landedAt - y,
                                           Shared!Smallest(p), Shared!Largest(p))
  BY <1>2, <1>3, DraggedIs
<1>6. /\ DOMAIN fingers' = {f} /\ fingers'[f].of = p /\ fingers'[f].on = "grip"
      /\ fingers'[f].y = y /\ Rests' /\ Down'
  BY <1>1, <1>2, MovedIs
<1>7. ASSUME sheet'[p] = t PROVE Worked(p)'
  <2>1. t.frame # None => t.pressed /\ t.pulled
          /\ t.frame = Shared!SheetFrame(t.shown + t.landedAt - y,
                                         Shared!Smallest(p), Shared!Largest(p))
    BY <1>2, <1>5 DEF Worked
  <2>2. t.pressed => active' = p /\ Works(f, p)'
    BY <1>2, <1>5, <1>6 DEF Worked, Works
  <2>3. QED
    BY <1>4, <1>5, <1>6, <1>7, <2>1, <2>2 DEF Worked
<1>8. sheet' = [sheet EXCEPT ![p] = t]
  BY <1>1, <1>3
<1>9. QED
  BY <1>2, <1>5, <1>6, <1>7, <1>8, OneSheet

(* A pull that the finger on the content works, or has begun to. *)
LEMMA PulledFollows ==
  ASSUME Follows, NEW f \in DOMAIN fingers, fingers[f].on = "content", NEW y \in Int,
         fingers' = [fingers EXCEPT ![f].y = y], active' = active, detent' = detent,
         NEW p \in SheetPanels, p = fingers[f].of, active = p,
         NEW t \in Pulls, t.pressed, t.landed = None, t.pulling = f,
         t.frame # None =>
           /\ t.pulled
           /\ t.frame = Shared!SheetFrame(t.shown + t.landedAt - y,
                                          Shared!Smallest(p), Shared!Largest(p)),
         sheet' = [sheet EXCEPT ![p] = t]
  PROVE  Follows'
<1>1. /\ f # None /\ \A q \in SheetPanels \ {p} : Quiet(q)
      /\ \A g \in DOMAIN fingers : fingers[g].of = p /\ fingers[g].on = "content"
  BY OnOne
<1>2. /\ DOMAIN fingers' = DOMAIN fingers /\ fingers'[f].of = p /\ fingers'[f].on = "content"
      /\ fingers'[f].y = y /\ \A g \in DOMAIN fingers \ {f} : fingers'[g] = fingers[g]
      /\ Rests' /\ Down'
  BY MovedIs
<1>3. ASSUME sheet'[p] = t PROVE Worked(p)'
  <2>1. \A g \in DOMAIN fingers' : fingers'[g].on = "content" /\ fingers'[g].of = p
    BY <1>1, <1>2
  <2>2. \A g \in DOMAIN fingers' : Works(g, p)' <=> g = f
    BY <1>2, <1>3, <2>1 DEF Works
  <2>3. t.pressed => active' = p /\ Works(f, p)'
    BY <1>2, <2>2
  <2>4. sheet'[p].landed = None /\ sheet'[p].pulling = f /\ sheet'[p].pressed
    BY <1>3
  <2>5. \A g \in DOMAIN fingers' : Works(g, p)' /\ t.frame # None =>
            t.frame = Shared!SheetFrame(t.shown + t.landedAt - fingers'[g].y,
                                        Shared!Smallest(p), Shared!Largest(p))
    BY <1>2, <2>2
  <2>6. QED
    BY <1>2, <1>3, <2>3, <2>4, <2>5 DEF Worked
<1>4. QED
  BY <1>1, <1>2, <1>3, OneSheet

(* One that does not pull leaves the pull as it was. *)
LEMMA LeftFollows ==
  ASSUME Follows, NEW f \in DOMAIN fingers, fingers[f].on = "content", NEW y \in Int,
         fingers' = [fingers EXCEPT ![f].y = y], active' = active, detent' = detent,
         NEW p \in SheetPanels, p = fingers[f].of, sheet[p].pulling # f,
         NEW landed \in {sheet[p].landed, None},
         sheet' = [sheet EXCEPT ![p].landed = landed]
  PROVE  Follows'
<1> DEFINE s == sheet[p]
           t == [s EXCEPT !.landed = landed]
<1>1. /\ s \in Pulls /\ Worked(p) /\ f # None /\ \A q \in SheetPanels \ {p} : Quiet(q)
      /\ \A g \in DOMAIN fingers : fingers[g].of = p /\ fingers[g].on = "content"
  BY OnOne
<1>2. /\ DOMAIN fingers' = DOMAIN fingers /\ fingers'[f].of = p /\ fingers'[f].on = "content"
      /\ fingers'[f].y = y /\ \A g \in DOMAIN fingers \ {f} : fingers'[g] = fingers[g]
      /\ Rests' /\ Down'
  BY MovedIs
<1>3. /\ t \in Pulls /\ t.landed = landed /\ t.pulling = s.pulling /\ t.pressed = s.pressed
      /\ t.pulled = s.pulled /\ t.frame = s.frame /\ t.shown = s.shown
      /\ t.landedAt = s.landedAt
  BY <1>1 DEF Pulls
<1>4. sheet' = [sheet EXCEPT ![p] = t]
  OBVIOUS
<1> HIDE DEF t
<1>5. ASSUME sheet'[p] = t PROVE Worked(p)'
  <2>1. \A g \in DOMAIN fingers' : fingers'[g].on = "content" /\ fingers'[g].of = p
    BY <1>1, <1>2
  <2>2. \A g \in DOMAIN fingers' : Works(g, p)' <=> Works(g, p)
    BY <1>1, <1>2, <1>3, <1>5, <2>1 DEF Works
  <2>3. t.landed # None =>
          ~t.pressed /\ active' = p /\ DOMAIN fingers' = {t.landed.finger}
    BY <1>1, <1>2, <1>3 DEF Worked
  <2>4. t.pulling # None => t.pulling \in DOMAIN fingers' /\ t.pressed
    BY <1>1, <1>2, <1>3 DEF Worked
  <2>5. t.pressed => active' = p /\ \E g \in DOMAIN fingers' : Works(g, p)'
    BY <1>1, <1>2, <1>3, <2>2 DEF Worked
  <2>6. t.frame # None =>
          /\ t.pressed /\ t.pulled
          /\ \A g \in DOMAIN fingers' : Works(g, p)' =>
               t.frame = Shared!SheetFrame(t.shown + t.landedAt - fingers'[g].y,
                                           Shared!Smallest(p), Shared!Largest(p))
    <3>1. \A g \in DOMAIN fingers' : Works(g, p)' => fingers'[g] = fingers[g]
      BY <1>1, <1>2, <2>2 DEF Works
    <3>2. QED
      BY <1>1, <1>2, <1>3, <2>2, <3>1 DEF Worked
  <2>7. QED
    BY <1>5, <2>1, <2>3, <2>4, <2>5, <2>6, ZenonT(60) DEF Worked
<1>6. QED
  BY <1>1, <1>2, <1>3, <1>4, <1>5, OneSheet

LEMMA MoveContentFollows ==
  ASSUME Follows, NEW f \in DOMAIN fingers, fingers[f].on = "content", NEW y \in Int,
         fingers' = [fingers EXCEPT ![f].y = y], active' = active, detent' = detent,
         Shared!MoveContent(f, y)
  PROVE  Follows'
<1>1. PICK p \in SheetPanels : p = fingers[f].of
  BY OnOne
<1> DEFINE s == sheet[p]
           first == s.landed # None /\ s.landed.finger = f
           begun == [Shared!Down(p, s, s.landed.y) EXCEPT !.pulling = f, !.landed = None]
           left == [s EXCEPT !.landed = None]
<1>2. s \in Pulls /\ Worked(p) /\ f \in Fingers /\ f # None
  BY <1>1, OnOne
<1>3. sheet \in [SheetPanels -> Pulls]
  BY DEF Follows, Sheets
<1>4. CASE ~first /\ s.pulling # f
  <2>1. sheet' = [sheet EXCEPT ![p] = s]
    BY <1>1, <1>4 DEF Shared!MoveContent
  <2>2. PICK landed : landed = s.landed
    OBVIOUS
  <2>3. [s EXCEPT !.landed = landed] = s
    BY <1>2, <2>2 DEF Pulls
  <2>4. sheet' = [sheet EXCEPT ![p].landed = landed]
    BY <2>1, <2>3
  <2>5. QED
    BY <1>1, <1>4, <2>2, <2>4, LeftFollows
<1>5. CASE ~first /\ s.pulling = f
  <2>1. sheet' = [sheet EXCEPT ![p] = Shared!Dragged(p, s, y)]
    BY <1>1, <1>5 DEF Shared!MoveContent
  <2>2. active = p /\ s.pressed /\ s.landed = None /\ (s.frame # None => s.pressed /\ s.pulled)
    BY <1>2, <1>5 DEF Worked
  <2>3. PICK t : t = Shared!Dragged(p, s, y)
    OBVIOUS
  <2>4. /\ t \in Pulls
        /\ t.landed = s.landed /\ t.pulling = s.pulling /\ t.pressed = s.pressed
        /\ t.shown = s.shown /\ t.landedAt = s.landedAt
        /\ \/ t.frame = s.frame /\ ~(s.pressed /\ s.pulled)
           \/ /\ t.pulled /\ t.pressed
              /\ t.frame = Shared!SheetFrame(s.shown + s.landedAt - y,
                                             Shared!Smallest(p), Shared!Largest(p))
    BY <1>2, <2>3, DraggedIs
  <2>5. QED
    <3>1. sheet' = [sheet EXCEPT ![p] = t]
      BY <2>1, <2>3
    <3>2. /\ t \in Pulls /\ t.pressed /\ t.landed = None /\ t.pulling = f
          /\ t.frame # None =>
               /\ t.pulled
               /\ t.frame = Shared!SheetFrame(t.shown + t.landedAt - y,
                                              Shared!Smallest(p), Shared!Largest(p))
      BY <1>5, <2>2, <2>4
    <3>3. active = p
      BY <2>2
    <3>4. QED
      BY <1>1, <3>1, <3>2, <3>3, PulledFollows
<1>6. CASE first
  <2>1. /\ ~s.pressed /\ active = p /\ DOMAIN fingers = {f} /\ s.pulling = None
        /\ s.frame = None
    BY <1>2, <1>6 DEF Worked
  <2>2. begun.pulling = f /\ left.pulling = None
    BY <1>2, <2>1 DEF Shared!Down, Pulls
  <2>3. \/ sheet' = sheet
        \/ sheet' = [sheet EXCEPT ![p] = left]
        \/ sheet' = [sheet EXCEPT ![p] = Shared!Dragged(p, begun, y)]
    BY <1>1, <1>2, <1>6, <2>2 DEF Shared!MoveContent
  <2>4. CASE sheet' = sheet \/ sheet' = [sheet EXCEPT ![p] = left]
    <3>1. [s EXCEPT !.landed = s.landed] = s
      BY <1>2 DEF Pulls
    <3>2. [sheet EXCEPT ![p] = s] = sheet
      BY <1>3
    <3>3. PICK landed \in {s.landed, None} : sheet' = [sheet EXCEPT ![p].landed = landed]
      BY <2>4, <3>1, <3>2
    <3>4. QED
      BY <1>1, <1>2, <2>1, <3>3, LeftFollows
  <2>5. CASE sheet' = [sheet EXCEPT ![p] = Shared!Dragged(p, begun, y)]
    <3>1. s.landed.y \in Int
      BY <1>2, <1>6 DEF Pulls
    <3>2. Shared!ShownOf(p) \in Int
      <4>1. detent \in {"medium", "large"}
        BY <2>1, DetentsOf, SheetLengths DEF Follows, Rests
      <4>2. Shared!ShownOf(p) = [medium |-> MEDIUM, large |-> LARGE][detent]
        BY <2>1 DEF Shared!ShownOf
      <4>3. QED
        BY <4>1, <4>2, HeightsAre, SheetLengths
    <3>3. begun = [s EXCEPT !.landedAt = s.landed.y, !.pressed = TRUE, !.pulled = FALSE,
                            !.shown = Shared!ShownOf(p), !.pulling = f, !.landed = None]
      BY <1>2 DEF Shared!Down, Pulls
    <3>4. /\ begun \in Pulls /\ begun.landed = None /\ begun.pulling = f /\ begun.pressed
          /\ begun.frame = None
      BY <1>2, <2>1, <3>1, <3>2, <3>3 DEF Pulls
    <3>5. PICK b, t : b = begun /\ t = Shared!Dragged(p, b, y)
      OBVIOUS
    <3> HIDE DEF begun
    <3>6. b \in Pulls /\ b.landed = None /\ b.pulling = f /\ b.pressed /\ b.frame = None
      BY <3>4, <3>5
    <3>7. /\ t \in Pulls
          /\ t.landed = b.landed /\ t.pulling = b.pulling /\ t.pressed = b.pressed
          /\ t.shown = b.shown /\ t.landedAt = b.landedAt
          /\ \/ t.frame = b.frame /\ ~(b.pressed /\ b.pulled)
             \/ /\ t.pulled /\ t.pressed
                /\ t.frame = Shared!SheetFrame(b.shown + b.landedAt - y,
                                               Shared!Smallest(p), Shared!Largest(p))
      <4>1. t = Shared!Dragged(p, b, y) /\ b \in Pulls
        BY <3>5, <3>6
      <4>2. QED
        BY <4>1, DraggedIs
    <3>8. /\ t.pressed /\ t.landed = None /\ t.pulling = f
          /\ t.frame # None =>
               /\ t.pulled
               /\ t.frame = Shared!SheetFrame(t.shown + t.landedAt - y,
                                              Shared!Smallest(p), Shared!Largest(p))
      BY <3>6, <3>7
    <3>9. sheet' = [sheet EXCEPT ![p] = t]
      BY <2>5, <3>5
    <3>10. QED
      BY <1>1, <2>1, <3>7, <3>8, <3>9, PulledFollows
  <2>6. QED
    BY <2>3, <2>4, <2>5
<1>7. QED
  BY <1>4, <1>5, <1>6

(* A sheet let go of is quiet, and rests at a detent or is closed. *)
LEMMA UpFollows ==
  ASSUME Follows, NEW p \in SheetPanels, NEW s \in Pulls, s.landed = None, s.pulling = None,
         s.pressed => active = p, s.frame # None => s.pressed /\ s.pulled,
         \A q \in SheetPanels \ {p} : Quiet(q), NEW y \in Int,
         Shared!Up(p, s, y), active' \in {None, active} => Down'
  PROVE  Follows'
<1> DEFINE m == Shared!Dragged(p, s, y)
<1>0. /\ m \in Pulls /\ m.landed = None /\ m.pulling = None
      /\ m.pressed => active = p
      /\ m.frame # None => m.pressed /\ m.pulled
  BY DraggedIs
<1>u. /\ m.pressed /\ m.pulled =>
           \E velocity \in Speeds \cup {-v : v \in Speeds} :
             LET rest == Shared!Settled(p, m.extent, velocity)
             IN /\ sheet' = [sheet EXCEPT ![p] = [Shared!Unpressed(m) EXCEPT !.frame = None]]
                /\ IF rest = None THEN active' = None
                   ELSE detent' = rest /\ active' = active
      /\ ~(m.pressed /\ m.pulled) =>
           /\ sheet' = [sheet EXCEPT ![p] = Shared!Unpressed(m)]
           /\ active' = active /\ detent' = detent
  BY DEF Shared!Up
<1> HIDE DEF m
<1>1. PICK t : sheet' = [sheet EXCEPT ![p] = t] /\ t \in Pulls
               /\ t.landed = None /\ t.pulling = None /\ ~t.pressed /\ t.frame = None
  <2> DEFINE u == Shared!Unpressed(m)
  <2>1. /\ u \in Pulls /\ u.landed = None /\ u.pulling = None /\ ~u.pressed /\ u.frame = m.frame
        /\ [u EXCEPT !.frame = None] \in Pulls
        /\ [u EXCEPT !.frame = None].frame = None /\ ~[u EXCEPT !.frame = None].pressed
        /\ [u EXCEPT !.frame = None].landed = None /\ [u EXCEPT !.frame = None].pulling = None
    <3>1. u = [Shared!Idle EXCEPT !.pulled = m.pulled, !.frame = m.frame, !.landed = m.landed,
                                  !.pulling = m.pulling]
      BY DEF Shared!Unpressed
    <3>2. Shared!Idle \in Pulls /\ ~Shared!Idle.pressed
      BY DEF Shared!Idle, Pulls, Frames
    <3>3. u \in Pulls
      BY <1>0, <3>1, <3>2 DEF Pulls
    <3>4. u.landed = None /\ u.pulling = None /\ ~u.pressed /\ u.frame = m.frame
      BY <1>0, <3>1, <3>2 DEF Pulls
    <3>5. None \in Frames
      BY DEF Frames
    <3> HIDE DEF u
    <3>6. QED
      BY <3>3, <3>4, <3>5 DEF Pulls
  <2>2. CASE m.pressed /\ m.pulled
    <3>1. sheet' = [sheet EXCEPT ![p] = [u EXCEPT !.frame = None]]
      BY <1>u, <2>2
    <3> HIDE DEF u
    <3>2. QED
      BY <2>1, <3>1
  <2>3. CASE ~(m.pressed /\ m.pulled)
    <3>1. sheet' = [sheet EXCEPT ![p] = u]
      BY <1>u, <2>3
    <3> HIDE DEF u
    <3>2. QED
      BY <1>0, <2>1, <2>3, <3>1
  <2>4. QED
    BY <2>2, <2>3
<1>2. Rests' /\ active' \in {None, active}
  <2>1. CASE m.pressed /\ m.pulled
    <3> DEFINE rest(v) == Shared!Settled(p, m.extent, v)
    <3>1. PICK velocity \in Speeds \cup {-v : v \in Speeds} :
            IF rest(velocity) = None THEN active' = None
            ELSE detent' = rest(velocity) /\ active' = active
      BY <1>u, <2>1
    <3>2. m.extent \in Int
      BY <1>0 DEF Pulls
    <3>3. rest(velocity) \in Shared!Detents(p) \cup {None}
      BY <3>2, SettlesAtDetent
    <3> HIDE DEF rest
    <3>4. active = p
      BY <1>0, <2>1
    <3>5. QED
      BY <3>1, <3>3, <3>4 DEF Rests
  <2>2. CASE ~(m.pressed /\ m.pulled)
    <3>1. active' = active /\ detent' = detent
      BY <1>u, <2>2
    <3>2. QED
      BY <3>1 DEF Follows, Rests
  <2>3. QED
    BY <2>1, <2>2
<1>3. sheet'[p] = t => Worked(p)'
  BY <1>1, QuietWorksNext DEF Quiet
<1>4. QED
  BY <1>1, <1>2, <1>3, OneSheet

LEMMA LiftFollows ==
  ASSUME Follows, NEW f \in DOMAIN fingers, Shared!Lift(f)
  PROVE  Follows'
<1>1. PICK p \in SheetPanels : p = fingers[f].of
  BY OnOne
<1> DEFINE s == sheet[p]
           t == [s EXCEPT !.landed = IF @ # None /\ @.finger = f THEN None ELSE @,
                          !.pulling = IF @ = f THEN None ELSE @]
<1>2. /\ s \in Pulls /\ Worked(p) /\ \A q \in SheetPanels \ {p} : Quiet(q)
      /\ \A g \in DOMAIN fingers : fingers[g].of = p
      /\ fingers[f].on = "grip" => DOMAIN fingers = {f}
      /\ fingers[f].on # "grip" => \A g \in DOMAIN fingers : fingers[g].on = "content"
  BY <1>1, OnOne
<1>3. /\ DOMAIN fingers' = DOMAIN fingers \ {f}
      /\ \A g \in DOMAIN fingers' : fingers'[g] = fingers[g]
  BY DEF Shared!Lift
<1>4. IF fingers[f].on = "grip" \/ s.pulling = f THEN Shared!Up(p, t, fingers[f].y)
      ELSE /\ sheet' = [sheet EXCEPT ![p] = t]
           /\ active' = active /\ detent' = detent
  BY <1>1 DEF Shared!Lift
<1>5. /\ t \in Pulls /\ t.landed = None
      /\ t.pulling = IF s.pulling = f THEN None ELSE s.pulling
      /\ t.pressed = s.pressed /\ t.pulled = s.pulled /\ t.frame = s.frame
      /\ t.shown = s.shown /\ t.landedAt = s.landedAt
  <2>1. s.landed # None => s.landed.finger = f
    BY <1>2 DEF Worked
  <2>2. t = [s EXCEPT !.landed = None, !.pulling = IF s.pulling = f THEN None ELSE s.pulling]
    BY <1>2, <2>1 DEF Pulls
  <2>3. QED
    BY <1>2, <2>2 DEF Pulls
<1>6. active' \in {None, active} => Down'
  BY <1>3 DEF Follows, Down
<1> HIDE DEF t
<1>7. CASE fingers[f].on = "grip" \/ s.pulling = f
  <2>1. t.pulling = None
    BY <1>2, <1>5, <1>7 DEF Worked
  <2>2. (t.pressed => active = p) /\ (t.frame # None => t.pressed /\ t.pulled)
    BY <1>2, <1>5 DEF Worked
  <2>3. Shared!Up(p, t, fingers[f].y) /\ fingers[f].y \in Int
    BY <1>4, <1>7 DEF Follows, Down
  <2>4. QED
    BY <1>2, <1>5, <1>6, <2>1, <2>2, <2>3, UpFollows
<1>8. CASE ~(fingers[f].on = "grip" \/ s.pulling = f)
  <2>1. sheet' = [sheet EXCEPT ![p] = t] /\ active' = active /\ detent' = detent
    BY <1>4, <1>8
  <2>2. \A g \in DOMAIN fingers : fingers[g].on = "content"
    BY <1>2, <1>8
  <2>3. ASSUME sheet'[p] = t PROVE Worked(p)'
    <3>1. ~Works(f, p)
      BY <1>8, <2>2 DEF Works
    <3>2. \A g \in DOMAIN fingers' : Works(g, p)' <=> Works(g, p)
      BY <1>3, <1>5, <1>8, <2>3 DEF Works
    <3>3. t.pulling # None =>
            /\ t.pulling \in DOMAIN fingers' /\ t.pressed
            /\ fingers'[t.pulling].of = p /\ fingers'[t.pulling].on = "content"
      BY <1>2, <1>3, <1>5, <1>8 DEF Worked
    <3>4. t.pressed => active' = p /\ \E g \in DOMAIN fingers' : Works(g, p)'
      <4>1. \A g \in DOMAIN fingers : Works(g, p) => g \in DOMAIN fingers'
        BY <1>3, <3>1
      <4>2. QED
        BY <1>2, <1>5, <2>1, <3>2, <4>1 DEF Worked
    <3>5. t.frame # None =>
            /\ t.pressed /\ t.pulled
            /\ \A g \in DOMAIN fingers' : Works(g, p)' =>
                 t.frame = Shared!SheetFrame(t.shown + t.landedAt - fingers'[g].y,
                                             Shared!Smallest(p), Shared!Largest(p))
      BY <1>2, <1>3, <1>5, <3>2 DEF Worked
    <3>6. QED
      BY <1>5, <2>3, <3>3, <3>4, <3>5 DEF Worked
  <2>4. Rests'
    BY <2>1 DEF Follows, Rests
  <2>5. QED
    BY <1>2, <1>5, <1>6, <2>1, <2>3, <2>4, OneSheet
<1>9. QED
  BY <1>7, <1>8

LEMMA FollowsKept ==
  ASSUME ~Mixed, Follows, [MCNext]_MCVars
  PROVE  Follows'
<1>1. CASE OfSheet(Shared!Next)
  <2>1. ASSUME NEW p \in SheetPanels, Shared!Tab(p) \/ Shared!Click(p) PROVE Follows'
    BY <2>1, TabFollows, ClickFollows
  <2>2. ASSUME NEW f \in Fingers \ DOMAIN fingers, NEW y \in 0 .. Shared!Room, active # None,
               Shared!PressGrip(f, y) \/ Shared!PressContent(f, y)
        PROVE  Follows'
    BY <2>2, PressGripFollows, PressContentFollows
  <2>3. ASSUME NEW f \in DOMAIN fingers, Shared!Move(f) PROVE Follows'
    <3>1. PICK y \in 0 .. Shared!Room :
            /\ fingers' = [fingers EXCEPT ![f].y = y] /\ active' = active /\ detent' = detent
            /\ IF fingers[f].on = "content" THEN Shared!MoveContent(f, y)
               ELSE sheet' = [sheet EXCEPT ![fingers[f].of] =
                                Shared!Dragged(fingers[f].of, @, y)]
      BY <2>3 DEF Shared!Move
    <3>2. y \in Int
      BY SheetLengths DEF Shared!Room
    <3>3. fingers[f].on \in {"grip", "content"}
      BY OnOne
    <3>4. CASE fingers[f].on = "content"
      BY <3>1, <3>2, <3>4, MoveContentFollows
    <3>5. CASE fingers[f].on = "grip"
      BY <3>1, <3>2, <3>5, MoveGripFollows
    <3>6. QED
      BY <3>3, <3>4, <3>5
  <2>4. ASSUME NEW f \in DOMAIN fingers, Shared!Lift(f) PROVE Follows'
    BY <2>4, LiftFollows
  <2>5. QED
    BY <1>1, <2>1, <2>2, <2>3, <2>4 DEF OfSheet, Shared!Next
<1>2. CASE UNCHANGED sheetVars
  <2>1. active' = active /\ detent' = detent /\ sheet' = sheet /\ fingers' = fingers
    BY <1>2 DEF sheetVars
  <2>2. Rests' /\ Down'
    BY <2>1 DEF Follows, Rests, Down
  <2>3. ASSUME NEW p \in SheetPanels PROVE Worked(p)' <=> Worked(p)
    BY <2>1 DEF Worked, Works
  <2>4. \A p \in SheetPanels : Worked(p)'
    BY <2>3 DEF Follows, Sheets
  <2>5. QED
    BY <2>1, <2>2, <2>4 DEF Follows, Sheets
<1>3. [MCNext]_MCVars => OfSheet(Shared!Next) \/ UNCHANGED sheetVars
  BY DEF MCNext, OfSettings, MCVars, pageVars
<1>4. QED
  BY <1>1, <1>2, <1>3

(* A sheet no finger is on is drawn at the detent it rests at, which its   *)
(* panel has; and one that is pulled is as far up as the finger that pulls *)
(* it has come since it landed: of any panels, with any fingers on the     *)
(* content together, as far as the grabber and the tabs are used alone.    *)
THEOREM SheetFollowsHolds == ASSUME ~Mixed PROVE MCSpec => []SheetFollows
<1>1. MCInit => Follows
  BY FollowsAtStart DEF MCInit
<1>2. Follows /\ [MCNext]_MCVars => Follows'
  BY FollowsKept
<1>3. Follows => SheetFollows
  BY FollowsIsEnough
<1>4. QED
  BY <1>1, <1>2, <1>3, PTL DEF MCSpec

-----------------------------------------------------------------------------
(* The placer: for any targets, any directions and any number of scenes    *)
(* asked for.                                                              *)

(* A block is dropped once a scene can be asked for, and one is then. *)
DropsAsked == \A h \in Hexes : dropped[h] = 0 \/ dropped[h] < asked

(* What is answered has a direction for every block of the scene answered. *)
Directed ==
  outbox # <<>> /\ Head(outbox).dirs # Null =>
    Head(outbox).dirs \in [DOMAIN pending.seen -> Dirs]

Inductive == TypeOK /\ OneInFlight /\ NewestNext /\ DropsAsked /\ Directed

-----------------------------------------------------------------------------
(* Scenes.                                                                 *)

(* The scene made of the blocks of some targets is a request. *)
LEMMA SceneIsRequest ==
  ASSUME NEW S \in SUBSET Hexes, NEW set \in [Hexes -> OperatorState],
         asked \in 0 .. MaxAsks, asked < MaxAsks
  PROVE  Scene(S, set) \in Requests /\ Scene(S, set) # Null /\ Scene(S, set).id = asked + 1
<1>1. [h \in S |-> set[h]] \in [S -> OperatorState]
  OBVIOUS
<1>2. asked + 1 \in 1 .. MaxAsks
  BY AsksAssumption
<1>3. Scene(S, set) \in [id : 1 .. MaxAsks, seen : [S -> OperatorState]]
  BY <1>1, <1>2 DEF Scene
<1>4. Scene(S, set) \in Requests
  BY <1>3 DEF Requests
<1>5. QED
  BY <1>4, NullAssumption DEF Scene

(* What a request is made of. *)
LEMMA RequestParts ==
  ASSUME NEW r \in Requests
  PROVE  /\ r # Null /\ r.id \in 1 .. MaxAsks
         /\ DOMAIN r.seen \in SUBSET Hexes
         /\ r.seen \in [DOMAIN r.seen -> OperatorState]
<1>1. PICK S \in SUBSET Hexes : r \in [id : 1 .. MaxAsks, seen : [S -> OperatorState]]
  BY DEF Requests
<1>2. r.seen \in [S -> OperatorState] /\ r.id \in 1 .. MaxAsks
  BY <1>1
<1>3. QED
  BY <1>2, NullAssumption

-----------------------------------------------------------------------------
(* Place, with whatever else changes what scenes are made of.              *)

LEMMA PlaceKeeps ==
  ASSUME Inductive, asked < MaxAsks, asked' = asked + 1,
         NEW request \in Requests, request.id = asked + 1, Place(request),
         UNCHANGED done
  PROVE  /\ (OneInFlight /\ NewestNext /\ Directed)'
         /\ busy' \in BOOLEAN
         /\ waiting' \in Requests \cup {Null} /\ pending' \in Requests \cup {Null}
         /\ inbox' \in Seq(Requests) /\ outbox' \in Seq(Replies \cup Failures)
         /\ asked' \in 0 .. MaxAsks
<1>1. request # Null /\ asked \in 0 .. MaxAsks /\ asked' \in 0 .. MaxAsks
  BY RequestParts, AsksAssumption DEF Inductive, TypeOK
<1>2. CASE busy
  <2>1. /\ waiting' = request /\ UNCHANGED <<busy, pending, inbox, outbox>>
        /\ busy' /\ pending' # Null
    BY <1>2 DEF Place, Inductive, OneInFlight
  <2>2. OneInFlight' /\ Directed'
    BY <1>2, <2>1, <1>1 DEF Inductive, OneInFlight, Directed
  <2>3. NewestNext'
    BY <2>1, <1>1 DEF NewestNext
  <2>4. QED
    BY <1>1, <2>1, <2>2, <2>3 DEF Inductive, TypeOK
<1>3. CASE ~busy
  <2>1. /\ busy' /\ busy' = TRUE /\ pending' = request /\ inbox' = Append(inbox, request)
        /\ UNCHANGED <<waiting, outbox>>
    BY <1>3 DEF Place, Run
  <2>2. waiting = Null /\ Len(inbox) + Len(outbox) = 0
    BY <1>3 DEF Inductive, OneInFlight
  <2>3. Len(inbox) = 0 /\ Len(outbox) = 0 /\ inbox = <<>> /\ outbox = <<>>
    BY <2>2 DEF Inductive, TypeOK
  <2>4. inbox' \in Seq(Requests) /\ Len(inbox') = 1 /\ Head(inbox') = request
    BY <2>1, <2>3
  <2>5. OneInFlight' /\ Directed' /\ NewestNext'
    BY <1>1, <2>1, <2>2, <2>3, <2>4 DEF OneInFlight, Directed, NewestNext
  <2>6. QED
    BY <1>1, <2>1, <2>4, <2>5 DEF Inductive, TypeOK
<1>4. QED
  BY <1>2, <1>3 DEF Inductive, TypeOK

LEMMA Initially == Init => Inductive
<1> SUFFICES ASSUME Init PROVE Inductive
  OBVIOUS
<1>1. /\ inbox = <<>> /\ outbox = <<>> /\ Len(inbox) = 0 /\ Len(outbox) = 0
      /\ inbox \in Seq(Requests) /\ outbox \in Seq(Replies \cup Failures)
  BY DEF Init
<1>2. TypeOK
  <2>1. Fresh \in OperatorState
    BY DEF Fresh, OperatorState
  <2>2. ops \in [Hexes -> OperatorState] /\ dropped \in [Hexes -> 0 .. MaxAsks]
    BY <2>1, AsksAssumption DEF Init
  <2>3. /\ asked \in 0 .. MaxAsks /\ done \in 0 .. MaxAsks
        /\ waiting \in Requests \cup {Null} /\ pending \in Requests \cup {Null}
    BY AsksAssumption DEF Init
  <2>4. busy \in BOOLEAN
    BY DEF Init
  <2>5. QED
    BY <1>1, <2>2, <2>3, <2>4 DEF TypeOK
<1>3. OneInFlight /\ NewestNext /\ DropsAsked /\ Directed
  BY <1>1 DEF Init, OneInFlight, NewestNext, DropsAsked, Directed
<1>4. QED
  BY <1>2, <1>3 DEF Inductive

LEMMA AskKeeps ==
  ASSUME Inductive, NEW S \in SUBSET Hexes, NEW anew \in SUBSET Hexes, Ask(S, anew)
  PROVE  Inductive'
<1>1. ops' \in [Hexes -> OperatorState]
  BY DEF Ask, Inductive, TypeOK, Fresh, OperatorState
<1>2. asked \in 0 .. MaxAsks /\ asked < MaxAsks /\ asked' = asked + 1
  BY DEF Ask, Inductive, TypeOK
<1>3. Scene(S, ops') \in Requests /\ Scene(S, ops').id = asked + 1
  BY <1>1, <1>2, SceneIsRequest
<1>4. Place(Scene(S, ops')) /\ UNCHANGED done
  BY DEF Ask
<1>5. /\ (OneInFlight /\ NewestNext /\ Directed)'
      /\ busy' \in BOOLEAN
      /\ waiting' \in Requests \cup {Null} /\ pending' \in Requests \cup {Null}
      /\ inbox' \in Seq(Requests) /\ outbox' \in Seq(Replies \cup Failures)
      /\ asked' \in 0 .. MaxAsks
  BY <1>2, <1>3, <1>4, PlaceKeeps
<1>6. dropped' \in [Hexes -> 0 .. MaxAsks] /\ DropsAsked'
  BY <1>2, AsksAssumption DEF Ask, Inductive, TypeOK, DropsAsked
<1>7. TypeOK'
  BY <1>1, <1>4, <1>5, <1>6 DEF Inductive, TypeOK
<1>8. QED
  BY <1>5, <1>6, <1>7 DEF Inductive

LEMMA DropKeeps ==
  ASSUME Inductive, NEW hex \in Hexes, NEW dir \in Dirs, NEW S \in SUBSET Hexes,
         Drop(hex, dir, S)
  PROVE  Inductive'
<1>1. ops' \in [Hexes -> OperatorState]
  BY DEF Drop, Inductive, TypeOK, OperatorState
<1>2. asked \in 0 .. MaxAsks /\ asked < MaxAsks /\ asked' = asked + 1
  BY DEF Drop, Inductive, TypeOK
<1>3. Scene(S, ops') \in Requests /\ Scene(S, ops').id = asked + 1
  BY <1>1, <1>2, SceneIsRequest
<1>4. Place(Scene(S, ops')) /\ UNCHANGED done
  BY DEF Drop
<1>5. /\ (OneInFlight /\ NewestNext /\ Directed)'
      /\ busy' \in BOOLEAN
      /\ waiting' \in Requests \cup {Null} /\ pending' \in Requests \cup {Null}
      /\ inbox' \in Seq(Requests) /\ outbox' \in Seq(Replies \cup Failures)
      /\ asked' \in 0 .. MaxAsks
  BY <1>2, <1>3, <1>4, PlaceKeeps
<1>6. dropped' \in [Hexes -> 0 .. MaxAsks] /\ DropsAsked'
  BY <1>2, AsksAssumption DEF Drop, Inductive, TypeOK, DropsAsked
<1>7. TypeOK'
  BY <1>1, <1>4, <1>5, <1>6 DEF Inductive, TypeOK
<1>8. QED
  BY <1>5, <1>6, <1>7 DEF Inductive

-----------------------------------------------------------------------------
(* The worker's answer, and its settling.                                  *)

LEMMA AnswerKeeps == Inductive /\ Answer => Inductive'
<1> SUFFICES ASSUME Inductive, Answer PROVE Inductive'
  OBVIOUS
<1>1. inbox \in Seq(Requests) /\ outbox \in Seq(Replies \cup Failures) /\ inbox # <<>>
  BY DEF Inductive, TypeOK, Answer
<1>2. Len(inbox) >= 1 /\ Len(outbox) \in Nat
  BY <1>1
<1>3. busy /\ Len(inbox) + Len(outbox) = 1 /\ Head(inbox) = pending /\ pending # Null
  BY <1>1, <1>2 DEF Inductive, OneInFlight
<1>4. Len(inbox) = 1 /\ Len(outbox) = 0 /\ outbox = <<>>
  <2>1. Len(inbox) \in Nat
    BY <1>1
  <2>2. Len(inbox) = 1 /\ Len(outbox) = 0
    BY <1>2, <1>3, <2>1
  <2>3. QED
    BY <1>1, <2>2
<1>5. pending \in Requests
  BY <1>3 DEF Inductive, TypeOK
<1>6. PICK reply \in [id : {pending.id}, dirs : Answers(pending) \cup {Null}] :
        outbox' = Append(outbox, reply)
  BY <1>3 DEF Answer
<1>7. pending.id \in 1 .. MaxAsks /\ DOMAIN pending.seen \in SUBSET Hexes
  BY <1>5, RequestParts
<1>8. /\ reply.id = pending.id /\ reply \in [id : 1 .. MaxAsks, dirs : Answers(pending) \cup {Null}]
      /\ reply.dirs # Null => reply.dirs \in [DOMAIN pending.seen -> Dirs]
  BY <1>6, <1>7 DEF Answers
<1>9. reply \in Replies \cup Failures
  <2>1. CASE reply.dirs = Null
    BY <1>8, <2>1 DEF Failures
  <2>2. CASE reply.dirs # Null
    <3>1. reply \in [id : 1 .. MaxAsks, dirs : [DOMAIN pending.seen -> Dirs]]
      BY <1>8, <2>2
    <3>2. QED
      BY <3>1, <1>7 DEF Replies
  <2>3. QED
    BY <2>1, <2>2
<1>10. /\ outbox' \in Seq(Replies \cup Failures) /\ Len(outbox') = 1 /\ Head(outbox') = reply
       /\ inbox' = <<>> /\ inbox' \in Seq(Requests) /\ Len(inbox') = 0
  <2>1. inbox' = Tail(inbox)
    BY DEF Answer
  <2>2. QED
    BY <1>1, <1>4, <1>6, <1>9, <2>1
<1>11. UNCHANGED <<ops, asked, busy, waiting, pending, done, dropped>>
  BY DEF Answer
<1>12. TypeOK'
  BY <1>10, <1>11 DEF Inductive, TypeOK
<1>13. OneInFlight' /\ NewestNext' /\ DropsAsked' /\ Directed'
  BY <1>3, <1>8, <1>10, <1>11 DEF Inductive, OneInFlight, NewestNext, DropsAsked, Directed
<1>14. QED
  BY <1>12, <1>13 DEF Inductive

(* What an answer that settles finds: its scene is in flight, alone. *)
LEMMA Settling ==
  ASSUME Inductive, outbox # <<>>
  PROVE  /\ busy /\ pending \in Requests /\ pending # Null
         /\ inbox = <<>> /\ Len(outbox) = 1 /\ Tail(outbox) = <<>>
         /\ Head(outbox) \in Replies \cup Failures
<1>1. inbox \in Seq(Requests) /\ outbox \in Seq(Replies \cup Failures)
  BY DEF Inductive, TypeOK
<1>2. Len(outbox) >= 1 /\ Len(inbox) \in Nat
  BY <1>1
<1>3. busy /\ Len(inbox) + Len(outbox) = 1 /\ pending # Null
  BY <1>2 DEF Inductive, OneInFlight
<1>4. Len(outbox) = 1 /\ Len(inbox) = 0
  <2> DEFINE a == Len(inbox)
             b == Len(outbox)
  <2>1. a \in Nat /\ b \in Nat /\ b >= 1 /\ a + b = 1
    BY <1>1, <1>2, <1>3
  <2> HIDE DEF a, b
  <2>2. b = 1 /\ a = 0
    BY <2>1
  <2>3. QED
    BY <2>2 DEF a, b
<1>5. inbox = <<>>
  BY <1>1, <1>4
<1>6. Head(outbox) \in Replies \cup Failures
  BY <1>1, <1>4
<1>7. Tail(outbox) = <<>>
  <2>1. Tail(outbox) \in Seq(Replies \cup Failures) /\ Len(Tail(outbox)) = 0
    BY <1>1, <1>4
  <2>2. QED
    BY <2>1, EmptySeq
<1>8. pending \in Requests
  BY <1>3 DEF Inductive, TypeOK
<1>9. QED
  BY <1>3, <1>4, <1>5, <1>6, <1>7, <1>8

LEMMA SettleKeeps == Inductive /\ Settle => Inductive'
<1> SUFFICES ASSUME Inductive, Settle PROVE Inductive'
  OBVIOUS
<1>1. outbox # <<>> /\ outbox' = Tail(outbox) /\ waiting' = Null /\ RunNext(waiting)
      /\ done' = pending.id /\ UNCHANGED <<asked, dropped>>
  BY DEF Settle
<1>2. /\ busy /\ pending \in Requests /\ pending # Null /\ inbox = <<>>
      /\ Len(outbox) = 1 /\ outbox' = <<>>
  BY <1>1, Settling
<1>3. done' \in 0 .. MaxAsks
  BY <1>1, <1>2, RequestParts, AsksAssumption
<1>4. ops' \in [Hexes -> OperatorState]
  <2>1. CASE Overtaken \/ Head(outbox).dirs = Null
    BY <2>1 DEF Settle, Inductive, TypeOK
  <2>2. CASE ~(Overtaken \/ Head(outbox).dirs = Null)
    <3> DEFINE dirs == Head(outbox).dirs
    <3>1. Apply(dirs, pending.seen)
      BY <2>2 DEF Settle
    <3>2. dirs \in [DOMAIN pending.seen -> Dirs]
      BY <1>1, <2>2 DEF Inductive, Directed
    <3> HIDE DEF dirs
    <3>3. ops \in [Hexes -> OperatorState]
      BY DEF Inductive, TypeOK
    <3>4. \A h \in DOMAIN pending.seen \cap Hexes :
            Moved(h, dirs, pending.seen) \in Dirs \cup {Nowhere}
      BY <3>2, <3>3 DEF Moved, OperatorState
    <3>5. QED
      BY <3>1, <3>3, <3>4 DEF Apply, OperatorState
  <2>3. QED
    BY <2>1, <2>2
<1>5. DropsAsked' /\ dropped' \in [Hexes -> 0 .. MaxAsks] /\ asked' \in 0 .. MaxAsks
  BY <1>1 DEF Inductive, TypeOK, DropsAsked
<1>6. outbox' \in Seq(Replies \cup Failures) /\ Len(outbox') = 0 /\ Directed'
  BY <1>2 DEF Directed
<1>7. CASE waiting # Null
  <2>1. busy' = TRUE /\ pending' = waiting /\ inbox' = Append(inbox, waiting)
    BY <1>1, <1>7 DEF RunNext, Run
  <2>2. waiting \in Requests /\ waiting.id = asked
    BY <1>7 DEF Inductive, TypeOK, NewestNext
  <2>3. inbox' \in Seq(Requests) /\ Len(inbox') = 1 /\ Head(inbox') = waiting
    BY <1>2, <2>1, <2>2
  <2>4. OneInFlight' /\ NewestNext'
    BY <1>1, <1>2, <1>6, <1>7, <2>1, <2>2, <2>3 DEF OneInFlight, NewestNext
  <2>5. TypeOK'
    BY <1>1, <1>3, <1>4, <1>5, <1>6, <2>1, <2>2, <2>3 DEF TypeOK
  <2>6. QED
    BY <1>5, <1>6, <2>4, <2>5 DEF Inductive
<1>8. CASE waiting = Null
  <2>1. busy' = FALSE /\ pending' = Null /\ inbox' = inbox
    BY <1>1, <1>8 DEF RunNext
  <2>2. inbox' \in Seq(Requests) /\ Len(inbox') = 0
    BY <1>2, <2>1
  <2>3. OneInFlight' /\ NewestNext'
    BY <1>1, <1>2, <1>6, <2>1, <2>2 DEF OneInFlight, NewestNext
  <2>4. TypeOK'
    BY <1>1, <1>3, <1>4, <1>5, <1>6, <2>1, <2>2 DEF TypeOK
  <2>5. QED
    BY <1>5, <1>6, <2>3, <2>4 DEF Inductive
<1>9. QED
  BY <1>7, <1>8

LEMMA InductiveHolds == Spec => []Inductive
<1>1. Inductive /\ [Next]_vars => Inductive'
  <2> SUFFICES ASSUME Inductive, [Next]_vars PROVE Inductive'
    OBVIOUS
  <2>1. CASE UNCHANGED vars
    BY <2>1 DEF vars, Inductive, TypeOK, OneInFlight, NewestNext, DropsAsked, Directed
  <2>2. CASE Next
    BY <2>2, AskKeeps, DropKeeps, AnswerKeeps, SettleKeeps DEF Next
  <2>3. QED
    BY <2>1, <2>2
<1>2. QED
  BY Initially, <1>1, PTL DEF Spec

-----------------------------------------------------------------------------
(* While the placer is busy, one scene is with the worker or answered, and *)
(* it is the one whose promise waits.                                      *)
THEOREM InTurnHolds == Spec => []InTurn
<1>1. Inductive => InTurn
  BY DEF Inductive, InTurn
<1>2. QED
  BY InductiveHolds, <1>1, PTL

(* An answer moves no block dropped since its scene was made: the drop     *)
(* asked for a newer scene, which waits, and the answer is overtaken.      *)
THEOREM DropStandsHolds == Spec => DropStands
<1> DEFINE Stands ==
      done' # done => \A h \in Hexes : ops'[h] # ops[h] => pending.id > dropped[h]
<1>1. Inductive /\ [Next]_vars => [Stands]_vars
  <2> SUFFICES ASSUME Inductive, Next, done' # done,
                      NEW h \in Hexes, ops'[h] # ops[h]
               PROVE  pending.id > dropped[h]
    OBVIOUS
  <2>1. Settle
    BY DEF Next, Ask, Drop, Answer
  <2>2. ~Overtaken /\ outbox # <<>>
    BY <2>1 DEF Settle
  <2>3. waiting = Null /\ busy /\ pending \in Requests
    BY <2>2, Settling DEF Overtaken
  <2>4. pending.id = asked /\ pending.id \in 1 .. MaxAsks
    BY <2>3, RequestParts DEF Inductive, NewestNext
  <2>5. dropped[h] = 0 \/ dropped[h] < asked
    BY DEF Inductive, DropsAsked
  <2>6. QED
    BY <2>4, <2>5 DEF Inductive, TypeOK
<1>2. QED
  BY InductiveHolds, <1>1, PTL DEF Spec, DropStands

-----------------------------------------------------------------------------
(* The renderer. *)

(* A nonempty set of indices has a first. *)
LEMMA FirstIndex ==
  ASSUME NEW n \in Nat, NEW S \in SUBSET (1 .. n), S # {}
  PROVE  \E i \in S : \A j \in S : i <= j
<1> DEFINE Upto == {1 .. i : i \in S}
           R == StrictSubsetOrdering(1 .. n)
<1>1. Upto \subseteq FiniteSubsetsOf(1 .. n) /\ Upto # {}
  <2>1. \A i \in S : 1 .. i \in SUBSET (1 .. n) /\ IsFiniteSet(1 .. i)
    BY FS_Interval
  <2>2. QED
    BY <2>1 DEF FiniteSubsetsOf
<1>2. IsWellFoundedOn(R, FiniteSubsetsOf(1 .. n))
  BY FS_StrictSubsetOrderingWellFounded
<1>3. PICK top \in Upto : \A U \in Upto : ~(<<U, top>> \in R)
  <2> HIDE DEF Upto, R
  <2> QED
    BY <1>1, <1>2, WFMin
<1>4. PICK i \in S : top = 1 .. i
  OBVIOUS
<1>5. ASSUME NEW j \in S PROVE i <= j
  <2>1. ~(<<1 .. j, 1 .. i>> \in R)
    BY <1>3, <1>4
  <2>2. ~(1 .. j \subseteq 1 .. i /\ 1 .. j # 1 .. i)
    BY <2>1 DEF StrictSubsetOrdering
  <2>3. i \in Nat \ {0} /\ j \in Nat \ {0}
    OBVIOUS
  <2>4. CASE j < i
    <3>1. 1 .. j \subseteq 1 .. i /\ i \in 1 .. i /\ i \notin 1 .. j
      BY <2>3, <2>4
    <3>2. QED
      BY <2>2, <3>1
  <2>5. QED
    BY <2>3, <2>4
<1>6. QED
  BY <1>5

(* And a last. *)
LEMMA LastIndex ==
  ASSUME NEW n \in Nat, NEW S \in SUBSET (1 .. n), S # {}
  PROVE  Max(S) \in S /\ \A j \in S : j <= Max(S)
<1> DEFINE Back == {n + 1 - i : i \in S}
<1>1. Back \in SUBSET (1 .. n) /\ Back # {}
  <2>1. ASSUME NEW i \in S PROVE n + 1 - i \in 1 .. n
    <3>1. i \in 1 .. n
      OBVIOUS
    <3>2. QED
      BY <3>1
  <2>2. QED
    BY <2>1
<1>2. PICK b \in Back : \A j \in Back : b <= j
  <2> HIDE DEF Back
  <2> QED
    BY <1>1, FirstIndex
<1>3. PICK k \in S : b = n + 1 - k
  BY <1>2
<1>4. \A j \in S : n + 1 - k <= n + 1 - j
  BY <1>2, <1>3
<1>5. \A j \in S : k >= j
  <2>1. ASSUME NEW j \in S PROVE k >= j
    <3>1. j \in 1 .. n /\ k \in 1 .. n /\ n + 1 - k <= n + 1 - j
      BY <1>4
    <3>2. QED
      BY <3>1
  <2>2. QED
    BY <2>1
<1>6. Max(S) \in S /\ \A j \in S : Max(S) >= j
  BY <1>5 DEF Max
<1>7. QED
  BY <1>6

(* A set made a sequence. *)
LEMMA SetToSeqHas ==
  ASSUME NEW S, IsFiniteSet(S)
  PROVE  /\ SetToSeq(S) \in Seq(S)
         /\ \A x \in S : \E i \in 1 .. Len(SetToSeq(S)) : SetToSeq(S)[i] = x
<1> DEFINE N == Cardinality(S)
<1>1. N \in Nat /\ ExistsBijection(1 .. N, S)
  BY FS_CardinalityType
<1>2. PICK f : f \in Bijection(1 .. N, S)
  BY <1>1 DEF ExistsBijection
<1>3. f \in [1 .. N -> S] /\ \A a, b \in 1 .. N : f[a] = f[b] => a = b
  BY <1>2, Fun_BijectionProperties
<1>4. IsInjective(f)
  BY <1>3 DEF IsInjective
<1>5. SetToSeq(S) \in [1 .. N -> S] /\ IsInjective(SetToSeq(S))
  BY <1>3, <1>4 DEF SetToSeq
<1>6. SetToSeq(S) \in Injection(1 .. N, S)
  BY <1>5, Fun_IsInj DEF IsInjective
<1>7. IsFiniteSet(1 .. N) /\ Cardinality(1 .. N) = N
  BY <1>1, FS_Interval
<1>8. SetToSeq(S) \in Surjection(1 .. N, S)
  BY <1>6, <1>7, FS_Injection
<1>9. \A x \in S : \E i \in 1 .. N : SetToSeq(S)[i] = x
  <2> DEFINE g == SetToSeq(S)
             D == 1 .. N
  <2>1. g \in Surjection(D, S)
    BY <1>8
  <2>2. \A x \in S : \E i \in D : g[i] = x
    <3> HIDE DEF g, D
    <3> QED
      BY <2>1 DEF Surjection
  <2>3. QED
    BY <2>2
<1>10. SetToSeq(S) \in Seq(S) /\ Len(SetToSeq(S)) = N
  BY <1>1, <1>5
<1>11. QED
  BY <1>9, <1>10

-----------------------------------------------------------------------------
(* The renderer: what a GPU holds after calls, and what is replayed.       *)

Calls == [part : Parts, version : Nat] \cup {Draw}

LEMMA PartsHold ==
    /\ Draw.part \notin Parts /\ "view" \in Parts /\ First \in Scenes /\ Unset \in Scenes
    /\ \A c \in Calls : c = Draw \/ (c.part \in Parts /\ c.version \in Nat)
    /\ \A p \in Parts, v \in Nat : Part(p, v) \in Calls /\ Part(p, v) # Draw
BY RendererAssumption DEF Parts, Scenes, First, Unset, Draw, Calls, Part

(* The last call of a part tells what is held of it. *)
LEMMA LastStands ==
  ASSUME NEW calls \in Seq(Calls), NEW held, NEW p \in Parts
  PROVE  /\ (\A i \in 1 .. Len(calls) : calls[i].part # p) => After(held, calls)[p] = held[p]
         /\ \A k \in 1 .. Len(calls) :
              calls[k].part = p /\ (\A j \in 1 .. Len(calls) : calls[j].part = p => j <= k)
                => After(held, calls)[p] = calls[k].version
         /\ \/ \A i \in 1 .. Len(calls) : calls[i].part # p
            \/ \E k \in 1 .. Len(calls) :
                 calls[k].part = p /\ (\A j \in 1 .. Len(calls) : calls[j].part = p => j <= k)
<1> DEFINE ofIt == {i \in DOMAIN calls : calls[i].part = p}
<1>1. Len(calls) \in Nat /\ DOMAIN calls = 1 .. Len(calls)
  OBVIOUS
<1>2. After(held, calls)[p] = IF ofIt = {} THEN held[p] ELSE calls[Max(ofIt)].version
  BY DEF After
<1>3. ofIt \in SUBSET (1 .. Len(calls))
  BY <1>1
<1>4. ofIt # {} => Max(ofIt) \in ofIt /\ \A j \in ofIt : j <= Max(ofIt)
  <2> HIDE DEF ofIt
  <2> QED
    BY <1>1, <1>3, LastIndex
<1>5. ASSUME \A i \in 1 .. Len(calls) : calls[i].part # p
      PROVE  After(held, calls)[p] = held[p]
  BY <1>1, <1>2, <1>5
<1>6. ASSUME NEW k \in 1 .. Len(calls), calls[k].part = p,
             \A j \in 1 .. Len(calls) : calls[j].part = p => j <= k
      PROVE  After(held, calls)[p] = calls[k].version
  <2>1. k \in ofIt /\ \A j \in ofIt : j <= k
    BY <1>1, <1>6
  <2>2. Max(ofIt) = k
    <3> HIDE DEF ofIt
    <3>1. Max(ofIt) \in ofIt /\ k <= Max(ofIt) /\ Max(ofIt) <= k
      BY <1>4, <2>1
    <3>2. Max(ofIt) \in 1 .. Len(calls)
      BY <1>3, <3>1
    <3>3. QED
      BY <1>1, <3>1, <3>2
  <2>3. QED
    BY <1>2, <2>1, <2>2
<1>7. ofIt # {} =>
        \E k \in 1 .. Len(calls) :
          calls[k].part = p /\ (\A j \in 1 .. Len(calls) : calls[j].part = p => j <= k)
  BY <1>1, <1>4
<1>8. ofIt = {} => \A i \in 1 .. Len(calls) : calls[i].part # p
  BY <1>1
<1>9. QED
  BY <1>5, <1>6, <1>7, <1>8

LEMMA AfterIsScene ==
  ASSUME NEW calls \in Seq(Calls), NEW held \in Scenes
  PROVE  After(held, calls) \in Scenes
<1>1. ASSUME NEW p \in Parts PROVE After(held, calls)[p] \in Nat
  <2>1. CASE \A i \in 1 .. Len(calls) : calls[i].part # p
    BY <2>1, LastStands DEF Scenes
  <2>2. ASSUME NEW k \in 1 .. Len(calls), calls[k].part = p,
               \A j \in 1 .. Len(calls) : calls[j].part = p => j <= k
        PROVE  After(held, calls)[p] \in Nat
    <3>1. calls[k] \in Calls /\ calls[k] # Draw
      BY <2>2, PartsHold
    <3>2. QED
      BY <2>2, <3>1, LastStands, PartsHold
  <2>3. QED
    BY <2>1, <2>2, LastStands
<1>2. QED
  BY <1>1 DEF After, Scenes

LEMMA AfterNone ==
  ASSUME NEW held \in Scenes
  PROVE  After(held, <<>>) = held
BY DEF After, Scenes

(* One more call. *)
LEMMA AfterAppend ==
  ASSUME NEW calls \in Seq(Calls), NEW held \in Scenes, NEW c \in Calls
  PROVE  /\ calls \o <<c>> \in Seq(Calls)
         /\ After(held, calls \o <<c>>) =
              IF c = Draw THEN After(held, calls)
              ELSE [After(held, calls) EXCEPT ![c.part] = c.version]
<1> DEFINE more == calls \o <<c>>
           N == Len(calls)
           was == After(held, calls)
           is == After(held, more)
           want == IF c = Draw THEN was ELSE [was EXCEPT ![c.part] = c.version]
<1>1. N \in Nat /\ more \in Seq(Calls) /\ Len(more) = N + 1 /\ more[N + 1] = c
      /\ \A i \in 1 .. N : more[i] = calls[i]
  OBVIOUS
<1>2. was \in Scenes /\ is \in Scenes
  BY <1>1, AfterIsScene
<1>3. ASSUME NEW p \in Parts PROVE is[p] = want[p]
  <2>1. want[p] = IF c.part = p THEN c.version ELSE was[p]
    <3> HIDE DEF was
    <3> QED
      BY <1>2, PartsHold DEF Scenes
  <2>2. CASE c.part = p
    <3>1. is[p] = more[N + 1].version
      <4> HIDE DEF more
      <4> QED
        BY <1>1, <2>2, LastStands
    <3>2. QED
      BY <1>1, <2>1, <2>2, <3>1
  <2>3. CASE c.part # p
    <3>1. CASE \A i \in 1 .. N : calls[i].part # p
      <4>1. \A i \in 1 .. N + 1 : more[i].part # p
        BY <1>1, <2>3, <3>1
      <4>2. is[p] = held[p] /\ was[p] = held[p]
        <5> HIDE DEF more
        <5> QED
          BY <1>1, <3>1, <4>1, LastStands
      <4>3. QED
        BY <2>1, <2>3, <4>2
    <3>2. ASSUME NEW k \in 1 .. N, calls[k].part = p,
                 \A j \in 1 .. N : calls[j].part = p => j <= k
          PROVE  is[p] = want[p]
      <4>1. k \in 1 .. N + 1 /\ more[k].part = p
            /\ \A j \in 1 .. N + 1 : more[j].part = p => j <= k
        BY <1>1, <2>3, <3>2
      <4>2. is[p] = more[k].version /\ was[p] = calls[k].version
        <5> HIDE DEF more
        <5> QED
          BY <1>1, <3>2, <4>1, LastStands
      <4>3. QED
        BY <1>1, <2>1, <2>3, <4>2
    <3>3. QED
      BY <3>1, <3>2, LastStands
  <2>4. QED
    BY <2>2, <2>3
<1>4. want \in [Parts -> Nat] /\ is \in [Parts -> Nat]
  <2> HIDE DEF was
  <2> QED
    BY <1>2, PartsHold DEF Scenes
<1>5. is = want
  <2> HIDE DEF is, want
  <2> QED
    BY <1>3, <1>4
<1>6. QED
  BY <1>1, <1>5

(* The first call made, and then the others. *)
LEMMA AfterFirst ==
  ASSUME NEW calls \in Seq(Calls), calls # <<>>, NEW held \in Scenes
  PROVE  /\ Head(calls) \in Calls /\ Tail(calls) \in Seq(Calls)
         /\ After(held, calls) = After(After(held, <<Head(calls)>>), Tail(calls))
         /\ Head(calls) = Draw => After(held, <<Head(calls)>>) = held
<1> DEFINE c == Head(calls)
           rest == Tail(calls)
           N == Len(calls)
           first == After(held, <<c>>)
           is == After(held, calls)
           want == After(first, rest)
<1>1. N \in Nat \ {0} /\ c \in Calls /\ c = calls[1] /\ rest \in Seq(Calls)
      /\ Len(rest) = N - 1 /\ \A i \in 1 .. N - 1 : rest[i] = calls[i + 1]
  OBVIOUS
<1>2. <<>> \in Seq(Calls) /\ <<>> \o <<c>> = <<c>>
  OBVIOUS
<1>3. first = IF c = Draw THEN held ELSE [held EXCEPT ![c.part] = c.version]
  <2> HIDE DEF c
  <2>1. After(held, <<>> \o <<c>>) =
          IF c = Draw THEN After(held, <<>>) ELSE [After(held, <<>>) EXCEPT ![c.part] = c.version]
    BY <1>1, <1>2, AfterAppend
  <2>2. QED
    BY <1>2, <2>1, AfterNone
<1>4. first \in Scenes
  <2> HIDE DEF c
  <2> QED
    BY <1>1, <1>3, PartsHold DEF Scenes
<1>5. is \in Scenes /\ want \in Scenes
  <2> HIDE DEF first, rest
  <2> QED
    BY <1>1, <1>4, AfterIsScene
<1>6. ASSUME NEW p \in Parts PROVE is[p] = want[p]
  <2>1. CASE \E i \in 1 .. N - 1 : rest[i].part = p
    <3>1. PICK k \in 1 .. N - 1 : rest[k].part = p
                 /\ \A j \in 1 .. N - 1 : rest[j].part = p => j <= k
      <4> HIDE DEF rest
      <4> QED
        BY <1>1, <2>1, LastStands
    <3>2. k + 1 \in 1 .. N /\ calls[k + 1].part = p
          /\ \A j \in 1 .. N : calls[j].part = p => j <= k + 1
      <4> HIDE DEF rest
      <4>1. ASSUME NEW j \in 1 .. N, calls[j].part = p PROVE j <= k + 1
        <5>1. CASE j = 1
          BY <1>1, <5>1
        <5>2. CASE j # 1
          <6>1. j - 1 \in 1 .. N - 1 /\ rest[j - 1] = calls[j]
            BY <1>1, <5>2
          <6>2. QED
            BY <1>1, <3>1, <4>1, <6>1
        <5>3. QED
          BY <5>1, <5>2
      <4>2. QED
        BY <1>1, <3>1, <4>1
    <3>3. is[p] = calls[k + 1].version
      BY <3>2, LastStands
    <3>4. want[p] = rest[k].version
      <4> HIDE DEF rest, first
      <4> QED
        BY <1>1, <3>1, LastStands
    <3>5. QED
      BY <1>1, <3>1, <3>3, <3>4
  <2>2. CASE ~ \E i \in 1 .. N - 1 : rest[i].part = p
    <3>1. want[p] = first[p]
      <4> HIDE DEF rest, first
      <4> QED
        BY <1>1, <2>2, LastStands
    <3>2. \A j \in 1 .. N : calls[j].part = p => j = 1
      <4> HIDE DEF rest
      <4>1. ASSUME NEW j \in 1 .. N, calls[j].part = p, j # 1 PROVE FALSE
        <5>1. j - 1 \in 1 .. N - 1 /\ rest[j - 1] = calls[j]
          BY <1>1, <4>1
        <5>2. QED
          BY <2>2, <4>1, <5>1
      <4>2. QED
        BY <4>1
    <3>3. CASE c.part = p
      <4>1. is[p] = calls[1].version
        BY <1>1, <3>2, <3>3, LastStands
      <4>2. c # Draw
        BY <3>3, PartsHold
      <4>3. QED
        <5> HIDE DEF c
        <5> QED
          BY <1>1, <1>3, <3>1, <3>3, <4>1, <4>2 DEF Scenes
    <3>4. CASE c.part # p
      <4>1. is[p] = held[p]
        BY <1>1, <3>2, <3>4, LastStands
      <4>2. first[p] = held[p]
        <5> HIDE DEF c
        <5> QED
          BY <1>1, <1>3, <3>4, PartsHold DEF Scenes
      <4>3. QED
        BY <3>1, <4>1, <4>2
    <3>5. QED
      BY <3>3, <3>4
  <2>3. QED
    BY <2>1, <2>2
<1>7. is = want
  <2> HIDE DEF is, want
  <2> QED
    BY <1>5, <1>6 DEF Scenes
<1>8. QED
  BY <1>1, <1>3, <1>7

(* What is kept, replayed into a GPU as it starts, is there. *)
LEMMA ReplayGives ==
  ASSUME NEW told \in Scenes
  PROVE  Replay(told) \in Seq(Calls) /\ After(First, Replay(told)) = told
<1> DEFINE Kept == {q \in Parts \ {"view"} : told[q] > 0}
           S == {Part(p, told[p]) : p \in Kept}
           s == SetToSeq(S)
           v == Part("view", told["view"])
<1>1. IsFiniteSet(S)
  <2>1. IsFiniteSet(Slots) /\ Kept \subseteq Slots \cup {"atlas"}
    BY RendererAssumption DEF Parts
  <2>2. IsFiniteSet(Slots \cup {"atlas"})
    BY <2>1, FS_AddElement
  <2>3. IsFiniteSet(Kept)
    BY <2>1, <2>2, FS_Subset
  <2>4. [p \in Kept |-> Part(p, told[p])] \in Surjection(Kept, S)
    <3>1. [p \in Kept |-> Part(p, told[p])] \in [Kept -> S]
      OBVIOUS
    <3>2. \A t \in S : \E p \in Kept : [q \in Kept |-> Part(q, told[q])][p] = t
      OBVIOUS
    <3>3. QED
      BY <3>1, <3>2, Fun_IsSurj
  <2>5. QED
    BY <2>3, <2>4, FS_Surjection
<1>2. s \in Seq(S) /\ \A x \in S : \E i \in 1 .. Len(s) : s[i] = x
  <2> HIDE DEF S
  <2> QED
    BY <1>1, SetToSeqHas
<1>3. S \subseteq Calls /\ v \in Calls /\ v # Draw /\ v.part = "view" /\ v.version = told["view"]
  <2>1. \A p \in Parts : told[p] \in Nat
    BY DEF Scenes
  <2>2. QED
    BY <2>1, PartsHold DEF Part
<1>4. s \in Seq(Calls)
  <2> HIDE DEF S, s
  <2> QED
    BY <1>2, <1>3
<1>5. Replay(told) = s \o <<v>>
  BY DEF Replay
<1>6. Replay(told) \in Seq(Calls)
      /\ After(First, Replay(told)) = [After(First, s) EXCEPT !["view"] = told["view"]]
  <2> HIDE DEF s, v
  <2>1. First \in Scenes
    BY PartsHold
  <2>2. s \o <<v>> \in Seq(Calls)
        /\ After(First, s \o <<v>>) = [After(First, s) EXCEPT ![v.part] = v.version]
    BY <1>3, <1>4, <2>1, AfterAppend
  <2>3. QED
    BY <1>3, <1>5, <2>2
<1>7. After(First, s) \in Scenes
  <2> HIDE DEF s
  <2> QED
    BY <1>4, AfterIsScene, PartsHold
<1>8. ASSUME NEW p \in Parts, p # "view" PROVE After(First, s)[p] = told[p]
  <2>0. told[p] \in Nat /\ \A q \in Parts : told[q] \in Nat
    BY DEF Scenes
  <2>1. \A i \in 1 .. Len(s) : s[i].part = p => s[i].version = told[p] /\ p \in Kept
    <3>1. ASSUME NEW i \in 1 .. Len(s), s[i].part = p
          PROVE  s[i].version = told[p] /\ p \in Kept
      <4>1. s[i] \in S
        <5> HIDE DEF S, s
        <5> QED
          BY <1>2
      <4>2. PICK q \in Kept : s[i] = Part(q, told[q])
        BY <4>1
      <4>3. QED
        BY <3>1, <4>2 DEF Part
    <3>2. QED
      BY <3>1
  <2>2. CASE p \in Kept
    <3>1. Part(p, told[p]) \in S /\ Part(p, told[p]).part = p
      BY <2>2 DEF Part
    <3>2. \E i \in 1 .. Len(s) : s[i].part = p
      <4> HIDE DEF S, s
      <4> QED
        BY <1>2, <3>1
    <3>3. PICK k \in 1 .. Len(s) : s[k].part = p /\ \A j \in 1 .. Len(s) : s[j].part = p => j <= k
      <4> HIDE DEF S, s
      <4> QED
        BY <1>4, <3>2, LastStands
    <3>4. After(First, s)[p] = s[k].version
      <4> HIDE DEF S, s
      <4> QED
        BY <1>4, <3>3, LastStands
    <3>5. QED
      BY <2>1, <3>3, <3>4
  <2>3. CASE p \notin Kept
    <3>1. After(First, s)[p] = First[p]
      <4> HIDE DEF S, s, Kept
      <4> QED
        BY <1>4, <2>1, <2>3, LastStands
    <3>2. First[p] = 0 /\ told[p] = 0
      BY <1>8, <2>0, <2>3 DEF First, Unset
    <3>3. QED
      BY <3>1, <3>2
  <2>4. QED
    BY <2>2, <2>3
<1>9. [After(First, s) EXCEPT !["view"] = told["view"]] = told
  <2> HIDE DEF s
  <2>1. told \in [Parts -> Nat] /\ After(First, s) \in [Parts -> Nat] /\ "view" \in Parts
    BY <1>7, PartsHold DEF Scenes
  <2>2. QED
    BY <1>8, <2>1
<1>10. QED
  BY <1>6, <1>9

-----------------------------------------------------------------------------
(* The renderer: it takes calls only once it is up, and a worker takes them *)
(* only of the main thread that has it; it says once that it is ready, with *)
(* the view that there was at the start and nothing else on its GPU.        *)
Threads ==
  /\ phase # "up" => sink = "none"
  /\ sink \in {"none", "main"} => toWorker = <<>>
  /\ fromWorker # <<>> => device /\ phase \in {"worker", "up"}
  /\ \A i \in 1 .. Len(fromWorker) :
       IF fromWorker[i] = "ready" THEN i = 1 /\ phase = "worker" /\ gpu = First ELSE lost
  /\ frame = "cancelled" => destroyed

(* With no frame due, the scene is on the screen, or the last call to the   *)
(* worker is one to draw it.                                                *)
DrawsLast ==
  sink # "none" /\ ~destroyed /\ ~lost =>
    \/ frame = "due"
    \/ toWorker = <<>> /\ screen = scene
    \/ toWorker # <<>> /\ toWorker[Len(toWorker)] = Draw

Rendering == RendererTypeOK /\ NothingLost /\ Threads /\ DrawsLast

LEMMA RenderingAtFirst ==
  RendererInit => Rendering
<1> SUFFICES ASSUME RendererInit PROVE Rendering
  OBVIOUS
<1>1. changes \in 0 .. MaxChanges
  BY RendererAssumption DEF RendererInit
<1>2. RendererTypeOK
  <2>1. <<>> \in Seq([part : Parts, version : Nat] \cup {Draw}) /\ <<>> \in Seq({"ready", "lost"})
    OBVIOUS
  <2>2. QED
    BY <1>1, <2>1, PartsHold DEF RendererInit, RendererTypeOK
<1>3. NothingLost /\ Threads /\ DrawsLast
  BY DEF RendererInit, NothingLost, Threads, DrawsLast
<1>4. QED
  BY <1>2, <1>3 DEF Rendering

(* What opens takes what was kept, whichever thread it is on. *)
LEMMA Opens ==
  ASSUME Rendering, NEW kind \in {"worker", "main"}, phase # "up",
         ~lost, ~destroyed \/ kind = "main",
         kind = "worker" => gpu = First,
         Open(kind, First), UNCHANGED <<screen, scene, changes, lost, destroyed>>
  PROVE  /\ sink' = kind /\ phase' = "up"
         /\ frame' \in {"due", "cancelled"} /\ (frame' = "cancelled" => destroyed)
         /\ retained' \in Scenes /\ gpu' \in Scenes
         /\ toWorker' \in Seq(Calls)
         /\ kind = "main" => toWorker' = <<>>
         /\ NothingLost'
<1>1. sink = "none" /\ toWorker = <<>> /\ retained \in Scenes /\ gpu \in Scenes
      /\ (~destroyed => retained = scene)
      /\ frame \in {"none", "due", "cancelled"} /\ (frame = "cancelled" => destroyed)
  BY DEF Rendering, RendererTypeOK, NothingLost, Threads
<1>2. retained' \in Scenes
  <2>1. retained' = [p \in Parts |-> IF p \in Slots THEN 0 ELSE retained[p]]
    BY DEF Open
  <2>2. QED
    BY <1>1, <2>1 DEF Scenes
<1>3. frame' \in {"due", "cancelled"} /\ (frame' = "cancelled" => destroyed)
  BY <1>1 DEF Open, FrameDue
<1>4. Replay(retained) \in Seq(Calls) /\ After(First, Replay(retained)) = retained
  BY <1>1, ReplayGives
<1>5. CASE kind = "main"
  <2>1. toWorker' = <<>> /\ gpu' = retained /\ sink' = "main" /\ phase' = "up"
    BY <1>1, <1>4, <1>5 DEF Open
  <2>2. NothingLost'
    BY <1>1, <2>1, AfterNone DEF NothingLost
  <2>3. QED
    BY <1>1, <1>2, <1>3, <1>5, <2>1, <2>2
<1>6. CASE kind = "worker"
  <2>1. toWorker' = <<>> \o Replay(retained) /\ gpu' = First /\ sink' = "worker" /\ phase' = "up"
    BY <1>1, <1>6 DEF Open, Post
  <2>2. toWorker' = Replay(retained)
    BY <1>4, <2>1
  <2>3. NothingLost'
    BY <1>1, <1>4, <1>6, <2>1, <2>2 DEF NothingLost
  <2>4. QED
    BY <1>1, <1>2, <1>3, <1>4, <1>6, <2>1, <2>2, <2>3
<1>7. QED
  BY <1>5, <1>6

(* The start. *)
LEMMA StartKeepsRendering ==
  ASSUME Rendering, StartWorker \/ StartMain \/ Fails
  PROVE  Rendering'
<1>1. fromWorker = <<>> /\ sink = "none"
  BY DEF Rendering, Threads, StartWorker, StartMain, Fails
<1>2. RendererTypeOK' /\ NothingLost' /\ DrawsLast'
  BY <1>1 DEF Rendering, RendererTypeOK, NothingLost, DrawsLast, StartWorker, StartMain, Fails
<1>3. Threads'
  BY <1>1 DEF Rendering, RendererTypeOK, Threads, StartWorker, StartMain, Fails
<1>4. QED
  BY <1>2, <1>3 DEF Rendering

LEMMA WorkerReadyKeepsRendering ==
  ASSUME Rendering, WorkerReady
  PROVE  Rendering'
<1>1. fromWorker = <<>> /\ sink = "none" /\ toWorker = <<>>
  BY DEF Rendering, Threads, WorkerReady
<1>2. fromWorker' = <<"ready">>
  BY <1>1 DEF WorkerReady
<1>3. RendererTypeOK' /\ NothingLost' /\ DrawsLast'
  BY <1>1, <1>2, PartsHold
     DEF Rendering, RendererTypeOK, NothingLost, DrawsLast, WorkerReady
<1>4. Threads'
  BY <1>1, <1>2 DEF Rendering, RendererTypeOK, Threads, WorkerReady
<1>5. QED
  BY <1>3, <1>4 DEF Rendering

(* Nothing is lost before there is a device. *)
LEMMA MainReadyKeepsRendering ==
  ASSUME Rendering, MainReady
  PROVE  Rendering'
<1>1. fromWorker = <<>> /\ sink = "none" /\ toWorker = <<>>
  BY DEF Rendering, Threads, MainReady
<1>2. CASE ~lost
  <2>1. /\ sink' = "main" /\ phase' = "up"
        /\ frame' \in {"due", "cancelled"} /\ (frame' = "cancelled" => destroyed)
        /\ retained' \in Scenes /\ gpu' \in Scenes
        /\ toWorker' = <<>> /\ NothingLost'
    BY <1>2, Opens DEF MainReady
  <2>2. QED
    BY <1>1, <2>1
       DEF Rendering, RendererTypeOK, Threads, DrawsLast, MainReady
<1>3. CASE lost
  <2>1. retained' \in Scenes /\ gpu' \in Scenes
    <3>1. retained \in Scenes
      BY DEF Rendering, RendererTypeOK
    <3>2. gpu' = After(First, Replay(retained))
          /\ retained' = [p \in Parts |-> IF p \in Slots THEN 0 ELSE retained[p]]
      BY DEF MainReady, Open
    <3>3. gpu' = retained
      BY <3>1, <3>2, ReplayGives
    <3>4. QED
      BY <3>1, <3>2, <3>3 DEF Scenes
  <2>2. sink' = "main" /\ phase' = "up" /\ toWorker' = <<>> /\ frame' = FrameDue("main")
    BY <1>1 DEF MainReady, Open
  <2>3. RendererTypeOK'
    BY <1>1, <2>1, <2>2 DEF Rendering, RendererTypeOK, MainReady, FrameDue
  <2>4. QED
    BY <1>1, <1>3, <2>2, <2>3
       DEF Rendering, NothingLost, Threads, DrawsLast, MainReady, FrameDue
<1>4. QED
  BY <1>2, <1>3

LEMMA HearReadyKeepsRendering ==
  ASSUME Rendering, HearReady
  PROVE  Rendering'
<1>0. fromWorker \in Seq({"ready", "lost"}) /\ Len(fromWorker) \in Nat \ {0}
      /\ fromWorker[1] = "ready"
  BY DEF Rendering, RendererTypeOK, HearReady
<1>1. phase = "worker" /\ gpu = First /\ sink = "none" /\ toWorker = <<>> /\ device
  BY <1>0 DEF Rendering, Threads, HearReady
<1>2. fromWorker' \in Seq({"ready", "lost"}) /\ Len(fromWorker') = Len(fromWorker) - 1
      /\ \A i \in 1 .. Len(fromWorker') : fromWorker'[i] = fromWorker[i + 1] /\ i + 1 \in 1 .. Len(fromWorker)
  BY <1>0 DEF HearReady
<1>3. \A i \in 1 .. Len(fromWorker') : fromWorker'[i] = "lost" /\ lost
  <2>1. ASSUME NEW i \in 1 .. Len(fromWorker') PROVE fromWorker'[i] = "lost" /\ lost
    <3>1. fromWorker'[i] = fromWorker[i + 1] /\ i + 1 \in 1 .. Len(fromWorker) /\ i + 1 # 1
          /\ fromWorker[i + 1] \in {"ready", "lost"}
      BY <1>0, <1>2
    <3>2. QED
      BY <3>1 DEF Rendering, Threads
  <2>2. QED
    BY <2>1
<1>4. /\ sink' = "worker" /\ phase' = "up"
      /\ frame' \in {"due", "cancelled"} /\ (frame' = "cancelled" => destroyed)
      /\ retained' \in Scenes /\ gpu' \in Scenes /\ toWorker' \in Seq(Calls)
      /\ NothingLost'
  <2>1. CASE ~lost
    <3>1. Open("worker", First)
      BY <1>1 DEF HearReady, Open
    <3>2. QED
      BY <1>1, <2>1, <3>1, Opens DEF HearReady
  <2>2. CASE lost
    <3>1. retained \in Scenes /\ gpu \in Scenes /\ frame \in {"none", "due", "cancelled"}
          /\ (frame = "cancelled" => destroyed)
      BY DEF Rendering, RendererTypeOK, Threads
    <3>2. Replay(retained) \in Seq(Calls)
      BY <3>1, ReplayGives
    <3>3. toWorker' = <<>> \o Replay(retained) /\ gpu' = gpu /\ sink' = "worker" /\ phase' = "up"
          /\ retained' = [p \in Parts |-> IF p \in Slots THEN 0 ELSE retained[p]]
          /\ frame' = FrameDue("worker")
      BY <1>1 DEF HearReady, Open, Post
    <3>4. toWorker' \in Seq(Calls)
      BY <3>2, <3>3
    <3>5. retained' \in Scenes
      BY <3>1, <3>3 DEF Scenes
    <3>6. NothingLost'
      BY <2>2 DEF NothingLost, HearReady
    <3>7. QED
      BY <3>1, <3>3, <3>4, <3>5, <3>6 DEF FrameDue, HearReady
  <2>3. QED
    BY <2>1, <2>2
<1>5. RendererTypeOK'
  BY <1>2, <1>4 DEF Rendering, RendererTypeOK, HearReady, Calls
<1>6. Threads'
  BY <1>1, <1>3, <1>4 DEF Threads, HearReady
<1>7. DrawsLast'
  BY <1>4 DEF DrawsLast, HearReady
<1>8. QED
  BY <1>4, <1>5, <1>6, <1>7 DEF Rendering

LEMMA HearLostKeepsRendering ==
  ASSUME Rendering, HearLost
  PROVE  Rendering'
<1>1. fromWorker \in Seq({"ready", "lost"}) /\ Len(fromWorker) \in Nat \ {0}
      /\ fromWorker[1] = "lost"
  BY DEF Rendering, RendererTypeOK, HearLost
<1>2. lost
  BY <1>1 DEF Rendering, Threads
<1>3. RendererTypeOK'
  BY DEF Rendering, RendererTypeOK, HearLost
<1>4. NothingLost' /\ DrawsLast'
  BY <1>2 DEF NothingLost, DrawsLast, HearLost
<1>5. Threads'
  BY DEF Rendering, Threads, HearLost
<1>6. QED
  BY <1>3, <1>4, <1>5 DEF Rendering

(* A change to the scene goes where the scene is. *)
LEMMA SetKeepsRendering ==
  ASSUME Rendering, NEW p \in Parts, Set(p)
  PROVE  Rendering'
<1> DEFINE version == scene[p] + 1
           call == Part(p, version)
<1>1. /\ retained \in Scenes /\ gpu \in Scenes /\ scene \in Scenes /\ version \in Nat
      /\ toWorker \in Seq(Calls) /\ sink \in {"worker", "main", "none"}
      /\ frame \in {"none", "due", "cancelled"} /\ changes \in 0 .. MaxChanges
  BY DEF Rendering, RendererTypeOK, Calls, Scenes
<1>2. /\ scene' = [scene EXCEPT ![p] = version]
      /\ retained' = IF sink # "none" /\ p \in Slots THEN retained
                     ELSE [retained EXCEPT ![p] = version]
      /\ sink = "worker" => toWorker' = (IF destroyed THEN toWorker ELSE toWorker \o <<call>>) /\ gpu' = gpu
      /\ sink = "main" => gpu' = [gpu EXCEPT ![p] = version] /\ toWorker' = toWorker
      /\ sink = "none" => gpu' = gpu /\ toWorker' = toWorker
      /\ frame' = FrameDue(sink) /\ sink' = sink /\ phase' = phase /\ destroyed' = destroyed
      /\ lost' = lost /\ fromWorker' = fromWorker /\ device' = device /\ screen' = screen
      /\ changes' = changes + 1 /\ changes < MaxChanges
  BY <1>1 DEF Set, Post
<1>3. call \in Calls /\ call # Draw /\ call.part = p /\ call.version = version
  BY <1>1, PartsHold DEF Part
<1> HIDE DEF version, call
<1>4. scene' \in Scenes /\ retained' \in Scenes /\ gpu' \in Scenes
  BY <1>1, <1>2 DEF Scenes
<1>5. toWorker \o <<call>> \in Seq(Calls)
      /\ After(gpu, toWorker \o <<call>>) = [After(gpu, toWorker) EXCEPT ![p] = version]
  BY <1>1, <1>3, AfterAppend
<1>6. toWorker' \in Seq(Calls)
  BY <1>1, <1>2, <1>5
<1>7. RendererTypeOK'
  <2>1. changes' \in 0 .. MaxChanges
    BY <1>1, <1>2, RendererAssumption
  <2>2. QED
    BY <1>1, <1>2, <1>4, <1>6, <2>1 DEF Rendering, RendererTypeOK, Calls, FrameDue
<1>8. NothingLost'
  <2>1. SUFFICES ASSUME ~destroyed, ~lost
        PROVE IF sink = "none" THEN retained' = scene' ELSE After(gpu', toWorker') = scene'
    BY <1>2 DEF NothingLost
  <2>2. IF sink = "none" THEN retained = scene ELSE After(gpu, toWorker) = scene
    BY <2>1 DEF Rendering, NothingLost
  <2>3. CASE sink = "none"
    BY <1>2, <2>2, <2>3
  <2>4. CASE sink = "worker"
    BY <1>2, <1>5, <2>1, <2>2, <2>4
  <2>5. CASE sink = "main"
    <3>1. toWorker = <<>> /\ toWorker' = <<>>
      BY <1>2, <2>5 DEF Rendering, Threads
    <3>2. gpu = scene /\ gpu' = scene'
      BY <1>1, <1>2, <2>2, <2>5, <3>1, AfterNone
    <3>3. QED
      BY <1>4, <2>5, <3>1, <3>2, AfterNone
  <2>6. QED
    BY <1>1, <2>3, <2>4, <2>5
<1>9. DrawsLast'
  BY <1>1, <1>2 DEF Rendering, Threads, DrawsLast, FrameDue
<1>10. Threads'
  <2>1. sink \in {"none", "main"} => toWorker' = <<>>
    BY <1>2 DEF Rendering, Threads
  <2>2. \A i \in 1 .. Len(fromWorker) :
          IF fromWorker[i] = "ready" THEN i = 1 /\ phase = "worker" /\ gpu' = First ELSE lost
    BY <1>2 DEF Rendering, Threads
  <2>3. QED
    BY <1>2, <2>1, <2>2 DEF Rendering, Threads, FrameDue
<1>11. QED
  BY <1>7, <1>8, <1>9, <1>10 DEF Rendering

LEMMA FrameKeepsRendering ==
  ASSUME Rendering, Frame
  PROVE  Rendering'
<1>1. /\ gpu \in Scenes /\ scene \in Scenes /\ screen \in Scenes
      /\ toWorker \in Seq(Calls) /\ sink \in {"worker", "main", "none"}
      /\ Draw \in Calls
  BY DEF Rendering, RendererTypeOK, Calls
<1>2. /\ sink = "worker" => toWorker' = (IF destroyed THEN toWorker ELSE toWorker \o <<Draw>>) /\ screen' = screen
      /\ sink = "main" => screen' = (IF lost THEN screen ELSE gpu) /\ toWorker' = toWorker
      /\ sink = "none" => toWorker' = toWorker /\ screen' = screen
      /\ frame' = "none"
      /\ UNCHANGED <<phase, sink, retained, fromWorker, gpu, device, lost, destroyed, scene, changes>>
  BY <1>1 DEF Frame, Post
<1>3. toWorker \o <<Draw>> \in Seq(Calls)
      /\ After(gpu, toWorker \o <<Draw>>) = After(gpu, toWorker)
  BY <1>1, AfterAppend
<1>4. toWorker' \in Seq(Calls) /\ screen' \in Scenes
  BY <1>1, <1>2, <1>3
<1>5. RendererTypeOK'
  BY <1>2, <1>4 DEF Rendering, RendererTypeOK, Calls
<1>6. NothingLost'
  BY <1>1, <1>2, <1>3 DEF Rendering, NothingLost
<1>7. DrawsLast'
  <2>1. SUFFICES ASSUME sink # "none", ~destroyed, ~lost
        PROVE  \/ toWorker' = <<>> /\ screen' = scene
               \/ toWorker' # <<>> /\ toWorker'[Len(toWorker')] = Draw
    BY <1>2 DEF DrawsLast
  <2>2. CASE sink = "worker"
    <3>1. toWorker' = toWorker \o <<Draw>> /\ Len(toWorker') = Len(toWorker) + 1
          /\ Len(toWorker) \in Nat
      BY <1>1, <1>2, <2>1, <2>2
    <3>2. toWorker'[Len(toWorker')] = Draw /\ toWorker' # <<>>
      BY <1>1, <3>1
    <3>3. QED
      BY <3>2
  <2>3. CASE sink = "main"
    <3>1. toWorker = <<>> /\ toWorker' = <<>> /\ screen' = gpu
      BY <1>2, <2>1, <2>3 DEF Rendering, Threads
    <3>2. gpu = scene
      BY <1>1, <2>1, <2>3, <3>1, AfterNone DEF Rendering, NothingLost
    <3>3. QED
      BY <3>1, <3>2
  <2>4. QED
    BY <1>1, <2>1, <2>2, <2>3
<1>8. Threads'
  BY <1>1, <1>2 DEF Rendering, Threads
<1>9. QED
  BY <1>5, <1>6, <1>7, <1>8 DEF Rendering

(* The worker's last call is one to draw what it then has. *)
LEMMA WorkerTakesKeepsRendering ==
  ASSUME Rendering, WorkerTakes
  PROVE  Rendering'
<1> DEFINE call == Head(toWorker)
<1>1. /\ gpu \in Scenes /\ scene \in Scenes /\ screen \in Scenes
      /\ toWorker \in Seq(Calls) /\ toWorker # <<>> /\ sink = "worker" /\ phase = "up"
  BY DEF Rendering, RendererTypeOK, Calls, Threads, WorkerTakes
<1>2. /\ call \in Calls /\ Tail(toWorker) \in Seq(Calls)
      /\ After(gpu, toWorker) = After(After(gpu, <<call>>), Tail(toWorker))
      /\ call = Draw => After(gpu, <<call>>) = gpu
  BY <1>1, AfterFirst
<1>3. After(gpu, <<call>>) \in Scenes
  <2>1. <<call>> \in Seq(Calls)
    BY <1>2
  <2> HIDE DEF call
  <2>2. QED
    BY <1>1, <2>1, AfterIsScene
<1>4. /\ toWorker' = Tail(toWorker)
      /\ gpu' = After(gpu, <<call>>)
      /\ screen' = IF call = Draw /\ ~lost THEN gpu ELSE screen
      /\ UNCHANGED <<phase, sink, retained, frame, fromWorker, device, lost, destroyed, scene, changes>>
  BY <1>2 DEF WorkerTakes
<1>5. /\ Len(toWorker) \in Nat \ {0} /\ Len(toWorker') = Len(toWorker) - 1
      /\ \A i \in 1 .. Len(toWorker') : toWorker'[i] = toWorker[i + 1]
      /\ call = toWorker[1]
  BY <1>1, <1>4
<1> HIDE DEF call
<1>6. RendererTypeOK'
  <2>1. gpu' \in Scenes /\ screen' \in Scenes /\ toWorker' \in Seq(Calls)
    BY <1>1, <1>2, <1>3, <1>4
  <2>2. QED
    BY <1>4, <2>1 DEF Rendering, RendererTypeOK, Calls
<1>7. NothingLost'
  BY <1>1, <1>2, <1>4 DEF Rendering, NothingLost
<1>8. DrawsLast'
  <2>1. SUFFICES ASSUME ~destroyed, ~lost, frame # "due"
        PROVE  \/ toWorker' = <<>> /\ screen' = scene
               \/ toWorker' # <<>> /\ toWorker'[Len(toWorker')] = Draw
    BY <1>4 DEF DrawsLast
  <2>2. toWorker[Len(toWorker)] = Draw
    BY <1>1, <2>1 DEF Rendering, DrawsLast
  <2>3. CASE Len(toWorker) = 1
    <3>1. call = Draw /\ toWorker' = <<>>
      <4>1. Len(toWorker') = 0
        BY <1>5, <2>3
      <4>2. toWorker' = <<>>
        BY <1>2, <1>4, <4>1
      <4>3. toWorker[1] = Draw
        BY <2>2, <2>3
      <4>4. QED
        BY <1>5, <4>2, <4>3
    <3>2. screen' = gpu /\ gpu = After(gpu, toWorker)
      BY <1>1, <1>2, <1>4, <2>1, <3>1, AfterNone
    <3>3. After(gpu, toWorker) = scene
      BY <1>1, <2>1 DEF Rendering, NothingLost
    <3>4. QED
      BY <3>1, <3>2, <3>3
  <2>4. CASE Len(toWorker) # 1
    <3>1. Len(toWorker') \in Nat \ {0} /\ toWorker'[Len(toWorker')] = toWorker[Len(toWorker)]
      BY <1>5, <2>4
    <3>2. QED
      BY <2>2, <3>1
  <2>5. QED
    BY <2>3, <2>4
<1>9. Threads'
  <2>1. \A i \in 1 .. Len(fromWorker) : fromWorker[i] # "ready" /\ lost
    BY <1>1 DEF Rendering, Threads
  <2>2. QED
    BY <1>1, <1>4, <2>1 DEF Rendering, Threads
<1>10. QED
  BY <1>6, <1>7, <1>8, <1>9 DEF Rendering

LEMMA LoseKeepsRendering ==
  ASSUME Rendering, Lose
  PROVE  Rendering'
<1>1. fromWorker \in Seq({"ready", "lost"}) /\ Len(fromWorker) \in Nat /\ lost' /\ device
  BY DEF Rendering, RendererTypeOK, Lose
<1>2. sink = "worker" => phase = "up"
  BY DEF Rendering, RendererTypeOK, Threads
<1>3. RendererTypeOK'
  BY <1>1 DEF Rendering, RendererTypeOK, Lose
<1>4. NothingLost' /\ DrawsLast'
  BY <1>1 DEF NothingLost, DrawsLast
<1>5. fromWorker' # <<>> => device' /\ phase' \in {"worker", "up"}
  BY <1>1, <1>2 DEF Rendering, Threads, Lose
<1>6. \A i \in 1 .. Len(fromWorker') :
        IF fromWorker'[i] = "ready" THEN i = 1 /\ phase' = "worker" /\ gpu' = First ELSE lost'
  <2>1. ASSUME NEW i \in 1 .. Len(fromWorker'), fromWorker'[i] = "ready"
        PROVE  i = 1 /\ phase = "worker" /\ gpu = First
    <3>1. i \in 1 .. Len(fromWorker) /\ fromWorker[i] = "ready"
      BY <1>1, <2>1 DEF Lose
    <3>2. QED
      BY <3>1 DEF Rendering, Threads
  <2>2. QED
    BY <1>1, <2>1 DEF Lose
<1>7. Threads'
  BY <1>5, <1>6 DEF Rendering, Threads, Lose
<1>8. QED
  BY <1>3, <1>4, <1>7 DEF Rendering

LEMMA DestroyKeepsRendering ==
  ASSUME Rendering, Destroy
  PROVE  Rendering'
<1>1. RendererTypeOK'
  <2>1. frame' \in {"none", "due", "cancelled"} /\ destroyed' \in BOOLEAN
    BY DEF Rendering, RendererTypeOK, Destroy
  <2>2. /\ toWorker' \in Seq([part : Parts, version : Nat] \cup {Draw})
        /\ fromWorker' \in Seq({"ready", "lost"})
        /\ device' \in BOOLEAN /\ lost' \in BOOLEAN
    <3>1. <<>> \in Seq([part : Parts, version : Nat] \cup {Draw}) /\ <<>> \in Seq({"ready", "lost"})
      OBVIOUS
    <3>2. CASE phase = "worker" \/ sink = "worker"
      BY <3>1, <3>2 DEF Rendering, RendererTypeOK, Destroy
    <3>3. CASE ~(phase = "worker" \/ sink = "worker")
      BY <3>3 DEF Rendering, RendererTypeOK, Destroy
    <3>4. QED
      BY <3>2, <3>3
  <2>3. QED
    BY <2>1, <2>2 DEF Rendering, RendererTypeOK, Destroy
<1>2. NothingLost' /\ DrawsLast'
  BY DEF NothingLost, DrawsLast, Destroy
<1>3. Threads'
  <2>1. CASE phase = "worker" \/ sink = "worker"
    BY <2>1 DEF Rendering, RendererTypeOK, Threads, Destroy
  <2>2. CASE ~(phase = "worker" \/ sink = "worker")
    <3>1. fromWorker' = fromWorker /\ toWorker' = toWorker /\ (lost => lost')
      BY <2>2 DEF Destroy
    <3>2. QED
      BY <2>2, <3>1 DEF Rendering, RendererTypeOK, Threads, Destroy
  <2>3. QED
    BY <2>1, <2>2
<1>4. QED
  BY <1>1, <1>2, <1>3 DEF Rendering

LEMMA RendererStep ==
  ASSUME Rendering, [RendererNext]_rendererVars
  PROVE  Rendering'
<1>1. CASE UNCHANGED rendererVars
  <2>1. RendererTypeOK'
    BY <1>1 DEF rendererVars, Rendering, RendererTypeOK
  <2>2. NothingLost' /\ DrawsLast'
    BY <1>1 DEF rendererVars, Rendering, NothingLost, DrawsLast
  <2>3. Threads'
    BY <1>1 DEF rendererVars, Rendering, Threads
  <2>4. QED
    BY <2>1, <2>2, <2>3 DEF Rendering
<1>2. CASE RendererNext
  BY <1>2, StartKeepsRendering, WorkerReadyKeepsRendering, MainReadyKeepsRendering,
     HearReadyKeepsRendering, HearLostKeepsRendering, SetKeepsRendering, FrameKeepsRendering,
     WorkerTakesKeepsRendering, LoseKeepsRendering, DestroyKeepsRendering DEF RendererNext
<1>3. QED
  BY <1>1, <1>2

(* Whichever thread draws the scene, and however late, no change to it is   *)
(* lost or overtaken, and what is not on the screen is due there, for any   *)
(* slots and any number of changes.                                         *)
THEOREM CarriedHolds ==
  RendererSpec => []Carried
<1>1. RendererInit => Rendering
  BY RenderingAtFirst
<1>2. Rendering /\ [RendererNext]_rendererVars => Rendering'
  BY RendererStep
<1>3. Rendering => Carried
  <2>1. toWorker # <<>> /\ toWorker[Len(toWorker)] = Draw => Last(toWorker) = Draw
    BY DEF Last
  <2>2. QED
    BY <2>1 DEF Rendering, Carried, DrawnOrDue, DrawsLast
<1>4. QED
  BY <1>1, <1>2, <1>3, PTL DEF RendererSpec
=============================================================================
