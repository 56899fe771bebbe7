-------------------------- MODULE TrackStore_proofs -------------------------
(***************************************************************************)
(* What the track store keeps of any snapshots, at any times and for any   *)
(* retention.                                                              *)
(***************************************************************************)
EXTENDS TrackStore, SequenceTheorems, FiniteSetTheorems, TLAPS

(* A nonempty set of indices has a first. *)
LEMMA FirstIndex ==
  ASSUME NEW n \in Nat, NEW S \in SUBSET (1 .. n), S # {}
  PROVE  \E i \in S : \A j \in S : i <= j
<1> DEFINE Upto == {1 .. i : i \in S}
           R == StrictSubsetOrdering(1 .. n)
<1>1. Upto \subseteq FiniteSubsetsOf(1 .. n) /\ Upto # {}
  <2>1. \A i \in S : 1 .. i \in SUBSET (1 .. n) /\ IsFiniteSet(1 .. i)
    BY FS_Interval
  <2>2. QED
    BY <2>1 DEF FiniteSubsetsOf
<1>2. IsWellFoundedOn(R, FiniteSubsetsOf(1 .. n))
  BY FS_StrictSubsetOrderingWellFounded
<1>3. PICK T \in Upto : \A U \in Upto : ~(<<U, T>> \in R)
  <2> HIDE DEF Upto, R
  <2> QED
    BY <1>1, <1>2, WFMin
<1>4. PICK i \in S : T = 1 .. i
  OBVIOUS
<1>5. ASSUME NEW j \in S PROVE i <= j
  <2>1. ~(<<1 .. j, 1 .. i>> \in R)
    BY <1>3, <1>4
  <2>2. ~(1 .. j \subseteq 1 .. i /\ 1 .. j # 1 .. i)
    BY <2>1 DEF StrictSubsetOrdering
  <2>3. i \in Nat \ {0} /\ j \in Nat \ {0}
    OBVIOUS
  <2>4. CASE j < i
    <3>1. 1 .. j \subseteq 1 .. i /\ i \in 1 .. i /\ i \notin 1 .. j
      BY <2>3, <2>4
    <3>2. QED
      BY <2>2, <3>1
  <2>5. QED
    BY <2>3, <2>4
<1>6. QED
  BY <1>5

(* What is trimmed is an end of what there was, of items that are young. *)
LEMMA Trimmed ==
  ASSUME NEW S, NEW items \in Seq(S), NEW now \in Nat, StoreAssumption,
         \A s \in S : s.t \in Nat
  PROVE  /\ TrimOld(items, now) \in Seq(S)
         /\ \E skip \in 0 .. Len(items) :
              /\ Len(TrimOld(items, now)) = Len(items) - skip
              /\ \A i \in 1 .. Len(items) - skip : TrimOld(items, now)[i] = items[skip + i]
              /\ skip < Len(items) =>
                   items[skip + 1].t >= now - HISTORY_RETENTION_SEC
<1> DEFINE young == {i \in 1 .. Len(items) : items[i].t >= now - HISTORY_RETENTION_SEC}
           first == CHOOSE i \in young : \A j \in young : i <= j
<1>1. Len(items) \in Nat /\ \A i \in 1 .. Len(items) : items[i] \in S
  BY ElementOfSeq, LenProperties
<1>2. CASE young = {}
  <2>1. TrimOld(items, now) = <<>>
    BY <1>2 DEF TrimOld
  <2>2. QED
    BY <1>1, <2>1
<1>3. CASE young # {}
  <2>1. \E i \in young : \A j \in young : i <= j
    <3> young \in SUBSET (1 .. Len(items))
      OBVIOUS
    <3> HIDE DEF young
    <3> QED
      BY <1>1, <1>3, FirstIndex
  <2>2. first \in young
    <3> HIDE DEF young
    <3> QED
      BY <2>1
  <2>3. TrimOld(items, now) = SubSeq(items, first, Len(items))
    BY <1>3 DEF TrimOld
  <2>4. first \in 1 .. Len(items) /\ items[first].t >= now - HISTORY_RETENTION_SEC
    <3> HIDE DEF first
    <3> QED
      BY <2>2
  <2> HIDE DEF young, first
  <2>5. /\ SubSeq(items, first, Len(items)) \in Seq(S)
        /\ Len(SubSeq(items, first, Len(items))) = Len(items) - first + 1
        /\ \A i \in 1 .. Len(items) - first + 1 :
             SubSeq(items, first, Len(items))[i] = items[first + i - 1]
    BY <1>1, <2>4, SubSeqProperties
  <2> DEFINE skip == first - 1
  <2>6. skip \in 0 .. Len(items) /\ first = skip + 1
    BY <1>1, <2>4
  <2>7. /\ Len(TrimOld(items, now)) = Len(items) - skip
        /\ \A i \in 1 .. Len(items) - skip : TrimOld(items, now)[i] = items[skip + i]
        /\ items[skip + 1].t >= now - HISTORY_RETENTION_SEC
    BY <1>1, <2>3, <2>4, <2>5, <2>6
  <2>8. QED
    BY <2>3, <2>5, <2>6, <2>7
<1>4. QED
  BY <1>2, <1>3

(* Samples in order, none of a time to come: as Ordered has it, at a time. *)
InOrder(samples, now) ==
  /\ \A i, j \in 1 .. Len(samples) : i < j => samples[i].t < samples[j].t
  /\ \A i \in 1 .. Len(samples) : samples[i].t <= now

LEMMA InOrderIsOrdered ==
  ASSUME NEW samples \in Seq(Samples)
  PROVE  InOrder(samples, statsNow) <=> Ordered(samples)
  BY LenProperties DEF InOrder, Ordered

(* A sample is of a later time than those before it. *)
LEMMA Sampled ==
  ASSUME StoreAssumption, NEW samples \in Seq(Samples), NEW then \in Times, NEW now \in Times,
         then <= now, InOrder(samples, then), NEW r \in Reports
  PROVE  /\ AppendSample(samples, r, now) \in Seq(Samples)
         /\ InOrder(AppendSample(samples, r, now), now)
<1> DEFINE new == [messages |-> r.messages, t |-> now]
<1>1. new \in Samples /\ Times \subseteq Nat
  BY DEF Samples, Reports, Times, StoreAssumption
<1>2. /\ Len(samples) \in Nat
      /\ \A i \in 1 .. Len(samples) : samples[i] \in Samples /\ samples[i].t \in Nat
  <2>1. \A i \in 1 .. Len(samples) : samples[i] \in Samples
    BY ElementOfSeq
  <2>2. QED
    BY <1>1, <2>1, LenProperties DEF Samples
<1>3. InOrder(samples, now)
  BY <1>1, <1>2 DEF InOrder
<1>4. CASE AppendSample(samples, r, now) = samples
  BY <1>3, <1>4
<1>5. CASE AppendSample(samples, r, now) # samples
  <2>1. AppendSample(samples, r, now) = Append(samples, new)
    BY <1>5 DEF AppendSample
  <2>2. samples = <<>> \/ now > LastOf(samples).t
    BY <1>5 DEF AppendSample, HeardSince
  <2>3. \A i \in 1 .. Len(samples) : samples[i].t < now
    <3>1. CASE samples = <<>>
      BY <3>1
    <3>2. CASE samples # <<>>
      <4>1. Len(samples) \in 1 .. Len(samples)
        BY <1>2, <3>2, EmptySeq
      <4>2. samples[Len(samples)].t < now
        BY <1>1, <1>2, <2>2, <3>2, <4>1 DEF LastOf
      <4>3. ASSUME NEW i \in 1 .. Len(samples) PROVE samples[i].t < now
        <5>1. CASE i = Len(samples)
          BY <4>2, <5>1
        <5>2. CASE i # Len(samples)
          <6>1. i < Len(samples)
            BY <1>2, <5>2
          <6>2. samples[i].t < samples[Len(samples)].t
            BY <4>1, <6>1 DEF InOrder
          <6>3. now \in Nat /\ samples[i].t \in Nat /\ samples[Len(samples)].t \in Nat
            BY <1>1, <1>2, <4>1
          <6>4. QED
            BY <4>2, <6>2, <6>3
        <5>3. QED
          BY <5>1, <5>2
      <4>4. QED
        BY <4>3
    <3>3. QED
      BY <3>1, <3>2
  <2>4. /\ Append(samples, new) \in Seq(Samples)
        /\ Len(Append(samples, new)) = Len(samples) + 1
        /\ \A i \in 1 .. Len(samples) : Append(samples, new)[i] = samples[i]
        /\ Append(samples, new)[Len(samples) + 1] = new
    BY <1>1, AppendProperties
  <2>5. new.t = now
    OBVIOUS
  <2> HIDE DEF new
  <2>6. InOrder(Append(samples, new), now)
    <3>1. \A i \in 1 .. Len(samples) + 1 : i \in 1 .. Len(samples) \/ i = Len(samples) + 1
      BY <1>2
    <3>2. QED
      BY <1>1, <1>2, <1>3, <2>3, <2>4, <2>5, <3>1 DEF InOrder
  <2>7. QED
    BY <2>1, <2>4, <2>6
<1>6. QED
  BY <1>4, <1>5

(* What is left of samples in order is in order, and young throughout. *)
LEMMA TrimmedInOrder ==
  ASSUME StoreAssumption, NEW samples \in Seq(Samples), NEW now \in Times,
         InOrder(samples, now)
  PROVE  /\ TrimOld(samples, now) \in Seq(Samples)
         /\ InOrder(TrimOld(samples, now), now)
         /\ \A i \in 1 .. Len(TrimOld(samples, now)) :
              TrimOld(samples, now)[i].t >= now - HISTORY_RETENTION_SEC
<1>1. Times \subseteq Nat /\ \A s \in Samples : s.t \in Nat
  BY DEF Samples, Times, StoreAssumption
<1>2. /\ Len(samples) \in Nat
      /\ \A i \in 1 .. Len(samples) : samples[i].t \in Nat
  <2>1. \A i \in 1 .. Len(samples) : samples[i] \in Samples
    BY ElementOfSeq
  <2>2. QED
    BY <1>1, <2>1, LenProperties
<1>3. TrimOld(samples, now) \in Seq(Samples)
  BY <1>1, Trimmed
<1>4. PICK skip \in 0 .. Len(samples) :
        /\ Len(TrimOld(samples, now)) = Len(samples) - skip
        /\ \A i \in 1 .. Len(samples) - skip :
             TrimOld(samples, now)[i] = samples[skip + i]
        /\ skip < Len(samples) => samples[skip + 1].t >= now - HISTORY_RETENTION_SEC
  BY <1>1, Trimmed
<1>5. \A i \in 1 .. Len(samples) - skip : skip + i \in 1 .. Len(samples)
  BY <1>2
<1>6. InOrder(TrimOld(samples, now), now)
  <2> DEFINE left == TrimOld(samples, now)
  <2>1. ASSUME NEW i \in 1 .. Len(left), NEW j \in 1 .. Len(left), i < j
        PROVE  left[i].t < left[j].t
    <3>1. left[i] = samples[skip + i] /\ left[j] = samples[skip + j]
      BY <1>4
    <3>2. skip + i \in 1 .. Len(samples) /\ skip + j \in 1 .. Len(samples)
          /\ skip + i < skip + j
      BY <1>2, <1>4, <1>5, <2>1
    <3>3. QED
      BY <3>1, <3>2 DEF InOrder
  <2>2. ASSUME NEW i \in 1 .. Len(left) PROVE left[i].t <= now
    <3>1. left[i] = samples[skip + i] /\ skip + i \in 1 .. Len(samples)
      BY <1>4, <1>5
    <3>2. QED
      BY <3>1 DEF InOrder
  <2> HIDE DEF left
  <2>3. QED
    BY <2>1, <2>2 DEF InOrder, left
<1>7. ASSUME NEW i \in 1 .. Len(samples) - skip
      PROVE  samples[skip + i].t >= now - HISTORY_RETENTION_SEC
  <2>1. skip < Len(samples) /\ skip + 1 \in 1 .. Len(samples) /\ skip + 1 <= skip + i
    BY <1>2
  <2>2. samples[skip + 1].t <= samples[skip + i].t
    BY <1>2, <1>5, <2>1 DEF InOrder
  <2>3. now - HISTORY_RETENTION_SEC \in Int
    BY <1>1 DEF StoreAssumption
  <2>4. QED
    BY <1>2, <1>4, <1>5, <2>1, <2>2, <2>3
<1>8. QED
  BY <1>3, <1>4, <1>6, <1>7

-----------------------------------------------------------------------------
(* The invariant.                                                          *)

FixesBy(p) == [at : Places, by : {p}, t : Times]
SetOf(h) ==
  IF h \in DOMAIN operated THEN [dir |-> operated[h], manual |-> TRUE] ELSE freshOps

(* What is carried of a target, listed or not: fixes of the projection in  *)
(* use, samples in order, and what the operator set.                       *)
Held(c, h) ==
  /\ c.history \in Seq(FixesBy(project))
  /\ c.samples \in Seq(Samples) /\ InOrder(c.samples, statsNow)
  /\ c.ops \in OperatorState /\ c.ops = SetOf(h)

Young(samples, now) ==
  \A i \in 1 .. Len(samples) : samples[i].t >= now - HISTORY_RETENTION_SEC

(* What the operator set of a target lasts as long as the target does: it  *)
(* is not enough that it is right of those listed, who may come to be      *)
(* listed again from what is remembered.                                   *)
Sound ==
  /\ statsNow \in Times /\ project \in Projections
  /\ DOMAIN tracks \subseteq Hexes /\ DOMAIN remembered \subseteq Hexes
  /\ DOMAIN operated \subseteq DOMAIN tracks \cup DOMAIN remembered
  /\ tracks \in [DOMAIN tracks -> Tracks]
  /\ remembered \in [DOMAIN remembered -> Carried]
  /\ operated \in [DOMAIN operated -> Bearings]
  /\ OneCopy
  /\ \A h \in DOMAIN tracks :
       /\ Held(tracks[h], h) /\ Young(tracks[h].samples, statsNow)
       /\ tracks[h].position # Nothing => tracks[h].position.by = project
  /\ \A h \in DOMAIN remembered : Held(remembered[h], h)

LEMMA FixesByAre == ASSUME NEW p \in Projections, NEW history \in Seq(FixesBy(p))
  PROVE  /\ history \in Seq(Fixes)
         /\ \A i \in DOMAIN history : history[i].by = p
<1>1. FixesBy(p) \subseteq Fixes
  BY DEF FixesBy, Fixes
<1>2. history \in Seq(Fixes)
  BY <1>1, SeqMonotonic
<1>3. \A i \in 1 .. Len(history) : history[i] \in FixesBy(p)
  BY ElementOfSeq
<1>4. QED
  BY <1>2, <1>3, LenProperties DEF FixesBy

LEMMA SoundIsEnough ==
  ASSUME Sound
  PROVE  TypeOK /\ OneCopy /\ Projected /\ SamplesOrdered /\ OperatorKept
<1>1. TypeOK
  BY DEF Sound, TypeOK
<1>2. Projected
  <2>1. ASSUME NEW h \in DOMAIN tracks, NEW i \in DOMAIN tracks[h].history
        PROVE  tracks[h].history[i].by = project
    BY FixesByAre DEF Sound, Held
  <2>2. ASSUME NEW h \in DOMAIN remembered, NEW i \in DOMAIN remembered[h].history
        PROVE  remembered[h].history[i].by = project
    BY FixesByAre DEF Sound, Held
  <2>3. QED
    BY <2>1, <2>2 DEF Sound, Projected
<1>3. SamplesOrdered
  <2>1. ASSUME NEW h \in DOMAIN tracks
        PROVE  /\ Ordered(tracks[h].samples)
               /\ \A i \in DOMAIN tracks[h].samples :
                    tracks[h].samples[i].t >= statsNow - HISTORY_RETENTION_SEC
    <3>1. tracks[h].samples \in Seq(Samples) /\ InOrder(tracks[h].samples, statsNow)
          /\ Young(tracks[h].samples, statsNow)
      BY DEF Sound, Held
    <3>2. DOMAIN tracks[h].samples = 1 .. Len(tracks[h].samples)
      BY <3>1, LenProperties
    <3>3. QED
      BY <3>1, <3>2, InOrderIsOrdered DEF Young
  <2>2. ASSUME NEW h \in DOMAIN remembered PROVE Ordered(remembered[h].samples)
    BY InOrderIsOrdered DEF Sound, Held
  <2>3. QED
    BY <2>1, <2>2 DEF SamplesOrdered
<1>4. OperatorKept
  BY DEF Sound, Held, SetOf, OperatorKept
<1>5. QED
  BY <1>1, <1>2, <1>3, <1>4 DEF Sound

LEMMA SoundAtStart == ASSUME StoreAssumption PROVE Init => Sound
<1> SUFFICES ASSUME Init PROVE Sound
  OBVIOUS
<1>1. DOMAIN tracks = {} /\ DOMAIN remembered = {} /\ DOMAIN operated = {}
  BY DEF Init, None
<1>2. /\ tracks \in [DOMAIN tracks -> Tracks]
      /\ remembered \in [DOMAIN remembered -> Carried]
      /\ operated \in [DOMAIN operated -> Bearings]
  BY DEF Init, None
<1>3. statsNow \in Times
  BY DEF Init, Times, StoreAssumption
<1>4. QED
  BY <1>1, <1>2, <1>3 DEF Init, Sound, OneCopy

-----------------------------------------------------------------------------
(* A snapshot.                                                             *)

LEMMA SnapshotParts ==
  ASSUME NEW s \in Snapshots
  PROVE  /\ s.now \in Times /\ DOMAIN s.aircraft \subseteq Hexes
         /\ \A h \in DOMAIN s.aircraft : s.aircraft[h] \in Reports
<1>1. PICK t \in Times :
        s \in {[now |-> t, aircraft |-> f] :
               f \in UNION {[D -> {r \in Reports : r.heard <= t /\ r.positionHeard <= r.heard}] :
                              D \in SUBSET Hexes}}
  BY DEF Snapshots
<1>2. PICK D \in SUBSET Hexes :
        \E f \in [D -> {r \in Reports : r.heard <= t /\ r.positionHeard <= r.heard}] :
          s = [now |-> t, aircraft |-> f]
  BY <1>1
<1>3. QED
  BY <1>2

LEMMA LaterInOrder ==
  ASSUME StoreAssumption, NEW samples \in Seq(Samples), NEW now \in Times, NEW then \in Times,
         then <= now, InOrder(samples, then)
  PROVE  InOrder(samples, now)
<1>1. \A i \in 1 .. Len(samples) : samples[i].t \in Nat
  <2>1. \A i \in 1 .. Len(samples) : samples[i] \in Samples
    BY ElementOfSeq
  <2>2. QED
    BY <2>1 DEF Samples, Times
<1>2. then \in Nat /\ now \in Nat
  BY DEF Times
<1>3. QED
  BY <1>1, <1>2 DEF InOrder

(* What a target listed carries on from is as sound as what it was, and    *)
(* what the operator set of it lasts with it.                              *)
LEMMA PreviousHeld ==
  ASSUME StoreAssumption, Sound, NEW s \in Snapshots, Ingest(s),
         NEW h \in DOMAIN s.aircraft
  PROVE  LET p == Previous(h, s.now) IN
         /\ p.history \in Seq(FixesBy(project))
         /\ p.samples \in Seq(Samples) /\ InOrder(p.samples, statsNow)
         /\ p.ops \in OperatorState /\ p.ops = SetOf(h)'
<1>1. operated' = [g \in {k \in DOMAIN operated : k \in DOMAIN tracks \/ ~Lapsed(k, s.now)} |->
                     operated[g]]
  BY DEF Ingest
<1>2. CASE h \in DOMAIN tracks
  <2>1. Previous(h, s.now) = tracks[h] /\ Held(tracks[h], h)
    BY <1>2 DEF Previous, Sound
  <2>2. SetOf(h)' = SetOf(h)
    BY <1>1, <1>2 DEF SetOf
  <2>3. QED
    BY <2>1, <2>2 DEF Held
<1>3. CASE h \notin DOMAIN tracks /\ h \in DOMAIN remembered /\ ~Lapsed(h, s.now)
  <2>1. Previous(h, s.now) = remembered[h] /\ Held(remembered[h], h)
    BY <1>3 DEF Previous, Sound
  <2>2. SetOf(h)' = SetOf(h)
    BY <1>1, <1>3 DEF SetOf
  <2>3. QED
    BY <2>1, <2>2 DEF Held
<1>4. CASE h \notin DOMAIN tracks /\ (h \notin DOMAIN remembered \/ Lapsed(h, s.now))
  <2>1. Previous(h, s.now) = [history |-> <<>>, samples |-> <<>>, ops |-> freshOps]
    BY <1>4 DEF Previous
  <2>2. h \notin DOMAIN operated'
    BY <1>1, <1>4 DEF Sound
  <2>3. freshOps \in OperatorState
    BY DEF freshOps, OperatorState
  <2>4. InOrder(<<>>, statsNow) /\ <<>> \in Seq(Samples) /\ <<>> \in Seq(FixesBy(project))
    BY DEF InOrder
  <2>5. QED
    BY <2>1, <2>2, <2>3, <2>4 DEF SetOf
<1>5. QED
  BY <1>2, <1>3, <1>4

LEMMA FixAppended ==
  ASSUME StoreAssumption, NEW history \in Seq(FixesBy(project)), NEW r \in Reports
  PROVE  AppendFix(history, r.at, r.positionHeard) \in Seq(FixesBy(project))
<1> DEFINE new == [at |-> r.at, by |-> project, t |-> r.positionHeard]
<1>1. CASE r.at = Nothing
  BY <1>1 DEF AppendFix
<1>2. CASE r.at # Nothing
  <2>1. new \in FixesBy(project)
    BY <1>2 DEF FixesBy, Reports
  <2>2. Append(history, new) \in Seq(FixesBy(project))
    BY <2>1, AppendProperties
  <2>3. QED
    BY <2>2 DEF AppendFix
<1>3. QED
  BY <1>1, <1>2

LEMMA TrackMade ==
  ASSUME StoreAssumption, Sound, NEW s \in Snapshots, Ingest(s),
         NEW h \in DOMAIN s.aircraft
  PROVE  LET t == ToTrack(s.aircraft[h], Previous(h, s.now), s.now) IN
         /\ t \in Tracks
         /\ t.history \in Seq(FixesBy(project))
         /\ InOrder(t.samples, s.now) /\ Young(t.samples, s.now)
         /\ t.ops = SetOf(h)'
         /\ t.position # Nothing => t.position.by = project
<1> DEFINE p == Previous(h, s.now)
           r == s.aircraft[h]
           t == ToTrack(r, p, s.now)
           fixes == AppendFix(p.history, r.at, r.positionHeard)
           taken == AppendSample(p.samples, r, s.now)
<1>1. /\ p.history \in Seq(FixesBy(project))
      /\ p.samples \in Seq(Samples) /\ InOrder(p.samples, statsNow)
      /\ p.ops \in OperatorState /\ p.ops = SetOf(h)'
  BY PreviousHeld
<1>2. s.now \in Times /\ r \in Reports /\ statsNow \in Times /\ statsNow <= s.now
      /\ project \in Projections
  BY SnapshotParts DEF Ingest, Sound, Times
<1>3. t = [history |-> TrimOld(fixes, s.now), samples |-> TrimOld(taken, s.now), ops |-> p.ops,
           position |-> IF r.at = Nothing THEN Nothing ELSE [at |-> r.at, by |-> project]]
  BY DEF ToTrack
<1> HIDE DEF p, r, t
<1>4. TrimOld(fixes, s.now) \in Seq(FixesBy(project))
  <2>1. fixes \in Seq(FixesBy(project))
    BY <1>1, <1>2, FixAppended
  <2>2. s.now \in Nat /\ \A f \in FixesBy(project) : f.t \in Nat
    BY <1>2 DEF Times, FixesBy
  <2> HIDE DEF fixes
  <2>3. QED
    BY <2>1, <2>2, Trimmed
<1>5. taken \in Seq(Samples) /\ InOrder(taken, s.now)
  BY <1>1, <1>2, Sampled
<1>6. /\ TrimOld(taken, s.now) \in Seq(Samples) /\ InOrder(TrimOld(taken, s.now), s.now)
      /\ Young(TrimOld(taken, s.now), s.now)
  <2> HIDE DEF taken
  <2> QED
    BY <1>2, <1>5, TrimmedInOrder DEF Young
<1>7. r.at = Nothing \/ [at |-> r.at, by |-> project] \in Positions
  BY <1>2 DEF Positions, Reports
<1>8. TrimOld(fixes, s.now) \in Seq(Fixes)
  BY <1>2, <1>4, FixesByAre
<1> HIDE DEF fixes, taken
<1>9. t \in Tracks
  BY <1>1, <1>3, <1>6, <1>7, <1>8 DEF Tracks, Positions
<1>10. QED
  BY <1>1, <1>3, <1>4, <1>6, <1>9 DEF p, r, t

LEMMA IngestKeeps ==
  ASSUME StoreAssumption, Sound, NEW s \in Snapshots, Ingest(s)
  PROVE  Sound'
<1> DEFINE made(h) == ToTrack(s.aircraft[h], Previous(h, s.now), s.now)
           gone(h) == IF h \in DOMAIN tracks THEN CarriedOf(tracks[h]) ELSE remembered[h]
<1>1. /\ DOMAIN tracks' = DOMAIN s.aircraft /\ DOMAIN remembered' = Left(s)
      /\ \A h \in DOMAIN tracks' : tracks'[h] = made(h)
      /\ \A h \in DOMAIN remembered' : remembered'[h] = gone(h)
      /\ statsNow' = s.now /\ project' = project /\ statsNow <= s.now
  BY SnapshotParts DEF Ingest, Sound, Times
<1>2. DOMAIN operated' = {k \in DOMAIN operated : k \in DOMAIN tracks \/ ~Lapsed(k, s.now)}
      /\ \A h \in DOMAIN operated' : operated'[h] = operated[h]
  BY DEF Ingest
<1>3. statsNow' \in Times /\ statsNow \in Times
      /\ project' \in Projections /\ DOMAIN s.aircraft \subseteq Hexes
  BY <1>1, SnapshotParts DEF Sound
<1>4. /\ DOMAIN remembered' \subseteq (DOMAIN remembered \cup DOMAIN tracks) \ DOMAIN tracks'
      /\ DOMAIN remembered' \subseteq Hexes
  BY <1>1 DEF Left, Sound
<1>5. DOMAIN operated' \subseteq DOMAIN tracks' \cup DOMAIN remembered'
  BY <1>1, <1>2 DEF Left, Sound
<1>6. ASSUME NEW h \in DOMAIN tracks'
      PROVE  /\ tracks'[h] \in Tracks
             /\ Held(tracks[h], h)' /\ Young(tracks[h].samples, statsNow)'
             /\ tracks'[h].position # Nothing => tracks'[h].position.by = project'
  <2>1. /\ made(h) \in Tracks
        /\ made(h).history \in Seq(FixesBy(project))
        /\ InOrder(made(h).samples, s.now) /\ Young(made(h).samples, s.now)
        /\ made(h).ops = SetOf(h)'
        /\ made(h).position # Nothing => made(h).position.by = project
    BY <1>1, TrackMade
  <2>2. tracks'[h] = made(h)
    BY <1>1
  <2> HIDE DEF made
  <2>3. made(h).samples \in Seq(Samples) /\ made(h).ops \in OperatorState
    BY <2>1 DEF Tracks
  <2>4. QED
    BY <1>1, <2>1, <2>2, <2>3 DEF Held
<1>7. ASSUME NEW h \in DOMAIN remembered'
      PROVE  remembered'[h] \in Carried /\ Held(remembered[h], h)'
  <2>1. SetOf(h)' = SetOf(h)
    <3>1. h \in DOMAIN operated => h \in DOMAIN operated'
      BY <1>1, <1>2 DEF Left, Sound
    <3>2. QED
      BY <1>2, <3>1 DEF SetOf
  <2>2. gone(h) \in Carried /\ Held(gone(h), h)
    <3>1. CASE h \in DOMAIN tracks
      <4>1. tracks[h] \in Tracks /\ Held(tracks[h], h)
        BY <3>1 DEF Sound
      <4>2. gone(h) = [history |-> tracks[h].history, samples |-> tracks[h].samples,
                       ops |-> tracks[h].ops]
        BY <3>1 DEF CarriedOf
      <4>3. QED
        BY <4>1, <4>2 DEF Tracks, Carried, Held
    <3>2. CASE h \notin DOMAIN tracks
      BY <1>4, <3>2 DEF Sound
    <3>3. QED
      BY <3>1, <3>2
  <2>3. remembered'[h] = gone(h)
    BY <1>1
  <2> HIDE DEF gone
  <2>4. InOrder(gone(h).samples, s.now) /\ gone(h).samples \in Seq(Samples)
    BY <1>1, <1>3, <2>2, LaterInOrder DEF Held
  <2>5. QED
    BY <1>1, <2>1, <2>2, <2>3, <2>4 DEF Held
<1>8. /\ tracks' \in [DOMAIN tracks' -> Tracks]
      /\ remembered' \in [DOMAIN remembered' -> Carried]
      /\ operated' \in [DOMAIN operated' -> Bearings]
  <2>1. tracks' = [h \in DOMAIN tracks' |-> tracks'[h]]
    BY DEF Ingest
  <2>2. remembered' = [h \in DOMAIN remembered' |-> remembered'[h]]
    BY DEF Ingest
  <2>3. operated' = [h \in DOMAIN operated' |-> operated'[h]]
    BY DEF Ingest
  <2>4. \A h \in DOMAIN operated' : operated'[h] \in Bearings
    BY <1>2 DEF Sound
  <2>5. QED
    BY <1>6, <1>7, <2>1, <2>2, <2>3, <2>4
<1>9. OneCopy'
  BY <1>4 DEF OneCopy
<1>10. QED
  BY <1>1, <1>3, <1>4, <1>5, <1>6, <1>7, <1>8, <1>9 DEF Sound

-----------------------------------------------------------------------------
(* A projection, and a drag.                                               *)

LEMMA ReprojectedBy ==
  ASSUME NEW p \in Projections, NEW by \in Projections, NEW history \in Seq(FixesBy(p))
  PROVE  Reprojected(history, by) \in Seq(FixesBy(by))
<1>1. Len(history) \in Nat /\ DOMAIN history = 1 .. Len(history)
      /\ \A i \in 1 .. Len(history) : history[i] \in FixesBy(p)
  BY ElementOfSeq, LenProperties
<1>2. \A i \in 1 .. Len(history) : [history[i] EXCEPT !.by = by] \in FixesBy(by)
  BY <1>1 DEF FixesBy
<1>3. Reprojected(history, by) \in [1 .. Len(history) -> FixesBy(by)]
  BY <1>1, <1>2 DEF Reprojected
<1>4. QED
  BY <1>1, <1>3, SeqDef

LEMMA ReprojectKeeps ==
  ASSUME Sound, NEW by \in Projections, Reproject(by)
  PROVE  Sound'
<1> DEFINE again(t) ==
             [t EXCEPT !.history = Reprojected(@, by),
                       !.position = IF @ = Nothing THEN Nothing ELSE [at |-> @.at, by |-> by]]
           anew(c) == [c EXCEPT !.history = Reprojected(@, by)]
<1>1. /\ tracks' = [h \in DOMAIN tracks |-> again(tracks[h])]
      /\ remembered' = [h \in DOMAIN remembered |-> anew(remembered[h])]
      /\ project' = by /\ statsNow' = statsNow /\ operated' = operated
  BY DEF Reproject, ReprojectRemembered
<1>2. ASSUME NEW h \in DOMAIN tracks
      PROVE  /\ again(tracks[h]) \in Tracks
             /\ again(tracks[h]).history \in Seq(FixesBy(by))
             /\ again(tracks[h]).samples = tracks[h].samples
             /\ again(tracks[h]).ops = tracks[h].ops
             /\ again(tracks[h]).position # Nothing => again(tracks[h]).position.by = by
  <2>1. tracks[h] \in Tracks /\ tracks[h].history \in Seq(FixesBy(project))
        /\ project \in Projections
    BY DEF Sound, Held
  <2>2. Reprojected(tracks[h].history, by) \in Seq(FixesBy(by))
    BY <2>1, ReprojectedBy
  <2>3. Reprojected(tracks[h].history, by) \in Seq(Fixes)
    BY <2>2, FixesByAre
  <2> DEFINE place == IF tracks[h].position = Nothing THEN Nothing
                      ELSE [at |-> tracks[h].position.at, by |-> by]
  <2>4. place \in Positions /\ (place # Nothing => place.by = by)
    BY <2>1 DEF Positions, Tracks
  <2>5. /\ again(tracks[h]) \in Tracks
        /\ again(tracks[h]).history = Reprojected(tracks[h].history, by)
        /\ again(tracks[h]).samples = tracks[h].samples
        /\ again(tracks[h]).ops = tracks[h].ops
        /\ again(tracks[h]).position = place
    <3> DEFINE u == tracks[h]
               x == Reprojected(tracks[h].history, by)
    <3>1. again(tracks[h]) = [u EXCEPT !.history = x, !.position = place]
      OBVIOUS
    <3>2. u \in Tracks /\ x \in Seq(Fixes) /\ place \in Positions
      BY <2>1, <2>3, <2>4
    <3> HIDE DEF again, place, u, x
    <3>3. [u EXCEPT !.history = x, !.position = place] \in Tracks
      BY <3>2 DEF Tracks
    <3>4. LET v == [u EXCEPT !.history = x, !.position = place] IN
          v.history = x /\ v.samples = u.samples /\ v.ops = u.ops /\ v.position = place
      BY <3>2 DEF Tracks
    <3>5. QED
      BY <3>1, <3>3, <3>4 DEF u, x
  <2> HIDE DEF again, place
  <2>6. QED
    BY <2>2, <2>4, <2>5
<1>3. ASSUME NEW h \in DOMAIN remembered
      PROVE  /\ anew(remembered[h]) \in Carried
             /\ anew(remembered[h]).history \in Seq(FixesBy(by))
             /\ anew(remembered[h]).samples = remembered[h].samples
             /\ anew(remembered[h]).ops = remembered[h].ops
  <2>1. remembered[h] \in Carried /\ remembered[h].history \in Seq(FixesBy(project))
        /\ project \in Projections
    BY DEF Sound, Held
  <2>2. Reprojected(remembered[h].history, by) \in Seq(FixesBy(by))
    BY <2>1, ReprojectedBy
  <2>3. Reprojected(remembered[h].history, by) \in Seq(Fixes)
    BY <2>2, FixesByAre
  <2>4. anew(remembered[h]) = [history |-> Reprojected(remembered[h].history, by),
                               samples |-> remembered[h].samples, ops |-> remembered[h].ops]
    BY <2>1 DEF Carried
  <2> HIDE DEF anew
  <2>5. QED
    BY <2>1, <2>2, <2>3, <2>4 DEF Carried
<1> HIDE DEF again, anew
<1>4. \A h \in Hexes : SetOf(h)' = SetOf(h)
  BY <1>1 DEF SetOf
<1>5. /\ tracks' \in [DOMAIN tracks' -> Tracks] /\ DOMAIN tracks' = DOMAIN tracks
      /\ remembered' \in [DOMAIN remembered' -> Carried]
      /\ DOMAIN remembered' = DOMAIN remembered
  BY <1>1, <1>2, <1>3
<1>6. ASSUME NEW h \in DOMAIN tracks'
      PROVE  /\ Held(tracks[h], h)' /\ Young(tracks[h].samples, statsNow)'
             /\ tracks'[h].position # Nothing => tracks'[h].position.by = project'
  <2>1. h \in DOMAIN tracks /\ h \in Hexes /\ tracks'[h] = again(tracks[h])
    BY <1>1, <1>5 DEF Sound
  <2>2. Held(tracks[h], h) /\ Young(tracks[h].samples, statsNow)
    BY <2>1 DEF Sound
  <2>3. QED
    BY <1>1, <1>2, <1>4, <2>1, <2>2 DEF Held
<1>7. ASSUME NEW h \in DOMAIN remembered' PROVE Held(remembered[h], h)'
  <2>1. h \in DOMAIN remembered /\ h \in Hexes /\ remembered'[h] = anew(remembered[h])
    BY <1>1, <1>5 DEF Sound
  <2>2. Held(remembered[h], h)
    BY <2>1 DEF Sound
  <2>3. QED
    BY <1>1, <1>3, <1>4, <2>1, <2>2 DEF Held
<1>8. QED
  BY <1>1, <1>5, <1>6, <1>7 DEF Sound, OneCopy

LEMMA DragKeeps ==
  ASSUME Sound, NEW hex \in Hexes, NEW dir \in Bearings, Drag(hex, dir)
  PROVE  Sound'
<1> DEFINE ops == [dir |-> dir, manual |-> TRUE]
<1>1. /\ hex \in DOMAIN tracks
      /\ tracks' = [tracks EXCEPT ![hex].ops = ops]
      /\ operated' = [h \in DOMAIN operated \cup {hex} |-> IF h = hex THEN dir ELSE operated[h]]
      /\ remembered' = remembered /\ project' = project /\ statsNow' = statsNow
  BY DEF Drag
<1>2. ops \in OperatorState
  BY DEF OperatorState
<1>3. tracks[hex] \in Tracks
  BY <1>1 DEF Sound
<1>4. /\ DOMAIN tracks' = DOMAIN tracks
      /\ \A h \in DOMAIN tracks \ {hex} : tracks'[h] = tracks[h]
      /\ tracks'[hex] = [tracks[hex] EXCEPT !.ops = ops]
      /\ tracks' = [h \in DOMAIN tracks' |-> tracks'[h]]
  BY <1>1 DEF Sound
<1>5. tracks'[hex] = [history |-> tracks[hex].history, samples |-> tracks[hex].samples,
                      ops |-> ops, position |-> tracks[hex].position]
  BY <1>3, <1>4 DEF Tracks
<1>6. SetOf(hex)' = ops /\ \A h \in Hexes \ {hex} : SetOf(h)' = SetOf(h)
  BY <1>1 DEF SetOf
<1> HIDE DEF ops
<1>7. tracks'[hex] \in Tracks
  BY <1>2, <1>3, <1>5 DEF Tracks
<1>8. tracks' \in [DOMAIN tracks' -> Tracks]
  BY <1>4, <1>7 DEF Sound
<1>9. ASSUME NEW h \in DOMAIN tracks'
      PROVE  /\ Held(tracks[h], h)' /\ Young(tracks[h].samples, statsNow)'
             /\ tracks'[h].position # Nothing => tracks'[h].position.by = project'
  <2>1. h \in DOMAIN tracks /\ h \in Hexes /\ Held(tracks[h], h)
        /\ Young(tracks[h].samples, statsNow)
        /\ (tracks[h].position # Nothing => tracks[h].position.by = project)
    BY <1>4 DEF Sound
  <2>2. CASE h = hex
    <3>1. /\ tracks'[h].history = tracks[h].history /\ tracks'[h].samples = tracks[h].samples
          /\ tracks'[h].ops = ops /\ tracks'[h].position = tracks[h].position
      BY <1>5, <2>2
    <3>2. QED
      BY <1>1, <1>2, <1>6, <2>1, <2>2, <3>1 DEF Held
  <2>3. CASE h # hex
    BY <1>1, <1>4, <1>6, <2>1, <2>3 DEF Held
  <2>4. QED
    BY <2>2, <2>3
<1>10. ASSUME NEW h \in DOMAIN remembered' PROVE Held(remembered[h], h)'
  <2>1. h \in DOMAIN remembered /\ h # hex /\ h \in Hexes
    BY <1>1 DEF Sound, OneCopy
  <2>2. QED
    BY <1>1, <1>6, <2>1 DEF Sound, Held
<1>11. operated' \in [DOMAIN operated' -> Bearings]
       /\ DOMAIN operated' = DOMAIN operated \cup {hex}
  BY <1>1 DEF Sound
<1>12. QED
  BY <1>1, <1>4, <1>8, <1>9, <1>10, <1>11 DEF Sound, OneCopy

-----------------------------------------------------------------------------
LEMMA SoundKept == ASSUME StoreAssumption, Sound, [Next]_vars PROVE Sound'
<1>1. CASE Next
  BY <1>1, IngestKeeps, ReprojectKeeps, DragKeeps DEF Next
<1>2. CASE UNCHANGED vars
  BY <1>2 DEF vars, Sound, OneCopy, Held, SetOf
<1>3. QED
  BY <1>1, <1>2

(* Whatever snapshots come, in whatever order, and however the projection  *)
(* changes meanwhile, a target has one copy of its past, in the projection *)
(* in use, with its samples in order (trackStore.ts:172).                  *)
THEOREM StoreHolds ==
  ASSUME StoreAssumption
  PROVE  Spec => [](TypeOK /\ OneCopy /\ Projected /\ SamplesOrdered)
<1>1. Init => Sound
  BY SoundAtStart
<1>2. Sound /\ [Next]_vars => Sound'
  BY SoundKept
<1>3. Sound => TypeOK /\ OneCopy /\ Projected /\ SamplesOrdered
  BY SoundIsEnough
<1>4. QED
  BY <1>1, <1>2, <1>3, PTL DEF Spec

(* A block stands where the operator dragged it for as long as anything is *)
(* kept of its target, and goes with it (trackStore.ts:197).               *)
THEOREM OperatorKeptHolds == ASSUME StoreAssumption PROVE Spec => []OperatorKept
<1>1. Init => Sound
  BY SoundAtStart
<1>2. Sound /\ [Next]_vars => Sound'
  BY SoundKept
<1>3. Sound => OperatorKept
  BY SoundIsEnough
<1>4. QED
  BY <1>1, <1>2, <1>3, PTL DEF Spec
=============================================================================
