----------------------------- MODULE Feed_proofs -----------------------------
(***************************************************************************)
(* Proofs about Feed, for any number of pages, session tasks and permits,  *)
(* any cadence, retention and window, and any bounds.                      *)
(***************************************************************************)
EXTENDS Feed, FiniteSetTheorems, SequenceTheorems, WellFoundedInduction, TLAPS

-----------------------------------------------------------------------------
(* Newest.                                                                 *)

(* A non-empty set of naturals has a least element. *)
LEMMA LeastExists ==
  ASSUME NEW T \in SUBSET Nat, T # {}
  PROVE  \E x \in T : \A y \in T : x <= y
<1> DEFINE R == OpToRel(<, Nat)
<1>1. \E x \in T : \A y \in T : ~(<<y, x>> \in R)
  <2>1. IsWellFoundedOn(R, Nat)
    BY NatLessThanWellFounded
  <2> HIDE DEF R
  <2> QED BY <2>1, WFMin
<1>2. \A x, y \in Nat : <<y, x>> \in R <=> y < x
  BY DEF OpToRel
<1>3. PICK x \in T : \A y \in T : ~(<<y, x>> \in R)
  BY <1>1
<1>4. \A y \in T : ~(y < x)
  BY <1>2, <1>3
<1>5. \A y \in T : x <= y
  BY <1>4
<1> QED BY <1>5

(* Newest is the greatest of the times and the least one given. *)
LEMMA NewestIsGreatest ==
  ASSUME NEW S \in SUBSET Times, NEW least \in 0 .. MaxNow
  PROVE  /\ Newest(S, least) \in S \cup {least}
         /\ Newest(S, least) \in 0 .. MaxNow
         /\ \A u \in S \cup {least} : u <= Newest(S, least)
<1> DEFINE T == S \cup {least}
           D == {MaxNow - t : t \in T}
<1>0. T \subseteq 0 .. MaxNow /\ MaxNow \in Nat
  BY TimeAssumption DEF Times
<1>1. D \in SUBSET Nat /\ D # {}
  BY <1>0
<1>2. PICK d \in D : \A e \in D : d <= e
  BY <1>1, LeastExists
<1>3. PICK t \in T : d = MaxNow - t
  OBVIOUS
<1>4. \A u \in T : u <= t
  BY <1>0, <1>2, <1>3
<1>5. Newest(S, least) \in T /\ \A u \in T : u <= Newest(S, least)
  BY <1>3, <1>4 DEF Newest
<1> QED BY <1>0, <1>5

-----------------------------------------------------------------------------
(* Types and permits.                                                      *)

(* A task at work has a page's session; a free one has nothing.            *)
Owned == \A s \in Slots :
  IF session[s].at = "free" THEN session[s] = Free
  ELSE session[s].client \in Clients

LEMMA FreeIsSession == Free \in Session
BY TimeAssumption, EmptySeq DEF Free, Session

LEMMA EndedIsPage == ASSUME NEW p \in Page PROVE Ended(p) \in Page
BY EmptySeq DEF Ended, Page, Afterwards

LEMMA FramesOfServer ==
  ASSUME TypeOK, NEW from \in 0 .. MaxNow
  PROVE  /\ latest # 0 => Greeting(from) \in Seq(Frames)
         /\ latest # 0 => <<Snapshot(latest)>> \in Seq(Frames)
         /\ WeatherNow \in Seq(Frames)
<1>1. Weather(weather) \in Frames
  BY DEF TypeOK, Weather, Frames
<1>2. latest # 0 => Snapshot(latest) \in Frames
  BY TimeAssumption DEF TypeOK, Snapshot, Frames, Times
<1>3. Hello(Backfill(kept, from, latest)) \in Frames
  BY DEF TypeOK, Hello, Backfill, Frames
<1> QED BY <1>1, <1>2, <1>3 DEF Greeting, WeatherNow

LEMMA InitTyped == Init => TypeOK
<1> SUFFICES ASSUME Init PROVE TypeOK
  OBVIOUS
<1>1. Fresh \in Page
  BY EmptySeq, ReportAssumption, BoundAssumption, TimeAssumption DEF Fresh, Page
<1> QED
  BY <1>1, FreeIsSession, ReportAssumption, BoundAssumption, TimeAssumption,
     LimitAssumption DEF Init, TypeOK

(* Ending a task keeps the types and the balance, and frees the slot.      *)
LEMMA EndTaskKeeps ==
  ASSUME TypeOK, PermitsBalance, Owned, NEW s \in Slots,
         session[s].at # "free", EndTask(s)
  PROVE  /\ session' \in [Slots -> Session] /\ permits' \in 0 .. MaxSessions
         /\ PermitsBalance' /\ Owned'
<1> USE SlotsAssumption, LimitAssumption
<1>1. session' \in [Slots -> Session]
  BY FreeIsSession DEF EndTask, SetSession, TypeOK
<1>2. /\ IsFiniteSet(Holding) /\ Cardinality(Holding) \in Nat
      /\ permits + Cardinality(Holding) = MaxSessions /\ permits \in Nat
  <2>1. Holding \subseteq Slots
    BY DEF Holding
  <2> QED BY <2>1, FS_Subset, FS_CardinalityType DEF PermitsBalance, TypeOK
<1>3. \A u \in Slots : session'[u] = IF u = s THEN Free ELSE session[u]
  BY DEF EndTask, SetSession, TypeOK
<1>4. Owned'
  <2>1. Free.at = "free"
    BY DEF Free
  <2>2. ASSUME NEW u \in Slots
        PROVE  IF session'[u].at = "free" THEN session'[u] = Free
               ELSE session'[u].client \in Clients
    <3>1. CASE u = s
      BY <1>3, <2>1, <3>1
    <3>2. CASE u # s
      BY <1>3, <3>2 DEF Owned
    <3> QED BY <3>1, <3>2
  <2> QED BY <2>2 DEF Owned
<1>5. CASE session[s].at = "refusing"
  <2>1. Holding' = Holding
    BY <1>3, <1>5 DEF Holding, Free
  <2> QED BY <1>1, <1>4, <1>5, <2>1 DEF EndTask, PermitsBalance, TypeOK
<1>6. CASE session[s].at # "refusing"
  <2>1. Holding' = Holding \ {s} /\ s \in Holding
    BY <1>3, <1>6 DEF Holding, Free
  <2>2. Cardinality(Holding') = Cardinality(Holding) - 1
    BY <1>2, <2>1, FS_RemoveElement
  <2>3. permits' = permits + 1
    BY <1>6 DEF EndTask
  <2>4. Cardinality(Holding') \in Nat
    BY <1>2, <2>1, FS_Subset, FS_CardinalityType
  <2> QED BY <1>1, <1>2, <1>4, <2>2, <2>3, <2>4 DEF PermitsBalance
<1> QED BY <1>5, <1>6

(* Accepting takes a permit exactly when the task will hold one.           *)
LEMMA AcceptKeeps ==
  ASSUME TypeOK, PermitsBalance, Owned, NEW c \in Clients, NEW s \in Slots,
         Accept(c, s)
  PROVE  TypeOK' /\ PermitsBalance' /\ Owned'
<1> USE SlotsAssumption, LimitAssumption
<1> DEFINE r == [Free EXCEPT !.client = c, !.since = page[c].lastNow,
                   !.at = IF permits > 0 THEN "handshake" ELSE "refusing"]
<1>0. /\ IsFiniteSet(Holding) /\ Cardinality(Holding) \in Nat
      /\ permits + Cardinality(Holding) = MaxSessions /\ permits \in Nat
  <2>1. Holding \subseteq Slots
    BY DEF Holding
  <2> QED BY <2>1, FS_Subset, FS_CardinalityType DEF PermitsBalance, TypeOK
<1>1. r \in Session /\ r.client = c
      /\ r.at = IF permits > 0 THEN "handshake" ELSE "refusing"
  BY FreeIsSession DEF TypeOK, Session, Free, Page
<1>2. /\ session' = [session EXCEPT ![s] = r] /\ session[s].at = "free"
      /\ permits' = IF permits > 0 THEN permits - 1 ELSE permits
      /\ page' = [page EXCEPT ![c].conn = s]
  BY DEF Accept, SetSession
<1> HIDE DEF r
<1>3. session' \in [Slots -> Session] /\ page' \in [Clients -> Page]
  <2>1. page[c] \in Page
    BY DEF TypeOK
  <2>2. [page[c] EXCEPT !.conn = s] \in Page
    BY <2>1 DEF Page
  <2>3. page' = [page EXCEPT ![c] = [page[c] EXCEPT !.conn = s]]
    BY <1>2
  <2> QED BY <1>1, <1>2, <2>2, <2>3 DEF TypeOK
<1>4. \A u \in Slots : session'[u] = IF u = s THEN r ELSE session[u]
  BY <1>2 DEF TypeOK
<1>5. Owned'
  BY <1>1, <1>4 DEF Owned
<1>6. TypeOK'
  BY <1>0, <1>2, <1>3 DEF TypeOK, Accept
<1>7. PermitsBalance'
  <2>1. CASE permits > 0
    <3>1. Holding' = Holding \cup {s} /\ s \notin Holding
      BY <1>1, <1>2, <1>4, <2>1 DEF Holding
    <3>2. Cardinality(Holding') = Cardinality(Holding) + 1
      BY <1>0, <3>1, FS_AddElement
    <3> QED BY <1>0, <1>2, <2>1, <3>2 DEF PermitsBalance
  <2>2. CASE ~(permits > 0)
    <3>1. Holding' = Holding
      BY <1>1, <1>2, <1>4, <2>2 DEF Holding
    <3> QED BY <1>0, <1>2, <2>2, <3>1 DEF PermitsBalance
  <2> QED BY <2>1, <2>2
<1> QED BY <1>5, <1>6, <1>7

Working == {"handshake", "waiting", "greeting", "streaming"}

(* A task at work that goes on working disturbs neither.                   *)
LEMMA WorkKeeps ==
  ASSUME TypeOK, PermitsBalance, Owned, NEW s \in Slots, NEW r \in Session,
         session[s].at \in Working, r.at \in Working,
         r.client = session[s].client, SetSession(s, r), permits' = permits
  PROVE  session' \in [Slots -> Session] /\ PermitsBalance' /\ Owned'
<1>1. session' \in [Slots -> Session]
  BY DEF SetSession, TypeOK
<1>2. \A u \in Slots : session'[u] = IF u = s THEN r ELSE session[u]
  BY DEF SetSession, TypeOK
<1>3. Owned'
  BY <1>2 DEF Owned, Working
<1>4. Holding' = Holding
  BY <1>2 DEF Holding, Working
<1> QED BY <1>1, <1>3, <1>4 DEF PermitsBalance

(* So does what leaves the tasks where they stand.                         *)
LEMMA UndisturbedKeeps ==
  ASSUME PermitsBalance, Owned, permits' = permits,
         \A s \in Slots : /\ session'[s].at = session[s].at
                          /\ session'[s].client = session[s].client
                          /\ session[s].at = "free" => session'[s] = session[s]
  PROVE  PermitsBalance' /\ Owned'
<1>1. Holding' = Holding
  BY DEF Holding
<1>2. Owned'
  BY DEF Owned
<1> QED BY <1>1, <1>2 DEF PermitsBalance

(* Telling every task that a channel has changed disturbs neither.         *)
LEMMA ToldTyped ==
  ASSUME TypeOK, NEW g, g \in {FeedTold, WeatherTold}
  PROVE  /\ g \in [Slots -> Session]
         /\ \A s \in Slots : /\ g[s].at = session[s].at
                             /\ g[s].client = session[s].client
                             /\ g[s].since = session[s].since
                             /\ g[s].pending = session[s].pending
                             /\ session[s].at = "free" => g[s] = session[s]
<1>1. \A s \in Slots : session[s] \in Session
  BY DEF TypeOK
<1>2. CASE g = FeedTold
  BY <1>1, <1>2 DEF FeedTold, Session
<1>3. CASE g = WeatherTold
  BY <1>1, <1>3 DEF WeatherTold, Session
<1> QED BY <1>2, <1>3

LEMMA TellKeeps ==
  ASSUME TypeOK, PermitsBalance, Owned, permits' = permits,
         session' \in {FeedTold, WeatherTold}
  PROVE  session' \in [Slots -> Session] /\ PermitsBalance' /\ Owned'
BY ToldTyped, UndisturbedKeeps

(* Nor does what leaves the tasks and the permits alone.                   *)
LEMMA IdleKeeps ==
  ASSUME PermitsBalance, Owned, UNCHANGED <<session, permits>>
  PROVE  PermitsBalance' /\ Owned'
BY DEF PermitsBalance, Owned, Holding

(* What the worker does with a frame of the right type keeps the types.    *)
LEMMA TakeTyped ==
  ASSUME TypeOK, NEW c \in Clients, page[c].inbox # <<>>,
         Take(c, Head(page[c].inbox))
  PROVE  page' \in [Clients -> Page] /\ taken' \in [Clients -> SUBSET Times]
<1> DEFINE f == Head(page[c].inbox)
           p == [page[c] EXCEPT !.delivered = TRUE, !.inbox = Tail(@)]
<1>1. page[c] \in Page /\ page[c].inbox \in Seq(Frames)
  BY DEF TypeOK, Page
<1>2. f \in Frames /\ Tail(page[c].inbox) \in Seq(Frames)
  BY <1>1, HeadTailProperties
<1>3. p \in Page
  BY <1>1, <1>2 DEF Page
<1>4. CASE f.kind = "hello"
  <2>1. f.history \in SUBSET Times
    BY <1>2, <1>4 DEF Frames
  <2>2. Newest(f.history, p.lastNow) \in 0 .. MaxNow
    BY <1>3, <2>1, NewestIsGreatest DEF Page
  <2>3. [p EXCEPT !.lastNow = Newest(f.history, p.lastNow)] \in Page
    BY <1>3, <2>2 DEF Page
  <2> QED BY <1>4, <2>1, <2>3 DEF Take, TypeOK
<1>5. CASE f.kind = "weather"
  <2>1. f.report \in Reports
    BY <1>2, <1>5 DEF Frames
  <2>2. [p EXCEPT !.weather = f.report] \in Page
    BY <1>3, <2>1 DEF Page
  <2> QED BY <1>5, <2>2 DEF Take, TypeOK
<1>6. CASE f.kind = "snapshot"
  <2>1. f.now \in Times
    BY <1>2, <1>6 DEF Frames
  <2>0. f.now \in 0 .. MaxNow
    BY <2>1, TimeAssumption DEF Times
  <2>2. [p EXCEPT !.lastNow = f.now] \in Page
    BY <1>3, <2>0 DEF Page
  <2> QED BY <1>3, <1>6, <2>1, <2>2 DEF Take, TypeOK
<1> QED BY <1>4, <1>5, <1>6 DEF Take

Sound == TypeOK /\ PermitsBalance /\ Owned

LEMMA PageKeeps ==
  ASSUME TypeOK, NEW c \in Clients, NEW q \in Page, page' = [page EXCEPT ![c] = q]
  PROVE  page' \in [Clients -> Page]
BY DEF TypeOK

(* One step of the server as a whole keeps them.                           *)
LEMMA ServerSound ==
  ASSUME Sound,
         \/ \E t \in Times : Publish(t)
         \/ \E w \in Reports : TellWeather(w)
         \/ RenewEndpoint \/ RenewHash \/ Restart
  PROVE  Sound'
<1> USE DEF Sound
<1> USE BoundAssumption, TimeAssumption
<1>1. ASSUME NEW t \in Times, Publish(t) PROVE Sound'
  <2>1. session' \in [Slots -> Session] /\ PermitsBalance' /\ Owned'
    BY <1>1, TellKeeps DEF Publish
  <2>2. Record(kept, t) \in SUBSET Times
    BY DEF Record, TypeOK
  <2>3. skipped' \in [Clients -> SUBSET Times]
    BY <1>1 DEF Publish, TypeOK, Times
  <2>4. used' \in [stepsBack : 0 .. MaxStepsBack, restarts : 0 .. MaxRestarts,
                   late : 0 .. MaxLate]
    BY <1>1 DEF Publish, TypeOK
  <2>5. now' \in 0 .. MaxNow /\ latest' \in 0 .. MaxNow
    BY <1>1 DEF Publish, Times
  <2> QED BY <1>1, <2>1, <2>2, <2>3, <2>4, <2>5 DEF Publish, TypeOK
<1>2. ASSUME NEW w \in Reports, TellWeather(w) PROVE Sound'
  <2>1. session' \in [Slots -> Session] /\ PermitsBalance' /\ Owned'
    BY <1>2, TellKeeps DEF TellWeather
  <2> QED BY <1>2, <2>1 DEF TellWeather, TypeOK
<1>3. CASE RenewEndpoint
  <2>1. PermitsBalance' /\ Owned'
    BY <1>3, IdleKeeps DEF RenewEndpoint
  <2> QED BY <1>3, <2>1 DEF RenewEndpoint, TypeOK
<1>4. CASE RenewHash
  <2>1. PermitsBalance' /\ Owned'
    BY <1>4, IdleKeeps DEF RenewHash
  <2> QED BY <1>4, <2>1 DEF RenewHash, TypeOK
<1>5. CASE Restart
  <2>1. session' \in [Slots -> Session] /\ \A s \in Slots : session'[s] = Free
    BY <1>5, FreeIsSession DEF Restart
  <2>2. Owned'
    BY <2>1 DEF Owned, Free
  <2>3. Holding' = {}
    BY <2>1 DEF Holding, Free
  <2>4. PermitsBalance'
    BY <1>5, <2>3, FS_EmptySet, LimitAssumption DEF PermitsBalance, Restart
  <2> QED BY <1>5, <2>1, <2>2, <2>4, ReportAssumption, LimitAssumption
          DEF Restart, TypeOK
<1> QED BY <1>1, <1>2, <1>3, <1>4, <1>5

(* So does one of a session task with its page.                            *)
LEMMA ServeSound ==
  ASSUME Sound, NEW c \in Clients, NEW s \in Slots, Serve(c, s)
  PROVE  Sound'
<1> USE DEF Sound
<1>0. page[c] \in Page /\ session[s] \in Session
  BY DEF TypeOK
<1>1. CASE Accept(c, s)
  BY <1>1, AcceptKeeps
<1>2. CASE TurnAway(c, s)
  <2>1. page' \in [Clients -> Page]
    BY <1>0, <1>2, EndedIsPage, PageKeeps DEF TurnAway, EndRun
  <2>2. session[s].at # "free" /\ EndTask(s)
    BY <1>2 DEF TurnAway
  <2> QED BY <1>2, <2>1, <2>2, EndTaskKeeps DEF TurnAway, TypeOK
<1>3. CASE Admit(c, s)
  <2> DEFINE r == [session[s] EXCEPT !.at = "waiting"]
  <2>1. r \in Session /\ r.at = "waiting" /\ r.client = session[s].client
    BY <1>0 DEF Session
  <2>2. SetSession(s, r) /\ session[s].at = "handshake" /\ permits' = permits
    BY <1>3 DEF Admit, server
  <2> HIDE DEF r
  <2>3. session' \in [Slots -> Session] /\ PermitsBalance' /\ Owned'
    BY <2>1, <2>2, WorkKeeps DEF Working
  <2>4. [page[c] EXCEPT !.at = "reading"] \in Page
    BY <1>0 DEF Page
  <2>5. page' \in [Clients -> Page]
    BY <1>3, <2>4, PageKeeps DEF Admit
  <2> QED BY <1>3, <2>3, <2>5 DEF Admit, TypeOK, server
<1>4. CASE Write(c, s)
  <2> DEFINE r == [session[s] EXCEPT !.pending = Tail(@)]
             q == [page[c] EXCEPT !.inbox = Append(@, Head(session[s].pending))]
  <2>1. session[s].pending \in Seq(Frames) /\ session[s].pending # <<>>
    BY <1>0, <1>4 DEF Write, Session
  <2>2. Tail(session[s].pending) \in Seq(Frames) /\ Head(session[s].pending) \in Frames
    BY <2>1, HeadTailProperties
  <2>3. r \in Session /\ r.at = session[s].at /\ r.client = session[s].client
    BY <1>0, <2>2 DEF Session
  <2>4. page[c].inbox \in Seq(Frames)
    BY <1>0 DEF Page
  <2>5. Append(page[c].inbox, Head(session[s].pending)) \in Seq(Frames)
    BY <2>2, <2>4, AppendProperties
  <2>6. q \in Page
    BY <1>0, <2>5 DEF Page
  <2>7. SetSession(s, r) /\ permits' = permits /\ page' = [page EXCEPT ![c] = q]
    BY <1>4 DEF Write, server
  <2> HIDE DEF r, q
  <2>8. \A u \in Slots : session'[u] = IF u = s THEN r ELSE session[u]
    BY <2>7 DEF SetSession, TypeOK
  <2>9. session' \in [Slots -> Session] /\ page' \in [Clients -> Page]
    BY <2>3, <2>6, <2>7 DEF SetSession, TypeOK
  <2>10. Linked(s, c) /\ c # None
    BY <1>4, SlotsAssumption DEF Write
  <2>11. session[s].at # "free"
    BY <2>10 DEF Linked, Owned, Free
  <2>12. PermitsBalance' /\ Owned'
    BY <2>3, <2>7, <2>8, <2>11, UndisturbedKeeps
  <2> QED BY <1>4, <2>9, <2>12 DEF Write, TypeOK, server
<1> QED BY <1>1, <1>2, <1>3, <1>4 DEF Serve

(* And one of a session task alone.                                        *)
LEMMA RunSound ==
  ASSUME Sound, NEW s \in Slots, Run(s)
  PROVE  Sound'
<1> USE DEF Sound
<1>0. session[s] \in Session /\ session[s].since \in 0 .. MaxNow
  BY DEF TypeOK, Session
<1>1. CASE Gone(s)
  BY <1>1, EndTaskKeeps DEF Gone, TypeOK
<1>2. ASSUME NEW q \in Seq(Frames), NEW r,
             r = [session[s] EXCEPT !.at = "greeting", !.feedChanged = FALSE,
                                    !.pending = q]
               \/ r = [session[s] EXCEPT !.at = "streaming",
                         !.weatherChanged = FALSE, !.pending = q]
               \/ r = [session[s] EXCEPT !.feedChanged = FALSE, !.pending = q]
               \/ r = [session[s] EXCEPT !.weatherChanged = FALSE, !.pending = q],
             session[s].at \in Working, SetSession(s, r),
             UNCHANGED <<server, page, published, taken, skipped, used>>
      PROVE  Sound'
  <2>1. r \in Session /\ r.at \in Working /\ r.client = session[s].client
    BY <1>0, <1>2 DEF Session, Working
  <2>2. permits' = permits
    BY <1>2 DEF server
  <2>3. session' \in [Slots -> Session] /\ PermitsBalance' /\ Owned'
    BY <1>2, <2>1, <2>2, WorkKeeps
  <2> QED BY <1>2, <2>3 DEF TypeOK, server
<1>3. CASE Greet(s)
  <2>1. Greeting(session[s].since) \in Seq(Frames)
    BY <1>0, <1>3, FramesOfServer DEF Greet
  <2> QED BY <1>2, <1>3, <2>1 DEF Greet, Working
<1>4. CASE GreetWeather(s)
  BY <1>0, <1>2, <1>4, FramesOfServer DEF GreetWeather, Working
<1>5. CASE TakeFeed(s)
  <2> DEFINE q == IF latest = 0 THEN <<>> ELSE <<Snapshot(latest)>>
  <2>1. q \in Seq(Frames)
    BY <1>0, FramesOfServer, EmptySeq
  <2> QED BY <1>2, <1>5, <2>1 DEF TakeFeed, Working
<1>6. CASE TakeWeather(s)
  <2> DEFINE q == IF weather = NoReport THEN <<>> ELSE <<Weather(weather)>>
  <2>1. q \in Seq(Frames)
    BY <1>0, FramesOfServer, EmptySeq DEF WeatherNow
  <2> QED BY <1>2, <1>6, <2>1 DEF TakeWeather, Working
<1> QED BY <1>1, <1>3, <1>4, <1>5, <1>6 DEF Run

(* And one of a page.                                                      *)
LEMMA PageSound ==
  ASSUME Sound, NEW c \in Clients, Follow(c) \/ Stop(c)
  PROVE  Sound'
<1> USE DEF Sound
<1>0. page[c] \in Page
  BY DEF TypeOK
<1>1. CASE Info(c)
  <2> DEFINE q == [page[c] EXCEPT !.at = "connecting", !.hash = hash, !.open = TRUE]
  <2>1. q \in Page
    BY <1>0 DEF Page, TypeOK
  <2>2. page' = [page EXCEPT ![c] = q]
    BY <1>0, <1>1 DEF Info, Page, TypeOK
  <2> HIDE DEF q
  <2>3. page' \in [Clients -> Page]
    BY <2>1, <2>2, PageKeeps
  <2> QED BY <1>1, <2>3, IdleKeeps DEF Info, TypeOK, server
<1>2. CASE Read(c)
  <2>1. CASE page[c].stopped
    <3>1. page' \in [Clients -> Page]
      BY <1>0, <1>2, <2>1, EndedIsPage, PageKeeps DEF Read, EndRun
    <3> QED BY <1>2, <2>1, <3>1, IdleKeeps DEF Read, TypeOK, server
  <2>2. CASE ~page[c].stopped
    <3>1. page' \in [Clients -> Page] /\ taken' \in [Clients -> SUBSET Times]
      BY <1>2, <2>2, TakeTyped DEF Read
    <3> QED BY <1>2, <3>1, IdleKeeps DEF Read, TypeOK, server
  <2> QED BY <2>1, <2>2
<1>3. CASE Down(c)
  <2>1. page' \in [Clients -> Page]
    BY <1>0, <1>3, EndedIsPage, PageKeeps DEF Down, EndRun
  <2>2. used' \in [stepsBack : 0 .. MaxStepsBack, restarts : 0 .. MaxRestarts,
                   late : 0 .. MaxLate]
    BY <1>3, BoundAssumption DEF Down, TypeOK
  <2>3. PermitsBalance' /\ Owned'
    BY <1>3, IdleKeeps DEF Down, server
  <2> QED BY <1>3, <2>1, <2>2, <2>3 DEF Down, TypeOK, server
<1>4. CASE Wake(c)
  <2> DEFINE a == IF page[c].stopped THEN "over" ELSE "info"
  <2>1. [page[c] EXCEPT !.at = a] \in Page
    BY <1>0 DEF Page
  <2>2. page' \in [Clients -> Page]
    BY <1>4, <2>1, PageKeeps DEF Wake
  <2> QED BY <1>4, <2>2, IdleKeeps DEF Wake, TypeOK, server
<1>5. CASE Stop(c)
  <2> DEFINE q == [page[c] EXCEPT !.stopped = TRUE, !.open = FALSE,
                                  !.conn = None, !.inbox = <<>>]
  <2>1. q \in Page
    BY <1>0, EmptySeq DEF Page
  <2>2. page' = [page EXCEPT ![c] = q]
    BY <1>5 DEF Stop
  <2> HIDE DEF q
  <2>3. page' \in [Clients -> Page]
    BY <2>1, <2>2, PageKeeps
  <2> QED BY <1>5, <2>3, IdleKeeps DEF Stop, TypeOK, server
<1> QED BY <1>1, <1>2, <1>3, <1>4, <1>5 DEF Follow

(* Every state is well typed, and however sessions end, the permits left   *)
(* and the tasks that hold one make up MAX_SESSIONS (transport.rs:99-123). *)
THEOREM Soundness == Spec => [](TypeOK /\ PermitsBalance)
<1>1. Init => Sound
  <2> SUFFICES ASSUME Init PROVE Sound
    OBVIOUS
  <2>1. Owned /\ Holding = {} /\ permits = MaxSessions
    BY DEF Init, Owned, Holding, Free
  <2> QED BY <2>1, InitTyped, FS_EmptySet, LimitAssumption DEF Sound, PermitsBalance
<1>2. Sound /\ [Next]_vars => Sound'
  <2> SUFFICES ASSUME Sound, [Next]_vars PROVE Sound'
    OBVIOUS
  <2>1. CASE UNCHANGED vars
    BY <2>1 DEF Sound, TypeOK, PermitsBalance, Holding, Owned, vars, server
  <2>2. CASE Next
    BY <2>2, ServerSound, ServeSound, RunSound, PageSound DEF Next
  <2> QED BY <2>1, <2>2
<1>3. Sound => TypeOK /\ PermitsBalance
  BY DEF Sound
<1> QED BY <1>1, <1>2, <1>3, PTL DEF Spec

-----------------------------------------------------------------------------
(* The promise.                                                            *)

(* What travels from a task to its page was published.                     *)
FromPublished(f) ==
  /\ f.kind = "hello" => f.history \subseteq published
  /\ f.kind = "snapshot" => f.now \in published
AllPublished ==
  /\ kept \subseteq published /\ latest \in published \cup {0}
  /\ \A s \in Slots : \A i \in 1 .. Len(session[s].pending) :
       FromPublished(session[s].pending[i])
  /\ \A c \in Clients : \A i \in 1 .. Len(page[c].inbox) :
       FromPublished(page[c].inbox[i])

(* The only hello of a session is the first frame its task writes, and     *)
(* what it resumes after is what the page had last taken: until the page   *)
(* reads its first frame, nothing moves that on.                           *)
Opening(s) ==
  LET q == session[s].pending IN
  /\ session[s].at \in {"refusing", "handshake", "waiting"} => q = <<>>
  /\ \A i \in 1 .. Len(q) :
       q[i].kind = "hello" =>
         /\ session[s].at = "greeting" /\ i = 1
         /\ \A k \in q[i].history : k > session[s].since
Unread(s, c) ==
  (/\ Linked(s, c)
   /\ \/ session[s].at \in {"refusing", "handshake", "waiting"}
      \/ session[s].pending # <<>> /\ session[s].pending[1].kind = "hello")
  => /\ page[c].inbox = <<>> /\ ~page[c].delivered
     /\ session[s].since = page[c].lastNow
Attached(s, c) ==
  Linked(s, c) => page[c].at = IF session[s].at \in {"refusing", "handshake"}
                               THEN "connecting" ELSE "reading"
Reading(c) ==
  /\ page[c].at # "reading" => page[c].inbox = <<>> /\ ~page[c].delivered
  /\ \A i \in 1 .. Len(page[c].inbox) :
       page[c].inbox[i].kind = "hello" =>
         /\ i = 1 /\ ~page[c].delivered
         /\ \A k \in page[c].inbox[i].history : k > page[c].lastNow
  /\ \A t \in taken[c] : t <= page[c].lastNow
Pipeline ==
  /\ \A s \in Slots : Opening(s)
  /\ \A c \in Clients : Reading(c)
  /\ \A s \in Slots, c \in Clients : Unread(s, c) /\ Attached(s, c)

Inductive == Sound /\ AllPublished /\ Pipeline

LEMMA InitInductive == Init => Inductive
<1> SUFFICES ASSUME Init PROVE Inductive
  OBVIOUS
<1>1. Owned /\ Holding = {} /\ permits = MaxSessions
  BY DEF Init, Owned, Holding, Free
<1>2. Sound
  BY <1>1, InitTyped, FS_EmptySet, LimitAssumption DEF Sound, PermitsBalance
<1>3. AllPublished
  BY DEF Init, AllPublished, Free, Fresh
<1>4. Pipeline
  BY SlotsAssumption DEF Init, Pipeline, Opening, Reading, Unread, Attached,
     Linked, Free, Fresh
<1> QED BY <1>2, <1>3, <1>4 DEF Inductive

(* Steps that only tell the tasks of a change, publish or renew.           *)
LEMMA ToldPipeline ==
  ASSUME Inductive, session' \in {session, FeedTold, WeatherTold},
         published \subseteq published', kept' \subseteq published',
         latest' \in published' \cup {0}, UNCHANGED <<page, taken>>
  PROVE  AllPublished' /\ Pipeline'
<1>1. \A s \in Slots : /\ session'[s].at = session[s].at
                        /\ session'[s].client = session[s].client
                        /\ session'[s].since = session[s].since
                        /\ session'[s].pending = session[s].pending
  BY ToldTyped DEF Inductive, Sound
<1>2. AllPublished'
  BY <1>1 DEF Inductive, AllPublished, FromPublished
<1>3. \A s \in Slots : Opening(s)'
  BY <1>1 DEF Inductive, Pipeline, Opening
<1>4. \A c \in Clients : Reading(c)'
  BY DEF Inductive, Pipeline, Reading
<1>5. \A s \in Slots, c \in Clients : Unread(s, c)' /\ Attached(s, c)'
  BY <1>1 DEF Inductive, Pipeline, Unread, Attached, Linked
<1> QED BY <1>2, <1>3, <1>4, <1>5 DEF Pipeline

LEMMA ServerPipeline ==
  ASSUME Inductive,
         \/ \E t \in Times : Publish(t)
         \/ \E w \in Reports : TellWeather(w)
         \/ RenewEndpoint \/ RenewHash \/ Restart
  PROVE  AllPublished' /\ Pipeline'
<1>1. ASSUME NEW t \in Times, Publish(t) PROVE AllPublished' /\ Pipeline'
  <2>1. kept' \subseteq published'
    BY <1>1 DEF Publish, Record, Inductive, AllPublished
  <2>2. /\ session' \in {session, FeedTold, WeatherTold}
        /\ published \subseteq published' /\ latest' \in published' \cup {0}
        /\ UNCHANGED <<page, taken>>
    BY <1>1 DEF Publish
  <2> QED BY <2>1, <2>2, ToldPipeline
<1>2. CASE \E w \in Reports : TellWeather(w)
  BY <1>2, ToldPipeline DEF TellWeather, Inductive, AllPublished
<1>3. CASE RenewEndpoint \/ RenewHash
  BY <1>3, ToldPipeline DEF RenewEndpoint, RenewHash, Inductive, AllPublished
<1>4. CASE Restart
  <2>1. \A s \in Slots : session'[s] = Free
    BY <1>4 DEF Restart
  <2>2. AllPublished'
    BY <1>4, <2>1 DEF Restart, Inductive, AllPublished, FromPublished, Free
  <2>3. Pipeline'
    BY <1>4, <2>1, SlotsAssumption DEF Restart, Inductive, Pipeline, Opening,
       Reading, Unread, Attached, Linked, Free
  <2> QED BY <2>2, <2>3
<1> QED BY <1>1, <1>2, <1>3, <1>4

(* A task that takes up frames of which none is a hello.                   *)
LEMMA TaskPipeline ==
  ASSUME Inductive, NEW s \in Slots, NEW r, SetSession(s, r),
         session[s].at \in {"greeting", "streaming"},
         r.at \in {"greeting", "streaming"}, r.client = session[s].client,
         \A i \in 1 .. Len(r.pending) :
           r.pending[i].kind # "hello" /\ FromPublished(r.pending[i]),
         r.pending \in Seq(Frames),
         UNCHANGED <<server, page, published, taken>>
  PROVE  AllPublished' /\ Pipeline'
<1>1. \A u \in Slots : session'[u] = IF u = s THEN r ELSE session[u]
  BY DEF SetSession, Inductive, Sound, TypeOK
<1>2. AllPublished'
  BY <1>1 DEF Inductive, AllPublished, FromPublished, server
<1>3. \A u \in Slots : Opening(u)'
  BY <1>1 DEF Inductive, Pipeline, Opening
<1>4. \A c \in Clients : Reading(c)'
  BY DEF Inductive, Pipeline, Reading
<1>5. r.pending # <<>> => r.pending[1].kind # "hello"
  BY EmptySeq, LenProperties
<1>6. \A u \in Slots, c \in Clients : Unread(u, c)' /\ Attached(u, c)'
  BY <1>1, <1>5 DEF Inductive, Pipeline, Unread, Attached, Linked
<1> QED BY <1>2, <1>3, <1>4, <1>6 DEF Pipeline

(* A page that leaves its session behind, and a task that ends or goes on. *)
LEMMA LeavePipeline ==
  ASSUME Inductive, NEW c \in Clients, NEW q,
         page' = [page EXCEPT ![c] = q], q.conn = None, q.inbox = <<>>,
         q.lastNow = page[c].lastNow,
         q.at # "reading" => ~q.delivered,
         \A s \in Slots : session'[s] = session[s] \/ session'[s] = Free,
         UNCHANGED <<kept, latest, published, taken>>
  PROVE  AllPublished' /\ Pipeline'
<1>1. \A d \in Clients : page'[d] = IF d = c THEN q ELSE page[d]
  BY DEF Inductive, Sound, TypeOK
<1>2. AllPublished'
  BY <1>1 DEF Inductive, AllPublished, FromPublished, Free
<1>3. \A s \in Slots : Opening(s)'
  BY DEF Inductive, Pipeline, Opening, Free
<1>4. \A d \in Clients : Reading(d)'
  BY <1>1 DEF Inductive, Pipeline, Reading
<1>5. ASSUME NEW s \in Slots, NEW d \in Clients
      PROVE  Unread(s, d)' /\ Attached(s, d)'
  <2>1. Linked(s, d)' => d # c /\ session'[s] = session[s] /\ page'[d] = page[d]
    BY <1>1, SlotsAssumption DEF Linked, Free
  <2>2. Unread(s, d) /\ Attached(s, d)
    BY DEF Inductive, Pipeline
  <2> QED BY <2>1, <2>2 DEF Unread, Attached, Linked
<1> QED BY <1>2, <1>3, <1>4, <1>5 DEF Pipeline

LEMMA ServePipeline ==
  ASSUME Inductive, NEW c \in Clients, NEW s \in Slots, Serve(c, s)
  PROVE  AllPublished' /\ Pipeline'
<1>0. /\ page[c] \in Page /\ session[s] \in Session
      /\ session \in [Slots -> Session] /\ page \in [Clients -> Page]
  BY DEF Inductive, Sound, TypeOK
<1>1. CASE Accept(c, s)
  <2> DEFINE r == [Free EXCEPT !.client = c, !.since = page[c].lastNow,
                     !.at = IF permits > 0 THEN "handshake" ELSE "refusing"]
  <2>1. /\ r.client = c /\ r.since = page[c].lastNow /\ r.pending = <<>>
        /\ r.at \in {"handshake", "refusing"}
    BY DEF Free
  <2>2. \A u \in Slots : session'[u] = IF u = s THEN r ELSE session[u]
    BY <1>0, <1>1 DEF Accept, SetSession
  <2> HIDE DEF r
  <2>3. \A d \in Clients :
           page'[d] = IF d = c THEN [page[c] EXCEPT !.conn = s] ELSE page[d]
    BY <1>0, <1>1 DEF Accept
  <2>4. \A d \in Clients : /\ page'[d].at = page[d].at
                           /\ page'[d].inbox = page[d].inbox
                           /\ page'[d].delivered = page[d].delivered
                           /\ page'[d].lastNow = page[d].lastNow
                           /\ d # c => page'[d].conn = page[d].conn
    BY <1>0, <2>3 DEF Page
  <2>5. page'[c].conn = s /\ page[c].at = "connecting"
    BY <1>0, <1>1, <2>3 DEF Accept, Page
  <2>6. UNCHANGED <<kept, latest, published, taken>>
    BY <1>1 DEF Accept
  <2>7. AllPublished'
    BY <2>1, <2>2, <2>4, <2>6 DEF Inductive, AllPublished, FromPublished
  <2>8. \A u \in Slots : Opening(u)'
    BY <2>1, <2>2 DEF Inductive, Pipeline, Opening
  <2>9. \A d \in Clients : Reading(d)'
    BY <2>4, <2>6 DEF Inductive, Pipeline, Reading
  <2>10. page[c].inbox = <<>> /\ ~page[c].delivered
    BY <2>5 DEF Inductive, Pipeline, Reading
  <2>11. \A u \in Slots, d \in Clients : Unread(u, d)' /\ Attached(u, d)'
    BY <2>1, <2>2, <2>4, <2>5, <2>10
       DEF Inductive, Pipeline, Unread, Attached, Linked
  <2> QED BY <2>7, <2>8, <2>9, <2>11 DEF Pipeline
<1>2. CASE TurnAway(c, s)
  <2>1. Attached(s, c) /\ Reading(c) /\ page[c].at = "connecting"
    BY <1>2 DEF TurnAway, Inductive, Pipeline, Attached
  <2>2. /\ Ended(page[c]).conn = None /\ Ended(page[c]).inbox = <<>>
        /\ Ended(page[c]).lastNow = page[c].lastNow /\ ~Ended(page[c]).delivered
    BY <1>0 DEF Ended, Page
  <2>3. \A u \in Slots : session'[u] = session[u] \/ session'[u] = Free
    BY <1>0, <1>2 DEF TurnAway, EndTask, SetSession
  <2> QED BY <1>2, <2>2, <2>3, LeavePipeline DEF TurnAway, EndRun
<1>3. CASE Admit(c, s)
  <2>1. \A u \in Slots :
           session'[u] = IF u = s THEN [session[s] EXCEPT !.at = "waiting"]
                         ELSE session[u]
    BY <1>0, <1>3 DEF Admit, SetSession
  <2>2. \A u \in Slots : /\ session'[u].client = session[u].client
                         /\ session'[u].pending = session[u].pending
                         /\ session'[u].since = session[u].since
                         /\ u # s => session'[u].at = session[u].at
    BY <1>0, <2>1 DEF Session
  <2>3. /\ session'[s].at = "waiting" /\ session[s].at = "handshake"
        /\ Linked(s, c)
    BY <1>0, <1>3, <2>1 DEF Admit, Session
  <2>4. \A d \in Clients :
           page'[d] = IF d = c THEN [page[c] EXCEPT !.at = "reading"] ELSE page[d]
    BY <1>0, <1>3 DEF Admit
  <2>5. \A d \in Clients : /\ page'[d].conn = page[d].conn
                           /\ page'[d].inbox = page[d].inbox
                           /\ page'[d].delivered = page[d].delivered
                           /\ page'[d].lastNow = page[d].lastNow
                           /\ d # c => page'[d].at = page[d].at
    BY <1>0, <2>4 DEF Page
  <2>6. page'[c].at = "reading"
    BY <1>0, <2>4 DEF Page
  <2>7. UNCHANGED <<kept, latest, published, taken>>
    BY <1>3 DEF Admit, server
  <2>8. AllPublished'
    BY <2>2, <2>5, <2>7 DEF Inductive, AllPublished, FromPublished
  <2>9. \A u \in Slots : Opening(u)'
    BY <2>2, <2>3 DEF Inductive, Pipeline, Opening
  <2>10. \A d \in Clients : Reading(d)'
    BY <2>5, <2>6, <2>7 DEF Inductive, Pipeline, Reading
  <2>11. \A u \in Slots, d \in Clients : Unread(u, d)' /\ Attached(u, d)'
    BY <2>2, <2>3, <2>5, <2>6
       DEF Inductive, Pipeline, Unread, Attached, Linked
  <2> QED BY <2>8, <2>9, <2>10, <2>11 DEF Pipeline
<1>4. CASE Write(c, s)
  <2> DEFINE q == session[s].pending
             b == page[c].inbox
  <2>0. /\ q \in Seq(Frames) /\ q # <<>> /\ b \in Seq(Frames) /\ Linked(s, c)
        /\ Len(q) \in Nat /\ Len(q) > 0 /\ Len(b) \in Nat
    BY <1>0, <1>4, LenProperties, EmptySeq DEF Write, Session, Page
  <2>1. /\ Tail(q) \in Seq(Frames) /\ Len(Tail(q)) = Len(q) - 1
        /\ \A i \in 1 .. Len(Tail(q)) : Tail(q)[i] = q[i + 1]
        /\ Head(q) = q[1] /\ Head(q) \in Frames
    BY <2>0, HeadTailProperties
  <2>2. /\ Append(b, q[1]) \in Seq(Frames) /\ Len(Append(b, q[1])) = Len(b) + 1
        /\ \A i \in 1 .. Len(b) : Append(b, q[1])[i] = b[i]
        /\ Append(b, q[1])[Len(b) + 1] = q[1]
    BY <2>0, <2>1, AppendProperties
  <2>3. \A u \in Slots :
           session'[u] = IF u = s THEN [session[s] EXCEPT !.pending = Tail(q)]
                         ELSE session[u]
    BY <1>0, <1>4 DEF Write, SetSession
  <2>4. \A u \in Slots : /\ session'[u].client = session[u].client
                         /\ session'[u].at = session[u].at
                         /\ session'[u].since = session[u].since
                         /\ u # s => session'[u].pending = session[u].pending
    BY <1>0, <2>3 DEF Session
  <2>5. session'[s].pending = Tail(q)
    BY <1>0, <2>3 DEF Session
  <2>6. \A d \in Clients :
           page'[d] = IF d = c THEN [page[c] EXCEPT !.inbox = Append(b, Head(q))]
                      ELSE page[d]
    BY <1>0, <1>4 DEF Write
  <2>7. \A d \in Clients : /\ page'[d].conn = page[d].conn
                           /\ page'[d].at = page[d].at
                           /\ page'[d].delivered = page[d].delivered
                           /\ page'[d].lastNow = page[d].lastNow
                           /\ d # c => page'[d].inbox = page[d].inbox
    BY <1>0, <2>6 DEF Page
  <2>8. page'[c].inbox = Append(b, q[1])
    BY <1>0, <2>1, <2>6 DEF Page
  <2>9. UNCHANGED <<kept, latest, published, taken>>
    BY <1>4 DEF Write, server
  <2>10. Opening(s) /\ Unread(s, c) /\ Attached(s, c) /\ Reading(c)
    BY DEF Inductive, Pipeline
  <2>11. /\ \A i \in 1 .. Len(q) : FromPublished(q[i])
         /\ \A i \in 1 .. Len(b) : FromPublished(b[i])
    BY DEF Inductive, AllPublished
  <2>12. session[s].at \notin {"refusing", "handshake", "waiting"}
         /\ page[c].at = "reading"
    BY <2>0, <2>10 DEF Opening, Attached
  <2>13. /\ \A i \in 1 .. Len(Tail(q)) :
              FromPublished(Tail(q)[i]) /\ Tail(q)[i].kind # "hello"
         /\ Tail(q) # <<>> => Tail(q)[1].kind # "hello"
    <3>1. \A i \in 1 .. Len(Tail(q)) : i + 1 \in 1 .. Len(q) /\ i + 1 # 1
      BY <2>0, <2>1
    <3>2. \A i \in 1 .. Len(Tail(q)) :
              FromPublished(Tail(q)[i]) /\ Tail(q)[i].kind # "hello"
      BY <2>1, <2>10, <2>11, <3>1 DEF Opening
    <3>3. Tail(q) # <<>> => 1 \in 1 .. Len(Tail(q))
      BY <2>0, <2>1, EmptySeq, LenProperties
    <3> QED BY <3>2, <3>3
  <2>14. FromPublished(q[1]) /\ (q[1].kind = "hello" =>
           /\ Len(b) = 0 /\ ~page[c].delivered
           /\ \A k \in q[1].history : k > page[c].lastNow)
    <3>1. 1 \in 1 .. Len(q)
      BY <2>0
    <3>2. q[1].kind = "hello" => b = <<>> /\ ~page[c].delivered
                                 /\ session[s].since = page[c].lastNow
      BY <2>0, <2>10 DEF Unread
    <3> QED BY <2>10, <2>11, <3>1, <3>2 DEF Opening
  <2> HIDE DEF q, b
  <2>15. AllPublished'
    <3>1. \A i \in 1 .. Len(Append(b, q[1])) : FromPublished(Append(b, q[1])[i])
      BY <2>0, <2>2, <2>11, <2>14
    <3>2. \A u \in Slots : \A i \in 1 .. Len(session'[u].pending) :
            FromPublished(session'[u].pending[i])
      <4>1. ASSUME NEW u \in Slots
            PROVE  \A i \in 1 .. Len(session'[u].pending) :
                     FromPublished(session'[u].pending[i])
        <5>1. CASE u = s
          BY <2>5, <2>13, <5>1
        <5>2. CASE u # s
          BY <2>4, <5>2 DEF Inductive, AllPublished
        <5> QED BY <5>1, <5>2
      <4> QED BY <4>1
    <3>3. \A d \in Clients : \A i \in 1 .. Len(page'[d].inbox) :
            FromPublished(page'[d].inbox[i])
      <4>1. ASSUME NEW d \in Clients
            PROVE  \A i \in 1 .. Len(page'[d].inbox) :
                     FromPublished(page'[d].inbox[i])
        <5>1. CASE d = c
          BY <2>8, <3>1, <5>1
        <5>2. CASE d # c
          BY <2>7, <5>2 DEF Inductive, AllPublished
        <5> QED BY <5>1, <5>2
      <4> QED BY <4>1
    <3> QED BY <2>9, <3>2, <3>3 DEF Inductive, AllPublished, FromPublished
  <2>16. ASSUME NEW u \in Slots PROVE Opening(u)'
    <3>1. CASE u = s
      BY <2>4, <2>5, <2>12, <2>13, <3>1 DEF Opening
    <3>2. CASE u # s
      <4>1. Opening(u)
        BY DEF Inductive, Pipeline
      <4> QED BY <2>4, <3>2, <4>1 DEF Opening
    <3> QED BY <3>1, <3>2
  <2>17. Reading(c)'
    <3>1. \A i \in 1 .. Len(Append(b, q[1])) :
            Append(b, q[1])[i].kind = "hello" =>
              /\ i = 1 /\ ~page[c].delivered
              /\ \A k \in Append(b, q[1])[i].history : k > page[c].lastNow
      BY <2>0, <2>2, <2>10, <2>14 DEF Reading, b
    <3> QED BY <2>7, <2>8, <2>9, <2>10, <2>12, <3>1 DEF Reading
  <2>18. \A d \in Clients : Reading(d)'
    BY <2>7, <2>9, <2>17 DEF Inductive, Pipeline, Reading
  <2>19. ASSUME NEW u \in Slots, NEW d \in Clients
         PROVE  Unread(u, d)' /\ Attached(u, d)'
    <3>0. Unread(u, d) /\ Attached(u, d)
      BY DEF Inductive, Pipeline
    <3>1. Linked(u, d)' <=> Linked(u, d)
      BY <2>4, <2>7 DEF Linked
    <3>2. Attached(u, d)'
      BY <2>4, <2>7, <3>0, <3>1 DEF Attached
    <3>3. u = s => Unread(u, d)'
      BY <2>4, <2>5, <2>12, <2>13 DEF Unread
    <3>4. ASSUME u # s PROVE Unread(u, d)'
      <4>1. Linked(u, d) => d # c
        BY <2>0, <3>4 DEF Linked
      <4> QED BY <2>4, <2>7, <3>0, <3>1, <3>4, <4>1 DEF Unread
    <3> QED BY <3>2, <3>3, <3>4
  <2> QED BY <2>15, <2>16, <2>18, <2>19 DEF Pipeline
<1> QED BY <1>1, <1>2, <1>3, <1>4 DEF Serve

(* What a task that streams takes up: nothing, the latest snapshot if any, *)
(* or the weather.                                                         *)
OfServer(q) ==
  \/ q = <<>>
  \/ q = <<Snapshot(latest)>> /\ latest # 0
  \/ q = <<Weather(weather)>>

(* A task alone: it takes up what is to be written, or ends.               *)
LEMMA RunPipeline ==
  ASSUME Inductive, NEW s \in Slots, Run(s)
  PROVE  AllPublished' /\ Pipeline'
<1>0. /\ session[s] \in Session /\ session \in [Slots -> Session]
      /\ latest \in 0 .. MaxNow /\ kept \in SUBSET Times
      /\ session[s].since \in 0 .. MaxNow
  BY DEF Inductive, Sound, TypeOK, Session
<1>1. CASE Greet(s)
  <2> DEFINE q == Greeting(session[s].since)
             r == [session[s] EXCEPT !.at = "greeting", !.feedChanged = FALSE,
                                     !.pending = q]
  <2>1. /\ Len(q) = 2 /\ q # <<>>
        /\ q[1] = Hello(Backfill(kept, session[s].since, latest))
        /\ q[2] = Snapshot(latest)
    BY DEF Greeting
  <2>2. /\ q[1].kind = "hello" /\ q[2].kind # "hello"
        /\ \A k \in q[1].history : k > session[s].since
        /\ FromPublished(q[1]) /\ FromPublished(q[2])
    <3>1. /\ q[1].kind = "hello" /\ q[2].kind = "snapshot" /\ q[2].now = latest
          /\ q[1].history = Backfill(kept, session[s].since, latest)
      BY <2>1 DEF Hello, Snapshot
    <3>2. \A k \in Backfill(kept, session[s].since, latest) :
             k > session[s].since /\ k \in published
      BY <1>0, TimeAssumption DEF Backfill, Times, Inductive, AllPublished
    <3>3. latest \in published
      BY <1>1 DEF Greet, Inductive, AllPublished
    <3> QED BY <3>1, <3>2, <3>3 DEF FromPublished
  <2>3. \A i \in 1 .. Len(q) : i = 1 \/ i = 2
    BY <2>1
  <2> HIDE DEF q
  <2>4. /\ r.at = "greeting" /\ r.pending = q
        /\ r.client = session[s].client /\ r.since = session[s].since
    BY <1>0 DEF Session
  <2>5. SetSession(s, r) /\ UNCHANGED <<server, page, published, taken>>
    BY <1>1 DEF Greet, q
  <2>6. session[s].at = "waiting"
    BY <1>1 DEF Greet
  <2> HIDE DEF r
  <2>7. \A u \in Slots : session'[u] = IF u = s THEN r ELSE session[u]
    BY <1>0, <2>5 DEF SetSession
  <2>8. \A i \in 1 .. Len(q) : FromPublished(q[i])
    BY <2>2, <2>3
  <2>9. AllPublished'
    BY <2>4, <2>5, <2>7, <2>8 DEF Inductive, AllPublished, FromPublished, server
  <2>10. Opening(s)'
    BY <2>2, <2>3, <2>4, <2>7 DEF Opening
  <2>11. \A u \in Slots : Opening(u)'
    BY <2>7, <2>10 DEF Inductive, Pipeline, Opening
  <2>12. \A c \in Clients : Reading(c)'
    BY <2>5 DEF Inductive, Pipeline, Reading
  <2>13. \A u \in Slots, c \in Clients : Unread(u, c)' /\ Attached(u, c)'
    BY <2>4, <2>5, <2>6, <2>7
       DEF Inductive, Pipeline, Unread, Attached, Linked
  <2> QED BY <2>9, <2>11, <2>12, <2>13 DEF Pipeline
<1>2. /\ Snapshot(latest).kind # "hello" /\ Weather(weather).kind # "hello"
      /\ latest # 0 => FromPublished(Snapshot(latest))
      /\ FromPublished(Weather(weather))
  BY DEF Snapshot, Weather, FromPublished, Inductive, AllPublished
<1>3. ASSUME NEW q \in Seq(Frames), NEW r,
             session[s].at \in {"greeting", "streaming"},
             OfServer(q),
             r.at = "streaming", r.pending = q, r.client = session[s].client,
             SetSession(s, r), UNCHANGED <<server, page, published, taken>>
      PROVE  AllPublished' /\ Pipeline'
  <2>1. \/ q = <<>>
        \/ Len(q) = 1 /\ q[1].kind # "hello" /\ FromPublished(q[1])
    <3>1. CASE q = <<Snapshot(latest)>> /\ latest # 0
      BY <1>2, <3>1
    <3>2. CASE q = <<Weather(weather)>>
      BY <1>2, <3>2
    <3> QED BY <1>3, <3>1, <3>2 DEF OfServer
  <2>2. \A i \in 1 .. Len(q) : q[i].kind # "hello" /\ FromPublished(q[i])
    BY <2>1
  <2>3. \A i \in 1 .. Len(r.pending) :
           r.pending[i].kind # "hello" /\ FromPublished(r.pending[i])
    BY <1>3, <2>2
  <2>4. r.at \in {"greeting", "streaming"} /\ r.pending \in Seq(Frames)
    BY <1>3
  <2>5. /\ SetSession(s, r) /\ r.client = session[s].client
        /\ session[s].at \in {"greeting", "streaming"}
        /\ UNCHANGED <<server, page, published, taken>>
    BY <1>3
  <2> QED BY ONLY Inductive, s \in Slots, <2>3, <2>4, <2>5, TaskPipeline
<1>4. CASE GreetWeather(s)
  <2> DEFINE r == [session[s] EXCEPT !.at = "streaming",
                     !.weatherChanged = FALSE, !.pending = WeatherNow]
  <2>1. WeatherNow \in Seq(Frames) /\ OfServer(WeatherNow)
    BY <1>0, FramesOfServer DEF Inductive, Sound, WeatherNow, OfServer
  <2>2. /\ r.at = "streaming" /\ r.pending = WeatherNow
        /\ r.client = session[s].client
    BY <1>0 DEF Session
  <2>3. SetSession(s, r) /\ session[s].at = "greeting"
        /\ UNCHANGED <<server, page, published, taken>>
    BY <1>4 DEF GreetWeather
  <2> HIDE DEF r
  <2> QED BY <1>3, <2>1, <2>2, <2>3
<1>5. CASE TakeFeed(s)
  <2> DEFINE q == IF latest = 0 THEN <<>> ELSE <<Snapshot(latest)>>
             r == [session[s] EXCEPT !.feedChanged = FALSE, !.pending = q]
  <2>1. q \in Seq(Frames)
    BY <1>0, FramesOfServer, EmptySeq DEF Inductive, Sound
  <2>2. SetSession(s, r) /\ session[s].at = "streaming"
        /\ UNCHANGED <<server, page, published, taken>>
    BY <1>5 DEF TakeFeed
  <2>3. OfServer(q)
    BY DEF OfServer
  <2> HIDE DEF q
  <2>4. r.at = "streaming" /\ r.pending = q /\ r.client = session[s].client
    BY <1>0, <2>2 DEF Session
  <2> HIDE DEF r
  <2> QED BY <1>3, <2>1, <2>2, <2>3, <2>4
<1>6. CASE TakeWeather(s)
  <2> DEFINE q == IF weather = NoReport THEN <<>> ELSE <<Weather(weather)>>
             r == [session[s] EXCEPT !.weatherChanged = FALSE, !.pending = q]
  <2>1. q \in Seq(Frames)
    BY <1>0, FramesOfServer, EmptySeq DEF Inductive, Sound, WeatherNow
  <2>2. SetSession(s, r) /\ session[s].at = "streaming"
        /\ UNCHANGED <<server, page, published, taken>>
    BY <1>6 DEF TakeWeather
  <2>3. OfServer(q)
    BY DEF OfServer
  <2> HIDE DEF q
  <2>4. r.at = "streaming" /\ r.pending = q /\ r.client = session[s].client
    BY <1>0, <2>2 DEF Session
  <2> HIDE DEF r
  <2> QED BY <1>3, <2>1, <2>2, <2>3, <2>4
<1>7. CASE Gone(s)
  <2>1. \A u \in Slots : session'[u] = session[u] \/ session'[u] = Free
    BY <1>0, <1>7 DEF Gone, EndTask, SetSession
  <2>2. UNCHANGED <<kept, latest, page, published, taken>>
    BY <1>7 DEF Gone
  <2>3. AllPublished'
    BY <2>1, <2>2 DEF Inductive, AllPublished, FromPublished, Free
  <2>4. \A u \in Slots : Opening(u)'
    BY <2>1 DEF Inductive, Pipeline, Opening, Free
  <2>5. \A c \in Clients : Reading(c)'
    BY <2>2 DEF Inductive, Pipeline, Reading
  <2>6. ASSUME NEW u \in Slots, NEW c \in Clients
        PROVE  Unread(u, c)' /\ Attached(u, c)'
    <3>1. Linked(u, c)' => session'[u] = session[u]
      BY <2>1, SlotsAssumption DEF Linked, Free
    <3>2. Unread(u, c) /\ Attached(u, c)
      BY DEF Inductive, Pipeline
    <3> QED BY <2>2, <3>1, <3>2 DEF Unread, Attached, Linked
  <2> QED BY <2>3, <2>4, <2>5, <2>6 DEF Pipeline
<1> QED BY <1>1, <1>4, <1>5, <1>6, <1>7 DEF Run

(* What a page takes from its next frame: times later than all it has      *)
(* taken, all of them published.                                           *)
LEMMA TakeHands ==
  ASSUME Inductive, NEW c \in Clients, page[c].inbox # <<>>,
         page[c].at = "reading", Take(c, Head(page[c].inbox))
  PROVE  \E S \in SUBSET published : \E q :
           /\ taken' = [taken EXCEPT ![c] = @ \cup S]
           /\ \A x \in S : x > page[c].lastNow /\ x <= q.lastNow
           /\ page' = [page EXCEPT ![c] = q]
           /\ q.inbox = Tail(page[c].inbox) /\ q.at = page[c].at
           /\ q.conn = page[c].conn /\ q.lastNow >= page[c].lastNow
<1> DEFINE f == Head(page[c].inbox)
           b == page[c].inbox
           p == [page[c] EXCEPT !.delivered = TRUE, !.inbox = Tail(@)]
<1>1. /\ page[c] \in Page /\ b \in Seq(Frames) /\ page[c].lastNow \in 0 .. MaxNow
      /\ taken \in [Clients -> SUBSET Times] /\ page \in [Clients -> Page]
  BY DEF Inductive, Sound, TypeOK, Page
<1>2. f \in Frames /\ f = b[1] /\ 1 \in 1 .. Len(b)
  BY <1>1, HeadTailProperties, LenProperties, EmptySeq
<1>3. /\ FromPublished(f)
      /\ f.kind = "hello" => \A k \in f.history : k > page[c].lastNow
  BY <1>2 DEF Inductive, AllPublished, Pipeline, Reading
<1>4. /\ p.inbox = Tail(b) /\ p.at = page[c].at /\ p.conn = page[c].conn
      /\ p.lastNow = page[c].lastNow
  BY <1>1 DEF Page
<1>5. p.weather = page[c].weather /\ DOMAIN p = DOMAIN page[c]
  BY <1>1 DEF Page
<1>6. CASE f.kind = "hello"
  <2> DEFINE S == f.history
             q == [p EXCEPT !.lastNow = Newest(f.history, p.lastNow)]
  <2>1. S \in SUBSET Times /\ S \subseteq published
    BY <1>2, <1>3, <1>6 DEF Frames, FromPublished
  <2>2. /\ Newest(S, p.lastNow) \in 0 .. MaxNow
        /\ \A x \in S \cup {p.lastNow} : x <= Newest(S, p.lastNow)
    BY <1>1, <1>4, <2>1, NewestIsGreatest
  <2>3. /\ page' = [page EXCEPT ![c] = q]
        /\ taken' = [taken EXCEPT ![c] = @ \cup S]
    BY <1>6 DEF Take
  <2>4. /\ q.lastNow = Newest(S, p.lastNow) /\ q.inbox = p.inbox
        /\ q.at = p.at /\ q.conn = p.conn
    BY <1>1 DEF Page
  <2>5. /\ \A x \in S : x > page[c].lastNow /\ x <= q.lastNow
        /\ q.lastNow >= page[c].lastNow
    BY <1>1, <1>3, <1>4, <1>6, <2>1, <2>2, <2>4 DEF Times
  <2> HIDE DEF S, q, p
  <2> QED BY <1>4, <2>1, <2>3, <2>4, <2>5
<1>7. CASE f.kind = "weather"
  <2> DEFINE S == {}
             q == [p EXCEPT !.weather = f.report]
  <2>1. page' = [page EXCEPT ![c] = q] /\ taken' = taken
    BY <1>7 DEF Take
  <2>2. taken' = [taken EXCEPT ![c] = @ \cup S]
    BY <1>1, <2>1
  <2>3. /\ q.lastNow = p.lastNow /\ q.inbox = p.inbox
        /\ q.at = p.at /\ q.conn = p.conn
    BY <1>1 DEF Page
  <2>4. q.lastNow >= page[c].lastNow
    BY <1>1, <1>4, <2>3
  <2>5. /\ S \in SUBSET published
        /\ \A x \in S : x > page[c].lastNow /\ x <= q.lastNow
    OBVIOUS
  <2> HIDE DEF S, q, p
  <2> QED BY <1>4, <2>1, <2>2, <2>3, <2>4, <2>5
<1>8. CASE f.kind = "snapshot" /\ ~News(p, f.now)
  <2> DEFINE S == {}
  <2>1. page' = [page EXCEPT ![c] = p] /\ taken' = taken
    BY <1>8 DEF Take
  <2>2. taken' = [taken EXCEPT ![c] = @ \cup S]
    BY <1>1, <2>1
  <2>3. p.lastNow >= page[c].lastNow
    BY <1>1, <1>4
  <2>4. /\ S \in SUBSET published
        /\ \A x \in S : x > page[c].lastNow /\ x <= p.lastNow
    OBVIOUS
  <2> HIDE DEF S, p
  <2> QED BY <1>4, <2>1, <2>2, <2>3, <2>4
<1>9. CASE f.kind = "snapshot" /\ News(p, f.now)
  <2> DEFINE q == [p EXCEPT !.lastNow = f.now]
  <2>1. /\ page' = [page EXCEPT ![c] = q]
        /\ taken' = [taken EXCEPT ![c] = @ \cup {f.now}]
    BY <1>9 DEF Take
  <2>2. /\ q.lastNow = f.now /\ q.inbox = p.inbox
        /\ q.at = p.at /\ q.conn = p.conn
    BY <1>1 DEF Page
  <2>3. f.now \in Times /\ f.now \in published /\ f.now > page[c].lastNow
    BY <1>2, <1>3, <1>4, <1>9 DEF Frames, FromPublished, News
  <2>4. /\ \A x \in {f.now} : x > page[c].lastNow /\ x <= q.lastNow
        /\ q.lastNow >= page[c].lastNow /\ {f.now} \in SUBSET published
    BY <1>1, <2>2, <2>3 DEF Times
  <2> HIDE DEF q, p
  <2> QED BY <1>4, <2>1, <2>2, <2>4
<1> QED BY <1>6, <1>7, <1>8, <1>9 DEF Take

(* A page's own steps.                                                     *)
LEMMA PagePipeline ==
  ASSUME Inductive, NEW c \in Clients, Follow(c) \/ Stop(c)
  PROVE  AllPublished' /\ Pipeline'
<1>0. /\ page[c] \in Page /\ page \in [Clients -> Page]
      /\ page[c].lastNow \in 0 .. MaxNow
      /\ taken \in [Clients -> SUBSET Times]
  BY DEF Inductive, Sound, TypeOK, Page
<1>1. ASSUME EndRun(c), UNCHANGED <<kept, latest, session, published, taken>>
      PROVE  AllPublished' /\ Pipeline'
  <2>1. /\ Ended(page[c]).conn = None /\ Ended(page[c]).inbox = <<>>
        /\ Ended(page[c]).lastNow = page[c].lastNow /\ ~Ended(page[c]).delivered
    BY <1>0 DEF Ended, Page
  <2> QED BY <1>1, <2>1, LeavePipeline DEF EndRun
<1>2. ASSUME NEW q, page' = [page EXCEPT ![c] = q], page[c].at \in {"info", "sleeping"},
             q.at # "reading", q.conn = page[c].conn, q.inbox = page[c].inbox,
             q.delivered = page[c].delivered, q.lastNow = page[c].lastNow,
             UNCHANGED <<kept, latest, session, published, taken>>
      PROVE  AllPublished' /\ Pipeline'
  <2>1. \A d \in Clients : page'[d] = IF d = c THEN q ELSE page[d]
    BY <1>0, <1>2
  <2>2. AllPublished'
    BY <1>2, <2>1 DEF Inductive, AllPublished, FromPublished
  <2>3. \A s \in Slots : Opening(s)'
    BY <1>2 DEF Inductive, Pipeline, Opening
  <2>4. \A d \in Clients : Reading(d)'
    BY <1>2, <2>1 DEF Inductive, Pipeline, Reading
  <2>5. ASSUME NEW s \in Slots, NEW d \in Clients
        PROVE  Unread(s, d)' /\ Attached(s, d)'
    <3>1. Unread(s, d) /\ Attached(s, d)
      BY DEF Inductive, Pipeline
    <3>2. Linked(s, d)' => d # c
      BY <1>2, <2>1, <3>1 DEF Attached, Linked
    <3> QED BY <1>2, <2>1, <3>1, <3>2 DEF Unread, Attached, Linked
  <2> QED BY <2>2, <2>3, <2>4, <2>5 DEF Pipeline
<1>3. CASE Info(c)
  <2> DEFINE q == [page[c] EXCEPT !.at = "connecting", !.hash = hash, !.open = TRUE]
  <2>1. page' = [page EXCEPT ![c] = q]
    BY <1>0, <1>3 DEF Info, Page
  <2>2. /\ q.at = "connecting" /\ q.conn = page[c].conn
        /\ q.inbox = page[c].inbox /\ q.delivered = page[c].delivered
        /\ q.lastNow = page[c].lastNow
    BY <1>0 DEF Page
  <2> HIDE DEF q
  <2> QED BY <1>2, <1>3, <2>1, <2>2 DEF Info, server
<1>4. CASE Wake(c)
  <2> DEFINE a == IF page[c].stopped THEN "over" ELSE "info"
             q == [page[c] EXCEPT !.at = a]
  <2>1. page' = [page EXCEPT ![c] = q]
    BY <1>0, <1>4 DEF Wake
  <2>2. /\ q.at # "reading" /\ q.conn = page[c].conn
        /\ q.inbox = page[c].inbox /\ q.delivered = page[c].delivered
        /\ q.lastNow = page[c].lastNow
    BY <1>0 DEF Page
  <2> HIDE DEF q
  <2> QED BY <1>2, <1>4, <2>1, <2>2 DEF Wake, server
<1>5. CASE Down(c)
  BY <1>1, <1>5 DEF Down, server
<1>6. CASE Stop(c)
  <2> DEFINE q == [page[c] EXCEPT !.stopped = TRUE, !.open = FALSE,
                                  !.conn = None, !.inbox = <<>>]
  <2>1. page' = [page EXCEPT ![c] = q]
        /\ UNCHANGED <<kept, latest, session, published, taken>>
    BY <1>6 DEF Stop, server
  <2>2. /\ q.at = page[c].at /\ q.conn = None /\ q.inbox = <<>>
        /\ q.delivered = page[c].delivered /\ q.lastNow = page[c].lastNow
    BY <1>0 DEF Page
  <2>3. page[c].at # "reading" => ~page[c].delivered
    BY DEF Inductive, Pipeline, Reading
  <2> HIDE DEF q
  <2> QED BY <2>1, <2>2, <2>3, LeavePipeline
<1>7. CASE Read(c) /\ page[c].stopped
  BY <1>1, <1>7 DEF Read, server
<1>8. CASE Read(c) /\ ~page[c].stopped
  <2> DEFINE b == page[c].inbox
  <2>1. /\ b # <<>> /\ page[c].at = "reading" /\ Take(c, Head(page[c].inbox))
        /\ UNCHANGED <<kept, latest, session, published>>
    BY <1>8 DEF Read, server
  <2> DEFINE Handed(S, q) ==
               /\ taken' = [taken EXCEPT ![c] = @ \cup S]
               /\ \A x \in S : x > page[c].lastNow /\ x <= q.lastNow
               /\ page' = [page EXCEPT ![c] = q]
               /\ q.inbox = Tail(b) /\ q.at = page[c].at
               /\ q.conn = page[c].conn /\ q.lastNow >= page[c].lastNow
  <2>1a. PICK S \in SUBSET published : \E q : Handed(S, q)
    BY <2>1, TakeHands
  <2>1b. PICK q : Handed(S, q)
    BY <2>1a
  <2>2. Handed(S, q)
    BY <2>1b
  <2>3. /\ b \in Seq(Frames) /\ Len(b) \in Nat /\ Len(b) > 0
        /\ Len(Tail(b)) = Len(b) - 1
        /\ \A i \in 1 .. Len(Tail(b)) : Tail(b)[i] = b[i + 1]
    BY <1>0, <2>1, HeadTailProperties, LenProperties, EmptySeq DEF Page
  <2>4. \A d \in Clients : page'[d] = IF d = c THEN q ELSE page[d]
    BY <1>0, <2>2
  <2>5. Reading(c) /\ \A i \in 1 .. Len(b) : FromPublished(b[i])
    BY DEF Inductive, Pipeline, AllPublished
  <2>6. \A i \in 1 .. Len(Tail(b)) :
          FromPublished(Tail(b)[i]) /\ Tail(b)[i].kind # "hello"
    <3>1. \A i \in 1 .. Len(Tail(b)) : i + 1 \in 1 .. Len(b) /\ i + 1 # 1
      BY <2>3
    <3> QED BY <2>3, <2>5, <3>1 DEF Reading
  <2> HIDE DEF b
  <2>7. AllPublished'
    <3>1. ASSUME NEW d \in Clients
          PROVE  \A i \in 1 .. Len(page'[d].inbox) :
                   FromPublished(page'[d].inbox[i])
      <4>1. d = c => page'[d].inbox = Tail(b)
        BY <2>2, <2>4
      <4>2. CASE d # c
        BY <2>4, <4>2 DEF Inductive, AllPublished
      <4> QED BY <2>6, <4>1, <4>2
    <3> QED BY <2>1, <3>1 DEF Inductive, AllPublished, FromPublished
  <2>8. Reading(c)'
    <3>1. page'[c] = q /\ taken'[c] = taken[c] \cup S
      BY <1>0, <2>2, <2>4
    <3>2. \A x \in taken[c] \cup S : x <= q.lastNow
      <4>1. \A x \in taken[c] : x <= page[c].lastNow /\ x \in Times
        BY <1>0, <2>5 DEF Reading
      <4>2. S \subseteq Times /\ q.lastNow \in Int
        BY <2>2, PageSound, <1>8 DEF Inductive, Sound, TypeOK, Page, Follow
      <4> QED BY <1>0, <2>2, <4>1, <4>2 DEF Times
    <3> QED BY <2>1, <2>2, <2>6, <3>1, <3>2 DEF Reading
  <2>9. \A d \in Clients : Reading(d)'
    <3>1. ASSUME NEW d \in Clients, d # c PROVE Reading(d)'
      <4>1. page'[d] = page[d] /\ taken'[d] = taken[d]
        BY <1>0, <2>2, <2>4, <3>1
      <4> QED BY <4>1 DEF Inductive, Pipeline, Reading
    <3> QED BY <2>8, <3>1
  <2>10. \A s \in Slots : Opening(s)'
    BY <2>1 DEF Inductive, Pipeline, Opening
  <2>11. ASSUME NEW s \in Slots, NEW d \in Clients
         PROVE  Unread(s, d)' /\ Attached(s, d)'
    <3>1. Unread(s, d) /\ Attached(s, d)
      BY DEF Inductive, Pipeline
    <3>2. CASE d # c
      BY <2>1, <2>4, <3>1, <3>2 DEF Unread, Attached, Linked
    <3>3. CASE d = c
      <4>1. Linked(s, c)' <=> Linked(s, c)
        BY <2>1, <2>2, <2>4 DEF Linked
      <4>2. Unread(s, d)'
        BY <2>1, <3>1, <3>3, <4>1 DEF Unread, b
      <4>3. Attached(s, d)'
        BY <2>1, <2>2, <2>4, <3>1, <3>3, <4>1 DEF Attached
      <4> QED BY <4>2, <4>3
    <3> QED BY <3>2, <3>3
  <2> QED BY <2>7, <2>9, <2>10, <2>11 DEF Pipeline
<1> QED BY <1>3, <1>4, <1>5, <1>6, <1>7, <1>8 DEF Follow

LEMMA InductiveStep == Inductive /\ [Next]_vars => Inductive'
<1> SUFFICES ASSUME Inductive, [Next]_vars PROVE Inductive'
  OBVIOUS
<1>1. CASE UNCHANGED vars
  <2>1. Sound'
    BY <1>1 DEF Inductive, Sound, TypeOK, PermitsBalance, Holding, Owned, vars,
       server
  <2>2. AllPublished'
    BY <1>1 DEF Inductive, AllPublished, FromPublished, vars, server
  <2>3. Pipeline'
    BY <1>1 DEF Inductive, Pipeline, Opening, Reading, Unread, Attached, Linked,
       vars, server
  <2> QED BY <2>1, <2>2, <2>3 DEF Inductive
<1>2. CASE Next
  <2>1. Sound'
    BY <1>2, ServerSound, ServeSound, RunSound, PageSound DEF Next, Inductive
  <2>2. AllPublished' /\ Pipeline'
    BY <1>2, ServerPipeline, ServePipeline, RunPipeline, PagePipeline DEF Next
  <2> QED BY <2>1, <2>2 DEF Inductive
<1> QED BY <1>1, <1>2

(* The hello that opens a session holds nothing the page has taken,        *)
(* although the page asked for it in the path of a session it opened long  *)
(* before (push.ts:110-145, feed.rs:73-84).                                *)
THEOREM NothingTwiceHolds == Spec => []NothingTwice
<1>1. Inductive => NothingTwice
  <2> SUFFICES ASSUME Inductive, NEW c \in Clients, NEW i \in DOMAIN page[c].inbox,
                      page[c].inbox[i].kind = "hello",
                      NEW k \in page[c].inbox[i].history
               PROVE  k > page[c].lastNow
    BY DEF NothingTwice
  <2>1. page[c].inbox \in Seq(Frames)
    BY DEF Inductive, Sound, TypeOK, Page
  <2>2. i \in 1 .. Len(page[c].inbox)
    BY <2>1, LenProperties
  <2> QED BY <2>2 DEF Inductive, Pipeline, Reading
<1> QED BY <1>1, InitInductive, InductiveStep, PTL DEF Spec

(* A step of the feed is one of the promise, or changes nothing of it.     *)
LEMMA StepKept ==
  ASSUME Inductive, [Next]_vars
  PROVE  [Promise!Next]_<<published, taken>>
<1>1. ASSUME NEW t \in Times, Publish(t) PROVE Promise!Next
  <2>1. Promise!Publish(t)
    BY <1>1 DEF Publish, Promise!Publish
  <2> QED BY <2>1 DEF Promise!Next
<1>2. ASSUME NEW c \in Clients, Read(c), ~page[c].stopped PROVE Promise!Next
  <2>1. /\ page[c].inbox # <<>> /\ page[c].at = "reading"
        /\ Take(c, Head(page[c].inbox)) /\ published' = published
    BY <1>2 DEF Read
  <2>2. PICK S \in SUBSET published :
          /\ taken' = [taken EXCEPT ![c] = @ \cup S]
          /\ \A x \in S : x > page[c].lastNow
    BY <2>1, TakeHands
  <2>3. \A y \in taken[c] : y <= page[c].lastNow
    BY DEF Inductive, Pipeline, Reading
  <2>4. /\ taken[c] \in SUBSET Int /\ published \in SUBSET Int
        /\ page[c].lastNow \in Int
    BY DEF Inductive, Sound, TypeOK, Page, Times
  <2>5. Promise!Later(S, taken[c])
    BY <2>2, <2>3, <2>4 DEF Promise!Later
  <2>6. Promise!Hand(c, S)
    BY <2>1, <2>2, <2>5 DEF Promise!Hand
  <2> QED BY <2>2, <2>6 DEF Promise!Next
<1>3. CASE UNCHANGED vars
  BY <1>3 DEF vars
<1>4. ASSUME NEW c \in Clients, Follow(c) \/ Stop(c), ~Read(c)
      PROVE  UNCHANGED <<published, taken>>
  BY <1>4 DEF Follow, Info, Down, Wake, Stop
<1>5. ASSUME NEW c \in Clients, Read(c), page[c].stopped
      PROVE  UNCHANGED <<published, taken>>
  BY <1>5 DEF Read
<1>6. ASSUME NEW s \in Slots, Run(s) PROVE UNCHANGED <<published, taken>>
  BY <1>6 DEF Run, Greet, GreetWeather, TakeFeed, TakeWeather, Gone
<1>7. ASSUME NEW c \in Clients, NEW s \in Slots, Serve(c, s)
      PROVE  UNCHANGED <<published, taken>>
  BY <1>7 DEF Serve, Accept, TurnAway, Admit, Write
<1>8. ASSUME NEW w \in Reports, TellWeather(w) PROVE UNCHANGED <<published, taken>>
  BY <1>8 DEF TellWeather
<1>9. CASE RenewEndpoint \/ RenewHash \/ Restart
  BY <1>9 DEF RenewEndpoint, RenewHash, Restart
<1> QED BY <1>1, <1>2, <1>3, <1>4, <1>5, <1>6, <1>7, <1>8, <1>9 DEF Next

(* The feed keeps its promise to every page: what it is handed was         *)
(* published, and each time later than all before, through lost and        *)
(* resumed sessions, restarts and clocks set back (feedWorker.ts:27-60).   *)
THEOREM Delivery == Spec => Promised
<1>1. Init => Promise!Init
  BY DEF Init, Promise!Init
<1>2. Inductive /\ [Next]_vars => [Promise!Next]_<<published, taken>>
  BY StepKept
<1> QED
  BY <1>1, <1>2, InitInductive, InductiveStep, PTL DEF Spec, Promised, Promise!Spec

-----------------------------------------------------------------------------
(* The whole of the history, while the clock is never set back.            *)

(* The times a frame hands the page that takes it. *)
Carries(f) ==
  IF f.kind = "hello" THEN f.history
  ELSE IF f.kind = "snapshot" THEN {f.now} ELSE {}
CarriedBy(frames, n) == UNION {Carries(frames[i]) : i \in 1 .. n}

(* Nothing was published later than the clock, and the latest is what the  *)
(* history ends with.                                                      *)
Forward ==
  /\ \A t \in published : t <= now
  /\ \A k \in kept : k <= latest
  /\ \A c \in Clients : page[c].lastNow <= now

(* What the session of a page was too slow for is counted as had. *)
Had(c) == taken[c] \cup skipped[c]

(* Whoever has `had`, and what the frames hand up to one of them, has all  *)
(* of the history up to what that one carries.                             *)
Caught(had, hist, frames) ==
  \A i \in 1 .. Len(frames) : \A u \in Carries(frames[i]), k \in hist :
    k <= u => k \in had \cup CarriedBy(frames, i)
AllOf(frames) == CarriedBy(frames, Len(frames))
Reached(c) == Had(c) \cup AllOf(page[c].inbox)

(* Of what the history holds, the page of a task that has greeted it lacks *)
(* nothing that is not on its way, but the latest while the task is to be  *)
(* told of it.                                                             *)
Lacking(had, hist, frames) == {k \in hist : k \notin had \cup AllOf(frames)}
Accounted(s, c) ==
  Linked(s, c) =>
    /\ Caught(Reached(c), kept, session[s].pending)
    /\ session[s].at \in {"greeting", "streaming"} =>
         \A k \in Lacking(Reached(c), kept, session[s].pending) :
           k = latest /\ session[s].feedChanged
Whole ==
  /\ NoGap
  /\ \A c \in Clients : Caught(Had(c), kept, page[c].inbox)
  /\ \A s \in Slots, c \in Clients : Accounted(s, c)

(* A page that has had no frame of its session has its hello to come. *)
HelloToCome(s, c) ==
  (Linked(s, c) /\ page[c].inbox = <<>> /\ ~page[c].delivered) =>
    \/ session[s].at \in {"refusing", "handshake", "waiting"}
    \/ session[s].pending # <<>> /\ session[s].pending[1].kind = "hello"
Opened ==
  /\ \A c \in Clients :
       page[c].inbox # <<>> /\ ~page[c].delivered => page[c].inbox[1].kind = "hello"
  /\ \A s \in Slots, c \in Clients : HelloToCome(s, c)

(* No report in the frames. *)
Silent(frames) == \A i \in 1 .. Len(frames) : frames[i].kind # "weather"
(* The last of the reports in the frames, if any, is the weather. *)
EndsWith(frames, w) ==
  \A i \in 1 .. Len(frames) :
    frames[i].kind = "weather" /\ (\A j \in i + 1 .. Len(frames) : frames[j].kind # "weather")
      => frames[i].report = w
Told(s) ==
  /\ session[s].weatherChanged => weather # NoReport
  /\ session[s].at = "streaming" => Len(session[s].pending) <= 1
Showing(s, c) ==
  (Linked(s, c) /\ session[s].at = "streaming" /\ ~session[s].weatherChanged) =>
    /\ EndsWith(session[s].pending, weather)
    /\ Silent(session[s].pending) =>
         /\ EndsWith(page[c].inbox, weather)
         /\ Silent(page[c].inbox) => page[c].weather = weather
AllUpToDate ==
  /\ \A s \in Slots : Told(s)
  /\ \A s \in Slots, c \in Clients : Showing(s, c)

-----------------------------------------------------------------------------
(* What taking a frame does.                                               *)
LEMMA TakeParts ==
  ASSUME TypeOK, NEW c \in Clients, page[c].inbox # <<>>,
         Take(c, Head(page[c].inbox))
  PROVE  LET f == Head(page[c].inbox) IN
         /\ \A d \in Clients \ {c} : page'[d] = page[d] /\ taken'[d] = taken[d]
         /\ page'[c].inbox = Tail(page[c].inbox) /\ page'[c].delivered
         /\ page'[c].at = page[c].at /\ page'[c].conn = page[c].conn
         /\ page'[c].weather = IF f.kind = "weather" THEN f.report ELSE page[c].weather
         /\ page'[c].lastNow \in {page[c].lastNow} \cup Carries(f)
         /\ taken[c] \subseteq taken'[c]
         /\ \A u \in Carries(f) : u > page[c].lastNow => u \in taken'[c]
         /\ page'[c].lastNow >= page[c].lastNow
<1> DEFINE f == Head(page[c].inbox)
           p == [page[c] EXCEPT !.delivered = TRUE, !.inbox = Tail(@)]
<1>1. /\ page[c] \in Page /\ page[c].inbox \in Seq(Frames)
      /\ page[c].lastNow \in 0 .. MaxNow
      /\ taken \in [Clients -> SUBSET Times] /\ page \in [Clients -> Page]
  BY DEF TypeOK, Page
<1>2. f \in Frames
  BY <1>1, HeadTailProperties
<1>3. /\ p.inbox = Tail(page[c].inbox) /\ p.delivered /\ p.at = page[c].at
      /\ p.conn = page[c].conn /\ p.weather = page[c].weather
      /\ p.lastNow = page[c].lastNow
  BY <1>1 DEF Page
<1>4. CASE f.kind = "hello"
  <2> DEFINE n == Newest(f.history, p.lastNow)
             q == [p EXCEPT !.lastNow = n]
  <2>1. f.history \in SUBSET Times /\ Carries(f) = f.history
    BY <1>2, <1>4 DEF Frames, Carries
  <2>2. n \in {p.lastNow} \cup f.history /\ n >= p.lastNow
    <3>1. n \in f.history \cup {p.lastNow} /\ n \in 0 .. MaxNow
          /\ \A u \in f.history \cup {p.lastNow} : u <= n
      BY <1>1, <1>3, <2>1, NewestIsGreatest
    <3> HIDE DEF n
    <3> QED BY <1>1, <1>3, <3>1
  <2>3. page' = [page EXCEPT ![c] = q]
        /\ taken' = [taken EXCEPT ![c] = @ \cup f.history]
    BY <1>4 DEF Take
  <2>4. /\ q.inbox = p.inbox /\ q.delivered = p.delivered /\ q.at = p.at
        /\ q.conn = p.conn /\ q.weather = p.weather /\ q.lastNow = n
    BY <1>1 DEF Page
  <2>5. /\ page'[c] = q /\ \A d \in Clients \ {c} : page'[d] = page[d]
        /\ taken'[c] = taken[c] \cup f.history
        /\ \A d \in Clients \ {c} : taken'[d] = taken[d]
    BY <1>1, <2>3
  <2> HIDE DEF p, q, n, f
  <2> QED BY <1>3, <1>4, <2>1, <2>2, <2>4, <2>5 DEF f
<1>5. CASE f.kind = "weather"
  <2> DEFINE q == [p EXCEPT !.weather = f.report]
  <2>1. page' = [page EXCEPT ![c] = q] /\ taken' = taken /\ Carries(f) = {}
    BY <1>5 DEF Take, Carries
  <2>2. /\ q.inbox = p.inbox /\ q.delivered = p.delivered /\ q.at = p.at
        /\ q.conn = p.conn /\ q.weather = f.report /\ q.lastNow = p.lastNow
    BY <1>1 DEF Page
  <2>3. page'[c] = q /\ \A d \in Clients \ {c} : page'[d] = page[d]
    BY <1>1, <2>1
  <2>4. q.lastNow >= page[c].lastNow
    BY <1>1, <1>3, <2>2
  <2> HIDE DEF p, q
  <2> QED BY <1>3, <1>5, <2>1, <2>2, <2>3, <2>4
<1>6. CASE f.kind = "snapshot" /\ ~News(p, f.now)
  <2>1. page' = [page EXCEPT ![c] = p] /\ taken' = taken /\ Carries(f) = {f.now}
    BY <1>6 DEF Take, Carries
  <2>2. ~(f.now > page[c].lastNow)
    BY <1>3, <1>6 DEF News
  <2> HIDE DEF p
  <2> QED BY <1>1, <1>3, <1>6, <2>1, <2>2
<1>7. CASE f.kind = "snapshot" /\ News(p, f.now)
  <2> DEFINE q == [p EXCEPT !.lastNow = f.now]
  <2>1. /\ page' = [page EXCEPT ![c] = q]
        /\ taken' = [taken EXCEPT ![c] = @ \cup {f.now}] /\ Carries(f) = {f.now}
    BY <1>7 DEF Take, Carries
  <2>2. f.now > page[c].lastNow /\ f.now \in Times
    BY <1>2, <1>3, <1>7 DEF News, Frames
  <2>3. /\ q.inbox = p.inbox /\ q.delivered = p.delivered /\ q.at = p.at
        /\ q.conn = p.conn /\ q.weather = p.weather /\ q.lastNow = f.now
    BY <1>1 DEF Page
  <2>4. /\ page'[c] = q /\ \A d \in Clients \ {c} : page'[d] = page[d]
        /\ taken'[c] = taken[c] \cup {f.now}
        /\ \A d \in Clients \ {c} : taken'[d] = taken[d]
    BY <1>1, <2>1
  <2>5. q.lastNow >= page[c].lastNow
    BY <1>1, <2>2, <2>3 DEF Times
  <2> HIDE DEF p, q
  <2> QED BY <1>3, <1>7, <2>1, <2>2, <2>3, <2>4, <2>5
<1> QED BY <1>4, <1>5, <1>6, <1>7 DEF Take

(* What frames carry, less the first of them and with one more.            *)
LEMMA CarriedByTail ==
  ASSUME NEW b \in Seq(Frames), b # <<>>, NEW i \in 0 .. Len(Tail(b))
  PROVE  CarriedBy(b, i + 1) = Carries(Head(b)) \cup CarriedBy(Tail(b), i)
<1>1. /\ Head(b) = b[1] /\ Len(b) \in Nat /\ Len(Tail(b)) = Len(b) - 1
      /\ \A j \in 1 .. Len(Tail(b)) : Tail(b)[j] = b[j + 1]
  BY HeadTailProperties, LenProperties, EmptySeq
<1>2. ASSUME NEW u PROVE u \in CarriedBy(b, i + 1)
                         <=> u \in Carries(Head(b)) \cup CarriedBy(Tail(b), i)
  <2>1. ASSUME u \in CarriedBy(b, i + 1)
        PROVE  u \in Carries(Head(b)) \cup CarriedBy(Tail(b), i)
    <3>1. PICK j \in 1 .. i + 1 : u \in Carries(b[j])
      BY <2>1 DEF CarriedBy
    <3>2. CASE j = 1
      BY <1>1, <3>1, <3>2
    <3>3. CASE j # 1
      <4>1. j - 1 \in 1 .. i /\ Tail(b)[j - 1] = b[j]
        BY <1>1, <3>1, <3>3
      <4> QED BY <3>1, <4>1 DEF CarriedBy
    <3> QED BY <3>2, <3>3
  <2>2. ASSUME u \in Carries(Head(b)) PROVE u \in CarriedBy(b, i + 1)
    <3>1. 1 \in 1 .. i + 1
      BY <1>1
    <3> QED BY <1>1, <2>2, <3>1 DEF CarriedBy
  <2>3. ASSUME u \in CarriedBy(Tail(b), i) PROVE u \in CarriedBy(b, i + 1)
    <3>1. PICK j \in 1 .. i : u \in Carries(Tail(b)[j])
      BY <2>3 DEF CarriedBy
    <3>2. j + 1 \in 1 .. i + 1 /\ Tail(b)[j] = b[j + 1]
      BY <1>1, <3>1
    <3> QED BY <3>1, <3>2 DEF CarriedBy
  <2> QED BY <2>1, <2>2, <2>3
<1> QED BY <1>2

LEMMA CarriedByAppend ==
  ASSUME NEW b \in Seq(Frames), NEW f \in Frames
  PROVE  /\ \A i \in 0 .. Len(b) : CarriedBy(Append(b, f), i) = CarriedBy(b, i)
         /\ CarriedBy(Append(b, f), Len(b) + 1) = CarriedBy(b, Len(b)) \cup Carries(f)
<1>1. /\ Len(b) \in Nat /\ Append(b, f)[Len(b) + 1] = f
      /\ \A j \in 1 .. Len(b) : Append(b, f)[j] = b[j]
  BY AppendProperties, LenProperties
<1>2. ASSUME NEW i \in 0 .. Len(b) PROVE CarriedBy(Append(b, f), i) = CarriedBy(b, i)
  <2>1. \A j \in 1 .. i : Append(b, f)[j] = b[j]
    BY <1>1
  <2> QED BY <2>1 DEF CarriedBy
<1>3. 1 .. Len(b) + 1 = 1 .. Len(b) \cup {Len(b) + 1}
  BY <1>1
<1>4. CarriedBy(Append(b, f), Len(b) + 1)
        = CarriedBy(Append(b, f), Len(b)) \cup Carries(Append(b, f)[Len(b) + 1])
  BY <1>3 DEF CarriedBy
<1> QED BY <1>1, <1>2, <1>4

LEMMA ForwardKept ==
  ASSUME MaxStepsBack = 0, Inductive, Forward, [Next]_vars
  PROVE  Forward'
<1>0. /\ now \in 0 .. MaxNow /\ latest \in 0 .. MaxNow /\ MaxNow \in Nat
      /\ published \in SUBSET Times /\ kept \subseteq published
      /\ \A c \in Clients : page[c] \in Page /\ page[c].lastNow \in 0 .. MaxNow
      /\ page \in [Clients -> Page] /\ used.stepsBack = 0
  BY TimeAssumption DEF Inductive, Sound, TypeOK, Page, AllPublished
<1>1. ASSUME UNCHANGED <<now, published, kept, latest, page>> PROVE Forward'
  BY <1>1 DEF Forward
<1>2. ASSUME NEW t \in Times, Publish(t) PROVE Forward'
  <2>1. t > now
    BY <1>0, <1>2 DEF Publish
  <2>2. /\ now' = t /\ latest' = t /\ published' = published \cup {t}
        /\ kept' \subseteq kept \cup {t} /\ page' = page
    BY <1>2 DEF Publish, Record
  <2> QED BY <1>0, <2>1, <2>2 DEF Forward, Times
<1>3. CASE Restart
  BY <1>0, <1>3 DEF Restart, Forward
<1>4. ASSUME NEW c \in Clients, NEW q, page' = [page EXCEPT ![c] = q],
             q.lastNow = page[c].lastNow, UNCHANGED <<now, published, kept, latest>>
      PROVE  Forward'
  BY <1>0, <1>4 DEF Forward
<1>5. ASSUME NEW c \in Clients, EndRun(c), UNCHANGED <<now, published, kept, latest>>
      PROVE  Forward'
  <2>1. Ended(page[c]).lastNow = page[c].lastNow
    BY <1>0 DEF Ended, Page
  <2> QED BY <1>4, <1>5, <2>1 DEF EndRun
<1>6. ASSUME NEW c \in Clients, Read(c), ~page[c].stopped PROVE Forward'
  <2>1. /\ page[c].inbox # <<>> /\ Take(c, Head(page[c].inbox))
        /\ UNCHANGED <<now, published, kept, latest>>
    BY <1>6 DEF Read, server
  <2> DEFINE f == Head(page[c].inbox)
  <2>2. /\ \A d \in Clients \ {c} : page'[d] = page[d]
        /\ page'[c].lastNow \in {page[c].lastNow} \cup Carries(f)
    BY <2>1, TakeParts DEF Inductive, Sound
  <2>3. Carries(f) \subseteq published
    <3>1. page[c].inbox \in Seq(Frames)
      BY <1>0 DEF Page
    <3>2. f = page[c].inbox[1] /\ 1 \in 1 .. Len(page[c].inbox)
      BY <2>1, <3>1, HeadTailProperties, LenProperties, EmptySeq
    <3> QED BY <3>2 DEF Carries, Inductive, AllPublished, FromPublished
  <2> HIDE DEF f
  <2> QED BY <1>0, <2>1, <2>2, <2>3 DEF Forward
<1>7. ASSUME NEW c \in Clients, Follow(c) \/ Stop(c), ~Read(c) PROVE Forward'
  <2>1. CASE Down(c)
    BY <1>5, <2>1 DEF Down, server
  <2>2. CASE Info(c)
    <3> DEFINE q == [page[c] EXCEPT !.at = "connecting", !.hash = hash, !.open = TRUE]
    <3>1. page' = [page EXCEPT ![c] = q] /\ q.lastNow = page[c].lastNow
      BY <1>0, <2>2 DEF Info, Page
    <3> HIDE DEF q
    <3> QED BY <1>4, <2>2, <3>1 DEF Info, server
  <2>3. CASE Wake(c)
    <3> DEFINE a == IF page[c].stopped THEN "over" ELSE "info"
               q == [page[c] EXCEPT !.at = a]
    <3>1. page' = [page EXCEPT ![c] = q] /\ q.lastNow = page[c].lastNow
      BY <1>0, <2>3 DEF Wake, Page
    <3> HIDE DEF q
    <3> QED BY <1>4, <2>3, <3>1 DEF Wake, server
  <2>4. CASE Stop(c)
    <3> DEFINE q == [page[c] EXCEPT !.stopped = TRUE, !.open = FALSE,
                                    !.conn = None, !.inbox = <<>>]
    <3>1. page' = [page EXCEPT ![c] = q] /\ q.lastNow = page[c].lastNow
      BY <1>0, <2>4 DEF Stop, Page
    <3> HIDE DEF q
    <3> QED BY <1>4, <2>4, <3>1 DEF Stop, server
  <2> QED BY <1>7, <2>1, <2>2, <2>3, <2>4 DEF Follow
<1>8. ASSUME NEW c \in Clients, NEW s \in Slots, Serve(c, s) PROVE Forward'
  <2>1. UNCHANGED <<now, published, kept, latest>>
    BY <1>8 DEF Serve, Accept, TurnAway, Admit, Write, server
  <2>2. CASE TurnAway(c, s)
    BY <1>5, <2>1, <2>2 DEF TurnAway
  <2>3. ASSUME ~TurnAway(c, s) PROVE \A d \in Clients : page'[d].lastNow = page[d].lastNow
    <3>1. CASE Accept(c, s)
      BY <1>0, <3>1 DEF Accept, Page
    <3>2. CASE Admit(c, s)
      BY <1>0, <3>2 DEF Admit, Page
    <3>3. CASE Write(c, s)
      BY <1>0, <3>3 DEF Write, Page
    <3> QED BY <1>8, <2>3, <3>1, <3>2, <3>3 DEF Serve
  <2> QED BY <2>1, <2>2, <2>3 DEF Forward
<1>9. ASSUME NEW s \in Slots, Run(s) PROVE Forward'
  BY <1>1, <1>9 DEF Run, Greet, GreetWeather, TakeFeed, TakeWeather, Gone, server
<1>10. CASE UNCHANGED vars
  BY <1>1, <1>10 DEF vars, server
<1>11. CASE (\E w \in Reports : TellWeather(w)) \/ RenewEndpoint \/ RenewHash
  BY <1>1, <1>11 DEF TellWeather, RenewEndpoint, RenewHash
<1>12. ASSUME NEW c \in Clients, Read(c), page[c].stopped PROVE Forward'
  BY <1>5, <1>12 DEF Read, server
<1> QED BY <1>2, <1>3, <1>6, <1>7, <1>8, <1>9, <1>10, <1>11, <1>12 DEF Next, Follow

(* Having more of a history that holds less is no loss.                    *)
LEMMA CaughtMore ==
  ASSUME NEW had, NEW hist, NEW frames, Caught(had, hist, frames),
         NEW more, NEW less \in SUBSET hist, had \cap less \subseteq more
  PROVE  Caught(more, less, frames)
<1> SUFFICES ASSUME NEW i \in 1 .. Len(frames), NEW u \in Carries(frames[i]),
                    NEW k \in less, k <= u
             PROVE  k \in more \cup CarriedBy(frames, i)
  BY DEF Caught
<1>1. k \in had \cup CarriedBy(frames, i)
  BY DEF Caught
<1> QED BY <1>1

LEMMA LackingMore ==
  ASSUME NEW had, NEW hist, NEW frames,
         NEW more, NEW less \in SUBSET hist, had \cap less \subseteq more
  PROVE  Lacking(more, less, frames) \subseteq Lacking(had, hist, frames)
BY DEF Lacking

(* A snapshot later than what the frames carry is none they skip.          *)
LEMMA CaughtBefore ==
  ASSUME NEW had, NEW hist, NEW frames, Caught(had, hist, frames), NEW t \in Int,
         \A i \in 1 .. Len(frames) : \A u \in Carries(frames[i]) : u \in Int /\ u < t
  PROVE  Caught(had, hist \cup {t}, frames)
<1> SUFFICES ASSUME NEW i \in 1 .. Len(frames), NEW u \in Carries(frames[i]),
                    NEW k \in hist \cup {t}, k <= u
             PROVE  k \in had \cup CarriedBy(frames, i)
  BY DEF Caught
<1>1. k # t
  OBVIOUS
<1> QED BY <1>1 DEF Caught

(* No frames carry nothing.                                                *)
LEMMA CarriedEmpty == AllOf(<<>>) = {} /\ \A h, k : Caught(h, k, <<>>)
BY EmptySeq DEF AllOf, CarriedBy, Caught

(* A step that leaves what a task and its page have alone.                 *)
LEMMA AccountedKept ==
  ASSUME Whole, NEW s \in Slots, NEW c \in Clients,
         Linked(s, c)' => /\ Linked(s, c)
                          /\ session'[s].pending = session[s].pending
                          /\ session'[s].at = session[s].at
                          /\ session'[s].feedChanged = session[s].feedChanged
                          /\ Reached(c) \cap kept \subseteq Reached(c)',
         UNCHANGED <<kept, latest>>
  PROVE  Accounted(s, c)'
<1> SUFFICES ASSUME Linked(s, c)'
             PROVE  /\ Caught(Reached(c), kept, session[s].pending)'
                    /\ session'[s].at \in {"greeting", "streaming"} =>
                         \A k \in Lacking(Reached(c), kept, session[s].pending)' :
                           k = latest' /\ session'[s].feedChanged
  BY DEF Accounted
<1>2. Accounted(s, c) /\ Linked(s, c)
  BY DEF Whole
<1>3. Caught(Reached(c)', kept', session[s].pending)
  BY <1>2, CaughtMore DEF Accounted
<1>4. Lacking(Reached(c)', kept', session[s].pending)
        \subseteq Lacking(Reached(c), kept, session[s].pending)
  BY <1>2, LackingMore
<1> QED BY <1>2, <1>3, <1>4 DEF Accounted

(* A page that leaves its session behind loses none of what it had.        *)
LEMMA LeaveWhole ==
  ASSUME Inductive, Whole, NEW c \in Clients, NEW q,
         page' = [page EXCEPT ![c] = q], q.conn = None, q.inbox = <<>>,
         q.lastNow = page[c].lastNow,
         \A s \in Slots : session'[s] = session[s] \/ session'[s] = Free,
         UNCHANGED <<kept, latest, taken, skipped>>
  PROVE  Whole'
<1>1. \A d \in Clients : page'[d] = IF d = c THEN q ELSE page[d]
  BY DEF Inductive, Sound, TypeOK
<1>2. NoGap'
  BY <1>1 DEF Whole, NoGap
<1>3. ASSUME NEW d \in Clients PROVE Caught(Had(d), kept, page[d].inbox)'
  <2>1. Caught(Had(d), kept, page[d].inbox) /\ Had(d)' = Had(d)
    BY DEF Whole, Had
  <2>2. page'[d].inbox = <<>> \/ page'[d].inbox = page[d].inbox
    BY <1>1
  <2> QED BY <2>1, <2>2, CarriedEmpty
<1>4. ASSUME NEW s \in Slots, NEW d \in Clients PROVE Accounted(s, d)'
  <2>1. Linked(s, d)' => /\ d # c /\ session'[s] = session[s] /\ page'[d] = page[d]
                         /\ Linked(s, d) /\ Reached(d)' = Reached(d)
    BY <1>1, SlotsAssumption DEF Linked, Free, Reached, Had
  <2> QED BY <2>1, AccountedKept
<1> QED BY <1>2, <1>3, <1>4 DEF Whole

(* A task that goes on, with whatever it takes up accounted for.           *)
LEMMA TaskWhole ==
  ASSUME Inductive, Whole, NEW s \in Slots, NEW r, SetSession(s, r),
         \A c \in Clients : r.client = c /\ page[c].conn = s =>
           /\ Caught(Reached(c), kept, r.pending)
           /\ r.at \in {"greeting", "streaming"} =>
                \A k \in Lacking(Reached(c), kept, r.pending) :
                  k = latest /\ r.feedChanged,
         UNCHANGED <<kept, latest, page, taken, skipped>>
  PROVE  Whole'
<1>1. \A u \in Slots : session'[u] = IF u = s THEN r ELSE session[u]
  BY DEF SetSession, Inductive, Sound, TypeOK
<1>2. NoGap'
  BY DEF Whole, NoGap
<1>3. \A d \in Clients : Had(d)' = Had(d) /\ Reached(d)' = Reached(d)
  BY DEF Had, Reached
<1>4. \A d \in Clients : Caught(Had(d), kept, page[d].inbox)'
  BY <1>3 DEF Whole
<1>5. ASSUME NEW u \in Slots, NEW d \in Clients PROVE Accounted(u, d)'
  <2>1. CASE u = s
    BY <1>1, <1>3, <2>1 DEF Accounted, Linked
  <2>2. CASE u # s
    BY <1>1, <1>3, <2>2, AccountedKept DEF Linked
  <2> QED BY <2>1, <2>2
<1> QED BY <1>2, <1>4, <1>5 DEF Whole

(* A snapshot later than all others is none that a page should have by now. *)
LEMMA PublishWhole ==
  ASSUME MaxStepsBack = 0, Inductive, Forward, Whole, NEW t \in Times, Publish(t)
  PROVE  Whole'
<1>1. /\ t > now /\ now \in 0 .. MaxNow /\ MaxNow \in Nat
      /\ published \in SUBSET Times /\ kept \subseteq published
      /\ latest \in 0 .. MaxNow /\ used.stepsBack = 0
      /\ \A c \in Clients : page[c].lastNow \in 0 .. MaxNow
      /\ session \in [Slots -> Session]
  <2>1. /\ now \in 0 .. MaxNow /\ MaxNow \in Nat
        /\ published \in SUBSET Times /\ kept \subseteq published
        /\ latest \in 0 .. MaxNow /\ used.stepsBack = 0
        /\ \A c \in Clients : page[c].lastNow \in 0 .. MaxNow
        /\ session \in [Slots -> Session]
    BY TimeAssumption DEF Inductive, Sound, TypeOK, AllPublished, Page
  <2>2. t > now
    BY <2>1 DEF Publish
  <2> QED BY <2>1, <2>2
<1>2. /\ latest' = t /\ page' = page /\ taken' = taken /\ session' = FeedTold
      /\ kept' \subseteq kept \cup {t}
  BY DEF Publish, Record
<1>3. \A c \in Clients : skipped'[c] = skipped[c] \cup
           {u \in {latest} \ {0} : \E s \in Slots :
              Linked(s, c) /\ session[s].at \in {"greeting", "streaming"}
                /\ session[s].feedChanged}
  BY DEF Publish
<1>4. ASSUME NEW s \in Slots
      PROVE  /\ session'[s].at = session[s].at
             /\ session'[s].client = session[s].client
             /\ session'[s].pending = session[s].pending
             /\ session[s].at # "free" => session'[s].feedChanged
  BY <1>1, <1>2 DEF FeedTold, Session
<1>5. \A c \in Clients : Had(c) \subseteq Had(c)' /\ Reached(c) \subseteq Reached(c)'
  BY <1>2, <1>3 DEF Had, Reached
<1>6. \A u \in published : u \in Int /\ u < t
  <2>1. \A u \in published : u \in Int /\ u <= now
    BY <1>1 DEF Forward, Times
  <2> QED BY <1>1, <2>1 DEF Times
<1>7. NoGap'
  <2> SUFFICES ASSUME NEW c \in Clients, NEW k \in kept', k <= page[c].lastNow
               PROVE  k \in taken'[c] \cup skipped'[c]
    BY <1>2 DEF NoGap
  <2>1. page[c].lastNow <= now
    BY DEF Forward
  <2>2. k # t
    BY <1>1, <2>1 DEF Times
  <2>3. k \in taken[c] \cup skipped[c]
    BY <1>2, <2>2 DEF Whole, NoGap
  <2> QED BY <1>2, <1>3, <2>3
<1>8. ASSUME NEW b, \A i \in 1 .. Len(b) : b[i] \in Frames /\ FromPublished(b[i]),
             NEW had, Caught(had, kept, b), NEW more, had \subseteq more
      PROVE  Caught(more, kept', b)
  <2>1. \A i \in 1 .. Len(b) : Carries(b[i]) \subseteq published
    BY <1>8 DEF Carries, FromPublished
  <2>2. Caught(had, kept \cup {t}, b)
    BY <1>6, <1>8, <2>1, CaughtBefore DEF Times
  <2> QED BY <1>2, <1>8, <2>2, CaughtMore
<1>9. ASSUME NEW c \in Clients PROVE Caught(Had(c), kept, page[c].inbox)'
  <2>1. Caught(Had(c), kept, page[c].inbox) /\ page[c].inbox \in Seq(Frames)
    BY DEF Whole, Inductive, Sound, TypeOK, Page
  <2>2. \A i \in 1 .. Len(page[c].inbox) :
          page[c].inbox[i] \in Frames /\ FromPublished(page[c].inbox[i])
    BY <2>1, ElementOfSeq DEF Inductive, AllPublished
  <2>3. Caught(Had(c)', kept', page[c].inbox)
    BY <1>5, <1>8, <2>1, <2>2
  <2> QED BY <1>2, <2>3
<1>10. ASSUME NEW s \in Slots, NEW c \in Clients PROVE Accounted(s, c)'
  <2> DEFINE q == session[s].pending
  <2> SUFFICES ASSUME Linked(s, c)
               PROVE  /\ Caught(Reached(c)', kept', q)
                      /\ session[s].at \in {"greeting", "streaming"} =>
                           \A k \in Lacking(Reached(c)', kept', q) :
                             k = latest' /\ session'[s].feedChanged
    BY <1>2, <1>4 DEF Accounted, Linked
  <2>1. Accounted(s, c) /\ q \in Seq(Frames)
    BY <1>1 DEF Whole, Session
  <2>2. \A i \in 1 .. Len(q) : q[i] \in Frames /\ FromPublished(q[i])
    BY <2>1, ElementOfSeq DEF Inductive, AllPublished
  <2>3. Caught(Reached(c)', kept', q)
    BY <1>5, <1>8, <2>1, <2>2 DEF Accounted
  <2>4. ASSUME session[s].at \in {"greeting", "streaming"},
               NEW k \in Lacking(Reached(c)', kept', q)
        PROVE  k = latest' /\ session'[s].feedChanged
    <3>1. session'[s].feedChanged
      BY <1>4, <2>4
    <3>2. k \in kept' /\ k \notin Reached(c)' /\ k \notin AllOf(q)
      BY <2>4 DEF Lacking
    <3>3. ASSUME k # t PROVE FALSE
      <4>1. k \in kept /\ k \notin Reached(c)
        BY <1>2, <1>5, <3>2, <3>3
      <4>2. k \in Lacking(Reached(c), kept, q)
        BY <3>2, <4>1 DEF Lacking
      <4>3. k = latest /\ session[s].feedChanged
        BY <2>1, <2>4, <4>2 DEF Accounted
      <4>4. k # 0
        BY <1>1, <4>1 DEF Times
      <4>5. k \in skipped'[c]
        BY <1>3, <2>4, <4>3, <4>4
      <4> QED BY <3>2, <4>5 DEF Reached, Had
    <3> QED BY <1>2, <3>1, <3>3
  <2> QED BY <2>3, <2>4
<1> QED BY <1>7, <1>9, <1>10 DEF Whole

(* The greeting is all that the page lacks of the history.                 *)
LEMMA GreetWhole ==
  ASSUME Inductive, Forward, Whole, NEW s \in Slots, Greet(s)
  PROVE  Whole'
<1> DEFINE q == Greeting(session[s].since)
           r == [session[s] EXCEPT !.at = "greeting", !.feedChanged = FALSE,
                                   !.pending = q]
<1>1. /\ session[s] \in Session /\ latest \in 0 .. MaxNow /\ latest # 0
      /\ kept \in SUBSET Times /\ session[s].at = "waiting"
      /\ session[s].since \in 0 .. MaxNow
  BY DEF Inductive, Sound, TypeOK, Greet, Session
<1>2. /\ SetSession(s, r) /\ r.pending = q /\ r.client = session[s].client
      /\ UNCHANGED <<kept, latest, page, taken, skipped>>
  BY <1>1 DEF Greet, Session, server
<1>3. /\ Len(q) = 2 /\ q \in Seq(Frames)
      /\ Carries(q[1]) = Backfill(kept, session[s].since, latest)
      /\ Carries(q[2]) = {latest}
  BY <1>1, FramesOfServer DEF Greeting, Carries, Hello, Snapshot, Inductive, Sound
<1>4. /\ CarriedBy(q, 1) = Backfill(kept, session[s].since, latest)
      /\ CarriedBy(q, 2) = Backfill(kept, session[s].since, latest) \cup {latest}
  <2>1. 1 .. 1 = {1} /\ 1 .. 2 = {1, 2}
    OBVIOUS
  <2> HIDE DEF q
  <2> QED BY <1>3, <2>1 DEF CarriedBy
<1> HIDE DEF q, r
<1>5. ASSUME NEW c \in Clients, r.client = c, page[c].conn = s
      PROVE  Caught(Reached(c), kept, q) /\ Lacking(Reached(c), kept, q) = {}
  <2>1. Linked(s, c) /\ session[s].since = page[c].lastNow
    BY <1>1, <1>2, <1>5 DEF Linked, Inductive, Pipeline, Unread
  <2>2. \A k \in kept : \/ k \in Reached(c)
                        \/ k \in Backfill(kept, session[s].since, latest)
                        \/ k = latest
    <3>1. ASSUME NEW k \in kept, k <= session[s].since PROVE k \in Reached(c)
      BY <2>1, <3>1 DEF Whole, NoGap, Reached, Had
    <3>2. \A k \in kept : k <= latest /\ k \in Int
      BY <1>1 DEF Forward, Times
    <3> QED BY <1>1, <3>1, <3>2 DEF Backfill
  <2>3. ASSUME NEW i \in 1 .. 2, NEW u \in Carries(q[i]), NEW k \in kept, k <= u
        PROVE  k \in Reached(c) \cup CarriedBy(q, i)
    <3>1. CASE i = 1
      <4>1. u \in kept /\ u < latest
        BY <1>3, <2>3, <3>1 DEF Backfill
      <4>2. k # latest
        BY <1>1, <2>3, <4>1 DEF Times
      <4>3. k \in Reached(c) \cup CarriedBy(q, 1)
        BY <1>4, <2>2, <4>2
      <4> QED BY <3>1, <4>3
    <3>2. CASE i = 2
      BY <1>4, <2>2, <3>2
    <3> QED BY <3>1, <3>2
  <2>4. Caught(Reached(c), kept, q)
    BY <1>3, <2>3 DEF Caught
  <2>5. AllOf(q) = Backfill(kept, session[s].since, latest) \cup {latest}
    BY <1>3, <1>4 DEF AllOf
  <2>6. Lacking(Reached(c), kept, q) = {}
    BY <2>2, <2>5 DEF Lacking
  <2> QED BY <2>4, <2>6
<1> QED BY <1>2, <1>5, TaskWhole

(* What a task that has written all takes up leaves the page lacking no    *)
(* more than it did, and the latest only if it is not what is taken up.    *)
LEMMA TakeUpWhole ==
  ASSUME Inductive, Whole, NEW s \in Slots, NEW q, NEW r, SetSession(s, r),
         session[s].at \in {"greeting", "streaming"}, session[s].pending = <<>>,
         r.client = session[s].client, r.pending = q,
         \/ q = <<>>
         \/ q = <<Snapshot(latest)>>
         \/ q = <<Weather(weather)>>,
         \/ r.feedChanged = session[s].feedChanged
         \/ q = <<Snapshot(latest)>>
         \/ q = <<>> /\ latest = 0,
         UNCHANGED <<kept, latest, page, taken, skipped>>
  PROVE  Whole'
<1>1. ASSUME NEW c \in Clients, r.client = c, page[c].conn = s
      PROVE  /\ Caught(Reached(c), kept, q)
             /\ \A k \in Lacking(Reached(c), kept, q) : k = latest /\ r.feedChanged
  <2>1. Linked(s, c)
    BY <1>1 DEF Linked
  <2>2. \A k \in kept : k \in Reached(c) \/ (k = latest /\ session[s].feedChanged)
    BY <2>1, CarriedEmpty DEF Whole, Accounted, Lacking
  <2>3. \A k \in kept : k # 0
    BY DEF Inductive, Sound, TypeOK, Times
  <2>4. CASE q = <<>>
    BY <2>2, <2>3, <2>4, CarriedEmpty DEF Lacking
  <2>5. ASSUME NEW f, q = <<f>> PROVE AllOf(q) = Carries(f) /\ CarriedBy(q, 1) = Carries(f)
                                     /\ Len(q) = 1 /\ q[1] = f
    <3>1. Len(q) = 1 /\ q[1] = f /\ 1 .. 1 = {1}
      BY <2>5
    <3> QED BY <3>1 DEF AllOf, CarriedBy
  <2>6. CASE q = <<Snapshot(latest)>>
    <3>1. Carries(Snapshot(latest)) = {latest}
      BY DEF Carries, Snapshot
    <3>2. /\ AllOf(q) = {latest} /\ CarriedBy(q, 1) = {latest} /\ Len(q) = 1
          /\ Carries(q[1]) = {latest}
      BY <2>5, <2>6, <3>1
    <3>3. \A i \in 1 .. Len(q) : i = 1
      BY <3>2
    <3> QED BY <2>2, <3>2, <3>3 DEF Caught, Lacking
  <2>7. CASE q = <<Weather(weather)>>
    <3>1. Carries(Weather(weather)) = {} /\ Weather(weather) # Snapshot(latest)
      BY DEF Carries, Weather, Snapshot
    <3>2. /\ AllOf(q) = {} /\ Len(q) = 1 /\ Carries(q[1]) = {}
          /\ q[1] = Weather(weather)
      BY <2>5, <2>7, <3>1
    <3>3. q # <<Snapshot(latest)>> /\ q # <<>>
      <4>1. ASSUME q = <<Snapshot(latest)>> PROVE q[1] = Snapshot(latest)
        BY <2>5, <4>1
      <4> QED BY <3>1, <3>2, <4>1, EmptySeq
    <3>4. \A i \in 1 .. Len(q) : i = 1
      BY <3>2
    <3> QED BY <2>2, <3>2, <3>3, <3>4 DEF Caught, Lacking
  <2> QED BY <2>4, <2>6, <2>7
<1> QED BY <1>1, TaskWhole

(* A frame written is one that travels, where it was one to be written.    *)
LEMMA WriteWhole ==
  ASSUME Inductive, Whole, NEW c \in Clients, NEW s \in Slots, Write(c, s)
  PROVE  Whole'
<1> DEFINE q == session[s].pending
           b == page[c].inbox
           f == Head(q)
<1>1. /\ session[s] \in Session /\ page[c] \in Page /\ session \in [Slots -> Session]
      /\ page \in [Clients -> Page] /\ q \in Seq(Frames) /\ b \in Seq(Frames)
      /\ q # <<>> /\ Linked(s, c) /\ UNCHANGED <<kept, latest, taken, skipped>>
  BY DEF Inductive, Sound, TypeOK, Session, Page, Write, server
<1>2. /\ f \in Frames /\ f = q[1] /\ Len(q) \in Nat /\ Len(q) >= 1
      /\ Tail(q) \in Seq(Frames) /\ Len(Tail(q)) = Len(q) - 1
      /\ \A i \in 1 .. Len(Tail(q)) : Tail(q)[i] = q[i + 1]
  BY <1>1, HeadTailProperties, LenProperties, EmptySeq
<1>3. /\ Len(b) \in Nat /\ Len(Append(b, f)) = Len(b) + 1
      /\ \A i \in 1 .. Len(b) : Append(b, f)[i] = b[i]
      /\ Append(b, f)[Len(b) + 1] = f
  BY <1>1, <1>2, AppendProperties, LenProperties
<1>4. /\ \A i \in 0 .. Len(b) : CarriedBy(Append(b, f), i) = CarriedBy(b, i)
      /\ AllOf(Append(b, f)) = AllOf(b) \cup Carries(f)
  BY <1>1, <1>2, <1>3, CarriedByAppend DEF AllOf
<1>5. /\ \A i \in 0 .. Len(Tail(q)) :
           CarriedBy(q, i + 1) = Carries(f) \cup CarriedBy(Tail(q), i)
      /\ AllOf(q) = Carries(f) \cup AllOf(Tail(q))
  <2>1. \A i \in 0 .. Len(Tail(q)) :
           CarriedBy(q, i + 1) = Carries(f) \cup CarriedBy(Tail(q), i)
    BY <1>1, CarriedByTail
  <2>2. Len(Tail(q)) \in 0 .. Len(Tail(q)) /\ Len(Tail(q)) + 1 = Len(q)
    BY <1>2
  <2> QED BY <2>1, <2>2 DEF AllOf
<1>6. /\ session' = [session EXCEPT ![s] = [session[s] EXCEPT !.pending = Tail(@)]]
      /\ page' = [page EXCEPT ![c].inbox = Append(@, f)]
  BY DEF Write, SetSession
<1> HIDE DEF q, b, f
<1>7. \A u \in Slots : /\ session'[u].client = session[u].client
                       /\ session'[u].at = session[u].at
                       /\ session'[u].feedChanged = session[u].feedChanged
                       /\ u # s => session'[u].pending = session[u].pending
  BY <1>1, <1>6 DEF Session
<1>8. session'[s].pending = Tail(q)
  BY <1>1, <1>6 DEF Session, q
<1>9. \A d \in Clients : /\ page'[d].conn = page[d].conn
                         /\ page'[d].lastNow = page[d].lastNow
                         /\ d # c => page'[d].inbox = page[d].inbox
  BY <1>1, <1>6 DEF Page
<1>10. page'[c].inbox = Append(b, f)
  BY <1>1, <1>6 DEF Page, b
<1>11. /\ \A d \in Clients : Had(d)' = Had(d) /\ (d # c => Reached(d)' = Reached(d))
       /\ Reached(c)' = Reached(c) \cup Carries(f)
  BY <1>1, <1>4, <1>9, <1>10 DEF Had, Reached, b
<1>12. /\ Caught(Had(c), kept, b) /\ Caught(Reached(c), kept, q)
       /\ session[s].at \in {"greeting", "streaming"} =>
            \A k \in Lacking(Reached(c), kept, q) : k = latest /\ session[s].feedChanged
  BY <1>1 DEF Whole, Accounted, q, b
<1>13. NoGap'
  BY <1>1, <1>9 DEF Whole, NoGap
<1>14. Caught(Had(c), kept, Append(b, f))
  <2> SUFFICES ASSUME NEW i \in 1 .. Len(Append(b, f)),
                      NEW u \in Carries(Append(b, f)[i]), NEW k \in kept, k <= u
               PROVE  k \in Had(c) \cup CarriedBy(Append(b, f), i)
    BY DEF Caught
  <2>1. CASE i \in 1 .. Len(b)
    <3>1. k \in Had(c) \cup CarriedBy(b, i)
      BY <1>3, <1>12, <2>1 DEF Caught
    <3> QED BY <1>3, <1>4, <2>1, <3>1
  <2>2. CASE i = Len(b) + 1
    <3>1. 1 \in 1 .. Len(q) /\ u \in Carries(q[1])
      BY <1>2, <1>3, <2>2
    <3>2. k \in Reached(c) \cup CarriedBy(q, 1)
      BY <1>12, <3>1 DEF Caught
    <3>3. CarriedBy(q, 1) = Carries(f)
      <4>1. 1 .. 1 = {1}
        OBVIOUS
      <4> QED BY <1>2, <4>1 DEF CarriedBy
    <3>4. CarriedBy(Append(b, f), i) = AllOf(b) \cup Carries(f)
      BY <1>3, <1>4, <2>2 DEF AllOf
    <3> QED BY <3>2, <3>3, <3>4 DEF Reached, b
  <2> QED BY <1>3, <2>1, <2>2
<1>15. \A d \in Clients : Caught(Had(d), kept, page[d].inbox)'
  <2> SUFFICES ASSUME NEW d \in Clients PROVE Caught(Had(d)', kept', page'[d].inbox)
    OBVIOUS
  <2>1. CASE d = c
    BY <1>1, <1>10, <1>11, <1>14, <2>1
  <2>2. CASE d # c
    BY <1>1, <1>9, <1>11, <2>2 DEF Whole
  <2> QED BY <2>1, <2>2
<1>16. Caught(Reached(c) \cup Carries(f), kept, Tail(q))
  <2> SUFFICES ASSUME NEW i \in 1 .. Len(Tail(q)),
                      NEW u \in Carries(Tail(q)[i]), NEW k \in kept, k <= u
               PROVE  k \in (Reached(c) \cup Carries(f)) \cup CarriedBy(Tail(q), i)
    BY DEF Caught
  <2>1. i + 1 \in 1 .. Len(q) /\ u \in Carries(q[i + 1])
    BY <1>2
  <2>2. k \in Reached(c) \cup CarriedBy(q, i + 1)
    BY <1>12, <2>1 DEF Caught
  <2>3. i \in 0 .. Len(Tail(q))
    BY <1>2
  <2> QED BY <1>5, <2>2, <2>3
<1>17. Lacking(Reached(c) \cup Carries(f), kept, Tail(q)) = Lacking(Reached(c), kept, q)
  BY <1>5 DEF Lacking
<1>18. ASSUME NEW u \in Slots, NEW d \in Clients PROVE Accounted(u, d)'
  <2>1. CASE u = s /\ d = c
    BY <1>1, <1>7, <1>8, <1>11, <1>12, <1>16, <1>17, <2>1 DEF Accounted
  <2>2. CASE u # s \/ d # c
    <3>1. Linked(u, d)' => Linked(u, d) /\ u # s /\ d # c
      BY <1>1, <1>7, <1>9, <2>2 DEF Linked
    <3> QED BY <1>1, <1>7, <1>11, <3>1, AccountedKept
  <2> QED BY <2>1, <2>2
<1> QED BY <1>13, <1>15, <1>18 DEF Whole

(* What a page takes of a frame is what it lacked of it.                   *)
LEMMA ReadWhole ==
  ASSUME Inductive, Whole, NEW c \in Clients, Read(c), ~page[c].stopped
  PROVE  Whole'
<1> DEFINE b == page[c].inbox
           f == Head(b)
<1>1. /\ b \in Seq(Frames) /\ b # <<>> /\ Take(c, Head(page[c].inbox))
      /\ kept \in SUBSET Times /\ page[c].lastNow \in 0 .. MaxNow
      /\ UNCHANGED <<kept, latest, session, skipped>>
  BY DEF Inductive, Sound, TypeOK, Page, Read, server
<1>2. /\ f = b[1] /\ Len(b) \in Nat /\ Len(b) >= 1 /\ Len(Tail(b)) = Len(b) - 1
      /\ \A i \in 1 .. Len(Tail(b)) : Tail(b)[i] = b[i + 1]
  BY <1>1, HeadTailProperties, LenProperties, EmptySeq
<1>3. /\ \A i \in 0 .. Len(Tail(b)) :
           CarriedBy(b, i + 1) = Carries(f) \cup CarriedBy(Tail(b), i)
      /\ AllOf(b) = Carries(f) \cup AllOf(Tail(b))
  <2>1. \A i \in 0 .. Len(Tail(b)) :
           CarriedBy(b, i + 1) = Carries(f) \cup CarriedBy(Tail(b), i)
    BY <1>1, CarriedByTail
  <2>2. Len(Tail(b)) \in 0 .. Len(Tail(b)) /\ Len(Tail(b)) + 1 = Len(b)
    BY <1>2
  <2> QED BY <2>1, <2>2 DEF AllOf
<1>4. /\ \A d \in Clients \ {c} : page'[d] = page[d] /\ taken'[d] = taken[d]
      /\ page'[c].inbox = Tail(b) /\ page'[c].conn = page[c].conn
      /\ page'[c].lastNow \in {page[c].lastNow} \cup Carries(f)
      /\ taken[c] \subseteq taken'[c]
      /\ \A u \in Carries(f) : u > page[c].lastNow => u \in taken'[c]
  BY <1>1, TakeParts DEF Inductive, Sound
<1> HIDE DEF b, f
<1>5. Had(c) \subseteq Had(c)'
  BY <1>1, <1>4 DEF Had
<1>6. \A k \in kept : k \in Carries(f) => k \in Had(c)'
  <2> SUFFICES ASSUME NEW k \in kept, k \in Carries(f) PROVE k \in Had(c)'
    OBVIOUS
  <2>1. CASE k > page[c].lastNow
    BY <1>4, <2>1 DEF Had
  <2>2. CASE k <= page[c].lastNow
    BY <1>5, <2>2 DEF Whole, NoGap, Had
  <2> QED BY <1>1, <2>1, <2>2 DEF Times
<1>7. Caught(Had(c), kept, b)
  BY DEF Whole, b
<1>8. NoGap'
  <2> SUFFICES ASSUME NEW d \in Clients, NEW k \in kept, k <= page'[d].lastNow
               PROVE  k \in Had(d)'
    BY <1>1 DEF NoGap, Had
  <2>1. CASE d # c
    BY <1>1, <1>4, <2>1 DEF Whole, NoGap, Had
  <2>2. CASE d = c /\ page'[c].lastNow = page[c].lastNow
    BY <1>5, <2>2 DEF Whole, NoGap, Had
  <2>3. CASE d = c /\ page'[c].lastNow \in Carries(f)
    <3>1. 1 \in 1 .. Len(b)
      BY <1>2
    <3>2. k \in Had(c) \cup CarriedBy(b, 1)
      BY <1>2, <1>7, <2>3, <3>1 DEF Caught
    <3>3. CarriedBy(b, 1) = Carries(f)
      <4>1. 1 .. 1 = {1}
        OBVIOUS
      <4> QED BY <1>2, <4>1 DEF CarriedBy
    <3> QED BY <1>5, <1>6, <2>3, <3>2, <3>3
  <2> QED BY <1>4, <2>1, <2>2, <2>3
<1>9. Caught(Had(c)', kept, Tail(b))
  <2> SUFFICES ASSUME NEW i \in 1 .. Len(Tail(b)), NEW u \in Carries(Tail(b)[i]),
                      NEW k \in kept, k <= u
               PROVE  k \in Had(c)' \cup CarriedBy(Tail(b), i)
    BY DEF Caught
  <2>1. i + 1 \in 1 .. Len(b) /\ u \in Carries(b[i + 1]) /\ i \in 0 .. Len(Tail(b))
    BY <1>2
  <2>2. k \in Had(c) \cup CarriedBy(b, i + 1)
    BY <1>7, <2>1 DEF Caught
  <2> QED BY <1>3, <1>5, <1>6, <2>1, <2>2
<1>10. \A d \in Clients : Caught(Had(d), kept, page[d].inbox)'
  <2> SUFFICES ASSUME NEW d \in Clients PROVE Caught(Had(d)', kept', page'[d].inbox)
    OBVIOUS
  <2>1. CASE d = c
    BY <1>1, <1>4, <1>9, <2>1
  <2>2. CASE d # c
    <3>1. Had(d)' = Had(d) /\ page'[d] = page[d]
      BY <1>1, <1>4, <2>2 DEF Had
    <3> QED BY <1>1, <3>1 DEF Whole
  <2> QED BY <2>1, <2>2
<1>11. ASSUME NEW d \in Clients PROVE Reached(d) \cap kept \subseteq Reached(d)'
  <2>1. CASE d = c
    BY <1>3, <1>4, <1>5, <1>6, <2>1 DEF Reached, b
  <2>2. CASE d # c
    BY <1>1, <1>4, <2>2 DEF Reached, Had
  <2> QED BY <2>1, <2>2
<1>12. ASSUME NEW s \in Slots, NEW d \in Clients PROVE Accounted(s, d)'
  <2>1. Linked(s, d)' => Linked(s, d)
    BY <1>1, <1>4 DEF Linked
  <2> QED BY <1>1, <1>11, <2>1, AccountedKept
<1> QED BY <1>8, <1>10, <1>12 DEF Whole

(* A page that is neither handed anything nor linked anew.                 *)
LEMMA PageWhole ==
  ASSUME Whole,
         \A d \in Clients : /\ page'[d].lastNow = page[d].lastNow
                            /\ page'[d].inbox = page[d].inbox,
         \A s \in Slots, d \in Clients :
           Linked(s, d)' => \/ /\ Linked(s, d)
                              /\ session'[s].pending = session[s].pending
                              /\ session'[s].at = session[s].at
                              /\ session'[s].feedChanged = session[s].feedChanged
                           \/ /\ session'[s].pending = <<>>
                              /\ session'[s].at \notin {"greeting", "streaming"},
         UNCHANGED <<kept, latest, taken, skipped>>
  PROVE  Whole'
<1>1. NoGap'
  BY DEF Whole, NoGap
<1>2. \A d \in Clients : Had(d)' = Had(d) /\ Reached(d)' = Reached(d)
  BY DEF Had, Reached
<1>3. \A d \in Clients : Caught(Had(d), kept, page[d].inbox)'
  BY <1>2 DEF Whole
<1>4. ASSUME NEW s \in Slots, NEW d \in Clients PROVE Accounted(s, d)'
  <2>1. CASE /\ session'[s].pending = <<>>
             /\ session'[s].at \notin {"greeting", "streaming"}
    BY <2>1, CarriedEmpty DEF Accounted
  <2>2. CASE ~(/\ session'[s].pending = <<>>
               /\ session'[s].at \notin {"greeting", "streaming"})
    BY <1>2, <2>2, AccountedKept
  <2> QED BY <2>1, <2>2
<1> QED BY <1>1, <1>3, <1>4 DEF Whole

LEMMA ServeWhole ==
  ASSUME Inductive, Whole, NEW c \in Clients, NEW s \in Slots, Serve(c, s)
  PROVE  Whole'
<1>0. /\ page[c] \in Page /\ session[s] \in Session
      /\ session \in [Slots -> Session] /\ page \in [Clients -> Page]
  BY DEF Inductive, Sound, TypeOK
<1>1. CASE Accept(c, s)
  <2> DEFINE r == [Free EXCEPT !.client = c, !.since = page[c].lastNow,
                     !.at = IF permits > 0 THEN "handshake" ELSE "refusing"]
  <2>1. r.client = c /\ r.pending = <<>> /\ r.at \in {"handshake", "refusing"}
    BY DEF Free
  <2>2. \A u \in Slots : session'[u] = IF u = s THEN r ELSE session[u]
    BY <1>0, <1>1 DEF Accept, SetSession
  <2> HIDE DEF r
  <2>3. \A d \in Clients :
           page'[d] = IF d = c THEN [page[c] EXCEPT !.conn = s] ELSE page[d]
    BY <1>0, <1>1 DEF Accept
  <2>4. \A d \in Clients : /\ page'[d].inbox = page[d].inbox
                           /\ page'[d].lastNow = page[d].lastNow
                           /\ d # c => page'[d].conn = page[d].conn
    BY <1>0, <2>3 DEF Page
  <2>5. page'[c].conn = s
    BY <1>0, <2>3 DEF Page
  <2>6. \A u \in Slots, d \in Clients :
           Linked(u, d)' => u = s \/ (Linked(u, d) /\ session'[u] = session[u])
    BY <2>2, <2>4, <2>5 DEF Linked
  <2> QED BY <1>1, <2>1, <2>2, <2>4, <2>6, PageWhole DEF Accept
<1>2. CASE TurnAway(c, s)
  <2>1. /\ Ended(page[c]).conn = None /\ Ended(page[c]).inbox = <<>>
        /\ Ended(page[c]).lastNow = page[c].lastNow
    BY <1>0 DEF Ended, Page
  <2>2. \A u \in Slots : session'[u] = session[u] \/ session'[u] = Free
    BY <1>0, <1>2 DEF TurnAway, EndTask, SetSession
  <2> QED BY <1>2, <2>1, <2>2, LeaveWhole DEF TurnAway, EndRun
<1>3. CASE Admit(c, s)
  <2>1. \A u \in Slots :
           session'[u] = IF u = s THEN [session[s] EXCEPT !.at = "waiting"]
                         ELSE session[u]
    BY <1>0, <1>3 DEF Admit, SetSession
  <2>2. \A u \in Slots : session'[u].client = session[u].client
    BY <1>0, <2>1 DEF Session
  <2>3. session'[s].at = "waiting" /\ session'[s].pending = <<>>
    BY <1>0, <1>3, <2>1 DEF Session, Admit, Inductive, Pipeline, Opening
  <2>4. \A d \in Clients : /\ page'[d].inbox = page[d].inbox
                           /\ page'[d].lastNow = page[d].lastNow
                           /\ page'[d].conn = page[d].conn
    BY <1>0, <1>3 DEF Admit, Page
  <2>5. \A u \in Slots, d \in Clients : Linked(u, d)' => Linked(u, d)
    BY <2>2, <2>4 DEF Linked
  <2> QED BY <1>3, <2>1, <2>3, <2>4, <2>5, PageWhole DEF Admit, server
<1>4. CASE Write(c, s)
  BY <1>4, WriteWhole
<1> QED BY <1>1, <1>2, <1>3, <1>4 DEF Serve

LEMMA RunWhole ==
  ASSUME Inductive, Forward, Whole, NEW s \in Slots, Run(s)
  PROVE  Whole'
<1>0. session[s] \in Session /\ session \in [Slots -> Session]
  BY DEF Inductive, Sound, TypeOK
<1>1. CASE Greet(s)
  BY <1>1, GreetWhole
<1>2. CASE GreetWeather(s)
  <2> DEFINE r == [session[s] EXCEPT !.at = "streaming",
                     !.weatherChanged = FALSE, !.pending = WeatherNow]
  <2>1. /\ r.pending = WeatherNow /\ r.client = session[s].client
        /\ r.feedChanged = session[s].feedChanged
    BY <1>0 DEF Session
  <2>2. /\ SetSession(s, r) /\ session[s].at = "greeting" /\ session[s].pending = <<>>
        /\ UNCHANGED <<kept, latest, page, taken, skipped>>
    BY <1>2 DEF GreetWeather, server
  <2> HIDE DEF r
  <2> QED BY <2>1, <2>2, TakeUpWhole DEF WeatherNow
<1>3. CASE TakeFeed(s)
  <2> DEFINE q == IF latest = 0 THEN <<>> ELSE <<Snapshot(latest)>>
             r == [session[s] EXCEPT !.feedChanged = FALSE, !.pending = q]
  <2>1. /\ SetSession(s, r) /\ session[s].at = "streaming" /\ session[s].pending = <<>>
        /\ UNCHANGED <<kept, latest, page, taken, skipped>>
    BY <1>3 DEF TakeFeed, server
  <2>2. r.pending = q /\ r.client = session[s].client
    BY <1>0 DEF Session
  <2>3. q = <<Snapshot(latest)>> \/ (q = <<>> /\ latest = 0)
    OBVIOUS
  <2> HIDE DEF r, q
  <2> QED BY <2>1, <2>2, <2>3, TakeUpWhole
<1>4. CASE TakeWeather(s)
  <2> DEFINE q == IF weather = NoReport THEN <<>> ELSE <<Weather(weather)>>
             r == [session[s] EXCEPT !.weatherChanged = FALSE, !.pending = q]
  <2>1. /\ SetSession(s, r) /\ session[s].at = "streaming" /\ session[s].pending = <<>>
        /\ UNCHANGED <<kept, latest, page, taken, skipped>>
    BY <1>4 DEF TakeWeather, server
  <2>2. /\ r.pending = q /\ r.client = session[s].client
        /\ r.feedChanged = session[s].feedChanged
    BY <1>0 DEF Session
  <2>3. q = <<>> \/ q = <<Weather(weather)>>
    OBVIOUS
  <2> HIDE DEF r, q
  <2> QED BY <2>1, <2>2, <2>3, TakeUpWhole
<1>5. CASE Gone(s)
  <2>1. \A u \in Slots : session'[u] = session[u] \/ session'[u] = Free
    BY <1>0, <1>5 DEF Gone, EndTask, SetSession
  <2>2. UNCHANGED <<kept, latest, page, taken, skipped>>
    BY <1>5 DEF Gone
  <2>3. \A u \in Slots, d \in Clients :
           Linked(u, d)' => Linked(u, d) /\ session'[u] = session[u]
    BY <2>1, <2>2, SlotsAssumption DEF Linked, Free
  <2> QED BY <2>2, <2>3, PageWhole
<1> QED BY <1>1, <1>2, <1>3, <1>4, <1>5 DEF Run

LEMMA FollowWhole ==
  ASSUME Inductive, Whole, NEW c \in Clients, Follow(c) \/ Stop(c)
  PROVE  Whole'
<1>0. page[c] \in Page /\ page \in [Clients -> Page]
  BY DEF Inductive, Sound, TypeOK
<1>1. ASSUME EndRun(c), UNCHANGED <<kept, latest, session, taken, skipped>>
      PROVE  Whole'
  <2>1. /\ Ended(page[c]).conn = None /\ Ended(page[c]).inbox = <<>>
        /\ Ended(page[c]).lastNow = page[c].lastNow
    BY <1>0 DEF Ended, Page
  <2> QED BY <1>1, <2>1, LeaveWhole DEF EndRun
<1>2. ASSUME Info(c) \/ Wake(c) PROVE Whole'
  <2>1. \A d \in Clients : /\ page'[d].inbox = page[d].inbox
                           /\ page'[d].lastNow = page[d].lastNow
                           /\ page'[d].conn = page[d].conn
    <3>1. CASE Info(c)
      BY <1>0, <3>1 DEF Info, Page
    <3>2. CASE Wake(c)
      BY <1>0, <3>2 DEF Wake, Page
    <3> QED BY <1>2, <3>1, <3>2
  <2>2. UNCHANGED <<kept, latest, session, taken, skipped>>
    BY <1>2 DEF Info, Wake, server
  <2>3. \A s \in Slots, d \in Clients : Linked(s, d)' => Linked(s, d)
    BY <2>1, <2>2 DEF Linked
  <2> QED BY <2>1, <2>2, <2>3, PageWhole
<1>3. CASE Down(c)
  BY <1>1, <1>3 DEF Down, server
<1>4. CASE Stop(c)
  <2> DEFINE q == [page[c] EXCEPT !.stopped = TRUE, !.open = FALSE,
                                  !.conn = None, !.inbox = <<>>]
  <2>1. /\ page' = [page EXCEPT ![c] = q]
        /\ UNCHANGED <<kept, latest, session, taken, skipped>>
    BY <1>4 DEF Stop, server
  <2>2. q.conn = None /\ q.inbox = <<>> /\ q.lastNow = page[c].lastNow
    BY <1>0 DEF Page
  <2> HIDE DEF q
  <2> QED BY <2>1, <2>2, LeaveWhole
<1>5. CASE Read(c) /\ page[c].stopped
  BY <1>1, <1>5 DEF Read, server
<1>6. CASE Read(c) /\ ~page[c].stopped
  BY <1>6, ReadWhole
<1> QED BY <1>2, <1>3, <1>4, <1>5, <1>6 DEF Follow

LEMMA ServerWhole ==
  ASSUME MaxStepsBack = 0, Inductive, Forward, Whole,
         \/ \E t \in Times : Publish(t)
         \/ \E w \in Reports : TellWeather(w)
         \/ RenewEndpoint \/ RenewHash \/ Restart
  PROVE  Whole'
<1>1. CASE \E t \in Times : Publish(t)
  BY <1>1, PublishWhole
<1>2. CASE \E w \in Reports : TellWeather(w)
  <2>1. \A s \in Slots : /\ session'[s].at = session[s].at
                         /\ session'[s].client = session[s].client
                         /\ session'[s].pending = session[s].pending
                         /\ session'[s].feedChanged = session[s].feedChanged
    <3>1. session' = WeatherTold /\ \A s \in Slots : session[s] \in Session
      BY <1>2 DEF TellWeather, Inductive, Sound, TypeOK
    <3> QED BY <3>1 DEF WeatherTold, Session
  <2>2. UNCHANGED <<kept, latest, page, taken, skipped>>
    BY <1>2 DEF TellWeather
  <2>3. \A s \in Slots, d \in Clients : Linked(s, d)' => Linked(s, d)
    BY <2>1, <2>2 DEF Linked
  <2> QED BY <2>1, <2>2, <2>3, PageWhole
<1>3. CASE RenewEndpoint \/ RenewHash
  <2>1. UNCHANGED <<kept, latest, session, page, taken, skipped>>
    BY <1>3 DEF RenewEndpoint, RenewHash
  <2>2. \A s \in Slots, d \in Clients : Linked(s, d)' => Linked(s, d)
    BY <2>1 DEF Linked
  <2> QED BY <2>1, <2>2, PageWhole
<1>4. CASE Restart
  <2>1. /\ kept' = {} /\ UNCHANGED <<page, taken, skipped>>
        /\ \A s \in Slots : session'[s] = Free
    BY <1>4 DEF Restart
  <2>2. NoGap'
    BY <2>1 DEF NoGap
  <2>3. \A d \in Clients : Caught(Had(d), kept, page[d].inbox)'
    BY <2>1 DEF Caught
  <2>4. \A s \in Slots, d \in Clients : ~Linked(s, d)'
    BY <2>1, SlotsAssumption DEF Linked, Free
  <2> QED BY <2>2, <2>3, <2>4 DEF Whole, Accounted
<1> QED BY <1>1, <1>2, <1>3, <1>4

LEMMA WholeKept ==
  ASSUME MaxStepsBack = 0, Inductive, Forward, Whole, [Next]_vars
  PROVE  Whole'
<1>1. CASE UNCHANGED vars
  <2>1. UNCHANGED <<kept, latest, session, page, taken, skipped>>
    BY <1>1 DEF vars, server
  <2>2. \A s \in Slots, d \in Clients : Linked(s, d)' => Linked(s, d)
    BY <2>1 DEF Linked
  <2> QED BY <2>1, <2>2, PageWhole
<1>2. CASE Next
  BY <1>2, ServerWhole, ServeWhole, RunWhole, FollowWhole DEF Next
<1> QED BY <1>1, <1>2

-----------------------------------------------------------------------------
(* A run begins with its hello.                                            *)

Unserved(s) == session[s].at \in {"refusing", "handshake", "waiting"}
Untouched(c) == page[c].inbox = <<>> /\ ~page[c].delivered

(* A step after which every page that has had nothing had nothing before,  *)
(* of a task that stands as it stood, or is linked to one yet to greet it. *)
LEMMA OpenedKept ==
  ASSUME Opened,
         \A d \in Clients :
           \/ page'[d].inbox = page[d].inbox /\ page'[d].delivered = page[d].delivered
           \/ page'[d].inbox = <<>>
           \/ page'[d].delivered,
         \A s \in Slots, d \in Clients :
           Linked(s, d)' /\ Untouched(d)' =>
             \/ /\ Linked(s, d) /\ Untouched(d)
                /\ session'[s].at = session[s].at
                /\ session'[s].pending = session[s].pending
             \/ session'[s].at \in {"refusing", "handshake", "waiting"}
  PROVE  Opened'
<1>1. \A d \in Clients :
        page'[d].inbox # <<>> /\ ~page'[d].delivered => page'[d].inbox[1].kind = "hello"
  BY DEF Opened
<1>2. ASSUME NEW s \in Slots, NEW d \in Clients PROVE HelloToCome(s, d)'
  BY DEF Opened, HelloToCome, Untouched
<1> QED BY <1>1, <1>2 DEF Opened

LEMMA OpenedStep ==
  ASSUME Inductive, Opened, [Next]_vars
  PROVE  Opened'
<1>0. /\ page \in [Clients -> Page] /\ session \in [Slots -> Session]
      /\ \A c \in Clients : page[c] \in Page /\ page[c].inbox \in Seq(Frames)
      /\ \A s \in Slots : session[s] \in Session /\ session[s].pending \in Seq(Frames)
  BY DEF Inductive, Sound, TypeOK, Page, Session
<1>1. ASSUME NEW c \in Clients, NEW q, page' = [page EXCEPT ![c] = q],
             q.conn = None \/ q.delivered,
             q.inbox = <<>> \/ q.delivered,
             \A s \in Slots : session'[s] = session[s] \/ session'[s] = Free
      PROVE  Opened'
  <2>1. \A d \in Clients : page'[d] = IF d = c THEN q ELSE page[d]
    BY <1>0, <1>1
  <2>2. \A s \in Slots, d \in Clients :
          Linked(s, d)' /\ Untouched(d)' =>
            Linked(s, d) /\ Untouched(d) /\ session'[s] = session[s]
    BY <1>1, <2>1, SlotsAssumption DEF Linked, Untouched, Free
  <2> QED BY <1>1, <2>1, <2>2, OpenedKept
<1>2. ASSUME UNCHANGED page,
             \A s \in Slots : \/ session'[s] = Free
                              \/ /\ session'[s].at = session[s].at
                                 /\ session'[s].pending = session[s].pending
                                 /\ session'[s].client = session[s].client
      PROVE  Opened'
  <2>1. \A s \in Slots, d \in Clients :
          Linked(s, d)' => /\ Linked(s, d) /\ session'[s].at = session[s].at
                           /\ session'[s].pending = session[s].pending
    BY <1>2, SlotsAssumption DEF Linked, Free
  <2> QED BY <1>2, <2>1, OpenedKept DEF Untouched
<1>3. ASSUME NEW t \in Times, Publish(t) PROVE Opened'
  BY <1>2, <1>3, ToldTyped DEF Publish, Inductive, Sound
<1>4. ASSUME NEW w \in Reports, TellWeather(w) PROVE Opened'
  BY <1>2, <1>4, ToldTyped DEF TellWeather, Inductive, Sound
<1>5. CASE RenewEndpoint \/ RenewHash \/ Restart \/ UNCHANGED vars
  BY <1>2, <1>5 DEF RenewEndpoint, RenewHash, Restart, vars, server
<1>6. ASSUME NEW s \in Slots, NEW r, SetSession(s, r), r.client = session[s].client,
             ~Unserved(s) /\ session[s].pending = <<>>, UNCHANGED page
      PROVE  Opened'
  <2>1. \A u \in Slots : session'[u] = IF u = s THEN r ELSE session[u]
    BY <1>0, <1>6 DEF SetSession
  <2>2. \A d \in Clients : Linked(s, d) => ~Untouched(d)
    BY <1>6 DEF Opened, HelloToCome, Untouched, Unserved
  <2>3. \A u \in Slots, d \in Clients :
          Linked(u, d)' /\ Untouched(d)' =>
            Linked(u, d) /\ Untouched(d) /\ session'[u] = session[u]
    BY <1>6, <2>1, <2>2 DEF Linked, Untouched
  <2> QED BY <1>6, <2>3, OpenedKept
<1>7. ASSUME NEW s \in Slots, Run(s) PROVE Opened'
  <2>1. CASE Greet(s)
    <3> DEFINE r == [session[s] EXCEPT !.at = "greeting", !.feedChanged = FALSE,
                       !.pending = Greeting(session[s].since)]
    <3>1. r.client = session[s].client /\ r.pending = Greeting(session[s].since)
      BY <1>0 DEF Session
    <3>2. r.pending # <<>> /\ r.pending[1].kind = "hello"
      BY <3>1 DEF Greeting, Hello
    <3>3. SetSession(s, r) /\ page' = page
      BY <2>1 DEF Greet
    <3> HIDE DEF r
    <3>4. \A u \in Slots : session'[u] = IF u = s THEN r ELSE session[u]
      BY <1>0, <3>3 DEF SetSession
    <3>5. \A u \in Slots, d \in Clients : HelloToCome(u, d)'
      BY <3>1, <3>2, <3>3, <3>4 DEF Opened, HelloToCome, Linked
    <3> QED BY <3>3, <3>5 DEF Opened
  <2>2. CASE GreetWeather(s)
    <3> DEFINE r == [session[s] EXCEPT !.at = "streaming",
                       !.weatherChanged = FALSE, !.pending = WeatherNow]
    <3>1. r.client = session[s].client
      BY <1>0 DEF Session
    <3>2. /\ SetSession(s, r) /\ page' = page
          /\ ~Unserved(s) /\ session[s].pending = <<>>
      BY <2>2 DEF GreetWeather, Unserved
    <3> HIDE DEF r
    <3> QED BY <1>6, <3>1, <3>2
  <2>3. CASE TakeFeed(s)
    <3> DEFINE q == IF latest = 0 THEN <<>> ELSE <<Snapshot(latest)>>
               r == [session[s] EXCEPT !.feedChanged = FALSE, !.pending = q]
    <3>1. r.client = session[s].client
      BY <1>0 DEF Session
    <3>2. /\ SetSession(s, r) /\ page' = page
          /\ ~Unserved(s) /\ session[s].pending = <<>>
      BY <2>3 DEF TakeFeed, Unserved
    <3> HIDE DEF r
    <3> QED BY <1>6, <3>1, <3>2
  <2>4. CASE TakeWeather(s)
    <3> DEFINE q == IF weather = NoReport THEN <<>> ELSE <<Weather(weather)>>
               r == [session[s] EXCEPT !.weatherChanged = FALSE, !.pending = q]
    <3>1. r.client = session[s].client
      BY <1>0 DEF Session
    <3>2. /\ SetSession(s, r) /\ page' = page
          /\ ~Unserved(s) /\ session[s].pending = <<>>
      BY <2>4 DEF TakeWeather, Unserved
    <3> HIDE DEF r
    <3> QED BY <1>6, <3>1, <3>2
  <2>5. CASE Gone(s)
    BY <1>0, <1>2, <2>5 DEF Gone, EndTask, SetSession
  <2> QED BY <1>7, <2>1, <2>2, <2>3, <2>4, <2>5 DEF Run
<1>8. ASSUME NEW c \in Clients, EndRun(c),
             \A s \in Slots : session'[s] = session[s] \/ session'[s] = Free
      PROVE  Opened'
  <2>1. Ended(page[c]).conn = None /\ Ended(page[c]).inbox = <<>>
    BY <1>0 DEF Ended, Page
  <2> QED BY <1>1, <1>8, <2>1 DEF EndRun
<1>9. ASSUME NEW c \in Clients, Info(c) \/ Wake(c) PROVE Opened'
  <2>1. \A d \in Clients : /\ page'[d].inbox = page[d].inbox
                           /\ page'[d].delivered = page[d].delivered
                           /\ page'[d].conn = page[d].conn
    <3>1. CASE Info(c)
      BY <1>0, <3>1 DEF Info, Page
    <3>2. CASE Wake(c)
      BY <1>0, <3>2 DEF Wake, Page
    <3> QED BY <1>9, <3>1, <3>2
  <2>2. session' = session
    BY <1>9 DEF Info, Wake
  <2>3. \A s \in Slots, d \in Clients :
          Linked(s, d)' /\ Untouched(d)' => Linked(s, d) /\ Untouched(d)
    BY <2>1, <2>2 DEF Linked, Untouched
  <2> QED BY <2>1, <2>2, <2>3, OpenedKept
<1>10. ASSUME NEW c \in Clients, Stop(c) PROVE Opened'
  <2> DEFINE q == [page[c] EXCEPT !.stopped = TRUE, !.open = FALSE,
                                  !.conn = None, !.inbox = <<>>]
  <2>1. page' = [page EXCEPT ![c] = q] /\ session' = session
    BY <1>10 DEF Stop
  <2>2. q.conn = None /\ q.inbox = <<>>
    BY <1>0 DEF Page
  <2> HIDE DEF q
  <2> QED BY <1>1, <2>1, <2>2
<1>11. ASSUME NEW c \in Clients, Read(c) PROVE Opened'
  <2>1. CASE page[c].stopped
    BY <1>8, <1>11, <2>1 DEF Read
  <2>2. CASE ~page[c].stopped
    <3>1. /\ page[c].inbox # <<>> /\ Take(c, Head(page[c].inbox)) /\ session' = session
      BY <1>11, <2>2 DEF Read
    <3>2. /\ \A d \in Clients \ {c} : page'[d] = page[d]
          /\ page'[c].delivered
      BY <3>1, TakeParts DEF Inductive, Sound
    <3>3. \A s \in Slots, d \in Clients :
            Linked(s, d)' /\ Untouched(d)' => Linked(s, d) /\ Untouched(d)
      BY <3>1, <3>2 DEF Linked, Untouched
    <3>4. \A d \in Clients : page'[d] = page[d] \/ page'[d].delivered
      BY <3>2
    <3> QED BY <3>1, <3>3, <3>4, OpenedKept
  <2> QED BY <2>1, <2>2
<1>12. ASSUME NEW c \in Clients, Follow(c) PROVE Opened'
  BY <1>8, <1>9, <1>11, <1>12 DEF Follow, Down
<1>13. ASSUME NEW c \in Clients, NEW s \in Slots, Accept(c, s) PROVE Opened'
  <2> DEFINE r == [Free EXCEPT !.client = c, !.since = page[c].lastNow,
                     !.at = IF permits > 0 THEN "handshake" ELSE "refusing"]
  <2>1. r.client = c /\ r.at \in {"handshake", "refusing"}
    BY DEF Free
  <2>2. \A u \in Slots : session'[u] = IF u = s THEN r ELSE session[u]
    BY <1>0, <1>13 DEF Accept, SetSession
  <2> HIDE DEF r
  <2>3. \A d \in Clients : /\ page'[d].inbox = page[d].inbox
                           /\ page'[d].delivered = page[d].delivered
                           /\ page'[d].conn = IF d = c THEN s ELSE page[d].conn
    BY <1>0, <1>13 DEF Accept, Page
  <2>4. \A u \in Slots, d \in Clients :
          Linked(u, d)' /\ Untouched(d)' =>
            \/ Linked(u, d) /\ Untouched(d) /\ session'[u] = session[u]
            \/ session'[u].at \in {"refusing", "handshake", "waiting"}
    BY <2>1, <2>2, <2>3 DEF Linked, Untouched
  <2> QED BY <2>3, <2>4, OpenedKept
<1>14. ASSUME NEW c \in Clients, NEW s \in Slots, TurnAway(c, s) PROVE Opened'
  BY <1>0, <1>8, <1>14 DEF TurnAway, EndTask, SetSession
<1>15. ASSUME NEW c \in Clients, NEW s \in Slots, Admit(c, s) PROVE Opened'
  <2>1. \A u \in Slots :
           session'[u] = IF u = s THEN [session[s] EXCEPT !.at = "waiting"]
                         ELSE session[u]
    BY <1>0, <1>15 DEF Admit, SetSession
  <2>2. /\ \A u \in Slots : session'[u].client = session[u].client
        /\ session'[s].at = "waiting"
    BY <1>0, <2>1 DEF Session
  <2>3. \A d \in Clients : /\ page'[d].inbox = page[d].inbox
                           /\ page'[d].delivered = page[d].delivered
                           /\ page'[d].conn = page[d].conn
    BY <1>0, <1>15 DEF Admit, Page
  <2>4. \A u \in Slots, d \in Clients :
          Linked(u, d)' /\ Untouched(d)' =>
            \/ Linked(u, d) /\ Untouched(d) /\ session'[u] = session[u]
            \/ session'[u].at \in {"refusing", "handshake", "waiting"}
    BY <2>1, <2>2, <2>3 DEF Linked, Untouched
  <2> QED BY <2>3, <2>4, OpenedKept
<1>16. ASSUME NEW c \in Clients, NEW s \in Slots, Write(c, s) PROVE Opened'
  <2> DEFINE q == session[s].pending
             b == page[c].inbox
  <2>1. /\ q # <<>> /\ Linked(s, c) /\ Head(q) = q[1] /\ Head(q) \in Frames
        /\ q \in Seq(Frames) /\ b \in Seq(Frames)
    BY <1>0, <1>16, HeadTailProperties DEF Write
  <2>2. /\ Append(b, Head(q)) # <<>>
        /\ b # <<>> => Append(b, Head(q))[1] = b[1]
        /\ b = <<>> => Append(b, Head(q))[1] = Head(q)
    BY <2>1, AppendProperties, LenProperties, EmptySeq
  <2>3. ~Unserved(s)
    BY <2>1 DEF Unserved, Inductive, Pipeline, Opening
  <2>4. HelloToCome(s, c) /\ (b # <<>> /\ ~page[c].delivered => b[1].kind = "hello")
    BY DEF Opened
  <2>5. ~page[c].delivered => Append(b, Head(q))[1].kind = "hello"
    BY <2>1, <2>2, <2>3, <2>4 DEF HelloToCome, Unserved
  <2>6. /\ session' = [session EXCEPT ![s] = [session[s] EXCEPT !.pending = Tail(@)]]
        /\ page' = [page EXCEPT ![c].inbox = Append(@, Head(q))]
    BY <1>16 DEF Write, SetSession
  <2>7. page'[c].inbox = Append(b, Head(q))
    BY <1>0, <2>6 DEF Page
  <2> HIDE DEF q, b
  <2>8. \A u \in Slots : /\ session'[u].client = session[u].client
                         /\ u # s => session'[u] = session[u]
    BY <1>0, <2>6 DEF Session
  <2>9. \A d \in Clients : /\ page'[d].conn = page[d].conn
                           /\ page'[d].delivered = page[d].delivered
                           /\ d # c => page'[d] = page[d]
    BY <1>0, <2>6 DEF Page
  <2>10. \A d \in Clients : page'[d].inbox # <<>> /\ ~page'[d].delivered =>
                              page'[d].inbox[1].kind = "hello"
    BY <2>5, <2>7, <2>9 DEF Opened
  <2>11. ASSUME NEW u \in Slots, NEW d \in Clients PROVE HelloToCome(u, d)'
    <3>1. CASE d = c
      BY <2>2, <2>7, <3>1 DEF HelloToCome
    <3>2. CASE d # c
      <4>1. Linked(u, d)' => Linked(u, d) /\ u # s
        BY <2>1, <2>8, <2>9, <3>2 DEF Linked
      <4> QED BY <2>8, <2>9, <3>2, <4>1 DEF Opened, HelloToCome
    <3> QED BY <3>1, <3>2
  <2> QED BY <2>10, <2>11 DEF Opened
<1> QED BY <1>3, <1>4, <1>5, <1>7, <1>10, <1>12, <1>13, <1>14, <1>15, <1>16
        DEF Next, Serve

(* What a page takes of the history, up to the last snapshot it took, is   *)
(* all of it, once, through sessions lost and resumed, renewals, restarts  *)
(* and late answers, but for what its session was too slow to look at      *)
(* (feed.rs:40-84, feedWorker.ts:27-60).  A clock set back breaks it.      *)
THEOREM WholeHistoryHolds ==
  ASSUME MaxStepsBack = 0
  PROVE  Spec => []WholeHistory
<1>1. Init => Forward
  BY DEF Init, Forward, Fresh
<1>2. Init => Whole
  <2> SUFFICES ASSUME Init PROVE Whole
    OBVIOUS
  <2>1. kept = {} /\ \A s \in Slots, c \in Clients : ~Linked(s, c)
    BY SlotsAssumption DEF Init, Linked, Free
  <2> QED BY <2>1 DEF Whole, NoGap, Caught, Accounted
<1>3. Init => Opened
  <2> SUFFICES ASSUME Init PROVE Opened
    OBVIOUS
  <2>1. \A c \in Clients : page[c].inbox = <<>>
    BY DEF Init, Fresh
  <2>2. \A s \in Slots, c \in Clients : ~Linked(s, c)
    BY SlotsAssumption DEF Init, Linked, Free
  <2> QED BY <2>1, <2>2 DEF Opened, HelloToCome
<1>4. Inductive /\ Forward /\ Whole /\ Opened => WholeHistory
  <2> SUFFICES ASSUME Inductive, Forward, Whole, Opened PROVE WholeHistory
    OBVIOUS
  <2>1. NoGap
    BY DEF Whole
  <2>2. ASSUME NEW c \in Clients PROVE DOMAIN page[c].inbox = 1 .. Len(page[c].inbox)
    <3>1. page[c].inbox \in Seq(Frames)
      BY DEF Inductive, Sound, TypeOK, Page
    <3> QED BY <3>1, LenProperties
  <2>3. NothingTwice
    BY <2>2 DEF NothingTwice, Inductive, Pipeline, Reading
  <2>4. HelloOpens
    <3> SUFFICES ASSUME NEW c \in Clients, NEW i \in DOMAIN page[c].inbox
                 PROVE  page[c].inbox[i].kind = "hello" <=> i = 1 /\ ~page[c].delivered
      BY DEF HelloOpens
    <3>1. Reading(c) /\ page[c].inbox # <<>>
      BY <2>2, EmptySeq DEF Inductive, Pipeline
    <3> QED BY <2>2, <3>1 DEF Reading, Opened
  <2> QED BY <2>1, <2>3, <2>4 DEF WholeHistory
<1> QED BY <1>1, <1>2, <1>3, <1>4, InitInductive, InductiveStep, ForwardKept,
           WholeKept, OpenedStep, PTL DEF Spec

-----------------------------------------------------------------------------
(* The weather a page shows.                                               *)

(* No report in the frames, and the last of the reports in them: less the  *)
(* first frame, and with one more.                                         *)
LEMMA ReportsOfTail ==
  ASSUME NEW b \in Seq(Frames), b # <<>>, NEW w
  PROVE  /\ EndsWith(b, w) => EndsWith(Tail(b), w)
         /\ Silent(Tail(b)) =>
              /\ Head(b).kind # "weather" => Silent(b)
              /\ Head(b).kind = "weather" /\ EndsWith(b, w) => Head(b).report = w
<1>1. /\ Head(b) = b[1] /\ Len(b) \in Nat /\ Len(b) >= 1
      /\ Len(Tail(b)) = Len(b) - 1
      /\ \A j \in 1 .. Len(Tail(b)) : Tail(b)[j] = b[j + 1]
  BY HeadTailProperties, LenProperties, EmptySeq
<1>2. ASSUME EndsWith(b, w) PROVE EndsWith(Tail(b), w)
  <2> SUFFICES ASSUME NEW i \in 1 .. Len(Tail(b)), Tail(b)[i].kind = "weather",
                      \A j \in i + 1 .. Len(Tail(b)) : Tail(b)[j].kind # "weather"
               PROVE  Tail(b)[i].report = w
    BY DEF EndsWith
  <2>1. i + 1 \in 1 .. Len(b) /\ Tail(b)[i] = b[i + 1]
    BY <1>1
  <2>2. ASSUME NEW j \in (i + 1) + 1 .. Len(b) PROVE b[j].kind # "weather"
    <3>1. /\ j - 1 \in i + 1 .. Len(Tail(b)) /\ j - 1 \in 1 .. Len(Tail(b))
          /\ (j - 1) + 1 = j
      BY <1>1
    <3> QED BY <1>1, <3>1
  <2> QED BY <1>2, <2>1, <2>2 DEF EndsWith
<1>3. ASSUME Silent(Tail(b)) PROVE \A j \in 2 .. Len(b) : b[j].kind # "weather"
  <2> SUFFICES ASSUME NEW j \in 2 .. Len(b) PROVE b[j].kind # "weather"
    OBVIOUS
  <2>1. j - 1 \in 1 .. Len(Tail(b)) /\ (j - 1) + 1 = j
    BY <1>1
  <2> QED BY <1>1, <1>3, <2>1 DEF Silent
<1>4. ASSUME Silent(Tail(b)), Head(b).kind # "weather" PROVE Silent(b)
  <2>1. \A j \in 1 .. Len(b) : j = 1 \/ j \in 2 .. Len(b)
    BY <1>1
  <2> QED BY <1>1, <1>3, <1>4, <2>1 DEF Silent
<1>5. ASSUME Silent(Tail(b)), Head(b).kind = "weather", EndsWith(b, w)
      PROVE  Head(b).report = w
  <2>1. 1 \in 1 .. Len(b) /\ 1 + 1 = 2
    BY <1>1
  <2> QED BY <1>1, <1>3, <1>5, <2>1 DEF EndsWith
<1> QED BY <1>2, <1>4, <1>5

LEMMA ReportsOfAppend ==
  ASSUME NEW b \in Seq(Frames), NEW f \in Frames, NEW w
  PROVE  /\ f.kind = "weather" /\ f.report = w => EndsWith(Append(b, f), w)
         /\ f.kind # "weather" /\ EndsWith(b, w) => EndsWith(Append(b, f), w)
         /\ Silent(Append(b, f)) => f.kind # "weather" /\ Silent(b)
<1> DEFINE a == Append(b, f)
           n == Len(b)
<1>1. /\ n \in Nat /\ Len(a) = n + 1 /\ a[n + 1] = f
      /\ \A j \in 1 .. n : a[j] = b[j]
  BY AppendProperties, LenProperties
<1> HIDE DEF a
<1>2. ASSUME f.kind = "weather", f.report = w PROVE EndsWith(a, w)
  <2> SUFFICES ASSUME NEW i \in 1 .. Len(a), a[i].kind = "weather",
                      \A j \in i + 1 .. Len(a) : a[j].kind # "weather"
               PROVE  a[i].report = w
    BY DEF EndsWith
  <2>1. i = n + 1
    <3>1. i # n + 1 => n + 1 \in i + 1 .. Len(a)
      BY <1>1
    <3> QED BY <1>1, <1>2, <3>1
  <2> QED BY <1>1, <1>2, <2>1
<1>3. ASSUME f.kind # "weather", EndsWith(b, w) PROVE EndsWith(a, w)
  <2> SUFFICES ASSUME NEW i \in 1 .. Len(a), a[i].kind = "weather",
                      \A j \in i + 1 .. Len(a) : a[j].kind # "weather"
               PROVE  a[i].report = w
    BY DEF EndsWith
  <2>1. i \in 1 .. n
    BY <1>1, <1>3
  <2>2. ASSUME NEW j \in i + 1 .. n PROVE b[j].kind # "weather"
    <3>1. j \in i + 1 .. Len(a) /\ j \in 1 .. n
      BY <1>1, <2>1
    <3> QED BY <1>1, <3>1
  <2> QED BY <1>1, <1>3, <2>1, <2>2 DEF EndsWith
<1>4. ASSUME Silent(a) PROVE f.kind # "weather" /\ Silent(b)
  <2>1. n + 1 \in 1 .. Len(a) /\ \A j \in 1 .. n : j \in 1 .. Len(a)
    BY <1>1
  <2> QED BY <1>1, <1>4, <2>1 DEF Silent, n
<1> QED BY <1>2, <1>3, <1>4 DEF a

LEMMA ReportsOfOne ==
  ASSUME NEW f, NEW w
  PROVE  /\ EndsWith(<<>>, w) /\ Silent(<<>>)
         /\ f.kind = "weather" /\ f.report = w =>
              EndsWith(<<f>>, w) /\ ~Silent(<<f>>)
         /\ f.kind # "weather" => EndsWith(<<f>>, w) /\ Silent(<<f>>)
<1>1. Len(<<f>>) = 1 /\ <<f>>[1] = f /\ 1 .. 1 = {1} /\ Len(<<>>) = 0
  BY EmptySeq
<1>2. EndsWith(<<>>, w) /\ Silent(<<>>)
  BY <1>1 DEF EndsWith, Silent
<1>3. Silent(<<f>>) <=> f.kind # "weather"
  BY <1>1 DEF Silent
<1>4. f.kind # "weather" \/ f.report = w => EndsWith(<<f>>, w)
  BY <1>1 DEF EndsWith
<1> QED BY <1>2, <1>3, <1>4

(* A step that leaves a streaming task, its page's frames and the weather  *)
(* on both ends alone.                                                     *)
LEMMA ShowingKept ==
  ASSUME AllUpToDate, NEW s \in Slots, NEW c \in Clients,
         Linked(s, c)' /\ session'[s].at = "streaming" /\ ~session'[s].weatherChanged =>
           /\ Linked(s, c) /\ session[s].at = "streaming" /\ ~session[s].weatherChanged
           /\ session'[s].pending = session[s].pending
           /\ page'[c].inbox = page[c].inbox /\ page'[c].weather = page[c].weather
           /\ weather' = weather
  PROVE  Showing(s, c)'
BY DEF AllUpToDate, Showing

(* A step of pages and tasks that are only linked, told of the feed, let   *)
(* go or ended.                                                            *)
LEMMA UpToDateKept ==
  ASSUME AllUpToDate, weather' = weather,
         \A s \in Slots :
           \/ session'[s] = Free
           \/ /\ session'[s].weatherChanged = session[s].weatherChanged
              /\ session'[s].at = session[s].at
              /\ session'[s].pending = session[s].pending
           \/ ~session'[s].weatherChanged /\ session'[s].at # "streaming"
           \/ /\ session'[s].weatherChanged = session[s].weatherChanged
              /\ session'[s].at # "streaming",
         \A s \in Slots, c \in Clients :
           Linked(s, c)' /\ session'[s].at = "streaming" =>
             /\ Linked(s, c) /\ page'[c].inbox = page[c].inbox
             /\ page'[c].weather = page[c].weather
  PROVE  AllUpToDate'
<1>0. ~Free.weatherChanged /\ Free.at = "free"
  BY DEF Free
<1>1. \A s \in Slots : Told(s)'
  BY <1>0 DEF AllUpToDate, Told
<1>2. ASSUME NEW s \in Slots, NEW c \in Clients PROVE Showing(s, c)'
  BY <1>0, ShowingKept
<1> QED BY <1>1, <1>2 DEF AllUpToDate

(* A task that streams, from the greeting on or from before, takes up the  *)
(* weather, unless it is to be told of it, or anything else after it.      *)
LEMMA TellingKept ==
  ASSUME Inductive, AllUpToDate, NEW s \in Slots, NEW r, SetSession(s, r),
         r.client = session[s].client, r.at = "streaming", session[s].pending = <<>>,
         r.weatherChanged => session[s].weatherChanged,
         \/ r.pending = <<Weather(weather)>>
         \/ /\ session[s].at = "streaming"
            /\ r.weatherChanged = session[s].weatherChanged
            /\ \/ r.pending = <<>>
               \/ r.pending = <<Snapshot(latest)>>,
         UNCHANGED <<weather, page>>
  PROVE  AllUpToDate'
<1>1. \A u \in Slots : session'[u] = IF u = s THEN r ELSE session[u]
  BY DEF SetSession, Inductive, Sound, TypeOK
<1>2. /\ Weather(weather).kind = "weather" /\ Weather(weather).report = weather
      /\ Snapshot(latest).kind # "weather"
  BY DEF Weather, Snapshot
<1>3. /\ EndsWith(r.pending, weather)
      /\ Silent(r.pending) => /\ session[s].at = "streaming"
                              /\ r.weatherChanged = session[s].weatherChanged
  BY <1>2, ReportsOfOne
<1>4. Silent(session[s].pending)
  BY ReportsOfOne
<1>5. Len(r.pending) <= 1
  <2>1. CASE r.pending = <<>>
    <3>1. Len(r.pending) = 0
      BY <2>1, EmptySeq
    <3> QED BY <3>1
  <2>2. CASE r.pending = <<Weather(weather)>>
    <3>1. Len(r.pending) = 1
      BY <2>2
    <3> QED BY <3>1
  <2>3. CASE r.pending = <<Snapshot(latest)>>
    <3>1. Len(r.pending) = 1
      BY <2>3
    <3> QED BY <3>1
  <2> QED BY <2>1, <2>2, <2>3
<1>6. ASSUME NEW u \in Slots PROVE Told(u)'
  BY <1>1, <1>5 DEF AllUpToDate, Told
<1>7. ASSUME NEW u \in Slots, NEW c \in Clients PROVE Showing(u, c)'
  <2>1. CASE u = s
    <3>1. Showing(s, c)
      BY DEF AllUpToDate
    <3> QED BY <1>1, <1>3, <1>4, <2>1, <3>1 DEF Showing, Linked
  <2>2. CASE u # s
    BY <1>1, <2>2, ShowingKept DEF Linked
  <2> QED BY <2>1, <2>2
<1> QED BY <1>6, <1>7 DEF AllUpToDate

(* The report a task writes travels after all that were written before.    *)
LEMMA WriteUpToDate ==
  ASSUME Inductive, AllUpToDate, NEW c \in Clients, NEW s \in Slots, Write(c, s)
  PROVE  AllUpToDate'
<1> DEFINE q == session[s].pending
           b == page[c].inbox
           f == Head(q)
<1>1. /\ session[s] \in Session /\ page[c] \in Page /\ session \in [Slots -> Session]
      /\ page \in [Clients -> Page] /\ q \in Seq(Frames) /\ b \in Seq(Frames)
      /\ q # <<>> /\ Linked(s, c) /\ weather' = weather
  BY DEF Inductive, Sound, TypeOK, Session, Page, Write, server
<1>2. /\ f \in Frames /\ f = q[1] /\ Len(q) \in Nat /\ Len(q) >= 1
      /\ Tail(q) \in Seq(Frames) /\ Len(Tail(q)) = Len(q) - 1
  BY <1>1, HeadTailProperties, LenProperties, EmptySeq
<1>3. /\ session' = [session EXCEPT ![s] = [session[s] EXCEPT !.pending = Tail(@)]]
      /\ page' = [page EXCEPT ![c].inbox = Append(@, f)]
  BY DEF Write, SetSession
<1> HIDE DEF q, b, f
<1>4. \A u \in Slots : /\ session'[u].client = session[u].client
                       /\ session'[u].at = session[u].at
                       /\ session'[u].weatherChanged = session[u].weatherChanged
                       /\ u # s => session'[u].pending = session[u].pending
  BY <1>1, <1>3 DEF Session
<1>5. session'[s].pending = Tail(q)
  BY <1>1, <1>3 DEF Session, q
<1>6. \A d \in Clients : /\ page'[d].conn = page[d].conn
                         /\ page'[d].weather = page[d].weather
                         /\ d # c => page'[d].inbox = page[d].inbox
  BY <1>1, <1>3 DEF Page
<1>7. page'[c].inbox = Append(b, f)
  BY <1>1, <1>3 DEF Page, b
<1>8. \A u \in Slots : Told(u)'
  <2>1. \A u \in Slots : u = s \/ session'[u].pending = session[u].pending
    BY <1>4
  <2>2. Len(q) <= 1 => Len(Tail(q)) <= 1
    BY <1>2
  <2> QED BY <1>1, <1>4, <1>5, <2>1, <2>2 DEF AllUpToDate, Told, q
<1>9. ASSUME session[s].at = "streaming", ~session[s].weatherChanged
      PROVE  Showing(s, c)'
  <2>0. Len(q) <= 1
    BY <1>9 DEF AllUpToDate, Told, q
  <2>1. Showing(s, c)
    BY DEF AllUpToDate
  <2>2. Tail(q) = <<>>
    <3>1. Len(Tail(q)) = 0
      BY <1>2, <2>0
    <3> QED BY <1>2, <3>1, EmptySeq
  <2>3. EndsWith(Tail(q), weather) /\ Silent(Tail(q))
    BY <2>2, ReportsOfOne
  <2>4. CASE f.kind = "weather"
    <3>1. f.report = weather
      BY <1>1, <1>9, <2>1, <2>3, <2>4, ReportsOfTail DEF Showing, q, f
    <3>2. EndsWith(Append(b, f), weather) /\ ~Silent(Append(b, f))
      BY <1>1, <1>2, <2>4, <3>1, ReportsOfAppend
    <3> QED BY <1>1, <1>5, <1>7, <2>3, <3>2 DEF Showing
  <2>5. CASE f.kind # "weather"
    <3>1. Silent(q)
      BY <1>1, <2>3, <2>5, ReportsOfTail DEF f
    <3>2. EndsWith(b, weather) /\ (Silent(b) => page[c].weather = weather)
      BY <1>1, <1>9, <2>1, <3>1 DEF Showing, q, b
    <3>3. /\ EndsWith(Append(b, f), weather)
          /\ Silent(Append(b, f)) => page[c].weather = weather
      BY <1>1, <1>2, <2>5, <3>2, ReportsOfAppend
    <3> QED BY <1>1, <1>5, <1>6, <1>7, <2>3, <3>3 DEF Showing
  <2> QED BY <2>4, <2>5
<1>10. ASSUME NEW u \in Slots, NEW d \in Clients PROVE Showing(u, d)'
  <2>1. CASE u = s /\ d = c
    <3>1. CASE session[s].at = "streaming" /\ ~session[s].weatherChanged
      BY <1>9, <2>1, <3>1
    <3>2. CASE ~(session[s].at = "streaming" /\ ~session[s].weatherChanged)
      BY <1>4, <2>1, <3>2 DEF Showing
    <3> QED BY <3>1, <3>2
  <2>2. CASE u # s \/ d # c
    <3>1. Linked(u, d)' => Linked(u, d) /\ u # s /\ d # c
      BY <1>1, <1>4, <1>6, <2>2 DEF Linked
    <3> QED BY <1>1, <1>4, <1>6, <3>1, ShowingKept
  <2> QED BY <2>1, <2>2
<1> QED BY <1>8, <1>10 DEF AllUpToDate

LEMMA ReadUpToDate ==
  ASSUME Inductive, AllUpToDate, NEW c \in Clients, Read(c), ~page[c].stopped
  PROVE  AllUpToDate'
<1> DEFINE b == page[c].inbox
           f == Head(b)
<1>1. /\ b \in Seq(Frames) /\ b # <<>> /\ Take(c, Head(page[c].inbox))
      /\ UNCHANGED <<weather, session>>
  BY DEF Inductive, Sound, TypeOK, Page, Read, server
<1>2. /\ \A d \in Clients \ {c} : page'[d] = page[d]
      /\ page'[c].inbox = Tail(b) /\ page'[c].conn = page[c].conn
      /\ page'[c].weather = IF f.kind = "weather" THEN f.report ELSE page[c].weather
  BY <1>1, TakeParts DEF Inductive, Sound
<1> HIDE DEF b, f
<1>3. \A s \in Slots : Told(s)'
  BY <1>1 DEF AllUpToDate, Told
<1>4. ASSUME NEW s \in Slots PROVE Showing(s, c)'
  <2> SUFFICES ASSUME Linked(s, c), session[s].at = "streaming",
                      ~session[s].weatherChanged, Silent(session[s].pending)
               PROVE  /\ EndsWith(Tail(b), weather)
                      /\ Silent(Tail(b)) => page'[c].weather = weather
    BY <1>1, <1>2 DEF AllUpToDate, Showing, Linked
  <2>1. EndsWith(b, weather) /\ (Silent(b) => page[c].weather = weather)
    BY DEF AllUpToDate, Showing, b
  <2> QED BY <1>1, <1>2, <2>1, ReportsOfTail DEF f
<1>5. ASSUME NEW s \in Slots, NEW d \in Clients, d # c PROVE Showing(s, d)'
  BY <1>1, <1>2, <1>5, ShowingKept DEF Linked
<1> QED BY <1>3, <1>4, <1>5 DEF AllUpToDate

LEMMA UpToDateStep ==
  ASSUME Inductive, AllUpToDate, [Next]_vars
  PROVE  AllUpToDate'
<1>0. /\ page \in [Clients -> Page] /\ session \in [Slots -> Session]
      /\ \A c \in Clients : page[c] \in Page
      /\ \A s \in Slots : session[s] \in Session
  BY DEF Inductive, Sound, TypeOK
<1>1. ASSUME NEW c \in Clients, NEW q, page' = [page EXCEPT ![c] = q],
             q.conn = None,
             \A s \in Slots : session'[s] = session[s] \/ session'[s] = Free,
             weather' = weather
      PROVE  AllUpToDate'
  <2>1. \A d \in Clients : page'[d] = IF d = c THEN q ELSE page[d]
    BY <1>0, <1>1
  <2>2. \A s \in Slots, d \in Clients :
          Linked(s, d)' => /\ Linked(s, d) /\ page'[d].inbox = page[d].inbox
                           /\ page'[d].weather = page[d].weather
    BY <1>1, <2>1, SlotsAssumption DEF Linked, Free
  <2> QED BY <1>1, <2>2, UpToDateKept
<1>2. ASSUME NEW t \in Times, Publish(t) PROVE AllUpToDate'
  <2>1. \A s \in Slots : /\ session'[s].weatherChanged = session[s].weatherChanged
                         /\ session'[s].at = session[s].at
                         /\ session'[s].client = session[s].client
                         /\ session'[s].pending = session[s].pending
    BY <1>0, <1>2 DEF Publish, FeedTold, Session
  <2>2. UNCHANGED <<weather, page>>
    BY <1>2 DEF Publish
  <2> QED BY <2>1, <2>2, UpToDateKept DEF Linked
<1>3. ASSUME NEW w \in Reports, TellWeather(w) PROVE AllUpToDate'
  <2>1. weather' = w /\ w # NoReport /\ session' = WeatherTold
    BY <1>3 DEF TellWeather
  <2>2. \A s \in Slots : /\ session'[s].at = session[s].at
                         /\ session'[s].pending = session[s].pending
                         /\ session[s].at # "free" => session'[s].weatherChanged
    BY <1>0, <2>1 DEF WeatherTold, Session
  <2>3. \A s \in Slots : Told(s)'
    BY <2>1, <2>2 DEF AllUpToDate, Told
  <2>4. \A s \in Slots, c \in Clients : Showing(s, c)'
    BY <2>2 DEF Showing
  <2> QED BY <2>3, <2>4 DEF AllUpToDate
<1>4. CASE Restart
  <2>1. \A s \in Slots : session'[s] = Free
    BY <1>4 DEF Restart
  <2>2. /\ \A s \in Slots : Told(s)'
        /\ \A s \in Slots, c \in Clients : Showing(s, c)'
    BY <2>1 DEF Told, Showing, Free
  <2> QED BY <2>2 DEF AllUpToDate
<1>5. CASE RenewEndpoint \/ RenewHash \/ UNCHANGED vars
  <2>1. UNCHANGED <<weather, session, page>>
    BY <1>5 DEF RenewEndpoint, RenewHash, vars, server
  <2> QED BY <2>1, UpToDateKept DEF Linked
<1>6. ASSUME NEW s \in Slots, NEW r, SetSession(s, r), r.client = session[s].client,
             r.at # "streaming", r.weatherChanged = session[s].weatherChanged,
             UNCHANGED <<weather, page>>
      PROVE  AllUpToDate'
  <2>1. \A u \in Slots : session'[u] = IF u = s THEN r ELSE session[u]
    BY <1>0, <1>6 DEF SetSession
  <2> QED BY <1>6, <2>1, UpToDateKept DEF Linked
<1>7. ASSUME NEW s \in Slots, Run(s) PROVE AllUpToDate'
  <2>1. CASE Greet(s)
    <3> DEFINE r == [session[s] EXCEPT !.at = "greeting", !.feedChanged = FALSE,
                       !.pending = Greeting(session[s].since)]
    <3>1. /\ r.client = session[s].client /\ r.at # "streaming"
          /\ r.weatherChanged = session[s].weatherChanged
      BY <1>0 DEF Session
    <3>2. SetSession(s, r) /\ UNCHANGED <<weather, page>>
      BY <2>1 DEF Greet, server
    <3> HIDE DEF r
    <3> QED BY <1>6, <3>1, <3>2
  <2>2. CASE GreetWeather(s)
    <3> DEFINE r == [session[s] EXCEPT !.at = "streaming",
                       !.weatherChanged = FALSE, !.pending = WeatherNow]
    <3>1. /\ r.client = session[s].client /\ r.at = "streaming"
          /\ ~r.weatherChanged /\ r.pending = <<Weather(weather)>>
      BY <1>0 DEF Session, WeatherNow
    <3>2. /\ SetSession(s, r) /\ UNCHANGED <<weather, page>>
          /\ session[s].pending = <<>>
      BY <2>2 DEF GreetWeather, server
    <3> HIDE DEF r
    <3> QED BY <3>1, <3>2, TellingKept
  <2>3. CASE TakeFeed(s)
    <3> DEFINE q == IF latest = 0 THEN <<>> ELSE <<Snapshot(latest)>>
               r == [session[s] EXCEPT !.feedChanged = FALSE, !.pending = q]
    <3>1. /\ SetSession(s, r) /\ UNCHANGED <<weather, page>>
          /\ session[s].at = "streaming" /\ session[s].pending = <<>>
      BY <2>3 DEF TakeFeed, server
    <3>2. /\ r.client = session[s].client /\ r.at = "streaming"
          /\ r.weatherChanged = session[s].weatherChanged /\ r.pending = q
      BY <1>0, <3>1 DEF Session
    <3>3. q = <<>> \/ q = <<Snapshot(latest)>>
      OBVIOUS
    <3> HIDE DEF r, q
    <3> QED BY <3>1, <3>2, <3>3, TellingKept
  <2>4. CASE TakeWeather(s)
    <3> DEFINE q == IF weather = NoReport THEN <<>> ELSE <<Weather(weather)>>
               r == [session[s] EXCEPT !.weatherChanged = FALSE, !.pending = q]
    <3>1. /\ SetSession(s, r) /\ UNCHANGED <<weather, page>>
          /\ session[s].at = "streaming" /\ session[s].pending = <<>>
          /\ session[s].weatherChanged
      BY <2>4 DEF TakeWeather, server
    <3>2. /\ r.client = session[s].client /\ r.at = "streaming"
          /\ ~r.weatherChanged /\ r.pending = q
      BY <1>0, <3>1 DEF Session
    <3>3. weather # NoReport
      BY <3>1 DEF AllUpToDate, Told
    <3>4. q = <<Weather(weather)>>
      BY <3>3
    <3> HIDE DEF r, q
    <3> QED BY <3>1, <3>2, <3>4, TellingKept
  <2>5. CASE Gone(s)
    <3>1. \A u \in Slots : session'[u] = session[u] \/ session'[u] = Free
      BY <1>0, <2>5 DEF Gone, EndTask, SetSession
    <3>2. UNCHANGED <<weather, page>>
      BY <2>5 DEF Gone
    <3>3. Free.at = "free"
      BY DEF Free
    <3> QED BY <3>1, <3>2, <3>3, UpToDateKept DEF Linked
  <2> QED BY <1>7, <2>1, <2>2, <2>3, <2>4, <2>5 DEF Run
<1>8. ASSUME NEW c \in Clients, EndRun(c), weather' = weather,
             \A s \in Slots : session'[s] = session[s] \/ session'[s] = Free
      PROVE  AllUpToDate'
  <2>1. Ended(page[c]).conn = None
    BY <1>0 DEF Ended, Page
  <2> QED BY <1>1, <1>8, <2>1 DEF EndRun
<1>9. ASSUME NEW c \in Clients, Info(c) \/ Wake(c) PROVE AllUpToDate'
  <2>1. \A d \in Clients : /\ page'[d].inbox = page[d].inbox
                           /\ page'[d].weather = page[d].weather
                           /\ page'[d].conn = page[d].conn
    <3>1. CASE Info(c)
      BY <1>0, <3>1 DEF Info, Page
    <3>2. CASE Wake(c)
      BY <1>0, <3>2 DEF Wake, Page
    <3> QED BY <1>9, <3>1, <3>2
  <2>2. UNCHANGED <<weather, session>>
    BY <1>9 DEF Info, Wake, server
  <2> QED BY <2>1, <2>2, UpToDateKept DEF Linked
<1>10. ASSUME NEW c \in Clients, Stop(c) PROVE AllUpToDate'
  <2> DEFINE q == [page[c] EXCEPT !.stopped = TRUE, !.open = FALSE,
                                  !.conn = None, !.inbox = <<>>]
  <2>1. page' = [page EXCEPT ![c] = q] /\ UNCHANGED <<weather, session>>
    BY <1>10 DEF Stop, server
  <2>2. q.conn = None
    BY <1>0 DEF Page
  <2> HIDE DEF q
  <2> QED BY <1>1, <2>1, <2>2
<1>11. ASSUME NEW c \in Clients, Follow(c) PROVE AllUpToDate'
  <2>1. CASE Read(c) /\ page[c].stopped
    BY <1>8, <2>1 DEF Read, server
  <2>2. CASE Read(c) /\ ~page[c].stopped
    BY <2>2, ReadUpToDate
  <2>3. CASE Down(c)
    BY <1>8, <2>3 DEF Down, server
  <2> QED BY <1>9, <1>11, <2>1, <2>2, <2>3 DEF Follow
<1>12. ASSUME NEW c \in Clients, NEW s \in Slots, Accept(c, s) PROVE AllUpToDate'
  <2> DEFINE r == [Free EXCEPT !.client = c, !.since = page[c].lastNow,
                     !.at = IF permits > 0 THEN "handshake" ELSE "refusing"]
  <2>1. r.client = c /\ r.at # "streaming" /\ ~r.weatherChanged
    BY DEF Free
  <2>2. \A u \in Slots : session'[u] = IF u = s THEN r ELSE session[u]
    BY <1>0, <1>12 DEF Accept, SetSession
  <2> HIDE DEF r
  <2>3. \A d \in Clients : /\ page'[d].inbox = page[d].inbox
                           /\ page'[d].weather = page[d].weather
                           /\ page'[d].conn = IF d = c THEN s ELSE page[d].conn
    BY <1>0, <1>12 DEF Accept, Page
  <2>4. \A u \in Slots, d \in Clients :
          Linked(u, d)' /\ session'[u].at = "streaming" => Linked(u, d)
    BY <2>1, <2>2, <2>3 DEF Linked
  <2>5. weather' = weather
    BY <1>12 DEF Accept
  <2>6. \A u \in Slots : \/ session'[u] = session[u]
                         \/ ~session'[u].weatherChanged /\ session'[u].at # "streaming"
    BY <2>1, <2>2
  <2>7. \A u \in Slots, d \in Clients :
          Linked(u, d)' /\ session'[u].at = "streaming" =>
            /\ Linked(u, d) /\ page'[d].inbox = page[d].inbox
            /\ page'[d].weather = page[d].weather
    BY <2>3, <2>4
  <2> QED BY <2>5, <2>6, <2>7, UpToDateKept
<1>13. ASSUME NEW c \in Clients, NEW s \in Slots, TurnAway(c, s) PROVE AllUpToDate'
  BY <1>0, <1>8, <1>13 DEF TurnAway, EndTask, SetSession
<1>14. ASSUME NEW c \in Clients, NEW s \in Slots, Admit(c, s) PROVE AllUpToDate'
  <2>1. \A u \in Slots :
           session'[u] = IF u = s THEN [session[s] EXCEPT !.at = "waiting"]
                         ELSE session[u]
    BY <1>0, <1>14 DEF Admit, SetSession
  <2>2. /\ \A u \in Slots : /\ session'[u].client = session[u].client
                           /\ session'[u].weatherChanged = session[u].weatherChanged
        /\ session'[s].at = "waiting"
    BY <1>0, <2>1 DEF Session
  <2>3. \A d \in Clients : /\ page'[d].inbox = page[d].inbox
                           /\ page'[d].weather = page[d].weather
                           /\ page'[d].conn = page[d].conn
    BY <1>0, <1>14 DEF Admit, Page
  <2>4. weather' = weather
    BY <1>14 DEF Admit, server
  <2>5. \A u \in Slots : \/ session'[u] = session[u]
                         \/ /\ session'[u].weatherChanged = session[u].weatherChanged
                            /\ session'[u].at # "streaming"
    BY <2>1, <2>2
  <2>6. \A u \in Slots, d \in Clients :
          Linked(u, d)' => /\ Linked(u, d) /\ page'[d].inbox = page[d].inbox
                           /\ page'[d].weather = page[d].weather
    BY <2>2, <2>3 DEF Linked
  <2> QED BY <2>4, <2>5, <2>6, UpToDateKept
<1> QED BY <1>2, <1>3, <1>4, <1>5, <1>7, <1>10, <1>11, <1>12, <1>13, <1>14,
           WriteUpToDate DEF Next, Serve

(* Once all there is to tell a page has been read, it shows the weather as *)
(* the server has it, none after a restart: no report is overtaken by an   *)
(* older one between the channel and the page (transport.rs:196-236).      *)
THEOREM WeatherSettledHolds == Spec => []WeatherSettled
<1>1. Init => AllUpToDate
  <2> SUFFICES ASSUME Init PROVE AllUpToDate
    OBVIOUS
  <2>1. \A s \in Slots : session[s].at = "free" /\ ~session[s].weatherChanged
    BY DEF Init, Free
  <2> QED BY <2>1 DEF AllUpToDate, Told, Showing
<1>2. Inductive /\ AllUpToDate => WeatherSettled
  <2> SUFFICES ASSUME Inductive, AllUpToDate, NEW c \in Clients, NEW s \in Slots,
                      Linked(s, c), session[s].at = "streaming",
                      session[s].pending = <<>>, ~session[s].weatherChanged,
                      \A i \in DOMAIN page[c].inbox : page[c].inbox[i].kind # "weather"
               PROVE  page[c].weather = weather
    BY DEF WeatherSettled
  <2>1. DOMAIN page[c].inbox = 1 .. Len(page[c].inbox)
    <3>1. page[c].inbox \in Seq(Frames)
      BY DEF Inductive, Sound, TypeOK, Page
    <3> QED BY <3>1, LenProperties
  <2>2. Silent(page[c].inbox) /\ Silent(session[s].pending)
    BY <2>1, ReportsOfOne DEF Silent
  <2> QED BY <2>2 DEF AllUpToDate, Showing
<1> QED BY <1>1, <1>2, InitInductive, InductiveStep, UpToDateStep, PTL DEF Spec

-----------------------------------------------------------------------------
(* What a stopped page is handed.                                          *)

(* Once stopped, a page is handed nothing more, whatever was in flight to  *)
(* it, or was yet to come of a session it was opening (push.ts:104-145).   *)
THEOREM NothingAfterStopHolds == Spec => NothingAfterStop
<1> DEFINE Handed == \A c \in Clients : page[c].stopped =>
             taken'[c] = taken[c] /\ page'[c].weather = page[c].weather
<1>1. Inductive /\ [Next]_vars => [Handed]_vars
  <2> SUFFICES ASSUME Inductive, Next PROVE Handed
    OBVIOUS
  <2>0. /\ page \in [Clients -> Page] /\ \A c \in Clients : page[c] \in Page
    BY DEF Inductive, Sound, TypeOK
  <2>1. ASSUME UNCHANGED <<page, taken>> PROVE Handed
    BY <2>1
  <2>2. ASSUME NEW c \in Clients, EndRun(c), taken' = taken PROVE Handed
    <3>1. Ended(page[c]).weather = page[c].weather
      BY <2>0 DEF Ended, Page
    <3> QED BY <2>0, <2>2, <3>1 DEF EndRun
  <2>3. ASSUME \/ \E t \in Times : Publish(t)
               \/ \E w \in Reports : TellWeather(w)
               \/ RenewEndpoint \/ RenewHash \/ Restart
               \/ \E s \in Slots : Run(s)
        PROVE  Handed
    BY <2>1, <2>3 DEF Publish, TellWeather, RenewEndpoint, RenewHash, Restart,
       Run, Greet, GreetWeather, TakeFeed, TakeWeather, Gone
  <2>4. ASSUME NEW c \in Clients, NEW s \in Slots, Serve(c, s) PROVE Handed
    <3>1. CASE Accept(c, s)
      BY <2>0, <3>1 DEF Accept, Page
    <3>2. CASE TurnAway(c, s)
      BY <2>2, <3>2 DEF TurnAway
    <3>3. CASE Admit(c, s)
      BY <2>0, <3>3 DEF Admit, Page
    <3>4. CASE Write(c, s)
      BY <2>0, <3>4 DEF Write, Page
    <3> QED BY <2>4, <3>1, <3>2, <3>3, <3>4 DEF Serve
  <2>5. ASSUME NEW c \in Clients, Follow(c) \/ Stop(c) PROVE Handed
    <3>1. CASE Info(c)
      BY <2>0, <3>1 DEF Info, Page
    <3>2. CASE Wake(c)
      BY <2>0, <3>2 DEF Wake, Page
    <3>3. CASE Down(c)
      BY <2>2, <3>3 DEF Down
    <3>4. CASE Stop(c)
      BY <2>0, <3>4 DEF Stop, Page
    <3>5. CASE Read(c) /\ page[c].stopped
      BY <2>2, <3>5 DEF Read
    <3>6. CASE Read(c) /\ ~page[c].stopped
      <4>1. page[c].inbox # <<>> /\ Take(c, Head(page[c].inbox))
        BY <3>6 DEF Read
      <4>2. \A d \in Clients \ {c} : page'[d] = page[d] /\ taken'[d] = taken[d]
        BY <4>1, TakeParts DEF Inductive, Sound
      <4> QED BY <3>6, <4>2
    <3> QED BY <2>5, <3>1, <3>2, <3>3, <3>4, <3>5, <3>6 DEF Follow
  <2> QED BY <2>3, <2>4, <2>5 DEF Next
<1> QED BY <1>1, InitInductive, InductiveStep, PTL DEF Spec, NothingAfterStop
=============================================================================
