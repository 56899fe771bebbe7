-------------------------------- MODULE Feed --------------------------------
(***************************************************************************)
(* The live feed: one server that publishes snapshots of the traffic, the  *)
(* sessions it serves, and the pages that follow it, each from a worker.   *)
(*                                                                         *)
(* A snapshot is its time: nothing below looks further into one.  The      *)
(* history the server keeps is therefore a set of times, which the code    *)
(* holds oldest first.  The value of the feed's watch channel, Published,  *)
(* is the pair of kept and latest, which only Publish changes, together.   *)
(* The stream of a session is external code: frames on it arrive whole, in *)
(* order, and a write waits while Window of them are in flight.            *)
(***************************************************************************)
EXTENDS Integers, Sequences, FiniteSets, TLC

CONSTANTS
  Clients,      \* the pages' workers
  Foreign,      \* those of a page another host served
  Slots,        \* session tasks; more of them than MaxSessions
  None,         \* neither a client nor a slot
  MaxSessions,  \* MAX_SESSIONS, the permits of the semaphore
  Cadence,      \* CADENCE_MS
  Retention,    \* RETENTION_MS
  Window,       \* frames in flight before a write waits
  Reports,      \* what the weather may be
  NoReport,     \* the weather while there is none
  MaxNow, MaxStepsBack, MaxRestarts, MaxCert, MaxLate  \* bounds

ASSUME SlotsAssumption == IsFiniteSet(Slots) /\ None \notin Slots \cup Clients
ASSUME ForeignAssumption == Foreign \subseteq Clients
ASSUME LimitAssumption == MaxSessions \in Nat
ASSUME TimeAssumption == Cadence \in Nat /\ Retention \in Nat /\ MaxNow \in Nat
ASSUME WindowAssumption == Window \in Nat \ {0}
ASSUME ReportAssumption == NoReport \in Reports
ASSUME BoundAssumption ==
  /\ MaxStepsBack \in Nat /\ MaxRestarts \in Nat
  /\ MaxCert \in Nat /\ MaxLate \in Nat

VARIABLES
  now,        \* the wall clock, as last read
  kept,       \* History.kept
  latest,     \* Published.latest_now_ms, 0 while nothing is published
  weather,    \* the value of the weather's watch channel
  permits,    \* what is left of the semaphore
  cert,       \* the certificate the endpoint answers with
  hash,       \* the certificate the published hash is of
  session,    \* the session tasks
  page,       \* the pages' runs
  \* history variables and bounds
  published,  \* every snapshot published
  taken,      \* the snapshots handed to each page
  skipped,    \* those overwritten before the page's session looked at them
  used        \* how often each bounded event has happened

server == <<now, kept, latest, weather, permits, cert, hash>>
vars == <<server, session, page, published, taken, skipped, used>>

Times == 1 .. MaxNow
Hello(h) == [kind |-> "hello", history |-> h]
Snapshot(t) == [kind |-> "snapshot", now |-> t]
Weather(w) == [kind |-> "weather", report |-> w]
Frames == [kind : {"hello"}, history : SUBSET Times]
            \cup [kind : {"snapshot"}, now : Times]
            \cup [kind : {"weather"}, report : Reports]

(* A session task: where it stands, whose it is, what it resumes after,    *)
(* the frames it has still to write, and whether either watch channel has  *)
(* changed since it last looked.                                           *)
Session ==
  [at : {"free", "refusing", "handshake", "waiting", "greeting", "streaming"},
   client : Clients \cup {None}, since : 0 .. MaxNow, pending : Seq(Frames),
   feedChanged : BOOLEAN, weatherChanged : BOOLEAN]
Free == [at |-> "free", client |-> None, since |-> 0, pending |-> <<>>,
         feedChanged |-> FALSE, weatherChanged |-> FALSE]

(* A page's run: the wait it is in, the hash the info told it, whether its *)
(* transport is open and to which session, the frames in flight to it,     *)
(* whether any has come in this run, and what it keeps across runs.        *)
Page ==
  [at : {"info", "connecting", "reading", "sleeping", "over"},
   hash : 0 .. MaxCert, open : BOOLEAN, conn : Slots \cup {None},
   inbox : Seq(Frames), delivered : BOOLEAN, stopped : BOOLEAN,
   lastNow : 0 .. MaxNow, weather : Reports]
Fresh == [at |-> "info", hash |-> 0, open |-> FALSE, conn |-> None,
          inbox |-> <<>>, delivered |-> FALSE, stopped |-> FALSE,
          lastNow |-> 0, weather |-> NoReport]

TypeOK ==
  /\ now \in 0 .. MaxNow /\ kept \in SUBSET Times /\ latest \in 0 .. MaxNow
  /\ weather \in Reports /\ permits \in 0 .. MaxSessions
  /\ cert \in 0 .. MaxCert /\ hash \in 0 .. MaxCert
  /\ session \in [Slots -> Session] /\ page \in [Clients -> Page]
  /\ published \in SUBSET Times
  /\ taken \in [Clients -> SUBSET Times]
  /\ skipped \in [Clients -> SUBSET Times]
  /\ used \in [stepsBack : 0 .. MaxStepsBack, restarts : 0 .. MaxRestarts,
               late : 0 .. MaxLate]

Init ==
  /\ now = 0 /\ kept = {} /\ latest = 0 /\ weather = NoReport
  /\ permits = MaxSessions /\ cert = 0 /\ hash = 0
  /\ session = [s \in Slots |-> Free] /\ page = [c \in Clients |-> Fresh]
  /\ published = {}
  /\ taken = [c \in Clients |-> {}] /\ skipped = [c \in Clients |-> {}]
  /\ used = [stepsBack |-> 0, restarts |-> 0, late |-> 0]

-----------------------------------------------------------------------------
(* The server publishes.                                                   *)

(* Whether the session's connection is up at both ends. *)
Linked(s, c) == session[s].client = c /\ page[c].conn = s

(* History.record: the history once a snapshot of time t is offered to it. *)
Record(history, t) ==
  IF \E k \in history : t < k + Cadence
  THEN history
  ELSE {k \in history \cup {t} : k >= t - Retention}

(* Mutated: what the page already has is sent again. *)
BackfillAgain(history, from, upTo) == {k \in history : from <= k /\ k < upTo}

(* Published.hello: what a session that resumes after `from` is caught up  *)
(* with.                                                                   *)
Backfill(history, from, upTo) == {k \in history : from < k /\ k < upTo}

(* Every task that follows a channel is told that it has changed.          *)
FeedTold == [s \in Slots |->
  IF session[s].at = "free" THEN session[s]
  ELSE [session[s] EXCEPT !.feedChanged = TRUE]]
WeatherTold == [s \in Slots |->
  IF session[s].at = "free" THEN session[s]
  ELSE [session[s] EXCEPT !.weatherChanged = TRUE]]

(* Following.publish at a reading of the wall clock, which may be set back *)
(* between two readings.  A session that had not yet looked at the value   *)
(* replaced never sees it.                                                 *)
Publish(t) ==
  /\ \/ t > now /\ UNCHANGED used
     \/ /\ t <= now /\ used.stepsBack < MaxStepsBack
        /\ used' = [used EXCEPT !.stepsBack = @ + 1]
  /\ now' = t /\ latest' = t /\ kept' = Record(kept, t)
  /\ published' = published \cup {t}
  /\ session' = FeedTold
  /\ skipped' = [c \in Clients |-> skipped[c] \cup
       {u \in {latest} \ {0} : \E s \in Slots :
          Linked(s, c) /\ session[s].at \in {"greeting", "streaming"}
            /\ session[s].feedChanged}]
  /\ UNCHANGED <<weather, permits, cert, hash, page, taken>>

(* The weather's teller replaces what the stations report. *)
TellWeather(w) ==
  /\ w \notin {weather, NoReport} /\ weather' = w
  /\ session' = WeatherTold
  /\ UNCHANGED <<now, kept, latest, permits, cert, hash, page, published,
                 taken, skipped, used>>

(* Endpoint.renew: the endpoint answers with the new certificate first,    *)
(* and the hash of it is published after.                                  *)
RenewEndpoint ==
  /\ cert = hash /\ cert < MaxCert
  /\ cert' = cert + 1
  /\ UNCHANGED <<now, kept, latest, weather, permits, hash, session, page,
                 published, taken, skipped, used>>
(* Mutated: the new hash is never published. *)
RenewSilently ==
  /\ hash # cert /\ hash' = hash
  /\ UNCHANGED <<now, kept, latest, weather, permits, cert, session, page,
                 published, taken, skipped, used>>
RenewHash ==
  /\ hash # cert /\ hash' = cert
  /\ UNCHANGED <<now, kept, latest, weather, permits, cert, session, page,
                 published, taken, skipped, used>>

(* The server process starts anew, with a certificate of its own: nothing  *)
(* of what it held is left, and no page is told.  Frames already in flight *)
(* still arrive.                                                           *)
Restart ==
  /\ used.restarts < MaxRestarts /\ cert < MaxCert /\ now < MaxNow
  /\ kept' = {} /\ latest' = 0 /\ weather' = NoReport
  /\ permits' = MaxSessions /\ cert' = cert + 1 /\ hash' = cert + 1
  /\ session' = [s \in Slots |-> Free]
  /\ used' = [used EXCEPT !.restarts = @ + 1]
  /\ UNCHANGED <<now, page, published, taken, skipped>>

-----------------------------------------------------------------------------
(* A session task.                                                         *)

SetSession(s, r) == session' = [session EXCEPT ![s] = r]

(* Mutated: the permit is not given back. *)
EndTaskLeaking(s) == SetSession(s, Free) /\ UNCHANGED permits
(* The task ends: what it held, its permit too, is given back. *)
EndTask(s) ==
  /\ SetSession(s, Free)
  /\ permits' = IF session[s].at = "refusing" THEN permits ELSE permits + 1

(* Where the run goes once its session has ended. *)
Afterwards(p) ==
  IF p.stopped THEN "over" ELSE IF p.delivered THEN "info" ELSE "sleeping"

(* The page's session has failed or ended: followFeed's run closes the     *)
(* transport, and goes straight to the next session after one that         *)
(* delivered, sleeps first otherwise, and goes nowhere once stopped.       *)
Ended(p) ==
  [p EXCEPT !.open = FALSE, !.conn = None, !.inbox = <<>>, !.delivered = FALSE,
            !.at = Afterwards(p)]
EndRun(c) == page' = [page EXCEPT ![c] = Ended(page[c])]

(* Endpoint.serve: a task for the session the page opens, with a permit if *)
(* one is left.  It follows both channels from here on.                    *)
Accept(c, s) ==
  /\ page[c].at = "connecting" /\ page[c].open /\ page[c].conn = None
  /\ session[s].at = "free"
  /\ permits' = IF permits > 0 THEN permits - 1 ELSE permits
  /\ SetSession(s, [Free EXCEPT !.client = c, !.since = page[c].lastNow,
       !.at = IF permits > 0 THEN "handshake" ELSE "refusing"])
  /\ page' = [page EXCEPT ![c].conn = s]
  /\ UNCHANGED <<now, kept, latest, weather, cert, hash, published, taken,
                 skipped, used>>

(* The handshake fails when the page trusts another certificate than the   *)
(* one offered; a page of another host is forbidden; a task without a      *)
(* permit answers that too many sessions are open.                         *)
TurnAway(c, s) ==
  /\ Linked(s, c)
  /\ \/ session[s].at = "refusing"
     \/ session[s].at = "handshake" /\ (page[c].hash # cert \/ c \in Foreign)
  /\ EndTask(s) /\ EndRun(c)
  /\ UNCHANGED <<now, kept, latest, weather, cert, hash, published, taken,
                 skipped, used>>

(* The session is accepted and its stream opened. *)
Admit(c, s) ==
  /\ Linked(s, c) /\ session[s].at = "handshake"
  /\ page[c].hash = cert /\ c \notin Foreign
  /\ SetSession(s, [session[s] EXCEPT !.at = "waiting"])
  /\ page' = [page EXCEPT ![c].at = "reading"]
  /\ UNCHANGED <<server, published, taken, skipped, used>>

(* The hello and the latest snapshot, of one and the same Published. *)
Greeting(from) == <<Hello(Backfill(kept, from, latest)), Snapshot(latest)>>

(* The feed has started: the greeting is to be written. *)
Greet(s) ==
  /\ session[s].at = "waiting" /\ latest # 0
  /\ SetSession(s, [session[s] EXCEPT !.at = "greeting", !.feedChanged = FALSE,
       !.pending = Greeting(session[s].since)])
  /\ UNCHANGED <<server, page, published, taken, skipped, used>>

(* Mutated: nothing is told while there is none. *)
NoWeatherYet == IF weather = NoReport THEN <<>> ELSE <<Weather(weather)>>
(* The weather as it is by now, even that there is none yet. *)
WeatherNow == <<Weather(weather)>>

(* Both written, the weather is next. *)
GreetWeather(s) ==
  /\ session[s].at = "greeting" /\ session[s].pending = <<>>
  /\ SetSession(s, [session[s] EXCEPT !.at = "streaming",
       !.weatherChanged = FALSE, !.pending = WeatherNow])
  /\ UNCHANGED <<server, page, published, taken, skipped, used>>

(* The loop, on a change of the feed: the latest snapshot. *)
TakeFeed(s) ==
  /\ session[s].at = "streaming" /\ session[s].pending = <<>>
  /\ session[s].feedChanged
  /\ SetSession(s, [session[s] EXCEPT !.feedChanged = FALSE,
       !.pending = IF latest = 0 THEN <<>> ELSE <<Snapshot(latest)>>])
  /\ UNCHANGED <<server, page, published, taken, skipped, used>>

(* The loop, on a change of the weather. *)
TakeWeather(s) ==
  /\ session[s].at = "streaming" /\ session[s].pending = <<>>
  /\ session[s].weatherChanged
  /\ SetSession(s, [session[s] EXCEPT !.weatherChanged = FALSE,
       !.pending = IF weather = NoReport THEN <<>> ELSE <<Weather(weather)>>])
  /\ UNCHANGED <<server, page, published, taken, skipped, used>>

(* write_all of the next frame, which waits while the window is full. *)
Write(c, s) ==
  /\ Linked(s, c) /\ session[s].pending # <<>>
  /\ Len(page[c].inbox) < Window
  /\ SetSession(s, [session[s] EXCEPT !.pending = Tail(@)])
  /\ page' = [page EXCEPT ![c].inbox = Append(@, Head(session[s].pending))]
  /\ UNCHANGED <<server, published, taken, skipped, used>>

(* The task finds its connection closed, or its write fails for it. *)
Gone(s) ==
  /\ session[s].at # "free" /\ page[session[s].client].conn # s
  /\ EndTask(s)
  /\ UNCHANGED <<now, kept, latest, weather, cert, hash, page, published,
                 taken, skipped, used>>

-----------------------------------------------------------------------------
(* A page's run.                                                           *)

(* The info has come: the page opens a session that trusts the hash told.  *)
(* A run that was stopped meanwhile does so all the same.                  *)
Info(c) ==
  /\ page[c].at = "info"
  /\ page' = [page EXCEPT ![c].at = "connecting", ![c].hash = hash,
                          ![c].open = TRUE]
  /\ UNCHANGED <<server, session, published, taken, skipped, used>>

Newest(S, least) == CHOOSE t \in S \cup {least} : \A u \in S \cup {least} : u <= t

(* Mutated: any snapshot is. *)
AnyNews(p, t) == t \in Times
(* A snapshot the page has not taken yet. *)
News(p, t) == t > p.lastNow

(* take: what the worker does with one message. *)
Take(c, frame) ==
  LET p == [page[c] EXCEPT !.delivered = TRUE, !.inbox = Tail(@)] IN
  \/ /\ frame.kind = "hello"
     /\ page' = [page EXCEPT ![c] =
          [p EXCEPT !.lastNow = Newest(frame.history, p.lastNow)]]
     /\ taken' = [taken EXCEPT ![c] = @ \cup frame.history]
  \/ /\ frame.kind = "weather"
     /\ page' = [page EXCEPT ![c] = [p EXCEPT !.weather = frame.report]]
     /\ UNCHANGED taken
  \/ /\ frame.kind = "snapshot" /\ ~News(p, frame.now)
     /\ page' = [page EXCEPT ![c] = p]
     /\ UNCHANGED taken
  \/ /\ frame.kind = "snapshot" /\ News(p, frame.now)
     /\ page' = [page EXCEPT ![c] = [p EXCEPT !.lastNow = frame.now]]
     /\ taken' = [taken EXCEPT ![c] = @ \cup {frame.now}]

(* Mutated: a run that was stopped reads on. *)
ReadStopped(c) ==
  /\ page[c].at = "reading" /\ page[c].inbox # <<>>
  /\ Take(c, Head(page[c].inbox))
  /\ UNCHANGED <<server, session, published, skipped, used>>

(* The next frame of the stream, which ends a run that was stopped. *)
Read(c) ==
  /\ page[c].at = "reading" /\ page[c].inbox # <<>>
  /\ \/ page[c].stopped /\ EndRun(c) /\ UNCHANGED taken
     \/ ~page[c].stopped /\ Take(c, Head(page[c].inbox))
  /\ UNCHANGED <<server, session, published, skipped, used>>

(* What the page waits for can still come. *)
Awaited(c) ==
  \/ page[c].at = "info"
  \/ page[c].at = "connecting" /\ page[c].open /\ page[c].conn = None
  \/ page[c].at = "reading" /\ page[c].inbox # <<>>
  \/ page[c].conn # None /\ session[page[c].conn].client = c

(* Mutated: no deadline on reading. *)
WaitsConnecting == {"info", "connecting"}
(* The waits that have a deadline. *)
Waits == {"info", "connecting", "reading"}

(* The transport fails, the stream ends, or the wait takes longer than     *)
(* DEADLINE_MS: certain once nothing can come any more, and a matter of    *)
(* the network's speed, up to MaxLate times, before that.                  *)
Down(c) ==
  /\ page[c].at \in Waits
  /\ \/ ~Awaited(c) /\ UNCHANGED used
     \/ /\ Awaited(c) /\ used.late < MaxLate
        /\ used' = [used EXCEPT !.late = @ + 1]
  /\ EndRun(c)
  /\ UNCHANGED <<server, session, published, taken, skipped>>

(* RETRY_MS have passed since a session that delivered nothing. *)
Wake(c) ==
  /\ page[c].at = "sleeping"
  /\ page' = [page EXCEPT ![c].at = IF page[c].stopped THEN "over" ELSE "info"]
  /\ UNCHANGED <<server, session, published, taken, skipped, used>>

(* What followFeed returns: stops it, and closes the transport if any. *)
Stop(c) ==
  /\ ~page[c].stopped
  /\ page' = [page EXCEPT ![c] =
       [page[c] EXCEPT !.stopped = TRUE, !.open = FALSE, !.conn = None,
                       !.inbox = <<>>]]
  /\ UNCHANGED <<server, session, published, taken, skipped, used>>

-----------------------------------------------------------------------------
Serve(c, s) == Accept(c, s) \/ TurnAway(c, s) \/ Admit(c, s) \/ Write(c, s)
Run(s) == Greet(s) \/ GreetWeather(s) \/ TakeFeed(s) \/ TakeWeather(s) \/ Gone(s)
Follow(c) == Info(c) \/ Read(c) \/ Down(c) \/ Wake(c)

Next ==
  \/ \E t \in Times : Publish(t)
  \/ \E w \in Reports : TellWeather(w)
  \/ RenewEndpoint \/ RenewHash \/ Restart
  \/ \E c \in Clients, s \in Slots : Serve(c, s)
  \/ \E s \in Slots : Run(s)
  \/ \E c \in Clients : Follow(c) \/ Stop(c)

Spec == Init /\ [][Next]_vars

(* Tasks are polled, the network carries what is sent to it, and timers    *)
(* fire; nothing obliges the weather to change, the server to renew or     *)
(* restart, the network to be slow or anybody to stop.  The receiver keeps *)
(* sending, so snapshots keep being published.                             *)
Fairness ==
  /\ WF_vars(\E t \in Times : t > now /\ Publish(t)) /\ WF_vars(RenewHash)
  /\ \A c \in Clients :
       /\ WF_vars(\E s \in Slots : Serve(c, s))
       /\ WF_vars(Info(c)) /\ WF_vars(Read(c)) /\ WF_vars(Wake(c))
       /\ WF_vars(~Awaited(c) /\ Down(c))
  /\ \A s \in Slots : WF_vars(Run(s))

FairSpec == Spec /\ Fairness

-----------------------------------------------------------------------------
(* What the feed keeps to.                                                 *)

Holding == {s \in Slots : session[s].at \notin {"free", "refusing"}}

(* However sessions end, refused, forbidden, left or cut off, no permit is *)
(* lost and none is given back twice: the server never serves more than    *)
(* MAX_SESSIONS, nor fewer for the sessions it has already served.         *)
PermitsBalance == permits + Cardinality(Holding) = MaxSessions

(* The frame that opens a run is its hello, and no other frame is one: a   *)
(* page that has lost its session never reads what was left of it.         *)
HelloOpens ==
  \A c \in Clients : \A i \in DOMAIN page[c].inbox :
    page[c].inbox[i].kind = "hello" <=> i = 1 /\ ~page[c].delivered

(* The backfill on its way to a page holds nothing the page has taken.     *)
NothingTwice ==
  \A c \in Clients : \A i \in DOMAIN page[c].inbox :
    page[c].inbox[i].kind = "hello" =>
      \A k \in page[c].inbox[i].history : k > page[c].lastNow

(* Across sessions, renewals, restarts and late answers, a page has every  *)
(* snapshot of the history up to the last one it took, but for those its   *)
(* session was too slow to look at.  A clock set back breaks this.         *)
NoGap ==
  \A c \in Clients : \A k \in kept :
    k <= page[c].lastNow => k \in taken[c] \cup skipped[c]

(* What a page takes of the feed's history is the whole of it, once.       *)
WholeHistory == HelloOpens /\ NothingTwice /\ NoGap

(* Once all there is to tell a page has been read, it shows the weather as *)
(* the server has it; none, after a restart.                               *)
WeatherSettled ==
  \A c \in Clients, s \in Slots :
    (/\ Linked(s, c) /\ session[s].at = "streaming"
     /\ session[s].pending = <<>> /\ ~session[s].weatherChanged
     /\ \A i \in DOMAIN page[c].inbox : page[c].inbox[i].kind # "weather")
    => page[c].weather = weather

(* Once stopped, a page is handed nothing more.                            *)
NothingAfterStop ==
  [][\A c \in Clients : page[c].stopped =>
       taken'[c] = taken[c] /\ page'[c].weather = page[c].weather]_vars

(* Each page that may be served, and is left to run, comes to have the     *)
(* latest snapshot, whatever was lost on the way.                          *)
CatchesUp ==
  \A c \in Clients \ Foreign :
    <>[](page[c].stopped \/ page[c].lastNow = MaxNow)

(* The feed implements what it promises each page, a clock set back or not. *)
Promise == INSTANCE FeedPromise
Promised == Promise!Spec

(* A stopped run comes to an end, and leaves no transport open, not even   *)
(* one it was about to open when it was stopped.                           *)
Over(c) == page[c].at = "over" /\ ~page[c].open /\ page[c].conn = None
StopEnds == \A c \in Clients : page[c].stopped ~> Over(c)

(* Pages are alike, and so are session tasks: a check may take one for another. *)
Symmetry == Permutations(Clients \ Foreign) \cup Permutations(Slots)
=============================================================================
