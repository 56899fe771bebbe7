------------------------------ MODULE Weather ------------------------------
(***************************************************************************)
(* The weather around the receiver: the current METARs of the stations in  *)
(* range, asked of the Center every POLL_EVERY and whenever a list names   *)
(* other stations, and the QNH of each told to the sessions.               *)
(*                                                                         *)
(* Times count steps of a clock.  The stations are those in range of the   *)
(* site already, so that a list is a function from them to where they are. *)
(***************************************************************************)
EXTENDS Integers, Sequences, FiniteSetTheorems, TLAPS

CONSTANTS
  Stations, Places, Settings,
  POLL_EVERY, ANSWER_WITHIN, STALE_S,
  Day,                   \* how long a day of the calendar is
  Untold,                \* no weather told yet
  Observations,          \* when the stations observe
  MaxNow, MaxLists, MaxLines  \* bounds: the clock, the lists, an answer's lines

(* What the constants are taken to be, assumed where they are given values. *)
WeatherAssumption ==
  /\ {POLL_EVERY, ANSWER_WITHIN, STALE_S, Day} \subseteq Nat \ {0}
  /\ MaxNow \in Nat /\ MaxLists \in Nat /\ MaxLines \in Nat
  /\ Observations \subseteq Nat
  /\ STALE_S + ANSWER_WITHIN < 28 * Day

Lists == UNION {[S -> Places] : S \in SUBSET Stations}
Report == [station : Stations, observed_s : Int, qnh_in_hg : Settings]

VARIABLES
  now,
  listed,    \* the stations in range, as the list is
  lists,     \* how many lists came
  asked,     \* those in range when last looked at, that are asked for
  moved,     \* whether they differ from those the weather was last told for
  reports,   \* Reports.latest
  weather,   \* what the sessions are told
  phase,     \* "ask", "waiting" for the answer, "told" until the next, "over"
  since,     \* when the phase began
  newest     \* history: the newest observation ever told of each station

vars == <<now, listed, lists, asked, moved, reports, weather, phase, since, newest>>

-----------------------------------------------------------------------------
(* observed_s: the observation the Center gave as a day of the month and a *)
(* time, placed at the time the Center was asked: of a later day, a month  *)
(* ago, long stale.                                                        *)
Observed(at, now_s) == IF at \div Day > now_s \div Day THEN at - 28 * Day ELSE at

(* One report taken in: the newest of its station, the later one of two as *)
(* old as each other.                                                      *)
Taken(latest, report) ==
  IF report.station \in DOMAIN latest
     /\ latest[report.station].observed_s > report.observed_s
  THEN latest
  ELSE [s \in DOMAIN latest \cup {report.station} |->
          IF s = report.station THEN report ELSE latest[s]]
(* Mutated: the set is changed only when a station's report is a later one. *)
LaterOnly(before, after) ==
  \/ DOMAIN before # DOMAIN after
  \/ \E s \in DOMAIN before : before[s].observed_s # after[s].observed_s
(* Whether the set changed. *)
ChangedTo(before, after) == before # after

(* Reports.expire. *)
Expire(latest, now_s) ==
  LET fresh == {s \in DOMAIN latest : now_s - latest[s].observed_s <= STALE_S}
  IN [s \in fresh |-> latest[s]]

(* The reports heard taken in, one after another. *)
AllTaken(latest, heard) ==
  LET taken[n \in 0 .. Len(heard)] ==
        IF n = 0 THEN latest ELSE Taken(taken[n - 1], heard[n])
  IN taken[Len(heard)]

(* Reports.record. *)
Record(latest, heard, now_s) == Expire(AllTaken(latest, heard), now_s)

(* current: the reports of the stations asked, with where each stands. *)
Current(latest, stations) ==
  [s \in DOMAIN latest \cap DOMAIN stations |->
     [place |-> stations[s], observed_s |-> latest[s].observed_s,
      qnh_in_hg |-> latest[s].qnh_in_hg]]

-----------------------------------------------------------------------------
Init ==
  /\ now = 0
  /\ listed \in Lists /\ asked = listed
  /\ lists = 0
  /\ moved = FALSE
  /\ reports = <<>>
  /\ weather = Untold
  /\ phase = "ask" /\ since = 0
  /\ newest = [s \in Stations |-> -1]

(* The weather sent to the sessions. *)
Tell(told) ==
  /\ weather' = told
  /\ newest' = [s \in Stations |->
       IF s \in DOMAIN told /\ told[s].observed_s > newest[s]
       THEN told[s].observed_s ELSE newest[s]]

(* What follows the asking: the weather told when the reports changed, the *)
(* stations moved, or none was told yet.                                   *)
Told(latest) ==
  /\ reports' = latest
  /\ IF \/ ChangedTo(reports, latest)
        \/ moved
        \/ DOMAIN asked # {} /\ weather = Untold
     THEN Tell(Current(latest, asked)) /\ moved' = FALSE
     ELSE UNCHANGED <<weather, newest, moved>>
  /\ phase' = "told" /\ since' = now
  /\ UNCHANGED <<now, listed, lists, asked>>

(* Asks for the stations' METARs, or goes by what is known when there is   *)
(* none to ask.                                                            *)
Ask ==
  /\ phase = "ask"
  /\ IF DOMAIN asked = {}
     THEN Told(reports)
     ELSE /\ phase' = "waiting" /\ since' = now
          /\ UNCHANGED <<now, listed, lists, asked, moved, reports, weather, newest>>

(* The lines the Center may answer with: of the stations asked, as old as  *)
(* it has them, in any order.                                              *)
Lines ==
  {r \in [station : DOMAIN asked, observed_s : Observations, qnh_in_hg : Settings] :
     r.observed_s <= now}

(* The Center answers; the reports are placed and aged at when it was      *)
(* asked.                                                                  *)
Answer ==
  /\ phase = "waiting"
  /\ \E n \in 0 .. MaxLines : \E raw \in [1 .. n -> Lines] :
       LET heard == [i \in 1 .. n |->
                       [raw[i] EXCEPT !.observed_s = Observed(@, since)]]
       IN Told(Record(reports, heard, since))

(* The Center cannot be reached, or does not answer in time. *)
Fail == phase = "waiting" /\ Told(Expire(reports, since))

(* The next poll. *)
Poll ==
  /\ phase = "told"
  /\ DOMAIN asked # {}
  /\ now - since >= POLL_EVERY
  /\ phase' = "ask" /\ since' = now
  /\ UNCHANGED <<now, listed, lists, asked, moved, reports, weather, newest>>

(* Mutated: the weather is told again only when the reports change. *)
Unmoved ==
  /\ phase = "told"
  /\ listed # asked
  /\ asked' = listed
  /\ phase' = "ask" /\ since' = now
  /\ UNCHANGED <<now, listed, lists, moved, reports, weather, newest>>
(* A list came: looked at between polls, and asked for at once when it     *)
(* names other stations.                                                   *)
Look ==
  /\ phase = "told"
  /\ listed # asked
  /\ asked' = listed
  /\ moved' = TRUE
  /\ phase' = "ask" /\ since' = now
  /\ UNCHANGED <<now, listed, lists, reports, weather, newest>>

(* A list is published. *)
List ==
  /\ lists < MaxLists
  /\ \E list \in Lists : listed' = list
  /\ lists' = lists + 1
  /\ UNCHANGED <<now, asked, moved, reports, weather, phase, since, newest>>

(* Nobody reads the weather any longer. *)
Close ==
  /\ phase = "told"
  /\ phase' = "over"
  /\ UNCHANGED <<now, listed, lists, asked, moved, reports, weather, since, newest>>

(* Time passes, but not past an answer or a poll that is due. *)
Tick ==
  /\ now < MaxNow
  /\ phase # "ask"
  /\ phase = "waiting" => now - since < ANSWER_WITHIN
  /\ phase = "told" /\ DOMAIN asked # {} => now - since < POLL_EVERY
  /\ phase = "told" => listed = asked
  /\ now' = now + 1
  /\ UNCHANGED <<listed, lists, asked, moved, reports, weather, phase, since, newest>>

Next == Ask \/ Answer \/ Fail \/ Poll \/ Look \/ List \/ Close \/ Tick

Spec == Init /\ [][Next]_vars

(* The program goes on while it is run; the Center's answer, or the end of *)
(* the wait for it, comes.                                                 *)
FairSpec == Spec /\ WF_vars(Ask) /\ WF_vars(Answer \/ Fail) /\ WF_vars(Look)

-----------------------------------------------------------------------------
TypeOK ==
  /\ now \in 0 .. MaxNow /\ since \in 0 .. now
  /\ listed \in Lists /\ asked \in Lists
  /\ lists \in 0 .. MaxLists
  /\ moved \in BOOLEAN
  /\ DOMAIN reports \subseteq Stations
  /\ \A s \in DOMAIN reports : reports[s] \in Report /\ reports[s].station = s
  /\ weather # Untold =>
       /\ DOMAIN weather \subseteq Stations
       /\ \A s \in DOMAIN weather :
            weather[s] \in [place : Places, observed_s : Int, qnh_in_hg : Settings]
  /\ phase \in {"ask", "waiting", "told", "over"}
  /\ newest \in [Stations -> -1 .. MaxNow]

(* Between polls the sessions are told exactly the reports kept of the     *)
(* stations asked, where these stand: the flags by which poll skips the    *)
(* telling never skip one that would say something else.                   *)
ToldIsCurrent ==
  phase = "told" =>
    \/ weather = Untold /\ DOMAIN asked = {}
    \/ weather = Current(reports, asked)

(* No setting is told that is older than the stale age by more than the    *)
(* polls take to find out: a poll's wait, and the answer of the one that   *)
(* kept it and of the one that drops it, even when the Center never        *)
(* answers again.                                                          *)
NoneStale ==
  phase # "over" /\ weather # Untold =>
    \A s \in DOMAIN weather :
      now - weather[s].observed_s <= STALE_S + POLL_EVERY + 2 * ANSWER_WITHIN

(* A station is never told with an observation older than one told of it   *)
(* before, whatever the Center answers and however often the station left  *)
(* the range and came back.                                                *)
NeverBack ==
  weather # Untold =>
    \A s \in DOMAIN weather : weather[s].observed_s >= newest[s]

(* A station that left the range is told no longer, once the lists are     *)
(* done and unless the program stops, and whether or not the Center ever   *)
(* answers with anything new.                                              *)
LeavesAreTold ==
  \A s \in Stations :
    (lists = MaxLists /\ s \notin DOMAIN listed)
      ~> (phase = "over" \/ weather = Untold \/ s \notin DOMAIN weather)

-----------------------------------------------------------------------------
(* What is proved of it, for any stations, lists and answers of any length. *)

(* Induction over the natural numbers, of a set. *)
LEMMA AllNaturals ==
  ASSUME NEW S, 0 \in S, \A n \in Nat : n \in S => n + 1 \in S
  PROVE  Nat \subseteq S
<1> SUFFICES ASSUME ~(Nat \subseteq S) PROVE FALSE
  OBVIOUS
<1> DEFINE R == StrictSubsetOrdering(Nat)
           T == {0 .. n : n \in Nat \ S}
<1>1. IsWellFoundedOn(R, FiniteSubsetsOf(Nat))
  BY FS_StrictSubsetOrderingWellFounded
<1>2. T \subseteq FiniteSubsetsOf(Nat)
  <2> SUFFICES ASSUME NEW n \in Nat \ S PROVE 0 .. n \in FiniteSubsetsOf(Nat)
    OBVIOUS
  <2>1. IsFiniteSet(0 .. n)
    BY FS_Interval
  <2>2. 0 .. n \in SUBSET Nat
    OBVIOUS
  <2>3. QED
    BY <2>1, <2>2 DEF FiniteSubsetsOf
<1>3. T # {}
  OBVIOUS
<1>4. \E x \in T : \A y \in T : <<y, x>> \notin R
  <2> HIDE DEF R, T
  <2>1. QED
    BY <1>1, <1>2, <1>3, WFMin
<1>5. PICK n \in Nat \ S : \A y \in T : <<y, 0 .. n>> \notin R
  BY <1>4
<1>6. n # 0 /\ n - 1 \in Nat
  OBVIOUS
<1>7. n - 1 \in S
  <2> SUFFICES ASSUME n - 1 \notin S PROVE FALSE
    OBVIOUS
  <2>1. 0 .. n - 1 \in T
    BY <1>6
  <2>2. 0 .. n - 1 # 0 .. n /\ 0 .. n - 1 \subseteq 0 .. n /\ 0 .. n \subseteq Nat
    BY <1>6
  <2>3. <<0 .. n - 1, 0 .. n>> \in R
    BY <2>2 DEF StrictSubsetOrdering
  <2>4. QED
    BY <1>5, <2>1, <2>3
<1>8. (n - 1) + 1 = n
  BY <1>6
<1>9. QED
  BY <1>6, <1>7, <1>8

(* Taking the reports in one after another is well defined. *)
LEMMA TakingExists ==
  ASSUME NEW latest, NEW heard
  PROVE  \A last \in Nat : \E taken :
           taken = [n \in 0 .. last |->
                      IF n = 0 THEN latest ELSE Taken(taken[n - 1], heard[n])]
<1> DEFINE Is(taken, last) ==
             taken = [n \in 0 .. last |->
                        IF n = 0 THEN latest ELSE Taken(taken[n - 1], heard[n])]
           Defined == {last \in Nat : \E taken : Is(taken, last)}
<1>1. 0 \in Defined
  <2>1. Is([n \in 0 .. 0 |-> latest], 0)
    OBVIOUS
  <2>2. QED
    BY <2>1
<1>2. ASSUME NEW last \in Nat, last \in Defined PROVE last + 1 \in Defined
  <2>1. PICK taken : Is(taken, last)
    BY <1>2
  <2> DEFINE more == [n \in 0 .. last + 1 |->
                        IF n = last + 1 THEN Taken(taken[last], heard[n]) ELSE taken[n]]
  <2>2. \A n \in 0 .. last : more[n] = taken[n]
    OBVIOUS
  <2>3. \A n \in 0 .. last + 1 :
          more[n] = IF n = 0 THEN latest ELSE Taken(more[n - 1], heard[n])
    <3> SUFFICES ASSUME NEW n \in 0 .. last + 1
                 PROVE  more[n] = IF n = 0 THEN latest ELSE Taken(more[n - 1], heard[n])
      OBVIOUS
    <3>1. CASE n = last + 1
      <4>1. more[n] = Taken(taken[last], heard[n]) /\ n - 1 = last /\ n # 0
        BY <3>1
      <4>2. more[n - 1] = taken[last]
        BY <2>2, <4>1
      <4>3. QED
        BY <4>1, <4>2
    <3>2. CASE n # last + 1
      <4>1. n \in 0 .. last
        BY <3>2
      <4>2. taken[n] = IF n = 0 THEN latest ELSE Taken(taken[n - 1], heard[n])
        BY <2>1, <4>1
      <4>3. n # 0 => more[n - 1] = taken[n - 1]
        BY <2>2, <4>1
      <4>4. more[n] = taken[n]
        BY <2>2, <4>1
      <4> HIDE DEF more, Is
      <4>5. QED
        BY <4>2, <4>3, <4>4
    <3>3. QED
      BY <3>1, <3>2
  <2>4. Is(more, last + 1)
    <3>1. more = [n \in 0 .. last + 1 |-> more[n]]
      OBVIOUS
    <3> HIDE DEF more
    <3>2. [n \in 0 .. last + 1 |-> more[n]]
          = [n \in 0 .. last + 1 |->
               IF n = 0 THEN latest ELSE Taken(more[n - 1], heard[n])]
      BY <2>3
    <3>3. QED
      BY <3>1, <3>2
  <2>5. QED
    <3> HIDE DEF more, Is
    <3>1. QED
      BY <2>4
<1>3. Nat \subseteq Defined
  <2> HIDE DEF Defined
  <2>1. QED
    BY <1>1, <1>2, AllNaturals
<1>4. QED
  BY <1>3

LEMMA AllTakenSteps ==
  ASSUME NEW latest, NEW heard, Len(heard) \in Nat
  PROVE  \E taken :
           /\ taken[0] = latest
           /\ \A n \in 1 .. Len(heard) : taken[n] = Taken(taken[n - 1], heard[n])
           /\ AllTaken(latest, heard) = taken[Len(heard)]
<1> DEFINE last == Len(heard)
           taken == CHOOSE t : t = [n \in 0 .. last |->
                       IF n = 0 THEN latest ELSE Taken(t[n - 1], heard[n])]
<1>1. taken = [n \in 0 .. last |->
                 IF n = 0 THEN latest ELSE Taken(taken[n - 1], heard[n])]
  BY TakingExists
<1>2. AllTaken(latest, heard) = taken[last]
  BY DEF AllTaken
<1> HIDE DEF taken
<1>3. QED
  BY <1>1, <1>2

-----------------------------------------------------------------------------
(* The constants, each by itself. *)
LEMMA Lengths ==
  ASSUME WeatherAssumption
  PROVE  /\ POLL_EVERY \in Nat \ {0} /\ ANSWER_WITHIN \in Nat \ {0}
         /\ STALE_S \in Nat \ {0} /\ Day \in Nat \ {0}
         /\ MaxNow \in Nat /\ MaxLists \in Nat /\ MaxLines \in Nat
         /\ Observations \subseteq Nat
         /\ STALE_S + ANSWER_WITHIN < 28 * Day
  BY DEF WeatherAssumption

(* Reports of stations, each its own, of observations made by now. *)
Sound(latest, at) ==
  /\ DOMAIN latest \subseteq Stations
  /\ \A s \in DOMAIN latest :
       latest[s] \in Report /\ latest[s].station = s /\ latest[s].observed_s <= at

(* A report that came, asked for at a time: of an observation made by now, *)
(* and long stale when it was placed a month ago.                          *)
Heard(report, asked_s, at) ==
  /\ report \in Report /\ report.observed_s <= at
  /\ report.observed_s >= 0 \/ asked_s - report.observed_s > STALE_S

(* What was known before, and later reports. *)
Took(before, after, asked_s, at) ==
  /\ Sound(after, at)
  /\ \A s \in DOMAIN before :
       s \in DOMAIN after /\ after[s].observed_s >= before[s].observed_s
  /\ \A s \in DOMAIN after :
       after[s].observed_s >= 0 \/ asked_s - after[s].observed_s > STALE_S

(* The same, without the stale. *)
Aged(before, after, asked_s, at) ==
  /\ Sound(after, at)
  /\ \A s \in DOMAIN before :
       \/ s \in DOMAIN after /\ after[s].observed_s >= before[s].observed_s
       \/ asked_s - before[s].observed_s > STALE_S
  /\ \A s \in DOMAIN after :
       after[s].observed_s >= 0 /\ asked_s - after[s].observed_s <= STALE_S

LEMMA TakenTook ==
  ASSUME NEW before, NEW latest, NEW report, NEW asked_s \in Int, NEW at \in Int,
         STALE_S \in Int, Sound(before, at),
         Took(before, latest, asked_s, at), Heard(report, asked_s, at)
  PROVE  Took(before, Taken(latest, report), asked_s, at)
<1> DEFINE after == Taken(latest, report)
<1>1. CASE report.station \in DOMAIN latest
           /\ latest[report.station].observed_s > report.observed_s
  BY <1>1 DEF Taken
<1>2. CASE ~(report.station \in DOMAIN latest
             /\ latest[report.station].observed_s > report.observed_s)
  <2>1. DOMAIN after = DOMAIN latest \cup {report.station}
    BY <1>2 DEF Taken
  <2>2. after[report.station] = report
    BY <1>2 DEF Taken
  <2>3. \A s \in DOMAIN latest : s # report.station => after[s] = latest[s]
    BY <1>2 DEF Taken
  <2> HIDE DEF after
  <2>4. report.station \in Stations /\ report.observed_s \in Int
    BY DEF Heard, Report
  <2>5. \A s \in DOMAIN latest : latest[s].observed_s \in Int
    BY DEF Took, Sound, Report
  <2>6. \A s \in DOMAIN before : before[s].observed_s \in Int
    BY DEF Sound, Report
  <2>7. Sound(after, at)
    BY <2>1, <2>2, <2>3, <2>4 DEF Sound, Took, Heard
  <2>8. \A s \in DOMAIN before :
          s \in DOMAIN after /\ after[s].observed_s >= before[s].observed_s
    <3> SUFFICES ASSUME NEW s \in DOMAIN before
                 PROVE  s \in DOMAIN after /\ after[s].observed_s >= before[s].observed_s
      OBVIOUS
    <3>1. s \in DOMAIN latest /\ latest[s].observed_s >= before[s].observed_s
      BY DEF Took
    <3>2. CASE s = report.station
      BY <1>2, <2>1, <2>2, <2>4, <2>5, <2>6, <3>1, <3>2
    <3>3. CASE s # report.station
      BY <2>1, <2>3, <3>1, <3>3
    <3>4. QED
      BY <3>2, <3>3
  <2>9. \A s \in DOMAIN after :
          after[s].observed_s >= 0 \/ asked_s - after[s].observed_s > STALE_S
    BY <2>1, <2>2, <2>3 DEF Took, Heard
  <2>10. QED
    BY <2>7, <2>8, <2>9 DEF Took, after
<1>3. QED
  BY <1>1, <1>2

(* However many reports come, and in whatever order. *)
LEMMA AllTook ==
  ASSUME NEW before, NEW heard, NEW asked_s \in Int, NEW at \in Int,
         STALE_S \in Int, Sound(before, at), Took(before, before, asked_s, at),
         Len(heard) \in Nat, \A n \in 1 .. Len(heard) : Heard(heard[n], asked_s, at)
  PROVE  Took(before, AllTaken(before, heard), asked_s, at)
<1>1. PICK taken :
        /\ taken[0] = before
        /\ \A n \in 1 .. Len(heard) : taken[n] = Taken(taken[n - 1], heard[n])
        /\ AllTaken(before, heard) = taken[Len(heard)]
  BY AllTakenSteps
<1> DEFINE S == {n \in Nat : n <= Len(heard) => Took(before, taken[n], asked_s, at)}
<1>2. 0 \in S
  BY <1>1
<1>3. ASSUME NEW n \in Nat, n \in S PROVE n + 1 \in S
  <2> SUFFICES ASSUME n + 1 <= Len(heard)
               PROVE  Took(before, taken[n + 1], asked_s, at)
    OBVIOUS
  <2>1. Took(before, taken[n], asked_s, at)
    BY <1>3
  <2>2. n + 1 \in 1 .. Len(heard) /\ (n + 1) - 1 = n
    OBVIOUS
  <2>3. taken[n + 1] = Taken(taken[n], heard[n + 1])
    BY <1>1, <2>2
  <2>4. Heard(heard[n + 1], asked_s, at)
    BY <2>2
  <2>5. QED
    BY <2>1, <2>3, <2>4, TakenTook
<1>4. Nat \subseteq S
  <2> HIDE DEF S
  <2>1. QED
    BY <1>2, <1>3, AllNaturals
<1>5. QED
  BY <1>1, <1>4

LEMMA ExpireAged ==
  ASSUME NEW before, NEW latest, NEW asked_s \in Int, NEW at \in Int, STALE_S \in Int,
         Sound(before, at), Took(before, latest, asked_s, at)
  PROVE  Aged(before, Expire(latest, asked_s), asked_s, at)
<1> DEFINE after == Expire(latest, asked_s)
<1>1. /\ DOMAIN after = {s \in DOMAIN latest : asked_s - latest[s].observed_s <= STALE_S}
      /\ \A s \in DOMAIN after : after[s] = latest[s]
  BY DEF Expire
<1> HIDE DEF after
<1>2. \A s \in DOMAIN latest : latest[s].observed_s \in Int
  BY DEF Took, Sound, Report
<1>3. \A s \in DOMAIN before : before[s].observed_s \in Int
  BY DEF Sound, Report
<1>4. Sound(after, at)
  BY <1>1 DEF Took, Sound
<1>5. \A s \in DOMAIN before :
        \/ s \in DOMAIN after /\ after[s].observed_s >= before[s].observed_s
        \/ asked_s - before[s].observed_s > STALE_S
  BY <1>1, <1>2, <1>3 DEF Took
<1>6. \A s \in DOMAIN after :
        after[s].observed_s >= 0 /\ asked_s - after[s].observed_s <= STALE_S
  BY <1>1, <1>2 DEF Took
<1>7. QED
  BY <1>4, <1>5, <1>6 DEF Aged, after

(* Of the stations listed, and where they stand. *)
LEMMA ListedStations ==
  ASSUME NEW list \in Lists
  PROVE  DOMAIN list \subseteq Stations /\ \A s \in DOMAIN list : list[s] \in Places
  BY DEF Lists

LEMMA CurrentIs ==
  ASSUME NEW latest, NEW stations
  PROVE  /\ DOMAIN Current(latest, stations) = DOMAIN latest \cap DOMAIN stations
         /\ \A s \in DOMAIN latest \cap DOMAIN stations :
              Current(latest, stations)[s]
              = [place |-> stations[s], observed_s |-> latest[s].observed_s,
                 qnh_in_hg |-> latest[s].qnh_in_hg]
  BY DEF Current

-----------------------------------------------------------------------------
(* The reports kept were made by now, and none was placed a month ago. *)
Known ==
  /\ Sound(reports, now)
  /\ \A s \in DOMAIN reports : reports[s].observed_s >= 0

(* Unless the stations moved, what is told is what is kept of them. *)
UpTo ==
  /\ ~moved => weather = Untold \/ weather = Current(reports, asked)
  /\ phase = "told" => ~moved
  /\ ToldIsCurrent

(* How long each phase lasts, and how old at most what is told is in it. *)
Timely ==
  /\ phase = "ask" => since = now
  /\ phase = "waiting" => now - since <= ANSWER_WITHIN
  /\ phase = "told" /\ DOMAIN asked # {} => now - since <= POLL_EVERY
  /\ weather # Untold => \A s \in DOMAIN weather :
       /\ phase = "told" => since - weather[s].observed_s <= STALE_S + ANSWER_WITHIN
       /\ phase \in {"ask", "waiting"} =>
            since - weather[s].observed_s <= STALE_S + ANSWER_WITHIN + POLL_EVERY

(* The newest observation told of a station is kept or was surpassed, or   *)
(* went stale: what is asked from then on is newer.                        *)
Surpassed(at) ==
  \A s \in Stations :
    \/ newest[s] = -1
    \/ s \in DOMAIN reports /\ reports[s].observed_s >= newest[s]
    \/ at - newest[s] > STALE_S
AskedAt == IF phase = "waiting" THEN since ELSE now
NewestKept == Surpassed(AskedAt)

Keeps == TypeOK /\ Known /\ UpTo /\ Timely /\ NewestKept /\ NeverBack

LEMMA KeepsAtStart == ASSUME WeatherAssumption PROVE Init => Keeps
<1> SUFFICES ASSUME Init PROVE Keeps
  OBVIOUS
<1> USE Lengths DEF Init
<1>1. DOMAIN reports = {}
  OBVIOUS
<1>2. TypeOK
  <2>1. now \in 0 .. MaxNow /\ since \in 0 .. now /\ lists \in 0 .. MaxLists
    OBVIOUS
  <2>2. newest \in [Stations -> -1 .. MaxNow]
    OBVIOUS
  <2>3. moved \in BOOLEAN
    OBVIOUS
  <2>4. QED
    BY <1>1, <2>1, <2>2, <2>3 DEF TypeOK
<1>3. Known /\ Timely /\ NewestKept /\ NeverBack
  BY <1>1 DEF Known, Sound, Timely, NewestKept, Surpassed, NeverBack
<1>4. UpTo
  BY DEF UpTo, ToldIsCurrent
<1>5. QED
  BY <1>2, <1>3, <1>4 DEF Keeps

(* What follows the asking keeps all of it. *)
LEMMA ToldKeeps ==
  ASSUME WeatherAssumption, Keeps, NEW latest, Told(latest),
         phase \in {"ask", "waiting"},
         Sound(latest, now), \A s \in DOMAIN latest : latest[s].observed_s >= 0,
         \/ DOMAIN asked = {} /\ latest = reports
         \/ phase = "waiting" /\ Aged(reports, latest, since, now)
  PROVE  Keeps'
<1> DEFINE current == Current(latest, asked)
<1> USE Lengths
<1>1. /\ reports' = latest /\ phase' = "told" /\ since' = now
      /\ UNCHANGED <<now, listed, lists, asked>>
  BY DEF Told
<1>2. /\ now \in 0 .. MaxNow /\ since \in 0 .. now /\ asked \in Lists /\ listed \in Lists
      /\ lists \in 0 .. MaxLists /\ moved \in BOOLEAN
      /\ newest \in [Stations -> -1 .. MaxNow]
  BY DEF Keeps, TypeOK
<1>3. ~moved'
  BY <1>2 DEF Told
<1>4. DOMAIN current = DOMAIN latest \cap DOMAIN asked
  BY CurrentIs
<1>5. \A s \in DOMAIN latest \cap DOMAIN asked :
         current[s] = [place |-> asked[s], observed_s |-> latest[s].observed_s,
                       qnh_in_hg |-> latest[s].qnh_in_hg]
  BY CurrentIs
<1> HIDE DEF current
<1>6. \A s \in DOMAIN current :
        /\ s \in Stations /\ s \in DOMAIN latest /\ s \in DOMAIN asked
        /\ current[s] \in [place : Places, observed_s : Int, qnh_in_hg : Settings]
        /\ current[s].observed_s = latest[s].observed_s
        /\ current[s].observed_s \in 0 .. now
  <2> SUFFICES ASSUME NEW s \in DOMAIN latest \cap DOMAIN asked
               PROVE  /\ s \in Stations
                      /\ current[s] \in [place : Places, observed_s : Int,
                                         qnh_in_hg : Settings]
                      /\ current[s].observed_s = latest[s].observed_s
                      /\ current[s].observed_s \in 0 .. now
    BY <1>4
  <2>1. s \in Stations /\ asked[s] \in Places
    BY <1>2, ListedStations
  <2>2. latest[s] \in Report /\ latest[s].observed_s \in 0 .. now
    BY <1>2 DEF Sound, Report
  <2>3. current[s] = [place |-> asked[s], observed_s |-> latest[s].observed_s,
                      qnh_in_hg |-> latest[s].qnh_in_hg]
    BY <1>5
  <2>4. QED
    BY <2>1, <2>2, <2>3 DEF Report
(* Told anew or not, it is what is kept that is told. *)
<1>7. \/ weather' = current /\ Tell(current)
      \/ /\ weather' = weather /\ newest' = newest /\ latest = reports
         /\ (weather = Untold /\ DOMAIN asked = {}) \/ weather = current
  <2>1. CASE ChangedTo(reports, latest) \/ moved \/ (DOMAIN asked # {} /\ weather = Untold)
    BY <2>1 DEF Told, Tell, current
  <2>2. CASE ~(ChangedTo(reports, latest) \/ moved
               \/ (DOMAIN asked # {} /\ weather = Untold))
    <3>1. weather' = weather /\ newest' = newest /\ latest = reports /\ ~moved
      BY <2>2 DEF Told, ChangedTo
    <3>2. weather = Untold \/ weather = current
      BY <3>1 DEF Keeps, UpTo, current
    <3>3. QED
      BY <2>2, <3>1, <3>2
  <2>3. QED
    BY <2>1, <2>2
<1>8. (weather' = Untold /\ DOMAIN asked = {}) \/ weather' = current
  BY <1>7
<1>9. newest' \in [Stations -> -1 .. MaxNow]
  <2>1. CASE Tell(current)
    <3>1. \A s \in Stations :
            (IF s \in DOMAIN current /\ current[s].observed_s > newest[s]
             THEN current[s].observed_s ELSE newest[s]) \in -1 .. MaxNow
      BY <1>2, <1>6, SMTT(60)
    <3>2. QED
      BY <2>1, <3>1 DEF Tell
  <2>2. QED
    BY <1>2, <1>7, <2>1
<1>10. TypeOK'
  <2>1. /\ now' \in 0 .. MaxNow /\ since' \in 0 .. now' /\ asked' \in Lists
        /\ listed' \in Lists /\ lists' \in 0 .. MaxLists
    BY <1>1, <1>2
  <2>2. moved' \in BOOLEAN
    BY <1>2 DEF Told
  <2>3. DOMAIN reports' \subseteq Stations
        /\ \A s \in DOMAIN reports' : reports'[s] \in Report /\ reports'[s].station = s
    BY <1>1 DEF Sound
  <2>4. weather' # Untold =>
          /\ DOMAIN weather' \subseteq Stations
          /\ \A s \in DOMAIN weather' :
               weather'[s] \in [place : Places, observed_s : Int, qnh_in_hg : Settings]
    BY <1>6, <1>8
  <2>5. QED
    BY <1>1, <1>9, <2>1, <2>2, <2>3, <2>4 DEF TypeOK
<1>11. Known'
  BY <1>1 DEF Known
<1>12. UpTo'
  BY <1>1, <1>3, <1>8 DEF UpTo, ToldIsCurrent, current
<1>13. Timely'
  <2>1. now' - since' <= POLL_EVERY
    BY <1>1, <1>2
  <2>2. \A s \in DOMAIN current :
          now - current[s].observed_s <= STALE_S + ANSWER_WITHIN
    <3> SUFFICES ASSUME NEW s \in DOMAIN current
                 PROVE  now - current[s].observed_s <= STALE_S + ANSWER_WITHIN
      OBVIOUS
    <3>1. phase = "waiting" /\ Aged(reports, latest, since, now)
      BY <1>6
    <3>2. since - latest[s].observed_s <= STALE_S
      BY <1>6, <3>1 DEF Aged
    <3>3. now - since <= ANSWER_WITHIN
      BY <3>1 DEF Keeps, Timely
    <3>4. current[s].observed_s = latest[s].observed_s /\ latest[s].observed_s \in Int
      BY <1>6
    <3> DEFINE observed == latest[s].observed_s
    <3>5. since - observed <= STALE_S /\ observed \in Int
      BY <3>2, <3>4
    <3> HIDE DEF observed
    <3>6. now \in Int /\ since \in Int
      BY <1>2
    <3>7. now - observed <= STALE_S + ANSWER_WITHIN
      BY <3>3, <3>5, <3>6
    <3>8. current[s].observed_s = observed
      BY <3>4 DEF observed
    <3>9. QED
      BY <3>7, <3>8
  <2>3. QED
    BY <1>1, <1>8, <2>1, <2>2 DEF Timely
(* What was told before is kept, surpassed or stale. *)
<1>14. \A s \in Stations :
         \/ newest[s] = -1
         \/ s \in DOMAIN latest /\ latest[s].observed_s >= newest[s]
         \/ AskedAt - newest[s] > STALE_S
  <2> SUFFICES ASSUME NEW s \in Stations
               PROVE  \/ newest[s] = -1
                      \/ s \in DOMAIN latest /\ latest[s].observed_s >= newest[s]
                      \/ AskedAt - newest[s] > STALE_S
    OBVIOUS
  <2>1. \/ newest[s] = -1
        \/ s \in DOMAIN reports /\ reports[s].observed_s >= newest[s]
        \/ AskedAt - newest[s] > STALE_S
    BY DEF Keeps, NewestKept, Surpassed
  <2>2. CASE latest = reports
    BY <2>1, <2>2
  <2>3. CASE /\ phase = "waiting" /\ Aged(reports, latest, since, now)
             /\ s \in DOMAIN reports /\ reports[s].observed_s >= newest[s]
    <3>1. AskedAt = since
      BY <2>3 DEF AskedAt
    <3>2. newest[s] \in Int /\ reports[s].observed_s \in Int
      BY <1>2, <2>3 DEF Keeps, Known, Sound, Report
    <3>3. \/ s \in DOMAIN latest /\ latest[s].observed_s >= reports[s].observed_s
          \/ since - reports[s].observed_s > STALE_S
      BY <2>3 DEF Aged
    <3>4. s \in DOMAIN latest => latest[s].observed_s \in Int
      BY DEF Sound, Report
    <3>5. QED
      BY <1>2, <2>3, <3>1, <3>2, <3>3, <3>4
  <2>4. QED
    BY <2>1, <2>2, <2>3
<1>15. AskedAt \in 0 .. now
  BY <1>2 DEF AskedAt
<1>16. \A s \in DOMAIN current : AskedAt - current[s].observed_s <= STALE_S
  <2> SUFFICES ASSUME NEW s \in DOMAIN current
               PROVE  AskedAt - current[s].observed_s <= STALE_S
    OBVIOUS
  <2>1. phase = "waiting" /\ Aged(reports, latest, since, now)
    BY <1>6
  <2>2. QED
    BY <1>6, <2>1 DEF AskedAt, Aged
<1>17. NewestKept' /\ NeverBack'
  <2>1. AskedAt' = now
    BY <1>1 DEF AskedAt
  <2>2. CASE weather' = current /\ Tell(current)
    <3>1. \A s \in Stations :
            newest'[s] = IF s \in DOMAIN current /\ current[s].observed_s > newest[s]
                         THEN current[s].observed_s ELSE newest[s]
      BY <2>2 DEF Tell
    <3>2. Surpassed(AskedAt)'
      <4> SUFFICES ASSUME NEW s \in Stations
                   PROVE  \/ newest'[s] = -1
                          \/ s \in DOMAIN latest /\ latest[s].observed_s >= newest'[s]
                          \/ now - newest'[s] > STALE_S
        BY <1>1, <2>1 DEF Surpassed
      <4>1. CASE s \in DOMAIN current /\ current[s].observed_s > newest[s]
        BY <1>6, <3>1, <4>1
      <4>2. CASE ~(s \in DOMAIN current /\ current[s].observed_s > newest[s])
        <5>1. newest'[s] = newest[s] /\ newest[s] \in Int
          BY <1>2, <3>1, <4>2
        <5>2. QED
          BY <1>2, <1>14, <1>15, <5>1, SMTT(60)
      <4>3. QED
        BY <4>1, <4>2
    <3>3. \A s \in DOMAIN current : current[s].observed_s >= newest'[s]
      <4> SUFFICES ASSUME NEW s \in DOMAIN current
                   PROVE  current[s].observed_s >= newest'[s]
        OBVIOUS
      <4>1. /\ s \in Stations /\ newest[s] \in Int /\ current[s].observed_s \in Nat
            /\ latest[s].observed_s = current[s].observed_s
        BY <1>2, <1>6
      <4>2. current[s].observed_s >= newest[s]
        <5>1. \/ newest[s] = -1
              \/ latest[s].observed_s >= newest[s]
              \/ AskedAt - newest[s] > STALE_S
          BY <1>14, <4>1
        <5>2. AskedAt - current[s].observed_s <= STALE_S
          BY <1>16
        <5>3. AskedAt \in Int /\ STALE_S \in Int
          BY <1>2, <1>15
        <5> HIDE DEF AskedAt
        <5>4. QED
          BY <4>1, <5>1, <5>2, <5>3, SMTT(60)
      <4>3. newest'[s] = current[s].observed_s \/ newest'[s] = newest[s]
        BY <3>1, <4>1
      <4>4. QED
        BY <4>1, <4>2, <4>3
    <3>4. QED
      BY <2>2, <3>2, <3>3 DEF NewestKept, NeverBack
  <2>3. CASE weather' = weather /\ newest' = newest /\ latest = reports
    <3>1. NeverBack'
      BY <2>3 DEF Keeps, NeverBack
    <3>2. Surpassed(AskedAt)'
      <4> SUFFICES ASSUME NEW s \in Stations
                   PROVE  \/ newest[s] = -1
                          \/ s \in DOMAIN latest /\ latest[s].observed_s >= newest[s]
                          \/ now - newest[s] > STALE_S
        BY <1>1, <2>1, <2>3 DEF Surpassed
      <4>1. newest[s] \in Int
        BY <1>2
      <4>2. QED
        BY <1>2, <1>14, <1>15, <4>1, SMTT(60)
    <3>3. QED
      BY <3>1, <3>2 DEF NewestKept
  <2>4. QED
    BY <1>7, <2>2, <2>3
<1>18. QED
  BY <1>10, <1>11, <1>12, <1>13, <1>17 DEF Keeps

(* The lines that come, placed at the time they were asked for. *)
LEMMA LinesHeard ==
  ASSUME WeatherAssumption, Keeps, phase = "waiting", NEW line \in Lines
  PROVE  Heard([line EXCEPT !.observed_s = Observed(@, since)], since, now)
<1> DEFINE placed == Observed(line.observed_s, since)
<1> USE Lengths
<1>1. /\ line \in [station : DOMAIN asked, observed_s : Observations, qnh_in_hg : Settings]
      /\ line.observed_s <= now
  BY DEF Lines
<1>2. now \in Nat /\ since \in Nat /\ now - since <= ANSWER_WITHIN
  BY DEF Keeps, TypeOK, Timely
<1>3. line.observed_s \in Nat /\ line.station \in Stations
  BY <1>1, ListedStations DEF Keeps, TypeOK
<1>4. placed = line.observed_s \/ placed = line.observed_s - 28 * Day
  BY DEF Observed
<1> HIDE DEF placed
<1>5. placed \in Int /\ placed <= now
  BY <1>1, <1>2, <1>3, <1>4
<1>6. placed >= 0 \/ since - placed > STALE_S
  BY <1>1, <1>2, <1>3, <1>4
<1>7. [line EXCEPT !.observed_s = placed] \in Report
  BY <1>1, <1>3, <1>5 DEF Report
<1>8. [line EXCEPT !.observed_s = placed].observed_s = placed
  BY <1>1
<1>9. QED
  BY <1>5, <1>6, <1>7, <1>8 DEF Heard, placed

LEMMA KnownTook ==
  ASSUME WeatherAssumption, Keeps
  PROVE  /\ now \in Int /\ since \in Int /\ STALE_S \in Int /\ Sound(reports, now)
         /\ Took(reports, reports, since, now)
<1>1. now \in Int /\ since \in Int /\ STALE_S \in Int /\ Sound(reports, now)
  BY Lengths DEF Keeps, TypeOK, Known
<1>2. Took(reports, reports, since, now)
  BY <1>1 DEF Took, Keeps, Known, Sound, Report
<1>3. QED
  BY <1>1, <1>2

(* The Center answers, with any number of reports, or does not. *)
LEMMA AnswerKeeps ==
  ASSUME WeatherAssumption, Keeps, Answer \/ Fail
  PROVE  Keeps'
<1>1. phase = "waiting"
  BY DEF Answer, Fail
<1>2. ASSUME NEW latest, Took(reports, latest, since, now), Told(Expire(latest, since))
      PROVE  Keeps'
  <2>1. Aged(reports, Expire(latest, since), since, now)
    BY <1>2, KnownTook, ExpireAged
  <2>2. /\ Sound(Expire(latest, since), now)
        /\ \A s \in DOMAIN Expire(latest, since) :
             Expire(latest, since)[s].observed_s >= 0
    BY <2>1 DEF Aged
  <2>3. QED
    BY <1>1, <1>2, <2>1, <2>2, ToldKeeps
<1>3. CASE Answer
  <2>1. PICK n \in 0 .. MaxLines : \E raw \in [1 .. n -> Lines] :
          Told(Record(reports, [i \in 1 .. n |->
                 [raw[i] EXCEPT !.observed_s = Observed(@, since)]], since))
    BY <1>3 DEF Answer
  <2>2. PICK raw \in [1 .. n -> Lines] :
          Told(Record(reports, [i \in 1 .. n |->
                 [raw[i] EXCEPT !.observed_s = Observed(@, since)]], since))
    BY <2>1
  <2> DEFINE heard == [i \in 1 .. n |-> [raw[i] EXCEPT !.observed_s = Observed(@, since)]]
  <2>3. n \in Nat
    BY Lengths
  <2>4. Len(heard) = n
    BY <2>3
  <2>5. \A i \in 1 .. n : Heard(heard[i], since, now)
    <3> SUFFICES ASSUME NEW i \in 1 .. n PROVE Heard(heard[i], since, now)
      OBVIOUS
    <3>1. raw[i] \in Lines
      OBVIOUS
    <3>2. heard[i] = [raw[i] EXCEPT !.observed_s = Observed(@, since)]
      OBVIOUS
    <3> HIDE DEF heard
    <3>3. QED
      BY <1>1, <3>1, <3>2, LinesHeard
  <2>6. Told(Expire(AllTaken(reports, heard), since))
    BY <2>2 DEF Record
  <2> HIDE DEF heard
  <2>7. Took(reports, AllTaken(reports, heard), since, now)
    BY <2>3, <2>4, <2>5, KnownTook, AllTook
  <2>8. QED
    BY <1>2, <2>6, <2>7
<1>4. CASE Fail
  BY <1>2, <1>4, KnownTook DEF Fail
<1>5. QED
  BY <1>3, <1>4

LEMMA AskKeeps == ASSUME WeatherAssumption, Keeps, Ask PROVE Keeps'
<1>1. phase = "ask"
  BY DEF Ask
<1>2. CASE DOMAIN asked = {}
  <2>1. Told(reports)
    BY <1>2 DEF Ask
  <2>2. Sound(reports, now) /\ \A s \in DOMAIN reports : reports[s].observed_s >= 0
    BY DEF Keeps, Known
  <2>3. QED
    BY <1>1, <1>2, <2>1, <2>2, ToldKeeps
<1>3. CASE DOMAIN asked # {}
  <2>1. /\ phase' = "waiting" /\ since' = now
        /\ UNCHANGED <<now, listed, lists, asked, moved, reports, weather, newest>>
    BY <1>3 DEF Ask
  <2>2. now \in 0 .. MaxNow /\ since = now /\ MaxNow \in Nat /\ ANSWER_WITHIN \in Nat
    BY <1>1, Lengths DEF Keeps, TypeOK, Timely
  <2>3. TypeOK' /\ Known'
    BY <2>1, <2>2 DEF Keeps, TypeOK, Known
  <2>4. UpTo' /\ NeverBack'
    BY <2>1 DEF Keeps, UpTo, ToldIsCurrent, NeverBack
  <2>5. Timely'
    BY <1>1, <2>1, <2>2 DEF Keeps, Timely
  <2>6. AskedAt' = AskedAt
    BY <1>1, <2>1, <2>2 DEF AskedAt
  <2>7. NewestKept'
    BY <2>1, <2>6 DEF Keeps, NewestKept, Surpassed
  <2>8. QED
    BY <2>3, <2>4, <2>5, <2>7 DEF Keeps
<1>4. QED
  BY <1>2, <1>3

(* What is told is asked for again, of these stations or others. *)
LEMMA AgainKeeps == ASSUME WeatherAssumption, Keeps, Poll \/ Look PROVE Keeps'
<1>1. /\ phase = "told" /\ phase' = "ask" /\ since' = now
      /\ UNCHANGED <<now, listed, lists, reports, weather, newest>>
  BY DEF Poll, Look
<1>2. \/ asked' = asked /\ moved' = moved
      \/ asked' = listed /\ moved' = TRUE
  BY DEF Poll, Look
<1>3. /\ now \in 0 .. MaxNow /\ since \in 0 .. now /\ MaxNow \in Nat
      /\ STALE_S \in Nat /\ ANSWER_WITHIN \in Nat /\ POLL_EVERY \in Nat
  BY Lengths DEF Keeps, TypeOK
<1>4. TypeOK' /\ Known'
  <2>1. asked' \in Lists /\ moved' \in BOOLEAN
    BY <1>2 DEF Keeps, TypeOK
  <2>2. now' \in 0 .. MaxNow /\ since' \in 0 .. now'
    BY <1>1, <1>3
  <2>3. QED
    BY <1>1, <2>1, <2>2 DEF Keeps, TypeOK, Known
<1>5. UpTo' /\ NeverBack'
  BY <1>1, <1>2 DEF Keeps, UpTo, ToldIsCurrent, NeverBack
<1>6. Timely'
  <2> SUFFICES ASSUME weather # Untold, NEW s \in DOMAIN weather
               PROVE  now - weather[s].observed_s <= STALE_S + ANSWER_WITHIN + POLL_EVERY
    BY <1>1 DEF Timely
  <2>1. weather = Current(reports, asked)
    BY <1>1 DEF Keeps, UpTo, ToldIsCurrent
  <2>2. s \in DOMAIN asked
    BY <2>1, CurrentIs
  <2>3. now - since <= POLL_EVERY
    BY <1>1, <2>2 DEF Keeps, Timely
  <2>4. since - weather[s].observed_s <= STALE_S + ANSWER_WITHIN
    BY <1>1 DEF Keeps, Timely
  <2>5. weather[s].observed_s \in Int
    BY DEF Keeps, TypeOK
  <2>6. QED
    BY <1>3, <2>3, <2>4, <2>5
<1>7. AskedAt' = AskedAt
  BY <1>1 DEF AskedAt
<1>8. NewestKept'
  BY <1>1, <1>7 DEF Keeps, NewestKept, Surpassed
<1>9. QED
  BY <1>4, <1>5, <1>6, <1>8 DEF Keeps

LEMMA TickKeeps == ASSUME WeatherAssumption, Keeps, Tick PROVE Keeps'
<1>1. /\ now' = now + 1 /\ now < MaxNow /\ phase # "ask"
      /\ phase = "waiting" => now - since < ANSWER_WITHIN
      /\ phase = "told" /\ DOMAIN asked # {} => now - since < POLL_EVERY
      /\ UNCHANGED <<listed, lists, asked, moved, reports, weather, phase, since, newest>>
  BY DEF Tick
<1>2. /\ now \in 0 .. MaxNow /\ since \in 0 .. now /\ MaxNow \in Nat
      /\ STALE_S \in Nat /\ ANSWER_WITHIN \in Nat /\ POLL_EVERY \in Nat
      /\ newest \in [Stations -> -1 .. MaxNow]
  BY Lengths DEF Keeps, TypeOK
<1>3. TypeOK'
  <2>1. now' \in 0 .. MaxNow /\ since' \in 0 .. now'
    BY <1>1, <1>2
  <2>2. QED
    BY <1>1, <2>1 DEF Keeps, TypeOK
<1>4. Known'
  <2>1. \A s \in DOMAIN reports : reports[s].observed_s <= now + 1
    BY <1>2 DEF Keeps, Known, Sound, Report
  <2>2. Sound(reports, now + 1)
    BY <2>1 DEF Keeps, Known, Sound
  <2>3. QED
    BY <1>1, <2>2 DEF Keeps, Known
<1>5. UpTo' /\ NeverBack'
  BY <1>1 DEF Keeps, UpTo, ToldIsCurrent, NeverBack
<1>6. Timely'
  BY <1>1, <1>2 DEF Keeps, Timely
<1>7. NewestKept'
  <2>1. AskedAt' \in Int /\ AskedAt \in Int /\ AskedAt' >= AskedAt
    BY <1>1, <1>2 DEF AskedAt
  <2> HIDE DEF AskedAt
  <2>2. \A s \in Stations : newest[s] \in Int
    BY <1>2
  <2>3. \A s \in Stations : AskedAt - newest[s] > STALE_S => AskedAt' - newest[s] > STALE_S
    BY <1>2, <2>1, <2>2
  <2>4. QED
    BY <1>1, <2>3 DEF Keeps, NewestKept, Surpassed
<1>8. QED
  BY <1>3, <1>4, <1>5, <1>6, <1>7 DEF Keeps

(* A list comes, the program stops, or nothing happens. *)
LEMMA OtherwiseKeeps ==
  ASSUME WeatherAssumption, Keeps, List \/ Close \/ UNCHANGED vars
  PROVE  Keeps'
<1>1. /\ UNCHANGED <<now, asked, moved, reports, weather, since, newest>>
      /\ phase' = phase \/ (phase = "told" /\ phase' = "over")
  BY DEF List, Close, vars
<1>2. /\ listed' \in Lists /\ lists' \in 0 .. MaxLists
  BY Lengths DEF List, Close, vars, Keeps, TypeOK
<1>3. TypeOK' /\ Known'
  BY <1>1, <1>2 DEF Keeps, TypeOK, Known
<1>4. UpTo' /\ NeverBack' /\ Timely'
  BY <1>1 DEF Keeps, UpTo, ToldIsCurrent, NeverBack, Timely
<1>5. AskedAt' = AskedAt
  BY <1>1 DEF AskedAt
<1>6. NewestKept'
  BY <1>1, <1>5 DEF Keeps, NewestKept, Surpassed
<1>7. QED
  BY <1>3, <1>4, <1>6 DEF Keeps

LEMMA KeepsOn == ASSUME WeatherAssumption, Keeps, [Next]_vars PROVE Keeps'
  BY AskKeeps, AnswerKeeps, AgainKeeps, TickKeeps, OtherwiseKeeps DEF Next

(* What is told is never older than the polls take to find it stale. *)
LEMMA NeverStale == ASSUME WeatherAssumption, Keeps PROVE NoneStale
<1> SUFFICES ASSUME phase # "over", weather # Untold, NEW s \in DOMAIN weather
             PROVE  now - weather[s].observed_s
                      <= STALE_S + POLL_EVERY + 2 * ANSWER_WITHIN
  BY DEF NoneStale
<1>1. /\ now \in Nat /\ since \in Nat /\ weather[s].observed_s \in Int
      /\ phase \in {"ask", "waiting", "told"}
      /\ STALE_S \in Nat /\ ANSWER_WITHIN \in Nat /\ POLL_EVERY \in Nat
  BY Lengths DEF Keeps, TypeOK
<1>2. CASE phase = "ask" \/ phase = "waiting"
  <2>1. now - since <= ANSWER_WITHIN
    BY <1>1, <1>2 DEF Keeps, Timely
  <2>2. since - weather[s].observed_s <= STALE_S + ANSWER_WITHIN + POLL_EVERY
    BY <1>2 DEF Keeps, Timely
  <2>3. QED
    BY <1>1, <2>1, <2>2
<1>3. CASE phase = "told"
  <2>1. weather = Current(reports, asked)
    BY <1>3 DEF Keeps, UpTo, ToldIsCurrent
  <2>2. s \in DOMAIN asked
    BY <2>1, CurrentIs
  <2>3. now - since <= POLL_EVERY
    BY <1>3, <2>2 DEF Keeps, Timely
  <2>4. since - weather[s].observed_s <= STALE_S + ANSWER_WITHIN
    BY <1>3 DEF Keeps, Timely
  <2>5. QED
    BY <1>1, <2>3, <2>4
<1>4. QED
  BY <1>1, <1>2, <1>3

(* The sessions are told the reports that are kept, no setting long after  *)
(* it is stale, and no older observation of a station after a newer,       *)
(* whatever the Center answers, however many reports at once, and whatever *)
(* lists come meanwhile (weather.rs:62 skips the telling when nothing      *)
(* changed; reports.rs:19 keeps the newest and drops the stale).           *)
THEOREM WeatherHolds ==
  ASSUME WeatherAssumption
  PROVE  Spec => [](TypeOK /\ ToldIsCurrent /\ NoneStale /\ NeverBack)
<1>1. Init => Keeps
  BY KeepsAtStart
<1>2. Keeps /\ [Next]_vars => Keeps'
  BY KeepsOn
<1>3. Keeps => TypeOK /\ ToldIsCurrent /\ NoneStale /\ NeverBack
  BY NeverStale DEF Keeps, UpTo
<1>4. QED
  BY <1>1, <1>2, <1>3, PTL DEF Spec
=============================================================================
