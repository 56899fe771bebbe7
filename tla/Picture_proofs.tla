--------------------------- MODULE Picture_proofs ---------------------------
(***************************************************************************)
(* What the tracker keeps of the aircraft it hears, for any aircraft, any  *)
(* messages of any values in any steps, and any lengths of the lapses.     *)
(* And what TrackStore_proofs proves of the track store, of those that are *)
(* run.                                                                    *)
(***************************************************************************)
EXTENDS MCPicture, TLAPS

-----------------------------------------------------------------------------
(* What the messages say.                                                  *)

LEMMA Lengths ==
  TrafficAssumption =>
    /\ {WIND_WITHIN, RELATED, LAPSE, IDENTIFICATION_LAPSE} \subseteq Nat \ {0}
    /\ WIND_WITHIN <= RELATED /\ {0, 1} \subseteq Values /\ Values \subseteq Int
    /\ Steps \subseteq Nat /\ MaxNow \in Nat /\ MaxMessages \in Nat
    /\ Nothing \notin Heards /\ Nothing \notin Tracked
    /\ Nothing \notin [Identifying -> Heards \cup {Nothing}]
BY DEF TrafficAssumption

(* No message says what is derived; no field is said both in steps and     *)
(* exactly by one of them, and those that are looked at are kept.          *)
LEMMA KindsSay ==
  /\ \A k \in DOMAIN ExactOf :
       /\ (SteppedOf[k] \cup ExactOf[k]) \cap Derived = {}
       /\ SteppedOf[k] \cap (Identifying \cup {"nac_p"} \cup Derived) = {}
  /\ ExactOf["Reply"] \cap (Identifying \cup UNION {SteppedOf[k] : k \in DOMAIN SteppedOf}) = {}
  /\ SteppedOf["Reply"] = {} /\ "Reply" \in DOMAIN ExactOf
  /\ DOMAIN SteppedOf = DOMAIN ExactOf
BY DEF SteppedOf, ExactOf, Derived, Identifying, Modes, Target

LEMMA LooksAtFields == Derived \cup LookedAt \subseteq Fields
<1>1. /\ {"AirbornePosition", "Identification", "OperationalStatus", "Velocity", "TrackAndTurn",
          "HeadingAndSpeed"} \subseteq DOMAIN ExactOf
      /\ "fix" \in ExactOf["AirbornePosition"] /\ Identifying = ExactOf["Identification"]
      /\ "version" \in ExactOf["OperationalStatus"] /\ "mach" \in ExactOf["HeadingAndSpeed"]
      /\ "track_rate_deg_per_s" \in ExactOf["TrackAndTurn"]
      /\ {"track_deg", "ground_speed_kt", "magnetic_heading_deg", "true_airspeed_kt"}
           \subseteq SteppedOf["Velocity"]
  BY DEF SteppedOf, ExactOf
<1>2. QED
  BY <1>1 DEF Fields, LookedAt

LEMMA FieldsKept ==
  /\ Identifying \subseteq Fields /\ Derived \subseteq Fields /\ AirVector \subseteq Fields
  /\ {"callsign", "version", "mach", "true_airspeed_kt", "track_rate_deg_per_s"} \subseteq Fields
  /\ Identifying \cap Derived = {} /\ "callsign" \in Identifying
  /\ AirVector \cap Derived = {} /\ AirVector \cap Identifying = {}
  /\ "mach" \notin Derived /\ "true_airspeed_kt" \notin Derived
BY LooksAtFields DEF LookedAt, Identifying, AirVector, Derived

LEMMA SteppedKept ==
  /\ Stepped \subseteq Fields
  /\ Stepped \cap (Identifying \cup Derived \cup {"nac_p"}) = {}
  /\ Stepped \cap ExactOf["Reply"] = {}
BY KindsSay DEF Stepped

LEMMA SayingsAre ==
  ASSUME TrafficAssumption, NEW kind \in DOMAIN ExactOf, NEW m \in Sayings(kind)
  PROVE  /\ m.kind = kind /\ m.step \in {0} \cup Steps
         /\ DOMAIN m.said \subseteq (SteppedOf[kind] \cup ExactOf[kind]) \cap Spoken
         /\ \A f \in DOMAIN m.said : m.said[f] \in Values
BY DEF Sayings

LEMMA Saying ==
  ASSUME TrafficAssumption, NEW m \in Messages \cup Readings
  PROVE  /\ m.kind \in DOMAIN ExactOf /\ m.step \in {0} \cup Steps
         /\ DOMAIN m.said \subseteq SteppedOf[m.kind] \cup ExactOf[m.kind]
         /\ \A f \in DOMAIN m.said : m.said[f] \in Values
<1>1. PICK kind \in Kinds : m \in Sayings(kind)
  BY DEF Messages, Readings
<1>2. kind \in DOMAIN ExactOf
  BY DEF TrafficAssumption
<1>3. QED
  BY <1>1, <1>2, SayingsAre

-----------------------------------------------------------------------------
(* What is kept of them.                                                   *)

Reports == Heards \cup {Nothing}
Past(h) == h # Nothing => h.at <= now

(* Nothing derived is kept longer than what it is of. *)
Derives(held) ==
  /\ \A f \in {"oat_c", "tat_c"}, g \in {"mach", "true_airspeed_kt"} :
       held[f] # Nothing => held[g] # Nothing /\ held[f].at <= held[g].at
  /\ \A g \in AirVector :
       held["wind"] # Nothing => held[g] # Nothing /\ held["wind"].at <= held[g].at

(* A value kept is the last report, or one the last report repeats. *)
Follows(held, last) ==
  \/ held = last
  \/ /\ held # Nothing /\ held.step < last.step /\ Rounding(held, last)
     /\ last.at - held.at < RELATED
Followed(held, last) ==
  \A f \in Stepped : last[f] # Nothing => Follows(held[f], last[f])

(* What is known of an aircraft by its records of fields. *)
Keepable(held) ==
  /\ held \in [Fields -> Reports] /\ \A f \in Fields : Past(held[f])
  /\ Derives(held)

LEMMA HeardIs ==
  ASSUME TrafficAssumption, now \in 0 .. MaxNow,
         NEW value \in Values, NEW step \in {0} \cup Steps
  PROVE  /\ Heard(value, now, step) \in Heards /\ Heard(value, now, step) # Nothing
         /\ Heard(value, now, step).at = now /\ Heard(value, now, step).said = value
         /\ Heard(value, now, step).step = step
BY Lengths DEF Heard, Heards

LEMMA HeardsAre ==
  ASSUME TrafficAssumption, NEW h \in Reports, h # Nothing
  PROVE  /\ h \in Heards /\ h.at \in 0 .. MaxNow /\ h.at \in Int /\ h.step \in Nat
         /\ h.said \in Int /\ h.said \in Values
BY Lengths DEF Reports, Heards

(* What becomes of a field as a message is taken. *)
LEMMA KeepOne ==
  ASSUME TrafficAssumption, now \in 0 .. MaxNow, NEW m \in Messages \cup Readings,
         NEW held \in [Fields -> Reports], NEW f \in Fields
  PROVE  \/ Keep(held, m)[f] = held[f]
         \/ /\ f \in DOMAIN m.said
            /\ \/ f \in SteppedOf[m.kind] /\ Keep(held, m)[f] = Heard(m.said[f], now, m.step)
               \/ f \notin SteppedOf[m.kind] /\ Keep(held, m)[f] = Heard(m.said[f], now, 0)
BY DEF Keep

LEMMA KeepKeeps ==
  ASSUME TrafficAssumption, now \in 0 .. MaxNow, NEW m \in Messages \cup Readings,
         NEW held, Keepable(held)
  PROVE  Keepable(Keep(held, m))
<1> DEFINE next == Keep(held, m)
<1>1. /\ held \in [Fields -> Reports] /\ \A f \in Fields : Past(held[f])
      /\ now \in Int
  BY Lengths DEF Keepable
<1>2. \A f \in Fields :
        \/ next[f] = held[f]
        \/ f \in DOMAIN m.said /\ next[f] \in Heards /\ next[f] # Nothing /\ next[f].at = now
  <2> TAKE f \in Fields
  <2>1. CASE next[f] = held[f]
    BY <2>1
  <2>2. ASSUME f \in DOMAIN m.said, NEW step \in {0} \cup Steps, next[f] = Heard(m.said[f], now, step)
        PROVE  next[f] \in Heards /\ next[f] # Nothing /\ next[f].at = now
    BY <2>2, Saying, HeardIs
  <2>3. QED
    BY <1>1, <2>1, <2>2, KeepOne, Saying
<1>3. next \in [Fields -> Reports]
  BY <1>1, <1>2 DEF Keep, Reports
<1>4. \A f \in Fields : Past(next[f])
  BY <1>1, <1>2 DEF Past
<1>5. \A f \in Derived : next[f] = held[f]
  BY <1>2, Saying, KindsSay, FieldsKept
<1>6. ASSUME NEW f \in Derived, NEW g \in Fields, next[f] # Nothing,
             held[f] # Nothing => held[g] # Nothing /\ held[f].at <= held[g].at
      PROVE  next[g] # Nothing /\ next[f].at <= next[g].at
  <2>1. next[f] = held[f] /\ f \in Fields
    BY <1>5, FieldsKept
  <2>2. CASE next[g] = held[g]
    BY <1>6, <2>1, <2>2
  <2>3. CASE next[g] # Nothing /\ next[g].at = now
    BY <1>1, <1>6, <2>1, <2>3 DEF Past
  <2>4. QED
    BY <1>2, <2>2, <2>3
<1>7. Derives(next)
  <2>1. ASSUME NEW f \in {"oat_c", "tat_c"}, NEW g \in {"mach", "true_airspeed_kt"}, next[f] # Nothing
        PROVE  next[g] # Nothing /\ next[f].at <= next[g].at
    BY <1>6, <2>1, FieldsKept DEF Keepable, Derives, Derived
  <2>2. ASSUME NEW g \in AirVector, next["wind"] # Nothing
        PROVE  next[g] # Nothing /\ next["wind"].at <= next[g].at
    BY <1>6, <2>2, FieldsKept DEF Keepable, Derives, Derived
  <2>3. QED
    BY <2>1, <2>2 DEF Derives
<1>8. QED
  BY <1>3, <1>4, <1>7 DEF Keepable

(* The oldest of a few reports is one of their times, and of all of them   *)
(* the least.                                                              *)
LEMMA OldestIs ==
  ASSUME TrafficAssumption, NEW held, NEW F,
         \A f \in F : held[f].at \in 0 .. MaxNow,
         \E f \in F : \A h \in F : held[f].at <= held[h].at
  PROVE  Oldest(held, F) \in 0 .. MaxNow /\ \A f \in F : Oldest(held, F) <= held[f].at
<1>1. PICK f \in F : \A h \in F : held[f].at <= held[h].at
  OBVIOUS
<1>2. \E t \in 0 .. MaxNow : (\E h \in F : held[h].at = t) /\ \A h \in F : t <= held[h].at
  BY <1>1
<1>3. QED
  BY <1>2 DEF Oldest

LEMMA DeriveKeeps ==
  ASSUME TrafficAssumption, now \in 0 .. MaxNow, NEW held, Keepable(held)
  PROVE  Keepable(Derive(held)) /\ \A f \in Fields \ Derived : Derive(held)[f] = held[f]
<1> DEFINE next == Derive(held)
           Warm == {"mach", "true_airspeed_kt"}
           warm == Oldest(held, Warm)
           blown == Oldest(held, AirVector)
<1>1. /\ held \in [Fields -> Reports] /\ Derives(held)
      /\ \A f \in Fields : Past(held[f])
      /\ now \in Int /\ MaxNow \in Nat
  BY Lengths DEF Keepable
<1>2. \A f \in Fields \ Derived : next[f] = held[f]
  BY DEF Derive, Derived
<1>3. \A h : Within(h, RELATED) # Nothing \/ Within(h, WIND_WITHIN) # Nothing => h # Nothing
  BY DEF Within
<1>4. ASSUME NEW F \in {Warm, AirVector}, \A f \in F : held[f] # Nothing
      PROVE  /\ \A f \in F : held[f].at \in 0 .. now
             /\ Oldest(held, F) \in 0 .. now /\ \A f \in F : Oldest(held, F) <= held[f].at
  <2>1. /\ F \subseteq Fields /\ \A f \in F : held[f].at \in 0 .. now /\ held[f].at \in 0 .. MaxNow
    BY <1>1, <1>4, FieldsKept, HeardsAre DEF Past
  <2>2. \E f \in F : \A h \in F : held[f].at <= held[h].at
    <3>1. CASE F = Warm
      BY <2>1, <3>1
    <3>2. CASE F = AirVector
      BY <2>1, <3>2 DEF AirVector
    <3>3. QED
      BY <3>1, <3>2
  <2>3. Oldest(held, F) \in 0 .. MaxNow /\ \A f \in F : Oldest(held, F) <= held[f].at
    BY <2>1, <2>2, OldestIs
  <2>4. PICK f \in F : TRUE
    BY <2>2
  <2>5. Oldest(held, F) <= now
    BY <1>1, <2>1, <2>3, <2>4
  <2>6. QED
    BY <1>1, <2>1, <2>3, <2>5
<1>5. \A f \in {"oat_c", "tat_c"} :
        \/ next[f] = held[f]
        \/ (\A g \in Warm : held[g] # Nothing) /\ next[f] = Heard(0, warm, 0)
  BY <1>3, FieldsKept DEF Derive, Derived
<1>6. \/ next["wind"] = held["wind"]
      \/ (\A g \in AirVector : held[g] # Nothing) /\ next["wind"] = Heard(0, blown, 0)
  BY <1>3, FieldsKept DEF Derive, Derived
<1>7. \A t \in 0 .. now : Heard(0, t, 0) \in Heards /\ Heard(0, t, 0) # Nothing
                          /\ Heard(0, t, 0).at = t
  BY <1>1, Lengths DEF Heard, Heards
<1>8. \A f \in Derived : next[f] \in Reports /\ Past(next[f])
  <2>1. ASSUME NEW f \in {"oat_c", "tat_c"} PROVE next[f] \in Reports /\ Past(next[f])
    <3>1. CASE next[f] = held[f]
      BY <1>1, <3>1, FieldsKept DEF Derived
    <3>2. CASE (\A g \in Warm : held[g] # Nothing) /\ next[f] = Heard(0, warm, 0)
      <4>1. warm \in 0 .. now
        BY <1>4, <3>2
      <4>2. QED
        BY <1>1, <1>7, <3>2, <4>1 DEF Reports, Past
    <3>3. QED
      BY <1>5, <3>1, <3>2
  <2>2. next["wind"] \in Reports /\ Past(next["wind"])
    <3>1. CASE next["wind"] = held["wind"]
      BY <1>1, <3>1, FieldsKept DEF Derived
    <3>2. CASE (\A g \in AirVector : held[g] # Nothing) /\ next["wind"] = Heard(0, blown, 0)
      <4>1. blown \in 0 .. now
        BY <1>4, <3>2
      <4>2. QED
        BY <1>1, <1>7, <3>2, <4>1 DEF Reports, Past
    <3>3. QED
      BY <1>6, <3>1, <3>2
  <2>3. QED
    BY <2>1, <2>2 DEF Derived
<1>9. next \in [Fields -> Reports] /\ \A f \in Fields : Past(next[f])
  <2>1. \A f \in Fields : next[f] \in Reports /\ Past(next[f])
    BY <1>1, <1>2, <1>8
  <2>2. QED
    BY <2>1 DEF Derive
<1>10. Derives(next)
  <2>1. \A g \in Warm \cup AirVector : next[g] = held[g]
    BY <1>2, FieldsKept
  <2>2. ASSUME NEW f \in {"oat_c", "tat_c"}, NEW g \in Warm, next[f] # Nothing
        PROVE  next[g] # Nothing /\ next[f].at <= next[g].at
    <3>1. CASE next[f] = held[f]
      <4>1. held[f] # Nothing => held[g] # Nothing /\ held[f].at <= held[g].at
        BY <1>1 DEF Derives
      <4>2. next[g] = held[g]
        BY <2>1
      <4>3. QED
        BY <2>2, <3>1, <4>1, <4>2
    <3>2. CASE (\A h \in Warm : held[h] # Nothing) /\ next[f] = Heard(0, warm, 0)
      <4>1. warm \in 0 .. now /\ warm <= held[g].at
        BY <1>4, <3>2
      <4>2. next[f].at = warm
        BY <1>7, <3>2, <4>1
      <4>3. next[g] = held[g] /\ held[g] # Nothing
        BY <2>1, <3>2
      <4>4. QED
        BY <4>1, <4>2, <4>3
    <3>3. QED
      BY <1>5, <3>1, <3>2
  <2>3. ASSUME NEW g \in AirVector, next["wind"] # Nothing
        PROVE  next[g] # Nothing /\ next["wind"].at <= next[g].at
    <3>1. CASE next["wind"] = held["wind"]
      <4>1. held["wind"] # Nothing => held[g] # Nothing /\ held["wind"].at <= held[g].at
        BY <1>1 DEF Derives
      <4>2. next[g] = held[g]
        BY <2>1
      <4>3. QED
        BY <2>3, <3>1, <4>1, <4>2
    <3>2. CASE (\A h \in AirVector : held[h] # Nothing) /\ next["wind"] = Heard(0, blown, 0)
      <4>1. blown \in 0 .. now /\ blown <= held[g].at
        BY <1>4, <3>2
      <4>2. next["wind"].at = blown
        BY <1>7, <3>2, <4>1
      <4>3. next[g] = held[g] /\ held[g] # Nothing
        BY <2>1, <3>2
      <4>4. QED
        BY <4>1, <4>2, <4>3
    <3>3. QED
      BY <1>6, <3>1, <3>2
  <2>4. QED
    BY <2>2, <2>3 DEF Derives
<1>11. QED
  BY <1>2, <1>9, <1>10 DEF Keepable

(* A value kept follows what is reported as the message is taken. *)
LEMMA FollowsOn ==
  ASSUME TrafficAssumption, now \in 0 .. MaxNow, NEW m \in Messages \cup Readings,
         NEW held, Keepable(held), NEW last \in [Fields -> Reports], Followed(held, last)
  PROVE  /\ Reported(last, m) \in [Fields -> Reports]
         /\ Followed(Keep(held, m), Reported(last, m))
<1> DEFINE next == Keep(held, m)
           reported == Reported(last, m)
<1>1. \A f \in Fields :
        \/ f \notin DOMAIN m.said /\ reported[f] = last[f]
        \/ /\ f \in DOMAIN m.said
           /\ \/ f \in SteppedOf[m.kind] /\ reported[f] = Heard(m.said[f], now, m.step)
              \/ f \notin SteppedOf[m.kind] /\ reported[f] = Heard(m.said[f], now, 0)
  BY DEF Reported
<1>2. \A f \in DOMAIN m.said, step \in {0, m.step} : Heard(m.said[f], now, step) \in Heards
  BY Saying, HeardIs
<1>3. reported \in [Fields -> Reports]
  <2>1. \A f \in Fields : reported[f] \in Reports
    BY <1>1, <1>2 DEF Reports
  <2>2. QED
    BY <2>1 DEF Reported
<1>4. ASSUME NEW f \in Stepped, reported[f] # Nothing
      PROVE  Follows(next[f], reported[f])
  <2>1. f \in Fields /\ f # "nac_p"
    BY SteppedKept
  <2>2. CASE f \notin DOMAIN m.said
    BY <1>1, <1>4, <2>1, <2>2 DEF Keep, Followed
  <2>3. CASE f \in DOMAIN m.said /\ f \notin SteppedOf[m.kind]
    <3>1. next[f] = Heard(m.said[f], now, 0)
      BY <2>1, <2>3 DEF Keep, Qualifies
    <3>2. QED
      BY <1>1, <2>1, <2>3, <3>1 DEF Follows
  <2>4. CASE f \in DOMAIN m.said /\ f \in SteppedOf[m.kind]
    <3>1. reported[f] = Heard(m.said[f], now, m.step)
      BY <1>1, <2>1, <2>4
    <3>2. CASE Repeated(held[f], m.said[f], m.step)
      <4>1. next[f] = held[f]
        BY <2>1, <2>4, <3>2 DEF Keep, Qualifies
      <4>2. /\ reported[f].said = m.said[f] /\ reported[f].step = m.step /\ reported[f].at = now
            /\ m.said[f] \in Int
        BY <2>4, <3>1, Saying, HeardIs, Lengths
      <4>3. /\ held[f] # Nothing /\ held[f].step < m.step /\ now - held[f].at < RELATED
            /\ 2 * Distance(m.said[f], held[f].said) <= m.step + held[f].step
        BY <3>2 DEF Repeated
      <4>4. held[f].said \in Int /\ held[f].step \in Int /\ m.step \in Int
        BY <2>1, <2>4, <4>3, HeardsAre, Saying, Lengths DEF Keepable
      <4>5. Rounding(held[f], reported[f])
        BY <4>2, <4>3, <4>4 DEF Rounding, Distance
      <4>6. QED
        BY <4>1, <4>2, <4>3, <4>5 DEF Follows
    <3>3. CASE ~Repeated(held[f], m.said[f], m.step)
      <4>1. next[f] = Heard(m.said[f], now, m.step)
        BY <2>1, <2>4, <3>3 DEF Keep, Qualifies
      <4>2. QED
        BY <3>1, <4>1 DEF Follows
    <3>4. QED
      BY <3>2, <3>3
  <2>5. QED
    BY <2>2, <2>3, <2>4
<1>5. QED
  BY <1>3, <1>4 DEF Followed

(* The callsign is taken as it is said, or stands. *)
LEMMA CallsignSaid ==
  ASSUME TrafficAssumption, now \in 0 .. MaxNow, NEW m \in Messages \cup Readings,
         NEW held, NEW last
  PROVE  \/ /\ Keep(held, m)["callsign"] = held["callsign"]
            /\ Reported(last, m)["callsign"] = last["callsign"]
         \/ /\ Keep(held, m)["callsign"] = Reported(last, m)["callsign"]
            /\ Keep(held, m)["callsign"] # Nothing
<1>1. "callsign" \in Fields /\ "callsign" \notin SteppedOf[m.kind]
  BY FieldsKept, KindsSay, Saying
<1>2. CASE "callsign" \notin DOMAIN m.said
  BY <1>1, <1>2 DEF Keep, Reported
<1>3. CASE "callsign" \in DOMAIN m.said
  <2>1. Keep(held, m)["callsign"] = Heard(m.said["callsign"], now, 0)
    BY <1>1, <1>3 DEF Keep, Qualifies
  <2>2. Reported(last, m)["callsign"] = Heard(m.said["callsign"], now, 0)
    BY <1>1, <1>3 DEF Reported
  <2>3. QED
    BY <1>3, <2>1, <2>2, Saying, HeardIs
<1>4. QED
  BY <1>2, <1>3

(* What is taken of a message and of the register it answers with. *)
LEMMA TakenKeeps ==
  ASSUME TrafficAssumption, now \in 0 .. MaxNow, NEW m \in Messages,
         NEW answer \in Readings \cup {Nothing},
         NEW tracked, Keepable(tracked.kept),
         NEW last \in [Fields -> Reports], Followed(tracked.kept, last),
         NEW all, all = IF answer = Nothing THEN Reported(last, m)
                        ELSE Reported(Reported(last, m), answer)
  PROVE  LET held == Taken(tracked, m, answer).kept IN
         /\ Keepable(held) /\ all \in [Fields -> Reports] /\ Followed(held, all)
         /\ \/ held["callsign"] = tracked.kept["callsign"] /\ all["callsign"] = last["callsign"]
            \/ held["callsign"] = all["callsign"] /\ all["callsign"] # Nothing
<1> DEFINE first == Keep(tracked.kept, m)
           reported == Reported(last, m)
<1>1. /\ Keepable(first) /\ reported \in [Fields -> Reports] /\ Followed(first, reported)
      /\ \/ first["callsign"] = tracked.kept["callsign"] /\ reported["callsign"] = last["callsign"]
         \/ first["callsign"] = reported["callsign"] /\ first["callsign"] # Nothing
  BY KeepKeeps, FollowsOn, CallsignSaid
<1>2. CASE answer = Nothing
  BY <1>1, <1>2 DEF Taken
<1>3. CASE answer # Nothing
  <2> DEFINE second == Keep(first, answer)
  <2>1. answer \in Readings
    BY <1>3
  <2>2. /\ Keepable(second) /\ all \in [Fields -> Reports] /\ Followed(second, all)
        /\ \/ second["callsign"] = first["callsign"] /\ all["callsign"] = reported["callsign"]
           \/ second["callsign"] = all["callsign"] /\ second["callsign"] # Nothing
    BY <1>1, <1>3, <2>1, KeepKeeps, FollowsOn, CallsignSaid
  <2>3. Taken(tracked, m, answer).kept = Derive(second)
    BY <1>3 DEF Taken
  <2>4. Keepable(Derive(second)) /\ \A f \in Fields \ Derived : Derive(second)[f] = second[f]
    BY <2>2, DeriveKeeps
  <2>5. Followed(Derive(second), all)
    BY <2>2, <2>4, SteppedKept DEF Followed
  <2>6. Derive(second)["callsign"] = second["callsign"]
    BY <2>4, FieldsKept
  <2>7. QED
    BY <1>1, <2>2, <2>3, <2>4, <2>5, <2>6
<1>4. QED
  BY <1>2, <1>3

-----------------------------------------------------------------------------
(* What is known of all the aircraft.                                      *)

Typed ==
  /\ TypeOK /\ called \in [Addresses -> Reports]
  /\ newest \in [Addresses -> [Fields -> Reports]]

(* No aircraft had more messages than came, and nothing was heard later    *)
(* than now.                                                               *)
UpToNow ==
  \A a \in Addresses :
    /\ aircraft[a] # Nothing =>
         aircraft[a].messages <= messages /\ \A f \in Fields : Past(aircraft[a].kept[f])
    /\ remembered[a] # Nothing => \A f \in Identifying : Past(remembered[a][f])

(* One is the other, unless both have lapsed. *)
Alike(h, g) ==
  \/ h = g
  \/ Within(h, IDENTIFICATION_LAPSE) = Nothing /\ Within(g, IDENTIFICATION_LAPSE) = Nothing

(* The callsign an aircraft goes by, or would if a message of it came, is  *)
(* the last it said.                                                       *)
Called ==
  \A a \in Addresses :
    /\ Alike(Met(a).kept["callsign"], called[a])
    /\ newest[a]["callsign"] # Nothing => called[a] = newest[a]["callsign"]

(* What is derived of each is no younger than what it is of. *)
DerivedOfKept == \A a \in Addresses : aircraft[a] # Nothing => Derives(aircraft[a].kept)

Inductive ==
  Typed /\ OneRecord /\ Vouched /\ UpToNow /\ Called /\ StepsFollow /\ DerivedOfKept

LEMMA InductiveIsEnough ==
  TrafficAssumption /\ Inductive => CallsignKept /\ DerivedOldest /\ TypeOK
<1> SUFFICES ASSUME TrafficAssumption, Inductive PROVE CallsignKept /\ DerivedOldest /\ TypeOK
  OBVIOUS
<1>1. CallsignKept
  BY DEF Inductive, Called, CallsignKept, Listed, Met, Alike
<1>2. DerivedOldest
  BY DEF Inductive, DerivedOfKept, DerivedOldest, Derives
<1>3. QED
  BY <1>1, <1>2 DEF Inductive, Typed

LEMMA Unheard ==
  TrafficAssumption /\ now \in 0 .. MaxNow => Keepable(Nobody) /\ \A f \in Fields : Nobody[f] = Nothing
BY FieldsKept DEF Keepable, Nobody, Reports, Past, Derives, Derived

LEMMA InductiveAtStart == ASSUME TrafficAssumption, Init PROVE Inductive
<1>1. \A a \in Addresses : aircraft[a] = Nothing /\ remembered[a] = Nothing
                           /\ called[a] = Nothing /\ newest[a] = Nobody
  BY DEF Init
<1>2. now = 0 /\ 0 \in 0 .. MaxNow /\ 0 \in 0 .. MaxMessages /\ messages = 0
  BY Lengths DEF Init
<1>3. Typed
  <2>1. Nobody \in [Fields -> Reports]
    BY <1>2, Unheard DEF Keepable
  <2>2. QED
    BY <1>2, <2>1 DEF Init, Typed, TypeOK, Reports
<1>4. Called
  BY <1>1, <1>2, Unheard, FieldsKept DEF Called, Met, Alike
<1>5. StepsFollow
  BY <1>1, <1>2, Unheard, SteppedKept DEF StepsFollow
<1>6. OneRecord /\ Vouched /\ UpToNow /\ DerivedOfKept
  BY <1>1 DEF OneRecord, Vouched, UpToNow, DerivedOfKept
<1>7. QED
  BY <1>3, <1>4, <1>5, <1>6 DEF Inductive

(* What is known of an aircraft as a message of it comes. *)
LEMMA MetIs ==
  ASSUME TrafficAssumption, Inductive, NEW a \in Addresses
  PROVE  /\ Keepable(Met(a).kept) /\ Followed(Met(a).kept, newest[a])
         /\ Met(a).messages \in Nat /\ Met(a).messages <= messages
<1>1. now \in 0 .. MaxNow /\ messages \in Nat
  BY Lengths DEF Inductive, Typed, TypeOK
<1>2. CASE aircraft[a] # Nothing
  <2>1. aircraft[a] \in Tracked /\ Met(a) = aircraft[a]
    BY <1>2 DEF Inductive, Typed, TypeOK, Met
  <2>2. Keepable(Met(a).kept)
    BY <1>2, <2>1 DEF Inductive, UpToNow, DerivedOfKept, Keepable, Tracked, Reports
  <2>3. Met(a).messages \in Nat /\ Met(a).messages <= messages
    BY <1>2, <2>1 DEF Inductive, UpToNow, Tracked
  <2>4. Followed(Met(a).kept, newest[a])
    BY <1>2, <2>1 DEF Inductive, StepsFollow, Followed, Follows
  <2>5. QED
    BY <2>2, <2>3, <2>4
<1>3. CASE aircraft[a] = Nothing
  <2>1. Followed(Met(a).kept, newest[a])
    BY <1>3 DEF Inductive, StepsFollow, Followed
  <2>2. Met(a).messages = 0
    BY <1>3 DEF Met
  <2>3. CASE remembered[a] = Nothing
    BY <1>1, <1>3, <2>1, <2>2, <2>3, Unheard DEF Met
  <2>4. CASE remembered[a] # Nothing
    <3> DEFINE held == Met(a).kept
    <3>1. held = [f \in Fields |-> IF f \in Identifying THEN remembered[a][f] ELSE Nothing]
      BY <1>3, <2>4 DEF Met
    <3>2. remembered[a] \in [Identifying -> Reports] /\ \A f \in Identifying : Past(remembered[a][f])
      BY <2>4 DEF Inductive, Typed, TypeOK, UpToNow, Reports
    <3>3. held \in [Fields -> Reports] /\ \A f \in Fields : Past(held[f])
      BY <3>1, <3>2 DEF Reports, Past
    <3>4. \A f \in Derived : held[f] = Nothing
      BY <3>1, FieldsKept
    <3>5. Derives(held)
      BY <3>4 DEF Derives, Derived
    <3>6. QED
      BY <1>1, <2>1, <2>2, <3>3, <3>5 DEF Keepable
  <2>5. QED
    BY <2>3, <2>4
<1>4. QED
  BY <1>2, <1>3

LEMMA HearKeeps ==
  ASSUME TrafficAssumption, Inductive, NEW a \in Addresses,
         NEW trust \in {"announced", "recovered"}, NEW m \in Messages,
         NEW answer \in Readings \cup {Nothing}, Hear(a, trust, m, answer)
  PROVE  Inductive'
<1> DEFINE taken == Taken(Met(a), m, answer)
           all == IF answer = Nothing THEN Reported(newest[a], m)
                  ELSE Reported(Reported(newest[a], m), answer)
<1>1. /\ now \in 0 .. MaxNow /\ messages \in 0 .. MaxMessages /\ now' = now
      /\ messages < MaxMessages /\ messages' = messages + 1
      /\ MaxMessages \in Nat
  BY Lengths DEF Inductive, Typed, TypeOK, Hear
<1>2. /\ aircraft \in [Addresses -> Tracked \cup {Nothing}]
      /\ remembered \in [Addresses -> [Identifying -> Reports] \cup {Nothing}]
      /\ called \in [Addresses -> Reports] /\ newest \in [Addresses -> [Fields -> Reports]]
  BY DEF Inductive, Typed, TypeOK, Reports
<1>3. /\ aircraft' = [aircraft EXCEPT ![a] = taken] /\ remembered' = [remembered EXCEPT ![a] = Nothing]
      /\ newest' = [newest EXCEPT ![a] = all]
      /\ called' = IF all["callsign"] = newest[a]["callsign"] THEN called
                   ELSE [called EXCEPT ![a] = all["callsign"]]
  BY DEF Hear, Recalled
<1>4. /\ Keepable(taken.kept) /\ all \in [Fields -> Reports] /\ Followed(taken.kept, all)
      /\ \/ taken.kept["callsign"] = Met(a).kept["callsign"]
            /\ all["callsign"] = newest[a]["callsign"]
         \/ taken.kept["callsign"] = all["callsign"] /\ all["callsign"] # Nothing
  <2>1. Keepable(Met(a).kept) /\ Followed(Met(a).kept, newest[a])
    BY MetIs
  <2>2. newest[a] \in [Fields -> Reports]
    BY <1>2
  <2>3. QED
    BY <1>1, <2>1, <2>2, TakenKeeps
<1>5. taken \in Tracked /\ taken.messages <= messages' /\ taken # Nothing
  <2>1. taken.messages = Met(a).messages + 1 /\ taken.seen = now
    BY DEF Taken
  <2>2. taken.kept \in [Fields -> Heards \cup {Nothing}]
    BY <1>4 DEF Keepable, Reports
  <2>3. Met(a).messages \in Nat /\ Met(a).messages <= messages
    BY MetIs
  <2>4. taken.messages \in 0 .. MaxMessages /\ taken.messages <= messages'
    BY <1>1, <2>1, <2>3
  <2>5. taken = [messages |-> taken.messages, seen |-> taken.seen, kept |-> taken.kept]
    BY DEF Taken
  <2>6. taken \in Tracked
    BY <1>1, <2>1, <2>2, <2>4, <2>5 DEF Tracked
  <2>7. QED
    BY <2>4, <2>6, Lengths
<1>6. "callsign" \in Fields
  BY FieldsKept
<1>7. \A b \in Addresses : b # a =>
        /\ aircraft'[b] = aircraft[b] /\ remembered'[b] = remembered[b]
        /\ newest'[b] = newest[b] /\ called'[b] = called[b]
  BY <1>2, <1>3
<1>8. aircraft'[a] = taken /\ remembered'[a] = Nothing /\ newest'[a] = all
  BY <1>2, <1>3
<1>9. Typed'
  <2>1. all["callsign"] \in Reports
    BY <1>4, <1>6
  <2>2. called' \in [Addresses -> Reports] /\ newest' \in [Addresses -> [Fields -> Reports]]
    BY <1>2, <1>3, <1>4, <2>1
  <2>3. aircraft' \in [Addresses -> Tracked \cup {Nothing}]
        /\ remembered' \in [Addresses -> [Identifying -> Reports] \cup {Nothing}]
    BY <1>2, <1>3, <1>5
  <2>4. QED
    BY <1>1, <2>2, <2>3 DEF Typed, TypeOK, Reports
<1>10. OneRecord' /\ Vouched'
  <2>1. announced' = IF trust = "announced" THEN announced \cup {a} ELSE announced
    BY DEF Hear
  <2>2. trust = "announced" \/ aircraft[a] # Nothing
    BY DEF Hear, Believed
  <2>3. QED
    BY <1>7, <1>8, <2>1, <2>2 DEF Inductive, OneRecord, Vouched
<1>11. UpToNow'
  <2>1. \A b \in Addresses : b # a /\ remembered[b] # Nothing =>
          \A f \in Identifying : Past(remembered[b][f])
    BY DEF Inductive, UpToNow
  <2>2. ASSUME NEW b \in Addresses, b # a, aircraft[b] # Nothing
        PROVE  aircraft[b].messages <= messages' /\ \A f \in Fields : Past(aircraft[b].kept[f])
    <3>1. aircraft[b].messages <= messages /\ aircraft[b].messages \in Int
      BY <1>2, <2>2 DEF Inductive, UpToNow, Tracked
    <3>2. QED
      BY <1>1, <2>2, <3>1 DEF Inductive, UpToNow
  <2>3. \A f \in Fields : Past(taken.kept[f])
    BY <1>4 DEF Keepable
  <2>4. QED
    BY <1>1, <1>5, <1>7, <1>8, <2>1, <2>2, <2>3 DEF UpToNow, Past
<1>12. Called'
  <2>1. ASSUME NEW b \in Addresses, b # a
        PROVE  /\ Alike(Met(b).kept["callsign"], called[b])'
               /\ newest'[b]["callsign"] # Nothing => called'[b] = newest'[b]["callsign"]
    <3>1. Met(b)' = Met(b)
      BY <1>7, <2>1 DEF Met
    <3>2. QED
      BY <1>1, <1>7, <2>1, <3>1 DEF Inductive, Called, Alike, Within
  <2>2. Met(a)'.kept = taken.kept
    BY <1>5, <1>8 DEF Met
  <2>3. CASE all["callsign"] = newest[a]["callsign"]
    <3>1. called'[a] = called[a]
      BY <1>3, <2>3
    <3>2. newest[a]["callsign"] # Nothing => called[a] = newest[a]["callsign"]
      BY DEF Inductive, Called
    <3>3. Alike(Met(a).kept["callsign"], called[a])
      BY DEF Inductive, Called
    <3>4. Alike(taken.kept["callsign"], called[a])
      BY <1>4, <2>3, <3>2, <3>3 DEF Alike
    <3>5. Alike(Met(a).kept["callsign"], called[a])'
      BY <1>1, <2>2, <3>1, <3>4 DEF Alike, Within
    <3>6. QED
      BY <1>8, <2>1, <2>3, <3>1, <3>2, <3>5 DEF Called
  <2>4. CASE all["callsign"] # newest[a]["callsign"]
    <3>1. called'[a] = all["callsign"]
      BY <1>2, <1>3, <2>4
    <3>2. taken.kept["callsign"] = all["callsign"]
      BY <1>4, <2>4
    <3>3. Alike(Met(a).kept["callsign"], called[a])'
      BY <2>2, <3>1, <3>2 DEF Alike
    <3>4. QED
      BY <1>8, <2>1, <3>1, <3>3 DEF Called
  <2>5. QED
    BY <2>3, <2>4
<1>13. StepsFollow'
  <2>1. ASSUME NEW b \in Addresses, NEW f \in Stepped, newest'[b][f] # Nothing
        PROVE  aircraft'[b] # Nothing /\ Follows(aircraft'[b].kept[f], newest'[b][f])
    <3>1. CASE b = a
      BY <1>4, <1>5, <1>8, <2>1, <3>1 DEF Followed
    <3>2. CASE b # a
      <4>1. newest[b][f] # Nothing
        BY <1>7, <2>1, <3>2
      <4>2. aircraft[b] # Nothing /\ Follows(aircraft[b].kept[f], newest[b][f])
        BY <4>1 DEF Inductive, StepsFollow, Follows
      <4>3. QED
        BY <1>7, <3>2, <4>2
    <3>3. QED
      BY <3>1, <3>2
  <2>2. ASSUME NEW b \in Addresses, NEW f \in Stepped, newest'[b][f] # Nothing
        PROVE  aircraft'[b].kept[f] # Nothing
    <3>1. newest'[b][f] = newest'[b][f] /\ f \in Fields
      BY SteppedKept
    <3>2. QED
      BY <2>1, <2>2 DEF Follows
  <2>3. QED
    BY <2>1, <2>2 DEF StepsFollow, Follows
<1>14. DerivedOfKept'
  BY <1>4, <1>7, <1>8 DEF Inductive, DerivedOfKept, Keepable
<1>15. QED
  BY <1>9, <1>10, <1>11, <1>12, <1>13, <1>14 DEF Inductive

(* What is forgotten is remembered while its callsign or category lasts. *)
LEMMA RememberedIs ==
  ASSUME TrafficAssumption, Inductive, NEW a \in Addresses
  PROVE  /\ Remembered(a) \in [Identifying -> Reports] \cup {Nothing}
         /\ Remembered(a) # Nothing =>
              /\ aircraft[a] = Nothing \/ Forgotten(a)
              /\ \A f \in Identifying : Past(Remembered(a)[f])
              /\ Remembered(a)["callsign"] = Met(a).kept["callsign"]
         /\ Remembered(a) = Nothing /\ (aircraft[a] = Nothing \/ Forgotten(a)) =>
              Within(Met(a).kept["callsign"], IDENTIFICATION_LAPSE) = Nothing
<1> DEFINE last == [f \in Identifying |-> aircraft[a].kept[f]]
<1>1. /\ aircraft[a] \in Tracked \cup {Nothing}
      /\ remembered[a] \in [Identifying -> Reports] \cup {Nothing}
      /\ Identifying \subseteq Fields /\ "callsign" \in Identifying
      /\ "callsign" \in Fields
  BY FieldsKept DEF Inductive, Typed, TypeOK, Reports
<1>2. CASE Forgotten(a)
  <2>1. aircraft[a] # Nothing /\ aircraft[a] \in Tracked
    BY <1>1, <1>2 DEF Forgotten
  <2>2. last \in [Identifying -> Reports] /\ last # Nothing
    <3>1. last \in [Identifying -> Reports]
      BY <1>1, <2>1 DEF Tracked, Reports
    <3>2. QED
      BY <3>1, Lengths DEF Reports
  <2>3. \A f \in Identifying : Past(last[f])
    BY <1>1, <2>1 DEF Inductive, UpToNow
  <2>4. last["callsign"] = Met(a).kept["callsign"]
    BY <1>1, <2>1 DEF Met
  <2>5. Remembered(a) = IF Lasting(last) THEN last ELSE Nothing
    BY <1>2, <2>2 DEF Remembered
  <2>6. ~Lasting(last) => Within(last["callsign"], IDENTIFICATION_LAPSE) = Nothing
    BY <1>1 DEF Lasting
  <2>7. QED
    BY <1>2, <2>2, <2>3, <2>4, <2>5, <2>6
<1>3. CASE ~Forgotten(a)
  <2>1. Remembered(a) = IF remembered[a] # Nothing /\ Lasting(remembered[a])
                        THEN remembered[a] ELSE Nothing
    BY <1>3 DEF Remembered
  <2>2. remembered[a] # Nothing => aircraft[a] = Nothing
    BY DEF Inductive, OneRecord
  <2>3. remembered[a] # Nothing => remembered[a]["callsign"] = Met(a).kept["callsign"]
    BY <1>1, <2>2 DEF Met
  <2>4. remembered[a] # Nothing => \A f \in Identifying : Past(remembered[a][f])
    BY DEF Inductive, UpToNow
  <2>5. remembered[a] # Nothing /\ ~Lasting(remembered[a]) =>
          Within(remembered[a]["callsign"], IDENTIFICATION_LAPSE) = Nothing
    BY <1>1 DEF Lasting
  <2>6. aircraft[a] = Nothing /\ remembered[a] = Nothing =>
          Within(Met(a).kept["callsign"], IDENTIFICATION_LAPSE) = Nothing
    BY <1>1 DEF Met, Nobody, Within
  <2>7. QED
    BY <1>1, <1>3, <2>1, <2>2, <2>3, <2>4, <2>5, <2>6
<1>4. QED
  BY <1>2, <1>3

LEMMA SnapshotKeeps == ASSUME TrafficAssumption, Inductive, Snapshot PROVE Inductive'
<1>1. /\ now' = now /\ messages' = messages /\ called' = called /\ announced' = announced
      /\ \A a \in Addresses :
           /\ aircraft'[a] = IF Forgotten(a) THEN Nothing ELSE aircraft[a]
           /\ remembered'[a] = Remembered(a)
           /\ newest'[a] = IF Forgotten(a) THEN Nobody ELSE newest[a]
  BY DEF Snapshot
<1>2. /\ aircraft \in [Addresses -> Tracked \cup {Nothing}]
      /\ newest \in [Addresses -> [Fields -> Reports]]
      /\ now \in 0 .. MaxNow /\ "callsign" \in Fields
  BY FieldsKept DEF Inductive, Typed, TypeOK
<1>3. Nobody \in [Fields -> Reports] /\ \A f \in Fields : Nobody[f] = Nothing
  BY <1>2, Unheard DEF Keepable
<1>4. Typed'
  <2>1. aircraft' \in [Addresses -> Tracked \cup {Nothing}]
        /\ newest' \in [Addresses -> [Fields -> Reports]]
    BY <1>2, <1>3 DEF Snapshot
  <2>2. remembered' \in [Addresses -> [Identifying -> Reports] \cup {Nothing}]
    BY RememberedIs DEF Snapshot
  <2>3. QED
    BY <1>1, <2>1, <2>2 DEF Inductive, Typed, TypeOK, Reports
<1>5. OneRecord'
  BY <1>1, RememberedIs DEF OneRecord
<1>6. Vouched'
  BY <1>1 DEF Inductive, Vouched
<1>7. UpToNow'
  <2>1. ASSUME NEW a \in Addresses, aircraft'[a] # Nothing
        PROVE  aircraft'[a].messages <= messages' /\ \A f \in Fields : Past(aircraft[a].kept[f])'
    <3>1. aircraft'[a] = aircraft[a]
      BY <1>1, <2>1
    <3>2. QED
      BY <1>1, <2>1, <3>1 DEF Inductive, UpToNow, Past
  <2>2. ASSUME NEW a \in Addresses, remembered'[a] # Nothing
        PROVE  \A f \in Identifying : Past(remembered[a][f])'
    BY <1>1, <2>2, RememberedIs DEF Past
  <2>3. QED
    BY <2>1, <2>2 DEF UpToNow
<1>8. Called'
  <2>1. ASSUME NEW a \in Addresses
        PROVE  Alike(Met(a).kept["callsign"], called[a])'
    <3>1. Alike(Met(a).kept["callsign"], called[a])
      BY DEF Inductive, Called
    <3>2. CASE aircraft'[a] # Nothing
      <4>1. Met(a)' = Met(a)
        BY <1>1, <3>2 DEF Met
      <4>2. QED
        BY <1>1, <3>1, <4>1 DEF Alike, Within
    <3>3. CASE aircraft'[a] = Nothing
      <4>1. aircraft[a] = Nothing \/ Forgotten(a)
        BY <1>1, <3>3
      <4>2. CASE Remembered(a) # Nothing
        <5>1. Met(a)'.kept["callsign"] = Remembered(a)["callsign"]
          BY <1>1, <1>2, <3>3, <4>2, FieldsKept DEF Met
        <5>2. Remembered(a)["callsign"] = Met(a).kept["callsign"]
          BY <4>2, RememberedIs
        <5>3. QED
          BY <1>1, <3>1, <5>1, <5>2 DEF Alike, Within
      <4>3. CASE Remembered(a) = Nothing
        <5>1. Met(a)'.kept["callsign"] = Nothing
          BY <1>1, <1>2, <1>3, <3>3, <4>3 DEF Met
        <5>2. Within(Met(a).kept["callsign"], IDENTIFICATION_LAPSE) = Nothing
          BY <4>1, <4>3, RememberedIs
        <5>3. Within(called[a], IDENTIFICATION_LAPSE) = Nothing
          BY <3>1, <5>2 DEF Alike
        <5>4. QED
          BY <1>1, <5>1, <5>3 DEF Alike, Within
      <4>4. QED
        BY <4>2, <4>3
    <3>4. QED
      BY <3>2, <3>3
  <2>2. ASSUME NEW a \in Addresses, newest'[a]["callsign"] # Nothing
        PROVE  called'[a] = newest'[a]["callsign"]
    BY <1>1, <1>2, <1>3, <2>2 DEF Inductive, Called
  <2>3. QED
    BY <2>1, <2>2 DEF Called
<1>9. StepsFollow'
  <2>1. ASSUME NEW a \in Addresses, NEW f \in Stepped, newest'[a][f] # Nothing
        PROVE  ~Forgotten(a)
    BY <1>1, <1>3, <2>1, SteppedKept
  <2>2. \A a \in Addresses : ~Forgotten(a) => aircraft'[a] = aircraft[a] /\ newest'[a] = newest[a]
    BY <1>1
  <2>3. QED
    BY <2>1, <2>2 DEF Inductive, StepsFollow, Rounding
<1>10. DerivedOfKept'
  BY <1>1 DEF Inductive, DerivedOfKept
<1>11. QED
  BY <1>4, <1>5, <1>6, <1>7, <1>8, <1>9, <1>10 DEF Inductive

(* Time goes by: what has lapsed stays so. *)
LEMMA TimeKeeps ==
  ASSUME TrafficAssumption, Inductive, now' \in now .. MaxNow,
         UNCHANGED <<aircraft, remembered, messages, called, newest, announced>>
  PROVE  Inductive'
<1>1. now \in 0 .. MaxNow /\ now \in Int /\ MaxNow \in Int /\ now' \in 0 .. MaxNow
      /\ now <= now' /\ now' \in Int
  BY Lengths DEF Inductive, Typed, TypeOK
<1>2. \A h \in Reports : /\ Past(h) => Past(h)'
                         /\ Within(h, IDENTIFICATION_LAPSE) = Nothing =>
                              Within(h, IDENTIFICATION_LAPSE)' = Nothing
  <2> TAKE h \in Reports
  <2>1. CASE h = Nothing
    BY <2>1 DEF Past, Within
  <2>2. CASE h # Nothing
    <3>1. h.at \in Int /\ IDENTIFICATION_LAPSE \in Int
      BY <2>2, HeardsAre, Lengths
    <3>2. QED
      BY <1>1, <2>2, <3>1 DEF Past, Within
  <2>3. QED
    BY <2>1, <2>2
<1>3. Typed' /\ OneRecord' /\ Vouched' /\ StepsFollow' /\ DerivedOfKept'
  BY <1>1 DEF Inductive, Typed, TypeOK, OneRecord, Vouched, StepsFollow, DerivedOfKept
<1>4. UpToNow'
  <2>1. /\ \A a \in Addresses : aircraft[a] # Nothing =>
             \A f \in Fields : aircraft[a].kept[f] \in Reports
        /\ \A a \in Addresses : remembered[a] # Nothing =>
             \A f \in Identifying : remembered[a][f] \in Reports
    BY DEF Inductive, Typed, TypeOK, Tracked, Reports
  <2>2. QED
    BY <1>2, <2>1 DEF Inductive, UpToNow
<1>5. Called'
  <2>1. ASSUME NEW a \in Addresses
        PROVE  Alike(Met(a).kept["callsign"], called[a])'
    <3>1. Met(a).kept["callsign"] \in Reports /\ called[a] \in Reports
      BY MetIs, FieldsKept DEF Keepable, Inductive, Typed
    <3>2. Met(a)' = Met(a) /\ called'[a] = called[a]
      BY DEF Met
    <3>3. Alike(Met(a).kept["callsign"], called[a])
      BY DEF Inductive, Called
    <3>4. QED
      BY <1>2, <3>1, <3>2, <3>3 DEF Alike
  <2>2. QED
    BY <2>1 DEF Inductive, Called
<1>6. QED
  BY <1>3, <1>4, <1>5 DEF Inductive

-----------------------------------------------------------------------------
(* The tracker, whatever it hears.                                         *)

(* What a step of the tracker is: of the clock, of a message or a snapshot. *)
LEMMA StepIs ==
  ASSUME TrafficAssumption, Inductive, [Next]_vars
  PROVE  \/ /\ now' \in now .. MaxNow
            /\ UNCHANGED <<aircraft, remembered, messages, called, newest, announced>>
         \/ Snapshot
         \/ \E a \in Addresses, trust \in {"announced", "recovered"}, m \in Messages,
               answer \in Readings \cup {Nothing} : Hear(a, trust, m, answer)
<1>1. now \in 0 .. MaxNow /\ MaxNow \in Nat
  BY Lengths DEF Inductive, Typed, TypeOK
<1>2. CASE Tick
  BY <1>1, <1>2 DEF Tick
<1>3. CASE Snapshot
  BY <1>3
<1>4. CASE \E a \in Addresses : Listen(a)
  BY <1>4 DEF Listen
<1>5. CASE UNCHANGED vars
  BY <1>1, <1>5 DEF vars
<1>6. QED
  BY <1>2, <1>3, <1>4, <1>5 DEF Next

LEMMA InductiveHolds == Spec => []Inductive
<1>1. TrafficAssumption
  BY MCAssumption DEF PictureAssumption
<1>2. Init => Inductive
  BY <1>1, InductiveAtStart DEF Init
<1>3. Inductive /\ [Next]_vars => Inductive'
  BY <1>1, StepIs, TimeKeeps, SnapshotKeeps, HearKeeps
<1>4. QED
  BY <1>2, <1>3, PTL DEF Spec

(* Of any aircraft, heard in any order and forgotten in between: each has  *)
(* one record, of an address some message vouched for, with the callsign   *)
(* it said last while that lasts; its values are the last reported, or     *)
(* finer ones that these repeat; and what is derived is no younger than    *)
(* what it is of (traffic.rs:62, 241).                                     *)
THEOREM RecordsHolds == Spec => []Records
<1>1. Inductive => Records
  BY MCAssumption, InductiveIsEnough DEF PictureAssumption, Inductive, Records
<1>2. QED
  BY <1>1, InductiveHolds, PTL

-----------------------------------------------------------------------------
(* What a step may do to a value.                                          *)

(* A value in steps is kept, or is said anew and was not repeated. *)
LEMMA SteadyKeep ==
  ASSUME TrafficAssumption, now \in 0 .. MaxNow, NEW m \in Messages \cup Readings,
         NEW held, Keepable(held), NEW f \in Stepped, held[f] # Nothing,
         Keep(held, m)[f] # held[f], now - held[f].at < RELATED,
         held[f].step < Keep(held, m)[f].step
  PROVE  2 * Distance(held[f].said, Keep(held, m)[f].said) > held[f].step + Keep(held, m)[f].step
<1> DEFINE next == Keep(held, m)[f]
<1>1. f \in Fields /\ held[f].step \in Nat /\ held[f].said \in Int
  BY SteppedKept, HeardsAre DEF Keepable
<1>2. f \in DOMAIN m.said /\ m.said[f] \in Values /\ m.step \in Nat /\ m.said[f] \in Int
  BY <1>1, Saying, Lengths DEF Keep
<1>3. f \in SteppedOf[m.kind] /\ next = Heard(m.said[f], now, m.step)
      /\ ~Repeated(held[f], m.said[f], m.step)
  <2>1. next # Heard(m.said[f], now, 0)
    BY <1>1, <1>2, HeardIs
  <2>2. QED
    BY <1>1, <1>2, <2>1 DEF Keep
<1>4. next.said = m.said[f] /\ next.step = m.step
  BY <1>2, <1>3, HeardIs, Saying
<1>5. ~(2 * Distance(m.said[f], held[f].said) <= m.step + held[f].step)
  BY <1>3, <1>4 DEF Repeated
<1>6. QED
  BY <1>1, <1>2, <1>4, <1>5 DEF Distance

(* A coarser report takes the place of no value heard lately that it only  *)
(* repeats, but of a bearing (traffic.rs:241).                             *)
THEOREM ValuesSteadyHolds == Spec => ValuesSteady
<1> DEFINE S == Stepped \ Bearings
<1>1. TrafficAssumption
  BY MCAssumption DEF PictureAssumption
<1>2. ASSUME Inductive, NEW a \in Addresses, NEW trust \in {"announced", "recovered"},
             NEW m \in Messages, NEW answer \in Readings \cup {Nothing}, Hear(a, trust, m, answer)
      PROVE  SteadyStep(S)
  <2>1. now \in 0 .. MaxNow /\ aircraft' = [aircraft EXCEPT ![a] = Taken(Met(a), m, answer)]
        /\ aircraft \in [Addresses -> Tracked \cup {Nothing}]
    BY <1>2 DEF Inductive, Typed, TypeOK, Hear
  <2>2. SUFFICES ASSUME NEW b \in Addresses, NEW f \in S, aircraft[b] # Nothing, aircraft'[b] # Nothing,
                        aircraft[b].kept[f] # Nothing,
                        aircraft'[b].kept[f] # aircraft[b].kept[f],
                        now - aircraft[b].kept[f].at < RELATED,
                        aircraft[b].kept[f].step < aircraft'[b].kept[f].step
                 PROVE  2 * Apart(f, aircraft[b].kept[f], aircraft'[b].kept[f])
                          > aircraft[b].kept[f].step + aircraft'[b].kept[f].step
    BY DEF SteadyStep
  <2> DEFINE held == aircraft[a].kept
             first == Keep(held, m)
  <2>3. b = a /\ aircraft'[a] = Taken(aircraft[a], m, answer)
    BY <2>1, <2>2 DEF Met
  <2>4. Keepable(held)
    BY <1>1, <1>2, <2>2, <2>3, MetIs DEF Met
  <2>5. f \in Stepped /\ f \in Fields /\ f \notin Derived /\ f \notin Bearings
    BY SteppedKept
  <2>6. CASE answer = Nothing
    <3>1. aircraft'[a].kept[f] = first[f]
      BY <2>3, <2>6 DEF Taken
    <3>2. QED
      BY <1>1, <2>1, <2>2, <2>3, <2>4, <2>5, <3>1, SteadyKeep DEF Apart
  <2>7. CASE answer # Nothing
    <3>1. answer \in Readings /\ m.kind = "Reply"
      BY <1>2, <2>7 DEF Hear
    <3>2. f \notin DOMAIN m.said
      BY <1>1, <2>5, <3>1, Saying, SteppedKept, KindsSay
    <3>3. first[f] = held[f]
      BY <2>5, <3>2 DEF Keep
    <3>4. Keepable(first)
      BY <1>1, <2>1, <2>4, KeepKeeps
    <3>5. Keepable(Keep(first, answer))
      BY <1>1, <2>1, <3>1, <3>4, KeepKeeps
    <3>6. aircraft'[a].kept[f] = Keep(first, answer)[f]
      BY <1>1, <2>1, <2>3, <2>5, <2>7, <3>5, DeriveKeeps DEF Taken
    <3>7. QED
      BY <1>1, <2>1, <2>2, <2>3, <2>5, <3>1, <3>3, <3>4, <3>6, SteadyKeep DEF Apart
  <2>8. QED
    BY <2>6, <2>7
<1>3. Inductive /\ [Next]_vars => [SteadyStep(S)]_vars
  <2> SUFFICES ASSUME Inductive, [Next]_vars
               PROVE  SteadyStep(S)
    OBVIOUS
  <2>1. CASE UNCHANGED aircraft
    BY <2>1 DEF SteadyStep
  <2>2. CASE Snapshot
    BY <2>2 DEF Snapshot, SteadyStep
  <2>3. QED
    BY <1>1, <1>2, <2>1, <2>2, StepIs
<1>4. QED
  BY <1>3, InductiveHolds, PTL DEF Spec, ValuesSteady

-----------------------------------------------------------------------------
(* What is proved of the track store holds of the three that are run here. *)

StoresSound ==
  /\ question = "trails" => Trails!Sound
  /\ question = "samples" => Samples!Sound
  /\ question = "drags" => Drags!Sound

LEMMA StoresSoundHolds == MCSpec => []StoresSound
<1>1. MCInit => StoresSound
  BY MCAssumption, Trails!SoundAtStart, Samples!SoundAtStart, Drags!SoundAtStart
     DEF MCInit, StoresSound
<1>2. ASSUME StoresSound, [MCNext]_<<question, pictureVars, storeVars, restVars>>
      PROVE  StoresSound'
  <2>1. question' = question
    BY <1>2 DEF MCNext
  <2>2. ASSUME question = "trails" PROVE Trails!Sound'
    <3>1. [Trails!Next]_(Trails!vars)
      BY <1>2, <2>2 DEF MCNext, pictureVars, storeVars, pageVars, Trails!vars
    <3>2. QED
      BY <1>2, <2>2, <3>1, MCAssumption, Trails!SoundKept DEF StoresSound
  <2>3. ASSUME question = "samples" PROVE Samples!Sound'
    <3>1. [Samples!Next]_(Samples!vars)
      BY <1>2, <2>3 DEF MCNext, pictureVars, storeVars, pageVars, Samples!vars
    <3>2. QED
      BY <1>2, <2>3, <3>1, MCAssumption, Samples!SoundKept DEF StoresSound
  <2>4. ASSUME question = "drags" PROVE Drags!Sound'
    <3>1. [Drags!Next]_(Drags!vars)
      BY <1>2, <2>4 DEF MCNext, pictureVars, storeVars, pageVars, Drags!vars
    <3>2. QED
      BY <1>2, <2>4, <3>1, MCAssumption, Drags!SoundKept DEF StoresSound
  <2>5. QED
    BY <2>1, <2>2, <2>3, <2>4 DEF StoresSound
<1>3. QED
  BY <1>1, <1>2, PTL DEF MCSpec

(* Of any aircraft, a target is listed or remembered, never both, and all  *)
(* its coordinates are of the projection in use (trackStore.ts:172).       *)
THEOREM StoreSoundHolds == MCSpec => []StoreSound
<1>1. StoresSound => StoreSound
  BY Trails!SoundIsEnough, Samples!SoundIsEnough, Drags!SoundIsEnough
     DEF StoresSound, StoreSound
<1>2. QED
  BY <1>1, StoresSoundHolds, PTL
=============================================================================
