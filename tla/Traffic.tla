------------------------------ MODULE Traffic ------------------------------
(***************************************************************************)
(* The aircraft a receiver hears, kept from one message to the next: who   *)
(* is taken for an aircraft, which of the values said of it are kept and   *)
(* for how long, and what of it outlives it.                               *)
(*                                                                         *)
(* A value is an integer, a flag 1 or 0: what it stands for matters only   *)
(* where two reports of it are compared.  Where a position message puts    *)
(* the aircraft, and which register a Comm-B field is read as, are         *)
(* decoding, and any outcome of it is possible here.                       *)
(***************************************************************************)
EXTENDS Integers, FiniteSets

CONSTANTS
  Addresses,
  Nothing,        \* None
  Kinds, Spoken,  \* the messages that are sent, and the fields they say
  Values,
  Steps,          \* the steps a report in steps comes in
  Circle,         \* how many values a bearing has
  WIND_WITHIN, RELATED, LAPSE, IDENTIFICATION_LAPSE,
  MaxNow, MaxMessages  \* bounds

MESSAGES_TO_BE_LISTED == 2

VARIABLES
  now,         \* the clock, which here only goes forward
  aircraft,    \* Traffic.aircraft, Nothing where there is none
  remembered,  \* Traffic.remembered
  messages,    \* Traffic.messages
  \* history variables
  called,      \* the callsign each address last said
  newest,      \* the last report of each value since the aircraft was known
  announced    \* the addresses some message has vouched for

vars == <<now, aircraft, remembered, messages, called, newest, announced>>

-----------------------------------------------------------------------------
(* What the messages say.                                                  *)

Modes == {"autopilot", "vnav", "altitude_hold", "approach", "lnav", "tcas"}
Identifying == {"callsign", "emitter_category"}
Derived == {"oat_c", "tat_c", "wind"}
Target == {"selected_altitude_mcp_ft", "selected_altitude_fms_ft",
           "baro_setting_hpa"}

(* The fields each kind of message, or register, says in steps... *)
SteppedOf == [
  AirbornePosition |-> {}, SurfacePosition |-> {}, Reply |-> {},
  Identification |-> {}, Status |-> {}, ResolutionAdvisory |-> {},
  OperationalStatus |-> {},
  Velocity |-> {"ground_speed_kt", "track_deg", "magnetic_heading_deg",
                "baro_vertical_rate_fpm", "geometric_vertical_rate_fpm",
                "indicated_airspeed_kt", "true_airspeed_kt"},
  TargetStateAndStatus |-> Target, SelectedVerticalIntention |-> Target,
  CallsignRegister |-> {}, AdvisoryRegister |-> {},
  TrackAndTurn |-> {"track_deg", "ground_speed_kt", "true_airspeed_kt"},
  HeadingAndSpeed |-> {"magnetic_heading_deg", "indicated_airspeed_kt",
                       "baro_vertical_rate_fpm", "geometric_vertical_rate_fpm"}]

(* ... and those it says exactly. *)
ExactOf == [
  AirbornePosition |-> {"baro_altitude_ft", "geometric_altitude_ft",
                        "on_ground", "nac_p", "fix"},
  SurfacePosition |-> {"ground_speed_kt", "track_deg", "on_ground", "nac_p",
                       "fix"},
  Reply |-> {"on_ground", "baro_altitude_ft", "mode_a_code", "ident"},
  Identification |-> Identifying,
  Velocity |-> {"geometric_minus_baro_ft"},
  Status |-> {"emergency_priority_status", "mode_a_code"},
  TargetStateAndStatus |-> Modes \cup {"selected_heading_deg", "nac_p"},
  ResolutionAdvisory |-> {"advisory"},
  OperationalStatus |-> {"nac_p", "version"},
  SelectedVerticalIntention |-> {"vnav", "altitude_hold", "approach"},
  CallsignRegister |-> {"callsign"}, AdvisoryRegister |-> {"advisory"},
  TrackAndTurn |-> {"roll_deg", "track_rate_deg_per_s"},
  HeadingAndSpeed |-> {"mach"}]

Registers == {"CallsignRegister", "AdvisoryRegister", "SelectedVerticalIntention",
              "TrackAndTurn", "HeadingAndSpeed"}
(* The fields that are kept: of those some message says, the ones said     *)
(* here, and the ones the rules below look at.                             *)
LookedAt ==
  Identifying \cup {"version", "fix", "mach", "track_rate_deg_per_s", "track_deg",
    "ground_speed_kt", "magnetic_heading_deg", "true_airspeed_kt"}
Fields ==
  Derived \cup ((Spoken \cup LookedAt)
    \cap UNION {SteppedOf[k] \cup ExactOf[k] : k \in DOMAIN ExactOf})
Stepped == Fields \cap UNION {SteppedOf[k] : k \in DOMAIN SteppedOf}
Bearings == {"track_deg", "magnetic_heading_deg"}

(* The fields no message of the kind leaves out. *)
Always(kind) ==
  CASE kind \in {"AirbornePosition", "SurfacePosition"} -> {"on_ground", "nac_p"}
    [] kind = "Identification" -> {"emitter_category"}
    [] kind = "OperationalStatus" -> {"version"}
    [] OTHER -> {}

(* A message of the kind, with any of the fields it may say. *)
Sayings(kind) ==
  LET F == (SteppedOf[kind] \cup ExactOf[kind]) \cap Spoken
      steps == IF SteppedOf[kind] \cap Spoken = {} THEN {0} ELSE Steps IN
  UNION {[kind : {kind}, said : [D -> Values], step : steps] :
           D \in {E \in SUBSET F : Always(kind) \cap F \subseteq E}}

(* A velocity is over the ground or through the air, with one airspeed and *)
(* one vertical rate.                                                      *)
Exclusive ==
  {{g, a} : g \in {"ground_speed_kt", "track_deg"},
            a \in {"magnetic_heading_deg", "indicated_airspeed_kt",
                   "true_airspeed_kt"}}
    \cup {{"indicated_airspeed_kt", "true_airspeed_kt"},
          {"baro_vertical_rate_fpm", "geometric_vertical_rate_fpm"}}

(* A message that is sent: a position in the air or on the ground. *)
Sound(m) ==
  /\ "on_ground" \in DOMAIN m.said =>
       /\ m.kind = "AirbornePosition" => m.said["on_ground"] = 0
       /\ m.kind = "SurfacePosition" => m.said["on_ground"] = 1
  /\ m.kind = "Velocity" => \A e \in Exclusive : ~(e \subseteq DOMAIN m.said)

Messages == {m \in UNION {Sayings(k) : k \in Kinds \ Registers} : Sound(m)}
Readings == UNION {Sayings(k) : k \in Kinds \cap Registers}

-----------------------------------------------------------------------------
(* What is kept of them.                                                   *)

Heards == [said : Values, at : 0 .. MaxNow, step : {0} \cup Steps]
Heard(said, at, step) == [said |-> said, at |-> at, step |-> step]
Nobody == [f \in Fields |-> Nothing]

(* An aircraft: its messages, when it was last heard, what is kept of each *)
(* field, the identifying ones among them in its Remembered.               *)
Tracked == [messages : 0 .. MaxMessages, seen : 0 .. MaxNow,
            kept : [Fields -> Heards \cup {Nothing}]]

(* What the constants are taken to be, assumed where they are given values. *)
TrafficAssumption ==
  /\ {WIND_WITHIN, RELATED, LAPSE, IDENTIFICATION_LAPSE} \subseteq Nat \ {0}
  /\ WIND_WITHIN <= RELATED /\ RELATED <= LAPSE /\ LAPSE <= IDENTIFICATION_LAPSE
  /\ {0, 1} \subseteq Values /\ Values \subseteq Int /\ Steps \subseteq Nat
  /\ Circle \in Nat /\ MaxNow \in Nat /\ MaxMessages \in Nat
  /\ Kinds \subseteq DOMAIN ExactOf
  /\ Nothing \notin Heards \cup Tracked \cup [Identifying -> Heards \cup {Nothing}]

(* Said.within: what was kept, unless it has lapsed. *)
Within(h, lapse) ==
  IF h # Nothing /\ now - h.at < lapse THEN h ELSE Nothing

Distance(u, v) == IF u < v THEN v - u ELSE u - v

(* Mutated: a finer value is kept for ever while it is repeated. *)
RepeatedForEver(h, said, step) ==
  /\ h # Nothing /\ h.step < step
  /\ 2 * Distance(said, h.said) <= step + h.step
(* Mutated: never. *)
RepeatedNever(h, said, step) == FALSE
(* Said.keep_in_steps: a coarser report repeats what is kept when that is  *)
(* of the last sweep or two and the two agree within their rounding.       *)
Repeated(h, said, step) ==
  /\ h # Nothing /\ h.step < step
  /\ 2 * Distance(said, h.said) <= step + h.step
  /\ now - h.at < RELATED

(* The accuracy of a position message stands only for an aircraft of       *)
(* version 0.                                                              *)
Qualifies(kept, m, f) ==
  (/\ f = "nac_p" /\ m.kind \in {"AirbornePosition", "SurfacePosition"})
  => kept["version"] = Nothing \/ kept["version"].said = 0

(* Takes what the message says of each field. *)
Keep(kept, m) ==
  [f \in Fields |->
     IF f \notin DOMAIN m.said \/ ~Qualifies(kept, m, f) THEN kept[f]
     ELSE IF f \notin SteppedOf[m.kind] THEN Heard(m.said[f], now, 0)
     ELSE IF Repeated(kept[f], m.said[f], m.step) THEN kept[f]
     ELSE Heard(m.said[f], now, m.step)]

AirVector ==
  {"track_deg", "ground_speed_kt", "magnetic_heading_deg", "true_airspeed_kt"}

(* When the oldest of the inputs was heard. *)
Oldest(kept, F) == CHOOSE t \in 0 .. MaxNow :
  (\E f \in F : kept[f].at = t) /\ \A f \in F : t <= kept[f].at

(* Tracked.derive: the temperatures, of a Mach number and an airspeed said *)
(* lately, and the wind, of a ground and an air vector of one sweep while  *)
(* the aircraft flies straight.  What they come to is not looked into.     *)
Derive(kept) ==
  LET Lately(F, lapse) == \A f \in F : Within(kept[f], lapse) # Nothing
      warm == Lately({"mach", "true_airspeed_kt"}, RELATED) /\ kept["mach"].said > 0
      rate == Within(kept["track_rate_deg_per_s"], RELATED)
      blows == Lately(AirVector, WIND_WITHIN) /\ (rate = Nothing \/ rate.said = 0)
  IN [f \in Fields |->
        CASE f \in {"oat_c", "tat_c"} /\ warm ->
               Heard(0, Oldest(kept, {"mach", "true_airspeed_kt"}), 0)
          [] f = "wind" /\ blows -> Heard(0, Oldest(kept, AirVector), 0)
          [] OTHER -> kept[f]]

(* Tracked.hear: the message, then the register it answers with, if any,   *)
(* and what is derived of the air data after each register.                *)
Taken(tracked, m, answer) ==
  LET kept == Keep(tracked.kept, m) IN
  [messages |-> tracked.messages + 1, seen |-> now,
   kept |-> IF answer = Nothing THEN kept ELSE Derive(Keep(kept, answer))]

-----------------------------------------------------------------------------
Init ==
  /\ now = 0 /\ messages = 0 /\ announced = {}
  /\ aircraft = [a \in Addresses |-> Nothing]
  /\ remembered = [a \in Addresses |-> Nothing]
  /\ called = [a \in Addresses |-> Nothing]
  /\ newest = [a \in Addresses |-> Nobody]

Tick ==
  /\ now < MaxNow /\ now' = now + 1
  /\ UNCHANGED <<aircraft, remembered, messages, called, newest, announced>>

(* The aircraft as it is known when a message of it comes: what was        *)
(* remembered of it, of one that was not known.                            *)
Met(a) ==
  IF aircraft[a] # Nothing THEN aircraft[a]
  ELSE [messages |-> 0, seen |-> 0,
        kept |-> IF remembered[a] = Nothing THEN Nobody
                 ELSE [f \in Fields |->
                         IF f \in Identifying THEN remembered[a][f] ELSE Nothing]]

(* An address that is only recovered is believed of an aircraft known. *)
Believed(a, trust) == trust = "announced" \/ aircraft[a] # Nothing

(* Mutated: what was remembered stays so. *)
RecalledTwice(a) == remembered
(* Of an aircraft known nothing is remembered besides. *)
Recalled(a) == [remembered EXCEPT ![a] = Nothing]

(* The last reports of an aircraft, once it has said these. *)
Reported(last, m) ==
  [f \in Fields |->
     IF f \notin DOMAIN m.said THEN last[f]
     ELSE Heard(m.said[f], now, IF f \in SteppedOf[m.kind] THEN m.step ELSE 0)]

(* Traffic.take: a message from the address, and the register it answers   *)
(* with.                                                                   *)
Hear(a, trust, m, answer) ==
  /\ messages < MaxMessages /\ Believed(a, trust)
  /\ answer # Nothing => m.kind = "Reply"
  /\ messages' = messages + 1
  /\ aircraft' = [aircraft EXCEPT ![a] = Taken(Met(a), m, answer)]
  /\ remembered' = Recalled(a)
  /\ LET reported == Reported(newest[a], m)
         all == IF answer = Nothing THEN reported ELSE Reported(reported, answer) IN
     /\ newest' = [newest EXCEPT ![a] = all]
     /\ called' = IF all["callsign"] = newest[a]["callsign"] THEN called
                  ELSE [called EXCEPT ![a] = all["callsign"]]
  /\ announced' = IF trust = "announced" THEN announced \cup {a} ELSE announced
  /\ UNCHANGED now

Forgotten(a) == aircraft[a] # Nothing /\ now - aircraft[a].seen >= LAPSE

(* Remembered.at: the callsign or the category has not lapsed. *)
Lasting(r) == \E f \in Identifying : Within(r[f], IDENTIFICATION_LAPSE) # Nothing

(* What is remembered once the aircraft no longer heard are forgotten. *)
Remembered(a) ==
  LET r == IF Forgotten(a) THEN [f \in Identifying |-> aircraft[a].kept[f]]
           ELSE remembered[a] IN
  IF r # Nothing /\ Lasting(r) THEN r ELSE Nothing

(* Traffic.snapshot, as far as it changes anything. *)
Snapshot ==
  /\ aircraft' = [a \in Addresses |-> IF Forgotten(a) THEN Nothing ELSE aircraft[a]]
  /\ remembered' = [a \in Addresses |-> Remembered(a)]
  /\ newest' = [a \in Addresses |-> IF Forgotten(a) THEN Nobody ELSE newest[a]]
  /\ UNCHANGED <<now, messages, called, announced>>

Listen(a) ==
  \E trust \in {"announced", "recovered"}, m \in Messages,
     answer \in Readings \cup {Nothing} : Hear(a, trust, m, answer)

Next == Tick \/ Snapshot \/ \E a \in Addresses : Listen(a)

Spec == Init /\ [][Next]_vars

-----------------------------------------------------------------------------
(* What it keeps to.                                                       *)

TypeOK ==
  /\ now \in 0 .. MaxNow /\ messages \in 0 .. MaxMessages
  /\ aircraft \in [Addresses -> Tracked \cup {Nothing}]
  /\ remembered \in
       [Addresses -> [Identifying -> Heards \cup {Nothing}] \cup {Nothing}]

(* In the snapshot taken now. *)
Listed(a) ==
  /\ aircraft[a] # Nothing /\ ~Forgotten(a)
  /\ aircraft[a].messages >= MESSAGES_TO_BE_LISTED

(* An aircraft is known or remembered, never both: what is remembered of   *)
(* it is what it last said.                                                *)
OneRecord == \A a \in Addresses : aircraft[a] = Nothing \/ remembered[a] = Nothing

(* A listed aircraft goes by the callsign it said last, as long as it said *)
(* it lately, even when it was forgotten since; and then by none.          *)
CallsignKept ==
  \A a \in Addresses : Listed(a) =>
    Within(aircraft[a].kept["callsign"], IDENTIFICATION_LAPSE)
      = Within(called[a], IDENTIFICATION_LAPSE)

(* No aircraft is made of addresses that damage may have made up.          *)
Vouched == \A a \in Addresses \ announced : aircraft[a] = Nothing

Rounding(h, g) == Distance(h.said, g.said) * 2 <= h.step + g.step

(* A value shown is the last one reported, or a finer one the last report  *)
(* only repeats, which was heard within a sweep or two of it: values do    *)
(* not stick.                                                              *)
StepsFollow ==
  \A a \in Addresses, f \in Stepped :
    LET last == newest[a][f] kept == IF aircraft[a] = Nothing THEN Nothing
                                     ELSE aircraft[a].kept[f] IN
    last # Nothing =>
      /\ kept # Nothing
      /\ \/ kept = last
         \/ /\ kept.step < last.step /\ Rounding(kept, last)
            /\ last.at - kept.at < RELATED

(* The two values of a bearing are no further apart than the short way.    *)
Apart(f, h, g) ==
  LET d == Distance(h.said, g.said) IN
  IF f \in Bearings /\ Circle - d < d THEN Circle - d ELSE d

(* A step in which no coarser report takes the place of a value heard      *)
(* lately that it only repeats, within rounding.                           *)
SteadyStep(F) ==
  \A a \in Addresses, f \in F :
    (aircraft[a] # Nothing /\ aircraft'[a] # Nothing) =>
      LET kept == aircraft[a].kept[f] next == aircraft'[a].kept[f] IN
      (/\ kept # Nothing /\ next # kept
       /\ now - kept.at < RELATED /\ kept.step < next.step)
      => 2 * Apart(f, kept, next) > kept.step + next.step

(* Values that are not bearings stay steady under coarser repeats: a       *)
(* surface or register report does not jitter the finer one shown.         *)
ValuesSteady == [][SteadyStep(Stepped \ Bearings)]_vars

(* Bearings stay steady too, as the comment on keep_in_steps says of every *)
(* value: but the code compares them as numbers, and 359.9 and 0.2 are not *)
(* taken for a repeat.                                                     *)
BearingsSteady == [][SteadyStep(Bearings)]_vars

(* What is derived is never passed off as younger than what it is of.      *)
DerivedOldest ==
  \A a \in Addresses : aircraft[a] # Nothing =>
    LET kept == aircraft[a].kept IN
    /\ \A f \in {"oat_c", "tat_c"}, g \in {"mach", "true_airspeed_kt"} :
         kept[f] # Nothing => kept[f].at <= kept[g].at
    /\ \A g \in AirVector : kept["wind"] # Nothing => kept["wind"].at <= kept[g].at

(* Of any aircraft: each has one record, of an address some message        *)
(* vouched for; what it holds is of its types; it goes by the callsign it  *)
(* said last, its values follow what was said in steps, and nothing        *)
(* derived is younger than what it is of (traffic.rs:62, 241).             *)
Records ==
  /\ TypeOK /\ OneRecord /\ Vouched /\ CallsignKept
  /\ StepsFollow /\ DerivedOldest
=============================================================================
