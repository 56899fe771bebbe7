------------------------------- MODULE Fixes -------------------------------
(***************************************************************************)
(* Where an aircraft is taken to be: by two of its positions in the air,   *)
(* one of each format, when they are recent, else by the last fix, and on  *)
(* the ground by the last fix or the site.  The aircraft moves, and any of *)
(* its messages may go unheard.                                            *)
(*                                                                         *)
(* Positions are broadcast in Compact Position Reporting, on a globe of    *)
(* QUADRANT zones of latitude between the equator and a pole, and angles   *)
(* in whole units so small that every step of every zone is some, so that  *)
(* all of it is exact: the code has 15 zones, 2^17 steps, and floating     *)
(* degrees.                                                                *)
(***************************************************************************)
EXTENDS Integers

CONSTANTS
  QUADRANT,              \* zones of latitude between the equator and a pole
  STEPS,                 \* the steps a coordinate is counted in across its zone
  Multiple,              \* a number every number of zones of longitude divides
  Boundaries,            \* the latitude each number of zones of longitude reaches to
  Sites, Starts,         \* where the receiver is; how far off an aircraft starts
  Moves,                 \* how far it may move in a step of the clock
  NearGround,            \* how far off, of a zone in a hundred, it is heard on the ground
  MAX_RANGE,             \* the range of a receiver, of a zone in a hundred
  PAIR_WITHIN, LAPSE,
  MaxNow                 \* bound: the clock

EvenZones == 4 * QUADRANT
OddZones == EvenZones - 1

CprAssumption ==
  /\ {QUADRANT, STEPS, Multiple} \subseteq Nat \ {0}
  /\ Boundaries \in [2 .. OddZones -> Nat]
  /\ \A z \in 1 .. OddZones : Multiple % z = 0

(* A whole turn in units of latitude and of longitude. *)
LatTurn == 4 * EvenZones * OddZones * STEPS
LonTurn == 4 * Multiple * STEPS
Pole == LatTurn \div 4

(* The position is counted in STEPS across zones of a whole turn in the    *)
(* air, and across zones of a quarter of it on the ground.                 *)
Air == 1
Ground == 4

Abs(n) == IF n < 0 THEN -n ELSE n
(* The nearest whole number of times b goes into a, up when between two. *)
Nearest(a, b) == (2 * a + b) \div (2 * b)

(* longitude_zones: the most at the equator, one at the poles. *)
LongitudeZones(lat) ==
  CHOOSE z \in 1 .. OddZones :
    /\ \A y \in 2 .. z : Abs(lat) <= Boundaries[y]
    /\ z < OddZones => Abs(lat) > Boundaries[z + 1]

LatZone(odd, span) == LatTurn \div ((IF odd THEN OddZones ELSE EvenZones) * span)
LonZone(lat, odd, span) ==
  LET zones == LongitudeZones(lat) - (IF odd THEN 1 ELSE 0)
  IN LonTurn \div ((IF zones > 1 THEN zones ELSE 1) * span)

(* The steps an angle counts across its zone. *)
Count(angle, zone) == Nearest((angle % zone) * STEPS, zone)

(* encode: the zones of longitude are those of the latitude as it will be  *)
(* decoded.                                                                *)
Encode(position, odd, span) ==
  LET zone == LatZone(odd, span)
      lat == Count(position.lat, zone)
      decoded == zone * (position.lat \div zone) + (zone * lat) \div STEPS
  IN [odd |-> odd, span |-> span, lat |-> lat % STEPS,
      lon |-> Count(position.lon, LonZone(decoded, odd, span)) % STEPS]

-----------------------------------------------------------------------------
Nowhere == [lat |-> 0, lon |-> LonTurn]

(* A longitude from -180 up to 180 degrees. *)
Signed(lon) == ((lon + LonTurn \div 2) % LonTurn) - LonTurn \div 2
(* A latitude from pole to pole. *)
Southern(lat) == IF lat >= 3 * Pole THEN lat - LatTurn ELSE lat

(* global: where the later of two messages in the air, one of each format, *)
(* was sent; nowhere when the two do not fit together.                     *)
Global(earlier, later) ==
  LET even == IF later.odd THEN earlier ELSE later
      odd == IF later.odd THEN later ELSE earlier
      index == Nearest(OddZones * even.lat - EvenZones * odd.lat, STEPS)
      latOf(cpr, zones) ==
        Southern((LatTurn \div (zones * STEPS)) * ((index % zones) * STEPS + cpr.lat))
      latOfEven == latOf(even, EvenZones)
      latOfOdd == latOf(odd, OddZones)
      zones == LongitudeZones(latOfEven)
      lonIndex == Nearest(even.lon * (zones - 1) - odd.lon * zones, STEPS)
      lat == IF later.odd THEN latOfOdd ELSE latOfEven
      lonZone == LonZone(lat, later.odd, Air)
      lonZones == LonTurn \div lonZone
  IN IF \/ earlier.odd = later.odd
        \/ Abs(latOfEven) > Pole \/ Abs(latOfOdd) > Pole
        \/ zones # LongitudeZones(latOfOdd)
     THEN Nowhere
     ELSE [lat |-> lat,
           lon |-> Signed((lonZone \div STEPS) *
                     ((lonIndex % lonZones) * STEPS + later.lon))]

(* The angle closest to the reference among those a count fits. *)
Closest(reference, zone, steps) ==
  LET step == zone \div STEPS
  IN zone * Nearest(reference - step * steps, zone) + step * steps

(* near: the position closest to the reference among those the message     *)
(* fits.                                                                   *)
Near(cpr, reference) ==
  LET lat == Closest(reference.lat, LatZone(cpr.odd, cpr.span), cpr.lat)
      lon == Closest(reference.lon, LonZone(lat, cpr.odd, cpr.span), cpr.lon)
  IN IF Abs(lat) > Pole THEN Nowhere ELSE [lat |-> lat, lon |-> Signed(lon)]

-----------------------------------------------------------------------------
(* What the constants are taken to be, assumed where they are given values. *)
FixesAssumption ==
  /\ CprAssumption
  /\ {PAIR_WITHIN, LAPSE} \subseteq Nat \ {0}
  /\ {MAX_RANGE, NearGround, MaxNow} \subseteq Nat
  /\ \A p \in Sites \cup Starts \cup Moves : {p.lat, p.lon} \subseteq Int

None == [at |-> -1]

VARIABLES
  now, site,
  place,     \* where the aircraft is
  pairing,   \* the last position heard of the even and of the odd format, and when
  fix,       \* where it is taken to be, and when that was heard
  truth      \* history: where it was when the fix was heard

vars == <<now, site, place, pairing, fix, truth>>

-----------------------------------------------------------------------------
From(p, by) == [lat |-> p.lat + by.lat, lon |-> Signed(p.lon + by.lon)]

(* Whether two places are within a share of a zone of one another. *)
Within(p, q, share) ==
  /\ 100 * Abs(p.lat - q.lat) <= share * LatZone(FALSE, Air)
  /\ 100 * Abs(Signed(p.lon - q.lon)) <= share * LonZone(q.lat, FALSE, Air)

Init ==
  /\ now = 0
  /\ site \in Sites
  /\ \E by \in Starts : Abs(site.lat + by.lat) <= Pole /\ place = From(site, by)
  /\ pairing = [odd \in BOOLEAN |-> None]
  /\ fix = None
  /\ truth = place

(* Said.at: the fix, until it lapses. *)
Fixed == fix # None /\ now - fix.at < LAPSE

(* Mutated: a position outlives its pair. *)
PairLater(odd) == pairing[~odd] # None /\ now - pairing[~odd].at <= LAPSE
(* Whether the position of the other format is recent. *)
Paired(odd) == pairing[~odd] # None /\ now - pairing[~odd].at <= PAIR_WITHIN

(* airborne: where a position in the air puts the aircraft. *)
Airborne(cpr) ==
  LET paired == IF Paired(cpr.odd) THEN Global(pairing[~cpr.odd].cpr, cpr) ELSE Nowhere
  IN IF paired # Nowhere THEN paired
     ELSE IF Fixed THEN Near(cpr, fix.position) ELSE Nowhere

Whereabouts == IF Fixed THEN fix.position ELSE site

(* place: a position within what the receiver can hear. *)
Place(position) ==
  IF position # Nowhere /\ Within(position, site, MAX_RANGE)
  THEN fix' = [position |-> position, at |-> now] /\ truth' = place
  ELSE UNCHANGED <<fix, truth>>

(* A position in the air is heard. *)
HearAirborne(odd) ==
  LET cpr == Encode(place, odd, Air)
  IN /\ Place(Airborne(cpr))
     /\ pairing' = [pairing EXCEPT ![odd] = [cpr |-> cpr, at |-> now]]
     /\ UNCHANGED <<now, site, place>>

(* A position on the ground is heard, which it is from nearby only. *)
HearSurface(odd) ==
  /\ Within(place, site, NearGround)
  /\ Place(Near(Encode(place, odd, Ground), Whereabouts))
  /\ UNCHANGED <<now, site, place, pairing>>

(* The aircraft flies on, short of the pole. *)
Fly ==
  /\ now < MaxNow
  /\ \E by \in Moves :
       /\ Abs(place.lat + by.lat) <= Pole
       /\ place' = From(place, by)
  /\ now' = now + 1
  /\ UNCHANGED <<site, pairing, fix, truth>>

Next == Fly \/ \E odd \in BOOLEAN : HearAirborne(odd) \/ HearSurface(odd)

Spec == Init /\ [][Next]_vars

-----------------------------------------------------------------------------
TypeOK ==
  /\ now \in 0 .. MaxNow
  /\ site \in Sites
  /\ \A odd \in BOOLEAN : pairing[odd].at \in -1 .. now
  /\ fix.at \in -1 .. now
  /\ \A p \in {place, truth} \cup (IF fix = None THEN {} ELSE {fix.position}) :
       /\ p.lat \in -Pole .. Pole
       /\ p.lon \in -(LonTurn \div 2) .. (LonTurn \div 2) - 1

(* The aircraft is taken to be where it was when it sent the position, to  *)
(* within the rounding of a step: whichever messages were lost, between    *)
(* zones, across the boundaries where the zones of longitude change in     *)
(* number, the equator and the antimeridian, in the air and on the ground. *)
FixIsTrue ==
  fix # None =>
    /\ Abs(fix.position.lat - truth.lat) * STEPS <= LatZone(FALSE, Air)
    /\ Abs(Signed(fix.position.lon - truth.lon)) * STEPS <= LonZone(truth.lat, TRUE, Air)

(* Two positions of one place, one of each format, place the aircraft      *)
(* there, wherever within the range of the receiver that is, unless the    *)
(* zones of longitude change in number so near that each of the two        *)
(* rounds to another side.                                                 *)
PairPlaces ==
  \A odd \in BOOLEAN :
    LET mine == Encode(place, odd, Air)
        other == pairing[~odd]
        step == LatZone(FALSE, Air) \div STEPS
    IN /\ pairing[odd] # None /\ pairing[odd].at = now /\ pairing[odd].cpr = mine
       /\ other # None /\ now - other.at <= PAIR_WITHIN
       /\ other.cpr = Encode(place, ~odd, Air)
       /\ Within(place, site, MAX_RANGE - 10)
       /\ LongitudeZones(place.lat - 2 * step) = LongitudeZones(place.lat + 2 * step)
       => fix.at = now
=============================================================================
