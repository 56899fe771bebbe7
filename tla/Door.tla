-------------------------------- MODULE Door --------------------------------
(***************************************************************************)
(* The local authority the server vouches for itself with: made at the     *)
(* first start, kept in two files, and read back at every later one, so    *)
(* that a device trusts it once.  The server may stop at any step, between *)
(* the bytes of a file too, and is started again, by a clock that may have *)
(* been set: a machine without one of its own starts long ago.             *)
(*                                                                         *)
(* And the https door of a server with such an authority: a certificate    *)
(* for each name or address it is reached by, issued when first asked for  *)
(* and again well before it ends, and forgotten when the server stops.     *)
(***************************************************************************)
EXTENDS Integers, Sequences, FiniteSets

CONSTANTS
  None,                  \* no file, and no authority
  Part,                  \* a file that was not written to its end
  Times,                 \* what the wall clock may say
  CLOCK_SLACK, AUTHORITY_LASTS,
  MaxMade, MaxStops      \* bounds: authorities made, stops

ASSUME AuthorityBounds == MaxMade \in Nat /\ MaxStops \in Nat
ASSUME ClockAssumption == Times \subseteq Int /\ {CLOCK_SLACK, AUTHORITY_LASTS} \subseteq Nat
ASSUME FilesAssumption == None \notin Nat /\ Part \notin Nat /\ None # Part

Authorities == 1 .. MaxMade

VARIABLES
  crt, key,  \* root.crt and root.key: what authority each is of
  made,      \* how many authorities were made
  held,      \* the authority the server goes by
  phase,     \* where open is: "read", "key", "crt", "opened", or "refused"
  clock,     \* the wall clock
  begun,     \* what it said as each authority was made
  stops,
  trusted    \* history: the authorities devices were given to trust

vars == <<crt, key, made, held, phase, clock, begun, stops, trusted>>

-----------------------------------------------------------------------------
Init ==
  /\ crt = None /\ key = None
  /\ made = 0 /\ held = None
  /\ phase = "read"
  /\ clock \in Times /\ begun = <<>>
  /\ stops = 0
  /\ trusted = {}

(* valid_for and validity: from a little before an authority was made, for *)
(* its ten years, by the clock as it stands.                               *)
Valid(a) ==
  /\ begun[a] - CLOCK_SLACK <= clock
  /\ clock <= begun[a] + AUTHORITY_LASTS
(* from_pem: the files kept make an authority, whole, each other's, and    *)
(* valid now.                                                              *)
Usable == crt \in Nat /\ key = crt /\ Valid(crt)

(* A new authority, to be kept. *)
Create ==
  /\ phase = "read"
  /\ made < MaxMade
  /\ made' = made + 1
  /\ begun' = Append(begun, clock)
  /\ held' = made + 1
  /\ key' = Part
  /\ phase' = "key"
  /\ UNCHANGED <<crt, clock, stops, trusted>>

(* open, as far as it only reads: the authority kept, an error when it     *)
(* cannot be used, or a new one when a file is missing.                    *)
Open ==
  IF crt = None \/ key = None
  THEN Create
  ELSE /\ phase = "read"
       /\ IF Usable THEN held' = crt /\ phase' = "opened"
                    ELSE held' = None /\ phase' = "refused"
       /\ UNCHANGED <<crt, key, made, clock, begun, stops, trusted>>

(* Mutated: the key is kept alone. *)
KeepKeyAlone ==
  /\ phase = "key"
  /\ key' = held
  /\ phase' = "opened"
  /\ UNCHANGED <<crt, made, held, clock, begun, stops, trusted>>
(* keep: the key is written to its end, and the certificate begun. *)
KeepKey ==
  /\ phase = "key"
  /\ key' = held
  /\ crt' = Part
  /\ phase' = "crt"
  /\ UNCHANGED <<made, held, clock, begun, stops, trusted>>

(* Mutated: the authority is used before it is kept. *)
KeepLater ==
  \/ /\ phase = "crt"
     /\ phase' = "opened"
     /\ UNCHANGED <<crt, key, made, held, clock, begun, stops, trusted>>
  \/ /\ phase = "opened" /\ crt = Part
     /\ crt' = held
     /\ UNCHANGED <<key, made, held, phase, clock, begun, stops, trusted>>
(* The certificate is written to its end, and the new authority used. *)
KeepCrt ==
  /\ phase = "crt"
  /\ crt' = held
  /\ phase' = "opened"
  /\ UNCHANGED <<key, made, held, clock, begun, stops, trusted>>

(* A device is given the authority to trust. *)
Trust ==
  /\ phase = "opened"
  /\ trusted' = trusted \cup {held}
  /\ UNCHANGED <<crt, key, made, held, phase, clock, begun, stops>>

(* The server stops, on its own when the authority cannot be opened or     *)
(* kept, and is started again.                                             *)
Stop ==
  /\ stops < MaxStops
  /\ stops' = stops + 1
  /\ held' = None
  /\ phase' = "read"
  /\ UNCHANGED <<crt, key, made, clock, begun, trusted>>

(* The clock goes on, or is set. *)
SetClock ==
  /\ clock' \in Times \ {clock}
  /\ UNCHANGED <<crt, key, made, held, phase, begun, stops, trusted>>

Next == Open \/ KeepKey \/ KeepCrt \/ Trust \/ Stop \/ SetClock

Spec == Init /\ [][Next]_vars

-----------------------------------------------------------------------------
TypeOK ==
  /\ {crt, key} \subseteq Authorities \cup {None, Part}
  /\ made \in 0 .. MaxMade
  /\ held \in Authorities \cup {None}
  /\ phase \in {"read", "key", "crt", "opened", "refused"}
  /\ clock \in Times /\ begun \in Seq(Times) /\ Len(begun) = made
  /\ stops \in 0 .. MaxStops
  /\ trusted \subseteq Authorities

(* A device trusts the server once for good: wherever the server stopped,  *)
(* the files never mix one authority's certificate with another's key, no  *)
(* two authorities are ever given to devices, and while it answers it goes *)
(* by the one that they trust.                                             *)
TrustedOnce ==
  /\ crt \in Nat => key = crt
  /\ Cardinality(trusted) <= 1
  /\ phase = "opened" /\ trusted # {} => held \in trusted

(* What is kept is refused at a start only while the clock is outside the  *)
(* validity of the authority, before it was made or after its end, or when *)
(* an earlier start stopped between the first and the last byte of its     *)
(* certificate, which no device was given: never for halves of two, and a  *)
(* clock put right has it used again (lib.rs:109-132).                     *)
RefusedOnlyWhen ==
  [][phase = "read" /\ phase' = "refused" =>
       \/ crt \in Nat /\ ~Valid(crt)
       \/ crt = Part /\ trusted = {}]_vars

-----------------------------------------------------------------------------
(* The door. *)
CONSTANTS
  Subjects,              \* the names and addresses
  Unnamed,               \* what a browser names that opened an address
  REISSUE_AFTER, CERTIFICATE_LASTS, MOST_SUBJECTS

ASSUME DoorAssumption ==
  /\ {REISSUE_AFTER, CERTIFICATE_LASTS, MOST_SUBJECTS} \subseteq Nat \ {0}
  /\ REISSUE_AFTER < CERTIFICATE_LASTS
  /\ Unnamed \notin Subjects /\ None \notin Subjects

Certificate == [of : Subjects, by : Authorities, age : 0 .. CERTIFICATE_LASTS]

VARIABLES
  only,      \* Certificates.only: the one subject answered to, or none
  issued,    \* Certificates.issued: the certificate of each subject, and its age
  shown      \* history: what the last connection opened and was shown, or none

doorVars == <<only, issued, shown>>

-----------------------------------------------------------------------------
DoorInit ==
  /\ Init
  /\ only \in Subjects \cup {None}
  /\ issued = <<>>
  /\ shown = None

(* unnamed: what the door is kept to, or the address the connection        *)
(* reached.                                                                *)
SubjectOf(hello, reached) ==
  IF hello # Unnamed THEN hello ELSE IF only # None THEN only ELSE reached

(* Mutated: a certificate is kept for as long as it lasts. *)
KeptWhole(subject) ==
  subject \in DOMAIN issued /\ issued[subject].age <= CERTIFICATE_LASTS
(* Whether the certificate issued for a subject still does. *)
Kept(subject) == subject \in DOMAIN issued /\ issued[subject].age < REISSUE_AFTER

(* Whether there are too many to keep another. *)
Full == Cardinality(DOMAIN issued) >= MOST_SUBJECTS

(* Those kept as another is to be issued, and with it. *)
Room == IF Full THEN <<>> ELSE issued
Issue(subject) ==
  [s \in DOMAIN Room \cup {subject} |->
     IF s = subject THEN [of |-> s, by |-> held, age |-> 0] ELSE Room[s]]

(* config_for, for a browser that says hello, naming the host it opened or *)
(* nothing: refused when that is not what the door is kept to, and when no *)
(* certificate can be issued for it, by when there is room for one.        *)
Connect(hello, reached) ==
  LET subject == SubjectOf(hello, reached)
      answers == only \in {None, subject}
      shows(certificates) ==
        shown' = [opened |-> subject, certificate |-> certificates[subject]]
  IN /\ phase = "opened"
     /\ \/ ~answers /\ UNCHANGED issued /\ shown' = None
        \/ answers /\ Kept(subject) /\ UNCHANGED issued /\ shows(issued)
        \/ /\ answers /\ ~Kept(subject)
           /\ issued' = Issue(subject) /\ shows(Issue(subject))
        \/ answers /\ ~Kept(subject) /\ issued' = Room /\ shown' = None
     /\ UNCHANGED <<vars, only>>

(* Time passes, and the certificates grow old. *)
Pass ==
  /\ issued' = [s \in DOMAIN issued |->
       [issued[s] EXCEPT !.age = IF @ < CERTIFICATE_LASTS THEN @ + 1 ELSE @]]
  /\ shown' = None
  /\ UNCHANGED <<vars, only>>

(* What the authority does, and a stop forgets the certificates. *)
Serve ==
  /\ Next
  /\ issued' = IF phase' = "read" THEN <<>> ELSE issued
  /\ shown' = None
  /\ UNCHANGED only

DoorNext ==
  \/ Serve
  \/ Pass
  \/ \E hello \in Subjects \cup {Unnamed}, reached \in Subjects : Connect(hello, reached)

DoorSpec == DoorInit /\ [][DoorNext]_<<vars, doorVars>>

-----------------------------------------------------------------------------
DoorTypeOK ==
  /\ TypeOK
  /\ only \in Subjects \cup {None}
  /\ DOMAIN issued \subseteq Subjects
  /\ \A s \in DOMAIN issued : issued[s] \in Certificate

(* A connection is shown a certificate for what its browser opened, signed *)
(* by the authority every device trusts whichever start of the server that *)
(* is, with as much left as a certificate has when it is to be issued      *)
(* anew; nothing else is shown by a door kept to one subject, and of no    *)
(* more than MOST_SUBJECTS is a certificate kept.                          *)
ShownGood ==
  /\ Cardinality(DOMAIN issued) <= MOST_SUBJECTS
  /\ shown # None =>
       /\ shown.certificate.of = shown.opened
       /\ trusted \subseteq {shown.certificate.by}
       /\ shown.certificate.age < REISSUE_AFTER
       /\ only \in {None, shown.opened}
=============================================================================
