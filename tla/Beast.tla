------------------------------- MODULE Beast --------------------------------
(***************************************************************************)
(* The Beast stream a source sends its frames in, and the reader that gets *)
(* them back however the stream is cut up: as many bytes at a time as come *)
(* in, over one connection after another, each with a reader of its own.   *)
(*                                                                         *)
(* A frame has the bytes its type says, an escape among them sent twice.   *)
(* Some frames carry no Mode S message, and a source may break one off and *)
(* start the next.                                                         *)
(***************************************************************************)
EXTENDS Integers, Sequences

CONSTANTS
  ESCAPE, Other,         \* the escape byte, and bytes that are nothing else
  LengthOf,              \* the length of the body of a frame, by type
  ModeS,                 \* the types that carry a Mode S message
  MaxFrames, MaxConnections  \* bounds

Types == DOMAIN LengthOf
Bytes == {ESCAPE} \cup Other \cup Types
(* What the constants are taken to be, assumed where they are given values. *)
BeastAssumption ==
  /\ ESCAPE \notin Other \cup Types /\ ModeS \subseteq Types
  /\ "none" \notin ModeS
  /\ LengthOf \in [Types -> Nat \ {0}]
  /\ MaxFrames \in Nat /\ MaxConnections \in Nat

Frames == UNION {[type : {t}, body : [1 .. LengthOf[t] -> Bytes]] : t \in Types}

VARIABLES
  wire,        \* bytes of the connection sent and not read
  pending,     \* Reader.pending
  frames,      \* what the reader returned, on this connection
  sent,        \* history: the whole frames written, and where each ends
  written, taken,  \* history: how many bytes were written and read
  connections

vars == <<wire, pending, frames, sent, written, taken, connections>>

-----------------------------------------------------------------------------
(* A byte of a body as it is sent. *)
Escaped(b) == IF b = ESCAPE THEN <<b, b>> ELSE <<b>>

(* The first n bytes of a body, escaped. *)
Body(body, n) ==
  LET join[i \in 0 .. n] == IF i = 0 THEN <<>> ELSE join[i - 1] \o Escaped(body[i])
  IN join[n]

(* Frame.write. *)
Write(f) == <<ESCAPE, f.type>> \o Body(f.body, LengthOf[f.type])
(* A frame broken off after n bytes of its body. *)
Broken(f, n) == <<ESCAPE, f.type>> \o Body(f.body, n)

Skip(n) == [kind |-> "Skip", len |-> n]
Incomplete == [kind |-> "Incomplete", len |-> 0]
Frame(type, body, n) == [kind |-> "Frame", len |-> n, type |-> type, body |-> body]

(* Mutated: half of a doubled escape is taken as it comes. *)
UnfinishedEnd(bytes, at) == at > Len(bytes)
(* Whether the bytes end where a byte of a body is wanted at the place. *)
Unfinished(bytes, at) ==
  at > Len(bytes) \/ (bytes[at] = ESCAPE /\ at = Len(bytes))

(* Another frame starts before this one ends: it is skipped. *)
BreaksOff(was) == [was EXCEPT !.kind = "Skip"]

(* A byte more of a body is read, or the body comes to its end before. *)
ReadByte(bytes, was) ==
  LET at == was.at IN
  IF was.kind # "Frame" THEN was
  ELSE IF Unfinished(bytes, at) THEN [was EXCEPT !.kind = "Incomplete"]
  ELSE IF bytes[at] # ESCAPE
       THEN [was EXCEPT !.at = at + 1, !.body = Append(was.body, bytes[at])]
  ELSE IF at < Len(bytes) /\ bytes[at + 1] = ESCAPE
       THEN [was EXCEPT !.at = at + 2, !.body = Append(was.body, ESCAPE)]
  ELSE BreaksOff(was)

(* The body of a frame of the type, from the third byte on: how far it was *)
(* read, and whether it came to an end, or to another frame's start.       *)
ReadBody(bytes, type) ==
  LET step[i \in 0 .. LengthOf[type]] ==
        IF i = 0 THEN [kind |-> "Frame", at |-> 3, body |-> <<>>]
        ELSE ReadByte(bytes, step[i - 1])
  IN step[LengthOf[type]]

(* parse: what the bytes start with. *)
Parse(bytes) ==
  LET escapes == {i \in 1 .. Len(bytes) : bytes[i] = ESCAPE} IN
  IF bytes = <<>> THEN Incomplete
  ELSE IF bytes[1] # ESCAPE
    THEN Skip(IF escapes = {} THEN Len(bytes)
              ELSE (CHOOSE i \in escapes : \A j \in escapes : i <= j) - 1)
  ELSE IF Len(bytes) = 1 THEN Incomplete
  ELSE IF bytes[2] \notin Types THEN Skip(1)
  ELSE LET read == ReadBody(bytes, bytes[2]) IN
    CASE read.kind = "Incomplete" -> Incomplete
      [] read.kind = "Skip" -> Skip(read.at - 1)
      [] OTHER -> Frame(bytes[2], read.body, read.at - 1)

From(bytes, n) == SubSeq(bytes, n + 1, Len(bytes))

(* What was read so far, and one thing more, unless the bytes are over.    *)
ReadOne(bytes, was) ==
  LET parsed == Parse(From(bytes, was.read)) IN
  IF ~was.more \/ parsed.kind = "Incomplete" THEN [was EXCEPT !.more = FALSE]
  ELSE [was EXCEPT !.read = was.read + parsed.len,
                   !.frames = IF parsed.kind = "Frame" /\ parsed.type \in ModeS
                              THEN Append(was.frames, [type |-> parsed.type,
                                                       body |-> parsed.body])
                              ELSE was.frames]

(* Reader.read: parses until the bytes are incomplete, and keeps the rest. *)
ReadAll(bytes) ==
  LET step[i \in 0 .. Len(bytes) + 1] ==
        IF i = 0 THEN [frames |-> <<>>, read |-> 0, more |-> TRUE]
        ELSE ReadOne(bytes, step[i - 1])
  IN step[Len(bytes) + 1]

-----------------------------------------------------------------------------
Init ==
  /\ wire = <<>> /\ pending = <<>> /\ frames = <<>> /\ sent = <<>>
  /\ written = 0 /\ taken = 0 /\ connections = 1

(* The source writes a frame. *)
Send(f) ==
  /\ Len(sent) < MaxFrames
  /\ wire' = wire \o Write(f) /\ written' = written + Len(Write(f))
  /\ sent' = Append(sent, [frame |-> f, end |-> written + Len(Write(f))])
  /\ UNCHANGED <<pending, frames, taken, connections>>

(* The source breaks a frame off. *)
SendBroken(f, n) ==
  /\ Len(sent) < MaxFrames /\ n < LengthOf[f.type]
  /\ wire' = wire \o Broken(f, n) /\ written' = written + Len(Broken(f, n))
  /\ sent' = Append(sent, [frame |-> [type |-> "none"], end |-> written'])
  /\ UNCHANGED <<pending, frames, taken, connections>>

(* The bytes that came are read, up to 4096 of them. *)
Read(n) ==
  /\ n <= Len(wire)
  /\ LET bytes == pending \o SubSeq(wire, 1, n) read == ReadAll(bytes) IN
     /\ frames' = frames \o read.frames
     /\ pending' = From(bytes, read.read)
  /\ wire' = From(wire, n) /\ taken' = taken + n
  /\ UNCHANGED <<sent, written, connections>>

(* Mutated: the bytes left over are read on with those of the next source. *)
LeftOver == pending
(* A connection starts with nothing pending. *)
Default == <<>>

(* The source is lost, whatever it had sent, and another connection made. *)
Reconnect ==
  /\ connections < MaxConnections /\ connections' = connections + 1
  /\ wire' = <<>> /\ pending' = Default /\ frames' = <<>> /\ sent' = <<>>
  /\ written' = 0 /\ taken' = 0

Next ==
  \/ \E f \in Frames : Send(f) \/ \E n \in 0 .. Len(f.body) - 1 : SendBroken(f, n)
  \/ \E n \in 1 .. Len(wire) : Read(n)
  \/ Reconnect

Spec == Init /\ [][Next]_vars

-----------------------------------------------------------------------------
(* A frame more of what was sent: returned, of Mode S and among the bytes  *)
(* up to n.                                                                *)
Longer(whole, item, n) ==
  IF item.frame.type \in ModeS /\ item.end <= n THEN Append(whole, item.frame) ELSE whole

(* The Mode S frames of what was sent, among the bytes up to n. *)
Whole(s, n) ==
  LET whole[i \in 0 .. Len(s)] == IF i = 0 THEN <<>> ELSE Longer(whole[i - 1], s[i], n)
  IN whole[Len(s)]

(* However the stream is cut up, and whatever frames are broken off in it, *)
(* the reader has returned exactly the whole Mode S frames among the bytes *)
(* read: none late, none made of two, none of another connection.          *)
ExactlyWhole == frames = Whole(sent, taken)

(* What is pending is the start of one frame, so it stays short however    *)
(* long a source sends.                                                    *)
PendingShort ==
  pending # <<>> =>
    /\ pending[1] = ESCAPE
    /\ Len(pending) > 1 =>
         pending[2] \in Types /\ Len(pending) <= 1 + 2 * LengthOf[pending[2]]
=============================================================================
