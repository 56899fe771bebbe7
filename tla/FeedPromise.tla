----------------------------- MODULE FeedPromise -----------------------------
(***************************************************************************)
(* What the feed promises a page: it is handed only snapshots that were    *)
(* published, each later than all it has been handed before.  The page may *)
(* be handed several at once, a backfill, or skip some, but never goes     *)
(* back in time and never sees a snapshot twice.                           *)
(***************************************************************************)
EXTENDS Integers

CONSTANTS Clients, Times

VARIABLES published, taken

Init == published = {} /\ taken = [c \in Clients |-> {}]

Publish(t) == published' = published \cup {t} /\ UNCHANGED taken

Later(S, T) == \A x \in S, y \in T : y < x

Hand(c, S) ==
  /\ S \subseteq published /\ Later(S, taken[c])
  /\ taken' = [taken EXCEPT ![c] = @ \cup S]
  /\ UNCHANGED published

Next == \/ \E t \in Times : Publish(t)
        \/ \E c \in Clients, S \in SUBSET published : Hand(c, S)

Spec == Init /\ [][Next]_<<published, taken>>
=============================================================================
