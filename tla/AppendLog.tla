----------------------------- MODULE AppendLog ------------------------------
(***************************************************************************)
(* What the audit log promises whoever reads it: a numbered sequence of    *)
(* events to which one is added at the end and from which the oldest are   *)
(* dropped, so that a number that can still be read says what it always    *)
(* said and the numbers in between are all there.                          *)
(***************************************************************************)
EXTENDS Naturals

CONSTANTS Events

VARIABLES entries   \* from the numbers that are kept to the events

Numbers == DOMAIN entries

(* One more than the newest; the log begins at 1. *)
NextNumber ==
  IF Numbers = {} THEN 1 ELSE 1 + CHOOSE n \in Numbers : \A k \in Numbers : k <= n

LogInit == entries = [n \in {} |-> n]

Append(event) ==
  entries' = [n \in Numbers \cup {NextNumber} |-> IF n = NextNumber THEN event ELSE entries[n]]

DropOldest(first) ==
  /\ first \in Numbers
  /\ entries' = [k \in {n \in Numbers : n >= first} |-> entries[k]]

LogNext ==
  \/ \E event \in Events : Append(event)
  \/ \E first \in Numbers : DropOldest(first)

LogSpec == LogInit /\ [][LogNext]_entries

=============================================================================
