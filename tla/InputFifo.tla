----------------------------- MODULE InputFifo -----------------------------
(***************************************************************************)
(* What an input queue between an interrupt handler and the main loop      *)
(* promises: items come out in the order they went in, none is lost or     *)
(* repeated, except that an item offered while Cap items wait is dropped   *)
(* and counted.  Used for the keyboard byte and event queues.              *)
(***************************************************************************)
EXTENDS Naturals, Sequences

CONSTANTS
  Cap,     \* items the queue can hold
  Items,   \* what is queued
  NoItem   \* "nothing taken yet"

VARIABLES
  q,        \* the waiting items, oldest first
  dropped,  \* items refused because the queue was full
  out       \* the item the consumer took last

fvars == <<q, dropped, out>>

Init ==
  /\ q = <<>>
  /\ dropped = 0
  /\ out = NoItem

(* The producer offers x: queued, or dropped when Cap items wait. *)
Offer(x) ==
  /\ IF Len(q) < Cap
     THEN q' = Append(q, x) /\ UNCHANGED dropped
     ELSE dropped' = dropped + 1 /\ UNCHANGED q
  /\ UNCHANGED out

(* The consumer takes the oldest item. *)
Take ==
  /\ q # <<>>
  /\ out' = Head(q)
  /\ q' = Tail(q)
  /\ UNCHANGED dropped

Next == (\E x \in Items : Offer(x)) \/ Take

Spec == Init /\ [][Next]_fvars
=============================================================================
