----------------------------- MODULE BoundedFifo -----------------------------
(***************************************************************************)
(* What a pipe between two threads promises: a queue of at most Capacity   *)
(* items, put at one end by one thread, taken at the other by one thread,  *)
(* in order, none lost and none twice.                                     *)
(***************************************************************************)
EXTENDS Integers, Sequences

CONSTANT Capacity  \* a natural number

VARIABLES
  q,     \* the items sent and not yet received, oldest first
  sent,  \* the items put so far; the n-th item put is n
  last   \* the last item taken

vars == <<q, sent, last>>

Init == q = << >> /\ sent = 0 /\ last = 0

Put ==
  /\ Len(q) < Capacity
  /\ q' = Append(q, sent + 1)
  /\ sent' = sent + 1
  /\ UNCHANGED last

Get ==
  /\ q # << >>
  /\ last' = Head(q)
  /\ q' = Tail(q)
  /\ UNCHANGED sent

Next == Put \/ Get

Spec == Init /\ [][Next]_vars
=============================================================================
