---------------------------- MODULE MessageQueue ----------------------------
(***************************************************************************)
(* What native2amiga promises its senders and exter_task: a queue of whole *)
(* messages from many senders to one receiver.  Each message is taken      *)
(* once, and in the order in which all of them were sent.                  *)
(***************************************************************************)
EXTENDS Integers, Sequences

CONSTANT Senders

VARIABLES
  queue,   \* the messages sent and not yet taken, oldest first
  sent,    \* messages sent so far, by sender; the n-th has number n
  taken    \* the messages taken, oldest first

vars == <<queue, sent, taken>>

Init == queue = << >> /\ sent = [s \in Senders |-> 0] /\ taken = << >>

Send(s) ==
  /\ sent' = [sent EXCEPT ![s] = @ + 1]
  /\ queue' = Append(queue, [from |-> s, seq |-> sent[s] + 1])
  /\ UNCHANGED taken

Take ==
  /\ queue # << >>
  /\ taken' = Append(taken, Head(queue))
  /\ queue' = Tail(queue)
  /\ UNCHANGED sent

Next == (\E s \in Senders : Send(s)) \/ Take

Spec == Init /\ [][Next]_vars
=============================================================================
