---------------------------- MODULE BoundedFifo ----------------------------
(***************************************************************************)
(* What the message bus promises its users: one first-in first-out queue   *)
(* of bounded capacity, and a shutdown that keeps a prefix of what is      *)
(* queued, never a subset with gaps.  MessageBus.tla is shown to implement *)
(* this module.                                                            *)
(***************************************************************************)
EXTENDS Integers, Sequences

CONSTANTS
  Msg,       \* everything that can be put into the queue
  Capacity   \* how many messages may be queued at once

VARIABLES
  queue,  \* messages accepted and not yet received, oldest first
  got,    \* messages received so far, oldest first
  phase   \* "open" until the shutdown, "draining" after it

vars == <<queue, got, phase>>

Init ==
  /\ queue = <<>>
  /\ got = <<>>
  /\ phase = "open"

Put ==
  /\ phase = "open"
  /\ Len(queue) < Capacity
  /\ \E m \in Msg : queue' = Append(queue, m)
  /\ UNCHANGED <<got, phase>>

Get ==
  /\ queue # <<>>
  /\ got' = Append(got, Head(queue))
  /\ queue' = Tail(queue)
  /\ UNCHANGED phase

\* The shutdown keeps the k oldest messages for the receiver to drain.
Shut ==
  /\ phase = "open"
  /\ phase' = "draining"
  /\ \E k \in 0..Len(queue) : queue' = SubSeq(queue, 1, k)
  /\ UNCHANGED got

Next == Put \/ Get \/ Shut

Spec == Init /\ [][Next]_vars
=============================================================================
