------------------------------ MODULE Channel ------------------------------
(***************************************************************************)
(* What crates/kcoro/src/ring.rs promises its two owners: a bounded queue. *)
(* Values come out once, in the order they went in; neither owner sees     *)
(* more of the other than the queue and whether it is still there.         *)
(***************************************************************************)
EXTENDS Naturals, Sequences

CONSTANTS Value, Capacity

VARIABLES
  queue,         \* the values on their way
  received,      \* the values received so far
  senderOpen,    \* is there a sender still?
  receiverOpen,  \* is there a receiver still?
  ended          \* has the receiver been told that there is no sender?

vars == <<queue, received, senderOpen, receiverOpen, ended>>

Init ==
  /\ queue = <<>>
  /\ received = <<>>
  /\ senderOpen = TRUE
  /\ receiverOpen = TRUE
  /\ ended = FALSE

Put ==
  /\ senderOpen
  /\ Len(queue) < Capacity
  /\ \E v \in Value : queue' = Append(queue, v)
  /\ UNCHANGED <<received, senderOpen, receiverOpen, ended>>

Get ==
  /\ receiverOpen
  /\ queue # <<>>
  /\ received' = Append(received, Head(queue))
  /\ queue' = Tail(queue)
  /\ UNCHANGED <<senderOpen, receiverOpen, ended>>

CloseSender ==
  /\ senderOpen' = FALSE
  /\ UNCHANGED <<queue, received, receiverOpen, ended>>

CloseReceiver ==
  /\ receiverOpen' = FALSE
  /\ UNCHANGED <<queue, received, senderOpen, ended>>

\* Values may still be queued: the receiver may have looked for one before the
\* last ones were sent.  Ring!EndHidesNothing says which values cannot be.
End ==
  /\ ~senderOpen
  /\ receiverOpen
  /\ ended' = TRUE
  /\ UNCHANGED <<queue, received, senderOpen, receiverOpen>>

Next == Put \/ Get \/ CloseSender \/ CloseReceiver \/ End

Spec == Init /\ [][Next]_vars
=============================================================================
