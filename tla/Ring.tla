-------------------------------- MODULE Ring --------------------------------
(***************************************************************************)
(* The ring of crates/kcoro/src/ring.rs: one sender and one receiver over  *)
(* an array of cells, the counters head and tail, a flag for each end that *)
(* is still there, and a waker for each end behind a mutex.                *)
(*                                                                         *)
(* A step is one atomic load or store, one access to a cell or one look at *)
(* a waker slot.  Head and tail count without wrapping: a behaviour sends  *)
(* MaxSent values, the code's counters wrap after 2^64.                    *)
(***************************************************************************)
EXTENDS Naturals, Sequences

CONSTANTS
  Value,      \* what is sent
  Capacity,   \* the number of cells
  MaxSent,    \* bound: values sent in a behaviour
  None        \* no value: a cell that was never written

ASSUME CapacityAssumption == Capacity \in Nat \ {0}
ASSUME NoneAssumption == None \notin Value

VARIABLES
  cells, head, tail,
  senderOpen, receiverOpen,
  senderWaker, receiverWaker,  \* is a waker registered?
  senderLock, receiverLock,    \* is the waker's mutex held by a poll?
  senderWoken, receiverWoken,  \* has the waker been invoked since the poll?
  sender, receiver,            \* where each thread is, and its value
  received,                    \* the values received (a record of the past,
  before,                      \* as are the tail when the receiver's poll
  ended                        \* began, and whether it was told of the end)

counters == <<cells, head, tail>>
open == <<senderOpen, receiverOpen>>
wakers == <<senderWaker, receiverWaker, senderLock, receiverLock, senderWoken, receiverWoken>>
past == <<received, before, ended>>
vars == <<counters, open, wakers, sender, receiver, past>>

Index(n) == n % Capacity

SenderPlaces == {"idle", "checking", "loading", "writing", "publishing", "waking",
                 "locking", "recheckOpen", "recheckSpace", "parked", "dropping", "gone"}
ReceiverPlaces == {"idle", "loading", "asking", "reading", "freeing", "waking",
                   "locking", "recheckValue", "recheckOpen", "parked", "dropping", "gone"}

At(places) == [at : places, value : Value \cup {None}, waits : BOOLEAN]

TypeOK ==
  /\ cells \in [0..Capacity - 1 -> Value \cup {None}]
  /\ head \in Nat /\ tail \in head..head + Capacity
  /\ senderOpen \in BOOLEAN /\ receiverOpen \in BOOLEAN
  /\ senderWaker \in BOOLEAN /\ receiverWaker \in BOOLEAN
  /\ senderLock \in BOOLEAN /\ receiverLock \in BOOLEAN
  /\ senderWoken \in BOOLEAN /\ receiverWoken \in BOOLEAN
  /\ sender \in At(SenderPlaces) /\ receiver \in At(ReceiverPlaces)
  /\ received \in Seq(Value)
  /\ before \in Nat
  /\ ended \in BOOLEAN

Init ==
  /\ cells = [i \in 0..Capacity - 1 |-> None]
  /\ head = 0 /\ tail = 0
  /\ senderOpen = TRUE /\ receiverOpen = TRUE
  /\ senderWaker = FALSE /\ receiverWaker = FALSE
  /\ senderLock = FALSE /\ receiverLock = FALSE
  /\ senderWoken = FALSE /\ receiverWoken = FALSE
  /\ sender = [at |-> "idle", value |-> None, waits |-> FALSE]
  /\ receiver = [at |-> "idle", value |-> None, waits |-> FALSE]
  /\ received = <<>>
  /\ before = 0
  /\ ended = FALSE

SenderAt(place) == sender' = [sender EXCEPT !.at = place]
ReceiverAt(place) == receiver' = [receiver EXCEPT !.at = place]
SenderBack == sender' = [at |-> "idle", value |-> None, waits |-> FALSE]
ReceiverBack == receiver' = [at |-> "idle", value |-> None, waits |-> FALSE]

(* take_waker(mutex), then wake.                                           *)
WakeReceiver ==
  /\ ~receiverLock
  /\ receiverWoken' = (receiverWoken \/ receiverWaker)
  /\ receiverWaker' = FALSE
  /\ UNCHANGED <<senderWaker, senderLock, receiverLock, senderWoken>>

WakeSender ==
  /\ ~senderLock
  /\ senderWoken' = (senderWoken \/ senderWaker)
  /\ senderWaker' = FALSE
  /\ UNCHANGED <<receiverWaker, senderLock, receiverLock, receiverWoken>>

-----------------------------------------------------------------------------
(* try_send, and send, which waits *)

Send ==
  /\ sender.at = "idle"
  /\ tail < MaxSent
  /\ \E v \in Value, waits \in BOOLEAN :
       sender' = [at |-> "checking", value |-> v, waits |-> waits]
  /\ UNCHANGED <<counters, open, wakers, receiver, past>>

SendCheck ==
  /\ sender.at = "checking"
  /\ IF receiverOpen THEN SenderAt("loading") ELSE SenderBack
  /\ UNCHANGED <<counters, open, wakers, receiver, past>>

\* Slip: full is found one value too late.
SendLoadOffByOne ==
  /\ sender.at = "loading"
  /\ \/ tail - head <= Capacity /\ SenderAt("writing")
     \/ tail - head > Capacity /\ SenderBack
  /\ UNCHANGED <<counters, open, wakers, receiver, past>>

SendLoad ==
  /\ sender.at = "loading"
  /\ \/ tail - head # Capacity /\ SenderAt("writing")
     \/ tail - head = Capacity /\ ~sender.waits /\ SenderBack
     \/ tail - head = Capacity /\ sender.waits /\ SenderAt("locking")
  /\ UNCHANGED <<counters, open, wakers, receiver, past>>

SendWrite ==
  /\ sender.at = "writing"
  /\ cells' = [cells EXCEPT ![Index(tail)] = sender.value]
  /\ SenderAt("publishing")
  /\ UNCHANGED <<head, tail, open, wakers, receiver, past>>

SendPublish ==
  /\ sender.at = "publishing"
  /\ tail' = tail + 1
  /\ SenderAt("waking")
  /\ UNCHANGED <<cells, head, open, wakers, receiver, past>>

SendWake ==
  /\ sender.at = "waking"
  /\ WakeReceiver
  /\ SenderBack
  /\ UNCHANGED <<counters, open, receiver, past>>

(* SendFuture::poll when try_send found the ring full: register, unless    *)
(* the receiver went or made room meanwhile.                               *)
SendLock ==
  /\ sender.at = "locking"
  /\ ~senderLock
  /\ senderLock' = TRUE
  /\ SenderAt("recheckOpen")
  /\ UNCHANGED <<counters, open, senderWaker, receiverWaker, receiverLock, senderWoken,
                 receiverWoken, receiver, past>>

SendRecheckOpen ==
  /\ sender.at = "recheckOpen"
  /\ IF receiverOpen
     THEN SenderAt("recheckSpace") /\ UNCHANGED senderLock
     ELSE SenderBack /\ senderLock' = FALSE
  /\ UNCHANGED <<counters, open, senderWaker, receiverWaker, receiverLock, senderWoken,
                 receiverWoken, receiver, past>>

SendRecheckSpace ==
  /\ sender.at = "recheckSpace"
  /\ IF tail - head < Capacity
     THEN SenderAt("checking") /\ UNCHANGED senderWaker
     ELSE SenderAt("parked") /\ senderWaker' = TRUE
  /\ senderLock' = FALSE
  /\ UNCHANGED <<counters, open, receiverWaker, receiverLock, senderWoken, receiverWoken,
                 receiver, past>>

(* The future is polled again, for which its executor has a wake or none.  *)
SendPoll ==
  /\ sender.at = "parked"
  /\ SenderAt("checking")
  /\ senderWoken' = FALSE
  /\ UNCHANGED <<counters, open, senderWaker, receiverWaker, senderLock, receiverLock,
                 receiverWoken, receiver, past>>

(* The future is dropped with its value; its waker stays registered.       *)
SendCancel ==
  /\ sender.at = "parked"
  /\ SenderBack
  /\ senderWoken' = FALSE
  /\ UNCHANGED <<counters, open, senderWaker, receiverWaker, senderLock, receiverLock,
                 receiverWoken, receiver, past>>

DropSender ==
  /\ sender.at = "idle"
  /\ senderOpen' = FALSE
  /\ SenderAt("dropping")
  /\ UNCHANGED <<counters, receiverOpen, wakers, receiver, past>>

DropSenderWake ==
  /\ sender.at = "dropping"
  /\ WakeReceiver
  /\ SenderAt("gone")
  /\ UNCHANGED <<counters, open, receiver, past>>

-----------------------------------------------------------------------------
(* try_recv, and recv, which waits *)

Recv ==
  /\ receiver.at = "idle"
  /\ \E waits \in BOOLEAN : receiver' = [at |-> "loading", value |-> None, waits |-> waits]
  /\ before' = tail
  /\ UNCHANGED <<counters, open, wakers, sender, received, ended>>

\* Slip: a sender that is gone ends the stream before the queue is looked at.
RecvLoadAfterOpen ==
  /\ receiver.at = "loading"
  /\ \/ senderOpen /\ ReceiverAt(IF head = tail THEN "asking" ELSE "reading") /\ UNCHANGED ended
     \/ ~senderOpen /\ ReceiverBack /\ ended' = TRUE
  /\ UNCHANGED <<counters, open, wakers, sender, received, before>>

RecvLoad ==
  /\ receiver.at = "loading"
  /\ ReceiverAt(IF head = tail THEN "asking" ELSE "reading")
  /\ UNCHANGED <<counters, open, wakers, sender, past>>

(* The ring was empty: Empty or Closed, by the sender's flag now.          *)
RecvAsk ==
  /\ receiver.at = "asking"
  /\ \/ ~senderOpen /\ ReceiverBack /\ ended' = TRUE
     \/ senderOpen /\ ~receiver.waits /\ ReceiverBack /\ UNCHANGED ended
     \/ senderOpen /\ receiver.waits /\ ReceiverAt("locking") /\ UNCHANGED ended
  /\ UNCHANGED <<counters, open, wakers, sender, received, before>>

RecvRead ==
  /\ receiver.at = "reading"
  /\ receiver' = [receiver EXCEPT !.at = "freeing", !.value = cells[Index(head)]]
  /\ UNCHANGED <<counters, open, wakers, sender, past>>

RecvFree ==
  /\ receiver.at = "freeing"
  /\ head' = head + 1
  /\ received' = Append(received, receiver.value)
  /\ ReceiverAt("waking")
  /\ UNCHANGED <<cells, tail, open, wakers, sender, before, ended>>

RecvWake ==
  /\ receiver.at = "waking"
  /\ WakeSender
  /\ ReceiverBack
  /\ UNCHANGED <<counters, open, sender, past>>

(* RecvFuture::poll when try_recv found the ring empty.                    *)
RecvLock ==
  /\ receiver.at = "locking"
  /\ ~receiverLock
  /\ receiverLock' = TRUE
  /\ ReceiverAt("recheckValue")
  /\ UNCHANGED <<counters, open, senderWaker, receiverWaker, senderLock, senderWoken,
                 receiverWoken, sender, past>>

\* Slip: only the sender's flag is looked at again.
RecvRecheckOpenOnly ==
  /\ receiver.at = "recheckValue"
  /\ ReceiverAt("recheckOpen")
  /\ UNCHANGED <<counters, open, wakers, sender, past>>

RecvRecheckValue ==
  /\ receiver.at = "recheckValue"
  /\ IF head # tail
     THEN ReceiverAt("loading") /\ receiverLock' = FALSE
     ELSE ReceiverAt("recheckOpen") /\ UNCHANGED receiverLock
  /\ UNCHANGED <<counters, open, senderWaker, receiverWaker, senderLock, senderWoken,
                 receiverWoken, sender, past>>

RecvRecheckOpen ==
  /\ receiver.at = "recheckOpen"
  /\ IF senderOpen
     THEN ReceiverAt("parked") /\ receiverWaker' = TRUE /\ UNCHANGED ended
     ELSE ReceiverBack /\ ended' = TRUE /\ UNCHANGED receiverWaker
  /\ receiverLock' = FALSE
  /\ UNCHANGED <<counters, open, senderWaker, senderLock, senderWoken, receiverWoken,
                 sender, received, before>>

RecvPoll ==
  /\ receiver.at = "parked"
  /\ ReceiverAt("loading")
  /\ before' = tail
  /\ receiverWoken' = FALSE
  /\ UNCHANGED <<counters, open, senderWaker, receiverWaker, senderLock, receiverLock,
                 senderWoken, sender, received, ended>>

RecvCancel ==
  /\ receiver.at = "parked"
  /\ ReceiverBack
  /\ receiverWoken' = FALSE
  /\ UNCHANGED <<counters, open, senderWaker, receiverWaker, senderLock, receiverLock,
                 senderWoken, sender, past>>

DropReceiver ==
  /\ receiver.at = "idle"
  /\ receiverOpen' = FALSE
  /\ ReceiverAt("dropping")
  /\ UNCHANGED <<counters, senderOpen, wakers, sender, past>>

DropReceiverWake ==
  /\ receiver.at = "dropping"
  /\ WakeSender
  /\ ReceiverAt("gone")
  /\ UNCHANGED <<counters, open, sender, past>>

-----------------------------------------------------------------------------
SenderStep ==
  \/ SendCheck \/ SendLoad \/ SendWrite \/ SendPublish \/ SendWake
  \/ SendLock \/ SendRecheckOpen \/ SendRecheckSpace \/ DropSenderWake
ReceiverStep ==
  \/ RecvLoad \/ RecvAsk \/ RecvRead \/ RecvFree \/ RecvWake
  \/ RecvLock \/ RecvRecheckValue \/ RecvRecheckOpen \/ DropReceiverWake

Next ==
  \/ Send \/ SenderStep \/ SendPoll \/ SendCancel \/ DropSender
  \/ Recv \/ ReceiverStep \/ RecvPoll \/ RecvCancel \/ DropReceiver

Spec == Init /\ [][Next]_vars

-----------------------------------------------------------------------------
(* The ring implements a bounded queue: values leave it once, in order,    *)
(* and unchanged by later sends, although each end moves its own counter   *)
(* and looks at the other's only now and then.                             *)
InFlight == [i \in 1..tail - head |-> cells[Index(head + i - 1)]]

C == INSTANCE Channel WITH queue <- InFlight
Implements == C!Spec

(* "release/acquire cells": the sender never writes the cell the receiver  *)
(* reads.                                                                  *)
CellHasOneUser ==
  sender.at = "writing" /\ receiver.at = "reading" => Index(tail) # Index(head)

\* A parked receiver whose waker nobody has invoked has a waker, and either
\* nothing to wake for or a sender that is about to invoke it.
ReceiverIsWoken ==
  receiver.at = "parked" /\ ~receiverWoken =>
    /\ receiverWaker
    /\ head = tail \/ sender.at = "waking"
    /\ senderOpen \/ sender.at = "dropping"

SenderIsWoken ==
  sender.at = "parked" /\ ~senderWoken =>
    /\ senderWaker
    /\ tail - head = Capacity \/ receiver.at = "waking"
    /\ receiverOpen \/ receiver.at = "dropping"

(* "register/recheck async waits": nobody who is parked is forgotten, on   *)
(* either end, whatever the other does between the look at the ring and    *)
(* the registration: it publishes, frees a cell, takes the waker, is       *)
(* dropped.                                                                *)
EndsAreWoken == ReceiverIsWoken /\ SenderIsWoken

(* The receiver is told of the end only after it has received every value  *)
(* that was in the ring when its poll began.                               *)
EndHidesNothing == [][ended' /\ ~ended => head >= before]_vars

-----------------------------------------------------------------------------
(* What every step preserves, and the properties above follow from.        *)

(* The flags and the mutexes say where the two threads are.                *)
FlagsInv ==
  /\ senderOpen <=> sender.at \notin {"dropping", "gone"}
  /\ receiverOpen <=> receiver.at \notin {"dropping", "gone"}
  /\ senderLock <=> sender.at \in {"recheckOpen", "recheckSpace"}
  /\ receiverLock <=> receiver.at \in {"recheckValue", "recheckOpen"}

(* The cells from head to tail are written; what an end found out about    *)
(* the other's counter stays true until it moves its own.                  *)
WindowInv ==
  /\ \A i \in head..tail - 1 : cells[Index(i)] \in Value
  /\ sender.at \in {"checking", "loading", "writing", "publishing", "locking",
                    "recheckOpen", "recheckSpace", "parked"} => sender.value \in Value
  /\ sender.at \in {"writing", "publishing"} => tail - head < Capacity
  /\ sender.at = "publishing" => cells[Index(tail)] = sender.value
  /\ receiver.at \in {"reading", "freeing"} => head < tail
  /\ receiver.at = "freeing" => receiver.value = cells[Index(head)]

(* A poll that is about to register has not missed anything for which      *)
(* nobody will wake it.                                                    *)
HandshakeInv ==
  /\ receiver.at = "recheckOpen" => head = tail \/ sender.at = "waking"
  /\ sender.at = "recheckSpace" => receiverOpen \/ receiver.at = "dropping"
  /\ ReceiverIsWoken
  /\ SenderIsWoken

PollInv ==
  /\ before <= tail
  /\ receiver.at \in {"asking", "locking", "recheckValue", "recheckOpen"} => before <= head

IInv == TypeOK /\ FlagsInv /\ WindowInv /\ HandshakeInv /\ PollInv
=============================================================================
