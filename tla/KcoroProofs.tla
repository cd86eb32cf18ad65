---------------------------- MODULE KcoroProofs -----------------------------
(***************************************************************************)
(* Proofs about the ring, the promise and the scopes of kcoro, for any     *)
(* capacity and any sets of values, clients and nodes: the invariants IInv *)
(* of Ring, PromiseInv of Promise and ScopeInv of Scope are inductive, and *)
(* what follows from each.  With ExecutorProofs the same of MCKcoro, where *)
(* the four mechanisms are together.  The sections on ring, promise and    *)
(* scopes do not depend on each other.                                     *)
(***************************************************************************)
EXTENDS MCKcoro, ExecutorProofs, Integers

-----------------------------------------------------------------------------
(* The ring *)

(* Two counts less than Capacity apart use different cells.                *)
LEMMA IndexDistinct ==
  ASSUME NEW a \in Nat, NEW b \in Nat, a < b, b - a < Capacity
  PROVE  Index(a) # Index(b)
<1>0. Capacity \in Nat \ {0}
  BY CapacityAssumption
<1> DEFINE p == a \div Capacity
           q == b \div Capacity
<1>1. a = Capacity * p + (a % Capacity) /\ p \in Int
  BY <1>0, SMT
<1>2. b = Capacity * q + (b % Capacity) /\ q \in Int
  BY <1>0, SMT
<1>3. a % Capacity \in Int
  BY <1>0, SMT
<1> SUFFICES ASSUME a % Capacity = b % Capacity
             PROVE  FALSE
  BY DEF Index
<1> HIDE DEF p, q
<1>4. b - a = Capacity * q - Capacity * p
  BY <1>0, <1>1, <1>2, <1>3
<1>5. Capacity * q - Capacity * p = Capacity * (q - p)
  BY <1>0, <1>1, <1>2
<1>6. CASE q - p <= 0
  <2>1. Capacity * (q - p) <= 0
    BY <1>0, <1>1, <1>2, <1>6
  <2> QED
    BY <1>0, <1>1, <1>2, <2>1, <1>4, <1>5
<1>7. CASE q - p >= 1
  <2>1. Capacity * (q - p) >= Capacity
    BY <1>0, <1>1, <1>2, <1>7
  <2> QED
    BY <1>0, <1>1, <1>2, <2>1, <1>4, <1>5
<1> QED
  BY <1>0, <1>1, <1>2, <1>6, <1>7

(* Every count uses one of the cells.                                      *)
LEMMA IndexInRange ==
  ASSUME NEW n \in Nat
  PROVE  Index(n) \in 0..Capacity - 1
BY CapacityAssumption, SMT DEF Index

-----------------------------------------------------------------------------
LEMMA InitIInv == Init => IInv
<1> SUFFICES ASSUME Init PROVE IInv
  OBVIOUS
<1>1. TypeOK
  BY CapacityAssumption DEF Init, TypeOK, At, SenderPlaces, ReceiverPlaces
<1>2. FlagsInv
  BY DEF Init, FlagsInv
<1>3. WindowInv
  BY DEF Init, WindowInv
<1>4. HandshakeInv
  BY DEF Init, HandshakeInv, ReceiverIsWoken, SenderIsWoken
<1>5. PollInv
  BY DEF Init, PollInv
<1> QED
  BY <1>1, <1>2, <1>3, <1>4, <1>5 DEF IInv

LEMMA TypeNext == IInv /\ [Next]_vars => TypeOK'
<1> SUFFICES ASSUME IInv, [Next]_vars
             PROVE  TypeOK'
  OBVIOUS
<1>s. /\ \A x \in SenderPlaces : [sender EXCEPT !.at = x] \in At(SenderPlaces)
      /\ \A x \in ReceiverPlaces : [receiver EXCEPT !.at = x] \in At(ReceiverPlaces)
      /\ \A x \in SenderPlaces, v \in Value \cup {None}, b \in BOOLEAN :
           [at |-> x, value |-> v, waits |-> b] \in At(SenderPlaces)
      /\ \A x \in ReceiverPlaces, b \in BOOLEAN :
           [at |-> x, value |-> None, waits |-> b] \in At(ReceiverPlaces)
  BY DEF At, IInv, TypeOK
<1>p. /\ {"idle", "checking", "loading", "writing", "publishing", "waking", "locking",
           "recheckOpen", "recheckSpace", "parked", "dropping", "gone"} \subseteq SenderPlaces
      /\ {"idle", "loading", "asking", "reading", "freeing", "waking", "locking",
           "recheckValue", "recheckOpen", "parked", "dropping", "gone"} \subseteq ReceiverPlaces
  BY DEF SenderPlaces, ReceiverPlaces
<1> USE CapacityAssumption, <1>s, <1>p DEF IInv, TypeOK, SenderAt, ReceiverAt,
        SenderBack, ReceiverBack, WakeReceiver, WakeSender, counters, open, wakers, past
<1>1. CASE Send
  BY <1>1 DEF Send
<1>2. CASE SendCheck
  BY <1>2 DEF SendCheck
<1>3. CASE SendLoad
  <2>1. sender' \in At(SenderPlaces)
    <3>1. SenderAt("writing") \/ SenderAt("locking") \/ SenderBack
      BY <1>3 DEF SendLoad
    <3> QED
      BY <3>1
  <2> QED
    BY <1>3, <2>1 DEF SendLoad
<1>4. CASE SendWrite
  BY <1>4, IndexInRange DEF SendWrite, WindowInv
<1>5. CASE SendPublish
  BY <1>5 DEF SendPublish, WindowInv
<1>6. CASE SendWake
  BY <1>6 DEF SendWake
<1>7. CASE SendLock
  BY <1>7 DEF SendLock
<1>8. CASE SendRecheckOpen
  BY <1>8 DEF SendRecheckOpen
<1>9. CASE SendRecheckSpace
  BY <1>9 DEF SendRecheckSpace
<1>10. CASE SendPoll
  BY <1>10 DEF SendPoll
<1>11. CASE SendCancel
  BY <1>11 DEF SendCancel
<1>12. CASE DropSender
  BY <1>12 DEF DropSender
<1>13. CASE DropSenderWake
  BY <1>13 DEF DropSenderWake
<1>14. CASE Recv
  BY <1>14 DEF Recv
<1>15. CASE RecvLoad
  BY <1>15 DEF RecvLoad
<1>16. CASE RecvAsk
  BY <1>16 DEF RecvAsk
<1>17. CASE RecvRead
  <2>1. cells[Index(head)] \in Value \cup {None}
    BY IndexInRange
  <2>2. receiver' \in At(ReceiverPlaces)
    BY <1>17, <2>1 DEF RecvRead, At
  <2> QED
    BY <1>17, <2>2 DEF RecvRead
<1>18. CASE RecvFree
  <2>1. head \in head..tail - 1
    BY <1>18 DEF RecvFree, WindowInv
  <2>2. receiver.value \in Value
    BY <1>18, <2>1 DEF RecvFree, WindowInv
  <2>3. receiver' \in At(ReceiverPlaces)
    BY <1>18 DEF RecvFree
  <2> QED
    BY <1>18, <2>1, <2>2, <2>3 DEF RecvFree, WindowInv
<1>19. CASE RecvWake
  BY <1>19 DEF RecvWake
<1>20. CASE RecvLock
  BY <1>20 DEF RecvLock
<1>21. CASE RecvRecheckValue
  BY <1>21 DEF RecvRecheckValue
<1>22. CASE RecvRecheckOpen
  BY <1>22 DEF RecvRecheckOpen
<1>23. CASE RecvPoll
  <2>1. receiver' \in At(ReceiverPlaces)
    BY <1>23 DEF RecvPoll
  <2>2. tail \in Nat
    OBVIOUS
  <2> QED
    BY <1>23, <2>1, <2>2 DEF RecvPoll
<1>24. CASE RecvCancel
  BY <1>24 DEF RecvCancel
<1>25. CASE DropReceiver
  BY <1>25 DEF DropReceiver
<1>26. CASE DropReceiverWake
  BY <1>26 DEF DropReceiverWake
<1>27. CASE UNCHANGED vars
  BY <1>27 DEF vars
<1> QED
  BY <1>1, <1>2, <1>3, <1>4, <1>5, <1>6, <1>7, <1>8, <1>9, <1>10, <1>11, <1>12, <1>13,
     <1>14, <1>15, <1>16, <1>17, <1>18, <1>19, <1>20, <1>21, <1>22, <1>23, <1>24, <1>25, <1>26, <1>27
     DEF Next, SenderStep, ReceiverStep

LEMMA FlagsNext == IInv /\ [Next]_vars => FlagsInv' /\ HandshakeInv'
<1> SUFFICES ASSUME IInv, [Next]_vars
             PROVE  FlagsInv' /\ HandshakeInv'
  OBVIOUS
<1> USE CapacityAssumption DEF IInv, TypeOK, FlagsInv, HandshakeInv, ReceiverIsWoken, SenderIsWoken,
        At, SenderAt, ReceiverAt, SenderBack, ReceiverBack,
        WakeReceiver, WakeSender, counters, open, wakers, past
<1>1. CASE Send
  BY <1>1 DEF Send
<1>2. CASE SendCheck
  BY <1>2 DEF SendCheck
<1>3. CASE SendLoad
  BY <1>3 DEF SendLoad
<1>4. CASE SendWrite
  BY <1>4 DEF SendWrite
<1>5. CASE SendPublish
  BY <1>5 DEF SendPublish
<1>6. CASE SendWake
  BY <1>6 DEF SendWake
<1>7. CASE SendLock
  BY <1>7 DEF SendLock
<1>8. CASE SendRecheckOpen
  <2>1. CASE receiverOpen
    BY <1>8, <2>1 DEF SendRecheckOpen
  <2>2. CASE ~receiverOpen
    BY <1>8, <2>2 DEF SendRecheckOpen
  <2> QED
    BY <2>1, <2>2
<1>9. CASE SendRecheckSpace
  BY <1>9 DEF SendRecheckSpace
<1>10. CASE SendPoll
  BY <1>10 DEF SendPoll
<1>11. CASE SendCancel
  BY <1>11 DEF SendCancel
<1>12. CASE DropSender
  BY <1>12 DEF DropSender
<1>13. CASE DropSenderWake
  BY <1>13 DEF DropSenderWake
<1>14. CASE Recv
  BY <1>14 DEF Recv
<1>15. CASE RecvLoad
  BY <1>15 DEF RecvLoad
<1>16. CASE RecvAsk
  BY <1>16 DEF RecvAsk
<1>17. CASE RecvRead
  BY <1>17 DEF RecvRead
<1>18. CASE RecvFree
  BY <1>18 DEF RecvFree
<1>19. CASE RecvWake
  BY <1>19 DEF RecvWake
<1>20. CASE RecvLock
  BY <1>20 DEF RecvLock
<1>21. CASE RecvRecheckValue
  BY <1>21 DEF RecvRecheckValue
<1>22. CASE RecvRecheckOpen
  BY <1>22 DEF RecvRecheckOpen
<1>23. CASE RecvPoll
  BY <1>23 DEF RecvPoll
<1>24. CASE RecvCancel
  BY <1>24 DEF RecvCancel
<1>25. CASE DropReceiver
  BY <1>25 DEF DropReceiver
<1>26. CASE DropReceiverWake
  BY <1>26 DEF DropReceiverWake
<1>27. CASE UNCHANGED vars
  BY <1>27 DEF vars
<1> QED
  BY <1>1, <1>2, <1>3, <1>4, <1>5, <1>6, <1>7, <1>8, <1>9, <1>10, <1>11, <1>12, <1>13,
     <1>14, <1>15, <1>16, <1>17, <1>18, <1>19, <1>20, <1>21, <1>22, <1>23, <1>24, <1>25, <1>26, <1>27
     DEF Next, SenderStep, ReceiverStep

LEMMA WindowNext == IInv /\ [Next]_vars => WindowInv' /\ PollInv'
<1> SUFFICES ASSUME IInv, [Next]_vars
             PROVE  WindowInv' /\ PollInv'
  OBVIOUS
<1> USE CapacityAssumption DEF IInv, TypeOK, WindowInv, PollInv, At, SenderAt, ReceiverAt,
        SenderBack, ReceiverBack, WakeReceiver, WakeSender, counters, open, wakers, past
<1>1. CASE Send
  BY <1>1 DEF Send
<1>2. CASE SendCheck
  BY <1>2 DEF SendCheck
<1>3. CASE SendLoad
  <2>1. sender'.at = "writing" => tail - head < Capacity
    BY <1>3 DEF SendLoad
  <2>2. sender'.at \in {"writing", "locking", "idle"}
    BY <1>3 DEF SendLoad
  <2>3. sender'.at # "idle" => sender'.value \in Value
    BY <1>3 DEF SendLoad
  <2> QED
    BY <1>3, <2>1, <2>2, <2>3 DEF SendLoad
<1>4. CASE SendWrite
  <2>1. Index(tail) \in 0..Capacity - 1
    BY IndexInRange
  <2>2. sender.value \in Value /\ tail - head < Capacity
    BY <1>4 DEF SendWrite
  <2>3. \A i \in head..tail - 1 : cells'[Index(i)] \in Value
    BY <1>4, <2>1, <2>2, IndexInRange DEF SendWrite
  <2>4. cells'[Index(tail)] = sender.value
    BY <1>4, <2>1 DEF SendWrite
  <2>5. head < tail => cells'[Index(head)] = cells[Index(head)]
    BY <1>4, <2>1, <2>2, IndexDistinct, IndexInRange DEF SendWrite
  <2> QED
    BY <1>4, <2>2, <2>3, <2>4, <2>5 DEF SendWrite
<1>5. CASE SendPublish
  <2>1. \A i \in head..tail : cells[Index(i)] \in Value
    <3> TAKE i \in head..tail
    <3>1. i \in head..tail - 1 \/ i = tail
      OBVIOUS
    <3> QED
      BY <1>5, <3>1 DEF SendPublish
  <2>2. tail' = tail + 1 /\ tail' - 1 = tail
    BY <1>5 DEF SendPublish
  <2> QED
    BY <1>5, <2>1, <2>2 DEF SendPublish
<1>6. CASE SendWake
  BY <1>6 DEF SendWake
<1>7. CASE SendLock
  BY <1>7 DEF SendLock
<1>8. CASE SendRecheckOpen
  BY <1>8 DEF SendRecheckOpen
<1>9. CASE SendRecheckSpace
  BY <1>9 DEF SendRecheckSpace
<1>10. CASE SendPoll
  BY <1>10 DEF SendPoll
<1>11. CASE SendCancel
  BY <1>11 DEF SendCancel
<1>12. CASE DropSender
  BY <1>12 DEF DropSender
<1>13. CASE DropSenderWake
  BY <1>13 DEF DropSenderWake
<1>14. CASE Recv
  BY <1>14 DEF Recv
<1>15. CASE RecvLoad
  BY <1>15 DEF RecvLoad
<1>16. CASE RecvAsk
  BY <1>16 DEF RecvAsk
<1>17. CASE RecvRead
  BY <1>17 DEF RecvRead
<1>18. CASE RecvFree
  <2>1. \A i \in head + 1..tail - 1 : cells[Index(i)] \in Value
    OBVIOUS
  <2> QED
    BY <1>18, <2>1 DEF RecvFree
<1>19. CASE RecvWake
  BY <1>19 DEF RecvWake
<1>20. CASE RecvLock
  BY <1>20 DEF RecvLock
<1>21. CASE RecvRecheckValue
  BY <1>21 DEF RecvRecheckValue
<1>22. CASE RecvRecheckOpen
  BY <1>22 DEF RecvRecheckOpen
<1>23. CASE RecvPoll
  BY <1>23 DEF RecvPoll
<1>24. CASE RecvCancel
  BY <1>24 DEF RecvCancel
<1>25. CASE DropReceiver
  BY <1>25 DEF DropReceiver
<1>26. CASE DropReceiverWake
  BY <1>26 DEF DropReceiverWake
<1>27. CASE UNCHANGED vars
  BY <1>27 DEF vars
<1> QED
  BY <1>1, <1>2, <1>3, <1>4, <1>5, <1>6, <1>7, <1>8, <1>9, <1>10, <1>11, <1>12, <1>13,
     <1>14, <1>15, <1>16, <1>17, <1>18, <1>19, <1>20, <1>21, <1>22, <1>23, <1>24, <1>25, <1>26, <1>27
     DEF Next, SenderStep, ReceiverStep

-----------------------------------------------------------------------------
(* Every step keeps the invariant of the ring.                             *)
LEMMA RingStep == IInv /\ [Next]_vars => IInv'
BY TypeNext, FlagsNext, WindowNext DEF IInv

(* The invariant holds for every capacity.                                 *)
THEOREM Correct == Spec => []IInv
BY InitIInv, RingStep, PTL DEF Spec

(* The sender never writes the cell that the receiver reads: the counters  *)
(* alone keep ring.rs's unsafe accesses to the cells apart.                *)
THEOREM CellsAreNotShared == Spec => []CellHasOneUser
<1>1. IInv => CellHasOneUser
  <2> SUFFICES ASSUME IInv, sender.at = "writing", receiver.at = "reading"
               PROVE  Index(tail) # Index(head)
    BY DEF CellHasOneUser
  <2>1. head \in Nat /\ tail \in Nat /\ head < tail /\ tail - head < Capacity
    BY CapacityAssumption DEF IInv, TypeOK, WindowInv
  <2> QED
    BY <2>1, IndexDistinct
<1> QED
  BY Correct, <1>1, PTL

(* No parked future of either end is forgotten: whoever changes what it    *)
(* waits for finds its waker.                                              *)
THEOREM NobodyIsForgotten == Spec => []EndsAreWoken
<1>1. IInv => EndsAreWoken
  BY DEF IInv, HandshakeInv, EndsAreWoken
<1> QED
  BY Correct, <1>1, PTL

(* Closed is reported only after every value that was in the ring when the *)
(* receiver's poll began.                                                  *)
THEOREM EndIsHonest == Spec => EndHidesNothing
<1>1. IInv /\ [Next]_vars => [ended' /\ ~ended => head >= before]_vars
  <2> SUFFICES ASSUME IInv, Next, ended', ~ended
               PROVE  before <= head
    BY DEF IInv, TypeOK
  <2>1. RecvAsk \/ RecvRecheckOpen
    BY DEF Next, SenderStep, ReceiverStep, past, Send, SendCheck, SendLoad, SendWrite,
           SendPublish, SendWake, SendLock, SendRecheckOpen, SendRecheckSpace, SendPoll,
           SendCancel, DropSender, DropSenderWake, Recv, RecvLoad, RecvRead, RecvFree,
           RecvWake, RecvLock, RecvRecheckValue, RecvPoll, RecvCancel, DropReceiver,
           DropReceiverWake
  <2> QED
    BY <2>1 DEF RecvAsk, RecvRecheckOpen, IInv, PollInv
<1> QED
  BY Correct, <1>1, PTL DEF Spec, EndHidesNothing

-----------------------------------------------------------------------------
InFlightIs ==
  /\ InFlight \in Seq(Value)
  /\ Len(InFlight) = tail - head
  /\ \A i \in 1..tail - head : InFlight[i] = cells[Index(head + i - 1)]

(* InFlight is a sequence of the values between head and tail.             *)
LEMMA InFlightIsASeq == IInv => InFlightIs
<1> SUFFICES ASSUME IInv
             PROVE  InFlightIs
  OBVIOUS
<1>1. head \in Nat /\ tail \in Nat /\ tail - head \in Nat
  BY CapacityAssumption DEF IInv, TypeOK
<1>2. \A i \in 1..tail - head : cells[Index(head + i - 1)] \in Value
  <2> TAKE i \in 1..tail - head
  <2>1. head + i - 1 \in head..tail - 1
    BY <1>1
  <2> QED
    BY <2>1 DEF IInv, WindowInv
<1>3. InFlight \in [1..tail - head -> Value]
  BY <1>2 DEF InFlight
<1> QED
  BY <1>1, <1>3 DEF InFlight, InFlightIs

(* Writing the cell at tail does not touch the values in flight.           *)
LEMMA WriteIsUnseen ==
  ASSUME IInv, SendWrite
  PROVE  InFlight' = InFlight
<1>1. head \in Nat /\ tail \in Nat /\ tail - head \in Nat /\ tail - head < Capacity
  BY CapacityAssumption DEF IInv, TypeOK, WindowInv, SendWrite
<1>2. head' = head /\ tail' = tail
  BY DEF SendWrite
<1>3. \A i \in 1..tail - head : cells'[Index(head + i - 1)] = cells[Index(head + i - 1)]
  <2> TAKE i \in 1..tail - head
  <2>1. /\ head + i - 1 \in Nat /\ head + i - 1 < tail
        /\ tail - (head + i - 1) < Capacity
    BY <1>1, CapacityAssumption
  <2>2. Index(head + i - 1) # Index(tail)
    BY <2>1, <1>1, IndexDistinct
  <2>3. Index(head + i - 1) \in 0..Capacity - 1
    BY <2>1, IndexInRange
  <2> QED
    BY <2>2, <2>3 DEF SendWrite, IInv, TypeOK
<1> QED
  BY <1>2, <1>3 DEF InFlight

(* Moving the tail appends the value that was written.                     *)
LEMMA PublishAppends ==
  ASSUME IInv, IInv', SendPublish
  PROVE  /\ sender.value \in Value
         /\ Len(InFlight) < Capacity
         /\ InFlight' = Append(InFlight, sender.value)
<1>1. /\ sender.value \in Value
      /\ head \in Nat /\ tail \in Nat /\ tail - head \in Nat /\ tail - head < Capacity
      /\ cells[Index(tail)] = sender.value
  BY CapacityAssumption DEF IInv, TypeOK, WindowInv, SendPublish
<1>2. head' = head /\ tail' = tail + 1 /\ cells' = cells
  BY DEF SendPublish
<1>3. /\ InFlight \in Seq(Value)
      /\ Len(InFlight) = tail - head
      /\ \A i \in 1..tail - head : InFlight[i] = cells[Index(head + i - 1)]
  BY InFlightIsASeq DEF InFlightIs
<1>4. /\ InFlight' \in Seq(Value)
      /\ Len(InFlight') = tail + 1 - head
      /\ \A i \in 1..tail + 1 - head : InFlight'[i] = cells[Index(head + i - 1)]
  <2>1. InFlightIs'
    BY InFlightIsASeq, PTL
  <2>2. tail' - head' = tail + 1 - head
    BY <1>1, <1>2
  <2>3. \A i \in 1..tail + 1 - head : InFlight'[i] = cells[Index(head + i - 1)]
    BY <2>1, <2>2, <1>2 DEF InFlightIs
  <2> QED
    BY <2>1, <2>2, <2>3 DEF InFlightIs
<1> DEFINE longer == Append(InFlight, sender.value)
<1>5. /\ longer \in Seq(Value)
      /\ Len(longer) = tail - head + 1
      /\ \A i \in 1..tail - head : longer[i] = InFlight[i]
      /\ longer[tail - head + 1] = sender.value
  BY <1>1, <1>3, AppendProperties
<1> HIDE DEF longer
<1>6. \A i \in 1..tail + 1 - head : InFlight'[i] = longer[i]
  <2> TAKE i \in 1..tail + 1 - head
  <2>1. CASE i \in 1..tail - head
    BY <2>1, <1>3, <1>4, <1>5
  <2>2. CASE i = tail + 1 - head
    <3>1. i = tail - head + 1 /\ head + i - 1 = tail
      BY <1>1, <2>2
    <3>2. InFlight'[i] = cells[Index(tail)]
      BY <1>4, <3>1
    <3> QED
      BY <3>1, <3>2, <1>1, <1>5
  <2> QED
    BY <1>1, <2>1, <2>2
<1>7. InFlight' = longer
  <2>1. Len(InFlight') = Len(longer) /\ Len(InFlight') = tail + 1 - head
    BY <1>1, <1>4, <1>5
  <2>2. \A i \in 1..Len(InFlight') : InFlight'[i] = longer[i]
    BY <1>6, <2>1
  <2> QED
    BY <1>4, <1>5, <2>1, <2>2, SeqEqual
<1> QED
  BY <1>1, <1>3, <1>7 DEF longer

(* Moving the head takes the value that was read off the front.            *)
LEMMA FreeTakesTheFront ==
  ASSUME IInv, IInv', RecvFree
  PROVE  /\ InFlight # <<>>
         /\ Head(InFlight) = receiver.value
         /\ InFlight' = Tail(InFlight)
<1>1. /\ head \in Nat /\ tail \in Nat /\ head < tail
      /\ receiver.value = cells[Index(head)]
  BY CapacityAssumption DEF IInv, TypeOK, WindowInv, RecvFree
<1>2. head' = head + 1 /\ tail' = tail /\ cells' = cells
  BY DEF RecvFree
<1>3. /\ InFlight \in Seq(Value)
      /\ Len(InFlight) = tail - head
      /\ \A i \in 1..tail - head : InFlight[i] = cells[Index(head + i - 1)]
  BY InFlightIsASeq DEF InFlightIs
<1>4. /\ InFlight' \in Seq(Value)
      /\ Len(InFlight') = tail - (head + 1)
      /\ \A i \in 1..tail - (head + 1) : InFlight'[i] = cells[Index((head + 1) + i - 1)]
  <2>1. InFlightIs'
    BY InFlightIsASeq, PTL
  <2> QED
    BY <2>1, <1>2 DEF InFlightIs
<1>5. InFlight # <<>>
  BY <1>1, <1>3, EmptySeq
<1>6. Head(InFlight) = receiver.value
  <2>1. Head(InFlight) = InFlight[1]
    BY <1>3, <1>5
  <2>2. 1 \in 1..tail - head /\ head + 1 - 1 = head
    BY <1>1
  <2>3. InFlight[1] = cells[Index(head)]
    BY <1>3, <2>2
  <2> QED
    BY <2>1, <2>3, <1>1
<1> DEFINE rest == Tail(InFlight)
<1>7. /\ rest \in Seq(Value)
      /\ Len(rest) = tail - head - 1
      /\ \A i \in 1..Len(rest) : rest[i] = InFlight[i + 1]
  BY <1>3, <1>5, HeadTailProperties
<1> HIDE DEF rest
<1>8. \A i \in 1..tail - (head + 1) : InFlight'[i] = rest[i]
  <2> TAKE i \in 1..tail - (head + 1)
  <2>1. i \in Nat /\ 1 <= i /\ i <= tail - head - 1
    BY <1>1
  <2>2. i \in 1..Len(rest) /\ i + 1 \in 1..tail - head
    BY <1>1, <1>7, <2>1
  <2>3. (head + 1) + i - 1 = head + (i + 1) - 1
    BY <1>1, <2>1
  <2> QED
    BY <2>2, <2>3, <1>3, <1>4, <1>7
<1>9. InFlight' = rest
  <2>1. Len(InFlight') = Len(rest) /\ Len(InFlight') = tail - (head + 1)
    BY <1>1, <1>4, <1>7
  <2>2. \A i \in 1..Len(InFlight') : InFlight'[i] = rest[i]
    BY <1>8, <2>1
  <2> QED
    BY <1>4, <1>7, <2>1, <2>2, SeqEqual
<1> QED
  BY <1>5, <1>6, <1>9 DEF rest

(* Every other step leaves the values in flight alone.                     *)
LEMMA CountersAlone ==
  ASSUME UNCHANGED counters
  PROVE  InFlight' = InFlight
BY DEF counters, InFlight

LEMMA StepRefines == IInv /\ IInv' /\ [Next]_vars => [C!Next]_C!vars
<1> SUFFICES ASSUME IInv, IInv', [Next]_vars
             PROVE  [C!Next]_C!vars
  OBVIOUS
<1> USE DEF C!vars, open, past, FlagsInv, IInv
<1>1. CASE SendWrite
  BY <1>1, WriteIsUnseen DEF SendWrite
<1>2. CASE SendPublish
  <2>1. /\ senderOpen
        /\ UNCHANGED <<received, senderOpen, receiverOpen, ended>>
    BY <1>2 DEF SendPublish
  <2>2. C!Put
    BY <1>2, <2>1, PublishAppends DEF C!Put
  <2> QED
    BY <2>2 DEF C!Next
<1>3. CASE RecvFree
  <2>1. /\ receiverOpen
        /\ received' = Append(received, receiver.value)
        /\ UNCHANGED <<senderOpen, receiverOpen, ended>>
    BY <1>3 DEF RecvFree
  <2>2. C!Get
    BY <1>3, <2>1, FreeTakesTheFront DEF C!Get
  <2> QED
    BY <2>2 DEF C!Next
<1>4. CASE DropSender
  BY <1>4, CountersAlone DEF DropSender, C!Next, C!CloseSender
<1>5. CASE DropReceiver
  BY <1>5, CountersAlone DEF DropReceiver, C!Next, C!CloseReceiver
<1>6. CASE RecvAsk \/ RecvRecheckOpen
  <2>1. UNCHANGED <<counters, received, senderOpen, receiverOpen>> /\ receiverOpen
    BY <1>6 DEF RecvAsk, RecvRecheckOpen
  <2>2. UNCHANGED ended \/ (~senderOpen /\ ended' = TRUE)
    BY <1>6 DEF RecvAsk, RecvRecheckOpen
  <2> QED
    BY <2>1, <2>2, CountersAlone DEF C!Next, C!End
<1>7. CASE \/ Send \/ SendCheck \/ SendLoad \/ SendWake \/ SendLock \/ SendRecheckOpen
           \/ SendRecheckSpace \/ SendPoll \/ SendCancel \/ DropSenderWake
  <2>1. UNCHANGED <<counters, received, senderOpen, receiverOpen, ended>>
    BY <1>7 DEF Send, SendCheck, SendLoad, SendWake, SendLock, SendRecheckOpen,
                SendRecheckSpace, SendPoll, SendCancel, DropSenderWake
  <2> QED
    BY <2>1, CountersAlone
<1>8. CASE \/ Recv \/ RecvLoad \/ RecvRead \/ RecvWake \/ RecvLock \/ RecvRecheckValue
           \/ RecvPoll \/ RecvCancel \/ DropReceiverWake
  <2>1. UNCHANGED <<counters, received, senderOpen, receiverOpen, ended>>
    BY <1>8 DEF Recv, RecvLoad, RecvRead, RecvWake, RecvLock, RecvRecheckValue,
                RecvPoll, RecvCancel, DropReceiverWake
  <2> QED
    BY <2>1, CountersAlone
<1>9. CASE UNCHANGED vars
  BY <1>9, CountersAlone DEF vars
<1> QED
  BY <1>1, <1>2, <1>3, <1>4, <1>5, <1>6, <1>7, <1>8, <1>9 DEF Next, SenderStep, ReceiverStep

(* The ring implements the bounded queue of Channel: what is received is   *)
(* what was sent, once and in order, whatever the capacity.                *)
THEOREM RingImplementsChannel == Spec => Implements
<1>1. Init => C!Init
  <2> SUFFICES ASSUME Init PROVE InFlight = <<>>
    BY DEF Init, C!Init
  <2>1. IInv
    BY InitIInv
  <2>2. InFlight \in Seq(Value) /\ Len(InFlight) = 0
    BY <2>1, InFlightIsASeq DEF Init, InFlightIs
  <2> QED
    BY <2>2, EmptySeq
<1>2. IInv /\ IInv' /\ [Next]_vars => [C!Next]_C!vars
  BY StepRefines
<1> QED
  BY <1>1, <1>2, Correct, PTL DEF Spec, Implements, C!Spec

-----------------------------------------------------------------------------
(* The promise *)

USE NothingAssumption

\* The invariant holds when the promise is made.
LEMMA PromiseStart == PromiseInit => PromiseInv
  <1>1. ASSUME PromiseInit PROVE PromiseTypeOK
    <2>. USE <1>1 DEF PromiseInit
    <2>1. poller \in [at : PollerPlaces, got : Resolver \cup {Nothing},
                     waker : Watcher \cup {Nothing}]
      BY DEF PollerPlaces
    <2>2. asker \in [Asker -> [at : AskerPlaces, got : Resolver \cup {Nothing}]]
      BY DEF AskerPlaces
    <2>3. resolver \in [Resolver -> ResolverPlaces]
      BY DEF ResolverPlaces
    <2>4. QED
      BY <2>1, <2>2, <2>3 DEF PromiseTypeOK
  <1>2. PromiseInit => ClaimInv /\ HeldInv
    BY DEF PromiseInit, ClaimInv, HeldInv, Winning
  <1>3. PromiseInit => SleepInv /\ WatchInv /\ GotInv
    BY DEF PromiseInit, SleepInv, WatchInv, GotInv
  <1>4. QED
    BY <1>1, <1>2, <1>3 DEF PromiseInv

\* Every step keeps the types.
LEMMA PromiseTypes == PromiseTypeOK /\ [PromiseNext]_promise => PromiseTypeOK'
  <1>. SUFFICES ASSUME PromiseTypeOK, [PromiseNext]_promise PROVE PromiseTypeOK'
    OBVIOUS
  <1>. USE DEF PromiseTypeOK, ResolverPlaces, AskerPlaces, PollerPlaces
  <1>1. ASSUME NEW r \in Resolver, ResolverStep(r) PROVE PromiseTypeOK'
    <2>1. CASE Resolve(r)
      BY <2>1 DEF Resolve, Move
    <2>2. CASE ResolveLock(r) \/ ResolveWrite(r) \/ ResolvePublish(r)
      BY <2>2 DEF ResolveLock, ResolveWrite, ResolvePublish, Move
    <2>3. CASE ResolveTake(r) \/ ResolveWake(r)
      BY <2>3 DEF ResolveTake, ResolveWake, Move
    <2>4. CASE ResolveNotify(r)
      BY <2>4 DEF ResolveNotify, Move
    <2>5. QED
      BY <1>1, <2>1, <2>2, <2>3, <2>4 DEF ResolverStep
  <1>2. ASSUME NEW a \in Asker, AskerStep(a) PROVE PromiseTypeOK'
    <2>1. CASE Ask(a) \/ AskLock(a) \/ AskSleep(a) \/ AskStirs(a)
      BY <2>1 DEF Ask, AskLock, AskSleep, AskStirs
    <2>2. CASE AskLook(a)
      BY <2>2 DEF AskLook
    <2>3. QED
      BY <1>2, <2>1, <2>2 DEF AskerStep
  <1>3. ASSUME NEW k \in Watcher \cup {Nothing}, Answered(k)
        PROVE poller' \in [at : PollerPlaces, got : Resolver \cup {Nothing},
                          waker : Watcher \cup {Nothing}]
    BY <1>3 DEF Answered
  <1>4. ASSUME NEW k \in Watcher, Poll(k) PROVE PromiseTypeOK'
    <2>1. CASE stage = "ready"
      BY <1>3, <1>4, <2>1 DEF Poll
    <2>2. CASE stage # "ready"
      <3>1. poller' \in [at : PollerPlaces, got : Resolver \cup {Nothing},
                        waker : Watcher \cup {Nothing}]
        BY <1>4, <2>2 DEF Poll
      <3>2. QED
        BY <1>4, <3>1 DEF Poll
    <2>3. QED
      BY <2>1, <2>2
  <1>5. CASE PollLock
    BY <1>5 DEF PollLock
  <1>6. CASE PollRecheck
    <2>1. CASE stage = "ready"
      BY <1>3, <1>6, <2>1 DEF PollRecheck
    <2>2. CASE stage # "ready"
      <3>1. poller' \in [at : PollerPlaces, got : Resolver \cup {Nothing},
                        waker : Watcher \cup {Nothing}]
        BY <1>6, <2>2 DEF PollRecheck
      <3>2. registered' \in Watcher \cup {Nothing} /\ slotHeld' \in BOOLEAN
        BY <1>6, <2>2 DEF PollRecheck
      <3>3. QED
        BY <1>6, <3>1, <3>2 DEF PollRecheck
    <2>3. QED
      BY <2>1, <2>2
  <1>7. CASE UNCHANGED promise
    BY <1>7 DEF promise
  <1>8. QED
    BY <1>1, <1>2, <1>4, <1>5, <1>6, <1>7 DEF PromiseNext

\* Only the first to claim wins, and how far it is the state says.
LEMMA ClaimStep ==
  PromiseTypeOK /\ ClaimInv /\ [PromiseNext]_promise => ClaimInv'
  <1>. SUFFICES ASSUME PromiseTypeOK, ClaimInv, [PromiseNext]_promise PROVE ClaimInv'
    OBVIOUS
  <1>. USE DEF PromiseTypeOK, ClaimInv, Winning
  <1>1. ASSUME NEW r \in Resolver, ResolverStep(r) PROVE ClaimInv'
    <2>1. CASE Resolve(r)
      BY <2>1 DEF Resolve, Move
    <2>2. CASE ResolveLock(r)
      BY <2>2 DEF ResolveLock, Move
    <2>3. CASE ResolveWrite(r)
      BY <2>3 DEF ResolveWrite, Move
    <2>4. CASE ResolvePublish(r)
      BY <2>4 DEF ResolvePublish, Move
    <2>5. CASE ResolveTake(r)
      BY <2>5 DEF ResolveTake, Move
    <2>6. CASE ResolveNotify(r)
      BY <2>6 DEF ResolveNotify, Move
    <2>7. CASE ResolveWake(r)
      BY <2>7 DEF ResolveWake, Move
    <2>8. QED
      BY <1>1, <2>1, <2>2, <2>3, <2>4, <2>5, <2>6, <2>7 DEF ResolverStep
  <1>2. ASSUME UNCHANGED <<stage, answer, resolver>> PROVE ClaimInv'
    BY <1>2
  <1>3. ASSUME NEW a \in Asker, AskerStep(a) PROVE ClaimInv'
    BY <1>2, <1>3 DEF AskerStep, Ask, AskLock, AskLook, AskSleep, AskStirs
  <1>4. ASSUME NEW k \in Watcher, Poll(k) \/ PollLock \/ PollRecheck PROVE ClaimInv'
    BY <1>2, <1>4 DEF Poll, PollLock, PollRecheck
  <1>5. CASE PollLock \/ PollRecheck
    BY <1>2, <1>5 DEF PollLock, PollRecheck
  <1>6. CASE UNCHANGED promise
    BY <1>2, <1>6 DEF promise
  <1>7. QED
    BY <1>1, <1>3, <1>4, <1>5, <1>6 DEF PromiseNext

\* A mutex is held by who is inside.
LEMMA HeldStep ==
  PromiseTypeOK /\ HeldInv /\ [PromiseNext]_promise => HeldInv'
  <1>. SUFFICES ASSUME PromiseTypeOK, HeldInv, [PromiseNext]_promise PROVE HeldInv'
    OBVIOUS
  <1>. USE DEF PromiseTypeOK, HeldInv
  <1>1. ASSUME NEW r \in Resolver, ResolverStep(r) PROVE HeldInv'
    <2>1. CASE Resolve(r)
      BY <2>1 DEF Resolve, Move
    <2>2. CASE ResolveLock(r)
      BY <2>2 DEF ResolveLock, Move
    <2>3. CASE ResolveWrite(r) \/ ResolvePublish(r)
      BY <2>3 DEF ResolveWrite, ResolvePublish, Move
    <2>4. CASE ResolveTake(r) \/ ResolveWake(r)
      BY <2>4 DEF ResolveTake, ResolveWake, Move
    <2>5. CASE ResolveNotify(r)
      BY <2>5 DEF ResolveNotify, Move
    <2>6. QED
      BY <1>1, <2>1, <2>2, <2>3, <2>4, <2>5 DEF ResolverStep
  <1>2. ASSUME NEW a \in Asker, AskerStep(a) PROVE HeldInv'
    <2>1. CASE Ask(a) \/ AskStirs(a)
      BY <2>1 DEF Ask, AskStirs
    <2>2. CASE AskLock(a)
      BY <2>2 DEF AskLock
    <2>3. CASE AskLook(a)
      BY <2>3 DEF AskLook
    <2>4. CASE AskSleep(a)
      BY <2>4 DEF AskSleep
    <2>5. QED
      BY <1>2, <2>1, <2>2, <2>3, <2>4 DEF AskerStep
  <1>3. ASSUME NEW k \in Watcher, Poll(k) PROVE HeldInv'
    BY <1>3 DEF Poll, Answered
  <1>4. CASE PollLock \/ PollRecheck
    BY <1>4 DEF PollLock, PollRecheck, Answered
  <1>5. CASE UNCHANGED promise
    BY <1>5 DEF promise
  <1>6. QED
    BY <1>1, <1>2, <1>3, <1>4, <1>5 DEF PromiseNext

\* Who sleeps will be told: to publish, the winner holds the mutex of wait.
LEMMA SleepStep ==
  PromiseTypeOK /\ ClaimInv /\ HeldInv /\ SleepInv /\ [PromiseNext]_promise => SleepInv'
  <1>. SUFFICES ASSUME PromiseTypeOK, ClaimInv, HeldInv, SleepInv, [PromiseNext]_promise
                PROVE SleepInv'
    OBVIOUS
  <1>. USE DEF PromiseTypeOK, SleepInv
  <1>1. ASSUME NEW r \in Resolver, ResolverStep(r) PROVE SleepInv'
    <2>1. CASE Resolve(r)
      BY <2>1 DEF Resolve, Move
    <2>2. CASE ResolveLock(r) \/ ResolveWrite(r)
      BY <2>2 DEF ResolveLock, ResolveWrite, Move
    <2>3. CASE ResolvePublish(r)
      BY <2>3 DEF ResolvePublish, Move, HeldInv
    <2>4. CASE ResolveTake(r)
      BY <2>4 DEF ResolveTake, Move
    <2>5. CASE ResolveNotify(r)
      BY <2>5 DEF ResolveNotify, Move, ClaimInv, Winning
    <2>6. CASE ResolveWake(r)
      BY <2>6 DEF ResolveWake, Move
    <2>7. QED
      BY <1>1, <2>1, <2>2, <2>3, <2>4, <2>5, <2>6 DEF ResolverStep
  <1>2. ASSUME NEW a \in Asker, AskerStep(a) PROVE SleepInv'
    <2>1. CASE Ask(a) \/ AskLock(a) \/ AskStirs(a)
      BY <2>1 DEF Ask, AskLock, AskStirs
    <2>2. CASE AskLook(a) \/ AskSleep(a)
      BY <2>2 DEF AskLook, AskSleep
    <2>3. QED
      BY <1>2, <2>1, <2>2 DEF AskerStep
  <1>3. ASSUME UNCHANGED <<stage, resolver, asker>> PROVE SleepInv'
    BY <1>3
  <1>4. ASSUME NEW k \in Watcher, Poll(k) PROVE SleepInv'
    BY <1>3, <1>4 DEF Poll
  <1>5. CASE PollLock \/ PollRecheck
    BY <1>3, <1>5 DEF PollLock, PollRecheck
  <1>6. CASE UNCHANGED promise
    BY <1>3, <1>6 DEF promise
  <1>7. QED
    BY <1>1, <1>2, <1>4, <1>5, <1>6 DEF PromiseNext

\* A registered waker stays, is taken, and is invoked.
LEMMA WatchStep ==
  PromiseTypeOK /\ ClaimInv /\ HeldInv /\ WatchInv /\ [PromiseNext]_promise => WatchInv'
  <1>. SUFFICES ASSUME PromiseTypeOK, ClaimInv, HeldInv, WatchInv, [PromiseNext]_promise
                PROVE WatchInv'
    OBVIOUS
  <1>. USE DEF PromiseTypeOK, WatchInv
  <1>1. ASSUME NEW r \in Resolver, ResolverStep(r) PROVE WatchInv'
    <2>1. CASE Resolve(r)
      BY <2>1 DEF Resolve, Move
    <2>2. CASE ResolveLock(r) \/ ResolveWrite(r)
      BY <2>2 DEF ResolveLock, ResolveWrite, Move
    <2>3. CASE ResolvePublish(r)
      BY <2>3 DEF ResolvePublish, Move, ClaimInv, Winning
    <2>4. CASE ResolveTake(r)
      BY <2>4 DEF ResolveTake, Move, ClaimInv, Winning
    <2>5. CASE ResolveNotify(r)
      BY <2>5 DEF ResolveNotify, Move
    <2>6. CASE ResolveWake(r)
      BY <2>6 DEF ResolveWake, Move, ClaimInv, Winning
    <2>7. QED
      BY <1>1, <2>1, <2>2, <2>3, <2>4, <2>5, <2>6 DEF ResolverStep
  <1>2. ASSUME UNCHANGED <<stage, registered, resolver, taken, poller, told>> PROVE WatchInv'
    BY <1>2
  <1>3. ASSUME NEW a \in Asker, AskerStep(a) PROVE WatchInv'
    BY <1>2, <1>3 DEF AskerStep, Ask, AskLock, AskLook, AskSleep, AskStirs
  <1>4. ASSUME NEW k \in Watcher, Poll(k) PROVE WatchInv'
    BY <1>4 DEF Poll, Answered
  <1>5. CASE PollLock
    BY <1>5 DEF PollLock
  <1>6. CASE PollRecheck
    BY <1>6 DEF PollRecheck, Answered
  <1>7. CASE UNCHANGED promise
    BY <1>2, <1>7 DEF promise
  <1>8. QED
    BY <1>1, <1>3, <1>4, <1>5, <1>6, <1>7 DEF PromiseNext

\* An answer is the value that was published.
LEMMA GotStep ==
  PromiseTypeOK /\ ClaimInv /\ GotInv /\ [PromiseNext]_promise => GotInv'
  <1>. SUFFICES ASSUME PromiseTypeOK, ClaimInv, GotInv, [PromiseNext]_promise PROVE GotInv'
    OBVIOUS
  <1>. USE DEF PromiseTypeOK, GotInv
  <1>1. ASSUME NEW r \in Resolver, ResolverStep(r) PROVE GotInv'
    <2>1. CASE Resolve(r)
      BY <2>1 DEF Resolve, Move
    <2>2. CASE ResolveWrite(r) \/ ResolvePublish(r)
      BY <2>2 DEF ResolveWrite, ResolvePublish, Move, ClaimInv, Winning
    <2>3. CASE ResolveLock(r) \/ ResolveTake(r) \/ ResolveWake(r)
      BY <2>3 DEF ResolveLock, ResolveTake, ResolveWake, Move
    <2>4. CASE ResolveNotify(r)
      BY <2>4 DEF ResolveNotify, Move
    <2>5. QED
      BY <1>1, <2>1, <2>2, <2>3, <2>4 DEF ResolverStep
  <1>2. ASSUME NEW a \in Asker, AskerStep(a) PROVE GotInv'
    BY <1>2 DEF AskerStep, Ask, AskLock, AskLook, AskSleep, AskStirs
  <1>3. ASSUME NEW k \in Watcher, Poll(k) PROVE GotInv'
    BY <1>3 DEF Poll, Answered
  <1>4. CASE PollLock \/ PollRecheck
    BY <1>4 DEF PollLock, PollRecheck, Answered
  <1>5. CASE UNCHANGED promise
    BY <1>5 DEF promise
  <1>6. QED
    BY <1>1, <1>2, <1>3, <1>4, <1>5 DEF PromiseNext

\* Every step keeps the invariant of the promise.
LEMMA PromiseStep == PromiseInv /\ [PromiseNext]_promise => PromiseInv'
  BY PromiseTypes, ClaimStep, HeldStep, SleepStep, WatchStep, GotStep DEF PromiseInv

\* The strengthening holds of every run of the promise.
THEOREM PromiseInvariant == PromiseSpec => []PromiseInv
  BY PromiseStart, PromiseStep, PTL DEF PromiseSpec

\* One resolver wins, and every answer is its value.
THEOREM OneAnswer == PromiseSpec => []AnsweredOnce
  <1>1. PromiseInv => AnsweredOnce
    BY DEF PromiseInv, PromiseTypeOK, ClaimInv, GotInv, AnsweredOnce, Answers
  <1>2. QED
    BY <1>1, PromiseInvariant, PTL

\* After the winner's call nobody who waits was left out.
THEOREM NobodyWaitsForNothing == PromiseSpec => []NobodyIsLeft
  <1>1. PromiseInv => NobodyIsLeft
    BY DEF PromiseInv, ClaimInv, SleepInv, WatchInv, NobodyIsLeft, Winning
  <1>2. QED
    BY <1>1, PromiseInvariant, PTL

-----------------------------------------------------------------------------
(* The scopes *)

USE TreeAssumption, EpochAssumption

\* A node is on its own line.
LEMMA LineStarts == ASSUME NEW n \in Node PROVE n \in Line(n)
  BY DEF Line

\* A line goes up with its members.
LEMMA LineGoesUp ==
  ASSUME NEW n \in Node, NEW m \in Line(n), Parent[m] # NoNode
  PROVE  Parent[m] \in Line(n)
  <1>1. m \in Node /\ Parent[m] \in Node
    BY DEF Line
  <1>2. ASSUME NEW S \in SUBSET Node, n \in S, Upward(S) PROVE Parent[m] \in S
    BY <1>2 DEF Line, Upward
  <1>3. QED
    BY <1>1, <1>2 DEF Line

\* The line of the parent is within the line of the child.
LEMMA LineNests ==
  ASSUME NEW n \in Node, Parent[n] # NoNode
  PROVE  Parent[n] \in Node /\ Line(Parent[n]) \subseteq Line(n)
  BY DEF Line, Upward

\* There is nothing on a line but the node and what is on its parent's.
LEMMA LineSplits ==
  ASSUME NEW n \in Node, NEW a \in Line(n), a # n
  PROVE  Parent[n] # NoNode /\ a \in Line(Parent[n])
  <1>1. ASSUME Parent[n] = NoNode PROVE FALSE
    <2>1. Upward({n})
      BY <1>1 DEF Upward
    <2>2. QED
      BY <2>1 DEF Line
  <1>2. Parent[n] \in Node
    BY <1>1
  <1>. DEFINE S == {n} \cup Line(Parent[n])
  <1>3. S \in SUBSET Node
    BY DEF Line
  <1>4. Upward(S)
    BY <1>2, LineStarts, LineGoesUp DEF Upward
  <1>5. a \in S
    BY <1>3, <1>4 DEF Line
  <1>6. QED
    BY <1>1, <1>5

-----------------------------------------------------------------------------
\* The invariant holds in a new tree.
LEMMA ScopeStart == ScopeInit => ScopeInv
  <1>. SUFFICES ASSUME ScopeInit PROVE ScopeInv
    OBVIOUS
  <1>. PICK home \in [Reader -> Node] : reader = [r \in Reader |->
         [at |-> "idle", from |-> home[r], node |-> home[r], epoch |-> 0,
          control |-> "running", last |-> Blank]]
    BY DEF ScopeInit
  <1>1. Blank \in Word
    BY DEF Blank, Word, Modes
  <1>2. word \in [Node -> Word] /\ \A n \in Node : word[n].epoch \in 0..1
    <2>1. \A n \in Node : New(n) \in Word /\ New(n).epoch \in 0..1
      BY DEF New, Word, Modes
    <2>2. QED
      BY <2>1 DEF ScopeInit
  <1>3. controller \in [Controller -> ControllerState]
    BY <1>1 DEF ScopeInit, Resting, ControllerState, Modes
  <1>4. reader \in [Reader -> ReaderState]
    BY <1>1 DEF ReaderState, Modes
  <1>5. ScopeTypeOK
    BY <1>2, <1>3, <1>4 DEF ScopeTypeOK, ScopeInit
  <1>6. DrawnInv
    BY <1>2 DEF DrawnInv, ScopeInit, Resting, Blank
  <1>7. SeenInv
    BY <1>2, LineStarts DEF SeenInv, Blank, Reaches
  <1>8. QED
    BY <1>5, <1>6, <1>7 DEF ScopeInv

-----------------------------------------------------------------------------
WordsAdvance ==
  \A n \in Node : /\ word'[n].epoch >= word[n].epoch
                  /\ word[n].mode = "canceled" => word'[n].mode = "canceled"

\* What a transition does: types, the drawn epochs, and no word goes back.
LEMMA ControllerKeeps ==
  ASSUME ScopeTypeOK, DrawnInv, NEW c \in Controller,
         \/ \E n \in Node, mode \in Modes : Transition(c, n, mode)
         \/ Draw(c) \/ Swap(c)
  PROVE  ScopeTypeOK' /\ DrawnInv' /\ WordsAdvance
  <1>1. CASE \E n \in Node, mode \in Modes : Transition(c, n, mode)
    <2>. PICK n \in Node, mode \in Modes : Transition(c, n, mode)
      BY <1>1
    <2>. USE DEF Transition
    <2>1. Deciding(n, mode) \in ControllerState
      BY DEF Deciding, ScopeTypeOK, ControllerState, Word
    <2>2. ScopeTypeOK'
      BY <2>1 DEF ScopeTypeOK
    <2>3. DrawnInv'
      BY DEF DrawnInv, Deciding, ScopeTypeOK, Word
    <2>4. WordsAdvance
      BY DEF WordsAdvance, ScopeTypeOK, Word
    <2>5. QED
      BY <2>2, <2>3, <2>4
  <1>2. Resting \in ControllerState /\ Blank \in Word
    BY DEF Resting, Blank, ControllerState, Word, Modes
  <1>3. CASE Draw(c)
    <2>1. sequence' \in 1..MaxEpoch /\ sequence' >= sequence
      BY <1>3 DEF Draw, ScopeTypeOK
    <2>2. controller' \in [Controller -> ControllerState]
      BY <1>2, <1>3 DEF Draw, ScopeTypeOK, ControllerState
    <2>3. ScopeTypeOK'
      BY <1>3, <2>1, <2>2 DEF Draw, ScopeTypeOK
    <2>4. DrawnInv'
      BY <1>3, <2>1 DEF Draw, DrawnInv, ScopeTypeOK, ControllerState, Word, Resting, Blank
    <2>5. WordsAdvance
      BY <1>3 DEF Draw, WordsAdvance, ScopeTypeOK, Word
    <2>6. QED
      BY <2>3, <2>4, <2>5
  <1>4. CASE Swap(c)
    <2>. DEFINE n == controller[c].node
    <2>1. n \in Node /\ Installed(c) \in Word
      BY <1>4 DEF Swap, Installed, DrawnInv, ScopeTypeOK, ControllerState, Word
    <2>2. CASE word[n] = controller[c].seen
      <3>1. word' = [word EXCEPT ![n] = Installed(c)]
            /\ controller' = [controller EXCEPT ![c] = Resting] /\ UNCHANGED <<sequence, reader>>
        BY <1>4, <2>2 DEF Swap
      <3>2. ScopeTypeOK'
        BY <1>2, <2>1, <3>1 DEF ScopeTypeOK
      <3>3. DrawnInv'
        BY <1>4, <2>1, <3>1
           DEF Swap, DrawnInv, ScopeTypeOK, ControllerState, Word, Installed, Resting, Blank
      <3>4. WordsAdvance
        BY <1>4, <2>1, <2>2, <3>1
           DEF Swap, WordsAdvance, DrawnInv, ScopeTypeOK, ControllerState, Word, Installed
      <3>5. QED
        BY <3>2, <3>3, <3>4
    <2>3. CASE word[n] # controller[c].seen
      <3>1. /\ controller' = [controller EXCEPT ![c] = Deciding(n, controller[c].mode)]
            /\ UNCHANGED <<word, sequence, reader>>
        BY <1>4, <2>3 DEF Swap
      <3>2. ScopeTypeOK'
        <4>1. Deciding(n, controller[c].mode) \in ControllerState
          BY <2>1 DEF Deciding, ScopeTypeOK, ControllerState, Word
        <4>2. QED
          BY <3>1, <4>1 DEF ScopeTypeOK
      <3>3. DrawnInv'
        BY <1>4, <2>1, <3>1 DEF Swap, Deciding, DrawnInv, ScopeTypeOK, ControllerState, Word
      <3>4. WordsAdvance
        BY <3>1 DEF WordsAdvance, ScopeTypeOK, Word
      <3>5. QED
        BY <3>2, <3>3, <3>4
    <2>4. QED
      BY <2>2, <2>3
  <1>5. QED
    BY <1>1, <1>3, <1>4

\* What was seen stays when no word goes back.
LEMMA SeenStays ==
  ASSUME ScopeTypeOK, ScopeTypeOK', SeenInv, WordsAdvance, reader' = reader PROVE SeenInv'
  <1>1. ASSUME NEW n \in Node, NEW e \in Nat, Reaches(n, e) PROVE Reaches(n, e)'
    BY <1>1 DEF Reaches, Line, WordsAdvance, ScopeTypeOK, Word
  <1>2. ASSUME NEW n \in Node, Canceled(n) PROVE Canceled(n)'
    BY <1>2 DEF Canceled, Line, WordsAdvance
  <1>3. ASSUME NEW r \in Reader
        PROVE  /\ reader[r].from \in Node /\ reader[r].node \in Node
               /\ reader[r].last.epoch \in Nat /\ reader[r].epoch \in Nat
    BY DEF ScopeTypeOK, ReaderState, Word
  <1>4. \A n \in Node : Line(n)' = Line(n)
    BY DEF Line, Upward
  <1>5. QED
    BY <1>1, <1>2, <1>3, <1>4 DEF SeenInv

\* One step of a snapshot: what is on the rest of the line is still before it.
LEMMA VisitKeeps ==
  ASSUME ScopeInv, NEW r \in Reader, Visit(r)
  PROVE  /\ ScopeTypeOK' /\ SeenInv'
         /\ reader'[r].last.epoch >= reader[r].last.epoch
         /\ reader[r].last.mode = "canceled" => reader'[r].last.mode = "canceled"
  <1>. DEFINE q == reader[r]
              n == q.node
              epoch == Later(q.epoch, word[n].epoch)
              control == Stronger(q.control, word[n].mode)
  <1>. USE DEF ScopeInv
  <1>1. /\ q \in ReaderState /\ n \in Node /\ q.from \in Node /\ q.epoch \in 0..MaxEpoch
        /\ word[n] \in Word /\ word[n].epoch \in 0..MaxEpoch /\ q.last \in Word
        /\ q.last.epoch \in 0..MaxEpoch /\ word[n].mode \in Modes /\ q.control \in Modes
    BY DEF ScopeTypeOK, ReaderState, Word
  <1>2. /\ epoch \in 0..MaxEpoch /\ epoch >= q.epoch /\ epoch >= word[n].epoch
        /\ epoch \in {q.epoch, word[n].epoch}
    BY <1>1 DEF Later
  <1>3. /\ control \in Modes
        /\ control = "canceled" <=> "canceled" \in {q.control, word[n].mode}
    BY <1>1 DEF Stronger, Modes
  <1>4. Line(n) \subseteq Line(q.from) /\ n \in Line(q.from)
    BY <1>1, LineStarts DEF SeenInv
  <1>5. Reaches(q.from, epoch)
    BY <1>1, <1>2, <1>4 DEF SeenInv, Reaches
  <1>6. control = "canceled" => Canceled(q.from)
    BY <1>3, <1>4 DEF SeenInv, Canceled
  <1>7. epoch >= q.last.epoch \/ (Parent[n] # NoNode /\ Reaches(Parent[n], q.last.epoch))
    <2>1. CASE q.epoch >= q.last.epoch
      BY <1>1, <1>2, <2>1
    <2>2. CASE Reaches(n, q.last.epoch)
      <3>. PICK a \in Line(n) : word[a].epoch >= q.last.epoch
        BY <2>2 DEF Reaches
      <3>1. CASE a = n
        BY <1>1, <1>2, <3>1
      <3>2. CASE a # n
        BY <1>1, <3>2, LineSplits DEF Reaches
      <3>3. QED
        BY <3>1, <3>2
    <2>3. QED
      BY <2>1, <2>2 DEF SeenInv
  <1>8. q.last.mode = "canceled" =>
          control = "canceled" \/ (Parent[n] # NoNode /\ Canceled(Parent[n]))
    <2>1. SUFFICES ASSUME q.last.mode = "canceled", Canceled(n)
                   PROVE control = "canceled" \/ (Parent[n] # NoNode /\ Canceled(Parent[n]))
      BY <1>3 DEF SeenInv
    <2>. PICK a \in Line(n) : word[a].mode = "canceled"
      BY <2>1 DEF Canceled
    <2>2. CASE a = n
      BY <1>3, <2>2
    <2>3. CASE a # n
      BY <1>1, <2>3, LineSplits DEF Canceled
    <2>4. QED
      BY <2>2, <2>3
  <1>. DEFINE Settled(p) == /\ p \in ReaderState
                            /\ Line(p.node) \subseteq Line(p.from)
                            /\ Reaches(p.from, p.last.epoch) /\ Reaches(p.from, p.epoch)
                            /\ "canceled" \in {p.last.mode, p.control} => Canceled(p.from)
                            /\ p.epoch >= p.last.epoch \/ Reaches(p.node, p.last.epoch)
                            /\ p.last.mode = "canceled" =>
                                 p.control = "canceled" \/ Canceled(p.node)
  <1>9. ASSUME NEW p, Settled(p), reader' = [reader EXCEPT ![r] = p]
        PROVE  ScopeTypeOK' /\ SeenInv'
    <2>1. UNCHANGED <<sequence, word, controller>>
      BY DEF Visit
    <2>2. ScopeTypeOK'
      BY <1>9, <2>1 DEF ScopeTypeOK
    <2>3. SeenInv'
      BY <1>9, <2>1 DEF SeenInv, ScopeTypeOK, Reaches, Canceled
    <2>4. QED
      BY <2>2, <2>3
  <1>10. CASE Parent[n] # NoNode
    <2>. DEFINE p == [at |-> q.at, from |-> q.from, node |-> Parent[n], epoch |-> epoch,
                      control |-> control, last |-> q.last]
    <2>1. reader' = [reader EXCEPT ![r] = p]
      BY <1>1, <1>10 DEF Visit, ReaderState
    <2>2. Parent[n] \in Node /\ Line(Parent[n]) \subseteq Line(q.from)
      BY <1>1, <1>4, <1>10, LineNests
    <2>3. p \in ReaderState
      BY <1>1, <1>2, <1>3, <2>2 DEF ReaderState
    <2>4. Settled(p)
      BY <1>5, <1>6, <1>7, <1>8, <2>2, <2>3 DEF SeenInv
    <2>5. reader'[r].last = q.last
      BY <2>1 DEF ScopeTypeOK
    <2>6. QED
      <3>. HIDE DEF p, Settled
      <3>1. ScopeTypeOK' /\ SeenInv'
        BY <1>9, <2>1, <2>4
      <3>2. QED
        BY <1>1, <2>5, <3>1
  <1>11. CASE Parent[n] = NoNode
    <2>. DEFINE p == [at |-> "idle", from |-> q.from, node |-> q.from, epoch |-> 0,
                      control |-> "running", last |-> [epoch |-> epoch, mode |-> control]]
    <2>1. reader' = [reader EXCEPT ![r] = p]
      BY <1>11 DEF Visit
    <2>2. p \in ReaderState
      BY <1>1, <1>2, <1>3 DEF ReaderState, Word, Modes
    <2>3. Reaches(q.from, 0)
      BY <1>1, <1>4 DEF Reaches
    <2>4. Settled(p)
      BY <1>5, <1>6, <2>2, <2>3
    <2>5. reader'[r].last = [epoch |-> epoch, mode |-> control]
      BY <2>1 DEF ScopeTypeOK
    <2>6. QED
      <3>. HIDE DEF p, Settled
      <3>1. ScopeTypeOK' /\ SeenInv'
        BY <1>9, <2>1, <2>4
      <3>2. QED
        BY <1>7, <1>8, <1>11, <2>5, <3>1
  <1>12. QED
    BY <1>10, <1>11

\* Every step keeps the invariant, and no snapshot goes back.
LEMMA ScopeStep ==
  ScopeInv /\ [ScopeNext]_scopes =>
    /\ ScopeInv'
    /\ \A r \in Reader :
         /\ reader'[r].last.epoch >= reader[r].last.epoch
         /\ reader[r].last.mode = "canceled" => reader'[r].last.mode = "canceled"
  <1>. DEFINE Forward ==
         \A r \in Reader :
           /\ reader'[r].last.epoch >= reader[r].last.epoch
           /\ reader[r].last.mode = "canceled" => reader'[r].last.mode = "canceled"
  <1>. SUFFICES ASSUME ScopeInv, [ScopeNext]_scopes PROVE ScopeInv' /\ Forward
    OBVIOUS
  <1>. USE DEF ScopeInv
  <1>1. reader' = reader => Forward
    BY DEF ScopeTypeOK, ReaderState, Word
  <1>2. ASSUME NEW c \in Controller,
               \/ \E n \in Node, mode \in Modes : Transition(c, n, mode)
               \/ Draw(c) \/ Swap(c)
        PROVE  ScopeInv' /\ Forward
    <2>1. reader' = reader
      BY <1>2 DEF Transition, Draw, Swap
    <2>2. QED
      BY <1>1, <1>2, <2>1, ControllerKeeps, SeenStays
  <1>3. ASSUME UNCHANGED <<sequence, word, controller>> PROVE DrawnInv'
    BY <1>3 DEF DrawnInv
  <1>4. ASSUME NEW r \in Reader, Snapshot(r) PROVE ScopeInv' /\ Forward
    <2>. USE <1>4 DEF Snapshot
    <2>1. ScopeTypeOK'
      BY DEF ScopeTypeOK, ReaderState
    <2>2. \A s \in Reader : /\ reader'[s].from = reader[s].from
                            /\ reader'[s].node = reader[s].node
                            /\ reader'[s].epoch = reader[s].epoch
                            /\ reader'[s].control = reader[s].control
                            /\ reader'[s].last = reader[s].last
      BY DEF ScopeTypeOK
    <2>3. SeenInv'
      <3>1. ASSUME NEW n \in Node, NEW e
            PROVE  Line(n)' = Line(n) /\ Reaches(n, e)' = Reaches(n, e)
                   /\ Canceled(n)' = Canceled(n)
        BY DEF Line, Upward, Reaches, Canceled
      <3>2. \A s \in Reader : reader[s].from \in Node /\ reader[s].node \in Node
        BY DEF ScopeTypeOK, ReaderState
      <3>3. QED
        BY <2>2, <3>1, <3>2 DEF SeenInv
    <2>4. Forward
      BY <2>2 DEF ScopeTypeOK, ReaderState, Word
    <2>5. QED
      BY <1>3, <2>1, <2>3, <2>4
  <1>5. ASSUME NEW r \in Reader, Visit(r) PROVE ScopeInv' /\ Forward
    <2>1. \A s \in Reader \ {r} : reader'[s] = reader[s]
      BY <1>5 DEF Visit, ScopeTypeOK
    <2>2. \A s \in Reader : reader[s].last.epoch \in Nat
      BY DEF ScopeTypeOK, ReaderState, Word
    <2>3. Forward
      <3>1. ASSUME NEW s \in Reader \ {r}
            PROVE  /\ reader'[s].last.epoch >= reader[s].last.epoch
                   /\ reader'[s].last.mode = reader[s].last.mode
        BY <2>1, <2>2
      <3>2. QED
        BY <1>5, <3>1, VisitKeeps
    <2>4. QED
      BY <1>3, <1>5, <2>3, VisitKeeps DEF Visit
  <1>6. CASE UNCHANGED scopes
    <2>1. ScopeTypeOK' /\ DrawnInv'
      BY <1>3, <1>6 DEF scopes, ScopeTypeOK
    <2>2. WordsAdvance
      BY <1>6 DEF scopes, WordsAdvance, ScopeTypeOK, Word
    <2>3. QED
      BY <1>1, <1>6, <2>1, <2>2, SeenStays DEF scopes
  <1>7. QED
    BY <1>2, <1>4, <1>5, <1>6 DEF ScopeNext

\* The strengthening holds of every run of the scopes.
THEOREM ScopeInvariant == ScopeSpec => []ScopeInv
  <1>1. ScopeInv /\ [ScopeNext]_scopes => ScopeInv'
    BY ScopeStep
  <1>2. QED
    BY <1>1, ScopeStart, PTL DEF ScopeSpec

\* Snapshots go forward.
THEOREM NoSnapshotGoesBack == ScopeSpec => SnapshotsAdvance
  <1>1. ScopeInv /\ [ScopeNext]_scopes =>
          [\A r \in Reader :
             /\ reader'[r].last.epoch >= reader[r].last.epoch
             /\ reader[r].last.mode = "canceled" => reader'[r].last.mode = "canceled"]_scopes
    BY ScopeStep
  <1>2. QED
    BY <1>1, ScopeInvariant, PTL DEF ScopeSpec, SnapshotsAdvance

-----------------------------------------------------------------------------
(* The four together *)

(* A step of one part is a step of its mechanism and of no other.          *)
LEMMA KcoroStep ==
  ASSUME [RingPart \/ ExecutorPart \/ PromisePart \/ ScopePart]_<<part, vars, executor, promise, scopes>>
  PROVE  [Next]_vars /\ [ExecutorNext]_executor /\ [PromiseNext]_promise /\ [ScopeNext]_scopes
BY DEF RingPart, ExecutorPart, PromisePart, ScopePart

(* Sound: a behaviour of any part keeps the invariants of all four.        *)
THEOREM KcoroSound == KcoroSpec => []Sound
<1>1. KcoroInit => Sound
  BY InitIInv, Initially, PromiseStart, ScopeStart DEF KcoroInit, Sound
<1>2. Sound /\ [RingPart \/ ExecutorPart \/ PromisePart \/ ScopePart]_<<part, vars, executor, promise, scopes>>
        => Sound'
  BY KcoroStep, RingStep, ExecutorInvKept, PromiseStep, ScopeStep DEF Sound
<1> QED
  BY <1>1, <1>2, PTL DEF KcoroSpec
=============================================================================
