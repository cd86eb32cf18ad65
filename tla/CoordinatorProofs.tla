-------------------------- MODULE CoordinatorProofs --------------------------
(***************************************************************************)
(* Proofs about a pass of the native engine, for any capacity of the       *)
(* bridge, any number of descriptors, slots, generations and passes: the   *)
(* invariant PassInv of Coordinator is inductive, no step of pass, stop    *)
(* and teardown aborts, the borrow of the caller's tensors ends with the   *)
(* call, and the threads keep the contract of the crew.  With TeamProofs   *)
(* the same of MCKernel, where both halves of the kernel are together.     *)
(*                                                                         *)
(* The parts of PassInv are proved one by one, each from those it needs.   *)
(***************************************************************************)
EXTENDS MCKernel, TeamProofs, SequenceTheorems

-----------------------------------------------------------------------------
(* The bridge's steps keep its types.                                      *)

(* Every count uses one of the cells.                                      *)
LEMMA CellOf ==
  ASSUME NEW n \in Nat
  PROVE  n % Capacity \in B!Cell
BY CapacityAssumption, SMT DEF B!Cell

(* A stack, its last element off, is one shorter and otherwise the same.   *)
LEMMA PopProperties ==
  ASSUME NEW S, NEW s \in Seq(S), s # <<>>
  PROVE  LET n == Len(s)
             rest == SubSeq(s, 1, n - 1)
         IN  /\ n \in Nat \ {0} /\ n \in 1..n /\ s[n] \in S
             /\ rest \in Seq(S) /\ Len(rest) = n - 1
             /\ \A i \in 1..n - 1 : i \in 1..n /\ rest[i] = s[i]
<1> DEFINE n == Len(s)
<1>1. n \in Nat \ {0}
  BY EmptySeq
<1>2. n \in 1..n /\ \A i \in 1..n - 1 : i \in 1..n
  BY <1>1
<1>3. \A i \in 1..n : s[i] \in S
  BY ElementOfSeq
<1> HIDE DEF n
<1>4. \A i \in 1..n - 1 : s[i] \in S
  BY <1>1, <1>3
<1>5. /\ SubSeq(s, 1, n - 1) \in Seq(S) /\ Len(SubSeq(s, 1, n - 1)) = n - 1
      /\ \A i \in 1..n - 1 : SubSeq(s, 1, n - 1)[i] = s[i]
  BY <1>1, <1>4, SubSeqProperties
<1> QED
  BY <1>1, <1>2, <1>3, <1>5 DEF n

(* Each step of the bridge keeps its types; the cursors and counts are only *)
(* typed here, what bounds them is in the invariants.                      *)
LEMMA EnterTyped == B!TypeOK /\ B!Enter => B!TypeOK'
BY DEF B!TypeOK, B!AdmissionTypes, B!RingsTypes, B!TableTypes, B!WaitsTypes,
       B!Enter, B!rings, B!table, B!waits

LEMMA LeaveTyped ==
  ASSUME B!AdmissionTypes, B!RingsTypes, B!WaitsTypes, B!TableTypes', aborted \in BOOLEAN,
         NEW bells \in SUBSET B!Bell, B!LeaveAfter(bells), entered > 0
  PROVE  B!TypeOK'
BY DEF B!TypeOK, B!AdmissionTypes, B!RingsTypes, B!WaitsTypes, B!LeaveAfter, B!rings

LEMMA CreateTyped ==
  ASSUME B!TypeOK, B!CreateAndLeave, entered > 0,
         \A n \in 1..Len(free) : descriptors[free[n]].generation # MaxGeneration
  PROVE  B!TypeOK'
<1>1. CASE free = <<>>
  BY <1>1, LeaveTyped DEF B!CreateAndLeave, B!TypeOK, B!TableTypes, B!table
<1>2. CASE free # <<>>
  <2> DEFINE d == free[Len(free)]
  <2>1. d \in 1..Descriptors /\ Len(free) \in 1..Len(free)
    BY <1>2, PopProperties DEF B!TypeOK, B!TableTypes
  <2>t. descriptors[d] \in B!DescriptorSlot
    BY <2>1 DEF B!TypeOK, B!TableTypes
  <2>2. descriptors[d].generation \in 0..MaxGeneration /\ descriptors[d].generation # MaxGeneration
    BY <2>1, <2>t DEF B!DescriptorSlot
  <2>3. descriptors[d].generation + 1 \in 0..MaxGeneration
    BY <2>2, GenerationAssumption
  <2>4. [generation |-> descriptors[d].generation + 1, refs |-> 1, state |-> "live"] \in B!DescriptorSlot
    BY <2>3 DEF B!DescriptorSlot
  <2>5. descriptors' \in [1..Descriptors -> B!DescriptorSlot]
    BY <1>2, <2>1, <2>4 DEF B!TypeOK, B!TableTypes, B!CreateAndLeave, B!NextId
  <2>6. free' \in Seq(1..Descriptors)
    BY <1>2, PopProperties DEF B!TypeOK, B!TableTypes, B!CreateAndLeave
  <2> QED
    BY <2>5, <2>6, LeaveTyped DEF B!TypeOK, B!TableTypes, B!CreateAndLeave
<1> QED
  BY <1>1, <1>2

LEMMA ReleaseTyped ==
  ASSUME B!TypeOK, NEW i \in B!Id, B!Release(i)
  PROVE  B!TypeOK'
<1>1. /\ B!AdmissionTypes' /\ B!RingsTypes' /\ B!WaitsTypes'
      /\ aborted' \in BOOLEAN
  BY DEF B!TypeOK, B!AdmissionTypes, B!RingsTypes, B!WaitsTypes, B!Release,
         B!admission, B!rings, B!waits
<1>2. CASE ~B!Matches(i)
  BY <1>1, <1>2 DEF B!TypeOK, B!TableTypes, B!Release, B!table
<1>3. CASE B!Matches(i)
  <2>1. i.slot \in 1..Descriptors
    BY <1>3 DEF B!Matches, B!Id
  <2>2. descriptors[i.slot] \in B!DescriptorSlot /\ descriptors[i.slot].refs # 0
    BY <1>3, <2>1 DEF B!TypeOK, B!TableTypes, B!Matches
  <2>3. descriptors[i.slot].refs - 1 \in Nat
    BY <2>2 DEF B!DescriptorSlot
  <2>4. \A s \in {"free", "live", "retired"} :
          [generation |-> descriptors[i.slot].generation, refs |-> descriptors[i.slot].refs - 1,
           state |-> s] \in B!DescriptorSlot
    BY <2>2, <2>3 DEF B!DescriptorSlot
  <2>5. descriptors' \in [1..Descriptors -> B!DescriptorSlot]
    BY <1>3, <2>1, <2>4 DEF B!TypeOK, B!TableTypes, B!Release
  <2>6. free' = free \/ free' = Append(free, i.slot)
    BY <1>3 DEF B!Release
  <2>7. free' \in Seq(1..Descriptors)
    <3>1. free \in Seq(1..Descriptors)
      BY DEF B!TypeOK, B!TableTypes
    <3>2. Append(free, i.slot) \in Seq(1..Descriptors)
      BY <2>1, <3>1, AppendProperties
    <3> QED
      BY <2>6, <3>1, <3>2
  <2> QED
    BY <1>1, <2>5, <2>7 DEF B!TypeOK, B!TableTypes
<1> QED
  BY <1>2, <1>3

LEMMA SubmitTyped ==
  ASSUME B!TypeOK, NEW t \in Nat, NEW i \in B!Id, B!Submit(t, i)
  PROVE  B!TypeOK'
<1>1. i.slot \in 1..Descriptors /\ sq.tail % Capacity \in B!Cell
  BY CellOf DEF B!Submit, B!Matches, B!TypeOK, B!RingsTypes, B!Id
<1>2. [descriptors[i.slot] EXCEPT !.refs = @ + 1] \in B!DescriptorSlot
  BY <1>1 DEF B!TypeOK, B!TableTypes, B!DescriptorSlot
<1>3. B!TableTypes'
  BY <1>1, <1>2 DEF B!TypeOK, B!TableTypes, B!Submit, B!Retained
<1>4. B!RingsTypes'
  BY <1>1 DEF B!TypeOK, B!RingsTypes, B!Submit, B!Record
<1> QED
  BY <1>3, <1>4 DEF B!TypeOK, B!AdmissionTypes, B!WaitsTypes, B!Submit, B!admission, B!waits

LEMMA PublishTyped ==
  ASSUME B!TypeOK, NEW t \in Nat, B!Publish(t)
  PROVE  B!TypeOK'
<1>1. cq.tail % Capacity \in B!Cell
  BY CellOf DEF B!TypeOK, B!RingsTypes
<1>2. B!RingsTypes'
  BY <1>1 DEF B!TypeOK, B!RingsTypes, B!Publish
<1> QED
  BY <1>2 DEF B!TypeOK, B!AdmissionTypes, B!TableTypes, B!WaitsTypes, B!Publish,
              B!admission, B!table, B!waits

LEMMA EdgeTyped ==
  ASSUME B!TypeOK, NEW bell \in B!Bell, B!EdgeStep(bell)
  PROVE  B!TypeOK'
<1>1. /\ B!AdmissionTypes' /\ B!TableTypes'
      /\ aborted' \in BOOLEAN
  BY DEF B!TypeOK, B!AdmissionTypes, B!TableTypes, B!EdgeStep, B!Load, B!Look, B!Wait,
         B!admission, B!table
<1>2. edge' \in [B!Bell -> {"load", "look", "wait", "taken", "canceled"}] /\ rung' \in SUBSET B!Bell
  BY DEF B!TypeOK, B!WaitsTypes, B!EdgeStep, B!Load, B!Look, B!Wait, B!EdgeTo
<1>3. CASE UNCHANGED <<taken, B!rings>>
  BY <1>1, <1>2, <1>3 DEF B!TypeOK, B!RingsTypes, B!WaitsTypes, B!rings
<1>4. CASE B!TakeRecord(bell) /\ UNCHANGED <<submissions, completions>>
  <2>1. sq.head % Capacity \in B!Cell /\ cq.head % Capacity \in B!Cell
    BY CellOf DEF B!TypeOK, B!RingsTypes
  <2>2. B!NoId \in B!Id
    BY DescriptorsAssumption DEF B!NoId, B!Id
  <2>3. B!RingsTypes'
    BY <1>4, <2>1, <2>2 DEF B!TypeOK, B!RingsTypes, B!TakeRecord
  <2>4. taken' \in [B!Bell -> B!Record]
    BY <1>4, <2>1 DEF B!TypeOK, B!RingsTypes, B!WaitsTypes, B!TakeRecord, B!Record
  <2> QED
    BY <1>1, <1>2, <2>3, <2>4 DEF B!TypeOK, B!WaitsTypes
<1> QED
  BY <1>3, <1>4 DEF B!EdgeStep, B!Load, B!Look, B!Wait, B!rings

LEMMA OthersTyped ==
  ASSUME B!TypeOK, NEW bell \in B!Bell,
         B!RequestStop \/ B!Ring(bell) \/ B!WaitAgain(bell) \/ B!Destroy
  PROVE  B!TypeOK'
BY DEF B!TypeOK, B!AdmissionTypes, B!RingsTypes, B!TableTypes, B!WaitsTypes,
       B!RequestStop, B!Ring, B!WaitAgain, B!Destroy, B!EdgeTo,
       B!admission, B!rings, B!table, B!waits
-----------------------------------------------------------------------------
(* The types of the threads' variables.                                    *)

(* A thread goes from one of its places to another.                        *)
LEMMA PlacesNext ==
  ASSUME pc \in [Thread -> Places], Next
  PROVE  pc' \in [Thread -> Places]
<1> USE DEF Move, Thread, Places, coordinator
<1>1. CASE Begin \/ Drop \/ StopFromOutside
  BY <1>1 DEF Begin, Drop, StopFromOutside
<1>2. CASE Client
  BY <1>2 DEF Client, ClientEnter, CreateDescriptor, Acquire, Send, Await, Awaken, FreeSlot,
              ReleaseDescriptor
<1>3. CASE Broker
  BY <1>3 DEF Broker, Receive, BeginJob, SubmitEnter, SubmitRecord, SubmitLeave, Refused,
              PollEdge, Repoll, Finish, FinishClaim, FinishStore, FinishReady, AfterFinish,
              BrokerStop, RequestStop
<1>4. CASE Ingress
  BY <1>4 DEF Ingress, IngressWait, Match, Finish, FinishClaim, FinishStore, FinishReady,
              AfterFinish, Bump, IngressWake, IngressStop, RequestStop
<1>5. CASE Dispatcher \/ LaneTeam
  BY <1>5 DEF Dispatcher, DispatcherWait, Dispatch, Reject, RejectRing, LaneTeam
<1>6. CASE OwnerStop \/ JoinIngress \/ Bump("owner") \/ OwnerWake
  BY <1>6 DEF OwnerStop, RequestStop, JoinIngress, Bump, OwnerWake
<1>7. CASE JoinBroker \/ JoinDispatcher \/ DestroyBridge
  BY <1>7 DEF JoinBroker, JoinDispatcher, DestroyBridge
<1> QED
  BY <1>1, <1>2, <1>3, <1>4, <1>5, <1>6, <1>7 DEF Next, Owner

(* The crew stays of its type.                                             *)
LEMMA CrewTypesNext ==
  ASSUME C!TypeOK, Next
  PROVE  C!TypeOK'
<1> USE DEF C!TypeOK, team, coordinator
<1>1. CASE Begin \/ Drop \/ StopFromOutside
  BY <1>1 DEF Begin, Drop, StopFromOutside
<1>2. CASE Client
  BY <1>2 DEF Client, ClientEnter, CreateDescriptor, Acquire, Send, Await, Awaken, FreeSlot,
              ReleaseDescriptor
<1>3. CASE Broker
  BY <1>3 DEF Broker, Receive, BeginJob, SubmitEnter, SubmitRecord, SubmitLeave, Refused,
              PollEdge, Repoll, Finish, FinishClaim, FinishStore, FinishReady, BrokerStop
<1>4. CASE Ingress
  BY <1>4 DEF Ingress, IngressWait, Match, Finish, FinishClaim, FinishStore, FinishReady,
              Bump, IngressWake, IngressStop
<1>5. CASE Dispatcher
  BY <1>5 DEF Dispatcher, DispatcherWait, Dispatch, Reject, RejectRing
<1>6. CASE LaneTeam
  BY <1>6 DEF LaneTeam, C!Start, C!Land, C!Go, C!Publish, C!Ring
<1>7. CASE Owner
  BY <1>7 DEF Owner, OwnerStop, JoinIngress, Bump, OwnerWake, JoinBroker, JoinDispatcher,
              DestroyBridge
<1> QED
  BY <1>1, <1>2, <1>3, <1>4, <1>5, <1>6, <1>7 DEF Next

(* The flags, and the edge between ingress and broker, stay booleans.      *)
LEMMA FlagTypesNext ==
  ASSUME FlagTypes, Next
  PROVE  FlagTypes'
<1> USE DEF FlagTypes, flags, doorway, coordinator
<1>1. CASE Begin \/ Client \/ Drop \/ StopFromOutside
  BY <1>1 DEF Begin, Drop, StopFromOutside, Client, ClientEnter, CreateDescriptor, Acquire,
              Send, Await, Awaken, FreeSlot, ReleaseDescriptor
<1>2. CASE Broker
  BY <1>2 DEF Broker, Receive, BeginJob, SubmitEnter, SubmitRecord, SubmitLeave, Refused,
              PollEdge, Repoll, Finish, FinishClaim, FinishStore, FinishReady, BrokerStop,
              RequestStop
<1>3. CASE Ingress
  BY <1>3 DEF Ingress, IngressWait, Match, Finish, FinishClaim, FinishStore, FinishReady,
              Bump, IngressWake, IngressStop, RequestStop, WakeBroker
<1>4. CASE Dispatcher \/ LaneTeam
  BY <1>4 DEF Dispatcher, DispatcherWait, Dispatch, Reject, RejectRing, LaneTeam
<1>5. CASE Owner
  BY <1>5 DEF Owner, OwnerStop, JoinIngress, Bump, OwnerWake, JoinBroker, JoinDispatcher,
              DestroyBridge, RequestStop, WakeBroker
<1> QED
  BY <1>1, <1>2, <1>3, <1>4, <1>5 DEF Next

(* A pushed element that was not there leaves a stack's elements distinct. *)
LEMMA PushProperties ==
  ASSUME NEW S, NEW s \in Seq(S), NEW e \in S,
         \A m, n \in 1..Len(s) : s[m] = s[n] => m = n,
         \A n \in 1..Len(s) : s[n] # e
  PROVE  LET t == Append(s, e)
         IN  /\ t \in Seq(S) /\ Len(t) = Len(s) + 1
             /\ \A n \in 1..Len(t) : (n \in 1..Len(s) /\ t[n] = s[n]) \/ t[n] = e
             /\ \A m, n \in 1..Len(t) : t[m] = t[n] => m = n
<1> DEFINE t == Append(s, e)
<1>1. Len(s) \in Nat
  BY LenProperties
<1>2. /\ t \in Seq(S) /\ Len(t) = Len(s) + 1
      /\ \A n \in 1..Len(s) : t[n] = s[n]
      /\ t[Len(s) + 1] = e
  BY AppendProperties
<1> HIDE DEF t
<1>3. \A n \in 1..Len(t) : n \in 1..Len(s) \/ n = Len(s) + 1
  BY <1>1, <1>2
<1>4. \A n \in 1..Len(t) : (n \in 1..Len(s) /\ t[n] = s[n]) \/ t[n] = e
  BY <1>2, <1>3
<1>5. \A m, n \in 1..Len(t) : t[m] = t[n] => m = n
  BY <1>2, <1>3
<1> QED
  BY <1>2, <1>4, <1>5 DEF t

(* The interval from 1 to n has n elements.                                *)
LEMMA Counted ==
  ASSUME NEW n \in Nat
  PROVE  Cardinality(1..n) = n
BY FS_Interval

(* Distinct slots that are not all of them leave room for one more.        *)
LEMMA PushFits ==
  ASSUME NEW s \in Seq(Slot), NEW e \in Slot,
         \A m, n \in 1..Len(s) : s[m] = s[n] => m = n,
         \A n \in 1..Len(s) : s[n] # e
  PROVE  Len(s) < Slots
<1>1. Len(s) \in Nat /\ s \in [1..Len(s) -> Slot]
  BY LenProperties
<1>2. s \in Injection(1..Len(s), Slot \ {e})
  BY <1>1 DEF Injection, IsInjective
<1>3. IsFiniteSet(Slot) /\ Cardinality(Slot) = Slots
  BY SlotsAssumption, FS_Interval DEF Slot
<1>4. IsFiniteSet(Slot \ {e}) /\ Cardinality(Slot \ {e}) = Slots - 1
  BY <1>3, FS_RemoveElement
<1>5. Cardinality(1..Len(s)) <= Cardinality(Slot \ {e})
  BY <1>2, <1>4, FS_Injection
<1>6. Cardinality(1..Len(s)) = Len(s)
  BY <1>1, Counted
<1> QED
  BY <1>1, <1>4, <1>5, <1>6, SlotsAssumption

(* The client's slot, put back, is on the list once.                       *)
LEMMA RecycledList ==
  ASSUME TypeOK, SlotsInv, pc["client"] \in {"send", "await", "asleep", "free"}
  PROVE  /\ Recycled \in Seq(Slot) /\ Len(Recycled) <= Slots
         /\ \A n \in 1..Len(Recycled) :
              \/ n \in 1..Len(freeSlots) /\ Recycled[n] = freeSlots[n]
              \/ Recycled[n] = key.slot /\ key.generation # MaxGeneration
         /\ \A m, n \in 1..Len(Recycled) : Recycled[m] = Recycled[n] => m = n
<1>1. freeSlots \in Seq(Slot) /\ Len(freeSlots) <= Slots /\ key.slot \in Slot
  BY DEF TypeOK, ClientTypes, BoardTypes, Key
<1>2. /\ \A n \in 1..Len(freeSlots) : freeSlots[n] # key.slot
      /\ \A m, n \in 1..Len(freeSlots) : freeSlots[m] = freeSlots[n] => m = n
  BY DEF SlotsInv
<1>3. CASE key.generation = MaxGeneration
  BY <1>1, <1>2, <1>3 DEF Recycled
<1>4. CASE key.generation # MaxGeneration
  <2> DEFINE s == Append(freeSlots, key.slot)
  <2>1. /\ s \in Seq(Slot) /\ Len(s) = Len(freeSlots) + 1
        /\ \A n \in 1..Len(s) : (n \in 1..Len(freeSlots) /\ s[n] = freeSlots[n]) \/ s[n] = key.slot
        /\ \A m, n \in 1..Len(s) : s[m] = s[n] => m = n
    BY <1>1, <1>2, PushProperties
  <2>2. Len(freeSlots) < Slots
    BY <1>1, <1>2, PushFits
  <2>3. Recycled = s
    BY <1>4 DEF Recycled
  <2>4. Len(s) <= Slots
    BY <1>1, <2>1, <2>2, LenProperties, SlotsAssumption
  <2> HIDE DEF s
  <2> QED
    BY <1>4, <2>1, <2>3, <2>4
<1> QED
  BY <1>3, <1>4

(* The slot the client takes is on the list, and has a next generation.    *)
LEMMA NewKeyTyped ==
  ASSUME TypeOK, SlotsInv, freeSlots # <<>>
  PROVE  LET rest == SubSeq(freeSlots, 1, Len(freeSlots) - 1)
         IN  /\ NewKey \in Key /\ NewKey.slot = freeSlots[Len(freeSlots)]
             /\ Len(freeSlots) \in 1..Len(freeSlots)
             /\ rest \in Seq(Slot) /\ Len(rest) = Len(freeSlots) - 1 /\ Len(rest) <= Slots
             /\ \A n \in 1..Len(rest) : n \in 1..Len(freeSlots) /\ rest[n] = freeSlots[n]
             /\ \A n \in 1..Len(rest) : rest[n] # NewKey.slot
<1> DEFINE m == Len(freeSlots)
           rest == SubSeq(freeSlots, 1, m - 1)
<1>1. freeSlots \in Seq(Slot) /\ m <= Slots
  BY DEF TypeOK, BoardTypes
<1>2. /\ m \in Nat \ {0} /\ m \in 1..m /\ freeSlots[m] \in Slot
      /\ rest \in Seq(Slot) /\ Len(rest) = m - 1
      /\ \A i \in 1..m - 1 : i \in 1..m /\ rest[i] = freeSlots[i]
  BY <1>1, PopProperties
<1> HIDE DEF rest
<1>3. \A i \in 1..m - 1 : rest[i] # freeSlots[m]
  <2>1. \A i \in 1..m - 1 : i # m
    BY <1>2
  <2> QED
    BY <1>2, <2>1 DEF SlotsInv
<1>4. slots[freeSlots[m]] \in SlotState /\ slots[freeSlots[m]].generation # MaxGeneration
  BY <1>2 DEF TypeOK, BoardTypes, SlotsInv
<1>8. slots[freeSlots[m]].generation \in 0..MaxGeneration
  BY <1>4 DEF SlotState
<1>5. slots[freeSlots[m]].generation + 1 \in 0..MaxGeneration
  BY <1>4, <1>8, GenerationAssumption
<1>6. NewKey \in Key /\ NewKey.slot = freeSlots[m]
  BY <1>2, <1>5 DEF NewKey, Key
<1>7. m - 1 <= Slots
  BY <1>1, <1>2, SlotsAssumption
<1> QED
  BY <1>2, <1>3, <1>6, <1>7 DEF rest

(* The client's descriptor, slot and answer stay of their types.           *)
LEMMA ClientTypesNext ==
  ASSUME TypeOK, SlotsInv, Next
  PROVE  ClientTypes'
<1> USE DEF ClientTypes
<1>0. ClientTypes /\ slots \in [Slot -> SlotState]
  BY DEF TypeOK, BoardTypes
<1>1. Result = -2..MaxPass /\ MaxPass \in Nat
  BY MaxPassAssumption DEF Result, Busy
<1>2. Failed \in Result /\ 0 \in Result
  BY <1>1 DEF Failed
<1>3. CASE Begin
  <2>1. ticket + 1 \in 0..MaxPass
    BY <1>0, <1>1, <1>3 DEF Begin
  <2>2. B!NoId \in B!Id
    BY DescriptorsAssumption DEF B!NoId, B!Id
  <2> QED
    BY <1>0, <1>2, <1>3, <2>1, <2>2 DEF Begin
<1>4. CASE ClientEnter \/ Send
  BY <1>0, <1>2, <1>4 DEF ClientEnter, Send
<1>5. CASE CreateDescriptor
  <2>1. CASE free = <<>>
    BY <1>0, <1>2, <1>5, <2>1 DEF CreateDescriptor
  <2>2. CASE free # <<>>
    <3> DEFINE d == free[Len(free)]
    <3>1. d \in 1..Descriptors /\ descriptors[d] \in B!DescriptorSlot
      BY <2>2, PopProperties DEF TypeOK, B!TypeOK, B!TableTypes
    <3>2. descriptors[d].generation + 1 \in Nat
      BY <3>1, GenerationAssumption DEF B!DescriptorSlot
    <3>3. B!NextId \in B!Id
      BY <3>1, <3>2, DescriptorsAssumption DEF B!NextId, B!Id
    <3> QED
      BY <1>0, <1>5, <2>2, <3>3 DEF CreateDescriptor
  <2> QED
    BY <2>1, <2>2
<1>6. CASE Acquire
  BY <1>0, <1>2, <1>6, NewKeyTyped DEF Acquire
<1>7. CASE Await
  <2>1. slots[key.slot] \in SlotState
    BY <1>0 DEF Key
  <2> QED
    BY <1>0, <1>7, <2>1 DEF Await, SlotState
<1>8. CASE Awaken \/ FreeSlot \/ ReleaseDescriptor \/ Drop \/ StopFromOutside
  BY <1>0, <1>8 DEF Awaken, FreeSlot, ReleaseDescriptor, Drop, StopFromOutside, coordinator, client
<1>9. CASE Broker
  BY <1>0, <1>9 DEF Broker, Receive, BeginJob, SubmitEnter, SubmitRecord, SubmitLeave, Refused,
                    PollEdge, Repoll, Finish, FinishClaim, FinishStore, FinishReady, BrokerStop,
                    coordinator, client
<1>10. CASE Ingress
  BY <1>0, <1>10 DEF Ingress, IngressWait, Match, Finish, FinishClaim, FinishStore, FinishReady,
                     Bump, IngressWake, WakeBroker, IngressStop, coordinator, client
<1>11. CASE Dispatcher \/ LaneTeam
  BY <1>0, <1>11 DEF Dispatcher, DispatcherWait, Dispatch, Reject, RejectRing, LaneTeam,
                     coordinator, client
<1>12. CASE Owner
  BY <1>0, <1>12 DEF Owner, OwnerStop, JoinIngress, Bump, OwnerWake, WakeBroker, JoinBroker,
                     JoinDispatcher, DestroyBridge, coordinator, client
<1> QED
  BY <1>3, <1>4, <1>5, <1>6, <1>7, <1>8, <1>9, <1>10, <1>11, <1>12 DEF Next, Client

(* The broker's keys stay keys, and the ring's length within its bound.    *)
LEMMA BrokerTypesNext ==
  ASSUME TypeOK, Next
  PROVE  BrokerTypes'
<1> USE DEF BrokerTypes, coordinator, broker
<1>0. BrokerTypes /\ key \in Key /\ queue \in Seq(Key) /\ Len(queue) <= Slots
  BY DEF TypeOK, ClientTypes
<1>1. NoPending \in [key : Key, ticket : 0..MaxPass]
  BY SlotsAssumption, GenerationAssumption, MaxPassAssumption DEF NoPending, NoKey, Key, Slot
<1>2. CASE Send
  <2>1. CASE queue' = Append(queue, key) /\ Len(queue) < Slots
    <3>1. Append(queue, key) \in Seq(Key) /\ Len(Append(queue, key)) = Len(queue) + 1
      BY <1>0, AppendProperties
    <3>2. Len(queue) + 1 <= Slots
      BY <1>0, <2>1, LenProperties, SlotsAssumption
    <3> QED
      BY <1>0, <1>2, <2>1, <3>1, <3>2 DEF Send
  <2>2. CASE queue' = queue
    BY <1>0, <1>2, <2>2 DEF Send
  <2> QED
    BY <1>2, <2>1, <2>2 DEF Send
<1>3. CASE Receive
  <2>1. CASE queue # <<>>
    <3>1. /\ Head(queue) \in Key /\ Tail(queue) \in Seq(Key)
          /\ Len(Tail(queue)) = Len(queue) - 1
      BY <1>0, <2>1, HeadTailProperties
    <3>2. Len(queue) - 1 <= Slots
      BY <1>0, LenProperties, SlotsAssumption
    <3> QED
      BY <1>0, <1>3, <2>1, <3>1, <3>2 DEF Receive
  <2>2. CASE queue = <<>>
    BY <1>0, <1>3, <2>2 DEF Receive
  <2> QED
    BY <2>1, <2>2
<1>4. CASE BeginJob
  <2>1. slots[job.slot] \in SlotState
    BY <1>0 DEF TypeOK, BoardTypes, Key
  <2>2. slots[job.slot].submission \in 0..MaxPass
    BY <2>1 DEF SlotState
  <2>3. [key |-> job, ticket |-> slots[job.slot].submission] \in [key : Key, ticket : 0..MaxPass]
    BY <1>0, <2>2
  <2> QED
    BY <1>0, <1>4, <2>3 DEF BeginJob
<1>5. CASE Refused \/ Match
  BY <1>0, <1>1, <1>5 DEF Refused, Match
<1>6. CASE Begin \/ ClientEnter \/ CreateDescriptor \/ Acquire \/ Await \/ Awaken \/ FreeSlot
             \/ ReleaseDescriptor \/ Drop \/ StopFromOutside
  BY <1>0, <1>6 DEF Begin, ClientEnter, CreateDescriptor, Acquire, Await, Awaken, FreeSlot,
                    ReleaseDescriptor, Drop, StopFromOutside
<1>7. CASE SubmitEnter \/ SubmitRecord \/ SubmitLeave \/ PollEdge \/ Repoll \/ BrokerStop
  BY <1>0, <1>7 DEF SubmitEnter, SubmitRecord, SubmitLeave, PollEdge, Repoll, BrokerStop
<1>8. CASE Finish("broker") \/ Finish("ingress")
  BY <1>0, <1>8 DEF Finish, FinishClaim, FinishStore, FinishReady
<1>9. CASE IngressWait \/ Bump("ingress") \/ IngressWake \/ IngressStop
  BY <1>0, <1>9 DEF IngressWait, Bump, IngressWake, WakeBroker, IngressStop
<1>10. CASE Dispatcher \/ LaneTeam
  BY <1>0, <1>10 DEF Dispatcher, DispatcherWait, Dispatch, Reject, RejectRing, LaneTeam
<1>11. CASE Owner
  BY <1>0, <1>11 DEF Owner, OwnerStop, JoinIngress, Bump, OwnerWake, WakeBroker, JoinBroker,
                     JoinDispatcher, DestroyBridge
<1> QED
  BY <1>2, <1>3, <1>4, <1>5, <1>6, <1>7, <1>8, <1>9, <1>10, <1>11
     DEF Next, Client, Broker, Ingress

(* A slot with another phase, result or submission is a slot.              *)
LEMMA SlotTyped ==
  /\ \A s \in SlotState, x \in {"free", "queued", "pending", "completing", "ready"} :
       [s EXCEPT !.phase = x] \in SlotState
  /\ \A s \in SlotState, r \in Result : [s EXCEPT !.result = r] \in SlotState
  /\ \A s \in SlotState, t \in 0..MaxPass : [s EXCEPT !.submission = t] \in SlotState
BY DEF SlotState

(* The slots, their free list and the finishers' records stay of their types. *)
LEMMA BoardTypesNext ==
  ASSUME TypeOK, SlotsInv, Next
  PROVE  BoardTypes'
<1> USE DEF BoardTypes, coordinator, board
<1>0. /\ BoardTypes /\ key \in Key /\ job \in Key /\ ticket \in 0..MaxPass
      /\ pending.key \in Key /\ pending.ticket \in 0..MaxPass
  BY DEF TypeOK, ClientTypes, BrokerTypes
<1>k. \A k \in Key : k.slot \in Slot
  BY DEF Key
<1>r. 0 \in Result /\ Failed \in Result /\ Busy \in Result /\ 0..MaxPass \subseteq Result
  BY MaxPassAssumption DEF Result, Busy, Failed
<1>n. NoKey \in Key
  BY SlotsAssumption, GenerationAssumption DEF NoKey, Key, Slot
<1>f. \A p \in Finisher : fin[p] \in [key : Key, result : Result]
  BY <1>0
<1>z. 0 \in 0..MaxPass
  BY MaxPassAssumption
<1>1. CASE Acquire
  <2>1. CASE freeSlots # <<>> /\ ~stopping
    <3>1. NewKey \in Key /\ NewKey.slot \in Slot /\ NewKey.generation \in 0..MaxGeneration
      BY <2>1, NewKeyTyped DEF Key
    <3>2. [generation |-> NewKey.generation, submission |-> ticket, result |-> 0,
           phase |-> "queued"] \in SlotState
      BY <1>0, <1>r, <3>1 DEF SlotState
    <3>3. slots' \in [Slot -> SlotState]
      BY <1>0, <1>1, <2>1, <3>1, <3>2 DEF Acquire
    <3>4. freeSlots' \in Seq(Slot) /\ Len(freeSlots') <= Slots
      BY <1>1, <2>1, NewKeyTyped DEF Acquire
    <3> QED
      BY <1>0, <1>1, <3>3, <3>4 DEF Acquire
  <2>2. CASE freeSlots = <<>> \/ stopping
    BY <1>0, <1>1, <2>2 DEF Acquire
  <2> QED
    BY <2>1, <2>2
<1>2. CASE Send
  <2>1. CASE UNCHANGED <<slots, freeSlots>>
    BY <1>0, <1>2, <2>1 DEF Send
  <2>2. CASE /\ slots' = [slots EXCEPT ![key.slot].submission = 0, ![key.slot].phase = "free"]
             /\ freeSlots' = Recycled
    <3>1. [slots EXCEPT ![key.slot].submission = 0] \in [Slot -> SlotState]
      BY <1>0, <1>k, <1>z, SlotTyped
    <3>2. slots' \in [Slot -> SlotState]
      BY <1>0, <1>k, <2>2, <3>1, SlotTyped
    <3>3. freeSlots' \in Seq(Slot) /\ Len(freeSlots') <= Slots
      BY <1>2, <2>2, RecycledList DEF Send, Move
    <3> QED
      BY <1>0, <1>2, <3>2, <3>3 DEF Send
  <2> QED
    BY <1>2, <2>1, <2>2 DEF Send
<1>3. CASE Await
  <2>1. [slots EXCEPT ![key.slot].result = 0] \in [Slot -> SlotState]
    BY <1>0, <1>k, <1>r, SlotTyped
  <2>2. [[slots EXCEPT ![key.slot].result = 0] EXCEPT ![key.slot].submission = 0]
          \in [Slot -> SlotState]
    BY <1>k, <1>0, <1>z, <2>1, SlotTyped
  <2>3. slots' \in [Slot -> SlotState]
    BY <1>0, <1>3, <2>2 DEF Await
  <2> QED
    BY <1>0, <1>3, <2>3 DEF Await
<1>4. CASE FreeSlot
  <2>1. slots' \in [Slot -> SlotState]
    BY <1>0, <1>k, <1>4, SlotTyped DEF FreeSlot
  <2>2. freeSlots' \in Seq(Slot) /\ Len(freeSlots') <= Slots
    BY <1>4, RecycledList DEF FreeSlot, Move
  <2> QED
    BY <1>0, <1>4, <2>1, <2>2 DEF FreeSlot
<1>5. CASE Receive
  <2>1. queue # <<>> => job' \in Key
    BY <1>5, HeadTailProperties DEF Receive, TypeOK, BrokerTypes
  <2> QED
    BY <1>0, <1>r, <1>5, <2>1 DEF Receive, Finishing, Finisher
<1>6. CASE BeginJob
  <2>1. slots' \in [Slot -> SlotState]
    <3>1. slots' = slots \/ slots' = [slots EXCEPT ![job.slot].phase = "pending"]
      BY <1>6 DEF BeginJob
    <3>2. [slots EXCEPT ![job.slot].phase = "pending"] \in [Slot -> SlotState]
      BY <1>0, <1>k, SlotTyped
    <3> QED
      BY <1>0, <3>1, <3>2
  <2>2. fin' \in [Finisher -> [key : Key, result : Result]]
    BY <1>0, <1>r, <1>6 DEF BeginJob, Finishing
  <2> QED
    BY <1>0, <1>6, <2>1, <2>2 DEF BeginJob
<1>7. CASE Refused
  BY <1>0, <1>r, <1>7 DEF Refused, Finishing
<1>8. CASE Match
  <2>1. NoFinish \in [key : Key, result : Result]
    BY <1>r, <1>n DEF NoFinish
  <2> QED
    BY <1>0, <1>r, <1>8, <2>1 DEF Match, Finishing
<1>9. ASSUME NEW p \in Finisher, Finish(p) PROVE BoardTypes'
  <2>1. fin[p].key.slot \in Slot /\ fin[p].result \in Result
    BY <1>f, <1>k
  <2>2. slots' \in [Slot -> SlotState]
    <3>1. \/ slots' = slots
          \/ slots' = [slots EXCEPT ![fin[p].key.slot].phase = "completing"]
          \/ slots' = [slots EXCEPT ![fin[p].key.slot].phase = "ready"]
          \/ slots' = [slots EXCEPT ![fin[p].key.slot].result = fin[p].result]
      BY <1>9 DEF Finish, FinishClaim, FinishStore, FinishReady
    <3>2. /\ [slots EXCEPT ![fin[p].key.slot].phase = "completing"] \in [Slot -> SlotState]
          /\ [slots EXCEPT ![fin[p].key.slot].phase = "ready"] \in [Slot -> SlotState]
          /\ [slots EXCEPT ![fin[p].key.slot].result = fin[p].result] \in [Slot -> SlotState]
      BY <1>0, <2>1, SlotTyped
    <3> QED
      BY <1>0, <3>1, <3>2
  <2>3. late' \in BOOLEAN
    BY <1>0, <1>9 DEF Finish, FinishClaim, FinishStore, FinishReady
  <2> QED
    BY <1>0, <1>9, <2>2, <2>3 DEF Finish, FinishClaim, FinishStore, FinishReady
<1>10. CASE JoinIngress
  <2>1. \A i \in Slot : slots[i] \in SlotState
    BY <1>0
  <2>2. \A i \in Slot : [slots[i] EXCEPT !.phase = "ready", !.result = Failed] \in SlotState
    BY <1>r, <2>1 DEF SlotState
  <2>3. slots' \in [Slot -> SlotState]
    BY <1>10, <2>1, <2>2 DEF JoinIngress
  <2> QED
    BY <1>0, <1>10, <2>3 DEF JoinIngress
<1>11. CASE Begin \/ ClientEnter \/ CreateDescriptor \/ Awaken \/ ReleaseDescriptor \/ Drop
              \/ StopFromOutside
  BY <1>0, <1>11 DEF Begin, ClientEnter, CreateDescriptor, Awaken, ReleaseDescriptor, Drop,
                     StopFromOutside
<1>12. CASE SubmitEnter \/ SubmitRecord \/ SubmitLeave \/ PollEdge \/ Repoll \/ BrokerStop
  BY <1>0, <1>12 DEF SubmitEnter, SubmitRecord, SubmitLeave, PollEdge, Repoll, BrokerStop
<1>13. CASE IngressWait \/ Bump("ingress") \/ IngressWake \/ IngressStop
  BY <1>0, <1>13 DEF IngressWait, Bump, IngressWake, WakeBroker, IngressStop
<1>14. CASE Dispatcher \/ LaneTeam
  BY <1>0, <1>14 DEF Dispatcher, DispatcherWait, Dispatch, Reject, RejectRing, LaneTeam
<1>15. CASE OwnerStop \/ Bump("owner") \/ OwnerWake \/ JoinBroker \/ JoinDispatcher
              \/ DestroyBridge
  BY <1>0, <1>15 DEF OwnerStop, Bump, OwnerWake, WakeBroker, JoinBroker, JoinDispatcher,
                     DestroyBridge
<1> QED
  BY <1>1, <1>2, <1>3, <1>4, <1>5, <1>6, <1>7, <1>8, <1>9, <1>10, <1>11, <1>12, <1>13, <1>14,
     <1>15 DEF Next, Client, Broker, Ingress, Owner, Finisher

(* The bridge stays of its types: a generation goes up only from a free    *)
(* slot's, and only one who entered leaves.                                *)
LEMMA BridgeTypesNext ==
  ASSUME TypeOK, AdmissionInv, DescriptorsInv, Next
  PROVE  B!TypeOK'
<1> USE DEF coordinator
<1>0. /\ B!TypeOK /\ id \in B!Id /\ slots \in [Slot -> SlotState] /\ job \in Key
      /\ active \in Nat /\ pc \in [Thread -> Places]
  BY DEF TypeOK, ClientTypes, BoardTypes, BrokerTypes
<1>s. "submission" \in B!Bell /\ "completion" \in B!Bell
  BY DEF B!Bell
<1>t. \A b \in B!Bell : taken[b].ticket \in Nat /\ taken[b].id \in B!Id
  BY <1>0 DEF B!TypeOK, B!WaitsTypes, B!Record
<1>e. pc["client"] = "leave" \/ pc["broker"] \in {"ring", "edge", "refuse"} => entered > 0
  BY DEF AdmissionInv
<1>u. UNCHANGED bridge => B!TypeOK'
  BY <1>0 DEF bridge, B!TypeOK, B!AdmissionTypes, B!RingsTypes, B!TableTypes, B!WaitsTypes
<1>1. CASE ClientEnter \/ SubmitEnter
  BY <1>0, <1>u, <1>1, EnterTyped DEF ClientEnter, SubmitEnter
<1>2. CASE CreateDescriptor
  BY <1>0, <1>e, <1>2, CreateTyped DEF CreateDescriptor, Move, DescriptorsInv
<1>3. CASE ReleaseDescriptor
  BY <1>0, <1>3, ReleaseTyped DEF ReleaseDescriptor
<1>4. CASE SubmitRecord
  <2>1. slots[job.slot].submission \in Nat
    BY <1>0 DEF Key, SlotState
  <2> QED
    BY <1>0, <1>4, <2>1, SubmitTyped DEF SubmitRecord
<1>5. CASE SubmitLeave
  <2>1. entered > 0
    BY <1>e, <1>5 DEF SubmitLeave, Move
  <2>2. B!TableTypes'
    BY <1>0, <1>5 DEF SubmitLeave, B!TypeOK, B!TableTypes
  <2>3. {"submission"} \in SUBSET B!Bell /\ {} \in SUBSET B!Bell
    BY <1>s
  <2> QED
    BY <1>0, <1>5, <2>1, <2>2, <2>3, LeaveTyped DEF SubmitLeave, B!TypeOK
<1>6. CASE IngressWait
  BY <1>0, <1>s, <1>t, <1>u, <1>6, EdgeTyped, ReleaseTyped DEF IngressWait
<1>7. CASE IngressWake \/ IngressStop \/ BrokerStop \/ OwnerStop \/ StopFromOutside
           \/ DestroyBridge
  BY <1>0, <1>s, <1>u, <1>7, OthersTyped
     DEF IngressWake, IngressStop, BrokerStop, OwnerStop, RequestStop, StopFromOutside,
         DestroyBridge
<1>8. CASE DispatcherWait \/ Dispatch
  BY <1>0, <1>s, <1>u, <1>8, EdgeTyped, OthersTyped DEF DispatcherWait, Dispatch
<1>9. CASE Reject
  BY <1>0, <1>s, <1>t, <1>9, PublishTyped DEF Reject
<1>10. CASE RejectRing
  BY <1>0, <1>s, <1>10
     DEF RejectRing, B!TypeOK, B!AdmissionTypes, B!RingsTypes, B!TableTypes, B!WaitsTypes
<1>11. CASE LaneTeam
  BY <1>0, <1>s, <1>u, <1>11, PublishTyped, OthersTyped DEF LaneTeam
<1>12. CASE Begin \/ Acquire \/ Send \/ Await \/ Awaken \/ FreeSlot \/ Drop
  BY <1>u, <1>12 DEF Begin, Acquire, Send, Await, Awaken, FreeSlot, Drop
<1>13. CASE Receive \/ BeginJob \/ Refused \/ PollEdge \/ Repoll \/ Match
  BY <1>u, <1>13 DEF Receive, BeginJob, Refused, PollEdge, Repoll, Match
<1>14. CASE Finish("broker") \/ Finish("ingress") \/ Bump("ingress") \/ Bump("owner")
  BY <1>u, <1>14 DEF Finish, FinishClaim, FinishStore, FinishReady, Bump
<1>15. CASE JoinIngress \/ OwnerWake \/ JoinBroker \/ JoinDispatcher
  BY <1>u, <1>15 DEF JoinIngress, OwnerWake, JoinBroker, JoinDispatcher
<1> QED
  BY <1>1, <1>2, <1>3, <1>4, <1>5, <1>6, <1>7, <1>8, <1>9, <1>10, <1>11, <1>12, <1>13, <1>14,
     <1>15 DEF Next, Client, Broker, Ingress, Dispatcher, Owner

-----------------------------------------------------------------------------
(* The cursors and the threads: one lemma for each part of the invariant   *)
(* that the other parts do not enter into much.                            *)

(* Who is inside the bridge stays counted.                                 *)
LEMMA AdmissionNext ==
  ASSUME pc \in [Thread -> Places], B!TypeOK, AdmissionInv, Next
  PROVE  AdmissionInv'
<1> USE DEF Move, Thread, AdmissionInv, B!TypeOK, B!AdmissionTypes, B!WaitsTypes, B!Bell,
            bridge, B!admission, B!waits, B!rings, coordinator
<1>1. CASE Begin \/ Drop \/ StopFromOutside
  BY <1>1 DEF Begin, Drop, StopFromOutside, B!RequestStop
<1>2. CASE Client
  BY <1>2 DEF Client, ClientEnter, B!Enter, CreateDescriptor, B!CreateAndLeave,
     B!LeaveAfter, B!NextId, Acquire, NewKey, Send, Recycled, Await, Awaken, FreeSlot,
     ReleaseDescriptor, B!Release, B!Matches
<1>3. CASE Broker
  BY <1>3 DEF Broker, Receive, Finishing, BeginJob, SubmitEnter, B!Enter, SubmitRecord,
     B!Submit, B!Retained, B!Room, B!Matches, SubmitLeave, B!LeaveAfter, Refused, PollEdge,
     EdgeMoved, Repoll, Finish, FinishClaim, FinishStore, FinishReady, Claimable,
     AfterFinish, BrokerStop, RequestStop, B!RequestStop
<1>4. CASE Ingress
  BY <1>4 DEF Ingress, IngressWait, B!EdgeStep, B!Load, B!Look, B!Wait, B!EdgeTo,
     B!TakeRecord, B!CanTake, B!Drained, B!Release, B!Matches, Match, Finishing, Finish,
     FinishClaim, FinishStore, FinishReady, Claimable, AfterFinish, Bump, IngressWake,
     WakeBroker, B!WaitAgain, IngressStop, RequestStop, B!RequestStop
<1>5. CASE Dispatcher
  BY <1>5 DEF Dispatcher, DispatcherWait, B!EdgeStep, B!Load, B!Look, B!Wait, B!EdgeTo,
     B!TakeRecord, B!CanTake, B!Drained, Dispatch, B!WaitAgain, B!Matches, Reject,
     B!Publish, B!Publishable, RejectRing
<1>6. CASE LaneTeam
  BY <1>6 DEF LaneTeam, C!Start, C!Land, C!Go, C!Publish, C!Ring, B!Publish, B!Publishable,
     B!Ring
<1>7. CASE OwnerStop \/ Bump("owner") \/ OwnerWake
  BY <1>7 DEF OwnerStop, RequestStop, B!RequestStop, Bump, OwnerWake, WakeBroker
<1>8. CASE JoinIngress
  BY <1>8 DEF JoinIngress
<1>9. CASE JoinBroker \/ JoinDispatcher \/ DestroyBridge
  BY <1>9 DEF JoinBroker, JoinDispatcher, DestroyBridge, B!Destroy, B!Destroyable
<1> QED
  BY <1>1, <1>2, <1>3, <1>4, <1>5, <1>6, <1>7, <1>8, <1>9 DEF Next, Owner

(* The four cursors stay in order, one record apart.                       *)
LEMMA RingsNext ==
  ASSUME pc \in [Thread -> Places], B!TypeOK, RingsInv, HolderInv, BrokerInv, Next
  PROVE  RingsInv'
<1> USE DEF Move, Thread, RingsInv, HolderInv, BrokerInv, Record, Outstanding, Took,
            Passing, B!TypeOK, B!RingsTypes, bridge, B!admission, B!waits, B!rings,
            coordinator
<1>1. CASE Begin \/ Drop \/ StopFromOutside
  BY <1>1 DEF Begin, Drop, StopFromOutside, B!RequestStop
<1>2. CASE Client
  BY <1>2 DEF Client, ClientEnter, B!Enter, CreateDescriptor, B!CreateAndLeave,
     B!LeaveAfter, B!NextId, Acquire, NewKey, Send, Recycled, Await, Awaken, FreeSlot,
     ReleaseDescriptor, B!Release, B!Matches
<1>3. CASE Broker
  BY <1>3 DEF Broker, Receive, Finishing, BeginJob, SubmitEnter, B!Enter, SubmitRecord,
     B!Submit, B!Retained, B!Room, B!Matches, SubmitLeave, B!LeaveAfter, Refused, PollEdge,
     EdgeMoved, Repoll, Finish, FinishClaim, FinishStore, FinishReady, Claimable,
     AfterFinish, BrokerStop, RequestStop, B!RequestStop
<1>4. CASE Ingress
  BY <1>4 DEF Ingress, IngressWait, B!EdgeStep, B!Load, B!Look, B!Wait, B!EdgeTo,
     B!TakeRecord, B!CanTake, B!Drained, B!Release, B!Matches, Match, Finishing, Finish,
     FinishClaim, FinishStore, FinishReady, Claimable, AfterFinish, Bump, IngressWake,
     WakeBroker, B!WaitAgain, IngressStop, RequestStop, B!RequestStop
<1>5. CASE Dispatcher
  BY <1>5 DEF Dispatcher, DispatcherWait, B!EdgeStep, B!Load, B!Look, B!Wait, B!EdgeTo,
     B!TakeRecord, B!CanTake, B!Drained, Dispatch, B!WaitAgain, B!Matches, Reject,
     B!Publish, B!Publishable, RejectRing
<1>6. CASE LaneTeam
  BY <1>6 DEF LaneTeam, C!Start, C!Land, C!Go, C!Publish, C!Ring, B!Publish, B!Publishable,
     B!Ring
<1>7. CASE OwnerStop \/ Bump("owner") \/ OwnerWake
  BY <1>7 DEF OwnerStop, RequestStop, B!RequestStop, Bump, OwnerWake, WakeBroker
<1>8. CASE JoinIngress
  BY <1>8 DEF JoinIngress
<1>9. CASE JoinBroker \/ JoinDispatcher \/ DestroyBridge
  BY <1>9 DEF JoinBroker, JoinDispatcher, DestroyBridge, B!Destroy, B!Destroyable
<1> QED
  BY <1>1, <1>2, <1>3, <1>4, <1>5, <1>6, <1>7, <1>8, <1>9 DEF Next, Owner

(* Dispatcher and crew never both have the record.                         *)
LEMMA HolderNext ==
  ASSUME pc \in [Thread -> Places], B!TypeOK, C!TypeOK, HolderInv, RingsInv, OwnerInv,
         Next
  PROVE  HolderInv'
<1> USE DEF Move, Thread, HolderInv, RingsInv, OwnerInv, Took, Passing, B!TypeOK,
            B!RingsTypes, B!WaitsTypes, B!Bell, C!TypeOK, bridge, B!admission, B!waits,
            B!rings, team, coordinator
<1>1. CASE Begin \/ Drop \/ StopFromOutside
  BY <1>1 DEF Begin, Drop, StopFromOutside, B!RequestStop
<1>2. CASE Client
  BY <1>2 DEF Client, ClientEnter, B!Enter, CreateDescriptor, B!CreateAndLeave,
     B!LeaveAfter, B!NextId, Acquire, NewKey, Send, Recycled, Await, Awaken, FreeSlot,
     ReleaseDescriptor, B!Release, B!Matches
<1>3. CASE Broker
  BY <1>3 DEF Broker, Receive, Finishing, BeginJob, SubmitEnter, B!Enter, SubmitRecord,
     B!Submit, B!Retained, B!Room, B!Matches, SubmitLeave, B!LeaveAfter, Refused, PollEdge,
     EdgeMoved, Repoll, Finish, FinishClaim, FinishStore, FinishReady, Claimable,
     AfterFinish, BrokerStop, RequestStop, B!RequestStop
<1>4. CASE Ingress
  BY <1>4 DEF Ingress, IngressWait, B!EdgeStep, B!Load, B!Look, B!Wait, B!EdgeTo,
     B!TakeRecord, B!CanTake, B!Drained, B!Release, B!Matches, Match, Finishing, Finish,
     FinishClaim, FinishStore, FinishReady, Claimable, AfterFinish, Bump, IngressWake,
     WakeBroker, B!WaitAgain, IngressStop, RequestStop, B!RequestStop
<1>5. CASE Dispatcher
  BY <1>5 DEF Dispatcher, DispatcherWait, B!EdgeStep, B!Load, B!Look, B!Wait, B!EdgeTo,
     B!TakeRecord, B!CanTake, B!Drained, Dispatch, B!WaitAgain, B!Matches, Reject,
     B!Publish, B!Publishable, RejectRing
<1>6. CASE LaneTeam
  BY <1>6 DEF LaneTeam, C!Start, C!Land, C!Go, C!Publish, C!Ring, B!Publish, B!Publishable,
     B!Ring
<1>7. CASE OwnerStop \/ Bump("owner") \/ OwnerWake
  BY <1>7 DEF OwnerStop, RequestStop, B!RequestStop, Bump, OwnerWake, WakeBroker
<1>8. CASE JoinIngress
  BY <1>8 DEF JoinIngress
<1>9. CASE JoinBroker \/ JoinDispatcher \/ DestroyBridge
  BY <1>9 DEF JoinBroker, JoinDispatcher, DestroyBridge, B!Destroy, B!Destroyable
<1> QED
  BY <1>1, <1>2, <1>3, <1>4, <1>5, <1>6, <1>7, <1>8, <1>9 DEF Next, Owner

(* The teardown goes on thread by thread.                                  *)
LEMMA OwnerNext ==
  ASSUME pc \in [Thread -> Places], B!TypeOK, C!TypeOK, OwnerInv, IngressInv,
         AdmissionInv, Next
  PROVE  OwnerInv'
<1> USE DEF Move, Thread, OwnerInv, IngressInv, AdmissionInv, B!TypeOK, B!AdmissionTypes,
            B!WaitsTypes, B!Bell, C!TypeOK, bridge, B!admission, B!waits, B!rings, team,
            coordinator
<1>1. CASE Begin \/ Drop \/ StopFromOutside
  BY <1>1 DEF Begin, Drop, StopFromOutside, B!RequestStop
<1>2. CASE Client
  BY <1>2 DEF Client, ClientEnter, B!Enter, CreateDescriptor, B!CreateAndLeave,
     B!LeaveAfter, B!NextId, Acquire, NewKey, Send, Recycled, Await, Awaken, FreeSlot,
     ReleaseDescriptor, B!Release, B!Matches
<1>3. CASE Broker
  BY <1>3 DEF Broker, Receive, Finishing, BeginJob, SubmitEnter, B!Enter, SubmitRecord,
     B!Submit, B!Retained, B!Room, B!Matches, SubmitLeave, B!LeaveAfter, Refused, PollEdge,
     EdgeMoved, Repoll, Finish, FinishClaim, FinishStore, FinishReady, Claimable,
     AfterFinish, BrokerStop, RequestStop, B!RequestStop
<1>4. CASE Ingress
  BY <1>4 DEF Ingress, IngressWait, B!EdgeStep, B!Load, B!Look, B!Wait, B!EdgeTo,
     B!TakeRecord, B!CanTake, B!Drained, B!Release, B!Matches, Match, Finishing, Finish,
     FinishClaim, FinishStore, FinishReady, Claimable, AfterFinish, Bump, IngressWake,
     WakeBroker, B!WaitAgain, IngressStop, RequestStop, B!RequestStop
<1>5. CASE Dispatcher
  BY <1>5 DEF Dispatcher, DispatcherWait, B!EdgeStep, B!Load, B!Look, B!Wait, B!EdgeTo,
     B!TakeRecord, B!CanTake, B!Drained, Dispatch, B!WaitAgain, B!Matches, Reject,
     B!Publish, B!Publishable, RejectRing
<1>6. CASE LaneTeam
  BY <1>6 DEF LaneTeam, C!Start, C!Land, C!Go, C!Publish, C!Ring, B!Publish, B!Publishable,
     B!Ring
<1>7. CASE OwnerStop \/ Bump("owner") \/ OwnerWake
  BY <1>7 DEF OwnerStop, RequestStop, B!RequestStop, Bump, OwnerWake, WakeBroker
<1>8. CASE JoinIngress
  BY <1>8 DEF JoinIngress
<1>9. CASE JoinBroker \/ JoinDispatcher \/ DestroyBridge
  BY <1>9 DEF JoinBroker, JoinDispatcher, DestroyBridge, B!Destroy, B!Destroyable
<1> QED
  BY <1>1, <1>2, <1>3, <1>4, <1>5, <1>6, <1>7, <1>8, <1>9 DEF Next, Owner

(* The ingress goes on only with a taken completion or a cancelled wait.   *)
LEMMA IngressNext ==
  ASSUME TypeOK, IngressInv, RecordInv, SlotsInv, TokenInv, Next
  PROVE  IngressInv'
<1> USE DEF TypeOK, Move, Thread, IngressInv, RecordInv, SlotsInv, TokenInv, Record,
            Outstanding, Arrived, Matching, Queued, Beginning, Pending, Finishes, Asking,
            Waiting, NoPending, NoFinish, NoKey, Failed, Finisher, BoardTypes, BrokerTypes,
            B!TypeOK, B!WaitsTypes, B!Bell, bridge, B!admission, B!rings, B!waits,
            coordinator, client, board, flags, doorway, broker
<1>1. CASE Begin \/ Drop \/ StopFromOutside
  BY <1>1 DEF Begin, Drop, StopFromOutside, B!RequestStop
<1>2. CASE Client
  BY <1>2 DEF Client, ClientEnter, B!Enter, CreateDescriptor, B!CreateAndLeave,
     B!LeaveAfter, B!NextId, Acquire, NewKey, Send, Recycled, Await, Awaken, FreeSlot,
     ReleaseDescriptor, B!Release, B!Matches
<1>3. CASE Broker
  BY <1>3 DEF Broker, Receive, Finishing, BeginJob, SubmitEnter, B!Enter, SubmitRecord,
     B!Submit, B!Retained, B!Room, B!Matches, SubmitLeave, B!LeaveAfter, Refused, PollEdge,
     EdgeMoved, Repoll, Finish, FinishClaim, FinishStore, FinishReady, Claimable,
     AfterFinish, BrokerStop, RequestStop, B!RequestStop
<1>4. CASE Ingress
  BY <1>4 DEF Ingress, IngressWait, B!EdgeStep, B!Load, B!Look, B!Wait, B!EdgeTo,
     B!TakeRecord, B!CanTake, B!Drained, B!Release, B!Matches, Match, Finishing, Finish,
     FinishClaim, FinishStore, FinishReady, Claimable, AfterFinish, Bump, IngressWake,
     WakeBroker, B!WaitAgain, IngressStop, RequestStop, B!RequestStop
<1>5. CASE Dispatcher
  BY <1>5 DEF Dispatcher, DispatcherWait, B!EdgeStep, B!Load, B!Look, B!Wait, B!EdgeTo,
     B!TakeRecord, B!CanTake, B!Drained, Dispatch, B!WaitAgain, B!Matches, Reject,
     B!Publish, B!Publishable, RejectRing
<1>6. CASE LaneTeam
  BY <1>6 DEF LaneTeam, C!Start, C!Land, C!Go, C!Publish, C!Ring, B!Publish, B!Publishable,
     B!Ring
<1>7. CASE OwnerStop \/ Bump("owner") \/ OwnerWake
  BY <1>7 DEF OwnerStop, RequestStop, B!RequestStop, Bump, OwnerWake, WakeBroker
<1>8. CASE JoinIngress
  BY <1>8 DEF JoinIngress
<1>9. CASE JoinBroker \/ JoinDispatcher \/ DestroyBridge
  BY <1>9 DEF JoinBroker, JoinDispatcher, DestroyBridge, B!Destroy, B!Destroyable
<1> QED
  BY <1>1, <1>2, <1>3, <1>4, <1>5, <1>6, <1>7, <1>8, <1>9 DEF Next, Owner

(* The broker goes to the bridge for a pass without a record, and never to *)
(* its stop.                                                               *)
LEMMA BrokerNext ==
  ASSUME TypeOK, BrokerInv, TokenInv, RecordInv, AdmissionInv, IngressInv, RingsInv,
         SlotsInv, Next
  PROVE  BrokerInv'
<1> USE DEF TypeOK, Move, Thread, BrokerInv, TokenInv, RecordInv, AdmissionInv, IngressInv,
            RingsInv, Record, Outstanding, Arrived, Matching, Queued, Beginning, Pending,
            Finishes, Asking, Waiting, NoPending, NoKey, Failed, Busy, Finisher, BoardTypes,
            BrokerTypes, B!TypeOK, B!RingsTypes, B!AdmissionTypes, B!WaitsTypes, B!Bell,
            bridge, B!admission, B!rings, B!waits, coordinator, client, board, flags,
            doorway, broker
<1>1. CASE BeginJob
  <2>1. ticket # 0 /\ slots[key.slot].submission = ticket /\ key # NoKey
    BY <1>1 DEF SlotsInv, BeginJob
  <2> QED
    BY <1>1, <2>1 DEF BeginJob
<1>2. CASE Begin \/ Drop \/ StopFromOutside
  BY <1>2 DEF Begin, Drop, StopFromOutside, B!RequestStop
<1>3. CASE Client
  BY <1>3 DEF Client, ClientEnter, B!Enter, CreateDescriptor, B!CreateAndLeave,
     B!LeaveAfter, B!NextId, Acquire, NewKey, Send, Recycled, Await, Awaken, FreeSlot,
     ReleaseDescriptor, B!Release, B!Matches
<1>4. CASE Receive \/ SubmitEnter \/ SubmitRecord \/ SubmitLeave \/ Refused
  BY <1>4 DEF Receive, Finishing, SubmitEnter, B!Enter, SubmitRecord, B!Submit, B!Retained,
     B!Room, B!Matches, SubmitLeave, B!LeaveAfter, Refused
<1>5. CASE PollEdge \/ Repoll \/ Finish("broker") \/ BrokerStop
  BY <1>5 DEF PollEdge, EdgeMoved, Repoll, Finish, FinishClaim, FinishStore, FinishReady,
     Claimable, AfterFinish, BrokerStop, RequestStop, B!RequestStop
<1>6. CASE Ingress
  BY <1>6 DEF Ingress, IngressWait, B!EdgeStep, B!Load, B!Look, B!Wait, B!EdgeTo,
     B!TakeRecord, B!CanTake, B!Drained, B!Release, B!Matches, Match, Finishing, Finish,
     FinishClaim, FinishStore, FinishReady, Claimable, AfterFinish, Bump, IngressWake,
     WakeBroker, B!WaitAgain, IngressStop, RequestStop, B!RequestStop
<1>7. CASE Dispatcher
  BY <1>7 DEF Dispatcher, DispatcherWait, B!EdgeStep, B!Load, B!Look, B!Wait, B!EdgeTo,
     B!TakeRecord, B!CanTake, B!Drained, Dispatch, B!WaitAgain, B!Matches, Reject,
     B!Publish, B!Publishable, RejectRing
<1>8. CASE LaneTeam
  BY <1>8 DEF LaneTeam, C!Start, C!Land, C!Go, C!Publish, C!Ring, B!Publish, B!Publishable,
     B!Ring
<1>9. CASE OwnerStop \/ Bump("owner") \/ OwnerWake
  BY <1>9 DEF OwnerStop, RequestStop, B!RequestStop, Bump, OwnerWake, WakeBroker
<1>10. CASE JoinIngress
  BY <1>10 DEF JoinIngress
<1>11. CASE JoinBroker \/ JoinDispatcher \/ DestroyBridge
  BY <1>11 DEF JoinBroker, JoinDispatcher, DestroyBridge, B!Destroy, B!Destroyable
<1> QED
  BY <1>1, <1>2, <1>3, <1>4, <1>5, <1>6, <1>7, <1>8, <1>9, <1>10, <1>11 DEF Next, Broker,
     Owner

-----------------------------------------------------------------------------
(* The key of a pass, from hand to hand.                                   *)

NoTokens == ~Queued /\ ~Beginning /\ ~Pending /\ \A p \in Finisher : ~Finishes(p)

(* What the step of a thread leaves of the places that tell who has it.    *)
LEMMA OthersStay ==
  ASSUME pc \in [Thread -> Places], NEW p \in Thread, NEW from, NEW to, Move(p, from, to)
  PROVE  pc[p] = from /\ pc'[p] = to /\ \A q \in Thread \ {p} : pc'[q] = pc[q]
BY DEF Move

(* A step that leaves the pass and its key where they are.                 *)
LEMMA TokenStays ==
  ASSUME TokenInv, UNCHANGED <<queue, job, pending, fin>>,
         ~Asking \/ (UNCHANGED <<slots, key, ticket>> /\ Waiting' = Waiting),
         Beginning' => Beginning, \A p \in Finisher : Finishes(p)' => Finishes(p)
  PROVE  TokenInv'
<1>1. CASE Asking
  <2>1. Asking'
    BY <1>1 DEF Asking
  <2> QED
    BY <1>1, <2>1 DEF TokenInv, Queued, Pending, Finisher
<1>2. CASE ~Asking
  BY <1>2 DEF TokenInv, Queued, Pending, Finisher
<1> QED
  BY <1>1, <1>2

(* The client hands its key to the ring, or waits.                         *)
LEMMA TokenAtClient ==
  ASSUME TypeOK, TokenInv, SlotsInv, Client
  PROVE  TokenInv'
<1> USE DEF Waiting, Thread
<1>0. pc \in [Thread -> Places]
  BY DEF TypeOK
<1>1. ASSUME pc'["broker"] = pc["broker"], pc'["ingress"] = pc["ingress"],
             UNCHANGED <<queue, job, pending, fin>>,
             ~Asking \/ (UNCHANGED <<slots, key, ticket>> /\ Waiting' = Waiting)
      PROVE  TokenInv'
  BY <1>1, TokenStays DEF Beginning, Finishes, Finisher
<1>2. CASE ClientEnter \/ CreateDescriptor
  BY <1>0, <1>1, <1>2 DEF ClientEnter, CreateDescriptor, Move, Asking, broker, board
<1>3. CASE Acquire
  BY <1>0, <1>1, <1>3 DEF Acquire, Move, Asking, broker
<1>4. CASE Send
  <2>1. /\ pc["client"] = "send" /\ ~Asking /\ slots[key.slot].result = 0
        /\ UNCHANGED <<key, ticket, job, pending, fin>>
        /\ pc'["broker"] = pc["broker"] /\ pc'["ingress"] = pc["ingress"]
    BY <1>0, <1>4 DEF Send, Move, Asking, SlotsInv
  <2>2. NoTokens
    BY <2>1 DEF TokenInv, NoTokens, Finisher
  <2>3. CASE queue' = queue
    <3>1. UNCHANGED <<queue, job, pending, fin>>
      BY <2>1, <2>3
    <3> QED
      BY <1>1, <2>1, <3>1
  <2>4. CASE queue' = Append(queue, key) /\ slots' = slots /\ Move("client", "send", "await")
    <3>1. queue' = <<key>>
      BY <2>2, <2>4 DEF NoTokens, Queued
    <3>2. Asking'
      BY <1>0, <2>1, <2>4 DEF Asking, Move
    <3> QED
      BY <2>1, <2>2, <3>1, <3>2
         DEF TokenInv, NoTokens, Queued, Beginning, Pending, Finishes, Finisher
  <2> QED
    BY <1>4, <2>3, <2>4 DEF Send
<1>5. CASE Await
  <2>1. /\ UNCHANGED <<key, ticket, queue, job, pending, fin>>
        /\ pc'["broker"] = pc["broker"] /\ pc'["ingress"] = pc["ingress"]
    BY <1>0, <1>5 DEF Await, Move, broker
  <2>2. ~Asking \/ (slots' = slots /\ Waiting' = Waiting)
    BY <1>0, <1>5 DEF Await, Move, Asking
  <2> QED
    BY <1>1, <2>1, <2>2
<1>6. CASE Awaken
  BY <1>0, <1>1, <1>6 DEF Awaken, Move, coordinator, client, board, broker
<1>7. CASE FreeSlot \/ ReleaseDescriptor
  BY <1>0, <1>1, <1>7 DEF FreeSlot, ReleaseDescriptor, Move, Asking, coordinator, board, broker
<1> QED
  BY <1>2, <1>3, <1>4, <1>5, <1>6, <1>7 DEF Client

(* A finisher's step: only the one who stores the result takes the key off *)
(* the way.                                                                *)
LEMMA TokenAtFinish ==
  ASSUME TypeOK, TokenInv, NEW p \in Finisher, Finish(p)
  PROVE  TokenInv'
<1>0. /\ pc \in [Thread -> Places] /\ slots \in [Slot -> SlotState] /\ key.slot \in Slot
      /\ p \in Thread
  BY DEF TypeOK, BoardTypes, ClientTypes, Key, Finisher, Thread
<1>1. /\ UNCHANGED <<key, ticket, queue, job, pending, fin>>
      /\ \A q \in Thread \ {p} : pc'[q] = pc[q]
  BY <1>0, OthersStay
     DEF Finish, FinishClaim, FinishStore, FinishReady, client, broker
<1>2. Waiting' = Waiting /\ (\A q \in Finisher \ {p} : Finishes(q)' = Finishes(q))
  BY <1>1 DEF Waiting, Finishes, Finisher, Thread
<1>3. CASE FinishStore(p)
  <2>1. NoTokens'
    <3>1. /\ ~Queued /\ ~Beginning /\ ~Pending
          /\ \A q \in Finisher \ {p} : ~Finishes(q)
      BY <1>3 DEF TokenInv, FinishStore, Move, Finishes, Finisher, Beginning
    <3>2. pc'[p] = "ready"
      BY <1>0, <1>3 DEF FinishStore, Move
    <3> QED
      BY <1>1, <1>2, <3>1, <3>2 DEF NoTokens, Queued, Pending, Beginning, Finishes, Finisher, Thread
  <2> QED
    BY <2>1 DEF NoTokens, TokenInv, Finisher
<1>4. CASE FinishClaim(p) \/ FinishReady(p)
  <2>1. slots'[key.slot].result = slots[key.slot].result
    BY <1>0, <1>4 DEF FinishClaim, FinishReady, SlotState
  <2>2. Asking' = Asking
    BY <1>1, <1>2, <2>1 DEF Asking
  <2>3. (Finishes(p)' => Finishes(p)) /\ (Beginning' => Beginning)
    BY <1>0, <1>1, <1>4
       DEF FinishClaim, FinishReady, AfterFinish, Move, Finishes, Beginning, Thread
  <2> QED
    BY <1>1, <1>2, <2>2, <2>3 DEF TokenInv, Queued, Pending, Finisher
<1> QED
  BY <1>3, <1>4 DEF Finish

(* The broker takes the key from the ring, makes it pending or fails it.   *)
LEMMA TokenAtBroker ==
  ASSUME TypeOK, TokenInv, SlotsInv, BrokerInv, Broker
  PROVE  TokenInv'
<1> USE DEF Thread, Finisher
<1>0. /\ pc \in [Thread -> Places] /\ slots \in [Slot -> SlotState] /\ key.slot \in Slot
      /\ fin \in [Finisher -> [key : Key, result : Result]]
  BY DEF TypeOK, BoardTypes, ClientTypes, Key
<1>1. CASE SubmitEnter \/ SubmitRecord \/ SubmitLeave \/ PollEdge \/ Repoll \/ BrokerStop
  <2>1. /\ UNCHANGED <<slots, key, ticket, queue, job, pending, fin>>
        /\ pc'["broker"] \notin {"begin", "finish", "store"}
        /\ pc'["client"] = pc["client"] /\ pc'["ingress"] = pc["ingress"]
    BY <1>0, <1>1 DEF SubmitEnter, SubmitRecord, SubmitLeave, PollEdge, Repoll, BrokerStop,
                      RequestStop, Move, coordinator, client, board, broker
  <2> QED
    BY <2>1, TokenStays DEF Waiting, Beginning, Finishes
<1>2. CASE Receive
  <2>1. /\ UNCHANGED <<slots, key, ticket, pending>> /\ fin'["ingress"] = fin["ingress"]
        /\ pc'["client"] = pc["client"] /\ pc'["ingress"] = pc["ingress"]
        /\ pc["broker"] = "recv"
    BY <1>0, <1>2 DEF Receive, Finishing, Move, client
  <2>2. CASE queue = <<>>
    <3>1. UNCHANGED <<queue, job, fin>> /\ pc'["broker"] = "gone"
      BY <1>0, <1>2, <2>2 DEF Receive, Move
    <3> QED
      BY <2>1, <3>1, TokenStays DEF Waiting, Beginning, Finishes
  <2>3. CASE queue # <<>>
    <3>1. queue = <<key>> /\ Asking /\ ~Pending /\ ~Finishes("ingress")
      BY <2>3 DEF TokenInv, Queued
    <3>2. job' = key /\ queue' = <<>>
      BY <1>2, <2>3, <3>1 DEF Receive
    <3>3. \/ pc'["broker"] = "finish" /\ fin'["broker"].key = key
          \/ pc'["broker"] = "begin"
      BY <1>0, <1>2, <2>3, <3>2 DEF Receive, Finishing, Move
    <3>4. Asking' /\ ~Pending' /\ ~Queued' /\ ~Finishes("ingress")'
      BY <2>1, <3>1, <3>2 DEF Asking, Waiting, Pending, Queued, Finishes
    <3> QED
      BY <3>2, <2>1, <3>3, <3>4 DEF TokenInv, Beginning, Finishes
  <2> QED
    BY <2>2, <2>3
<1>3. CASE BeginJob
  <2>1. /\ job = key /\ Asking /\ ~Queued /\ ~Pending /\ ~Finishes("ingress")
    BY <1>3 DEF BeginJob, Move, TokenInv, Beginning
  <2>2. slots[key.slot].submission = ticket /\ ticket # 0
    BY <2>1 DEF Asking, Waiting, SlotsInv
  <2>3. /\ UNCHANGED <<key, ticket, queue, job>>
        /\ pc'["client"] = pc["client"] /\ pc'["ingress"] = pc["ingress"]
        /\ pc'["broker"] \in {"recv", "submit"}
        /\ pending' = pending \/ pending' = [key |-> key, ticket |-> ticket]
    BY <1>0, <1>3, <2>1, <2>2 DEF BeginJob, Move, Pending, client
  <2>4. slots'[key.slot].result = slots[key.slot].result
    BY <1>0, <1>3, <2>1 DEF BeginJob, SlotState
  <2>5. Asking' /\ ~Queued' /\ ~Beginning' /\ \A p \in Finisher : ~Finishes(p)'
    BY <2>1, <2>3, <2>4 DEF Asking, Waiting, Queued, Beginning, Finishes
  <2> QED
    BY <2>1, <2>3, <2>5 DEF TokenInv, Pending
<1>4. CASE Refused
  <2>1. /\ UNCHANGED <<slots, key, ticket, queue>> /\ fin'["ingress"] = fin["ingress"]
        /\ pc'["client"] = pc["client"] /\ pc'["ingress"] = pc["ingress"]
        /\ job # NoKey /\ pc["broker"] = "refused"
    BY <1>0, <1>4 DEF Refused, Finishing, Move, BrokerInv, client
  <2>2. CASE pending.key = job
    <3>1. Pending /\ job = key /\ Asking /\ ~Queued /\ ~Finishes("ingress")
      BY <2>1, <2>2 DEF TokenInv, Pending, NoPending
    <3>2. pending' = NoPending /\ pc'["broker"] = "finish" /\ fin'["broker"].key = key
      BY <1>0, <1>4, <2>2, <3>1 DEF Refused, Finishing, Move
    <3>3. Asking' /\ ~Queued' /\ ~Pending' /\ ~Finishes("ingress")'
      BY <2>1, <3>1, <3>2 DEF Asking, Waiting, Queued, Pending, Finishes
    <3> QED
      BY <2>1, <3>2, <3>3 DEF TokenInv, Beginning, Finishes
  <2>3. CASE pending.key # job
    <3>1. UNCHANGED <<queue, job, pending, fin>> /\ pc'["broker"] = "recv"
      BY <1>0, <1>4, <2>3 DEF Refused, Move
    <3> QED
      BY <2>1, <3>1, TokenStays DEF Waiting, Beginning, Finishes
  <2> QED
    BY <2>2, <2>3
<1> QED
  BY <1>1, <1>2, <1>3, <1>4, TokenAtFinish DEF Broker

(* The ingress takes the pending key.                                      *)
LEMMA TokenAtIngress ==
  ASSUME TypeOK, TokenInv, Ingress
  PROVE  TokenInv'
<1> USE DEF Thread, Finisher
<1>0. pc \in [Thread -> Places] /\ fin \in [Finisher -> [key : Key, result : Result]]
  BY DEF TypeOK, BoardTypes
<1>1. CASE IngressWait \/ Bump("ingress") \/ IngressWake \/ IngressStop
  <2>1. /\ UNCHANGED <<slots, key, ticket, queue, job, pending, fin>>
        /\ pc'["ingress"] = pc["ingress"] \/ pc'["ingress"] \notin {"finish", "store"}
        /\ pc'["client"] = pc["client"] /\ pc'["broker"] = pc["broker"]
    BY <1>0, <1>1 DEF IngressWait, Bump, IngressWake, WakeBroker, IngressStop, RequestStop, Move,
                      coordinator, client, board, broker
  <2> QED
    BY <2>1, TokenStays DEF Waiting, Beginning, Finishes
<1>2. CASE Match
  <2>1. /\ UNCHANGED <<slots, key, ticket, queue, job>> /\ fin'["broker"] = fin["broker"]
        /\ pc'["client"] = pc["client"] /\ pc'["broker"] = pc["broker"]
        /\ pending' = NoPending
    BY <1>0, <1>2 DEF Match, Finishing, Move, client
  <2>2. CASE Pending
    <3>1. pc'["ingress"] = "finish" /\ fin'["ingress"].key = key
      BY <1>0, <1>2, <2>2 DEF Match, Finishing, Move, Pending, TokenInv
    <3>2. Asking' /\ ~Queued' /\ ~Pending' /\ ~Beginning' /\ ~Finishes("broker")'
      BY <2>1, <2>2 DEF TokenInv, Asking, Waiting, Queued, Pending, Beginning, Finishes
    <3> QED
      BY <2>1, <3>1, <3>2 DEF TokenInv, Finishes
  <2>3. CASE ~Pending
    <3>1. pc'["ingress"] = "stop" /\ UNCHANGED pending
      BY <1>0, <1>2, <2>1, <2>3 DEF Match, Move, Pending
    <3> QED
      BY <2>1, <2>3, <3>1
         DEF TokenInv, Asking, Waiting, Queued, Pending, Beginning, Finishes
  <2> QED
    BY <2>2, <2>3
<1> QED
  BY <1>1, <1>2, TokenAtFinish DEF Ingress

(* The key of the pass stays in one place.                                 *)
LEMMA TokenNext ==
  ASSUME TypeOK, TokenInv, SlotsInv, OwnerInv, BrokerInv, Next
  PROVE  TokenInv'
<1>0. pc \in [Thread -> Places]
  BY DEF TypeOK
<1>1. ASSUME UNCHANGED <<queue, job, pending, fin>>,
             ~Asking \/ (UNCHANGED <<slots, key, ticket>> /\ pc'["client"] = pc["client"]),
             pc'["broker"] = pc["broker"], pc'["ingress"] = pc["ingress"]
      PROVE  TokenInv'
  BY <1>1, TokenStays DEF Waiting, Beginning, Finishes, Finisher
<1>2. CASE Begin
  <2>1. ~Asking /\ UNCHANGED <<queue, job, pending, fin>>
    BY <1>2 DEF Begin, Move, Asking, Waiting, board, broker
  <2>2. pc'["broker"] = pc["broker"] /\ pc'["ingress"] = pc["ingress"]
    BY <1>0, <1>2 DEF Begin, Move, Thread
  <2> QED
    BY <1>1, <2>1, <2>2
<1>3. CASE Dispatcher
  BY <1>0, <1>1, <1>3 DEF Dispatcher, DispatcherWait, Dispatch, Reject, RejectRing, Move, Thread,
                          coordinator, client, board, broker
<1>4. CASE LaneTeam \/ Drop \/ StopFromOutside
  BY <1>0, <1>1, <1>4 DEF LaneTeam, Drop, StopFromOutside, Move, Thread,
                          coordinator, client, board, broker
<1>5. CASE JoinIngress
  <2>1. ~Asking
    BY <1>5 DEF JoinIngress, Move, OwnerInv, Asking, Waiting
  <2> QED
    BY <1>0, <1>1, <1>5, <2>1 DEF JoinIngress, Move, Thread, broker
<1>6. CASE OwnerStop \/ Bump("owner") \/ OwnerWake
  BY <1>0, <1>1, <1>6 DEF OwnerStop, Bump, OwnerWake, RequestStop, WakeBroker, Move, Thread,
                          coordinator, client, board, broker
<1>7. CASE JoinBroker \/ JoinDispatcher \/ DestroyBridge
  BY <1>0, <1>1, <1>7 DEF JoinBroker, JoinDispatcher, DestroyBridge, Move, Thread,
                          coordinator, client, board, broker
<1> QED
  BY <1>2, <1>3, <1>4, <1>5, <1>6, <1>7, TokenAtClient, TokenAtBroker, TokenAtIngress
     DEF Next, Owner

-----------------------------------------------------------------------------
(* The record of a pass in the rings, and the descriptor it borrows.       *)

(* A published completion is one more; the other cursors stay.             *)
LEMMA PublishFrame ==
  ASSUME B!TypeOK, NEW t, B!Publish(t)
  PROVE  /\ UNCHANGED <<stop, entered, sq, submissions, held, descriptors, free, edge, rung, taken>>
         /\ cq'.head = cq.head
BY DEF B!TypeOK, B!RingsTypes, B!Publish, B!admission, B!table, B!waits

(* A record between dispatch and publication is the next to be published.  *)
LEMMA NextIsPublishable ==
  ASSUME TypeOK, RingsInv, HolderInv, RecordInv, Took \/ Passing
  PROVE  /\ Took => B!Publishable(taken["submission"].ticket)
         /\ Passing => B!Publishable(active)
<1>1. /\ sq.head \in Nat /\ sq.tail \in Nat /\ cq.head \in Nat /\ cq.tail \in Nat
      /\ Capacity \in Nat \ {0}
  BY CapacityAssumption DEF TypeOK, B!TypeOK, B!RingsTypes
<1>2. cq.tail = cq.head /\ cq.tail # sq.head /\ Outstanding
  BY <1>1 DEF RingsInv, HolderInv, Outstanding
<1>3. submissions[cq.tail % Capacity].ticket = ticket
  BY <1>2 DEF RecordInv
<1>4. cq.tail - cq.head < Capacity
  BY <1>1, <1>2
<1>5. (Took => taken["submission"].ticket = ticket) /\ (Passing => active = ticket)
  BY DEF RecordInv
<1> QED
  BY <1>2, <1>3, <1>4, <1>5 DEF B!Publishable

(* A publication writes the ticket of the record's pass over its cell.     *)
LEMMA PublishKeepsRecord ==
  ASSUME TypeOK, RingsInv, RecordInv, HolderInv, NEW t, B!Publish(t), B!Publishable(t),
         t = ticket, cq.tail # sq.head,
         UNCHANGED <<ticket, id, active, ordered, pending>>, ~Took', ~Passing', ~ordered,
         pc'["ingress"] = pc["ingress"]
  PROVE  RecordInv'
<1>1. /\ sq.head \in Nat /\ sq.tail \in Nat /\ cq.head \in Nat /\ cq.tail \in Nat
      /\ completions \in [B!Cell -> Nat] /\ cq \in [head : Nat, tail : Nat]
  BY DEF TypeOK, B!TypeOK, B!RingsTypes
<1>2. cq.tail = cq.head
  BY <1>1 DEF RingsInv
<1>3. /\ UNCHANGED <<sq, submissions, held, edge, taken>> /\ cq'.head = cq.head
  BY PublishFrame DEF TypeOK
<1>4. cq.head % Capacity \in B!Cell
  BY <1>1, CellOf
<1>5. completions'[cq.head % Capacity] = ticket
  BY <1>1, <1>2, <1>4 DEF B!Publish
<1>6. Outstanding' = Outstanding /\ Arrived' = Arrived /\ Matching' = Matching
      /\ Record' = Record /\ Pending' = Pending
  BY <1>3 DEF Outstanding, Arrived, Matching, Record, Pending
<1> QED
  BY <1>3, <1>5, <1>6 DEF RecordInv

(* The record stays the one of the client's pass.                          *)
LEMMA RecordNext ==
  ASSUME TypeOK, RecordInv, RingsInv, HolderInv, TokenInv, BrokerInv, IngressInv, OwnerInv,
         SlotsInv, AdmissionInv, Next
  PROVE  RecordInv'
<1>0. /\ pc \in [Thread -> Places] /\ B!TypeOK /\ C!TypeOK /\ pending \in [key : Key, ticket : 0..MaxPass]
      /\ sq \in [head : Nat, tail : Nat] /\ cq \in [head : Nat, tail : Nat]
  BY DEF TypeOK, B!TypeOK, B!RingsTypes, BrokerTypes
<1>1. Record => Pending /\ Waiting /\ pc["broker"] \notin {"submit", "ring", "refuse", "refused"}
  BY DEF RecordInv, TokenInv, Asking, BrokerInv
<1>2. Outstanding \/ ~(Took \/ ordered \/ Passing)
  BY <1>0 DEF HolderInv, RingsInv, Outstanding
<1>frame. ASSUME UNCHANGED <<sq, cq, submissions, held, completions>>,
                 ~Record \/ UNCHANGED <<ticket, id, active>>,
                 ~Record \/ Pending',
                 Arrived' => Arrived /\ taken' = taken, Matching' => Arrived \/ Matching,
                 edge'["completion"] = "canceled" => edge["completion"] = "canceled",
                 Took' => Took /\ taken' = taken, ordered' \/ Passing' => ordered \/ Passing
          PROVE  RecordInv'
  <2>1. Outstanding' = Outstanding /\ (Record' => Record)
    BY <1>frame DEF Outstanding, Record
  <2>2. CASE ~Record
    <3>1. ~Outstanding /\ cq.tail = cq.head
      BY <1>0, <2>2 DEF Record, Outstanding, RingsInv
    <3> QED
      BY <1>2, <1>frame, <2>1, <2>2, <3>1 DEF RecordInv, Record
  <2>3. CASE Record
    BY <1>frame, <2>1, <2>3 DEF RecordInv
  <2> QED
    BY <2>2, <2>3
<1> USE DEF Thread, Move
<1>3. CASE Begin \/ Client
  <2>1. /\ UNCHANGED <<sq, cq, submissions, held, completions, edge, taken, active, ordered, crew, pending>>
        /\ \A p \in Thread \ {"client"} : pc'[p] = pc[p]
    BY <1>0, <1>3 DEF Begin, Client, ClientEnter, CreateDescriptor, Acquire, Send, Await, Awaken,
         FreeSlot, ReleaseDescriptor, B!Enter, B!CreateAndLeave, B!LeaveAfter, B!Release,
         bridge, B!rings, B!waits, team, coordinator, broker
  <2>2. ~Record \/ UNCHANGED <<ticket, id>>
    BY <1>1, <1>3 DEF Begin, Client, ClientEnter, CreateDescriptor, Acquire, Send, Await, Awaken,
         FreeSlot, ReleaseDescriptor, Waiting, coordinator, client
  <2> QED
    BY <1>1, <1>frame, <2>1, <2>2 DEF Arrived, Matching, Took, Passing, Pending
<1>4. CASE SubmitRecord
  <2> DEFINE i == cq.head % Capacity
  <2>1. /\ pc["broker"] = "ring" /\ pc'["broker"] = "edge"
        /\ \A p \in Thread \ {"broker"} : pc'[p] = pc[p]
        /\ UNCHANGED <<cq, completions, edge, taken, ordered, crew, pending, ticket, id, active>>
        /\ B!Submit(slots[job.slot].submission, id)
    BY <1>0, <1>4 DEF SubmitRecord, B!Submit, B!waits, team, coordinator, client, broker
  <2>2. ~Record /\ Pending /\ pending.key = job
    BY <2>1 DEF BrokerInv
  <2>3. Asking /\ pending.key = key /\ ticket # 0
    BY <2>2 DEF TokenInv, Asking, Waiting, SlotsInv
  <2>4. slots[job.slot].submission = ticket
    BY <2>2, <2>3 DEF Asking, Waiting, SlotsInv
  <2>5. sq.tail = cq.head /\ cq.tail = cq.head /\ ~(Took \/ ordered \/ Passing)
    BY <1>0, <1>2, <2>2 DEF Record, Outstanding, RingsInv
  <2>6. i \in B!Cell
    BY <1>0, CellOf
  <2>7. submissions'[i] = [ticket |-> ticket, id |-> id] /\ held'[i] = id
    BY <1>0, <2>1, <2>4, <2>5, <2>6 DEF B!Submit, B!TypeOK, B!RingsTypes
  <2>8. ~Arrived' /\ ~Matching' /\ ~Took' /\ ~ordered' /\ ~Passing' /\ Pending'
    BY <2>1, <2>2, <2>5 DEF Record, Arrived, Matching, Took, Passing, Pending
  <2>9. edge["completion"] # "canceled"
    <3>1. entered # 0
      BY <2>1 DEF AdmissionInv
    <3> QED
      BY <3>1 DEF AdmissionInv, B!Bell
  <2>10. cq'.tail = cq'.head /\ edge'["completion"] # "canceled"
    BY <2>1, <2>5, <2>9
  <2>11. /\ submissions'[cq'.head % Capacity] = [ticket |-> ticket, id |-> id]
         /\ held'[cq'.head % Capacity] = id
    BY <2>1, <2>7
  <2> QED
    BY <2>1, <2>8, <2>10, <2>11 DEF RecordInv
<1>5. CASE Receive \/ SubmitEnter \/ SubmitLeave \/ PollEdge \/ Repoll \/ BrokerStop
           \/ Finish("broker")
  <2>1. /\ UNCHANGED <<sq, cq, submissions, held, completions, edge, taken, active, ordered, crew>>
        /\ UNCHANGED <<pending, ticket, id>>
        /\ \A p \in Thread \ {"broker"} : pc'[p] = pc[p]
    BY <1>0, <1>5 DEF Receive, SubmitEnter, SubmitLeave, PollEdge, Repoll, BrokerStop,
         RequestStop, Finish, FinishClaim, FinishStore, FinishReady, B!Enter, B!LeaveAfter,
         B!RequestStop, bridge, B!rings, B!waits, team, coordinator, client, broker
  <2> QED
    BY <1>1, <1>frame, <2>1 DEF Arrived, Matching, Took, Passing, Pending
<1>6. CASE BeginJob \/ Refused
  <2>1. /\ UNCHANGED <<sq, cq, submissions, held, completions, edge, taken, active, ordered, crew>>
        /\ UNCHANGED <<ticket, id>> /\ pc["broker"] \in {"begin", "refused"}
        /\ \A p \in Thread \ {"broker"} : pc'[p] = pc[p]
    BY <1>0, <1>6 DEF BeginJob, Refused, bridge, team, client
  <2>2. ~Record
    BY <1>1, <2>1 DEF TokenInv, Beginning
  <2> QED
    BY <1>frame, <2>1, <2>2 DEF Arrived, Matching, Took, Passing
<1>7. CASE Match
  <2>1. /\ UNCHANGED <<sq, cq, submissions, held, completions, edge, taken, active, ordered, crew>>
        /\ UNCHANGED <<ticket, id>> /\ pc["ingress"] = "match"
        /\ pc'["ingress"] \in {"stop", "finish"}
        /\ \A p \in Thread \ {"ingress"} : pc'[p] = pc[p]
    BY <1>0, <1>7 DEF Match, bridge, team, client
  <2>2. ~Outstanding
    BY <2>1 DEF RecordInv, IngressInv, Matching
  <2>3. cq.tail = cq.head /\ ~(Took \/ ordered \/ Passing)
    BY <1>0, <1>2, <2>2 DEF Outstanding, RingsInv
  <2>4. ~Outstanding' /\ ~Arrived' /\ ~Matching' /\ ~Took' /\ ~ordered' /\ ~Passing'
    BY <2>1, <2>2, <2>3 DEF Outstanding, Arrived, Matching, Took, Passing
  <2> QED
    BY <2>1, <2>3, <2>4 DEF RecordInv, Record
<1>8. CASE Finish("ingress") \/ Bump("ingress") \/ IngressWake \/ IngressStop
  <2>1. /\ UNCHANGED <<sq, cq, submissions, held, completions, taken, active, ordered, crew>>
        /\ UNCHANGED <<pending, ticket, id>> /\ edge'["submission"] = edge["submission"]
        /\ edge' = edge \/ edge'["completion"] = "load"
        /\ pc["ingress"] \notin {"edge", "match"} /\ pc'["ingress"] # "match"
        /\ (pc'["ingress"] = "edge" => edge'["completion"] = "load")
        /\ \A p \in Thread \ {"ingress"} : pc'[p] = pc[p]
    BY <1>0, <1>8 DEF Finish, FinishClaim, FinishStore, FinishReady, AfterFinish, Bump,
         IngressWake, WakeBroker, IngressStop, RequestStop, B!RequestStop, B!WaitAgain, B!EdgeTo,
         B!TypeOK, B!WaitsTypes, B!Bell, bridge, B!rings, team, client, broker
  <2>2. ~Arrived' /\ ~Matching'
    BY <2>1 DEF Arrived, Matching
  <2> QED
    BY <1>1, <1>frame, <2>1, <2>2 DEF Took, Passing, Pending
<1>9. CASE IngressWait
  <2>1. /\ UNCHANGED <<submissions, completions, active, ordered, crew, pending, ticket, id>>
        /\ edge'["submission"] = edge["submission"]
        /\ taken'["submission"] = taken["submission"]
        /\ pc["ingress"] = "edge" /\ \A p \in Thread \ {"ingress"} : pc'[p] = pc[p]
    BY <1>0, <1>9 DEF IngressWait, B!EdgeStep, B!Load, B!Look, B!Wait, B!EdgeTo, B!TakeRecord,
         B!Release, B!TypeOK, B!WaitsTypes, B!Bell, bridge, B!rings, B!waits, team, coordinator,
         client, broker
  <2>3. CASE B!Load("completion") \/ B!Wait("completion")
    <3>1. /\ UNCHANGED <<sq, cq, held, taken>> /\ edge'["completion"] = "look"
          /\ pc'["ingress"] = "edge"
      BY <1>0, <1>9, <2>3
         DEF IngressWait, B!Load, B!Wait, B!EdgeTo, B!TypeOK, B!WaitsTypes, B!Bell, B!rings
    <3> QED
      BY <1>1, <1>frame, <2>1, <3>1 DEF Arrived, Matching, Took, Passing, Pending
  <2>4. CASE B!Look("completion") /\ ~B!CanTake("completion")
    <3>1. /\ UNCHANGED <<sq, cq, held, taken>> /\ pc'["ingress"] = "edge"
          /\ edge["completion"] = "look"
          /\ edge'["completion"] = (IF B!Drained("completion") THEN "canceled" ELSE "wait")
      BY <1>0, <1>9, <2>4
         DEF IngressWait, B!Look, B!EdgeTo, B!TypeOK, B!WaitsTypes, B!Bell, B!rings
    <3>2. edge'["completion"] = "canceled" => ~Outstanding
      BY <3>1 DEF B!Drained, Outstanding
    <3>3. ~Arrived' /\ ~Matching' /\ Outstanding' = Outstanding
      BY <3>1 DEF Arrived, Matching, Outstanding
    <3> QED
      BY <2>1, <3>1, <3>2, <3>3 DEF RecordInv, Record, Took, Passing, Pending
  <2>5. CASE B!Look("completion") /\ B!CanTake("completion")
    <3> DEFINE i == cq.head % Capacity
    <3>1. /\ pc'["ingress"] = "edge" /\ edge'["completion"] = "taken"
          /\ taken'["completion"] = [ticket |-> completions[i], id |-> held[i]]
          /\ sq' = sq /\ cq'.tail = cq.tail /\ cq'.head = cq.head + 1
      BY <1>0, <1>9, <2>5 DEF IngressWait, B!Look, B!TakeRecord, B!EdgeTo, B!TypeOK, B!WaitsTypes,
           B!Bell, B!rings
    <3>2. cq.head # cq.tail
      BY <2>5 DEF B!CanTake
    <3>3. sq.tail = cq.head + 1 /\ cq.tail = cq.head + 1 /\ sq.head = sq.tail /\ Outstanding
      BY <1>0, <3>2 DEF RingsInv, Outstanding
    <3>4. taken'["completion"].id = id /\ Pending /\ ~(Took \/ ordered \/ Passing)
      BY <1>0, <3>1, <3>3 DEF RecordInv, Record, HolderInv
    <3>5. /\ ~Outstanding' /\ cq'.tail = cq'.head /\ Pending'
          /\ ~Took' /\ ~ordered' /\ ~Passing'
      BY <2>1, <3>1, <3>3, <3>4 DEF Outstanding, Pending, Took, Passing
    <3> HIDE DEF i
    <3> QED
      BY <2>1, <3>1, <3>4, <3>5 DEF RecordInv
  <2>6. CASE edge["completion"] \in {"taken", "canceled"}
    <3>1. UNCHANGED <<sq, cq, held, taken, edge>> /\ pc'["ingress"] = "match"
      BY <1>0, <1>9, <2>6
         DEF IngressWait, B!EdgeStep, B!Load, B!Look, B!Wait, B!Release, B!rings, B!waits, bridge
    <3> QED
      BY <1>1, <1>frame, <2>1, <2>6, <3>1 DEF Arrived, Matching, Took, Passing, Pending
  <2> QED
    BY <1>9, <2>3, <2>4, <2>5, <2>6 DEF IngressWait, B!EdgeStep
<1>10. CASE DispatcherWait
  <2>1. /\ UNCHANGED <<cq, submissions, completions, active, ordered, crew, pending, ticket, id>>
        /\ edge'["completion"] = edge["completion"]
        /\ taken'["completion"] = taken["completion"]
        /\ pc["dispatcher"] = "edge" /\ \A p \in Thread \ {"dispatcher"} : pc'[p] = pc[p]
        /\ held' = held
    BY <1>0, <1>10 DEF DispatcherWait, B!EdgeStep, B!Load, B!Look, B!Wait, B!EdgeTo,
         B!TakeRecord, B!TypeOK, B!WaitsTypes, B!Bell, bridge, B!rings, team, coordinator,
         client, broker
  <2>2. CASE B!Look("submission") /\ B!CanTake("submission")
    <3>1. /\ taken'["submission"] = submissions[sq.head % Capacity]
          /\ sq'.tail = sq.tail /\ edge["submission"] = "look" /\ pc' = pc
      BY <1>0, <1>10, <2>2 DEF DispatcherWait, B!Look, B!TakeRecord, B!EdgeTo, B!TypeOK,
           B!WaitsTypes, B!Bell
    <3>2. sq.head # sq.tail
      BY <2>2 DEF B!CanTake
    <3>3. sq.head = cq.head /\ cq.tail = cq.head /\ Outstanding
      BY <1>0, <3>2 DEF RingsInv, Outstanding
    <3>4. submissions[sq.head % Capacity].ticket = ticket
      BY <3>3 DEF RecordInv
    <3>5. Outstanding' /\ Arrived' = Arrived /\ Matching' = Matching /\ Pending' = Pending
      BY <2>1, <3>1, <3>3 DEF Outstanding, Arrived, Matching, Pending
    <3> QED
      BY <2>1, <3>1, <3>3, <3>4, <3>5 DEF RecordInv, Record, Passing
  <2>3. CASE B!Load("submission") \/ B!Wait("submission") \/ edge["submission"] = "canceled"
             \/ (B!Look("submission") /\ ~B!CanTake("submission"))
    <3>1. UNCHANGED <<sq, taken>> /\ (pc' # pc \/ edge'["submission"] # "taken")
      BY <1>0, <1>10, <2>3 DEF DispatcherWait, B!EdgeStep, B!Load, B!Look, B!Wait, B!EdgeTo,
           B!TypeOK, B!WaitsTypes, B!Bell, bridge, B!rings
    <3>2. ~Took'
      BY <1>0, <1>10, <2>1, <3>1
         DEF DispatcherWait, B!EdgeStep, B!Load, B!Look, B!Wait, Took, bridge
    <3> QED
      BY <1>1, <1>frame, <2>1, <3>1, <3>2 DEF Arrived, Matching, Passing, Pending
  <2> QED
    BY <1>10, <2>2, <2>3 DEF DispatcherWait, B!EdgeStep
<1>11. CASE Dispatch
  <2>1. /\ UNCHANGED <<sq, cq, submissions, held, completions, taken, crew, pending, ticket, id, pc>>
        /\ edge'["completion"] = edge["completion"] /\ edge'["submission"] = "load"
        /\ active' = taken["submission"].ticket /\ Took
    BY <1>0, <1>11 DEF Dispatch, B!WaitAgain, B!EdgeTo, B!TypeOK, B!WaitsTypes, B!Bell, B!rings,
         client, broker, Took
  <2>2. active' = ticket /\ ~Took'
    BY <2>1 DEF RecordInv, Took
  <2>3. Outstanding' = Outstanding /\ Arrived' = Arrived /\ Matching' = Matching
        /\ Pending' = Pending
    BY <2>1 DEF Outstanding, Arrived, Matching, Pending
  <2> QED
    BY <2>1, <2>2, <2>3 DEF RecordInv, Record
<1>12. CASE Reject
  <2>1. /\ Took /\ B!Publish(taken["submission"].ticket) /\ pc'["dispatcher"] = "again"
        /\ UNCHANGED <<ticket, id, active, ordered, crew, pending>>
        /\ pc'["ingress"] = pc["ingress"]
    BY <1>0, <1>12 DEF Reject, Took, team, coordinator, client, broker
  <2>2. taken["submission"].ticket = ticket /\ B!Publishable(taken["submission"].ticket)
        /\ cq.tail # sq.head /\ ~ordered /\ ~Passing
    BY <2>1, NextIsPublishable DEF RecordInv, HolderInv
  <2>3. ~Took' /\ ~Passing'
    BY <2>1, <2>2 DEF Took, Passing
  <2> QED
    BY <2>1, <2>2, <2>3, PublishKeepsRecord
<1>13. CASE LaneTeam
  <2>1. UNCHANGED <<pc, ticket, id, active, pending>>
    BY <1>13 DEF LaneTeam, coordinator, client, broker
  <2>2. CASE C!Publish /\ B!Publish(active)
    <3>1. Passing /\ ~Passing' /\ UNCHANGED ordered
      BY <2>2 DEF C!Publish, Passing
    <3>2. active = ticket /\ B!Publishable(active) /\ cq.tail # sq.head /\ ~ordered /\ ~Took
      BY <3>1, NextIsPublishable DEF RecordInv, HolderInv
    <3>3. ~Took'
      BY <2>1, <2>2, <3>2, PublishFrame DEF Took, TypeOK
    <3> QED
      BY <2>1, <2>2, <3>1, <3>2, <3>3, PublishKeepsRecord
  <2>3. CASE ~(C!Publish /\ B!Publish(active))
    <3>1. /\ UNCHANGED <<sq, cq, submissions, held, completions, edge, taken>>
          /\ (ordered' \/ Passing' => ordered \/ Passing)
      BY <1>13, <2>3 DEF LaneTeam, C!Start, C!Land, C!Go, C!Ring, B!Ring, Passing, bridge, B!rings
    <3> QED
      BY <1>1, <1>frame, <2>1, <3>1 DEF Arrived, Matching, Took, Pending
  <2> QED
    BY <2>2, <2>3
<1>14. CASE RejectRing
  <2>1. /\ UNCHANGED <<sq, cq, submissions, held, completions, taken, active, ordered, crew>>
        /\ UNCHANGED <<pending, ticket, id>> /\ edge'["completion"] = edge["completion"]
        /\ edge'["submission"] = "load" /\ pc'["ingress"] = pc["ingress"]
    BY <1>0, <1>14 DEF RejectRing, B!TypeOK, B!WaitsTypes, B!Bell, team, coordinator, client, broker
  <2> QED
    BY <1>1, <1>frame, <2>1 DEF Arrived, Matching, Took, Passing, Pending
<1>15. CASE OwnerStop \/ Bump("owner") \/ OwnerWake \/ Drop \/ StopFromOutside
  <2>1. /\ UNCHANGED <<sq, cq, submissions, held, completions, edge, taken, active, ordered, crew>>
        /\ UNCHANGED <<pending, ticket, id>> /\ \A p \in Thread \ {"owner"} : pc'[p] = pc[p]
    BY <1>0, <1>15 DEF OwnerStop, RequestStop, Bump, OwnerWake, WakeBroker, Drop,
         StopFromOutside, B!RequestStop, bridge, B!rings, team, coordinator, client, broker
  <2> QED
    BY <1>1, <1>frame, <2>1 DEF Arrived, Matching, Took, Passing, Pending
<1>16. CASE JoinIngress
  <2>1. /\ UNCHANGED <<sq, cq, submissions, held, completions, edge, taken, active, ordered, crew>>
        /\ UNCHANGED <<pending, ticket, id>> /\ \A p \in Thread \ {"owner"} : pc'[p] = pc[p]
    BY <1>0, <1>16 DEF JoinIngress, bridge, team, client, broker
  <2> QED
    BY <1>1, <1>frame, <2>1 DEF Arrived, Matching, Took, Passing, Pending
<1>17. CASE JoinBroker \/ JoinDispatcher \/ DestroyBridge
  <2>1. /\ UNCHANGED <<sq, cq, submissions, held, completions, edge, taken, active, ordered, crew>>
        /\ UNCHANGED <<pending, ticket, id>> /\ \A p \in Thread \ {"owner"} : pc'[p] = pc[p]
    BY <1>0, <1>17 DEF JoinBroker, JoinDispatcher, DestroyBridge, B!Destroy, bridge, B!rings,
         B!waits, team, coordinator, client, broker
  <2> QED
    BY <1>1, <1>frame, <2>1 DEF Arrived, Matching, Took, Passing, Pending
<1> QED
  BY <1>3, <1>4, <1>5, <1>6, <1>7, <1>8, <1>9, <1>10, <1>11, <1>12, <1>13, <1>14, <1>15,
     <1>16, <1>17 DEF Next, Broker, Ingress, Dispatcher, Owner

(* A step of anyone else that neither adds nor takes a reference.          *)
LEMMA DescriptorsStay ==
  ASSUME DescriptorsInv, UNCHANGED <<id, descriptors, free>>, ClientHolds' = ClientHolds,
         ~ClientHolds \/ References' = References
  PROVE  DescriptorsInv'
BY DEF DescriptorsInv

(* The client's descriptor stays live, with a reference for each holder.   *)
LEMMA DescriptorsNext ==
  ASSUME TypeOK, DescriptorsInv, RecordInv, RingsInv, TokenInv, BrokerInv, Next
  PROVE  DescriptorsInv'
<1>0. /\ pc \in [Thread -> Places] /\ B!TypeOK /\ id \in B!Id
      /\ sq \in [head : Nat, tail : Nat] /\ cq \in [head : Nat, tail : Nat]
      /\ descriptors \in [1..Descriptors -> B!DescriptorSlot] /\ free \in Seq(1..Descriptors)
  BY DEF TypeOK, ClientTypes, B!TypeOK, B!RingsTypes, B!TableTypes
<1>1. Outstanding \/ Arrived => Waiting
  BY DEF RecordInv, Record, TokenInv, Asking
<1>2. \A n \in 1..Len(free) : free[n] \in 1..Descriptors
  BY <1>0, ElementOfSeq
<1>i. ClientHolds => id.slot \in 1..Descriptors
  BY <1>0 DEF DescriptorsInv, B!Id
<1>frame. ASSUME UNCHANGED <<id, descriptors, free>>, pc'["client"] = pc["client"],
                 Outstanding' = Outstanding, Arrived' = Arrived
          PROVE  DescriptorsInv'
  BY <1>frame, DescriptorsStay DEF ClientHolds, References
<1> USE DEF Thread, Move
<1>3. CASE Begin \/ ClientEnter \/ (CreateDescriptor /\ free = <<>>)
  <2>1. UNCHANGED <<descriptors, free>> /\ ~ClientHolds /\ ~ClientHolds'
    BY <1>0, <1>3 DEF Begin, ClientEnter, CreateDescriptor, B!Enter, B!CreateAndLeave, B!table,
         bridge, ClientHolds
  <2> QED
    BY <2>1 DEF DescriptorsInv
<1>4. CASE Acquire \/ Send \/ Await \/ Awaken \/ FreeSlot
  <2>1. UNCHANGED <<id, descriptors, free, sq, cq, edge>> /\ ClientHolds /\ ClientHolds'
        /\ pc'["ingress"] = pc["ingress"]
    BY <1>0, <1>4 DEF Acquire, Send, Await, Awaken, FreeSlot, ClientHolds, bridge,
         coordinator, client
  <2> QED
    BY <2>1, DescriptorsStay DEF References, Outstanding, Arrived
<1>5. CASE CreateDescriptor /\ free # <<>>
  <2> DEFINE d == free[Len(free)]
             rest == SubSeq(free, 1, Len(free) - 1)
  <2>1. /\ d \in 1..Descriptors /\ Len(free) \in 1..Len(free) /\ Len(free) \in Nat \ {0}
        /\ rest \in Seq(1..Descriptors) /\ Len(rest) = Len(free) - 1
        /\ \A n \in 1..Len(rest) : n \in 1..Len(free) /\ rest[n] = free[n]
    BY <1>0, <1>5, PopProperties
  <2> HIDE DEF rest
  <2>2. /\ descriptors' = [descriptors EXCEPT ![d] =
                [generation |-> descriptors[d].generation + 1, refs |-> 1, state |-> "live"]]
        /\ free' = rest
        /\ id' = [slot |-> d, generation |-> descriptors[d].generation + 1]
        /\ pc["client"] = "leave" /\ pc'["client"] = "acquire"
        /\ UNCHANGED <<sq, cq, edge>> /\ pc'["ingress"] = pc["ingress"]
    BY <1>0, <1>5
       DEF CreateDescriptor, B!CreateAndLeave, B!LeaveAfter, B!NextId, B!rings, rest
  <2>3. ~ClientHolds /\ ~Outstanding' /\ ~Arrived'
    BY <1>1, <2>2 DEF ClientHolds, Outstanding, Arrived, Waiting
  <2>4. /\ ClientHolds' /\ References' = 1
        /\ descriptors'[d] = [generation |-> descriptors[d].generation + 1, refs |-> 1,
                              state |-> "live"]
        /\ \A e \in 1..Descriptors : e # d => descriptors'[e] = descriptors[e]
    BY <1>0, <2>1, <2>2, <2>3 DEF ClientHolds, References
  <2>5. \A e \in 1..Descriptors : descriptors'[e].state = "live" => e = d
    BY <2>3, <2>4 DEF DescriptorsInv
  <2>6. \A n \in 1..Len(rest) : rest[n] \in 1..Descriptors /\ rest[n] # d
    <3>1. \A n \in 1..Len(rest) : n # Len(free)
      BY <2>1
    <3> QED
      BY <1>2, <2>1, <3>1 DEF DescriptorsInv
  <2>7. \A n \in 1..Len(rest) : /\ descriptors'[rest[n]].state = "free"
                                /\ descriptors'[rest[n]].generation # MaxGeneration
    <3>1. \A n \in 1..Len(rest) : descriptors'[rest[n]] = descriptors[free[n]]
      BY <2>1, <2>4, <2>6
    <3> QED
      BY <2>1, <3>1 DEF DescriptorsInv
  <2>8. \A m, n \in 1..Len(rest) : rest[m] = rest[n] => m = n
    BY <2>1 DEF DescriptorsInv
  <2>9. id'.slot = d /\ id'.generation = descriptors[d].generation + 1 /\ d # 0
    BY <2>1, <2>2
  <2> QED
    BY <2>2, <2>4, <2>5, <2>7, <2>8, <2>9 DEF DescriptorsInv
<1>6. CASE ReleaseDescriptor
  <2>1. /\ pc["client"] = "release" /\ ~ClientHolds' /\ B!Release(id) /\ UNCHANGED id
    BY <1>0, <1>6 DEF ReleaseDescriptor, ClientHolds, coordinator, client
  <2>2. /\ id.slot \in 1..Descriptors /\ id.slot # 0
        /\ descriptors[id.slot] = [generation |-> id.generation, refs |-> 1, state |-> "live"]
        /\ \A d \in 1..Descriptors : descriptors[d].state = "live" => d = id.slot
    BY <1>1, <1>i, <2>1 DEF DescriptorsInv, ClientHolds, References, Waiting
  <2>3. \A n \in 1..Len(free) : free[n] # id.slot
    BY <2>2 DEF DescriptorsInv
  <2>4. /\ \A d \in 1..Descriptors : d # id.slot => descriptors'[d] = descriptors[d]
        /\ descriptors'[id.slot] =
             [generation |-> id.generation, refs |-> 0,
              state |-> IF id.generation = MaxGeneration THEN "retired" ELSE "free"]
        /\ free' = IF id.generation = MaxGeneration THEN free ELSE Append(free, id.slot)
    <3>1. B!Matches(id)
      BY <2>2 DEF B!Matches
    <3>2. descriptors' = [descriptors EXCEPT ![id.slot] =
             [generation |-> id.generation, refs |-> 0,
              state |-> IF id.generation = MaxGeneration THEN "retired" ELSE "free"]]
      BY <2>1, <2>2, <3>1 DEF B!Release
    <3>3. free' = IF id.generation = MaxGeneration THEN free ELSE Append(free, id.slot)
      BY <2>1, <2>2, <3>1 DEF B!Release
    <3> QED
      BY <1>0, <2>2, <3>2, <3>3
  <2>5. \A d \in 1..Descriptors : descriptors'[d].state # "live"
    BY <2>2, <2>4
  <2>6. CASE id.generation = MaxGeneration
    <3>1. \A n \in 1..Len(free) : descriptors'[free[n]] = descriptors[free[n]]
      BY <1>2, <2>3, <2>4
    <3> QED
      BY <2>1, <2>4, <2>5, <2>6, <3>1 DEF DescriptorsInv
  <2>7. CASE id.generation # MaxGeneration
    <3> DEFINE t == Append(free, id.slot)
    <3>1. /\ \A n \in 1..Len(t) : (n \in 1..Len(free) /\ t[n] = free[n]) \/ t[n] = id.slot
          /\ \A m, n \in 1..Len(t) : t[m] = t[n] => m = n
      BY <1>0, <2>2, <2>3, PushProperties DEF DescriptorsInv
    <3>2. free' = t
      BY <2>4, <2>7
    <3> HIDE DEF t
    <3>3. \A n \in 1..Len(t) : /\ descriptors'[t[n]].state = "free"
                               /\ descriptors'[t[n]].generation # MaxGeneration
      BY <1>2, <2>3, <2>4, <2>7, <3>1 DEF DescriptorsInv
    <3> QED
      BY <2>1, <2>5, <3>1, <3>2, <3>3 DEF DescriptorsInv
  <2> QED
    BY <2>6, <2>7
<1>7. CASE SubmitRecord
  <2>1. /\ pc["broker"] = "ring" /\ pc'["client"] = pc["client"] /\ pc'["ingress"] = pc["ingress"]
        /\ UNCHANGED <<id, free, cq, edge>>
        /\ descriptors' = [descriptors EXCEPT ![id.slot].refs = @ + 1]
        /\ sq'.tail = sq.tail + 1
    BY <1>0, <1>7 DEF SubmitRecord, B!Submit, B!Retained, B!waits, coordinator, client
  <2>2. ~Outstanding /\ ~Arrived /\ ClientHolds
    BY <2>1 DEF BrokerInv, Record, TokenInv, Asking, Waiting, ClientHolds
  <2>3. Outstanding' /\ ClientHolds'
    BY <1>0, <2>1, <2>2 DEF Outstanding, ClientHolds
  <2>4. descriptors[id.slot] = [generation |-> id.generation, refs |-> 1, state |-> "live"]
    BY <2>2 DEF DescriptorsInv, References
  <2>5. /\ descriptors'[id.slot] = [generation |-> id.generation, refs |-> 2, state |-> "live"]
        /\ \A d \in 1..Descriptors : d # id.slot => descriptors'[d] = descriptors[d]
    BY <1>0, <1>i, <2>1, <2>2, <2>4
  <2>6. References' = 2
    BY <2>3 DEF References
  <2>7. \A n \in 1..Len(free) : free[n] # id.slot
    BY <2>4 DEF DescriptorsInv
  <2>8. \A n \in 1..Len(free) : descriptors'[free[n]] = descriptors[free[n]]
    BY <1>2, <2>5, <2>7
  <2> QED
    BY <2>1, <2>2, <2>3, <2>5, <2>6, <2>8 DEF DescriptorsInv
<1>8. CASE IngressWait
  <2>1. /\ pc["ingress"] = "edge" /\ pc'["client"] = pc["client"] /\ UNCHANGED id
    BY <1>0, <1>8 DEF IngressWait, coordinator, client
  <2>2. CASE B!EdgeStep("completion")
    <3>1. UNCHANGED <<descriptors, free, pc>> /\ edge["completion"] # "taken"
      BY <1>8, <2>2 DEF IngressWait, B!EdgeStep, B!Load, B!Look, B!Wait, B!table
    <3>2. (Outstanding \/ Arrived)' = (Outstanding \/ Arrived)
      <4>1. CASE B!Load("completion") \/ B!Wait("completion")
                 \/ (B!Look("completion") /\ ~B!CanTake("completion"))
        <5>1. UNCHANGED <<sq, cq>> /\ edge'["completion"] # "taken"
          BY <1>0, <4>1 DEF B!Load, B!Look, B!Wait, B!EdgeTo, B!rings, B!TypeOK, B!WaitsTypes, B!Bell
        <5> QED
          BY <3>1, <5>1 DEF Outstanding, Arrived
      <4>2. CASE B!Look("completion") /\ B!CanTake("completion")
        <5>1. edge'["completion"] = "taken" /\ cq.head # cq.tail
          BY <1>0, <4>2
             DEF B!Look, B!CanTake, B!EdgeTo, B!TypeOK, B!WaitsTypes, B!Bell
        <5> QED
          BY <1>0, <2>1, <3>1, <5>1 DEF Outstanding, Arrived, RingsInv
      <4> QED
        BY <2>2, <4>1, <4>2 DEF B!EdgeStep
    <3> QED
      BY <2>1, <3>1, <3>2, DescriptorsStay DEF ClientHolds, References
  <2>3. CASE edge["completion"] = "taken"
    <3>1. /\ B!Release(taken["completion"].id) /\ pc'["ingress"] = "match"
          /\ UNCHANGED <<sq, cq>>
      BY <1>0, <1>8, <2>3 DEF IngressWait, B!EdgeStep, B!Load, B!Look, B!Wait, B!Release, B!rings
    <3>2. Arrived /\ taken["completion"].id = id /\ ~Outstanding /\ ClientHolds
      BY <1>1, <2>1, <2>3 DEF Arrived, RecordInv, ClientHolds, Waiting
    <3>3. ClientHolds' /\ References' = 1
      BY <2>1, <3>1, <3>2 DEF ClientHolds, References, Outstanding, Arrived
    <3>4. /\ descriptors[id.slot] = [generation |-> id.generation, refs |-> 2, state |-> "live"]
          /\ \A d \in 1..Descriptors : descriptors[d].state = "live" => d = id.slot
          /\ id.slot # 0
      BY <3>2 DEF DescriptorsInv, References
    <3>5. descriptors' = [descriptors EXCEPT ![id.slot] =
                            [generation |-> id.generation, refs |-> 1, state |-> "live"]]
          /\ free' = free
      <4>1. B!Matches(id)
        BY <3>4 DEF B!Matches
      <4> QED
        BY <3>1, <3>2, <3>4, <4>1 DEF B!Release
    <3>6. /\ descriptors'[id.slot] = [generation |-> id.generation, refs |-> 1, state |-> "live"]
          /\ \A d \in 1..Descriptors : d # id.slot => descriptors'[d] = descriptors[d]
      BY <1>0, <1>i, <3>2, <3>5
    <3>7. \A n \in 1..Len(free) : descriptors'[free[n]] = descriptors[free[n]]
      <4>1. \A n \in 1..Len(free) : free[n] # id.slot
        BY <3>4 DEF DescriptorsInv
      <4> QED
        BY <1>2, <3>6, <4>1
    <3> QED
      BY <2>1, <3>2, <3>3, <3>4, <3>5, <3>6, <3>7 DEF DescriptorsInv
  <2>4. CASE edge["completion"] = "canceled"
    <3>1. UNCHANGED <<descriptors, free, sq, cq, edge>> /\ pc'["ingress"] = "match"
      BY <1>0, <1>8, <2>4 DEF IngressWait, B!EdgeStep, B!Load, B!Look, B!Wait, bridge
    <3> QED
      BY <1>frame, <2>1, <2>4, <3>1 DEF Outstanding, Arrived
  <2> QED
    BY <1>8, <2>2, <2>3, <2>4 DEF IngressWait
<1>9. CASE Reject \/ LaneTeam
  <2>1. /\ pc'["ingress"] = pc["ingress"] /\ pc'["client"] = pc["client"] /\ UNCHANGED id
    BY <1>0, <1>9 DEF Reject, LaneTeam, coordinator, client
  <2>2. UNCHANGED <<descriptors, free, sq, edge>> /\ cq'.head = cq.head
    <3>1. CASE \E t \in {active, taken["submission"].ticket} : B!Publish(t)
      BY <1>0, <3>1, PublishFrame
    <3>2. CASE UNCHANGED bridge \/ B!Ring("completion")
      BY <3>2 DEF bridge, B!Ring, B!rings, B!table
    <3> QED
      BY <1>9, <3>1, <3>2 DEF Reject, LaneTeam
  <2> QED
    BY <1>frame, <2>1, <2>2 DEF Outstanding, Arrived
<1>10. CASE Receive \/ BeginJob \/ Refused \/ SubmitEnter \/ SubmitLeave \/ PollEdge \/ Repoll
            \/ BrokerStop \/ Finish("broker")
  <2>1. UNCHANGED <<id, descriptors, free, sq, cq, edge>> /\ pc'["ingress"] = pc["ingress"]
        /\ pc'["client"] = pc["client"]
    BY <1>0, <1>10 DEF Receive, BeginJob, Refused, SubmitEnter, SubmitLeave, PollEdge, Repoll,
         BrokerStop, RequestStop, Finish, FinishClaim, FinishStore, FinishReady, B!Enter,
         B!LeaveAfter, B!RequestStop, B!rings, B!table, B!waits, bridge, coordinator, client
  <2> QED
    BY <1>frame, <2>1 DEF Outstanding, Arrived
<1>11. CASE Match \/ Finish("ingress") \/ Bump("ingress") \/ IngressWake \/ IngressStop
  <2>1. /\ UNCHANGED <<id, descriptors, free, sq, cq>> /\ pc["ingress"] # "edge"
        /\ pc'["ingress"] = "edge" => edge'["completion"] # "taken"
        /\ pc'["client"] = pc["client"]
    BY <1>0, <1>11 DEF Match, Finish, FinishClaim, FinishStore, FinishReady, AfterFinish, Bump,
         IngressWake, WakeBroker, IngressStop, RequestStop, B!RequestStop, B!WaitAgain, B!EdgeTo,
         B!TypeOK, B!WaitsTypes, B!Bell, B!rings, B!table, bridge, client
  <2> QED
    BY <1>frame, <2>1 DEF Outstanding, Arrived
<1>12. CASE DispatcherWait \/ Dispatch \/ RejectRing
  <2>1. /\ UNCHANGED <<id, descriptors, free, cq>> /\ sq'.tail = sq.tail
        /\ edge'["completion"] = edge["completion"] /\ pc'["ingress"] = pc["ingress"]
        /\ pc'["client"] = pc["client"]
    BY <1>0, <1>12 DEF DispatcherWait, Dispatch, RejectRing, B!EdgeStep, B!Load, B!Look, B!Wait,
         B!EdgeTo, B!TakeRecord, B!WaitAgain, B!TypeOK, B!WaitsTypes, B!Bell, B!rings, B!table,
         bridge, coordinator, client
  <2> QED
    BY <1>frame, <2>1 DEF Outstanding, Arrived
<1>13. CASE Drop \/ OwnerStop \/ Bump("owner") \/ OwnerWake \/ JoinBroker \/ JoinDispatcher
            \/ DestroyBridge \/ StopFromOutside
  <2>1. UNCHANGED <<id, descriptors, free, sq, cq, edge>> /\ pc'["ingress"] = pc["ingress"]
        /\ pc'["client"] = pc["client"]
    BY <1>0, <1>13 DEF Drop, OwnerStop, RequestStop, Bump, OwnerWake, WakeBroker, JoinBroker,
         JoinDispatcher, DestroyBridge, StopFromOutside, B!Destroy, B!RequestStop, B!rings, B!table,
         B!waits, bridge, coordinator, client
  <2> QED
    BY <1>frame, <2>1 DEF Outstanding, Arrived
<1>14. CASE JoinIngress
  <2>1. UNCHANGED <<id, descriptors, free, sq, cq, edge>> /\ pc'["ingress"] = pc["ingress"]
        /\ pc'["client"] = pc["client"]
    BY <1>0, <1>14 DEF JoinIngress, bridge, client
  <2> QED
    BY <1>frame, <2>1 DEF Outstanding, Arrived
<1> QED
  BY <1>3, <1>4, <1>5, <1>6, <1>7, <1>8, <1>9, <1>10, <1>11, <1>12, <1>13, <1>14
     DEF Next, Client, Broker, Ingress, Dispatcher, Owner
-----------------------------------------------------------------------------
(* The slots of the coordinator and their free list.                       *)

(* A step of anyone else that leaves alone what a slot is, and changes the *)
(* phase of a free one only as a late READY.                               *)
LEMMA SlotsStay ==
  ASSUME TypeOK, SlotsInv, UNCHANGED <<ticket, key, freeSlots>>, pc'["client"] = pc["client"],
         late => late',
         \A i \in Slot :
           /\ slots'[i].generation = slots[i].generation
           /\ slots'[i].submission = slots[i].submission
           /\ slots'[i].result = slots[i].result \/ pc["client"] # "send"
           /\ slots'[i].phase = slots[i].phase \/ slots[i].phase # "free" \/ late'
  PROVE  SlotsInv'
<1>1. key.slot \in Slot /\ \A n \in 1..Len(freeSlots) : freeSlots[n] \in Slot
  <2>1. freeSlots \in Seq(Slot) /\ key \in Key
    BY DEF TypeOK, BoardTypes, ClientTypes
  <2> QED
    BY <2>1, ElementOfSeq DEF Key
<1>2. \A n \in 1..Len(freeSlots) : slots'[freeSlots[n]].generation # MaxGeneration
  BY <1>1 DEF SlotsInv
<1>3. late' \/ \A n \in 1..Len(freeSlots) : slots'[freeSlots[n]].phase = "free"
  BY <1>1 DEF SlotsInv
<1> QED
  BY <1>1, <1>2, <1>3 DEF SlotsInv

(* What an assignment to one field of a slot leaves of the others.         *)
LEMMA PhaseOnly ==
  ASSUME slots \in [Slot -> SlotState], NEW j \in Slot, NEW x,
         slots' = [slots EXCEPT ![j].phase = x]
  PROVE  /\ slots'[j].phase = x
         /\ \A i \in Slot : /\ i # j => slots'[i] = slots[i]
                            /\ slots'[i].generation = slots[i].generation
                            /\ slots'[i].submission = slots[i].submission
                            /\ slots'[i].result = slots[i].result
<1>1. slots[j] \in SlotState /\ slots'[j] = [slots[j] EXCEPT !.phase = x]
  OBVIOUS
<1>2. \A i \in Slot : i # j => slots'[i] = slots[i]
  OBVIOUS
<1>3. /\ slots'[j].phase = x /\ slots'[j].generation = slots[j].generation
      /\ slots'[j].submission = slots[j].submission /\ slots'[j].result = slots[j].result
  BY <1>1 DEF SlotState
<1> QED
  BY <1>2, <1>3

(* The free list stays a list of different slots, all free but for a late  *)
(* READY; the client's slot is not on it.                                  *)
LEMMA SlotsNext ==
  ASSUME TypeOK, SlotsInv, TokenInv, OwnerInv, Next
  PROVE  SlotsInv'
<1>0. /\ pc \in [Thread -> Places] /\ slots \in [Slot -> SlotState] /\ freeSlots \in Seq(Slot)
      /\ key \in Key /\ key.slot \in Slot /\ job.slot \in Slot /\ ticket \in Nat
      /\ \A p \in Finisher : fin[p].key.slot \in Slot
  BY MaxPassAssumption DEF TypeOK, BoardTypes, BrokerTypes, ClientTypes, Key
<1>1. \A n \in 1..Len(freeSlots) : freeSlots[n] \in Slot
  BY <1>0, ElementOfSeq
<1> USE DEF Thread, Move
<1>2. CASE Begin \/ ClientEnter \/ CreateDescriptor \/ Awaken \/ ReleaseDescriptor
  <2>1. /\ UNCHANGED <<key, slots, freeSlots, late>>
        /\ IF pc["client"] = "idle" THEN ticket' = ticket + 1 ELSE ticket' = ticket
        /\ \/ pc'["client"] \notin {"send", "await", "asleep", "free"}
           \/ pc'["client"] = "await" /\ pc["client"] = "asleep"
    BY <1>0, <1>2 DEF Begin, ClientEnter, CreateDescriptor, Awaken, ReleaseDescriptor,
         coordinator, client, board
  <2> QED
    BY <1>0, <2>1 DEF SlotsInv
<1>3. CASE Acquire /\ freeSlots' = freeSlots
  <2>1. /\ UNCHANGED <<ticket, key, slots, freeSlots, late>> /\ pc["client"] = "acquire"
        /\ pc'["client"] = "release"
    BY <1>0, <1>3, NewKeyTyped DEF Acquire
  <2> QED
    BY <2>1 DEF SlotsInv
<1>4. CASE Acquire /\ freeSlots # <<>> /\ ~stopping
  <2> DEFINE rest == SubSeq(freeSlots, 1, Len(freeSlots) - 1)
  <2>1. /\ NewKey \in Key /\ NewKey.slot \in Slot /\ NewKey.generation = slots[NewKey.slot].generation + 1
        /\ NewKey.slot = freeSlots[Len(freeSlots)] /\ Len(freeSlots) \in 1..Len(freeSlots)
        /\ \A n \in 1..Len(rest) : n \in 1..Len(freeSlots) /\ rest[n] = freeSlots[n]
        /\ \A n \in 1..Len(rest) : rest[n] # NewKey.slot
    BY <1>4, NewKeyTyped DEF NewKey, Key
  <2>2. /\ freeSlots' = rest /\ UNCHANGED <<ticket, late>> /\ pc["client"] = "acquire"
    BY <1>4 DEF Acquire
  <2>3. slots[NewKey.slot].generation \in Nat
    BY <1>0, <2>1, GenerationAssumption DEF SlotState
  <2> HIDE DEF rest
  <2>4. \A m, n \in 1..Len(rest) : rest[m] = rest[n] => m = n
    BY <2>1 DEF SlotsInv
  <2>5. CASE slots[NewKey.slot].phase = "free"
    <3>1. /\ key' = NewKey /\ pc'["client"] = "send"
          /\ slots' = [slots EXCEPT ![NewKey.slot] =
                         [generation |-> NewKey.generation, submission |-> ticket,
                          result |-> 0, phase |-> "queued"]]
      BY <1>0, <1>4, <2>5 DEF Acquire
    <3>2. /\ slots'[NewKey.slot] = [generation |-> NewKey.generation, submission |-> ticket,
                                    result |-> 0, phase |-> "queued"]
          /\ \A i \in Slot : i # NewKey.slot => slots'[i] = slots[i]
      BY <1>0, <2>1, <3>1
    <3>3. \A n \in 1..Len(rest) : slots'[rest[n]] = slots[freeSlots[n]]
      BY <1>1, <2>1, <3>2
    <3>4. NewKey # NoKey
      BY <2>1, <2>3 DEF NoKey
    <3>5. \A n \in 1..Len(rest) : slots'[rest[n]].generation # MaxGeneration
      BY <2>1, <3>3 DEF SlotsInv
    <3>6. late \/ \A n \in 1..Len(rest) : slots'[rest[n]].phase = "free"
      BY <2>1, <3>3 DEF SlotsInv
    <3>7. ticket # 0
      BY <2>2 DEF SlotsInv
    <3> QED
      BY <2>1, <2>2, <2>4, <3>1, <3>2, <3>4, <3>5, <3>6, <3>7 DEF SlotsInv
  <2>6. CASE slots[NewKey.slot].phase # "free"
    <3>1. /\ slots' = slots /\ pc'["client"] = "release"
      BY <1>0, <1>4, <2>6 DEF Acquire
    <3>2. \A n \in 1..Len(rest) : slots'[rest[n]].generation # MaxGeneration
      BY <2>1, <3>1 DEF SlotsInv
    <3>3. late \/ \A n \in 1..Len(rest) : slots'[rest[n]].phase = "free"
      BY <2>1, <3>1 DEF SlotsInv
    <3>4. ticket # 0
      BY <2>2 DEF SlotsInv
    <3> QED
      BY <2>2, <2>4, <3>1, <3>2, <3>3, <3>4 DEF SlotsInv
  <2> QED
    BY <2>5, <2>6
<1>5. CASE (Send /\ pc'["client"] = "await") \/ Await
  <2>1. /\ UNCHANGED <<ticket, key, freeSlots, late>> /\ pc["client"] \in {"send", "await"}
        /\ pc'["client"] \in {"await", "asleep", "free"}
        /\ \/ slots' = slots
           \/ /\ pc'["client"] = "free"
              /\ slots' = [slots EXCEPT ![key.slot].result = 0, ![key.slot].submission = 0]
    BY <1>0, <1>5 DEF Send, Await, board
  <2>2. /\ \A i \in Slot : /\ slots'[i].generation = slots[i].generation
                           /\ slots'[i].phase = slots[i].phase
        /\ pc'["client"] # "free" => slots' = slots
    <3>1. CASE slots' = slots
      BY <3>1
    <3>2. CASE slots' = [slots EXCEPT ![key.slot].result = 0, ![key.slot].submission = 0]
      <4>1. /\ slots'[key.slot].generation = slots[key.slot].generation
            /\ slots'[key.slot].phase = slots[key.slot].phase
        <5>1. slots[key.slot] \in SlotState
              /\ slots'[key.slot] = [slots[key.slot] EXCEPT !.result = 0, !.submission = 0]
          BY <1>0, <3>2
        <5> QED
          BY <5>1 DEF SlotState
      <4>2. \A i \in Slot : i # key.slot => slots'[i] = slots[i]
        BY <1>0, <3>2
      <4>3. slots' = slots \/ pc'["client"] = "free"
        BY <2>1
      <4> QED
        BY <4>1, <4>2, <4>3
    <3> QED
      BY <2>1, <3>1, <3>2
  <2> QED
    BY <1>0, <1>1, <2>1, <2>2 DEF SlotsInv
<1>6. CASE (Send /\ pc'["client"] # "await") \/ FreeSlot
  <2>1. /\ UNCHANGED <<ticket, key, late>> /\ pc["client"] \in {"send", "free"}
        /\ freeSlots' = Recycled /\ pc'["client"] = "release"
        /\ \/ slots' = [slots EXCEPT ![key.slot].submission = 0, ![key.slot].phase = "free"]
           \/ slots' = [slots EXCEPT ![key.slot].phase = "free"]
    BY <1>0, <1>6 DEF Send, FreeSlot, client
  <2>2. /\ slots'[key.slot].generation = key.generation /\ slots'[key.slot].phase = "free"
        /\ \A i \in Slot : i # key.slot => slots'[i] = slots[i]
    <3>1. slots[key.slot].generation = key.generation /\ slots[key.slot] \in SlotState
      BY <1>0, <2>1 DEF SlotsInv
    <3>2. CASE slots' = [slots EXCEPT ![key.slot].phase = "free"]
      BY <1>0, <3>1, <3>2, PhaseOnly
    <3>3. CASE slots' = [slots EXCEPT ![key.slot].submission = 0, ![key.slot].phase = "free"]
      <4>1. /\ slots'[key.slot] = [slots[key.slot] EXCEPT !.submission = 0, !.phase = "free"]
            /\ \A i \in Slot : i # key.slot => slots'[i] = slots[i]
        BY <1>0, <3>3
      <4> QED
        BY <3>1, <4>1 DEF SlotState
    <3> QED
      BY <2>1, <3>2, <3>3
  <2>3. /\ \A n \in 1..Len(Recycled) :
             \/ n \in 1..Len(freeSlots) /\ Recycled[n] = freeSlots[n] /\ freeSlots[n] # key.slot
             \/ Recycled[n] = key.slot /\ key.generation # MaxGeneration
        /\ \A m, n \in 1..Len(Recycled) : Recycled[m] = Recycled[n] => m = n
    BY <2>1, RecycledList DEF SlotsInv
  <2> DEFINE list == Recycled
  <2> HIDE DEF list
  <2>4. \A n \in 1..Len(list) :
          \/ n \in 1..Len(freeSlots) /\ slots'[list[n]] = slots[freeSlots[n]]
          \/ slots'[list[n]].generation # MaxGeneration /\ slots'[list[n]].phase = "free"
    BY <1>1, <2>2, <2>3 DEF list
  <2>5. /\ \A n \in 1..Len(list) : slots'[list[n]].generation # MaxGeneration
        /\ late \/ \A n \in 1..Len(list) : slots'[list[n]].phase = "free"
    BY <2>4 DEF SlotsInv
  <2>6. ticket # 0
    BY <2>1 DEF SlotsInv
  <2> QED
    BY <2>1, <2>3, <2>5, <2>6 DEF SlotsInv, list
<1>7. CASE BeginJob
  <2>1. /\ UNCHANGED <<ticket, key, freeSlots, late>> /\ pc'["client"] = pc["client"]
        /\ \/ slots' = slots
           \/ /\ slots[job.slot].phase = "queued"
              /\ slots' = [slots EXCEPT ![job.slot].phase = "pending"]
    BY <1>0, <1>7 DEF BeginJob, client
  <2>2. \A i \in Slot : /\ slots'[i].generation = slots[i].generation
                        /\ slots'[i].submission = slots[i].submission
                        /\ slots'[i].result = slots[i].result
                        /\ slots'[i].phase = slots[i].phase \/ slots[i].phase # "free"
    <3>1. CASE slots' = slots
      BY <3>1
    <3>2. CASE slots' # slots
      BY <1>0, <2>1, <3>2, PhaseOnly
    <3> QED
      BY <3>1, <3>2
  <2> QED
    BY <2>1, <2>2, SlotsStay
<1>8. ASSUME NEW p \in Finisher, Finish(p) PROVE SlotsInv'
  <2> DEFINE i == fin[p].key.slot
  <2>1. i \in Slot /\ p \in Thread /\ p # "client"
    BY <1>0 DEF Finisher
  <2>2. UNCHANGED <<ticket, key, freeSlots>> /\ pc'["client"] = pc["client"]
    BY <1>0, <1>8, <2>1 DEF Finish, FinishClaim, FinishStore, FinishReady, client
  <2>3. CASE FinishClaim(p)
    <3>1. /\ UNCHANGED late
          /\ \/ slots' = slots
             \/ /\ slots[i].phase \in {"queued", "pending"}
                /\ slots' = [slots EXCEPT ![i].phase = "completing"]
      BY <2>3 DEF FinishClaim, Claimable
    <3> HIDE DEF i
    <3>2. \A j \in Slot : /\ slots'[j].generation = slots[j].generation
                          /\ slots'[j].submission = slots[j].submission
                          /\ slots'[j].result = slots[j].result
                          /\ slots'[j].phase = slots[j].phase \/ slots[j].phase # "free"
      <4>1. CASE slots' = slots
        BY <4>1
      <4>2. CASE slots' # slots
        BY <1>0, <2>1, <3>1, <4>2, PhaseOnly
      <4> QED
        BY <4>1, <4>2
    <3> QED
      BY <2>2, <3>1, <3>2, SlotsStay
  <2>4. CASE FinishStore(p)
    <3>1. UNCHANGED late /\ slots' = [slots EXCEPT ![i].result = fin[p].result]
      BY <2>4 DEF FinishStore
    <3>2. pc["client"] # "send"
      BY <2>4 DEF FinishStore, TokenInv, Finishes, Finisher, Asking, Waiting
    <3> HIDE DEF i
    <3> QED
      BY <1>0, <2>1, <2>2, <3>1, <3>2, SlotsStay DEF SlotState
  <2>5. CASE FinishReady(p)
    <3>1. /\ slots' = [slots EXCEPT ![i].phase = "ready"]
          /\ late' = (late \/ slots[i].phase # "completing")
      BY <2>5 DEF FinishReady
    <3> HIDE DEF i
    <3>2. late => late'
      BY <3>1
    <3>3. slots[i].phase # "free" \/ late'
      BY <3>1
    <3> QED
      BY <1>0, <2>1, <2>2, <3>1, <3>2, <3>3, SlotsStay DEF SlotState
  <2> QED
    BY <1>8, <2>3, <2>4, <2>5 DEF Finish
<1>9. CASE JoinIngress
  <2>1. /\ UNCHANGED <<ticket, key, freeSlots, late>> /\ pc'["client"] = pc["client"]
        /\ pc["client"] = "idle"
    BY <1>0, <1>9 DEF JoinIngress, OwnerInv, client
  <2>2. \A i \in Slot : /\ slots'[i].generation = slots[i].generation
                        /\ slots'[i].submission = slots[i].submission
                        /\ slots'[i].phase = slots[i].phase \/ slots[i].phase # "free"
    BY <1>0, <1>9 DEF JoinIngress, SlotState
  <2> QED
    BY <2>1, <2>2, SlotsStay
<1> DEFINE Frame == UNCHANGED <<ticket, key, slots, freeSlots, late>> /\ pc'["client"] = pc["client"]
<1>10. Frame => SlotsInv'
  BY SlotsStay
<1>11. CASE Receive \/ Refused \/ SubmitEnter \/ SubmitRecord \/ SubmitLeave \/ PollEdge \/ Repoll
            \/ BrokerStop
  BY <1>0, <1>10, <1>11 DEF Receive, Refused, SubmitEnter, SubmitRecord, SubmitLeave, PollEdge,
     Repoll, BrokerStop, RequestStop, coordinator, client, board
<1>12. CASE IngressWait \/ Match \/ Bump("ingress") \/ IngressWake \/ IngressStop
  BY <1>0, <1>10, <1>12 DEF IngressWait, Match, Bump, IngressWake, WakeBroker, IngressStop,
     RequestStop, coordinator, client, board
<1>13. CASE Dispatcher \/ LaneTeam \/ Drop \/ StopFromOutside
  BY <1>0, <1>10, <1>13 DEF Dispatcher, DispatcherWait, Dispatch, Reject, RejectRing, LaneTeam,
     Drop, StopFromOutside, coordinator, client, board
<1>14. CASE OwnerStop \/ Bump("owner") \/ OwnerWake \/ JoinBroker \/ JoinDispatcher \/ DestroyBridge
  BY <1>0, <1>10, <1>14 DEF OwnerStop, RequestStop, Bump, OwnerWake, WakeBroker, JoinBroker,
     JoinDispatcher, DestroyBridge, coordinator, client, board
<1>15. Acquire => freeSlots' = freeSlots \/ (freeSlots # <<>> /\ ~stopping)
  BY DEF Acquire
<1> QED
  BY <1>2, <1>3, <1>4, <1>5, <1>6, <1>7, <1>8, <1>9, <1>11, <1>12, <1>13, <1>14, <1>15
     DEF Next, Client, Broker, Ingress, Owner, Finisher
-----------------------------------------------------------------------------
(* Nothing breaks.                                                         *)

(* The completion that arrived releases the reference of its record.       *)
LEMMA ReleasedMatches ==
  ASSUME TypeOK, RecordInv, TokenInv, DescriptorsInv
  PROVE  /\ pc["client"] = "release" => B!Matches(id)
         /\ Arrived => B!Matches(taken["completion"].id)
<1>1. ClientHolds => B!Matches(id)
  BY DEF DescriptorsInv, B!Matches, References
<1>2. Arrived => ClientHolds /\ taken["completion"].id = id
  BY DEF RecordInv, Record, TokenInv, Asking, Waiting, ClientHolds
<1> QED
  BY <1>1, <1>2 DEF ClientHolds

(* By the time the owner destroys the bridge, everything of it is at rest. *)
LEMMA OwnerMayDestroy ==
  ASSUME TypeOK, AdmissionInv, RingsInv, RecordInv, IngressInv, DescriptorsInv, OwnerInv,
         pc["owner"] = "joinLanes"
  PROVE  B!Destroyable
<1>1. pc["client"] = "idle" /\ pc["ingress"] = "gone" /\ pc["dispatcher"] = "gone"
  BY DEF OwnerInv
<1>2. \A b \in B!Bell : edge[b] = "canceled"
  BY <1>1 DEF OwnerInv, IngressInv, B!Bell
<1>3. stop /\ entered = 0 /\ ~Outstanding
  BY <1>2 DEF AdmissionInv, RecordInv, B!Bell
<1>4. /\ sq.head \in Nat /\ sq.tail \in Nat /\ cq.head \in Nat /\ cq.tail \in Nat
  BY DEF TypeOK, B!TypeOK, B!RingsTypes
<1>5. sq.head = sq.tail /\ cq.head = cq.tail /\ cq.head = sq.tail
  BY <1>3, <1>4 DEF RingsInv, Outstanding
<1>6. \A d \in 1..Descriptors : descriptors[d].state \in {"free", "retired"}
  <2>1. \A d \in 1..Descriptors : descriptors[d] \in B!DescriptorSlot
    BY DEF TypeOK, B!TypeOK, B!TableTypes
  <2> QED
    BY <1>1, <2>1 DEF DescriptorsInv, ClientHolds, B!DescriptorSlot
<1> QED
  BY <1>2, <1>3, <1>5, <1>6 DEF B!Destroyable

(* No step aborts, and only a late READY is a fault.                       *)
LEMMA BreaksNext ==
  ASSUME PassInv, Next
  PROVE  NothingBreaks'
<1> USE DEF NothingBreaks
<1>0. /\ TypeOK /\ ~aborted /\ (fault => late)
      /\ AdmissionInv /\ RingsInv /\ RecordInv /\ HolderInv /\ TokenInv /\ BrokerInv /\ IngressInv
      /\ DescriptorsInv /\ SlotsInv /\ OwnerInv
  BY DEF PassInv
<1> USE DEF Move, coordinator, board, flags
<1>1. CASE Begin \/ ClientEnter \/ CreateDescriptor \/ Send \/ Await \/ Awaken \/ FreeSlot
  BY <1>0, <1>1 DEF Begin, ClientEnter, CreateDescriptor, Send, Await, Awaken, FreeSlot,
     B!Enter, B!CreateAndLeave, B!LeaveAfter, bridge
<1>2. CASE Acquire
  <2>1. UNCHANGED <<aborted, late>>
    BY <1>2 DEF Acquire, bridge
  <2>2. CASE UNCHANGED fault
    BY <1>0, <2>1, <2>2
  <2>3. CASE fault' # fault
    <3>1. freeSlots # <<>> /\ slots[NewKey.slot].phase # "free"
      BY <1>2, <2>3 DEF Acquire
    <3>2. NewKey.slot = freeSlots[Len(freeSlots)] /\ Len(freeSlots) \in 1..Len(freeSlots)
      BY <1>0, <3>1, NewKeyTyped
    <3>3. late
      BY <1>0, <3>1, <3>2 DEF SlotsInv
    <3> QED
      BY <1>0, <2>1, <3>3
  <2> QED
    BY <2>2, <2>3
<1>3. CASE ReleaseDescriptor
  BY <1>0, <1>3, ReleasedMatches DEF ReleaseDescriptor, B!Release
<1>4. CASE Receive \/ BeginJob \/ Refused \/ SubmitEnter \/ SubmitRecord \/ SubmitLeave
           \/ PollEdge \/ Repoll
  BY <1>0, <1>4 DEF Receive, BeginJob, Refused, SubmitEnter, SubmitRecord, SubmitLeave, PollEdge,
     Repoll, B!Enter, B!Submit, B!LeaveAfter, B!waits, bridge
<1>5. ~BrokerStop
  BY <1>0 DEF BrokerStop, RequestStop, BrokerInv
<1>6. ASSUME NEW p \in Finisher, Finish(p) PROVE NothingBreaks'
  <2>1. UNCHANGED <<fault, aborted>>
    BY <1>6 DEF Finish, FinishClaim, FinishStore, FinishReady, bridge
  <2>2. UNCHANGED late \/ late' = (late \/ slots[fin[p].key.slot].phase # "completing")
    BY <1>6 DEF Finish, FinishClaim, FinishStore, FinishReady
  <2>3. late => late'
    BY <2>2
  <2> QED
    BY <1>0, <2>1, <2>3
<1>7. CASE IngressWait
  <2>1. UNCHANGED <<fault, late>>
    BY <1>7 DEF IngressWait
  <2>2. aborted' = aborted
    <3>1. CASE B!EdgeStep("completion")
      BY <3>1 DEF B!EdgeStep, B!Load, B!Look, B!Wait
    <3>2. CASE edge["completion"] = "taken" /\ B!Release(taken["completion"].id)
      BY <1>0, <1>7, <3>2, ReleasedMatches DEF IngressWait, B!Release, Arrived
    <3>3. CASE UNCHANGED bridge
      BY <3>3 DEF bridge
    <3> QED
      BY <1>7, <3>1, <3>2, <3>3 DEF IngressWait
  <2> QED
    BY <1>0, <2>1, <2>2
<1>8. CASE Match \/ Bump("ingress") \/ IngressWake
  BY <1>0, <1>8 DEF Match, Bump, IngressWake, WakeBroker, B!WaitAgain, bridge
<1>9. CASE IngressStop
  BY <1>0, <1>9 DEF IngressStop, RequestStop, B!RequestStop, IngressInv
<1>10. CASE DispatcherWait \/ Dispatch \/ RejectRing
  BY <1>0, <1>10 DEF DispatcherWait, Dispatch, RejectRing, B!EdgeStep, B!Load, B!Look, B!Wait,
     B!WaitAgain, bridge
<1>11. CASE Reject
  <2>1. Took /\ B!Publish(taken["submission"].ticket) /\ UNCHANGED <<fault, late>>
    BY <1>11 DEF Reject, Took
  <2> QED
    BY <1>0, <2>1, NextIsPublishable DEF B!Publish
<1>12. CASE LaneTeam
  <2>1. UNCHANGED <<fault, late>>
    BY <1>12 DEF LaneTeam
  <2>2. aborted' = aborted
    <3>1. CASE C!Publish /\ B!Publish(active)
      BY <1>0, <3>1, NextIsPublishable DEF B!Publish, C!Publish, Passing
    <3>2. CASE UNCHANGED bridge \/ B!Ring("completion")
      BY <3>2 DEF bridge, B!Ring
    <3> QED
      BY <1>12, <3>1, <3>2 DEF LaneTeam
  <2> QED
    BY <1>0, <2>1, <2>2
<1>13. CASE Drop \/ OwnerStop \/ Bump("owner") \/ OwnerWake \/ JoinBroker \/ JoinDispatcher
            \/ StopFromOutside
  BY <1>0, <1>13 DEF Drop, OwnerStop, RequestStop, Bump, OwnerWake, WakeBroker, JoinBroker,
     JoinDispatcher, StopFromOutside, B!RequestStop, bridge
<1>14. CASE JoinIngress
  BY <1>0, <1>14 DEF JoinIngress, bridge
<1>15. CASE DestroyBridge
  BY <1>0, <1>15, OwnerMayDestroy DEF DestroyBridge, B!Destroy
<1> QED
  BY <1>1, <1>2, <1>3, <1>4, <1>5, <1>6, <1>7, <1>8, <1>9, <1>10, <1>11, <1>12, <1>13, <1>14, <1>15
     DEF Next, Client, Broker, Ingress, Dispatcher, Owner, Finisher

-----------------------------------------------------------------------------
(* The invariant.                                                          *)

(* Every step keeps the types.                                             *)
LEMMA TypeNext ==
  ASSUME TypeOK, SlotsInv, RecordInv, DescriptorsInv, BrokerInv, AdmissionInv, Next
  PROVE  TypeOK'
<1>1. B!TypeOK' /\ C!TypeOK' /\ pc' \in [Thread -> Places]
  BY BridgeTypesNext, CrewTypesNext, PlacesNext DEF TypeOK
<1>2. ClientTypes' /\ BoardTypes' /\ FlagTypes' /\ BrokerTypes'
  BY ClientTypesNext, BoardTypesNext, FlagTypesNext, BrokerTypesNext DEF TypeOK
<1>3. active' \in 0..MaxPass
  <2>1. active \in 0..MaxPass /\ ticket \in 0..MaxPass
    BY DEF TypeOK, ClientTypes
  <2>2. CASE Dispatch
    BY <2>1, <2>2 DEF Dispatch, RecordInv, Took
  <2>3. Begin \/ Client \/ Drop \/ StopFromOutside => UNCHANGED active
    BY DEF Begin, Client, ClientEnter, CreateDescriptor, Acquire, Send, Await, Awaken,
           FreeSlot, ReleaseDescriptor, Drop, StopFromOutside, coordinator
  <2>4. Broker => UNCHANGED active
    BY DEF Broker, Receive, BeginJob, SubmitEnter, SubmitRecord, SubmitLeave, Refused,
           PollEdge, Repoll, Finish, FinishClaim, FinishStore, FinishReady, BrokerStop, coordinator
  <2>5. Ingress => UNCHANGED active
    BY DEF Ingress, IngressWait, Match, Finish, FinishClaim, FinishStore, FinishReady,
           Bump, IngressWake, WakeBroker, IngressStop, coordinator
  <2>6. DispatcherWait \/ Reject \/ RejectRing \/ LaneTeam => UNCHANGED active
    BY DEF DispatcherWait, Reject, RejectRing, LaneTeam, coordinator
  <2>7. Owner => UNCHANGED active
    BY DEF Owner, OwnerStop, JoinIngress, Bump, OwnerWake, WakeBroker, JoinBroker,
           JoinDispatcher, DestroyBridge, coordinator
  <2> QED
    BY <2>1, <2>2, <2>3, <2>4, <2>5, <2>6, <2>7 DEF Next, Dispatcher
<1> QED
  BY <1>1, <1>2, <1>3 DEF TypeOK

(* The invariant holds before the first pass.                              *)
LEMMA InitPassInv == Init => PassInv
<1> SUFFICES ASSUME Init PROVE PassInv
  OBVIOUS
<1> USE DEF Init, B!Init, C!Init
<1>0. /\ NoKey \in Key /\ 0 \in 0..MaxPass /\ 0 \in 0..MaxGeneration /\ 0 \in Result
      /\ B!NoId \in B!Id /\ B!NoRecord \in B!Record /\ NoPending \in [key : Key, ticket : 0..MaxPass]
  BY SlotsAssumption, GenerationAssumption, MaxPassAssumption, DescriptorsAssumption
     DEF NoKey, Key, Slot, Result, Busy, B!NoId, B!Id, B!NoRecord, B!Record, NoPending
<1>1. B!TypeOK
  <2>1. B!AdmissionTypes /\ B!RingsTypes /\ B!WaitsTypes
    BY <1>0 DEF B!AdmissionTypes, B!RingsTypes, B!WaitsTypes
  <2>2. B!TableTypes
    <3>1. \A i \in 1..Descriptors : Descriptors - i + 1 \in 1..Descriptors
      BY DescriptorsAssumption
    <3>2. free \in Seq(1..Descriptors)
      BY <3>1, DescriptorsAssumption, SeqDef
    <3> QED
      BY <1>0, <3>2 DEF B!TableTypes, B!DescriptorSlot
  <2> QED
    BY <2>1, <2>2 DEF B!TypeOK
<1>2. ClientTypes /\ FlagTypes /\ BrokerTypes /\ C!TypeOK /\ active \in 0..MaxPass
  <2>1. queue \in Seq(Key) /\ Len(queue) <= Slots
    BY SlotsAssumption, EmptySeq
  <2>2. ClientTypes /\ BrokerTypes /\ active \in 0..MaxPass
    BY <1>0, <2>1 DEF ClientTypes, BrokerTypes
  <2>3. FlagTypes
    <3>1. ~stopping /\ ~fault /\ ~signalled /\ ~waker /\ ~woken
      OBVIOUS
    <3> QED
      BY DEF FlagTypes
  <2> QED
    BY <2>2, <2>3 DEF C!TypeOK
<1>3. pc \in [Thread -> Places]
  BY DEF Thread, Places
<1>4. freeSlots \in Seq(Slot) /\ Len(freeSlots) = Slots
      /\ \A n \in 1..Slots : freeSlots[n] = Slots - n /\ Slots - n \in Slot
  <2>1. \A n \in 1..Slots : Slots - n \in Slot
    BY SlotsAssumption DEF Slot
  <2>2. freeSlots \in [1..Slots -> Slot]
    BY <2>1
  <2> QED
    BY <2>1, <2>2, SlotsAssumption, SeqDef, LenProperties
<1>5. BoardTypes
  <2>1. slots \in [Slot -> SlotState]
    BY <1>0 DEF SlotState
  <2>2. fin \in [Finisher -> [key : Key, result : Result]]
    BY <1>0 DEF NoFinish
  <2>3. late \in BOOLEAN
    OBVIOUS
  <2>4. Slots <= Slots
    BY SlotsAssumption
  <2> QED
    BY <1>4, <2>1, <2>2, <2>3, <2>4 DEF BoardTypes
<1>6. AdmissionInv /\ RingsInv /\ HolderInv /\ BrokerInv /\ IngressInv /\ OwnerInv /\ NothingBreaks
  BY DEF AdmissionInv, B!Bell, RingsInv, HolderInv, Took, Passing, BrokerInv, IngressInv, OwnerInv,
         NothingBreaks
<1>7. RecordInv
  BY DEF RecordInv, Outstanding, Arrived, Matching, Record, Took, Passing, B!Bell
<1>8. TokenInv
  BY DEF TokenInv, Queued, Beginning, Pending, Finishes, Finisher
<1>9. DescriptorsInv
  <2>1. Len(free) = Descriptors /\ \A n \in 1..Descriptors : free[n] = Descriptors - n + 1
    <3>1. \A i \in 1..Descriptors : Descriptors - i + 1 \in 1..Descriptors
      BY DescriptorsAssumption
    <3>2. free \in Seq(1..Descriptors)
      BY <3>1, DescriptorsAssumption, SeqDef
    <3> QED
      BY <3>2, DescriptorsAssumption, LenProperties
  <2>2. \A m, n \in 1..Descriptors : free[m] = free[n] => m = n
    BY <2>1, DescriptorsAssumption
  <2>3. \A d \in 1..Descriptors : descriptors[d].state = "free" /\ descriptors[d].generation = 0
    OBVIOUS
  <2>4. \A n \in 1..Descriptors : free[n] \in 1..Descriptors
    BY <2>1, DescriptorsAssumption
  <2> QED
    BY <2>1, <2>2, <2>3, <2>4, GenerationAssumption DEF DescriptorsInv, ClientHolds
<1>10. SlotsInv
  <2>1. \A m, n \in 1..Slots : freeSlots[m] = freeSlots[n] => m = n
    BY <1>4, SlotsAssumption
  <2>2. \A n \in 1..Slots : /\ slots[freeSlots[n]].generation = 0
                            /\ slots[freeSlots[n]].phase = "free"
    BY <1>4
  <2> QED
    BY <1>4, <2>1, <2>2, GenerationAssumption DEF SlotsInv
<1>11. TypeOK
  BY <1>1, <1>2, <1>3, <1>5 DEF TypeOK
<1> QED
  BY <1>6, <1>7, <1>8, <1>9, <1>10, <1>11 DEF PassInv

(* A step of nothing keeps the invariant.                                  *)
LEMMA PassInvStutters ==
  ASSUME PassInv, UNCHANGED vars
  PROVE  PassInv'
<1>1. TypeOK'
  BY DEF PassInv, TypeOK, B!TypeOK, B!AdmissionTypes, B!RingsTypes, B!TableTypes, B!WaitsTypes,
     C!TypeOK, ClientTypes, BoardTypes, FlagTypes, BrokerTypes, vars, bridge, team, coordinator,
     client, board, flags, doorway, broker
<1> USE DEF vars, bridge, team, coordinator, client, board, flags, doorway, broker
<1>2. AdmissionInv' /\ RingsInv' /\ HolderInv' /\ BrokerInv' /\ IngressInv' /\ OwnerInv' /\ NothingBreaks'
  BY DEF PassInv, AdmissionInv, RingsInv, HolderInv, Took, Passing, BrokerInv, IngressInv, OwnerInv,
         NothingBreaks, Record, Outstanding, Arrived, Matching, Pending
<1>3. RecordInv'
  BY DEF PassInv, RecordInv, Outstanding, Arrived, Matching, Record, Took, Passing, Pending
<1>4. TokenInv'
  BY DEF PassInv, TokenInv, Asking, Waiting, Queued, Beginning, Pending, Finishes
<1>5. DescriptorsInv' /\ SlotsInv'
  BY DEF PassInv, DescriptorsInv, SlotsInv, ClientHolds, References, Outstanding, Arrived
<1> QED
  BY <1>1, <1>2, <1>3, <1>4, <1>5 DEF PassInv

(* Every step keeps the invariant.                                         *)
LEMMA PassInvNext ==
  ASSUME PassInv, Next
  PROVE  PassInv'
<1>1. /\ TypeOK
      /\ AdmissionInv /\ RingsInv /\ RecordInv /\ HolderInv /\ TokenInv /\ BrokerInv /\ IngressInv
      /\ DescriptorsInv /\ SlotsInv /\ OwnerInv /\ NothingBreaks
  BY DEF PassInv
<1>2. pc \in [Thread -> Places] /\ B!TypeOK /\ C!TypeOK
  BY <1>1 DEF TypeOK
<1>3. TypeOK'
  BY <1>1, TypeNext
<1>4. AdmissionInv' /\ RingsInv'
  BY <1>1, <1>2, AdmissionNext, RingsNext
<1>5. HolderInv' /\ OwnerInv'
  BY <1>1, <1>2, HolderNext, OwnerNext
<1>6. BrokerInv' /\ IngressInv'
  BY <1>1, <1>2, BrokerNext, IngressNext
<1>7. RecordInv' /\ TokenInv'
  BY <1>1, RecordNext, TokenNext
<1>8. DescriptorsInv' /\ SlotsInv'
  BY <1>1, DescriptorsNext, SlotsNext
<1>9. NothingBreaks'
  BY BreaksNext
<1> QED
  BY <1>3, <1>4, <1>5, <1>6, <1>7, <1>8, <1>9 DEF PassInv

-----------------------------------------------------------------------------
(* What follows from the invariant.                                        *)

(* A step of Next or of nothing keeps the invariant.                       *)
LEMMA PassInvStep == ASSUME PassInv, [Next]_vars PROVE PassInv'
BY PassInvNext, PassInvStutters

(* PassInv holds in every state of a coordinator's life: with it the types, *)
(* that a pass has one key and one record, that its descriptor is live as  *)
(* long as anyone uses it, and the order of the teardown.                  *)
THEOREM PassInvHolds == Spec => []PassInv
<1>1. PassInv /\ [Next]_vars => PassInv'
  BY PassInvStep
<1> QED
  BY <1>1, InitPassInv, PTL DEF Spec

(* Without a call that waits for its result there is no record of a pass.  *)
LEMMA AtRest ==
  ASSUME PassInv, ~Waiting
  PROVE  sq.tail = cq.head /\ cq.tail = sq.head
<1>1. sq.tail = cq.head
  BY DEF PassInv, RecordInv, Record, Outstanding, TokenInv, Asking
<1>2. sq.head \in Nat /\ sq.tail \in Nat /\ cq.head \in Nat /\ cq.tail \in Nat
  BY DEF PassInv, TypeOK, B!TypeOK, B!RingsTypes
<1> QED
  BY <1>1, <1>2 DEF PassInv, RingsInv

(* When the borrow is over, nobody has the record.                         *)
LEMMA BorrowIsOver == ASSUME PassInv PROVE BorrowEnds
<1> SUFFICES ASSUME pc["client"] \in {"idle", "enter", "leave", "acquire", "send"}
             PROVE  sq.tail = cq.head /\ crew # "running" /\ ~ordered
  BY DEF BorrowEnds
<1>1. sq.tail = cq.head /\ cq.tail = sq.head
  BY AtRest DEF Waiting
<1> QED
  BY <1>1 DEF PassInv, HolderInv, Passing

(* Dispatch orders a pass of a crew at rest, JoinDispatcher retires one; no *)
(* other step of the threads touches the crew.                             *)
LEMMA CrewStep ==
  ASSUME PassInv, Next
  PROVE  C!Next \/ UNCHANGED team
<1>0. /\ HolderInv /\ OwnerInv /\ C!TypeOK
  BY DEF PassInv, TypeOK
<1> USE DEF Move, coordinator
<1>1. CASE Begin \/ Client \/ Drop \/ StopFromOutside
  BY <1>1 DEF Begin, Client, ClientEnter, CreateDescriptor, Acquire, Send, Await, Awaken,
         FreeSlot, ReleaseDescriptor, Drop, StopFromOutside
<1>2. CASE Broker
  BY <1>2 DEF Broker, Receive, BeginJob, SubmitEnter, SubmitRecord, SubmitLeave, Refused,
         PollEdge, Repoll, Finish, FinishClaim, FinishStore, FinishReady, BrokerStop
<1>3. CASE Ingress
  BY <1>3 DEF Ingress, IngressWait, Match, Finish, FinishClaim, FinishStore, FinishReady,
         Bump, IngressWake, IngressStop
<1>4. CASE DispatcherWait \/ Reject \/ RejectRing
  BY <1>4 DEF DispatcherWait, Reject, RejectRing
<1>5. CASE Dispatch
  <2>1. Took /\ ordered' = TRUE /\ UNCHANGED <<retired, crew, owes>>
    BY <1>5 DEF Dispatch, Took
  <2>2. ~ordered /\ ~Passing
    BY <1>0, <2>1 DEF HolderInv
  <2>3. ~retired /\ crew # "gone"
    BY <1>0, <2>1 DEF OwnerInv, Took
  <2>4. crew = "resting"
    BY <1>0, <2>2, <2>3 DEF C!TypeOK, Passing
  <2> QED
    BY <2>1, <2>2, <2>3, <2>4 DEF C!Next, C!Order
<1>6. CASE LaneTeam
  BY <1>6 DEF LaneTeam, C!Next, C!Work, C!Start, C!Land, C!Go, C!Publish, C!Ring
<1>7. CASE OwnerStop \/ JoinIngress \/ Bump("owner") \/ OwnerWake \/ JoinBroker \/ DestroyBridge
  BY <1>7 DEF OwnerStop, JoinIngress, Bump, OwnerWake, JoinBroker, DestroyBridge
<1>8. CASE JoinDispatcher
  <2>1. pc["dispatcher"] = "gone" /\ retired' = TRUE /\ UNCHANGED <<ordered, crew, owes>>
    BY <1>8 DEF JoinDispatcher
  <2>2. pc["owner"] = "joinDispatcher" /\ pc["client"] = "idle"
    BY <1>0, <1>8 DEF JoinDispatcher, OwnerInv
  <2>3. ~ordered /\ ~Passing
    <3>1. cq.tail = sq.head
      BY <2>2, AtRest DEF Waiting
    <3> QED
      BY <1>0, <3>1 DEF HolderInv
  <2>4. crew # "gone"
    BY <1>0, <2>2 DEF OwnerInv
  <2>5. crew = "resting"
    BY <1>0, <2>3, <2>4 DEF C!TypeOK, Passing
  <2> QED
    BY <2>1, <2>3, <2>5 DEF C!Next, C!Retire
<1> QED
  BY <1>1, <1>2, <1>3, <1>4, <1>5, <1>6, <1>7, <1>8 DEF Next, Dispatcher, Owner

-----------------------------------------------------------------------------
(* Both halves of the kernel.                                              *)

LEMMA KernelStep ==
  ASSUME [PassPart \/ LanesPart]_all
  PROVE  [Next]_vars /\ [TeamNext]_lanes
BY DEF PassPart, LanesPart, all

(* A behaviour of either half keeps the invariants of both.                *)
THEOREM KernelSound == Sizes => (KernelSpec => []BothSound)
<1> SUFFICES ASSUME Sizes PROVE KernelSpec => []BothSound
  OBVIOUS
<1>1. KernelInit => BothSound
  BY InitPassInv, InitIInv DEF KernelInit, BothSound
<1>2. BothSound /\ [PassPart \/ LanesPart]_all => BothSound'
  BY KernelStep, PassInvStep, NextIInv DEF BothSound
<1> QED
  BY <1>1, <1>2, PTL DEF KernelSpec

(* BorrowEnds: once a call has returned, or before its submission, no lane *)
(* works and the bridge holds no record of a pass, whoever stopped it.     *)
THEOREM KernelBorrowEnds == Sizes => (KernelSpec => []BorrowEnds)
<1> SUFFICES ASSUME Sizes PROVE KernelSpec => []BorrowEnds
  OBVIOUS
<1>1. BothSound => BorrowEnds
  BY BorrowIsOver DEF BothSound
<1> QED
  BY <1>1, KernelSound, PTL

(* NothingBreaks: no interleaving of passes, stops and the teardown reaches *)
(* an abort or, without a late READY, a fault.                             *)
THEOREM KernelNothingBreaks == Sizes => (KernelSpec => []NothingBreaks)
<1> SUFFICES ASSUME Sizes PROVE KernelSpec => []NothingBreaks
  OBVIOUS
<1>1. BothSound => NothingBreaks
  BY DEF BothSound, PassInv
<1> QED
  BY <1>1, KernelSound, PTL

(* CrewContract: the threads order and retire only when they may, and the  *)
(* lanes do what they promise; each half of the kernel is verified against *)
(* the other's contract.                                                   *)
THEOREM KernelKeepsContract == Sizes => (KernelSpec => CrewContract)
<1> SUFFICES ASSUME Sizes PROVE KernelSpec => CrewContract
  OBVIOUS
<1>1. BothSound /\ [PassPart \/ LanesPart]_all => [C!Next]_team
  BY KernelStep, CrewStep DEF BothSound, vars, team
<1>2. KernelInit => Contract!Init
  BY InitCrew DEF KernelInit
<1>3. BothSound /\ [PassPart \/ LanesPart]_all => [Contract!Next]_Contract!vars
  BY KernelStep, StepIsCrewStep DEF BothSound
<1>4. BothSound => \A l \in Lane : Working(l) => CrewIs = "running"
  BY WorkIsRunning DEF BothSound
<1> QED
  BY <1>1, <1>2, <1>3, <1>4, KernelSound, PTL
     DEF KernelSpec, CrewContract, CrewIsKept, ImplementsCrew, Contract!Spec
=============================================================================
