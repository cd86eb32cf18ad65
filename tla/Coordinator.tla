---------------------------- MODULE Coordinator ----------------------------
(***************************************************************************)
(* A pass of the native engine: the client that submits it, the            *)
(* coordinator of crates/liquid-audio/src/compute/flashkern/coordinator.rs *)
(* with its broker and its ingress thread, the dispatcher of               *)
(* flashkern_engine.cpp, the bridge between them (module Bridge), and the  *)
(* owner that tears them down.  The lane team is there by its promise      *)
(* (module Crew), which module Team implements.                            *)
(*                                                                         *)
(* Passes are made one at a time, as PassClaim and pass_lock see to, so    *)
(* there is one client, whose passes are numbered.  The broker is a task   *)
(* of the executor (module Executor) fed by the ring (module Ring), here   *)
(* a waker that is not lost and a bounded queue.  Steps of one thread that *)
(* nobody else can tell apart are one action.                              *)
(***************************************************************************)
EXTENDS Integers, Sequences

CONSTANTS
  Capacity, Descriptors, MaxGeneration,   \* of the bridge
  Slots,                                  \* slots of the coordinator
  MaxPass                                 \* bound on the passes of a behaviour

ASSUME CapacityAssumption == Capacity \in Nat \ {0}
ASSUME DescriptorsAssumption == Descriptors \in Nat
ASSUME GenerationAssumption == MaxGeneration \in Nat \ {0}
ASSUME SlotsAssumption == Slots \in Nat \ {0}
ASSUME MaxPassAssumption == MaxPass \in Nat

VARIABLES
  stop, entered, sq, cq, submissions, completions, held, descriptors, free,
  edge, rung, taken, aborted,
  ordered, retired, crew, owes,
  pc,           \* where each thread is
  ticket,       \* the passes begun so far; the last one's ticket
  id, key,      \* the client's descriptor and slot
  answer,       \* what the client's last call returned, 0 before
  slots,        \* generation, phase, submission and result of each slot
  freeSlots,    \* Inner::free, the next one last
  queue,        \* the keys in the ring
  pending,      \* Inner::pending
  stopping, fault,
  signalled,    \* does the edge's generation differ from the broker's?
  waker, woken, \* is the broker's waker registered, was it woken?
  notified,     \* was the sleeping client notified?
  job,          \* the key the broker works on
  fin,          \* what the broker and the ingress finish, with which result
  active,       \* active_submission's ticket
  late          \* was READY ever stored over another phase? (a record)

B == INSTANCE Bridge
C == INSTANCE Crew

bridge == <<stop, entered, sq, cq, submissions, completions, held, descriptors, free,
            edge, rung, taken, aborted>>
team == <<ordered, retired, crew, owes>>
client == <<ticket, id, key, answer, notified>>
board == <<slots, freeSlots, fin, late>>
flags == <<stopping, fault>>
doorway == <<signalled, waker, woken>>
broker == <<queue, job, pending>>
coordinator == <<client, board, flags, doorway, broker, active>>
vars == <<bridge, team, pc, coordinator>>

Thread == {"client", "owner", "broker", "ingress", "dispatcher"}
Finisher == {"broker", "ingress"}
Slot == 0..Slots - 1
Key == [slot : Slot, generation : 0..MaxGeneration]
NoKey == [slot |-> 0, generation |-> 0]
NoPending == [key |-> NoKey, ticket |-> 0]
Busy == -2        \* EBUSY, which also stops the coordinator
Failed == -1      \* any other error
Result == Busy..MaxPass
NoFinish == [key |-> NoKey, result |-> 0]

Places == {"idle", "enter", "leave", "acquire", "send", "await", "asleep", "free", "release",
           "recv", "begin", "submit", "ring", "refuse", "refused", "parked",
           "edge", "match", "finish", "store", "ready", "bump", "wake", "again",
           "stop", "join", "sweep", "joinBroker", "joinDispatcher", "joinLanes", "gone"}

ClientTypes ==
  /\ ticket \in 0..MaxPass
  /\ id \in B!Id /\ key \in Key
  /\ answer \in Result
  /\ notified \in BOOLEAN

SlotState == [generation : 0..MaxGeneration, submission : 0..MaxPass, result : Result,
              phase : {"free", "queued", "pending", "completing", "ready"}]

BoardTypes ==
  /\ slots \in [Slot -> SlotState]
  /\ freeSlots \in Seq(Slot) /\ Len(freeSlots) <= Slots
  /\ fin \in [Finisher -> [key : Key, result : Result]]
  /\ late \in BOOLEAN

FlagTypes == \A flag \in {stopping, fault, signalled, waker, woken} : flag \in BOOLEAN

BrokerTypes ==
  /\ queue \in Seq(Key) /\ Len(queue) <= Slots
  /\ job \in Key
  /\ pending \in [key : Key, ticket : 0..MaxPass]

TypeOK ==
  /\ B!TypeOK /\ C!TypeOK
  /\ pc \in [Thread -> Places]
  /\ ClientTypes /\ BoardTypes /\ FlagTypes /\ BrokerTypes
  /\ active \in 0..MaxPass

Init ==
  /\ B!Init /\ C!Init
  /\ pc = [client |-> "idle", owner |-> "idle", broker |-> "recv",
           ingress |-> "edge", dispatcher |-> "edge"]
  /\ ticket = 0 /\ id = B!NoId /\ key = NoKey /\ answer = 0 /\ notified = FALSE
  /\ slots = [i \in Slot |-> [generation |-> 0, phase |-> "free", submission |-> 0, result |-> 0]]
  /\ freeSlots = [n \in 1..Slots |-> Slots - n]
  /\ fin = [p \in Finisher |-> NoFinish]
  /\ stopping = FALSE /\ fault = FALSE
  /\ signalled = FALSE /\ waker = FALSE /\ woken = FALSE
  /\ queue = <<>> /\ job = NoKey /\ pending = NoPending
  /\ active = 0
  /\ late = FALSE

Move(p, from, to) == pc[p] = from /\ pc' = [pc EXCEPT ![p] = to]

-----------------------------------------------------------------------------
(* The client: submit_pass and Inner::submit *)

Begin ==
  /\ ticket < MaxPass
  /\ pc["owner"] = "idle"
  /\ Move("client", "idle", "enter")
  /\ ticket' = ticket + 1
  /\ id' = B!NoId /\ answer' = 0
  /\ UNCHANGED <<bridge, team, key, notified, board, flags, doorway, broker, active>>

(* lfm_kernel_bridge_descriptor_create                                     *)
ClientEnter ==
  /\ \/ Move("client", "enter", "leave") /\ B!Enter /\ UNCHANGED answer
     \/ Move("client", "enter", "idle") /\ stop /\ answer' = Failed /\ UNCHANGED bridge
  /\ UNCHANGED <<team, ticket, id, key, notified, board, flags, doorway, broker, active>>

CreateDescriptor ==
  /\ Move("client", "leave", IF free = <<>> THEN "idle" ELSE "acquire")
  /\ B!CreateAndLeave
  /\ IF free = <<>> THEN answer' = Failed /\ UNCHANGED id
                   ELSE id' = B!NextId /\ UNCHANGED answer
  /\ UNCHANGED <<team, ticket, key, notified, board, flags, doorway, broker, active>>

NewKey ==
  LET i == freeSlots[Len(freeSlots)]
  IN  [slot |-> i, generation |-> slots[i].generation + 1]

(* acquire: a slot from the free list that is not free is a fault and is   *)
(* lost.  recycle keeps slots of the last generation off the list.         *)
Acquire ==
  /\ UNCHANGED <<bridge, team, ticket, id, notified, fin, late, stopping, doorway, broker, active>>
  /\ \/ /\ stopping \/ freeSlots = <<>>
        /\ Move("client", "acquire", "release")
        /\ answer' = Failed
        /\ UNCHANGED <<key, slots, freeSlots, fault>>
     \/ /\ ~stopping /\ freeSlots # <<>>
        /\ freeSlots' = SubSeq(freeSlots, 1, Len(freeSlots) - 1)
        /\ IF slots[NewKey.slot].phase = "free"
             THEN /\ key' = NewKey
                  /\ slots' = [slots EXCEPT ![NewKey.slot] =
                                 [generation |-> NewKey.generation, submission |-> ticket,
                                  result |-> 0, phase |-> "queued"]]
                  /\ Move("client", "acquire", "send")
                  /\ UNCHANGED <<answer, fault>>
             ELSE /\ fault' = TRUE
                  /\ answer' = Failed
                  /\ Move("client", "acquire", "release")
                  /\ UNCHANGED <<key, slots>>

Recycled == IF key.generation = MaxGeneration THEN freeSlots ELSE Append(freeSlots, key.slot)

(* try_send to a sender that request_stop has not taken, or the slot is    *)
(* abandoned.                                                              *)
Send ==
  /\ UNCHANGED <<bridge, team, ticket, id, key, notified, fin, late, flags, doorway, job, pending, active>>
  /\ \/ /\ ~stopping /\ Len(queue) < Slots
        /\ Move("client", "send", "await")
        /\ queue' = Append(queue, key)
        /\ UNCHANGED <<answer, slots, freeSlots>>
     \/ /\ stopping \/ Len(queue) = Slots
        /\ Move("client", "send", "release")
        /\ answer' = Failed
        /\ slots' = [slots EXCEPT ![key.slot].submission = 0, ![key.slot].phase = "free"]
        /\ freeSlots' = Recycled
        /\ UNCHANGED queue

(* The client looks for the result under the body's lock, or sleeps.       *)
Await ==
  /\ UNCHANGED <<bridge, team, ticket, id, key, freeSlots, fin, late, flags, doorway, broker, active>>
  /\ \/ /\ slots[key.slot].result = 0
        /\ Move("client", "await", "asleep")
        /\ notified' = FALSE
        /\ UNCHANGED <<slots, answer>>
     \/ /\ slots[key.slot].result # 0
        /\ Move("client", "await", "free")
        /\ answer' = slots[key.slot].result
        /\ slots' = [slots EXCEPT ![key.slot].result = 0, ![key.slot].submission = 0]
        /\ UNCHANGED notified

Awaken ==
  /\ notified
  /\ Move("client", "asleep", "await")
  /\ UNCHANGED <<bridge, team, coordinator>>

FreeSlot ==
  /\ Move("client", "free", "release")
  /\ slots' = [slots EXCEPT ![key.slot].phase = "free"]
  /\ freeSlots' = Recycled
  /\ UNCHANGED <<bridge, team, client, fin, late, flags, doorway, broker, active>>

(* The pass is over with the client's reference to its descriptor.         *)
ReleaseDescriptor ==
  /\ Move("client", "release", "idle")
  /\ B!Release(id)
  /\ UNCHANGED <<team, coordinator>>

Client ==
  \/ ClientEnter \/ CreateDescriptor \/ Acquire \/ Send
  \/ Await \/ Awaken \/ FreeSlot \/ ReleaseDescriptor

-----------------------------------------------------------------------------
(* Inner::finish, by the broker or the ingress *)

Finishing(p, k, result) == fin' = [fin EXCEPT ![p] = [key |-> k, result |-> result]]

AfterFinish(p) ==
  IF p = "ingress" THEN "bump" ELSE IF fin[p].result = Busy THEN "stop" ELSE "recv"

Claimable(p) ==
  LET slot == slots[fin[p].key.slot]
  IN  slot.generation = fin[p].key.generation /\ slot.phase \in {"queued", "pending"}

FinishClaim(p) ==
  /\ Move(p, "finish", IF Claimable(p) THEN "store" ELSE AfterFinish(p))
  /\ slots' = IF Claimable(p) THEN [slots EXCEPT ![fin[p].key.slot].phase = "completing"] ELSE slots
  /\ UNCHANGED <<bridge, team, client, freeSlots, fin, late, flags, doorway, broker, active>>

FinishStore(p) ==
  /\ Move(p, "store", "ready")
  /\ slots' = [slots EXCEPT ![fin[p].key.slot].result = fin[p].result]
  /\ UNCHANGED <<bridge, team, client, freeSlots, fin, late, flags, doorway, broker, active>>

(* The phase READY is stored after the body's lock is released, over       *)
(* whatever the phase is by now; then the client is notified.              *)
FinishReady(p) ==
  LET i == fin[p].key.slot
  IN  /\ Move(p, "ready", AfterFinish(p))
      /\ slots' = [slots EXCEPT ![i].phase = "ready"]
      /\ late' = (late \/ slots[i].phase # "completing")
      /\ notified' = (pc["client"] = "asleep" /\ key.slot = i)
      /\ UNCHANGED <<bridge, team, ticket, id, key, answer, freeSlots, fin, flags, doorway, broker, active>>

Finish(p) == FinishClaim(p) \/ FinishStore(p) \/ FinishReady(p)

-----------------------------------------------------------------------------
(* Edge::signal and Inner::request_stop *)

Bump(p) ==
  /\ Move(p, "bump", "wake")
  /\ signalled' = TRUE
  /\ UNCHANGED <<bridge, team, client, board, flags, waker, woken, broker, active>>

WakeBroker ==
  /\ woken' = (woken \/ waker)
  /\ waker' = FALSE
  /\ UNCHANGED <<client, board, flags, signalled, broker, active>>

RequestStop(p, after) ==
  /\ Move(p, "stop", after)
  /\ stopping' = TRUE
  /\ B!RequestStop

-----------------------------------------------------------------------------
(* The broker *)

Receive ==
  /\ \/ /\ queue # <<>>
        /\ job' = Head(queue)
        /\ queue' = Tail(queue)
        /\ IF stopping
             THEN Move("broker", "recv", "finish") /\ Finishing("broker", job', Failed)
             ELSE Move("broker", "recv", "begin") /\ UNCHANGED fin
     \/ /\ queue = <<>> /\ stopping
        /\ Move("broker", "recv", "gone")
        /\ UNCHANGED <<job, queue, fin>>
  /\ UNCHANGED <<bridge, team, client, slots, freeSlots, late, flags, doorway, pending, active>>

(* begin, the snapshot of the edge, and the pass is installed as pending.  *)
BeginJob ==
  /\ LET slot == slots[job.slot]
         begun == slot.generation = job.generation /\ slot.phase = "queued"
     IN  \/ /\ ~begun
            /\ Move("broker", "begin", "recv")
            /\ UNCHANGED <<slots, signalled, pending, fin>>
         \/ /\ begun
            /\ slots' = [slots EXCEPT ![job.slot].phase = "pending"]
            /\ signalled' = FALSE
            /\ IF pending = NoPending
                 THEN /\ pending' = [key |-> job, ticket |-> slot.submission]
                      /\ Move("broker", "begin", "submit")
                      /\ UNCHANGED fin
                 ELSE /\ Finishing("broker", job, Busy)
                      /\ Move("broker", "begin", "finish")
                      /\ UNCHANGED pending
  /\ UNCHANGED <<bridge, team, client, freeSlots, late, flags, waker, woken, queue, job, active>>

(* lfm_kernel_bridge_submit, to its return                                 *)
SubmitEnter ==
  /\ \/ Move("broker", "submit", IF B!Room /\ B!Matches(id) THEN "ring" ELSE "refuse") /\ B!Enter
     \/ Move("broker", "submit", "refused") /\ stop /\ UNCHANGED bridge
  /\ UNCHANGED <<team, coordinator>>

SubmitRecord ==
  /\ Move("broker", "ring", "edge")
  /\ B!Submit(slots[job.slot].submission, id)
  /\ UNCHANGED <<team, coordinator>>

SubmitLeave ==
  /\ \/ Move("broker", "edge", "await") /\ B!LeaveAfter({"submission"})
     \/ Move("broker", "refuse", "refused") /\ B!LeaveAfter({})
  /\ UNCHANGED <<descriptors, free, team, coordinator>>

(* take_pending_if: the ingress may have failed the pass already.          *)
Refused ==
  /\ IF pending.key = job
       THEN /\ pending' = NoPending
            /\ Finishing("broker", job, Failed)
            /\ Move("broker", "refused", "finish")
       ELSE /\ Move("broker", "refused", "recv")
            /\ UNCHANGED <<pending, fin>>
  /\ UNCHANGED <<bridge, team, client, slots, freeSlots, late, flags, doorway, queue, job, active>>

\* Slip: the broker registers its waker and does not look.
Missed == FALSE

EdgeMoved == signalled

(* EdgeWait::poll: the broker looks under the waker's lock and registers.  *)
PollEdge ==
  /\ IF EdgeMoved
       THEN Move("broker", "await", "recv") /\ UNCHANGED waker
       ELSE Move("broker", "await", "parked") /\ waker' = TRUE
  /\ UNCHANGED <<bridge, team, client, board, flags, signalled, woken, broker, active>>

Repoll ==
  /\ woken
  /\ Move("broker", "parked", "await")
  /\ woken' = FALSE
  /\ UNCHANGED <<bridge, team, client, board, flags, signalled, waker, broker, active>>

BrokerStop ==
  /\ RequestStop("broker", "recv")
  /\ fault' = TRUE
  /\ UNCHANGED <<team, client, board, doorway, broker, active>>

Broker ==
  \/ Receive \/ BeginJob \/ SubmitEnter \/ SubmitRecord \/ SubmitLeave \/ Refused
  \/ PollEdge \/ Repoll \/ Finish("broker") \/ BrokerStop

-----------------------------------------------------------------------------
(* The ingress *)

IngressWait ==
  /\ pc["ingress"] = "edge"
  /\ \/ B!EdgeStep("completion") /\ UNCHANGED pc
     \/ /\ edge["completion"] = "taken"
        /\ Move("ingress", "edge", "match")
        /\ B!Release(taken["completion"].id)
     \/ edge["completion"] = "canceled" /\ Move("ingress", "edge", "match") /\ UNCHANGED bridge
  /\ UNCHANGED <<team, coordinator>>

(* take_pending: a completion without a pending pass is a fault; a         *)
(* cancelled wait fails the pending pass, if there is one.                 *)
Match ==
  LET exact == edge["completion"] = "taken" /\ taken["completion"].ticket = pending.ticket
  IN  /\ pending' = NoPending
      /\ IF pending = NoPending
           THEN /\ Move("ingress", "match", "stop")
                /\ fin' = [fin EXCEPT !["ingress"] = NoFinish]
           ELSE /\ Move("ingress", "match", "finish")
                /\ Finishing("ingress", pending.key, IF exact THEN pending.ticket ELSE Failed)
      /\ UNCHANGED <<bridge, team, client, slots, freeSlots, late, flags, doorway, queue, job, active>>

IngressWake ==
  /\ \/ /\ fin["ingress"] # NoFinish
        /\ edge["completion"] = "taken"
        /\ Move("ingress", "wake", "edge")
        /\ B!WaitAgain("completion")
     \/ /\ edge["completion"] = "canceled"
        /\ Move("ingress", "wake", "stop")
        /\ UNCHANGED bridge
     \/ /\ fin["ingress"] = NoFinish
        /\ Move("ingress", "wake", "gone")
        /\ UNCHANGED bridge
  /\ WakeBroker
  /\ UNCHANGED team

(* A completion nobody waits for stops the coordinator and wakes the       *)
(* broker; a cancelled wait is its end.                                    *)
IngressStop ==
  /\ RequestStop("ingress", IF edge["completion"] = "taken" THEN "bump" ELSE "gone")
  /\ fault' = (fault \/ edge["completion"] = "taken")
  /\ UNCHANGED <<team, client, board, doorway, broker, active>>

Ingress ==
  \/ IngressWait \/ Match \/ Finish("ingress") \/ Bump("ingress") \/ IngressWake \/ IngressStop

-----------------------------------------------------------------------------
(* The dispatcher and the lanes *)

DispatcherWait ==
  /\ pc["dispatcher"] = "edge"
  /\ \/ B!EdgeStep("submission") /\ UNCHANGED pc
     \/ edge["submission"] = "canceled" /\ Move("dispatcher", "edge", "gone") /\ UNCHANGED bridge
  /\ UNCHANGED <<team, coordinator>>

(* The store of the new generation, and its signal; that the crew is there *)
(* to see it is a property below.                                          *)
Dispatch ==
  /\ pc["dispatcher"] = "edge"
  /\ edge["submission"] = "taken"
  /\ B!Matches(taken["submission"].id)
  /\ active' = taken["submission"].ticket
  /\ ordered' = TRUE
  /\ B!WaitAgain("submission")
  /\ UNCHANGED <<retired, crew, owes, pc, client, board, flags, doorway, broker>>

(* A submission whose context is not the engine's any more is answered     *)
(* without the lanes.                                                      *)
Reject ==
  /\ edge["submission"] = "taken"
  /\ Move("dispatcher", "edge", "again")
  /\ B!Publish(taken["submission"].ticket)
  /\ UNCHANGED <<team, coordinator>>

RejectRing ==
  /\ Move("dispatcher", "again", "edge")
  /\ edge' = [edge EXCEPT !["submission"] = "load"]
  /\ rung' = rung \cup {"completion"}
  /\ UNCHANGED <<stop, entered, sq, cq, submissions, completions, held, descriptors, free, taken, aborted>>
  /\ UNCHANGED <<team, coordinator>>

Dispatcher == DispatcherWait \/ Dispatch \/ Reject \/ RejectRing

LaneTeam ==
  /\ \/ (C!Start \/ C!Land \/ C!Go) /\ UNCHANGED bridge
     \/ C!Publish /\ B!Publish(active)
     \/ C!Ring /\ B!Ring("completion")
  /\ UNCHANGED <<pc, coordinator>>

-----------------------------------------------------------------------------
(* The owner: NativeEngine::drop, which pass_lock keeps apart from passes *)

Drop ==
  /\ pc["client"] = "idle"
  /\ Move("owner", "idle", "stop")
  /\ UNCHANGED <<bridge, team, coordinator>>

OwnerStop ==
  /\ RequestStop("owner", "join")
  /\ UNCHANGED <<team, client, board, fault, doorway, broker, active>>

(* finish_all finds the slots of submits that have not returned: none.     *)
JoinIngress ==
  /\ pc["ingress"] = "gone"
  /\ Move("owner", "join", "bump")
  /\ slots' = [i \in Slot |-> IF slots[i].phase \in {"queued", "pending"}
                                THEN [slots[i] EXCEPT !.phase = "ready", !.result = Failed] ELSE slots[i]]
  /\ UNCHANGED <<bridge, team, client, freeSlots, fin, late, flags, doorway, broker, active>>

OwnerWake ==
  /\ Move("owner", "wake", "joinBroker")
  /\ WakeBroker
  /\ UNCHANGED <<bridge, team>>

JoinBroker ==
  /\ pc["broker"] = "gone"
  /\ Move("owner", "joinBroker", "joinDispatcher")
  /\ UNCHANGED <<bridge, team, coordinator>>

(* lfm_engine_free                                                         *)
JoinDispatcher ==
  /\ pc["dispatcher"] = "gone"
  /\ Move("owner", "joinDispatcher", "joinLanes")
  /\ retired' = TRUE
  /\ UNCHANGED <<bridge, ordered, crew, owes, coordinator>>

DestroyBridge ==
  /\ crew = "gone"
  /\ Move("owner", "joinLanes", "gone")
  /\ B!Destroy
  /\ UNCHANGED <<team, coordinator>>

Owner ==
  \/ OwnerStop \/ JoinIngress \/ Bump("owner") \/ OwnerWake
  \/ JoinBroker \/ JoinDispatcher \/ DestroyBridge

(* lfm_engine_request_stop takes no claim: it may come at any time.        *)
StopFromOutside ==
  /\ ~stop
  /\ B!RequestStop
  /\ UNCHANGED <<team, pc, coordinator>>

Next == Begin \/ Client \/ Broker \/ Ingress \/ Dispatcher \/ LaneTeam \/ Drop \/ Owner \/ StopFromOutside

(* What a lane does without waiting for the others: to begin a pass, to    *)
(* publish it, to ring.  To land it or to go away it has to leave a fence, *)
(* and a lane may sleep there for ever: EveryPassLands in module Team.     *)
LaneAlone == LaneTeam /\ crew' \in {"running", "resting"}

(* Every thread is scheduled; nobody has to begin a pass, or drop the      *)
(* engine, or stop it from outside.  That the executor's join returns when *)
(* the broker is gone is not taken for granted: JoinReturns in module      *)
(* Executor.                                                               *)
ThreadStep(p) ==
  CASE p = "client" -> Client
    [] p = "broker" -> Broker
    [] p = "ingress" -> Ingress
    [] p = "dispatcher" -> Dispatcher
    [] p = "owner" -> Owner /\ pc["owner"] # "joinBroker"
    [] p = "lanes" -> LaneAlone

Fairness == \A p \in Thread \cup {"lanes"} : WF_vars(ThreadStep(p))

Spec == Init /\ [][Next]_vars /\ Fairness

-----------------------------------------------------------------------------
(* What the properties below rest on: who has the pass that the client is  *)
(* waiting for, and who has the record of it that the bridge was given.    *)

Waiting == pc["client"] \in {"await", "asleep"}
Asking == Waiting /\ slots[key.slot].result = 0

Outstanding == sq.tail # cq.head
Arrived == pc["ingress"] = "edge" /\ edge["completion"] = "taken"
Matching == pc["ingress"] = "match" /\ edge["completion"] = "taken"
Record == Outstanding \/ Arrived \/ Matching

Queued == queue # <<>>
Beginning == pc["broker"] = "begin"
Pending == pending # NoPending
Finishes(p) == pc[p] \in {"finish", "store"}

(* Those inside the bridge are counted, and a cancelled wait is one that   *)
(* nobody can enter the bridge any more to end.                            *)
AdmissionInv ==
  /\ entered = (IF pc["client"] = "leave" THEN 1 ELSE 0)
             + (IF pc["broker"] \in {"ring", "edge", "refuse"} THEN 1 ELSE 0)
  /\ \A b \in B!Bell : edge[b] = "canceled" => stop /\ entered = 0

(* One record at a time: submitted, dispatched or published.               *)
RingsInv ==
  /\ sq.tail \in {cq.head, cq.head + 1}
  /\ cq.head <= cq.tail /\ cq.tail <= sq.head /\ sq.head <= sq.tail

(* The record is of the client's pass, and its last.  The dispatcher or    *)
(* the crew have it, one of them, until it is published.                   *)
Took == pc["dispatcher"] = "edge" /\ edge["submission"] = "taken"
Passing == crew \in {"running", "publish"}

RecordInv ==
  LET i == cq.head % Capacity
  IN  /\ Outstanding => submissions[i] = [ticket |-> ticket, id |-> id] /\ held[i] = id
      /\ cq.tail # cq.head => completions[i] = ticket
      /\ Arrived => taken["completion"].id = id
      /\ Took => taken["submission"].ticket = ticket
      /\ ordered \/ Passing => active = ticket
      /\ Record => Pending
      /\ Arrived \/ Matching \/ edge["completion"] = "canceled" => ~Outstanding

HolderInv ==
  /\ Took \/ ordered \/ Passing => cq.tail # sq.head
  /\ ~(Took /\ ordered) /\ ~(Took /\ Passing) /\ ~(ordered /\ Passing)

(* The key of the pass is in one place at most: in the ring, with the      *)
(* broker, pending, or with the one who is about to store its result.      *)
TokenInv ==
  /\ Queued \/ Beginning \/ Pending \/ Finishes("broker") \/ Finishes("ingress") => Asking
  /\ Queued => ~Beginning /\ ~Pending /\ ~Finishes("broker") /\ ~Finishes("ingress")
  /\ Beginning => ~Pending /\ ~Finishes("ingress")
  /\ Pending => ~Finishes("broker") /\ ~Finishes("ingress")
  /\ ~(Finishes("broker") /\ Finishes("ingress"))
  /\ Queued => queue = <<key>>
  /\ Beginning => job = key
  /\ Pending => pending = [key |-> key, ticket |-> ticket]
  /\ \A p \in Finisher : Finishes(p) => fin[p].key = key

(* The broker goes to the bridge for a pass without a record; inside it    *)
(* the pass stays pending.  It never finds the broker's only fault.        *)
BrokerInv ==
  /\ pc["broker"] \in {"submit", "ring", "refuse", "refused"} =>
       ~Record /\ job # NoKey /\ (Pending => pending.key = job)
  /\ pc["broker"] \in {"ring", "refuse"} => Pending
  /\ pc["broker"] = "submit" => Pending \/ stop
  /\ pc["broker"] \in {"finish", "store", "ready"} => fin["broker"].result = Failed
  /\ pc["broker"] # "stop"

IngressInv ==
  /\ pc["ingress"] \in {"match", "finish", "store", "ready", "bump", "wake"} =>
       edge["completion"] \in {"taken", "canceled"}
  /\ pc["ingress"] \in {"finish", "store", "ready", "bump", "wake"} => fin["ingress"].result # 0
  /\ pc["ingress"] \in {"stop", "gone"} => edge["completion"] = "canceled"

(* The client's descriptor is live, and the only one; the record has a     *)
(* reference of its own.                                                   *)
ClientHolds == pc["client"] \in {"acquire", "send", "await", "asleep", "free", "release"}
References == IF Outstanding \/ Arrived THEN 2 ELSE 1

DescriptorsInv ==
  /\ ClientHolds =>
       /\ id.slot # 0
       /\ descriptors[id.slot] =
            [generation |-> id.generation, refs |-> References, state |-> "live"]
  /\ \A d \in 1..Descriptors : descriptors[d].state = "live" => ClientHolds /\ d = id.slot
  /\ \A n \in 1..Len(free) :
       descriptors[free[n]].state = "free" /\ descriptors[free[n]].generation # MaxGeneration
  /\ \A m, n \in 1..Len(free) : free[m] = free[n] => m = n

(* A slot is on the free list or the client's; on the list it is free but  *)
(* for a late READY.                                                       *)
SlotsInv ==
  /\ pc["client"] # "idle" => ticket # 0
  /\ pc["client"] \in {"send", "await", "asleep"} =>
       slots[key.slot].submission = ticket /\ key # NoKey
  /\ pc["client"] \in {"send", "await", "asleep", "free"} =>
       /\ slots[key.slot].generation = key.generation
       /\ \A n \in 1..Len(freeSlots) : freeSlots[n] # key.slot
  /\ pc["client"] = "send" => slots[key.slot].result = 0
  /\ \A n \in 1..Len(freeSlots) : slots[freeSlots[n]].generation # MaxGeneration
  /\ \A m, n \in 1..Len(freeSlots) : freeSlots[m] = freeSlots[n] => m = n
  /\ late \/ \A n \in 1..Len(freeSlots) : slots[freeSlots[n]].phase = "free"

(* The teardown starts without a pass and goes on thread by thread.        *)
OwnerInv ==
  /\ pc["owner"] # "idle" => pc["client"] = "idle"
  /\ pc["owner"] \notin {"idle", "stop", "join"} => pc["ingress"] = "gone"
  /\ pc["dispatcher"] = "gone" => edge["submission"] = "canceled"
  /\ retired => pc["dispatcher"] = "gone" /\ pc["owner"] \in {"joinLanes", "gone"}
  /\ pc["owner"] \in {"joinLanes", "gone"} => pc["dispatcher"] = "gone"
  /\ crew = "gone" => retired

(* native_engine.rs:3-5: the caller's tensors are borrowed for as long as  *)
(* its call.  Once the call has returned, or before its submission, no     *)
(* lane works and the bridge holds no record of a pass, whoever stopped    *)
(* the bridge meanwhile: an error is never answered under a running pass.  *)
BorrowEnds ==
  pc["client"] \in {"idle", "enter", "leave", "acquire", "send"}
    => sq.tail = cq.head /\ crew # "running" /\ ~ordered

(* No interleaving of passes, stops and the teardown reaches one of the    *)
(* places where the code aborts the process, and none the faults that stop *)
(* the coordinator, unless a late READY spoilt a free slot                 *)
(* (coordinator.rs:257-260).                                               *)
NothingBreaks == ~aborted /\ (fault => late)

(* The inductive invariant of a pass.                                      *)
PassInv ==
  /\ TypeOK
  /\ AdmissionInv /\ RingsInv /\ RecordInv /\ HolderInv
  /\ TokenInv /\ BrokerInv /\ IngressInv
  /\ DescriptorsInv /\ SlotsInv /\ OwnerInv
  /\ NothingBreaks

(* The threads around the lane team keep their side of the crew's          *)
(* contract: a generation is stored only between passes, retire only when  *)
(* no pass is left (flashkern_engine.cpp:1973 and :2162).                  *)
CrewIsKept == [][C!Next]_team

(* A thread of the kernel hangs only where a lane or the executor does.    *)
(* Every call returns, stopped or not, unless its pass never lands or a    *)
(* late READY overwrote the phase of its slot; and the drop of the engine  *)
(* comes to its end, unless join never returns although the broker is gone *)
(* or a retired lane never wakes.                                          *)
JoinHangs == pc["owner"] = "joinBroker" /\ pc["broker"] = "gone"
LaneHangs == retired /\ crew = "resting"

NobodyElseHangs ==
  /\ \/ <>[](crew = "running")
     \/ pc["client"] # "idle" ~> pc["client"] = "idle" \/ late
  /\ \/ <>[]JoinHangs \/ <>[]LaneHangs
     \/ pc["owner"] # "idle" ~> pc["owner"] = "gone"

=============================================================================
