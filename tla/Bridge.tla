------------------------------- MODULE Bridge -------------------------------
(***************************************************************************)
(* The native bridge of                                                    *)
(* crates/liquid-audio/native/src/runtime/kernel_bridge.cpp: a submission  *)
(* and a completion ring with a doorbell each, the admission word that     *)
(* closes them, and the table of the descriptors through which a pass      *)
(* borrows its memory.                                                     *)
(*                                                                         *)
(* The module has no process of its own: its operators are the atomic      *)
(* steps of the calls that the threads of module Coordinator make.  Of a   *)
(* doorbell's value only one thing matters, whether it still is the one    *)
(* its waiter expects.  The ticket ledger repeats the tickets of the       *)
(* submission cells, so it has no variable.                                *)
(***************************************************************************)
EXTENDS Naturals, Sequences

CONSTANTS
  Capacity,         \* cells of each ring
  Descriptors,      \* number of descriptor slots
  MaxGeneration     \* the generation at which a slot is retired

VARIABLES
  stop,             \* ADMISSION_STOP
  entered,          \* the count of the admission word
  sq, cq,           \* the cursors of the submission and the completion ring
  submissions,      \* the cells of the submission ring
  completions,      \* the cells of the completion ring: tickets
  held,             \* descriptor_ledger
  descriptors,      \* the descriptor slots
  free,             \* descriptor_free: the free slots, the next one last
  edge,             \* where the waiter of each doorbell is in wait_for_edge
  rung,             \* the doorbells whose value is not the expected one
  taken,            \* the record each waiter took last
  aborted           \* was std::abort called?

admission == <<stop, entered>>
rings == <<sq, cq, submissions, completions, held>>
table == <<descriptors, free>>
waits == <<edge, rung, taken>>
vars == <<admission, rings, table, waits, aborted>>

Bell == {"submission", "completion"}
Cell == 0..Capacity - 1
Id == [slot : 0..Descriptors, generation : Nat]
NoId == [slot |-> 0, generation |-> 0]
Record == [ticket : Nat, id : Id]
NoRecord == [ticket |-> 0, id |-> NoId]

AdmissionTypes == stop \in BOOLEAN /\ entered \in Nat

RingsTypes ==
  /\ sq \in [head : Nat, tail : Nat] /\ cq \in [head : Nat, tail : Nat]
  /\ submissions \in [Cell -> Record]
  /\ completions \in [Cell -> Nat]
  /\ held \in [Cell -> Id]

DescriptorSlot == [generation : 0..MaxGeneration, refs : Nat, state : {"free", "live", "retired"}]

TableTypes ==
  /\ descriptors \in [1..Descriptors -> DescriptorSlot]
  /\ free \in Seq(1..Descriptors)

WaitsTypes ==
  /\ edge \in [Bell -> {"load", "look", "wait", "taken", "canceled"}]
  /\ rung \in SUBSET Bell
  /\ taken \in [Bell -> Record]

TypeOK == AdmissionTypes /\ RingsTypes /\ TableTypes /\ WaitsTypes /\ aborted \in BOOLEAN

Init ==
  /\ stop = FALSE /\ entered = 0
  /\ sq = [head |-> 0, tail |-> 0] /\ cq = [head |-> 0, tail |-> 0]
  /\ submissions = [i \in Cell |-> NoRecord]
  /\ completions = [i \in Cell |-> 0]
  /\ held = [i \in Cell |-> NoId]
  /\ descriptors = [d \in 1..Descriptors |-> [generation |-> 0, refs |-> 0, state |-> "free"]]
  /\ free = [i \in 1..Descriptors |-> Descriptors - i + 1]
  /\ edge = [b \in Bell |-> "load"]
  /\ rung = {}
  /\ taken = [b \in Bell |-> NoRecord]
  /\ aborted = FALSE

-----------------------------------------------------------------------------
(* Admission *)

Enter ==
  /\ ~stop
  /\ entered' = entered + 1
  /\ UNCHANGED <<stop, rings, table, waits, aborted>>

(* The last one to leave a stopped bridge rings for those who wait for it; *)
(* submit has rung for its submission before it leaves.                    *)
LeaveAfter(bells) ==
  /\ entered' = entered - 1
  /\ rung' = IF stop /\ entered = 1 THEN Bell ELSE rung \cup bells
  /\ UNCHANGED <<stop, rings, edge, taken, aborted>>

RequestStop ==
  /\ stop' = TRUE
  /\ rung' = IF stop THEN rung ELSE Bell
  /\ UNCHANGED <<entered, rings, table, edge, taken, aborted>>

-----------------------------------------------------------------------------
(* Descriptors *)

Matches(id) ==
  /\ id.slot # 0
  /\ descriptors[id.slot].state = "live"
  /\ descriptors[id.slot].generation = id.generation
  /\ descriptors[id.slot].refs # 0

\* The id a creation returns; without a free slot it fails with ENOSPC.
NextId ==
  LET d == free[Len(free)]
  IN  [slot |-> d, generation |-> descriptors[d].generation + 1]

CreateAndLeave ==
  /\ IF free = <<>>
       THEN UNCHANGED table
       ELSE /\ descriptors' = [descriptors EXCEPT ![NextId.slot] =
                                [generation |-> NextId.generation, refs |-> 1, state |-> "live"]]
            /\ free' = SubSeq(free, 1, Len(free) - 1)
  /\ LeaveAfter({})

(* The last reference frees the slot, or retires it for good at its last   *)
(* generation: nobody sees the state between the two critical sections, as *)
(* the passes have no release callback.  Every caller aborts the process   *)
(* when release fails.                                                     *)
Release(id) ==
  LET slot == descriptors[id.slot]
      last == slot.refs = 1
      spent == slot.generation = MaxGeneration
  IN  /\ IF Matches(id)
           THEN /\ descriptors' = [descriptors EXCEPT ![id.slot] =
                     [generation |-> slot.generation, refs |-> slot.refs - 1,
                      state |-> IF ~last THEN "live" ELSE IF spent THEN "retired" ELSE "free"]]
                /\ free' = IF last /\ ~spent THEN Append(free, id.slot) ELSE free
                /\ UNCHANGED aborted
           ELSE aborted' = TRUE /\ UNCHANGED table
      /\ UNCHANGED <<admission, rings, waits>>

-----------------------------------------------------------------------------
(* Submission and completion *)

Room == sq.tail - cq.head < Capacity /\ sq.tail - sq.head < Capacity

\* Slip: a submission borrows the client's reference.
Unretained(id) == descriptors

Retained(id) == [descriptors EXCEPT ![id.slot].refs = @ + 1]

(* submit, between enter and leave: a submission retains its descriptor.   *)
Submit(ticket, id) ==
  LET i == sq.tail % Capacity
  IN  /\ Room /\ Matches(id)
      /\ descriptors' = Retained(id)
      /\ submissions' = [submissions EXCEPT ![i] = [ticket |-> ticket, id |-> id]]
      /\ held' = [held EXCEPT ![i] = id]
      /\ sq' = [sq EXCEPT !.tail = @ + 1]
      /\ UNCHANGED <<admission, cq, completions, free, waits, aborted>>

(* publish_completion: its callers abort the process when it fails.        *)
Publishable(ticket) ==
  /\ cq.tail # sq.head
  /\ cq.tail - cq.head < Capacity
  /\ submissions[cq.tail % Capacity].ticket = ticket

Publish(ticket) ==
  /\ IF Publishable(ticket)
       THEN /\ completions' = [completions EXCEPT ![cq.tail % Capacity] = ticket]
            /\ cq' = [cq EXCEPT !.tail = @ + 1]
            /\ UNCHANGED aborted
       ELSE aborted' = TRUE /\ UNCHANGED <<completions, cq>>
  /\ UNCHANGED <<admission, sq, submissions, held, table, waits>>

Ring(bell) ==
  /\ rung' = rung \cup {bell}
  /\ UNCHANGED <<admission, rings, table, edge, taken, aborted>>

-----------------------------------------------------------------------------
(* wait_for_edge, for the waiter of a doorbell *)

CanTake(bell) == IF bell = "submission" THEN sq.head # sq.tail ELSE cq.head # cq.tail

\* Slip: the completion side looks whether it took what was published, not
\* whether it took what was submitted.
DrainedOfPublished(bell) ==
  stop /\ entered = 0 /\ IF bell = "submission" THEN sq.head = sq.tail ELSE cq.head = cq.tail

Drained(bell) ==
  stop /\ entered = 0 /\ IF bell = "submission" THEN sq.head = sq.tail ELSE cq.head = sq.tail

TakeRecord(bell) ==
  IF bell = "submission"
    THEN /\ taken' = [taken EXCEPT ![bell] = submissions[sq.head % Capacity]]
         /\ sq' = [sq EXCEPT !.head = @ + 1]
         /\ UNCHANGED <<cq, held>>
    ELSE LET i == cq.head % Capacity
         IN  /\ taken' = [taken EXCEPT ![bell] = [ticket |-> completions[i], id |-> held[i]]]
             /\ held' = [held EXCEPT ![i] = NoId]
             /\ cq' = [cq EXCEPT !.head = @ + 1]
             /\ UNCHANGED sq

EdgeTo(bell, phase) == edge' = [edge EXCEPT ![bell] = phase]

(* The waiter loads the doorbell, looks, and waits if there is nothing to  *)
(* take and more may come.  The look that the code has before the load     *)
(* only saves the load.                                                    *)
Load(bell) ==
  /\ edge[bell] = "load"
  /\ rung' = rung \ {bell}
  /\ EdgeTo(bell, "look")
  /\ UNCHANGED <<admission, rings, table, taken, aborted>>

Look(bell) ==
  /\ edge[bell] = "look"
  /\ IF CanTake(bell)
       THEN TakeRecord(bell) /\ EdgeTo(bell, "taken")
       ELSE /\ EdgeTo(bell, IF Drained(bell) THEN "canceled" ELSE "wait")
            /\ UNCHANGED <<sq, cq, held, taken>>
  /\ UNCHANGED <<admission, submissions, completions, table, rung, aborted>>

\* The wait returns, and the doorbell is loaded again.
Wait(bell) ==
  /\ edge[bell] = "wait"
  /\ bell \in rung
  /\ rung' = rung \ {bell}
  /\ EdgeTo(bell, "look")
  /\ UNCHANGED <<admission, rings, table, taken, aborted>>

EdgeStep(bell) == Load(bell) \/ Look(bell) \/ Wait(bell)

(* The next call of wait_submission or wait_completion.                    *)
WaitAgain(bell) ==
  /\ EdgeTo(bell, "load")
  /\ UNCHANGED <<admission, rings, table, rung, taken, aborted>>

-----------------------------------------------------------------------------
Destroyable ==
  /\ stop /\ entered = 0
  /\ \A b \in Bell : edge[b] = "canceled"
  /\ sq.head = sq.tail /\ cq.head = cq.tail /\ cq.head = sq.tail
  /\ \A d \in 1..Descriptors : descriptors[d].state \in {"free", "retired"}

Destroy ==
  /\ aborted' = (aborted \/ ~Destroyable)
  /\ UNCHANGED <<admission, rings, table, waits>>

=============================================================================
