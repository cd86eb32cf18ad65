--------------------------- MODULE ExecutorProofs ---------------------------
(***************************************************************************)
(* Proofs about Executor for any number of slots, workers, wakers and      *)
(* tasks: the invariant ExecutorInv is inductive, and with it that a task  *)
(* is polled by one worker at a time, that no wake is lost, that no worker *)
(* sleeps over a queued key, that join answers every task and that the     *)
(* queue is never too small.                                               *)
(***************************************************************************)
EXTENDS Executor, FiniteSetTheorems, SequenceTheorems, TLAPS

(* What NotifyOne does to the workers: a sleeper may be awake.             *)
LEMMA NotifyWakes ==
  ASSUME ExecutorTypeOK, NEW new \in [Worker -> WorkerState], NotifyOne(new)
  PROVE  /\ worker' \in [Worker -> WorkerState]
         /\ \A z \in Worker :
              \/ worker'[z] = new[z]
              \/ worker[z].at = "asleep" /\ worker'[z] = Doing("looking", NoKey)
         /\ Asleep # {} => \E z \in Worker : worker'[z].at = "looking"
<1>1. Doing("looking", NoKey) \in WorkerState
  BY DEF Doing, WorkerState, WorkerPlaces
<1>2. CASE Asleep = {}
  BY <1>2 DEF NotifyOne
<1>3. CASE Asleep # {}
  <2>1. PICK z \in Worker : /\ worker[z].at = "asleep"
                            /\ worker' = [new EXCEPT ![z] = Doing("looking", NoKey)]
    BY <1>3 DEF NotifyOne, Asleep
  <2>2. worker'[z].at = "looking"
    BY <2>1 DEF Doing
  <2> QED
    BY <1>1, <2>1, <2>2
<1> QED
  BY <1>2, <1>3

LEMMA NotifyAllWakes ==
  ASSUME ExecutorTypeOK, NotifyAll
  PROVE  /\ worker' \in [Worker -> WorkerState]
         /\ \A z \in Worker :
              \/ worker'[z] = worker[z]
              \/ worker[z].at = "asleep" /\ worker'[z] = Doing("looking", NoKey)
BY DEF NotifyAll, ExecutorTypeOK, Doing, WorkerState, WorkerPlaces, Asleep

(* A worker that goes elsewhere keeps its key.                             *)
LEMMA GoTyped ==
  ASSUME ExecutorTypeOK, NEW w \in Worker, NEW place \in WorkerPlaces
  PROVE  [worker EXCEPT ![w].at = place] \in [Worker -> WorkerState]
BY DEF ExecutorTypeOK, WorkerState

LEMMA Goes ==
  ASSUME ExecutorTypeOK, NEW w \in Worker, NEW place \in WorkerPlaces, Go(w, place)
  PROVE  /\ worker' \in [Worker -> WorkerState]
         /\ worker'[w].at = place /\ worker'[w].key = worker[w].key
         /\ \A x \in Worker \ {w} : worker'[x] = worker[x]
BY GoTyped DEF Go, ExecutorTypeOK, WorkerState

(* Where a worker's step leads, the queue apart.                           *)
LEMMA Places ==
  /\ {"looking", "checked", "asleep", "beginning", "claiming", "polling", "parking"}
       \subseteq WorkerPlaces
  /\ {"requeueing", "telling", "finishing", "recycling", "draining", "popping", "leaving",
      "exited"} \subseteq WorkerPlaces
BY DEF WorkerPlaces

LEMMA TakeTyped ==
  ASSUME ExecutorTypeOK, NEW w \in Worker, ready # <<>>
  PROVE  /\ Head(ready) \in Key /\ Tail(ready) \in Seq(Key)
         /\ Len(Tail(ready)) = Len(ready) - 1 /\ Len(ready) \in Nat \ {0}
         /\ [worker EXCEPT ![w] = Doing("beginning", Head(ready))] \in [Worker -> WorkerState]
<1>1. ready \in Seq(Key)
  BY DEF ExecutorTypeOK
<1>2. /\ Head(ready) \in Key /\ Tail(ready) \in Seq(Key)
      /\ Len(Tail(ready)) = Len(ready) - 1 /\ Len(ready) \in Nat \ {0}
  BY <1>1, HeadTailProperties, EmptySeq, LenProperties
<1>3. Doing("beginning", Head(ready)) \in WorkerState
  BY <1>2 DEF Doing, WorkerState, WorkerPlaces
<1> QED
  BY <1>2, <1>3 DEF ExecutorTypeOK

(* The queue and the two flags, after a key was put into it.               *)
LEMMA EnqueueTyped ==
  ASSUME ExecutorTypeOK, NEW key \in Key, Enqueue(key)
  PROVE  /\ ready' \in Seq(Key) /\ Len(ready') <= Cardinality(Slot)
         /\ stop' \in BOOLEAN /\ fault' \in BOOLEAN
<1>1. Cardinality(Slot) \in Nat /\ Len(ready) \in Nat
  BY SlotAssumption, FS_CardinalityType, LenProperties DEF ExecutorTypeOK
<1>2. CASE Len(ready) < Cardinality(Slot)
  <2>1. ready' = Append(ready, key) /\ stop' = stop /\ fault' = fault
    BY <1>2 DEF Enqueue
  <2>2. ready \in Seq(Key)
    BY DEF ExecutorTypeOK
  <2>3. Append(ready, key) \in Seq(Key) /\ Len(Append(ready, key)) = Len(ready) + 1
    BY <2>2, AppendProperties
  <2> QED
    BY <1>1, <1>2, <2>1, <2>3 DEF ExecutorTypeOK
<1>3. CASE ~(Len(ready) < Cardinality(Slot))
  BY <1>1, <1>3 DEF Enqueue, ExecutorTypeOK
<1> QED
  BY <1>2, <1>3

(* A slot has had no more tasks than were spawned.                         *)
LEMMA FewGenerations ==
  ASSUME ExecutorTypeOK, NEW s \in Slot, Cardinality(Spawned) < MaxSpawn
  PROVE  generation[s] + 1 \in 0..MaxSpawn
<1> DEFINE f == [g \in 1..generation[s] |-> <<s, g>>]
<1>1. generation[s] \in Nat /\ MaxSpawn \in Nat /\ generation[s] <= MaxSpawn
  BY SpawnAssumption DEF ExecutorTypeOK
<1>2. IsFiniteSet(Spawned)
  <2>1. IsFiniteSet(0..MaxSpawn)
    BY <1>1, FS_Interval
  <2>2. IsFiniteSet(Slot \X (0..MaxSpawn))
    BY <2>1, SlotAssumption, FS_Product
  <2> QED
    BY <2>2, FS_Subset DEF Spawned, Key
<1>3. f \in Injection(1..generation[s], Spawned)
  <2>1. \A g \in 1..generation[s] : <<s, g>> \in Spawned
    BY <1>1 DEF Spawned, Key
  <2> QED
    BY <2>1 DEF Injection, IsInjective
<1>4. Cardinality(1..generation[s]) <= Cardinality(Spawned)
  BY <1>2, <1>3, FS_Injection
<1>5. Cardinality(1..generation[s]) = generation[s]
  BY <1>1, FS_Interval
<1>6. Cardinality(Spawned) \in Nat
  BY <1>2, FS_CardinalityType
<1> QED
  BY <1>1, <1>4, <1>5, <1>6

-----------------------------------------------------------------------------
(* The stack of free slots *)

LEMMA FreePop ==
  ASSUME ExecutorTypeOK, free # <<>>
  PROVE  LET s == free[Len(free)]
             rest == SubSeq(free, 1, Len(free) - 1)
         IN  /\ s \in Slot /\ s \in Range(free)
             /\ rest \in Seq(Slot) /\ IsInjective(rest)
             /\ \A x \in Slot : x \in Range(rest) <=> x \in Range(free) /\ x # s
<1> DEFINE n == Len(free)
           rest == SubSeq(free, 1, n - 1)
<1>1. free \in Seq(Slot) /\ n \in Nat \ {0} /\ DOMAIN free = 1..n
  BY EmptySeq, LenProperties DEF ExecutorTypeOK
<1>2. \A i \in 1..n : free[i] \in Slot
  BY <1>1, ElementOfSeq
<1>3. /\ rest \in Seq(Slot) /\ DOMAIN rest = 1..n - 1
      /\ \A i \in 1..n - 1 : rest[i] = free[i]
  BY <1>1, SubSeqProperties
<1>4. \A i, j \in 1..n : free[i] = free[j] => i = j
  BY <1>1 DEF ExecutorTypeOK, IsInjective
<1>5. IsInjective(rest)
  BY <1>1, <1>3, <1>4 DEF IsInjective
<1>6. ASSUME NEW x \in Slot PROVE x \in Range(rest) <=> x \in Range(free) /\ x # free[n]
  <2>1. ASSUME x \in Range(rest) PROVE x \in Range(free) /\ x # free[n]
    <3>1. PICK i \in 1..n - 1 : x = free[i]
      BY <1>3, <2>1 DEF Range
    <3> QED
      BY <1>1, <1>4, <3>1 DEF Range
  <2>2. ASSUME x \in Range(free), x # free[n] PROVE x \in Range(rest)
    <3>1. PICK i \in 1..n : x = free[i]
      BY <1>1, <2>2 DEF Range
    <3>2. i \in 1..n - 1
      BY <1>1, <2>2, <3>1
    <3> QED
      BY <1>3, <3>1, <3>2 DEF Range
  <2> QED
    BY <2>1, <2>2
<1> QED
  BY <1>1, <1>2, <1>3, <1>5, <1>6 DEF Range

LEMMA FreePush ==
  ASSUME ExecutorTypeOK, NEW s \in Slot, s \notin Range(free)
  PROVE  /\ Append(free, s) \in Seq(Slot) /\ IsInjective(Append(free, s))
         /\ \A x \in Slot : x \in Range(Append(free, s)) <=> x \in Range(free) \/ x = s
<1> DEFINE n == Len(free)
           longer == Append(free, s)
<1>1. free \in Seq(Slot) /\ n \in Nat /\ DOMAIN free = 1..n
  BY LenProperties DEF ExecutorTypeOK
<1>2. /\ longer \in Seq(Slot) /\ Len(longer) = n + 1
      /\ \A i \in 1..n : longer[i] = free[i]
      /\ longer[n + 1] = s
  BY <1>1, AppendProperties
<1>3. DOMAIN longer = 1..n + 1
  BY <1>2, LenProperties
<1>4. \A i, j \in 1..n : free[i] = free[j] => i = j
  BY <1>1 DEF ExecutorTypeOK, IsInjective
<1>5. \A i \in 1..n : free[i] # s
  BY <1>1 DEF Range
<1> HIDE DEF longer, n
<1>6. IsInjective(longer)
  BY <1>1, <1>2, <1>3, <1>4, <1>5 DEF IsInjective
<1>7. ASSUME NEW x \in Slot PROVE x \in Range(longer) <=> x \in Range(free) \/ x = s
  <2>1. x \in Range(longer) <=> \E i \in 1..n + 1 : longer[i] = x
    BY <1>3 DEF Range
  <2>2. x \in Range(free) <=> \E i \in 1..n : free[i] = x
    BY <1>1 DEF Range
  <2> QED
    BY <1>1, <1>2, <2>1, <2>2
<1> QED
  BY <1>2, <1>6, <1>7 DEF longer

(* join puts the slots of the tasks it stopped back, each once.            *)
LEMMA FreeJoin ==
  ASSUME ExecutorTypeOK, NEW active \in SUBSET Slot, active \cap Range(free) = {},
         NEW order \in [1..Cardinality(active) -> active],
         \A s \in active : \E i \in DOMAIN order : order[i] = s
  PROVE  /\ free \o order \in Seq(Slot) /\ IsInjective(free \o order)
<1> DEFINE n == Len(free)
           c == Cardinality(active)
<1>1. free \in Seq(Slot) /\ n \in Nat /\ DOMAIN free = 1..n
  BY LenProperties DEF ExecutorTypeOK
<1>2. IsFiniteSet(active) /\ c \in Nat
  BY SlotAssumption, FS_Subset, FS_CardinalityType
<1>3. order \in Seq(Slot) /\ Len(order) = c /\ DOMAIN order = 1..c
  <2>1. order \in [1..c -> Slot]
    OBVIOUS
  <2> QED
    BY <1>2, <2>1, SeqDef, LenProperties
<1>4. \A i, j \in 1..c : order[i] = order[j] => i = j
  <2>1. order \in Surjection(1..c, active)
    BY <1>3 DEF Surjection
  <2>2. IsFiniteSet(1..c) /\ Cardinality(1..c) = c
    BY <1>2, FS_Interval
  <2>3. order \in Injection(1..c, active)
    BY <2>1, <2>2, FS_SurjSameCardinalityImpliesInj
  <2> QED
    BY <1>3, <2>3 DEF Injection, IsInjective
<1>5. /\ free \o order \in Seq(Slot) /\ Len(free \o order) = n + c
      /\ \A i \in 1..n + c : (free \o order)[i] = IF i <= n THEN free[i] ELSE order[i - n]
  BY <1>1, <1>3, ConcatProperties
<1>6. DOMAIN (free \o order) = 1..n + c
  BY <1>5, LenProperties
<1>7. \A i, j \in 1..n : free[i] = free[j] => i = j
  BY <1>1 DEF ExecutorTypeOK, IsInjective
<1>8. \A i \in 1..n, j \in 1..c : free[i] # order[j]
  BY <1>1, <1>3 DEF Range
<1> DEFINE all == free \o order
<1> HIDE DEF all, n, c
<1>9. ASSUME NEW i \in 1..n + c, NEW j \in 1..n + c, all[i] = all[j] PROVE i = j
  <2>1. all[i] = (IF i <= n THEN free[i] ELSE order[i - n])
        /\ all[j] = (IF j <= n THEN free[j] ELSE order[j - n])
    BY <1>5 DEF all
  <2>2. (i <= n => i \in 1..n) /\ (~(i <= n) => i - n \in 1..c)
        /\ (j <= n => j \in 1..n) /\ (~(j <= n) => j - n \in 1..c)
    BY <1>1, <1>2 DEF n, c
  <2>3. CASE i <= n /\ j <= n
    BY <1>7, <1>9, <2>1, <2>2, <2>3
  <2>4. CASE i <= n /\ ~(j <= n)
    BY <1>8, <1>9, <2>1, <2>2, <2>4
  <2>5. CASE ~(i <= n) /\ j <= n
    BY <1>8, <1>9, <2>1, <2>2, <2>5
  <2>6. CASE ~(i <= n) /\ ~(j <= n)
    <3>1. i - n = j - n
      BY <1>4, <1>9, <2>1, <2>2, <2>6
    <3> QED
      BY <1>1, <1>2, <3>1 DEF n, c
  <2> QED
    BY <2>3, <2>4, <2>5, <2>6
<1> QED
  BY <1>5, <1>6, <1>9 DEF all, IsInjective

-----------------------------------------------------------------------------
(* Types *)

LEMMA WorkerTyped ==
  ASSUME ExecutorInv, NEW w \in Worker, WorkerStep(w) \/ WakeForNothing(w)
  PROVE  ExecutorTypeOK'
<1> USE DEF ExecutorInv
<1>1. CASE Look(w)
  <2>1. CASE stop /\ Go(w, "exited") /\ UNCHANGED <<ready, holder>>
    <3>1. worker' \in [Worker -> WorkerState]
      BY <2>1, Goes, Places
    <3> QED
      BY <1>1, <2>1, <3>1 DEF Look, ExecutorTypeOK
  <2>2. CASE /\ ready # <<>>
             /\ worker' = [worker EXCEPT ![w] = Doing("beginning", Head(ready))]
             /\ ready' = Tail(ready) /\ UNCHANGED holder
    <3>1. Cardinality(Slot) \in Nat
      BY SlotAssumption, FS_CardinalityType
    <3>2. ready' \in Seq(Key) /\ Len(ready') <= Cardinality(Slot)
      BY <2>2, <3>1, TakeTyped DEF ExecutorTypeOK
    <3> QED
      BY <1>1, <2>2, <3>2, TakeTyped DEF Look, ExecutorTypeOK
  <2>3. CASE Go(w, "checked") /\ holder' = w /\ UNCHANGED ready
    <3>1. worker' \in [Worker -> WorkerState]
      BY <2>3, Goes, Places
    <3> QED
      BY <1>1, <2>3, <3>1 DEF Look, ExecutorTypeOK
  <2> QED
    BY <1>1, <2>1, <2>2, <2>3 DEF Look
<1>2. CASE Sleep(w) \/ WakeForNothing(w) \/ Drain(w)
  <2>1. worker' \in [Worker -> WorkerState]
    BY <1>2, Goes, Places DEF Sleep, WakeForNothing, Drain
  <2> QED
    BY <1>2, <2>1 DEF Sleep, WakeForNothing, Drain, ExecutorTypeOK
<1>3. CASE Pop(w)
  <2>1. CASE ready # <<>>
    <3>1. Cardinality(Slot) \in Nat
      BY SlotAssumption, FS_CardinalityType
    <3>2. /\ worker' = [worker EXCEPT ![w] = Doing("beginning", Head(ready))]
          /\ ready' = Tail(ready)
      BY <1>3, <2>1 DEF Pop
    <3>3. ready' \in Seq(Key) /\ Len(ready') <= Cardinality(Slot)
      BY <2>1, <3>1, <3>2, TakeTyped DEF ExecutorTypeOK
    <3> QED
      BY <1>3, <2>1, <3>2, <3>3, TakeTyped DEF Pop, ExecutorTypeOK
  <2>2. CASE ready = <<>>
    <3>1. worker' \in [Worker -> WorkerState] /\ ready' = ready
      BY <1>3, <2>2, Goes, Places DEF Pop
    <3> QED
      BY <1>3, <3>1 DEF Pop, ExecutorTypeOK
  <2> QED
    BY <2>1, <2>2
<1>4. CASE Leave(w)
  <2> DEFINE looking == [worker EXCEPT ![w] = Doing("looking", NoKey)]
  <2>1. looking \in [Worker -> WorkerState]
    BY DEF ExecutorTypeOK, WorkerState, WorkerPlaces, Doing
  <2>2. worker' \in [Worker -> WorkerState]
    BY <1>4, <2>1, NotifyWakes DEF Leave
  <2> QED
    BY <1>4, <2>2 DEF Leave, ExecutorTypeOK
<1>5. CASE Begin(w) \/ Claim(w) \/ PollReturns(w)
  <2>1. worker' \in [Worker -> WorkerState]
    BY <1>5, Goes, Places DEF Begin, Claim, PollReturns
  <2>2. state' \in [Slot -> SUBSET Flags]
    <3>1. CASE state' = state
      BY <3>1 DEF ExecutorTypeOK
    <3>2. CASE \E s : state' = [state EXCEPT ![s] = (@ \ {"SCHEDULED"}) \cup {"RUNNING"}]
      BY <3>2 DEF ExecutorTypeOK, Flags
    <3> QED
      BY <1>5, <3>1, <3>2 DEF Begin, Claim, PollReturns
  <2>3. owed' \in SUBSET Slot
    BY <1>5 DEF Begin, Claim, PollReturns, ExecutorTypeOK
  <2> QED
    BY <1>5, <2>1, <2>2, <2>3 DEF Begin, Claim, PollReturns, ExecutorTypeOK
<1>6. CASE Park(w)
  <2>1. worker' \in [Worker -> WorkerState]
    BY <1>6, Goes, Places DEF Park
  <2>2. state' \in [Slot -> SUBSET Flags]
    <3>1. \/ state' = [state EXCEPT ![worker[w].key[1]] = {"ACTIVE", "SCHEDULED"}]
          \/ state' = [state EXCEPT ![worker[w].key[1]] = {"ACTIVE"}]
      BY <1>6 DEF Park
    <3> QED
      BY <3>1 DEF ExecutorTypeOK, Flags
  <2> QED
    BY <1>6, <2>1, <2>2 DEF Park, ExecutorTypeOK
<1>7. CASE Requeue(w)
  <2>1. worker[w].key \in Key
    BY <1>7 DEF Requeue, KeysInv
  <2>2. worker' \in [Worker -> WorkerState]
    BY <1>7, Goes, Places DEF Requeue
  <2> QED
    BY <1>7, <2>1, <2>2, EnqueueTyped DEF Requeue, ExecutorTypeOK
<1>8. CASE Tell(w)
  <2>1. [worker EXCEPT ![w].at = "draining"] \in [Worker -> WorkerState]
    BY GoTyped, Places
  <2>2. worker' \in [Worker -> WorkerState]
    BY <1>8, <2>1, NotifyWakes DEF Tell
  <2> QED
    BY <1>8, <2>2 DEF Tell, ExecutorTypeOK
<1>9. CASE Finish(w)
  <2>1. worker[w].key[1] \in Slot
    BY <1>9 DEF Finish, KeysInv, Key
  <2>2. <<worker[w].key[1], generation[worker[w].key[1]]>> \in Key
    BY <2>1 DEF ExecutorTypeOK, Key
  <2>3. worker' \in [Worker -> WorkerState]
    BY <1>9, Goes, Places DEF Finish
  <2>4. state' \in [Slot -> SUBSET Flags]
    BY <1>9 DEF Finish, ExecutorTypeOK
  <2>5. settled' \in SUBSET Key /\ owed' \in SUBSET Slot
    BY <1>9, <2>2 DEF Finish, ExecutorTypeOK
  <2> QED
    BY <1>9, <2>3, <2>4, <2>5 DEF Finish, ExecutorTypeOK
<1>10. CASE Recycle(w)
  <2>1. worker[w].key[1] \in Slot
    BY <1>10 DEF Recycle, KeysInv, Key
  <2>2. worker[w].key[1] \notin Range(free)
    BY <1>10, <2>1 DEF Recycle, SlotsInv, Recycling
  <2>3. worker' \in [Worker -> WorkerState]
    BY <1>10, Goes, Places DEF Recycle
  <2> QED
    BY <1>10, <2>1, <2>2, <2>3, FreePush DEF Recycle, ExecutorTypeOK
<1> QED
  BY <1>1, <1>2, <1>3, <1>4, <1>5, <1>6, <1>7, <1>8, <1>9, <1>10 DEF WorkerStep

LEMMA WakerTyped ==
  ASSUME ExecutorInv, NEW k \in Waker, Wake(k) \/ WakerStep(k)
  PROVE  ExecutorTypeOK'
<1> USE DEF ExecutorInv
<1>1. CASE Wake(k)
  <2>1. PICK key \in Key : waker' = [waker EXCEPT ![k] = Doing("marking", key)]
    BY <1>1 DEF Wake, Spawned
  <2> QED
    BY <1>1, <2>1 DEF Wake, Doing, ExecutorTypeOK, WakerState
<1>2. CASE Mark(k)
  <2>1. waker[k].key \in Key
    BY <1>2 DEF Mark, KeysInv
  <2>2. waker' \in [Waker -> WakerState]
    <3>1. \/ waker' = [waker EXCEPT ![k] = Idle]
          \/ waker' = [waker EXCEPT ![k].at = "enqueueing"]
      BY <1>2 DEF Mark
    <3>2. Idle \in WakerState
      BY DEF Idle, WakerState
    <3>3. [waker EXCEPT ![k].at = "enqueueing"] \in [Waker -> WakerState]
      BY DEF ExecutorTypeOK, WakerState
    <3> QED
      BY <3>1, <3>2, <3>3 DEF ExecutorTypeOK
  <2>3. state' \in [Slot -> SUBSET Flags]
    <3>1. \/ state' = state
          \/ \E f \in Flags : state' = [state EXCEPT ![waker[k].key[1]] = @ \cup {f}]
      BY <1>2 DEF Mark, Flags
    <3> QED
      BY <3>1 DEF ExecutorTypeOK
  <2>4. owed' \in SUBSET Slot /\ stale' \in SUBSET Slot
    BY <1>2, <2>1 DEF Mark, MarkRecord, ExecutorTypeOK, Key
  <2> QED
    BY <1>2, <2>2, <2>3, <2>4 DEF Mark, ExecutorTypeOK
<1>3. CASE WakeEnqueue(k)
  <2>1. waker[k].key \in Key
    BY <1>3 DEF WakeEnqueue, KeysInv
  <2>2. waker' \in [Waker -> WakerState]
    BY <1>3 DEF WakeEnqueue, ExecutorTypeOK, WakerState
  <2> QED
    BY <1>3, <2>1, <2>2, EnqueueTyped DEF WakeEnqueue, ExecutorTypeOK
<1>4. CASE WakeTell(k)
  <2>1. worker' \in [Worker -> WorkerState]
    BY <1>4, NotifyWakes DEF WakeTell, ExecutorTypeOK
  <2>2. waker' \in [Waker -> WakerState]
    BY <1>4 DEF WakeTell, ExecutorTypeOK, WakerState, Idle
  <2> QED
    BY <1>4, <2>1, <2>2 DEF WakeTell, ExecutorTypeOK
<1> QED
  BY <1>1, <1>2, <1>3, <1>4 DEF WakerStep

LEMMA LifeTyped ==
  ASSUME ExecutorInv, Spawn \/ SpawnerStep \/ RequestStop \/ StopperStep
  PROVE  ExecutorTypeOK'
<1> USE DEF ExecutorInv
<1>1. CASE Spawn
  <2> DEFINE s == free[Len(free)]
  <2>1. s \in Slot /\ SubSeq(free, 1, Len(free) - 1) \in Seq(Slot)
        /\ IsInjective(SubSeq(free, 1, Len(free) - 1))
    BY <1>1, FreePop DEF Spawn
  <2>2. generation[s] + 1 \in 0..MaxSpawn
    BY <1>1, <2>1, FewGenerations DEF Spawn
  <2>3. spawner' \in SpawnerState
    BY <1>1, <2>1, <2>2 DEF Spawn, Doing, SpawnerState, Key
  <2>4. generation' \in [Slot -> 0..MaxSpawn]
    BY <1>1, <2>1, <2>2 DEF Spawn, ExecutorTypeOK
  <2> QED
    BY <1>1, <2>1, <2>3, <2>4 DEF Spawn, ExecutorTypeOK
<1>2. CASE SpawnArm
  <2>1. spawner.key[1] \in Slot
    BY <1>2 DEF SpawnArm, KeysInv, Key
  <2> QED
    BY <1>2, <2>1 DEF SpawnArm, ExecutorTypeOK, SpawnerState, Flags
<1>3. CASE SpawnEnqueue
  <2>1. spawner.key \in Key
    BY <1>3 DEF SpawnEnqueue, KeysInv
  <2> QED
    BY <1>3, <2>1, EnqueueTyped DEF SpawnEnqueue, ExecutorTypeOK, SpawnerState
<1>4. CASE SpawnTell
  <2>1. worker' \in [Worker -> WorkerState]
    BY <1>4, NotifyWakes DEF SpawnTell, ExecutorTypeOK
  <2> QED
    BY <1>4, <2>1 DEF SpawnTell, ExecutorTypeOK, SpawnerState, Idle
<1>5. CASE RequestStop
  BY <1>5 DEF RequestStop, ExecutorTypeOK
<1>6. CASE NotifyStop
  BY <1>6, NotifyAllWakes DEF NotifyStop, ExecutorTypeOK
<1>7. CASE Join
  <2> DEFINE active == {s \in Slot : "ACTIVE" \in state[s]}
  <2>1. active \cap Range(free) = {}
    BY DEF SlotsInv
  <2>2. PICK order \in [1..Cardinality(active) -> active] :
          /\ \A s \in active : \E i \in DOMAIN order : order[i] = s
          /\ free' = free \o order
    BY <1>7 DEF Join
  <2>3. free' \in Seq(Slot) /\ IsInjective(free')
    BY <2>1, <2>2, FreeJoin
  <2>4. settled' \in SUBSET Key /\ owed' \in SUBSET Slot
    BY <1>7 DEF Join, ExecutorTypeOK, Key
  <2>5. state' \in [Slot -> SUBSET Flags]
    BY <1>7 DEF Join, Flags
  <2>6. ready' \in Seq(Key) /\ Len(ready') <= Cardinality(Slot)
    BY <1>7, EmptySeq, SlotAssumption, FS_CardinalityType DEF Join
  <2> QED
    BY <1>7, <2>3, <2>4, <2>5, <2>6 DEF Join, ExecutorTypeOK
<1> QED
  BY <1>1, <1>2, <1>3, <1>4, <1>5, <1>6, <1>7 DEF SpawnerStep, StopperStep

LEMMA TypeKept == ASSUME ExecutorInv, [ExecutorNext]_executor PROVE ExecutorTypeOK'
<1>1. CASE UNCHANGED executor
  BY <1>1 DEF executor, threads, ExecutorInv, ExecutorTypeOK
<1> QED
  BY <1>1, WorkerTyped, WakerTyped, LifeTyped DEF ExecutorNext

-----------------------------------------------------------------------------
(* The slots, their keys and their tasks.  Of the workers only those at    *)
(* Busy places matter.                                                     *)
Busy == {"beginning", "claiming", "polling", "parking", "requeueing", "finishing", "recycling"}

BusyKept(W) ==
  \A w \in Worker \ W :
    worker[w].at \in Busy \/ worker'[w].at \in Busy => worker'[w] = worker[w]

Core ==
  SlotStateInv /\ SlotsInv /\ KeysInv /\ RunningInv /\ CarriedInv /\ WakeInv /\ SettledInv

WakersKept ==
  \A k \in Waker :
    waker[k].at = "enqueueing" \/ waker'[k].at = "enqueueing" => waker'[k] = waker[k]

SpawnerKept ==
  spawner.at \in {"arming", "enqueueing"} \/ spawner'.at \in {"arming", "enqueueing"}
    => spawner' = spawner

(* A step that is of no concern to any slot.                               *)
Quiet ==
  /\ UNCHANGED <<generation, state, free, ready, settled, stale>>
  /\ BusyKept({}) /\ WakersKept /\ SpawnerKept
  /\ stopper = "joined" => stopper' = "joined"
  /\ \A s \in owed' : s \in owed \/ "SCHEDULED" \in state[s] \/ "NOTIFIED" \in state[s]
  /\ \A k \in Waker : waker'[k].at # "idle" => waker'[k].key \in Key
  /\ spawner'.at # "idle" => spawner'.key \in Key

LEMMA QuietKeeps == ASSUME ExecutorInv, Quiet PROVE Core'
<1> USE DEF ExecutorInv
<1>1. /\ generation' = generation /\ state' = state /\ free' = free /\ ready' = ready
      /\ settled' = settled /\ stale' = stale
  BY DEF Quiet
<1>2. \A w \in Worker : worker[w].at \in Busy \/ worker'[w].at \in Busy => worker'[w] = worker[w]
  BY DEF Quiet, BusyKept
<1>3. \A k \in Waker : waker[k].at = "enqueueing" \/ waker'[k].at = "enqueueing"
                         => waker'[k] = waker[k]
  BY DEF Quiet, WakersKept
<1>4. spawner.at \in {"arming", "enqueueing"} \/ spawner'.at \in {"arming", "enqueueing"}
        => spawner' = spawner
  BY DEF Quiet, SpawnerKept
<1>5. ASSUME NEW s \in Slot
      PROVE  /\ Recycling(s)' = Recycling(s) /\ Polls(s)' = Polls(s)
             /\ WorkersFor(s)' = WorkersFor(s) /\ WakersFor(s)' = WakersFor(s)
             /\ QueuedFor(s)' = QueuedFor(s)
             /\ (Arming(s)' <=> Arming(s)) /\ (SpawnerFor(s)' <=> SpawnerFor(s))
  <2>1. Recycling(s)' = Recycling(s)
    BY <1>2 DEF Recycling, Busy
  <2>2. Polls(s)' = Polls(s)
    BY <1>2 DEF Polls, Busy
  <2>3. WorkersFor(s)' = WorkersFor(s)
    BY <1>2 DEF WorkersFor, Busy
  <2>4. WakersFor(s)' = WakersFor(s)
    BY <1>3 DEF WakersFor
  <2>5. QueuedFor(s)' = QueuedFor(s)
    BY <1>1 DEF QueuedFor
  <2>6. (Arming(s)' <=> Arming(s)) /\ (SpawnerFor(s)' <=> SpawnerFor(s))
    BY <1>4 DEF Arming, SpawnerFor
  <2> QED
    BY <2>1, <2>2, <2>3, <2>4, <2>5, <2>6
<1>6. SlotStateInv'
  BY <1>1 DEF SlotStateInv
<1>7. SlotsInv'
  BY <1>1, <1>5 DEF SlotsInv
<1>8. KeysInv'
  BY <1>1, <1>2, <1>4 DEF KeysInv, Current, Busy, Quiet
<1>9. RunningInv'
  BY <1>1, <1>5 DEF RunningInv
<1>10. CarriedInv'
  BY <1>1, <1>5 DEF CarriedInv, Carried, CarriedOnce, Quiet
<1>11. WakeInv'
  <2>1. \A key \in Key : Queued(key) => Queued(key)'
    BY <1>1 DEF Queued
  <2>2. ASSUME NEW key, OnItsWay(key) PROVE OnItsWay(key)'
    <3>1. CASE spawner = Doing("enqueueing", key)
      BY <1>4, <3>1 DEF OnItsWay, Doing
    <3>2. CASE \E k \in Waker : waker[k] = Doing("enqueueing", key)
      BY <1>3, <3>2 DEF OnItsWay, Doing
    <3>3. CASE \E w \in Worker : \E place \in {"requeueing", "beginning", "claiming"} :
                 worker[w] = Doing(place, key)
      BY <1>2, <3>3 DEF OnItsWay, Doing, Busy
    <3> QED
      BY <2>2, <3>1, <3>2, <3>3 DEF OnItsWay
  <2>3. \A s \in Slot : <<s, generation[s]>> \in Key
    BY DEF ExecutorTypeOK, Key
  <2> QED
    BY <1>1, <2>1, <2>2, <2>3 DEF WakeInv, Quiet
<1>12. SettledInv'
  BY <1>1, <1>5 DEF SettledInv
<1> QED
  BY <1>6, <1>7, <1>8, <1>9, <1>10, <1>11, <1>12 DEF Core

LEMMA QuietWorker ==
  ASSUME ExecutorInv, NEW w \in Worker,
         \/ Look(w) /\ worker'[w].at # "beginning"
         \/ Pop(w) /\ worker'[w].at # "beginning"
         \/ Sleep(w) \/ WakeForNothing(w) \/ Drain(w) \/ Leave(w) \/ Tell(w)
  PROVE  Quiet
<1> USE DEF ExecutorInv
<1>1. /\ UNCHANGED <<generation, state, free, ready, settled, stale, owed, waker, spawner, stopper>>
      /\ BusyKept({})
  <2>1. CASE (Look(w) \/ Pop(w)) /\ worker'[w].at # "beginning"
    <3>1. ready' = ready /\ \E place \in {"exited", "checked", "leaving"} : Go(w, place)
      <4>1. ~(worker' = [worker EXCEPT ![w] = Doing("beginning", Head(ready))])
        BY <2>1 DEF ExecutorTypeOK, Doing
      <4> QED
        BY <2>1, <4>1 DEF Look, Pop
    <3>2. worker[w].at \notin Busy
      BY <2>1 DEF Look, Pop, Busy
    <3>3. worker'[w].at \notin Busy /\ \A x \in Worker \ {w} : worker'[x] = worker[x]
      BY <3>1, Goes, Places DEF Busy
    <3> QED
      BY <2>1, <3>1, <3>2, <3>3 DEF Look, Pop, BusyKept
  <2>2. CASE Sleep(w) \/ WakeForNothing(w) \/ Drain(w)
    <3>1. \E place \in {"asleep", "looking", "exited", "popping", "leaving"} : Go(w, place)
      BY <2>2 DEF Sleep, WakeForNothing, Drain
    <3>2. worker[w].at \notin Busy
      BY <2>2 DEF Sleep, WakeForNothing, Drain, Busy
    <3>3. worker'[w].at \notin Busy /\ \A x \in Worker \ {w} : worker'[x] = worker[x]
      BY <3>1, Goes, Places DEF Busy
    <3> QED
      BY <2>2, <3>2, <3>3 DEF Sleep, WakeForNothing, Drain, BusyKept
  <2>3. CASE Leave(w) \/ Tell(w)
    <3> DEFINE new == IF Leave(w) THEN [worker EXCEPT ![w] = Doing("looking", NoKey)]
                      ELSE [worker EXCEPT ![w].at = "draining"]
    <3>1. /\ worker[w].at \in {"leaving", "telling"}
          /\ worker' = new \/ NotifyOne(new)
      BY <2>3 DEF Leave, Tell
    <3>2. /\ new \in [Worker -> WorkerState]
          /\ new[w].at \in {"looking", "draining"}
          /\ \A x \in Worker \ {w} : new[x] = worker[x]
      BY DEF ExecutorTypeOK, WorkerState, WorkerPlaces, Doing
    <3> HIDE DEF new
    <3>3. \A z \in Worker : \/ worker'[z] = new[z]
                            \/ worker[z].at = "asleep" /\ worker'[z] = Doing("looking", NoKey)
      BY <3>1, <3>2, NotifyWakes
    <3>4. BusyKept({})
      BY <3>1, <3>2, <3>3 DEF BusyKept, Busy, Doing
    <3> QED
      BY <2>3, <3>4 DEF Leave, Tell
  <2> QED
    BY <2>1, <2>2, <2>3
<1> QED
  BY <1>1 DEF Quiet, WakersKept, SpawnerKept, KeysInv

LEMMA QuietOther ==
  ASSUME ExecutorInv,
         \/ SpawnTell \/ RequestStop \/ NotifyStop
         \/ \E k \in Waker : Wake(k) \/ WakeTell(k)
  PROVE  Quiet
<1> USE DEF ExecutorInv
<1>1. CASE SpawnTell \/ RequestStop \/ NotifyStop
  <2>1. BusyKept({})
    <3>1. CASE SpawnTell
      <4>1. worker \in [Worker -> WorkerState] /\ NotifyOne(worker)
        BY <3>1 DEF SpawnTell, ExecutorTypeOK
      <4>2. \A z \in Worker : \/ worker'[z] = worker[z]
                              \/ worker[z].at = "asleep" /\ worker'[z] = Doing("looking", NoKey)
        BY <4>1, NotifyWakes
      <4> QED
        BY <4>2 DEF BusyKept, Busy, Doing
    <3>2. CASE RequestStop
      BY <3>2 DEF RequestStop, BusyKept
    <3>3. CASE NotifyStop
      BY <3>3, NotifyAllWakes DEF NotifyStop, BusyKept, Busy, Doing
    <3> QED
      BY <1>1, <3>1, <3>2, <3>3
  <2> QED
    BY <1>1, <2>1 DEF SpawnTell, RequestStop, NotifyStop, Quiet, WakersKept, SpawnerKept,
                      KeysInv, Idle
<1>2. ASSUME NEW k \in Waker, Wake(k) PROVE Quiet
  <2>1. PICK key \in Key : waker' = [waker EXCEPT ![k] = Doing("marking", key)]
    BY <1>2 DEF Wake, Spawned
  <2>2. WakersKept
    BY <1>2, <2>1 DEF Wake, WakersKept, ExecutorTypeOK, Doing, Idle
  <2>3. \A l \in Waker : waker'[l].at # "idle" => waker'[l].key \in Key
    BY <2>1 DEF KeysInv, ExecutorTypeOK, Doing
  <2> QED
    BY <1>2, <2>2, <2>3 DEF Wake, Quiet, SpawnerKept, BusyKept, KeysInv
<1>3. ASSUME NEW k \in Waker, WakeTell(k) PROVE Quiet
  <2>1. BusyKept({})
    <3>1. worker \in [Worker -> WorkerState] /\ NotifyOne(worker)
      BY <1>3 DEF WakeTell, ExecutorTypeOK
    <3>2. \A z \in Worker : \/ worker'[z] = worker[z]
                            \/ worker[z].at = "asleep" /\ worker'[z] = Doing("looking", NoKey)
      BY <3>1, NotifyWakes
    <3> QED
      BY <3>2 DEF BusyKept, Busy, Doing
  <2>2. WakersKept
    BY <1>3 DEF WakeTell, WakersKept, ExecutorTypeOK, Idle
  <2>3. \A l \in Waker : waker'[l].at # "idle" => waker'[l].key \in Key
    BY <1>3 DEF WakeTell, KeysInv, ExecutorTypeOK, Idle
  <2> QED
    BY <1>3, <2>1, <2>2, <2>3 DEF WakeTell, Quiet, SpawnerKept, KeysInv
<1> QED
  BY <1>1, <1>2, <1>3

LEMMA SpawnKeeps == ASSUME ExecutorInv, Spawn PROVE Core'
<1> USE DEF ExecutorInv
<1>0. PICK s0 \in Slot, g0 \in 0..MaxSpawn : s0 = free[Len(free)] /\ g0 = generation[s0]
  BY FreePop DEF Spawn, ExecutorTypeOK
<1>1. /\ s0 \in Range(free)
      /\ \A s \in Slot : s \in Range(free') <=> s \in Range(free) /\ s # s0
  BY <1>0, FreePop DEF Spawn
<1>2. /\ generation' = [generation EXCEPT ![s0] = g0 + 1]
      /\ spawner = Idle /\ spawner' = Doing("arming", <<s0, g0 + 1>>)
      /\ UNCHANGED <<state, ready, worker, waker, stopper, settled, owed, stale>>
  BY <1>0 DEF Spawn
<1>3. g0 \in Nat /\ g0 + 1 \in 0..MaxSpawn
  BY <1>0, FewGenerations, SpawnAssumption DEF Spawn
<1>4. state[s0] = {} /\ stopper # "joined"
  BY <1>1 DEF SlotsInv, LifeInv, Spawn
<1>5. ~Carried(s0) /\ Polls(s0) = {} /\ Recycling(s0) = {} /\ ~Carried(s0)'
  <2>1. ~Carried(s0) /\ Polls(s0) = {} /\ Recycling(s0) = {}
    BY <1>1, <1>4 DEF CarriedInv, RunningInv, SlotsInv
  <2> QED
    BY <1>2, <2>1 DEF Carried, QueuedFor, WorkersFor, WakersFor, SpawnerFor, Doing
<1>6. ASSUME NEW s \in Slot
      PROVE  /\ Recycling(s)' = Recycling(s) /\ Polls(s)' = Polls(s)
             /\ WorkersFor(s)' = WorkersFor(s) /\ WakersFor(s)' = WakersFor(s)
             /\ QueuedFor(s)' = QueuedFor(s) /\ ~SpawnerFor(s) /\ ~SpawnerFor(s)'
             /\ ~Arming(s) /\ (Arming(s)' <=> s = s0)
  BY <1>2 DEF Recycling, Polls, WorkersFor, WakersFor, QueuedFor, SpawnerFor, Arming, Doing, Idle
<1>7. SlotStateInv' /\ RunningInv'
  BY <1>2, <1>6 DEF SlotStateInv, RunningInv
<1>8. SlotsInv'
  BY <1>1, <1>2, <1>4, <1>5, <1>6 DEF SlotsInv
<1>9. KeysInv'
  <2>1. ASSUME NEW w \in Worker,
               worker[w].at \in {"claiming", "polling", "parking", "requeueing", "finishing"}
        PROVE  Current(worker[w].key)'
    <3>1. worker[w].key \in Key /\ Current(worker[w].key)
      BY <2>1 DEF KeysInv
    <3>2. worker[w].key[1] # s0
      BY <1>5, <2>1 DEF Carried, WorkersFor, Polls
    <3> QED
      BY <1>1, <1>2, <3>1, <3>2 DEF Current, ExecutorTypeOK, Key
  <2>2. generation'[s0] = g0 + 1 /\ spawner'.key = <<s0, g0 + 1>> /\ spawner'.at = "arming"
    BY <1>2 DEF ExecutorTypeOK, Doing
  <2>3. spawner'.key \in Key
    BY <1>3, <2>2 DEF Key
  <2>4. spawner'.key[1] = s0 /\ spawner'.key[2] = g0 + 1
    BY <2>2
  <2>5. Current(spawner.key)'
    BY <2>2, <2>4 DEF Current
  <2>6. \A w \in Worker :
          worker'[w].at \in {"beginning", "claiming", "polling", "parking", "requeueing",
                            "finishing", "recycling"} => worker'[w].key \in Key
    BY <1>2 DEF KeysInv
  <2>7. \A k \in Waker : waker'[k].at # "idle" => waker'[k].key \in Key
    BY <1>2 DEF KeysInv
  <2> QED
    BY <1>2, <2>1, <2>3, <2>5, <2>6, <2>7 DEF KeysInv
<1>10. CarriedInv'
  BY <1>2, <1>6 DEF CarriedInv, Carried, CarriedOnce
<1>11. WakeInv'
  <2>1. \A key : (Queued(key) => Queued(key)') /\ (OnItsWay(key) => OnItsWay(key)')
    BY <1>2 DEF Queued, OnItsWay, Idle, Doing
  <2>2. \A s \in Slot \ {s0} : generation'[s] = generation[s]
    BY <1>2 DEF ExecutorTypeOK
  <2> QED
    BY <1>2, <1>4, <2>1, <2>2 DEF WakeInv
<1>12. SettledInv'
  <2> SUFFICES ASSUME NEW s \in Slot, NEW g \in 1..generation'[s]
               PROVE  \/ <<s, g>> \in settled'
                      \/ g = generation'[s] /\ ("ACTIVE" \in state'[s] \/ Arming(s)')
    BY DEF SettledInv
  <2>1. CASE s # s0
    BY <1>2, <1>6, <2>1 DEF SettledInv, ExecutorTypeOK
  <2>2. CASE s = s0 /\ g = g0 + 1
    BY <1>1, <1>2, <1>6, <2>2 DEF ExecutorTypeOK
  <2>3. CASE s = s0 /\ g # g0 + 1
    <3>1. generation'[s0] = g0 + 1 /\ generation[s0] = g0
      BY <1>0, <1>2 DEF ExecutorTypeOK
    <3>2. g \in 1..generation[s0]
      BY <1>3, <2>3, <3>1
    <3> QED
      BY <1>1, <1>2, <1>4, <1>6, <2>3, <3>2 DEF SettledInv
  <2> QED
    BY <2>1, <2>2, <2>3
<1> QED
  BY <1>7, <1>8, <1>9, <1>10, <1>11, <1>12 DEF Core

LEMMA SpawnArmKeeps == ASSUME ExecutorInv, SpawnArm PROVE Core'
<1> USE DEF ExecutorInv
<1>0. PICK s0 \in Slot, g0 \in 0..MaxSpawn : spawner.key = <<s0, g0>>
  BY DEF SpawnArm, KeysInv, Key
<1>1. /\ spawner.key \in Key /\ g0 = generation[s0] /\ spawner.key[1] = s0
      /\ Arming(s0) /\ spawner.at = "arming"
  BY <1>0 DEF SpawnArm, KeysInv, Current, Arming
<1>2. /\ state' = [state EXCEPT ![s0] = {"ACTIVE", "SCHEDULED"}]
      /\ owed' = owed \cup {s0} /\ spawner' = [spawner EXCEPT !.at = "enqueueing"]
      /\ stale' = stale \ {s0}
      /\ UNCHANGED <<generation, free, ready, worker, waker, stopper, settled>>
  BY <1>1 DEF SpawnArm
<1>3. spawner'.at = "enqueueing" /\ spawner'.key = spawner.key
      /\ spawner' = Doing("enqueueing", <<s0, g0>>)
  BY <1>0, <1>1, <1>2 DEF ExecutorTypeOK, SpawnerState, Doing
<1>4. /\ state[s0] = {} /\ stopper # "joined" /\ s0 \notin Range(free)
      /\ Recycling(s0) = {} /\ Polls(s0) = {} /\ ~Carried(s0)
  BY <1>1 DEF SlotsInv, LifeInv, RunningInv, CarriedInv
<1>5. ASSUME NEW s \in Slot
      PROVE  /\ Recycling(s)' = Recycling(s) /\ Polls(s)' = Polls(s)
             /\ WorkersFor(s)' = WorkersFor(s) /\ WakersFor(s)' = WakersFor(s)
             /\ QueuedFor(s)' = QueuedFor(s) /\ ~SpawnerFor(s) /\ (SpawnerFor(s)' <=> s = s0)
             /\ (Arming(s) <=> s = s0) /\ ~Arming(s)'
  BY <1>1, <1>2, <1>3 DEF Recycling, Polls, WorkersFor, WakersFor, QueuedFor, SpawnerFor, Arming
<1>6. state'[s0] = {"ACTIVE", "SCHEDULED"} /\ \A s \in Slot \ {s0} : state'[s] = state[s]
  BY <1>1, <1>2 DEF ExecutorTypeOK
<1>7. SlotStateInv' /\ RunningInv'
  BY <1>4, <1>5, <1>6 DEF SlotStateInv, RunningInv
<1>8. SlotsInv'
  BY <1>2, <1>4, <1>5, <1>6 DEF SlotsInv
<1>9. KeysInv'
  BY <1>1, <1>2, <1>3 DEF KeysInv, Current
<1>10. CarriedInv'
  BY <1>2, <1>4, <1>5, <1>6 DEF CarriedInv, Carried, CarriedOnce
<1>11. WakeInv'
  <2>1. \A key : (Queued(key) => Queued(key)') /\ (OnItsWay(key) => OnItsWay(key)')
    BY <1>1, <1>2 DEF Queued, OnItsWay, Doing
  <2>2. OnItsWay(<<s0, g0>>)'
    BY <1>3 DEF OnItsWay
  <2> QED
    BY <1>1, <1>2, <1>6, <2>1, <2>2 DEF WakeInv
<1>12. SettledInv'
  BY <1>2, <1>5, <1>6 DEF SettledInv
<1> QED
  BY <1>7, <1>8, <1>9, <1>10, <1>11, <1>12 DEF Core

-----------------------------------------------------------------------------
(* The queue holds a key of a slot once, so there is room for every slot.  *)
LEMMA QueueHasRoom ==
  ASSUME ExecutorInv, NEW s \in Slot, QueuedFor(s) = {}
  PROVE  Len(ready) < Cardinality(Slot)
<1> DEFINE f == [i \in 1..Len(ready) |-> ready[i][1]]
<1>1. ready \in Seq(Key) /\ Len(ready) \in Nat
  BY LenProperties DEF ExecutorInv, ExecutorTypeOK
<1>2. \A i \in 1..Len(ready) : ready[i][1] \in Slot
  <2>1. \A i \in 1..Len(ready) : ready[i] \in Key
    BY <1>1, ElementOfSeq
  <2> QED
    BY <2>1 DEF Key
<1>3. f \in Injection(1..Len(ready), Slot \ {s})
  <2>1. \A i \in 1..Len(ready) : ready[i][1] # s
    BY DEF QueuedFor
  <2>2. \A i, j \in 1..Len(ready) : ready[i][1] = ready[j][1] => i = j
    BY <1>2 DEF ExecutorInv, CarriedInv, CarriedOnce, QueuedFor
  <2> QED
    BY <1>2, <2>1, <2>2 DEF Injection, IsInjective
<1>4. IsFiniteSet(Slot \ {s}) /\ Cardinality(Slot \ {s}) = Cardinality(Slot) - 1
  BY SlotAssumption, FS_RemoveElement
<1>5. Cardinality(Slot) \in Nat
  BY SlotAssumption, FS_CardinalityType
<1>6. Cardinality(1..Len(ready)) <= Cardinality(Slot \ {s})
  BY <1>3, <1>4, FS_Injection
<1>7. Cardinality(1..Len(ready)) = Len(ready)
  BY <1>1, FS_Interval
<1> QED
  BY <1>1, <1>4, <1>5, <1>6, <1>7

LEMMA EnqueueFits ==
  ASSUME ExecutorInv, NEW key \in Key, QueuedFor(key[1]) = {}, Enqueue(key)
  PROVE  /\ holder = Nobody /\ ready' # <<>>
         /\ stop' = stop /\ fault' = fault
         /\ \A s \in Slot \ {key[1]} : QueuedFor(s)' = QueuedFor(s)
         /\ \E i \in 1..Len(ready') : ready'[i] = key
         /\ \A i, j \in 1..Len(ready') : ready'[i][1] = key[1] /\ ready'[j][1] = key[1] => i = j
         /\ \A other : Queued(other) => Queued(other)'
<1>1. key[1] \in Slot
  BY DEF Key
<1>2. ready' = Append(ready, key) /\ stop' = stop /\ fault' = fault /\ holder = Nobody
  BY <1>1, QueueHasRoom DEF Enqueue
<1>3. ready \in Seq(Key) /\ Len(ready) \in Nat
  BY LenProperties DEF ExecutorInv, ExecutorTypeOK
<1>4. /\ Len(ready') = Len(ready) + 1 /\ ready' # <<>>
      /\ \A i \in 1..Len(ready) : ready'[i] = ready[i]
      /\ ready'[Len(ready) + 1] = key
  BY <1>2, <1>3, AppendProperties
<1>5. \A i \in 1..Len(ready') : i \in 1..Len(ready) \/ i = Len(ready) + 1
  BY <1>3, <1>4
<1>6. \A i \in 1..Len(ready) : ready[i][1] # key[1] /\ i \in 1..Len(ready')
  BY <1>3, <1>4 DEF QueuedFor
<1>7. \A s \in Slot \ {key[1]} : QueuedFor(s)' = QueuedFor(s)
  BY <1>4, <1>5, <1>6 DEF QueuedFor
<1>8. \A i, j \in 1..Len(ready') : ready'[i][1] = key[1] /\ ready'[j][1] = key[1] => i = j
  BY <1>4, <1>5, <1>6
<1>9. Len(ready) + 1 \in 1..Len(ready')
  BY <1>3, <1>4
<1>10. \A other : Queued(other) => Queued(other)'
  BY <1>4, <1>6 DEF Queued
<1> QED
  BY <1>2, <1>4, <1>7, <1>8, <1>9, <1>10

(* What a step that puts a carried key into the queue does to the slots.   *)
QueueStep(key) ==
  /\ Enqueue(key)
  /\ UNCHANGED <<generation, state, free, settled, owed, stale, stopper>>
  /\ \A s \in Slot :
       /\ Recycling(s)' = Recycling(s) /\ Polls(s)' = Polls(s)
       /\ Arming(s)' <=> Arming(s)
       /\ WorkersFor(s)' \subseteq WorkersFor(s) /\ WakersFor(s)' \subseteq WakersFor(s)
       /\ SpawnerFor(s)' => SpawnerFor(s)
  /\ \A other : OnItsWay(other) => other = key \/ OnItsWay(other)'

LEMMA QueueStepKeeps ==
  ASSUME ExecutorInv, NEW key \in Key, QueueStep(key), KeysInv',
         QueuedFor(key[1]) = {}, Carried(key[1]),
         WorkersFor(key[1])' = {}, WakersFor(key[1])' = {}, ~SpawnerFor(key[1])'
  PROVE  Core'
<1> USE DEF ExecutorInv
<1>1. key[1] \in Slot
  BY DEF Key
<1>2. /\ \A s \in Slot \ {key[1]} : QueuedFor(s)' = QueuedFor(s)
      /\ Queued(key)'
      /\ \A i, j \in QueuedFor(key[1])' : i = j
      /\ \A other : Queued(other) => Queued(other)'
  BY EnqueueFits DEF QueueStep, QueuedFor, Queued
<1>3. /\ generation' = generation /\ state' = state /\ free' = free /\ settled' = settled
      /\ owed' = owed /\ stale' = stale /\ stopper' = stopper
      /\ \A s \in Slot : /\ Recycling(s)' = Recycling(s) /\ Polls(s)' = Polls(s)
                         /\ Arming(s)' <=> Arming(s)
                         /\ WorkersFor(s)' \subseteq WorkersFor(s)
                         /\ WakersFor(s)' \subseteq WakersFor(s)
                         /\ SpawnerFor(s)' => SpawnerFor(s)
      /\ \A other : OnItsWay(other) => other = key \/ OnItsWay(other)'
  BY DEF QueueStep
<1>4. SlotStateInv' /\ SlotsInv' /\ RunningInv' /\ SettledInv'
  BY <1>3 DEF SlotStateInv, SlotsInv, RunningInv, SettledInv
<1>5. CarriedInv'
  <2> SUFFICES ASSUME NEW s \in Slot
               PROVE  /\ CarriedOnce(s)'
                      /\ Carried(s)' => "SCHEDULED" \in state[s] \/ stopper = "joined"
    BY <1>3 DEF CarriedInv
  <2>1. CASE s = key[1]
    BY <1>2, <1>3, <2>1 DEF CarriedInv, CarriedOnce, Carried
  <2>2. CASE s # key[1]
    BY <1>2, <1>3, <2>2 DEF CarriedInv, CarriedOnce, Carried
  <2> QED
    BY <2>1, <2>2
<1>6. WakeInv'
  BY <1>2, <1>3 DEF WakeInv
<1> QED
  BY <1>4, <1>5, <1>6 DEF Core

LEMMA SpawnEnqueueKeeps == ASSUME ExecutorInv, SpawnEnqueue PROVE Core'
<1> USE DEF ExecutorInv
<1>1. spawner.at = "enqueueing" /\ spawner.key \in Key /\ Enqueue(spawner.key)
  BY DEF SpawnEnqueue, KeysInv
<1>2. PICK key \in Key : key = spawner.key
  BY <1>1
<1>3. spawner'.at = "telling" /\ spawner'.key = key
  BY <1>1, <1>2 DEF SpawnEnqueue, ExecutorTypeOK, SpawnerState
<1>4. /\ UNCHANGED <<generation, state, free, settled, owed, stale, stopper>>
      /\ worker' = worker /\ waker' = waker
  BY DEF SpawnEnqueue
<1>5. \A other : OnItsWay(other) => other = key \/ OnItsWay(other)'
  BY <1>2, <1>4 DEF OnItsWay, Doing
<1>6. QueueStep(key)
  BY <1>1, <1>2, <1>3, <1>4, <1>5
     DEF QueueStep, Recycling, Polls, Arming, WorkersFor, WakersFor, SpawnerFor
<1>7. /\ SpawnerFor(key[1]) /\ key[1] \in Slot
      /\ WorkersFor(key[1])' = WorkersFor(key[1]) /\ WakersFor(key[1])' = WakersFor(key[1])
      /\ ~SpawnerFor(key[1])'
  BY <1>1, <1>2, <1>3, <1>4 DEF SpawnerFor, Key, WorkersFor, WakersFor
<1>8. Carried(key[1]) /\ QueuedFor(key[1]) = {} /\ WorkersFor(key[1]) = {} /\ WakersFor(key[1]) = {}
  BY <1>7 DEF CarriedInv, CarriedOnce, Carried
<1>9. KeysInv'
  BY <1>2, <1>3, <1>4 DEF KeysInv, Current
<1> QED
  BY <1>6, <1>7, <1>8, <1>9, QueueStepKeeps

LEMMA WakeEnqueueKeeps == ASSUME ExecutorInv, NEW k \in Waker, WakeEnqueue(k) PROVE Core'
<1> USE DEF ExecutorInv
<1>1. waker[k].at = "enqueueing" /\ waker[k].key \in Key /\ Enqueue(waker[k].key)
  BY DEF WakeEnqueue, KeysInv
<1>2. PICK key \in Key : key = waker[k].key
  BY <1>1
<1>3. /\ waker'[k].at = "telling" /\ waker'[k].key = key
      /\ \A l \in Waker \ {k} : waker'[l] = waker[l]
  BY <1>1, <1>2 DEF WakeEnqueue, ExecutorTypeOK, WakerState
<1>4. /\ UNCHANGED <<generation, state, free, settled, owed, stale, stopper>>
      /\ worker' = worker /\ spawner' = spawner
  BY DEF WakeEnqueue
<1>5. \A other : OnItsWay(other) => other = key \/ OnItsWay(other)'
  BY <1>2, <1>3, <1>4 DEF OnItsWay, Doing
<1>6. QueueStep(key)
  BY <1>1, <1>2, <1>3, <1>4, <1>5
     DEF QueueStep, Recycling, Polls, Arming, WorkersFor, WakersFor, SpawnerFor
<1>7. /\ k \in WakersFor(key[1]) /\ key[1] \in Slot
      /\ WorkersFor(key[1])' = WorkersFor(key[1])
      /\ WakersFor(key[1])' \subseteq WakersFor(key[1]) \ {k}
      /\ SpawnerFor(key[1])' = SpawnerFor(key[1])
  BY <1>1, <1>2, <1>3, <1>4 DEF SpawnerFor, Key, WorkersFor, WakersFor
<1>8. /\ Carried(key[1]) /\ QueuedFor(key[1]) = {} /\ WorkersFor(key[1]) = {}
      /\ ~SpawnerFor(key[1]) /\ \A l \in WakersFor(key[1]) : l = k
  BY <1>7 DEF CarriedInv, CarriedOnce, Carried
<1>9. KeysInv'
  BY <1>2, <1>3, <1>4 DEF KeysInv, Current
<1> QED
  BY <1>6, <1>7, <1>8, <1>9, QueueStepKeeps

LEMMA RequeueKeeps == ASSUME ExecutorInv, NEW w \in Worker, Requeue(w) PROVE Core'
<1> USE DEF ExecutorInv
<1>1. worker[w].at = "requeueing" /\ worker[w].key \in Key /\ Enqueue(worker[w].key)
  BY DEF Requeue, KeysInv
<1>2. PICK key \in Key : key = worker[w].key
  BY <1>1
<1>3. /\ worker'[w].at = "telling" /\ worker'[w].key = key
      /\ \A x \in Worker \ {w} : worker'[x] = worker[x]
  BY <1>1, <1>2, Goes, Places DEF Requeue
<1>4. /\ UNCHANGED <<generation, state, free, settled, owed, stale, stopper>>
      /\ waker' = waker /\ spawner' = spawner
  BY DEF Requeue
<1>5. \A other : OnItsWay(other) => other = key \/ OnItsWay(other)'
  BY <1>2, <1>3, <1>4 DEF OnItsWay, Doing
<1>6. QueueStep(key)
  BY <1>1, <1>2, <1>3, <1>4, <1>5
     DEF QueueStep, Recycling, Polls, Arming, WorkersFor, WakersFor, SpawnerFor
<1>7. /\ w \in WorkersFor(key[1]) /\ key[1] \in Slot
      /\ WakersFor(key[1])' = WakersFor(key[1])
      /\ WorkersFor(key[1])' \subseteq WorkersFor(key[1]) \ {w}
      /\ SpawnerFor(key[1])' = SpawnerFor(key[1])
  BY <1>1, <1>2, <1>3, <1>4 DEF SpawnerFor, Key, WorkersFor, WakersFor
<1>8. /\ Carried(key[1]) /\ QueuedFor(key[1]) = {} /\ WakersFor(key[1]) = {}
      /\ ~SpawnerFor(key[1]) /\ \A x \in WorkersFor(key[1]) : x = w
  BY <1>7 DEF CarriedInv, CarriedOnce, Carried
<1>9. KeysInv'
  BY <1>2, <1>3, <1>4 DEF KeysInv, Current
<1> QED
  BY <1>6, <1>7, <1>8, <1>9, QueueStepKeeps

-----------------------------------------------------------------------------
(* A worker takes the first key of the queue.                              *)
LEMMA TakeKeeps ==
  ASSUME ExecutorInv, NEW w \in Worker, Look(w) \/ Pop(w), worker'[w].at = "beginning"
  PROVE  Core'
<1> USE DEF ExecutorInv
<1>1. /\ ready # <<>> /\ ready' = Tail(ready)
      /\ worker' = [worker EXCEPT ![w] = Doing("beginning", Head(ready))]
      /\ worker[w].at \in {"looking", "popping"}
      /\ UNCHANGED <<generation, state, free, settled, owed, stale, stopper, spawner, waker>>
  <2>1. ~Go(w, "exited") /\ ~Go(w, "checked") /\ ~Go(w, "leaving")
    BY Goes, Places
  <2> QED
    BY <2>1 DEF Look, Pop
<1>2. PICK key \in Key : key = Head(ready)
  BY <1>1, TakeTyped
<1>3. /\ worker'[w] = Doing("beginning", key) /\ worker'[w].at = "beginning"
      /\ worker'[w].key = key /\ \A x \in Worker \ {w} : worker'[x] = worker[x]
  BY <1>1, <1>2 DEF ExecutorTypeOK, Doing
<1>4. /\ Len(ready) \in Nat \ {0} /\ Len(ready') = Len(ready) - 1 /\ ready[1] = key
      /\ \A i \in 1..Len(ready') : ready'[i] = ready[i + 1]
  <2>1. ready \in Seq(Key)
    BY DEF ExecutorTypeOK
  <2> QED
    BY <1>1, <1>2, <2>1, EmptySeq, HeadTailProperties
<1>5. key[1] \in Slot
  BY DEF Key
<1>6. /\ \A i \in 1..Len(ready') : i + 1 \in 1..Len(ready) /\ i + 1 # 1
      /\ \A i \in 1..Len(ready) : i = 1 \/ (i - 1 \in 1..Len(ready') /\ ready'[i - 1] = ready[i])
  BY <1>4
<1>7. ASSUME NEW s \in Slot
      PROVE  /\ Recycling(s)' = Recycling(s) /\ Polls(s)' = Polls(s)
             /\ WakersFor(s)' = WakersFor(s) /\ (SpawnerFor(s)' <=> SpawnerFor(s))
             /\ (Arming(s)' <=> Arming(s))
             /\ WorkersFor(s)' = IF s = key[1] THEN WorkersFor(s) \cup {w} ELSE WorkersFor(s)
  <2>1. Recycling(s)' = Recycling(s) /\ Polls(s)' = Polls(s)
    BY <1>1, <1>3 DEF Recycling, Polls
  <2>2. /\ WakersFor(s)' = WakersFor(s) /\ (SpawnerFor(s)' <=> SpawnerFor(s))
        /\ (Arming(s)' <=> Arming(s))
    BY <1>1 DEF WakersFor, SpawnerFor, Arming
  <2>3. WorkersFor(s)' = IF s = key[1] THEN WorkersFor(s) \cup {w} ELSE WorkersFor(s)
    BY <1>1, <1>3 DEF WorkersFor
  <2> QED
    BY <2>1, <2>2, <2>3
<1>8. /\ QueuedFor(key[1])' = {} /\ 1 \in QueuedFor(key[1])
      /\ \A s \in Slot : \A i \in QueuedFor(s)' : i + 1 \in QueuedFor(s)
  <2>1. \A s \in Slot : \A i \in QueuedFor(s)' : i \in Nat /\ i + 1 \in QueuedFor(s) /\ i + 1 # 1
    BY <1>4, <1>6 DEF QueuedFor
  <2>2. 1 \in QueuedFor(key[1])
    BY <1>4 DEF QueuedFor
  <2>3. \A i \in QueuedFor(key[1]) : i = 1
    BY <1>5, <2>2 DEF CarriedInv, CarriedOnce
  <2> QED
    BY <1>5, <2>1, <2>2, <2>3
<1>9. SlotStateInv' /\ SlotsInv' /\ RunningInv' /\ SettledInv'
  BY <1>1, <1>7 DEF SlotStateInv, SlotsInv, RunningInv, SettledInv
<1>10. KeysInv'
  BY <1>1, <1>3 DEF KeysInv, Current
<1>11. CarriedInv'
  <2> SUFFICES ASSUME NEW s \in Slot
               PROVE  /\ CarriedOnce(s)'
                      /\ Carried(s)' => "SCHEDULED" \in state[s] \/ stopper = "joined"
    BY <1>1 DEF CarriedInv
  <2>0. CarriedOnce(s) /\ (Carried(s) => "SCHEDULED" \in state[s] \/ stopper = "joined")
    BY DEF CarriedInv
  <2>1. CASE s = key[1]
    BY <1>7, <1>8, <2>0, <2>1 DEF CarriedOnce, Carried
  <2>2. CASE s # key[1]
    <3>1. \A i, j \in QueuedFor(s)' : i = j
      <4>1. ASSUME NEW i \in QueuedFor(s)', NEW j \in QueuedFor(s)' PROVE i = j
        <5>1. i + 1 = j + 1
          BY <1>8, <2>0 DEF CarriedOnce
        <5>2. i \in Nat /\ j \in Nat
          BY <1>4 DEF QueuedFor
        <5> QED
          BY <5>1, <5>2
      <4> QED
        BY <4>1
    <3>2. QueuedFor(s)' # {} => QueuedFor(s) # {}
      BY <1>8
    <3> QED
      BY <1>7, <2>0, <2>2, <3>1, <3>2 DEF CarriedOnce, Carried
  <2> QED
    BY <2>1, <2>2
<1>12. WakeInv'
  <2>1. ASSUME NEW other, Queued(other) PROVE Queued(other)' \/ OnItsWay(other)'
    <3>1. PICK i \in 1..Len(ready) : ready[i] = other
      BY <2>1 DEF Queued
    <3>2. CASE i = 1
      BY <1>3, <1>4, <3>1, <3>2 DEF OnItsWay
    <3>3. CASE i # 1
      BY <1>6, <3>1, <3>3 DEF Queued
    <3> QED
      BY <3>2, <3>3
  <2>2. \A other : OnItsWay(other) => OnItsWay(other)'
    BY <1>1, <1>3 DEF OnItsWay, Doing
  <2> QED
    BY <1>1, <2>1, <2>2 DEF WakeInv
<1> QED
  BY <1>9, <1>10, <1>11, <1>12 DEF Core

(* begin_poll throws an old key away, and goes on with that of the task.   *)
LEMMA BeginKeeps == ASSUME ExecutorInv, NEW w \in Worker, Begin(w) PROVE Core'
<1> USE DEF ExecutorInv
<1>1. PICK key \in Key : key = worker[w].key
  BY DEF Begin, KeysInv
<1>2. /\ worker[w].at = "beginning" /\ worker'[w].key = key
      /\ worker'[w].at = IF Current(key) THEN "claiming" ELSE "draining"
      /\ \A x \in Worker \ {w} : worker'[x] = worker[x]
  BY <1>1, Goes, Places DEF Begin
<1>3. /\ UNCHANGED <<generation, state, free, ready, settled, owed, stale, stopper, spawner, waker>>
      /\ worker' \in [Worker -> WorkerState]
  BY WorkerTyped DEF Begin, ExecutorTypeOK, WorkerStep
<1>4. ASSUME NEW s \in Slot
      PROVE  /\ Recycling(s)' = Recycling(s) /\ Polls(s)' = Polls(s)
             /\ WakersFor(s)' = WakersFor(s) /\ (SpawnerFor(s)' <=> SpawnerFor(s))
             /\ (Arming(s)' <=> Arming(s)) /\ QueuedFor(s)' = QueuedFor(s)
             /\ WorkersFor(s)' \subseteq WorkersFor(s)
  BY <1>1, <1>2, <1>3
     DEF Recycling, Polls, WakersFor, SpawnerFor, Arming, QueuedFor, WorkersFor
<1>5. SlotStateInv' /\ SlotsInv' /\ RunningInv' /\ SettledInv'
  BY <1>3, <1>4 DEF SlotStateInv, SlotsInv, RunningInv, SettledInv
<1>6. KeysInv'
  BY <1>1, <1>2, <1>3 DEF KeysInv, Current
<1>7. CarriedInv'
  BY <1>3, <1>4 DEF CarriedInv, Carried, CarriedOnce
<1>8. WakeInv'
  <2>1. ASSUME NEW s \in Slot, OnItsWay(<<s, generation[s]>>) PROVE OnItsWay(<<s, generation[s]>>)'
    <3>1. CASE worker[w] = Doing("beginning", <<s, generation[s]>>)
      <4>1. Current(key) /\ key = <<s, generation[s]>>
        BY <1>1, <3>1 DEF Doing, Current
      <4>2. worker'[w] = Doing("claiming", <<s, generation[s]>>)
        BY <1>2, <1>3, <4>1 DEF Doing, WorkerState
      <4> QED
        BY <1>3, <4>2 DEF OnItsWay
    <3>2. CASE worker[w] # Doing("beginning", <<s, generation[s]>>)
      BY <1>2, <1>3, <2>1, <3>2 DEF OnItsWay, Doing
    <3> QED
      BY <3>1, <3>2
  <2> QED
    BY <1>3, <2>1 DEF WakeInv, Queued
<1> QED
  BY <1>5, <1>6, <1>7, <1>8 DEF Core

(* A key that is carried is good for exactly one poll.                     *)
LEMMA ClaimKeeps == ASSUME ExecutorInv, NEW w \in Worker, Claim(w) PROVE Core'
<1> USE DEF ExecutorInv
<1>1. PICK key \in Key : key = worker[w].key
  BY DEF Claim, KeysInv
<1>2. PICK s0 \in Slot : s0 = key[1]
  BY DEF Key
<1>3. worker[w].at = "claiming" /\ Current(key) /\ w \in WorkersFor(s0)
  BY <1>1, <1>2 DEF Claim, KeysInv, WorkersFor
<1>4. state[s0] = {"ACTIVE", "SCHEDULED"}
  <2>1. stopper # "joined"
    BY <1>3 DEF LifeInv
  <2>2. "SCHEDULED" \in state[s0]
    BY <1>3, <2>1 DEF CarriedInv, Carried
  <2> QED
    BY <2>2 DEF SlotStateInv
<1>5. /\ state' = [state EXCEPT ![s0] = {"ACTIVE", "RUNNING"}] /\ owed' = owed \ {s0}
      /\ Go(w, "polling")
      /\ UNCHANGED <<generation, free, ready, settled, stale, stopper, spawner, waker>>
  BY <1>1, <1>2, <1>4 DEF Claim
<1>6. /\ worker'[w].at = "polling" /\ worker'[w].key = key
      /\ \A x \in Worker \ {w} : worker'[x] = worker[x]
  BY <1>1, <1>5, Goes, Places
<1>7. state'[s0] = {"ACTIVE", "RUNNING"} /\ \A s \in Slot \ {s0} : state'[s] = state[s]
  BY <1>5 DEF ExecutorTypeOK
<1>8. ASSUME NEW s \in Slot
      PROVE  /\ Recycling(s)' = Recycling(s) /\ QueuedFor(s)' = QueuedFor(s)
             /\ Polls(s)' = IF s = s0 THEN Polls(s) \cup {w} ELSE Polls(s)
             /\ WorkersFor(s)' = WorkersFor(s) \ {w}
             /\ WakersFor(s)' = WakersFor(s) /\ (SpawnerFor(s)' <=> SpawnerFor(s))
             /\ (Arming(s)' <=> Arming(s)) /\ (s # s0 => w \notin WorkersFor(s))
  <2>1. Recycling(s)' = Recycling(s)
    BY <1>3, <1>6 DEF Recycling
  <2>2. Polls(s)' = IF s = s0 THEN Polls(s) \cup {w} ELSE Polls(s)
    BY <1>1, <1>2, <1>3, <1>6 DEF Polls
  <2>3. WorkersFor(s)' = WorkersFor(s) \ {w} /\ (s # s0 => w \notin WorkersFor(s))
    BY <1>1, <1>2, <1>3, <1>6 DEF WorkersFor
  <2>4. /\ WakersFor(s)' = WakersFor(s) /\ (SpawnerFor(s)' <=> SpawnerFor(s))
        /\ (Arming(s)' <=> Arming(s)) /\ QueuedFor(s)' = QueuedFor(s)
    BY <1>5 DEF WakersFor, SpawnerFor, Arming, QueuedFor
  <2> QED
    BY <2>1, <2>2, <2>3, <2>4
<1>9. Polls(s0) = {}
  BY <1>4 DEF RunningInv
<1>10. ~Carried(s0)'
  <2>1. \A x \in WorkersFor(s0) : x = w
    BY <1>3 DEF CarriedInv, CarriedOnce
  <2> QED
    BY <1>3, <1>8, <2>1 DEF CarriedInv, CarriedOnce, Carried
<1>11. SlotStateInv' /\ RunningInv'
  BY <1>7, <1>8, <1>9 DEF SlotStateInv, RunningInv
<1>12. SlotsInv'
  BY <1>4, <1>5, <1>7, <1>8 DEF SlotsInv
<1>13. KeysInv'
  BY <1>1, <1>3, <1>5, <1>6 DEF KeysInv, Current
<1>14. CarriedInv'
  BY <1>5, <1>7, <1>8, <1>10 DEF CarriedInv, Carried, CarriedOnce
<1>15. WakeInv'
  <2>1. ASSUME NEW s \in Slot \ {s0}, OnItsWay(<<s, generation[s]>>)
        PROVE  OnItsWay(<<s, generation[s]>>)'
    <3>1. \A place : worker[w] # Doing(place, <<s, generation[s]>>)
      BY <1>1, <1>2 DEF Doing
    <3> QED
      BY <1>5, <1>6, <2>1, <3>1 DEF OnItsWay
  <2> QED
    BY <1>5, <1>7, <2>1 DEF WakeInv, Queued
<1>16. SettledInv'
  BY <1>5, <1>7, <1>8 DEF SettledInv
<1> QED
  BY <1>11, <1>12, <1>13, <1>14, <1>15, <1>16 DEF Core

-----------------------------------------------------------------------------
(* The poll and what follows it.                                           *)

(* What the worker that polls slot s0 leaves alone.                        *)
LEMMA PollerAlone ==
  ASSUME ExecutorInv, NEW w \in Worker, worker[w].at \in {"polling", "parking", "finishing"}
  PROVE  \E s0 \in Slot, key \in Key :
           /\ key = worker[w].key /\ s0 = key[1] /\ Current(key)
           /\ Polls(s0) = {w} /\ \A s \in Slot \ {s0} : w \notin Polls(s)
           /\ state[s0] \in {{"ACTIVE", "RUNNING"}, {"ACTIVE", "RUNNING", "NOTIFIED"}}
           /\ ~Carried(s0) /\ ~Arming(s0) /\ Recycling(s0) = {} /\ s0 \notin Range(free)
           /\ stopper # "joined"
<1> USE DEF ExecutorInv
<1>1. PICK key \in Key : key = worker[w].key
  BY DEF KeysInv
<1>2. PICK s0 \in Slot : s0 = key[1]
  BY DEF Key
<1>3. Current(key)
  BY <1>1 DEF KeysInv
<1>4. Polls(s0) = {w} /\ \A s \in Slot \ {s0} : w \notin Polls(s)
  BY <1>1, <1>2 DEF RunningInv, Polls
<1>5. "RUNNING" \in state[s0]
  BY <1>4 DEF RunningInv
<1>6. state[s0] \in {{"ACTIVE", "RUNNING"}, {"ACTIVE", "RUNNING", "NOTIFIED"}}
  BY <1>5 DEF SlotStateInv
<1>7. stopper # "joined"
  BY <1>5 DEF LifeInv
<1>8. ~Carried(s0)
  BY <1>6, <1>7 DEF CarriedInv
<1>9. ~Arming(s0) /\ Recycling(s0) = {} /\ s0 \notin Range(free)
  BY <1>5 DEF SlotsInv
<1> QED
  BY <1>1, <1>2, <1>3, <1>4, <1>6, <1>7, <1>8, <1>9

LEMMA PollReturnsKeeps == ASSUME ExecutorInv, NEW w \in Worker, PollReturns(w) PROVE Core'
<1> USE DEF ExecutorInv
<1>1. PICK place \in {"parking", "finishing"} : Go(w, place)
  BY DEF PollReturns
<1>2. /\ worker[w].at = "polling" /\ worker'[w].at = place /\ worker'[w].key = worker[w].key
      /\ \A x \in Worker \ {w} : worker'[x] = worker[x]
  BY <1>1, Goes, Places DEF PollReturns
<1>3. UNCHANGED <<generation, state, free, ready, settled, owed, stale, stopper, spawner, waker>>
  BY DEF PollReturns
<1>4. ASSUME NEW s \in Slot
      PROVE  /\ Recycling(s)' = Recycling(s) /\ Polls(s)' = Polls(s)
             /\ WakersFor(s)' = WakersFor(s) /\ (SpawnerFor(s)' <=> SpawnerFor(s))
             /\ (Arming(s)' <=> Arming(s)) /\ QueuedFor(s)' = QueuedFor(s)
             /\ WorkersFor(s)' = WorkersFor(s)
  <2>1. Recycling(s)' = Recycling(s) /\ Polls(s)' = Polls(s) /\ WorkersFor(s)' = WorkersFor(s)
    BY <1>2 DEF Recycling, Polls, WorkersFor
  <2> QED
    BY <1>3, <2>1 DEF WakersFor, SpawnerFor, Arming, QueuedFor
<1>5. SlotStateInv' /\ SlotsInv' /\ RunningInv' /\ CarriedInv' /\ SettledInv'
  BY <1>3, <1>4 DEF SlotStateInv, SlotsInv, RunningInv, SettledInv, CarriedInv, Carried,
                    CarriedOnce
<1>6. KeysInv'
  BY <1>2, <1>3 DEF KeysInv, Current
<1>7. WakeInv'
  <2>1. \A other : OnItsWay(other) => OnItsWay(other)'
    BY <1>2, <1>3 DEF OnItsWay, Doing
  <2> QED
    BY <1>3, <2>1 DEF WakeInv, Queued
<1> QED
  BY <1>5, <1>6, <1>7 DEF Core

LEMMA ParkKeeps == ASSUME ExecutorInv, NEW w \in Worker, Park(w) PROVE Core'
<1> USE DEF ExecutorInv
<1>1. worker[w].at = "parking"
  BY DEF Park
<1>2. PICK s0 \in Slot, key \in Key :
        /\ key = worker[w].key /\ s0 = key[1] /\ Current(key)
        /\ Polls(s0) = {w} /\ \A s \in Slot \ {s0} : w \notin Polls(s)
        /\ state[s0] \in {{"ACTIVE", "RUNNING"}, {"ACTIVE", "RUNNING", "NOTIFIED"}}
        /\ ~Carried(s0) /\ ~Arming(s0) /\ Recycling(s0) = {} /\ s0 \notin Range(free)
  BY <1>1, PollerAlone
<1>3. PICK place \in {"requeueing", "draining"} :
        /\ Go(w, place)
        /\ state' = [state EXCEPT ![s0] = IF place = "requeueing" THEN {"ACTIVE", "SCHEDULED"}
                                          ELSE {"ACTIVE"}]
        /\ place = "requeueing" <=> "NOTIFIED" \in state[s0]
  BY <1>2 DEF Park
<1>4. /\ worker'[w].at = place /\ worker'[w].key = key
      /\ \A x \in Worker \ {w} : worker'[x] = worker[x]
      /\ worker' \in [Worker -> WorkerState]
  BY <1>2, <1>3, Goes, Places
<1>5. UNCHANGED <<generation, free, ready, settled, owed, stale, stopper, spawner, waker>>
  BY DEF Park
<1>6. /\ state'[s0] = IF place = "requeueing" THEN {"ACTIVE", "SCHEDULED"} ELSE {"ACTIVE"}
      /\ \A s \in Slot \ {s0} : state'[s] = state[s]
  BY <1>3 DEF ExecutorTypeOK
<1>7. ASSUME NEW s \in Slot
      PROVE  /\ Recycling(s)' = Recycling(s) /\ Polls(s)' = Polls(s) \ {w}
             /\ WakersFor(s)' = WakersFor(s) /\ (SpawnerFor(s)' <=> SpawnerFor(s))
             /\ (Arming(s)' <=> Arming(s)) /\ QueuedFor(s)' = QueuedFor(s)
             /\ WorkersFor(s)' = IF s = s0 /\ place = "requeueing" THEN WorkersFor(s) \cup {w}
                                 ELSE WorkersFor(s)
  <2>1. Recycling(s)' = Recycling(s) /\ Polls(s)' = Polls(s) \ {w}
    BY <1>1, <1>4 DEF Recycling, Polls
  <2>2. WorkersFor(s)' = IF s = s0 /\ place = "requeueing" THEN WorkersFor(s) \cup {w}
                         ELSE WorkersFor(s)
    BY <1>1, <1>2, <1>4 DEF WorkersFor
  <2> QED
    BY <1>5, <2>1, <2>2 DEF WakersFor, SpawnerFor, Arming, QueuedFor
<1>8. SlotStateInv' /\ RunningInv'
  BY <1>2, <1>6, <1>7 DEF SlotStateInv, RunningInv
<1>9. SlotsInv'
  BY <1>2, <1>5, <1>6, <1>7 DEF SlotsInv
<1>10. KeysInv'
  BY <1>2, <1>4, <1>5 DEF KeysInv, Current
<1>11. CarriedInv'
  BY <1>2, <1>5, <1>6, <1>7 DEF CarriedInv, Carried, CarriedOnce
<1>12. WakeInv'
  <2>1. \A other : OnItsWay(other) => OnItsWay(other)'
    BY <1>1, <1>4, <1>5 DEF OnItsWay, Doing
  <2>2. place = "requeueing" => OnItsWay(<<s0, generation[s0]>>)'
    <3>1. key = <<s0, generation[s0]>>
      BY <1>2 DEF Key, Current
    <3>2. worker'[w] = Doing(place, key)
      BY <1>4 DEF Doing, WorkerState
    <3> QED
      BY <1>5, <3>1, <3>2 DEF OnItsWay
  <2>3. s0 \in owed => place = "requeueing"
    BY <1>2, <1>3 DEF WakeInv
  <2>4. /\ generation' = generation /\ owed' = owed /\ stale' = stale
        /\ \A other : Queued(other)' <=> Queued(other)
    BY <1>5 DEF Queued
  <2>5. ASSUME NEW s \in Slot, "SCHEDULED" \in state'[s], s \notin stale
        PROVE  Queued(<<s, generation[s]>>)' \/ OnItsWay(<<s, generation[s]>>)'
    <3>1. CASE s = s0
      BY <1>6, <2>2, <2>5, <3>1
    <3>2. CASE s # s0
      BY <1>6, <2>1, <2>4, <2>5, <3>2 DEF WakeInv
    <3> QED
      BY <3>1, <3>2
  <2>6. ASSUME NEW s \in Slot, s \in owed
        PROVE  "SCHEDULED" \in state'[s] \/ "NOTIFIED" \in state'[s]
    BY <1>6, <2>3, <2>6 DEF WakeInv
  <2> QED
    BY <2>4, <2>5, <2>6 DEF WakeInv
<1>13. SettledInv'
  BY <1>5, <1>6, <1>7 DEF SettledInv
<1> QED
  BY <1>8, <1>9, <1>10, <1>11, <1>12, <1>13 DEF Core

LEMMA FinishKeeps == ASSUME ExecutorInv, NEW w \in Worker, Finish(w) PROVE Core'
<1> USE DEF ExecutorInv
<1>1. worker[w].at = "finishing"
  BY DEF Finish
<1>2. PICK s0 \in Slot, key \in Key :
        /\ key = worker[w].key /\ s0 = key[1] /\ Current(key)
        /\ Polls(s0) = {w} /\ \A s \in Slot \ {s0} : w \notin Polls(s)
        /\ state[s0] \in {{"ACTIVE", "RUNNING"}, {"ACTIVE", "RUNNING", "NOTIFIED"}}
        /\ ~Carried(s0) /\ ~Arming(s0) /\ Recycling(s0) = {} /\ s0 \notin Range(free)
  BY <1>1, PollerAlone
<1>3. /\ Go(w, "recycling") /\ state' = [state EXCEPT ![s0] = {}]
      /\ settled' = settled \cup {<<s0, generation[s0]>>} /\ owed' = owed \ {s0}
      /\ UNCHANGED <<generation, free, ready, stale, stopper, spawner, waker>>
  BY <1>2 DEF Finish
<1>4. /\ worker'[w].at = "recycling" /\ worker'[w].key = key
      /\ \A x \in Worker \ {w} : worker'[x] = worker[x]
  BY <1>2, <1>3, Goes, Places
<1>5. state'[s0] = {} /\ \A s \in Slot \ {s0} : state'[s] = state[s]
  BY <1>3 DEF ExecutorTypeOK
<1>6. ASSUME NEW s \in Slot
      PROVE  /\ Recycling(s)' = IF s = s0 THEN Recycling(s) \cup {w} ELSE Recycling(s)
             /\ Polls(s)' = Polls(s) \ {w} /\ WorkersFor(s)' = WorkersFor(s)
             /\ WakersFor(s)' = WakersFor(s) /\ (SpawnerFor(s)' <=> SpawnerFor(s))
             /\ (Arming(s)' <=> Arming(s)) /\ QueuedFor(s)' = QueuedFor(s)
  <2>1. Recycling(s)' = IF s = s0 THEN Recycling(s) \cup {w} ELSE Recycling(s)
    BY <1>1, <1>2, <1>4 DEF Recycling
  <2>2. Polls(s)' = Polls(s) \ {w} /\ WorkersFor(s)' = WorkersFor(s)
    BY <1>1, <1>4 DEF Polls, WorkersFor
  <2> QED
    BY <1>3, <2>1, <2>2 DEF WakersFor, SpawnerFor, Arming, QueuedFor
<1>7. SlotStateInv' /\ RunningInv'
  BY <1>2, <1>5, <1>6 DEF SlotStateInv, RunningInv
<1>8. SlotsInv'
  BY <1>2, <1>3, <1>5, <1>6 DEF SlotsInv
<1>9. KeysInv'
  BY <1>2, <1>3, <1>4 DEF KeysInv, Current
<1>10. CarriedInv'
  BY <1>2, <1>3, <1>5, <1>6 DEF CarriedInv, Carried, CarriedOnce
<1>11. WakeInv'
  <2>1. \A other : OnItsWay(other) => OnItsWay(other)'
    BY <1>1, <1>3, <1>4 DEF OnItsWay, Doing
  <2> QED
    BY <1>3, <1>5, <2>1 DEF WakeInv, Queued
<1>12. SettledInv'
  BY <1>3, <1>5, <1>6 DEF SettledInv
<1> QED
  BY <1>7, <1>8, <1>9, <1>10, <1>11, <1>12 DEF Core

LEMMA RecycleKeeps == ASSUME ExecutorInv, NEW w \in Worker, Recycle(w) PROVE Core'
<1> USE DEF ExecutorInv
<1>1. PICK s0 \in Slot : s0 = worker[w].key[1]
  BY DEF Recycle, KeysInv, Key
<1>2. w \in Recycling(s0) /\ worker[w].at = "recycling"
  BY <1>1 DEF Recycle, Recycling
<1>3. /\ state[s0] = {} /\ s0 \notin Range(free) /\ ~Arming(s0) /\ \A x \in Recycling(s0) : x = w
  BY <1>2 DEF SlotsInv
<1>4. /\ free' = Append(free, s0) /\ Go(w, "draining")
      /\ UNCHANGED <<generation, state, ready, settled, owed, stale, stopper, spawner, waker>>
  BY <1>1 DEF Recycle
<1>5. \A x \in Slot : x \in Range(free') <=> x \in Range(free) \/ x = s0
  BY <1>3, <1>4, FreePush
<1>6. /\ worker'[w].at = "draining" /\ \A x \in Worker \ {w} : worker'[x] = worker[x]
  BY <1>4, Goes, Places
<1>7. ASSUME NEW s \in Slot
      PROVE  /\ Recycling(s)' = Recycling(s) \ {w}
             /\ Polls(s)' = Polls(s) /\ WorkersFor(s)' = WorkersFor(s)
             /\ WakersFor(s)' = WakersFor(s) /\ (SpawnerFor(s)' <=> SpawnerFor(s))
             /\ (Arming(s)' <=> Arming(s)) /\ QueuedFor(s)' = QueuedFor(s)
  <2>1. Recycling(s)' = Recycling(s) \ {w} /\ Polls(s)' = Polls(s) /\ WorkersFor(s)' = WorkersFor(s)
    BY <1>2, <1>6 DEF Recycling, Polls, WorkersFor
  <2> QED
    BY <1>4, <2>1 DEF WakersFor, SpawnerFor, Arming, QueuedFor
<1>8. SlotStateInv' /\ RunningInv' /\ CarriedInv' /\ SettledInv'
  BY <1>4, <1>7 DEF SlotStateInv, RunningInv, SettledInv, CarriedInv, Carried, CarriedOnce
<1>9. SlotsInv'
  BY <1>3, <1>4, <1>5, <1>7 DEF SlotsInv
<1>10. KeysInv'
  BY <1>4, <1>6 DEF KeysInv, Current
<1>11. WakeInv'
  <2>1. \A other : OnItsWay(other) => OnItsWay(other)'
    BY <1>2, <1>4, <1>6 DEF OnItsWay, Doing
  <2> QED
    BY <1>4, <2>1 DEF WakeInv, Queued
<1> QED
  BY <1>8, <1>9, <1>10, <1>11 DEF Core

-----------------------------------------------------------------------------
(* A waker marks the slot of its key, be it that of the present task or of *)
(* an earlier one.                                                         *)
LEMMA MarkKeeps == ASSUME ExecutorInv, NEW k \in Waker, Mark(k) PROVE Core'
<1> USE DEF ExecutorInv
<1>1. PICK key \in Key : key = waker[k].key
  BY DEF Mark, KeysInv
<1>2. PICK s0 \in Slot : s0 = key[1]
  BY DEF Key
<1>3. /\ waker[k].at = "marking"
      /\ UNCHANGED <<generation, free, ready, spawner, stopper, worker, settled>>
  BY DEF Mark
<1>4. CASE /\ "ACTIVE" \notin state[s0] \/ "SCHEDULED" \in state[s0] \/ "NOTIFIED" \in state[s0]
           /\ waker' = [waker EXCEPT ![k] = Idle]
           /\ MarkRecord(key, FALSE)
           /\ UNCHANGED state
  <2>1. \A s \in owed' : s \in owed \/ "SCHEDULED" \in state[s] \/ "NOTIFIED" \in state[s]
    BY <1>2, <1>4 DEF MarkRecord
  <2>2. stale' = stale
    BY <1>4 DEF MarkRecord
  <2>3. WakersKept /\ \A l \in Waker : waker'[l].at # "idle" => waker'[l].key \in Key
    BY <1>3, <1>4 DEF WakersKept, KeysInv, ExecutorTypeOK, Idle
  <2>4. Quiet
    BY <1>3, <1>4, <2>1, <2>2, <2>3 DEF Quiet, BusyKept, SpawnerKept, KeysInv
  <2> QED
    BY <2>4, QuietKeeps
<1>5. CASE /\ {"ACTIVE", "RUNNING"} \subseteq state[s0] /\ "NOTIFIED" \notin state[s0]
           /\ state' = [state EXCEPT ![s0] = @ \cup {"NOTIFIED"}]
           /\ waker' = [waker EXCEPT ![k] = Idle]
           /\ MarkRecord(key, FALSE)
  <2>1. /\ state[s0] = {"ACTIVE", "RUNNING"}
        /\ state'[s0] = {"ACTIVE", "RUNNING", "NOTIFIED"}
        /\ \A s \in Slot \ {s0} : state'[s] = state[s]
    BY <1>5 DEF SlotStateInv, ExecutorTypeOK
  <2>2. stale' = stale /\ \A s \in owed' : s \in owed \/ s = s0
    BY <1>2, <1>5 DEF MarkRecord
  <2>3. waker'[k].at = "idle" /\ \A l \in Waker \ {k} : waker'[l] = waker[l]
    BY <1>5 DEF ExecutorTypeOK, Idle
  <2>4. ASSUME NEW s \in Slot
        PROVE  /\ Recycling(s)' = Recycling(s) /\ Polls(s)' = Polls(s)
               /\ WorkersFor(s)' = WorkersFor(s) /\ WakersFor(s)' = WakersFor(s)
               /\ QueuedFor(s)' = QueuedFor(s)
               /\ (SpawnerFor(s)' <=> SpawnerFor(s)) /\ (Arming(s)' <=> Arming(s))
    <3>1. WakersFor(s)' = WakersFor(s)
      BY <1>3, <2>3 DEF WakersFor
    <3> QED
      BY <1>3, <3>1 DEF Recycling, Polls, WorkersFor, QueuedFor, SpawnerFor, Arming
  <2>5. SlotStateInv' /\ RunningInv'
    BY <2>1, <2>4 DEF SlotStateInv, RunningInv
  <2>6. SlotsInv'
    BY <1>3, <2>1, <2>4 DEF SlotsInv
  <2>7. KeysInv'
    BY <1>3, <2>3 DEF KeysInv, Current
  <2>8. CarriedInv'
    BY <1>3, <2>1, <2>4 DEF CarriedInv, Carried, CarriedOnce
  <2>9. WakeInv'
    <3>1. \A other : OnItsWay(other) => OnItsWay(other)'
      BY <1>3, <2>3 DEF OnItsWay, Doing
    <3> QED
      BY <1>3, <2>1, <2>2, <3>1 DEF WakeInv, Queued
  <2>10. SettledInv'
    BY <1>3, <2>1, <2>4 DEF SettledInv
  <2> QED
    BY <2>5, <2>6, <2>7, <2>8, <2>9, <2>10 DEF Core
<1>6. CASE /\ state[s0] = {"ACTIVE"}
           /\ state' = [state EXCEPT ![s0] = @ \cup {"SCHEDULED"}]
           /\ waker' = [waker EXCEPT ![k].at = "enqueueing"]
           /\ MarkRecord(key, TRUE)
  <2>1. /\ state'[s0] = {"ACTIVE", "SCHEDULED"}
        /\ \A s \in Slot \ {s0} : state'[s] = state[s]
    BY <1>6 DEF ExecutorTypeOK
  <2>2. /\ \A s \in owed' : s \in owed \/ s = s0
        /\ stale' = IF Current(key) THEN stale ELSE stale \cup {s0}
    BY <1>2, <1>6 DEF MarkRecord
  <2>3. /\ waker'[k].at = "enqueueing" /\ waker'[k].key = key
        /\ waker'[k] = Doing("enqueueing", key)
        /\ \A l \in Waker \ {k} : waker'[l] = waker[l]
    BY <1>1, <1>6 DEF ExecutorTypeOK, WakerState, Doing
  <2>4. ASSUME NEW s \in Slot
        PROVE  /\ Recycling(s)' = Recycling(s) /\ Polls(s)' = Polls(s)
               /\ WorkersFor(s)' = WorkersFor(s)
               /\ WakersFor(s)' = IF s = s0 THEN WakersFor(s) \cup {k} ELSE WakersFor(s)
               /\ QueuedFor(s)' = QueuedFor(s)
               /\ (SpawnerFor(s)' <=> SpawnerFor(s)) /\ (Arming(s)' <=> Arming(s))
    <3>1. WakersFor(s)' = IF s = s0 THEN WakersFor(s) \cup {k} ELSE WakersFor(s)
      BY <1>2, <1>3, <2>3 DEF WakersFor
    <3> QED
      BY <1>3, <3>1 DEF Recycling, Polls, WorkersFor, QueuedFor, SpawnerFor, Arming
  <2>5. ~Carried(s0) /\ Polls(s0) = {} /\ ~Arming(s0) /\ Recycling(s0) = {} /\ s0 \notin Range(free)
    BY <1>6 DEF CarriedInv, RunningInv, SlotsInv, LifeInv
  <2>6. SlotStateInv' /\ RunningInv'
    BY <2>1, <2>4, <2>5 DEF SlotStateInv, RunningInv
  <2>7. SlotsInv'
    BY <1>3, <2>1, <2>4, <2>5 DEF SlotsInv
  <2>8. KeysInv'
    BY <1>3, <2>3 DEF KeysInv, Current
  <2>9. CarriedInv'
    BY <1>3, <2>1, <2>4, <2>5 DEF CarriedInv, Carried, CarriedOnce
  <2>10. WakeInv'
    <3>1. \A other : OnItsWay(other) => OnItsWay(other)'
      BY <1>3, <2>3 DEF OnItsWay, Doing
    <3>2. s0 \notin stale' => OnItsWay(<<s0, generation[s0]>>)'
      <4> SUFFICES ASSUME s0 \notin stale' PROVE OnItsWay(<<s0, generation[s0]>>)'
        OBVIOUS
      <4>1. Current(key)
        BY <2>2
      <4>2. key = <<s0, generation[s0]>>
        BY <1>2, <4>1 DEF Key, Current
      <4> QED
        BY <1>3, <2>3, <4>2 DEF OnItsWay
    <3>3. ASSUME NEW s \in Slot, "SCHEDULED" \in state'[s], s \notin stale'
          PROVE  Queued(<<s, generation[s]>>)' \/ OnItsWay(<<s, generation[s]>>)'
      <4>1. CASE s = s0
        BY <3>2, <3>3, <4>1
      <4>2. CASE s # s0
        <5>1. "SCHEDULED" \in state[s] /\ s \notin stale
          BY <2>1, <2>2, <3>3, <4>2
        <5> QED
          BY <1>3, <3>1, <5>1 DEF WakeInv, Queued
      <4> QED
        BY <4>1, <4>2
    <3>4. \A s \in Slot : s \in owed' => "SCHEDULED" \in state'[s] \/ "NOTIFIED" \in state'[s]
      BY <2>1, <2>2 DEF WakeInv
    <3> QED
      BY <1>3, <3>3, <3>4 DEF WakeInv
  <2>11. SettledInv'
    BY <1>3, <2>1, <2>4 DEF SettledInv
  <2> QED
    BY <2>6, <2>7, <2>8, <2>9, <2>10, <2>11 DEF Core
<1> QED
  BY <1>1, <1>2, <1>4, <1>5, <1>6 DEF Mark

(* The sweep of join: every worker has returned.                           *)
LEMMA JoinKeeps == ASSUME ExecutorInv, Join PROVE Core'
<1> USE DEF ExecutorInv
<1>1. /\ \A w \in Worker : worker[w].at = "exited"
      /\ state' = [s \in Slot |-> {}] /\ ready' = <<>> /\ stopper' = "joined"
      /\ settled' = settled \cup {<<s, generation[s]>> : s \in {s \in Slot : "ACTIVE" \in state[s]}}
      /\ owed' = owed \ {s \in Slot : "ACTIVE" \in state[s]}
      /\ UNCHANGED <<generation, spawner, worker, waker, stale>>
      /\ stopper = "joining"
  BY DEF Join
<1>2. spawner.at = "idle"
  BY <1>1 DEF LifeInv
<1>3. ASSUME NEW s \in Slot
      PROVE  /\ Recycling(s)' = {} /\ Polls(s)' = {} /\ WorkersFor(s)' = {}
             /\ WakersFor(s)' = WakersFor(s) /\ QueuedFor(s)' = {}
             /\ ~SpawnerFor(s)' /\ ~Arming(s)' /\ ~Arming(s)
  <2>1. Len(ready') = 0
    BY <1>1
  <2> QED
    BY <1>1, <1>2, <2>1 DEF Recycling, Polls, WorkersFor, WakersFor, QueuedFor, SpawnerFor, Arming
<1>4. SlotStateInv' /\ RunningInv' /\ SlotsInv'
  BY <1>1, <1>3 DEF SlotStateInv, RunningInv, SlotsInv
<1>5. KeysInv'
  BY <1>1, <1>2 DEF KeysInv, Current
<1>6. CarriedInv'
  BY <1>1, <1>3 DEF CarriedInv, Carried, CarriedOnce
<1>7. WakeInv'
  <2>1. \A s \in owed : "ACTIVE" \in state[s]
    BY DEF WakeInv, SlotStateInv, ExecutorTypeOK
  <2> QED
    BY <1>1, <2>1 DEF WakeInv, ExecutorTypeOK
<1>8. SettledInv'
  BY <1>1, <1>3 DEF SettledInv
<1> QED
  BY <1>4, <1>5, <1>6, <1>7, <1>8 DEF Core

LEMMA CoreKept == ASSUME ExecutorInv, [ExecutorNext]_executor PROVE Core'
<1>1. ASSUME NEW w \in Worker, WorkerStep(w) \/ WakeForNothing(w) PROVE Core'
  <2>1. CASE Look(w) \/ Pop(w)
    BY <2>1, TakeKeeps, QuietWorker, QuietKeeps
  <2>2. CASE Sleep(w) \/ WakeForNothing(w) \/ Drain(w) \/ Leave(w) \/ Tell(w)
    BY <2>2, QuietWorker, QuietKeeps
  <2>3. CASE Begin(w) \/ Claim(w) \/ PollReturns(w) \/ Park(w)
    BY <2>3, BeginKeeps, ClaimKeeps, PollReturnsKeeps, ParkKeeps
  <2>4. CASE Requeue(w) \/ Finish(w) \/ Recycle(w)
    BY <2>4, RequeueKeeps, FinishKeeps, RecycleKeeps
  <2> QED
    BY <1>1, <2>1, <2>2, <2>3, <2>4 DEF WorkerStep
<1>2. ASSUME NEW k \in Waker, Wake(k) \/ WakerStep(k) PROVE Core'
  BY <1>2, QuietOther, QuietKeeps, MarkKeeps, WakeEnqueueKeeps DEF WakerStep
<1>3. CASE Spawn \/ SpawnerStep
  BY <1>3, SpawnKeeps, SpawnArmKeeps, SpawnEnqueueKeeps, QuietOther, QuietKeeps DEF SpawnerStep
<1>4. CASE RequestStop \/ StopperStep
  BY <1>4, QuietOther, QuietKeeps, JoinKeeps DEF StopperStep
<1>5. CASE UNCHANGED executor
  <2>1. Quiet
    BY <1>5 DEF executor, threads, Quiet, BusyKept, WakersKept, SpawnerKept, ExecutorInv, KeysInv
  <2> QED
    BY <2>1, QuietKeeps
<1> QED
  BY <1>1, <1>2, <1>3, <1>4, <1>5 DEF ExecutorNext

-----------------------------------------------------------------------------
(* The mutex of the queue, the lifecycle and the queue's readers           *)

Rest == MutexInv /\ LifeInv /\ WorkIsNoticed /\ NeverFaults

(* A key that is carried is not in the queue, which has room for it.       *)
LEMMA SpawnEnqueueFits ==
  ASSUME ExecutorInv, SpawnEnqueue
  PROVE  holder = Nobody /\ stop' = stop /\ fault' = fault
<1>1. spawner.key \in Key /\ spawner.key[1] \in Slot /\ SpawnerFor(spawner.key[1])
  BY DEF SpawnEnqueue, ExecutorInv, KeysInv, SpawnerFor, Key
<1>2. QueuedFor(spawner.key[1]) = {}
  BY <1>1 DEF ExecutorInv, CarriedInv, CarriedOnce
<1> QED
  BY <1>1, <1>2, EnqueueFits DEF SpawnEnqueue

LEMMA WakeEnqueueFits ==
  ASSUME ExecutorInv, NEW k \in Waker, WakeEnqueue(k)
  PROVE  holder = Nobody /\ stop' = stop /\ fault' = fault
<1>1. waker[k].key \in Key /\ waker[k].key[1] \in Slot /\ WakersFor(waker[k].key[1]) # {}
  BY DEF WakeEnqueue, ExecutorInv, KeysInv, WakersFor, Key
<1>2. QueuedFor(waker[k].key[1]) = {}
  BY <1>1 DEF ExecutorInv, CarriedInv, CarriedOnce
<1> QED
  BY <1>1, <1>2, EnqueueFits DEF WakeEnqueue

LEMMA RequeueFits ==
  ASSUME ExecutorInv, NEW w \in Worker, Requeue(w)
  PROVE  holder = Nobody /\ stop' = stop /\ fault' = fault
<1>1. worker[w].key \in Key /\ worker[w].key[1] \in Slot /\ WorkersFor(worker[w].key[1]) # {}
  BY DEF Requeue, ExecutorInv, KeysInv, WorkersFor, Key
<1>2. QueuedFor(worker[w].key[1]) = {}
  BY <1>1 DEF ExecutorInv, CarriedInv, CarriedOnce
<1> QED
  BY <1>1, <1>2, EnqueueFits DEF Requeue

(* A worker's step: it stays awake, except that it goes to sleep holding   *)
(* the mutex of an empty queue, or returns because of stop.                *)
LEMMA WorkerRest ==
  ASSUME ExecutorInv, NEW w \in Worker, WorkerStep(w) \/ WakeForNothing(w)
  PROVE  Rest'
<1> USE DEF ExecutorInv
<1>1. UNCHANGED <<lifecycle, spawner, stopper, waker>> /\ stop' = stop /\ fault' = fault
  BY RequeueFits DEF WorkerStep, Look, Sleep, WakeForNothing, Drain, Pop, Leave, Begin, Claim,
                     PollReturns, Park, Requeue, Tell, Finish, Recycle
<1>2. /\ worker'[w].at = "asleep" => worker[w].at = "checked" /\ ready' = ready /\ holder' = Nobody
      /\ worker'[w].at = "exited" => stop
      /\ worker'[w].at = "checked" => ready' = <<>> /\ holder' = w /\ holder = Nobody
      /\ worker'[w].at # "checked" => \/ worker[w].at = "checked" /\ holder' = Nobody
                                      \/ /\ worker[w].at # "checked" /\ holder' = holder
                                         /\ ready' = ready \/ holder = Nobody
      /\ \A x \in Worker \ {w} :
           \/ worker'[x] = worker[x]
           \/ worker[x].at = "asleep" /\ worker'[x].at = "looking"
  <2>1. CASE Look(w)
    <3>1. /\ worker[w].at = "looking" /\ holder = Nobody
          /\ \A x \in Worker \ {w} : worker'[x] = worker[x]
      BY <2>1, Goes, Places DEF Look, ExecutorTypeOK
    <3>2. CASE stop /\ Go(w, "exited") /\ UNCHANGED <<ready, holder>>
      BY <3>1, <3>2, Goes, Places
    <3>3. CASE /\ worker' = [worker EXCEPT ![w] = Doing("beginning", Head(ready))]
               /\ UNCHANGED holder
      <4>1. worker'[w].at = "beginning"
        BY <3>3 DEF ExecutorTypeOK, Doing
      <4> QED
        BY <3>1, <3>3, <4>1
    <3>4. CASE ready = <<>> /\ Go(w, "checked") /\ holder' = w /\ UNCHANGED ready
      BY <3>1, <3>4, Goes, Places
    <3> QED
      BY <2>1, <3>2, <3>3, <3>4 DEF Look
  <2>2. CASE Sleep(w)
    BY <2>2, Goes, Places DEF Sleep
  <2>3. CASE Drain(w)
    BY <2>3, Goes, Places DEF Drain
  <2>4. CASE Pop(w)
    <3>1. CASE ready # <<>>
      <4>1. worker' = [worker EXCEPT ![w] = Doing("beginning", Head(ready))]
        BY <2>4, <3>1 DEF Pop
      <4>2. worker'[w].at = "beginning" /\ \A x \in Worker \ {w} : worker'[x] = worker[x]
        BY <4>1 DEF ExecutorTypeOK, Doing
      <4> QED
        BY <2>4, <4>2 DEF Pop
    <3>2. CASE ready = <<>>
      BY <2>4, <3>2, Goes, Places DEF Pop
    <3> QED
      BY <3>1, <3>2
  <2>5. CASE Leave(w)
    <3> DEFINE looking == [worker EXCEPT ![w] = Doing("looking", NoKey)]
    <3>1. /\ looking \in [Worker -> WorkerState] /\ looking[w].at = "looking"
          /\ \A x \in Worker \ {w} : looking[x] = worker[x]
      BY DEF ExecutorTypeOK, WorkerState, WorkerPlaces, Doing
    <3>2. \A x \in Worker :
            \/ worker'[x] = looking[x]
            \/ worker[x].at = "asleep" /\ worker'[x] = Doing("looking", NoKey)
      BY <2>5, <3>1, NotifyWakes DEF Leave
    <3>3. worker'[w].at = "looking"
      BY <3>1, <3>2 DEF Doing
    <3>4. \A x \in Worker \ {w} :
            \/ worker'[x] = worker[x]
            \/ worker[x].at = "asleep" /\ worker'[x].at = "looking"
      BY <3>1, <3>2 DEF Doing
    <3> QED
      BY <2>5, <3>3, <3>4 DEF Leave
  <2>6. CASE Tell(w)
    <3> DEFINE new == [worker EXCEPT ![w].at = "draining"]
    <3>1. /\ new \in [Worker -> WorkerState] /\ new[w].at = "draining"
          /\ \A x \in Worker \ {w} : new[x] = worker[x]
      BY GoTyped, Places DEF ExecutorTypeOK, WorkerState
    <3>2. \A x \in Worker :
            \/ worker'[x] = new[x]
            \/ worker[x].at = "asleep" /\ worker'[x] = Doing("looking", NoKey)
      BY <2>6, <3>1, NotifyWakes DEF Tell
    <3>3. worker'[w].at = "draining"
      BY <2>6, <3>1, <3>2 DEF Tell
    <3>4. \A x \in Worker \ {w} :
            \/ worker'[x] = worker[x]
            \/ worker[x].at = "asleep" /\ worker'[x].at = "looking"
      BY <3>1, <3>2 DEF Doing
    <3> QED
      BY <2>6, <3>3, <3>4 DEF Tell
  <2>7. CASE WakeForNothing(w)
    BY <2>7, Goes, Places DEF WakeForNothing
  <2>8. CASE Begin(w) \/ Claim(w) \/ PollReturns(w)
    BY <2>8, Goes, Places DEF Begin, Claim, PollReturns
  <2>9. CASE Park(w) \/ Finish(w) \/ Recycle(w)
    BY <2>9, Goes, Places DEF Park, Finish, Recycle
  <2>10. CASE Requeue(w)
    BY <2>10, Goes, Places, RequeueFits DEF Requeue
  <2> QED
    BY <2>1, <2>2, <2>3, <2>4, <2>5, <2>6, <2>7, <2>8, <2>9, <2>10 DEF WorkerStep
<1>3. MutexInv'
  <2>1. w # Nobody /\ holder \in Worker \cup {Nobody}
    BY WorkerAssumption DEF ExecutorTypeOK
  <2>2. CASE worker'[w].at = "checked"
    <3>1. \A x \in Worker : worker[x].at # "checked"
      BY <1>2, <2>2, WorkerAssumption DEF MutexInv
    <3> QED
      BY <1>2, <2>2, <3>1 DEF MutexInv
  <2>3. CASE worker'[w].at # "checked" /\ worker[w].at = "checked"
    <3>1. holder = w /\ holder' = Nobody
      BY <1>2, <2>3 DEF MutexInv
    <3>2. \A x \in Worker : worker'[x].at # "checked"
      BY <1>2, <2>3, <3>1 DEF MutexInv
    <3> QED
      BY <3>1, <3>2 DEF MutexInv
  <2>4. CASE worker'[w].at # "checked" /\ worker[w].at # "checked"
    <3>1. holder' = holder /\ (ready' = ready \/ holder = Nobody)
      BY <1>2, <2>4
    <3>2. \A x \in Worker : worker'[x].at = "checked" <=> worker[x].at = "checked"
      BY <1>2, <2>4
    <3> QED
      BY <2>1, <3>1, <3>2 DEF MutexInv
  <2> QED
    BY <2>2, <2>3, <2>4
<1>4. LifeInv'
  <2>1. worker[w].at # "exited"
    BY DEF WorkerStep, Look, Sleep, WakeForNothing, Drain, Pop, Leave, Begin, Claim, PollReturns,
           Park, Requeue, Tell, Finish, Recycle
  <2> QED
    BY <1>1, <1>2, <2>1 DEF LifeInv
<1>5. WorkIsNoticed'
  <2>1. CASE worker'[w].at = "asleep"
    <3>1. ready' = <<>>
      BY <1>2, <2>1, WorkerAssumption DEF MutexInv
    <3> QED
      BY <3>1 DEF WorkIsNoticed
  <2>2. CASE worker'[w].at # "asleep"
    BY <1>1, <1>2, <2>2 DEF WorkIsNoticed
  <2> QED
    BY <2>1, <2>2
<1> QED
  BY <1>1, <1>3, <1>4, <1>5 DEF Rest, NeverFaults

(* After notify_one some worker is awake, as long as the executor runs.    *)
LEMMA SomeoneAwake ==
  ASSUME ExecutorInv, NotifyOne(worker), stop' = stop
  PROVE  ~stop' => \E w \in Worker : worker'[w].at \notin {"asleep", "exited"}
<1>1. worker \in [Worker -> WorkerState]
  BY DEF ExecutorInv, ExecutorTypeOK
<1>2. CASE Asleep = {}
  <2>1. worker' = worker
    BY <1>2 DEF NotifyOne
  <2> QED
    BY <1>2, <2>1, WorkerAssumption DEF Asleep, ExecutorInv, LifeInv
<1>3. CASE Asleep # {}
  BY <1>1, <1>3, NotifyWakes DEF ExecutorInv
<1> QED
  BY <1>2, <1>3

(* Who is told or left alone does not take the mutex, nor return.          *)
LEMMA Undisturbed ==
  ASSUME ExecutorInv, stop => stop', holder' = holder, ready' = ready \/ holder = Nobody,
         \A w \in Worker : \/ worker'[w] = worker[w]
                           \/ worker[w].at = "asleep" /\ worker'[w] = Doing("looking", NoKey)
  PROVE  MutexInv' /\ \A w \in Worker : worker'[w].at = "exited" => stop'
<1>1. holder \in Worker \cup {Nobody}
  BY DEF ExecutorInv, ExecutorTypeOK
<1>2. ASSUME NEW w \in Worker
      PROVE  /\ worker'[w].at = "checked" => worker[w].at = "checked"
             /\ worker[w].at = "checked" => worker'[w].at = "checked"
             /\ worker'[w].at = "exited" => worker[w].at = "exited"
  <2>1. CASE worker'[w] = worker[w]
    BY <2>1
  <2>2. CASE worker[w].at = "asleep" /\ worker'[w] = Doing("looking", NoKey)
    BY <2>2 DEF Doing
  <2> QED
    BY <2>1, <2>2
<1>3. MutexInv'
  <2>1. ASSUME NEW w \in Worker, worker'[w].at = "checked" PROVE holder' = w
    <3>1. worker[w].at = "checked"
      BY <1>2, <2>1
    <3>2. holder = w
      BY <3>1 DEF ExecutorInv, MutexInv
    <3> QED
      BY <3>2
  <2>2. ASSUME holder' # Nobody PROVE worker'[holder'].at = "checked" /\ ready' = <<>>
    <3>1. holder \in Worker /\ worker[holder].at = "checked" /\ ready = <<>>
      BY <1>1, <2>2 DEF ExecutorInv, MutexInv
    <3> QED
      BY <1>2, <2>2, <3>1
  <2> QED
    BY <2>1, <2>2 DEF MutexInv
<1> QED
  BY <1>2, <1>3 DEF ExecutorInv, LifeInv

LEMMA WakerRest ==
  ASSUME ExecutorInv, NEW k \in Waker, Wake(k) \/ WakerStep(k)
  PROVE  Rest'
<1> USE DEF ExecutorInv
<1>1. UNCHANGED <<lifecycle, spawner, stopper, holder>> /\ stop' = stop /\ fault' = fault
  BY WakeEnqueueFits DEF WakerStep, Wake, Mark, WakeEnqueue, WakeTell
<1>0. stopper = "joined" => state' = state
  <2>1. ASSUME Mark(k), stopper = "joined" PROVE state' = state
    <3>1. waker[k].key[1] \in Slot
      BY <2>1 DEF Mark, KeysInv, Key
    <3>2. "ACTIVE" \notin state[waker[k].key[1]]
      BY <2>1, <3>1 DEF LifeInv
    <3> QED
      BY <2>1, <3>2 DEF Mark
  <2> QED
    BY <2>1 DEF WakerStep, Wake, WakeEnqueue, WakeTell
<1>2. CASE Wake(k) \/ Mark(k) \/ WakeEnqueue(k)
  <2>1. worker' = worker
    BY <1>2 DEF Wake, Mark, WakeEnqueue
  <2>2. ready' = ready \/ holder = Nobody
    BY <1>2, WakeEnqueueFits DEF Wake, Mark
  <2>3. MutexInv'
    BY <1>1, <2>1, <2>2, Undisturbed
  <2>4. LifeInv'
    BY <1>0, <1>1, <2>1 DEF LifeInv
  <2>5. WorkIsNoticed'
    <3>1. CASE WakeEnqueue(k)
      <4>1. waker'[k].at = "telling"
        BY <3>1 DEF WakeEnqueue, ExecutorTypeOK, WakerState
      <4> QED
        BY <4>1 DEF WorkIsNoticed
    <3>2. CASE Wake(k) \/ Mark(k)
      <4>1. /\ ready' = ready /\ waker[k].at # "telling"
            /\ \A l \in Waker \ {k} : waker'[l] = waker[l]
        <5>1. waker \in [Waker -> WakerState]
          BY DEF ExecutorTypeOK
        <5>2. CASE Wake(k)
          BY <5>1, <5>2 DEF Wake, Idle
        <5>3. CASE Mark(k)
          <6>1. waker' \in {[waker EXCEPT ![k] = Idle], [waker EXCEPT ![k].at = "enqueueing"]}
            BY <5>3 DEF Mark
          <6> QED
            BY <5>1, <5>3, <6>1 DEF Mark
        <5> QED
          BY <3>2, <5>2, <5>3
      <4> QED
        BY <1>1, <2>1, <4>1 DEF WorkIsNoticed
    <3> QED
      BY <1>2, <3>1, <3>2
  <2> QED
    BY <1>1, <2>3, <2>4, <2>5 DEF Rest, NeverFaults
<1>3. CASE WakeTell(k)
  <2>1. \A w \in Worker : \/ worker'[w] = worker[w]
                          \/ worker[w].at = "asleep" /\ worker'[w] = Doing("looking", NoKey)
    BY <1>3, NotifyWakes DEF WakeTell, ExecutorTypeOK
  <2>2. ready' = ready
    BY <1>3 DEF WakeTell
  <2>3. MutexInv' /\ \A w \in Worker : worker'[w].at = "exited" => stop'
    BY <1>1, <2>1, <2>2, Undisturbed
  <2>4. LifeInv'
    BY <1>0, <1>1, <2>1, <2>3 DEF LifeInv
  <2>5. WorkIsNoticed'
    BY <1>1, <1>3, SomeoneAwake DEF WorkIsNoticed, WakeTell
  <2> QED
    BY <1>1, <2>3, <2>4, <2>5 DEF Rest, NeverFaults
<1> QED
  BY <1>2, <1>3 DEF WakerStep

LEMMA SpawnerRest == ASSUME ExecutorInv, Spawn \/ SpawnerStep PROVE Rest'
<1> USE DEF ExecutorInv
<1>1. UNCHANGED <<stopper, waker, holder>> /\ stop' = stop /\ fault' = fault
  BY SpawnEnqueueFits DEF SpawnerStep, Spawn, SpawnArm, SpawnEnqueue, SpawnTell
<1>2. CASE Spawn \/ SpawnArm \/ SpawnEnqueue
  <2>1. worker' = worker
    BY <1>2 DEF Spawn, SpawnArm, SpawnEnqueue
  <2>2. ready' = ready \/ holder = Nobody
    BY <1>2, SpawnEnqueueFits DEF Spawn, SpawnArm
  <2>3. MutexInv'
    BY <1>1, <2>1, <2>2, Undisturbed
  <2>4. /\ spawner.at # "telling" /\ lifecycle' = "spawner" /\ spawner'.at # "idle"
        /\ spawner'.at = "telling" \/ ready' = ready
        /\ stopper = "idle"
    <3>1. CASE Spawn
      BY <3>1 DEF Spawn, Doing, Idle, LifeInv
    <3>2. CASE SpawnArm
      BY <3>2 DEF SpawnArm, LifeInv, ExecutorTypeOK, SpawnerState
    <3>3. CASE SpawnEnqueue
      BY <3>3 DEF SpawnEnqueue, LifeInv, ExecutorTypeOK, SpawnerState
    <3> QED
      BY <1>2, <3>1, <3>2, <3>3
  <2>5. LifeInv'
    BY <1>1, <2>1, <2>4 DEF LifeInv
  <2>6. WorkIsNoticed'
    BY <1>1, <2>1, <2>4 DEF WorkIsNoticed
  <2> QED
    BY <1>1, <2>3, <2>5, <2>6 DEF Rest, NeverFaults
<1>3. CASE SpawnTell
  <2>1. \A w \in Worker : \/ worker'[w] = worker[w]
                          \/ worker[w].at = "asleep" /\ worker'[w] = Doing("looking", NoKey)
    BY <1>3, NotifyWakes DEF SpawnTell, ExecutorTypeOK
  <2>2. ready' = ready /\ state' = state /\ lifecycle' = "nobody" /\ spawner' = Idle
    BY <1>3 DEF SpawnTell
  <2>3. MutexInv' /\ \A w \in Worker : worker'[w].at = "exited" => stop'
    BY <1>1, <2>1, <2>2, Undisturbed
  <2>4. LifeInv'
    BY <1>1, <1>3, <2>1, <2>2, <2>3 DEF LifeInv, Idle, SpawnTell
  <2>5. WorkIsNoticed'
    BY <1>1, <1>3, SomeoneAwake DEF WorkIsNoticed, SpawnTell
  <2> QED
    BY <1>1, <2>3, <2>4, <2>5 DEF Rest, NeverFaults
<1> QED
  BY <1>2, <1>3 DEF SpawnerStep

LEMMA StopperRest == ASSUME ExecutorInv, RequestStop \/ StopperStep PROVE Rest'
<1> USE DEF ExecutorInv
<1>1. UNCHANGED <<spawner, waker, holder>> /\ fault' = fault /\ stop'
  BY DEF StopperStep, RequestStop, NotifyStop, Join, LifeInv
<1>2. \A w \in Worker : \/ worker'[w] = worker[w]
                        \/ worker[w].at = "asleep" /\ worker'[w] = Doing("looking", NoKey)
  BY NotifyAllWakes DEF StopperStep, RequestStop, NotifyStop, Join
<1>3. ready' = ready \/ holder = Nobody
  BY DEF StopperStep, RequestStop, NotifyStop, Join
<1>4. MutexInv' /\ \A w \in Worker : worker'[w].at = "exited" => stop'
  BY <1>1, <1>2, <1>3, Undisturbed
<1>5. LifeInv'
  <2>1. CASE RequestStop
    BY <1>1, <1>4, <2>1 DEF RequestStop, LifeInv, ExecutorTypeOK
  <2>2. CASE NotifyStop
    BY <1>1, <1>4, <2>2 DEF NotifyStop, LifeInv
  <2>3. CASE Join
    BY <1>1, <1>4, <2>3 DEF Join, LifeInv
  <2> QED
    BY <2>1, <2>2, <2>3 DEF StopperStep
<1> QED
  BY <1>1, <1>4, <1>5 DEF Rest, NeverFaults, WorkIsNoticed

LEMMA RestKept == ASSUME ExecutorInv, [ExecutorNext]_executor PROVE Rest'
<1>1. CASE UNCHANGED executor
  BY <1>1 DEF executor, threads, ExecutorInv, Rest, MutexInv, LifeInv, WorkIsNoticed, NeverFaults
<1> QED
  BY <1>1, WorkerRest, WakerRest, SpawnerRest, StopperRest DEF ExecutorNext

-----------------------------------------------------------------------------
LEMMA Initially == ExecutorInit => ExecutorInv
<1> SUFFICES ASSUME ExecutorInit PROVE ExecutorInv
  OBVIOUS
<1> DEFINE n == Cardinality(Slot)
<1>1. /\ generation = [s \in Slot |-> 0] /\ state = [s \in Slot |-> {}] /\ ready = <<>>
      /\ holder = Nobody /\ ~stop /\ ~fault /\ lifecycle = "nobody" /\ spawner = Idle
      /\ stopper = "idle" /\ settled = {} /\ owed = {} /\ stale = {}
      /\ worker = [w \in Worker |-> Doing("looking", NoKey)] /\ waker = [k \in Waker |-> Idle]
      /\ free \in [1..n -> Slot] /\ \A s \in Slot : \E i \in DOMAIN free : free[i] = s
  BY DEF ExecutorInit
<1>2. n \in Nat /\ Len(<<>>) = 0
  BY SlotAssumption, FS_CardinalityType
<1>3. free \in Seq(Slot) /\ IsInjective(free)
  <2>1. IsFiniteSet(1..n) /\ Cardinality(1..n) = n
    BY <1>2, FS_Interval
  <2>2. free \in Surjection(1..n, Slot)
    BY <1>1 DEF Surjection
  <2>3. free \in Injection(1..n, Slot)
    BY <2>1, <2>2, FS_SurjSameCardinalityImpliesInj
  <2> QED
    BY <1>1, <1>2, <2>3, SeqDef DEF Injection, IsInjective
<1>4. ready \in Seq(Key) /\ Len(ready) <= n
  BY <1>1, <1>2
<1>5. \A w \in Worker : worker[w].at = "looking" /\ worker[w] \in WorkerState
  BY <1>1 DEF Doing, WorkerState, WorkerPlaces
<1>6. \A k \in Waker : waker[k].at = "idle" /\ waker[k] \in WakerState
  BY <1>1 DEF Idle, WakerState
<1>7. spawner.at = "idle" /\ spawner \in SpawnerState
  BY <1>1 DEF Idle, SpawnerState
<1>8. ExecutorTypeOK
  <2>1. generation \in [Slot -> 0..MaxSpawn] /\ state \in [Slot -> SUBSET Flags]
    BY <1>1, SpawnAssumption
  <2>2. worker \in [Worker -> WorkerState] /\ waker \in [Waker -> WakerState]
    BY <1>1, <1>5, <1>6
  <2>3. holder \in Worker \cup {Nobody} /\ stop \in BOOLEAN /\ fault \in BOOLEAN
    BY DEF ExecutorInit
  <2>4. /\ lifecycle \in {"nobody", "spawner", "stopper"}
        /\ stopper \in {"idle", "notifying", "joining", "joined"}
        /\ settled \in SUBSET Key /\ owed \in SUBSET Slot /\ stale \in SUBSET Slot
    BY <1>1
  <2> QED
    BY <1>3, <1>4, <1>7, <2>1, <2>2, <2>3, <2>4 DEF ExecutorTypeOK
<1>9. SlotStateInv /\ KeysInv /\ SettledInv
  BY <1>1, <1>5, <1>6, <1>7 DEF SlotStateInv, KeysInv, SettledInv
<1>10. SlotsInv /\ RunningInv /\ CarriedInv /\ WakeInv
  <2>1. ASSUME NEW s \in Slot
        PROVE  /\ Recycling(s) = {} /\ Polls(s) = {} /\ WorkersFor(s) = {} /\ WakersFor(s) = {}
               /\ QueuedFor(s) = {} /\ ~SpawnerFor(s) /\ ~Arming(s) /\ state[s] = {}
    BY <1>1, <1>2, <1>5, <1>6, <1>7
       DEF Recycling, Polls, WorkersFor, WakersFor, QueuedFor, SpawnerFor, Arming
  <2> QED
    BY <1>1, <2>1 DEF SlotsInv, RunningInv, CarriedInv, Carried, CarriedOnce, WakeInv
<1>11. MutexInv /\ LifeInv /\ WorkIsNoticed /\ NeverFaults
  BY <1>1, <1>5, <1>7 DEF MutexInv, LifeInv, WorkIsNoticed, NeverFaults
<1> QED
  BY <1>8, <1>9, <1>10, <1>11 DEF ExecutorInv

(* Every step keeps the invariant.                                         *)
LEMMA ExecutorInvKept == ExecutorInv /\ [ExecutorNext]_executor => ExecutorInv'
BY TypeKept, CoreKept, RestKept DEF ExecutorInv, Core, Rest

(* The invariant: the flags of every slot agree with who is concerned with *)
(* it, in a queue, in a worker, in a waker or in the thread that spawns.   *)
THEOREM ExecutorInvariant == ExecutorSpec => []ExecutorInv
BY Initially, ExecutorInvKept, PTL DEF ExecutorSpec

(* Two workers never poll the task of one slot: the one that polls has set *)
(* RUNNING, and begin_poll refuses a slot that has it.                     *)
THEOREM ExecutorNoConcurrentPoll == ExecutorSpec => []NoConcurrentPoll
<1>1. ExecutorInv => NoConcurrentPoll
  <2> SUFFICES ASSUME ExecutorInv, NEW s \in Slot PROVE Cardinality(Polls(s)) <= 1
    BY DEF NoConcurrentPoll
  <2>1. CASE Polls(s) = {}
    BY <2>1, FS_EmptySet
  <2>2. CASE Polls(s) # {}
    <3>1. PICK w \in Polls(s) : TRUE
      BY <2>2
    <3>2. Polls(s) = {w}
      BY <3>1 DEF ExecutorInv, RunningInv
    <3>3. Cardinality({w}) = 1
      BY FS_Singleton
    <3> QED
      BY <3>2, <3>3
  <2> QED
    BY <2>1, <2>2
<1> QED
  BY <1>1, ExecutorInvariant, PTL

(* A task that was woken since its last poll began will be polled again,   *)
(* as long as no waker scheduled its slot with an old key.                 *)
THEOREM ExecutorWakeIsKept == ExecutorSpec => []WakeIsKept
<1>1. ExecutorInv => WakeIsKept
  <2> SUFFICES ASSUME ExecutorInv, NEW s \in owed \ stale PROVE WillBePolled(s)
    BY DEF WakeIsKept
  <2>1. s \in Slot
    BY DEF ExecutorInv, ExecutorTypeOK
  <2>2. CASE "SCHEDULED" \in state[s]
    BY <2>1, <2>2 DEF ExecutorInv, WakeInv, WillBePolled
  <2>3. CASE "NOTIFIED" \in state[s]
    <3>1. {"RUNNING", "NOTIFIED"} \subseteq state[s]
      BY <2>1, <2>3 DEF ExecutorInv, SlotStateInv
    <3> QED
      BY <2>1, <3>1 DEF ExecutorInv, RunningInv, WillBePolled
  <2> QED
    BY <2>1, <2>2, <2>3 DEF ExecutorInv, WakeInv
<1> QED
  BY <1>1, ExecutorInvariant, PTL

(* No worker sleeps over a queued key.                                     *)
THEOREM ExecutorWorkIsNoticed == ExecutorSpec => []WorkIsNoticed
<1>1. ExecutorInv => WorkIsNoticed
  BY DEF ExecutorInv
<1> QED
  BY <1>1, ExecutorInvariant, PTL

(* When join returns, every task that was ever spawned has its answer.     *)
THEOREM ExecutorStopSettlesTasks == ExecutorSpec => []StopSettlesTasks
<1>1. ExecutorInv => StopSettlesTasks
  <2> SUFFICES ASSUME ExecutorInv, stopper = "joined", NEW key \in Spawned PROVE key \in settled
    BY DEF StopSettlesTasks
  <2>1. PICK s \in Slot, g \in 0..MaxSpawn : key = <<s, g>>
    BY DEF Spawned, Key
  <2>2. g \in 1..generation[s] /\ state[s] = {} /\ ~Arming(s)
    BY <2>1 DEF Spawned, ExecutorInv, LifeInv, Arming
  <2> QED
    BY <2>1, <2>2 DEF ExecutorInv, SettledInv
<1> QED
  BY <1>1, ExecutorInvariant, PTL

(* The queue has room for every key that is put into it: a slot is in it   *)
(* at most once.                                                           *)
THEOREM ExecutorNeverFaults == ExecutorSpec => []NeverFaults
<1>1. ExecutorInv => NeverFaults
  BY DEF ExecutorInv
<1> QED
  BY <1>1, ExecutorInvariant, PTL
=============================================================================
