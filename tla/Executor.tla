------------------------------ MODULE Executor ------------------------------
(***************************************************************************)
(* The resident executor of crates/kcoro/src/executor.rs: a fixed array of *)
(* task slots, a bounded queue of slot keys, worker threads that poll, any *)
(* threads that wake, and the two sides of the lifecycle lock, a thread    *)
(* that spawns tasks and one that stops and joins.                         *)
(*                                                                         *)
(* A step is one atomic operation or one critical section.  A compare-     *)
(* exchange loop that only retries with the value it met is one atomic     *)
(* change of the word.  What a future does inside poll is left open; a     *)
(* wake may come from anywhere and at any time once its task was spawned.  *)
(***************************************************************************)
EXTENDS Naturals, FiniteSets, Sequences, Functions

CONSTANTS
  Slot,       \* the slots, as many as Config.capacity
  Worker,     \* the worker threads
  Waker,      \* the threads that call wake
  MaxSpawn,   \* bound: tasks spawned in a behaviour
  Nobody      \* no thread

ASSUME SlotAssumption == IsFiniteSet(Slot) /\ Slot # {}
ASSUME WorkerAssumption == Worker # {} /\ Nobody \notin Worker
ASSUME SpawnAssumption == MaxSpawn \in Nat

VARIABLES
  generation,  \* slot.generation
  state,       \* slot.state: the flags that are set
  free,        \* inner.free: a stack of slots
  ready,       \* inner.ready: keys of slots to poll
  holder,      \* the worker that sleeps next, holding the mutex of ready
  stop, fault, \* inner.stop, inner.fault
  lifecycle,   \* whose the lifecycle mutex is
  spawner,     \* what the spawning thread does: see Idle
  stopper,     \* where the stopping and joining thread is
  worker,      \* what each worker does
  waker,       \* what each waking thread does
  settled,     \* keys of the tasks whose promise is resolved
  owed,        \* slots whose task was woken since its last poll began
  stale        \* slots that a waker scheduled with an old key (a record of the
               \* past, as is owed)

threads == <<lifecycle, spawner, stopper, worker, waker>>
executor == <<generation, state, free, ready, holder, stop, fault, threads,
              settled, owed, stale>>

Flags == {"ACTIVE", "SCHEDULED", "RUNNING", "NOTIFIED"}
Key == Slot \X (0..MaxSpawn)
NoKey == <<>>

\* A thread is somewhere (at), with the key it works on.
Idle == [at |-> "idle", key |-> NoKey]
Doing(place, key) == [at |-> place, key |-> key]

Current(key) == generation[key[1]] = key[2]

SpawnerState == [at : {"idle", "arming", "enqueueing", "telling"}, key : Key \cup {NoKey}]
WorkerPlaces ==
  {"looking", "checked", "asleep", "beginning", "claiming", "polling", "parking",
   "requeueing", "telling", "finishing", "recycling", "draining", "popping", "leaving",
   "exited"}
WorkerState == [at : WorkerPlaces, key : Key \cup {NoKey}]
WakerState == [at : {"idle", "marking", "enqueueing", "telling"}, key : Key \cup {NoKey}]

ExecutorTypeOK ==
  /\ generation \in [Slot -> 0..MaxSpawn]
  /\ state \in [Slot -> SUBSET Flags]
  /\ free \in Seq(Slot) /\ IsInjective(free)
  /\ ready \in Seq(Key) /\ Len(ready) <= Cardinality(Slot)
  /\ holder \in Worker \cup {Nobody}
  /\ stop \in BOOLEAN /\ fault \in BOOLEAN
  /\ lifecycle \in {"nobody", "spawner", "stopper"}
  /\ spawner \in SpawnerState
  /\ stopper \in {"idle", "notifying", "joining", "joined"}
  /\ worker \in [Worker -> WorkerState]
  /\ waker \in [Waker -> WakerState]
  /\ settled \in SUBSET Key
  /\ owed \in SUBSET Slot
  /\ stale \in SUBSET Slot

ExecutorInit ==
  /\ generation = [s \in Slot |-> 0]
  /\ state = [s \in Slot |-> {}]
  /\ free \in {f \in [1..Cardinality(Slot) -> Slot] : \A s \in Slot : \E i \in DOMAIN f : f[i] = s}
  /\ ready = <<>>
  /\ holder = Nobody
  /\ stop = FALSE /\ fault = FALSE
  /\ lifecycle = "nobody"
  /\ spawner = Idle
  /\ stopper = "idle"
  /\ worker = [w \in Worker |-> Doing("looking", NoKey)]
  /\ waker = [k \in Waker |-> Idle]
  /\ settled = {}
  /\ owed = {}
  /\ stale = {}

-----------------------------------------------------------------------------
(* The queue *)

Asleep == {w \in Worker : worker[w].at = "asleep"}

\* The workers after one sleeper, or all of them, were notified on the condition
\* variable; new says what they do otherwise.
NotifyOne(new) ==
  IF Asleep = {} THEN worker' = new
  ELSE \E z \in Asleep : worker' = [new EXCEPT ![z] = Doing("looking", NoKey)]
NotifyAll == worker' = [z \in Worker |-> IF z \in Asleep THEN Doing("looking", NoKey) ELSE worker[z]]

(* enqueue(key) up to the release of the mutex; the caller's next step is  *)
(* to tell a worker.  A full queue stops the executor.                     *)
Enqueue(key) ==
  /\ holder = Nobody
  /\ IF Len(ready) < Cardinality(Slot)
     THEN ready' = Append(ready, key) /\ UNCHANGED <<stop, fault>>
     ELSE fault' = TRUE /\ stop' = TRUE /\ UNCHANGED ready

-----------------------------------------------------------------------------
(* Handle::spawn, under the lifecycle lock from its first step to its last *)

Spawned == {key \in Key : key[2] \in 1..generation[key[1]]}

Spawn ==
  /\ spawner = Idle
  /\ lifecycle = "nobody"
  /\ ~stop /\ ~fault
  /\ free # <<>>
  /\ Cardinality(Spawned) < MaxSpawn
  /\ LET s == free[Len(free)] IN
       /\ generation' = [generation EXCEPT ![s] = @ + 1]
       /\ spawner' = Doing("arming", <<s, generation[s] + 1>>)
  /\ free' = SubSeq(free, 1, Len(free) - 1)
  /\ lifecycle' = "spawner"
  /\ UNCHANGED <<state, ready, holder, stop, fault, stopper, worker, waker, settled, owed, stale>>

SpawnArm ==
  /\ spawner.at = "arming"
  /\ state' = [state EXCEPT ![spawner.key[1]] = {"ACTIVE", "SCHEDULED"}]
  /\ owed' = owed \cup {spawner.key[1]}
  /\ stale' = stale \ {spawner.key[1]}
  /\ spawner' = [spawner EXCEPT !.at = "enqueueing"]
  /\ UNCHANGED <<generation, free, ready, holder, stop, fault, lifecycle, stopper,
                 worker, waker, settled>>

SpawnEnqueue ==
  /\ spawner.at = "enqueueing"
  /\ Enqueue(spawner.key)
  /\ spawner' = [spawner EXCEPT !.at = "telling"]
  /\ UNCHANGED <<generation, state, free, holder, lifecycle, stopper, worker, waker,
                 settled, owed, stale>>

SpawnTell ==
  /\ spawner.at = "telling"
  /\ NotifyOne(worker)
  /\ spawner' = Idle
  /\ lifecycle' = "nobody"
  /\ UNCHANGED <<generation, state, free, ready, holder, stop, fault, stopper, waker,
                 settled, owed, stale>>

-----------------------------------------------------------------------------
(* TaskWake::schedule *)

(* The executor runs and the key is of the slot's present task; a waker    *)
(* that finds otherwise returns and changes nothing.                       *)
Wake(k) ==
  /\ waker[k] = Idle
  /\ ~stop
  /\ \E key \in Spawned :
       /\ Current(key)
       /\ waker' = [waker EXCEPT ![k] = Doing("marking", key)]
  /\ UNCHANGED <<generation, state, free, ready, holder, stop, fault, lifecycle,
                 spawner, stopper, worker, settled, owed, stale>>

MarkRecord(key, schedules) ==
  LET s == key[1] IN
  /\ owed' = IF Current(key) /\ "ACTIVE" \in state[s] THEN owed \cup {s} ELSE owed
  /\ stale' = IF ~Current(key) /\ schedules THEN stale \cup {s} ELSE stale

\* Slip: the flags are stored, not added to those that are there.
MarkOverwrites(k) ==
  LET key == waker[k].key
      s == key[1] IN
  /\ waker[k].at = "marking"
  /\ "ACTIVE" \in state[s] /\ "SCHEDULED" \notin state[s]
  /\ state' = [state EXCEPT ![s] = {"ACTIVE", "SCHEDULED"}]
  /\ waker' = [waker EXCEPT ![k].at = "enqueueing"]
  /\ MarkRecord(key, TRUE)
  /\ UNCHANGED <<generation, free, ready, holder, stop, fault, lifecycle, spawner,
                 stopper, worker, settled>>

(* The flags decide: nothing to do, the poll that runs must be repeated,   *)
(* or the slot goes to the queue.                                          *)
Mark(k) ==
  LET key == waker[k].key
      s == key[1] IN
  /\ waker[k].at = "marking"
  /\ \/ /\ "ACTIVE" \notin state[s] \/ "SCHEDULED" \in state[s] \/ "NOTIFIED" \in state[s]
        /\ waker' = [waker EXCEPT ![k] = Idle]
        /\ MarkRecord(key, FALSE)
        /\ UNCHANGED state
     \/ /\ {"ACTIVE", "RUNNING"} \subseteq state[s] /\ "NOTIFIED" \notin state[s]
        /\ state' = [state EXCEPT ![s] = @ \cup {"NOTIFIED"}]
        /\ waker' = [waker EXCEPT ![k] = Idle]
        /\ MarkRecord(key, FALSE)
     \/ /\ state[s] = {"ACTIVE"}
        /\ state' = [state EXCEPT ![s] = @ \cup {"SCHEDULED"}]
        /\ waker' = [waker EXCEPT ![k].at = "enqueueing"]
        /\ MarkRecord(key, TRUE)
  /\ UNCHANGED <<generation, free, ready, holder, stop, fault, lifecycle, spawner,
                 stopper, worker, settled>>

WakeEnqueue(k) ==
  /\ waker[k].at = "enqueueing"
  /\ Enqueue(waker[k].key)
  /\ waker' = [waker EXCEPT ![k].at = "telling"]
  /\ UNCHANGED <<generation, state, free, holder, lifecycle, spawner, stopper, worker,
                 settled, owed, stale>>

\* Slip: the key is queued and nobody is told.
TellNobody(k) ==
  /\ waker[k].at = "telling"
  /\ waker' = [waker EXCEPT ![k] = Idle]
  /\ UNCHANGED <<generation, state, free, ready, holder, stop, fault, lifecycle, spawner,
                 stopper, worker, settled, owed, stale>>

WakeTell(k) ==
  /\ waker[k].at = "telling"
  /\ NotifyOne(worker)
  /\ waker' = [waker EXCEPT ![k] = Idle]
  /\ UNCHANGED <<generation, state, free, ready, holder, stop, fault, lifecycle, spawner,
                 stopper, settled, owed, stale>>

-----------------------------------------------------------------------------
(* A worker: wait_for_work, then polls until the queue is empty or the     *)
(* drain limit is reached, which is any number here.                       *)

Go(w, place) == worker' = [worker EXCEPT ![w].at = place]

Look(w) ==
  /\ worker[w].at = "looking"
  /\ holder = Nobody
  /\ \/ /\ stop
        /\ Go(w, "exited")
        /\ UNCHANGED <<ready, holder>>
     \/ /\ ~stop /\ ready # <<>>
        /\ worker' = [worker EXCEPT ![w] = Doing("beginning", Head(ready))]
        /\ ready' = Tail(ready)
        /\ UNCHANGED holder
     \/ /\ ~stop /\ ready = <<>>
        /\ Go(w, "checked")
        /\ holder' = w
        /\ UNCHANGED ready
  /\ UNCHANGED <<generation, state, free, stop, fault, lifecycle, spawner, stopper,
                 waker, settled, owed, stale>>

(* work.wait releases the mutex of ready and sleeps.                       *)
Sleep(w) ==
  /\ worker[w].at = "checked"
  /\ Go(w, "asleep")
  /\ holder' = Nobody
  /\ UNCHANGED <<generation, state, free, ready, stop, fault, lifecycle, spawner,
                 stopper, waker, settled, owed, stale>>

(* A condition variable may wake a thread for no reason.                   *)
WakeForNothing(w) ==
  /\ worker[w].at = "asleep"
  /\ Go(w, "looking")
  /\ UNCHANGED <<generation, state, free, ready, holder, stop, fault, lifecycle,
                 spawner, stopper, waker, settled, owed, stale>>

(* The next round of the loop of run, or the end of it at the drain limit. *)
Drain(w) ==
  /\ worker[w].at = "draining"
  /\ \/ stop /\ Go(w, "exited")
     \/ ~stop /\ Go(w, "popping")
     \/ Go(w, "leaving")
  /\ UNCHANGED <<generation, state, free, ready, holder, stop, fault, lifecycle, spawner,
                 stopper, waker, settled, owed, stale>>

Pop(w) ==
  /\ worker[w].at = "popping"
  /\ holder = Nobody
  /\ IF ready # <<>>
     THEN /\ worker' = [worker EXCEPT ![w] = Doing("beginning", Head(ready))]
          /\ ready' = Tail(ready)
     ELSE Go(w, "leaving") /\ UNCHANGED ready
  /\ UNCHANGED <<generation, state, free, holder, stop, fault, lifecycle, spawner,
                 stopper, waker, settled, owed, stale>>

Leave(w) ==
  LET looking == [worker EXCEPT ![w] = Doing("looking", NoKey)] IN
  /\ worker[w].at = "leaving"
  /\ holder = Nobody
  /\ IF ready = <<>> THEN worker' = looking ELSE NotifyOne(looking)
  /\ UNCHANGED <<generation, state, free, ready, holder, stop, fault, lifecycle, spawner,
                 stopper, waker, settled, owed, stale>>

(* begin_poll: the generation first, then the flags.                       *)
Begin(w) ==
  /\ worker[w].at = "beginning"
  /\ Go(w, IF Current(worker[w].key) THEN "claiming" ELSE "draining")
  /\ UNCHANGED <<generation, state, free, ready, holder, stop, fault, lifecycle,
                 spawner, stopper, waker, settled, owed, stale>>

Claim(w) ==
  LET s == worker[w].key[1] IN
  /\ worker[w].at = "claiming"
  /\ \/ /\ {"ACTIVE", "SCHEDULED"} \subseteq state[s] /\ "RUNNING" \notin state[s]
        /\ state' = [state EXCEPT ![s] = (@ \ {"SCHEDULED"}) \cup {"RUNNING"}]
        /\ owed' = owed \ {s}
        /\ Go(w, "polling")
     \/ /\ ~({"ACTIVE", "SCHEDULED"} \subseteq state[s] /\ "RUNNING" \notin state[s])
        /\ Go(w, "draining")
        /\ UNCHANGED <<state, owed>>
  /\ UNCHANGED <<generation, free, ready, holder, stop, fault, lifecycle, spawner,
                 stopper, waker, settled, stale>>

(* The future returns Pending, or it returns Ready or panics.              *)
PollReturns(w) ==
  /\ worker[w].at = "polling"
  /\ Go(w, "parking") \/ Go(w, "finishing")
  /\ UNCHANGED <<generation, state, free, ready, holder, stop, fault, lifecycle,
                 spawner, stopper, waker, settled, owed, stale>>

\* Slip: a wake that came during the poll is dropped.
ParkForgetsWake(w) ==
  /\ worker[w].at = "parking"
  /\ state' = [state EXCEPT ![worker[w].key[1]] = {"ACTIVE"}]
  /\ Go(w, "draining")
  /\ UNCHANGED <<generation, free, ready, holder, stop, fault, lifecycle, spawner,
                 stopper, waker, settled, owed, stale>>

Park(w) ==
  LET s == worker[w].key[1] IN
  /\ worker[w].at = "parking"
  /\ \/ /\ "NOTIFIED" \in state[s]
        /\ state' = [state EXCEPT ![s] = {"ACTIVE", "SCHEDULED"}]
        /\ Go(w, "requeueing")
     \/ /\ "NOTIFIED" \notin state[s]
        /\ state' = [state EXCEPT ![s] = {"ACTIVE"}]
        /\ Go(w, "draining")
  /\ UNCHANGED <<generation, free, ready, holder, stop, fault, lifecycle, spawner,
                 stopper, waker, settled, owed, stale>>

Requeue(w) ==
  /\ worker[w].at = "requeueing"
  /\ Enqueue(worker[w].key)
  /\ Go(w, "telling")
  /\ UNCHANGED <<generation, state, free, holder, lifecycle, spawner, stopper, waker,
                 settled, owed, stale>>

Tell(w) ==
  /\ worker[w].at = "telling"
  /\ NotifyOne([worker EXCEPT ![w].at = "draining"])
  /\ UNCHANGED <<generation, state, free, ready, holder, stop, fault, lifecycle, spawner,
                 stopper, waker, settled, owed, stale>>

(* finish: the slot is emptied and the promise resolved, then the slot can *)
(* be used again.                                                          *)
Finish(w) ==
  LET s == worker[w].key[1] IN
  /\ worker[w].at = "finishing"
  /\ state' = [state EXCEPT ![s] = {}]
  /\ settled' = settled \cup {<<s, generation[s]>>}
  /\ owed' = owed \ {s}
  /\ Go(w, "recycling")
  /\ UNCHANGED <<generation, free, ready, holder, stop, fault, lifecycle, spawner,
                 stopper, waker, stale>>

Recycle(w) ==
  /\ worker[w].at = "recycling"
  /\ free' = Append(free, worker[w].key[1])
  /\ Go(w, "draining")
  /\ UNCHANGED <<generation, state, ready, holder, stop, fault, lifecycle, spawner,
                 stopper, waker, settled, owed, stale>>

-----------------------------------------------------------------------------
(* request_stop and join *)

\* Slip: stop does not wait for a spawn that has begun.
RequestStopBesideSpawn ==
  /\ stopper = "idle"
  /\ lifecycle' = IF lifecycle = "nobody" THEN "stopper" ELSE lifecycle
  /\ stop' = TRUE
  /\ stopper' = "notifying"
  /\ UNCHANGED <<generation, state, free, ready, holder, fault, spawner, worker, waker,
                 settled, owed, stale>>

RequestStop ==
  /\ stopper = "idle"
  /\ lifecycle = "nobody"
  /\ lifecycle' = "stopper"
  /\ stop' = TRUE
  /\ stopper' = "notifying"
  /\ UNCHANGED <<generation, state, free, ready, holder, fault, spawner, worker, waker,
                 settled, owed, stale>>

(* notify_all: the mutex of ready is not taken.                            *)
NotifyStop ==
  /\ stopper = "notifying"
  /\ NotifyAll
  /\ lifecycle' = IF lifecycle = "stopper" THEN "nobody" ELSE lifecycle
  /\ stopper' = "joining"
  /\ UNCHANGED <<generation, state, free, ready, holder, stop, fault, spawner, waker,
                 settled, owed, stale>>

(* join: when every worker has returned, stop_pending sweeps the slots.    *)
Join ==
  LET active == {s \in Slot : "ACTIVE" \in state[s]} IN
  /\ stopper = "joining"
  /\ \A w \in Worker : worker[w].at = "exited"
  /\ holder = Nobody
  /\ state' = [s \in Slot |-> {}]
  /\ settled' = settled \cup {<<s, generation[s]>> : s \in active}
  /\ owed' = owed \ active
  /\ \E order \in {f \in [1..Cardinality(active) -> active] :
                     \A s \in active : \E i \in DOMAIN f : f[i] = s} : free' = free \o order
  /\ ready' = <<>>
  /\ stopper' = "joined"
  /\ UNCHANGED <<generation, holder, stop, fault, lifecycle, spawner, worker, waker, stale>>

-----------------------------------------------------------------------------
WorkerStep(w) ==
  \/ Look(w) \/ Sleep(w) \/ Drain(w) \/ Pop(w) \/ Leave(w)
  \/ Begin(w) \/ Claim(w) \/ PollReturns(w)
  \/ Park(w) \/ Requeue(w) \/ Tell(w) \/ Finish(w) \/ Recycle(w)
WakerStep(k) == Mark(k) \/ WakeEnqueue(k) \/ WakeTell(k)
SpawnerStep == SpawnArm \/ SpawnEnqueue \/ SpawnTell
StopperStep == NotifyStop \/ Join

ExecutorNext ==
  \/ Spawn \/ SpawnerStep \/ RequestStop \/ StopperStep
  \/ \E w \in Worker : WorkerStep(w) \/ WakeForNothing(w)
  \/ \E k \in Waker : Wake(k) \/ WakerStep(k)

(* Threads run, polls return, and a call that has begun is completed.      *)
Fairness ==
  /\ \A w \in Worker : WF_executor(WorkerStep(w))
  /\ \A k \in Waker : WF_executor(WakerStep(k))
  /\ WF_executor(SpawnerStep)
  /\ WF_executor(StopperStep)

ExecutorSpec == ExecutorInit /\ [][ExecutorNext]_executor /\ Fairness

-----------------------------------------------------------------------------
(* "no concurrent resume": two workers never poll the task of one slot,    *)
(* however it is woken meanwhile.                                          *)
Polls(s) == {w \in Worker : /\ worker[w].at \in {"polling", "parking", "finishing"}
                            /\ worker[w].key[1] = s}
NoConcurrentPoll == \A s \in Slot : Cardinality(Polls(s)) <= 1

(* Where the next poll of the task in slot s may come from.                *)
Queued(key)   == \E i \in 1..Len(ready) : ready[i] = key
OnItsWay(key) ==
  \/ spawner = Doing("enqueueing", key)
  \/ \E k \in Waker : waker[k] = Doing("enqueueing", key)
  \/ \E w \in Worker : \E at \in {"requeueing", "beginning", "claiming"} : worker[w] = Doing(at, key)
WillBePolled(s) ==
  \/ {"RUNNING", "NOTIFIED"} \subseteq state[s] /\ Polls(s) # {}
  \/ "SCHEDULED" \in state[s] /\ (Queued(<<s, generation[s]>>) \/ OnItsWay(<<s, generation[s]>>))

(* A wake is never lost: a task that was woken since its last poll began   *)
(* is on the way to another one.  Left out is a slot a waker scheduled *)
(* with the key of an earlier task, see ReuseKeepsWakes.                   *)
WakeIsKept == \A s \in owed \ stale : fault \/ WillBePolled(s)

(* No worker sleeps over a queued key: as long as the executor runs one of *)
(* the workers is awake to take it, or about to be told.                   *)
WorkIsNoticed ==
  ready # <<>> /\ ~stop =>
    \/ \E w \in Worker : worker[w].at \notin {"asleep", "exited"}
    \/ spawner.at = "telling" \/ \E k \in Waker : waker[k].at = "telling"

(* Stop closes admission before the sweep: once join has returned, every   *)
(* task that was ever spawned is completed, panicked or stopped, and no    *)
(* holder of a TaskHandle waits for ever.                                  *)
StopSettlesTasks == stopper = "joined" => Spawned \subseteq settled

(* The queue has a place for every key that is put into it.                *)
NeverFaults == ~fault

(* 13-coordination-contract.md:13-14 promises "generation-protected slot   *)
(* reuse": wakes of an earlier task of a slot do no harm to a later one.   *)
ReuseKeepsWakes == \A s \in owed : fault \/ WillBePolled(s)

(* edge_runtime.rs:162-165 asserts that join returns after request_stop.   *)
JoinReturns == stop ~> stopper = "joined"

-----------------------------------------------------------------------------
(* The inductive strengthening.  A slot is free, on its way to a task or   *)
(* back, or it has a task, whose flags say who is concerned with it.       *)
SlotStateInv ==
  \A s \in Slot :
    state[s] \in {{}, {"ACTIVE"}, {"ACTIVE", "SCHEDULED"}, {"ACTIVE", "RUNNING"},
                 {"ACTIVE", "RUNNING", "NOTIFIED"}}

Recycling(s) == {w \in Worker : worker[w].at = "recycling" /\ worker[w].key[1] = s}
Arming(s)    == spawner.at = "arming" /\ spawner.key[1] = s

SlotsInv ==
  /\ \A s \in Slot : s \in Range(free) \/ Arming(s) \/ Recycling(s) # {} => state[s] = {}
  /\ \A s \in Slot : Arming(s) \/ Recycling(s) # {} => s \notin Range(free)
  /\ \A s \in Slot : Arming(s) => Recycling(s) = {}
  /\ \A s \in Slot : \A w, x \in Recycling(s) : w = x

\* Threads work on keys; those that are to be polled, or are, are of present tasks.
KeysInv ==
  /\ \A w \in Worker :
       /\ worker[w].at \in {"beginning", "claiming", "polling", "parking", "requeueing",
                           "finishing", "recycling"} => worker[w].key \in Key
       /\ worker[w].at \in {"claiming", "polling", "parking", "requeueing", "finishing"}
            => Current(worker[w].key)
  /\ \A k \in Waker : waker[k].at # "idle" => waker[k].key \in Key
  /\ spawner.at # "idle" => spawner.key \in Key
  /\ spawner.at \in {"arming", "enqueueing"} => Current(spawner.key)

\* RUNNING is the mark of the one worker that polls.
RunningInv ==
  \A s \in Slot :
    /\ "RUNNING" \in state[s] <=> Polls(s) # {}
    /\ \A w, x \in Polls(s) : w = x

\* SCHEDULED is the mark of the one key of the slot that is queued or carried.
QueuedFor(s) == {i \in 1..Len(ready) : ready[i][1] = s}
WorkersFor(s) ==
  {w \in Worker : /\ worker[w].at \in {"requeueing", "beginning", "claiming"}
                  /\ worker[w].key[1] = s}
WakersFor(s) == {k \in Waker : waker[k].at = "enqueueing" /\ waker[k].key[1] = s}
SpawnerFor(s) == spawner.at = "enqueueing" /\ spawner.key[1] = s

Carried(s) ==
  QueuedFor(s) # {} \/ WorkersFor(s) # {} \/ WakersFor(s) # {} \/ SpawnerFor(s)

CarriedOnce(s) ==
  /\ \A i, j \in QueuedFor(s) : i = j
  /\ \A w, x \in WorkersFor(s) : w = x
  /\ \A k, l \in WakersFor(s) : k = l
  /\ QueuedFor(s) # {} => WorkersFor(s) = {} /\ WakersFor(s) = {} /\ ~SpawnerFor(s)
  /\ WorkersFor(s) # {} => WakersFor(s) = {} /\ ~SpawnerFor(s)
  /\ WakersFor(s) # {} => ~SpawnerFor(s)

CarriedInv ==
  \A s \in Slot :
    /\ CarriedOnce(s)
    /\ Carried(s) => "SCHEDULED" \in state[s] \/ stopper = "joined"

\* Unless a waker scheduled it with an old key, the key is that of the task.
WakeInv ==
  \A s \in Slot :
    /\ "SCHEDULED" \in state[s] /\ s \notin stale
         => Queued(<<s, generation[s]>>) \/ OnItsWay(<<s, generation[s]>>)
    /\ s \in owed => "SCHEDULED" \in state[s] \/ "NOTIFIED" \in state[s]

\* Who holds the mutex of ready has found the queue empty.
MutexInv ==
  /\ holder # Nobody => worker[holder].at = "checked" /\ ready = <<>>
  /\ \A w \in Worker : worker[w].at = "checked" => holder = w

LifeInv ==
  /\ spawner.at = "idle" => spawner = Idle
  /\ lifecycle = "spawner" <=> spawner.at # "idle"
  /\ stopper # "idle" => stop /\ spawner.at = "idle"
  /\ \A w \in Worker : worker[w].at = "exited" => stop
  /\ stopper = "joined" =>
       /\ \A w \in Worker : worker[w].at = "exited"
       /\ \A s \in Slot : state[s] = {}

\* Every task has an answer or is there to get one.
SettledInv ==
  \A s \in Slot : \A g \in 1..generation[s] :
    \/ <<s, g>> \in settled
    \/ g = generation[s] /\ ("ACTIVE" \in state[s] \/ Arming(s))

ExecutorInv ==
  /\ ExecutorTypeOK /\ SlotStateInv /\ SlotsInv /\ KeysInv /\ RunningInv /\ CarriedInv
  /\ WakeInv /\ MutexInv /\ LifeInv /\ SettledInv
  /\ WorkIsNoticed /\ NeverFaults

=============================================================================
