# Verification of emberharmony's session core, tools and native kernels' control

TLA+ models of the parts of this repository whose correctness depends on the order in
which concurrent steps happen, the TLC configurations that check them on small
instances, and TLAPS proofs of the invariants that matter most, for every size.

* `packages/emberharmony/src` is a coding agent: a TypeScript server on one JavaScript
  thread. Its concurrency is the interleaving of `async` functions at their `await`s.
* `crates/kcoro/src` is the Rust task runtime under the voice and inference code. Its
  concurrency is that of threads over atomics, mutexes and a condition variable.
* `crates/liquid-audio` runs the models' passes: a Rust coordinator over kcoro, and behind a
  C++ bridge of two rings a dispatcher and a team of lane threads.

Paths below without a leading `crates/` are relative to `packages/emberharmony/src`.

## 1. The system

### Inventory

| component (source) | state | operations | interacts with | what is hard | what makes it correct |
|---|---|---|---|---|---|
| reader/writer lock (`util/lock.ts`) | a table `locks`: per key a reader count, a writer flag, two queues | `read`, `write`, the disposers they resolve with, `process` | used by Storage | lost wake-ups; an entry deleted while in use; starvation | a writer is alone; nobody waits on a free lock; an entry outlives its users; a queued writer gets its turn |
| JSON store (`storage/storage.ts`) | files; the write-behind overlay `pending` | `writeBehind`, `flush`, `write`, `update`, `remove`, `read`, `list` | the lock, the disk; used by the session and everything that persists | flushes that are late or fail, retries, crashes, reads of overlay and file at different times | readers see the last change; nothing old comes back; what was reported written survives a crash |
| session loop (`session/prompt.ts`) | `state()[sessionID]`: an abort controller and the waiting callers; the status; the stored messages | `prompt`, `loop`, `start`, `cancel`, `shell` | the processor, compaction, status, storage, bus | cancel and restart during a run; callers that wait on somebody else's run; exit decided on a history read earlier | one live run; the entry has a run; every caller is settled; a reply saw the message it answers |
| stream processor, retry (`session/processor.ts`, `session/retry.ts`) | the tool parts of one turn, the attempt number, the flags of its end | `process`, `partFromToolCall`, `sleep`, `delay` | model providers, tools, permissions | late tool results, abort between events, retries beside running tools | an ended turn leaves no open part; an aborted turn ends whatever its tools do |
| tools, file times (`tool/*.ts`, `file/time.ts`) | per session and file a read time, per file a chain of lock promises | `execute` of each tool, `read`, `assert`, `withLock` | permissions, questions, the processor (metadata), the disk | locks held while the user thinks; check, ask, then write | no edit overwrites one it has not seen; no tool acts unasked |
| compaction, history (`session/compaction.ts`, `session/message-v2.ts`) | summary messages | `create`, `process`, `prune`, `filterCompacted` | the loop | a compaction is itself a turn of the loop | what is hidden is covered by a finished summary |
| revert and summary (`session/revert.ts`, `session/summary.ts`) | `session.revert`, snapshots | `revert`, `unrevert`, `cleanup` | the loop's `assertNotBusy`, snapshots | check, then await, then act | no message sent after an undo was seen is removed for it |
| permissions, questions (`permission/next.ts`, `question/index.ts`) | pending requests, approved rules | `ask`, `reply`, `list` | tools ask, the user replies | one reply settles others | each request settles once, and only if a rule or the user allows |
| instances (`project/state.ts`, `project/instance.ts`) | lazily created state per directory | `state`, `dispose` | everything above | disposal during use | state is created once, disposed once |
| kcoro executor (`crates/kcoro/src/executor.rs`) | slots with a generation and a word of flags; free stack; ready queue; stop and fault flags | `spawn`, `wake` (`schedule`), the worker loop `run`, `begin_poll`, `park`, `finish`, `request_stop`, `join` | the promise of each task, scope, ring and timers that wake tasks | wakes during a poll, slot reuse, stop beside spawn and sleep | a task is polled by one worker; a wake leads to a poll; every task is answered once joined |
| kcoro ring (`crates/kcoro/src/ring.rs`) | cells, head, tail, an open flag and a waker slot per end | `try_send`, `send`, `try_recv`, `recv`, both drops | coordinator and voice threads | register and recheck against publish and close | a FIFO queue; no cell has two users; nobody parked is forgotten |
| kcoro promise (`crates/kcoro/src/promise.rs`) | a state word, a cell, a waker slot and a condition variable with their mutexes | `try_resolve`, `wait`, `poll` | the executor resolves one per task; any thread waits | resolvers that race; a value that is published while somebody goes to sleep or registers | answered once; nobody who waits is left out |
| kcoro scope (`crates/kcoro/src/scope.rs`) | per node a word of mode and epoch; one sequence of epochs | `pause`, `resume`, `cancel`, `snapshot`, `child` | no caller in this repository but its tests yet | an epoch drawn before it is installed; a snapshot over words of different moments | a thread's snapshots never go back |
| kcoro protocol (`crates/kcoro/src/protocol.rs`) | none | constructors of fixed records | bridge, coordinator | | |
| Flashkern coordinator (`crates/liquid-audio/src/compute/flashkern/coordinator.rs`) | submission slots with generation and phase, the pending pass, an edge with a waker | `submit`, `begin`, `finish`, `request_stop`, `shutdown`; the broker task and the ingress thread | kcoro ring and executor, the bridge | result stored before phase; a stop in the middle of a pass; register against signal | each call returns, and not while its pass runs |
| kernel bridge (`crates/liquid-audio/native/src/runtime/kernel_bridge.cpp`) | submission and completion ring, two doorbells, admission word, descriptor table | `submit`, `wait_submission`, `publish_completion`, `wait_completion`, `request_stop`, descriptor calls, `destroy` | coordinator, dispatcher, lane 0 | drain after a stop; reference counts and generations across threads | nothing accepted is dropped; no descriptor is released twice |
| lane team (`crates/liquid-audio/native/src/engine/flashkern_engine.cpp`) | the pass generation, a fence (arrivals, generation, park mask), a claim counter | `bridge_main`, `lane_main`, `lane_fence`, `run_stage`, `lfm_engine_free` | the bridge | lanes at different speeds, futex waits against signals | each tile runs once, between the right fences; a pass is published when nobody works on it |
| voice runtime (`crates/liquid-audio/src/runtime`, `voice/`) | audio queues, turn epochs | start, interrupt, stop | coordinator, executor | real time | an interrupted turn stays silent |
| session records (`session/index.ts`) | session, message and part records | `create`, `fork`, `remove`, `updateMessage`, `updatePart` | storage, bus, the loop | removal while a loop runs | a removed session's parts do not come back |
| bus, ids (`bus/index.ts`, `id/id.ts`) | subscribers; last id | `publish`, `ascending` | all | order of ids against order of storing | ids ascend |
| snapshots, MCP, LSP, PTY, server, ACP, share, providers, user interfaces | files, processes, sockets | requests | the outside | other programs | mostly beyond a model of this code |

How they interact: an HTTP request calls `SessionPrompt.prompt`, which stores a user
message and calls `loop`. The first caller of a session's loop owns the session's entry;
later callers push a resolver on that entry and wait. The loop reads the history from
storage, asks a model through the processor, runs tools, and stores what it gets. Any
other request may cancel the session meanwhile. Storage serialises changes of one record
by the lock; reads skip the lock when the overlay has the record. On the Rust side the
executor's workers take keys from one queue under one mutex, poll futures, and futures
are woken by other threads: the ring is one source of such wakes.

Within a turn the processor reads the model's stream. The tools that the stream calls run
beside it and ask the user through the permission and question tables, whose replies arrive
as requests of their own and may settle several of a session's requests. An abort ends the
turn and not its tools.

A native pass goes round a circle of threads: the client fills a descriptor and a slot and
sends its key through the ring to the broker, which submits to the bridge; the dispatcher
takes the submission and stores a new generation for the lanes; lane 0 publishes the
completion; the ingress takes it, resolves the slot and signals the edge on which the broker
waits; the client wakes. A stop may come at any point of the circle, and the teardown joins
the threads one after another.

`PROJECT.json` lists every component with its status, and as *hazards* the lines where an
order nobody wrote a test for matters; each names the properties that cover it, or says why
none does yet.

### Modules

| module | models | abstraction level |
|---|---|---|
| `RwLock` | one key of `util/lock.ts` | every call up to its first `await` is one action |
| `RwLockProofs` | its theorems | |
| `Storage` | one record of `storage/storage.ts`, over `L == INSTANCE RwLock`, refining `Register` | one action between two awaits; a content is the number of the change that made it |
| `Register` | the promise of the store for one record: a register with a saved copy | abstract specification |
| `StorageProofs` | its theorems, over those of `RwLock`, the refinement included | |
| `SessionLoop` | one session of `session/prompt.ts`, with what the loop sees of processor, compaction and status | one action between two awaits; a message is an id, a role, a task, a finish reason |
| `Revert` | `session/revert.ts` on the messages of one session, with the requests, runs and summaries of `prompt.ts` that change them | one action between two awaits; a message is an id and a role |
| `SessionProofs` | theorems about `SessionLoop`, `Revert` and both in `MCSession` | |
| `Permission` | `permission/next.ts`: requests, rules, approvals, replies | operators for `Turn`; patterns are concrete |
| `Question` | `question/index.ts` | operators for `Turn` |
| `FileTime` | `file/time.ts` for one file; a time is a version | operators for `Turn` |
| `Turn` | `session/processor.ts` and the tools `edit`, `write`, `bash`, `question`, composing the three above | one action between two awaits |
| `TurnProofs` | its theorems | |
| `Executor` | `crates/kcoro/src/executor.rs` | one atomic operation or critical section is one action |
| `ExecutorProofs` | its theorems | |
| `Channel` | the promise of the ring: a bounded queue | abstract specification |
| `Ring` | `crates/kcoro/src/ring.rs`, refining `Channel` | one atomic access, cell access or look at a waker slot is one action |
| `Promise` | `crates/kcoro/src/promise.rs` | one atomic operation, cell access or look at the waker slot is one action |
| `Scope` | `crates/kcoro/src/scope.rs` | one atomic operation is one action |
| `KcoroProofs` | theorems about `Ring` (the refinement included), `Promise` and `Scope`, and all of `MCKcoro` | |
| `Bridge` | `kernel_bridge.cpp` | operators for `Coordinator`: the atomic steps of each call |
| `Crew` | the promise of the lane team to dispatcher and owner | abstract specification |
| `Team` | `flashkern_engine.cpp`: lanes, fence and claims, refining `Crew` | one atomic access is one action |
| `TeamProofs` | its theorems, the refinement included | |
| `Coordinator` | `coordinator.rs`, the client, dispatcher and owner, over `Bridge` and `Crew` | steps of one thread that no other can tell apart are one action |
| `CoordinatorProofs` | its theorems, and those of `MCKernel` | |
| `MC...` | instances for TLC: names of tasks and threads, symmetry sets; which parts a run puts together | |

Five MC modules put independent parts in one state space, so that one run answers one
kind of question: `MCWaiting` the lock and the requests of a session, `MCSession` a session's loop and its undo,
`MCServer` these two and a record of the store, `MCKcoro` the ring, the
executor, the promise and the scopes, `MCKernel` the two sides of the lane team's contract. A
behaviour is of one part, chosen at the start; the other parts keep their initial states.

Definitions marked `\* Slip:` are faulty variants of an operation (a dropped guard, a
forgotten reset). No specification uses them. They document which slip each property
catches, and `PROJECT.json` pairs them with the properties.

### How state and actions correspond to the code

*RwLock.* `present`, `readers`, `writer`, `waitingReaders`, `waitingWriters` are the table
entry and its fields, `section[t]` is what caller `t` holds or waits for. `Read`, `Write`
and `Dispose` are the code's functions; `StillHeld`, `WakeWriter`, `WakeReaders` are the
three exits of `process`. `Current...` is `get(key)`: a missing entry is created fresh.
The waiting readers are a set, since `process` wakes them all.

*Storage.* `disk` is the file (0: none), `pending` the overlay's entry. A call is a process
with `pc`; each `await` is a place where others may step. `Rename` is the moment a file
changes, a step before its caller resumes. The lock steps are conjoined: `FlushStart` is
`pending` looked at and `Lock.write` called in one step, as the code does. `WriteFault`,
`FlushFault` and `UnlinkFault` are the failing disk: an error that reaches the caller, one
that is retried, one that is swallowed. `Crash` loses everything but `disk`. The variables
`latest`, `reported`, `gone`, `durable`, `since`, `left` record the past for the properties.

*Register.* `now` is what the store says the record is, `file` what a restart finds, `unsaved` what may
still reach the file. Under the mapping of `Storage`, a change of the overlay is `Change`, a rename
`Save`, the entrance of `remove` is `Remove` and its `unlink` `Erase` or `EraseFails`; the lock, the
retries and the clearing of the overlay are stutters. `seen` makes a read linearizable: it answers
with what was current at some moment since it began, or with a content whose removal failed.
`list` is no operation of the register (finding 2).

*SessionLoop.* `owner` and `callbacks` are `state()[sessionID]`, `aborted` the controllers
that were aborted, `status`, `messages` and `clock` the status table, the stored messages and
the id generator. A request is a process with a `phase`. `ClearEntry` is `cancel`, both
as a route and as the deferred call of a run that ends, which names the session and not the
run; so a run cancelled earlier and ending late clears the entry of a newer run, as in the
code. What a model answers is a choice in `StreamEnds`, `SummaryEnds` and `StreamFails`.
"busy" stands for "retry" as well. Sessions are never reverted here.

*Revert.* `record` is `session.revert`: the first message undone. `Revert`, `RevertLists` and `Mark` are
`revert`, `Unrevert`, `UnrevertOpens` and `Restore` are `unrevert`, each up to its next await. `Open`,
`List`, `Remove` and `Forget` are `cleanup`, one removed message at a time, with the record the
request read in `seen`; the prompt, the summarize route and the shell command differ in when
they take the entry (`busy`). A run is reduced to the messages it stores: the reply when the turn
begins and once more when it ends, and the user message that a summary nobody waits for stores again.
`number`, `since` and `returned` record the past for `NewMessagesStay`. Messages of a partial undo
are removed whole, as in the code, where the branch for parts finds nothing (see the observations).

*Turn.* A call has its stored part (`part`), the processor's own copy of it (`entry`, that is
`toolcalls[id]`), the place of its tool's `execute` (`exec`) and the version its edit was
computed from (`base`). `phase` is where the session's `process` is: reading the stream, in
the request about a repeated call (`doom`), in the wait before a retry, in the sweep, ended.
`toolcalls` outlives a retry, as in the code: `madeIn` says to which attempt a call belongs, and
`Live` that the stream being read is that attempt's, so that events about the call may still come. `toSweep` are the parts the
sweep read and has yet to settle. The stream's provider is the environment: events come in
any order the SDK allows, and it ends an aborted stream. `Start` is the SDK calling
`execute`, which happens as soon as the call is parsed, before or after the processor's own
`tool-call` event. A tool that failed because it was refused is `rejected` if the error is one of
those that block (`RejectedError` of permission or question), else `failed`. `of`, `kind` and `command` choose what each call is; they
never change. `granted` and `reopened` record the past for the properties.

*Permission.* `rules` is what `findLast` over agent and session rules yields for a pattern, and
`approved` are the patterns that the approvals match: an approval "edit *" or "git *" is the
set of patterns it stands for. `Ask` stops at the first pattern that is not allowed, as the
loop in the code does. `Others` are the requests of the same session that a reply cascades to.

*FileTime.* A time is the version current at that time. `locks` is the chain of promises of
one file: the first has the lock, each of the others waits for the one before.

*Executor.* `generation`, `state`, `free`, `ready`, `stop`, `fault` are the code's fields;
`state` is the set of flags in the word. `holder` is the mutex of `ready` kept from the
worker's test of the stop flag to its wait. `lifecycle` is the lifecycle mutex, between
spawn and stop. `enqueue` is two steps, since the notification follows the release of the
mutex. A compare-exchange loop is one step: a failed exchange changes nothing and is
repeated with the value it met. A future's poll is left open; a wake may come at any time
from any thread that has the key.

*Ring.* The variables are the fields of `Inner`, and per thread its place and the value it
carries. The mutex of a waker slot is held across the two rechecks of a parked poll
(`senderLock`, `receiverLock`). A future dropped while parked leaves its waker registered
(`SendCancel`, `RecvCancel`), and a later wake of it is spurious. A parked future may be polled
at any time. The orderings are acquire and release at the points where one end hands cells to
the other, and the mutex orders the register/recheck handshake, so sequentially consistent
steps are the executions the properties depend on.

*Promise.* `stage`, `answer`, `registered` are `state`, `value` and `waker` of `Inner`; the waker's
mutex is `slotHeld`, since a resolver looks into the slot in one step and only a poll holds it
over two; the mutex of `wait` is `waitHeld`. A resolver's value is the resolver itself, so an
answer says whose it is. `told` are the wakers invoked since the last poll began. A poll borrows
the promise exclusively, so it begins only when no thread is in `wait`; `AskStirs` is the
condition variable's spurious wake-up. `is_ready` changes nothing and is left out.

*Scope.* `word` and `sequence` are the fields of `Node` and `Domain`. A controller is in
`transition`, with the word it saw and the epoch it drew; a failed exchange decides anew on the
word it met and draws again. A reader walks up from its node; `last` is the snapshot it took
before, for the property only. Any thread may transition any node at any time.

*Bridge.* The cursors count from 0 as in the code, cells are taken modulo the capacity. Of a
doorbell's value only matters whether it is the one its waiter loaded: `rung` holds the
doorbells for which it is not. A waiter loads, looks, and waits (`Load`, `Look`, `Wait`);
`Drained` is the cancellation test of the two waits. A failing publication or release aborts
the process in every caller, and sets `aborted` here.

*Coordinator.* `pc` is where each of five threads is; the lanes are a sixth through `Crew`.
`slots`, `freeSlots`, `pending`, `stopping`, `fault` are the fields of `Inner`. `finish` is three
steps, since the result, the phase READY and the notification are visible one after the other.
`queue` is the ring, `waker` and `woken` the broker's task: what `Ring` and `Executor` show.
`signalled` says that the edge's generation differs from the one the broker took.
One client makes the passes, one after another, as `pass_lock` and the pass claim require.

*Team.* `awake` and `roused` hold the lanes whose view of the dispatch word or the fence word
is out of date; a futex wait of such a lane returns at once. `stage` counts a lane's fences in
the pass. `NewGeneration` and `Retire` are the dispatcher's and the owner's stores, allowed
when `Crew` allows them, which `Coordinator` is shown to respect (`CrewContract`). The final
fence has an empty serial section: `Serial` resets the counter at the others only.

## 2. Checks

| run | properties | instance | what it shows |
|---|---|---|---|
| `waiting` | `IInv`, `MutualExclusion`, `NoLostWakeup`, `WriterNotStarved`, `EveryRequestSettles` | lock: 4 callers, endless; session: 2 requests, cancels | the lock is right, a queued writer gets its turn, every request to a session settles |
| `server_safety` | session: `SessionSound`, `OneLiveRun`, `WaitingIsListed`, `BusyWhileLooping`, `NewMessagesStay`; store: `IInv`, `LastChangeIsVisible`, `ReadIsFresh`, `DurableIsOnDisk`, `UpdateOnLatest`, `OverlayIsCarried`, `ImplementsRegister` | loop: 2 requests with any task, cancels; undo: 2 requests, 1 client, 2 undos and any redos; store: 3 calls of any kind, disk errors, crashes | one live run, no forgotten caller, no new message removed with what was undone; no stale read, update or flush, no acknowledged change lost, nobody forgets the overlay |
| `session_response` | `ResponseSawTheMessage` — **violated** | 2 prompts, no cancel | finding 1 |
| `tools` | `IInv`, `AskedOrAllowed`, `EndedPartsAreSettled`, `EditsKeepEdits`, `TurnEnds` | 2 calls, 1 or 2 sessions, 2 attempts, 2 outside versions | no tool acts on what was neither allowed nor granted, no open part, no lost edit, aborted turns end |
| `tools_write` | `WritesAreSerialized` — **violated** | the same | finding 6 |
| `tools_deny` | `DeniedIsBlocked` — **violated** | the same | finding 7 |
| `storage_list` | `ListIsFresh` — **violated** | 3 calls | finding 2 |
| `kcoro` | all: `Sound`; ring: `CellHasOneUser`, `EndsAreWoken`, `Implements`, `EndHidesNothing`; executor: `NoConcurrentPoll`, `WakeIsKept`, `WorkIsNoticed`, `StopSettlesTasks`; promise: `AnsweredOnce`, `NobodyIsLeft`; scope: `SnapshotsAdvance` | ring: 2 cells, 4 sends; executor: 2 slots, 3 tasks, 2 workers, 1 waker, stop and join; promise: 2 resolvers, 2 waiting threads, 2 wakers; scope: 2 nodes, 2 controllers, 1 reader, 3 epochs drawn | the ring implements `Channel`; exclusive polls, no lost wake, no slept-over work; one answer that reaches everybody; snapshots go forward |
| `executor_reuse` | `ReuseKeepsWakes` — **violated** | 1 slot, 2 tasks, 2 workers, 2 wakers | finding 3 |
| `executor_stop` | `JoinReturns` — **violated** | 1 slot, 1 worker | finding 4 |
| `kernel` | `BothSound`, `BorrowEnds`, `NothingBreaks`, `TilesRunOnce`, `CrewContract`, `NobodyElseHangs` | 3 passes, 1 slot, 1 cell, 1 descriptor of 2 generations; 2 lanes, 2 stages of 2 tiles | memory is borrowed for the call only, nothing aborts, each tile runs once, no thread hangs but where a lane (finding 5) or the executor (finding 4) does |
| `team_fence` | `EveryPassLands` — **violated** | 2 lanes | finding 5 |

`IInv` of `waiting` contains `EntryOutlivesItsUsers`. Three properties join inductive invariants,
types included, so that TLC and the prover check the same formula: `SessionSound` is `ControlInv`
and `HistoryInv` of the loop and `RevertInv` of the undo; `Sound` is `IInv` of the ring,
`ExecutorInv`, `PromiseInv` and `ScopeInv`; `BothSound` is `PassInv` of the coordinator and `IInv` of
the lanes. All are proved (section 3).
`CrewContract` is both halves of the refinement. On one side `CrewIsKept`: the dispatcher and
the owner of `Coordinator` take only the steps that `Crew` allows them. On the other
`ImplementsCrew`: under a mapping from the lanes' places, every step of `Team` is a step of
`Crew` or a stutter, and lanes work only while the crew runs.

### Bounds, and why they are enough

* `Task = {t1..t4}` in `waiting`: a holder, a queued writer, a queued reader and a newcomer
  exist at once. Calls are repeated for ever; nothing is bounded.
* The requests of `waiting` carry no tasks (`Kinds = {"none"}`) to keep the graph small; the
  loop still adds its own compactions. Two requests and every task are in `server_safety`.
* Three calls of the store in `server_safety` are a flush, a writer, an update or a remove that supersedes
  it, and a reader or another writer beside the two; the proofs of section 3 are for any number. A flush is
  retried three times; the bound of the disk errors, `MaxFaults = 4`, lets it give up. A
  crash may happen at any moment and any number of times; a call that has not
  started then runs against the restarted store. `Init` starts with or without a file.
* Two requests are a run and a second caller that meets it, cancels included. With one cancel
  between them they are also a cancelled run that winds down beside a new one.
  `MaxId = 3` bounds the turns a run adds: a model that never stops asking for tools is cut
  off there, which is also what makes `EveryRequestSettles` meaningful (a model that calls
  tools for ever keeps its caller waiting in the code as well).
* In the undo part of `server_safety` the history starts with one finished turn. Two requests are the
  two cleanups of one undo that `NewMessagesStay` is about, one of them late; two undos are a second one
  over the first, before or after its point; `MaxMessage = 4` leaves a reply to the first of them.
* In `tools` two calls meet in each way that matters: an edit that creates the file beside a
  write, two commands that share a pattern, a question beside a command, and two edits of two
  sessions. `MaxAttempts = 1` is one retry, so that tools of a failed attempt meet the next; the
  code itself retries as long as the error is one that a retry can mend (`session/processor.ts:355`).
  `MaxVersion = 2` lets an outsider change the file once before the tools do. `Steady = {s2}`
  spares the second session the cancels and failures, `Repeats = {c2}` makes the second call
  one that asks about a loop.
* `MaxSpawn = 3` on two slots forces one slot to be used twice; the queue holds two keys, so
  it can be full. Two workers suffice for a second poll beside the first.
* `MaxSent = 4` with two cells wraps the ring's indices twice. Both ends park, are
  cancelled, woken and dropped in every order. Proofs cover every capacity and every number of sends.
* Two resolvers race for a promise; two threads in `wait` are one that sleeps and one that is
  about to; two wakers make a poll replace the waker of the one before. Nothing is bounded.
* Two scope nodes let transitions meet on one of them and snapshots cross a change of the other;
  `MaxEpoch = 4` are three transitions that drew an epoch, the failed ones included. Deeper trees
  and more epochs are left to the proof.
* In `kernel`, one slot, cell and descriptor make every resource scarce: a late release or a late
  READY meets the next pass. `MaxGeneration = 2` and `MaxPass = 3` retire a slot and a descriptor
  and make a pass fail for want of them. Two lanes are a fast one and a slow one; two
  stages of two tiles have a fence within the pass and lanes that split a stage. With three passes
  lanes meet three generations.

### Fairness, and what justifies it

* `RwLock`: `WF(Dispose(t))`: holders use the lock through `using` or an explicit dispose in
  the same block, so a section ends.
* `Storage`: `WF(Step(t))`, and `SessionLoop`: `WF(LoopStep(p))`: promises are resumed by the event loop; timers
  fire; disk calls, model calls, tools and child processes end. The arrival of requests, of
  cancels and of status reports is not fair.
* `Executor`: weak fairness of each worker, each waker that has begun, the spawning and the
  stopping thread: the operating system runs threads. Spurious wake-ups of the condition
  variable are possible and not fair.
* `Ring`, `Promise` and `Scope` have safety only.
* `Turn`: the event loop resumes a session's `process` when what it awaits is there: a retry's
  delay is over, the request about a loop is answered, the aborted stream ends, a part is
  stored. The user, the provider's events and the tools' steps are not fair: `TurnEnds` holds
  though no tool ever returns and nobody ever answers.
* `Coordinator`: weak fairness of each thread, with two exceptions that the findings impose. Of the
  lanes only what a lane does alone is fair (`LaneAlone`: to begin a pass, to publish it, to ring); that a
  pass lands and that a retired lane leaves is not, since a lane may sleep at a fence for ever (finding 5).
  Of the owner every step is fair but the return of the executor's `join` (finding 4).
  `NobodyElseHangs` then says that whoever hangs, hangs there. No pass has to be begun, nor the engine
  to be dropped or stopped from outside. `Team`: weak fairness of each lane and of the signal that
  follows a store.

### Deadlock

Deadlock checking is off where behaviours end: requests, calls and passes run once, the ring's
ends are dropped, the executor is joined, the engine is freed. Whether somebody is stuck is
asked by properties instead (`WaitingIsListed`, `EveryRequestSettles`, `WriterNotStarved`, `WorkIsNoticed`,
`EndsAreWoken`, `NobodyIsLeft`, `JoinReturns`, `TurnEnds`, `NobodyElseHangs`, `EveryPassLands`).

### Findings

1. **`ResponseSawTheMessage`.** The last step of a run resolves every waiting caller with the
   newest assistant message (`session/prompt.ts:640-646`). In the trace the turn of the first prompt
   ends in "stop" (a rejected tool call or an error, `session/processor.ts:408-410`), so the run leaves the loop
   (`session/prompt.ts:628`). Before it answers, a second prompt stores its message, finds
   the run's entry and parks a resolver there (`:266-270`). It gets the first prompt's reply, and no model
   call was given its message. The documentation of `POST /session/:id/message` says "Send a message and
   wait for response". A prompt whose id was taken before the reply's, and which is stored after the loop last read the
   history, comes to the same without a stop: the exit test takes it for answered (`:301-305`).
2. **`ListIsFresh`.** `list` scans the directory and then adds the overlay's keys
   (`storage/storage.ts:323`); a flush in between hides a record from both. The comment
   there promises lists that are read-after-create consistent.
3. **`ReuseKeepsWakes`.** `schedule` compares the generation and changes the flags afterwards
   (`crates/kcoro/src/executor.rs:429`). If the slot is finished and spawned again in between,
   the old waker marks the new task as scheduled and queues the old key, which `begin_poll`
   discards; every later wake of the new task finds SCHEDULED and returns.
   The contract promises generation-protected slot reuse.
4. **`JoinReturns`.** `request_stop` sets the flag and notifies without the mutex of the queue
   (`crates/kcoro/src/executor.rs:283`). Between a worker's test of the flag and its wait
   both are missed, and `join` waits for that worker for ever.
5. **`EveryPassLands`.** The last lane at a fence stores the new generation and only then takes
   the park mask (`flashkern_engine.cpp:800-801`). A lane that the store let through may reach
   the next fence and park there in between: its bit is taken with the old ones, it is
   woken, sees its own fence closed and sleeps again without a bit (`:817-820`). The next last
   lane finds the mask empty and wakes nobody. The audit of the migration says that the fence
   closes the lost-wake race. The trace is a pass of two lanes that is never published.
   The run `kernel` states what holds all the same: safety, and that nobody else hangs.
6. **`WritesAreSerialized`.** The write tool asserts the file's read time, asks the user, and
   writes without the file's lock (`tool/write.ts:32`), so it overwrites what an edit wrote
   meanwhile, although `file/time.ts` asks every tool to do this under the lock.

7. **`DeniedIsBlocked`.** `ask` goes through the patterns of a request and asks the user at the first one whose
   rule says so (`permission/next.ts:131-157`); the patterns behind it are not looked at, and a reply
   of "once" grants the request whole. A command line of a command to ask about and a denied one runs when
   the user allows it, although the documentation of permissions says that "deny" blocks the action.
   What does hold is `AskedOrAllowed`: a granted request has no denied pattern before the one it was asked for.

Observations that contradict no line of the repository, met while modelling:

* `finish` stores a slot's result under its lock and the phase READY after it
  (`coordinator.rs:257-260`). The client may see the result, free the slot and use it again before
  READY is stored over FREE or QUEUED: the next `acquire` then faults, or the broker skips
  the job and its client waits until the shutdown. The variable `late` marks it, and `NothingBreaks` and
  `NobodyElseHangs` hold up to it.
* Two snapshots with the same epoch may differ in their control: a transition that drew its epoch
  early may install it on another node of the line later, under the epoch that the newer one
  had already brought. An epoch orders snapshots and does not identify them.
* What `cleanup` removes is decided by a record read awaits before (`session/revert.ts:97-99`). `NewMessagesStay` says
  what is safe. Not safe is a prompt that had read the session before the undo was recorded: its
  message, and the run on it, are removed by the next request. Nor is anything when the point has come back:
  after an `unrevert` that met a cleanup under way, the cleanup removes the restored messages all the
  same; and a summary or a cancelled run that ends late stores a removed message again
  (`session/processor.ts:281`, `:405`). A cleanup also drops a newer undo with the one it read (`revert.ts:119`).
* Of a message that is undone from a part on, `cleanup` removes everything: the message is behind the
  split (`revert.ts:99`), and its part is looked for in the message before (`:105-108`).
* The requests of a cancelled turn stay pending: answered later, the tool of the cancelled turn still
  runs. Only `bash` looks at the abort signal then, after it has started its process.
* The request about a repeated call is awaited in the loop that reads the stream
  (`session/processor.ts:165`), which no abort interrupts; hence the exception in `TurnEnds`.
* Metadata looks at the processor's copy of a part, which the sweep does not change
  (`session/prompt.ts:678`): a late call reopens a part for good (`reopened`).
* `approved` is shared by all sessions (`permission/next.ts:200`), and the cascade of "always"
  ignores rules that deny.
* After its own write a tool stamps the time of its `FileTime.read` call, and so also vouches
  for an outsider's change that came between its write and the stamp.

## 3. Proofs

All theorems are about a specification (`Spec`, `TeamSpec`, `ExecutorSpec`, ..., and those of the MC
modules that put parts together) with every constant arbitrary, under the named assumptions of
the modules: a finite set of tasks, slots or calls, markers such as `NoOne` and `NoRecord` that are no
value of their kind, a capacity of at least 1, bounds that are numbers. `Sizes`, where a
theorem names it, says the same of the lanes, stages and tiles of `Team`. Nothing else is assumed.

*RwLockProofs.* `IInv` is inductive. Mutual exclusion alone is not: it needs that the
counter and the flag of the entry are what the tasks are doing (`EntryMatchesTasks`: the count
is the cardinality of the readers, the queues hold the waiting tasks, each once), and that
a fresh entry is equal to the old one (`CurrentIsEntry`, by `EntryOutlivesItsUsers`). From it:
`WritersAlone`, `WakeupsNotLost`, `OneEntryPerKey`.

*StorageProofs.* `IInv` of `Storage` is inductive for any number of calls, disk errors and
crashes. What the lock does is taken from `RwLockProofs` through a second instance, `LP`: a lock step
keeps the lock's invariant (`LockStepKeeps`), and whoever is inside is alone (`Alone`). Above it
`NumbersInv` says that the overlay holds the last change or nothing, and four invariants say what a
call knows where it stands: a writer, that its content is newer than the file and than every removal
(`WriterOK`); a waiting reader, that the file is fresh or will be when it gets the lock
(`ReaderOK`); an update, that only a writeBehind came between (`UpdateOK`); and that only
flushes count attempts (`AttemptOK`). The steps are grouped by what they do to the record: nothing
(`QuietKeeps`), a change of the overlay, the rename of the file, the two halves of a removal, the end of a
call, a crash. From it follow the invariants of the store in `server_safety`, and that no flush turns
the file back (`NoStaleFlush`). `StorageImplementsRegister` is the refinement: `ContentsInv`, inductive
under `IInv`, keeps contents and removals apart (the file is older than the removal under way, a reader
has read no removal's number), and each group of steps is an action of `Register` or a stutter
(`OverlayImplements`, `RenameImplements`, ...). `ListIsFresh` is no part of it:
list takes no lock, and the property fails (finding 2).

*SessionProofs.* Three inductive invariants. *Control*: the strengthening of `ControlInv` is that
callbacks hold only callers that wait (`CallbacksWait`) and that only runs still on are aborted
(`AbortedAreRunning`). The actions fall into six kinds of step, each a lemma: a run that goes
on, a request that is not running, start, wait, the end of a run, a cancel. From it:
`OneLiveRunAlways`, `WaitingCallersAreHeld`, `LoopingIsBusy`. *History* (`HistoryInv`, theorem
`History`): the id of a prompt that is taken and not yet stored is no message's and nobody else's
(`AskedInv`), so that no id is given twice (`IdsAreUnique`) although two requests store theirs in
either order; the reply of a run is an assistant message that is in the history (`ReplyInv`), so
that finishing it finds one. *Undo* (`RevertInv`): `NewMessagesStay` alone is not inductive, since a
cleanup reads the record, the history and each message at different moments. The invariant
says of every undo that is in the record or in a request's hands that its point is gone or the
record still covers it (`UndoneOrGone`), and that whoever writes, or stores again, after seeing it
writes when the point is gone (`WrittenAfter`). *Gone* is removed, or come back through a redo or
a late summary, and stays so (`GoneStays`), because the id of a message that is yet to be stored is in
nobody's hands (`NewIdsAreNew`): not in the history, not the point of an undo, not in what a
summary or a client has read. Hence `NewMessagesAreKept`; `SessionIsSound` is all three for `MCSession`.

*TurnProofs.* `IInv` of `Turn` is inductive for any number of sessions, calls, commands and
attempts. Each of its parts stands behind one theorem. `RequestsInv`: a request waits only while
its asker does, what a request asks about comes behind patterns that are allowed (`AskedInTurn`), and a tool that
may act was allowed, hence `NoToolActsUnasked`; the hard steps are
the cascades, where another call's reply allows a tool (`AnswersSettlePending`), and approvals that grow while an allowed tool
runs (`AllowedStays`). `LockInv`: the queue of the file's lock holds exactly the calls
between `Queue` and `Release`, each once, the first of them alone is past the entrance, so no other
edit can come between its check and its write (`HolderIsFirst`, `UnlockTyped`), hence
`NoEditIsLost`; `KindsInv` says which calls never come near the lock. `PartsInv`: what the sweep
has yet to settle, hence `NoPartIsLeftOpen`. The proof goes by variables: frame lemmas
(`ProcessFrame`, `EventFrame`, `ToolFrame`, `WorldFrame`) say which variables each group of actions
leaves alone, and each conjunct is then proved for the groups that touch it.

*TeamProofs.* `IInv` of `Team` is inductive for any number of lanes, stages, tiles and passes
(`Sizes`). Its heart is `TogetherInv`: a pass is a sequence of fences, and `Due(l)` is the next one
lane `l` has to reach; all lanes are always due at the same one, which is that of the last
generation or of the one before. `FenceInv` counts the lanes that wait at it, so the last to arrive
finds all the others there (`ArriveKeeps`), and opens it for all at once (`SerialKeeps`). `ClaimInv`
says of every tile whether it is claimed, running or has run once, hence `TeamTilesRunOnce`.
`LastInv` says that lane 0 is in the last pass that was ordered. `TeamImplementsCrew` is the
refinement: a lane's first look at a new generation is `Start`, lane 0's crossing of the last fence
is `Land`, the last lane's leaving is `Go`, and the other steps inside a pass are stutters.

*ExecutorProofs.* `ExecutorInv` of `Executor` is inductive for any number of slots, workers, wakers
and tasks. `NoConcurrentPoll` alone is not: that begin_poll meets no other poller follows from the flags,
and what the flags say depends on everybody who may set one. So the invariant says of each slot whom
its flags stand for: `RUNNING` for the one worker between the claim and the end of the poll
(`RunningInv`), `SCHEDULED` for the one place where the slot's key is, in the queue or with one thread that
puts it in or took it out (`CarriedInv`), no flag for a slot that is free or on its way to a task or
back (`SlotsInv`). Since a slot is in the queue at most once, a queue as long as there are slots
always has room (`QueueHasRoom`), hence `ExecutorNeverFaults`, also when old keys are queued. `WakeInv`
says that the key is the present task's, but for the slots in `stale` (finding 3), `SettledInv` that a
task has an answer or its slot will give it one. Steps that are of no concern to any slot are
dealt with at once (`QuietKeeps`); the others have a lemma each. Mutex, lifecycle and sleepers
come after that (`WorkerRest` and its kind): a worker sleeps only as the holder of the mutex of an
empty queue.

*KcoroProofs.* `IInv` of the ring is inductive: the window of written cells and what each end has
found out about the other's counter (`WindowInv`), where flags and mutexes say the threads are
(`FlagsInv`), the register/recheck handshake (`HandshakeInv`), and what the receiver's poll
knows of the tail (`PollInv`). The arithmetic of `% Capacity` is in lemmas: indices of one
window are distinct. From it: `CellsAreNotShared`, `NobodyIsForgotten`, `EndIsHonest`, and
`RingImplementsChannel`: under the mapping `queue <- InFlight` the publication is `Put`, the
freeing of a cell is `Get`, and every other step is an end's closing or a stutter. `PromiseInv` is inductive for any number of resolvers, waiting threads and wakers. Its
parts: how far the winner is, the state says (`ClaimInv`); the mutexes are held by who is inside
(`HeldInv`); a thread that is about to sleep holds the mutex the winner needs to publish, so it has
missed nothing (`SleepInv`); the waker of a pending poll is in the slot, or in the winner's hand,
or has been invoked (`WatchInv`); an answer is the published value (`GotInv`). Hence `OneAnswer` and
`NobodyWaitsForNothing`. `ScopeInv` is inductive for every tree and any number of transitions
and readers. `DrawnInv` makes a word's epoch grow with each exchange and a canceled word stay
(`ControllerKeeps`). `SeenInv` says that what a reader has seen is on its node's `Line`, and that as
long as a walk has not met the last snapshot's epoch, or a canceled word that it saw, they are
still before it (`VisitKeeps`). `Line` is defined without recursion, as what every upward-closed
set around the node has; `LineSplits` is what an induction along it would give. Hence
`NoSnapshotGoesBack`. `KcoroSound` joins the four, the executor's from `ExecutorProofs`, for `MCKcoro`.

*CoordinatorProofs.* `PassInv` is inductive for any numbers of slots, cells, descriptors,
generations and passes. `BorrowEnds` and `NothingBreaks` are about places far apart, the client on one
side and lanes, rings and the edge on the other, so the invariant follows a pass around the circle
in three currencies. The *key* of the submission is in one place at most: in the queue, with the
broker, pending, or with who is about to store its result, and only while the client
asks for it (`TokenInv`). The *record* in the bridge is one at a time (`RingsInv`), is of the client's
pass, and is with the dispatcher or with the crew, never both (`RecordInv`, `HolderInv`); it
exists only while the pass is pending. The *descriptor* is live only while the client holds it,
with one reference of its own and one for the record (`DescriptorsInv`), which is why neither release
is the last too early. `AdmissionInv` counts who is inside the bridge, so that a wait is
cancelled only when nobody can still submit: an error is never answered under a running
pass. `BrokerInv` and `IngressInv` say what the two threads found out and have not acted on,
`SlotsInv` keeps the client's slot off the free list, up to a late READY, and `OwnerInv` is the order of the
teardown. The proof has one lemma for each part (`TokenNext`, `RecordNext`, ...), one step per action that touches
it, and frame lemmas (`TokenStays`, `DescriptorsStay`, `SlotsStay`) for the rest. From it, for
`MCKernel`: `KernelSound` with the lanes' invariant from `TeamProofs`, `KernelBorrowEnds`, `KernelNothingBreaks`,
and `KernelKeepsContract`, which has the dispatcher's and the owner's half of the contract from `PassInv`
(`CrewStep`) and the lanes' half from `TeamImplementsCrew`.

Model-checked only: the liveness properties (`WriterNotStarved`, `EveryRequestSettles`, `TurnEnds`,
`NobodyElseHangs`), since fairness and `ENABLED` are out of the prover's reach, and the seven properties
that the code violates. Every invariant, action property and refinement of the passing runs is proved.
What `Coordinator` takes from kcoro is proved for the ring, the executor and the promise, up to
finding 3; that `join` returns it does not rely on (finding 4).

## 4. Plan

Done, in this order, so that the central behaviour came first: `RwLock`; `SessionLoop`, and `Revert`;
`Storage` over `RwLock`; `Executor`; `Channel`, `Ring` and the refinement; `Promise` and `Scope`;
`Bridge`, `Crew`, `Team`, and `Coordinator`; `Permission`, `Question`, `FileTime` and `Turn`; all
with their proofs.

Worth doing next: the snapshots and files of an undo (`snapshot/`), the removal of a running session, with
the parts of messages in the history of `SessionLoop`; `project/state.ts` and the disposal of an
instance; the voice runtime's queues over `Coordinator`. And proving more: that `Coordinator`
with its bridge implements a call that borrows, runs and returns; an abstract specification of a
session, as a queue of requests and their answers, that `SessionLoop` implements as far as finding 1 allows.

## 5. Not modelled, and why

* `storage.ts:24-159`, the one-time migrations: they run before anything else and once.
* Time: delays and back-off are steps that may be late. `Retry-After` parsing is left out.
* The counters of the executor's `stats`, its 32-bit generation's wrap (2^32 tasks in one slot)
  and the ring's 64-bit counters' wrap.
* The text of messages, parts and prompts, model selection and tool schemas: data
  that no property here tells apart.
* Tools other than edit, write, bash and question, though not all of them only read: `apply_patch` writes
  files without the file's lock or an assertion (`tool/apply_patch.ts:176-215`); `batch` runs other
  tools and stores their parts itself (`tool/batch.ts:63-98`); `read` stamps the time at which a
  session read a file, so that in the model every session has read the file when it starts; `task` prompts another
  session. The rest read, or run in other programs. Snapshots, MCP, LSP and PTY clients: what they do is done by
  other programs.
* The files, snapshots and diffs of an undo or a summary; instances and their disposal: see the plan.
* kcoro's protocol: records of fixed size without behaviour. The drop of a promise or of its
  value, and the wrap of a scope's 62-bit epoch.
* The refusal of a pass when no coordinator is attached (-ENOTCONN, `flashkern_engine.cpp:2019-2020`): the
  descriptor is created and released as in every pass and nothing is submitted. What a pass computes, the building of model contexts between passes, the release callbacks of
  descriptors (no pass uses one) and the deadlines of the bridge's waits (no caller sets one).
* HTTP, ACP and sharing: requests are routed to the operations above.
* The voice runtime: real-time behaviour of audio threads.
* Generated and vendored code (`sdks/`, JavaScript clients, themes, localisation).
