---------------------------- MODULE SessionLoop ----------------------------
(***************************************************************************)
(* The agent loop of one session: prompt, loop, shell and cancel of        *)
(* packages/emberharmony/src/session/prompt.ts, with the parts of the      *)
(* status table and of compaction.ts that they drive.                      *)
(*                                                                         *)
(* The code between two awaits runs without interruption and is one        *)
(* action.  A request is a process: it stores its message, then runs the   *)
(* loop itself or waits for the loop that is running.  Model output is     *)
(* reduced to how a turn ends.  The session is never reverted here, so     *)
(* SessionRevert.cleanup returns at once; see module Revert.               *)
(***************************************************************************)
EXTENDS Naturals, FiniteSets

CONSTANTS
  Request,    \* the requests: prompt(), the summarize route or shell()
  Kinds,      \* what a prompt may carry besides its text
  MayCancel,  \* whether users cancel at all
  NoOne,      \* no entry in state()[sessionID]
  MaxId       \* bound: past this id the model asks for no more turns

ASSUME RequestAssumption == NoOne \notin Request
ASSUME KindsAssumption == Kinds \subseteq {"none", "subtask", "compaction"}
ASSUME CancelAssumption == MayCancel \in BOOLEAN
ASSUME BoundAssumption == MaxId \in Nat

VARIABLES
  owner,      \* the request whose controller is state()[sessionID].abort
  callbacks,  \* state()[sessionID].callbacks: requests waiting for the loop
  aborted,    \* runs whose controller was aborted (until the run is over)
  status,     \* SessionStatus of the session
  messages,   \* the stored messages
  clock,      \* the last id given by Identifier.ascending("message")
  phase,      \* where each request is
  outcome,    \* how each request's promise settled
  asked,      \* id of the user message of each prompt, 0 before
  ctx,        \* what each run keeps across the awaits of a turn: see NoContext
  shown       \* ids of the user messages a model call was given (a record of
              \* the past, not in the code)

loop == <<owner, callbacks, aborted, status, messages, clock, phase, outcome,
          asked, ctx, shown>>
entry == <<owner, callbacks, aborted, status>>

Statuses == {"idle", "busy"}   \* "busy" stands for "retry" too
Tasks == {"none", "subtask", "compaction"}
Outcomes == {"pending", "answered", "rejected", "noReply"}

LoopPhases == {"top", "reading", "asking", "subtask", "compacting", "streaming",
               "summarising", "subtaskRunning", "noting", "overflowing",
               "exiting", "returning"}
ShellPhases == {"shellStarting", "shellReplying", "shellRunning"}
RequestPhases == {"new", "composing", "storing", "stored", "queued", "done"}
            \cup LoopPhases \cup ShellPhases

\* The user messages of the history that was read, the newest of them, and
\* the assistant message the turn writes.
NoContext == [seen |-> {}, parent |-> 0, reply |-> 0]

\* A user message may carry a task part; the parent of an assistant message
\* matters for a compaction summary only.
Message == [id : Nat, role : {"user", "assistant"}, task : Tasks,
            finish : {"none", "tool-calls", "stop"}, summary : BOOLEAN,
            parent : Nat]

UserMessage(id, task) ==
  [id |-> id, role |-> "user", task |-> task, finish |-> "none",
   summary |-> FALSE, parent |-> 0]
AssistantMessage(id) ==
  [id |-> id, role |-> "assistant", task |-> "none", finish |-> "none",
   summary |-> FALSE, parent |-> 0]
SummaryMessage(id, parent) ==
  [id |-> id, role |-> "assistant", task |-> "none", finish |-> "none",
   summary |-> TRUE, parent |-> parent]

(* The run entry and the requests, and apart from them the history, whose  *)
(* messages carry ids that were given out.                                 *)
ControlTypeOK ==
  /\ owner \in Request \cup {NoOne}
  /\ callbacks \in SUBSET Request
  /\ aborted \in SUBSET Request
  /\ status \in Statuses
  /\ phase \in [Request -> RequestPhases]
  /\ outcome \in [Request -> Outcomes]

HistoryTypeOK ==
  /\ messages \in SUBSET Message
  /\ \A m \in messages : m.id \in 1..clock
  /\ clock \in Nat
  /\ asked \in [Request -> 0..clock]
  /\ ctx \in [Request -> [seen : SUBSET (1..clock), parent : 0..clock, reply : 0..clock]]
  /\ shown \in SUBSET (1..clock)

LoopInit ==
  /\ owner = NoOne
  /\ callbacks = {}
  /\ aborted = {}
  /\ status = "idle"
  /\ messages = {}
  /\ clock = 0
  /\ phase = [p \in Request |-> "new"]
  /\ outcome = [p \in Request |-> "pending"]
  /\ asked = [p \in Request |-> 0]
  /\ ctx = [p \in Request |-> NoContext]
  /\ shown = {}

-----------------------------------------------------------------------------
(* Reading the history *)

Users(M)      == {m \in M : m.role = "user"}
Assistants(M) == {m \in M : m.role = "assistant"}
Finished(M)   == {m \in Assistants(M) : m.finish # "none"}
Ids(M)        == {m.id : m \in M}
Newest(M)     == CHOOSE m \in M : \A n \in M : n.id <= m.id
Oldest(M)     == CHOOSE m \in M : \A n \in M : n.id >= m.id

(* MessageV2.filterCompacted: the history from the newest compaction       *)
(* request whose summary is finished.                                      *)
Compacted(M) ==
  {u \in Users(M) : /\ u.task = "compaction"
                    /\ \E a \in Finished(M) : a.summary /\ a.parent = u.id /\ a.id > u.id}
Unhidden(M) ==
  IF Compacted(M) = {} THEN M ELSE {m \in M : m.id >= Newest(Compacted(M)).id}

(* The task parts newer than the last finished assistant message.          *)
PendingTasks(M) ==
  {u \in Users(M) : /\ u.task # "none"
                    /\ \A a \in Finished(M) : a.id < u.id}

(* The exit test at the top of the loop.                                   *)
TurnIsOver(M) ==
  /\ Assistants(M) # {}
  /\ Newest(Assistants(M)).finish = "stop"
  /\ Newest(Users(M)).id < Newest(Assistants(M)).id

(* SessionCompaction.isOverflow is looked at only after a finished message *)
(* that is no summary; whether the context overflows is the model's input. *)
MayOverflow(M) ==
  /\ clock < MaxId
  /\ Finished(M) # {}
  /\ ~Newest(Finished(M)).summary

-----------------------------------------------------------------------------
(* cancel(sessionID), by the abort route or deferred by a run that ends:   *)
(* abort the controller of the entry, reject the callers waiting on it,    *)
(* drop the entry and report idle.  It names the session, not the run: the *)
(* entry may belong to a later run than the one that defers it.  `over`    *)
(* are the runs that end in the same step.                                 *)

\* Slip: the callers waiting on the entry are dropped with it.
NobodyRejected == {}

Unsettled == {q \in callbacks : outcome[q] = "pending"}

ClearEntry(over) ==
  \/ /\ owner = NoOne
     /\ aborted' = aborted \ over
     /\ UNCHANGED <<owner, callbacks, status>>
  \/ /\ owner # NoOne
     /\ aborted' = (aborted \cup {owner}) \ over
     /\ owner' = NoOne
     /\ callbacks' = {}
     /\ status' = "idle"

Cancel ==
  /\ MayCancel
  /\ owner # NoOne
  /\ ClearEntry({})
  /\ outcome' = [q \in Request |-> IF q \in Unsettled THEN "rejected" ELSE outcome[q]]
  /\ UNCHANGED <<messages, clock, phase, asked, ctx, shown>>

(* A run's promise settles after its deferred cancel.                      *)
EndRun(p, result) ==
  /\ ClearEntry({p})
  /\ outcome' = [q \in Request |-> IF q = p THEN result
                                   ELSE IF q \in Unsettled THEN "rejected"
                                   ELSE outcome[q]]
  /\ phase' = [phase EXCEPT ![p] = "done"]
  /\ ctx' = [ctx EXCEPT ![p] = NoContext]

-----------------------------------------------------------------------------
(* prompt() and the summarize route: the id of the user message is taken   *)
(* first, the message is stored later, its task part (if any) later still. *)

Reach(p, ph) == phase' = [phase EXCEPT ![p] = ph]

\* Slip: an id is used and not counted.
SameId == clock' = clock

NewId == clock' = clock + 1

Compose(p) ==
  /\ phase[p] = "new"
  /\ NewId
  /\ asked' = [asked EXCEPT ![p] = clock + 1]
  /\ Reach(p, "composing")
  /\ UNCHANGED <<entry, messages, outcome, ctx, shown>>

StoreMessage(p) ==
  /\ phase[p] = "composing"
  /\ messages' = messages \cup {UserMessage(asked[p], "none")}
  /\ Reach(p, "stored") \/ (Kinds # {"none"} /\ Reach(p, "storing"))
  /\ UNCHANGED <<entry, clock, outcome, asked, ctx, shown>>

StoreTask(p) ==
  /\ phase[p] = "storing"
  /\ \E task \in Kinds \ {"none"} :
       messages' = (messages \ {UserMessage(asked[p], "none")})
                      \cup {UserMessage(asked[p], task)}
  /\ Reach(p, "stored")
  /\ UNCHANGED <<entry, clock, outcome, asked, ctx, shown>>

NoReply(p) ==
  /\ phase[p] = "stored"
  /\ outcome' = [outcome EXCEPT ![p] = "noReply"]
  /\ Reach(p, "done")
  /\ UNCHANGED <<entry, messages, clock, asked, ctx, shown>>

\* Slip: start() does not look for a run of the session.
StartAnyway(p, ph) ==
  /\ owner' = p
  /\ callbacks' = {}
  /\ Reach(p, ph)
  /\ UNCHANGED <<aborted, status>>

(* start(): the session's entry is free and becomes this run's.            *)
Start(p, ph) ==
  /\ owner = NoOne
  /\ owner' = p
  /\ callbacks' = {}
  /\ Reach(p, ph)
  /\ UNCHANGED <<aborted, status>>

Wait(p) ==
  /\ owner # NoOne
  /\ callbacks' = callbacks \cup {p}
  /\ Reach(p, "queued")
  /\ UNCHANGED <<owner, aborted, status>>

Loop(p) ==
  /\ phase[p] = "stored"
  /\ Start(p, "top") \/ Wait(p)
  /\ UNCHANGED <<messages, clock, outcome, asked, ctx, shown>>

-----------------------------------------------------------------------------
(* loop(): one turn after another until the exit test or an abort *)

\* Slip: the status is reported once, when the run starts, not every turn.
LoopTopSilently(p) ==
  /\ phase[p] = "top"
  /\ Reach(p, IF p \in aborted THEN "exiting" ELSE "reading")
  /\ UNCHANGED <<entry, messages, clock, outcome, asked, ctx, shown>>

LoopTop(p) ==
  /\ phase[p] = "top"
  /\ status' = "busy"
  /\ Reach(p, IF p \in aborted THEN "exiting" ELSE "reading")
  /\ UNCHANGED <<owner, callbacks, aborted, messages, clock, outcome, asked, ctx, shown>>

(* The history is read, and the turn is decided from it: leave, run the    *)
(* oldest pending task, compact an overflowing context, or ask the model.  *)
Decide(p) ==
  /\ phase[p] = "reading"
  /\ Users(messages) # {}
  /\ LET M == Unhidden(messages)
         read == [seen |-> Ids(Users(M)), parent |-> Newest(Users(M)).id, reply |-> 0] IN
     \/ /\ TurnIsOver(M)
        /\ Reach(p, "exiting")
        /\ UNCHANGED ctx
     \/ /\ ~TurnIsOver(M)
        /\ PendingTasks(M) # {}
        /\ Reach(p, IF Oldest(PendingTasks(M)).task = "subtask" THEN "subtask" ELSE "compacting")
        /\ ctx' = [ctx EXCEPT ![p] = read]
     \/ /\ ~TurnIsOver(M)
        /\ PendingTasks(M) = {}
        /\ \/ Reach(p, "asking") /\ ctx' = [ctx EXCEPT ![p] = read]
           \/ MayOverflow(M) /\ Reach(p, "overflowing") /\ UNCHANGED ctx
  /\ UNCHANGED <<entry, messages, clock, outcome, asked, shown>>

(* A lookup of the session, the model, the agent or the tools fails.       *)
Throw(p) ==
  /\ phase[p] \in {"reading", "asking", "subtask", "compacting", "shellStarting"}
  /\ EndRun(p, "rejected")
  /\ UNCHANGED <<messages, clock, asked, shown>>

(* The assistant message of the turn: a model call, a subtask's tool call  *)
(* or a compaction summary.                                                *)
WriteReply(p) ==
  /\ NewId
  /\ \/ /\ phase[p] = "asking"
        /\ messages' = messages \cup {AssistantMessage(clock + 1)}
        /\ shown' = shown \cup ctx[p].seen
        /\ Reach(p, "streaming")
     \/ /\ phase[p] = "subtask"
        /\ messages' = messages \cup {AssistantMessage(clock + 1)}
        /\ Reach(p, "subtaskRunning")
        /\ UNCHANGED shown
     \/ /\ phase[p] = "compacting"
        /\ messages' = messages \cup {SummaryMessage(clock + 1, ctx[p].parent)}
        /\ shown' = shown \cup ctx[p].seen
        /\ Reach(p, "summarising")
  /\ ctx' = [ctx EXCEPT ![p] = [NoContext EXCEPT !.reply = clock + 1]]
  /\ UNCHANGED <<entry, outcome, asked>>

Finish(p, f) ==
  /\ ctx' = [ctx EXCEPT ![p] = NoContext]
  /\ messages' = {IF m.id = ctx[p].reply THEN [m EXCEPT !.finish = f] ELSE m : m \in messages}

(* SessionProcessor.process sets the status when a stream starts and when  *)
(* a failed one is to be retried, the latter even if it was aborted since. *)
StreamReports(p) ==
  /\ phase[p] \in {"streaming", "summarising"}
  /\ status' = "busy"
  /\ UNCHANGED <<owner, callbacks, aborted, messages, clock, phase, outcome, asked, ctx, shown>>

(* The step finishes; an abort would have been noticed at this event.      *)
(* process then returns "continue", "stop" (a rejected tool call, or an    *)
(* error or abort after this event) or "compact" (the context overflowed). *)
StreamEnds(p) ==
  /\ phase[p] = "streaming"
  /\ p \notin aborted
  /\ \/ Finish(p, "stop") /\ Reach(p, "top")
     \/ clock < MaxId /\ Finish(p, "tool-calls") /\ Reach(p, "top")
     \/ /\ Finish(p, "stop") \/ Finish(p, "tool-calls")
        /\ Reach(p, "exiting") \/ (clock < MaxId /\ Reach(p, "overflowing"))
  /\ UNCHANGED <<entry, clock, outcome, asked, shown>>

(* SessionCompaction.process: after the summary of an automatic compaction *)
(* a user message asks the model to go on.                                 *)
SummaryEnds(p) ==
  /\ phase[p] = "summarising"
  /\ p \notin aborted
  /\ Finish(p, "stop")
  /\ Reach(p, "top") \/ Reach(p, "noting")
  /\ UNCHANGED <<entry, clock, outcome, asked, shown>>

(* The call fails for good or is aborted: process returns "stop".          *)
StreamFails(p) ==
  /\ phase[p] \in {"streaming", "summarising"}
  /\ ctx' = [ctx EXCEPT ![p] = NoContext]
  /\ Reach(p, "exiting")
  /\ UNCHANGED <<entry, messages, clock, outcome, asked, shown>>

(* The task tool returned or failed; a command asks for a summary.         *)
SubtaskEnds(p) ==
  /\ phase[p] = "subtaskRunning"
  /\ Finish(p, "tool-calls")
  /\ Reach(p, "top") \/ Reach(p, "noting")
  /\ UNCHANGED <<entry, clock, outcome, asked, shown>>

(* The run's own user messages: a synthetic text, or the compaction        *)
(* request of SessionCompaction.create.                                    *)
StoreNote(p) ==
  /\ phase[p] \in {"noting", "overflowing"}
  /\ NewId
  /\ messages' = messages \cup
       {UserMessage(clock + 1, IF phase[p] = "overflowing" THEN "compaction" ELSE "none")}
  /\ Reach(p, "top")
  /\ UNCHANGED <<entry, outcome, asked, ctx, shown>>

(* After the loop: the newest assistant message answers this caller and    *)
(* every caller waiting on the session's entry, whoever owns it by now.    *)
Drain(p) ==
  /\ phase[p] = "exiting"
  /\ Assistants(messages) # {}
  /\ outcome' = [q \in Request |-> IF q \in Unsettled THEN "answered" ELSE outcome[q]]
  /\ Reach(p, "returning")
  /\ UNCHANGED <<entry, messages, clock, asked, ctx, shown>>

(* throw new Error("Impossible"): there is no assistant message.           *)
DrainNothing(p) ==
  /\ phase[p] = "exiting"
  /\ Assistants(messages) = {}
  /\ EndRun(p, "rejected")
  /\ UNCHANGED <<messages, clock, asked, shown>>

Return(p) ==
  /\ phase[p] = "returning"
  /\ EndRun(p, "answered")
  /\ UNCHANGED <<messages, clock, asked, shown>>

-----------------------------------------------------------------------------
(* shell(): a command of the user, recorded as a user and an assistant     *)
(* message; it holds the session's entry but never waits for it.           *)

ShellStart(p) ==
  /\ phase[p] = "new"
  /\ Start(p, "shellStarting")
  /\ UNCHANGED <<messages, clock, outcome, asked, ctx, shown>>

ShellBusy(p) ==
  /\ phase[p] = "new"
  /\ owner # NoOne
  /\ outcome' = [outcome EXCEPT ![p] = "rejected"]
  /\ Reach(p, "done")
  /\ UNCHANGED <<entry, messages, clock, asked, ctx, shown>>

ShellAsk(p) ==
  /\ phase[p] = "shellStarting"
  /\ NewId
  /\ messages' = messages \cup {UserMessage(clock + 1, "none")}
  /\ Reach(p, "shellReplying")
  /\ UNCHANGED <<entry, outcome, asked, ctx, shown>>

ShellReply(p) ==
  /\ phase[p] = "shellReplying"
  /\ NewId
  /\ messages' = messages \cup {AssistantMessage(clock + 1)}
  /\ ctx' = [ctx EXCEPT ![p].reply = clock + 1]
  /\ Reach(p, "shellRunning")
  /\ UNCHANGED <<entry, outcome, asked, shown>>

(* The child process closes, by itself or killed by the abort.             *)
ShellEnds(p) ==
  /\ phase[p] = "shellRunning"
  /\ EndRun(p, "answered")
  /\ UNCHANGED <<messages, clock, asked, shown>>

-----------------------------------------------------------------------------
(* What the server does for a request once it has arrived.                 *)
LoopStep(p) ==
  \/ StoreMessage(p) \/ StoreTask(p) \/ NoReply(p) \/ Loop(p)
  \/ LoopTop(p) \/ Decide(p) \/ Throw(p) \/ WriteReply(p)
  \/ StreamEnds(p) \/ SummaryEnds(p) \/ StreamFails(p)
  \/ SubtaskEnds(p) \/ StoreNote(p) \/ Drain(p) \/ DrainNothing(p) \/ Return(p)
  \/ ShellAsk(p) \/ ShellReply(p) \/ ShellEnds(p)

Arrival(p) == Compose(p) \/ ShellStart(p) \/ ShellBusy(p)

LoopNext ==
  \/ Cancel
  \/ \E p \in Request : LoopStep(p) \/ Arrival(p) \/ StreamReports(p)

(* Promises are resumed, and model calls, tools and child processes end.   *)
LoopFairness == \A p \in Request : WF_loop(LoopStep(p))

LoopSpec == LoopInit /\ [][LoopNext]_loop /\ LoopFairness

-----------------------------------------------------------------------------
Running(p) == phase[p] \in LoopPhases \cup ShellPhases
Live(p)    == Running(p) /\ p \notin aborted
Waiting(p) == phase[p] = "queued" /\ outcome[p] = "pending"

(* One run at a time: a run that was not cancelled owns the session's      *)
(* entry, whatever cancelled runs are still winding down beside it.        *)
OneLiveRun == \A p \in Request : Live(p) => owner = p

(* The entry never outlives its run, or the session would stay busy and    *)
(* every later prompt would wait for a loop that is gone.                  *)
EntryHasRun == owner # NoOne => Live(owner)

(* A waiting caller is on the entry's list, so the end of that run or its  *)
(* cancellation settles it: nobody is left without an answer or an error.  *)
WaitingIsListed == \A p \in Request : Waiting(p) => owner # NoOne /\ p \in callbacks

(* While an uncancelled loop is past its first step the session is not     *)
(* reported idle, though older runs still defer a cancel of the session.   *)
BusyWhileLooping ==
  \A p \in Request :
    Live(p) /\ phase[p] \in LoopPhases \ {"top"} => status # "idle"

(* The inductive strengthening: the list holds only callers that wait, it  *)
(* is empty without a run, and only a run that is still on can be aborted. *)
CallbacksWait ==
  /\ \A q \in callbacks : phase[q] = "queued"
  /\ owner = NoOne => callbacks = {}

AbortedAreRunning == \A p \in aborted : Running(p)

ControlInv ==
  /\ ControlTypeOK
  /\ CallbacksWait
  /\ AbortedAreRunning
  /\ OneLiveRun
  /\ EntryHasRun
  /\ WaitingIsListed
  /\ BusyWhileLooping

(* An id is one message's.  A prompt's id is nobody else's, its message is *)
(* stored once; the reply a run will finish is an assistant message.       *)
IdsAreUnique == \A m, n \in messages : m.id = n.id => m = n

AskedInv ==
  \A p \in Request :
    /\ phase[p] = "composing" => asked[p] > 0 /\ asked[p] \notin Ids(messages)
    /\ phase[p] = "storing" => UserMessage(asked[p], "none") \in messages
    /\ \A q \in Request \ {p} : asked[p] = asked[q] => asked[p] = 0

ReplyInv ==
  \A p \in Request : ctx[p].reply # 0 =>
    \E m \in messages : m.id = ctx[p].reply /\ m.role = "assistant"

HistoryInv == HistoryTypeOK /\ IdsAreUnique /\ AskedInv /\ ReplyInv

(* Every request that arrived settles.                                     *)
EveryRequestSettles ==
  \A p \in Request : phase[p] # "new" ~> outcome[p] # "pending"

(* server.mdx:175 says of POST /session/:id/message "Send a message and    *)
(* wait for response": a model call was given the message of an answered   *)
(* request, unless that request is a task for the loop itself.             *)
ResponseSawTheMessage ==
  \A p \in Request :
    outcome[p] = "answered" /\ asked[p] # 0 =>
      \/ \E m \in messages : m.id = asked[p] /\ m.task # "none"
      \/ asked[p] \in shown
=============================================================================
