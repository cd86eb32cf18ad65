-------------------------------- MODULE Turn --------------------------------
(***************************************************************************)
(* One turn of the model in each session and the tool calls it makes:      *)
(* session/processor.ts reads the stream, keeps the tool parts and settles *)
(* the turn; the tools (tool/edit.ts, write.ts, bash.ts, question.ts) run  *)
(* beside it, ask the user and write one file.  A turn does not wait for   *)
(* its tools when it is aborted, fails or is retried: they go on, and so   *)
(* do their requests and their locks.                                      *)
(*                                                                         *)
(* An action runs from one await to the next; an await whose result only   *)
(* the same function uses is part of the action before it.                 *)
(***************************************************************************)
EXTENDS Naturals, Sequences, SequencesExt

CONSTANTS
  Session,
  Call,          \* the tool calls of all turns
  Commands,      \* the commands a bash call may hold: sequences of patterns
  Repeats,       \* the calls that repeat the two before them
  Steady,        \* bound: the sessions whose turn is not cancelled and does not fail
  ShouldBreak,   \* experimental.continue_loop_on_deny is off
  MaxAttempts,   \* bound: attempts of a turn (the code has none)
  MaxVersion     \* bound: versions of the file that outsiders may write

Request == Call \cup Session   \* a session stands for its doom_loop request
Pattern == {"file", "doom"} \cup UNION {ToSet(command) : command \in Commands}

ASSUME CallsAssumption == Call \cap Session = {} /\ Repeats \subseteq Call
ASSUME CommandsAssumption == \A command \in Commands : command \in Seq(Pattern)
ASSUME BoundsAssumption ==
  MaxAttempts \in Nat /\ MaxVersion \in Nat /\ ShouldBreak \in BOOLEAN

VARIABLES
  of, kind, command,                   \* of each call: its session, its tool and its command
  phase, attempt, outcome,             \* of each session's turn
  aborted, blocked, failed, compact,   \* the sessions whose turn has that flag
  part, entry,                         \* of each call: its stored part and toolcalls[id]
  madeIn, exec, base,                  \* its attempt, where its tool is and what it read
  toSweep,      \* of each session: the parts that the end of its turn settles
  rules, approved, pending, verdict,   \* Permission
  questions, answers,                  \* Question
  file, readAt, locks,                 \* FileTime
  granted,      \* history: the requests the user answered with "once" or "always"
  reopened      \* history: the parts that metadata put back to "running"

\* What each request is about: a call's patterns follow from its kind.
Patterns(r) ==
  IF r \in Session THEN <<"doom">> ELSE IF kind[r] = "bash" THEN command[r] ELSE <<"file">>

Info == [r \in Request |->
  [session |-> IF r \in Session THEN r ELSE of[r],
   patterns |-> Patterns(r), always |-> ToSet(Patterns(r))]]

P == INSTANCE Permission WITH info <- Info
Q == INSTANCE Question
F == INSTANCE FileTime

calls == <<of, kind, command>>
flags == <<attempt, blocked, failed, compact, outcome>>
turns == <<phase, aborted, flags, toSweep>>
parts == <<part, entry, madeIn, reopened>>
tools == <<exec, base>>
asking == <<rules, approved, pending, verdict, granted>>
asked == <<questions, answers>>
files == <<file, readAt, locks>>
vars == <<calls, turns, parts, tools, asking, asked, files>>

Kinds == {"edit", "create", "write", "bash", "question"}
Locked(c) == kind[c] \in {"edit", "create"}
Over == {"done", "failed", "rejected"}
Places == {"none", "lock", "check", "ask", "wait", "write", "run", "stamp", "meta",
           "question"} \cup Over
Unresolved == {"pending", "running"}

Calls(s) == {c \in Call : of[c] = s}
Live(c) == phase[of[c]] \in {"stream", "doom"} /\ madeIn[c] = attempt[of[c]]

CallsOK == of \in [Call -> Session] /\ kind \in [Call -> Kinds] /\ command \in [Call -> Commands]

TurnsOK ==
  /\ phase \in [Session -> {"idle", "stream", "doom", "retry", "sweep", "ended"}]
  /\ attempt \in [Session -> 0..MaxAttempts]
  /\ outcome \in [Session -> {"none", "compact", "stop", "continue"}]
  /\ aborted \subseteq Session /\ blocked \subseteq Session
  /\ failed \subseteq Session /\ compact \subseteq Session
  /\ toSweep \in [Session -> SUBSET Call]

PartsOK ==
  /\ part \in [Call -> {"none", "pending", "running", "completed", "error"}]
  /\ entry \in [Call -> {"none", "pending", "running"}]
  /\ madeIn \in [Call -> 0..MaxAttempts]
  /\ reopened \subseteq Call

ToolsOK == exec \in [Call -> Places] /\ base \in [Call -> Nat]

TypeOK ==
  /\ CallsOK /\ TurnsOK /\ PartsOK /\ ToolsOK
  /\ granted \subseteq Request
  /\ P!TypeOK /\ Q!TypeOK /\ F!TypeOK

Init ==
  /\ of \in [Call -> Session] /\ kind \in [Call -> Kinds] /\ command \in [Call -> Commands]
  /\ phase = [s \in Session |-> "idle"]
  /\ attempt = [s \in Session |-> 0]
  /\ outcome = [s \in Session |-> "none"]
  /\ aborted = {} /\ blocked = {} /\ failed = {} /\ compact = {}
  /\ part = [c \in Call |-> "none"] /\ entry = [c \in Call |-> "none"]
  /\ madeIn = [c \in Call |-> 0]
  /\ exec = [c \in Call |-> "none"] /\ base = [c \in Call |-> 0]
  /\ toSweep = [s \in Session |-> {}]
  /\ granted = {} /\ reopened = {}
  /\ rules \in [Pattern -> {"allow", "ask", "deny"}]
  /\ P!Init /\ Q!Init /\ F!Init

(***************************************************************************)
(* The stream.  An event is handled only while the signal is not aborted.  *)
(***************************************************************************)
Streams(s) == phase[s] = "stream" /\ s \notin aborted

Becomes(s, ph) == phase' = [phase EXCEPT ![s] = ph] /\ UNCHANGED <<aborted, flags, toSweep>>

Begin(s) ==
  /\ phase[s] = "idle" /\ Calls(s) # {}   \* a turn without a call is of no interest
  /\ Becomes(s, "stream")
  /\ UNCHANGED <<calls, parts, tools, asking, asked, files>>

InputStart(c) ==
  /\ Streams(of[c]) /\ part[c] = "none"
  /\ part' = [part EXCEPT ![c] = "pending"]
  /\ entry' = [entry EXCEPT ![c] = "pending"]
  /\ madeIn' = [madeIn EXCEPT ![c] = attempt[of[c]]]
  /\ UNCHANGED <<calls, turns, reopened, tools, asking, asked, files>>

(* A call that repeats the two before it asks the user first, inside the   *)
(* loop that reads the stream.                                             *)
ToolCall(c) ==
  /\ Streams(of[c]) /\ Live(c) /\ entry[c] = "pending"
  /\ part' = [part EXCEPT ![c] = "running"]
  /\ entry' = [entry EXCEPT ![c] = "running"]
  /\ IF c \in Repeats /\ verdict[of[c]] = "none"
     THEN P!Ask(of[c]) /\ Becomes(of[c], "doom") /\ UNCHANGED granted
     ELSE UNCHANGED <<turns, asking>>
  /\ UNCHANGED <<calls, madeIn, reopened, tools, asked, files>>

Resolved(c, how) ==
  /\ Streams(of[c]) /\ Live(c) /\ entry[c] = "running"
  /\ part' = [part EXCEPT ![c] = how]
  /\ entry' = [entry EXCEPT ![c] = "none"]
  /\ UNCHANGED <<calls, phase, aborted, attempt, failed, compact, outcome, toSweep,
                 madeIn, reopened, tools, asking, asked, files>>

ToolResult(c) ==
  /\ exec[c] = "done"
  /\ Resolved(c, "completed")
  /\ UNCHANGED blocked

ToolError(c) ==
  /\ exec[c] \in {"failed", "rejected"}
  /\ Resolved(c, "error")
  /\ blocked' = IF exec[c] = "rejected" /\ ShouldBreak THEN blocked \cup {of[c]} ELSE blocked

(***************************************************************************)
(* The end of a turn: every part that is not settled becomes an error.     *)
(***************************************************************************)
\* Slip: only a part whose tool has started counts.
Started(c) == part[c] = "running"

Unsettled(c) == part[c] \in Unresolved

Settle(s) ==
  /\ phase' = [phase EXCEPT ![s] = "sweep"]
  /\ toSweep' = [toSweep EXCEPT ![s] = {c \in Calls(s) : Unsettled(c)}]
  /\ UNCHANGED <<calls, attempt, aborted, blocked, outcome, parts, tools, asking, asked, files>>

Fail(s) ==
  /\ Settle(s)
  /\ failed' = failed \cup {s}
  /\ UNCHANGED compact

(* The step finishes after the results of the tools it started.            *)
Finish(s) ==
  /\ Streams(s)
  /\ \A c \in Calls(s) :
       Live(c) /\ entry[c] # "none" => entry[c] = "pending" /\ exec[c] = "none"
  /\ Settle(s)
  /\ compact' \in {compact, compact \cup {s}}
  /\ UNCHANGED failed

\* The bound on attempts: the code goes on as long as the error can be mended.
MayRetry(s) == attempt[s] < MaxAttempts

(* The stream fails: the error may be one that a retry can mend.           *)
Retry(s) ==
  /\ s \notin Steady /\ phase[s] = "stream" /\ MayRetry(s)
  /\ phase' = [phase EXCEPT ![s] = "retry"]
  /\ attempt' = [attempt EXCEPT ![s] = @ + 1]
  /\ UNCHANGED <<calls, aborted, blocked, failed, compact, outcome, toSweep,
                 parts, tools, asking, asked, files>>

StreamFails(s) == s \notin Steady /\ phase[s] = "stream" /\ Fail(s)

WakeFromRetry(s) ==
  /\ phase[s] = "retry"
  /\ Becomes(s, "stream")
  /\ UNCHANGED <<calls, parts, tools, asking, asked, files>>

DoomAnswered(s) ==
  /\ phase[s] = "doom" /\ verdict[s] # "none"
  /\ IF verdict[s] = "allowed"
     THEN Becomes(s, "stream") /\ UNCHANGED <<calls, parts, tools, asking, asked, files>>
     ELSE Fail(s)

\* Slip: an aborted turn waits for its tools.
NoticesLast(s) ==
  phase[s] = "stream" /\ s \in aborted /\ \A c \in Calls(s) : entry[c] # "running"

NoticesAbort(s) == phase[s] = "stream" /\ s \in aborted

AbortNoticed(s) == NoticesAbort(s) /\ Fail(s)

SweepPart(s) ==
  /\ phase[s] = "sweep"
  /\ \E c \in toSweep[s] :
       /\ part' = [part EXCEPT ![c] = "error"]
       /\ toSweep' = [toSweep EXCEPT ![s] = @ \ {c}]
  /\ UNCHANGED <<calls, phase, aborted, flags, entry, madeIn, reopened, tools, asking, asked, files>>

(* What the turn kept goes with it.                                        *)
End(s) ==
  /\ phase[s] = "sweep" /\ toSweep[s] = {}
  /\ phase' = [phase EXCEPT ![s] = "ended"]
  /\ outcome' = [outcome EXCEPT ![s] =
       IF s \in compact THEN "compact" ELSE IF s \in blocked \cup failed THEN "stop" ELSE "continue"]
  /\ attempt' = [attempt EXCEPT ![s] = 0]
  /\ aborted' = aborted \ {s} /\ blocked' = blocked \ {s}
  /\ failed' = failed \ {s} /\ compact' = compact \ {s}
  /\ UNCHANGED <<calls, toSweep, parts, tools, asking, asked, files>>

(***************************************************************************)
(* The tools.                                                              *)
(***************************************************************************)
Exec(c, from, to) ==
  /\ exec[c] = from
  /\ exec' = [exec EXCEPT ![c] = to]
  /\ UNCHANGED <<calls, turns, parts>>

\* Slip: a call that is over keeps the file's lock.
KeepsLock(c) == UNCHANGED locks

\* A call that is over gives back the file's lock, if it is one that takes it.
Unlock(c) == IF Locked(c) THEN F!Release ELSE UNCHANGED locks

Start(c) ==
  /\ Live(c) /\ part[c] \in Unresolved
  /\ Exec(c, "none", CASE Locked(c)            -> "lock"
                       [] kind[c] = "write"    -> "check"
                       [] kind[c] = "question" -> "question"
                       [] OTHER                -> "ask")
  /\ IF Locked(c) THEN F!Queue(c) ELSE UNCHANGED locks
  /\ IF kind[c] = "question" THEN Q!Ask(c) ELSE UNCHANGED asked
  /\ UNCHANGED <<base, asking, file, readAt>>

Enter(c) ==
  /\ Exec(c, "lock", IF kind[c] = "edit" THEN "check" ELSE "ask")
  /\ F!HasLock(c)
  /\ UNCHANGED <<base, asking, asked, files>>

(* The tool reads the file that the assertion has accepted; what an edit   *)
(* is to replace may not be there.                                         *)
Check(c) ==
  /\ \/ /\ F!Assert(of[c])
        /\ Exec(c, "check", "ask")
        /\ base' = [base EXCEPT ![c] = file.version]
        /\ UNCHANGED locks
     \/ /\ ~F!Assert(of[c]) \/ kind[c] = "edit"
        /\ Exec(c, "check", "failed")
        /\ Unlock(c)
        /\ UNCHANGED base
  /\ UNCHANGED <<asking, asked, file, readAt>>

Ask(c) ==
  /\ Exec(c, "ask", "wait")
  /\ P!Ask(c)
  /\ UNCHANGED <<base, granted, asked, files>>

Go(c) ==
  /\ verdict[c] = "allowed"
  /\ Exec(c, "wait", IF kind[c] = "bash" THEN "run" ELSE "write")
  /\ UNCHANGED <<base, asking, asked, files>>

Refused(c) ==
  /\ verdict[c] \in {"denied", "rejected", "corrected"}
  /\ Exec(c, "wait", IF verdict[c] = "rejected" THEN "rejected" ELSE "failed")
  /\ Unlock(c)
  /\ UNCHANGED <<base, asking, asked, file, readAt>>

Write(c) ==
  /\ Exec(c, "write", "stamp")
  /\ F!Write(kind[c])
  /\ UNCHANGED <<base, asking, asked, readAt, locks>>

Stamp(c) ==
  /\ Exec(c, "stamp", IF Locked(c) THEN "meta" ELSE "done")
  /\ F!Read(of[c])
  /\ Unlock(c)
  /\ UNCHANGED <<base, asking, asked, file>>

Run(c) ==
  /\ Exec(c, "run", "meta")
  /\ UNCHANGED <<base, asking, asked, files>>

(* Metadata looks at the processor's entry, which the sweep leaves alone.  *)
Metadata(c) ==
  /\ exec[c] = "meta"
  /\ exec' = [exec EXCEPT ![c] = "done"]
  /\ IF entry[c] = "running"
     THEN /\ part' = [part EXCEPT ![c] = "running"]
          /\ reopened' = IF part[c] = "error" THEN reopened \cup {c} ELSE reopened
     ELSE UNCHANGED <<part, reopened>>
  /\ UNCHANGED <<calls, turns, entry, madeIn, base, asking, asked, files>>

Answered(c) ==
  /\ answers[c] # "none"
  /\ Exec(c, "question", IF answers[c] = "answered" THEN "done" ELSE "rejected")
  /\ UNCHANGED <<base, asking, asked, files>>

(***************************************************************************)
(* The user and the world.  A cancel aborts the signal and nothing else.   *)
(***************************************************************************)
Cancel(s) ==
  /\ s \notin Steady \cup aborted /\ phase[s] \notin {"idle", "ended"}
  /\ aborted' = aborted \cup {s}
  /\ UNCHANGED <<calls, phase, flags, toSweep, parts, tools, asking, asked, files>>

UserGrants(r) ==
  /\ P!Once(r) \/ P!Always(r)
  /\ granted' = granted \cup {r}
  /\ UNCHANGED <<calls, turns, parts, tools, asked, files>>

UserRejects(r) ==
  /\ P!Reject(r)
  /\ UNCHANGED <<calls, turns, parts, tools, granted, asked, files>>

UserAnswers(c) ==
  /\ Q!Reply(c) \/ Q!Dismiss(c)
  /\ UNCHANGED <<calls, turns, parts, tools, asking, files>>

OutsideChange ==
  /\ file.version < MaxVersion
  /\ F!Write("outside")
  /\ UNCHANGED <<calls, turns, parts, tools, asking, asked, readAt, locks>>

Process(s) ==
  \/ Begin(s) \/ Finish(s) \/ Retry(s) \/ StreamFails(s) \/ WakeFromRetry(s)
  \/ DoomAnswered(s) \/ AbortNoticed(s) \/ SweepPart(s) \/ End(s)

Tool(c) ==
  \/ Start(c) \/ Enter(c) \/ Check(c) \/ Ask(c) \/ Go(c) \/ Refused(c) \/ Write(c)
  \/ Stamp(c) \/ Run(c) \/ Metadata(c) \/ Answered(c)

Event(c) == InputStart(c) \/ ToolCall(c) \/ ToolResult(c) \/ ToolError(c)

Next ==
  \/ \E s \in Session : Process(s) \/ Cancel(s)
  \/ \E c \in Call : Event(c) \/ Tool(c) \/ UserAnswers(c)
  \/ \E r \in Request : UserGrants(r) \/ UserRejects(r)
  \/ OutsideChange

(* The event loop runs the turn when it is ready.  The user, the provider  *)
(* and the tools owe it nothing.                                           *)
Fairness ==
  \A s \in Session :
    WF_vars(WakeFromRetry(s) \/ DoomAnswered(s) \/ AbortNoticed(s) \/ SweepPart(s) \/ End(s))

Spec == Init /\ [][Next]_vars /\ Fairness

(***************************************************************************)
(* Properties                                                              *)
(***************************************************************************)

(* A tool acts only on patterns that are allowed, but for those that the   *)
(* user granted with its own request: of that, no pattern is denied that   *)
(* comes before the first one to ask about, whoever's answers came between *)
(* (permission/next.ts:131-157, 200-213).                                  *)
Allowed(c, i) == P!Evaluate(Patterns(c)[i]) = "allow"

GrantedOrAllowed(c) ==
  \A i \in DOMAIN Patterns(c) :
    \/ Allowed(c, i)
    \/ c \in granted /\ \E j \in 1..i : rules[Patterns(c)[j]] = "ask"

AskedOrAllowed ==
  \A c \in Call : exec[c] \in {"write", "run"} => GrantedOrAllowed(c)

(* What web/src/content/docs/permissions.mdx:18 says of "deny": the action *)
(* is blocked.  No tool acts on a pattern that is denied.                  *)
DeniedIsBlocked ==
  \A c \in Call : exec[c] \in {"write", "run"} =>
    \A i \in DOMAIN Patterns(c) : P!Evaluate(Patterns(c)[i]) # "deny"

(* When a turn has ended, none of its parts is pending or running, except  *)
(* one that metadata put back (session/processor.ts:389-406).              *)
EndedPartsAreSettled ==
  \A c \in Call :
    phase[of[c]] = "ended" /\ part[c] \in Unresolved => c \in reopened

(* An edit never overwrites another edit that it has not seen              *)
(* (file/time.ts withLock).                                                *)
EditsKeepEdits ==
  \A c \in Call :
    exec[c] = "write" /\ kind[c] = "edit" =>
      base[c] = file.version \/ file.by \notin {"edit", "create"}

(* What file/time.ts:8-10 asks of every tool that overwrites a file: no    *)
(* tool's change comes between its assertion and its write.                *)
WritesAreSerialized ==
  \A c \in Call :
    exec[c] = "write" /\ kind[c] \in {"edit", "write"} =>
      base[c] = file.version \/ file.by = "outside"

(* The inductive strengthening.                                            *)
\* What a request asks about: a pattern behind others that are allowed.
AskedInTurn(c) ==
  \E i \in DOMAIN Patterns(c) :
    rules[Patterns(c)[i]] = "ask" /\ \A j \in 1..(i - 1) : Allowed(c, j)

\* A request is made once, waits while its asker waits, and allows what it says.
RequestsInv ==
  /\ \A c \in Call : c \in pending => exec[c] = "wait" /\ AskedInTurn(c)
  /\ \A s \in Session : s \in pending => phase[s] = "doom"
  /\ \A c \in Call :
       exec[c] \in {"none", "lock", "check", "ask"} => verdict[c] = "none"
  /\ \A c \in Call : exec[c] \in {"write", "run"} => verdict[c] = "allowed"
  /\ \A c \in Call : verdict[c] = "allowed" => GrantedOrAllowed(c)

\* Which places the tools that write no file come to.
KindsInv ==
  \A c \in Call :
    /\ kind[c] = "question" => exec[c] \in {"none", "question"} \cup Over
    /\ kind[c] = "bash" => exec[c] \notin {"lock", "check", "write", "stamp"}
    /\ exec[c] = "run" => kind[c] = "bash"

\* Who is in the queue of the lock, and what the first of them relies on.
LockInv ==
  /\ \A i, j \in 1..Len(locks) : locks[i] = locks[j] => i = j
  /\ \A c \in Call :
       (\E i \in 1..Len(locks) : locks[i] = c) <=>
         Locked(c) /\ exec[c] \in {"lock", "check", "ask", "wait", "write", "stamp"}
  /\ \A c \in Call :
       Locked(c) /\ exec[c] \in {"check", "ask", "wait", "write", "stamp"} => locks[1] = c
  /\ \A c \in Call :
       kind[c] = "edit" /\ exec[c] \in {"ask", "wait", "write"} =>
         base[c] = file.version \/ file.by \notin {"edit", "create"}

\* The parts that the sweep of a turn still has to settle.
PartsInv ==
  /\ \A c \in Call : entry[c] = "running" => part[c] \in {"running", "error"}
  /\ \A c \in Call :
       phase[of[c]] = "sweep" /\ part[c] \in Unresolved =>
         c \in toSweep[of[c]] \cup reopened
  /\ EndedPartsAreSettled

IInv == TypeOK /\ RequestsInv /\ KindsInv /\ LockInv /\ PartsInv

(* An aborted turn ends, whatever its tools and requests wait for, unless  *)
(* it asks about a loop (session/processor.ts:58, 165).                    *)
TurnEnds ==
  \A s \in Session :
    s \in aborted ~> (phase[s] \in {"ended", "doom"})
=============================================================================
