----------------------------- MODULE MCWaiting ------------------------------
(* Two places where callers wait for each other, in one run: part "lock"   *)
(* is four callers of one key of the record lock (two can queue behind a   *)
(* reader and a writer), part "session" two requests of one session.  A    *)
(* behaviour is of one part; the other does not move.                      *)
EXTENDS RwLock

CONSTANTS Request, Kinds, MayCancel, NoOne, MaxId

VARIABLES
  part,
  owner, callbacks, aborted, status, messages, clock, phase, outcome, asked, ctx, shown

S == INSTANCE SessionLoop

session == <<owner, callbacks, aborted, status, messages, clock, phase, outcome, asked,
             ctx, shown>>
all == <<part, vars, session>>

WaitingInit == Init /\ S!LoopInit /\ part \in {"lock", "session"}

LockPart    == part = "lock" /\ Next /\ UNCHANGED <<part, session>>
SessionPart == part = "session" /\ S!LoopNext /\ UNCHANGED <<part, vars>>

WaitingSpec ==
  /\ WaitingInit
  /\ [][LockPart \/ SessionPart]_all
  /\ \A t \in Task : WF_all(part = "lock" /\ Dispose(t) /\ UNCHANGED <<part, session>>)
  /\ \A p \in Request : WF_all(part = "session" /\ S!LoopStep(p) /\ UNCHANGED <<part, vars>>)

(* session/prompt.ts: every request is answered, see module SessionLoop.   *)
EveryRequestSettles == S!EveryRequestSettles
=============================================================================
