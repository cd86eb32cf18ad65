--------------------------- MODULE SessionProofs ----------------------------
(***************************************************************************)
(* Proofs about a session, for any sets of requests and clients and any    *)
(* bounds: the invariants of its loop (ControlInv and HistoryInv of        *)
(* SessionLoop) and of its undo (RevertInv of Revert) are inductive, and   *)
(* what follows from each; then the same of MCSession, where both are      *)
(* together.  The sections on control, history and undo do not depend on   *)
(* each other, but for the greatest id of a set.                           *)
(***************************************************************************)
EXTENDS MCSession, FiniteSetTheorems, TLAPS

-----------------------------------------------------------------------------
(* The control: kinds of step (a run that goes on, a request that is not   *)
(* running, start, wait, the end of a run, a cancel), of which each action *)
(* is one.                                                                 *)

NotRunning == {"new", "composing", "storing", "stored", "done"}

(* A run that goes on within the loop, or within shell(): it keeps the     *)
(* entry, and if it passes the top of the loop it reports busy.            *)
LEMMA RunGoesOn ==
  ASSUME ControlInv, NEW p \in Request, NEW ph,
         \/ phase[p] \in LoopPhases /\ ph \in LoopPhases
         \/ phase[p] \in ShellPhases /\ ph \in ShellPhases,
         phase' = [phase EXCEPT ![p] = ph],
         UNCHANGED <<owner, callbacks, aborted>>,
         status' = status \/ status' = "busy",
         phase[p] = "top" => ph = "top" \/ status' = "busy",
         outcome' \in [Request -> Outcomes],
         \A q \in Request : outcome'[q] = "pending" => outcome[q] = "pending"
  PROVE  ControlInv'
<1> USE DEF ControlInv, ControlTypeOK
<1>1. \A q \in Request : phase'[q] = IF q = p THEN ph ELSE phase[q]
  OBVIOUS
<1>2. ph \in RequestPhases
  BY DEF RequestPhases
<1>3. ControlTypeOK'
  BY <1>2 DEF Statuses
<1>4. \A q \in Request : Running(q)' <=> Running(q)
  BY <1>1 DEF Running
<1>5. \A q \in Request : Live(q)' <=> Live(q)
  BY <1>4 DEF Live
<1>6. phase[p] # "queued" /\ ph # "queued"
  BY DEF LoopPhases, ShellPhases
<1>7. CallbacksWait'
  BY <1>1, <1>6 DEF CallbacksWait
<1>8. AbortedAreRunning'
  BY <1>4 DEF AbortedAreRunning
<1>9. OneLiveRun' /\ EntryHasRun'
  BY <1>5 DEF OneLiveRun, EntryHasRun
<1>10. WaitingIsListed'
  BY <1>1, <1>6 DEF WaitingIsListed, Waiting
<1>11. BusyWhileLooping'
  <2> SUFFICES ASSUME NEW q \in Request, Live(q)', phase'[q] \in LoopPhases \ {"top"}
               PROVE  status' # "idle"
    BY DEF BusyWhileLooping
  <2>1. CASE q = p /\ phase[p] = "top"
    BY <1>1, <2>1
  <2>2. CASE q = p /\ phase[p] # "top"
    <3>1. phase[p] \in LoopPhases
      BY <1>1, <2>2 DEF LoopPhases, ShellPhases
    <3> QED
      BY <1>5, <2>2, <3>1 DEF BusyWhileLooping
  <2>3. CASE q # p
    BY <1>1, <1>5, <2>3 DEF BusyWhileLooping
  <2> QED
    BY <2>1, <2>2, <2>3
<1> QED
  BY <1>3, <1>7, <1>8, <1>9, <1>10, <1>11

(* A request that neither runs nor waits moves on without touching the     *)
(* entry.                                                                  *)
LEMMA RequestMoves ==
  ASSUME ControlInv, NEW p \in Request, NEW ph \in NotRunning,
         phase[p] \in NotRunning,
         phase' = [phase EXCEPT ![p] = ph],
         UNCHANGED entry,
         NEW result \in Outcomes,
         outcome' = outcome \/ outcome' = [outcome EXCEPT ![p] = result]
  PROVE  ControlInv'
<1> USE DEF ControlInv, ControlTypeOK, entry
<1>1. \A q \in Request : phase'[q] = IF q = p THEN ph ELSE phase[q]
  OBVIOUS
<1>2. /\ phase[p] \notin LoopPhases \cup ShellPhases /\ phase[p] # "queued"
      /\ ph \notin LoopPhases \cup ShellPhases /\ ph # "queued" /\ ph \in RequestPhases
  BY DEF NotRunning, LoopPhases, ShellPhases, RequestPhases
<1>3. \A q \in Request : Running(q)' <=> Running(q)
  BY <1>1, <1>2 DEF Running
<1>4. \A q \in Request : Live(q)' <=> Live(q)
  BY <1>3 DEF Live
<1>5. \A q \in Request : q # p => outcome'[q] = outcome[q]
  OBVIOUS
<1>6. ControlTypeOK'
  BY <1>2
<1>7. CallbacksWait' /\ AbortedAreRunning'
  BY <1>1, <1>2, <1>3 DEF CallbacksWait, AbortedAreRunning
<1>8. OneLiveRun' /\ EntryHasRun'
  BY <1>4 DEF OneLiveRun, EntryHasRun
<1>9. WaitingIsListed'
  BY <1>1, <1>2, <1>5 DEF WaitingIsListed, Waiting
<1>10. BusyWhileLooping'
  BY <1>1, <1>2, <1>4 DEF BusyWhileLooping
<1> QED
  BY <1>6, <1>7, <1>8, <1>9, <1>10

(* start() gives the free entry to a request that is not running.          *)
LEMMA StartKeeps ==
  ASSUME ControlInv, NEW p \in Request, phase[p] \in NotRunning,
         NEW ph \in {"top", "shellStarting"},
         Start(p, ph), UNCHANGED outcome
  PROVE  ControlInv'
<1> USE DEF ControlInv, ControlTypeOK, Start, Reach
<1>1. \A q \in Request : phase'[q] = IF q = p THEN ph ELSE phase[q]
  OBVIOUS
<1>2. /\ phase[p] \notin LoopPhases \cup ShellPhases
      /\ ph \in LoopPhases \cup ShellPhases /\ ph \in RequestPhases /\ ph # "queued"
  BY DEF NotRunning, LoopPhases, ShellPhases, RequestPhases
<1>3. p \notin aborted
  BY <1>2 DEF AbortedAreRunning, Running
<1>4. \A q \in Request : Live(q)' <=> q = p
  <2>1. p # NoOne
    BY RequestAssumption
  <2>2. \A q \in Request : ~Live(q)
    BY RequestAssumption DEF OneLiveRun
  <2> QED
    BY <1>1, <1>2, <1>3, <2>2 DEF Live, Running
<1>5. ControlTypeOK'
  BY <1>2
<1>6. \A q \in Request : ~Waiting(q)
  BY DEF WaitingIsListed
<1>7. CallbacksWait' /\ AbortedAreRunning'
  BY <1>1, <1>2, RequestAssumption DEF CallbacksWait, AbortedAreRunning, Running
<1>8. OneLiveRun' /\ EntryHasRun'
  BY <1>4 DEF OneLiveRun, EntryHasRun
<1>9. WaitingIsListed'
  BY <1>1, <1>2, <1>6 DEF WaitingIsListed, Waiting
<1>10. BusyWhileLooping'
  <2>1. ph \notin LoopPhases \ {"top"}
    BY DEF LoopPhases
  <2> QED
    BY <1>1, <1>4, <2>1 DEF BusyWhileLooping
<1> QED
  BY <1>5, <1>7, <1>8, <1>9, <1>10

(* A prompt joins the callers of the running entry.                        *)
LEMMA WaitKeeps ==
  ASSUME ControlInv, NEW p \in Request, phase[p] \in NotRunning,
         Wait(p), UNCHANGED outcome
  PROVE  ControlInv'
<1> USE DEF ControlInv, ControlTypeOK, Wait, Reach
<1>1. \A q \in Request : phase'[q] = IF q = p THEN "queued" ELSE phase[q]
  OBVIOUS
<1>2. /\ phase[p] \notin LoopPhases \cup ShellPhases
      /\ "queued" \notin LoopPhases \cup ShellPhases /\ "queued" \in RequestPhases
  BY DEF NotRunning, LoopPhases, ShellPhases, RequestPhases
<1>3. \A q \in Request : Running(q)' <=> Running(q)
  BY <1>1, <1>2 DEF Running
<1>4. \A q \in Request : Live(q)' <=> Live(q)
  BY <1>3 DEF Live
<1>5. ControlTypeOK'
  BY <1>2
<1>6. CallbacksWait' /\ AbortedAreRunning'
  BY <1>1, <1>3 DEF CallbacksWait, AbortedAreRunning
<1>7. OneLiveRun' /\ EntryHasRun'
  BY <1>4 DEF OneLiveRun, EntryHasRun
<1>8. WaitingIsListed'
  BY <1>1 DEF WaitingIsListed, Waiting
<1>9. BusyWhileLooping'
  BY <1>1, <1>2, <1>4 DEF BusyWhileLooping
<1> QED
  BY <1>5, <1>6, <1>7, <1>8, <1>9

(* cancel() leaves no live run, no caller and no entry, and its callers    *)
(* have been rejected; `over` are the runs that end in the same step.      *)
LEMMA CleanSlate ==
  ASSUME ControlInv, NEW over \in SUBSET Request, ClearEntry(over)
  PROVE  /\ owner' = NoOne /\ callbacks' = {} /\ status' \in Statuses
         /\ aborted' \in SUBSET Request
         /\ \A q \in Request : Running(q) /\ q \notin over => q \in aborted'
         /\ \A q \in aborted' : Running(q) /\ q \notin over
<1> USE DEF ControlInv, ControlTypeOK
<1>1. CASE owner = NoOne
  <2>1. owner' = NoOne /\ callbacks' = {} /\ status' = status /\ aborted' = aborted \ over
    BY <1>1 DEF ClearEntry, CallbacksWait
  <2>2. \A q \in Request : Running(q) => q \in aborted
    BY <1>1, RequestAssumption DEF OneLiveRun, Live
  <2> QED
    BY <2>1, <2>2 DEF AbortedAreRunning
<1>2. CASE owner # NoOne
  <2>1. /\ owner' = NoOne /\ callbacks' = {} /\ status' = "idle"
        /\ aborted' = (aborted \cup {owner}) \ over
    BY <1>2 DEF ClearEntry
  <2>2. \A q \in Request : Running(q) => q \in aborted \cup {owner}
    BY DEF OneLiveRun, Live
  <2>3. Running(owner) /\ owner \in Request
    BY <1>2 DEF EntryHasRun, Live
  <2> QED
    BY <2>1, <2>2, <2>3 DEF AbortedAreRunning, Statuses
<1> QED
  BY <1>1, <1>2

(* The state after a cancel satisfies the invariant.                       *)
LEMMA ClearedInv ==
  ASSUME ControlInv, NEW over \in SUBSET Request, ClearEntry(over),
         phase' \in [Request -> RequestPhases], outcome' \in [Request -> Outcomes],
         \A q \in Request : q \notin over => phase'[q] = phase[q],
         \A q \in over : phase'[q] = "done",
         \A q \in Unsettled : outcome'[q] # "pending",
         \A q \in Request : outcome'[q] = "pending" => outcome[q] = "pending"
  PROVE  ControlInv'
<1> USE CleanSlate
<1>1. ControlTypeOK'
  BY DEF ControlTypeOK
<1>2. \A q \in Request : Running(q)' <=> Running(q) /\ q \notin over
  BY DEF Running, LoopPhases, ShellPhases
<1>3. \A q \in Request : ~Live(q)'
  BY <1>2 DEF Live
<1>4. CallbacksWait' /\ AbortedAreRunning'
  BY <1>2 DEF CallbacksWait, AbortedAreRunning
<1>5. OneLiveRun' /\ EntryHasRun' /\ BusyWhileLooping'
  BY <1>3 DEF OneLiveRun, EntryHasRun, BusyWhileLooping
<1>6. WaitingIsListed'
  <2> SUFFICES ASSUME NEW q \in Request, Waiting(q)' PROVE FALSE
    BY DEF WaitingIsListed
  <2>1. outcome[q] = "pending" /\ phase'[q] = "queued"
    BY DEF Waiting
  <2>2. q \notin over /\ phase[q] = "queued"
    BY <2>1
  <2>3. q \in callbacks
    BY <2>1, <2>2 DEF ControlInv, WaitingIsListed, Waiting
  <2> QED
    BY <2>1, <2>3 DEF Unsettled, Waiting
<1> QED
  BY <1>1, <1>4, <1>5, <1>6 DEF ControlInv

LEMMA EndRunKeeps ==
  ASSUME ControlInv, NEW p \in Request, Running(p),
         NEW result \in Outcomes \ {"pending"}, EndRun(p, result)
  PROVE  ControlInv'
<1> USE DEF ControlInv, ControlTypeOK, EndRun
<1>1. phase' \in [Request -> RequestPhases] /\ phase'[p] = "done"
  BY DEF RequestPhases
<1>2. outcome' \in [Request -> Outcomes]
  BY DEF Outcomes
<1>3. \A q \in Request : outcome'[q] = "pending" => outcome[q] = "pending"
  OBVIOUS
<1>4. \A q \in Unsettled : outcome'[q] # "pending"
  <2>1. Unsettled \subseteq Request
    BY DEF Unsettled
  <2> QED
    BY <2>1
<1>5. \A q \in Request : q \notin {p} => phase'[q] = phase[q]
  OBVIOUS
<1>6. ClearEntry({p})
  OBVIOUS
<1> QED
  BY <1>1, <1>2, <1>3, <1>4, <1>5, <1>6, ClearedInv

LEMMA CancelKeeps ==
  ASSUME ControlInv, Cancel
  PROVE  ControlInv'
<1> USE DEF ControlInv, ControlTypeOK, Cancel
<1>1. outcome' \in [Request -> Outcomes]
  BY DEF Outcomes
<1>2. \A q \in Request : outcome'[q] = "pending" => outcome[q] = "pending"
  OBVIOUS
<1>3. \A q \in Unsettled : outcome'[q] # "pending"
  <2>1. Unsettled \subseteq Request
    BY DEF Unsettled
  <2> QED
    BY <2>1
<1>4. ClearEntry({}) /\ phase' = phase
  OBVIOUS
<1> QED
  BY <1>1, <1>2, <1>3, <1>4, ClearedInv

(***************************************************************************)
(* Every action is a step of one of these kinds.                           *)
(***************************************************************************)
LEMMA StepKeeps ==
  ASSUME ControlInv, NEW p \in Request, LoopStep(p)
  PROVE  ControlInv'
<1>1. ControlTypeOK
  BY DEF ControlInv
<1>2. outcome \in [Request -> Outcomes]
  BY <1>1 DEF ControlTypeOK
<1>3. CASE StoreMessage(p)
  <2>1. PICK ph \in {"stored", "storing"} : phase' = [phase EXCEPT ![p] = ph]
    BY <1>3 DEF StoreMessage, Reach
  <2> QED
    BY <1>3, <2>1, RequestMoves DEF StoreMessage, NotRunning, Outcomes
<1>4. CASE StoreTask(p)
  BY <1>4, RequestMoves DEF StoreTask, Reach, NotRunning, Outcomes
<1>5. CASE NoReply(p)
  BY <1>5, RequestMoves DEF NoReply, Reach, NotRunning, Outcomes
<1>6. CASE Loop(p)
  <2>1. phase[p] \in NotRunning /\ UNCHANGED outcome
    BY <1>6 DEF Loop, NotRunning
  <2> QED
    BY <1>6, <2>1, StartKeeps, WaitKeeps DEF Loop
<1>7. CASE LoopTop(p)
  <2>1. PICK ph \in {"exiting", "reading"} : phase' = [phase EXCEPT ![p] = ph]
    BY <1>7 DEF LoopTop, Reach
  <2> QED
    BY <1>2, <1>7, <2>1, RunGoesOn DEF LoopTop, LoopPhases
<1>8. CASE Decide(p)
  <2>1. PICK ph \in {"exiting", "subtask", "compacting", "asking", "overflowing"} :
          phase' = [phase EXCEPT ![p] = ph]
    BY <1>8 DEF Decide, Reach
  <2>2. phase[p] = "reading" /\ UNCHANGED entry /\ UNCHANGED outcome
    BY <1>8 DEF Decide
  <2> QED
    BY <1>2, <2>1, <2>2, RunGoesOn DEF entry, LoopPhases
<1>9. CASE Throw(p)
  BY <1>9, EndRunKeeps DEF Throw, Running, LoopPhases, ShellPhases, Outcomes
<1>10. CASE WriteReply(p)
  <2>1. PICK ph \in {"streaming", "subtaskRunning", "summarising"} :
          phase' = [phase EXCEPT ![p] = ph]
    BY <1>10 DEF WriteReply, Reach
  <2>2. phase[p] \in {"asking", "subtask", "compacting"} /\ UNCHANGED entry /\ UNCHANGED outcome
    BY <1>10 DEF WriteReply
  <2> QED
    BY <1>2, <2>1, <2>2, RunGoesOn DEF entry, LoopPhases
<1>11. CASE StreamEnds(p)
  <2>1. PICK ph \in {"top", "exiting", "overflowing"} : phase' = [phase EXCEPT ![p] = ph]
    BY <1>11 DEF StreamEnds, Reach
  <2>2. phase[p] = "streaming" /\ UNCHANGED entry /\ UNCHANGED outcome
    BY <1>11 DEF StreamEnds
  <2> QED
    BY <1>2, <2>1, <2>2, RunGoesOn DEF entry, LoopPhases
<1>12. CASE SummaryEnds(p)
  <2>1. PICK ph \in {"top", "noting"} : phase' = [phase EXCEPT ![p] = ph]
    BY <1>12 DEF SummaryEnds, Reach
  <2>2. phase[p] = "summarising" /\ UNCHANGED entry /\ UNCHANGED outcome
    BY <1>12 DEF SummaryEnds
  <2> QED
    BY <1>2, <2>1, <2>2, RunGoesOn DEF entry, LoopPhases
<1>13. CASE StreamFails(p)
  BY <1>2, <1>13, RunGoesOn DEF StreamFails, Reach, entry, LoopPhases
<1>14. CASE SubtaskEnds(p)
  <2>1. PICK ph \in {"top", "noting"} : phase' = [phase EXCEPT ![p] = ph]
    BY <1>14 DEF SubtaskEnds, Reach
  <2>2. phase[p] = "subtaskRunning" /\ UNCHANGED entry /\ UNCHANGED outcome
    BY <1>14 DEF SubtaskEnds
  <2> QED
    BY <1>2, <2>1, <2>2, RunGoesOn DEF entry, LoopPhases
<1>15. CASE StoreNote(p)
  BY <1>2, <1>15, RunGoesOn DEF StoreNote, Reach, entry, LoopPhases
<1>16. CASE Drain(p)
  <2>1. \A q \in Request : outcome'[q] = "pending" => outcome[q] = "pending"
    BY <1>16 DEF Drain
  <2>2. outcome' \in [Request -> Outcomes]
    BY <1>2, <1>16 DEF Drain, Outcomes
  <2>3. phase[p] = "exiting" /\ phase' = [phase EXCEPT ![p] = "returning"] /\ UNCHANGED entry
    BY <1>16 DEF Drain, Reach
  <2> QED
    BY <2>1, <2>2, <2>3, RunGoesOn DEF entry, LoopPhases
<1>17. CASE DrainNothing(p)
  BY <1>17, EndRunKeeps DEF DrainNothing, Running, LoopPhases, Outcomes
<1>18. CASE Return(p)
  BY <1>18, EndRunKeeps DEF Return, Running, LoopPhases, Outcomes
<1>19. CASE ShellAsk(p)
  BY <1>2, <1>19, RunGoesOn DEF ShellAsk, Reach, entry, ShellPhases
<1>20. CASE ShellReply(p)
  BY <1>2, <1>20, RunGoesOn DEF ShellReply, Reach, entry, ShellPhases
<1>21. CASE ShellEnds(p)
  BY <1>21, EndRunKeeps DEF ShellEnds, Running, ShellPhases, Outcomes
<1> QED
  BY <1>3, <1>4, <1>5, <1>6, <1>7, <1>8, <1>9, <1>10, <1>11, <1>12, <1>13, <1>14,
     <1>15, <1>16, <1>17, <1>18, <1>19, <1>20, <1>21 DEF LoopStep

LEMMA ArriveKeeps ==
  ASSUME ControlInv, NEW p \in Request, Arrival(p)
  PROVE  ControlInv'
<1>1. CASE Compose(p)
  BY <1>1, RequestMoves DEF Compose, Reach, NotRunning, Outcomes
<1>2. CASE ShellStart(p)
  <2>1. phase[p] \in NotRunning /\ UNCHANGED outcome /\ Start(p, "shellStarting")
    BY <1>2 DEF ShellStart, NotRunning
  <2> QED
    BY <2>1, StartKeeps
<1>3. CASE ShellBusy(p)
  BY <1>3, RequestMoves DEF ShellBusy, Reach, NotRunning, Outcomes
<1> QED
  BY <1>1, <1>2, <1>3 DEF Arrival

LEMMA StreamReportsKeeps ==
  ASSUME ControlInv, NEW p \in Request, StreamReports(p)
  PROVE  ControlInv'
<1>1. phase \in [Request -> RequestPhases] /\ outcome \in [Request -> Outcomes]
  BY DEF ControlInv, ControlTypeOK
<1>2. phase' = [phase EXCEPT ![p] = phase[p]]
  BY <1>1 DEF StreamReports
<1> QED
  BY <1>1, <1>2, RunGoesOn DEF StreamReports, LoopPhases

LEMMA ControlStarts == LoopInit => ControlInv
BY RequestAssumption
   DEF LoopInit, ControlInv, ControlTypeOK, CallbacksWait, AbortedAreRunning, OneLiveRun,
       EntryHasRun, WaitingIsListed, BusyWhileLooping, Live, Waiting, Running, LoopPhases,
       ShellPhases, RequestPhases, Statuses, Outcomes

LEMMA ControlStep == ControlInv /\ [LoopNext]_loop => ControlInv'
<1> SUFFICES ASSUME ControlInv, [LoopNext]_loop PROVE ControlInv'
  OBVIOUS
<1>1. CASE UNCHANGED loop
  BY <1>1 DEF loop, ControlInv, ControlTypeOK, CallbacksWait, AbortedAreRunning,
              OneLiveRun, EntryHasRun, WaitingIsListed, BusyWhileLooping, Live, Waiting, Running
<1> QED
  BY <1>1, CancelKeeps, StepKeeps, ArriveKeeps, StreamReportsKeeps DEF LoopNext

(* The run entry, the controllers, the waiting callers and the status of   *)
(* the session stay consistent, whatever prompts, shell commands and       *)
(* cancels arrive, and however their runs overlap.                         *)
THEOREM Control == LoopSpec => []ControlInv
BY ControlStarts, ControlStep, PTL DEF LoopSpec

(* At most one run of the session is not cancelled: it owns the entry.     *)
THEOREM OneLiveRunAlways == LoopSpec => []OneLiveRun
<1>1. ControlInv => OneLiveRun
  BY DEF ControlInv
<1> QED
  BY <1>1, Control, PTL

(* A caller that waits is on the list of an entry whose run is still on,   *)
(* so some later step of that run, or a cancel, settles it.                *)
THEOREM WaitingCallersAreHeld == LoopSpec => [](WaitingIsListed /\ EntryHasRun)
<1>1. ControlInv => WaitingIsListed /\ EntryHasRun
  BY DEF ControlInv
<1> QED
  BY <1>1, Control, PTL

(* A loop that nobody cancelled is never reported idle.                    *)
THEOREM LoopingIsBusy == LoopSpec => []BusyWhileLooping
<1>1. ControlInv => BusyWhileLooping
  BY DEF ControlInv
<1> QED
  BY <1>1, Control, PTL

-----------------------------------------------------------------------------
(* The history *)

(* Of finitely many ids one is the greatest.                               *)
LEMMA GreatestExists ==
  ASSUME NEW c \in Nat, NEW T \in SUBSET (0..c), T # {}
  PROVE  \E i \in T : \A j \in T : j <= i
<1> DEFINE S == 0..c
           R1 == StrictSubsetOrdering(S)
           U == {i..c : i \in T}
<1>1. IsWellFoundedOn(R1, FiniteSubsetsOf(S))
  BY FS_StrictSubsetOrderingWellFounded
<1>2. \A i \in T : i..c \subseteq S
  OBVIOUS
<1>3. U \subseteq FiniteSubsetsOf(S) /\ U # {}
  <2>1. \A i \in T : IsFiniteSet(i..c)
    BY FS_Interval
  <2> QED
    BY <1>2, <2>1 DEF FiniteSubsetsOf
<1>4. \E x \in U : \A y \in U : <<y, x>> \notin R1
  <2> HIDE DEF R1, U, S
  <2> QED
    BY <1>1, <1>3, WFMin
<1>5. PICK i \in T : \A j \in T : <<j..c, i..c>> \notin R1
  BY <1>4
<1>6. SUFFICES ASSUME NEW j \in T, j > i PROVE FALSE
  OBVIOUS
<1>7. j..c \subseteq i..c /\ i \in i..c /\ i \notin j..c
  BY <1>6
<1>8. <<j..c, i..c>> \in R1
  BY <1>2, <1>7 DEF StrictSubsetOrdering
<1> QED
  BY <1>5, <1>8

(* So Newest chooses a message of the set it looks at.                     *)
LEMMA NewestIsOne ==
  ASSUME NEW c \in Nat, NEW M, M # {}, \A m \in M : m.id \in 1..c
  PROVE  Newest(M) \in M /\ \A n \in M : n.id <= Newest(M).id
<1> DEFINE T == {m.id : m \in M}
<1>1. T \in SUBSET (0..c) /\ T # {}
  OBVIOUS
<1>2. \E i \in T : \A j \in T : j <= i
  <2> HIDE DEF T
  <2> QED
    BY <1>1, GreatestExists
<1>3. \E m \in M : \A n \in M : n.id <= m.id
  BY <1>2
<1> QED
  BY <1>3 DEF Newest

(* A step that gives no id and changes no message.  A prompt between its   *)
(* id and its task stays there, and a run keeps its reply or drops it.     *)
LEMMA HistoryStays ==
  ASSUME HistoryInv, UNCHANGED <<messages, clock, asked, shown>>,
         \A p \in Request : phase'[p] \in {"composing", "storing"} => phase'[p] = phase[p],
         ctx' \in [Request -> [seen : SUBSET (1..clock), parent : 0..clock, reply : 0..clock]],
         \A p \in Request : ctx'[p].reply \in {0, ctx[p].reply}
  PROVE  HistoryInv'
<1>1. HistoryTypeOK'
  BY DEF HistoryInv, HistoryTypeOK
<1>2. IdsAreUnique'
  BY DEF HistoryInv, IdsAreUnique
<1>3. AskedInv'
  BY DEF HistoryInv, AskedInv, Ids
<1>4. ReplyInv'
  BY DEF HistoryInv, ReplyInv
<1> QED
  BY <1>1, <1>2, <1>3, <1>4 DEF HistoryInv

(* A new message under a new id, which may be the reply of a run.          *)
LEMMA HistoryGrows ==
  ASSUME HistoryInv, NEW m \in Message, m.id = clock + 1,
         NewId, messages' = messages \cup {m}, UNCHANGED asked,
         shown' \in SUBSET (1..clock),
         \A p \in Request : phase'[p] \in {"composing", "storing"} => phase'[p] = phase[p],
         ctx' \in [Request -> [seen : SUBSET (1..clock), parent : 0..clock, reply : 0..clock + 1]],
         \A p \in Request : \/ ctx'[p].reply \in {0, ctx[p].reply}
                            \/ ctx'[p].reply = clock + 1 /\ m.role = "assistant"
  PROVE  HistoryInv'
<1>0. clock \in Nat /\ clock' = clock + 1 /\ \A n \in messages : n.id \in 1..clock
  BY DEF HistoryInv, HistoryTypeOK, NewId
<1>1. HistoryTypeOK'
  <2>1. 0..clock \subseteq 0..clock' /\ 1..clock \subseteq 1..clock'
    BY <1>0
  <2>2. messages' \in SUBSET Message /\ \A n \in messages' : n.id \in 1..clock'
    BY <1>0, <2>1 DEF HistoryInv, HistoryTypeOK
  <2>3. asked' \in [Request -> 0..clock']
    BY <2>1 DEF HistoryInv, HistoryTypeOK
  <2>4. ctx' \in [Request -> [seen : SUBSET (1..clock'), parent : 0..clock', reply : 0..clock']]
    BY <1>0, <2>1
  <2> QED
    BY <1>0, <2>1, <2>2, <2>3, <2>4 DEF HistoryTypeOK
<1>2. IdsAreUnique'
  BY <1>0 DEF HistoryInv, IdsAreUnique
<1>3. AskedInv'
  <2>1. \A p \in Request : asked[p] # clock + 1
    BY <1>0 DEF HistoryInv, HistoryTypeOK
  <2> QED
    BY <2>1 DEF HistoryInv, AskedInv, Ids
<1>4. ReplyInv'
  BY DEF HistoryInv, ReplyInv
<1> QED
  BY <1>1, <1>2, <1>3, <1>4 DEF HistoryInv

(* A run finishes its reply: that is an assistant message, no prompt's.    *)
LEMMA FinishKeeps ==
  ASSUME HistoryInv, NEW p \in Request, NEW f \in {"stop", "tool-calls"}, Finish(p, f),
         UNCHANGED <<clock, asked, shown>>,
         \A q \in Request : phase'[q] \in {"composing", "storing"} => phase'[q] = phase[q]
  PROVE  HistoryInv'
<1> DEFINE New(m) == IF m.id = ctx[p].reply THEN [m EXCEPT !.finish = f] ELSE m
<1>0. /\ messages' = {New(m) : m \in messages}
      /\ messages \in SUBSET Message
      /\ \A m \in messages : m.id \in 1..clock
      /\ clock \in Nat
      /\ ctx \in [Request -> [seen : SUBSET (1..clock), parent : 0..clock, reply : 0..clock]]
      /\ ctx' = [ctx EXCEPT ![p] = NoContext]
  BY DEF HistoryInv, HistoryTypeOK, Finish
<1>1. \A m \in messages : New(m) \in Message /\ New(m).id = m.id /\ New(m).role = m.role
  BY <1>0 DEF Message
<1>2. HistoryTypeOK'
  <2>1. messages' \in SUBSET Message /\ \A m \in messages' : m.id \in 1..clock
    <3> HIDE DEF New
    <3> QED
      BY <1>0, <1>1
  <2>2. ctx' \in [Request -> [seen : SUBSET (1..clock), parent : 0..clock, reply : 0..clock]]
    BY <1>0 DEF NoContext
  <2> QED
    BY <2>1, <2>2 DEF HistoryInv, HistoryTypeOK
<1>3. IdsAreUnique'
  <2> HIDE DEF New
  <2> QED
    BY <1>0, <1>1 DEF HistoryInv, IdsAreUnique
<1>4. Ids(messages)' = Ids(messages)
  <2> HIDE DEF New
  <2> QED
    BY <1>0, <1>1 DEF Ids
<1>5. ASSUME NEW q \in Request, UserMessage(asked[q], "none") \in messages
      PROVE  UserMessage(asked[q], "none") \in messages'
  <2> DEFINE u == UserMessage(asked[q], "none")
  <2>1. u.role = "user" /\ u.id \in 1..clock
    BY <1>0, <1>5 DEF UserMessage
  <2>2. u.id # ctx[p].reply
    <3> SUFFICES ASSUME u.id = ctx[p].reply PROVE FALSE
      OBVIOUS
    <3>1. PICK m \in messages : m.id = ctx[p].reply /\ m.role = "assistant"
      <4> HIDE DEF u
      <4> QED
        BY <1>0, <2>1 DEF HistoryInv, ReplyInv
    <3>2. m = u
      BY <1>5, <3>1 DEF HistoryInv, IdsAreUnique
    <3> QED
      BY <2>1, <3>1, <3>2
  <2>3. New(u) = u
    BY <2>2
  <2> QED
    <3> HIDE DEF New, u
    <3> QED
      BY <1>0, <1>5, <2>3 DEF u
<1>6. AskedInv'
  <2>1. AskedInv
    BY DEF HistoryInv
  <2> QED
    BY <1>4, <1>5, <2>1 DEF AskedInv
<1>7. ReplyInv'
  <2> SUFFICES ASSUME NEW q \in Request, ctx'[q].reply # 0
               PROVE  \E m \in messages' : m.id = ctx'[q].reply /\ m.role = "assistant"
    BY DEF ReplyInv
  <2>1. ctx'[q].reply = ctx[q].reply
    BY <1>0 DEF NoContext
  <2>2. PICK m \in messages : m.id = ctx[q].reply /\ m.role = "assistant"
    BY <2>1 DEF HistoryInv, ReplyInv
  <2> HIDE DEF New
  <2> QED
    BY <1>0, <1>1, <2>1, <2>2
<1> QED
  BY <1>2, <1>3, <1>6, <1>7 DEF HistoryInv

LEMMA ComposeKeepsHistory ==
  ASSUME HistoryInv, ControlTypeOK, NEW p \in Request, Compose(p)
  PROVE  HistoryInv'
<1>0. /\ clock \in Nat /\ clock' = clock + 1 /\ \A n \in messages : n.id \in 1..clock
      /\ asked \in [Request -> 0..clock] /\ asked' = [asked EXCEPT ![p] = clock + 1]
      /\ phase' = [phase EXCEPT ![p] = "composing"] /\ phase \in [Request -> RequestPhases]
      /\ UNCHANGED <<messages, ctx, shown>>
  BY DEF HistoryInv, HistoryTypeOK, Compose, NewId, Reach, ControlTypeOK
<1>1. \A q \in Request : asked'[q] = IF q = p THEN clock + 1 ELSE asked[q]
  BY <1>0
<1>2. \A q \in Request : phase'[q] = IF q = p THEN "composing" ELSE phase[q]
  BY <1>0
<1>3. HistoryTypeOK'
  <2>1. 0..clock \subseteq 0..clock' /\ 1..clock \subseteq 1..clock' /\ clock + 1 \in 0..clock'
    BY <1>0
  <2>2. asked' \in [Request -> 0..clock']
    BY <1>0, <2>1
  <2>3. ctx' \in [Request -> [seen : SUBSET (1..clock'), parent : 0..clock', reply : 0..clock']]
    <3>1. ctx \in [Request -> [seen : SUBSET (1..clock), parent : 0..clock, reply : 0..clock]]
      BY DEF HistoryInv, HistoryTypeOK
    <3> QED
      BY <1>0, <2>1, <3>1
  <2>4. messages' \in SUBSET Message /\ shown' \in SUBSET (1..clock')
    BY <1>0, <2>1 DEF HistoryInv, HistoryTypeOK
  <2>5. clock' \in Nat /\ \A n \in messages' : n.id \in 1..clock'
    BY <1>0, <2>1
  <2> QED
    BY <2>2, <2>3, <2>4, <2>5 DEF HistoryTypeOK
<1>4. IdsAreUnique' /\ ReplyInv'
  BY <1>0 DEF HistoryInv, IdsAreUnique, ReplyInv
<1>5. AskedInv'
  <2>1. AskedInv
    BY DEF HistoryInv
  <2>2. \A q \in Request : asked[q] # clock + 1
    BY <1>0
  <2>3. clock + 1 > 0 /\ clock + 1 \notin Ids(messages)
    BY <1>0 DEF Ids
  <2>4. Ids(messages)' = Ids(messages)
    BY <1>0 DEF Ids
  <2> QED
    BY <1>0, <1>1, <1>2, <2>1, <2>2, <2>3, <2>4 DEF AskedInv
<1> QED
  BY <1>3, <1>4, <1>5 DEF HistoryInv

(* The message of a prompt, under the id that the prompt has taken.        *)
LEMMA StoreMessageKeepsHistory ==
  ASSUME HistoryInv, ControlTypeOK, NEW p \in Request, StoreMessage(p)
  PROVE  HistoryInv'
<1> DEFINE u == UserMessage(asked[p], "none")
<1>0. /\ phase[p] = "composing" /\ messages' = messages \cup {u}
      /\ UNCHANGED <<clock, asked, ctx, shown>>
      /\ clock \in Nat /\ asked \in [Request -> 0..clock] /\ phase \in [Request -> RequestPhases]
      /\ \A n \in messages : n.id \in 1..clock
  BY DEF HistoryInv, HistoryTypeOK, StoreMessage, ControlTypeOK
<1>1. PICK ph \in {"stored", "storing"} : phase' = [phase EXCEPT ![p] = ph]
  BY DEF StoreMessage, Reach
<1>2. \A q \in Request : phase'[q] = IF q = p THEN ph ELSE phase[q]
  BY <1>0, <1>1
<1>3. asked[p] > 0 /\ asked[p] \notin Ids(messages) /\ asked[p] \in 1..clock
  BY <1>0 DEF HistoryInv, AskedInv
<1>4. u \in Message /\ u.id = asked[p]
  BY <1>0 DEF UserMessage, Message, Tasks
<1> HIDE DEF u
<1>5. HistoryTypeOK'
  BY <1>0, <1>3, <1>4 DEF HistoryInv, HistoryTypeOK
<1>6. IdsAreUnique'
  BY <1>0, <1>3, <1>4 DEF HistoryInv, IdsAreUnique, Ids
<1>7. ReplyInv'
  BY <1>0 DEF HistoryInv, ReplyInv
<1>8. AskedInv'
  <2>1. Ids(messages)' = Ids(messages) \cup {asked[p]}
    BY <1>0, <1>4 DEF Ids
  <2>2. \A q \in Request \ {p} : asked[q] # asked[p]
    BY <1>0, <1>3 DEF HistoryInv, AskedInv
  <2>3. UserMessage(asked[p], "none") \in messages'
    BY <1>0 DEF u
  <2>4. AskedInv
    BY DEF HistoryInv
  <2> QED
    BY <1>0, <1>2, <2>1, <2>2, <2>3, <2>4 DEF AskedInv
<1> QED
  BY <1>5, <1>6, <1>7, <1>8 DEF HistoryInv

(* The same message with its task: it is the only one with its id.         *)
LEMMA StoreTaskKeepsHistory ==
  ASSUME HistoryInv, ControlTypeOK, NEW p \in Request, StoreTask(p)
  PROVE  HistoryInv'
<1> DEFINE u == UserMessage(asked[p], "none")
<1>0. /\ phase[p] = "storing"
      /\ UNCHANGED <<clock, asked, ctx, shown>>
      /\ clock \in Nat /\ asked \in [Request -> 0..clock] /\ phase \in [Request -> RequestPhases]
      /\ \A n \in messages : n.id \in 1..clock
      /\ phase' = [phase EXCEPT ![p] = "stored"]
  BY DEF HistoryInv, HistoryTypeOK, StoreTask, ControlTypeOK, Reach
<1>1. PICK task \in Tasks : messages' = (messages \ {u}) \cup {UserMessage(asked[p], task)}
  BY KindsAssumption DEF StoreTask, Tasks
<1> DEFINE v == UserMessage(asked[p], task)
<1>2. \A q \in Request : phase'[q] = IF q = p THEN "stored" ELSE phase[q]
  BY <1>0
<1>3. u \in messages /\ u.id = asked[p] /\ u.role = "user"
  BY <1>0 DEF HistoryInv, AskedInv, UserMessage
<1>4. v \in Message /\ v.id = asked[p]
  BY <1>0 DEF UserMessage, Message
<1>5. asked[p] \in 1..clock
  BY <1>0, <1>3
<1> HIDE DEF v
<1>6. messages' = (messages \ {u}) \cup {v}
  BY <1>1 DEF v
<1>7. HistoryTypeOK'
  BY <1>0, <1>4, <1>5, <1>6 DEF HistoryInv, HistoryTypeOK
<1> HIDE DEF u
<1>8. IdsAreUnique'
  BY <1>3, <1>4, <1>6 DEF HistoryInv, IdsAreUnique
<1>9. ReplyInv'
  <2> SUFFICES ASSUME NEW q \in Request, ctx[q].reply # 0
               PROVE  \E m \in messages' : m.id = ctx[q].reply /\ m.role = "assistant"
    BY <1>0 DEF ReplyInv
  <2>1. PICK m \in messages : m.id = ctx[q].reply /\ m.role = "assistant"
    BY DEF HistoryInv, ReplyInv
  <2>2. m # u
    BY <1>3, <2>1
  <2> QED
    BY <1>6, <2>1, <2>2
<1>10. AskedInv'
  <2>1. Ids(messages)' = Ids(messages)
    BY <1>3, <1>4, <1>6 DEF Ids
  <2>2. AskedInv
    BY DEF HistoryInv
  <2>3. ASSUME NEW q \in Request \ {p}, UserMessage(asked[q], "none") \in messages
        PROVE  UserMessage(asked[q], "none") \in messages'
    <3>1. UserMessage(asked[q], "none").id = asked[q]
      BY DEF UserMessage
    <3>2. asked[q] # asked[p]
      BY <1>5, <2>2 DEF AskedInv
    <3> QED
      BY <1>3, <1>6, <2>3, <3>1, <3>2
  <2> QED
    BY <1>0, <1>2, <2>1, <2>2, <2>3 DEF AskedInv
<1> QED
  BY <1>7, <1>8, <1>9, <1>10 DEF HistoryInv

(* What a run reads of a history that has a user message.                  *)
LEMMA ReadIsTyped ==
  ASSUME HistoryInv, Users(messages) # {}
  PROVE  LET M == Unhidden(messages)
         IN [seen |-> Ids(Users(M)), parent |-> Newest(Users(M)).id, reply |-> 0]
              \in [seen : SUBSET (1..clock), parent : 0..clock, reply : 0..clock]
<1>0. clock \in Nat /\ \A m \in messages : m.id \in 1..clock
  BY DEF HistoryInv, HistoryTypeOK
<1>1. Unhidden(messages) \subseteq messages
  BY DEF Unhidden
<1>2. Users(Unhidden(messages)) # {}
  <2>1. CASE Compacted(messages) = {}
    BY <2>1 DEF Unhidden
  <2>2. CASE Compacted(messages) # {}
    <3> DEFINE u == Newest(Compacted(messages))
    <3>1. Compacted(messages) \subseteq Users(messages)
      BY DEF Compacted
    <3>2. \A m \in Compacted(messages) : m.id \in 1..clock
      BY <1>0, <3>1 DEF Users
    <3>3. u \in Compacted(messages)
      BY <1>0, <2>2, <3>2, NewestIsOne
    <3>4. u \in messages /\ u.role = "user" /\ u.id \in Nat
      BY <1>0, <3>1, <3>3 DEF Users
    <3>5. u \in Unhidden(messages)
      BY <2>2, <3>4 DEF Unhidden
    <3> QED
      BY <3>4, <3>5 DEF Users
  <2> QED
    BY <2>1, <2>2
<1>3. \A m \in Users(Unhidden(messages)) : m.id \in 1..clock
  BY <1>0, <1>1 DEF Users
<1>4. Newest(Users(Unhidden(messages))).id \in 1..clock
  BY <1>0, <1>2, <1>3, NewestIsOne
<1>5. Ids(Users(Unhidden(messages))) \subseteq 1..clock
  BY <1>3 DEF Ids
<1> QED
  BY <1>0, <1>4, <1>5

(* A step that keeps the contexts, or clears that of one run.              *)
LEMMA ContextsKept ==
  ASSUME HistoryInv, NEW p \in Request,
         ctx' = ctx \/ ctx' = [ctx EXCEPT ![p] = NoContext]
  PROVE  /\ ctx' \in [Request -> [seen : SUBSET (1..clock), parent : 0..clock, reply : 0..clock]]
         /\ \A q \in Request : ctx'[q].reply \in {0, ctx[q].reply}
<1>1. /\ clock \in Nat
      /\ ctx \in [Request -> [seen : SUBSET (1..clock), parent : 0..clock, reply : 0..clock]]
  BY DEF HistoryInv, HistoryTypeOK
<1>2. NoContext \in [seen : SUBSET (1..clock), parent : 0..clock, reply : 0..clock]
  BY <1>1 DEF NoContext
<1>3. NoContext.reply = 0
  BY DEF NoContext
<1> QED
  BY <1>1, <1>2, <1>3

LEMMA StepKeepsHistory ==
  ASSUME HistoryInv, ControlTypeOK, NEW p \in Request, LoopStep(p)
  PROVE  HistoryInv'
<1>0. phase \in [Request -> RequestPhases]
  BY DEF ControlTypeOK
<1> DEFINE Contexts(n) == [seen : SUBSET (1..n), parent : 0..n, reply : 0..n]
           Behind == \A q \in Request : phase'[q] \in {"composing", "storing"} => phase'[q] = phase[q]
<1>b. ASSUME NEW ph, ph \notin {"composing", "storing"}, Reach(p, ph)
      PROVE  Behind
  BY <1>0, <1>b DEF Reach
<1>1. CASE StoreMessage(p)
  BY <1>1, StoreMessageKeepsHistory
<1>2. CASE StoreTask(p)
  BY <1>2, StoreTaskKeepsHistory
<1>3. CASE NoReply(p) \/ Loop(p) \/ LoopTop(p) \/ StreamFails(p) \/ Drain(p)
  <2>1. UNCHANGED <<messages, clock, asked, shown>>
    BY <1>3 DEF NoReply, Loop, LoopTop, StreamFails, Drain
  <2>2. ctx' = ctx \/ ctx' = [ctx EXCEPT ![p] = NoContext]
    BY <1>3 DEF NoReply, Loop, LoopTop, StreamFails, Drain
  <2>3. \E ph \in {"done", "top", "queued", "exiting", "reading", "returning"} : Reach(p, ph)
    BY <1>3 DEF NoReply, Loop, Start, Wait, LoopTop, StreamFails, Drain
  <2>4. Behind
    BY <1>b, <2>3
  <2> QED
    BY <2>1, <2>2, <2>4, ContextsKept, HistoryStays
<1>4. CASE Throw(p) \/ DrainNothing(p) \/ Return(p) \/ ShellEnds(p)
  <2>1. UNCHANGED <<messages, clock, asked, shown>>
    BY <1>4 DEF Throw, DrainNothing, Return, ShellEnds
  <2>2. ctx' = [ctx EXCEPT ![p] = NoContext] /\ Reach(p, "done")
    BY <1>4 DEF Throw, DrainNothing, Return, ShellEnds, EndRun, Reach
  <2>3. Behind
    BY <1>b, <2>2
  <2> QED
    BY <2>1, <2>2, <2>3, ContextsKept, HistoryStays
<1>5. CASE Decide(p)
  <2> DEFINE read == LET M == Unhidden(messages)
                     IN [seen |-> Ids(Users(M)), parent |-> Newest(Users(M)).id, reply |-> 0]
  <2>1. UNCHANGED <<messages, clock, asked, shown>> /\ Users(messages) # {}
    BY <1>5 DEF Decide
  <2>2. ctx' = ctx \/ ctx' = [ctx EXCEPT ![p] = read]
    BY <1>5 DEF Decide
  <2>3. \E ph \in {"exiting", "subtask", "compacting", "asking", "overflowing"} : Reach(p, ph)
    BY <1>5 DEF Decide
  <2>4. Behind
    BY <1>b, <2>3
  <2>5. read \in Contexts(clock) /\ read.reply = 0
    BY <2>1, ReadIsTyped
  <2>6. ctx \in [Request -> Contexts(clock)]
    BY DEF HistoryInv, HistoryTypeOK
  <2> HIDE DEF read
  <2>7. /\ ctx' \in [Request -> Contexts(clock)]
        /\ \A q \in Request : ctx'[q].reply \in {0, ctx[q].reply}
    BY <2>2, <2>5, <2>6
  <2> QED
    BY <2>1, <2>4, <2>7, HistoryStays
<1>6. CASE WriteReply(p)
  <2>0. /\ clock \in Nat /\ ctx \in [Request -> Contexts(clock)] /\ shown \in SUBSET (1..clock)
    BY DEF HistoryInv, HistoryTypeOK
  <2>1. PICK m \in {AssistantMessage(clock + 1), SummaryMessage(clock + 1, ctx[p].parent)} :
          messages' = messages \cup {m}
    BY <1>6 DEF WriteReply
  <2>2. m \in Message /\ m.id = clock + 1 /\ m.role = "assistant"
    <3>1. ctx[p].parent \in Nat /\ clock + 1 \in Nat
      BY <2>0
    <3>2. AssistantMessage(clock + 1) \in Message /\ SummaryMessage(clock + 1, ctx[p].parent) \in Message
      BY <3>1 DEF AssistantMessage, SummaryMessage, Message, Tasks
    <3>3. CASE m = AssistantMessage(clock + 1)
      BY <3>2, <3>3 DEF AssistantMessage
    <3>4. CASE m = SummaryMessage(clock + 1, ctx[p].parent)
      BY <3>2, <3>4 DEF SummaryMessage
    <3> QED
      BY <2>1, <3>3, <3>4
  <2>3. shown' = shown \/ shown' = shown \cup ctx[p].seen
    BY <1>6 DEF WriteReply
  <2>4. shown' \in SUBSET (1..clock)
    BY <2>0, <2>3
  <2>5. \E ph \in {"streaming", "subtaskRunning", "summarising"} : Reach(p, ph)
    BY <1>6 DEF WriteReply
  <2>6. Behind
    BY <1>b, <2>5
  <2>7. NewId /\ UNCHANGED asked /\ ctx' = [ctx EXCEPT ![p] = [NoContext EXCEPT !.reply = clock + 1]]
    BY <1>6 DEF WriteReply
  <2>8. [NoContext EXCEPT !.reply = clock + 1] = [seen |-> {}, parent |-> 0, reply |-> clock + 1]
    BY DEF NoContext
  <2>9. /\ ctx' \in [Request -> [seen : SUBSET (1..clock), parent : 0..clock, reply : 0..clock + 1]]
        /\ \A q \in Request : ctx'[q].reply \in {ctx[q].reply, clock + 1}
    BY <2>0, <2>7, <2>8
  <2> QED
    BY <2>1, <2>2, <2>4, <2>6, <2>7, <2>9, HistoryGrows
<1>7. CASE StreamEnds(p) \/ SummaryEnds(p) \/ SubtaskEnds(p)
  <2>1. \E f \in {"stop", "tool-calls"} : Finish(p, f)
    BY <1>7 DEF StreamEnds, SummaryEnds, SubtaskEnds
  <2>2. \E ph \in {"top", "exiting", "overflowing", "noting"} : Reach(p, ph)
    BY <1>7 DEF StreamEnds, SummaryEnds, SubtaskEnds
  <2>3. Behind
    BY <1>b, <2>2
  <2>4. UNCHANGED <<clock, asked, shown>>
    BY <1>7 DEF StreamEnds, SummaryEnds, SubtaskEnds
  <2> QED
    BY <2>1, <2>3, <2>4, FinishKeeps
<1>8. CASE StoreNote(p) \/ ShellAsk(p)
  <2>0. /\ clock \in Nat /\ ctx \in [Request -> Contexts(clock)] /\ shown \in SUBSET (1..clock)
    BY DEF HistoryInv, HistoryTypeOK
  <2>1. PICK task \in {"none", "compaction"} : messages' = messages \cup {UserMessage(clock + 1, task)}
    BY <1>8 DEF StoreNote, ShellAsk
  <2> DEFINE m == UserMessage(clock + 1, task)
  <2>2. m \in Message /\ m.id = clock + 1
    BY <2>0 DEF UserMessage, Message, Tasks
  <2>3. NewId /\ UNCHANGED <<asked, ctx, shown>>
    BY <1>8 DEF StoreNote, ShellAsk
  <2>4. \E ph \in {"top", "shellReplying"} : Reach(p, ph)
    BY <1>8 DEF StoreNote, ShellAsk
  <2>5. Behind
    BY <1>b, <2>4
  <2>6. ctx' \in [Request -> [seen : SUBSET (1..clock), parent : 0..clock, reply : 0..clock + 1]]
    BY <2>0, <2>3
  <2> HIDE DEF m
  <2>7. messages' = messages \cup {m}
    BY <2>1 DEF m
  <2> QED
    BY <2>0, <2>2, <2>3, <2>5, <2>6, <2>7, HistoryGrows
<1>9. CASE ShellReply(p)
  <2>0. /\ clock \in Nat /\ ctx \in [Request -> Contexts(clock)] /\ shown \in SUBSET (1..clock)
    BY DEF HistoryInv, HistoryTypeOK
  <2> DEFINE m == AssistantMessage(clock + 1)
  <2>1. messages' = messages \cup {m} /\ NewId /\ UNCHANGED <<asked, shown>>
    BY <1>9 DEF ShellReply
  <2>2. m \in Message /\ m.id = clock + 1 /\ m.role = "assistant"
    BY <2>0 DEF AssistantMessage, Message, Tasks
  <2>3. Behind
    BY <1>9, <1>b DEF ShellReply
  <2>4. ctx' = [ctx EXCEPT ![p].reply = clock + 1]
    BY <1>9 DEF ShellReply
  <2>5. /\ ctx' \in [Request -> [seen : SUBSET (1..clock), parent : 0..clock, reply : 0..clock + 1]]
        /\ \A q \in Request : ctx'[q].reply \in {ctx[q].reply, clock + 1}
    BY <2>0, <2>4
  <2> HIDE DEF m
  <2>6. shown' \in SUBSET (1..clock)
    BY <2>0, <2>1
  <2>7. \A q \in Request : ctx'[q].reply \in {0, ctx[q].reply} \/ (ctx'[q].reply = clock + 1 /\ m.role = "assistant")
    BY <2>2, <2>5
  <2> QED
    BY <2>1, <2>2, <2>3, <2>5, <2>6, <2>7, HistoryGrows
<1> QED
  BY <1>1, <1>2, <1>3, <1>4, <1>5, <1>6, <1>7, <1>8, <1>9 DEF LoopStep

LEMMA OtherStepsKeepHistory ==
  ASSUME HistoryInv, ControlTypeOK,
         Cancel \/ \E p \in Request : Arrival(p) \/ StreamReports(p)
  PROVE  HistoryInv'
<1>0. phase \in [Request -> RequestPhases]
  BY DEF ControlTypeOK
<1>1. CASE Cancel
  <2>1. UNCHANGED <<messages, clock, asked, shown, phase, ctx>>
    BY <1>1 DEF Cancel
  <2>2. ctx \in [Request -> [seen : SUBSET (1..clock), parent : 0..clock, reply : 0..clock]]
    BY DEF HistoryInv, HistoryTypeOK
  <2> QED
    BY <2>1, <2>2, HistoryStays
<1>2. ASSUME NEW p \in Request, ShellStart(p) \/ ShellBusy(p) \/ StreamReports(p)
      PROVE  HistoryInv'
  <2>1. UNCHANGED <<messages, clock, asked, shown, ctx>>
    BY <1>2 DEF ShellStart, ShellBusy, StreamReports
  <2>2. \A q \in Request : phase'[q] \in {"composing", "storing"} => phase'[q] = phase[q]
    BY <1>0, <1>2 DEF ShellStart, ShellBusy, StreamReports, Start, Reach
  <2> QED
    BY <2>1, <2>2, ContextsKept, HistoryStays
<1> QED
  BY <1>1, <1>2, ComposeKeepsHistory DEF Arrival

LEMMA HistoryStarts == LoopInit => HistoryInv
<1> SUFFICES ASSUME LoopInit PROVE HistoryInv
  OBVIOUS
<1>1. HistoryTypeOK
  BY DEF LoopInit, HistoryTypeOK, NoContext
<1>2. IdsAreUnique /\ AskedInv /\ ReplyInv
  BY DEF LoopInit, IdsAreUnique, AskedInv, ReplyInv, NoContext
<1> QED
  BY <1>1, <1>2 DEF HistoryInv

LEMMA HistoryStep == HistoryInv /\ ControlInv /\ [LoopNext]_loop => HistoryInv'
<1> SUFFICES ASSUME HistoryInv, ControlInv, [LoopNext]_loop PROVE HistoryInv'
  OBVIOUS
<1>1. ControlTypeOK
  BY DEF ControlInv
<1>2. CASE UNCHANGED loop
  <2>1. UNCHANGED <<messages, clock, asked, shown, phase, ctx>>
    BY <1>2 DEF loop
  <2>2. ctx \in [Request -> [seen : SUBSET (1..clock), parent : 0..clock, reply : 0..clock]]
    BY DEF HistoryInv, HistoryTypeOK
  <2> QED
    BY <2>1, <2>2, HistoryStays
<1> QED
  BY <1>1, <1>2, StepKeepsHistory, OtherStepsKeepHistory DEF LoopNext

(* The messages of the history have ids that were given out, each its own; *)
(* a prompt's message is stored once, and what a run finishes is a reply.  *)
THEOREM History == LoopSpec => [](ControlInv /\ HistoryInv)
<1>1. LoopInit => ControlInv /\ HistoryInv
  BY ControlStarts, HistoryStarts
<1>2. ControlInv /\ HistoryInv /\ [LoopNext]_loop => (ControlInv /\ HistoryInv)'
  BY ControlStep, HistoryStep
<1> QED
  BY <1>1, <1>2, PTL DEF LoopSpec

-----------------------------------------------------------------------------
(* The undo *)

LEMMA RevertStarts == R!RevertInit => R!RevertInv
<1> SUFFICES ASSUME R!RevertInit PROVE R!RevertInv
  OBVIOUS
<1>1. R!RevertTypeOK
  BY DEF R!RevertInit, R!RevertTypeOK, R!Messages, R!Records, R!Requests, R!Clients, R!Message, R!NewRequest
<1>2. \A p \in Request : request[p] = R!NewRequest
  BY DEF R!RevertInit
<1>3. R!Undos = {}
  BY <1>2 DEF R!RevertInit, R!Undos, R!NewRequest
<1>4. R!PlacesInv /\ R!NewIdsAreNew /\ R!NewMessagesStay
  BY <1>2 DEF R!NewRequest, R!PlacesInv, R!CleansUp, R!NewIdsAreNew, R!NewMessagesStay, R!At
<1>5. R!UndoneOrGone /\ R!WrittenAfter
  BY <1>3 DEF R!UndoneOrGone, R!WrittenAfter
<1> QED
  BY <1>1, <1>4, <1>5 DEF R!RevertInv

(* The types are those of the next state when no id and no undo is added.  *)
LEMMA SameTypes ==
  ASSUME UNCHANGED <<lastId, number>>
  PROVE  R!Messages' = R!Messages /\ R!Records' = R!Records
         /\ R!Requests' = R!Requests /\ R!Clients' = R!Clients
BY DEF R!Messages, R!Records, R!Requests, R!Clients

(* And otherwise larger.                                                   *)
LEMMA TypesGrow ==
  ASSUME lastId \in Nat, number \in Nat, lastId' \in Nat, number' \in Nat,
         lastId' >= lastId, number' >= number
  PROVE  R!Messages \subseteq R!Messages' /\ R!Records \subseteq R!Records'
         /\ R!Requests \subseteq R!Requests' /\ R!Clients \subseteq R!Clients'
<1>1. /\ 1..lastId \subseteq 1..lastId' /\ 0..lastId \subseteq 0..lastId'
      /\ 0..number \subseteq 0..number' /\ 1..number \subseteq 1..number'
  OBVIOUS
<1>2. R!Messages \subseteq R!Messages'
  BY <1>1 DEF R!Messages
<1>3. R!Records \subseteq R!Records'
  BY <1>1 DEF R!Records
<1> QED
  BY <1>1, <1>2, <1>3 DEF R!Requests, R!Clients

(* The point of an undo is a message that the client has read.             *)
LEMMA NewestMessage ==
  ASSUME lastId \in Nat, NEW M \in SUBSET R!Messages, M # {}
  PROVE  R!Newest(M) \in M
<1>1. \A m \in M : m.id \in 1..lastId
  BY DEF R!Messages
<1>2. R!Newest(M) = Newest(M)
  BY DEF R!Newest, Newest
<1> QED
  BY <1>1, <1>2, NewestIsOne

LEMMA PointIsOne ==
  ASSUME lastId \in Nat, NEW M \in SUBSET R!Messages, NEW m \in M, NEW kept \in BOOLEAN
  PROVE  R!Point(M, m, kept) \in R!Ids(M) /\ R!Point(M, m, kept) \in 1..lastId
<1> DEFINE before == {u \in R!Users(M) : u.id <= m.id}
<1>1. before \subseteq M
  BY DEF R!Users
<1>2. before # {} => R!Newest(before) \in M
  BY <1>1, NewestMessage
<1>3. R!Point(M, m, kept) \in R!Ids(M)
  BY <1>2 DEF R!Point, R!Ids
<1>4. R!Ids(M) \subseteq 1..lastId
  BY DEF R!Ids, R!Messages
<1> QED
  BY <1>3, <1>4

LEMMA UndoneAreIds ==
  ASSUME R!RevertTypeOK
  PROVE  R!Ids(stored) \subseteq 1..lastId /\ \A rec : R!Undone(rec) \subseteq R!Ids(stored)
<1>1. R!Ids(stored) \subseteq 1..lastId
  BY DEF R!RevertTypeOK, R!Ids, R!Messages
<1>2. \A rec : R!Undone(rec) \subseteq R!Ids(stored)
  BY DEF R!Undone
<1> QED
  BY <1>1, <1>2

LEMMA ClientTypes ==
  ASSUME R!RevertTypeOK, NEW c \in Undoer, R!ClientNext(c)
  PROVE  R!RevertTypeOK'
<1> USE DEF R!RevertTypeOK
<1>1. CASE R!Revert(c) \/ R!RevertLists(c) \/ R!RevertFails(c) \/ R!Unrevert(c) \/ R!UnrevertOpens(c)
  <2>1. UNCHANGED <<stored, record, lastId, busy, request, summaries, number, returned>>
    BY <1>1 DEF R!Revert, R!RevertLists, R!RevertFails, R!Unrevert, R!UnrevertOpens
  <2>2. client' \in [Undoer -> R!Clients]
    BY <1>1 DEF R!Revert, R!RevertLists, R!RevertFails, R!Unrevert, R!UnrevertOpens, R!Clients
  <2> QED
    BY <2>1, <2>2, SameTypes
<1>2. CASE R!Mark(c)
  <2>1. /\ UNCHANGED <<stored, lastId, busy, request, summaries>> /\ number' = number + 1
        /\ client' = [client EXCEPT ![c] = [at |-> "idle", all |-> {}]]
    BY <1>2 DEF R!Mark
  <2>2. PICK m \in client[c].all, kept \in BOOLEAN :
          R!SetRecord([point |-> R!Point(client[c].all, m, kept), number |-> number + 1])
    BY <1>2 DEF R!Mark
  <2>3. client[c].all \subseteq R!Messages
    BY DEF R!Clients
  <2>4. R!Point(client[c].all, m, kept) \in 1..lastId
    BY <2>3, PointIsOne
  <2>5. record' \in R!Records' /\ returned' \subseteq 1..lastId
    <3>1. record' = [point |-> R!Point(client[c].all, m, kept), number |-> number + 1]
      BY <2>2 DEF R!SetRecord
    <3>2. number + 1 \in 1..number'
      BY <2>1
    <3>3. record' \in [point : 1..lastId, number : 1..number']
      BY <2>4, <3>1, <3>2
    <3>4. returned' \subseteq 1..lastId
      BY <2>2, UndoneAreIds DEF R!SetRecord
    <3> QED
      BY <2>1, <3>3, <3>4 DEF R!Records
  <2>6. client' \in [Undoer -> R!Clients]
    BY <2>1 DEF R!Clients
  <2> QED
    BY <2>1, <2>5, <2>6, TypesGrow
<1>3. CASE R!Restore(c)
  <2>1. /\ UNCHANGED <<stored, lastId, busy, request, summaries, number>>
        /\ client' = [client EXCEPT ![c].at = "idle"] /\ R!SetRecord(NoRecord)
    BY <1>3 DEF R!Restore
  <2>2. client' \in [Undoer -> R!Clients]
    BY <2>1 DEF R!Clients
  <2>3. record' \in R!Records /\ returned' \subseteq 1..lastId
    BY <2>1, UndoneAreIds DEF R!SetRecord, R!Records
  <2> QED
    BY <2>1, <2>2, <2>3, SameTypes
<1> QED
  BY <1>1, <1>2, <1>3 DEF R!ClientNext

LEMMA LeaveTypes ==
  ASSUME R!RevertTypeOK, NEW p \in Request, NEW deferred \in BOOLEAN, R!Leave(p, deferred)
  PROVE  request' \in [Request -> R!Requests] /\ busy' \in Request \cup {NoOne}
<1>1. [R!NewRequest EXCEPT !.at = "done"] \in R!Requests
  <2>1. 0 \in 0..lastId /\ 0 \in 0..number
    BY DEF R!RevertTypeOK
  <2>2. R!NewRequest \in R!Requests
    BY <2>1 DEF R!NewRequest, R!Requests, R!Records
  <2>3. \A r \in R!Requests : [r EXCEPT !.at = "done"] \in R!Requests
    BY DEF R!Requests
  <2> QED
    BY <2>2, <2>3
<1> QED
  BY <1>1 DEF R!RevertTypeOK, R!Leave

(* A summary is of a stored message.                                       *)
LEMMA SummarisedIsStored ==
  ASSUME R!RevertTypeOK, NEW p \in Request, R!Reply(p)
  PROVE  summaries' \subseteq summaries \cup stored
<1>1. R!Users(stored) \subseteq stored /\ stored \subseteq R!Messages /\ lastId \in Nat
  BY DEF R!RevertTypeOK, R!Users
<1>2. R!Users(stored) # {} => R!Newest(R!Users(stored)) \in stored
  BY <1>1, NewestMessage
<1> QED
  BY <1>2 DEF R!Reply

LEMMA RequestTypes ==
  ASSUME R!RevertTypeOK, R!PlacesInv, NEW p \in Request, R!RequestNext(p)
  PROVE  R!RevertTypeOK'
<1> USE DEF R!RevertTypeOK
<1>1. ASSUME UNCHANGED <<lastId, number>>,
             stored' \subseteq R!Messages, summaries' \subseteq R!Messages, record' \in R!Records,
             busy' \in Request \cup {NoOne}, request' \in [Request -> R!Requests],
             UNCHANGED client, returned' \subseteq 1..lastId
      PROVE  R!RevertTypeOK'
  BY <1>1, SameTypes
<1>2. request[p] \in R!Requests
  OBVIOUS
<1>3. CASE R!Prompt(p) \/ R!Ask(p)
  <2>1. UNCHANGED <<stored, record, lastId, busy, client, summaries, number, returned>>
    BY <1>3 DEF R!Prompt, R!Ask
  <2>2. request' \in [Request -> R!Requests]
    BY <1>3 DEF R!Prompt, R!Ask, R!Goto, R!Requests
  <2> QED
    BY <1>1, <2>1, <2>2
<1>4. CASE R!Shell(p) \/ R!Start(p)
  <2>1. UNCHANGED <<stored, record, lastId, client, summaries, number, returned>> /\ busy' = p
    BY <1>4 DEF R!Shell, R!Start
  <2>2. request' \in [Request -> R!Requests]
    BY <1>4 DEF R!Shell, R!Start, R!Goto, R!Requests
  <2> QED
    BY <1>1, <2>1, <2>2
<1>5. CASE R!Open(p)
  <2>1. UNCHANGED <<stored, record, lastId, busy, client, summaries, number, returned>>
    BY <1>5 DEF R!Open
  <2>2. number \in 0..number
    OBVIOUS
  <2>3. request' = [request EXCEPT ![p] =
          [request[p] EXCEPT !.since = number, !.seen = record,
             !.at = IF record = NoRecord THEN "composing" ELSE "listing"]]
    BY <1>5 DEF R!Open
  <2>4. ASSUME NEW r \in R!Requests
        PROVE  [r EXCEPT !.since = number, !.seen = record,
                  !.at = IF record = NoRecord THEN "composing" ELSE "listing"] \in R!Requests
    BY <2>2 DEF R!Requests
  <2>5. request' \in [Request -> R!Requests]
    BY <1>2, <2>3, <2>4
  <2> QED
    BY <1>1, <2>1, <2>5
<1>6. CASE R!List(p)
  <2>1. UNCHANGED <<stored, record, lastId, busy, client, summaries, number, returned>>
    BY <1>6 DEF R!List
  <2>2. \A i : R!Doomed(i) \subseteq R!Messages
    BY DEF R!Doomed
  <2>3. request' = [request EXCEPT ![p] =
          [request[p] EXCEPT !.at = "reading", !.listed = stored,
             !.doomed = R!Doomed(request[p].seen.point)]]
    BY <1>6 DEF R!List
  <2>4. ASSUME NEW r \in R!Requests, NEW d \in SUBSET R!Messages
        PROVE  [r EXCEPT !.at = "reading", !.listed = stored, !.doomed = d] \in R!Requests
    BY DEF R!Requests
  <2>5. request' \in [Request -> R!Requests]
    BY <1>2, <2>2, <2>3, <2>4
  <2> QED
    BY <1>1, <2>1, <2>5
<1>7. CASE R!ListFails(p) \/ R!Stay(p) \/ R!Return(p)
  <2>1. UNCHANGED <<stored, record, lastId, client, summaries, number, returned>>
    BY <1>7 DEF R!ListFails, R!Stay, R!Return
  <2>2. \E deferred \in BOOLEAN : R!Leave(p, deferred)
    BY <1>2, <1>7 DEF R!ListFails, R!Stay, R!Return, R!Requests
  <2>3. request' \in [Request -> R!Requests] /\ busy' \in Request \cup {NoOne}
    BY <2>2, LeaveTypes
  <2> QED
    BY <1>1, <2>1, <2>3
<1>8. CASE R!Remove(p)
  <2>1. UNCHANGED <<record, lastId, busy, client, summaries, number, returned>>
    BY <1>8 DEF R!Remove
  <2>2. stored' \subseteq stored
    BY <1>8 DEF R!Remove
  <2>3. PICK d : /\ d \subseteq request[p].doomed
                 /\ request' = [request EXCEPT ![p] =
                      [request[p] EXCEPT !.doomed = d, !.at = "removing", !.listed = {}]]
    BY <1>8 DEF R!Remove
  <2>4. ASSUME NEW r \in R!Requests, d \in SUBSET R!Messages
        PROVE  [r EXCEPT !.doomed = d, !.at = "removing", !.listed = {}] \in R!Requests
    BY <2>4 DEF R!Requests
  <2>5. d \in SUBSET R!Messages
    BY <1>2, <2>3 DEF R!Requests
  <2>6. request' \in [Request -> R!Requests]
    BY <1>2, <2>3, <2>4, <2>5
  <2> QED
    BY <1>1, <2>1, <2>2, <2>6
<1>9. CASE R!Forget(p)
  <2>1. UNCHANGED <<stored, lastId, busy, client, summaries, number>> /\ R!SetRecord(NoRecord)
    BY <1>9 DEF R!Forget
  <2>a. request' = [request EXCEPT ![p] =
          [request[p] EXCEPT !.at = "composing", !.listed = {}, !.seen = NoRecord]]
    BY <1>9 DEF R!Forget
  <2>b. ASSUME NEW r \in R!Requests
        PROVE  [r EXCEPT !.at = "composing", !.listed = {}, !.seen = NoRecord] \in R!Requests
    BY DEF R!Requests, R!Records
  <2>2. request' \in [Request -> R!Requests]
    BY <1>2, <2>a, <2>b
  <2>3. record' \in R!Records /\ returned' \subseteq 1..lastId
    BY <2>1, UndoneAreIds DEF R!SetRecord, R!Records
  <2> QED
    BY <1>1, <2>1, <2>2, <2>3
<1>10. CASE R!Compose(p)
  <2>1. UNCHANGED <<stored, record, busy, client, summaries, number, returned>> /\ lastId' = lastId + 1
    BY <1>10 DEF R!Compose
  <2>2. R!Messages \subseteq R!Messages' /\ R!Records \subseteq R!Records'
        /\ R!Requests \subseteq R!Requests' /\ R!Clients \subseteq R!Clients'
    BY <2>1, TypesGrow
  <2>3. request \in [Request -> R!Requests'] /\ client' \in [Undoer -> R!Clients']
    BY <2>1, <2>2
  <2>4. request' = [request EXCEPT ![p].at = "storing", ![p].id = lastId + 1] /\ lastId + 1 \in 0..lastId'
    BY <1>10, <2>1 DEF R!Compose
  <2>5. request' \in [Request -> R!Requests']
    BY <2>3, <2>4 DEF R!Requests
  <2> QED
    BY <2>1, <2>2, <2>3, <2>5
<1>11. CASE R!StoreMessage(p)
  <2>1. UNCHANGED <<record, lastId, busy, client, summaries, number, returned>>
    BY <1>11 DEF R!StoreMessage
  <2>2. R!Message(request[p].id, "user", request[p].since) \in R!Messages
    <3>1. request[p].id \in 1..lastId
      BY <1>2, <1>11 DEF R!StoreMessage, R!PlacesInv, R!Requests
    <3> QED
      BY <1>2, <3>1 DEF R!Requests, R!Messages, R!Message
  <2>3. stored' \subseteq R!Messages
    BY <1>11, <2>2 DEF R!StoreMessage, R!Store
  <2>4. request' \in [Request -> R!Requests]
    BY <1>11 DEF R!StoreMessage, R!Goto, R!Requests
  <2> QED
    BY <1>1, <2>1, <2>3, <2>4
<1>12. CASE R!Reply(p)
  <2> DEFINE m == R!Message(lastId + 1, "assistant", request[p].since)
  <2>1. UNCHANGED <<record, busy, client, number, returned>> /\ lastId' = lastId + 1
        /\ stored' = stored \cup {m}
    BY <1>12 DEF R!Reply, R!Store
  <2>2. R!Messages \subseteq R!Messages' /\ R!Records \subseteq R!Records'
        /\ R!Requests \subseteq R!Requests' /\ R!Clients \subseteq R!Clients'
    BY <2>1, TypesGrow
  <2>3. request \in [Request -> R!Requests'] /\ client' \in [Undoer -> R!Clients']
    BY <2>1, <2>2
  <2>4. request' = [request EXCEPT ![p].at = "streaming", ![p].id = lastId + 1] /\ lastId + 1 \in 0..lastId'
    BY <1>12, <2>1 DEF R!Reply
  <2>5. request' \in [Request -> R!Requests']
    BY <2>3, <2>4 DEF R!Requests
  <2>6. m \in R!Messages'
    <3>1. lastId + 1 \in 1..lastId'
      BY <2>1
    <3> QED
      BY <1>2, <2>1, <3>1 DEF R!Requests, R!Messages, R!Message
  <2>7. summaries' \subseteq summaries \cup stored
    BY <1>12, SummarisedIsStored
  <2> HIDE DEF m
  <2> QED
    BY <2>1, <2>2, <2>3, <2>5, <2>6, <2>7
<1>13. CASE R!StreamEnds(p)
  <2> DEFINE m == R!Message(request[p].id, "assistant", request[p].since)
  <2>1. UNCHANGED <<record, lastId, client, summaries, number>> /\ R!StoreAgain(m)
    BY <1>13 DEF R!StreamEnds
  <2>2. request[p].id \in 1..lastId
    BY <1>2, <1>13 DEF R!StreamEnds, R!PlacesInv, R!Requests
  <2>3. m \in R!Messages /\ m.id = request[p].id
    BY <1>2, <2>2 DEF R!Requests, R!Messages, R!Message
  <2> HIDE DEF m
  <2>4. stored' \subseteq R!Messages /\ returned' \subseteq 1..lastId
    BY <2>1, <2>2, <2>3 DEF R!StoreAgain, R!Store
  <2>5. request' \in [Request -> R!Requests] /\ busy' \in Request \cup {NoOne}
    <3>1. CASE R!Leave(p, TRUE)
      BY <3>1, LeaveTypes
    <3>2. CASE R!Goto(p, "top") /\ UNCHANGED busy
      BY <3>2 DEF R!Goto, R!Requests
    <3> QED
      BY <1>13, <3>1, <3>2 DEF R!StreamEnds
  <2> QED
    BY <1>1, <2>1, <2>4, <2>5
<1> QED
  BY <1>3, <1>4, <1>5, <1>6, <1>7, <1>8, <1>9, <1>10, <1>11, <1>12, <1>13 DEF R!RequestNext

LEMMA OtherTypes ==
  ASSUME R!RevertTypeOK, R!Cancel \/ R!SummaryLands \/ UNCHANGED undo
  PROVE  R!RevertTypeOK'
<1> USE DEF R!RevertTypeOK
<1>1. UNCHANGED <<lastId, number, record, request, client>> /\ summaries' = summaries
  BY DEF R!Cancel, R!SummaryLands, undo
<1>2. stored' \subseteq R!Messages /\ returned' \subseteq 1..lastId
  <2>1. CASE R!SummaryLands
    <3>1. PICK m \in summaries : R!StoreAgain(m)
      BY <2>1 DEF R!SummaryLands
    <3>2. m.id \in 1..lastId
      BY DEF R!Messages
    <3> QED
      BY <3>1, <3>2 DEF R!StoreAgain, R!Store
  <2> QED
    BY <2>1 DEF R!Cancel, undo
<1>3. busy' \in Request \cup {NoOne}
  BY DEF R!Cancel, R!SummaryLands, undo
<1> QED
  BY <1>1, <1>2, <1>3, SameTypes

(* What a step does to the request that takes it: where it stands, which   *)
(* undo it acts on and what for, under which number and id it writes.      *)
LEMMA RequestMovesOn ==
  ASSUME R!RevertTypeOK, R!PlacesInv, NEW p \in Request, R!RequestNext(p)
  PROVE  /\ \A q \in Request \ {p} : request'[q] = request[q]
         /\ request'[p].at \in {"listing", "reading", "removing"} => request'[p].seen # NoRecord
         /\ request'[p].doomed # {} => request'[p].at \in {"reading", "removing"}
         /\ request'[p].at \in {"storing", "streaming"} => request'[p].id > 0
         /\ request'[p].seen \in {request[p].seen, record, NoRecord}
         /\ R!Writing(p)' =>
              \/ R!Writing(p) /\ request'[p].since = request[p].since
              \/ record' = NoRecord
         /\ \/ request'[p].doomed = {}
            \/ request'[p].seen = request[p].seen /\ request'[p].doomed \subseteq request[p].doomed
            \/ /\ request'[p].seen = request[p].seen /\ request[p].seen # NoRecord
               /\ request'[p].doomed = R!Doomed(request[p].seen.point)
         /\ request'[p].at = "storing" =>
              \/ request[p].at = "storing" /\ request'[p].id = request[p].id
              \/ R!Compose(p) /\ request'[p].id = lastId + 1
         /\ request'[p].at = "streaming" => R!Reply(p) /\ request'[p].id = lastId + 1
<1> DEFINE r == request[p]
<1>0. /\ request \in [Request -> R!Requests] /\ r \in R!Requests /\ lastId \in Nat
      /\ (r.at \in {"listing", "reading", "removing"} => r.seen # NoRecord)
      /\ (r.doomed # {} => r.at \in {"reading", "removing"})
      /\ (r.at \in {"storing", "streaming"} => r.id > 0)
  BY DEF R!RevertTypeOK, R!PlacesInv, R!CleansUp, R!Removing, R!At
<1> HIDE DEF r
<1> USE DEF R!Writing
<1>1. CASE R!Prompt(p) \/ R!Shell(p) \/ R!Start(p) \/ R!Ask(p)
  BY <1>0, <1>1 DEF R!Prompt, R!Shell, R!Start, R!Ask, R!At, R!Goto, R!Requests, r
<1>2. CASE R!Open(p)
  BY <1>0, <1>2 DEF R!Open, R!At, R!Requests, r
<1>3. CASE R!List(p)
  BY <1>0, <1>3 DEF R!List, R!At, R!Requests, r
<1>4. CASE R!ListFails(p) \/ R!Stay(p) \/ R!Return(p)
  BY <1>0, <1>4 DEF R!ListFails, R!Stay, R!Return, R!Leave, R!NewRequest
<1>5. CASE R!Remove(p)
  BY <1>0, <1>5 DEF R!Remove, R!Removing, R!Requests, r
<1>6. CASE R!Forget(p)
  BY <1>0, <1>6 DEF R!Forget, R!SetRecord, R!Requests, r
<1>7. CASE R!Compose(p)
  BY <1>0, <1>7 DEF R!Compose, R!At, R!Requests, r
<1>8. CASE R!StoreMessage(p)
  BY <1>0, <1>8 DEF R!StoreMessage, R!At, R!Goto, R!Requests, r
<1>9. CASE R!Reply(p)
  BY <1>0, <1>9 DEF R!Reply, R!At, R!Requests, r
<1>10. CASE R!StreamEnds(p)
  BY <1>0, <1>10 DEF R!StreamEnds, R!At, R!Goto, R!Leave, R!NewRequest, R!Requests, r
<1> QED
  BY <1>1, <1>2, <1>3, <1>4, <1>5, <1>6, <1>7, <1>8, <1>9, <1>10 DEF R!RequestNext

(* No other step touches a request.                                        *)
LEMMA OthersLeaveRequests ==
  ASSUME R!Cancel \/ R!SummaryLands \/ (\E c \in Undoer : R!ClientNext(c)) \/ UNCHANGED undo
  PROVE  request' = request
BY DEF R!Cancel, R!SummaryLands, R!ClientNext, R!Revert, R!RevertLists, R!Mark, R!RevertFails,
       R!Unrevert, R!UnrevertOpens, R!Restore, undo

Covers(rec, i) == rec # NoRecord /\ rec.point <= i

(* A record that goes leaves what it covered among the returned ids.       *)
LEMMA SetRecordCovers ==
  ASSUME R!RevertTypeOK, NEW rec, R!SetRecord(rec), NEW i \in R!Ids(stored), Covers(record, i)
  PROVE  i \in returned' \/ Covers(rec, i)
<1>1. i \in Nat /\ record.point \in Nat
  <2>1. i \in 1..lastId /\ lastId \in Nat
    BY UndoneAreIds DEF R!RevertTypeOK
  <2>2. record \in [point : 1..lastId, number : 1..number]
    BY DEF R!RevertTypeOK, R!Records, Covers
  <2> QED
    BY <2>1, <2>2
<1>2. i \in R!Undone(record)
  BY <1>1 DEF R!Undone, Covers
<1>3. i \in R!Undone(rec) => Covers(rec, i)
  <2> SUFFICES ASSUME i \in R!Undone(rec), rec # NoRecord, i >= rec.point PROVE Covers(rec, i)
    BY DEF R!Undone
  <2> QED
    BY DEF Covers
<1> QED
  BY <1>2, <1>3 DEF R!SetRecord

(* What a step does to the record of the undo.                             *)
LEMMA RecordMoves ==
  ASSUME R!RevertTypeOK, R!RevertNext \/ UNCHANGED undo
  PROVE  /\ returned \subseteq returned'
         /\ \A i \in R!Ids(stored) : Covers(record, i) => i \in returned' \/ Covers(record', i)
         /\ \/ record' \in {record, NoRecord} /\ number' = number
            \/ /\ number' = number + 1 /\ record'.number = number'
               /\ UNCHANGED <<stored, summaries, request>>
               /\ \E c \in Undoer : record'.point \in R!Ids(client[c].all)
<1>1. ASSUME UNCHANGED <<record, number>>, returned \subseteq returned'
      PROVE  /\ \A i \in R!Ids(stored) : Covers(record, i) => i \in returned' \/ Covers(record', i)
             /\ record' \in {record, NoRecord} /\ number' = number
  BY <1>1
<1>2. CASE R!Cancel \/ UNCHANGED undo
  BY <1>1, <1>2 DEF R!Cancel, undo
<1>3. CASE R!SummaryLands
  BY <1>1, <1>3 DEF R!SummaryLands, R!StoreAgain
<1>4. ASSUME NEW p \in Request, R!RequestNext(p), ~R!Forget(p)
      PROVE  UNCHANGED <<record, number>> /\ returned \subseteq returned'
  BY <1>4 DEF R!RequestNext, R!Prompt, R!Shell, R!Open, R!List, R!ListFails, R!Remove, R!Compose,
              R!StoreMessage, R!Start, R!Stay, R!Ask, R!Return, R!Reply, R!StreamEnds, R!StoreAgain
<1>5. ASSUME NEW p \in Request, R!Forget(p)
      PROVE  R!SetRecord(NoRecord) /\ number' = number
  BY <1>5 DEF R!Forget
<1>6. ASSUME NEW c \in Undoer, R!ClientNext(c), ~R!Mark(c)
      PROVE  \/ UNCHANGED <<record, number>> /\ returned \subseteq returned'
             \/ R!SetRecord(NoRecord) /\ number' = number
  BY <1>6 DEF R!ClientNext, R!Revert, R!RevertLists, R!RevertFails, R!Unrevert, R!UnrevertOpens,
              R!Restore
<1>7. ASSUME NEW rec, R!SetRecord(rec)
      PROVE  /\ returned \subseteq returned' /\ record' = rec
             /\ \A i \in R!Ids(stored) : Covers(record, i) => i \in returned' \/ Covers(record', i)
  <2>1. record' = rec /\ returned \subseteq returned'
    BY <1>7 DEF R!SetRecord
  <2> QED
    BY <1>7, <2>1, SetRecordCovers
<1>8. ASSUME NEW c \in Undoer, R!Mark(c)
      PROVE  /\ number' = number + 1 /\ record'.number = number'
             /\ UNCHANGED <<stored, summaries, request>>
             /\ \E d \in Undoer : record'.point \in R!Ids(client[d].all)
             /\ \E rec : R!SetRecord(rec)
  <2>1. PICK m \in client[c].all, kept \in BOOLEAN :
          R!SetRecord([point |-> R!Point(client[c].all, m, kept), number |-> number + 1])
    BY <1>8 DEF R!Mark
  <2>2. client[c].all \subseteq R!Messages /\ lastId \in Nat
    BY DEF R!RevertTypeOK, R!Clients
  <2>3. R!Point(client[c].all, m, kept) \in R!Ids(client[c].all)
    BY <2>2, PointIsOne
  <2>4. record' = [point |-> R!Point(client[c].all, m, kept), number |-> number + 1]
    BY <2>1 DEF R!SetRecord
  <2>5. UNCHANGED <<stored, summaries, request>> /\ number' = number + 1
    BY <1>8 DEF R!Mark
  <2> QED
    BY <2>1, <2>3, <2>4, <2>5
<1> QED
  BY <1>1, <1>2, <1>3, <1>4, <1>5, <1>6, <1>7, <1>8 DEF R!RevertNext

(* A step stores a message that is new, or one that was stored before.     *)
LEMMA StoredMoves ==
  ASSUME R!RevertTypeOK, R!RevertNext \/ UNCHANGED undo
  PROVE  /\ \A m \in stored' \cup summaries' :
              \/ m \in stored \cup summaries
              \/ \E p \in Request : R!Writing(p) /\ m.since = request[p].since
         /\ \A i \in R!Ids(stored') :
              \/ i \in R!Ids(stored) \/ i = lastId + 1
              \/ i \in returned' /\ i \in R!Known
              \/ \E p \in Request : R!StoreMessage(p) /\ i = request[p].id
         /\ R!Ids(summaries') \subseteq R!Ids(summaries) \cup R!Ids(stored)
         /\ \A c \in Undoer : R!Ids(client'[c].all) \subseteq R!Ids(client[c].all) \cup R!Ids(stored)
<1> DEFINE Written(m) == \E p \in Request : R!Writing(p) /\ m.since = request[p].since
           Stores(i) == \E p \in Request : R!StoreMessage(p) /\ i = request[p].id
<1>1. CASE R!Cancel \/ UNCHANGED undo
  BY <1>1 DEF R!Cancel, undo
<1>2. CASE R!SummaryLands
  <2>1. PICK m \in summaries : stored' = stored \cup {m} /\ returned' = returned \cup ({m.id} \ R!Ids(stored))
    BY <1>2 DEF R!SummaryLands, R!StoreAgain, R!Store
  <2>2. UNCHANGED <<summaries, client>>
    BY <1>2 DEF R!SummaryLands
  <2>3. m.id \in R!Known
    BY DEF R!Known, R!Ids
  <2>4. R!Ids(stored') = R!Ids(stored) \cup {m.id}
    BY <2>1 DEF R!Ids
  <2> QED
    BY <2>1, <2>2, <2>3, <2>4
<1>3. ASSUME NEW c \in Undoer, R!ClientNext(c)
      PROVE  /\ UNCHANGED <<stored, summaries>>
             /\ \A d \in Undoer : client'[d].all \subseteq client[d].all \cup stored
  <2>1. client \in [Undoer -> R!Clients]
    BY DEF R!RevertTypeOK
  <2> QED
    BY <1>3, <2>1 DEF R!ClientNext, R!Revert, R!RevertLists, R!RevertFails, R!Unrevert,
              R!UnrevertOpens, R!Restore, R!Mark, R!Clients
<1>4. CASE \E c \in Undoer : R!ClientNext(c)
  <2>1. UNCHANGED <<stored, summaries>> /\ \A d \in Undoer : client'[d].all \subseteq client[d].all \cup stored
    BY <1>3, <1>4
  <2> QED
    BY <2>1 DEF R!Ids
<1>5. ASSUME NEW p \in Request, R!RequestNext(p),
             ~(R!StoreMessage(p) \/ R!Reply(p) \/ R!StreamEnds(p))
      PROVE  UNCHANGED <<summaries, client>> /\ stored' \subseteq stored
  BY <1>5 DEF R!RequestNext, R!Prompt, R!Shell, R!Open, R!List, R!ListFails, R!Remove, R!Forget,
              R!Compose, R!Start, R!Stay, R!Ask, R!Return
<1>6. ASSUME NEW p \in Request, R!StoreMessage(p)
      PROVE  /\ UNCHANGED <<summaries, client>> /\ R!Writing(p)
             /\ stored' = stored \cup {R!Message(request[p].id, "user", request[p].since)}
  BY <1>6 DEF R!StoreMessage, R!Store, R!Writing, R!At
<1>7. ASSUME NEW p \in Request, R!Reply(p)
      PROVE  /\ summaries' \subseteq summaries \cup stored /\ UNCHANGED client /\ R!Writing(p)
             /\ stored' = stored \cup {R!Message(lastId + 1, "assistant", request[p].since)}
  BY <1>7, SummarisedIsStored DEF R!Reply, R!Store, R!Writing, R!At
<1>8. ASSUME NEW p \in Request, R!StreamEnds(p)
      PROVE  /\ UNCHANGED <<summaries, client>> /\ R!Writing(p)
             /\ stored' = stored \cup {R!Message(request[p].id, "assistant", request[p].since)}
             /\ request[p].id \in R!Known
             /\ request[p].id \in R!Ids(stored) \cup returned'
  <2>1. request[p].id \in R!Known
    BY <1>8 DEF R!StreamEnds, R!Known
  <2> QED
    BY <1>8, <2>1 DEF R!StreamEnds, R!StoreAgain, R!Store, R!Writing, R!At, R!Message
<1>9. ASSUME NEW p \in Request, NEW i, NEW role, stored' = stored \cup {R!Message(i, role, request[p].since)}
      PROVE  /\ R!Ids(stored') = R!Ids(stored) \cup {i}
             /\ \A m \in stored' : m \in stored \/ m.since = request[p].since
  <2> DEFINE w == R!Message(i, role, request[p].since)
  <2>1. w.id = i /\ w.since = request[p].since
    BY DEF R!Message
  <2>2. stored' = stored \cup {w}
    BY <1>9
  <2> HIDE DEF w
  <2> QED
    BY <2>1, <2>2 DEF R!Ids
<1>10. ASSUME NEW p \in Request, R!RequestNext(p)
       PROVE  /\ \A m \in stored' \cup summaries' : m \in stored \cup summaries \/ Written(m)
              /\ \A i \in R!Ids(stored') : \/ i \in R!Ids(stored) \/ i = lastId + 1
                                           \/ i \in returned' /\ i \in R!Known
                                           \/ Stores(i)
              /\ R!Ids(summaries') \subseteq R!Ids(summaries) \cup R!Ids(stored)
              /\ UNCHANGED client
  <2>1. CASE R!StoreMessage(p)
    <3>1. /\ UNCHANGED <<summaries, client>> /\ R!Writing(p)
          /\ R!Ids(stored') = R!Ids(stored) \cup {request[p].id}
          /\ \A m \in stored' : m \in stored \/ m.since = request[p].since
      BY <1>6, <1>9, <2>1
    <3> QED
      BY <2>1, <3>1
  <2>2. CASE R!Reply(p)
    <3>1. R!Ids(summaries') \subseteq R!Ids(summaries) \cup R!Ids(stored)
      BY <1>7, <2>2 DEF R!Ids
    <3>2. /\ UNCHANGED client /\ R!Writing(p) /\ summaries' \subseteq summaries \cup stored
          /\ R!Ids(stored') = R!Ids(stored) \cup {lastId + 1}
          /\ \A m \in stored' : m \in stored \/ m.since = request[p].since
      BY <1>7, <1>9, <2>2
    <3> QED
      BY <3>1, <3>2
  <2>3. CASE R!StreamEnds(p)
    <3>1. /\ UNCHANGED <<summaries, client>> /\ R!Writing(p)
          /\ R!Ids(stored') = R!Ids(stored) \cup {request[p].id}
          /\ \A m \in stored' : m \in stored \/ m.since = request[p].since
          /\ request[p].id \in R!Known /\ request[p].id \in R!Ids(stored) \cup returned'
      BY <1>8, <1>9, <2>3
    <3> QED
      BY <3>1
  <2>4. CASE ~(R!StoreMessage(p) \/ R!Reply(p) \/ R!StreamEnds(p))
    <3>1. UNCHANGED <<summaries, client>> /\ stored' \subseteq stored
      BY <1>5, <1>10, <2>4
    <3> QED
      BY <3>1 DEF R!Ids
  <2> QED
    BY <2>1, <2>2, <2>3, <2>4
<1> QED
  BY <1>1, <1>2, <1>4, <1>10 DEF R!RevertNext

(* Ids that anybody knows were given out.                                  *)
LEMMA KnownAreGiven ==
  ASSUME R!RevertTypeOK
  PROVE  R!Known \subseteq 0..lastId
<1> USE DEF R!RevertTypeOK
<1>1. \A M \in SUBSET R!Messages : R!Ids(M) \subseteq 0..lastId
  BY DEF R!Ids, R!Messages
<1>2. \A u \in R!Undos : u.point \in 0..lastId
  <2>1. R!Undos \subseteq R!Records \ {NoRecord}
    BY DEF R!Undos, R!Requests
  <2>2. \A u \in R!Records \ {NoRecord} : u.point \in 0..lastId
    BY DEF R!Records
  <2> QED
    BY <2>1, <2>2
<1>3. \A p \in Request : request[p].id \in 0..lastId
  BY DEF R!Requests
<1>4. \A c \in Undoer : client[c].all \in SUBSET R!Messages
  BY DEF R!Clients
<1>5. \A c \in Undoer : R!Ids(client[c].all) \subseteq 0..lastId
  BY <1>1, <1>4
<1>6. R!Ids(stored) \subseteq 0..lastId /\ R!Ids(summaries) \subseteq 0..lastId
  BY <1>1
<1> QED
  BY <1>2, <1>3, <1>5, <1>6 DEF R!Known

(* Who steps: a request, or nobody's request moves.                        *)
LEMMA WhoMoves ==
  ASSUME R!RevertNext \/ UNCHANGED undo
  PROVE  (\E p \in Request : R!RequestNext(p)) \/ request' = request
BY OthersLeaveRequests DEF R!RevertNext

LEMMA PlacesStep ==
  ASSUME R!RevertTypeOK, R!PlacesInv, R!RevertNext \/ UNCHANGED undo
  PROVE  R!PlacesInv'
<1>1. CASE request' = request
  BY <1>1 DEF R!PlacesInv, R!CleansUp, R!Removing, R!At
<1>2. ASSUME NEW p \in Request, R!RequestNext(p)
      PROVE  R!PlacesInv'
  <2>1. /\ \A q \in Request \ {p} : request'[q] = request[q]
        /\ request'[p].at \in {"listing", "reading", "removing"} => request'[p].seen # NoRecord
        /\ request'[p].doomed # {} => request'[p].at \in {"reading", "removing"}
        /\ request'[p].at \in {"storing", "streaming"} => request'[p].id > 0
    BY <1>2, RequestMovesOn
  <2> QED
    BY <2>1 DEF R!PlacesInv, R!CleansUp, R!Removing, R!At
<1> QED
  BY <1>1, <1>2, WhoMoves

(* The undos that anybody may act on are known, but for one just recorded. *)
LEMMA UndosMove ==
  ASSUME R!RevertTypeOK, R!PlacesInv, R!RevertNext \/ UNCHANGED undo, NEW u \in R!Undos'
  PROVE  \/ u \in R!Undos
         \/ /\ u = record' /\ number' = number + 1 /\ u.number = number'
            /\ UNCHANGED <<stored, summaries, request>>
            /\ u.point \in R!Known
<1> USE DEF R!Undos
<1>1. \A p \in Request : request'[p].seen \in {request[p].seen, record, NoRecord}
  <2>1. ASSUME NEW p \in Request, R!RequestNext(p), NEW q \in Request
        PROVE  request'[q].seen \in {request[q].seen, record, NoRecord}
    BY <2>1, RequestMovesOn
  <2> QED
    BY <2>1, WhoMoves
<1>2. CASE u # record'
  BY <1>1, <1>2
<1>3. CASE u = record'
  <2>1. \/ record' \in {record, NoRecord}
        \/ /\ number' = number + 1 /\ record'.number = number'
           /\ UNCHANGED <<stored, summaries, request>>
           /\ \E c \in Undoer : record'.point \in R!Ids(client[c].all)
    BY RecordMoves
  <2>2. CASE record' \in {record, NoRecord}
    BY <1>3, <2>2
  <2>3. CASE \E c \in Undoer : record'.point \in R!Ids(client[c].all)
    <3>1. record'.point \in R!Known
      BY <2>3 DEF R!Known
    <3> QED
      BY <1>3, <2>1, <2>2, <3>1
  <2> QED
    BY <2>1, <2>2, <2>3
<1> QED
  BY <1>2, <1>3

(* A step makes known a new id, or that of a message it stores.            *)
LEMMA KnownMoves ==
  ASSUME R!RevertTypeOK, R!PlacesInv, R!RevertNext \/ UNCHANGED undo, NEW i \in R!Known'
  PROVE  \/ i \in R!Known \/ i = lastId + 1
         \/ \E p \in Request : R!StoreMessage(p) /\ i = request[p].id
<1> DEFINE Stores(j) == \E p \in Request : R!StoreMessage(p) /\ j = request[p].id
           Old(j) == j \in R!Known \/ j = lastId + 1 \/ Stores(j)
<1>1. /\ \A j \in R!Ids(stored') : Old(j)
      /\ R!Ids(summaries') \subseteq R!Ids(summaries) \cup R!Ids(stored)
      /\ \A c \in Undoer : R!Ids(client'[c].all) \subseteq R!Ids(client[c].all) \cup R!Ids(stored)
  <2>1. R!Ids(stored) \subseteq R!Known
    BY DEF R!Known
  <2> QED
    BY <2>1, StoredMoves
<1>2. \A u \in R!Undos' : u.point \in R!Known
  <2>1. \A u \in R!Undos : u.point \in R!Known
    BY DEF R!Known
  <2> QED
    BY <2>1, UndosMove
<1>3. \A p \in Request : request'[p].at = "streaming" => request'[p].id \in R!Known \cup {lastId + 1}
  <2>1. \A p \in Request : request[p].at = "streaming" => request[p].id \in R!Known
    BY DEF R!Known, R!At
  <2>2. ASSUME NEW p \in Request, R!RequestNext(p), NEW q \in Request, request'[q].at = "streaming"
        PROVE  request'[q].id \in R!Known \cup {lastId + 1}
    BY <2>1, <2>2, RequestMovesOn
  <2> QED
    BY <2>1, <2>2, WhoMoves
<1>4. R!Ids(stored) \subseteq R!Known /\ R!Ids(summaries) \subseteq R!Known
      /\ \A c \in Undoer : R!Ids(client[c].all) \subseteq R!Known
  BY DEF R!Known
<1>5. i \in R!Ids(stored') \/ i \in R!Ids(summaries') \/ (\E u \in R!Undos' : i = u.point)
      \/ (\E p \in Request : request'[p].at = "streaming" /\ i = request'[p].id)
      \/ (\E c \in Undoer : i \in R!Ids(client'[c].all))
  BY DEF R!Known, R!At, R!Ids
<1> HIDE DEF Stores
<1>6. Old(i)
  BY <1>1, <1>2, <1>3, <1>4, <1>5
<1> QED
  BY <1>6 DEF Stores

LEMMA ComposeTellsNobody ==
  ASSUME R!RevertTypeOK, NEW p \in Request, R!Compose(p)
  PROVE  R!Known' = R!Known
<1>1. UNCHANGED <<stored, record, client, summaries>>
  BY DEF R!Compose
<1>2. request \in [Request -> R!Requests] /\ request[p].at = "composing"
      /\ request' = [request EXCEPT ![p].at = "storing", ![p].id = lastId + 1]
  BY DEF R!RevertTypeOK, R!Compose, R!At
<1>3. /\ \A q \in Request : request'[q].seen = request[q].seen
      /\ \A q \in Request : request'[q].at = "streaming" <=> request[q].at = "streaming"
      /\ \A q \in Request : request[q].at = "streaming" => request'[q].id = request[q].id
  BY <1>2 DEF R!Requests
<1>4. R!Undos' = R!Undos
  BY <1>1, <1>3 DEF R!Undos
<1>5. {request[q].id : q \in {r \in Request : R!At(r, "streaming")}}'
        = {request[q].id : q \in {r \in Request : R!At(r, "streaming")}}
  BY <1>3 DEF R!At
<1> QED
  BY <1>1, <1>4, <1>5 DEF R!Known, R!Ids

LEMMA NewIdsStep ==
  ASSUME R!RevertTypeOK, R!PlacesInv, R!NewIdsAreNew, R!RevertNext \/ UNCHANGED undo
  PROVE  R!NewIdsAreNew'
<1>0. /\ lastId \in Nat /\ request \in [Request -> R!Requests]
      /\ \A p \in Request : request[p].id \in 0..lastId
  BY DEF R!RevertTypeOK, R!Requests
<1>1. \A p \in Request : R!Compose(p) =>
         /\ lastId + 1 \notin R!Known'
         /\ \A q \in Request \ {p} : request'[q] = request[q]
  <2> TAKE p \in Request
  <2> SUFFICES ASSUME R!Compose(p)
               PROVE  /\ lastId + 1 \notin R!Known'
                      /\ \A q \in Request \ {p} : request'[q] = request[q]
    OBVIOUS
  <2>1. lastId + 1 \notin R!Known
    BY <1>0, KnownAreGiven
  <2> QED
    BY <1>0, <2>1, ComposeTellsNobody DEF R!Compose
<1>2. \A p \in Request : request'[p].at = "storing" =>
        \/ request[p].at = "storing" /\ request'[p].id = request[p].id
        \/ R!Compose(p) /\ request'[p].id = lastId + 1
  <2>1. ASSUME NEW p \in Request, R!RequestNext(p), NEW q \in Request, request'[q].at = "storing"
        PROVE  \/ request[q].at = "storing" /\ request'[q].id = request[q].id
               \/ R!Compose(q) /\ request'[q].id = lastId + 1
    BY <2>1, RequestMovesOn
  <2> QED
    BY <2>1, WhoMoves
<1>3. \A p \in Request : R!StoreMessage(p) => request'[p].at # "storing" /\ request[p].at = "storing"
  BY <1>0 DEF R!StoreMessage, R!Goto, R!At, R!Requests
<1>4. \A p \in Request : request[p].at = "storing" =>
        /\ request[p].id \notin R!Known
        /\ \A q \in Request \ {p} : request[q].at = "storing" => request[q].id # request[p].id
  BY DEF R!NewIdsAreNew, R!At
<1>5. ASSUME NEW p \in Request, request'[p].at = "storing"
      PROVE  request'[p].id \notin R!Known'
  <2>1. CASE R!Compose(p) /\ request'[p].id = lastId + 1
    BY <1>1, <2>1
  <2>2. CASE request[p].at = "storing" /\ request'[p].id = request[p].id
    <3>1. request[p].id \notin R!Known /\ request[p].id # lastId + 1
      BY <1>0, <1>4, <2>2
    <3>2. \A q \in Request : R!StoreMessage(q) => request[q].id # request[p].id
      BY <1>3, <1>4, <1>5, <2>2
    <3> QED
      BY <2>2, <3>1, <3>2, KnownMoves
  <2> QED
    BY <1>2, <1>5, <2>1, <2>2
<1>6. ASSUME NEW p \in Request, request'[p].at = "storing",
             NEW q \in Request \ {p}, request'[q].at = "storing"
      PROVE  request'[q].id # request'[p].id
  <2>1. CASE R!Compose(p) \/ R!Compose(q)
    <3>1. \A r \in {p, q} : R!Compose(r) => request[r].at = "composing" /\ request'[r].id = lastId + 1
      BY <1>2, <1>6 DEF R!Compose, R!At
    <3>2. R!Compose(p) => request'[q].id \in 0..lastId
      BY <1>0, <1>1
    <3>3. R!Compose(q) => request'[p].id \in 0..lastId
      BY <1>0, <1>1
    <3> QED
      BY <1>0, <2>1, <3>1, <3>2, <3>3
  <2>2. CASE ~R!Compose(p) /\ ~R!Compose(q)
    BY <1>2, <1>4, <1>6, <2>2
  <2> QED
    BY <2>1, <2>2
<1> QED
  BY <1>5, <1>6 DEF R!NewIdsAreNew, R!At

(* An undone message that is gone stays gone, or has come back.            *)
LEMMA GoneStays ==
  ASSUME R!RevertTypeOK, R!PlacesInv, R!NewIdsAreNew, R!RevertNext \/ UNCHANGED undo,
         NEW u \in R!Undos, R!Gone(u)
  PROVE  R!Gone(u)'
<1>1. u.point \in R!Known /\ u.point # lastId + 1
  <2>1. u.point \in R!Known
    BY DEF R!Known
  <2> QED
    BY <2>1, KnownAreGiven DEF R!RevertTypeOK
<1>2. \A p \in Request : R!StoreMessage(p) => request[p].id # u.point
  BY <1>1 DEF R!StoreMessage, R!NewIdsAreNew
<1>3. returned \subseteq returned'
  BY RecordMoves
<1>4. u.point \in R!Ids(stored') => u.point \in R!Ids(stored) \/ u.point \in returned'
  BY <1>1, <1>2, StoredMoves
<1> QED
  BY <1>3, <1>4 DEF R!Gone

LEMMA UndoneOrGoneStep ==
  ASSUME R!RevertTypeOK, R!PlacesInv, R!NewIdsAreNew, R!UndoneOrGone,
         R!RevertNext \/ UNCHANGED undo
  PROVE  R!UndoneOrGone'
<1>1. ASSUME NEW u \in R!Undos
      PROVE  R!Gone(u)' \/ Covers(record', u.point)
  <2>1. CASE R!Gone(u)
    BY <2>1, GoneStays
  <2>2. CASE ~R!Gone(u)
    <3>1. Covers(record, u.point) /\ u.point \in R!Ids(stored)
      BY <2>2 DEF R!UndoneOrGone, R!Gone, Covers
    <3>2. u.point \in returned' \/ Covers(record', u.point)
      BY <3>1, RecordMoves
    <3> QED
      BY <3>2 DEF R!Gone
  <2> QED
    BY <2>1, <2>2
<1>2. ASSUME NEW u \in R!Undos', u = record', u.point \in R!Known
      PROVE  Covers(record', u.point)
  <2>1. u.point \in Nat
    BY <1>2, KnownAreGiven DEF R!RevertTypeOK
  <2>2. u # NoRecord
    BY DEF R!Undos
  <2> QED
    BY <1>2, <2>1, <2>2 DEF Covers
<1>3. ASSUME NEW u \in R!Undos'
      PROVE  R!Gone(u)' \/ Covers(record', u.point)
  BY <1>1, <1>2, UndosMove
<1> QED
  BY <1>3 DEF R!UndoneOrGone, Covers

(* A request begins to write when no record covers anything any more.      *)
LEMMA WrittenAfterStep ==
  ASSUME R!RevertTypeOK, R!PlacesInv, R!NewIdsAreNew, R!UndoneOrGone, R!UndoneOrGone',
         R!WrittenAfter, R!RevertNext \/ UNCHANGED undo
  PROVE  R!WrittenAfter'
<1>1. ASSUME NEW u \in R!Undos
      PROVE  /\ \A m \in stored' \cup summaries' : m.since >= u.number => R!Gone(u)'
             /\ \A p \in Request : R!Writing(p)' /\ request'[p].since >= u.number =>
                  R!Gone(u)' \/ record' = NoRecord
  <2>1. /\ \A m \in stored \cup summaries : m.since >= u.number => R!Gone(u)
        /\ \A p \in Request : R!Writing(p) /\ request[p].since >= u.number => R!Gone(u)
    BY DEF R!WrittenAfter
  <2>2. R!Gone(u) => R!Gone(u)'
    BY GoneStays
  <2>3. \A m \in stored' \cup summaries' : m.since >= u.number => R!Gone(u)
    BY <2>1, StoredMoves
  <2>4. \A p \in Request : R!Writing(p)' =>
          (R!Writing(p) /\ request'[p].since = request[p].since) \/ record' = NoRecord
    <3>1. ASSUME NEW p \in Request, R!RequestNext(p), NEW q \in Request, R!Writing(q)'
          PROVE  (R!Writing(q) /\ request'[q].since = request[q].since) \/ record' = NoRecord
      <4>1. CASE q = p
        BY <3>1, <4>1, RequestMovesOn
      <4>2. CASE q # p
        <5>1. request'[q] = request[q]
          BY <3>1, <4>2, RequestMovesOn
        <5> QED
          BY <3>1, <5>1 DEF R!Writing
      <4> QED
        BY <4>1, <4>2
    <3>2. CASE request' = request
      BY <3>2 DEF R!Writing
    <3> QED
      BY <3>1, <3>2, WhoMoves
  <2> QED
    BY <2>1, <2>2, <2>3, <2>4
<1>2. ASSUME NEW u \in R!Undos', record' = NoRecord
      PROVE  R!Gone(u)'
  BY <1>2 DEF R!UndoneOrGone
<1>3. ASSUME NEW u \in R!Undos', u = record', number' = number + 1, u.number = number',
             UNCHANGED <<stored, summaries, request>>
      PROVE  /\ \A m \in stored' \cup summaries' : ~(m.since >= u.number)
             /\ \A p \in Request : ~(request'[p].since >= u.number)
  <2>1. number \in Nat /\ \A m \in stored \cup summaries : m.since \in 0..number
    BY DEF R!RevertTypeOK, R!Messages
  <2>2. \A p \in Request : request[p].since \in 0..number
    BY DEF R!RevertTypeOK, R!Requests
  <2> QED
    BY <1>3, <2>1, <2>2
<1>4. ASSUME NEW u \in R!Undos'
      PROVE  /\ \A m \in stored' \cup summaries' : m.since >= u.number => R!Gone(u)'
             /\ \A p \in Request : R!Writing(p)' /\ request'[p].since >= u.number => R!Gone(u)'
  <2>1. CASE u \in R!Undos
    BY <1>1, <1>2, <2>1
  <2>2. CASE u \notin R!Undos
    BY <1>3, <2>2, UndosMove
  <2> QED
    BY <2>1, <2>2
<1> QED
  BY <1>4 DEF R!WrittenAfter

(* What is listed for removal is older than the undo, or its point is back. *)
LEMMA NewMessagesStep ==
  ASSUME R!RevertTypeOK, R!PlacesInv, R!WrittenAfter, R!NewMessagesStay,
         R!RevertNext \/ UNCHANGED undo
  PROVE  R!NewMessagesStay'
<1>0. returned \subseteq returned'
  BY RecordMoves
<1>1. ASSUME NEW p \in Request, request'[p].seen = request[p].seen,
             request'[p].doomed \subseteq request[p].doomed, NEW m \in request'[p].doomed
      PROVE  request'[p].seen.point \in returned' \/ m.since < request'[p].seen.number
  BY <1>0, <1>1 DEF R!NewMessagesStay
<1>2. ASSUME NEW p \in Request, request'[p].seen = request[p].seen, request[p].seen # NoRecord,
             request'[p].doomed = R!Doomed(request[p].seen.point), NEW m \in request'[p].doomed
      PROVE  request'[p].seen.point \in returned' \/ m.since < request'[p].seen.number
  <2> DEFINE u == request[p].seen
  <2>1. u \in R!Undos
    BY <1>2 DEF R!Undos
  <2>2. m \in stored /\ u.point \in R!Ids(stored)
    BY <1>2 DEF R!Doomed
  <2>3. m.since >= u.number => R!Gone(u)
    BY <2>1, <2>2 DEF R!WrittenAfter
  <2>4. m.since \in Nat /\ u.number \in Nat
    <3>1. m.since \in Nat
      BY <2>2 DEF R!RevertTypeOK, R!Messages
    <3>2. u \in R!Records \ {NoRecord}
      BY <1>2 DEF R!RevertTypeOK, R!Requests
    <3> QED
      BY <3>1, <3>2 DEF R!Records, R!RevertTypeOK
  <2>5. R!Gone(u) => u.point \in returned
    BY <2>2 DEF R!Gone
  <2> HIDE DEF u
  <2>6. u.point \in returned' \/ m.since < u.number
    BY <1>0, <2>3, <2>4, <2>5
  <2> QED
    BY <1>2, <2>6 DEF u
<1>3. ASSUME NEW p \in Request, NEW m \in request'[p].doomed
      PROVE  request'[p].seen.point \in returned' \/ m.since < request'[p].seen.number
  <2>1. CASE request'[p] = request[p]
    BY <1>1, <2>1
  <2>2. CASE R!RequestNext(p)
    <3>1. \/ request'[p].seen = request[p].seen /\ request'[p].doomed \subseteq request[p].doomed
          \/ /\ request'[p].seen = request[p].seen /\ request[p].seen # NoRecord
             /\ request'[p].doomed = R!Doomed(request[p].seen.point)
      BY <1>3, <2>2, RequestMovesOn
    <3> QED
      BY <1>1, <1>2, <1>3, <3>1
  <2>3. request'[p] = request[p] \/ R!RequestNext(p)
    BY WhoMoves, RequestMovesOn
  <2> QED
    BY <2>1, <2>2, <2>3
<1> QED
  BY <1>3 DEF R!NewMessagesStay

LEMMA RevertStep == R!RevertInv /\ (R!RevertNext \/ UNCHANGED undo) => R!RevertInv'
<1> SUFFICES ASSUME R!RevertInv, R!RevertNext \/ UNCHANGED undo PROVE R!RevertInv'
  OBVIOUS
<1>1. /\ R!RevertTypeOK /\ R!PlacesInv /\ R!NewIdsAreNew
      /\ R!UndoneOrGone /\ R!WrittenAfter /\ R!NewMessagesStay
  BY DEF R!RevertInv
<1>2. R!RevertTypeOK'
  BY <1>1, ClientTypes, RequestTypes, OtherTypes DEF R!RevertNext
<1>3. R!PlacesInv' /\ R!NewIdsAreNew'
  BY <1>1, PlacesStep, NewIdsStep
<1>4. R!UndoneOrGone'
  BY <1>1, UndoneOrGoneStep
<1>5. R!WrittenAfter' /\ R!NewMessagesStay'
  BY <1>1, <1>4, WrittenAfterStep, NewMessagesStep
<1> QED
  BY <1>2, <1>3, <1>4, <1>5 DEF R!RevertInv

-----------------------------------------------------------------------------
(* The loop and the undo together *)

LEMMA SessionStep == SessionSound /\ [LoopPart \/ UndoPart]_<<part, loop, undo>> => SessionSound'
<1> SUFFICES ASSUME SessionSound, [LoopPart \/ UndoPart]_<<part, loop, undo>> PROVE SessionSound'
  OBVIOUS
<1>1. [LoopNext]_loop /\ (R!RevertNext \/ UNCHANGED undo)
  BY DEF LoopPart, UndoPart
<1>2. ControlInv' /\ HistoryInv'
  BY <1>1, ControlStep, HistoryStep DEF SessionSound
<1>3. R!RevertInv'
  BY <1>1, RevertStep DEF SessionSound
<1> QED
  BY <1>2, <1>3 DEF SessionSound

(* What the run of MCSession checks on a small instance holds for any      *)
(* number of requests, clients, undos and messages: the inductive          *)
(* invariants of the loop's control, of its history and of the undo.       *)
THEOREM SessionIsSound == SessionSpec => []SessionSound
<1>1. SessionInit => SessionSound
  BY ControlStarts, HistoryStarts, RevertStarts DEF SessionInit, SessionSound
<1> QED
  BY <1>1, SessionStep, PTL DEF SessionSpec

(* What a prompt adds after it has seen an undo is not removed for it, by  *)
(* whatever requests clean up at the same time, unless its point is back.  *)
THEOREM NewMessagesAreKept == SessionSpec => []NewMessagesStay
<1>1. SessionSound => NewMessagesStay
  BY DEF SessionSound, NewMessagesStay, R!RevertInv
<1> QED
  BY <1>1, SessionIsSound, PTL
=============================================================================
