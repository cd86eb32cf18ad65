------------------------------- MODULE RwLock -------------------------------
(***************************************************************************)
(* One entry of the reader/writer lock table of                            *)
(* packages/emberharmony/src/util/lock.ts.  The table's keys are           *)
(* independent: every function touches the entry of its own key only, so   *)
(* the module models one key; a system with several records instantiates   *)
(* it once per record.                                                     *)
(*                                                                         *)
(* JavaScript runs a function to its first await without interruption, so  *)
(* a call of read, write or dispose is one action.  A waiting caller is    *)
(* represented by its task in place of the closure the code queues.        *)
(***************************************************************************)
EXTENDS Naturals, FiniteSets, Sequences

CONSTANT Task       \* the asynchronous callers; each runs one section at a time

ASSUME TaskAssumption == IsFiniteSet(Task)

VARIABLES
  present,          \* locks.has(key)
  readers,          \* lock.readers
  writer,           \* lock.writer
  waitingReaders,   \* lock.waitingReaders: all are woken at once, so a set
  waitingWriters,   \* lock.waitingWriters: woken one by one, in order
  section           \* what each task does with the lock

vars == <<present, readers, writer, waitingReaders, waitingWriters, section>>

Section == {"outside", "awaitRead", "reading", "awaitWrite", "writing"}

Idle    == {t \in Task : section[t] = "outside"}
Readers == {t \in Task : section[t] = "reading"}
Writers == {t \in Task : section[t] = "writing"}
Holders == Readers \cup Writers

TypeOK ==
  /\ present \in BOOLEAN
  /\ readers \in Nat
  /\ writer \in BOOLEAN
  /\ waitingReaders \in SUBSET Task
  /\ waitingWriters \in Seq(Task)
  /\ section \in [Task -> Section]

Init ==
  /\ present = FALSE
  /\ readers = 0
  /\ writer = FALSE
  /\ waitingReaders = {}
  /\ waitingWriters = <<>>
  /\ section = [t \in Task |-> "outside"]

-----------------------------------------------------------------------------
(* get(key): a missing entry is created fresh, whatever the dropped one    *)
(* held; these are the field values the caller then works on.              *)
CurrentReaders == IF present THEN readers ELSE 0
CurrentWriter  == present /\ writer
CurrentWaitingReaders == IF present THEN waitingReaders ELSE {}
CurrentWaitingWriters == IF present THEN waitingWriters ELSE <<>>

\* Slips that the properties must catch: a writer that does not look at the
\* readers, readers that do not look at the queue of writers.
MayWriteBesideReaders == ~CurrentWriter
MayReadPastWriters == ~CurrentWriter

MayRead  == ~CurrentWriter /\ CurrentWaitingWriters = <<>>
MayWrite == ~CurrentWriter /\ CurrentReaders = 0

(* Lock.read: join the readers, or queue behind the writers.               *)
Read(t) ==
  /\ section[t] = "outside"
  /\ present' = TRUE
  /\ writer' = CurrentWriter
  /\ waitingWriters' = CurrentWaitingWriters
  /\ \/ /\ MayRead
        /\ readers' = CurrentReaders + 1
        /\ waitingReaders' = CurrentWaitingReaders
        /\ section' = [section EXCEPT ![t] = "reading"]
     \/ /\ ~MayRead
        /\ readers' = CurrentReaders
        /\ waitingReaders' = CurrentWaitingReaders \cup {t}
        /\ section' = [section EXCEPT ![t] = "awaitRead"]

(* Lock.write: take the free lock, or queue.                               *)
Write(t) ==
  /\ section[t] = "outside"
  /\ present' = TRUE
  /\ readers' = CurrentReaders
  /\ waitingReaders' = CurrentWaitingReaders
  /\ \/ /\ MayWrite
        /\ writer' = TRUE
        /\ waitingWriters' = CurrentWaitingWriters
        /\ section' = [section EXCEPT ![t] = "writing"]
     \/ /\ ~MayWrite
        /\ writer' = CurrentWriter
        /\ waitingWriters' = Append(CurrentWaitingWriters, t)
        /\ section' = [section EXCEPT ![t] = "awaitWrite"]

(* process(key), after the disposing task t left n readers and no writer:  *)
(* hand the lock to the first writer, else wake every reader, else drop    *)
(* the entry.                                                              *)
StillHeld(t, n) ==
  /\ n > 0
  /\ readers' = n
  /\ writer' = FALSE
  /\ section' = [section EXCEPT ![t] = "outside"]
  /\ UNCHANGED <<present, waitingReaders, waitingWriters>>

WakeWriter(t, n) ==
  /\ n = 0
  /\ waitingWriters # <<>>
  /\ readers' = 0
  /\ writer' = TRUE
  /\ waitingWriters' = Tail(waitingWriters)
  /\ section' = [section EXCEPT ![t] = "outside", ![Head(waitingWriters)] = "writing"]
  /\ UNCHANGED <<present, waitingReaders>>

\* Slip: the clean-up does not look at the readers it has just woken.
WakeReadersThenDrop(t, n) ==
  /\ n = 0
  /\ waitingWriters = <<>>
  /\ readers' = Cardinality(waitingReaders)
  /\ writer' = FALSE
  /\ waitingReaders' = {}
  /\ section' = [u \in Task |-> IF u = t THEN "outside"
                                ELSE IF u \in waitingReaders THEN "reading"
                                ELSE section[u]]
  /\ present' = FALSE
  /\ UNCHANGED waitingWriters

WakeReaders(t, n) ==
  /\ n = 0
  /\ waitingWriters = <<>>
  /\ readers' = Cardinality(waitingReaders)
  /\ writer' = FALSE
  /\ waitingReaders' = {}
  /\ section' = [u \in Task |-> IF u = t THEN "outside"
                                ELSE IF u \in waitingReaders THEN "reading"
                                ELSE section[u]]
  /\ present' = (waitingReaders # {})
  /\ UNCHANGED waitingWriters

Process(t, n) == StillHeld(t, n) \/ WakeWriter(t, n) \/ WakeReaders(t, n)

\* Slip: the writer's closure clears the flag and forgets process(key).
DisposeWriteSilently(t) ==
  /\ section[t] = "writing"
  /\ writer' = FALSE
  /\ section' = [section EXCEPT ![t] = "outside"]
  /\ UNCHANGED <<present, readers, waitingReaders, waitingWriters>>

(* The dispose closures that read and write resolve with.                  *)
DisposeRead(t)  == section[t] = "reading" /\ Process(t, readers - 1)
DisposeWrite(t) == section[t] = "writing" /\ Process(t, readers)

Dispose(t) == DisposeRead(t) \/ DisposeWrite(t)

Next == \E t \in Task : Read(t) \/ Write(t) \/ Dispose(t)

(* A section is left: `using` disposes at the end of the holder's block.   *)
Fairness == \A t \in Task : WF_vars(Dispose(t))

Spec == Init /\ [][Next]_vars /\ Fairness

-----------------------------------------------------------------------------
(* A writer is alone: no other reader or writer is in its section.         *)
MutualExclusion ==
  \A t \in Writers : \A u \in Holders : t = u

(* Nobody waits on a free lock (the wake-up in process is never missed),   *)
(* and a reader waits only behind a writer, running or queued.             *)
NoLostWakeup ==
  /\ (waitingReaders # {} \/ waitingWriters # <<>>) => Holders # {}
  /\ waitingReaders # {} => (Writers # {} \/ waitingWriters # <<>>)

(* The entry is dropped from the table only when no closure still refers   *)
(* to it: a second entry would be a second lock on the same key.           *)
EntryOutlivesItsUsers == ~present => Idle = Task

(* A queued writer gets the lock, though other tasks go on reading and     *)
(* writing for ever ("Prioritize writers to prevent starvation").  The     *)
(* code promises nothing like it to a reader, and none holds.              *)
WriterNotStarved ==
  \A t \in Task : section[t] = "awaitWrite" ~> section[t] = "writing"

-----------------------------------------------------------------------------
(* The inductive strengthening: the counter, the flag and the queues of    *)
(* the entry are exactly what the tasks are doing.                         *)
EntryMatchesTasks ==
  /\ readers = Cardinality(Readers)
  /\ writer = (Writers # {})
  /\ waitingReaders = {t \in Task : section[t] = "awaitRead"}
  /\ \A t \in Task :
       section[t] = "awaitWrite" <=> \E i \in 1..Len(waitingWriters) : waitingWriters[i] = t
  /\ \A i, j \in 1..Len(waitingWriters) : waitingWriters[i] = waitingWriters[j] => i = j

IInv ==
  /\ TypeOK
  /\ EntryMatchesTasks
  /\ MutualExclusion
  /\ NoLostWakeup
  /\ EntryOutlivesItsUsers

=============================================================================
