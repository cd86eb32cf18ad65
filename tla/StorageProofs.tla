--------------------------- MODULE StorageProofs ---------------------------
(***************************************************************************)
(* Proofs about Storage, for any finite set of calls and any number of     *)
(* disk errors and crashes: the invariant IInv is inductive, and with it   *)
(* what callers see, read, update and find after a crash; and the calls    *)
(* implement the register that module Register describes.  What the lock   *)
(* does is taken from RwLockProofs.                                        *)
(***************************************************************************)
EXTENDS Storage, TLAPS

(* The lock of the record, with its theorems.  LP's operators are those of *)
(* L under other names.                                                    *)
LP == INSTANCE RwLockProofs

LEMMA TasksAreFinite == LP!IsFiniteSet(Task)
  BY TaskIsFinite DEF IsFiniteSet, LP!IsFiniteSet

LEMMA SameState == L!IInv <=> LP!IInv
<1>1. ASSUME NEW S PROVE L!Cardinality(S) = LP!Cardinality(S)
  BY DEF L!Cardinality, LP!Cardinality
<1>2. L!Cardinality(L!Readers) = LP!Cardinality(L!Readers)
  BY <1>1
<1> QED
  BY <1>2, Zenon
     DEF L!IInv, L!TypeOK, L!EntryMatchesTasks, L!MutualExclusion, L!NoLostWakeup,
         L!EntryOutlivesItsUsers, L!Section, L!Idle, L!Readers, L!Writers, L!Holders,
         LP!IInv, LP!TypeOK, LP!EntryMatchesTasks, LP!MutualExclusion, LP!NoLostWakeup,
         LP!EntryOutlivesItsUsers, LP!Section, LP!Idle, LP!Readers, LP!Writers, LP!Holders

LEMMA SameStateNext == L!IInv' <=> LP!IInv'
  BY SameState, PTL

LEMMA SameSteps ==
  ASSUME NEW t \in Task
  PROVE  /\ L!Write(t) <=> LP!Write(t)
         /\ L!Read(t) <=> LP!Read(t)
         /\ L!Dispose(t) <=> LP!Dispose(t)
<1>1. L!Write(t) <=> LP!Write(t)
  BY Zenon DEF L!Write, L!CurrentReaders, L!CurrentWriter, L!CurrentWaitingReaders,
               L!CurrentWaitingWriters, L!MayWrite,
               LP!Write, LP!CurrentReaders, LP!CurrentWriter, LP!CurrentWaitingReaders,
               LP!CurrentWaitingWriters, LP!MayWrite
<1>2. L!Read(t) <=> LP!Read(t)
  BY Zenon DEF L!Read, L!CurrentReaders, L!CurrentWriter, L!CurrentWaitingReaders,
               L!CurrentWaitingWriters, L!MayRead,
               LP!Read, LP!CurrentReaders, LP!CurrentWriter, LP!CurrentWaitingReaders,
               LP!CurrentWaitingWriters, LP!MayRead
<1>3. L!Dispose(t) <=> LP!Dispose(t)
  <2>1. L!Cardinality(waitingReaders) = LP!Cardinality(waitingReaders)
    BY DEF L!Cardinality, LP!Cardinality
  <2> QED
    BY <2>1, Zenon
       DEF L!Dispose, L!DisposeRead, L!DisposeWrite, L!Process, L!StillHeld, L!WakeWriter,
           L!WakeReaders, LP!Dispose, LP!DisposeRead, LP!DisposeWrite, LP!Process,
           LP!StillHeld, LP!WakeWriter, LP!WakeReaders
<1> QED
  BY <1>1, <1>2, <1>3

LEMMA LockStepKeeps ==
  ASSUME L!IInv, NEW t \in Task, L!Write(t) \/ L!Read(t) \/ L!Dispose(t)
  PROVE  L!IInv'
<1>1. LP!IInv /\ (LP!Write(t) \/ LP!Read(t) \/ LP!Dispose(t))
  BY SameState, SameSteps
<1>2. LP!IInv'
  BY <1>1, TasksAreFinite, LP!WriteKeepsIInv, LP!ReadKeepsIInv, LP!DisposeKeepsIInv
<1> QED
  BY <1>2, SameStateNext

LEMMA LockOpens == L!Init => L!IInv
<1>1. ASSUME L!Init PROVE LP!Init
  BY <1>1 DEF L!Init, LP!Init
<1> QED
  BY <1>1, TasksAreFinite, LP!InitIInv, SameState

LEMMA LockReopens == L!Init' => L!IInv'
  BY LockOpens, PTL

-----------------------------------------------------------------------------
(* Who holds the lock is alone inside.                                     *)
LEMMA Alone ==
  ASSUME LockInv, NEW t \in Task, section[t] \in {"reading", "writing"}
  PROVE  /\ \A u \in Task \ {t} : pc[u] \notin Inside
         /\ section[t] = "reading" => pc[t] \notin Inside
<1>1. \A u \in Task : pc[u] \in Inside => section[u] = "writing"
  BY DEF LockInv, Holds
<1>2. \A u \in Task : section[u] = "writing" => u = t
  BY DEF LockInv, L!IInv, L!MutualExclusion, L!Writers, L!Holders, L!Readers
<1> QED
  BY <1>1, <1>2

\* The other calls do not move.
Others(t) ==
  \A u \in Task \ {t} :
    pc'[u] = pc[u] /\ value'[u] = value[u] /\ since'[u] = since[u] /\ attempt'[u] = attempt[u]

LEMMA LockKept ==
  ASSUME LockInv, NEW t \in Task, Others(t),
         \/ UNCHANGED lock /\ (pc'[t] \in Inside => Holds(t))
         \/ pc'[t] \notin Inside /\ (L!Write(t) \/ L!Read(t))
         \/ pc'[t] \notin Inside /\ L!Dispose(t)
  PROVE  LockInv'
<1>1. CASE UNCHANGED lock /\ (pc'[t] \in Inside => Holds(t))
  <2>1. L!IInv'
    BY <1>1 DEF LockInv, lock, L!IInv, L!TypeOK, L!EntryMatchesTasks, L!MutualExclusion,
                L!NoLostWakeup, L!EntryOutlivesItsUsers, L!Idle, L!Readers, L!Writers, L!Holders
  <2> QED
    BY <1>1, <2>1 DEF LockInv, lock, Holds, Others
<1>2. CASE pc'[t] \notin Inside /\ (L!Write(t) \/ L!Read(t))
  <2>1. L!IInv'
    BY <1>2, LockStepKeeps DEF LockInv
  <2>2. \A u \in Task \ {t} : section'[u] = section[u]
    BY <1>2 DEF LockInv, L!IInv, L!TypeOK, L!Write, L!Read
  <2> QED
    BY <1>2, <2>1, <2>2 DEF LockInv, Holds, Others
<1>3. CASE pc'[t] \notin Inside /\ L!Dispose(t)
  <2>1. L!IInv'
    BY <1>3, LockStepKeeps DEF LockInv
  <2>2. section[t] \in {"reading", "writing"}
    BY <1>3 DEF L!Dispose, L!DisposeRead, L!DisposeWrite
  <2> QED
    BY <1>3, <2>1, <2>2, Alone DEF LockInv, Others
<1> QED
  BY <1>1, <1>2, <1>3

-----------------------------------------------------------------------------
(* What a step leaves alone, and the types.                                *)
LEMMA StepIsOfOne == ASSUME TypeOK, NEW t \in Task, Step(t) \/ Arrive(t) PROVE Others(t)
<1>0. /\ pc \in [Task -> Phases] /\ value \in [Task -> Nat] /\ since \in [Task -> Nat]
      /\ attempt \in [Task -> 0..3]
  BY DEF TypeOK
<1> USE <1>0 DEF Goto, Others, past
<1>1. CASE FlushStart(t) \/ FlushEnter(t) \/ FlushEnd(t) \/ FlushFault(t)
  BY <1>1 DEF FlushStart, FlushEnter, FlushEnd, FlushFault
<1>2. CASE WriteEnter(t) \/ UpdateEnter(t) \/ UpdateSet(t) \/ WriteBehind(t)
  BY <1>2 DEF WriteEnter, UpdateEnter, UpdateSet, WriteBehind, Overlay
<1>3. CASE UpdateLoad(t) \/ Rename(t) \/ WriteEnd(t) \/ WriteFault(t)
  BY <1>3 DEF UpdateLoad, Rename, WriteEnd, WriteFault
<1>4. CASE RemoveEnter(t) \/ Unlink(t) \/ UnlinkFault(t) \/ RemoveEnd(t)
  BY <1>4 DEF RemoveEnter, Unlink, UnlinkFault, RemoveEnd
<1>5. CASE ReadFile(t) \/ ReadEnd(t) \/ Scan(t) \/ ListEnd(t)
  BY <1>5 DEF ReadFile, ReadEnd, Scan, ListEnd
<1>6. CASE Change(t) \/ Read(t) \/ List(t)
  BY <1>6 DEF Change, Read, List
<1> QED
  BY <1>1, <1>2, <1>3, <1>4, <1>5, <1>6 DEF Step, Arrive

LEMMA CallsTyped ==
  ASSUME TypeOK, NEW t \in Task, Step(t) \/ Arrive(t)
  PROVE  /\ pc' \in [Task -> Phases] /\ value' \in [Task -> Nat]
         /\ attempt' \in [Task -> 0..3] /\ since' \in [Task -> Nat]
<1>0. /\ pc \in [Task -> Phases] /\ value \in [Task -> Nat] /\ since \in [Task -> Nat]
      /\ attempt \in [Task -> 0..3] /\ latest \in Nat /\ reported \in Nat
      /\ disk \in Nat /\ pending \in Nat
  BY DEF TypeOK
<1>1. \E ph \in Phases : pc' = [pc EXCEPT ![t] = ph]
  <2> USE DEF Goto, Phases, FlushPhases, ChangePhases, ReadPhases
  <2>1. CASE FlushStart(t) \/ FlushEnter(t) \/ FlushEnd(t) \/ FlushFault(t)
    BY <2>1 DEF FlushStart, FlushEnter, FlushEnd, FlushFault
  <2>2. CASE WriteEnter(t) \/ UpdateEnter(t) \/ UpdateSet(t) \/ WriteBehind(t)
    BY <2>2 DEF WriteEnter, UpdateEnter, UpdateSet, WriteBehind
  <2>3. CASE UpdateLoad(t) \/ Rename(t) \/ WriteEnd(t) \/ WriteFault(t)
    BY <2>3 DEF UpdateLoad, Rename, WriteEnd, WriteFault
  <2>4. CASE RemoveEnter(t) \/ Unlink(t) \/ UnlinkFault(t) \/ RemoveEnd(t)
    BY <2>4 DEF RemoveEnter, Unlink, UnlinkFault, RemoveEnd
  <2>5. CASE ReadFile(t) \/ ReadEnd(t) \/ Scan(t) \/ ListEnd(t)
    BY <2>5 DEF ReadFile, ReadEnd, Scan, ListEnd
  <2>6. CASE Change(t) \/ Read(t) \/ List(t)
    BY <2>6 DEF Change, Read, List
  <2> QED
    BY <2>1, <2>2, <2>3, <2>4, <2>5, <2>6 DEF Step, Arrive
<1>2. value' = value \/ \E n \in Nat : value' = [value EXCEPT ![t] = n]
  <2>1. CASE WriteEnter(t) \/ UpdateEnter(t) \/ UpdateSet(t) \/ WriteBehind(t)
    BY <1>0, <2>1 DEF WriteEnter, UpdateEnter, UpdateSet, WriteBehind, Overlay
  <2>2. CASE RemoveEnter(t)
    <3>1. latest + 1 \in Nat /\ value' = [value EXCEPT ![t] = latest + 1]
      BY <1>0, <2>2 DEF RemoveEnter
    <3> QED
      BY <3>1
  <2>3. CASE UpdateLoad(t) \/ ReadFile(t) \/ Scan(t)
    BY <1>0, <2>3 DEF UpdateLoad, ReadFile, Scan
  <2>4. CASE ListEnd(t)
    BY <1>0, <2>4 DEF ListEnd
  <2>5. CASE Read(t)
    BY <1>0, <2>5 DEF Read
  <2>6. CASE \/ FlushStart(t) \/ FlushEnter(t) \/ FlushEnd(t) \/ FlushFault(t)
             \/ Rename(t) \/ WriteEnd(t) \/ WriteFault(t)
    BY <2>6 DEF FlushStart, FlushEnter, FlushEnd, FlushFault, Rename, WriteEnd, WriteFault
  <2>7. CASE \/ Unlink(t) \/ UnlinkFault(t) \/ RemoveEnd(t) \/ ReadEnd(t)
             \/ Change(t) \/ List(t)
    BY <2>7 DEF Unlink, UnlinkFault, RemoveEnd, ReadEnd, Change, List
  <2> QED
    BY <2>1, <2>2, <2>3, <2>4, <2>5, <2>6, <2>7 DEF Step, Arrive
<1>3. attempt' = attempt \/ (attempt[t] < 3 /\ attempt' = [attempt EXCEPT ![t] = @ + 1])
  <2>1. CASE FlushFault(t)
    BY <2>1 DEF FlushFault
  <2>2. CASE \/ FlushStart(t) \/ FlushEnter(t) \/ FlushEnd(t) \/ WriteEnter(t) \/ UpdateEnter(t)
             \/ UpdateLoad(t) \/ UpdateSet(t) \/ Rename(t) \/ WriteEnd(t) \/ WriteFault(t)
    BY <2>2 DEF FlushStart, FlushEnter, FlushEnd, WriteEnter, UpdateEnter, UpdateLoad,
                UpdateSet, Rename, WriteEnd, WriteFault
  <2>3. CASE \/ RemoveEnter(t) \/ Unlink(t) \/ UnlinkFault(t) \/ RemoveEnd(t)
             \/ ReadFile(t) \/ ReadEnd(t) \/ Scan(t) \/ ListEnd(t) \/ Arrive(t)
    BY <2>3 DEF RemoveEnter, Unlink, UnlinkFault, RemoveEnd, ReadFile, ReadEnd, Scan,
                ListEnd, Arrive, WriteBehind, Change, Read, List
  <2> QED
    BY <2>1, <2>2, <2>3 DEF Step
<1>4. since' = since \/ \E n \in Nat : since' = [since EXCEPT ![t] = n]
  <2>1. CASE UpdateEnter(t) \/ Read(t) \/ List(t)
    BY <1>0, <2>1 DEF UpdateEnter, Overlay, Read, List
  <2>2. CASE \/ FlushStart(t) \/ FlushEnter(t) \/ FlushEnd(t) \/ FlushFault(t) \/ WriteEnter(t)
             \/ UpdateLoad(t) \/ UpdateSet(t) \/ Rename(t) \/ WriteEnd(t) \/ WriteFault(t)
    BY <2>2 DEF FlushStart, FlushEnter, FlushEnd, FlushFault, WriteEnter, UpdateLoad,
                UpdateSet, Overlay, Rename, WriteEnd, WriteFault, past
  <2>3. CASE \/ RemoveEnter(t) \/ Unlink(t) \/ UnlinkFault(t) \/ RemoveEnd(t)
             \/ ReadFile(t) \/ ReadEnd(t) \/ Scan(t) \/ ListEnd(t) \/ WriteBehind(t) \/ Change(t)
    BY <2>3 DEF RemoveEnter, Unlink, UnlinkFault, RemoveEnd, ReadFile, ReadEnd, Scan,
                ListEnd, WriteBehind, Overlay, Change, past
  <2> QED
    BY <2>1, <2>2, <2>3 DEF Step, Arrive
<1>5. attempt' \in [Task -> 0..3]
  BY <1>0, <1>3
<1>6. pc' \in [Task -> Phases]
  BY <1>0, <1>1
<1>7. value' \in [Task -> Nat] /\ since' \in [Task -> Nat]
  BY <1>0, <1>2, <1>4
<1> QED
  BY <1>5, <1>6, <1>7

LEMMA RecordChanges ==
  ASSUME NEW t \in Task, Step(t) \/ Arrive(t)
  PROVE  /\ disk' \in {disk, 0, value[t]} /\ pending' \in {pending, 0, latest + 1}
         /\ latest' \in {latest, latest + 1} /\ durable' \in {durable, value[t]}
         /\ reported' \in {reported, latest + 1, value[t]} /\ faults' \in {faults, faults + 1}
         /\ left' \in {left, left \cup {disk}} /\ gone' \in {gone, gone \cup {latest + 1}}
<1>1. CASE FlushStart(t) \/ FlushEnter(t) \/ FlushEnd(t)
  BY <1>1 DEF FlushStart, FlushEnter, FlushEnd, Forget, past, errors
<1>2. CASE FlushFault(t) \/ WriteFault(t)
  BY <1>2 DEF FlushFault, WriteFault, Fault, past
<1>3. CASE UnlinkFault(t)
  BY <1>3 DEF UnlinkFault, Fault, past
<1>4. CASE WriteEnter(t) \/ UpdateSet(t)
  BY <1>4 DEF WriteEnter, UpdateSet, Overlay, errors
<1>5. CASE WriteBehind(t)
  BY <1>5 DEF WriteBehind, Overlay, errors
<1>6. CASE UpdateEnter(t)
  BY <1>6 DEF UpdateEnter, Overlay, errors
<1>7. CASE UpdateLoad(t) \/ Rename(t)
  BY <1>7 DEF UpdateLoad, Rename, past, errors
<1>8. CASE WriteEnd(t)
  BY <1>8 DEF WriteEnd, Forget, Report, errors
<1>9. CASE Unlink(t) \/ RemoveEnd(t)
  BY <1>9 DEF Unlink, RemoveEnd, Report, past, errors
<1>10. CASE RemoveEnter(t)
  BY <1>10 DEF RemoveEnter, errors
<1>11. CASE ReadFile(t) \/ ReadEnd(t) \/ Scan(t) \/ ListEnd(t)
  BY <1>11 DEF ReadFile, ReadEnd, Scan, ListEnd, past, errors
<1>12. CASE Change(t) \/ Read(t) \/ List(t)
  BY <1>12 DEF Change, Read, List, past, errors
<1> QED
  BY <1>1, <1>2, <1>3, <1>4, <1>5, <1>6, <1>7, <1>8, <1>9, <1>10, <1>11, <1>12 DEF Step, Arrive

LEMMA RecordTyped ==
  ASSUME TypeOK, NEW t \in Task, Step(t) \/ Arrive(t)
  PROVE  /\ disk' \in Nat /\ pending' \in Nat /\ latest' \in Nat /\ durable' \in Nat
         /\ reported' \in Nat /\ faults' \in Nat
         /\ left' \in SUBSET Nat /\ gone' \in SUBSET Nat
<1>1. /\ disk \in Nat /\ pending \in Nat /\ latest \in Nat /\ durable \in Nat
      /\ reported \in Nat /\ faults \in Nat /\ left \in SUBSET Nat /\ gone \in SUBSET Nat
      /\ value[t] \in Nat /\ latest + 1 \in Nat /\ faults + 1 \in Nat
  BY DEF TypeOK
<1>2. /\ disk' \in Nat /\ pending' \in Nat /\ latest' \in Nat /\ durable' \in Nat
      /\ reported' \in Nat /\ faults' \in Nat
  <2>1. /\ disk' \in {disk, 0, value[t]} /\ pending' \in {pending, 0, latest + 1}
        /\ latest' \in {latest, latest + 1} /\ durable' \in {durable, value[t]}
        /\ reported' \in {reported, latest + 1, value[t]} /\ faults' \in {faults, faults + 1}
    BY RecordChanges
  <2> QED
    BY <1>1, <2>1
<1>3. left' \in {left, left \cup {disk}} /\ gone' \in {gone, gone \cup {latest + 1}}
  BY RecordChanges
<1>4. left' \in SUBSET Nat /\ gone' \in SUBSET Nat
  BY <1>1, <1>3
<1> QED
  BY <1>2, <1>4

LEMMA StepTyped ==
  ASSUME IInv, NEW t \in Task, Step(t) \/ Arrive(t), LockInv' PROVE TypeOK'
<1>1. L!TypeOK'
  BY DEF LockInv, L!IInv
<1> QED
  BY <1>1, CallsTyped, RecordTyped DEF IInv, TypeOK

-----------------------------------------------------------------------------
(* A call that leaves the record alone has to keep what is said of itself, *)
(* and what others rely on.                                                *)
LEMMA QuietKeeps ==
  ASSUME IInv, TypeOK', LockInv', NEW t \in Task, Others(t),
         UNCHANGED <<disk, pending, latest, gone, durable, left>>,
         pc[t] # "unlinking", pc'[t] # "unlinking",
         WriterOK(t)', ReaderOK(t)', UpdateOK(t)', AttemptOK(t)',
         pc'[t] \in {"flushing", "writing"} =>
           \A u \in Task : pc[u] = "readLock" => since[u] <= value'[t],
         \A u \in Task \ {t} :
           pc[u] \in {"loading", "loaded"} /\ pc[t] \in {"flush", "flushLock"}
             /\ pending # 0 /\ value[t] = pending
             => pc'[t] \in {"flush", "flushLock"} /\ value'[t] = value[t],
         OverlayIsCarried'
  PROVE  IInv'
<1>1. \A u \in Task \ {t} : WriterOK(u)' /\ AttemptOK(u)'
  BY DEF Others, IInv, CallsInv, WriterOK, AttemptOK
<1>2. \A u \in Task \ {t} : Fresh(u)' <=> Fresh(u)
  BY DEF Others, Fresh, AbsentSince
<1>3. \A u \in Task : pc'[u] = "unlinking" <=> pc[u] = "unlinking"
  BY DEF Others
<1>4. \A u \in Task \ {t} : ReaderOK(u)'
  <2> SUFFICES ASSUME NEW u \in Task \ {t} PROVE ReaderOK(u)'
    OBVIOUS
  <2>1. ReaderOK(u) /\ pc'[u] = pc[u] /\ since'[u] = since[u]
    BY DEF IInv, CallsInv, Others
  <2>2. pc[u] = "readLock" => \A w \in Task : pc'[w] \in {"flushing", "writing"} => since[u] <= value'[w]
    BY <2>1 DEF ReaderOK, Others
  <2> QED
    BY <1>2, <1>3, <2>1, <2>2 DEF ReaderOK, AbsentSince
<1>5. \A u \in Task \ {t} : UpdateOK(u)'
  <2> SUFFICES ASSUME NEW u \in Task \ {t} PROVE UpdateOK(u)'
    OBVIOUS
  <2>1. UpdateOK(u) /\ pc'[u] = pc[u] /\ since'[u] = since[u] /\ value'[u] = value[u]
    BY DEF IInv, CallsInv, Others
  <2>2. ASSUME pc[u] \in {"loading", "loaded"}, latest # since[u]
        PROVE  pending # 0 /\ \E w \in Task : pc'[w] \in {"flush", "flushLock"} /\ value'[w] = latest
    <3>1. PICK w \in Task : pending # 0 /\ pc[w] \in {"flush", "flushLock"} /\ value[w] = latest
      BY <2>1, <2>2 DEF UpdateOK
    <3>2. pending = latest
      BY <3>1 DEF IInv, NumbersInv
    <3>3. pc'[w] \in {"flush", "flushLock"} /\ value'[w] = latest
      BY <2>2, <3>1, <3>2 DEF Others
    <3> QED
      BY <3>1, <3>3
  <2> QED
    BY <2>1, <2>2 DEF UpdateOK
<1>6. CallsInv'
  BY <1>1, <1>4, <1>5 DEF CallsInv
<1>7. NumbersInv' /\ DurableIsOnDisk'
  BY DEF IInv, NumbersInv, DurableIsOnDisk, AbsentSince
<1>8. LastChangeIsVisible'
  BY <1>3 DEF IInv, LastChangeIsVisible, Visible
<1> QED
  BY <1>6, <1>7, <1>8 DEF IInv

(* Who carried the overlay carries it on.                                  *)
LEMMA StillCarried ==
  ASSUME IInv, NEW t \in Task, Others(t), UNCHANGED pending,
         pending # 0 /\ value[t] = pending /\ pc[t] \in {"done"} \cup FlushPhases \cup ChangePhases
           => /\ value'[t] = pending
              /\ pc'[t] \in {"done"} \cup FlushPhases \cup ChangePhases
              /\ pc'[t] = "done" => attempt'[t] \in {0, 3}
  PROVE  OverlayIsCarried'
<1> SUFFICES ASSUME pending # 0
             PROVE  \E u \in Task :
                      /\ value'[u] = pending
                      /\ pc'[u] = "done" => attempt'[u] \in {0, 3}
                      /\ pc'[u] \in {"done"} \cup FlushPhases \cup ChangePhases
  BY DEF OverlayIsCarried
<1>1. PICK u \in Task : /\ value[u] = pending
                        /\ pc[u] = "done" => attempt[u] \in {0, 3}
                        /\ pc[u] \in {"done"} \cup FlushPhases \cup ChangePhases
  BY DEF IInv, OverlayIsCarried
<1> QED
  BY <1>1 DEF Others

-----------------------------------------------------------------------------
(* The steps that change the record.                                       *)

(* A new content: nobody is inside but, perhaps, the call that sets it.    *)
LEMMA OverlayKeeps ==
  ASSUME IInv, TypeOK', LockInv', NEW t \in Task, Others(t), Overlay(t),
         UNCHANGED <<disk, left>>, attempt'[t] = attempt[t],
         pc[t] \in {"new", "writeLock", "updateLock", "loaded"},
         pc'[t] = "flush" \/ (pc'[t] = "writing" /\ Holds(t))
  PROVE  IInv'
<1>0. /\ latest \in Nat /\ gone \subseteq Nat /\ disk \in Nat /\ durable \in Nat
      /\ \A u \in Task : value[u] \in Nat /\ since[u] \in Nat /\ attempt[u] \in Nat
      /\ \A g \in gone : g <= latest
      /\ disk <= latest /\ durable <= latest
  BY DEF IInv, TypeOK, NumbersInv
<1>1. /\ latest' = latest + 1 /\ pending' = latest + 1 /\ value'[t] = latest + 1
      /\ UNCHANGED <<gone, durable, since>>
  BY DEF Overlay, IInv, TypeOK
<1>2. pc'[t] = "writing" => \A u \in Task \ {t} : pc'[u] \notin Inside
  BY Alone DEF IInv, Holds, Others
<1>3. \A u \in Task : pc'[u] = "unlinking" <=> pc[u] = "unlinking"
  BY DEF Others
<1>4. NumbersInv'
  BY <1>0, <1>1 DEF IInv, NumbersInv
<1>5. \A u \in Task : WriterOK(u)'
  <2>1. WriterOK(t)'
    BY <1>0, <1>1 DEF WriterOK
  <2>2. ASSUME NEW u \in Task \ {t} PROVE WriterOK(u)'
    <3>1. WriterOK(u) /\ pc'[u] = pc[u] /\ value'[u] = value[u]
      BY DEF IInv, CallsInv, Others
    <3>2. pending = 0 \/ pending = latest
      BY DEF IInv, NumbersInv
    <3> QED
      BY <1>0, <1>1, <3>1, <3>2 DEF WriterOK
  <2> QED
    BY <2>1, <2>2
<1>6. \A u \in Task : ReaderOK(u)'
  <2>1. pc'[t] \notin {"readLock", "read", "answered"}
    OBVIOUS
  <2>2. ASSUME NEW u \in Task \ {t} PROVE ReaderOK(u)'
    <3>1. ReaderOK(u) /\ pc'[u] = pc[u] /\ value'[u] = value[u]
      BY DEF IInv, CallsInv, Others
    <3>2. Fresh(u)' <=> Fresh(u)
      BY <1>1, <3>1 DEF Fresh, AbsentSince
    <3>3. ASSUME pc[u] = "readLock", NEW w \in Task, pc'[w] \in {"flushing", "writing"}
          PROVE  since[u] <= value'[w]
      <4>1. CASE w = t
        BY <1>0, <1>1, <3>1, <3>3, <4>1 DEF ReaderOK
      <4>2. CASE w # t
        BY <3>1, <3>3, <4>2 DEF ReaderOK, Others
      <4> QED
        BY <4>1, <4>2
    <3> QED
      BY <1>0, <1>1, <1>3, <3>1, <3>2, <3>3 DEF ReaderOK, AbsentSince
  <2> QED
    BY <2>1, <2>2 DEF ReaderOK
<1>7. \A u \in Task : UpdateOK(u)'
  <2>1. ASSUME NEW u \in Task, pc'[u] \in {"loading", "loaded"}
        PROVE  UpdateOK(u)'
    <3>1. u # t /\ pc'[t] = "flush" /\ pc[u] = pc'[u] /\ value'[u] = value[u]
      BY <1>2, <2>1 DEF Inside, Others
    <3>2. UpdateOK(u)
      BY DEF IInv, CallsInv
    <3> QED
      BY <1>0, <1>1, <3>1, <3>2 DEF UpdateOK
  <2> QED
    BY <2>1 DEF UpdateOK
<1>8. \A u \in Task : AttemptOK(u)'
  <2>1. AttemptOK(t)'
    BY <1>0, <1>1 DEF AttemptOK, ChangePhases, IInv, CallsInv
  <2> QED
    BY <2>1 DEF AttemptOK, IInv, CallsInv, Others
<1>9. LastChangeIsVisible'
  BY <1>0, <1>1 DEF LastChangeIsVisible, Visible
<1>10. DurableIsOnDisk'
  BY <1>1 DEF IInv, DurableIsOnDisk, AbsentSince
<1>11. OverlayIsCarried'
  BY <1>1 DEF OverlayIsCarried, FlushPhases, ChangePhases
<1> QED
  BY <1>4, <1>5, <1>6, <1>7, <1>8, <1>9, <1>10, <1>11 DEF IInv, CallsInv

(* The file becomes what the overlay of the writer was.                    *)
LEMMA RenameKeeps ==
  ASSUME IInv, TypeOK', LockInv', NEW t \in Task, Others(t), Rename(t)
  PROVE  IInv'
<1>1. /\ pc[t] \in {"flushing", "writing"} /\ disk' = value[t]
      /\ pc'[t] = IF pc[t] = "flushing" THEN "flushed" ELSE "written"
      /\ UNCHANGED <<pending, value, attempt, left, latest, gone, durable, since>>
  BY DEF Rename, Goto, errors, past, IInv, TypeOK
<1>2. \A u \in Task \ {t} : pc[u] \notin Inside /\ pc'[u] \notin Inside
  BY <1>1, Alone DEF IInv, LockInv, Holds, Inside, Others
<1>3. /\ 0 < value[t] /\ value[t] <= pending /\ disk <= value[t] /\ durable <= value[t]
      /\ pending = latest /\ latest \notin gone
      /\ value[t] \in Nat /\ pending \in Nat /\ disk \in Nat /\ durable \in Nat
  <2>1. /\ 0 < value[t] /\ value[t] <= pending /\ disk <= value[t] /\ durable <= value[t]
        /\ value[t] \in Nat /\ pending \in Nat /\ disk \in Nat /\ durable \in Nat
    BY <1>1 DEF IInv, TypeOK, CallsInv, WriterOK
  <2> QED
    BY <2>1 DEF IInv, NumbersInv
<1>4. NumbersInv'
  BY <1>1, <1>3 DEF IInv, NumbersInv
<1>5. \A u \in Task : WriterOK(u)'
  <2>1. WriterOK(t)'
    BY <1>1, <1>3 DEF WriterOK
  <2> QED
    BY <1>2, <2>1 DEF WriterOK, Inside
<1>6. \A u \in Task : ReaderOK(u)'
  <2> SUFFICES ASSUME NEW u \in Task, pc'[u] \in {"readLock", "read", "answered"}
               PROVE  ReaderOK(u)'
    BY DEF ReaderOK
  <2>1. ReaderOK(u) /\ pc[u] = pc'[u]
    BY <1>1 DEF IInv, CallsInv, Others
  <2>2. Fresh(u)' <=> Fresh(u)
    BY <1>1 DEF Fresh, AbsentSince
  <2>3. pc[u] = "readLock" => since[u] <= value[t]
    BY <1>1, <2>1 DEF ReaderOK
  <2>4. \A w \in Task : pc'[w] \notin {"flushing", "writing", "unlinking"}
    BY <1>1, <1>2 DEF Inside
  <2>5. value[t] \in Nat /\ since[u] \in Nat
    BY DEF IInv, TypeOK
  <2> QED
    BY <1>1, <1>3, <2>1, <2>2, <2>3, <2>4, <2>5 DEF ReaderOK
<1>7. \A u \in Task : UpdateOK(u)'
  BY <1>1, <1>2 DEF UpdateOK, Inside
<1>8. \A u \in Task : AttemptOK(u)'
  BY <1>1 DEF AttemptOK, ChangePhases, IInv, CallsInv, Others
<1>9. LastChangeIsVisible' /\ DurableIsOnDisk'
  BY <1>1, <1>3 DEF LastChangeIsVisible, Visible, DurableIsOnDisk
<1>10. OverlayIsCarried'
  BY <1>1, StillCarried DEF FlushPhases, ChangePhases
<1> QED
  BY <1>4, <1>5, <1>6, <1>7, <1>8, <1>9, <1>10 DEF IInv, CallsInv

(* The removal begins with the overlay, under the lock.                    *)
LEMMA RemoveEnterKeeps ==
  ASSUME IInv, TypeOK', LockInv', NEW t \in Task, Others(t), RemoveEnter(t)
  PROVE  IInv'
<1>1. /\ pc[t] = "removeLock" /\ pc'[t] = "unlinking" /\ Holds(t)
      /\ pending' = 0 /\ latest' = latest + 1 /\ value'[t] = latest + 1
      /\ gone' = gone \cup {latest + 1}
      /\ UNCHANGED <<disk, attempt, left, durable, since>>
  BY DEF RemoveEnter, Goto, errors, IInv, TypeOK
<1>2. \A u \in Task \ {t} : pc[u] \notin Inside /\ pc'[u] \notin Inside
  BY <1>1, Alone DEF IInv, Holds, Others
<1>3. /\ latest \in Nat /\ gone \subseteq Nat /\ disk \in Nat /\ durable \in Nat
      /\ \A g \in gone : g <= latest
      /\ disk <= latest /\ durable <= latest
  BY DEF IInv, TypeOK, NumbersInv
<1>4. NumbersInv'
  <2>1. \A g \in gone' : g <= latest'
    <3> SUFFICES ASSUME NEW g \in gone' PROVE g <= latest'
      OBVIOUS
    <3>1. g \in gone \/ g = latest + 1
      BY <1>1
    <3>2. CASE g \in gone
      <4>1. g <= latest /\ g \in Nat
        BY <3>2, <1>3
      <4>2. latest' = latest + 1
        BY <1>1
      <4> QED
        BY <4>1, <4>2, <1>3
    <3>3. CASE g = latest + 1
      BY <3>3, <1>1, <1>3
    <3> QED
      BY <3>1, <3>2, <3>3
  <2> QED
    BY <1>1, <1>3, <2>1 DEF IInv, NumbersInv
<1>5. \A u \in Task : WriterOK(u)'
  <2>1. WriterOK(t)'
    BY <1>1, <1>3 DEF WriterOK
  <2> QED
    BY <1>2, <2>1 DEF WriterOK, Inside
<1>6. \A u \in Task : ReaderOK(u)'
  <2> SUFFICES ASSUME NEW u \in Task, pc'[u] \in {"readLock", "read", "answered"}
               PROVE  ReaderOK(u)'
    BY DEF ReaderOK
  <2>1. ReaderOK(u) /\ pc[u] = pc'[u] /\ value'[u] = value[u] /\ since[u] \in Nat
    BY <1>1 DEF IInv, TypeOK, CallsInv, Others
  <2>2. \A n \in Nat : AbsentSince(n) => AbsentSince(n)'
    BY <1>1 DEF AbsentSince
  <2>3. Fresh(u) => Fresh(u)'
    BY <1>1, <2>1, <2>2 DEF Fresh, AbsentSince
  <2>4. \A w \in Task : pc'[w] \notin {"flushing", "writing"}
    BY <1>1, <1>2 DEF Inside
  <2>5. pc[u] = "readLock" => AbsentSince(since[u])'
    BY <1>1, <1>3, <2>1 DEF ReaderOK, AbsentSince
  <2> QED
    BY <1>1, <1>3, <2>1, <2>3, <2>4, <2>5 DEF ReaderOK
<1>7. \A u \in Task : UpdateOK(u)'
  BY <1>1, <1>2 DEF UpdateOK, Inside
<1>8. \A u \in Task : AttemptOK(u)'
  BY <1>1 DEF AttemptOK, ChangePhases, IInv, CallsInv, Others
<1>9. LastChangeIsVisible' /\ OverlayIsCarried'
  BY <1>1 DEF LastChangeIsVisible, OverlayIsCarried
<1>10. DurableIsOnDisk'
  BY <1>1 DEF IInv, DurableIsOnDisk, AbsentSince
<1> QED
  BY <1>4, <1>5, <1>6, <1>7, <1>8, <1>9, <1>10 DEF IInv, CallsInv

(* The file goes, or it stays because the disk fails.                      *)
LEMMA UnlinkKeeps ==
  ASSUME IInv, TypeOK', LockInv', NEW t \in Task, Others(t), Unlink(t) \/ UnlinkFault(t)
  PROVE  IInv'
<1>1. /\ pc[t] = "unlinking" /\ pc'[t] = "unlinked"
      /\ \/ disk' = 0 /\ left' = left
         \/ disk # 0 /\ disk' = disk /\ left' = left \cup {disk}
      /\ UNCHANGED <<pending, value, attempt, latest, gone, durable, since>>
  BY DEF Unlink, UnlinkFault, Goto, errors, past, IInv, TypeOK
<1>2. \A u \in Task \ {t} : pc[u] \notin Inside /\ pc'[u] \notin Inside
  BY <1>1, Alone DEF IInv, LockInv, Holds, Inside, Others
<1>3. /\ value[t] \in gone /\ durable <= value[t] /\ (pending # 0 \/ latest \in gone)
      /\ disk \in Nat /\ durable \in Nat /\ latest \in Nat /\ value[t] \in Nat
  BY <1>1 DEF IInv, TypeOK, CallsInv, WriterOK
<1>4. NumbersInv'
  <2>1. 0 \notin left' /\ disk' <= latest
    BY <1>1, <1>3 DEF IInv, NumbersInv
  <2> QED
    BY <1>1, <2>1 DEF IInv, NumbersInv
<1>5. \A u \in Task : WriterOK(u)'
  <2>1. WriterOK(t)'
    BY <1>1, <1>3 DEF WriterOK
  <2> QED
    BY <1>2, <2>1 DEF WriterOK, Inside
<1>6. \A u \in Task : ReaderOK(u)'
  <2> SUFFICES ASSUME NEW u \in Task, pc'[u] \in {"readLock", "read", "answered"}
               PROVE  ReaderOK(u)'
    BY DEF ReaderOK
  <2>1. ReaderOK(u) /\ pc[u] = pc'[u]
    BY <1>1 DEF IInv, CallsInv, Others
  <2>2. Fresh(u) => Fresh(u)'
    BY <1>1 DEF Fresh, AbsentSince
  <2>3. pc[u] = "readLock" => AbsentSince(since[u])
    BY <1>1, <2>1 DEF ReaderOK
  <2>4. \A w \in Task : pc'[w] \notin {"flushing", "writing", "unlinking"}
    BY <1>1, <1>2 DEF Inside
  <2> QED
    BY <1>1, <2>1, <2>2, <2>3, <2>4 DEF ReaderOK, AbsentSince
<1>7. \A u \in Task : UpdateOK(u)'
  BY <1>1, <1>2 DEF UpdateOK, Inside
<1>8. \A u \in Task : AttemptOK(u)'
  BY <1>1 DEF AttemptOK, ChangePhases, IInv, CallsInv, Others
<1>9. LastChangeIsVisible'
  <2>1. pending # 0 => pending = latest /\ latest \notin gone
    BY DEF IInv, NumbersInv
  <2> QED
    BY <1>1, <1>3, <2>1 DEF LastChangeIsVisible, Visible, IInv
<1>10. DurableIsOnDisk'
  BY <1>1, <1>3 DEF IInv, DurableIsOnDisk, AbsentSince
<1>11. OverlayIsCarried'
  BY <1>1, StillCarried DEF FlushPhases, ChangePhases
<1> QED
  BY <1>4, <1>5, <1>6, <1>7, <1>8, <1>9, <1>10, <1>11 DEF IInv, CallsInv

(* The end of a change: the overlay is forgotten if it is still the        *)
(* caller's, and the caller is told.                                       *)
LEMMA EndKeeps ==
  ASSUME IInv, TypeOK', LockInv', NEW t \in Task, Others(t),
         FlushEnd(t) \/ WriteEnd(t) \/ RemoveEnd(t)
  PROVE  IInv'
<1>1. /\ pc[t] \in {"flushed", "written", "unlinked"} /\ pc'[t] = "done"
      /\ UNCHANGED <<disk, value, attempt, left, latest, gone, since>>
      /\ durable' = durable \/ (durable' = value[t] /\ pc[t] # "flushed")
      /\ IF pc[t] = "unlinked" THEN pending' = pending
         ELSE pending' = IF pending = value[t] THEN 0 ELSE pending
  BY DEF FlushEnd, WriteEnd, RemoveEnd, Goto, Forget, Report, errors, past, IInv, TypeOK
<1>2. \A u \in Task \ {t} : pc[u] \notin Inside /\ pc'[u] \notin Inside
  BY <1>1, Alone DEF IInv, LockInv, Holds, Inside, Others
<1>3. /\ pc[t] = "unlinked" => value[t] \in gone /\ disk \in {0} \cup left
      /\ pc[t] # "unlinked" => disk = value[t] /\ disk # 0 /\ pending # 0
  BY <1>1 DEF IInv, CallsInv, WriterOK
<1>4. /\ pending # 0 => pending = latest /\ latest \notin gone
      /\ disk <= latest /\ 0 \notin left /\ \A g \in gone : g <= latest
      /\ disk \in Nat /\ latest \in Nat /\ durable \in Nat /\ value[t] \in Nat
  BY DEF IInv, NumbersInv, TypeOK
<1>5. NumbersInv'
  BY <1>1, <1>3, <1>4 DEF IInv, NumbersInv
<1>6. \A u \in Task : WriterOK(u)' /\ UpdateOK(u)'
  BY <1>1, <1>2 DEF WriterOK, UpdateOK, Inside
<1>7. \A u \in Task : ReaderOK(u)'
  <2> SUFFICES ASSUME NEW u \in Task, pc'[u] \in {"readLock", "read", "answered"}
               PROVE  ReaderOK(u)'
    BY DEF ReaderOK
  <2>1. ReaderOK(u) /\ pc[u] = pc'[u]
    BY <1>1 DEF IInv, CallsInv, Others
  <2>2. Fresh(u)' <=> Fresh(u)
    BY <1>1 DEF Fresh, AbsentSince
  <2>3. \A w \in Task : /\ pc'[w] \notin {"flushing", "writing", "unlinking"}
                        /\ pc[w] # "unlinking"
    BY <1>1, <1>2 DEF Inside
  <2> QED
    BY <1>1, <2>1, <2>2, <2>3 DEF ReaderOK, AbsentSince
<1>8. \A u \in Task : AttemptOK(u)'
  BY <1>1 DEF AttemptOK, ChangePhases, IInv, CallsInv, Others
<1>9. LastChangeIsVisible'
  <2>1. \A w \in Task : pc[w] # "unlinking"
    BY <1>1, <1>2 DEF Inside
  <2> QED
    BY <1>1, <1>3, <1>4, <2>1 DEF LastChangeIsVisible, Visible, IInv
<1>10. DurableIsOnDisk'
  BY <1>1, <1>3, <1>4 DEF IInv, DurableIsOnDisk, AbsentSince
<1>11. OverlayIsCarried'
  <2> SUFFICES ASSUME pending' # 0 PROVE OverlayIsCarried'
    BY DEF OverlayIsCarried
  <2>1. pending' = pending /\ value[t] # pending
    BY <1>1, <1>3, <1>4
  <2> QED
    BY <2>1, StillCarried
<1> QED
  BY <1>5, <1>6, <1>7, <1>8, <1>9, <1>10, <1>11 DEF IInv, CallsInv

-----------------------------------------------------------------------------
(* The steps that leave the record alone.                                  *)

(* A flush looks whether it still carries the overlay.                     *)
LEMMA FlushKeeps ==
  ASSUME IInv, TypeOK', LockInv', NEW t \in Task, Others(t),
         FlushStart(t) \/ FlushEnter(t)
  PROVE  IInv'
<1>1. /\ UNCHANGED <<disk, pending, latest, gone, durable, left, value, attempt, since>>
      /\ \/ pc[t] = "flush" /\ pc'[t] \in {"done", "flushLock"}
         \/ pc[t] = "flushLock" /\ Holds(t) /\ pc'[t] \in {"done", "flushing"}
      /\ pending = value[t] <=> pc'[t] # "done"
  BY DEF FlushStart, FlushEnter, Goto, errors, past, IInv, TypeOK
<1>2. value[t] # 0
  BY <1>1 DEF IInv, CallsInv, AttemptOK
<1>3. pending = value[t] => pending = latest /\ latest \notin gone
  BY <1>2 DEF IInv, NumbersInv
<1>4. /\ disk <= latest /\ durable <= latest /\ \A g \in gone : g <= latest
      /\ latest \in Nat /\ gone \subseteq Nat /\ value[t] \in Nat
  BY DEF IInv, NumbersInv, TypeOK
<1>5. WriterOK(t)'
  BY <1>1, <1>2, <1>3, <1>4 DEF WriterOK
<1>6. ReaderOK(t)' /\ UpdateOK(t)'
  BY <1>1 DEF ReaderOK, UpdateOK
<1>7. AttemptOK(t)'
  BY <1>1, <1>2 DEF AttemptOK, ChangePhases
<1>8. pc'[t] \in {"flushing", "writing"} =>
        \A u \in Task : pc[u] = "readLock" => since[u] <= value'[t]
  BY <1>1, <1>3 DEF IInv, CallsInv, ReaderOK
<1>9. ASSUME NEW u \in Task \ {t}, pc[u] \in {"loading", "loaded"}, value[t] = pending
      PROVE  pc'[t] \in {"flush", "flushLock"}
  <2>1. ~Holds(t)
    BY <1>9, Alone DEF IInv, Holds, Inside
  <2> QED
    BY <1>1, <1>9, <2>1
<1>10. OverlayIsCarried'
  BY <1>1, StillCarried DEF FlushPhases
<1> QED
  BY <1>1, <1>5, <1>6, <1>7, <1>8, <1>9, <1>10, QuietKeeps

(* The disk fails: the flush is tried again or given up, the caller of a   *)
(* write is told.                                                          *)
LEMMA FaultKeeps ==
  ASSUME IInv, TypeOK', LockInv', NEW t \in Task, Others(t),
         FlushFault(t) \/ WriteFault(t)
  PROVE  IInv'
<1>1. /\ UNCHANGED <<disk, pending, latest, gone, durable, left, value, since>>
      /\ \/ pc[t] = "writing" /\ pc'[t] = "done" /\ attempt'[t] = attempt[t]
         \/ pc[t] = "flushing" /\ pc'[t] = "flush"
         \/ /\ pc[t] = "flushing" /\ pc'[t] = "done" /\ attempt'[t] = attempt[t]
            /\ ~(attempt[t] < 3 /\ pending = value[t])
  BY DEF FlushFault, WriteFault, Goto, past, IInv, TypeOK
<1>2. value[t] # 0 /\ attempt[t] \in 0..3 /\ value[t] \in Nat
  BY <1>1 DEF IInv, TypeOK, CallsInv, WriterOK
<1>3. pc[t] = "writing" => attempt[t] = 0
  BY DEF IInv, CallsInv, AttemptOK, ChangePhases
<1>4. WriterOK(t)' /\ ReaderOK(t)' /\ UpdateOK(t)'
  BY <1>1 DEF WriterOK, ReaderOK, UpdateOK
<1>5. AttemptOK(t)'
  BY <1>1, <1>2 DEF AttemptOK, ChangePhases
<1>6. OverlayIsCarried'
  BY <1>1, <1>2, <1>3, StillCarried DEF FlushPhases
<1> QED
  BY <1>1, <1>4, <1>5, <1>6, QuietKeeps

(* The change of a record begins, and update loads the file.               *)
LEMMA UpdateKeeps ==
  ASSUME IInv, TypeOK', LockInv', NEW t \in Task, Others(t),
         Change(t) \/ UpdateLoad(t) \/ (UpdateEnter(t) /\ pending = 0)
  PROVE  IInv'
<1>0. attempt[t] = 0 /\ value[t] = 0
  BY DEF Change, UpdateLoad, UpdateEnter, IInv, CallsInv, AttemptOK, ChangePhases
<1>1. UNCHANGED <<disk, pending, latest, gone, durable, left>> /\ attempt'[t] = attempt[t]
  BY DEF Change, UpdateLoad, UpdateEnter, errors, past
<1>2. CASE Change(t)
  <2>1. /\ pc[t] = "new" /\ pc'[t] \in {"writeLock", "updateLock", "removeLock"}
        /\ value'[t] = value[t]
    BY <1>2 DEF Change, Goto, IInv, TypeOK
  <2>2. WriterOK(t)' /\ ReaderOK(t)' /\ UpdateOK(t)'
    BY <2>1 DEF WriterOK, ReaderOK, UpdateOK
  <2>3. AttemptOK(t)'
    BY <1>0, <1>1, <2>1 DEF AttemptOK
  <2>4. OverlayIsCarried'
    BY <1>1, <2>1, StillCarried DEF FlushPhases, ChangePhases
  <2> QED
    BY <1>1, <2>1, <2>2, <2>3, <2>4, QuietKeeps
<1>3. CASE UpdateEnter(t) /\ pending = 0
  <2>1. /\ pc[t] = "updateLock" /\ pc'[t] = "loading" /\ Holds(t)
        /\ value'[t] = value[t] /\ since'[t] = latest
    BY <1>3 DEF UpdateEnter, Goto, IInv, TypeOK
  <2>2. WriterOK(t)' /\ ReaderOK(t)'
    BY <2>1 DEF WriterOK, ReaderOK
  <2>3. UpdateOK(t)'
    <3>1. \A u \in Task : pc[u] # "unlinking"
      BY <2>1, Alone DEF IInv, Holds, Inside
    <3>2. disk \in {0, latest} \cup left
      BY <1>3, <3>1 DEF IInv, LastChangeIsVisible, Visible
    <3> QED
      BY <1>1, <2>1, <3>2 DEF UpdateOK
  <2>4. AttemptOK(t)'
    BY <1>0, <1>1, <2>1 DEF AttemptOK
  <2>5. OverlayIsCarried'
    BY <1>1, <1>3 DEF OverlayIsCarried
  <2> QED
    BY <1>1, <1>3, <2>1, <2>2, <2>3, <2>4, <2>5, QuietKeeps
<1>4. CASE UpdateLoad(t)
  <2>1. /\ pc[t] = "loading" /\ since'[t] = since[t]
        /\ \/ disk # 0 /\ value'[t] = disk /\ pc'[t] = "loaded"
           \/ pc'[t] = "done" /\ value'[t] = value[t]
    BY <1>4 DEF UpdateLoad, Goto, past, IInv, TypeOK
  <2>2. WriterOK(t)' /\ ReaderOK(t)'
    BY <2>1 DEF WriterOK, ReaderOK
  <2>3. UpdateOK(t)'
    <3>1. UpdateOK(t)
      BY DEF IInv, CallsInv
    <3>2. \A u \in Task : pc[u] \in {"flush", "flushLock"} =>
            pc'[u] \in {"flush", "flushLock"} /\ value'[u] = value[u]
      BY <2>1 DEF Others
    <3> QED
      BY <1>1, <2>1, <3>1, <3>2 DEF UpdateOK
  <2>4. AttemptOK(t)'
    BY <1>0, <1>1, <2>1 DEF AttemptOK
  <2>5. OverlayIsCarried'
    BY <1>0, <1>1, StillCarried
  <2> QED
    BY <1>1, <2>1, <2>2, <2>3, <2>4, <2>5, QuietKeeps
<1> QED
  BY <1>2, <1>3, <1>4

LEMMA ReadKeeps ==
  ASSUME IInv, TypeOK', LockInv', NEW t \in Task, Others(t),
         Read(t) \/ ReadFile(t) \/ ReadEnd(t)
  PROVE  IInv'
<1>1. /\ UNCHANGED <<disk, pending, latest, gone, durable, left>>
      /\ pc[t] \in {"new", "readLock", "read"} /\ pc'[t] \in {"readLock", "read", "answered"}
  BY DEF Read, ReadFile, ReadEnd, Goto, errors, past, IInv, TypeOK
<1>2. WriterOK(t)' /\ UpdateOK(t)' /\ AttemptOK(t)'
  BY <1>1 DEF WriterOK, UpdateOK, AttemptOK, ChangePhases
<1>3. OverlayIsCarried'
  BY <1>1, StillCarried DEF FlushPhases, ChangePhases
<1>4. /\ latest \in Nat /\ disk \in Nat /\ pending \in Nat /\ gone \subseteq Nat
      /\ \A u \in Task : value[u] \in Nat
  BY DEF IInv, TypeOK
<1>5. ReaderOK(t)'
  <2>1. CASE Read(t)
    <3>1. /\ since'[t] = latest
          /\ \/ pending # 0 /\ value'[t] = pending /\ pc'[t] = "answered"
             \/ pending = 0 /\ pc'[t] = "readLock"
      BY <2>1 DEF Read, Goto, IInv, TypeOK
    <3>2. CASE pending # 0
      <4>1. pending = latest
        BY <3>2 DEF IInv, NumbersInv
      <4> QED
        BY <1>4, <3>1, <3>2, <4>1 DEF ReaderOK, Fresh
    <3>3. CASE pending = 0
      <4>1. \A u \in Task : pc[u] \notin {"flushing", "writing"}
        BY <1>4, <3>3 DEF IInv, CallsInv, WriterOK
      <4>2. \A u \in Task : pc[u] = "unlinking" => latest \in gone
        BY <3>3 DEF IInv, CallsInv, WriterOK
      <4>3. latest \in gone => AbsentSince(latest)
        BY <1>4 DEF AbsentSince
      <4>4. IF disk = 0 THEN AbsentSince(latest)
            ELSE disk >= latest \/ disk \in left \/ \E u \in Task : pc[u] = "unlinking"
        <5>1. CASE latest \in gone
          BY <4>3, <5>1 DEF IInv, LastChangeIsVisible
        <5>2. CASE latest \notin gone
          <6>1. disk = latest
            BY <3>3, <5>2 DEF IInv, LastChangeIsVisible, Visible
          <6>2. latest # 0
            BY <5>2 DEF IInv, DurableIsOnDisk, AbsentSince, NumbersInv, TypeOK
          <6> QED
            BY <1>4, <6>1, <6>2
        <5> QED
          BY <5>1, <5>2
      <4>5. \A u \in Task : pc'[u] \in {"flushing", "writing", "unlinking"} => pc'[u] = pc[u]
        BY <1>1 DEF Others
      <4>6. \A u \in Task : pc'[u] = "unlinking" <=> pc[u] = "unlinking"
        BY <1>1 DEF Others
      <4> QED
        BY <1>1, <1>4, <3>1, <3>3, <4>1, <4>2, <4>3, <4>4, <4>5, <4>6 DEF ReaderOK, AbsentSince
    <3> QED
      BY <3>2, <3>3
  <2>2. CASE ReadFile(t)
    <3>1. /\ pc[t] = "readLock" /\ pc'[t] = "read" /\ section[t] = "reading"
          /\ value'[t] = disk /\ since'[t] = since[t]
      BY <2>2 DEF ReadFile, Goto, past, IInv, TypeOK
    <3>2. \A u \in Task : pc[u] # "unlinking"
      BY <3>1, Alone DEF IInv, Inside
    <3>3. ReaderOK(t)
      BY DEF IInv, CallsInv
    <3> QED
      BY <1>1, <3>1, <3>2, <3>3 DEF ReaderOK, Fresh, AbsentSince
  <2>3. CASE ReadEnd(t)
    <3>1. /\ pc[t] = "read" /\ pc'[t] = "answered"
          /\ value'[t] = value[t] /\ since'[t] = since[t]
      BY <2>3 DEF ReadEnd, Goto, past, IInv, TypeOK
    <3>2. ReaderOK(t)
      BY DEF IInv, CallsInv
    <3> QED
      BY <1>1, <3>1, <3>2 DEF ReaderOK, Fresh, AbsentSince
  <2> QED
    BY <2>1, <2>2, <2>3
<1> QED
  BY <1>1, <1>2, <1>3, <1>5, QuietKeeps

LEMMA ListKeeps ==
  ASSUME IInv, TypeOK', LockInv', NEW t \in Task, Others(t),
         List(t) \/ Scan(t) \/ ListEnd(t)
  PROVE  IInv'
<1>1. /\ UNCHANGED <<disk, pending, latest, gone, durable, left>>
      /\ pc[t] \in {"new", "scanning", "scanned"} /\ pc'[t] \in {"scanning", "scanned", "listed"}
  BY DEF List, Scan, ListEnd, Goto, errors, past, IInv, TypeOK
<1>2. WriterOK(t)' /\ ReaderOK(t)' /\ UpdateOK(t)' /\ AttemptOK(t)'
  BY <1>1 DEF WriterOK, ReaderOK, UpdateOK, AttemptOK, ChangePhases
<1>3. OverlayIsCarried'
  BY <1>1, StillCarried DEF FlushPhases, ChangePhases
<1> QED
  BY <1>1, <1>2, <1>3, QuietKeeps

-----------------------------------------------------------------------------
(* A crash: the disk holds every durable change, or the file is gone since.*)
LEMMA CrashKeeps == ASSUME IInv, Crash PROVE IInv'
<1>0. /\ disk \in Nat /\ latest \in Nat /\ durable \in Nat /\ reported \in Nat
      /\ gone \subseteq Nat /\ left \subseteq Nat /\ 0 \notin left
      /\ disk <= latest /\ durable <= latest /\ \A g \in gone : g <= latest
      /\ pc \in [Task -> Phases] /\ value \in [Task -> Nat] /\ since \in [Task -> Nat]
      /\ attempt \in [Task -> 0..3] /\ faults \in Nat
  BY DEF IInv, NumbersInv, TypeOK
<1>1. /\ pending' = 0 /\ UNCHANGED <<disk, value, attempt, faults, left, since>>
      /\ pc' = [t \in Task |-> IF pc[t] = "new" THEN "new" ELSE "done"]
      /\ latest' = IF disk = 0 THEN latest ELSE disk
      /\ gone' = IF disk = 0 THEN gone \cup {latest} ELSE {g \in gone : g < disk}
      /\ durable' = IF disk \in left THEN disk ELSE durable
      /\ reported' = latest'
  BY DEF Crash, errors
<1>2. \A t \in Task : pc'[t] = "done" \/ (pc'[t] = "new" /\ pc[t] = "new")
  BY <1>1
<1>3. L!IInv'
  <2>1. L!Init'
    BY DEF Crash, L!Init
  <2> QED
    BY <2>1, LockReopens
<1>4. LockInv'
  BY <1>2, <1>3 DEF LockInv, Inside
<1>5. TypeOK'
  <2>1. L!TypeOK'
    BY <1>3 DEF L!IInv
  <2>2. pc' \in [Task -> Phases]
    BY <1>1 DEF Phases
  <2>3. gone' \in SUBSET Nat
    BY <1>0, <1>1
  <2>4. pending' \in Nat /\ latest' \in Nat /\ durable' \in Nat /\ reported' \in Nat
    BY <1>0, <1>1
  <2> QED
    BY <1>0, <1>1, <2>1, <2>2, <2>3, <2>4 DEF TypeOK
<1>6. disk # 0 => disk \in left \/ durable <= disk
  BY <1>0 DEF IInv, DurableIsOnDisk
<1>7. NumbersInv'
  <2>1. CASE disk = 0
    BY <1>0, <1>1, <2>1 DEF NumbersInv
  <2>2. CASE disk # 0
    BY <1>0, <1>1, <1>6, <2>2 DEF NumbersInv
  <2> QED
    BY <2>1, <2>2
<1>8. CallsInv'
  <2>1. \A t \in Task : WriterOK(t)' /\ ReaderOK(t)' /\ UpdateOK(t)'
    BY <1>2 DEF WriterOK, ReaderOK, UpdateOK
  <2>2. \A t \in Task : AttemptOK(t)'
    BY <1>1, <1>2 DEF AttemptOK, ChangePhases, IInv, CallsInv
  <2> QED
    BY <2>1, <2>2 DEF CallsInv
<1>9. LastChangeIsVisible' /\ DurableIsOnDisk' /\ OverlayIsCarried'
  <2>1. CASE disk = 0
    BY <1>0, <1>1, <2>1 DEF LastChangeIsVisible, DurableIsOnDisk, AbsentSince, OverlayIsCarried
  <2>2. CASE disk # 0
    BY <1>0, <1>1, <1>6, <2>2
       DEF LastChangeIsVisible, Visible, DurableIsOnDisk, OverlayIsCarried
  <2> QED
    BY <2>1, <2>2
<1> QED
  BY <1>4, <1>5, <1>7, <1>8, <1>9 DEF IInv

LEMMA InitIInv == ASSUME Init PROVE IInv
<1>1. /\ disk \in Nat /\ pending = 0 /\ latest = disk /\ durable = disk /\ reported = disk
      /\ gone = {0} /\ left = {} /\ faults = 0
      /\ \A t \in Task : pc[t] = "new" /\ value[t] = 0 /\ attempt[t] = 0 /\ since[t] = 0
  BY DEF Init
<1>2. L!IInv
  BY LockOpens DEF Init
<1>3. LockInv
  BY <1>1, <1>2 DEF LockInv, Inside
<1>4. TypeOK
  <2>1. L!TypeOK
    BY <1>2 DEF L!IInv
  <2>2. "new" \in Phases /\ 0 \in 0..3
    BY DEF Phases
  <2> QED
    BY <1>1, <2>1, <2>2 DEF Init, TypeOK
<1>5. NumbersInv
  BY <1>1 DEF NumbersInv
<1>6. CallsInv
  BY <1>1 DEF CallsInv, WriterOK, ReaderOK, UpdateOK, AttemptOK
<1>7. LastChangeIsVisible /\ DurableIsOnDisk /\ OverlayIsCarried
  BY <1>1 DEF LastChangeIsVisible, Visible, DurableIsOnDisk, AbsentSince, OverlayIsCarried
<1> QED
  BY <1>3, <1>4, <1>5, <1>6, <1>7 DEF IInv

(* Every step takes the lock, gives it back, or is of a call that may be   *)
(* inside.                                                                 *)
LEMMA StepKeepsLock ==
  ASSUME IInv, NEW t \in Task, Step(t) \/ Arrive(t) PROVE LockInv'
<1>1. Others(t)
  BY StepIsOfOne DEF IInv
<1>2. pc[t] \in Inside => Holds(t)
  BY DEF IInv, LockInv
<1>3. LockInv
  BY DEF IInv
<1>4. pc \in [Task -> Phases]
  BY DEF IInv, TypeOK
<1> USE <1>4 DEF Goto, Inside
<1>5. CASE FlushStart(t) \/ Change(t) \/ Read(t)
  <2>1. /\ pc'[t] \notin Inside
        /\ UNCHANGED lock \/ L!Write(t) \/ L!Read(t)
    BY <1>5 DEF FlushStart, Change, Read
  <2> QED
    BY <1>1, <1>3, <2>1, LockKept
<1>6. CASE FlushEnter(t) \/ UpdateLoad(t)
  <2>1. \/ UNCHANGED lock /\ Holds(t)
        \/ pc'[t] \notin Inside /\ L!Dispose(t)
    BY <1>2, <1>6 DEF FlushEnter, UpdateLoad, L!Dispose
  <2> QED
    BY <1>1, <1>3, <2>1, LockKept
<1>7. CASE FlushEnd(t) \/ FlushFault(t) \/ WriteEnd(t) \/ WriteFault(t) \/ RemoveEnd(t) \/ ReadEnd(t)
  <2>1. pc'[t] \notin Inside /\ L!Dispose(t)
    BY <1>7 DEF FlushEnd, FlushFault, WriteEnd, WriteFault, RemoveEnd, ReadEnd, L!Dispose
  <2> QED
    BY <1>1, <1>3, <2>1, LockKept
<1>8. CASE WriteEnter(t) \/ UpdateEnter(t) \/ UpdateSet(t) \/ Rename(t) \/ RemoveEnter(t)
           \/ Unlink(t) \/ UnlinkFault(t)
  <2>1. UNCHANGED lock /\ Holds(t)
    BY <1>2, <1>8 DEF WriteEnter, UpdateEnter, UpdateSet, Rename, RemoveEnter, Unlink, UnlinkFault
  <2> QED
    BY <1>1, <1>3, <2>1, LockKept
<1>9. CASE WriteBehind(t) \/ ReadFile(t) \/ List(t) \/ Scan(t) \/ ListEnd(t)
  <2>1. UNCHANGED lock /\ pc'[t] \notin Inside
    BY <1>9 DEF WriteBehind, ReadFile, List, Scan, ListEnd
  <2> QED
    BY <1>1, <1>3, <2>1, LockKept
<1> QED
  BY <1>5, <1>6, <1>7, <1>8, <1>9 DEF Step, Arrive

LEMMA NextIInv == ASSUME IInv, [Next]_vars PROVE IInv'
<1>1. ASSUME NEW t \in Task, Step(t) \/ Arrive(t)
      PROVE  IInv'
  <2>1. Others(t) /\ LockInv' /\ TypeOK'
    BY <1>1, StepIsOfOne, StepKeepsLock, StepTyped DEF IInv
  <2>2. CASE FlushStart(t) \/ FlushEnter(t)
    BY <2>1, <2>2, FlushKeeps
  <2>3. CASE FlushFault(t) \/ WriteFault(t)
    BY <2>1, <2>3, FaultKeeps
  <2>4. CASE Change(t) \/ UpdateLoad(t) \/ (UpdateEnter(t) /\ pending = 0)
    BY <2>1, <2>4, UpdateKeeps
  <2>5. CASE WriteBehind(t) \/ WriteEnter(t) \/ UpdateSet(t) \/ (UpdateEnter(t) /\ pending # 0)
    <3>1. /\ Overlay(t) /\ UNCHANGED <<disk, left>> /\ attempt'[t] = attempt[t]
          /\ pc[t] \in {"new", "writeLock", "updateLock", "loaded"}
          /\ pc'[t] = "flush" \/ (pc'[t] = "writing" /\ (Holds(t) \/ pc[t] = "loaded"))
      BY <2>5 DEF WriteBehind, WriteEnter, UpdateSet, UpdateEnter, Goto, errors, IInv, TypeOK
    <3>2. pc[t] = "loaded" => Holds(t)
      BY DEF IInv, LockInv, Inside
    <3> QED
      BY <2>1, <3>1, <3>2, OverlayKeeps
  <2>6. CASE Rename(t)
    BY <2>1, <2>6, RenameKeeps
  <2>7. CASE RemoveEnter(t)
    BY <2>1, <2>7, RemoveEnterKeeps
  <2>8. CASE Unlink(t) \/ UnlinkFault(t)
    BY <2>1, <2>8, UnlinkKeeps
  <2>9. CASE FlushEnd(t) \/ WriteEnd(t) \/ RemoveEnd(t)
    BY <2>1, <2>9, EndKeeps
  <2>10. CASE Read(t) \/ ReadFile(t) \/ ReadEnd(t)
    BY <2>1, <2>10, ReadKeeps
  <2>11. CASE List(t) \/ Scan(t) \/ ListEnd(t)
    BY <2>1, <2>11, ListKeeps
  <2> QED
    BY <1>1, <2>2, <2>3, <2>4, <2>5, <2>6, <2>7, <2>8, <2>9, <2>10, <2>11 DEF Step, Arrive
<1>2. CASE Crash
  BY <1>2, CrashKeeps
<1>3. CASE UNCHANGED vars
  <2> USE <1>3 DEF vars, lock, errors, past
  <2>1. LockInv'
    BY DEF IInv, LockInv, Holds, L!IInv, L!TypeOK, L!EntryMatchesTasks, L!MutualExclusion,
           L!NoLostWakeup, L!EntryOutlivesItsUsers, L!Idle, L!Readers, L!Writers, L!Holders
  <2>2. TypeOK'
    BY <2>1 DEF IInv, TypeOK, LockInv, L!IInv
  <2>3. NumbersInv' /\ LastChangeIsVisible' /\ DurableIsOnDisk' /\ OverlayIsCarried'
    BY DEF IInv, NumbersInv, LastChangeIsVisible, Visible, DurableIsOnDisk, AbsentSince,
           OverlayIsCarried
  <2>4. CallsInv'
    BY DEF IInv, CallsInv, WriterOK, ReaderOK, Fresh, AbsentSince, UpdateOK, AttemptOK
  <2> QED
    BY <2>1, <2>2, <2>3, <2>4 DEF IInv
<1> QED
  BY <1>1, <1>2, <1>3 DEF Next

-----------------------------------------------------------------------------
(* The invariant of the store: of the lock, the numbers of changes, and    *)
(* what each call may rely on where it is.                                 *)
THEOREM StorageInvariant == Spec => []IInv
<1>1. Init => IInv
  BY InitIInv
<1>2. IInv /\ [Next]_vars => IInv'
  BY NextIInv
<1> QED
  BY <1>1, <1>2, PTL DEF Spec

(* LastChangeIsVisible: overlay over file is always the last change.       *)
THEOREM NothingIsHidden == Spec => []LastChangeIsVisible
<1>1. IInv => LastChangeIsVisible
  BY DEF IInv
<1> QED
  BY <1>1, StorageInvariant, PTL

(* ReadIsFresh: a read answers with the record as it was when it began, or *)
(* later.                                                                  *)
THEOREM ReadsAreFresh == Spec => []ReadIsFresh
<1>1. IInv => ReadIsFresh
  BY DEF IInv, CallsInv, ReaderOK, ReadIsFresh
<1> QED
  BY <1>1, StorageInvariant, PTL

(* DurableIsOnDisk: a crash loses no change whose caller was told that it  *)
(* is on the disk.                                                         *)
THEOREM CrashLosesNothing == Spec => []DurableIsOnDisk
<1>1. IInv => DurableIsOnDisk
  BY DEF IInv
<1> QED
  BY <1>1, StorageInvariant, PTL

(* UpdateOnLatest: update changes the last content, but for a writeBehind  *)
(* beside it.                                                              *)
THEOREM UpdatesAreOnLatest == Spec => []UpdateOnLatest
<1>1. IInv => UpdateOnLatest
  BY DEF IInv, CallsInv, UpdateOK, UpdateOnLatest
<1> QED
  BY <1>1, StorageInvariant, PTL

(* OverlayIsCarried: no content stays in memory only with nobody to put it *)
(* on the disk, unless it was given up.                                    *)
THEOREM NobodyForgetsTheOverlay == Spec => []OverlayIsCarried
<1>1. IInv => OverlayIsCarried
  BY DEF IInv
<1> QED
  BY <1>1, StorageInvariant, PTL

(* NoStaleFlush: the file is only ever replaced by a newer content, and    *)
(* never by one from before a removal.                                     *)
THEOREM FilesAreNotTurnedBack == Spec => NoStaleFlush
<1>1. ASSUME IInv, Next, disk' # disk, disk' # 0
      PROVE  disk' > disk /\ \A g \in gone : g < disk'
  <2>1. PICK t \in Task : Rename(t)
    <3>1. ASSUME NEW t \in Task, Step(t) \/ Arrive(t), ~Rename(t) PROVE FALSE
      <4>1. CASE FlushStart(t) \/ FlushEnter(t) \/ FlushEnd(t) \/ FlushFault(t)
        BY <1>1, <4>1 DEF FlushStart, FlushEnter, FlushEnd, FlushFault
      <4>2. CASE WriteEnter(t) \/ UpdateEnter(t) \/ UpdateLoad(t) \/ UpdateSet(t)
                 \/ WriteEnd(t) \/ WriteFault(t)
        BY <1>1, <4>2 DEF WriteEnter, UpdateEnter, UpdateLoad, UpdateSet, WriteEnd, WriteFault
      <4>3. CASE RemoveEnter(t) \/ Unlink(t) \/ UnlinkFault(t) \/ RemoveEnd(t)
        BY <1>1, <4>3 DEF RemoveEnter, Unlink, UnlinkFault, RemoveEnd
      <4>4. CASE ReadFile(t) \/ ReadEnd(t) \/ Scan(t) \/ ListEnd(t) \/ Arrive(t)
        BY <1>1, <4>4 DEF ReadFile, ReadEnd, Scan, ListEnd, Arrive, WriteBehind, Change, Read, List
      <4> QED
        BY <3>1, <4>1, <4>2, <4>3, <4>4 DEF Step
    <3>2. ~Crash
      BY <1>1 DEF Crash
    <3> QED
      BY <1>1, <3>1, <3>2 DEF Next
  <2>2. disk' = value[t] /\ pc[t] \in {"flushing", "writing"}
    BY <2>1 DEF Rename
  <2>3. WriterOK(t) /\ disk \in Nat /\ value[t] \in Nat
    BY <1>1 DEF IInv, CallsInv, TypeOK
  <2> QED
    BY <1>1, <2>2, <2>3 DEF WriterOK
<1>2. IInv /\ [Next]_vars => (disk' # disk /\ disk' # 0 => disk' > disk /\ \A g \in gone : g < disk')
  BY <1>1 DEF vars
<1> QED
  BY <1>2, StorageInvariant, PTL DEF Spec, NoStaleFlush

-----------------------------------------------------------------------------
(* The register.  Contents and removals are told apart by their numbers.   *)
LEMMA ContentsStart == Init => ContentsInv
BY DEF Init, ContentsInv

\* What a step does to the record: a removal, a rename, a look of a reader, a new
\* content, or nothing.
LEMMA StepSorts ==
  ASSUME TypeOK, NEW t \in Task, Step(t) \/ Arrive(t)
  PROVE  \/ Rename(t) \/ RemoveEnter(t) \/ Unlink(t) \/ UnlinkFault(t)
         \/ Read(t) \/ ReadFile(t) \/ ReadEnd(t)
         \/ Overlay(t) /\ UNCHANGED <<disk, left>>
              /\ pc[t] \notin {"unlinking", "readLock", "read", "answered"}
              /\ pc'[t] \in {"flush", "writing"}
         \/ UNCHANGED <<disk, latest, gone, left>>
              /\ pc[t] \notin {"unlinking", "readLock", "read", "answered"}
              /\ pc'[t] \notin {"unlinking", "readLock", "read", "answered"}
<1>0. pc \in [Task -> Phases]
  BY DEF TypeOK
<1> USE <1>0 DEF Goto, errors, past
<1>1. CASE FlushStart(t) \/ FlushEnter(t) \/ FlushEnd(t) \/ FlushFault(t)
  BY <1>1 DEF FlushStart, FlushEnter, FlushEnd, FlushFault
<1>2. CASE WriteEnter(t) \/ UpdateSet(t) \/ WriteBehind(t)
  BY <1>2 DEF WriteEnter, UpdateSet, WriteBehind
<1>3. CASE UpdateEnter(t)
  BY <1>3 DEF UpdateEnter
<1>4. CASE UpdateLoad(t) \/ WriteEnd(t) \/ WriteFault(t) \/ RemoveEnd(t)
  BY <1>4 DEF UpdateLoad, WriteEnd, WriteFault, RemoveEnd
<1>5. CASE Scan(t) \/ ListEnd(t) \/ List(t) \/ Change(t)
  BY <1>5 DEF Scan, ListEnd, List, Change
<1> QED
  BY <1>1, <1>2, <1>3, <1>4, <1>5 DEF Step, Arrive

\* No step moves a reader's start, and none gives the overlay a removal's number.
LEMMA ContentsStep == ASSUME IInv, ContentsInv, [Next]_vars PROVE ContentsInv'
<1>0. /\ disk \in Nat /\ latest \in Nat /\ gone \subseteq Nat /\ disk <= latest
      /\ \A g \in gone : g <= latest
      /\ pc \in [Task -> Phases] /\ value \in [Task -> Nat] /\ since \in [Task -> Nat]
  BY DEF IInv, TypeOK, NumbersInv
<1>1. ASSUME NEW t \in Task, Step(t) \/ Arrive(t)
      PROVE  ContentsInv'
  <2>1. Others(t) /\ TypeOK'
    BY <1>1, StepIsOfOne, StepKeepsLock, StepTyped DEF IInv
  <2>2. CASE Rename(t)
    <3>1. /\ pc[t] \in {"flushing", "writing"} /\ pc'[t] \in {"flushed", "written"}
          /\ disk' = value[t] /\ UNCHANGED <<latest, gone>>
      BY <1>0, <2>2 DEF Rename, Goto, past
    <3>2. \A g \in gone : g < value[t]
      BY <3>1 DEF IInv, CallsInv, WriterOK
    <3>3. \A u \in Task \ {t} : pc[u] # "unlinking"
      BY <3>1, Alone DEF IInv, LockInv, Holds, Inside
    <3> QED
      BY <1>0, <2>1, <3>1, <3>2, <3>3 DEF ContentsInv, Others
  <2>3. CASE RemoveEnter(t)
    <3>1. /\ pc'[t] = "unlinking" /\ value'[t] = latest + 1 /\ latest' = latest + 1
          /\ gone' = gone \cup {latest + 1} /\ disk' = disk
      BY <1>0, <2>3 DEF RemoveEnter, Goto
    <3> QED
      BY <1>0, <2>1, <3>1 DEF ContentsInv, Others
  <2>4. CASE Unlink(t) \/ UnlinkFault(t)
    <3>1. /\ pc'[t] = "unlinked" /\ disk' \in {0, disk} /\ UNCHANGED <<latest, gone>>
      BY <1>0, <2>4 DEF Unlink, UnlinkFault, Goto, past
    <3> QED
      BY <1>0, <2>1, <3>1 DEF ContentsInv, Others
  <2>5. CASE Read(t) \/ ReadFile(t) \/ ReadEnd(t)
    <3>1. /\ UNCHANGED <<disk, latest, gone>> /\ pc'[t] \in {"readLock", "read", "answered"}
          /\ pc'[t] = "readLock" => since'[t] = latest
          /\ pc'[t] = "read" => pc[t] = "readLock" /\ since'[t] = since[t] /\ value'[t] = disk
      BY <1>0, <2>5 DEF Read, ReadFile, ReadEnd, Goto, past
    <3> QED
      BY <1>0, <2>1, <3>1 DEF ContentsInv, Others
  <2>6. CASE Overlay(t) /\ disk' = disk /\ pc'[t] \in {"flush", "writing"}
    <3>1. latest' = latest + 1 /\ gone' = gone
      BY <2>6 DEF Overlay
    <3> QED
      BY <1>0, <2>1, <2>6, <3>1 DEF ContentsInv, Others
  <2>7. CASE UNCHANGED <<disk, latest, gone>> /\ pc'[t] \notin {"unlinking", "readLock", "read"}
    BY <1>0, <2>1, <2>7 DEF ContentsInv, Others
  <2>8. \/ Rename(t) \/ RemoveEnter(t) \/ Unlink(t) \/ UnlinkFault(t)
        \/ Read(t) \/ ReadFile(t) \/ ReadEnd(t)
        \/ Overlay(t) /\ disk' = disk /\ pc'[t] \in {"flush", "writing"}
        \/ UNCHANGED <<disk, latest, gone>> /\ pc'[t] \notin {"unlinking", "readLock", "read"}
    BY <1>1, StepSorts DEF IInv
  <2> QED
    BY <2>2, <2>3, <2>4, <2>5, <2>6, <2>7, <2>8
<1>2. CASE Crash
  <2>1. /\ disk' = disk /\ gone' = (IF disk = 0 THEN gone \cup {latest} ELSE {g \in gone : g < disk})
        /\ \A t \in Task : pc'[t] \in {"new", "done"}
    BY <1>0, <1>2 DEF Crash
  <2> QED
    BY <1>0, <2>1 DEF ContentsInv
<1>3. CASE UNCHANGED vars
  BY <1>3 DEF vars, past, ContentsInv
<1> QED
  BY <1>1, <1>2, <1>3 DEF Next

\* A call that is no reader leaves readers and answers alone, unless the record changes.
LEMMA ReadersStay ==
  ASSUME TypeOK, TypeOK', NEW t \in Task, Others(t), UNCHANGED <<latest, gone>>,
         pc[t] \notin {"readLock", "read", "answered"},
         pc'[t] \notin {"readLock", "read", "answered"}
  PROVE  UNCHANGED <<Now, Seen, Answers>>
<1>1. \A u \in Task :
        /\ pc'[u] \in {"readLock", "read"} <=> pc[u] \in {"readLock", "read"}
        /\ pc[u] \in {"readLock", "read"} => since'[u] = since[u]
        /\ pc'[u] = "answered" <=> pc[u] = "answered"
        /\ pc[u] = "answered" => value'[u] = value[u]
  BY DEF Others
<1>2. \A from : CurrentSince(from)' = CurrentSince(from)
  BY DEF CurrentSince, AbsentSince
<1>3. Seen' = Seen
  BY <1>1, <1>2 DEF Seen
<1>4. Answers' = Answers
  BY <1>1 DEF Answers
<1> QED
  BY <1>3, <1>4 DEF Now

\* Without a change of the record only the calls that erase the file matter.
LEMMA RecordStays ==
  ASSUME TypeOK, TypeOK', NEW t \in Task, Others(t), UNCHANGED <<disk, latest, gone>>,
         pc[t] # "unlinking", pc'[t] # "unlinking"
  PROVE  UNCHANGED <<Now, Unsaved, Removing>>
BY DEF Now, Unsaved, Removing, Others

LEMMA QuietImplements ==
  ASSUME TypeOK, TypeOK', NEW t \in Task, Others(t), UNCHANGED <<disk, latest, gone, left>>,
         pc[t] \notin {"unlinking", "readLock", "read", "answered"},
         pc'[t] \notin {"unlinking", "readLock", "read", "answered"}
  PROVE  UNCHANGED Reg!vars
BY ReadersStay, RecordStays DEF Reg!vars

\* What becomes current is added to what the readers see.
LEMMA ReadersSee ==
  ASSUME IInv, ContentsInv, TypeOK', NEW t \in Task, Others(t), latest' = latest + 1,
         gone' \in {gone, gone \cup {latest + 1}},
         pc[t] \notin {"readLock", "read", "answered"},
         pc'[t] \notin {"readLock", "read", "answered"}
  PROVE  Seen' = Reg!Show(Now') /\ Answers' = Answers
<1>0. /\ latest \in Nat /\ gone \subseteq Nat /\ \A g \in gone : g <= latest
      /\ \A u \in Task : since[u] \in Nat
  BY DEF IInv, TypeOK, NumbersInv
<1>1. \A u \in Task :
        /\ pc'[u] \in {"readLock", "read"} <=> pc[u] \in {"readLock", "read"}
        /\ pc[u] \in {"readLock", "read"} => since'[u] = since[u] /\ since[u] <= latest
        /\ pc'[u] = "answered" <=> pc[u] = "answered"
        /\ pc[u] = "answered" => value'[u] = value[u]
  BY DEF Others, ContentsInv
<1>2. ASSUME NEW from \in Nat, from <= latest
      PROVE  CurrentSince(from)' = CurrentSince(from) \cup {Now'} /\ CurrentSince(from) # {}
  <2>1. CASE gone' = gone
    <3>1. latest + 1 \notin gone /\ Now' = latest + 1
      BY <1>0, <2>1 DEF Now
    <3> QED
      BY <1>0, <1>2, <2>1, <3>1 DEF CurrentSince, AbsentSince
  <2>2. CASE gone' = gone \cup {latest + 1}
    <3>1. Now' = 0 /\ AbsentSince(from)'
      BY <1>0, <1>2, <2>2 DEF Now, AbsentSince
    <3>2. {c \in from..latest + 1 : c \notin gone'} = {c \in from..latest : c \notin gone}
      BY <1>0, <1>2, <2>2
    <3> QED
      BY <1>0, <1>2, <3>1, <3>2 DEF CurrentSince, AbsentSince
  <2>3. CurrentSince(from) # {}
    BY <1>0, <1>2 DEF CurrentSince, AbsentSince
  <2> QED
    BY <2>1, <2>2, <2>3
<1>3. Seen' = [u \in Task |-> IF pc[u] \in {"readLock", "read"}
                              THEN CurrentSince(since[u]) \cup {Now'} ELSE {}]
  BY <1>0, <1>1, <1>2 DEF Seen
<1>4. Seen' = Reg!Show(Now')
  BY <1>0, <1>1, <1>2, <1>3 DEF Seen, Reg!Show
<1> QED
  BY <1>1, <1>4 DEF Answers

LEMMA OverlayImplements ==
  ASSUME IInv, ContentsInv, TypeOK', NEW t \in Task, Others(t), Overlay(t),
         UNCHANGED <<disk, left>>,
         pc[t] \notin {"unlinking", "readLock", "read", "answered"},
         pc'[t] \in {"flush", "writing"}
  PROVE  Reg!Change
<1>0. /\ latest \in Nat /\ gone \subseteq Nat /\ disk \in Nat /\ disk <= latest
      /\ \A g \in gone : g <= latest
  BY DEF IInv, TypeOK, NumbersInv
<1>1. latest' = latest + 1 /\ gone' = gone
  BY DEF Overlay
<1>2. Now' = latest + 1
  BY <1>0, <1>1 DEF Now
<1>3. Unsaved' = Unsaved \cup {latest + 1}
  BY <1>0, <1>1 DEF Unsaved
<1>4. \A c \in Unsaved : latest + 1 > c
  BY <1>0 DEF Unsaved
<1>5. Seen' = Reg!Show(Now') /\ Answers' = Answers
  BY <1>1, ReadersSee
<1>6. Removing' = Removing
  BY DEF Removing, Others
<1> QED
  BY <1>0, <1>2, <1>3, <1>4, <1>5, <1>6 DEF Reg!Change

LEMMA RemoveEnterImplements ==
  ASSUME IInv, ContentsInv, TypeOK', NEW t \in Task, Others(t), RemoveEnter(t)
  PROVE  Reg!Remove
<1>0. /\ latest \in Nat /\ gone \subseteq Nat /\ \A g \in gone : g <= latest
  BY DEF IInv, TypeOK, NumbersInv
<1>1. /\ pc[t] = "removeLock" /\ pc'[t] = "unlinking" /\ Holds(t)
      /\ latest' = latest + 1 /\ gone' = gone \cup {latest + 1} /\ UNCHANGED <<disk, left>>
  BY DEF RemoveEnter, Goto, errors, IInv, TypeOK
<1>2. ~Removing
  BY <1>1, Alone DEF IInv, LockInv, Holds, Inside, Removing
<1>3. Now' = 0 /\ Unsaved' = {} /\ Removing'
  BY <1>0, <1>1 DEF Now, Unsaved, Removing
<1>4. Seen' = Reg!Show(0) /\ Answers' = Answers
  BY <1>1, <1>3, ReadersSee
<1> QED
  BY <1>1, <1>2, <1>3, <1>4 DEF Reg!Remove, Removing

LEMMA UnlinkImplements ==
  ASSUME IInv, ContentsInv, TypeOK', NEW t \in Task, Others(t), Unlink(t) \/ UnlinkFault(t)
  PROVE  Reg!Erase \/ Reg!EraseFails
<1>0. disk \in Nat /\ latest \in Nat /\ gone \subseteq Nat /\ value[t] \in Nat
  BY DEF IInv, TypeOK
<1>1. /\ pc[t] = "unlinking" /\ pc'[t] = "unlinked" /\ UNCHANGED <<latest, gone>>
      /\ \/ disk' = 0 /\ left' = left
         \/ disk' = disk /\ left' = left \cup {disk}
  BY DEF Unlink, UnlinkFault, Goto, errors, past, IInv, TypeOK
<1>2. Removing /\ ~Removing'
  <2>1. \A u \in Task \ {t} : pc[u] # "unlinking"
    BY <1>1, Alone DEF IInv, LockInv, Holds, Inside
  <2> QED
    BY <1>1, <2>1 DEF Removing, Others
<1>3. Unsaved' = Unsaved
  <2>1. value[t] \in gone /\ disk < value[t]
    BY <1>1 DEF IInv, CallsInv, WriterOK, ContentsInv
  <2> QED
    BY <1>0, <1>1, <2>1 DEF Unsaved
<1>4. UNCHANGED <<Now, Seen, Answers>>
  BY <1>1, ReadersStay DEF IInv
<1> QED
  BY <1>1, <1>2, <1>3, <1>4 DEF Reg!Erase, Reg!EraseFails, Removing

\* A flush or a write renames a content that is newer than the file and every
\* removal, with no removal on its way.
LEMMA RenameImplements ==
  ASSUME IInv, TypeOK', NEW t \in Task, Others(t), Rename(t)
  PROVE  Reg!Save \/ UNCHANGED Reg!vars
<1>0. /\ disk \in Nat /\ latest \in Nat /\ gone \subseteq Nat /\ value[t] \in Nat /\ pending \in Nat
  BY DEF IInv, TypeOK
<1>1. /\ pc[t] \in {"flushing", "writing"} /\ pc'[t] \in {"flushed", "written"}
      /\ disk' = value[t] /\ UNCHANGED <<latest, gone, left>>
  BY DEF Rename, Goto, errors, past, IInv, TypeOK
<1>2. /\ 0 < value[t] /\ value[t] <= latest /\ disk <= value[t]
      /\ \A g \in gone : g < value[t]
  BY <1>0, <1>1 DEF IInv, CallsInv, WriterOK, NumbersInv
<1>3. ~Removing /\ ~Removing'
  <2>1. \A u \in Task \ {t} : pc[u] # "unlinking"
    BY <1>1, Alone DEF IInv, LockInv, Holds, Inside
  <2> QED
    BY <1>1, <2>1 DEF Removing, Others
<1>4. UNCHANGED <<Now, Seen, Answers>>
  BY <1>1, ReadersStay DEF IInv
<1>5. CASE disk = value[t]
  BY <1>1, <1>3, <1>4, <1>5 DEF Reg!vars, Unsaved, Removing
<1>6. CASE disk # value[t]
  <2>1. value[t] \in Unsaved
    BY <1>0, <1>2, <1>6 DEF Unsaved
  <2>2. Unsaved' = {d \in Unsaved : d > value[t]}
    BY <1>0, <1>1, <1>2 DEF Unsaved
  <2> QED
    BY <1>1, <1>3, <1>4, <2>1, <2>2 DEF Reg!Save, Removing
<1> QED
  BY <1>5, <1>6

LEMMA ReadImplements ==
  ASSUME IInv, ContentsInv, TypeOK', NEW t \in Task, Others(t),
         Read(t) \/ ReadFile(t) \/ ReadEnd(t)
  PROVE  Reg!Begin(t) \/ Reg!AnswerAtOnce(t) \/ Reg!Answer(t) \/ UNCHANGED Reg!vars
<1>0. /\ latest \in Nat /\ gone \subseteq Nat /\ pending \in Nat
      /\ \A g \in gone : g <= latest
      /\ pc \in [Task -> Phases] /\ value \in [Task -> Nat] /\ since \in [Task -> Nat]
  BY DEF IInv, TypeOK, NumbersInv
<1>1. /\ UNCHANGED <<disk, latest, gone, left>>
      /\ pc[t] \in {"new", "readLock", "read"} /\ pc'[t] \in {"readLock", "read", "answered"}
  BY <1>0 DEF Read, ReadFile, ReadEnd, Goto, errors, past
<1>2. UNCHANGED <<Now, Unsaved, Removing>>
  BY <1>1, RecordStays DEF IInv
<1>3. \A from : CurrentSince(from)' = CurrentSince(from)
  BY <1>1 DEF CurrentSince, AbsentSince
<1>4. \A u \in Task \ {t} : pc'[u] = pc[u] /\ value'[u] = value[u] /\ since'[u] = since[u]
  BY DEF Others
<1>5. /\ Seen' = [Seen EXCEPT ![t] = IF pc'[t] \in {"readLock", "read"}
                                     THEN CurrentSince(since'[t]) ELSE {}]
      /\ Answers' = [Answers EXCEPT ![t] = IF pc'[t] = "answered" THEN {value'[t]} ELSE {}]
  BY <1>3, <1>4 DEF Seen, Answers
<1>6. CASE Read(t) /\ pending # 0
  <2>1. pc[t] = "new" /\ pc'[t] = "answered" /\ value'[t] = pending
    BY <1>0, <1>6 DEF Read, Goto
  <2>2. pending = Now
    BY <1>6 DEF IInv, NumbersInv, Now
  <2>3. Seen' = Seen /\ Answers' = [Answers EXCEPT ![t] = {Now}]
    BY <1>5, <2>1, <2>2 DEF Seen
  <2> QED
    BY <1>1, <1>2, <2>3 DEF Reg!AnswerAtOnce
<1>7. CASE Read(t) /\ pending = 0
  <2>1. pc[t] = "new" /\ pc'[t] = "readLock" /\ since'[t] = latest
    BY <1>0, <1>7 DEF Read, Goto
  <2>2. CurrentSince(latest) = {Now}
    BY <1>0 DEF CurrentSince, AbsentSince, Now
  <2>3. Seen' = [Seen EXCEPT ![t] = {Now}] /\ Answers' = Answers /\ Seen[t] = {}
    BY <1>5, <2>1, <2>2 DEF Answers, Seen
  <2> QED
    BY <1>1, <1>2, <2>3 DEF Reg!Begin
<1>8. CASE ReadFile(t)
  <2>1. pc[t] = "readLock" /\ pc'[t] = "read" /\ since'[t] = since[t]
    BY <1>0, <1>8 DEF ReadFile, Goto, past
  <2>2. Seen' = Seen /\ Answers' = Answers
    BY <1>5, <2>1 DEF Answers, Seen
  <2> QED
    BY <1>1, <1>2, <2>2 DEF Reg!vars
<1>9. CASE ReadEnd(t)
  <2>1. pc[t] = "read" /\ pc'[t] = "answered" /\ value'[t] = value[t]
    BY <1>0, <1>9 DEF ReadEnd, Goto
  <2>2. /\ value[t] \in CurrentSince(since[t]) \cup left
        /\ CurrentSince(since[t]) # {}
    <3>1. Fresh(t) /\ since[t] <= latest
      BY <2>1 DEF IInv, CallsInv, ReaderOK, ContentsInv
    <3>2. value[t] # 0 => value[t] <= latest /\ value[t] \notin gone
      BY <2>1 DEF ContentsInv
    <3>3. value[t] \in Nat /\ since[t] \in Nat
      BY <1>0
    <3> QED
      BY <1>0, <3>1, <3>2, <3>3 DEF Fresh, CurrentSince, AbsentSince
  <2>3. /\ Seen' = [Seen EXCEPT ![t] = {}] /\ Answers' = [Answers EXCEPT ![t] = {value[t]}]
        /\ Seen[t] = CurrentSince(since[t])
    BY <1>5, <2>1 DEF Seen
  <2> QED
    BY <1>1, <1>2, <2>2, <2>3 DEF Reg!Answer
<1> QED
  BY <1>6, <1>7, <1>8, <1>9

LEMMA CrashImplements ==
  ASSUME IInv, ContentsInv, Crash PROVE Reg!Crash
<1>0. disk \in Nat /\ latest \in Nat /\ gone \subseteq Nat /\ disk <= latest
  BY DEF IInv, TypeOK, NumbersInv
<1>1. /\ UNCHANGED <<disk, left>>
      /\ gone' = (IF disk = 0 THEN gone \cup {latest} ELSE {g \in gone : g < disk})
      /\ latest' = (IF disk = 0 THEN latest ELSE disk)
      /\ \A t \in Task : pc'[t] \in {"new", "done"}
  BY DEF Crash, errors
<1>2. Now' = disk /\ Unsaved' = {}
  BY <1>0, <1>1 DEF Now, Unsaved
<1>3. ~Removing' /\ Seen' = Reg!Nobody /\ Answers' = Reg!Nobody
  BY <1>1 DEF Removing, Seen, Answers, Reg!Nobody
<1> QED
  BY <1>1, <1>2, <1>3 DEF Reg!Crash, Removing

LEMMA StepImplements ==
  ASSUME IInv, ContentsInv, [Next]_vars PROVE [Reg!Next]_Reg!vars
<1>1. ASSUME NEW t \in Task, Step(t) \/ Arrive(t)
      PROVE  Reg!Next \/ UNCHANGED Reg!vars
  <2>1. Others(t) /\ TypeOK /\ TypeOK'
    BY <1>1, StepIsOfOne, StepKeepsLock, StepTyped DEF IInv
  <2>2. CASE Rename(t)
    BY <2>1, <2>2, RenameImplements DEF Reg!Next
  <2>3. CASE RemoveEnter(t)
    BY <2>1, <2>3, RemoveEnterImplements DEF Reg!Next
  <2>4. CASE Unlink(t) \/ UnlinkFault(t)
    BY <2>1, <2>4, UnlinkImplements DEF Reg!Next
  <2>5. CASE Read(t) \/ ReadFile(t) \/ ReadEnd(t)
    BY <2>1, <2>5, ReadImplements DEF Reg!Next
  <2>6. CASE /\ Overlay(t) /\ UNCHANGED <<disk, left>>
             /\ pc[t] \notin {"unlinking", "readLock", "read", "answered"}
             /\ pc'[t] \in {"flush", "writing"}
    BY <2>1, <2>6, OverlayImplements DEF Reg!Next
  <2>7. CASE /\ UNCHANGED <<disk, latest, gone, left>>
             /\ pc[t] \notin {"unlinking", "readLock", "read", "answered"}
             /\ pc'[t] \notin {"unlinking", "readLock", "read", "answered"}
    BY <2>1, <2>7, QuietImplements
  <2> QED
    BY <1>1, <2>1, <2>2, <2>3, <2>4, <2>5, <2>6, <2>7, StepSorts
<1>2. CASE Crash
  BY <1>2, CrashImplements DEF Reg!Next
<1>3. CASE UNCHANGED vars
  <2>1. UNCHANGED <<disk, latest, gone, left, pc, value, since>>
    BY <1>3 DEF vars, past, errors
  <2>2. \A from : CurrentSince(from)' = CurrentSince(from)
    BY <2>1 DEF CurrentSince, AbsentSince
  <2> QED
    BY <2>1, <2>2 DEF Reg!vars, Now, Unsaved, Removing, Seen, Answers
<1> QED
  BY <1>1, <1>2, <1>3 DEF Next

(* ImplementsRegister: callers of one record see a register that changes   *)
(* at once and is saved in order, reads included, whatever calls, disk     *)
(* errors and crashes interleave.                                          *)
THEOREM StorageImplementsRegister == Spec => ImplementsRegister
<1>1. Init => Reg!Init
  <2> SUFFICES ASSUME Init PROVE Reg!Init
    OBVIOUS
  <2>1. /\ disk \in {0, 1} /\ latest = disk /\ gone = {0} /\ left = {}
        /\ \A t \in Task : pc[t] = "new"
    BY DEF Init
  <2>2. Now = disk /\ Unsaved = {} /\ ~Removing
    BY <2>1 DEF Now, Unsaved, Removing
  <2>3. Seen = Reg!Nobody /\ Answers = Reg!Nobody
    BY <2>1 DEF Seen, Answers, Reg!Nobody
  <2> QED
    BY <2>1, <2>2, <2>3 DEF Reg!Init, Removing
<1>2. Init => ContentsInv
  BY ContentsStart
<1>3. IInv /\ ContentsInv /\ [Next]_vars => ContentsInv'
  BY ContentsStep
<1>4. IInv /\ ContentsInv /\ [Next]_vars => [Reg!Next]_Reg!vars
  BY StepImplements
<1> QED
  BY <1>1, <1>2, <1>3, <1>4, StorageInvariant, PTL DEF Spec, ImplementsRegister, Reg!Spec

=============================================================================
