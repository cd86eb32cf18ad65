---------------------------- MODULE RwLockProofs ----------------------------
(***************************************************************************)
(* Proofs about RwLock, for any finite set of tasks: the invariant IInv is *)
(* inductive, and with it mutual exclusion, the absence of lost wake-ups   *)
(* and the lifetime of the table entry.                                    *)
(***************************************************************************)
EXTENDS RwLock, FiniteSetTheorems, SequenceTheorems, TLAPS

(* The tasks in a section form a finite set, so the counter is a number.   *)
LEMMA ReadersFinite == IsFiniteSet(Readers) /\ Cardinality(Readers) \in Nat
<1>1. Readers \subseteq Task
  BY DEF Readers
<1>2. IsFiniteSet(Readers)
  BY <1>1, TaskAssumption, FS_Subset
<1> QED
  BY <1>2, FS_CardinalityType

LEMMA ReadersFiniteNext == IsFiniteSet(Readers') /\ Cardinality(Readers') \in Nat
<1>1. Readers' \subseteq Task
  BY DEF Readers
<1>2. IsFiniteSet(Readers')
  BY <1>1, TaskAssumption, FS_Subset
<1> QED
  BY <1>2, FS_CardinalityType

(* With a right invariant, get(key) always yields the entry's own fields.  *)
LEMMA CurrentIsEntry ==
  ASSUME IInv
  PROVE  /\ CurrentReaders = readers
         /\ CurrentWriter = writer
         /\ CurrentWaitingReaders = waitingReaders
         /\ CurrentWaitingWriters = waitingWriters
<1>1. CASE present
  BY <1>1 DEF IInv, TypeOK, CurrentReaders, CurrentWriter, CurrentWaitingReaders,
              CurrentWaitingWriters
<1>2. CASE ~present
  <2>1. \A t \in Task : section[t] = "outside"
    BY <1>2 DEF IInv, EntryOutlivesItsUsers, Idle
  <2>2. Readers = {} /\ Writers = {} /\ waitingReaders = {}
    BY <2>1 DEF IInv, EntryMatchesTasks, Readers, Writers
  <2>3. readers = 0
    BY <2>2, FS_EmptySet DEF IInv, EntryMatchesTasks
  <2>4. writer = FALSE
    BY <2>2 DEF IInv, EntryMatchesTasks
  <2>5. waitingWriters = <<>>
    <3> SUFFICES ASSUME waitingWriters # <<>> PROVE FALSE
      OBVIOUS
    <3>1. Holders = {}
      BY <2>2 DEF Holders
    <3> QED
      BY <3>1 DEF IInv, NoLostWakeup
  <2> QED
    BY <1>2, <2>2, <2>3, <2>4, <2>5
       DEF CurrentReaders, CurrentWriter, CurrentWaitingReaders, CurrentWaitingWriters
<1> QED
  BY <1>1, <1>2 DEF IInv, TypeOK

(* The counter is positive exactly when somebody reads.                    *)
LEMMA CounterZero == ASSUME IInv PROVE readers = 0 <=> Readers = {}
  BY ReadersFinite, FS_EmptySet DEF IInv, EntryMatchesTasks

LEMMA InitIInv == Init => IInv
<1> SUFFICES ASSUME Init PROVE IInv
  OBVIOUS
<1> USE DEF Init
<1>1. Readers = {} /\ Writers = {}
  BY DEF Readers, Writers
<1>2. TypeOK
  <2>1. present \in BOOLEAN /\ writer \in BOOLEAN
    BY Zenon
  <2>2. /\ readers \in Nat
        /\ waitingReaders \in SUBSET Task
        /\ waitingWriters \in Seq(Task)
        /\ section \in [Task -> Section]
    BY DEF Section
  <2> QED
    BY <2>1, <2>2 DEF TypeOK
<1>3. EntryMatchesTasks
  <2>1. readers = Cardinality(Readers)
    BY <1>1, FS_EmptySet
  <2>2. writer = (Writers # {})
    BY <1>1, Zenon
  <2>3. waitingReaders = {t \in Task : section[t] = "awaitRead"}
    OBVIOUS
  <2>4. Len(waitingWriters) = 0
    OBVIOUS
  <2>5. \A t \in Task : section[t] # "awaitWrite"
    OBVIOUS
  <2> QED
    BY <2>1, <2>2, <2>3, <2>4, <2>5 DEF EntryMatchesTasks
<1>4. MutualExclusion /\ NoLostWakeup /\ EntryOutlivesItsUsers
  BY <1>1 DEF MutualExclusion, NoLostWakeup, EntryOutlivesItsUsers, Holders, Idle
<1> QED
  BY <1>2, <1>3, <1>4 DEF IInv

(***************************************************************************)
(* Lock.read: the caller joins the readers, or queues behind a writer.     *)
(***************************************************************************)
LEMMA ReadKeepsIInv ==
  ASSUME IInv, NEW t \in Task, Read(t)
  PROVE  IInv'
<1>1. /\ section[t] = "outside"
      /\ present' = TRUE
      /\ writer' = writer
      /\ waitingWriters' = waitingWriters
      /\ \/ /\ ~writer /\ waitingWriters = <<>>
            /\ readers' = readers + 1
            /\ waitingReaders' = waitingReaders
            /\ section' = [section EXCEPT ![t] = "reading"]
         \/ /\ writer \/ waitingWriters # <<>>
            /\ readers' = readers
            /\ waitingReaders' = waitingReaders \cup {t}
            /\ section' = [section EXCEPT ![t] = "awaitRead"]
  <2>1. CurrentReaders = readers /\ CurrentWaitingReaders = waitingReaders
        /\ CurrentWaitingWriters = waitingWriters
    BY CurrentIsEntry
  <2>2. CurrentWriter = writer
    BY CurrentIsEntry
  <2>3. MayRead <=> ~writer /\ waitingWriters = <<>>
    BY <2>1, <2>2 DEF MayRead
  <2> QED
    BY <2>1, <2>2, <2>3 DEF Read
<1>2. TypeOK /\ EntryMatchesTasks /\ MutualExclusion /\ NoLostWakeup
  BY DEF IInv
<1>3. Writers' = Writers
  BY <1>1, <1>2 DEF Writers, TypeOK
<1>4. writer' = (Writers' # {})
  BY <1>1, <1>2, <1>3, Zenon DEF EntryMatchesTasks
<1>5. present' \in BOOLEAN /\ writer' \in BOOLEAN
  BY <1>1, <1>2, Zenon DEF TypeOK
<1>6. EntryOutlivesItsUsers'
  BY <1>1, Zenon DEF EntryOutlivesItsUsers
<1>7. CASE /\ ~writer /\ waitingWriters = <<>>
           /\ readers' = readers + 1
           /\ waitingReaders' = waitingReaders
           /\ section' = [section EXCEPT ![t] = "reading"]
  <2>1. Readers' = Readers \cup {t}
    BY <1>2, <1>7 DEF Readers, TypeOK
  <2>2. t \notin Readers
    BY <1>1 DEF Readers
  <2>3. readers' = Cardinality(Readers')
    BY <1>2, <1>7, <2>1, <2>2, ReadersFinite, FS_AddElement DEF EntryMatchesTasks
  <2>4. Writers = {}
    BY <1>2, <1>7, Zenon DEF EntryMatchesTasks
  <2>5. waitingReaders = {}
    BY <1>2, <1>7, <2>4 DEF NoLostWakeup
  <2>6. waitingReaders' = {u \in Task : section'[u] = "awaitRead"}
    BY <1>1, <1>2, <1>7 DEF EntryMatchesTasks, TypeOK
  <2>7. EntryMatchesTasks'
    <3>1. \A u \in Task : section'[u] = "awaitWrite" <=> section[u] = "awaitWrite"
      BY <1>1, <1>2, <1>7 DEF TypeOK
    <3> QED
      BY <1>1, <1>2, <1>4, <2>3, <2>6, <3>1 DEF EntryMatchesTasks
  <2>8. MutualExclusion'
    BY <1>3, <2>4 DEF MutualExclusion
  <2>9. NoLostWakeup'
    BY <1>1, <1>7, <2>5 DEF NoLostWakeup
  <2>10. TypeOK'
    <3>1. /\ readers' \in Nat
          /\ waitingReaders' \in SUBSET Task
          /\ waitingWriters' \in Seq(Task)
          /\ section' \in [Task -> Section]
      BY <1>1, <1>2, <1>7 DEF TypeOK, Section
    <3> QED
      BY <1>5, <3>1 DEF TypeOK
  <2> QED
    BY <1>6, <2>7, <2>8, <2>9, <2>10 DEF IInv
<1>8. CASE /\ writer \/ waitingWriters # <<>>
           /\ readers' = readers
           /\ waitingReaders' = waitingReaders \cup {t}
           /\ section' = [section EXCEPT ![t] = "awaitRead"]
  <2>1. Readers' = Readers
    BY <1>1, <1>2, <1>8 DEF Readers, TypeOK
  <2>2. waitingReaders' = {u \in Task : section'[u] = "awaitRead"}
    BY <1>1, <1>2, <1>8 DEF EntryMatchesTasks, TypeOK
  <2>3. EntryMatchesTasks'
    <3>1. \A u \in Task : section'[u] = "awaitWrite" <=> section[u] = "awaitWrite"
      BY <1>1, <1>2, <1>8 DEF TypeOK
    <3> QED
      BY <1>1, <1>2, <1>4, <1>8, <2>1, <2>2, <3>1 DEF EntryMatchesTasks
  <2>4. MutualExclusion'
    BY <1>2, <1>3, <2>1 DEF MutualExclusion, Holders
  <2>5. Writers # {} \/ waitingWriters # <<>>
    BY <1>2, <1>8, Zenon DEF EntryMatchesTasks
  <2>6. NoLostWakeup'
    BY <1>1, <1>2, <1>3, <2>1, <2>5 DEF NoLostWakeup, Holders
  <2>7. TypeOK'
    <3>1. /\ readers' \in Nat
          /\ waitingReaders' \in SUBSET Task
          /\ waitingWriters' \in Seq(Task)
          /\ section' \in [Task -> Section]
      BY <1>1, <1>2, <1>8 DEF TypeOK, Section
    <3> QED
      BY <1>5, <3>1 DEF TypeOK
  <2> QED
    BY <1>6, <2>3, <2>4, <2>6, <2>7 DEF IInv
<1> QED
  BY <1>1, <1>7, <1>8

(***************************************************************************)
(* Lock.write: the caller takes the free lock, or joins the writers' queue.*)
(***************************************************************************)
LEMMA WriteKeepsIInv ==
  ASSUME IInv, NEW t \in Task, Write(t)
  PROVE  IInv'
<1>1. /\ section[t] = "outside"
      /\ present' = TRUE
      /\ readers' = readers
      /\ waitingReaders' = waitingReaders
      /\ \/ /\ ~writer /\ readers = 0
            /\ writer' = TRUE
            /\ waitingWriters' = waitingWriters
            /\ section' = [section EXCEPT ![t] = "writing"]
         \/ /\ writer \/ readers # 0
            /\ writer' = writer
            /\ waitingWriters' = Append(waitingWriters, t)
            /\ section' = [section EXCEPT ![t] = "awaitWrite"]
  <2>1. CurrentReaders = readers /\ CurrentWaitingReaders = waitingReaders
        /\ CurrentWaitingWriters = waitingWriters
    BY CurrentIsEntry
  <2>2. CurrentWriter = writer
    BY CurrentIsEntry
  <2>3. MayWrite <=> ~writer /\ readers = 0
    BY <2>1, <2>2 DEF MayWrite
  <2> QED
    BY <2>1, <2>2, <2>3 DEF Write
<1>2. TypeOK /\ EntryMatchesTasks /\ MutualExclusion /\ NoLostWakeup
  BY DEF IInv
<1>3. Readers' = Readers
  BY <1>1, <1>2 DEF Readers, TypeOK
<1>4. present' \in BOOLEAN /\ writer' \in BOOLEAN
  BY <1>1, <1>2, Zenon DEF TypeOK
<1>5. EntryOutlivesItsUsers'
  BY <1>1, Zenon DEF EntryOutlivesItsUsers
<1>6. waitingReaders' = {u \in Task : section'[u] = "awaitRead"}
  BY <1>1, <1>2 DEF EntryMatchesTasks, TypeOK
<1>7. CASE /\ ~writer /\ readers = 0
           /\ writer' = TRUE
           /\ waitingWriters' = waitingWriters
           /\ section' = [section EXCEPT ![t] = "writing"]
  <2>1. Readers = {}
    BY <1>7, CounterZero
  <2>2. Writers = {}
    BY <1>2, <1>7, Zenon DEF EntryMatchesTasks
  <2>3. Writers' = {t}
    BY <1>2, <1>7, <2>2 DEF Writers, TypeOK
  <2>4. waitingReaders = {} /\ waitingWriters = <<>>
    BY <1>2, <2>1, <2>2 DEF NoLostWakeup, Holders
  <2>5. writer' = (Writers' # {})
    <3>1. Writers' # {}
      BY <2>3
    <3> QED
      BY <1>7, <3>1, Zenon
  <2>6. EntryMatchesTasks'
    <3>1. \A u \in Task : section'[u] = "awaitWrite" <=> section[u] = "awaitWrite"
      BY <1>1, <1>2, <1>7 DEF TypeOK
    <3> QED
      BY <1>1, <1>2, <1>3, <1>6, <1>7, <2>5, <3>1 DEF EntryMatchesTasks
  <2>7. MutualExclusion'
    BY <1>3, <2>1, <2>3 DEF MutualExclusion, Holders
  <2>8. NoLostWakeup'
    BY <1>1, <1>7, <2>4 DEF NoLostWakeup
  <2>9. TypeOK'
    <3>1. /\ readers' \in Nat
          /\ waitingReaders' \in SUBSET Task
          /\ waitingWriters' \in Seq(Task)
          /\ section' \in [Task -> Section]
      BY <1>1, <1>2, <1>7 DEF TypeOK, Section
    <3> QED
      BY <1>4, <3>1 DEF TypeOK
  <2> QED
    BY <1>5, <2>6, <2>7, <2>8, <2>9 DEF IInv
<1>8. CASE /\ writer \/ readers # 0
           /\ writer' = writer
           /\ waitingWriters' = Append(waitingWriters, t)
           /\ section' = [section EXCEPT ![t] = "awaitWrite"]
  <2>1. Writers' = Writers
    BY <1>1, <1>2, <1>8 DEF Writers, TypeOK
  <2>2. Holders # {}
    <3>1. CASE writer
      BY <1>2, <3>1, Zenon DEF EntryMatchesTasks, Holders
    <3>2. CASE readers # 0
      BY <3>2, CounterZero DEF Holders
    <3> QED
      BY <1>8, <3>1, <3>2
  <2>3. writer' = (Writers' # {})
    BY <1>2, <1>8, <2>1, Zenon DEF EntryMatchesTasks
  <2>4. /\ waitingWriters' \in Seq(Task)
        /\ waitingWriters' # <<>>
        /\ Len(waitingWriters') = Len(waitingWriters) + 1
        /\ Len(waitingWriters) \in Nat
        /\ \A i \in 1..Len(waitingWriters) : waitingWriters'[i] = waitingWriters[i]
        /\ waitingWriters'[Len(waitingWriters) + 1] = t
    BY <1>2, <1>8, AppendProperties, LenProperties DEF TypeOK
  <2>5. \A u \in Task :
          section'[u] = "awaitWrite"
            <=> \E i \in 1..Len(waitingWriters') : waitingWriters'[i] = u
    <3>1. \A u \in Task : section'[u] = "awaitWrite" <=> section[u] = "awaitWrite" \/ u = t
      BY <1>1, <1>2, <1>8 DEF TypeOK
    <3>2. \A u : (\E i \in 1..Len(waitingWriters') : waitingWriters'[i] = u)
                  <=> (\E i \in 1..Len(waitingWriters) : waitingWriters[i] = u) \/ u = t
      BY <2>4
    <3> QED
      BY <1>2, <3>1, <3>2 DEF EntryMatchesTasks
  <2>6. \A i, j \in 1..Len(waitingWriters') : waitingWriters'[i] = waitingWriters'[j] => i = j
    <3>1. \A i \in 1..Len(waitingWriters) : waitingWriters[i] # t
      BY <1>1, <1>2 DEF EntryMatchesTasks
    <3> QED
      BY <1>2, <2>4, <3>1 DEF EntryMatchesTasks
  <2>7. EntryMatchesTasks'
    BY <1>1, <1>2, <1>3, <1>6, <2>3, <2>5, <2>6 DEF EntryMatchesTasks
  <2>8. MutualExclusion'
    BY <1>2, <1>3, <2>1 DEF MutualExclusion, Holders
  <2>9. NoLostWakeup'
    BY <1>3, <2>1, <2>2, <2>4 DEF NoLostWakeup, Holders
  <2>10. TypeOK'
    <3>1. /\ readers' \in Nat
          /\ waitingReaders' \in SUBSET Task
          /\ section' \in [Task -> Section]
      BY <1>1, <1>2, <1>8 DEF TypeOK, Section
    <3> QED
      BY <1>4, <2>4, <3>1 DEF TypeOK
  <2> QED
    BY <1>5, <2>7, <2>8, <2>9, <2>10 DEF IInv
<1> QED
  BY <1>1, <1>7, <1>8

(***************************************************************************)
(* dispose: a reader or the writer leaves, and process(key) passes the     *)
(* lock on.  The three outcomes share what the departure itself changes.   *)
(***************************************************************************)
LEMMA DisposeBy ==
  ASSUME IInv, NEW t \in Task, Dispose(t)
  PROVE  \E n \in Nat :
           /\ Process(t, n)
           /\ n = Cardinality(Readers \ {t})
           /\ Writers \ {t} = {}
           /\ t \in Holders
<1>1. TypeOK /\ EntryMatchesTasks /\ MutualExclusion
  BY DEF IInv
<1>2. CASE DisposeRead(t)
  <2>1. t \in Readers
    BY <1>2 DEF DisposeRead, Readers
  <2>2. Writers = {}
    <3>1. \A w \in Writers : w = t
      BY <1>1, <2>1 DEF MutualExclusion, Holders
    <3>2. t \notin Writers
      BY <2>1 DEF Readers, Writers
    <3> QED
      BY <3>1, <3>2
  <2>3. readers - 1 = Cardinality(Readers \ {t}) /\ readers - 1 \in Nat
    <3>1. Cardinality(Readers \ {t}) = Cardinality(Readers) - 1
      BY <2>1, ReadersFinite, FS_RemoveElement
    <3>2. IsFiniteSet(Readers \ {t})
      BY ReadersFinite, FS_RemoveElement
    <3>3. Cardinality(Readers \ {t}) \in Nat
      BY <3>2, FS_CardinalityType
    <3> QED
      BY <1>1, <3>1, <3>3 DEF EntryMatchesTasks
  <2>4. Process(t, readers - 1)
    BY <1>2 DEF DisposeRead
  <2> QED
    BY <2>1, <2>2, <2>3, <2>4 DEF Holders
<1>3. CASE DisposeWrite(t)
  <2>1. t \in Writers
    BY <1>3 DEF DisposeWrite, Writers
  <2>2. Readers = {} /\ Writers \ {t} = {}
    <3>1. \A u \in Holders : u = t
      BY <1>1, <2>1 DEF MutualExclusion
    <3>2. t \notin Readers
      BY <2>1 DEF Readers, Writers
    <3> QED
      BY <3>1, <3>2 DEF Holders
  <2>3. readers = Cardinality(Readers \ {t}) /\ readers \in Nat
    <3>1. Readers \ {t} = Readers
      BY <2>2
    <3> QED
      BY <1>1, <3>1 DEF EntryMatchesTasks, TypeOK
  <2>4. Process(t, readers)
    BY <1>3 DEF DisposeWrite
  <2> QED
    BY <2>1, <2>2, <2>3, <2>4 DEF Holders
<1> QED
  BY <1>2, <1>3 DEF Dispose

LEMMA DisposeKeepsIInv ==
  ASSUME IInv, NEW t \in Task, Dispose(t)
  PROVE  IInv'
<1>1. TypeOK /\ EntryMatchesTasks /\ MutualExclusion /\ NoLostWakeup /\ EntryOutlivesItsUsers
  BY DEF IInv
<1>2. PICK n \in Nat : /\ Process(t, n)
                       /\ n = Cardinality(Readers \ {t})
                       /\ Writers \ {t} = {}
                       /\ t \in Holders
  BY DisposeBy
<1>3. section[t] \in {"reading", "writing"}
  BY <1>2 DEF Holders, Readers, Writers
<1>4. present
  BY <1>1, <1>3 DEF EntryOutlivesItsUsers, Idle
<1>5. IsFiniteSet(Readers \ {t})
  BY ReadersFinite, FS_RemoveElement
<1>6. CASE StillHeld(t, n)
  <2>1. /\ n > 0 /\ readers' = n /\ writer' = FALSE
        /\ section' = [section EXCEPT ![t] = "outside"]
        /\ present' = present /\ waitingReaders' = waitingReaders
        /\ waitingWriters' = waitingWriters
    BY <1>6 DEF StillHeld
  <2>2. Readers' = Readers \ {t} /\ Writers' = {}
    BY <1>1, <1>2, <2>1 DEF Readers, Writers, TypeOK
  <2>3. Readers' # {}
    BY <1>2, <2>1, <2>2, FS_EmptySet
  <2>4. writer' = (Writers' # {})
    <3>1. ~(Writers' # {})
      BY <2>2
    <3> QED
      BY <2>1, <3>1, Zenon
  <2>5. EntryMatchesTasks'
    <3>1. \A u \in Task : section'[u] = "awaitWrite" <=> section[u] = "awaitWrite"
      BY <1>1, <1>3, <2>1 DEF TypeOK
    <3>2. waitingReaders' = {u \in Task : section'[u] = "awaitRead"}
      BY <1>1, <1>3, <2>1 DEF EntryMatchesTasks, TypeOK
    <3> QED
      BY <1>1, <1>2, <2>1, <2>2, <2>4, <3>1, <3>2 DEF EntryMatchesTasks
  <2>6. MutualExclusion'
    BY <2>2 DEF MutualExclusion
  <2>7. NoLostWakeup'
    <3>1. waitingReaders # {} => waitingWriters # <<>>
      <4> SUFFICES ASSUME waitingReaders # {}, waitingWriters = <<>> PROVE FALSE
        OBVIOUS
      <4>1. t \in Writers /\ Readers # {}
        BY <1>1, <1>2, <2>2, <2>3 DEF NoLostWakeup
      <4> QED
        BY <1>1, <2>2, <2>3, <4>1 DEF MutualExclusion, Holders
    <3> QED
      BY <1>1, <2>1, <2>3, <3>1 DEF NoLostWakeup, Holders
  <2>8. EntryOutlivesItsUsers'
    BY <1>4, <2>1, Zenon DEF EntryOutlivesItsUsers
  <2>9. TypeOK'
    <3>1. present' \in BOOLEAN /\ writer' \in BOOLEAN
      BY <1>1, <2>1, Zenon DEF TypeOK
    <3>2. /\ readers' \in Nat
          /\ waitingReaders' \in SUBSET Task
          /\ waitingWriters' \in Seq(Task)
          /\ section' \in [Task -> Section]
      BY <1>1, <2>1 DEF TypeOK, Section
    <3> QED
      BY <3>1, <3>2 DEF TypeOK
  <2> QED
    BY <2>5, <2>6, <2>7, <2>8, <2>9 DEF IInv
<1>7. CASE WakeWriter(t, n)
  <2> DEFINE w == Head(waitingWriters)
  <2>1. /\ n = 0 /\ waitingWriters # <<>> /\ readers' = 0 /\ writer' = TRUE
        /\ waitingWriters' = Tail(waitingWriters)
        /\ section' = [section EXCEPT ![t] = "outside", ![w] = "writing"]
        /\ present' = present /\ waitingReaders' = waitingReaders
    BY <1>7 DEF WakeWriter
  <2>2. /\ w \in Task /\ w = waitingWriters[1]
        /\ Len(waitingWriters) \in Nat \ {0}
        /\ Tail(waitingWriters) \in Seq(Task)
        /\ Len(Tail(waitingWriters)) = Len(waitingWriters) - 1
        /\ \A i \in 1..Len(Tail(waitingWriters)) : Tail(waitingWriters)[i] = waitingWriters[i + 1]
    <3>1. /\ w \in Task
          /\ Tail(waitingWriters) \in Seq(Task)
          /\ Len(Tail(waitingWriters)) = Len(waitingWriters) - 1
          /\ \A i \in 1..Len(Tail(waitingWriters)) : Tail(waitingWriters)[i] = waitingWriters[i + 1]
      BY <1>1, <2>1, HeadTailProperties DEF TypeOK
    <3>2. Len(waitingWriters) \in Nat \ {0}
      BY <1>1, <2>1, EmptySeq DEF TypeOK
    <3>3. w = waitingWriters[1]
      BY <1>1, <2>1 DEF TypeOK
    <3> QED
      BY <3>1, <3>2, <3>3
  <2>3. section[w] = "awaitWrite"
    <3>1. 1 \in 1..Len(waitingWriters)
      BY <2>2
    <3> QED
      BY <1>1, <2>2, <3>1 DEF EntryMatchesTasks
  <2>4. Readers \ {t} = {}
    BY <1>2, <1>5, <2>1, FS_EmptySet
  <2>5. Readers' = {} /\ Writers' = {w}
    <3> HIDE DEF w
    <3>1. \A u \in Task : section'[u] = IF u = w THEN "writing"
                                       ELSE IF u = t THEN "outside" ELSE section[u]
      BY <1>1, <1>3, <2>1, <2>2, <2>3 DEF TypeOK
    <3> QED
      BY <1>2, <2>2, <2>4, <3>1 DEF Readers, Writers
  <2>6. writer' = (Writers' # {})
    <3>1. Writers' # {}
      BY <2>5
    <3> QED
      BY <2>1, <3>1, Zenon
  <2>7. \A u \in Task : section'[u] = IF u = w THEN "writing"
                                     ELSE IF u = t THEN "outside" ELSE section[u]
    <3> HIDE DEF w
    <3> QED
      BY <1>1, <1>3, <2>1, <2>2, <2>3 DEF TypeOK
  <2>8. EntryMatchesTasks'
    <3> HIDE DEF w
    <3>1. readers' = Cardinality(Readers')
      BY <2>1, <2>5, FS_EmptySet
    <3>2. waitingReaders' = {u \in Task : section'[u] = "awaitRead"}
      <4>1. \A u \in Task : section'[u] = "awaitRead" <=> section[u] = "awaitRead"
        BY <1>3, <2>3, <2>7
      <4> QED
        BY <1>1, <2>1, <4>1 DEF EntryMatchesTasks
    <3>3. \A i \in 2..Len(waitingWriters) : waitingWriters[i] # w
      BY <1>1, <2>2 DEF EntryMatchesTasks
    <3>4. \A u \in Task :
            section'[u] = "awaitWrite"
              <=> \E i \in 1..Len(waitingWriters') : waitingWriters'[i] = u
      <4>1. \A u \in Task : section'[u] = "awaitWrite" <=> section[u] = "awaitWrite" /\ u # w
        BY <1>3, <2>7
      <4>2. \A u : (\E i \in 1..Len(waitingWriters') : waitingWriters'[i] = u)
                    <=> (\E i \in 2..Len(waitingWriters) : waitingWriters[i] = u)
        <5>1. ASSUME NEW u, NEW i \in 1..Len(waitingWriters'), waitingWriters'[i] = u
              PROVE  \E j \in 2..Len(waitingWriters) : waitingWriters[j] = u
          <6>1. i + 1 \in 2..Len(waitingWriters) /\ waitingWriters[i + 1] = u
            BY <2>1, <2>2, <5>1
          <6> QED
            BY <6>1
        <5>2. ASSUME NEW u, NEW j \in 2..Len(waitingWriters), waitingWriters[j] = u
              PROVE  \E i \in 1..Len(waitingWriters') : waitingWriters'[i] = u
          <6>1. j - 1 \in 1..Len(waitingWriters') /\ waitingWriters'[j - 1] = u
            BY <2>1, <2>2, <5>2
          <6> QED
            BY <6>1
        <5> QED
          BY <5>1, <5>2
      <4>3. \A u : (\E i \in 1..Len(waitingWriters) : waitingWriters[i] = u)
                    <=> (\E i \in 2..Len(waitingWriters) : waitingWriters[i] = u) \/ u = w
        BY <2>2
      <4>4. ASSUME NEW u \in Task
            PROVE  section'[u] = "awaitWrite"
                     <=> \E i \in 1..Len(waitingWriters') : waitingWriters'[i] = u
        <5>1. section[u] = "awaitWrite" <=> \E i \in 1..Len(waitingWriters) : waitingWriters[i] = u
          BY <1>1 DEF EntryMatchesTasks
        <5>2. u = w => ~\E i \in 2..Len(waitingWriters) : waitingWriters[i] = u
          BY <3>3
        <5> QED
          BY <4>1, <4>2, <4>3, <5>1, <5>2
      <4> QED
        BY <4>4
    <3>5. \A i, j \in 1..Len(waitingWriters') : waitingWriters'[i] = waitingWriters'[j] => i = j
      <4> SUFFICES ASSUME NEW i \in 1..Len(waitingWriters'), NEW j \in 1..Len(waitingWriters'),
                          waitingWriters'[i] = waitingWriters'[j]
                   PROVE  i = j
        OBVIOUS
      <4>1. /\ i + 1 \in 1..Len(waitingWriters) /\ j + 1 \in 1..Len(waitingWriters)
            /\ waitingWriters[i + 1] = waitingWriters[j + 1]
        BY <2>1, <2>2
      <4>2. i + 1 = j + 1
        BY <1>1, <4>1 DEF EntryMatchesTasks
      <4> QED
        BY <2>1, <2>2, <4>2
    <3> QED
      BY <2>6, <3>1, <3>2, <3>4, <3>5 DEF EntryMatchesTasks
  <2>9. MutualExclusion' /\ NoLostWakeup'
    <3> HIDE DEF w
    <3> QED
      BY <2>5 DEF MutualExclusion, NoLostWakeup, Holders
  <2>10. EntryOutlivesItsUsers'
    BY <1>4, <2>1, Zenon DEF EntryOutlivesItsUsers
  <2>11. TypeOK'
    <3>1. present' \in BOOLEAN /\ writer' \in BOOLEAN
      BY <1>1, <2>1, Zenon DEF TypeOK
    <3>2. /\ readers' \in Nat
          /\ waitingReaders' \in SUBSET Task
          /\ waitingWriters' \in Seq(Task)
          /\ section' \in [Task -> Section]
      BY <1>1, <2>1, <2>2 DEF TypeOK, Section
    <3> QED
      BY <3>1, <3>2 DEF TypeOK
  <2> QED
    BY <2>8, <2>9, <2>10, <2>11 DEF IInv
<1>8. CASE WakeReaders(t, n)
  <2>1. /\ n = 0 /\ waitingWriters = <<>>
        /\ readers' = Cardinality(waitingReaders)
        /\ writer' = FALSE /\ waitingReaders' = {}
        /\ section' = [u \in Task |-> IF u = t THEN "outside"
                                     ELSE IF u \in waitingReaders THEN "reading"
                                     ELSE section[u]]
        /\ waitingWriters' = waitingWriters
    BY <1>8 DEF WakeReaders
  <2>2. present' = (waitingReaders # {})
    BY <1>8 DEF WakeReaders
  <2>3. Readers \ {t} = {}
    BY <1>2, <1>5, <2>1, FS_EmptySet
  <2>4. t \notin waitingReaders
    BY <1>1, <1>3 DEF EntryMatchesTasks
  <2>5. waitingReaders \subseteq Task
    BY <1>1 DEF TypeOK
  <2>6. Readers' = waitingReaders
    BY <2>1, <2>3, <2>4, <2>5 DEF Readers
  <2>7. Writers' = {}
    BY <1>2, <2>1, <2>5 DEF Writers
  <2>8. writer' = (Writers' # {})
    <3>1. ~(Writers' # {})
      BY <2>7
    <3> QED
      BY <2>1, <3>1, Zenon
  <2>9. \A u \in Task : section'[u] # "awaitRead" /\ section'[u] # "awaitWrite"
    <3>1. \A u \in Task : section[u] # "awaitWrite"
      <4>1. Len(waitingWriters) = 0
        BY <2>1
      <4> QED
        BY <1>1, <4>1 DEF EntryMatchesTasks
    <3>2. \A u \in Task : section[u] = "awaitRead" => u \in waitingReaders
      BY <1>1 DEF EntryMatchesTasks
    <3> QED
      BY <2>1, <3>1, <3>2
  <2>10. EntryMatchesTasks'
    <3>1. Len(waitingWriters') = 0
      BY <2>1
    <3> QED
      BY <2>1, <2>6, <2>8, <2>9, <3>1 DEF EntryMatchesTasks
  <2>11. MutualExclusion' /\ NoLostWakeup'
    BY <2>1, <2>7 DEF MutualExclusion, NoLostWakeup
  <2>12. EntryOutlivesItsUsers'
    <3> SUFFICES ASSUME ~present' PROVE Idle' = Task
      BY DEF EntryOutlivesItsUsers
    <3>1. waitingReaders = {}
      BY <2>2
    <3>2. \A u \in Task : section'[u] = "outside"
      <4>1. \A u \in Task : section'[u] \in Section
        BY <1>1, <2>1 DEF TypeOK, Section
      <4>2. \A u \in Task : section'[u] # "reading" /\ section'[u] # "writing"
        BY <2>6, <2>7, <3>1 DEF Readers, Writers
      <4> QED
        BY <2>9, <4>1, <4>2 DEF Section
    <3> QED
      BY <3>2 DEF Idle
  <2>13. TypeOK'
    <3>1. writer' \in BOOLEAN
      BY <2>1, Zenon
    <3>2. present' \in BOOLEAN
      BY <2>2, Zenon
    <3>3. readers' \in Nat
      <4>1. IsFiniteSet(waitingReaders)
        BY <2>5, TaskAssumption, FS_Subset
      <4> QED
        BY <2>1, <4>1, FS_CardinalityType
    <3>4. /\ waitingReaders' \in SUBSET Task
          /\ waitingWriters' \in Seq(Task)
          /\ section' \in [Task -> Section]
      BY <1>1, <2>1 DEF TypeOK, Section
    <3> QED
      BY <3>1, <3>2, <3>3, <3>4 DEF TypeOK
  <2> QED
    BY <2>10, <2>11, <2>12, <2>13 DEF IInv
<1> QED
  BY <1>2, <1>6, <1>7, <1>8 DEF Process

(***************************************************************************)
(* IInv is inductive: the entry's counter, flag and queues always agree    *)
(* with what the tasks are doing.                                          *)
(***************************************************************************)
THEOREM Correct == Spec => []IInv
<1>1. Init => IInv
  BY InitIInv
<1>2. IInv /\ [Next]_vars => IInv'
  <2> SUFFICES ASSUME IInv, [Next]_vars PROVE IInv'
    OBVIOUS
  <2>1. ASSUME NEW t \in Task, Read(t) PROVE IInv'
    BY <2>1, ReadKeepsIInv
  <2>2. ASSUME NEW t \in Task, Write(t) PROVE IInv'
    BY <2>2, WriteKeepsIInv
  <2>3. ASSUME NEW t \in Task, Dispose(t) PROVE IInv'
    BY <2>3, DisposeKeepsIInv
  <2>4. CASE UNCHANGED vars
    BY <2>4 DEF vars, IInv, TypeOK, EntryMatchesTasks, MutualExclusion, NoLostWakeup,
                EntryOutlivesItsUsers, Holders, Readers, Writers, Idle
  <2> QED
    BY <2>1, <2>2, <2>3, <2>4 DEF Next
<1> QED
  BY <1>1, <1>2, PTL DEF Spec

(* A writer never shares the record with another writer or with a reader.  *)
THEOREM WritersAlone == Spec => []MutualExclusion
<1>1. IInv => MutualExclusion
  BY DEF IInv
<1> QED
  BY <1>1, Correct, PTL

(* process(key) never leaves a caller queued on a lock that nobody holds.  *)
THEOREM WakeupsNotLost == Spec => []NoLostWakeup
<1>1. IInv => NoLostWakeup
  BY DEF IInv
<1> QED
  BY <1>1, Correct, PTL

(* The table never drops an entry that a holder or a waiter still uses, so *)
(* get(key) cannot create a second lock for a key that is locked.          *)
THEOREM OneEntryPerKey == Spec => []EntryOutlivesItsUsers
<1>1. IInv => EntryOutlivesItsUsers
  BY DEF IInv
<1> QED
  BY <1>1, Correct, PTL
=============================================================================
