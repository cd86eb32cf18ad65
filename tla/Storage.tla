------------------------------ MODULE Storage ------------------------------
(***************************************************************************)
(* One record of the JSON store of                                         *)
(* packages/emberharmony/src/storage/storage.ts: the file, the write-      *)
(* behind overlay over it, and the calls that go through the record's lock *)
(* (module RwLock, whose operations are the lock steps of the calls).      *)
(*                                                                         *)
(* Each call is a process that runs once; after writeBehind has returned,  *)
(* the process is the flush it left behind.  Contents are compared by      *)
(* identity in the code, so a content is the number of the change that     *)
(* made it, and the removal of the record is a change too.                 *)
(***************************************************************************)
EXTENDS Naturals, FiniteSets, Sequences

CONSTANTS
  Task,         \* the calls
  MaxFaults     \* bound on the disk errors of a behaviour

ASSUME TaskIsFinite == IsFiniteSet(Task)
ASSUME FaultsAssumption == MaxFaults \in Nat

VARIABLES
  present, readers, writer, waitingReaders, waitingWriters, section,
  disk,       \* the content of the file, 0 when there is no file
  pending,    \* pending.get(target), 0 when it has no entry
  pc,         \* where each call is
  value,      \* content a call writes, has read, or answers with
  attempt,    \* the attempt number of each flush
  faults,     \* disk errors so far
  left,       \* the contents whose removal failed (a record of the past)
  latest,     \* the last change (a record, too, as are the next four)
  reported,   \* the last change whose caller knows of it
  gone,       \* the changes that removed the record; 0 is its first absence
  durable,    \* the last change whose durable write or removal was reported
  since       \* the last change when each read began, or when an update looked
              \* at the overlay; for a list, the last reported one

L == INSTANCE RwLock

lock == <<present, readers, writer, waitingReaders, waitingWriters, section>>
past == <<latest, reported, gone, durable, since>>
errors == <<faults, left>>
vars == <<lock, disk, pending, pc, value, attempt, errors, past>>

FlushPhases  == {"flush", "flushLock", "flushing", "flushed"}
ChangePhases == {"writeLock", "updateLock", "loading", "loaded", "writing", "written",
                 "removeLock", "unlinking", "unlinked"}
ReadPhases   == {"readLock", "read", "answered", "scanning", "scanned", "listed"}
Phases == {"new", "done"} \cup FlushPhases \cup ChangePhases \cup ReadPhases

TypeOK ==
  /\ L!TypeOK
  /\ disk \in Nat
  /\ pending \in Nat
  /\ pc \in [Task -> Phases]
  /\ value \in [Task -> Nat]
  /\ attempt \in [Task -> 0..3]
  /\ faults \in Nat
  /\ left \in SUBSET Nat
  /\ latest \in Nat
  /\ reported \in Nat
  /\ gone \in SUBSET Nat
  /\ durable \in Nat
  /\ since \in [Task -> Nat]

\* The store opens on an absent record, or on one that an earlier process left.
Init ==
  /\ L!Init
  /\ disk \in {0, 1}
  /\ pending = 0
  /\ pc = [t \in Task |-> "new"]
  /\ value = [t \in Task |-> 0]
  /\ attempt = [t \in Task |-> 0]
  /\ faults = 0
  /\ left = {}
  /\ latest = disk
  /\ reported = disk
  /\ gone = {0}
  /\ durable = disk
  /\ since = [t \in Task |-> 0]

-----------------------------------------------------------------------------
Goto(t, ph) == pc' = [pc EXCEPT ![t] = ph]

Holds(t) == section[t] = "writing"

(* pending.set by task t: the record has a new content.                    *)
Overlay(t) ==
  /\ latest' = latest + 1
  /\ pending' = latest + 1
  /\ value' = [value EXCEPT ![t] = latest + 1]
  /\ UNCHANGED <<gone, durable, since>>

\* Slip: the entry is deleted whatever it holds by now.
ForgetAnyway(t) == pending' = 0

(* if (pending.get(target) === content) pending.delete(target)             *)
Forget(t) == pending' = IF pending = value[t] THEN 0 ELSE pending

(* The caller of a durable change is told that it succeeded.               *)
Report(t) ==
  /\ durable' = value[t]
  /\ reported' = IF reported < value[t] THEN value[t] ELSE reported

Fault ==
  /\ faults < MaxFaults
  /\ faults' = faults + 1

-----------------------------------------------------------------------------
(* writeBehind and its flush *)

WriteBehind(t) ==
  /\ pc[t] = "new"
  /\ Overlay(t)
  /\ reported' = latest + 1
  /\ Goto(t, "flush")
  /\ UNCHANGED <<lock, disk, attempt, errors>>

FlushStart(t) ==
  /\ pc[t] = "flush"
  /\ \/ pending # value[t] /\ Goto(t, "done") /\ UNCHANGED lock
     \/ pending = value[t] /\ L!Write(t) /\ Goto(t, "flushLock")
  /\ UNCHANGED <<disk, pending, value, attempt, errors, past>>

\* Slip: the flush that waited for the lock does not look again.
FlushEnterAnyway(t) ==
  /\ pc[t] = "flushLock"
  /\ Holds(t)
  /\ Goto(t, "flushing")
  /\ UNCHANGED <<lock, disk, pending, value, attempt, errors, past>>

FlushEnter(t) ==
  /\ pc[t] = "flushLock"
  /\ Holds(t)
  /\ \/ pending # value[t] /\ L!DisposeWrite(t) /\ Goto(t, "done")
     \/ pending = value[t] /\ Goto(t, "flushing") /\ UNCHANGED lock
  /\ UNCHANGED <<disk, pending, value, attempt, errors, past>>

FlushEnd(t) ==
  /\ pc[t] = "flushed"
  /\ L!DisposeWrite(t)
  /\ Forget(t)
  /\ Goto(t, "done")
  /\ UNCHANGED <<disk, value, attempt, errors, past>>

\* Slip: one attempt too few.
FlushFaultOnceLess(t) ==
  /\ pc[t] = "flushing"
  /\ Fault
  /\ UNCHANGED left
  /\ L!DisposeWrite(t)
  /\ \/ /\ attempt[t] < 2 /\ pending = value[t]
        /\ attempt' = [attempt EXCEPT ![t] = @ + 1]
        /\ Goto(t, "flush")
     \/ /\ ~(attempt[t] < 2 /\ pending = value[t])
        /\ Goto(t, "done")
        /\ UNCHANGED attempt
  /\ UNCHANGED <<disk, pending, value, past>>

\* Slip: one attempt too many.
FlushFaultOnceMore(t) ==
  /\ pc[t] = "flushing"
  /\ Fault
  /\ UNCHANGED left
  /\ L!DisposeWrite(t)
  /\ \/ /\ attempt[t] <= 3 /\ pending = value[t]
        /\ attempt' = [attempt EXCEPT ![t] = @ + 1]
        /\ Goto(t, "flush")
     \/ /\ ~(attempt[t] <= 3 /\ pending = value[t])
        /\ Goto(t, "done")
        /\ UNCHANGED attempt
  /\ UNCHANGED <<disk, pending, value, past>>

(* The write or the rename fails: back off and flush again, or give up and *)
(* keep the content in memory only.                                        *)
FlushFault(t) ==
  /\ pc[t] = "flushing"
  /\ Fault
  /\ UNCHANGED left
  /\ L!DisposeWrite(t)
  /\ \/ /\ attempt[t] < 3 /\ pending = value[t]
        /\ attempt' = [attempt EXCEPT ![t] = @ + 1]
        /\ Goto(t, "flush")
     \/ /\ ~(attempt[t] < 3 /\ pending = value[t])
        /\ Goto(t, "done")
        /\ UNCHANGED attempt
  /\ UNCHANGED <<disk, pending, value, past>>

-----------------------------------------------------------------------------
(* write, update and remove: under the lock from the first step *)

Change(t) ==
  /\ pc[t] = "new"
  /\ L!Write(t)
  /\ \E ph \in {"writeLock", "updateLock", "removeLock"} : Goto(t, ph)
  /\ UNCHANGED <<disk, pending, value, attempt, errors, past>>

WriteEnter(t) ==
  /\ pc[t] = "writeLock"
  /\ Holds(t)
  /\ Overlay(t)
  /\ Goto(t, "writing")
  /\ UNCHANGED <<lock, reported, disk, attempt, errors>>

\* Slip: update reads the file past the overlay.
UpdateEnterPastOverlay(t) ==
  /\ pc[t] = "updateLock"
  /\ Holds(t)
  /\ since' = [since EXCEPT ![t] = latest]
  /\ Goto(t, "loading")
  /\ UNCHANGED <<lock, disk, pending, value, attempt, errors, latest, reported, gone, durable>>

(* update works on the overlay's content at once, or loads the file first. *)
UpdateEnter(t) ==
  /\ pc[t] = "updateLock"
  /\ Holds(t)
  /\ \/ pending # 0 /\ Overlay(t) /\ Goto(t, "writing") /\ UNCHANGED reported
     \/ /\ pending = 0
        /\ since' = [since EXCEPT ![t] = latest]
        /\ Goto(t, "loading")
        /\ UNCHANGED <<pending, value, latest, reported, gone, durable>>
  /\ UNCHANGED <<lock, disk, attempt, errors>>

\* Without a file update throws NotFoundError.
UpdateLoad(t) ==
  /\ pc[t] = "loading"
  /\ \/ /\ disk # 0
        /\ value' = [value EXCEPT ![t] = disk]
        /\ Goto(t, "loaded")
        /\ UNCHANGED lock
     \/ /\ disk = 0
        /\ L!DisposeWrite(t)
        /\ Goto(t, "done")
        /\ UNCHANGED value
  /\ UNCHANGED <<disk, pending, attempt, errors, past>>

UpdateSet(t) ==
  /\ pc[t] = "loaded"
  /\ Overlay(t)
  /\ Goto(t, "writing")
  /\ UNCHANGED <<lock, reported, disk, attempt, errors>>

(* atomicWrite: the file changes at the rename, some time before the       *)
(* caller is resumed.                                                      *)
Rename(t) ==
  /\ \/ pc[t] = "flushing" /\ Goto(t, "flushed")
     \/ pc[t] = "writing" /\ Goto(t, "written")
  /\ disk' = value[t]
  /\ UNCHANGED <<lock, pending, value, attempt, errors, past>>

WriteEnd(t) ==
  /\ pc[t] = "written"
  /\ Forget(t)
  /\ L!DisposeWrite(t)
  /\ Report(t)
  /\ Goto(t, "done")
  /\ UNCHANGED <<disk, value, attempt, errors, latest, gone, since>>

(* The caller gets the error; the overlay keeps the content.               *)
WriteFault(t) ==
  /\ pc[t] = "writing"
  /\ Fault
  /\ UNCHANGED left
  /\ L!DisposeWrite(t)
  /\ Goto(t, "done")
  /\ UNCHANGED <<disk, pending, value, attempt, past>>

\* Slip: the overlay keeps what remove takes off the disk.
RemoveEnterOnly(t) ==
  /\ pc[t] = "removeLock"
  /\ Holds(t)
  /\ latest' = latest + 1
  /\ gone' = gone \cup {latest + 1}
  /\ value' = [value EXCEPT ![t] = latest + 1]
  /\ Goto(t, "unlinking")
  /\ UNCHANGED <<lock, disk, pending, attempt, errors, reported, durable, since>>

RemoveEnter(t) ==
  /\ pc[t] = "removeLock"
  /\ Holds(t)
  /\ pending' = 0
  /\ latest' = latest + 1
  /\ gone' = gone \cup {latest + 1}
  /\ value' = [value EXCEPT ![t] = latest + 1]
  /\ Goto(t, "unlinking")
  /\ UNCHANGED <<lock, disk, attempt, errors, reported, durable, since>>

Unlink(t) ==
  /\ pc[t] = "unlinking"
  /\ disk' = 0
  /\ Goto(t, "unlinked")
  /\ UNCHANGED <<lock, pending, value, attempt, errors, past>>

(* unlink(...).catch(() => {}): the file stays and nobody learns of it.    *)
UnlinkFault(t) ==
  /\ pc[t] = "unlinking"
  /\ disk # 0
  /\ Fault
  /\ left' = left \cup {disk}
  /\ Goto(t, "unlinked")
  /\ UNCHANGED <<lock, disk, pending, value, attempt, past>>

RemoveEnd(t) ==
  /\ pc[t] = "unlinked"
  /\ L!DisposeWrite(t)
  /\ Report(t)
  /\ Goto(t, "done")
  /\ UNCHANGED <<disk, pending, value, attempt, errors, latest, gone, since>>

-----------------------------------------------------------------------------
(* read and list *)

\* Slip: read does not look at the overlay.
ReadPastOverlay(t) ==
  /\ pc[t] = "new"
  /\ since' = [since EXCEPT ![t] = latest]
  /\ L!Read(t)
  /\ Goto(t, "readLock")
  /\ UNCHANGED <<disk, pending, value, attempt, errors, latest, reported, gone, durable>>

Read(t) ==
  /\ pc[t] = "new"
  /\ since' = [since EXCEPT ![t] = latest]
  /\ \/ /\ pending # 0
        /\ value' = [value EXCEPT ![t] = pending]
        /\ Goto(t, "answered")
        /\ UNCHANGED lock
     \/ /\ pending = 0
        /\ L!Read(t)
        /\ Goto(t, "readLock")
        /\ UNCHANGED value
  /\ UNCHANGED <<disk, pending, attempt, errors, latest, reported, gone, durable>>

ReadFile(t) ==
  /\ pc[t] = "readLock"
  /\ section[t] = "reading"
  /\ value' = [value EXCEPT ![t] = disk]
  /\ Goto(t, "read")
  /\ UNCHANGED <<lock, disk, pending, attempt, errors, past>>

ReadEnd(t) ==
  /\ pc[t] = "read"
  /\ L!DisposeRead(t)
  /\ Goto(t, "answered")
  /\ UNCHANGED <<disk, pending, value, attempt, errors, past>>

(* list takes no lock: it scans the directory, then adds the keys that the *)
(* overlay has when the scan is over.                                      *)
List(t) ==
  /\ pc[t] = "new"
  /\ since' = [since EXCEPT ![t] = reported]
  /\ Goto(t, "scanning")
  /\ UNCHANGED <<lock, disk, pending, value, attempt, errors, latest, reported, gone, durable>>

Scan(t) ==
  /\ pc[t] = "scanning"
  /\ value' = [value EXCEPT ![t] = disk]
  /\ Goto(t, "scanned")
  /\ UNCHANGED <<lock, disk, pending, attempt, errors, past>>

ListEnd(t) ==
  /\ pc[t] = "scanned"
  /\ value' = [value EXCEPT ![t] = IF @ = 0 THEN pending ELSE @]
  /\ Goto(t, "listed")
  /\ UNCHANGED <<lock, disk, pending, attempt, errors, past>>

-----------------------------------------------------------------------------
(* The process dies and starts again: the disk is all that is left.  What  *)
(* only the overlay held has not happened, nor has a removal that failed;  *)
(* without a file, the last change counts as an absence.                   *)
Crash ==
  /\ present' = FALSE /\ readers' = 0 /\ writer' = FALSE
  /\ waitingReaders' = {} /\ waitingWriters' = <<>>
  /\ section' = [t \in Task |-> "outside"]
  /\ pending' = 0
  /\ pc' = [t \in Task |-> IF pc[t] = "new" THEN "new" ELSE "done"]
  /\ gone' = IF disk = 0 THEN gone \cup {latest} ELSE {g \in gone : g < disk}
  /\ latest' = IF disk = 0 THEN latest ELSE disk
  /\ reported' = latest'
  /\ durable' = IF disk \in left THEN disk ELSE durable
  /\ UNCHANGED <<disk, value, attempt, errors, since>>

Step(t) ==
  \/ FlushStart(t) \/ FlushEnter(t) \/ FlushEnd(t) \/ FlushFault(t)
  \/ WriteEnter(t) \/ UpdateEnter(t) \/ UpdateLoad(t) \/ UpdateSet(t)
  \/ Rename(t) \/ WriteEnd(t) \/ WriteFault(t)
  \/ RemoveEnter(t) \/ Unlink(t) \/ UnlinkFault(t) \/ RemoveEnd(t)
  \/ ReadFile(t) \/ ReadEnd(t) \/ Scan(t) \/ ListEnd(t)

Arrive(t) == WriteBehind(t) \/ Change(t) \/ Read(t) \/ List(t)

Next == Crash \/ \E t \in Task : Step(t) \/ Arrive(t)

(* Promises are resumed, timers fire, and the disk ends what it was asked. *)
Fairness == \A t \in Task : WF_vars(Step(t))

Spec == Init /\ [][Next]_vars /\ Fairness

-----------------------------------------------------------------------------
(* What a caller sees, overlay over file, is the last change: no           *)
(* interleaving of flushes, failed writes and removals hides it or brings  *)
(* an older content back, but for a file that could not be unlinked.       *)
Visible == IF pending # 0 THEN pending ELSE disk

LastChangeIsVisible ==
  \/ latest \notin gone /\ Visible = latest
  \/ latest \in gone /\ pending = 0 /\ (disk \in {0} \cup left \/ \E t \in Task : pc[t] = "unlinking")

(* Was the record absent at some time since the change `from`?             *)
AbsentSince(from) == \E g \in gone : g >= from

Fresh(t) ==
  IF value[t] = 0 THEN AbsentSince(since[t]) ELSE value[t] >= since[t] \/ value[t] \in left

(* A read answers with the record as it was when the read began, or later, *)
(* although it looks at the overlay and at the file at different times.    *)
ReadIsFresh == \A t \in Task : pc[t] = "answered" => Fresh(t)

(* A change that was reported durable is on the disk, or a newer one is:   *)
(* whatever is in flight, a crash loses no acknowledged write.             *)
DurableIsOnDisk ==
  IF disk = 0 THEN AbsentSince(durable) ELSE disk >= durable \/ disk \in left

(* A flush never puts an older content over a newer one, nor brings a      *)
(* removed record back.                                                    *)
NoStaleFlush ==
  [][disk' # disk /\ disk' # 0 =>
       disk' > disk /\ \A g \in gone : g < disk']_vars

(* update starts from the record as it was when update looked at the       *)
(* overlay, and nothing changes it across the load of the file but a       *)
(* writeBehind, which takes no lock: its change is then lost, which is why *)
(* the repository uses writeBehind for new records only.                   *)
UpdateOnLatest ==
  \A t \in Task :
    /\ pc[t] = "loaded" => value[t] = since[t] \/ value[t] \in left
    /\ pc[t] \in {"loading", "loaded"} /\ latest # since[t]
         => \E u \in Task : pc[u] \in {"flush", "flushLock"} /\ value[u] = latest

(* A content that is in memory only is still somebody's to put on the      *)
(* disk, whatever superseded it or failed meanwhile, or has been given up  *)
(* as the code gives up: the caller of the write has the error, or the     *)
(* flush has met four of them.                                             *)
OverlayIsCarried ==
  pending # 0 =>
    \E t \in Task :
      /\ value[t] = pending
      /\ pc[t] = "done" => attempt[t] \in {0, 3}
      /\ pc[t] \in {"done"} \cup FlushPhases \cup ChangePhases

(* storage.ts:319-321: "include write-behind entries under this prefix     *)
(* that haven't flushed to disk yet, so list-based reads                   *)
(* (Session.list/children) are read-after-create consistent": a list       *)
(* leaves out a record that a caller has created only if it was absent at  *)
(* some time since.                                                        *)
ListIsFresh ==
  \A t \in Task : pc[t] = "listed" /\ value[t] = 0 => AbsentSince(since[t])

-----------------------------------------------------------------------------
(* The calls on a record implement a register with a saved copy, although  *)
(* the overlay, the file and the lock change one after another.  A content *)
(* may still be saved if it is newer than the file and every removal.      *)
Now == IF latest \in gone THEN 0 ELSE latest

Unsaved == {c \in 1..latest : c > disk /\ \A g \in gone : g < c}

Removing == \E t \in Task : pc[t] = "unlinking"

CurrentSince(from) ==
  {c \in from..latest : c \notin gone} \cup (IF AbsentSince(from) THEN {0} ELSE {})

Seen == [t \in Task |-> IF pc[t] \in {"readLock", "read"} THEN CurrentSince(since[t]) ELSE {}]

Answers == [t \in Task |-> IF pc[t] = "answered" THEN {value[t]} ELSE {}]

Reg == INSTANCE Register
  WITH now <- Now, file <- disk, unsaved <- Unsaved, removing <- Removing,
       seen <- Seen, answer <- Answers

ImplementsRegister == Reg!Spec

\* Contents are no removals, of which the mapping makes use.
ContentsInv ==
  /\ disk # 0 => disk \notin gone
  /\ \A t \in Task :
       /\ pc[t] = "unlinking" => disk < value[t]
       /\ pc[t] \in {"readLock", "read"} => since[t] <= latest
       /\ pc[t] = "read" /\ value[t] # 0 => value[t] <= latest /\ value[t] \notin gone

-----------------------------------------------------------------------------
(* The inductive strengthening.  Who is inside holds the lock alone.       *)
Inside == {"flushing", "flushed", "loading", "loaded", "writing", "written",
           "unlinking", "unlinked"}

LockInv == L!IInv /\ \A t \in Task : pc[t] \in Inside => Holds(t)

\* Changes are numbered as they come, and the overlay holds the last or nothing.
NumbersInv ==
  /\ disk <= latest /\ durable <= latest /\ 0 \notin left
  /\ \A g \in gone : g <= latest
  /\ pending # 0 => pending = latest /\ latest \notin gone

\* What is about to be written is newer than all that happened to the file, and
\* nobody takes the overlay away from a writer.
WriterOK(t) ==
  /\ pc[t] \in {"flushing", "writing"} =>
       /\ 0 < value[t] /\ value[t] <= pending
       /\ disk <= value[t] /\ durable <= value[t]
       /\ \A g \in gone : g < value[t]
  /\ pc[t] \in {"flushed", "written"} => disk = value[t] /\ value[t] # 0 /\ pending # 0
  /\ pc[t] \in {"unlinking", "unlinked"} => value[t] \in gone
  /\ pc[t] = "unlinking" => durable <= value[t] /\ (pending # 0 \/ latest \in gone)
  /\ pc[t] = "unlinked" => disk \in {0} \cup left

\* A reader that waits finds a file that is fresh, or will be when the lock is free.
ReaderOK(t) ==
  /\ pc[t] = "readLock" =>
       /\ since[t] <= latest
       /\ IF disk = 0 THEN AbsentSince(since[t])
          ELSE disk >= since[t] \/ disk \in left \/ \E u \in Task : pc[u] = "unlinking"
       /\ \A u \in Task :
            /\ pc[u] \in {"flushing", "writing"} => since[t] <= value[u]
            /\ pc[u] = "unlinking" => AbsentSince(since[t])
  /\ pc[t] \in {"read", "answered"} => Fresh(t)

UpdateOK(t) ==
  /\ pc[t] = "loading" => disk \in {0, since[t]} \cup left
  /\ pc[t] = "loaded" => value[t] = since[t] \/ value[t] \in left
  /\ pc[t] \in {"loading", "loaded"} /\ latest # since[t]
       => pending # 0 /\ \E u \in Task : pc[u] \in {"flush", "flushLock"} /\ value[u] = latest

AttemptOK(t) ==
  /\ pc[t] \in {"new"} \cup ChangePhases => attempt[t] = 0
  /\ pc[t] \in {"flush", "flushLock"} => value[t] # 0
  /\ pc[t] \in {"new", "writeLock", "updateLock", "removeLock", "loading"} => value[t] = 0

CallsInv == \A t \in Task : WriterOK(t) /\ ReaderOK(t) /\ UpdateOK(t) /\ AttemptOK(t)

\* The whole invariant, with the properties that hold step by step: who changes the
\* record does so alone, and everybody else knows enough of it to stay right.
IInv ==
  /\ TypeOK /\ LockInv /\ NumbersInv /\ CallsInv
  /\ LastChangeIsVisible /\ DurableIsOnDisk /\ OverlayIsCarried

=============================================================================
