------------------------------ MODULE FileTime ------------------------------
(***************************************************************************)
(* Read times and write locks, packages/emberharmony/src/file/time.ts, for *)
(* one file.  A time is the version of the file at that time.              *)
(***************************************************************************)
EXTENDS Naturals, Sequences

CONSTANTS Session, Call

VARIABLES
  file,     \* the file's version, and who wrote it
  readAt,   \* state.read: when each session read the file, 0 for never
  locks     \* state.locks: who waits for the file's lock; the first has it

Writers == {"edit", "create", "write", "outside"}

TypeOK ==
  /\ file \in [version : Nat, by : Writers]
  /\ readAt \in [Session -> Nat]
  /\ locks \in Seq(Call)

Init ==
  /\ file = [version |-> 1, by |-> "outside"]
  /\ readAt \in [Session -> {0, 1}]
  /\ locks = <<>>

Read(s) == readAt' = [readAt EXCEPT ![s] = file.version]

Assert(s) == readAt[s] # 0 /\ file.version <= readAt[s]

Write(who) == file' = [version |-> file.version + 1, by |-> who]

Queue(c) == locks' = Append(locks, c)

\* Slip: a caller does not wait for the one before.
Unlocked(c) == TRUE

HasLock(c) == locks[1] = c

\* The holder's promise resolves, and with it that of the next in the chain.
Release == locks' = Tail(locks)
=============================================================================
