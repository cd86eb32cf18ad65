------------------------------ MODULE Register ------------------------------
(***************************************************************************)
(* What packages/emberharmony/src/storage/storage.ts promises of one       *)
(* record: a register with a copy that outlives the process.  A change is  *)
(* current at once and saved later, or never when a newer one is saved     *)
(* first; what a removal or a crash took is not saved afterwards; a read   *)
(* answers with something that was current since it began.  Of a removal   *)
(* that fails nobody learns, so its content may still be answered.         *)
(* A content is a number greater than those before it, an absence is 0.    *)
(***************************************************************************)
EXTENDS Naturals

CONSTANT Task     \* who reads

VARIABLES
  now,        \* the current content
  file,       \* the content that a restart finds
  unsaved,    \* the contents that may still be saved
  removing,   \* is the file about to be erased?
  left,       \* the contents whose erasure failed
  seen,       \* for each reader, what has been current since it began
  answer      \* for each reader, its answer if it has one

vars == <<now, file, unsaved, removing, left, seen, answer>>

Nobody == [t \in Task |-> {}]

Init ==
  /\ now = file
  /\ unsaved = {}
  /\ removing = FALSE
  /\ left = {}
  /\ seen = Nobody
  /\ answer = Nobody

\* Who reads sees what becomes current.
Show(c) == [t \in Task |-> IF seen[t] = {} THEN {} ELSE seen[t] \cup {c}]

Change ==
  /\ now' > file /\ \A c \in unsaved : now' > c
  /\ unsaved' = unsaved \cup {now'}
  /\ seen' = Show(now')
  /\ UNCHANGED <<file, removing, left, answer>>

Save ==
  /\ ~removing
  /\ \E c \in unsaved : file' = c /\ unsaved' = {d \in unsaved : d > c}
  /\ UNCHANGED <<now, removing, left, seen, answer>>

Remove ==
  /\ ~removing
  /\ now' = 0
  /\ unsaved' = {}
  /\ removing' = TRUE
  /\ seen' = Show(0)
  /\ UNCHANGED <<file, left, answer>>

Erase ==
  /\ removing
  /\ file' = 0
  /\ removing' = FALSE
  /\ UNCHANGED <<now, unsaved, left, seen, answer>>

EraseFails ==
  /\ removing
  /\ left' = left \cup {file}
  /\ removing' = FALSE
  /\ UNCHANGED <<now, file, unsaved, seen, answer>>

Begin(t) ==
  /\ seen[t] = {}
  /\ seen' = [seen EXCEPT ![t] = {now}]
  /\ UNCHANGED <<now, file, unsaved, removing, left, answer>>

Answer(t) ==
  /\ seen[t] # {}
  /\ \E c \in seen[t] \cup left : answer' = [answer EXCEPT ![t] = {c}]
  /\ seen' = [seen EXCEPT ![t] = {}]
  /\ UNCHANGED <<now, file, unsaved, removing, left>>

AnswerAtOnce(t) ==
  /\ answer' = [answer EXCEPT ![t] = {now}]
  /\ UNCHANGED <<now, file, unsaved, removing, left, seen>>

Crash ==
  /\ now' = file
  /\ unsaved' = {}
  /\ removing' = FALSE
  /\ seen' = Nobody
  /\ answer' = Nobody
  /\ UNCHANGED <<file, left>>

Next ==
  \/ Change \/ Save \/ Remove \/ Erase \/ EraseFails \/ Crash
  \/ \E t \in Task : Begin(t) \/ Answer(t) \/ AnswerAtOnce(t)

Spec == Init /\ [][Next]_vars
=============================================================================
