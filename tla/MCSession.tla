----------------------------- MODULE MCSession ------------------------------
(* One session in two parts, of which a behaviour has one: part "loop" is   *)
(* the requests and their runs with all that a loop does, part "undo" the   *)
(* same requests with the undo and redo of the history.                     *)
EXTENDS MCSessionLoop

CONSTANTS Undoer, NoRecord, MaxReverts, MaxMessage

ASSUME NoRecordAssumption == NoRecord \notin [point : Nat, number : Nat]

VARIABLES
  part,
  stored, record, lastId, busy, request, client, summaries, number, returned

R == INSTANCE Revert WITH Prompter <- Request, Nobody <- NoOne, clock <- lastId

undo == <<stored, record, lastId, busy, request, client, summaries, number, returned>>

SessionInit == LoopInit /\ R!RevertInit /\ part \in {"loop", "undo"}

LoopPart == part = "loop" /\ LoopNext /\ UNCHANGED <<part, undo>>
UndoPart == part = "undo" /\ R!RevertNext /\ UNCHANGED <<part, loop>>

SessionSpec == SessionInit /\ [][LoopPart \/ UndoPart]_<<part, loop, undo>>

(* The inductive invariants of both parts, types included: the run entry   *)
(* and its callers, the history and its ids, the undos and who acts on them *)
SessionSound == ControlInv /\ HistoryInv /\ R!RevertInv

(* session/revert.ts cleanup: what a prompt adds after it has seen an undo  *)
(* is not removed for that undo, see module Revert.                         *)
NewMessagesStay == R!NewMessagesStay
=============================================================================
