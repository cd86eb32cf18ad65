------------------------------ MODULE Question ------------------------------
(***************************************************************************)
(* Questions to the user, packages/emberharmony/src/question/index.ts: a   *)
(* question waits until it is answered or dismissed.                       *)
(***************************************************************************)
CONSTANT Call
VARIABLES questions, answers

TypeOK == questions \subseteq Call /\ answers \in [Call -> {"none", "answered", "rejected"}]

Init == questions = {} /\ answers = [c \in Call |-> "none"]

Ask(c) == questions' = questions \cup {c} /\ UNCHANGED answers

Settle(c, how) ==
  /\ c \in questions
  /\ questions' = questions \ {c}
  /\ answers' = [answers EXCEPT ![c] = how]

Reply(c) == Settle(c, "answered")
Dismiss(c) == Settle(c, "rejected")
=============================================================================
