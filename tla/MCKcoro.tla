------------------------------ MODULE MCKcoro ------------------------------
(* The four mechanisms of kcoro in one run.  A behaviour is of one part,    *)
(* the others do not move.                                                 *)
EXTENDS Ring, Executor, Promise, Scope, TLC

CONSTANTS root, child

\* Two nodes: transitions meet on one of them, snapshots walk over both.
MCParent == (root :> NoNode) @@ (child :> root)

VARIABLE part

KcoroInit ==
  /\ Init /\ ExecutorInit /\ PromiseInit /\ ScopeInit
  /\ part \in {"ring", "executor", "promise", "scope"}
  /\ part # "scope" => \A r \in Reader : reader[r].from = root

RingPart     == part = "ring" /\ Next /\ UNCHANGED <<part, executor, promise, scopes>>
ExecutorPart == part = "executor" /\ ExecutorNext /\ UNCHANGED <<part, vars, promise, scopes>>
PromisePart  == part = "promise" /\ PromiseNext /\ UNCHANGED <<part, vars, executor, scopes>>
ScopePart    == part = "scope" /\ ScopeNext /\ UNCHANGED <<part, vars, executor, promise>>

KcoroSpec ==
  /\ KcoroInit
  /\ [][RingPart \/ ExecutorPart \/ PromisePart \/ ScopePart]_<<part, vars, executor, promise, scopes>>

(* The inductive invariants of the four: whoever is in the middle of a     *)
(* call finds ring, slots, promise and scopes as its last look left them.  *)
Sound == IInv /\ ExecutorInv /\ PromiseInv /\ ScopeInv

Interchangeable ==
  UNION {Permutations(S) : S \in {Value, Slot, Worker, Waker, Controller}}
=============================================================================
