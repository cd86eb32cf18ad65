------------------------------ MODULE MCKernel ------------------------------
(* The two halves of a pass in one run: part "pass" is the coordinator     *)
(* over the promise of the lane team, part "lanes" is the team against     *)
(* that promise.  A behaviour is of one part; the other does not move.     *)
EXTENDS Coordinator, Team

VARIABLE part

all == <<part, vars, lanes>>

KernelInit == Init /\ TeamInit /\ part \in {"pass", "lanes"}

PassPart  == part = "pass" /\ Next /\ UNCHANGED <<part, lanes>>
LanesPart == part = "lanes" /\ TeamNext /\ UNCHANGED <<part, vars>>

KernelSpec ==
  /\ KernelInit
  /\ [][PassPart \/ LanesPart]_all
  /\ \A p \in Thread \cup {"lanes"} :
       WF_all(part = "pass" /\ ThreadStep(p) /\ UNCHANGED <<part, lanes>>)

(* The inductive invariants of the two.                                    *)
BothSound == PassInv /\ IInv

(* The contract of the lane team is kept on both sides: the threads around *)
(* it order and retire only when they may, the lanes do what they promise. *)
CrewContract == CrewIsKept /\ ImplementsCrew
=============================================================================
