----------------------------- MODULE MCServer ------------------------------
(* A session (module MCSession, with its two parts) and a record of the    *)
(* store in one run.  A behaviour is of one of them; the other does not    *)
(* move.                                                                   *)
EXTENDS MCSession, Storage

VARIABLE side

all == <<side, part, loop, undo, vars>>

ServerInit ==
  /\ SessionInit /\ Init
  /\ side \in {"session", "store"}
  /\ IF side = "store" THEN part = "loop" ELSE disk = 0

SessionSide == side = "session" /\ (LoopPart \/ UndoPart) /\ UNCHANGED <<side, vars>>
StoreSide   == side = "store" /\ Next /\ UNCHANGED <<side, part, loop, undo>>

ServerSpec == ServerInit /\ [][SessionSide \/ StoreSide]_all

(* Requests and calls of the store are interchangeable; there is no        *)
(* liveness property here.                                                 *)
CallersAreAlike == Permutations(Request) \cup Permutations(Task)
=============================================================================
