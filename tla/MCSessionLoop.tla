--------------------------- MODULE MCSessionLoop ---------------------------
(* Two requests of one session, each a prompt or a shell command, with a   *)
(* cancel possible at any moment.                                          *)
EXTENDS SessionLoop, TLC

(* Requests are interchangeable; used for invariants only.                 *)
Interchangeable == Permutations(Request)
=============================================================================
