-------------------------------- MODULE Crew --------------------------------
(***************************************************************************)
(* What the lane team of the native engine promises the dispatcher and the *)
(* owner, as one worker: a pass that was ordered is run once, by nobody    *)
(* any more when it is published, and a retired crew goes away.            *)
(***************************************************************************)
EXTENDS Naturals

VARIABLES
  ordered,   \* is a generation stored that no lane has begun?
  retired,   \* is retire set?
  crew,      \* what the lanes do together
  owes       \* has lane 0 published a pass and not yet rung the doorbell?

vars == <<ordered, retired, crew, owes>>

TypeOK ==
  /\ ordered \in BOOLEAN /\ retired \in BOOLEAN /\ owes \in BOOLEAN
  /\ crew \in {"resting", "running", "publish", "gone"}

Init == ordered = FALSE /\ retired = FALSE /\ crew = "resting" /\ owes = FALSE

Order ==
  /\ crew = "resting" /\ ~ordered /\ ~retired
  /\ ordered' = TRUE
  /\ UNCHANGED <<retired, crew, owes>>

Retire ==
  /\ crew = "resting" /\ ~ordered
  /\ retired' = TRUE
  /\ UNCHANGED <<ordered, crew, owes>>

\* The other lanes may start while lane 0 has yet to ring for the last pass.
Start ==
  /\ crew = "resting" /\ ordered
  /\ crew' = "running"
  /\ ordered' = FALSE
  /\ UNCHANGED <<retired, owes>>

Land ==
  /\ crew = "running" /\ ~owes
  /\ crew' = "publish"
  /\ UNCHANGED <<ordered, retired, owes>>

Publish ==
  /\ crew = "publish"
  /\ crew' = "resting"
  /\ owes' = TRUE
  /\ UNCHANGED <<ordered, retired>>

Ring ==
  /\ owes
  /\ owes' = FALSE
  /\ UNCHANGED <<ordered, retired, crew>>

Go ==
  /\ crew = "resting" /\ retired /\ ~owes
  /\ crew' = "gone"
  /\ UNCHANGED <<ordered, retired, owes>>

Work == Start \/ Land \/ Publish \/ Ring \/ Go

Next == Order \/ Retire \/ Work

Spec == Init /\ [][Next]_vars

(* A crew works on what it was ordered, and goes when it is retired.       *)
Promise == WF_vars(Work)
=============================================================================
