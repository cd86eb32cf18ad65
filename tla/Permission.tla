----------------------------- MODULE Permission -----------------------------
(***************************************************************************)
(* Permission requests, packages/emberharmony/src/permission/next.ts: the  *)
(* rules and what the user approved since, the requests that wait for the  *)
(* user, and how each was settled.                                         *)
(*                                                                         *)
(* Patterns are concrete; a rule or an approval stands for the patterns it *)
(* matches, so wildcards do not appear.  The module has no process of its  *)
(* own: its operators are the calls that module Turn makes.                *)
(***************************************************************************)
EXTENDS Naturals, Sequences

CONSTANTS
  Request,      \* the requests, each asked at most once
  Pattern

VARIABLES
  info,         \* of each request: its session, its patterns and what "always" would approve
  rules,        \* the ruleset: what its last matching rule says of a pattern
  approved,     \* state.approved, which all sessions share
  pending,      \* state.pending
  verdict       \* how the promise of each request was settled

TypeOK ==
  /\ rules \in [Pattern -> {"allow", "ask", "deny"}]
  /\ approved \subseteq Pattern
  /\ pending \subseteq {r \in Request : verdict[r] = "none"}
  /\ verdict \in [Request -> {"none", "allowed", "denied", "rejected", "corrected"}]

Init ==
  /\ approved = {}
  /\ pending = {}
  /\ verdict = [r \in Request |-> "none"]

(* evaluate: approvals come last, so they override the ruleset.            *)
Evaluate(p) == IF p \in approved THEN "allow" ELSE rules[p]

Open(r) == {i \in DOMAIN info[r].patterns : Evaluate(info[r].patterns[i]) # "allow"}

Settled(requests, how) ==
  [r \in Request |-> IF r \in requests THEN how ELSE verdict[r]]

(* The first pattern that is not allowed decides.                          *)
Ask(r) ==
  /\ \/ /\ Open(r) = {}
        /\ verdict' = Settled({r}, "allowed")
        /\ UNCHANGED pending
     \/ \E i \in Open(r) :
          /\ \A j \in Open(r) : i <= j
          /\ IF Evaluate(info[r].patterns[i]) = "deny"
             THEN verdict' = Settled({r}, "denied") /\ UNCHANGED pending
             ELSE pending' = pending \cup {r} /\ UNCHANGED verdict
  /\ UNCHANGED <<rules, approved>>

Others(r) == {other \in pending \ {r} : info[other].session = info[r].session}

\* Slip: one approved pattern of another request is enough.
SomeCovered(r) == \E i \in DOMAIN info[r].patterns : info[r].patterns[i] \in approved'

Covered(r) == \A i \in DOMAIN info[r].patterns : info[r].patterns[i] \in approved'

(* A reply settles its request; "always" also the session's others that    *)
(* the approvals alone cover by now, and a rejection all of them.          *)
Once(r) ==
  /\ r \in pending
  /\ pending' = pending \ {r}
  /\ verdict' = Settled({r}, "allowed")
  /\ UNCHANGED <<rules, approved>>

Always(r) ==
  /\ r \in pending
  /\ approved' = approved \cup info[r].always
  /\ LET freed == {r} \cup {other \in Others(r) : Covered(other)}
     IN  pending' = pending \ freed /\ verdict' = Settled(freed, "allowed")
  /\ UNCHANGED rules

(* With a message the asker is corrected; the others are just rejected.    *)
Reject(r) ==
  /\ r \in pending
  /\ pending' = pending \ ({r} \cup Others(r))
  /\ \E how \in {"rejected", "corrected"} :
       verdict' = [Settled(Others(r), "rejected") EXCEPT ![r] = how]
  /\ UNCHANGED <<rules, approved>>
=============================================================================
