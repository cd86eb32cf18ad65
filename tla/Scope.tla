------------------------------- MODULE Scope --------------------------------
(***************************************************************************)
(* The scopes of crates/kcoro/src/scope.rs: a tree of nodes, each with a   *)
(* word of a mode and the epoch of its last transition, and one sequence   *)
(* that all of them draw epochs from.  A snapshot walks from its node to   *)
(* the root while transitions go on.                                       *)
(*                                                                         *)
(* A step is one atomic operation.  The tree is any tree, there from the   *)
(* start: a child's word before its first transition is that of a child    *)
(* nobody holds yet.  Epochs have 62 bits and do not wrap here.            *)
(***************************************************************************)
EXTENDS Naturals

CONSTANTS
  Node,        \* the nodes of one domain
  Parent,      \* the parent of each node, or NoNode
  NoNode,
  Controller,  \* the threads that pause, resume and cancel
  Reader,      \* the threads that take snapshots
  MaxEpoch     \* bound: epochs drawn in a behaviour

ASSUME TreeAssumption == NoNode \notin Node /\ Parent \in [Node -> Node \cup {NoNode}]
ASSUME EpochAssumption == MaxEpoch \in Nat \ {0}

VARIABLES
  sequence,    \* domain.sequence
  word,        \* node.word of each node
  controller,  \* where each transition is, with what it holds
  reader       \* where each snapshot is, and the last one (a record of the past)

scopes == <<sequence, word, controller, reader>>

Modes == {"running", "paused", "canceled"}
Word == [epoch : 0..MaxEpoch, mode : Modes]

ControllerState == [at : {"idle", "deciding", "swapping"}, node : Node \cup {NoNode},
                    mode : Modes, seen : Word, epoch : 0..MaxEpoch]
ReaderState == [at : {"idle", "walking"}, from : Node, node : Node, epoch : 0..MaxEpoch,
                control : Modes, last : Word]
Blank   == [epoch |-> 0, mode |-> "running"]
Resting == [at |-> "idle", node |-> NoNode, mode |-> "running", seen |-> Blank, epoch |-> 0]

ScopeTypeOK ==
  /\ sequence \in 1..MaxEpoch
  /\ word \in [Node -> Word]
  /\ controller \in [Controller -> ControllerState]
  /\ reader \in [Reader -> ReaderState]

New(n) == [epoch |-> IF Parent[n] = NoNode THEN 1 ELSE 0, mode |-> "running"]

\* A reader takes its snapshots of one node; it has taken none yet.
ScopeInit ==
  /\ sequence = 1
  /\ word = [n \in Node |-> New(n)]
  /\ controller = [c \in Controller |-> Resting]
  /\ \E home \in [Reader -> Node] : reader = [r \in Reader |->
       [at |-> "idle", from |-> home[r], node |-> home[r], epoch |-> 0, control |-> "running",
        last |-> Blank]]

-----------------------------------------------------------------------------
(* Scope::transition *)

\* The word is looked at, and what to do about it is next.
Deciding(n, mode) ==
  [at |-> "deciding", node |-> n, mode |-> mode, seen |-> word[n], epoch |-> 0]

Transition(c, n, mode) ==
  /\ controller[c].at = "idle"
  /\ controller' = [controller EXCEPT ![c] = Deciding(n, mode)]
  /\ UNCHANGED <<sequence, word, reader>>

(* Nothing leads out of CANCELED, and a mode that is there already is no   *)
(* transition; otherwise an epoch is drawn.                                *)
Draw(c) ==
  LET seen == controller[c].seen IN
  /\ controller[c].at = "deciding"
  /\ \/ /\ seen.mode \in {"canceled", controller[c].mode}
        /\ controller' = [controller EXCEPT ![c] = Resting]
        /\ UNCHANGED sequence
     \/ /\ seen.mode \notin {"canceled", controller[c].mode}
        /\ sequence < MaxEpoch
        /\ sequence' = sequence + 1
        /\ controller' = [controller EXCEPT ![c].at = "swapping", ![c].epoch = sequence + 1]
  /\ UNCHANGED <<word, reader>>

Installed(c) == [epoch |-> controller[c].epoch, mode |-> controller[c].mode]

\* Slip: the word is stored, whatever it has become.
Overwrite(c) ==
  /\ controller[c].at = "swapping"
  /\ word' = [word EXCEPT ![controller[c].node] = Installed(c)]
  /\ controller' = [controller EXCEPT ![c] = Resting]
  /\ UNCHANGED <<sequence, reader>>

(* The exchange; when it fails the word it met is decided upon anew.       *)
Swap(c) ==
  LET n == controller[c].node IN
  /\ controller[c].at = "swapping"
  /\ \/ /\ word[n] = controller[c].seen
        /\ word' = [word EXCEPT ![n] = Installed(c)]
        /\ controller' = [controller EXCEPT ![c] = Resting]
     \/ /\ word[n] # controller[c].seen
        /\ controller' = [controller EXCEPT ![c] = Deciding(n, controller[c].mode)]
        /\ UNCHANGED word
  /\ UNCHANGED <<sequence, reader>>

-----------------------------------------------------------------------------
(* Scope::snapshot *)

Stronger(one, other) ==
  IF "canceled" \in {one, other} THEN "canceled"
  ELSE IF "paused" \in {one, other} THEN "paused" ELSE "running"

Later(one, other) == IF one >= other THEN one ELSE other

Snapshot(r) ==
  /\ reader[r].at = "idle"
  /\ reader' = [reader EXCEPT ![r].at = "walking"]
  /\ UNCHANGED <<sequence, word, controller>>

(* One node's word, and on to its parent; at the root the snapshot is done.*)
Visit(r) ==
  LET n == reader[r].node
      epoch == Later(reader[r].epoch, word[n].epoch)
      control == Stronger(reader[r].control, word[n].mode)
  IN
  /\ reader[r].at = "walking"
  /\ \/ /\ Parent[n] # NoNode
        /\ reader' = [reader EXCEPT ![r].node = Parent[n], ![r].epoch = epoch,
                                    ![r].control = control]
     \/ /\ Parent[n] = NoNode
        /\ reader' = [reader EXCEPT ![r] = [at |-> "idle", from |-> @.from, node |-> @.from,
                                            epoch |-> 0, control |-> "running",
                                            last |-> [epoch |-> epoch, mode |-> control]]]
  /\ UNCHANGED <<sequence, word, controller>>

-----------------------------------------------------------------------------
ScopeNext ==
  \/ \E c \in Controller : \/ \E n \in Node, mode \in Modes : Transition(c, n, mode)
                           \/ Draw(c) \/ Swap(c)
  \/ \E r \in Reader : Snapshot(r) \/ Visit(r)

ScopeSpec == ScopeInit /\ [][ScopeNext]_scopes

-----------------------------------------------------------------------------
(* "inherited pause/cancel epochs": snapshots of a node by one thread go   *)
(* forward, though each is put together from words of different times: the *)
(* epoch never falls, and a scope once seen canceled is never seen         *)
(* otherwise, whoever transitions it or its ancestors meanwhile.           *)
SnapshotsAdvance ==
  [][\A r \in Reader :
       /\ reader'[r].last.epoch >= reader[r].last.epoch
       /\ reader[r].last.mode = "canceled" => reader'[r].last.mode = "canceled"]_scopes

-----------------------------------------------------------------------------
(* The inductive strengthening.  Line(n) is n and the nodes above it: what *)
(* every set with n has that goes up with its members.                     *)
Upward(S) == \A m \in S : Parent[m] # NoNode => Parent[m] \in S
Line(n) == {a \in Node : \A S \in SUBSET Node : n \in S /\ Upward(S) => a \in S}

\* An epoch that was drawn is later than the word it is to replace.
DrawnInv ==
  /\ \A n \in Node : word[n].epoch <= sequence
  /\ \A c \in Controller :
       /\ controller[c].at # "idle" => controller[c].node \in Node
       /\ controller[c].seen.epoch <= sequence /\ controller[c].epoch <= sequence
       /\ controller[c].at = "swapping" =>
            /\ controller[c].seen.epoch < controller[c].epoch
            /\ controller[c].seen.mode # "canceled"

\* What was seen is still there, on the part of the line that a walk has before it.
Reaches(n, e)  == \E a \in Line(n) : word[a].epoch >= e
Canceled(n) == \E a \in Line(n) : word[a].mode = "canceled"

SeenInv ==
  \A r \in Reader :
    LET q == reader[r] IN
    /\ Line(q.node) \subseteq Line(q.from)
    /\ Reaches(q.from, q.last.epoch) /\ Reaches(q.from, q.epoch)
    /\ "canceled" \in {q.last.mode, q.control} => Canceled(q.from)
    /\ q.epoch >= q.last.epoch \/ Reaches(q.node, q.last.epoch)
    /\ q.last.mode = "canceled" => q.control = "canceled" \/ Canceled(q.node)

ScopeInv == ScopeTypeOK /\ DrawnInv /\ SeenInv

=============================================================================
