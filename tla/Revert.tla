------------------------------- MODULE Revert -------------------------------
(***************************************************************************)
(* Undo and redo of one session, packages/emberharmony/src/session/        *)
(* revert.ts, against the requests and runs of prompt.ts.  An undo only    *)
(* records from which message on the history is undone; the next prompt,   *)
(* summary request or shell command removes those messages.  Undos,        *)
(* requests, their runs and the summaries nobody waits for interleave at   *)
(* every await.  Files and snapshots are left out, and so are parts: the   *)
(* removal looks for the part of a partial undo in the message before the  *)
(* point, where it is not, so it removes whole messages in every case.     *)
(***************************************************************************)
EXTENDS Naturals

CONSTANTS
  Prompter,    \* the requests: prompt(), the summarize route or shell()
  Undoer,      \* the clients that undo and redo
  Nobody,      \* no entry in state()[sessionID]
  NoRecord,    \* session.revert is undefined
  MaxReverts,  \* bound on the undos recorded
  MaxMessage   \* bound: past this id the model asks for no more turns

VARIABLES
  stored,    \* the stored messages
  record,    \* session.revert: the first message undone, and its number
  clock,     \* the last message id given
  busy,      \* the request whose run has the session's entry
  request,   \* each request: see NewRequest
  client,    \* each client: where it is, and the history it read
  summaries, \* user messages that an unawaited summary will store again
  number,    \* undos recorded so far
  returned   \* ids of messages that were undone or removed and came back
             \* (both records of the past, not in the code)

history == <<stored, record, clock, busy, request, client, summaries, number, returned>>

\* `since` counts the undos recorded when the request the message belongs to
\* read the session.
Message(id, role, since) == [id |-> id, role |-> role, since |-> since]

NewRequest == [at |-> "new", shell |-> FALSE, since |-> 0, seen |-> NoRecord,
               listed |-> {}, doomed |-> {}, id |-> 0]

Users(M)  == {m \in M : m.role = "user"}
Ids(M)    == {m.id : m \in M}
Newest(M) == CHOOSE m \in M : \A n \in M : n.id <= m.id
Oldest(M) == CHOOSE m \in M : \A n \in M : n.id >= m.id

\* One finished turn.
RevertInit ==
  /\ stored = {Message(1, "user", 0), Message(2, "assistant", 0)}
  /\ record = NoRecord
  /\ clock = 2
  /\ busy = Nobody
  /\ request = [p \in Prompter |-> NewRequest]
  /\ client = [c \in Undoer |-> [at |-> "idle", all |-> {}]]
  /\ summaries = {} /\ number = 0 /\ returned = {}

Undone(rec) == IF rec = NoRecord THEN {} ELSE {i \in Ids(stored) : i >= rec.point}

\* Session.update of session.revert; what is no longer undone has come back.
SetRecord(rec) ==
  /\ record' = rec
  /\ returned' = returned \cup (Undone(record) \ Undone(rec))

\* Session.updateMessage.
Store(m) == stored' = stored \cup {m}
StoreAgain(m) ==
  /\ Store(m)
  /\ returned' = returned \cup ({m.id} \ Ids(stored))

-----------------------------------------------------------------------------
(* Clients: revert and unrevert *)

assertNotBusy == busy = Nobody

Revert(c) ==
  /\ client[c].at = "idle" /\ assertNotBusy /\ number < MaxReverts
  /\ client' = [client EXCEPT ![c].at = "listing"]
  /\ UNCHANGED <<stored, record, clock, busy, request, summaries, number, returned>>

RevertLists(c) ==
  /\ client[c].at = "listing"
  /\ client' = [client EXCEPT ![c] = [at |-> "reading", all |-> stored]]
  /\ UNCHANGED <<stored, record, clock, busy, request, summaries, number, returned>>

\* The whole turn of m is undone, or m from a part on that is not its first.
Point(all, m, kept) ==
  LET before == {u \in Users(all) : u.id <= m.id}
  IN IF kept \/ before = {} THEN m.id ELSE Newest(before).id

Mark(c) ==
  /\ client[c].at = "reading"
  /\ \E m \in client[c].all, kept \in BOOLEAN :
       SetRecord([point |-> Point(client[c].all, m, kept), number |-> number + 1])
  /\ number' = number + 1
  /\ client' = [client EXCEPT ![c] = [at |-> "idle", all |-> {}]]
  /\ UNCHANGED <<stored, clock, busy, request, summaries>>

\* A listed message was removed before it was read: the call fails.
RevertFails(c) ==
  /\ client[c].at = "reading" /\ ~(client[c].all \subseteq stored)
  /\ client' = [client EXCEPT ![c] = [at |-> "idle", all |-> {}]]
  /\ UNCHANGED <<stored, record, clock, busy, request, summaries, number, returned>>

Unrevert(c) ==
  /\ client[c].at = "idle" /\ assertNotBusy
  /\ client' = [client EXCEPT ![c].at = "opening"]
  /\ UNCHANGED <<stored, record, clock, busy, request, summaries, number, returned>>

UnrevertOpens(c) ==
  /\ client[c].at = "opening"
  /\ client' = [client EXCEPT ![c].at = IF record = NoRecord THEN "idle" ELSE "restoring"]
  /\ UNCHANGED <<stored, record, clock, busy, request, summaries, number, returned>>

Restore(c) ==
  /\ client[c].at = "restoring"
  /\ SetRecord(NoRecord)
  /\ client' = [client EXCEPT ![c].at = "idle"]
  /\ UNCHANGED <<stored, clock, busy, request, summaries, number>>

-----------------------------------------------------------------------------
(* Requests: read the session, clean up, store the message *)

At(p, place) == request[p].at = place
Goto(p, place) == request' = [request EXCEPT ![p].at = place]

Prompt(p) ==
  /\ At(p, "new") /\ Goto(p, "opening")
  /\ UNCHANGED <<stored, record, clock, busy, client, summaries, number, returned>>

Shell(p) ==
  /\ At(p, "new") /\ busy = Nobody
  /\ busy' = p
  /\ request' = [request EXCEPT ![p].at = "opening", ![p].shell = TRUE]
  /\ UNCHANGED <<stored, record, clock, client, summaries, number, returned>>

Open(p) ==
  /\ At(p, "opening")
  /\ request' = [request EXCEPT ![p].since = number, ![p].seen = record,
                   ![p].at = IF record = NoRecord THEN "composing" ELSE "listing"]
  /\ UNCHANGED <<stored, record, clock, busy, client, summaries, number, returned>>

\* Slip: everything from the point on, whether or not the point is there.
DoomedByOrder(point) == {m \in stored : m.id >= point}

\* splitWhen: the message of the point and what follows, if it is there.
Doomed(point) ==
  IF point \in Ids(stored) THEN {m \in stored : m.id >= point} ELSE {}

List(p) ==
  /\ At(p, "listing")
  /\ request' = [request EXCEPT ![p].at = "reading", ![p].listed = stored,
                                ![p].doomed = Doomed(request[p].seen.point)]
  /\ UNCHANGED <<stored, record, clock, busy, client, summaries, number, returned>>

\* A request fails, is served, or leaves its message to the run that is on.  A
\* shell command and a run defer a cancel, which drops whoever's entry there is.
Leave(p, deferred) ==
  /\ request' = [request EXCEPT ![p] = [NewRequest EXCEPT !.at = "done"]]
  /\ busy' = IF deferred THEN Nobody ELSE busy

\* A listed message was removed before it was read.
ListFails(p) ==
  /\ At(p, "reading") /\ ~(request[p].listed \subseteq stored)
  /\ Leave(p, request[p].shell)
  /\ UNCHANGED <<stored, record, clock, client, summaries, number, returned>>

Removing(p) == request[p].at \in {"reading", "removing"}

Remove(p) ==
  /\ Removing(p) /\ request[p].doomed # {}
  /\ LET m == Oldest(request[p].doomed)
     IN /\ stored' = stored \ {m}
        /\ request' = [request EXCEPT ![p].doomed = @ \ {m}, ![p].at = "removing",
                                      ![p].listed = {}]
  /\ UNCHANGED <<record, clock, busy, client, summaries, number, returned>>

Forget(p) ==
  /\ Removing(p) /\ request[p].doomed = {}
  /\ SetRecord(NoRecord)
  /\ request' = [request EXCEPT ![p].at = "composing", ![p].listed = {},
                                ![p].seen = NoRecord]
  /\ UNCHANGED <<stored, clock, busy, client, summaries, number>>

Compose(p) ==
  /\ At(p, "composing")
  /\ clock' = clock + 1
  /\ request' = [request EXCEPT ![p].at = "storing", ![p].id = clock + 1]
  /\ UNCHANGED <<stored, record, busy, client, summaries, number, returned>>

StoreMessage(p) ==
  /\ At(p, "storing")
  /\ Store(Message(request[p].id, "user", request[p].since))
  /\ Goto(p, IF request[p].shell THEN "asking" ELSE "stored")
  /\ UNCHANGED <<record, clock, busy, client, summaries, number, returned>>

-----------------------------------------------------------------------------
(* Runs *)

Start(p) ==
  /\ At(p, "stored") /\ busy = Nobody
  /\ busy' = p /\ Goto(p, "top")
  /\ UNCHANGED <<stored, record, clock, client, summaries, number, returned>>

\* The run that is on takes the message, or the prompt wanted no reply.
Stay(p) ==
  /\ At(p, "stored")
  /\ Leave(p, FALSE)
  /\ UNCHANGED <<stored, record, clock, client, summaries, number, returned>>

Cancel ==
  /\ busy # Nobody
  /\ busy' = Nobody
  /\ UNCHANGED <<stored, record, clock, request, client, summaries, number, returned>>

Replied == /\ stored \ Users(stored) # {}
           /\ Newest(stored).role = "assistant"

\* The top of the loop.  It ends when the run was cancelled, when the newest
\* message is a reply, and when every user message was removed under it ("This
\* should never happen."); a reply that called tools is followed by another.
Ask(p) ==
  /\ At(p, "top") /\ busy = p /\ Users(stored) # {} /\ clock < MaxMessage
  /\ Goto(p, "asking")
  /\ UNCHANGED <<stored, record, clock, busy, client, summaries, number, returned>>

Return(p) ==
  /\ At(p, "top")
  /\ busy # p \/ Users(stored) = {} \/ Replied
  /\ Leave(p, TRUE)
  /\ UNCHANGED <<stored, record, clock, client, summaries, number, returned>>

\* A turn starts a summary of the newest user message and does not wait for it.
Reply(p) ==
  /\ At(p, "asking")
  /\ clock' = clock + 1
  /\ Store(Message(clock + 1, "assistant", request[p].since))
  /\ request' = [request EXCEPT ![p].at = "streaming", ![p].id = clock + 1]
  /\ summaries' = IF request[p].shell \/ Users(stored) = {} THEN summaries
                  ELSE summaries \cup {Newest(Users(stored))}
  /\ UNCHANGED <<record, busy, client, number, returned>>

\* The processor stores the reply once more when the stream has ended; after an
\* error, and after a shell command, that is all.
StreamEnds(p) ==
  /\ At(p, "streaming")
  /\ StoreAgain(Message(request[p].id, "assistant", request[p].since))
  /\ \/ ~request[p].shell /\ Goto(p, "top") /\ UNCHANGED busy
     \/ Leave(p, TRUE)
  /\ UNCHANGED <<record, clock, client, summaries, number>>

\* Each turn stores it again with the diffs, and once more with a title.
SummaryLands ==
  /\ \E m \in summaries : StoreAgain(m)
  /\ UNCHANGED <<record, clock, busy, request, client, summaries, number>>

-----------------------------------------------------------------------------

RequestNext(p) ==
  \/ Prompt(p) \/ Shell(p) \/ Open(p)
  \/ List(p) \/ ListFails(p) \/ Remove(p) \/ Forget(p)
  \/ Compose(p) \/ StoreMessage(p)
  \/ Start(p) \/ Stay(p) \/ Ask(p) \/ Return(p) \/ Reply(p) \/ StreamEnds(p)

ClientNext(c) ==
  \/ Revert(c) \/ RevertLists(c) \/ Mark(c) \/ RevertFails(c)
  \/ Unrevert(c) \/ UnrevertOpens(c) \/ Restore(c)

RevertNext ==
  \/ \E p \in Prompter : RequestNext(p)
  \/ \E c \in Undoer : ClientNext(c)
  \/ Cancel \/ SummaryLands

Messages == [id : 1..clock, role : {"user", "assistant"}, since : 0..number]
Records  == {NoRecord} \cup [point : 1..clock, number : 1..number]

Requests ==
  [at : {"new", "opening", "listing", "reading", "removing", "composing", "storing", "stored",
         "top", "asking", "streaming", "done"},
   shell : BOOLEAN, since : 0..number, seen : Records, listed : SUBSET Messages,
   doomed : SUBSET Messages, id : 0..clock]
Clients ==
  [at : {"idle", "listing", "reading", "opening", "restoring"}, all : SUBSET Messages]

RevertTypeOK ==
  /\ clock \in Nat /\ number \in Nat
  /\ stored \subseteq Messages /\ summaries \subseteq Messages
  /\ record \in Records
  /\ busy \in Prompter \cup {Nobody}
  /\ request \in [Prompter -> Requests]
  /\ client \in [Undoer -> Clients]
  /\ returned \subseteq 1..clock

(* The undos that somebody may still act on.                               *)
Undos == ({record} \cup {request[p].seen : p \in Prompter}) \ {NoRecord}

(* A request removes only for an undo that it has seen; who is about to    *)
(* store a message has an id for it.                                       *)
CleansUp(p) == request[p].at \in {"listing", "reading", "removing"}

PlacesInv ==
  \A p \in Prompter :
    /\ CleansUp(p) => request[p].seen # NoRecord
    /\ request[p].doomed # {} => Removing(p)
    /\ At(p, "storing") \/ At(p, "streaming") => request[p].id > 0

(* The id of a message that is yet to be stored is in nobody's hands, so   *)
(* that an undone message comes back only as one that was stored before.   *)
Known ==
  Ids(stored) \cup Ids(summaries)
    \cup {u.point : u \in Undos}
    \cup {request[p].id : p \in {q \in Prompter : At(q, "streaming")}}
    \cup (UNION {Ids(client[c].all) : c \in Undoer})

NewIdsAreNew ==
  \A p \in Prompter : At(p, "storing") =>
    /\ request[p].id \notin Known
    /\ \A q \in Prompter \ {p} : At(q, "storing") => request[q].id # request[p].id

(* The point of an undo is gone when it is removed, or has come back.      *)
(* While it is neither the session's record still covers it.               *)
Gone(u) == u.point \notin Ids(stored) \/ u.point \in returned

UndoneOrGone ==
  \A u \in Undos : Gone(u) \/ (record # NoRecord /\ record.point <= u.point)

(* A request that has seen an undo, or a later one, writes when the undo's *)
(* point is gone, and so does whoever stores its messages again.           *)
Writing(p) == request[p].at \in {"composing", "storing", "stored", "top", "asking", "streaming"}

WrittenAfter ==
  \A u \in Undos :
    /\ \A m \in stored \cup summaries : m.since >= u.number => Gone(u)
    /\ \A p \in Prompter : Writing(p) /\ request[p].since >= u.number => Gone(u)

(* session/revert.ts cleanup: what a prompt adds after it has seen an undo *)
(* is never removed for that undo, however many requests saw it too and    *)
(* clean up at the same time; unless the point came back meanwhile, by a   *)
(* redo or because a run or a summary stored a removed message again.      *)
NewMessagesStay ==
  \A p \in Prompter : \A m \in request[p].doomed :
    request[p].seen.point \in returned \/ m.since < request[p].seen.number

(* The inductive invariant.                                                *)
RevertInv ==
  /\ RevertTypeOK /\ PlacesInv /\ NewIdsAreNew
  /\ UndoneOrGone /\ WrittenAfter /\ NewMessagesStay
=============================================================================
