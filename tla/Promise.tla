------------------------------ MODULE Promise -------------------------------
(***************************************************************************)
(* The promise of crates/kcoro/src/promise.rs: any number of resolvers,    *)
(* threads that block in wait, and a future that is polled, over a state   *)
(* word, a cell for the value, a waker slot behind a mutex, and a mutex    *)
(* with a condition variable.                                              *)
(*                                                                         *)
(* A step is one atomic operation, one access to the cell or one look at   *)
(* the waker slot.  A resolver's value is the resolver itself.  A poll     *)
(* borrows the promise exclusively: nobody is in wait beside it.           *)
(***************************************************************************)
EXTENDS Naturals

CONSTANTS
  Resolver,   \* the clones of the resolver
  Asker,      \* the threads that call wait
  Watcher,    \* the wakers that polls are given
  Nothing     \* no thread, no waker, a cell that was never written

ASSUME NothingAssumption ==
  Nothing \notin Resolver \cup Asker \cup Watcher /\ Resolver \cap Asker = {}

VARIABLES
  stage,       \* inner.state
  answer,      \* inner.value
  registered,  \* inner.waker
  slotHeld,    \* is the mutex of inner.waker held by a poll?
  waitHeld,    \* who holds inner.wait
  resolver,    \* where each resolver is
  taken,       \* the waker that the winner took
  asker,       \* what each thread in wait does
  poller,      \* what the future does, and the waker of its last poll
  told         \* the wakers invoked since the last poll began

promise == <<stage, answer, registered, slotHeld, waitHeld, resolver, taken, asker, poller, told>>

ResolverPlaces == {"idle", "lost", "locking", "writing", "publishing", "taking", "notifying",
                   "waking", "won"}
AskerPlaces == {"idle", "calling", "looking", "checked", "asleep", "answered"}
PollerPlaces == {"idle", "locking", "rechecking", "pending", "answered"}

PromiseTypeOK ==
  /\ stage \in {"pending", "writing", "ready"}
  /\ answer \in Resolver \cup {Nothing}
  /\ registered \in Watcher \cup {Nothing} /\ taken \in Watcher \cup {Nothing}
  /\ slotHeld \in BOOLEAN
  /\ waitHeld \in Resolver \cup Asker \cup {Nothing}
  /\ resolver \in [Resolver -> ResolverPlaces]
  /\ asker \in [Asker -> [at : AskerPlaces, got : Resolver \cup {Nothing}]]
  /\ poller \in [at : PollerPlaces, got : Resolver \cup {Nothing}, waker : Watcher \cup {Nothing}]
  /\ told \in SUBSET Watcher

PromiseInit ==
  /\ stage = "pending" /\ answer = Nothing
  /\ registered = Nothing /\ taken = Nothing
  /\ slotHeld = FALSE /\ waitHeld = Nothing
  /\ resolver = [r \in Resolver |-> "idle"]
  /\ asker = [a \in Asker |-> [at |-> "idle", got |-> Nothing]]
  /\ poller = [at |-> "idle", got |-> Nothing, waker |-> Nothing]
  /\ told = {}

-----------------------------------------------------------------------------
(* Resolver::try_resolve *)

Move(r, from, to) == resolver[r] = from /\ resolver' = [resolver EXCEPT ![r] = to]

\* Slip: a claim that is not the first one succeeds until the value is there.
ResolveTwice(r) ==
  /\ resolver[r] = "idle"
  /\ IF stage # "ready"
     THEN resolver' = [resolver EXCEPT ![r] = "locking"] /\ stage' = "writing"
     ELSE resolver' = [resolver EXCEPT ![r] = "lost"] /\ UNCHANGED stage
  /\ UNCHANGED <<answer, registered, slotHeld, waitHeld, taken, asker, poller, told>>

(* The first to change PENDING into WRITING wins.                          *)
Resolve(r) ==
  /\ \/ stage = "pending" /\ Move(r, "idle", "locking") /\ stage' = "writing"
     \/ stage # "pending" /\ Move(r, "idle", "lost") /\ UNCHANGED stage
  /\ UNCHANGED <<answer, registered, slotHeld, waitHeld, taken, asker, poller, told>>

\* Slip: the mutex of the threads in wait is not taken.
ResolveUnlocked(r) ==
  /\ Move(r, "locking", "writing")
  /\ UNCHANGED <<stage, answer, registered, slotHeld, waitHeld, taken, asker, poller, told>>

ResolveLock(r) ==
  /\ Move(r, "locking", "writing")
  /\ waitHeld = Nothing /\ waitHeld' = r
  /\ UNCHANGED <<stage, answer, registered, slotHeld, taken, asker, poller, told>>

ResolveWrite(r) ==
  /\ Move(r, "writing", "publishing")
  /\ answer' = r
  /\ UNCHANGED <<stage, registered, slotHeld, waitHeld, taken, asker, poller, told>>

ResolvePublish(r) ==
  /\ Move(r, "publishing", "taking")
  /\ stage' = "ready"
  /\ UNCHANGED <<answer, registered, slotHeld, waitHeld, taken, asker, poller, told>>

ResolveTake(r) ==
  /\ Move(r, "taking", "notifying")
  /\ ~slotHeld
  /\ taken' = registered /\ registered' = Nothing
  /\ UNCHANGED <<stage, answer, slotHeld, waitHeld, asker, poller, told>>

(* notify_all; then the mutex is released.                                 *)
ResolveNotify(r) ==
  /\ Move(r, "notifying", "waking")
  /\ asker' = [a \in Asker |-> IF asker[a].at = "asleep" THEN [asker[a] EXCEPT !.at = "calling"]
                               ELSE asker[a]]
  /\ waitHeld' = Nothing
  /\ UNCHANGED <<stage, answer, registered, slotHeld, taken, poller, told>>

ResolveWake(r) ==
  /\ Move(r, "waking", "won")
  /\ told' = IF taken = Nothing THEN told ELSE told \cup {taken}
  /\ UNCHANGED <<stage, answer, registered, slotHeld, waitHeld, taken, asker, poller>>

-----------------------------------------------------------------------------
(* Promise::wait *)

Polling == poller.at \in {"locking", "rechecking"}

Ask(a) ==
  /\ asker[a].at = "idle" /\ ~Polling
  /\ asker' = [asker EXCEPT ![a].at = "calling"]
  /\ UNCHANGED <<stage, answer, registered, slotHeld, waitHeld, resolver, taken, poller, told>>

AskLock(a) ==
  /\ asker[a].at = "calling"
  /\ waitHeld = Nothing /\ waitHeld' = a
  /\ asker' = [asker EXCEPT ![a].at = "looking"]
  /\ UNCHANGED <<stage, answer, registered, slotHeld, resolver, taken, poller, told>>

AskLook(a) ==
  /\ asker[a].at = "looking"
  /\ \/ /\ stage = "ready"
        /\ asker' = [asker EXCEPT ![a] = [at |-> "answered", got |-> answer]]
        /\ waitHeld' = Nothing
     \/ /\ stage # "ready"
        /\ asker' = [asker EXCEPT ![a].at = "checked"]
        /\ UNCHANGED waitHeld
  /\ UNCHANGED <<stage, answer, registered, slotHeld, resolver, taken, poller, told>>

(* ready.wait releases the mutex and sleeps.                               *)
AskSleep(a) ==
  /\ asker[a].at = "checked"
  /\ asker' = [asker EXCEPT ![a].at = "asleep"]
  /\ waitHeld' = Nothing
  /\ UNCHANGED <<stage, answer, registered, slotHeld, resolver, taken, poller, told>>

(* A condition variable may wake a thread for no reason.                   *)
AskStirs(a) ==
  /\ asker[a].at = "asleep"
  /\ asker' = [asker EXCEPT ![a].at = "calling"]
  /\ UNCHANGED <<stage, answer, registered, slotHeld, waitHeld, resolver, taken, poller, told>>

-----------------------------------------------------------------------------
(* Promise::poll *)

Answered(k) == poller' = [at |-> "answered", got |-> answer, waker |-> k]

(* A poll, with whichever waker, and its first look at the state.          *)
Poll(k) ==
  /\ poller.at \in {"idle", "pending"}
  /\ \A a \in Asker : asker[a].at \in {"idle", "answered"}
  /\ IF stage = "ready" THEN Answered(k)
     ELSE poller' = [at |-> "locking", got |-> Nothing, waker |-> k]
  /\ told' = {}
  /\ UNCHANGED <<stage, answer, registered, slotHeld, waitHeld, resolver, taken, asker>>

PollLock ==
  /\ poller.at = "locking"
  /\ poller' = [poller EXCEPT !.at = "rechecking"]
  /\ slotHeld' = TRUE
  /\ UNCHANGED <<stage, answer, registered, waitHeld, resolver, taken, asker, told>>

\* Slip: the waker is registered without a second look at the state.
PollRegisterBlindly ==
  /\ poller.at = "rechecking"
  /\ registered' = poller.waker
  /\ poller' = [poller EXCEPT !.at = "pending"]
  /\ slotHeld' = FALSE
  /\ UNCHANGED <<stage, answer, waitHeld, resolver, taken, asker, told>>

(* The second look, and the registration, under the slot's mutex.          *)
PollRecheck ==
  /\ poller.at = "rechecking"
  /\ IF stage = "ready" THEN Answered(poller.waker) /\ UNCHANGED registered
     ELSE poller' = [poller EXCEPT !.at = "pending"] /\ registered' = poller.waker
  /\ slotHeld' = FALSE
  /\ UNCHANGED <<stage, answer, waitHeld, resolver, taken, asker, told>>

-----------------------------------------------------------------------------
ResolverStep(r) ==
  \/ Resolve(r) \/ ResolveLock(r) \/ ResolveWrite(r) \/ ResolvePublish(r)
  \/ ResolveTake(r) \/ ResolveNotify(r) \/ ResolveWake(r)
AskerStep(a) == Ask(a) \/ AskLock(a) \/ AskLook(a) \/ AskSleep(a) \/ AskStirs(a)

PromiseNext ==
  \/ \E r \in Resolver : ResolverStep(r)
  \/ \E a \in Asker : AskerStep(a)
  \/ \E k \in Watcher : Poll(k)
  \/ PollLock \/ PollRecheck

PromiseSpec == PromiseInit /\ [][PromiseNext]_promise

-----------------------------------------------------------------------------
Winning == {"locking", "writing", "publishing", "taking", "notifying", "waking", "won"}

(* "exact-once promise arbitration": at most one try_resolve succeeds, and *)
(* whoever has an answer, in wait or from a poll, has that one's value,    *)
(* never a cell that was not written yet.                                  *)
Answers == {asker[a].got : a \in {x \in Asker : asker[x].at = "answered"}}
             \cup {got \in {poller.got} : poller.at = "answered"}
AnsweredOnce ==
  /\ \A r, s \in Resolver : resolver[r] \in Winning /\ resolver[s] \in Winning => r = s
  /\ \A v \in Answers : v \in Resolver /\ resolver[v] \in Winning

(* "lost-wake-safe promise": when the winner's call has returned nobody    *)
(* sleeps in wait, and the waker that the last pending poll registered has *)
(* been invoked, though the poll may have begun before the value was there.*)
NobodyIsLeft ==
  (\E r \in Resolver : resolver[r] = "won") =>
    /\ \A a \in Asker : asker[a].at # "asleep"
    /\ poller.at = "pending" => poller.waker \in told

-----------------------------------------------------------------------------
(* The inductive strengthening.  How far the winner is, the state says.    *)
ClaimInv ==
  /\ \A r, s \in Resolver : resolver[r] \in Winning /\ resolver[s] \in Winning => r = s
  /\ \A r \in Resolver :
       /\ resolver[r] \in Winning => stage # "pending"
       /\ resolver[r] \in {"locking", "writing", "publishing"} => stage = "writing"
       /\ resolver[r] \in {"taking", "notifying", "waking", "won"} => stage = "ready"
       /\ resolver[r] \in {"publishing", "taking", "notifying", "waking", "won"} => answer = r
  /\ stage = "ready" => answer \in Resolver /\ resolver[answer] \in Winning

HeldInv ==
  /\ \A r \in Resolver :
       resolver[r] \in {"writing", "publishing", "taking", "notifying"} => waitHeld = r
  /\ \A a \in Asker : asker[a].at \in {"looking", "checked"} => waitHeld = a
  /\ slotHeld => poller.at = "rechecking"

\* Who is about to sleep, or sleeps, has not missed the value, or will be told.
SleepInv ==
  \A a \in Asker :
    /\ asker[a].at = "checked" => stage # "ready"
    /\ asker[a].at = "asleep" =>
         stage # "ready" \/ \E r \in Resolver : resolver[r] \in {"taking", "notifying"}

WatchInv ==
  /\ poller.at \in {"locking", "rechecking", "pending"} => poller.waker \in Watcher
  /\ poller.at = "pending" =>
       \/ poller.waker \in told
       \/ /\ registered = poller.waker
          /\ stage # "ready" \/ \E r \in Resolver : resolver[r] = "taking"
       \/ /\ taken = poller.waker
          /\ \E r \in Resolver : resolver[r] \in {"notifying", "waking"}

GotInv ==
  /\ \A a \in Asker : asker[a].at = "answered" => stage = "ready" /\ asker[a].got = answer
  /\ poller.at = "answered" => stage = "ready" /\ poller.got = answer

PromiseInv == PromiseTypeOK /\ ClaimInv /\ HeldInv /\ SleepInv /\ WatchInv /\ GotInv

=============================================================================
