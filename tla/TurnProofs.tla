---------------------------- MODULE TurnProofs -----------------------------
(***************************************************************************)
(* The invariants of module Turn, for any number of sessions, calls and    *)
(* commands.  A step belongs to a session's process, to a stream event, to *)
(* a tool, or to the user and the world; the Frame lemmas say what each    *)
(* leaves alone, so that each part of the invariant is only looked at      *)
(* where it can change.                                                    *)
(***************************************************************************)
EXTENDS Turn, SequenceTheorems, TLAPS

LEMMA RequestsDiffer == \A c \in Call : c \in Request /\ c \notin Session
BY CallsAssumption DEF Request

-----------------------------------------------------------------------------
(* Frames *)
World == OutsideChange \/ \E r \in Request : UserGrants(r) \/ UserRejects(r)

LEMMA ProcessFrame ==
  ASSUME NEW s \in Session, Process(s) \/ Cancel(s)
  PROVE  UNCHANGED <<calls, entry, madeIn, reopened, tools, asking, asked, files>>
BY DEF Process, Begin, Finish, Retry, StreamFails, WakeFromRetry, DoomAnswered, AbortNoticed,
       SweepPart, End, Cancel, Becomes, Fail, Settle, calls, turns, flags, parts, tools, asking,
       asked, files

LEMMA EventFrame ==
  ASSUME NEW c \in Call, Event(c)
  PROVE  UNCHANGED <<calls, reopened, tools, asked, files>>
BY DEF Event, InputStart, ToolCall, ToolResult, ToolError, Resolved, calls, turns, flags, parts,
       tools, asking, asked, files

LEMMA ToolFrame ==
  ASSUME NEW c \in Call, Tool(c)
  PROVE  UNCHANGED <<calls, turns, entry, madeIn, rules, approved, granted>>
BY DEF Tool, Start, Enter, Check, Ask, Go, Refused, Write, Stamp, Run, Metadata, Answered, Exec,
       P!Ask, calls, turns, flags, parts, tools, asking, asked, files

LEMMA WorldFrame ==
  ASSUME World \/ \E c \in Call : UserAnswers(c)
  PROVE  UNCHANGED <<calls, turns, parts, tools, rules, readAt, locks>>
BY DEF World, OutsideChange, UserGrants, UserRejects, UserAnswers, P!Once, P!Always, P!Reject,
       calls, turns, flags, parts, tools, asking, asked, files

-----------------------------------------------------------------------------
(* Types *)
LEMMA TurnsTyped ==
  ASSUME IInv, Next
  PROVE  TurnsOK'
<1> USE DEF IInv, TypeOK, TurnsOK
<1>1. ASSUME NEW s \in Session, Process(s) \/ Cancel(s) PROVE TurnsOK'
  <2>1. CASE Begin(s) \/ WakeFromRetry(s) \/ Cancel(s)
    BY <2>1 DEF Begin, WakeFromRetry, Cancel, Becomes, flags
  <2>2. CASE Retry(s)
    <3>1. attempt[s] \in 0..MaxAttempts /\ attempt[s] < MaxAttempts
      BY <2>2 DEF Retry, MayRetry
    <3> QED
      BY <2>2, <3>1, BoundsAssumption DEF Retry
  <2>3. ASSUME Fail(s) PROVE TurnsOK'
    BY <2>3 DEF Fail, Settle, Calls
  <2>4. CASE StreamFails(s) \/ AbortNoticed(s)
    BY <2>3, <2>4 DEF StreamFails, AbortNoticed
  <2>5. CASE DoomAnswered(s)
    <3>1. CASE verdict[s] = "allowed"
      BY <2>5, <3>1 DEF DoomAnswered, Becomes, flags
    <3>2. CASE verdict[s] # "allowed"
      BY <2>3, <2>5, <3>2 DEF DoomAnswered
    <3> QED
      BY <3>1, <3>2
  <2>6. CASE Finish(s)
    BY <2>6 DEF Finish, Settle, Calls
  <2>7. CASE SweepPart(s)
    BY <2>7 DEF SweepPart, flags
  <2>8. CASE End(s)
    BY <2>8, BoundsAssumption DEF End
  <2> QED
    BY <1>1, <2>1, <2>2, <2>4, <2>5, <2>6, <2>7, <2>8 DEF Process
<1>2. ASSUME NEW c \in Call, Event(c) PROVE TurnsOK'
  <2>1. CASE InputStart(c)
    BY <2>1 DEF InputStart, turns, flags
  <2>2. CASE ToolCall(c)
    <3>1. of[c] \in Session
      BY DEF CallsOK
    <3>2. CASE UNCHANGED turns
      BY <3>2 DEF turns, flags
    <3>3. CASE Becomes(of[c], "doom")
      BY <3>1, <3>3 DEF Becomes, flags
    <3> QED
      BY <2>2, <3>2, <3>3 DEF ToolCall
  <2>3. CASE ToolResult(c)
    BY <2>3 DEF ToolResult, Resolved
  <2>4. CASE ToolError(c)
    <3>1. of[c] \in Session
      BY DEF CallsOK
    <3> QED
      BY <2>4, <3>1 DEF ToolError, Resolved
  <2> QED
    BY <1>2, <2>1, <2>2, <2>3, <2>4 DEF Event
<1>3. ASSUME NEW c \in Call, Tool(c) PROVE TurnsOK'
  BY <1>3, ToolFrame DEF turns, flags
<1>4. CASE World \/ \E c \in Call : UserAnswers(c)
  BY <1>4, WorldFrame DEF turns, flags
<1> QED
  BY <1>1, <1>2, <1>3, <1>4 DEF Next, World

LEMMA PartsTyped ==
  ASSUME IInv, Next
  PROVE  PartsOK'
<1> USE DEF IInv, TypeOK, PartsOK
<1>1. ASSUME NEW s \in Session, Process(s) \/ Cancel(s) PROVE PartsOK'
  <2>1. CASE SweepPart(s)
    BY <2>1, <1>1, ProcessFrame DEF SweepPart
  <2>2. CASE UNCHANGED part
    BY <2>2, <1>1, ProcessFrame
  <2> QED
    BY <1>1, <2>1, <2>2
       DEF Process, Begin, Finish, Retry, StreamFails, WakeFromRetry, DoomAnswered, AbortNoticed,
           End, Cancel, Fail, Settle, parts
<1>2. ASSUME NEW c \in Call, Event(c) PROVE PartsOK'
  <2>1. attempt[of[c]] \in 0..MaxAttempts
    BY DEF CallsOK, TurnsOK
  <2> QED
    BY <1>2, <2>1, EventFrame
       DEF Event, InputStart, ToolCall, ToolResult, ToolError, Resolved
<1>3. ASSUME NEW c \in Call, Tool(c) PROVE PartsOK'
  <2>1. CASE Metadata(c)
    BY <1>3, <2>1, ToolFrame DEF Metadata
  <2>2. CASE ~Metadata(c)
    BY <1>3, <2>2
       DEF Tool, Start, Enter, Check, Ask, Go, Refused, Write, Stamp, Run, Answered, Exec, parts
  <2> QED
    BY <2>1, <2>2
<1>4. CASE World \/ \E c \in Call : UserAnswers(c)
  BY <1>4, WorldFrame DEF parts
<1> QED
  BY <1>1, <1>2, <1>3, <1>4 DEF Next, World

LEMMA ToolsTyped ==
  ASSUME IInv, Next
  PROVE  ToolsOK'
<1> USE DEF IInv, TypeOK, ToolsOK
<1>1. ASSUME NEW c \in Call, Tool(c) PROVE ToolsOK'
  <2>1. CASE Check(c)
    BY <2>1 DEF Check, Exec, F!TypeOK, Places, Over
  <2>2. CASE ~Check(c)
    BY <1>1, <2>2 DEF Tool, Start, Enter, Ask, Go, Refused, Write, Stamp, Run, Metadata, Answered,
                      Exec, Places, Over
  <2> QED
    BY <2>1, <2>2
<1>2. CASE UNCHANGED tools
  BY <1>2 DEF tools
<1> QED
  BY <1>1, <1>2, ProcessFrame, EventFrame, WorldFrame DEF Next, World

\* What a request is about does not change.
LEMMA PatternsAreTyped ==
  ASSUME TypeOK, NEW r \in Request
  PROVE  /\ Patterns(r) \in Seq(Pattern)
         /\ Info[r].patterns = Patterns(r)
         /\ Info[r].always \subseteq Pattern
<1>1. <<"doom">> \in Seq(Pattern) /\ <<"file">> \in Seq(Pattern)
  <2>1. "doom" \in Pattern /\ "file" \in Pattern
    BY DEF Pattern
  <2> QED
    BY <2>1
<1>2. Patterns(r) \in Seq(Pattern)
  <2>1. CASE r \in Session
    BY <1>1, <2>1 DEF Patterns
  <2>2. CASE r \notin Session /\ kind[r] = "bash"
    <3>1. r \in Call
      BY <2>2 DEF Request
    <3>2. command[r] \in Commands
      BY <3>1 DEF TypeOK, CallsOK
    <3> QED
      BY <2>2, <3>2, CommandsAssumption DEF Patterns
  <2>3. CASE r \notin Session /\ kind[r] # "bash"
    BY <1>1, <2>3 DEF Patterns
  <2> QED
    BY <2>1, <2>2, <2>3
<1>3. Info[r].always = ToSet(Patterns(r)) /\ Info[r].patterns = Patterns(r)
  BY DEF Info
<1>4. ToSet(Patterns(r)) \subseteq Pattern
  BY <1>2 DEF ToSet
<1> QED
  BY <1>2, <1>3, <1>4

\* What the call of ask leaves behind.
LEMMA AskTyped ==
  ASSUME P!TypeOK, NEW r \in Request, verdict[r] = "none", r \notin pending, P!Ask(r)
  PROVE  P!TypeOK'
<1>1. CASE \E how \in {"allowed", "denied"} : verdict' = P!Settled({r}, how) /\ pending' = pending
  BY <1>1 DEF P!TypeOK, P!Settled, P!Ask
<1>2. CASE pending' = pending \cup {r} /\ verdict' = verdict
  BY <1>2 DEF P!TypeOK, P!Ask
<1> QED
  BY <1>1, <1>2 DEF P!Ask

LEMMA PermissionTyped ==
  ASSUME IInv, Next
  PROVE  P!TypeOK' /\ (granted \subseteq Request)'
<1> USE DEF IInv, TypeOK
<1>1. CASE UNCHANGED asking
  BY <1>1 DEF asking, P!TypeOK
<1>2. ASSUME NEW c \in Call, ToolCall(c), ~UNCHANGED asking PROVE P!TypeOK' /\ granted' = granted
  <2>1. of[c] \in Request /\ of[c] \in Session /\ phase[of[c]] = "stream"
    BY <1>2 DEF CallsOK, Request, ToolCall, Streams
  <2>2. verdict[of[c]] = "none" /\ P!Ask(of[c]) /\ granted' = granted
    BY <1>2 DEF ToolCall
  <2>3. of[c] \notin pending
    BY <2>1 DEF RequestsInv
  <2> QED
    BY <2>1, <2>2, <2>3, AskTyped
<1>3. ASSUME NEW c \in Call, Ask(c) PROVE P!TypeOK' /\ granted' = granted
  <2>1. exec[c] = "ask" /\ P!Ask(c) /\ granted' = granted
    BY <1>3 DEF Ask, Exec
  <2>2. c \notin pending /\ verdict[c] = "none"
    BY <2>1 DEF RequestsInv
  <2> QED
    BY <2>1, <2>2, AskTyped, RequestsDiffer
<1>4. ASSUME NEW r \in Request, UserGrants(r) PROVE P!TypeOK' /\ (granted \subseteq Request)'
  <2>1. granted' \subseteq Request
    BY <1>4 DEF UserGrants
  <2>2. CASE P!Once(r)
    BY <2>1, <2>2 DEF P!Once, P!TypeOK, P!Settled
  <2>3. CASE P!Always(r)
    BY <2>1, <2>3, PatternsAreTyped DEF P!Always, P!TypeOK, P!Settled
  <2> QED
    BY <1>4, <2>2, <2>3 DEF UserGrants
<1>5. ASSUME NEW r \in Request, UserRejects(r) PROVE P!TypeOK' /\ granted' = granted
  BY <1>5 DEF UserRejects, P!Reject, P!TypeOK, P!Settled
<1>6. \/ UNCHANGED asking
      \/ \E c \in Call : ToolCall(c) \/ Ask(c)
      \/ \E r \in Request : UserGrants(r) \/ UserRejects(r)
  <2>1. ASSUME NEW c \in Call, Event(c), ~ToolCall(c) PROVE UNCHANGED asking
    BY <2>1 DEF Event, InputStart, ToolResult, ToolError, Resolved
  <2>2. ASSUME NEW c \in Call, Tool(c), ~Ask(c) PROVE UNCHANGED asking
    BY <2>2 DEF Tool, Start, Enter, Check, Go, Refused, Write, Stamp, Run, Metadata, Answered
  <2>3. ASSUME NEW c \in Call, UserAnswers(c) PROVE UNCHANGED asking
    BY <2>3 DEF UserAnswers
  <2>4. CASE OutsideChange
    BY <2>4 DEF OutsideChange
  <2> QED
    BY <2>1, <2>2, <2>3, <2>4, ProcessFrame DEF Next
<1> QED
  BY <1>1, <1>2, <1>3, <1>4, <1>5, <1>6

LEMMA QuestionTyped ==
  ASSUME IInv, Next
  PROVE  Q!TypeOK'
<1> USE DEF IInv, TypeOK, Q!TypeOK
<1>1. CASE UNCHANGED asked
  BY <1>1 DEF asked
<1>2. ASSUME NEW c \in Call, Start(c) PROVE Q!TypeOK'
  BY <1>2 DEF Start, Q!Ask, asked
<1>3. ASSUME NEW c \in Call, UserAnswers(c) PROVE Q!TypeOK'
  BY <1>3 DEF UserAnswers, Q!Reply, Q!Dismiss, Q!Settle
<1>4. ASSUME NEW c \in Call, Tool(c), ~Start(c) PROVE UNCHANGED asked
  BY <1>4 DEF Tool, Enter, Check, Ask, Go, Refused, Write, Stamp, Run, Metadata, Answered
<1>5. ASSUME World PROVE UNCHANGED asked
  BY <1>5 DEF World, OutsideChange, UserGrants, UserRejects
<1> QED
  BY <1>1, <1>2, <1>3, <1>4, <1>5, ProcessFrame, EventFrame DEF Next, World

-----------------------------------------------------------------------------
(* The kinds of the tools *)
LEMMA KindsKept ==
  ASSUME IInv, Next
  PROVE  KindsInv'
<1> USE DEF IInv, KindsInv
<1>1. ASSUME NEW c \in Call, Tool(c) PROVE KindsInv'
  <2>1. kind' = kind /\ exec \in [Call -> Places]
    BY <1>1, ToolFrame DEF calls, TypeOK, ToolsOK
  <2>2. CASE Start(c)
    BY <2>1, <2>2 DEF Start, Exec, Locked
  <2>3. CASE Go(c)
    BY <2>1, <2>3 DEF Go, Exec, Over
  <2>4. CASE Enter(c) \/ Check(c) \/ Ask(c) \/ Refused(c) \/ Write(c)
    BY <2>1, <2>4 DEF Enter, Check, Ask, Refused, Write, Exec, Over
  <2>5. CASE Stamp(c) \/ Run(c) \/ Metadata(c) \/ Answered(c)
    BY <2>1, <2>5 DEF Stamp, Run, Metadata, Answered, Exec, Over
  <2> QED
    BY <1>1, <2>2, <2>3, <2>4, <2>5 DEF Tool
<1>2. CASE UNCHANGED <<calls, tools>>
  BY <1>2 DEF calls, tools
<1> QED
  BY <1>1, <1>2, ProcessFrame, EventFrame, WorldFrame DEF Next, World

-----------------------------------------------------------------------------
(* The lock *)

\* A tool that took the lock is the first of its queue.
LEMMA HolderIsFirst ==
  ASSUME IInv, NEW c \in Call, Locked(c),
         exec[c] \in {"check", "ask", "wait", "write", "stamp"}
  PROVE  /\ locks \in Seq(Call) /\ Len(locks) \in Nat /\ Len(locks) >= 1 /\ locks[1] = c
         /\ Tail(locks) \in Seq(Call) /\ Len(Tail(locks)) = Len(locks) - 1
         /\ \A i \in 1..Len(locks) - 1 : Tail(locks)[i] = locks[i + 1]
<1>1. locks \in Seq(Call) /\ Len(locks) >= 1 /\ locks[1] = c
  <2>1. locks \in Seq(Call)
    BY DEF IInv, TypeOK, F!TypeOK
  <2>2. PICK i \in 1..Len(locks) : locks[i] = c
    BY DEF IInv, LockInv
  <2>3. locks[1] = c
    BY DEF IInv, LockInv
  <2> QED
    BY <2>1, <2>2, <2>3
<1> QED
  BY <1>1, HeadTailProperties

LEMMA UnlockTyped ==
  ASSUME IInv, NEW c \in Call, exec[c] \in {"check", "ask", "wait", "write", "stamp"}, Unlock(c)
  PROVE  locks' \in Seq(Call)
BY HolderIsFirst DEF Unlock, F!Release, IInv, TypeOK, F!TypeOK

LEMMA FileTyped ==
  ASSUME IInv, Next
  PROVE  F!TypeOK'
<1> USE DEF IInv, TypeOK, F!TypeOK
<1>1. CASE UNCHANGED files
  BY <1>1 DEF files
<1>2. ASSUME NEW c \in Call, Start(c) PROVE F!TypeOK'
  <2>1. Append(locks, c) \in Seq(Call)
    BY AppendProperties
  <2> QED
    BY <1>2, <2>1 DEF Start, F!Queue
<1>3. ASSUME NEW c \in Call, Check(c) \/ Refused(c) PROVE F!TypeOK'
  <2>1. locks' \in Seq(Call)
    BY <1>3, UnlockTyped DEF Check, Refused, Exec
  <2> QED
    BY <1>3, <2>1 DEF Check, Refused
<1>4. ASSUME NEW c \in Call, Write(c) PROVE F!TypeOK'
  <2>1. kind[c] \in Kinds /\ exec[c] = "write"
    BY <1>4 DEF CallsOK, Write, Exec
  <2>2. kind[c] \in F!Writers
    BY <2>1 DEF KindsInv, Kinds, Over, F!Writers
  <2> QED
    BY <1>4, <2>2 DEF Write, F!Write
<1>5. ASSUME NEW c \in Call, Stamp(c) PROVE F!TypeOK'
  <2>1. locks' \in Seq(Call) /\ file' = file
    BY <1>5, UnlockTyped DEF Stamp, Exec
  <2>2. readAt' \in [Session -> Nat]
    BY <1>5 DEF Stamp, F!Read
  <2> QED
    BY <2>1, <2>2
<1>6. CASE OutsideChange
  BY <1>6 DEF OutsideChange, F!Write, F!Writers
<1>7. ASSUME NEW c \in Call, Tool(c)
      PROVE  UNCHANGED files \/ Start(c) \/ Check(c) \/ Refused(c) \/ Write(c) \/ Stamp(c)
  BY <1>7 DEF Tool, Enter, Ask, Go, Run, Metadata, Answered
<1>8. ASSUME NEW r \in Request, UserGrants(r) \/ UserRejects(r) PROVE UNCHANGED files
  BY <1>8 DEF UserGrants, UserRejects
<1>9. ASSUME NEW c \in Call, UserAnswers(c) PROVE UNCHANGED files
  BY <1>9 DEF UserAnswers
<1> QED
  BY <1>1, <1>2, <1>3, <1>4, <1>5, <1>6, <1>7, <1>8, <1>9, ProcessFrame, EventFrame DEF Next

\* What a release leaves of the queue, and for whom.
LEMMA ReleaseKeeps ==
  ASSUME IInv, NEW c \in Call, exec[c] \in {"check", "wait", "stamp"}, Unlock(c),
         NEW to \in Over \cup {"meta"}, exec' = [exec EXCEPT ![c] = to],
         UNCHANGED <<calls, file>>,
         \A d \in Call : d # c => base'[d] = base[d]
  PROVE  LockInv'
<1> USE DEF IInv, LockInv
<1>1. exec \in [Call -> Places] /\ kind' = kind /\ locks \in Seq(Call)
  BY DEF TypeOK, ToolsOK, calls, F!TypeOK
<1>2. exec'[c] \notin {"lock", "check", "ask", "wait", "write", "stamp"}
      /\ \A d \in Call : d # c => exec'[d] = exec[d]
  BY <1>1 DEF Over
<1>3. CASE ~Locked(c)
  BY <1>1, <1>2, <1>3 DEF Unlock, Locked
<1>4. CASE Locked(c)
  <2>1. /\ Len(locks) \in Nat /\ Len(locks) >= 1 /\ locks[1] = c
        /\ locks' = Tail(locks) /\ Len(locks') = Len(locks) - 1
        /\ \A i \in 1..Len(locks') : locks'[i] = locks[i + 1]
    BY <1>4, HolderIsFirst DEF Unlock, F!Release
  <2>2. \A i \in 1..Len(locks') : i + 1 \in 1..Len(locks) /\ locks'[i] # c
    <3> TAKE i \in 1..Len(locks')
    <3>1. i \in Int /\ i >= 1 /\ i <= Len(locks) - 1
      BY <2>1
    <3>2. i + 1 \in 1..Len(locks) /\ 1 \in 1..Len(locks) /\ i + 1 # 1
      BY <2>1, <3>1
    <3> QED
      BY <2>1, <3>2
  <2>3. \A i, j \in 1..Len(locks') : locks'[i] = locks'[j] => i = j
    <3> TAKE i, j \in 1..Len(locks')
    <3>1. locks'[i] = locks'[j] => i + 1 = j + 1
      BY <2>1, <2>2
    <3> QED
      BY <2>1, <3>1
  <2>4. \A d \in Call :
          (\E i \in 1..Len(locks') : locks'[i] = d) <=> d # c /\ \E i \in 1..Len(locks) : locks[i] = d
    <3> TAKE d \in Call
    <3>1. ASSUME NEW i \in 1..Len(locks'), locks'[i] = d
          PROVE  d # c /\ \E j \in 1..Len(locks) : locks[j] = d
      BY <2>1, <2>2, <3>1
    <3>2. ASSUME d # c, NEW i \in 1..Len(locks), locks[i] = d
          PROVE  \E j \in 1..Len(locks') : locks'[j] = d
      <4>1. i # 1 /\ i - 1 \in 1..Len(locks')
        BY <2>1, <3>2
      <4>2. locks'[i - 1] = locks[(i - 1) + 1]
        BY <2>1, <4>1
      <4> QED
        BY <3>2, <4>1, <4>2
    <3> QED
      BY <3>1, <3>2
  <2>5. \A d \in Call : d # c /\ Locked(d) => exec[d] \notin {"check", "ask", "wait", "write", "stamp"}
    BY <1>4, <2>1
  <2>6. \A d \in Call :
          (\E i \in 1..Len(locks') : locks'[i] = d) <=>
            Locked(d) /\ exec'[d] \in {"lock", "check", "ask", "wait", "write", "stamp"}
    BY <1>2, <2>4
  <2>7. \A d \in Call : Locked(d) => exec'[d] \notin {"check", "ask", "wait", "write", "stamp"}
    BY <1>2, <2>5
  <2>8. \A d \in Call : Locked(d) <=> Locked(d)'
    BY <1>1 DEF Locked
  <2>9. \A d \in Call : kind'[d] = "edit" => Locked(d)
    BY <1>1 DEF Locked
  <2> QED
    BY <2>3, <2>6, <2>7, <2>8, <2>9
<1> QED
  BY <1>3, <1>4

LEMMA LockKept ==
  ASSUME IInv, Next
  PROVE  LockInv'
<1> USE DEF IInv, LockInv
<1>1. exec \in [Call -> Places] /\ base \in [Call -> Nat] /\ locks \in Seq(Call)
  BY DEF TypeOK, ToolsOK, F!TypeOK
<1>2. CASE UNCHANGED <<calls, tools, locks>> /\ (file' = file \/ OutsideChange)
  BY <1>2 DEF calls, tools, Locked, OutsideChange, F!Write
<1>3. ASSUME NEW c \in Call, Tool(c) PROVE LockInv'
  <2>1. of' = of /\ kind' = kind
    BY <1>3, ToolFrame DEF calls
  <2>2. CASE Start(c)
    <3>1. exec[c] = "none" /\ exec'[c] \in {"lock", "check", "question", "ask"}
          /\ (exec'[c] = "lock" <=> Locked(c)) /\ (Locked(c) => exec'[c] = "lock")
          /\ (\A d \in Call : d # c => exec'[d] = exec[d])
          /\ base' = base /\ file' = file
      BY <1>1, <2>2 DEF Start, Exec, Locked
    <3>2. ~\E i \in 1..Len(locks) : locks[i] = c
      BY <3>1
    <3>3. CASE ~Locked(c)
      <4>1. locks' = locks
        BY <2>2, <3>3 DEF Start
      <4>2. \A d \in Call : Locked(d) => d # c
        BY <3>3
      <4> QED
        BY <2>1, <3>1, <3>2, <3>3, <4>1, <4>2 DEF Locked
    <3>4. CASE Locked(c)
      <4>1. /\ locks' \in Seq(Call) /\ Len(locks') = Len(locks) + 1 /\ Len(locks) \in Nat
            /\ \A i \in 1..Len(locks) : locks'[i] = locks[i]
            /\ locks'[Len(locks) + 1] = c
        <5>1. locks' = Append(locks, c) /\ locks \in Seq(Call) /\ c \in Call
          BY <1>1, <2>2, <3>4 DEF Start, F!Queue
        <5> QED
          BY <5>1, AppendProperties
      <4>2. \A i, j \in 1..Len(locks') : locks'[i] = locks'[j] => i = j
        BY <3>2, <4>1
      <4>3. \A d \in Call :
              (\E i \in 1..Len(locks') : locks'[i] = d) <=> d = c \/ \E i \in 1..Len(locks) : locks[i] = d
        <5> TAKE d \in Call
        <5>1. Len(locks) + 1 \in 1..Len(locks')
          BY <4>1
        <5>2. \A i \in 1..Len(locks') : i \in 1..Len(locks) \/ i = Len(locks) + 1
          BY <4>1
        <5>3. \A i \in 1..Len(locks) : i \in 1..Len(locks')
          BY <4>1
        <5> QED
          BY <4>1, <5>1, <5>2, <5>3
      <4>4. \A d \in Call :
              (\E i \in 1..Len(locks') : locks'[i] = d) <=>
                Locked(d) /\ exec'[d] \in {"lock", "check", "ask", "wait", "write", "stamp"}
        BY <3>1, <3>4, <4>3
      <4>5. \A d \in Call :
              Locked(d) /\ exec'[d] \in {"check", "ask", "wait", "write", "stamp"} => locks'[1] = d
        <5> SUFFICES ASSUME NEW d \in Call, Locked(d),
                            exec'[d] \in {"check", "ask", "wait", "write", "stamp"}
                     PROVE  locks'[1] = d
          OBVIOUS
        <5>1. d # c /\ exec[d] \in {"check", "ask", "wait", "write", "stamp"}
          BY <3>1, <3>4
        <5>2. Len(locks) >= 1 /\ locks[1] = d
          BY <5>1, HolderIsFirst
        <5> QED
          BY <4>1, <5>2
      <4>6. \A d \in Call :
              kind[d] = "edit" /\ exec'[d] \in {"ask", "wait", "write"} =>
                base[d] = file.version \/ file.by \notin {"edit", "create"}
        BY <3>1, <3>4
      <4>7. \A d \in Call : Locked(d) <=> Locked(d)'
        BY <2>1 DEF Locked
      <4> QED
        BY <2>1, <3>1, <4>2, <4>4, <4>5, <4>6, <4>7
    <3> QED
      BY <3>3, <3>4
  <2>3. CASE Enter(c)
    BY <1>1, <2>1, <2>3 DEF Enter, Exec, F!HasLock, files, Locked
  <2>4. CASE Check(c)
    <3>1. CASE exec' = [exec EXCEPT ![c] = "ask"] /\ base' = [base EXCEPT ![c] = file.version]
               /\ UNCHANGED <<locks, file>> /\ exec[c] = "check"
      BY <1>1, <2>1, <3>1 DEF Locked
    <3>2. CASE exec' = [exec EXCEPT ![c] = "failed"] /\ Unlock(c) /\ base' = base /\ exec[c] = "check"
      BY <1>3, <2>4, <3>2, ReleaseKeeps, ToolFrame DEF Check, Over
    <3> QED
      BY <2>4, <3>1, <3>2 DEF Check, Exec
  <2>5. CASE Refused(c)
    BY <1>3, <2>5, ReleaseKeeps, ToolFrame DEF Refused, Exec, Over
  <2>6. CASE Stamp(c)
    <3>1. "meta" \in Over \cup {"meta"} /\ "done" \in Over \cup {"meta"}
      BY DEF Over
    <3> QED
      BY <1>3, <2>6, <3>1, ReleaseKeeps, ToolFrame DEF Stamp, Exec
  <2>7. CASE Write(c)
    <3>1. exec[c] = "write" /\ exec' = [exec EXCEPT ![c] = "stamp"] /\ locks' = locks /\ base' = base
          /\ file'.by = kind[c]
      BY <2>7 DEF Write, Exec, F!Write
    <3>2. CASE ~Locked(c)
      BY <1>1, <2>1, <3>1, <3>2 DEF Locked
    <3>3. CASE Locked(c)
      <4>1. \A d \in Call : Locked(d) /\ exec[d] \in {"ask", "wait", "write"} => d = c
        BY <3>1, <3>3
      <4> QED
        BY <1>1, <2>1, <3>1, <3>3, <4>1 DEF Locked
    <3> QED
      BY <3>2, <3>3
  <2>8. CASE Ask(c) \/ Go(c)
    BY <1>1, <2>1, <2>8 DEF Ask, Go, Exec, files, Locked
  <2>9. CASE Run(c) \/ Metadata(c) \/ Answered(c)
    <3>1. exec[c] \in {"run", "meta", "question"} /\ exec'[c] \in Over \cup {"meta"}
          /\ (\A d \in Call : d # c => exec'[d] = exec[d])
          /\ UNCHANGED <<base, file, locks>>
      BY <1>1, <2>9 DEF Run, Metadata, Answered, Exec, files, Over
    <3> QED
      BY <1>1, <2>1, <3>1 DEF Locked, Over
  <2> QED
    BY <1>3, <2>2, <2>3, <2>4, <2>5, <2>6, <2>7, <2>8, <2>9 DEF Tool
<1>4. ASSUME NEW r \in Request, UserGrants(r) \/ UserRejects(r) PROVE file' = file
  BY <1>4 DEF UserGrants, UserRejects, files
<1>5. ASSUME NEW c \in Call, UserAnswers(c) PROVE file' = file
  BY <1>5 DEF UserAnswers, files
<1>6. ASSUME NEW s \in Session, Process(s) \/ Cancel(s) PROVE LockInv'
  BY <1>2, <1>6, ProcessFrame DEF files
<1>7. ASSUME NEW c \in Call, Event(c) PROVE LockInv'
  BY <1>2, <1>7, EventFrame DEF files
<1>8. ASSUME World \/ \E c \in Call : UserAnswers(c) PROVE LockInv'
  BY <1>2, <1>4, <1>5, <1>8, WorldFrame DEF World
<1> QED
  BY <1>3, <1>6, <1>7, <1>8 DEF Next, World

-----------------------------------------------------------------------------
(* The requests *)

\* What a call of ask settles is allowed by the rules and the approvals.
LEMMA AskAllows ==
  ASSUME TypeOK, NEW r \in Request, P!Ask(r), verdict'[r] = "allowed", verdict[r] = "none"
  PROVE  \A i \in DOMAIN Patterns(r) : P!Evaluate(Patterns(r)[i]) = "allow"
<1>1. verdict \in [Request -> {"none", "allowed", "denied", "rejected", "corrected"}]
  BY DEF TypeOK, P!TypeOK
<1>2. P!Open(r) = {}
  BY <1>1 DEF P!Ask, P!Settled
<1> QED
  BY <1>2, PatternsAreTyped DEF P!Open

\* What a call of ask leaves pending has its first pattern that is not allowed to ask about.
LEMMA AskIsInTurn ==
  ASSUME TypeOK, NEW c \in Call, P!Ask(c), c \notin pending, c \in pending'
  PROVE  AskedInTurn(c)
<1>1. PICK i \in P!Open(c) :
        (\A j \in P!Open(c) : i <= j) /\ P!Evaluate(Info[c].patterns[i]) # "deny"
  BY DEF P!Ask
<1>2. c \in Request /\ Info[c].patterns = Patterns(c) /\ Patterns(c) \in Seq(Pattern)
  BY PatternsAreTyped DEF Request
<1>3. i \in DOMAIN Patterns(c) /\ Patterns(c)[i] \in Pattern /\ ~Allowed(c, i)
  BY <1>1, <1>2 DEF P!Open, Allowed
<1>4. rules[Patterns(c)[i]] = "ask"
  BY <1>1, <1>2, <1>3 DEF P!Evaluate, Allowed, TypeOK, P!TypeOK
<1>5. \A j \in 1..(i - 1) : Allowed(c, j)
  BY <1>1, <1>2, <1>3 DEF P!Open, Allowed
<1> QED
  BY <1>3, <1>4, <1>5 DEF AskedInTurn

LEMMA OthersKeepTheirVerdict ==
  ASSUME TypeOK, NEW r \in Request, P!Ask(r)
  PROVE  /\ \A q \in Request : q # r => verdict'[q] = verdict[q]
         /\ \A q \in Request : q # r => (q \in pending' <=> q \in pending)
         /\ UNCHANGED <<rules, approved>>
BY DEF P!Ask, P!Settled, TypeOK, P!TypeOK

\* What is granted, allowed or asked in turn stays so while the approvals only grow.
LEMMA AllowedStays ==
  ASSUME UNCHANGED <<calls, rules>>, approved \subseteq approved', granted \subseteq granted',
         NEW c \in Call
  PROVE  /\ GrantedOrAllowed(c) => GrantedOrAllowed(c)'
         /\ AskedInTurn(c) => AskedInTurn(c)'
<1>1. Patterns(c)' = Patterns(c)
  BY DEF Patterns, calls
<1>2. \A i : Allowed(c, i) => Allowed(c, i)'
  BY <1>1 DEF Allowed, P!Evaluate
<1> QED
  BY <1>1, <1>2 DEF GrantedOrAllowed, AskedInTurn

\* An answer of the user only settles requests that wait for one.
LEMMA AnswersSettlePending ==
  ASSUME IInv, NEW r \in Request, UserGrants(r) \/ UserRejects(r)
  PROVE  /\ pending' \subseteq pending
         /\ \A q \in Request : q \notin pending => verdict'[q] = verdict[q]
         /\ \A q \in Request :
              q \in pending /\ verdict'[q] = "allowed" =>
                \/ q \in granted'
                \/ \A i \in DOMAIN Info[q].patterns : Info[q].patterns[i] \in approved'
         /\ UNCHANGED <<calls, rules, turns, tools>>
         /\ approved \subseteq approved' /\ granted \subseteq granted'
<1>1. verdict \in [Request -> {"none", "allowed", "denied", "rejected", "corrected"}]
      /\ pending \subseteq {q \in Request : verdict[q] = "none"}
  BY DEF IInv, TypeOK, P!TypeOK
<1>2. UNCHANGED <<calls, rules, turns, tools>>
  BY WorldFrame DEF World
<1>3. CASE UserGrants(r) /\ P!Once(r)
  BY <1>1, <1>2, <1>3 DEF UserGrants, P!Once, P!Settled
<1>4. CASE UserGrants(r) /\ P!Always(r)
  BY <1>1, <1>2, <1>4 DEF UserGrants, P!Always, P!Settled, P!Others, P!Covered
<1>5. CASE UserRejects(r)
  BY <1>1, <1>2, <1>5 DEF UserRejects, P!Reject, P!Settled, P!Others
<1> QED
  BY <1>3, <1>4, <1>5 DEF UserGrants

LEMMA RequestsKept ==
  ASSUME IInv, Next
  PROVE  RequestsInv'
<1> USE DEF IInv, RequestsInv
<1> DEFINE Stays(d) == /\ GrantedOrAllowed(d) => GrantedOrAllowed(d)'
                       /\ AskedInTurn(d) => AskedInTurn(d)'
<1>1. /\ exec \in [Call -> Places] /\ TypeOK
      /\ verdict \in [Request -> {"none", "allowed", "denied", "rejected", "corrected"}]
      /\ phase \in [Session -> {"idle", "stream", "doom", "retry", "sweep", "ended"}]
      /\ pending \subseteq {q \in Request : verdict[q] = "none"}
      /\ of \in [Call -> Session]
  BY DEF TypeOK, ToolsOK, TurnsOK, CallsOK, P!TypeOK
<1>2. ASSUME UNCHANGED <<calls, tools, asking>>, \A s \in Session : phase[s] = "doom" /\ s \in pending => phase'[s] = "doom"
      PROVE  RequestsInv'
  <2>1. \A c \in Call : Stays(c)
    BY <1>2, AllowedStays DEF asking
  <2> QED
    BY <1>2, <2>1 DEF tools, asking
<1>3. ASSUME NEW s \in Session, Process(s) \/ Cancel(s) PROVE RequestsInv'
  <2>1. \A q \in Session : phase[q] = "doom" /\ q \in pending => phase'[q] = "doom"
    BY <1>1, <1>3 DEF Process, Begin, Finish, Retry, StreamFails, WakeFromRetry, DoomAnswered,
                      AbortNoticed, NoticesAbort, SweepPart, End, Cancel, Becomes, Fail, Settle, Streams
  <2> QED
    BY <1>2, <1>3, <2>1, ProcessFrame
<1>4. ASSUME NEW c \in Call, Event(c), ~ToolCall(c) PROVE RequestsInv'
  <2>1. UNCHANGED <<asking, phase>>
    BY <1>4 DEF Event, InputStart, ToolResult, ToolError, Resolved, turns
  <2> QED
    BY <1>2, <1>4, <2>1, EventFrame
<1>5. ASSUME NEW c \in Call, ToolCall(c) PROVE RequestsInv'
  <2>1. CASE UNCHANGED <<turns, asking>>
    BY <1>2, <1>5, <2>1, EventFrame DEF Event, turns
  <2>2. CASE P!Ask(of[c]) /\ Becomes(of[c], "doom") /\ UNCHANGED granted
    <3>1. of[c] \in Session /\ of[c] \in Request
      BY <1>1 DEF Request
    <3>2. UNCHANGED <<calls, tools>> /\ phase' = [phase EXCEPT ![of[c]] = "doom"]
      BY <1>5, <2>2, EventFrame DEF Event, Becomes
    <3>3. \A d \in Call : verdict'[d] = verdict[d] /\ (d \in pending' <=> d \in pending)
      BY <1>1, <2>2, <3>1, RequestsDiffer, OthersKeepTheirVerdict
    <3>4. \A s \in Session : s \in pending' => s = of[c] \/ s \in pending
      BY <1>1, <2>2, <3>1, OthersKeepTheirVerdict DEF Request
    <3>5. \A d \in Call : Stays(d)
      BY <1>1, <2>2, <3>1, <3>2, AllowedStays, OthersKeepTheirVerdict
    <3> QED
      BY <1>1, <3>1, <3>2, <3>3, <3>4, <3>5 DEF tools
  <2> QED
    BY <1>5, <2>1, <2>2 DEF ToolCall
<1>6. ASSUME NEW c \in Call, Tool(c), ~Ask(c) PROVE RequestsInv'
  <2>1. UNCHANGED <<asking, calls, phase>>
    BY <1>6, ToolFrame DEF Tool, Start, Enter, Check, Go, Refused, Write, Stamp, Run, Metadata,
                           Answered, turns
  <2>2. \A d \in Call : Stays(d)
    BY <2>1, AllowedStays DEF asking
  <2>3. /\ \A d \in Call : d # c => exec'[d] = exec[d]
        /\ exec[c] = "wait" => verdict[c] # "none"
        /\ exec'[c] \in {"none", "lock", "check", "ask"} =>
             exec[c] \in {"none", "lock", "check", "ask"}
        /\ exec'[c] \in {"write", "run"} => verdict[c] = "allowed"
        /\ exec'[c] # "wait"
    <3>1. CASE Start(c)
      BY <1>1, <3>1 DEF Start, Exec
    <3>2. CASE Enter(c) \/ Check(c)
      BY <1>1, <3>2 DEF Enter, Check, Exec
    <3>3. CASE Go(c) \/ Refused(c)
      BY <1>1, <3>3 DEF Go, Refused, Exec
    <3>4. CASE Write(c) \/ Stamp(c) \/ Run(c) \/ Metadata(c) \/ Answered(c)
      BY <1>1, <3>4 DEF Write, Stamp, Run, Metadata, Answered, Exec
    <3> QED
      BY <1>6, <3>1, <3>2, <3>3, <3>4 DEF Tool
  <2> QED
    BY <1>1, <2>1, <2>2, <2>3 DEF asking
<1>7. ASSUME NEW c \in Call, Ask(c) PROVE RequestsInv'
  <2>1. /\ exec[c] = "ask" /\ exec' = [exec EXCEPT ![c] = "wait"] /\ P!Ask(c)
        /\ UNCHANGED <<calls, phase, granted>>
    BY <1>7 DEF Ask, Exec, turns
  <2>2. c \in Request /\ verdict[c] = "none" /\ c \notin Session
    BY <2>1, RequestsDiffer
  <2>3. \A q \in Request : q # c => verdict'[q] = verdict[q] /\ (q \in pending' <=> q \in pending)
    BY <1>1, <2>1, <2>2, OthersKeepTheirVerdict
  <2>4. \A d \in Call : Stays(d)
    BY <1>1, <2>1, <2>2, AllowedStays, OthersKeepTheirVerdict
  <2>5. verdict'[c] = "allowed" => GrantedOrAllowed(c)
    BY <1>1, <2>1, <2>2, AskAllows DEF GrantedOrAllowed, Allowed
  <2>6. c \in pending' => AskedInTurn(c)
    BY <1>1, <2>1, <2>2, AskIsInTurn
  <2> QED
    BY <1>1, <2>1, <2>2, <2>3, <2>4, <2>5, <2>6, RequestsDiffer DEF Request
<1>8. ASSUME NEW r \in Request, UserGrants(r) \/ UserRejects(r) PROVE RequestsInv'
  <2>1. \A c \in Call : Stays(c)
    BY <1>8, AllowedStays, AnswersSettlePending
  <2>2. \A c \in Call : c \in pending /\ verdict'[c] = "allowed" => GrantedOrAllowed(c)'
    <3> SUFFICES ASSUME NEW c \in Call, c \in pending, verdict'[c] = "allowed"
                 PROVE  GrantedOrAllowed(c)'
      OBVIOUS
    <3>1. c \in Request /\ Info[c].patterns = Patterns(c) /\ Patterns(c) \in Seq(Pattern)
      BY PatternsAreTyped DEF Request
    <3>2. Patterns(c)' = Patterns(c) /\ rules' = rules
      BY <1>8, AnswersSettlePending DEF Patterns, calls
    <3>3. CASE \A i \in DOMAIN Patterns(c) : Patterns(c)[i] \in approved'
      BY <3>2, <3>3 DEF GrantedOrAllowed, Allowed, P!Evaluate
    <3>4. CASE c \in granted'
      <4>1. PICK i \in DOMAIN Patterns(c) :
              rules[Patterns(c)[i]] = "ask" /\ \A j \in 1..(i - 1) : Allowed(c, j)
        BY DEF AskedInTurn
      <4>2. \A j \in 1..(i - 1) : Allowed(c, j)'
        BY <1>8, <3>2, <4>1, AnswersSettlePending DEF Allowed, P!Evaluate
      <4>3. \A k \in DOMAIN Patterns(c) : k \in 1..(i - 1) \/ i \in 1..k
        BY <3>1, <4>1
      <4> QED
        BY <3>2, <3>4, <4>1, <4>2, <4>3 DEF GrantedOrAllowed
    <3> QED
      BY <1>1, <1>8, <3>1, <3>3, <3>4, AnswersSettlePending
  <2>3. exec' = exec /\ phase' = phase
    BY <1>8, AnswersSettlePending DEF tools, turns
  <2>4. \A q \in Request : (q \notin pending => verdict'[q] = verdict[q]) /\ pending' \subseteq pending
    BY <1>8, AnswersSettlePending
  <2> QED
    BY <1>1, <2>1, <2>2, <2>3, <2>4, RequestsDiffer
<1>9. CASE OutsideChange \/ \E c \in Call : UserAnswers(c)
  BY <1>2, <1>9 DEF OutsideChange, UserAnswers, turns
<1> QED
  BY <1>3, <1>4, <1>5, <1>6, <1>7, <1>8, <1>9 DEF Next

-----------------------------------------------------------------------------
(* The parts *)

\* The end of a turn begins with every part that is not settled.
LEMMA SettleKeeps ==
  ASSUME IInv, NEW s \in Session, Settle(s)
  PROVE  PartsInv'
<1> USE DEF IInv, PartsInv, EndedPartsAreSettled
<1>1. /\ phase \in [Session -> {"idle", "stream", "doom", "retry", "sweep", "ended"}]
      /\ toSweep \in [Session -> SUBSET Call] /\ of \in [Call -> Session]
  BY DEF TypeOK, TurnsOK, CallsOK
<1>2. /\ phase' = [phase EXCEPT ![s] = "sweep"]
      /\ toSweep' = [toSweep EXCEPT ![s] = {c \in Call : of[c] = s /\ part[c] \in Unresolved}]
      /\ UNCHANGED <<of, part, entry, reopened>>
  BY DEF Settle, Unsettled, Calls, calls, parts
<1> QED
  BY <1>1, <1>2

LEMMA PartsKept ==
  ASSUME IInv, Next
  PROVE  PartsInv'
<1> USE DEF IInv, PartsInv, EndedPartsAreSettled
<1>1. /\ phase \in [Session -> {"idle", "stream", "doom", "retry", "sweep", "ended"}]
      /\ toSweep \in [Session -> SUBSET Call] /\ of \in [Call -> Session]
      /\ part \in [Call -> {"none", "pending", "running", "completed", "error"}]
      /\ entry \in [Call -> {"none", "pending", "running"}]
  BY DEF TypeOK, TurnsOK, CallsOK, PartsOK
<1>2. ASSUME NEW s \in Session, Process(s) \/ Cancel(s) PROVE PartsInv'
  <2>1. UNCHANGED <<of, entry, reopened>>
    BY <1>2, ProcessFrame DEF calls
  <2>2. CASE Settle(s)
    BY <2>2, SettleKeeps
  <2>3. CASE SweepPart(s)
    <3>1. PICK c \in toSweep[s] : part' = [part EXCEPT ![c] = "error"]
                                /\ toSweep' = [toSweep EXCEPT ![s] = @ \ {c}]
      BY <2>3 DEF SweepPart
    <3>2. phase' = phase /\ c \in Call
      BY <1>1, <2>3 DEF SweepPart
    <3> QED
      BY <1>1, <2>1, <3>1, <3>2 DEF Unresolved
  <2>4. CASE End(s)
    <3>1. /\ phase[s] = "sweep" /\ toSweep[s] = {} /\ phase' = [phase EXCEPT ![s] = "ended"]
          /\ toSweep' = toSweep /\ part' = part
      BY <2>4 DEF End, parts
    <3> QED
      BY <1>1, <2>1, <3>1
  <2>5. CASE Begin(s) \/ WakeFromRetry(s) \/ Cancel(s) \/ Retry(s) \/ (DoomAnswered(s) /\ ~Settle(s))
    <3>1. /\ UNCHANGED <<part, toSweep>>
          /\ phase' = phase \/ \E ph \in {"stream", "retry"} : phase' = [phase EXCEPT ![s] = ph]
      BY <2>5 DEF Begin, WakeFromRetry, Cancel, Retry, DoomAnswered, Becomes, Fail, parts
    <3> QED
      BY <1>1, <2>1, <3>1
  <2> QED
    BY <1>2, <2>2, <2>3, <2>4, <2>5
       DEF Process, Finish, StreamFails, AbortNoticed, Fail
<1>3. ASSUME NEW c \in Call, Event(c) PROVE PartsInv'
  <2>1. /\ phase[of[c]] = "stream" /\ of[c] \in Session
        /\ UNCHANGED <<of, reopened, toSweep>>
        /\ phase' = phase \/ phase' = [phase EXCEPT ![of[c]] = "doom"]
        /\ \A d \in Call : d # c => part'[d] = part[d] /\ entry'[d] = entry[d]
        /\ entry'[c] = "running" => part'[c] = "running"
    BY <1>1, <1>3, EventFrame
       DEF Event, InputStart, ToolCall, ToolResult, ToolError, Resolved, Streams, Becomes, turns, calls
  <2> QED
    BY <1>1, <2>1
<1>4. ASSUME NEW c \in Call, Tool(c) PROVE PartsInv'
  <2>1. UNCHANGED <<of, phase, toSweep, entry>>
    BY <1>4, ToolFrame DEF calls, turns
  <2>2. CASE Metadata(c) /\ entry[c] = "running"
    <3>1. /\ part' = [part EXCEPT ![c] = "running"] /\ part[c] \in {"running", "error"}
          /\ reopened' = IF part[c] = "error" THEN reopened \cup {c} ELSE reopened
      BY <2>2 DEF Metadata
    <3> QED
      BY <1>1, <2>1, <3>1 DEF Unresolved
  <2>3. CASE UNCHANGED <<part, reopened>>
    BY <2>1, <2>3
  <2> QED
    BY <1>4, <2>2, <2>3
       DEF Tool, Start, Enter, Check, Ask, Go, Refused, Write, Stamp, Run, Metadata, Answered, Exec, parts
<1>5. CASE World \/ \E c \in Call : UserAnswers(c)
  BY <1>5, WorldFrame DEF calls, turns, parts
<1> QED
  BY <1>2, <1>3, <1>4, <1>5 DEF Next, World

-----------------------------------------------------------------------------
(* The theorems *)

(* The invariant holds initially: no turn has begun, no call is made.      *)
LEMMA InitIInv == Init => IInv
<1> SUFFICES ASSUME Init PROVE IInv
  OBVIOUS
<1> USE DEF Init
<1>1. TypeOK
  <2>1. CallsOK /\ TurnsOK /\ PartsOK /\ ToolsOK
    BY BoundsAssumption DEF CallsOK, TurnsOK, PartsOK, ToolsOK, Places
  <2>2. P!TypeOK /\ Q!TypeOK /\ F!TypeOK /\ granted \subseteq Request
    BY DEF P!TypeOK, Q!TypeOK, F!TypeOK, P!Init, Q!Init, F!Init, F!Writers
  <2> QED
    BY <2>1, <2>2 DEF TypeOK
<1>2. RequestsInv
  BY RequestsDiffer DEF RequestsInv, P!Init
<1>3. KindsInv
  BY DEF KindsInv
<1>4. LockInv
  BY DEF LockInv, F!Init
<1>5. PartsInv
  BY DEF PartsInv, EndedPartsAreSettled, CallsOK, Unresolved
<1> QED
  BY <1>1, <1>2, <1>3, <1>4, <1>5 DEF IInv

LEMMA NextIInv == IInv /\ [Next]_vars => IInv'
<1>1. CASE IInv /\ Next
  <2>1. CallsOK'
    <3>1. UNCHANGED calls
      BY <1>1, ProcessFrame, EventFrame, ToolFrame, WorldFrame DEF Next, World
    <3> QED
      BY <1>1, <3>1 DEF IInv, TypeOK, CallsOK, calls
  <2>2. TypeOK'
    BY <1>1, <2>1, TurnsTyped, PartsTyped, ToolsTyped, PermissionTyped, QuestionTyped, FileTyped
       DEF TypeOK
  <2> QED
    BY <1>1, <2>2, RequestsKept, KindsKept, LockKept, PartsKept DEF IInv
<1>2. CASE IInv /\ UNCHANGED vars
  BY <1>2 DEF vars, calls, turns, flags, parts, tools, asking, asked, files, IInv, TypeOK, CallsOK,
              TurnsOK, PartsOK, ToolsOK, P!TypeOK, Q!TypeOK, F!TypeOK, RequestsInv, KindsInv, LockInv,
              Locked, PartsInv, EndedPartsAreSettled, GrantedOrAllowed, AskedInTurn, Allowed, Patterns,
              P!Evaluate
<1> QED
  BY <1>1, <1>2

(* The turns, their requests, their queue for the file and their parts     *)
(* agree in every reachable state (session/processor.ts:38-413 with the    *)
(* tools it starts).                                                       *)
THEOREM TurnInvariant == Spec => []IInv
<1>1. Init => IInv
  BY InitIInv
<1>2. IInv /\ [Next]_vars => IInv'
  BY NextIInv
<1> QED
  BY <1>1, <1>2, PTL DEF Spec

(* A tool acts only on patterns that are allowed, and on others only with  *)
(* the user's grant of its own request, in which no pattern is denied      *)
(* before the first one to ask about (permission/next.ts:131-157, 200-213). *)
THEOREM NoToolActsUnasked == Spec => []AskedOrAllowed
<1>1. IInv => AskedOrAllowed
  BY DEF IInv, RequestsInv, AskedOrAllowed
<1> QED
  BY <1>1, TurnInvariant, PTL

(* A turn that has ended left no part unsettled that metadata did not      *)
(* reopen (session/processor.ts:389-406).                                  *)
THEOREM NoPartIsLeftOpen == Spec => []EndedPartsAreSettled
<1>1. IInv => EndedPartsAreSettled
  BY DEF IInv, PartsInv
<1> QED
  BY <1>1, TurnInvariant, PTL

(* The lock keeps one edit from overwriting another it has not read        *)
(* (tool/edit.ts:50-118, file/time.ts withLock).                           *)
THEOREM NoEditIsLost == Spec => []EditsKeepEdits
<1>1. IInv => EditsKeepEdits
  BY DEF IInv, LockInv, EditsKeepEdits
<1> QED
  BY <1>1, TurnInvariant, PTL
=============================================================================
