-------------------------- MODULE ChatAndBuilderProofs --------------------------
(***************************************************************************)
(* Proofs about ChatTurn and CodeProject, the chat and the code builder,   *)
(* which share nothing but this module.                                    *)
(*                                                                         *)
(* ChatTurn: for any number of turns, streams and resolutions that share   *)
(* the connection, however calls end and whatever the governor answers or  *)
(* goes on doing.  CodeProject: for any texts, files and contents, any     *)
(* plan, and any number of failed writes, restarts and unreadable files,   *)
(* an editor whose version is current and counts has read what its change  *)
(* will replace, and a file that was accepted survives one put that fails. *)
(***************************************************************************)
EXTENDS ChatTurn, CodeProject, TLAPS

USE ChatTurnAssumption

(* The steps in which a handler has a call, waiting or under way.          *)
Calling == {"pending", "send", "fix", "check"}

(* The connection is owned by exactly the call that was sent.              *)
LockIsCall == \A x \in Handlers : call[x] = "sent" <=> lock = x

(* What a handler carries from one call to the next.                       *)
HandlerInv(x) ==
    /\ at[x] \in Calling <=> call[x] # "none"
    /\ at[x] = "send" => x \notin Resolvers
    /\ at[x] = "fix" => x \in Resolvers
    /\ at[x] \in {"content", "left"} => x \in Streams
    /\ at[x] = "check" => answer[x].by = x /\ answer[x].of = before[x]
    /\ x \in Turns \cup Streams => (x \in active <=> at[x] \notin {"new", "over"})

(* An answer is of the request it carries the id of.                       *)
ReplyInv(r) ==
    /\ r.answer.by = r.by
    /\ r.kind = "fix" => r.answer.what \in {"error", "resolved"}

(* Every entry of the conversation follows the one before it.              *)
HistoryInv ==
    \A i \in DOMAIN history : history[i].after = i - 1 /\ history[i].answer = history[i].by

ChatInv ==
    /\ ChatTypeOK
    /\ LockIsCall
    /\ \A x \in Handlers : HandlerInv(x)
    /\ \A r \in replies : ReplyInv(r)
    /\ HistoryInv
    /\ ResolvedWhatWasSeen

-----------------------------------------------------------------------------
LEMMA ChatInitInv == ChatInit => ChatInv
<1> SUFFICES ASSUME ChatInit PROVE ChatInv
    OBVIOUS
<1> USE DEF ChatInit
<1>1. ChatTypeOK
    BY DEF ChatTypeOK, Steps, Requests, Blocks, Answers, Outcomes, Entries, Nothing
<1>2. LockIsCall /\ HistoryInv /\ ResolvedWhatWasSeen /\ (\A r \in replies : ReplyInv(r))
    BY DEF LockIsCall, HistoryInv, ResolvedWhatWasSeen
<1>3. \A x \in Handlers : HandlerInv(x)
    BY DEF HandlerInv, Calling
<1> QED
    BY <1>1, <1>2, <1>3 DEF ChatInv

(* What the handlers alone hold: the part of the invariant that a step of  *)
(* one handler can disturb.                                                *)
HandlersOK ==
    /\ at \in [Handlers -> Steps]
    /\ call \in [Handlers -> {"none", "queued", "sent"}]
    /\ base \in [Handlers -> Nat]
    /\ before \in [Handlers -> Blocks]
    /\ answer \in [Handlers -> Answers]
    /\ active \subseteq Turns \cup Streams
    /\ \A x \in Handlers : HandlerInv(x)

(* A handler that is through leaves the others as they are, and no call.   *)
LEMMA EndKeeps ==
    ASSUME NEW x \in Handlers, ChatInv, End(x)
    PROVE  /\ HandlersOK'
           /\ call'[x] = "none"
           /\ \A y \in Handlers : y # x => call'[y] = call[y]
<1> USE DEF ChatInv, ChatTypeOK, End
<1>1. Nothing \in Answers
    BY DEF Nothing, Answers, Outcomes, Blocks
<1>2. /\ at' \in [Handlers -> Steps]
      /\ call' \in [Handlers -> {"none", "queued", "sent"}]
      /\ base' \in [Handlers -> Nat]
      /\ before' \in [Handlers -> Blocks]
      /\ answer' \in [Handlers -> Answers]
      /\ active' \subseteq Turns \cup Streams
    BY <1>1 DEF Steps, Blocks
<1>3. ASSUME NEW y \in Handlers PROVE HandlerInv(y)'
  <2>1. CASE y = x
    BY <2>1 DEF HandlerInv, Calling
  <2>2. CASE y # x
    BY <2>2 DEF HandlerInv, Calling
  <2> QED
    BY <2>1, <2>2
<1> QED
    BY <1>2, <1>3 DEF HandlersOK

(* A handler that goes on has a call again, or content to hand out.        *)
LEMMA GoesOnKeeps ==
    ASSUME NEW x \in Handlers, NEW step \in Steps, NEW seen \in Blocks, NEW got \in Answers,
           ChatInv, GoesOn(x, step, seen, got),
           at[x] \in Calling,
           \/ step = "send" /\ x \notin Resolvers
           \/ step = "fix" /\ x \in Resolvers
           \/ step = "content" /\ x \in Streams
           \/ step = "check" /\ got.by = x /\ got.of = seen
    PROVE  /\ HandlersOK'
           /\ call'[x] # "sent"
           /\ \A y \in Handlers : y # x => call'[y] = call[y]
<1> USE DEF ChatInv, ChatTypeOK, GoesOn
<1>1. /\ at' \in [Handlers -> Steps]
      /\ call' \in [Handlers -> {"none", "queued", "sent"}]
      /\ base' \in [Handlers -> Nat]
      /\ before' \in [Handlers -> Blocks]
      /\ answer' \in [Handlers -> Answers]
      /\ active' \subseteq Turns \cup Streams
    OBVIOUS
<1>2. ASSUME NEW y \in Handlers PROVE HandlerInv(y)'
  <2>1. CASE y = x
    <3>1. /\ at'[x] = step /\ before'[x] = seen /\ answer'[x] = got /\ active' = active
          /\ call'[x] = IF step = "content" THEN "none" ELSE "queued"
      OBVIOUS
    <3>2. x \in Turns \cup Streams => x \in active
      BY DEF HandlerInv, Calling
    <3> QED
      BY <2>1, <3>1, <3>2 DEF HandlerInv, Calling
  <2>2. CASE y # x
    BY <2>2 DEF HandlerInv, Calling
  <2> QED
    BY <2>1, <2>2
<1>3. /\ call'[x] # "sent"
      /\ \A y \in Handlers : y # x => call'[y] = call[y]
    OBVIOUS
<1> QED
    BY <1>1, <1>2, <1>3 DEF HandlersOK

(* Giving the connection back, or not owning it, keeps the owner right.    *)
LEMMA LockGivenBack ==
    ASSUME NEW x \in Handlers, ChatInv,
           call'[x] # "sent",
           \A y \in Handlers : y # x => call'[y] = call[y],
           \/ lock = x /\ lock' = Free
           \/ lock # x /\ lock' = lock
    PROVE  LockIsCall'
    BY ChatTurnAssumption DEF ChatInv, ChatTypeOK, LockIsCall

-----------------------------------------------------------------------------
LEMMA BeginInv == ASSUME NEW x \in Handlers, ChatInv, Begin(x) PROVE ChatInv'
<1> USE DEF ChatInv, ChatTypeOK, Begin, handlerVars, governorVars
<1>1. Prepared(x) \in Nat
    BY DEF Prepared
<1>2. ChatTypeOK'
    BY <1>1 DEF Steps, Handlers
<1>3. LockIsCall'
  <2>1. call[x] = "none"
    BY DEF HandlerInv, Calling
  <2> QED
    BY <2>1 DEF LockIsCall
<1>4. ASSUME NEW y \in Handlers PROVE HandlerInv(y)'
  <2>1. CASE y = x
    BY <2>1 DEF HandlerInv, Calling, Handlers
  <2>2. CASE y # x
    BY <2>2 DEF HandlerInv, Calling
  <2> QED
    BY <2>1, <2>2
<1>5. HistoryInv' /\ ResolvedWhatWasSeen' /\ \A r \in replies' : ReplyInv(r)
    BY DEF HistoryInv, ResolvedWhatWasSeen
<1> QED
    BY <1>2, <1>3, <1>4, <1>5

LEMMA SendInv == ASSUME NEW x \in Handlers, ChatInv, Send(x) PROVE ChatInv'
<1> USE DEF ChatInv, ChatTypeOK, Send, handlerVars, governorVars
<1>1. ChatTypeOK'
  <2>1. [by |-> x, kind |-> at[x], awaited |-> TRUE] \in Requests
    BY DEF Requests
  <2> QED
    BY <2>1
<1>2. LockIsCall'
    BY DEF LockIsCall
<1>3. ASSUME NEW y \in Handlers PROVE HandlerInv(y)'
    BY DEF HandlerInv, Calling
<1>4. HistoryInv' /\ ResolvedWhatWasSeen' /\ \A r \in replies' : ReplyInv(r)
    BY DEF HistoryInv, ResolvedWhatWasSeen
<1> QED
    BY <1>1, <1>2, <1>3, <1>4

(* An entry that follows the conversation as it is keeps it in order.      *)
LEMMA AppendKeeps ==
    ASSUME history \in Seq(Entries), HistoryInv,
           NEW e \in Entries, e.after = Len(history), e.answer = e.by,
           history' = Append(history, e)
    PROVE  history' \in Seq(Entries) /\ HistoryInv'
<1>1. history' \in Seq(Entries)
    OBVIOUS
<1>2. ASSUME NEW i \in DOMAIN history'
      PROVE  history'[i].after = i - 1 /\ history'[i].answer = history'[i].by
  <2>1. CASE i = Len(history) + 1
    BY <2>1 DEF Entries
  <2>2. CASE i \in DOMAIN history
    BY <2>2 DEF HistoryInv
  <2> QED
    BY <2>1, <2>2
<1> QED
    BY <1>1, <1>2 DEF HistoryInv

LEMMA OtherWriteInv == ASSUME ChatInv, OtherWrite PROVE ChatInv'
<1> USE DEF ChatInv, OtherWrite, handlerVars, governorVars
<1> DEFINE e == [by |-> Free, answer |-> Free, after |-> Len(history)]
<1>1. history \in Seq(Entries)
    BY DEF ChatTypeOK
<1>2. e \in Entries /\ e.after = Len(history) /\ e.answer = e.by
    BY <1>1 DEF Entries
<1>3. history' = Append(history, e)
    OBVIOUS
<1> HIDE DEF e
<1>4. history' \in Seq(Entries) /\ HistoryInv'
    BY <1>1, <1>2, <1>3, AppendKeeps
<1>5. ChatTypeOK'
    BY <1>4 DEF ChatTypeOK
<1>6. LockIsCall' /\ ResolvedWhatWasSeen'
    BY DEF LockIsCall, ResolvedWhatWasSeen
<1>7. \A x \in Handlers : HandlerInv(x)'
    BY DEF HandlerInv
<1> QED
    BY <1>4, <1>5, <1>6, <1>7

-----------------------------------------------------------------------------
LEMMA ResolvedPending ==
    \A p \in [now : Nat, ever : Nat] : [p EXCEPT !.now = 0] \in [now : Nat, ever : Nat]
    OBVIOUS

(* What the governor answers carries the id of the request; a pending      *)
(* state is resolved or the call fails when a resolution is asked for.     *)
LEMMA ExecutedRight ==
    ASSUME ChatTypeOK, NEW j \in wire, NEW e \in Executed(j)
    PROVE  /\ e[1] \in Answers /\ e[1].by = j.by
           /\ j.kind = "fix" => e[1].what \in {"error", "resolved"}
           /\ e[2] \in [now : Blocks, ever : Blocks]
<1> USE DEF ChatTypeOK, Blocks
<1>1. j \in Requests
    OBVIOUS
<1>2. j.by \in Handlers /\ j.kind \in Steps
    BY <1>1 DEF Requests
<1>3. pending \in [now : Nat, ever : Nat]
    OBVIOUS
<1> DEFINE says(w, p) == [what |-> w, by |-> j.by, of |-> p]
           blocked == pending.ever + 1
           fixed == [pending EXCEPT !.now = 0]
<1>4. /\ pending \in [now : Nat, ever : Nat] /\ pending.now \in Nat /\ blocked \in Nat
      /\ fixed \in [now : Nat, ever : Nat]
    BY <1>3, ResolvedPending
<1>5. \A w \in Outcomes, p \in Nat : /\ says(w, p) \in Answers
                                     /\ says(w, p).by = j.by /\ says(w, p).what = w
    BY <1>2 DEF Answers
<1>6. CASE j.kind = "send"
  <2>1. \/ e = <<says("error", 0), pending>>
        \/ e = <<says("authored", 0), pending>>
        \/ e = <<says("blocked", blocked), [now |-> blocked, ever |-> blocked]>>
        \/ e = <<says("blocked", pending.now), pending>>
        \/ e = <<says("resolved", pending.now), fixed>>
    BY <1>6 DEF Executed
  <2> HIDE DEF says, blocked, fixed
  <2> QED
    BY <1>4, <1>5, <1>6, <2>1 DEF Outcomes
<1>7. CASE j.kind = "fix"
  <2>1. \/ e = <<says("error", 0), pending>>
        \/ e = <<says("resolved", pending.now), fixed>>
    BY <1>7 DEF Executed
  <2> HIDE DEF says, blocked, fixed
  <2> QED
    BY <1>4, <1>5, <2>1 DEF Outcomes
<1>8. CASE j.kind \notin {"send", "fix"}
    BY <1>2, <1>8 DEF Executed, Answers, Outcomes
<1> QED
    BY <1>6, <1>7, <1>8

LEMMA ExecuteInv == ASSUME NEW j \in wire, ChatInv, Execute(j) PROVE ChatInv'
<1> USE DEF ChatInv, Execute, handlerVars, governorVars
<1>1. ChatTypeOK
    OBVIOUS
<1>2. PICK e \in Executed(j) :
          /\ pending' = e[2]
          /\ replies' = IF j.awaited
                        THEN replies \cup {[by |-> j.by, kind |-> j.kind, answer |-> e[1]]}
                        ELSE replies
    OBVIOUS
<1>3. /\ e[1] \in Answers /\ e[1].by = j.by
      /\ j.kind = "fix" => e[1].what \in {"error", "resolved"}
      /\ e[2] \in [now : Blocks, ever : Blocks]
    BY <1>1, <1>2, ExecutedRight
<1>4. j.by \in Handlers /\ j.kind \in Steps
    BY <1>1 DEF ChatTypeOK, Requests
<1>5. \A r \in replies' : /\ r \in [by : Handlers, kind : Steps, answer : Answers]
                          /\ ReplyInv(r)
    BY <1>1, <1>2, <1>3, <1>4 DEF ChatTypeOK, ReplyInv
<1>6. ChatTypeOK'
    BY <1>1, <1>2, <1>3, <1>5 DEF ChatTypeOK
<1>7. LockIsCall' /\ HistoryInv' /\ ResolvedWhatWasSeen'
    BY DEF LockIsCall, HistoryInv, ResolvedWhatWasSeen
<1>8. \A x \in Handlers : HandlerInv(x)'
    BY DEF HandlerInv
<1> QED
    BY <1>5, <1>6, <1>7, <1>8 DEF ReplyInv

-----------------------------------------------------------------------------
(* What the outcome of a governed invocation does: everything but the      *)
(* connection.                                                             *)
Settled(x) ==
    /\ HandlersOK'
    /\ call'[x] # "sent"
    /\ \A y \in Handlers : y # x => call'[y] = call[y]
    /\ history' \in Seq(Entries) /\ HistoryInv'
    /\ resolved' \subseteq Blocks \X Blocks /\ ResolvedWhatWasSeen'

LEMMA FailsSettles == ASSUME NEW x \in Handlers, ChatInv, Fails(x) PROVE Settled(x)
<1>1. HandlersOK' /\ call'[x] = "none" /\ \A y \in Handlers : y # x => call'[y] = call[y]
    BY EndKeeps DEF Fails
<1>2. /\ history' \in Seq(Entries) /\ HistoryInv'
      /\ resolved' \subseteq Blocks \X Blocks /\ ResolvedWhatWasSeen'
    BY DEF Fails, ChatInv, ChatTypeOK, HistoryInv, ResolvedWhatWasSeen
<1> QED
    BY <1>1, <1>2 DEF Settled

LEMMA GoesOnSettles ==
    ASSUME NEW x \in Handlers, NEW step \in Steps, NEW seen \in Blocks, NEW got \in Answers,
           ChatInv, GoesOn(x, step, seen, got),
           at[x] \in Calling,
           \/ step = "send" /\ x \notin Resolvers
           \/ step = "fix" /\ x \in Resolvers
           \/ step = "content" /\ x \in Streams
           \/ step = "check" /\ got.by = x /\ got.of = seen
    PROVE  Settled(x)
<1>1. HandlersOK' /\ call'[x] # "sent" /\ \A y \in Handlers : y # x => call'[y] = call[y]
    BY GoesOnKeeps
<1>2. /\ history' \in Seq(Entries) /\ HistoryInv'
      /\ resolved' \subseteq Blocks \X Blocks /\ ResolvedWhatWasSeen'
    BY DEF GoesOn, ChatInv, ChatTypeOK, HistoryInv, ResolvedWhatWasSeen
<1> QED
    BY <1>1, <1>2 DEF Settled

(* The outcome is of the handler's own invocation; that of a resolver is   *)
(* of the pending state it saw.                                            *)
LEMMA OutcomeSettles ==
    ASSUME NEW x \in Handlers, NEW got \in Answers, ChatInv,
           at[x] \in Calling, got.by = x,
           x \in Resolvers => got.of = before[x],
           Outcome(x, got)
    PROVE  Settled(x)
<1> USE ChatTurnAssumption
<1>1. CASE x \in Resolvers
  <2>1. /\ resolved' = resolved \cup {<<before[x], got.of>>}
        /\ End(x) /\ UNCHANGED history
    BY <1>1 DEF Outcome
  <2>2. HandlersOK' /\ call'[x] = "none" /\ \A y \in Handlers : y # x => call'[y] = call[y]
    BY <2>1, EndKeeps
  <2>3. resolved' \subseteq Blocks \X Blocks /\ ResolvedWhatWasSeen'
    BY <1>1, <2>1 DEF ChatInv, ChatTypeOK, ResolvedWhatWasSeen, Answers
  <2>4. history' \in Seq(Entries) /\ HistoryInv'
    BY <2>1 DEF ChatInv, ChatTypeOK, HistoryInv
  <2> QED
    BY <2>2, <2>3, <2>4 DEF Settled
<1>2. CASE x \notin Resolvers /\ got.what = "blocked"
  <2>1. Fails(x)
    BY <1>2 DEF Outcome, Handlers
  <2> QED
    BY <2>1, FailsSettles
<1>3. CASE x \in Turns /\ got.what # "blocked"
  <2>1. End(x) /\ Commit(x, got) /\ UNCHANGED resolved
    BY <1>3 DEF Outcome
  <2>2. HandlersOK' /\ call'[x] = "none" /\ \A y \in Handlers : y # x => call'[y] = call[y]
    BY <2>1, EndKeeps
  <2>3. history' \in Seq(Entries) /\ HistoryInv'
    <3>1. history \in Seq(Entries) /\ HistoryInv /\ base[x] \in Nat
      BY DEF ChatInv, ChatTypeOK
    <3>2. CASE Len(history) = base[x]
      <4> DEFINE e == [by |-> x, answer |-> got.by, after |-> base[x]]
      <4>1. e \in Entries /\ e.after = Len(history) /\ e.answer = e.by
        BY <1>3, <3>1, <3>2 DEF Entries
      <4>2. history' = Append(history, e)
        BY <2>1, <3>2 DEF Commit
      <4> HIDE DEF e
      <4> QED
        BY <3>1, <4>1, <4>2, AppendKeeps
    <3>3. CASE Len(history) # base[x]
      BY <2>1, <3>1, <3>3 DEF Commit, HistoryInv
    <3> QED
      BY <3>2, <3>3
  <2>4. resolved' \subseteq Blocks \X Blocks /\ ResolvedWhatWasSeen'
    BY <2>1 DEF ChatInv, ChatTypeOK, ResolvedWhatWasSeen
  <2> QED
    BY <2>2, <2>3, <2>4 DEF Settled
<1>4. CASE x \in Streams /\ got.what # "blocked"
  <2>1. GoesOn(x, "content", 0, Nothing)
    BY <1>4 DEF Outcome
  <2>2. Nothing \in Answers /\ 0 \in Blocks /\ "content" \in Steps
    BY DEF Nothing, Answers, Outcomes, Blocks, Steps
  <2> QED
    BY <1>4, <2>1, <2>2, GoesOnSettles
<1> QED
    BY <1>1, <1>2, <1>3, <1>4 DEF Handlers

(* The steps of a call, and what each goes on to.                          *)
LEMMA ProceedSettles ==
    ASSUME NEW x \in Handlers, NEW r \in replies, ChatInv,
           call[x] = "sent", r.by = x, r.kind = at[x],
           Proceed(x, r.kind, r.answer)
    PROVE  Settled(x)
<1> DEFINE got == r.answer
<1>1. /\ at[x] \in Calling /\ got \in Answers /\ got.of \in Blocks /\ got.by = x
      /\ before[x] \in Blocks /\ HandlerInv(x) /\ Nothing \in Answers
      /\ r.kind = "fix" => got.what \in {"error", "resolved"}
    BY DEF ChatInv, ChatTypeOK, HandlerInv, ReplyInv, Answers, Nothing, Outcomes, Blocks
<1>2. "send" \in Steps /\ "fix" \in Steps /\ "check" \in Steps
    BY DEF Steps
<1>3. CASE r.kind = "pending"
  <2>1. IF x \notin Resolvers THEN GoesOn(x, "send", got.of, Nothing)
        ELSE IF got.of = 0 THEN Fails(x)
        ELSE GoesOn(x, "fix", got.of, Nothing)
    BY <1>3 DEF Proceed
  <2> HIDE DEF got
  <2>2. CASE x \notin Resolvers
    BY <1>1, <1>2, <2>1, <2>2, GoesOnSettles
  <2>3. CASE x \in Resolvers /\ got.of = 0
    BY <2>1, <2>3, FailsSettles
  <2>4. CASE x \in Resolvers /\ got.of # 0
    BY <1>1, <1>2, <2>1, <2>4, GoesOnSettles
  <2> QED
    BY <2>2, <2>3, <2>4
<1>4. CASE r.kind \in {"send", "fix"}
  <2>1. IF got.what = "error" THEN Fails(x)
        ELSE IF got.what # "resolved" THEN Outcome(x, got)
        ELSE IF SameAsSeen(x, got) THEN GoesOn(x, "check", before[x], got)
        ELSE Fails(x)
    BY <1>4 DEF Proceed
  <2> HIDE DEF got
  <2>2. CASE got.what = "error"
    BY <2>1, <2>2, FailsSettles
  <2>3. CASE got.what # "error" /\ got.what # "resolved"
    <3>1. x \notin Resolvers
      BY <1>1, <1>4, <2>3 DEF HandlerInv
    <3> QED
      BY <1>1, <2>1, <2>3, <3>1, OutcomeSettles
  <2>4. CASE got.what = "resolved" /\ SameAsSeen(x, got)
    <3>1. got.of = before[x]
      BY <2>4 DEF SameAsSeen
    <3> QED
      BY <1>1, <1>2, <2>1, <2>4, <3>1, GoesOnSettles
  <2>5. CASE got.what = "resolved" /\ ~SameAsSeen(x, got)
    BY <2>1, <2>5, FailsSettles
  <2> QED
    BY <2>2, <2>3, <2>4, <2>5
<1>5. CASE r.kind = "check"
  <2>1. IF got.of = 0 THEN Outcome(x, answer[x]) ELSE Fails(x)
    BY <1>5 DEF Proceed
  <2>2. answer[x] \in Answers /\ answer[x].by = x /\ answer[x].of = before[x]
    BY <1>1, <1>5 DEF ChatInv, ChatTypeOK, HandlerInv
  <2> HIDE DEF got
  <2>3. CASE got.of = 0
    BY <1>1, <2>1, <2>2, <2>3, OutcomeSettles
  <2>4. CASE got.of # 0
    BY <2>1, <2>4, FailsSettles
  <2> QED
    BY <2>3, <2>4
<1> QED
    BY <1>1, <1>3, <1>4, <1>5 DEF Calling

LEMMA ReplyStepInv == ASSUME NEW x \in Handlers, ChatInv, Reply(x) PROVE ChatInv'
<1>1. PICK r \in replies : /\ r.by = x /\ r.kind = at[x]
                           /\ replies' = replies \ {r}
                           /\ Proceed(x, r.kind, r.answer)
    BY DEF Reply
<1>2. Settled(x)
    BY <1>1, ProceedSettles DEF Reply
<1>3. /\ lock = x /\ lock' = Free
      /\ UNCHANGED <<wire, pending>>
    BY DEF Reply, ChatInv, LockIsCall
<1>4. LockIsCall'
    BY <1>2, <1>3, LockGivenBack DEF Settled
<1>5. ChatTypeOK'
    BY <1>1, <1>2, <1>3 DEF ChatInv, ChatTypeOK, Settled, HandlersOK
<1>6. \A s \in replies' : ReplyInv(s)
    BY <1>1 DEF ChatInv
<1> QED
    BY <1>2, <1>4, <1>5, <1>6 DEF ChatInv, Settled, HandlersOK, ReplyInv

-----------------------------------------------------------------------------
(* A call that ends early gives the connection back if it had it, and      *)
(* leaves nothing to read on it.                                           *)
LEMMA EndEarlyInv == ASSUME NEW x \in Handlers, ChatInv, EndEarly(x) PROVE ChatInv'
<1>1. /\ Abandon(x) /\ End(x)
      /\ UNCHANGED <<pending, history, resolved>>
    BY DEF EndEarly
<1>2. HandlersOK' /\ call'[x] = "none" /\ \A y \in Handlers : y # x => call'[y] = call[y]
    BY <1>1, EndKeeps
<1>3. \/ lock = x /\ lock' = Free
      \/ lock # x /\ lock' = lock
    BY <1>1 DEF Abandon, ChatInv, LockIsCall
<1>4. LockIsCall'
    BY <1>2, <1>3, LockGivenBack
<1>5. wire' \subseteq Requests
  <2>1. \A j \in wire : [j EXCEPT !.awaited = FALSE] \in Requests
    BY ZenonT(60) DEF ChatInv, ChatTypeOK, Requests
  <2> QED
    BY <1>1, <2>1 DEF Abandon, ChatInv, ChatTypeOK
<1>6. replies' \subseteq replies
    BY <1>1 DEF Abandon
<1>7. ChatTypeOK'
  <2>1. lock' \in Handlers \cup {Free}
    BY <1>3 DEF ChatInv, ChatTypeOK
  <2> QED
    BY <1>1, <1>2, <1>5, <1>6, <2>1 DEF ChatInv, ChatTypeOK, HandlersOK
<1>8. HistoryInv' /\ ResolvedWhatWasSeen'
    BY <1>1 DEF ChatInv, HistoryInv, ResolvedWhatWasSeen
<1> QED
    BY <1>2, <1>4, <1>6, <1>7, <1>8 DEF ChatInv, HandlersOK, ReplyInv

LEMMA StreamEndsInv == ASSUME NEW x \in Handlers, ChatInv, StreamEnds(x) PROVE ChatInv'
<1>1. /\ at[x] = "content" /\ End(x)
      /\ UNCHANGED <<lock, wire, replies, pending, history, resolved>>
    BY DEF StreamEnds, governorVars
<1>2. HandlersOK' /\ call'[x] = "none" /\ \A y \in Handlers : y # x => call'[y] = call[y]
    BY <1>1, EndKeeps
<1>3. call[x] # "sent"
    BY <1>1 DEF ChatInv, HandlerInv, Calling
<1>4. LockIsCall'
    BY <1>1, <1>2, <1>3, LockGivenBack DEF ChatInv, LockIsCall
<1>5. ChatTypeOK'
    BY <1>1, <1>2 DEF ChatInv, ChatTypeOK, HandlersOK
<1> QED
    BY <1>1, <1>2, <1>4, <1>5 DEF ChatInv, HandlersOK, HistoryInv, ResolvedWhatWasSeen, ReplyInv

LEMMA ReaderLeavesInv == ASSUME NEW x \in Handlers, ChatInv, ReaderLeaves(x) PROVE ChatInv'
<1> USE DEF ChatInv, ReaderLeaves, governorVars
<1>1. ChatTypeOK'
    BY DEF ChatTypeOK, Steps
<1>2. LockIsCall' /\ HistoryInv' /\ ResolvedWhatWasSeen' /\ \A r \in replies' : ReplyInv(r)
    BY DEF LockIsCall, HistoryInv, ResolvedWhatWasSeen
<1>3. \A y \in Handlers : HandlerInv(y)'
    BY DEF ChatTypeOK, HandlerInv, Calling
<1> QED
    BY <1>1, <1>2, <1>3

LEMMA ChatNextInv == ChatInv /\ [ChatNext]_chatVars => ChatInv'
<1> SUFFICES ASSUME ChatInv, [ChatNext]_chatVars PROVE ChatInv'
    OBVIOUS
<1>1. ASSUME NEW x \in Handlers, HandlerStep(x) PROVE ChatInv'
  <2>1. CASE Begin(x)
    BY <2>1, BeginInv
  <2>2. CASE Send(x)
    BY <2>2, SendInv
  <2>3. CASE Reply(x)
    BY <2>3, ReplyStepInv
  <2>4. CASE Deadline(x) \/ ConnectionLost(x) \/ ReaderCancels(x)
    BY <2>4, EndEarlyInv DEF Deadline, ConnectionLost, ReaderCancels
  <2>5. CASE StreamEnds(x)
    BY <2>5, StreamEndsInv
  <2>6. CASE ReaderLeaves(x)
    BY <2>6, ReaderLeavesInv
  <2> QED
    BY <1>1, <2>1, <2>2, <2>3, <2>4, <2>5, <2>6 DEF HandlerStep
<1>2. ASSUME NEW j \in wire, Execute(j) PROVE ChatInv'
    BY <1>2, ExecuteInv
<1>3. CASE OtherWrite
    BY <1>3, OtherWriteInv
<1>4. CASE UNCHANGED chatVars
  <2> USE <1>4 DEF ChatInv, chatVars, handlerVars, governorVars
  <2>1. ChatTypeOK' /\ LockIsCall' /\ HistoryInv' /\ ResolvedWhatWasSeen'
    BY DEF ChatTypeOK, LockIsCall, HistoryInv, ResolvedWhatWasSeen
  <2>2. \A y \in Handlers : HandlerInv(y)'
    BY DEF HandlerInv
  <2> QED
    BY <2>1, <2>2 DEF ReplyInv
<1> QED
    BY <1>1, <1>2, <1>3, <1>4 DEF ChatNext

-----------------------------------------------------------------------------
(* The invariant holds for any number of handlers: the connection is owned *)
(* by exactly the call that was sent, an answer is of the request whose id *)
(* it carries, and a handler keeps what it saw to compare it later.        *)
THEOREM ChatInvariant == ChatSpec => []ChatInv
    BY ChatInitInv, ChatNextInv, PTL DEF ChatSpec

(* _commit_authored_turn: a turn in the conversation holds the answer to   *)
(* its own prompt and follows exactly the messages it was generated from.  *)
THEOREM TurnFollowsItsHistoryAlways == ChatSpec => []TurnFollowsItsHistory
<1>1. ChatInv => TurnFollowsItsHistory
    BY DEF ChatInv, HistoryInv, TurnFollowsItsHistory
<1> QED
    BY <1>1, ChatInvariant, PTL

(* _validate_chat_resolution_transition, resolve_pending: a resolution     *)
(* reported as done was of the pending state that was seen first.          *)
THEOREM ResolvedWhatWasSeenAlways == ChatSpec => []ResolvedWhatWasSeen
<1>1. ChatInv => ResolvedWhatWasSeen
    BY DEF ChatInv
<1> QED
    BY <1>1, ChatInvariant, PTL

(* _call and reliability.py: the connection is owned only by a call under  *)
(* way, and an invocation counted in flight still runs, but for streams    *)
(* left with their content.                                                *)
THEOREM CapacityReleasedAlways == ChatSpec => []CapacityReleased
<1>1. ChatInv => CapacityReleased
  <2> SUFFICES ASSUME ChatInv PROVE CapacityReleased
    OBVIOUS
  <2>1. lock # Free => call[lock] = "sent"
    BY DEF ChatInv, ChatTypeOK, LockIsCall
  <2>2. \A x \in Turns \cup Streams : Running(x) => x \in active
    BY DEF ChatInv, HandlerInv, Running, Handlers
  <2>3. \A x \in active : Running(x) \/ at[x] = "left"
    BY DEF ChatInv, ChatTypeOK, HandlerInv, Running, Handlers
  <2> QED
    BY <2>1, <2>2, <2>3 DEF CapacityReleased
<1> QED
    BY <1>1, ChatInvariant, PTL

-----------------------------------------------------------------------------
(* The code builder.                                                       *)
HIDE ChatTurnAssumption
USE CodeProjectAssumption

(* A project is no older than another one of which it is a later save, and *)
(* of the same version only if it is the same.                             *)
NotNewer(s, t) == s.version <= t.version /\ (s.version = t.version => s = t)

(* The first version is that of a fresh project: every save raises it.     *)
FirstIsFresh(s) == s.version = 1 => s = Fresh

(* The disk never runs ahead of memory; what an editor has read never runs *)
(* ahead of memory while it counts, nor of the disk if it was stored.      *)
VersionsInv ==
    /\ FirstIsFresh(disk) /\ FirstIsFresh(project) /\ FirstIsFresh(view.read)
    /\ NotNewer(disk, project)
    /\ view.stored => NotNewer(view.read, disk)
    /\ view.counts => NotNewer(view.read, project)

(* A file is no newer than its project, which has all that is named.       *)
FilesInv(s) ==
    /\ \A p \in DOMAIN s.files : s.files[p].version < s.version
    /\ \A n \in named : n[1] \in DOMAIN s.files /\ n[2] <= s.files[n[1]].version

(* What was last accepted is the file itself until a put of it fails, and  *)
(* still there or kept aside after one failed.                             *)
KeptInv(p) ==
    p \in DOMAIN accepted =>
        /\ failed[p] = 0 => p \in DOMAIN files /\ files[p] = accepted[p]
        /\ failed[p] = 1 => accepted[p] \in Held(p)

ProjectInv ==
    /\ ProjectTypeOK
    /\ VersionsInv
    /\ FilesInv(project) /\ FilesInv(disk)
    /\ FileVersionNamesContent
    /\ \A p \in Paths : failed[p] <= faults /\ KeptInv(p)

-----------------------------------------------------------------------------
LEMMA TableIs ==
    ASSUME NEW V, NEW f
    PROVE  f \in FileTables(V) <=> DOMAIN f \subseteq Paths /\ f \in [DOMAIN f -> V]
    BY DEF FileTables

LEMMA SetTable ==
    ASSUME NEW V, NEW f \in FileTables(V), NEW p \in Paths, NEW c \in V
    PROVE  /\ Set(f, p, c) \in FileTables(V)
           /\ DOMAIN Set(f, p, c) = DOMAIN f \cup {p}
           /\ Set(f, p, c)[p] = c
           /\ \A x \in DOMAIN f : x # p => Set(f, p, c)[x] = f[x]
<1>1. DOMAIN f \subseteq Paths /\ f \in [DOMAIN f -> V]
    BY TableIs
<1>2. Set(f, p, c) \in [DOMAIN f \cup {p} -> V]
    BY <1>1 DEF Set
<1> QED
    BY <1>1, <1>2, TableIs DEF Set

LEMMA TableHas ==
    ASSUME NEW V, NEW f \in FileTables(V), NEW p \in DOMAIN f
    PROVE  f[p] \in V /\ p \in Paths
<1>1. DOMAIN f \subseteq Paths /\ f \in [DOMAIN f -> V]
    BY TableIs
<1> QED
    BY <1>1

LEMMA ProjectFile ==
    ASSUME NEW s \in Projects, NEW p \in DOMAIN s.files
    PROVE  /\ s.files[p].version \in 1 .. MaxVersion /\ s.files[p].hash \in Contents
           /\ p \in Paths
<1>1. s.files \in FileTables(FileEntries)
    BY DEF Projects
<1>2. s.files[p] \in FileEntries /\ p \in Paths
    BY <1>1, TableHas
<1> QED
    BY <1>2 DEF FileEntries

LEMMA FreshProject == Fresh \in Projects /\ DOMAIN Fresh.files = {} /\ Fresh.version = 1
<1>1. NoFiles \in FileTables(FileEntries) /\ DOMAIN NoFiles = {}
    BY TableIs DEF NoFiles
<1>2. Empty \in Texts
    BY DEF Empty
<1>3. <<>> \in Seq(Phases)
    OBVIOUS
<1> QED
    BY <1>1, <1>2, <1>3 DEF Fresh, Projects

LEMMA ProjectInitInv == ProjectInit => ProjectInv
<1> SUFFICES ASSUME ProjectInit PROVE ProjectInv
    OBVIOUS
<1> USE DEF ProjectInit
<1>1. /\ NoFiles \in FileTables(Contents \cup {Cut}) /\ NoFiles \in FileTables(Contents)
      /\ DOMAIN NoFiles = {}
    BY TableIs DEF NoFiles
<1>2. ProjectTypeOK
    BY <1>1, FreshProject DEF ProjectTypeOK
<1>3. VersionsInv
    BY FreshProject DEF VersionsInv, FirstIsFresh, NotNewer, Projects
<1>4. FilesInv(project) /\ FilesInv(disk) /\ FileVersionNamesContent
    BY FreshProject DEF FilesInv, FileVersionNamesContent
<1>5. \A p \in Paths : failed[p] <= faults /\ KeptInv(p)
    BY <1>1 DEF KeptInv
<1> QED
    BY <1>2, <1>3, <1>4, <1>5 DEF ProjectInv

-----------------------------------------------------------------------------
(* A save writes a newer version, in memory alone when the write fails.    *)
LEMMA SaveVersions ==
    ASSUME ProjectTypeOK, VersionsInv, NEW s \in Projects, s.version = project.version,
           NEW ok \in BOOLEAN, Save(s, ok), view' = view
    PROVE  /\ project' \in Projects /\ disk' \in Projects /\ faults' \in 0 .. MaxFaults
           /\ faults <= faults'
           /\ VersionsInv'
           /\ project' = [s EXCEPT !.version = project.version + 1]
           /\ disk' = IF ok THEN project' ELSE disk
           /\ ~ok => faults' = faults + 1
<1>1. project.version \in 1 .. MaxVersion /\ project.version < MaxVersion
    BY DEF Save, ProjectTypeOK, Projects
<1>2. project' = [s EXCEPT !.version = project.version + 1]
    BY DEF Save, Projects
<1>3. project' \in Projects /\ project'.version = project.version + 1
    BY <1>1, <1>2 DEF Projects
<1>4. disk' = IF ok THEN project' ELSE disk
    BY DEF Save
<1>5. /\ disk' \in Projects /\ faults' \in 0 .. MaxFaults /\ faults <= faults'
      /\ ~ok => faults' = faults + 1
    BY <1>3, <1>4 DEF ProjectTypeOK, Save, Fault
<1>6. /\ disk.version \in Nat /\ view.read.version \in Nat
      /\ disk.version <= project.version
      /\ view.stored => view.read.version <= disk.version
      /\ view.counts => view.read.version <= project.version
    BY DEF ProjectTypeOK, Projects, VersionsInv, NotNewer
<1>7. VersionsInv'
  <2>1. NotNewer(disk', project')
    BY <1>1, <1>3, <1>4, <1>6 DEF NotNewer
  <2>2. view.stored => NotNewer(view.read, disk')
    BY <1>1, <1>3, <1>4, <1>6 DEF NotNewer, VersionsInv
  <2>3. view.counts => NotNewer(view.read, project')
    BY <1>1, <1>3, <1>6 DEF NotNewer
  <2>4. FirstIsFresh(disk') /\ FirstIsFresh(project') /\ FirstIsFresh(view'.read)
    BY <1>1, <1>3, <1>4 DEF FirstIsFresh, VersionsInv
  <2> QED
    BY <2>1, <2>2, <2>3, <2>4 DEF VersionsInv, FirstIsFresh, NotNewer
<1> QED
    BY <1>2, <1>3, <1>4, <1>5, <1>7

(* A save of a change to the text or the plan leaves the files alone.      *)
LEMMA SaveKeeps ==
    ASSUME ProjectInv, NEW s \in Projects, s.version = project.version, s.files = project.files,
           NEW ok \in BOOLEAN, Save(s, ok), UNCHANGED <<view, fileVars>>
    PROVE  ProjectInv'
<1> USE DEF fileVars
<1>1. /\ project' \in Projects /\ disk' \in Projects /\ faults' \in 0 .. MaxFaults
      /\ faults <= faults'
      /\ VersionsInv'
      /\ project' = [s EXCEPT !.version = project.version + 1]
      /\ disk' = IF ok THEN project' ELSE disk
    BY SaveVersions DEF ProjectInv
<1>2. ProjectTypeOK'
    BY <1>1 DEF ProjectInv, ProjectTypeOK
<1>3. project'.files = project.files /\ project'.version = project.version + 1
    BY <1>1 DEF Projects
<1>4. \A p \in DOMAIN project.files :
          project.files[p].version \in Nat /\ project.version \in Nat
  <2>1. project \in Projects /\ project.version \in Nat
    BY DEF ProjectInv, ProjectTypeOK, Projects
  <2> QED
    BY <2>1, ProjectFile
<1>5. FilesInv(project)' /\ FilesInv(disk)'
  <2>1. FilesInv(project)'
    BY <1>3, <1>4 DEF ProjectInv, FilesInv
  <2>2. CASE ok
    BY <1>1, <2>1, <2>2 DEF FilesInv
  <2>3. CASE ~ok
    <3>1. disk' = disk /\ named' = named /\ FilesInv(disk)
      BY <1>1, <2>3 DEF ProjectInv
    <3> QED
      BY <2>1, <3>1 DEF FilesInv
  <2> QED
    BY <2>1, <2>2, <2>3
<1>6. FileVersionNamesContent'
    BY DEF ProjectInv, FileVersionNamesContent
<1>7. \A p \in Paths : failed[p] <= faults /\ failed[p] \in Nat /\ faults \in Nat /\ faults' \in Nat
    BY <1>1 DEF ProjectInv, ProjectTypeOK
<1>8. \A p \in Paths : (failed[p] <= faults /\ KeptInv(p))'
    BY <1>1, <1>7 DEF ProjectInv, KeptInv, Held
<1> QED
    BY <1>1, <1>2, <1>5, <1>6, <1>8 DEF ProjectInv

LEMMA ReadInv == ProjectInv /\ Read => ProjectInv'
<1> SUFFICES ASSUME ProjectInv, Read PROVE ProjectInv'
    OBVIOUS
<1> USE DEF ProjectInv, Read, fileVars
<1>1. ProjectTypeOK'
    BY DEF ProjectTypeOK
<1>2. VersionsInv'
  <2>1. /\ view'.read = project /\ (view'.stored <=> project = disk)
        /\ project' = project /\ disk' = disk
    OBVIOUS
  <2>2. project.version \in Nat
    BY DEF ProjectTypeOK, Projects
  <2>3. NotNewer(disk', project') /\ NotNewer(view'.read, project')
    BY <2>1, <2>2 DEF VersionsInv, NotNewer
  <2>4. view'.stored => NotNewer(view'.read, disk')
    BY <2>1, <2>2 DEF NotNewer
  <2>5. FirstIsFresh(disk') /\ FirstIsFresh(project') /\ FirstIsFresh(view'.read)
    BY <2>1 DEF FirstIsFresh, VersionsInv
  <2> QED
    BY <2>3, <2>4, <2>5 DEF VersionsInv, FirstIsFresh, NotNewer
<1>3. FilesInv(project)' /\ FilesInv(disk)' /\ FileVersionNamesContent'
    BY DEF FilesInv, FileVersionNamesContent
<1>4. \A p \in Paths : (failed[p] <= faults /\ KeptInv(p))'
    BY DEF KeptInv, Held
<1> QED
    BY <1>1, <1>2, <1>3, <1>4

LEMMA RestartInv == ProjectInv /\ Restart => ProjectInv'
<1> SUFFICES ASSUME ProjectInv, Restart PROVE ProjectInv'
    OBVIOUS
<1>1. PICK s \in {disk, Fresh} :
          /\ project' = s /\ disk' = s
          /\ view' = [view EXCEPT !.stored = view.stored /\ view.read.version <= s.version,
                                  !.counts = view.stored /\ view.read.version <= s.version]
          /\ named' = {n \in named : n[1] \in DOMAIN s.files}
    BY DEF Restart
<1>2. UNCHANGED <<files, previous, accepted, failed>> /\ Fault
    BY DEF Restart
<1>3. /\ s \in Projects /\ s.version \in Nat /\ disk.version \in Nat
      /\ view.read.version \in Nat /\ view.read.version >= 1
      /\ view' \in [read : Projects, stored : BOOLEAN, counts : BOOLEAN]
      /\ view'.read = view.read /\ view'.counts = view'.stored
      /\ view'.stored => view.stored /\ view.read.version <= s.version
  <2>1. s \in Projects /\ disk \in Projects /\ view.read \in Projects
    BY <1>1, FreshProject DEF ProjectInv, ProjectTypeOK
  <2>2. \A t \in Projects : t.version \in Nat /\ t.version >= 1
    BY DEF Projects
  <2>3. view \in [read : Projects, stored : BOOLEAN, counts : BOOLEAN]
    BY DEF ProjectInv, ProjectTypeOK
  <2> DEFINE counts == view.stored /\ view.read.version <= s.version
  <2>4. counts \in BOOLEAN /\ view' = [view EXCEPT !.stored = counts, !.counts = counts]
    BY <1>1
  <2>5. counts => view.stored /\ view.read.version <= s.version
    OBVIOUS
  <2> HIDE DEF counts
  <2>6. /\ view' \in [read : Projects, stored : BOOLEAN, counts : BOOLEAN]
        /\ view'.read = view.read /\ view'.stored = counts /\ view'.counts = counts
    BY <2>3, <2>4
  <2> QED
    BY <2>1, <2>2, <2>5, <2>6
<1>4. faults' = faults + 1 /\ faults' \in 0 .. MaxFaults /\ faults \in Nat
    BY <1>2 DEF ProjectInv, ProjectTypeOK, Fault
<1>5. ProjectTypeOK'
    BY <1>1, <1>2, <1>3, <1>4 DEF ProjectInv, ProjectTypeOK
<1>6. VersionsInv'
  <2>1. FirstIsFresh(s) /\ FirstIsFresh(view.read)
    BY <1>1 DEF ProjectInv, VersionsInv, FirstIsFresh
  <2>2. ASSUME view'.stored PROVE NotNewer(view.read, s)
    <3>1. CASE s = disk
      BY <1>3, <2>2, <3>1 DEF ProjectInv, VersionsInv
    <3>2. CASE s = Fresh
      BY <1>3, <2>1, <2>2, <3>2, FreshProject DEF NotNewer, FirstIsFresh
    <3> QED
      BY <1>1, <3>1, <3>2
  <2>3. NotNewer(s, s)
    BY <1>3 DEF NotNewer
  <2> QED
    BY <1>1, <1>3, <2>1, <2>2, <2>3 DEF VersionsInv, FirstIsFresh, NotNewer
<1>7. FilesInv(project)' /\ FilesInv(disk)' /\ FileVersionNamesContent'
  <2>1. \A p \in DOMAIN s.files : s.files[p].version < s.version
    BY <1>1, FreshProject DEF ProjectInv, FilesInv
  <2>2. \A n \in named : n[1] \in DOMAIN s.files => n[2] <= s.files[n[1]].version
    BY <1>1, FreshProject DEF ProjectInv, FilesInv
  <2> QED
    BY <1>1, <2>1, <2>2 DEF ProjectInv, FilesInv, FileVersionNamesContent
<1>8. \A p \in Paths : (failed[p] <= faults /\ KeptInv(p))'
    BY <1>2, <1>4 DEF ProjectInv, ProjectTypeOK, KeptInv, Held
<1> QED
    BY <1>5, <1>6, <1>7, <1>8 DEF ProjectInv

(* The changes to the text and the plan are changes of a project.          *)
LEMMA UpdateTextInv ==
    ASSUME ProjectInv, NEW t \in Texts, NEW checked \in BOOLEAN, UpdateText(t, checked)
    PROVE  ProjectInv'
<1> DEFINE s == [project EXCEPT !.text = t]
<1>1. s \in Projects /\ s.version = project.version /\ s.files = project.files
    BY DEF ProjectInv, ProjectTypeOK, Projects
<1>2. PICK ok \in BOOLEAN : Save(s, ok)
    BY DEF UpdateText
<1>3. UNCHANGED <<view, fileVars>>
    BY DEF UpdateText
<1> HIDE DEF s
<1> QED
    BY <1>1, <1>2, <1>3, SaveKeeps

LEMMA AddPhaseInv == ASSUME ProjectInv, AddPhase PROVE ProjectInv'
<1> DEFINE phase == [locked |-> FALSE, items |-> <<>>]
           s == [project EXCEPT !.plan = Append(@, phase)]
<1>1. s \in Projects /\ s.version = project.version /\ s.files = project.files
  <2>1. project \in Projects /\ project.plan \in Seq(Phases)
    BY DEF ProjectInv, ProjectTypeOK, Projects
  <2>2. phase \in Phases
    BY DEF Phases
  <2> HIDE DEF phase
  <2>3. Append(project.plan, phase) \in Seq(Phases)
    BY <2>1, <2>2
  <2> QED
    BY <2>1, <2>3 DEF Projects
<1>2. PICK ok \in BOOLEAN : Save(s, ok)
    BY DEF AddPhase
<1>3. UNCHANGED <<view, fileVars>>
    BY DEF AddPhase
<1> HIDE DEF s, phase
<1> QED
    BY <1>1, <1>2, <1>3, SaveKeeps

LEMMA PhaseChanged ==
    ASSUME ProjectTypeOK, NEW i \in DOMAIN project.plan, NEW q \in Phases,
           NEW s, s = [project EXCEPT !.plan = [project.plan EXCEPT ![i] = q]]
    PROVE  s \in Projects /\ s.version = project.version /\ s.files = project.files
<1>1. project \in Projects /\ project.plan \in Seq(Phases)
    BY DEF ProjectTypeOK, Projects
<1>2. [project.plan EXCEPT ![i] = q] \in Seq(Phases)
    BY <1>1
<1> QED
    BY <1>1, <1>2 DEF Projects

LEMMA PhaseOf ==
    ASSUME ProjectTypeOK, NEW i \in DOMAIN project.plan
    PROVE  /\ project.plan[i] \in Phases /\ project.plan[i].items \in Seq(Statuses)
           /\ project \in Projects /\ project.plan \in Seq(Phases)
<1>1. project \in Projects /\ project.plan \in Seq(Phases)
    BY DEF ProjectTypeOK, Projects
<1>2. project.plan[i] \in Phases
    BY <1>1
<1>3. \A q \in Phases : q.items \in Seq(Statuses)
    BY DEF Phases
<1> QED
    BY <1>1, <1>2, <1>3

LEMMA UpdatePhaseInv ==
    ASSUME ProjectInv, NEW i \in 1 .. MaxPhases, NEW locked \in BOOLEAN, UpdatePhase(i, locked)
    PROVE  ProjectInv'
<1> DEFINE s == [project EXCEPT !.plan[i].locked = locked]
           q == [project.plan[i] EXCEPT !.locked = locked]
<1>1. i \in DOMAIN project.plan /\ ProjectTypeOK
    BY DEF UpdatePhase, ProjectInv
<1>2. q \in Phases
    BY <1>1, PhaseOf DEF Phases
<1>3. s = [project EXCEPT !.plan = [project.plan EXCEPT ![i] = q]]
    BY <1>1, PhaseOf DEF Projects
<1>4. PICK ok \in BOOLEAN : Save(s, ok)
    BY DEF UpdatePhase
<1>5. UNCHANGED <<view, fileVars>>
    BY DEF UpdatePhase
<1> HIDE DEF s, q
<1>6. s \in Projects /\ s.version = project.version /\ s.files = project.files
    BY <1>1, <1>2, <1>3, PhaseChanged
<1> QED
    BY <1>4, <1>5, <1>6, SaveKeeps

LEMMA AddItemInv ==
    ASSUME ProjectInv, NEW i \in 1 .. MaxPhases, AddItem(i)
    PROVE  ProjectInv'
<1> DEFINE s == [project EXCEPT !.plan[i].items = Append(@, "proposed")]
           items == Append(project.plan[i].items, "proposed")
           q == [project.plan[i] EXCEPT !.items = items]
<1>1. i \in DOMAIN project.plan /\ ProjectTypeOK
    BY DEF AddItem, ProjectInv
<1>2. items \in Seq(Statuses)
    BY <1>1, PhaseOf DEF Statuses
<1>3. s = [project EXCEPT !.plan = [project.plan EXCEPT ![i] = q]]
    BY <1>1, PhaseOf DEF Projects
<1>4. PICK ok \in BOOLEAN : Save(s, ok)
    BY DEF AddItem
<1>5. UNCHANGED <<view, fileVars>>
    BY DEF AddItem
<1> HIDE DEF s, items
<1>6. q \in Phases
    BY <1>1, <1>2, PhaseOf DEF Phases
<1> HIDE DEF q
<1>7. s \in Projects /\ s.version = project.version /\ s.files = project.files
    BY <1>1, <1>3, <1>6, PhaseChanged
<1> QED
    BY <1>4, <1>5, <1>7, SaveKeeps

LEMMA UpdateItemInv ==
    ASSUME ProjectInv, NEW i \in 1 .. MaxPhases, NEW j \in 1 .. MaxItems, NEW st \in Statuses,
           NEW checked \in BOOLEAN, UpdateItem(i, j, st, checked)
    PROVE  ProjectInv'
<1> DEFINE s == [project EXCEPT !.plan[i].items[j] = st]
           items == [project.plan[i].items EXCEPT ![j] = st]
           q == [project.plan[i] EXCEPT !.items = items]
<1>1. i \in DOMAIN project.plan /\ ProjectTypeOK
    BY DEF UpdateItem, ProjectInv
<1>2. items \in Seq(Statuses)
    BY <1>1, PhaseOf DEF UpdateItem
<1>3. s = [project EXCEPT !.plan = [project.plan EXCEPT ![i] = q]]
    BY <1>1, PhaseOf DEF Projects
<1>4. PICK ok \in BOOLEAN : Save(s, ok)
    BY DEF UpdateItem
<1>5. UNCHANGED <<view, fileVars>>
    BY DEF UpdateItem
<1> HIDE DEF s, items
<1>6. q \in Phases
    BY <1>1, <1>2, PhaseOf DEF Phases
<1> HIDE DEF q
<1>7. s \in Projects /\ s.version = project.version /\ s.files = project.files
    BY <1>1, <1>3, <1>6, PhaseChanged
<1> QED
    BY <1>4, <1>5, <1>7, SaveKeeps

-----------------------------------------------------------------------------
(* However far a put gets, the file that was there is kept aside, and no   *)
(* other file is touched.                                                  *)
LEMMA ReplacedKeeps ==
    ASSUME ProjectTypeOK, NEW p \in Paths, NEW c \in Contents, NEW stage, Replaced(p, c, stage)
    PROVE  /\ files' \in FileTables(Contents \cup {Cut})
           /\ previous' \in FileTables(Contents \cup {Cut})
           /\ p \in DOMAIN files => p \in DOMAIN previous' /\ previous'[p] = files[p]
           /\ stage \notin {"moved", "cut"} => p \in DOMAIN files' /\ files'[p] = c
           /\ \A x \in Paths : x # p =>
                 /\ x \in DOMAIN files => x \in DOMAIN files' /\ files'[x] = files[x]
                 /\ x \in DOMAIN previous => x \in DOMAIN previous' /\ previous'[x] = previous[x]
<1> DEFINE V == Contents \cup {Cut}
<1>1. files \in FileTables(V) /\ previous \in FileTables(V) /\ c \in V /\ Cut \in V
    BY DEF ProjectTypeOK
<1> HIDE DEF V
<1>2. DOMAIN files \subseteq Paths /\ files \in [DOMAIN files -> V]
    BY <1>1, TableIs
<1>3. /\ files' \in FileTables(V)
      /\ stage \notin {"moved", "cut"} => p \in DOMAIN files' /\ files'[p] = c
      /\ \A x \in DOMAIN files : x # p => x \in DOMAIN files' /\ files'[x] = files[x]
  <2>1. CASE stage = "moved"
    <3>1. files' = [x \in DOMAIN files \ {p} |-> files[x]]
      BY <2>1 DEF Replaced
    <3>2. DOMAIN files' \subseteq Paths /\ files' \in [DOMAIN files' -> V]
      BY <1>2, <3>1
    <3>3. files' \in FileTables(V)
      BY <3>2, TableIs
    <3> QED
      BY <2>1, <3>1, <3>3
  <2>2. CASE stage # "moved"
    <3>1. PICK d \in V : /\ files' = Set(files, p, d)
                         /\ stage # "cut" => d = c
      BY <1>1, <2>2 DEF Replaced
    <3>2. Set(files, p, d) \in FileTables(V)
      BY <1>1, SetTable
    <3>3. p \in DOMAIN Set(files, p, d) /\ Set(files, p, d)[p] = d
      BY DEF Set
    <3>4. ASSUME NEW x \in DOMAIN files, x # p
          PROVE  x \in DOMAIN Set(files, p, d) /\ Set(files, p, d)[x] = files[x]
      BY <3>4 DEF Set
    <3> QED
      BY <3>1, <3>2, <3>3, <3>4
  <2> QED
    BY <2>1, <2>2
<1>4. /\ previous' \in FileTables(V)
      /\ p \in DOMAIN files => p \in DOMAIN previous' /\ previous'[p] = files[p]
      /\ \A x \in DOMAIN previous : x # p => x \in DOMAIN previous' /\ previous'[x] = previous[x]
  <2>1. CASE p \in DOMAIN files
    <3>1. previous' = Set(previous, p, files[p]) /\ files[p] \in V
      BY <1>2, <2>1 DEF Replaced
    <3>2. /\ Set(previous, p, files[p]) \in FileTables(V)
          /\ DOMAIN Set(previous, p, files[p]) = DOMAIN previous \cup {p}
          /\ Set(previous, p, files[p])[p] = files[p]
          /\ \A x \in DOMAIN previous : x # p => Set(previous, p, files[p])[x] = previous[x]
      BY <1>1, <3>1, SetTable
    <3> QED
      BY <3>1, <3>2
  <2>2. CASE p \notin DOMAIN files
    BY <1>1, <2>2 DEF Replaced
  <2> QED
    BY <2>1, <2>2
<1> QED
    BY <1>3, <1>4 DEF V

(* What holds of a file is not changed by a put of another.                *)
LEMMA OtherFilesKept ==
    ASSUME ProjectTypeOK, NEW p \in Paths, NEW q \in Paths, p # q, KeptInv(q),
           q \in DOMAIN files => q \in DOMAIN files' /\ files'[q] = files[q],
           q \in DOMAIN previous => q \in DOMAIN previous' /\ previous'[q] = previous[q],
           failed'[q] = failed[q],
           q \in DOMAIN accepted' => q \in DOMAIN accepted /\ accepted'[q] = accepted[q]
    PROVE  KeptInv(q)'
<1>1. Held(q) \subseteq Held(q)'
    BY DEF Held
<1> QED
    BY <1>1 DEF KeptInv

(* One put that fails leaves what was accepted in its place or aside.      *)
LEMMA FailedPutKeeps ==
    ASSUME ProjectInv, NEW p \in Paths, NEW c \in Contents, NEW stage, Replaced(p, c, stage),
           failed' = [failed EXCEPT ![p] = @ + 1], faults' = faults + 1, accepted' = accepted
    PROVE  \A q \in Paths : (failed[q] <= faults /\ KeptInv(q))'
<1> SUFFICES ASSUME NEW q \in Paths PROVE (failed[q] <= faults /\ KeptInv(q))'
    OBVIOUS
<1>1. /\ p \in DOMAIN files => p \in DOMAIN previous' /\ previous'[p] = files[p]
      /\ q # p => /\ q \in DOMAIN files => q \in DOMAIN files' /\ files'[q] = files[q]
                  /\ q \in DOMAIN previous =>
                        q \in DOMAIN previous' /\ previous'[q] = previous[q]
    BY ReplacedKeeps DEF ProjectInv
<1>2. /\ failed[q] \in Nat /\ faults \in Nat /\ failed[q] <= faults
      /\ failed'[q] = IF q = p THEN failed[q] + 1 ELSE failed[q]
    BY DEF ProjectInv, ProjectTypeOK
<1>3. CASE q # p
  <2>1. KeptInv(q) /\ ProjectTypeOK
    BY DEF ProjectInv
  <2> QED
    BY <1>1, <1>2, <1>3, <2>1, OtherFilesKept
<1>4. CASE q = p
  <2>1. ASSUME p \in DOMAIN accepted, failed'[p] = 1 PROVE accepted[p] \in Held(p)'
    <3>1. p \in DOMAIN files /\ files[p] = accepted[p]
      BY <1>2, <1>4, <2>1 DEF ProjectInv, KeptInv
    <3> QED
      BY <1>1, <3>1 DEF Held
  <2>2. failed'[p] # 0
    BY <1>2, <1>4
  <2> QED
    BY <1>2, <1>4, <2>1, <2>2 DEF KeptInv
<1> QED
    BY <1>3, <1>4

-----------------------------------------------------------------------------
(* The project with the entry of a put: the file's next version is above   *)
(* all that were accepted, and below the project's next.                   *)
With(p, c) == [project EXCEPT !.files = Set(@, p, [version |-> NextVersion(p), hash |-> c])]

LEMMA NextVersionIs ==
    ASSUME ProjectInv, NEW p \in Paths
    PROVE  /\ NextVersion(p) \in 1 .. project.version
           /\ \A n \in named : n[1] = p => n[2] < NextVersion(p)
<1>1. project \in Projects /\ project.version \in 1 .. MaxVersion
    BY DEF ProjectInv, ProjectTypeOK, Projects
<1>2. \A n \in named : n[2] \in Nat /\ n[1] \in Paths
    BY DEF ProjectInv, ProjectTypeOK
<1>3. CASE p \in DOMAIN project.files
  <2>1. /\ project.files[p].version \in 1 .. MaxVersion
        /\ project.files[p].version < project.version
    BY <1>1, <1>3, ProjectFile DEF ProjectInv, FilesInv
  <2>2. NextVersion(p) = project.files[p].version + 1
    BY <1>3 DEF NextVersion
  <2>3. \A n \in named : n[1] = p => n[2] <= project.files[p].version
    BY DEF ProjectInv, FilesInv
  <2> QED
    BY <1>1, <1>2, <2>1, <2>2, <2>3
<1>4. CASE p \notin DOMAIN project.files
  <2>1. \A n \in named : n[1] # p
    BY <1>4 DEF ProjectInv, FilesInv
  <2> QED
    BY <1>1, <1>4, <2>1 DEF NextVersion
<1> QED
    BY <1>3, <1>4

LEMMA SetEntry ==
    ASSUME NEW f \in FileTables(FileEntries), NEW p \in Paths, NEW e \in FileEntries
    PROVE  /\ Set(f, p, e) \in FileTables(FileEntries)
           /\ DOMAIN Set(f, p, e) = DOMAIN f \cup {p}
           /\ Set(f, p, e)[p] = e
           /\ \A x \in DOMAIN f : x # p => Set(f, p, e)[x] = f[x]
<1>1. DOMAIN f \subseteq Paths /\ f \in [DOMAIN f -> FileEntries]
    BY TableIs
<1>2. Set(f, p, e) \in [DOMAIN f \cup {p} -> FileEntries]
    BY <1>1 DEF Set
<1> QED
    BY <1>1, <1>2, TableIs DEF Set

LEMMA WithIs ==
    ASSUME ProjectInv, NEW p \in Paths, NEW c \in Contents
    PROVE  /\ With(p, c) \in Projects
           /\ With(p, c).version = project.version
           /\ DOMAIN With(p, c).files = DOMAIN project.files \cup {p}
           /\ With(p, c).files[p].version = NextVersion(p)
           /\ \A x \in DOMAIN project.files :
                 x # p => With(p, c).files[x] = project.files[x]
<1> DEFINE entry == [version |-> NextVersion(p), hash |-> c]
<1>1. project \in Projects /\ project.version \in 1 .. MaxVersion
      /\ project.files \in FileTables(FileEntries)
    BY DEF ProjectInv, ProjectTypeOK, Projects
<1>2. entry \in FileEntries
    BY <1>1, NextVersionIs DEF FileEntries
<1>3. entry.version = NextVersion(p)
    OBVIOUS
<1>4. With(p, c) = [project EXCEPT !.files = Set(project.files, p, entry)]
    BY DEF With
<1> HIDE DEF entry
<1>5. /\ Set(project.files, p, entry) \in FileTables(FileEntries)
      /\ DOMAIN Set(project.files, p, entry) = DOMAIN project.files \cup {p}
      /\ Set(project.files, p, entry)[p] = entry
      /\ \A x \in DOMAIN project.files :
            x # p => Set(project.files, p, entry)[x] = project.files[x]
    BY <1>1, <1>2, SetEntry, ZenonT(30)
<1> DEFINE table == Set(project.files, p, entry)
<1> HIDE DEF table
<1>6. [project EXCEPT !.files = table] \in Projects
      /\ [project EXCEPT !.files = table].version = project.version
      /\ [project EXCEPT !.files = table].files = table
    BY <1>1, <1>5 DEF Projects, table
<1> QED
    BY <1>3, <1>4, <1>5, <1>6 DEF table

(* The project a put saves holds what was accepted, with the new entry.    *)
LEMMA WithFiles ==
    ASSUME ProjectInv, NEW p \in Paths, NEW c \in Contents,
           project' = [With(p, c) EXCEPT !.version = project.version + 1],
           \/ named' = named
           \/ named' = named \cup {<<p, NextVersion(p), c>>}
    PROVE  FilesInv(project)'
<1>1. /\ With(p, c) \in Projects
      /\ DOMAIN With(p, c).files = DOMAIN project.files \cup {p}
      /\ With(p, c).files[p].version = NextVersion(p)
      /\ \A x \in DOMAIN project.files : x # p => With(p, c).files[x] = project.files[x]
    BY WithIs
<1>2. project'.files = With(p, c).files /\ project'.version = project.version + 1
    BY <1>1 DEF Projects
<1>3. /\ NextVersion(p) \in 1 .. project.version /\ project.version \in Nat
      /\ \A n \in named : n[1] = p => n[2] < NextVersion(p)
    BY NextVersionIs DEF ProjectInv, ProjectTypeOK, Projects
<1>4. \A x \in DOMAIN project.files :
          project.files[x].version \in Nat /\ project.files[x].version < project.version
    BY ProjectFile DEF ProjectInv, ProjectTypeOK, FilesInv
<1>5. ASSUME NEW x \in DOMAIN project'.files
      PROVE  project'.files[x].version < project'.version
  <2>1. CASE x = p
    BY <1>1, <1>2, <1>3, <2>1
  <2>2. CASE x # p
    BY <1>1, <1>2, <1>3, <1>4, <1>5, <2>2
  <2> QED
    BY <2>1, <2>2
<1>6. ASSUME NEW n \in named'
      PROVE  n[1] \in DOMAIN project'.files /\ n[2] <= project'.files[n[1]].version
  <2>1. CASE n = <<p, NextVersion(p), c>>
    BY <1>1, <1>2, <1>3, <2>1
  <2>2. CASE n \in named
    <3>1. /\ n[1] \in DOMAIN project.files /\ n[2] <= project.files[n[1]].version
          /\ n[2] \in Nat
      BY <2>2 DEF ProjectInv, ProjectTypeOK, FilesInv
    <3>2. CASE n[1] = p
      BY <1>1, <1>2, <1>3, <2>2, <3>1, <3>2
    <3>3. CASE n[1] # p
      BY <1>1, <1>2, <3>1, <3>3
    <3> QED
      BY <3>2, <3>3
  <2> QED
    BY <1>6, <2>1, <2>2
<1> QED
    BY <1>5, <1>6 DEF FilesInv

LEMMA PutFileInv ==
    ASSUME ProjectInv, NEW p \in Paths, NEW c \in Contents, PutFile(p, c)
    PROVE  ProjectInv'
<1> DEFINE version == NextVersion(p)
<1>1. ProjectTypeOK /\ VersionsInv /\ FileVersionNamesContent
    BY DEF ProjectInv
<1>2. With(p, c) \in Projects /\ With(p, c).version = project.version
    BY WithIs
<1>3. ASSUME NEW stage \in {"moved", "cut"}, Replaced(p, c, stage), Fault,
             failed' = [failed EXCEPT ![p] = @ + 1],
             UNCHANGED <<project, disk, view, named, accepted>>
      PROVE  ProjectInv'
  <2>1. files' \in FileTables(Contents \cup {Cut}) /\ previous' \in FileTables(Contents \cup {Cut})
    BY <1>1, <1>3, ReplacedKeeps
  <2>2. faults' = faults + 1 /\ faults' \in 0 .. MaxFaults
    BY <1>1, <1>3 DEF Fault, ProjectTypeOK
  <2>3. \A q \in Paths : (failed[q] <= faults /\ KeptInv(q))'
    BY <1>3, <2>2, FailedPutKeeps
  <2>4. failed' \in [Paths -> 0 .. MaxFaults]
    BY <1>1, <1>3, <2>2, <2>3 DEF ProjectTypeOK
  <2>5. ProjectTypeOK'
    BY <1>1, <1>3, <2>1, <2>2, <2>4 DEF ProjectTypeOK
  <2>6. VersionsInv' /\ FileVersionNamesContent'
    BY <1>1, <1>3 DEF VersionsInv, FirstIsFresh, NotNewer, FileVersionNamesContent
  <2>7. FilesInv(project)' /\ FilesInv(disk)'
    BY <1>3 DEF ProjectInv, FilesInv
  <2> QED
    BY <2>3, <2>5, <2>6, <2>7 DEF ProjectInv
<1>4. ASSUME Replaced(p, c, "unsaved"), Save(With(p, c), FALSE),
             failed' = [failed EXCEPT ![p] = @ + 1],
             UNCHANGED <<view, named, accepted>>
      PROVE  ProjectInv'
  <2>1. files' \in FileTables(Contents \cup {Cut}) /\ previous' \in FileTables(Contents \cup {Cut})
    BY <1>1, <1>4, ReplacedKeeps
  <2>2. /\ project' \in Projects /\ disk' \in Projects /\ faults' \in 0 .. MaxFaults
        /\ VersionsInv'
        /\ project' = [With(p, c) EXCEPT !.version = project.version + 1]
        /\ disk' = disk /\ faults' = faults + 1
    BY <1>1, <1>2, <1>4, SaveVersions
  <2>3. \A q \in Paths : (failed[q] <= faults /\ KeptInv(q))'
    BY <1>4, <2>2, FailedPutKeeps
  <2>4. failed' \in [Paths -> 0 .. MaxFaults]
    BY <1>1, <1>4, <2>2, <2>3 DEF ProjectTypeOK
  <2>5. ProjectTypeOK'
    BY <1>1, <1>4, <2>1, <2>2, <2>4 DEF ProjectTypeOK
  <2>6. FileVersionNamesContent'
    BY <1>1, <1>4 DEF FileVersionNamesContent
  <2>7. FilesInv(project)'
    BY <1>4, <2>2, WithFiles
  <2>8. FilesInv(disk)'
    BY <1>4, <2>2 DEF ProjectInv, FilesInv
  <2> QED
    BY <2>2, <2>3, <2>5, <2>6, <2>7, <2>8 DEF ProjectInv
<1>5. ASSUME Replaced(p, c, "done"), Save(With(p, c), TRUE),
             failed' = [failed EXCEPT ![p] = 0],
             named' = named \cup {<<p, version, c>>},
             accepted' = Set(accepted, p, c), view' = view
      PROVE  ProjectInv'
  <2>1. /\ files' \in FileTables(Contents \cup {Cut})
        /\ previous' \in FileTables(Contents \cup {Cut})
        /\ p \in DOMAIN files' /\ files'[p] = c
        /\ \A x \in Paths : x # p =>
              /\ x \in DOMAIN files => x \in DOMAIN files' /\ files'[x] = files[x]
              /\ x \in DOMAIN previous => x \in DOMAIN previous' /\ previous'[x] = previous[x]
    <3>1. "done" \notin {"moved", "cut"}
      OBVIOUS
    <3> QED
      BY <1>1, <1>5, <3>1, ReplacedKeeps
  <2>2. /\ project' \in Projects /\ disk' \in Projects /\ faults' \in 0 .. MaxFaults
        /\ faults <= faults'
        /\ VersionsInv'
        /\ project' = [With(p, c) EXCEPT !.version = project.version + 1]
        /\ disk' = project'
    BY <1>1, <1>2, <1>5, SaveVersions
  <2>3. /\ version \in 1 .. project.version /\ project.version \in 1 .. MaxVersion
        /\ \A n \in named : n[1] = p => n[2] < version
        /\ \A n \in named : n[2] \in Nat
    BY <1>1, NextVersionIs DEF ProjectTypeOK, Projects
  <2> HIDE DEF version
  <2>4. named' \subseteq Paths \X (1 .. MaxVersion) \X Contents
    BY <1>1, <1>5, <2>3 DEF ProjectTypeOK
  <2>5. /\ accepted' \in FileTables(Contents) /\ p \in DOMAIN accepted' /\ accepted'[p] = c
        /\ \A x \in Paths : x # p /\ x \in DOMAIN accepted' =>
              x \in DOMAIN accepted /\ accepted'[x] = accepted[x]
    <3> DEFINE V == Contents
    <3>1. accepted \in FileTables(V) /\ c \in V
      BY <1>1 DEF ProjectTypeOK
    <3> HIDE DEF V
    <3>2. /\ Set(accepted, p, c) \in FileTables(V)
          /\ DOMAIN Set(accepted, p, c) = DOMAIN accepted \cup {p}
          /\ Set(accepted, p, c)[p] = c
          /\ \A x \in DOMAIN accepted : x # p => Set(accepted, p, c)[x] = accepted[x]
      BY <3>1, SetTable
    <3> QED
      BY <1>5, <3>2 DEF V
  <2>6. ProjectTypeOK'
    BY <1>1, <1>5, <2>1, <2>2, <2>4, <2>5 DEF ProjectTypeOK
  <2>7. FileVersionNamesContent'
    <3> SUFFICES ASSUME NEW m \in named', NEW n \in named', m[1] = n[1], m[2] = n[2]
                 PROVE  m[3] = n[3]
      BY DEF FileVersionNamesContent
    <3>1. CASE m \in named /\ n \in named
      BY <1>1, <3>1 DEF FileVersionNamesContent
    <3>2. CASE m = <<p, version, c>> /\ n = <<p, version, c>>
      BY <3>2
    <3>3. CASE m = <<p, version, c>> /\ n \in named
      BY <2>3, <3>3
    <3>4. CASE m \in named /\ n = <<p, version, c>>
      BY <2>3, <3>4
    <3> QED
      BY <1>5, <3>1, <3>2, <3>3, <3>4
  <2>8. FilesInv(project)' /\ FilesInv(disk)'
    <3>1. FilesInv(project)'
      BY <1>5, <2>2, WithFiles DEF version
    <3> QED
      BY <2>2, <3>1 DEF FilesInv
  <2>9. ASSUME NEW q \in Paths PROVE (failed[q] <= faults /\ KeptInv(q))'
    <3>1. /\ failed[q] \in Nat /\ faults \in Nat /\ failed[q] <= faults /\ faults' \in Nat
          /\ failed'[q] = IF q = p THEN 0 ELSE failed[q]
      BY <1>5, <2>2 DEF ProjectInv, ProjectTypeOK
    <3>2. CASE q # p
      <4>1. KeptInv(q)
        BY DEF ProjectInv
      <4>2. KeptInv(q)'
        BY <1>1, <2>1, <2>5, <3>1, <3>2, <4>1, OtherFilesKept
      <4> QED
        BY <2>2, <3>1, <3>2, <4>2
    <3>3. CASE q = p
      <4>1. failed'[p] = 0
        BY <3>1, <3>3
      <4> QED
        BY <2>1, <2>2, <2>5, <3>1, <3>3, <4>1 DEF KeptInv
    <3> QED
      BY <3>2, <3>3
  <2> QED
    BY <2>2, <2>6, <2>7, <2>8, <2>9 DEF ProjectInv
<1> QED
    BY <1>3, <1>4, <1>5 DEF PutFile, With

LEMMA ProjectNextInv == ProjectInv /\ [ProjectNext]_projectVars => ProjectInv'
<1> SUFFICES ASSUME ProjectInv, [ProjectNext]_projectVars PROVE ProjectInv'
    OBVIOUS
<1>1. CASE Read
    BY <1>1, ReadInv
<1>2. ASSUME NEW t \in Texts, NEW checked \in BOOLEAN, UpdateText(t, checked)
      PROVE  ProjectInv'
    BY <1>2, UpdateTextInv
<1>3. CASE PlanStep
    BY <1>3, AddPhaseInv, AddItemInv, UpdatePhaseInv, UpdateItemInv DEF PlanStep
<1>4. ASSUME NEW p \in Paths, NEW c \in Contents, PutFile(p, c) PROVE ProjectInv'
    BY <1>4, PutFileInv
<1>5. CASE Restart
    BY <1>5, RestartInv
<1>6. CASE UNCHANGED projectVars
  <2> USE <1>6 DEF ProjectInv, projectVars, fileVars
  <2>1. ProjectTypeOK' /\ VersionsInv' /\ FileVersionNamesContent'
    BY DEF ProjectTypeOK, VersionsInv, FirstIsFresh, NotNewer, FileVersionNamesContent
  <2>2. FilesInv(project)' /\ FilesInv(disk)'
    BY DEF FilesInv
  <2>3. \A p \in Paths : (failed[p] <= faults /\ KeptInv(p))'
    BY DEF KeptInv, Held
  <2> QED
    BY <2>1, <2>2, <2>3
<1> QED
    BY <1>1, <1>2, <1>3, <1>4, <1>5, <1>6 DEF ProjectNext

-----------------------------------------------------------------------------
(* The invariant holds for any project and any editors, whichever saves    *)
(* and puts fail and whenever the process is replaced.                     *)
THEOREM ProjectInvariant == ProjectSpec => []ProjectInv
    BY ProjectInitInv, ProjectNextInv, PTL DEF ProjectSpec

(* _check_version, _load: an editor whose version is current, and whose    *)
(* reading counts, has read what its change will replace, whatever fails   *)
(* and whether or not project.json can be read after a restart; and the    *)
(* version of an accepted file names one content.                          *)
THEOREM VersionNamesStateAlways == ProjectSpec => []VersionNamesState
<1>1. ProjectInv => VersionNamesState
    BY DEF ProjectInv, VersionsInv, NotNewer, VersionNamesState
<1> QED
    BY <1>1, ProjectInvariant, PTL

(* put_file: what a writer was last told is accepted is the file or its    *)
(* previous version after one put of it that failed, at any point.         *)
THEOREM FailedPutLosesNothingAlways == ProjectSpec => []FailedPutLosesNothing
<1>1. ProjectInv => FailedPutLosesNothing
  <2> SUFFICES ASSUME ProjectInv, NEW p \in DOMAIN accepted, failed[p] <= 1
               PROVE  accepted[p] \in Held(p)
    BY DEF ProjectInv, FailedPutLosesNothing
  <2>1. p \in Paths
    BY TableHas DEF ProjectInv, ProjectTypeOK
  <2>2. failed[p] \in Nat /\ KeptInv(p)
    BY <2>1 DEF ProjectInv, ProjectTypeOK
  <2> QED
    BY <2>2 DEF KeptInv, Held
<1> QED
    BY <1>1, ProjectInvariant, PTL
===============================================================================
