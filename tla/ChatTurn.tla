------------------------------- MODULE ChatTurn -------------------------------
(***************************************************************************)
(* A turn that is generated while the browser waits: the handlers of       *)
(* adapter.py that ask the governor, the checks of                         *)
(* governed_chat_adapter.py around the answer, the framed socket of        *)
(* daemon_client.py and the accounting of reliability.py.                  *)
(*                                                                         *)
(* All handlers of one project share one connection, which one call owns   *)
(* at a time.  A call waits for it, sends one request and reads until the  *)
(* answer with its own id; one deadline covers all of it.  A deadline, a   *)
(* cancellation or an error closes the connection, which is opened again   *)
(* by the next call.  The governor may go on with a request nobody waits   *)
(* for any more, and may never answer.  A request id is the handler and    *)
(* the step it is at, of which there is one each; the contract check and   *)
(* the calls for receipts are further short calls like those here and are  *)
(* left out.                                                               *)
(***************************************************************************)
EXTENDS Integers, Sequences, FiniteSets

CONSTANTS
    Turns,      \* requests of one conversation
    Streams,    \* requests without a conversation, answered as events
    Resolvers,  \* requests to resolve what the governor holds back
    MaxWrites   \* bound: other writes to the conversation

Handlers == Turns \cup Streams \cup Resolvers
Free == "free"

ASSUME ChatTurnAssumption ==
    /\ Turns \cap Streams = {} /\ Turns \cap Resolvers = {} /\ Streams \cap Resolvers = {}
    /\ Free \notin Handlers
    /\ MaxWrites \in Nat

VARIABLES
    at,       \* the step each handler is at
    call,     \* its call: none, queued for the connection, or sent
    base,     \* how long the conversation was when the turn was prepared
    before,   \* the pending state it found: a number, 0 for none
    answer,   \* what the governor generated or resolved for it
    lock,     \* the handler that owns the connection
    wire,     \* requests the governor has: of whom, and whether awaited
    replies,  \* answers on the connection
    pending,  \* the governor's pending state, and how many there were
    active,   \* invocations counted in flight
    history,  \* the conversation: turns and other writes
    resolved  \* <<seen, resolved>> of the resolutions reported as done

handlerVars == <<at, call, base, before, answer>>
governorVars == <<wire, replies, pending>>
chatVars == <<handlerVars, lock, governorVars, active, history, resolved>>

-----------------------------------------------------------------------------
Steps == {"new", "pending", "send", "fix", "check", "content", "left", "over"}
Requests == [by : Handlers, kind : Steps, awaited : BOOLEAN]
Blocks == Nat
Nothing == [what |-> "nothing", by |-> Free, of |-> 0]
Outcomes == {"nothing", "authored", "blocked", "resolved", "error"}
Answers == [what : Outcomes, by : Handlers \cup {Free}, of : Blocks]
Entries == [by : Turns \cup {Free}, answer : Handlers \cup {Free}, after : Nat]

ChatTypeOK ==
    /\ at \in [Handlers -> Steps]
    /\ call \in [Handlers -> {"none", "queued", "sent"}]
    /\ base \in [Handlers -> Nat]
    /\ before \in [Handlers -> Blocks]
    /\ answer \in [Handlers -> Answers]
    /\ lock \in Handlers \cup {Free}
    /\ wire \subseteq Requests
    /\ replies \subseteq [by : Handlers, kind : Steps, answer : Answers]
    /\ pending \in [now : Blocks, ever : Blocks]
    /\ active \subseteq Turns \cup Streams
    /\ history \in Seq(Entries)
    /\ resolved \subseteq Blocks \X Blocks

ChatInit ==
    /\ at = [x \in Handlers |-> "new"]
    /\ call = [x \in Handlers |-> "none"]
    /\ base = [x \in Handlers |-> 0]
    /\ before = [x \in Handlers |-> 0]
    /\ answer = [x \in Handlers |-> Nothing]
    /\ lock = Free
    /\ wire = {} /\ replies = {}
    /\ pending = [now |-> 0, ever |-> 0]
    /\ active = {}
    /\ history = <<>>
    /\ resolved = {}

-----------------------------------------------------------------------------
(* _prepare_generation_commit: a turn extends the conversation as it is.   *)
Prepared(x) == IF x \in Turns THEN Len(history) ELSE 0

(* chat_completions as far as the first call, governed_chat_resolve: the   *)
(* turn is prepared, and counted in flight from here on.  A request that   *)
(* is refused or sent to the worker before that never begins.              *)
Begin(x) ==
    /\ at[x] = "new"
    /\ at' = [at EXCEPT ![x] = "pending"]
    /\ call' = [call EXCEPT ![x] = "queued"]
    /\ base' = [base EXCEPT ![x] = Prepared(x)]
    /\ active' = IF x \in Resolvers THEN active ELSE active \cup {x}
    /\ UNCHANGED <<before, answer, lock, governorVars, history, resolved>>

(* _acquire, connect, _write_message.                                      *)
Send(x) ==
    /\ call[x] = "queued" /\ lock = Free
    /\ lock' = x
    /\ call' = [call EXCEPT ![x] = "sent"]
    /\ wire' = wire \cup {[by |-> x, kind |-> at[x], awaited |-> TRUE]}
    /\ UNCHANGED <<at, base, before, answer, replies, pending, active, history, resolved>>

(* Another writer of the conversation: an import, a title, a move.         *)
OtherWrite ==
    /\ Cardinality({i \in DOMAIN history : history[i].by = Free}) < MaxWrites
    /\ history' = Append(history, [by |-> Free, answer |-> Free, after |-> Len(history)])
    /\ UNCHANGED <<handlerVars, lock, governorVars, active, resolved>>

-----------------------------------------------------------------------------
(* The governor executes a request.  A generation is answered, held back   *)
(* as a new pending state, or fails; with a state pending, it holds that   *)
(* one back again or takes the message for its resolution.                 *)
Executed(j) ==
    LET none == pending.now = 0
        says(w, p) == [what |-> w, by |-> j.by, of |-> p]
    IN  CASE j.kind = "send" ->
               {<<says("error", 0), pending>>} \cup
               IF none
               THEN {<<says("authored", 0), pending>>,
                     <<says("blocked", pending.ever + 1),
                       [now |-> pending.ever + 1, ever |-> pending.ever + 1]>>}
               ELSE {<<says("blocked", pending.now), pending>>,
                     <<says("resolved", pending.now), [pending EXCEPT !.now = 0]>>}
          [] j.kind = "fix" ->
               {IF none THEN <<says("error", 0), pending>>
                ELSE <<says("resolved", pending.now), [pending EXCEPT !.now = 0]>>}
          [] OTHER -> {<<says("nothing", pending.now), pending>>}

Execute(j) ==
    /\ j \in wire
    /\ wire' = wire \ {j}
    /\ \E e \in Executed(j) :
          /\ pending' = e[2]
          /\ replies' = IF j.awaited
                        THEN replies \cup {[by |-> j.by, kind |-> j.kind, answer |-> e[1]]}
                        ELSE replies
    /\ UNCHANGED <<handlerVars, lock, active, history, resolved>>

-----------------------------------------------------------------------------
(* The handler is through; its invocation is no longer in flight.          *)
End(x) ==
    /\ at' = [at EXCEPT ![x] = "over"]
    /\ call' = [call EXCEPT ![x] = "none"]
    /\ base' = [base EXCEPT ![x] = 0]
    /\ before' = [before EXCEPT ![x] = 0]
    /\ answer' = [answer EXCEPT ![x] = Nothing]
    /\ active' = active \ {x}

(* The handler goes on, with what it has been told so far.                 *)
GoesOn(x, step, seen, got) ==
    /\ at' = [at EXCEPT ![x] = step]
    /\ call' = [call EXCEPT ![x] = IF step = "content" THEN "none" ELSE "queued"]
    /\ before' = [before EXCEPT ![x] = seen]
    /\ answer' = [answer EXCEPT ![x] = got]
    /\ UNCHANGED <<base, active, history, resolved>>

(* Mutant: the turn is appended to the conversation as it is now.          *)
AppendAnyway(x, got) ==
    history' = Append(history, [by |-> x, answer |-> got.by, after |-> base[x]])

(* _commit_authored_turn, append_messages_if_revision: only if nothing was *)
(* written since.                                                          *)
Commit(x, got) ==
    IF Len(history) = base[x]
    THEN history' = Append(history, [by |-> x, answer |-> got.by, after |-> base[x]])
    ELSE UNCHANGED history

Fails(x) == End(x) /\ UNCHANGED <<history, resolved>>

(* What chat_completions, _stream_via_daemon and governed_chat_resolve do  *)
(* with a governed outcome.                                                *)
Outcome(x, got) ==
    CASE x \in Resolvers ->
           /\ resolved' = resolved \cup {<<before[x], got.of>>}
           /\ End(x) /\ UNCHANGED history
      [] x \notin Resolvers /\ got.what = "blocked" -> Fails(x)
      [] x \in Turns /\ got.what # "blocked" -> End(x) /\ Commit(x, got) /\ UNCHANGED resolved
      [] x \in Streams /\ got.what # "blocked" -> GoesOn(x, "content", 0, Nothing)

(* Mutant: whatever was resolved is taken for what was seen.               *)
AnyResolution(x, got) == TRUE

(* _validate_chat_resolution_transition, resolve_pending: a resolution is  *)
(* of the pending state that was seen first.                               *)
SameAsSeen(x, got) == before[x] # 0 /\ got.of = before[x]

(* chat_send and resolve_pending, after each answer.                       *)
Proceed(x, kind, got) ==
    CASE kind = "pending" ->
           IF x \notin Resolvers THEN GoesOn(x, "send", got.of, Nothing)
           ELSE IF got.of = 0 THEN Fails(x)
           ELSE GoesOn(x, "fix", got.of, Nothing)
      [] kind \in {"send", "fix"} ->
           IF got.what = "error" THEN Fails(x)
           ELSE IF got.what # "resolved" THEN Outcome(x, got)
           ELSE IF SameAsSeen(x, got) THEN GoesOn(x, "check", before[x], got)
           ELSE Fails(x)
      [] kind = "check" ->
           IF got.of = 0 THEN Outcome(x, answer[x]) ELSE Fails(x)

(* _call reads the answer with the id of its request, and gives the        *)
(* connection back.                                                        *)
Reply(x) ==
    /\ call[x] = "sent"
    /\ \E r \in replies :
          /\ r.by = x /\ r.kind = at[x]
          /\ replies' = replies \ {r}
          /\ Proceed(x, r.kind, r.answer)
    /\ lock' = Free
    /\ UNCHANGED <<wire, pending>>

-----------------------------------------------------------------------------
(* Mutant: a call that ends early keeps the connection.                    *)
KeepsLock(x) == UNCHANGED <<lock, wire, replies>>

(* close, and the release of the connection: nothing of it is read again,  *)
(* though the governor may go on with what changes something.              *)
Abandon(x) ==
    IF call[x] = "sent"
    THEN /\ lock' = Free
         /\ wire' = {[j EXCEPT !.awaited = FALSE] : j \in {k \in wire : k.kind \in {"send", "fix"}}}
         /\ replies' = {}
    ELSE UNCHANGED <<lock, wire, replies>>

EndEarly(x) ==
    /\ Abandon(x)
    /\ End(x)
    /\ UNCHANGED <<pending, history, resolved>>

(* Mutant: the deadline covers only the wait for the connection.           *)
QueuedOnly(x) == call[x] = "queued"

Waiting(x) == call[x] # "none"

(* DaemonTimeoutError, waiting for the connection or for the answer.       *)
Deadline(x) == Waiting(x) /\ EndEarly(x)

(* The governor closes the connection.  In the middle of a frame this side *)
(* keeps it open for one more call, which fails in the same way.           *)
ConnectionLost(x) ==
    /\ call[x] = "sent"
    /\ EndEarly(x)

(* The reader of a stream goes away while nothing was sent yet: the        *)
(* handler is cancelled.                                                   *)
ReaderCancels(x) ==
    /\ x \in Streams
    /\ Waiting(x)
    /\ EndEarly(x)

(* The reader takes the content and asks for the rest.                     *)
StreamEnds(x) ==
    /\ at[x] = "content"
    /\ End(x)
    /\ UNCHANGED <<lock, governorVars, history, resolved>>

(* The reader goes away with the content: the generator is closed at its   *)
(* yield, which neither of its exception clauses catches.                  *)
ReaderLeaves(x) ==
    /\ at[x] = "content"
    /\ at' = [at EXCEPT ![x] = "left"]
    /\ UNCHANGED <<call, base, before, answer, lock, governorVars, active, history, resolved>>

HandlerStep(x) ==
    \/ Begin(x) \/ Send(x) \/ Reply(x)
    \/ Deadline(x) \/ ConnectionLost(x) \/ ReaderCancels(x)
    \/ StreamEnds(x) \/ ReaderLeaves(x)

ChatNext ==
    \/ \E x \in Handlers : HandlerStep(x)
    \/ \E j \in wire : Execute(j)
    \/ OtherWrite

ChatSpec == ChatInit /\ [][ChatNext]_chatVars

(* The timers of the event loop fire, and a reader of a stream takes the   *)
(* rest or goes away.  Nothing is assumed of the governor.                 *)
FairChat ==
    /\ ChatSpec
    /\ \A x \in Handlers :
          WF_chatVars(Deadline(x)) /\ WF_chatVars(StreamEnds(x) \/ ReaderLeaves(x))

-----------------------------------------------------------------------------
(* A turn in the conversation holds the answer to its own prompt, and      *)
(* follows exactly the messages it was generated from, though others wrote *)
(* and other calls of the connection were given up while it was generated. *)
TurnFollowsItsHistory ==
    /\ ChatTypeOK
    /\ \A i \in DOMAIN history : history[i].after = i - 1 /\ history[i].answer = history[i].by

(* A resolution reported as done was of the pending state the handler had  *)
(* seen, whoever else resolved or was held back in between.                *)
ResolvedWhatWasSeen == \A r \in resolved : r[1] = r[2]

(* The connection is owned only by a call that is under way, however calls *)
(* end; and an invocation counted in flight is one that still runs, but    *)
(* for streams left with their content.                                    *)
Running(x) == at[x] \notin {"new", "left", "over"}
CapacityReleased ==
    /\ lock # Free => call[lock] = "sent"
    /\ \A x \in Turns \cup Streams : Running(x) => x \in active
    /\ \A x \in active : Running(x) \/ at[x] = "left"

(* "Every governed invocation either returns a valid governed outcome or   *)
(* fails within a bounded interval", though the governor never answers.    *)
TurnSettles == \A x \in Handlers : at[x] = "pending" ~> ~Running(x)

(* Does not hold: a stream may be left at its content.                     *)
(* "It releases serialized governor capacity": an invocation that is over  *)
(* is not counted in flight.                                               *)
OverIsNotInFlight == \A x \in active : Running(x)
=============================================================================
