-------------------------- MODULE ContextMaintenance --------------------------
(***************************************************************************)
(* Derived context of one conversation: the scheduler of adapter.py (one   *)
(* task and one pending requirement per key) and the resumable work of     *)
(* context_maintenance.ContextMaintainer over the summary and checkpoint   *)
(* files of context_summary.py.                                            *)
(*                                                                         *)
(* Everything runs on one event loop and other handlers run only while a   *)
(* task awaits a provider or sleeps, so an action is what happens between  *)
(* two awaits.  A turn (user and assistant message) is the unit of         *)
(* coverage; chunks hold ChunkSize turns, packed from the left, and a node *)
(* of the merge tree is named by its height and the turns it covers.       *)
(*                                                                         *)
(* Abstracted: the text of summaries, the second merge prompt and the      *)
(* rebalancing of dense children (more calls for the same node), policies  *)
(* that change or are off; all writing models count tokens alike.          *)
(***************************************************************************)
EXTENDS Integers, FiniteSetsExt

CONSTANTS
    Models,         \* writing models, each a scheduling key
    NoModel,        \* the key of the task a start of the process schedules
    Recent,         \* turns the proactive plan of a key leaves unsummarized
    Watermark,      \* turns below which a proactive run does nothing
    ChunkSize,      \* turns that fit a chunk
    Width,          \* chunks summarized at once
    Attempts,       \* attempts of one task
    MaxTurns,       \* bound: length of the conversation
    MaxFaults       \* bound: failed calls, unavailable models, crashes

(* _context_maintenance_key: policy differs with the model, and the key     *)
(* without one is never that of a turn.                                    *)
Keys == Models \cup {NoModel}

ASSUME ContextMaintenanceAssumption ==
    /\ NoModel \notin Models
    /\ Recent \in [Keys -> Nat]
    /\ Watermark \in [Keys -> Nat]
    /\ ChunkSize \in Nat \ {0} /\ Width \in Nat \ {0} /\ Attempts \in Nat \ {0}
    /\ MaxTurns \in Nat /\ MaxFaults \in Nat

VARIABLES
    turns,      \* turns of the conversation
    summary,    \* turns the summary file covers; 0 is no summary
    work,       \* checkpoint: the source it is for, and the nodes it holds
    task,       \* the maintenance task of a key
    ended,      \* requirement of a task that is done, its callback still queued
    pending,    \* strongest requirement recorded while a task was active
    asked,      \* strongest requirement the current task owes an answer for
    dropped,    \* history: requirement the callback of an earlier task dropped
    crossed,    \* history: keys whose run has been beside another's
    faults      \* faults so far

fileVars == <<summary, work>>
taskVars == <<task, ended, pending, asked, dropped, crossed>>
maintVars == <<turns, fileVars, taskVars, faults>>

-----------------------------------------------------------------------------
Turns == 0 .. MaxTurns
Height == 0 .. MaxTurns

(* Groups of 2^h chunks; a group of one child is passed up and is no node. *)
Span(h) == ChunkSize * 2 ^ h
Node(h, g, n) == <<h, g * Span(h), Min({n, (g + 1) * Span(h)})>>
Leaves == [n \in Turns |-> {Node(0, g, n) : g \in {i \in Turns : i * ChunkSize < n}}]
Merges == [n \in Turns |-> UNION {{Node(h, g, n) : g \in {i \in Turns : i * Span(h) + Span(h - 1) < n}} :
                       h \in Height \ {0}}]
Tree == [n \in Turns |-> Leaves[n] \cup Merges[n]]
IsLeaf(x) == x[1] = 0
LeavesIn(S) == {x \in S : IsLeaf(x)}
Nodes == UNION {Tree[n] : n \in Turns}

Before(x, y) == x[1] < y[1] \/ (x[1] = y[1] /\ x[2] < y[2])
Rank(x, S) == Cardinality({y \in S : Before(y, x)})

(* The provider calls a run makes next: a batch of chunks, or one merge.   *)
NextCalls(n, got) ==
    LET leaves == Leaves[n] \ got
        merges == Merges[n] \ got
    IN IF leaves # {} THEN {x \in leaves : Rank(x, leaves) < Width}
                      ELSE {x \in merges : Rank(x, merges) = 0}

(* need is 0 for a proactive run; got is what the run holds in memory.     *)
Task == [phase : {"none", "start", "run"}, need : Turns, attempt : 0 .. Attempts,
         source : Turns, got : SUBSET Nodes]
NoTask == [phase |-> "none", need |-> 0, attempt |-> 0, source |-> 0, got |-> {}]
Started(need) == [NoTask EXCEPT !.phase = "start", !.need = need, !.attempt = 1]
Active(m) == task[m].phase # "none"
NoWork == [covered |-> 0, items |-> {}]

MaintTypeOK ==
    /\ turns \in Turns
    /\ summary \in Turns
    /\ work \in [covered : Turns, items : SUBSET Nodes]
    /\ task \in [Keys -> Task]
    /\ ended \in [Keys -> SUBSET Turns]
    /\ pending \in [Keys -> Turns]
    /\ asked \in [Keys -> Turns]
    /\ dropped \in [Keys -> Turns]
    /\ crossed \subseteq Keys
    /\ faults \in 0 .. MaxFaults

MaintInit ==
    /\ turns = 0
    /\ summary = 0
    /\ work = NoWork
    /\ task = [m \in Keys |-> NoTask]
    /\ ended = [m \in Keys |-> {}]
    /\ pending = [m \in Keys |-> 0]
    /\ asked = [m \in Keys |-> 0]
    /\ dropped = [m \in Keys |-> 0]
    /\ crossed = {}
    /\ faults = 0

Fault == faults < MaxFaults /\ faults' = faults + 1

-----------------------------------------------------------------------------
(* _schedule_context_maintenance.                                          *)
Start(m, need) == task' = [task EXCEPT ![m] = Started(need)]

(* Mutant: the task under way is all there is.                             *)
ScheduleForgetting(m, need) ==
    /\ IF Active(m) THEN UNCHANGED <<task, pending>>
       ELSE Start(m, need) /\ UNCHANGED pending
    /\ asked' = [asked EXCEPT ![m] = Max({@, need})]
    /\ UNCHANGED <<dropped, crossed>>

Outstanding(m) == IF asked[m] <= dropped[m] THEN 0 ELSE asked[m]

Schedule(m, need) ==
    /\ \/ /\ Active(m)
          /\ pending' = [pending EXCEPT ![m] = Max({@, need})]
          /\ UNCHANGED task
       \/ /\ ~Active(m)
          /\ Start(m, Max({need, pending[m]}))
          /\ pending' = [pending EXCEPT ![m] = 0]
    /\ asked' = [asked EXCEPT ![m] = Max({Outstanding(m), need})]
    /\ dropped' = [dropped EXCEPT ![m] = 0]
    /\ UNCHANGED crossed

(* Admission refuses a prompt until the summary covers more.               *)
Require(m, need) ==
    /\ need \in (summary + 1) .. turns
    /\ Schedule(m, need)
    /\ UNCHANGED <<turns, fileVars, ended, faults>>

(* A turn is committed, and maintenance is scheduled proactively.          *)
CommitTurn(m) ==
    /\ turns < MaxTurns
    /\ turns' = turns + 1
    /\ Schedule(m, 0)
    /\ UNCHANGED <<fileVars, ended, faults>>

(* The end of a task; what was asked of it is answered, one way or other.  *)
End(m) ==
    /\ task' = [task EXCEPT ![m] = NoTask]
    /\ ended' = [ended EXCEPT ![m] = {task[m].need}]
    /\ asked' = [asked EXCEPT ![m] = IF @ <= task[m].need THEN 0 ELSE @]
    /\ UNCHANGED <<pending, dropped>>

(* Mutant: a follow-up only to a proactive run.                            *)
FollowUpAfterNone(m) ==
    \E need \in ended[m] :
        /\ ended' = [ended EXCEPT ![m] = {}]
        /\ pending' = [pending EXCEPT ![m] = 0]
        /\ IF need = 0 /\ pending[m] > 0 /\ ~Active(m)
           THEN Start(m, pending[m]) ELSE UNCHANGED task
        /\ UNCHANGED <<turns, fileVars, asked, dropped, crossed, faults>>

(* The done callback "finished": it takes the recorded requirement, and    *)
(* schedules it if it is stronger than the one of the task that ended; if  *)
(* not it drops it, though it was recorded for a newer task.               *)
Callback(m) ==
    \E need \in ended[m] :
        /\ ended' = [ended EXCEPT ![m] = {}]
        /\ \/ /\ pending[m] > need /\ ~Active(m)
              /\ Start(m, pending[m])
              /\ pending' = [pending EXCEPT ![m] = 0]
              /\ UNCHANGED dropped
           \/ /\ pending[m] > need /\ Active(m)
              /\ UNCHANGED <<task, pending, dropped>>
           \/ /\ pending[m] <= need
              /\ pending' = [pending EXCEPT ![m] = 0]
              /\ dropped' = [dropped EXCEPT ![m] = IF Active(m) THEN pending[m] ELSE @]
              /\ UNCHANGED task
        /\ UNCHANGED <<turns, fileVars, asked, crossed, faults>>

-----------------------------------------------------------------------------
(* _perform_context_maintenance_once up to its first provider call.        *)
Planned(m) == Max({0, turns - Recent[m]})
Source(m) == Max({Planned(m), Min({task[m].need, turns})})
BelowWatermark(m) == task[m].need = 0 /\ turns < Watermark[m]
(* Mutant: the coverage of the summary is not looked at.                   *)
SufficientIfQuiet(m) == BelowWatermark(m)

Sufficient(m) == BelowWatermark(m) \/ summary >= Source(m)

Store(n, items) == work' = [covered |-> n, items |-> items]

(* A tree is complete: the checkpoint is pruned to it, then the summary is *)
(* written, and the task ends.                                             *)
Finish(m, n) ==
    /\ Store(n, Tree[n])
    /\ summary' = n
    /\ End(m)

(* Chunks of this source, and every merge, found in the checkpoint.        *)
Reusable(n) == {x \in work.items : IsLeaf(x) => x \in Leaves[n]}

(* History: two runs of one conversation, each with work in memory.        *)
Holding(m) == task[m].phase = "run" \/ task[m].got # {}
Beside(m) == {k \in Keys \ {m} : Holding(k)}
Cross(m) ==
    crossed' = IF Beside(m) = {} THEN crossed \ {m} ELSE crossed \cup {m} \cup Beside(m)

Begin(m) ==
    /\ task[m].phase = "start"
    /\ ended[m] = {}
    /\ LET n == Source(m)  got == Reusable(n)  running == [task[m] EXCEPT
               !.phase = "run", !.source = n, !.got = got] IN
       \/ /\ Sufficient(m)
          /\ End(m) /\ UNCHANGED <<fileVars, crossed>>
       \/ /\ ~Sufficient(m) /\ Tree[n] \subseteq got
          /\ Finish(m, n) /\ Cross(m)
       \/ /\ ~Sufficient(m) /\ ~(Tree[n] \subseteq got)
          /\ IF Leaves[n] \subseteq got THEN Store(n, got) ELSE UNCHANGED work
          /\ task' = [task EXCEPT ![m] = running]
          /\ Cross(m)
          /\ UNCHANGED <<summary, ended, pending, asked, dropped>>
    /\ UNCHANGED <<turns, faults>>

(* ContextTooLarge or ContextMaintenanceUnavailable: not worth a retry.    *)
Unavailable(m) ==
    /\ task[m].phase = "start" /\ ended[m] = {}
    /\ ~Sufficient(m)
    /\ End(m)
    /\ Fault
    /\ UNCHANGED <<turns, fileVars, crossed>>

(* All calls of a batch return, or the one merge does.                     *)
CallsReturn(m) ==
    LET n == task[m].source
        got == task[m].got \cup NextCalls(n, task[m].got)
    IN
    /\ task[m].phase = "run"
    /\ \/ Tree[n] \subseteq got /\ Finish(m, n)
       \/ /\ ~(Tree[n] \subseteq got)
          /\ Store(n, got)
          /\ task' = [task EXCEPT ![m].got = got]
          /\ UNCHANGED <<summary, ended, pending, asked, dropped>>
    /\ UNCHANGED <<turns, crossed, faults>>

(* The next attempt, after a delay; or no more, after the last one and     *)
(* whenever the failure is a ContextTooLarge or an unavailable model.      *)
Retry(m, got) ==
    \/ /\ task[m].attempt < Attempts
       /\ task' = [task EXCEPT ![m].phase = "start", ![m].attempt = @ + 1, ![m].got = got]
       /\ UNCHANGED <<ended, pending, asked, dropped>>
    \/ End(m)

(* Mutant: a failing batch is dropped as a whole.                          *)
FailingBatchDropped(m) ==
    LET calls == NextCalls(task[m].source, task[m].got) IN
    /\ task[m].phase = "run"
    /\ \E ok \in (SUBSET calls) \ {calls} : Retry(m, task[m].got \cup ok)
    /\ Fault
    /\ UNCHANGED <<turns, fileVars, crossed>>

(* Some call of a batch fails: what the others yielded is kept.  A merge   *)
(* that fails stores nothing.                                              *)
CallsFail(m) ==
    LET n == task[m].source
        calls == NextCalls(n, task[m].got)
    IN
    /\ task[m].phase = "run"
    /\ \E ok \in (SUBSET calls) \ {calls} :
          LET got == task[m].got \cup ok IN
          /\ IF ~(Leaves[n] \subseteq task[m].got) /\ LeavesIn(got) # {}
             THEN Store(n, got) ELSE UNCHANGED work
          /\ Retry(m, got)
    /\ Fault
    /\ UNCHANGED <<turns, summary, crossed>>

(* The process is replaced; _reconcile_interrupted_maintenance schedules a *)
(* proactive run, without a model, when the checkpoint is ahead of the     *)
(* summary.                                                                *)
Restarted(checkpoint) ==
    /\ task' = [m \in Keys |->
           IF m = NoModel /\ checkpoint.covered > summary THEN Started(0) ELSE NoTask]
    /\ ended' = [m \in Keys |-> {}]
    /\ pending' = [m \in Keys |-> 0]
    /\ asked' = [m \in Keys |-> 0]
    /\ dropped' = [m \in Keys |-> 0]
    /\ crossed' = {}
    /\ Fault
    /\ UNCHANGED <<turns, summary>>

Crash == Restarted(work) /\ UNCHANGED work

(* ... between the last write of the checkpoint and the summary.           *)
CrashBeforeSummary(m) ==
    LET n == task[m].source IN
    /\ task[m].phase = "run"
    /\ Tree[n] \subseteq task[m].got \cup NextCalls(n, task[m].got)
    /\ Store(n, Tree[n])
    /\ Restarted([covered |-> n, items |-> Tree[n]])

MaintStep(m) == Begin(m) \/ CallsReturn(m)

MaintNext ==
    \/ Crash
    \/ \E m \in Keys :
          \/ MaintStep(m) \/ Callback(m)
          \/ Unavailable(m) \/ CallsFail(m) \/ CrashBeforeSummary(m)
    \/ \E m \in Models :
          \/ CommitTurn(m)
          \/ \E need \in Turns : Require(m, need)

MaintSpec == MaintInit /\ [][MaintNext]_maintVars

(* Tasks and callbacks of the event loop run, and every provider call ends *)
(* (daemon RPCs have a deadline); a writer may never come back.            *)
FairMaint ==
    /\ MaintSpec
    /\ \A m \in Keys : WF_maintVars(MaintStep(m)) /\ WF_maintVars(Callback(m))

-----------------------------------------------------------------------------
(* "Work already paid for survives into the checkpoint so a retry resumes  *)
(* rather than restarting": between two provider calls, and while a task   *)
(* waits for its next attempt, all it has paid for is on disk, as long as  *)
(* no other run of the conversation has come beside it.                    *)
PaidIsKept ==
    /\ MaintTypeOK
    /\ \A m \in Keys \ crossed : Active(m) => task[m].got \subseteq work.items

(* The same as the comment has it (context_maintenance.py 346): of every   *)
(* run.  It does not hold: two keys of one conversation run at once, and   *)
(* each replaces the checkpoint of the other.                              *)
RetryResumes == \A m \in Keys : Active(m) => task[m].got \subseteq work.items

(* A writer whose story was ready is not told to wait again: the summary   *)
(* of a conversation comes to cover less only at the end of a run that     *)
(* another run has been beside.                                            *)
Shortened == \E m \in crossed : /\ task[m].phase = "run" /\ ~Active(m)'
                                /\ summary' = task[m].source
SummaryGrows == [][summary' >= summary \/ Shortened]_maintVars

(* "One run per session, but never at the cost of forgetting a stronger    *)
(* requirement": it is met by the task under way, or recorded, until a     *)
(* task that was asked for it has ended; only the late callback of an      *)
(* earlier task, asked for as much, may drop it.                           *)
RequirementRemembered ==
    \A m \in Keys : asked[m] > 0 =>
        \/ Active(m) /\ task[m].need >= asked[m]
        \/ pending[m] >= asked[m]
        \/ dropped[m] >= asked[m]

(* What admission asked for is met, or given up by a task that tried it,   *)
(* or dropped by such a callback.                                          *)
AskedIsAnswered == \A m \in Keys : asked[m] > 0 ~> (asked[m] = 0 \/ dropped[m] >= asked[m])

(* Does not hold: the start-up run returns below the watermark.            *)
(* "A container replacement mid-maintenance no longer waits for the        *)
(* writer's next attempt": a checkpoint that is ahead of its summary       *)
(* catches up.                                                             *)
InterruptedCatchesUp == work.covered > summary ~> work.covered <= summary
=============================================================================
