----------------------- MODULE ContextMaintenanceProofs -----------------------
(***************************************************************************)
(* Proofs about ContextMaintenance, for any conversation, chunks, windows  *)
(* and watermarks, any number of writing models and of failed calls and    *)
(* crashes: what a task owes the handlers that asked, and what its runs    *)
(* may do to the two files.                                                *)
(***************************************************************************)
EXTENDS ContextMaintenance, FiniteSetTheorems, TLAPS

LEMMA MaxIs ==
    ASSUME NEW a \in Int, NEW b \in Int
    PROVE  Max({a, b}) = IF a >= b THEN a ELSE b
<1> DEFINE m == IF a >= b THEN a ELSE b
<1>1. m \in {a, b} /\ \A y \in {a, b} : y <= m
    OBVIOUS
<1>2. \A x \in {a, b} : (\A y \in {a, b} : y <= x) => x = m
    OBVIOUS
<1> QED
    BY <1>1, <1>2 DEF Max

LEMMA MinIs ==
    ASSUME NEW a \in Int, NEW b \in Int
    PROVE  Min({a, b}) = IF a <= b THEN a ELSE b
<1> DEFINE m == IF a <= b THEN a ELSE b
<1>1. m \in {a, b} /\ \A y \in {a, b} : m <= y
    OBVIOUS
<1>2. \A x \in {a, b} : (\A y \in {a, b} : x <= y) => x = m
    OBVIOUS
<1> QED
    BY <1>1, <1>2 DEF Min

-----------------------------------------------------------------------------
(* Types: whatever the scheduler and the maintainer do, requirements are   *)
(* turns of the conversation and nodes belong to a tree.                   *)

LEMMA TurnsAre == Turns \subseteq Nat /\ 0 \in Turns /\ MaxTurns \in Nat
    BY ContextMaintenanceAssumption DEF Turns

LEMMA GreaterTurn ==
    ASSUME NEW a \in Turns, NEW b \in Turns
    PROVE  /\ Max({a, b}) \in Turns /\ a <= Max({a, b}) /\ b <= Max({a, b})
           /\ Max({a, b}) = a \/ Max({a, b}) = b
<1>1. a \in Int /\ b \in Int
    BY TurnsAre
<1> QED
    BY <1>1, MaxIs

(* A source is a prefix of the conversation.                               *)
LEMMA SourceIs ==
    ASSUME MaintTypeOK, NEW m \in Keys
    PROVE  Source(m) \in Turns
<1>1. turns \in Turns /\ task[m].need \in Turns /\ Recent[m] \in Nat
    BY ContextMaintenanceAssumption DEF MaintTypeOK, Task
<1>2. turns \in 0 .. MaxTurns /\ MaxTurns \in Nat
    BY <1>1, TurnsAre DEF Turns
<1>3. Planned(m) \in Turns
  <2>1. turns - Recent[m] \in Int /\ turns - Recent[m] <= turns
    BY <1>1, <1>2
  <2>2. Max({0, turns - Recent[m]}) = IF 0 >= turns - Recent[m] THEN 0 ELSE turns - Recent[m]
    BY <2>1, MaxIs
  <2> QED
    BY <1>2, <2>1, <2>2 DEF Planned, Turns
<1>4. Min({task[m].need, turns}) \in Turns
  <2>1. task[m].need \in Int /\ turns \in Int
    BY <1>1, TurnsAre
  <2> QED
    BY <1>1, <2>1, MinIs
<1> QED
    BY <1>3, <1>4, GreaterTurn DEF Source

LEMMA TreesOfNodes ==
    ASSUME NEW n \in Turns
    PROVE  /\ Tree[n] \subseteq Nodes /\ Leaves[n] \subseteq Nodes
           /\ \A got : NextCalls(n, got) \subseteq Nodes
<1>1. Tree[n] \subseteq Nodes
    BY DEF Nodes
<1> QED
    BY <1>1 DEF Tree, NextCalls

LEMMA StartedIs ==
    ASSUME NEW need \in Turns
    PROVE  /\ Started(need) \in Task
           /\ Started(need).phase = "start" /\ Started(need).need = need
           /\ Started(need).got = {}
<1>1. 1 \in 0 .. Attempts
    BY ContextMaintenanceAssumption
<1> QED
    BY <1>1, TurnsAre DEF Started, NoTask, Task

LEMMA NoTaskIs == NoTask \in Task /\ NoTask.phase = "none" /\ NoTask.got = {}
<1>1. 0 \in 0 .. Attempts
    BY ContextMaintenanceAssumption
<1> QED
    BY <1>1, TurnsAre DEF NoTask, Task

(* The scheduler's state, and the tasks.                                   *)
Scheduled ==
    /\ task \in [Keys -> Task]
    /\ ended \in [Keys -> SUBSET Turns]
    /\ pending \in [Keys -> Turns]
    /\ asked \in [Keys -> Turns]
    /\ dropped \in [Keys -> Turns]

Others(m) ==
    \A k \in Keys \ {m} :
        /\ task'[k] = task[k] /\ ended'[k] = ended[k]
        /\ pending'[k] = pending[k] /\ asked'[k] = asked[k] /\ dropped'[k] = dropped[k]

(* A request finds a task, and leaves its requirement, or starts one.      *)
LEMMA ScheduleDoes ==
    ASSUME MaintTypeOK, NEW m \in Keys, NEW need \in Turns, Schedule(m, need), ended' = ended
    PROVE  /\ Scheduled' /\ Others(m)
           /\ asked'[m] = Outstanding(m) \/ asked'[m] = need
           /\ need <= asked'[m] /\ Outstanding(m) <= asked'[m] /\ dropped'[m] = 0
           /\ \/ /\ Active(m) /\ task'[m] = task[m]
                 /\ need <= pending'[m] /\ pending[m] <= pending'[m]
              \/ /\ ~Active(m) /\ pending'[m] = 0
                 /\ task'[m].phase = "start" /\ task'[m].got = {}
                 /\ need <= task'[m].need /\ pending[m] <= task'[m].need
<1>1. /\ task \in [Keys -> Task] /\ ended \in [Keys -> SUBSET Turns]
      /\ pending \in [Keys -> Turns] /\ asked \in [Keys -> Turns]
      /\ dropped \in [Keys -> Turns]
      /\ pending[m] \in Turns /\ Outstanding(m) \in Turns
    BY TurnsAre DEF MaintTypeOK, Outstanding
<1>2. PICK top \in Turns : /\ top = Max({Outstanding(m), need})
                           /\ top = Outstanding(m) \/ top = need
                           /\ need <= top /\ Outstanding(m) <= top
    BY <1>1, GreaterTurn
<1>3. asked' = [asked EXCEPT ![m] = top] /\ dropped' = [dropped EXCEPT ![m] = 0]
    BY <1>2 DEF Schedule
<1>4. CASE Active(m)
  <2>1. PICK p \in Turns : p = Max({pending[m], need}) /\ need <= p /\ pending[m] <= p
    BY <1>1, GreaterTurn
  <2>2. pending' = [pending EXCEPT ![m] = p] /\ task' = task
    BY <1>4, <2>1 DEF Schedule
  <2> QED
    BY <1>1, <1>2, <1>3, <1>4, <2>1, <2>2, TurnsAre DEF Scheduled, Others
<1>5. CASE ~Active(m)
  <2>1. PICK p \in Turns : p = Max({need, pending[m]}) /\ need <= p /\ pending[m] <= p
    BY <1>1, GreaterTurn
  <2>2. PICK t \in Task : t = Started(p) /\ t.phase = "start" /\ t.need = p /\ t.got = {}
    BY <2>1, StartedIs
  <2>3. task' = [task EXCEPT ![m] = t] /\ pending' = [pending EXCEPT ![m] = 0]
    BY <1>5, <2>1, <2>2 DEF Schedule, Start
  <2> QED
    BY <1>1, <1>2, <1>3, <1>5, <2>1, <2>2, <2>3, TurnsAre DEF Scheduled, Others
<1> QED
    BY <1>4, <1>5

LEMMA EndDoes ==
    ASSUME MaintTypeOK, NEW m \in Keys, End(m)
    PROVE  /\ Scheduled' /\ Others(m)
           /\ task'[m] = NoTask /\ ~Active(m)'
           /\ ended'[m] = {task[m].need} /\ pending'[m] = pending[m]
           /\ asked'[m] = IF asked[m] <= task[m].need THEN 0 ELSE asked[m]
           /\ dropped' = dropped
<1>1. /\ task \in [Keys -> Task] /\ ended \in [Keys -> SUBSET Turns]
      /\ pending \in [Keys -> Turns] /\ asked \in [Keys -> Turns]
      /\ dropped \in [Keys -> Turns]
      /\ task[m].need \in Turns
    BY DEF MaintTypeOK, Task
<1> QED
    BY <1>1, NoTaskIs, TurnsAre DEF End, Scheduled, Others, Active

(* The follow-up of the callback.                                          *)
LEMMA CallbackDoes ==
    ASSUME MaintTypeOK, NEW m \in Keys, NEW need \in ended[m], Callback(m),
           \A k \in ended[m] : k = need
    PROVE  /\ Scheduled' /\ Others(m)
           /\ ended'[m] = {} /\ asked'[m] = asked[m]
           /\ \/ /\ pending[m] > need /\ ~Active(m)
                 /\ task'[m].phase = "start" /\ task'[m].need = pending[m] /\ task'[m].got = {}
                 /\ pending'[m] = 0 /\ dropped'[m] = dropped[m]
              \/ /\ pending[m] > need /\ Active(m) /\ task'[m] = task[m]
                 /\ pending'[m] = pending[m] /\ dropped'[m] = dropped[m]
              \/ /\ pending[m] <= need /\ task'[m] = task[m] /\ pending'[m] = 0
                 /\ dropped'[m] = IF Active(m) THEN pending[m] ELSE dropped[m]
<1>1. /\ task \in [Keys -> Task] /\ ended \in [Keys -> SUBSET Turns]
      /\ pending \in [Keys -> Turns] /\ asked \in [Keys -> Turns]
      /\ dropped \in [Keys -> Turns]
      /\ pending[m] \in Turns
    BY DEF MaintTypeOK
<1>2. ended' = [ended EXCEPT ![m] = {}] /\ asked' = asked
    BY DEF Callback
<1>3. PICK t \in Task : t = Started(pending[m]) /\ t.phase = "start" /\ t.need = pending[m]
                        /\ t.got = {}
    BY <1>1, StartedIs
<1>4. \/ /\ pending[m] > need /\ ~Active(m) /\ dropped' = dropped
         /\ task' = [task EXCEPT ![m] = t] /\ pending' = [pending EXCEPT ![m] = 0]
      \/ pending[m] > need /\ Active(m) /\ task' = task /\ pending' = pending /\ dropped' = dropped
      \/ /\ pending[m] <= need /\ task' = task /\ pending' = [pending EXCEPT ![m] = 0]
         /\ dropped' = [dropped EXCEPT ![m] = IF Active(m) THEN pending[m] ELSE @]
    BY <1>3 DEF Callback, Start
<1> QED
    BY <1>1, <1>2, <1>3, <1>4, TurnsAre DEF Scheduled, Others

-----------------------------------------------------------------------------
(* Every step keeps the types.                                             *)
FilesTyped == summary \in Turns /\ work \in [covered : Turns, items : SUBSET Nodes]

LEMMA TypesAre ==
    MaintTypeOK <=> /\ turns \in Turns /\ FilesTyped /\ Scheduled /\ crossed \subseteq Keys
                    /\ faults \in 0 .. MaxFaults
    BY DEF MaintTypeOK, FilesTyped, Scheduled

LEMMA TypesNext ==
    ASSUME turns' \in Turns, FilesTyped', Scheduled', crossed' \subseteq Keys,
           faults' \in 0 .. MaxFaults
    PROVE  MaintTypeOK'
    BY DEF MaintTypeOK, FilesTyped, Scheduled

(* A task goes on with what its calls have returned.                       *)
LEMMA TaskHolds ==
    ASSUME NEW r \in Task, NEW got \in SUBSET Nodes
    PROVE  \E t \in Task : /\ t = [r EXCEPT !.got = got]
                          /\ t.phase = r.phase /\ t.need = r.need
                          /\ t.source = r.source /\ t.got = got
<1> DEFINE t == [r EXCEPT !.got = got]
<1>1. t \in Task
    BY DEF Task
<1>2. t.phase = r.phase /\ t.need = r.need /\ t.source = r.source /\ t.got = got
    BY DEF Task
<1> QED
    BY <1>1, <1>2

LEMMA StoreTyped ==
    ASSUME NEW n \in Turns, NEW items \in SUBSET Nodes, Store(n, items)
    PROVE  work' \in [covered : Turns, items : SUBSET Nodes] /\ work'.items = items
           /\ work'.covered = n
    BY DEF Store

LEMMA FaultTyped == ASSUME MaintTypeOK, Fault PROVE faults' \in 0 .. MaxFaults
    BY ContextMaintenanceAssumption DEF MaintTypeOK, Fault

LEMMA FinishDoes ==
    ASSUME MaintTypeOK, NEW m \in Keys, NEW n \in Turns, Finish(m, n)
    PROVE  End(m) /\ FilesTyped' /\ summary' = n /\ work'.items = Tree[n]
<1>1. Tree[n] \in SUBSET Nodes
    BY TreesOfNodes
<1> QED
    BY <1>1, StoreTyped DEF Finish, FilesTyped

LEMMA TaskTyped ==
    ASSUME MaintTypeOK, NEW m \in Keys
    PROVE  /\ task[m] \in Task /\ task[m].need \in Turns /\ task[m].source \in Turns
           /\ task[m].got \in SUBSET Nodes /\ task[m].attempt \in 0 .. Attempts
           /\ turns \in Turns /\ summary \in Turns /\ work.items \in SUBSET Nodes
           /\ work.covered \in Turns
           /\ ended[m] \subseteq Turns /\ pending[m] \in Turns /\ asked[m] \in Turns
           /\ dropped[m] \in Turns /\ crossed \subseteq Keys
    BY DEF MaintTypeOK, Task

(* A run that begins: it ends at once, or goes to the provider.            *)
LEMMA BeginDoes ==
    ASSUME MaintTypeOK, NEW m \in Keys, Begin(m)
    PROVE  /\ MaintTypeOK' /\ Others(m) /\ Active(m) /\ ended[m] = {}
           /\ \/ End(m) /\ \/ UNCHANGED <<fileVars, crossed>>
                           \/ summary < summary' /\ Cross(m)
              \/ /\ summary' = summary /\ ended' = ended /\ pending' = pending /\ asked' = asked
                 /\ dropped' = dropped /\ Cross(m)
                 /\ task'[m].phase = "run" /\ task'[m].need = task[m].need
                 /\ summary < task'[m].source
                 /\ task'[m].got \subseteq work.items /\ task'[m].got \subseteq work'.items
<1> DEFINE n == Source(m)
           got == Reusable(n)
<1>1. n \in Turns /\ got \subseteq work.items /\ got \in SUBSET Nodes
    BY SourceIs, TaskTyped DEF Reusable
<1>2. /\ task[m].phase = "start" /\ ended[m] = {}
      /\ turns' = turns /\ faults' = faults
    BY DEF Begin
<1>3. ~Sufficient(m) => summary < n
  <2>1. summary \in Nat /\ Source(m) \in Nat
    BY <1>1, TaskTyped, TurnsAre
  <2> QED
    BY <2>1 DEF Sufficient
<1>0. crossed' = crossed \/ Cross(m) => crossed' \subseteq Keys
    BY TaskTyped DEF Cross, Beside
<1>4. CASE Sufficient(m) /\ End(m) /\ UNCHANGED <<fileVars, crossed>>
  <2>1. FilesTyped'
    BY <1>4 DEF FilesTyped, fileVars, MaintTypeOK
  <2> QED
    BY <1>0, <1>2, <1>4, <2>1, EndDoes, TaskTyped, TypesNext, TypesAre DEF Active
<1>5. CASE ~Sufficient(m) /\ Finish(m, n) /\ Cross(m)
  <2>1. End(m) /\ FilesTyped' /\ summary' = n
    BY <1>1, <1>5, FinishDoes
  <2>2. MaintTypeOK' /\ Others(m)
    BY <1>0, <1>2, <1>5, <2>1, EndDoes, TaskTyped, TypesNext, TypesAre
  <2> QED
    BY <1>2, <1>3, <1>5, <2>1, <2>2 DEF Active
<1>6. CASE /\ ~Sufficient(m)
           /\ IF Leaves[n] \subseteq got THEN Store(n, got) ELSE UNCHANGED work
           /\ task' = [task EXCEPT ![m] = [task[m] EXCEPT !.phase = "run", !.source = n, !.got = got]]
           /\ Cross(m)
           /\ UNCHANGED <<summary, ended, pending, asked, dropped>>
  <2> HIDE DEF n, got
  <2> PICK r \in Task : r = task[m]
    BY TaskTyped
  <2>1. PICK t \in Task : /\ t = [r EXCEPT !.phase = "run", !.source = n, !.got = got]
                          /\ t.phase = "run" /\ t.need = r.need /\ t.source = n /\ t.got = got
  <3> DEFINE u == [r EXCEPT !.phase = "run", !.source = n, !.got = got]
  <3>1. u \in Task
    BY <1>1 DEF Task
  <3>2. u.phase = "run" /\ u.need = r.need /\ u.source = n /\ u.got = got
    BY DEF Task
  <3> QED
    BY <3>1, <3>2
  <2>2. task' = [task EXCEPT ![m] = t] /\ task \in [Keys -> Task]
    BY <1>6, <2>1 DEF MaintTypeOK
  <2>3. FilesTyped' /\ got \subseteq work'.items
    BY <1>1, <1>6, StoreTyped DEF MaintTypeOK, FilesTyped
  <2>4. MaintTypeOK' /\ Others(m)
    BY <1>0, <1>2, <1>6, <2>2, <2>3, TypesNext, TypesAre DEF Scheduled, Others
  <2>5. task'[m] = t
    BY <2>2
  <2> QED
    BY <1>1, <1>2, <1>3, <1>6, <2>1, <2>3, <2>4, <2>5 DEF Active
<1> QED
    BY <1>4, <1>5, <1>6 DEF Begin

(* The calls of a run return: it is complete, or has more on disk.         *)
LEMMA CallsReturnDoes ==
    ASSUME MaintTypeOK, NEW m \in Keys, CallsReturn(m)
    PROVE  /\ MaintTypeOK' /\ Others(m) /\ task[m].phase = "run" /\ crossed' = crossed
           /\ \/ End(m) /\ summary' = task[m].source
              \/ /\ summary' = summary /\ ended' = ended /\ pending' = pending /\ asked' = asked
                 /\ dropped' = dropped
                 /\ task'[m].phase = "run" /\ task'[m].need = task[m].need
                 /\ task'[m].source = task[m].source
                 /\ task'[m].got \subseteq work'.items
<1>1. PICK n \in Turns : n = task[m].source
    BY TaskTyped
<1>2. PICK got \in SUBSET Nodes : got = task[m].got \cup NextCalls(n, task[m].got)
    BY TaskTyped, TreesOfNodes
<1>3. task[m].phase = "run" /\ turns' = turns /\ faults' = faults /\ crossed' = crossed
    BY DEF CallsReturn
<1>4. CASE Finish(m, n)
  <2>1. End(m) /\ FilesTyped' /\ summary' = n
    BY <1>4, FinishDoes
  <2>2. MaintTypeOK' /\ Others(m)
    BY <1>3, <2>1, EndDoes, TaskTyped, TypesNext, TypesAre
  <2> QED
    BY <1>1, <1>3, <2>1, <2>2
<1>5. CASE /\ Store(n, got)
           /\ task' = [task EXCEPT ![m].got = got]
           /\ UNCHANGED <<summary, ended, pending, asked, dropped>>
  <2> PICK r \in Task : r = task[m]
    BY TaskTyped
  <2>1. PICK t \in Task : /\ t = [r EXCEPT !.got = got]
                          /\ t.phase = task[m].phase /\ t.need = task[m].need
                          /\ t.source = task[m].source /\ t.got = got
    BY TaskHolds
  <2>2. task' = [task EXCEPT ![m] = t] /\ task \in [Keys -> Task]
    BY <1>5, <2>1 DEF MaintTypeOK
  <2>3. FilesTyped' /\ got \subseteq work'.items
    BY <1>5, StoreTyped DEF MaintTypeOK, FilesTyped
  <2>4. MaintTypeOK' /\ Others(m)
    BY <1>3, <1>5, <2>2, <2>3, TypesNext, TypesAre DEF Scheduled, Others
  <2>5. task'[m] = t
    BY <2>2
  <2> QED
    BY <1>3, <1>5, <2>1, <2>3, <2>4, <2>5
<1> QED
    BY <1>1, <1>2, <1>4, <1>5 DEF CallsReturn

(* After a failure: the next attempt, or the end of the task.              *)
LEMMA RetryDoes ==
    ASSUME MaintTypeOK, NEW m \in Keys, NEW got \in SUBSET Nodes, Retry(m, got)
    PROVE  /\ Scheduled' /\ Others(m)
           /\ \/ End(m)
              \/ /\ ended' = ended /\ pending' = pending /\ asked' = asked /\ dropped' = dropped
                 /\ task'[m].phase = "start" /\ task'[m].need = task[m].need /\ task'[m].got = got
<1>1. CASE End(m)
    BY <1>1, EndDoes
<1>2. CASE /\ task[m].attempt < Attempts
           /\ task' = [task EXCEPT ![m].phase = "start", ![m].attempt = @ + 1, ![m].got = got]
           /\ UNCHANGED <<ended, pending, asked, dropped>>
  <2>1. task[m].attempt + 1 \in 0 .. Attempts
    BY <1>2, TaskTyped, ContextMaintenanceAssumption
  <2> PICK n \in 0 .. Attempts : n = task[m].attempt + 1
    BY <2>1
  <2> PICK r \in Task : r = task[m]
    BY TaskTyped
  <2>2. PICK t \in Task :
           /\ t = [r EXCEPT !.phase = "start", !.attempt = n, !.got = got]
           /\ t.phase = "start" /\ t.need = r.need /\ t.got = got
  <3> DEFINE u == [r EXCEPT !.phase = "start", !.attempt = n, !.got = got]
  <3>1. u \in Task
    BY DEF Task
  <3>2. u.phase = "start" /\ u.need = r.need /\ u.got = got
    BY DEF Task
  <3> QED
    BY <3>1, <3>2
  <2>3. task \in [Keys -> Task]
    BY DEF MaintTypeOK
  <2>4. task' = [task EXCEPT ![m] = t]
    BY <1>2, <2>2, <2>3
  <2> QED
    BY <1>2, <2>2, <2>3, <2>4 DEF Scheduled, Others, MaintTypeOK
<1> QED
    BY <1>1, <1>2 DEF Retry

(* A new process has no task, or the one that reconciles.                  *)
LEMMA RestartedDoes ==
    ASSUME MaintTypeOK, NEW checkpoint, Restarted(checkpoint)
    PROVE  /\ Scheduled' /\ turns' = turns /\ summary' = summary /\ faults' \in 0 .. MaxFaults
           /\ crossed' = {}
           /\ \A k \in Keys : /\ ended'[k] = {} /\ pending'[k] = 0 /\ asked'[k] = 0
                              /\ task'[k].phase \in {"none", "start"} /\ task'[k].got = {}
<1>1. 0 \in Turns
    BY TurnsAre
<1>2. /\ Started(0) \in Task /\ Started(0).phase = "start" /\ Started(0).got = {}
      /\ NoTask \in Task /\ NoTask.phase = "none" /\ NoTask.got = {}
    BY <1>1, StartedIs, NoTaskIs
<1>3. task' = [m \in Keys |->
           IF m = NoModel /\ checkpoint.covered > summary THEN Started(0) ELSE NoTask]
    BY DEF Restarted
<1> QED
    BY <1>1, <1>2, <1>3, FaultTyped DEF Restarted, Scheduled

-----------------------------------------------------------------------------
(* No requirement is forgotten but by a late callback, which drops a       *)
(* record that is not stronger than what the ended task was for; without a *)
(* newer task there was nothing in it that is still owed.                  *)
OwedInv(m) ==
    /\ \A j, k \in ended[m] : j = k
    /\ task[m].phase = "run" => ended[m] = {}
    /\ Active(m) => ended[m] = {} \/ dropped[m] = 0
    /\ \A n \in ended[m] : ~Active(m) => asked[m] = 0 \/ asked[m] > n
    /\ \/ Active(m) /\ asked[m] <= task[m].need
       \/ asked[m] <= pending[m]
       \/ asked[m] <= dropped[m]

MaintInv == MaintTypeOK /\ \A m \in Keys : OwedInv(m)

LEMMA OthersOwe ==
    ASSUME MaintInv, MaintTypeOK', NEW m \in Keys, Others(m), OwedInv(m)'
    PROVE  MaintInv'
<1>1. ASSUME NEW k \in Keys, k # m PROVE OwedInv(k)'
  <2>1. /\ task'[k] = task[k] /\ ended'[k] = ended[k] /\ pending'[k] = pending[k]
        /\ asked'[k] = asked[k] /\ dropped'[k] = dropped[k]
    BY <1>1 DEF Others
  <2> QED
    BY <2>1 DEF MaintInv, OwedInv, Active
<1> QED
    BY <1>1 DEF MaintInv

LEMMA EndOwes ==
    ASSUME MaintTypeOK, NEW m \in Keys, OwedInv(m), Active(m), End(m)
    PROVE  OwedInv(m)'
<1>1. PICK need \in Nat, a \in Nat, p \in Nat, d \in Nat :
          need = task[m].need /\ a = asked[m] /\ p = pending[m] /\ d = dropped[m]
    BY TaskTyped, TurnsAre
<1>2. /\ ~Active(m)' /\ task'[m].phase = "none" /\ ended'[m] = {need} /\ pending'[m] = p
      /\ asked'[m] = IF a <= need THEN 0 ELSE a
      /\ dropped'[m] = d
    BY <1>1, EndDoes, NoTaskIs
<1>3. a <= need \/ a <= p \/ a <= d
    BY <1>1 DEF OwedInv
<1> QED
    BY <1>2, <1>3 DEF OwedInv

LEMMA ScheduleOwes ==
    ASSUME MaintInv, NEW m \in Keys, NEW need \in Turns,
           Schedule(m, need), UNCHANGED <<fileVars, ended, faults>>, turns' \in Turns
    PROVE  MaintInv'
<1>1. MaintTypeOK /\ OwedInv(m) /\ ended' = ended
    BY DEF MaintInv
<1>2. /\ Scheduled' /\ Others(m)
      /\ asked'[m] = Outstanding(m) \/ asked'[m] = need
      /\ dropped'[m] = 0
    BY <1>1, ScheduleDoes
<1>3. \/ /\ Active(m) /\ task'[m] = task[m]
         /\ need <= pending'[m] /\ pending[m] <= pending'[m]
      \/ /\ ~Active(m) /\ task'[m].phase = "start"
         /\ need <= task'[m].need /\ pending[m] <= task'[m].need
    BY <1>1, ScheduleDoes
<1>4. MaintTypeOK'
  <2>1. FilesTyped' /\ faults' \in 0 .. MaxFaults /\ crossed' \subseteq Keys
    BY <1>1 DEF MaintTypeOK, FilesTyped, fileVars, Schedule
  <2> QED
    BY <1>2, <2>1, TypesNext
<1>5. /\ asked[m] \in Nat /\ pending[m] \in Nat /\ need \in Nat /\ task[m].need \in Nat
      /\ dropped[m] \in Nat
      /\ asked'[m] \in Nat /\ pending'[m] \in Nat /\ task'[m].need \in Nat
  <2>1. asked' \in [Keys -> Turns] /\ pending' \in [Keys -> Turns] /\ task' \in [Keys -> Task]
    BY <1>2 DEF Scheduled
  <2>2. asked'[m] \in Turns /\ pending'[m] \in Turns /\ task'[m].need \in Turns
    BY <2>1 DEF Task
  <2> QED
    BY <1>1, <2>2, TaskTyped, TurnsAre
<1>6. \/ Active(m) /\ Outstanding(m) <= task[m].need
      \/ Outstanding(m) <= pending[m]
    BY <1>1, <1>5 DEF OwedInv, Outstanding
<1>7. Active(m)' /\ \/ asked'[m] <= task'[m].need
                    \/ asked'[m] <= pending'[m]
  <2>1. Outstanding(m) \in Nat
    BY <1>5 DEF Outstanding
  <2> QED
    BY <1>2, <1>3, <1>5, <1>6, <2>1 DEF Active
<1>8. OwedInv(m)'
    BY <1>1, <1>2, <1>3, <1>7 DEF OwedInv, Active
<1> QED
    BY <1>2, <1>4, <1>8, OthersOwe

LEMMA CallbackOwes ==
    ASSUME MaintInv, NEW m \in Keys, Callback(m)
    PROVE  MaintInv'
<1>1. MaintTypeOK /\ OwedInv(m)
    BY DEF MaintInv
<1>2. PICK need \in ended[m] : \A k \in ended[m] : k = need
    BY <1>1 DEF Callback, OwedInv
<1>3. /\ Scheduled' /\ Others(m)
      /\ ended'[m] = {} /\ asked'[m] = asked[m]
      /\ \/ /\ pending[m] > need /\ ~Active(m) /\ dropped'[m] = dropped[m]
            /\ task'[m].phase = "start" /\ task'[m].need = pending[m]
         \/ /\ pending[m] > need /\ Active(m) /\ task'[m] = task[m]
            /\ pending'[m] = pending[m] /\ dropped'[m] = dropped[m]
         \/ /\ pending[m] <= need /\ task'[m] = task[m] /\ pending'[m] = 0
            /\ dropped'[m] = IF Active(m) THEN pending[m] ELSE dropped[m]
    BY <1>1, <1>2, CallbackDoes
<1>4. MaintTypeOK'
  <2>1. turns' = turns /\ fileVars' = fileVars /\ faults' = faults /\ crossed' = crossed
    BY DEF Callback
  <2>2. FilesTyped'
    BY <1>1, <2>1 DEF MaintTypeOK, FilesTyped, fileVars
  <2> QED
    BY <1>1, <1>3, <2>1, <2>2, TypesAre, TypesNext
<1>5. /\ asked[m] \in Nat /\ pending[m] \in Nat /\ need \in Nat /\ dropped[m] \in Nat
      /\ dropped'[m] \in Nat /\ task[m].need \in Nat
    BY <1>1, <1>3, TaskTyped, TurnsAre
<1>6. OwedInv(m)'
  <2>1. CASE /\ pending[m] > need /\ ~Active(m) /\ dropped'[m] = dropped[m]
             /\ task'[m].phase = "start" /\ task'[m].need = pending[m]
    <3>1. Active(m)' /\ (asked[m] <= pending[m] \/ asked[m] <= dropped[m])
      BY <1>1, <2>1 DEF OwedInv, Active
    <3> QED
      BY <1>3, <2>1, <3>1 DEF OwedInv
  <2>2. CASE Active(m) /\ task'[m] = task[m] /\ pending'[m] = pending[m] /\ dropped'[m] = dropped[m]
    BY <1>1, <1>3, <2>2 DEF OwedInv, Active
  <2>3. CASE /\ pending[m] <= need /\ task'[m] = task[m] /\ pending'[m] = 0
             /\ dropped'[m] = IF Active(m) THEN pending[m] ELSE dropped[m]
    <3>1. CASE Active(m)
      <4>1. asked[m] = 0 \/ asked[m] <= task[m].need \/ asked[m] <= pending[m] \/ asked[m] <= dropped[m]
        BY <1>1 DEF OwedInv
      <4>2. ASSUME asked[m] <= dropped[m] PROVE asked[m] = 0
        BY <1>1, <1>2, <1>5, <3>1, <4>2 DEF OwedInv
      <4> QED
        BY <1>1, <1>3, <1>5, <2>3, <3>1, <4>1, <4>2 DEF OwedInv, Active
    <3>2. CASE ~Active(m)
      <4>1. (asked[m] = 0 \/ asked[m] > need) /\ ~Active(m)'
        BY <1>1, <1>2, <2>3, <3>2 DEF OwedInv, Active
      <4>2. asked[m] <= dropped[m]
        BY <1>1, <1>5, <2>3, <3>2, <4>1 DEF OwedInv
      <4> QED
        BY <1>3, <2>3, <3>2, <4>1, <4>2 DEF OwedInv, Active
    <3> QED
      BY <3>1, <3>2
  <2> QED
    BY <1>3, <2>1, <2>2, <2>3
<1> QED
    BY <1>3, <1>4, <1>6, OthersOwe

(* A task that goes on, for what it was asked.                             *)
LEMMA GoesOnOwes ==
    ASSUME MaintInv, NEW m \in Keys, Active(m), ended[m] = {},
           ended' = ended, pending' = pending, asked' = asked, dropped' = dropped,
           task'[m].phase \in {"start", "run"}, task'[m].need = task[m].need
    PROVE  OwedInv(m)'
    BY DEF MaintInv, OwedInv, Active

LEMMA BeginOwes == ASSUME MaintInv, NEW m \in Keys, Begin(m) PROVE MaintInv'
<1>1. /\ MaintTypeOK' /\ Others(m) /\ Active(m) /\ ended[m] = {} /\ OwedInv(m) /\ MaintTypeOK
      /\ \/ End(m)
         \/ /\ ended' = ended /\ pending' = pending /\ asked' = asked /\ dropped' = dropped
            /\ task'[m].phase = "run" /\ task'[m].need = task[m].need
    BY BeginDoes DEF MaintInv
<1>2. OwedInv(m)'
    BY <1>1, EndOwes, GoesOnOwes
<1> QED
    BY <1>1, <1>2, OthersOwe

LEMMA CallsReturnOwes == ASSUME MaintInv, NEW m \in Keys, CallsReturn(m) PROVE MaintInv'
<1>1. /\ MaintTypeOK' /\ Others(m) /\ task[m].phase = "run" /\ OwedInv(m) /\ MaintTypeOK
      /\ \/ End(m)
         \/ /\ ended' = ended /\ pending' = pending /\ asked' = asked /\ dropped' = dropped
            /\ task'[m].phase = "run" /\ task'[m].need = task[m].need
    BY CallsReturnDoes DEF MaintInv
<1>2. Active(m) /\ ended[m] = {}
    BY <1>1 DEF Active, OwedInv
<1>3. OwedInv(m)'
    BY <1>1, <1>2, EndOwes, GoesOnOwes
<1> QED
    BY <1>1, <1>3, OthersOwe

LEMMA UnavailableOwes == ASSUME MaintInv, NEW m \in Keys, Unavailable(m) PROVE MaintInv'
<1>1. MaintTypeOK /\ OwedInv(m) /\ End(m) /\ Active(m) /\ turns' = turns /\ fileVars' = fileVars
    BY DEF MaintInv, Unavailable, Active
<1>2. FilesTyped' /\ faults' \in 0 .. MaxFaults /\ crossed' \subseteq Keys
    BY <1>1, FaultTyped DEF MaintTypeOK, FilesTyped, fileVars, Unavailable
<1>3. MaintTypeOK' /\ Others(m)
    BY <1>1, <1>2, EndDoes, TypesAre, TypesNext
<1> QED
    BY <1>1, <1>3, EndOwes, OthersOwe

-----------------------------------------------------------------------------
(* The merge tree: its nodes are ordered, so that a run which has all its  *)
(* chunks makes one call at a time.                                        *)

LEMMA LeavesAre == ASSUME NEW n \in Turns, NEW x \in Leaves[n] PROVE IsLeaf(x)
<1>1. PICK g : x = Node(0, g, n)
    BY DEF Leaves
<1> QED
    BY <1>1 DEF Node, IsLeaf

LEMMA SpanIs == ASSUME NEW h \in Nat PROVE Span(h) \in Int
    BY ContextMaintenanceAssumption DEF Span

(* A merge is named by its height and its first turn.                      *)
LEMMA MergeIs ==
    ASSUME NEW n \in Turns, NEW x \in Merges[n]
    PROVE  \E h \in Nat, g \in Nat, s \in Int :
              s = Span(h) /\ x = <<h, g * s, Min({n, g * s + s})>>
<1>1. PICK h \in Height \ {0} : x \in {Node(h, g, n) : g \in {i \in Turns : i * Span(h) + Span(h - 1) < n}}
    BY DEF Merges
<1>2. PICK g \in Turns : x = Node(h, g, n)
    BY <1>1
<1>3. h \in Nat /\ g \in Nat
    BY <1>1, TurnsAre DEF Height
<1>4. PICK s \in Int : s = Span(h)
    BY <1>3, SpanIs
<1>5. (g + 1) * s = g * s + s
    BY <1>3
<1> QED
    BY <1>2, <1>3, <1>4, <1>5 DEF Node

LEMMA MergesOrdered ==
    ASSUME NEW n \in Turns, NEW x \in Merges[n], NEW y \in Merges[n]
    PROVE  x = y \/ Before(x, y) \/ Before(y, x)
<1>1. PICK h \in Nat, g \in Nat, s \in Int : s = Span(h) /\ x = <<h, g * s, Min({n, g * s + s})>>
    BY MergeIs
<1>2. PICK j \in Nat, k \in Nat, t \in Int : t = Span(j) /\ y = <<j, k * t, Min({n, k * t + t})>>
    BY MergeIs
<1>3. PICK a \in Int, b \in Int : a = g * s /\ b = k * t
    OBVIOUS
<1>4. CASE h = j /\ a = b
    BY <1>1, <1>2, <1>3, <1>4
<1>5. CASE h # j \/ a < b \/ b < a
    BY <1>1, <1>2, <1>3, <1>5 DEF Before
<1> QED
    BY <1>3, <1>4, <1>5

LEMMA ImageFinite ==
    ASSUME NEW S, IsFiniteSet(S), NEW T, NEW f, DOMAIN f = S, \A t \in T : \E s \in S : f[s] = t
    PROVE  IsFiniteSet(T)
<1> DEFINE R == {f[x] : x \in S}
           g == [x \in S |-> f[x]]
<1>1. g \in Surjection(S, R)
    BY DEF Surjection
<1>2. IsFiniteSet(R)
    BY <1>1, FS_Surjection
<1>3. T \subseteq R
    OBVIOUS
<1> QED
    BY <1>2, <1>3, FS_Subset

LEMMA MergesFinite == ASSUME NEW n \in Turns PROVE IsFiniteSet(Merges[n])
<1> DEFINE P == Height \X Turns
           f == [p \in P |-> Node(p[1], p[2], n)]
<1>1. IsFiniteSet(0 .. MaxTurns)
    BY TurnsAre, FS_Interval
<1>2. IsFiniteSet(P)
    BY <1>1, FS_Product DEF Turns, Height
<1>3. ASSUME NEW x \in Merges[n] PROVE \E p \in P : f[p] = x
  <2>1. PICK h \in Height, g \in Turns : x = Node(h, g, n)
    BY DEF Merges
  <2>2. <<h, g>> \in P /\ f[<<h, g>>] = Node(h, g, n)
    OBVIOUS
  <2> QED
    BY <2>1, <2>2
<1>4. DOMAIN f = P
    OBVIOUS
<1> HIDE DEF P, f
<1> QED
    BY <1>2, <1>3, <1>4, ImageFinite

LEMMA OneMerge ==
    ASSUME NEW n \in Turns, NEW got, Leaves[n] \subseteq got,
           NEW x \in NextCalls(n, got), NEW y \in NextCalls(n, got)
    PROVE  x = y
<1> DEFINE M == Merges[n] \ got
<1>1. Leaves[n] \ got = {}
    OBVIOUS
<1>2. x \in M /\ y \in M /\ Rank(x, M) = 0 /\ Rank(y, M) = 0
    BY <1>1 DEF NextCalls
<1>3. IsFiniteSet(M)
    BY MergesFinite, FS_Subset
<1> HIDE DEF M
<1>4. ASSUME NEW z \in M, Rank(z, M) = 0
      PROVE  \A w \in M : ~Before(w, z)
  <2>1. IsFiniteSet({w \in M : Before(w, z)})
    BY <1>3, FS_Subset
  <2>2. Cardinality({w \in M : Before(w, z)}) = 0
    BY <1>4 DEF Rank
  <2>3. {w \in M : Before(w, z)} = {}
    BY <2>1, <2>2, FS_EmptySet
  <2> QED
    BY <2>3
<1>5. ~Before(x, y) /\ ~Before(y, x)
    BY <1>2, <1>4
<1> QED
    BY <1>2, <1>5, MergesOrdered DEF M

-----------------------------------------------------------------------------
(* A batch of which some calls failed: what the others yielded is on disk. *)
(* It is a batch of chunks; a merge that fails yields nothing.             *)
LEMMA CallsFailDoes ==
    ASSUME MaintTypeOK, NEW m \in Keys, CallsFail(m)
    PROVE  /\ MaintTypeOK' /\ Others(m) /\ task[m].phase = "run" /\ summary' = summary
           /\ crossed' = crossed
           /\ \/ End(m)
              \/ /\ ended' = ended /\ pending' = pending /\ asked' = asked /\ dropped' = dropped
                 /\ task'[m].phase = "start" /\ task'[m].need = task[m].need
                 /\ task[m].got \subseteq work.items => task'[m].got \subseteq work'.items
<1>1. PICK n \in Turns, old \in SUBSET Nodes : n = task[m].source /\ old = task[m].got
    BY TaskTyped
<1>2. PICK ok \in (SUBSET NextCalls(n, old)) \ {NextCalls(n, old)} :
          /\ IF ~(Leaves[n] \subseteq old) /\ LeavesIn(old \cup ok) # {}
             THEN Store(n, old \cup ok) ELSE UNCHANGED work
          /\ Retry(m, old \cup ok)
    BY <1>1 DEF CallsFail
<1>3. PICK got \in SUBSET Nodes : got = old \cup ok
    BY <1>2, TreesOfNodes
<1>4. /\ task[m].phase = "run" /\ summary' = summary /\ turns' = turns
      /\ crossed' = crossed /\ faults' \in 0 .. MaxFaults
    BY FaultTyped DEF CallsFail
<1>5. FilesTyped'
  <2>1. CASE UNCHANGED work
    BY <1>4, <2>1 DEF FilesTyped, MaintTypeOK
  <2>2. CASE Store(n, got)
    BY <1>4, <2>2, StoreTyped DEF FilesTyped, MaintTypeOK
  <2> QED
    BY <1>2, <1>3, <2>1, <2>2
<1>6. old \subseteq work.items => got \subseteq work'.items
  <2> SUFFICES ASSUME old \subseteq work.items PROVE got \subseteq work'.items
    OBVIOUS
  <2>1. CASE Store(n, got)
    BY <2>1, StoreTyped
  <2>2. CASE ~(Leaves[n] \subseteq old) /\ LeavesIn(got) = {} /\ UNCHANGED work
    <3>1. NextCalls(n, old) \subseteq Leaves[n]
      BY <2>2 DEF NextCalls
    <3>2. ok = {}
      BY <1>3, <3>1, <2>2, LeavesAre DEF LeavesIn
    <3> QED
      BY <1>3, <2>2, <3>2
  <2>3. CASE Leaves[n] \subseteq old /\ UNCHANGED work
    <3>1. \A x, y \in NextCalls(n, old) : x = y
      BY <2>3, OneMerge
    <3>2. ok \subseteq NextCalls(n, old) /\ ok # NextCalls(n, old)
      BY <1>2
    <3>3. \A x \in ok : NextCalls(n, old) \subseteq ok
      BY <3>1, <3>2
    <3>4. ok = {}
      BY <3>2, <3>3
    <3> QED
      BY <1>3, <2>3, <3>4
  <2> QED
    BY <1>2, <1>3, <2>1, <2>2, <2>3
<1>7. /\ Scheduled' /\ Others(m)
      /\ \/ End(m)
         \/ /\ ended' = ended /\ pending' = pending /\ asked' = asked /\ dropped' = dropped
            /\ task'[m].phase = "start" /\ task'[m].need = task[m].need /\ task'[m].got = got
    BY <1>2, <1>3, RetryDoes
<1>8. MaintTypeOK'
    BY <1>4, <1>5, <1>7, TypesAre, TypesNext
<1> QED
    BY <1>1, <1>4, <1>6, <1>7, <1>8

LEMMA CallsFailOwes == ASSUME MaintInv, NEW m \in Keys, CallsFail(m) PROVE MaintInv'
<1>1. /\ MaintTypeOK' /\ Others(m) /\ task[m].phase = "run" /\ OwedInv(m) /\ MaintTypeOK
      /\ \/ End(m)
         \/ /\ ended' = ended /\ pending' = pending /\ asked' = asked /\ dropped' = dropped
            /\ task'[m].phase = "start" /\ task'[m].need = task[m].need
    BY CallsFailDoes DEF MaintInv
<1>2. Active(m) /\ ended[m] = {}
    BY <1>1 DEF Active, OwedInv
<1>3. OwedInv(m)'
    BY <1>1, <1>2, EndOwes, GoesOnOwes
<1> QED
    BY <1>1, <1>3, OthersOwe

(* The process is replaced: nobody waits for anything any more.            *)
LEMMA CrashDoes ==
    ASSUME MaintTypeOK, Crash \/ \E m \in Keys : CrashBeforeSummary(m)
    PROVE  /\ MaintTypeOK' /\ summary' = summary /\ crossed' = {}
           /\ \A k \in Keys : /\ ended'[k] = {} /\ pending'[k] = 0 /\ asked'[k] = 0
                                /\ task'[k].phase \in {"none", "start"} /\ task'[k].got = {}
<1>1. PICK checkpoint : Restarted(checkpoint)
    BY DEF Crash, CrashBeforeSummary
<1>2. work' \in [covered : Turns, items : SUBSET Nodes]
  <2>1. CASE Crash
    BY <2>1 DEF Crash, MaintTypeOK
  <2>2. CASE \E m \in Keys : CrashBeforeSummary(m)
    <3>1. PICK m \in Keys : CrashBeforeSummary(m)
      BY <2>2
    <3>2. PICK n \in Turns : n = task[m].source
      BY TaskTyped
    <3>3. Store(n, Tree[n]) /\ Tree[n] \in SUBSET Nodes
      BY <3>1, <3>2, TreesOfNodes DEF CrashBeforeSummary
    <3> QED
      BY <3>3, StoreTyped
  <2> QED
    BY <2>1, <2>2
<1>3. /\ Scheduled' /\ turns' = turns /\ summary' = summary /\ faults' \in 0 .. MaxFaults
      /\ crossed' = {}
      /\ \A k \in Keys : /\ ended'[k] = {} /\ pending'[k] = 0 /\ asked'[k] = 0
                           /\ task'[k].phase \in {"none", "start"} /\ task'[k].got = {}
    BY <1>1, RestartedDoes
<1>4. FilesTyped'
    BY <1>2, <1>3, TypesAre DEF FilesTyped
<1> QED
    BY <1>3, <1>4, TypesAre, TypesNext

LEMMA CrashOwes ==
    ASSUME MaintInv, Crash \/ \E m \in Keys : CrashBeforeSummary(m)
    PROVE  MaintInv'
<1>1. MaintTypeOK'
    BY CrashDoes DEF MaintInv
<1>2. ASSUME NEW k \in Keys PROVE OwedInv(k)'
  <2>1. /\ ended'[k] = {} /\ pending'[k] = 0 /\ asked'[k] = 0 /\ task'[k].phase \in {"none", "start"}
    BY CrashDoes DEF MaintInv
  <2>2. task'[k].need \in Nat /\ dropped'[k] \in Nat
    BY <1>1, TurnsAre DEF MaintTypeOK, Task
  <2> QED
    BY <2>1, <2>2 DEF OwedInv
<1> QED
    BY <1>1, <1>2 DEF MaintInv

LEMMA MaintInitInv == MaintInit => MaintInv
<1> SUFFICES ASSUME MaintInit PROVE MaintInv
    OBVIOUS
<1>1. Scheduled
    BY NoTaskIs, TurnsAre DEF MaintInit, Scheduled
<1>2. FilesTyped
    BY TurnsAre DEF MaintInit, FilesTyped, NoWork
<1>3. MaintTypeOK
    BY <1>1, <1>2, TypesAre, TurnsAre, ContextMaintenanceAssumption DEF MaintInit
<1>4. \A m \in Keys : OwedInv(m)
    BY NoTaskIs DEF MaintInit, OwedInv, Active
<1> QED
    BY <1>3, <1>4 DEF MaintInv

(* Typing needs no hypothesis.                                             *)
LEMMA TypesKept == ASSUME MaintTypeOK, [MaintNext]_maintVars PROVE MaintTypeOK'
<1>1. CASE UNCHANGED maintVars
    BY <1>1 DEF maintVars, fileVars, taskVars, MaintTypeOK, FilesTyped, Scheduled
<1>2. ASSUME NEW m \in Keys, NEW need \in Turns, Schedule(m, need), ended' = ended,
             UNCHANGED <<fileVars, faults>>, turns' \in Turns
      PROVE  MaintTypeOK'
  <2>1. Scheduled'
    BY <1>2, ScheduleDoes
  <2>2. FilesTyped' /\ faults' \in 0 .. MaxFaults /\ crossed' \subseteq Keys
    BY <1>2 DEF MaintTypeOK, FilesTyped, fileVars, Schedule
  <2> QED
    BY <1>2, <2>1, <2>2, TypesNext
<1>3. ASSUME NEW m \in Models, NEW need \in Turns, Require(m, need) PROVE MaintTypeOK'
    BY <1>2, <1>3, TypesAre DEF Require, Keys
<1>4. ASSUME NEW m \in Models, CommitTurn(m) PROVE MaintTypeOK'
  <2>1. turns' \in Turns /\ 0 \in Turns
    BY <1>4, TypesAre, TurnsAre DEF CommitTurn, Turns
  <2> QED
    BY <1>2, <1>4, <2>1 DEF CommitTurn, Keys
<1>5. ASSUME NEW m \in Keys, Callback(m) PROVE MaintTypeOK'
  <2>1. /\ task \in [Keys -> Task] /\ ended \in [Keys -> SUBSET Turns]
        /\ pending \in [Keys -> Turns] /\ asked \in [Keys -> Turns] /\ pending[m] \in Turns
        /\ dropped \in [Keys -> Turns]
    BY DEF MaintTypeOK
  <2>2. PICK t \in Task : t = Started(pending[m])
    BY <2>1, StartedIs
  <2>3. /\ ended' = [ended EXCEPT ![m] = {}] /\ asked' = asked
        /\ task' = task \/ task' = [task EXCEPT ![m] = t]
        /\ pending' = pending \/ pending' = [pending EXCEPT ![m] = 0]
        /\ dropped' = dropped \/ dropped' = [dropped EXCEPT ![m] = IF Active(m) THEN pending[m] ELSE @]
        /\ UNCHANGED <<turns, fileVars, crossed, faults>>
    BY <1>5, <2>2 DEF Callback, Start
  <2>4. Scheduled'
    BY <2>1, <2>3, TurnsAre DEF Scheduled
  <2>5. FilesTyped'
    BY <2>3 DEF MaintTypeOK, FilesTyped, fileVars
  <2> QED
    BY <2>3, <2>4, <2>5, TypesAre, TypesNext
<1>6. ASSUME NEW m \in Keys, Unavailable(m) PROVE MaintTypeOK'
  <2>1. End(m) /\ turns' = turns /\ fileVars' = fileVars /\ crossed' = crossed /\ Fault
    BY <1>6 DEF Unavailable
  <2>2. FilesTyped' /\ faults' \in 0 .. MaxFaults
    BY <2>1, FaultTyped DEF MaintTypeOK, FilesTyped, fileVars
  <2> QED
    BY <2>1, <2>2, EndDoes, TypesAre, TypesNext
<1> QED
    BY <1>1, <1>3, <1>4, <1>5, <1>6, BeginDoes, CallsReturnDoes, CallsFailDoes, CrashDoes
    DEF MaintNext, MaintStep

(* The steps of adapter.py and context_maintenance.py.                     *)
LEMMA MaintNextInv ==
    ASSUME MaintInv, [MaintNext]_maintVars PROVE MaintInv'
<1>1. CASE UNCHANGED maintVars
    BY <1>1 DEF maintVars, fileVars, taskVars, MaintInv, MaintTypeOK, FilesTyped, Scheduled,
       OwedInv, Active
<1>2. ASSUME NEW m \in Models, NEW need \in Turns, Require(m, need) PROVE MaintInv'
    BY <1>2, ScheduleOwes, TypesAre DEF Require, MaintInv, Keys
<1>3. ASSUME NEW m \in Models, CommitTurn(m) PROVE MaintInv'
  <2>1. turns' \in Turns /\ 0 \in Turns
    BY <1>3, TypesAre, TurnsAre DEF CommitTurn, Turns, MaintInv
  <2> QED
    BY <1>3, <2>1, ScheduleOwes DEF CommitTurn, Keys
<1> QED
    BY <1>1, <1>2, <1>3, BeginOwes, CallsReturnOwes, CallsFailOwes, CallbackOwes,
       UnavailableOwes, CrashOwes
    DEF MaintNext, MaintStep

(* Every state is typed, whatever the scheduler and the maintainer do and  *)
(* whenever the process is replaced.                                       *)
THEOREM MaintTyped == MaintSpec => []MaintTypeOK
<1>1. MaintInit => MaintTypeOK
    BY MaintInitInv DEF MaintInv
<1> QED
    BY <1>1, TypesKept, PTL DEF MaintSpec

(* What a task and its callback owe the handlers that asked, for any       *)
(* number of writing models and any interleaving with queued callbacks.    *)
THEOREM OwedAlways == MaintSpec => []MaintInv
<1>1. MaintInv /\ [MaintNext]_maintVars => MaintInv'
    BY MaintNextInv
<1> QED
    BY <1>1, MaintInitInv, PTL DEF MaintSpec

(* "One run per session, but never at the cost of forgetting a stronger    *)
(* requirement": a requirement that _schedule_context_maintenance is given *)
(* is one the task under way is for, or is recorded for the next, until a  *)
(* task that was for it has ended; only the late callback of an earlier    *)
(* task, itself asked for as much, may have dropped it.                    *)
THEOREM RequirementRememberedAlways == MaintSpec => []RequirementRemembered
<1>1. MaintInv => RequirementRemembered
  <2> SUFFICES ASSUME MaintInv, NEW m \in Keys, asked[m] > 0
               PROVE  \/ Active(m) /\ task[m].need >= asked[m]
                      \/ pending[m] >= asked[m]
                      \/ dropped[m] >= asked[m]
      BY DEF RequirementRemembered
  <2>1. /\ asked[m] \in Nat /\ pending[m] \in Nat /\ task[m].need \in Nat
        /\ dropped[m] \in Nat
      BY TaskTyped, TurnsAre DEF MaintInv
  <2>2. OwedInv(m)
      BY DEF MaintInv
  <2> QED
      BY <2>1, <2>2 DEF OwedInv
<1> QED
    BY <1>1, OwedAlways, PTL

-----------------------------------------------------------------------------
(* Two keys of one conversation run over the same two files.  A run that   *)
(* no other has come beside is for more than the summary covers, and what  *)
(* it holds is saved; two that hold work at once are known to have crossed.*)
SavedInv(m) ==
    /\ task[m].phase = "run" => summary < task[m].source
    /\ Active(m) => task[m].got \subseteq work.items

PaidInv ==
    /\ MaintTypeOK
    /\ \A m \in Keys \ crossed : SavedInv(m)
    /\ \A m \in Keys : Holding(m) /\ Beside(m) # {} => m \in crossed

LEMMA Grown ==
    ASSUME MaintTypeOK, MaintTypeOK', summary' = summary \/ summary < summary'
    PROVE  summary' >= summary
<1>1. summary \in Nat /\ summary' \in Nat
    BY TurnsAre DEF MaintTypeOK
<1> QED
    BY <1>1

(* A task that has just been started, or none, has nothing to lose.        *)
LEMMA NothingHeld == ASSUME NEW m \in Keys, ~Holding(m) PROVE SavedInv(m)
    BY DEF Holding, SavedInv

LEMMA NoneHeld == ASSUME NEW m \in Keys, task'[m] = NoTask PROVE ~Holding(m)' /\ SavedInv(m)'
    BY NoTaskIs DEF Holding, SavedInv, Active

(* A step of one key, which replaces the files: the other runs hold        *)
(* nothing, or have crossed it.                                            *)
LEMMA StepOfOne ==
    ASSUME PaidInv, MaintTypeOK', NEW m \in Keys, Others(m), SavedInv(m)' \/ m \in crossed',
           \/ Cross(m)
           \/ crossed' = crossed /\ Holding(m)
    PROVE  PaidInv'
<1>1. ASSUME NEW k \in Keys, k # m PROVE Holding(k)' <=> Holding(k)
    BY <1>1 DEF Others, Holding
<1>2. ASSUME NEW k \in Keys, k # m, k \notin crossed' PROVE SavedInv(k)'
  <2>1. ~Holding(k)
    <3>1. CASE Cross(m)
      BY <1>2, <3>1 DEF Cross, Beside
    <3>2. CASE crossed' = crossed /\ Holding(m)
      BY <1>2, <3>2 DEF PaidInv, Beside
    <3> QED
      BY <3>1, <3>2
  <2>2. ~Holding(k)'
    BY <1>1, <1>2, <2>1
  <2> QED
    BY <2>2 DEF Holding, SavedInv
<1>3. ASSUME NEW k \in Keys, NEW j \in Keys, j # k, Holding(k)', Holding(j)'
      PROVE  k \in crossed'
  <2>1. CASE k # m /\ j # m
    <3>1. Holding(k) /\ Holding(j)
      BY <1>1, <1>3, <2>1
    <3>2. k \in crossed
      BY <1>3, <3>1 DEF PaidInv, Beside
    <3> QED
      BY <2>1, <3>2 DEF Cross
  <2>2. CASE k = m
    <3>1. j \in Beside(m)
      BY <1>1, <1>3, <2>2 DEF Beside
    <3> QED
      BY <2>2, <3>1 DEF Cross, PaidInv
  <2>3. CASE j = m
    <3>1. k \in Beside(m)
      BY <1>1, <1>3, <2>3 DEF Beside
    <3>2. Holding(m) => m \in Beside(k)
      BY <1>3, <2>3 DEF Beside
    <3>3. Holding(k)
      BY <3>1 DEF Beside
    <3> QED
      BY <3>1, <3>2, <3>3 DEF Cross, PaidInv
  <2> QED
    BY <2>1, <2>2, <2>3
<1>4. \A k \in Keys : Holding(k)' /\ Beside(k)' # {} => k \in crossed'
    BY <1>3 DEF Beside
<1> QED
    BY <1>2, <1>4 DEF PaidInv

(* A step that leaves the files, and gives no task anything to hold.       *)
LEMMA QuietStep ==
    ASSUME PaidInv, MaintTypeOK', UNCHANGED <<fileVars, crossed>>,
           \A k \in Keys : task'[k] = task[k] \/ ~Holding(k)'
    PROVE  PaidInv'
<1>1. ASSUME NEW k \in Keys \ crossed PROVE SavedInv(k)'
  <2>1. CASE ~Holding(k)'
    BY <2>1 DEF Holding, SavedInv
  <2>2. CASE task'[k] = task[k]
    BY <2>2 DEF PaidInv, SavedInv, Active, fileVars
  <2> QED
    BY <2>1, <2>2
<1>2. \A k \in Keys : Holding(k)' => Holding(k)
    BY DEF Holding
<1>3. \A k \in Keys : Beside(k)' # {} => Beside(k) # {}
    BY <1>2 DEF Beside
<1> QED
    BY <1>1, <1>2, <1>3 DEF PaidInv

LEMMA OneTaskSteps ==
    ASSUME NEW m \in Keys, Others(m), task'[m] = task[m] \/ ~Holding(m)'
    PROVE  \A k \in Keys : task'[k] = task[k] \/ ~Holding(k)'
    BY DEF Others

(* A step is safe: the invariant is kept, and the summary does not shrink  *)
(* but at the end of a run that has been crossed.                          *)
Safe == PaidInv' /\ (summary' >= summary \/ Shortened)

LEMMA BeginPaid == ASSUME PaidInv, NEW m \in Keys, Begin(m) PROVE Safe
<1>0. MaintTypeOK /\ MaintTypeOK' /\ Others(m)
    BY BeginDoes DEF PaidInv
<1>1. CASE End(m) /\ UNCHANGED <<fileVars, crossed>>
  <2>1. ~Holding(m)' /\ summary' = summary
    BY <1>0, <1>1, EndDoes, NoneHeld DEF fileVars
  <2> QED
    BY <1>0, <1>1, <2>1, OneTaskSteps, QuietStep, Grown DEF Safe
<1>2. CASE End(m) /\ summary < summary' /\ Cross(m)
  <2>1. SavedInv(m)'
    BY <1>0, <1>2, EndDoes, NoneHeld
  <2> QED
    BY <1>0, <1>2, <2>1, StepOfOne, Grown DEF Safe
<1>3. CASE /\ summary' = summary /\ task'[m].phase = "run" /\ Cross(m)
           /\ summary < task'[m].source /\ task'[m].got \subseteq work'.items
  <2>1. SavedInv(m)'
    BY <1>3 DEF SavedInv
  <2> QED
    BY <1>0, <1>3, <2>1, StepOfOne, Grown DEF Safe
<1> QED
    BY <1>0, <1>1, <1>2, <1>3, BeginDoes

LEMMA CallsReturnPaid == ASSUME PaidInv, NEW m \in Keys, CallsReturn(m) PROVE Safe
<1>0. /\ MaintTypeOK /\ MaintTypeOK' /\ Others(m) /\ task[m].phase = "run" /\ crossed' = crossed
      /\ Holding(m)
    BY CallsReturnDoes DEF PaidInv, Holding
<1>1. m \notin crossed => summary < task[m].source
    BY <1>0 DEF PaidInv, SavedInv
<1>2. CASE End(m) /\ summary' = task[m].source
  <2>1. SavedInv(m)' /\ ~Active(m)'
    BY <1>0, <1>2, EndDoes, NoneHeld
  <2>2. PaidInv'
    BY <1>0, <2>1, StepOfOne
  <2>3. CASE m \in crossed
    BY <1>0, <1>2, <2>1, <2>2, <2>3 DEF Safe, Shortened
  <2>4. CASE m \notin crossed
    BY <1>0, <1>1, <1>2, <2>2, <2>4, Grown DEF Safe
  <2> QED
    BY <2>3, <2>4
<1>3. CASE /\ summary' = summary /\ task'[m].phase = "run"
           /\ task'[m].source = task[m].source /\ task'[m].got \subseteq work'.items
  <2>1. SavedInv(m)' \/ m \in crossed'
    BY <1>0, <1>1, <1>3 DEF SavedInv
  <2> QED
    BY <1>0, <1>3, <2>1, StepOfOne, Grown DEF Safe
<1> QED
    BY <1>0, <1>2, <1>3, CallsReturnDoes

LEMMA CallsFailPaid == ASSUME PaidInv, NEW m \in Keys, CallsFail(m) PROVE Safe
<1>0. /\ MaintTypeOK /\ MaintTypeOK' /\ Others(m) /\ task[m].phase = "run" /\ crossed' = crossed
      /\ Holding(m) /\ summary' = summary
    BY CallsFailDoes DEF PaidInv, Holding
<1>1. SavedInv(m)' \/ m \in crossed'
  <2>1. CASE End(m)
    BY <1>0, <2>1, EndDoes, NoneHeld
  <2>2. CASE /\ task'[m].phase = "start"
             /\ task[m].got \subseteq work.items => task'[m].got \subseteq work'.items
    <3>1. m \notin crossed => task[m].got \subseteq work.items
      BY <1>0 DEF PaidInv, SavedInv, Active
    <3> QED
      BY <1>0, <2>2, <3>1 DEF SavedInv
  <2> QED
    BY <1>0, <2>1, <2>2, CallsFailDoes
<1> QED
    BY <1>0, <1>1, StepOfOne, Grown DEF Safe

LEMMA PaidNext == ASSUME PaidInv, [MaintNext]_maintVars PROVE Safe
<1>0. MaintTypeOK /\ MaintTypeOK'
    BY TypesKept DEF PaidInv
<1>1. CASE UNCHANGED maintVars
  <2>1. UNCHANGED <<fileVars, crossed>> /\ task' = task /\ summary' = summary
    BY <1>1 DEF maintVars, fileVars, taskVars
  <2> QED
    BY <1>0, <2>1, QuietStep, Grown DEF Safe
<1>2. ASSUME NEW m \in Keys, Unavailable(m) PROVE Safe
  <2>1. End(m) /\ UNCHANGED <<fileVars, crossed>> /\ summary' = summary
    BY <1>2 DEF Unavailable, fileVars
  <2>2. Others(m) /\ ~Holding(m)'
    BY <1>0, <2>1, EndDoes, NoneHeld
  <2> QED
    BY <1>0, <2>1, <2>2, OneTaskSteps, QuietStep, Grown DEF Safe
<1>3. ASSUME NEW m \in Keys, Callback(m) PROVE Safe
  <2>1. UNCHANGED <<fileVars, crossed>> /\ summary' = summary
        /\ task \in [Keys -> Task] /\ pending[m] \in Turns
    BY <1>0, <1>3 DEF Callback, MaintTypeOK, fileVars
  <2>2. \/ task' = task
        \/ task' = [task EXCEPT ![m] = Started(pending[m])]
    BY <1>3 DEF Callback, Start
  <2>3. ~Holding(m)' \/ task' = task
    BY <2>1, <2>2, StartedIs DEF Holding
  <2>4. \A k \in Keys : task'[k] = task[k] \/ ~Holding(k)'
    BY <2>1, <2>2, <2>3
  <2> QED
    BY <1>0, <2>1, <2>4, QuietStep, Grown DEF Safe
<1>4. ASSUME NEW m \in Keys, NEW need \in Turns, Schedule(m, need), ended' = ended,
             UNCHANGED fileVars
      PROVE  Safe
  <2>1. Others(m) /\ (task'[m] = task[m] \/ ~Holding(m)')
    BY <1>0, <1>4, ScheduleDoes DEF Holding
  <2>2. UNCHANGED <<fileVars, crossed>> /\ summary' = summary
    BY <1>4 DEF Schedule, fileVars
  <2> QED
    BY <1>0, <2>1, <2>2, OneTaskSteps, QuietStep, Grown DEF Safe
<1>5. ASSUME NEW m \in Models, NEW need \in Turns, Require(m, need) PROVE Safe
    BY <1>4, <1>5 DEF Require, Keys
<1>6. ASSUME NEW m \in Models, CommitTurn(m) PROVE Safe
    BY <1>4, <1>6, TurnsAre DEF CommitTurn, Keys
<1>7. CASE Crash \/ \E m \in Keys : CrashBeforeSummary(m)
  <2>1. /\ summary' = summary
        /\ \A k \in Keys : task'[k].phase \in {"none", "start"} /\ task'[k].got = {}
    BY <1>0, <1>7, CrashDoes
  <2>2. \A k \in Keys : ~Holding(k)' /\ SavedInv(k)'
    BY <2>1 DEF Holding, SavedInv, Active
  <2> QED
    BY <1>0, <2>1, <2>2, Grown DEF Safe, PaidInv
<1> QED
    BY <1>1, <1>2, <1>3, <1>5, <1>6, <1>7, BeginPaid, CallsReturnPaid, CallsFailPaid
    DEF MaintNext, MaintStep

LEMMA PaidAlways == MaintSpec => []PaidInv
<1>1. MaintInit => PaidInv
  <2> SUFFICES ASSUME MaintInit PROVE PaidInv
    OBVIOUS
  <2>1. MaintTypeOK /\ \A m \in Keys : task[m] = NoTask
    BY MaintInitInv DEF MaintInv, MaintInit
  <2>2. \A m \in Keys : ~Holding(m)
    BY <2>1, NoTaskIs DEF Holding
  <2> QED
    BY <2>1, <2>2, NothingHeld DEF PaidInv
<1>2. PaidInv /\ [MaintNext]_maintVars => PaidInv'
    BY PaidNext DEF Safe
<1> QED
    BY <1>1, <1>2, PTL DEF MaintSpec

(* "Work already paid for survives into the checkpoint": what the calls of *)
(* a run have returned is in the file between two calls, and between two   *)
(* attempts, for any failures and replacements of the process, as long as  *)
(* no other run of the conversation has come beside it.                    *)
THEOREM PaidIsKeptAlways == MaintSpec => []PaidIsKept
<1>1. PaidInv => PaidIsKept
    BY DEF PaidInv, SavedInv, PaidIsKept
<1> QED
    BY <1>1, PaidAlways, PTL

(* The summary file is only replaced by one that covers more, but at the   *)
(* end of a run which another run of the conversation has been beside.     *)
THEOREM SummaryGrowsAlways == MaintSpec => SummaryGrows
<1>1. PaidInv /\ [MaintNext]_maintVars => [summary' >= summary \/ Shortened]_maintVars
    BY PaidNext DEF Safe
<1> QED
    BY <1>1, PaidAlways, PTL DEF MaintSpec, SummaryGrows
===============================================================================
