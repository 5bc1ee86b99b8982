--------------------------- MODULE EventSyncProofs ---------------------------
(***************************************************************************)
(* Theorems about EventSync, for every number of runs, kinds, pages,       *)
(* callers, bindings, retries and concurrent attempts.  All of them rest   *)
(* on one inductive invariant, IInv.                                       *)
(***************************************************************************)
EXTENDS EventSync, TLAPS

\* A row that is not inserted yet is untouched; a row that succeeded walked
\* past the last kind.
Rows ==
  \A r \in Runs :
    /\ run[r].status = "absent" => run[r].checkpoint = Origin /\ source[r] = {}
    /\ run[r].status = "success" => run[r].checkpoint = Finished

Commits(r, kind, page) == commits[r][[kind |-> kind, page |-> page]]

\* A kind of a run was walked up to a last page, each page committed once.
KindWalked(r, kind) ==
  \E last \in 0..MaxPages - 1 :
    /\ [kind |-> kind, page |-> last] \in ended[r]
    /\ \A page \in 0..MaxPages - 1 :
         Commits(r, kind, page) = IF page <= last THEN 1 ELSE 0

\* The checkpoint tells what was committed: every kind before it as a whole,
\* every page before it of its own kind, and nothing after it.
Walked ==
  \A r \in Runs, kind \in 0..Kinds - 1 :
    /\ kind < run[r].checkpoint.kind => KindWalked(r, kind)
    /\ kind >= run[r].checkpoint.kind =>
         \A page \in 0..MaxPages - 1 :
           Commits(r, kind, page) =
             IF kind = run[r].checkpoint.kind /\ page < run[r].checkpoint.page
             THEN 1 ELSE 0

\* What an attempt's view guarantees, however old it is.
Views ==
  \A k \in Keys :
    /\ task[k].pc \in {"loaded", "paging", "continuing"} => task[k].at \in Checkpoints
    /\ task[k].pc = "paging" => task[k].binding \in Bindings /\ task[k].left # 0
    /\ task[k].pc = "finishing" => run[RunOf(k)].checkpoint = Finished

\* A ready connection is bound.
ReadyIsBound == connection.status = "ready" => connection.binding \in Bindings

IInv ==
  /\ TypeOK
  /\ OneRunningEventRun
  /\ Rows
  /\ Walked
  /\ Views
  /\ ReadyIsBound
  /\ RunningUnderApproval
  /\ OneBindingPerRun

-----------------------------------------------------------------------------
(* Lemmas about the operators *)

\* The positions of a run: the origin is a checkpoint, and the end is not.
LEMMA PositionFacts ==
  /\ Origin \in Checkpoints
  /\ Finished \in Positions
  /\ Finished \notin Checkpoints
  /\ Origin \in Positions
BY EventSyncAssumption DEF Origin, Finished, Checkpoints, Positions

\* The next checkpoint is a position again, and says where the walk goes.
LEMMA NextCheckpointType ==
  ASSUME NEW at \in Checkpoints, NEW more \in BOOLEAN,
         more => at.page + 1 < MaxPages
  PROVE  /\ NextCheckpoint(at, more) \in Positions
         /\ more => NextCheckpoint(at, more) = [kind |-> at.kind, page |-> at.page + 1]
         /\ ~more => NextCheckpoint(at, more) = [kind |-> at.kind + 1, page |-> 0]
BY EventSyncAssumption DEF NextCheckpoint, Checkpoints, Positions, Finished

\* Failing runs touches the status and the lease of the running ones only.
LEMMA FailingFacts ==
  ASSUME run \in [Runs -> Run], NEW R
  PROVE  /\ Failing(R) \in [Runs -> Run]
         /\ \A r \in Runs :
              /\ Failing(R)[r].checkpoint = run[r].checkpoint
              /\ Failing(R)[r].request = run[r].request
              /\ Failing(R)[r].status =
                   IF r \in R /\ IsRunning(r) THEN "failed" ELSE run[r].status
              /\ ~(r \in R /\ IsRunning(r)) => Failing(R)[r] = run[r]
<1>1. 0 \in 0..Lease
  BY EventSyncAssumption
<1>2. ASSUME NEW q \in Runs
      PROVE  (IF q \in R /\ IsRunning(q)
              THEN [run[q] EXCEPT !.status = "failed", !.idle = 0]
              ELSE run[q]) \in Run
  BY <1>1, <1>2 DEF Run
<1>3. QED
  BY <1>2 DEF Failing, Run

\* A task that is queued, thrown or triggered is still a task.
LEMMA TaskTypes ==
  /\ Untriggered \in Task /\ Ended \in Task
  /\ \A n \in 1..MaxAttempts : Queued(n) \in Task
  /\ \A t \in Task : Thrown(t) \in Task
<1>1. /\ 0 \in 0..MaxAttempts /\ 1 \in 0..MaxAttempts /\ 0 \in 0..BatchPages
      /\ MaxAttempts \in Nat
  BY EventSyncAssumption
<1>2. Untriggered \in Task
  BY <1>1, PositionFacts DEF Untriggered, Task
<1>3. ASSUME NEW n \in 1..MaxAttempts PROVE Queued(n) \in Task
  <2>1. n \in 0..MaxAttempts
    BY <1>1
  <2>2. QED
    BY <1>2, <2>1 DEF Queued, Task
<1>4. Ended \in Task
  BY <1>2 DEF Ended, Untriggered, Task
<1>5. ASSUME NEW t \in Task PROVE Thrown(t) \in Task
  <2>1. CASE t.attempt < MaxAttempts
    <3>1. t.attempt + 1 \in 1..MaxAttempts
      BY <1>1, <2>1 DEF Task
    <3>2. QED
      BY <3>1, <2>1, <1>3 DEF Thrown
  <2>2. CASE ~(t.attempt < MaxAttempts)
    BY <2>2, <1>2 DEF Thrown, Untriggered, Task
  <2>3. QED
    BY <2>1, <2>2
<1>6. QED
  BY <1>2, <1>3, <1>4, <1>5

\* Replacing one task keeps the others and the type.
LEMMA TaskUpdate ==
  ASSUME task \in [Keys -> Task], NEW k \in Keys, NEW t \in Task,
         task' = [task EXCEPT ![k] = t]
  PROVE  /\ task' \in [Keys -> Task]
         /\ task'[k] = t
         /\ \A j \in Keys \ {k} : task'[j] = task[j]
OBVIOUS

\* Neither a thrown attempt nor an ended one holds a view.
LEMMA IdleTasks ==
  ASSUME NEW t
  PROVE  /\ Thrown(t).pc \in {"queued", "exhausted"}
         /\ Queued(1).pc = "queued"
         /\ Ended.pc = "done"
BY DEF Thrown, Queued, Ended, Untriggered

\* A trigger adds a queued task or changes nothing.
LEMMA TriggeringFacts ==
  ASSUME task \in [Keys -> Task], NEW k
  PROVE  /\ Triggering(k) \in [Keys -> Task]
         /\ \A j \in Keys : \/ Triggering(k)[j] = task[j]
                            \/ Triggering(k)[j].pc = "queued"
<1>1. Queued(1) \in Task
  BY TaskTypes, EventSyncAssumption
<1>2. Triggering(k) = task \/ Triggering(k) = [task EXCEPT ![k] = Queued(1)]
  BY DEF Triggering
<1>3. QED
  BY <1>1, <1>2, IdleTasks

-----------------------------------------------------------------------------
(* The initial states *)

LEMMA InitIInv == Init => IInv
<1> SUFFICES ASSUME Init PROVE IInv
  OBVIOUS
<1> USE DEF Init
<1>1. TypeOK
  <2>1. 0 \in 0..Lease
    BY EventSyncAssumption
  <2>2. run \in [Runs -> Run]
    BY <2>1, PositionFacts, EventSyncAssumption DEF Run
  <2>3. task \in [Keys -> Task]
    BY TaskTypes
  <2>4. QED
    BY <2>2, <2>3 DEF TypeOK
<1>2. OneRunningEventRun
  BY DEF OneRunningEventRun, IsRunning
<1>3. Rows
  BY DEF Rows
<1>4. Walked
  <2>1. ASSUME NEW r \in Runs, NEW kind \in 0..Kinds - 1, NEW page \in 0..MaxPages - 1
        PROVE  Commits(r, kind, page) = 0
    BY DEF Commits, Checkpoints
  <2>2. QED
    BY <2>1 DEF Walked, Origin
<1>5. Views
  BY DEF Views, Untriggered
<1>6. ReadyIsBound /\ RunningUnderApproval /\ OneBindingPerRun
  BY DEF ReadyIsBound, RunningUnderApproval, OneBindingPerRun, IsRunning
<1>7. QED
  BY <1>1, <1>2, <1>3, <1>4, <1>5, <1>6 DEF IInv

-----------------------------------------------------------------------------
(* Frames: what an action keeps by leaving variables alone *)

\* Views survive a step that keeps the checkpoints, if every task keeps its
\* own view or lets go of it.
LEMMA ViewsFrame ==
  ASSUME Views,
         \A r \in Runs : run'[r].checkpoint = run[r].checkpoint,
         \A k \in Keys : \/ task'[k] = task[k]
                         \/ task'[k].pc \in {"none", "queued", "exhausted", "done"}
  PROVE  Views'
BY DEF Views, Keys, RunOf

\* The walk survives a step that commits no page and keeps the checkpoints.
LEMMA WalkedFrame ==
  ASSUME Walked,
         \A r \in Runs : run'[r].checkpoint = run[r].checkpoint,
         UNCHANGED <<commits, ended>>
  PROVE  Walked'
<1>1. ASSUME NEW r \in Runs, NEW kind \in 0..Kinds - 1
      PROVE  /\ KindWalked(r, kind)' <=> KindWalked(r, kind)
             /\ \A page : Commits(r, kind, page)' = Commits(r, kind, page)
  BY DEF KindWalked, Commits
<1>2. QED
  BY <1>1 DEF Walked

\* A step of a task that leaves the rows alone.
LEMMA QuietStep ==
  ASSUME IInv, TypeOK', Views',
         UNCHANGED <<connection, run, commits, ended, source>>
  PROVE  IInv'
<1>1. OneRunningEventRun' /\ Rows' /\ ReadyIsBound' /\ RunningUnderApproval'
  BY DEF IInv, OneRunningEventRun, IsRunning, Rows, ReadyIsBound, RunningUnderApproval
<1>2. Walked'
  BY WalkedFrame DEF IInv
<1>3. OneBindingPerRun'
  BY DEF IInv, OneBindingPerRun
<1>4. QED
  BY <1>1, <1>2, <1>3 DEF IInv

\* A step that keeps each row's checkpoint and request, starts no run and
\* lets no run succeed.
LEMMA SettlingStep ==
  ASSUME IInv, TypeOK', Views', ReadyIsBound', RunningUnderApproval',
         \A r \in Runs :
           /\ run'[r].checkpoint = run[r].checkpoint
           /\ run'[r].request = run[r].request
           /\ \/ run'[r].status = run[r].status
              \/ run[r].status = "running" /\ run'[r].status = "failed",
         UNCHANGED <<commits, ended, source>>
  PROVE  IInv'
<1>1. OneRunningEventRun' /\ Rows'
  BY DEF IInv, OneRunningEventRun, IsRunning, Rows
<1>2. Walked'
  BY WalkedFrame DEF IInv
<1>3. OneBindingPerRun'
  BY DEF IInv, OneBindingPerRun
<1>4. QED
  BY <1>1, <1>2, <1>3 DEF IInv

\* A task that throws, and every other task, keeps or loses its view.
LEMMA ThrowingStep ==
  ASSUME IInv, NEW k \in Keys, AttemptThrows(k),
         UNCHANGED <<connection, run, caller, ghosts>>
  PROVE  IInv'
<1>1. TypeOK'
  BY TaskTypes DEF IInv, TypeOK, AttemptThrows, ghosts
<1>2. Views'
  <2>1. \A j \in Keys : task'[j] = task[j] \/ task'[j].pc \in {"queued", "exhausted"}
    BY IdleTasks DEF AttemptThrows, IInv, TypeOK
  <2>2. QED
    BY <2>1, ViewsFrame DEF IInv
<1>3. QED
  BY <1>1, <1>2, QuietStep DEF ghosts

-----------------------------------------------------------------------------
(* One lemma for each group of actions: starting, batches, settling *)

\* Inserting a run while no other one is open, or in the place of one that is
\* failed in the same step.
LEMMA StartStep ==
  ASSUME IInv, NEW c \in Callers, Start(c)
  PROVE  IInv'
<1> USE DEF IInv
<1>1. PICK q \in Requests, r \in Runs :
        \/ StartFresh(c, q, r)
        \/ StartResume(c, q, r)
        \/ \E p \in Runs : StartReplace(c, q, p, r)
  BY DEF Start
<1>2. CASE StartResume(c, q, r)
  <2>1. TypeOK'
    BY <1>2 DEF StartResume, TypeOK, ghosts
  <2>2. Views'
    BY <1>2 DEF StartResume, Views
  <2>3. QED
    BY <1>2, <2>1, <2>2, QuietStep DEF StartResume, ghosts
<1>3. ASSUME NEW R \in SUBSET Runs, r \notin R, IsNext(r), MayStart(c),
             \A p \in Runs : IsRunning(p) => p \in R,
             run' = [Failing(R) EXCEPT ![r] = Inserted(q)],
             caller' = [caller EXCEPT ![c] = r],
             UNCHANGED <<connection, task, ghosts>>
      PROVE  IInv'
  <2>1. run \in [Runs -> Run] /\ Failing(R) \in [Runs -> Run]
    BY FailingFacts DEF TypeOK
  <2>2. Inserted(q) \in Run
    BY PositionFacts, EventSyncAssumption DEF Inserted, Run
  <2>3. TypeOK'
    BY <1>3, <2>1, <2>2 DEF TypeOK, ghosts
  <2>4. /\ run'[r] = Inserted(q)
        /\ \A p \in Runs \ {r} :
             /\ run'[p].checkpoint = run[p].checkpoint
             /\ run'[p].request = run[p].request
             /\ run'[p].status # "running"
             /\ run'[p].status = "failed" \/ run'[p].status = run[p].status
    BY <1>3, <2>1, FailingFacts DEF IsRunning
  <2>5. /\ run[r].status = "absent" /\ run[r].checkpoint = Origin
        /\ source[r] = {}
    BY <1>3 DEF IsNext, Rows
  <2>6. \A p \in Runs : run'[p].checkpoint = run[p].checkpoint
    BY <2>4, <2>5 DEF Inserted
  <2>7. OneRunningEventRun'
    BY <2>4 DEF OneRunningEventRun, IsRunning
  <2>8. Rows'
    BY <2>4, <1>3, <2>5 DEF Rows, Inserted, ghosts
  <2>9. Walked'
    BY <2>6, <1>3, WalkedFrame DEF ghosts
  <2>10. Views'
    BY <2>6, <1>3, ViewsFrame
  <2>11. ReadyIsBound' /\ RunningUnderApproval'
    BY <1>3, <2>4, <2>5
    DEF MayStart, ReadyIsBound, RunningUnderApproval, IsRunning, ghosts
  <2>12. OneBindingPerRun'
    BY <1>3, <2>4, <2>5 DEF OneBindingPerRun, ghosts
  <2>13. QED
    BY <2>3, <2>7, <2>8, <2>9, <2>10, <2>11, <2>12
<1>4. CASE StartFresh(c, q, r)
  <2>1. run = Failing({})
    BY DEF Failing, TypeOK
  <2>2. QED
    BY <1>4, <1>3, <2>1 DEF StartFresh
<1>5. ASSUME NEW p \in Runs, StartReplace(c, q, p, r) PROVE IInv'
  <2>1. p # r
    BY <1>5 DEF StartReplace, IsNext, IsRunning
  <2>2. \A s \in Runs : IsRunning(s) => s \in {p}
    BY <1>5 DEF StartReplace, OneRunningEventRun
  <2>3. QED
    BY <1>5, <1>3, <2>1, <2>2 DEF StartReplace
<1>6. QED
  BY <1>1, <1>2, <1>4, <1>5

\* Handing a run to its first task, or dying before that.
LEMMA CallerStep ==
  ASSUME IInv, NEW c \in Callers, Handoff(c) \/ CallerDies(c)
  PROVE  IInv'
<1> USE DEF IInv
<1>1. /\ task' \in [Keys -> Task]
      /\ \A k \in Keys : task'[k] = task[k] \/ task'[k].pc = "queued"
  BY TriggeringFacts DEF Handoff, CallerDies, TypeOK
<1>2. TypeOK'
  BY <1>1 DEF Handoff, CallerDies, TypeOK, ghosts
<1>3. Views'
  BY <1>1, ViewsFrame DEF Handoff, CallerDies
<1>4. QED
  BY <1>2, <1>3, QuietStep DEF Handoff, CallerDies, ghosts

\* Failing a set of running runs, whatever happens to the tasks.
LEMMA FailStep ==
  ASSUME IInv, NEW R, run' = Failing(R),
         caller' \in [Callers -> Runs \union {NoRun}],
         task' \in [Keys -> Task],
         \A k \in Keys : \/ task'[k] = task[k]
                         \/ task'[k].pc \in {"none", "queued", "exhausted", "done"},
         UNCHANGED <<connection, ghosts>>
  PROVE  IInv'
<1> USE DEF IInv
<1>1. /\ run' \in [Runs -> Run]
      /\ \A r \in Runs :
           /\ run'[r].checkpoint = run[r].checkpoint
           /\ run'[r].request = run[r].request
           /\ \/ run'[r].status = run[r].status
              \/ run[r].status = "running" /\ run'[r].status = "failed"
  BY FailingFacts DEF TypeOK, IsRunning
<1>2. TypeOK'
  BY <1>1 DEF TypeOK, ghosts
<1>3. Views'
  BY <1>1, ViewsFrame
<1>4. ReadyIsBound' /\ RunningUnderApproval'
  BY <1>1 DEF ReadyIsBound, RunningUnderApproval, IsRunning, ghosts
<1>5. QED
  BY <1>1, <1>2, <1>3, <1>4, SettlingStep DEF ghosts

\* The failed handoff and the failure handler.
LEMMA FailureHandlers ==
  ASSUME IInv, HandoffFails \/ \E k \in Keys : OnFailure(k)
  PROVE  IInv'
<1> USE DEF IInv
<1>1. CASE HandoffFails
  <2>1. /\ task' \in [Keys -> Task]
        /\ \A k \in Keys : task'[k] = task[k] \/ task'[k].pc = "queued"
    BY <1>1, TriggeringFacts DEF HandoffFails, TypeOK
  <2>2. caller' \in [Callers -> Runs \union {NoRun}]
    BY <1>1 DEF HandoffFails, TypeOK
  <2>3. QED
    BY <1>1, <2>1, <2>2, FailStep DEF HandoffFails
<1>2. ASSUME NEW k \in Keys, OnFailure(k) PROVE IInv'
  <2>1. /\ task' \in [Keys -> Task]
        /\ \A j \in Keys : task'[j] = task[j] \/ task'[j].pc = "done"
    BY <1>2, TaskTypes, IdleTasks DEF OnFailure, TypeOK
  <2>2. caller' \in [Callers -> Runs \union {NoRun}]
    BY <1>2 DEF OnFailure, TypeOK
  <2>3. QED
    BY <1>2, <2>1, <2>2, FailStep DEF OnFailure
<1>3. QED
  BY <1>1, <1>2

\* Loading the run: the view is the row's own checkpoint.
LEMMA LoadStep ==
  ASSUME IInv, NEW k \in Keys, Load(k)
  PROVE  IInv'
<1> USE DEF IInv
<1>1. CASE ~IsRunning(RunOf(k))
  BY <1>1, ThrowingStep DEF Load
<1>2. CASE IsRunning(RunOf(k))
  <2>1. RunOf(k) \in Runs
    BY DEF Keys, RunOf
  <2>2. run[RunOf(k)].checkpoint \in Positions
    BY <2>1 DEF TypeOK, Run
  <2>3. /\ task' \in [Keys -> Task]
        /\ \A j \in Keys \ {k} : task'[j] = task[j]
        /\ task'[k].at = run[RunOf(k)].checkpoint
        /\ task'[k].pc = IF run[RunOf(k)].checkpoint = Finished
                         THEN "finishing" ELSE "loaded"
    <3> DEFINE t == [task[k] EXCEPT
                      !.pc = IF run[RunOf(k)].checkpoint = Finished
                             THEN "finishing" ELSE "loaded",
                      !.at = run[RunOf(k)].checkpoint]
    <3>1. task' = [task EXCEPT ![k] = t]
      BY <1>2 DEF Load
    <3>2. task[k] \in Task
      BY DEF TypeOK
    <3>3. /\ t \in Task /\ t.at = run[RunOf(k)].checkpoint
          /\ t.pc = IF run[RunOf(k)].checkpoint = Finished
                    THEN "finishing" ELSE "loaded"
      BY <2>2, <3>2 DEF Task
    <3>4. task \in [Keys -> Task]
      BY DEF TypeOK
    <3> HIDE DEF t
    <3>5. QED
      BY <3>1, <3>3, <3>4, TaskUpdate
  <2>4. TypeOK'
    BY <2>3 DEF Load, TypeOK, ghosts
  <2>5. Views'
    BY <2>2, <2>3 DEF Load, Views, Positions
  <2>6. QED
    BY <2>4, <2>5, QuietStep DEF Load, ghosts
<1>3. QED
  BY <1>1, <1>2

\* Renewing the lease: the metrics loaded are those of a ready connection.
LEMMA RenewStep ==
  ASSUME IInv, NEW k \in Keys, Renew(k)
  PROVE  IInv'
<1> USE DEF IInv
<1>1. CASE ~IsRunning(RunOf(k))
  BY <1>1, ThrowingStep DEF Renew
<1>2. CASE IsRunning(RunOf(k))
  <2>1. RunOf(k) \in Runs
    BY DEF Keys, RunOf
  <2>2. connection.binding \in Bindings
    BY <1>2, <2>1 DEF RunningUnderApproval, ReadyIsBound
  <2>3. 0 \in 0..Lease /\ BatchPages \in 0..BatchPages
    BY EventSyncAssumption
  <2>4. /\ task' \in [Keys -> Task]
        /\ \A j \in Keys \ {k} : task'[j] = task[j]
        /\ task'[k].at = task[k].at
        /\ task'[k].pc = "paging" /\ task'[k].binding = connection.binding
        /\ task'[k].left # 0
    <3> DEFINE t == [task[k] EXCEPT !.pc = "paging", !.left = BatchPages,
                                    !.binding = connection.binding]
    <3>1. task' = [task EXCEPT ![k] = t]
      BY <1>2 DEF Renew
    <3>2. task[k] \in Task
      BY DEF TypeOK
    <3>3. /\ t \in Task /\ t.at = task[k].at
          /\ t.pc = "paging" /\ t.binding = connection.binding /\ t.left # 0
      BY <2>2, <2>3, <3>2, EventSyncAssumption DEF Task
    <3>4. task \in [Keys -> Task]
      BY DEF TypeOK
    <3> HIDE DEF t
    <3>5. QED
      BY <3>1, <3>3, <3>4, TaskUpdate
  <2>5. /\ run' \in [Runs -> Run]
        /\ \A r \in Runs : /\ run'[r].checkpoint = run[r].checkpoint
                           /\ run'[r].request = run[r].request
                           /\ run'[r].status = run[r].status
    <3>1. run' = [run EXCEPT ![RunOf(k)].idle = 0]
      BY <1>2 DEF Renew
    <3>2. run \in [Runs -> Run]
      BY DEF TypeOK
    <3>3. QED
      BY <2>1, <2>3, <3>1, <3>2 DEF Run
  <2>6. TypeOK'
    BY <2>4, <2>5 DEF Renew, TypeOK, ghosts
  <2>7. Views'
    BY <2>2, <2>4, <2>5 DEF Renew, Views, Keys, RunOf
  <2>8. ReadyIsBound' /\ RunningUnderApproval'
    BY <2>5 DEF Renew, ReadyIsBound, RunningUnderApproval, IsRunning, ghosts
  <2>9. QED
    BY <2>5, <2>6, <2>7, <2>8, SettlingStep DEF Renew, ghosts
<1>3. QED
  BY <1>1, <1>2

\* Committing a page: the one step that moves a checkpoint.
LEMMA CommitStep ==
  ASSUME IInv, NEW k \in Keys, NEW more \in BOOLEAN, NEW nonempty \in BOOLEAN,
         CommitPage(k, more, nonempty)
  PROVE  IInv'
<1> DEFINE r    == RunOf(k)
           at   == task[k].at
           next == NextCheckpoint(at, more)
<1> USE DEF IInv
<1>1. r \in Runs
  BY DEF Keys, RunOf
<1>2. /\ at \in Checkpoints /\ run[r].checkpoint = at
      /\ run[r].status = "running" /\ task[k].binding \in Bindings
  BY DEF CommitPage, Views, HoldsCheckpoint, IsRunning
<1>3. /\ next \in Positions
      /\ more => next = [kind |-> at.kind, page |-> at.page + 1]
      /\ ~more => next = [kind |-> at.kind + 1, page |-> 0]
  BY <1>2, NextCheckpointType DEF CommitPage
<1>4. at.kind \in 0..Kinds - 1 /\ at.page \in 0..MaxPages - 1
  BY <1>2 DEF Checkpoints
<1>5. /\ run' = [run EXCEPT ![r] = [@ EXCEPT !.checkpoint = next, !.idle = 0]]
      /\ task' = [task EXCEPT ![k] = AfterPage(@, next)]
      /\ commits' = [commits EXCEPT ![r][at] = @ + 1]
      /\ ended' = IF more THEN ended ELSE [ended EXCEPT ![r] = @ \union {at}]
      /\ source' = IF nonempty THEN [source EXCEPT ![r] = @ \union {task[k].binding}]
                   ELSE source
      /\ UNCHANGED <<connection, caller>>
      /\ task[k].pc = "paging"
      /\ nonempty /\ run[r].request \in OrderCore => task[k].binding = connection.binding
  BY DEF CommitPage, BindingHolds
<1> HIDE DEF r, at, next
<1>6. /\ run \in [Runs -> Run] /\ task \in [Keys -> Task]
      /\ commits \in [Runs -> [Checkpoints -> Nat]]
      /\ ended \in [Runs -> SUBSET Checkpoints]
      /\ source \in [Runs -> SUBSET Bindings]
  BY DEF TypeOK
<1>7. /\ run' \in [Runs -> Run]
      /\ \A q \in Runs : /\ run'[q].status = run[q].status
                         /\ run'[q].request = run[q].request
                         /\ q # r => run'[q] = run[q]
      /\ run'[r].checkpoint = next
  <2>1. 0 \in 0..Lease
    BY EventSyncAssumption
  <2>2. QED
    BY <1>1, <1>3, <1>5, <1>6, <2>1 DEF Run
<1>8. /\ task' \in [Keys -> Task]
      /\ \A j \in Keys \ {k} : task'[j] = task[j]
      /\ task'[k].at = next
      /\ task'[k].pc \in {"finishing", "continuing", "paging"}
      /\ task'[k].pc = "finishing" <=> next = Finished
      /\ task'[k].binding = task[k].binding
      /\ task'[k].pc = "paging" => task'[k].left # 0
  <2> DEFINE t == AfterPage(task[k], next)
  <2>1. task[k] \in Task
    BY <1>6
  <2>2. /\ t.at = next /\ t.binding = task[k].binding
        /\ t.pc \in {"finishing", "continuing", "paging"}
        /\ t.pc = "finishing" <=> next = Finished
        /\ t.pc = "paging" => t.left # 0
    BY <2>1 DEF AfterPage, Task
  <2>3. t \in Task
    <3>1. task[k].left - 1 \in 0..BatchPages
      BY <2>1, <1>5, EventSyncAssumption DEF Views, Task
    <3>2. QED
      BY <2>1, <3>1, <1>3 DEF AfterPage, Task
  <2> HIDE DEF t
  <2>4. task' = [task EXCEPT ![k] = t]
    BY <1>5 DEF t
  <2>5. QED
    BY <2>2, <2>3, <2>4, <1>6, TaskUpdate
<1>9. TypeOK'
  <2>1. commits' \in [Runs -> [Checkpoints -> Nat]]
    BY <1>1, <1>2, <1>5, <1>6 DEF at
  <2>2. ended' \in [Runs -> SUBSET Checkpoints]
    BY <1>1, <1>2, <1>5, <1>6
  <2>3. source' \in [Runs -> SUBSET Bindings]
    BY <1>1, <1>2, <1>5, <1>6
  <2>4. QED
    BY <2>1, <2>2, <2>3, <1>5, <1>7, <1>8 DEF TypeOK
<1>10. OneRunningEventRun'
  BY <1>7 DEF OneRunningEventRun, IsRunning
<1>11. Rows'
  BY <1>1, <1>2, <1>5, <1>6, <1>7 DEF Rows
<1>12. Views'
  <2>1. at # Finished
    BY <1>2, PositionFacts
  <2>2. \A j \in Keys : task[j].pc = "finishing" => RunOf(j) # r
    BY <2>1, <1>2 DEF Views
  <2>3. task'[k].pc \in {"continuing", "paging"} => next \in Checkpoints
    BY <1>3, <1>8 DEF Positions
  <2>4. \A j \in Keys \ {k} :
          task'[j].pc = "finishing" => run'[RunOf(j)].checkpoint = Finished
    BY <2>2, <1>7, <1>8 DEF Views, Keys, RunOf
  <2>5. QED
    BY <2>3, <2>4, <1>2, <1>7, <1>8 DEF Views, r
<1>13. ReadyIsBound' /\ RunningUnderApproval'
  BY <1>1, <1>2, <1>5, <1>6, <1>7 DEF ReadyIsBound, RunningUnderApproval, IsRunning
<1>14. OneBindingPerRun'
  <2>1. run[r].request \in OrderCore => source'[r] \subseteq {connection.binding}
    BY <1>1, <1>2, <1>5, <1>6 DEF RunningUnderApproval, IsRunning
  <2>2. \A q \in Runs \ {r} : source'[q] = source[q]
    BY <1>1, <1>5, <1>6
  <2>3. QED
    BY <2>1, <2>2, <1>7 DEF OneBindingPerRun
<1>15. Walked'
  <2>1. \A q \in Runs \ {r} : commits'[q] = commits[q] /\ ended'[q] = ended[q]
    BY <1>1, <1>5, <1>6
  <2>2. ASSUME NEW kind \in 0..Kinds - 1, NEW page \in 0..MaxPages - 1
        PROVE  Commits(r, kind, page)' =
                 IF kind = at.kind /\ page = at.page
                 THEN Commits(r, kind, page) + 1 ELSE Commits(r, kind, page)
    <3> DEFINE c == [kind |-> kind, page |-> page]
    <3>1. c \in Checkpoints /\ (c = at <=> kind = at.kind /\ page = at.page)
      BY <1>2 DEF Checkpoints
    <3> HIDE DEF c
    <3>2. commits'[r][c] = IF c = at THEN commits[r][c] + 1 ELSE commits[r][c]
      BY <3>1, <1>1, <1>2, <1>5, <1>6
    <3>3. QED
      BY <3>1, <3>2 DEF Commits, c
  <2>3. ended[r] \subseteq ended'[r] /\ (~more => at \in ended'[r])
    BY <1>1, <1>5, <1>6
  <2>4. ASSUME NEW kind \in 0..Kinds - 1
        PROVE  /\ kind < next.kind => KindWalked(r, kind)'
               /\ kind >= next.kind =>
                    \A page \in 0..MaxPages - 1 :
                      Commits(r, kind, page)' =
                        IF kind = next.kind /\ page < next.page THEN 1 ELSE 0
    <3>1. \A page \in 0..MaxPages - 1 :
            kind >= at.kind =>
              Commits(r, kind, page) =
                IF kind = at.kind /\ page < at.page THEN 1 ELSE 0
      BY <1>1, <1>2 DEF Walked
    <3>2. CASE kind < at.kind
      <4>1. PICK last \in 0..MaxPages - 1 :
              /\ [kind |-> kind, page |-> last] \in ended[r]
              /\ \A page \in 0..MaxPages - 1 :
                   Commits(r, kind, page) = IF page <= last THEN 1 ELSE 0
        BY <3>2, <1>1, <1>2 DEF Walked, KindWalked
      <4>2. \A page \in 0..MaxPages - 1 :
              Commits(r, kind, page)' = IF page <= last THEN 1 ELSE 0
        BY <4>1, <2>2, <3>2, <1>4
      <4>3. KindWalked(r, kind)'
        BY <4>1, <4>2, <2>3 DEF KindWalked
      <4>4. ~(kind >= next.kind)
        BY <3>2, <1>3, <1>4
      <4>5. QED
        BY <4>3, <4>4
    <3>3. CASE kind = at.kind /\ ~more
      <4>1. at = [kind |-> kind, page |-> at.page]
        BY <1>2, <3>3 DEF Checkpoints
      <4>2. \A page \in 0..MaxPages - 1 :
              Commits(r, kind, page)' = IF page <= at.page THEN 1 ELSE 0
        BY <2>2, <3>1, <3>3, <1>4
      <4>3. KindWalked(r, kind)'
        BY <4>1, <4>2, <2>3, <1>4, <3>3 DEF KindWalked
      <4>4. ~(kind >= next.kind)
        BY <3>3, <1>3, <1>4
      <4>5. QED
        BY <4>3, <4>4
    <3>4. CASE kind = at.kind /\ more
      BY <3>4, <2>2, <3>1, <1>3, <1>4
    <3>5. CASE kind > at.kind
      BY <3>5, <2>2, <3>1, <1>3, <1>4
    <3>6. QED
      BY <3>2, <3>3, <3>4, <3>5, <1>4
  <2>5. ASSUME NEW q \in Runs \ {r}, NEW kind \in 0..Kinds - 1
        PROVE  /\ KindWalked(q, kind)' <=> KindWalked(q, kind)
               /\ \A page : Commits(q, kind, page)' = Commits(q, kind, page)
    BY <2>1 DEF KindWalked, Commits
  <2>6. QED
    BY <2>4, <2>5, <1>7 DEF Walked
<1>16. QED
  BY <1>9, <1>10, <1>11, <1>12, <1>13, <1>14, <1>15

\* An attempt that finds its page already committed keeps its own view.
LEMMA SupersededStep ==
  ASSUME IInv, NEW k \in Keys, CommitSuperseded(k)
  PROVE  IInv'
<1> USE DEF IInv
<1>1. task' = [task EXCEPT ![k].pc = "continuing"] /\ task[k].pc = "paging"
  BY DEF CommitSuperseded
<1>2. /\ task' \in [Keys -> Task]
      /\ \A j \in Keys \ {k} : task'[j] = task[j]
      /\ task'[k].at = task[k].at /\ task'[k].pc = "continuing"
  BY <1>1 DEF TypeOK, Task
<1>3. TypeOK'
  BY <1>2 DEF CommitSuperseded, TypeOK, ghosts
<1>4. Views'
  BY <1>1, <1>2 DEF CommitSuperseded, Views
<1>5. QED
  BY <1>3, <1>4, QuietStep DEF CommitSuperseded, ghosts

\* The run succeeds only from the end of its walk.
LEMMA FinishStep ==
  ASSUME IInv, NEW k \in Keys, Finish(k)
  PROVE  IInv'
<1> USE DEF IInv
<1>1. CASE ~IsRunning(RunOf(k))
  BY <1>1, ThrowingStep DEF Finish
<1>2. CASE IsRunning(RunOf(k))
  <2> DEFINE r == RunOf(k)
  <2>1. /\ r \in Runs /\ run[r].checkpoint = Finished /\ IsRunning(r)
        /\ run' = [run EXCEPT ![r] = [@ EXCEPT !.status = "success", !.idle = 0]]
        /\ task' = [task EXCEPT ![k] = Ended]
        /\ UNCHANGED <<connection, caller, ghosts>>
    BY <1>2 DEF Finish, Views, Keys, RunOf
  <2> HIDE DEF r
  <2>2. 0 \in 0..Lease
    BY EventSyncAssumption
  <2>3. run \in [Runs -> Run] /\ task \in [Keys -> Task]
    BY DEF TypeOK
  <2>4. /\ run' \in [Runs -> Run]
        /\ \A q \in Runs : /\ run'[q].checkpoint = run[q].checkpoint
                           /\ run'[q].request = run[q].request
                           /\ q # r => run'[q] = run[q]
        /\ run'[r].status = "success"
    BY <2>1, <2>2, <2>3 DEF Run
  <2>5. /\ task' \in [Keys -> Task]
        /\ \A j \in Keys : task'[j] = task[j] \/ task'[j].pc = "done"
    BY <2>1, <2>3, TaskTypes, IdleTasks
  <2>6. TypeOK'
    BY <2>1, <2>4, <2>5 DEF TypeOK, ghosts
  <2>7. OneRunningEventRun' /\ Rows'
    BY <2>1, <2>4 DEF OneRunningEventRun, IsRunning, Rows, ghosts
  <2>8. Walked'
    BY <2>1, <2>4, WalkedFrame DEF ghosts
  <2>9. Views'
    BY <2>4, <2>5, ViewsFrame
  <2>10. ReadyIsBound' /\ RunningUnderApproval'
    BY <2>1, <2>4 DEF ReadyIsBound, RunningUnderApproval, IsRunning, ghosts
  <2>11. OneBindingPerRun'
    BY <2>1, <2>4 DEF OneBindingPerRun, ghosts
  <2>12. QED
    BY <2>6, <2>7, <2>8, <2>9, <2>10, <2>11
<1>3. QED
  BY <1>1, <1>2

\* Triggering the next batch, losing a task: no row is touched.
LEMMA LettingGoStep ==
  ASSUME IInv, NEW k \in Keys, Continue(k) \/ LoseTask(k)
  PROVE  IInv'
<1> USE DEF IInv
<1>1. task \in [Keys -> Task]
  BY DEF TypeOK
<1>2. /\ task' \in [Keys -> Task]
      /\ \A j \in Keys : \/ task'[j] = task[j]
                         \/ task'[j].pc \in {"queued", "exhausted", "done"}
  <2>1. CASE Continue(k)
    <3>1. PICK t \in {Ended, Thrown(task[k])} :
            task' = [Triggering(<<RunOf(k), task[k].at>>) EXCEPT ![k] = t]
      BY <2>1 DEF Continue
    <3>2. t \in Task /\ t.pc \in {"queued", "exhausted", "done"}
      BY <3>1, <1>1, TaskTypes, IdleTasks
    <3>3. QED
      BY <3>1, <3>2, <1>1, TriggeringFacts
  <2>2. CASE LoseTask(k)
    BY <2>2, <1>1, TaskTypes, IdleTasks DEF LoseTask
  <2>3. QED
    BY <2>1, <2>2
<1>3. UNCHANGED <<connection, run, caller, ghosts>>
  BY DEF Continue, LoseTask
<1>4. TypeOK'
  BY <1>2, <1>3 DEF TypeOK, ghosts
<1>5. Views'
  BY <1>2, <1>3, ViewsFrame
<1>6. QED
  BY <1>3, <1>4, <1>5, QuietStep DEF ghosts

\* Discovery fails every running run in the transaction that rebinds.
LEMMA DiscoverStep ==
  ASSUME IInv, NEW b \in Bindings, Discover(b)
  PROVE  IInv'
<1> USE DEF IInv
<1>1. /\ run' \in [Runs -> Run]
      /\ \A r \in Runs :
           /\ run'[r].checkpoint = run[r].checkpoint
           /\ run'[r].request = run[r].request
           /\ run'[r].status # "running"
           /\ \/ run'[r].status = run[r].status
              \/ run[r].status = "running" /\ run'[r].status = "failed"
  <2>1. run \in [Runs -> Run]
    BY DEF TypeOK
  <2>2. CASE connection.binding = NoBinding
    <3>1. \A r \in Runs : ~IsRunning(r)
      BY <2>2, EventSyncAssumption DEF RunningUnderApproval, ReadyIsBound
    <3>2. QED
      BY <2>1, <2>2, <3>1 DEF Discover, IsRunning
  <2>3. CASE connection.binding # NoBinding
    <3>1. run' = Failing(Runs)
      BY <2>3 DEF Discover
    <3>2. QED
      BY <2>1, <3>1, FailingFacts DEF IsRunning
  <2>4. QED
    BY <2>2, <2>3
<1>2. /\ connection' \in [status : {"pending", "ready"}, probed : BOOLEAN,
                          binding : Bindings \union {NoBinding}]
      /\ connection'.binding = b
  BY DEF Discover, TypeOK
<1>3. TypeOK'
  BY <1>1, <1>2 DEF Discover, TypeOK, ghosts
<1>4. Views'
  BY <1>1, ViewsFrame DEF Discover
<1>5. ReadyIsBound' /\ RunningUnderApproval'
  BY <1>1, <1>2 DEF ReadyIsBound, RunningUnderApproval, IsRunning
<1>6. QED
  BY <1>1, <1>3, <1>4, <1>5, SettlingStep DEF Discover, ghosts

\* Approving a probe, and the passing of time.
LEMMA ApproveStep ==
  ASSUME IInv, ApproveProbe
  PROVE  IInv'
<1> USE DEF IInv
<1>1. /\ connection' \in [status : {"pending", "ready"}, probed : BOOLEAN,
                          binding : Bindings \union {NoBinding}]
      /\ connection'.binding = connection.binding
      /\ connection.binding \in Bindings
      /\ \A r \in Runs : ~IsRunning(r)
  BY DEF ApproveProbe, TypeOK, RunningUnderApproval
<1>2. TypeOK'
  BY <1>1 DEF ApproveProbe, TypeOK, ghosts
<1>3. Views'
  BY DEF ApproveProbe, Views
<1>4. ReadyIsBound' /\ RunningUnderApproval'
  BY <1>1 DEF ApproveProbe, ReadyIsBound, RunningUnderApproval, IsRunning
<1>5. QED
  BY <1>2, <1>3, <1>4, SettlingStep DEF ApproveProbe, ghosts

LEMMA TickStep ==
  ASSUME IInv, Tick
  PROVE  IInv'
<1> USE DEF IInv
<1>1. run \in [Runs -> Run]
  BY DEF TypeOK
<1>2. ASSUME NEW r \in Runs, IsRunning(r), ~IsStale(r)
      PROVE  [run[r] EXCEPT !.idle = @ + 1] \in Run
  <2>1. run[r].idle + 1 \in 0..Lease
    BY <1>1, <1>2, EventSyncAssumption DEF IsStale, Run
  <2>2. QED
    BY <1>1, <2>1 DEF Run
<1>3. run' \in [Runs -> Run]
  BY <1>1, <1>2 DEF Tick
<1>4. \A r \in Runs : /\ run'[r].checkpoint = run[r].checkpoint
                      /\ run'[r].request = run[r].request
                      /\ run'[r].status = run[r].status
  BY <1>1 DEF Tick, Run
<1>5. TypeOK'
  BY <1>3 DEF Tick, TypeOK, ghosts
<1>6. Views'
  BY <1>4, ViewsFrame DEF Tick
<1>7. ReadyIsBound' /\ RunningUnderApproval'
  BY <1>4 DEF Tick, ReadyIsBound, RunningUnderApproval, IsRunning, ghosts
<1>8. QED
  BY <1>4, <1>5, <1>6, <1>7, SettlingStep DEF Tick, ghosts

-----------------------------------------------------------------------------
(* The inductive step and its theorems *)

LEMMA NextIInv == IInv /\ [Next]_vars => IInv'
<1> SUFFICES ASSUME IInv, [Next]_vars PROVE IInv'
  OBVIOUS
<1>1. ASSUME NEW c \in Callers, Start(c) \/ Handoff(c) \/ CallerDies(c) PROVE IInv'
  BY <1>1, StartStep, CallerStep
<1>2. CASE HandoffFails
  BY <1>2, FailureHandlers
<1>3. ASSUME NEW k \in Keys, TaskStep(k) PROVE IInv'
  <2>1. CASE Load(k)
    BY <2>1, LoadStep
  <2>2. CASE Renew(k)
    BY <2>2, RenewStep
  <2>3. ASSUME NEW more \in BOOLEAN, NEW nonempty \in BOOLEAN,
               CommitPage(k, more, nonempty)
        PROVE  IInv'
    BY <2>3, CommitStep
  <2>4. CASE CommitSuperseded(k)
    BY <2>4, SupersededStep
  <2>5. CASE CommitRejected(k)
    BY <2>5, ThrowingStep DEF CommitRejected
  <2>6. CASE Finish(k)
    BY <2>6, FinishStep
  <2>7. CASE Continue(k)
    BY <2>7, LettingGoStep
  <2>8. CASE OnFailure(k)
    BY <2>8, FailureHandlers
  <2>9. QED
    BY <1>3, <2>1, <2>2, <2>3, <2>4, <2>5, <2>6, <2>7, <2>8 DEF TaskStep
<1>4. ASSUME NEW k \in Keys, Crash(k) \/ LoseTask(k) PROVE IInv'
  BY <1>4, ThrowingStep, LettingGoStep DEF Crash
<1>5. ASSUME NEW b \in Bindings, Discover(b) PROVE IInv'
  BY <1>5, DiscoverStep
<1>6. CASE ApproveProbe
  BY <1>6, ApproveStep
<1>7. CASE Tick
  BY <1>7, TickStep
<1>8. CASE UNCHANGED vars
  <2>1. TypeOK' /\ Views'
    BY <1>8 DEF IInv, TypeOK, Views, vars
  <2>2. QED
    BY <1>8, <2>1, QuietStep DEF vars
<1>9. QED
  BY <1>1, <1>2, <1>3, <1>4, <1>5, <1>6, <1>7, <1>8 DEF Next

\* Every reachable state satisfies the inductive invariant: checkpoints tell
\* what was committed, views are never ahead of it, and a running run belongs
\* to the connection's present approval.
THEOREM Invariance == Spec => []IInv
  BY InitIInv, NextIInv, PTL DEF Spec

\* Type correctness of every row, caller and task.
THEOREM TypeCorrectness == Spec => []TypeOK
  BY Invariance, PTL DEF IInv

\* The locking of the start alone keeps one event run running at most.
THEOREM SingleEventRun == Spec => []OneRunningEventRun
  BY Invariance, PTL DEF IInv

\* A run succeeds only with every page of every kind committed exactly once.
THEOREM WholeWindow == Spec => []SuccessIsWholeWindow
<1>1. IInv => SuccessIsWholeWindow
  <2> SUFFICES ASSUME IInv, NEW r \in Runs, run[r].status = "success",
                      NEW kind \in 0..Kinds - 1
               PROVE  KindWalked(r, kind)
    BY DEF SuccessIsWholeWindow, KindWalked, Commits
  <2>1. run[r].checkpoint.kind = Kinds
    BY DEF IInv, Rows, Finished
  <2>2. kind < Kinds
    BY EventSyncAssumption
  <2>3. QED
    BY <2>1, <2>2 DEF IInv, Walked
<1>2. QED
  BY <1>1, Invariance, PTL

\* A running event run never outlives the approval it was started under.
THEOREM Approval == Spec => []RunningUnderApproval
  BY Invariance, PTL DEF IInv

\* One order core run never mixes the events of two bindings.
THEOREM SingleBinding == Spec => []OneBindingPerRun
  BY Invariance, PTL DEF IInv

-----------------------------------------------------------------------------
(* What one step does to the rows *)

\* Every step leaves the rows alone, renews or ages leases, fails running
\* runs, moves one run forward by a page, or inserts a run, possibly in the
\* place of the running one; a run succeeds only from Finished.
RowsKept(R) ==
  \A r \in R : /\ run'[r].status = run[r].status
               /\ run'[r].checkpoint = run[r].checkpoint
               /\ ~IsRunning(r) => run'[r] = run[r]

RowsFail == run' \in {Failing(R) : R \in SUBSET Runs}

RowAdvances(r) ==
  /\ IsRunning(r) /\ run'[r].status = "running"
  /\ run[r].checkpoint \in Checkpoints
  /\ run'[r].checkpoint \in
       {[kind |-> run[r].checkpoint.kind, page |-> run[r].checkpoint.page + 1],
        [kind |-> run[r].checkpoint.kind + 1, page |-> 0]}
  /\ RowsKept(Runs \ {r})

RowSucceeds(r) ==
  /\ IsRunning(r) /\ run[r].checkpoint = Finished
  /\ run'[r].status = "success" /\ run'[r].checkpoint = Finished
  /\ RowsKept(Runs \ {r})

RowInserted(R, r) ==
  /\ run[r].status = "absent" /\ r \notin R
  /\ \A p \in R : IsRunning(p)
  /\ \A p \in Runs : IsRunning(p) => p \in R
  /\ \E q \in Requests : run' = [Failing(R) EXCEPT ![r] = Inserted(q)]

RowsStep ==
  \/ RowsKept(Runs)
  \/ RowsFail
  \/ \E r \in Runs : RowAdvances(r) \/ RowSucceeds(r)
  \/ \E r \in Runs : RowInserted({}, r) \/ \E p \in Runs : RowInserted({p}, r)

\* Every step of the system does one of these to the rows.
LEMMA RowsSummary == IInv /\ [Next]_vars => RowsStep
<1> SUFFICES ASSUME IInv, [Next]_vars PROVE RowsStep
  OBVIOUS
<1>1. run \in [Runs -> Run]
  BY DEF IInv, TypeOK
<1>2. CASE UNCHANGED run
  BY <1>2 DEF RowsStep, RowsKept
<1>3. ASSUME NEW c \in Callers, Start(c) PROVE RowsStep
  <2>1. PICK q \in Requests, r \in Runs :
          \/ StartFresh(c, q, r)
          \/ StartResume(c, q, r)
          \/ \E p \in Runs : StartReplace(c, q, p, r)
    BY <1>3 DEF Start
  <2>2. CASE StartFresh(c, q, r)
    <3>1. run = Failing({})
      BY <1>1 DEF Failing
    <3>2. RowInserted({}, r)
      BY <2>2, <3>1 DEF StartFresh, RowInserted, IsNext
    <3>3. QED
      BY <3>2 DEF RowsStep
  <2>3. CASE StartResume(c, q, r)
    BY <2>3, <1>2 DEF StartResume
  <2>4. ASSUME NEW p \in Runs, StartReplace(c, q, p, r) PROVE RowsStep
    <3>1. /\ IsRunning(p) /\ run[r].status = "absent"
          /\ run' = [Failing({p}) EXCEPT ![r] = Inserted(q)]
      BY <2>4 DEF StartReplace, IsNext
    <3>2. \A s \in Runs : IsRunning(s) => s \in {p}
      BY <3>1 DEF IInv, OneRunningEventRun
    <3>3. r \notin {p}
      BY <3>1 DEF IsRunning
    <3>4. RowInserted({p}, r)
      BY <3>1, <3>2, <3>3 DEF RowInserted
    <3>5. QED
      BY <3>4 DEF RowsStep
  <2>5. QED
    BY <2>1, <2>2, <2>3, <2>4
<1>4. CASE HandoffFails
  <2>1. PICK R : R = {caller[Manual]} /\ run' = Failing(R)
    BY <1>4 DEF HandoffFails
  <2>2. R \in SUBSET Runs
    BY <2>1, <1>4 DEF HandoffFails, IInv, TypeOK
  <2>3. QED
    BY <2>1, <2>2 DEF RowsStep, RowsFail
<1>5. ASSUME NEW k \in Keys, Renew(k) PROVE RowsStep
  <2>1. \/ UNCHANGED run
        \/ IsRunning(RunOf(k)) /\ run' = [run EXCEPT ![RunOf(k)].idle = 0]
    BY <1>5 DEF Renew
  <2>2. RunOf(k) \in Runs
    BY DEF Keys, RunOf
  <2>3. RowsKept(Runs)
    BY <2>1, <2>2, <1>1 DEF RowsKept, Run
  <2>4. QED
    BY <2>3 DEF RowsStep
<1>6. ASSUME NEW k \in Keys, NEW more \in BOOLEAN, NEW nonempty \in BOOLEAN,
             CommitPage(k, more, nonempty)
      PROVE  RowsStep
  <2> DEFINE r    == RunOf(k)
             at   == task[k].at
             next == NextCheckpoint(at, more)
  <2>1. /\ r \in Runs /\ IsRunning(r) /\ run[r].checkpoint = at
        /\ at \in Checkpoints
        /\ run' = [run EXCEPT ![r] = [@ EXCEPT !.checkpoint = next, !.idle = 0]]
    BY <1>6 DEF CommitPage, HoldsCheckpoint, IInv, Views, Keys, RunOf
  <2>2. next \in {[kind |-> at.kind, page |-> at.page + 1],
                  [kind |-> at.kind + 1, page |-> 0]}
    BY <1>6, <2>1, NextCheckpointType DEF CommitPage
  <2> HIDE DEF r, at, next
  <2>3. RowAdvances(r)
    BY <2>1, <2>2, <1>1 DEF RowAdvances, RowsKept, IsRunning, Run
  <2>4. QED
    BY <2>1, <2>3 DEF RowsStep
<1>7. ASSUME NEW k \in Keys, Finish(k), IsRunning(RunOf(k)) PROVE RowsStep
  <2> DEFINE r == RunOf(k)
  <2>1. /\ r \in Runs /\ run[r].checkpoint = Finished /\ IsRunning(r)
        /\ run' = [run EXCEPT ![r] = [@ EXCEPT !.status = "success", !.idle = 0]]
    BY <1>7 DEF Finish, IInv, Views, Keys, RunOf
  <2> HIDE DEF r
  <2>2. RowSucceeds(r)
    BY <2>1, <1>1 DEF RowSucceeds, RowsKept, Run
  <2>3. QED
    BY <2>1, <2>2 DEF RowsStep
<1>8. ASSUME NEW k \in Keys, OnFailure(k) PROVE RowsStep
  <2>1. PICK R : R = {RunOf(k)} /\ run' = Failing(R)
    BY <1>8 DEF OnFailure
  <2>2. R \in SUBSET Runs
    BY <2>1 DEF Keys, RunOf
  <2>3. QED
    BY <2>1, <2>2 DEF RowsStep, RowsFail
<1>9. ASSUME NEW b \in Bindings, Discover(b) PROVE RowsStep
  BY <1>9, <1>2 DEF Discover, RowsStep, RowsFail
<1>10. CASE Tick
  <2>1. RowsKept(Runs)
    BY <1>10, <1>1 DEF Tick, RowsKept, Run
  <2>2. QED
    BY <2>1 DEF RowsStep
<1>11. ASSUME NEW k \in Keys, TaskStep(k) PROVE RowsStep
  BY <1>11, <1>2, <1>5, <1>6, <1>7, <1>8
  DEF TaskStep, Load, CommitSuperseded, CommitRejected, Finish, Continue
<1>12. ASSUME NEW k \in Keys, Crash(k) \/ LoseTask(k) PROVE RowsStep
  BY <1>12, <1>2 DEF Crash, LoseTask
<1>13. ASSUME NEW c \in Callers, Handoff(c) \/ CallerDies(c) PROVE RowsStep
  BY <1>13, <1>2 DEF Handoff, CallerDies
<1>14. CASE ApproveProbe \/ UNCHANGED vars
  BY <1>14, <1>2 DEF ApproveProbe, vars
<1>15. QED
  BY <1>3, <1>4, <1>9, <1>10, <1>11, <1>12, <1>13, <1>14 DEF Next

-----------------------------------------------------------------------------
(* History is final *)

\* No late commit, finish, failure handler, failed handoff or reaper changes
\* a finished row, and a running row only moves forward.
THEOREM FinalHistory == Spec => RunHistoryIsFinal
<1>1. IInv /\ [Next]_vars => \A r \in Runs : RowMovesForward(r)
  <2> SUFFICES ASSUME IInv, RowsStep, NEW r \in Runs PROVE RowMovesForward(r)
    BY RowsSummary
  <2>1. run \in [Runs -> Run]
    BY DEF IInv, TypeOK
  <2>2. CASE RowsKept(Runs)
    BY <2>2 DEF RowMovesForward, RowsKept, IsRunning
  <2>3. CASE RowsFail
    BY <2>1, <2>3, FailingFacts DEF RowMovesForward, RowsFail, IsRunning
  <2>4. ASSUME NEW p \in Runs, RowAdvances(p) PROVE RowMovesForward(r)
    BY <2>4 DEF RowMovesForward, RowAdvances, RowsKept, IsRunning, Checkpoints
  <2>5. ASSUME NEW p \in Runs, RowSucceeds(p) PROVE RowMovesForward(r)
    BY <2>5 DEF RowMovesForward, RowSucceeds, RowsKept, IsRunning
  <2>6. ASSUME NEW R \in SUBSET Runs, NEW p \in Runs, RowInserted(R, p)
        PROVE  RowMovesForward(r)
    BY <2>1, <2>6, FailingFacts DEF RowMovesForward, RowInserted, IsRunning
  <2>7. QED
    BY <2>2, <2>3, <2>4, <2>5, <2>6 DEF RowsStep
<1>2. QED
  BY <1>1, Invariance, PTL DEF Spec, RunHistoryIsFinal

-----------------------------------------------------------------------------
(* Refinement: the rows implement the ledger of runs *)

LEMMA InitRefines == Init => Ledger!Init
BY DEF Init, Ledger!Init, LedgerView, Ledger!Runs, Runs, Ledger!Origin, Origin

\* Every step of the rows is a step of the ledger or does not show in it.
LEMMA StepRefines == IInv /\ [Next]_vars => [Ledger!Next]_LedgerView
<1> SUFFICES ASSUME IInv, RowsStep PROVE [Ledger!Next]_LedgerView
  BY RowsSummary
<1>1. run \in [Runs -> Run]
  BY DEF IInv, TypeOK
<1>2. CASE RowsKept(Runs)
  <2>1. LedgerView' = LedgerView
    BY <1>2 DEF RowsKept, LedgerView
  <2>2. QED
    BY <2>1
<1>3. CASE RowsFail
  <2>1. PICK R \in SUBSET Runs : run' = Failing(R)
    BY <1>3 DEF RowsFail
  <2>2. CASE \A r \in R : ~IsRunning(r)
    <3>1. LedgerView' = LedgerView
      BY <2>1, <2>2, <1>1, FailingFacts DEF LedgerView
    <3>2. QED
      BY <3>1
  <2>3. ASSUME NEW r \in R, IsRunning(r) PROVE Ledger!Next
    <3>1. r \in Runs /\ \A p \in R : IsRunning(p) => p = r
      BY <2>3 DEF IInv, OneRunningEventRun
    <3>2. LedgerView' = [LedgerView EXCEPT ![r].status = "failed"]
      BY <2>1, <2>3, <3>1, <1>1, FailingFacts DEF LedgerView
    <3>3. Ledger!Abort(r)
      BY <2>3, <3>1, <3>2 DEF Ledger!Abort, Ledger!IsOpen, LedgerView, IsRunning
    <3>4. QED
      BY <3>1, <3>3 DEF Ledger!Next, Ledger!Runs, Runs
  <2>4. QED
    BY <2>2, <2>3
<1>4. ASSUME NEW r \in Runs, RowAdvances(r) PROVE Ledger!Next
  <2> DEFINE at == run'[r].checkpoint
  <2>1. /\ at \in {[kind |-> LedgerView[r].at.kind, page |-> LedgerView[r].at.page + 1],
                   [kind |-> LedgerView[r].at.kind + 1, page |-> 0]}
        /\ LedgerView[r].at.kind < Kinds
        /\ Ledger!IsOpen(r)
    BY <1>4, EventSyncAssumption
    DEF RowAdvances, LedgerView, Checkpoints, Ledger!IsOpen, IsRunning
  <2>2. LedgerView' = [LedgerView EXCEPT ![r].at = at]
    BY <1>4 DEF RowAdvances, RowsKept, LedgerView, IsRunning
  <2>3. Ledger!Turn(r)
    BY <2>1, <2>2 DEF Ledger!Turn
  <2>4. QED
    BY <2>3 DEF Ledger!Next, Ledger!Runs, Runs
<1>5. ASSUME NEW r \in Runs, RowSucceeds(r) PROVE Ledger!Next
  <2>1. LedgerView' = [LedgerView EXCEPT ![r].status = "success"]
    BY <1>5 DEF RowSucceeds, RowsKept, LedgerView
  <2>2. Ledger!IsOpen(r) /\ LedgerView[r].at.kind = Kinds
    BY <1>5 DEF RowSucceeds, LedgerView, Ledger!IsOpen, IsRunning, Finished
  <2>3. Ledger!Close(r)
    BY <2>1, <2>2 DEF Ledger!Close
  <2>4. QED
    BY <2>3 DEF Ledger!Next, Ledger!Runs, Runs
<1>6. ASSUME NEW r \in Runs, RowInserted({}, r) PROVE Ledger!Next
  <2>1. PICK q \in Requests : run' = [Failing({}) EXCEPT ![r] = Inserted(q)]
    BY <1>6 DEF RowInserted
  <2>2. LedgerView' = [LedgerView EXCEPT ![r] = [status |-> "running", at |-> Origin]]
    BY <2>1, <1>1, FailingFacts DEF LedgerView, Inserted
  <2>3. /\ \A p \in Runs : ~Ledger!IsOpen(p)
        /\ LedgerView[r].status = "absent"
    BY <1>6 DEF RowInserted, LedgerView, Ledger!IsOpen, IsRunning
  <2>4. Ledger!Open(r)
    BY <2>2, <2>3 DEF Ledger!Open, Ledger!Runs, Runs, Ledger!Origin, Origin
  <2>5. QED
    BY <2>4 DEF Ledger!Next, Ledger!Runs, Runs
<1>7. ASSUME NEW r \in Runs, NEW p \in Runs, RowInserted({p}, r) PROVE Ledger!Next
  <2>1. PICK q \in Requests : run' = [Failing({p}) EXCEPT ![r] = Inserted(q)]
    BY <1>7 DEF RowInserted
  <2>2. p # r /\ IsRunning(p) /\ run[r].status = "absent"
    BY <1>7 DEF RowInserted
  <2>3. LedgerView' = [LedgerView EXCEPT
                         ![p].status = "failed",
                         ![r] = [status |-> "running", at |-> Origin]]
    <3>1. \A s \in Runs :
            /\ run'[s].status = IF s = r THEN "running"
                                ELSE IF s = p THEN "failed" ELSE run[s].status
            /\ run'[s].checkpoint = IF s = r THEN Origin ELSE run[s].checkpoint
      BY <2>1, <2>2, <1>1, FailingFacts DEF Inserted
    <3>2. LedgerView' =
            [s \in Runs |-> IF s = r THEN [status |-> "running", at |-> Origin]
                            ELSE IF s = p
                            THEN [status |-> "failed", at |-> run[s].checkpoint]
                            ELSE LedgerView[s]]
      BY <3>1 DEF LedgerView
    <3>3. [LedgerView[p] EXCEPT !.status = "failed"]
            = [status |-> "failed", at |-> run[p].checkpoint]
      BY DEF LedgerView
    <3>4. QED
      BY <3>2, <3>3, <2>2 DEF LedgerView
  <2>4. Ledger!Supersede(p, r)
    BY <2>2, <2>3 DEF Ledger!Supersede, LedgerView, Ledger!IsOpen, IsRunning,
                      Ledger!Origin, Origin
  <2>5. QED
    BY <2>4 DEF Ledger!Next, Ledger!Runs, Runs
<1>8. QED
  BY <1>2, <1>3, <1>4, <1>5, <1>6, <1>7 DEF RowsStep

\* The whole system of callers, tasks, leases and rebindings implements the
\* ledger of runs.
THEOREM Refinement == Spec => ImplementsLedger
<1>1. Spec => Ledger!Spec
  BY InitRefines, StepRefines, Invariance, PTL DEF Spec, Ledger!Spec
<1>2. QED
  BY <1>1 DEF ImplementsLedger
=============================================================================
