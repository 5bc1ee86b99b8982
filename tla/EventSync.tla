------------------------------ MODULE EventSync ------------------------------
(***************************************************************************)
(* The event source sync of one Klaviyo connection: the rows of            *)
(* klaviyo_sync_run whose operation is "events", the callers that start    *)
(* them, the chain of background tasks that walks the provider's pages,    *)
(* and the discovery that may rebind the native order metrics meanwhile.   *)
(*                                                                         *)
(* Every action is one database transaction (or one read outside of one),  *)
(* so everything a task read before it is a view that may be stale.        *)
(***************************************************************************)
EXTENDS Naturals, FiniteSets

CONSTANTS
  MaxRuns,           \* bound: event run rows the model can hold
  Requests,          \* what a caller asks for: a source mode and a window
  OrderCore,         \* the requests in order_core mode
  Bindings,          \* external ids discovery may bind the order metrics to
  NoBinding,         \* the order metrics before the first discovery
  Kinds,             \* metric kinds of a source contract
  MaxPages,          \* bound: pages the provider serves of one kind
  BatchPages,        \* MAX_PAGES_PER_BATCH
  MaxAttempts,       \* KLAVIYO_TASK_RETRY.maxAttempts
  Lease,             \* KLAVIYO_RUN_STALE_AFTER_MS, in ticks
  Concurrency,       \* task attempts that may touch the database at once
  Callers,           \* the admin's manual start and the nightly supervisor
  Manual,            \* the caller whose failed handoff fails the run
  First,             \* idempotency tag of the task that begins a run
  NoRun              \* a caller that holds no prepared run

ASSUME EventSyncAssumption ==
  /\ MaxRuns \in Nat /\ Kinds \in Nat \ {0} /\ MaxPages \in Nat \ {0}
  /\ BatchPages \in Nat \ {0} /\ MaxAttempts \in Nat \ {0}
  /\ Lease \in Nat \ {0} /\ Concurrency \in Nat
  /\ Requests # {} /\ OrderCore \subseteq Requests
  /\ NoBinding \notin Bindings
  /\ NoRun \notin 1..MaxRuns
  /\ First \notin [kind : 0..Kinds, page : 0..MaxPages]

VARIABLES
  connection,   \* klaviyo_connection: status and the enabled order binding
  run,          \* klaviyo_sync_run rows
  caller,       \* run a caller has prepared and not yet handed to a task
  task,         \* background task runs, by idempotency key
  commits,      \* ghost: times each page of each run was committed
  ended,        \* ghost: pages whose reply carried no next cursor
  source        \* ghost: bindings under which a run's events were fetched

vars == <<connection, run, caller, task, commits, ended, source>>

-----------------------------------------------------------------------------
(* Rows and views *)

Runs == 1..MaxRuns

\* KlaviyoEventCheckpoint: a metric index and a page; the provider's cursor
\* is determined by them.  A checkpoint column of null is Finished.
Checkpoints == [kind : 0..Kinds - 1, page : 0..MaxPages - 1]
Origin      == [kind |-> 0, page |-> 0]
Finished    == [kind |-> Kinds, page |-> 0]
Positions   == Checkpoints \union {Finished}

Run == [status     : {"absent", "running", "success", "failed"},
        request    : Requests,
        checkpoint : Positions,
        idle       : 0..Lease]      \* ticks since heartbeatAt, up to the lease

\* The idempotency keys of a run: one for its first task, one for each
\* checkpoint a batch can stop at.
Keys == Runs \X (Checkpoints \union {First})

RunOf(k) == k[1]

\* An attempt's program counter and its view of the run.
Task == [pc      : {"none", "queued", "loaded", "paging", "finishing",
                    "continuing", "exhausted", "done"},
         attempt : 0..MaxAttempts,
         at      : Positions,                        \* checkpoint it holds
         left    : 0..BatchPages,                    \* pages left in the batch
         binding : Bindings \union {NoBinding}]      \* metrics it loaded

Untriggered == [pc |-> "none", attempt |-> 0, at |-> Origin, left |-> 0,
                binding |-> NoBinding]
Queued(n) == [Untriggered EXCEPT !.pc = "queued", !.attempt = n]
Ended     == [Untriggered EXCEPT !.pc = "done"]

IsRunning(r) == run[r].status = "running"
\* MUTANT of IsStale: one tick too late.
IsStaleLate(r) == run[r].idle > Lease
\* The lease has expired: heartbeatAt <= now - KLAVIYO_RUN_STALE_AFTER_MS.
IsStale(r) == run[r].idle >= Lease
Executing    == {k \in Keys : task[k].pc \in {"loaded", "paging", "finishing",
                                              "continuing"}}

\* The canonical order of pages: the next page of the kind, or the next kind.
NextCheckpoint(at, more) ==
  IF more THEN [at EXCEPT !.page = @ + 1] ELSE [kind |-> at.kind + 1, page |-> 0]

\* MUTANT of Failing: the status is overwritten without asking for "running".
FailingAnyStatus(R) ==
  [r \in Runs |-> IF r \in R /\ run[r].status # "absent"
                 THEN [run[r] EXCEPT !.status = "failed", !.idle = 0]
                 ELSE run[r]]

\* The rows once every running run of R has been failed.
Failing(R) ==
  [r \in Runs |-> IF r \in R /\ IsRunning(r)
                 THEN [run[r] EXCEPT !.status = "failed", !.idle = 0]
                 ELSE run[r]]

\* A trigger under a key that was used before starts nothing.
Triggering(k) ==
  IF task[k].pc = "none" THEN [task EXCEPT ![k] = Queued(1)] ELSE task

\* An attempt that throws is queued again until the retries are exhausted.
Thrown(t) ==
  IF t.attempt < MaxAttempts THEN Queued(t.attempt + 1)
  ELSE [Untriggered EXCEPT !.pc = "exhausted"]

AttemptThrows(k) == task' = [task EXCEPT ![k] = Thrown(@)]

ghosts == <<commits, ended, source>>

Init ==
  /\ connection = [status |-> "pending", probed |-> FALSE, binding |-> NoBinding]
  /\ run = [r \in Runs |-> [status |-> "absent", request |-> CHOOSE q \in Requests : TRUE,
                           checkpoint |-> Origin, idle |-> 0]]
  /\ caller = [c \in Callers |-> NoRun]
  /\ task = [k \in Keys |-> Untriggered]
  /\ commits = [r \in Runs |-> [c \in Checkpoints |-> 0]]
  /\ ended = [r \in Runs |-> {}]
  /\ source = [r \in Runs |-> {}]

-----------------------------------------------------------------------------
(* Starting a run, under the connection's lock *)

MayStart(c) == caller[c] = NoRun /\ connection.status = "ready" /\ connection.probed

\* Rows are inserted in order.
IsNext(r) == run[r].status = "absent" /\ \A q \in 1..r - 1 : run[q].status # "absent"

Inserted(q) == [status |-> "running", request |-> q, checkpoint |-> Origin, idle |-> 0]

\* MUTANT of StartFresh: inserts without looking for a running run.
StartFreshUnchecked(c, q, r) ==
  /\ MayStart(c)
  /\ IsNext(r)
  /\ run' = [run EXCEPT ![r] = Inserted(q)]
  /\ caller' = [caller EXCEPT ![c] = r]
  /\ UNCHANGED <<connection, task, ghosts>>

\* No event run is running: insert one.
StartFresh(c, q, r) ==
  /\ MayStart(c)
  /\ \A p \in Runs : ~IsRunning(p)
  /\ IsNext(r)
  /\ run' = [run EXCEPT ![r] = Inserted(q)]
  /\ caller' = [caller EXCEPT ![c] = r]
  /\ UNCHANGED <<connection, task, ghosts>>

\* A live run of the same mode and window is handed back; a live run of
\* another request makes the start throw.
StartResume(c, q, r) ==
  /\ MayStart(c)
  /\ IsRunning(r) /\ ~IsStale(r) /\ run[r].request = q
  /\ caller' = [caller EXCEPT ![c] = r]
  /\ UNCHANGED <<connection, run, task, ghosts>>

\* MUTANT of StartReplace: any running run makes the start throw.
StartReplaceNever(c, q, p, r) == FALSE

\* A run whose lease has expired is failed, and a new one inserted.
StartReplace(c, q, p, r) ==
  /\ MayStart(c)
  /\ IsRunning(p) /\ IsStale(p)
  /\ IsNext(r)
  /\ run' = [Failing({p}) EXCEPT ![r] = Inserted(q)]
  /\ caller' = [caller EXCEPT ![c] = r]
  /\ UNCHANGED <<connection, task, ghosts>>

Start(c) ==
  \E q \in Requests, r \in Runs :
    \/ StartFresh(c, q, r)
    \/ StartResume(c, q, r)
    \/ \E p \in Runs : StartReplace(c, q, p, r)

\* The caller triggers the first task of the run it was handed.
Handoff(c) ==
  /\ caller[c] # NoRun
  /\ task' = Triggering(<<caller[c], First>>)
  /\ caller' = [caller EXCEPT ![c] = NoRun]
  /\ UNCHANGED <<connection, run, ghosts>>

\* The manual caller fails the run when the trigger fails, delivered or not.
HandoffFails ==
  /\ Manual \in Callers /\ caller[Manual] # NoRun
  /\ run' = Failing({caller[Manual]})
  /\ task' \in {task, Triggering(<<caller[Manual], First>>)}
  /\ caller' = [caller EXCEPT ![Manual] = NoRun]
  /\ UNCHANGED <<connection, ghosts>>

\* The caller dies between the two: the run is left without a task.
CallerDies(c) ==
  /\ caller[c] # NoRun
  /\ caller' = [caller EXCEPT ![c] = NoRun]
  /\ UNCHANGED <<connection, run, task, ghosts>>

-----------------------------------------------------------------------------
(* A batch: load the run, renew its lease, then fetch and commit pages *)

\* The attempt reads the run outside of any lock.
Load(k) ==
  LET r == RunOf(k) IN
  /\ task[k].pc = "queued"
  /\ Cardinality(Executing) < Concurrency
  /\ IF IsRunning(r)
       THEN task' = [task EXCEPT ![k] = [@ EXCEPT
              !.pc = IF run[r].checkpoint = Finished THEN "finishing" ELSE "loaded",
              !.at = run[r].checkpoint]]
       ELSE AttemptThrows(k)
  /\ UNCHANGED <<connection, run, caller, ghosts>>

\* The lease is renewed, then the enabled metrics are read, once per batch.
Renew(k) ==
  LET r == RunOf(k) IN
  /\ task[k].pc = "loaded"
  /\ IF IsRunning(r)
       THEN /\ run' = [run EXCEPT ![r].idle = 0]
            /\ task' = [task EXCEPT ![k] = [@ EXCEPT
                 !.pc = "paging", !.left = BatchPages, !.binding = connection.binding]]
       ELSE UNCHANGED run /\ AttemptThrows(k)
  /\ UNCHANGED <<connection, caller, ghosts>>

\* MUTANT of HoldsCheckpoint: the page commits whatever the row says.
HoldsAnyCheckpoint(k) == TRUE

\* The run still stands where the attempt's view says it does.
HoldsCheckpoint(k) == run[RunOf(k)].checkpoint = task[k].at

\* Events may be stored only under the binding that is enabled now.
BindingHolds(k) ==
  run[RunOf(k)].request \in OrderCore => task[k].binding = connection.binding

\* MUTANT of AfterPage: the last kind is taken for the end of the walk.
AfterPageEarly(t, next) ==
  [t EXCEPT !.pc   = IF next.kind = Kinds - 1 /\ next.page = 0 THEN "finishing"
                     ELSE IF t.left = 1 THEN "continuing" ELSE "paging",
            !.at   = next,
            !.left = t.left - 1]

\* Where the attempt goes after a page: finish, hand over, or the next page.
AfterPage(t, next) ==
  [t EXCEPT !.pc   = IF next = Finished THEN "finishing"
                     ELSE IF t.left = 1 THEN "continuing" ELSE "paging",
            !.at   = next,
            !.left = t.left - 1]

\* A fetched page is committed: its events, the checkpoint and the lease in
\* one transaction.  An empty page has no binding to check.
CommitPage(k, more, nonempty) ==
  LET r == RunOf(k)
      next == NextCheckpoint(task[k].at, more)
  IN
  /\ task[k].pc = "paging"
  /\ IsRunning(r) /\ HoldsCheckpoint(k)
  /\ nonempty => BindingHolds(k)
  /\ more => task[k].at.page + 1 < MaxPages
  /\ run' = [run EXCEPT ![r] = [@ EXCEPT !.checkpoint = next, !.idle = 0]]
  /\ task' = [task EXCEPT ![k] = AfterPage(@, next)]
  /\ commits' = [commits EXCEPT ![r][task[k].at] = @ + 1]
  /\ ended' = IF more THEN ended ELSE [ended EXCEPT ![r] = @ \union {task[k].at}]
  /\ source' = IF nonempty THEN [source EXCEPT ![r] = @ \union {task[k].binding}]
               ELSE source
  /\ UNCHANGED <<connection, caller>>

\* Another attempt has moved the checkpoint: nothing is committed and the
\* batch stops where its own view stands.
CommitSuperseded(k) ==
  /\ task[k].pc = "paging"
  /\ IsRunning(RunOf(k)) /\ ~HoldsCheckpoint(k)
  /\ task' = [task EXCEPT ![k].pc = "continuing"]
  /\ UNCHANGED <<connection, run, caller, ghosts>>

\* The run is no longer active, or its events name a binding that is gone.
CommitRejected(k) ==
  /\ task[k].pc = "paging"
  /\ ~IsRunning(RunOf(k)) \/ (HoldsCheckpoint(k) /\ ~BindingHolds(k))
  /\ AttemptThrows(k)
  /\ UNCHANGED <<connection, run, caller, ghosts>>

\* The run succeeds; the attempt throws if the run is no longer running.
Finish(k) ==
  LET r == RunOf(k) IN
  /\ task[k].pc = "finishing"
  /\ IF IsRunning(r)
       THEN /\ run' = [run EXCEPT ![r] = [@ EXCEPT !.status = "success", !.idle = 0]]
            /\ task' = [task EXCEPT ![k] = Ended]
       ELSE UNCHANGED run /\ AttemptThrows(k)
  /\ UNCHANGED <<connection, caller, ghosts>>

\* MUTANT of Continue: the continuation reuses the first task's key.
ContinueUnderFirstKey(k) ==
  /\ task[k].pc = "continuing"
  /\ \E t \in {Ended, Thrown(task[k])} :
       task' = [Triggering(<<RunOf(k), First>>) EXCEPT ![k] = t]
  /\ UNCHANGED <<connection, run, caller, ghosts>>

\* The next batch is triggered under its checkpoint's key; the attempt may
\* still die after that and be retried.
Continue(k) ==
  /\ task[k].pc = "continuing"
  /\ \E t \in {Ended, Thrown(task[k])} :
       task' = [Triggering(<<RunOf(k), task[k].at>>) EXCEPT ![k] = t]
  /\ UNCHANGED <<connection, run, caller, ghosts>>

\* The provider fails, the process dies, the batch times out.
Crash(k) ==
  /\ k \in Executing
  /\ AttemptThrows(k)
  /\ UNCHANGED <<connection, run, caller, ghosts>>

\* The retries are exhausted: the run is failed if it is still running.
OnFailure(k) ==
  /\ task[k].pc = "exhausted"
  /\ run' = Failing({RunOf(k)})
  /\ task' = [task EXCEPT ![k] = Ended]
  /\ UNCHANGED <<connection, caller, ghosts>>

\* The platform drops the task run, or its failure handler fails too.
LoseTask(k) ==
  /\ task[k].pc = "exhausted" \/ task[k].pc = "queued" \/ k \in Executing
  /\ task' = [task EXCEPT ![k] = Ended]
  /\ UNCHANGED <<connection, run, caller, ghosts>>

-----------------------------------------------------------------------------
(* Discovery, probe approval and time *)

\* MUTANT of Discover: the running event runs are left running.
DiscoverKeepsRuns(b) ==
  /\ b # connection.binding
  /\ connection' = [connection EXCEPT
       !.binding = b, !.status = IF connection.binding = NoBinding THEN @ ELSE "pending"]
  /\ UNCHANGED <<run, caller, task, ghosts>>

\* Discovery commits native order metrics that differ from the enabled ones.
\* Unless they are the first, the connection needs approval again and every
\* running event run is failed.
Discover(b) ==
  /\ b # connection.binding
  /\ IF connection.binding = NoBinding
       THEN connection' = [connection EXCEPT !.binding = b] /\ UNCHANGED run
       ELSE /\ connection' = [connection EXCEPT !.binding = b, !.status = "pending"]
            /\ run' = Failing(Runs)
  /\ UNCHANGED <<caller, task, ghosts>>

\* A reviewer passes a probe report of a pending connection.
ApproveProbe ==
  /\ connection.status = "pending" /\ connection.binding # NoBinding
  /\ connection' = [connection EXCEPT !.status = "ready", !.probed = TRUE]
  /\ UNCHANGED <<run, caller, task, ghosts>>

\* Time passes for the running run's lease.
Tick ==
  /\ \E r \in Runs : IsRunning(r) /\ ~IsStale(r)
  /\ run' = [r \in Runs |-> IF IsRunning(r) /\ ~IsStale(r)
                            THEN [run[r] EXCEPT !.idle = @ + 1] ELSE run[r]]
  /\ UNCHANGED <<connection, caller, task, ghosts>>

TaskStep(k) ==
  \/ Load(k) \/ Renew(k)
  \/ \E more, nonempty \in BOOLEAN : CommitPage(k, more, nonempty)
  \/ CommitSuperseded(k) \/ CommitRejected(k)
  \/ Finish(k) \/ Continue(k) \/ OnFailure(k)

Next ==
  \/ \E c \in Callers : Start(c) \/ Handoff(c) \/ CallerDies(c)
  \/ HandoffFails
  \/ \E k \in Keys : TaskStep(k) \/ Crash(k) \/ LoseTask(k)
  \/ \E b \in Bindings : Discover(b)
  \/ ApproveProbe
  \/ Tick

Spec == Init /\ [][Next]_vars

\* The nightly supervisor keeps calling start, a caller that holds a run lets
\* go of it, and time passes.  No fairness is asked of the admin or of any task.
SupervisedSpec ==
  /\ Spec
  /\ WF_vars(Tick)
  /\ \A c \in Callers \ {Manual} : WF_vars(Start(c))
  /\ \A c \in Callers : WF_vars(Handoff(c) \/ CallerDies(c))

\* The lease never expires and the platform keeps its promises: it runs every
\* queued task, retries every attempt that throws and calls the failure
\* handler.  Attempts may still crash as often as the retries allow.
NextUnleased ==
  \/ \E c \in Callers : Start(c) \/ Handoff(c) \/ CallerDies(c)
  \/ HandoffFails
  \/ \E k \in Keys : TaskStep(k) \/ Crash(k)
  \/ \E b \in Bindings : Discover(b)
  \/ ApproveProbe

UnleasedSpec ==
  /\ Init /\ [][NextUnleased]_vars
  /\ \A k \in Keys : SF_vars(Load(k)) /\ WF_vars(TaskStep(k))

-----------------------------------------------------------------------------
(* Properties *)

\* Every row, caller and task holds a value of its type.
TypeOK ==
  /\ connection \in [status  : {"pending", "ready"}, probed : BOOLEAN,
                     binding : Bindings \union {NoBinding}]
  /\ run \in [Runs -> Run]
  /\ caller \in [Callers -> Runs \union {NoRun}]
  /\ task \in [Keys -> Task]
  /\ commits \in [Runs -> [Checkpoints -> Nat]]
  /\ ended \in [Runs -> SUBSET Checkpoints]
  /\ source \in [Runs -> SUBSET Bindings]

\* The application locking alone keeps at most one event run running on the
\* connection; the partial unique index is only the backstop.
OneRunningEventRun ==
  \A p, r \in Runs : IsRunning(p) /\ IsRunning(r) => p = r

\* A run succeeds only when every page of every kind was committed exactly
\* once, whatever attempts were duplicated, retried or overtaken: a page
\* committed twice would count its rows twice, a skipped one loses events.
SuccessIsWholeWindow ==
  \A r \in Runs : run[r].status = "success" =>
    \A kind \in 0..Kinds - 1 :
      \E last \in 0..MaxPages - 1 :
        /\ [kind |-> kind, page |-> last] \in ended[r]
        /\ \A page \in 0..MaxPages - 1 :
             commits[r][[kind |-> kind, page |-> page]] = IF page <= last THEN 1 ELSE 0

\* A running event run never outlives the approval and the binding it was
\* started under: discovery that rebinds fails it in its own transaction.
RunningUnderApproval ==
  \A r \in Runs : IsRunning(r) =>
    /\ connection.status = "ready"
    /\ run[r].request \in OrderCore => source[r] \subseteq {connection.binding}

\* The events of one order core run were all fetched under one binding, even
\* when a task carried metrics it loaded before the rebinding.
OneBindingPerRun ==
  \A r \in Runs : run[r].request \in OrderCore =>
    \A a, b \in source[r] : a = b

\* What a step may do to a row: nothing once it is finished, and a running
\* row only moves forward through its pages.
RowMovesForward(r) ==
  /\ run[r].status \in {"success", "failed"} => run'[r] = run[r]
  /\ IsRunning(r) => \/ run'[r].checkpoint = run[r].checkpoint
                     \/ run'[r].checkpoint.kind > run[r].checkpoint.kind
                     \/ /\ run'[r].checkpoint.kind = run[r].checkpoint.kind
                        /\ run'[r].checkpoint.page = run[r].checkpoint.page + 1

\* A finished run is history: no late commit, finish, failure handler, failed
\* handoff or reaper changes its row again, and a running run only moves
\* forward through its pages.
RunHistoryIsFinal == [][\A r \in Runs : RowMovesForward(r)]_vars

\* What the ledger shows of the rows: their status and their checkpoint.
LedgerView == [r \in Runs |-> [status |-> run[r].status, at |-> run[r].checkpoint]]

\* The abstract ledger of runs this module implements.
Ledger == INSTANCE RunLedger WITH ledger <- LedgerView

\* Tasks, leases, retries and rebindings never show in the ledger of runs.
ImplementsLedger == Ledger!Spec

\* Every run but the last the model has room for ends, even if all its tasks
\* are lost: its lease expires and the next start fails it.  Under
\* SupervisedSpec.
EveryRunEnds ==
  \A r \in 1..MaxRuns - 1 : IsRunning(r) ~> ~IsRunning(r)

\* A run whose first task was triggered is carried to an end by its chain of
\* tasks alone: no idempotency key swallows the continuation it needs, and no
\* overtaken or retried attempt leaves it stranded.  Under UnleasedSpec.
ChainCarriesRun ==
  \A r \in Runs : (IsRunning(r) /\ task[<<r, First>>].pc # "none") ~> ~IsRunning(r)
=============================================================================
