------------------------- MODULE MetricBindingProofs -------------------------
(***************************************************************************)
(* Theorems about MetricBinding, for every number of discoveries, probes,  *)
(* event runs and bindings.  All of them rest on one inductive invariant,  *)
(* IInv.                                                                   *)
(***************************************************************************)
EXTENDS MetricBinding, TLAPS

\* Rows are inserted in the order of their number.
InsertionOrder ==
  \A x, y \in Rows : x[1] = y[1] /\ x[2] < y[2] /\ status[x] = "absent" => status[y] = "absent"

\* No row of an operation follows a running one.
RunningIsLast ==
  \A x, y \in Rows : x[1] = y[1] /\ x[2] < y[2] /\ IsRunning(x) => status[y] = "absent"

\* A row that was not inserted has no task and no event.
AbsentIsIdle ==
  /\ \A x \in Rows : status[x] = "absent" => worker[x].pc = "none"
  /\ \A e \in Events : status[<<"events", e>>] = "absent" => stored[e] = {}

\* The task of a successful discovery is over.
DiscoveryIsDone ==
  \A i \in Discoveries : status[<<"discovery", i>>] = "success" =>
    worker[<<"discovery", i>>].pc = "done"

\* What a report says of its probe, its aliases and its rule.
ReportOwnsCandidates ==
  \A i \in Probes :
    /\ report[i].status = "absent" => alias[i] = "none" /\ rule[i] = "none"
    /\ report[i].status # "absent" => status[<<"probe", i>>] = "success"
    /\ report[i].status = "pending" => alias[i] = "candidate"

\* A connection becomes ready only with a binding.
ReadyIsBound == connection.status = "ready" => connection.binding # NoBinding

\* An event run does not run under a connection that waits for approval.
RunningUnderReady ==
  \A e \in Events : IsRunning(<<"events", e>>) => connection.status = "ready"

\* What a running event run read and stored is what is in force now.
ViewIsCurrent ==
  \A e \in Events : LET w == worker[<<"events", e>>] IN
    IsRunning(<<"events", e>>) =>
      /\ w.pc \in {"loaded", "normalizing"} => w.binding = connection.binding
      /\ w.pc = "normalizing" => w.aliases = ApprovedAliases(w.binding)
      /\ \A s \in stored[e] : s = ApprovedAliases(connection.binding)

IInv ==
  /\ TypeOK
  /\ InsertionOrder /\ RunningIsLast /\ AbsentIsIdle /\ DiscoveryIsDone
  /\ ReportOwnsCandidates
  /\ ReadyIsBound /\ RunningUnderReady /\ ViewIsCurrent
  /\ AliasesOfOneApproval /\ OneAliasSetPerRun
  /\ BindingIsLatestDiscovery /\ OneApprovedRule

-----------------------------------------------------------------------------
(* Lemmas about the operators *)

\* Which rows there are, and that a row is its operation and its number.
LEMMA RowFacts ==
  /\ \A i \in Discoveries : <<"discovery", i>> \in Rows
  /\ \A i \in Probes : <<"probe", i>> \in Rows
  /\ \A e \in Events : <<"events", e>> \in Rows
  /\ \A x \in Rows : x = <<x[1], x[2]>> /\ x[2] \in Nat
  /\ \A x \in Rows : x \in Running("events") => x[1] = "events" /\ IsRunning(x)
BY DEF Rows, Running, Discoveries, Probes, Events

\* Preparing a row fails the running rows of its operation and inserts it.
LEMMA PrepareFacts ==
  ASSUME NEW x \in Rows, Prepare(x), TypeOK
  PROVE  /\ status' \in [Rows -> {"absent", "running", "success", "failed"}]
         /\ worker' \in [Rows -> Worker]
         /\ status[x] = "absent" /\ status'[x] = "running"
         /\ \A y \in Rows \ {x} :
              status'[y] = IF y[1] = x[1] /\ IsRunning(y) THEN "failed" ELSE status[y]
         /\ worker'[x].pc = "queued"
         /\ \A y \in Rows \ {x} : worker'[y] = worker[y]
         /\ \A y \in Rows : y[1] = x[1] /\ y[2] < x[2] => status[y] # "absent"
         /\ UNCHANGED <<connection, report, alias, rule, stored>>
<1>1. [Idle EXCEPT !.pc = "queued"] \in Worker
  BY DEF Idle, Worker
<1>2. QED
  BY <1>1 DEF Prepare, IsNext, Running, IsRunning, TypeOK

\* What a rebinding leaves of the states of review.
LEMMA DisablingFacts ==
  ASSUME NEW state \in [Probes -> ReviewState], NEW b
  PROVE  /\ Disabling(state, b) \in [Probes -> ReviewState]
         /\ \A i \in Probes :
              /\ Disabling(state, b)[i] = "approved" => state[i] = "approved" /\ ~Rebinds(b)
              /\ Disabling(state, b)[i] \in {"none", "candidate"} =>
                   Disabling(state, b)[i] = state[i]
              /\ state[i] # "approved" => Disabling(state, b)[i] = state[i]
              /\ ~Rebinds(b) => Disabling(state, b)[i] = state[i]
BY DEF Disabling, ReviewState

\* The task of a row that has one is over.
LEMMA DoneFacts ==
  ASSUME worker \in [Rows -> Worker], NEW x \in Rows,
         worker' = [worker EXCEPT ![x].pc = "done"]
  PROVE  /\ worker' \in [Rows -> Worker]
         /\ worker'[x] = [worker[x] EXCEPT !.pc = "done"]
         /\ \A y \in Rows \ {x} : worker'[y] = worker[y]
BY DEF Worker

\* A task that has read its aliases is still a task.
LEMMA LoadedType ==
  ASSUME NEW w \in Worker, NEW a \in SUBSET Probes
  PROVE  [w EXCEPT !.pc = "normalizing", !.aliases = a] \in Worker
BY DEF Worker

\* The task of a row is replaced.
LEMMA WorkerFacts ==
  ASSUME worker \in [Rows -> Worker], NEW x \in Rows, NEW w \in Worker,
         worker' = [worker EXCEPT ![x] = w]
  PROVE  /\ worker' \in [Rows -> Worker]
         /\ worker'[x] = w
         /\ \A y \in Rows \ {x} : worker'[y] = worker[y]
OBVIOUS

-----------------------------------------------------------------------------
(* Types *)

\* Every step keeps the types.
LEMMA TypeStep ==
  ASSUME TypeOK, [Next]_vars
  PROVE  TypeOK'
<1> USE DEF TypeOK
<1>1. CASE CheckProbeReadiness
  BY <1>1, RowFacts DEF CheckProbeReadiness, Worker, Report, ReviewState, Idle, MayCommit
<1>2. ASSUME NEW i \in Discoveries, PrepareDiscovery(i) PROVE TypeOK'
  BY <1>2, RowFacts, PrepareFacts DEF PrepareDiscovery
<1>3. ASSUME NEW i \in Discoveries, NEW b \in Bindings, FindMetrics(i, b) PROVE TypeOK'
  BY <1>3, RowFacts DEF FindMetrics, Worker, Report, ReviewState, Idle, MayCommit
<1>4. ASSUME NEW i \in Discoveries, CommitDiscovery(i) PROVE TypeOK'
  <2>1. worker' \in [Rows -> Worker]
    BY <1>4, RowFacts, DoneFacts DEF CommitDiscovery
  <2>2. status' \in [Rows -> {"absent", "running", "success", "failed"}]
    BY <1>4, RowFacts DEF CommitDiscovery, StatusAfterDiscovery
  <2>3. alias' \in [Probes -> ReviewState] /\ rule' \in [Probes -> ReviewState]
    BY <1>4, DisablingFacts DEF CommitDiscovery
  <2>4. worker[<<"discovery", i>>].binding \in Bindings \union {NoBinding}
    BY RowFacts DEF Worker
  <2>5. connection' \in [status : {"pending", "ready"}, binding : Bindings \union {NoBinding}]
    BY <1>4, <2>4 DEF CommitDiscovery
  <2>6. QED
    BY <1>4, <2>1, <2>2, <2>3, <2>5 DEF CommitDiscovery
<1>5. ASSUME NEW i \in Probes, PrepareProbe(i) PROVE TypeOK'
  BY <1>5, RowFacts, PrepareFacts DEF PrepareProbe
<1>6. ASSUME NEW i \in Probes, NEW eligible \in BOOLEAN, CommitProbe(i, eligible) PROVE TypeOK'
  <2>1. worker' \in [Rows -> Worker]
    BY <1>6, RowFacts, DoneFacts DEF CommitProbe
  <2>2. worker[<<"probe", i>>].binding \in Bindings \union {NoBinding}
    BY RowFacts DEF Worker
  <2>3. report' \in [Probes -> Report]
    BY <1>6, <2>2 DEF CommitProbe, Report
  <2>4. QED
    BY <1>6, <2>1, <2>3, RowFacts DEF CommitProbe, ReviewState
<1>7. ASSUME NEW i \in Probes, RejectReport(i) PROVE TypeOK'
  BY <1>7, RowFacts DEF RejectReport, Worker, Report, ReviewState, Idle, MayCommit
<1>8. ASSUME NEW i \in Probes, NEW retired \in SUBSET Probes, ApproveReport(i, retired) PROVE TypeOK'
  <2>1. report' \in [Probes -> Report]
    BY <1>8 DEF ApproveReport, Report
  <2>2. alias' \in [Probes -> ReviewState]
    BY <1>8 DEF ApproveReport, ReviewState
  <2>3. QED
    BY <1>8, <2>1, <2>2 DEF ApproveReport
<1>9. ASSUME NEW i \in Probes, RejectRule(i) PROVE TypeOK'
  BY <1>9, RowFacts DEF RejectRule, Worker, Report, ReviewState, Idle, MayCommit
<1>10. ASSUME NEW i \in Probes, ApproveRule(i) PROVE TypeOK'
  BY <1>10, RowFacts DEF ApproveRule, Worker, Report, ReviewState, Idle, MayCommit
<1>11. ASSUME NEW e \in Events, StartEvents(e) PROVE TypeOK'
  BY <1>11, RowFacts, PrepareFacts DEF StartEvents
<1>12. ASSUME NEW e \in Events, LoadAliases(e) PROVE TypeOK'
  <2>1. ApprovedAliases(worker[<<"events", e>>].binding) \in SUBSET Probes
    BY DEF ApprovedAliases
  <2> DEFINE w == [worker[<<"events", e>>] EXCEPT !.pc = "normalizing",
                     !.aliases = ApprovedAliases(worker[<<"events", e>>].binding)]
  <2>2. w \in Worker
    BY <2>1, RowFacts, LoadedType
  <2>3. worker' = [worker EXCEPT ![<<"events", e>>] = w]
    BY <1>12 DEF LoadAliases
  <2> HIDE DEF w
  <2>4. worker' \in [Rows -> Worker]
    BY <2>2, <2>3, RowFacts, WorkerFacts
  <2>5. QED
    BY <1>12, <2>4 DEF LoadAliases
<1>13. ASSUME NEW e \in Events, CommitEvents(e) PROVE TypeOK'
  BY <1>13, RowFacts DEF CommitEvents, Worker, Report, ReviewState, Idle, MayCommit
<1>14. ASSUME NEW e \in Events, FinishEvents(e) PROVE TypeOK'
  <2>1. worker' \in [Rows -> Worker]
    BY <1>14, RowFacts, DoneFacts DEF FinishEvents
  <2>2. QED
    BY <1>14, <2>1, RowFacts DEF FinishEvents
<1>15. ASSUME NEW x \in Rows, FailRun(x) PROVE TypeOK'
  BY <1>15, RowFacts DEF FailRun, Worker, Report, ReviewState, Idle, MayCommit
<1>16. ASSUME NEW x \in Rows, Renew(x) PROVE TypeOK'
  BY <1>16, RowFacts DEF Renew, Worker, Report, ReviewState, Idle, MayCommit
<1>17. ASSUME NEW x \in Rows, LoadMetrics(x) PROVE TypeOK'
  BY <1>17, RowFacts DEF LoadMetrics, Worker, Report, ReviewState, Idle, MayCommit
<1>18. ASSUME NEW x \in Rows, Requeue(x) PROVE TypeOK'
  BY <1>18, RowFacts DEF Requeue, Worker, Report, ReviewState, Idle, MayCommit
<1>19. CASE UNCHANGED vars
  BY <1>19 DEF vars
<1>20. QED
  BY <1>1, <1>2, <1>3, <1>4, <1>5, <1>6, <1>7, <1>8, <1>9, <1>10, <1>11, <1>12, <1>13, <1>14, <1>15, <1>16, <1>17, <1>18, <1>19 DEF Next

-----------------------------------------------------------------------------
(* What a step may do *)

\* Unless it prepares a row, a step only ends running rows.
RowsOnlyEnd ==
  \/ \E x \in Rows : Prepare(x)
  \/ \A y \in Rows : \/ status'[y] = status[y]
                     \/ IsRunning(y) /\ status'[y] \in {"success", "failed"}

LEMMA RowStep ==
  ASSUME TypeOK, [Next]_vars
  PROVE  RowsOnlyEnd
<1> USE DEF RowsOnlyEnd
<1>1. CASE CheckProbeReadiness
  BY <1>1, RowFacts DEF CheckProbeReadiness, TypeOK, MayCommit, IsRunning
<1>2. ASSUME NEW i \in Discoveries, PrepareDiscovery(i) PROVE RowsOnlyEnd
  BY <1>2, RowFacts DEF PrepareDiscovery
<1>3. ASSUME NEW i \in Discoveries, NEW b \in Bindings, FindMetrics(i, b) PROVE RowsOnlyEnd
  BY <1>3, RowFacts DEF FindMetrics, TypeOK, MayCommit, IsRunning
<1>4. ASSUME NEW i \in Discoveries, CommitDiscovery(i) PROVE RowsOnlyEnd
  BY <1>4, RowFacts DEF CommitDiscovery, StatusAfterDiscovery, TypeOK, MayCommit, IsRunning
<1>5. ASSUME NEW i \in Probes, PrepareProbe(i) PROVE RowsOnlyEnd
  BY <1>5, RowFacts DEF PrepareProbe
<1>6. ASSUME NEW i \in Probes, NEW eligible \in BOOLEAN, CommitProbe(i, eligible) PROVE RowsOnlyEnd
  BY <1>6, RowFacts DEF CommitProbe, TypeOK, MayCommit, IsRunning
<1>7. ASSUME NEW i \in Probes, RejectReport(i) PROVE RowsOnlyEnd
  BY <1>7, RowFacts DEF RejectReport, TypeOK, MayCommit, IsRunning
<1>8. ASSUME NEW i \in Probes, NEW retired \in SUBSET Probes, ApproveReport(i, retired) PROVE RowsOnlyEnd
  BY <1>8, RowFacts DEF ApproveReport, TypeOK, MayCommit, IsRunning
<1>9. ASSUME NEW i \in Probes, RejectRule(i) PROVE RowsOnlyEnd
  BY <1>9, RowFacts DEF RejectRule, TypeOK, MayCommit, IsRunning
<1>10. ASSUME NEW i \in Probes, ApproveRule(i) PROVE RowsOnlyEnd
  BY <1>10, RowFacts DEF ApproveRule, TypeOK, MayCommit, IsRunning
<1>11. ASSUME NEW e \in Events, StartEvents(e) PROVE RowsOnlyEnd
  BY <1>11, RowFacts DEF StartEvents
<1>12. ASSUME NEW e \in Events, LoadAliases(e) PROVE RowsOnlyEnd
  BY <1>12, RowFacts DEF LoadAliases, TypeOK, MayCommit, IsRunning
<1>13. ASSUME NEW e \in Events, CommitEvents(e) PROVE RowsOnlyEnd
  BY <1>13, RowFacts DEF CommitEvents, TypeOK, MayCommit, IsRunning
<1>14. ASSUME NEW e \in Events, FinishEvents(e) PROVE RowsOnlyEnd
  BY <1>14, RowFacts DEF FinishEvents, TypeOK, MayCommit, IsRunning
<1>15. ASSUME NEW x \in Rows, FailRun(x) PROVE RowsOnlyEnd
  BY <1>15, RowFacts DEF FailRun, TypeOK, MayCommit, IsRunning
<1>16. ASSUME NEW x \in Rows, Renew(x) PROVE RowsOnlyEnd
  BY <1>16, RowFacts DEF Renew, TypeOK, MayCommit, IsRunning
<1>17. ASSUME NEW x \in Rows, LoadMetrics(x) PROVE RowsOnlyEnd
  BY <1>17, RowFacts DEF LoadMetrics, TypeOK, MayCommit, IsRunning
<1>18. ASSUME NEW x \in Rows, Requeue(x) PROVE RowsOnlyEnd
  BY <1>18, RowFacts DEF Requeue, TypeOK, MayCommit, IsRunning
<1>19. CASE UNCHANGED vars
  BY <1>19 DEF vars
<1>20. QED
  BY <1>1, <1>2, <1>3, <1>4, <1>5, <1>6, <1>7, <1>8, <1>9, <1>10, <1>11, <1>12, <1>13, <1>14, <1>15, <1>16, <1>17, <1>18, <1>19 DEF Next

\* Unless it prepares a row, a step leaves the rows alone that have no task
\* yet or whose task is over.
TasksOnlyWork ==
  \/ \E x \in Rows : Prepare(x)
  \/ \A y \in Rows : worker[y].pc \in {"none", "done"} => worker'[y] = worker[y]

LEMMA TaskStep ==
  ASSUME TypeOK, [Next]_vars
  PROVE  TasksOnlyWork
<1> USE DEF TasksOnlyWork
<1>1. CASE CheckProbeReadiness
  BY <1>1, RowFacts DEF CheckProbeReadiness, TypeOK, MayCommit
<1>2. ASSUME NEW i \in Discoveries, PrepareDiscovery(i) PROVE TasksOnlyWork
  BY <1>2, RowFacts DEF PrepareDiscovery
<1>3. ASSUME NEW i \in Discoveries, NEW b \in Bindings, FindMetrics(i, b) PROVE TasksOnlyWork
  BY <1>3, RowFacts DEF FindMetrics, TypeOK, MayCommit
<1>4. ASSUME NEW i \in Discoveries, CommitDiscovery(i) PROVE TasksOnlyWork
  BY <1>4, RowFacts DEF CommitDiscovery, TypeOK, MayCommit
<1>5. ASSUME NEW i \in Probes, PrepareProbe(i) PROVE TasksOnlyWork
  BY <1>5, RowFacts DEF PrepareProbe
<1>6. ASSUME NEW i \in Probes, NEW eligible \in BOOLEAN, CommitProbe(i, eligible) PROVE TasksOnlyWork
  BY <1>6, RowFacts DEF CommitProbe, TypeOK, MayCommit
<1>7. ASSUME NEW i \in Probes, RejectReport(i) PROVE TasksOnlyWork
  BY <1>7, RowFacts DEF RejectReport, TypeOK, MayCommit
<1>8. ASSUME NEW i \in Probes, NEW retired \in SUBSET Probes, ApproveReport(i, retired) PROVE TasksOnlyWork
  BY <1>8, RowFacts DEF ApproveReport, TypeOK, MayCommit
<1>9. ASSUME NEW i \in Probes, RejectRule(i) PROVE TasksOnlyWork
  BY <1>9, RowFacts DEF RejectRule, TypeOK, MayCommit
<1>10. ASSUME NEW i \in Probes, ApproveRule(i) PROVE TasksOnlyWork
  BY <1>10, RowFacts DEF ApproveRule, TypeOK, MayCommit
<1>11. ASSUME NEW e \in Events, StartEvents(e) PROVE TasksOnlyWork
  BY <1>11, RowFacts DEF StartEvents
<1>12. ASSUME NEW e \in Events, LoadAliases(e) PROVE TasksOnlyWork
  BY <1>12, RowFacts DEF LoadAliases, TypeOK, MayCommit
<1>13. ASSUME NEW e \in Events, CommitEvents(e) PROVE TasksOnlyWork
  BY <1>13, RowFacts DEF CommitEvents, TypeOK, MayCommit
<1>14. ASSUME NEW e \in Events, FinishEvents(e) PROVE TasksOnlyWork
  BY <1>14, RowFacts DEF FinishEvents, TypeOK, MayCommit
<1>15. ASSUME NEW x \in Rows, FailRun(x) PROVE TasksOnlyWork
  BY <1>15, RowFacts DEF FailRun, TypeOK, MayCommit
<1>16. ASSUME NEW x \in Rows, Renew(x) PROVE TasksOnlyWork
  BY <1>16, RowFacts DEF Renew, TypeOK, MayCommit
<1>17. ASSUME NEW x \in Rows, LoadMetrics(x) PROVE TasksOnlyWork
  BY <1>17, RowFacts DEF LoadMetrics, TypeOK, MayCommit
<1>18. ASSUME NEW x \in Rows, Requeue(x) PROVE TasksOnlyWork
  BY <1>18, RowFacts DEF Requeue, TypeOK, MayCommit
<1>19. CASE UNCHANGED vars
  BY <1>19 DEF vars
<1>20. QED
  BY <1>1, <1>2, <1>3, <1>4, <1>5, <1>6, <1>7, <1>8, <1>9, <1>10, <1>11, <1>12, <1>13, <1>14, <1>15, <1>16, <1>17, <1>18, <1>19 DEF Next

\* A discovery succeeds, and the binding changes, by its commit alone.
BindingMoves ==
  \/ \E i \in Discoveries : CommitDiscovery(i)
  \/ /\ connection'.binding = connection.binding
     /\ \A i \in Discoveries : status'[<<"discovery", i>>] = "success" =>
          status[<<"discovery", i>>] = "success"

LEMMA BindingStep ==
  ASSUME TypeOK, [Next]_vars
  PROVE  BindingMoves
<1> USE DEF BindingMoves
<1>1. CASE CheckProbeReadiness
  BY <1>1, RowFacts DEF CheckProbeReadiness, TypeOK
<1>2. ASSUME NEW i \in Discoveries, PrepareDiscovery(i) PROVE BindingMoves
  BY <1>2, RowFacts, PrepareFacts DEF PrepareDiscovery
<1>3. ASSUME NEW i \in Discoveries, NEW b \in Bindings, FindMetrics(i, b) PROVE BindingMoves
  BY <1>3, RowFacts DEF FindMetrics, TypeOK
<1>4. ASSUME NEW i \in Discoveries, CommitDiscovery(i) PROVE BindingMoves
  BY <1>4, RowFacts DEF CommitDiscovery, TypeOK
<1>5. ASSUME NEW i \in Probes, PrepareProbe(i) PROVE BindingMoves
  BY <1>5, RowFacts, PrepareFacts DEF PrepareProbe
<1>6. ASSUME NEW i \in Probes, NEW eligible \in BOOLEAN, CommitProbe(i, eligible) PROVE BindingMoves
  BY <1>6, RowFacts DEF CommitProbe, TypeOK
<1>7. ASSUME NEW i \in Probes, RejectReport(i) PROVE BindingMoves
  BY <1>7, RowFacts DEF RejectReport, TypeOK
<1>8. ASSUME NEW i \in Probes, NEW retired \in SUBSET Probes, ApproveReport(i, retired) PROVE BindingMoves
  BY <1>8, RowFacts DEF ApproveReport, TypeOK
<1>9. ASSUME NEW i \in Probes, RejectRule(i) PROVE BindingMoves
  BY <1>9, RowFacts DEF RejectRule, TypeOK
<1>10. ASSUME NEW i \in Probes, ApproveRule(i) PROVE BindingMoves
  BY <1>10, RowFacts DEF ApproveRule, TypeOK
<1>11. ASSUME NEW e \in Events, StartEvents(e) PROVE BindingMoves
  BY <1>11, RowFacts, PrepareFacts DEF StartEvents
<1>12. ASSUME NEW e \in Events, LoadAliases(e) PROVE BindingMoves
  BY <1>12, RowFacts DEF LoadAliases, TypeOK
<1>13. ASSUME NEW e \in Events, CommitEvents(e) PROVE BindingMoves
  BY <1>13, RowFacts DEF CommitEvents, TypeOK
<1>14. ASSUME NEW e \in Events, FinishEvents(e) PROVE BindingMoves
  BY <1>14, RowFacts DEF FinishEvents, TypeOK
<1>15. ASSUME NEW x \in Rows, FailRun(x) PROVE BindingMoves
  BY <1>15, RowFacts DEF FailRun, TypeOK
<1>16. ASSUME NEW x \in Rows, Renew(x) PROVE BindingMoves
  BY <1>16, RowFacts DEF Renew, TypeOK
<1>17. ASSUME NEW x \in Rows, LoadMetrics(x) PROVE BindingMoves
  BY <1>17, RowFacts DEF LoadMetrics, TypeOK
<1>18. ASSUME NEW x \in Rows, Requeue(x) PROVE BindingMoves
  BY <1>18, RowFacts DEF Requeue, TypeOK
<1>19. CASE UNCHANGED vars
  BY <1>19 DEF vars
<1>20. QED
  BY <1>1, <1>2, <1>3, <1>4, <1>5, <1>6, <1>7, <1>8, <1>9, <1>10, <1>11, <1>12, <1>13, <1>14, <1>15, <1>16, <1>17, <1>18, <1>19 DEF Next

-----------------------------------------------------------------------------
(* Rows and tasks *)

\* The order of the rows is kept.
LEMMA OrderStep ==
  ASSUME TypeOK, InsertionOrder, RunningIsLast, [Next]_vars
  PROVE  InsertionOrder' /\ RunningIsLast'
<1>1. ASSUME NEW x \in Rows, Prepare(x)
      PROVE  InsertionOrder' /\ RunningIsLast'
  <2>1. \A y \in Rows : status'[y] = "absent" => y # x /\ status[y] = "absent"
    BY <1>1, PrepareFacts
  <2>2. \A y \in Rows : y[1] = x[1] /\ x[2] < y[2] => status'[y] = "absent"
    BY <1>1, PrepareFacts, RowFacts DEF InsertionOrder, IsRunning
  <2>3. \A y \in Rows : status'[y] = "running" =>
          y = x \/ (y[1] # x[1] /\ status[y] = "running")
    BY <1>1, PrepareFacts DEF IsRunning
  <2>4. \A y \in Rows : y[1] # x[1] => status'[y] = status[y]
    BY <1>1, PrepareFacts
  <2>5. \A y, z \in Rows : y[1] = z[1] /\ y[2] < z[2] /\ status'[y] = "absent" =>
          z # x /\ status[z] = "absent"
    BY <1>1, <2>1, PrepareFacts DEF InsertionOrder
  <2>6. InsertionOrder'
    BY <1>1, <2>5, PrepareFacts DEF InsertionOrder, IsRunning
  <2>7. RunningIsLast'
    BY <2>2, <2>3, <2>4 DEF RunningIsLast, IsRunning
  <2>8. QED
    BY <2>6, <2>7
<1>2. CASE \A y \in Rows : \/ status'[y] = status[y]
                           \/ IsRunning(y) /\ status'[y] \in {"success", "failed"}
  BY <1>2 DEF InsertionOrder, RunningIsLast, IsRunning
<1>3. QED
  BY <1>1, <1>2, RowStep DEF RowsOnlyEnd

\* Pages are stored by running event runs only.
LEMMA StoredStep ==
  ASSUME TypeOK, [Next]_vars
  PROVE  \A e \in Events : stored'[e] = stored[e] \/ IsRunning(<<"events", e>>)
<1>1. CASE \E e \in Events : CommitEvents(e)
  BY <1>1 DEF CommitEvents, MayCommit, TypeOK
<1>2. CASE UNCHANGED stored
  BY <1>2
<1>3. QED
  BY <1>1, <1>2 DEF Next, vars, CheckProbeReadiness, PrepareDiscovery, FindMetrics,
     CommitDiscovery, PrepareProbe, CommitProbe, RejectReport, ApproveReport, RejectRule,
     ApproveRule, StartEvents, LoadAliases, FinishEvents, FailRun, Renew, LoadMetrics,
     Requeue, Prepare

\* A row without a task stays without one, and a finished discovery's task
\* is over.
LEMMA IdleStep ==
  ASSUME TypeOK, AbsentIsIdle, DiscoveryIsDone, [Next]_vars
  PROVE  AbsentIsIdle' /\ DiscoveryIsDone'
<1>1. \A e \in Events : status'[<<"events", e>>] = "absent" => stored'[e] = {}
  <2>1. \A y \in Rows : status'[y] = "absent" => status[y] = "absent"
    BY RowStep, PrepareFacts DEF RowsOnlyEnd
  <2>2. QED
    BY <2>1, RowFacts, StoredStep DEF AbsentIsIdle, IsRunning
<1>2. ASSUME NEW x \in Rows, Prepare(x)
      PROVE  AbsentIsIdle' /\ DiscoveryIsDone'
  <2>1. \A y \in Rows : status'[y] = "absent" => y # x /\ status[y] = "absent"
    BY <1>2, PrepareFacts
  <2>2. \A y \in Rows : status'[y] = "success" => y # x /\ status[y] = "success"
    BY <1>2, PrepareFacts
  <2>3. QED
    BY <1>1, <1>2, <2>1, <2>2, PrepareFacts, RowFacts DEF AbsentIsIdle, DiscoveryIsDone
<1>3. ASSUME NEW i \in Discoveries, CommitDiscovery(i)
      PROVE  AbsentIsIdle' /\ DiscoveryIsDone'
  <2> DEFINE x == <<"discovery", i>>
  <2>1. x \in Rows /\ worker'[x].pc = "done" /\ status'[x] = "success"
    BY <1>3, RowFacts, DoneFacts DEF CommitDiscovery, StatusAfterDiscovery, TypeOK, Worker
  <2>2. \A y \in Rows \ {x} : worker'[y] = worker[y]
    BY <1>3, <2>1, DoneFacts DEF CommitDiscovery, TypeOK
  <2>3. \A y \in Rows \ {x} : status'[y] \in {"absent", "success"} => status'[y] = status[y]
    BY <1>3, <2>1 DEF CommitDiscovery, StatusAfterDiscovery, TypeOK
  <2> HIDE DEF x
  <2>4. QED
    BY <1>1, <2>1, <2>2, <2>3, RowFacts DEF AbsentIsIdle, DiscoveryIsDone
<1>4. CASE /\ \A x \in Rows : ~Prepare(x)
           /\ \A i \in Discoveries : ~CommitDiscovery(i)
  <2>1. \A y \in Rows : worker[y].pc \in {"none", "done"} => worker'[y] = worker[y]
    BY <1>4, TaskStep DEF TasksOnlyWork
  <2>2. \A y \in Rows : status'[y] = "absent" => status[y] = "absent"
    BY <1>4, RowStep DEF RowsOnlyEnd
  <2>3. \A i \in Discoveries :
          status'[<<"discovery", i>>] = "success" => status[<<"discovery", i>>] = "success"
    BY <1>4, BindingStep DEF BindingMoves
  <2>4. QED
    BY <1>1, <2>1, <2>2, <2>3, RowFacts DEF AbsentIsIdle, DiscoveryIsDone
<1>5. QED
  BY <1>2, <1>3, <1>4

\* The binding stays the one of the latest successful discovery.
LEMMA LatestStep ==
  ASSUME TypeOK, InsertionOrder, RunningIsLast, DiscoveryIsDone,
         BindingIsLatestDiscovery, [Next]_vars
  PROVE  BindingIsLatestDiscovery'
<1>1. ASSUME NEW x \in Rows, Prepare(x)
      PROVE  BindingIsLatestDiscovery'
  <2>1. \A y \in Rows : status'[y] = "success" <=> status[y] = "success"
    BY <1>1, PrepareFacts DEF IsRunning
  <2>2. \A y \in Rows : status[y] = "success" => worker'[y] = worker[y]
    BY <1>1, PrepareFacts
  <2>3. connection' = connection
    BY <1>1, PrepareFacts
  <2>4. QED
    BY <2>1, <2>2, <2>3, RowFacts DEF BindingIsLatestDiscovery
<1>2. ASSUME NEW i \in Discoveries, CommitDiscovery(i)
      PROVE  BindingIsLatestDiscovery'
  <2> DEFINE x == <<"discovery", i>>
  <2>1. /\ x \in Rows /\ status'[x] = "success" /\ IsRunning(x)
        /\ worker'[x].binding = worker[x].binding
        /\ connection'.binding = worker[x].binding
    BY <1>2, RowFacts, DoneFacts
       DEF CommitDiscovery, StatusAfterDiscovery, MayCommit, TypeOK, Worker
  <2>2. \A j \in Discoveries : j > i => status'[<<"discovery", j>>] # "success"
    <3>1. ASSUME NEW j \in Discoveries, j > i
          PROVE  status'[<<"discovery", j>>] # "success"
      <4>1. status[<<"discovery", j>>] = "absent"
        BY <2>1, <3>1, RowFacts DEF RunningIsLast
      <4>2. QED
        BY <1>2, <3>1, <4>1, RowFacts
           DEF CommitDiscovery, StatusAfterDiscovery, Running, IsRunning, Discoveries
    <3>2. QED
      BY <3>1
  <2>3. \A j \in Discoveries : j < i \/ j = i \/ j > i
    BY DEF Discoveries
  <2>4. QED
    BY <2>1, <2>2, <2>3 DEF BindingIsLatestDiscovery
<1>3. CASE /\ \A x \in Rows : ~Prepare(x)
           /\ \A i \in Discoveries : ~CommitDiscovery(i)
  <2>1. \A y \in Rows : worker[y].pc \in {"none", "done"} => worker'[y] = worker[y]
    BY <1>3, TaskStep DEF TasksOnlyWork
  <2>2. \A i \in Discoveries :
          status'[<<"discovery", i>>] = "success" <=> status[<<"discovery", i>>] = "success"
    BY <1>3, BindingStep, RowStep, RowFacts DEF BindingMoves, RowsOnlyEnd, IsRunning
  <2>3. connection'.binding = connection.binding
    BY <1>3, BindingStep DEF BindingMoves
  <2>4. QED
    BY <2>1, <2>2, <2>3, RowFacts DEF BindingIsLatestDiscovery, DiscoveryIsDone
<1>4. QED
  BY <1>1, <1>2, <1>3

-----------------------------------------------------------------------------
(* Reviews *)

\* A report keeps telling of its probe and of its candidates.
LEMMA ReportStep ==
  ASSUME TypeOK, ReportOwnsCandidates, [Next]_vars
  PROVE  ReportOwnsCandidates'
<1>1. \A i \in Probes : status[<<"probe", i>>] = "success" =>
        status'[<<"probe", i>>] = "success"
  BY RowStep, RowFacts, PrepareFacts DEF RowsOnlyEnd, IsRunning
<1>2. ASSUME NEW i \in Discoveries, CommitDiscovery(i)
      PROVE  ReportOwnsCandidates'
  <2> DEFINE b == worker[<<"discovery", i>>].binding
  <2>1. alias' = Disabling(alias, b) /\ rule' = Disabling(rule, b) /\ report' = report
    BY <1>2 DEF CommitDiscovery
  <2> HIDE DEF b
  <2>2. \A j \in Probes : /\ alias[j] # "approved" => alias'[j] = alias[j]
                          /\ rule[j] # "approved" => rule'[j] = rule[j]
    BY <2>1, DisablingFacts DEF TypeOK
  <2>3. QED
    BY <1>1, <2>1, <2>2 DEF ReportOwnsCandidates
<1>3. ASSUME NEW i \in Probes, NEW eligible \in BOOLEAN, CommitProbe(i, eligible)
      PROVE  ReportOwnsCandidates'
  BY <1>1, <1>3, RowFacts DEF CommitProbe, ReportOwnsCandidates, TypeOK, Report
<1>4. ASSUME NEW i \in Probes, RejectReport(i)
      PROVE  ReportOwnsCandidates'
  <2>1. \A j \in Probes :
          /\ report'[j].status = IF j = i THEN "failed" ELSE report[j].status
          /\ j # i => alias'[j] = alias[j]
    BY <1>4 DEF RejectReport, TypeOK, Report
  <2>2. report[i].status = "pending" /\ rule' = rule
    BY <1>4 DEF RejectReport
  <2>3. QED
    BY <1>1, <2>1, <2>2 DEF ReportOwnsCandidates
<1>5. ASSUME NEW i \in Probes, NEW retired \in SUBSET Probes, ApproveReport(i, retired)
      PROVE  ReportOwnsCandidates'
  <2>1. \A j \in retired : alias[j] = "approved"
    BY <1>5 DEF ApproveReport, ApprovedAliases
  <2>2. \A j \in Probes :
          /\ report'[j].status = IF j = i THEN "passed" ELSE report[j].status
          /\ j # i /\ alias[j] # "approved" => alias'[j] = alias[j]
    BY <1>5, <2>1 DEF ApproveReport, TypeOK, Report
  <2>3. report[i].status = "pending" /\ rule' = rule
    BY <1>5 DEF ApproveReport
  <2>4. QED
    BY <1>1, <2>2, <2>3 DEF ReportOwnsCandidates
<1>6. ASSUME NEW i \in Probes, RejectRule(i) \/ ApproveRule(i)
      PROVE  ReportOwnsCandidates'
  <2>1. \A j \in Probes : rule[j] = "none" /\ j # i => rule'[j] = "none"
    BY <1>6 DEF RejectRule, ApproveRule, TypeOK
  <2>2. rule[i] # "none" /\ report' = report /\ alias' = alias
    BY <1>6 DEF RejectRule, ApproveRule
  <2>3. QED
    BY <1>1, <2>1, <2>2 DEF ReportOwnsCandidates
<1>7. CASE UNCHANGED <<report, alias, rule>>
  BY <1>1, <1>7 DEF ReportOwnsCandidates
<1>8. QED
  BY <1>2, <1>3, <1>4, <1>5, <1>6, <1>7 DEF Next, vars, CheckProbeReadiness, PrepareDiscovery,
     FindMetrics, PrepareProbe, StartEvents, LoadAliases, CommitEvents, FinishEvents,
     FailRun, Renew, LoadMetrics, Requeue, Prepare

\* At most one join rule is approved.
LEMMA RuleStep ==
  ASSUME TypeOK, OneApprovedRule, ReportOwnsCandidates, [Next]_vars
  PROVE  OneApprovedRule'
<1>1. ASSUME NEW i \in Discoveries, CommitDiscovery(i)
      PROVE  OneApprovedRule'
  BY <1>1, DisablingFacts DEF CommitDiscovery, OneApprovedRule, TypeOK
<1>2. ASSUME NEW i \in Probes, NEW eligible \in BOOLEAN, CommitProbe(i, eligible)
      PROVE  OneApprovedRule'
  BY <1>2 DEF CommitProbe, OneApprovedRule, TypeOK
<1>3. ASSUME NEW i \in Probes, RejectRule(i) \/ ApproveRule(i)
      PROVE  OneApprovedRule'
  BY <1>3 DEF RejectRule, ApproveRule, OneApprovedRule, TypeOK
<1>4. CASE UNCHANGED rule
  BY <1>4 DEF OneApprovedRule
<1>5. QED
  BY <1>1, <1>2, <1>3, <1>4 DEF Next, vars, CheckProbeReadiness, PrepareDiscovery,
     FindMetrics, PrepareProbe, StartEvents, LoadAliases, CommitEvents, FinishEvents,
     FailRun, Renew, LoadMetrics, Requeue, Prepare, RejectReport, ApproveReport

\* The aliases in force come from one report and hold while the connection
\* is ready; event runs do too.
LEMMA ApprovalStep ==
  ASSUME TypeOK, ReportOwnsCandidates, ReadyIsBound, RunningUnderReady,
         AliasesOfOneApproval, [Next]_vars
  PROVE  ReadyIsBound' /\ RunningUnderReady' /\ AliasesOfOneApproval'
<1> DEFINE Goal == ReadyIsBound' /\ RunningUnderReady' /\ AliasesOfOneApproval'
<1>1. ASSUME NEW x \in Rows, Prepare(x), x[1] # "events"
      PROVE  Goal
  <2>1. \A e \in Events : <<"events", e>> \in Rows \ {x} /\ <<"events", e>>[1] # x[1]
    BY <1>1, RowFacts
  <2>2. \A e \in Events : status'[<<"events", e>>] = status[<<"events", e>>]
    BY <1>1, <2>1, PrepareFacts
  <2>3. QED
    BY <1>1, <2>2, PrepareFacts DEF ReadyIsBound, RunningUnderReady, AliasesOfOneApproval, IsRunning
<1>2. ASSUME NEW e \in Events, StartEvents(e)
      PROVE  Goal
  BY <1>2, RowFacts, PrepareFacts
     DEF StartEvents, ReadyIsBound, RunningUnderReady, AliasesOfOneApproval
<1>3. ASSUME NEW i \in Discoveries, CommitDiscovery(i)
      PROVE  Goal
  <2> DEFINE b == worker[<<"discovery", i>>].binding
  <2>1. CASE Rebinds(b)
    <3>1. \A e \in Events : ~IsRunning(<<"events", e>>)'
      BY <1>3, <2>1, RowFacts DEF CommitDiscovery, StatusAfterDiscovery, Running, IsRunning
    <3>2. \A j \in Probes : alias'[j] # "approved"
      BY <1>3, <2>1, DisablingFacts DEF CommitDiscovery, TypeOK
    <3>3. connection'.status = "pending"
      BY <1>3, <2>1 DEF CommitDiscovery
    <3>4. QED
      BY <3>1, <3>2, <3>3 DEF ReadyIsBound, RunningUnderReady, AliasesOfOneApproval
  <2>2. CASE ~Rebinds(b)
    <3>1. \A e \in Events : IsRunning(<<"events", e>>)' => IsRunning(<<"events", e>>)
      BY <1>3, <2>2, RowFacts DEF CommitDiscovery, StatusAfterDiscovery, IsRunning
    <3>2. \A j \in Probes : alias'[j] = alias[j]
      BY <1>3, <2>2, DisablingFacts DEF CommitDiscovery, TypeOK
    <3>3. connection'.status = connection.status /\ connection'.binding = b
      BY <1>3, <2>2 DEF CommitDiscovery
    <3>4. connection.status = "ready" => b # NoBinding
      BY <2>2 DEF Rebinds, ReadyIsBound
    <3>5. report' = report
      BY <1>3 DEF CommitDiscovery
    <3>6. QED
      BY <3>1, <3>2, <3>3, <3>4, <3>5 DEF ReadyIsBound, RunningUnderReady, AliasesOfOneApproval
  <2>3. QED
    BY <2>1, <2>2
<1>4. ASSUME NEW i \in Probes, NEW eligible \in BOOLEAN, CommitProbe(i, eligible)
      PROVE  Goal
  BY <1>4, RowFacts
     DEF CommitProbe, ReadyIsBound, RunningUnderReady, AliasesOfOneApproval, TypeOK, IsRunning
<1>5. ASSUME NEW i \in Probes, RejectReport(i)
      PROVE  Goal
  BY <1>5 DEF RejectReport, ReadyIsBound, RunningUnderReady, AliasesOfOneApproval, TypeOK,
     IsRunning, Report
<1>6. ASSUME NEW i \in Probes, NEW retired \in SUBSET Probes, ApproveReport(i, retired)
      PROVE  Goal
  <2>1. \A j \in Probes : alias[j] # "approved"
    BY <1>6 DEF ApproveReport, AliasesOfOneApproval
  <2>2. \A j \in Probes : alias'[j] = "approved" => j = i
    BY <1>6, <2>1 DEF ApproveReport
  <2>3. report'[i].status = "passed"
    BY <1>6 DEF ApproveReport, TypeOK
  <2>4. connection'.status = "ready" /\ connection'.binding # NoBinding
    BY <1>6 DEF ApproveReport, TypeOK
  <2>5. UNCHANGED status
    BY <1>6 DEF ApproveReport
  <2>6. QED
    BY <2>2, <2>3, <2>4, <2>5 DEF ReadyIsBound, RunningUnderReady, AliasesOfOneApproval, IsRunning
<1>7. ASSUME NEW e \in Events, FinishEvents(e)
      PROVE  Goal
  BY <1>7, RowFacts DEF FinishEvents, ReadyIsBound, RunningUnderReady, AliasesOfOneApproval,
     TypeOK, IsRunning
<1>8. ASSUME NEW x \in Rows, FailRun(x)
      PROVE  Goal
  BY <1>8, RowFacts DEF FailRun, ReadyIsBound, RunningUnderReady, AliasesOfOneApproval,
     TypeOK, IsRunning
<1>9. CASE UNCHANGED <<connection, status, report, alias>>
  BY <1>9 DEF ReadyIsBound, RunningUnderReady, AliasesOfOneApproval, IsRunning
<1>10. ASSUME NEW i \in Discoveries, PrepareDiscovery(i)
       PROVE  Goal
  BY <1>1, <1>10, RowFacts DEF PrepareDiscovery
<1>11. ASSUME NEW i \in Probes, PrepareProbe(i)
       PROVE  Goal
  BY <1>1, <1>11, RowFacts DEF PrepareProbe
<1>12. ASSUME NEW i \in Discoveries, NEW b \in Bindings, FindMetrics(i, b)
       PROVE  Goal
  BY <1>9, <1>12 DEF FindMetrics
<1>13. ASSUME NEW i \in Probes, RejectRule(i) \/ ApproveRule(i)
       PROVE  Goal
  BY <1>9, <1>13 DEF RejectRule, ApproveRule
<1>14. ASSUME NEW e \in Events, LoadAliases(e) \/ CommitEvents(e)
       PROVE  Goal
  BY <1>9, <1>14 DEF LoadAliases, CommitEvents
<1>15. ASSUME NEW x \in Rows, Renew(x) \/ LoadMetrics(x) \/ Requeue(x)
       PROVE  Goal
  BY <1>9, <1>15 DEF Renew, LoadMetrics, Requeue
<1>16. ASSUME CheckProbeReadiness \/ UNCHANGED vars
       PROVE  Goal
  BY <1>9, <1>16 DEF CheckProbeReadiness, vars
<1> HIDE DEF Goal
<1>17. Goal
  BY <1>2, <1>3, <1>4, <1>5, <1>6, <1>7, <1>8, <1>10, <1>11, <1>12, <1>13, <1>14,
     <1>15, <1>16 DEF Next
<1>18. QED
  BY <1>17 DEF Goal

-----------------------------------------------------------------------------
(* What event runs read and store *)

\* The views of the running event runs, and the pages they stored.
Current(e) ==
  LET w == worker[<<"events", e>>] IN
  IsRunning(<<"events", e>>) =>
    /\ w.pc \in {"loaded", "normalizing"} => w.binding = connection.binding
    /\ w.pc = "normalizing" => w.aliases = ApprovedAliases(w.binding)
    /\ \A s \in stored[e] : s = ApprovedAliases(connection.binding)

LEMMA ViewIsCurrentDef == ViewIsCurrent <=> \A e \in Events : Current(e)
BY DEF ViewIsCurrent, Current

\* While an event run is running, no step but its own changes what is current
\* for it: neither the binding nor the aliases in force move.
LEMMA InForceStep ==
  ASSUME TypeOK, ReportOwnsCandidates, ReadyIsBound, RunningUnderReady,
         AliasesOfOneApproval, [Next]_vars,
         NEW e \in Events, IsRunning(<<"events", e>>), IsRunning(<<"events", e>>)'
  PROVE  /\ connection'.binding = connection.binding
         /\ \A b : ApprovedAliases(b)' = ApprovedAliases(b)
<1>1. connection.status = "ready"
  BY DEF RunningUnderReady
<1>2. ASSUME NEW i \in Discoveries, CommitDiscovery(i)
      PROVE  /\ connection'.binding = connection.binding
             /\ UNCHANGED report /\ \A j \in Probes : alias'[j] = alias[j]
  <2> DEFINE b == worker[<<"discovery", i>>].binding
  <2>1. ~Rebinds(b)
    BY <1>2, RowFacts DEF CommitDiscovery, StatusAfterDiscovery, Running, IsRunning, Rows
  <2>2. connection'.binding = b /\ alias' = Disabling(alias, b)
    BY <1>2 DEF CommitDiscovery
  <2>3. b = connection.binding
    BY <1>1, <2>1 DEF Rebinds, ReadyIsBound
  <2>4. \A j \in Probes : alias'[j] = alias[j]
    BY <2>1, <2>2, DisablingFacts DEF TypeOK
  <2>5. QED
    BY <1>2, <2>2, <2>3, <2>4 DEF CommitDiscovery
<1>3. ASSUME NEW i \in Probes, NEW eligible \in BOOLEAN, CommitProbe(i, eligible)
      PROVE  /\ UNCHANGED connection
             /\ \A j \in Probes \ {i} : alias'[j] = alias[j] /\ report'[j] = report[j]
             /\ alias[i] # "approved" /\ alias'[i] # "approved"
  <2>1. report[i].status = "absent"
    BY <1>3, RowFacts DEF CommitProbe, MayCommit, IsRunning, ReportOwnsCandidates
  <2>2. QED
    BY <1>3, <2>1 DEF CommitProbe, TypeOK, ReportOwnsCandidates
<1>4. ASSUME NEW i \in Probes, RejectReport(i)
      PROVE  /\ UNCHANGED connection
             /\ \A j \in Probes : report'[j].sampled = report[j].sampled
             /\ \A j \in Probes : alias'[j] = "approved" <=> alias[j] = "approved"
  BY <1>4 DEF RejectReport, TypeOK, Report
<1>5. ASSUME NEW i \in Probes, NEW retired \in SUBSET Probes, ApproveReport(i, retired)
      PROVE  FALSE
  BY <1>1, <1>5 DEF ApproveReport
<1>6. \/ UNCHANGED <<connection, report, alias>>
      \/ \E i \in Discoveries : CommitDiscovery(i)
      \/ \E i \in Probes : \/ \E eligible \in BOOLEAN : CommitProbe(i, eligible)
                           \/ RejectReport(i)
  BY <1>5 DEF Next, vars, CheckProbeReadiness, PrepareDiscovery, FindMetrics, PrepareProbe,
     RejectRule, ApproveRule, StartEvents, LoadAliases, CommitEvents, FinishEvents, FailRun,
     Renew, LoadMetrics, Requeue, Prepare
<1>7. CASE UNCHANGED <<connection, report, alias>>
  BY <1>7 DEF ApprovedAliases
<1>8. CASE \E i \in Discoveries : CommitDiscovery(i)
  BY <1>2, <1>8 DEF ApprovedAliases
<1>9. ASSUME NEW i \in Probes, NEW eligible \in BOOLEAN, CommitProbe(i, eligible)
      PROVE  \A b : ApprovedAliases(b)' = ApprovedAliases(b)
  BY <1>3, <1>9 DEF ApprovedAliases
<1>10. ASSUME NEW i \in Probes, RejectReport(i)
       PROVE  \A b : ApprovedAliases(b)' = ApprovedAliases(b)
  BY <1>4, <1>10 DEF ApprovedAliases
<1>11. QED
  BY <1>3, <1>4, <1>6, <1>7, <1>8, <1>9, <1>10

\* What a step does to the task of an event run that stays running.
LEMMA EventTaskStep ==
  ASSUME TypeOK, [Next]_vars, NEW e \in Events,
         IsRunning(<<"events", e>>), IsRunning(<<"events", e>>)'
  PROVE  LET x == <<"events", e>> IN
         \/ worker'[x] = worker[x] /\ stored'[e] = stored[e]
         \/ worker'[x].pc \in {"queued", "leased"} /\ stored'[e] = stored[e]
         \/ LoadMetrics(x) \/ LoadAliases(e) \/ CommitEvents(e)
<1> DEFINE x == <<"events", e>>
           Goal == \/ worker'[x] = worker[x] /\ stored'[e] = stored[e]
                   \/ worker'[x].pc \in {"queued", "leased"} /\ stored'[e] = stored[e]
                   \/ LoadMetrics(x) \/ LoadAliases(e) \/ CommitEvents(e)
<1>0. x \in Rows /\ status[x] = "running" /\ status'[x] = "running"
  BY RowFacts DEF IsRunning
<1>1. ASSUME NEW y \in Rows, Prepare(y)
      PROVE  Goal
  <2>1. y # x
    BY <1>0, <1>1, PrepareFacts
  <2>2. QED
    BY <1>0, <1>1, <2>1, PrepareFacts
<1>2. ASSUME NEW i \in Discoveries, NEW b \in Bindings, FindMetrics(i, b)
      PROVE  Goal
  BY <1>0, <1>2, RowFacts DEF FindMetrics, TypeOK
<1>3. ASSUME NEW i \in Discoveries, CommitDiscovery(i)
      PROVE  Goal
  BY <1>0, <1>3, RowFacts DEF CommitDiscovery, TypeOK
<1>4. ASSUME NEW i \in Probes, NEW eligible \in BOOLEAN, CommitProbe(i, eligible)
      PROVE  Goal
  BY <1>0, <1>4, RowFacts DEF CommitProbe, TypeOK
<1>5. ASSUME NEW f \in Events, LoadAliases(f)
      PROVE  Goal
  BY <1>0, <1>5, RowFacts DEF LoadAliases, TypeOK
<1>6. ASSUME NEW f \in Events, CommitEvents(f)
      PROVE  Goal
  BY <1>0, <1>6, RowFacts DEF CommitEvents, TypeOK
<1>7. ASSUME NEW f \in Events, FinishEvents(f)
      PROVE  Goal
  BY <1>0, <1>7, RowFacts DEF FinishEvents, TypeOK
<1>8. ASSUME NEW y \in Rows, Renew(y) \/ Requeue(y)
      PROVE  Goal
  BY <1>0, <1>8, RowFacts DEF Renew, Requeue, TypeOK, Worker, Idle
<1>9. ASSUME NEW y \in Rows, LoadMetrics(y)
      PROVE  Goal
  BY <1>0, <1>9, RowFacts DEF LoadMetrics, TypeOK
<1>10. ASSUME UNCHANGED <<worker, stored>>
       PROVE  Goal
  BY <1>10
<1>11. ASSUME NEW i \in Probes, NEW retired \in SUBSET Probes,
              RejectReport(i) \/ ApproveReport(i, retired) \/ RejectRule(i) \/ ApproveRule(i)
       PROVE  Goal
  BY <1>10, <1>11 DEF RejectReport, ApproveReport, RejectRule, ApproveRule
<1>12. ASSUME NEW y \in Rows, FailRun(y)
       PROVE  Goal
  BY <1>10, <1>12 DEF FailRun
<1>13. ASSUME CheckProbeReadiness \/ UNCHANGED vars
       PROVE  Goal
  BY <1>10, <1>13 DEF CheckProbeReadiness, vars
<1>14. ASSUME NEW i \in Discoveries, PrepareDiscovery(i)
       PROVE  Goal
  BY <1>1, <1>14, RowFacts DEF PrepareDiscovery
<1>15. ASSUME NEW i \in Probes, PrepareProbe(i)
       PROVE  Goal
  BY <1>1, <1>15, RowFacts DEF PrepareProbe
<1>16. ASSUME NEW f \in Events, StartEvents(f)
       PROVE  Goal
  BY <1>1, <1>16, RowFacts DEF StartEvents
<1> HIDE DEF Goal
<1>17. Goal
  BY <1>2, <1>3, <1>4, <1>5, <1>6, <1>7, <1>8, <1>9, <1>11, <1>12, <1>13, <1>14, <1>15,
     <1>16 DEF Next
<1>18. QED
  BY <1>17 DEF Goal

\* What an event run read and stored stays what is in force.
LEMMA ViewStep ==
  ASSUME IInv, [Next]_vars
  PROVE  ViewIsCurrent' /\ OneAliasSetPerRun'
<1> USE DEF IInv
<1>1. ASSUME NEW e \in Events, ~IsRunning(<<"events", e>>), IsRunning(<<"events", e>>)'
      PROVE  Current(e)' /\ stored'[e] = {}
  <2> DEFINE x == <<"events", e>>
  <2>1. x \in Rows /\ status[x] # "running" /\ status'[x] = "running"
    BY <1>1, RowFacts DEF IsRunning
  <2>2. PICK y \in Rows : Prepare(y)
    BY <2>1, RowStep DEF RowsOnlyEnd, IsRunning
  <2>3. y = x
    BY <2>1, <2>2, PrepareFacts
  <2>4. status[x] = "absent" /\ worker'[x].pc = "queued" /\ stored' = stored
    BY <2>2, <2>3, PrepareFacts
  <2>5. QED
    BY <2>4 DEF Current, AbsentIsIdle
<1>2. ASSUME NEW e \in Events, IsRunning(<<"events", e>>), IsRunning(<<"events", e>>)'
      PROVE  Current(e)' /\ \A s \in stored'[e] : s = ApprovedAliases(connection.binding)'
  <2> DEFINE x == <<"events", e>>
  <2>1. /\ connection'.binding = connection.binding
        /\ \A b : ApprovedAliases(b)' = ApprovedAliases(b)
    BY <1>2, InForceStep
  <2>2. ApprovedAliases(worker[x].binding)' = ApprovedAliases(worker'[x].binding)
    <3>1. PICK b : b = worker'[x].binding
      OBVIOUS
    <3>2. ApprovedAliases(worker[x].binding)' = ApprovedAliases(b)'
      BY <3>1 DEF ApprovedAliases
    <3>3. QED
      BY <2>1, <3>1, <3>2
  <2>3. ApprovedAliases(connection.binding)' = ApprovedAliases(connection.binding)
    <3>1. PICK b : b = connection.binding
      OBVIOUS
    <3>2. ApprovedAliases(connection.binding)' = ApprovedAliases(b)'
      BY <2>1, <3>1 DEF ApprovedAliases
    <3>3. QED
      BY <2>1, <3>1, <3>2
  <2>4. /\ worker'[x].pc \in {"loaded", "normalizing"} => worker'[x].binding = connection.binding
        /\ worker'[x].pc = "normalizing" =>
             worker'[x].aliases = ApprovedAliases(worker'[x].binding)
        /\ \A s \in stored'[e] : s = ApprovedAliases(connection.binding)
    <3>1. Current(e)
      BY ViewIsCurrentDef
    <3>2. CASE worker'[x] = worker[x] /\ stored'[e] = stored[e]
      BY <1>2, <3>1, <3>2 DEF Current
    <3>3. CASE worker'[x].pc \in {"queued", "leased"} /\ stored'[e] = stored[e]
      BY <1>2, <3>1, <3>3 DEF Current
    <3>4. CASE LoadMetrics(x)
      BY <1>2, <3>1, <3>4, RowFacts DEF LoadMetrics, Current, TypeOK
    <3>5. CASE LoadAliases(e)
      <4>1. /\ worker'[x].binding = worker[x].binding /\ worker[x].binding = connection.binding
            /\ worker'[x].aliases = ApprovedAliases(worker[x].binding)
            /\ stored' = stored
        BY <1>2, <3>1, <3>5, RowFacts DEF LoadAliases, Current, TypeOK, Worker
      <4>2. QED
        BY <1>2, <3>1, <4>1 DEF Current
    <3>6. CASE CommitEvents(e)
      <4>1. /\ worker[x].binding = connection.binding
            /\ worker[x].aliases = ApprovedAliases(connection.binding)
            /\ worker' = worker
            /\ stored'[e] = stored[e] \union {worker[x].aliases}
        BY <1>2, <3>1, <3>6, RowFacts DEF CommitEvents, MayCommit, Current, TypeOK
      <4>2. QED
        BY <1>2, <3>1, <4>1 DEF Current
    <3>7. QED
      BY <1>2, <3>2, <3>3, <3>4, <3>5, <3>6, EventTaskStep
  <2>5. \A s \in stored'[e] : s = ApprovedAliases(connection.binding)'
    BY <2>3, <2>4
  <2>6. QED
    BY <2>1, <2>2, <2>4, <2>5 DEF Current
<1>3. ViewIsCurrent'
  <2>1. \A e \in Events : Current(e)'
    BY <1>1, <1>2 DEF Current
  <2>2. QED
    BY <2>1 DEF ViewIsCurrent, Current
<1>4. ASSUME NEW e \in Events
      PROVE  \A s, t \in stored'[e] : s = t
  <2>1. CASE IsRunning(<<"events", e>>) /\ IsRunning(<<"events", e>>)'
    BY <1>2, <2>1
  <2>2. CASE ~IsRunning(<<"events", e>>) /\ IsRunning(<<"events", e>>)'
    BY <1>1, <2>2
  <2>3. CASE ~IsRunning(<<"events", e>>)'
    <3>1. CASE stored'[e] = stored[e]
      BY <3>1 DEF OneAliasSetPerRun
    <3>2. CASE stored'[e] # stored[e]
      <4>1. status' = status
        BY <3>2 DEF Next, vars, CheckProbeReadiness, PrepareDiscovery, FindMetrics,
           CommitDiscovery, PrepareProbe, CommitProbe, RejectReport, ApproveReport,
           RejectRule, ApproveRule, StartEvents, LoadAliases, CommitEvents, FinishEvents,
           FailRun, Renew, LoadMetrics, Requeue, Prepare
      <4>2. QED
        BY <2>3, <3>2, <4>1, StoredStep DEF IsRunning
    <3>3. QED
      BY <3>1, <3>2
  <2>4. QED
    BY <2>1, <2>2, <2>3
<1>5. QED
  BY <1>3, <1>4 DEF OneAliasSetPerRun

-----------------------------------------------------------------------------
(* The theorems *)

LEMMA InitInvariant ==
  ASSUME Init
  PROVE  IInv
<1>1. TypeOK
  BY DEF Init, TypeOK, Idle, Worker, Report, ReviewState
<1>2. \A x \in Rows : status[x] = "absent" /\ worker[x].pc = "none"
  BY DEF Init, Idle
<1>3. /\ InsertionOrder /\ RunningIsLast /\ DiscoveryIsDone /\ RunningUnderReady
      /\ ViewIsCurrent /\ BindingIsLatestDiscovery
  BY <1>2, RowFacts DEF InsertionOrder, RunningIsLast, DiscoveryIsDone, RunningUnderReady,
     ViewIsCurrent, BindingIsLatestDiscovery, IsRunning
<1>4. AbsentIsIdle /\ OneAliasSetPerRun
  BY <1>2 DEF Init, AbsentIsIdle, OneAliasSetPerRun
<1>5. ReportOwnsCandidates /\ ReadyIsBound /\ AliasesOfOneApproval /\ OneApprovedRule
  BY DEF Init, ReportOwnsCandidates, ReadyIsBound, AliasesOfOneApproval, OneApprovedRule
<1>6. QED
  BY <1>1, <1>3, <1>4, <1>5 DEF IInv

\* Every step keeps the inductive invariant.
LEMMA InvariantStep ==
  ASSUME IInv, [Next]_vars
  PROVE  IInv'
<1>1. TypeOK'
  BY TypeStep DEF IInv
<1>2. InsertionOrder' /\ RunningIsLast'
  BY OrderStep DEF IInv
<1>3. AbsentIsIdle' /\ DiscoveryIsDone'
  BY IdleStep DEF IInv
<1>4. ReportOwnsCandidates' /\ OneApprovedRule'
  BY ReportStep, RuleStep DEF IInv
<1>5. ReadyIsBound' /\ RunningUnderReady' /\ AliasesOfOneApproval'
  BY ApprovalStep DEF IInv
<1>6. ViewIsCurrent' /\ OneAliasSetPerRun'
  BY ViewStep
<1>7. BindingIsLatestDiscovery'
  BY LatestStep DEF IInv
<1>8. QED
  BY <1>1, <1>2, <1>3, <1>4, <1>5, <1>6, <1>7 DEF IInv

\* The inductive invariant holds in every reachable state.
THEOREM Invariance == Spec => []IInv
<1>1. Init => IInv
  BY InitInvariant
<1>2. IInv /\ [Next]_vars => IInv'
  BY InvariantStep
<1>3. QED
  BY <1>1, <1>2, PTL DEF Spec

\* Every row, view, report and review keeps its type.
THEOREM TypeCorrectness == Spec => []TypeOK
<1>1. IInv => TypeOK
  BY DEF IInv
<1>2. QED
  BY <1>1, Invariance, PTL

\* The aliases in force come from one passed report, while the connection is
\* ready: a rebinding takes them away in its own transaction.
THEOREM ApprovedTogether == Spec => []AliasesOfOneApproval
<1>1. IInv => AliasesOfOneApproval
  BY DEF IInv
<1>2. QED
  BY <1>1, Invariance, PTL

\* However often a run reads the aliases, all its pages are normalized alike.
THEOREM AliasesPerRun == Spec => []OneAliasSetPerRun
<1>1. IInv => OneAliasSetPerRun
  BY DEF IInv
<1>2. QED
  BY <1>1, Invariance, PTL

\* A reaped or failed discovery never rebinds.
THEOREM LatestDiscovery == Spec => []BindingIsLatestDiscovery
<1>1. IInv => BindingIsLatestDiscovery
  BY DEF IInv
<1>2. QED
  BY <1>1, Invariance, PTL

\* Join rules of one mapping never compete.
THEOREM SingleRule == Spec => []OneApprovedRule
<1>1. IInv => OneApprovedRule
  BY DEF IInv
<1>2. QED
  BY <1>1, Invariance, PTL

\* A row that ended keeps its status.
FinalStep == \A x \in Rows : status[x] \in {"success", "failed"} => status'[x] = status[x]

\* A run that ended is history.
THEOREM FinalHistory == Spec => EndedRunsAreFinal
<1>1. IInv /\ [Next]_vars => [FinalStep]_vars
  BY RowStep, PrepareFacts DEF IInv, RowsOnlyEnd, FinalStep, IsRunning
<1>2. EndedRunsAreFinal <=> [][FinalStep]_vars
  BY PTL DEF EndedRunsAreFinal, FinalStep
<1>3. QED
  BY <1>1, <1>2, Invariance, PTL DEF Spec

-----------------------------------------------------------------------------
(* What the missing guard costs.  An approval does not compare the binding  *)
(* its report sampled with the one in force.                                *)

\* A report is approved only for the binding its probe sampled.
ApprovalsAreForBinding ==
  \A i \in Probes, retired \in SUBSET Probes :
    ApproveReport(i, retired) => report[i].sampled = connection.binding

\* A passed report is final, and a ready connection keeps its binding.
LEMMA ProbedStep ==
  ASSUME IInv, ReadyBindingWasProbed, ApprovalsAreForBinding, [Next]_vars
  PROVE  ReadyBindingWasProbed'
<1> USE DEF IInv, ReadyBindingWasProbed
<1>1. ASSUME NEW i \in Discoveries, CommitDiscovery(i) PROVE ReadyBindingWasProbed'
  <2> DEFINE b == worker[<<"discovery", i>>].binding
  <2>1. /\ report' = report /\ connection'.binding = b
        /\ connection'.status = IF Rebinds(b) THEN "pending" ELSE connection.status
    BY <1>1 DEF CommitDiscovery
  <2>2. ~Rebinds(b) /\ connection.status = "ready" => b = connection.binding
    BY DEF Rebinds, ReadyIsBound
  <2> QED
    BY <2>1, <2>2
<1>2. ASSUME NEW i \in Probes, NEW eligible \in BOOLEAN, CommitProbe(i, eligible)
      PROVE  ReadyBindingWasProbed'
  <2>1. IsRunning(<<"probe", i>>) /\ connection' = connection
    BY <1>2 DEF CommitProbe, MayCommit
  <2>2. report[i].status = "absent"
    BY <2>1 DEF ReportOwnsCandidates, IsRunning
  <2> QED
    BY <1>2, <2>1, <2>2 DEF CommitProbe, TypeOK
<1>3. ASSUME NEW i \in Probes, RejectReport(i) PROVE ReadyBindingWasProbed'
  BY <1>3 DEF RejectReport, TypeOK, Report
<1>4. ASSUME NEW i \in Probes, NEW retired \in SUBSET Probes, ApproveReport(i, retired)
      PROVE  ReadyBindingWasProbed'
  <2>1. report[i].sampled = connection.binding
    BY <1>4 DEF ApprovalsAreForBinding
  <2>2. /\ report'[i].status = "passed" /\ report'[i].sampled = report[i].sampled
        /\ connection'.binding = connection.binding
    BY <1>4 DEF ApproveReport, TypeOK, Report
  <2> QED
    BY <2>1, <2>2
<1>5. CASE UNCHANGED <<connection, report>>
  BY <1>5
<1> QED
  BY <1>1, <1>2, <1>3, <1>4, <1>5 DEF Next, vars, CheckProbeReadiness, PrepareDiscovery,
     FindMetrics, PrepareProbe, StartEvents, LoadAliases, CommitEvents, FinishEvents,
     FailRun, Renew, LoadMetrics, Requeue, Prepare, RejectRule, ApproveRule

\* Were a report approved only for the binding in force, a connection would be
\* ready only with a binding that a passed report sampled, as the plan says:
\* no rebinding and no late probe can break it.
THEOREM BoundApprovalsAreProbed ==
  Spec /\ [][ApprovalsAreForBinding]_vars => []ReadyBindingWasProbed
<1> DEFINE PInv == IInv /\ ReadyBindingWasProbed
<1>1. Init => PInv
  <2>1. Init => IInv
    BY InitInvariant
  <2>2. Init => ReadyBindingWasProbed
    BY DEF Init, ReadyBindingWasProbed
  <2> QED
    BY <2>1, <2>2
<1>2. PInv /\ [Next]_vars /\ [ApprovalsAreForBinding]_vars => PInv'
  <2>1. ASSUME PInv, [Next]_vars, ApprovalsAreForBinding PROVE PInv'
    BY <2>1, InvariantStep, ProbedStep
  <2>2. ASSUME PInv, UNCHANGED vars PROVE PInv'
    BY <2>2, InvariantStep DEF vars, ReadyBindingWasProbed
  <2> QED
    BY <2>1, <2>2
<1>3. QED
  BY <1>1, <1>2, PTL DEF Spec

\* What a running event run stores is normalized with the aliases in force,
\* and while the binding is one that no passed report sampled these are none.
UnprobedIsUnnormalized ==
  ~ReadyBindingWasProbed =>
    \A e \in Events : IsRunning(<<"events", e>>) => stored[e] \subseteq {{}}

\* A connection that is ready without a probe of its binding normalizes no
\* page wrongly: its runs find no alias at all.
THEOREM UnprobedRunsFindNoAlias == Spec => []UnprobedIsUnnormalized
<1>1. IInv => UnprobedIsUnnormalized
  <2> SUFFICES ASSUME IInv, ~ReadyBindingWasProbed
               PROVE  \A e \in Events : IsRunning(<<"events", e>>) => stored[e] \subseteq {{}}
    BY DEF UnprobedIsUnnormalized
  <2>1. ApprovedAliases(connection.binding) = {}
    BY DEF ApprovedAliases, ReadyBindingWasProbed, IInv, AliasesOfOneApproval
  <2>2. QED
    BY <2>1 DEF IInv, ViewIsCurrent
<1>2. QED
  BY <1>1, Invariance, PTL
=============================================================================
