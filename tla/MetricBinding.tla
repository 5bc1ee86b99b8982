---------------------------- MODULE MetricBinding ----------------------------
(***************************************************************************)
(* How a Klaviyo connection gets and keeps the approval to ingest: the     *)
(* discovery that binds the native order metrics, the probe that samples   *)
(* them, the reviews of its report and of its join rules, and the event    *)
(* runs that normalize pages with the approved aliases.                    *)
(*                                                                         *)
(* EventSync.tla has one event run in detail and a single approval action; *)
(* here the approval is in detail and the pages are one action.            *)
(***************************************************************************)
EXTENDS Naturals, FiniteSets

CONSTANTS
  MaxDiscoveries, MaxProbes, MaxEvents,  \* bounds: rows of each operation
  Bindings,          \* external ids discovery may find for the order metrics
  NoBinding          \* the order metrics before the first discovery

ASSUME MetricBindingAssumption ==
  /\ MaxDiscoveries \in Nat /\ MaxProbes \in Nat /\ MaxEvents \in Nat
  /\ NoBinding \notin Bindings

VARIABLES
  connection,  \* klaviyo_connection: status and the enabled order binding
  prober,      \* a caller that passed requireProbeReadiness and not yet more
  status,      \* klaviyo_sync_run.status, by operation and insertion order
  worker,      \* the task of a row: program counter and what it has read
  report,      \* klaviyo_probe_report, by the probe that wrote it
  alias,       \* klaviyo_event_alias.state of a report's candidates
  rule,        \* klaviyo_join_rule.state of a report's candidate
  stored       \* ghost: alias sets under which an event run stored pages

vars == <<connection, prober, status, worker, report, alias, rule, stored>>

Discoveries == 1..MaxDiscoveries
Probes      == 1..MaxProbes
Events      == 1..MaxEvents

Rows == ({"discovery"} \X Discoveries) \union ({"probe"} \X Probes)
          \union ({"events"} \X Events)

ReviewState == {"none", "candidate", "approved", "rejected", "disabled"}

Worker == [pc      : {"none", "queued", "leased", "loaded", "normalizing", "done"},
           binding : Bindings \union {NoBinding},
           aliases : SUBSET Probes]

Report == [status   : {"absent", "pending", "passed", "failed"},
           sampled  : Bindings \union {NoBinding},  \* binding its events came from
           eligible : BOOLEAN]                      \* overlap, sample and redaction hold

Idle == [pc |-> "none", binding |-> NoBinding, aliases |-> {}]

IsRunning(x) == status[x] = "running"

\* The rows of an operation that are running.
Running(op) == {x \in Rows : x[1] = op /\ IsRunning(x)}

Init ==
  /\ connection = [status |-> "pending", binding |-> NoBinding]
  /\ prober = FALSE
  /\ status = [x \in Rows |-> "absent"]
  /\ worker = [x \in Rows |-> Idle]
  /\ report = [i \in Probes |-> [status |-> "absent", sampled |-> NoBinding, eligible |-> FALSE]]
  /\ alias = [i \in Probes |-> "none"]
  /\ rule = [i \in Probes |-> "none"]
  /\ stored = [e \in Events |-> {}]

-----------------------------------------------------------------------------
(* Preparing a run *)

IsNext(x) == status[x] = "absent"
             /\ \A y \in Rows : y[1] = x[1] /\ y[2] < x[2] => status[y] # "absent"

\* Under the connection's lock: a live running row is handed back, which
\* changes nothing; an expired one is failed and a fresh row inserted.
Prepare(x) ==
  /\ IsNext(x)
  /\ status' = [y \in Rows |-> IF y = x THEN "running"
                              ELSE IF y \in Running(x[1]) THEN "failed" ELSE status[y]]
  /\ worker' = [worker EXCEPT ![x] = [Idle EXCEPT !.pc = "queued"]]
  /\ UNCHANGED <<connection, report, alias, rule, stored>>

PrepareDiscovery(i) == Prepare(<<"discovery", i>>) /\ UNCHANGED prober

\* Readiness for a probe is read before the lock is taken.
CheckProbeReadiness ==
  /\ connection.status = "pending" /\ connection.binding # NoBinding
  /\ prober' = TRUE
  /\ UNCHANGED <<connection, status, worker, report, alias, rule, stored>>

PrepareProbe(i) == prober /\ Prepare(<<"probe", i>>) /\ prober' = FALSE

\* An event run needs a ready connection and some passed report.
StartEvents(e) ==
  /\ connection.status = "ready"
  /\ \E i \in Probes : report[i].status = "passed"
  /\ Prepare(<<"events", e>>)
  /\ UNCHANGED prober

\* MUTANT of FailRun: the status is overwritten without asking for "running".
FailAnyRun(x) ==
  /\ worker[x].pc # "none"
  /\ status' = [status EXCEPT ![x] = "failed"]
  /\ UNCHANGED <<connection, prober, worker, report, alias, rule, stored>>

\* A failed hand-off, a sample that is too small, exhausted retries.
FailRun(x) ==
  /\ IsRunning(x)
  /\ status' = [status EXCEPT ![x] = "failed"]
  /\ UNCHANGED <<connection, prober, worker, report, alias, rule, stored>>

-----------------------------------------------------------------------------
(* The task of a run *)

\* The heartbeat of a running row is renewed; of any other, the task throws.
Renew(x) ==
  /\ worker[x].pc = "queued"
  /\ worker' = [worker EXCEPT ![x].pc = IF IsRunning(x) THEN "leased" ELSE "done"]
  /\ UNCHANGED <<connection, prober, status, report, alias, rule, stored>>

\* Discovery pages through the provider's metrics.
FindMetrics(i, b) ==
  LET x == <<"discovery", i>> IN
  /\ worker[x].pc = "leased"
  /\ worker' = [worker EXCEPT ![x] = [pc |-> "loaded", binding |-> b, aliases |-> {}]]
  /\ UNCHANGED <<connection, prober, status, report, alias, rule, stored>>

\* A probe or an event batch reads the enabled order metrics.
LoadMetrics(x) ==
  /\ worker[x].pc = "leased" /\ x[1] # "discovery"
  /\ connection.binding # NoBinding
  /\ worker' = [worker EXCEPT ![x] =
       [pc |-> "loaded", binding |-> connection.binding, aliases |-> {}]]
  /\ UNCHANGED <<connection, prober, status, report, alias, rule, stored>>

ApprovedAliases(b) == {i \in Probes : alias[i] = "approved" /\ report[i].sampled = b}

\* An event batch then reads the approved aliases of those metrics.
LoadAliases(e) ==
  LET x == <<"events", e>> IN
  /\ worker[x].pc = "loaded"
  /\ worker' = [worker EXCEPT ![x] =
       [@ EXCEPT !.pc = "normalizing", !.aliases = ApprovedAliases(worker[x].binding)]]
  /\ UNCHANGED <<connection, prober, status, report, alias, rule, stored>>

\* An attempt dies and is retried, or a batch hands over to the next one.
Requeue(x) ==
  /\ worker[x].pc \in {"leased", "loaded", "normalizing"}
  /\ worker' = [worker EXCEPT ![x] = [Idle EXCEPT !.pc = "queued"]]
  /\ UNCHANGED <<connection, prober, status, report, alias, rule, stored>>

\* MUTANT of MayCommit: the row's status is not read again under the lock.
MayCommitBlindly(x, pc) == worker[x].pc = pc

\* Under the lock, the row must still be running.
MayCommit(x, pc) == worker[x].pc = pc /\ IsRunning(x)

Rebinds(b) == connection.binding \notin {NoBinding, b}

\* MUTANT of Disabling: the approved rows survive the rebinding.
DisablingNothing(state, b) == state

\* What a rebinding leaves of a state of review.
Disabling(state, b) ==
  [i \in Probes |-> IF Rebinds(b) /\ state[i] = "approved" THEN "disabled" ELSE state[i]]

\* MUTANT of StatusAfterDiscovery: the running event runs are left running.
StatusKeepingEvents(x, b) == [status EXCEPT ![x] = "success"]

\* The discovery succeeds; if it rebinds, every running event run is failed.
StatusAfterDiscovery(x, b) ==
  [y \in Rows |-> IF y = x THEN "success"
                  ELSE IF Rebinds(b) /\ y \in Running("events") THEN "failed"
                  ELSE status[y]]

\* Discovery commits its binding.  A binding that differs from the enabled
\* one sends the connection back to review.
CommitDiscovery(i) ==
  LET x == <<"discovery", i>>
      b == worker[x].binding
  IN
  /\ MayCommit(x, "loaded")
  /\ connection' = [binding |-> b,
                    status  |-> IF Rebinds(b) THEN "pending" ELSE connection.status]
  /\ status' = StatusAfterDiscovery(x, b)
  /\ alias' = Disabling(alias, b)
  /\ rule' = Disabling(rule, b)
  /\ worker' = [worker EXCEPT ![x].pc = "done"]
  /\ UNCHANGED <<prober, report, stored>>

\* A probe commits its report with the candidate aliases and a join rule.
CommitProbe(i, eligible) ==
  LET x == <<"probe", i>> IN
  /\ MayCommit(x, "loaded")
  /\ report' = [report EXCEPT ![i] = [status |-> "pending", eligible |-> eligible,
                                     sampled |-> worker[x].binding]]
  /\ alias' = [alias EXCEPT ![i] = "candidate"]
  /\ rule' = [rule EXCEPT ![i] = "candidate"]
  /\ status' = [status EXCEPT ![x] = "success"]
  /\ worker' = [worker EXCEPT ![x].pc = "done"]
  /\ UNCHANGED <<connection, prober, stored>>

\* A page of events is stored if the metrics it names are still enabled.
CommitEvents(e) ==
  LET x == <<"events", e>> IN
  /\ MayCommit(x, "normalizing")
  /\ worker[x].binding = connection.binding
  /\ stored' = [stored EXCEPT ![e] = @ \union {worker[x].aliases}]
  /\ UNCHANGED <<connection, prober, status, worker, report, alias, rule>>

\* The last page was committed.
FinishEvents(e) ==
  LET x == <<"events", e>> IN
  /\ MayCommit(x, "normalizing")
  /\ status' = [status EXCEPT ![x] = "success"]
  /\ worker' = [worker EXCEPT ![x].pc = "done"]
  /\ UNCHANGED <<connection, prober, report, alias, rule, stored>>

-----------------------------------------------------------------------------
(* Reviews, each under the connection's lock *)

\* MUTANT of RejectReport: a report takes the state of a rejected alias.
RejectReportAsAlias(i) ==
  /\ report[i].status = "pending"
  /\ report' = [report EXCEPT ![i].status = "rejected"]
  /\ alias' = [alias EXCEPT ![i] = IF @ = "candidate" THEN "rejected" ELSE @]
  /\ UNCHANGED <<connection, prober, status, worker, rule, stored>>

\* A failed report takes its own candidate aliases with it and nothing else.
RejectReport(i) ==
  /\ report[i].status = "pending"
  /\ report' = [report EXCEPT ![i].status = "failed"]
  /\ alias' = [alias EXCEPT ![i] = IF @ = "candidate" THEN "rejected" ELSE @]
  /\ UNCHANGED <<connection, prober, status, worker, rule, stored>>

\* A pending report of a pending, bound connection is passed: its candidates
\* are approved in place of the approved aliases whose mapping they share,
\* and the connection becomes ready.
ApproveReport(i, retired) ==
  /\ report[i].status = "pending" /\ report[i].eligible
  /\ connection.status = "pending" /\ connection.binding # NoBinding
  /\ retired \subseteq ApprovedAliases(report[i].sampled)
  /\ report' = [report EXCEPT ![i].status = "passed"]
  /\ alias' = [j \in Probes |-> IF j = i /\ alias[i] = "candidate" THEN "approved"
                               ELSE IF j \in retired THEN "disabled" ELSE alias[j]]
  /\ connection' = [connection EXCEPT !.status = "ready"]
  /\ UNCHANGED <<prober, status, worker, rule, stored>>

RejectRule(i) ==
  /\ rule[i] = "candidate"
  /\ rule' = [rule EXCEPT ![i] = "rejected"]
  /\ UNCHANGED <<connection, prober, status, worker, report, alias, stored>>

\* MUTANT of ApproveRule: the rule it replaces stays approved.
ApproveRuleBeside(i) ==
  /\ rule[i] = "candidate" /\ report[i].status = "passed"
  /\ rule' = [rule EXCEPT ![i] = "approved"]
  /\ UNCHANGED <<connection, prober, status, worker, report, alias, stored>>

\* A candidate of a passed report replaces the approved rule of its mapping.
ApproveRule(i) ==
  /\ rule[i] = "candidate" /\ report[i].status = "passed"
  /\ rule' = [j \in Probes |-> IF j = i THEN "approved"
                              ELSE IF rule[j] = "approved" THEN "disabled" ELSE rule[j]]
  /\ UNCHANGED <<connection, prober, status, worker, report, alias, stored>>

Next ==
  \/ CheckProbeReadiness
  \/ \E i \in Discoveries :
       PrepareDiscovery(i) \/ CommitDiscovery(i) \/ \E b \in Bindings : FindMetrics(i, b)
  \/ \E i \in Probes :
       \/ PrepareProbe(i)
       \/ \E eligible \in BOOLEAN : CommitProbe(i, eligible)
       \/ RejectReport(i) \/ \E retired \in SUBSET Probes : ApproveReport(i, retired)
       \/ RejectRule(i) \/ ApproveRule(i)
  \/ \E e \in Events :
       StartEvents(e) \/ LoadAliases(e) \/ CommitEvents(e) \/ FinishEvents(e)
  \/ \E x \in Rows : FailRun(x) \/ Renew(x) \/ LoadMetrics(x) \/ Requeue(x)

Spec == Init /\ [][Next]_vars

-----------------------------------------------------------------------------
(* Properties *)

\* Every row and every view holds a value of its type.
TypeOK ==
  /\ connection \in [status : {"pending", "ready"}, binding : Bindings \union {NoBinding}]
  /\ prober \in BOOLEAN
  /\ status \in [Rows -> {"absent", "running", "success", "failed"}]
  /\ worker \in [Rows -> Worker]
  /\ report \in [Probes -> Report]
  /\ alias \in [Probes -> ReviewState]
  /\ rule \in [Probes -> ReviewState]
  /\ stored \in [Events -> SUBSET SUBSET Probes]

\* The approved aliases all come from one report, which passed, and they are
\* only in force while the connection is ready: a rebinding takes them away
\* in the transaction that makes the connection pending.
AliasesOfOneApproval ==
  \A i, j \in Probes : alias[i] = "approved" /\ alias[j] = "approved" =>
    i = j /\ report[i].status = "passed" /\ connection.status = "ready"

\* All pages of one event run were normalized with the same aliases, though
\* every batch reads them again and outside of any lock.
OneAliasSetPerRun == \A e \in Events : \A s, t \in stored[e] : s = t

\* A discovery that was reaped or failed never rebinds: the binding is the
\* one found by the latest discovery that succeeded.
BindingIsLatestDiscovery ==
  \A i \in Discoveries :
    (/\ status[<<"discovery", i>>] = "success"
     /\ \A j \in Discoveries : j > i => status[<<"discovery", j>>] # "success")
    => connection.binding = worker[<<"discovery", i>>].binding

\* Of one mapping at most one join rule is approved, whichever reports the
\* rules came from and however the reviews interleave with rebindings.
OneApprovedRule ==
  \A i, j \in Probes : rule[i] = "approved" /\ rule[j] = "approved" => i = j

\* A run that ended is history: its status never changes again, whatever late
\* probe, failure handler or reap comes after.
EndedRunsAreFinal ==
  [][\A x \in Rows : status[x] \in {"success", "failed"} => status'[x] = status[x]]_vars

\* What the rebinding's message and the ingestion plan say: after the native
\* order metrics change, ingestion is blocked until a probe of the new ones is
\* approved.  A ready connection's binding was sampled by a passed report.
ReadyBindingWasProbed ==
  connection.status = "ready" =>
    \E i \in Probes : report[i].status = "passed" /\ report[i].sampled = connection.binding
=============================================================================
