# Verification of Adsolute's data integrations

Adsolute is a Next.js application with a Postgres database (Drizzle) and
background tasks on Trigger.dev. It collects ads, orders and email-marketing
events from Meta, Google Ads, Shopify and Klaviyo, matches them and reports on
them. Its screens, queries and prompts are ordinary; what is hard to get right,
and hard to test, is the machinery that keeps a store's collected data complete
and consistent while many tasks run, fail, are retried and are overtaken. This
directory holds TLA+ modules for that machinery, the TLC runs that check them,
and TLAPS proofs of their main properties.

Contents: [the system](#the-system), [the modules](#the-modules),
[the runs](#the-runs), [the proofs](#the-proofs),
[disagreements found](#disagreements-between-code-and-documents),
[limits](#what-is-not-modelled), [plan](#plan), [how to run](#how-to-run).

## The system

### Conventions every component shares

* **One transaction, one lock order.** A writer locks the store row, then the
  connection row, then the run row (`withKlaviyoStoreConnectionLock`). Whatever
  a task read before that is a view which may be stale when it is used.
* **Run rows.** A long operation is a row of `klaviyo_sync_run` (or of one of its
  siblings): `running`, then `success` or `failed`, with a checkpoint, a
  heartbeat and a lease of 20 minutes. Nothing watches the lease: the next start
  fails a row whose lease has expired.
* **Tasks.** Work is a chain of short tasks, each triggering its successor under
  an idempotency key. A task can crash anywhere, is retried a few times, and
  then a failure handler runs, all possibly while another attempt of the same
  run is at work.
* **Provider calls happen outside every transaction.** Pages, emails and
  candidate metrics are fetched first and committed later.

### Components

| Component | State it keeps | Operations | What makes it correct |
|---|---|---|---|
| Klaviyo event source sync (`source-runner.ts`, `source-store.ts`, `klaviyo-source-sync.ts`) | run rows with checkpoint, heartbeat; events, observations | start, resume, replace, hand-off, batch, page commit, finish, fail | one run at a time; success means every page once; ended rows are final; every run ends |
| Klaviyo discovery, probe, review (`discovery.ts`, `probe.ts`, `join-rules.ts`) | enabled metrics, probe reports, aliases, join rules, connection status | prepare, fetch, commit, review, rebind | approvals and bindings never mix; a ready connection was probed |
| Identity keys, rotation, erasure (`identity-rotation.ts`, `shopify-privacy.ts`, ...) | write gate, crypto policy, digests, tombstones, rotation members | bootstrap, prepare, rotate, prune, abort, erase | an erased customer stays erased; a cutover loses nobody |
| Klaviyo snapshots (`snapshot-*.ts`) | definitions, runs with lease, records, contents, profile addresses, tombstones | configure, prepare, claim, page, publish, fail, erase | only whole collections are published, counted right, free of erased subjects, and newer ones replace older ones |
| Order matching and publication (`match-*.ts`, `matcher.ts`) | match runs, event and order results and their supersession | trigger, project, compute, publish, recount, close after erasure | one current conclusion per event and order, whose two ends agree |
| Klaviyo attribution claims (`claim-repository.ts`, `klaviyo-claims.ts`) | replay graphs, states per conversion, claims, counts | start, rebind, select, fetch, commit, recover | success means every current conversion was asked; counts are the stored ones |
| Meta sync (`meta-sync.ts`, `meta-import.ts`, `meta-sync-runs.ts`) | account sync runs with cursor; ads, daily facts | start a report, poll, import a page, finish | success means every page; a clean job leaves every retained day and loses no row of an ad its base report names |
| Retention (`retention/*`) | daily rows, monthly summaries | roll up, delete, dry run | a month is never recomputed from partial data; expired rows go |
| Shopify order evidence (`shopify-evidence-store.ts`, `-runner.ts`) | evidence runs, order lines, identity observations | start, batch, commit an order, checkpoint, finish | line sets replaced as a whole; same run protocol |
| Klaviyo dimensions and reports | operation runs with stages | collect, upsert, publish | staged once, attributed to one run |
| Nightly supervisor (`incremental-sync.ts`, `klaviyo-incremental.ts`) | none of its own | runs the stages one after the other | a failed stage does not start its dependents |
| Google Ads sync | sync runs, windows, facts | start, import, abandon, finish | windows imported whole; abandoned runs are closed |
| Image Studio | generations and variations | request, generate, store, fail | a status follows its tasks |
| Tagging, landing pages, competitor signals, performance log, findings, auth, API, UI | rows without a protocol, or none | read, upsert | not concurrent in an interesting way |

`PROJECT.json` lists each with its sources and whether it is modelled.

### How they interact

The supervisor and an admin start event runs; discovery rebinds the metrics and
fails event runs in the same transaction; event pages and order evidence write
digests under the gate and the policy that rotations change; matching reads what
event runs and evidence runs stored; erasure reaches into all of them. Shared
rows under the two locks are the only channel between tasks, besides trigger
payloads.

### Hard behaviours

They are listed, each at its line, under `hazards` in `PROJECT.json`: stale views
committed after a reap or a rebinding, duplicated chains of tasks, a crash between
a commit and the next trigger, leases expiring under a healthy but queued task,
approvals competing with rebindings, an email fetched before its customer is
erased, a key rotated while writers still hold the old one, an attempt the
platform has replaced and that comes back, publications over overlapping windows
in either order, claims fetched for a conversion that is taken over meanwhile, a
call that was given up and still completes, a sweep that dies in the middle of a
month or runs across midnight.

## The modules

| Module | What it is |
|---|---|
| `RunLedger` | abstract: what an event run promises, with no task, lease or retry |
| `EventSync` | the event source sync in detail; implements `RunLedger` |
| `KeyRing` | abstract: what the identity keys promise, with no gate, policy or task |
| `SnapshotShelf` | abstract: what a reader of snapshots is promised, with no attempt, lease or page |
| `MetricBinding` | discovery, probe, review and the event runs that use their result |
| `IdentityRotation` | gate, policy, digests, rotation, erasure, and the writers of digests; implements `KeyRing` |
| `Snapshots` | collection, publication and erasure of one snapshot scope; implements `SnapshotShelf` |
| `Matching` | the matcher, its task, publication and the closures after an erasure |
| `ClaimReplay` | the replay of claims; extends `Matching`, the two step beside each other |
| `MetaSync` | the import of Meta reports, with lost, late and repeated calls |
| `Retention` | daily rows between their writers and the sweep |
| `MC...` | the instances TLC checks (constants are in the `.cfg`) |
| `...Proofs` | theorems about each component |

Every action of a module is one database transaction or one read outside of one,
and is named for its function. `PROJECT.json` maps each definition to the lines it
stands for.

### EventSync

`run` holds the `klaviyo_sync_run` rows; `connection` status and binding; `caller`
the run an admin or the supervisor has prepared and not yet handed to a task; and
`task` one entry per idempotency key, with a program counter, the attempt and the
attempt's view (checkpoint, binding, pages left in the batch). `Start...` are the
outcomes of `startOrResumeOrderCoreSync` under its lock: fresh, resume, replace an
expired run. `Handoff` is the trigger of the first task, `HandoffFails` the manual
start's failure path. `Load`, `Renew`, `CommitPage`, `Finish` and `Continue` are the
steps of `processOrderCoreBatch` and of the task around it, with the ways a page is
not committed, and `OnFailure` the failure handler; `Crash` and `LoseTask` are what the
platform can do; `Discover` is a rebinding; `Tick` is time passing towards the
lease.

Ghosts (`commits`, `ended`, `source`) count page commits, remember which pages
ended their kind and under which binding events were fetched; no guard reads them.

Abstractions: a page's cursor is determined by the page; events are not told
apart; `commits` counts what an `upsert` would count twice. Idempotency keys
outlive the run (their time-to-live is seven days, the lease twenty minutes). The
journey and consent modes are requests outside `OrderCore`: rebinding does not
stop them.

### MetricBinding

`status` and `worker` hold the rows of three operations and the tasks behind them;
`report`, `alias` and `rule` what probes and reviews wrote. A discovery and a probe
fetch first and commit later, so `FindMetrics`, `LoadMetrics` and `LoadAliases` are
steps of their own. Abstractions: a report's candidates are one alias and one rule;
whether a report may be approved (overlap, sample, redaction) is one flag; retries
are unbounded; committing a page is one action. The approval is in detail here and
one action in `EventSync`, and the other way round for pages: the two are checked
separately, and each models the transaction they share (`commitKlaviyoDiscovery`)
as a whole.

### IdentityRotation

`gate` (on the connection) and `policy` (on the store) are the two rows that name
the key versions in force; `digests` says which versions a source has a digest of;
`erased` are the tombstones. `env` is what is deployed, and every worker keeps the
keys it parsed: `sync` for the batch of an event run, `evidence` for an order
evidence batch, `task` for the rotation task with the members it read and the email
it holds. `CommitPage`/`SuppressPage` are the identity part of a page commit,
`CommitOrder` of an order commit, `CommitDigests` and its siblings one member of a
rotation batch; `PrepareRotation`, `PruneRotation`, `AbortRotation`, `EraseSubject`
and `PublishMatch` are the transactions of that name. These operations are functions
an operator calls; erasure and rotation have no screen yet.

`ImplementsKeyRing` sees only the keys in force (`Ring`), the sources that can be matched
under one of them (`Matchable`) and those of erased customers (`Forgotten`).

Abstractions: a label has one secret (the registry refuses to bind it again); a
digest is the pair of a source and a version, its owner never changes; the
suppression key is constant; profile aliases, snapshot suppressions and the
uninstall are left out; a match run is current or not, and which results others
lose is chosen freely; a published run without results, which a prune accepts and
leaves unsuperseded (`match-currentness.ts:41-43`), is left to `Matching`; one event run, one evidence batch and one rotation task run
at a time, as their queues have it (`concurrencyLimit: 1` each). The
operator deploys as the runbook says: a new key beside the one in force, and back;
`env` does not change while the gate is dual. Fetchers keep their contract (the one
for Shopify orders answers null today, which is one of the model's choices).

### Snapshots

`run` holds the `klaviyo_snapshot_run` rows of one scope, with version, owner, lease
token, page, count and whether it is the current one; `records` and `contents` what is
stored for them; `assoc` the profile addresses read with pages; `erased` the
tombstones; `worker` every attempt of `klaviyo-snapshots` ever made. The lease token
is the number of the attempt that claimed the run last. `Claim`, `Load`, `Read`,
`Commit` and `Publish` are the transactions of an attempt, each checking the lease as
its function does; `NextAttempt` is the platform's retry, which may start while the
attempt it replaces is alive (`cut`), and `Finalize` the exhausted task's handler.
`Erase` removes every profile ever seen with an address, in every run, and recounts.
`observed` is a ghost: with which addresses the records held were read.

`ImplementsShelf` sees the current version (`Shown`), the events a reader finds in it
(`Held`, `Shelf`) and the profiles that were erased.

Abstractions: events stand for the four datasets; one scope of one definition;
contents are stored per event, not per page.

### Matching

A *pair* is a run of events and a run of orders that both ended; `observed` is what
they saw. `queue` and `worker` are the matching task, one at a time; a job freezes its
fingerprint (`Projection`), computes results by the matcher (`SelectedEvent`,
`SelectedOrder`, pure functions of the members and `links`), and `Publish` retires what
it replaces in one transaction: `RetiredEvents`, `RetiredOrders`, `EmptyRetired` and the
recount. `eventCurrent` and `orderCurrent` are the results without `supersededAt`.
`Erase` is the closure after an erasure and `Incident` the orders whose conclusion was
drawn against the erased event, selected or not. `Store` and `Observe` are the event and
evidence pages underneath; an item's content may be edited back and forth (`Edits`). A run
of orders that ends as `partial` (`Partial`) may lack orders of its window; one that ends as
`success` is refused as soon as an order of its window is stored that it did not see
(`Acceptable`). Of several candidates an order takes the first in the order of the rows of
`klaviyo_event` (`FirstById`, `RowId`), which is not the order in which they occurred.

Abstractions: the strength of an edge is one of four classes instead of a score;
content is a version number; product comparison and identity digests are left out.

### ClaimReplay

`graphs` are the `klaviyo_claim_replay_run` rows; `batch` the task of the running one;
`states`, `claims` and `counts` what it writes. `Select` walks the three phases (missing,
incomplete, failed) in the order conversions occurred, and chooses between rebinding,
finishing and fetching. The fetch is outside the locks; `Commit`, `CommitSkips` and
`CommitBlocked` are the second transaction with everything it checks again.
`Recover` is the exhausted task's handler. Every action of `Matching` is also an
action here (`MatchStep`), so a publication, an edit or an erasure can come between
any two steps of the replay. The numbers of claims Klaviyo returns, none among them, stand
for the claims; events are numbered in the order they occurred.

### MetaSync

`job` is the run of `metaSyncTask`, `reports` the `account_sync_runs` rows and `calls`
the `importReport` requests on the server: the one the job waits for and one it has
given up. A request reads its row, fetches, writes rows (`WriteRows`) and records the
page (`RecordPage`) in separate statements; the answer may be lost after any of
them. `ads` decides whether a breakdown row can be stored. Midnight (`NextDay`) moves
the retained windows under a job. `delivering` are the ads that have rows at Meta: a report
names those there are when it is started, and `StartDelivering` may add one between a base
report and a breakdown, or after a base report that a later job skips as fresh. `DeleteAd`
is the user's. A report has two pages, there is one breakdown, and ads are told apart by
the day and the page that bring them. Ghosts: the ads a report `named`, the `pages` it has
stored and the ads whose rows it `lost`, and the ads that were `removed`.

`CleanJobIsWhole` cannot say that a clean job loses nothing: the code drops a breakdown row
of any ad not stored at the moment (`meta-import.ts:461`) and reports no failure, so an ad
that starts delivering after the base report, or after one skipped as fresh, loses its
rows. It says what the order of the reports does promise: no row of an ad is lost that a
successful base report of the same day names, unless a user deleted the ad.

### Retention

A row is told apart by its day. `log` holds the days with a base row, `summary` the days
summed into each month, `sweep` the run that read its clock once (`StartSweep`), and
`pending`, for each of the `Writers` under way, the days it found retained and has not
written yet. Every writer is of this kind: the import, `ad.bulkImport` and
`performanceLog.create`, `bulkCreate` and `update` ask the clock (`CheckDays`) and write later
without asking again (`WriteDays`). The guards have no upper bound, so days to come may be
written too.
`RolledUp` is the one SQL statement of the roll-up; `DeleteBatch` deletes any part of what
expired, and `SweepDies` may come between any two statements. `expired` is a ghost.

## The runs

| Run | Checks | Shows |
|---|---|---|
| `EventSync` | types, one running run, approval, one binding per run, rows move forward, refinement of `RunLedger`, `EveryRunEnds` | two consecutive runs, two callers, two tasks at work, rebinding, crashes, lost tasks; an abandoned run is failed by a later start |
| `EventSyncChain` | success is the whole window, `ChainCarriesRun` | longer walks, retried attempts, no lease, no lost task: the keys never swallow a continuation that is needed |
| `MetricBinding` | six properties | three discoveries, two probes, one event run, reaped and retried |
| `MetricBindingProbed` | `ReadyBindingWasProbed`, violated | see below |
| `IdentityRotation` | six properties, among them the refinement of `KeyRing` | two rotations, rolled back or pruned, among all the other writers |
| `RotationSuppresses`, `RotationStaleTask`, `RotationPublication` | one statement each, violated | see below |
| `Snapshots` | eight properties, among them the refinement of `SnapshotShelf` and one of liveness | two runs, two attempts that may both be alive, a reconfiguration, a changed address, an erasure |
| `ClaimReplay` | five properties of matching and of the replay | publications of nothing, of an order and of both ends, over one window; an edit and an erasure under two graphs; claims that may be none |
| `MetaSync` | types, success is the whole report, a clean job is whole | lost answers, late calls, crashed jobs, midnight, an ad that starts delivering, a deleted ad |
| `Retention` | types, no partial month, expired rows go | three days in two months, two writers that may cross midnight against sweeps that die anywhere |

A property is checked in the one run whose bounds suit it best; that success is the whole
window and that `RunLedger` is implemented are both theorems of `EventSync!Spec`, so
they hold in the other run as well.

Bounds. Two kinds of two pages have every position there is: first, inner and last
page, and the step between kinds. Two runs are one that is overtaken and the one
that overtakes it; two attempts at once are one stale and one current. Two bindings
are before and after. `Lease` is one tick because only "expired or not" is read.
Three discoveries are the one that rebinds, one that is reaped, and a later one.
For `IdentityRotation`, one event, one order and two customers give sources of the
same and of different customers; two versions are the key in force and the new one,
and two rotations include one after a roll back or a prune; three versions are
needed only where a version is retired for good (`RotationStaleTask`).

`Snapshots` has two pages that share an event, so that a page committed twice or an
increment counted twice shows; two attempts are the cut one and its successor. In
`ClaimReplay` two events compete for one order, one with a deterministic edge and
one with an eligible score; both pairs have the order in their window, and the second
one has both events. The first pair's run of orders is partial and may miss the order,
whereupon its publication is empty. Event 1 can be edited once and event 2 erased, which
gives the second pair another fingerprint; the rows are numbered against the order of
occurrence; two match runs are the older and the newer publication, two graphs the one
that is overtaken and the next one, and one retry reaches the end of the budget. An edit
that is taken back, and an order stored only after a full run of its window, are in the
theorems, not in the run, which they would make too long. In `MetaSync` base reports are
retained a day longer than breakdowns, so that across one midnight a day can be retained
for one and expired for the other, and three days let both expire in turn; two reports
are both of one job, the same one twice, or one of each of two jobs; of the ads of the
second day one may start late and the other may be deleted. `Retention` has months of
two days and a window of one, so that the cutoff falls inside a month and between
months; two writers are one that adds rows while another moves one.

Deadlock is checked where the system goes on for ever. It is not where the rows
of a run, a graph, a report or the days of the calendar are bounded and the model
stops when they are used up (`MetricBinding`, `IdentityRotation`, `Snapshots`,
`ClaimReplay`, `MetaSync`, `Retention`), and not in `EventSyncChain`, whose single
run ends.

Fairness. `EveryRunEnds` assumes that time passes, that the supervisor keeps
starting (it is a cron task) and that a caller that holds a run lets go of it, by
handing it over or dying. It assumes nothing of any task. `ChainCarriesRun` assumes
the platform's promise instead: a queued task is run (strongly fair, since it
competes for the queue's slots), a step that can be taken is taken, attempts that
throw are retried and the failure handler is called. `AbandonedRunIsReaped` assumes
that attempts run or die (`maxDuration`), that the platform's retries reach the
exhaustion handler and that leases expire; and it has a premise, `ScopeRecurs`, that the scope
is prepared again for a later occurrence whenever it can be. That is not true of every
scope: a rolling window has a new end, and so a new scope, every day
(`snapshot-store.ts:398-414`), a one-off scope has no schedule (446-498), and a preparation
of the same occurrence returns the run as reused (677-682). There an abandoned run stays
`running` for ever. `ExpiredRowsGo` assumes that the sweep is scheduled every night with
the organization in the allowlist, that no organization before it in the list always
throws (the schedule would stop there every night), that no run hangs (`maxDuration` in
`trigger.config.ts`), and that runs are not always stopped before the same statement
(strong fairness: without it no batch would ever be deleted).

Each property of a passing run has a mutant in `PROJECT.json`: a changed definition
a plausible bug would produce, under which the same run finds it violated.

## The proofs

TLC decides small instances; the theorems hold for every value of the constants
that satisfies the `ASSUME` of the module (naturals, disjoint sets, a null that is
not a value). Each component has one inductive invariant (`IInv`, `ClaimInv`, `SyncInv`); the
properties are conjuncts of it or follow from it and a step. The theorems come in three
kinds: the properties of the runs; results no run has room for; and, where the code
lacks a guard its documents speak of, what that guard would be enough for.

* `EventSyncProofs`: an invariant that says success is the whole window is not
  inductive: a stale attempt may hold any view. `Walked` ties commits to the
  checkpoint of every run (kinds before it as a whole, pages before it once, nothing
  after it), and `Views` says what a view still guarantees however old it is; the
  comparison of checkpoints under the lock does the rest. `Refinement` maps every
  step to a step of `RunLedger` or a stutter; opening a run while an expired one is
  failed is one step there too.
* `MetricBindingProofs`: `ViewIsCurrent` is the strengthening. What a *running*
  event run read is still in force, because a rebinding fails running runs in
  its own transaction, so reading aliases outside the lock is harmless.
* `IdentityRotationProofs`: `OneLiveRotation` and `LiveIsDual` make "policy has one
  key" imply "no rotation is live", which is why an order without an email cannot
  take a digest the roll back needs; `MembersArePrepared` and `TaskHoldsMembers`
  keep a task of an old rotation from making members of a new one. `CutoverSafety`
  rests on the coverage checks of prune and abort, not on the list of members.
  `KeyRingRefinement` sums it up: the three rows, the writers with stale keys and the
  tasks implement a ring of keys under which a source is lost only by an erasure or, while
  one key is in force, because its email is gone at the provider; `RingStep` maps every
  action to a step of the ring. `DualPhaseLosesNobody` follows: from a preparation to its
  prune or roll back, only an erasure takes a source out of matching.
* `SnapshotsProofs`: `PagesAreHeld` is what makes a publication whole: a run under way
  holds every page before its checkpoint, but for erased subjects, whichever attempt
  stored them. `ReadsAreWhole` and `ObservedIsKnown` say that every profile of a page was
  read with an address and that the addresses read with are remembered, so an erasure
  by any address ever seen finds the profile. `ShelfRefinement` is the reader's view:
  attempts, leases, pages and addresses come down to four steps of `SnapshotShelf`, a
  run opened, failed or published and profiles gone, or to stutters. A publication may
  remove profiles in the same step, there as in the code.
* `MatchingProofs`: `ConclusionsAgree` and `CurrentnessAgrees` are inductive together, for
  any windows, links and orders of publication. The argument is that a publication
  retires both ends of whatever it takes (`RetiredEvents`, `RetiredOrders`), and that an
  erasure retires every order that weighed the event. The first candidate by row is
  well defined because rows are numbered by naturals (`FirstByIdIsIn`).
* `ClaimReplayProofs`: `ReplayLeavesMatching` is a refinement: forgetting the replay's
  variables, the composition is `Matching` again, so its theorems carry over. The
  replay's own invariant says that its walk leaves no conversion behind (`HasAsked`),
  that what is fetched is the content as it is unless it was edited on the way
  (`IsFetched`), and that counts once carried keep up with the claims of every conversion
  not edited on the way (`HasCarried`): an edit that is taken back makes an older
  state cover its conversion again, under claims of the other content. `ReplayMovesForward`
  (with `WalkInv`, what is attempted lies ahead of the cursor) says that a graph never goes
  back to an earlier phase or conversion, never chooses a conversion twice in a phase
  and never regains a retry, even when it is rebound to another match run on the way;
  with bounded retries this is why a replay comes to its end. `ReplayStrandsOnErasure` is the
  exception: once the conversion being attempted is erased between two batches, the graph
  never fetches and never succeeds again, and only a later start or a run
  without conversions ends it.
* `MetaSyncProofs`: page 2 is asked for only after page 1 was written, whichever call
  wrote it (`CallAgrees`, `JobAgrees`), which makes late records harmless; and what is
  behind a job without failures is covered day by day (`IsCovered`), so that a breakdown
  starts with every ad stored that a base report of its days names, but for deleted ones,
  and cannot drop a row of one (`IsSafe`). `SyncSuccessIsFinal`:
  polls and late calls update a report by its id alone, yet none marks an imported one
  failed; the invariant `PollIsFresh` says that the report a job polls is known to no
  call. It takes Meta's verdict as final: a report it has called ready is not called
  failed later.
* `RetentionProofs`: whatever was deleted is before the window of today and of the sweep
  under way (`ExpiredAreBefore`); windows only move forward, and a month starts no later
  than any of its days, so for every later roll-up the month is frozen.

What a missing guard costs. Four statements of the documents are refuted by runs and a
fifth by the model of retention (see below). For each there is a theorem of the form
`Spec /\ [][Guarded]_vars => []Statement`: of the behaviours of the code, those that take
the action in question only when the one guard holds keep the statement, whatever
else they do. A guard with one place in the code is thus the whole cause of the
disagreement, and a fix there is enough for every interleaving; that of the last row has
five places, and each of them needs it:

| Theorem | The guard | The statement |
|---|---|---|
| `BoundApprovalsAreProbed` | a review approves a report only if it sampled the enabled binding | `ReadyBindingWasProbed` |
| `LiveCommitsAreAuthorized` | a member is committed only while the rotation of its task lives | `DigestsAreAuthorized` |
| `NarrowedSuppressionsAreErasures` | a member is suppressed only if its own customer was erased | `SuppressedWereErased` |
| `BoundPrunesKeepKeysInForce` | a prune takes only a match run published under the new key | `ResultsUseKeysInForce` |
| `CheckedWritesLockMonths` | every writer, import or user call, writes only days that are still retained | `EveryMonthIsLocked` |

`LiveCommitsAreAuthorized` needs that the environment and the keys of a task follow a live
rotation (`EnvFollowsRotation`, `TaskFollowsRotation`), `BoundPrunesKeepKeysInForce` that the
match runs a live rotation found are of its previous key as long as they are current
(`ResultsFollowRotation`). And one theorem bounds the damage of the code as it is:
`UnprobedRunsFindNoAlias` says that while a connection is ready with a binding no passed
report sampled, its event runs find no alias, so that pages are stored without
normalization, never with another integration's.

Only model-checked: `EveryRunEnds`, `ChainCarriesRun`, `AbandonedRunIsReaped` and
`ExpiredRowsGo` (liveness is out of the prover's reach), and that the code as it is
violates the four statements. Every other property of a passing run is a theorem.
Proved and in no run, because each run already checks what its component promises first:
`ReplayMovesForward`, `ReplayStrandsOnErasure`, `SyncSuccessIsFinal`, `DualPhaseLosesNobody`,
`UnprobedRunsFindNoAlias` and `CheckedWritesLockMonths`.

## Disagreements between code and documents

Each is a statement that TLC refutes in a run of its own, quoted in `findings`.

* `ReadyBindingWasProbed`: after a rebinding, a report sampled from the *old*
  metrics can still be passed and makes the connection ready; the rebinding's own
  message says a new probe is needed.
* `SuppressedWereErased`: the rotation batch looks for *any* email tombstone of the
  store, so after one erasure it suppresses every member it fetches. The prune's
  coverage check then stops the rotation.
* `DigestsAreAuthorized`: the batch asks that the gate is dual, not that it is its
  rotation's pair as the comment says; a task of an aborted rotation writes a
  retired version under the next one.
* `ResultsUseKeysInForce`: the prune accepts any current match run, not one "bound
  to the rotation attempt"; results under the retired key stay current.

## Observations

Behaviour the models made visible that no text of the repository rules out, or that none
of the runs above is about:

* **Retention, midnight.** An import drops expired days by the clock and commits later
  (`meta-import.ts:139`); `create`, `bulkCreate` and `update` of the performance log
  (`performance-log.ts:226-293`) and `ad.bulkImport` check and write likewise. If a sweep of
  the next day rolls up between the two, it deletes the written day although the month may
  have no summary yet, against the comment at `execute.ts:45` that every month is locked
  first. It takes a month that had no other rows when the sweep rolled up;
  `EveryMonthIsLocked` states it.
* **Retention, frozen months.** A row imported for a month whose summary is already frozen is
  deleted when it expires and never summed (`rollup.ts:99`); the summary is right for
  what was there when the month froze.
* **Claims, start.** Asked for another run than the bound one, a start moves the live
  graph to the newest run even if the bound one still has conversions, although the
  comment at `claim-repository.ts:153-158` reserves a move for when it has none. The
  conversions left behind are asked by the next graph.
* **Claims, erasure.** If the conversion being attempted is erased between two batches,
  selection and recovery both throw, and the graph stays running until a later start
  finds its lease expired (`ErasedAttemptStrands`).
* **Claims, gate.** A graph whose only selection finds the gate closed can end in
  success without having carried counts; `SuccessIsCovered` speaks of counts only when
  the last batch carried them.
* **Matching.** An older invocation that waited can publish after a newer one; its results then
  count as current until the next publication. `ConclusionsAgree` holds all the same.
* **Claims, edits taken back.** A conversion covered with one content, edited, asked again
  and edited back is covered by its old state and not asked again, while the claims stored
  are those of the edit in between (`claim-repository.ts:470-483`).
* **Snapshots, abandoned runs.** Of a scope that is not prepared again, see the fairness
  above, an abandoned run is never failed.
* **Meta, late ads.** The breakdown rows of an ad that starts delivering after the base
  report are dropped without a trace (`meta-import.ts:461`), and so are those of one that is
  new since a base report skipped as fresh (`meta-sync.ts:450`); the job reports no failure.
* **Meta, fresh reports.** A breakdown skipped as fresh keeps the rows an earlier job dropped
  lost (`meta-sync.ts:450`).

## What is not modelled

Contents of events, orders and creatives, and how they are normalized, scored or
rendered; provider clients, credentials and authentication; read-only queries and
the user interface; the components the table above names and `PROJECT.json` lists
as not modelled: Shopify evidence as a run of its own, dimensions and reports, the
supervisor's stage chain, Google Ads, Image Studio.

Of the modelled components: the 90-day checks of event windows, the observation
checksum of a page, two clocks that disagree, the journey mode's own availability, the
key registry, profile aliases, the uninstall, and the start of a transaction as opposed
to its commit (`abort` compares creation times of rows); product status, product links
and the evaluation of join rules in matching, among them that a product conclusion
drawn from an erased Ordered Product event is not superseded; several snapshot
definitions that share contents; the steps of the Meta task after the import, and its
schedule over several organizations; breakdown rows, multi-day rows and evidence tables
in retention, which are deleted without a roll-up. Starts of event runs are refused
while a rotation is live; the guard is modelled, and that this may be unwanted is
noted under `hazards`.

No module declares a recursive operator, so every one can be proved about.

## Plan

Done: everything in the table of modules, the proof of every safety property that is
checked, and the refinements of `RunLedger`, `KeyRing` and `SnapshotShelf`. Among the proofs,
a ledger of conclusions that `Matching` implements, and one of retained days for `Retention`,
would complete the abstract specifications. Beyond them, what would come next, in this order:

1. `ShopifyEvidence`: the evidence run chain, order commits, and replacement of
   line sets; does it implement `RunLedger` with orders for pages? It would replace the
   evidence actions of `IdentityRotation`.
2. `OperationRuns` (dimensions, reports) and `IncrementalSupervisor`: the stage chain
   over the components as black boxes with the promises shown for them.
3. `GoogleAdsSync`: abandonment and windows, beside `MetaSync`.
4. `StudioGeneration`: status against retries.

## How to run

`tlasany M.tla` parses a module, `tlc -config X.cfg M` checks a configuration with
the module `PROJECT.json` names for it, and `tlapm M.tla` checks the proofs of a
module. With two workers the largest runs take two to three minutes each:
`MetaSync` has 5.3 million states, `IdentityRotation` 4.4 million, `ClaimReplay` 2.5
million; `EventSync`, `Snapshots` and `Retention` are smaller and spend their time on
liveness. The
longest proofs, `ClaimReplayProofs` and `EventSyncProofs`, take some minutes from nothing.
