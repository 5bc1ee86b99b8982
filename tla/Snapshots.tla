------------------------------ MODULE Snapshots ------------------------------
(***************************************************************************)
(* Klaviyo snapshots: collections of one dataset (events) in one scope,    *)
(* staged page by page under a lease and published at once.  Task attempts *)
(* crash, or live on after the platform has replaced them; leases expire;  *)
(* the definition is reconfigured; and subjects are erased while pages of  *)
(* theirs are in flight.                                                   *)
(***************************************************************************)
EXTENDS Integers, FiniteSets

CONSTANTS
  MaxRuns,       \* bound: rows of klaviyo_snapshot_run
  MaxWorkers,    \* bound: task attempts, over all runs
  LastPage,      \* pages the provider has for this scope
  PageEvents,    \* the events of each page; pages may overlap
  ProfileOf,     \* the profile of each event
  Emails,        \* addresses a profile can have
  BatchPages,    \* KLAVIYO_SNAPSHOT_MAX_PAGES_PER_BATCH
  MaxAttempts,   \* maxAttempts of KLAVIYO_TASK_RETRY
  MaxFailures,   \* transient failures in a row that end a collection
  MaxVersion     \* bound: versions of the definition

Pages == 1..LastPage
Events == UNION {PageEvents[n] : n \in Pages}
Profiles == {ProfileOf[e] : e \in Events}
Runs == 1..MaxRuns
Workers == 1..MaxWorkers
NoWorker == 0

ASSUME SnapshotsAssumption ==
  /\ MaxRuns \in Nat /\ MaxWorkers \in Nat /\ LastPage \in Nat \ {0} /\ BatchPages \in Nat \ {0}
  /\ MaxAttempts \in Nat \ {0} /\ MaxFailures \in Nat \ {0} /\ MaxVersion \in Nat \ {0}
  /\ IsFiniteSet(Events)

VARIABLES
  version,   \* configurationVersion of the definition
  run,       \* klaviyo_snapshot_run, numbered in the order of startedAt
  records,   \* klaviyo_snapshot_record: the events each run holds
  contents,  \* klaviyo_snapshot_content: events whose payload is stored
  assoc,     \* klaviyo_snapshot_profile_suppression: <<profile, email>>
  erased,    \* identity_erasure_suppression: emails and profiles
  mail,      \* the address the provider gives each profile now
  observed,  \* ghost: the <<profile, email>> pairs the records held were read with
  worker     \* the attempts of klaviyo-snapshots

store == <<records, contents, assoc, erased, observed>>
vars == <<version, run, records, contents, assoc, erased, mail, observed, worker>>

NoRun == [state |-> "none", version |-> 0, owner |-> NoWorker, token |-> NoWorker,
          stale |-> FALSE, page |-> 0, current |-> FALSE, count |-> 0]

\* An attempt: its task (owner is the first attempt's number), whether the
\* platform has replaced it, and what the batch in progress remembers.
Resting == [pc |-> "idle", run |-> 0, owner |-> NoWorker, cut |-> FALSE,
            page |-> 0, left |-> 0, failures |-> 0, seen |-> {}]

Init ==
  /\ version = 1
  /\ run = [r \in Runs |-> NoRun]
  /\ records = [r \in Runs |-> {}]
  /\ contents = {}
  /\ assoc = {}
  /\ erased = [emails |-> {}, profiles |-> {}]
  /\ mail \in [Profiles -> Emails]
  /\ observed = {}
  /\ worker = [w \in Workers |-> Resting]

Running(r) == run[r].state = "running"

\* The lease token is a fresh UUID of the last attempt that claimed the run:
\* only that attempt knows it.
Holds(w) == Running(worker[w].run) /\ run[worker[w].run].token = w

\* The run was made for a configuration that is no longer the definition's;
\* version 0 is a one-off scope.
Superseded(r) == run[r].version \notin {0, version}

\* Nothing reads the lease or the checkpoint of a run that is over.
Ended(row, state) == [NoRun EXCEPT !.state = state, !.count = row.count]
Failed(r) == [run EXCEPT ![r] = Ended(@, "failed")]

At(w, pc) == [worker EXCEPT ![w].pc = pc]

\* An attempt that is over remembers nothing but whose it was.
Over(w, pc) == [worker EXCEPT ![w] =
  [Resting EXCEPT !.pc = pc, !.run = worker[w].run, !.owner = worker[w].owner,
                  !.cut = worker[w].cut]]

-----------------------------------------------------------------------------
(* The definition, and the runs of its scope.                               *)

Configure ==
  /\ version < MaxVersion
  /\ version' = version + 1
  /\ UNCHANGED <<run, store, mail, worker>>

\* A live run of the scope is reused, unless the definition has changed.
ReusableForEver(q) == Running(q)
Reusable(q) == Running(q) /\ ~run[q].stale /\ ~Superseded(q)

\* Mutants of Reaped: the expired run stays; the published one goes too.
ReapedNever(q) == run[q]
ReapedAll(q) == IF run[q].state # "none" THEN Ended(run[q], "failed") ELSE run[q]
Reaped(q) == IF Running(q) THEN Ended(run[q], "failed") ELSE run[q]

\* A row is made when there is none to reuse; a run whose lease expired, or which
\* is superseded, fails first.  The daily preparation makes a
\* row in fewer cases: not twice for one occurrence, nor over a fresh snapshot.
Prepare(r, v) ==
  /\ run[r].state = "none" /\ \A q \in 1..(r - 1) : run[q].state # "none"
  /\ v \in {0, version}
  /\ \A q \in Runs : ~Reusable(q)
  /\ run' = [q \in Runs |->
       IF q = r THEN [NoRun EXCEPT !.state = "running", !.version = v]
       ELSE Reaped(q)]
  /\ UNCHANGED <<version, store, mail, worker>>

\* Twenty minutes without a heartbeat.
LeaseExpires(r) ==
  /\ Running(r) /\ ~run[r].stale
  /\ run' = [run EXCEPT ![r].stale = TRUE]
  /\ UNCHANGED <<version, store, mail, worker>>

-----------------------------------------------------------------------------
(* The platform: tasks, their attempts, and what becomes of them.           *)

Attempts(o) == {w \in Workers : worker[w].owner = o}

\* Attempts are numbered in the order they start.
NextIdle(w) == worker[w].pc = "idle" /\ \A u \in 1..(w - 1) : worker[u].pc # "idle"

\* The handoff key is global: a second task starts only after the first failed.
Dispatch(w, r) ==
  /\ NextIdle(w) /\ Running(r)
  /\ \A u \in Workers : worker[u].run = r =>
       \E x \in Attempts(worker[u].owner) : worker[x].pc = "failed"
  /\ worker' = [worker EXCEPT ![w] = [Resting EXCEPT !.pc = "claim", !.run = r, !.owner = w]]
  /\ UNCHANGED <<version, run, store, mail>>

Active(w) == worker[w].pc \in {"claim", "load", "page", "commit", "publish"}

\* The process dies, or throws what the platform retries.
Crash(w) ==
  /\ Active(w)
  /\ worker' = Over(w, "dead")
  /\ UNCHANGED <<version, run, store, mail>>

\* The next attempt of a task has the task's id.  The attempt it replaces has
\* crashed, or is alive and cut off from the platform.
NextAttempt(w, u) ==
  /\ NextIdle(w)
  /\ (Active(u) \/ worker[u].pc = "dead") /\ ~worker[u].cut
  /\ Cardinality(Attempts(worker[u].owner)) < MaxAttempts
  /\ worker' = [worker EXCEPT ![u].cut = TRUE, ![w] =
       [Resting EXCEPT !.pc = "claim", !.run = worker[u].run, !.owner = worker[u].owner]]
  /\ UNCHANGED <<version, run, store, mail>>

\* onFailure, after the last attempt.  It reads the token and fails the run with
\* it in a second transaction: an attempt that was cut off can claim in between.
Finalize(w) ==
  /\ worker[w].pc = "dead" /\ ~worker[w].cut
  /\ Cardinality(Attempts(worker[w].owner)) = MaxAttempts
  /\ \/ /\ Running(worker[w].run) /\ run[worker[w].run].owner = worker[w].owner
        /\ run' = Failed(worker[w].run)
     \/ /\ \/ ~Running(worker[w].run)
           \/ run[worker[w].run].owner # worker[w].owner
           \/ \E u \in Attempts(worker[w].owner) : Active(u)
        /\ run' = run
  /\ worker' = Over(w, "failed")
  /\ UNCHANGED <<version, store, mail>>

-----------------------------------------------------------------------------
(* collectSnapshot and processSnapshotBatch, one attempt at a time.         *)

\* Before every batch.  The owner takes its run back at any time; another
\* task only when the lease has expired.
Claim(w) ==
  LET r == worker[w].run
      mine == run[r].owner \in {NoWorker, worker[w].owner}
  IN
  /\ worker[w].pc = "claim"
  /\ IF Running(r) /\ (mine \/ run[r].stale)
     THEN /\ run' = [run EXCEPT ![r].owner = worker[w].owner, ![r].token = w, ![r].stale = FALSE]
          /\ worker' = At(w, "load")
     ELSE /\ run' = run
          /\ worker' = Over(w, "done")
  /\ UNCHANGED <<version, store, mail>>

\* Six hours after it started a run is failed by the next claim.
Overdue(w) ==
  /\ worker[w].pc = "claim" /\ Running(worker[w].run)
  /\ run' = Failed(worker[w].run)
  /\ worker' = Over(w, "done")
  /\ UNCHANGED <<version, store, mail>>

\* The run is read outside any transaction; the batch goes on from its page.
Load(w) ==
  /\ worker[w].pc = "load"
  /\ worker' =
       IF Holds(w)
       THEN [worker EXCEPT ![w].pc = "page", ![w].page = run[worker[w].run].page,
                           ![w].left = BatchPages]
       ELSE Over(w, "done")
  /\ UNCHANGED <<version, run, store, mail>>

BatchEnds(w) ==
  /\ worker[w].pc = "page" /\ worker[w].left = 0
  /\ worker' = [worker EXCEPT ![w].pc = "claim", ![w].failures = 0, ![w].page = 0]
  /\ UNCHANGED <<version, run, store, mail>>

\* A page of events, each with the address its profile has now; past the last
\* page there is only the publication.
Read(w) ==
  LET n == worker[w].page + 1 IN
  /\ worker[w].pc = "page" /\ worker[w].left > 0
  /\ worker' =
       IF worker[w].page = LastPage THEN At(w, "publish")
       ELSE [worker EXCEPT ![w].pc = "commit",
               ![w].seen = {<<p, mail[p]>> : p \in {ProfileOf[e] : e \in PageEvents[n]}}]
  /\ UNCHANGED <<version, run, store, mail>>

GivesUpLate(w) == worker[w].failures >= MaxFailures
GivesUp(w) == worker[w].failures + 1 >= MaxFailures

\* A throttled or unavailable provider.  The wait renews the lease; the third
\* failure in a row fails the run, if its lease is still this task's.
Transient(w) ==
  LET r == worker[w].run IN
  /\ worker[w].pc = "page" /\ worker[w].left > 0
  /\ IF ~GivesUp(w)
     THEN /\ worker' = [worker EXCEPT ![w].pc = "claim", ![w].page = 0, ![w].left = 0,
                                      ![w].failures = @ + 1]
          /\ run' = run
     ELSE /\ worker' = Over(w, "done")
          /\ run' = IF Running(r) /\ run[r].owner = worker[w].owner THEN Failed(r) ELSE run
  /\ UNCHANGED <<version, store, mail>>

\* Any other error: a page that contradicts itself or an earlier one, a changed
\* binding, a key the gate does not agree with, a lease lost or expired.
Refuse(w) ==
  /\ worker[w].pc \in {"load", "page", "commit", "publish"}
  /\ run' = IF Holds(w) THEN Failed(worker[w].run) ELSE run
  /\ worker' = Over(w, "done")
  /\ UNCHANGED <<version, store, mail>>

-----------------------------------------------------------------------------
(* Pages, publication and erasure, each one transaction under the store     *)
(* lock.                                                                    *)

OfProfiles(gone) == {e \in Events : ProfileOf[e] \in gone}

\* findSuppressedSnapshotProfiles: profiles that have a tombstone, or were ever
\* seen with an address that has one.
Suppressed(profiles) ==
  {p \in profiles : \/ p \in erased.profiles
                    \/ \E a \in erased.emails : <<p, a>> \in assoc}

\* Mutant of Kept: a published snapshot is taken for immutable.
KeptUnlessPublished(gone) == [r \in Runs |->
  IF run[r].state = "published" THEN records[r] ELSE records[r] \ OfProfiles(gone)]

\* eraseSnapshotProfileEvidence: gone leaves every run of the connection.
Kept(gone) == [r \in Runs |-> records[r] \ OfProfiles(gone)]
KeptPairs(pairs, gone) == {pair \in pairs : pair[1] \notin gone}
RecountedNever(rows, kept) == rows
Recounted(rows, kept) == [r \in Runs |->
  IF kept[r] = records[r] THEN rows[r] ELSE [rows[r] EXCEPT !.count = Cardinality(kept[r])]]

\* The profiles that are gone get tombstones of their own.
ForgottenProfiles(gone) == erased
WithTombstones(gone) == [erased EXCEPT !.profiles = @ \cup gone]

\* Every address a profile was ever read with is remembered.
LatestAddress(seen) == seen \cup {pair \in assoc : pair[1] \notin {q[1] : q \in seen}}
EveryAddress(seen) == assoc \cup seen

\* Rows of suppressed subjects are dropped with everything already held of them;
\* the others are stored with the address they were read with.
Commit(w) ==
  LET r == worker[w].run
      n == worker[w].page + 1
      seen == worker[w].seen
      profiles == {pair[1] : pair \in seen}
      gone == Suppressed(profiles) \cup {pair[1] : pair \in {q \in seen : q[2] \in erased.emails}}
      fresh == PageEvents[n] \ OfProfiles(gone)
      kept == Kept(gone)
      rows == Recounted(run, kept)
  IN
  /\ worker[w].pc = "commit" /\ Holds(w) /\ ~run[r].stale
  /\ run[r].page = worker[w].page
  /\ erased' = WithTombstones(gone)
  /\ records' = [kept EXCEPT ![r] = @ \cup fresh]
  /\ contents' = (contents \ OfProfiles(gone)) \cup fresh
  /\ assoc' = KeptPairs(EveryAddress(seen), gone)
  /\ observed' = KeptPairs(observed \cup seen, gone)
  /\ run' = [rows EXCEPT ![r].page = n, ![r].stale = FALSE,
                         ![r].count = @ + Cardinality(fresh \ kept[r])]
  /\ worker' = [worker EXCEPT ![w].pc = "page", ![w].page = n, ![w].left = @ - 1, ![w].seen = {}]
  /\ UNCHANGED <<version, mail>>

\* The one publication: subjects erased meanwhile are dropped, the current
\* snapshot gives way, and a superseded run fails instead.
Publish(w) ==
  LET r == worker[w].run
      gone == Suppressed({ProfileOf[e] : e \in records[r]})
      kept == Kept(gone)
      rows == Recounted(run, kept)
      late == Superseded(r) \/ \E q \in Runs : q > r /\ run[q].current
  IN
  /\ worker[w].pc = "publish" /\ Holds(w) /\ ~run[r].stale
  /\ run[r].page = LastPage
  /\ worker' = Over(w, "done")
  /\ IF late THEN /\ run' = Failed(r)
                  /\ UNCHANGED <<records, contents, assoc, observed, erased>>
     ELSE /\ erased' = WithTombstones(gone)
          /\ records' = kept
          /\ contents' = contents \ OfProfiles(gone)
          /\ assoc' = KeptPairs(assoc, gone)
          /\ observed' = KeptPairs(observed, gone)
          /\ run' = [q \in Runs |->
               IF q = r THEN [Ended(rows[r], "published") EXCEPT
                                !.current = TRUE, !.count = Cardinality(kept[r])]
               ELSE [rows[q] EXCEPT !.current = FALSE]]
  /\ UNCHANGED <<version, mail>>

\* A privacy request for one address: every profile seen with it goes.
Erase(a) ==
  LET gone == {p \in Profiles : <<p, a>> \in assoc}
      kept == Kept(gone)
  IN
  /\ a \notin erased.emails
  /\ erased' = [WithTombstones(gone) EXCEPT !.emails = @ \cup {a}]
  /\ records' = kept
  /\ contents' = contents \ OfProfiles(gone)
  /\ assoc' = KeptPairs(assoc, gone)
  /\ observed' = KeptPairs(observed, gone)
  /\ run' = Recounted(run, kept)
  /\ UNCHANGED <<version, mail, worker>>

\* The provider's own change of a profile's address.
ChangeMail(p, a) ==
  /\ mail[p] # a
  /\ mail' = [mail EXCEPT ![p] = a]
  /\ UNCHANGED <<version, run, store, worker>>

-----------------------------------------------------------------------------
Step(w) == \/ Claim(w) \/ Overdue(w) \/ Load(w) \/ BatchEnds(w) \/ Read(w) \/ Transient(w)
           \/ Refuse(w) \/ Commit(w) \/ Publish(w)

Next ==
  \/ Configure
  \/ \E r \in Runs : \/ LeaseExpires(r)
                     \/ \E v \in 0..MaxVersion : Prepare(r, v)
                     \/ \E w \in Workers : Dispatch(w, r)
  \/ \E w \in Workers : \/ Step(w) \/ Crash(w) \/ Finalize(w)
                        \/ \E u \in Workers : NextAttempt(w, u)
  \/ \E a \in Emails : \/ Erase(a)
                       \/ \E p \in Profiles : ChangeMail(p, a)

Spec == Init /\ [][Next]_vars

\* Attempts run or die, and dead ones are replaced or finalized: maxDuration and
\* the platform's retries.
FairSpec == Spec
  /\ \A w \in Workers : /\ WF_vars(Step(w) \/ Crash(w))
                        /\ WF_vars(Finalize(w))
  /\ \A r \in Runs : WF_vars(LeaseExpires(r))

-----------------------------------------------------------------------------
RunRows == [state : {"none", "running", "published", "failed"}, version : 0..MaxVersion,
            owner : {NoWorker} \cup Workers, token : {NoWorker} \cup Workers, stale : BOOLEAN,
            page : 0..LastPage, current : BOOLEAN, count : Nat]

AttemptRows == [pc : {"idle", "claim", "load", "page", "commit", "publish",
                      "dead", "failed", "done"},
                run : {0} \cup Runs, owner : {NoWorker} \cup Workers, cut : BOOLEAN,
                page : 0..LastPage, left : 0..BatchPages, failures : 0..(MaxFailures - 1),
                seen : SUBSET (Profiles \X Emails)]

TypeOK ==
  /\ version \in 1..MaxVersion
  /\ run \in [Runs -> RunRows]
  /\ records \in [Runs -> SUBSET Events]
  /\ contents \subseteq Events
  /\ assoc \subseteq Profiles \X Emails
  /\ erased \in [emails : SUBSET Emails, profiles : SUBSET Profiles]
  /\ mail \in [Profiles -> Emails]
  /\ observed \subseteq Profiles \X Emails
  /\ worker \in [Workers -> AttemptRows]

\* A published snapshot holds every event of the scope, whichever attempts
\* collected its pages and however often one was committed; only subjects with a
\* tombstone are missing (publishSnapshotRun's count is what readers trust).
PublishedIsWhole ==
  \A r \in Runs : run[r].state = "published" =>
    \A e \in Events : e \in records[r] \/ ProfileOf[e] \in erased.profiles

\* Nothing is held of an erased subject: no record or payload of a profile with a
\* tombstone, and none of a profile that was ever read with an erased address,
\* though the address changed between two pages or after publication.
ErasedSubjectsLeave ==
  /\ \A r \in Runs, e \in Events : e \in records[r] => ProfileOf[e] \notin erased.profiles
  /\ \A e \in contents : ProfileOf[e] \notin erased.profiles
  /\ \A pair \in observed : pair[2] \notin erased.emails

\* Counts, which pages adjust as increments and erasures recompute, agree with
\* the records held, and no record is left without its payload.
CountsAgree ==
  \A r \in Runs : run[r].count = Cardinality(records[r]) /\ records[r] \subseteq contents

\* The scope never has two runs under way or two current snapshots.
OneRunningOneCurrent ==
  \A r, q \in Runs : (Running(r) /\ Running(q)) \/ (run[r].current /\ run[q].current) => r = q

\* A scope that has a current snapshot keeps one, and a run that started before
\* the one readers see never takes its place.
CurrentMovesForward ==
  [][\A r \in Runs : run[r].current => \E q \in Runs : q >= r /\ run'[q].current]_vars

\* The daily schedule prepares this very scope again.  It does so for campaigns,
\* metrics and fixed windows; a rolling window ends at another moment every day
\* and so is another scope, and a one-off scope has no schedule.
ScopeRecurs == \A r \in Runs : WF_vars(Prepare(r, version))

\* A run nobody works on any more does not block a scope that recurs for ever: it
\* is finalized, failed by a claim, or reaped by the next preparation.  The last
\* run of the bound has no next preparation.
AbandonedRunIsReaped ==
  ScopeRecurs =>
    \A r \in Runs : run[r].state = "running" ~> (run[r].state # "running" \/ r = MaxRuns)

\* What readers see of a scope: the states of its runs, the current one, and the
\* records of those that were published.
Shown == {r \in Runs : run[r].current}
Held  == [r \in Runs |-> IF run[r].state = "published" THEN records[r] ELSE {}]

Shelf == INSTANCE SnapshotShelf WITH
  status <- [r \in Runs |-> run[r].state], shown <- Shown, held <- Held, gone <- erased.profiles

\* Collection, take-overs, crashes, reaping and erasure together keep the promise
\* of SnapshotShelf.
ImplementsShelf == Shelf!Spec
=============================================================================
