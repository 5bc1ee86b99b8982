--------------------------- MODULE SnapshotsProofs ---------------------------
(***************************************************************************)
(* What Snapshots keeps for every number of runs, attempts, pages, events, *)
(* profiles and addresses.                                                 *)
(***************************************************************************)
EXTENDS Snapshots, FiniteSetTheorems, TLAPS

\* An attempt that has started works on a run.
AttemptsHaveRuns == \A w \in Workers : worker[w].pc # "idle" => worker[w].run \in Runs

\* A page about to be stored exists, is within its batch, and was read with an
\* address for each of its profiles.
ReadsAreWhole ==
  \A w \in Workers : worker[w].pc = "commit" =>
    /\ worker[w].page < LastPage /\ worker[w].left > 0
    /\ \A e \in PageEvents[worker[w].page + 1] :
         \E a \in Emails : <<ProfileOf[e], a>> \in worker[w].seen

TypeInv == TypeOK /\ AttemptsHaveRuns /\ ReadsAreWhole

LEMMA InitType == Init => TypeInv
<1> SUFFICES ASSUME Init PROVE TypeInv
  OBVIOUS
<1> USE SnapshotsAssumption DEF Init
<1>1. Resting \in AttemptRows
  BY DEF Resting, NoWorker, AttemptRows
<1>2. NoRun \in RunRows
  BY DEF NoRun, NoWorker, RunRows
<1>3. TypeOK
  BY <1>1, <1>2 DEF TypeOK
<1>4. AttemptsHaveRuns
  BY DEF AttemptsHaveRuns, Resting
<1>5. ReadsAreWhole
  BY DEF ReadsAreWhole, Resting
<1>. QED
  BY <1>3, <1>4, <1>5 DEF TypeInv

(* A run that fails, or is reaped, keeps the shape of a run.                   *)
LEMMA EndedType ==
  ASSUME NEW row \in RunRows, NEW state \in {"published", "failed"}
  PROVE  /\ Ended(row, state) \in RunRows
         /\ Ended(row, state).state = state
         /\ Ended(row, state).current = FALSE
         /\ Ended(row, state).count = row.count
<1>1. row.count \in Nat
  BY DEF RunRows
<1>2. 0 \in 0..MaxVersion /\ 0 \in 0..LastPage
  BY SnapshotsAssumption
<1>3. Ended(row, state) \in RunRows
  BY <1>1, <1>2 DEF Ended, NoRun, RunRows, NoWorker
<1>4. Ended(row, state).state = state /\ Ended(row, state).current = FALSE
  BY DEF Ended, NoRun
<1>5. Ended(row, state).count = row.count
  BY DEF Ended, NoRun
<1>. QED
  BY <1>3, <1>4, <1>5

LEMMA FailedType ==
  ASSUME run \in [Runs -> RunRows], NEW r \in Runs
  PROVE  Failed(r) \in [Runs -> RunRows]
  BY EndedType DEF Failed

(* An attempt that ends keeps its run; one that goes on changes its place only. *)
LEMMA OverType ==
  ASSUME TypeInv, NEW w \in Workers, worker[w].pc # "idle",
         NEW pc \in {"dead", "failed", "done"}, worker' = Over(w, pc)
  PROVE  worker' \in [Workers -> AttemptRows] /\ AttemptsHaveRuns' /\ ReadsAreWhole'
<1>0. worker[w] \in AttemptRows
  BY DEF TypeInv, TypeOK
<1>a. /\ worker[w].run \in {0} \cup Runs /\ worker[w].owner \in {NoWorker} \cup Workers
      /\ worker[w].cut \in BOOLEAN
  BY <1>0 DEF AttemptRows
<1>b. 0 \in 0..LastPage /\ 0 \in 0..BatchPages /\ 0 \in 0..(MaxFailures - 1)
  BY SnapshotsAssumption
<1>1. [Resting EXCEPT !.pc = pc, !.run = worker[w].run, !.owner = worker[w].owner,
                      !.cut = worker[w].cut] \in AttemptRows
  BY <1>a, <1>b DEF Resting, AttemptRows
<1>2. worker' \in [Workers -> AttemptRows]
  BY <1>1 DEF Over, TypeInv, TypeOK
<1>3. AttemptsHaveRuns'
  BY DEF Over, TypeInv, TypeOK, AttemptsHaveRuns, AttemptRows, Resting
<1>4. ReadsAreWhole'
  BY DEF Over, TypeInv, TypeOK, ReadsAreWhole
<1>. QED
  BY <1>2, <1>3, <1>4

LEMMA AtType ==
  ASSUME TypeInv, NEW w \in Workers, worker[w].pc # "idle",
         NEW pc \in {"load", "publish"}, worker' = At(w, pc)
  PROVE  worker' \in [Workers -> AttemptRows] /\ AttemptsHaveRuns' /\ ReadsAreWhole'
<1>1. worker' \in [Workers -> AttemptRows] /\ AttemptsHaveRuns'
  BY DEF At, TypeInv, TypeOK, AttemptsHaveRuns, AttemptRows
<1>2. \A u \in Workers : worker'[u].pc = "commit" => u # w /\ worker'[u] = worker[u]
  BY DEF At, TypeInv, TypeOK, AttemptRows
<1>3. ReadsAreWhole'
  BY <1>2 DEF TypeInv, ReadsAreWhole
<1>. QED
  BY <1>1, <1>3

(* What a purge leaves is of the right shape.                                  *)
LEMMA PurgeType ==
  ASSUME TypeOK, NEW gone
  PROVE  /\ Kept(gone) \in [Runs -> SUBSET Events]
         /\ contents \ OfProfiles(gone) \subseteq Events
         /\ Recounted(run, Kept(gone)) \in [Runs -> RunRows]
         /\ \A r \in Runs : /\ Recounted(run, Kept(gone))[r].state = run[r].state
                            /\ Recounted(run, Kept(gone))[r].current = run[r].current
                            /\ Recounted(run, Kept(gone))[r].page = run[r].page
                            /\ Recounted(run, Kept(gone))[r].version = run[r].version
         /\ gone \subseteq Profiles =>
              WithTombstones(gone) \in [emails : SUBSET Emails, profiles : SUBSET Profiles]
<1>1. Kept(gone) \in [Runs -> SUBSET Events]
  BY DEF TypeOK, Kept
<1>2. \A r \in Runs : IsFiniteSet(Kept(gone)[r])
  BY <1>1, SnapshotsAssumption, FS_Subset
<1>3. \A r \in Runs : Cardinality(Kept(gone)[r]) \in Nat
  BY <1>2, FS_CardinalityType
<1>4. Recounted(run, Kept(gone)) \in [Runs -> RunRows]
  BY <1>3 DEF TypeOK, Recounted, RunRows
<1>5. \A r \in Runs : /\ Recounted(run, Kept(gone))[r].state = run[r].state
                      /\ Recounted(run, Kept(gone))[r].current = run[r].current
                      /\ Recounted(run, Kept(gone))[r].page = run[r].page
                      /\ Recounted(run, Kept(gone))[r].version = run[r].version
  BY DEF TypeOK, Recounted, RunRows
<1>6. gone \subseteq Profiles =>
        WithTombstones(gone) \in [emails : SUBSET Emails, profiles : SUBSET Profiles]
  BY DEF TypeOK, WithTombstones
<1>. QED
  BY <1>1, <1>4, <1>5, <1>6 DEF TypeOK

(* A commit takes a page that exists, from an attempt that read it.            *)
LEMMA CommitType ==
  ASSUME TypeInv, NEW w \in Workers, Commit(w)
  PROVE  TypeInv'
<1> DEFINE r == worker[w].run
           n == worker[w].page + 1
           seen == worker[w].seen
           gone == Suppressed({pair[1] : pair \in seen}) \cup
                     {pair[1] : pair \in {q \in seen : q[2] \in erased.emails}}
           fresh == PageEvents[n] \ OfProfiles(gone)
           kept == Kept(gone)
           rows == Recounted(run, kept)
<1> USE SnapshotsAssumption
<1>1. /\ worker[w] \in AttemptRows /\ r \in Runs /\ run[r] \in RunRows
      /\ worker[w].pc = "commit" /\ run[r].page = worker[w].page
  BY DEF TypeInv, TypeOK, AttemptsHaveRuns, Commit
<1>2. seen \subseteq Profiles \X Emails /\ gone \subseteq Profiles
  BY <1>1 DEF AttemptRows, Suppressed
<1>3. n \in 1..LastPage /\ worker[w].left - 1 \in 0..BatchPages
  BY <1>1 DEF TypeInv, ReadsAreWhole, AttemptRows
<1>4. fresh \subseteq Events
  BY <1>3 DEF Events, Pages
<1> HIDE DEF gone, fresh, rows, kept, n
<1>5. /\ kept \in [Runs -> SUBSET Events] /\ contents \ OfProfiles(gone) \subseteq Events
      /\ rows \in [Runs -> RunRows]
      /\ WithTombstones(gone) \in [emails : SUBSET Emails, profiles : SUBSET Profiles]
  BY <1>2, PurgeType DEF TypeInv, kept, rows
<1>6. /\ erased' = WithTombstones(gone)
      /\ records' = [kept EXCEPT ![r] = @ \cup fresh]
      /\ contents' = (contents \ OfProfiles(gone)) \cup fresh
      /\ assoc' = KeptPairs(EveryAddress(seen), gone)
      /\ observed' = KeptPairs(observed \cup seen, gone)
      /\ run' = [rows EXCEPT ![r].page = n, ![r].stale = FALSE,
                             ![r].count = @ + Cardinality(fresh \ kept[r])]
      /\ worker' = [worker EXCEPT ![w].pc = "page", ![w].page = n, ![w].left = @ - 1,
                                  ![w].seen = {}]
      /\ UNCHANGED <<version, mail>>
  BY DEF Commit, gone, fresh, kept, rows, n
<1>7. Cardinality(fresh \ kept[r]) \in Nat
  BY <1>4, FS_Subset, FS_CardinalityType
<1>8. run' \in [Runs -> RunRows]
  <2>1. rows[r] \in RunRows
    BY <1>1, <1>5
  <2>a. rows[r].count + Cardinality(fresh \ kept[r]) \in Nat /\ n \in 0..LastPage
    BY <2>1, <1>3, <1>7 DEF RunRows
  <2>2. [rows[r] EXCEPT !.page = n, !.stale = FALSE,
                        !.count = @ + Cardinality(fresh \ kept[r])] \in RunRows
    BY <2>1, <2>a DEF RunRows
  <2>. QED
    BY <2>2, <1>5, <1>6
<1>9. worker' \in [Workers -> AttemptRows]
  <2>1. [worker[w] EXCEPT !.pc = "page", !.page = n, !.left = @ - 1, !.seen = {}] \in AttemptRows
    <3>1. n \in 0..LastPage /\ "page" \in {"page"} /\ {} \in SUBSET (Profiles \X Emails)
      BY <1>3
    <3>. QED
      BY <3>1, <1>1, <1>3 DEF AttemptRows
  <2>. QED
    BY <2>1, <1>6 DEF TypeInv, TypeOK
<1>10. TypeOK'
  <2>1. assoc' \subseteq Profiles \X Emails /\ observed' \subseteq Profiles \X Emails
    BY <1>2, <1>6 DEF KeptPairs, EveryAddress, TypeInv, TypeOK
  <2>2. records' \in [Runs -> SUBSET Events] /\ contents' \subseteq Events
    BY <1>4, <1>5, <1>6
  <2>. QED
    BY <2>1, <2>2, <1>5, <1>6, <1>8, <1>9 DEF TypeInv, TypeOK
<1>11. AttemptsHaveRuns'
  BY <1>6 DEF TypeInv, TypeOK, AttemptsHaveRuns, AttemptRows
<1>12. ReadsAreWhole'
  BY <1>6 DEF TypeInv, TypeOK, ReadsAreWhole, AttemptRows
<1>. QED
  BY <1>10, <1>11, <1>12 DEF TypeInv

LEMMA PublishType ==
  ASSUME TypeInv, NEW w \in Workers, Publish(w)
  PROVE  TypeInv'
<1> DEFINE r == worker[w].run
           gone == Suppressed({ProfileOf[e] : e \in records[r]})
           kept == Kept(gone)
           rows == Recounted(run, kept)
           late == Superseded(r) \/ \E q \in Runs : q > r /\ run[q].current
<1> USE SnapshotsAssumption
<1>1. worker[w].pc = "publish" /\ r \in Runs /\ worker' = Over(w, "done")
  BY DEF TypeInv, AttemptsHaveRuns, Publish
<1>2. worker' \in [Workers -> AttemptRows] /\ AttemptsHaveRuns' /\ ReadsAreWhole'
  BY <1>1, OverType
<1>3. gone \subseteq Profiles
  BY <1>1 DEF Suppressed, Profiles, TypeInv, TypeOK
<1> HIDE DEF gone, rows, kept
<1>5. /\ kept \in [Runs -> SUBSET Events] /\ contents \ OfProfiles(gone) \subseteq Events
      /\ rows \in [Runs -> RunRows]
      /\ WithTombstones(gone) \in [emails : SUBSET Emails, profiles : SUBSET Profiles]
  BY <1>3, PurgeType DEF TypeInv, kept, rows
<1>6. CASE late
  <2>1. /\ run' = Failed(r)
        /\ UNCHANGED <<records, contents, assoc, observed, erased, version, mail>>
    BY <1>6 DEF Publish
  <2>2. run' \in [Runs -> RunRows]
    BY <1>1, <2>1, FailedType DEF TypeInv, TypeOK
  <2>. QED
    BY <2>1, <2>2, <1>2 DEF TypeInv, TypeOK
<1>7. CASE ~late
  <2>1. /\ erased' = WithTombstones(gone) /\ records' = kept
        /\ contents' = contents \ OfProfiles(gone)
        /\ assoc' = KeptPairs(assoc, gone) /\ observed' = KeptPairs(observed, gone)
        /\ run' = [q \in Runs |->
             IF q = r THEN [Ended(rows[r], "published") EXCEPT
                              !.current = TRUE, !.count = Cardinality(kept[r])]
             ELSE [rows[q] EXCEPT !.current = FALSE]]
        /\ UNCHANGED <<version, mail>>
    BY <1>7 DEF Publish, gone, kept, rows
  <2>2. Cardinality(kept[r]) \in Nat
    BY <1>1, <1>5, FS_Subset, FS_CardinalityType
  <2>3. [Ended(rows[r], "published") EXCEPT !.current = TRUE, !.count = Cardinality(kept[r])]
          \in RunRows
    <3>1. Ended(rows[r], "published") \in RunRows
      BY <1>1, <1>5, EndedType
    <3>. QED
      BY <3>1, <2>2 DEF RunRows
  <2>4. \A q \in Runs : [rows[q] EXCEPT !.current = FALSE] \in RunRows
    BY <1>5 DEF RunRows
  <2>5. run' \in [Runs -> RunRows]
    BY <2>1, <2>3, <2>4
  <2>6. assoc' \subseteq Profiles \X Emails /\ observed' \subseteq Profiles \X Emails
    BY <2>1 DEF KeptPairs, TypeInv, TypeOK
  <2>. QED
    BY <2>1, <2>5, <2>6, <1>2, <1>5 DEF TypeInv, TypeOK
<1>. QED
  BY <1>6, <1>7

LEMMA EraseType ==
  ASSUME TypeInv, NEW a \in Emails, Erase(a)
  PROVE  TypeInv'
<1> DEFINE gone == {p \in Profiles : <<p, a>> \in assoc}
           kept == Kept(gone)
<1>1. gone \subseteq Profiles
  OBVIOUS
<1> HIDE DEF gone, kept
<1>2. /\ kept \in [Runs -> SUBSET Events] /\ contents \ OfProfiles(gone) \subseteq Events
      /\ Recounted(run, kept) \in [Runs -> RunRows]
      /\ WithTombstones(gone) \in [emails : SUBSET Emails, profiles : SUBSET Profiles]
  BY <1>1, PurgeType DEF TypeInv, kept
<1>3. /\ erased' = [WithTombstones(gone) EXCEPT !.emails = @ \cup {a}]
      /\ records' = kept /\ contents' = contents \ OfProfiles(gone)
      /\ assoc' = KeptPairs(assoc, gone) /\ observed' = KeptPairs(observed, gone)
      /\ run' = Recounted(run, kept) /\ UNCHANGED <<version, mail, worker>>
  BY DEF Erase, gone, kept
<1>4. assoc' \subseteq Profiles \X Emails /\ observed' \subseteq Profiles \X Emails
  BY <1>3 DEF KeptPairs, TypeInv, TypeOK
<1>5. erased' \in [emails : SUBSET Emails, profiles : SUBSET Profiles]
  BY <1>2, <1>3
<1>. QED
  BY <1>2, <1>3, <1>4, <1>5 DEF TypeInv, TypeOK, AttemptsHaveRuns, ReadsAreWhole

(* A task's first attempt and the next ones start clean on a run.              *)
LEMMA StartType ==
  ASSUME TypeInv, NEW w \in Workers, NEW u \in Workers, NEW r \in Runs,
         NEW o \in {NoWorker} \cup Workers, NEW c \in BOOLEAN,
         u = w \/ worker[u].pc # "idle",
         worker' = [worker EXCEPT ![u].cut = c, ![w] =
                      [Resting EXCEPT !.pc = "claim", !.run = r, !.owner = o]]
  PROVE  worker' \in [Workers -> AttemptRows] /\ AttemptsHaveRuns' /\ ReadsAreWhole'
<1>a. 0 \in 0..LastPage /\ 0 \in 0..BatchPages /\ 0 \in 0..(MaxFailures - 1)
  BY SnapshotsAssumption
<1>1. [Resting EXCEPT !.pc = "claim", !.run = r, !.owner = o] \in AttemptRows
  BY <1>a DEF Resting, AttemptRows
<1>2. [worker[u] EXCEPT !.cut = c] \in AttemptRows
  BY DEF TypeInv, TypeOK, AttemptRows
<1>3. worker' \in [Workers -> AttemptRows]
  BY <1>1, <1>2 DEF TypeInv, TypeOK
<1>4. \A x \in Workers : x # w => /\ worker'[x].pc = worker[x].pc
                                  /\ worker'[x].run = worker[x].run
                                  /\ worker'[x].page = worker[x].page
                                  /\ worker'[x].left = worker[x].left
                                  /\ worker'[x].seen = worker[x].seen
  BY DEF TypeInv, TypeOK, AttemptRows
<1>5. worker'[w].pc = "claim" /\ worker'[w].run = r
  BY DEF TypeInv, TypeOK, Resting
<1>6. AttemptsHaveRuns'
  BY <1>4, <1>5 DEF TypeInv, AttemptsHaveRuns
<1>7. ReadsAreWhole'
  BY <1>4, <1>5 DEF TypeInv, ReadsAreWhole
<1>. QED
  BY <1>3, <1>6, <1>7

LEMMA StepType ==
  TypeInv /\ [Next]_vars => TypeInv'
<1> SUFFICES ASSUME TypeInv, [Next]_vars PROVE TypeInv'
  OBVIOUS
<1> USE SnapshotsAssumption
<1>1. CASE Configure
  BY <1>1 DEF Configure, store, TypeInv, TypeOK, AttemptsHaveRuns, ReadsAreWhole
<1>2. ASSUME NEW r \in Runs, LeaseExpires(r) PROVE TypeInv'
  <2>1. [run[r] EXCEPT !.stale = TRUE] \in RunRows
    BY DEF TypeInv, TypeOK, RunRows
  <2>2. run' \in [Runs -> RunRows]
    BY <1>2, <2>1 DEF LeaseExpires, TypeInv, TypeOK
  <2>. QED
    BY <1>2, <2>2 DEF LeaseExpires, store, TypeInv, TypeOK, AttemptsHaveRuns, ReadsAreWhole
<1>3. ASSUME NEW r \in Runs, NEW v \in 0..MaxVersion, Prepare(r, v) PROVE TypeInv'
  <2>1. [NoRun EXCEPT !.state = "running", !.version = v] \in RunRows
    <3>1. 0 \in 0..LastPage /\ 0 \in Nat
      OBVIOUS
    <3>. QED
      BY <3>1 DEF NoRun, RunRows, NoWorker
  <2>2. \A q \in Runs : Reaped(q) \in RunRows
    BY EndedType DEF Reaped, TypeInv, TypeOK
  <2>3. run' \in [Runs -> RunRows]
    BY <1>3, <2>1, <2>2 DEF Prepare
  <2>. QED
    BY <1>3, <2>3 DEF Prepare, store, TypeInv, TypeOK, AttemptsHaveRuns, ReadsAreWhole
<1>4. ASSUME NEW w \in Workers, NEW r \in Runs, Dispatch(w, r) PROVE TypeInv'
  <2>1. worker' = [worker EXCEPT ![w].cut = FALSE, ![w] =
                     [Resting EXCEPT !.pc = "claim", !.run = r, !.owner = w]]
    BY <1>4 DEF Dispatch, TypeInv, TypeOK
  <2>2. worker' \in [Workers -> AttemptRows] /\ AttemptsHaveRuns' /\ ReadsAreWhole'
    BY <2>1, StartType
  <2>. QED
    BY <1>4, <2>2 DEF Dispatch, store, TypeInv, TypeOK
<1>5. ASSUME NEW w \in Workers, Claim(w) PROVE TypeInv'
  <2>1. worker[w].pc # "idle" /\ worker[w].run \in Runs
    BY <1>5 DEF Claim, TypeInv, AttemptsHaveRuns
  <2>2. worker' \in [Workers -> AttemptRows] /\ AttemptsHaveRuns' /\ ReadsAreWhole'
    BY <1>5, <2>1, OverType, AtType DEF Claim
  <2>3. worker[w].owner \in {NoWorker} \cup Workers
    BY DEF TypeInv, TypeOK, AttemptRows
  <2>4. [run[worker[w].run] EXCEPT !.owner = worker[w].owner, !.token = w, !.stale = FALSE]
          \in RunRows
    <3>1. run[worker[w].run] \in RunRows
      BY <2>1 DEF TypeInv, TypeOK
    <3>. QED
      BY <3>1, <2>3 DEF RunRows
  <2>5. run' \in [Runs -> RunRows]
    BY <1>5, <2>4 DEF Claim, TypeInv, TypeOK
  <2>. QED
    BY <1>5, <2>2, <2>5 DEF Claim, store, TypeInv, TypeOK
<1>6. ASSUME NEW w \in Workers, Overdue(w) PROVE TypeInv'
  <2>1. worker[w].pc # "idle" /\ worker[w].run \in Runs
    BY <1>6 DEF Overdue, TypeInv, AttemptsHaveRuns
  <2>2. worker' \in [Workers -> AttemptRows] /\ AttemptsHaveRuns' /\ ReadsAreWhole'
    BY <1>6, <2>1, OverType DEF Overdue
  <2>3. run' \in [Runs -> RunRows]
    BY <1>6, <2>1, FailedType DEF Overdue, TypeInv, TypeOK
  <2>. QED
    BY <1>6, <2>2, <2>3 DEF Overdue, store, TypeInv, TypeOK
<1>7. ASSUME NEW w \in Workers, Load(w) PROVE TypeInv'
  <2>1. worker[w].pc = "load" /\ worker[w].run \in Runs
    BY <1>7 DEF Load, TypeInv, AttemptsHaveRuns
  <2>2. CASE Holds(w)
    <3>1. run[worker[w].run].page \in 0..LastPage /\ BatchPages \in 0..BatchPages
      BY <2>1 DEF TypeInv, TypeOK, RunRows
    <3>2. [worker[w] EXCEPT !.pc = "page", !.page = run[worker[w].run].page, !.left = BatchPages]
            \in AttemptRows
      <4>1. worker[w] \in AttemptRows
        BY DEF TypeInv, TypeOK
      <4>. QED
        BY <3>1, <4>1 DEF AttemptRows
    <3>3. worker' = [worker EXCEPT ![w].pc = "page", ![w].page = run[worker[w].run].page,
                                   ![w].left = BatchPages]
      BY <1>7, <2>2 DEF Load
    <3>4. worker' \in [Workers -> AttemptRows]
      BY <3>2, <3>3 DEF TypeInv, TypeOK
    <3>5. AttemptsHaveRuns' /\ ReadsAreWhole'
      BY <2>1, <3>3 DEF TypeInv, TypeOK, AttemptRows, AttemptsHaveRuns, ReadsAreWhole
    <3>. QED
      BY <1>7, <3>4, <3>5 DEF Load, store, TypeInv, TypeOK
  <2>3. CASE ~Holds(w)
    <3>1. worker' \in [Workers -> AttemptRows] /\ AttemptsHaveRuns' /\ ReadsAreWhole'
      BY <1>7, <2>1, <2>3, OverType DEF Load
    <3>. QED
      BY <1>7, <3>1 DEF Load, store, TypeInv, TypeOK
  <2>. QED
    BY <2>2, <2>3
<1>8. ASSUME NEW w \in Workers, BatchEnds(w) PROVE TypeInv'
  <2>1. [worker[w] EXCEPT !.pc = "claim", !.failures = 0, !.page = 0] \in AttemptRows
    <3>1. worker[w] \in AttemptRows /\ 0 \in 0..LastPage /\ 0 \in 0..(MaxFailures - 1)
      BY DEF TypeInv, TypeOK
    <3>. QED
      BY <3>1 DEF AttemptRows
  <2>2. worker' = [worker EXCEPT ![w].pc = "claim", ![w].failures = 0, ![w].page = 0]
        /\ worker[w].pc = "page"
    BY <1>8 DEF BatchEnds
  <2>3. worker' \in [Workers -> AttemptRows]
    BY <2>1, <2>2 DEF TypeInv, TypeOK
  <2>4. AttemptsHaveRuns' /\ ReadsAreWhole'
    BY <2>2 DEF TypeInv, TypeOK, AttemptRows, AttemptsHaveRuns, ReadsAreWhole
  <2>. QED
    BY <1>8, <2>3, <2>4 DEF BatchEnds, store, TypeInv, TypeOK
<1>9. ASSUME NEW w \in Workers, Read(w) PROVE TypeInv'
  <2>1. worker[w].pc = "page" /\ worker[w].run \in Runs /\ worker[w].left > 0
        /\ worker[w] \in AttemptRows
    BY <1>9 DEF Read, TypeInv, TypeOK, AttemptsHaveRuns
  <2>2. CASE worker[w].page = LastPage
    <3>1. worker' \in [Workers -> AttemptRows] /\ AttemptsHaveRuns' /\ ReadsAreWhole'
      BY <1>9, <2>1, <2>2, AtType DEF Read
    <3>. QED
      BY <1>9, <3>1 DEF Read, store, TypeInv, TypeOK
  <2>3. CASE worker[w].page # LastPage
    <3> DEFINE n == worker[w].page + 1
               read == {<<p, mail[p]>> : p \in {ProfileOf[e] : e \in PageEvents[n]}}
    <3>1. n \in Pages /\ worker[w].page < LastPage
      BY <2>1, <2>3 DEF AttemptRows, Pages
    <3>2. \A e \in PageEvents[n] : ProfileOf[e] \in Profiles /\ mail[ProfileOf[e]] \in Emails
      BY <3>1 DEF Profiles, Events, TypeInv, TypeOK
    <3>3. read \in SUBSET (Profiles \X Emails)
      BY <3>2
    <3>4. \A e \in PageEvents[n] : \E a \in Emails : <<ProfileOf[e], a>> \in read
      BY <3>2
    <3>5. worker' = [worker EXCEPT ![w].pc = "commit", ![w].seen = read]
      BY <1>9, <2>3 DEF Read
    <3> HIDE DEF read
    <3>6. [worker[w] EXCEPT !.pc = "commit", !.seen = read] \in AttemptRows
      BY <2>1, <3>3 DEF AttemptRows
    <3>7. worker' \in [Workers -> AttemptRows]
      BY <3>5, <3>6 DEF TypeInv, TypeOK
    <3>8. /\ worker'[w].seen = read /\ worker'[w].page = worker[w].page
          /\ worker'[w].left = worker[w].left
          /\ \A u \in Workers : u # w => worker'[u] = worker[u]
      BY <3>5, <2>1 DEF TypeInv, TypeOK, AttemptRows
    <3>9. ReadsAreWhole'
      BY <2>1, <3>1, <3>4, <3>8 DEF TypeInv, ReadsAreWhole
    <3>10. AttemptsHaveRuns'
      BY <2>1, <3>5 DEF TypeInv, TypeOK, AttemptRows, AttemptsHaveRuns
    <3>. QED
      BY <1>9, <3>7, <3>9, <3>10 DEF Read, store, TypeInv, TypeOK
  <2>. QED
    BY <2>2, <2>3
<1>10. ASSUME NEW w \in Workers, Transient(w) PROVE TypeInv'
  <2>1. worker[w].pc = "page" /\ worker[w].run \in Runs
    BY <1>10 DEF Transient, TypeInv, AttemptsHaveRuns
  <2>2. run' \in [Runs -> RunRows]
    BY <1>10, <2>1, FailedType DEF Transient, TypeInv, TypeOK
  <2>3. CASE GivesUp(w)
    <3>1. worker' \in [Workers -> AttemptRows] /\ AttemptsHaveRuns' /\ ReadsAreWhole'
      BY <1>10, <2>1, <2>3, OverType DEF Transient
    <3>. QED
      BY <1>10, <2>2, <3>1 DEF Transient, store, TypeInv, TypeOK
  <2>4. CASE ~GivesUp(w)
    <3>1. worker[w].failures + 1 \in 0..(MaxFailures - 1)
      BY <2>4 DEF GivesUp, TypeInv, TypeOK, AttemptRows
    <3>2. [worker[w] EXCEPT !.pc = "claim", !.page = 0, !.left = 0, !.failures = @ + 1]
            \in AttemptRows
      <4>1. worker[w] \in AttemptRows /\ 0 \in 0..LastPage /\ 0 \in 0..BatchPages
        BY DEF TypeInv, TypeOK
      <4>. QED
        BY <3>1, <4>1 DEF AttemptRows
    <3>3. worker' = [worker EXCEPT ![w].pc = "claim", ![w].page = 0, ![w].left = 0,
                                   ![w].failures = @ + 1]
      BY <1>10, <2>4 DEF Transient
    <3>4. worker' \in [Workers -> AttemptRows]
      BY <3>2, <3>3 DEF TypeInv, TypeOK
    <3>5. AttemptsHaveRuns' /\ ReadsAreWhole'
      BY <2>1, <3>3 DEF TypeInv, TypeOK, AttemptRows, AttemptsHaveRuns, ReadsAreWhole
    <3>. QED
      BY <1>10, <2>2, <3>4, <3>5 DEF Transient, store, TypeInv, TypeOK
  <2>. QED
    BY <2>3, <2>4
<1>11. ASSUME NEW w \in Workers, Refuse(w) PROVE TypeInv'
  <2>1. worker[w].pc # "idle" /\ worker[w].run \in Runs
    BY <1>11 DEF Refuse, TypeInv, AttemptsHaveRuns
  <2>2. worker' \in [Workers -> AttemptRows] /\ AttemptsHaveRuns' /\ ReadsAreWhole'
    BY <1>11, <2>1, OverType DEF Refuse
  <2>3. run' \in [Runs -> RunRows]
    BY <1>11, <2>1, FailedType DEF Refuse, TypeInv, TypeOK
  <2>. QED
    BY <1>11, <2>2, <2>3 DEF Refuse, store, TypeInv, TypeOK
<1>12. ASSUME NEW w \in Workers, Crash(w) PROVE TypeInv'
  <2>1. worker' \in [Workers -> AttemptRows] /\ AttemptsHaveRuns' /\ ReadsAreWhole'
    BY <1>12, OverType DEF Crash, Active
  <2>. QED
    BY <1>12, <2>1 DEF Crash, store, TypeInv, TypeOK
<1>13. ASSUME NEW w \in Workers, Finalize(w) PROVE TypeInv'
  <2>1. worker[w].pc # "idle" /\ worker[w].run \in Runs
    BY <1>13 DEF Finalize, TypeInv, AttemptsHaveRuns
  <2>2. worker' \in [Workers -> AttemptRows] /\ AttemptsHaveRuns' /\ ReadsAreWhole'
    BY <1>13, <2>1, OverType DEF Finalize
  <2>3. run' \in [Runs -> RunRows]
    BY <1>13, <2>1, FailedType DEF Finalize, TypeInv, TypeOK
  <2>. QED
    BY <1>13, <2>2, <2>3 DEF Finalize, store, TypeInv, TypeOK
<1>14. ASSUME NEW w \in Workers, NEW u \in Workers, NextAttempt(w, u) PROVE TypeInv'
  <2>1. worker[u].pc # "idle" /\ worker[u].run \in Runs
        /\ worker[u].owner \in {NoWorker} \cup Workers
    BY <1>14 DEF NextAttempt, Active, TypeInv, TypeOK, AttemptsHaveRuns, AttemptRows
  <2>2. worker' \in [Workers -> AttemptRows] /\ AttemptsHaveRuns' /\ ReadsAreWhole'
    BY <1>14, <2>1, StartType DEF NextAttempt
  <2>. QED
    BY <1>14, <2>2 DEF NextAttempt, store, TypeInv, TypeOK
<1>15. ASSUME NEW p \in Profiles, NEW a \in Emails, ChangeMail(p, a) PROVE TypeInv'
  BY <1>15 DEF ChangeMail, store, TypeInv, TypeOK, AttemptsHaveRuns, ReadsAreWhole
<1>16. CASE UNCHANGED vars
  BY <1>16 DEF vars, store, TypeInv, TypeOK, AttemptsHaveRuns, ReadsAreWhole
<1>. QED
  BY <1>1, <1>2, <1>3, <1>4, <1>5, <1>6, <1>7, <1>8, <1>9, <1>10, <1>11, <1>12, <1>13, <1>14,
     <1>15, <1>16, CommitType, PublishType, EraseType DEF Next, Step

LEMMA InductiveTypes == Spec => []TypeInv
  BY InitType, StepType, PTL DEF Spec

(* Rows have their shape, an attempt's run exists, and a page about to be      *)
(* stored is one that exists and was read whole.                               *)
THEOREM TypeCorrect == Spec => []TypeOK
  BY InductiveTypes, PTL DEF TypeInv

-----------------------------------------------------------------------------
\* Whatever a record was read with is among the addresses remembered.
ObservedIsKnown == observed \subseteq assoc

\* A run that was never made holds nothing.
UnusedIsEmpty == \A r \in Runs : run[r].state = "none" => records[r] = {}

\* A run under way holds the pages before its checkpoint, but for erased subjects.
PagesAreHeld ==
  \A r \in Runs : run[r].state = "running" =>
    \A n \in 1..run[r].page : \A e \in PageEvents[n] :
      e \in records[r] \/ ProfileOf[e] \in erased.profiles

CurrentIsPublished == \A r \in Runs : run[r].current => run[r].state = "published"

IInv == /\ TypeInv /\ ErasedSubjectsLeave /\ ObservedIsKnown
        /\ CountsAgree /\ UnusedIsEmpty
        /\ PagesAreHeld /\ PublishedIsWhole
        /\ OneRunningOneCurrent /\ CurrentIsPublished

LEMMA InitIInv == Init => IInv
<1> SUFFICES ASSUME Init PROVE IInv
  OBVIOUS
<1>1. TypeInv
  BY InitType
<1>2. ErasedSubjectsLeave /\ ObservedIsKnown /\ UnusedIsEmpty
  BY DEF Init, ErasedSubjectsLeave, ObservedIsKnown, UnusedIsEmpty
<1>3. CountsAgree
  BY FS_EmptySet DEF Init, CountsAgree, NoRun
<1>4. PagesAreHeld /\ PublishedIsWhole /\ OneRunningOneCurrent /\ CurrentIsPublished
  BY DEF Init, NoRun, PagesAreHeld, PublishedIsWhole, OneRunningOneCurrent,
     CurrentIsPublished, Running
<1>. QED
  BY <1>1, <1>2, <1>3, <1>4 DEF IInv

(* What happens to a run when no record is touched: nothing the invariant is   *)
(* about, or it fails, or it is made while no other is under way.              *)
Same(r) == /\ run'[r].state = run[r].state /\ run'[r].page = run[r].page
           /\ run'[r].count = run[r].count /\ run'[r].current = run[r].current
Fails(r) == /\ run[r].state = "running" /\ run'[r].state = "failed"
            /\ run'[r].count = run[r].count /\ run'[r].current = FALSE
Opens(r) == /\ run[r].state = "none" /\ run'[r].state = "running" /\ run'[r].page = 0
            /\ run'[r].count = 0 /\ run'[r].current = FALSE
            /\ \A q \in Runs \ {r} : run'[q].state # "running"

Quiet == UNCHANGED store /\ \A r \in Runs : Same(r) \/ Fails(r) \/ Opens(r)

LEMMA FailedFails ==
  ASSUME TypeOK, NEW q \in Runs, Running(q), run' = Failed(q)
  PROVE  \A r \in Runs : Same(r) \/ Fails(r)
<1>1. run' = [run EXCEPT ![q] = Ended(run[q], "failed")]
  BY DEF Failed
<1>2. Fails(q)
  <2>1. run'[q] = Ended(run[q], "failed") /\ run[q] \in RunRows /\ run[q].state = "running"
    BY <1>1 DEF TypeOK, Running
  <2>2. Ended(run[q], "failed").state = "failed" /\ Ended(run[q], "failed").current = FALSE
        /\ Ended(run[q], "failed").count = run[q].count
    BY <2>1, EndedType
  <2>. QED
    BY <2>1, <2>2 DEF Fails
<1>3. \A r \in Runs : r # q => Same(r)
  BY <1>1 DEF Same, TypeOK
<1>. QED
  BY <1>2, <1>3

LEMMA QuietSteps ==
  ASSUME TypeInv, [Next]_vars
  PROVE  \/ Quiet
         \/ \E w \in Workers : Commit(w) \/ Publish(w)
         \/ \E a \in Emails : Erase(a)
<1>1. ASSUME UNCHANGED <<run, store>> PROVE Quiet
  BY <1>1 DEF Quiet, Same
<1>2. ASSUME NEW r \in Runs, LeaseExpires(r) PROVE Quiet
  BY <1>2 DEF LeaseExpires, Quiet, Same, TypeInv, TypeOK, RunRows
<1>3. ASSUME NEW r \in Runs, NEW v \in 0..MaxVersion, Prepare(r, v) PROVE Quiet
  <2>1. /\ run' = [q \in Runs |->
             IF q = r THEN [NoRun EXCEPT !.state = "running", !.version = v] ELSE Reaped(q)]
        /\ run[r].state = "none" /\ UNCHANGED store
    BY <1>3 DEF Prepare
  <2>2. \A q \in Runs \ {r} : Same(q) \/ Fails(q)
    BY <2>1, EndedType DEF Reaped, Running, Same, Fails, TypeInv, TypeOK
  <2>3. \A q \in Runs \ {r} : run'[q].state # "running"
    BY <2>1, EndedType DEF Reaped, Running, TypeInv, TypeOK
  <2>4. Opens(r)
    BY <2>1, <2>3 DEF Opens, NoRun
  <2>. QED
    BY <2>1, <2>2, <2>4 DEF Quiet
<1>4. ASSUME NEW w \in Workers, Claim(w) PROVE Quiet
  <2>1. worker[w].run \in Runs
    BY <1>4 DEF Claim, TypeInv, AttemptsHaveRuns
  <2>. QED
    BY <1>4, <2>1 DEF Claim, Quiet, Same, TypeInv, TypeOK, RunRows
<1>5. ASSUME NEW w \in Workers,
             Overdue(w) \/ Transient(w) \/ Refuse(w) \/ Finalize(w)
      PROVE  Quiet
  <2>1. worker[w].run \in Runs /\ UNCHANGED store
    BY <1>5 DEF Overdue, Transient, Refuse, Finalize, TypeInv, AttemptsHaveRuns
  <2>2. run' = run \/ (Running(worker[w].run) /\ run' = Failed(worker[w].run))
    BY <1>5 DEF Overdue, Transient, Refuse, Finalize, Holds
  <2>. QED
    BY <1>1, <2>1, <2>2, FailedFails DEF TypeInv, Quiet
<1>6. ASSUME NEW w \in Workers, Load(w) \/ BatchEnds(w) \/ Read(w) \/ Crash(w) PROVE Quiet
  BY <1>1, <1>6 DEF Load, BatchEnds, Read, Crash
<1>7. ASSUME NEW w \in Workers, NEW u \in Workers, NextAttempt(w, u) PROVE Quiet
  BY <1>1, <1>7 DEF NextAttempt
<1>8. ASSUME NEW w \in Workers, NEW r \in Runs, Dispatch(w, r) PROVE Quiet
  BY <1>1, <1>8 DEF Dispatch
<1>9. ASSUME NEW p \in Profiles, NEW a \in Emails, ChangeMail(p, a) PROVE Quiet
  BY <1>1, <1>9 DEF ChangeMail
<1>10. CASE Configure \/ UNCHANGED vars
  <2>1. UNCHANGED <<run, store>>
    BY <1>10 DEF Configure, vars, store
  <2>. QED
    BY <1>1, <2>1
<1>. QED
  BY <1>2, <1>3, <1>4, <1>5, <1>6, <1>7, <1>8, <1>9, <1>10 DEF Next, Step

LEMMA QuietKeeps ==
  ASSUME IInv, TypeInv', Quiet
  PROVE  IInv'
<1>1. /\ UNCHANGED <<records, contents, assoc, erased, observed>>
      /\ \A r \in Runs : Same(r) \/ Fails(r) \/ Opens(r)
  BY DEF Quiet, store
<1>2. ErasedSubjectsLeave' /\ ObservedIsKnown'
  BY <1>1 DEF IInv, ErasedSubjectsLeave, ObservedIsKnown
<1>3. CountsAgree'
  <2> SUFFICES ASSUME NEW r \in Runs
               PROVE  run'[r].count = Cardinality(records[r]) /\ records[r] \subseteq contents
    BY <1>1 DEF CountsAgree
  <2>1. run[r].count = Cardinality(records[r]) /\ records[r] \subseteq contents
    BY DEF IInv, CountsAgree
  <2>2. Opens(r) => run'[r].count = Cardinality(records[r])
    BY FS_EmptySet DEF Opens, IInv, UnusedIsEmpty
  <2>. QED
    BY <1>1, <2>1, <2>2 DEF Same, Fails
<1>4. UnusedIsEmpty' /\ CurrentIsPublished' /\ PublishedIsWhole'
  BY <1>1 DEF IInv, UnusedIsEmpty, CurrentIsPublished, PublishedIsWhole, Same, Fails, Opens
<1>5. PagesAreHeld'
  BY <1>1 DEF IInv, PagesAreHeld, Same, Fails, Opens
<1>6. OneRunningOneCurrent'
  <2> SUFFICES ASSUME NEW r \in Runs, NEW q \in Runs, r # q
               PROVE  /\ ~(run'[r].state = "running" /\ run'[q].state = "running")
                      /\ ~(run'[r].current /\ run'[q].current)
    BY DEF OneRunningOneCurrent, Running
  <2>1. /\ ~(run[r].state = "running" /\ run[q].state = "running")
        /\ ~(run[r].current /\ run[q].current)
    BY DEF IInv, OneRunningOneCurrent, Running
  <2>2. \A x \in Runs : run'[x].current => run[x].current
    BY <1>1 DEF Same, Fails, Opens
  <2>3. Opens(r) \/ Opens(q) => ~(run'[r].state = "running" /\ run'[q].state = "running")
    BY DEF Opens
  <2>4. \A x \in Runs : ~Opens(x) /\ run'[x].state = "running" => run[x].state = "running"
    BY <1>1 DEF Same, Fails
  <2>. QED
    BY <2>1, <2>2, <2>3, <2>4
<1>. QED
  BY <1>2, <1>3, <1>4, <1>5, <1>6 DEF IInv

(* A purge takes exactly the records of the profiles that are gone, and        *)
(* recounts the runs it took them from.                                        *)
LEMMA PurgeFacts ==
  ASSUME IInv, NEW gone
  PROVE  /\ \A r \in Runs, e \in Events :
              e \in Kept(gone)[r] <=> e \in records[r] /\ ProfileOf[e] \notin gone
         /\ \A r \in Runs :
              /\ Kept(gone)[r] \subseteq contents \ OfProfiles(gone)
              /\ Recounted(run, Kept(gone))[r].count = Cardinality(Kept(gone)[r])
<1>1. \A r \in Runs : records[r] \subseteq Events
  BY DEF IInv, TypeInv, TypeOK
<1>2. \A r \in Runs, e \in Events :
        e \in Kept(gone)[r] <=> e \in records[r] /\ ProfileOf[e] \notin gone
  BY <1>1 DEF Kept, OfProfiles
<1>3. \A r \in Runs : Kept(gone)[r] \subseteq contents \ OfProfiles(gone)
  BY DEF Kept, IInv, CountsAgree
<1>4. ASSUME NEW r \in Runs
      PROVE  Recounted(run, Kept(gone))[r].count = Cardinality(Kept(gone)[r])
  <2>1. run[r] \in RunRows /\ run[r].count = Cardinality(records[r])
    BY DEF IInv, TypeInv, TypeOK, CountsAgree
  <2>. QED
    BY <2>1 DEF Recounted, RunRows
<1>. QED
  BY <1>2, <1>3, <1>4

LEMMA CommitKeeps ==
  ASSUME IInv, TypeInv', NEW w \in Workers, Commit(w)
  PROVE  IInv'
<1> DEFINE r == worker[w].run
           n == worker[w].page + 1
           seen == worker[w].seen
           gone == Suppressed({pair[1] : pair \in seen}) \cup
                     {pair[1] : pair \in {q \in seen : q[2] \in erased.emails}}
           fresh == PageEvents[n] \ OfProfiles(gone)
           kept == Kept(gone)
           rows == Recounted(run, kept)
<1> USE SnapshotsAssumption
<1>1. /\ TypeInv /\ worker[w] \in AttemptRows /\ r \in Runs /\ Running(r)
      /\ run[r].page = worker[w].page /\ worker[w].pc = "commit"
  BY DEF IInv, TypeInv, TypeOK, AttemptsHaveRuns, Commit, Holds
<1>2. /\ seen \subseteq Profiles \X Emails
      /\ \A e \in PageEvents[n] : \E a \in Emails : <<ProfileOf[e], a>> \in seen
  BY <1>1 DEF TypeInv, AttemptRows, ReadsAreWhole
<1>3. n \in Pages /\ n = run[r].page + 1 /\ PageEvents[n] \subseteq Events
  BY <1>1 DEF TypeInv, ReadsAreWhole, AttemptRows, Pages, Events
<1>4. \A e \in PageEvents[n] : ProfileOf[e] \in erased.profiles => ProfileOf[e] \in gone
  <2> SUFFICES ASSUME NEW e \in PageEvents[n], ProfileOf[e] \in erased.profiles
               PROVE  ProfileOf[e] \in gone
    OBVIOUS
  <2>1. PICK a \in Emails : <<ProfileOf[e], a>> \in seen
    BY <1>2
  <2>2. ProfileOf[e] \in {pair[1] : pair \in seen}
    <3>1. <<ProfileOf[e], a>>[1] = ProfileOf[e]
      OBVIOUS
    <3>. QED
      BY <2>1, <3>1
  <2>3. ProfileOf[e] \in Suppressed({pair[1] : pair \in seen})
    BY <2>2 DEF Suppressed
  <2>. QED
    BY <2>3
<1>5. \A pair \in seen : pair[2] \in erased.emails => pair[1] \in gone
  OBVIOUS
<1> HIDE DEF gone, fresh, rows, kept, n
<1>6. /\ erased' = WithTombstones(gone)
      /\ records' = [kept EXCEPT ![r] = @ \cup fresh]
      /\ contents' = (contents \ OfProfiles(gone)) \cup fresh
      /\ assoc' = KeptPairs(EveryAddress(seen), gone)
      /\ observed' = KeptPairs(observed \cup seen, gone)
      /\ run' = [rows EXCEPT ![r].page = n, ![r].stale = FALSE,
                             ![r].count = @ + Cardinality(fresh \ kept[r])]
  BY DEF Commit, gone, fresh, kept, rows, n
<1>7. /\ kept \in [Runs -> SUBSET Events] /\ rows \in [Runs -> RunRows]
      /\ \A q \in Runs : /\ rows[q].state = run[q].state /\ rows[q].current = run[q].current
                         /\ rows[q].page = run[q].page
  BY <1>1, PurgeType DEF TypeInv, kept, rows
<1>8. /\ \A q \in Runs, e \in Events :
           e \in kept[q] <=> e \in records[q] /\ ProfileOf[e] \notin gone
      /\ \A q \in Runs : /\ kept[q] \subseteq contents \ OfProfiles(gone)
                         /\ rows[q].count = Cardinality(kept[q])
  BY PurgeFacts DEF kept, rows
<1>9. /\ erased'.profiles = erased.profiles \cup gone /\ erased'.emails = erased.emails
      /\ \A e \in Events : e \in fresh <=> e \in PageEvents[n] /\ ProfileOf[e] \notin gone
      /\ fresh \subseteq Events
  BY <1>1, <1>3, <1>6 DEF TypeInv, TypeOK, WithTombstones, OfProfiles, fresh
<1>10. /\ records'[r] = kept[r] \cup fresh
       /\ \A q \in Runs : q # r => records'[q] = kept[q]
  BY <1>1, <1>6, <1>7
<1>11. /\ \A q \in Runs : run'[q].state = run[q].state /\ run'[q].current = run[q].current
       /\ \A q \in Runs : q # r => run'[q].page = run[q].page /\ run'[q].count = rows[q].count
       /\ run'[r].page = n /\ run'[r].count = rows[r].count + Cardinality(fresh \ kept[r])
  BY <1>1, <1>6, <1>7 DEF RunRows
<1>12. ErasedSubjectsLeave'
  <2>1. \A q \in Runs, e \in Events : e \in records'[q] => ProfileOf[e] \notin erased'.profiles
    BY <1>4, <1>8, <1>9, <1>10 DEF IInv, ErasedSubjectsLeave
  <2>2. \A e \in contents' : ProfileOf[e] \notin erased'.profiles
    <3>1. contents \subseteq Events
      BY <1>1 DEF TypeInv, TypeOK
    <3>2. \A e \in contents \ OfProfiles(gone) : ProfileOf[e] \notin gone
      BY <3>1 DEF OfProfiles
    <3>3. \A e \in contents : ProfileOf[e] \notin erased.profiles
      BY DEF IInv, ErasedSubjectsLeave
    <3>. QED
      BY <1>4, <1>6, <1>9, <3>2, <3>3
  <2>3. \A pair \in observed' : pair[2] \notin erased'.emails
    <3>1. \A pair \in observed : pair[2] \notin erased.emails
      BY DEF IInv, ErasedSubjectsLeave
    <3>. QED
      BY <1>5, <1>6, <1>9, <3>1 DEF KeptPairs
  <2>. QED
    BY <2>1, <2>2, <2>3 DEF ErasedSubjectsLeave
<1>13. ObservedIsKnown'
  BY <1>6 DEF IInv, ObservedIsKnown, KeptPairs, EveryAddress
<1>14. CountsAgree'
  <2> SUFFICES ASSUME NEW q \in Runs
               PROVE  /\ run'[q].count = Cardinality(records'[q])
                      /\ records'[q] \subseteq contents'
    BY DEF CountsAgree
  <2>1. records'[q] \subseteq contents'
    BY <1>6, <1>8, <1>10
  <2>2. CASE q = r
    <3>1. IsFiniteSet(kept[r]) /\ IsFiniteSet(fresh) /\ IsFiniteSet(fresh \ kept[r])
      BY <1>1, <1>7, <1>9, FS_Subset
    <3>2. kept[r] \cup fresh = kept[r] \cup (fresh \ kept[r]) /\ kept[r] \cap (fresh \ kept[r]) = {}
      OBVIOUS
    <3>3. Cardinality(kept[r] \cup fresh)
            = Cardinality(kept[r]) + Cardinality(fresh \ kept[r]) - 0
      BY <3>1, <3>2, FS_Union, FS_EmptySet
    <3>4. Cardinality(kept[r]) \in Nat /\ Cardinality(fresh \ kept[r]) \in Nat
      BY <3>1, FS_CardinalityType
    <3>5. run'[r].count = Cardinality(kept[r]) + Cardinality(fresh \ kept[r])
      BY <1>1, <1>8, <1>11
    <3>6. Cardinality(records'[r]) = Cardinality(kept[r]) + Cardinality(fresh \ kept[r])
      BY <1>10, <3>3, <3>4
    <3>. QED
      BY <2>1, <2>2, <3>5, <3>6
  <2>3. CASE q # r
    BY <1>8, <1>10, <1>11, <2>1, <2>3
  <2>. QED
    BY <2>2, <2>3
<1>15. UnusedIsEmpty'
  <2>1. \A q \in Runs : run'[q].state = "none" => q # r /\ records[q] = {}
    BY <1>1, <1>11 DEF IInv, UnusedIsEmpty, Running
  <2>2. \A q \in Runs : records[q] = {} => kept[q] = {}
    BY DEF kept, Kept
  <2>. QED
    BY <1>10, <2>1, <2>2 DEF UnusedIsEmpty
<1>16. \A q \in Runs, e \in Events :
         e \in records[q] \/ ProfileOf[e] \in erased.profiles
           => e \in records'[q] \/ ProfileOf[e] \in erased'.profiles
  BY <1>8, <1>9, <1>10
<1>17. PagesAreHeld'
  <2> SUFFICES ASSUME NEW q \in Runs, run'[q].state = "running",
                      NEW m \in 1..run'[q].page, NEW e \in PageEvents[m]
               PROVE  e \in records'[q] \/ ProfileOf[e] \in erased'.profiles
    BY DEF PagesAreHeld
  <2>1. run'[q].page \in 0..LastPage
    BY DEF TypeInv, TypeOK, RunRows
  <2>2. e \in Events
    BY <2>1 DEF Events, Pages
  <2>3. CASE m \in 1..run[q].page
    BY <1>11, <1>16, <2>2, <2>3 DEF IInv, PagesAreHeld
  <2>4. CASE m \notin 1..run[q].page
    <3>1. run[q].page \in Nat
      BY <1>1 DEF TypeInv, TypeOK, RunRows
    <3>2. q = r /\ m = n
      BY <1>3, <1>11, <2>4, <3>1
    <3>. QED
      BY <1>9, <1>10, <2>2, <3>2
  <2>. QED
    BY <2>3, <2>4
<1>18. PublishedIsWhole'
  BY <1>11, <1>16 DEF IInv, PublishedIsWhole
<1>19. OneRunningOneCurrent' /\ CurrentIsPublished'
  BY <1>11 DEF IInv, OneRunningOneCurrent, CurrentIsPublished, Running
<1>. QED
  BY <1>12, <1>13, <1>14, <1>15, <1>17, <1>18, <1>19 DEF IInv

LEMMA EraseKeeps ==
  ASSUME IInv, TypeInv', NEW a \in Emails, Erase(a)
  PROVE  IInv'
<1> DEFINE gone == {p \in Profiles : <<p, a>> \in assoc}
           kept == Kept(gone)
<1>1. TypeInv
  BY DEF IInv
<1>2. \A pair \in observed : pair[2] = a => pair[1] \in gone
  <2> SUFFICES ASSUME NEW pair \in observed, pair[2] = a PROVE pair[1] \in gone
    OBVIOUS
  <2>1. pair \in assoc /\ pair \in Profiles \X Emails
    BY <1>1 DEF IInv, ObservedIsKnown, TypeInv, TypeOK
  <2>2. pair = <<pair[1], a>> /\ pair[1] \in Profiles
    BY <2>1
  <2>. QED
    BY <2>1, <2>2
<1> HIDE DEF gone, kept
<1>3. /\ erased' = [WithTombstones(gone) EXCEPT !.emails = @ \cup {a}]
      /\ records' = kept /\ contents' = contents \ OfProfiles(gone)
      /\ assoc' = KeptPairs(assoc, gone) /\ observed' = KeptPairs(observed, gone)
      /\ run' = Recounted(run, kept)
  BY DEF Erase, gone, kept
<1>4. /\ kept \in [Runs -> SUBSET Events]
      /\ \A r \in Runs : /\ run'[r].state = run[r].state /\ run'[r].current = run[r].current
                         /\ run'[r].page = run[r].page
  BY <1>1, <1>3, PurgeType DEF TypeInv, kept
<1>5. /\ \A r \in Runs, e \in Events :
           e \in kept[r] <=> e \in records[r] /\ ProfileOf[e] \notin gone
      /\ \A r \in Runs : kept[r] \subseteq contents' /\ run'[r].count = Cardinality(kept[r])
  BY <1>3, PurgeFacts DEF kept
<1>6. erased'.profiles = erased.profiles \cup gone /\ erased'.emails = erased.emails \cup {a}
  BY <1>1, <1>3 DEF TypeInv, TypeOK, WithTombstones
<1>7. ErasedSubjectsLeave'
  <2>1. \A r \in Runs, e \in Events : e \in records'[r] => ProfileOf[e] \notin erased'.profiles
    BY <1>3, <1>5, <1>6 DEF IInv, ErasedSubjectsLeave
  <2>2. \A e \in contents' : ProfileOf[e] \notin erased'.profiles
    BY <1>1, <1>3, <1>6 DEF IInv, ErasedSubjectsLeave, OfProfiles, TypeInv, TypeOK
  <2>3. \A pair \in observed' : pair[2] \notin erased'.emails
    BY <1>2, <1>3, <1>6 DEF IInv, ErasedSubjectsLeave, KeptPairs
  <2>. QED
    BY <2>1, <2>2, <2>3 DEF ErasedSubjectsLeave
<1>8. ObservedIsKnown'
  BY <1>3 DEF IInv, ObservedIsKnown, KeptPairs
<1>9. CountsAgree'
  BY <1>3, <1>5 DEF CountsAgree
<1>10. UnusedIsEmpty'
  BY <1>3, <1>4 DEF IInv, UnusedIsEmpty, kept, Kept
<1>11. \A r \in Runs, e \in Events :
         e \in records[r] \/ ProfileOf[e] \in erased.profiles
           => e \in records'[r] \/ ProfileOf[e] \in erased'.profiles
  BY <1>3, <1>5, <1>6
<1>12. PagesAreHeld'
  <2> SUFFICES ASSUME NEW r \in Runs, run'[r].state = "running",
                      NEW m \in 1..run'[r].page, NEW e \in PageEvents[m]
               PROVE  e \in records'[r] \/ ProfileOf[e] \in erased'.profiles
    BY DEF PagesAreHeld
  <2>1. run'[r].page \in 0..LastPage
    BY DEF TypeInv, TypeOK, RunRows
  <2>2. e \in Events
    BY <2>1, SnapshotsAssumption DEF Events, Pages
  <2>. QED
    BY <1>4, <1>11, <2>2 DEF IInv, PagesAreHeld
<1>13. PublishedIsWhole' /\ OneRunningOneCurrent' /\ CurrentIsPublished'
  BY <1>4, <1>11 DEF IInv, PublishedIsWhole, OneRunningOneCurrent, CurrentIsPublished, Running
<1>. QED
  BY <1>7, <1>8, <1>9, <1>10, <1>12, <1>13 DEF IInv

(* What a publication that is not too late does.                               *)
LEMMA PublicationFacts ==
  ASSUME IInv, NEW w \in Workers, Publish(w), ~UNCHANGED store \/ run' # Failed(worker[w].run)
  PROVE  LET r == worker[w].run
             gone == Suppressed({ProfileOf[e] : e \in records[r]})
         IN /\ r \in Runs /\ Running(r) /\ run[r].page = LastPage
            /\ \A q \in Runs : run[q].current => q <= r
            /\ erased' = WithTombstones(gone) /\ records' = Kept(gone)
            /\ contents' = contents \ OfProfiles(gone)
            /\ assoc' = KeptPairs(assoc, gone) /\ observed' = KeptPairs(observed, gone)
            /\ \A q \in Runs :
                 /\ q = r => /\ run'[q].state = "published" /\ run'[q].current = TRUE
                             /\ run'[q].count = Cardinality(Kept(gone)[q])
                 /\ q # r => /\ run'[q].state = run[q].state /\ run'[q].current = FALSE
                             /\ run'[q].page = run[q].page
                             /\ run'[q].count = Recounted(run, Kept(gone))[q].count
<1> DEFINE r == worker[w].run
           gone == Suppressed({ProfileOf[e] : e \in records[r]})
           rows == Recounted(run, Kept(gone))
<1>1. TypeInv /\ r \in Runs /\ Running(r) /\ run[r].page = LastPage
  BY DEF IInv, TypeInv, AttemptsHaveRuns, Publish, Holds
<1>2. ~(Superseded(r) \/ \E q \in Runs : q > r /\ run[q].current)
  BY DEF Publish, store
<1>3. \A q \in Runs : run[q].current => q <= r
  BY <1>1, <1>2, SnapshotsAssumption DEF Runs
<1>4. /\ erased' = WithTombstones(gone) /\ records' = Kept(gone)
      /\ contents' = contents \ OfProfiles(gone)
      /\ assoc' = KeptPairs(assoc, gone) /\ observed' = KeptPairs(observed, gone)
      /\ run' = [q \in Runs |->
           IF q = r THEN [Ended(rows[r], "published") EXCEPT
                            !.current = TRUE, !.count = Cardinality(Kept(gone)[r])]
           ELSE [rows[q] EXCEPT !.current = FALSE]]
  BY <1>2 DEF Publish
<1> HIDE DEF gone
<1>5. /\ rows \in [Runs -> RunRows]
      /\ \A q \in Runs : rows[q].state = run[q].state /\ rows[q].page = run[q].page
  BY <1>1, PurgeType DEF TypeInv
<1> HIDE DEF rows
<1>6. Ended(rows[r], "published") \in RunRows /\ Ended(rows[r], "published").state = "published"
  BY <1>1, <1>5, EndedType
<1>7. \A q \in Runs : q = r => /\ run'[q].state = "published" /\ run'[q].current = TRUE
                               /\ run'[q].count = Cardinality(Kept(gone)[q])
  BY <1>4, <1>6 DEF RunRows
<1>8. \A q \in Runs : q # r => /\ run'[q].state = run[q].state /\ run'[q].current = FALSE
                               /\ run'[q].page = run[q].page /\ run'[q].count = rows[q].count
  BY <1>4, <1>5 DEF RunRows
<1>. QED
  BY <1>1, <1>3, <1>4, <1>7, <1>8 DEF gone, rows

LEMMA PublishKeeps ==
  ASSUME IInv, TypeInv', NEW w \in Workers, Publish(w)
  PROVE  IInv'
<1> DEFINE r == worker[w].run
           gone == Suppressed({ProfileOf[e] : e \in records[r]})
           kept == Kept(gone)
<1>1. TypeInv /\ r \in Runs /\ Running(r)
  BY DEF IInv, TypeInv, AttemptsHaveRuns, Publish, Holds
<1>2. CASE UNCHANGED store /\ run' = Failed(r)
  BY <1>1, <1>2, FailedFails, QuietKeeps DEF Quiet, TypeInv
<1>3. CASE ~(UNCHANGED store /\ run' = Failed(r))
  <2>a. \A e \in records[r] : ProfileOf[e] \in erased.profiles => ProfileOf[e] \in gone
    BY DEF Suppressed
  <2>b. \A e \in Events : e \in records[r] => ProfileOf[e] \notin erased.profiles
    BY <1>1 DEF IInv, ErasedSubjectsLeave
  <2> HIDE DEF gone, kept
  <2>1. /\ run[r].page = LastPage
        /\ erased' = WithTombstones(gone) /\ records' = kept
        /\ contents' = contents \ OfProfiles(gone)
        /\ assoc' = KeptPairs(assoc, gone) /\ observed' = KeptPairs(observed, gone)
        /\ \A q \in Runs :
             /\ q = r => /\ run'[q].state = "published" /\ run'[q].current = TRUE
                         /\ run'[q].count = Cardinality(kept[q])
             /\ q # r => /\ run'[q].state = run[q].state /\ run'[q].current = FALSE
                         /\ run'[q].page = run[q].page
                         /\ run'[q].count = Recounted(run, kept)[q].count
    BY <1>3, PublicationFacts DEF gone, kept
  <2>2. /\ \A q \in Runs, e \in Events :
             e \in kept[q] <=> e \in records[q] /\ ProfileOf[e] \notin gone
        /\ \A q \in Runs : /\ kept[q] \subseteq contents \ OfProfiles(gone)
                           /\ Recounted(run, kept)[q].count = Cardinality(kept[q])
    BY PurgeFacts DEF kept
  <2>3. erased'.profiles = erased.profiles \cup gone /\ erased'.emails = erased.emails
    BY <1>1, <2>1 DEF TypeInv, TypeOK, WithTombstones
  <2>4. ErasedSubjectsLeave'
    <3>1. \A q \in Runs, e \in Events : e \in records'[q] => ProfileOf[e] \notin erased'.profiles
      BY <2>1, <2>2, <2>3 DEF IInv, ErasedSubjectsLeave
    <3>2. \A e \in contents' : ProfileOf[e] \notin erased'.profiles
      BY <1>1, <2>1, <2>3 DEF IInv, ErasedSubjectsLeave, OfProfiles, TypeInv, TypeOK
    <3>3. \A pair \in observed' : pair[2] \notin erased'.emails
      BY <2>1, <2>3 DEF IInv, ErasedSubjectsLeave, KeptPairs
    <3>. QED
      BY <3>1, <3>2, <3>3 DEF ErasedSubjectsLeave
  <2>5. ObservedIsKnown'
    BY <2>1 DEF IInv, ObservedIsKnown, KeptPairs
  <2>6. CountsAgree'
    BY <2>1, <2>2 DEF CountsAgree
  <2>7. UnusedIsEmpty'
    <3>1. \A q \in Runs : run'[q].state = "none" => records[q] = {}
      BY <2>1 DEF IInv, UnusedIsEmpty
    <3>. QED
      BY <2>1, <3>1 DEF UnusedIsEmpty, kept, Kept
  <2>8. \A q \in Runs, e \in Events :
          e \in records[q] \/ ProfileOf[e] \in erased.profiles
            => e \in records'[q] \/ ProfileOf[e] \in erased'.profiles
    BY <2>1, <2>2, <2>3
  <2>9. PagesAreHeld'
    <3> SUFFICES ASSUME NEW q \in Runs, run'[q].state = "running",
                        NEW m \in 1..run'[q].page, NEW e \in PageEvents[m]
                 PROVE  e \in records'[q] \/ ProfileOf[e] \in erased'.profiles
      BY DEF PagesAreHeld
    <3>1. run'[q].page \in 0..LastPage
      BY DEF TypeInv, TypeOK, RunRows
    <3>2. e \in Events
      BY <3>1, SnapshotsAssumption DEF Events, Pages
    <3>3. q # r
      BY <2>1
    <3>. QED
      BY <2>1, <2>8, <3>2, <3>3 DEF IInv, PagesAreHeld
  <2>10. PublishedIsWhole'
    <3> SUFFICES ASSUME NEW q \in Runs, run'[q].state = "published", NEW e \in Events
                 PROVE  e \in records'[q] \/ ProfileOf[e] \in erased'.profiles
      BY DEF PublishedIsWhole
    <3>1. CASE q = r
      <4>1. PICK m \in 1..LastPage : e \in PageEvents[m]
        BY DEF Events, Pages
      <4>2. e \in records[r] \/ ProfileOf[e] \in erased.profiles
        BY <1>1, <2>1, <4>1 DEF IInv, PagesAreHeld, Running
      <4>. QED
        BY <2>8, <3>1, <4>2
    <3>2. CASE q # r
      BY <2>1, <2>8, <3>2 DEF IInv, PublishedIsWhole
    <3>. QED
      BY <3>1, <3>2
  <2>11. OneRunningOneCurrent' /\ CurrentIsPublished'
    BY <2>1 DEF IInv, OneRunningOneCurrent, CurrentIsPublished, Running
  <2>. QED
    BY <2>4, <2>5, <2>6, <2>7, <2>9, <2>10, <2>11 DEF IInv
<1>. QED
  BY <1>2, <1>3

LEMMA NextIInv == IInv /\ [Next]_vars => IInv'
<1> SUFFICES ASSUME IInv, [Next]_vars PROVE IInv'
  OBVIOUS
<1>1. TypeInv /\ TypeInv'
  BY StepType DEF IInv
<1>. QED
  BY <1>1, QuietSteps, QuietKeeps, CommitKeeps, PublishKeeps, EraseKeeps

LEMMA InductiveInvariant == Spec => []IInv
  BY InitIInv, NextIInv, PTL DEF Spec

(* For any number of attempts, crashes, take-overs and erasures: a published    *)
(* snapshot misses no event but those of subjects with a tombstone.            *)
THEOREM PublicationIsWhole == Spec => []PublishedIsWhole
  BY InductiveInvariant, PTL DEF IInv

(* Neither records nor payloads are held of a subject that was erased.         *)
THEOREM ErasureIsComplete == Spec => []ErasedSubjectsLeave
  BY InductiveInvariant, PTL DEF IInv

(* The counts kept by increments and recounts are the numbers of records.      *)
THEOREM CountsAreRight == Spec => []CountsAgree
  BY InductiveInvariant, PTL DEF IInv

(* What the two partial unique indexes demand is never put to them.            *)
THEOREM ScopesAreExclusive == Spec => []OneRunningOneCurrent
  BY InductiveInvariant, PTL DEF IInv

LEMMA StepMovesForward ==
  ASSUME IInv, [Next]_vars
  PROVE  \A r \in Runs : run[r].current => \E q \in Runs : q >= r /\ run'[q].current
<1> SUFFICES ASSUME NEW r \in Runs, run[r].current
             PROVE  \E q \in Runs : q >= r /\ run'[q].current
  OBVIOUS
<1>0. TypeInv /\ run[r].state = "published" /\ r >= r
  BY SnapshotsAssumption DEF IInv, CurrentIsPublished, Runs
<1>1. CASE Quiet
  BY <1>0, <1>1 DEF Quiet, Same, Fails, Opens
<1>2. ASSUME NEW w \in Workers, Commit(w) PROVE run'[r].current
  <2> DEFINE gone == Suppressed({pair[1] : pair \in worker[w].seen}) \cup
                       {pair[1] : pair \in {q \in worker[w].seen : q[2] \in erased.emails}}
             rows == Recounted(run, Kept(gone))
             fresh == PageEvents[worker[w].page + 1] \ OfProfiles(gone)
  <2>1. run' = [rows EXCEPT ![worker[w].run].page = worker[w].page + 1,
                            ![worker[w].run].stale = FALSE,
                            ![worker[w].run].count = @ + Cardinality(fresh \ Kept(gone)[worker[w].run])]
    BY <1>2 DEF Commit
  <2> HIDE DEF gone, fresh
  <2>2. rows \in [Runs -> RunRows] /\ rows[r].current = run[r].current
    BY <1>0, PurgeType DEF TypeInv
  <2> HIDE DEF rows
  <2>. QED
    BY <2>1, <2>2 DEF RunRows
<1>3. ASSUME NEW w \in Workers, Publish(w) PROVE \E q \in Runs : q >= r /\ run'[q].current
  <2>1. worker[w].run \in Runs /\ Running(worker[w].run)
    BY <1>0, <1>3 DEF TypeInv, AttemptsHaveRuns, Publish, Holds
  <2>2. CASE UNCHANGED store /\ run' = Failed(worker[w].run)
    <3>1. Same(r)
      BY <1>0, <2>1, <2>2, FailedFails DEF TypeInv, Fails
    <3>. QED
      BY <1>0, <3>1 DEF Same
  <2>3. CASE ~(UNCHANGED store /\ run' = Failed(worker[w].run))
    <3>1. r <= worker[w].run /\ run'[worker[w].run].current
      BY <1>3, <2>1, <2>3, PublicationFacts
    <3>2. worker[w].run >= r
      BY <2>1, <3>1, SnapshotsAssumption DEF Runs
    <3>. QED
      BY <2>1, <3>1, <3>2
  <2>. QED
    BY <2>2, <2>3
<1>4. ASSUME NEW a \in Emails, Erase(a) PROVE run'[r].current
  BY <1>0, <1>4, PurgeType DEF Erase, TypeInv
<1>. QED
  BY <1>0, <1>1, <1>2, <1>3, <1>4, QuietSteps

(* Readers of a scope never lose their snapshot, nor go back to an older one.  *)
THEOREM PublicationMovesForward == Spec => CurrentMovesForward
<1>1. IInv /\ [Next]_vars =>
        [\A r \in Runs : run[r].current => \E q \in Runs : q >= r /\ run'[q].current]_vars
  BY StepMovesForward
<1>. QED
  BY <1>1, InductiveInvariant, PTL DEF Spec, CurrentMovesForward

-----------------------------------------------------------------------------
(* Snapshots implements SnapshotShelf.                                      *)

(* A published run holds exactly the scope without the profiles that are gone; *)
(* what it holds is told by the tombstones alone.                              *)
LEMMA HeldIsRemaining ==
  ASSUME IInv
  PROVE  Held = [r \in Runs |-> IF run[r].state = "published"
                                THEN Shelf!Remaining(Events, erased.profiles) ELSE {}]
<1>1. ASSUME NEW r \in Runs, run[r].state = "published"
      PROVE  records[r] = Shelf!Remaining(Events, erased.profiles)
  BY <1>1 DEF IInv, TypeInv, TypeOK, PublishedIsWhole, ErasedSubjectsLeave, Shelf!Remaining
<1>. QED
  BY <1>1 DEF Held

(* A step that publishes nothing and takes no tombstone back takes from every   *)
(* snapshot what is gone after it.                                             *)
LEMMA HeldStep ==
  ASSUME IInv, IInv', NEW published \in SUBSET Runs,
         \A r \in Runs : run'[r].state = "published" <=>
                           run[r].state = "published" \/ r \in published,
         erased.profiles \subseteq erased'.profiles
  PROVE  Held' = [r \in Runs |-> Shelf!Remaining(IF r \in published THEN Events ELSE Held[r],
                                                 erased'.profiles)]
<1>1. \A r \in Runs : Held[r] = IF run[r].state = "published"
                                THEN Shelf!Remaining(Events, erased.profiles) ELSE {}
  BY HeldIsRemaining
<1>2. Held' = [r \in Runs |-> IF run'[r].state = "published"
                              THEN Shelf!Remaining(Events, erased'.profiles) ELSE {}]
  <2>1. ASSUME NEW r \in Runs, run'[r].state = "published"
        PROVE  records'[r] = Shelf!Remaining(Events, erased'.profiles)
    BY <2>1 DEF IInv, TypeInv, TypeOK, PublishedIsWhole, ErasedSubjectsLeave, Shelf!Remaining
  <2>. QED
    BY <2>1 DEF Held
<1>3. /\ Shelf!Remaining({}, erased'.profiles) = {}
      /\ Shelf!Remaining(Shelf!Remaining(Events, erased.profiles), erased'.profiles)
           = Shelf!Remaining(Events, erased'.profiles)
  BY DEF Shelf!Remaining
<1>. QED
  BY <1>1, <1>2, <1>3

(* A step that touches no record opens a run, fails one, or is not seen.       *)
LEMMA QuietRefines ==
  ASSUME IInv, IInv', Quiet
  PROVE  [Shelf!Next]_Shelf!vars
<1>1. /\ erased' = erased /\ records' = records
      /\ \A r \in Runs : Same(r) \/ Fails(r) \/ Opens(r)
  BY DEF Quiet, store
<1>2. Shown' = Shown
  <2>1. \A r \in Runs : run'[r].current = run[r].current
    BY <1>1 DEF Same, Fails, Opens, IInv, CurrentIsPublished, TypeInv, TypeOK, RunRows
  <2>. QED
    BY <2>1 DEF Shown
<1>3. Held' = Held
  BY <1>1 DEF Held, Same, Fails, Opens
<1>4. CASE \E r \in Runs : Opens(r)
  <2>1. PICK r \in Runs : Opens(r)
    BY <1>4
  <2>2. \A q \in Runs \ {r} :
          run'[q].state = IF run[q].state = "running" THEN "failed" ELSE run[q].state
    BY <1>1, <2>1 DEF Opens, Same, Fails
  <2>3. Shelf!Open(r)
    BY <1>1, <1>2, <1>3, <2>1, <2>2 DEF Shelf!Open, Opens
  <2>. QED
    BY <2>3 DEF Shelf!Next
<1>5. CASE ~(\E r \in Runs : Opens(r)) /\ \E r \in Runs : Fails(r)
  <2>1. PICK r \in Runs : Fails(r)
    BY <1>5
  <2>2. \A q \in Runs \ {r} : run'[q].state = run[q].state
    BY <1>1, <1>5, <2>1 DEF Fails, Same, IInv, OneRunningOneCurrent, Running
  <2>3. Shelf!Fail(r)
    BY <1>1, <1>2, <1>3, <2>1, <2>2 DEF Shelf!Fail, Fails
  <2>. QED
    BY <2>3 DEF Shelf!Next
<1>6. CASE \A r \in Runs : Same(r)
  BY <1>1, <1>2, <1>3, <1>6 DEF Shelf!vars, Same
<1>. QED
  BY <1>1, <1>4, <1>5, <1>6

(* A step that keeps every state and current snapshot, and only adds           *)
(* tombstones.                                                                 *)
LEMMA ForgetRefines ==
  ASSUME IInv, IInv', erased.profiles \subseteq erased'.profiles,
         \A r \in Runs : run'[r].state = run[r].state /\ run'[r].current = run[r].current
  PROVE  [Shelf!Next]_Shelf!vars
<1>1. Held' = [r \in Runs |-> Shelf!Remaining(Held[r], erased'.profiles)]
  <2>1. Held' = [r \in Runs |-> Shelf!Remaining(IF r \in {} THEN Events ELSE Held[r],
                                                 erased'.profiles)]
    <3>1. {} \in SUBSET Runs
      OBVIOUS
    <3>2. \A r \in Runs : run'[r].state = "published" <=>
                            run[r].state = "published" \/ r \in {}
      OBVIOUS
    <3>. QED
      BY <3>1, <3>2, HeldStep
  <2>. QED
    BY <2>1
<1>2. Shown' = Shown /\ erased'.profiles \subseteq Profiles
  BY DEF Shown, IInv, TypeInv, TypeOK
<1>3. Shelf!Forget
  BY <1>1, <1>2 DEF Shelf!Forget
<1>. QED
  BY <1>3 DEF Shelf!Next

LEMMA CommitRefines ==
  ASSUME IInv, IInv', NEW w \in Workers, Commit(w)
  PROVE  [Shelf!Next]_Shelf!vars
<1> DEFINE gone == Suppressed({pair[1] : pair \in worker[w].seen}) \cup
                     {pair[1] : pair \in {q \in worker[w].seen : q[2] \in erased.emails}}
           rows == Recounted(run, Kept(gone))
           fresh == PageEvents[worker[w].page + 1] \ OfProfiles(gone)
<1>1. /\ run' = [rows EXCEPT ![worker[w].run].page = worker[w].page + 1,
                             ![worker[w].run].stale = FALSE,
                             ![worker[w].run].count = @ + Cardinality(fresh \ Kept(gone)[worker[w].run])]
      /\ erased' = WithTombstones(gone)
  BY DEF Commit
<1> HIDE DEF gone, fresh
<1>2. /\ rows \in [Runs -> RunRows]
      /\ \A r \in Runs : rows[r].state = run[r].state /\ rows[r].current = run[r].current
  BY PurgeType DEF IInv, TypeInv
<1> HIDE DEF rows
<1>3. \A r \in Runs : run'[r].state = run[r].state /\ run'[r].current = run[r].current
  BY <1>1, <1>2 DEF RunRows
<1>4. erased.profiles \subseteq erased'.profiles
  BY <1>1 DEF WithTombstones, IInv, TypeInv, TypeOK
<1>. QED
  BY <1>3, <1>4, ForgetRefines

LEMMA EraseRefines ==
  ASSUME IInv, IInv', NEW a \in Emails, Erase(a)
  PROVE  [Shelf!Next]_Shelf!vars
<1> DEFINE gone == {p \in Profiles : <<p, a>> \in assoc}
<1>1. /\ run' = Recounted(run, Kept(gone))
      /\ erased' = [WithTombstones(gone) EXCEPT !.emails = @ \cup {a}]
  BY DEF Erase
<1> HIDE DEF gone
<1>2. \A r \in Runs : run'[r].state = run[r].state /\ run'[r].current = run[r].current
  BY <1>1, PurgeType DEF IInv, TypeInv
<1>3. erased.profiles \subseteq erased'.profiles
  BY <1>1 DEF WithTombstones, IInv, TypeInv, TypeOK
<1>. QED
  BY <1>2, <1>3, ForgetRefines

LEMMA PublishRefines ==
  ASSUME IInv, IInv', NEW w \in Workers, Publish(w)
  PROVE  [Shelf!Next]_Shelf!vars
<1>0. TypeInv /\ worker[w].run \in Runs /\ Running(worker[w].run)
  BY DEF IInv, TypeInv, AttemptsHaveRuns, Publish, Holds
<1>1. PICK r \in Runs : r = worker[w].run /\ Running(r)
  BY <1>0
<1> DEFINE gone == Suppressed({ProfileOf[e] : e \in records[r]})
<1>2. CASE UNCHANGED store /\ run' = Failed(r)
  BY <1>0, <1>1, <1>2, FailedFails, QuietRefines DEF Quiet, TypeInv
<1>3. CASE ~(UNCHANGED store /\ run' = Failed(r))
  <2>1. /\ \A q \in Runs : run[q].current => q <= r
        /\ erased' = WithTombstones(gone)
        /\ run'[r].state = "published" /\ run'[r].current = TRUE
        /\ \A q \in Runs \ {r} : run'[q].state = run[q].state /\ run'[q].current = FALSE
    BY <1>1, <1>3, PublicationFacts
  <2>2. /\ erased.profiles \subseteq erased'.profiles /\ erased'.profiles \subseteq Profiles
        /\ run' \in [Runs -> RunRows]
    BY <2>1 DEF WithTombstones, IInv, TypeInv, TypeOK
  <2> HIDE DEF gone
  <2>3. \A q \in Shown : q < r
    <3>1. ~run[r].current
      BY <1>1 DEF IInv, CurrentIsPublished, Running
    <3>. QED
      BY <1>1, <2>1, <3>1, SnapshotsAssumption DEF Shown, Runs
  <2>4. Shown' = {r}
    BY <1>1, <2>1 DEF Shown
  <2>5. Held' = [q \in Runs |-> Shelf!Remaining(IF q = r THEN Events ELSE Held[q],
                                                erased'.profiles)]
    <3>1. {r} \in SUBSET Runs
      BY <1>1
    <3>2. \A q \in Runs : run'[q].state = "published" <=>
                            run[q].state = "published" \/ q \in {r}
      BY <1>1, <2>1
    <3>3. Held' = [q \in Runs |-> Shelf!Remaining(IF q \in {r} THEN Events ELSE Held[q],
                                                  erased'.profiles)]
      BY <2>2, <3>1, <3>2, HeldStep
    <3>. QED
      BY <3>3
  <2>6. [q \in Runs |-> run'[q].state] = [[q \in Runs |-> run[q].state] EXCEPT ![r] = "published"]
    BY <1>1, <2>1
  <2>7. Shelf!Publish(r)
    BY <1>1, <2>2, <2>3, <2>4, <2>5, <2>6 DEF Shelf!Publish, Running
  <2>. QED
    BY <1>1, <2>7 DEF Shelf!Next
<1>. QED
  BY <1>2, <1>3

(* Readers of a scope find what SnapshotShelf promises, whichever attempts     *)
(* collect, crash, replace each other or are overtaken, and whoever is erased. *)
THEOREM ShelfRefinement == Spec => ImplementsShelf
<1>1. Init => Shelf!Init
  BY DEF Init, Shelf!Init, Shown, Held, NoRun
<1>2. IInv /\ IInv' /\ [Next]_vars => [Shelf!Next]_Shelf!vars
  <2> SUFFICES ASSUME IInv, IInv', [Next]_vars PROVE [Shelf!Next]_Shelf!vars
    OBVIOUS
  <2>. QED
    BY QuietSteps, QuietRefines, CommitRefines, PublishRefines, EraseRefines DEF IInv
<1>. QED
  BY <1>1, <1>2, InductiveInvariant, PTL DEF Spec, Shelf!Spec, ImplementsShelf
=============================================================================
