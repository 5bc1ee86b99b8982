------------------------------ MODULE Retention ------------------------------
(***************************************************************************)
(* The daily base rows of one organization in performance_log between      *)
(* their writers and the retention sweep, which sums them by month and     *)
(* deletes the expired ones.  A row is told apart by its day.  The sweep   *)
(* and the manual task share a queue of concurrency one; they may die      *)
(* between two statements.                                                 *)
(***************************************************************************)
EXTENDS Integers, FiniteSets

CONSTANTS
  FirstDay,        \* the day the model begins on
  LastDay,         \* bound: the last day it reaches
  BaseDays,        \* BASE_RETENTION_DAYS
  MonthDays,       \* days of a month
  Writers          \* bound: imports and user calls under way at a time

ASSUME RetentionAssumption ==
  /\ FirstDay \in Nat \ {0} /\ LastDay \in Nat /\ FirstDay <= LastDay
  /\ BaseDays \in Nat
  /\ MonthDays \in Nat \ {0}

VARIABLES
  today,      \* the calendar day, UTC
  log,        \* days with a base row
  pending,    \* per writer, the days it found retained and has not written yet
  summary,    \* performance_monthly_summary: the days summed, of each month it has
  sweep,      \* the run of the sweep for this organization
  expired     \* ghost: days whose base row a sweep deleted

vars == <<today, log, pending, summary, sweep, expired>>

Days == 1..LastDay

\* First day still retained.  Cutoffs are exclusive.
WindowStart(day) == day - BaseDays

\* assertBaseDate, the filter of bulkImport and that of the import: only the
\* past is cut off.
Retained == {d \in Days : d >= WindowStart(today)}

Month(d)      == (d - 1) \div MonthDays
Months        == {Month(d) : d \in Days}
MonthStart(m) == m * MonthDays + 1

Idle == [pc |-> "idle", day |-> FirstDay, enforce |-> FALSE]

Init ==
  /\ today = FirstDay
  /\ log = {} /\ pending = [w \in Writers |-> {}]
  /\ summary = [m \in {} |-> {}]
  /\ sweep = Idle
  /\ expired = {}

\* Midnight passes.
NextDay ==
  /\ today < LastDay
  /\ today' = today + 1
  /\ UNCHANGED <<log, pending, summary, sweep, expired>>

\* A Meta import, ad.bulkImport, performanceLog.create, bulkCreate and update
\* ask the clock which days are retained ...
CheckDays(w) ==
  /\ pending[w] = {}
  /\ \E days \in SUBSET Retained \ {{}} : pending' = [pending EXCEPT ![w] = days]
  /\ UNCHANGED <<today, log, summary, sweep, expired>>

\* ... and then write: all but update add rows of these days, update moves one
\* row from a day that may hold rows of other ads.
AddRows(w) == log' = log \union pending[w]
MoveRow(w, from) ==
  /\ Cardinality(pending[w]) = 1
  /\ \E left \in SUBSET {from} : log' = (log \ {from}) \union left \union pending[w]

\* The write may fail.
WriteDays(w) ==
  /\ pending[w] # {}
  /\ AddRows(w) \/ (\E from \in log : MoveRow(w, from)) \/ UNCHANGED log
  /\ pending' = [pending EXCEPT ![w] = {}]
  /\ UNCHANGED <<today, summary, sweep, expired>>

\* performanceLog.delete, and ad.delete, which takes the rows of the ad along.
RemoveRows ==
  /\ \E gone \in SUBSET log \ {{}} : log' = log \ gone
  /\ UNCHANGED <<today, pending, summary, sweep, expired>>

\* Mutant of RolledUp: every month with rows is recomputed.
RolledUpAlways(day) ==
  LET rows(m) == {d \in log : Month(d) = m}
      new     == {m \in Months : rows(m) # {}}
  IN [m \in new \union DOMAIN summary |-> IF m \in new THEN rows(m) ELSE summary[m]]

\* rollupMonthlySummaries, one statement: a month with rows and no summary is
\* inserted, one that is retained as a whole is recomputed, any other is frozen.
RolledUp(day) ==
  LET rows(m) == {d \in log : Month(d) = m}
      open(m) == m \notin DOMAIN summary \/ MonthStart(m) >= WindowStart(day)
      new     == {m \in Months : rows(m) # {} /\ open(m)}
  IN [m \in new \union DOMAIN summary |-> IF m \in new THEN rows(m) ELSE summary[m]]

\* Mutant of StartSweep: the clock of the process, read when it was started.
StartSweepStale ==
  /\ sweep.pc = "idle"
  /\ \E enforce \in BOOLEAN :
       sweep' = [pc |-> "rollup", day |-> sweep.day, enforce |-> enforce]
  /\ UNCHANGED <<today, log, pending, summary, expired>>

\* Mutant of StartSweep: the clock of a zone where it is tomorrow.
StartSweepAhead ==
  /\ sweep.pc = "idle"
  /\ \E enforce \in BOOLEAN :
       sweep' = [pc |-> "rollup", day |-> today + 1, enforce |-> enforce]
  /\ UNCHANGED <<today, log, pending, summary, expired>>

\* runRetentionForOrganization reads the clock once; enforce is the allowlist
\* and, for the manual task, its payload.
StartSweep ==
  /\ sweep.pc = "idle"
  /\ \E enforce \in BOOLEAN :
       sweep' = [pc |-> "rollup", day |-> today, enforce |-> enforce]
  /\ UNCHANGED <<today, log, pending, summary, expired>>

\* The roll-up of every run, dry or not; the plan is read-only.
Rollup ==
  /\ sweep.pc = "rollup"
  /\ summary' = RolledUp(sweep.day)
  /\ sweep' = IF sweep.enforce THEN [sweep EXCEPT !.pc = "execute"] ELSE Idle
  /\ UNCHANGED <<today, log, pending, expired>>

\* executeRetention rolls up once more before it deletes anything.
ExecuteRollup ==
  /\ sweep.pc = "execute"
  /\ summary' = RolledUp(sweep.day)
  /\ sweep' = [sweep EXCEPT !.pc = "delete"]
  /\ UNCHANGED <<today, log, pending, expired>>

\* The predicate of the delete.
Doomed == {d \in log : d < WindowStart(sweep.day)}

\* One batch; after an empty one the run is over.
DeleteBatch ==
  /\ sweep.pc = "delete"
  /\ IF Doomed = {} THEN sweep' = Idle /\ UNCHANGED <<log, expired>>
     ELSE /\ \E batch \in SUBSET Doomed \ {{}} :
               log' = log \ batch /\ expired' = expired \union batch
          /\ UNCHANGED sweep
  /\ UNCHANGED <<today, pending, summary>>

\* The task dies; its retry, or the next schedule, starts over.
SweepDies ==
  /\ sweep.pc # "idle"
  /\ sweep' = Idle
  /\ UNCHANGED <<today, log, pending, summary, expired>>

Next ==
  \/ NextDay \/ (\E w \in Writers : CheckDays(w) \/ WriteDays(w)) \/ RemoveRows
  \/ StartSweep \/ Rollup \/ ExecuteRollup \/ DeleteBatch \/ SweepDies

Spec == Init /\ [][Next]_vars

\* The organization is in the allowlist, the schedule fires every night and no
\* organization before it in the list makes it throw; a run does not hang, its
\* task has a time limit; and runs that delete are not always stopped before the
\* same statement.
NightlySpec ==
  /\ Spec
  /\ WF_vars(Rollup \/ ExecuteRollup \/ DeleteBatch \/ SweepDies)
  /\ SF_vars(StartSweep /\ sweep'.enforce)
  /\ SF_vars(Rollup /\ sweep.enforce)
  /\ SF_vars(ExecuteRollup) /\ SF_vars(DeleteBatch)

-----------------------------------------------------------------------------

TypeOK ==
  /\ today \in FirstDay..LastDay
  /\ log \subseteq Days /\ expired \subseteq Days /\ pending \in [Writers -> SUBSET Days]
  /\ DOMAIN summary \subseteq Months /\ \A m \in DOMAIN summary : summary[m] \subseteq Days
  /\ sweep \in [pc : {"idle", "rollup", "execute", "delete"},
                day : FirstDay..today, enforce : BOOLEAN]

(* "A month is never recomputed from partial data" (rollup.ts): once a sweep    *)
(* deleted a day of a month, the summary the month has does not change,        *)
(* whatever is written, moved or crashes, and across midnight.                *)
NoPartialMonth ==
  [][\A d \in expired : Month(d) \in DOMAIN summary =>
                          /\ Month(d) \in DOMAIN summary'
                          /\ summary'[Month(d)] = summary[Month(d)]]_vars

(* "a crashed run resumes safely" (execute.ts): every row that expired is       *)
(* deleted in the end, though runs die between batches.                        *)
ExpiredRowsGo ==
  \A d \in Days : d \in log /\ d < WindowStart(today) ~> d \notin log
=============================================================================
