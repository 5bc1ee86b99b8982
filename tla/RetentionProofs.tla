--------------------------- MODULE RetentionProofs ---------------------------
(***************************************************************************)
(* Proofs about Retention: types, and that a month which lost a day keeps  *)
(* the summary it has.  The argument: whatever a sweep deletes is before   *)
(* the window of that sweep, windows only move forward, and a month starts *)
(* no later than any of its days; so for every later roll-up the month is  *)
(* frozen.                                                                 *)
(***************************************************************************)
EXTENDS Retention, TLAPS

\* Deleted days are before the window, today's and that of a sweep under way,
\* which never is ahead of the calendar.
ExpiredAreBefore ==
  /\ \A d \in expired : d < WindowStart(today)
  /\ sweep.day <= today
  /\ sweep.pc # "idle" => \A d \in expired : d < WindowStart(sweep.day)

IInv == TypeOK /\ ExpiredAreBefore

LEMMA DivisionRoundsDown ==
  ASSUME NEW x \in Nat, NEW M \in Nat \ {0}
  PROVE  (x \div M) * M <= x /\ x \div M \in Int
  BY SMT

(* A month does not start after one of its days.                               *)
LEMMA MonthStartsFirst ==
  \A d \in Days : MonthStart(Month(d)) <= d /\ MonthStart(Month(d)) \in Int
<1> SUFFICES ASSUME NEW d \in Days
             PROVE  MonthStart(Month(d)) <= d /\ MonthStart(Month(d)) \in Int
  OBVIOUS
<1>1. d - 1 \in Nat
  BY RetentionAssumption DEF Days
<1>2. (d - 1) \div MonthDays \in Int /\ ((d - 1) \div MonthDays) * MonthDays <= d - 1
  BY <1>1, DivisionRoundsDown, RetentionAssumption
<1>. QED
  BY <1>2, RetentionAssumption DEF MonthStart, Month, Days

(* A roll-up stores days of the log under months that exist.                   *)
LEMMA RolledUpType ==
  ASSUME log \subseteq Days, DOMAIN summary \subseteq Months,
         \A m \in DOMAIN summary : summary[m] \subseteq Days, NEW day
  PROVE  /\ DOMAIN RolledUp(day) \subseteq Months
         /\ \A m \in DOMAIN RolledUp(day) : RolledUp(day)[m] \subseteq Days
  BY DEF RolledUp

(* A roll-up keeps the summary of a month that starts before its window.       *)
LEMMA RolledUpKeeps ==
  ASSUME NEW day, NEW m \in DOMAIN summary, ~(MonthStart(m) >= WindowStart(day))
  PROVE  m \in DOMAIN RolledUp(day) /\ RolledUp(day)[m] = summary[m]
  BY DEF RolledUp

(* The clock of a sweep is a day.                                              *)
LEMMA SweepDay ==
  ASSUME TypeOK
  PROVE  sweep.day \in Int /\ today \in Int
<1>1. sweep.day \in FirstDay..today
  BY DEF TypeOK
<1>. QED
  BY <1>1, RetentionAssumption DEF TypeOK

LEMMA InitIInv == Init => IInv
  BY RetentionAssumption DEF Init, IInv, TypeOK, ExpiredAreBefore, Idle

LEMMA NextIInv == IInv /\ [Next]_vars => IInv'
<1> SUFFICES ASSUME IInv, [Next]_vars PROVE IInv'
  OBVIOUS
<1> USE RetentionAssumption DEF IInv, TypeOK, ExpiredAreBefore, Days, WindowStart
<1>1. CASE NextDay
  BY <1>1 DEF NextDay
<1>2. ASSUME NEW w \in Writers, CheckDays(w)  PROVE IInv'
  <2>1. PICK days \in SUBSET Retained : pending' = [pending EXCEPT ![w] = days]
    BY <1>2 DEF CheckDays
  <2>2. pending' \in [Writers -> SUBSET Days]
    BY <2>1 DEF Retained
  <2>. QED
    BY <1>2, <2>2 DEF CheckDays, Months, Month
<1>3. ASSUME NEW w \in Writers, WriteDays(w)  PROVE IInv'
  <2>1. log' \subseteq log \union pending[w] /\ pending' = [pending EXCEPT ![w] = {}]
    BY <1>3 DEF WriteDays, AddRows, MoveRow
  <2>2. log' \subseteq Days /\ pending' \in [Writers -> SUBSET Days]
    BY <2>1
  <2>. QED
    BY <1>3, <2>2 DEF WriteDays, Months, Month
<1>4. CASE RemoveRows
  BY <1>4 DEF RemoveRows, Months, Month
<1>5. CASE StartSweep
  BY <1>5 DEF StartSweep
<1>6. CASE Rollup
  <2>1. /\ DOMAIN summary' \subseteq Months
        /\ \A m \in DOMAIN summary' : summary'[m] \subseteq Days
    BY <1>6, RolledUpType DEF Rollup
  <2>. QED
    BY <1>6, <2>1 DEF Rollup, Idle, Months, Month
<1>7. CASE ExecuteRollup
  <2>1. /\ DOMAIN summary' \subseteq Months
        /\ \A m \in DOMAIN summary' : summary'[m] \subseteq Days
    BY <1>7, RolledUpType DEF ExecuteRollup
  <2>. QED
    BY <1>7, <2>1 DEF ExecuteRollup, Months, Month
<1>8. CASE DeleteBatch
  <2>1. CASE Doomed = {}
    <3>1. sweep' = Idle /\ UNCHANGED <<today, log, pending, summary, expired>>
      BY <1>8, <2>1 DEF DeleteBatch
    <3>. QED
      BY <3>1 DEF Idle, Months, Month
  <2>2. CASE Doomed # {}
    <3>1. PICK batch \in SUBSET Doomed : log' = log \ batch /\ expired' = expired \union batch
      BY <1>8, <2>2 DEF DeleteBatch
    <3>2. /\ \A d \in batch : d \in Days /\ d < WindowStart(sweep.day)
          /\ WindowStart(sweep.day) <= WindowStart(today)
      BY <3>1 DEF Doomed
    <3>3. sweep.pc = "delete" /\ UNCHANGED <<today, pending, summary, sweep>>
      BY <1>8, <2>2 DEF DeleteBatch
    <3>4. \A d \in expired' : d \in Days /\ d < WindowStart(today) /\ d < WindowStart(sweep.day)
      BY <3>1, <3>2, <3>3
    <3>. QED
      BY <3>1, <3>3, <3>4 DEF Months, Month
  <2>. QED
    BY <2>1, <2>2
<1>9. CASE SweepDies
  BY <1>9 DEF SweepDies, Idle
<1>10. CASE UNCHANGED vars
  BY <1>10 DEF vars, Months, Month
<1>. QED
  BY <1>1, <1>2, <1>3, <1>4, <1>5, <1>6, <1>7, <1>8, <1>9, <1>10 DEF Next

LEMMA InductiveInvariant == Spec => []IInv
<1>. QED
  BY InitIInv, NextIInv, PTL DEF Spec

(* Every variable keeps its type: the clock of a sweep is a day that has come,  *)
(* summaries are of days of months that exist.                                 *)
THEOREM TypeCorrect == Spec => []TypeOK
<1>1. IInv => TypeOK
  BY DEF IInv
<1>. QED
  BY <1>1, InductiveInvariant, PTL

(* A step from a state of the invariant keeps the summary of a month that lost  *)
(* a day.                                                                      *)
LEMMA StepKeepsSummaries ==
  ASSUME IInv, [Next]_vars, NEW d \in expired, Month(d) \in DOMAIN summary
  PROVE  Month(d) \in DOMAIN summary' /\ summary'[Month(d)] = summary[Month(d)]
<1>1. ASSUME sweep.pc # "idle", summary' = RolledUp(sweep.day)
      PROVE  Month(d) \in DOMAIN summary' /\ summary'[Month(d)] = summary[Month(d)]
  <2>1. d \in Days /\ d < WindowStart(sweep.day) /\ WindowStart(sweep.day) \in Int
    BY <1>1, SweepDay, RetentionAssumption DEF IInv, TypeOK, ExpiredAreBefore, WindowStart, Days
  <2>2. MonthStart(Month(d)) <= d /\ MonthStart(Month(d)) \in Int
    BY <2>1, MonthStartsFirst
  <2>3. ~(MonthStart(Month(d)) >= WindowStart(sweep.day))
    BY <2>1, <2>2 DEF Days
  <2>. QED
    BY <1>1, <2>3, RolledUpKeeps
<1>2. CASE Rollup
  BY <1>1, <1>2 DEF Rollup
<1>3. CASE ExecuteRollup
  BY <1>1, <1>3 DEF ExecuteRollup
<1>4. CASE UNCHANGED summary
  BY <1>4
<1>. QED
  BY <1>2, <1>3, <1>4 DEF Next, vars, NextDay, CheckDays, WriteDays, RemoveRows,
     StartSweep, DeleteBatch, SweepDies

(* A month that lost a day to a sweep keeps the summary it has, for every       *)
(* length of months and of the window.                                         *)
THEOREM PartialMonthsAreFrozen == Spec => NoPartialMonth
<1>1. IInv /\ [Next]_vars =>
        [\A d \in expired : Month(d) \in DOMAIN summary =>
                              /\ Month(d) \in DOMAIN summary'
                              /\ summary'[Month(d)] = summary[Month(d)]]_vars
  BY StepKeepsSummaries
<1>. QED
  BY <1>1, InductiveInvariant, PTL DEF Spec, NoPartialMonth

-----------------------------------------------------------------------------
(* What a late write costs.  Every writer of base rows asks the clock and    *)
(* writes without asking again: after midnight it can bring a day back       *)
(* between the last roll-up of a sweep and its deletes.                      *)

(* "Every month is locked into the summary table before any base row can go"   *)
(* (execute.ts): a deleted day belongs to a month that has a summary.          *)
EveryMonthIsLocked == \A d \in expired : Month(d) \in DOMAIN summary

(* Whoever writes a day, it is still retained when it is written.              *)
WritesAreRetained == log' \ log \subseteq Retained

(* What a sweep is about to delete is of months it has rolled up.              *)
DoomedAreLocked == sweep.pc = "delete" => \A d \in Doomed : Month(d) \in DOMAIN summary

(* A roll-up has every month it had and every month of the log.                *)
LEMMA RolledUpCovers ==
  ASSUME log \subseteq Days, NEW day
  PROVE  /\ DOMAIN summary \subseteq DOMAIN RolledUp(day)
         /\ \A d \in log : Month(d) \in DOMAIN RolledUp(day)
  BY DEF RolledUp, Months

(* A day that comes to the log while a sweep deletes is not one of its days.   *)
LEMMA LockedStep ==
  ASSUME IInv, EveryMonthIsLocked, DoomedAreLocked, WritesAreRetained, [Next]_vars
  PROVE  EveryMonthIsLocked' /\ DoomedAreLocked'
<1> USE DEF IInv, TypeOK, ExpiredAreBefore, EveryMonthIsLocked, DoomedAreLocked
<1>1. ASSUME UNCHANGED <<summary, sweep, expired>>, \A d \in log' \ log : d \in Retained
      PROVE  EveryMonthIsLocked' /\ DoomedAreLocked'
  <2>1. \A d \in log' \ log : ~(d < WindowStart(sweep.day))
    BY <1>1, SweepDay, RetentionAssumption DEF Retained, WindowStart, Days
  <2>. QED
    BY <1>1, <2>1 DEF Doomed
<1>2. CASE NextDay \/ (\E w \in Writers : CheckDays(w)) \/ UNCHANGED vars
  BY <1>1, <1>2 DEF NextDay, CheckDays, vars
<1>3. CASE \E w \in Writers : WriteDays(w)
  BY <1>1, <1>3 DEF WriteDays, WritesAreRetained
<1>4. CASE RemoveRows
  BY <1>1, <1>4 DEF RemoveRows
<1>5. CASE StartSweep \/ SweepDies
  BY <1>5 DEF StartSweep, SweepDies, Idle
<1>6. CASE Rollup
  BY <1>6, RolledUpCovers DEF Rollup, Idle
<1>7. CASE ExecuteRollup
  BY <1>7, RolledUpCovers DEF ExecuteRollup, Doomed
<1>8. CASE DeleteBatch
  BY <1>8 DEF DeleteBatch, Doomed, Idle
<1>. QED
  BY <1>2, <1>3, <1>4, <1>5, <1>6, <1>7, <1>8 DEF Next

(* Were the days of every write checked again when it is made, by the import,   *)
(* bulkImport, create, bulkCreate and update alike, no day would be deleted     *)
(* before its month has a summary, however often sweeps die.                    *)
THEOREM CheckedWritesLockMonths ==
  Spec /\ [][WritesAreRetained]_vars => []EveryMonthIsLocked
<1> DEFINE LInv == IInv /\ EveryMonthIsLocked /\ DoomedAreLocked
<1>1. Init => LInv
  BY InitIInv DEF Init, EveryMonthIsLocked, DoomedAreLocked, Idle
<1>2. LInv /\ [Next]_vars /\ [WritesAreRetained]_vars => LInv'
  <2>1. ASSUME LInv, [Next]_vars, WritesAreRetained PROVE LInv'
    BY <2>1, NextIInv, LockedStep
  <2>2. ASSUME LInv, UNCHANGED vars PROVE LInv'
    BY <2>2, NextIInv DEF vars, EveryMonthIsLocked, DoomedAreLocked, Doomed
  <2>. QED
    BY <2>1, <2>2
<1>. QED
  BY <1>1, <1>2, PTL DEF Spec
=============================================================================
