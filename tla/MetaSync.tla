------------------------------- MODULE MetaSync -------------------------------
(***************************************************************************)
(* The Meta sync of one ad account: a task that imports one report per     *)
(* grain through three procedures of the app (start, poll, import a page). *)
(* The task may die, and a call it gave up may still be running when it    *)
(* calls again.                                                            *)
(***************************************************************************)
EXTENDS Integers, FiniteSets, Sequences

CONSTANTS
  FirstDay,       \* the day the model begins on
  LastDay,        \* bound: the last day it reaches
  BaseDays,       \* BASE_RETENTION_DAYS
  BreakdownDays,  \* BREAKDOWN_RETENTION_DAYS
  MaxReports,     \* bound: rows of account_sync_runs
  LateAds,        \* ads, as <<day, page>>, that may start delivering meanwhile
  DeletableAds,   \* bound: the ads a user may delete meanwhile
  NoCall          \* no importReport call in this place

ASSUME MetaSyncAssumption ==
  /\ FirstDay \in Nat \ {0} /\ LastDay \in Nat /\ FirstDay <= LastDay
  /\ BaseDays \in Nat /\ BreakdownDays \in Nat /\ BreakdownDays <= BaseDays
  /\ MaxReports \in Nat

VARIABLES
  today,      \* the calendar day, UTC
  delivering, \* the ads that have rows at Meta, told apart by day and page
  ads,        \* stored ads
  removed,    \* ghost: the ads a user deleted
  reports,    \* account_sync_runs, in the order they were created; ghosts: the
              \* ads with rows in it, the pages whose rows are stored, and the
              \* ads whose rows were dropped
  job,        \* the task run of metaSyncTask
  calls       \* importReport on the server: the awaited call and a late one

outside == <<today, delivering, removed>>
vars == <<today, delivering, ads, removed, reports, job, calls>>

Days == 1..LastDay

\* First day still retained.  Cutoffs are exclusive.
WindowStart(grain, day) == day - (IF grain = "base" THEN BaseDays ELSE BreakdownDays)

\* Mutant of Breakdowns: a breakdown before the ads it needs.
BreakdownsFirst == <<"breakdown", "base">>

\* The order of BREAKDOWNS; the four dimensions are alike.
Breakdowns == <<"base", "breakdown">>

\* A report has two pages; each day of its window has rows on both.
Pages == {1, 2}

\* Mutants of NextPage: the end is not noticed; the first page is taken for the last.
NextPageForEver(p) == p + 1
NextPageNone(p) == 0

\* The cursor of the first page is null; 0 is the end.
NextPage(p) == IF p = 2 THEN 0 ELSE p + 1

IdleJob == [pc |-> "idle", from |-> 0, to |-> 0, fresh |-> {}, step |-> 0,
            report |-> 0, page |-> 0, failed |-> FALSE]

Init ==
  /\ today = FirstDay
  /\ delivering = (Days \X Pages) \ LateAds
  /\ ads = {} /\ removed = {}
  /\ reports = <<>>
  /\ job = IdleJob
  /\ calls = [c \in {"awaited", "late"} |-> NoCall]

Later(a, b) == IF a > b THEN a ELSE b

\* A window, suggested by the account list or asked for by the user, and the
\* successful reports of the last hours, read once; with force none is read.
StartJob ==
  /\ job.pc = "idle"
  /\ \E from, to \in 1..today :
       /\ from <= to
       /\ \E fresh \in SUBSET {r \in DOMAIN reports :
                                 reports[r].result = "success" /\ reports[r].ended >= today - 1} :
            job' = [IdleJob EXCEPT !.pc = "prepare", !.step = 1, !.fresh = fresh,
                                   !.from = from, !.to = to]
  /\ UNCHANGED <<ads, reports, calls>>

Grain == Breakdowns[job.step]

\* The job with its current breakdown behind it.
NextBreakdown(failed) ==
  [job EXCEPT !.pc = IF job.step = Len(Breakdowns) THEN "done" ELSE "prepare",
              !.step = IF job.step = Len(Breakdowns) THEN @ ELSE @ + 1,
              !.failed = @ \/ failed, !.report = 0, !.page = 0]

\* wasFresh compares the window the job asked for with the one that was stored.
WasFresh ==
  \E r \in job.fresh : /\ reports[r].grain = Grain
                       /\ reports[r].from = job.from /\ reports[r].to = job.to

SkipFresh ==
  /\ job.pc = "prepare" /\ WasFresh
  /\ job' = NextBreakdown(FALSE)
  /\ UNCHANGED <<ads, reports, calls>>

\* startReport refuses a window that has expired as a whole.
SkipExpired ==
  /\ job.pc = "prepare" /\ ~WasFresh
  /\ job.to < WindowStart(Grain, today)
  /\ job' = NextBreakdown(FALSE)
  /\ UNCHANGED <<ads, reports, calls>>

\* startReport clamps the window and stores a run; its answer may be lost and
\* the call repeated.  Meta answers with the ads that deliver now, so one that
\* starts later has no row in this report.
StartReport ==
  /\ job.pc = "prepare" /\ ~WasFresh
  /\ job.to >= WindowStart(Grain, today)
  /\ Len(reports) < MaxReports
  /\ LET from == Later(job.from, WindowStart(Grain, today)) IN
     reports' = Append(reports, [grain |-> Grain, from |-> from, to |-> job.to,
                  applied |-> 0, next |-> 0, result |-> "none", ended |-> 0,
                  named |-> {a \in delivering : a[1] \in from..job.to},
                  pages |-> {}, lost |-> {}])
  /\ \/ job' = [job EXCEPT !.pc = "polling", !.report = Len(reports')]
     \/ UNCHANGED job
  /\ UNCHANGED <<ads, calls>>

\* Every attempt of a call failed, or the report was not ready in time: the run
\* is left as it is.
GiveUp ==
  /\ \/ job.pc = "prepare" /\ ~WasFresh
     \/ job.pc = "polling"
     \/ job.pc = "importing" /\ calls["awaited"] = NoCall
  /\ job' = NextBreakdown(TRUE)
  /\ UNCHANGED <<ads, reports, calls>>

PollReady ==
  /\ job.pc = "polling"
  /\ job' = [job EXCEPT !.pc = "importing", !.page = 1]
  /\ UNCHANGED <<ads, reports, calls>>

PollFailed ==
  /\ job.pc = "polling"
  /\ reports' = [reports EXCEPT ![job.report].result = "failed",
                                ![job.report].ended = today]
  /\ job' = NextBreakdown(TRUE)
  /\ UNCHANGED <<ads, calls>>

\* What the job does with the cursor an answer carries.
Answered(next) ==
  IF next = 0 THEN NextBreakdown(FALSE) ELSE [job EXCEPT !.page = next]

\* importReport on a finished run, or for the page it applied last, changes
\* nothing.
ImportCached ==
  /\ job.pc = "importing" /\ calls["awaited"] = NoCall
  /\ \/ /\ reports[job.report].result # "none"
        /\ job' = Answered(0)
     \/ /\ reports[job.report].result = "none"
        /\ reports[job.report].applied = job.page
        /\ job' = Answered(reports[job.report].next)
  /\ UNCHANGED <<ads, reports, calls>>

\* Otherwise it fetches the page.
ImportPage ==
  /\ job.pc = "importing" /\ calls["awaited"] = NoCall
  /\ reports[job.report].result = "none" /\ reports[job.report].applied # job.page
  /\ calls' = [calls EXCEPT !["awaited"] =
                 [pc |-> "write", report |-> job.report, page |-> job.page]]
  /\ UNCHANGED <<ads, reports, job>>

\* The job stops waiting for a call that is still running.
AbandonCall ==
  /\ calls["awaited"] # NoCall /\ calls["late"] = NoCall
  /\ calls' = [awaited |-> NoCall, late |-> calls["awaited"]]
  /\ UNCHANGED <<ads, reports, job>>

\* A base page stores the ads it names (importMetaRows).
NamedAds(r, p) == {a \in reports[r].named : a[2] = p}

\* A breakdown row whose ad is not stored is dropped; any ad of the report may
\* have a row on any page of it.
Dropped(r) == IF reports[r].grain = "base" THEN {} ELSE reports[r].named \ ads

\* The page is stored.
WriteRows(c) ==
  /\ calls[c] # NoCall /\ calls[c].pc = "write"
  /\ LET r == calls[c].report p == calls[c].page IN
     /\ ads' = IF reports[r].grain = "base" THEN ads \union NamedAds(r, p) ELSE ads
     /\ reports' = [reports EXCEPT ![r].pages = @ \union {p}, ![r].lost = @ \union Dropped(r)]
  /\ calls' = [calls EXCEPT ![c].pc = "record"]
  /\ UNCHANGED job

\* The last update of importReport does not look at the run again; the last
\* page finishes it.
RecordPage(c) ==
  /\ calls[c] # NoCall /\ calls[c].pc = "record"
  /\ LET call == calls[c] next == NextPage(call.page) IN
     /\ reports' = [reports EXCEPT
          ![call.report].applied = call.page,
          ![call.report].next = next,
          ![call.report].result = IF next = 0 THEN "success" ELSE @,
          ![call.report].ended = IF next = 0 THEN today ELSE @]
     /\ \/ job' = IF c = "awaited" THEN Answered(next) ELSE job
        \/ UNCHANGED job
  /\ calls' = [calls EXCEPT ![c] = NoCall]
  /\ UNCHANGED ads

\* A call dies on the server.
CallDies(c) ==
  /\ calls[c] # NoCall
  /\ calls' = [calls EXCEPT ![c] = NoCall]
  /\ UNCHANGED <<ads, reports, job>>

\* The task dies; a retry starts from the account list.
JobDies ==
  /\ job.pc # "idle"
  /\ job' = IdleJob
  /\ calls' = IF calls["awaited"] = NoCall THEN calls
              ELSE [awaited |-> NoCall, late |-> calls["awaited"]]
  /\ UNCHANGED <<ads, reports>>

\* Statuses, previews, tags and landing pages follow.
EndJob ==
  /\ job.pc = "done"
  /\ job' = IdleJob
  /\ UNCHANGED <<ads, reports, calls>>

\* Midnight passes.
NextDay ==
  /\ today < LastDay
  /\ today' = today + 1
  /\ UNCHANGED <<delivering, ads, removed, reports, job, calls>>

\* An ad has its first rows at Meta, for today or for a day Meta restates.
StartDelivering(a) ==
  /\ a \in LateAds \ delivering /\ a[1] <= today
  /\ delivering' = delivering \union {a}
  /\ UNCHANGED <<today, ads, removed, reports, job, calls>>

\* ad.delete; the rows of the ad go with it.
DeleteAd(a) ==
  /\ a \in ads \intersect DeletableAds
  /\ ads' = ads \ {a} /\ removed' = removed \union {a}
  /\ UNCHANGED <<today, delivering, reports, job, calls>>

Next ==
  \/ NextDay
  \/ \E a \in Days \X Pages : StartDelivering(a) \/ DeleteAd(a)
  \/ /\ \/ StartJob \/ SkipFresh \/ SkipExpired \/ StartReport \/ GiveUp
        \/ PollReady \/ PollFailed \/ ImportCached \/ ImportPage \/ AbandonCall
        \/ \E c \in DOMAIN calls : WriteRows(c) \/ RecordPage(c) \/ CallDies(c)
        \/ JobDies \/ EndJob
     /\ UNCHANGED outside

Spec == Init /\ [][Next]_vars

-----------------------------------------------------------------------------

Grains == {"base", "breakdown"}

Report == [grain : Grains, from : Days, to : Days,  applied : 0..2, next : 0..2, result : {"none", "success", "failed"},
           ended : 0..LastDay, named : SUBSET (Days \X Pages), pages : SUBSET Pages,
           lost : SUBSET (Days \X Pages)]

Call == [pc : {"write", "record"}, report : 1..MaxReports, page : Pages]

TypeOK ==
  /\ today \in FirstDay..LastDay
  /\ delivering \subseteq Days \X Pages
  /\ ads \subseteq Days \X Pages /\ removed \subseteq Days \X Pages
  /\ Len(reports) <= MaxReports /\ \A r \in DOMAIN reports : reports[r] \in Report
  /\ job \in [pc : {"idle", "prepare", "polling", "importing", "done"},
              from : 0..LastDay, to : 0..LastDay, fresh : SUBSET (1..MaxReports),
              step : 0..2, report : 0..MaxReports, page : 0..2, failed : BOOLEAN]
  /\ calls \in [{"awaited", "late"} -> Call \union {NoCall}]

(* A run of the Meta sync is a success only when every page of its report was  *)
(* imported, however calls were repeated, abandoned or late.                   *)
SuccessIsWholeReport ==
  \A r \in DOMAIN reports : reports[r].result = "success" => reports[r].pages = Pages

Covers(r, g, d) ==
  /\ reports[r].grain = g /\ reports[r].result = "success"
  /\ d \in reports[r].from..reports[r].to

(* A job that reports no failure leaves, for every grain and every retained day *)
(* of its window, a successful report; and what it imported itself lost no row  *)
(* of an ad that a successful base report of that day names, unless a user      *)
(* deleted the ad.  Two losses remain, and the job reports neither: an ad that  *)
(* starts delivering after that base report, which may have been skipped as     *)
(* fresh, and a row lost by an earlier job whose breakdown is skipped as fresh. *)
CleanJobIsWhole ==
  job.pc = "done" /\ ~job.failed =>
    \A g \in Grains : \A d \in job.from..job.to :
      d >= WindowStart(g, today) =>
        \E r \in DOMAIN reports :
          /\ Covers(r, g, d)
          /\ \/ r \in job.fresh
             \/ \E b \in DOMAIN reports :
                  /\ Covers(b, "base", d)
                  /\ reports[r].lost \intersect reports[b].named \subseteq removed
=============================================================================
