---------------------------- MODULE MetaSyncProofs ----------------------------
(***************************************************************************)
(* Proofs about MetaSync, for every calendar, retention and number of      *)
(* reports.  Late and repeated calls are harmless because a page is only   *)
(* asked for after the one before it was written, and a job that reports   *)
(* no failure has brought every ad before the breakdowns that need it.     *)
(***************************************************************************)
EXTENDS MetaSync, TLAPS

-----------------------------------------------------------------------------
\* The strengthening.

\* Pages are recorded after they are written, in their order.
ReportsAgree ==
  /\ reports \in Seq(Report)
  /\ \A r \in DOMAIN reports :
       /\ reports[r].applied # 0 => 1..reports[r].applied \subseteq reports[r].pages
       /\ reports[r].next = IF reports[r].applied = 1 THEN 2 ELSE 0
       /\ reports[r].applied = 2 => reports[r].result # "none"
       /\ reports[r].result = "success" => reports[r].pages = Pages
       /\ reports[r].grain = "base" =>
            /\ reports[r].lost = {}
            /\ \A p \in reports[r].pages : NamedAds(r, p) \subseteq ads \union removed

\* The first page is written before the second is asked for.
CallAgrees(c) ==
  calls[c] # NoCall =>
    /\ calls[c].report \in DOMAIN reports
    /\ calls[c].page = 2 => 1 \in reports[calls[c].report].pages
    /\ calls[c].pc = "record" => calls[c].page \in reports[calls[c].report].pages

\* The job works on one report; a call it waits for is about its page.
JobAgrees ==
  /\ job.pc # "idle" => job.step \in {1, 2} /\ job.from \in Days /\ job.to \in Days
  /\ job.pc \in {"polling", "importing"} =>
       job.report \in DOMAIN reports /\ reports[job.report].result # "failed"
  /\ job.pc = "importing" =>
       /\ job.page \in Pages
       /\ job.page = 2 => 1 \in reports[job.report].pages
  /\ calls["awaited"] # NoCall =>
       /\ job.pc = "importing"
       /\ calls["awaited"].report = job.report /\ calls["awaited"].page = job.page

\* A base report of the day brought every ad the report lost, or a user has
\* deleted it.
IsSafe(r, d) ==
  \E b \in DOMAIN reports :
    Covers(b, "base", d) /\ reports[r].lost \intersect reports[b].named \subseteq removed

\* What is behind the job is covered.
IsCovered(g) ==
  \A d \in job.from..job.to :
    d >= WindowStart(g, today) =>
      \E r \in DOMAIN reports :
        Covers(r, g, d) /\ (r \notin job.fresh => IsSafe(r, d))

WorkAgrees ==
  job.pc # "idle" /\ ~job.failed =>
    /\ \A r \in job.fresh : r \in DOMAIN reports /\ reports[r].result = "success"
    /\ job.step = 2 \/ job.pc = "done" => IsCovered("base")
    /\ job.pc = "done" => IsCovered("breakdown")
    /\ job.pc \in {"polling", "importing"} =>
         /\ reports[job.report].grain = Grain /\ reports[job.report].to = job.to
         /\ \A d \in job.from..job.to :
              d >= WindowStart(Grain, today) =>
                /\ d >= reports[job.report].from
                /\ Grain = "breakdown" => IsSafe(job.report, d)

SyncInv ==
  TypeOK /\ ReportsAgree /\ (\A c \in DOMAIN calls : CallAgrees(c)) /\ JobAgrees /\ WorkAgrees

-----------------------------------------------------------------------------
\* What every step does to the reports.

JobType ==
  [pc : {"idle", "prepare", "polling", "importing", "done"},
   from : 0..LastDay, to : 0..LastDay, fresh : SUBSET (1..MaxReports),
   step : 0..2, report : 0..MaxReports, page : 0..2, failed : BOOLEAN]

\* What a step keeps of the reports.
RowsKept ==
  \A r \in DOMAIN reports :
    /\ r \in DOMAIN reports'
    /\ reports[r].grain = reports'[r].grain /\ reports[r].named = reports'[r].named
    /\ reports[r].from = reports'[r].from /\ reports[r].to = reports'[r].to
    /\ reports[r].pages \subseteq reports'[r].pages
    /\ reports[r].result = "success" => reports'[r].result = "success" \/ job'.failed
    /\ reports'[r].result = "failed" => reports[r].result = "failed" \/ job'.report # r

\* Nothing that was stored is taken back, except by a job that then failed and
\* by a user.
Kept ==
  /\ removed \subseteq removed'
  /\ ads \union removed \subseteq ads' \union removed'
  /\ RowsKept
  /\ \A r \in DOMAIN reports : \A d : IsSafe(r, d) => IsSafe(r, d)' \/ job'.failed

\* The ads a successful base report names are stored, unless deleted since.
LEMMA BaseIsStored ==
  ASSUME TypeOK, ReportsAgree, NEW b \in DOMAIN reports,
         reports[b].grain = "base", reports[b].result = "success"
  PROVE  reports[b].named \subseteq ads \union removed
<1>1. reports[b] \in Report
  BY DEF TypeOK
<1>2. reports[b].named \subseteq Days \X Pages
  BY <1>1 DEF Report
<1>3. \A p \in Pages : NamedAds(b, p) \subseteq ads \union removed
  BY DEF ReportsAgree
<1> QED
  BY <1>2, <1>3 DEF NamedAds

\* A step that loses no row a base report could have kept keeps what is safe.
LEMMA KeptIf ==
  ASSUME removed \subseteq removed', ads \union removed \subseteq ads' \union removed',
         RowsKept,
         \A r, b \in DOMAIN reports :
           /\ reports[b].grain = "base" /\ reports[b].result = "success"
           /\ reports[r].lost \intersect reports[b].named \subseteq removed
           => reports'[r].lost \intersect reports[b].named \subseteq removed'
  PROVE  Kept
<1> SUFFICES ASSUME NEW r \in DOMAIN reports, NEW d, IsSafe(r, d), ~job'.failed
             PROVE  IsSafe(r, d)'
  BY DEF Kept, RowsKept
<1>1. PICK b \in DOMAIN reports :
        Covers(b, "base", d) /\ reports[r].lost \intersect reports[b].named \subseteq removed
  BY DEF IsSafe
<1>2. b \in DOMAIN reports' /\ Covers(b, "base", d)'
  BY <1>1 DEF Covers, RowsKept
<1>3. reports'[r].lost \intersect reports'[b].named \subseteq removed'
  BY <1>1 DEF Covers, RowsKept
<1> QED
  BY <1>2, <1>3 DEF IsSafe

\* A call that changes no report keeps them all.
LEMMA QuietKept ==
  ASSUME UNCHANGED <<ads, removed, reports>>
  PROVE  Kept
BY KeptIf DEF RowsKept

LEMMA QuietReports ==
  ASSUME ReportsAgree, UNCHANGED <<ads, removed, reports>>
  PROVE  ReportsAgree'
BY DEF ReportsAgree, NamedAds

\* A later day retains no more.
LEMMA WindowInt ==
  ASSUME NEW CONSTANT g, BaseDays \in Int, BreakdownDays \in Int
  PROVE  WindowStart(g, 0) \in Int
BY DEF WindowStart

LEMMA LaterWindow ==
  ASSUME NEW CONSTANT g, NEW CONSTANT d \in Int, NEW CONSTANT s \in Int, NEW CONSTANT t \in Int, s <= t,
         NEW CONSTANT k \in Int, k = WindowStart(g, 0), BaseDays \in Int, BreakdownDays \in Int,
         d >= WindowStart(g, t)
  PROVE  d >= WindowStart(g, s)
<1>1. WindowStart(g, s) = s + k /\ WindowStart(g, t) = t + k
  BY DEF WindowStart
<1>2. d >= t + k
  BY <1>1
<1>3. d >= s + k
  BY <1>2
<1> QED
  BY <1>1, <1>3

\* What is covered stays covered.
LEMMA CoveredStays ==
  ASSUME NEW CONSTANT g, IsCovered(g), Kept, today \in Int, today' \in Int, today <= today',
         job.from \in Int, job.to \in Int, BaseDays \in Int, BreakdownDays \in Int,
         job'.from = job.from, job'.to = job.to, job'.fresh = job.fresh, ~job'.failed
  PROVE  IsCovered(g)'
<1> SUFFICES ASSUME NEW d \in job.from..job.to, d >= WindowStart(g, today')
             PROVE  \E r \in DOMAIN reports' :
                      Covers(r, g, d)' /\ (r \notin job.fresh => IsSafe(r, d)')
  BY DEF IsCovered
<1>1. d >= WindowStart(g, today)
  BY LaterWindow, WindowInt
<1>2. PICK r \in DOMAIN reports : Covers(r, g, d) /\ (r \notin job.fresh => IsSafe(r, d))
  BY <1>1 DEF IsCovered
<1>3. r \in DOMAIN reports' /\ Covers(r, g, d)'
  BY <1>2 DEF Covers, Kept, RowsKept
<1>4. IsSafe(r, d) => IsSafe(r, d)'
  BY DEF Kept, RowsKept
<1> QED
  BY <1>2, <1>3, <1>4

\* The job with its current breakdown behind it.
LEMMA BreakdownJob ==
  ASSUME job \in JobType, job.step \in {1, 2}, NEW b \in BOOLEAN
  PROVE  /\ NextBreakdown(b) \in JobType
         /\ NextBreakdown(b).report = 0
         /\ NextBreakdown(b).pc = IF job.step = 2 THEN "done" ELSE "prepare"
         /\ NextBreakdown(b).step = 2
         /\ NextBreakdown(b).failed = (job.failed \/ b)
         /\ NextBreakdown(b).from = job.from /\ NextBreakdown(b).to = job.to
         /\ NextBreakdown(b).fresh = job.fresh
<1>1. Len(Breakdowns) = 2
  BY DEF Breakdowns
<1>2. CASE job.step = 1
  <2> SUFFICES ASSUME NEW f \in BOOLEAN, f = (job.failed \/ b)
               PROVE  /\ NextBreakdown(b) \in JobType /\ NextBreakdown(b).report = 0
                      /\ NextBreakdown(b).pc = "prepare" /\ NextBreakdown(b).step = 2
                      /\ NextBreakdown(b).failed = f
                      /\ NextBreakdown(b).from = job.from /\ NextBreakdown(b).to = job.to
                      /\ NextBreakdown(b).fresh = job.fresh
    BY <1>2 DEF JobType
  <2>1. NextBreakdown(b) = [job EXCEPT !.pc = "prepare", !.step = 2, !.failed = f,
                                       !.report = 0, !.page = 0]
    BY <1>1, <1>2 DEF NextBreakdown
  <2>2. NextBreakdown(b) \in JobType
    <3>1. NextBreakdown(b) = [pc |-> "prepare", from |-> job.from, to |-> job.to, fresh |-> job.fresh,
                              step |-> 2, report |-> 0, page |-> 0, failed |-> f]
      BY <2>1 DEF JobType
    <3>2. 0 \in 0..MaxReports
      BY MetaSyncAssumption DEF MetaSyncAssumption
    <3> QED
      BY <3>1, <3>2 DEF JobType
  <2>3. NextBreakdown(b).failed = f
    BY <2>1 DEF JobType
  <2>4. NextBreakdown(b).pc = "prepare" /\ NextBreakdown(b).step = 2
    BY <2>1 DEF JobType
  <2>5. /\ NextBreakdown(b).from = job.from /\ NextBreakdown(b).to = job.to
        /\ NextBreakdown(b).fresh = job.fresh /\ NextBreakdown(b).report = 0
    BY <2>1 DEF JobType
  <2> QED
    BY <2>2, <2>3, <2>4, <2>5
<1>3. CASE job.step = 2
  <2> SUFFICES ASSUME NEW f \in BOOLEAN, f = (job.failed \/ b)
               PROVE  /\ NextBreakdown(b) \in JobType /\ NextBreakdown(b).report = 0
                      /\ NextBreakdown(b).pc = "done" /\ NextBreakdown(b).step = 2
                      /\ NextBreakdown(b).failed = f
                      /\ NextBreakdown(b).from = job.from /\ NextBreakdown(b).to = job.to
                      /\ NextBreakdown(b).fresh = job.fresh
    BY <1>3 DEF JobType
  <2>1. NextBreakdown(b) = [job EXCEPT !.pc = "done", !.step = 2, !.failed = f,
                                       !.report = 0, !.page = 0]
    BY <1>1, <1>3 DEF NextBreakdown
  <2>2. NextBreakdown(b) \in JobType
    <3>1. NextBreakdown(b) = [pc |-> "done", from |-> job.from, to |-> job.to, fresh |-> job.fresh,
                              step |-> 2, report |-> 0, page |-> 0, failed |-> f]
      BY <2>1 DEF JobType
    <3>2. 0 \in 0..MaxReports
      BY MetaSyncAssumption DEF MetaSyncAssumption
    <3> QED
      BY <3>1, <3>2 DEF JobType
  <2>3. NextBreakdown(b).failed = f
    BY <2>1 DEF JobType
  <2>4. NextBreakdown(b).pc = "done" /\ NextBreakdown(b).step = 2
    BY <2>1 DEF JobType
  <2>5. /\ NextBreakdown(b).from = job.from /\ NextBreakdown(b).to = job.to
        /\ NextBreakdown(b).fresh = job.fresh /\ NextBreakdown(b).report = 0
    BY <2>1 DEF JobType
  <2> QED
    BY <2>2, <2>3, <2>4, <2>5
<1> QED
  BY <1>2, <1>3

\* It lands on the next breakdown covered or failed.
LEMMA LandsOn ==
  ASSUME TypeOK, ReportsAgree, JobAgrees, WorkAgrees, Kept, today' = today,
         MetaSyncAssumption, job.pc # "idle",
         NEW b \in BOOLEAN, job' = NextBreakdown(b), calls'["awaited"] = NoCall,
         NEW CONSTANT g, g = Grain, ~b /\ ~job.failed => IsCovered(g)'
  PROVE  JobAgrees' /\ WorkAgrees'
<1>1. job \in JobType /\ job.step \in {1, 2}
  BY DEF TypeOK, JobType, JobAgrees
<1>2. /\ job'.pc = IF job.step = 2 THEN "done" ELSE "prepare"
      /\ job'.step = 2
      /\ job'.failed = (job.failed \/ b)
      /\ job'.from = job.from /\ job'.to = job.to
      /\ job'.fresh = job.fresh
  BY <1>1, BreakdownJob
<1>3. JobAgrees'
  BY <1>1, <1>2 DEF JobAgrees
<1>4. ASSUME ~job'.failed  PROVE WorkAgrees'
  <2>1. ~b /\ ~job.failed
    BY <1>2, <1>4, <1>1 DEF JobType
  <2>2. \A r \in job'.fresh : r \in DOMAIN reports' /\ reports'[r].result = "success"
    BY <2>1, <1>2, <1>4 DEF WorkAgrees, Kept, RowsKept
  <2>3. /\ Breakdowns[1] = "base" /\ Breakdowns[2] = "breakdown"
    BY DEF Breakdowns
  <2>4. IsCovered("base")'
    <3>1. CASE job.step = 1
      BY <2>1, <2>3, <3>1 DEF Grain
    <3>2. CASE job.step = 2
      <4>1. IsCovered("base")
        BY <2>1, <3>2 DEF WorkAgrees
      <4>2. /\ today \in Int /\ job.from \in Int /\ job.to \in Int
            /\ BaseDays \in Int /\ BreakdownDays \in Int
        BY DEF TypeOK, MetaSyncAssumption
      <4> QED
        BY <4>1, <4>2, <1>2, <1>4, CoveredStays
    <3> QED
      BY <1>1, <3>1, <3>2
  <2>5. job'.pc = "done" => IsCovered("breakdown")'
    BY <2>1, <2>3, <1>1, <1>2 DEF Grain
  <2> QED
    BY <2>2, <2>4, <2>5, <1>2, <1>1 DEF WorkAgrees
<1> QED
  BY <1>3, <1>4 DEF WorkAgrees

-----------------------------------------------------------------------------
\* What a step leaves alone stays as it is.

CallType == [{"awaited", "late"} -> Call \union {NoCall}]

LEMMA Facts ==
  ASSUME SyncInv
  PROVE  /\ job \in JobType /\ calls \in CallType /\ DOMAIN calls = {"awaited", "late"}
         /\ today \in Int /\ BaseDays \in Int /\ BreakdownDays \in Int
         /\ job.from \in Int /\ job.to \in Int
         /\ MaxReports \in Nat /\ LastDay \in Nat /\ 1 <= today /\ today <= LastDay
         /\ reports \in Seq(Report) /\ Len(reports) <= MaxReports
BY MetaSyncAssumption
   DEF SyncInv, TypeOK, ReportsAgree, JobType, CallType, MetaSyncAssumption

LEMMA CallStays ==
  ASSUME NEW CONSTANT c, CallAgrees(c), Kept, calls'[c] \in {calls[c], NoCall}
  PROVE  CallAgrees(c)'
BY DEF CallAgrees, Kept, RowsKept

LEMMA JobStays ==
  ASSUME JobAgrees, Kept, UNCHANGED job, calls'["awaited"] \in {calls["awaited"], NoCall}
  PROVE  JobAgrees'
BY DEF JobAgrees, Kept, RowsKept

LEMMA WorkStays ==
  ASSUME SyncInv, Kept, UNCHANGED job, today' \in Int, today <= today'
  PROVE  WorkAgrees'
<1> SUFFICES ASSUME job.pc # "idle", ~job.failed  PROVE WorkAgrees'
  BY DEF WorkAgrees
<1>1. WorkAgrees
  BY DEF SyncInv
<1>2. ASSUME NEW CONSTANT g, IsCovered(g)  PROVE IsCovered(g)'
  BY <1>2, Facts, CoveredStays
<1>3. \A r \in job.fresh : r \in DOMAIN reports' /\ reports'[r].result = "success"
  BY <1>1 DEF WorkAgrees, Kept, RowsKept
<1>4. job.step = 2 \/ job.pc = "done" => IsCovered("base")'
  BY <1>1, <1>2 DEF WorkAgrees
<1>5. job.pc = "done" => IsCovered("breakdown")'
  BY <1>1, <1>2 DEF WorkAgrees
<1>6. ASSUME job.pc \in {"polling", "importing"}
      PROVE  /\ reports'[job.report].grain = Grain /\ reports'[job.report].to = job.to
             /\ \A d \in job.from..job.to :
                  d >= WindowStart(Grain, today') =>
                    /\ d >= reports'[job.report].from
                    /\ Grain = "breakdown" => IsSafe(job.report, d)'
  <2>1. /\ reports[job.report].grain = Grain /\ reports[job.report].to = job.to
        /\ \A d \in job.from..job.to :
             d >= WindowStart(Grain, today) =>
               /\ d >= reports[job.report].from
               /\ Grain = "breakdown" => IsSafe(job.report, d)
        /\ job.report \in DOMAIN reports
    BY <1>1, <1>6 DEF WorkAgrees, SyncInv, JobAgrees
  <2>2. ASSUME NEW d \in job.from..job.to, NEW CONSTANT g, d >= WindowStart(g, today')
        PROVE  d >= WindowStart(g, today)
    BY <2>2, Facts, LaterWindow, WindowInt
  <2>3. \A d \in job.from..job.to :
          d >= WindowStart(Grain, today') =>
            /\ d >= reports'[job.report].from
            /\ Grain = "breakdown" => IsSafe(job.report, d)'
    <3>1. SUFFICES ASSUME NEW CONSTANT g, g = Grain, NEW d \in job.from..job.to,
                          d >= WindowStart(g, today')
                   PROVE  /\ d >= reports'[job.report].from
                          /\ g = "breakdown" => IsSafe(job.report, d)'
      OBVIOUS
    <3>2. d >= WindowStart(g, today)
      BY <3>1, <2>2
    <3> QED
      BY <2>1, <3>1, <3>2 DEF Kept, RowsKept
  <2> QED
    BY <2>1, <2>3 DEF Kept, RowsKept
<1>7. Grain' = Grain
  BY DEF Grain
<1> QED
  BY <1>3, <1>4, <1>5, <1>6, <1>7 DEF WorkAgrees

LEMMA QuietSync ==
  ASSUME SyncInv, UNCHANGED <<today, delivering, ads, removed, reports>>,
         job' \in JobType, calls' \in CallType,
         \A c \in {"awaited", "late"} : CallAgrees(c)', JobAgrees', WorkAgrees'
  PROVE  SyncInv'
<1>1. TypeOK'
  BY DEF SyncInv, TypeOK, JobType, CallType
<1>2. ReportsAgree'
  BY QuietReports DEF SyncInv
<1>3. DOMAIN calls' = {"awaited", "late"}
  BY DEF CallType
<1> QED
  BY <1>1, <1>2, <1>3 DEF SyncInv

\* A call that only moves the job to the next breakdown.
LEMMA QuietLanding ==
  ASSUME SyncInv, UNCHANGED <<today, delivering, ads, removed, reports, calls>>, job.pc # "idle",
         calls["awaited"] = NoCall,
         NEW b \in BOOLEAN, job' = NextBreakdown(b),
         NEW CONSTANT g, g = Grain, ~b /\ ~job.failed => IsCovered(g)
  PROVE  SyncInv'
<1>1. Kept
  BY QuietKept
<1>2. job \in JobType /\ job.step \in {1, 2}
  BY Facts DEF SyncInv, JobAgrees
<1>3. job' \in JobType /\ job'.from = job.from /\ job'.to = job.to /\ job'.fresh = job.fresh
  BY <1>2, BreakdownJob
<1>4. ~b /\ ~job.failed => IsCovered(g)'
  BY <1>3 DEF IsCovered, IsSafe, Covers
<1>5. JobAgrees' /\ WorkAgrees'
  BY <1>1, <1>4, LandsOn, MetaSyncAssumption DEF SyncInv
<1>6. \A c \in {"awaited", "late"} : CallAgrees(c)'
  BY <1>1, CallStays, Facts DEF SyncInv
<1> QED
  BY <1>3, <1>5, <1>6, QuietSync, Facts

-----------------------------------------------------------------------------
\* The steps that change no report.

LEMMA SkipFreshSync ==
  ASSUME SyncInv, SkipFresh, UNCHANGED <<today, delivering, removed>>
  PROVE  SyncInv'
<1> SUFFICES ASSUME NEW CONSTANT g, g = Grain  PROVE SyncInv'
  OBVIOUS
<1>1. PICK r \in job.fresh : reports[r].grain = g /\ reports[r].from = job.from
                             /\ reports[r].to = job.to
  BY DEF SkipFresh, WasFresh
<1>2. ~job.failed => IsCovered(g)
  BY <1>1 DEF SkipFresh, SyncInv, WorkAgrees, IsCovered, Covers
<1>3. calls["awaited"] = NoCall
  BY DEF SyncInv, JobAgrees, SkipFresh
<1> QED
  BY <1>2, <1>3, QuietLanding DEF SkipFresh

LEMMA SkipExpiredSync ==
  ASSUME SyncInv, SkipExpired, UNCHANGED <<today, delivering, removed>>
  PROVE  SyncInv'
<1> SUFFICES ASSUME NEW CONSTANT g, g = Grain  PROVE SyncInv'
  OBVIOUS
<1>1. PICK w \in Int : w = WindowStart(g, today)
  BY Facts DEF WindowStart
<1>2. IsCovered(g)
  BY <1>1, Facts DEF SkipExpired, IsCovered
<1>3. calls["awaited"] = NoCall
  BY DEF SyncInv, JobAgrees, SkipExpired
<1> QED
  BY <1>2, <1>3, QuietLanding DEF SkipExpired

LEMMA GiveUpSync ==
  ASSUME SyncInv, GiveUp, UNCHANGED <<today, delivering, removed>>
  PROVE  SyncInv'
<1> SUFFICES ASSUME NEW CONSTANT g, g = Grain  PROVE SyncInv'
  OBVIOUS
<1>1. calls["awaited"] = NoCall /\ job.pc # "idle"
  BY DEF SyncInv, JobAgrees, GiveUp
<1> QED
  BY <1>1, QuietLanding DEF GiveUp

LEMMA ReportDays ==
  ASSUME NEW r \in Report, LastDay \in Nat
  PROVE  r.from \in Int /\ r.to \in Int
BY DEF Report, Days

\* A report imported as a whole covers its breakdown.
LEMMA ImportedCovers ==
  ASSUME SyncInv, job.pc = "importing", ~job.failed, reports[job.report].result = "success",
         NEW CONSTANT g, g = Grain
  PROVE  IsCovered(g)
<1>1. /\ job.report \in DOMAIN reports
      /\ reports[job.report].grain = g /\ reports[job.report].to = job.to
      /\ \A d \in job.from..job.to :
           d >= WindowStart(g, today) =>
             /\ d >= reports[job.report].from
             /\ g = "breakdown" => IsSafe(job.report, d)
  BY DEF SyncInv, JobAgrees, WorkAgrees
<1>2. g \in {"base", "breakdown"}
  BY DEF Grain, Breakdowns, SyncInv, JobAgrees
<1>3. reports[job.report].from \in Int /\ reports[job.report].to \in Int
  <2>1. reports[job.report] \in Report
    BY <1>1, Facts
  <2> QED
    BY <2>1, Facts, ReportDays
<1> SUFFICES ASSUME NEW d \in job.from..job.to, d >= WindowStart(g, today)
             PROVE  Covers(job.report, g, d) /\ IsSafe(job.report, d)
  BY <1>1 DEF IsCovered
<1>4. Covers(job.report, g, d)
  <2>1. d >= reports[job.report].from
    BY <1>1
  <2> QED
    BY <1>1, <1>3, <2>1, Facts DEF Covers
<1>5. CASE g = "base"
  <2>1. reports[job.report].lost = {}
    BY <1>1, <1>5 DEF SyncInv, ReportsAgree
  <2>2. reports[job.report].lost \intersect reports[job.report].named \subseteq removed
    BY <2>1
  <2> QED
    BY <1>1, <1>4, <1>5, <2>2 DEF IsSafe
<1>6. CASE g = "breakdown"
  BY <1>1, <1>4, <1>6
<1> QED
  BY <1>2, <1>4, <1>5, <1>6

LEMMA PageJob ==
  ASSUME job \in JobType, NEW p \in 0..2
  PROVE  [job EXCEPT !.page = p] \in JobType
BY DEF JobType

LEMMA ImportCachedSync ==
  ASSUME SyncInv, ImportCached, UNCHANGED <<today, delivering, removed>>
  PROVE  SyncInv'
<1> SUFFICES ASSUME NEW CONSTANT g, g = Grain  PROVE SyncInv'
  OBVIOUS
<1>1. /\ job.report \in DOMAIN reports /\ reports[job.report].result # "failed"
      /\ job.page \in {1, 2} /\ job.pc = "importing" /\ calls["awaited"] = NoCall
      /\ UNCHANGED <<ads, reports, calls>>
  BY DEF SyncInv, JobAgrees, ImportCached, Pages
<1>2. reports[job.report] \in Report
  BY <1>1, Facts
<1>3. CASE reports[job.report].result # "none"
  <2>1. reports[job.report].result = "success"
    BY <1>1, <1>2, <1>3 DEF Report
  <2>2. job' = NextBreakdown(FALSE)
    BY <1>3 DEF ImportCached, Answered
  <2> QED
    BY <1>1, <2>1, <2>2, ImportedCovers, QuietLanding
<1>4. CASE reports[job.report].result = "none"
  <2>1. reports[job.report].applied = job.page /\ job' = Answered(reports[job.report].next)
    BY <1>4 DEF ImportCached
  <2>2. reports[job.report].applied = 1 /\ reports[job.report].next = 2
        /\ 1 \in reports[job.report].pages
    BY <1>1, <1>4, <2>1 DEF SyncInv, ReportsAgree
  <2>3. job' = [job EXCEPT !.page = 2]
    BY <2>1, <2>2 DEF Answered
  <2>4. job' \in JobType
    BY <2>3, PageJob, Facts
  <2>5. /\ job'.pc = job.pc /\ job'.report = job.report /\ job'.from = job.from
        /\ job'.to = job.to /\ job'.step = job.step /\ job'.fresh = job.fresh
        /\ job'.page = 2
    BY <2>3, Facts DEF JobType
  <2>6. job'.failed = job.failed
    BY <2>3, Facts DEF JobType
  <2>7. JobAgrees'
    BY <1>1, <2>2, <2>5 DEF SyncInv, JobAgrees, Pages
  <2>8. WorkAgrees'
    BY <1>1, <2>5, <2>6 DEF SyncInv, WorkAgrees, IsCovered, IsSafe, Covers, Grain
  <2>9. \A c \in {"awaited", "late"} : CallAgrees(c)'
    BY <1>1, Facts DEF SyncInv, CallAgrees
  <2> QED
    BY <1>1, <2>4, <2>7, <2>8, <2>9, QuietSync, Facts
<1> QED
  BY <1>3, <1>4

LEMMA PollReadySync ==
  ASSUME SyncInv, PollReady, UNCHANGED <<today, delivering, removed>>
  PROVE  SyncInv'
<1>1. job' = [job EXCEPT !.pc = "importing", !.page = 1] /\ job.pc = "polling"
      /\ UNCHANGED <<ads, reports, calls>>
  BY DEF PollReady
<1>2. /\ job'.pc = "importing" /\ job'.report = job.report /\ job'.from = job.from
      /\ job'.to = job.to /\ job'.step = job.step /\ job'.fresh = job.fresh
      /\ job'.page = 1
  BY <1>1, Facts DEF JobType
<1>3. job'.failed = job.failed
  BY <1>1, Facts DEF JobType
<1>4. job' \in JobType
  <2>1. [job EXCEPT !.page = 1] \in JobType
    BY PageJob, Facts
  <2>2. job' = [[job EXCEPT !.page = 1] EXCEPT !.pc = "importing"]
    BY <1>1, Facts DEF JobType
  <2> QED
    BY <2>1, <2>2 DEF JobType
<1>5. JobAgrees'
  BY <1>1, <1>2 DEF SyncInv, JobAgrees, Pages
<1>6. WorkAgrees'
  BY <1>1, <1>2, <1>3 DEF SyncInv, WorkAgrees, IsCovered, IsSafe, Covers, Grain
<1>7. \A c \in {"awaited", "late"} : CallAgrees(c)'
  BY <1>1, Facts DEF SyncInv, CallAgrees
<1> QED
  BY <1>1, <1>4, <1>5, <1>6, <1>7, QuietSync, Facts

LEMMA IdleInType == IdleJob \in JobType
<1>1. 0 \in 0..LastDay /\ 0 \in 0..MaxReports
  BY MetaSyncAssumption DEF MetaSyncAssumption
<1> QED
  BY <1>1 DEF IdleJob, JobType

\* A job that ends or dies leaves a call behind at most.
LEMMA IdleSync ==
  ASSUME SyncInv, UNCHANGED <<today, delivering, ads, removed, reports>>, job' = IdleJob, calls' \in CallType,
         calls'["awaited"] = NoCall,
         calls'["late"] \in {calls["awaited"], calls["late"], NoCall}
  PROVE  SyncInv'
<1>1. job'.pc = "idle" /\ job' \in JobType
  BY IdleInType DEF IdleJob
<1>2. JobAgrees' /\ WorkAgrees'
  BY <1>1 DEF JobAgrees, WorkAgrees
<1>3. \A c \in {"awaited", "late"} : CallAgrees(c)'
  BY Facts DEF SyncInv, CallAgrees
<1> QED
  BY <1>1, <1>2, <1>3, QuietSync

LEMMA EndsSync ==
  ASSUME SyncInv, JobDies \/ EndJob, UNCHANGED <<today, delivering, removed>>
  PROVE  SyncInv'
<1>1. CASE JobDies
  <2>1. /\ job' = IdleJob /\ UNCHANGED <<ads, reports>>
        /\ calls["awaited"] = NoCall => calls' = calls
        /\ calls["awaited"] # NoCall => calls' = [awaited |-> NoCall, late |-> calls["awaited"]]
    BY <1>1 DEF JobDies
  <2>2. /\ calls' \in CallType
        /\ calls'["awaited"] = NoCall
        /\ calls'["late"] \in {calls["awaited"], calls["late"], NoCall}
    BY <2>1, Facts DEF CallType
  <2> QED
    BY <2>1, <2>2, IdleSync
<1>2. CASE EndJob
  BY <1>2, IdleSync, Facts DEF EndJob, SyncInv, JobAgrees
<1> QED
  BY <1>1, <1>2

LEMMA StartJobSync ==
  ASSUME SyncInv, StartJob, UNCHANGED <<today, delivering, removed>>
  PROVE  SyncInv'
<1>1. PICK from \in 1..today, to \in 1..today,
           fresh \in SUBSET {r \in DOMAIN reports :
                               reports[r].result = "success" /\ reports[r].ended >= today - 1} :
        /\ from <= to
        /\ job' = [IdleJob EXCEPT !.pc = "prepare", !.step = 1, !.fresh = fresh,
                                  !.from = from, !.to = to]
  BY DEF StartJob
<1>2. job' = [pc |-> "prepare", from |-> from, to |-> to, fresh |-> fresh, step |-> 1,
              report |-> 0, page |-> 0, failed |-> FALSE]
  BY <1>1 DEF IdleJob
<1>3. from \in 1..LastDay /\ to \in 1..LastDay /\ fresh \subseteq 1..MaxReports
  BY <1>1, Facts
<1>4. job' \in JobType
  BY <1>2, <1>3, Facts DEF JobType
<1>5. job.pc = "idle" /\ UNCHANGED <<ads, reports, calls>>
  BY DEF StartJob
<1>6. JobAgrees'
  BY <1>2, <1>3, <1>5 DEF JobAgrees, SyncInv, Days
<1>7. WorkAgrees'
  BY <1>1, <1>2, <1>5 DEF WorkAgrees
<1>8. \A c \in {"awaited", "late"} : CallAgrees(c)'
  BY <1>5, Facts DEF SyncInv, CallAgrees
<1> QED
  BY <1>4, <1>5, <1>6, <1>7, <1>8, QuietSync, Facts

\* Calls that start, are left alone or die.

LEMMA ImportPageSync ==
  ASSUME SyncInv, ImportPage, UNCHANGED <<today, delivering, removed>>
  PROVE  SyncInv'
<1>1. /\ calls' = [calls EXCEPT !["awaited"] =
                    [pc |-> "write", report |-> job.report, page |-> job.page]]
      /\ job.pc = "importing" /\ UNCHANGED <<ads, reports, job>>
  BY DEF ImportPage
<1>2. /\ job.report \in DOMAIN reports /\ job.page \in Pages
      /\ job.page = 2 => 1 \in reports[job.report].pages
  BY <1>1 DEF SyncInv, JobAgrees
<1>3. job.report \in 1..MaxReports
  BY <1>2, Facts
<1>4. [pc |-> "write", report |-> job.report, page |-> job.page] \in Call
  BY <1>2, <1>3 DEF Call
<1>5. /\ calls' \in CallType /\ calls'["late"] = calls["late"]
      /\ calls'["awaited"] = [pc |-> "write", report |-> job.report, page |-> job.page]
  BY <1>1, <1>4, Facts DEF CallType
<1>6. JobAgrees'
  BY <1>1, <1>5 DEF SyncInv, JobAgrees
<1>7. WorkAgrees'
  BY <1>1, Facts, QuietKept, WorkStays
<1>8. \A c \in {"awaited", "late"} : CallAgrees(c)'
  BY <1>1, <1>2, <1>5, Facts DEF SyncInv, CallAgrees
<1> QED
  BY <1>1, <1>5, <1>6, <1>7, <1>8, QuietSync, Facts

LEMMA AbandonCallSync ==
  ASSUME SyncInv, AbandonCall, UNCHANGED <<today, delivering, removed>>
  PROVE  SyncInv'
<1>1. calls' = [awaited |-> NoCall, late |-> calls["awaited"]] /\ UNCHANGED <<ads, reports, job>>
  BY DEF AbandonCall
<1>2. calls' \in CallType /\ calls'["awaited"] = NoCall /\ calls'["late"] = calls["awaited"]
  BY <1>1, Facts DEF CallType
<1>3. JobAgrees'
  BY <1>1, <1>2, QuietKept, JobStays DEF SyncInv
<1>4. WorkAgrees'
  BY <1>1, Facts, QuietKept, WorkStays
<1>5. \A c \in {"awaited", "late"} : CallAgrees(c)'
  BY <1>1, <1>2, Facts DEF SyncInv, CallAgrees
<1> QED
  BY <1>1, <1>2, <1>3, <1>4, <1>5, QuietSync, Facts

LEMMA CallDiesSync ==
  ASSUME SyncInv, NEW CONSTANT c \in DOMAIN calls, CallDies(c), UNCHANGED <<today, delivering, removed>>
  PROVE  SyncInv'
<1>1. calls' = [calls EXCEPT ![c] = NoCall] /\ UNCHANGED <<ads, reports, job>>
  BY DEF CallDies
<1>2. calls' \in CallType /\ \A e \in {"awaited", "late"} : calls'[e] \in {calls[e], NoCall}
  BY <1>1, Facts DEF CallType
<1>3. JobAgrees'
  BY <1>1, <1>2, QuietKept, JobStays DEF SyncInv
<1>4. WorkAgrees'
  BY <1>1, Facts, QuietKept, WorkStays
<1>5. \A e \in {"awaited", "late"} : CallAgrees(e)'
  BY <1>1, <1>2, Facts, QuietKept, CallStays DEF SyncInv
<1> QED
  BY <1>1, <1>2, <1>3, <1>4, <1>5, QuietSync, Facts

\* A later day retains less, so what is covered stays covered.
LEMMA NextDaySync ==
  ASSUME SyncInv, NextDay
  PROVE  SyncInv'
<1>1. /\ today' = today + 1 /\ today' <= LastDay
      /\ UNCHANGED <<delivering, ads, removed, reports, job, calls>>
  BY Facts DEF NextDay
<1>2. Kept
  BY <1>1, QuietKept
<1>3. today' \in FirstDay..LastDay
  BY <1>1, MetaSyncAssumption DEF SyncInv, TypeOK, MetaSyncAssumption
<1>4. TypeOK'
  BY <1>1, <1>3 DEF SyncInv, TypeOK
<1>5. ReportsAgree'
  BY <1>1, QuietReports DEF SyncInv
<1>6. JobAgrees'
  BY <1>1, <1>2, JobStays DEF SyncInv
<1>7. WorkAgrees'
  <2>1. today' \in Int /\ today <= today'
    BY <1>1, Facts
  <2> QED
    BY <1>1, <1>2, <2>1, WorkStays
<1>8. \A c \in DOMAIN calls' : CallAgrees(c)'
  BY <1>1 DEF SyncInv, CallAgrees
<1> QED
  BY <1>4, <1>5, <1>6, <1>7, <1>8 DEF SyncInv

\* Outside the sync ads start to deliver, and users delete them.
LEMMA OutsideSync ==
  ASSUME SyncInv, NEW a \in Days \X Pages, StartDelivering(a) \/ DeleteAd(a)
  PROVE  SyncInv'
<1>1. /\ UNCHANGED <<today, reports, job, calls>>
      /\ delivering' \subseteq delivering \union {a}
      /\ ads' \subseteq ads /\ removed' \subseteq removed \union {a}
      /\ removed \subseteq removed' /\ ads \union removed \subseteq ads' \union removed'
  BY DEF StartDelivering, DeleteAd
<1>2. TypeOK'
  BY <1>1 DEF SyncInv, TypeOK
<1>3. Kept
  BY <1>1, KeptIf DEF RowsKept
<1>4. ReportsAgree'
  BY <1>1 DEF SyncInv, ReportsAgree, NamedAds
<1>5. \A c \in DOMAIN calls' : CallAgrees(c)'
  BY <1>1 DEF SyncInv, CallAgrees
<1>6. JobAgrees' /\ WorkAgrees'
  <2>1. today' \in Int /\ today <= today'
    BY <1>1, Facts
  <2> QED
    BY <1>1, <1>3, <2>1, JobStays, WorkStays DEF SyncInv
<1> QED
  BY <1>2, <1>4, <1>5, <1>6 DEF SyncInv

-----------------------------------------------------------------------------
\* The steps that change a report.

\* Reports change, and what they need agrees.
LEMMA ReportsSync ==
  ASSUME SyncInv, UNCHANGED <<today, delivering, removed>>,
         ads' \subseteq Days \X Pages, ReportsAgree',
         Len(reports') <= MaxReports, job' \in JobType, calls' \in CallType,
         \A c \in {"awaited", "late"} : CallAgrees(c)', JobAgrees', WorkAgrees'
  PROVE  SyncInv'
<1>1. today' \in FirstDay..LastDay /\ delivering' \subseteq Days \X Pages
      /\ removed' \subseteq Days \X Pages
  BY DEF SyncInv, TypeOK
<1>2. \A r \in DOMAIN reports' : reports'[r] \in Report
  BY DEF ReportsAgree
<1>3. TypeOK'
  BY <1>1, <1>2 DEF TypeOK, JobType, CallType
<1>4. DOMAIN calls' = {"awaited", "late"}
  BY DEF CallType
<1> QED
  BY <1>3, <1>4 DEF SyncInv

LEMMA PollFailedSync ==
  ASSUME SyncInv, PollFailed, UNCHANGED <<today, delivering, removed>>
  PROVE  SyncInv'
<1> SUFFICES ASSUME NEW CONSTANT g, g = Grain, NEW CONSTANT j, j = job.report  PROVE SyncInv'
  OBVIOUS
<1>1. /\ reports' = [reports EXCEPT ![j].result = "failed", ![j].ended = today]
      /\ job' = NextBreakdown(TRUE) /\ UNCHANGED <<ads, calls>> /\ job.pc = "polling"
  BY DEF PollFailed
<1>2. j \in DOMAIN reports /\ calls["awaited"] = NoCall /\ job.step \in {1, 2}
  BY <1>1 DEF SyncInv, JobAgrees
<1>3. reports[j] \in Report /\ today \in 0..LastDay
  BY <1>2, Facts
<1>4. reports'[j] = [reports[j] EXCEPT !.result = "failed", !.ended = today]
  BY <1>1, <1>2, Facts
<1>5. DOMAIN reports' = DOMAIN reports /\ Len(reports') = Len(reports)
      /\ \A r \in DOMAIN reports : r # j => reports'[r] = reports[r]
  BY <1>1, Facts
<1>6. reports'[j] \in Report
  BY <1>3, <1>4 DEF Report
<1>7. /\ reports'[j].grain = reports[j].grain /\ reports'[j].from = reports[j].from
      /\ reports'[j].to = reports[j].to /\ reports'[j].pages = reports[j].pages
      /\ reports'[j].applied = reports[j].applied /\ reports'[j].next = reports[j].next
      /\ reports'[j].result = "failed"
  BY <1>3, <1>4 DEF Report
<1>8. reports'[j].lost = reports[j].lost /\ reports'[j].named = reports[j].named
  BY <1>3, <1>4 DEF Report
<1>9. reports' \in Seq(Report)
  BY <1>1, <1>2, <1>4, <1>6, Facts
<1>10. ReportsAgree'
  <2> SUFFICES ASSUME NEW r \in DOMAIN reports
               PROVE  /\ reports'[r].applied # 0 => 1..reports'[r].applied \subseteq reports'[r].pages
                      /\ reports'[r].next = IF reports'[r].applied = 1 THEN 2 ELSE 0
                      /\ reports'[r].applied = 2 => reports'[r].result # "none"
                      /\ reports'[r].result = "success" => reports'[r].pages = Pages
                      /\ reports'[r].grain = "base" =>
                           /\ reports'[r].lost = {}
                           /\ \A p \in reports'[r].pages :
                                NamedAds(r, p)' \subseteq ads' \union removed'
    BY <1>5, <1>9 DEF ReportsAgree
  <2> QED
    BY <1>1, <1>5, <1>7, <1>8 DEF SyncInv, ReportsAgree, NamedAds
<1>11. job' \in JobType /\ job'.failed /\ job'.report = 0
  BY <1>1, <1>2, Facts, BreakdownJob
<1>12. j # 0
  BY <1>2, Facts
<1>13. Kept
  <2>1. RowsKept
    BY <1>5, <1>7, <1>8, <1>11, <1>12 DEF RowsKept
  <2>2. \A r \in DOMAIN reports : reports'[r].lost = reports[r].lost
    BY <1>5, <1>8
  <2> QED
    BY <1>1, <2>1, <2>2, KeptIf
<1>14. JobAgrees' /\ WorkAgrees'
  BY <1>1, <1>2, <1>13, LandsOn, MetaSyncAssumption DEF SyncInv
<1>15. \A c \in {"awaited", "late"} : CallAgrees(c)'
  BY <1>1, <1>13, CallStays, Facts DEF SyncInv
<1>16. ads' \subseteq Days \X Pages /\ Len(reports') <= MaxReports
  BY <1>1, <1>5, Facts DEF SyncInv, TypeOK
<1> QED
  BY <1>1, <1>10, <1>11, <1>14, <1>15, <1>16, ReportsSync, Facts

\* A breakdown is asked for when every day it may hold is covered by a base
\* report.
LEMMA StartedIsSafe ==
  ASSUME SyncInv, job.pc # "idle", ~job.failed, job.step = 2,
         NEW d \in job.from..job.to, d >= WindowStart("breakdown", today)
  PROVE  \E b \in DOMAIN reports : Covers(b, "base", d)
<1>1. IsCovered("base")
  BY DEF SyncInv, WorkAgrees
<1>2. BreakdownDays <= BaseDays
  BY MetaSyncAssumption DEF MetaSyncAssumption
<1>3. d >= today - BreakdownDays
  BY DEF WindowStart
<1>4. d >= today - BaseDays
  BY <1>2, <1>3, Facts
<1>5. d >= WindowStart("base", today)
  BY <1>4 DEF WindowStart
<1> QED
  BY <1>1, <1>5 DEF IsCovered

LEMMA StartReportSync ==
  ASSUME SyncInv, StartReport, UNCHANGED <<today, delivering, removed>>
  PROVE  SyncInv'
<1> SUFFICES ASSUME NEW CONSTANT g, g = Grain, NEW CONSTANT w, w = WindowStart(g, today),
                    NEW CONSTANT from, from = Later(job.from, w),
                    NEW CONSTANT n, n = Len(reports) + 1,
                    NEW CONSTANT rep, rep = [grain |-> g, from |-> from, to |-> job.to,
                      applied |-> 0, next |-> 0, result |-> "none", ended |-> 0,
                      named |-> {a \in delivering : a[1] \in from..job.to},
                      pages |-> {}, lost |-> {}]
             PROVE  SyncInv'
  OBVIOUS
<1>1. /\ job.pc = "prepare" /\ job.to >= w /\ Len(reports) < MaxReports
      /\ reports' = Append(reports, rep) /\ UNCHANGED <<ads, calls>>
      /\ job' = [job EXCEPT !.pc = "polling", !.report = Len(reports')] \/ UNCHANGED job
  BY DEF StartReport
<1>2. job.step \in {1, 2} /\ job.from \in 1..LastDay /\ job.to \in 1..LastDay
      /\ calls["awaited"] = NoCall
  BY <1>1 DEF SyncInv, JobAgrees, Days
<1>3. g \in {"base", "breakdown"} /\ (g = "breakdown" => job.step = 2)
  BY <1>2 DEF Grain, Breakdowns
<1>4. w \in Int
  BY Facts DEF WindowStart
<1>5. from \in 1..LastDay /\ from >= job.from /\ from >= w /\ (from = w \/ from = job.from)
  BY <1>1, <1>2, <1>4, Facts DEF Later
<1>6. 0 \in 0..LastDay
  BY Facts
<1>7. rep \in Report
  <2>1. {a \in delivering : a[1] \in from..job.to} \in SUBSET (Days \X Pages)
    BY DEF SyncInv, TypeOK
  <2> QED
    BY <1>2, <1>3, <1>5, <1>6, <2>1 DEF Report, Grains, Days
<1>8. /\ reports' \in Seq(Report) /\ Len(reports') = n /\ DOMAIN reports' = 1..n
      /\ n \in Nat /\ n <= MaxReports
      /\ DOMAIN reports = 1..(n - 1)
      /\ reports'[n] = rep /\ \A r \in DOMAIN reports : reports'[r] = reports[r]
  BY <1>1, <1>7, Facts
<1>9. ReportsAgree'
  <2> SUFFICES ASSUME NEW r \in DOMAIN reports'
               PROVE  /\ reports'[r].applied # 0 => 1..reports'[r].applied \subseteq reports'[r].pages
                      /\ reports'[r].next = IF reports'[r].applied = 1 THEN 2 ELSE 0
                      /\ reports'[r].applied = 2 => reports'[r].result # "none"
                      /\ reports'[r].result = "success" => reports'[r].pages = Pages
                      /\ reports'[r].grain = "base" =>
                           /\ reports'[r].lost = {}
                           /\ \A p \in reports'[r].pages :
                                NamedAds(r, p)' \subseteq ads' \union removed'
    BY <1>8 DEF ReportsAgree
  <2>1. CASE r = n
    BY <1>8, <2>1
  <2>2. CASE r # n
    <3>1. r \in DOMAIN reports /\ reports'[r] = reports[r]
      BY <1>8, <2>2
    <3> QED
      BY <1>1, <3>1 DEF SyncInv, ReportsAgree, NamedAds
  <2> QED
    BY <2>1, <2>2
<1>10. /\ ads' = ads
       /\ \A r \in DOMAIN reports : r \in DOMAIN reports' /\ reports'[r] = reports[r]
  BY <1>1, <1>8
<1>11. ASSUME job' = [job EXCEPT !.pc = "polling", !.report = Len(reports')]
       PROVE  Kept /\ job' \in JobType /\ JobAgrees' /\ WorkAgrees'
  <2>1. /\ job'.pc = "polling" /\ job'.report = n /\ job'.from = job.from
        /\ job'.to = job.to /\ job'.step = job.step /\ job'.fresh = job.fresh
    BY <1>8, <1>11, Facts DEF JobType
  <2>2. job'.failed = job.failed
    BY <1>8, <1>11, Facts DEF JobType
  <2>3. job' \in JobType
    <3>1. n \in 0..MaxReports
      BY <1>8
    <3>2. job' = [[job EXCEPT !.pc = "polling"] EXCEPT !.report = n]
      BY <1>8, <1>11, Facts DEF JobType
    <3>3. [job EXCEPT !.pc = "polling"] \in JobType
      BY Facts DEF JobType
    <3> QED
      BY <3>1, <3>2, <3>3 DEF JobType
  <2>4. Kept
    BY <1>10, KeptIf DEF RowsKept
  <2>5. JobAgrees'
    BY <1>1, <1>2, <1>8, <2>1 DEF SyncInv, JobAgrees
  <2>6. ASSUME ~job'.failed  PROVE WorkAgrees'
    <3>1. ~job.failed
      BY <2>2, <2>6
    <3>2. WorkAgrees
      BY DEF SyncInv
    <3>3. \A r \in job'.fresh : r \in DOMAIN reports' /\ reports'[r].result = "success"
      BY <1>1, <1>10, <2>1, <3>1, <3>2 DEF WorkAgrees
    <3>4. job'.step = 2 => IsCovered("base")'
      BY <1>1, <2>1, <2>4, <2>6, <3>1, <3>2, Facts, CoveredStays DEF WorkAgrees
    <3>5. Grain' = g
      BY <2>1 DEF Grain
    <3>6. /\ reports'[n].grain = g /\ reports'[n].to = job.to
          /\ reports'[n].from = from
      BY <1>8
    <3>7. \A d \in job.from..job.to : d >= w => d >= from
      BY <1>2, <1>4, <1>5
    <3>8. ASSUME g = "breakdown", NEW d \in job.from..job.to, d >= w  PROVE IsSafe(n, d)'
      <4>1. PICK b \in DOMAIN reports : Covers(b, "base", d)
        BY <1>1, <1>3, <3>1, <3>8, StartedIsSafe
      <4>2. b \in DOMAIN reports' /\ Covers(b, "base", d)'
        BY <1>10, <4>1 DEF Covers
      <4>3. reports'[n].lost = {}
        BY <1>8
      <4> QED
        BY <4>2, <4>3 DEF IsSafe
    <3> QED
      BY <2>1, <3>3, <3>4, <3>5, <3>6, <3>7, <3>8 DEF WorkAgrees
  <2> QED
    BY <2>3, <2>4, <2>5, <2>6 DEF WorkAgrees
<1>12. ASSUME UNCHANGED job
       PROVE  Kept /\ job' \in JobType /\ JobAgrees' /\ WorkAgrees'
  <2>1. Kept
    BY <1>10, KeptIf DEF RowsKept
  <2> QED
    BY <1>1, <1>12, <2>1, Facts, JobStays, WorkStays DEF SyncInv
<1>13. Kept /\ job' \in JobType /\ JobAgrees' /\ WorkAgrees'
  BY <1>1, <1>11, <1>12
<1>14. \A c \in {"awaited", "late"} : CallAgrees(c)'
  BY <1>1, <1>13, CallStays, Facts DEF SyncInv
<1>15. ads' \subseteq Days \X Pages
  BY <1>1 DEF SyncInv, TypeOK
<1> QED
  BY <1>1, <1>8, <1>9, <1>13, <1>14, <1>15, ReportsSync, Facts

\* The ads of a base page are stored with it, and a breakdown drops no row of
\* an ad that a successful base report names.
LEMMA WriteRowsSync ==
  ASSUME SyncInv, NEW CONSTANT c \in DOMAIN calls, WriteRows(c), UNCHANGED <<today, delivering, removed>>
  PROVE  SyncInv'
<1>1. calls[c] # NoCall /\ calls[c].pc = "write" /\ calls[c] \in Call /\ c \in {"awaited", "late"}
  BY Facts DEF WriteRows, CallType
<1> SUFFICES ASSUME NEW CONSTANT k, k = calls[c], NEW CONSTANT r, r = k.report,
                    NEW CONSTANT p, p = k.page,
                    NEW CONSTANT drops, drops = Dropped(r),
                    reports' = [reports EXCEPT ![r].pages = @ \union {p}, ![r].lost = @ \union drops]
             PROVE  SyncInv'
  BY DEF WriteRows
<1>2. /\ ads' = IF reports[r].grain = "base" THEN ads \union NamedAds(r, p) ELSE ads
      /\ calls' = [calls EXCEPT ![c].pc = "record"] /\ UNCHANGED job
  BY DEF WriteRows
<1>3. /\ r \in DOMAIN reports /\ p \in Pages /\ p \in {1, 2}
      /\ p = 2 => 1 \in reports[r].pages
      /\ r \in 1..MaxReports
  BY <1>1, Facts DEF SyncInv, CallAgrees, Call, Pages
<1>4. reports[r] \in Report /\ drops \subseteq Days \X Pages
  <2>1. reports[r] \in Report
    BY <1>3, Facts
  <2> QED
    BY <2>1 DEF Dropped, Report
<1>5. DOMAIN reports' = DOMAIN reports /\ Len(reports') = Len(reports)
      /\ \A s \in DOMAIN reports : s # r => reports'[s] = reports[s]
  BY Facts
<1>6. reports'[r] = [reports[r] EXCEPT !.pages = @ \union {p}, !.lost = @ \union drops]
  BY <1>3, Facts
<1> SUFFICES ASSUME NEW CONSTANT f \in SUBSET (Days \X Pages), f = reports[r].lost \union drops,
                    NEW CONSTANT brought \in SUBSET Pages, brought = reports[r].pages \union {p}
             PROVE  SyncInv'
  <2>1. reports[r].pages \subseteq Pages /\ reports[r].lost \subseteq Days \X Pages
    BY <1>4 DEF Report
  <2>2. reports[r].lost \union drops \in SUBSET (Days \X Pages)
    BY <1>4, <2>1
  <2>3. reports[r].pages \union {p} \in SUBSET Pages
    BY <1>3, <2>1
  <2> QED
    BY <2>2, <2>3, Zenon
<1>7. reports'[r] = [reports[r] EXCEPT !.pages = brought, !.lost = f]
  BY <1>6
<1>8. /\ reports'[r].grain = reports[r].grain /\ reports'[r].from = reports[r].from
      /\ reports'[r].to = reports[r].to /\ reports'[r].pages = brought
      /\ reports'[r].applied = reports[r].applied /\ reports'[r].next = reports[r].next
      /\ reports'[r].result = reports[r].result /\ reports'[r].lost = f
      /\ reports'[r].named = reports[r].named
      /\ reports'[r] \in Report
  <2> SUFFICES ASSUME NEW CONSTANT old \in Report, old = reports[r],
                      NEW CONSTANT new, new = [old EXCEPT !.pages = brought, !.lost = f]
               PROVE  /\ new \in Report /\ new.grain = old.grain /\ new.from = old.from
                      /\ new.to = old.to /\ new.pages = brought /\ new.applied = old.applied
                      /\ new.next = old.next /\ new.result = old.result /\ new.lost = f
                      /\ new.named = old.named
    BY <1>4, <1>7
  <2>1. new = [grain |-> old.grain, from |-> old.from, to |-> old.to, applied |-> old.applied,
               next |-> old.next, result |-> old.result, ended |-> old.ended,
               named |-> old.named, pages |-> brought, lost |-> f]
    BY DEF Report
  <2>2. new \in Report
    BY <2>1 DEF Report
  <2> QED
    BY <2>1, <2>2
<1>9. reports'[r] \in Report
  BY <1>8
<1>10. reports' \in Seq(Report)
  BY <1>3, <1>5, <1>9, Facts
<1>11. ads \subseteq ads'
  BY <1>2
<1>12. reports[r].grain = "base" => drops = {} /\ NamedAds(r, p) \subseteq ads'
  BY <1>2 DEF Dropped
<1>13. ASSUME NEW b \in DOMAIN reports, reports[b].grain = "base", reports[b].result = "success"
       PROVE  drops \intersect reports[b].named \subseteq removed
  <2>1. reports[b].named \subseteq ads \union removed
    BY <1>13, BaseIsStored DEF SyncInv
  <2>2. drops \intersect ads = {}
    BY DEF Dropped
  <2> QED
    BY <2>1, <2>2
<1>14. \A s \in DOMAIN reports : \A q : NamedAds(s, q)' = NamedAds(s, q)
  BY <1>5, <1>8 DEF NamedAds
<1>15. ReportsAgree'
  <2> SUFFICES ASSUME NEW s \in DOMAIN reports
               PROVE  /\ reports'[s].applied # 0 => 1..reports'[s].applied \subseteq reports'[s].pages
                      /\ reports'[s].next = IF reports'[s].applied = 1 THEN 2 ELSE 0
                      /\ reports'[s].applied = 2 => reports'[s].result # "none"
                      /\ reports'[s].result = "success" => reports'[s].pages = Pages
                      /\ reports'[s].grain = "base" =>
                           /\ reports'[s].lost = {}
                           /\ \A q \in reports'[s].pages :
                                NamedAds(s, q)' \subseteq ads' \union removed'
    BY <1>5, <1>10 DEF ReportsAgree
  <2>1. /\ reports[s].applied # 0 => 1..reports[s].applied \subseteq reports[s].pages
        /\ reports[s].next = IF reports[s].applied = 1 THEN 2 ELSE 0
        /\ reports[s].applied = 2 => reports[s].result # "none"
        /\ reports[s].result = "success" => reports[s].pages = Pages
        /\ reports[s].grain = "base" =>
             /\ reports[s].lost = {}
             /\ \A q \in reports[s].pages : NamedAds(s, q) \subseteq ads \union removed
    BY DEF SyncInv, ReportsAgree
  <2>2. CASE s # r
    BY <1>5, <1>11, <1>14, <2>1, <2>2
  <2>3. CASE s = r
    <3>1. reports'[s].grain = "base" => reports'[s].lost = {}
      BY <1>8, <1>12, <2>1, <2>3
    <3>2. reports'[s].grain = "base" =>
            \A q \in reports'[s].pages : NamedAds(s, q)' \subseteq ads' \union removed'
      BY <1>8, <1>11, <1>12, <1>14, <2>1, <2>3
    <3> QED
      BY <1>3, <1>8, <2>1, <2>3, <3>1, <3>2
  <2> QED
    BY <2>2, <2>3
<1>16. Kept
  <2>1. RowsKept
    BY <1>5, <1>8 DEF RowsKept
  <2>2. ASSUME NEW s \in DOMAIN reports, NEW b \in DOMAIN reports,
               reports[b].grain = "base", reports[b].result = "success",
               reports[s].lost \intersect reports[b].named \subseteq removed
        PROVE  reports'[s].lost \intersect reports[b].named \subseteq removed'
    <3>1. CASE s = r
      <4>1. drops \intersect reports[b].named \subseteq removed
        BY <1>13, <2>2
      <4>2. reports'[s].lost = reports[s].lost \union drops
        BY <1>8, <3>1
      <4> QED
        BY <2>2, <4>1, <4>2
    <3>2. CASE s # r
      BY <1>5, <2>2, <3>2
    <3> QED
      BY <3>1, <3>2
  <2> QED
    BY <1>11, <2>1, <2>2, KeptIf
<1>17. /\ calls'[c] = [k EXCEPT !.pc = "record"]
       /\ \A e \in {"awaited", "late"} : e # c => calls'[e] = calls[e]
  BY <1>1, <1>2, Facts DEF CallType
<1>18. /\ calls'[c] \in Call /\ calls'[c].report = r /\ calls'[c].page = p
  BY <1>1, <1>17 DEF Call
<1>19. calls' \in CallType
  BY <1>1, <1>2, <1>17, <1>18, Facts DEF CallType
<1>20. \A e \in {"awaited", "late"} : CallAgrees(e)'
  <2> SUFFICES ASSUME NEW e \in {"awaited", "late"}  PROVE CallAgrees(e)'
    OBVIOUS
  <2>1. CASE e = c
    BY <1>3, <1>5, <1>8, <1>18, <2>1 DEF CallAgrees
  <2>2. CASE e # c
    BY <1>16, <1>17, <2>2, CallStays, Facts DEF SyncInv
  <2> QED
    BY <2>1, <2>2
<1>21. JobAgrees'
  <2>1. CASE c = "awaited"
    BY <1>1, <1>2, <1>16, <1>18, <2>1 DEF SyncInv, JobAgrees, Kept, RowsKept
  <2>2. CASE c = "late"
    BY <1>2, <1>16, <1>17, <2>2, JobStays DEF SyncInv
  <2> QED
    BY <1>1, <2>1, <2>2
<1>22. WorkAgrees'
  BY <1>2, <1>16, Facts, WorkStays
<1>23. ads' \subseteq Days \X Pages
  <2>1. NamedAds(r, p) \subseteq Days \X Pages
    BY <1>4 DEF NamedAds, Report
  <2> QED
    BY <1>2, <2>1 DEF SyncInv, TypeOK
<1>24. Len(reports') <= MaxReports /\ job' \in JobType
  BY <1>2, <1>5, Facts
<1> QED
  BY <1>15, <1>19, <1>20, <1>21, <1>22, <1>23, <1>24, ReportsSync

\* Recording a page is about a page that was written, in its order; the last
\* one makes a whole report a success.
LEMMA RecordPageSync ==
  ASSUME SyncInv, NEW CONSTANT c \in DOMAIN calls, RecordPage(c), UNCHANGED <<today, delivering, removed>>
  PROVE  SyncInv'
<1>1. calls[c] # NoCall /\ calls[c].pc = "record" /\ calls[c] \in Call /\ c \in {"awaited", "late"}
  BY Facts DEF RecordPage, CallType
<1> SUFFICES ASSUME NEW CONSTANT r, r = calls[c].report, NEW CONSTANT p, p = calls[c].page,
                    NEW CONSTANT next, next = NextPage(p),
                    NEW CONSTANT res, res = IF next = 0 THEN "success" ELSE reports[r].result,
                    NEW CONSTANT ended, ended = IF next = 0 THEN today ELSE reports[r].ended
             PROVE  SyncInv'
  OBVIOUS
<1>2. /\ reports' = [reports EXCEPT ![r].applied = p, ![r].next = next,
                                     ![r].result = res, ![r].ended = ended]
      /\ job' = (IF c = "awaited" THEN Answered(next) ELSE job) \/ UNCHANGED job
      /\ calls' = [calls EXCEPT ![c] = NoCall] /\ UNCHANGED ads
  BY DEF RecordPage
<1>3. /\ r \in DOMAIN reports /\ p \in {1, 2} /\ p \in reports[r].pages
      /\ p = 2 => 1 \in reports[r].pages
      /\ r \in 1..MaxReports
  BY <1>1, Facts DEF SyncInv, CallAgrees, Call, Pages
<1>4. reports[r] \in Report
  BY <1>3, Facts
<1>5. DOMAIN reports' = DOMAIN reports /\ Len(reports') = Len(reports)
      /\ \A s \in DOMAIN reports : s # r => reports'[s] = reports[s]
  BY <1>2, Facts
<1>6. next = IF p = 1 THEN 2 ELSE 0
  BY <1>3 DEF NextPage
<1>7. /\ reports'[r] = [reports[r] EXCEPT !.applied = p, !.next = next, !.result = res,
                                         !.ended = ended]
      /\ res \in {"none", "success", "failed"} /\ ended \in 0..LastDay
      /\ p = 2 => res = "success"
      /\ p = 1 => res = reports[r].result
  <2>1. reports'[r] = [reports[r] EXCEPT !.applied = p, !.next = next, !.result = res,
                                         !.ended = ended]
    BY <1>2, <1>3, Facts
  <2>2. reports[r].result \in {"none", "success", "failed"} /\ reports[r].ended \in 0..LastDay
    BY <1>4 DEF Report
  <2>3. today \in 0..LastDay
    BY Facts
  <2>4. p = 2 => res = "success" /\ ended = today
    BY <1>6
  <2>5. p = 1 => res = reports[r].result /\ ended = reports[r].ended
    BY <1>6
  <2> QED
    BY <1>3, <2>1, <2>2, <2>3, <2>4, <2>5
<1>8. reports'[r] = [grain |-> reports[r].grain, from |-> reports[r].from, to |-> reports[r].to,
                     applied |-> p, next |-> next, result |-> res, ended |-> ended,
                     named |-> reports[r].named, pages |-> reports[r].pages,
                     lost |-> reports[r].lost]
  BY <1>4, <1>7 DEF Report
<1>9. reports'[r] \in Report
  <2>1. /\ reports[r].grain \in Grains /\ reports[r].from \in Days /\ reports[r].to \in Days
        /\ reports[r].pages \in SUBSET Pages /\ reports[r].named \in SUBSET (Days \X Pages)
        /\ reports[r].lost \in SUBSET (Days \X Pages)
    BY <1>4 DEF Report
  <2>2. p \in 0..2 /\ next \in 0..2
    BY <1>3, <1>6
  <2> QED
    BY <1>7, <1>8, <2>1, <2>2 DEF Report
<1>10. reports' \in Seq(Report)
  BY <1>2, <1>3, <1>5, <1>9, Facts
<1>11. /\ reports'[r].grain = reports[r].grain /\ reports'[r].from = reports[r].from
       /\ reports'[r].to = reports[r].to /\ reports'[r].pages = reports[r].pages
       /\ reports'[r].applied = p /\ reports'[r].next = next /\ reports'[r].result = res
  BY <1>8
<1>12. reports'[r].lost = reports[r].lost /\ reports'[r].named = reports[r].named
  BY <1>8
<1>13. \A s \in DOMAIN reports : \A q : NamedAds(s, q)' = NamedAds(s, q)
  BY <1>5, <1>12 DEF NamedAds
<1>14. ReportsAgree'
  <2> SUFFICES ASSUME NEW s \in DOMAIN reports
               PROVE  /\ reports'[s].applied # 0 => 1..reports'[s].applied \subseteq reports'[s].pages
                      /\ reports'[s].next = IF reports'[s].applied = 1 THEN 2 ELSE 0
                      /\ reports'[s].applied = 2 => reports'[s].result # "none"
                      /\ reports'[s].result = "success" => reports'[s].pages = Pages
                      /\ reports'[s].grain = "base" =>
                           /\ reports'[s].lost = {}
                           /\ \A q \in reports'[s].pages :
                                NamedAds(s, q)' \subseteq ads' \union removed'
    BY <1>5, <1>10 DEF ReportsAgree
  <2>1. /\ reports[s].applied # 0 => 1..reports[s].applied \subseteq reports[s].pages
        /\ reports[s].next = IF reports[s].applied = 1 THEN 2 ELSE 0
        /\ reports[s].applied = 2 => reports[s].result # "none"
        /\ reports[s].result = "success" => reports[s].pages = Pages
        /\ reports[s].grain = "base" =>
             /\ reports[s].lost = {}
             /\ \A q \in reports[s].pages : NamedAds(s, q) \subseteq ads \union removed
    BY DEF SyncInv, ReportsAgree
  <2>2. CASE s # r
    BY <1>2, <1>5, <1>13, <2>1, <2>2
  <2>3. CASE s = r
    <3>1. 1..p \subseteq reports[r].pages
      BY <1>3
    <3>2. p = 2 => reports[r].pages = Pages
      BY <1>3, <1>4 DEF Report, Pages
    <3>3. res = "success" => reports[r].pages = Pages
      BY <1>3, <1>7, <2>1, <2>3, <3>2
    <3>4. reports'[s].grain = "base" =>
            /\ reports'[s].lost = {}
            /\ \A q \in reports'[s].pages : NamedAds(s, q)' \subseteq ads' \union removed'
      BY <1>2, <1>11, <1>12, <1>13, <2>1, <2>3
    <3> QED
      BY <1>3, <1>6, <1>7, <1>11, <2>3, <3>1, <3>3, <3>4
  <2> QED
    BY <2>2, <2>3
<1>15. Kept
  <2>1. RowsKept
    BY <1>3, <1>5, <1>7, <1>11, <1>12 DEF RowsKept
  <2>2. \A s \in DOMAIN reports : reports'[s].lost = reports[s].lost
    BY <1>5, <1>12
  <2> QED
    BY <1>2, <2>1, <2>2, KeptIf
<1>16. /\ calls' \in CallType /\ calls'[c] = NoCall
       /\ \A e \in {"awaited", "late"} : calls'[e] \in {calls[e], NoCall}
  BY <1>1, <1>2, Facts DEF CallType
<1>17. \A e \in {"awaited", "late"} : CallAgrees(e)'
  BY <1>15, <1>16, CallStays, Facts DEF SyncInv
<1>18. CASE UNCHANGED job
  BY <1>15, <1>16, <1>18, Facts, JobStays, WorkStays, <1>2, <1>5, <1>10, <1>14, <1>17,
     ReportsSync DEF SyncInv, TypeOK
<1>19. CASE c = "awaited" /\ job' = Answered(next)
  <2>1. job.pc = "importing" /\ r = job.report /\ p = job.page
    BY <1>1, <1>19 DEF SyncInv, JobAgrees
  <2>2. CASE p = 1
    <3>1. job' = [job EXCEPT !.page = 2]
      BY <1>6, <1>19, <2>2 DEF Answered
    <3>2. job' \in JobType
      BY <3>1, PageJob, Facts
    <3>3. /\ job'.pc = job.pc /\ job'.report = job.report /\ job'.from = job.from
          /\ job'.to = job.to /\ job'.step = job.step /\ job'.fresh = job.fresh
          /\ job'.page = 2
      BY <3>1, Facts DEF JobType
    <3>4. job'.failed = job.failed
      BY <3>1, Facts DEF JobType
    <3>5. JobAgrees'
      <4>1. calls'["awaited"] = NoCall
        BY <1>16, <1>19
      <4>2. reports[r].result # "failed" /\ job.step \in {1, 2} /\ job.from \in Days
            /\ job.to \in Days
        BY <2>1 DEF SyncInv, JobAgrees
      <4>3. r \in DOMAIN reports' /\ reports'[r].result # "failed" /\ 1 \in reports'[r].pages
        BY <1>3, <1>5, <1>7, <1>11, <2>2, <4>2
      <4> QED
        BY <2>1, <3>3, <4>1, <4>2, <4>3 DEF JobAgrees, Pages
    <3>6. ASSUME ~job'.failed  PROVE WorkAgrees'
      <4>1. WorkAgrees /\ ~job.failed
        BY <3>4, <3>6 DEF SyncInv
      <4>2. \A s \in job'.fresh : s \in DOMAIN reports' /\ reports'[s].result = "success"
        BY <1>15, <2>1, <3>3, <3>6, <4>1 DEF WorkAgrees, Kept, RowsKept
      <4>3. job'.step = 2 => IsCovered("base")'
        BY <1>15, <2>1, <3>3, <3>6, <4>1, Facts, CoveredStays DEF WorkAgrees
      <4>4. Grain' = Grain
        BY <3>3 DEF Grain
      <4>5. /\ reports'[r].grain = Grain /\ reports'[r].to = job.to
            /\ \A d \in job.from..job.to :
                 d >= WindowStart(Grain, today) =>
                   /\ d >= reports'[r].from
                   /\ Grain = "breakdown" => IsSafe(r, d)'
        BY <1>3, <1>11, <1>15, <2>1, <3>6, <4>1 DEF WorkAgrees, Kept
      <4> QED
        BY <2>1, <3>3, <4>2, <4>3, <4>4, <4>5 DEF WorkAgrees
    <3>7. WorkAgrees'
      BY <3>6 DEF WorkAgrees
    <3> QED
      BY <1>2, <1>5, <1>14, <1>16, <1>17, <3>2, <3>5, <3>7, ReportsSync, Facts DEF SyncInv, TypeOK
  <2>3. CASE p = 2
    <3> SUFFICES ASSUME NEW CONSTANT g, g = Grain  PROVE SyncInv'
      OBVIOUS
    <3>1. job' = NextBreakdown(FALSE)
      BY <1>6, <1>19, <2>3 DEF Answered
    <3>2. job \in JobType /\ job.step \in {1, 2}
      BY <2>1, Facts DEF SyncInv, JobAgrees
    <3>3. job' \in JobType /\ job'.from = job.from /\ job'.to = job.to /\ job'.fresh = job.fresh
      BY <3>1, <3>2, BreakdownJob
    <3>4. ASSUME ~job.failed  PROVE IsCovered(g)'
      <4>1. /\ reports[r].grain = g /\ reports[r].to = job.to
            /\ \A d \in job.from..job.to :
                 d >= WindowStart(g, today) =>
                   /\ d >= reports[r].from
                   /\ g = "breakdown" => IsSafe(r, d)
        BY <2>1, <3>4 DEF SyncInv, WorkAgrees
      <4>2. g \in {"base", "breakdown"}
        BY <3>2 DEF Grain, Breakdowns
      <4>3. reports'[r].result = "success" /\ r \in DOMAIN reports'
        BY <1>3, <1>5, <1>7, <1>11, <2>3
      <4>4. reports[r].from \in Int /\ reports[r].to \in Int
        BY <1>4, Facts, ReportDays
      <4> SUFFICES ASSUME NEW d \in job.from..job.to, d >= WindowStart(g, today)
                   PROVE  Covers(r, g, d)' /\ IsSafe(r, d)'
        BY <1>3, <1>5, <3>3 DEF IsCovered
      <4>5. Covers(r, g, d)'
        <5>1. d >= reports[r].from
          BY <4>1
        <5> QED
          BY <1>11, <4>1, <4>3, <4>4, <5>1, Facts DEF Covers
      <4>6. CASE g = "base"
        <5>1. reports'[r].lost = {}
          BY <1>3, <1>12, <4>1, <4>6 DEF SyncInv, ReportsAgree
        <5> QED
          BY <4>3, <4>5, <4>6, <5>1 DEF IsSafe
      <4>7. CASE g = "breakdown"
        <5>1. ~job'.failed
          BY <3>1, <3>2, <3>4, BreakdownJob
        <5>2. IsSafe(r, d)
          BY <4>1, <4>7
        <5> QED
          BY <1>3, <1>15, <4>5, <5>1, <5>2 DEF Kept
      <4> QED
        BY <4>2, <4>5, <4>6, <4>7
    <3>5. JobAgrees' /\ WorkAgrees'
      BY <1>15, <1>16, <1>19, <2>1, <3>1, <3>4, LandsOn, MetaSyncAssumption DEF SyncInv
    <3> QED
      BY <1>2, <1>5, <1>14, <1>16, <1>17, <3>3, <3>5, ReportsSync, Facts DEF SyncInv, TypeOK
  <2> QED
    BY <1>3, <2>2, <2>3
<1> QED
  BY <1>1, <1>2, <1>18, <1>19

-----------------------------------------------------------------------------
\* The theorems.

LEMMA InitSync == Init => SyncInv
<1> SUFFICES ASSUME Init  PROVE SyncInv
  OBVIOUS
<1>1. /\ today = FirstDay /\ ads = {} /\ removed = {} /\ delivering \subseteq Days \X Pages
      /\ reports = <<>> /\ job = IdleJob
      /\ calls = [c \in {"awaited", "late"} |-> NoCall]
  BY DEF Init
<1>2. job \in JobType /\ job.pc = "idle"
  BY <1>1, IdleInType DEF IdleJob
<1>3. today \in FirstDay..LastDay /\ Len(reports) <= MaxReports /\ DOMAIN reports = {}
  BY <1>1, MetaSyncAssumption DEF MetaSyncAssumption
<1>4. TypeOK
  BY <1>1, <1>2, <1>3 DEF TypeOK, JobType
<1>5. ReportsAgree
  BY <1>1, <1>3 DEF ReportsAgree
<1>6. \A c \in DOMAIN calls : CallAgrees(c)
  BY <1>1 DEF CallAgrees
<1>7. JobAgrees /\ WorkAgrees
  BY <1>1, <1>2 DEF JobAgrees, WorkAgrees
<1> QED
  BY <1>4, <1>5, <1>6, <1>7 DEF SyncInv

LEMMA NextSync == SyncInv /\ [Next]_vars => SyncInv'
<1> SUFFICES ASSUME SyncInv, [Next]_vars  PROVE SyncInv'
  OBVIOUS
<1>1. CASE NextDay \/ \E a \in Days \X Pages : StartDelivering(a) \/ DeleteAd(a)
  BY <1>1, NextDaySync, OutsideSync
<1>2. CASE /\ UNCHANGED outside
           /\ StartJob \/ SkipFresh \/ SkipExpired \/ StartReport \/ GiveUp \/ PollReady
              \/ PollFailed \/ ImportCached \/ ImportPage \/ AbandonCall \/ JobDies \/ EndJob
  BY <1>2, StartJobSync, SkipFreshSync, SkipExpiredSync, StartReportSync, GiveUpSync, PollReadySync,
     PollFailedSync, ImportCachedSync, ImportPageSync, AbandonCallSync, EndsSync DEF outside
<1>3. ASSUME UNCHANGED outside, NEW c \in DOMAIN calls, WriteRows(c) \/ RecordPage(c) \/ CallDies(c)
      PROVE  SyncInv'
  BY <1>3, WriteRowsSync, RecordPageSync, CallDiesSync DEF outside
<1>4. CASE UNCHANGED vars
  BY <1>4 DEF vars, SyncInv, TypeOK, ReportsAgree, CallAgrees, JobAgrees, WorkAgrees, IsCovered,
              IsSafe, NamedAds, Covers, Grain
<1> QED
  BY <1>1, <1>2, <1>3, <1>4 DEF Next

LEMMA SyncInvariant == Spec => []SyncInv
<1>1. Init => SyncInv
  BY InitSync
<1>2. SyncInv /\ [Next]_vars => SyncInv'
  BY NextSync
<1> QED
  BY <1>1, <1>2, PTL DEF Spec

\* Every state of the sync is one the schema and the job allow.
THEOREM SyncTypes == Spec => []TypeOK
<1>1. SyncInv => TypeOK
  BY DEF SyncInv
<1> QED
  BY <1>1, SyncInvariant, PTL

\* However calls are repeated, abandoned or late, a run of the sync is a
\* success only when every page of its report was imported.
THEOREM SyncSuccessIsWhole == Spec => []SuccessIsWholeReport
<1>1. SyncInv => SuccessIsWholeReport
  BY DEF SyncInv, ReportsAgree, SuccessIsWholeReport
<1> QED
  BY <1>1, SyncInvariant, PTL

\* A job that reports no failure leaves every retained day of its window with
\* a successful report per grain, and in what it imported itself it lost no row
\* of an ad that a successful base report of the day names and no user deleted.
THEOREM SyncCleanJobIsWhole == Spec => []CleanJobIsWhole
<1>1. SyncInv => CleanJobIsWhole
  <2> SUFFICES ASSUME SyncInv, job.pc = "done", ~job.failed
               PROVE  IsCovered("base") /\ IsCovered("breakdown")
    BY DEF CleanJobIsWhole, IsCovered, IsSafe, Grains
  <2> QED
    BY DEF SyncInv, WorkAgrees
<1> QED
  BY <1>1, SyncInvariant, PTL

-----------------------------------------------------------------------------
\* What is imported stays imported.

(* A report that was imported is never marked failed afterwards, whatever call *)
(* answers late.  pollReport and importReport update the row by its id alone   *)
(* (meta-sync.ts:364-371, 532-545), but a poll that finds the report failed is *)
(* of a report that no import was asked of; Meta's verdict on a report is      *)
(* taken to be final.                                                          *)
SuccessIsFinal ==
  [][\A r \in DOMAIN reports :
       reports[r].result = "success" => reports'[r].result = "success"]_vars

\* Nobody else knows of the report the job polls.
PollIsFresh ==
  job.pc = "polling" =>
    /\ reports[job.report].result = "none"
    /\ \A c \in {"awaited", "late"} : calls[c] # NoCall => calls[c].report # job.report

\* Only the start of a report makes the job poll.
LEMMA NotPolling ==
  ASSUME SyncInv, PollIsFresh, UNCHANGED reports, job'.pc # "polling"
  PROVE  /\ PollIsFresh'
         /\ \A r \in DOMAIN reports : reports[r].result = "success" => reports'[r].result = "success"
BY DEF PollIsFresh

\* Calls come and go while the job polls a report of its own.
LEMMA PollStays ==
  ASSUME PollIsFresh, UNCHANGED job,
         reports'[job.report].result = reports[job.report].result,
         \A c \in {"awaited", "late"} :
           calls'[c] # NoCall => \E b \in {"awaited", "late"} :
             calls[b] # NoCall /\ calls'[c].report = calls[b].report
  PROVE  PollIsFresh'
BY DEF PollIsFresh

LEMMA BreakdownIsNoPoll ==
  ASSUME SyncInv, job.pc # "idle", NEW b \in BOOLEAN
  PROVE  NextBreakdown(b).pc # "polling"
<1>1. job \in JobType /\ job.step \in {1, 2}
  BY Facts DEF SyncInv, JobAgrees
<1> QED
  BY <1>1, BreakdownJob

LEMMA JobFinal ==
  ASSUME SyncInv, PollIsFresh,
         StartJob \/ SkipFresh \/ SkipExpired \/ GiveUp \/ PollReady \/ ImportCached \/ EndJob \/ JobDies
  PROVE  UNCHANGED reports /\ job'.pc # "polling"
<1>0. job \in JobType
  BY Facts
<1>1. CASE StartJob
  BY <1>1 DEF StartJob, IdleJob
<1>2. CASE SkipFresh \/ SkipExpired \/ GiveUp
  BY <1>2, BreakdownIsNoPoll DEF SkipFresh, SkipExpired, GiveUp
<1>3. CASE PollReady
  BY <1>0, <1>3 DEF PollReady, JobType
<1>4. CASE ImportCached
  <2>1. /\ job.pc = "importing" /\ UNCHANGED reports
        /\ job' = Answered(0) \/ job' = Answered(reports[job.report].next)
    BY <1>4 DEF ImportCached
  <2>2. ASSUME NEW n  PROVE Answered(n).pc # "polling"
    <3>1. CASE n = 0
      BY <2>1, <3>1, BreakdownIsNoPoll DEF Answered
    <3>2. CASE n # 0
      BY <1>0, <2>1, <3>2 DEF Answered, JobType
    <3> QED
      BY <3>1, <3>2
  <2> QED
    BY <2>1, <2>2
<1>5. CASE EndJob \/ JobDies
  BY <1>5 DEF EndJob, JobDies, IdleJob
<1> QED
  BY <1>1, <1>2, <1>3, <1>4, <1>5

LEMMA FinalStep ==
  ASSUME SyncInv, PollIsFresh, [Next]_vars
  PROVE  /\ PollIsFresh'
         /\ \A r \in DOMAIN reports : reports[r].result = "success" => reports'[r].result = "success"
<1>0. /\ job \in JobType /\ calls \in CallType /\ DOMAIN calls = {"awaited", "late"}
      /\ DOMAIN reports = 1..Len(reports) /\ Len(reports) \in Nat
  BY Facts
<1>1. CASE NextDay \/ (\E a \in Days \X Pages : StartDelivering(a) \/ DeleteAd(a)) \/ UNCHANGED vars
  BY <1>1 DEF NextDay, StartDelivering, DeleteAd, vars, PollIsFresh
<1>2. CASE StartJob \/ SkipFresh \/ SkipExpired \/ GiveUp \/ PollReady \/ ImportCached
           \/ EndJob \/ JobDies
  BY <1>2, JobFinal, NotPolling
<1>3. CASE StartReport
  <2>1. PICK rep : reports' = Append(reports, rep) /\ rep.result = "none"
    BY <1>3 DEF StartReport
  <2> DEFINE n == Len(reports) + 1
  <2>2. /\ Len(reports') = n /\ reports'[n] = rep
        /\ \A r \in DOMAIN reports : reports'[r] = reports[r]
    BY <1>0, <2>1
  <2>3. CASE job' = [job EXCEPT !.pc = "polling", !.report = Len(reports')]
    <3>1. job'.report = n
      BY <1>0, <2>2, <2>3 DEF JobType
    <3>2. \A c \in {"awaited", "late"} : calls[c] # NoCall => calls[c].report # n
      BY <1>0 DEF SyncInv, CallAgrees
    <3>3. UNCHANGED calls
      BY <1>3 DEF StartReport
    <3> QED
      BY <2>1, <2>2, <3>1, <3>2, <3>3 DEF PollIsFresh
  <2>4. CASE UNCHANGED job
    <3>1. job.pc = "prepare"
      BY <1>3 DEF StartReport
    <3> QED
      BY <2>2, <2>4, <3>1 DEF PollIsFresh
  <2> QED
    BY <1>3, <2>3, <2>4 DEF StartReport
<1>4. CASE PollFailed
  <2>1. /\ job.pc = "polling" /\ job' = NextBreakdown(TRUE)
        /\ reports' = [reports EXCEPT ![job.report].result = "failed", ![job.report].ended = today]
    BY <1>4 DEF PollFailed
  <2>2. job'.pc # "polling"
    BY <2>1, BreakdownIsNoPoll
  <2>3. \A r \in DOMAIN reports : r # job.report => reports'[r] = reports[r]
    BY <2>1
  <2>4. reports[job.report].result = "none"
    BY <2>1 DEF PollIsFresh
  <2> QED
    BY <2>2, <2>3, <2>4 DEF PollIsFresh
<1>5. CASE ImportPage
  BY <1>5 DEF ImportPage, PollIsFresh
<1>6. CASE AbandonCall
  <2>1. /\ UNCHANGED <<reports, job>> /\ calls["awaited"] # NoCall
        /\ calls' = [awaited |-> NoCall, late |-> calls["awaited"]]
    BY <1>6 DEF AbandonCall
  <2> QED
    BY <2>1, PollStays
<1>7. ASSUME NEW c \in {"awaited", "late"}, CallDies(c)
      PROVE  UNCHANGED <<reports, job>> /\ PollIsFresh'
  <2>1. UNCHANGED <<reports, job>> /\ calls' = [calls EXCEPT ![c] = NoCall]
    BY <1>7 DEF CallDies
  <2>2. \A b \in {"awaited", "late"} : calls'[b] # NoCall => calls'[b] = calls[b]
    BY <1>0, <2>1 DEF CallType
  <2> QED
    BY <2>1, <2>2, PollStays
<1>8. ASSUME NEW c \in {"awaited", "late"}, WriteRows(c)
      PROVE  /\ PollIsFresh'
             /\ \A r \in DOMAIN reports : reports'[r].result = reports[r].result
  <2>1. /\ calls[c] # NoCall /\ UNCHANGED job /\ calls' = [calls EXCEPT ![c].pc = "record"]
    BY <1>8 DEF WriteRows
  <2> DEFINE q == calls[c].report
  <2>2. PICK drops : reports' = [reports EXCEPT ![q].pages = @ \union {calls[c].page},
                                                 ![q].lost = @ \union drops]
    BY <1>8 DEF WriteRows
  <2>3. calls[c] \in Call /\ q \in DOMAIN reports
    BY <1>0, <2>1 DEF CallType, SyncInv, CallAgrees
  <2>4. reports[q] \in Report
    BY <2>3, Facts
  <2>5. \A r \in DOMAIN reports : reports'[r].result = reports[r].result
    BY <2>2, <2>4 DEF Report
  <2>6. /\ calls'[c].report = q
        /\ \A b \in {"awaited", "late"} : b # c => calls'[b] = calls[b]
    BY <1>0, <2>1, <2>3 DEF CallType, Call
  <2>7. job.pc = "polling" => job.report \in DOMAIN reports
    BY DEF SyncInv, JobAgrees
  <2> QED
    BY <2>1, <2>5, <2>6, <2>7 DEF PollIsFresh
<1>9. ASSUME NEW c \in {"awaited", "late"}, RecordPage(c)
      PROVE  /\ PollIsFresh'
             /\ \A r \in DOMAIN reports :
                  reports[r].result = "success" => reports'[r].result = "success"
  <2> SUFFICES ASSUME NEW CONSTANT q, q = calls[c].report,
                      NEW CONSTANT next, next = NextPage(calls[c].page),
                      NEW CONSTANT res, res = IF next = 0 THEN "success" ELSE reports[q].result
               PROVE  /\ PollIsFresh'
                      /\ \A r \in DOMAIN reports :
                           reports[r].result = "success" => reports'[r].result = "success"
    OBVIOUS
  <2>1. /\ calls[c] # NoCall /\ calls' = [calls EXCEPT ![c] = NoCall]
        /\ UNCHANGED job \/ (c = "awaited" /\ job' = Answered(next))
    BY <1>9 DEF RecordPage
  <2>2. PICK ended : reports' = [reports EXCEPT ![q].applied = calls[c].page, ![q].next = next,
                                                ![q].result = res, ![q].ended = ended]
    BY <1>9 DEF RecordPage
  <2>3. q \in DOMAIN reports /\ reports[q] \in Report
    BY <1>0, <2>1, Facts DEF SyncInv, CallAgrees
  <2>4. reports'[q].result = res /\ \A r \in DOMAIN reports : r # q => reports'[r] = reports[r]
    BY <2>2, <2>3 DEF Report
  <2>5. CASE UNCHANGED job
    <3>1. job.pc = "polling" => job.report # q /\ job.report \in DOMAIN reports
      BY <2>1 DEF PollIsFresh, SyncInv, JobAgrees
    <3>2. \A b \in {"awaited", "late"} : calls'[b] # NoCall => calls'[b] = calls[b]
      BY <1>0, <2>1 DEF CallType
    <3> QED
      BY <2>4, <2>5, <3>1, <3>2 DEF PollIsFresh
  <2>6. CASE c = "awaited" /\ job' = Answered(next)
    <3>1. job.pc = "importing"
      BY <2>1, <2>6 DEF SyncInv, JobAgrees
    <3>2. job'.pc # "polling"
      <4>1. CASE next = 0
        BY <2>6, <3>1, <4>1, BreakdownIsNoPoll DEF Answered
      <4>2. CASE next # 0
        BY <1>0, <2>6, <3>1, <4>2 DEF Answered, JobType
      <4> QED
        BY <4>1, <4>2
    <3> QED
      BY <2>4, <3>2 DEF PollIsFresh
  <2> QED
    BY <2>1, <2>5, <2>6
<1> QED
  BY <1>0, <1>1, <1>2, <1>3, <1>4, <1>5, <1>6, <1>7, <1>8, <1>9 DEF Next, ImportPage, AbandonCall

(* However late a call answers, an imported report stays a success.            *)
THEOREM SyncSuccessIsFinal == Spec => SuccessIsFinal
<1>1. Init => PollIsFresh
  BY DEF Init, IdleJob, PollIsFresh
<1>2. SyncInv /\ PollIsFresh /\ [Next]_vars =>
        /\ PollIsFresh'
        /\ [\A r \in DOMAIN reports :
              reports[r].result = "success" => reports'[r].result = "success"]_vars
  BY FinalStep
<1> QED
  BY <1>1, <1>2, SyncInvariant, PTL DEF Spec, SuccessIsFinal
=============================================================================
