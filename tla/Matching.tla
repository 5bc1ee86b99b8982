------------------------------- MODULE Matching -------------------------------
(***************************************************************************)
(* Advisory matching of one Klaviyo connection: a task projects a pair of  *)
(* source runs (one of events, one of orders), computes a result for each  *)
(* event and order, and publishes them in one transaction that retires the *)
(* results they replace.  Erasures and edits of the evidence come between. *)
(***************************************************************************)
EXTENDS Integers, FiniteSets, Sequences

CONSTANTS
  NumEvents,   \* Placed Order events, numbered in the order they occurred
  RowId,       \* klaviyo_event.id of each event; ids do not follow occurrence
  Orders,      \* Shopify orders
  EventsIn,    \* for each pair of source runs, the events of its window
  OrdersIn,    \* for each pair of source runs, the orders of its window
  Partial,     \* the pairs whose run of orders ends as partial
  Scope,       \* for each pair, what publicationScopeFingerprint tells apart
  Links,       \* bound: the links between events and orders that Init chooses from
  Contents,    \* bound: the contents Init chooses from
  Edits,       \* bound: the edits, as <<item, the version that is replaced>>
  Erased,      \* bound: the events that may be erased
  MaxRuns,     \* bound: rows of klaviyo_match_run
  NoOrder,     \* no selected edge
  Idle         \* no task of the matching queue is executing

NumPairs == Len(EventsIn)
Events == 1..NumEvents
Items == Events \cup Orders
Pairs == 1..NumPairs

\* No selected event.
NoEvent == 0

\* The runs of a pair have not both succeeded.
NotYet == [ended |-> FALSE, items |-> {}]

\* The content of an item before it is known, and after it is erased; its
\* versions are 1 and 2.
Unknown == 0
Gone == 3
Versions == 1..2

\* What ties an event to an order: nothing, a score below DIAGNOSTIC_MIN_SCORE,
\* one of two eligible scores, an approved join rule.
NoEdge == 0
BelowMinimum == 1
Deterministic == 4
Edges == NoEdge..Deterministic

ASSUME MatchingAssumption ==
  /\ NumEvents \in Nat /\ MaxRuns \in Nat /\ RowId \in [Events -> Nat]
  /\ Orders \cap Int = {} /\ NoOrder \notin Orders
  /\ EventsIn \in Seq(SUBSET Events) /\ OrdersIn \in Seq(SUBSET Orders)
  /\ Len(OrdersIn) = Len(EventsIn) /\ DOMAIN Scope = Pairs
  /\ Links \subseteq [Events \X Orders -> Edges]
  /\ Contents \subseteq [Items -> {Unknown, 1}]
  /\ Edits \subseteq Items \X Versions /\ Erased \subseteq Events /\ Partial \subseteq Pairs

VARIABLES
  links,        \* the edges the evidence supports
  content,      \* the content of each item: its checksum
  observed,     \* what the runs of each pair observed, once both succeeded
  queue,        \* the jobs of the matching queue that wait
  worker,       \* the job under way, single-concurrency
  runs,         \* klaviyo_match_run, in the order of insertion
  eventCurrent, \* <<run, event>> of the event results that are not superseded
  orderCurrent  \* <<run, order>> of the order results that are not superseded

matchVars == <<links, content, observed, queue, worker, runs, eventCurrent, orderCurrent>>

Memberships == [events : SUBSET Events, orders : SUBSET Orders]
Fingerprints == [pair : Pairs, members : Memberships]
Runs == [fingerprint : Fingerprints, published : BOOLEAN, superseded : BOOLEAN]

-----------------------------------------------------------------------------
\* The matcher: a pure function of the evaluated events and orders.

Candidates(members) ==
  {edge \in members.events \X members.orders : links[edge] # NoEdge}

OneOf(S) == CHOOSE x \in S : S = {x}
IsSingle(S) == \E x \in S : S = {x}
FirstById(S) == CHOOSE e \in S : \A f \in S : RowId[e] <= RowId[f]

DeterministicOrders(members, e) ==
  {o \in members.orders : links[<<e, o>>] = Deterministic}

\* The eligible diagnostic edges of the highest score.
TopOrders(members, e) ==
  LET eligible == {o \in members.orders :
                     links[<<e, o>>] \in BelowMinimum + 1 .. Deterministic - 1}
  IN  {o \in eligible : \A p \in eligible : links[<<e, p>>] <= links[<<e, o>>]}

IsConfirmed(members, e) == IsSingle(DeterministicOrders(members, e))

IsCandidate(members, e) ==
  DeterministicOrders(members, e) = {} /\ IsSingle(TopOrders(members, e))

SelectedOrder(members, e) ==
  CASE IsConfirmed(members, e) -> OneOf(DeterministicOrders(members, e))
    [] IsCandidate(members, e) -> OneOf(TopOrders(members, e))
    [] OTHER -> NoOrder

ConfirmedEvents(members, o) ==
  {e \in members.events : IsConfirmed(members, e) /\ SelectedOrder(members, e) = o}

CandidateEvents(members, o) ==
  {e \in members.events : IsCandidate(members, e) /\ SelectedOrder(members, e) = o}

\* Several confirmed events are duplicates; of several candidates the first in
\* the order of the projection, which is that of the row ids, is taken.
SelectedEvent(members, o) ==
  LET confirmed == ConfirmedEvents(members, o)
      candidates == CandidateEvents(members, o)
  IN  IF confirmed # {}
      THEN IF IsSingle(confirmed) THEN OneOf(confirmed) ELSE NoEvent
      ELSE IF candidates # {}
           THEN FirstById(candidates)
           ELSE NoEvent

-----------------------------------------------------------------------------
Init ==
  /\ links \in Links
  /\ content \in Contents
  /\ observed = [p \in Pairs |-> NotYet]
  /\ queue = {}
  /\ worker = Idle
  /\ runs = <<>>
  /\ eventCurrent = {}
  /\ orderCurrent = {}

\* Both projections of a pair.  Erased events are left out: what a run observed
\* of them went with them.
Projection(p) ==
  [events |-> {e \in Events : content[e] # Gone /\ \E v \in Versions : <<e, v>> \in observed[p].items},
   orders |-> {o \in Orders : \E v \in Versions : <<o, v>> \in observed[p].items}]

\* What the projections accept: the observed content is still the content, and
\* no order of the window is missing, unless the run that read them is partial.
Acceptable(p) ==
  /\ observed[p].ended
  /\ \A i \in Items, v \in Versions :
       <<i, v>> \in observed[p].items => content[i] \in {v, Gone}
  /\ p \in Partial \/ \A o \in OrdersIn[p] : content[o] # Unknown => o \in Projection(p).orders

FingerprintOf(p) == [pair |-> p, members |-> Projection(p)]

\* The newest acceptable pair.
IsLatest(p) == Acceptable(p) /\ \A q \in Pairs : q > p => ~Acceptable(q)

PublishedUnder(f) == {r \in DOMAIN runs : runs[r].published /\ runs[r].fingerprint = f}

\* Both runs of a pair end, having observed the items of its window that are
\* stored; a partial one may have missed orders.  Source runs end in order.
Observe(p) ==
  /\ \A q \in Pairs : q >= p => ~observed[q].ended
  /\ \E missed \in SUBSET OrdersIn[p] :
       /\ p \in Partial \/ missed = {}
       /\ observed' = [observed EXCEPT ![p] =
            [ended |-> TRUE,
             items |-> {<<i, content[i]>> : i \in {j \in EventsIn[p] \cup (OrdersIn[p] \ missed) :
                                                     content[j] \in Versions}}]]
  /\ UNCHANGED <<links, content, queue, worker, runs, eventCurrent, orderCurrent>>

\* A sync stores an item, or the other version of one.
Store(i) ==
  /\ content[i] = Unknown \/ <<i, content[i]>> \in Edits
  /\ content' = [content EXCEPT ![i] = IF @ = 1 THEN 2 ELSE 1]
  /\ UNCHANGED <<links, observed, queue, worker, runs, eventCurrent, orderCurrent>>

\* triggerOrRepairMatchInvocation: a live job is reused, a published
\* fingerprint is left alone, a dead job is replaced.
Trigger(p) ==
  /\ IsLatest(p)
  /\ PublishedUnder(FingerprintOf(p)) = {}
  /\ FingerprintOf(p) \notin queue
  /\ worker # Idle => worker.fingerprint # FingerprintOf(p)
  /\ queue' = queue \cup {FingerprintOf(p)}
  /\ UNCHANGED <<links, content, observed, worker, runs, eventCurrent, orderCurrent>>

\* An attempt throws: the job waits for its next attempt, or it was the last.
AttemptEnds(fingerprint) == queue' \in {queue \cup {fingerprint}, queue \ {fingerprint}}

\* What the projections of its pair give now is still what the job is about.
Stands(fingerprint) ==
  Acceptable(fingerprint.pair) /\ FingerprintOf(fingerprint.pair) = fingerprint

\* The task projects and computes.
Compute(fingerprint) ==
  /\ worker = Idle
  /\ fingerprint \in queue
  /\ Stands(fingerprint)
  /\ worker' = [fingerprint |-> fingerprint, done |-> FALSE]
  /\ queue' = queue \ {fingerprint}
  /\ UNCHANGED <<links, content, observed, runs, eventCurrent, orderCurrent>>

\* A stale projection, or another fingerprint than the expected one, ends the
\* attempt before the publication.
ComputeRefused(fingerprint) ==
  /\ worker = Idle
  /\ fingerprint \in queue
  /\ ~Stands(fingerprint)
  /\ AttemptEnds(fingerprint)
  /\ UNCHANGED <<links, content, observed, worker, runs, eventCurrent, orderCurrent>>

MembersOf(r) == runs[r].fingerprint.members

IsEmpty(members) == members.events = {} /\ members.orders = {}

\* recountMatchRunCurrentness: an affected run that published something is
\* superseded when none of its results is current.
Recounted(rows, affected, events, orders) ==
  [r \in DOMAIN rows |->
     IF /\ r \in affected /\ rows[r].published
        /\ ~IsEmpty(rows[r].fingerprint.members)
        /\ \A e \in Events : <<r, e>> \notin events
        /\ \A o \in Orders : <<r, o>> \notin orders
     THEN [rows[r] EXCEPT !.superseded = TRUE] ELSE rows[r]]

RunsOf(results) == {result[1] : result \in results}

\* The results a publication retires: those of its own items, and those whose
\* selected edge ends in one of them.
RetiredEvents(members) ==
  {result \in eventCurrent :
     \/ result[2] \in members.events
     \/ SelectedOrder(MembersOf(result[1]), result[2]) \in members.orders}

RetiredOrders(members) ==
  {result \in orderCurrent :
     \/ result[2] \in members.orders
     \/ SelectedEvent(MembersOf(result[1]), result[2]) \in members.events}

\* Mutant of EmptyRetired: a publication without results is never superseded.
EmptyKept(fingerprint) == runs

\* An earlier publication of nothing gives way to a later one of its scope.
EmptyRetired(fingerprint) ==
  [r \in DOMAIN runs |->
     IF /\ runs[r].published /\ IsEmpty(MembersOf(r))
        /\ Scope[runs[r].fingerprint.pair] = Scope[fingerprint.pair]
     THEN [runs[r] EXCEPT !.superseded = TRUE] ELSE runs[r]]

Publishing == worker # Idle /\ ~worker.done

\* publishMatchRun: both projections are derived again under the locks.
Publish ==
  /\ Publishing
  /\ LET fingerprint == worker.fingerprint
         members == fingerprint.members
         new == Len(runs) + 1
         lostEvents == RetiredEvents(members)
         lostOrders == RetiredOrders(members)
     IN  /\ PublishedUnder(fingerprint) = {}
         /\ Stands(fingerprint)
         /\ new <= MaxRuns
         /\ eventCurrent' = (eventCurrent \ lostEvents) \cup {<<new, e>> : e \in members.events}
         /\ orderCurrent' = (orderCurrent \ lostOrders) \cup {<<new, o>> : o \in members.orders}
         /\ runs' = Append(Recounted(EmptyRetired(fingerprint),
                                     RunsOf(lostEvents) \cup RunsOf(lostOrders),
                                     eventCurrent', orderCurrent'),
                           [fingerprint |-> fingerprint, published |-> TRUE, superseded |-> FALSE])
  /\ worker' = [worker EXCEPT !.done = TRUE]
  /\ UNCHANGED <<links, content, observed, queue>>

\* The invocation was published before: its run is returned.
Replay ==
  /\ Publishing
  /\ PublishedUnder(worker.fingerprint) # {}
  /\ worker' = [worker EXCEPT !.done = TRUE]
  /\ UNCHANGED <<links, content, observed, queue, runs, eventCurrent, orderCurrent>>

\* The projections changed since: nothing is written.
PublishRefused ==
  /\ Publishing
  /\ PublishedUnder(worker.fingerprint) = {}
  /\ ~Stands(worker.fingerprint)
  /\ AttemptEnds(worker.fingerprint)
  /\ worker' = Idle
  /\ UNCHANGED <<links, content, observed, runs, eventCurrent, orderCurrent>>

\* The transaction fails for another reason, such as a conflict with an erasure
\* it did not see: publishFailedMatchRun keeps a record of the attempt.
PublishFails ==
  /\ Publishing
  /\ Len(runs) < MaxRuns
  /\ runs' = Append(runs, [fingerprint |-> worker.fingerprint,
                           published |-> FALSE, superseded |-> FALSE])
  /\ AttemptEnds(worker.fingerprint)
  /\ worker' = Idle
  /\ UNCHANGED <<links, content, observed, eventCurrent, orderCurrent>>

\* The process dies, before or after its publication commits.
Crash ==
  /\ worker # Idle
  /\ AttemptEnds(worker.fingerprint)
  /\ worker' = Idle
  /\ UNCHANGED <<links, content, observed, runs, eventCurrent, orderCurrent>>

TaskEnds ==
  /\ worker # Idle /\ worker.done
  /\ worker' = Idle
  /\ UNCHANGED <<links, content, observed, queue, runs, eventCurrent, orderCurrent>>

\* Mutant of Incident: the orders of the selected edges only.
IncidentSelected(e, result) == SelectedEvent(MembersOf(result[1]), result[2]) = e

\* Whether an order result rests on an event: it was selected, or some
\* publication weighed an edge between them.
Incident(e, result) ==
  \/ SelectedEvent(MembersOf(result[1]), result[2]) = e
  \/ \E r \in DOMAIN runs : /\ runs[r].published
                            /\ <<e, result[2]>> \in Candidates(MembersOf(r))

\* eraseSuppressedKlaviyoEventEvidence
Erase(e) ==
  LET lostEvents == {result \in eventCurrent : result[2] = e}
      lostOrders == {result \in orderCurrent : Incident(e, result)}
  IN  /\ e \in Erased /\ content[e] \in Versions
      /\ content' = [content EXCEPT ![e] = Gone]
      /\ eventCurrent' = eventCurrent \ lostEvents
      /\ orderCurrent' = orderCurrent \ lostOrders
      /\ runs' = Recounted(runs, RunsOf(lostEvents) \cup RunsOf(lostOrders),
                           eventCurrent', orderCurrent')
      /\ UNCHANGED <<links, observed, queue, worker>>

Next ==
  \/ \E p \in Pairs : Observe(p) \/ Trigger(p)
  \/ \E i \in Items : Store(i)
  \/ \E f \in queue : Compute(f) \/ ComputeRefused(f)
  \/ Publish \/ Replay \/ PublishRefused \/ PublishFails \/ Crash \/ TaskEnds
  \/ \E e \in Events : Erase(e)

Spec == Init /\ [][Next]_matchVars

-----------------------------------------------------------------------------
\* Every variable stays within its type.
MatchTypeOK ==
  /\ links \in [Events \X Orders -> Edges]
  /\ content \in [Items -> {Unknown, Gone} \cup Versions]
  /\ observed \in [Pairs -> [ended : BOOLEAN, items : SUBSET (Items \X Versions)]]
  /\ queue \subseteq Fingerprints
  /\ worker \in [fingerprint : Fingerprints, done : BOOLEAN] \cup {Idle}
  /\ runs \in Seq(Runs) /\ Len(runs) <= MaxRuns
  /\ eventCurrent \subseteq (DOMAIN runs) \X Events
  /\ orderCurrent \subseteq (DOMAIN runs) \X Orders

\* An event, and an order, has at most one current result, of a published run.
OneConclusion ==
  /\ \A r, s \in DOMAIN runs, e \in Events :
       <<r, e>> \in eventCurrent /\ <<s, e>> \in eventCurrent => r = s
  /\ \A r, s \in DOMAIN runs, o \in Orders :
       <<r, o>> \in orderCurrent /\ <<s, o>> \in orderCurrent => r = s
  /\ \A result \in eventCurrent \cup orderCurrent : runs[result[1]].published

\* A current order result that selects an event stands on that event's current
\* result, of the same run and with the same edge.
BothEndsAgree ==
  \A result \in orderCurrent :
    LET members == MembersOf(result[1])
        e == SelectedEvent(members, result[2])
    IN  e # NoEvent => /\ <<result[1], e>> \in eventCurrent
                       /\ SelectedOrder(members, e) = result[2]

\* No current conclusion was drawn from an event that was erased since.
NothingFromErased ==
  /\ \A result \in eventCurrent : content[result[2]] # Gone
  /\ \A result \in orderCurrent, e \in Events :
       <<e, result[2]>> \in Candidates(MembersOf(result[1])) => content[e] # Gone

\* The current conclusions, whatever publications, edits and erasures came
\* between: match-repository.ts publishMatchRun and privacy-match-closure.ts.
ConclusionsAgree == OneConclusion /\ BothEndsAgree /\ NothingFromErased

\* A published run is superseded exactly when it has no current result; one
\* that published nothing, when a later run of its scope was published
\* (match-currentness.ts, match-repository.ts:444-466).
CurrentnessAgrees ==
  \A r \in DOMAIN runs : runs[r].published =>
    IF IsEmpty(MembersOf(r))
    THEN runs[r].superseded <=>
           \E s \in DOMAIN runs : /\ s > r /\ runs[s].published
                                  /\ Scope[runs[s].fingerprint.pair] = Scope[runs[r].fingerprint.pair]
    ELSE runs[r].superseded <=> /\ \A e \in Events : <<r, e>> \notin eventCurrent
                                /\ \A o \in Orders : <<r, o>> \notin orderCurrent
===============================================================================
