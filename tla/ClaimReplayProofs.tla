--------------------------- MODULE ClaimReplayProofs ---------------------------
(***************************************************************************)
(* Proofs about ClaimReplay, for every number of runs, graphs, retries and *)
(* conversions.  The replay leaves the matching as it is, so what          *)
(* MatchingProofs shows holds under it; the rest is inductive with what    *)
(* the running graph has asked and carried.                                *)
(***************************************************************************)
EXTENDS ClaimReplay, MatchingProofs

-----------------------------------------------------------------------------
\* The strengthening.

\* A graph is bound to a run of the ledger, and tries what its budget allows.
IsOpen(g) ==
  /\ g.run \in DOMAIN runs
  /\ g.attempting # NoEvent =>
       /\ g.phase = "incomplete" => g.incompleteLeft > 0
       /\ g.phase = "failed" => g.failedLeft > 0

\* What needs no further question under this binding, or was edited on the way.
IsAsked(g, e) ==
  \/ e \in g.edited
  \/ IsCovered(e)
  \/ states[g.run][e].status # "none" /\ states[g.run][e].checksum = content[e]

IsAhead(g, e) ==
  g.phase = "missing" /\ e > g.cursor /\ (g.attempting # NoEvent => e >= g.attempting)

\* The walk leaves no conversion behind.
HasAsked(g) ==
  ~g.rebound => \A e \in Events : IsAnchor(g.run, e) => IsAsked(g, e) \/ IsAhead(g, e)

\* What is being fetched is the content as it is, or as it was before an edit.
IsFetched(g, b) ==
  b.step = "fetching" =>
    b.checksum = content[g.attempting] \/ content[g.attempting] = Gone \/ g.attempting \in g.edited

\* Once the counts are carried onto a run they keep up with the claims, but for a
\* conversion that was edited back to a content covered before.
CarriedOnto(r, edited) ==
  \A o \in Orders : LET e == SelectedEvent(MembersOf(r), o)
                    IN  IsCanonical(r, o) /\ IsCovered(e) /\ e \notin edited =>
                          counts[r][o] = claims[e]

HasCarried(g, b) == ~g.rebound /\ b.synced = g.run => CarriedOnto(g.run, g.edited)

GraphAgrees ==
  GraphRuns => IsOpen(Graph) /\ HasAsked(Graph) /\ IsFetched(Graph, batch) /\ HasCarried(Graph, batch)

\* A state without a status is none; a run not inserted has no counts.
StatesAgree ==
  \A r \in RunIds, e \in Events : states[r][e].status = "none" => states[r][e] = NoState

NoCountsAhead == \A r \in RunIds, o \in Orders : r \notin DOMAIN runs => counts[r][o] = 0

ClaimInv ==
  /\ IInv /\ TypeOK /\ GraphAgrees /\ StatesAgree /\ NoCountsAhead /\ ClaimCountsAgree

-----------------------------------------------------------------------------
\* The matching goes on as if there were no replay.

LEMMA ClaimStepMatches == [ClaimNext]_vars => [Next]_matchVars
<1> SUFFICES ASSUME [ClaimNext]_vars PROVE [Next]_matchVars
  OBVIOUS
<1>1. CASE MatchStep
  BY <1>1 DEF MatchStep, Next
<1>2. ASSUME NEW i \in Items, StoreItem(i) PROVE Next
  BY <1>2 DEF StoreItem, Next
<1>3. ASSUME NEW e \in Events, EraseEvent(e) PROVE Next
  BY <1>3 DEF EraseEvent, Next
<1>4. ASSUME NEW r \in DOMAIN runs, Start(r) \/ StartRebinds(r) PROVE UNCHANGED matchVars
  BY <1>4 DEF Start, StartRebinds
<1>5. CASE Select \/ Preflight \/ CommitSkips \/ CommitBlocked
  BY <1>5 DEF Select, Preflight, CommitSkips, CommitBlocked
<1>6. ASSUME NEW n, NEW complete, Commit(n, complete) PROVE UNCHANGED matchVars
  BY <1>6 DEF Commit
<1>7. CASE NextBatch \/ BatchDies \/ Recover
  BY <1>7 DEF NextBatch, BatchDies, Recover
<1>8. CASE UNCHANGED vars
  BY <1>8 DEF vars, matchVars
<1>. QED BY <1>1, <1>2, <1>3, <1>4, <1>5, <1>6, <1>7, <1>8 DEF ClaimNext

(* The replay never interferes: what runs beside it is the matching.           *)
THEOREM ReplayLeavesMatching == ClaimSpec => Spec
<1>1. ClaimInit => Init
  BY DEF ClaimInit
<1>. QED BY <1>1, ClaimStepMatches, PTL DEF ClaimSpec, Spec

-----------------------------------------------------------------------------
\* The transformations of a graph.

LEMMA GraphTyped ==
  ASSUME TypeOK
  PROVE  /\ Len(graphs) \in Nat /\ DOMAIN graphs = 1..Len(graphs)
         /\ Len(graphs) \in 0..MaxGraphs
         /\ GraphRuns => Graph \in Graphs /\ Graph.status = "running" /\ Len(graphs) \in DOMAIN graphs
<1>1. graphs \in Seq(Graphs) /\ Len(graphs) <= MaxGraphs
  BY DEF TypeOK
<1>2. Len(graphs) \in Nat /\ DOMAIN graphs = 1..Len(graphs)
  BY <1>1
<1>. QED BY <1>1, <1>2, ClaimAssumption DEF GraphRuns, Graph

(* Only the last row is written.                                               *)
LEMMA WithGraphIs ==
  ASSUME TypeOK, GraphRuns, NEW g \in Graphs, graphs' = WithGraph(g)
  PROVE  /\ graphs' \in Seq(Graphs) /\ Len(graphs') = Len(graphs)
         /\ Graph' = g /\ graphs'[Len(graphs)] = g
         /\ GraphRuns' <=> g.status = "running"
         /\ \A i \in DOMAIN graphs' : graphs'[i].status = "running" => i = Len(graphs')
<1>1. graphs \in Seq(Graphs) /\ Len(graphs) \in Nat /\ Len(graphs) > 0
      /\ DOMAIN graphs = 1..Len(graphs)
  BY GraphTyped DEF TypeOK, GraphRuns
<1>2. graphs' \in Seq(Graphs) /\ Len(graphs') = Len(graphs) /\ DOMAIN graphs' = DOMAIN graphs
  BY <1>1 DEF WithGraph
<1>3. graphs'[Len(graphs)] = g /\ \A i \in DOMAIN graphs : i # Len(graphs) => graphs'[i] = graphs[i]
  BY <1>1 DEF WithGraph
<1>4. Graph' = g
  BY <1>2, <1>3 DEF Graph
<1>5. GraphRuns' <=> g.status = "running"
  BY <1>1, <1>2, <1>4 DEF GraphRuns
<1>6. \A i \in DOMAIN graphs : graphs[i].status = "running" => i = Len(graphs)
  BY DEF TypeOK
<1>. QED BY <1>2, <1>3, <1>4, <1>5, <1>6

(* There is a newest among the current runs.                                   *)
LEMMA NewestIsCurrent ==
  ASSUME TypeOK, CurrentRuns # {}
  PROVE  NewestRun \in CurrentRuns /\ NewestRun \in DOMAIN runs /\ NewestRun \in RunIds
<1>1. /\ DOMAIN runs = 1..Len(runs) /\ Len(runs) \in Nat /\ Len(runs) <= MaxRuns /\ MaxRuns \in Nat
  BY RunsAreTyped, MatchingAssumption DEF TypeOK, MatchTypeOK
<1>2. CurrentRuns \subseteq 1..Len(runs)
  BY <1>1 DEF CurrentRuns
<1> DEFINE T == {Len(runs) - s : s \in CurrentRuns}
<1>3. T \subseteq Nat /\ T # {}
  <2>1. \A s \in CurrentRuns : Len(runs) - s \in Nat
    BY <1>1, <1>2
  <2>. QED BY <2>1
<1>4. PICK x \in T : \A y \in T : x <= y
  BY <1>3, LeastExists
<1>5. PICK r \in CurrentRuns : x = Len(runs) - r
  BY <1>4
<1>6. \A s \in CurrentRuns : Len(runs) - r <= Len(runs) - s
  BY <1>4, <1>5
<1>7. \A s \in CurrentRuns : s <= r
  BY <1>1, <1>2, <1>6
<1>8. NewestRun \in CurrentRuns
  BY <1>7 DEF NewestRun
<1>. QED BY <1>1, <1>2, <1>8 DEF RunIds

LEMMA ReboundIs ==
  ASSUME TypeOK, NEW g \in Graphs, CanRebind(g)
  PROVE  /\ Rebound(g) \in Graphs
         /\ Rebound(g).run \in DOMAIN runs /\ Rebound(g).rebound
         /\ Rebound(g).status = g.status /\ Rebound(g).attempting = g.attempting
         /\ Rebound(g).phase = g.phase /\ Rebound(g).cursor = g.cursor /\ Rebound(g).edited = g.edited
         /\ Rebound(g).incompleteLeft = g.incompleteLeft /\ Rebound(g).failedLeft = g.failedLeft
<1>1. NewestRun \in DOMAIN runs /\ NewestRun \in RunIds
  BY NewestIsCurrent DEF CanRebind
<1>. QED BY <1>1 DEF Rebound, Graphs

LEMMA AnchoredIs ==
  ASSUME TypeOK, NEW g \in Graphs, g.run \in DOMAIN runs, NEW e
  PROVE  LET h == Anchored(g, e)
         IN  /\ h \in Graphs /\ h.run \in DOMAIN runs
             /\ h.status = g.status /\ h.attempting = g.attempting
             /\ h.phase = g.phase /\ h.cursor = g.cursor /\ h.edited = g.edited
             /\ h.incompleteLeft = g.incompleteLeft /\ h.failedLeft = g.failedLeft
             /\ h = g \/ h.rebound
<1>1. CASE IsAnchor(g.run, e) \/ ~CanRebind(g)
  BY <1>1 DEF Anchored
<1>2. CASE ~(IsAnchor(g.run, e) \/ ~CanRebind(g))
  BY <1>2, ReboundIs DEF Anchored
<1>. QED BY <1>1, <1>2

LEMMA PastIs ==
  ASSUME NEW g \in Graphs
  PROVE  /\ Past(g) \in Graphs
         /\ Past(g).cursor = g.attempting /\ Past(g).attempting = NoEvent
         /\ Past(g).run = g.run /\ Past(g).status = g.status /\ Past(g).phase = g.phase
         /\ Past(g).rebound = g.rebound /\ Past(g).edited = g.edited
         /\ Past(g).incompleteLeft = g.incompleteLeft /\ Past(g).failedLeft = g.failedLeft
<1>1. NoEvent \in 0..NumEvents
  BY MatchingAssumption DEF NoEvent
<1>. QED BY <1>1 DEF Past, Graphs

LEMMA TriedIs ==
  ASSUME NEW g \in Graphs, IsOpen(g), g.attempting # NoEvent
  PROVE  /\ Tried(g) \in Graphs
         /\ Tried(g).cursor = g.attempting /\ Tried(g).attempting = NoEvent
         /\ Tried(g).run = g.run /\ Tried(g).status = g.status /\ Tried(g).phase = g.phase
         /\ Tried(g).rebound = g.rebound /\ Tried(g).edited = g.edited
<1>1. /\ g.phase = "incomplete" => g.incompleteLeft - 1 \in 0..MaxRetries
      /\ g.phase = "failed" => g.failedLeft - 1 \in 0..MaxRetries
      /\ g.incompleteLeft \in 0..MaxRetries /\ g.failedLeft \in 0..MaxRetries
  BY ClaimAssumption DEF IsOpen, Graphs
<1> DEFINE i == IF g.phase = "incomplete" THEN g.incompleteLeft - 1 ELSE g.incompleteLeft
           f == IF g.phase = "failed" THEN g.failedLeft - 1 ELSE g.failedLeft
<1>2. i \in 0..MaxRetries /\ f \in 0..MaxRetries
  BY <1>1
<1>3. Tried(g) = [Past(g) EXCEPT !.incompleteLeft = i, !.failedLeft = f]
  BY PastIs DEF Tried
<1> HIDE DEF i, f
<1>. QED BY <1>2, <1>3, PastIs DEF Graphs

LEMMA NewGraphIs ==
  ASSUME NEW r \in RunIds
  PROVE  /\ NewGraph(r) \in Graphs
         /\ NewGraph(r).status = "running" /\ NewGraph(r).run = r
         /\ NewGraph(r).phase = "missing" /\ NewGraph(r).cursor = 0
         /\ NewGraph(r).attempting = NoEvent
  BY ClaimAssumption, MatchingAssumption DEF NewGraph, Graphs, NoEvent

LEMMA FinishedIs ==
  ASSUME NEW g \in Graphs, NEW status \in {"success", "partial", "failed", "stale"}
  PROVE  Finished(g, status) \in Graphs /\ Finished(g, status).status = status
<1>1. g.run \in RunIds
  BY DEF Graphs
<1>2. NewGraph(g.run) \in Graphs
  BY <1>1, NewGraphIs
<1>. QED BY <1>2 DEF Finished, Graphs

(* The phases only move on; a phase that is left had nothing ahead.            *)
LEMMA AtSelectionIs ==
  ASSUME NEW g \in Graphs
  PROVE  LET at == AtSelection(g)
         IN  /\ at \in Graphs
             /\ at.status = g.status /\ at.run = g.run /\ at.attempting = g.attempting
             /\ at.rebound = g.rebound /\ at.edited = g.edited
             /\ at.incompleteLeft = g.incompleteLeft /\ at.failedLeft = g.failedLeft
             /\ at = g \/ Ahead(g) = {}
             /\ Ahead(at) = {} => Ahead(g) = {}
             /\ at.phase = "missing" => at = g
<1>1. ASSUME NEW h \in Graphs
      PROVE  LET k == InNextPhase(h)
             IN  /\ k \in Graphs /\ k.phase # "missing"
                 /\ k.status = h.status /\ k.run = h.run /\ k.attempting = h.attempting
                 /\ k.rebound = h.rebound /\ k.edited = h.edited
                 /\ k.incompleteLeft = h.incompleteLeft /\ k.failedLeft = h.failedLeft
  <2>1. 0 \in 0..NumEvents
    BY MatchingAssumption
  <2> SUFFICES ASSUME NEW p \in {"incomplete", "failed"},
                      InNextPhase(h) = [h EXCEPT !.phase = p, !.cursor = 0]
               PROVE  LET k == [h EXCEPT !.phase = p, !.cursor = 0]
                      IN  /\ k \in Graphs /\ k.phase # "missing"
                          /\ k.status = h.status /\ k.run = h.run /\ k.attempting = h.attempting
                          /\ k.rebound = h.rebound /\ k.edited = h.edited
                          /\ k.incompleteLeft = h.incompleteLeft /\ k.failedLeft = h.failedLeft
    BY DEF InNextPhase
  <2>. QED BY <2>1 DEF Graphs
<1> DEFINE second == IF Ahead(g) = {} /\ g.phase # "failed" THEN InNextPhase(g) ELSE g
<1>2. /\ second \in Graphs
      /\ second.status = g.status /\ second.run = g.run /\ second.attempting = g.attempting
      /\ second.rebound = g.rebound /\ second.edited = g.edited
      /\ second.incompleteLeft = g.incompleteLeft /\ second.failedLeft = g.failedLeft
      /\ second = g \/ (Ahead(g) = {} /\ second.phase # "missing")
  BY <1>1
<1>3. AtSelection(g) = IF Ahead(second) = {} /\ second.phase # "failed" THEN InNextPhase(second) ELSE second
  BY DEF AtSelection
<1> HIDE DEF second
<1>. QED BY <1>1, <1>2, <1>3

LEMMA FirstIsIn ==
  ASSUME NEW S \in SUBSET Events, S # {}
  PROVE  FirstOf(S) \in S /\ \A e \in S : FirstOf(S) <= e
<1>1. S \subseteq Nat
  BY EventsAreNat
<1>2. \E x \in S : \A y \in S : x <= y
  BY <1>1, LeastExists
<1>. QED BY <1>2 DEF FirstOf

-----------------------------------------------------------------------------
\* Steps of the matching: conclusions of a run only go, items are edited or erased.

LEMMA MatchingShrinks ==
  ASSUME MatchTypeOK, [Next]_matchVars
  PROVE  /\ RunsKept /\ links' = links
         /\ \A r \in DOMAIN runs : \A e : IsAnchor(r, e)' => IsAnchor(r, e)
         /\ \A r \in DOMAIN runs : \A o : <<r, o>> \in orderCurrent' => <<r, o>> \in orderCurrent
<1>1. CASE Publish
  <2>1. RunsKept
    BY <1>1, PublishRuns
  <2>2. /\ eventCurrent' \subseteq eventCurrent \cup {<<Len(runs) + 1, e>> : e \in worker.fingerprint.members.events}
        /\ orderCurrent' \subseteq orderCurrent \cup {<<Len(runs) + 1, o>> : o \in worker.fingerprint.members.orders}
        /\ links' = links
    BY <1>1 DEF Publish
  <2>. QED BY <2>1, <2>2, RunsAreTyped DEF IsAnchor
<1>2. ASSUME NEW e0 \in Events, Erase(e0)
      PROVE  /\ RunsKept /\ links' = links
             /\ \A r \in DOMAIN runs : \A e : IsAnchor(r, e)' => IsAnchor(r, e)
             /\ \A r \in DOMAIN runs : \A o : <<r, o>> \in orderCurrent' => <<r, o>> \in orderCurrent
  <2>1. RunsKept
    BY <1>2, EraseRuns
  <2>2. eventCurrent' \subseteq eventCurrent /\ orderCurrent' \subseteq orderCurrent /\ links' = links
    BY <1>2 DEF Erase
  <2>. QED BY <2>1, <2>2 DEF IsAnchor
<1>3. CASE PublishFails
  BY <1>3, FailureRuns DEF PublishFails, IsAnchor
<1>4. CASE UNCHANGED <<links, runs, eventCurrent, orderCurrent>>
  BY <1>4 DEF RunsKept, IsAnchor
<1>5. ASSUME NEW p \in Pairs, Observe(p) \/ Trigger(p)
      PROVE  UNCHANGED <<links, runs, eventCurrent, orderCurrent>>
  BY <1>5 DEF Observe, Trigger
<1>6. ASSUME NEW i \in Items, Store(i)
      PROVE  UNCHANGED <<links, runs, eventCurrent, orderCurrent>>
  BY <1>6 DEF Store
<1>7. ASSUME NEW f \in queue, Compute(f) \/ ComputeRefused(f)
      PROVE  UNCHANGED <<links, runs, eventCurrent, orderCurrent>>
  BY <1>7 DEF Compute, ComputeRefused
<1>8. CASE Replay \/ PublishRefused \/ Crash \/ TaskEnds
  BY <1>4, <1>8 DEF Replay, PublishRefused, Crash, TaskEnds
<1>9. CASE UNCHANGED matchVars
  BY <1>4, <1>9 DEF matchVars
<1>. QED BY <1>1, <1>2, <1>3, <1>4, <1>5, <1>6, <1>7, <1>8, <1>9 DEF Next

LEMMA CanonicalShrinks ==
  ASSUME MatchTypeOK, [Next]_matchVars, NEW r \in DOMAIN runs, NEW o
  PROVE  /\ SelectedEvent(MembersOf(r), o)' = SelectedEvent(MembersOf(r), o)
         /\ IsCanonical(r, o)' => IsCanonical(r, o) /\ IsAnchor(r, SelectedEvent(MembersOf(r), o))'
<1>1. RunsKept /\ links' = links
  BY MatchingShrinks
<1>2. MembersOf(r)' = MembersOf(r)
  BY <1>1, MembersKept
<1>3. /\ \A mem, e : SelectedOrder(mem, e)' = SelectedOrder(mem, e)
      /\ \A mem, p : SelectedEvent(mem, p)' = SelectedEvent(mem, p)
  BY <1>1, SelectionStays
<1>4. \A mem, e : IsConfirmed(mem, e)' <=> IsConfirmed(mem, e)
  BY <1>1 DEF IsConfirmed, DeterministicOrders
<1>5. SelectedEvent(MembersOf(r), o)' = SelectedEvent(MembersOf(r), o)
  BY <1>2, <1>3
<1>. QED BY <1>2, <1>3, <1>4, <1>5, MatchingShrinks DEF IsCanonical

LEMMA AnchorsAreEvents ==
  ASSUME MatchTypeOK
  PROVE  /\ \A r, e : IsAnchor(r, e) => r \in DOMAIN runs /\ e \in Events
         /\ \A r, o : IsCanonical(r, o) => r \in DOMAIN runs /\ SelectedEvent(MembersOf(r), o) \in Events
         /\ DOMAIN runs \subseteq RunIds
<1>1. \A r, e : IsAnchor(r, e) => r \in DOMAIN runs /\ e \in Events
  BY DEF MatchTypeOK, IsAnchor
<1>2. DOMAIN runs = 1..Len(runs) /\ Len(runs) \in Nat /\ Len(runs) <= MaxRuns
  BY RunsAreTyped DEF MatchTypeOK
<1>. QED BY <1>1, <1>2, MatchingAssumption DEF IsCanonical, RunIds

(* A step beside the replay: some events are edited, some erased with their    *)
(* claims and states.                                                          *)
LEMMA BesideSteps ==
  ASSUME ClaimInv, [Next]_matchVars,
         NEW edits \in SUBSET Events, NEW gone \in SUBSET Events,
         \A e \in Events : \/ content'[e] = content[e]
                           \/ e \in edits /\ content'[e] # Gone
                           \/ e \in gone /\ content'[e] = Gone,
         \A r, e : e \in gone => ~IsAnchor(r, e)',
         \A r \in RunIds, e \in Events :
           states'[r][e] = IF e \in gone THEN NoState ELSE states[r][e],
         states' \in [RunIds -> [Events -> States]],
         claims' = [e \in Events |-> IF e \in gone THEN 0 ELSE claims[e]],
         UNCHANGED <<batch, counts>>,
         graphs' \in Seq(Graphs), Len(graphs') = Len(graphs),
         GraphRuns' <=> GraphRuns,
         \A g \in DOMAIN graphs' : graphs'[g].status = "running" => g = Len(graphs'),
         GraphRuns => /\ Graph'.run = Graph.run /\ Graph'.attempting = Graph.attempting
                      /\ Graph'.phase = Graph.phase /\ Graph'.cursor = Graph.cursor
                      /\ Graph'.rebound = Graph.rebound
                      /\ Graph'.incompleteLeft = Graph.incompleteLeft
                      /\ Graph'.failedLeft = Graph.failedLeft
                      /\ Graph'.edited = Graph.edited \cup edits
  PROVE  ClaimInv'
<1>1. IInv /\ MatchTypeOK /\ TypeOK /\ GraphAgrees /\ StatesAgree /\ NoCountsAhead /\ ClaimCountsAgree
  BY DEF ClaimInv, IInv
<1>2. IInv' /\ MatchTypeOK'
  BY <1>1, NextIInv DEF IInv
<1>3. TypeOK'
  <2>1. claims' \in [Events -> {0} \cup ClaimCounts]
    BY <1>1 DEF TypeOK
  <2>2. /\ batch' \in [step : {"none", "ready", "fetching"}, checksum : {Unknown} \cup Versions,
                       synced : 0..MaxRuns]
        /\ counts' \in [RunIds -> [Orders -> {0} \cup ClaimCounts]]
        /\ Len(graphs') <= MaxGraphs
        /\ batch'.step = "fetching" => GraphRuns' /\ Graph'.attempting # NoEvent
    BY <1>1 DEF TypeOK
  <2>. QED BY <1>2, <2>1, <2>2 DEF TypeOK
<1>4. /\ RunsKept
      /\ \A r \in DOMAIN runs : \A e : IsAnchor(r, e)' => IsAnchor(r, e)
      /\ \A r \in DOMAIN runs : \A o :
           /\ SelectedEvent(MembersOf(r), o)' = SelectedEvent(MembersOf(r), o)
           /\ IsCanonical(r, o)' => IsCanonical(r, o) /\ IsAnchor(r, SelectedEvent(MembersOf(r), o))'
  BY <1>1, MatchingShrinks, CanonicalShrinks
<1>5. \A e \in Events : content[e] \in 0..3 /\ content'[e] \in 0..3
  <2>1. /\ content \in [Items -> {Unknown, Gone} \cup Versions]
        /\ content' \in [Items -> {Unknown, Gone} \cup Versions]
    BY <1>1, <1>2 DEF MatchTypeOK
  <2>. QED BY <2>1 DEF Items, Unknown, Gone, Versions
<1>6. \A r \in RunIds, e \in Events : states[r][e].checksum \in 0..2
  <2>1. states \in [RunIds -> [Events -> States]]
    BY <1>1 DEF TypeOK
  <2>. QED BY <2>1 DEF States, Unknown, Versions
<1>7. ASSUME NEW e \in Events, e \notin gone, e \notin edits
      PROVE  IsCovered(e)' <=> IsCovered(e)
  BY <1>7 DEF IsCovered
<1>8. StatesAgree'
  <2> SUFFICES ASSUME NEW r \in RunIds, NEW e \in Events
               PROVE  states'[r][e].status = "none" => states'[r][e] = NoState
    BY DEF StatesAgree
  <2>1. CASE e \in gone
    BY <2>1, <1>5 DEF NoState, Unknown
  <2>2. CASE e \notin gone
    BY <2>2, <1>1, <1>5, <1>6 DEF StatesAgree
  <2>. QED BY <2>1, <2>2
<1>9. NoCountsAhead'
  BY <1>1, <1>4 DEF NoCountsAhead, RunsKept
<1>10. ASSUME NEW r \in DOMAIN runs, NEW o, IsCanonical(r, o)'
       PROVE  LET e == SelectedEvent(MembersOf(r), o)
              IN  e \in Events /\ e \notin gone /\ claims'[e] = claims[e]
  BY <1>1, <1>4, <1>10, AnchorsAreEvents
<1>11. ClaimCountsAgree'
  <2> SUFFICES ASSUME NEW r \in DOMAIN runs', NEW o \in Orders, IsCanonical(r, o)'
               PROVE  counts'[r][o] \in {0, claims'[SelectedEvent(MembersOf(r), o)']}
    BY DEF ClaimCountsAgree
  <2>1. CASE r \in DOMAIN runs
    BY <2>1, <1>1, <1>4, <1>10 DEF ClaimCountsAgree
  <2>2. CASE r \notin DOMAIN runs
    <3>1. r \in RunIds
      <4>1. runs' \in Seq(Runs) /\ Len(runs') <= MaxRuns
        BY <1>2 DEF MatchTypeOK
      <4>. QED BY <4>1, MatchingAssumption DEF RunIds
    <3>. QED BY <2>2, <3>1, <1>1 DEF NoCountsAhead
  <2>. QED BY <2>1, <2>2
<1>12. GraphAgrees'
  <2> SUFFICES ASSUME GraphRuns
               PROVE  IsOpen(Graph)' /\ HasAsked(Graph)' /\ IsFetched(Graph, batch)' /\ HasCarried(Graph, batch)'
    BY DEF GraphAgrees
  <2>1. IsOpen(Graph) /\ HasAsked(Graph) /\ IsFetched(Graph, batch) /\ HasCarried(Graph, batch)
    BY <1>1 DEF GraphAgrees
  <2>2. Graph.run \in DOMAIN runs /\ Graph.run \in RunIds
    BY <1>1, <2>1, AnchorsAreEvents DEF IsOpen
  <2>3. IsOpen(Graph)'
    BY <2>1, <1>4 DEF IsOpen, RunsKept
  <2>4. HasAsked(Graph)'
    <3> SUFFICES ASSUME ~Graph.rebound, NEW e \in Events, IsAnchor(Graph.run, e)'
                 PROVE  IsAsked(Graph, e)' \/ IsAhead(Graph, e)'
      BY DEF HasAsked
    <3>1. IsAnchor(Graph.run, e) /\ e \notin gone
      BY <1>4, <2>2
    <3>2. IsAsked(Graph, e) \/ IsAhead(Graph, e)
      BY <3>1, <2>1 DEF HasAsked
    <3>3. CASE IsAhead(Graph, e)
      BY <3>3 DEF IsAhead
    <3>4. CASE IsAsked(Graph, e)
      BY <3>1, <3>4, <1>7, <2>2 DEF IsAsked
    <3>. QED BY <3>2, <3>3, <3>4
  <2>5. IsFetched(Graph, batch)'
    <3> SUFFICES ASSUME batch.step = "fetching"
                 PROVE  \/ batch.checksum = content'[Graph.attempting]
                        \/ content'[Graph.attempting] = Gone
                        \/ Graph.attempting \in Graph.edited \cup edits
      BY DEF IsFetched
    <3>1. Graph.attempting \in Events
      BY <1>1, GraphTyped DEF TypeOK, Graphs, Events, NoEvent
    <3>2. \/ batch.checksum = content[Graph.attempting]
          \/ content[Graph.attempting] = Gone
          \/ Graph.attempting \in Graph.edited
      BY <2>1 DEF IsFetched
    <3>. QED BY <3>1, <3>2
  <2>6. HasCarried(Graph, batch)'
    <3>1. ASSUME NEW r, r = Graph.run, ~Graph.rebound, batch.synced = r,
                 NEW edited, edited = Graph.edited \cup edits
          PROVE  CarriedOnto(r, edited)'
      <4> SUFFICES ASSUME NEW o \in Orders, NEW e, e = SelectedEvent(MembersOf(r), o),
                          IsCanonical(r, o)', IsCovered(e)', e \notin edited
                   PROVE  counts[r][o] = claims'[e]
        BY <1>4, <2>2, <3>1 DEF CarriedOnto
      <4>1. e \in Events /\ e \notin gone /\ claims'[e] = claims[e] /\ IsCanonical(r, o)
        BY <1>4, <1>10, <2>2, <3>1
      <4>2. IsCovered(e) /\ e \notin Graph.edited
        BY <4>1, <3>1, <1>7
      <4>. QED BY <4>1, <4>2, <2>1, <3>1 DEF HasCarried, CarriedOnto
    <3>. QED BY <3>1 DEF HasCarried, CarriedOnto
  <2>. QED BY <2>3, <2>4, <2>5, <2>6
<1>. QED BY <1>2, <1>3, <1>8, <1>9, <1>11, <1>12 DEF ClaimInv

LEMMA MatchStepKeeps ==
  ASSUME ClaimInv, MatchStep
  PROVE  ClaimInv'
<1>1. TypeOK
  BY DEF ClaimInv
<1>2. UNCHANGED content
  BY DEF MatchStep, Observe, Trigger, Compute, ComputeRefused, Publish, Replay, PublishRefused,
         PublishFails, Crash, TaskEnds
<1>3. UNCHANGED <<graphs, batch, states, claims, counts>>
  BY DEF MatchStep, claimVars
<1>4. [Next]_matchVars
  BY DEF MatchStep, Next
<1>5. (GraphRuns' <=> GraphRuns) /\ Graph' = Graph
  BY <1>3 DEF GraphRuns, Graph
<1>6. claims' = [e \in Events |-> IF e \in {} THEN 0 ELSE claims[e]]
  BY <1>1, <1>3 DEF TypeOK
<1>7. {} \in SUBSET Events
  OBVIOUS
<1>8. /\ graphs' \in Seq(Graphs) /\ Len(graphs') = Len(graphs)
      /\ states' \in [RunIds -> [Events -> States]]
      /\ \A g \in DOMAIN graphs' : graphs'[g].status = "running" => g = Len(graphs')
  BY <1>1, <1>3 DEF TypeOK
<1>9. Graph'.edited = Graph.edited \cup {}
  BY <1>5
<1>. QED BY <1>2, <1>3, <1>4, <1>5, <1>6, <1>7, <1>8, <1>9, BesideSteps

LEMMA StoreKeeps ==
  ASSUME ClaimInv, NEW i \in Items, StoreItem(i)
  PROVE  ClaimInv'
<1> SUFFICES ASSUME NEW edits, edits = Events \cap {i}, NEW gone, gone = {}
             PROVE  ClaimInv'
  OBVIOUS
<1>1. TypeOK /\ MatchTypeOK
  BY DEF ClaimInv, TypeOK
<1>2. [Next]_matchVars
  BY DEF StoreItem, Next
<1>3. \A e \in Events : \/ content'[e] = content[e]
                        \/ e \in edits /\ content'[e] # Gone
  <2>1. content \in [Items -> {Unknown, Gone} \cup Versions] /\ Events \subseteq Items
    BY <1>1 DEF MatchTypeOK, Items
  <2>2. content' = [content EXCEPT ![i] = IF content[i] = 1 THEN 2 ELSE 1]
    BY DEF StoreItem, Store
  <2>. QED BY <2>1, <2>2 DEF Gone
<1>4. UNCHANGED <<batch, states, claims, counts>>
  BY DEF StoreItem
<1>5. claims' = [e \in Events |-> IF e \in gone THEN 0 ELSE claims[e]]
  BY <1>1, <1>4 DEF TypeOK
<1>6. states' \in [RunIds -> [Events -> States]]
  BY <1>1, <1>4 DEF TypeOK
<1> DEFINE Kept ==
      /\ graphs' \in Seq(Graphs) /\ Len(graphs') = Len(graphs)
      /\ GraphRuns' <=> GraphRuns
      /\ \A g \in DOMAIN graphs' : graphs'[g].status = "running" => g = Len(graphs')
      /\ GraphRuns => /\ Graph'.run = Graph.run /\ Graph'.attempting = Graph.attempting
                      /\ Graph'.phase = Graph.phase /\ Graph'.cursor = Graph.cursor
                      /\ Graph'.rebound = Graph.rebound
                      /\ Graph'.incompleteLeft = Graph.incompleteLeft
                      /\ Graph'.failedLeft = Graph.failedLeft
                      /\ Graph'.edited = Graph.edited \cup edits
<1>7. ASSUME GraphRuns, i \in Events PROVE Kept
  <2> SUFFICES ASSUME NEW g, g = [Graph EXCEPT !.edited = @ \cup {i}]
               PROVE  Kept
    OBVIOUS
  <2>1. Graph \in Graphs /\ Graph.status = "running"
    BY <1>1, <1>7, GraphTyped
  <2>2. /\ g \in Graphs /\ g.status = "running"
        /\ g.run = Graph.run /\ g.attempting = Graph.attempting
        /\ g.phase = Graph.phase /\ g.cursor = Graph.cursor
        /\ g.rebound = Graph.rebound
        /\ g.incompleteLeft = Graph.incompleteLeft /\ g.failedLeft = Graph.failedLeft
        /\ g.edited = Graph.edited \cup {i}
    BY <1>7, <2>1 DEF Graphs
  <2>3. graphs' = WithGraph(g)
    BY <1>7 DEF StoreItem
  <2>4. /\ graphs' \in Seq(Graphs) /\ Len(graphs') = Len(graphs)
        /\ Graph' = g /\ (GraphRuns' <=> g.status = "running")
        /\ \A h \in DOMAIN graphs' : graphs'[h].status = "running" => h = Len(graphs')
    BY <1>1, <1>7, <2>2, <2>3, WithGraphIs
  <2>5. edits = {i}
    BY <1>7
  <2>. QED BY <1>7, <2>2, <2>4, <2>5
<1>8. ASSUME ~(GraphRuns /\ i \in Events) PROVE Kept
  <2>1. graphs' = graphs
    BY <1>8 DEF StoreItem
  <2>2. (GraphRuns' <=> GraphRuns) /\ Graph' = Graph
    BY <2>1 DEF GraphRuns, Graph
  <2>3. GraphRuns => edits = {}
    BY <1>8
  <2>. QED BY <1>1, <2>1, <2>2, <2>3 DEF TypeOK
<1>9. Kept
  BY <1>7, <1>8
<1>10. \A e \in Events : \/ content'[e] = content[e]
                         \/ e \in edits /\ content'[e] # Gone
                         \/ e \in gone /\ content'[e] = Gone
  BY <1>3
<1>11. \A r, e : e \in gone => ~IsAnchor(r, e)'
  OBVIOUS
<1>12. \A r \in RunIds, e \in Events :
         states'[r][e] = IF e \in gone THEN NoState ELSE states[r][e]
  BY <1>4
<1> HIDE DEF Kept
<1>13. edits \in SUBSET Events /\ gone \in SUBSET Events
  OBVIOUS
<1>14. Kept => ClaimInv'
  BY <1>2, <1>4, <1>5, <1>6, <1>10, <1>11, <1>12, <1>13, BesideSteps DEF Kept
<1>. QED BY <1>9, <1>14

LEMMA EraseKeeps ==
  ASSUME ClaimInv, NEW e0 \in Events, EraseEvent(e0)
  PROVE  ClaimInv'
<1>1. TypeOK /\ MatchTypeOK
  BY DEF ClaimInv, TypeOK
<1>2. [Next]_matchVars
  BY DEF EraseEvent, Next
<1>3. \A e \in Events : content'[e] = content[e] \/ (e \in {e0} /\ content'[e] = Gone)
  <2>1. content \in [Items -> {Unknown, Gone} \cup Versions] /\ Events \subseteq Items
    BY <1>1 DEF MatchTypeOK, Items
  <2>2. content' = [content EXCEPT ![e0] = Gone]
    BY DEF EraseEvent, Erase
  <2>. QED BY <2>1, <2>2
<1>4. \A r, e : e \in {e0} => ~IsAnchor(r, e)'
  BY DEF EraseEvent, Erase, IsAnchor
<1>5. UNCHANGED <<graphs, batch, counts>>
  BY DEF EraseEvent
<1>6. (GraphRuns' <=> GraphRuns) /\ Graph' = Graph
  BY <1>5 DEF GraphRuns, Graph
<1>7. claims' = [e \in Events |-> IF e \in {e0} THEN 0 ELSE claims[e]]
  BY <1>1 DEF EraseEvent, TypeOK
<1>8. /\ states' \in [RunIds -> [Events -> States]]
      /\ \A r \in RunIds, e \in Events : states'[r][e] = IF e \in {e0} THEN NoState ELSE states[r][e]
  <2>1. NoState \in States
    BY ClaimAssumption DEF NoState, States
  <2>2. states \in [RunIds -> [Events -> States]]
    BY <1>1 DEF TypeOK
  <2>3. states' = [r \in RunIds |-> [states[r] EXCEPT ![e0] = NoState]]
    BY DEF EraseEvent
  <2>. QED BY <2>1, <2>2, <2>3
<1>9. {e0} \in SUBSET Events /\ {} \in SUBSET Events
  OBVIOUS
<1>10. /\ graphs' \in Seq(Graphs) /\ Len(graphs') = Len(graphs)
       /\ \A g \in DOMAIN graphs' : graphs'[g].status = "running" => g = Len(graphs')
  BY <1>1, <1>5 DEF TypeOK
<1>11. Graph'.edited = Graph.edited \cup {}
  BY <1>6
<1>. QED BY <1>2, <1>3, <1>4, <1>5, <1>6, <1>7, <1>8, <1>9, <1>10, <1>11, BesideSteps

-----------------------------------------------------------------------------
\* Steps of the replay.

Batches == [step : {"none", "ready", "fetching"}, checksum : {Unknown} \cup Versions,
            synced : 0..MaxRuns]

LEMMA MatchingStands ==
  ASSUME UNCHANGED matchVars
  PROVE  /\ DOMAIN runs' = DOMAIN runs /\ content' = content
         /\ \A r, e : IsAnchor(r, e)' <=> IsAnchor(r, e)
         /\ \A r, o : IsCanonical(r, o)' <=> IsCanonical(r, o)
         /\ \A r, o : SelectedEvent(MembersOf(r), o)' = SelectedEvent(MembersOf(r), o)
<1>1. UNCHANGED <<links, content, runs, eventCurrent, orderCurrent>>
  BY DEF matchVars
<1>2. \A r : MembersOf(r)' = MembersOf(r)
  BY <1>1 DEF MembersOf
<1>3. /\ \A mem, e : SelectedOrder(mem, e)' = SelectedOrder(mem, e)
      /\ \A mem, p : SelectedEvent(mem, p)' = SelectedEvent(mem, p)
  BY <1>1, SelectionStays
<1>4. \A mem, e : IsConfirmed(mem, e)' <=> IsConfirmed(mem, e)
  BY <1>1 DEF IsConfirmed, DeterministicOrders
<1>5. \A r, e : IsAnchor(r, e)' <=> IsAnchor(r, e)
  BY <1>1 DEF IsAnchor
<1>6. \A r, o : SelectedEvent(MembersOf(r), o)' = SelectedEvent(MembersOf(r), o)
  BY <1>2, <1>3
<1>7. \A r, o : IsCanonical(r, o)' <=> IsCanonical(r, o)
  BY <1>1, <1>2, <1>3, <1>4, <1>5, <1>6 DEF IsCanonical
<1>. QED BY <1>1, <1>5, <1>6, <1>7

(* The row of the running graph is written, and with it states and claims.     *)
LEMMA ReplaySteps ==
  ASSUME ClaimInv, UNCHANGED matchVars, GraphRuns,
         NEW g \in Graphs, graphs' = WithGraph(g), batch' \in Batches,
         states' \in [RunIds -> [Events -> States]],
         claims' \in [Events -> {0} \cup ClaimCounts],
         counts' \in [RunIds -> [Orders -> {0} \cup ClaimCounts]],
         StatesAgree', NoCountsAhead', ClaimCountsAgree',
         batch'.step = "fetching" => g.status = "running" /\ g.attempting # NoEvent,
         g.status = "running" =>
           IsOpen(g) /\ HasAsked(g)' /\ IsFetched(g, batch)' /\ HasCarried(g, batch)'
  PROVE  ClaimInv'
<1>1. IInv /\ TypeOK /\ IInv' /\ MatchTypeOK'
  BY NextIInv DEF ClaimInv, IInv
<1>2. /\ graphs' \in Seq(Graphs) /\ Len(graphs') = Len(graphs)
      /\ Graph' = g
      /\ GraphRuns' <=> g.status = "running"
      /\ \A i \in DOMAIN graphs' : graphs'[i].status = "running" => i = Len(graphs')
  BY <1>1, WithGraphIs
<1>3. TypeOK'
  BY <1>1, <1>2 DEF TypeOK, Batches
<1>4. DOMAIN runs' = DOMAIN runs
  BY MatchingStands
<1>5. GraphAgrees'
  BY <1>2, <1>4 DEF GraphAgrees, IsOpen, HasAsked, IsFetched, HasCarried, IsAsked, IsAhead
<1>. QED BY <1>1, <1>3, <1>5 DEF ClaimInv

(* Only the graph and its task are written.                                    *)
LEMMA GraphSteps ==
  ASSUME ClaimInv, UNCHANGED matchVars, UNCHANGED <<states, claims, counts>>, GraphRuns,
         NEW g \in Graphs, graphs' = WithGraph(g),
         NEW b \in Batches, batch' = b,
         b.step = "fetching" => g.status = "running" /\ g.attempting # NoEvent,
         g.status = "running" =>
           IsOpen(g) /\ HasAsked(g) /\ IsFetched(g, b) /\ HasCarried(g, b)
  PROVE  ClaimInv'
<1>1. TypeOK /\ StatesAgree /\ NoCountsAhead /\ ClaimCountsAgree
  BY DEF ClaimInv
<1>2. /\ DOMAIN runs' = DOMAIN runs /\ content' = content
      /\ \A r, e : IsAnchor(r, e)' <=> IsAnchor(r, e)
      /\ \A r, o : IsCanonical(r, o)' <=> IsCanonical(r, o)
      /\ \A r, o : SelectedEvent(MembersOf(r), o)' = SelectedEvent(MembersOf(r), o)
  BY MatchingStands
<1>3. \A e : IsCovered(e)' <=> IsCovered(e)
  BY <1>2 DEF IsCovered
<1>4. StatesAgree' /\ NoCountsAhead'
  BY <1>1, <1>2 DEF StatesAgree, NoCountsAhead
<1>5. ClaimCountsAgree'
  BY <1>1, <1>2 DEF ClaimCountsAgree
<1>6. HasAsked(g) => HasAsked(g)'
  BY <1>2, <1>3 DEF HasAsked, IsAsked, IsAhead
<1>7. IsFetched(g, b) => IsFetched(g, batch)'
  BY <1>2 DEF IsFetched
<1>8. HasCarried(g, b) => HasCarried(g, batch)'
  <2>1. \A r, edited : CarriedOnto(r, edited)' <=> CarriedOnto(r, edited)
    BY <1>2, <1>3 DEF CarriedOnto
  <2>. QED BY <2>1 DEF HasCarried
<1>9. /\ states' \in [RunIds -> [Events -> States]]
      /\ claims' \in [Events -> {0} \cup ClaimCounts]
      /\ counts' \in [RunIds -> [Orders -> {0} \cup ClaimCounts]]
  BY <1>1 DEF TypeOK
<1>. QED BY <1>4, <1>5, <1>6, <1>7, <1>8, <1>9, ReplaySteps

LEMMA BatchesAre ==
  /\ Ready \in Batches /\ NoBatch \in Batches
  /\ Ready.step = "ready" /\ NoBatch.step = "none"
  /\ Ready.synced = 0 /\ NoBatch.synced = 0
  BY MatchingAssumption DEF Ready, NoBatch, Batches

LEMMA RunningGraph ==
  ASSUME ClaimInv, GraphRuns
  PROVE  /\ Graph \in Graphs /\ Graph.status = "running"
         /\ IsOpen(Graph) /\ HasAsked(Graph) /\ IsFetched(Graph, batch) /\ HasCarried(Graph, batch)
         /\ Graph.run \in DOMAIN runs /\ Graph.run \in RunIds
         /\ batch \in Batches
         /\ batch.step = "fetching" => Graph.attempting \in Events
<1>1. TypeOK /\ GraphAgrees
  BY DEF ClaimInv
<1>2. Graph \in Graphs /\ Graph.status = "running" /\ batch \in Batches
  BY <1>1, GraphTyped DEF TypeOK, Batches
<1>3. batch.step = "fetching" => Graph.attempting \in Events
  BY <1>1, <1>2 DEF TypeOK, Graphs, Events, NoEvent
<1>4. /\ IsOpen(Graph) /\ HasAsked(Graph) /\ IsFetched(Graph, batch) /\ HasCarried(Graph, batch)
      /\ Graph.run \in DOMAIN runs /\ Graph.run \in RunIds
  BY <1>1, <1>2 DEF GraphAgrees, IsOpen, Graphs
<1>. QED BY <1>2, <1>3, <1>4

(* A rebound graph has asked nothing under its new binding, and says so.       *)
LEMMA ReboundAgrees ==
  ASSUME ClaimInv, GraphRuns, CanRebind(Graph), NEW b
  PROVE  /\ IsOpen(Rebound(Graph)) /\ HasAsked(Rebound(Graph)) /\ HasCarried(Rebound(Graph), b)
         /\ IsFetched(Graph, b) => IsFetched(Rebound(Graph), b)
<1>1. TypeOK /\ Graph \in Graphs /\ IsOpen(Graph)
  BY RunningGraph DEF ClaimInv
<1>. QED BY <1>1, ReboundIs DEF IsOpen, HasAsked, HasCarried, IsFetched

LEMMA AnchoredAgrees ==
  ASSUME ClaimInv, GraphRuns, NEW e
  PROVE  LET h == Anchored(Graph, e)
         IN  /\ IsOpen(h) /\ HasAsked(h) /\ HasCarried(h, batch) /\ IsFetched(h, batch)
             /\ h \in Graphs /\ h.status = "running" /\ h.attempting = Graph.attempting
             /\ h.edited = Graph.edited /\ h.run \in RunIds
<1>1. TypeOK
  BY DEF ClaimInv
<1>2. CASE Anchored(Graph, e) = Graph
  BY <1>2, RunningGraph
<1>3. CASE Anchored(Graph, e) # Graph
  <2>1. CanRebind(Graph) /\ Anchored(Graph, e) = Rebound(Graph)
    BY <1>3 DEF Anchored
  <2>2. Rebound(Graph) \in Graphs
    BY <1>1, <2>1, RunningGraph, ReboundIs
  <2>. QED BY <1>1, <2>1, <2>2, RunningGraph, ReboundIs, ReboundAgrees DEF Graphs
<1>. QED BY <1>2, <1>3

LEMMA PreflightKeeps ==
  ASSUME ClaimInv, Preflight
  PROVE  ClaimInv'
<1>1. GraphRuns /\ batch.step = "fetching" /\ UNCHANGED matchVars
      /\ UNCHANGED <<batch, states, claims, counts>>
      /\ graphs' = WithGraph(Anchored(Graph, Graph.attempting))
  BY DEF Preflight
<1>2. Graph.attempting \in Events /\ Graph.attempting # NoEvent /\ batch \in Batches
  BY <1>1, RunningGraph, EventsAreNat
<1>. QED BY <1>1, <1>2, AnchoredAgrees, GraphSteps

LEMMA StartRebindsKeeps ==
  ASSUME ClaimInv, NEW r, StartRebinds(r)
  PROVE  ClaimInv'
<1>1. GraphRuns /\ CanRebind(Graph) /\ UNCHANGED matchVars
      /\ UNCHANGED <<batch, states, claims, counts>>
      /\ graphs' = WithGraph(Rebound(Graph))
  BY DEF StartRebinds
<1>2. Rebound(Graph) \in Graphs /\ Rebound(Graph).attempting = Graph.attempting
      /\ Rebound(Graph).status = "running"
  BY <1>1, RunningGraph, ReboundIs DEF ClaimInv
<1>3. batch.step = "fetching" => Graph.attempting # NoEvent
  BY <1>1, RunningGraph, EventsAreNat
<1>. QED BY <1>1, <1>2, <1>3, RunningGraph, ReboundAgrees, GraphSteps

(* What the graph no longer holds needs no question.                           *)
LEMMA PassedOver ==
  ASSUME NEW g \in Graphs, IsOpen(g), HasAsked(g), g.attempting \in Events,
         ~IsAnchor(g.run, g.attempting)
  PROVE  IsOpen(Past(g)) /\ HasAsked(Past(g))
<1>1. /\ Past(g).cursor = g.attempting /\ Past(g).attempting = NoEvent
      /\ Past(g).run = g.run /\ Past(g).phase = g.phase
      /\ Past(g).rebound = g.rebound /\ Past(g).edited = g.edited
  BY PastIs
<1>2. IsOpen(Past(g))
  BY <1>1 DEF IsOpen
<1>3. ASSUME ~g.rebound, NEW e \in Events, IsAnchor(g.run, e)
      PROVE  IsAsked(Past(g), e) \/ IsAhead(Past(g), e)
  <2>1. e # g.attempting
    BY <1>3
  <2>2. IsAsked(g, e) \/ IsAhead(g, e)
    BY <1>3 DEF HasAsked
  <2>3. CASE IsAsked(g, e)
    BY <2>3, <1>1 DEF IsAsked
  <2>4. CASE IsAhead(g, e)
    <3>1. e >= g.attempting /\ g.attempting \in Nat /\ e \in Nat
      BY <2>4, EventsAreNat DEF IsAhead
    <3>. QED BY <2>1, <2>4, <3>1, <1>1 DEF IsAhead
  <2>. QED BY <2>2, <2>3, <2>4
<1>. QED BY <1>1, <1>2, <1>3 DEF HasAsked

LEMMA CommitSkipsKeeps ==
  ASSUME ClaimInv, CommitSkips
  PROVE  ClaimInv'
<1> DEFINE g == Anchored(Graph, Graph.attempting)
           b == [Ready EXCEPT !.synced = batch.synced]
<1>1. GraphRuns /\ batch.step = "fetching" /\ UNCHANGED matchVars
      /\ UNCHANGED <<states, claims, counts>>
      /\ ~IsAnchor(g.run, g.attempting)
      /\ graphs' = WithGraph(Past(g)) /\ batch' = b
  BY DEF CommitSkips
<1>2. /\ IsOpen(g) /\ HasAsked(g) /\ HasCarried(g, batch)
      /\ g \in Graphs /\ g.status = "running" /\ g.attempting = Graph.attempting
      /\ g.attempting \in Events
  BY <1>1, AnchoredAgrees, RunningGraph
<1>3. b \in Batches /\ b.step = "ready" /\ b.synced = batch.synced
  BY <1>1, BatchesAre, RunningGraph DEF Ready, Batches
<1> HIDE DEF b, g
<1>4. /\ Past(g) \in Graphs /\ Past(g).cursor = g.attempting /\ Past(g).attempting = NoEvent
      /\ Past(g).run = g.run /\ Past(g).status = "running" /\ Past(g).phase = g.phase
      /\ Past(g).rebound = g.rebound /\ Past(g).edited = g.edited
  BY <1>2, PastIs
<1>5. IsOpen(Past(g)) /\ HasAsked(Past(g))
  BY <1>1, <1>2, PassedOver
<1>6. HasCarried(Past(g), b) /\ IsFetched(Past(g), b)
  BY <1>2, <1>3, <1>4 DEF HasCarried, IsFetched
<1>. QED BY <1>1, <1>3, <1>4, <1>5, <1>6, GraphSteps

LEMMA CommitBlockedKeeps ==
  ASSUME ClaimInv, CommitBlocked
  PROVE  ClaimInv'
<1>1. GraphRuns /\ UNCHANGED matchVars /\ UNCHANGED <<states, claims, counts>>
      /\ graphs' = WithGraph(Anchored(Graph, Graph.attempting)) /\ batch' = NoBatch
  BY DEF CommitBlocked
<1> DEFINE g == Anchored(Graph, Graph.attempting)
<1>2. IsOpen(g) /\ HasAsked(g) /\ g \in Graphs /\ g.run \in RunIds
  BY <1>1, AnchoredAgrees
<1>3. HasCarried(g, NoBatch) /\ IsFetched(g, NoBatch)
  BY <1>2, BatchesAre, MatchingAssumption DEF HasCarried, IsFetched, RunIds
<1>. QED BY <1>1, <1>2, <1>3, BatchesAre, GraphSteps

LEMMA TaskKeeps ==
  ASSUME ClaimInv, NextBatch \/ BatchDies
  PROVE  ClaimInv'
<1>1. PICK b \in {Ready, NoBatch} : batch' = b
  BY DEF NextBatch, BatchDies
<1>2. GraphRuns /\ UNCHANGED matchVars /\ UNCHANGED <<states, claims, counts>> /\ graphs' = graphs
  BY DEF NextBatch, BatchDies
<1>3. graphs' = WithGraph(Graph)
  <2>1. graphs \in Seq(Graphs) /\ Len(graphs) \in DOMAIN graphs
    BY <1>2, GraphTyped DEF ClaimInv, TypeOK
  <2>. QED BY <1>2, <2>1 DEF WithGraph, Graph
<1>4. b \in Batches /\ b.step # "fetching" /\ b.synced = 0
  BY <1>1, BatchesAre
<1>5. HasCarried(Graph, b) /\ IsFetched(Graph, b)
  BY <1>2, <1>4, RunningGraph, MatchingAssumption DEF HasCarried, IsFetched, RunIds
<1>. QED BY <1>1, <1>2, <1>3, <1>4, <1>5, RunningGraph, GraphSteps

LEMMA StartKeeps ==
  ASSUME ClaimInv, NEW r \in DOMAIN runs, Start(r)
  PROVE  ClaimInv'
<1> SUFFICES ASSUME NEW rows,
                    rows = IF GraphRuns THEN WithGraph(Finished(Graph, "failed")) ELSE graphs
             PROVE  ClaimInv'
  OBVIOUS
<1>1. /\ IInv /\ IInv' /\ MatchTypeOK /\ MatchTypeOK' /\ TypeOK /\ StatesAgree /\ NoCountsAhead /\ ClaimCountsAgree
      /\ UNCHANGED matchVars /\ UNCHANGED <<states, claims, counts>>
      /\ StartFresh(r, rows) /\ Len(graphs) < MaxGraphs
  BY NextIInv DEF ClaimInv, IInv, Start
<1>2. /\ rows \in Seq(Graphs) /\ Len(rows) = Len(graphs)
      /\ \A i \in DOMAIN rows : rows[i].status # "running"
  <2>1. /\ graphs \in Seq(Graphs) /\ DOMAIN graphs = 1..Len(graphs) /\ Len(graphs) \in Nat
        /\ \A i \in DOMAIN graphs : graphs[i].status = "running" => i = Len(graphs)
    BY <1>1, GraphTyped DEF TypeOK
  <2>2. CASE GraphRuns
    <3> SUFFICES ASSUME NEW g \in Graphs, g.status = "failed", rows = WithGraph(g)
                 PROVE  /\ rows \in Seq(Graphs) /\ Len(rows) = Len(graphs)
                        /\ \A i \in DOMAIN rows : rows[i].status # "running"
      BY <1>1, <2>2, GraphTyped, FinishedIs
    <3>1. rows \in Seq(Graphs) /\ Len(rows) = Len(graphs) /\ DOMAIN rows = DOMAIN graphs
      BY <2>1, <2>2 DEF WithGraph, GraphRuns
    <3>2. \A i \in DOMAIN graphs : rows[i] = IF i = Len(graphs) THEN g ELSE graphs[i]
      BY <2>1 DEF WithGraph
    <3>. QED BY <2>1, <3>1, <3>2
  <2>3. CASE ~GraphRuns
    BY <2>1, <2>3 DEF GraphRuns, Graph
  <2>. QED BY <2>2, <2>3
<1>3. /\ DOMAIN runs' = DOMAIN runs /\ content' = content
      /\ \A q, e : IsAnchor(q, e)' <=> IsAnchor(q, e)
      /\ \A q, o : IsCanonical(q, o)' <=> IsCanonical(q, o)
      /\ \A q, o : SelectedEvent(MembersOf(q), o)' = SelectedEvent(MembersOf(q), o)
  BY <1>1, MatchingStands
<1>4. StatesAgree' /\ NoCountsAhead' /\ ClaimCountsAgree'
  BY <1>1, <1>3 DEF StatesAgree, NoCountsAhead, ClaimCountsAgree
<1>5. /\ states' \in [RunIds -> [Events -> States]]
      /\ claims' \in [Events -> {0} \cup ClaimCounts]
      /\ counts' \in [RunIds -> [Orders -> {0} \cup ClaimCounts]]
  BY <1>1 DEF TypeOK
<1>6. CASE graphs' = Append(rows, NewGraph(r)) /\ batch' = Ready
  <2>1. r \in RunIds
    BY <1>1, AnchorsAreEvents
  <2>2. /\ NewGraph(r) \in Graphs /\ NewGraph(r).status = "running" /\ NewGraph(r).run = r
        /\ NewGraph(r).phase = "missing" /\ NewGraph(r).cursor = 0
        /\ NewGraph(r).attempting = NoEvent
    BY <2>1, NewGraphIs
  <2> SUFFICES ASSUME NEW g \in Graphs, g = NewGraph(r) PROVE ClaimInv'
    BY <2>2
  <2>3. /\ graphs' \in Seq(Graphs) /\ Len(graphs') = Len(graphs) + 1
        /\ DOMAIN graphs' = 1..Len(graphs) + 1
        /\ graphs'[Len(graphs) + 1] = g /\ \A i \in 1..Len(graphs) : graphs'[i] = rows[i]
    BY <1>2, <1>6
  <2>4. Graph' = g /\ GraphRuns'
    BY <2>2, <2>3, <1>1, GraphTyped DEF Graph, GraphRuns
  <2>5. \A i \in DOMAIN graphs' : graphs'[i].status = "running" => i = Len(graphs')
    <3>1. DOMAIN rows = 1..Len(graphs)
      BY <1>2
    <3>. QED BY <1>2, <2>3, <3>1
  <2>6. TypeOK'
    <3>1. Len(graphs') <= MaxGraphs
      BY <1>1, <2>3, GraphTyped, ClaimAssumption
    <3>2. batch' \in Batches /\ batch'.step # "fetching"
      BY <1>6, BatchesAre
    <3>. QED BY <1>1, <1>5, <2>3, <2>5, <3>1, <3>2 DEF TypeOK, Batches
  <2>7. GraphAgrees'
    <3>1. IsOpen(Graph)'
      BY <1>3, <2>2, <2>4 DEF IsOpen
    <3>2. HasAsked(Graph)'
      <4>1. \A e \in Events : e > 0
        BY EventsAreNat
      <4>2. \A e \in Events : IsAhead(g, e)
        BY <4>1, <2>2 DEF IsAhead
      <4>3. \A e \in Events : IsAhead(Graph, e)'
        BY <4>2, <2>4 DEF IsAhead
      <4>. QED BY <4>3 DEF HasAsked
    <3>3. IsFetched(Graph, batch)' /\ HasCarried(Graph, batch)'
      BY <1>6, <2>1, <2>2, <2>4, BatchesAre, MatchingAssumption DEF IsFetched, HasCarried, RunIds
    <3>. QED BY <3>1, <3>2, <3>3 DEF GraphAgrees
  <2>. QED BY <1>1, <1>4, <2>6, <2>7 DEF ClaimInv
<1>7. CASE graphs' = rows /\ batch' = NoBatch
  <2>1. ~GraphRuns'
    BY <1>2, <1>7 DEF GraphRuns, Graph
  <2>2. TypeOK'
    <3>1. graphs' \in Seq(Graphs) /\ Len(graphs') <= MaxGraphs
      BY <1>1, <1>2, <1>7 DEF TypeOK
    <3>2. batch' \in Batches /\ batch'.step # "fetching"
      BY <1>7, BatchesAre
    <3>3. \A i \in DOMAIN graphs' : graphs'[i].status = "running" => i = Len(graphs')
      BY <1>2, <1>7
    <3>. QED BY <1>1, <1>5, <3>1, <3>2, <3>3 DEF TypeOK, Batches
  <2>. QED BY <1>1, <1>4, <2>1, <2>2 DEF ClaimInv, GraphAgrees
<1>. QED BY <1>1, <1>6, <1>7 DEF StartFresh

LEMMA RecoverKeeps ==
  ASSUME ClaimInv, Recover
  PROVE  ClaimInv'
<1>1. GraphRuns /\ UNCHANGED matchVars /\ UNCHANGED <<claims, counts>> /\ batch' = NoBatch
  BY DEF Recover
<1>2. TypeOK /\ MatchTypeOK /\ ConclusionsAgree /\ StatesAgree /\ NoCountsAhead /\ ClaimCountsAgree
  BY DEF ClaimInv, IInv
<1>3. /\ Graph \in Graphs /\ Graph.status = "running" /\ IsOpen(Graph) /\ HasAsked(Graph)
      /\ Graph.run \in DOMAIN runs /\ Graph.run \in RunIds
  BY <1>1, RunningGraph
<1>4. Graph.attempting # NoEvent => Graph.attempting \in Events
  BY <1>3 DEF Graphs, Events, NoEvent
<1>5. Past(Graph) \in Graphs /\ Past(Graph).run = Graph.run /\ Past(Graph).status = "running"
  BY <1>3, PastIs
<1>6. ASSUME NEW g \in Graphs, g.status # "running", graphs' = WithGraph(g), UNCHANGED states
      PROVE  ClaimInv'
  BY <1>1, <1>6, BatchesAre, GraphSteps
<1>7. CASE Graph.attempting = NoEvent /\ graphs' = WithGraph(Finished(Graph, "failed")) /\ UNCHANGED states
  BY <1>3, <1>6, <1>7, FinishedIs
<1>8. CASE /\ Graph.attempting # NoEvent /\ IsAnchor(Graph.run, Graph.attempting)
           /\ states' = StateOf(Graph, "failed", content[Graph.attempting])
           /\ graphs' = WithGraph(Finished(Past(Graph), "failed"))
  <2> SUFFICES ASSUME NEW e \in Events, e = Graph.attempting,
                      NEW row, row = [status |-> "failed", checksum |-> content[e], graph |-> Len(graphs)]
               PROVE  ClaimInv'
    BY <1>4, <1>8
  <2>1. content[e] \in {Unknown} \cup Versions /\ content[e] \in Nat
    <3>1. content[e] # Gone
      BY <1>2, <1>8 DEF ConclusionsAgree, NothingFromErased, IsAnchor
    <3>2. content \in [Items -> {Unknown, Gone} \cup Versions] /\ e \in Items
      BY <1>2 DEF MatchTypeOK, Items
    <3>. QED BY <3>1, <3>2 DEF Unknown, Versions
  <2>2. row \in States /\ row.checksum = content[e] /\ row.status # "none"
    BY <2>1, <1>2, GraphTyped DEF States
  <2>3. states' = [states EXCEPT ![Graph.run][e] = row]
    BY <1>8 DEF StateOf
  <2>4. states \in [RunIds -> [Events -> States]]
    BY <1>2 DEF TypeOK
  <2>5. /\ states' \in [RunIds -> [Events -> States]]
        /\ \A q \in RunIds, f \in Events :
             states'[q][f] = IF q = Graph.run /\ f = e THEN row ELSE states[q][f]
    BY <1>3, <2>2, <2>3, <2>4
  <2>6. StatesAgree'
    <3>1. content' = content
      BY <1>1, MatchingStands
    <3>. QED BY <1>2, <2>1, <2>2, <2>5, <3>1 DEF StatesAgree
  <2>7. NoCountsAhead' /\ ClaimCountsAgree'
    BY <1>1, <1>2, MatchingStands DEF NoCountsAhead, ClaimCountsAgree
  <2>8. /\ claims' \in [Events -> {0} \cup ClaimCounts]
        /\ counts' \in [RunIds -> [Orders -> {0} \cup ClaimCounts]]
    BY <1>1, <1>2 DEF TypeOK
  <2>9. Finished(Past(Graph), "failed") \in Graphs /\ Finished(Past(Graph), "failed").status = "failed"
    BY <1>5, FinishedIs
  <2>10. batch' \in Batches /\ batch'.step # "fetching"
    BY <1>1, BatchesAre
  <2> SUFFICES ASSUME NEW g \in Graphs, g.status = "failed", graphs' = WithGraph(g)
               PROVE  ClaimInv'
    BY <1>8, <2>9
  <2>. QED BY <1>1, <2>5, <2>6, <2>7, <2>8, <2>10, ReplaySteps
<1>9. CASE /\ Graph.attempting # NoEvent /\ ~IsAnchor(Graph.run, Graph.attempting)
           /\ graphs' = WithGraph(IF YieldsAnchors(Graph.run) THEN Past(Graph)
                                  ELSE Finished(Past(Graph), "stale"))
           /\ UNCHANGED states
  <2>1. CASE ~YieldsAnchors(Graph.run)
    BY <1>5, <1>6, <1>9, <2>1, FinishedIs
  <2>2. CASE YieldsAnchors(Graph.run)
    <3>1. IsOpen(Past(Graph)) /\ HasAsked(Past(Graph))
      BY <1>3, <1>4, <1>9, PassedOver
    <3>2. HasCarried(Past(Graph), NoBatch) /\ IsFetched(Past(Graph), NoBatch)
      BY <1>3, <1>5, BatchesAre, MatchingAssumption DEF HasCarried, IsFetched, RunIds
    <3>. QED BY <1>1, <1>5, <1>9, <2>2, <3>1, <3>2, BatchesAre, GraphSteps
  <2>. QED BY <2>1, <2>2
<1>. QED BY <1>7, <1>8, <1>9 DEF Recover

LEMMA CommitKeeps ==
  ASSUME ClaimInv, NEW n \in ClaimCounts, NEW complete \in BOOLEAN, Commit(n, complete)
  PROVE  ClaimInv'
<1> SUFFICES ASSUME NEW g, g = Anchored(Graph, Graph.attempting),
                    NEW e, e = g.attempting,
                    NEW status, status = IF complete THEN "complete" ELSE "incomplete",
                    NEW row, row = [status |-> status, checksum |-> batch.checksum, graph |-> Len(graphs)],
                    NEW b, b = [Ready EXCEPT !.synced = batch.synced],
                    NEW r, r = g.run
             PROVE  ClaimInv'
  OBVIOUS
<1>1. /\ GraphRuns /\ batch.step = "fetching" /\ UNCHANGED matchVars
      /\ IsAnchor(r, e)
      /\ states' = [states EXCEPT ![r][e] = row]
      /\ claims' = IF complete THEN [claims EXCEPT ![e] = n] ELSE claims
      /\ counts' = IF complete THEN CountsAfter(g, e, n) ELSE counts
      /\ graphs' = WithGraph(Tried(g)) /\ batch' = b
  BY DEF Commit, StateOf
<1>2. /\ TypeOK /\ MatchTypeOK /\ ConclusionsAgree /\ StatesAgree /\ NoCountsAhead /\ ClaimCountsAgree
  BY DEF ClaimInv, IInv
<1>3. /\ IsOpen(g) /\ HasAsked(g) /\ HasCarried(g, batch) /\ IsFetched(g, batch)
      /\ g \in Graphs /\ g.status = "running" /\ r \in RunIds /\ r \in DOMAIN runs
      /\ e \in Events /\ e # NoEvent
      /\ batch \in Batches
  BY <1>1, AnchoredAgrees, RunningGraph, EventsAreNat DEF IsOpen
<1>4. b \in Batches /\ b.step = "ready" /\ b.synced = batch.synced
  BY <1>3, BatchesAre DEF Ready, Batches
<1>5. /\ Tried(g) \in Graphs /\ Tried(g).cursor = e /\ Tried(g).attempting = NoEvent
      /\ Tried(g).run = r /\ Tried(g).status = "running" /\ Tried(g).phase = g.phase
      /\ Tried(g).rebound = g.rebound /\ Tried(g).edited = g.edited
  BY <1>3, TriedIs
<1>6. row \in States /\ row.checksum = batch.checksum /\ row.status = status /\ status # "none"
  BY <1>2, <1>3, GraphTyped DEF States, Batches
<1>7. /\ states' \in [RunIds -> [Events -> States]]
      /\ \A q \in RunIds, f \in Events :
           states'[q][f] = IF q = r /\ f = e THEN row ELSE states[q][f]
  BY <1>1, <1>2, <1>3, <1>6 DEF TypeOK
<1>8. /\ claims' \in [Events -> {0} \cup ClaimCounts]
      /\ \A f \in Events : claims'[f] = IF complete /\ f = e THEN n ELSE claims[f]
  BY <1>1, <1>2, <1>3 DEF TypeOK
<1>9. /\ counts' \in [RunIds -> [Orders -> {0} \cup ClaimCounts]]
      /\ \A q \in RunIds, o \in Orders :
           counts'[q][o] = IF /\ complete /\ q = r /\ IsCanonical(r, o)
                              /\ SelectedEvent(MembersOf(r), o) = e
                           THEN n ELSE counts[q][o]
  BY <1>1, <1>2, <1>3 DEF TypeOK, CountsAfter
<1>10. /\ DOMAIN runs' = DOMAIN runs /\ content' = content
       /\ \A q, f : IsAnchor(q, f)' <=> IsAnchor(q, f)
       /\ \A q, o : IsCanonical(q, o)' <=> IsCanonical(q, o)
       /\ \A q, o : SelectedEvent(MembersOf(q), o)' = SelectedEvent(MembersOf(q), o)
  BY <1>1, MatchingStands
<1>11. StatesAgree'
  BY <1>1, <1>2, <1>3, <1>6, <1>7, <1>10 DEF StatesAgree, IsFetched
<1>12. NoCountsAhead'
  BY <1>2, <1>3, <1>9, <1>10 DEF NoCountsAhead
<1>13. \A q \in DOMAIN runs : IsAnchor(q, e) => q = r
  BY <1>1, <1>2, <1>3 DEF ConclusionsAgree, OneConclusion, IsAnchor
<1>14. ClaimCountsAgree'
  <2> SUFFICES ASSUME NEW q \in DOMAIN runs, NEW o \in Orders, IsCanonical(q, o),
                      NEW f, f = SelectedEvent(MembersOf(q), o)
               PROVE  counts'[q][o] \in {0, claims'[f]}
    BY <1>10 DEF ClaimCountsAgree
  <2>1. q \in RunIds /\ f \in Events /\ IsAnchor(q, f)
    BY <1>2, AnchorsAreEvents DEF IsCanonical
  <2>2. counts[q][o] \in {0, claims[f]}
    BY <1>2 DEF ClaimCountsAgree
  <2>3. CASE complete /\ f = e
    BY <2>1, <2>3, <1>8, <1>9, <1>13
  <2>4. CASE ~(complete /\ f = e)
    BY <2>1, <2>2, <2>4, <1>8, <1>9
  <2>. QED BY <2>3, <2>4
<1>15. \A f \in Events : f # e => (IsCovered(f)' <=> IsCovered(f))
  BY <1>7, <1>10 DEF IsCovered
<1>16. HasAsked(Tried(g))'
  <2> SUFFICES ASSUME ~g.rebound, NEW f \in Events, IsAnchor(r, f)
               PROVE  IsAsked(Tried(g), f)' \/ IsAhead(Tried(g), f)'
    BY <1>5, <1>10 DEF HasAsked
  <2>1. CASE f = e
    <3>1. content[e] # Gone
      BY <1>1, <1>2 DEF ConclusionsAgree, NothingFromErased, IsAnchor
    <3>2. batch.checksum = content[e] \/ e \in g.edited
      BY <1>1, <1>3, <3>1 DEF IsFetched
    <3>. QED BY <2>1, <3>2, <1>3, <1>5, <1>6, <1>7, <1>10 DEF IsAsked
  <2>2. CASE f # e
    <3>1. IsAsked(g, f) \/ IsAhead(g, f)
      BY <1>3 DEF HasAsked
    <3>2. CASE IsAsked(g, f)
      BY <2>2, <3>2, <1>3, <1>5, <1>7, <1>10, <1>15 DEF IsAsked
    <3>3. CASE IsAhead(g, f)
      <4>1. f >= e /\ e \in Nat /\ f \in Nat
        BY <3>3, <1>3, EventsAreNat DEF IsAhead
      <4>. QED BY <2>2, <3>3, <4>1, <1>5 DEF IsAhead
    <3>. QED BY <3>1, <3>2, <3>3
  <2>. QED BY <2>1, <2>2
<1> SUFFICES ASSUME NEW h \in Graphs, h = Tried(g) PROVE ClaimInv'
  BY <1>5
<1>17. HasCarried(h, batch)'
  <2>1. ASSUME ~g.rebound, batch.synced = r PROVE CarriedOnto(r, g.edited)'
    <3> SUFFICES ASSUME NEW o \in Orders, IsCanonical(r, o),
                        NEW f, f = SelectedEvent(MembersOf(r), o), IsCovered(f)', f \notin g.edited
                 PROVE  counts'[r][o] = claims'[f]
      BY <1>10 DEF CarriedOnto
    <3>1. f \in Events
      BY <1>2, AnchorsAreEvents
    <3>2. CarriedOnto(r, g.edited)
      BY <2>1, <1>3 DEF HasCarried
    <3>3. CASE f # e
      BY <3>1, <3>2, <3>3, <1>3, <1>8, <1>9, <1>15 DEF CarriedOnto
    <3>4. CASE f = e /\ complete
      BY <3>1, <3>4, <1>3, <1>8, <1>9
    <3>5. CASE f = e /\ ~complete
      <4>1. row.status # "complete"
        BY <3>5, <1>6
      <4>2. IsCovered(f)
        BY <3>1, <3>5, <4>1, <1>3, <1>7, <1>10 DEF IsCovered
      <4>3. counts[r][o] = claims[f]
        BY <3>2, <4>2 DEF CarriedOnto
      <4>. QED BY <3>1, <3>5, <4>3, <1>3, <1>8, <1>9
    <3>. QED BY <3>3, <3>4, <3>5
  <2>2. h.run = r /\ h.rebound = g.rebound /\ h.edited = g.edited /\ batch'.synced = batch.synced
    BY <1>1, <1>4, <1>5
  <2>3. ASSUME ~h.rebound, batch'.synced = h.run PROVE CarriedOnto(h.run, h.edited)'
    <3>1. CarriedOnto(r, g.edited)'
      BY <2>1, <2>2, <2>3
    <3>. QED BY <2>2, <3>1
  <2>. QED BY <2>3 DEF HasCarried
<1>18. IsOpen(h) /\ IsFetched(h, batch)'
  BY <1>1, <1>3, <1>4, <1>5 DEF IsOpen, IsFetched
<1>. QED BY <1>1, <1>4, <1>5, <1>7, <1>8, <1>9, <1>11, <1>12, <1>14, <1>16, <1>17, <1>18, ReplaySteps

-----------------------------------------------------------------------------
\* A selection.

(* The branches of a selection that does not find the run stale.               *)
Selects(g, synced, gate) ==
  LET at == AtSelection(g)
  IN  \/ /\ g.attempting # NoEvent
         /\ content[g.attempting] # Gone
         /\ graphs' = WithGraph(g)
         /\ batch' = [step |-> "fetching", checksum |-> content[g.attempting], synced |-> synced]
      \/ /\ g.attempting = NoEvent /\ Ahead(at) = {}
         /\ graphs' = WithGraph(Finished(g, IF LeavesUnresolved(g) THEN "partial" ELSE "success"))
         /\ batch' = [NoBatch EXCEPT !.synced = synced]
      \/ /\ g.attempting = NoEvent /\ Ahead(at) # {} /\ ~gate
         /\ graphs' = WithGraph(g)
         /\ batch' = NoBatch
      \/ /\ g.attempting = NoEvent /\ Ahead(at) # {} /\ gate
         /\ graphs' = WithGraph([at EXCEPT !.attempting = FirstOf(Ahead(at))])
         /\ batch' = [step |-> "fetching", checksum |-> content[FirstOf(Ahead(at))], synced |-> synced]

LEMMA SelectIs ==
  ASSUME Select
  PROVE  /\ GraphRuns /\ batch.step = "ready" /\ UNCHANGED matchVars /\ UNCHANGED <<states, claims>>
         /\ \/ /\ graphs' = WithGraph(Finished(Graph, "stale")) /\ batch' = NoBatch
               /\ UNCHANGED counts
            \/ \E g, synced, gate :
                 /\ g = Graph \/ (CanRebind(Graph) /\ g = Rebound(Graph))
                 /\ YieldsAnchors(Graph.run) => g = Graph
                 /\ \/ /\ synced = g.run
                       /\ counts' = [counts EXCEPT ![g.run] = Synced(g.run)]
                    \/ synced = batch.synced /\ UNCHANGED counts
                 /\ Selects(g, synced, gate)
<1>1. GraphRuns /\ batch.step = "ready" /\ UNCHANGED matchVars /\ UNCHANGED <<states, claims>>
  BY DEF Select
<1>2. CASE ~YieldsAnchors(Graph.run) /\ ~CanRebind(Graph)
  BY <1>1, <1>2 DEF Select
<1>3. CASE ~(~YieldsAnchors(Graph.run) /\ ~CanRebind(Graph))
  <2> DEFINE g == IF YieldsAnchors(Graph.run) THEN Graph ELSE Rebound(Graph)
             Carries(countGate) == countGate /\ batch.synced # g.run
             SyncedTo(countGate) == IF Carries(countGate) THEN g.run ELSE batch.synced
  <2>1. PICK countGate \in BOOLEAN, gate \in BOOLEAN :
          /\ counts' = IF Carries(countGate) THEN [counts EXCEPT ![g.run] = Synced(g.run)] ELSE counts
          /\ Selects(g, SyncedTo(countGate), gate)
    BY <1>3 DEF Select, Selects
  <2> SUFFICES ASSUME NEW synced, synced = SyncedTo(countGate)
               PROVE  \E h, s, t :
                        /\ h = Graph \/ (CanRebind(Graph) /\ h = Rebound(Graph))
                        /\ YieldsAnchors(Graph.run) => h = Graph
                        /\ \/ /\ s = h.run
                              /\ counts' = [counts EXCEPT ![h.run] = Synced(h.run)]
                           \/ s = batch.synced /\ UNCHANGED counts
                        /\ Selects(h, s, t)
    BY <1>1
  <2>2. g = Graph \/ (CanRebind(Graph) /\ g = Rebound(Graph))
    BY <1>3
  <2>3. YieldsAnchors(Graph.run) => g = Graph
    OBVIOUS
  <2>4. \/ synced = g.run /\ counts' = [counts EXCEPT ![g.run] = Synced(g.run)]
        \/ synced = batch.synced /\ UNCHANGED counts
    BY <2>1
  <2>5. Selects(g, synced, gate)
    BY <2>1
  <2> HIDE DEF g
  <2>. QED BY <2>2, <2>3, <2>4, <2>5
<1>. QED BY <1>2, <1>3

(* What is chosen is current, within budget, and the first not asked.          *)
LEMMA ChosenIs ==
  ASSUME MatchTypeOK, TypeOK, StatesAgree,
         NEW g \in Graphs, IsOpen(g), HasAsked(g), g.attempting = NoEvent,
         Ahead(AtSelection(g)) # {}
  PROVE  LET first == FirstOf(Ahead(AtSelection(g)))
             h == [AtSelection(g) EXCEPT !.attempting = first]
         IN  /\ h \in Graphs /\ h.status = g.status /\ h.run = g.run /\ h.rebound = g.rebound
             /\ h.attempting = first /\ h.edited = g.edited
             /\ first \in Events /\ IsAnchor(g.run, first)
             /\ IsOpen(h) /\ HasAsked(h)
<1> SUFFICES ASSUME NEW at, at = AtSelection(g),
                    NEW S, S = Ahead(at),
                    NEW first, first = FirstOf(S),
                    NEW h, h = [at EXCEPT !.attempting = first]
             PROVE  /\ h \in Graphs /\ h.status = g.status /\ h.run = g.run /\ h.rebound = g.rebound
                    /\ h.attempting = first /\ h.edited = g.edited
                    /\ first \in Events /\ IsAnchor(g.run, first)
                    /\ IsOpen(h) /\ HasAsked(h)
  OBVIOUS
<1>1. /\ at \in Graphs
      /\ at.status = g.status /\ at.run = g.run /\ at.attempting = g.attempting
      /\ at.rebound = g.rebound /\ at.edited = g.edited
      /\ at = g \/ Ahead(g) = {}
      /\ at.phase = "missing" => at = g
  BY AtSelectionIs
<1>2. S \in SUBSET Events /\ S # {}
  BY <1>1 DEF Ahead, InPhase, Missing, Unresolved, Graphs
<1>3. first \in S /\ \A e \in S : first <= e
  BY <1>2, FirstIsIn
<1>4. /\ IsAnchor(g.run, first)
      /\ at.phase = "incomplete" => at.incompleteLeft > 0
      /\ at.phase = "failed" => at.failedLeft > 0
  BY <1>1, <1>3 DEF Ahead, InPhase, Missing, Unresolved, Graphs
<1>5. /\ h \in Graphs /\ h.status = g.status /\ h.run = g.run /\ h.rebound = g.rebound
      /\ h.attempting = first /\ h.edited = g.edited /\ h.phase = at.phase /\ h.cursor = at.cursor
      /\ h.incompleteLeft = at.incompleteLeft /\ h.failedLeft = at.failedLeft
  <2>1. first \in 0..NumEvents
    BY <1>2, <1>3, MatchingAssumption DEF Events
  <2>. QED BY <2>1, <1>1 DEF Graphs
<1>6. IsOpen(h)
  BY <1>4, <1>5 DEF IsOpen
<1>7. HasAsked(h)
  <2> SUFFICES ASSUME ~g.rebound, NEW e \in Events, IsAnchor(g.run, e)
               PROVE  IsAsked(h, e) \/ IsAhead(h, e)
    BY <1>5 DEF HasAsked
  <2>1. IsAsked(g, e) \/ (g.phase = "missing" /\ e > g.cursor)
    BY DEF HasAsked, IsAhead
  <2>2. CASE IsAsked(g, e)
    BY <2>2, <1>5 DEF IsAsked
  <2>3. CASE g.phase = "missing" /\ e > g.cursor /\ e \notin Ahead(g)
    <3>1. e \notin Missing(g)
      BY <2>3 DEF Ahead, InPhase
    <3>2. IsCovered(e) \/ (states[g.run][e] # NoState /\ states[g.run][e].checksum = content[e])
      BY <3>1 DEF Missing
    <3>3. states[g.run][e].status = "none" => states[g.run][e] = NoState
      BY DEF StatesAgree, Graphs
    <3>. QED BY <3>2, <3>3, <1>5 DEF IsAsked
  <2>4. CASE g.phase = "missing" /\ e > g.cursor /\ e \in Ahead(g)
    <3>1. at = g
      BY <2>4, <1>1
    <3>2. first <= e /\ first \in Nat /\ e \in Nat
      BY <2>4, <3>1, <1>2, <1>3, EventsAreNat
    <3>. QED BY <2>4, <3>1, <3>2, <1>5 DEF IsAhead
  <2>. QED BY <2>1, <2>2, <2>3, <2>4
<1>. QED BY <1>2, <1>3, <1>4, <1>5, <1>6, <1>7

(* What a selection works on, and the counts it carried.                       *)
LEMMA SelectedGraph ==
  ASSUME ClaimInv, GraphRuns, UNCHANGED matchVars, UNCHANGED <<states, claims>>,
         NEW g, g = Graph \/ (CanRebind(Graph) /\ g = Rebound(Graph)),
         NEW synced,
         \/ synced = g.run /\ counts' = [counts EXCEPT ![g.run] = Synced(g.run)]
         \/ synced = batch.synced /\ UNCHANGED counts
  PROVE  /\ g \in Graphs /\ g.status = "running" /\ g.run \in RunIds
         /\ IsOpen(g) /\ HasAsked(g) /\ HasAsked(g)'
         /\ synced \in 0..MaxRuns
         /\ ~g.rebound /\ synced = g.run => CarriedOnto(g.run, g.edited)'
         /\ StatesAgree' /\ NoCountsAhead' /\ ClaimCountsAgree'
         /\ states' \in [RunIds -> [Events -> States]]
         /\ claims' \in [Events -> {0} \cup ClaimCounts]
         /\ counts' \in [RunIds -> [Orders -> {0} \cup ClaimCounts]]
<1>1. TypeOK /\ MatchTypeOK /\ StatesAgree /\ NoCountsAhead /\ ClaimCountsAgree
  BY DEF ClaimInv, IInv
<1>2. /\ g \in Graphs /\ g.status = "running" /\ g.run \in RunIds /\ g.run \in DOMAIN runs
      /\ IsOpen(g) /\ HasAsked(g) /\ HasCarried(g, batch)
  <2>1. CASE g = Graph
    BY <2>1, RunningGraph
  <2>2. CASE CanRebind(Graph) /\ g = Rebound(Graph)
    <3>1. Graph \in Graphs /\ Graph.status = "running"
      BY RunningGraph
    <3>2. g \in Graphs /\ g.status = "running" /\ g.run \in DOMAIN runs
      BY <1>1, <2>2, <3>1, ReboundIs
    <3>. QED BY <2>2, <3>2, ReboundAgrees DEF Graphs
  <2>. QED BY <2>1, <2>2
<1>3. /\ DOMAIN runs' = DOMAIN runs /\ content' = content
      /\ \A q, f : IsAnchor(q, f)' <=> IsAnchor(q, f)
      /\ \A q, o : IsCanonical(q, o)' <=> IsCanonical(q, o)
      /\ \A q, o : SelectedEvent(MembersOf(q), o)' = SelectedEvent(MembersOf(q), o)
  BY MatchingStands
<1>4. \A f : IsCovered(f)' <=> IsCovered(f)
  BY <1>3 DEF IsCovered
<1>5. HasAsked(g)'
  BY <1>2, <1>3, <1>4 DEF HasAsked, IsAsked, IsAhead
<1>6. synced \in 0..MaxRuns
  <2>1. batch.synced \in 0..MaxRuns
    BY <1>1 DEF TypeOK
  <2>. QED BY <2>1, <1>2, MatchingAssumption DEF RunIds
<1>7. /\ states' \in [RunIds -> [Events -> States]] /\ claims' \in [Events -> {0} \cup ClaimCounts]
      /\ StatesAgree'
  BY <1>1, <1>3 DEF TypeOK, StatesAgree
<1>8. CASE synced = batch.synced /\ UNCHANGED counts
  <2>1. NoCountsAhead' /\ ClaimCountsAgree' /\ counts' \in [RunIds -> [Orders -> {0} \cup ClaimCounts]]
    BY <1>1, <1>3, <1>8 DEF TypeOK, NoCountsAhead, ClaimCountsAgree
  <2>2. CarriedOnto(g.run, g.edited) => CarriedOnto(g.run, g.edited)'
    BY <1>3, <1>4, <1>8 DEF CarriedOnto
  <2>. QED BY <1>2, <1>5, <1>6, <1>7, <1>8, <2>1, <2>2 DEF HasCarried
<1>9. CASE synced = g.run /\ counts' = [counts EXCEPT ![g.run] = Synced(g.run)]
  <2>1. \A o \in Orders : IsCanonical(g.run, o) => SelectedEvent(MembersOf(g.run), o) \in Events
    BY <1>1, AnchorsAreEvents
  <2>2. Synced(g.run) \in [Orders -> {0} \cup ClaimCounts]
    BY <1>1, <1>2, <2>1 DEF Synced, TypeOK
  <2>3. /\ counts' \in [RunIds -> [Orders -> {0} \cup ClaimCounts]]
        /\ \A q \in RunIds, o \in Orders :
             counts'[q][o] = IF q = g.run /\ IsCanonical(q, o) /\ IsCovered(SelectedEvent(MembersOf(q), o))
                             THEN claims[SelectedEvent(MembersOf(q), o)] ELSE counts[q][o]
    BY <1>1, <1>2, <1>9, <2>2 DEF TypeOK, Synced
  <2>4. NoCountsAhead'
    BY <1>1, <1>2, <1>3, <2>3 DEF NoCountsAhead
  <2>5. ClaimCountsAgree'
    <3>1. DOMAIN runs \subseteq RunIds
      BY <1>1, AnchorsAreEvents
    <3>. QED BY <1>1, <1>3, <2>3, <3>1 DEF ClaimCountsAgree
  <2>6. CarriedOnto(g.run, g.edited)'
    <3> SUFFICES ASSUME NEW r, r = g.run PROVE CarriedOnto(r, g.edited)'
      OBVIOUS
    <3>. QED BY <1>2, <1>3, <1>4, <2>3 DEF CarriedOnto
  <2>. QED BY <1>2, <1>5, <1>6, <1>7, <2>3, <2>4, <2>5, <2>6
<1>. QED BY <1>8, <1>9

LEMMA SelectKeeps ==
  ASSUME ClaimInv, Select
  PROVE  ClaimInv'
<1>1. GraphRuns /\ batch.step = "ready" /\ UNCHANGED matchVars /\ UNCHANGED <<states, claims>>
  BY SelectIs
<1>2. TypeOK /\ MatchTypeOK /\ ConclusionsAgree /\ StatesAgree
  BY DEF ClaimInv, IInv
<1>3. CASE graphs' = WithGraph(Finished(Graph, "stale")) /\ batch' = NoBatch /\ UNCHANGED counts
  <2> SUFFICES ASSUME NEW g \in Graphs, g.status = "stale", graphs' = WithGraph(g)
               PROVE  ClaimInv'
    BY <1>1, <1>3, RunningGraph, FinishedIs
  <2>. QED BY <1>1, <1>3, BatchesAre, GraphSteps
<1>4. ASSUME NEW g, g = Graph \/ (CanRebind(Graph) /\ g = Rebound(Graph)),
             NEW synced, NEW gate,
             \/ synced = g.run /\ counts' = [counts EXCEPT ![g.run] = Synced(g.run)]
             \/ synced = batch.synced /\ UNCHANGED counts,
             Selects(g, synced, gate)
      PROVE  ClaimInv'
  <2>1. /\ g \in Graphs /\ g.status = "running" /\ g.run \in RunIds
        /\ IsOpen(g) /\ HasAsked(g) /\ HasAsked(g)'
        /\ synced \in 0..MaxRuns
        /\ ~g.rebound /\ synced = g.run => CarriedOnto(g.run, g.edited)'
    BY <1>1, <1>4, SelectedGraph
  <2>2. /\ StatesAgree' /\ NoCountsAhead' /\ ClaimCountsAgree'
        /\ states' \in [RunIds -> [Events -> States]]
        /\ claims' \in [Events -> {0} \cup ClaimCounts]
        /\ counts' \in [RunIds -> [Orders -> {0} \cup ClaimCounts]]
    BY <1>1, <1>4, SelectedGraph
  <2>3. ASSUME NEW h \in Graphs, graphs' = WithGraph(h),
               h.run = g.run, h.rebound = g.rebound, h.edited = g.edited,
               NEW b \in Batches, batch' = b,
               b.synced = synced \/ b.synced = 0,
               b.step = "fetching" => h.status = "running" /\ h.attempting # NoEvent,
               h.status = "running" => IsOpen(h) /\ HasAsked(h)' /\ IsFetched(h, b)
        PROVE  ClaimInv'
    <3>1. HasCarried(h, batch)'
      BY <2>1, <2>3, MatchingAssumption DEF HasCarried, CarriedOnto, RunIds
    <3>2. IsFetched(h, b) => IsFetched(h, batch)'
      BY <1>1, <2>3, MatchingStands DEF IsFetched
    <3>. QED BY <1>1, <2>2, <2>3, <3>1, <3>2, ReplaySteps
  <2>4. ASSUME NEW h \in Graphs, graphs' = WithGraph(h), h.status # "running",
               NEW b \in Batches, batch' = b, b.step # "fetching"
        PROVE  ClaimInv'
    BY <1>1, <2>2, <2>4, ReplaySteps
  <2>5. ASSUME NEW e \in Events, content[e] # Gone
        PROVE  LET b == [step |-> "fetching", checksum |-> content[e], synced |-> synced]
               IN  /\ b \in Batches /\ b.step = "fetching" /\ b.synced = synced
                   /\ \A h : h.attempting = e => IsFetched(h, b)
    <3>1. content \in [Items -> {Unknown, Gone} \cup Versions] /\ e \in Items
      BY <1>2 DEF MatchTypeOK, Items
    <3>2. content[e] \in {Unknown} \cup Versions /\ content[e] <= content[e]
      BY <2>5, <3>1 DEF Unknown, Versions
    <3>. QED BY <2>1, <3>2 DEF Batches, IsFetched
  <2>6. CASE /\ g.attempting # NoEvent /\ content[g.attempting] # Gone
             /\ graphs' = WithGraph(g)
             /\ batch' = [step |-> "fetching", checksum |-> content[g.attempting], synced |-> synced]
    <3> SUFFICES ASSUME NEW b, b = [step |-> "fetching", checksum |-> content[g.attempting], synced |-> synced]
                 PROVE  ClaimInv'
      OBVIOUS
    <3>1. g.attempting \in Events
      BY <2>1, <2>6 DEF Graphs, Events, NoEvent
    <3>2. b \in Batches /\ b.step = "fetching" /\ b.synced = synced /\ IsFetched(g, b)
      BY <2>5, <2>6, <3>1
    <3>. QED BY <2>1, <2>3, <2>6, <3>2
  <2>7. CASE /\ graphs' = WithGraph(Finished(g, IF LeavesUnresolved(g) THEN "partial" ELSE "success"))
             /\ batch' = [NoBatch EXCEPT !.synced = synced]
    <3> SUFFICES ASSUME NEW status \in {"partial", "success"}, graphs' = WithGraph(Finished(g, status)),
                        NEW b, b = [NoBatch EXCEPT !.synced = synced]
                 PROVE  ClaimInv'
      BY <2>7
    <3>1. Finished(g, status) \in Graphs /\ Finished(g, status).status # "running"
      BY <2>1, FinishedIs
    <3>2. b \in Batches /\ b.step # "fetching"
      BY <2>1, BatchesAre DEF NoBatch, Batches
    <3>. QED BY <2>4, <2>7, <3>1, <3>2
  <2>8. CASE graphs' = WithGraph(g) /\ batch' = NoBatch
    <3>1. IsFetched(g, NoBatch)
      BY BatchesAre DEF IsFetched
    <3>. QED BY <2>1, <2>3, <2>8, <3>1, BatchesAre
  <2>9. CASE LET at == AtSelection(g)
             IN  /\ g.attempting = NoEvent /\ Ahead(at) # {}
                 /\ graphs' = WithGraph([at EXCEPT !.attempting = FirstOf(Ahead(at))])
                 /\ batch' = [step |-> "fetching", checksum |-> content[FirstOf(Ahead(at))], synced |-> synced]
    <3> SUFFICES ASSUME NEW first, first = FirstOf(Ahead(AtSelection(g))),
                        NEW h, h = [AtSelection(g) EXCEPT !.attempting = first],
                        NEW b, b = [step |-> "fetching", checksum |-> content[first], synced |-> synced]
                 PROVE  ClaimInv'
      OBVIOUS
    <3>1. /\ h \in Graphs /\ h.status = "running" /\ h.run = g.run /\ h.rebound = g.rebound
          /\ h.edited = g.edited /\ h.attempting = first
          /\ first \in Events /\ IsAnchor(g.run, first)
          /\ IsOpen(h) /\ HasAsked(h)
      BY <1>2, <2>1, <2>9, ChosenIs
    <3>2. content[first] # Gone /\ first # NoEvent
      BY <1>2, <3>1, EventsAreNat DEF ConclusionsAgree, NothingFromErased, IsAnchor
    <3>3. b \in Batches /\ b.step = "fetching" /\ b.synced = synced /\ IsFetched(h, b)
      BY <2>5, <3>1, <3>2
    <3>4. HasAsked(h)'
      <4>1. /\ content' = content /\ \A q, f : IsAnchor(q, f)' <=> IsAnchor(q, f)
        BY <1>1, MatchingStands
      <4>2. \A f : IsCovered(f)' <=> IsCovered(f)
        BY <1>1, <4>1 DEF IsCovered
      <4>. QED BY <1>1, <3>1, <4>1, <4>2 DEF HasAsked, IsAsked, IsAhead
    <3>. QED BY <2>3, <2>9, <3>1, <3>2, <3>3, <3>4
  <2>. QED BY <1>4, <2>6, <2>7, <2>8, <2>9 DEF Selects
<1>. QED BY <1>3, <1>4, SelectIs

-----------------------------------------------------------------------------
\* The invariant of the replay.

LEMMA InitClaimInv == ClaimInit => ClaimInv
<1> SUFFICES ASSUME ClaimInit PROVE ClaimInv
  OBVIOUS
<1>1. /\ IInv /\ MatchTypeOK /\ Init
      /\ graphs = <<>> /\ batch = NoBatch
      /\ states = [r \in RunIds |-> [e \in Events |-> NoState]]
      /\ claims = [e \in Events |-> 0]
      /\ counts = [r \in RunIds |-> [o \in Orders |-> 0]]
  BY InitIInv DEF ClaimInit, IInv
<1>2. NoState \in States /\ NoState.checksum = 0
  BY ClaimAssumption DEF NoState, States, Unknown
<1>3. ~GraphRuns
  BY <1>1 DEF GraphRuns
<1>4. TypeOK
  <2>1. graphs \in Seq(Graphs) /\ Len(graphs) <= MaxGraphs /\ DOMAIN graphs = {}
    BY <1>1, ClaimAssumption
  <2>. QED BY <1>1, <1>2, <2>1, BatchesAre DEF TypeOK, Batches
<1>5. StatesAgree
  <2>1. \A e \in Events : 0 <= content[e]
    <3>1. content \in [Items -> {Unknown, Gone} \cup Versions]
      BY <1>1 DEF MatchTypeOK
    <3>. QED BY <3>1 DEF Items, Unknown, Gone, Versions
  <2>. QED BY <1>1, <1>2, <2>1 DEF StatesAgree
<1>6. NoCountsAhead
  BY <1>1 DEF NoCountsAhead
<1>7. ClaimCountsAgree
  <2>1. DOMAIN runs = {}
    BY <1>1 DEF Init
  <2>. QED BY <2>1 DEF ClaimCountsAgree
<1>. QED BY <1>1, <1>3, <1>4, <1>5, <1>6, <1>7 DEF ClaimInv, GraphAgrees

LEMMA NextClaimInv == ClaimInv /\ [ClaimNext]_vars => ClaimInv'
<1> SUFFICES ASSUME ClaimInv, [ClaimNext]_vars PROVE ClaimInv'
  OBVIOUS
<1>1. CASE MatchStep
  BY <1>1, MatchStepKeeps
<1>2. ASSUME NEW i \in Items, StoreItem(i) PROVE ClaimInv'
  BY <1>2, StoreKeeps
<1>3. ASSUME NEW e \in Events, EraseEvent(e) PROVE ClaimInv'
  BY <1>3, EraseKeeps
<1>4. ASSUME NEW r \in DOMAIN runs, Start(r) \/ StartRebinds(r) PROVE ClaimInv'
  BY <1>4, StartKeeps, StartRebindsKeeps
<1>5. CASE Select
  BY <1>5, SelectKeeps
<1>6. CASE Preflight \/ CommitSkips \/ CommitBlocked
  BY <1>6, PreflightKeeps, CommitSkipsKeeps, CommitBlockedKeeps
<1>7. ASSUME NEW n \in ClaimCounts, NEW complete \in BOOLEAN, Commit(n, complete) PROVE ClaimInv'
  BY <1>7, CommitKeeps
<1>8. CASE NextBatch \/ BatchDies
  BY <1>8, TaskKeeps
<1>9. CASE Recover
  BY <1>9, RecoverKeeps
<1>10. CASE UNCHANGED vars
  <2>1. UNCHANGED <<graphs, batch, states, claims, counts>> /\ UNCHANGED matchVars
    BY <1>10 DEF vars, matchVars
  <2>2. IInv /\ IInv' /\ MatchTypeOK'
    BY <2>1, NextIInv DEF ClaimInv, IInv
  <2>3. /\ DOMAIN runs' = DOMAIN runs /\ content' = content
        /\ \A q, f : IsAnchor(q, f)' <=> IsAnchor(q, f)
        /\ \A q, o : IsCanonical(q, o)' <=> IsCanonical(q, o)
        /\ \A q, o : SelectedEvent(MembersOf(q), o)' = SelectedEvent(MembersOf(q), o)
    BY <2>1, MatchingStands
  <2>4. (GraphRuns' <=> GraphRuns) /\ Graph' = Graph /\ \A f : IsCovered(f)' <=> IsCovered(f)
    BY <2>1, <2>3 DEF GraphRuns, Graph, IsCovered
  <2>5. TypeOK'
    BY <2>1, <2>2, <2>4 DEF ClaimInv, TypeOK
  <2>6. StatesAgree' /\ NoCountsAhead' /\ ClaimCountsAgree'
    BY <2>1, <2>3 DEF ClaimInv, StatesAgree, NoCountsAhead, ClaimCountsAgree
  <2>7. GraphAgrees'
    <3> SUFFICES ASSUME GraphRuns
                 PROVE  IsOpen(Graph)' /\ HasAsked(Graph)' /\ IsFetched(Graph, batch)' /\ HasCarried(Graph, batch)'
      BY <2>4 DEF GraphAgrees
    <3>1. IsOpen(Graph) /\ HasAsked(Graph) /\ IsFetched(Graph, batch) /\ HasCarried(Graph, batch)
      BY RunningGraph
    <3>2. IsOpen(Graph)' /\ IsFetched(Graph, batch)'
      BY <2>1, <2>3, <2>4, <3>1 DEF IsOpen, IsFetched
    <3>3. HasAsked(Graph)'
      BY <2>1, <2>3, <2>4, <3>1 DEF HasAsked, IsAsked, IsAhead
    <3>4. CarriedOnto(Graph.run, Graph.edited) => CarriedOnto(Graph.run, Graph.edited)'
      BY <2>1, <2>3, <2>4 DEF CarriedOnto
    <3>. QED BY <2>1, <2>4, <3>1, <3>2, <3>3, <3>4 DEF HasCarried
  <2>. QED BY <2>2, <2>5, <2>6, <2>7 DEF ClaimInv
<1>. QED BY <1>1, <1>2, <1>3, <1>4, <1>5, <1>6, <1>7, <1>8, <1>9, <1>10 DEF ClaimNext

LEMMA ReplayInv == ClaimSpec => []ClaimInv
  BY InitClaimInv, NextClaimInv, PTL DEF ClaimSpec

-----------------------------------------------------------------------------
\* The end of a graph.

(* Only a selection ends a graph in success.                                   *)
LEMMA OnlySelectSucceeds ==
  ASSUME ClaimInv, [ClaimNext]_vars, GraphRuns, graphs'[Len(graphs)].status = "success"
  PROVE  Select
<1>1. /\ TypeOK /\ Graph \in Graphs /\ Graph.status = "running"
      /\ graphs \in Seq(Graphs) /\ Len(graphs) \in Nat /\ Len(graphs) > 0
  BY RunningGraph, GraphTyped DEF ClaimInv, TypeOK, GraphRuns
<1>2. ASSUME graphs' = graphs PROVE FALSE
  BY <1>1, <1>2 DEF Graph
<1>3. ASSUME NEW g \in Graphs, g.status # "success", graphs' = WithGraph(g) PROVE FALSE
  BY <1>1, <1>3, WithGraphIs
<1>4. CASE MatchStep \/ NextBatch \/ BatchDies \/ UNCHANGED vars
  BY <1>2, <1>4 DEF MatchStep, claimVars, NextBatch, BatchDies, vars
<1>5. ASSUME NEW e \in Events, EraseEvent(e) PROVE FALSE
  BY <1>2, <1>5 DEF EraseEvent
<1>6. ASSUME NEW i \in Items, StoreItem(i) PROVE FALSE
  <2>1. CASE i \notin Events
    BY <1>2, <1>6, <2>1 DEF StoreItem
  <2>2. CASE i \in Events
    <3> SUFFICES ASSUME NEW g, g = [Graph EXCEPT !.edited = @ \cup {i}] PROVE FALSE
      OBVIOUS
    <3>1. g \in Graphs /\ g.status = "running"
      BY <1>1, <2>2 DEF Graphs
    <3>2. graphs' = WithGraph(g)
      BY <1>6, <2>2 DEF StoreItem
    <3>. QED BY <1>3, <3>1, <3>2
  <2>. QED BY <2>1, <2>2
<1>7. ASSUME NEW r \in DOMAIN runs, Start(r) PROVE FALSE
  <2> SUFFICES ASSUME NEW g \in Graphs, g.status = "failed", StartFresh(r, WithGraph(g)) PROVE FALSE
    BY <1>1, <1>7, FinishedIs DEF Start
  <2>1. /\ WithGraph(g) \in Seq(Graphs) /\ Len(WithGraph(g)) = Len(graphs)
        /\ WithGraph(g)[Len(graphs)] = g
    BY <1>1 DEF WithGraph
  <2>2. NewGraph(r) \in Graphs
    BY <1>1, AnchorsAreEvents, NewGraphIs DEF TypeOK
  <2>3. graphs' = Append(WithGraph(g), NewGraph(r)) \/ graphs' = WithGraph(g)
    BY DEF StartFresh
  <2>4. graphs'[Len(graphs)] = g
    BY <1>1, <2>1, <2>2, <2>3
  <2>. QED BY <2>4
<1>8. ASSUME NEW r, StartRebinds(r) PROVE FALSE
  <2>1. Rebound(Graph) \in Graphs /\ Rebound(Graph).status = "running"
    BY <1>1, <1>8, ReboundIs DEF StartRebinds
  <2>. QED BY <1>3, <1>8, <2>1 DEF StartRebinds
<1>9. CASE Preflight \/ CommitBlocked
  <2>1. graphs' = WithGraph(Anchored(Graph, Graph.attempting))
    BY <1>9 DEF Preflight, CommitBlocked
  <2>. QED BY <1>3, <2>1, AnchoredAgrees
<1>10. CASE CommitSkips
  <2>1. graphs' = WithGraph(Past(Anchored(Graph, Graph.attempting)))
    BY <1>10 DEF CommitSkips
  <2>. QED BY <1>3, <2>1, AnchoredAgrees, PastIs
<1>11. ASSUME NEW n, NEW complete, Commit(n, complete) PROVE FALSE
  <2>1. graphs' = WithGraph(Tried(Anchored(Graph, Graph.attempting))) /\ batch.step = "fetching"
    BY <1>11 DEF Commit
  <2>2. Graph.attempting # NoEvent
    BY <2>1, RunningGraph, EventsAreNat
  <2> SUFFICES ASSUME NEW g \in Graphs, g.status = "running", IsOpen(g), g.attempting # NoEvent,
                      graphs' = WithGraph(Tried(g))
               PROVE  FALSE
    BY <2>1, <2>2, AnchoredAgrees
  <2>3. Tried(g) \in Graphs /\ Tried(g).status = "running"
    BY TriedIs
  <2>. QED BY <1>3, <2>3
<1>12. CASE Recover
  <2>1. PICK g \in {Past(Graph), Finished(Graph, "failed"), Finished(Past(Graph), "failed"),
                     Finished(Past(Graph), "stale")} : graphs' = WithGraph(g)
    BY <1>12 DEF Recover
  <2>2. g \in Graphs /\ g.status # "success"
    <3>1. Past(Graph) \in Graphs /\ Past(Graph).status = "running"
      BY <1>1, PastIs
    <3>. QED BY <1>1, <2>1, <3>1, FinishedIs
  <2>. QED BY <1>3, <2>1, <2>2
<1>. QED BY <1>4, <1>5, <1>6, <1>7, <1>8, <1>9, <1>10, <1>11, <1>12 DEF ClaimNext

LEMMA SuccessStep ==
  ASSUME ClaimInv, [ClaimNext]_vars, GraphRuns, graphs'[Len(graphs)].status = "success",
         NEW r, r = Graph.run, ~Graph.rebound, YieldsAnchors(r),
         NEW edited, edited = Graph.edited
  PROVE  /\ \A e \in Events : IsAnchor(r, e) => IsCovered(e) \/ e \in Graph.edited
         /\ batch'.synced = r => CarriedOnto(r, edited)'
<1>1. Select
  BY OnlySelectSucceeds
<1>2. /\ TypeOK /\ StatesAgree /\ Graph \in Graphs /\ Graph.status = "running"
      /\ HasAsked(Graph) /\ r \in RunIds
  BY RunningGraph DEF ClaimInv
<1>3. ASSUME NEW g \in Graphs, g.status # "success", graphs' = WithGraph(g) PROVE FALSE
  BY <1>2, <1>3, WithGraphIs
<1>4. graphs' # WithGraph(Finished(Graph, "stale"))
  BY <1>2, <1>3, FinishedIs
<1>5. PICK synced, gate :
        /\ \/ synced = r /\ counts' = [counts EXCEPT ![r] = Synced(r)]
           \/ synced = batch.synced /\ UNCHANGED counts
        /\ Selects(Graph, synced, gate)
  BY <1>1, <1>4, SelectIs
<1>6. /\ UNCHANGED matchVars /\ UNCHANGED <<states, claims>>
  BY <1>1, SelectIs
<1>7. graphs' # WithGraph(Graph)
  BY <1>2, <1>3
<1>8. ASSUME Ahead(AtSelection(Graph)) # {}, Graph.attempting = NoEvent
      PROVE  graphs' # WithGraph([AtSelection(Graph) EXCEPT !.attempting = FirstOf(Ahead(AtSelection(Graph)))])
  <2> SUFFICES ASSUME NEW h, h = [AtSelection(Graph) EXCEPT !.attempting = FirstOf(Ahead(AtSelection(Graph)))]
               PROVE  graphs' # WithGraph(h)
    OBVIOUS
  <2>1. h \in Graphs /\ h.status = "running"
    BY <1>2, <1>8, ChosenIs, RunningGraph DEF TypeOK
  <2>. QED BY <1>3, <2>1
<1>9. /\ Graph.attempting = NoEvent /\ Ahead(AtSelection(Graph)) = {}
      /\ graphs' = WithGraph(Finished(Graph, IF LeavesUnresolved(Graph) THEN "partial" ELSE "success"))
      /\ batch' = [NoBatch EXCEPT !.synced = synced]
  BY <1>5, <1>7, <1>8 DEF Selects
<1>10. ~LeavesUnresolved(Graph)
  <2>1. CASE LeavesUnresolved(Graph)
    <3>1. graphs' = WithGraph(Finished(Graph, "partial"))
      BY <1>9, <2>1
    <3>. QED BY <1>2, <1>3, <3>1, FinishedIs
  <2>. QED BY <2>1
<1>11. ASSUME NEW e \in Events, IsAnchor(r, e), e \notin Graph.edited PROVE IsCovered(e)
  <2>1. Ahead(Graph) = {}
    BY <1>2, <1>9, AtSelectionIs
  <2>2. IsAhead(Graph, e) => e \notin Missing(Graph)
    BY <2>1, <1>11 DEF IsAhead, Ahead, InPhase
  <2>3. \/ IsCovered(e)
        \/ states[r][e].status # "none" /\ states[r][e].checksum = content[e]
    <3>1. IsAsked(Graph, e) \/ IsAhead(Graph, e)
      BY <1>2, <1>11 DEF HasAsked
    <3>2. states[r][e].status = "none" => states[r][e] = NoState
      BY <1>2 DEF StatesAgree
    <3>. QED BY <1>11, <2>2, <3>1, <3>2 DEF IsAsked, Missing
  <2>4. states[r][e].status \in {"none", "complete"}
    <3>1. states[r][e] \in States
      BY <1>2 DEF TypeOK
    <3>. QED BY <1>10, <3>1 DEF LeavesUnresolved, States
  <2>. QED BY <1>2, <2>3, <2>4 DEF IsCovered
<1>12. batch'.synced = synced
  BY <1>9 DEF NoBatch
<1>13. synced = r => CarriedOnto(r, edited)'
  <2> SUFFICES ASSUME NEW g, g = Graph PROVE synced = r => CarriedOnto(r, edited)'
    OBVIOUS
  <2>1. ~g.rebound /\ synced = g.run => CarriedOnto(g.run, g.edited)'
    BY <1>5, <1>6, SelectedGraph
  <2>. QED BY <2>1
<1>. QED BY <1>11, <1>12, <1>13

-----------------------------------------------------------------------------
\* What holds of the replay.

(* Types, of graphs, tasks, states, claims and counts; one graph runs at most. *)
THEOREM ReplayTypes == ClaimSpec => []TypeOK
<1>1. ClaimInv => TypeOK
  BY DEF ClaimInv
<1>. QED BY <1>1, ReplayInv, PTL

(* The conclusions agree while claims are replayed over them.                  *)
THEOREM ReplayConclusionsAgree == ClaimSpec => [](ConclusionsAgree /\ CurrentnessAgrees)
  BY ReplayLeavesMatching, MatchingConclusionsAgree, MatchingCurrentnessAgrees, PTL

(* The claim count a current confirmed order shows is that of the claims       *)
(* stored for its event, or none yet, whatever was published, edited, erased   *)
(* or fetched meanwhile (claim-repository.ts:626-678, 1236-1249).              *)
THEOREM ReplayCountsAgree == ClaimSpec => []ClaimCountsAgree
<1>1. ClaimInv => ClaimCountsAgree
  BY DEF ClaimInv
<1>. QED BY <1>1, ReplayInv, PTL

(* A graph that kept its run succeeds only when every conversion current there *)
(* is covered or was edited on the way, whatever died, was retried or was      *)
(* rebound before (claim-repository.ts:861-936).                               *)
THEOREM ReplaySuccessIsCovered == ClaimSpec => SuccessIsCovered
<1>1. ASSUME ClaimInv, [ClaimNext]_vars, GraphRuns, graphs'[Len(graphs)].status = "success",
             NEW r, r = Graph.run, ~Graph.rebound, YieldsAnchors(r)
      PROVE  /\ \A e \in Events : IsAnchor(r, e) => IsCovered(e) \/ e \in Graph.edited
             /\ batch'.synced = r =>
                  \A o \in Orders : LET e == SelectedEvent(MembersOf(r), o)
                                    IN  IsCanonical(r, o) /\ IsCovered(e) /\ e \notin Graph.edited =>
                                          counts'[r][o] = claims[e]
  <2>1. UNCHANGED matchVars /\ UNCHANGED <<states, claims>>
    BY <1>1, OnlySelectSucceeds, SelectIs
  <2>2. /\ \A q, o : IsCanonical(q, o)' <=> IsCanonical(q, o)
        /\ \A q, o : SelectedEvent(MembersOf(q), o)' = SelectedEvent(MembersOf(q), o)
        /\ \A f : IsCovered(f)' <=> IsCovered(f)
    BY <2>1, MatchingStands DEF IsCovered
  <2>. QED BY <1>1, <2>1, <2>2, SuccessStep DEF CarriedOnto
<1>2. ClaimInv /\ [ClaimNext]_vars =>
        [GraphRuns /\ graphs'[Len(graphs)].status = "success" =>
           LET r == Graph.run
           IN  ~Graph.rebound /\ YieldsAnchors(r) =>
                 /\ \A e \in Events : IsAnchor(r, e) => IsCovered(e) \/ e \in Graph.edited
                 /\ batch'.synced = r =>
                      \A o \in Orders : LET e == SelectedEvent(MembersOf(r), o)
                                        IN  IsCanonical(r, o) /\ IsCovered(e) /\ e \notin Graph.edited =>
                                              counts'[r][o] = claims[e]]_vars
  BY <1>1
<1>. QED BY <1>2, ReplayInv, PTL DEF ClaimSpec, SuccessIsCovered

-----------------------------------------------------------------------------
\* The walk of a graph goes forward.

PhaseRank == [missing |-> 1, incomplete |-> 2, failed |-> 3]

\* The last conversion the walk came to in its phase.
Reached(g) == IF g.attempting # NoEvent THEN g.attempting ELSE g.cursor

\* From g to h the walk never turns back, and every choice is a step ahead.
GoesOn(g, h) ==
  /\ h.incompleteLeft <= g.incompleteLeft /\ h.failedLeft <= g.failedLeft
  /\ \/ PhaseRank[g.phase] < PhaseRank[h.phase]
     \/ /\ g.phase = h.phase
        /\ Reached(g) <= Reached(h)
        /\ g.attempting = NoEvent /\ h.attempting # NoEvent => Reached(g) < Reached(h)

WalkStep ==
  \A i \in DOMAIN graphs :
    /\ i \in DOMAIN graphs'
    /\ graphs[i].status # "running" => graphs'[i] = graphs[i]
    /\ graphs'[i].status = "running" => GoesOn(graphs[i], graphs'[i])

(* A graph that is over stays as it ended.  One that runs never goes back to   *)
(* an earlier phase or conversion, whichever run it is bound to meanwhile and  *)
(* however often its batches die and are retried; no conversion is chosen      *)
(* twice in one phase and no budget grows, so that a replay that is kept going *)
(* comes to its end (claim-repository.ts:459-600).                             *)
WalkMovesForward == [][WalkStep]_vars

\* What is attempted lies ahead of the cursor.
IsAttemptAhead(g) == g.attempting # NoEvent => g.attempting > g.cursor

WalkInv == GraphRuns => IsAttemptAhead(Graph)

LEMMA GoesOnBeside ==
  ASSUME NEW g \in Graphs, NEW h \in Graphs,
         h.phase = g.phase, h.cursor = g.cursor, h.attempting = g.attempting,
         h.incompleteLeft = g.incompleteLeft, h.failedLeft = g.failedLeft
  PROVE  GoesOn(g, h) /\ (IsAttemptAhead(g) => IsAttemptAhead(h))
<1>1. /\ g.cursor \in Nat /\ g.attempting \in Nat
      /\ g.incompleteLeft \in Nat /\ g.failedLeft \in Nat
  BY MatchingAssumption, ClaimAssumption DEF Graphs
<1>. QED BY <1>1 DEF GoesOn, Reached, IsAttemptAhead

(* The attempt is over: the cursor takes its place.                            *)
LEMMA GoesOnPast ==
  ASSUME NEW g \in Graphs, g.attempting # NoEvent, NEW h \in Graphs,
         h.phase = g.phase, h.cursor = g.attempting, h.attempting = NoEvent,
         h.incompleteLeft <= g.incompleteLeft, h.failedLeft <= g.failedLeft
  PROVE  GoesOn(g, h) /\ IsAttemptAhead(h)
<1>1. g.attempting \in Nat
  BY MatchingAssumption DEF Graphs
<1>. QED BY <1>1 DEF GoesOn, Reached, IsAttemptAhead

LEMMA AtSelectionMoves ==
  ASSUME NEW g \in Graphs
  PROVE  AtSelection(g) = g \/ PhaseRank[g.phase] < PhaseRank[AtSelection(g).phase]
<1>1. ASSUME NEW h \in Graphs, h.phase # "failed"
      PROVE  InNextPhase(h) \in Graphs /\ PhaseRank[h.phase] < PhaseRank[InNextPhase(h).phase]
  <2>1. 0 \in 0..NumEvents
    BY MatchingAssumption
  <2>2. CASE h.phase = "missing"
    <3>1. InNextPhase(h) = [h EXCEPT !.phase = "incomplete", !.cursor = 0]
      BY <2>2 DEF InNextPhase
    <3>2. InNextPhase(h) \in Graphs /\ InNextPhase(h).phase = "incomplete"
      BY <2>1, <3>1 DEF Graphs
    <3>. QED BY <2>2, <3>2 DEF PhaseRank
  <2>3. CASE h.phase = "incomplete"
    <3>1. InNextPhase(h) = [h EXCEPT !.phase = "failed", !.cursor = 0]
      BY <2>3 DEF InNextPhase
    <3>2. InNextPhase(h) \in Graphs /\ InNextPhase(h).phase = "failed"
      BY <2>1, <3>1 DEF Graphs
    <3>. QED BY <2>3, <3>2 DEF PhaseRank
  <2>. QED BY <1>1, <2>2, <2>3 DEF Graphs
<1> DEFINE second == IF Ahead(g) = {} /\ g.phase # "failed" THEN InNextPhase(g) ELSE g
<1>2. second \in Graphs /\ (second = g \/ PhaseRank[g.phase] < PhaseRank[second.phase])
  BY <1>1
<1>3. AtSelection(g) = IF Ahead(second) = {} /\ second.phase # "failed" THEN InNextPhase(second) ELSE second
  BY DEF AtSelection
<1> HIDE DEF second
<1>4. \A h \in Graphs : PhaseRank[h.phase] \in Nat
  BY DEF Graphs, PhaseRank
<1>5. CASE Ahead(second) = {} /\ second.phase # "failed"
  <2>1. /\ AtSelection(g) = InNextPhase(second) /\ InNextPhase(second) \in Graphs
        /\ PhaseRank[second.phase] < PhaseRank[InNextPhase(second).phase]
    BY <1>1, <1>2, <1>3, <1>5
  <2>. QED BY <1>2, <1>4, <2>1
<1>. QED BY <1>2, <1>3, <1>5

LEMMA GoesOnChosen ==
  ASSUME NEW g \in Graphs, g.attempting = NoEvent, Ahead(AtSelection(g)) # {},
         NEW h, h = [AtSelection(g) EXCEPT !.attempting = FirstOf(Ahead(AtSelection(g)))]
  PROVE  h \in Graphs /\ h.status = g.status /\ GoesOn(g, h) /\ IsAttemptAhead(h)
<1> SUFFICES ASSUME NEW at, at = AtSelection(g), NEW S, S = Ahead(at), NEW first, first = FirstOf(S),
                    h = [at EXCEPT !.attempting = first], S # {}
             PROVE  h \in Graphs /\ h.status = g.status /\ GoesOn(g, h) /\ IsAttemptAhead(h)
  OBVIOUS
<1>1. /\ at \in Graphs /\ at.status = g.status /\ at.attempting = NoEvent
      /\ at.incompleteLeft = g.incompleteLeft /\ at.failedLeft = g.failedLeft
      /\ at = g \/ PhaseRank[g.phase] < PhaseRank[at.phase]
  BY AtSelectionIs, AtSelectionMoves
<1>2. S \in SUBSET Events
  BY <1>1 DEF Ahead, InPhase, Missing, Unresolved, Graphs
<1>3. first \in S /\ first \in Events /\ first > at.cursor
  BY <1>2, FirstIsIn DEF Ahead
<1>4. first \in 0..NumEvents /\ first # NoEvent
  BY <1>3, EventsAreNat, MatchingAssumption DEF Events
<1>5. /\ h \in Graphs /\ h.status = at.status /\ h.phase = at.phase /\ h.cursor = at.cursor
      /\ h.attempting = first
      /\ h.incompleteLeft = at.incompleteLeft /\ h.failedLeft = at.failedLeft
  BY <1>1, <1>4 DEF Graphs
<1>6. /\ g.cursor \in Nat /\ g.incompleteLeft \in Nat /\ g.failedLeft \in Nat
  BY MatchingAssumption, ClaimAssumption DEF Graphs
<1>7. IsAttemptAhead(h)
  BY <1>3, <1>5 DEF IsAttemptAhead
<1>8. GoesOn(g, h)
  <2>1. CASE at = g
    <3>1. Reached(g) = g.cursor /\ Reached(h) = first
      BY <1>4, <1>5 DEF Reached
    <3>2. g.cursor <= first
      BY <1>3, <1>4, <1>6, <2>1
    <3>. QED BY <1>1, <1>3, <1>5, <1>6, <2>1, <3>1, <3>2 DEF GoesOn
  <2>2. CASE PhaseRank[g.phase] < PhaseRank[at.phase]
    BY <1>1, <1>5, <1>6, <2>2 DEF GoesOn
  <2>. QED BY <1>1, <2>1, <2>2
<1>. QED BY <1>1, <1>5, <1>7, <1>8

(* Rows that are not written are as they were.                                 *)
LEMMA RowsStay ==
  ASSUME ClaimInv, WalkInv, UNCHANGED graphs
  PROVE  WalkStep /\ WalkInv'
<1>1. TypeOK
  BY DEF ClaimInv
<1>2. \A i \in DOMAIN graphs : graphs[i] \in Graphs
  BY <1>1 DEF TypeOK
<1>3. WalkStep
  BY <1>2, GoesOnBeside DEF WalkStep
<1>4. WalkInv'
  BY DEF WalkInv, GraphRuns, Graph
<1>. QED BY <1>3, <1>4

(* Only the row of the running graph is written.                               *)
LEMMA RowWritten ==
  ASSUME ClaimInv, GraphRuns, NEW h \in Graphs, graphs' = WithGraph(h),
         h.status = "running" => GoesOn(Graph, h) /\ IsAttemptAhead(h)
  PROVE  WalkStep /\ WalkInv'
<1>1. /\ TypeOK /\ Graph.status = "running"
      /\ graphs \in Seq(Graphs) /\ Len(graphs) \in Nat /\ Len(graphs) > 0
  BY RunningGraph, GraphTyped DEF ClaimInv, TypeOK, GraphRuns
<1>2. WalkInv'
  BY <1>1, WithGraphIs DEF WalkInv
<1>3. ASSUME NEW i \in DOMAIN graphs
      PROVE  /\ i \in DOMAIN graphs'
             /\ graphs[i].status # "running" => graphs'[i] = graphs[i]
             /\ graphs'[i].status = "running" => GoesOn(graphs[i], graphs'[i])
  <2>1. DOMAIN graphs' = DOMAIN graphs
    BY DEF WithGraph
  <2>2. CASE i = Len(graphs)
    <3>1. graphs'[i] = h /\ graphs[i] = Graph
      BY <1>1, <2>2 DEF WithGraph, Graph
    <3>. QED BY <1>1, <2>1, <3>1
  <2>3. CASE i # Len(graphs)
    <3>1. graphs'[i] = graphs[i]
      BY <2>3 DEF WithGraph
    <3>2. graphs[i].status # "running"
      BY <1>1, <2>3 DEF TypeOK
    <3>. QED BY <2>1, <3>1, <3>2
  <2>. QED BY <2>2, <2>3
<1>. QED BY <1>2, <1>3 DEF WalkStep

(* The row is rebound, or marked for an edit.                                  *)
LEMMA WrittenBeside ==
  ASSUME ClaimInv, WalkInv, GraphRuns, NEW h \in Graphs, graphs' = WithGraph(h),
         h.phase = Graph.phase, h.cursor = Graph.cursor, h.attempting = Graph.attempting,
         h.incompleteLeft = Graph.incompleteLeft, h.failedLeft = Graph.failedLeft
  PROVE  WalkStep /\ WalkInv'
<1>1. Graph \in Graphs /\ IsAttemptAhead(Graph)
  BY RunningGraph DEF WalkInv
<1>2. GoesOn(Graph, h) /\ IsAttemptAhead(h)
  BY <1>1, GoesOnBeside
<1>. QED BY <1>2, RowWritten

(* A start ends the row that ran, at most, and opens one below.                *)
LEMMA StartWalks ==
  ASSUME ClaimInv, WalkInv, NEW r \in DOMAIN runs, Start(r)
  PROVE  WalkStep /\ WalkInv'
<1> SUFFICES ASSUME NEW rows,
                    rows = IF GraphRuns THEN WithGraph(Finished(Graph, "failed")) ELSE graphs
             PROVE  WalkStep /\ WalkInv'
  OBVIOUS
<1>1. /\ TypeOK /\ graphs \in Seq(Graphs) /\ Len(graphs) \in Nat /\ DOMAIN graphs = 1..Len(graphs)
      /\ \A i \in DOMAIN graphs : graphs[i].status = "running" => i = Len(graphs)
      /\ GraphRuns => Graph \in Graphs /\ Graph.status = "running"
  BY GraphTyped DEF ClaimInv, TypeOK
<1>2. /\ rows \in Seq(Graphs) /\ Len(rows) = Len(graphs)
      /\ \A i \in DOMAIN graphs : rows[i].status # "running"
      /\ \A i \in DOMAIN graphs : graphs[i].status # "running" => rows[i] = graphs[i]
  <2>1. CASE GraphRuns
    <3> SUFFICES ASSUME NEW g \in Graphs, g.status = "failed", rows = WithGraph(g)
                 PROVE  /\ rows \in Seq(Graphs) /\ Len(rows) = Len(graphs)
                        /\ \A i \in DOMAIN graphs : rows[i].status # "running"
                        /\ \A i \in DOMAIN graphs : graphs[i].status # "running" => rows[i] = graphs[i]
      BY <1>1, <2>1, FinishedIs
    <3>1. rows \in Seq(Graphs) /\ Len(rows) = Len(graphs) /\ DOMAIN rows = DOMAIN graphs
      BY <1>1, <2>1 DEF WithGraph, GraphRuns
    <3>2. \A i \in DOMAIN graphs : rows[i] = IF i = Len(graphs) THEN g ELSE graphs[i]
      BY <1>1 DEF WithGraph
    <3>3. graphs[Len(graphs)].status = "running"
      BY <1>1, <2>1 DEF Graph
    <3>. QED BY <1>1, <3>1, <3>2, <3>3
  <2>2. CASE ~GraphRuns
    BY <1>1, <2>2 DEF GraphRuns, Graph
  <2>. QED BY <2>1, <2>2
<1>3. ASSUME NEW rest, rest \in Seq(Graphs), graphs' = rest, Len(rest) >= Len(graphs),
             \A i \in DOMAIN graphs : rest[i] = rows[i]
      PROVE  WalkStep
  <2>1. DOMAIN graphs \subseteq DOMAIN graphs'
    BY <1>1, <1>3
  <2>. QED BY <1>2, <1>3, <2>1 DEF WalkStep
<1>4. StartFresh(r, rows)
  BY DEF Start
<1>5. CASE graphs' = Append(rows, NewGraph(r))
  <2>1. /\ NewGraph(r) \in Graphs /\ NewGraph(r).attempting = NoEvent
    BY <1>1, AnchorsAreEvents, NewGraphIs DEF TypeOK
  <2> SUFFICES ASSUME NEW g \in Graphs, g.attempting = NoEvent, graphs' = Append(rows, g)
               PROVE  WalkStep /\ WalkInv'
    BY <1>5, <2>1
  <2>2. /\ graphs' \in Seq(Graphs) /\ Len(graphs') = Len(graphs) + 1
        /\ graphs'[Len(graphs) + 1] = g /\ \A i \in DOMAIN graphs : graphs'[i] = rows[i]
    BY <1>1, <1>2
  <2>3. WalkInv'
    BY <2>2 DEF WalkInv, Graph, IsAttemptAhead
  <2>. QED BY <1>1, <1>3, <2>2, <2>3
<1>6. CASE graphs' = rows
  <2>1. ~GraphRuns'
    BY <1>1, <1>2, <1>6 DEF GraphRuns, Graph
  <2>. QED BY <1>1, <1>2, <1>3, <1>6, <2>1 DEF WalkInv
<1>. QED BY <1>4, <1>5, <1>6 DEF StartFresh

(* A selection resumes the attempt, ends the graph, or steps ahead.            *)
LEMMA SelectWalks ==
  ASSUME ClaimInv, WalkInv, Select
  PROVE  WalkStep /\ WalkInv'
<1>1. GraphRuns /\ TypeOK /\ Graph \in Graphs /\ Graph.run \in DOMAIN runs
  BY SelectIs, RunningGraph DEF ClaimInv
<1>2. ASSUME NEW g \in Graphs, NEW status \in {"success", "partial", "failed", "stale"},
             graphs' = WithGraph(Finished(g, status))
      PROVE  WalkStep /\ WalkInv'
  <2> SUFFICES ASSUME NEW h \in Graphs, h.status # "running", graphs' = WithGraph(h)
               PROVE  WalkStep /\ WalkInv'
    BY <1>2, FinishedIs
  <2>. QED BY <1>1, RowWritten
<1>3. CASE graphs' = WithGraph(Finished(Graph, "stale"))
  BY <1>1, <1>2, <1>3
<1>4. ASSUME NEW g, g = Graph \/ (CanRebind(Graph) /\ g = Rebound(Graph)),
             NEW synced, NEW gate, Selects(g, synced, gate)
      PROVE  WalkStep /\ WalkInv'
  <2>1. /\ g \in Graphs
        /\ g.phase = Graph.phase /\ g.cursor = Graph.cursor /\ g.attempting = Graph.attempting
        /\ g.incompleteLeft = Graph.incompleteLeft /\ g.failedLeft = Graph.failedLeft
    BY <1>1, <1>4, ReboundIs
  <2>2. CASE graphs' = WithGraph(g)
    BY <1>1, <2>1, <2>2, WrittenBeside
  <2>3. CASE graphs' = WithGraph(Finished(g, IF LeavesUnresolved(g) THEN "partial" ELSE "success"))
    BY <1>2, <2>1, <2>3
  <2>4. CASE /\ g.attempting = NoEvent /\ Ahead(AtSelection(g)) # {}
             /\ graphs' = WithGraph([AtSelection(g) EXCEPT !.attempting = FirstOf(Ahead(AtSelection(g)))])
    <3> SUFFICES ASSUME NEW h, h = [AtSelection(g) EXCEPT !.attempting = FirstOf(Ahead(AtSelection(g)))],
                        graphs' = WithGraph(h)
                 PROVE  WalkStep /\ WalkInv'
      BY <2>4
    <3>1. h \in Graphs /\ GoesOn(g, h) /\ IsAttemptAhead(h)
      BY <2>1, <2>4, GoesOnChosen
    <3>2. GoesOn(Graph, h)
      BY <2>1, <3>1 DEF GoesOn, Reached
    <3>. QED BY <1>1, <3>1, <3>2, RowWritten
  <2>. QED BY <1>4, <2>2, <2>3, <2>4 DEF Selects
<1>. QED BY <1>3, <1>4, SelectIs

(* The attempt is committed, passed over, or given up by the recovery.         *)
LEMMA AttemptWalks ==
  ASSUME ClaimInv, WalkInv,
         CommitSkips \/ (\E n, complete : Commit(n, complete)) \/ Recover
  PROVE  WalkStep /\ WalkInv'
<1>1. /\ GraphRuns /\ TypeOK /\ Graph \in Graphs /\ Graph.run \in DOMAIN runs
      /\ batch.step = "fetching" => Graph.attempting \in Events
  BY RunningGraph DEF ClaimInv, CommitSkips, Commit, Recover
<1>2. Graph.incompleteLeft \in Nat /\ Graph.failedLeft \in Nat
  BY <1>1, ClaimAssumption DEF Graphs
<1> DEFINE a == Anchored(Graph, Graph.attempting)
<1>3. /\ a \in Graphs /\ a.phase = Graph.phase /\ a.attempting = Graph.attempting
      /\ a.incompleteLeft = Graph.incompleteLeft /\ a.failedLeft = Graph.failedLeft
      /\ IsOpen(a)
  BY <1>1, AnchoredIs, AnchoredAgrees
<1> HIDE DEF a
<1>4. ASSUME NEW h \in Graphs, Graph.attempting # NoEvent, h = Past(a) \/ h = Past(Graph),
             graphs' = WithGraph(h)
      PROVE  WalkStep /\ WalkInv'
  <2>1. /\ h.phase = Graph.phase /\ h.cursor = Graph.attempting /\ h.attempting = NoEvent
        /\ h.incompleteLeft = Graph.incompleteLeft /\ h.failedLeft = Graph.failedLeft
    BY <1>1, <1>3, <1>4, PastIs
  <2>2. GoesOn(Graph, h) /\ IsAttemptAhead(h)
    BY <1>1, <1>2, <1>4, <2>1, GoesOnPast
  <2>. QED BY <1>1, <1>4, <2>2, RowWritten
<1>5. CASE CommitSkips
  <2>1. graphs' = WithGraph(Past(a)) /\ batch.step = "fetching"
    BY <1>5 DEF CommitSkips, a
  <2>2. Graph.attempting # NoEvent
    BY <1>1, <2>1, EventsAreNat
  <2>3. Past(a) \in Graphs
    BY <1>3, PastIs
  <2>. QED BY <1>4, <2>1, <2>2, <2>3
<1>6. CASE \E n, complete : Commit(n, complete)
  <2>1. graphs' = WithGraph(Tried(a)) /\ batch.step = "fetching"
    BY <1>6 DEF Commit, a
  <2>2. Graph.attempting # NoEvent
    BY <1>1, <2>1, EventsAreNat
  <2>3. /\ Tried(a) \in Graphs
        /\ Tried(a).phase = Graph.phase /\ Tried(a).cursor = Graph.attempting
        /\ Tried(a).attempting = NoEvent
    BY <1>3, <2>2, TriedIs
  <2>4. Tried(a).incompleteLeft <= Graph.incompleteLeft /\ Tried(a).failedLeft <= Graph.failedLeft
    <3>1. /\ Past(a) \in Graphs
          /\ Past(a).incompleteLeft = Graph.incompleteLeft /\ Past(a).failedLeft = Graph.failedLeft
      BY <1>3, PastIs
    <3> DEFINE i == IF a.phase = "incomplete" THEN Past(a).incompleteLeft - 1 ELSE Past(a).incompleteLeft
               f == IF a.phase = "failed" THEN Past(a).failedLeft - 1 ELSE Past(a).failedLeft
    <3>2. Tried(a) = [Past(a) EXCEPT !.incompleteLeft = i, !.failedLeft = f]
      BY DEF Tried
    <3>3. Tried(a).incompleteLeft = i /\ Tried(a).failedLeft = f
      BY <3>1, <3>2 DEF Graphs
    <3>. QED BY <1>2, <3>1, <3>3
  <2> SUFFICES ASSUME NEW h \in Graphs, h = Tried(a)  PROVE WalkStep /\ WalkInv'
    BY <2>3
  <2>5. GoesOn(Graph, h) /\ IsAttemptAhead(h)
    BY <1>1, <2>2, <2>3, <2>4, GoesOnPast
  <2>. QED BY <1>1, <2>1, <2>5, RowWritten
<1>7. CASE Recover
  <2>1. ASSUME NEW g \in Graphs, NEW status \in {"failed", "stale"},
               graphs' = WithGraph(Finished(g, status))
        PROVE  WalkStep /\ WalkInv'
    <3> SUFFICES ASSUME NEW h \in Graphs, h.status # "running", graphs' = WithGraph(h)
                 PROVE  WalkStep /\ WalkInv'
      BY <2>1, FinishedIs
    <3>. QED BY <1>1, RowWritten
  <2>2. Past(Graph) \in Graphs
    BY <1>1, PastIs
  <2>3. \/ graphs' = WithGraph(Finished(Graph, "failed"))
        \/ graphs' = WithGraph(Finished(Past(Graph), "failed"))
        \/ graphs' = WithGraph(Finished(Past(Graph), "stale"))
        \/ Graph.attempting # NoEvent /\ graphs' = WithGraph(Past(Graph))
    BY <1>7 DEF Recover
  <2>. QED BY <1>1, <1>4, <2>1, <2>2, <2>3
<1>. QED BY <1>5, <1>6, <1>7

LEMMA WalkSteps ==
  ASSUME ClaimInv, WalkInv, [ClaimNext]_vars
  PROVE  WalkStep /\ WalkInv'
<1>1. CASE MatchStep \/ NextBatch \/ BatchDies \/ UNCHANGED vars
  BY <1>1, RowsStay DEF MatchStep, claimVars, NextBatch, BatchDies, vars
<1>2. ASSUME NEW e \in Events, EraseEvent(e) PROVE WalkStep /\ WalkInv'
  BY <1>2, RowsStay DEF EraseEvent
<1>3. ASSUME NEW i \in Items, StoreItem(i) PROVE WalkStep /\ WalkInv'
  <2>1. CASE ~(GraphRuns /\ i \in Events)
    BY <1>3, <2>1, RowsStay DEF StoreItem
  <2>2. CASE GraphRuns /\ i \in Events
    <3> SUFFICES ASSUME NEW g, g = [Graph EXCEPT !.edited = @ \cup {i}], graphs' = WithGraph(g)
                 PROVE  WalkStep /\ WalkInv'
      BY <1>3, <2>2 DEF StoreItem
    <3>1. /\ g \in Graphs /\ g.phase = Graph.phase /\ g.cursor = Graph.cursor
          /\ g.attempting = Graph.attempting
          /\ g.incompleteLeft = Graph.incompleteLeft /\ g.failedLeft = Graph.failedLeft
      BY <2>2, RunningGraph DEF Graphs
    <3>. QED BY <2>2, <3>1, WrittenBeside
  <2>. QED BY <2>1, <2>2
<1>4. ASSUME NEW r \in DOMAIN runs, Start(r) PROVE WalkStep /\ WalkInv'
  BY <1>4, StartWalks
<1>5. ASSUME NEW r, StartRebinds(r) PROVE WalkStep /\ WalkInv'
  <2>1. GraphRuns /\ TypeOK /\ Graph \in Graphs /\ CanRebind(Graph) /\ graphs' = WithGraph(Rebound(Graph))
    BY <1>5, RunningGraph DEF StartRebinds, ClaimInv
  <2>. QED BY <2>1, ReboundIs, WrittenBeside
<1>6. CASE Preflight \/ CommitBlocked
  <2>1. /\ GraphRuns /\ TypeOK /\ Graph \in Graphs /\ Graph.run \in DOMAIN runs
        /\ graphs' = WithGraph(Anchored(Graph, Graph.attempting))
    BY <1>6, RunningGraph DEF Preflight, CommitBlocked, ClaimInv
  <2>. QED BY <2>1, AnchoredIs, WrittenBeside
<1>7. CASE Select
  BY <1>7, SelectWalks
<1>8. CASE CommitSkips \/ Recover
  BY <1>8, AttemptWalks
<1>9. ASSUME NEW n, NEW complete, Commit(n, complete) PROVE WalkStep /\ WalkInv'
  BY <1>9, AttemptWalks
<1>. QED BY <1>1, <1>2, <1>3, <1>4, <1>5, <1>6, <1>7, <1>8, <1>9 DEF ClaimNext

(* The walk of every replay goes forward only, and what ended stays as it is.  *)
THEOREM ReplayMovesForward == ClaimSpec => WalkMovesForward
<1>1. ClaimInit => WalkInv
  BY DEF ClaimInit, WalkInv, GraphRuns
<1>2. ClaimInv /\ WalkInv /\ [ClaimNext]_vars => WalkInv' /\ [WalkStep]_vars
  BY WalkSteps
<1>. QED BY <1>1, <1>2, ReplayInv, PTL DEF ClaimSpec, WalkMovesForward

-----------------------------------------------------------------------------
\* A graph that lost the conversion it was attempting.

\* Between two batches, the conversion being attempted was erased.
IsStranded ==
  /\ GraphRuns /\ batch.step # "fetching"
  /\ Graph.attempting # NoEvent /\ content[Graph.attempting] = Gone

StrandedStep ==
  IsStranded =>
    \/ IsStranded' /\ Len(graphs') = Len(graphs)
    \/ graphs'[Len(graphs)].status \in {"failed", "stale"}

(* When the conversion being attempted is erased between two batches, the      *)
(* graph fetches nothing more: loadConversion throws in every selection and in *)
(* the recovery alike, so that the graph runs on without doing anything until  *)
(* a later start fails it or its run has no conversion left                    *)
(* (claim-repository.ts:453).  It never comes to a success.                    *)
ErasedAttemptStrands == [][StrandedStep]_vars

\* What is gone stays gone.
LEMMA GoneStays ==
  ASSUME ClaimInv, [ClaimNext]_vars, NEW e \in Events, content[e] = Gone
  PROVE  content'[e] = Gone
<1>1. content \in [Items -> {Unknown, Gone} \cup Versions] /\ Events \subseteq Items
  BY DEF ClaimInv, TypeOK, MatchTypeOK, Items
<1>2. ASSUME NEW i \in Items, Store(i)  PROVE content'[e] = Gone
  <2>1. i # e
    BY <1>2, MatchingAssumption DEF Store, Unknown, Gone, Versions
  <2>. QED BY <1>1, <1>2, <2>1 DEF Store
<1>3. ASSUME NEW i \in Events, Erase(i)  PROVE content'[e] = Gone
  BY <1>1, <1>3 DEF Erase
<1>4. CASE MatchStep
  BY <1>4 DEF MatchStep, Observe, Trigger, Compute, ComputeRefused, Publish, Replay,
              PublishRefused, PublishFails, Crash, TaskEnds
<1>5. CASE UNCHANGED matchVars
  BY <1>5 DEF matchVars
<1>. QED BY <1>2, <1>3, <1>4, <1>5
         DEF ClaimNext, StoreItem, EraseEvent, Start, StartRebinds, Select, Preflight, CommitSkips,
             CommitBlocked, Commit, NextBatch, BatchDies, Recover, vars, matchVars

LEMMA StrandedSteps ==
  ASSUME ClaimInv, [ClaimNext]_vars, IsStranded
  PROVE  StrandedStep
<1>1. /\ TypeOK /\ Graph \in Graphs /\ Graph.status = "running" /\ GraphRuns
      /\ graphs \in Seq(Graphs) /\ Len(graphs) \in Nat /\ Len(graphs) > 0
      /\ batch.step # "fetching" /\ Graph.attempting # NoEvent /\ content[Graph.attempting] = Gone
  BY RunningGraph, GraphTyped DEF ClaimInv, TypeOK, GraphRuns, IsStranded
<1>2. Graph.attempting \in Events
  BY <1>1 DEF Graphs, Events, NoEvent
<1>3. content'[Graph.attempting] = Gone
  BY <1>1, <1>2, GoneStays
<1>4. ~IsAnchor(Graph.run, Graph.attempting)
  BY <1>1 DEF ClaimInv, IInv, ConclusionsAgree, NothingFromErased, IsAnchor
<1>5. ASSUME UNCHANGED graphs, batch'.step # "fetching"  PROVE StrandedStep
  <2>1. Graph' = Graph /\ GraphRuns' /\ Len(graphs') = Len(graphs)
    BY <1>1, <1>5 DEF GraphRuns, Graph
  <2>2. IsStranded'
    BY <1>1, <1>3, <1>5, <2>1 DEF IsStranded
  <2>. QED BY <2>1, <2>2 DEF StrandedStep
<1>6. ASSUME NEW h \in Graphs, h.status = "running", h.attempting = Graph.attempting,
             graphs' = WithGraph(h), batch'.step # "fetching"
      PROVE  StrandedStep
  <2>1. Graph' = h /\ GraphRuns' /\ Len(graphs') = Len(graphs)
    BY <1>1, <1>6, WithGraphIs
  <2>. QED BY <1>1, <1>3, <1>6, <2>1 DEF StrandedStep, IsStranded
<1>7. CASE MatchStep \/ NextBatch \/ BatchDies \/ UNCHANGED vars
  BY <1>1, <1>5, <1>7, BatchesAre DEF MatchStep, claimVars, NextBatch, BatchDies, vars
<1>8. ASSUME NEW e \in Events, EraseEvent(e)  PROVE StrandedStep
  BY <1>1, <1>5, <1>8 DEF EraseEvent
<1>9. ASSUME NEW i \in Items, StoreItem(i)  PROVE StrandedStep
  <2>1. batch'.step # "fetching"
    BY <1>1, <1>9 DEF StoreItem
  <2>2. CASE i \notin Events
    BY <1>5, <1>9, <2>1, <2>2 DEF StoreItem
  <2>3. CASE i \in Events
    <3> SUFFICES ASSUME NEW g, g = [Graph EXCEPT !.edited = @ \cup {i}], graphs' = WithGraph(g)
                 PROVE  StrandedStep
      BY <1>1, <1>9, <2>3 DEF StoreItem
    <3>1. g \in Graphs /\ g.status = "running" /\ g.attempting = Graph.attempting
      BY <1>1, <2>3 DEF Graphs
    <3>. QED BY <1>6, <2>1, <3>1
  <2>. QED BY <2>2, <2>3
<1>10. ASSUME NEW r \in DOMAIN runs, Start(r)  PROVE graphs'[Len(graphs)].status = "failed"
  <2> SUFFICES ASSUME NEW g \in Graphs, g.status = "failed", StartFresh(r, WithGraph(g))
               PROVE  graphs'[Len(graphs)].status = "failed"
    BY <1>1, <1>10, FinishedIs DEF Start
  <2>1. /\ WithGraph(g) \in Seq(Graphs) /\ Len(WithGraph(g)) = Len(graphs)
        /\ WithGraph(g)[Len(graphs)] = g
    BY <1>1 DEF WithGraph
  <2>2. NewGraph(r) \in Graphs
    BY <1>1, AnchorsAreEvents, NewGraphIs DEF TypeOK
  <2>3. graphs' = Append(WithGraph(g), NewGraph(r)) \/ graphs' = WithGraph(g)
    BY DEF StartFresh
  <2>4. graphs'[Len(graphs)] = g
    BY <1>1, <2>1, <2>2, <2>3
  <2>. QED BY <2>4
<1>11. ASSUME NEW r, StartRebinds(r)  PROVE StrandedStep
  <2>1. CanRebind(Graph) /\ graphs' = WithGraph(Rebound(Graph)) /\ UNCHANGED batch
    BY <1>11 DEF StartRebinds
  <2>. QED BY <1>1, <1>6, <2>1, ReboundIs
<1>12. CASE Select
  <2>1. ASSUME NEW g, g = Graph \/ (CanRebind(Graph) /\ g = Rebound(Graph)),
               NEW synced, NEW gate, Selects(g, synced, gate)
        PROVE  FALSE
    <3>1. g.attempting = Graph.attempting
      BY <1>1, <2>1, ReboundIs
    <3>. QED BY <1>1, <2>1, <3>1 DEF Selects
  <2>2. graphs' = WithGraph(Finished(Graph, "stale"))
    BY <1>12, <2>1, SelectIs
  <2> SUFFICES ASSUME NEW h \in Graphs, h.status = "stale", graphs' = WithGraph(h)
               PROVE  StrandedStep
    BY <1>1, <2>2, FinishedIs
  <2>. QED BY <1>1, WithGraphIs DEF StrandedStep
<1>13. CASE Preflight \/ CommitSkips \/ CommitBlocked \/ \E n, complete : Commit(n, complete)
  BY <1>1, <1>13 DEF Preflight, CommitSkips, CommitBlocked, Commit
<1>14. CASE Recover
  BY <1>1, <1>4, <1>14 DEF Recover
<1>. QED BY <1>7, <1>8, <1>9, <1>10, <1>11, <1>12, <1>13, <1>14 DEF ClaimNext, StrandedStep

(* A graph whose attempt was erased is left to a later start.                  *)
THEOREM ReplayStrandsOnErasure == ClaimSpec => ErasedAttemptStrands
<1>1. ClaimInv /\ [ClaimNext]_vars => [StrandedStep]_vars
  BY StrandedSteps DEF StrandedStep
<1>. QED BY <1>1, ReplayInv, PTL DEF ClaimSpec, ErasedAttemptStrands
=============================================================================
