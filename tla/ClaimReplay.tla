------------------------------ MODULE ClaimReplay ------------------------------
(***************************************************************************)
(* The replay of attribution claims over the published matches: a graph,   *)
(* bound to one match run, walks its conversions and stores the claims     *)
(* Klaviyo returns for each.  Publications, edits and erasures go on under *)
(* it; a graph whose conversion was taken over moves to the newest run.    *)
(***************************************************************************)
EXTENDS Matching

CONSTANTS
  MaxGraphs,   \* bound: rows of klaviyo_claim_replay_run
  MaxRetries,  \* MAX_INCOMPLETE_CLAIM_RETRIES_PER_GRAPH, and MAX_FAILED_...
  ClaimCounts  \* bound: how many claims Klaviyo returns for a conversion

ASSUME ClaimAssumption ==
  MaxGraphs \in Nat /\ MaxRetries \in Nat /\ ClaimCounts \subseteq Nat

VARIABLES
  graphs,  \* klaviyo_claim_replay_run, in the order of creation; ghosts: whether
           \* it was ever rebound, and the events edited since it started
  batch,   \* the task of the running graph, if it has one
  states,  \* klaviyo_claim_replay_state, by match run and conversion
  claims,  \* the number of klaviyo_attribution_claim rows of each conversion
  counts   \* claim_count of the order results, by match run and order

claimVars == <<graphs, batch, states, claims, counts>>
vars == <<links, content, observed, queue, worker, runs, eventCurrent, orderCurrent,
          graphs, batch, states, claims, counts>>

RunIds == 1..MaxRuns
NoState == [status |-> "none", checksum |-> Unknown, graph |-> 0]
NoBatch == [step |-> "none", checksum |-> Unknown, synced |-> 0]
\* A task between two conversions; synced is the run it has carried counts onto.
Ready == [step |-> "ready", checksum |-> Unknown, synced |-> 0]

ClaimInit ==
  /\ Init
  /\ graphs = <<>>
  /\ batch = NoBatch
  /\ states = [r \in RunIds |-> [e \in Events |-> NoState]]
  /\ claims = [e \in Events |-> 0]
  /\ counts = [r \in RunIds |-> [o \in Orders |-> 0]]

Graph == graphs[Len(graphs)]
GraphRuns == Len(graphs) > 0 /\ Graph.status = "running"

WithGraph(g) == [graphs EXCEPT ![Len(graphs)] = g]

\* boundRunYieldsAnchors; a run that is bound was published.
YieldsAnchors(r) == \E e \in Events : <<r, e>> \in eventCurrent

\* verifyCurrentClaimAnchor
IsAnchor(r, e) == <<r, e>> \in eventCurrent

\* resolveCurrentPublishedMatchRun
CurrentRuns == {r \in DOMAIN runs : runs[r].published /\ ~runs[r].superseded}
NewestRun == CHOOSE r \in CurrentRuns : \A s \in CurrentRuns : s <= r

\* rebindGraphLocked finds a run other than the bound one.
CanRebind(g) == CurrentRuns # {} /\ NewestRun # g.run

\* The cursor stays.
Rebound(g) == [g EXCEPT !.run = NewestRun, !.rebound = TRUE]

\* The conversion as bound, or as rebound when that may help.
Anchored(g, e) == IF IsAnchor(g.run, e) \/ ~CanRebind(g) THEN g ELSE Rebound(g)

-----------------------------------------------------------------------------
\* startOrResumeClaimReplay for a match run of the ledger.

NewGraph(r) ==
  [status |-> "running", run |-> r, phase |-> "missing", cursor |-> 0, attempting |-> NoEvent,
   incompleteLeft |-> MaxRetries, failedLeft |-> MaxRetries, rebound |-> FALSE, edited |-> {}]

\* A graph that is over: of the rest of its row nothing is read again.
Finished(g, status) == [NewGraph(g.run) EXCEPT !.status = status]

StartFresh(r, rows) ==
  IF runs[r].published /\ YieldsAnchors(r) /\ Len(graphs) < MaxGraphs
  THEN graphs' = Append(rows, NewGraph(r)) /\ batch' = Ready
  ELSE graphs' = rows /\ batch' = NoBatch

\* No graph runs, or the lease of the one that runs has expired.
Start(r) ==
  /\ Len(graphs) < MaxGraphs
  /\ StartFresh(r, IF GraphRuns THEN WithGraph(Finished(Graph, "failed")) ELSE graphs)
  /\ UNCHANGED matchVars
  /\ UNCHANGED <<states, claims, counts>>

\* The lease is held and the caller asks for another run than the bound one.
StartRebinds(r) ==
  /\ GraphRuns /\ Graph.run # r /\ CanRebind(Graph)
  /\ graphs' = WithGraph(Rebound(Graph))
  /\ UNCHANGED matchVars
  /\ UNCHANGED <<batch, states, claims, counts>>

-----------------------------------------------------------------------------
\* The selection of a conversion.

\* completeUnderCurrentChecksum
IsCovered(e) ==
  \E r \in RunIds : states[r][e].status = "complete" /\ states[r][e].checksum = content[e]

Missing(g) ==
  {e \in Events : /\ IsAnchor(g.run, e) /\ ~IsCovered(e)
                  /\ \/ states[g.run][e] = NoState
                     \/ states[g.run][e].checksum # content[e]}

\* Mutant of Unresolved: the retries of a graph are not counted.
UnresolvedUnbounded(g, status, left) ==
  {e \in Events : /\ IsAnchor(g.run, e)
                  /\ states[g.run][e].status = status
                  /\ states[g.run][e].checksum = content[e]
                  /\ states[g.run][e].graph # Len(graphs)}

\* States of this binding and content, not tried by this graph yet.
Unresolved(g, status, left) ==
  {e \in Events : /\ left > 0 /\ IsAnchor(g.run, e)
                  /\ states[g.run][e].status = status
                  /\ states[g.run][e].checksum = content[e]
                  /\ states[g.run][e].graph # Len(graphs)}

InPhase(g) ==
  CASE g.phase = "missing" -> Missing(g)
    [] g.phase = "incomplete" -> Unresolved(g, "incomplete", g.incompleteLeft)
    [] g.phase = "failed" -> Unresolved(g, "failed", g.failedLeft)

\* selectNextConversion walks in the order of occurrence.
FirstOf(S) == CHOOSE e \in S : \A f \in S : e <= f
Ahead(g) == {e \in InPhase(g) : e > g.cursor}

InNextPhase(g) ==
  [g EXCEPT !.phase = IF g.phase = "missing" THEN "incomplete" ELSE "failed", !.cursor = 0]

\* The graph in the first phase that has a conversion, or in the last one.
AtSelection(g) ==
  LET second == IF Ahead(g) = {} /\ g.phase # "failed" THEN InNextPhase(g) ELSE g
  IN  IF Ahead(second) = {} /\ second.phase # "failed" THEN InNextPhase(second) ELSE second

\* Mutant of LeavesUnresolved: incomplete states are overlooked.
LeavesFailed(g) == \E e \in Events : states[g.run][e].status = "failed"

\* unresolvedStateCount, of the binding the graph ends with
LeavesUnresolved(g) == \E e \in Events : states[g.run][e].status \in {"incomplete", "failed"}

\* A confirmed pair of results, both current.
IsCanonical(r, o) ==
  LET members == MembersOf(r)
      e == SelectedEvent(members, o)
  IN  /\ <<r, o>> \in orderCurrent
      /\ e # NoEvent /\ IsConfirmed(members, e)
      /\ IsAnchor(r, e) /\ SelectedOrder(members, e) = o

\* syncCanonicalClaimCounts
Synced(r) ==
  [o \in Orders |->
     IF IsCanonical(r, o) /\ IsCovered(SelectedEvent(MembersOf(r), o))
     THEN claims[SelectedEvent(MembersOf(r), o)] ELSE counts[r][o]]

\* One selection: rebind a run without anchors, carry the counts, then resume
\* the attempt or choose the next conversion.  The gate is read twice.
Select ==
  /\ GraphRuns /\ batch.step = "ready"
  /\ UNCHANGED matchVars
  /\ UNCHANGED <<states, claims>>
  /\ IF ~YieldsAnchors(Graph.run) /\ ~CanRebind(Graph)
     THEN /\ graphs' = WithGraph(Finished(Graph, "stale"))
          /\ batch' = NoBatch
          /\ UNCHANGED counts
     ELSE \E countGate, gate \in BOOLEAN :
       LET g == IF YieldsAnchors(Graph.run) THEN Graph ELSE Rebound(Graph)
           carries == countGate /\ batch.synced # g.run
           synced == IF carries THEN g.run ELSE batch.synced
           at == AtSelection(g)
       IN  /\ counts' = IF carries THEN [counts EXCEPT ![g.run] = Synced(g.run)] ELSE counts
           /\ \/ /\ g.attempting # NoEvent
                 /\ content[g.attempting] # Gone
                 /\ graphs' = WithGraph(g)
                 /\ batch' = [step |-> "fetching", checksum |-> content[g.attempting],
                              synced |-> synced]
              \/ /\ g.attempting = NoEvent /\ Ahead(at) = {}
                 /\ graphs' = WithGraph(Finished(g, IF LeavesUnresolved(g)
                                                    THEN "partial" ELSE "success"))
                 /\ batch' = [NoBatch EXCEPT !.synced = synced]
              \/ /\ g.attempting = NoEvent /\ Ahead(at) # {} /\ ~gate
                 /\ graphs' = WithGraph(g)
                 /\ batch' = NoBatch
              \/ /\ g.attempting = NoEvent /\ Ahead(at) # {} /\ gate
                 /\ graphs' = WithGraph([at EXCEPT !.attempting = FirstOf(Ahead(at))])
                 /\ batch' = [step |-> "fetching", checksum |-> content[FirstOf(Ahead(at))],
                              synced |-> synced]

-----------------------------------------------------------------------------
\* The fetch, without locks, and its commit.

\* The preflight of a referenced fetch may already rebind.
Preflight ==
  /\ GraphRuns /\ batch.step = "fetching"
  /\ graphs' = WithGraph(Anchored(Graph, Graph.attempting))
  /\ UNCHANGED matchVars
  /\ UNCHANGED <<batch, states, claims, counts>>

Past(g) == [g EXCEPT !.cursor = g.attempting, !.attempting = NoEvent]

\* The conversion is in no run the graph can be bound to: it is passed over.
CommitSkips ==
  LET g == Anchored(Graph, Graph.attempting)
  IN  /\ GraphRuns /\ batch.step = "fetching"
      /\ ~IsAnchor(g.run, g.attempting)
      /\ graphs' = WithGraph(Past(g))
      /\ batch' = [Ready EXCEPT !.synced = batch.synced]
      /\ UNCHANGED matchVars
      /\ UNCHANGED <<states, claims, counts>>

\* The writer gate closed during the fetch: the task ends, the attempt stays.
CommitBlocked ==
  LET g == Anchored(Graph, Graph.attempting)
  IN  /\ GraphRuns /\ batch.step = "fetching"
      /\ IsAnchor(g.run, g.attempting)
      /\ graphs' = WithGraph(g)
      /\ batch' = NoBatch
      /\ UNCHANGED matchVars
      /\ UNCHANGED <<states, claims, counts>>

Tried(g) ==
  [Past(g) EXCEPT
     !.incompleteLeft = IF g.phase = "incomplete" THEN @ - 1 ELSE @,
     !.failedLeft = IF g.phase = "failed" THEN @ - 1 ELSE @]

StateOf(g, status, checksum) ==
  [states EXCEPT ![g.run][g.attempting] =
     [status |-> status, checksum |-> checksum, graph |-> Len(graphs)]]

\* Mutant of CountsAfter: a count once carried is left alone.
CountsFirst(g, e, n) ==
  [counts EXCEPT ![g.run] = [o \in Orders |->
     IF IsCanonical(g.run, o) /\ SelectedEvent(MembersOf(g.run), o) = e /\ @[o] = 0
     THEN n ELSE @[o]]]

\* The order that the conversion confirms is given the new count.
CountsAfter(g, e, n) ==
  [counts EXCEPT ![g.run] = [o \in Orders |->
     IF IsCanonical(g.run, o) /\ SelectedEvent(MembersOf(g.run), o) = e
     THEN n ELSE @[o]]]

\* The fetch returned n claims, or could not be completed.
Commit(n, complete) ==
  LET g == Anchored(Graph, Graph.attempting)
      e == g.attempting
  IN  /\ GraphRuns /\ batch.step = "fetching"
      /\ IsAnchor(g.run, e)
      /\ states' = StateOf(g, IF complete THEN "complete" ELSE "incomplete", batch.checksum)
      /\ claims' = IF complete THEN [claims EXCEPT ![e] = n] ELSE claims
      /\ counts' = IF complete THEN CountsAfter(g, e, n) ELSE counts
      /\ graphs' = WithGraph(Tried(g))
      /\ batch' = [Ready EXCEPT !.synced = batch.synced]
      /\ UNCHANGED matchVars

\* The batch is over and hands on to the next, or its attempt dies and is retried.
NextBatch ==
  /\ GraphRuns /\ batch.step # "none"
  /\ batch' = Ready
  /\ UNCHANGED matchVars
  /\ UNCHANGED <<graphs, states, claims, counts>>

\* The last attempt dies, or a continuation is never triggered.
BatchDies ==
  /\ GraphRuns /\ batch.step # "none"
  /\ batch' = NoBatch
  /\ UNCHANGED matchVars
  /\ UNCHANGED <<graphs, states, claims, counts>>

\* recoverExhaustedClaimBatch, from the hook of the task or from the supervisor.
Recover ==
  /\ GraphRuns
  /\ \/ /\ Graph.attempting = NoEvent
        /\ graphs' = WithGraph(Finished(Graph, "failed"))
        /\ UNCHANGED states
     \/ /\ Graph.attempting # NoEvent /\ IsAnchor(Graph.run, Graph.attempting)
        /\ states' = StateOf(Graph, "failed", content[Graph.attempting])
        /\ graphs' = WithGraph(Finished(Past(Graph), "failed"))
     \/ /\ Graph.attempting # NoEvent /\ content[Graph.attempting] # Gone
        /\ ~IsAnchor(Graph.run, Graph.attempting)
        /\ graphs' = WithGraph(IF YieldsAnchors(Graph.run) THEN Past(Graph)
                               ELSE Finished(Past(Graph), "stale"))
        /\ UNCHANGED states
  /\ batch' = NoBatch
  /\ UNCHANGED matchVars
  /\ UNCHANGED <<claims, counts>>

-----------------------------------------------------------------------------
\* What the matching side does to the rows of the replay: an erasure takes the
\* claims and states of its event along.

MatchStep ==
  /\ \/ \E p \in Pairs : Observe(p) \/ Trigger(p)
     \/ \E f \in queue : Compute(f) \/ ComputeRefused(f)
     \/ Publish \/ Replay \/ PublishRefused \/ PublishFails \/ Crash \/ TaskEnds
  /\ UNCHANGED claimVars

StoreItem(i) ==
  /\ Store(i)
  /\ graphs' = IF GraphRuns /\ i \in Events
               THEN WithGraph([Graph EXCEPT !.edited = @ \cup {i}]) ELSE graphs
  /\ UNCHANGED <<batch, states, claims, counts>>

EraseEvent(e) ==
  /\ Erase(e)
  /\ states' = [r \in RunIds |-> [states[r] EXCEPT ![e] = NoState]]
  /\ claims' = [claims EXCEPT ![e] = 0]
  /\ UNCHANGED <<graphs, batch, counts>>

ClaimNext ==
  \/ MatchStep
  \/ \E i \in Items : StoreItem(i)
  \/ \E e \in Events : EraseEvent(e)
  \/ \E r \in DOMAIN runs : Start(r) \/ StartRebinds(r)
  \/ Select \/ Preflight \/ CommitSkips \/ CommitBlocked
  \/ \E n \in ClaimCounts, complete \in BOOLEAN : Commit(n, complete)
  \/ NextBatch \/ BatchDies \/ Recover

ClaimSpec == ClaimInit /\ [][ClaimNext]_vars

-----------------------------------------------------------------------------
Graphs ==
  [status : {"running", "success", "partial", "failed", "stale"}, run : RunIds,
   phase : {"missing", "incomplete", "failed"}, cursor : 0..NumEvents, attempting : 0..NumEvents,
   incompleteLeft : 0..MaxRetries, failedLeft : 0..MaxRetries,
   rebound : BOOLEAN, edited : SUBSET Events]

States == [status : {"none", "complete", "incomplete", "failed"},
           checksum : {Unknown} \cup Versions, graph : 0..MaxGraphs]

\* Every variable keeps its type, those of the matching included; a graph that
\* is over, or that is not the last, runs no more.
TypeOK ==
  /\ MatchTypeOK
  /\ graphs \in Seq(Graphs) /\ Len(graphs) <= MaxGraphs
  /\ batch \in [step : {"none", "ready", "fetching"}, checksum : {Unknown} \cup Versions,
                synced : 0..MaxRuns]
  /\ states \in [RunIds -> [Events -> States]]
  /\ claims \in [Events -> {0} \cup ClaimCounts]
  /\ counts \in [RunIds -> [Orders -> {0} \cup ClaimCounts]]
  /\ \A g \in DOMAIN graphs : graphs[g].status = "running" => g = Len(graphs)
  /\ batch.step = "fetching" => GraphRuns /\ Graph.attempting # NoEvent

\* The claim count of a current confirmed order is that of the claims stored for
\* its event, or was not carried yet: never the count of an earlier fetch, nor of
\* another event (claim-repository.ts:626-678, 1236-1249).
ClaimCountsAgree ==
  \A r \in DOMAIN runs, o \in Orders :
    IsCanonical(r, o) => counts[r][o] \in {0, claims[SelectedEvent(MembersOf(r), o)]}

\* A graph ends in success only when nothing is left to ask.  If it kept its run,
\* every conversion current there is covered, and the counts of the covered ones
\* are the stored ones, when the gate let the last batch carry them; except those
\* edited on the way.  (One edited back to a content that was covered before is
\* covered again at once, after its counts were carried.)
SuccessIsCovered ==
  [][GraphRuns /\ graphs'[Len(graphs)].status = "success" =>
       LET r == Graph.run
       IN  ~Graph.rebound /\ YieldsAnchors(r) =>
             /\ \A e \in Events : IsAnchor(r, e) => IsCovered(e) \/ e \in Graph.edited
             /\ batch'.synced = r =>
                  \A o \in Orders : LET e == SelectedEvent(MembersOf(r), o)
                                    IN  IsCanonical(r, o) /\ IsCovered(e) /\ e \notin Graph.edited =>
                                          counts'[r][o] = claims[e]]_vars
===============================================================================
