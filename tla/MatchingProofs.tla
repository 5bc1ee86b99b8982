---------------------------- MODULE MatchingProofs ----------------------------
(***************************************************************************)
(* Proofs about Matching, for every set of orders and number of events,    *)
(* every evidence, and every number of runs.  Types, the agreement of the  *)
(* current conclusions and the currentness of runs are inductive together. *)
(***************************************************************************)
EXTENDS Matching, WellFoundedInduction, TLAPS

IInv == MatchTypeOK /\ ConclusionsAgree /\ CurrentnessAgrees

-----------------------------------------------------------------------------
\* The matcher.

LEMMA LeastByRelation ==
  ASSUME NEW T, T \subseteq Nat, NEW R, \A x, y \in Nat : <<y, x>> \in R <=> y < x,
         \E x \in T : \A y \in T : ~(<<y, x>> \in R)
  PROVE  \E x \in T : \A y \in T : x <= y
<1>1. PICK x \in T : \A y \in T : ~(<<y, x>> \in R)
  OBVIOUS
<1>2. \A y \in T : x <= y
  <2> SUFFICES ASSUME NEW y \in T PROVE x <= y
    OBVIOUS
  <2>1. x \in Nat /\ y \in Nat
    OBVIOUS
  <2>2. ~(y < x)
    BY <1>1, <2>1
  <2>. QED BY <2>1, <2>2
<1>. QED BY <1>2

(* Of several candidate events one is the first.                               *)
LEMMA LeastExists ==
  ASSUME NEW T, T \subseteq Nat, T # {}
  PROVE  \E x \in T : \A y \in T : x <= y
<1>1. \A x, y \in Nat : <<y, x>> \in OpToRel(<, Nat) <=> y < x
  BY DEF OpToRel
<1>2. \E x \in T : \A y \in T : ~(<<y, x>> \in OpToRel(<, Nat))
  BY NatLessThanWellFounded, WFMin
<1>. QED BY <1>1, <1>2, LeastByRelation

(* Of several candidate events one has the first row id.                       *)
LEMMA FirstByIdIsIn ==
  ASSUME NEW S \in SUBSET Events, S # {}
  PROVE  FirstById(S) \in S
<1> DEFINE ids == {RowId[e] : e \in S}
<1>1. ids \subseteq Nat /\ ids # {}
  BY MatchingAssumption
<1>2. PICK least \in ids : \A id \in ids : least <= id
  BY <1>1, LeastExists
<1>3. PICK e \in S : RowId[e] = least
  OBVIOUS
<1>4. \A f \in S : RowId[e] <= RowId[f]
  BY <1>2, <1>3
<1>. QED BY <1>4 DEF FirstById

LEMMA OneOfIsIn ==
  ASSUME NEW S, IsSingle(S)
  PROVE  OneOf(S) \in S
  BY DEF OneOf, IsSingle

LEMMA EventsAreNat == Events \subseteq Nat \ {0} /\ NoEvent \notin Events
  BY MatchingAssumption DEF Events, NoEvent

(* What an event selects is an order it was weighed against.                   *)
LEMMA SelectedOrderWeighed ==
  ASSUME NEW members, NEW e, IsConfirmed(members, e) \/ IsCandidate(members, e)
  PROVE  /\ SelectedOrder(members, e) \in members.orders
         /\ links[<<e, SelectedOrder(members, e)>>] # NoEdge
<1>1. CASE IsConfirmed(members, e)
  <2>1. OneOf(DeterministicOrders(members, e)) \in DeterministicOrders(members, e)
    BY <1>1, OneOfIsIn DEF IsConfirmed
  <2>2. ~IsCandidate(members, e)
    BY <1>1 DEF IsCandidate, IsConfirmed, IsSingle
  <2>3. SelectedOrder(members, e) = OneOf(DeterministicOrders(members, e))
    BY <1>1, <2>2 DEF SelectedOrder
  <2>. QED BY <2>1, <2>3 DEF DeterministicOrders, Deterministic, NoEdge
<1>2. CASE ~IsConfirmed(members, e) /\ IsCandidate(members, e)
  <2>1. OneOf(TopOrders(members, e)) \in TopOrders(members, e)
    BY <1>2, OneOfIsIn DEF IsCandidate
  <2>2. SelectedOrder(members, e) = OneOf(TopOrders(members, e))
    BY <1>2 DEF SelectedOrder
  <2>. QED BY <2>1, <2>2 DEF TopOrders, BelowMinimum, Deterministic, NoEdge
<1>. QED BY <1>1, <1>2

(* The event an order selects selects that order.                              *)
LEMMA SelectionIsMutual ==
  ASSUME NEW members \in Memberships, NEW o, SelectedEvent(members, o) # NoEvent
  PROVE  LET e == SelectedEvent(members, o)
         IN  /\ e \in members.events
             /\ SelectedOrder(members, e) = o
             /\ IsConfirmed(members, e) \/ IsCandidate(members, e)
<1> DEFINE confirmed == ConfirmedEvents(members, o)
           candidates == CandidateEvents(members, o)
<1>0. members.events \subseteq Events
  BY DEF Memberships
<1>1. CASE confirmed # {}
  <2>1. IsSingle(confirmed) /\ SelectedEvent(members, o) = OneOf(confirmed)
    BY <1>1 DEF SelectedEvent
  <2>2. SelectedEvent(members, o) \in confirmed
    BY <2>1, OneOfIsIn
  <2>. QED BY <2>2 DEF ConfirmedEvents
<1>2. CASE confirmed = {}
  <2>1. candidates # {}
    BY <1>2 DEF SelectedEvent
  <2>2. candidates \subseteq Events
    BY <1>0 DEF CandidateEvents
  <2>3. SelectedEvent(members, o) = FirstById(candidates)
    BY <1>2, <2>1 DEF SelectedEvent
  <2>4. SelectedEvent(members, o) \in candidates
    BY <2>1, <2>2, <2>3, FirstByIdIsIn
  <2>. QED BY <2>4 DEF CandidateEvents
<1>. QED BY <1>1, <1>2

-----------------------------------------------------------------------------
\* The helpers of a publication.

(* A recount only marks nonempty published runs, those with no result left.    *)
LEMMA RecountedRuns ==
  ASSUME NEW rows \in Seq(Runs), NEW affected, NEW events, NEW orders
  PROVE  LET new == Recounted(rows, affected, events, orders)
         IN  /\ new \in Seq(Runs)
             /\ DOMAIN new = DOMAIN rows /\ Len(new) = Len(rows)
             /\ \A r \in DOMAIN rows :
                  /\ new[r].fingerprint = rows[r].fingerprint
                  /\ new[r].published = rows[r].published
                  /\ new[r].superseded <=>
                       \/ rows[r].superseded
                       \/ /\ r \in affected /\ rows[r].published
                          /\ ~IsEmpty(rows[r].fingerprint.members)
                          /\ \A e \in Events : <<r, e>> \notin events
                          /\ \A o \in Orders : <<r, o>> \notin orders
<1> DEFINE new == Recounted(rows, affected, events, orders)
<1>1. DOMAIN rows = 1..Len(rows) /\ Len(rows) \in Nat /\ \A r \in DOMAIN rows : rows[r] \in Runs
  OBVIOUS
<1>2. DOMAIN new = DOMAIN rows
  BY DEF Recounted
<1>3. ASSUME NEW r \in DOMAIN rows
      PROVE  /\ new[r] \in Runs
             /\ new[r].fingerprint = rows[r].fingerprint
             /\ new[r].published = rows[r].published
             /\ new[r].superseded <=>
                  \/ rows[r].superseded
                  \/ /\ r \in affected /\ rows[r].published
                     /\ ~IsEmpty(rows[r].fingerprint.members)
                     /\ \A e \in Events : <<r, e>> \notin events
                     /\ \A o \in Orders : <<r, o>> \notin orders
  BY <1>1 DEF Recounted, Runs
<1>4. new \in Seq(Runs) /\ Len(new) = Len(rows)
  BY <1>1, <1>2, <1>3 DEF Recounted
<1>. QED BY <1>2, <1>3, <1>4

(* A publication marks the empty ones of its scope.                            *)
LEMMA EmptyRetiredRuns ==
  ASSUME runs \in Seq(Runs), NEW fingerprint
  PROVE  LET new == EmptyRetired(fingerprint)
         IN  /\ new \in Seq(Runs)
             /\ DOMAIN new = DOMAIN runs /\ Len(new) = Len(runs)
             /\ \A r \in DOMAIN runs :
                  /\ new[r].fingerprint = runs[r].fingerprint
                  /\ new[r].published = runs[r].published
                  /\ new[r].superseded <=>
                       \/ runs[r].superseded
                       \/ /\ runs[r].published /\ IsEmpty(MembersOf(r))
                          /\ Scope[runs[r].fingerprint.pair] = Scope[fingerprint.pair]
<1> DEFINE new == EmptyRetired(fingerprint)
<1>1. DOMAIN runs = 1..Len(runs) /\ Len(runs) \in Nat /\ \A r \in DOMAIN runs : runs[r] \in Runs
  OBVIOUS
<1>2. DOMAIN new = DOMAIN runs
  BY DEF EmptyRetired
<1>3. ASSUME NEW r \in DOMAIN runs
      PROVE  /\ new[r] \in Runs
             /\ new[r].fingerprint = runs[r].fingerprint
             /\ new[r].published = runs[r].published
             /\ new[r].superseded <=>
                  \/ runs[r].superseded
                  \/ /\ runs[r].published /\ IsEmpty(MembersOf(r))
                     /\ Scope[runs[r].fingerprint.pair] = Scope[fingerprint.pair]
  BY <1>1 DEF EmptyRetired, Runs
<1>4. new \in Seq(Runs) /\ Len(new) = Len(runs)
  BY <1>1, <1>2, <1>3 DEF EmptyRetired
<1>. QED BY <1>2, <1>3, <1>4

LEMMA ProjectionType == \A p \in Pairs : Projection(p) \in Memberships /\ FingerprintOf(p) \in Fingerprints
  BY DEF Projection, Memberships, FingerprintOf, Fingerprints

(* The evidence is fixed, so the selections are.                               *)
LEMMA SelectionStays ==
  ASSUME links' = links
  PROVE  /\ \A members, e : SelectedOrder(members, e)' = SelectedOrder(members, e)
         /\ \A members, o : SelectedEvent(members, o)' = SelectedEvent(members, o)
         /\ \A members : Candidates(members)' = Candidates(members)
<1>1. \A members, e : DeterministicOrders(members, e)' = DeterministicOrders(members, e)
  BY DEF DeterministicOrders
<1>2. \A members, e : TopOrders(members, e)' = TopOrders(members, e)
  BY DEF TopOrders
<1>3. \A members, e : IsConfirmed(members, e)' <=> IsConfirmed(members, e)
  BY <1>1 DEF IsConfirmed
<1>4. \A members, e : IsCandidate(members, e)' <=> IsCandidate(members, e)
  BY <1>1, <1>2 DEF IsCandidate
<1>5. \A members, e : SelectedOrder(members, e)' = SelectedOrder(members, e)
  BY <1>1, <1>2, <1>3, <1>4 DEF SelectedOrder
<1>6. \A members, o : ConfirmedEvents(members, o)' = ConfirmedEvents(members, o)
  BY <1>3, <1>5 DEF ConfirmedEvents
<1>7. \A members, o : CandidateEvents(members, o)' = CandidateEvents(members, o)
  BY <1>4, <1>5 DEF CandidateEvents
<1>8. \A members, o : SelectedEvent(members, o)' = SelectedEvent(members, o)
  BY <1>6, <1>7 DEF SelectedEvent
<1>9. \A members : Candidates(members)' = Candidates(members)
  BY DEF Candidates
<1>. QED BY <1>5, <1>8, <1>9

-----------------------------------------------------------------------------
\* What the three actions that write runs do to them.

(* A run keeps what it was about.                                              *)
RunsKept ==
  /\ DOMAIN runs \subseteq DOMAIN runs'
  /\ \A r \in DOMAIN runs : /\ runs'[r].fingerprint = runs[r].fingerprint
                            /\ runs'[r].published = runs[r].published

LEMMA RunsAreTyped ==
  ASSUME MatchTypeOK
  PROVE  /\ DOMAIN runs = 1..Len(runs) /\ Len(runs) \in Nat
         /\ Len(runs) + 1 \notin DOMAIN runs
         /\ \A r \in DOMAIN runs : runs[r] \in Runs /\ MembersOf(r) \in Memberships
<1>1. runs \in Seq(Runs)
  BY DEF MatchTypeOK
<1>2. /\ DOMAIN runs = 1..Len(runs) /\ Len(runs) \in Nat
      /\ \A r \in DOMAIN runs : runs[r] \in Runs
  BY <1>1
<1>3. \A r \in DOMAIN runs : MembersOf(r) \in Memberships
  BY <1>2 DEF Runs, Fingerprints, MembersOf
<1>. QED BY <1>2, <1>3

LEMMA PublishRuns ==
  ASSUME MatchTypeOK, Publish
  PROVE  LET new == Len(runs) + 1
             fingerprint == worker.fingerprint
             affected == RunsOf(RetiredEvents(fingerprint.members))
                           \cup RunsOf(RetiredOrders(fingerprint.members))
         IN  /\ runs' \in Seq(Runs) /\ Len(runs') = new /\ new <= MaxRuns
             /\ DOMAIN runs' = DOMAIN runs \cup {new}
             /\ fingerprint \in Fingerprints
             /\ runs'[new] = [fingerprint |-> fingerprint, published |-> TRUE, superseded |-> FALSE]
             /\ RunsKept
             /\ \A r \in DOMAIN runs :
                  runs'[r].superseded <=>
                    \/ runs[r].superseded
                    \/ /\ runs[r].published /\ IsEmpty(MembersOf(r))
                       /\ Scope[runs[r].fingerprint.pair] = Scope[fingerprint.pair]
                    \/ /\ r \in affected /\ runs[r].published
                       /\ ~IsEmpty(MembersOf(r))
                       /\ \A e \in Events : <<r, e>> \notin eventCurrent'
                       /\ \A o \in Orders : <<r, o>> \notin orderCurrent'
<1> DEFINE new == Len(runs) + 1
           fingerprint == worker.fingerprint
           affected == RunsOf(RetiredEvents(fingerprint.members))
                         \cup RunsOf(RetiredOrders(fingerprint.members))
           emptied == EmptyRetired(fingerprint)
           recounted == Recounted(emptied, affected, eventCurrent', orderCurrent')
           row == [fingerprint |-> fingerprint, published |-> TRUE, superseded |-> FALSE]
<1>1. fingerprint \in Fingerprints /\ runs \in Seq(Runs)
  BY DEF MatchTypeOK, Publish, Publishing
<1>2. row \in Runs
  BY <1>1 DEF Runs
<1>3. runs' = Append(recounted, row) /\ new <= MaxRuns
  BY DEF Publish
<1>4. /\ emptied \in Seq(Runs)
      /\ DOMAIN emptied = DOMAIN runs /\ Len(emptied) = Len(runs)
      /\ \A r \in DOMAIN runs :
           /\ emptied[r].fingerprint = runs[r].fingerprint
           /\ emptied[r].published = runs[r].published
           /\ emptied[r].superseded <=>
                \/ runs[r].superseded
                \/ /\ runs[r].published /\ IsEmpty(MembersOf(r))
                   /\ Scope[runs[r].fingerprint.pair] = Scope[fingerprint.pair]
  BY <1>1, EmptyRetiredRuns
<1>5. /\ recounted \in Seq(Runs)
      /\ DOMAIN recounted = DOMAIN emptied /\ Len(recounted) = Len(emptied)
      /\ \A r \in DOMAIN emptied :
           /\ recounted[r].fingerprint = emptied[r].fingerprint
           /\ recounted[r].published = emptied[r].published
           /\ recounted[r].superseded <=>
                \/ emptied[r].superseded
                \/ /\ r \in affected /\ emptied[r].published
                   /\ ~IsEmpty(emptied[r].fingerprint.members)
                   /\ \A e \in Events : <<r, e>> \notin eventCurrent'
                   /\ \A o \in Orders : <<r, o>> \notin orderCurrent'
  BY <1>4, RecountedRuns
<1> HIDE DEF recounted, emptied, row, affected
<1>6. /\ runs' \in Seq(Runs) /\ Len(runs') = new
      /\ DOMAIN runs' = DOMAIN runs \cup {new} /\ runs'[new] = row
      /\ \A r \in DOMAIN runs : runs'[r] = recounted[r]
  BY <1>1, <1>2, <1>3, <1>4, <1>5
<1>7. RunsKept
  BY <1>4, <1>5, <1>6 DEF RunsKept
<1>. QED BY <1>1, <1>3, <1>4, <1>5, <1>6, <1>7 DEF MembersOf, row, affected

LEMMA EraseRuns ==
  ASSUME MatchTypeOK, NEW e0, Erase(e0)
  PROVE  LET affected == RunsOf({result \in eventCurrent : result[2] = e0})
                           \cup RunsOf({result \in orderCurrent : Incident(e0, result)})
         IN  /\ runs' \in Seq(Runs) /\ Len(runs') = Len(runs) /\ DOMAIN runs' = DOMAIN runs
             /\ RunsKept
             /\ \A r \in DOMAIN runs :
                  runs'[r].superseded <=>
                    \/ runs[r].superseded
                    \/ /\ r \in affected /\ runs[r].published
                       /\ ~IsEmpty(MembersOf(r))
                       /\ \A e \in Events : <<r, e>> \notin eventCurrent'
                       /\ \A o \in Orders : <<r, o>> \notin orderCurrent'
<1> DEFINE affected == RunsOf({result \in eventCurrent : result[2] = e0})
                         \cup RunsOf({result \in orderCurrent : Incident(e0, result)})
           recounted == Recounted(runs, affected, eventCurrent', orderCurrent')
<1>1. runs \in Seq(Runs)
  BY DEF MatchTypeOK
<1>2. runs' = recounted
  BY DEF Erase
<1> HIDE DEF affected
<1>3. /\ recounted \in Seq(Runs)
      /\ DOMAIN recounted = DOMAIN runs /\ Len(recounted) = Len(runs)
      /\ \A r \in DOMAIN runs :
           /\ recounted[r].fingerprint = runs[r].fingerprint
           /\ recounted[r].published = runs[r].published
           /\ recounted[r].superseded <=>
                \/ runs[r].superseded
                \/ /\ r \in affected /\ runs[r].published
                   /\ ~IsEmpty(runs[r].fingerprint.members)
                   /\ \A e \in Events : <<r, e>> \notin eventCurrent'
                   /\ \A o \in Orders : <<r, o>> \notin orderCurrent'
  BY <1>1, RecountedRuns
<1> HIDE DEF recounted
<1>4. RunsKept
  BY <1>2, <1>3 DEF RunsKept
<1>. QED BY <1>2, <1>3, <1>4 DEF MembersOf, affected

LEMMA FailureRuns ==
  ASSUME MatchTypeOK, PublishFails
  PROVE  /\ runs' \in Seq(Runs) /\ Len(runs') = Len(runs) + 1 /\ Len(runs') <= MaxRuns
         /\ DOMAIN runs' = DOMAIN runs \cup {Len(runs) + 1}
         /\ RunsKept
         /\ ~runs'[Len(runs) + 1].published
         /\ \A r \in DOMAIN runs : runs'[r] = runs[r]
<1>1. worker.fingerprint \in Fingerprints /\ runs \in Seq(Runs)
  BY DEF MatchTypeOK, PublishFails, Publishing
<1>2. [fingerprint |-> worker.fingerprint, published |-> FALSE, superseded |-> FALSE] \in Runs
  BY <1>1 DEF Runs
<1> DEFINE row == [fingerprint |-> worker.fingerprint, published |-> FALSE, superseded |-> FALSE]
<1>3. runs' = Append(runs, row) /\ Len(runs) < MaxRuns /\ Len(runs) \in Nat
  BY <1>1 DEF PublishFails
<1>4. row \in Runs /\ ~row.published
  BY <1>2
<1> HIDE DEF row
<1>5. /\ runs' \in Seq(Runs) /\ Len(runs') = Len(runs) + 1
      /\ DOMAIN runs' = DOMAIN runs \cup {Len(runs) + 1}
      /\ runs'[Len(runs) + 1] = row
      /\ \A r \in DOMAIN runs : runs'[r] = runs[r]
  BY <1>1, <1>3, <1>4
<1>6. RunsKept
  BY <1>5 DEF RunsKept
<1>7. Len(runs') <= MaxRuns
  BY <1>3, <1>5, MatchingAssumption
<1>. QED BY <1>4, <1>5, <1>6, <1>7

-----------------------------------------------------------------------------
\* Types.

LEMMA ObserveTyped ==
  ASSUME MatchTypeOK, NEW p \in Pairs, Observe(p)
  PROVE  observed' \in [Pairs -> [ended : BOOLEAN, items : SUBSET (Items \X Versions)]]
<1>0. PICK missed \in SUBSET OrdersIn[p] :
        observed' = [observed EXCEPT ![p] =
          [ended |-> TRUE,
           items |-> {<<i, content[i]>> : i \in {j \in EventsIn[p] \cup (OrdersIn[p] \ missed) :
                                                   content[j] \in Versions}}]]
  BY DEF Observe
<1> DEFINE seen == {<<i, content[i]>> : i \in {j \in EventsIn[p] \cup (OrdersIn[p] \ missed) :
                                                content[j] \in Versions}}
<1>1. EventsIn[p] \subseteq Events /\ OrdersIn[p] \subseteq Orders
  BY MatchingAssumption DEF Pairs, NumPairs
<1>2. seen \subseteq Items \X Versions
  BY <1>1 DEF Items
<1>3. observed' = [observed EXCEPT ![p] = [ended |-> TRUE, items |-> seen]]
  BY <1>0
<1> HIDE DEF seen
<1>. QED BY <1>2, <1>3 DEF MatchTypeOK

LEMMA QueueTyped ==
  ASSUME MatchTypeOK, NEW f \in Fingerprints, AttemptEnds(f)
  PROVE  queue' \subseteq Fingerprints
  BY DEF MatchTypeOK, AttemptEnds

LEMMA PublishTyped ==
  ASSUME MatchTypeOK, Publish
  PROVE  MatchTypeOK'
<1> DEFINE fingerprint == worker.fingerprint
           members == fingerprint.members
           new == Len(runs) + 1
<1>1. /\ runs' \in Seq(Runs) /\ Len(runs') <= MaxRuns
      /\ DOMAIN runs' = DOMAIN runs \cup {new}
      /\ fingerprint \in Fingerprints
  BY PublishRuns
<1>2. /\ eventCurrent' \subseteq eventCurrent \cup {<<new, e>> : e \in members.events}
      /\ orderCurrent' \subseteq orderCurrent \cup {<<new, o>> : o \in members.orders}
  BY DEF Publish
<1>3. members.events \subseteq Events /\ members.orders \subseteq Orders
  BY <1>1 DEF Fingerprints, Memberships
<1>4. /\ eventCurrent' \subseteq (DOMAIN runs') \X Events
      /\ orderCurrent' \subseteq (DOMAIN runs') \X Orders
  BY <1>1, <1>2, <1>3 DEF MatchTypeOK
<1>5. worker' \in [fingerprint : Fingerprints, done : BOOLEAN] \cup {Idle}
  BY DEF MatchTypeOK, Publish, Publishing
<1>6. UNCHANGED <<links, content, observed, queue>>
  BY DEF Publish
<1>. QED BY <1>1, <1>4, <1>5, <1>6 DEF MatchTypeOK

LEMMA EraseTyped ==
  ASSUME MatchTypeOK, NEW e0 \in Events, Erase(e0)
  PROVE  MatchTypeOK'
<1>1. runs' \in Seq(Runs) /\ Len(runs') = Len(runs) /\ DOMAIN runs' = DOMAIN runs
  BY EraseRuns
<1>2. eventCurrent' \subseteq eventCurrent /\ orderCurrent' \subseteq orderCurrent
  BY DEF Erase
<1>3. content' \in [Items -> {Unknown, Gone} \cup Versions]
  BY DEF MatchTypeOK, Erase, Items
<1>4. UNCHANGED <<links, observed, queue, worker>>
  BY DEF Erase
<1>. QED BY <1>1, <1>2, <1>3, <1>4 DEF MatchTypeOK

LEMMA StoreTyped ==
  ASSUME MatchTypeOK, NEW i \in Items, Store(i)
  PROVE  /\ MatchTypeOK'
         /\ \A j \in Items : content'[j] = Gone => content[j] = Gone
<1>1. content' = [content EXCEPT ![i] = IF content[i] = 1 THEN 2 ELSE 1] /\ content[i] # Gone
  BY MatchingAssumption DEF Store, Versions, Unknown, Gone
<1>2. /\ content' \in [Items -> {Unknown, Gone} \cup Versions]
      /\ \A j \in Items : content'[j] = Gone => content[j] = Gone
  BY <1>1 DEF MatchTypeOK, Versions, Unknown, Gone
<1>. QED BY <1>2 DEF MatchTypeOK, Store

LEMMA NextTyped ==
  ASSUME MatchTypeOK, [Next]_matchVars
  PROVE  MatchTypeOK'
<1>1. ASSUME NEW p \in Pairs, Observe(p) PROVE MatchTypeOK'
  <2>1. observed' \in [Pairs -> [ended : BOOLEAN, items : SUBSET (Items \X Versions)]]
    BY <1>1, ObserveTyped
  <2>2. UNCHANGED <<links, content, queue, worker, runs, eventCurrent, orderCurrent>>
    BY <1>1 DEF Observe
  <2>. QED BY <2>1, <2>2 DEF MatchTypeOK
<1>2. ASSUME NEW p \in Pairs, Trigger(p) PROVE MatchTypeOK'
  <2>1. queue' \subseteq Fingerprints
    BY <1>2, ProjectionType DEF Trigger, MatchTypeOK
  <2>. QED BY <1>2, <2>1 DEF Trigger, MatchTypeOK
<1>3. ASSUME NEW i \in Items, Store(i) PROVE MatchTypeOK'
  BY <1>3, StoreTyped
<1>4. ASSUME NEW f \in queue, Compute(f) PROVE MatchTypeOK'
  <2>1. worker' \in [fingerprint : Fingerprints, done : BOOLEAN] /\ queue' \subseteq queue
    BY <1>4 DEF Compute, MatchTypeOK
  <2>. QED BY <1>4, <2>1 DEF Compute, MatchTypeOK
<1>5. ASSUME NEW f \in queue, ComputeRefused(f) PROVE MatchTypeOK'
  <2>1. queue' \subseteq Fingerprints
    BY <1>5, QueueTyped DEF ComputeRefused, MatchTypeOK
  <2>. QED BY <1>5, <2>1 DEF ComputeRefused, MatchTypeOK
<1>6. CASE Publish
  BY <1>6, PublishTyped
<1>7. CASE Replay
  <2>1. worker' \in [fingerprint : Fingerprints, done : BOOLEAN] \cup {Idle}
    BY <1>7 DEF Replay, Publishing, MatchTypeOK
  <2>. QED BY <1>7, <2>1 DEF Replay, MatchTypeOK
<1>8. CASE PublishRefused
  <2>1. queue' \subseteq Fingerprints
    BY <1>8, QueueTyped DEF PublishRefused, Publishing, MatchTypeOK
  <2>. QED BY <1>8, <2>1 DEF PublishRefused, MatchTypeOK
<1>9. CASE PublishFails
  <2>1. queue' \subseteq Fingerprints
    BY <1>9, QueueTyped DEF PublishFails, Publishing, MatchTypeOK
  <2>2. /\ runs' \in Seq(Runs) /\ Len(runs') <= MaxRuns
        /\ DOMAIN runs \subseteq DOMAIN runs'
    BY <1>9, FailureRuns
  <2>3. UNCHANGED <<links, content, observed, eventCurrent, orderCurrent>> /\ worker' = Idle
    BY <1>9 DEF PublishFails
  <2>4. /\ eventCurrent' \subseteq (DOMAIN runs') \X Events
        /\ orderCurrent' \subseteq (DOMAIN runs') \X Orders
    BY <2>2, <2>3 DEF MatchTypeOK
  <2>. QED BY <2>1, <2>2, <2>3, <2>4 DEF MatchTypeOK
<1>10. CASE Crash
  <2>1. queue' \subseteq Fingerprints
    BY <1>10, QueueTyped DEF Crash, MatchTypeOK
  <2>. QED BY <1>10, <2>1 DEF Crash, MatchTypeOK
<1>11. CASE TaskEnds
  BY <1>11 DEF TaskEnds, MatchTypeOK
<1>12. ASSUME NEW e \in Events, Erase(e) PROVE MatchTypeOK'
  BY <1>12, EraseTyped
<1>13. CASE UNCHANGED matchVars
  BY <1>13 DEF matchVars, MatchTypeOK
<1>. QED BY <1>1, <1>2, <1>3, <1>4, <1>5, <1>6, <1>7, <1>8, <1>9, <1>10, <1>11, <1>12, <1>13 DEF Next

-----------------------------------------------------------------------------
\* The conclusions.

LEMMA MembersKept ==
  ASSUME RunsKept
  PROVE  \A r \in DOMAIN runs : MembersOf(r)' = MembersOf(r)
  BY DEF RunsKept, MembersOf

(* Steps that retire no result, draw none and erase nothing.                   *)
LEMMA ConclusionsKept ==
  ASSUME MatchTypeOK, ConclusionsAgree, RunsKept,
         UNCHANGED <<links, eventCurrent, orderCurrent>>,
         \A i \in Items : content'[i] = Gone => content[i] = Gone
  PROVE  ConclusionsAgree'
<1>0. /\ \A result \in eventCurrent : result[1] \in DOMAIN runs /\ result[2] \in Events
      /\ \A result \in orderCurrent : result[1] \in DOMAIN runs /\ result[2] \in Orders
  BY DEF MatchTypeOK
<1>1. OneConclusion'
  <2>1. \A result \in eventCurrent' \cup orderCurrent' : runs'[result[1]].published
    BY <1>0 DEF ConclusionsAgree, OneConclusion, RunsKept
  <2>2. /\ \A r, s, e : <<r, e>> \in eventCurrent /\ <<s, e>> \in eventCurrent => r = s
        /\ \A r, s, o : <<r, o>> \in orderCurrent /\ <<s, o>> \in orderCurrent => r = s
    BY <1>0 DEF ConclusionsAgree, OneConclusion
  <2>. QED BY <2>1, <2>2 DEF OneConclusion
<1>2. BothEndsAgree'
  BY <1>0, MembersKept, SelectionStays DEF ConclusionsAgree, BothEndsAgree
<1>3. NothingFromErased'
  <2>1. ASSUME NEW result \in eventCurrent' PROVE content'[result[2]] # Gone
    BY <2>1, <1>0 DEF ConclusionsAgree, NothingFromErased, Items
  <2>2. ASSUME NEW result \in orderCurrent', NEW e \in Events,
               <<e, result[2]>> \in Candidates(MembersOf(result[1]))'
        PROVE  content'[e] # Gone
    BY <2>2, <1>0, MembersKept, SelectionStays DEF ConclusionsAgree, NothingFromErased, Items
  <2>. QED BY <2>1, <2>2 DEF NothingFromErased
<1>. QED BY <1>1, <1>2, <1>3 DEF ConclusionsAgree

(* A publication takes over its items, with both ends of every selected edge.  *)
LEMMA PublishConcludes ==
  ASSUME MatchTypeOK, ConclusionsAgree, Publish
  PROVE  ConclusionsAgree'
<1> SUFFICES ASSUME NEW new, new = Len(runs) + 1,
                    NEW fingerprint, fingerprint = worker.fingerprint,
                    NEW members, members = fingerprint.members
             PROVE  ConclusionsAgree'
  OBVIOUS
<1>1. /\ DOMAIN runs' = DOMAIN runs \cup {new} /\ new \notin DOMAIN runs
      /\ RunsKept
      /\ runs'[new].published /\ runs'[new].fingerprint = fingerprint
      /\ fingerprint \in Fingerprints
  BY PublishRuns, RunsAreTyped
<1>2. /\ eventCurrent' = (eventCurrent \ RetiredEvents(members))
                            \cup {<<new, e>> : e \in members.events}
      /\ orderCurrent' = (orderCurrent \ RetiredOrders(members))
                            \cup {<<new, o>> : o \in members.orders}
      /\ UNCHANGED <<links, content>>
  BY DEF Publish
<1>3. /\ members \in Memberships
      /\ members.events \subseteq Events /\ members.orders \subseteq Orders
  BY <1>1 DEF Fingerprints, Memberships
<1>4. \A e \in members.events : content[e] # Gone
  <2>1. fingerprint = FingerprintOf(fingerprint.pair)
    BY DEF Publish, Stands
  <2>2. members = Projection(fingerprint.pair)
    BY <2>1 DEF FingerprintOf
  <2>. QED BY <2>2 DEF Projection
<1>5. /\ \A result \in eventCurrent : result[1] \in DOMAIN runs /\ result[2] \in Events
                                       /\ result = <<result[1], result[2]>>
      /\ \A result \in orderCurrent : result[1] \in DOMAIN runs /\ result[2] \in Orders
                                       /\ result = <<result[1], result[2]>>
  BY DEF MatchTypeOK
<1>6. MembersOf(new)' = members /\ \A r \in DOMAIN runs : MembersOf(r)' = MembersOf(r)
  <2>1. runs'[new].fingerprint.members = members
    BY <1>1
  <2>. QED BY <1>1, <2>1, MembersKept DEF MembersOf
<1>7. /\ \A mem, e : SelectedOrder(mem, e)' = SelectedOrder(mem, e)
      /\ \A mem, o : SelectedEvent(mem, o)' = SelectedEvent(mem, o)
      /\ \A mem : Candidates(mem)' = Candidates(mem)
  BY <1>2, SelectionStays
<1>8. /\ \A r, e : <<r, e>> \in eventCurrent' <=>
           \/ <<r, e>> \in eventCurrent /\ e \notin members.events
              /\ SelectedOrder(MembersOf(r), e) \notin members.orders
           \/ r = new /\ e \in members.events
      /\ \A r, o : <<r, o>> \in orderCurrent' <=>
           \/ <<r, o>> \in orderCurrent /\ o \notin members.orders
              /\ SelectedEvent(MembersOf(r), o) \notin members.events
           \/ r = new /\ o \in members.orders
  BY <1>2 DEF RetiredEvents, RetiredOrders
<1>9. /\ \A result \in eventCurrent' : result = <<result[1], result[2]>>
                                       /\ result[1] \in DOMAIN runs' /\ result[2] \in Events
      /\ \A result \in orderCurrent' : result = <<result[1], result[2]>>
                                       /\ result[1] \in DOMAIN runs' /\ result[2] \in Orders
  BY <1>1, <1>2, <1>3, <1>5
<1>10. OneConclusion'
  <2>1. \A r, s, e : <<r, e>> \in eventCurrent' /\ <<s, e>> \in eventCurrent' => r = s
    BY <1>5, <1>8 DEF ConclusionsAgree, OneConclusion
  <2>2. \A r, s, o : <<r, o>> \in orderCurrent' /\ <<s, o>> \in orderCurrent' => r = s
    BY <1>5, <1>8 DEF ConclusionsAgree, OneConclusion
  <2>3. ASSUME NEW result \in eventCurrent' \cup orderCurrent' PROVE runs'[result[1]].published
    BY <2>3, <1>1, <1>2, <1>5 DEF ConclusionsAgree, OneConclusion, RunsKept
  <2>. QED BY <2>1, <2>2, <2>3 DEF OneConclusion
<1>11. BothEndsAgree'
  <2> SUFFICES ASSUME NEW r, NEW o, <<r, o>> \in orderCurrent',
                      SelectedEvent(MembersOf(r)', o) # NoEvent
               PROVE  LET e == SelectedEvent(MembersOf(r)', o)
                      IN  /\ <<r, e>> \in eventCurrent'
                          /\ SelectedOrder(MembersOf(r)', e) = o
    BY <1>7, <1>9 DEF BothEndsAgree
  <2>1. CASE r = new /\ o \in members.orders
    BY <2>1, <1>3, <1>6, <1>8, SelectionIsMutual
  <2>2. CASE <<r, o>> \in orderCurrent /\ o \notin members.orders
             /\ SelectedEvent(MembersOf(r), o) \notin members.events
    <3>1. r \in DOMAIN runs /\ MembersOf(r)' = MembersOf(r)
      BY <2>2, <1>5, <1>6
    <3>2. /\ <<r, SelectedEvent(MembersOf(r), o)>> \in eventCurrent
          /\ SelectedOrder(MembersOf(r), SelectedEvent(MembersOf(r), o)) = o
      BY <2>2, <3>1 DEF ConclusionsAgree, BothEndsAgree
    <3>. QED BY <2>2, <3>1, <3>2, <1>8
  <2>. QED BY <2>1, <2>2, <1>8
<1>12. NothingFromErased'
  <2>1. ASSUME NEW result \in eventCurrent' PROVE content'[result[2]] # Gone
    BY <2>1, <1>2, <1>4, <1>8, <1>9 DEF ConclusionsAgree, NothingFromErased
  <2>2. ASSUME NEW result \in orderCurrent', NEW e \in Events,
               <<e, result[2]>> \in Candidates(MembersOf(result[1]))'
        PROVE  content'[e] # Gone
    <3> DEFINE r == result[1]
               o == result[2]
    <3>1. <<r, o>> \in orderCurrent'
      BY <1>9
    <3>2. <<e, o>> \in Candidates(MembersOf(r)')
      BY <2>2, <1>7
    <3>3. CASE r = new
      <4>1. e \in members.events
        BY <3>2, <3>3, <1>6 DEF Candidates
      <4>. QED BY <4>1, <1>2, <1>4
    <3>4. CASE <<r, o>> \in orderCurrent
      BY <3>2, <3>4, <1>2, <1>5, <1>6 DEF ConclusionsAgree, NothingFromErased
    <3>. QED BY <3>1, <3>3, <3>4, <1>8
  <2>. QED BY <2>1, <2>2 DEF NothingFromErased
<1>. QED BY <1>10, <1>11, <1>12 DEF ConclusionsAgree

(* An erasure takes along every conclusion that rests on its event.            *)
LEMMA EraseConcludes ==
  ASSUME MatchTypeOK, ConclusionsAgree, NEW e0 \in Events, Erase(e0)
  PROVE  ConclusionsAgree'
<1>1. DOMAIN runs' = DOMAIN runs /\ RunsKept
  BY EraseRuns
<1>2. /\ eventCurrent' = {result \in eventCurrent : result[2] # e0}
      /\ orderCurrent' = {result \in orderCurrent : ~Incident(e0, result)}
      /\ content' = [content EXCEPT ![e0] = Gone]
      /\ links' = links
  BY DEF Erase
<1>3. /\ \A result \in eventCurrent : result[1] \in DOMAIN runs /\ result[2] \in Events
                                       /\ result = <<result[1], result[2]>>
      /\ \A result \in orderCurrent : result[1] \in DOMAIN runs /\ result[2] \in Orders
                                       /\ result = <<result[1], result[2]>>
  BY DEF MatchTypeOK
<1>4. \A r \in DOMAIN runs : MembersOf(r)' = MembersOf(r)
  BY <1>1, MembersKept
<1>5. /\ \A mem, e : SelectedOrder(mem, e)' = SelectedOrder(mem, e)
      /\ \A mem, o : SelectedEvent(mem, o)' = SelectedEvent(mem, o)
      /\ \A mem : Candidates(mem)' = Candidates(mem)
  BY <1>2, SelectionStays
<1>6. \A result \in orderCurrent' :
        /\ SelectedEvent(MembersOf(result[1]), result[2]) # e0
        /\ <<e0, result[2]>> \notin Candidates(MembersOf(result[1]))
  BY <1>2, <1>3 DEF Incident, ConclusionsAgree, OneConclusion
<1>7. \A e \in Events : content[e] # Gone /\ e # e0 => content'[e] # Gone
  BY <1>2 DEF MatchTypeOK, Items
<1>8. OneConclusion'
  <2>1. \A r, s, e : <<r, e>> \in eventCurrent' /\ <<s, e>> \in eventCurrent' => r = s
    BY <1>2, <1>3 DEF ConclusionsAgree, OneConclusion
  <2>2. \A r, s, o : <<r, o>> \in orderCurrent' /\ <<s, o>> \in orderCurrent' => r = s
    BY <1>2, <1>3 DEF ConclusionsAgree, OneConclusion
  <2>3. \A result \in eventCurrent' \cup orderCurrent' : runs'[result[1]].published
    BY <1>1, <1>2, <1>3 DEF ConclusionsAgree, OneConclusion, RunsKept
  <2>. QED BY <2>1, <2>2, <2>3 DEF OneConclusion
<1>9. BothEndsAgree'
  <2> SUFFICES ASSUME NEW result \in orderCurrent',
                      SelectedEvent(MembersOf(result[1]), result[2]) # NoEvent
               PROVE  LET e == SelectedEvent(MembersOf(result[1]), result[2])
                      IN  /\ <<result[1], e>> \in eventCurrent'
                          /\ SelectedOrder(MembersOf(result[1]), e) = result[2]
    BY <1>2, <1>3, <1>4, <1>5 DEF BothEndsAgree
  <2>. QED BY <1>2, <1>6 DEF ConclusionsAgree, BothEndsAgree
<1>10. NothingFromErased'
  <2>1. \A result \in eventCurrent' : content'[result[2]] # Gone
    BY <1>2, <1>3, <1>7 DEF ConclusionsAgree, NothingFromErased
  <2>2. ASSUME NEW result \in orderCurrent', NEW e \in Events,
               <<e, result[2]>> \in Candidates(MembersOf(result[1]))'
        PROVE  content'[e] # Gone
    <3>1. <<e, result[2]>> \in Candidates(MembersOf(result[1]))
      BY <2>2, <1>2, <1>3, <1>4, <1>5
    <3>. QED BY <3>1, <1>2, <1>6, <1>7 DEF ConclusionsAgree, NothingFromErased
  <2>. QED BY <2>1, <2>2 DEF NothingFromErased
<1>. QED BY <1>8, <1>9, <1>10 DEF ConclusionsAgree

-----------------------------------------------------------------------------
\* The currentness of runs.

(* Steps that neither retire results nor publish.                              *)
LEMMA CurrentnessKept ==
  ASSUME MatchTypeOK, CurrentnessAgrees, UNCHANGED <<runs, eventCurrent, orderCurrent>>
  PROVE  CurrentnessAgrees'
  BY DEF CurrentnessAgrees, MembersOf, IsEmpty

(* A run that loses results is recounted.                                      *)
LEMMA PublishCounts ==
  ASSUME MatchTypeOK, CurrentnessAgrees, Publish
  PROVE  CurrentnessAgrees'
<1> SUFFICES ASSUME NEW new, new = Len(runs) + 1,
                    NEW fingerprint, fingerprint = worker.fingerprint,
                    NEW members, members = fingerprint.members,
                    NEW affected, affected = RunsOf(RetiredEvents(members))
                                               \cup RunsOf(RetiredOrders(members))
             PROVE  CurrentnessAgrees'
  OBVIOUS
<1>1. /\ DOMAIN runs' = DOMAIN runs \cup {new} /\ new \notin DOMAIN runs
      /\ RunsKept
      /\ runs'[new].published /\ runs'[new].fingerprint = fingerprint
      /\ ~runs'[new].superseded
      /\ fingerprint \in Fingerprints
      /\ \A r \in DOMAIN runs : r \in Nat /\ new > r
  BY PublishRuns, RunsAreTyped
<1>2. \A r \in DOMAIN runs :
        runs'[r].superseded <=>
          \/ runs[r].superseded
          \/ /\ runs[r].published /\ IsEmpty(MembersOf(r))
             /\ Scope[runs[r].fingerprint.pair] = Scope[fingerprint.pair]
          \/ /\ r \in affected /\ runs[r].published
             /\ ~IsEmpty(MembersOf(r))
             /\ \A e \in Events : <<r, e>> \notin eventCurrent'
             /\ \A o \in Orders : <<r, o>> \notin orderCurrent'
  BY PublishRuns
<1>3. /\ eventCurrent' = (eventCurrent \ RetiredEvents(members))
                            \cup {<<new, e>> : e \in members.events}
      /\ orderCurrent' = (orderCurrent \ RetiredOrders(members))
                            \cup {<<new, o>> : o \in members.orders}
  BY DEF Publish
<1>4. members.events \subseteq Events /\ members.orders \subseteq Orders
  BY <1>1 DEF Fingerprints, Memberships
<1>5. MembersOf(new)' = members /\ \A r \in DOMAIN runs : MembersOf(r)' = MembersOf(r)
  <2>1. runs'[new].fingerprint.members = members
    BY <1>1
  <2>. QED BY <1>1, <2>1, MembersKept DEF MembersOf
<1>6. ASSUME NEW r \in DOMAIN runs
      PROVE  /\ \A e : <<r, e>> \in eventCurrent' => <<r, e>> \in eventCurrent
             /\ \A o : <<r, o>> \in orderCurrent' => <<r, o>> \in orderCurrent
             /\ \A e : <<r, e>> \in eventCurrent /\ <<r, e>> \notin eventCurrent' => r \in affected
             /\ \A o : <<r, o>> \in orderCurrent /\ <<r, o>> \notin orderCurrent' => r \in affected
  BY <1>1, <1>3 DEF RunsOf
<1>7. ASSUME IsEmpty(members)
      PROVE  ~\E s \in DOMAIN runs' : s > new
  BY <1>1
<1>8. ASSUME ~IsEmpty(members)
      PROVE  \/ \E e \in Events : <<new, e>> \in eventCurrent'
             \/ \E o \in Orders : <<new, o>> \in orderCurrent'
  BY <1>3, <1>4, <1>8 DEF IsEmpty
<1>9. ASSUME NEW r \in DOMAIN runs, runs[r].published, IsEmpty(MembersOf(r))
      PROVE  runs'[r].superseded <=>
               \E s \in DOMAIN runs' : /\ s > r /\ runs'[s].published
                                       /\ Scope[runs'[s].fingerprint.pair] = Scope[runs'[r].fingerprint.pair]
  <2>1. runs[r].superseded <=>
          \E s \in DOMAIN runs : /\ s > r /\ runs[s].published
                                 /\ Scope[runs[s].fingerprint.pair] = Scope[runs[r].fingerprint.pair]
    BY <1>9 DEF CurrentnessAgrees
  <2>2. runs'[r].superseded <=>
          runs[r].superseded \/ Scope[runs[r].fingerprint.pair] = Scope[fingerprint.pair]
    BY <1>2, <1>9
  <2>. QED BY <1>1, <2>1, <2>2 DEF RunsKept
<1>10. ASSUME NEW r \in DOMAIN runs, runs[r].published, ~IsEmpty(MembersOf(r))
       PROVE  runs'[r].superseded <=>
                /\ \A e \in Events : <<r, e>> \notin eventCurrent'
                /\ \A o \in Orders : <<r, o>> \notin orderCurrent'
  BY <1>2, <1>6, <1>10 DEF CurrentnessAgrees
<1>11. ASSUME NEW r \in DOMAIN runs', runs'[r].published
       PROVE  IF IsEmpty(MembersOf(r)')
              THEN runs'[r].superseded <=>
                     \E s \in DOMAIN runs' : /\ s > r /\ runs'[s].published
                                             /\ Scope[runs'[s].fingerprint.pair] = Scope[runs'[r].fingerprint.pair]
              ELSE runs'[r].superseded <=> /\ \A e \in Events : <<r, e>> \notin eventCurrent'
                                           /\ \A o \in Orders : <<r, o>> \notin orderCurrent'
  <2>1. CASE r = new
    BY <2>1, <1>1, <1>5, <1>7, <1>8
  <2>2. CASE r \in DOMAIN runs
    <3>1. runs[r].published
      BY <2>2, <1>1, <1>11 DEF RunsKept
    <3>. QED BY <2>2, <3>1, <1>5, <1>9, <1>10
  <2>. QED BY <2>1, <2>2, <1>1, <1>11
<1>. QED BY <1>11 DEF CurrentnessAgrees, IsEmpty

LEMMA EraseCounts ==
  ASSUME MatchTypeOK, CurrentnessAgrees, NEW e0 \in Events, Erase(e0)
  PROVE  CurrentnessAgrees'
<1> SUFFICES ASSUME NEW affected,
                    affected = RunsOf({result \in eventCurrent : result[2] = e0})
                                 \cup RunsOf({result \in orderCurrent : Incident(e0, result)})
             PROVE  CurrentnessAgrees'
  OBVIOUS
<1>1. /\ DOMAIN runs' = DOMAIN runs /\ RunsKept
      /\ \A r \in DOMAIN runs :
           runs'[r].superseded <=>
             \/ runs[r].superseded
             \/ /\ r \in affected /\ runs[r].published
                /\ ~IsEmpty(MembersOf(r))
                /\ \A e \in Events : <<r, e>> \notin eventCurrent'
                /\ \A o \in Orders : <<r, o>> \notin orderCurrent'
  BY EraseRuns
<1>2. /\ eventCurrent' = eventCurrent \ {result \in eventCurrent : result[2] = e0}
      /\ orderCurrent' = orderCurrent \ {result \in orderCurrent : Incident(e0, result)}
  BY DEF Erase
<1>3. \A r \in DOMAIN runs : MembersOf(r)' = MembersOf(r)
  BY <1>1, MembersKept
<1>4. ASSUME NEW r \in DOMAIN runs
      PROVE  /\ \A e : <<r, e>> \in eventCurrent' => <<r, e>> \in eventCurrent
             /\ \A o : <<r, o>> \in orderCurrent' => <<r, o>> \in orderCurrent
             /\ \A e : <<r, e>> \in eventCurrent /\ <<r, e>> \notin eventCurrent' => r \in affected
             /\ \A o : <<r, o>> \in orderCurrent /\ <<r, o>> \notin orderCurrent' => r \in affected
  BY <1>2 DEF RunsOf
<1>5. ASSUME NEW r \in DOMAIN runs, runs[r].published, IsEmpty(MembersOf(r))
      PROVE  runs'[r].superseded <=>
               \E s \in DOMAIN runs' : /\ s > r /\ runs'[s].published
                                       /\ Scope[runs'[s].fingerprint.pair] = Scope[runs'[r].fingerprint.pair]
  <2>1. runs'[r].superseded <=> runs[r].superseded
    BY <1>1, <1>5
  <2>. QED BY <1>1, <1>5, <2>1 DEF CurrentnessAgrees, RunsKept
<1>6. ASSUME NEW r \in DOMAIN runs, runs[r].published, ~IsEmpty(MembersOf(r))
      PROVE  runs'[r].superseded <=>
               /\ \A e \in Events : <<r, e>> \notin eventCurrent'
               /\ \A o \in Orders : <<r, o>> \notin orderCurrent'
  BY <1>1, <1>4, <1>6 DEF CurrentnessAgrees
<1>7. \A r \in DOMAIN runs : runs'[r].published => runs[r].published
  BY <1>1 DEF RunsKept
<1>. QED BY <1>1, <1>3, <1>5, <1>6, <1>7 DEF CurrentnessAgrees, IsEmpty

(* A failed attempt is on record and supersedes nothing.                       *)
LEMMA FailureCounts ==
  ASSUME MatchTypeOK, CurrentnessAgrees, PublishFails
  PROVE  CurrentnessAgrees'
<1>1. /\ DOMAIN runs' = DOMAIN runs \cup {Len(runs) + 1} /\ RunsKept
      /\ ~runs'[Len(runs) + 1].published
      /\ \A r \in DOMAIN runs : runs'[r] = runs[r]
  BY FailureRuns
<1>2. UNCHANGED <<eventCurrent, orderCurrent>>
  BY DEF PublishFails
<1>3. \A r \in DOMAIN runs : MembersOf(r)' = MembersOf(r)
  BY <1>1, MembersKept
<1>4. \A r \in DOMAIN runs' : runs'[r].published => r \in DOMAIN runs
  BY <1>1
<1>. QED BY <1>1, <1>2, <1>3, <1>4 DEF CurrentnessAgrees, IsEmpty

-----------------------------------------------------------------------------
\* The invariant.

LEMMA InitIInv == Init => IInv
<1> SUFFICES ASSUME Init PROVE IInv
  OBVIOUS
<1>1. MatchTypeOK
  <2>1. links \in [Events \X Orders -> Edges] /\ content \in [Items -> {Unknown, 1}]
    BY MatchingAssumption DEF Init
  <2>2. 1 \in Versions
    BY DEF Versions
  <2>3. content \in [Items -> {Unknown, Gone} \cup Versions]
    BY <2>1, <2>2
  <2>4. observed \in [Pairs -> [ended : BOOLEAN, items : SUBSET (Items \X Versions)]]
    BY DEF Init, NotYet
  <2>5. runs \in Seq(Runs) /\ Len(runs) <= MaxRuns
    BY MatchingAssumption DEF Init
  <2>. QED BY <2>1, <2>3, <2>4, <2>5 DEF Init, MatchTypeOK
<1>2. ConclusionsAgree
  BY DEF Init, ConclusionsAgree, OneConclusion, BothEndsAgree, NothingFromErased
<1>3. CurrentnessAgrees
  <2>1. DOMAIN runs = {}
    BY DEF Init
  <2>. QED BY <2>1 DEF CurrentnessAgrees
<1>. QED BY <1>1, <1>2, <1>3 DEF IInv

LEMMA NextIInv == IInv /\ [Next]_matchVars => IInv'
<1> SUFFICES ASSUME IInv, [Next]_matchVars PROVE IInv'
  OBVIOUS
<1>1. MatchTypeOK /\ ConclusionsAgree /\ CurrentnessAgrees
  BY DEF IInv
<1>2. MatchTypeOK'
  BY <1>1, NextTyped
<1>3. CASE Publish
  BY <1>1, <1>2, <1>3, PublishConcludes, PublishCounts DEF IInv
<1>4. ASSUME NEW e \in Events, Erase(e) PROVE IInv'
  BY <1>1, <1>2, <1>4, EraseConcludes, EraseCounts DEF IInv
<1>5. CASE PublishFails
  <2>1. RunsKept /\ UNCHANGED <<links, content, eventCurrent, orderCurrent>>
    BY <1>1, <1>5, FailureRuns DEF PublishFails
  <2>2. ConclusionsAgree'
    BY <1>1, <2>1, ConclusionsKept
  <2>. QED BY <1>1, <1>2, <1>5, <2>2, FailureCounts DEF IInv
<1>6. ASSUME NEW i \in Items, Store(i) PROVE IInv'
  <2>1. UNCHANGED <<links, runs, eventCurrent, orderCurrent>>
    BY <1>6 DEF Store
  <2>2. \A j \in Items : content'[j] = Gone => content[j] = Gone
    BY <1>1, <1>6, StoreTyped
  <2>3. ConclusionsAgree'
    BY <1>1, <2>1, <2>2, ConclusionsKept DEF RunsKept
  <2>. QED BY <1>1, <1>2, <2>1, <2>3, CurrentnessKept DEF IInv
<1>7. CASE UNCHANGED <<links, content, runs, eventCurrent, orderCurrent>>
  <2>1. ConclusionsAgree'
    BY <1>1, <1>7, ConclusionsKept DEF RunsKept
  <2>. QED BY <1>1, <1>2, <1>7, <2>1, CurrentnessKept DEF IInv
<1>8. ASSUME NEW p \in Pairs, Observe(p) \/ Trigger(p) PROVE IInv'
  BY <1>7, <1>8 DEF Observe, Trigger
<1>9. ASSUME NEW f \in queue, Compute(f) \/ ComputeRefused(f) PROVE IInv'
  BY <1>7, <1>9 DEF Compute, ComputeRefused
<1>10. CASE Replay \/ PublishRefused \/ Crash \/ TaskEnds
  BY <1>7, <1>10 DEF Replay, PublishRefused, Crash, TaskEnds
<1>11. CASE UNCHANGED matchVars
  BY <1>7, <1>11 DEF matchVars
<1>. QED BY <1>3, <1>4, <1>5, <1>6, <1>8, <1>9, <1>10, <1>11 DEF Next

LEMMA MatchingIInv == Spec => []IInv
  BY InitIInv, NextIInv, PTL DEF Spec

(* Types, of everything the queue, the task and the publications keep.         *)
THEOREM MatchingTypes == Spec => []MatchTypeOK
<1>1. IInv => MatchTypeOK
  BY DEF IInv
<1>. QED BY <1>1, MatchingIInv, PTL

(* The current conclusions about events and orders agree with each other and   *)
(* rest on nothing erased, whatever publications, edits and erasures come      *)
(* between (match-repository.ts publishMatchRun, privacy-match-closure.ts).    *)
THEOREM MatchingConclusionsAgree == Spec => []ConclusionsAgree
<1>1. IInv => ConclusionsAgree
  BY DEF IInv
<1>. QED BY <1>1, MatchingIInv, PTL

(* A publication is superseded exactly when nothing of it is current: the      *)
(* recounts of match-currentness.ts, over the runs that lost something, miss   *)
(* none.                                                                       *)
THEOREM MatchingCurrentnessAgrees == Spec => []CurrentnessAgrees
<1>1. IInv => CurrentnessAgrees
  BY DEF IInv
<1>. QED BY <1>1, MatchingIInv, PTL

=============================================================================
