-------------------------- MODULE IdentityRotation --------------------------
(***************************************************************************)
(* The identity digests of a store and the rotation of the key they are    *)
(* computed with.  Klaviyo events and Shopify orders carry one HMAC digest *)
(* of their customer's email per key version; a match is two equal digests *)
(* of the current version.  A rotation makes the write gate of the         *)
(* connection and the crypto policy of the store dual, recomputes every    *)
(* retained digest, and after a match publication prunes the old version.  *)
(* Erasures, event pages, order evidence and matching run meanwhile.       *)
(*                                                                         *)
(* Every transaction holds the store's lock, then the connection's: an     *)
(* action is a transaction.  What workers did before it, without the lock, *)
(* is an action of its own.                                                *)
(***************************************************************************)
EXTENDS Naturals

CONSTANTS
  Events, Orders,        \* sources of digests: klaviyo_event, shopify_order
  Subjects,              \* customers, each with one email
  Versions,              \* labels of matching keys; a label has one secret
  MaxRotations,          \* bound: rows of klaviyo_identity_rotation_run
  MaxMatches,            \* bound: rows of klaviyo_match_run
  NoVersion

ASSUME IdentityRotationAssumption ==
  /\ Events \intersect Orders = {}
  /\ MaxRotations \in Nat /\ MaxMatches \in Nat
  /\ NoVersion \notin Versions

VARIABLES
  owner,      \* the customer of each source, fixed
  env,        \* the key pair that is deployed
  gate,       \* klaviyo_connection.identity_*: dual if previous is set
  policy,     \* identity_crypto_policy.matching_*
  stored,     \* rows of klaviyo_event; orders are stored from the start
  digests,    \* source_identity_hmac: versions of the rows of a source
  erased,     \* identity_erasure_suppression: customers with a tombstone
  sync,       \* the keys the batch of a running event run parsed
  evidence,   \* the one key version an order evidence batch runs with
  rotation,   \* klaviyo_identity_rotation_run
  member,     \* klaviyo_identity_rotation_source.status, by rotation
  task,       \* the rotation task, reading or with a fetched email in hand
  label,      \* the key version a match run was published under
  current     \* published match runs with a current result

vars == <<owner, env, gate, policy, stored, digests, erased, sync,
          evidence, rotation, member, task, label, current>>

keys     == <<gate, policy>>
sources  == <<stored, digests, erased>>
workers  == <<sync, evidence, task>>
rotating == <<rotation, member>>
matching == <<label, current>>

Sources   == Events \union Orders
Rotations == 1..MaxRotations
Matches   == 1..MaxMatches

\* A pair of key versions, as deployed, on the gate, in the policy.
Pair == [current : Versions \union {NoVersion}, previous : Versions \union {NoVersion}]

Only(v) == [current |-> v, previous |-> NoVersion]

\* The versions a pair authorizes.
In(pair) == {pair.current, pair.previous} \ {NoVersion}

IsDual(pair) == pair.previous # NoVersion

\* Pairs a process can parse from its environment.
Keyrings == {k \in Pair : k.current # NoVersion /\ k.current # k.previous}

Unset == Only(NoVersion)

Rotation == [state  : {"none", "dual_write", "complete", "aborted"},
             pair   : Pair,
             before : SUBSET Matches]  \* match runs created before startedAt

MemberStatus == {"none", "pending", "complete", "unavailable", "suppressed"}

\* The rotation task: its rotation, its keys, members still to fetch, and the
\* email, or null, that it holds for one of them.
Task == [rotation : Rotations \union {0},
         keyring  : Keyrings \union {Unset},
         batch    : SUBSET Sources,
         fetched  : {"nothing", "email", "null"},
         source   : Sources \union {NoVersion}]

IdleTask == [rotation |-> 0, keyring |-> Unset, batch |-> {},
             fetched |-> "nothing", source |-> NoVersion]

NoRotation == [state |-> "none", pair |-> Unset, before |-> {}]

Init ==
  /\ owner \in [Sources -> Subjects]
  /\ env \in {Only(v) : v \in Versions}
  /\ gate = Unset /\ policy = Unset
  /\ stored = Orders
  /\ digests = [s \in Sources |-> {}]
  /\ erased = {}
  /\ sync = Unset
  /\ evidence = NoVersion
  /\ rotation = [r \in Rotations |-> NoRotation]
  /\ member = [r \in Rotations |-> [s \in Sources |-> "none"]]
  /\ task = IdleTask
  /\ label = [m \in Matches |-> NoVersion]
  /\ current = {}

IsErased(s) == owner[s] \in erased

\* Sources with a digest of some version.
Retained == {s \in Sources : digests[s] # {}}

-----------------------------------------------------------------------------
(* The environment *)

\* The operator deploys a new key beside the one in force to rotate, and
\* cuts back to the one in force after the rotation; while it lives the
\* environment stays.  Processes that run keep the keys they parsed.
Deploy(k) ==
  /\ gate.current # NoVersion /\ ~IsDual(gate)
  /\ k # env
  /\ \/ k = Only(gate.current)
     \/ k.previous = gate.current
  /\ env' = k
  /\ UNCHANGED <<owner, keys, sources, workers, rotating, matching>>

-----------------------------------------------------------------------------
(* Event runs *)

\* Starting a run bootstraps the gate, and the policy unless order evidence
\* made it; with a gate it asks that gate, policy and environment agree.
GateAgrees ==
  \/ gate.current # NoVersion
     /\ gate = Only(env.current) /\ policy.current = env.current
  \/ gate.current = NoVersion /\ policy.current # NoVersion
     /\ policy = Only(env.current)
     /\ \A s \in Sources : digests[s] \subseteq {env.current}
  \/ gate.current = NoVersion /\ policy.current = NoVersion
     /\ Retained = {}

StartSync ==
  /\ sync = Unset
  /\ GateAgrees
  /\ sync' = env
  /\ gate' = IF gate.current = NoVersion THEN Only(env.current) ELSE gate
  /\ policy' = IF policy.current = NoVersion THEN Only(env.current) ELSE policy
  /\ UNCHANGED <<owner, env, sources, evidence, task, rotating, matching>>

\* Each batch parses the environment of its process again.
NextBatch ==
  /\ sync # Unset
  /\ sync' = env
  /\ UNCHANGED <<owner, env, keys, sources, evidence, task, rotating, matching>>

\* The run ends, and a page its batch still fetches is refused.
EndSync ==
  /\ sync # Unset
  /\ sync' = Unset
  /\ UNCHANGED <<owner, env, keys, sources, evidence, task, rotating, matching>>

\* The events go with their digests, rotations lose them from their members.
MembersWithout(gone) ==
  [r \in Rotations |-> [s \in Sources |->
     IF s \in gone /\ member[r][s] # "none" THEN "suppressed" ELSE member[r][s]]]

\* Match runs that lose their last current result are superseded; which do,
\* depends on results that are not modelled.
Supersede == \E lost \in SUBSET current : current' = current \ lost

\* MUTANT of Authorized: a gate without a previous version lists null.
AuthorizedWithNull(keyring) == {gate.current, gate.previous} \intersect {keyring.current, keyring.previous}

\* Only digests of versions the gate authorizes are written.
Authorized(keyring) == In(gate) \intersect In(keyring)

CommitPage(e) ==
  /\ sync # Unset
  /\ gate.current # NoVersion
  /\ policy.current = gate.current
  /\ IsDual(gate) => policy.previous = gate.previous
  /\ ~IsErased(e)
  /\ stored' = stored \union {e}
  /\ digests' = [digests EXCEPT ![e] = @ \union Authorized(sync)]
  /\ UNCHANGED <<owner, env, keys, erased, workers, rotating, matching>>

\* An event of an erased customer is dropped, with what was stored of it.
SuppressPage(e) ==
  /\ sync # Unset
  /\ gate.current # NoVersion
  /\ policy.current = gate.current
  /\ IsDual(gate) => policy.previous = gate.previous
  /\ IsErased(e) /\ e \in stored
  /\ stored' = stored \ {e}
  /\ digests' = [digests EXCEPT ![e] = {}]
  /\ member' = MembersWithout({e})
  /\ Supersede
  /\ UNCHANGED <<owner, env, keys, erased, workers, rotation, label>>

-----------------------------------------------------------------------------
(* Order evidence *)

\* A batch runs with one key and makes the policy of a store without one; a
\* dual policy or another key refuses it.
StartEvidence ==
  /\ evidence = NoVersion
  /\ ~IsDual(env)
  /\ policy \in {Unset, env}
  /\ policy' = env
  /\ evidence' = env.current
  /\ UNCHANGED <<owner, env, gate, sources, sync, task, rotating, matching>>

\* MUTANT of EvidencePolicy: the batch's first check is trusted at commit.
EvidencePolicyChecked == TRUE

\* Checked again with every order.
EvidencePolicy == policy = Only(evidence)

\* The order's digest follows its email; an erased customer's are cleared.
CommitOrder(o, email) ==
  /\ evidence # NoVersion
  /\ EvidencePolicy
  /\ digests' = [digests EXCEPT ![o] =
                   IF email /\ IsErased(o) THEN {}
                   ELSE IF email THEN @ \union {evidence}
                   ELSE @ \ {evidence}]
  /\ UNCHANGED <<owner, env, keys, stored, erased, workers, rotating, matching>>

EndEvidence ==
  /\ evidence # NoVersion
  /\ evidence' = NoVersion
  /\ UNCHANGED <<owner, env, keys, sources, sync, task, rotating, matching>>

-----------------------------------------------------------------------------
(* Rotations *)

IsLive(r) == rotation[r].state = "dual_write"

IsNextRotation(r) ==
  /\ rotation[r].state = "none"
  /\ \A q \in Rotations : q < r => rotation[q].state # "none"

\* With a live rotation of the same pair this returns it and changes nothing.
PrepareRotation(r) ==
  /\ IsNextRotation(r)
  /\ \A q \in Rotations : ~IsLive(q)
  /\ IsDual(env)
  /\ gate = Only(env.previous)
  /\ policy.current = env.previous
  /\ rotation' = [rotation EXCEPT ![r] =
       [state |-> "dual_write", pair |-> env,
        before |-> {m \in Matches : label[m] # NoVersion}]]
  /\ member' = [member EXCEPT ![r] =
       [s \in Sources |-> IF env.previous \in digests[s] THEN "pending" ELSE "none"]]
  /\ gate' = env
  /\ policy' = env
  /\ UNCHANGED <<owner, env, sources, workers, matching>>

Pending(r) == {s \in Sources : member[r][s] = "pending"}

\* The task parses its keys, then reads some pending members without a lock.
\* Its rotation is an id in the payload, whatever became of it.
StartTask(r, batch) ==
  /\ task = IdleTask
  /\ batch \subseteq Pending(r) /\ batch # {}
  /\ task' = [IdleTask EXCEPT !.rotation = r, !.keyring = env, !.batch = batch]
  /\ UNCHANGED <<owner, env, keys, sources, sync, evidence, rotating, matching>>

\* After a batch the task reads the next one.
NextMembers(batch) ==
  /\ task.rotation # 0 /\ task.batch = {} /\ task.fetched = "nothing"
  /\ batch \subseteq Pending(task.rotation) /\ batch # {}
  /\ task' = [task EXCEPT !.batch = batch]
  /\ UNCHANGED <<owner, env, keys, sources, sync, evidence, rotating, matching>>

\* The provider tells the email of a source, or null.
FetchEmail(s, fetched) ==
  /\ task.fetched = "nothing" /\ s \in task.batch
  /\ s \in stored \/ fetched = "null"
  /\ task' = [task EXCEPT !.batch = @ \ {s}, !.fetched = fetched, !.source = s]
  /\ UNCHANGED <<owner, env, keys, sources, sync, evidence, rotating, matching>>

WithMember(s, status) == [member EXCEPT ![task.rotation] = [@ EXCEPT ![s] = status]]

Fetched == [task EXCEPT !.fetched = "nothing", !.source = NoVersion]

\* The gate must be dual; that it is this task's pair is not asked.
MayCommit == IsDual(gate)

CommitUnavailable(s) ==
  /\ task.fetched = "null" /\ task.source = s
  /\ MayCommit
  /\ member' = IF member[task.rotation][s] = "pending"
               THEN WithMember(s, "unavailable") ELSE member
  /\ task' = Fetched
  /\ UNCHANGED <<owner, env, keys, sources, sync, evidence, rotation, matching>>

\* MUTANT of Suppresses: the tombstones are not looked up.
SuppressesNothing == FALSE

\* The store's tombstones are not narrowed to the customer of the source.
Suppresses == erased # {}

CommitSuppressed(s) ==
  /\ task.fetched = "email" /\ task.source = s
  /\ MayCommit
  /\ Suppresses
  /\ member' = WithMember(s, "suppressed")
  /\ task' = Fetched
  /\ UNCHANGED <<owner, env, keys, sources, sync, evidence, rotation, matching>>

\* The task's keys are written, whatever the gate's are.
CommitDigests(s) ==
  /\ task.fetched = "email" /\ task.source = s
  /\ MayCommit
  /\ ~Suppresses
  /\ s \in stored
  /\ digests' = [digests EXCEPT ![s] = @ \union In(task.keyring)]
  /\ member' = WithMember(s, "complete")
  /\ task' = Fetched
  /\ UNCHANGED <<owner, env, keys, stored, erased, sync, evidence, rotation, matching>>

\* The task ends, times out or throws.
EndTask ==
  /\ task.rotation # 0
  /\ task' = IdleTask
  /\ UNCHANGED <<owner, env, keys, sources, sync, evidence, rotating, matching>>

-----------------------------------------------------------------------------
(* The end of a rotation *)

\* Every member is resolved; a suppressed one has its tombstone.
MembersResolved(r) ==
  \A s \in Sources : member[r][s] \in {"none", "complete", "suppressed"}

\* MUTANT of Covered: the members are taken for all the sources.
MembersCovered(have, need) == TRUE

\* Every digest of one version has one of the other beside it.
Covered(have, need) == \A s \in Sources : have \in digests[s] => need \in digests[s]

\* Any published run that is current is accepted; one without results, which no
\* prune supersedes and which is accepted too, holds nothing under any key.
Bound(m) == m \in current

\* MUTANT of Without: the digests of the other version go.
WithoutOthers(v) == [s \in Sources |-> digests[s] \intersect {v}]

Without(v) == [s \in Sources |-> digests[s] \ {v}]

PruneRotation(r, m) ==
  LET pair == rotation[r].pair IN
  /\ IsLive(r)
  /\ gate = pair /\ policy = pair
  /\ MembersResolved(r)
  /\ Covered(pair.previous, pair.current)
  /\ Bound(m)
  /\ rotation' = [rotation EXCEPT ![r] = [@ EXCEPT !.state = "complete"]]
  /\ gate' = Only(pair.current)
  /\ policy' = [policy EXCEPT !.previous = NoVersion]
  /\ digests' = Without(pair.previous)
  /\ current' = {m}
  /\ UNCHANGED <<owner, env, stored, erased, workers, member, label>>

\* MUTANT of RestoredPolicy: only the previous label is dropped.
PolicyWithoutPrevious(pair) == [policy EXCEPT !.previous = NoVersion]

RestoredPolicy(pair) == Only(pair.previous)

AbortRotation(r) ==
  LET pair == rotation[r].pair IN
  /\ IsLive(r)
  /\ \A m \in Matches : label[m] # NoVersion => m \in rotation[r].before
  /\ Covered(pair.current, pair.previous)
  /\ rotation' = [rotation EXCEPT ![r] = [@ EXCEPT !.state = "aborted"]]
  /\ gate' = Only(pair.previous)
  /\ policy' = RestoredPolicy(pair)
  /\ digests' = Without(pair.current)
  /\ UNCHANGED <<owner, env, stored, erased, workers, member, matching>>

-----------------------------------------------------------------------------
(* Matching and erasure *)

\* A match run is published under the gate's current version, from digests
\* of that version; older runs lose results of the entities it covers.
PublishMatch(m) ==
  /\ label[m] = NoVersion /\ \A n \in Matches : n < m => label[n] # NoVersion
  /\ gate.current # NoVersion
  /\ label' = [label EXCEPT ![m] = gate.current]
  /\ \E lost \in SUBSET current : current' = (current \ lost) \union {m}
  /\ UNCHANGED <<owner, env, keys, sources, workers, rotating>>

\* The erasure asks that its keys are the policy's and cover every version.
EraseSubject(c) ==
  /\ policy.current # NoVersion /\ env = policy
  /\ \A s \in Sources : digests[s] \subseteq In(env)
  /\ erased' = erased \union {c}
  /\ LET mine == {s \in Retained : owner[s] = c}
         gone == IF mine \intersect Events = {} THEN {}
                 ELSE {e \in Events \intersect stored : owner[e] = c}
     IN /\ stored' = stored \ gone
        /\ digests' = [s \in Sources |-> IF owner[s] = c THEN {} ELSE digests[s]]
        /\ member' = MembersWithout(gone)
  /\ Supersede
  /\ UNCHANGED <<owner, env, keys, workers, rotation, label>>

Next ==
  \/ \E k \in Keyrings : Deploy(k)
  \/ StartSync \/ NextBatch \/ EndSync
  \/ \E e \in Events : CommitPage(e) \/ SuppressPage(e)
  \/ StartEvidence \/ EndEvidence
  \/ \E o \in Orders, email \in BOOLEAN : CommitOrder(o, email)
  \/ \E r \in Rotations : PrepareRotation(r) \/ AbortRotation(r)
  \/ \E r \in Rotations, batch \in SUBSET Sources : StartTask(r, batch)
  \/ \E batch \in SUBSET Sources : NextMembers(batch)
  \/ \E s \in Sources, f \in {"email", "null"} : FetchEmail(s, f)
  \/ \E s \in Sources : CommitUnavailable(s) \/ CommitSuppressed(s) \/ CommitDigests(s)
  \/ EndTask
  \/ \E r \in Rotations, m \in Matches : PruneRotation(r, m)
  \/ \E m \in Matches : PublishMatch(m)
  \/ \E c \in Subjects : EraseSubject(c)

Spec == Init /\ [][Next]_vars

-----------------------------------------------------------------------------
(* Properties *)

TypeOK ==
  /\ owner \in [Sources -> Subjects]
  /\ env \in Keyrings
  /\ gate \in Pair /\ policy \in Pair
  /\ stored \subseteq Sources /\ Orders \subseteq stored
  /\ digests \in [Sources -> SUBSET Versions]
  /\ erased \subseteq Subjects
  /\ sync \in Keyrings \union {Unset}
  /\ evidence \in Versions \union {NoVersion}
  /\ rotation \in [Rotations -> Rotation]
  /\ member \in [Rotations -> [Sources -> MemberStatus]]
  /\ task \in Task
  /\ label \in [Matches -> Versions \union {NoVersion}]
  /\ current \subseteq Matches

\* Gate and policy never part: dual exactly while one rotation is live, and
\* then with its pair.  They are written by four transactions in two tables,
\* and a difference would stop every writer.
GateFollowsRotation ==
  /\ gate.current # NoVersion => policy = gate
  /\ \A r \in Rotations : IsLive(r) => gate = rotation[r].pair
  /\ IsDual(gate) => \E r \in Rotations : IsLive(r)

\* No digest of an erased customer comes back, from a page, from evidence
\* or from a member whose email was fetched before the erasure.
ErasedStayErased == \A s \in Sources : IsErased(s) => digests[s] = {}

\* A live rotation can be rolled back: every member keeps its previous
\* digest until the prune, unless its customer is erased.
RollbackIsSafe ==
  \A r \in Rotations, s \in Sources :
    IsLive(r) /\ member[r][s] # "none" /\ ~IsErased(s)
      => rotation[r].pair.previous \in digests[s]

IsMatchable(pair, versions) == In(pair) \intersect versions # {}

KeepsSources ==
  gate' # gate =>
    \A s \in Sources : IsMatchable(gate, digests[s]) => IsMatchable(gate', digests'[s])

\* Preparing, pruning and rolling back lose nobody: a source that could be
\* matched under the old keys can be matched under the new.
CutoversKeepSources == [][KeepsSources]_vars

\* What the rotation says of suppressions: a member is suppressed because
\* its customer was erased.
SuppressedWereErased ==
  \A r \in Rotations, s \in Sources : member[r][s] = "suppressed" => IsErased(s)

\* What the rotation says of its commits: they are made under the pair of
\* the rotation, so no digest has a version outside gate and policy.
DigestsAreAuthorized ==
  gate.current # NoVersion => \A s \in Sources : digests[s] \subseteq In(gate)

\* What the prune says of results: those of the previous key are superseded.
ResultsUseKeysInForce == \A m \in current : label[m] \in In(gate)

\* What matching and privacy see of the keys: the ring is the gate, a source
\* is matchable by its digests, and forgotten by its customer's tombstone.
Matchable == {s \in Sources : IsMatchable(gate, digests[s])}

Forgotten == {s \in Sources : IsErased(s)}

Ring == INSTANCE KeyRing WITH ring <- gate, matchable <- Matchable, forgotten <- Forgotten

\* Bootstrap, dual writing, evidence, tasks, prune, roll back and erasure
\* together keep the promise of KeyRing.
ImplementsKeyRing == Ring!Spec
=============================================================================
