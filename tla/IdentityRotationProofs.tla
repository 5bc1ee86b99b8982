----------------------- MODULE IdentityRotationProofs -----------------------
(***************************************************************************)
(* Theorems about IdentityRotation, for every number of events, orders,    *)
(* customers, key versions, rotations and match runs.  All of them rest on *)
(* one inductive invariant, IInv.                                          *)
(***************************************************************************)
EXTENDS IdentityRotation, TLAPS

\* Before the gate is set neither it nor the policy is dual.
UnsetIsNotDual == gate.current = NoVersion => ~IsDual(gate) /\ ~IsDual(policy)

\* A live rotation has two different keys.
LiveIsDual == \A r \in Rotations : IsLive(r) => rotation[r].pair \in Keyrings /\ IsDual(rotation[r].pair)

OneLiveRotation == \A q, r \in Rotations : IsLive(q) /\ IsLive(r) => q = r

\* Only a rotation that was prepared has members.
MembersArePrepared ==
  \A r \in Rotations, s \in Sources : member[r][s] # "none" => rotation[r].state # "none"

\* What the task holds are members of its rotation.
TaskHoldsMembers ==
  /\ task.batch # {} => task.rotation \in Rotations
  /\ \A s \in task.batch : member[task.rotation][s] # "none"
  /\ task.fetched # "nothing" =>
       /\ task.rotation \in Rotations /\ task.source \in Sources
       /\ member[task.rotation][task.source] # "none"

IInv ==
  /\ TypeOK
  /\ UnsetIsNotDual /\ LiveIsDual /\ OneLiveRotation
  /\ MembersArePrepared /\ TaskHoldsMembers
  /\ GateFollowsRotation /\ ErasedStayErased /\ RollbackIsSafe

-----------------------------------------------------------------------------
(* Lemmas about the operators *)

USE DEF keys, sources, workers, rotating, matching

\* A pair of key versions and what it authorizes.
LEMMA PairFacts ==
  /\ Unset \in Pair /\ Keyrings \subseteq Pair
  /\ \A v \in Versions \union {NoVersion} :
       Only(v) \in Pair /\ Only(v).current = v /\ Only(v).previous = NoVersion /\ ~IsDual(Only(v))
  /\ \A v \in Versions : Only(v) \in Keyrings /\ In(Only(v)) = {v}
  /\ \A p \in Pair : /\ p.current \in Versions \union {NoVersion}
                     /\ p.previous \in Versions \union {NoVersion}
                     /\ In(p) \subseteq Versions
                     /\ ~IsDual(p) => p = Only(p.current)
  /\ \A p \in Keyrings : p.current \in Versions /\ p.current \in In(p)
BY IdentityRotationAssumption DEF Pair, Keyrings, Only, In, IsDual, Unset

\* The types of the records, and that no rotation is numbered zero.
LEMMA RecordFacts ==
  /\ 0 \notin Rotations
  /\ NoRotation \in Rotation
  /\ IdleTask \in Task
  /\ IdleTask.rotation = 0 /\ IdleTask.batch = {} /\ IdleTask.fetched = "nothing"
BY PairFacts DEF Rotations, NoRotation, Rotation, IdleTask, Task

\* Losing events suppresses members and makes none.
LEMMA MembersWithoutFacts ==
  ASSUME TypeOK, NEW gone
  PROVE  /\ MembersWithout(gone) \in [Rotations -> [Sources -> MemberStatus]]
         /\ \A r \in Rotations, s \in Sources :
              (MembersWithout(gone)[r][s] = "none") <=> (member[r][s] = "none")
BY DEF MembersWithout, TypeOK, MemberStatus

\* A new status is of one member of the task's rotation.
LEMMA WithMemberFacts ==
  ASSUME TypeOK, task.rotation \in Rotations, NEW s \in Sources, NEW status \in MemberStatus
  PROVE  /\ WithMember(s, status) \in [Rotations -> [Sources -> MemberStatus]]
         /\ \A r \in Rotations, t \in Sources :
              WithMember(s, status)[r][t] =
                IF r = task.rotation /\ t = s THEN status ELSE member[r][t]
BY DEF WithMember, TypeOK

-----------------------------------------------------------------------------
(* The steps *)

\* Every step keeps the types.
LEMMA TypeStep ==
  ASSUME IInv, [Next]_vars
  PROVE  TypeOK'
<1>1. ASSUME NEW k \in Keyrings, Deploy(k) PROVE TypeOK'
  BY <1>1 DEF Deploy, IInv, TypeOK
<1>2. ASSUME StartSync PROVE TypeOK'
  BY <1>2, PairFacts DEF StartSync, GateAgrees, IInv, TypeOK
<1>3. ASSUME NextBatch PROVE TypeOK'
  BY <1>3 DEF NextBatch, IInv, TypeOK
<1>4. ASSUME EndSync PROVE TypeOK'
  BY <1>4 DEF EndSync, IInv, TypeOK
<1>5. ASSUME NEW e \in Events, CommitPage(e) PROVE TypeOK'
  BY <1>5, PairFacts DEF CommitPage, Authorized, Sources, IInv, TypeOK
<1>6. ASSUME NEW e \in Events, SuppressPage(e) PROVE TypeOK'
  <2>1. member' \in [Rotations -> [Sources -> MemberStatus]]
    BY <1>6, MembersWithoutFacts DEF SuppressPage, IInv
  <2>2. current' \subseteq Matches
    BY <1>6 DEF SuppressPage, Supersede, IInv, TypeOK
  <2>3. stored' \subseteq Sources /\ Orders \subseteq stored'
    BY <1>6, IdentityRotationAssumption DEF SuppressPage, IInv, TypeOK
  <2>4. digests' \in [Sources -> SUBSET Versions]
    BY <1>6 DEF SuppressPage, IInv, TypeOK
  <2> QED
    BY <1>6, <2>1, <2>2, <2>3, <2>4 DEF SuppressPage, IInv, TypeOK
<1>7. ASSUME StartEvidence PROVE TypeOK'
  BY <1>7, PairFacts DEF StartEvidence, IInv, TypeOK
<1>8. ASSUME EndEvidence PROVE TypeOK'
  BY <1>8 DEF EndEvidence, IInv, TypeOK
<1>9. ASSUME NEW o \in Orders, NEW email \in BOOLEAN, CommitOrder(o, email) PROVE TypeOK'
  BY <1>9 DEF CommitOrder, IInv, TypeOK
<1>10. ASSUME NEW r \in Rotations, PrepareRotation(r) PROVE TypeOK'
  BY <1>10, PairFacts DEF PrepareRotation, Rotation, MemberStatus, IInv, TypeOK
<1>11. ASSUME NEW r \in Rotations, NEW batch \in SUBSET Sources, StartTask(r, batch) PROVE TypeOK'
  BY <1>11, RecordFacts DEF StartTask, Task, Pending, IdleTask, IInv, TypeOK
<1>12. ASSUME NEW batch \in SUBSET Sources, NextMembers(batch) PROVE TypeOK'
  BY <1>12 DEF NextMembers, Task, Pending, IInv, TypeOK
<1>13. ASSUME NEW s \in Sources, NEW f \in {"email", "null"}, FetchEmail(s, f) PROVE TypeOK'
  BY <1>13 DEF FetchEmail, Task, IInv, TypeOK
<1>14. ASSUME NEW s \in Sources, CommitUnavailable(s) PROVE TypeOK'
  BY <1>14, WithMemberFacts DEF CommitUnavailable, Fetched, Task, MemberStatus, TaskHoldsMembers, IInv, TypeOK
<1>15. ASSUME NEW s \in Sources, CommitSuppressed(s) PROVE TypeOK'
  BY <1>15, WithMemberFacts DEF CommitSuppressed, Fetched, Task, MemberStatus, TaskHoldsMembers, IInv, TypeOK
<1>16. ASSUME NEW s \in Sources, CommitDigests(s) PROVE TypeOK'
  <2>1. task.rotation \in Rotations
    BY <1>16 DEF CommitDigests, IInv, TaskHoldsMembers
  <2>2. member' \in [Rotations -> [Sources -> MemberStatus]]
    BY <1>16, <2>1, WithMemberFacts DEF CommitDigests, MemberStatus, IInv
  <2>3. task.keyring \in Pair
    BY PairFacts DEF IInv, TypeOK, Task
  <2>4. digests' \in [Sources -> SUBSET Versions]
    BY <1>16, <2>3, PairFacts DEF CommitDigests, IInv, TypeOK
  <2>5. task' \in Task
    BY <1>16 DEF CommitDigests, Fetched, Task, IInv, TypeOK
  <2> QED
    BY <1>16, <2>2, <2>4, <2>5 DEF CommitDigests, IInv, TypeOK
<1>17. ASSUME EndTask PROVE TypeOK'
  BY <1>17, RecordFacts DEF EndTask, IInv, TypeOK
<1>18. ASSUME NEW r \in Rotations, NEW m \in Matches, PruneRotation(r, m) PROVE TypeOK'
  <2>1. rotation' \in [Rotations -> Rotation]
    BY <1>18 DEF PruneRotation, Rotation, IInv, TypeOK
  <2>2. rotation[r].pair \in Pair
    BY DEF IInv, TypeOK, Rotation
  <2>3. gate' \in Pair /\ policy' \in Pair
    BY <1>18, <2>2, PairFacts DEF PruneRotation, Pair, IInv, TypeOK
  <2>4. digests' \in [Sources -> SUBSET Versions]
    BY <1>18 DEF PruneRotation, Without, IInv, TypeOK
  <2> QED
    BY <1>18, <2>1, <2>3, <2>4 DEF PruneRotation, IInv, TypeOK
<1>19. ASSUME NEW r \in Rotations, AbortRotation(r) PROVE TypeOK'
  <2>1. rotation' \in [Rotations -> Rotation]
    BY <1>19 DEF AbortRotation, Rotation, IInv, TypeOK
  <2>2. rotation[r].pair \in Pair
    BY DEF IInv, TypeOK, Rotation
  <2>3. gate' \in Pair /\ policy' \in Pair
    BY <1>19, <2>2, PairFacts DEF AbortRotation, RestoredPolicy
  <2>4. digests' \in [Sources -> SUBSET Versions]
    BY <1>19 DEF AbortRotation, Without, IInv, TypeOK
  <2> QED
    BY <1>19, <2>1, <2>3, <2>4 DEF AbortRotation, IInv, TypeOK
<1>20. ASSUME NEW m \in Matches, PublishMatch(m) PROVE TypeOK'
  BY <1>20, PairFacts DEF PublishMatch, IInv, TypeOK
<1>21. ASSUME NEW c \in Subjects, EraseSubject(c) PROVE TypeOK'
  <2>1. PICK gone \in SUBSET Events :
          stored' = stored \ gone /\ member' = MembersWithout(gone)
    BY <1>21 DEF EraseSubject
  <2>2. member' \in [Rotations -> [Sources -> MemberStatus]]
    BY <2>1, MembersWithoutFacts DEF IInv
  <2>3. stored' \subseteq Sources /\ Orders \subseteq stored'
    BY <2>1, IdentityRotationAssumption DEF IInv, TypeOK
  <2>4. digests' \in [Sources -> SUBSET Versions]
    BY <1>21 DEF EraseSubject, IInv, TypeOK
  <2>5. current' \subseteq Matches
    BY <1>21 DEF EraseSubject, Supersede, IInv, TypeOK
  <2> QED
    BY <1>21, <2>2, <2>3, <2>4, <2>5 DEF EraseSubject, IInv, TypeOK
<1>22. ASSUME UNCHANGED vars PROVE TypeOK'
  BY <1>22 DEF vars, IInv, TypeOK
<1> QED
  BY <1>1, <1>2, <1>3, <1>4, <1>5, <1>6, <1>7, <1>8, <1>9, <1>10, <1>11, <1>12, <1>13, <1>14, <1>15, <1>16, <1>17, <1>18, <1>19, <1>20, <1>21, <1>22 DEF Next

\* The steps that change the keys or the rotations.
KeysStep ==
  \/ StartSync \/ StartEvidence
  \/ \E r \in Rotations : PrepareRotation(r) \/ AbortRotation(r)
  \/ \E r \in Rotations, m \in Matches : PruneRotation(r, m)

\* The steps that can take a digest from a source.
LosingStep ==
  \/ \E e \in Events : SuppressPage(e)
  \/ \E o \in Orders, email \in BOOLEAN : CommitOrder(o, email)
  \/ \E r \in Rotations : AbortRotation(r)
  \/ \E r \in Rotations, m \in Matches : PruneRotation(r, m)
  \/ \E c \in Subjects : EraseSubject(c)

\* What every step does to the customers, the keys, and the digests.
Summary ==
  /\ owner' = owner
  /\ UNCHANGED <<gate, policy, rotation>> \/ KeysStep
  /\ (\A s \in Sources : digests[s] \subseteq digests'[s]) \/ LosingStep
  /\ erased' = erased \/ \E c \in Subjects : EraseSubject(c)

LEMMA StepSummary ==
  ASSUME IInv, [Next]_vars
  PROVE  Summary
<1>1. ASSUME NEW k \in Keyrings, Deploy(k) PROVE Summary
  BY <1>1 DEF Deploy, Summary
<1>2. ASSUME StartSync PROVE Summary
  BY <1>2 DEF StartSync, Summary, KeysStep
<1>3. ASSUME NextBatch PROVE Summary
  BY <1>3 DEF NextBatch, Summary
<1>4. ASSUME EndSync PROVE Summary
  BY <1>4 DEF EndSync, Summary
<1>5. ASSUME NEW e \in Events, CommitPage(e) PROVE Summary
  BY <1>5 DEF CommitPage, Summary, IInv, TypeOK
<1>6. ASSUME NEW e \in Events, SuppressPage(e) PROVE Summary
  BY <1>6 DEF SuppressPage, Summary, LosingStep
<1>7. ASSUME StartEvidence PROVE Summary
  BY <1>7 DEF StartEvidence, Summary, KeysStep
<1>8. ASSUME EndEvidence PROVE Summary
  BY <1>8 DEF EndEvidence, Summary
<1>9. ASSUME NEW o \in Orders, NEW email \in BOOLEAN, CommitOrder(o, email) PROVE Summary
  BY <1>9 DEF CommitOrder, Summary, LosingStep
<1>10. ASSUME NEW r \in Rotations, PrepareRotation(r) PROVE Summary
  BY <1>10 DEF PrepareRotation, Summary, KeysStep
<1>11. ASSUME NEW r \in Rotations, NEW batch \in SUBSET Sources, StartTask(r, batch) PROVE Summary
  BY <1>11 DEF StartTask, Summary
<1>12. ASSUME NEW batch \in SUBSET Sources, NextMembers(batch) PROVE Summary
  BY <1>12 DEF NextMembers, Summary
<1>13. ASSUME NEW s \in Sources, NEW f \in {"email", "null"}, FetchEmail(s, f) PROVE Summary
  BY <1>13 DEF FetchEmail, Summary
<1>14. ASSUME NEW s \in Sources, CommitUnavailable(s) PROVE Summary
  BY <1>14 DEF CommitUnavailable, Summary
<1>15. ASSUME NEW s \in Sources, CommitSuppressed(s) PROVE Summary
  BY <1>15 DEF CommitSuppressed, Summary
<1>16. ASSUME NEW s \in Sources, CommitDigests(s) PROVE Summary
  BY <1>16 DEF CommitDigests, Summary, IInv, TypeOK
<1>17. ASSUME EndTask PROVE Summary
  BY <1>17 DEF EndTask, Summary
<1>18. ASSUME NEW r \in Rotations, NEW m \in Matches, PruneRotation(r, m) PROVE Summary
  BY <1>18 DEF PruneRotation, Summary, KeysStep, LosingStep
<1>19. ASSUME NEW r \in Rotations, AbortRotation(r) PROVE Summary
  BY <1>19 DEF AbortRotation, Summary, KeysStep, LosingStep
<1>20. ASSUME NEW m \in Matches, PublishMatch(m) PROVE Summary
  BY <1>20 DEF PublishMatch, Summary
<1>21. ASSUME NEW c \in Subjects, EraseSubject(c) PROVE Summary
  BY <1>21 DEF EraseSubject, Summary, LosingStep
<1>22. ASSUME UNCHANGED vars PROVE Summary
  BY <1>22 DEF vars, Summary
<1> QED
  BY <1>1, <1>2, <1>3, <1>4, <1>5, <1>6, <1>7, <1>8, <1>9, <1>10, <1>11, <1>12, <1>13, <1>14, <1>15, <1>16, <1>17, <1>18, <1>19, <1>20, <1>21, <1>22 DEF Next

KeysInv == UnsetIsNotDual /\ LiveIsDual /\ OneLiveRotation /\ GateFollowsRotation

\* A live rotation's pair is on the gate, so a gate that is not dual has none.
LEMMA LiveFacts ==
  ASSUME IInv
  PROVE  /\ ~IsDual(gate) => \A r \in Rotations : ~IsLive(r)
         /\ \A r \in Rotations : IsLive(r) =>
              /\ gate = rotation[r].pair /\ policy = rotation[r].pair
              /\ gate.current \in Versions /\ gate.previous \in Versions
              /\ gate.current # gate.previous
              /\ \A q \in Rotations : IsLive(q) => q = r
BY IdentityRotationAssumption
   DEF IInv, LiveIsDual, OneLiveRotation, GateFollowsRotation, Keyrings, Pair, IsDual

\* Gate, policy and rotations go together.
LEMMA KeysInvStep ==
  ASSUME IInv, [Next]_vars
  PROVE  KeysInv'
<1>1. ASSUME UNCHANGED <<gate, policy, rotation>> PROVE KeysInv'
  BY <1>1 DEF KeysInv, IInv, UnsetIsNotDual, LiveIsDual, OneLiveRotation,
              GateFollowsRotation, IsLive, IsDual
<1>2. ASSUME StartSync PROVE KeysInv'
  <2>1. rotation' = rotation /\ env.current \in Versions
    BY <1>2, PairFacts DEF StartSync, IInv, TypeOK
  <2>2. CASE gate.current # NoVersion
    <3>1. gate' = gate /\ policy' = policy
      BY <1>2, <2>2 DEF StartSync, IInv, GateFollowsRotation
    <3> QED
      BY <1>1, <2>1, <3>1
  <2>3. CASE gate.current = NoVersion
    <3>1. gate' = Only(env.current) /\ policy' = Only(env.current)
      BY <1>2, <2>1, <2>3, PairFacts, IdentityRotationAssumption DEF StartSync, GateAgrees
    <3>2. \A r \in Rotations : ~IsLive(r)
      BY <2>3, LiveFacts DEF IInv, UnsetIsNotDual
    <3> QED
      BY <2>1, <3>1, <3>2, PairFacts
         DEF KeysInv, UnsetIsNotDual, LiveIsDual, OneLiveRotation, GateFollowsRotation, IsLive, IsDual
  <2> QED
    BY <2>2, <2>3
<1>3. ASSUME StartEvidence PROVE KeysInv'
  <2>1. CASE gate.current # NoVersion
    <3>1. gate' = gate /\ policy' = policy /\ rotation' = rotation
      BY <1>3, <2>1, PairFacts DEF StartEvidence, IInv, GateFollowsRotation, Unset, Only
    <3> QED
      BY <1>1, <3>1
  <2>2. CASE gate.current = NoVersion
    BY <1>3, <2>2 DEF StartEvidence, KeysInv, IInv, UnsetIsNotDual, LiveIsDual,
                      OneLiveRotation, GateFollowsRotation, IsLive, IsDual
  <2> QED
    BY <2>1, <2>2
<1>4. ASSUME NEW r \in Rotations, PrepareRotation(r) PROVE KeysInv'
  <2>1. env \in Keyrings /\ IsDual(env)
    BY <1>4 DEF PrepareRotation, IInv, TypeOK
  <2>2. \A q \in Rotations : IsLive(q)' <=> q = r
    BY <1>4 DEF PrepareRotation, IsLive, IInv, TypeOK
  <2>3. rotation'[r].pair = env /\ gate' = env /\ policy' = env
    BY <1>4 DEF PrepareRotation, IInv, TypeOK
  <2> QED
    BY <2>1, <2>2, <2>3, PairFacts, IdentityRotationAssumption
       DEF KeysInv, UnsetIsNotDual, LiveIsDual, OneLiveRotation, GateFollowsRotation, IsDual
<1>5. ASSUME NEW r \in Rotations, NEW m \in Matches, PruneRotation(r, m) PROVE KeysInv'
  <2>1. \A q \in Rotations : ~IsLive(q)'
    BY <1>5, LiveFacts DEF PruneRotation, IsLive, IInv, TypeOK
  <2>2. gate' = Only(gate.current) /\ policy' = Only(gate.current) /\ gate.current \in Versions
    BY <1>5, LiveFacts, PairFacts DEF PruneRotation, IInv, TypeOK, Pair, Only
  <2> QED
    BY <2>1, <2>2, PairFacts, IdentityRotationAssumption
       DEF KeysInv, UnsetIsNotDual, LiveIsDual, OneLiveRotation, GateFollowsRotation, IsDual
<1>6. ASSUME NEW r \in Rotations, AbortRotation(r) PROVE KeysInv'
  <2>1. \A q \in Rotations : ~IsLive(q)'
    BY <1>6, LiveFacts DEF AbortRotation, IsLive, IInv, TypeOK
  <2>2. gate' = Only(gate.previous) /\ policy' = Only(gate.previous) /\ gate.previous \in Versions
    BY <1>6, LiveFacts DEF AbortRotation, RestoredPolicy
  <2> QED
    BY <2>1, <2>2, PairFacts, IdentityRotationAssumption
       DEF KeysInv, UnsetIsNotDual, LiveIsDual, OneLiveRotation, GateFollowsRotation, IsDual
<1> QED
  BY <1>1, <1>2, <1>3, <1>4, <1>5, <1>6, StepSummary DEF Summary, KeysStep

\* An erased customer has no digest, whoever writes.
LEMMA ErasedStep ==
  ASSUME IInv, [Next]_vars
  PROVE  ErasedStayErased'
<1>1. ASSUME UNCHANGED <<digests, erased>> PROVE ErasedStayErased'
  BY <1>1, StepSummary DEF Summary, IInv, ErasedStayErased, IsErased
<1>2. ASSUME NEW e \in Events, CommitPage(e) PROVE ErasedStayErased'
  BY <1>2 DEF CommitPage, IInv, TypeOK, ErasedStayErased, IsErased
<1>3. ASSUME NEW e \in Events, SuppressPage(e) PROVE ErasedStayErased'
  BY <1>3 DEF SuppressPage, IInv, TypeOK, ErasedStayErased, IsErased
<1>4. ASSUME NEW o \in Orders, NEW email \in BOOLEAN, CommitOrder(o, email)
      PROVE  ErasedStayErased'
  BY <1>4 DEF CommitOrder, IInv, TypeOK, ErasedStayErased, IsErased
<1>5. ASSUME NEW s \in Sources, CommitDigests(s) PROVE ErasedStayErased'
  BY <1>5 DEF CommitDigests, Suppresses, ErasedStayErased, IsErased
<1>6. ASSUME NEW r \in Rotations, NEW m \in Matches, PruneRotation(r, m)
      PROVE  ErasedStayErased'
  BY <1>6 DEF PruneRotation, Without, IInv, ErasedStayErased, IsErased
<1>7. ASSUME NEW r \in Rotations, AbortRotation(r) PROVE ErasedStayErased'
  BY <1>7 DEF AbortRotation, Without, IInv, ErasedStayErased, IsErased
<1>8. ASSUME NEW c \in Subjects, EraseSubject(c) PROVE ErasedStayErased'
  BY <1>8 DEF EraseSubject, IInv, ErasedStayErased, IsErased
<1>9. \/ UNCHANGED <<digests, erased>>
      \/ \E e \in Events : CommitPage(e) \/ SuppressPage(e)
      \/ \E o \in Orders, email \in BOOLEAN : CommitOrder(o, email)
      \/ \E s \in Sources : CommitDigests(s)
      \/ \E r \in Rotations, m \in Matches : PruneRotation(r, m)
      \/ \E r \in Rotations : AbortRotation(r)
      \/ \E c \in Subjects : EraseSubject(c)
  BY DEF Next, vars, Deploy, StartSync, NextBatch, EndSync, StartEvidence, EndEvidence,
         PrepareRotation, StartTask, NextMembers, FetchEmail, CommitUnavailable,
         CommitSuppressed, EndTask, PublishMatch
<1> QED
  BY <1>1, <1>2, <1>3, <1>4, <1>5, <1>6, <1>7, <1>8, <1>9

\* Members, once prepared, stay members, whatever becomes of their status.
MembersStay ==
  /\ \A r \in Rotations : rotation[r].state # "none" => rotation'[r].state # "none"
  /\ \A r \in Rotations, s \in Sources :
       rotation[r].state # "none" => ((member'[r][s] = "none") <=> (member[r][s] = "none"))
  /\ \A r \in Rotations, s \in Sources :
       member'[r][s] # "none" => rotation'[r].state # "none"

\* No step makes a member but the preparation of its rotation.
LEMMA MembersStep ==
  ASSUME IInv, [Next]_vars
  PROVE  MembersStay
<1> USE DEF IInv, MembersArePrepared
<1>1. ASSUME UNCHANGED rotating PROVE MembersStay
  BY <1>1 DEF MembersStay
<1>2. ASSUME NEW gone, member' = MembersWithout(gone), rotation' = rotation PROVE MembersStay
  BY <1>2, MembersWithoutFacts DEF MembersStay
<1>3. ASSUME NEW s \in Sources, NEW status \in MemberStatus \ {"none"},
             task.rotation \in Rotations, member[task.rotation][s] # "none",
             member' = WithMember(s, status), rotation' = rotation
      PROVE  MembersStay
  <2>1. \A r \in Rotations, t \in Sources :
          member'[r][t] = IF r = task.rotation /\ t = s THEN status ELSE member[r][t]
    BY <1>3, WithMemberFacts
  <2> QED
    BY <1>3, <2>1 DEF MembersStay
<1>4. ASSUME NEW r \in Rotations, PrepareRotation(r) PROVE MembersStay
  BY <1>4 DEF PrepareRotation, IsNextRotation, MembersStay, TypeOK
<1>5. ASSUME NEW r \in Rotations, member' = member,
             \E state \in {"complete", "aborted"} :
               rotation' = [rotation EXCEPT ![r] = [@ EXCEPT !.state = state]]
      PROVE  MembersStay
  BY <1>5 DEF MembersStay, TypeOK, Rotation
<1>6. ASSUME NEW s \in Sources, task.source = s, task.fetched # "nothing"
      PROVE  task.rotation \in Rotations /\ member[task.rotation][s] # "none"
  BY <1>6 DEF TaskHoldsMembers
<1>7. ASSUME NEW s \in Sources, CommitUnavailable(s) PROVE MembersStay
  BY <1>1, <1>3, <1>6, <1>7 DEF CommitUnavailable, MemberStatus
<1>8. ASSUME NEW s \in Sources, CommitSuppressed(s) PROVE MembersStay
  BY <1>3, <1>6, <1>8 DEF CommitSuppressed, MemberStatus
<1>9. ASSUME NEW s \in Sources, CommitDigests(s) PROVE MembersStay
  BY <1>3, <1>6, <1>9 DEF CommitDigests, MemberStatus
<1>10. ASSUME NEW e \in Events, SuppressPage(e) PROVE MembersStay
  BY <1>2, <1>10 DEF SuppressPage
<1>11. ASSUME NEW c \in Subjects, EraseSubject(c) PROVE MembersStay
  BY <1>2, <1>11 DEF EraseSubject
<1>12. ASSUME NEW r \in Rotations, NEW m \in Matches, PruneRotation(r, m) PROVE MembersStay
  BY <1>5, <1>12 DEF PruneRotation
<1>13. ASSUME NEW r \in Rotations, AbortRotation(r) PROVE MembersStay
  BY <1>5, <1>13 DEF AbortRotation
<1>14. \/ UNCHANGED rotating
       \/ \E s \in Sources : CommitUnavailable(s) \/ CommitSuppressed(s) \/ CommitDigests(s)
       \/ \E e \in Events : SuppressPage(e)
       \/ \E c \in Subjects : EraseSubject(c)
       \/ \E r \in Rotations : PrepareRotation(r) \/ AbortRotation(r)
       \/ \E r \in Rotations, m \in Matches : PruneRotation(r, m)
  BY DEF Next, vars, Deploy, StartSync, NextBatch, EndSync, CommitPage, StartEvidence,
         EndEvidence, CommitOrder, StartTask, NextMembers, FetchEmail, EndTask, PublishMatch
<1> QED
  BY <1>1, <1>4, <1>7, <1>8, <1>9, <1>10, <1>11, <1>12, <1>13, <1>14

\* What the task holds stays a member of its rotation.
LEMMA TaskStep ==
  ASSUME IInv, [Next]_vars
  PROVE  TaskHoldsMembers' /\ MembersArePrepared'
<1> USE DEF IInv
<1>1. MembersStay
  BY MembersStep
<1>2. MembersArePrepared'
  BY <1>1 DEF MembersStay, MembersArePrepared
\* Members of a prepared rotation are members after the step.
<1>3. ASSUME NEW r \in Rotations, NEW s \in Sources, member[r][s] # "none"
      PROVE  member'[r][s] # "none"
  BY <1>1, <1>3 DEF MembersStay, MembersArePrepared
<1>4. task.batch \subseteq Sources
  BY DEF TypeOK, Task
<1>5. ASSUME UNCHANGED task PROVE TaskHoldsMembers'
  BY <1>3, <1>4, <1>5 DEF TaskHoldsMembers
<1>6. ASSUME NEW r \in Rotations, NEW batch \in SUBSET Sources, StartTask(r, batch) PROVE TaskHoldsMembers'
  BY <1>6, RecordFacts DEF StartTask, TaskHoldsMembers, Pending, IdleTask
<1>7. ASSUME NEW batch \in SUBSET Sources, NextMembers(batch) PROVE TaskHoldsMembers'
  BY <1>7, RecordFacts DEF NextMembers, TaskHoldsMembers, Pending, TypeOK, Task
<1>8. ASSUME NEW s \in Sources, NEW f \in {"email", "null"}, FetchEmail(s, f)
      PROVE  TaskHoldsMembers'
  BY <1>8 DEF FetchEmail, TaskHoldsMembers, TypeOK, Task
<1>9. ASSUME NEW s \in Sources, task' = Fetched PROVE TaskHoldsMembers'
  BY <1>3, <1>4, <1>9 DEF Fetched, TaskHoldsMembers, TypeOK, Task
<1>10. ASSUME EndTask PROVE TaskHoldsMembers'
  BY <1>10, RecordFacts DEF EndTask, TaskHoldsMembers
<1>11. \/ UNCHANGED task
       \/ \E r \in Rotations, batch \in SUBSET Sources : StartTask(r, batch)
       \/ \E batch \in SUBSET Sources : NextMembers(batch)
       \/ EndTask
       \/ \E s \in Sources, f \in {"email", "null"} : FetchEmail(s, f)
       \/ \E s \in Sources : task' = Fetched
  BY DEF Next, vars, Deploy, StartSync, NextBatch, EndSync, CommitPage, SuppressPage,
         StartEvidence, EndEvidence, CommitOrder, PrepareRotation, CommitUnavailable,
         CommitSuppressed, CommitDigests, PruneRotation, AbortRotation, PublishMatch,
         EraseSubject
<1> QED
  BY <1>2, <1>5, <1>6, <1>7, <1>8, <1>9, <1>10, <1>11

\* Only orders of a policy with one key lose a digest without an erasure, and
\* then no rotation is live.
LEMMA RollbackStep ==
  ASSUME IInv, [Next]_vars
  PROVE  RollbackIsSafe'
<1> SUFFICES ASSUME NEW r \in Rotations, NEW s \in Sources,
                    IsLive(r)', member'[r][s] # "none", ~IsErased(s)'
             PROVE  rotation'[r].pair.previous \in digests'[s]
  BY DEF RollbackIsSafe
<1> USE DEF IInv
<1>1. owner' = owner /\ ~IsErased(s)
  BY StepSummary DEF Summary, IsErased, EraseSubject
<1>2. CASE \E q \in Rotations : PrepareRotation(q)
  <2>1. PICK q \in Rotations : PrepareRotation(q)
    BY <1>2
  <2>2. q = r
    BY <2>1 DEF PrepareRotation, IsLive, TypeOK
  <2> QED
    BY <2>1, <2>2 DEF PrepareRotation, TypeOK
<1>3. CASE ~\E q \in Rotations : PrepareRotation(q)
  <2>1. IsLive(r) /\ rotation'[r].pair = rotation[r].pair
    BY <1>3, StepSummary DEF Summary, KeysStep, StartSync, StartEvidence, PruneRotation,
         AbortRotation, IsLive, TypeOK, Rotation
  <2>2. rotation[r].pair.previous \in digests[s]
    BY <1>1, <2>1, MembersStep DEF MembersStay, RollbackIsSafe, IsLive
  <2>3. IsDual(policy)
    BY <2>1, LiveFacts, IdentityRotationAssumption DEF IsDual
  <2>4. CASE digests[s] \subseteq digests'[s]
    BY <2>1, <2>2, <2>4
  <2>5. CASE \E e \in Events : SuppressPage(e)
    BY <1>1, <2>1, <2>2, <2>5 DEF SuppressPage, TypeOK
  <2>6. ~\E o \in Orders, email \in BOOLEAN : CommitOrder(o, email)
    BY <2>3, PairFacts DEF CommitOrder, EvidencePolicy, TypeOK
  <2>7. ~\E q \in Rotations : AbortRotation(q) \/ \E m \in Matches : PruneRotation(q, m)
    <3> SUFFICES ASSUME NEW q \in Rotations,
                        AbortRotation(q) \/ \E m \in Matches : PruneRotation(q, m)
                 PROVE  FALSE
      OBVIOUS
    <3>1. IsLive(q) /\ ~IsLive(q)'
      BY DEF AbortRotation, PruneRotation, IsLive, TypeOK, Rotation
    <3> QED
      BY <2>1, <3>1, LiveFacts
  <2>8. CASE \E c \in Subjects : EraseSubject(c)
    <3>1. PICK c \in Subjects : EraseSubject(c)
      BY <2>8
    <3>2. owner[s] # c
      BY <1>1, <3>1 DEF EraseSubject, IsErased
    <3> QED
      BY <2>1, <2>2, <3>1, <3>2 DEF EraseSubject
  <2> QED
    BY <2>4, <2>5, <2>6, <2>7, <2>8, StepSummary DEF Summary, LosingStep
<1> QED
  BY <1>2, <1>3

\* A cutover keeps a source matchable.
LEMMA CutoverStep ==
  ASSUME IInv, [Next]_vars
  PROVE  KeepsSources
<1> SUFFICES ASSUME gate' # gate, NEW s \in Sources, IsMatchable(gate, digests[s])
             PROVE  IsMatchable(gate', digests'[s])
  BY DEF KeepsSources
<1> USE DEF IInv
<1>1. gate.current # NoVersion
  BY PairFacts DEF IsMatchable, In, UnsetIsNotDual, IsDual
<1>2. ~StartSync /\ ~StartEvidence
  BY <1>1 DEF StartSync, StartEvidence
<1>3. ASSUME NEW r \in Rotations, PrepareRotation(r) PROVE IsMatchable(gate', digests'[s])
  <2>1. gate = Only(env.previous) /\ gate' = env /\ digests' = digests
    BY <1>3 DEF PrepareRotation
  <2>2. In(gate) \subseteq In(env)
    BY <2>1 DEF In, Only
  <2> QED
    BY <2>1, <2>2 DEF IsMatchable
<1>4. ASSUME NEW r \in Rotations, NEW m \in Matches, PruneRotation(r, m)
      PROVE  IsMatchable(gate', digests'[s])
  <2> DEFINE old == rotation[r].pair.previous
             new == rotation[r].pair.current
  <2>1. In(gate) = {new, old} /\ new \in Versions /\ new # old
    BY <1>4, LiveFacts, IdentityRotationAssumption DEF PruneRotation, In
  <2>2. new \in digests[s]
    BY <1>4, <2>1 DEF PruneRotation, Covered, IsMatchable
  <2>3. new \in digests'[s] /\ In(gate') = {new}
    BY <1>4, <2>1, <2>2, PairFacts DEF PruneRotation, Without
  <2> QED
    BY <2>3 DEF IsMatchable
<1>5. ASSUME NEW r \in Rotations, AbortRotation(r) PROVE IsMatchable(gate', digests'[s])
  <2> DEFINE old == rotation[r].pair.previous
             new == rotation[r].pair.current
  <2>1. In(gate) = {new, old} /\ old \in Versions /\ new # old
    BY <1>5, LiveFacts, IdentityRotationAssumption DEF AbortRotation, In
  <2>2. old \in digests[s]
    BY <1>5, <2>1 DEF AbortRotation, Covered, IsMatchable
  <2>3. old \in digests'[s] /\ In(gate') = {old}
    BY <1>5, <2>1, <2>2, PairFacts DEF AbortRotation, Without
  <2> QED
    BY <2>3 DEF IsMatchable
<1> QED
  BY <1>2, <1>3, <1>4, <1>5, StepSummary DEF Summary, KeysStep

-----------------------------------------------------------------------------
(* The theorems *)

LEMMA InitInv == Init => IInv
BY PairFacts, RecordFacts, IdentityRotationAssumption
   DEF Init, IInv, TypeOK, UnsetIsNotDual, LiveIsDual, OneLiveRotation, MembersArePrepared,
       TaskHoldsMembers, GateFollowsRotation, ErasedStayErased, RollbackIsSafe, IsLive,
       NoRotation, IsErased, Unset, IsDual, Sources, MemberStatus, Keyrings

\* Every step keeps the inductive invariant.
LEMMA IInvStep ==
  ASSUME IInv, [Next]_vars
  PROVE  IInv'
BY TypeStep, KeysInvStep, TaskStep, ErasedStep, RollbackStep DEF IInv, KeysInv

\* Every reachable state has the inductive invariant: keys and rotations go
\* together, and the task holds members of its rotation.
THEOREM Invariance == Spec => []IInv
<1>1. IInv /\ [Next]_vars => IInv'
  BY IInvStep
<1> QED
  BY <1>1, InitInv, PTL DEF Spec

\* Every variable keeps its type.
THEOREM TypeCorrectness == Spec => []TypeOK
<1>1. IInv => TypeOK
  BY DEF IInv
<1> QED
  BY <1>1, Invariance, PTL

\* Gate, policy and the live rotation always agree, so no writer is stopped
\* by two of them that differ.
THEOREM KeysAgree == Spec => []GateFollowsRotation
<1>1. IInv => GateFollowsRotation
  BY DEF IInv
<1> QED
  BY <1>1, Invariance, PTL

\* No digest of an erased customer comes back.
THEOREM ErasureIsFinal == Spec => []ErasedStayErased
<1>1. IInv => ErasedStayErased
  BY DEF IInv
<1> QED
  BY <1>1, Invariance, PTL

\* A live rotation can be rolled back without losing a member.
THEOREM RollbackSafety == Spec => []RollbackIsSafe
<1>1. IInv => RollbackIsSafe
  BY DEF IInv
<1> QED
  BY <1>1, Invariance, PTL

\* Preparing, pruning and rolling back keep every source matchable.
THEOREM CutoverSafety == Spec => CutoversKeepSources
<1>1. IInv /\ [Next]_vars => [KeepsSources]_vars
  BY CutoverStep
<1> QED
  BY <1>1, Invariance, PTL DEF Spec, CutoversKeepSources

-----------------------------------------------------------------------------
(* IdentityRotation implements KeyRing *)

\* What the two modules say in the same words, and that neither a gate that is
\* not set nor an erased customer makes a source matchable.
LEMMA RingFacts ==
  ASSUME IInv
  PROVE  /\ Ring!IsSet <=> gate.current # NoVersion
         /\ Ring!IsDual <=> IsDual(gate)
         /\ \A v : Ring!Only(v) = Only(v)
         /\ gate.current = NoVersion => In(gate) = {} /\ Matchable = {}
         /\ Matchable \subseteq Sources \ Forgotten
BY DEF Ring!IsSet, Ring!IsDual, IsDual, Ring!Only, Only, Matchable, Forgotten, IsMatchable, In,
       IInv, UnsetIsNotDual, ErasedStayErased

\* A source that gets digests is collected, or was matchable already.
LEMMA Collects ==
  ASSUME IInv, UNCHANGED <<owner, gate, erased>>, gate.current # NoVersion,
         NEW s \in Sources, ~IsErased(s),
         \A x \in Sources : x # s => digests'[x] = digests[x],
         digests[s] \subseteq digests'[s]
  PROVE  [Ring!Next]_Ring!vars
<1>1. Forgotten' = Forgotten /\ s \notin Forgotten
  BY DEF Forgotten, IsErased
<1>2. Matchable' = Matchable \/ Matchable' = Matchable \union {s}
  BY DEF Matchable, IsMatchable
<1>3. CASE Matchable' = Matchable
  BY <1>1, <1>3 DEF Ring!vars
<1>4. CASE Matchable' = Matchable \union {s}
  <2>1. Ring!Collect(s)
    BY <1>1, <1>4, RingFacts DEF Ring!Collect
  <2> QED
    BY <2>1 DEF Ring!Next
<1> QED
  BY <1>2, <1>3, <1>4

\* A step of the store is a step of the ring, or none.
LEMMA RingStep ==
  ASSUME IInv, [Next]_vars
  PROVE  [Ring!Next]_Ring!vars
<1> DEFINE Goal == [Ring!Next]_Ring!vars
<1> USE DEF IInv
<1>1. ASSUME UNCHANGED <<owner, gate, erased>>, \A s \in Sources : digests'[s] = digests[s] PROVE Goal
  <2>1. Matchable' = Matchable /\ Forgotten' = Forgotten
    BY <1>1 DEF Matchable, IsMatchable, Forgotten, IsErased
  <2> QED
    BY <1>1, <2>1 DEF Ring!vars
<1>2. ASSUME StartSync PROVE Goal
  <2>1. CASE gate.current # NoVersion
    BY <1>1, <1>2, <2>1 DEF StartSync
  <2>2. CASE gate.current = NoVersion
    <3>1. env.current \in Versions /\ gate' = Only(env.current)
      BY <1>2, <2>2, PairFacts DEF StartSync, TypeOK
    <3>2. Forgotten' = Forgotten
      BY <1>2 DEF StartSync, Forgotten, IsErased
    <3>3. Matchable' \subseteq Sources \ Forgotten
      BY <1>2 DEF StartSync, Matchable, Forgotten, IsMatchable, ErasedStayErased
    <3>4. Ring!Bootstrap
      BY <2>2, <3>1, <3>2, <3>3, RingFacts DEF Ring!Bootstrap
    <3> QED
      BY <3>4 DEF Ring!Next
  <2> QED
    BY <2>1, <2>2
<1>3. ASSUME NEW e \in Events, CommitPage(e) PROVE Goal
  <2>1. e \in Sources
    BY DEF Sources
  <2>2. /\ UNCHANGED <<owner, gate, erased>> /\ gate.current # NoVersion /\ ~IsErased(e)
        /\ \A x \in Sources : x # e => digests'[x] = digests[x]
        /\ digests[e] \subseteq digests'[e]
    BY <1>3, <2>1 DEF CommitPage, TypeOK
  <2> QED
    BY <2>1, <2>2, Collects
<1>4. ASSUME NEW e \in Events, SuppressPage(e) PROVE Goal
  <2>1. \A s \in Sources : digests'[s] = digests[s]
    BY <1>4 DEF SuppressPage, ErasedStayErased, TypeOK
  <2> QED
    BY <1>1, <1>4, <2>1 DEF SuppressPage
<1>5. ASSUME NEW o \in Orders, NEW email \in BOOLEAN, CommitOrder(o, email) PROVE Goal
  <2>1. /\ o \in Sources /\ UNCHANGED <<owner, gate, erased>>
        /\ \A x \in Sources : x # o => digests'[x] = digests[x]
        /\ digests'[o] = IF email /\ IsErased(o) THEN {}
                         ELSE IF email THEN digests[o] \union {evidence}
                         ELSE digests[o] \ {evidence}
    BY <1>5 DEF CommitOrder, Sources, TypeOK
  <2>2. Forgotten' = Forgotten
    BY <2>1 DEF Forgotten, IsErased
  <2>3. CASE gate.current = NoVersion
    <3>1. Matchable' = {}
      BY <2>1, <2>3, RingFacts DEF Matchable, IsMatchable, In
    <3> QED
      BY <2>1, <2>2, <2>3, <3>1, RingFacts DEF Ring!vars
  <2>4. CASE gate.current # NoVersion /\ email /\ IsErased(o)
    BY <1>1, <2>1, <2>4 DEF ErasedStayErased
  <2>5. CASE gate.current # NoVersion /\ email /\ ~IsErased(o)
    BY <2>1, <2>5, Collects
  <2>6. CASE gate.current # NoVersion /\ ~email
    <3>1. evidence \in Versions /\ gate = Only(evidence)
      BY <1>5, <2>6 DEF CommitOrder, EvidencePolicy, GateFollowsRotation, TypeOK
    <3>2. In(gate) = {evidence} /\ ~IsDual(gate)
      BY <3>1, PairFacts
    <3>3. Matchable' = Matchable \ {o}
      BY <2>1, <2>6, <3>2 DEF Matchable, IsMatchable
    <3>4. Ring!Withdraw(o)
      BY <2>1, <2>2, <2>6, <3>2, <3>3, RingFacts DEF Ring!Withdraw
    <3> QED
      BY <2>1, <3>4 DEF Ring!Next
  <2> QED
    BY <2>3, <2>4, <2>5, <2>6
<1>6. ASSUME NEW s \in Sources, CommitDigests(s) PROVE Goal
  <2>1. /\ UNCHANGED <<owner, gate, erased>> /\ erased = {} /\ IsDual(gate)
        /\ \A x \in Sources : x # s => digests'[x] = digests[x]
        /\ digests[s] \subseteq digests'[s]
    BY <1>6 DEF CommitDigests, Suppresses, MayCommit, TypeOK
  <2> QED
    BY <2>1, Collects DEF IsErased, UnsetIsNotDual
<1>7. ASSUME NEW r \in Rotations, PrepareRotation(r) PROVE Goal
  <2>1. /\ env.current \in Versions /\ env.current # env.previous /\ env.previous # NoVersion
        /\ gate = Only(env.previous) /\ gate' = env
        /\ env = [current |-> env.current, previous |-> env.previous]
        /\ UNCHANGED <<owner, digests, erased>>
    BY <1>7, PairFacts DEF PrepareRotation, IsDual, TypeOK, Keyrings, Pair
  <2>2. gate.current = env.previous /\ ~IsDual(gate) /\ In(gate) \subseteq In(gate')
    BY <2>1 DEF Only, IsDual, In
  <2>3. Forgotten' = Forgotten
    BY <2>1 DEF Forgotten, IsErased
  <2>4. Matchable \subseteq Matchable' /\ Matchable' \subseteq Sources \ Forgotten
    BY <2>1, <2>2 DEF Matchable, Forgotten, IsMatchable, ErasedStayErased
  <2>5. Ring!Begin
    BY <2>1, <2>2, <2>3, <2>4, RingFacts DEF Ring!Begin
  <2> QED
    BY <2>5 DEF Ring!Next
<1>8. ASSUME NEW r \in Rotations, NEW m \in Matches, PruneRotation(r, m) PROVE Goal
  <2>1. /\ gate' = Only(gate.current) /\ In(gate') = {gate.current} /\ IsDual(gate)
        /\ In(gate) = {gate.current, gate.previous} /\ gate.current # gate.previous
        /\ UNCHANGED <<owner, erased>>
    BY <1>8, LiveFacts, PairFacts, IdentityRotationAssumption DEF PruneRotation, IsDual, In
  <2>2. \A s \in Sources : /\ digests'[s] = digests[s] \ {gate.previous}
                           /\ gate.previous \in digests[s] => gate.current \in digests[s]
    BY <1>8 DEF PruneRotation, Without, Covered
  <2>3. Matchable' = Matchable /\ Forgotten' = Forgotten
    BY <2>1, <2>2 DEF Matchable, IsMatchable, Forgotten, IsErased
  <2>4. Ring!Complete
    BY <2>1, <2>3, RingFacts DEF Ring!Complete
  <2> QED
    BY <2>4 DEF Ring!Next
<1>9. ASSUME NEW r \in Rotations, AbortRotation(r) PROVE Goal
  <2>1. /\ gate' = Only(gate.previous) /\ In(gate') = {gate.previous} /\ IsDual(gate)
        /\ In(gate) = {gate.current, gate.previous} /\ gate.current # gate.previous
        /\ UNCHANGED <<owner, erased>>
    BY <1>9, LiveFacts, PairFacts, IdentityRotationAssumption DEF AbortRotation, IsDual, In
  <2>2. \A s \in Sources : /\ digests'[s] = digests[s] \ {gate.current}
                           /\ gate.current \in digests[s] => gate.previous \in digests[s]
    BY <1>9, LiveFacts DEF AbortRotation, Without, Covered
  <2>3. Matchable' = Matchable /\ Forgotten' = Forgotten
    BY <2>1, <2>2 DEF Matchable, IsMatchable, Forgotten, IsErased
  <2>4. Ring!RollBack
    BY <2>1, <2>3, RingFacts DEF Ring!RollBack
  <2> QED
    BY <2>4 DEF Ring!Next
<1>10. ASSUME NEW c \in Subjects, EraseSubject(c) PROVE Goal
  <2> DEFINE mine == {s \in Sources : owner[s] = c}
  <2>1. /\ gate' = gate /\ owner' = owner /\ erased' = erased \union {c}
        /\ \A s \in Sources : digests'[s] = IF owner[s] = c THEN {} ELSE digests[s]
    BY <1>10 DEF EraseSubject
  <2>2. Forgotten' = Forgotten \union mine /\ Matchable' = Matchable \ mine
    BY <2>1 DEF Matchable, IsMatchable, Forgotten, IsErased
  <2>3. Ring!Forget(mine)
    BY <2>1, <2>2 DEF Ring!Forget
  <2> QED
    BY <2>3 DEF Ring!Next
<1>11. \/ UNCHANGED <<owner, gate, erased>> /\ \A s \in Sources : digests'[s] = digests[s]
       \/ StartSync
       \/ \E e \in Events : CommitPage(e) \/ SuppressPage(e)
       \/ \E o \in Orders, email \in BOOLEAN : CommitOrder(o, email)
       \/ \E s \in Sources : CommitDigests(s)
       \/ \E r \in Rotations : PrepareRotation(r) \/ AbortRotation(r)
       \/ \E r \in Rotations, m \in Matches : PruneRotation(r, m)
       \/ \E c \in Subjects : EraseSubject(c)
  BY DEF Next, vars, Deploy, NextBatch, EndSync, StartEvidence, EndEvidence, StartTask,
         NextMembers, FetchEmail, CommitUnavailable, CommitSuppressed, EndTask, PublishMatch
<1> HIDE DEF Goal
<1>12. Goal
  BY <1>1, <1>2, <1>3, <1>4, <1>5, <1>6, <1>7, <1>8, <1>9, <1>10, <1>11
<1> QED
  BY <1>12 DEF Goal

\* Page commits, evidence, tasks, prune, roll back and erasure, interleaved in
\* any way, do nothing to matching and privacy that KeyRing does not allow.
THEOREM KeyRingRefinement == Spec => ImplementsKeyRing
<1>1. Init => Ring!Init
  BY IdentityRotationAssumption
     DEF Init, Ring!Init, Ring!Only, Unset, Only, Matchable, IsMatchable, Forgotten, IsErased
<1>2. IInv /\ [Next]_vars => [Ring!Next]_Ring!vars
  BY RingStep
<1> QED
  BY <1>1, <1>2, Invariance, PTL DEF Spec, Ring!Spec, ImplementsKeyRing

\* While a gate is dual, and in the step that ends it.
DualGateLosesNobody ==
  IsDual(gate) => \A s \in Matchable : s \in Matchable' \/ s \in Forgotten'

\* From the preparation of a rotation to its prune or roll back only an erasure
\* makes a source unmatchable: no page, order, task or deployment does.
THEOREM DualPhaseLosesNobody == Spec => [][DualGateLosesNobody]_vars
<1>1. ASSUME IInv, [Next]_vars PROVE DualGateLosesNobody
  <2>1. [Ring!Next]_Ring!vars
    BY <1>1, RingStep
  <2> QED
    BY <1>1, <2>1, RingFacts
       DEF Ring!Next, Ring!vars, Ring!Bootstrap, Ring!Begin, Ring!Complete, Ring!RollBack,
           Ring!Collect, Ring!Withdraw, Ring!Forget, DualGateLosesNobody
<1>2. IInv /\ [Next]_vars => [DualGateLosesNobody]_vars
  BY <1>1
<1> QED
  BY <1>2, Invariance, PTL DEF Spec

-----------------------------------------------------------------------------
(* What the missing guards cost.  The code does not keep what its comments  *)
(* say of commits, suppressions and results.  Each disagreement has one     *)
(* cause: had the code that one guard, the statement would be an invariant. *)

\* A commit only while the rotation of its member is live.
CommitsAreLive == \A s \in Sources : CommitDigests(s) => IsLive(task.rotation)

\* A suppression only of a source whose customer has the tombstone.
SuppressionsAreNarrowed == \A s \in Sources : CommitSuppressed(s) => IsErased(s)

\* A prune only with a match run that was published under the new key.
PrunesAreBound ==
  \A r \in Rotations, m \in Matches :
    PruneRotation(r, m) => label[m] = rotation[r].pair.current

\* The environment stays while a rotation lives.
EnvFollowsRotation == \A r \in Rotations : IsLive(r) => env = rotation[r].pair

\* A task of a live rotation parsed its keys while the rotation lived.
TaskFollowsRotation ==
  task.rotation # 0 =>
    /\ rotation[task.rotation].state # "none"
    /\ IsLive(task.rotation) => task.keyring = rotation[task.rotation].pair

\* A match run from before a live rotation has a key, and while its results
\* are current that is the old one.
ResultsFollowRotation ==
  \A r \in Rotations : IsLive(r) =>
    \A m \in rotation[r].before :
      /\ label[m] # NoVersion
      /\ m \in current => label[m] = rotation[r].pair.previous

\* A rotation that a step does not prepare was live before, with its pair.
LEMMA LiveStep ==
  ASSUME IInv, [Next]_vars, NEW r \in Rotations, IsLive(r)'
  PROVE  \/ PrepareRotation(r)
         \/ IsLive(r) /\ rotation'[r] = rotation[r] /\ gate' = gate
<1> USE DEF IInv
<1>1. CASE UNCHANGED <<gate, policy, rotation>>
  BY <1>1 DEF IsLive
<1>2. ASSUME NEW q \in Rotations, PrepareRotation(q) PROVE q = r
  BY <1>2 DEF PrepareRotation, IsLive, TypeOK
<1>3. ASSUME NEW q \in Rotations, AbortRotation(q) \/ \E m \in Matches : PruneRotation(q, m)
      PROVE  FALSE
  <2>1. IsLive(q) /\ ~IsLive(q)' /\ \A p \in Rotations : p # q => rotation'[p] = rotation[p]
    BY <1>3 DEF AbortRotation, PruneRotation, IsLive, TypeOK, Rotation
  <2> QED
    BY <2>1, LiveFacts DEF IsLive
<1>4. CASE StartSync \/ StartEvidence
  <2>1. IsLive(r) /\ rotation' = rotation
    BY <1>4 DEF StartSync, StartEvidence, IsLive
  <2>2. gate.current # NoVersion
    BY <2>1, LiveFacts, IdentityRotationAssumption
  <2> QED
    BY <1>4, <2>1, <2>2 DEF StartSync, StartEvidence
<1> QED
  BY <1>1, <1>2, <1>3, <1>4, StepSummary DEF Summary, KeysStep

\* No deployment while a rotation lives.
LEMMA EnvStep ==
  ASSUME IInv, EnvFollowsRotation, [Next]_vars
  PROVE  EnvFollowsRotation'
<1> SUFFICES ASSUME NEW r \in Rotations, IsLive(r)'
             PROVE  env' = rotation'[r].pair
  BY DEF EnvFollowsRotation
<1>1. ASSUME NEW k \in Keyrings, Deploy(k) PROVE ~IsLive(r)
  BY <1>1, LiveFacts DEF Deploy
<1>2. env' = env \/ \E k \in Keyrings : Deploy(k)
  BY DEF Next, vars, StartSync, NextBatch, EndSync, CommitPage, SuppressPage, StartEvidence,
         EndEvidence, CommitOrder, PrepareRotation, StartTask, NextMembers, FetchEmail,
         CommitUnavailable, CommitSuppressed, CommitDigests, EndTask, PruneRotation,
         AbortRotation, PublishMatch, EraseSubject
<1>3. CASE PrepareRotation(r)
  BY <1>3 DEF PrepareRotation, IInv, TypeOK
<1>4. CASE IsLive(r) /\ rotation'[r] = rotation[r]
  BY <1>1, <1>2, <1>4 DEF EnvFollowsRotation
<1> QED
  BY <1>3, <1>4, LiveStep

\* The task's keys are those of its rotation for as long as that lives.
LEMMA TaskKeysStep ==
  ASSUME IInv, EnvFollowsRotation, TaskFollowsRotation, [Next]_vars
  PROVE  TaskFollowsRotation'
<1> SUFFICES ASSUME task'.rotation # 0
             PROVE  TaskFollowsRotation'
  BY DEF TaskFollowsRotation
<1>1. PICK t \in Rotations : t = task'.rotation
  BY TypeStep DEF TypeOK, Task
<1>2. \/ task'.rotation = task.rotation /\ task'.keyring = task.keyring
      \/ \E batch \in SUBSET Sources : StartTask(t, batch)
  <2>1. \/ UNCHANGED task
        \/ \E r \in Rotations, batch \in SUBSET Sources : StartTask(r, batch)
        \/ \E batch \in SUBSET Sources : NextMembers(batch)
        \/ EndTask
        \/ \E s \in Sources, f \in {"email", "null"} : FetchEmail(s, f)
        \/ task' = Fetched
    BY DEF Next, vars, Deploy, StartSync, NextBatch, EndSync, CommitPage, SuppressPage,
           StartEvidence, EndEvidence, CommitOrder, PrepareRotation, CommitUnavailable,
           CommitSuppressed, CommitDigests, PruneRotation, AbortRotation, PublishMatch,
           EraseSubject
  <2>2. ASSUME NEW r \in Rotations, NEW batch \in SUBSET Sources, StartTask(r, batch)
        PROVE  t = r
    BY <1>1, <2>2 DEF StartTask, IdleTask
  <2>3. ~EndTask
    BY RecordFacts DEF EndTask
  <2>4. task \in Task
    BY DEF IInv, TypeOK
  <2>5. ASSUME \/ \E batch \in SUBSET Sources : NextMembers(batch)
               \/ \E s \in Sources, f \in {"email", "null"} : FetchEmail(s, f)
               \/ task' = Fetched
        PROVE  task'.rotation = task.rotation /\ task'.keyring = task.keyring
    BY <2>4, <2>5 DEF NextMembers, FetchEmail, Fetched, Task
  <2> QED
    BY <1>1, <2>1, <2>2, <2>3, <2>5
<1>3. rotation[t].state # "none"
  <2>1. ASSUME NEW batch \in SUBSET Sources, StartTask(t, batch) PROVE rotation[t].state # "none"
    BY <1>1, <2>1 DEF StartTask, Pending, IInv, MembersArePrepared
  <2> QED
    BY <1>1, <1>2, <2>1, RecordFacts DEF TaskFollowsRotation
<1>4. rotation'[t].state # "none"
  BY <1>1, <1>3, MembersStep DEF MembersStay
<1>5. ASSUME IsLive(t)' PROVE IsLive(t) /\ rotation'[t] = rotation[t]
  BY <1>1, <1>3, <1>5, LiveStep DEF PrepareRotation, IsNextRotation
<1>6. ASSUME IsLive(t) PROVE task'.keyring = rotation[t].pair
  <2>1. ASSUME NEW batch \in SUBSET Sources, StartTask(t, batch) PROVE task'.keyring = env
    BY <2>1 DEF StartTask, IdleTask
  <2> QED
    BY <1>1, <1>2, <1>6, <2>1 DEF TaskFollowsRotation, EnvFollowsRotation
<1> QED
  BY <1>1, <1>4, <1>5, <1>6 DEF TaskFollowsRotation, IsLive

\* Every digest that a step adds is of a key of the gate it leaves.
LEMMA AuthorizedStep ==
  ASSUME IInv, TaskFollowsRotation, DigestsAreAuthorized, CommitsAreLive, [Next]_vars
  PROVE  DigestsAreAuthorized'
<1> USE DEF IInv
<1>1. ASSUME UNCHANGED <<gate, digests>> PROVE DigestsAreAuthorized'
  BY <1>1 DEF DigestsAreAuthorized
<1>2. ASSUME StartSync PROVE DigestsAreAuthorized'
  <2>1. CASE gate.current # NoVersion
    BY <1>1, <1>2, <2>1 DEF StartSync
  <2>2. CASE gate.current = NoVersion
    <3>1. env.current \in Versions /\ In(gate') = {env.current}
      BY <1>2, <2>2, PairFacts DEF StartSync, TypeOK
    <3>2. \A s \in Sources : digests[s] \subseteq {env.current}
      BY <1>2, <2>2 DEF StartSync, GateAgrees, Retained
    <3> QED
      BY <1>2, <3>1, <3>2 DEF StartSync, DigestsAreAuthorized
  <2> QED
    BY <2>1, <2>2
<1>3. ASSUME NEW e \in Events, CommitPage(e) \/ SuppressPage(e) PROVE DigestsAreAuthorized'
  <2>1. gate' = gate /\ \A s \in Sources : digests'[s] \subseteq digests[s] \union Authorized(sync)
    BY <1>3 DEF CommitPage, SuppressPage, TypeOK
  <2> QED
    BY <2>1 DEF DigestsAreAuthorized, Authorized
<1>4. ASSUME NEW o \in Orders, NEW email \in BOOLEAN, CommitOrder(o, email)
      PROVE  DigestsAreAuthorized'
  <2>1. gate' = gate /\ \A s \in Sources : digests'[s] \subseteq digests[s] \union {evidence}
    BY <1>4 DEF CommitOrder, TypeOK
  <2>2. gate.current # NoVersion => In(gate) = {evidence}
    BY <1>4, PairFacts DEF CommitOrder, EvidencePolicy, GateFollowsRotation, In, Only, TypeOK
  <2> QED
    BY <2>1, <2>2 DEF DigestsAreAuthorized
<1>5. ASSUME NEW s \in Sources, CommitDigests(s) PROVE DigestsAreAuthorized'
  <2>1. task.rotation \in Rotations /\ IsLive(task.rotation)
    BY <1>5 DEF CommitDigests, TaskHoldsMembers, CommitsAreLive
  <2>2. task.keyring = gate
    BY <2>1, LiveFacts, RecordFacts DEF TaskFollowsRotation
  <2>3. gate' = gate /\ \A x \in Sources : digests'[x] \subseteq digests[x] \union In(gate)
    BY <1>5, <2>2 DEF CommitDigests, TypeOK
  <2> QED
    BY <2>3 DEF DigestsAreAuthorized
<1>6. ASSUME NEW r \in Rotations, PrepareRotation(r) PROVE DigestsAreAuthorized'
  <2>1. gate' = env /\ digests' = digests /\ gate = Only(env.previous) /\ env.previous # NoVersion
    BY <1>6 DEF PrepareRotation, IsDual
  <2>2. gate.current # NoVersion /\ In(gate) \subseteq In(gate')
    BY <2>1 DEF In, Only
  <2> QED
    BY <2>1, <2>2 DEF DigestsAreAuthorized
<1>7. ASSUME NEW r \in Rotations, NEW m \in Matches, PruneRotation(r, m) PROVE DigestsAreAuthorized'
  <2>1. gate.current # NoVersion /\ gate' = Only(gate.current) /\ In(gate') = {gate.current}
    BY <1>7, LiveFacts, PairFacts, IdentityRotationAssumption DEF PruneRotation
  <2>2. \A s \in Sources : digests'[s] = digests[s] \ {gate.previous}
    BY <1>7 DEF PruneRotation, Without
  <2> QED
    BY <2>1, <2>2 DEF DigestsAreAuthorized, In
<1>8. ASSUME NEW r \in Rotations, AbortRotation(r) PROVE DigestsAreAuthorized'
  <2>1. gate.current # NoVersion /\ gate' = Only(gate.previous) /\ In(gate') = {gate.previous}
    BY <1>8, LiveFacts, PairFacts, IdentityRotationAssumption DEF AbortRotation
  <2>2. \A s \in Sources : digests'[s] = digests[s] \ {gate.current}
    BY <1>8, LiveFacts DEF AbortRotation, Without
  <2> QED
    BY <2>1, <2>2 DEF DigestsAreAuthorized, In
<1>9. ASSUME NEW c \in Subjects, EraseSubject(c) PROVE DigestsAreAuthorized'
  BY <1>9 DEF EraseSubject, DigestsAreAuthorized
<1>10. \/ UNCHANGED <<gate, digests>>
       \/ StartSync
       \/ \E e \in Events : CommitPage(e) \/ SuppressPage(e)
       \/ \E o \in Orders, email \in BOOLEAN : CommitOrder(o, email)
       \/ \E s \in Sources : CommitDigests(s)
       \/ \E r \in Rotations : PrepareRotation(r) \/ AbortRotation(r)
       \/ \E r \in Rotations, m \in Matches : PruneRotation(r, m)
       \/ \E c \in Subjects : EraseSubject(c)
  BY DEF Next, vars, Deploy, NextBatch, EndSync, StartEvidence, EndEvidence, StartTask,
         NextMembers, FetchEmail, CommitUnavailable, CommitSuppressed, EndTask, PublishMatch
<1> QED
  BY <1>1, <1>2, <1>3, <1>4, <1>5, <1>6, <1>7, <1>8, <1>9, <1>10

\* Events that leave suppress the members of their own customer only.
LEMMA SuppressedStep ==
  ASSUME IInv, SuppressedWereErased, SuppressionsAreNarrowed, [Next]_vars
  PROVE  SuppressedWereErased'
<1> USE DEF IInv
<1>1. owner' = owner /\ erased \subseteq erased'
  BY StepSummary DEF Summary, EraseSubject
<1>2. \A s \in Sources : IsErased(s) => IsErased(s)'
  BY <1>1 DEF IsErased
<1>3. ASSUME \A r \in Rotations, s \in Sources :
               member'[r][s] = "suppressed" => member[r][s] = "suppressed" \/ IsErased(s)'
      PROVE  SuppressedWereErased'
  BY <1>2, <1>3 DEF SuppressedWereErased
<1>4. ASSUME NEW gone \in SUBSET Sources, member' = MembersWithout(gone),
             \A s \in gone : IsErased(s)'
      PROVE  SuppressedWereErased'
  BY <1>3, <1>4 DEF MembersWithout
<1>5. ASSUME NEW e \in Events, SuppressPage(e) PROVE SuppressedWereErased'
  <2>1. member' = MembersWithout({e}) /\ {e} \in SUBSET Sources /\ IsErased(e)'
    BY <1>2, <1>5 DEF SuppressPage, Sources
  <2> QED
    BY <1>4, <2>1
<1>6. ASSUME NEW c \in Subjects, EraseSubject(c) PROVE SuppressedWereErased'
  <2>1. PICK gone \in SUBSET {e \in Events : owner[e] = c} : member' = MembersWithout(gone)
    BY <1>6 DEF EraseSubject
  <2>2. gone \in SUBSET Sources /\ \A s \in gone : IsErased(s)'
    BY <1>1, <1>6, <2>1 DEF EraseSubject, IsErased, Sources
  <2> QED
    BY <1>4, <2>1, <2>2
<1>7. ASSUME NEW s \in Sources, NEW status \in MemberStatus, member' = WithMember(s, status),
             task.fetched # "nothing", status = "suppressed" => IsErased(s)
      PROVE  SuppressedWereErased'
  <2>1. \A r \in Rotations, t \in Sources :
          member'[r][t] = IF r = task.rotation /\ t = s THEN status ELSE member[r][t]
    BY <1>7, WithMemberFacts DEF TaskHoldsMembers
  <2> QED
    BY <1>2, <1>3, <1>7, <2>1
<1>8. ASSUME NEW s \in Sources, CommitUnavailable(s) \/ CommitSuppressed(s) \/ CommitDigests(s)
      PROVE  SuppressedWereErased'
  BY <1>3, <1>7, <1>8
     DEF CommitUnavailable, CommitSuppressed, CommitDigests, SuppressionsAreNarrowed, MemberStatus
<1>9. ASSUME NEW r \in Rotations, PrepareRotation(r) PROVE SuppressedWereErased'
  BY <1>3, <1>9 DEF PrepareRotation, TypeOK
<1>10. \/ UNCHANGED member
       \/ \E e \in Events : SuppressPage(e)
       \/ \E s \in Sources : CommitUnavailable(s) \/ CommitSuppressed(s) \/ CommitDigests(s)
       \/ \E r \in Rotations : PrepareRotation(r)
       \/ \E c \in Subjects : EraseSubject(c)
  BY DEF Next, vars, Deploy, StartSync, NextBatch, EndSync, CommitPage, StartEvidence,
         EndEvidence, CommitOrder, StartTask, NextMembers, FetchEmail, EndTask, PruneRotation,
         AbortRotation, PublishMatch
<1> QED
  BY <1>3, <1>5, <1>6, <1>8, <1>9, <1>10

\* What is current has a key in force: cutovers leave nothing of the other one.
LEMMA ResultsStep ==
  ASSUME IInv, ResultsFollowRotation, ResultsUseKeysInForce, PrunesAreBound, [Next]_vars
  PROVE  ResultsFollowRotation' /\ ResultsUseKeysInForce'
<1> USE DEF IInv
<1>1. ASSUME NEW r \in Rotations, IsLive(r)' PROVE rotation'[r] = rotation[r] \/ PrepareRotation(r)
  BY <1>1, LiveStep
<1>2. ASSUME label' = label, current' \subseteq current, ~\E r \in Rotations : PrepareRotation(r)
      PROVE  ResultsFollowRotation'
  BY <1>2, LiveStep DEF ResultsFollowRotation, TypeOK, Rotation
<1>3. ASSUME label' = label, current' \subseteq current, gate' = gate PROVE ResultsUseKeysInForce'
  BY <1>3 DEF ResultsUseKeysInForce
<1>4. ASSUME StartSync PROVE ResultsFollowRotation' /\ ResultsUseKeysInForce'
  <2>1. gate.current # NoVersion \/ current = {}
    BY PairFacts DEF ResultsUseKeysInForce, UnsetIsNotDual, IsDual, In
  <2>2. ResultsUseKeysInForce'
    BY <1>4, <2>1 DEF StartSync, ResultsUseKeysInForce
  <2> QED
    BY <1>4, <2>2 DEF StartSync, ResultsFollowRotation, IsLive
<1>5. ASSUME NEW r \in Rotations, PrepareRotation(r)
      PROVE  ResultsFollowRotation' /\ ResultsUseKeysInForce'
  <2>1. /\ env.previous \in Versions /\ gate = Only(env.previous) /\ In(gate) = {env.previous}
        /\ In(gate) \subseteq In(gate')
        /\ rotation'[r].pair = env /\ rotation'[r].before = {m \in Matches : label[m] # NoVersion}
        /\ \A q \in Rotations : IsLive(q)' => q = r
        /\ label' = label /\ current' = current
    BY <1>5, PairFacts DEF PrepareRotation, IsLive, IsDual, In, Only, TypeOK
  <2> QED
    BY <2>1 DEF ResultsFollowRotation, ResultsUseKeysInForce
<1>6. ASSUME NEW r \in Rotations, NEW m \in Matches, PruneRotation(r, m)
      PROVE  ResultsFollowRotation' /\ ResultsUseKeysInForce'
  <2>1. /\ current' = {m} /\ label' = label /\ label[m] = gate.current
        /\ In(gate') = {gate.current}
    BY <1>6, LiveFacts, PairFacts DEF PruneRotation, PrunesAreBound
  <2>2. \A q \in Rotations : ~IsLive(q)'
    BY <1>6, LiveFacts DEF PruneRotation, IsLive, TypeOK
  <2> QED
    BY <2>1, <2>2 DEF ResultsFollowRotation, ResultsUseKeysInForce
<1>7. ASSUME NEW r \in Rotations, AbortRotation(r)
      PROVE  ResultsFollowRotation' /\ ResultsUseKeysInForce'
  <2>1. \A m \in current : label[m] = gate.previous
    BY <1>7, LiveFacts, IdentityRotationAssumption
       DEF AbortRotation, ResultsFollowRotation, ResultsUseKeysInForce, In, TypeOK
  <2>2. In(gate') = {gate.previous} /\ label' = label /\ current' = current
    BY <1>7, LiveFacts, PairFacts DEF AbortRotation
  <2>3. \A q \in Rotations : ~IsLive(q)'
    BY <1>7, LiveFacts DEF AbortRotation, IsLive, TypeOK
  <2> QED
    BY <2>1, <2>2, <2>3 DEF ResultsFollowRotation, ResultsUseKeysInForce
<1>8. ASSUME NEW m \in Matches, PublishMatch(m)
      PROVE  ResultsFollowRotation' /\ ResultsUseKeysInForce'
  <2>1. /\ label[m] = NoVersion /\ label' = [label EXCEPT ![m] = gate.current]
        /\ current' \subseteq current \union {m} /\ rotation' = rotation /\ gate' = gate
        /\ gate.current \in In(gate)
    BY <1>8 DEF PublishMatch, In
  <2>2. ResultsUseKeysInForce'
    BY <2>1 DEF ResultsUseKeysInForce, TypeOK
  <2>3. ResultsFollowRotation'
    BY <2>1 DEF ResultsFollowRotation, IsLive, TypeOK, Rotation
  <2> QED
    BY <2>2, <2>3
<1>9. \/ UNCHANGED <<gate, label, rotation>> /\ current' \subseteq current
      \/ StartSync \/ StartEvidence
      \/ \E r \in Rotations : PrepareRotation(r) \/ AbortRotation(r)
      \/ \E r \in Rotations, m \in Matches : PruneRotation(r, m)
      \/ \E m \in Matches : PublishMatch(m)
  BY DEF Next, vars, Deploy, NextBatch, EndSync, CommitPage, SuppressPage, EndEvidence,
         CommitOrder, StartTask, NextMembers, FetchEmail, CommitUnavailable, CommitSuppressed,
         CommitDigests, EndTask, EraseSubject, Supersede
<1>10. ASSUME StartEvidence PROVE UNCHANGED <<gate, label, rotation, current>>
  BY <1>10 DEF StartEvidence
<1>11. ASSUME UNCHANGED <<gate, label, rotation>>, current' \subseteq current
       PROVE  ResultsFollowRotation' /\ ResultsUseKeysInForce'
  BY <1>11 DEF ResultsFollowRotation, ResultsUseKeysInForce, IsLive, TypeOK, Rotation
<1> QED
  BY <1>4, <1>5, <1>6, <1>7, <1>8, <1>9, <1>10, <1>11

\* Were a member committed only while its rotation lives, no digest would have
\* a version outside the gate: a task that outlives its rotation is the only
\* writer that can add one.
THEOREM LiveCommitsAreAuthorized ==
  Spec /\ [][CommitsAreLive]_vars => []DigestsAreAuthorized
<1> DEFINE AInv == IInv /\ EnvFollowsRotation /\ TaskFollowsRotation /\ DigestsAreAuthorized
<1>1. Init => AInv
  BY InitInv, RecordFacts
     DEF Init, EnvFollowsRotation, TaskFollowsRotation, DigestsAreAuthorized, IsLive, NoRotation,
         Unset, Only
<1>2. AInv /\ [Next]_vars /\ [CommitsAreLive]_vars => AInv'
  <2>1. ASSUME AInv, [Next]_vars, CommitsAreLive PROVE AInv'
    BY <2>1, IInvStep, EnvStep, TaskKeysStep, AuthorizedStep
  <2>2. ASSUME AInv, UNCHANGED vars PROVE AInv'
    BY <2>2, IInvStep DEF vars, EnvFollowsRotation, TaskFollowsRotation, DigestsAreAuthorized, IsLive
  <2> QED
    BY <2>1, <2>2
<1> QED
  BY <1>1, <1>2, PTL DEF Spec

\* Were a suppression narrowed to the customer of its source, every suppressed
\* member would be one of an erased customer.
THEOREM NarrowedSuppressionsAreErasures ==
  Spec /\ [][SuppressionsAreNarrowed]_vars => []SuppressedWereErased
<1> DEFINE SInv == IInv /\ SuppressedWereErased
<1>1. Init => SInv
  BY InitInv DEF Init, SuppressedWereErased
<1>2. SInv /\ [Next]_vars /\ [SuppressionsAreNarrowed]_vars => SInv'
  <2>1. ASSUME SInv, [Next]_vars, SuppressionsAreNarrowed PROVE SInv'
    BY <2>1, IInvStep, SuppressedStep
  <2>2. ASSUME SInv, UNCHANGED vars PROVE SInv'
    BY <2>2, IInvStep DEF vars, SuppressedWereErased, IsErased
  <2> QED
    BY <2>1, <2>2
<1> QED
  BY <1>1, <1>2, PTL DEF Spec

\* Were a prune bound to a match run of the new key, results would be current
\* only under keys in force: matching and rollback already keep it.
THEOREM BoundPrunesKeepKeysInForce ==
  Spec /\ [][PrunesAreBound]_vars => []ResultsUseKeysInForce
<1> DEFINE RInv == IInv /\ ResultsFollowRotation /\ ResultsUseKeysInForce
<1>1. Init => RInv
  BY InitInv DEF Init, ResultsFollowRotation, ResultsUseKeysInForce, IsLive, NoRotation
<1>2. RInv /\ [Next]_vars /\ [PrunesAreBound]_vars => RInv'
  <2>1. ASSUME RInv, [Next]_vars, PrunesAreBound PROVE RInv'
    BY <2>1, IInvStep, ResultsStep
  <2>2. ASSUME RInv, UNCHANGED vars PROVE RInv'
    BY <2>2, IInvStep DEF vars, ResultsFollowRotation, ResultsUseKeysInForce, IsLive
  <2> QED
    BY <2>1, <2>2
<1> QED
  BY <1>1, <1>2, PTL DEF Spec
=============================================================================
