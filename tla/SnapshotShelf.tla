---------------------------- MODULE SnapshotShelf ----------------------------
(***************************************************************************)
(* What the snapshots of one scope promise to their readers, with no       *)
(* pages, leases, attempts, addresses or counts in sight.  A shelf of runs *)
(* shows at most one: a published one, that holds every event of the scope *)
(* but those of profiles that are gone.  A run is opened in the place of   *)
(* the one under way, and fails or is published; a profile that goes is    *)
(* taken from every snapshot in the same step.  Snapshots.tla is shown to  *)
(* implement this.                                                         *)
(***************************************************************************)
EXTENDS Naturals

CONSTANTS
  Runs,        \* numbers of runs, in the order they are opened
  Events,      \* the events of the scope
  Profiles,    \* the profiles of these events
  ProfileOf    \* the profile of each event

VARIABLES
  status,      \* what became of each run
  shown,       \* the snapshot that readers see, if any
  held,        \* the events of each published run
  gone         \* profiles that were erased

vars == <<status, shown, held, gone>>

Remaining(events, lost) == {e \in events : ProfileOf[e] \notin lost}

Init ==
  /\ status = [r \in Runs |-> "none"]
  /\ shown = {}
  /\ held = [r \in Runs |-> {}]
  /\ gone = {}

\* A run is opened; one that was under way is given up.
Open(r) ==
  /\ status[r] = "none"
  /\ status' = [q \in Runs |-> IF q = r THEN "running"
                               ELSE IF status[q] = "running" THEN "failed" ELSE status[q]]
  /\ UNCHANGED <<shown, held, gone>>

Fail(r) ==
  /\ status[r] = "running"
  /\ status' = [status EXCEPT ![r] = "failed"]
  /\ UNCHANGED <<shown, held, gone>>

\* A run takes the place of an older one, and holds the whole scope.  Profiles
\* may go in the same step.
Publish(r) ==
  /\ status[r] = "running" /\ \A q \in shown : q < r
  /\ status' = [status EXCEPT ![r] = "published"]
  /\ shown' = {r}
  /\ gone \subseteq gone' /\ gone' \subseteq Profiles
  /\ held' = [q \in Runs |-> Remaining(IF q = r THEN Events ELSE held[q], gone')]

\* Profiles go, from every snapshot at once.
Forget ==
  /\ gone \subseteq gone' /\ gone' \subseteq Profiles
  /\ held' = [q \in Runs |-> Remaining(held[q], gone')]
  /\ UNCHANGED <<status, shown>>

Next ==
  \/ \E r \in Runs : Open(r) \/ Fail(r) \/ Publish(r)
  \/ Forget

Spec == Init /\ [][Next]_vars
=============================================================================
