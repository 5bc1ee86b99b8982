------------------------------ MODULE RunLedger ------------------------------
(***************************************************************************)
(* What an event sync run promises, with no workers, tasks, leases or     *)
(* retries in sight.  A connection keeps a ledger of runs.  At most one   *)
(* run is open.  An open run walks its pages in canonical order, one page *)
(* at a time, and succeeds only from the end of that walk; it may be      *)
(* aborted at any moment, and another run may take its place in the same  *)
(* step.  EventSync.tla is shown to implement this.                        *)
(***************************************************************************)
EXTENDS Naturals

CONSTANTS
  MaxRuns,    \* runs the ledger can hold
  Kinds       \* metric kinds of a source contract, walked in order

VARIABLE ledger

Runs == 1..MaxRuns

\* One entry of the ledger: its outcome so far and how far it has walked.
Entry == [status : {"absent", "running", "success", "failed"},
          at     : [kind : Nat, page : Nat]]

Origin == [kind |-> 0, page |-> 0]

IsOpen(r) == ledger[r].status = "running"

Init == ledger = [r \in Runs |-> [status |-> "absent", at |-> Origin]]

\* A run is opened at the first page while no other run is open.
Open(r) ==
  /\ \A q \in Runs : ~IsOpen(q)
  /\ ledger[r].status = "absent"
  /\ ledger' = [ledger EXCEPT ![r] = [status |-> "running", at |-> Origin]]

\* One page is taken: either its kind has another page or the next kind begins.
Turn(r) ==
  /\ IsOpen(r)
  /\ ledger[r].at.kind < Kinds
  /\ \E at \in {[kind |-> ledger[r].at.kind, page |-> ledger[r].at.page + 1],
                [kind |-> ledger[r].at.kind + 1, page |-> 0]} :
       ledger' = [ledger EXCEPT ![r].at = at]

\* A run succeeds only when every kind has been walked to its end.
Close(r) ==
  /\ IsOpen(r)
  /\ ledger[r].at.kind = Kinds
  /\ ledger' = [ledger EXCEPT ![r].status = "success"]

Abort(r) ==
  /\ IsOpen(r)
  /\ ledger' = [ledger EXCEPT ![r].status = "failed"]

\* An abandoned run is closed as failed and another one opened at once.
Supersede(q, r) ==
  /\ IsOpen(q)
  /\ ledger[r].status = "absent"
  /\ ledger' = [ledger EXCEPT
                  ![q].status = "failed",
                  ![r] = [status |-> "running", at |-> Origin]]

Next ==
  \/ \E r \in Runs : Open(r) \/ Turn(r) \/ Close(r) \/ Abort(r)
  \/ \E q, r \in Runs : Supersede(q, r)

Spec == Init /\ [][Next]_ledger
=============================================================================
