------------------------------- MODULE KeyRing -------------------------------
(***************************************************************************)
(* What the identity keys of a store promise to matching and to privacy,   *)
(* with no gate, policy, task, lock or digest in sight.  A ring of keys is *)
(* in force, and a source is matchable if it can be found under a key of   *)
(* the ring.  A rotation puts a second key on the ring and takes one off,  *)
(* and whichever it takes off, nobody gets lost: while there are two keys  *)
(* only an erasure makes a source unmatchable, and what was erased never   *)
(* comes back.  IdentityRotation.tla is shown to implement this.           *)
(***************************************************************************)

CONSTANTS
  Sources,     \* whose identity can be matched: events and orders
  Versions,    \* labels of keys
  NoVersion    \* no key

VARIABLES
  ring,        \* the key in force, and the one it replaces during a rotation
  matchable,   \* sources that are found under a key of the ring
  forgotten    \* sources of erased customers

vars == <<ring, matchable, forgotten>>

Only(v) == [current |-> v, previous |-> NoVersion]

IsSet == ring.current # NoVersion

IsDual == ring.previous # NoVersion

Init ==
  /\ ring = Only(NoVersion)
  /\ matchable = {}
  /\ forgotten = {}

\* The first key finds what was already stored under it.
Bootstrap ==
  /\ ~IsSet
  /\ \E v \in Versions : ring' = Only(v)
  /\ matchable' \subseteq Sources \ forgotten
  /\ UNCHANGED forgotten

\* A rotation begins: both keys count, so that no source is lost.
Begin ==
  /\ IsSet /\ ~IsDual
  /\ \E v \in Versions \ {ring.current} : ring' = [current |-> v, previous |-> ring.current]
  /\ matchable \subseteq matchable' /\ matchable' \subseteq Sources \ forgotten
  /\ UNCHANGED forgotten

\* It ends with the new key alone, or it is rolled back to the old one.
Complete ==
  /\ IsDual
  /\ ring' = Only(ring.current)
  /\ UNCHANGED <<matchable, forgotten>>

RollBack ==
  /\ IsDual
  /\ ring' = Only(ring.previous)
  /\ UNCHANGED <<matchable, forgotten>>

\* A source gets a digest of a key of the ring.
Collect(s) ==
  /\ IsSet /\ s \notin forgotten
  /\ UNCHANGED <<ring, forgotten>>
  /\ matchable' = matchable \union {s}

\* A source loses its email at the provider; not while a rotation runs.
Withdraw(s) ==
  /\ IsSet /\ ~IsDual
  /\ UNCHANGED <<ring, forgotten>>
  /\ matchable' = matchable \ {s}

\* The sources of one customer are erased.
Forget(gone) ==
  /\ UNCHANGED ring
  /\ forgotten' = forgotten \union gone
  /\ matchable' = matchable \ gone

Next ==
  \/ Bootstrap \/ Begin \/ Complete \/ RollBack
  \/ \E s \in Sources : Collect(s) \/ Withdraw(s)
  \/ \E gone \in SUBSET Sources : Forget(gone)

Spec == Init /\ [][Next]_vars
=============================================================================
