------------------------------ MODULE MCClaimReplay ------------------------------
(* The instance of ClaimReplay that TLC checks. *)
EXTENDS ClaimReplay, TLC

CONSTANTS o1

\* The row ids run against the order of occurrence.
MCRowId == <<2, 1>>
MCOrders == {o1}

\* Both pairs have the order in their window; the first one's run may miss it.
MCEventsIn == <<{}, {1, 2}>>
MCOrdersIn == <<{o1}, {o1}>>

MCScope == <<1, 1>>
MCLinks == {(<<1, o1>> :> 4) @@ (<<2, o1>> :> 3)}
MCContents == {[i \in Items |-> 1]}
MCEdits == {<<1, 1>>}
===============================================================================
