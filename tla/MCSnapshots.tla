---------------------------- MODULE MCSnapshots ----------------------------
(* Two overlapping pages of one profile, or of two.                          *)
EXTENDS Snapshots
Overlapping == [n \in 1..2 |-> IF n = 1 THEN {"e1"} ELSE {"e1", "e2"}]
Senders == [e \in {"e1", "e2"} |-> "p1"]
=============================================================================
