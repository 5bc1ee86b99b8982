---------------------------- MODULE MCRetention ----------------------------
(* The instance of Retention that TLC checks. *)
EXTENDS Retention
=============================================================================
