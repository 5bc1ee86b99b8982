--------------------------- MODULE MCMetricBinding ---------------------------
(* The instance of MetricBinding that TLC checks. *)
EXTENDS MetricBinding, TLC

\* The provider's metric ids are interchangeable.
BindingSymmetry == Permutations(Bindings)
=============================================================================
