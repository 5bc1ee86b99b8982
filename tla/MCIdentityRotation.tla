------------------------- MODULE MCIdentityRotation -------------------------
(* The instance of IdentityRotation that TLC checks. *)
EXTENDS IdentityRotation, TLC

\* Labels and customers are interchangeable.
RotationSymmetry == Permutations(Versions) \union Permutations(Subjects)
=============================================================================
