--------------------------- MODULE MCControlPlane ---------------------------
(* Small instances of ControlPlane for TLC. *)
EXTENDS ControlPlane, TLC

CONSTANTS h1, h2

Symmetry == Permutations({h1, h2})
=============================================================================
