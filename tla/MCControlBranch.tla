-------------------------- MODULE MCControlBranch ---------------------------
(* Small instances of ControlBranch for TLC. *)
EXTENDS ControlBranch, TLC

CONSTANTS r1, r2, r3, m1, p1, p2, x, y

Symmetry == Permutations({r1, r2, r3})

\* Two contents for one path, and one more path for the same id.
SomeDocs == {[path |-> p1, id |-> m1, content |-> x],
             [path |-> p1, id |-> m1, content |-> y],
             [path |-> p2, id |-> m1, content |-> x]}
=============================================================================
