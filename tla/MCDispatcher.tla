---------------------------- MODULE MCDispatcher ----------------------------
(* Small instances of Dispatcher for TLC. *)
EXTENDS Dispatcher, TLC

CONSTANTS t1, c1, d1, d2, d3, h1, h2, r1, r2

\* Two deliveries of one dispatch and one of a CI result.
TwoAndACheck == (d1 :> t1) @@ (d2 :> t1) @@ (d3 :> c1)
\* One delivery of a dispatch.
OneDispatch == d1 :> t1

Symmetry == Permutations({h1, h2})
=============================================================================
