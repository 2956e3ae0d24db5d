------------------------- MODULE MCMessagePipeline --------------------------
(* Small instances of MessagePipeline for TLC. *)
EXTENDS MessagePipeline, TLC

CONSTANTS ch, d1, nq, t1, t2, m1, m2, w1, w2, k1, k2, k3

Ev(type, side, terms) ==
    [type |-> type, instrument |-> IF terms = t1 THEN nq ELSE None,
     side |-> side, terms |-> terms, result |-> None]

Says(key, events) == [key |-> key, day |-> d1, events |-> events]

Entry == Says(k1, <<Ev("PLACE_PENDING_ORDER", "BUY", t1)>>)
Replacement == Says(k2, <<Ev("CANCEL_PENDING_ORDER", "BUY", None),
                          Ev("PLACE_PENDING_ORDER", "BUY", t2)>>)
Trigger == Says(k3, <<Ev("MARK_ORDER_TRIGGERED", "BUY", None)>>)

\* An entry, its replacement, and what may race with both.
ThreeContents == {Entry, Replacement, Trigger}

Symmetry == Permutations({w1, w2}) \cup Permutations({m1, m2})

MCChannelOf(m) == ch
=============================================================================
