-------------------------- MODULE MCMessageParser ---------------------------
(* Small instances of MessageParser for TLC. *)
EXTENDS MessageParser

CONSTANTS p1, p2, nq

L(kind, arg) == [kind |-> kind, arg |-> arg, split |-> FALSE]
Split(kind, arg) == [kind |-> kind, arg |-> arg, split |-> TRUE]

Order(side, v) == <<L("SIDE", side), L("ENTRY", v), L("SL", v), L("TP", v)>>
Short(side, v) == <<L("SIDE", side), L("ENTRY", v), L("SL", v)>>

\* Two headers and two orders; an order without its take profit, and a take
\* profit; every phrase, whole and split.
AllFragments ==
    {<<L("HEADER", p1)>>, <<L("HEADER", p2)>>, <<L("INSTRUMENT", nq)>>,
     Order("BUY", 1), Order("BUY", 2), Order("SELL", 1), Short("SELL", 2),
     <<L("TP", 1)>>,
     <<L("TRIGGERED", "SELL")>>, <<L("DELETE", "BUY")>>, <<L("VAGUE_DELETE", None)>>,
     <<L("END", None)>>, <<L("BREAK_EVEN", None)>>, <<L("RESULT", "TP")>>,
     <<Split("TRIGGERED", "SELL")>>, <<Split("DELETE", "BUY")>>, <<Split("END", None)>>,
     <<L("NO_TRADING", None)>>, <<L("RISK", None)>>, <<L("PROMOTION", None)>>,
     <<L("EDUCATIONAL", None)>>, <<L("OTHER", None)>>}
=============================================================================
