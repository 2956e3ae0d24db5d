--------------------------- MODULE MCTradingState ---------------------------
(***************************************************************************)
(* Small instances of TradingState: the message shapes of the sample       *)
(* conversations (two-sided entry, trigger with replacement, cancel with   *)
(* session end, result, no-trading day, review).                           *)
(***************************************************************************)
EXTENDS TradingState, TLC

CONSTANTS ch, d1, d2, nq, t1, t2, m1, m2, m3

Ev(type, side, terms, result) ==
    [type |-> type,
     instrument |-> IF type = "PLACE_PENDING_ORDER" /\ terms = t1 THEN nq ELSE None,
     side |-> side, terms |-> terms, result |-> result]

PlaceEv(side, terms) == Ev("PLACE_PENDING_ORDER", side, terms, None)
CancelEv(side) == Ev("CANCEL_PENDING_ORDER", side, None, None)
TriggerEv(side) == Ev("MARK_ORDER_TRIGGERED", side, None, None)
ResultEv == Ev("RECORD_TRADE_RESULT", None, None, "TP")
EndEv == Ev("END_SESSION", None, None, None)
NoTradingEv == Ev("NO_TRADING_DAY", None, None, None)
ReviewEv == Ev("REQUEST_MANUAL_REVIEW", None, None, None)

Straddle == <<PlaceEv("BUY", t1), PlaceEv("SELL", t1)>>
TriggerAndReplace == <<TriggerEv("SELL"), CancelEv("BUY"), PlaceEv("BUY", t2)>>
ReplaceBoth == <<CancelEv("SELL"), CancelEv("BUY"), PlaceEv("BUY", t2)>>
CancelAndEnd == <<CancelEv("SELL"), EndEv>>

MCContents == {Straddle, TriggerAndReplace, CancelAndEnd, <<CancelEv("BUY")>>,
               <<ResultEv>>, <<NoTradingEv>>, <<ReviewEv>>}

\* Instructions that may be edited into one another.
EditContents == {Straddle, TriggerAndReplace,
                 <<CancelEv("BUY"), PlaceEv("BUY", t2)>>}

\* What one day's messages may do to the other day's orders, an order that is cancelled
\* in the message that places it, and a message of which nothing is left.
LiveContents == {<<PlaceEv("SELL", t1)>>, <<PlaceEv("SELL", t1), CancelEv("SELL")>>,
                 <<TriggerEv("SELL")>>, <<CancelEv("SELL")>>, <<ResultEv, EndEv>>,
                 <<NoTradingEv>>, <<>>}

\* Two pending orders replaced by one.
ReplaceContents == {Straddle, ReplaceBoth}

MessageSymmetry == Permutations(Messages)

MCChannelOf(m) == ch

=============================================================================
