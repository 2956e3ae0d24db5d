---------------------------- MODULE TradingSafety ----------------------------
(***************************************************************************)
(* What one consistent content d of the tables of TradingTables is: the    *)
(* tables agree with each other.  TradingState states each part of the     *)
(* committed tables and of those inside a transaction; MessagePipeline, of *)
(* tables that several workers write.                                      *)
(***************************************************************************)
EXTENDS TradingTables

CONSTANT LateReports   \* may a report contradict an earlier success?

ASSUME ReportsMayBeLate == LateReports \in BOOLEAN

IsCancel(c) == c.type = "CANCEL_PENDING_ORDER"

\* The orders table and the outbox tell the same story of a cancellation:
\* an order has the state that its cancel command's state stands for, an order
\* in a cancel state has a command, and no order has two
\* (update_outbox_command_state and _apply_cancel_pending_order write both).
CancelInSync(d) ==
    /\ \A c \in DOMAIN d.commands :
           IsCancel(d.commands[c]) =>
               /\ d.commands[c].order \in DOMAIN d.orders
               /\ d.orders[d.commands[c].order].state
                    = OrderStateOfCancel(d.commands[c].state)
    /\ \A o \in DOMAIN d.orders :
           d.orders[o].state \notin {"PENDING", "FILLED"} =>
               \E c \in DOMAIN d.commands :
                   IsCancel(d.commands[c]) /\ d.commands[c].order = o
    /\ \A c, k \in DOMAIN d.commands :
           /\ IsCancel(d.commands[c]) /\ IsCancel(d.commands[k])
           /\ d.commands[c].order = d.commands[k].order
           => c = k

\* Positions are the filled orders, one each: a trigger never reaches an order
\* twice, and no cancellation reaches a filled order.
PositionsAreFilledOrders(d) ==
    /\ \A p \in DOMAIN d.positions :
           /\ d.positions[p].order \in DOMAIN d.orders
           /\ d.orders[d.positions[p].order].state = "FILLED"
    /\ \A p, q \in DOMAIN d.positions :
           d.positions[p].order = d.positions[q].order => p = q
    /\ \A o \in DOMAIN d.orders :
           d.orders[o].state = "FILLED" =>
               \E p \in DOMAIN d.positions : d.positions[p].order = o

\* A blocked placement waits for a cancellation that has not succeeded, so no
\* release was missed; and unless reports contradict a success, a placement
\* that depends on a cancellation is only released once that has succeeded.
ReplacementWaits(d) ==
    \A c \in DOMAIN d.commands :
        LET k == d.commands[c].depends
        IN  /\ d.commands[c].state = "BLOCKED" => k # 0
            /\ k # 0 =>
                 /\ k \in DOMAIN d.commands
                 /\ IsCancel(d.commands[k])
                 /\ ~IsCancel(d.commands[c])
                 /\ d.commands[c].state = "BLOCKED" =>
                        d.commands[k].state # "SUCCEEDED"
                 /\ d.commands[c].state # "BLOCKED" /\ ~LateReports =>
                        d.commands[k].state = "SUCCEEDED"

\* Every order belongs to a session, and on a no-trading day no session takes
\* orders: neither one that was open nor one opened later.
SessionsRespected(d) ==
    /\ \A o \in DOMAIN d.orders :
           d.sessions[<<d.orders[o].book, d.orders[o].instrument>>] # None
    /\ \A s \in Books \X Instruments :
           s[1] \in d.noTrading => d.sessions[s] \notin OpenSession

\* An event is handled once, and every command stems from its own applied
\* event (the effect of the unique event_key and idempotency_key).
OneCommandPerEvent(d) ==
    /\ \A p, q \in d.processed : p.key = q.key => p = q
    /\ \A c, k \in DOMAIN d.commands :
           d.commands[c].key = d.commands[k].key => c = k
    /\ \A c \in DOMAIN d.commands : \E p \in d.processed :
           /\ p.key = d.commands[c].key
           /\ p.outcome = "APPLIED"
           /\ p.event.type = d.commands[c].type
=============================================================================
