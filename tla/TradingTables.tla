---------------------------- MODULE TradingTables ----------------------------
(***************************************************************************)
(* The tables of the trading-state repository and what one interpreted     *)
(* event, or one broker report, does to them.                              *)
(*                                                                         *)
(* A value `d` of Tables is one consistent content of the tables sessions, *)
(* no_trading_days, orders, positions, command_outbox and                  *)
(* processed_events.  Rows with generated UUIDs (orders, positions,        *)
(* commands) are elements of a sequence and their id is their index: every *)
(* insert takes a fresh id.  A session is identified by its unique         *)
(* constraint (channel, UTC date, instrument).  Prices are one value of    *)
(* Terms (entry, stop loss, take profits); the parser only produces STOP   *)
(* orders, so the side stands for side and order type.                     *)
(*                                                                         *)
(* An operator whose name ends in _Fault is not part of the model: it is   *)
(* the next operator with a plausible bug seeded in it, against which the  *)
(* properties are tested.                                                  *)
(***************************************************************************)
EXTENDS Naturals, Sequences

CONSTANTS Channels,      \* configured Telegram channels
          Days,          \* UTC trading dates
          Instruments,   \* instrument names
          Terms,         \* price terms of a pending order
          Messages,      \* message ids of the channels
          None           \* an absent value

(***************************************************************************)
(* Values                                                                  *)
(***************************************************************************)
Side == {"BUY", "SELL"}

SessionState == {"ACCEPTING_SIGNALS", "NO_TRADING", "ENDING", "ENDED",
                 "PAUSED_BY_OPERATOR", "ERROR_RECONCILIATION"}

ASSUME NoneAssumption ==
    None \notin Instruments /\ None \notin Terms /\ None \notin SessionState

OrderState == {"PENDING", "CANCEL_REQUESTED", "CANCEL_UNKNOWN",
               "CANCEL_FAILED", "FILLED", "CANCELLED", "REJECTED"}

PositionState == {"ACTIVE", "CLOSED_TP", "CLOSED_SL", "CLOSED_BREAK_EVEN",
                  "CLOSED_MANUAL"}

OutboxState == {"BLOCKED", "PENDING", "SUCCEEDED", "UNKNOWN", "FAILED"}

Outcome == {"APPLIED", "NOOP", "MANUAL_REVIEW"}

ResultKind == {"TP", "SL", "BREAK_EVEN"}

CommandType == {"PLACE_PENDING_ORDER", "CANCEL_PENDING_ORDER"}

EventType == CommandType \cup {"MARK_ORDER_TRIGGERED", "RECORD_TRADE_RESULT",
                               "END_SESSION", "NO_TRADING_DAY",
                               "REQUEST_MANUAL_REVIEW"}

\* A book is what one snapshot holds: the sessions of a channel on a UTC date.
Books == Channels \X Days

\* Every event carries the fields of all event types; the unused ones are None.
Event == {e \in [type : EventType, instrument : Instruments \cup {None},
                 side : Side \cup {None}, terms : Terms \cup {None},
                 result : ResultKind \cup {None}] :
            /\ e.type = "PLACE_PENDING_ORDER" => e.side \in Side /\ e.terms \in Terms
            /\ e.type = "RECORD_TRADE_RESULT" => e.result \in ResultKind}

EventKey == [msg : Messages, ver : Nat, idx : Nat]

Order == [book : Books, instrument : Instruments, side : Side,
          terms : Terms, state : OrderState]

Position == [order : Nat, state : PositionState]

\* depends = 0 is a command that depends on no other command.
Command == [key : EventKey, type : CommandType, order : Nat, depends : Nat,
            state : OutboxState]

Processed == [key : EventKey, event : Event, outcome : Outcome]

Tables == [sessions : [Books \X Instruments -> SessionState \cup {None}],
           noTrading : SUBSET Books,
           orders : Seq(Order),
           positions : Seq(Position),
           commands : Seq(Command),
           processed : SUBSET Processed]

EmptyTables == [sessions |-> [s \in Books \X Instruments |-> None],
                noTrading |-> {}, orders |-> <<>>, positions |-> <<>>,
                commands |-> <<>>, processed |-> {}]

(***************************************************************************)
(* What applying an event yields: the new tables, the outcome recorded for *)
(* the event and the id of the command it emitted (0 if none).             *)
(***************************************************************************)
Mutation(d, outcome, cmd) ==
    [tables |-> d, outcome |-> outcome, cmd |-> cmd]

Review(d) == Mutation(d, "MANUAL_REVIEW", 0)

Noop(d) == Mutation(d, "NOOP", 0)

(***************************************************************************)
(* Queries on a snapshot                                                   *)
(***************************************************************************)
OpenSession == {"ACCEPTING_SIGNALS", "ENDING"}

\* A cancelled order, or one being cancelled, is taken for a pending one.
PendingOrders_StateFault(d, b, side) ==
    {o \in DOMAIN d.orders : /\ d.orders[o].book = b
                             /\ d.orders[o].state # "FILLED"
                             /\ d.orders[o].side = side}

\* The session is not looked at.
PendingOrders_BookFault(d, b, side) ==
    {o \in DOMAIN d.orders : /\ d.orders[o].state = "PENDING"
                             /\ d.orders[o].side = side}

PendingOrders(d, b, side) ==
    {o \in DOMAIN d.orders : /\ d.orders[o].book = b
                             /\ d.orders[o].state = "PENDING"
                             /\ d.orders[o].side = side}

ActivePositions(d, b) ==
    {p \in DOMAIN d.positions : /\ d.orders[d.positions[p].order].book = b
                                /\ d.positions[p].state = "ACTIVE"}

SessionsIn(d, b, states) ==
    {i \in Instruments : d.sessions[<<b, i>>] \in states}

Unique(S) == \E x \in S : S = {x}

The(S) == CHOOSE x \in S : TRUE

\* The instrument of the session a placement goes to, None if unresolved.
ResolvedInstrument(d, b, instrument) ==
    LET candidates == SessionsIn(d, b, OpenSession \cup {"ENDED"})
    IN  IF instrument # None THEN instrument
        ELSE IF Unique(candidates) THEN The(candidates) ELSE None

(***************************************************************************)
(* The handlers of apply_parsed_message, one operator per event type       *)
(***************************************************************************)

\* The no-trading day is not looked at.
RefusesEntry_DayFault(d, b, e, unresolved) ==
    LET i == ResolvedInstrument(d, b, e.instrument)
    IN  \/ unresolved
        \/ i = None
        \/ d.sessions[<<b, i>>] \in {"ENDED", "NO_TRADING"}

\* An ended session still takes orders.
RefusesEntry_EndedFault(d, b, e, unresolved) ==
    LET i == ResolvedInstrument(d, b, e.instrument)
    IN  \/ unresolved
        \/ b \in d.noTrading
        \/ i = None

\* A placement that follows an unresolved cancellation, on a no-trading day,
\* without a session or in a closed session is left to manual review.
RefusesEntry(d, b, e, unresolved) ==
    LET i == ResolvedInstrument(d, b, e.instrument)
    IN  \/ unresolved
        \/ b \in d.noTrading
        \/ i = None
        \/ d.sessions[<<b, i>>] \in {"ENDED", "NO_TRADING"}

AlreadyPending(d, b, i, e) ==
    \E o \in PendingOrders(d, b, e.side) :
        d.orders[o].instrument = i /\ d.orders[o].terms = e.terms

\* What the command's state is when it is inserted.
InitialPlaceState_Fault(depends) == "PENDING"

InitialPlaceState(depends) == IF depends = 0 THEN "PENDING" ELSE "BLOCKED"

NewOrder(b, i, e) == [book |-> b, instrument |-> i, side |-> e.side,
                      terms |-> e.terms, state |-> "PENDING"]

NewPlace(d, key, depends) ==
    [key |-> key, type |-> "PLACE_PENDING_ORDER", order |-> Len(d.orders) + 1,
     depends |-> depends, state |-> InitialPlaceState(depends)]

\* A session that does not exist is opened.
OpenFor(d, b, i) ==
    IF d.sessions[<<b, i>>] = None
    THEN [d.sessions EXCEPT ![<<b, i>>] = "ACCEPTING_SIGNALS"]
    ELSE d.sessions

WithPlacement(d, sessions, order, place) ==
    [d EXCEPT !.sessions = sessions,
              !.orders = Append(@, order),
              !.commands = Append(@, place)]

PlacePendingOrder(d, b, key, e, unresolved, depends) ==
    LET i == ResolvedInstrument(d, b, e.instrument)
    IN  IF RefusesEntry(d, b, e, unresolved) THEN Review(d)
        ELSE IF AlreadyPending(d, b, i, e) THEN Noop(d)
        ELSE Mutation(WithPlacement(d, OpenFor(d, b, i), NewOrder(b, i, e),
                                    NewPlace(d, key, depends)),
                      "APPLIED", Len(d.commands) + 1)

\* Order o goes to a new state, in the orders table.
WithOrderState(d, o, state) ==
    [d.orders EXCEPT ![o] = [@ EXCEPT !.state = state]]

NewCancel(key, o) == [key |-> key, type |-> "CANCEL_PENDING_ORDER", order |-> o,
                      depends |-> 0, state |-> "PENDING"]

WithCancellation(d, o, cancel) ==
    [d EXCEPT !.orders = WithOrderState(d, o, "CANCEL_REQUESTED"),
              !.commands = Append(@, cancel)]

CancelPendingOrder(d, b, key, e) ==
    LET targets == PendingOrders(d, b, e.side)
    IN  IF ~Unique(targets) THEN Review(d)
        ELSE Mutation(WithCancellation(d, The(targets),
                                       NewCancel(key, The(targets))),
                      "APPLIED", Len(d.commands) + 1)

\* The position of a filled order, unless there is one already.
WithFill(d, o) ==
    [d EXCEPT !.orders = WithOrderState(d, o, "FILLED"),
              !.positions = IF \E p \in DOMAIN @ : @[p].order = o THEN @
                            ELSE Append(@, [order |-> o, state |-> "ACTIVE"])]

MarkOrderTriggered(d, b, e) ==
    LET targets == PendingOrders(d, b, e.side)
    IN  IF ~Unique(targets) THEN Review(d)
        ELSE Mutation(WithFill(d, The(targets)), "APPLIED", 0)

PositionStateOf(kind) ==
    IF kind = "TP" THEN "CLOSED_TP"
    ELSE IF kind = "SL" THEN "CLOSED_SL" ELSE "CLOSED_BREAK_EVEN"

ClosedPosition(d, p, state) ==
    [d.positions EXCEPT ![p] = [@ EXCEPT !.state = state]]

WithPositionState(d, p, state) ==
    [d EXCEPT !.positions = ClosedPosition(d, p, state)]

RecordTradeResult(d, b, e) ==
    LET targets == ActivePositions(d, b)
    IN  IF ~Unique(targets) THEN Review(d)
        ELSE Mutation(WithPositionState(d, The(targets),
                                        PositionStateOf(e.result)),
                      "APPLIED", 0)

WithSessionState(d, s, state) ==
    [d EXCEPT !.sessions = [@ EXCEPT ![s] = state]]

EndSession(d, b) ==
    LET targets == SessionsIn(d, b, OpenSession)
    IN  IF ~Unique(targets) THEN Review(d)
        ELSE Mutation(WithSessionState(d, <<b, The(targets)>>, "ENDED"),
                      "APPLIED", 0)

\* All open sessions of the book are closed for the day.
ClosedForTheDay(d, b) ==
    [s \in Books \X Instruments |->
        IF s[1] = b /\ d.sessions[s] \in OpenSession
        THEN "NO_TRADING" ELSE d.sessions[s]]

WithNoTrading(d, b) ==
    [d EXCEPT !.noTrading = @ \cup {b}, !.sessions = ClosedForTheDay(d, b)]

NoTradingDay(d, b) ==
    IF b \in d.noTrading THEN Noop(d)
    ELSE Mutation(WithNoTrading(d, b), "APPLIED", 0)

\* The row every handled event leaves in processed_events.
Record(d, key, e, outcome) ==
    [d EXCEPT !.processed =
        @ \cup {[key |-> key, event |-> e, outcome |-> outcome]}]

(***************************************************************************)
(* update_outbox_command_state                                             *)
(***************************************************************************)
\* The broker's name for an unknown state, which the table does not have.
OrderStateOfCancel_NameFault(state) ==
    IF state = "SUCCEEDED" THEN "CANCELLED"
    ELSE IF state = "UNKNOWN" THEN "UNKNOWN_BROKER_STATE"
    ELSE IF state = "FAILED" THEN "CANCEL_FAILED" ELSE "CANCEL_REQUESTED"

\* A cancellation that did not succeed makes the order pending again.
OrderStateOfCancel_PendingFault(state) ==
    IF state = "SUCCEEDED" THEN "CANCELLED"
    ELSE IF state \in {"FAILED", "UNKNOWN"} THEN "PENDING" ELSE "CANCEL_REQUESTED"

OrderStateOfCancel(state) ==
    IF state = "SUCCEEDED" THEN "CANCELLED"
    ELSE IF state = "UNKNOWN" THEN "CANCEL_UNKNOWN"
    ELSE IF state = "FAILED" THEN "CANCEL_FAILED" ELSE "CANCEL_REQUESTED"

\* The command a report is about tells the state of the order it cancels.
CancelsOrder(d, c, o) ==
    d.commands[c].type = "CANCEL_PENDING_ORDER" /\ d.commands[c].order = o

\* The order is only touched by a success.
ReportedOrder_Fault(d, c, state, o) ==
    IF CancelsOrder(d, c, o) /\ state = "SUCCEEDED"
    THEN OrderStateOfCancel(state) ELSE d.orders[o].state

ReportedOrder(d, c, state, o) ==
    IF CancelsOrder(d, c, o)
    THEN OrderStateOfCancel(state) ELSE d.orders[o].state

\* Any answer about the cancellation releases what waits for it.
Releases_Fault(d, c, state, k) ==
    d.commands[k].depends = c /\ d.commands[k].state = "BLOCKED"

\* A success of command c releases the commands that wait for it.
Releases(d, c, state, k) ==
    /\ state = "SUCCEEDED"
    /\ d.commands[k].depends = c
    /\ d.commands[k].state = "BLOCKED"

\* The command's state, the state of the order it cancels, and the releases,
\* in one transaction.
UpdateOutboxCommandState(d, c, state) ==
    [d EXCEPT
       !.orders = [o \in DOMAIN d.orders |->
           [d.orders[o] EXCEPT !.state = ReportedOrder(d, c, state, o)]],
       !.commands = [k \in DOMAIN d.commands |->
           [d.commands[k] EXCEPT !.state =
               IF k = c THEN state
               ELSE IF Releases(d, c, state, k) THEN "PENDING" ELSE @]]]

=============================================================================
