---------------------------- MODULE TradingState ----------------------------
(***************************************************************************)
(* The trading state machine: stored message versions are applied to the   *)
(* tables one transaction per message, and the broker executor reports the *)
(* outcome of the commands it took from the outbox.                        *)
(*                                                                         *)
(* `db` is what is committed.  A transaction of apply_parsed_message works *)
(* on `work`, one step per event, and ends with a commit or, when the      *)
(* process dies or raises, with a rollback.  Transactions do not overlap   *)
(* here, as in the only caller there is (replay).                          *)
(***************************************************************************)
EXTENDS TradingSafety, FiniteSets

CONSTANTS Contents,       \* event sequences the parser produces
          MaxStored,      \* bound: stored versions of all messages together
          MaxCrashes,     \* bound: rolled back transactions
          ReportStates,   \* command states the executor reports
          StaleDelivery,  \* may an older version be applied after a newer?
          ChannelOf(_)    \* the channel of a message

ASSUME ContentsAssumption == Contents \subseteq Seq(Event)

ASSUME BoundsAssumption == MaxStored \in Nat /\ MaxCrashes \in Nat

ASSUME ReportsAssumption == ReportStates \subseteq OutboxState \ {"BLOCKED"}

ASSUME SwitchAssumption == StaleDelivery \in BOOLEAN

ASSUME ChannelAssumption == \A m \in Messages : ChannelOf(m) \in Channels

VARIABLES stored,    \* per message, its stored versions
          db,        \* committed tables
          work,      \* the tables as the open transaction sees them
          tx,        \* the message version being applied, or None
          results,   \* what the events applied so far in tx yielded
          crashes    \* rolled back transactions

vars == <<stored, db, work, tx, results, crashes>>

Version == [day : Days, events : Contents]

Transaction == [msg : Messages, ver : Nat]

Result == [type : EventType, outcome : Outcome, cmd : Nat]

\* The rows of every table and the open transaction are of the types the schema
\* and the enums of the domain allow.
TypeOK ==
    /\ stored \in [Messages -> Seq(Version)]
    /\ db \in Tables
    /\ work \in Tables
    /\ tx \in Transaction \cup {None}
    /\ results \in Seq(Result)
    /\ crashes \in Nat

Init ==
    /\ stored = [m \in Messages |-> <<>>]
    /\ db = EmptyTables
    /\ work = EmptyTables
    /\ tx = None
    /\ results = <<>>
    /\ crashes = 0

(***************************************************************************)
(* Ingestion commits a new version of a message on its own, before the     *)
(* message is parsed and applied: the process may die in between.          *)
(***************************************************************************)
StoredVersions ==
    {mv \in Messages \X (1 .. MaxStored) : mv[2] \in DOMAIN stored[mv[1]]}

Ingest(m, version) ==
    /\ tx = None
    /\ Cardinality(StoredVersions) < MaxStored
    /\ stored' = [stored EXCEPT ![m] = Append(@, version)]
    /\ UNCHANGED <<db, work, tx, results, crashes>>

(***************************************************************************)
(* The transaction of apply_parsed_message                                 *)
(***************************************************************************)
\* Only applied events count as handled.
Handled_Fault(d, key) ==
    \E p \in d.processed : p.key = key /\ p.outcome = "APPLIED"

Handled(d, key) == \E p \in d.processed : p.key = key

Key(m, v, i) == [msg |-> m, ver |-> v, idx |-> i]

\* Every event of a stored version has its row.
VersionProcessed(d, m, v) ==
    \A i \in DOMAIN stored[m][v].events : Handled(d, Key(m, v, i))

InOrder(m, v) ==
    \/ VersionProcessed(db, m, v)
    \/ \A p \in db.processed : p.key.msg = m => p.key.ver <= v

\* First delivery, or delivery again, of a stored version.
Begin(m, v) ==
    /\ tx = None
    /\ v \in DOMAIN stored[m]
    /\ StaleDelivery \/ InOrder(m, v)
    /\ tx' = [msg |-> m, ver |-> v]
    /\ UNCHANGED <<stored, db, work, results, crashes>>

Current == stored[tx.msg][tx.ver]

Book == <<ChannelOf(tx.msg), Current.day>>

Index == Len(results) + 1

CurrentKey == Key(tx.msg, tx.ver, Index)

CurrentEvent == Current.events[Index]

EventPending == tx # None /\ Index \in DOMAIN Current.events

\* Only the version right before this one is compared with.
PriorRows_Fault ==
    {p \in work.processed : /\ p.key.msg = tx.msg
                            /\ p.key.idx = Index
                            /\ p.key.ver + 1 = tx.ver}

\* Rows of the same event of earlier versions of the message.
PriorRows ==
    {p \in work.processed : /\ p.key.msg = tx.msg
                            /\ p.key.idx = Index
                            /\ p.key.ver < tx.ver}

LatestPrior ==
    CHOOSE p \in PriorRows : \A q \in PriorRows : q.key.ver <= p.key.ver

Yield(outcome, cmd) ==
    /\ results' = Append(results, [type |-> CurrentEvent.type,
                                   outcome |-> outcome, cmd |-> cmd])
    /\ UNCHANGED <<stored, db, tx, crashes>>

\* A duplicate is recorded once more.
ReplayEvent_Fault ==
    /\ EventPending
    /\ \E p \in work.processed : p.key = CurrentKey /\ Yield(p.outcome, 0)
    /\ work' = Record(work, CurrentKey, CurrentEvent, "NOOP")

\* The event was handled by an earlier delivery: its outcome is returned,
\* without the ids of the commands it emitted.
ReplayEvent ==
    /\ EventPending
    /\ \E p \in work.processed : p.key = CurrentKey /\ Yield(p.outcome, 0)
    /\ UNCHANGED work

\* The guarded event leaves no row.
GuardEditedEvent_Fault ==
    /\ EventPending
    /\ ~Handled(work, CurrentKey)
    /\ PriorRows # {}
    /\ LET outcome == IF LatestPrior.event = CurrentEvent
                      THEN "NOOP" ELSE "MANUAL_REVIEW"
       IN  Yield(outcome, 0)
    /\ UNCHANGED work

\* An edit that repeats the event of the version before it does nothing, one
\* that changes it is left to manual review.
GuardEditedEvent ==
    /\ EventPending
    /\ ~Handled(work, CurrentKey)
    /\ PriorRows # {}
    /\ LET outcome == IF LatestPrior.event = CurrentEvent
                      THEN "NOOP" ELSE "MANUAL_REVIEW"
       IN  /\ work' = Record(work, CurrentKey, CurrentEvent, outcome)
           /\ Yield(outcome, 0)

Apply(type, mutation) ==
    /\ EventPending
    /\ CurrentEvent.type = type
    /\ ~Handled(work, CurrentKey)
    /\ PriorRows = {}
    /\ work' = Record(mutation.tables, CurrentKey, CurrentEvent,
                      mutation.outcome)
    /\ Yield(mutation.outcome, mutation.cmd)

\* The cancellations earlier in the same message; a placement depends on the
\* last of them.
Cancellations ==
    {r \in DOMAIN results : results[r].type = "CANCEL_PENDING_ORDER"}

LastCancellation ==
    results[CHOOSE r \in Cancellations : \A s \in Cancellations : s <= r]

Unresolved ==
    /\ Cancellations # {}
    /\ LastCancellation.outcome # "APPLIED" \/ LastCancellation.cmd = 0

Dependency == IF Cancellations = {} THEN 0 ELSE LastCancellation.cmd

ApplyPlace ==
    Apply("PLACE_PENDING_ORDER",
          PlacePendingOrder(work, Book, CurrentKey, CurrentEvent, Unresolved,
                            Dependency))

ApplyCancel ==
    Apply("CANCEL_PENDING_ORDER",
          CancelPendingOrder(work, Book, CurrentKey, CurrentEvent))

ApplyTriggered ==
    Apply("MARK_ORDER_TRIGGERED", MarkOrderTriggered(work, Book, CurrentEvent))

ApplyResult ==
    Apply("RECORD_TRADE_RESULT", RecordTradeResult(work, Book, CurrentEvent))

ApplyEndSession == Apply("END_SESSION", EndSession(work, Book))

ApplyNoTradingDay == Apply("NO_TRADING_DAY", NoTradingDay(work, Book))

ApplyManualReview == Apply("REQUEST_MANUAL_REVIEW", Review(work))

ApplyEvent ==
    \/ ReplayEvent
    \/ GuardEditedEvent
    \/ ApplyPlace
    \/ ApplyCancel
    \/ ApplyTriggered
    \/ ApplyResult
    \/ ApplyEndSession
    \/ ApplyNoTradingDay
    \/ ApplyManualReview

Commit ==
    /\ tx # None
    /\ Index \notin DOMAIN Current.events
    /\ db' = work
    /\ tx' = None
    /\ results' = <<>>
    /\ UNCHANGED <<stored, work, crashes>>

Rollback ==
    /\ tx # None
    /\ crashes < MaxCrashes
    /\ crashes' = crashes + 1
    /\ work' = db
    /\ tx' = None
    /\ results' = <<>>
    /\ UNCHANGED <<stored, db>>

(***************************************************************************)
(* The executor reports on a command it took from the outbox, so never on  *)
(* a blocked one; reports may repeat.                                      *)
(***************************************************************************)
Report(c, state) ==
    /\ tx = None
    /\ db.commands[c].state # "BLOCKED"
    /\ LateReports \/ db.commands[c].state # "SUCCEEDED" \/ state = "SUCCEEDED"
    /\ db' = UpdateOutboxCommandState(db, c, state)
    /\ work' = db'
    /\ UNCHANGED <<stored, tx, results, crashes>>

Next ==
    \/ \E m \in Messages, version \in Version : Ingest(m, version)
    \/ \E m \in Messages : \E v \in DOMAIN stored[m] : Begin(m, v)
    \/ ApplyEvent
    \/ Commit
    \/ Rollback
    \/ \E c \in DOMAIN db.commands, s \in ReportStates : Report(c, s)

Spec == Init /\ [][Next]_vars

(***************************************************************************)
(* The worker goes on with the transaction it has open, and delivery is at *)
(* least once: a version that is not processed is delivered again.         *)
(***************************************************************************)
Redeliver(m, v) == Begin(m, v) /\ ~VersionProcessed(db, m, v)

FairSpec ==
    /\ Spec
    /\ WF_vars(ApplyEvent)
    /\ WF_vars(Commit)
    /\ \A m \in Messages : \A v \in 1 .. MaxStored : SF_vars(Redeliver(m, v))

(***************************************************************************)
(* Safety: the parts of TradingSafety, of the committed tables and of the  *)
(* open transaction.                                                       *)
(***************************************************************************)
\* CancelInSync of the committed tables and of the open transaction.
CancelInSyncInv == CancelInSync(db) /\ CancelInSync(work)

\* PositionsAreFilledOrders of both.
PositionsInv == PositionsAreFilledOrders(db) /\ PositionsAreFilledOrders(work)

\* ReplacementWaits of both.
ReplacementInv == ReplacementWaits(db) /\ ReplacementWaits(work)

\* SessionsRespected of both.
SessionsInv == SessionsRespected(db) /\ SessionsRespected(work)

\* OneCommandPerEvent of both.
OneCommandInv == OneCommandPerEvent(db) /\ OneCommandPerEvent(work)

\* Effectively-once broker intent: whatever was delivered again, edited or
\* rolled back, one instruction of one message led to at most one command.
\* Needs versions to be applied in order (_find_prior_processed_event only
\* looks at older versions).
OneIntentPerInstruction ==
    \A c, k \in DOMAIN db.commands :
        /\ db.commands[c].key.msg = db.commands[k].key.msg
        /\ db.commands[c].key.idx = db.commands[k].key.idx
        => c = k

\* A replacement is released only after every cancellation ordered before it
\* in the same message has succeeded ("no replacement until the prior
\* cancellation is known"); the code waits for the last one only.
ReplacementAfterEveryCancel ==
    \A c, k \in DOMAIN db.commands :
        LET place == db.commands[c]
            cancel == db.commands[k]
        IN  /\ place.type = "PLACE_PENDING_ORDER" /\ place.state # "BLOCKED"
            /\ IsCancel(cancel)
            /\ cancel.key.msg = place.key.msg /\ cancel.key.ver = place.key.ver
            /\ cancel.key.idx < place.key.idx
            => cancel.state = "SUCCEEDED"

(***************************************************************************)
(* Action properties: what no committed step may do.                       *)
(***************************************************************************)

\* An order that is cancelled or filled stays so ("terminal"), whatever message is
\* applied or report comes in.  Not true if a report may contradict an earlier success:
\* update_outbox_command_state does not look at the state it overwrites.
TerminalOrdersStay ==
    [][\A o \in DOMAIN db.orders :
           db.orders[o].state \in {"CANCELLED", "FILLED"} =>
               db'.orders[o].state = db.orders[o].state]_vars

\* A filled order stays filled, and a cancelled one leaves that state only with a report
\* that takes back the success of its own cancellation: no message, edit or redelivery
\* and no report about another order moves it, even if reports contradict each other.
SettledUnlessTakenBack ==
    [][\A o \in DOMAIN db.orders :
           /\ db.orders[o].state \in {"CANCELLED", "FILLED"}
           /\ db'.orders[o].state # db.orders[o].state
           => /\ db.orders[o].state = "CANCELLED"
              /\ \E c \in DOMAIN db.commands :
                     /\ CancelsOrder(db, c, o)
                     /\ db.commands[c].state = "SUCCEEDED"
                     /\ db'.commands[c].state # "SUCCEEDED"]_vars

\* No order ever returns to pending and no position is closed twice, even if
\* the executor contradicts itself.
ClosedStaysClosed ==
    [][/\ \A o \in DOMAIN db.orders :
              db.orders[o].state # "PENDING" => db'.orders[o].state # "PENDING"
       /\ \A p \in DOMAIN db.positions :
              db.positions[p].state # "ACTIVE" =>
                  db'.positions[p] = db.positions[p]]_vars

OrdersOf(d, s) ==
    {o \in DOMAIN d.orders :
        d.orders[o].book = s[1] /\ d.orders[o].instrument = s[2]}

\* A session that was ended or closed for the day stays closed and gets no
\* order, by whatever message and with or without an explicit instrument.
ClosedSessionsTakeNoOrders ==
    [][\A s \in Books \X Instruments :
           db.sessions[s] \in {"ENDED", "NO_TRADING"} =>
               /\ db'.sessions[s] \in {"ENDED", "NO_TRADING"}
               /\ OrdersOf(db', s) = OrdersOf(db, s)]_vars

\* A message only touches the sessions, orders and positions of its channel
\* and of the UTC date it was sent or edited on.
MessagesStayInTheirBook ==
    [][tx # None =>
         /\ \A o \in DOMAIN db.orders :
                db.orders[o].book # Book => db'.orders[o] = db.orders[o]
         /\ \A p \in DOMAIN db.positions :
                db.orders[db.positions[p].order].book # Book =>
                    db'.positions[p] = db.positions[p]
         /\ \A s \in Books \X Instruments :
                s[1] # Book => db'.sessions[s] = db.sessions[s]]_vars

\* Applying a version that was fully applied before changes nothing.
ReplayChangesNothing ==
    [][tx # None /\ tx' = None /\ VersionProcessed(db, tx.msg, tx.ver)
           => db' = db]_vars

(***************************************************************************)
(* Liveness                                                                *)
(***************************************************************************)

\* Every stored version is eventually applied, or queued for review, in full,
\* although its transaction may be rolled back and others come in between.
EveryVersionProcessed ==
    \A m \in Messages : \A v \in 1 .. MaxStored :
        v \in DOMAIN stored[m] ~>
            v \in DOMAIN stored[m] /\ VersionProcessed(db, m, v)

(***************************************************************************)
(* The committed tables implement CancelReplace, unless reports contradict *)
(* a success.                                                              *)
(***************************************************************************)
OrderLife(d, o) ==
    CASE d.orders[o].state = "PENDING" -> "OPEN"
      [] d.orders[o].state = "FILLED" ->
             IF \E p \in DOMAIN d.positions : /\ d.positions[p].order = o
                                              /\ d.positions[p].state = "ACTIVE"
             THEN "FILLED" ELSE "CLOSED"
      [] d.orders[o].state = "CANCELLED" -> "CANCELLED"
      [] OTHER -> "CANCELLING"

PlacementsOf(d, o) ==
    {c \in DOMAIN d.commands : ~IsCancel(d.commands[c]) /\ d.commands[c].order = o}

\* The order whose cancellation the placement of order o waits for.
ReplacedBy(d, o) ==
    LET waitsFor == d.commands[The(PlacementsOf(d, o))].depends
    IN  IF waitsFor = 0 THEN 0 ELSE d.commands[waitsFor].order

Released(d, o) ==
    \E c \in PlacementsOf(d, o) : d.commands[c].state # "BLOCKED"

Saga ==
    INSTANCE CancelReplace WITH
        life <- [o \in DOMAIN db.orders |-> OrderLife(db, o)],
        replaces <- [o \in DOMAIN db.orders |-> ReplacedBy(db, o)],
        placed <- {o \in DOMAIN db.orders : Released(db, o)}

\* Refinement: every committed step is a step of the saga or changes none of
\* its state.
ImplementsCancelReplace == Saga!Spec

=============================================================================
