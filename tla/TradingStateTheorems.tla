------------------------ MODULE TradingStateTheorems ------------------------
(***************************************************************************)
(* The theorems about TradingState: the inductive invariant IInv, which    *)
(* every handler keeps by the lemmas of TradingSafetyProofs, and the       *)
(* properties that follow from it.                                         *)
(***************************************************************************)
EXTENDS TradingState, TradingSafetyProofs

(***************************************************************************)
(* The inductive invariant                                                 *)
(***************************************************************************)

\* A cancellation that an event of the open transaction emitted is in the
\* outbox and not yet reported on: so a placement that depends on it starts
\* BLOCKED on a cancellation that has not succeeded.
CommandsOfTx ==
    \A r \in DOMAIN results :
        LET c == results[r].cmd
        IN  /\ results[r].type = "CANCEL_PENDING_ORDER"
            /\ results[r].outcome = "APPLIED"
            /\ c # 0
            => /\ c \in DOMAIN work.commands
               /\ IsCancel(work.commands[c])
               /\ work.commands[c].state = "PENDING"

\* Outside a transaction nothing is pending; inside one the version applied is
\* a stored one and the tables come after the committed ones.
TxInv ==
    /\ tx = None => results = <<>> /\ work = db
    /\ tx # None => tx.msg \in Messages /\ tx.ver \in DOMAIN stored[tx.msg]
    /\ Follows(db, work)
    /\ CommandsOfTx

IInv ==
    /\ TypeOK
    /\ Good(db) /\ Good(work)
    /\ OneCommandPerEvent(db) /\ OneCommandPerEvent(work)
    /\ TxInv

\* The tables start empty.
LEMMA InitInv == ASSUME Init PROVE IInv
<1>1. TypeOK
  BY EmptyType, BoundsAssumption DEF Init, TypeOK
<1>2. Good(db) /\ Good(work)
  BY EmptyGood DEF Init
<1>3. OneCommandPerEvent(db) /\ OneCommandPerEvent(work)
  BY DEF Init, OneCommandPerEvent, EmptyTables
<1>4. TxInv
  BY DEF Init, TxInv, Follows, CommandsOfTx
<1> QED  BY <1>1, <1>2, <1>3, <1>4 DEF IInv

\* A new stored version changes no table.
LEMMA IngestInv ==
  ASSUME IInv, NEW m \in Messages, NEW version \in Version, Ingest(m, version)
  PROVE  IInv'
<1>1. /\ tx = None /\ stored' = [stored EXCEPT ![m] = Append(@, version)]
      /\ UNCHANGED <<db, work, tx, results, crashes>>
  BY DEF Ingest
<1>2. TypeOK'
  <2>1. stored' \in [Messages -> Seq(Version)]
    BY <1>1 DEF IInv, TypeOK
  <2> QED  BY <1>1, <2>1 DEF IInv, TypeOK
<1>3. TxInv'
  BY <1>1 DEF IInv, TxInv, Follows, CommandsOfTx
<1> QED  BY <1>1, <1>2, <1>3 DEF IInv

\* A transaction begins on the committed tables.
LEMMA BeginInv ==
  ASSUME IInv, NEW m \in Messages, NEW v \in DOMAIN stored[m], Begin(m, v)
  PROVE  IInv'
<1>1. /\ tx' = [msg |-> m, ver |-> v] /\ v \in DOMAIN stored[m] /\ tx = None
      /\ UNCHANGED <<stored, db, work, results, crashes>>
  BY DEF Begin
<1>2. v \in Nat
  <2>1. stored[m] \in Seq(Version)
    BY DEF IInv, TypeOK
  <2> QED  BY <2>1
<1>3. tx' \in Transaction
  BY <1>1, <1>2 DEF Transaction
<1>4. TypeOK'
  BY <1>1, <1>3 DEF IInv, TypeOK
<1>5. TxInv'
  <2>1. results = <<>> /\ work = db
    BY <1>1 DEF IInv, TxInv
  <2>2. tx'.msg = m /\ tx'.ver = v
    BY <1>1
  <2> QED  BY <1>1, <2>1, <2>2 DEF IInv, TxInv, Follows, CommandsOfTx
<1> QED  BY <1>1, <1>4, <1>5 DEF IInv

\* The event being applied, its key and its book are of the right type.
LEMMA CurrentTypes ==
  ASSUME IInv, EventPending
  PROVE  /\ tx \in Transaction
         /\ CurrentEvent \in Event
         /\ CurrentKey \in EventKey
         /\ Book \in Books
<1>1. tx \in Transaction /\ tx # None
  BY DEF EventPending, IInv, TypeOK
<1>2. Current \in Version
  <2>1. stored[tx.msg] \in Seq(Version) /\ tx.ver \in DOMAIN stored[tx.msg]
    BY <1>1 DEF IInv, TypeOK, TxInv
  <2> QED  BY <2>1 DEF Current
<1>3. Current.events \in Seq(Event) /\ Current.day \in Days
  BY <1>2, ContentsAssumption DEF Version
<1>4. CurrentEvent \in Event
  BY <1>3 DEF CurrentEvent, EventPending
<1>5. CurrentKey \in EventKey
  <2>1. Len(results) \in Nat
    BY DEF IInv, TypeOK
  <2> QED  BY <1>1, <2>1 DEF CurrentKey, Key, EventKey, Index, Transaction
<1>6. Book \in Books
  BY <1>1, <1>3, ChannelAssumption DEF Book, Books, Transaction
<1> QED  BY <1>1, <1>4, <1>5, <1>6

\* What an applied event must leave for the invariant to hold on.
LEMMA EventInv ==
  ASSUME IInv, EventPending, NEW outcome \in Outcome, NEW cmd \in Nat,
         Yield(outcome, cmd),
         work' \in Tables, Good(work'), OneCommandPerEvent(work'),
         Follows(work, work'),
         CurrentEvent.type = "CANCEL_PENDING_ORDER" /\ cmd # 0 =>
             /\ cmd \in DOMAIN work'.commands
             /\ IsCancel(work'.commands[cmd])
             /\ work'.commands[cmd].state = "PENDING"
  PROVE  IInv'
<1> DEFINE row == [type |-> CurrentEvent.type, outcome |-> outcome, cmd |-> cmd]
<1>1. results' = Append(results, row) /\ UNCHANGED <<stored, db, tx, crashes>>
  BY DEF Yield
<1>2. results \in Seq(Result) /\ row \in Result
  BY CurrentTypes DEF Result, Event, IInv, TypeOK
<1>3. row.type = CurrentEvent.type /\ row.cmd = cmd
  OBVIOUS
<1> HIDE DEF row
<1>4. TypeOK'
  BY <1>1, <1>2 DEF IInv, TypeOK
<1>5. /\ DOMAIN results = 1 .. Len(results) /\ Len(results) \in Nat
      /\ DOMAIN results' = 1 .. Len(results) + 1
      /\ \A r \in DOMAIN results : results'[r] = results[r]
      /\ results'[Len(results) + 1] = row
  BY <1>1, <1>2
<1>6. CommandsOfTx'
  <2> SUFFICES ASSUME NEW r \in DOMAIN results',
                      results'[r].type = "CANCEL_PENDING_ORDER",
                      results'[r].outcome = "APPLIED", results'[r].cmd # 0
               PROVE  /\ results'[r].cmd \in DOMAIN work'.commands
                      /\ IsCancel(work'.commands[results'[r].cmd])
                      /\ work'.commands[results'[r].cmd].state = "PENDING"
    BY DEF CommandsOfTx
  <2>1. CASE r \in DOMAIN results
    BY <1>5, <2>1 DEF IInv, TxInv, CommandsOfTx, Follows
  <2>2. CASE r = Len(results) + 1
    BY <1>3, <1>5, <2>2
  <2> QED  BY <1>5, <2>1, <2>2
<1>7. Follows(db, work')
  BY FollowsTransitive DEF IInv, TxInv
<1>8. tx # None /\ tx' = tx /\ stored' = stored /\ db' = db
  BY <1>1 DEF EventPending
<1>9. TxInv'
  BY <1>6, <1>7, <1>8 DEF IInv, TxInv
<1> QED  BY <1>1, <1>4, <1>9 DEF IInv

\* An event handled by an earlier delivery keeps the invariant.
LEMMA ReplayEventInv == ASSUME IInv, ReplayEvent PROVE IInv'
<1>1. EventPending /\ UNCHANGED work
  BY DEF ReplayEvent
<1>2. PICK p \in work.processed : Yield(p.outcome, 0)
  BY DEF ReplayEvent
<1>3. p.outcome \in Outcome
  <2>1. p \in Processed
    BY ColumnTypes DEF IInv, TypeOK
  <2> QED  BY <2>1 DEF Processed
<1>4. Follows(work, work')
  BY <1>1 DEF Follows
<1>5. work' \in Tables /\ Good(work') /\ OneCommandPerEvent(work')
  BY <1>1 DEF IInv, TypeOK
<1> QED  BY <1>1, <1>2, <1>3, <1>4, <1>5, EventInv

\* An event guarded by the edit check keeps the invariant.
LEMMA GuardEditedEventInv == ASSUME IInv, GuardEditedEvent PROVE IInv'
<1> DEFINE outcome == IF LatestPrior.event = CurrentEvent
                      THEN "NOOP" ELSE "MANUAL_REVIEW"
           mu == Mutation(work, outcome, 0)
<1>1. /\ EventPending /\ ~Handled(work, CurrentKey)
      /\ work' = Record(work, CurrentKey, CurrentEvent, outcome)
      /\ Yield(outcome, 0)
  BY DEF GuardEditedEvent
<1>2. CurrentEvent \in Event /\ CurrentKey \in EventKey
  BY <1>1, CurrentTypes
<1>3. outcome \in Outcome /\ outcome # "APPLIED"
  BY DEF Outcome
<1>4. mu.tables = work /\ mu.outcome = outcome /\ mu.cmd = 0
  BY DEF Mutation
<1> HIDE DEF outcome, mu
<1>5. Sound(work, mu, CurrentKey, CurrentEvent.type)
  BY <1>3, <1>4 DEF Sound, Emits, CommandOf, Follows, IInv, TypeOK
<1>6. /\ work' \in Tables /\ Good(work') /\ Follows(work, work')
      /\ OneCommandPerEvent(work')
  BY <1>1, <1>2, <1>4, <1>5, RecordSound DEF Handled, IInv, TypeOK
<1> QED  BY <1>1, <1>3, <1>6, EventInv

\* The common part of all handlers.
LEMMA ApplyInv ==
  ASSUME IInv, NEW type, NEW mu, Apply(type, mu),
         Sound(work, mu, CurrentKey, type)
  PROVE  IInv'
<1>1. /\ EventPending /\ CurrentEvent.type = type /\ ~Handled(work, CurrentKey)
      /\ work' = Record(mu.tables, CurrentKey, CurrentEvent, mu.outcome)
      /\ Yield(mu.outcome, mu.cmd)
  BY DEF Apply
<1>2. CurrentEvent \in Event /\ CurrentKey \in EventKey
  BY <1>1, CurrentTypes
<1>3. /\ work' \in Tables /\ Good(work') /\ Follows(work, work')
      /\ OneCommandPerEvent(work')
  BY <1>1, <1>2, RecordSound DEF Handled, IInv, TypeOK
<1>4. /\ mu.tables \in Tables /\ mu.outcome \in Outcome /\ mu.cmd \in Nat
      /\ CommandOf(work, mu, CurrentKey, type)
  BY DEF Sound, Emits
<1>5. work'.commands = mu.tables.commands
  <2>1. Same(work', mu.tables, {"processed"})
    BY <1>1, <1>2, <1>4, RecordRows
  <2> QED  BY <2>1 DEF Same
<1>6. CurrentEvent.type = "CANCEL_PENDING_ORDER" /\ mu.cmd # 0 =>
          /\ mu.cmd \in DOMAIN work'.commands
          /\ IsCancel(work'.commands[mu.cmd])
          /\ work'.commands[mu.cmd].state = "PENDING"
  BY <1>1, <1>4, <1>5 DEF CommandOf, IsCancel
<1> QED  BY <1>1, <1>3, <1>4, <1>6, EventInv

\* A placement that is not left to review depends on nothing or on a
\* cancellation that is still pending.
LEMMA DependencyAwaited ==
  ASSUME IInv
  PROVE  Dependency \in Nat /\ (~Unresolved => Awaited(work, Dependency))
<1>1. CASE Cancellations = {}
  BY <1>1 DEF Dependency, Awaited
<1>2. CASE Cancellations # {}
  <2> DEFINE last == CHOOSE r \in Cancellations : \A s \in Cancellations : s <= r
  <2>1. results \in Seq(Result)
    BY DEF IInv, TypeOK
  <2>2. last \in Cancellations
    <3>1. Cancellations \subseteq 1 .. Len(results) /\ Len(results) \in Nat
      BY <2>1 DEF Cancellations
    <3>2. PICK m \in Cancellations : \A s \in Cancellations : s <= m
      BY <1>2, <3>1, GreatestIndex
    <3> QED  BY <3>2
  <2>3. last \in DOMAIN results /\ results[last].type = "CANCEL_PENDING_ORDER"
    BY <2>2 DEF Cancellations
  <2>4. LastCancellation = results[last]
    BY DEF LastCancellation
  <2> HIDE DEF last
  <2>5. results[last] \in Result
    BY <2>1, <2>3
  <2>6. Dependency = results[last].cmd
    BY <1>2, <2>4 DEF Dependency
  <2>7. ~Unresolved => results[last].outcome = "APPLIED" /\ results[last].cmd # 0
    BY <1>2, <2>4 DEF Unresolved
  <2> QED
    BY <2>3, <2>5, <2>6, <2>7 DEF Result, Awaited, IInv, TxInv, CommandsOfTx
<1> QED  BY <1>1, <1>2

(***************************************************************************)
(* Every step keeps the invariant                                          *)
(***************************************************************************)

\* An event that is neither a replay nor guarded goes to a handler, and every
\* handler is sound and stays within the book of its message.
LEMMA Handling ==
  ASSUME IInv, ApplyEvent
  PROVE  \/ ReplayEvent
         \/ GuardEditedEvent
         \/ \E type, mu : /\ Apply(type, mu)
                          /\ Sound(work, mu, CurrentKey, type)
                          /\ Effect(work, mu.tables, Book)
<1>1. /\ work \in Tables /\ Good(work)
      /\ EventPending => CurrentKey \in EventKey /\ CurrentEvent \in Event
                         /\ Book \in Books
  BY CurrentTypes DEF IInv, TypeOK
<1>2. CASE ApplyPlace
  <2> DEFINE mu == PlacePendingOrder(work, Book, CurrentKey, CurrentEvent,
                                     Unresolved, Dependency)
  <2>1. Apply("PLACE_PENDING_ORDER", mu)
    BY <1>2 DEF ApplyPlace
  <2>2. EventPending /\ CurrentEvent.type = "PLACE_PENDING_ORDER"
    BY <2>1 DEF Apply
  <2>3. Sound(work, mu, CurrentKey, "PLACE_PENDING_ORDER")
    BY <1>1, <2>2, DependencyAwaited, PlaceSound
  <2>4. Effect(work, mu.tables, Book)
    <3>1. /\ Dependency \in Nat
          /\ ~Unresolved => Dependency = 0 \/ Dependency \in DOMAIN work.commands
      BY DependencyAwaited DEF Awaited
    <3> QED  BY <1>1, <2>2, <3>1, PlaceEffect
  <2> HIDE DEF mu
  <2> QED  BY <2>1, <2>3, <2>4
<1>3. CASE ApplyCancel
  <2> DEFINE mu == CancelPendingOrder(work, Book, CurrentKey, CurrentEvent)
  <2>1. Apply("CANCEL_PENDING_ORDER", mu) /\ EventPending
    BY <1>3 DEF ApplyCancel, Apply
  <2>2. Sound(work, mu, CurrentKey, "CANCEL_PENDING_ORDER")
    BY <1>1, <2>1, CancelSound
  <2>3. Effect(work, mu.tables, Book)
    BY <1>1, <2>1, CancelEffect
  <2> HIDE DEF mu
  <2> QED  BY <2>1, <2>2, <2>3
<1>4. CASE ApplyTriggered
  <2> DEFINE mu == MarkOrderTriggered(work, Book, CurrentEvent)
  <2>1. Apply("MARK_ORDER_TRIGGERED", mu) /\ EventPending
    BY <1>4 DEF ApplyTriggered, Apply
  <2>2. Sound(work, mu, CurrentKey, "MARK_ORDER_TRIGGERED")
    BY <1>1, <2>1, TriggeredSound DEF CommandType
  <2>3. Effect(work, mu.tables, Book)
    BY <1>1, <2>1, TriggeredEffect
  <2> HIDE DEF mu
  <2> QED  BY <2>1, <2>2, <2>3
<1>5. CASE ApplyResult
  <2> DEFINE mu == RecordTradeResult(work, Book, CurrentEvent)
  <2>1. Apply("RECORD_TRADE_RESULT", mu) /\ EventPending
    BY <1>5 DEF ApplyResult, Apply
  <2>2. Sound(work, mu, CurrentKey, "RECORD_TRADE_RESULT")
    BY <1>1, <2>1, ResultSound DEF CommandType
  <2>3. Effect(work, mu.tables, Book)
    BY <1>1, <2>1, ResultEffect
  <2> HIDE DEF mu
  <2> QED  BY <2>1, <2>2, <2>3
<1>6. CASE ApplyEndSession
  <2> DEFINE mu == EndSession(work, Book)
  <2>1. Apply("END_SESSION", mu) /\ EventPending
    BY <1>6 DEF ApplyEndSession, Apply
  <2>2. Sound(work, mu, CurrentKey, "END_SESSION")
    BY <1>1, <2>1, EndSound DEF CommandType
  <2>3. Effect(work, mu.tables, Book)
    BY <1>1, <2>1, EndEffect
  <2> HIDE DEF mu
  <2> QED  BY <2>1, <2>2, <2>3
<1>7. CASE ApplyNoTradingDay
  <2> DEFINE mu == NoTradingDay(work, Book)
  <2>1. Apply("NO_TRADING_DAY", mu) /\ EventPending
    BY <1>7 DEF ApplyNoTradingDay, Apply
  <2>2. Sound(work, mu, CurrentKey, "NO_TRADING_DAY")
    BY <1>1, <2>1, NoTradingSound DEF CommandType
  <2>3. Effect(work, mu.tables, Book)
    BY <1>1, <2>1, NoTradingEffect
  <2> HIDE DEF mu
  <2> QED  BY <2>1, <2>2, <2>3
<1>8. CASE ApplyManualReview
  <2>1. Apply("REQUEST_MANUAL_REVIEW", Review(work))
    BY <1>8 DEF ApplyManualReview
  <2>2. Sound(work, Review(work), CurrentKey, "REQUEST_MANUAL_REVIEW")
    BY <1>1, IdleEmits DEF Sound
  <2>3. Effect(work, Review(work).tables, Book)
    BY NoEffect DEF Review, Mutation, Same
  <2> QED  BY <2>1, <2>2, <2>3
<1> QED
  BY <1>2, <1>3, <1>4, <1>5, <1>6, <1>7, <1>8 DEF ApplyEvent

\* Applying an event of whatever type keeps the invariant.
LEMMA ApplyEventInv == ASSUME IInv, ApplyEvent PROVE IInv'
  BY Handling, ReplayEventInv, GuardEditedEventInv, ApplyInv

\* A commit keeps the invariant: what is committed satisfied it already.
LEMMA CommitInv == ASSUME IInv, Commit PROVE IInv'
<1>1. /\ db' = work /\ tx' = None /\ results' = <<>>
      /\ UNCHANGED <<stored, work, crashes>>
  BY DEF Commit
<1>2. TypeOK'
  BY <1>1 DEF IInv, TypeOK
<1>3. TxInv'
  BY <1>1 DEF TxInv, Follows, CommandsOfTx
<1> QED  BY <1>1, <1>2, <1>3 DEF IInv

\* A rollback keeps the invariant.
LEMMA RollbackInv == ASSUME IInv, Rollback PROVE IInv'
<1>1. /\ work' = db /\ tx' = None /\ results' = <<>> /\ crashes' = crashes + 1
      /\ UNCHANGED <<stored, db>>
  BY DEF Rollback
<1>2. TypeOK'
  BY <1>1 DEF IInv, TypeOK
<1>3. TxInv'
  BY <1>1 DEF TxInv, Follows, CommandsOfTx
<1> QED  BY <1>1, <1>2, <1>3 DEF IInv

\* A broker report keeps the invariant.
LEMMA ReportInv ==
  ASSUME IInv, NEW c \in DOMAIN db.commands, NEW s \in ReportStates, Report(c, s)
  PROVE  IInv'
<1>1. /\ tx = None /\ db' = UpdateOutboxCommandState(db, c, s) /\ work' = db'
      /\ db.commands[c].state # "BLOCKED"
      /\ LateReports \/ db.commands[c].state # "SUCCEEDED" \/ s = "SUCCEEDED"
      /\ UNCHANGED <<stored, tx, results, crashes>>
  BY DEF Report
<1>2. s \in OutboxState \ {"BLOCKED"} /\ db \in Tables /\ Good(db)
      /\ OneCommandPerEvent(db)
  BY ReportsAssumption DEF IInv, TypeOK
<1>3. db' \in Tables /\ Good(db') /\ OneCommandPerEvent(db')
  BY <1>1, <1>2, ReportGood, ReportOnce
<1>4. TypeOK'
  BY <1>1, <1>3 DEF IInv, TypeOK
<1>5. TxInv'
  BY <1>1 DEF IInv, TxInv, Follows, CommandsOfTx
<1> QED  BY <1>1, <1>3, <1>4, <1>5 DEF IInv

\* The invariant is inductive.
LEMMA NextInv == ASSUME IInv, [Next]_vars PROVE IInv'
<1>1. ASSUME NEW m \in Messages, NEW version \in Version, Ingest(m, version)
      PROVE  IInv'
  BY <1>1, IngestInv
<1>2. ASSUME NEW m \in Messages, NEW v \in DOMAIN stored[m], Begin(m, v)
      PROVE  IInv'
  BY <1>2, BeginInv
<1>3. ASSUME NEW c \in DOMAIN db.commands, NEW s \in ReportStates, Report(c, s)
      PROVE  IInv'
  BY <1>3, ReportInv
<1>4. CASE UNCHANGED vars
  BY <1>4 DEF vars, IInv, TypeOK, TxInv, CommandsOfTx
<1> QED
  BY <1>1, <1>2, <1>3, <1>4, ApplyEventInv, CommitInv, RollbackInv DEF Next

(***************************************************************************)
(* Theorems                                                                *)
(***************************************************************************)

\* IInv holds in every reachable state, for every set of channels, days,
\* instruments, terms and messages, every content the parser may produce, and
\* with late reports and out-of-order delivery or without.
THEOREM Invariance == Spec => []IInv
<1>1. Init => IInv
  BY InitInv
<1>2. IInv /\ [Next]_vars => IInv'
  BY NextInv
<1> QED  BY <1>1, <1>2, PTL DEF Spec

\* The variables keep their types: the handlers and reports write only rows the
\* schema allows.
THEOREM TypeCorrect == Spec => []TypeOK
<1>1. IInv => TypeOK
  BY DEF IInv
<1> QED  BY <1>1, Invariance, PTL

\* Orders and outbox tell the same story of every cancellation, whatever the
\* executor reports and in whatever order.
THEOREM CancelsInSync == Spec => []CancelInSyncInv
<1>1. IInv => CancelInSyncInv
  BY DEF IInv, Good, CancelInSyncInv
<1> QED  BY <1>1, Invariance, PTL

\* Positions are exactly the filled orders.
THEOREM PositionsCorrect == Spec => []PositionsInv
<1>1. IInv => PositionsInv
  BY DEF IInv, Good, PositionsInv
<1> QED  BY <1>1, Invariance, PTL

\* A blocked replacement waits for a cancellation that has not succeeded, and
\* is released only by its success.
THEOREM ReplacementsWait == Spec => []ReplacementInv
<1>1. IInv => ReplacementInv
  BY DEF IInv, Good, ReplacementInv
<1> QED  BY <1>1, Invariance, PTL

\* Orders belong to sessions, and no session is open on a no-trading day.
THEOREM SessionsCorrect == Spec => []SessionsInv
<1>1. IInv => SessionsInv
  BY DEF IInv, Good, SessionsInv
<1> QED  BY <1>1, Invariance, PTL

\* An event leaves one row and at most one command.
THEOREM OneCommandEach == Spec => []OneCommandInv
<1>1. IInv => OneCommandInv
  BY DEF IInv, OneCommandInv
<1> QED  BY <1>1, Invariance, PTL

\* How a report moves orders: only the order its command cancels, to the state
\* its report stands for.
LEMMA ReportMoves ==
  ASSUME IInv, NEW c \in DOMAIN db.commands, NEW s \in ReportStates, Report(c, s)
  PROVE  /\ \A o \in DOMAIN db.orders :
                db'.orders[o].state = ReportedOrder(db, c, s, o)
         /\ db'.positions = db.positions
<1>1. db' = UpdateOutboxCommandState(db, c, s) /\ s \in OutboxState
      /\ db \in Tables
  BY ReportsAssumption DEF Report, IInv, TypeOK
<1>2. /\ Same(db', db, {"orders", "commands"})
      /\ \A o \in DOMAIN db.orders :
            db'.orders[o].state = ReportedOrder(db, c, s, o)
  BY <1>1, ReportRows
<1> QED  BY <1>2 DEF Same

\* Besides reports, only a commit changes the committed tables.
LEMMA CommittedSteps ==
  ASSUME IInv, [Next]_vars
  PROVE  \/ db' = db
         \/ db' = work
         \/ \E c \in DOMAIN db.commands, s \in ReportStates : Report(c, s)
<1>1. ApplyEvent => db' = db
  BY DEF ApplyEvent, ReplayEvent, GuardEditedEvent, ApplyPlace, ApplyCancel,
     ApplyTriggered, ApplyResult, ApplyEndSession, ApplyNoTradingDay,
     ApplyManualReview, Apply, Yield
<1> QED  BY <1>1 DEF Next, Ingest, Begin, Commit, Rollback, vars

\* No order returns to PENDING and no closed position changes, even when
\* reports contradict each other and versions come in any order.
THEOREM NothingReopens == Spec => ClosedStaysClosed
<1> DEFINE A == /\ \A o \in DOMAIN db.orders :
                      db.orders[o].state # "PENDING" => db'.orders[o].state # "PENDING"
                /\ \A p \in DOMAIN db.positions :
                      db.positions[p].state # "ACTIVE" =>
                          db'.positions[p] = db.positions[p]
<1>1. ASSUME IInv, [Next]_vars PROVE A
  <2>1. CASE db' = db
    BY <2>1
  <2>2. CASE db' = work
    BY <1>1, <2>2 DEF IInv, TxInv, Follows
  <2>3. ASSUME NEW c \in DOMAIN db.commands, NEW s \in ReportStates, Report(c, s)
        PROVE  A
    BY <1>1, <2>3, ReportMoves, CancelStates DEF ReportedOrder
  <2> QED  BY <1>1, <2>1, <2>2, <2>3, CommittedSteps
<1>2. IInv /\ [Next]_vars => [A]_vars
  BY <1>1
<1> QED  BY <1>2, Invariance, PTL DEF Spec, ClosedStaysClosed

\* Whatever is applied, delivered again or reported, and even if reports contradict
\* each other: a filled order stays filled, and only a report that takes back the
\* success of its own cancellation makes a cancelled order anything else.
THEOREM OnlyReportsReopen == Spec => SettledUnlessTakenBack
<1> DEFINE A == \A o \in DOMAIN db.orders :
                   /\ db.orders[o].state \in {"CANCELLED", "FILLED"}
                   /\ db'.orders[o].state # db.orders[o].state
                   => /\ db.orders[o].state = "CANCELLED"
                      /\ \E c \in DOMAIN db.commands :
                             /\ CancelsOrder(db, c, o)
                             /\ db.commands[c].state = "SUCCEEDED"
                             /\ db'.commands[c].state # "SUCCEEDED"
<1>1. ASSUME IInv, [Next]_vars PROVE A
  <2>1. CASE db' = db
    BY <2>1
  <2>2. CASE db' = work
    BY <1>1, <2>2 DEF IInv, TxInv, Follows
  <2>3. ASSUME NEW c \in DOMAIN db.commands, NEW s \in ReportStates, Report(c, s)
        PROVE  A
    <3> SUFFICES ASSUME NEW o \in DOMAIN db.orders,
                        db.orders[o].state \in {"CANCELLED", "FILLED"},
                        db'.orders[o].state # db.orders[o].state
                 PROVE  /\ db.orders[o].state = "CANCELLED"
                        /\ \E k \in DOMAIN db.commands :
                               /\ CancelsOrder(db, k, o)
                               /\ db.commands[k].state = "SUCCEEDED"
                               /\ db'.commands[k].state # "SUCCEEDED"
      OBVIOUS
    <3>1. CancelsOrder(db, c, o)
      BY <1>1, <2>3, ReportMoves DEF ReportedOrder
    <3>2. db.orders[o].state = OrderStateOfCancel(db.commands[c].state)
      BY <1>1, <3>1 DEF IInv, Good, CancelInSync, CancelsOrder, IsCancel
    <3>3. db.commands[c].state = "SUCCEEDED" /\ db.orders[o].state = "CANCELLED"
      BY <3>2 DEF OrderStateOfCancel
    <3>4. db'.orders[o].state = OrderStateOfCancel(s)
      BY <1>1, <2>3, <3>1, ReportMoves DEF ReportedOrder
    <3>5. s # "SUCCEEDED"
      BY <3>3, <3>4 DEF OrderStateOfCancel
    <3>6. db'.commands[c].state = s
      BY <1>1, <2>3 DEF Report, UpdateOutboxCommandState, IInv, TypeOK, Tables
    <3> QED  BY <3>1, <3>3, <3>5, <3>6
  <2> QED  BY <1>1, <2>1, <2>2, <2>3, CommittedSteps
<1>2. IInv /\ [Next]_vars => [A]_vars
  BY <1>1
<1> QED  BY <1>2, Invariance, PTL DEF Spec, SettledUnlessTakenBack

(***************************************************************************)
(* The open transaction and the committed tables                           *)
(***************************************************************************)

\* Commands of one instruction of one message are one command.
OneIntent(d) ==
    \A c, k \in DOMAIN d.commands :
        /\ d.commands[c].key.msg = d.commands[k].key.msg
        /\ d.commands[c].key.idx = d.commands[k].key.idx
        => c = k

\* What the open transaction did lies within the book of its message.
TxEffect == tx # None => Effect(db, work, Book)

\* The transaction of a version that is processed has done nothing.
TxReplay ==
    tx # None /\ VersionProcessed(db, tx.msg, tx.ver) => work = db

\* The version applied is processed, or no newer one of its message has a row.
TxOrder ==
    tx # None =>
        \/ VersionProcessed(db, tx.msg, tx.ver)
        \/ \A p \in work.processed : p.key.msg = tx.msg => p.key.ver <= tx.ver

\* The second inductive invariant, which stands on IInv.
HInv ==
    /\ TxEffect
    /\ TxReplay
    /\ OnePlacement(db)
    /\ ~StaleDelivery => TxOrder /\ OneIntent(work)

\* What an event writes: nothing, or one row under its own key, a command with
\* that key only if no version of the event has a row, and only in its book.
LEMMA EventWrites ==
  ASSUME IInv, ApplyEvent
  PROVE  /\ EventPending
         /\ UNCHANGED <<stored, db, tx>>
         /\ work' \in Tables
         /\ Effect(work, work', Book)
         /\ \/ work' = work
            \/ /\ ~Handled(work, CurrentKey)
               /\ \A p \in work'.processed :
                      p \in work.processed \/ p.key = CurrentKey
               /\ \A c \in DOMAIN work.commands : work'.commands[c] = work.commands[c]
               /\ \A c \in DOMAIN work'.commands :
                      \/ c \in DOMAIN work.commands
                      \/ work'.commands[c].key = CurrentKey /\ PriorRows = {}
<1>1. work \in Tables /\ OneCommandPerEvent(work) /\ Good(work)
  BY DEF IInv, TypeOK
<1>2. CASE ReplayEvent
  <2>1. Effect(work, work, Book)
    BY NoEffect DEF Same
  <2> QED  BY <1>1, <1>2, <2>1 DEF ReplayEvent, Yield
<1>3. CASE GuardEditedEvent
  <2> DEFINE outcome == IF LatestPrior.event = CurrentEvent
                        THEN "NOOP" ELSE "MANUAL_REVIEW"
  <2>1. /\ EventPending /\ ~Handled(work, CurrentKey)
        /\ work' = Record(work, CurrentKey, CurrentEvent, outcome)
        /\ Yield(outcome, 0)
    BY <1>3 DEF GuardEditedEvent
  <2>2. outcome \in Outcome
    BY DEF Outcome
  <2> HIDE DEF outcome
  <2>3. CurrentEvent \in Event /\ CurrentKey \in EventKey
    BY <2>1, CurrentTypes
  <2>4. /\ work' \in Tables /\ Same(work', work, {"processed"})
        /\ work'.processed = work.processed \cup
               {[key |-> CurrentKey, event |-> CurrentEvent, outcome |-> outcome]}
    BY <1>1, <2>1, <2>2, <2>3, RecordRows
  <2>5. work'.commands = work.commands
    BY <2>4 DEF Same
  <2>6. Effect(work, work', Book)
    BY <2>4, NoEffect DEF Same
  <2>7. \A p \in work'.processed : p \in work.processed \/ p.key = CurrentKey
    BY <2>4
  <2> QED  BY <2>1, <2>4, <2>5, <2>6, <2>7 DEF Yield
<1>4. ASSUME NEW type, NEW mu, Apply(type, mu), Sound(work, mu, CurrentKey, type),
             Effect(work, mu.tables, Book)
      PROVE  /\ EventPending
             /\ UNCHANGED <<stored, db, tx>>
             /\ work' \in Tables
             /\ Effect(work, work', Book)
             /\ ~Handled(work, CurrentKey)
             /\ \A p \in work'.processed :
                    p \in work.processed \/ p.key = CurrentKey
             /\ \A c \in DOMAIN work.commands : work'.commands[c] = work.commands[c]
             /\ \A c \in DOMAIN work'.commands :
                    \/ c \in DOMAIN work.commands
                    \/ work'.commands[c].key = CurrentKey /\ PriorRows = {}
  <2>1. /\ EventPending /\ CurrentEvent.type = type /\ ~Handled(work, CurrentKey)
        /\ work' = Record(mu.tables, CurrentKey, CurrentEvent, mu.outcome)
        /\ Yield(mu.outcome, mu.cmd) /\ PriorRows = {}
    BY <1>4 DEF Apply
  <2>2. CurrentEvent \in Event /\ CurrentKey \in EventKey
    BY <2>1, CurrentTypes
  <2>3. /\ work' \in Tables /\ Follows(work, work')
        /\ \A c \in DOMAIN work'.commands :
               c \in DOMAIN work.commands \/ work'.commands[c].key = CurrentKey
    BY <1>1, <1>4, <2>1, <2>2, RecordSound DEF Handled
  <2>4. /\ mu.tables \in Tables /\ mu.outcome \in Outcome
        /\ mu.tables.processed = work.processed
    BY <1>4 DEF Sound, Emits
  <2>5. /\ Same(work', mu.tables, {"processed"})
        /\ work'.processed = mu.tables.processed \cup
             {[key |-> CurrentKey, event |-> CurrentEvent, outcome |-> mu.outcome]}
    BY <2>1, <2>2, <2>4, RecordRows
  <2>6. Effect(mu.tables, work', Book)
    BY <2>5, NoEffect DEF Same
  <2>7. Effect(work, work', Book)
    BY <1>1, <1>4, <2>3, <2>4, <2>6, EffectTransitive
  <2>8. \A p \in work'.processed : p \in work.processed \/ p.key = CurrentKey
    BY <2>4, <2>5
  <2>9. \A c \in DOMAIN work.commands : work'.commands[c] = work.commands[c]
    BY <2>3 DEF Follows
  <2> QED  BY <2>1, <2>3, <2>7, <2>8, <2>9 DEF Yield
<1> QED  BY <1>2, <1>3, <1>4, Handling

\* An event keeps the second invariant.
LEMMA EventHistory == ASSUME IInv, HInv, ApplyEvent PROVE HInv'
<1>1. /\ EventPending
      /\ UNCHANGED <<stored, db, tx>>
      /\ work' \in Tables
      /\ Effect(work, work', Book)
      /\ \/ work' = work
         \/ /\ ~Handled(work, CurrentKey)
            /\ \A p \in work'.processed :
                   p \in work.processed \/ p.key = CurrentKey
            /\ \A c \in DOMAIN work.commands : work'.commands[c] = work.commands[c]
            /\ \A c \in DOMAIN work'.commands :
                   \/ c \in DOMAIN work.commands
                   \/ work'.commands[c].key = CurrentKey /\ PriorRows = {}
  BY EventWrites
<1>2. tx # None /\ Book' = Book
  BY <1>1 DEF EventPending, Book, Current
<1>3. /\ tx \in Transaction
      /\ CurrentKey.msg = tx.msg /\ CurrentKey.ver = tx.ver
      /\ CurrentKey.idx = Index
  BY <1>1, CurrentTypes DEF CurrentKey, Key
<1>4. TxEffect'
  <2>1. db \in Tables /\ work \in Tables /\ Good(db) /\ Effect(db, work, Book)
    BY <1>2 DEF IInv, TypeOK, HInv, TxEffect
  <2>2. Effect(db, work', Book)
    BY <1>1, <2>1, EffectTransitive
  <2> QED  BY <1>1, <1>2, <2>2 DEF TxEffect
<1>5. VersionProcessed(db, tx.msg, tx.ver) => work' = work
  <2> SUFFICES ASSUME VersionProcessed(db, tx.msg, tx.ver)
               PROVE  work' = work
    OBVIOUS
  <2>1. Index \in DOMAIN stored[tx.msg][tx.ver].events
    BY <1>1 DEF EventPending, Current
  <2>2. Handled(db, CurrentKey)
    BY <2>1 DEF VersionProcessed, CurrentKey
  <2>3. work = db
    BY <1>2 DEF HInv, TxReplay
  <2> QED  BY <1>1, <2>2, <2>3
<1>6. VersionProcessed(db, tx.msg, tx.ver)' <=> VersionProcessed(db, tx.msg, tx.ver)
  BY <1>1 DEF VersionProcessed, Key
<1>7. TxReplay'
  BY <1>1, <1>2, <1>5, <1>6 DEF HInv, TxReplay
<1>8. ASSUME ~StaleDelivery PROVE TxOrder' /\ OneIntent(work')
  <2>1. TxOrder /\ OneIntent(work)
    BY <1>8 DEF HInv
  <2>2. CASE work' = work
    BY <1>1, <1>6, <2>1, <2>2 DEF TxOrder
  <2>3. CASE work' # work
    <3>1. \A p \in work.processed : p.key.msg = tx.msg => p.key.ver <= tx.ver
      BY <1>2, <1>5, <2>1, <2>3 DEF TxOrder
    <3>2. tx.ver \in Nat
      BY <1>3 DEF Transaction
    <3>3. TxOrder'
      BY <1>1, <1>3, <2>3, <3>1, <3>2 DEF TxOrder
    <3>4. ASSUME NEW c \in DOMAIN work.commands, PriorRows = {}
          PROVE  ~ /\ work.commands[c].key.msg = tx.msg
                   /\ work.commands[c].key.idx = Index
      <4>1. PICK p \in work.processed : p.key = work.commands[c].key
        BY DEF IInv, OneCommandPerEvent
      <4>2. p.key \in EventKey
        BY ColumnTypes DEF IInv, TypeOK, Processed
      <4>3. ASSUME p.key.msg = tx.msg, p.key.idx = Index PROVE FALSE
        <5>1. ~(p.key.ver < tx.ver)
          BY <3>4, <4>3 DEF PriorRows
        <5>2. p.key.ver = tx.ver
          BY <3>1, <3>2, <4>2, <4>3, <5>1 DEF EventKey
        <5>3. p.key = CurrentKey
          BY <4>2, <4>3, <5>2 DEF EventKey, CurrentKey, Key
        <5> QED  BY <1>1, <2>3, <5>3 DEF Handled
      <4> QED  BY <4>1, <4>3
    <3>5. \A c, k \in DOMAIN work'.commands :
             work'.commands[c].key = work'.commands[k].key => c = k
      <4>1. IInv'
        BY ApplyEventInv
      <4> QED  BY <4>1 DEF IInv, OneCommandPerEvent
    <3>6. OneIntent(work')
      <4> SUFFICES ASSUME NEW c \in DOMAIN work'.commands,
                          NEW k \in DOMAIN work'.commands,
                          work'.commands[c].key.msg = work'.commands[k].key.msg,
                          work'.commands[c].key.idx = work'.commands[k].key.idx
                   PROVE  c = k
        BY DEF OneIntent
      <4>1. CASE c \in DOMAIN work.commands /\ k \in DOMAIN work.commands
        BY <1>1, <2>1, <2>3, <4>1 DEF OneIntent
      <4>2. CASE c \notin DOMAIN work.commands /\ k \notin DOMAIN work.commands
        BY <1>1, <2>3, <3>5, <4>2
      <4>3. CASE c \in DOMAIN work.commands /\ k \notin DOMAIN work.commands
        BY <1>1, <1>3, <2>3, <3>4, <4>3
      <4>4. CASE c \notin DOMAIN work.commands /\ k \in DOMAIN work.commands
        BY <1>1, <1>3, <2>3, <3>4, <4>4
      <4> QED  BY <4>1, <4>2, <4>3, <4>4
    <3> QED  BY <3>3, <3>6
  <2> QED  BY <2>2, <2>3
<1>9. OnePlacement(db')
  BY <1>1 DEF HInv
<1> QED  BY <1>4, <1>7, <1>8, <1>9 DEF HInv

\* Where no transaction is open there is nothing to show of it.
LEMMA ClosedHistory ==
  ASSUME tx = None, OnePlacement(db), ~StaleDelivery => OneIntent(work)
  PROVE  HInv
  BY DEF HInv, TxEffect, TxReplay, TxOrder

\* A transaction that begins has done nothing, and it is in order unless stale
\* versions may be delivered.
LEMMA BeginHistory ==
  ASSUME IInv, HInv, NEW m \in Messages, NEW v \in DOMAIN stored[m], Begin(m, v)
  PROVE  HInv'
<1>1. /\ tx' = [msg |-> m, ver |-> v] /\ tx = None
      /\ StaleDelivery \/ InOrder(m, v)
      /\ UNCHANGED <<stored, db, work, results, crashes>>
  BY DEF Begin
<1>2. work = db
  BY <1>1 DEF IInv, TxInv
<1>3. tx'.msg = m /\ tx'.ver = v
  BY <1>1
<1>4. TxEffect'
  <2>1. Effect(db, db, Book')
    BY NoEffect DEF Same
  <2> QED  BY <1>1, <1>2, <2>1 DEF TxEffect
<1>5. TxReplay'
  BY <1>1, <1>2 DEF TxReplay
<1>6. VersionProcessed(db, tx.msg, tx.ver)' <=> VersionProcessed(db, m, v)
  BY <1>1, <1>3 DEF VersionProcessed, Key
<1>7. ~StaleDelivery => TxOrder'
  BY <1>1, <1>2, <1>3, <1>6 DEF TxOrder, InOrder
<1> QED  BY <1>1, <1>4, <1>5, <1>7 DEF HInv

\* A commit makes the tables of the transaction the committed ones.
LEMMA CommitHistory == ASSUME IInv, HInv, Commit PROVE HInv'
<1>1. db' = work /\ tx' = None /\ work' = work /\ tx # None
  BY DEF Commit
<1>2. OnePlacement(work)
  BY <1>1 DEF HInv, TxEffect, Effect
<1> QED  BY <1>1, <1>2, ClosedHistory DEF HInv, TxEffect, TxReplay, TxOrder

\* A rollback leaves the committed tables, which have no command the tables of
\* the transaction do not have.
LEMMA RollbackHistory == ASSUME IInv, HInv, Rollback PROVE HInv'
<1>1. work' = db /\ tx' = None /\ db' = db
  BY DEF Rollback
<1>2. OneIntent(work) => OneIntent(db)
  BY DEF IInv, TxInv, Follows, OneIntent
<1> QED  BY <1>1, <1>2 DEF HInv, TxEffect, TxReplay, TxOrder

\* A report changes no command but its state.
LEMMA ReportHistory ==
  ASSUME IInv, HInv, NEW c \in DOMAIN db.commands, NEW s \in ReportStates,
         Report(c, s)
  PROVE  HInv'
<1>1. /\ db' = UpdateOutboxCommandState(db, c, s) /\ work' = db'
      /\ s \in OutboxState /\ db \in Tables /\ tx = None /\ tx' = None
      /\ work = db
  BY ReportsAssumption DEF Report, IInv, TypeOK, TxInv
<1>2. /\ DOMAIN db'.orders = DOMAIN db.orders
      /\ DOMAIN db'.commands = DOMAIN db.commands
      /\ \A k \in DOMAIN db.commands :
            /\ db'.commands[k].key = db.commands[k].key
            /\ db'.commands[k].type = db.commands[k].type
            /\ db'.commands[k].order = db.commands[k].order
            /\ db'.commands[k].depends = db.commands[k].depends
  BY <1>1, ReportRows
<1>3. OnePlacement(db')
  <2>1. \A k \in DOMAIN db.commands :
           db.commands[k].depends # 0 => db.commands[k].depends \in DOMAIN db.commands
    BY DEF IInv, Good, ReplacementWaits
  <2>2. OnePlacement(db)
    BY DEF HInv
  <2>3. \A k \in DOMAIN db.commands :
           IsCancel(db'.commands[k]) <=> IsCancel(db.commands[k])
    BY <1>2 DEF IsCancel
  <2> QED  BY <1>2, <2>1, <2>2, <2>3 DEF OnePlacement
<1>4. ~StaleDelivery => OneIntent(work')
  BY <1>1, <1>2 DEF HInv, OneIntent
<1> QED  BY <1>1, <1>3, <1>4 DEF HInv, TxEffect, TxReplay, TxOrder

\* Every step keeps the second invariant.
LEMMA NextHistory == ASSUME IInv, HInv, [Next]_vars PROVE HInv'
<1>1. ASSUME NEW m \in Messages, NEW version \in Version, Ingest(m, version)
      PROVE  HInv'
  BY <1>1 DEF Ingest, HInv, TxEffect, TxReplay, TxOrder
<1>2. ASSUME NEW m \in Messages, NEW v \in DOMAIN stored[m], Begin(m, v)
      PROVE  HInv'
  BY <1>2, BeginHistory
<1>3. ASSUME NEW c \in DOMAIN db.commands, NEW s \in ReportStates, Report(c, s)
      PROVE  HInv'
  BY <1>3, ReportHistory
<1>4. CASE UNCHANGED vars
  BY <1>4 DEF vars, HInv, TxEffect, TxReplay, TxOrder, Book, Current,
              VersionProcessed, Key
<1> QED
  BY <1>1, <1>2, <1>3, <1>4, EventHistory, CommitHistory, RollbackHistory DEF Next

\* HInv holds in every reachable state: a transaction stays within the book of
\* its message, a replay writes nothing, every order has one placement, and with
\* versions applied in order an instruction has one command.
THEOREM History == Spec => []HInv
<1>1. Init => HInv
  BY DEF Init, HInv, TxEffect, TxReplay, TxOrder, OnePlacement, OneIntent,
     EmptyTables
<1>2. IInv /\ HInv /\ [Next]_vars => HInv'
  BY NextHistory
<1> QED  BY <1>1, <1>2, Invariance, PTL DEF Spec

\* Whatever was delivered again, edited or rolled back, one instruction of one
\* message led to at most one command, provided that versions are applied in
\* order: the code only compares a version with older ones.
THEOREM IntentsAreUnique ==
  ASSUME ~StaleDelivery PROVE Spec => []OneIntentPerInstruction
<1>1. IInv /\ HInv => OneIntentPerInstruction
  BY DEF IInv, TxInv, Follows, HInv, OneIntent, OneIntentPerInstruction
<1> QED  BY <1>1, Invariance, History, PTL

\* Applying a version that was fully applied before changes nothing.
THEOREM ReplaysAreIdle == Spec => ReplayChangesNothing
<1> DEFINE A == tx # None /\ tx' = None /\ VersionProcessed(db, tx.msg, tx.ver)
                    => db' = db
<1>1. ASSUME IInv, HInv, [Next]_vars PROVE A
  <2>1. ASSUME NEW c \in DOMAIN db.commands, NEW s \in ReportStates, Report(c, s)
        PROVE  A
    BY <2>1 DEF Report
  <2> QED  BY <1>1, <2>1, CommittedSteps DEF HInv, TxReplay
<1>2. IInv /\ HInv /\ [Next]_vars => [A]_vars
  BY <1>1
<1> QED  BY <1>2, Invariance, History, PTL DEF Spec, ReplayChangesNothing

\* A message only touches the sessions, orders and positions of its channel
\* and of the UTC date it was sent or edited on.
THEOREM BooksAreSeparate == Spec => MessagesStayInTheirBook
<1> DEFINE A == tx # None =>
         /\ \A o \in DOMAIN db.orders :
                db.orders[o].book # Book => db'.orders[o] = db.orders[o]
         /\ \A p \in DOMAIN db.positions :
                db.orders[db.positions[p].order].book # Book =>
                    db'.positions[p] = db.positions[p]
         /\ \A s \in Books \X Instruments :
                s[1] # Book => db'.sessions[s] = db.sessions[s]
<1>1. ASSUME IInv, HInv, [Next]_vars PROVE A
  <2>1. ASSUME NEW c \in DOMAIN db.commands, NEW s \in ReportStates, Report(c, s)
        PROVE  A
    BY <2>1 DEF Report
  <2>2. CASE db' = db
    BY <2>2
  <2>3. CASE db' = work
    BY <1>1, <2>3 DEF HInv, TxEffect, Effect, Within
  <2> QED  BY <1>1, <2>1, <2>2, <2>3, CommittedSteps
<1>2. IInv /\ HInv /\ [Next]_vars => [A]_vars
  BY <1>1
<1> QED  BY <1>2, Invariance, History, PTL DEF Spec, MessagesStayInTheirBook

\* A session that was ended or closed for the day stays closed and gets no
\* order.
THEOREM ClosedSessions == Spec => ClosedSessionsTakeNoOrders
<1> DEFINE A == \A s \in Books \X Instruments :
                   db.sessions[s] \in {"ENDED", "NO_TRADING"} =>
                       /\ db'.sessions[s] \in {"ENDED", "NO_TRADING"}
                       /\ OrdersOf(db', s) = OrdersOf(db, s)
<1>1. ASSUME IInv, HInv, [Next]_vars PROVE A
  <2>1. ASSUME NEW c \in DOMAIN db.commands, NEW s \in ReportStates, Report(c, s)
        PROVE  A
    <3>1. db' = UpdateOutboxCommandState(db, c, s) /\ s \in OutboxState
          /\ db \in Tables
      BY <1>1, <2>1, ReportsAssumption DEF Report, IInv, TypeOK
    <3>2. /\ Same(db', db, {"orders", "commands"})
          /\ DOMAIN db'.orders = DOMAIN db.orders
          /\ \A o \in DOMAIN db.orders :
                /\ db'.orders[o].book = db.orders[o].book
                /\ db'.orders[o].instrument = db.orders[o].instrument
      BY <3>1, ReportRows
    <3> QED  BY <3>2 DEF Same, OrdersOf
  <2>2. CASE db' = db
    BY <2>2
  <2>3. CASE db' = work
    <3>1. Within(db, work, Book) \/ work = db
      BY <1>1 DEF IInv, TxInv, HInv, TxEffect, Effect
    <3>2. ASSUME Within(db, work, Book), NEW s \in Books \X Instruments,
                 Closed(db, s)
          PROVE  Closed(work, s) /\ OrdersOf(work, s) = OrdersOf(db, s)
      <4>1. s = <<s[1], s[2]>>
        OBVIOUS
      <4>2. \A o \in DOMAIN work.orders \ DOMAIN db.orders :
               ~(work.orders[o].book = s[1] /\ work.orders[o].instrument = s[2])
        BY <3>2, <4>1 DEF Within
      <4>3. \A o \in DOMAIN db.orders :
               /\ o \in DOMAIN work.orders
               /\ work.orders[o].book = db.orders[o].book
               /\ work.orders[o].instrument = db.orders[o].instrument
        BY <3>2 DEF Within
      <4>4. OrdersOf(work, s) = OrdersOf(db, s)
        BY <4>2, <4>3 DEF OrdersOf
      <4> QED  BY <3>2, <4>4 DEF Within
    <3> QED  BY <2>3, <3>1, <3>2 DEF Closed
  <2> QED  BY <1>1, <2>1, <2>2, <2>3, CommittedSteps
<1>2. IInv /\ HInv /\ [Next]_vars => [A]_vars
  BY <1>1
<1> QED  BY <1>2, Invariance, History, PTL DEF Spec, ClosedSessionsTakeNoOrders

(***************************************************************************)
(* The committed tables implement CancelReplace                            *)
(***************************************************************************)

\* The one placement of an order.
LEMMA ThePlacement ==
  ASSUME NEW d, OnePlacement(d), NEW o \in DOMAIN d.orders
  PROVE  \E c \in DOMAIN d.commands :
             /\ ~IsCancel(d.commands[c]) /\ d.commands[c].order = o
             /\ PlacementsOf(d, o) = {c}
             /\ The(PlacementsOf(d, o)) = c
<1>1. PICK c \in DOMAIN d.commands :
          ~IsCancel(d.commands[c]) /\ d.commands[c].order = o
  BY DEF OnePlacement
<1>2. PlacementsOf(d, o) = {c}
  BY <1>1 DEF OnePlacement, PlacementsOf
<1>3. The(PlacementsOf(d, o)) = c
  <2>1. Unique(PlacementsOf(d, o))
    BY <1>2 DEF Unique
  <2> QED  BY <1>2, <2>1, TheIn
<1> QED  BY <1>1, <1>2, <1>3

\* What the saga sees of an order of the tables: it replaces another order or
\* none, and if its placement is released the order it replaces is cancelled.
LEMMA SagaState ==
  ASSUME ~LateReports, NEW d \in Tables, Good(d), OnePlacement(d),
         NEW o \in DOMAIN d.orders
  PROVE  /\ OrderLife(d, o) \in Saga!Life
         /\ ReplacedBy(d, o) \in 0 .. Len(d.orders) /\ ReplacedBy(d, o) # o
         /\ Released(d, o) => \/ ReplacedBy(d, o) = 0
                              \/ OrderLife(d, ReplacedBy(d, o)) = "CANCELLED"
<1>1. PICK c \in DOMAIN d.commands :
          /\ ~IsCancel(d.commands[c]) /\ d.commands[c].order = o
          /\ PlacementsOf(d, o) = {c} /\ The(PlacementsOf(d, o)) = c
  BY ThePlacement
<1>2. DOMAIN d.orders = 1 .. Len(d.orders) /\ Len(d.orders) \in Nat
  BY ColumnTypes
<1>3. OrderLife(d, o) \in Saga!Life
  BY DEF OrderLife, Saga!Life
<1> DEFINE k == d.commands[c].depends
<1>4. ReplacedBy(d, o) = IF k = 0 THEN 0 ELSE d.commands[k].order
  BY <1>1 DEF ReplacedBy
<1>5. k # 0 => /\ k \in DOMAIN d.commands /\ IsCancel(d.commands[k])
               /\ d.commands[c].state # "BLOCKED" => d.commands[k].state = "SUCCEEDED"
  BY <1>1 DEF Good, ReplacementWaits
<1>6. k # 0 => d.commands[k].order # o
  BY <1>1 DEF OnePlacement
<1> HIDE DEF k
<1>7. k # 0 => /\ d.commands[k].order \in DOMAIN d.orders
               /\ d.orders[d.commands[k].order].state
                    = OrderStateOfCancel(d.commands[k].state)
  BY <1>5 DEF Good, CancelInSync
<1>8. ReplacedBy(d, o) \in 0 .. Len(d.orders) /\ ReplacedBy(d, o) # o
  BY <1>2, <1>4, <1>6, <1>7
<1>9. Released(d, o) => d.commands[c].state # "BLOCKED"
  BY <1>1 DEF Released
<1>10. ASSUME Released(d, o), k # 0
       PROVE  OrderLife(d, d.commands[k].order) = "CANCELLED"
  <2>1. d.orders[d.commands[k].order].state = "CANCELLED"
    BY <1>5, <1>7, <1>9, <1>10 DEF OrderStateOfCancel
  <2> QED  BY <2>1 DEF OrderLife
<1> QED  BY <1>3, <1>4, <1>8, <1>10

\* Tables n come after tables d for the saga: orders go on with their lives and
\* commands keep what they are about, and are not blocked again.
Advances(d, n) ==
    /\ \A o \in DOMAIN d.orders :
           /\ o \in DOMAIN n.orders
           /\ OrderLife(n, o) \in Saga!Later(OrderLife(d, o))
    /\ \A c \in DOMAIN d.commands :
           /\ c \in DOMAIN n.commands
           /\ n.commands[c].type = d.commands[c].type
           /\ n.commands[c].order = d.commands[c].order
           /\ n.commands[c].depends = d.commands[c].depends
           /\ d.commands[c].state # "BLOCKED" => n.commands[c].state # "BLOCKED"

\* An order keeps the order it replaces, and its placement once released.
LEMMA SagaKept ==
  ASSUME NEW d, Good(d), OnePlacement(d), NEW n, OnePlacement(n),
         Advances(d, n), NEW o \in DOMAIN d.orders
  PROVE  /\ ReplacedBy(n, o) = ReplacedBy(d, o)
         /\ Released(d, o) => Released(n, o)
<1>1. PICK c \in DOMAIN d.commands :
          /\ ~IsCancel(d.commands[c]) /\ d.commands[c].order = o
          /\ PlacementsOf(d, o) = {c} /\ The(PlacementsOf(d, o)) = c
  BY ThePlacement
<1>2. o \in DOMAIN n.orders
  BY DEF Advances
<1>3. PICK e \in DOMAIN n.commands :
          /\ ~IsCancel(n.commands[e]) /\ n.commands[e].order = o
          /\ PlacementsOf(n, o) = {e} /\ The(PlacementsOf(n, o)) = e
  BY <1>2, ThePlacement
<1>4. /\ c \in DOMAIN n.commands /\ ~IsCancel(n.commands[c])
      /\ n.commands[c].order = o
      /\ n.commands[c].depends = d.commands[c].depends
      /\ d.commands[c].state # "BLOCKED" => n.commands[c].state # "BLOCKED"
  BY <1>1 DEF Advances, IsCancel
<1>5. e = c
  BY <1>3, <1>4 DEF OnePlacement
<1>6. d.commands[c].depends # 0 =>
          n.commands[d.commands[c].depends].order
            = d.commands[d.commands[c].depends].order
  BY <1>1 DEF Good, ReplacementWaits, Advances
<1>7. ReplacedBy(n, o) = ReplacedBy(d, o)
  BY <1>1, <1>3, <1>4, <1>5, <1>6 DEF ReplacedBy
<1> QED  BY <1>1, <1>3, <1>4, <1>5, <1>7 DEF Released

\* A row of the saga for each order is a sequence as long as the orders table.
LEMMA SagaColumn ==
  ASSUME NEW d \in Tables, NEW T, NEW f \in [DOMAIN d.orders -> T]
  PROVE  /\ f \in Seq(T) /\ Len(f) = Len(d.orders)
         /\ DOMAIN f = 1 .. Len(d.orders) /\ Len(d.orders) \in Nat
<1>1. d.orders \in Seq(Order)
  BY ColumnTypes
<1>2. f \in Seq(T)
  BY <1>1, MappedSeq
<1>3. DOMAIN d.orders = 1 .. Len(d.orders) /\ Len(d.orders) \in Nat
  BY <1>1
<1>4. f = [i \in 1 .. Len(d.orders) |-> f[i]]
  BY <1>3
<1>5. Len(f) = Len(d.orders)
  BY <1>3, <1>4
<1> QED  BY <1>2, <1>3, <1>5

\* Committed tables that advance make a step of the saga.
LEMMA SagaStep ==
  ASSUME ~LateReports,
         db \in Tables, Good(db), OnePlacement(db),
         db' \in Tables, Good(db'), OnePlacement(db'),
         Advances(db, db')
  PROVE  Saga!Next
<1> DEFINE life(d) == [o \in DOMAIN d.orders |-> OrderLife(d, o)]
           replaces(d) == [o \in DOMAIN d.orders |-> ReplacedBy(d, o)]
           placed(d) == {o \in DOMAIN d.orders : Released(d, o)}
<1>1. /\ life(db) \in Seq(Saga!Life) /\ Len(life(db)) = Len(db.orders)
      /\ DOMAIN life(db) = 1 .. Len(db.orders) /\ Len(db.orders) \in Nat
      /\ DOMAIN db.orders = 1 .. Len(db.orders)
  <2>1. life(db) \in [DOMAIN db.orders -> Saga!Life]
    BY SagaState
  <2> HIDE DEF life
  <2> QED  BY <2>1, SagaColumn, ColumnTypes
<1>2. /\ life(db') \in Seq(Saga!Life) /\ Len(life(db')) = Len(db'.orders)
      /\ DOMAIN life(db') = 1 .. Len(db'.orders) /\ Len(db'.orders) \in Nat
      /\ DOMAIN db'.orders = 1 .. Len(db'.orders)
  <2>1. life(db') \in [DOMAIN db'.orders -> Saga!Life]
    BY SagaState
  <2> HIDE DEF life
  <2> QED  BY <2>1, SagaColumn, ColumnTypes
<1>3. /\ replaces(db') \in Seq(Nat) /\ Len(replaces(db')) = Len(db'.orders)
  <2>1. \A o \in DOMAIN db'.orders : ReplacedBy(db', o) \in Nat
    BY <1>2, SagaState
  <2>2. replaces(db') \in [DOMAIN db'.orders -> Nat]
    BY <2>1
  <2> HIDE DEF replaces
  <2> QED  BY <2>2, SagaColumn
<1>4. DOMAIN db.orders \subseteq DOMAIN db'.orders
  BY DEF Advances
<1>5. Len(db.orders) <= Len(db'.orders)
  BY <1>1, <1>2, <1>4
<1>6. \A o \in DOMAIN db.orders :
          /\ life(db')[o] \in Saga!Later(life(db)[o])
          /\ replaces(db')[o] = replaces(db)[o]
  BY <1>4, SagaKept DEF Advances
<1>7. \A o \in DOMAIN db'.orders \ DOMAIN db.orders :
          replaces(db')[o] \in 0 .. Len(db'.orders) /\ replaces(db')[o] # o
  BY SagaState
<1>8. placed(db) \subseteq placed(db') /\ placed(db') \subseteq DOMAIN db'.orders
  BY <1>4, SagaKept
<1>9. \A o \in placed(db') :
          replaces(db')[o] = 0 \/ life(db')[replaces(db')[o]] = "CANCELLED"
  <2> SUFFICES ASSUME NEW o \in DOMAIN db'.orders, Released(db', o),
                      ReplacedBy(db', o) # 0
               PROVE  life(db')[ReplacedBy(db', o)] = "CANCELLED"
    OBVIOUS
  <2>1. /\ ReplacedBy(db', o) \in 0 .. Len(db'.orders)
        /\ OrderLife(db', ReplacedBy(db', o)) = "CANCELLED"
    BY SagaState
  <2>2. ReplacedBy(db', o) \in DOMAIN db'.orders
    BY <1>2, <2>1
  <2> QED  BY <2>1, <2>2
<1>10. Saga!Advance
  BY <1>1, <1>2, <1>3, <1>5, <1>6, <1>7 DEF Saga!Advance
<1>11. Saga!Place
  BY <1>2, <1>8, <1>9 DEF Saga!Place
<1> QED  BY <1>10, <1>11 DEF Saga!Next

\* A transaction advances the tables: filled and cancelled orders stay so, an
\* order being cancelled is still, and the commands are there.
LEMMA CommitAdvances ==
  ASSUME NEW d \in Tables, NEW n \in Tables, Good(d), Good(n), Follows(d, n),
         NEW b, Within(d, n, b)
  PROVE  Advances(d, n)
<1>1. ASSUME NEW o \in DOMAIN d.orders
      PROVE  o \in DOMAIN n.orders /\ OrderLife(n, o) \in Saga!Later(OrderLife(d, o))
  <2>1. o \in DOMAIN n.orders
    BY <1>1 DEF Follows
  <2>2. CASE d.orders[o].state = "PENDING"
    BY <2>1, <2>2 DEF OrderLife, Saga!Later, Saga!Life
  <2>3. CASE d.orders[o].state = "FILLED"
    <3>1. n.orders[o].state = "FILLED"
      BY <1>1, <2>3 DEF Follows
    <3>2. ASSUME NEW q \in DOMAIN n.positions, n.positions[q].order = o,
                 n.positions[q].state = "ACTIVE"
          PROVE  \E p \in DOMAIN d.positions :
                     d.positions[p].order = o /\ d.positions[p].state = "ACTIVE"
      <4>1. PICK p \in DOMAIN d.positions : d.positions[p].order = o
        BY <1>1, <2>3 DEF Good, PositionsAreFilledOrders
      <4>2. p \in DOMAIN n.positions /\ n.positions[p].order = o
        BY <4>1 DEF Within
      <4>3. p = q
        BY <3>2, <4>2 DEF Good, PositionsAreFilledOrders
      <4> QED  BY <3>2, <4>1, <4>3 DEF Follows
    <3>3. /\ OrderLife(n, o) \in {"FILLED", "CLOSED"}
          /\ OrderLife(d, o) \in {"FILLED", "CLOSED"}
          /\ OrderLife(n, o) = "FILLED" => OrderLife(d, o) = "FILLED"
      BY <2>3, <3>1, <3>2 DEF OrderLife
    <3> QED  BY <2>1, <3>3 DEF Saga!Later
  <2>4. CASE d.orders[o].state \notin {"PENDING", "FILLED"}
    <3>1. n.orders[o].state = d.orders[o].state
      BY <1>1, <2>4 DEF Follows
    <3>2. /\ OrderLife(n, o) = OrderLife(d, o)
          /\ OrderLife(d, o) \in {"CANCELLED", "CANCELLING"}
      BY <2>4, <3>1 DEF OrderLife
    <3> QED  BY <2>1, <3>2 DEF Saga!Later
  <2> QED  BY <2>2, <2>3, <2>4
<1> QED  BY <1>1 DEF Advances, Follows

\* A report that does not contradict a success advances the tables.
LEMMA ReportAdvances ==
  ASSUME ~LateReports, IInv, NEW c \in DOMAIN db.commands, NEW s \in ReportStates,
         Report(c, s)
  PROVE  Advances(db, db')
<1>1. /\ db' = UpdateOutboxCommandState(db, c, s)
      /\ s \in OutboxState /\ s # "BLOCKED"
      /\ db.commands[c].state # "SUCCEEDED" \/ s = "SUCCEEDED"
      /\ db \in Tables
  BY ReportsAssumption DEF Report, IInv, TypeOK
<1>2. /\ Same(db', db, {"orders", "commands"})
      /\ DOMAIN db'.orders = DOMAIN db.orders
      /\ \A o \in DOMAIN db.orders :
            db'.orders[o].state = ReportedOrder(db, c, s, o)
      /\ DOMAIN db'.commands = DOMAIN db.commands
      /\ \A k \in DOMAIN db.commands :
            /\ db'.commands[k].type = db.commands[k].type
            /\ db'.commands[k].order = db.commands[k].order
            /\ db'.commands[k].depends = db.commands[k].depends
            /\ db'.commands[k].state =
                   IF k = c THEN s
                   ELSE IF Releases(db, c, s, k) THEN "PENDING"
                   ELSE db.commands[k].state
  BY <1>1, ReportRows
<1>3. db'.positions = db.positions
  BY <1>2 DEF Same
<1>4. ASSUME NEW o \in DOMAIN db.orders
      PROVE  OrderLife(db', o) \in Saga!Later(OrderLife(db, o))
  <2>1. CASE CancelsOrder(db, c, o)
    <3>1. db.orders[o].state = OrderStateOfCancel(db.commands[c].state)
      BY <2>1 DEF IInv, Good, CancelInSync, CancelsOrder, IsCancel
    <3>2. db'.orders[o].state = OrderStateOfCancel(s)
      BY <1>2, <1>4, <2>1 DEF ReportedOrder
    <3>3. OrderLife(db', o) = IF s = "SUCCEEDED" THEN "CANCELLED" ELSE "CANCELLING"
      BY <3>2 DEF OrderStateOfCancel, OrderLife
    <3>4. OrderLife(db, o) = IF db.commands[c].state = "SUCCEEDED"
                             THEN "CANCELLED" ELSE "CANCELLING"
      BY <3>1 DEF OrderStateOfCancel, OrderLife
    <3> QED  BY <1>1, <3>3, <3>4 DEF Saga!Later
  <2>2. CASE ~CancelsOrder(db, c, o)
    <3>1. db'.orders[o].state = db.orders[o].state
      BY <1>2, <1>4, <2>2 DEF ReportedOrder
    <3>2. OrderLife(db', o) = OrderLife(db, o)
      BY <1>3, <3>1 DEF OrderLife
    <3>3. OrderLife(db, o) \in Saga!Life
      BY DEF OrderLife, Saga!Life
    <3> QED  BY <3>2, <3>3 DEF Saga!Later, Saga!Life
  <2> QED  BY <2>1, <2>2
<1> QED  BY <1>1, <1>2, <1>4 DEF Advances

\* Every committed step is a step of the saga or changes none of its state,
\* provided that no report contradicts a success.
THEOREM Refinement == ASSUME ~LateReports PROVE Spec => ImplementsCancelReplace
<1>1. Init => Saga!Init
  <2> SUFFICES ASSUME Init PROVE Saga!Init
    OBVIOUS
  <2>1. db.orders = <<>>
    BY DEF Init, EmptyTables
  <2> QED  BY <2>1 DEF Saga!Init
<1>2. ASSUME IInv, HInv, IInv', HInv', [Next]_vars PROVE [Saga!Next]_(Saga!vars)
  <2>1. CASE db' = db
    BY <2>1 DEF Saga!vars
  <2>2. ASSUME Advances(db, db') PROVE Saga!Next
    BY <1>2, <2>2, SagaStep DEF IInv, TypeOK, HInv
  <2>3. CASE db' = work
    <3>1. Within(db, work, Book) \/ work = db
      BY <1>2 DEF IInv, TxInv, HInv, TxEffect, Effect
    <3>2. Within(db, work, Book) => Advances(db, db')
      BY <1>2, <2>3, CommitAdvances DEF IInv, TypeOK, TxInv
    <3> QED  BY <2>1, <2>2, <2>3, <3>1, <3>2
  <2>4. ASSUME NEW c \in DOMAIN db.commands, NEW s \in ReportStates, Report(c, s)
        PROVE  Advances(db, db')
    BY <1>2, <2>4, ReportAdvances
  <2> QED  BY <1>2, <2>1, <2>2, <2>3, <2>4, CommittedSteps
<1> QED  BY <1>1, <1>2, Invariance, History, PTL
         DEF Spec, ImplementsCancelReplace, Saga!Spec

=============================================================================
