--------------------------- MODULE MessagePipeline ---------------------------
(***************************************************************************)
(* process_raw_message run by several workers at once: a message version   *)
(* is stored, parsed and applied, while the executor reports on commands.  *)
(*                                                                         *)
(* TradingState applies versions one after the other.  Here the steps of   *)
(* the database show: the rows of a book are read when a version begins to *)
(* be applied, what was handled is read event by event, and from the first *)
(* write to the commit no other writer gets in (SQLite, as in the tests    *)
(* and the local configuration).  That last part is one step.              *)
(***************************************************************************)
EXTENDS TradingSafety, FiniteSetsExt

CONSTANTS
    Workers,
    Contents,      \* what a message says: its deduplication key, date and events
    ChannelOf(_),  \* the channel of a message
    ReportStates,  \* command states the executor reports
    MaxStored,     \* bound on the stored versions
    MaxCrashes     \* bound on the crashes of workers

ASSUME PipelineAssumption ==
    /\ \A c \in Contents : c.day \in Days /\ c.events \in Seq(Event)
    /\ \A c, d \in Contents : c.key = d.key => c = d
    /\ ReportStates \subseteq OutboxState \ {"BLOCKED"}
    /\ \A m \in Messages : ChannelOf(m) \in Channels
    /\ MaxStored \in Nat /\ MaxCrashes \in Nat

VARIABLES
    raw,      \* raw_telegram_messages
    db,       \* the committed tables of the trading state
    job,      \* per worker, what it is doing and what it has read
    stale,    \* whether rows were ever written back that had changed since
    crashes

vars == <<raw, db, job, stale, crashes>>

\* Versions are linked to the one before them, the first to 0.
RawRow == [msg : Messages, ver : Nat, previous : Nat, content : Contents]

Idle == [pc |-> "idle", msg |-> None, content |-> None, ver |-> 0,
         base |-> EmptyTables, seen |-> {}]

Pc == {"idle", "insert", "again", "raised", "load", "look", "write"}

Job == [pc : Pc, msg : Messages \cup {None}, content : Contents \cup {None},
        ver : Nat, base : Tables, seen : SUBSET Processed]

\* The rows of all tables, and those a worker holds, are of the types of the
\* schema, also after workers have written over each other.
TypeOK ==
    /\ raw \subseteq RawRow
    /\ db \in Tables
    /\ job \in [Workers -> Job]
    /\ stale \in BOOLEAN
    /\ crashes \in Nat

Init ==
    /\ raw = {}
    /\ db = EmptyTables
    /\ job = [w \in Workers |-> Idle]
    /\ stale = FALSE
    /\ crashes = 0

-----------------------------------------------------------------------------
(* ingest_message. *)

VersionsOf(m) == {r \in raw : r.msg = m}
Existing(m, c) == {r \in VersionsOf(m) : r.content = c}

Latest(m) == IF VersionsOf(m) = {} THEN 0 ELSE Max({r.ver : r \in VersionsOf(m)})

\* The version is known and is applied next.
ToApply(w, ver) == [job EXCEPT ![w].pc = "load", ![w].ver = ver]

\* A delivery of a message, the first one or another.
Receive(w, m, c) ==
    /\ job[w].pc = "idle"
    /\ LET known == Existing(m, c)
           next == IF known = {} THEN Latest(m) + 1 ELSE The(known).ver
           pc == IF known = {} THEN "insert" ELSE "load"
       IN  /\ known = {} => Cardinality(raw) < MaxStored
           /\ job' = [job EXCEPT ![w] = [Idle EXCEPT !.pc = pc, !.msg = m,
                                                     !.content = c, !.ver = next]]
    /\ UNCHANGED <<raw, db, stale, crashes>>

\* The bug of a table without the constraint on version numbers.
Clashes_Fault(row) == \E r \in VersionsOf(row.msg) : r.content = row.content

\* The two unique constraints of the table.
Clashes(row) ==
    \E r \in VersionsOf(row.msg) : r.ver = row.ver \/ r.content = row.content

Insert(w) ==
    LET row == [msg |-> job[w].msg, ver |-> job[w].ver,
                previous |-> job[w].ver - 1, content |-> job[w].content]
    IN  /\ job[w].pc = "insert"
        /\ IF Clashes(row)
           THEN /\ job' = [job EXCEPT ![w].pc = "again"]
                /\ UNCHANGED raw
           ELSE /\ job' = ToApply(w, row.ver)
                /\ raw' = raw \cup {row}
        /\ UNCHANGED <<db, stale, crashes>>

\* After the rollback the content is looked for once more.
FoundAgain(w) == Existing(job[w].msg, job[w].content)

FindAgain(w) ==
    /\ job[w].pc = "again"
    /\ job' = IF FoundAgain(w) = {}
              THEN [job EXCEPT ![w].pc = "raised"]
              ELSE ToApply(w, The(FoundAgain(w)).ver)
    /\ UNCHANGED <<raw, db, stale, crashes>>

-----------------------------------------------------------------------------
(* apply_parsed_message. *)

Book(w) == <<ChannelOf(job[w].msg), job[w].content.day>>
Events(w) == job[w].content.events
Key(w, i) == [msg |-> job[w].msg, ver |-> job[w].ver, idx |-> i]
Handled(rows, key) == \E p \in rows : p.key = key

\* _load_snapshot leaves out commands and processed events.
Snapshot == [db EXCEPT !.commands = <<>>, !.processed = {}]

Load(w) ==
    /\ job[w].pc = "load"
    /\ job' = [job EXCEPT ![w].pc = "look",
                          ![w].base = Snapshot]
    /\ UNCHANGED <<raw, db, stale, crashes>>

\* The events that have their row are passed over; what rows there are when the
\* first other one is looked up decides about it.
Look(w) ==
    /\ job[w].pc = "look"
    /\ job' = IF \A i \in DOMAIN Events(w) : Handled(db.processed, Key(w, i))
              THEN [job EXCEPT ![w] = Idle]
              ELSE [job EXCEPT ![w].pc = "write",
                               ![w].seen = {p \in db.processed : p.key.msg = job[w].msg}]
    /\ UNCHANGED <<raw, db, stale, crashes>>

First(w) ==
    Min({i \in DOMAIN Events(w) : ~Handled(job[w].seen, Key(w, i))})

\* Rows of the event in earlier versions of the message.
PriorRows(w, rows, i) ==
    {p \in rows : p.key.msg = job[w].msg /\ p.key.idx = i /\ p.key.ver < job[w].ver}

\* What the version has come to so far: the tables as the worker sees them, a
\* result per event and whether any event got to its handler.
Progress(tables, results, applied) ==
    [tables |-> tables, results |-> results, applied |-> applied]

CancelResults(results) ==
    {k \in DOMAIN results : results[k].type = "CANCEL_PENDING_ORDER"}

\* _resolve_replacement_dependency: the last cancellation, unless it failed.
Unresolved(results) ==
    LET cancels == CancelResults(results) IN
    cancels # {} /\ LET last == results[Max(cancels)]
                    IN  last.outcome # "APPLIED" \/ last.cmd = 0
Dependency(results) ==
    LET cancels == CancelResults(results)
    IN  IF cancels = {} THEN 0 ELSE results[Max(cancels)].cmd

\* _apply_event.
Handle(w, d, results, i, e) ==
    CASE e.type = "PLACE_PENDING_ORDER" ->
             PlacePendingOrder(d, Book(w), Key(w, i), e, Unresolved(results),
                               Dependency(results))
      [] e.type = "CANCEL_PENDING_ORDER" -> CancelPendingOrder(d, Book(w), Key(w, i), e)
      [] e.type = "MARK_ORDER_TRIGGERED" -> MarkOrderTriggered(d, Book(w), e)
      [] e.type = "RECORD_TRADE_RESULT" -> RecordTradeResult(d, Book(w), e)
      [] e.type = "END_SESSION" -> EndSession(d, Book(w))
      [] e.type = "NO_TRADING_DAY" -> NoTradingDay(d, Book(w))
      [] OTHER -> Review(d)

\* One event, looked up in rows.
EventDone(w, sofar, rows, i) ==
    LET e == Events(w)[i]
        d == sofar.tables
        prior == PriorRows(w, rows, i)
        last == CHOOSE p \in prior : \A q \in prior : q.key.ver <= p.key.ver
        guard == IF last.event = e THEN "NOOP" ELSE "MANUAL_REVIEW"
        mutation == Handle(w, d, sofar.results, i, e)
        Yields(outcome, cmd) ==
            Append(sofar.results, [type |-> e.type, outcome |-> outcome, cmd |-> cmd])
    IN  IF Handled(rows, Key(w, i))
        THEN Progress(d, Yields((CHOOSE p \in rows : p.key = Key(w, i)).outcome, 0),
                      sofar.applied)
        ELSE IF prior # {}
        THEN Progress(Record(d, Key(w, i), e, guard), Yields(guard, 0), sofar.applied)
        ELSE Progress(Record(mutation.tables, Key(w, i), e, mutation.outcome),
                      Yields(mutation.outcome, mutation.cmd), TRUE)

\* The rows as they were read, the commands and the events handled as they are.
Start(w) ==
    Progress([job[w].base EXCEPT !.commands = db.commands, !.processed = db.processed],
             <<>>, FALSE)

\* Up to the first write the rows seen decide, after it those of the database and
\* the worker's own.
NextDone(w, sofar, i) ==
    EventDone(w, sofar, IF i <= First(w) THEN job[w].seen ELSE sofar.tables.processed, i)

\* All events in their order.
AllDone(w) ==
    LET upTo[i \in 0 .. Len(Events(w))] ==
            IF i = 0 THEN Start(w) ELSE LET sofar == upTo[i - 1] IN NextDone(w, sofar, i)
    IN  upTo[Len(Events(w))]

\* The orders a worker inserts get identifiers of their own, whatever others have
\* inserted since it read the book.
Moved(o, base, now) ==
    IF o > Len(base.orders) THEN o + Len(now.orders) - Len(base.orders) ELSE o

\* The bug of a snapshot of which only the new rows are written.
Upserted_Fault(base, now, out, mine) == now \o SubSeq(out, Len(base) + 1, Len(out))

\* The rows that are the worker's as it has them, the others as they are now, and
\* then the ones it inserted.
Upserted(base, now, out, mine) ==
    [k \in DOMAIN now |-> IF k \in mine THEN out[k] ELSE now[k]]
    \o SubSeq(out, Len(base) + 1, Len(out))

\* _upsert_snapshot: the rows that were read are written back as the worker has
\* them.
Written(b, base, now, out) ==
    LET orders == {o \in DOMAIN base.orders : base.orders[o].book = b}
        positions == [p \in DOMAIN out.positions |->
                         [out.positions[p] EXCEPT !.order = Moved(@, base, now)]]
    IN  [sessions |-> [s \in DOMAIN now.sessions |->
                         IF s[1] = b /\ out.sessions[s] # None
                         THEN out.sessions[s] ELSE now.sessions[s]],
         noTrading |-> now.noTrading \cup out.noTrading,
         orders |-> Upserted(base.orders, now.orders, out.orders, orders),
         positions |-> Upserted(base.positions, now.positions, positions,
                                {p \in DOMAIN base.positions :
                                    base.positions[p].order \in orders}),
         commands |-> [c \in DOMAIN out.commands |->
                         IF c \in DOMAIN now.commands THEN out.commands[c]
                         ELSE [out.commands[c] EXCEPT !.order = Moved(@, base, now)]],
         processed |-> out.processed]

\* Rows of the book that the worker inserts and somebody else has inserted.
OpenedMeanwhile(w, out) ==
    \E i \in Instruments :
        LET s == <<Book(w), i>> IN
        job[w].base.sessions[s] = None /\ out.sessions[s] # None /\ db.sessions[s] # None

ClosedMeanwhile(w, out) ==
    Book(w) \in (out.noTrading \cap db.noTrading) \ job[w].base.noTrading

\* The bug of a table of processed events without its unique key.
Refused_Fault(w, out) == OpenedMeanwhile(w, out) \/ ClosedMeanwhile(w, out)

\* A unique constraint fails: the event has been handled, its session opened or
\* the day closed since the worker looked.
Refused(w, out) ==
    \/ Handled(db.processed, Key(w, First(w)))
    \/ OpenedMeanwhile(w, out)
    \/ ClosedMeanwhile(w, out)

\* From the first write to the commit, or to the rollback and the error.
Write(w) ==
    /\ job[w].pc = "write"
    /\ LET done == AllDone(w)
           writesBack == ~Refused(w, done.tables) /\ done.applied
       IN  /\ db' = IF Refused(w, done.tables) THEN db
                    ELSE IF writesBack
                    THEN Written(Book(w), job[w].base, db, done.tables)
                    ELSE [db EXCEPT !.processed = done.tables.processed]
           /\ stale' = (stale \/ (writesBack /\ job[w].base # Snapshot))
    /\ job' = [job EXCEPT ![w] = Idle]
    /\ UNCHANGED <<raw, crashes>>

-----------------------------------------------------------------------------

\* An error of the ingestion ends the worker's call; it may be made again.
GiveUp(w) ==
    /\ job[w].pc = "raised"
    /\ job' = [job EXCEPT ![w] = Idle]
    /\ UNCHANGED <<raw, db, stale, crashes>>

Crash(w) ==
    /\ job[w].pc # "idle"
    /\ crashes < MaxCrashes
    /\ crashes' = crashes + 1
    /\ job' = [job EXCEPT ![w] = Idle]
    /\ UNCHANGED <<raw, db, stale>>

\* The executor.
Report(c, state) ==
    /\ db.commands[c].state # "BLOCKED"
    /\ LateReports \/ db.commands[c].state # "SUCCEEDED" \/ state = "SUCCEEDED"
    /\ db' = UpdateOutboxCommandState(db, c, state)
    /\ UNCHANGED <<raw, job, stale, crashes>>

Next ==
    \/ \E w \in Workers :
           \/ \E m \in Messages, c \in Contents : Receive(w, m, c)
           \/ Insert(w) \/ FindAgain(w)
           \/ Load(w) \/ Look(w) \/ Write(w)
           \/ GiveUp(w) \/ Crash(w)
    \/ \E c \in DOMAIN db.commands, s \in ReportStates : Report(c, s)

Spec == Init /\ [][Next]_vars

-----------------------------------------------------------------------------
(* Properties. *)

\* Whichever ingestions race and die, the versions of a message are numbered
\* without a gap, each is linked to the one before it, and no content is stored
\* twice ("exact duplicates do not create second versions").  The ingestion of a
\* duplicate never raises: one that does has lost its number to another content.
VersionsAreEdits ==
    /\ \A m \in Messages :
         /\ {r.ver : r \in VersionsOf(m)} = 1 .. Cardinality(VersionsOf(m))
         /\ \A r \in VersionsOf(m) : r.previous = r.ver - 1
         /\ \A r, s \in VersionsOf(m) : r.content = s.content => r = s
    /\ \A w \in Workers : job[w].pc = "raised" =>
         \E r \in VersionsOf(job[w].msg) :
             r.ver = job[w].ver /\ r.content # job[w].content

\* Broker intents are persisted atomically with the markers of their events: an
\* applied placement or cancellation has exactly one command, nothing else has
\* any, and the events of a version are marked all or none, although workers apply
\* the same version at once, on rows that others have changed since.
IntentsMatchMarkers ==
    /\ \A p \in db.processed :
         Cardinality({c \in DOMAIN db.commands :
                         db.commands[c].key = p.key /\ db.commands[c].type = p.event.type})
           = IF p.outcome = "APPLIED" /\ p.event.type \in CommandType THEN 1 ELSE 0
    /\ \A c \in DOMAIN db.commands : Handled(db.processed, db.commands[c].key)
    /\ \A p, q \in db.processed : p.key = q.key => p = q
    /\ \A r \in raw :
         LET marked == {i \in DOMAIN r.content.events :
                           Handled(db.processed, [msg |-> r.msg, ver |-> r.ver, idx |-> i])}
         IN  marked \in {{}, DOMAIN r.content.events}

\* As long as nobody writes back rows that have changed since it read them, the
\* committed tables are as consistent as TradingState has them, where versions are
\* applied one after the other: outbox and orders agree, positions are the filled
\* orders, replacements wait, closed days take no orders.
ConsistentUnlessStale ==
    ~stale =>
        /\ CancelInSync(db)
        /\ PositionsAreFilledOrders(db)
        /\ ReplacementWaits(db)
        /\ SessionsRespected(db)
=============================================================================
