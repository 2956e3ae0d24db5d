---------------------- MODULE MessagePipelineTheorems -----------------------
(***************************************************************************)
(* The theorems about MessagePipeline, for every number of workers,        *)
(* messages and versions, with late reports or without.                    *)
(*                                                                         *)
(* IInv says what the stored versions and the marked events are like, and  *)
(* what of what a worker has read it may still rely on when it acts.  The  *)
(* events of a version lead from the rows a worker starts with to those it *)
(* writes (Progression, AllKeeps); written over rows that others have      *)
(* changed these still are well typed and keep a command and a row for     *)
(* each event (WrittenRows), and over rows nobody has changed they are     *)
(* what TradingState would have committed.                                 *)
(***************************************************************************)
EXTENDS MessagePipeline, TradingSafetyProofs, FiniteSetTheorems

-----------------------------------------------------------------------------
(* All events of a version, one after the other. *)

LEMMA HasMinimum ==
    ASSUME NEW T \in SUBSET Nat, T # {}
    PROVE  \E k \in T : \A j \in T : k <= j
<1> DEFINE Less == OpToRel(<, Nat)
<1>1. PICK k \in T : \A j \in T : <<j, k>> \notin Less
  <2>1. IsWellFoundedOn(Less, Nat)
    BY NatLessThanWellFounded
  <2> HIDE DEF Less
  <2> QED  BY <2>1, WFMin
<1>2. ASSUME NEW j \in T PROVE k <= j
  <2>1. j \in Nat /\ k \in Nat /\ <<j, k>> \notin Less
    BY <1>1
  <2>2. j < k => <<j, k>> \in Less
    BY <2>1 DEF OpToRel
  <2> HIDE DEF Less
  <2> QED  BY <2>1, <2>2
<1> QED  BY <1>2

\* AllDone is the last of the states that the events lead through.
LEMMA Progression ==
  ASSUME NEW w, NEW n \in Nat, n = Len(Events(w))
  PROVE  \E f : /\ f[0] = Start(w)
                /\ \A i \in 1 .. n : f[i] = NextDone(w, f[i - 1], i)
                /\ AllDone(w) = f[n]
<1> DEFINE Step(f, i) == IF i = 0 THEN Start(w) ELSE NextDone(w, f[i - 1], i)
           Partly(k) == \E f : f = [i \in 0 .. k |-> Step(f, i)]
           upTo == CHOOSE f : f = [i \in 0 .. n |-> Step(f, i)]
<1>1. Partly(n)
  <2> DEFINE Wrong == {k \in Nat : ~Partly(k)}
  <2>1. SUFFICES ASSUME Wrong # {} PROVE FALSE
    OBVIOUS
  <2>2. PICK k \in Wrong : \A j \in Wrong : k <= j
    <3>1. Wrong \in SUBSET Nat
      OBVIOUS
    <3> HIDE DEF Wrong
    <3> QED  BY <2>1, <3>1, HasMinimum
  <2>3. k # 0
    <3> DEFINE f == [i \in 0 .. 0 |-> Start(w)]
    <3>1. f = [i \in 0 .. 0 |-> Step(f, i)]
      OBVIOUS
    <3> HIDE DEF f, Step
    <3>2. Partly(0)
      BY <3>1
    <3> QED  BY <2>2, <3>2
  <2>4. k \in Nat /\ k - 1 \in Nat /\ Partly(k - 1)
    <3> HIDE DEF Partly
    <3> QED  BY <2>2, <2>3
  <2>5. PICK g : g = [i \in 0 .. k - 1 |-> Step(g, i)]
    BY <2>4
  <2> DEFINE h == [i \in 0 .. k |-> IF i = k THEN NextDone(w, g[k - 1], k) ELSE g[i]]
  <2>6. ASSUME NEW i \in 0 .. k PROVE h[i] = Step(h, i)
    <3>1. CASE i = 0
      BY <2>3, <2>4, <2>5, <3>1
    <3>2. CASE i \in 1 .. k - 1
      <4>1. h[i] = g[i] /\ h[i - 1] = g[i - 1] /\ i # 0
        BY <2>4, <3>2
      <4>2. g[i] = Step(g, i)
        BY <2>4, <2>5, <3>2
      <4> QED  BY <4>1, <4>2
    <3>3. CASE i = k
      <4>1. h[k - 1] = g[k - 1] /\ h[k] = NextDone(w, g[k - 1], k)
        BY <2>3, <2>4
      <4> QED  BY <2>3, <3>3, <4>1
    <3> QED  BY <2>4, <3>1, <3>2, <3>3
  <2>7. h = [i \in 0 .. k |-> Step(h, i)]
    BY <2>6
  <2> HIDE DEF h, Step
  <2>8. Partly(k)
    BY <2>7
  <2> QED  BY <2>2, <2>8
<1>2. upTo = [i \in 0 .. n |-> Step(upTo, i)]
  <2> HIDE DEF Step
  <2> QED  BY <1>1
<1>3. AllDone(w) = upTo[n]
  BY DEF AllDone
<1> HIDE DEF upTo
<1>4. upTo[0] = Start(w)
  BY <1>2
<1>5. ASSUME NEW i \in 1 .. n PROVE upTo[i] = NextDone(w, upTo[i - 1], i)
  BY <1>2
<1> QED  BY <1>3, <1>4, <1>5

-----------------------------------------------------------------------------
(* What one handler does. *)

\* Sessions are never removed and no day is opened again.
Grows(d, n) ==
    /\ \A s \in Books \X Instruments : n.sessions[s] = None => d.sessions[s] = None
    /\ d.noTrading \subseteq n.noTrading

\* Every handler grows the tables.
LEMMA HandleGrows ==
  ASSUME NEW w, NEW d \in Tables, NEW results, NEW i, NEW e \in Event,
         Book(w) \in Books, Key(w, i) \in EventKey, Dependency(results) \in Nat
  PROVE  Grows(d, Handle(w, d, results, i, e).tables)
<1> DEFINE b == Book(w)
           key == Key(w, i)
           n == Handle(w, d, results, i, e).tables
<1>0. Grows(d, d)
  BY DEF Grows
<1>1. ASSUME NEW t, t.sessions = d.sessions, t.noTrading = d.noTrading
      PROVE  Grows(d, t)
  BY <1>1 DEF Grows
<1>2. CASE e.type = "PLACE_PENDING_ORDER"
  <2> DEFINE k == ResolvedInstrument(d, b, e.instrument)
             o == NewOrder(b, k, e)
             c == NewPlace(d, key, Dependency(results))
             S == OpenFor(d, b, k)
             unresolved == Unresolved(results)
             depends == Dependency(results)
  <2>1. n = PlacePendingOrder(d, b, key, e, unresolved, depends).tables
    BY <1>2 DEF Handle
  <2> HIDE DEF n, unresolved
  <2>2. CASE RefusesEntry(d, b, e, unresolved) \/ AlreadyPending(d, b, k, e)
    <3>1. n = d
      BY <2>1, <2>2 DEF PlacePendingOrder, Review, Noop, Mutation
    <3> QED  BY <1>0, <3>1 DEF n
  <2>3. CASE ~RefusesEntry(d, b, e, unresolved) /\ ~AlreadyPending(d, b, k, e)
    <3>1. n = WithPlacement(d, S, o, c)
      BY <2>1, <2>3 DEF PlacePendingOrder, Mutation
    <3>2. k \in Instruments
      <4>1. e.instrument \in Instruments \cup {None}
        BY DEF Event
      <4>2. k \in Instruments \cup {None}
        BY <4>1, ResolvedType
      <4> QED  BY <2>3, <4>2 DEF RefusesEntry
    <3>3. n.sessions = S /\ n.noTrading = d.noTrading
      BY <3>1 DEF WithPlacement, Tables
    <3>4. d.sessions \in SessionTable
      BY ColumnTypes
    <3> HIDE DEF k
    <3>5. \A s \in Books \X Instruments : n.sessions[s] = None => d.sessions[s] = None
      BY <3>2, <3>3, <3>4, NoneAssumption DEF OpenFor, SessionTable, SessionState
    <3> QED  BY <3>3, <3>5 DEF Grows, n
  <2> QED  BY <2>2, <2>3
<1>3. CASE e.type = "CANCEL_PENDING_ORDER"
  <2>1. n = CancelPendingOrder(d, b, key, e).tables
    BY <1>3 DEF Handle
  <2> QED  BY <1>1, <2>1 DEF CancelPendingOrder, WithCancellation, Review, Mutation, Tables
<1>4. CASE e.type = "MARK_ORDER_TRIGGERED"
  <2>1. n = MarkOrderTriggered(d, b, e).tables
    BY <1>4 DEF Handle
  <2> QED  BY <1>1, <2>1 DEF MarkOrderTriggered, WithFill, Review, Mutation, Tables
<1>5. CASE e.type = "RECORD_TRADE_RESULT"
  <2>1. n = RecordTradeResult(d, b, e).tables
    BY <1>5 DEF Handle
  <2> QED  BY <1>1, <2>1 DEF RecordTradeResult, WithPositionState, Review, Mutation, Tables
<1>6. CASE e.type = "END_SESSION"
  <2> DEFINE targets == SessionsIn(d, b, OpenSession)
             s0 == <<b, The(targets)>>
  <2>1. n = EndSession(d, b).tables
    BY <1>6 DEF Handle
  <2>2. CASE ~Unique(targets)
    BY <1>0, <2>1, <2>2 DEF EndSession, Review, Mutation
  <2>3. CASE Unique(targets)
    <3>1. n = WithSessionState(d, s0, "ENDED")
      BY <2>1, <2>3 DEF EndSession, Mutation
    <3>2. The(targets) \in targets
      BY <2>3, TheIn
    <3>3. s0 \in Books \X Instruments
      BY <3>2 DEF SessionsIn
    <3>4. "ENDED" \in SessionState
      BY DEF SessionState
    <3> HIDE DEF s0, n
    <3>5. /\ Same(n, d, {"sessions"})
          /\ n.sessions = [d.sessions EXCEPT ![s0] = "ENDED"]
      BY <3>1, <3>3, <3>4, SessionStateRows
    <3>6. d.sessions \in SessionTable
      BY ColumnTypes
    <3> QED  BY <3>4, <3>5, <3>6, NoneAssumption DEF Grows, Same, SessionTable, n
  <2> QED  BY <2>2, <2>3
<1>7. CASE e.type = "NO_TRADING_DAY"
  <2>1. n = NoTradingDay(d, b).tables
    BY <1>7 DEF Handle
  <2>2. CASE b \in d.noTrading
    BY <1>0, <2>1, <2>2 DEF NoTradingDay, Noop, Mutation
  <2>3. CASE b \notin d.noTrading
    <3>1. n = WithNoTrading(d, b)
      BY <2>1, <2>3 DEF NoTradingDay, Mutation
    <3> HIDE DEF n
    <3>2. n.sessions = ClosedForTheDay(d, b) /\ n.noTrading = d.noTrading \cup {b}
      BY <3>1, NoTradingRows
    <3> QED  BY <3>2, NoneAssumption DEF Grows, ClosedForTheDay, SessionState, n
  <2> QED  BY <2>2, <2>3
<1>8. CASE e.type = "REQUEST_MANUAL_REVIEW"
  <2>1. n = d
    BY <1>8 DEF Handle, Review, Mutation
  <2> QED  BY <1>0, <2>1
<1> QED
  <2>1. e.type \in EventType
    BY DEF Event
  <2> QED  BY <1>2, <1>3, <1>4, <1>5, <1>6, <1>7, <1>8, <2>1 DEF EventType, CommandType

\* Every handler emits what its event stands for, on whatever rows.
LEMMA HandleEmits ==
  ASSUME NEW w, NEW d \in Tables, NEW results, NEW i, NEW e \in Event,
         Book(w) \in Books, Key(w, i) \in EventKey, Dependency(results) \in Nat
  PROVE  Emits(d, Handle(w, d, results, i, e), Key(w, i), e.type)
<1> DEFINE b == Book(w)
           key == Key(w, i)
           unresolved == Unresolved(results)
           depends == Dependency(results)
           mu == Handle(w, d, results, i, e)
<1> HIDE DEF b, key, unresolved, depends
<1>0. b \in Books /\ key \in EventKey /\ depends \in Nat
  BY DEF b, key, depends
<1>1. CASE e.type = "PLACE_PENDING_ORDER"
  <2>1. mu = PlacePendingOrder(d, b, key, e, unresolved, depends)
    BY <1>1 DEF Handle, b, key, unresolved, depends
  <2> QED  BY <1>0, <1>1, <2>1, PlaceEmits DEF key
<1>2. CASE e.type = "CANCEL_PENDING_ORDER"
  <2>1. mu = CancelPendingOrder(d, b, key, e)
    BY <1>2 DEF Handle, b, key
  <2> QED  BY <1>0, <1>2, <2>1, CancelEmits DEF key
<1>3. CASE e.type = "MARK_ORDER_TRIGGERED"
  <2>1. mu = MarkOrderTriggered(d, b, e)
    BY <1>3 DEF Handle, b
  <2> QED  BY <1>3, <2>1, TriggeredEmits DEF CommandType
<1>4. CASE e.type = "RECORD_TRADE_RESULT"
  <2>1. mu = RecordTradeResult(d, b, e)
    BY <1>4 DEF Handle, b
  <2> QED  BY <1>4, <2>1, ResultEmits DEF CommandType
<1>5. CASE e.type = "END_SESSION"
  <2>1. mu = EndSession(d, b)
    BY <1>5 DEF Handle, b
  <2> QED  BY <1>0, <1>5, <2>1, EndSound DEF CommandType
<1>6. CASE e.type = "NO_TRADING_DAY"
  <2>1. mu = NoTradingDay(d, b)
    BY <1>6 DEF Handle, b
  <2> QED  BY <1>0, <1>6, <2>1, NoTradingSound DEF CommandType
<1>7. CASE e.type = "REQUEST_MANUAL_REVIEW"
  <2>1. mu = Review(d)
    BY <1>7 DEF Handle
  <2> QED  BY <1>7, <2>1, IdleEmits
<1> QED
  <2>1. e.type \in EventType
    BY DEF Event
  <2> QED  BY <1>1, <1>2, <1>3, <1>4, <1>5, <1>6, <1>7, <2>1 DEF EventType, CommandType

\* On tables that agree it leaves tables that agree, and stays in its book.
LEMMA HandleSound ==
  ASSUME NEW w, NEW d \in Tables, Good(d), NEW results, NEW i, NEW e \in Event,
         Book(w) \in Books, Key(w, i) \in EventKey, Dependency(results) \in Nat,
         ~Unresolved(results) => Awaited(d, Dependency(results))
  PROVE  /\ Good(Handle(w, d, results, i, e).tables)
         /\ Effect(d, Handle(w, d, results, i, e).tables, Book(w))
<1> DEFINE b == Book(w)
           key == Key(w, i)
           unresolved == Unresolved(results)
           depends == Dependency(results)
           mu == Handle(w, d, results, i, e)
<1> HIDE DEF b, key, unresolved, depends
<1>0. /\ b \in Books /\ key \in EventKey /\ depends \in Nat
      /\ ~unresolved => Awaited(d, depends)
  BY DEF b, key, depends, unresolved
<1>1. CASE e.type = "PLACE_PENDING_ORDER"
  <2>1. mu = PlacePendingOrder(d, b, key, e, unresolved, depends)
    BY <1>1 DEF Handle, b, key, unresolved, depends
  <2>2. ~unresolved => depends = 0 \/ depends \in DOMAIN d.commands
    BY <1>0 DEF Awaited
  <2>3. Sound(d, mu, key, e.type)
    BY <1>0, <1>1, <2>1, PlaceSound
  <2>4. Effect(d, mu.tables, b)
    BY <1>0, <1>1, <2>1, <2>2, PlaceEffect
  <2> QED  BY <2>3, <2>4 DEF Sound, b
<1>2. CASE e.type = "CANCEL_PENDING_ORDER"
  <2>1. mu = CancelPendingOrder(d, b, key, e)
    BY <1>2 DEF Handle, b, key
  <2>2. Sound(d, mu, key, e.type) /\ Effect(d, mu.tables, b)
    BY <1>0, <1>2, <2>1, CancelSound, CancelEffect
  <2> QED  BY <2>2 DEF Sound, b
<1>3. CASE e.type = "MARK_ORDER_TRIGGERED"
  <2>1. mu = MarkOrderTriggered(d, b, e)
    BY <1>3 DEF Handle, b
  <2>2. Sound(d, mu, key, e.type) /\ Effect(d, mu.tables, b)
    BY <1>0, <1>3, <2>1, TriggeredSound, TriggeredEffect DEF CommandType
  <2> QED  BY <2>2 DEF Sound, b
<1>4. CASE e.type = "RECORD_TRADE_RESULT"
  <2>1. mu = RecordTradeResult(d, b, e)
    BY <1>4 DEF Handle, b
  <2>2. Sound(d, mu, key, e.type) /\ Effect(d, mu.tables, b)
    BY <1>0, <1>4, <2>1, ResultSound, ResultEffect DEF CommandType
  <2> QED  BY <2>2 DEF Sound, b
<1>5. CASE e.type = "END_SESSION"
  <2>1. mu = EndSession(d, b)
    BY <1>5 DEF Handle, b
  <2>2. Sound(d, mu, key, e.type) /\ Effect(d, mu.tables, b)
    BY <1>0, <1>5, <2>1, EndSound, EndEffect DEF CommandType
  <2> QED  BY <2>2 DEF Sound, b
<1>6. CASE e.type = "NO_TRADING_DAY"
  <2>1. mu = NoTradingDay(d, b)
    BY <1>6 DEF Handle, b
  <2>2. Sound(d, mu, key, e.type) /\ Effect(d, mu.tables, b)
    BY <1>0, <1>6, <2>1, NoTradingSound, NoTradingEffect DEF CommandType
  <2> QED  BY <2>2 DEF Sound, b
<1>7. CASE e.type = "REQUEST_MANUAL_REVIEW"
  <2>1. mu.tables = d
    BY <1>7 DEF Handle, Review, Mutation
  <2>2. Effect(d, d, b)
    BY NoEffect DEF Same
  <2> QED  BY <2>1, <2>2 DEF b
<1> QED
  <2>1. e.type \in EventType
    BY DEF Event
  <2> QED  BY <1>1, <1>2, <1>3, <1>4, <1>5, <1>6, <1>7, <2>1 DEF EventType, CommandType

-----------------------------------------------------------------------------
(* One event after another. *)

EventResult == [type : EventType, outcome : Outcome, cmd : Nat]

\* A cancellation this version emitted is in the outbox and not reported on yet.
CancelsAwait(d, results) ==
    \A k \in DOMAIN results :
        LET c == results[k].cmd
        IN  /\ results[k].type = "CANCEL_PENDING_ORDER"
            /\ results[k].outcome = "APPLIED"
            /\ c # 0
            => /\ c \in DOMAIN d.commands
               /\ IsCancel(d.commands[c])
               /\ d.commands[c].state = "PENDING"

\* A placement depends on the last cancellation, if that was applied.
LEMMA DependencyAwaited ==
  ASSUME NEW d, NEW results \in Seq(EventResult), CancelsAwait(d, results)
  PROVE  /\ Dependency(results) \in Nat
         /\ ~Unresolved(results) => Awaited(d, Dependency(results))
<1> DEFINE cancels == CancelResults(results)
           last == Max(cancels)
<1>1. cancels \subseteq 1 .. Len(results) /\ Len(results) \in Nat
      /\ \A k \in 1 .. Len(results) : results[k] \in EventResult
  BY DEF CancelResults
<1>2. CASE cancels = {}
  BY <1>2 DEF Dependency, Awaited
<1>3. CASE cancels # {}
  <2> HIDE DEF cancels
  <2>1. \E m \in cancels : \A s \in cancels : s <= m
    BY <1>1, <1>3, GreatestIndex
  <2>2. last \in cancels
    BY <1>1, <2>1 DEF Max
  <2> HIDE DEF last
  <2>3. last \in DOMAIN results /\ results[last] \in EventResult
    BY <1>1, <2>2
  <2>4. results[last].type = "CANCEL_PENDING_ORDER"
    BY <2>2 DEF cancels, CancelResults
  <2>5. Dependency(results) = results[last].cmd
    BY <1>3 DEF Dependency, last, cancels
  <2>6. ~Unresolved(results) =>
            results[last].outcome = "APPLIED" /\ results[last].cmd # 0
    BY <1>3 DEF Unresolved, last, cancels
  <2> QED  BY <2>3, <2>4, <2>5, <2>6 DEF CancelsAwait, Awaited, EventResult
<1> QED  BY <1>2, <1>3

\* Every applied placement or cancellation has its command.
Paid(d) ==
    \A p \in d.processed :
        p.outcome = "APPLIED" /\ p.event.type \in CommandType =>
            \E c \in DOMAIN d.commands : d.commands[c].key = p.key

\* What a worker knows when it begins to write.
Writing(w) ==
    /\ job[w].msg \in Messages /\ job[w].ver \in Nat
    /\ job[w].base \in Tables /\ db \in Tables
    /\ Book(w) \in Books /\ Events(w) \in Seq(Event)
    /\ OneCommandPerEvent(db) /\ Paid(db)
    /\ job[w].seen \subseteq db.processed
    /\ \E i \in DOMAIN Events(w) : ~Handled(job[w].seen, Key(w, i))
    /\ ~Handled(db.processed, Key(w, First(w)))

\* What holds of the tables after the first k events of its version.
Done(w, S, k) ==
    LET start == Start(w).tables
    IN  /\ S.tables \in Tables /\ S.results \in Seq(EventResult) /\ S.applied \in BOOLEAN
        /\ Follows(start, S.tables)
        /\ OneCommandPerEvent(S.tables) /\ Paid(S.tables)
        /\ CancelsAwait(S.tables, S.results)
        /\ start.processed \subseteq S.tables.processed
        /\ \A p \in S.tables.processed :
               p \in start.processed \/ (p.key.msg = job[w].msg /\ p.key.ver = job[w].ver)
        /\ \A i \in 1 .. k : Handled(S.tables.processed, Key(w, i))
        /\ k < First(w) => S.tables = start
        /\ ~S.applied => Same(S.tables, start, {"processed"})
        /\ Good(start) => /\ Good(S.tables)
                          /\ Effect(start, S.tables, Book(w))
                          /\ Grows(start, S.tables)

\* The tables a worker starts from.
LEMMA StartTables ==
  ASSUME NEW w, job[w].base \in Tables, db \in Tables
  PROVE  /\ Start(w).tables \in Tables
         /\ Same(Start(w).tables, job[w].base, {"commands", "processed"})
         /\ Start(w).tables.commands = db.commands
         /\ Start(w).tables.processed = db.processed
         /\ Start(w).results = <<>> /\ Start(w).applied = FALSE
<1> DEFINE n == [job[w].base EXCEPT !.commands = db.commands,
                                    !.processed = db.processed]
<1>1. Start(w) = Progress(n, <<>>, FALSE)
  BY DEF Start
<1>2. n \in Tables
  BY DEF Tables
<1>3. Same(n, job[w].base, {"commands", "processed"})
      /\ n.commands = db.commands /\ n.processed = db.processed
  BY DEF Tables, Same
<1> HIDE DEF n
<1> QED  BY <1>1, <1>2, <1>3 DEF Progress

\* First is the first event not seen handled.
LEMMA FirstUnseen ==
  ASSUME NEW w, Writing(w)
  PROVE  /\ First(w) \in 1 .. Len(Events(w)) /\ Len(Events(w)) \in Nat
         /\ \A i \in 1 .. Len(Events(w)) : i < First(w) => Handled(job[w].seen, Key(w, i))
<1> DEFINE U == {i \in DOMAIN Events(w) : ~Handled(job[w].seen, Key(w, i))}
<1>1. DOMAIN Events(w) = 1 .. Len(Events(w)) /\ Len(Events(w)) \in Nat
  BY DEF Writing
<1>2. U \in SUBSET Nat /\ U # {}
  BY <1>1 DEF Writing
<1>3. First(w) = Min(U)
  BY DEF First
<1>4. First(w) \in U /\ \A j \in U : First(w) <= j
  <2> HIDE DEF U
  <2>1. \E k \in U : \A j \in U : k <= j
    BY <1>2, HasMinimum
  <2> QED  BY <1>3, <2>1 DEF Min
<1> QED
  <2>1. ASSUME NEW i \in 1 .. Len(Events(w)), i < First(w)
        PROVE  Handled(job[w].seen, Key(w, i))
    <3>1. i \notin U
      BY <1>1, <1>2, <1>4, <2>1
    <3> QED  BY <1>1, <3>1
  <2> QED  BY <1>1, <1>4, <2>1

\* An event that was handled already changes nothing.
LEMMA SeenKeeps ==
  ASSUME NEW w, Writing(w), NEW k \in 1 .. Len(Events(w)), NEW S, Done(w, S, k - 1),
         NEW rows, rows \subseteq S.tables.processed,
         Handled(rows, Key(w, k))
  PROVE  Done(w, EventDone(w, S, rows, k), k)
<1> DEFINE e == Events(w)[k]
           p == CHOOSE q \in rows : q.key = Key(w, k)
           r == [type |-> e.type, outcome |-> p.outcome, cmd |-> 0]
           T == Progress(S.tables, Append(S.results, r), S.applied)
<1>1. EventDone(w, S, rows, k) = T
  BY DEF EventDone
<1>2. e \in Event /\ Len(Events(w)) \in Nat
  BY DEF Writing
<1>3. r \in EventResult
  <2>1. p \in Processed
    <3>1. S.tables.processed \subseteq Processed
      BY ColumnTypes DEF Done
    <3> QED  BY <3>1 DEF Handled
  <2>2. p.outcome \in Outcome
    BY <2>1 DEF Processed
  <2>3. e.type \in EventType
    BY <1>2 DEF Event
  <2> HIDE DEF p, e
  <2> QED  BY <2>2, <2>3 DEF EventResult
<1>4. r.cmd = 0
  OBVIOUS
<1> HIDE DEF r
<1>5. T.tables = S.tables /\ T.results = Append(S.results, r) /\ T.applied = S.applied
  BY DEF Progress
<1> HIDE DEF T
<1>6. S.results \in Seq(EventResult)
  BY DEF Done
<1>7. T.results \in Seq(EventResult)
  BY <1>3, <1>5, <1>6
<1>8. \A j \in DOMAIN T.results :
          \/ j \in DOMAIN S.results /\ T.results[j] = S.results[j]
          \/ T.results[j] = r
  BY <1>3, <1>5, <1>6
<1>9. CancelsAwait(T.tables, T.results)
  BY <1>4, <1>5, <1>8 DEF Done, CancelsAwait
<1>10. \A i \in 1 .. k : Handled(T.tables.processed, Key(w, i))
  <2>1. Handled(S.tables.processed, Key(w, k))
    BY DEF Handled
  <2>2. \A i \in 1 .. k : i \in 1 .. k - 1 \/ i = k
    BY <1>2
  <2> QED  BY <1>5, <2>1, <2>2 DEF Done
<1>11. k < First(w) => k - 1 < First(w)
  BY <1>2, FirstUnseen
<1>12. Done(w, T, k)
  BY <1>5, <1>7, <1>9, <1>10, <1>11 DEF Done
<1> QED  BY <1>1, <1>12

\* An event that was not handled is recorded with what its handler, or the guard
\* against edits, made of it.
LEMMA RecordKeeps ==
  ASSUME NEW w, Writing(w), NEW k \in 1 .. Len(Events(w)), NEW S, Done(w, S, k - 1),
         First(w) <= k, ~Handled(S.tables.processed, Key(w, k)),
         NEW e, e = Events(w)[k],
         NEW mu, Emits(S.tables, mu, Key(w, k), e.type),
         NEW applied \in BOOLEAN,
         ~applied => ~S.applied /\ mu.tables = S.tables,
         Good(S.tables) => /\ Good(mu.tables)
                           /\ Effect(S.tables, mu.tables, Book(w))
                           /\ Grows(S.tables, mu.tables),
         NEW T, T = Progress(Record(mu.tables, Key(w, k), e, mu.outcome),
                             Append(S.results, [type |-> e.type, outcome |-> mu.outcome,
                                                cmd |-> mu.cmd]),
                             applied)
  PROVE  Done(w, T, k)
<1> DEFINE d == S.tables
           key == Key(w, k)
           n == Record(mu.tables, key, e, mu.outcome)
           r == [type |-> e.type, outcome |-> mu.outcome, cmd |-> mu.cmd]
           row == [key |-> key, event |-> e, outcome |-> mu.outcome]
           start == Start(w).tables
<1>1. e \in Event /\ e.type \in EventType /\ Len(Events(w)) \in Nat /\ key \in EventKey
  BY DEF Writing, Event, Key, EventKey
<1>2. /\ d \in Tables /\ OneCommandPerEvent(d) /\ Paid(d)
      /\ S.results \in Seq(EventResult) /\ S.applied \in BOOLEAN
      /\ Follows(start, d) /\ CancelsAwait(d, S.results)
      /\ start.processed \subseteq d.processed
  BY DEF Done
<1>3. /\ mu.tables \in Tables /\ mu.outcome \in Outcome /\ mu.cmd \in Nat
      /\ CommandOf(d, mu, key, e.type)
      /\ mu.outcome = "APPLIED" /\ e.type \in CommandType => mu.cmd # 0
  BY DEF Emits
<1>4. /\ key.msg = job[w].msg /\ key.ver = job[w].ver
      /\ row.key = key /\ row.event = e /\ row.outcome = mu.outcome
      /\ r.type = e.type /\ r.outcome = mu.outcome /\ r.cmd = mu.cmd
  BY DEF Key
<1>5. r \in EventResult
  BY <1>1, <1>3 DEF EventResult
<1>6. \A p \in d.processed : p.key # key
  BY DEF Handled
<1>7. T.tables = n /\ T.results = Append(S.results, r) /\ T.applied = applied
  BY DEF Progress
<1>8. Emits(d, mu, key, e.type)
  OBVIOUS
<1> HIDE DEF r, key, d, n, start
<1>9. /\ n \in Tables /\ Same(n, mu.tables, {"processed"})
      /\ n.processed = d.processed \cup {row}
      /\ Follows(d, n) /\ OneCommandPerEvent(n)
  BY <1>1, <1>2, <1>6, <1>8, RecordOnce DEF n
<1> HIDE DEF row
<1>10. n.commands = mu.tables.commands
  BY <1>9 DEF Same
<1>11. Paid(n)
  <2> SUFFICES ASSUME NEW p \in n.processed, p.outcome = "APPLIED",
                      p.event.type \in CommandType
               PROVE  \E c \in DOMAIN n.commands : n.commands[c].key = p.key
    BY DEF Paid
  <2>1. CASE p \in d.processed
    <3>1. PICK c \in DOMAIN d.commands : d.commands[c].key = p.key
      BY <1>2, <2>1 DEF Paid
    <3> QED  BY <1>9, <3>1 DEF Follows
  <2>2. CASE p = row
    <3>1. mu.cmd # 0
      BY <1>3, <1>4, <2>2
    <3>2. mu.cmd \in DOMAIN n.commands /\ n.commands[mu.cmd].key = key
      BY <1>3, <1>10, <3>1 DEF CommandOf
    <3> QED  BY <1>4, <2>2, <3>2
  <2> QED  BY <1>9, <2>1, <2>2
<1>12. T.results \in Seq(EventResult)
  <2>1. S.results \in Seq(EventResult)
    BY <1>2
  <2>2. Append(S.results, r) \in Seq(EventResult)
    BY <1>5, <2>1
  <2> QED  BY <1>7, <2>2
<1>13. CancelsAwait(n, T.results)
  <2> SUFFICES ASSUME NEW j \in DOMAIN T.results,
                      T.results[j].type = "CANCEL_PENDING_ORDER",
                      T.results[j].outcome = "APPLIED", T.results[j].cmd # 0
               PROVE  /\ T.results[j].cmd \in DOMAIN n.commands
                      /\ IsCancel(n.commands[T.results[j].cmd])
                      /\ n.commands[T.results[j].cmd].state = "PENDING"
    BY DEF CancelsAwait
  <2>1. \/ j \in DOMAIN S.results /\ T.results[j] = S.results[j]
        \/ T.results[j] = r
    BY <1>2, <1>5, <1>7
  <2>2. CASE j \in DOMAIN S.results /\ T.results[j] = S.results[j]
    <3>1. /\ S.results[j].cmd \in DOMAIN d.commands
          /\ IsCancel(d.commands[S.results[j].cmd])
          /\ d.commands[S.results[j].cmd].state = "PENDING"
      BY <1>2, <2>2 DEF CancelsAwait
    <3> QED  BY <1>9, <2>2, <3>1 DEF Follows
  <2>3. CASE T.results[j] = r
    BY <1>3, <1>4, <1>10, <2>3 DEF CommandOf, IsCancel
  <2> QED  BY <2>1, <2>2, <2>3
<1>14. Follows(start, n)
  BY <1>2, <1>9, FollowsTransitive
<1>15. /\ start.processed \subseteq n.processed
       /\ \A p \in n.processed :
              p \in start.processed \/ (p.key.msg = job[w].msg /\ p.key.ver = job[w].ver)
  BY <1>2, <1>4, <1>9 DEF Done, d, start
<1>16. \A i \in 1 .. k : Handled(n.processed, Key(w, i))
  <2>1. Handled(n.processed, key)
    BY <1>4, <1>9 DEF Handled
  <2>2. \A i \in 1 .. k - 1 : Handled(d.processed, Key(w, i))
    BY DEF Done, d
  <2>3. \A i \in 1 .. k : i \in 1 .. k - 1 \/ i = k
    BY <1>1
  <2> QED  BY <1>9, <2>1, <2>2, <2>3 DEF Handled, key
<1>17. ~(k < First(w))
  BY <1>1, FirstUnseen
<1>18. ~applied => Same(n, start, {"processed"})
  <2> SUFFICES ASSUME ~applied PROVE Same(n, start, {"processed"})
    OBVIOUS
  <2>1. ~S.applied /\ mu.tables = d
    BY DEF d
  <2>2. Same(d, start, {"processed"})
    BY <2>1 DEF Done, d, start
  <2> QED  BY <1>9, <2>1, <2>2 DEF Same
<1>19. Good(start) => Good(n) /\ Effect(start, n, Book(w)) /\ Grows(start, n)
  <2> SUFFICES ASSUME Good(start)
               PROVE  Good(n) /\ Effect(start, n, Book(w)) /\ Grows(start, n)
    OBVIOUS
  <2>1. Good(d) /\ Effect(start, d, Book(w)) /\ Grows(start, d)
    BY DEF Done, d, start
  <2>2. Good(mu.tables) /\ Effect(d, mu.tables, Book(w)) /\ Grows(d, mu.tables)
    BY <2>1 DEF d
  <2>3. Good(n)
    BY <1>9, <2>2, RecordGood
  <2>4. Effect(mu.tables, n, Book(w))
    BY <1>9, NoEffect DEF Same
  <2>5. start \in Tables
    BY StartTables DEF Writing, start
  <2>6. Effect(start, mu.tables, Book(w))
    BY <1>2, <1>3, <2>1, <2>2, <2>5, EffectTransitive
  <2>7. Effect(start, n, Book(w))
    BY <1>3, <1>9, <2>4, <2>5, <2>6, EffectTransitive
  <2>8. n.sessions = mu.tables.sessions /\ n.noTrading = mu.tables.noTrading
    BY <1>9 DEF Same
  <2>9. Grows(start, n)
    BY <2>1, <2>2, <2>8 DEF Grows
  <2> QED  BY <2>3, <2>7, <2>9
<1> QED
  BY <1>7, <1>9, <1>11, <1>12, <1>13, <1>14, <1>15, <1>16, <1>17, <1>18, <1>19
  DEF Done, start

\* A step that an event takes keeps what holds of the tables.
LEMMA NextKeeps ==
  ASSUME NEW w, Writing(w), NEW k \in 1 .. Len(Events(w)), NEW S, Done(w, S, k - 1)
  PROVE  Done(w, NextDone(w, S, k), k)
<1> DEFINE d == S.tables
           key == Key(w, k)
           e == Events(w)[k]
           rows == IF k <= First(w) THEN job[w].seen ELSE S.tables.processed
           prior == PriorRows(w, rows, k)
           guard == IF (CHOOSE p \in prior : \A q \in prior : q.key.ver <= p.key.ver).event = e
                    THEN "NOOP" ELSE "MANUAL_REVIEW"
           mu == Handle(w, d, S.results, k, e)
           Row(outcome, cmd) == Append(S.results, [type |-> e.type, outcome |-> outcome,
                                                   cmd |-> cmd])
<1>1. NextDone(w, S, k) = EventDone(w, S, rows, k)
  BY DEF NextDone
<1>2. /\ First(w) \in 1 .. Len(Events(w)) /\ Len(Events(w)) \in Nat
      /\ \A i \in 1 .. Len(Events(w)) : i < First(w) => Handled(job[w].seen, Key(w, i))
  BY FirstUnseen
<1>3. Start(w).tables.processed = db.processed /\ job[w].seen \subseteq db.processed
      /\ ~Handled(db.processed, Key(w, First(w)))
  BY StartTables DEF Writing
<1>4. /\ rows \subseteq d.processed
      /\ ~Handled(rows, key) => First(w) <= k /\ ~Handled(d.processed, key)
  <2>1. CASE k < First(w)
    <3>1. rows = job[w].seen /\ Handled(rows, key)
      BY <1>2, <2>1
    <3>2. d.processed = db.processed
      BY <1>2, <1>3, <2>1 DEF Done
    <3> QED  BY <1>3, <3>1, <3>2
  <2>2. CASE k = First(w)
    <3>1. rows = job[w].seen
      BY <1>2, <2>2
    <3>2. d.processed = db.processed
      BY <1>2, <1>3, <2>2 DEF Done
    <3> QED  BY <1>2, <1>3, <2>2, <3>1, <3>2
  <2>3. CASE k > First(w)
    BY <1>2, <2>3
  <2> QED  BY <1>2, <2>1, <2>2, <2>3
<1>5. /\ e \in Event /\ key \in EventKey /\ Book(w) \in Books
      /\ d \in Tables /\ S.applied \in BOOLEAN
      /\ S.results \in Seq(EventResult) /\ CancelsAwait(d, S.results)
  BY DEF Writing, Done, Key, EventKey
<1> HIDE DEF rows
<1>6. CASE Handled(rows, key)
  BY <1>1, <1>4, <1>6, SeenKeeps
<1>7. CASE ~Handled(rows, key) /\ prior # {}
  <2> DEFINE mg == Mutation(d, guard, 0)
             T == Progress(Record(d, key, e, guard), Row(guard, 0), S.applied)
  <2>1. EventDone(w, S, rows, k) = T
    BY <1>7 DEF EventDone
  <2>2. guard \in Outcome /\ guard # "APPLIED"
    BY DEF Outcome
  <2> HIDE DEF guard, e, key, d
  <2>3. mg.tables = d /\ mg.outcome = guard /\ mg.cmd = 0
    BY DEF Mutation
  <2>4. T = Progress(Record(mg.tables, key, e, mg.outcome), Row(mg.outcome, mg.cmd), S.applied)
    BY <2>3
  <2> HIDE DEF mg, T
  <2>5. Emits(d, mg, key, e.type)
    BY <1>5, <2>2, <2>3 DEF Emits, Follows, CommandOf
  <2>6. Good(d) => /\ Good(mg.tables) /\ Effect(d, mg.tables, Book(w))
                   /\ Grows(d, mg.tables)
    BY <2>3, NoEffect DEF Same, Grows
  <2>7. Done(w, T, k)
    BY <1>4, <1>5, <1>7, <2>3, <2>4, <2>5, <2>6, RecordKeeps DEF e, key, d
  <2> QED  BY <1>1, <2>1, <2>7
<1>8. CASE ~Handled(rows, key) /\ prior = {}
  <2> DEFINE T == Progress(Record(mu.tables, key, e, mu.outcome), Row(mu.outcome, mu.cmd), TRUE)
  <2>1. EventDone(w, S, rows, k) = T
    BY <1>8 DEF EventDone
  <2>2. /\ Dependency(S.results) \in Nat
        /\ ~Unresolved(S.results) => Awaited(d, Dependency(S.results))
    BY <1>5, DependencyAwaited
  <2> HIDE DEF e, d
  <2>3. Emits(d, mu, key, e.type)
    BY <1>5, <2>2, HandleEmits
  <2>4. Good(d) => Good(mu.tables) /\ Effect(d, mu.tables, Book(w))
    BY <1>5, <2>2, HandleSound
  <2>5. Grows(d, mu.tables)
    BY <1>5, <2>2, HandleGrows
  <2> HIDE DEF mu, key
  <2>6. Done(w, T, k)
    BY <1>4, <1>5, <1>8, <2>3, <2>4, <2>5, RecordKeeps DEF e, key, d
  <2> QED  BY <1>1, <2>1, <2>6
<1> QED  BY <1>6, <1>7, <1>8

\* So it holds when all events are done.
LEMMA AllKeeps ==
  ASSUME NEW w, Writing(w)
  PROVE  Done(w, AllDone(w), Len(Events(w)))
<1> DEFINE n == Len(Events(w))
<1>1. n \in Nat
  BY FirstUnseen
<1>2. PICK f : /\ f[0] = Start(w)
               /\ \A i \in 1 .. n : f[i] = NextDone(w, f[i - 1], i)
               /\ AllDone(w) = f[n]
  BY <1>1, Progression
<1>3. Done(w, Start(w), 0)
  <2> DEFINE start == Start(w).tables
  <2>1. /\ start \in Tables /\ start.commands = db.commands
        /\ start.processed = db.processed
        /\ Start(w).results = <<>> /\ Start(w).applied = FALSE
    BY StartTables DEF Writing
  <2> HIDE DEF start
  <2>2. OneCommandPerEvent(start) /\ Paid(start)
    BY <2>1 DEF Writing, OneCommandPerEvent, Paid
  <2>3. Follows(start, start) /\ Grows(start, start) /\ Same(start, start, {"processed"})
    BY DEF Follows, Grows, Same
  <2>4. Effect(start, start, Book(w))
    BY NoEffect DEF Same
  <2>5. Start(w).results \in Seq(EventResult) /\ CancelsAwait(start, Start(w).results)
    BY <2>1 DEF CancelsAwait
  <2>6. Start(w).applied \in BOOLEAN
    BY <2>1
  <2>7. \A i \in 1 .. 0 : Handled(start.processed, Key(w, i))
    OBVIOUS
  <2>8. ~Start(w).applied => Same(start, start, {"processed"})
    BY <2>3
  <2>9. \A p \in start.processed :
           p \in start.processed \/ (p.key.msg = job[w].msg /\ p.key.ver = job[w].ver)
    OBVIOUS
  <2>10. /\ start.processed \subseteq start.processed
         /\ Good(start) => Good(start) /\ Effect(start, start, Book(w)) /\ Grows(start, start)
    BY <2>3, <2>4
  <2> QED  BY <2>1, <2>2, <2>3, <2>5, <2>6, <2>7, <2>8, <2>9, <2>10 DEF Done, start
<1>4. \A k \in 0 .. n : Done(w, f[k], k)
  <2> DEFINE Wrong == {k \in 0 .. n : ~Done(w, f[k], k)}
  <2>1. SUFFICES ASSUME Wrong # {} PROVE FALSE
    OBVIOUS
  <2>2. PICK k \in Wrong : \A j \in Wrong : k <= j
    <3>1. Wrong \in SUBSET Nat
      BY <1>1
    <3> HIDE DEF Wrong
    <3> QED  BY <2>1, <3>1, HasMinimum
  <2>3. k \in 0 .. n /\ ~Done(w, f[k], k) /\ k # 0
    BY <1>2, <1>3, <2>2
  <2>4. k \in 1 .. n /\ k - 1 \in 0 .. n
    BY <1>1, <2>3
  <2>5. k - 1 \notin Wrong
    <3> HIDE DEF Wrong
    <3> QED  BY <2>2, <2>4
  <2>6. Done(w, f[k - 1], k - 1)
    BY <2>4, <2>5
  <2> QED  BY <1>2, <2>3, <2>4, <2>6, NextKeeps
<1> QED  BY <1>1, <1>2, <1>4

-----------------------------------------------------------------------------
(* Writing back. *)

\* Rows written back over the rows there are, and the ones inserted after them.
LEMMA UpsertedRows ==
  ASSUME NEW R, NEW base \in Seq(R), NEW now \in Seq(R), NEW out \in Seq(R),
         Len(base) <= Len(out), NEW mine, mine \subseteq DOMAIN base
  PROVE  /\ Upserted(base, now, out, mine) \in Seq(R)
         /\ (/\ Len(base) = Len(now)
             /\ \A k \in DOMAIN now : k \notin mine => out[k] = now[k])
            => Upserted(base, now, out, mine) = out
<1> DEFINE h == [k \in DOMAIN now |-> IF k \in mine THEN out[k] ELSE now[k]]
           t == SubSeq(out, Len(base) + 1, Len(out))
<1>1. PICK nb \in Nat : nb = Len(base) /\ DOMAIN base = 1 .. nb
  OBVIOUS
<1>2. PICK nn \in Nat : nn = Len(now) /\ DOMAIN now = 1 .. nn
  OBVIOUS
<1>3. PICK no \in Nat : no = Len(out) /\ DOMAIN out = 1 .. no
  OBVIOUS
<1>4. nb <= no
  BY <1>1, <1>3
<1>5. ASSUME NEW k \in DOMAIN now PROVE h[k] \in R
  <2>1. k \in mine => out[k] \in R
    BY <1>1, <1>3, <1>4
  <2>2. now[k] \in R
    OBVIOUS
  <2> QED  BY <2>1, <2>2
<1>6. h \in Seq(R) /\ Len(h) = nn
  <2>1. h \in [DOMAIN now -> R]
    BY <1>5
  <2>2. DOMAIN h = 1 .. nn
    BY <1>2
  <2> HIDE DEF h
  <2>3. h \in Seq(R)
    BY <2>1, MappedSeq
  <2> QED  BY <2>2, <2>3
<1>7. /\ t \in Seq(R) /\ Len(t) = no - nb
      /\ \A j \in 1 .. no - nb : t[j] = out[nb + j]
  <2>1. t = SubSeq(out, nb + 1, no)
    BY <1>1, <1>3
  <2>2. /\ nb + 1 \in Int /\ no \in Int /\ no - (nb + 1) + 1 = no - nb
        /\ (IF nb + 1 <= no THEN no - (nb + 1) + 1 ELSE 0) = no - nb
        /\ \A j \in Int : nb + 1 + j - 1 = nb + j
    BY <1>4
  <2>3. \A i \in nb + 1 .. no : out[i] \in R
    BY <1>3
  <2> HIDE DEF t
  <2>4. /\ t \in Seq(R)
        /\ Len(t) = IF nb + 1 <= no THEN no - (nb + 1) + 1 ELSE 0
        /\ \A j \in 1 .. no - (nb + 1) + 1 : t[j] = out[nb + 1 + j - 1]
    BY <2>1, <2>2, <2>3, SubSeqProperties
  <2>5. ASSUME NEW j \in 1 .. no - nb PROVE t[j] = out[nb + j]
    <3>1. j \in 1 .. no - (nb + 1) + 1 /\ nb + 1 + j - 1 = nb + j
      BY <2>2
    <3>2. t[j] = out[nb + 1 + j - 1]
      BY <2>4, <3>1
    <3> QED  BY <3>1, <3>2
  <2>6. Len(t) = no - nb
    BY <2>2, <2>4
  <2> QED  BY <2>4, <2>5, <2>6
<1>8. Upserted(base, now, out, mine) = h \o t
  BY DEF Upserted
<1>9. h \in Seq(R) /\ t \in Seq(R)
  BY <1>6, <1>7
<1>10. ASSUME Len(base) = Len(now), \A k \in DOMAIN now : k \notin mine => out[k] = now[k]
       PROVE  h \o t = out
  <2>1. \A k \in DOMAIN now : h[k] = out[k]
    BY <1>10
  <2>2. nb = nn
    BY <1>1, <1>2, <1>10
  <2> HIDE DEF h, t
  <2>3. /\ h \o t \in Seq(R) /\ Len(h \o t) = Len(h) + Len(t)
        /\ \A k \in 1 .. Len(h) + Len(t) :
               (h \o t)[k] = IF k <= Len(h) THEN h[k] ELSE t[k - Len(h)]
    BY <1>9, ConcatProperties
  <2>4. Len(h) + Len(t) = no
    BY <1>6, <1>7, <2>2
  <2>5. ASSUME NEW k \in 1 .. no PROVE (h \o t)[k] = out[k]
    <3>1. CASE k <= nn
      <4>1. k \in DOMAIN now
        BY <1>2, <3>1
      <4> QED  BY <1>6, <2>1, <2>3, <2>4, <3>1, <4>1
    <3>2. CASE ~(k <= nn)
      <4>1. (h \o t)[k] = t[k - nn]
        BY <1>6, <2>3, <2>4, <3>2
      <4>2. k - nn \in 1 .. no - nb /\ nb + (k - nn) = k
        BY <1>4, <2>2, <3>2
      <4> QED  BY <1>7, <4>1, <4>2
    <3> QED  BY <3>1, <3>2
  <2>6. h \o t \in Seq(R) /\ Len(h \o t) = no
    BY <2>3, <2>4
  <2>7. Len(h \o t) = Len(out) /\ \A k \in 1 .. Len(h \o t) : (h \o t)[k] = out[k]
    BY <1>3, <2>5, <2>6
  <2> QED  BY <2>6, <2>7, SeqEqual
<1> HIDE DEF h, t
<1> QED  BY <1>8, <1>9, <1>10

\* Rows written back where nothing else was written.
LEMMA UpsertedSame ==
  ASSUME NEW R, NEW base \in Seq(R), NEW out \in Seq(R), Len(base) <= Len(out),
         NEW mine, mine \subseteq DOMAIN base,
         \A k \in DOMAIN base : k \notin mine => out[k] = base[k]
  PROVE  Upserted(base, base, out, mine) = out
  BY UpsertedRows

\* Tables with the same columns are the same.
LEMMA SameTables ==
  ASSUME NEW d \in Tables, NEW n \in Tables, Same(n, d, {})
  PROVE  n = d
  BY DEF Tables, Same

\* The identifier an inserted order gets.
LEMMA MovedType ==
  ASSUME NEW base \in Tables, NEW now \in Tables, NEW o \in Nat
  PROVE  /\ Moved(o, base, now) \in Nat
         /\ Len(base.orders) = Len(now.orders) => Moved(o, base, now) = o
<1>1. Len(base.orders) \in Nat /\ Len(now.orders) \in Nat
  BY ColumnTypes
<1> QED  BY <1>1 DEF Moved

\* What is written back is well typed; every event keeps its row and its command.
\* It is what the worker has if nobody wrote since it read the rows.
LEMMA WrittenRows ==
  ASSUME NEW b \in Books, NEW base \in Tables, NEW now \in Tables, NEW out \in Tables,
         NEW start \in Tables, Same(start, base, {"commands", "processed"}),
         start.commands = now.commands, Follows(start, out),
         NEW n, n = Written(b, base, now, out)
  PROVE  /\ n \in Tables /\ n.processed = out.processed
         /\ DOMAIN n.commands = DOMAIN out.commands
         /\ \A c \in DOMAIN out.commands :
                n.commands[c].key = out.commands[c].key
         /\ \A c \in DOMAIN out.commands :
                n.commands[c].type = out.commands[c].type
         /\ start = now /\ Good(now) /\ Effect(now, out, b) /\ Grows(now, out) => n = out
<1> DEFINE orders == {o \in DOMAIN base.orders : base.orders[o].book = b}
           held == {p \in DOMAIN base.positions : base.positions[p].order \in orders}
           positions == [p \in DOMAIN out.positions |->
                           [out.positions[p] EXCEPT !.order = Moved(@, base, now)]]
           S == [s \in DOMAIN now.sessions |->
                   IF s[1] = b /\ out.sessions[s] # None
                   THEN out.sessions[s] ELSE now.sessions[s]]
           N == now.noTrading \cup out.noTrading
           O == Upserted(base.orders, now.orders, out.orders, orders)
           P == Upserted(base.positions, now.positions, positions, held)
           C == [c \in DOMAIN out.commands |->
                   IF c \in DOMAIN now.commands THEN out.commands[c]
                   ELSE [out.commands[c] EXCEPT !.order = Moved(@, base, now)]]
<1>1. n = [sessions |-> S, noTrading |-> N, orders |-> O, positions |-> P,
           commands |-> C, processed |-> out.processed]
  BY DEF Written
<1>2. /\ base.orders \in Seq(Order) /\ now.orders \in Seq(Order) /\ out.orders \in Seq(Order)
      /\ base.positions \in Seq(Position) /\ now.positions \in Seq(Position)
      /\ out.positions \in Seq(Position) /\ out.commands \in Seq(Command)
      /\ now.sessions \in SessionTable /\ out.sessions \in SessionTable
      /\ now.noTrading \in SUBSET Books /\ out.noTrading \in SUBSET Books
      /\ out.processed \in SUBSET Processed
  BY ColumnTypes
<1>3. start.orders = base.orders /\ start.positions = base.positions
  BY DEF Same
<1>4. Len(base.orders) <= Len(out.orders) /\ Len(base.positions) <= Len(out.positions)
  <2>1. DOMAIN base.orders \subseteq DOMAIN out.orders
        /\ DOMAIN base.positions \subseteq DOMAIN out.positions
    BY <1>3 DEF Follows
  <2>2. ASSUME NEW R, NEW s \in Seq(R), NEW t \in Seq(R), DOMAIN s \subseteq DOMAIN t
        PROVE  Len(s) <= Len(t)
    <3>1. Len(s) \in Nat /\ Len(t) \in Nat /\ DOMAIN s = 1 .. Len(s) /\ DOMAIN t = 1 .. Len(t)
      OBVIOUS
    <3>2. CASE Len(s) = 0
      BY <3>1, <3>2
    <3>3. CASE Len(s) # 0
      <4>1. Len(s) \in 1 .. Len(s)
        BY <3>1, <3>3
      <4>2. Len(s) \in 1 .. Len(t)
        BY <2>2, <3>1, <4>1
      <4> QED  BY <3>1, <4>2
    <3> QED  BY <3>2, <3>3
  <2> QED  BY <1>2, <2>1, <2>2
<1>5. positions \in Seq(Position) /\ Len(positions) = Len(out.positions)
      /\ (Len(base.orders) = Len(now.orders) => positions = out.positions)
  <2>1. \A p \in DOMAIN out.positions : out.positions[p] \in Position
    BY <1>2
  <2>2. \A x \in Position : x.order \in Nat
    BY DEF Position
  <2>3. ASSUME NEW p \in DOMAIN out.positions
        PROVE  /\ positions[p] \in Position
               /\ Len(base.orders) = Len(now.orders) => positions[p] = out.positions[p]
    <3>1. PICK x \in Position : x = out.positions[p]
      BY <2>1
    <3>2. PICK m \in Nat : /\ m = Moved(x.order, base, now)
                           /\ Len(base.orders) = Len(now.orders) => m = x.order
      BY <2>2, MovedType
    <3>3. positions[p] = [x EXCEPT !.order = m]
      BY <3>1, <3>2
    <3> HIDE DEF positions
    <3>4. [x EXCEPT !.order = m] \in Position /\ (m = x.order => [x EXCEPT !.order = m] = x)
      BY DEF Position
    <3> QED  BY <3>1, <3>2, <3>3, <3>4
  <2>4. positions \in [DOMAIN out.positions -> Position] /\ DOMAIN positions = DOMAIN out.positions
    BY <2>3
  <2> HIDE DEF positions
  <2>5. positions \in Seq(Position)
    BY <1>2, <2>4, MappedSeq
  <2>6. Len(positions) = Len(out.positions)
    BY <1>2, <2>4, <2>5
  <2> QED  BY <1>2, <2>3, <2>5, <2>6
<1>6. C \in Seq(Command) /\ DOMAIN C = DOMAIN out.commands
      /\ (\A c \in DOMAIN out.commands :
             C[c].key = out.commands[c].key /\ C[c].type = out.commands[c].type)
      /\ (Len(base.orders) = Len(now.orders) => C = out.commands)
  <2>1. \A c \in DOMAIN out.commands : out.commands[c] \in Command
    BY <1>2
  <2>2. \A x \in Command : x.order \in Nat
    BY DEF Command
  <2>3. ASSUME NEW c \in DOMAIN out.commands
        PROVE  /\ C[c] \in Command
               /\ C[c].key = out.commands[c].key /\ C[c].type = out.commands[c].type
               /\ Len(base.orders) = Len(now.orders) => C[c] = out.commands[c]
    <3>1. PICK x \in Command : x = out.commands[c]
      BY <2>1
    <3>2. PICK m \in Nat : /\ m = Moved(x.order, base, now)
                           /\ Len(base.orders) = Len(now.orders) => m = x.order
      BY <2>2, MovedType
    <3>3. C[c] = x \/ C[c] = [x EXCEPT !.order = m]
      BY <3>1, <3>2
    <3> HIDE DEF C
    <3>4. /\ [x EXCEPT !.order = m] \in Command
          /\ [x EXCEPT !.order = m].key = x.key /\ [x EXCEPT !.order = m].type = x.type
          /\ m = x.order => [x EXCEPT !.order = m] = x
      BY DEF Command
    <3> QED  BY <3>1, <3>2, <3>3, <3>4
  <2>4. C \in [DOMAIN out.commands -> Command] /\ DOMAIN C = DOMAIN out.commands
    BY <2>3
  <2> HIDE DEF C
  <2>5. C \in Seq(Command)
    BY <1>2, <2>4, MappedSeq
  <2>6. Len(base.orders) = Len(now.orders) => C = out.commands
    BY <1>2, <2>3, <2>4, <2>5
  <2> QED  BY <2>3, <2>4, <2>5, <2>6
<1>7. orders \subseteq DOMAIN base.orders /\ held \subseteq DOMAIN base.positions
  OBVIOUS
<1>8. S \in SessionTable /\ N \in SUBSET Books
  BY <1>2 DEF SessionTable
<1> HIDE DEF positions, C
<1>9. O \in Seq(Order) /\ P \in Seq(Position)
  BY <1>2, <1>4, <1>5, <1>7, UpsertedRows
<1>10. n \in Tables
  BY <1>1, <1>2, <1>6, <1>8, <1>9 DEF Tables, SessionTable
<1>11. ASSUME start = now, Good(now), Effect(now, out, b), Grows(now, out)
       PROVE  n = out
  <2>1. now.orders = base.orders /\ now.positions = base.positions
    BY <1>3, <1>11
  <2>2. Within(now, out, b)
    BY <1>11 DEF Effect
  <2>3. S = out.sessions
    <3>1. ASSUME NEW s \in Books \X Instruments PROVE S[s] = out.sessions[s]
      BY <1>2, <1>11, <2>2 DEF Within, Grows, SessionTable
    <3> QED  BY <1>2, <3>1 DEF SessionTable
  <2>4. N = out.noTrading
    BY <1>11 DEF Grows
  <2>5. O = out.orders
    <3>1. \A k \in DOMAIN now.orders : k \notin orders => out.orders[k] = now.orders[k]
      BY <2>1, <2>2 DEF Within
    <3> HIDE DEF orders
    <3>2. Upserted(base.orders, base.orders, out.orders, orders) = out.orders
      <4>1. /\ base.orders \in Seq(Order) /\ out.orders \in Seq(Order)
            /\ Len(base.orders) <= Len(out.orders) /\ orders \subseteq DOMAIN base.orders
        BY <1>2, <1>4, <1>7
      <4>2. \A k \in DOMAIN base.orders : k \notin orders => out.orders[k] = base.orders[k]
        BY <2>1, <3>1
      <4> QED  BY ONLY <4>1, <4>2, UpsertedSame
    <3> QED  BY <2>1, <3>2
  <2>6. P = out.positions
    <3>1. \A k \in DOMAIN now.positions : k \notin held => out.positions[k] = now.positions[k]
      <4>1. \A k \in DOMAIN now.positions : now.positions[k].order \in DOMAIN now.orders
        BY <1>11 DEF Good, PositionsAreFilledOrders
      <4> QED  BY <2>1, <2>2, <4>1 DEF Within
    <3>2. positions = out.positions
      BY <1>5, <2>1
    <3> HIDE DEF held
    <3>3. Upserted(base.positions, base.positions, out.positions, held) = out.positions
      <4>1. /\ base.positions \in Seq(Position) /\ out.positions \in Seq(Position)
            /\ Len(base.positions) <= Len(out.positions)
            /\ held \subseteq DOMAIN base.positions
        BY <1>2, <1>4, <1>7
      <4>2. \A k \in DOMAIN base.positions :
                k \notin held => out.positions[k] = base.positions[k]
        BY <2>1, <3>1
      <4> QED  BY ONLY <4>1, <4>2, UpsertedSame
    <3> QED  BY <2>1, <3>2, <3>3
  <2>7. C = out.commands
    BY <1>6, <2>1
  <2>8. Same(n, out, {})
    BY <1>1, <2>3, <2>4, <2>5, <2>6, <2>7 DEF Same
  <2> QED  BY <1>10, <2>8, SameTables
<1>12. n.processed = out.processed /\ n.commands = C
  BY <1>1
<1> QED  BY <1>6, <1>10, <1>11, <1>12

-----------------------------------------------------------------------------
(* The inductive invariant. *)

\* The version a worker applies is stored.
Stored(w) ==
    \E r \in raw :
        r.msg = job[w].msg /\ r.ver = job[w].ver /\ r.content = job[w].content

\* What a worker has read is still true when it acts on it, as far as it relies on
\* it: the versions below the one it inserts, the clash that was found, the row it
\* applies, and the events it saw handled.
JobInv(w) ==
    /\ job[w].pc # "idle" => job[w].msg \in Messages /\ job[w].content \in Contents
    /\ job[w].pc = "insert" =>
           /\ job[w].ver # 0
           /\ \A k \in 1 .. job[w].ver - 1 : \E r \in VersionsOf(job[w].msg) : r.ver = k
    /\ job[w].pc = "again" =>
           \E r \in VersionsOf(job[w].msg) :
               r.ver = job[w].ver \/ r.content = job[w].content
    /\ job[w].pc = "raised" =>
           \E r \in VersionsOf(job[w].msg) :
               r.ver = job[w].ver /\ r.content # job[w].content
    /\ job[w].pc \in {"load", "look", "write"} => Stored(w)
    /\ job[w].pc = "write" =>
           /\ job[w].seen \subseteq db.processed
           /\ \E i \in DOMAIN Events(w) : ~Handled(job[w].seen, Key(w, i))

\* The versions of a message are numbered without a gap and linked.
Numbered ==
    /\ \A m \in Messages : \E n \in Nat : {r.ver : r \in VersionsOf(m)} = 1 .. n
    /\ \A r \in raw : r.previous = r.ver - 1
    /\ \A r, s \in raw : r.msg = s.msg /\ (r.ver = s.ver \/ r.content = s.content) => r = s

RowKey(r, i) == [msg |-> r.msg, ver |-> r.ver, idx |-> i]

\* Events and commands match, marked events are of stored versions, and a version
\* has all its events marked or none.
Marked ==
    /\ OneCommandPerEvent(db) /\ Paid(db)
    /\ \A p \in db.processed : \E r \in raw : r.msg = p.key.msg /\ r.ver = p.key.ver
    /\ \A r \in raw :
           \/ \A i \in DOMAIN r.content.events : Handled(db.processed, RowKey(r, i))
           \/ \A i \in DOMAIN r.content.events : ~Handled(db.processed, RowKey(r, i))

IInv ==
    /\ TypeOK
    /\ Numbered
    /\ Marked
    /\ \A w \in Workers : JobInv(w)
    /\ ~stale => Good(db)

\* A worker that does nothing keeps what it relies on while others only add
\* versions and events.
LEMMA OthersKeep ==
  ASSUME NEW w \in Workers, JobInv(w), job'[w] = job[w],
         raw \subseteq raw', db.processed \subseteq db'.processed
  PROVE  JobInv(w)'
<1>1. ASSUME NEW m PROVE VersionsOf(m) \subseteq VersionsOf(m)'
  BY DEF VersionsOf
<1>2. Stored(w) => Stored(w)'
  BY DEF Stored
<1>3. \A i : /\ Events(w)' = Events(w) /\ Key(w, i)' = Key(w, i)
  BY DEF Events, Key
<1>4. job[w].pc = "insert" =>
         \A k \in 1 .. job[w].ver - 1 : \E r \in VersionsOf(job[w].msg)' : r.ver = k
  BY <1>1 DEF JobInv
<1>5. job[w].pc = "again" =>
         \E r \in VersionsOf(job[w].msg)' :
             r.ver = job[w].ver \/ r.content = job[w].content
  BY <1>1 DEF JobInv
<1>6. job[w].pc = "raised" =>
         \E r \in VersionsOf(job[w].msg)' :
             r.ver = job[w].ver /\ r.content # job[w].content
  BY <1>1 DEF JobInv
<1>7. job[w].pc = "write" =>
         /\ job[w].seen \subseteq db'.processed
         /\ \E i \in DOMAIN Events(w)' : ~Handled(job[w].seen, Key(w, i)')
  BY <1>3 DEF JobInv
<1> QED  BY <1>2, <1>4, <1>5, <1>6, <1>7 DEF JobInv, VersionsOf, Handled

\* A step of one worker that touches no table.
LEMMA JobStep ==
  ASSUME IInv, NEW w \in Workers, UNCHANGED <<raw, db, stale>>, crashes' \in Nat,
         NEW j \in Job, job' = [job EXCEPT ![w] = j], JobInv(w)'
  PROVE  IInv'
<1>1. job \in [Workers -> Job]
  BY DEF IInv, TypeOK
<1>2. TypeOK'
  BY <1>1 DEF IInv, TypeOK
<1>3. \A v \in Workers : JobInv(v)'
  <2> SUFFICES ASSUME NEW v \in Workers, v # w PROVE JobInv(v)'
    OBVIOUS
  <2>1. job'[v] = job[v]
    BY <1>1
  <2> QED  BY <2>1, OthersKeep DEF IInv
<1>4. Numbered' /\ Marked'
  BY DEF IInv, Numbered, Marked, VersionsOf, Handled
<1>5. ~stale' => Good(db')
  BY DEF IInv
<1> QED  BY <1>2, <1>3, <1>4, <1>5 DEF IInv

LEMMA InitInv == Init => IInv
<1> SUFFICES ASSUME Init PROVE IInv
  OBVIOUS
<1>1. TypeOK
  <2>1. Idle \in Job
    BY EmptyType DEF Idle, Job, Pc
  <2> QED  BY <2>1, EmptyType DEF Init, TypeOK
<1>2. Numbered
  <2>1. ASSUME NEW m PROVE {r.ver : r \in VersionsOf(m)} = 1 .. 0
    BY DEF Init, VersionsOf
  <2> QED  BY <2>1 DEF Numbered, Init
<1>3. Marked
  BY DEF Init, Marked, OneCommandPerEvent, Paid, EmptyTables
<1>4. ASSUME NEW w \in Workers PROVE JobInv(w)
  BY DEF Init, JobInv, Idle
<1>5. Good(db)
  BY EmptyGood DEF Init
<1> QED  BY <1>1, <1>2, <1>3, <1>4, <1>5 DEF IInv

\* The number of the last version is the number of versions.
LEMMA LatestVersion ==
  ASSUME IInv, NEW m \in Messages
  PROVE  Latest(m) \in Nat /\ {r.ver : r \in VersionsOf(m)} = 1 .. Latest(m)
<1> DEFINE V == {r.ver : r \in VersionsOf(m)}
<1>1. PICK n \in Nat : V = 1 .. n
  BY DEF IInv, Numbered
<1>2. CASE VersionsOf(m) = {}
  <2>1. V = 1 .. 0
    BY <1>2
  <2> QED  BY <1>2, <2>1 DEF Latest
<1>3. CASE VersionsOf(m) # {}
  <2>1. V # {}
    BY <1>3
  <2> HIDE DEF V
  <2>2. n \in V /\ \A k \in V : k \in Nat /\ n >= k
    BY <1>1, <2>1
  <2>3. Max(V) \in V /\ \A k \in V : Max(V) >= k
    BY <2>2 DEF Max
  <2>4. Max(V) = n
    <3>1. PICK x \in V : x = Max(V)
      BY <2>3
    <3>2. x \in Nat /\ n >= x /\ x >= n
      BY <2>2, <2>3, <3>1
    <3> QED  BY <3>1, <3>2
  <2>5. Latest(m) = Max(V)
    BY <1>3 DEF Latest, V
  <2> QED  BY <1>1, <2>4, <2>5 DEF V
<1> QED  BY <1>2, <1>3

LEMMA ReceiveInv ==
  ASSUME IInv, NEW w \in Workers, NEW m \in Messages, NEW c \in Contents,
         Receive(w, m, c)
  PROVE  IInv'
<1> DEFINE known == Existing(m, c)
           next == IF known = {} THEN Latest(m) + 1 ELSE The(known).ver
           pc == IF known = {} THEN "insert" ELSE "load"
           j == [Idle EXCEPT !.pc = pc, !.msg = m, !.content = c, !.ver = next]
<1>1. job' = [job EXCEPT ![w] = j] /\ UNCHANGED <<raw, db, stale, crashes>>
  BY DEF Receive
<1>2. Latest(m) \in Nat /\ {r.ver : r \in VersionsOf(m)} = 1 .. Latest(m)
  BY LatestVersion
<1>3. known # {} => The(known) \in known
  BY DEF The
<1>4. raw \subseteq RawRow
  BY DEF IInv, TypeOK
<1>5. \A r \in known : /\ r \in raw /\ r.msg = m /\ r.content = c /\ r.ver \in Nat
  BY <1>4 DEF Existing, VersionsOf, RawRow
<1>6. next \in Nat /\ pc \in Pc
  BY <1>2, <1>3, <1>5 DEF Pc
<1>7. /\ j.pc = pc /\ j.msg = m /\ j.content = c /\ j.ver = next
      /\ j.base = EmptyTables /\ j.seen = {} /\ j \in Job
  BY <1>6, EmptyType DEF Idle, Job
<1>8. pc = "insert" => next = Latest(m) + 1
  OBVIOUS
<1>9. pc = "load" => \E r \in raw : r.msg = m /\ r.ver = next /\ r.content = c
  BY <1>3, <1>5
<1>10. pc \in {"insert", "load"}
  OBVIOUS
<1> HIDE DEF known, next, pc, j
<1>11. job'[w] = j
  BY <1>1 DEF IInv, TypeOK
<1>12. pc = "insert" => /\ next # 0
                       /\ \A k \in 1 .. next - 1 : \E r \in VersionsOf(m)' : r.ver = k
  <2> SUFFICES ASSUME pc = "insert"
               PROVE  /\ next # 0
                      /\ \A k \in 1 .. next - 1 : \E r \in VersionsOf(m)' : r.ver = k
    OBVIOUS
  <2>1. VersionsOf(m)' = VersionsOf(m)
    BY <1>1 DEF VersionsOf
  <2>2. ASSUME NEW k \in 1 .. next - 1 PROVE \E r \in VersionsOf(m) : r.ver = k
    <3>1. k \in {r.ver : r \in VersionsOf(m)}
      BY <1>2, <1>8
    <3> QED  BY <3>1
  <2> QED  BY <1>2, <1>8, <2>1, <2>2
<1>13. JobInv(w)'
  BY <1>1, <1>7, <1>9, <1>10, <1>11, <1>12 DEF JobInv, Stored
<1>14. crashes' \in Nat
  BY <1>1 DEF IInv, TypeOK
<1> QED  BY <1>1, <1>7, <1>13, <1>14, JobStep

LEMMA FindAgainInv ==
  ASSUME IInv, NEW w \in Workers, FindAgain(w)
  PROVE  IInv'
<1> DEFINE found == FoundAgain(w)
           j == IF found = {} THEN [job[w] EXCEPT !.pc = "raised"]
                ELSE [job[w] EXCEPT !.pc = "load", !.ver = The(found).ver]
<1>1. /\ job[w].pc = "again" /\ UNCHANGED <<raw, db, stale, crashes>>
      /\ job \in [Workers -> Job] /\ raw \subseteq RawRow /\ crashes' \in Nat
  BY DEF FindAgain, IInv, TypeOK
<1>2. job' = [job EXCEPT ![w] = j]
  BY <1>1 DEF FindAgain, ToApply
<1>3. found # {} => The(found) \in found
  BY DEF The
<1>4. \A r \in found : /\ r \in raw /\ r.msg = job[w].msg
                        /\ r.content = job[w].content /\ r.ver \in Nat
  BY <1>1 DEF FoundAgain, Existing, VersionsOf, RawRow
<1>5. PICK o \in Job : o = job[w]
  BY <1>1
<1>6. /\ j \in Job /\ j.msg = o.msg /\ j.content = o.content
      /\ found = {} => j.pc = "raised" /\ j.ver = o.ver
      /\ found # {} => j.pc = "load" /\ j.ver = The(found).ver
  BY <1>3, <1>4, <1>5 DEF Job, Pc
<1> HIDE DEF j
<1>7. job'[w] = j
  BY <1>1, <1>2
<1>8. o.msg \in Messages /\ o.content \in Contents
      /\ \E r \in VersionsOf(o.msg) : r.ver = o.ver \/ r.content = o.content
  BY <1>1, <1>5 DEF IInv, JobInv
<1>9. CASE found = {}
  <2>1. \E r \in VersionsOf(o.msg)' : r.ver = o.ver /\ r.content # o.content
    <3>1. VersionsOf(o.msg)' = VersionsOf(o.msg)
      BY <1>1 DEF VersionsOf
    <3> QED  BY <1>5, <1>8, <1>9, <3>1 DEF FoundAgain, Existing
  <2>2. JobInv(w)'
    BY <1>6, <1>7, <1>8, <1>9, <2>1 DEF JobInv
  <2> QED  BY <1>1, <1>2, <1>6, <2>2, JobStep
<1>10. CASE found # {}
  <2>1. Stored(w)'
    BY <1>1, <1>3, <1>4, <1>5, <1>6, <1>7, <1>10 DEF Stored
  <2>2. JobInv(w)'
    BY <1>6, <1>7, <1>8, <1>10, <2>1 DEF JobInv
  <2> QED  BY <1>1, <1>2, <1>6, <2>2, JobStep
<1> QED  BY <1>9, <1>10

\* The rows of a book as they are read.
LEMMA SnapshotType ==
  ASSUME db \in Tables
  PROVE  Snapshot \in Tables /\ Same(Snapshot, db, {"commands", "processed"})
<1>1. <<>> \in Seq(Command) /\ {} \in SUBSET Processed
  OBVIOUS
<1>2. Snapshot \in Tables
  BY <1>1 DEF Snapshot, Tables
<1>3. Same(Snapshot, db, {"commands", "processed"})
  BY DEF Snapshot, Tables, Same
<1> QED  BY <1>2, <1>3

LEMMA LoadInv ==
  ASSUME IInv, NEW w \in Workers, Load(w)
  PROVE  IInv'
<1> DEFINE j == [job[w] EXCEPT !.pc = "look", !.base = Snapshot]
<1>1. /\ job[w].pc = "load" /\ UNCHANGED <<raw, db, stale, crashes>>
      /\ job \in [Workers -> Job] /\ crashes' \in Nat /\ Snapshot \in Tables
  BY SnapshotType DEF Load, IInv, TypeOK
<1>2. job' = [job EXCEPT ![w] = j]
  BY <1>1 DEF Load
<1>3. PICK o \in Job : o = job[w]
  BY <1>1
<1>4. /\ j \in Job /\ j.msg = o.msg /\ j.content = o.content /\ j.ver = o.ver
      /\ j.pc = "look"
  BY <1>1, <1>3 DEF Job, Pc
<1> HIDE DEF j
<1>5. job'[w] = j
  BY <1>1, <1>2
<1>6. JobInv(w)
  BY DEF IInv
<1>7. JobInv(w)'
  BY <1>1, <1>3, <1>4, <1>5, <1>6 DEF JobInv, Stored
<1> QED  BY <1>1, <1>2, <1>4, <1>7, JobStep

\* A worker that has nothing to do, or stops, has nothing to rely on.
LEMMA IdleInv ==
  ASSUME IInv, NEW w \in Workers, UNCHANGED <<raw, db, stale>>, crashes' \in Nat,
         job' = [job EXCEPT ![w] = Idle]
  PROVE  IInv'
<1>1. Idle \in Job /\ Idle.pc = "idle"
  BY EmptyType DEF Idle, Job, Pc
<1>2. job'[w] = Idle
  BY DEF IInv, TypeOK
<1>3. JobInv(w)'
  BY <1>1, <1>2 DEF JobInv
<1> QED  BY <1>1, <1>3, JobStep

LEMMA LookInv ==
  ASSUME IInv, NEW w \in Workers, Look(w)
  PROVE  IInv'
<1> DEFINE all == \A i \in DOMAIN Events(w) : Handled(db.processed, Key(w, i))
           seen == {p \in db.processed : p.key.msg = job[w].msg}
           j == [job[w] EXCEPT !.pc = "write", !.seen = seen]
<1>1. /\ job[w].pc = "look" /\ UNCHANGED <<raw, db, stale, crashes>>
      /\ job \in [Workers -> Job] /\ crashes' \in Nat /\ db \in Tables
  BY DEF Look, IInv, TypeOK
<1>2. CASE all
  <2>1. job' = [job EXCEPT ![w] = Idle]
    BY <1>2 DEF Look
  <2> QED  BY <1>1, <2>1, IdleInv
<1>3. CASE ~all
  <2>1. job' = [job EXCEPT ![w] = j]
    BY <1>1, <1>3 DEF Look
  <2>2. seen \subseteq Processed /\ seen \subseteq db.processed
    BY <1>1, ColumnTypes
  <2>3. PICK i \in DOMAIN Events(w) : ~Handled(db.processed, Key(w, i))
    BY <1>3
  <2>4. ~Handled(seen, Key(w, i))
    BY <2>2, <2>3 DEF Handled
  <2>5. PICK o \in Job : o = job[w]
    BY <1>1
  <2> HIDE DEF seen, all
  <2>6. /\ j \in Job /\ j.msg = o.msg /\ j.content = o.content /\ j.ver = o.ver
        /\ j.pc = "write" /\ j.seen = seen
    BY <2>2, <2>5 DEF Job, Pc
  <2> HIDE DEF j
  <2>7. job'[w] = j
    BY <1>1, <2>1
  <2>8. Events(w)' = Events(w) /\ Key(w, i)' = Key(w, i)
    BY <2>5, <2>6, <2>7 DEF Events, Key
  <2>9. /\ job'[w].seen \subseteq db'.processed
        /\ \E k \in DOMAIN Events(w)' : ~Handled(job'[w].seen, Key(w, k)')
    BY <1>1, <2>2, <2>4, <2>6, <2>7, <2>8
  <2>10. JobInv(w)
    BY DEF IInv
  <2>11. JobInv(w)'
    BY <1>1, <2>5, <2>6, <2>7, <2>9, <2>10 DEF JobInv, Stored, Handled
  <2> QED  BY <1>1, <2>1, <2>6, <2>11, JobStep
<1> QED  BY <1>2, <1>3

\* A version is inserted under the number of versions plus one, or not at all.
LEMMA InsertInv ==
  ASSUME IInv, NEW w \in Workers, Insert(w)
  PROVE  IInv'
<1> DEFINE row == [msg |-> job[w].msg, ver |-> job[w].ver,
                   previous |-> job[w].ver - 1, content |-> job[w].content]
<1>1. /\ job[w].pc = "insert" /\ UNCHANGED <<db, stale, crashes>>
      /\ job \in [Workers -> Job] /\ crashes' \in Nat /\ raw \subseteq RawRow
  BY DEF Insert, IInv, TypeOK
<1>2. PICK o \in Job : o = job[w]
  BY <1>1
<1>3. /\ o.msg \in Messages /\ o.content \in Contents /\ o.ver # 0 /\ o.ver \in Nat
      /\ \A k \in 1 .. o.ver - 1 : \E r \in VersionsOf(o.msg) : r.ver = k
  BY <1>1, <1>2 DEF IInv, JobInv, Job
<1>4. /\ row.msg = o.msg /\ row.ver = o.ver /\ row.content = o.content
      /\ row.previous = o.ver - 1 /\ row \in RawRow
  BY <1>2, <1>3 DEF RawRow
<1>5. CASE Clashes(row)
  <2> DEFINE j == [job[w] EXCEPT !.pc = "again"]
  <2>1. job' = [job EXCEPT ![w] = j] /\ UNCHANGED raw
    BY <1>1, <1>5 DEF Insert
  <2>2. /\ j \in Job /\ j.msg = o.msg /\ j.content = o.content /\ j.ver = o.ver
        /\ j.pc = "again"
    BY <1>2 DEF Job, Pc
  <2> HIDE DEF j, row
  <2>3. job'[w] = j
    BY <1>1, <2>1
  <2>4. \E r \in VersionsOf(o.msg) : r.ver = o.ver \/ r.content = o.content
    BY <1>4, <1>5 DEF Clashes
  <2>5. VersionsOf(o.msg)' = VersionsOf(o.msg)
    BY <2>1 DEF VersionsOf
  <2>6. JobInv(w)'
    BY <1>3, <2>2, <2>3, <2>4, <2>5 DEF JobInv
  <2> QED  BY <1>1, <2>1, <2>2, <2>6, JobStep
<1>6. CASE ~Clashes(row)
  <2> DEFINE j == [job[w] EXCEPT !.pc = "load", !.ver = row.ver]
  <2>1. job' = [job EXCEPT ![w] = j] /\ raw' = raw \cup {row}
    BY <1>1, <1>6 DEF Insert, ToApply
  <2>2. /\ j \in Job /\ j.msg = o.msg /\ j.content = o.content /\ j.ver = o.ver
        /\ j.pc = "load"
    BY <1>2, <1>4 DEF Job, Pc
  <2> HIDE DEF j, row
  <2>3. job'[w] = j /\ \A v \in Workers : v # w => job'[v] = job[v]
    BY <1>1, <2>1
  <2>4. \A r \in raw : r.msg = o.msg => r.ver # o.ver /\ r.content # o.content
    BY <1>4, <1>6 DEF Clashes, VersionsOf
  <2>5. TypeOK'
    BY <1>1, <1>4, <2>1, <2>2 DEF IInv, TypeOK
  <2>6. ASSUME NEW m \in Messages
        PROVE  \E n \in Nat : {r.ver : r \in VersionsOf(m)'} = 1 .. n
    <3>1. PICK n \in Nat : {r.ver : r \in VersionsOf(m)} = 1 .. n
      BY DEF IInv, Numbered
    <3>2. CASE m # o.msg
      <4>1. VersionsOf(m)' = VersionsOf(m)
        BY <1>4, <2>1, <3>2 DEF VersionsOf
      <4> QED  BY <3>1, <4>1
    <3>3. CASE m = o.msg
      <4>1. VersionsOf(m)' = VersionsOf(m) \cup {row}
        BY <1>4, <2>1, <3>3 DEF VersionsOf
      <4>2. {r.ver : r \in VersionsOf(m)'} = {r.ver : r \in VersionsOf(m)} \cup {o.ver}
        BY <1>4, <4>1
      <4>3. o.ver \notin 1 .. n
        <5>1. o.ver \notin {r.ver : r \in VersionsOf(m)}
          BY <2>4, <3>3 DEF VersionsOf
        <5> QED  BY <3>1, <5>1
      <4>4. \A k \in 1 .. o.ver - 1 : k \in 1 .. n
        <5>1. ASSUME NEW k \in 1 .. o.ver - 1 PROVE k \in {r.ver : r \in VersionsOf(m)}
          BY <1>3, <3>3
        <5> QED  BY <3>1, <5>1
      <4>5. o.ver = n + 1
        <5>1. o.ver > n
          BY <1>3, <4>3
        <5>2. o.ver # n + 1 => n + 1 \in 1 .. o.ver - 1
          BY <1>3, <5>1
        <5>3. n + 1 \notin 1 .. n
          OBVIOUS
        <5> QED  BY <4>4, <5>2, <5>3
      <4>6. (1 .. n) \cup {o.ver} = 1 .. n + 1
        BY <4>5
      <4>7. {r.ver : r \in VersionsOf(m)'} = 1 .. n + 1
        BY <3>1, <4>2, <4>6
      <4>8. n + 1 \in Nat
        OBVIOUS
      <4> QED  BY <4>7, <4>8
    <3> QED  BY <3>2, <3>3
  <2>7. \A r \in raw' : r.previous = r.ver - 1
    BY <1>4, <2>1 DEF IInv, Numbered
  <2>8. \A r, s \in raw' : r.msg = s.msg /\ (r.ver = s.ver \/ r.content = s.content) => r = s
    <3>1. \A r, s \in raw : r.msg = s.msg /\ (r.ver = s.ver \/ r.content = s.content) => r = s
      BY DEF IInv, Numbered
    <3> QED  BY <1>4, <2>1, <2>4, <3>1
  <2>9. Numbered'
    BY <2>6, <2>7, <2>8 DEF Numbered
  <2>10. Marked'
    <3>1. \A p \in db.processed : \E r \in raw : r.msg = p.key.msg /\ r.ver = p.key.ver
      BY DEF IInv, Marked
    <3>2. ASSUME NEW i PROVE ~Handled(db.processed, RowKey(row, i))
      <4>1. RowKey(row, i).msg = o.msg /\ RowKey(row, i).ver = o.ver
        BY <1>4 DEF RowKey
      <4> QED  BY <2>4, <3>1, <4>1 DEF Handled
    <3>3. \A r \in raw :
           \/ \A i \in DOMAIN r.content.events : Handled(db.processed, RowKey(r, i))
           \/ \A i \in DOMAIN r.content.events : ~Handled(db.processed, RowKey(r, i))
      BY DEF IInv, Marked
    <3>4. \A r \in raw' :
           \/ \A i \in DOMAIN r.content.events : Handled(db.processed, RowKey(r, i))
           \/ \A i \in DOMAIN r.content.events : ~Handled(db.processed, RowKey(r, i))
      BY <2>1, <3>2, <3>3
    <3>5. \A p \in db.processed : \E r \in raw' : r.msg = p.key.msg /\ r.ver = p.key.ver
      BY <2>1, <3>1
    <3>6. db' = db
      BY <1>1
    <3> QED  BY <3>4, <3>5, <3>6 DEF IInv, Marked, Handled
  <2>11. ASSUME NEW v \in Workers PROVE JobInv(v)'
    <3>1. CASE v = w
      <4>1. row \in raw'
        BY <2>1
      <4>2. Stored(w)'
        BY <1>4, <2>2, <2>3, <4>1 DEF Stored
      <4> QED  BY <1>3, <2>2, <2>3, <3>1, <4>2 DEF JobInv
    <3>2. CASE v # w
      <4>1. job'[v] = job[v] /\ raw \subseteq raw' /\ db.processed \subseteq db'.processed
        BY <1>1, <2>1, <2>3, <3>2
      <4> QED  BY <4>1, OthersKeep DEF IInv
    <3> QED  BY <3>1, <3>2
  <2>12. ~stale' => Good(db')
    BY <1>1 DEF IInv
  <2> QED  BY <2>5, <2>9, <2>10, <2>11, <2>12 DEF IInv
<1> QED  BY <1>5, <1>6

\* New tables that keep the rows of processed_events and add those of one stored
\* version, all or none of them.
LEMMA TablesStep ==
  ASSUME IInv, UNCHANGED raw, db' \in Tables, job' \in [Workers -> Job],
         stale' \in BOOLEAN, crashes' \in Nat,
         OneCommandPerEvent(db'), Paid(db'), db.processed \subseteq db'.processed,
         NEW s \in raw,
         \A p \in db'.processed :
             p \in db.processed \/ (p.key.msg = s.msg /\ p.key.ver = s.ver),
         \/ db'.processed = db.processed
         \/ \A i \in DOMAIN s.content.events : Handled(db'.processed, RowKey(s, i)),
         \A v \in Workers : job'[v] = job[v] \/ job'[v] = Idle,
         ~stale' => Good(db')
  PROVE  IInv'
<1>1. TypeOK'
  BY DEF IInv, TypeOK
<1>2. Numbered'
  BY DEF IInv, Numbered, VersionsOf
<1>3. Marked'
  <2>1. \A p \in db.processed : \E r \in raw : r.msg = p.key.msg /\ r.ver = p.key.ver
    BY DEF IInv, Marked
  <2>2. \A p \in db'.processed : \E r \in raw : r.msg = p.key.msg /\ r.ver = p.key.ver
    BY <2>1
  <2>3. ASSUME NEW r \in raw
        PROVE  \/ \A i \in DOMAIN r.content.events : Handled(db'.processed, RowKey(r, i))
               \/ \A i \in DOMAIN r.content.events : ~Handled(db'.processed, RowKey(r, i))
    <3>1. \/ \A i \in DOMAIN r.content.events : Handled(db.processed, RowKey(r, i))
          \/ \A i \in DOMAIN r.content.events : ~Handled(db.processed, RowKey(r, i))
      BY DEF IInv, Marked
    <3>2. CASE r = s
      BY <3>1, <3>2
    <3>3. CASE r # s
      <4>1. ~(r.msg = s.msg /\ r.ver = s.ver)
        BY <3>3 DEF IInv, Numbered
      <4>2. ASSUME NEW i
            PROVE  Handled(db'.processed, RowKey(r, i)) <=> Handled(db.processed, RowKey(r, i))
        <5>1. RowKey(r, i).msg = r.msg /\ RowKey(r, i).ver = r.ver
          BY DEF RowKey
        <5> QED  BY <4>1, <5>1 DEF Handled
      <4> QED  BY <3>1, <4>2
    <3> QED  BY <3>2, <3>3
  <2> QED  BY <2>2, <2>3 DEF Marked, Handled
<1>4. ASSUME NEW v \in Workers PROVE JobInv(v)'
  <2>1. CASE job'[v] = job[v]
    BY <2>1, OthersKeep DEF IInv
  <2>2. CASE job'[v] = Idle
    <3>1. job'[v].pc = "idle"
      BY <2>2 DEF Idle
    <3> QED  BY <3>1 DEF JobInv
  <2> QED  BY <2>1, <2>2
<1> QED  BY <1>1, <1>2, <1>3, <1>4 DEF IInv

LEMMA WriteInv ==
  ASSUME IInv, NEW w \in Workers, Write(w)
  PROVE  IInv'
<1> DEFINE done == AllDone(w)
           out == done.tables
           start == Start(w).tables
           writesBack == ~Refused(w, out) /\ done.applied
<1>1. /\ job[w].pc = "write" /\ job' = [job EXCEPT ![w] = Idle]
      /\ UNCHANGED <<raw, crashes>>
      /\ db' = IF Refused(w, out) THEN db
               ELSE IF writesBack THEN Written(Book(w), job[w].base, db, out)
               ELSE [db EXCEPT !.processed = out.processed]
      /\ stale' = (stale \/ (writesBack /\ job[w].base # Snapshot))
  BY DEF Write
<1>2. /\ job \in [Workers -> Job] /\ db \in Tables /\ stale \in BOOLEAN
      /\ crashes' \in Nat /\ raw \subseteq RawRow
  BY <1>1 DEF IInv, TypeOK
<1>3. Idle \in Job
  BY EmptyType DEF Idle, Job, Pc
<1>4. job' \in [Workers -> Job] /\ \A v \in Workers : job'[v] = job[v] \/ job'[v] = Idle
  BY <1>1, <1>2, <1>3
<1>5. stale' \in BOOLEAN
  BY <1>1, <1>2
<1>6. PICK s \in raw : s.msg = job[w].msg /\ s.ver = job[w].ver /\ s.content = job[w].content
  BY <1>1 DEF IInv, JobInv, Stored
<1>7. CASE Refused(w, out)
  <2>1. db' = db /\ stale' = stale /\ raw' = raw
    BY <1>1, <1>2, <1>7
  <2> QED  BY <1>1, <1>2, <2>1, IdleInv
<1>8. CASE ~Refused(w, out)
  <2>1. Writing(w)
    <3>1. /\ job[w].msg \in Messages /\ job[w].content \in Contents
          /\ job[w].seen \subseteq db.processed
          /\ \E i \in DOMAIN Events(w) : ~Handled(job[w].seen, Key(w, i))
      BY <1>1 DEF IInv, JobInv
    <3>2. job[w].ver \in Nat /\ job[w].base \in Tables
      BY <1>2 DEF Job
    <3>3. Book(w) \in Books /\ Events(w) \in Seq(Event)
      BY <3>1, PipelineAssumption DEF Book, Books, Events
    <3>4. ~Handled(db.processed, Key(w, First(w)))
      BY <1>8 DEF Refused
    <3> QED  BY <1>2, <3>1, <3>2, <3>3, <3>4 DEF Writing, IInv, Marked
  <2>2. Done(w, done, Len(Events(w)))
    BY <2>1, AllKeeps
  <2>3. /\ out \in Tables /\ done.applied \in BOOLEAN /\ Follows(start, out)
        /\ OneCommandPerEvent(out) /\ Paid(out) /\ start.processed \subseteq out.processed
        /\ \A p \in out.processed :
               p \in start.processed \/ (p.key.msg = job[w].msg /\ p.key.ver = job[w].ver)
        /\ \A i \in 1 .. Len(Events(w)) : Handled(out.processed, Key(w, i))
        /\ ~done.applied => Same(out, start, {"processed"})
        /\ Good(start) => Good(out) /\ Effect(start, out, Book(w)) /\ Grows(start, out)
    BY <2>2 DEF Done
  <2>4. /\ start \in Tables /\ Same(start, job[w].base, {"commands", "processed"})
        /\ start.commands = db.commands /\ start.processed = db.processed
        /\ job[w].base \in Tables /\ Book(w) \in Books
    BY <2>1, StartTables DEF Writing
  <2>5. \A i \in DOMAIN s.content.events : Handled(out.processed, RowKey(s, i))
    <3>1. s.content.events = Events(w) /\ DOMAIN Events(w) = 1 .. Len(Events(w))
      BY <1>6, <2>1 DEF Events, Writing
    <3>2. \A i : RowKey(s, i) = Key(w, i)
      BY <1>6 DEF RowKey, Key
    <3> QED  BY <2>3, <3>1, <3>2
  <2> HIDE DEF done, start
  <2>6. /\ db' \in Tables /\ db'.processed = out.processed
        /\ OneCommandPerEvent(db') /\ Paid(db') /\ (~stale' => Good(db'))
    <3>1. CASE done.applied
      <4> DEFINE base == job[w].base
      <4>1. db' = Written(Book(w), base, db, out) /\ stale' = (stale \/ base # Snapshot)
        BY <1>1, <1>8, <3>1
      <4> HIDE DEF base, out
      <4>2. PICK n : n = Written(Book(w), base, db, out)
        OBVIOUS
      <4>3. /\ n \in Tables /\ n.processed = out.processed
            /\ DOMAIN n.commands = DOMAIN out.commands
            /\ \A c \in DOMAIN out.commands : n.commands[c].key = out.commands[c].key
            /\ \A c \in DOMAIN out.commands : n.commands[c].type = out.commands[c].type
            /\ start = db /\ Good(db) /\ Effect(db, out, Book(w)) /\ Grows(db, out)
                  => n = out
        BY <1>2, <2>3, <2>4, <4>2, WrittenRows DEF base
      <4>4. OneCommandPerEvent(n) /\ Paid(n)
        BY <2>3, <4>3 DEF OneCommandPerEvent, Paid
      <4>5. ASSUME ~stale' PROVE Good(n)
        <5>1. ~stale /\ base = Snapshot
          BY <1>2, <4>1, <4>5
        <5>2. Good(db)
          BY <5>1 DEF IInv
        <5>3. start = db
          <6>1. Same(start, db, {})
            BY <1>2, <2>4, <5>1, SnapshotType DEF Same, base
          <6> QED  BY <1>2, <2>4, <6>1, SameTables
        <5> QED  BY <2>3, <4>3, <5>2, <5>3
      <4> QED  BY <4>1, <4>2, <4>3, <4>4, <4>5
    <3>2. CASE ~done.applied
      <4>1. db' = [db EXCEPT !.processed = out.processed] /\ stale' = stale
        BY <1>1, <1>2, <1>8, <3>2
      <4>2. out.processed \in SUBSET Processed /\ out.commands = db.commands
        BY <2>3, <2>4, <3>2, ColumnTypes DEF Same
      <4> HIDE DEF out
      <4>3. PICK n : n = [db EXCEPT !.processed = out.processed]
        OBVIOUS
      <4>4. n \in Tables /\ Same(n, db, {"processed"}) /\ n.processed = out.processed
        BY <1>2, <4>2, <4>3 DEF Tables, Same
      <4>5. OneCommandPerEvent(n) /\ Paid(n)
        BY <2>3, <4>2, <4>4 DEF Same, OneCommandPerEvent, Paid
      <4>6. Good(db) => Good(n)
        BY <4>4, RecordGood
      <4> QED  BY <4>1, <4>3, <4>4, <4>5, <4>6 DEF IInv
    <3> QED  BY <2>3, <3>1, <3>2
  <2>7. /\ db.processed \subseteq db'.processed
        /\ \A p \in db'.processed :
               p \in db.processed \/ (p.key.msg = s.msg /\ p.key.ver = s.ver)
        /\ \A i \in DOMAIN s.content.events : Handled(db'.processed, RowKey(s, i))
    BY <1>6, <2>3, <2>4, <2>5, <2>6
  <2>8. raw' = raw
    BY <1>1
  <2> QED  BY <1>2, <1>4, <1>5, <2>6, <2>7, <2>8, TablesStep
<1> QED  BY <1>7, <1>8

LEMMA ReportInv ==
  ASSUME IInv, NEW c \in DOMAIN db.commands, NEW s \in ReportStates, Report(c, s)
  PROVE  IInv'
<1>1. /\ db \in Tables /\ db' = UpdateOutboxCommandState(db, c, s)
      /\ UNCHANGED <<raw, job, stale, crashes>>
      /\ OneCommandPerEvent(db) /\ Paid(db)
  BY DEF Report, IInv, TypeOK, Marked
<1>2. s \in OutboxState \ {"BLOCKED"}
  BY PipelineAssumption
<1>3. PICK n : n = UpdateOutboxCommandState(db, c, s)
  OBVIOUS
<1>4. /\ n \in Tables /\ Same(n, db, {"orders", "commands"})
      /\ DOMAIN n.commands = DOMAIN db.commands
      /\ \A k \in DOMAIN db.commands : n.commands[k].key = db.commands[k].key
  BY <1>1, <1>2, <1>3, ReportRows
<1>5. OneCommandPerEvent(n)
  BY <1>1, <1>2, <1>3, ReportOnce
<1>6. n.processed = db.processed
  BY <1>4 DEF Same
<1>7. Paid(n)
  BY <1>1, <1>4, <1>6 DEF Paid
<1>8. ~stale => Good(n)
  <2>1. db.commands[c].state # "BLOCKED"
        /\ (LateReports \/ db.commands[c].state # "SUCCEEDED" \/ s = "SUCCEEDED")
    BY DEF Report
  <2> QED  BY <1>1, <1>2, <1>3, <2>1, ReportGood DEF IInv
<1>9. db' = n
  BY <1>1, <1>3
<1>10. PICK p \in db.processed : p.key = db.commands[c].key
  BY <1>1 DEF OneCommandPerEvent
<1>11. PICK r \in raw : r.msg = p.key.msg /\ r.ver = p.key.ver
  BY <1>10 DEF IInv, Marked
<1>12. job' \in [Workers -> Job] /\ stale' \in BOOLEAN /\ crashes' \in Nat
  BY <1>1 DEF IInv, TypeOK
<1> QED  BY <1>1, <1>4, <1>5, <1>6, <1>7, <1>8, <1>9, <1>11, <1>12, TablesStep

LEMMA NextInv == IInv /\ [Next]_vars => IInv'
<1> SUFFICES ASSUME IInv, [Next]_vars PROVE IInv'
  OBVIOUS
<1>1. ASSUME NEW w \in Workers, NEW m \in Messages, NEW c \in Contents, Receive(w, m, c)
      PROVE  IInv'
  BY <1>1, ReceiveInv
<1>2. ASSUME NEW w \in Workers, Insert(w) PROVE IInv'
  BY <1>2, InsertInv
<1>3. ASSUME NEW w \in Workers, FindAgain(w) PROVE IInv'
  BY <1>3, FindAgainInv
<1>4. ASSUME NEW w \in Workers, Load(w) PROVE IInv'
  BY <1>4, LoadInv
<1>5. ASSUME NEW w \in Workers, Look(w) PROVE IInv'
  BY <1>5, LookInv
<1>6. ASSUME NEW w \in Workers, Write(w) PROVE IInv'
  BY <1>6, WriteInv
<1>7. ASSUME NEW w \in Workers, GiveUp(w) PROVE IInv'
  <2>1. /\ UNCHANGED <<raw, db, stale>> /\ crashes' \in Nat
        /\ job' = [job EXCEPT ![w] = Idle]
    BY <1>7 DEF GiveUp, IInv, TypeOK
  <2> QED  BY <2>1, IdleInv
<1>8. ASSUME NEW w \in Workers, Crash(w) PROVE IInv'
  <2>1. /\ UNCHANGED <<raw, db, stale>> /\ crashes' \in Nat
        /\ job' = [job EXCEPT ![w] = Idle]
    BY <1>8 DEF Crash, IInv, TypeOK
  <2> QED  BY <2>1, IdleInv
<1>9. ASSUME NEW c \in DOMAIN db.commands, NEW s \in ReportStates, Report(c, s)
      PROVE  IInv'
  BY <1>9, ReportInv
<1>10. CASE UNCHANGED vars
  <2>1. raw' = raw /\ db' = db /\ job' = job /\ stale' = stale /\ crashes' = crashes
    BY <1>10 DEF vars
  <2>2. \A w \in Workers : JobInv(w)'
    BY <2>1, OthersKeep DEF IInv
  <2>3. TypeOK' /\ Numbered' /\ Marked'
    BY <2>1 DEF IInv, TypeOK, Numbered, Marked, VersionsOf, Handled
  <2>4. ~stale' => Good(db')
    BY <2>1 DEF IInv
  <2> QED  BY <2>2, <2>3, <2>4 DEF IInv
<1> QED
  BY <1>1, <1>2, <1>3, <1>4, <1>5, <1>6, <1>7, <1>8, <1>9, <1>10 DEF Next

\* IInv holds in every reachable state.
THEOREM Invariance == Spec => []IInv
  BY InitInv, NextInv, PTL DEF Spec

-----------------------------------------------------------------------------
(* The properties. *)

\* Rows stay well typed, also those that workers write over each other.
THEOREM TypesHold == Spec => []TypeOK
  BY Invariance, PTL DEF IInv

\* A set numbered from 1 to n has n elements.
LEMMA NumberedCardinality ==
  ASSUME NEW S, NEW n \in Nat, {r.ver : r \in S} = 1 .. n,
         \A r, s \in S : r.ver = s.ver => r = s
  PROVE  Cardinality(S) = n
<1> DEFINE f == [k \in 1 .. n |-> CHOOSE r \in S : r.ver = k]
<1>1. ASSUME NEW k \in 1 .. n PROVE f[k] \in S /\ f[k].ver = k
  <2>1. \E r \in S : r.ver = k
    BY <1>1
  <2> QED  BY <2>1
<1>2. f \in [1 .. n -> S]
  BY <1>1
<1>3. \A r \in S : r.ver \in 1 .. n
  OBVIOUS
<1> HIDE DEF f
<1>4. \A a, b \in 1 .. n : f[a] = f[b] => a = b
  BY <1>1
<1>5. \A r \in S : \E k \in 1 .. n : f[k] = r
  BY <1>1, <1>3
<1>6. f \in Bijection(1 .. n, S)
  BY <1>2, <1>4, <1>5 DEF Bijection, Injection, Surjection, IsInjective
<1>7. ExistsBijection(1 .. n, S)
  BY <1>6 DEF ExistsBijection
<1> QED  BY <1>7, FS_CountingElements

\* Whichever ingestions race and die, the versions of a message are numbered
\* without a gap and linked, no content is stored twice, and a worker that raises
\* has lost its number to another content.
THEOREM VersionsHold == Spec => []VersionsAreEdits
<1>1. IInv => VersionsAreEdits
  <2> SUFFICES ASSUME IInv PROVE VersionsAreEdits
    OBVIOUS
  <2>1. ASSUME NEW m \in Messages
        PROVE  {r.ver : r \in VersionsOf(m)} = 1 .. Cardinality(VersionsOf(m))
    <3>1. PICK n \in Nat : {r.ver : r \in VersionsOf(m)} = 1 .. n
      BY DEF IInv, Numbered
    <3>2. \A r, s \in VersionsOf(m) : r.ver = s.ver => r = s
      BY DEF IInv, Numbered, VersionsOf
    <3>3. Cardinality(VersionsOf(m)) = n
      BY <3>1, <3>2, NumberedCardinality
    <3> QED  BY <3>1, <3>3
  <2>2. ASSUME NEW m \in Messages
        PROVE  /\ \A r \in VersionsOf(m) : r.previous = r.ver - 1
               /\ \A r, s \in VersionsOf(m) : r.content = s.content => r = s
    BY DEF IInv, Numbered, VersionsOf
  <2>3. \A w \in Workers : job[w].pc = "raised" =>
           \E r \in VersionsOf(job[w].msg) :
               r.ver = job[w].ver /\ r.content # job[w].content
    BY DEF IInv, JobInv
  <2> QED  BY <2>1, <2>2, <2>3 DEF VersionsAreEdits
<1> QED  BY Invariance, <1>1, PTL

\* An applied placement or cancellation has exactly one command, nothing else has
\* any, and the events of a version are marked all or none.
THEOREM IntentsHold == Spec => []IntentsMatchMarkers
<1>1. IInv => IntentsMatchMarkers
  <2> SUFFICES ASSUME IInv PROVE IntentsMatchMarkers
    OBVIOUS
  <2>1. OneCommandPerEvent(db) /\ Paid(db)
    BY DEF IInv, Marked
  <2>2. ASSUME NEW p \in db.processed
        PROVE  Cardinality({c \in DOMAIN db.commands :
                         db.commands[c].key = p.key /\ db.commands[c].type = p.event.type})
                 = IF p.outcome = "APPLIED" /\ p.event.type \in CommandType THEN 1 ELSE 0
    <3> DEFINE C == {c \in DOMAIN db.commands :
                        db.commands[c].key = p.key /\ db.commands[c].type = p.event.type}
    <3>1. \A c \in DOMAIN db.commands : db.commands[c].key = p.key =>
             /\ p.outcome = "APPLIED" /\ db.commands[c].type = p.event.type
             /\ \A k \in DOMAIN db.commands : db.commands[k].key = p.key => k = c
      BY <2>1 DEF OneCommandPerEvent
    <3>2. CASE p.outcome = "APPLIED" /\ p.event.type \in CommandType
      <4>1. PICK c \in DOMAIN db.commands : db.commands[c].key = p.key
        BY <2>1, <3>2 DEF Paid
      <4>2. C = {c}
        BY <3>1, <4>1
      <4> QED  BY <3>2, <4>2, FS_Singleton
    <3>3. CASE ~(p.outcome = "APPLIED" /\ p.event.type \in CommandType)
      <4>1. \A c \in DOMAIN db.commands : db.commands[c].type \in CommandType
        <5>1. db.commands \in Seq(Command)
          BY ColumnTypes DEF IInv, TypeOK
        <5>2. \A c \in DOMAIN db.commands : db.commands[c] \in Command
          BY <5>1
        <5> QED  BY <5>2 DEF Command
      <4>2. C = {}
        BY <3>1, <3>3, <4>1
      <4> QED  BY <3>3, <4>2, FS_EmptySet
    <3> QED  BY <3>2, <3>3
  <2>3. \A c \in DOMAIN db.commands : Handled(db.processed, db.commands[c].key)
    BY <2>1 DEF OneCommandPerEvent, Handled
  <2>4. \A p, q \in db.processed : p.key = q.key => p = q
    BY <2>1 DEF OneCommandPerEvent
  <2>5. ASSUME NEW r \in raw,
               NEW M, M = {i \in DOMAIN r.content.events :
                             Handled(db.processed, [msg |-> r.msg, ver |-> r.ver, idx |-> i])}
        PROVE  M \in {{}, DOMAIN r.content.events}
    <3>1. M = {i \in DOMAIN r.content.events : Handled(db.processed, RowKey(r, i))}
      BY <2>5 DEF RowKey
    <3>2. \/ \A i \in DOMAIN r.content.events : Handled(db.processed, RowKey(r, i))
          \/ \A i \in DOMAIN r.content.events : ~Handled(db.processed, RowKey(r, i))
      BY DEF IInv, Marked
    <3>3. M = {} \/ M = DOMAIN r.content.events
      BY <3>1, <3>2
    <3> QED  BY <3>3
  <2> QED  BY <2>2, <2>3, <2>4, <2>5 DEF IntentsMatchMarkers
<1> QED  BY Invariance, <1>1, PTL

\* As long as nobody writes back rows that changed since it read them, orders,
\* outbox, positions and sessions agree.
THEOREM ConsistencyHolds == Spec => []ConsistentUnlessStale
<1>1. IInv => ConsistentUnlessStale
  BY DEF IInv, Good, ConsistentUnlessStale
<1> QED  BY Invariance, <1>1, PTL

=============================================================================
