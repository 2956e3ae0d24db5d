------------------------- MODULE TradingSafetyProofs -------------------------
(***************************************************************************)
(* Proofs about the trading tables.  First, which rows each event handler  *)
(* writes, and that the tables stay well typed; what follows cites these   *)
(* facts and leaves the handlers folded.                                   *)
(*                                                                         *)
(* Then TradingSafety: a content of the tables is Good when orders,        *)
(* outbox, positions and sessions agree; every handler and every report    *)
(* leads from Good tables to Good tables, a handler is Sound for its event *)
(* and has no Effect outside the book of its message.                      *)
(***************************************************************************)
EXTENDS TradingSafety, SequenceTheorems, WellFoundedInduction, TLAPS

-----------------------------------------------------------------------------
(* Which rows the handlers write. *)

SessionTable == [Books \X Instruments -> SessionState \cup {None}]

\* The only element of a singleton is in it.
LEMMA TheIn == ASSUME NEW S, Unique(S) PROVE The(S) \in S
  BY DEF Unique, The

\* A placement goes to a session of a configured instrument, or to none.
LEMMA ResolvedType ==
  ASSUME NEW d, NEW b, NEW i \in Instruments \cup {None}
  PROVE  ResolvedInstrument(d, b, i) \in Instruments \cup {None}
<1> DEFINE C == SessionsIn(d, b, OpenSession \cup {"ENDED"})
<1>1. Unique(C) => The(C) \in Instruments
  <2>1. C \subseteq Instruments
    BY DEF SessionsIn
  <2> QED  BY <2>1, TheIn
<1> QED  BY <1>1 DEF ResolvedInstrument

\* The tables a new database starts with are well typed.
LEMMA EmptyType == EmptyTables \in Tables
  BY DEF EmptyTables, Tables, Books

\* A sequence mapped element by element is a sequence.
LEMMA MappedSeq ==
  ASSUME NEW S, NEW T, NEW s \in Seq(S), NEW f \in [DOMAIN s -> T]
  PROVE  f \in Seq(T)
<1>1. Len(s) \in Nat /\ DOMAIN s = 1 .. Len(s)
  BY LenProperties
<1>2. f = [i \in 1 .. Len(s) |-> f[i]] /\ \A i \in 1 .. Len(s) : f[i] \in T
  BY <1>1
<1> QED  BY <1>1, <1>2

\* Each table of well typed tables has rows of its own type.
LEMMA ColumnTypes ==
  ASSUME NEW d \in Tables
  PROVE  /\ d.sessions \in SessionTable /\ d.noTrading \in SUBSET Books
         /\ d.orders \in Seq(Order) /\ d.positions \in Seq(Position)
         /\ d.commands \in Seq(Command) /\ d.processed \in SUBSET Processed
  BY DEF Tables, SessionTable

\* Tables n keep every column of d that is not in c.
Same(n, d, c) ==
    /\ "sessions" \in c \/ n.sessions = d.sessions
    /\ "noTrading" \in c \/ n.noTrading = d.noTrading
    /\ "orders" \in c \/ n.orders = d.orders
    /\ "positions" \in c \/ n.positions = d.positions
    /\ "commands" \in c \/ n.commands = d.commands
    /\ "processed" \in c \/ n.processed = d.processed

(***************************************************************************)
(* The rows written by each kind of change                                 *)
(***************************************************************************)

\* A placement adds one order and one command, may open a session, and
\* touches no other table.
LEMMA PlacementRows ==
  ASSUME NEW d \in Tables, NEW S \in SessionTable, NEW o \in Order,
         NEW c \in Command, NEW n, n = WithPlacement(d, S, o, c)
  PROVE  /\ n \in Tables /\ Same(n, d, {"sessions", "orders", "commands"})
         /\ n.sessions = S
         /\ n.orders = Append(d.orders, o)
         /\ n.commands = Append(d.commands, c)
<1> DEFINE O == Append(d.orders, o)
           C == Append(d.commands, c)
<1>1. O \in Seq(Order) /\ C \in Seq(Command)
  BY DEF Tables
<1>2. n = [d EXCEPT !.sessions = S, !.orders = O, !.commands = C]
  BY DEF WithPlacement
<1> HIDE DEF O, C
<1>3. n \in Tables
  BY <1>1, <1>2 DEF Tables, SessionTable
<1>4. /\ Same(n, d, {"sessions", "orders", "commands"})
      /\ n.sessions = S /\ n.orders = O /\ n.commands = C
  BY <1>2 DEF Same, Tables
<1> QED  BY <1>3, <1>4 DEF O, C

\* Opening a session of a book keeps the sessions table well typed.
LEMMA OpenForType ==
  ASSUME NEW d \in Tables, NEW b \in Books, NEW i \in Instruments
  PROVE  OpenFor(d, b, i) \in SessionTable
  BY DEF OpenFor, Tables, SessionTable, SessionState

\* Changing the state of one order changes no other order and no other column.
LEMMA OrderStateRows ==
  ASSUME NEW d \in Tables, NEW o \in DOMAIN d.orders, NEW s \in OrderState
  PROVE  /\ WithOrderState(d, o, s) \in Seq(Order)
         /\ DOMAIN WithOrderState(d, o, s) = DOMAIN d.orders
         /\ \A k \in DOMAIN d.orders :
               /\ WithOrderState(d, o, s)[k].book = d.orders[k].book
               /\ WithOrderState(d, o, s)[k].instrument = d.orders[k].instrument
               /\ WithOrderState(d, o, s)[k].side = d.orders[k].side
               /\ WithOrderState(d, o, s)[k].terms = d.orders[k].terms
               /\ WithOrderState(d, o, s)[k].state =
                      IF k = o THEN s ELSE d.orders[k].state
<1>1. d.orders \in Seq(Order)
  BY DEF Tables
<1>2. d.orders[o] \in Order
  BY <1>1
<1>3. [d.orders[o] EXCEPT !.state = s] \in Order
  BY <1>2 DEF Order
<1>4. WithOrderState(d, o, s) \in Seq(Order)
  BY <1>1, <1>3 DEF WithOrderState
<1>5. \A k \in DOMAIN d.orders : d.orders[k] \in Order
  BY <1>1
<1> QED  BY <1>1, <1>3, <1>4, <1>5 DEF WithOrderState, Order

\* A cancellation moves its order to CANCEL_REQUESTED and adds one command.
LEMMA CancellationRows ==
  ASSUME NEW d \in Tables, NEW o \in DOMAIN d.orders, NEW c \in Command,
         NEW n, n = WithCancellation(d, o, c)
  PROVE  /\ n \in Tables /\ Same(n, d, {"orders", "commands"})
         /\ n.orders = WithOrderState(d, o, "CANCEL_REQUESTED")
         /\ n.commands = Append(d.commands, c)
<1> DEFINE O == WithOrderState(d, o, "CANCEL_REQUESTED")
           C == Append(d.commands, c)
<1>1. O \in Seq(Order)
  BY OrderStateRows DEF OrderState
<1>2. C \in Seq(Command)
  BY DEF Tables
<1>3. n = [d EXCEPT !.orders = O, !.commands = C]
  BY DEF WithCancellation
<1> HIDE DEF O, C
<1>4. n \in Tables
  BY <1>1, <1>2, <1>3 DEF Tables, SessionTable
<1>5. Same(n, d, {"orders", "commands"}) /\ n.orders = O /\ n.commands = C
  BY <1>3 DEF Same, Tables
<1> QED  BY <1>4, <1>5 DEF O, C

\* A trigger moves its order to FILLED and adds a position unless the order has
\* one already.
LEMMA FillRows ==
  ASSUME NEW d \in Tables, NEW o \in DOMAIN d.orders,
         NEW n, n = WithFill(d, o)
  PROVE  /\ n \in Tables /\ Same(n, d, {"orders", "positions"})
         /\ n.orders = WithOrderState(d, o, "FILLED")
         /\ n.positions = IF \E p \in DOMAIN d.positions : d.positions[p].order = o
                          THEN d.positions
                          ELSE Append(d.positions, [order |-> o, state |-> "ACTIVE"])
<1> DEFINE O == WithOrderState(d, o, "FILLED")
           P == IF \E p \in DOMAIN d.positions : d.positions[p].order = o
                THEN d.positions
                ELSE Append(d.positions, [order |-> o, state |-> "ACTIVE"])
<1>1. O \in Seq(Order)
  BY OrderStateRows DEF OrderState
<1>2. [order |-> o, state |-> "ACTIVE"] \in Position
  BY DEF Position, PositionState, Tables
<1>3. P \in Seq(Position)
  BY <1>2 DEF Tables
<1>4. n = [d EXCEPT !.orders = O, !.positions = P]
  BY DEF WithFill
<1> HIDE DEF O, P
<1>5. n \in Tables
  BY <1>1, <1>3, <1>4 DEF Tables, SessionTable
<1>6. Same(n, d, {"orders", "positions"}) /\ n.orders = O /\ n.positions = P
  BY <1>4 DEF Same, Tables
<1> QED  BY <1>5, <1>6 DEF O, P

\* A trade result changes the state of one position and keeps its order.
LEMMA PositionStateRows ==
  ASSUME NEW d \in Tables, NEW p \in DOMAIN d.positions, NEW s \in PositionState,
         NEW n, n = WithPositionState(d, p, s)
  PROVE  /\ n \in Tables /\ Same(n, d, {"positions"})
         /\ DOMAIN n.positions = DOMAIN d.positions
         /\ \A q \in DOMAIN d.positions :
               n.positions[q].order = d.positions[q].order
<1> DEFINE P == ClosedPosition(d, p, s)
<1>1. d.positions \in Seq(Position)
  BY DEF Tables
<1>2. \A q \in DOMAIN d.positions : d.positions[q] \in Position
  BY <1>1
<1>3. [d.positions[p] EXCEPT !.state = s] \in Position
  BY <1>2 DEF Position
<1>4. P \in Seq(Position) /\ DOMAIN P = DOMAIN d.positions
  BY <1>1, <1>3 DEF ClosedPosition
<1>5. \A q \in DOMAIN d.positions : P[q].order = d.positions[q].order
  BY <1>2 DEF Position, ClosedPosition
<1>6. n = [d EXCEPT !.positions = P]
  BY DEF WithPositionState
<1> HIDE DEF P
<1>7. n \in Tables
  BY <1>4, <1>6 DEF Tables, SessionTable
<1>8. Same(n, d, {"positions"}) /\ n.positions = P
  BY <1>6 DEF Same, Tables
<1> QED  BY <1>4, <1>5, <1>7, <1>8

\* Ending a session changes that session only.
LEMMA SessionStateRows ==
  ASSUME NEW d \in Tables, NEW s \in Books \X Instruments, NEW x \in SessionState,
         NEW n, n = WithSessionState(d, s, x)
  PROVE  /\ n \in Tables /\ Same(n, d, {"sessions"})
         /\ n.sessions = [d.sessions EXCEPT ![s] = x]
<1> DEFINE S == [d.sessions EXCEPT ![s] = x]
<1>1. S \in SessionTable
  BY DEF SessionTable, Tables
<1>2. n = [d EXCEPT !.sessions = S]
  BY DEF WithSessionState
<1> HIDE DEF S
<1>3. n \in Tables
  BY <1>1, <1>2 DEF Tables, SessionTable
<1>4. Same(n, d, {"sessions"}) /\ n.sessions = S
  BY <1>2 DEF Same, Tables
<1> QED  BY <1>3, <1>4 DEF S

\* A no-trading day closes the open sessions of its book and records the day.
LEMMA NoTradingRows ==
  ASSUME NEW d \in Tables, NEW b \in Books, NEW n, n = WithNoTrading(d, b)
  PROVE  /\ n \in Tables /\ Same(n, d, {"sessions", "noTrading"})
         /\ n.sessions = ClosedForTheDay(d, b)
         /\ n.noTrading = d.noTrading \cup {b}
<1> DEFINE S == ClosedForTheDay(d, b)
           N == d.noTrading \cup {b}
<1>1. S \in SessionTable
  BY DEF ClosedForTheDay, SessionTable, SessionState, Tables
<1>2. N \in SUBSET Books
  BY DEF Tables
<1>3. n = [d EXCEPT !.noTrading = N, !.sessions = S]
  BY DEF WithNoTrading
<1> HIDE DEF S, N
<1>4. n \in Tables
  BY <1>1, <1>2, <1>3 DEF Tables, SessionTable
<1>5. Same(n, d, {"sessions", "noTrading"}) /\ n.sessions = S /\ n.noTrading = N
  BY <1>3 DEF Same, Tables
<1> QED  BY <1>4, <1>5 DEF S, N

\* Recording an event adds one row of processed_events.
LEMMA RecordRows ==
  ASSUME NEW d \in Tables, NEW key \in EventKey, NEW e \in Event,
         NEW outcome \in Outcome, NEW n, n = Record(d, key, e, outcome)
  PROVE  /\ n \in Tables /\ Same(n, d, {"processed"})
         /\ n.processed = d.processed \cup
                {[key |-> key, event |-> e, outcome |-> outcome]}
<1> DEFINE R == d.processed \cup
                    {[key |-> key, event |-> e, outcome |-> outcome]}
<1>1. R \in SUBSET Processed
  <2>1. [key |-> key, event |-> e, outcome |-> outcome] \in Processed
    BY DEF Processed
  <2> QED  BY <2>1 DEF Tables
<1>2. n = [d EXCEPT !.processed = R]
  BY DEF Record
<1> HIDE DEF R
<1>3. n \in Tables
  BY <1>1, <1>2 DEF Tables, SessionTable
<1>4. Same(n, d, {"processed"}) /\ n.processed = R
  BY <1>2 DEF Same, Tables
<1> QED  BY <1>3, <1>4 DEF R

\* A broker report changes the state of its command, of the order that command
\* cancels and of the commands it releases, and nothing else.
LEMMA ReportRows ==
  ASSUME NEW d \in Tables, NEW c \in DOMAIN d.commands,
         NEW s \in OutboxState,
         NEW n, n = UpdateOutboxCommandState(d, c, s)
  PROVE  /\ n \in Tables /\ Same(n, d, {"orders", "commands"})
         /\ DOMAIN n.orders = DOMAIN d.orders
         /\ \A o \in DOMAIN d.orders :
               /\ n.orders[o].book = d.orders[o].book
               /\ n.orders[o].instrument = d.orders[o].instrument
               /\ n.orders[o].state = ReportedOrder(d, c, s, o)
         /\ DOMAIN n.commands = DOMAIN d.commands
         /\ \A k \in DOMAIN d.commands :
               /\ n.commands[k].key = d.commands[k].key
               /\ n.commands[k].type = d.commands[k].type
               /\ n.commands[k].order = d.commands[k].order
               /\ n.commands[k].depends = d.commands[k].depends
               /\ n.commands[k].state =
                      IF k = c THEN s
                      ELSE IF Releases(d, c, s, k) THEN "PENDING"
                      ELSE d.commands[k].state
<1> DEFINE O == [o \in DOMAIN d.orders |->
                   [d.orders[o] EXCEPT !.state = ReportedOrder(d, c, s, o)]]
           C == [k \in DOMAIN d.commands |->
                   [d.commands[k] EXCEPT !.state =
                      IF k = c THEN s ELSE IF Releases(d, c, s, k) THEN "PENDING"
                      ELSE d.commands[k].state]]
<1>1. d.orders \in Seq(Order) /\ d.commands \in Seq(Command)
  BY DEF Tables
<1>2. /\ \A o \in DOMAIN d.orders : d.orders[o] \in Order
      /\ \A k \in DOMAIN d.commands : d.commands[k] \in Command
  BY <1>1
<1>3. \A o \in DOMAIN d.orders : ReportedOrder(d, c, s, o) \in OrderState
  BY <1>2 DEF ReportedOrder, OrderStateOfCancel, OrderState, Order
<1>4. O \in Seq(Order) /\ DOMAIN O = DOMAIN d.orders
  <2>1. \A o \in DOMAIN d.orders : O[o] \in Order
    BY <1>2, <1>3 DEF Order
  <2>2. O \in [DOMAIN d.orders -> Order]
    BY <2>1
  <2> HIDE DEF O
  <2> QED  BY <1>1, <2>2, MappedSeq
<1>5. C \in Seq(Command) /\ DOMAIN C = DOMAIN d.commands
  <2>1. \A k \in DOMAIN d.commands : C[k] \in Command
    BY <1>2 DEF Command, OutboxState
  <2>2. C \in [DOMAIN d.commands -> Command]
    BY <2>1
  <2> HIDE DEF C
  <2> QED  BY <1>1, <2>2, MappedSeq
<1>6. n = [d EXCEPT !.orders = O, !.commands = C]
  BY DEF UpdateOutboxCommandState
<1>7. \A o \in DOMAIN d.orders :
         /\ O[o].book = d.orders[o].book
         /\ O[o].instrument = d.orders[o].instrument
         /\ O[o].state = ReportedOrder(d, c, s, o)
  BY <1>2 DEF Order
<1>8. \A k \in DOMAIN d.commands :
         /\ C[k].key = d.commands[k].key
         /\ C[k].type = d.commands[k].type
         /\ C[k].order = d.commands[k].order
         /\ C[k].depends = d.commands[k].depends
         /\ C[k].state = IF k = c THEN s
                         ELSE IF Releases(d, c, s, k) THEN "PENDING"
                         ELSE d.commands[k].state
  BY <1>2 DEF Command
<1> HIDE DEF O, C
<1>9. n \in Tables
  BY <1>4, <1>5, <1>6 DEF Tables, SessionTable
<1>10. Same(n, d, {"orders", "commands"}) /\ n.orders = O /\ n.commands = C
  BY <1>6 DEF Same, Tables
<1> QED  BY <1>4, <1>5, <1>7, <1>8, <1>9, <1>10

-----------------------------------------------------------------------------
(* Tables that agree. *)

Good(d) ==
    /\ CancelInSync(d)
    /\ PositionsAreFilledOrders(d)
    /\ ReplacementWaits(d)
    /\ SessionsRespected(d)

\* The tables a new database starts with are Good.
LEMMA EmptyGood == Good(EmptyTables)
  BY NoneAssumption DEF Good, CancelInSync, PositionsAreFilledOrders,
     ReplacementWaits, SessionsRespected, EmptyTables, OpenSession

\* Rows of processed_events are not looked at by Good.
LEMMA RecordGood ==
  ASSUME NEW d, Good(d), NEW n, Same(n, d, {"processed"})
  PROVE  Good(n)
  BY DEF Good, Same, CancelInSync, PositionsAreFilledOrders,
     ReplacementWaits, SessionsRespected

\* A cancel command never stands for a pending or filled order.
LEMMA CancelStates ==
  \A s : OrderStateOfCancel(s) \notin {"PENDING", "FILLED"}
  BY DEF OrderStateOfCancel

\* A placement on a day that takes orders keeps the tables Good, if it waits for
\* no command or for a cancellation that is still pending.
LEMMA PlacementGood ==
  ASSUME NEW d \in Tables, Good(d), NEW b \in Books, NEW i \in Instruments,
         NEW o \in Order, o.book = b, o.instrument = i, o.state = "PENDING",
         NEW c \in Command, c.type = "PLACE_PENDING_ORDER",
         c.order = Len(d.orders) + 1, c.state = InitialPlaceState(c.depends),
         \/ c.depends = 0
         \/ /\ c.depends \in DOMAIN d.commands
            /\ IsCancel(d.commands[c.depends])
            /\ d.commands[c.depends].state = "PENDING",
         b \notin d.noTrading,
         NEW n, n = WithPlacement(d, OpenFor(d, b, i), o, c)
  PROVE  Good(n)
<1> DEFINE lo == Len(d.orders)
           lc == Len(d.commands)
<1>1. /\ lo \in Nat /\ DOMAIN d.orders = 1 .. lo
      /\ lc \in Nat /\ DOMAIN d.commands = 1 .. lc
  BY ColumnTypes
<1>2. /\ Same(n, d, {"sessions", "orders", "commands"})
      /\ n.sessions = OpenFor(d, b, i)
      /\ n.orders = Append(d.orders, o)
      /\ n.commands = Append(d.commands, c)
  BY PlacementRows, OpenForType
<1>3. /\ DOMAIN n.orders = 1 .. (lo + 1)
      /\ \A k \in 1 .. lo : n.orders[k] = d.orders[k]
      /\ n.orders[lo + 1] = o
  BY <1>1, <1>2, ColumnTypes
<1>4. /\ DOMAIN n.commands = 1 .. (lc + 1)
      /\ \A k \in 1 .. lc : n.commands[k] = d.commands[k]
      /\ n.commands[lc + 1] = c
  BY <1>1, <1>2, ColumnTypes
<1>5. n.positions = d.positions /\ n.noTrading = d.noTrading
  BY <1>2 DEF Same
<1> HIDE DEF lo, lc
<1>6. CancelInSync(n)
  <2>1. ~IsCancel(c)
    BY DEF IsCancel
  <2>2. ASSUME NEW k \in DOMAIN n.commands, IsCancel(n.commands[k])
        PROVE  k \in 1 .. lc /\ n.commands[k] = d.commands[k]
    BY <1>1, <1>4, <2>1, <2>2
  <2>3. ASSUME NEW k \in DOMAIN n.commands, IsCancel(n.commands[k])
        PROVE  /\ n.commands[k].order \in DOMAIN n.orders
               /\ n.orders[n.commands[k].order].state
                    = OrderStateOfCancel(n.commands[k].state)
    <3>1. k \in 1 .. lc /\ n.commands[k] = d.commands[k]
      BY <2>2, <2>3
    <3>2. /\ d.commands[k].order \in DOMAIN d.orders
          /\ d.orders[d.commands[k].order].state
               = OrderStateOfCancel(d.commands[k].state)
      BY <1>1, <2>3, <3>1 DEF Good, CancelInSync
    <3>3. d.commands[k].order \in 1 .. lo
      BY <1>1, <3>2
    <3>4. d.commands[k].order \in 1 .. (lo + 1)
      BY <1>1, <3>3
    <3> QED  BY <1>3, <3>1, <3>2, <3>3, <3>4
  <2>4. ASSUME NEW k \in DOMAIN n.orders,
               n.orders[k].state \notin {"PENDING", "FILLED"}
        PROVE  \E j \in DOMAIN n.commands :
                   IsCancel(n.commands[j]) /\ n.commands[j].order = k
    <3>1. k \in 1 .. lo /\ n.orders[k] = d.orders[k]
      BY <1>1, <1>3, <2>4
    <3>2. PICK j \in 1 .. lc : IsCancel(d.commands[j]) /\ d.commands[j].order = k
      BY <1>1, <2>4, <3>1 DEF Good, CancelInSync
    <3> QED  BY <1>1, <1>4, <3>2
  <2>5. ASSUME NEW j \in DOMAIN n.commands, NEW k \in DOMAIN n.commands,
               IsCancel(n.commands[j]), IsCancel(n.commands[k]),
               n.commands[j].order = n.commands[k].order
        PROVE  j = k
    <3>1. /\ j \in 1 .. lc /\ n.commands[j] = d.commands[j]
          /\ k \in 1 .. lc /\ n.commands[k] = d.commands[k]
      BY <2>2, <2>5
    <3> QED  BY <1>1, <2>5, <3>1 DEF Good, CancelInSync
  <2> QED  BY <2>3, <2>4, <2>5 DEF CancelInSync
<1>7. PositionsAreFilledOrders(n)
  <2>1. PositionsAreFilledOrders(d)
    BY DEF Good
  <2>2. \A p \in DOMAIN n.positions :
           /\ n.positions[p].order \in DOMAIN n.orders
           /\ n.orders[n.positions[p].order].state = "FILLED"
    <3>1. TAKE p \in DOMAIN n.positions
    <3>2. /\ d.positions[p].order \in 1 .. lo
          /\ d.orders[d.positions[p].order].state = "FILLED"
      BY <1>1, <1>5, <2>1 DEF PositionsAreFilledOrders
    <3>3. 1 .. lo \subseteq 1 .. (lo + 1)
      BY <1>1
    <3> QED  BY <1>3, <1>5, <3>2, <3>3
  <2>3. \A p, q \in DOMAIN n.positions :
            n.positions[p].order = n.positions[q].order => p = q
    BY <1>5, <2>1 DEF PositionsAreFilledOrders
  <2>4. \A k \in DOMAIN n.orders :
            n.orders[k].state = "FILLED" =>
                \E p \in DOMAIN n.positions : n.positions[p].order = k
    <3>1. SUFFICES ASSUME NEW k \in DOMAIN n.orders, n.orders[k].state = "FILLED"
                   PROVE  \E p \in DOMAIN n.positions : n.positions[p].order = k
      OBVIOUS
    <3>2. k \in 1 .. lo /\ n.orders[k] = d.orders[k]
      BY <1>1, <1>3, <3>1
    <3> QED  BY <1>1, <1>5, <2>1, <3>1, <3>2 DEF PositionsAreFilledOrders
  <2> QED  BY <2>2, <2>3, <2>4 DEF PositionsAreFilledOrders
<1>8. ReplacementWaits(n)
  <2> DEFINE Waits(t, x) ==
                 LET k == x.depends
                 IN  /\ x.state = "BLOCKED" => k # 0
                     /\ k # 0 =>
                          /\ k \in DOMAIN t.commands
                          /\ IsCancel(t.commands[k])
                          /\ ~IsCancel(x)
                          /\ x.state = "BLOCKED" =>
                                 t.commands[k].state # "SUCCEEDED"
                          /\ x.state # "BLOCKED" /\ ~LateReports =>
                                 t.commands[k].state = "SUCCEEDED"
  <2>1. \A k \in DOMAIN d.commands :
            k \in DOMAIN n.commands /\ n.commands[k] = d.commands[k]
    BY <1>1, <1>4
  <2>2. \A k \in DOMAIN d.commands : Waits(d, d.commands[k])
    BY DEF Good, ReplacementWaits
  <2>3. \A k \in DOMAIN d.commands : Waits(n, n.commands[k])
    BY <2>1, <2>2
  <2>4. Waits(n, c)
    <3>1. CASE c.depends = 0
      BY <3>1 DEF InitialPlaceState
    <3>2. CASE c.depends # 0
      BY <2>1, <3>2 DEF InitialPlaceState, IsCancel
    <3> QED  BY <3>1, <3>2
  <2>5. \A k \in DOMAIN n.commands : k \in DOMAIN d.commands \/ n.commands[k] = c
    BY <1>1, <1>4
  <2> QED  BY <2>3, <2>4, <2>5 DEF ReplacementWaits
<1>9. SessionsRespected(n)
  <2>1. \A s \in Books \X Instruments :
           /\ d.sessions[s] # None => n.sessions[s] = d.sessions[s]
           /\ s # <<b, i>> => n.sessions[s] = d.sessions[s]
    BY <1>2 DEF OpenFor, Tables
  <2>2. n.sessions[<<b, i>>] # None
    <3>1. <<b, i>> \in Books \X Instruments /\ "ACCEPTING_SIGNALS" # None
      BY NoneAssumption DEF SessionState
    <3>2. CASE d.sessions[<<b, i>>] = None
      <4>1. n.sessions = [d.sessions EXCEPT ![<<b, i>>] = "ACCEPTING_SIGNALS"]
        BY <1>2, <3>2 DEF OpenFor
      <4> QED  BY <3>1, <4>1 DEF Tables
    <3>3. CASE d.sessions[<<b, i>>] # None
      BY <1>2, <3>3 DEF OpenFor
    <3> QED  BY <3>2, <3>3
  <2>3. \A k \in 1 .. lo : d.orders[k] \in Order
    BY <1>1, ColumnTypes
  <2>4. \A k \in 1 .. lo + 1 :
            n.sessions[<<n.orders[k].book, n.orders[k].instrument>>] # None
    <3>1. ASSUME NEW k \in 1 .. lo
          PROVE  n.sessions[<<n.orders[k].book, n.orders[k].instrument>>] # None
      <4>1. n.orders[k] = d.orders[k]
        BY <1>3, <3>1
      <4>2. d.sessions[<<d.orders[k].book, d.orders[k].instrument>>] # None
        BY <1>1, <3>1 DEF Good, SessionsRespected
      <4>3. <<d.orders[k].book, d.orders[k].instrument>> \in Books \X Instruments
        BY <2>3, <3>1 DEF Order
      <4> QED  BY <2>1, <4>1, <4>2, <4>3
    <3>2. n.sessions[<<n.orders[lo + 1].book, n.orders[lo + 1].instrument>>] # None
      BY <1>3, <2>2
    <3> QED  BY <1>1, <3>1, <3>2
  <2>5. \A s \in Books \X Instruments :
            s[1] \in n.noTrading => n.sessions[s] \notin OpenSession
    BY <1>5, <2>1 DEF Good, SessionsRespected
  <2> QED  BY <1>3, <2>4, <2>5 DEF SessionsRespected
<1> QED  BY <1>6, <1>7, <1>8, <1>9 DEF Good

\* Cancelling a pending order keeps the tables Good: the order had no cancel
\* command before.
LEMMA CancellationGood ==
  ASSUME NEW d \in Tables, Good(d), NEW o \in DOMAIN d.orders,
         d.orders[o].state = "PENDING",
         NEW key \in EventKey, NEW n, n = WithCancellation(d, o, NewCancel(key, o))
  PROVE  n \in Tables /\ Good(n)
<1> DEFINE lc == Len(d.commands)
           c == NewCancel(key, o)
<1>1. c \in Command
  BY ColumnTypes DEF NewCancel, Command, CommandType, OutboxState
<1>2. lc \in Nat /\ DOMAIN d.commands = 1 .. lc
  BY ColumnTypes
<1>3. /\ n \in Tables /\ Same(n, d, {"orders", "commands"})
      /\ n.orders = WithOrderState(d, o, "CANCEL_REQUESTED")
      /\ n.commands = Append(d.commands, c)
  BY <1>1, CancellationRows
<1>4. /\ DOMAIN n.orders = DOMAIN d.orders
      /\ \A k \in DOMAIN d.orders :
            /\ n.orders[k].book = d.orders[k].book
            /\ n.orders[k].instrument = d.orders[k].instrument
            /\ n.orders[k].state = IF k = o THEN "CANCEL_REQUESTED"
                                   ELSE d.orders[k].state
  BY <1>3, OrderStateRows DEF OrderState
<1>5. /\ DOMAIN n.commands = 1 .. (lc + 1)
      /\ \A k \in 1 .. lc : n.commands[k] = d.commands[k]
      /\ n.commands[lc + 1] = c
  BY <1>1, <1>2, <1>3, ColumnTypes
<1>6. c.type = "CANCEL_PENDING_ORDER" /\ c.order = o /\ c.depends = 0
      /\ c.state = "PENDING"
  BY DEF NewCancel
<1>7. n.positions = d.positions /\ n.noTrading = d.noTrading /\ n.sessions = d.sessions
  BY <1>3 DEF Same
<1> HIDE DEF lc, c
<1>8. \A k \in 1 .. lc : IsCancel(d.commands[k]) => d.commands[k].order # o
  BY <1>2, CancelStates DEF Good, CancelInSync
<1>9. CancelInSync(n)
  <2>1. IsCancel(c) /\ OrderStateOfCancel(c.state) = "CANCEL_REQUESTED"
    BY <1>6 DEF IsCancel, OrderStateOfCancel
  <2>2. ASSUME NEW k \in DOMAIN n.commands, IsCancel(n.commands[k])
        PROVE  /\ n.commands[k].order \in DOMAIN n.orders
               /\ n.orders[n.commands[k].order].state
                    = OrderStateOfCancel(n.commands[k].state)
    <3>1. CASE k = lc + 1
      BY <1>4, <1>5, <1>6, <2>1, <3>1
    <3>2. CASE k \in 1 .. lc
      <4>1. n.commands[k] = d.commands[k] /\ IsCancel(d.commands[k])
        BY <1>5, <2>2, <3>2
      <4> QED  BY <1>2, <1>4, <1>8, <3>2, <4>1 DEF Good, CancelInSync
    <3> QED  BY <1>2, <1>5, <3>1, <3>2
  <2>3. ASSUME NEW k \in DOMAIN n.orders,
               n.orders[k].state \notin {"PENDING", "FILLED"}
        PROVE  \E j \in DOMAIN n.commands :
                   IsCancel(n.commands[j]) /\ n.commands[j].order = k
    <3>1. CASE k = o
      BY <1>2, <1>5, <1>6, <2>1, <3>1
    <3>2. CASE k # o
      <4>1. PICK j \in 1 .. lc : IsCancel(d.commands[j]) /\ d.commands[j].order = k
        BY <1>2, <1>4, <2>3, <3>2 DEF Good, CancelInSync
      <4> QED  BY <1>2, <1>5, <4>1
    <3> QED  BY <3>1, <3>2
  <2>4. ASSUME NEW j \in DOMAIN n.commands, NEW k \in DOMAIN n.commands,
               IsCancel(n.commands[j]), IsCancel(n.commands[k]),
               n.commands[j].order = n.commands[k].order
        PROVE  j = k
    <3>1. \A m \in 1 .. lc : IsCancel(n.commands[m]) => n.commands[m].order # o
      BY <1>5, <1>8
    <3>2. n.commands[lc + 1].order = o
      BY <1>5, <1>6
    <3>3. j \in 1 .. lc /\ k \in 1 .. lc => j = k
      BY <1>2, <1>5, <2>4 DEF Good, CancelInSync
    <3> QED  BY <1>2, <1>5, <2>4, <3>1, <3>2, <3>3
  <2> QED  BY <2>2, <2>3, <2>4 DEF CancelInSync
<1>10. PositionsAreFilledOrders(n)
  BY <1>4, <1>7 DEF Good, PositionsAreFilledOrders
<1>11. ReplacementWaits(n)
  BY <1>2, <1>5, <1>6 DEF Good, ReplacementWaits
<1>12. SessionsRespected(n)
  BY <1>4, <1>7 DEF Good, SessionsRespected
<1> QED  BY <1>3, <1>9, <1>10, <1>11, <1>12 DEF Good

\* Triggering a pending order keeps the tables Good: the order had no position
\* before.
LEMMA FillGood ==
  ASSUME NEW d \in Tables, Good(d), NEW o \in DOMAIN d.orders,
         d.orders[o].state = "PENDING",
         NEW n, n = WithFill(d, o)
  PROVE  n \in Tables /\ Good(n)
<1> DEFINE lp == Len(d.positions)
           p == [order |-> o, state |-> "ACTIVE"]
<1>1. lp \in Nat /\ DOMAIN d.positions = 1 .. lp
  BY ColumnTypes
<1>2. \A q \in 1 .. lp : d.positions[q].order # o
  BY <1>1 DEF Good, PositionsAreFilledOrders
<1>3. /\ n \in Tables /\ Same(n, d, {"orders", "positions"})
      /\ n.orders = WithOrderState(d, o, "FILLED")
      /\ n.positions = Append(d.positions, p)
  <2>1. ~ \E q \in DOMAIN d.positions : d.positions[q].order = o
    BY <1>1, <1>2
  <2>2. /\ n \in Tables /\ Same(n, d, {"orders", "positions"})
        /\ n.orders = WithOrderState(d, o, "FILLED")
        /\ n.positions = IF \E q \in DOMAIN d.positions : d.positions[q].order = o
                         THEN d.positions ELSE Append(d.positions, p)
    BY FillRows
  <2> QED  BY <2>1, <2>2
<1>4. /\ DOMAIN n.orders = DOMAIN d.orders
      /\ \A k \in DOMAIN d.orders :
            /\ n.orders[k].book = d.orders[k].book
            /\ n.orders[k].instrument = d.orders[k].instrument
            /\ n.orders[k].state = IF k = o THEN "FILLED" ELSE d.orders[k].state
  BY <1>3, OrderStateRows DEF OrderState
<1>5. /\ DOMAIN n.positions = 1 .. (lp + 1)
      /\ \A q \in 1 .. lp : n.positions[q] = d.positions[q]
      /\ n.positions[lp + 1] = p
  <2>1. p \in Position
    BY ColumnTypes DEF Position, PositionState
  <2> QED  BY <1>1, <1>3, <2>1, ColumnTypes
<1>6. p.order = o
  OBVIOUS
<1>7. n.commands = d.commands /\ n.noTrading = d.noTrading /\ n.sessions = d.sessions
  BY <1>3 DEF Same
<1> HIDE DEF lp, p
<1>8. \A k \in DOMAIN d.commands : IsCancel(d.commands[k]) => d.commands[k].order # o
  BY CancelStates DEF Good, CancelInSync
<1>9. CancelInSync(n)
  <2>1. ASSUME NEW k \in DOMAIN n.commands, IsCancel(n.commands[k])
        PROVE  /\ n.commands[k].order \in DOMAIN n.orders
               /\ n.orders[n.commands[k].order].state
                    = OrderStateOfCancel(n.commands[k].state)
    BY <1>4, <1>7, <1>8, <2>1 DEF Good, CancelInSync
  <2>2. ASSUME NEW k \in DOMAIN n.orders,
               n.orders[k].state \notin {"PENDING", "FILLED"}
        PROVE  \E j \in DOMAIN n.commands :
                   IsCancel(n.commands[j]) /\ n.commands[j].order = k
    <3>1. k # o /\ d.orders[k].state \notin {"PENDING", "FILLED"}
      BY <1>4, <2>2
    <3> QED  BY <1>4, <1>7, <3>1 DEF Good, CancelInSync
  <2>3. ASSUME NEW j \in DOMAIN n.commands, NEW k \in DOMAIN n.commands,
               IsCancel(n.commands[j]), IsCancel(n.commands[k]),
               n.commands[j].order = n.commands[k].order
        PROVE  j = k
    BY <1>7, <2>3 DEF Good, CancelInSync
  <2> QED  BY <2>1, <2>2, <2>3 DEF CancelInSync
<1>10. PositionsAreFilledOrders(n)
  <2>1. ASSUME NEW q \in DOMAIN n.positions
        PROVE  /\ n.positions[q].order \in DOMAIN n.orders
               /\ n.orders[n.positions[q].order].state = "FILLED"
    <3>1. CASE q = lp + 1
      BY <1>4, <1>5, <1>6, <3>1
    <3>2. CASE q \in 1 .. lp
      BY <1>1, <1>4, <1>5, <3>2 DEF Good, PositionsAreFilledOrders
    <3> QED  BY <1>1, <1>5, <3>1, <3>2
  <2>2. ASSUME NEW q \in DOMAIN n.positions, NEW r \in DOMAIN n.positions,
               n.positions[q].order = n.positions[r].order
        PROVE  q = r
    <3>1. q \in 1 .. lp /\ r \in 1 .. lp => q = r
      BY <1>1, <1>5, <2>2 DEF Good, PositionsAreFilledOrders
    <3> QED  BY <1>1, <1>2, <1>5, <1>6, <2>2, <3>1
  <2>3. ASSUME NEW k \in DOMAIN n.orders, n.orders[k].state = "FILLED"
        PROVE  \E q \in DOMAIN n.positions : n.positions[q].order = k
    <3>1. CASE k = o
      BY <1>1, <1>5, <1>6, <3>1
    <3>2. CASE k # o
      <4>1. PICK q \in 1 .. lp : d.positions[q].order = k
        BY <1>1, <1>4, <2>3, <3>2 DEF Good, PositionsAreFilledOrders
      <4> QED  BY <1>1, <1>5, <4>1
    <3> QED  BY <3>1, <3>2
  <2> QED  BY <2>1, <2>2, <2>3 DEF PositionsAreFilledOrders
<1>11. ReplacementWaits(n)
  BY <1>7 DEF Good, ReplacementWaits
<1>12. SessionsRespected(n)
  BY <1>4, <1>7 DEF Good, SessionsRespected
<1> QED  BY <1>3, <1>9, <1>10, <1>11, <1>12 DEF Good

\* Closing a position keeps the tables Good.
LEMMA PositionStateGood ==
  ASSUME NEW d \in Tables, Good(d), NEW p \in DOMAIN d.positions,
         NEW s \in PositionState, NEW n, n = WithPositionState(d, p, s)
  PROVE  n \in Tables /\ Good(n)
<1>1. /\ n \in Tables /\ Same(n, d, {"positions"})
      /\ DOMAIN n.positions = DOMAIN d.positions
      /\ \A q \in DOMAIN d.positions :
            n.positions[q].order = d.positions[q].order
  BY PositionStateRows
<1>2. /\ n.orders = d.orders /\ n.commands = d.commands
      /\ n.noTrading = d.noTrading /\ n.sessions = d.sessions
  BY <1>1 DEF Same
<1>3. PositionsAreFilledOrders(n)
  BY <1>1, <1>2 DEF Good, PositionsAreFilledOrders
<1> QED
  BY <1>1, <1>2, <1>3 DEF Good, CancelInSync, ReplacementWaits, SessionsRespected

\* Closing sessions, one or all of a book, keeps the tables Good.
LEMMA SessionsClosedGood ==
  ASSUME NEW d \in Tables, Good(d), NEW n \in Tables,
         Same(n, d, {"sessions", "noTrading"}),
         \A s \in Books \X Instruments :
            \/ n.sessions[s] = d.sessions[s]
            \/ n.sessions[s] \in {"ENDED", "NO_TRADING"},
         \A s \in Books \X Instruments :
            s[1] \in n.noTrading \ d.noTrading => n.sessions[s] \notin OpenSession
  PROVE  Good(n)
<1>1. /\ n.orders = d.orders /\ n.commands = d.commands
      /\ n.positions = d.positions
  BY DEF Same
<1>2. SessionsRespected(n)
  <2>1. ASSUME NEW o \in DOMAIN n.orders
        PROVE  n.sessions[<<n.orders[o].book, n.orders[o].instrument>>] # None
    <3>1. d.orders[o] \in Order
      BY <1>1, <2>1, ColumnTypes
    <3>2. <<d.orders[o].book, d.orders[o].instrument>> \in Books \X Instruments
      BY <3>1 DEF Order
    <3>3. d.sessions[<<d.orders[o].book, d.orders[o].instrument>>] # None
      BY <1>1 DEF Good, SessionsRespected
    <3> QED  BY <1>1, <3>2, <3>3, NoneAssumption DEF SessionState
  <2>2. ASSUME NEW s \in Books \X Instruments, s[1] \in n.noTrading
        PROVE  n.sessions[s] \notin OpenSession
    BY <2>2 DEF Good, SessionsRespected, OpenSession
  <2> QED  BY <2>1, <2>2 DEF SessionsRespected
<1> QED
  BY <1>1, <1>2 DEF Good, CancelInSync, PositionsAreFilledOrders, ReplacementWaits

\* A report on a command the executor may hold keeps the tables Good, releases
\* included.
LEMMA ReportGood ==
  ASSUME NEW d \in Tables, Good(d), NEW c \in DOMAIN d.commands,
         NEW s \in OutboxState \ {"BLOCKED"},
         d.commands[c].state # "BLOCKED",
         LateReports \/ d.commands[c].state # "SUCCEEDED" \/ s = "SUCCEEDED",
         NEW n, n = UpdateOutboxCommandState(d, c, s)
  PROVE  n \in Tables /\ Good(n)
<1>1. /\ n \in Tables /\ Same(n, d, {"orders", "commands"})
      /\ DOMAIN n.orders = DOMAIN d.orders
      /\ \A o \in DOMAIN d.orders :
            /\ n.orders[o].book = d.orders[o].book
            /\ n.orders[o].instrument = d.orders[o].instrument
            /\ n.orders[o].state = ReportedOrder(d, c, s, o)
      /\ DOMAIN n.commands = DOMAIN d.commands
      /\ \A k \in DOMAIN d.commands :
            /\ n.commands[k].key = d.commands[k].key
            /\ n.commands[k].type = d.commands[k].type
            /\ n.commands[k].order = d.commands[k].order
            /\ n.commands[k].depends = d.commands[k].depends
            /\ n.commands[k].state =
                   IF k = c THEN s
                   ELSE IF Releases(d, c, s, k) THEN "PENDING"
                   ELSE d.commands[k].state
  BY ReportRows
<1>2. /\ n.positions = d.positions /\ n.noTrading = d.noTrading
      /\ n.sessions = d.sessions
  BY <1>1 DEF Same
<1>3. \A k \in DOMAIN d.commands :
         IsCancel(d.commands[k]) /\ k # c => n.commands[k].state = d.commands[k].state
  BY <1>1 DEF Good, ReplacementWaits, Releases
<1>4. CancelInSync(n)
  <2>1. ASSUME NEW k \in DOMAIN n.commands, IsCancel(n.commands[k])
        PROVE  /\ n.commands[k].order \in DOMAIN n.orders
               /\ n.orders[n.commands[k].order].state
                    = OrderStateOfCancel(n.commands[k].state)
    <3>1. IsCancel(d.commands[k]) /\ d.commands[k].order \in DOMAIN d.orders
      BY <1>1, <2>1 DEF Good, CancelInSync, IsCancel
    <3>2. CASE k = c
      BY <1>1, <3>1, <3>2 DEF ReportedOrder, CancelsOrder, IsCancel
    <3>3. CASE k # c
      <4>1. ~CancelsOrder(d, c, d.commands[k].order)
        BY <1>1, <3>1, <3>3 DEF Good, CancelInSync, CancelsOrder, IsCancel
      <4>2. n.orders[d.commands[k].order].state = d.orders[d.commands[k].order].state
        BY <1>1, <3>1, <4>1 DEF ReportedOrder
      <4> QED
        BY <1>1, <1>3, <3>1, <3>3, <4>2 DEF Good, CancelInSync
    <3> QED  BY <3>2, <3>3
  <2>2. ASSUME NEW o \in DOMAIN n.orders,
               n.orders[o].state \notin {"PENDING", "FILLED"}
        PROVE  \E k \in DOMAIN n.commands :
                   IsCancel(n.commands[k]) /\ n.commands[k].order = o
    <3>1. \E k \in DOMAIN d.commands :
              IsCancel(d.commands[k]) /\ d.commands[k].order = o
      BY <1>1, <2>2 DEF Good, CancelInSync, ReportedOrder, CancelsOrder, IsCancel
    <3> QED  BY <1>1, <3>1 DEF IsCancel
  <2>3. ASSUME NEW j \in DOMAIN n.commands, NEW k \in DOMAIN n.commands,
               IsCancel(n.commands[j]), IsCancel(n.commands[k]),
               n.commands[j].order = n.commands[k].order
        PROVE  j = k
    BY <1>1, <2>3 DEF Good, CancelInSync, IsCancel
  <2> QED  BY <2>1, <2>2, <2>3 DEF CancelInSync
<1>5. PositionsAreFilledOrders(n)
  <2>1. \A o \in DOMAIN d.orders :
           n.orders[o].state = "FILLED" <=> d.orders[o].state = "FILLED"
    BY <1>1, CancelStates DEF Good, CancelInSync, ReportedOrder, CancelsOrder, IsCancel
  <2> QED  BY <1>1, <1>2, <2>1 DEF Good, PositionsAreFilledOrders
<1>6. ReplacementWaits(n)
  <2> SUFFICES ASSUME NEW j \in DOMAIN n.commands
               PROVE  LET k == n.commands[j].depends
                      IN  /\ n.commands[j].state = "BLOCKED" => k # 0
                          /\ k # 0 =>
                               /\ k \in DOMAIN n.commands
                               /\ IsCancel(n.commands[k])
                               /\ ~IsCancel(n.commands[j])
                               /\ n.commands[j].state = "BLOCKED" =>
                                      n.commands[k].state # "SUCCEEDED"
                               /\ n.commands[j].state # "BLOCKED" /\ ~LateReports =>
                                      n.commands[k].state = "SUCCEEDED"
    BY DEF ReplacementWaits
  <2> DEFINE k == d.commands[j].depends
  <2>1. n.commands[j].depends = k /\ j \in DOMAIN d.commands
    BY <1>1
  <2>2. /\ d.commands[j].state = "BLOCKED" => k # 0
        /\ k # 0 =>
             /\ k \in DOMAIN d.commands
             /\ IsCancel(d.commands[k])
             /\ ~IsCancel(d.commands[j])
             /\ d.commands[j].state = "BLOCKED" => d.commands[k].state # "SUCCEEDED"
             /\ d.commands[j].state # "BLOCKED" /\ ~LateReports =>
                    d.commands[k].state = "SUCCEEDED"
    BY <2>1 DEF Good, ReplacementWaits
  <2> HIDE DEF k
  <2>3. /\ k # 0 => IsCancel(n.commands[k]) /\ ~IsCancel(n.commands[j])
        /\ n.commands[j].state = "BLOCKED" => d.commands[j].state = "BLOCKED"
    BY <1>1, <2>1, <2>2 DEF IsCancel, OutboxState
  <2>4. CASE k = c
    BY <1>1, <2>1, <2>2, <2>3, <2>4 DEF Releases, k
  <2>5. CASE k # c
    <3>1. Releases(d, c, s, j) => FALSE
      BY <2>1, <2>5 DEF Releases, k
    <3>2. k # 0 => n.commands[k].state = d.commands[k].state
      BY <1>3, <2>2, <2>5
    <3>3. n.commands[j].state # "BLOCKED" => d.commands[j].state # "BLOCKED"
      BY <1>1, <2>1, <3>1
    <3> QED  BY <1>1, <2>1, <2>2, <2>3, <3>2, <3>3
  <2> QED  BY <2>4, <2>5
<1>7. SessionsRespected(n)
  BY <1>1, <1>2 DEF Good, SessionsRespected
<1> QED  BY <1>1, <1>4, <1>5, <1>6, <1>7 DEF Good

\* A set of indices has a greatest one.
LEMMA GreatestIndex ==
  ASSUME NEW N \in Nat, NEW S, S \subseteq 1 .. N, S # {}
  PROVE  \E m \in S : \A s \in S : s <= m
<1> DEFINE R == {ss \in Nat \X Nat : ss[1] < ss[2]}
           T == {N - s : s \in S}
<1>1. IsWellFoundedOn(R, Nat)
  BY NatLessThanWellFounded DEF OpToRel
<1>2. T \subseteq Nat /\ T # {}
  <2>1. \A s \in S : N - s \in Nat
    OBVIOUS
  <2>2. \E s \in S : N - s \in T
    OBVIOUS
  <2> QED  BY <2>1, <2>2
<1>3. PICK x \in T : \A y \in T : <<y, x>> \notin R
  <2> HIDE DEF R, T
  <2> QED  BY <1>1, <1>2, WFMin
<1>4. PICK m \in S : x = N - m
  OBVIOUS
<1>5. ASSUME NEW s \in S PROVE s <= m
  <2>1. N - s \in T /\ N - s \in Nat /\ x \in Nat
    BY <1>2, <1>3
  <2>2. ~ (N - s < x)
    BY <1>3, <2>1
  <2> QED  BY <1>4, <2>2
<1> QED  BY <1>5

(***************************************************************************)
(* What one event does to the tables                                       *)
(***************************************************************************)

\* Tables n come after tables d in one transaction: rows are kept, orders that
\* left PENDING, positions that were closed and all commands as they were.
Follows(d, n) ==
    /\ \A o \in DOMAIN d.orders :
           /\ o \in DOMAIN n.orders
           /\ d.orders[o].state # "PENDING" =>
                  n.orders[o].state = d.orders[o].state
    /\ \A p \in DOMAIN d.positions :
           /\ p \in DOMAIN n.positions
           /\ d.positions[p].state # "ACTIVE" => n.positions[p] = d.positions[p]
    /\ \A c \in DOMAIN d.commands :
           c \in DOMAIN n.commands /\ n.commands[c] = d.commands[c]

\* The command of a mutation is the only new one; it belongs to the event.
CommandOf(d, mu, key, type) ==
    /\ \A c \in DOMAIN mu.tables.commands : c \in DOMAIN d.commands \/ c = mu.cmd
    /\ mu.cmd # 0 =>
           /\ mu.cmd \in DOMAIN mu.tables.commands \ DOMAIN d.commands
           /\ mu.outcome = "APPLIED"
           /\ mu.tables.commands[mu.cmd].key = key
           /\ mu.tables.commands[mu.cmd].type = type
           /\ type = "CANCEL_PENDING_ORDER" =>
                  mu.tables.commands[mu.cmd].state = "PENDING"

\* What every handler guarantees of its mutation, on whatever rows.
Emits(d, mu, key, type) ==
    /\ mu.tables \in Tables
    /\ Follows(d, mu.tables)
    /\ mu.tables.processed = d.processed
    /\ mu.outcome \in Outcome
    /\ mu.cmd \in Nat
    /\ CommandOf(d, mu, key, type)
    /\ mu.outcome = "APPLIED" /\ type \in CommandType => mu.cmd # 0

\* On Good tables it also leaves Good ones.
Sound(d, mu, key, type) == Emits(d, mu, key, type) /\ Good(mu.tables)

\* What a transaction does to rows holds across several of its events.
LEMMA FollowsTransitive ==
  ASSUME NEW d, NEW n, NEW m, Follows(d, n), Follows(n, m)
  PROVE  Follows(d, m)
  BY DEF Follows

\* An event left to review, and one that repeats what is there, write nothing.
LEMMA IdleEmits ==
  ASSUME NEW d \in Tables, NEW key, NEW type
  PROVE  /\ Emits(d, Review(d), key, type)
         /\ Emits(d, Noop(d), key, type)
         /\ Review(d).tables = d /\ Noop(d).tables = d
<1>1. Follows(d, d)
  BY DEF Follows
<1>2. /\ Review(d).tables = d /\ Review(d).cmd = 0 /\ Review(d).outcome = "MANUAL_REVIEW"
      /\ Noop(d).tables = d /\ Noop(d).cmd = 0 /\ Noop(d).outcome = "NOOP"
  BY DEF Review, Noop, Mutation
<1> QED  BY <1>1, <1>2 DEF Emits, CommandOf, Outcome

\* What is known of the cancellation a placement depends on.
Awaited(d, depends) ==
    \/ depends = 0
    \/ /\ depends \in DOMAIN d.commands
       /\ IsCancel(d.commands[depends])
       /\ d.commands[depends].state = "PENDING"

\* _apply_place_pending_order emits the placement of its order.
LEMMA PlaceEmits ==
  ASSUME NEW d \in Tables, NEW b \in Books, NEW key \in EventKey,
         NEW e \in Event, e.type = "PLACE_PENDING_ORDER",
         NEW unresolved, NEW depends \in Nat
  PROVE  Emits(d, PlacePendingOrder(d, b, key, e, unresolved, depends), key,
               "PLACE_PENDING_ORDER")
<1> DEFINE i == ResolvedInstrument(d, b, e.instrument)
           o == NewOrder(b, i, e)
           c == NewPlace(d, key, depends)
           n == WithPlacement(d, OpenFor(d, b, i), o, c)
           mu == Mutation(n, "APPLIED", Len(d.commands) + 1)
<1>1. CASE RefusesEntry(d, b, e, unresolved)
  BY <1>1, IdleEmits DEF PlacePendingOrder
<1>2. CASE ~RefusesEntry(d, b, e, unresolved) /\ AlreadyPending(d, b, i, e)
  BY <1>2, IdleEmits DEF PlacePendingOrder
<1>3. CASE ~RefusesEntry(d, b, e, unresolved) /\ ~AlreadyPending(d, b, i, e)
  <2>1. PlacePendingOrder(d, b, key, e, unresolved, depends) = mu
    BY <1>3 DEF PlacePendingOrder
  <2>2. i \in Instruments
    <3>1. e.instrument \in Instruments \cup {None}
      BY DEF Event
    <3>2. i \in Instruments \cup {None}
      BY <3>1, ResolvedType
    <3> QED  BY <1>3, <3>2 DEF RefusesEntry
  <2>3. o \in Order
    BY <2>2 DEF NewOrder, Order, OrderState, Event
  <2>4. Len(d.orders) \in Nat /\ Len(d.commands) \in Nat
        /\ DOMAIN d.orders = 1 .. Len(d.orders)
        /\ DOMAIN d.commands = 1 .. Len(d.commands)
    BY ColumnTypes
  <2>5. c \in Command /\ c.type = "PLACE_PENDING_ORDER" /\ c.key = key
    BY <2>4 DEF NewPlace, Command, CommandType, OutboxState, InitialPlaceState
  <2>6. OpenFor(d, b, i) \in SessionTable
    BY <2>2, OpenForType
  <2> HIDE DEF i, o, c
  <2>8. /\ n \in Tables /\ Same(n, d, {"sessions", "orders", "commands"})
        /\ n.orders = Append(d.orders, o)
        /\ n.commands = Append(d.commands, c)
    BY <2>3, <2>5, <2>6, PlacementRows
  <2> HIDE DEF n
  <2>9. n.positions = d.positions /\ n.processed = d.processed
    BY <2>8 DEF Same
  <2>10. /\ \A k \in DOMAIN d.commands :
                k \in DOMAIN n.commands /\ n.commands[k] = d.commands[k]
         /\ DOMAIN n.commands = 1 .. Len(d.commands) + 1
         /\ n.commands[Len(d.commands) + 1] = c
    BY <2>4, <2>5, <2>8, ColumnTypes
  <2>11. \A k \in DOMAIN d.orders :
             k \in DOMAIN n.orders /\ n.orders[k] = d.orders[k]
    BY <2>3, <2>4, <2>8, ColumnTypes
  <2>12. Follows(d, n)
    BY <2>9, <2>10, <2>11 DEF Follows
  <2>13. mu.tables = n /\ mu.outcome = "APPLIED" /\ mu.cmd = Len(d.commands) + 1
    BY DEF Mutation
  <2> HIDE DEF mu
  <2>14. CommandOf(d, mu, key, "PLACE_PENDING_ORDER")
    BY <2>4, <2>5, <2>10, <2>13 DEF CommandOf
  <2>15. Emits(d, mu, key, "PLACE_PENDING_ORDER")
    BY <2>4, <2>8, <2>9, <2>12, <2>13, <2>14 DEF Emits, Outcome
  <2> QED  BY <2>1, <2>15
<1> QED  BY <1>1, <1>2, <1>3

\* It is sound when the cancellation it is made to wait for is a pending one.
LEMMA PlaceSound ==
  ASSUME NEW d \in Tables, Good(d), NEW b \in Books, NEW key \in EventKey,
         NEW e \in Event, e.type = "PLACE_PENDING_ORDER",
         NEW unresolved, NEW depends \in Nat,
         ~unresolved => Awaited(d, depends)
  PROVE  Sound(d, PlacePendingOrder(d, b, key, e, unresolved, depends), key,
               "PLACE_PENDING_ORDER")
<1> DEFINE i == ResolvedInstrument(d, b, e.instrument)
           o == NewOrder(b, i, e)
           c == NewPlace(d, key, depends)
           n == WithPlacement(d, OpenFor(d, b, i), o, c)
           mu == PlacePendingOrder(d, b, key, e, unresolved, depends)
<1>1. Emits(d, mu, key, "PLACE_PENDING_ORDER")
  BY PlaceEmits
<1>2. CASE RefusesEntry(d, b, e, unresolved) \/ AlreadyPending(d, b, i, e)
  <2>1. mu.tables = d
    BY <1>2, IdleEmits DEF PlacePendingOrder
  <2> QED  BY <1>1, <2>1 DEF Sound
<1>3. CASE ~RefusesEntry(d, b, e, unresolved) /\ ~AlreadyPending(d, b, i, e)
  <2>1. mu.tables = n
    BY <1>3 DEF PlacePendingOrder, Mutation
  <2>2. i \in Instruments /\ b \notin d.noTrading /\ Awaited(d, depends)
    <3>1. e.instrument \in Instruments \cup {None}
      BY DEF Event
    <3>2. i \in Instruments \cup {None}
      BY <3>1, ResolvedType
    <3> QED  BY <1>3, <3>2 DEF RefusesEntry
  <2>3. o \in Order /\ o.book = b /\ o.instrument = i /\ o.state = "PENDING"
    BY <2>2 DEF NewOrder, Order, OrderState, Event
  <2>4. Len(d.orders) \in Nat
    BY ColumnTypes
  <2>5. /\ c \in Command /\ c.type = "PLACE_PENDING_ORDER"
        /\ c.order = Len(d.orders) + 1 /\ c.depends = depends
        /\ c.state = InitialPlaceState(c.depends)
    BY <2>4 DEF NewPlace, Command, CommandType, OutboxState, InitialPlaceState
  <2> HIDE DEF i, o, c, mu
  <2>6. Good(n)
    BY <2>2, <2>3, <2>5, PlacementGood DEF Awaited
  <2> QED  BY <1>1, <2>1, <2>6 DEF Sound, mu
<1> QED  BY <1>2, <1>3

\* _apply_cancel_pending_order emits the cancellation.
LEMMA CancelEmits ==
  ASSUME NEW d \in Tables, NEW b \in Books, NEW key \in EventKey,
         NEW e \in Event
  PROVE  Emits(d, CancelPendingOrder(d, b, key, e), key, "CANCEL_PENDING_ORDER")
<1> DEFINE targets == PendingOrders(d, b, e.side)
           o == The(targets)
           c == NewCancel(key, o)
           n == WithCancellation(d, o, c)
           mu == Mutation(n, "APPLIED", Len(d.commands) + 1)
<1>1. CASE ~Unique(targets)
  BY <1>1, IdleEmits DEF CancelPendingOrder
<1>2. CASE Unique(targets)
  <2>1. CancelPendingOrder(d, b, key, e) = mu
    BY <1>2 DEF CancelPendingOrder
  <2>2. o \in DOMAIN d.orders /\ d.orders[o].state = "PENDING"
    <3>1. o \in targets
      BY <1>2, TheIn
    <3> QED  BY <3>1 DEF PendingOrders
  <2>3. Len(d.commands) \in Nat /\ DOMAIN d.commands = 1 .. Len(d.commands)
        /\ o \in Nat
    BY <2>2, ColumnTypes
  <2>4. /\ c \in Command /\ c.type = "CANCEL_PENDING_ORDER" /\ c.key = key
        /\ c.state = "PENDING"
    BY <2>3 DEF NewCancel, Command, CommandType, OutboxState
  <2> HIDE DEF o, c
  <2>6. /\ n \in Tables /\ Same(n, d, {"orders", "commands"})
        /\ n.orders = WithOrderState(d, o, "CANCEL_REQUESTED")
        /\ n.commands = Append(d.commands, c)
    BY <2>2, <2>4, CancellationRows
  <2> HIDE DEF n
  <2>7. n.positions = d.positions /\ n.processed = d.processed
    BY <2>6 DEF Same
  <2>8. /\ \A k \in DOMAIN d.commands :
                k \in DOMAIN n.commands /\ n.commands[k] = d.commands[k]
        /\ DOMAIN n.commands = 1 .. Len(d.commands) + 1
        /\ n.commands[Len(d.commands) + 1] = c
    BY <2>3, <2>4, <2>6, ColumnTypes
  <2>9. \A k \in DOMAIN d.orders :
            /\ k \in DOMAIN n.orders
            /\ d.orders[k].state # "PENDING" => n.orders[k].state = d.orders[k].state
    BY <2>2, <2>6, OrderStateRows DEF OrderState
  <2>10. Follows(d, n)
    BY <2>7, <2>8, <2>9 DEF Follows
  <2>11. mu.tables = n /\ mu.outcome = "APPLIED" /\ mu.cmd = Len(d.commands) + 1
    BY DEF Mutation
  <2> HIDE DEF mu
  <2>12. CommandOf(d, mu, key, "CANCEL_PENDING_ORDER")
    BY <2>3, <2>4, <2>8, <2>11 DEF CommandOf
  <2>13. Emits(d, mu, key, "CANCEL_PENDING_ORDER")
    BY <2>3, <2>6, <2>7, <2>10, <2>11, <2>12 DEF Emits, Outcome
  <2> QED  BY <2>1, <2>13
<1> QED  BY <1>1, <1>2

\* It is sound.
LEMMA CancelSound ==
  ASSUME NEW d \in Tables, Good(d), NEW b \in Books, NEW key \in EventKey,
         NEW e \in Event
  PROVE  Sound(d, CancelPendingOrder(d, b, key, e), key, "CANCEL_PENDING_ORDER")
<1> DEFINE targets == PendingOrders(d, b, e.side)
           o == The(targets)
           n == WithCancellation(d, o, NewCancel(key, o))
           mu == CancelPendingOrder(d, b, key, e)
<1>1. Emits(d, mu, key, "CANCEL_PENDING_ORDER")
  BY CancelEmits
<1>2. CASE ~Unique(targets)
  <2>1. mu.tables = d
    BY <1>2, IdleEmits DEF CancelPendingOrder
  <2> QED  BY <1>1, <2>1 DEF Sound
<1>3. CASE Unique(targets)
  <2>1. mu.tables = n
    BY <1>3 DEF CancelPendingOrder, Mutation
  <2>2. o \in DOMAIN d.orders /\ d.orders[o].state = "PENDING"
    <3>1. o \in targets
      BY <1>3, TheIn
    <3> QED  BY <3>1 DEF PendingOrders
  <2> HIDE DEF o, mu
  <2>3. Good(n)
    BY <2>2, CancellationGood
  <2> QED  BY <1>1, <2>1, <2>3 DEF Sound, mu
<1> QED  BY <1>2, <1>3

\* A handler that emits no command.
LEMMA QuietEmits ==
  ASSUME NEW d, NEW n \in Tables,
         n.commands = d.commands, n.processed = d.processed,
         \A o \in DOMAIN d.orders :
            /\ o \in DOMAIN n.orders
            /\ d.orders[o].state # "PENDING" => n.orders[o].state = d.orders[o].state,
         \A p \in DOMAIN d.positions :
            /\ p \in DOMAIN n.positions
            /\ d.positions[p].state # "ACTIVE" => n.positions[p] = d.positions[p],
         NEW key, NEW type, type \notin CommandType
  PROVE  Emits(d, Mutation(n, "APPLIED", 0), key, type)
  BY DEF Emits, Follows, CommandOf, Mutation, Outcome

\* _apply_mark_order_triggered emits no command.
LEMMA TriggeredEmits ==
  ASSUME NEW d \in Tables, NEW b, NEW e, NEW key, NEW type, type \notin CommandType
  PROVE  Emits(d, MarkOrderTriggered(d, b, e), key, type)
<1> DEFINE targets == PendingOrders(d, b, e.side)
           o == The(targets)
           n == WithFill(d, o)
<1>1. CASE ~Unique(targets)
  BY <1>1, IdleEmits DEF MarkOrderTriggered
<1>2. CASE Unique(targets)
  <2>1. MarkOrderTriggered(d, b, e) = Mutation(n, "APPLIED", 0)
    BY <1>2 DEF MarkOrderTriggered
  <2>2. o \in DOMAIN d.orders /\ d.orders[o].state = "PENDING"
    <3>1. o \in targets
      BY <1>2, TheIn
    <3> QED  BY <3>1 DEF PendingOrders
  <2> HIDE DEF o
  <2>4. /\ n \in Tables /\ Same(n, d, {"orders", "positions"})
        /\ n.orders = WithOrderState(d, o, "FILLED")
        /\ n.positions = IF \E p \in DOMAIN d.positions : d.positions[p].order = o
                         THEN d.positions
                         ELSE Append(d.positions, [order |-> o, state |-> "ACTIVE"])
    BY <2>2, FillRows
  <2> HIDE DEF n
  <2>5. n.commands = d.commands /\ n.processed = d.processed
    BY <2>4 DEF Same
  <2>6. \A k \in DOMAIN d.orders :
           /\ k \in DOMAIN n.orders
           /\ d.orders[k].state # "PENDING" => n.orders[k].state = d.orders[k].state
    BY <2>2, <2>4, OrderStateRows DEF OrderState
  <2>7. \A p \in DOMAIN d.positions :
           p \in DOMAIN n.positions /\ n.positions[p] = d.positions[p]
    <3> DEFINE r == [order |-> o, state |-> "ACTIVE"]
    <3>1. d.positions \in Seq(Position) /\ r \in Position
      BY <2>2, ColumnTypes DEF Position, PositionState
    <3>2. n.positions = d.positions \/ n.positions = Append(d.positions, r)
      BY <2>4
    <3> HIDE DEF r
    <3> QED  BY <3>1, <3>2
  <2> QED  BY <2>1, <2>4, <2>5, <2>6, <2>7, QuietEmits
<1> QED  BY <1>1, <1>2

\* It is sound.
LEMMA TriggeredSound ==
  ASSUME NEW d \in Tables, Good(d), NEW b, NEW e, NEW key, NEW type, type \notin CommandType
  PROVE  Sound(d, MarkOrderTriggered(d, b, e), key, type)
<1> DEFINE targets == PendingOrders(d, b, e.side)
           o == The(targets)
           n == WithFill(d, o)
           mu == MarkOrderTriggered(d, b, e)
<1>1. Emits(d, mu, key, type)
  BY TriggeredEmits
<1>2. CASE ~Unique(targets)
  <2>1. mu.tables = d
    BY <1>2, IdleEmits DEF MarkOrderTriggered
  <2> QED  BY <1>1, <2>1 DEF Sound
<1>3. CASE Unique(targets)
  <2>1. mu.tables = n
    BY <1>3 DEF MarkOrderTriggered, Mutation
  <2>2. o \in DOMAIN d.orders /\ d.orders[o].state = "PENDING"
    <3>1. o \in targets
      BY <1>3, TheIn
    <3> QED  BY <3>1 DEF PendingOrders
  <2> HIDE DEF o, mu
  <2>3. Good(n)
    BY <2>2, FillGood
  <2> QED  BY <1>1, <2>1, <2>3 DEF Sound, mu
<1> QED  BY <1>2, <1>3

\* _apply_record_trade_result emits no command.
LEMMA ResultEmits ==
  ASSUME NEW d \in Tables, NEW b, NEW e, NEW key, NEW type, type \notin CommandType
  PROVE  Emits(d, RecordTradeResult(d, b, e), key, type)
<1> DEFINE targets == ActivePositions(d, b)
           p == The(targets)
           s == PositionStateOf(e.result)
           n == WithPositionState(d, p, s)
<1>1. CASE ~Unique(targets)
  BY <1>1, IdleEmits DEF RecordTradeResult
<1>2. CASE Unique(targets)
  <2>1. RecordTradeResult(d, b, e) = Mutation(n, "APPLIED", 0)
    BY <1>2 DEF RecordTradeResult
  <2>2. p \in DOMAIN d.positions /\ d.positions[p].state = "ACTIVE"
    <3>1. p \in targets
      BY <1>2, TheIn
    <3> QED  BY <3>1 DEF ActivePositions
  <2>3. s \in PositionState
    BY DEF PositionStateOf, PositionState
  <2> HIDE DEF p, s
  <2>5. /\ n \in Tables /\ Same(n, d, {"positions"})
        /\ DOMAIN n.positions = DOMAIN d.positions
    BY <2>2, <2>3, PositionStateRows
  <2>6. n.positions = ClosedPosition(d, p, s)
    BY DEF WithPositionState, Tables
  <2> HIDE DEF n
  <2>7. /\ n.commands = d.commands /\ n.processed = d.processed
        /\ n.orders = d.orders
    BY <2>5 DEF Same
  <2>8. \A q \in DOMAIN d.positions :
           /\ q \in DOMAIN n.positions
           /\ d.positions[q].state # "ACTIVE" => n.positions[q] = d.positions[q]
    BY <2>2, <2>5, <2>6 DEF ClosedPosition
  <2> QED  BY <2>1, <2>5, <2>7, <2>8, QuietEmits
<1> QED  BY <1>1, <1>2

\* It is sound.
LEMMA ResultSound ==
  ASSUME NEW d \in Tables, Good(d), NEW b, NEW e, NEW key, NEW type, type \notin CommandType
  PROVE  Sound(d, RecordTradeResult(d, b, e), key, type)
<1> DEFINE targets == ActivePositions(d, b)
           p == The(targets)
           s == PositionStateOf(e.result)
           n == WithPositionState(d, p, s)
           mu == RecordTradeResult(d, b, e)
<1>1. Emits(d, mu, key, type)
  BY ResultEmits
<1>2. CASE ~Unique(targets)
  <2>1. mu.tables = d
    BY <1>2, IdleEmits DEF RecordTradeResult
  <2> QED  BY <1>1, <2>1 DEF Sound
<1>3. CASE Unique(targets)
  <2>1. mu.tables = n
    BY <1>3 DEF RecordTradeResult, Mutation
  <2>2. p \in DOMAIN d.positions
    <3>1. p \in targets
      BY <1>3, TheIn
    <3> QED  BY <3>1 DEF ActivePositions
  <2>3. s \in PositionState
    BY DEF PositionStateOf, PositionState
  <2> HIDE DEF p, s, mu
  <2>4. Good(n)
    BY <2>2, <2>3, PositionStateGood
  <2> QED  BY <1>1, <2>1, <2>4 DEF Sound, mu
<1> QED  BY <1>2, <1>3

\* _apply_end_session emits no command and is sound.
LEMMA EndSound ==
  ASSUME NEW d \in Tables, NEW b \in Books, NEW key, NEW type, type \notin CommandType
  PROVE  /\ Emits(d, EndSession(d, b), key, type)
         /\ Good(d) => Sound(d, EndSession(d, b), key, type)
<1> DEFINE targets == SessionsIn(d, b, OpenSession)
           s == <<b, The(targets)>>
           n == WithSessionState(d, s, "ENDED")
<1>1. CASE ~Unique(targets)
  BY <1>1, IdleEmits DEF EndSession, Sound
<1>2. CASE Unique(targets)
  <2>1. EndSession(d, b) = Mutation(n, "APPLIED", 0)
    BY <1>2 DEF EndSession
  <2>2. s \in Books \X Instruments
    <3>1. The(targets) \in targets
      BY <1>2, TheIn
    <3> QED  BY <3>1 DEF SessionsIn
  <2> HIDE DEF s
  <2>3. "ENDED" \in SessionState
    BY DEF SessionState
  <2>4. /\ n \in Tables /\ Same(n, d, {"sessions"})
        /\ n.sessions = [d.sessions EXCEPT ![s] = "ENDED"]
    BY <2>2, <2>3, SessionStateRows
  <2> HIDE DEF n
  <2>5. /\ n.commands = d.commands /\ n.processed = d.processed
        /\ n.orders = d.orders /\ n.positions = d.positions
        /\ n.noTrading = d.noTrading /\ Same(n, d, {"sessions", "noTrading"})
    BY <2>4 DEF Same
  <2>6. \A t \in Books \X Instruments :
           n.sessions[t] = d.sessions[t] \/ n.sessions[t] = "ENDED"
    BY <2>4, ColumnTypes DEF SessionTable
  <2>7. Good(d) => Good(n)
    BY <2>4, <2>5, <2>6, SessionsClosedGood
  <2>8. Emits(d, Mutation(n, "APPLIED", 0), key, type)
    BY <2>4, <2>5, QuietEmits
  <2>9. Mutation(n, "APPLIED", 0).tables = n
    BY DEF Mutation
  <2> QED  BY <2>1, <2>7, <2>8, <2>9 DEF Sound
<1> QED  BY <1>1, <1>2

\* _apply_no_trading_day emits no command and is sound.
LEMMA NoTradingSound ==
  ASSUME NEW d \in Tables, NEW b \in Books, NEW key, NEW type, type \notin CommandType
  PROVE  /\ Emits(d, NoTradingDay(d, b), key, type)
         /\ Good(d) => Sound(d, NoTradingDay(d, b), key, type)
<1> DEFINE n == WithNoTrading(d, b)
<1>1. CASE b \in d.noTrading
  BY <1>1, IdleEmits DEF NoTradingDay, Sound
<1>2. CASE b \notin d.noTrading
  <2>1. NoTradingDay(d, b) = Mutation(n, "APPLIED", 0)
    BY <1>2 DEF NoTradingDay
  <2>2. /\ n \in Tables /\ Same(n, d, {"sessions", "noTrading"})
        /\ n.sessions = ClosedForTheDay(d, b)
        /\ n.noTrading = d.noTrading \cup {b}
    BY NoTradingRows
  <2> HIDE DEF n
  <2>3. /\ n.commands = d.commands /\ n.processed = d.processed
        /\ n.orders = d.orders /\ n.positions = d.positions
    BY <2>2 DEF Same
  <2>4. \A s \in Books \X Instruments :
           /\ n.sessions[s] = d.sessions[s] \/ n.sessions[s] = "NO_TRADING"
           /\ s[1] = b => n.sessions[s] \notin OpenSession
    BY <2>2 DEF ClosedForTheDay, OpenSession
  <2>5. Good(d) => Good(n)
    BY <2>2, <2>4, SessionsClosedGood
  <2>6. Emits(d, Mutation(n, "APPLIED", 0), key, type)
    BY <2>2, <2>3, QuietEmits
  <2>7. Mutation(n, "APPLIED", 0).tables = n
    BY DEF Mutation
  <2> QED  BY <2>1, <2>5, <2>6, <2>7 DEF Sound
<1> QED  BY <1>1, <1>2

\* An event that was not handled before leaves one row, and its command, if
\* any, is the only one with its key.
LEMMA RecordOnce ==
  ASSUME NEW d \in Tables, OneCommandPerEvent(d), NEW key \in EventKey,
         NEW e \in Event, \A p \in d.processed : p.key # key,
         NEW mu, Emits(d, mu, key, e.type),
         NEW n, n = Record(mu.tables, key, e, mu.outcome)
  PROVE  /\ n \in Tables /\ Same(n, mu.tables, {"processed"})
         /\ n.processed = d.processed \cup
                {[key |-> key, event |-> e, outcome |-> mu.outcome]}
         /\ Follows(d, n) /\ OneCommandPerEvent(n)
         /\ \A c \in DOMAIN n.commands :
                c \in DOMAIN d.commands \/ n.commands[c].key = key
<1> DEFINE m == mu.tables
           row == [key |-> key, event |-> e, outcome |-> mu.outcome]
<1>1. /\ m \in Tables /\ Follows(d, m) /\ m.processed = d.processed
      /\ mu.outcome \in Outcome /\ CommandOf(d, mu, key, e.type)
  BY DEF Emits
<1> HIDE DEF m
<1>2. /\ n \in Tables /\ Same(n, m, {"processed"})
      /\ n.processed = d.processed \cup {row}
  BY <1>1, RecordRows DEF m
<1>3. /\ n.orders = m.orders /\ n.positions = m.positions
      /\ n.commands = m.commands
  BY <1>2 DEF Same
<1>5. Follows(d, n)
  BY <1>1, <1>3 DEF Follows
<1>6. row.key = key /\ row.outcome = mu.outcome /\ row.event = e
  OBVIOUS
<1> HIDE DEF row
<1>7. \A p, q \in n.processed : p.key = q.key => p = q
  BY <1>2, <1>6 DEF OneCommandPerEvent
<1>8. \A c \in DOMAIN n.commands :
         \/ c \in DOMAIN d.commands /\ n.commands[c] = d.commands[c]
         \/ /\ c = mu.cmd /\ n.commands[c].key = key
            /\ n.commands[c].type = e.type /\ mu.outcome = "APPLIED"
  <2> SUFFICES ASSUME NEW c \in DOMAIN n.commands, c \notin DOMAIN d.commands
               PROVE  /\ c = mu.cmd /\ n.commands[c].key = key
                      /\ n.commands[c].type = e.type /\ mu.outcome = "APPLIED"
    BY <1>5 DEF Follows
  <2>1. c = mu.cmd
    BY <1>1, <1>3 DEF CommandOf, m
  <2>2. mu.cmd # 0
    <3>1. DOMAIN m.commands = 1 .. Len(m.commands) /\ Len(m.commands) \in Nat
      BY <1>1, ColumnTypes
    <3> QED  BY <1>3, <2>1, <3>1
  <2> QED  BY <1>1, <1>3, <2>1, <2>2 DEF CommandOf, m
<1>9. \A c \in DOMAIN d.commands :
         \E p \in d.processed : /\ p.key = d.commands[c].key /\ p.key # key
                                /\ p.outcome = "APPLIED"
                                /\ p.event.type = d.commands[c].type
  BY DEF OneCommandPerEvent
<1>10. \A c, k \in DOMAIN n.commands :
          n.commands[c].key = n.commands[k].key => c = k
  BY <1>8, <1>9 DEF OneCommandPerEvent
<1>11. \A c \in DOMAIN n.commands : \E p \in n.processed :
          /\ p.key = n.commands[c].key
          /\ p.outcome = "APPLIED"
          /\ p.event.type = n.commands[c].type
  BY <1>2, <1>6, <1>8, <1>9
<1>12. OneCommandPerEvent(n)
  BY <1>7, <1>10, <1>11 DEF OneCommandPerEvent
<1> QED  BY <1>2, <1>5, <1>8, <1>12 DEF m, row

\* On Good tables it leaves Good ones.
LEMMA RecordSound ==
  ASSUME NEW d \in Tables, OneCommandPerEvent(d), NEW key \in EventKey,
         NEW e \in Event, \A p \in d.processed : p.key # key,
         NEW mu, Sound(d, mu, key, e.type),
         NEW n, n = Record(mu.tables, key, e, mu.outcome)
  PROVE  /\ n \in Tables /\ Good(n) /\ Follows(d, n) /\ OneCommandPerEvent(n)
         /\ \A c \in DOMAIN n.commands :
                c \in DOMAIN d.commands \/ n.commands[c].key = key
<1>1. Emits(d, mu, key, e.type) /\ Good(mu.tables)
  BY DEF Sound
<1>2. /\ n \in Tables /\ Same(n, mu.tables, {"processed"})
      /\ Follows(d, n) /\ OneCommandPerEvent(n)
      /\ \A c \in DOMAIN n.commands :
             c \in DOMAIN d.commands \/ n.commands[c].key = key
  BY <1>1, RecordOnce
<1> QED  BY <1>1, <1>2, RecordGood

\* A report leaves every event with one row and at most one command.
LEMMA ReportOnce ==
  ASSUME NEW d \in Tables, OneCommandPerEvent(d), NEW c \in DOMAIN d.commands,
         NEW s \in OutboxState, NEW n, n = UpdateOutboxCommandState(d, c, s)
  PROVE  OneCommandPerEvent(n)
<1>1. /\ Same(n, d, {"orders", "commands"})
      /\ DOMAIN n.commands = DOMAIN d.commands
      /\ \A k \in DOMAIN d.commands :
            /\ n.commands[k].key = d.commands[k].key
            /\ n.commands[k].type = d.commands[k].type
  BY ReportRows
<1>2. n.processed = d.processed
  BY <1>1 DEF Same
<1> QED  BY <1>1, <1>2 DEF OneCommandPerEvent

(***************************************************************************)
(* What a message of one book may do to the tables                         *)
(***************************************************************************)
Closed(d, s) == d.sessions[s] \in {"ENDED", "NO_TRADING"}

\* Tables n come after tables d by what a message of book b may do: orders and
\* positions keep what they are about, those of other books and the sessions of
\* other books are as they were, and closed sessions stay closed and get no
\* order.
Within(d, n, b) ==
    /\ \A o \in DOMAIN d.orders :
           /\ o \in DOMAIN n.orders
           /\ n.orders[o].book = d.orders[o].book
           /\ n.orders[o].instrument = d.orders[o].instrument
           /\ d.orders[o].book # b => n.orders[o] = d.orders[o]
    /\ \A p \in DOMAIN d.positions :
           /\ p \in DOMAIN n.positions
           /\ n.positions[p].order = d.positions[p].order
           /\ d.orders[d.positions[p].order].book # b =>
                  n.positions[p] = d.positions[p]
    /\ \A s \in Books \X Instruments :
           /\ s[1] # b => n.sessions[s] = d.sessions[s]
           /\ Closed(d, s) => Closed(n, s)
    /\ \A o \in DOMAIN n.orders \ DOMAIN d.orders :
           ~Closed(d, <<n.orders[o].book, n.orders[o].instrument>>)

\* Every order has one placement command, and no placement waits for the
\* cancellation of its own order.
OnePlacement(d) ==
    /\ \A o \in DOMAIN d.orders : \E c \in DOMAIN d.commands :
           ~IsCancel(d.commands[c]) /\ d.commands[c].order = o
    /\ \A c, k \in DOMAIN d.commands :
           /\ ~IsCancel(d.commands[c]) /\ ~IsCancel(d.commands[k])
           /\ d.commands[c].order = d.commands[k].order
           => c = k
    /\ \A c \in DOMAIN d.commands :
           /\ d.commands[c].order \in DOMAIN d.orders
           /\ d.commands[c].depends # 0 =>
                  d.commands[d.commands[c].depends].order # d.commands[c].order

\* What every handler does to the tables of its message.
Effect(d, n, b) == Within(d, n, b) /\ (OnePlacement(d) => OnePlacement(n))

\* Tables with the same orders, positions, sessions and commands.
LEMMA NoEffect ==
  ASSUME NEW d, NEW n, Same(n, d, {"noTrading", "processed"}), NEW b
  PROVE  Effect(d, n, b)
  BY DEF Same, Effect, Within, OnePlacement, Closed

\* Several events of one message together stay within its book.
LEMMA EffectTransitive ==
  ASSUME NEW d \in Tables, Good(d), NEW n \in Tables, NEW m \in Tables, NEW b,
         Effect(d, n, b), Effect(n, m, b)
  PROVE  Effect(d, m, b)
<1>1. \A o \in DOMAIN d.orders :
         /\ o \in DOMAIN m.orders
         /\ m.orders[o].book = d.orders[o].book
         /\ m.orders[o].instrument = d.orders[o].instrument
         /\ d.orders[o].book # b => m.orders[o] = d.orders[o]
  BY DEF Effect, Within
<1>2. \A p \in DOMAIN d.positions :
         /\ p \in DOMAIN m.positions
         /\ m.positions[p].order = d.positions[p].order
         /\ d.orders[d.positions[p].order].book # b =>
                m.positions[p] = d.positions[p]
  <2>1. \A p \in DOMAIN d.positions : d.positions[p].order \in DOMAIN d.orders
    BY DEF Good, PositionsAreFilledOrders
  <2> QED  BY <2>1 DEF Effect, Within
<1>3. \A s \in Books \X Instruments :
         /\ s[1] # b => m.sessions[s] = d.sessions[s]
         /\ Closed(d, s) => Closed(m, s)
  BY DEF Effect, Within
<1>4. \A o \in DOMAIN m.orders \ DOMAIN d.orders :
         ~Closed(d, <<m.orders[o].book, m.orders[o].instrument>>)
  <2> SUFFICES ASSUME NEW o \in DOMAIN m.orders, o \notin DOMAIN d.orders
               PROVE  ~Closed(d, <<m.orders[o].book, m.orders[o].instrument>>)
    OBVIOUS
  <2>1. CASE o \in DOMAIN n.orders
    BY <2>1 DEF Effect, Within
  <2>2. CASE o \notin DOMAIN n.orders
    <3>1. <<m.orders[o].book, m.orders[o].instrument>> \in Books \X Instruments
      <4>1. m.orders[o] \in Order
        BY ColumnTypes
      <4> QED  BY <4>1 DEF Order
    <3>2. ~Closed(n, <<m.orders[o].book, m.orders[o].instrument>>)
      BY <2>2 DEF Effect, Within
    <3> QED  BY <3>1, <3>2 DEF Effect, Within
  <2> QED  BY <2>1, <2>2
<1> QED  BY <1>1, <1>2, <1>3, <1>4 DEF Effect, Within

\* _apply_place_pending_order opens a session of its book or uses one that is
\* not closed; its order gets the one placement command.
LEMMA PlaceEffect ==
  ASSUME NEW d \in Tables, Good(d), NEW b \in Books, NEW key \in EventKey,
         NEW e \in Event, e.type = "PLACE_PENDING_ORDER",
         NEW unresolved, NEW depends \in Nat,
         ~unresolved => depends = 0 \/ depends \in DOMAIN d.commands
  PROVE  Effect(d, PlacePendingOrder(d, b, key, e, unresolved, depends).tables, b)
<1> DEFINE i == ResolvedInstrument(d, b, e.instrument)
           o == NewOrder(b, i, e)
           c == NewPlace(d, key, depends)
           S == OpenFor(d, b, i)
           n == WithPlacement(d, S, o, c)
<1>0. Effect(d, d, b)
  BY NoEffect DEF Same
<1>1. CASE RefusesEntry(d, b, e, unresolved)
  BY <1>0, <1>1 DEF PlacePendingOrder, Review, Mutation
<1>2. CASE ~RefusesEntry(d, b, e, unresolved) /\ AlreadyPending(d, b, i, e)
  BY <1>0, <1>2 DEF PlacePendingOrder, Noop, Mutation
<1>3. CASE ~RefusesEntry(d, b, e, unresolved) /\ ~AlreadyPending(d, b, i, e)
  <2>1. PlacePendingOrder(d, b, key, e, unresolved, depends).tables = n
    BY <1>3 DEF PlacePendingOrder, Mutation
  <2>2. i \in Instruments /\ ~Closed(d, <<b, i>>) /\ ~unresolved
    <3>1. e.instrument \in Instruments \cup {None}
      BY DEF Event
    <3>2. i \in Instruments \cup {None}
      BY <3>1, ResolvedType
    <3> QED  BY <1>3, <3>2 DEF RefusesEntry, Closed
  <2>3. o \in Order /\ o.book = b /\ o.instrument = i
    BY <2>2 DEF NewOrder, Order, OrderState, Event
  <2>4. Len(d.orders) \in Nat /\ Len(d.commands) \in Nat
        /\ DOMAIN d.orders = 1 .. Len(d.orders)
        /\ DOMAIN d.commands = 1 .. Len(d.commands)
    BY ColumnTypes
  <2>5. /\ c \in Command /\ ~IsCancel(c)
        /\ c.order = Len(d.orders) + 1 /\ c.depends = depends
    BY <2>4 DEF NewPlace, Command, CommandType, OutboxState, InitialPlaceState,
                IsCancel
  <2>6. S \in SessionTable
    BY <2>2, OpenForType
  <2>7. \A s \in Books \X Instruments :
           /\ s[1] # b => S[s] = d.sessions[s]
           /\ Closed(d, s) => S[s] = d.sessions[s]
    <3>1. CASE d.sessions[<<b, i>>] = None
      <4>1. S = [d.sessions EXCEPT ![<<b, i>>] = "ACCEPTING_SIGNALS"]
        BY <3>1 DEF OpenFor
      <4>2. \A s \in Books \X Instruments : s # <<b, i>> => S[s] = d.sessions[s]
        BY <4>1, ColumnTypes DEF SessionTable
      <4> QED  BY <2>2, <4>2
    <3>2. CASE d.sessions[<<b, i>>] # None
      BY <3>2 DEF OpenFor
    <3> QED  BY <3>1, <3>2
  <2> HIDE DEF i, o, c, S
  <2>8. /\ Same(n, d, {"sessions", "orders", "commands"})
        /\ n.sessions = S
        /\ n.orders = Append(d.orders, o)
        /\ n.commands = Append(d.commands, c)
    BY <2>3, <2>5, <2>6, PlacementRows
  <2> HIDE DEF n
  <2>9. n.positions = d.positions
    BY <2>8 DEF Same
  <2>10. /\ \A k \in DOMAIN d.commands :
                k \in DOMAIN n.commands /\ n.commands[k] = d.commands[k]
         /\ DOMAIN n.commands = 1 .. Len(d.commands) + 1
         /\ n.commands[Len(d.commands) + 1] = c
    BY <2>4, <2>5, <2>8, ColumnTypes
  <2>11. /\ \A k \in DOMAIN d.orders :
                k \in DOMAIN n.orders /\ n.orders[k] = d.orders[k]
         /\ DOMAIN n.orders = 1 .. Len(d.orders) + 1
         /\ n.orders[Len(d.orders) + 1] = o
    BY <2>3, <2>4, <2>8, ColumnTypes
  <2>12. Within(d, n, b)
    <3>1. \A s \in Books \X Instruments :
             /\ s[1] # b => n.sessions[s] = d.sessions[s]
             /\ Closed(d, s) => Closed(n, s)
      BY <2>7, <2>8 DEF Closed
    <3>2. \A k \in DOMAIN n.orders \ DOMAIN d.orders : n.orders[k] = o
      BY <2>4, <2>11
    <3> QED  BY <2>2, <2>3, <2>9, <2>11, <3>1, <3>2 DEF Within
  <2>13. ASSUME OnePlacement(d) PROVE OnePlacement(n)
    <3>1. \A k \in DOMAIN n.commands :
             \/ k \in DOMAIN d.commands /\ n.commands[k] = d.commands[k]
             \/ k = Len(d.commands) + 1 /\ n.commands[k] = c
      BY <2>4, <2>10
    <3>2. \A k \in DOMAIN d.commands : d.commands[k].order # Len(d.orders) + 1
      BY <2>4, <2>13 DEF OnePlacement
    <3>3. \A k \in DOMAIN n.orders : \E j \in DOMAIN n.commands :
             ~IsCancel(n.commands[j]) /\ n.commands[j].order = k
      <4>1. Len(d.commands) + 1 \in DOMAIN n.commands
        BY <2>4, <2>10
      <4>2. \A k \in DOMAIN n.orders : k \in DOMAIN d.orders \/ k = Len(d.orders) + 1
        BY <2>4, <2>11
      <4> QED  BY <2>5, <2>10, <2>13, <4>1, <4>2 DEF OnePlacement
    <3>4. \A j, k \in DOMAIN n.commands :
             /\ ~IsCancel(n.commands[j]) /\ ~IsCancel(n.commands[k])
             /\ n.commands[j].order = n.commands[k].order
             => j = k
      BY <2>5, <2>13, <3>1, <3>2 DEF OnePlacement
    <3>5. ASSUME NEW k \in DOMAIN n.commands
          PROVE  /\ n.commands[k].order \in DOMAIN n.orders
                 /\ n.commands[k].depends # 0 =>
                      n.commands[n.commands[k].depends].order # n.commands[k].order
      <4>1. CASE k \in DOMAIN d.commands /\ n.commands[k] = d.commands[k]
        <5>1. d.commands[k].depends # 0 => d.commands[k].depends \in DOMAIN d.commands
          BY <4>1 DEF Good, ReplacementWaits
        <5>2. /\ d.commands[k].order \in DOMAIN d.orders
              /\ d.commands[k].depends # 0 =>
                   d.commands[d.commands[k].depends].order # d.commands[k].order
          BY <2>13, <4>1 DEF OnePlacement
        <5>3. n.commands[k].order \in DOMAIN n.orders
          BY <2>11, <4>1, <5>2
        <5>4. d.commands[k].depends # 0 =>
                  n.commands[d.commands[k].depends]
                    = d.commands[d.commands[k].depends]
          BY <2>10, <5>1
        <5> QED  BY <4>1, <5>2, <5>3, <5>4
      <4>2. CASE n.commands[k] = c
        <5>1. depends # 0 => n.commands[depends] = d.commands[depends]
                             /\ depends \in DOMAIN d.commands
          BY <2>2, <2>10
        <5>2. Len(d.orders) + 1 \in DOMAIN n.orders
          BY <2>4, <2>11
        <5> QED  BY <2>5, <3>2, <4>2, <5>1, <5>2
      <4> QED  BY <3>1, <3>5, <4>1, <4>2
    <3> QED  BY <3>3, <3>4, <3>5 DEF OnePlacement
  <2> QED  BY <2>1, <2>12, <2>13 DEF Effect
<1> QED  BY <1>1, <1>2, <1>3

\* _apply_cancel_pending_order touches an order of its book.
LEMMA CancelEffect ==
  ASSUME NEW d \in Tables, Good(d), NEW b \in Books, NEW key \in EventKey,
         NEW e \in Event
  PROVE  Effect(d, CancelPendingOrder(d, b, key, e).tables, b)
<1> DEFINE targets == PendingOrders(d, b, e.side)
           o == The(targets)
           c == NewCancel(key, o)
           n == WithCancellation(d, o, c)
<1>1. CASE ~Unique(targets)
  <2>1. Effect(d, d, b)
    BY NoEffect DEF Same
  <2> QED  BY <1>1, <2>1 DEF CancelPendingOrder, Review, Mutation
<1>2. CASE Unique(targets)
  <2>1. CancelPendingOrder(d, b, key, e).tables = n
    BY <1>2 DEF CancelPendingOrder, Mutation
  <2>2. o \in DOMAIN d.orders /\ d.orders[o].book = b
    <3>1. o \in targets
      BY <1>2, TheIn
    <3> QED  BY <3>1 DEF PendingOrders
  <2>3. Len(d.commands) \in Nat /\ DOMAIN d.commands = 1 .. Len(d.commands)
        /\ o \in Nat
    BY <2>2, ColumnTypes
  <2>4. c \in Command /\ IsCancel(c) /\ c.order = o /\ c.depends = 0
    BY <2>3 DEF NewCancel, Command, CommandType, OutboxState, IsCancel
  <2> HIDE DEF o, c
  <2>5. /\ Same(n, d, {"orders", "commands"})
        /\ n.orders = WithOrderState(d, o, "CANCEL_REQUESTED")
        /\ n.commands = Append(d.commands, c)
    BY <2>2, <2>4, CancellationRows
  <2> HIDE DEF n
  <2>6. n.positions = d.positions /\ n.sessions = d.sessions
    BY <2>5 DEF Same
  <2>7. /\ \A k \in DOMAIN d.commands :
               k \in DOMAIN n.commands /\ n.commands[k] = d.commands[k]
        /\ \A k \in DOMAIN n.commands : k \in DOMAIN d.commands \/ n.commands[k] = c
    <3>1. /\ \A k \in DOMAIN d.commands :
                 k \in DOMAIN n.commands /\ n.commands[k] = d.commands[k]
          /\ DOMAIN n.commands = 1 .. Len(d.commands) + 1
          /\ n.commands[Len(d.commands) + 1] = c
      BY <2>3, <2>4, <2>5, ColumnTypes
    <3> QED  BY <2>3, <3>1
  <2>8. /\ DOMAIN n.orders = DOMAIN d.orders
        /\ \A k \in DOMAIN d.orders :
              /\ n.orders[k].book = d.orders[k].book
              /\ n.orders[k].instrument = d.orders[k].instrument
    BY <2>2, <2>5, OrderStateRows DEF OrderState
  <2>9. \A k \in DOMAIN d.orders : k # o => n.orders[k] = d.orders[k]
    BY <2>5 DEF WithOrderState
  <2>10. Within(d, n, b)
    BY <2>2, <2>6, <2>8, <2>9 DEF Within, Closed
  <2>11. ASSUME OnePlacement(d) PROVE OnePlacement(n)
    <3>1. \A k \in DOMAIN d.commands :
             d.commands[k].depends # 0 => d.commands[k].depends \in DOMAIN d.commands
      BY DEF Good, ReplacementWaits
    <3>2. \A k \in DOMAIN n.commands :
             /\ n.commands[k].order \in DOMAIN n.orders
             /\ n.commands[k].depends # 0 =>
                    n.commands[n.commands[k].depends].order # n.commands[k].order
      BY <2>2, <2>4, <2>7, <2>8, <2>11, <3>1 DEF OnePlacement
    <3>3. \A k \in DOMAIN n.orders : \E j \in DOMAIN n.commands :
             ~IsCancel(n.commands[j]) /\ n.commands[j].order = k
      BY <2>7, <2>8, <2>11 DEF OnePlacement
    <3>4. \A j, k \in DOMAIN n.commands :
             /\ ~IsCancel(n.commands[j]) /\ ~IsCancel(n.commands[k])
             /\ n.commands[j].order = n.commands[k].order
             => j = k
      BY <2>4, <2>7, <2>11 DEF OnePlacement
    <3> QED  BY <3>2, <3>3, <3>4 DEF OnePlacement
  <2> QED  BY <2>1, <2>10, <2>11 DEF Effect
<1> QED  BY <1>1, <1>2

\* A handler that emits no command.
LEMMA QuietEffect ==
  ASSUME NEW d, NEW n, NEW b, Within(d, n, b),
         n.commands = d.commands, DOMAIN n.orders = DOMAIN d.orders
  PROVE  Effect(d, n, b)
  BY DEF Effect, OnePlacement

\* _apply_mark_order_triggered fills an order of its book.
LEMMA TriggeredEffect ==
  ASSUME NEW d \in Tables, NEW b, NEW e
  PROVE  Effect(d, MarkOrderTriggered(d, b, e).tables, b)
<1> DEFINE targets == PendingOrders(d, b, e.side)
           o == The(targets)
           n == WithFill(d, o)
<1>1. CASE ~Unique(targets)
  <2>1. Effect(d, d, b)
    BY NoEffect DEF Same
  <2> QED  BY <1>1, <2>1 DEF MarkOrderTriggered, Review, Mutation
<1>2. CASE Unique(targets)
  <2>1. MarkOrderTriggered(d, b, e).tables = n
    BY <1>2 DEF MarkOrderTriggered, Mutation
  <2>2. o \in DOMAIN d.orders /\ d.orders[o].book = b
    <3>1. o \in targets
      BY <1>2, TheIn
    <3> QED  BY <3>1 DEF PendingOrders
  <2> HIDE DEF o
  <2>3. /\ Same(n, d, {"orders", "positions"})
        /\ n.orders = WithOrderState(d, o, "FILLED")
        /\ n.positions = IF \E p \in DOMAIN d.positions : d.positions[p].order = o
                         THEN d.positions
                         ELSE Append(d.positions, [order |-> o, state |-> "ACTIVE"])
    BY <2>2, FillRows
  <2> HIDE DEF n
  <2>4. n.commands = d.commands /\ n.sessions = d.sessions
    BY <2>3 DEF Same
  <2>5. /\ DOMAIN n.orders = DOMAIN d.orders
        /\ \A k \in DOMAIN d.orders :
              /\ n.orders[k].book = d.orders[k].book
              /\ n.orders[k].instrument = d.orders[k].instrument
    BY <2>2, <2>3, OrderStateRows DEF OrderState
  <2>6. \A k \in DOMAIN d.orders : k # o => n.orders[k] = d.orders[k]
    BY <2>3 DEF WithOrderState
  <2>7. \A p \in DOMAIN d.positions :
           p \in DOMAIN n.positions /\ n.positions[p] = d.positions[p]
    <3> DEFINE r == [order |-> o, state |-> "ACTIVE"]
    <3>1. d.positions \in Seq(Position) /\ r \in Position
      BY <2>2, ColumnTypes DEF Position, PositionState
    <3>2. n.positions = d.positions \/ n.positions = Append(d.positions, r)
      BY <2>3
    <3> HIDE DEF r
    <3> QED  BY <3>1, <3>2
  <2>8. Within(d, n, b)
    BY <2>2, <2>4, <2>5, <2>6, <2>7 DEF Within, Closed
  <2> QED  BY <2>1, <2>4, <2>5, <2>8, QuietEffect
<1> QED  BY <1>1, <1>2

\* _apply_record_trade_result closes a position of its book.
LEMMA ResultEffect ==
  ASSUME NEW d \in Tables, NEW b, NEW e
  PROVE  Effect(d, RecordTradeResult(d, b, e).tables, b)
<1> DEFINE targets == ActivePositions(d, b)
           p == The(targets)
           s == PositionStateOf(e.result)
           n == WithPositionState(d, p, s)
<1>1. CASE ~Unique(targets)
  <2>1. Effect(d, d, b)
    BY NoEffect DEF Same
  <2> QED  BY <1>1, <2>1 DEF RecordTradeResult, Review, Mutation
<1>2. CASE Unique(targets)
  <2>1. RecordTradeResult(d, b, e).tables = n
    BY <1>2 DEF RecordTradeResult, Mutation
  <2>2. p \in DOMAIN d.positions /\ d.orders[d.positions[p].order].book = b
    <3>1. p \in targets
      BY <1>2, TheIn
    <3> QED  BY <3>1 DEF ActivePositions
  <2>3. s \in PositionState
    BY DEF PositionStateOf, PositionState
  <2> HIDE DEF p, s
  <2>4. /\ Same(n, d, {"positions"}) /\ DOMAIN n.positions = DOMAIN d.positions
        /\ \A q \in DOMAIN d.positions :
              n.positions[q].order = d.positions[q].order
    BY <2>2, <2>3, PositionStateRows
  <2>5. n.positions = ClosedPosition(d, p, s)
    BY DEF WithPositionState, Tables
  <2> HIDE DEF n
  <2>6. /\ n.commands = d.commands /\ n.orders = d.orders
        /\ n.sessions = d.sessions
    BY <2>4 DEF Same
  <2>7. \A q \in DOMAIN d.positions : q # p => n.positions[q] = d.positions[q]
    BY <2>5 DEF ClosedPosition
  <2>8. Within(d, n, b)
    BY <2>2, <2>4, <2>6, <2>7 DEF Within, Closed
  <2> QED  BY <2>1, <2>6, <2>8, QuietEffect
<1> QED  BY <1>1, <1>2

\* A handler that changes only sessions: those of its book, and none reopens.
LEMMA SessionsEffect ==
  ASSUME NEW d, NEW n, NEW b, Same(n, d, {"sessions", "noTrading"}),
         \A s \in Books \X Instruments :
            /\ s[1] # b => n.sessions[s] = d.sessions[s]
            /\ Closed(d, s) => Closed(n, s)
  PROVE  Effect(d, n, b)
<1>1. /\ n.orders = d.orders /\ n.positions = d.positions
      /\ n.commands = d.commands
  BY DEF Same
<1>2. Within(d, n, b)
  BY <1>1 DEF Within
<1> QED  BY <1>1, <1>2, QuietEffect

\* _apply_end_session ends a session of its book.
LEMMA EndEffect ==
  ASSUME NEW d \in Tables, NEW b \in Books
  PROVE  Effect(d, EndSession(d, b).tables, b)
<1> DEFINE targets == SessionsIn(d, b, OpenSession)
           s == <<b, The(targets)>>
           n == WithSessionState(d, s, "ENDED")
<1>1. CASE ~Unique(targets)
  <2>1. Effect(d, d, b)
    BY NoEffect DEF Same
  <2> QED  BY <1>1, <2>1 DEF EndSession, Review, Mutation
<1>2. CASE Unique(targets)
  <2>1. EndSession(d, b).tables = n
    BY <1>2 DEF EndSession, Mutation
  <2>2. s \in Books \X Instruments /\ s[1] = b
    <3>1. The(targets) \in targets
      BY <1>2, TheIn
    <3> QED  BY <3>1 DEF SessionsIn
  <2> HIDE DEF s
  <2>3. "ENDED" \in SessionState
    BY DEF SessionState
  <2>4. /\ Same(n, d, {"sessions"})
        /\ n.sessions = [d.sessions EXCEPT ![s] = "ENDED"]
    BY <2>2, <2>3, SessionStateRows
  <2> HIDE DEF n
  <2>5. Same(n, d, {"sessions", "noTrading"})
    BY <2>4 DEF Same
  <2>6. \A t \in Books \X Instruments :
           n.sessions[t] = IF t = s THEN "ENDED" ELSE d.sessions[t]
    BY <2>4, ColumnTypes DEF SessionTable
  <2>7. \A t \in Books \X Instruments :
           /\ t[1] # b => n.sessions[t] = d.sessions[t]
           /\ Closed(d, t) => Closed(n, t)
    BY <2>2, <2>6 DEF Closed
  <2> QED  BY <2>1, <2>5, <2>7, SessionsEffect
<1> QED  BY <1>1, <1>2

\* _apply_no_trading_day closes open sessions of its book.
LEMMA NoTradingEffect ==
  ASSUME NEW d \in Tables, NEW b \in Books
  PROVE  Effect(d, NoTradingDay(d, b).tables, b)
<1> DEFINE n == WithNoTrading(d, b)
<1>1. CASE b \in d.noTrading
  <2>1. Effect(d, d, b)
    BY NoEffect DEF Same
  <2> QED  BY <1>1, <2>1 DEF NoTradingDay, Noop, Mutation
<1>2. CASE b \notin d.noTrading
  <2>1. NoTradingDay(d, b).tables = n
    BY <1>2 DEF NoTradingDay, Mutation
  <2>2. /\ Same(n, d, {"sessions", "noTrading"})
        /\ n.sessions = ClosedForTheDay(d, b)
    BY NoTradingRows
  <2> HIDE DEF n
  <2>3. \A s \in Books \X Instruments :
           n.sessions[s] = IF s[1] = b /\ d.sessions[s] \in OpenSession
                           THEN "NO_TRADING" ELSE d.sessions[s]
    BY <2>2 DEF ClosedForTheDay
  <2>4. \A s \in Books \X Instruments :
           /\ s[1] # b => n.sessions[s] = d.sessions[s]
           /\ Closed(d, s) => Closed(n, s)
    BY <2>3 DEF Closed
  <2> QED  BY <2>1, <2>2, <2>4, SessionsEffect
<1> QED  BY <1>1, <1>2

=============================================================================
