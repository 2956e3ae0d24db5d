------------------------ MODULE MessageParserTheorems ------------------------
(***************************************************************************)
(* What is proved about the parser for texts of any length, any providers, *)
(* prices and fragments.                                                   *)
(*                                                                         *)
(* InOrder is shown to list a set of numbers in ascending order by counting: *)
(* the rank of a number is a bijection.  So sections list their prices,    *)
(* blocks their orders and Ordered the events, each once; and as a line can *)
(* start one event only, no two events contend for a place.                *)
(***************************************************************************)
EXTENDS MessageParser, FiniteSetTheorems, SequenceTheorems, TLAPS

-----------------------------------------------------------------------------
(* Sets of numbers. *)

LEMMA HasMinimum ==
    ASSUME NEW T \in SUBSET Nat, T # {}
    PROVE  Min(T) \in T /\ \A j \in T : Min(T) <= j
<1> DEFINE Less == OpToRel(<, Nat)
<1>1. PICK k \in T : \A j \in T : <<j, k>> \notin Less
  <2>1. IsWellFoundedOn(Less, Nat)
    BY NatLessThanWellFounded
  <2> HIDE DEF Less
  <2> QED  BY <2>1, WFMin
<1>2. ASSUME NEW j \in T PROVE k <= j
  <2>1. j \in Nat /\ k \in Nat /\ <<j, k>> \notin Less
    BY <1>1
  <2>2. j < k => <<j, k>> \in Less
    BY <2>1 DEF OpToRel
  <2> HIDE DEF Less
  <2> QED  BY <2>1, <2>2
<1> QED  BY <1>2 DEF Min

\* The n-th number of a set has n - 1 others below it: InOrder lists them all,
\* ascending.
LEMMA InOrderLists ==
    ASSUME NEW S \in SUBSET Nat, IsFiniteSet(S)
    PROVE  /\ Cardinality(S) \in Nat
           /\ InOrder(S) \in Seq(S)
           /\ DOMAIN InOrder(S) = 1 .. Cardinality(S)
           /\ \A i, j \in DOMAIN InOrder(S) : i < j => InOrder(S)[i] < InOrder(S)[j]
           /\ \A x \in S : \E k \in DOMAIN InOrder(S) : InOrder(S)[k] = x
<1> DEFINE n == Cardinality(S)
           Below(x) == {m \in S : m < x}
           rank == [x \in S |-> Cardinality(Below(x)) + 1]
           s == [k \in 1 .. n |-> CHOOSE x \in S : Cardinality(Below(x)) = k - 1]
<1>1. n \in Nat
  BY FS_CardinalityType
<1>2. ASSUME NEW x \in S
      PROVE  IsFiniteSet(Below(x)) /\ Cardinality(Below(x)) \in Nat
             /\ rank[x] = Cardinality(Below(x)) + 1 /\ rank[x] \in 1 .. n
  <2>1. Below(x) \subseteq S \ {x}
    OBVIOUS
  <2>2. IsFiniteSet(S \ {x}) /\ Cardinality(S \ {x}) = n - 1
    BY FS_RemoveElement
  <2>3. IsFiniteSet(Below(x)) /\ Cardinality(Below(x)) <= n - 1
    BY <2>1, <2>2, FS_Subset
  <2>4. Cardinality(Below(x)) \in Nat
    BY <2>3, FS_CardinalityType
  <2> QED  BY <1>1, <2>3, <2>4
<1>3. ASSUME NEW x \in S, NEW y \in S, x < y
      PROVE  rank[x] < rank[y]
  <2>1. Below(x) \subseteq Below(y) /\ x \in Below(y) /\ x \notin Below(x)
    <3>1. \A m \in S : m \in Nat
      OBVIOUS
    <3>2. ASSUME NEW m \in Below(x) PROVE m \in Below(y)
      <4>1. m \in S /\ m \in Nat /\ x \in Nat /\ y \in Nat /\ m < x
        BY <3>1
      <4> QED  BY <1>3, <4>1
    <3>3. x \in Below(y)
      BY <1>3
    <3>4. x \notin Below(x)
      <4>1. x \in Nat
        BY <3>1
      <4> QED  BY <4>1
    <3> HIDE DEF Below
    <3> QED  BY <3>2, <3>3, <3>4
  <2>2. Cardinality(Below(x) \cup {x}) = Cardinality(Below(x)) + 1
    BY <1>2, <2>1, FS_AddElement
  <2>3. Below(x) \cup {x} \subseteq Below(y)
    BY <2>1
  <2>4. Cardinality(Below(x) \cup {x}) <= Cardinality(Below(y))
    BY <1>2, <2>3, FS_Subset
  <2> HIDE DEF Below
  <2> QED  BY <1>2, <2>2, <2>4
<1>4. rank \in Injection(S, 1 .. n)
  <2>1. rank \in [S -> 1 .. n]
    BY <1>2
  <2>2. ASSUME NEW x \in S, NEW y \in S, rank[x] = rank[y] PROVE x = y
    <3>1. rank[x] \in Int /\ rank[y] \in Int
      BY <2>1
    <3>2. ~(x < y) /\ ~(y < x)
      BY <1>3, <2>2, <3>1
    <3> QED  BY <3>2
  <2> QED  BY <2>1, <2>2 DEF Injection, IsInjective
<1>5. ASSUME NEW k \in 1 .. n PROVE \E x \in S : rank[x] = k
  <2>1. IsFiniteSet(1 .. n) /\ Cardinality(1 .. n) = n
    BY <1>1, FS_Interval
  <2>2. rank \in Surjection(S, 1 .. n)
    BY <1>4, <2>1, FS_Injection
  <2> QED  BY <2>2 DEF Surjection
<1>6. ASSUME NEW k \in 1 .. n PROVE s[k] \in S /\ rank[s[k]] = k
  <2>1. PICK x \in S : rank[x] = k
    BY <1>5
  <2>2. Cardinality(Below(x)) = k - 1
    BY <1>2, <2>1
  <2>3. s[k] \in S /\ Cardinality(Below(s[k])) = k - 1
    BY <2>2
  <2> QED  BY <2>3
<1>7. InOrder(S) = s
  BY DEF InOrder
<1>8. s \in [1 .. n -> S] /\ DOMAIN s = 1 .. n
  BY <1>6
<1>9. ASSUME NEW x \in S PROVE \E k \in 1 .. n : s[k] = x
  <2>1. rank[x] \in 1 .. n
    BY <1>2
  <2>2. s[rank[x]] \in S /\ rank[s[rank[x]]] = rank[x]
    BY <1>6, <2>1
  <2>3. s[rank[x]] = x
    BY <1>4, <2>2 DEF Injection, IsInjective
  <2> QED  BY <2>1, <2>3
<1>10. ASSUME NEW i \in 1 .. n, NEW j \in 1 .. n, i < j PROVE s[i] < s[j]
  <2>1. /\ s[i] \in S /\ s[j] \in S /\ rank[s[i]] = i /\ rank[s[j]] = j
    BY <1>6
  <2>2. i \in Nat /\ j \in Nat /\ s[i] \in Nat /\ s[j] \in Nat
    <3>1. i \in Nat /\ j \in Nat
      BY <1>1
    <3> HIDE DEF s
    <3> QED  BY <2>1, <3>1
  <2>3. s[j] < s[i] => rank[s[j]] < rank[s[i]]
    BY <1>3, <2>1
  <2> HIDE DEF rank, s
  <2>4. s[i] # s[j] /\ ~(s[j] < s[i])
    BY <1>10, <2>1, <2>2, <2>3
  <2> QED  BY <2>2, <2>4
<1> HIDE DEF s
<1>11. s \in Seq(S)
  BY <1>1, <1>8
<1> QED  BY <1>1, <1>7, <1>8, <1>9, <1>10, <1>11

-----------------------------------------------------------------------------
(* Texts. *)

LEMMA LinesOfText ==
    ASSUME NEW t \in Seq(Line)
    PROVE  /\ Len(t) \in Nat /\ DOMAIN t = 1 .. Len(t)
           /\ \A S \in SUBSET DOMAIN t : S \in SUBSET Nat /\ IsFiniteSet(S)
           /\ \A i \in DOMAIN t : t[i] \in Line
<1>1. Len(t) \in Nat /\ DOMAIN t = 1 .. Len(t)
  OBVIOUS
<1>2. IsFiniteSet(DOMAIN t)
  BY <1>1, FS_Interval
<1>3. ASSUME NEW S \in SUBSET DOMAIN t PROVE S \in SUBSET Nat /\ IsFiniteSet(S)
  BY <1>1, <1>2, <1>3, FS_Subset
<1> QED  BY <1>1, <1>3

\* The lines of a kind in the section at s.
Lines(t, s, kind) == Section(t, s) \cap At(t, kind)

LEMMA ListedLines ==
    ASSUME NEW t \in Seq(Line), NEW s, NEW kind
    PROVE  /\ Cardinality(Lines(t, s, kind)) \in Nat
           /\ DOMAIN Listed(t, s, kind) = 1 .. Cardinality(Lines(t, s, kind))
           /\ Len(Listed(t, s, kind)) = Cardinality(Lines(t, s, kind))
           /\ Listed(t, s, kind) # <<>> => 1 \in DOMAIN Listed(t, s, kind)
           /\ \A k \in DOMAIN Listed(t, s, kind) :
                  \E i \in Lines(t, s, kind) : Listed(t, s, kind)[k] = t[i].arg
<1> DEFINE S == Lines(t, s, kind)
           n == Cardinality(S)
           at == InOrder(S)
           list == [k \in DOMAIN at |-> t[at[k]].arg]
<1>1. S \in SUBSET DOMAIN t
  BY DEF Lines, At
<1>2. S \in SUBSET Nat /\ IsFiniteSet(S)
  BY <1>1, LinesOfText
<1>3. n \in Nat /\ at \in Seq(S) /\ DOMAIN at = 1 .. n
  BY <1>2, InOrderLists
<1>4. Listed(t, s, kind) = list
  BY DEF Listed, Lines
<1> HIDE DEF S, n, at
<1>5. \A k \in DOMAIN at : at[k] \in S
  BY <1>3
<1>6. DOMAIN list = 1 .. n /\ \A k \in DOMAIN list : \E i \in S : list[k] = t[i].arg
  BY <1>3, <1>5
<1>7. list \in Seq({t[i].arg : i \in S})
  <2>1. list \in [1 .. n -> {t[i].arg : i \in S}]
    BY <1>3, <1>5
  <2> HIDE DEF list
  <2> QED  BY <1>3, <2>1
<1>8. Len(list) = n
  <2> HIDE DEF list
  <2> QED  BY <1>3, <1>6, <1>7
<1>9. list # <<>> => 1 \in DOMAIN list
  <2> HIDE DEF list
  <2>1. list # <<>> => n # 0
    BY <1>7, <1>8, EmptySeq
  <2> QED  BY <1>3, <1>6, <2>1
<1> QED  BY <1>3, <1>4, <1>6, <1>8, <1>9 DEF n, S

\* The orders of a block are those of its whole sections.
LEMMA OrdersOfSections ==
    ASSUME NEW t \in Seq(Line), NEW h
    PROVE  /\ \A k \in DOMAIN Orders(t, h) :
                  \E s \in SectionsOf(t, h) : Orders(t, h)[k] = OrderAt(t, s)
           /\ \A s \in SectionsOf(t, h) :
                  \E k \in DOMAIN Orders(t, h) : Orders(t, h)[k] = OrderAt(t, s)
<1> DEFINE S == SectionsOf(t, h)
           at == InOrder(S)
<1>1. S \in SUBSET DOMAIN t
  BY DEF SectionsOf, At
<1>2. S \in SUBSET Nat /\ IsFiniteSet(S)
  BY <1>1, LinesOfText
<1>3. /\ at \in Seq(S) /\ \A x \in S : \E k \in DOMAIN at : at[k] = x
  BY <1>2, InOrderLists
<1>4. Orders(t, h) = [k \in DOMAIN at |-> OrderAt(t, at[k])]
  BY DEF Orders
<1> HIDE DEF at
<1>5. \A k \in DOMAIN at : at[k] \in S
  BY <1>3
<1> QED  BY <1>3, <1>4, <1>5

-----------------------------------------------------------------------------
(* Events. *)

\* The only event that can start at line i.
StartingAt(t, i) ==
    CASE t[i].kind = "SIDE" -> Event("PLACE_PENDING_ORDER", i, OrderAt(t, i))
      [] t[i].kind = "TRIGGERED" -> Event("MARK_ORDER_TRIGGERED", i, t[i].arg)
      [] t[i].kind = "DELETE" -> Event("CANCEL_PENDING_ORDER", i, t[i].arg)
      [] t[i].kind = "END" -> Event("END_SESSION", i, None)
      [] t[i].kind = "BREAK_EVEN" -> Event("RECORD_TRADE_RESULT", i, "BREAK_EVEN")
      [] t[i].kind = "RESULT" -> Event("RECORD_TRADE_RESULT", i, t[i].arg)

LEMMA MergedAtLine ==
    ASSUME NEW t \in Seq(Line), NEW kind, NEW type, NEW what,
           NEW e \in Merged(t, kind, type, what)
    PROVE  e.at \in Whole(t, kind) /\ e = Event(type, e.at, what)
<1>1. Whole(t, kind) # {} /\ e = Event(type, Min(Whole(t, kind)), what)
  BY DEF Merged
<1>2. Whole(t, kind) \in SUBSET DOMAIN t
  BY DEF Whole, At
<1>3. Min(Whole(t, kind)) \in Whole(t, kind)
  BY <1>1, <1>2, LinesOfText, HasMinimum
<1> QED  BY <1>1, <1>3 DEF Event

LEMMA EventsStartApart ==
    ASSUME NEW t \in Seq(Line), NEW e \in Proposed(t)
    PROVE  e.at \in DOMAIN t /\ e = StartingAt(t, e.at)
<1>1. CASE e \in Placements(t)
  <2>1. PICK s \in UNION {SectionsOf(t, h) : h \in Selected(t)} :
            e = Event("PLACE_PENDING_ORDER", s, OrderAt(t, s))
    BY <1>1 DEF Placements
  <2>2. s \in DOMAIN t /\ t[s].kind = "SIDE"
    BY DEF SectionsOf, At
  <2> QED  BY <2>1, <2>2 DEF Event, StartingAt
<1>2. ASSUME NEW i \in Whole(t, "TRIGGERED"), e = Event("MARK_ORDER_TRIGGERED", i, t[i].arg)
      PROVE  e.at \in DOMAIN t /\ e = StartingAt(t, e.at)
  BY <1>2 DEF Whole, At, Event, StartingAt
<1>3. ASSUME NEW i \in Whole(t, "DELETE"), e = Event("CANCEL_PENDING_ORDER", i, t[i].arg)
      PROVE  e.at \in DOMAIN t /\ e = StartingAt(t, e.at)
  BY <1>3 DEF Whole, At, Event, StartingAt
<1>4. CASE e \in Merged(t, "END", "END_SESSION", None)
  <2>1. e.at \in Whole(t, "END") /\ e = Event("END_SESSION", e.at, None)
    BY <1>4, MergedAtLine
  <2> QED  BY <2>1 DEF Whole, At, StartingAt
<1>5. CASE e \in Merged(t, "BREAK_EVEN", "RECORD_TRADE_RESULT", "BREAK_EVEN")
  <2>1. e.at \in Whole(t, "BREAK_EVEN")
        /\ e = Event("RECORD_TRADE_RESULT", e.at, "BREAK_EVEN")
    BY <1>5, MergedAtLine
  <2> QED  BY <2>1 DEF Whole, At, StartingAt
<1>6. CASE IsResult(t) /\ e = Event("RECORD_TRADE_RESULT", 1, t[1].arg)
  <2>1. 1 \in DOMAIN t /\ t[1].kind = "RESULT"
    BY <1>6 DEF IsResult, Has, At
  <2> QED  BY <1>6, <2>1 DEF Event, StartingAt
<1>7. e \in Placements(t) \/ e \in StatusEvents(t)
  BY DEF Proposed
<1> QED  BY <1>1, <1>2, <1>3, <1>4, <1>5, <1>6, <1>7 DEF StatusEvents

\* The events of a text in the order in which they start, each of them once.
LEMMA EventsInOrder ==
    ASSUME NEW t \in Seq(Line)
    PROVE  /\ \A k \in DOMAIN Ordered(t) : Ordered(t)[k] \in Proposed(t)
           /\ \A j, k \in DOMAIN Ordered(t) : j < k => Ordered(t)[j].at < Ordered(t)[k].at
           /\ \A e \in Proposed(t) : \E k \in DOMAIN Ordered(t) : Ordered(t)[k] = e
<1> DEFINE P == Proposed(t)
           S == {e.at : e \in P}
           at == InOrder(S)
           list == [k \in DOMAIN at |-> CHOOSE e \in P : e.at = at[k]]
<1>1. \A e \in P : e.at \in DOMAIN t /\ e = StartingAt(t, e.at)
  BY EventsStartApart
<1>2. S \in SUBSET DOMAIN t
  BY <1>1
<1>3. S \in SUBSET Nat /\ IsFiniteSet(S)
  BY <1>2, LinesOfText
<1>4. /\ at \in Seq(S)
      /\ \A i, j \in DOMAIN at : i < j => at[i] < at[j]
      /\ \A x \in S : \E k \in DOMAIN at : at[k] = x
  BY <1>3, InOrderLists
<1>5. Ordered(t) = list
  BY DEF Ordered, ByStart
<1> HIDE DEF at, P
<1>6. ASSUME NEW k \in DOMAIN at PROVE list[k] \in P /\ list[k].at = at[k]
  <2>1. at[k] \in S
    BY <1>4
  <2>2. \E e \in P : e.at = at[k]
    BY <2>1
  <2> QED  BY <2>2
<1>7. ASSUME NEW e \in P PROVE \E k \in DOMAIN at : list[k] = e
  <2>1. PICK k \in DOMAIN at : at[k] = e.at
    BY <1>4
  <2>2. list[k] \in P /\ list[k].at = e.at
    BY <1>6, <2>1
  <2>3. list[k] = e
    BY <1>1, <2>2
  <2> QED  BY <2>3
<1>8. DOMAIN list = DOMAIN at
  OBVIOUS
<1> HIDE DEF list
<1> QED  BY <1>4, <1>5, <1>6, <1>7, <1>8 DEF P

-----------------------------------------------------------------------------
(* parse. *)

LEMMA EventsOfText ==
    ASSUME NEW t \in Seq(Line)
    PROVE  /\ Parse(t).class = Classification(t)
           /\ \/ /\ Parse(t).events = <<>> /\ Parse(t).status = "PROPOSED"
                 /\ Classification(t) \in Silent
              \/ /\ Classification(t) = "NO_TRADING_DAY"
                 /\ Parse(t).events = <<Event("NO_TRADING_DAY", 1, None)>>
              \/ /\ Parse(t).events = <<Event("REQUEST_MANUAL_REVIEW", 1, None)>>
                 /\ Parse(t).status = "MANUAL_REVIEW"
              \/ Parse(t).events = Ordered(t) /\ ~NeedsReview(t)
<1>1. CASE Classification(t) \in Silent
  BY <1>1 DEF Parse, ReadAs
<1>2. CASE Classification(t) = "NO_TRADING_DAY"
  BY <1>2 DEF Parse, ReadAs, Silent
<1>3. CASE Classification(t) \notin Silent /\ Classification(t) # "NO_TRADING_DAY"
  BY <1>3 DEF Parse, ReadAs
<1> QED  BY <1>1, <1>2, <1>3

\* A text of a silent class has a phrase that makes it one.
LEMMA SilentTexts ==
    ASSUME NEW t \in Seq(Line), Classification(t) \in Silent
    PROVE  \E kind \in {"PROMOTION", "EDUCATIONAL", "RISK"} : Has(t, kind)
<1> DEFINE R == {r \in DOMAIN Rules(t) : Rules(t)[r][1]}
<1>1. DOMAIN Rules(t) = 1 .. 10
  BY DEF Rules
<1>2. 10 \in R
  <2>1. Rules(t)[10] = <<TRUE, "UNKNOWN">>
    BY DEF Rules
  <2>2. Rules(t)[10][1] = TRUE
    BY <2>1
  <2> QED  BY <1>1, <2>2
<1>3. Min(R) \in R
  <2>1. R \in SUBSET Nat /\ R # {}
    BY <1>1, <1>2
  <2> HIDE DEF R
  <2> QED  BY <2>1, HasMinimum
<1>4. Classification(t) = Rules(t)[Min(R)][2]
  BY DEF Classification
<1>5. PICK r \in 1 .. 10 : Rules(t)[r][1] /\ Rules(t)[r][2] \in Silent
  BY <1>1, <1>3, <1>4
<1> QED  BY <1>5 DEF Rules, Silent

-----------------------------------------------------------------------------
(* The invariant and the properties. *)

IInv == text \in Seq(Line) /\ parsed = Parse(text)

\* At every length of the message, what it was read as is what parse makes of all
\* of it: an edit is read afresh.
THEOREM Invariance == Spec => []IInv
<1>1. Init => IInv
  BY DEF Init, IInv
<1>2. IInv /\ [Next]_vars => IInv'
  <2> SUFFICES ASSUME IInv, [Next]_vars PROVE IInv'
    OBVIOUS
  <2>1. ASSUME NEW f \in Fragments, Write(f) PROVE IInv'
    BY <2>1, ParserAssumption DEF IInv, Write
  <2>2. CASE UNCHANGED vars
    BY <2>2 DEF IInv, vars
  <2> QED  BY <2>1, <2>2 DEF Next
<1> QED  BY <1>1, <1>2, PTL DEF Spec

\* An order that is placed is that of a whole section of a selected block, and
\* the providers are clear.
LEMMA PlacedSection ==
    ASSUME IInv, NEW e \in Placed
    PROVE  /\ ~ProvidersUnclear(text)
           /\ \E h \in Selected(text) :
                  e.at \in SectionsOf(text, h) /\ e.what = OrderAt(text, e.at)
<1>1. text \in Seq(Line) /\ parsed = Parse(text)
  BY DEF IInv
<1>2. PICK k \in DOMAIN parsed.events : e = parsed.events[k] /\ e.type = "PLACE_PENDING_ORDER"
  BY DEF Placed, ToSet
<1>3. parsed.events = Ordered(text) /\ ~NeedsReview(text)
  <2>1. parsed.events # <<>>
    BY <1>2
  <2>2. parsed.events # <<Event("NO_TRADING_DAY", 1, None)>>
    BY <1>2 DEF Event
  <2>3. parsed.events # <<Event("REQUEST_MANUAL_REVIEW", 1, None)>>
    BY <1>2 DEF Event
  <2> QED  BY <1>1, <2>1, <2>2, <2>3, EventsOfText
<1>4. e \in Proposed(text)
  BY <1>1, <1>2, <1>3, EventsInOrder
<1>5. e \in Placements(text)
  <2>1. e \notin Merged(text, "END", "END_SESSION", None)
    BY <1>1, <1>2, MergedAtLine DEF Event
  <2>2. e \notin Merged(text, "BREAK_EVEN", "RECORD_TRADE_RESULT", "BREAK_EVEN")
    BY <1>1, <1>2, MergedAtLine DEF Event
  <2>3. e \notin StatusEvents(text)
    BY <1>2, <2>1, <2>2 DEF StatusEvents, Event
  <2> QED  BY <1>4, <2>3 DEF Proposed
<1>6. PICK s \in UNION {SectionsOf(text, h) : h \in Selected(text)} :
          e = Event("PLACE_PENDING_ORDER", s, OrderAt(text, s))
  BY <1>5 DEF Placements
<1>7. e.at = s /\ e.what = OrderAt(text, s)
  BY <1>6 DEF Event
<1> QED  BY <1>3, <1>6, <1>7 DEF NeedsReview

\* The section at s is what stands under it, down to the next side or header.
LEMMA SectionIsUnder ==
    ASSUME text \in Seq(Line), NEW s \in At(text, "SIDE"), NEW i \in DOMAIN text,
           text[i].kind # "SIDE"
    PROVE  i \in Section(text, s) <=> Under(i, s)
<1> DEFINE ends == Headers(text) \cup At(text, "SIDE")
<1>1. /\ DOMAIN text = 1 .. Len(text) /\ Len(text) \in Nat
      /\ s \in DOMAIN text /\ text[s].kind = "SIDE"
  BY DEF At
<1>2. s \in Nat /\ i \in Nat /\ i # s
  BY <1>1
<1>3. \A e : e \in ends <=> e \in DOMAIN text /\ text[e].kind \in {"SIDE", "HEADER"}
  BY DEF Headers, At
<1>4. i \in Section(text, s) <=> s <= i /\ \A e \in ends : e > s => i < e
  BY DEF Section, Until
<1>5. ASSUME s < i PROVE (\A e \in ends : e > s => i < e) <=> Under(i, s)
  <2>1. ASSUME \A e \in ends : e > s => i < e, NEW j \in s + 1 .. i
        PROVE  text[j].kind \notin {"SIDE", "HEADER"}
    <3>1. j \in DOMAIN text /\ j > s /\ ~(i < j)
      BY <1>1, <1>2, <1>5
    <3> QED  BY <1>3, <2>1, <3>1
  <2>2. ASSUME Under(i, s), NEW e \in ends, e > s PROVE i < e
    <3>1. e \in Nat /\ e \in DOMAIN text /\ text[e].kind \in {"SIDE", "HEADER"}
      BY <1>1, <1>3
    <3>2. e \notin s + 1 .. i
      BY <2>2, <3>1 DEF Under
    <3> QED  BY <1>2, <2>2, <3>1, <3>2
  <2> QED  BY <1>5, <2>1, <2>2 DEF Under
<1>6. Under(i, s) => s < i
  BY DEF Under
<1> HIDE DEF ends
<1> QED  BY <1>2, <1>4, <1>5, <1>6

\* Each price of a placed order stands under its own side line, and no take
\* profit there is left out.
THEOREM WholeOrders == Spec => []OrdersAreWhole
<1>1. IInv => OrdersAreWhole
  <2> SUFFICES ASSUME IInv, NEW e \in Placed
               PROVE  LET Stands(kind, v) ==
                              \E i \in At(text, kind) : text[i].arg = v /\ Under(i, e.at)
                      IN  /\ text[e.at].kind = "SIDE" /\ text[e.at].arg = e.what.side
                          /\ Stands("ENTRY", e.what.entry)
                          /\ Stands("SL", e.what.stopLoss)
                          /\ \A v \in ToSet(e.what.takeProfits) : Stands("TP", v)
                          /\ Len(e.what.takeProfits)
                               = Cardinality({i \in At(text, "TP") : Under(i, e.at)})
    BY DEF OrdersAreWhole
  <2> DEFINE s == e.at
  <2>1. PICK h \in Selected(text) : s \in SectionsOf(text, h) /\ e.what = OrderAt(text, s)
    BY PlacedSection
  <2>2. text \in Seq(Line) /\ s \in At(text, "SIDE") /\ Complete(text, s)
    BY <2>1 DEF IInv, SectionsOf
  <2> HIDE DEF s
  <2>3. ASSUME NEW kind \in {"ENTRY", "SL", "TP"}
        PROVE  Lines(text, s, kind) = {i \in At(text, kind) : Under(i, s)}
    BY <2>2, SectionIsUnder DEF Lines, At
  <2>4. ASSUME NEW kind \in {"ENTRY", "SL", "TP"}, NEW k \in DOMAIN Listed(text, s, kind)
        PROVE  \E i \in At(text, kind) : text[i].arg = Listed(text, s, kind)[k] /\ Under(i, s)
    <3>1. PICK i \in Lines(text, s, kind) : Listed(text, s, kind)[k] = text[i].arg
      BY <2>2, ListedLines
    <3> QED  BY <2>3, <3>1
  <2>5. ASSUME NEW kind \in {"ENTRY", "SL", "TP"} PROVE 1 \in DOMAIN Listed(text, s, kind)
    <3>1. Listed(text, s, kind) # <<>>
      BY <2>2 DEF Complete
    <3> QED  BY <2>2, <3>1, ListedLines
  <2>6. /\ e.what.side = text[s].arg /\ e.what.entry = Listed(text, s, "ENTRY")[1]
        /\ e.what.stopLoss = Listed(text, s, "SL")[1]
        /\ e.what.takeProfits = Listed(text, s, "TP")
    BY <2>1 DEF OrderAt, s
  <2>7. text[s].kind = "SIDE"
    BY <2>2 DEF At
  <2>8. Len(e.what.takeProfits) = Cardinality({i \in At(text, "TP") : Under(i, s)})
    BY <2>2, <2>3, <2>6, ListedLines
  <2>9. \A v \in ToSet(e.what.takeProfits) :
            \E i \in At(text, "TP") : text[i].arg = v /\ Under(i, s)
    BY <2>4, <2>6 DEF ToSet
  <2> QED  BY <2>4, <2>5, <2>6, <2>7, <2>8, <2>9 DEF s
<1> QED  BY Invariance, <1>1, PTL

\* A line of a block that is no header has the header of the block above it.
LEMMA HeaderOfBlock ==
    ASSUME text \in Seq(Line), NEW h \in Headers(text), NEW s \in Block(text, h), s # h
    PROVE  HeaderOf(s) = h
<1> DEFINE S == {g \in Headers(text) : g < s}
<1>1. /\ Headers(text) \in SUBSET Nat /\ s \in Nat /\ h <= s
      /\ \A e \in Headers(text) : e > h => s < e
  <2>1. Headers(text) \in SUBSET DOMAIN text /\ s \in DOMAIN text /\ DOMAIN text \in SUBSET Nat
    BY LinesOfText DEF Headers, At, Block, Until
  <2> QED  BY <2>1 DEF Block, Until
<1>2. h \in S /\ \A g \in S : h >= g
  BY <1>1
<1>3. \A x \in S : (\A g \in S : x >= g) => x = h
  BY <1>1, <1>2
<1> QED  BY <1>2, <1>3 DEF HeaderOf, Max

\* Orders of several providers are placed once and only if all of them agree;
\* those of a configured provider are its own.
THEOREM OneProvider == Spec => []ProvidersAgree
<1>1. IInv => ProvidersAgree
  <2> SUFFICES ASSUME IInv, NEW e \in Placed
               PROVE  IF Preferred # None THEN text[HeaderOf(e.at)].arg = Preferred
                      ELSE /\ \A f \in Placed : HeaderOf(f.at) = HeaderOf(e.at)
                           /\ \A h \in Headers(text) :
                                \E s \in Block(text, h) :
                                    text[s].kind = "SIDE" /\ OrderAt(text, s) = e.what
    BY DEF ProvidersAgree
  <2>1. text \in Seq(Line)
    BY DEF IInv
  <2>2. ASSUME NEW f \in Placed
        PROVE  \E h \in Selected(text) : /\ f.at \in SectionsOf(text, h) /\ HeaderOf(f.at) = h
                                         /\ f.what = OrderAt(text, f.at)
    <3>1. PICK h \in Selected(text) :
              f.at \in SectionsOf(text, h) /\ f.what = OrderAt(text, f.at)
      BY PlacedSection
    <3>2. /\ h \in Headers(text) /\ f.at \in Block(text, h)
          /\ text[f.at].kind = "SIDE" /\ text[h].kind = "HEADER"
      BY <3>1 DEF Selected, SectionsOf, Headers, At
    <3> QED  BY <2>1, <3>1, <3>2, HeaderOfBlock
  <2>3. PICK g \in Selected(text) : /\ e.at \in SectionsOf(text, g) /\ HeaderOf(e.at) = g
                                    /\ e.what = OrderAt(text, e.at)
    BY <2>2
  <2>4. CASE Preferred # None
    BY <2>3, <2>4 DEF Selected
  <2>5. CASE Preferred = None
    <3>1. \A f \in Placed : HeaderOf(f.at) = HeaderOf(e.at)
      BY <2>2, <2>3, <2>5 DEF Selected
    <3>2. ASSUME NEW h \in Headers(text)
          PROVE  \E s \in Block(text, h) :
                     text[s].kind = "SIDE" /\ OrderAt(text, s) = e.what
      <4>1. Orders(text, g) = Orders(text, h)
        BY <2>3, <2>5, PlacedSection DEF ProvidersUnclear, Compatible, Selected
      <4>2. PICK s \in SectionsOf(text, h) : OrderAt(text, s) = e.what
        BY <2>1, <2>3, <4>1, OrdersOfSections
      <4> QED  BY <4>2 DEF SectionsOf, At
    <3> QED  BY <2>5, <3>1, <3>2
  <2> QED  BY <2>4, <2>5
<1> QED  BY Invariance, <1>1, PTL

\* Instructions come in the order of the text, and every trigger and deletion of a
\* text that is acted on has its event.  The end of a session is not spoken of: it has
\* its place in the text as well, and EndSessionComesLast is not true.
THEOREM TextOrder == Spec => []EventsFollowTheText
<1>1. IInv => EventsFollowTheText
  <2> SUFFICES ASSUME IInv PROVE EventsFollowTheText
    OBVIOUS
  <2>1. text \in Seq(Line) /\ parsed = Parse(text)
    BY DEF IInv
  <2>2. ASSUME NEW j \in DOMAIN parsed.events, NEW k \in DOMAIN parsed.events, j < k
        PROVE  parsed.events[j].at < parsed.events[k].at
    <3>1. ASSUME NEW x, parsed.events = <<x>> PROVE FALSE
      BY <2>2, <3>1
    <3>2. parsed.events # <<>>
      BY <2>2
    <3>3. parsed.events = Ordered(text)
      BY <2>1, <3>1, <3>2, EventsOfText
    <3> QED  BY <2>1, <2>2, <3>3, EventsInOrder
  <2>3. ASSUME parsed.status # "MANUAL_REVIEW",
               parsed.class \notin Silent \cup {"NO_TRADING_DAY"},
               NEW i \in Whole(text, "TRIGGERED") \cup Whole(text, "DELETE")
        PROVE  \E k \in DOMAIN parsed.events : parsed.events[k].at = i
    <3>1. parsed.events = Ordered(text)
      BY <2>1, <2>3, EventsOfText
    <3>2. \E e \in Proposed(text) : e.at = i
      <4>1. CASE i \in Whole(text, "TRIGGERED")
        <5>1. Event("MARK_ORDER_TRIGGERED", i, text[i].arg) \in Proposed(text)
          BY <4>1 DEF Proposed, StatusEvents
        <5> QED  BY <5>1 DEF Event
      <4>2. CASE i \in Whole(text, "DELETE")
        <5>1. Event("CANCEL_PENDING_ORDER", i, text[i].arg) \in Proposed(text)
          BY <4>2 DEF Proposed, StatusEvents
        <5> QED  BY <5>1 DEF Event
      <4> QED  BY <2>3, <4>1, <4>2
    <3> QED  BY <2>1, <3>1, <3>2, EventsInOrder
  <2> QED  BY <2>2, <2>3 DEF EventsFollowTheText, Instructions
<1> QED  BY Invariance, <1>1, PTL

\* Only an advertisement, a lesson or advice comes to nothing.
THEOREM NoSilence == Spec => []SilenceIsDeliberate
<1>1. IInv => SilenceIsDeliberate
  <2> SUFFICES ASSUME IInv, parsed.events = <<>>
               PROVE  \E kind \in {"PROMOTION", "EDUCATIONAL", "RISK"} : Has(text, kind)
    BY DEF SilenceIsDeliberate
  <2>1. text \in Seq(Line) /\ parsed = Parse(text)
    BY DEF IInv
  <2>2. Ordered(text) = <<>> => NeedsReview(text)
    <3>1. ASSUME NEW e \in Proposed(text) PROVE Ordered(text) # <<>>
      <4>1. \E k \in DOMAIN Ordered(text) : Ordered(text)[k] = e
        BY <2>1, EventsInOrder
      <4> QED  BY <4>1
    <3> QED  BY <3>1 DEF NeedsReview
  <2>3. \A x : <<x>> # <<>>
    OBVIOUS
  <2>4. Classification(text) \in Silent
    BY <2>1, <2>2, <2>3, EventsOfText
  <2> QED  BY <2>1, <2>4, SilentTexts
<1> QED  BY Invariance, <1>1, PTL
=============================================================================
