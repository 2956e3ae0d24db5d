---------------------------- MODULE MessageParser ---------------------------
(***************************************************************************)
(* The deterministic parser: what events a message is read as, and when it *)
(* is left to manual review.                                               *)
(*                                                                         *)
(* A text is the sequence of what the patterns find in it: provider        *)
(* headers, the lines of order sections, phrases, and anything else.       *)
(* Classification searches the text with its white space and invisible     *)
(* characters normalised, status events are searched line by line in the   *)
(* original; a split phrase is one that only the first finds.              *)
(***************************************************************************)
EXTENDS Naturals, FiniteSetsExt, SequencesExt

CONSTANTS
    Providers,
    Preferred,     \* the configured provider, or None
    Values,        \* prices
    Instruments,
    None,
    Fragments,     \* what a message is written from: sequences of lines
    MaxFragments   \* bound on them

Side == {"BUY", "SELL"}

\* Each kind of line with what it names.
Line ==
    [kind : {"HEADER"}, arg : Providers, split : {FALSE}]
    \cup [kind : {"SIDE"}, arg : Side, split : {FALSE}]
    \cup [kind : {"INSTRUMENT"}, arg : Instruments, split : {FALSE}]
    \cup [kind : {"ENTRY", "SL", "TP"}, arg : Values, split : {FALSE}]
    \cup [kind : {"TRIGGERED", "DELETE"}, arg : Side, split : BOOLEAN]
    \cup [kind : {"END", "BREAK_EVEN"}, arg : {None}, split : BOOLEAN]
    \cup [kind : {"RESULT"}, arg : {"TP", "SL"}, split : {FALSE}]
    \cup [kind : {"VAGUE_DELETE", "NO_TRADING", "RISK", "PROMOTION",
                  "EDUCATIONAL", "OTHER"}, arg : {None}, split : {FALSE}]

ASSUME ParserAssumption ==
    /\ None \notin Providers /\ None \notin Instruments
    /\ Preferred \in Providers \cup {None}
    /\ Fragments \subseteq Seq(Line) /\ MaxFragments \in Nat

VARIABLES
    text,      \* the message as far as it is written
    length,    \* fragments it is written from
    parsed     \* what it is read as

vars == <<text, length, parsed>>

-----------------------------------------------------------------------------
(* classify: the first rule that holds. *)

At(t, kind) == {i \in DOMAIN t : t[i].kind = kind}
Has(t, kind) == At(t, kind) # {}

\* The lines in which the phrase stands whole.
Whole(t, kind) == {i \in At(t, kind) : ~t[i].split}

\* The whole message is one word.
IsResult(t) == Len(t) = 1 /\ Has(t, "RESULT")

Rules(t) ==
    << <<Has(t, "NO_TRADING"), "NO_TRADING_DAY">>,
       <<Has(t, "RISK"), "RISK_ADVISORY">>,
       <<Has(t, "PROMOTION"), "PROMOTION">>,
       <<Has(t, "EDUCATIONAL"), "EDUCATIONAL">>,
       <<Has(t, "END"), "SESSION_CONTROL">>,
       <<IsResult(t) \/ Has(t, "BREAK_EVEN"), "ORDER_STATUS">>,
       <<Has(t, "HEADER"), "TRADE_INSTRUCTION">>,
       <<Has(t, "TRIGGERED"), "ORDER_STATUS">>,
       <<Has(t, "DELETE"), "TRADE_INSTRUCTION">>,
       <<TRUE, "UNKNOWN">> >>

Classification(t) ==
    LET rules == Rules(t) IN rules[Min({r \in DOMAIN rules : rules[r][1]})][2]

\* What such a message says is never acted on.
Silent == {"PROMOTION", "EDUCATIONAL", "RISK_ADVISORY"}

-----------------------------------------------------------------------------
(* Provider blocks and the order sections in them. *)

Headers(t) == At(t, "HEADER")

\* The indices from i up to the next of `ends`.
Until(t, i, ends) == {j \in DOMAIN t : i <= j /\ \A e \in ends : e > i => j < e}

Block(t, h) == Until(t, h, Headers(t))

\* The bug of a section that goes on to the end of its block.
Section_Fault(t, s) == Until(t, s, Headers(t))

Section(t, s) == Until(t, s, Headers(t) \cup At(t, "SIDE"))

\* The numbers of S in ascending order.
InOrder(S) ==
    [k \in 1 .. Cardinality(S) |->
        CHOOSE n \in S : Cardinality({m \in S : m < n}) = k - 1]

\* The values of the section at s, in order.
Listed(t, s, kind) ==
    LET at == InOrder(Section(t, s) \cap At(t, kind))
    IN  [k \in DOMAIN at |-> t[at[k]].arg]

\* A section without an entry, a stop loss or a take profit is dropped.
Complete(t, s) == \A kind \in {"ENTRY", "SL", "TP"} : Listed(t, s, kind) # <<>>

\* The instrument is named anywhere, once for all blocks.
Instrument(t) ==
    IF Has(t, "INSTRUMENT") THEN t[Min(At(t, "INSTRUMENT"))].arg ELSE None

OrderAt(t, s) ==
    [instrument |-> Instrument(t), side |-> t[s].arg,
     entry |-> Listed(t, s, "ENTRY")[1], stopLoss |-> Listed(t, s, "SL")[1],
     takeProfits |-> Listed(t, s, "TP")]

SectionsOf(t, h) == {s \in Block(t, h) \cap At(t, "SIDE") : Complete(t, s)}

\* _canonical_provider_block.
Orders(t, h) ==
    LET at == InOrder(SectionsOf(t, h))
    IN  [k \in DOMAIN at |-> OrderAt(t, at[k])]

\* The bug of a comparison that only looks at the sides.
Compatible_Fault(t) ==
    \A g, h \in Headers(t) :
        {o.side : o \in ToSet(Orders(t, g))} = {o.side : o \in ToSet(Orders(t, h))}

Compatible(t) == \A g, h \in Headers(t) : Orders(t, g) = Orders(t, h)

\* The bug of a parser that takes every block.
Selected_Fault(t) ==
    {h \in Headers(t) : Preferred = None \/ t[h].arg = Preferred}

\* Every block of the configured provider, or the first one.
Selected(t) ==
    {h \in Headers(t) : IF Preferred = None THEN h = Min(Headers(t))
                        ELSE t[h].arg = Preferred}

-----------------------------------------------------------------------------
(* parse. *)

\* An event starts where its first evidence does.
Event(type, at, what) == [type |-> type, at |-> at, what |-> what]

Placements(t) ==
    {Event("PLACE_PENDING_ORDER", s, OrderAt(t, s)) :
        s \in UNION {SectionsOf(t, h) : h \in Selected(t)}}

\* However often a session is ended or broken even, it makes one event.
Merged(t, kind, type, what) ==
    IF Whole(t, kind) = {} THEN {} ELSE {Event(type, Min(Whole(t, kind)), what)}

StatusEvents(t) ==
    {Event("MARK_ORDER_TRIGGERED", i, t[i].arg) : i \in Whole(t, "TRIGGERED")}
    \cup {Event("CANCEL_PENDING_ORDER", i, t[i].arg) : i \in Whole(t, "DELETE")}
    \cup Merged(t, "END", "END_SESSION", None)
    \cup Merged(t, "BREAK_EVEN", "RECORD_TRADE_RESULT", "BREAK_EVEN")
    \cup (IF IsResult(t) THEN {Event("RECORD_TRADE_RESULT", 1, t[1].arg)} ELSE {})

Proposed(t) == Placements(t) \cup StatusEvents(t)

\* Events by where they start.
ByStart(events) ==
    LET at == InOrder({e.at : e \in events})
    IN  [k \in DOMAIN at |-> CHOOSE e \in events : e.at = at[k]]

\* The bug of events in the order in which they are found.
Ordered_Fault(t) == ByStart(Placements(t)) \o ByStart(StatusEvents(t))

\* _sort_events_by_evidence.
Ordered(t) == ByStart(Proposed(t))

\* A delete that names no order, and none that does.
AmbiguousDelete(t) ==
    /\ Whole(t, "DELETE") = {}
    /\ Has(t, "DELETE") \/ Has(t, "VAGUE_DELETE")

ProvidersUnclear(t) ==
    /\ Headers(t) # {}
    /\ IF Preferred = None THEN ~Compatible(t) ELSE Selected(t) = {}

\* The bug of a parser that lets messages of unknown kind pass.
NeedsReview_Fault(t) ==
    \/ ProvidersUnclear(t)
    \/ AmbiguousDelete(t)
    \/ Proposed(t) = {} /\ Classification(t) # "UNKNOWN"

NeedsReview(t) ==
    \/ ProvidersUnclear(t)
    \/ AmbiguousDelete(t)
    \/ Proposed(t) = {}

NeedsContext(e) ==
    \/ e.type = "PLACE_PENDING_ORDER" /\ e.what.instrument = None
    \/ e.type = "RECORD_TRADE_RESULT"

ReadAs(t, events, status) ==
    [class |-> Classification(t), events |-> events, status |-> status]

Parse(t) ==
    CASE Classification(t) \in Silent -> ReadAs(t, <<>>, "PROPOSED")
      [] Classification(t) = "NO_TRADING_DAY" ->
             ReadAs(t, <<Event("NO_TRADING_DAY", 1, None)>>, "PROPOSED")
      [] OTHER ->
             IF NeedsReview(t)
             THEN ReadAs(t, <<Event("REQUEST_MANUAL_REVIEW", 1, None)>>, "MANUAL_REVIEW")
             ELSE ReadAs(t, Ordered(t),
                         IF \E e \in Proposed(t) : NeedsContext(e)
                         THEN "CONTEXT_REQUIRED" ELSE "PROPOSED")

Init ==
    /\ text = <<>>
    /\ length = 0
    /\ parsed = Parse(<<>>)

\* The author writes one fragment more, in an edit or before posting.
Write(f) ==
    /\ length < MaxFragments
    /\ text' = text \o f
    /\ length' = length + 1
    /\ parsed' = Parse(text')

Next == \E f \in Fragments : Write(f)

Spec == Init /\ [][Next]_vars

-----------------------------------------------------------------------------
(* Properties. *)

Placed == {e \in ToSet(parsed.events) : e.type = "PLACE_PENDING_ORDER"}

\* The line stands after the side line s, with no side and no header in between.
Under(i, s) ==
    i > s /\ \A j \in s + 1 .. i : text[j].kind \notin {"SIDE", "HEADER"}

\* No order takes a price from another section or another provider: each of its
\* prices stands under its own side line, and no take profit there is left out.
OrdersAreWhole ==
    \A e \in Placed :
        LET Stands(kind, v) ==
                \E i \in At(text, kind) : text[i].arg = v /\ Under(i, e.at)
        IN  /\ text[e.at].kind = "SIDE" /\ text[e.at].arg = e.what.side
            /\ Stands("ENTRY", e.what.entry)
            /\ Stands("SL", e.what.stopLoss)
            /\ \A v \in ToSet(e.what.takeProfits) : Stands("TP", v)
            /\ Len(e.what.takeProfits)
                 = Cardinality({i \in At(text, "TP") : Under(i, e.at)})

\* The last header above the line.
HeaderOf(s) == Max({h \in Headers(text) : h < s})

\* Unless one is configured, every provider that is named gives the very orders
\* that are placed, and they are placed once, not once per provider; otherwise
\* they are the configured one's.
ProvidersAgree ==
    \A e \in Placed :
        IF Preferred # None THEN text[HeaderOf(e.at)].arg = Preferred
        ELSE /\ \A f \in Placed : HeaderOf(f.at) = HeaderOf(e.at)
             /\ \A h \in Headers(text) :
                  \E s \in Block(text, h) :
                      text[s].kind = "SIDE" /\ OrderAt(text, s) = e.what

Instructions == {k \in DOMAIN parsed.events : parsed.events[k].type # "END_SESSION"}

\* Instructions come in the order of the text, placements among the status phrases (a
\* replacement after the deletion it follows, never before), each trigger and
\* each deletion that is acted on once.  Where the end of the session belongs among
\* them is EndSessionComesLast.
EventsFollowTheText ==
    /\ \A j, k \in Instructions :
         j < k => parsed.events[j].at < parsed.events[k].at
    /\ parsed.status # "MANUAL_REVIEW" /\ parsed.class \notin Silent \cup {"NO_TRADING_DAY"} =>
         \A i \in Whole(text, "TRIGGERED") \cup Whole(text, "DELETE") :
             \E k \in DOMAIN parsed.events : parsed.events[k].at = i

\* The explicit events of a message are executed before the end of the session that it
\* announces, wherever in the message that stands.  Not true: _sort_events_by_evidence
\* gives the end of the session the place of its phrase.
EndSessionComesLast ==
    \A k \in DOMAIN parsed.events :
        parsed.events[k].type = "END_SESSION" => k = Len(parsed.events)

\* A message that comes to nothing is an advertisement, a lesson or advice:
\* whatever else is not understood gets a review.
SilenceIsDeliberate ==
    parsed.events = <<>> =>
        \E kind \in {"PROMOTION", "EDUCATIONAL", "RISK"} : Has(text, kind)
=============================================================================
