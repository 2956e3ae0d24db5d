---------------------------- MODULE CancelReplace ----------------------------
(***************************************************************************)
(* What the trading state promises to the broker side, without messages,   *)
(* tables or an outbox: orders are introduced, each with at most one other *)
(* order it replaces, and their placement is held until that order is      *)
(* known to be cancelled.  Any number of orders may move in one step, as   *)
(* in one transaction.                                                     *)
(***************************************************************************)
EXTENDS Naturals, Sequences

VARIABLES life,      \* per order, where it is in its life
          replaces,  \* per order, the order it replaces, or 0
          placed     \* the orders whose placement the broker may see

vars == <<life, replaces, placed>>

Life == {"OPEN", "CANCELLING", "CANCELLED", "FILLED", "CLOSED"}

\* The states an order may be in after one in which it was in state s.
Later(s) ==
    CASE s = "OPEN"       -> Life
      [] s = "CANCELLING" -> {"CANCELLING", "CANCELLED"}
      [] s = "CANCELLED"  -> {"CANCELLED"}
      [] s = "FILLED"     -> {"FILLED", "CLOSED"}
      [] s = "CLOSED"     -> {"CLOSED"}

Init == life = <<>> /\ replaces = <<>> /\ placed = {}

\* Orders keep their identity and move forward in their lives.
Advance ==
    /\ life' \in Seq(Life)
    /\ replaces' \in Seq(Nat)
    /\ Len(life) <= Len(life')
    /\ Len(replaces') = Len(life')
    /\ \A o \in DOMAIN life : /\ life'[o] \in Later(life[o])
                              /\ replaces'[o] = replaces[o]
    /\ \A o \in DOMAIN life' \ DOMAIN life :
           replaces'[o] \in 0 .. Len(life') /\ replaces'[o] # o

\* A placement is never withdrawn, and the placement of a replacement comes
\* with or after the cancellation of the order it replaces.
Place ==
    /\ placed \subseteq placed'
    /\ placed' \subseteq DOMAIN life'
    /\ \A o \in placed' \ placed :
           replaces'[o] = 0 \/ life'[replaces'[o]] = "CANCELLED"

Next == Advance /\ Place

Spec == Init /\ [][Next]_vars

=============================================================================
