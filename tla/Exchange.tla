------------------------------ MODULE Exchange ------------------------------
(***************************************************************************)
(* What the matching engine promises: a central limit order book with      *)
(* price-time priority.  The book is a set of orders; there are no levels, *)
(* no queues and no accounts.  An order that arrives trades, at the        *)
(* resting order's price, with the best resting order it crosses, the      *)
(* oldest among equals, for as long as there is one; what is left of a     *)
(* limit order rests and what is left of a market order is dropped.        *)
(* Engine implements this specification (EngineRefinement).                *)
(***************************************************************************)
EXTENDS Integers

CONSTANTS Users, Prices, Quantities, MaxOrders

VARIABLES
  resting,    \* the orders in the book
  incoming,   \* the order being matched, or None
  lastPrice,  \* the price of the last trade
  count       \* orders received

vars == <<resting, incoming, lastPrice, count>>

Sides == {"Bid", "Ask"}

Order ==
  [id : 1..MaxOrders, user : Users, side : Sides, type : {"LIMIT", "MARKET"},
   price : Prices \cup {0}, remaining : Nat]

None == [id |-> 0]

Init ==
  /\ resting = {}
  /\ incoming = None
  /\ lastPrice = 0
  /\ count = 0

\* An order with this arrival number; it may also be turned away.
Arrive(user, side, type, price, quantity) ==
  /\ incoming = None
  /\ count < MaxOrders
  /\ count' = count + 1
  /\ incoming' \in {None, [id |-> count', user |-> user, side |-> side, type |-> type,
                           price |-> price, remaining |-> quantity]}
  /\ UNCHANGED <<resting, lastPrice>>

Crossing ==
  {r \in resting :
     /\ r.side # incoming.side
     /\ \/ incoming.type = "MARKET"
        \/ incoming.side = "Bid" /\ r.price <= incoming.price
        \/ incoming.side = "Ask" /\ r.price >= incoming.price}

\* r goes before s: a better price, or the same price and an older order.
Before(r, s) ==
  \/ IF r.side = "Bid" THEN r.price > s.price ELSE r.price < s.price
  \/ r.price = s.price /\ r.id < s.id

Trade ==
  /\ incoming # None
  /\ incoming.remaining > 0
  /\ \E r \in Crossing :
       /\ \A s \in Crossing \ {r} : Before(r, s)
       /\ LET quantity == IF r.remaining < incoming.remaining
                          THEN r.remaining ELSE incoming.remaining
              left     == [r EXCEPT !.remaining = @ - quantity]
          IN
          /\ resting' = (resting \ {r}) \cup {l \in {left} : l.remaining > 0}
          /\ incoming' = [incoming EXCEPT !.remaining = @ - quantity]
       /\ lastPrice' = r.price
  /\ UNCHANGED count

Settle ==
  /\ incoming # None
  /\ incoming.remaining = 0 \/ Crossing = {}
  /\ resting' = resting \cup
       {o \in {incoming} : o.type = "LIMIT" /\ o.remaining > 0}
  /\ incoming' = None
  /\ UNCHANGED <<lastPrice, count>>

Cancel(r) ==
  /\ incoming = None
  /\ resting' = resting \ {r}
  /\ UNCHANGED <<incoming, lastPrice, count>>

Next ==
  \/ \E user \in Users, side \in Sides, quantity \in Quantities :
       \/ \E price \in Prices : Arrive(user, side, "LIMIT", price, quantity)
       \/ Arrive(user, side, "MARKET", 0, quantity)
  \/ Trade
  \/ Settle
  \/ \E r \in resting : Cancel(r)

Spec == Init /\ [][Next]_vars

-----------------------------------------------------------------------------

\* Once an order has been matched, no bid in the book crosses an ask.
Uncrossed ==
  incoming = None =>
    \A b, a \in resting : b.side = "Bid" /\ a.side = "Ask" => b.price < a.price
=============================================================================
