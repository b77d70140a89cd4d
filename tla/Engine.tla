------------------------------- MODULE Engine -------------------------------
(***************************************************************************)
(* The matching engine: class Engine of packages/domain/engine.ts.         *)
(*                                                                         *)
(* process() takes one input event and returns the events it caused; `outs`*)
(* holds them, in order.  Each handler is one action, except that placing  *)
(* an order is cut at the iterations of its matching loop: BeginMatch is   *)
(* onPlaceOrder up to the loop, Fill is one iteration, EndMatch is what    *)
(* follows it.  process() is synchronous, so nothing else happens while a  *)
(* taker is in the loop (Idle is a guard of every other action).           *)
(*                                                                         *)
(* Orders are numbered in order of arrival: an order's id stands for its   *)
(* orderId and for the seq that onPlaceOrder gives it when it rests.       *)
(***************************************************************************)
EXTENDS Accounts, Book

CONSTANTS
  Users, Prices, Quantities, Leverages, Margins,  \* what orders may ask for
  Amounts,          \* opening balances and deposits
  MarkPrices,       \* index prices
  MaxLeverage, MinMargin,                         \* market configuration
  MaxOrders,        \* bound: order commands
  MaxCredit,        \* bound: amount ever credited to a user
  MaxObserverSeq    \* bound: the observer's sequence numbers

ASSUME InputAssumption ==
  /\ IsFiniteSet(Users)
  /\ Prices \subseteq Nat
  /\ Quantities \subseteq Nat \ {0}
  /\ Leverages \subseteq Nat \ {0}
  /\ Margins \subseteq Nat \ {0}
  /\ Amounts \subseteq Nat
  /\ MarkPrices \subseteq Nat \ {0}
  /\ MaxLeverage \in Nat
  /\ MinMargin \in Nat
  /\ MaxOrders \in Nat
  /\ MaxObserverSeq \in Nat

VARIABLES
  known,            \* keys of state.balances
  accounts,         \* state.balances and state.positions
  bids, asks,       \* state.bids, state.asks
  markPrice,        \* state.markPrice
  lastTradePrice,   \* state.lastTradePrice
  lastObserverSeq,  \* state.lastObserverSeq
  taker,            \* the locals of onPlaceOrder, NoTaker outside of it
  outs,             \* the events that process() returns
  orderCount,       \* number of order commands received
  credited          \* history: what was ever credited to each user

vars == <<known, accounts, bids, asks, markPrice, lastTradePrice,
          lastObserverSeq, taker, outs, orderCount, credited>>

-----------------------------------------------------------------------------
(* Inputs, resting orders, the taker and the output events.  A limit price *)
(* may be 0: the API and the codec accept it.  Quantities, prices,         *)
(* leverages and margins are whole: the API writes them to Int columns of  *)
(* orders before it sends the command.                                     *)

LimitOrder ==
  [user : Users, side : Sides, type : {"LIMIT"}, price : Prices,
   quantity : Quantities, leverage : Leverages, margin : Margins]

MarketOrder ==
  [user : Users, side : Sides, type : {"MARKET"}, price : {0},
   quantity : Quantities, leverage : Leverages, margin : Margins]

OrderInput == LimitOrder \cup MarketOrder

RestingOrder ==
  [id : Nat, user : Users, side : Sides, price : Prices,
   quantity : Nat, remaining : Nat \ {0}, leverage : Nat \ {0}, margin : Int]

Status == {"OPEN", "PARTIAL", "FILLED", "CANCELLED"}

Report ==
  [event : {"order.accepted"}, order : Nat, user : Users, status : Status,
   filled : Int, remaining : Int]

TakerState ==
  [id : Nat, order : OrderInput, remaining : Nat,
   affected : SUBSET Users,   \* the users whose account a fill changed
   reports : Seq(Report)]     \* makerTouched, in order of insertion

NoTaker == [id |-> 0]

\* order.rejected, and the command.rejected that always follows it.
Rejection(id, user) ==
  [event |-> "order.rejected", order |-> id, user |-> user]

BalanceDraft(user) ==
  [event |-> "balance.updated", user |-> user, bal |-> accounts'[user].bal]

\* The balance.updated and position.updated of every user of a set.
AccountDrafts(users) ==
  [event |-> "account.updated",
   accounts |-> {[user |-> u, account |-> accounts'[u]] : u \in users}]

\* Faulty: the quantity of the first order of the level.
DeltaOfFirst(side, price, levels) ==
  [event |-> "orderbook.delta", side |-> side, price |-> price,
   quantity |-> IF OrdersAt(levels, price) = <<>> THEN 0
                ELSE Head(OrdersAt(levels, price)).remaining]

DeltaDraft(side, price, levels) ==
  [event |-> "orderbook.delta", side |-> side, price |-> price,
   quantity |-> Depth(levels, price)]

-----------------------------------------------------------------------------

Idle == taker = NoTaker

Levels(side) == IF side = "Bid" THEN bids ELSE asks

\* Replace the levels of one side.
SetLevels(side, levels) ==
  /\ bids' = IF side = "Bid" THEN levels ELSE bids
  /\ asks' = IF side = "Ask" THEN levels ELSE asks

Init ==
  /\ known = {}
  /\ accounts = [u \in Users |-> NoAccount]
  /\ bids = <<>> /\ asks = <<>>
  /\ markPrice = 0 /\ lastTradePrice = 0
  /\ lastObserverSeq = -1
  /\ taker = NoTaker
  /\ outs = <<>>
  /\ orderCount = 0
  /\ credited = [u \in Users |-> 0]

\* user.created (with an opening balance, perhaps 0) and balance.deposited:
\* both create the balance when there is none and credit it.
CreditUser(user, amount) ==
  /\ Idle
  /\ credited[user] + amount <= MaxCredit
  /\ known' = known \cup {user}
  /\ accounts' = [accounts EXCEPT ![user].bal = Credit(@, amount)]
  /\ credited' = [credited EXCEPT ![user] = @ + amount]
  /\ outs' = <<BalanceDraft(user)>>
  /\ UNCHANGED <<bids, asks, markPrice, lastTradePrice, lastObserverSeq, taker, orderCount>>

-----------------------------------------------------------------------------
(* order.place *)

RefPrice(o) ==
  IF o.type = "LIMIT" THEN o.price
  ELSE IF Levels(Opposite(o.side)) # <<>> THEN Head(Levels(Opposite(o.side))).price
  ELSE markPrice

Acceptable(o) ==
  /\ o.user \in known
  /\ o.leverage > 0 /\ o.leverage <= MaxLeverage
  /\ o.margin >= MinMargin
  /\ RefPrice(o) > 0 =>
       o.margin + Tolerance >= RequiredMargin(RefPrice(o), o.quantity, o.leverage)
  /\ CanLock(accounts[o.user].bal, o.margin)

RejectOrder(o) ==
  /\ Idle
  /\ orderCount < MaxOrders
  /\ ~Acceptable(o)
  /\ orderCount' = orderCount + 1
  /\ outs' = <<Rejection(orderCount + 1, o.user)>>
  /\ UNCHANGED <<known, accounts, bids, asks, markPrice, lastTradePrice,
                 lastObserverSeq, taker, credited>>

BeginMatch(o) ==
  /\ Idle
  /\ orderCount < MaxOrders
  /\ Acceptable(o)
  /\ orderCount' = orderCount + 1
  /\ accounts' = [accounts EXCEPT ![o.user].bal = Lock(@, o.margin)]
  /\ taker' = [id |-> orderCount + 1, order |-> o, remaining |-> o.quantity,
               affected |-> {o.user}, reports |-> <<>>]
  /\ outs' = <<>>
  /\ UNCHANGED <<known, bids, asks, markPrice, lastTradePrice, lastObserverSeq, credited>>

\* Faulty: an order does not cross its own limit price.
CrossesStrictly(o, price) ==
  \/ o.type = "MARKET"
  \/ IF o.side = "Bid" THEN price < o.price ELSE price > o.price

\* The conditions of the two loops: a best level that the order crosses.
Crosses(o, price) ==
  \/ o.type = "MARKET"
  \/ IF o.side = "Bid" THEN price <= o.price ELSE price >= o.price

CanFill ==
  LET levels == Levels(Opposite(taker.order.side)) IN
  /\ taker.remaining > 0
  /\ levels # <<>>
  /\ Crosses(taker.order, Head(levels).price)

\* Faulty: every fill carries the collateral of the whole order.
WholeMargin(o, quantity) == o.margin

\* The share of the order's margin that a part of its quantity carries:
\* q(quantity * marginPerUnit).
MarginShare(o, quantity) == RoundDiv(quantity * o.margin, o.quantity)

\* How onPlaceOrder reports a maker: from its own locals restingQty and filled.
MakerReport(maker, filled) ==
  [event |-> "order.accepted", order |-> maker.id, user |-> maker.user,
   status |-> IF maker.quantity - filled > 0 THEN "PARTIAL" ELSE "FILLED",
   filled |-> filled, remaining |-> Greatest(0, maker.quantity - filled)]

\* Faulty: the maker keeps its remaining quantity.
KeepRemaining(maker, quantity, margin) ==
  [maker EXCEPT !.margin = @ - margin]

\* A maker after a fill of the given quantity and collateral.
FillMaker(maker, quantity, margin) ==
  [maker EXCEPT !.remaining = @ - quantity, !.margin = @ - margin]

\* Faulty: a maker with nothing left stays.
KeepMaker(orders, maker) == [orders EXCEPT ![1] = maker]

\* The level's orders after that: a maker with nothing left leaves its head.
AfterFill(orders, maker) ==
  IF maker.remaining = 0 THEN Tail(orders) ELSE [orders EXCEPT ![1] = maker]

Fill ==
  /\ ~Idle
  /\ CanFill
  /\ LET o         == taker.order
         side      == Opposite(o.side)
         level     == Head(Levels(side))
         maker     == Head(level.orders)
         quantity  == Least(taker.remaining, maker.remaining)
         makerPart == RoundDiv(quantity * maker.margin, maker.remaining)
         takerPart == MarginShare(o, quantity)
         orders    == AfterFill(level.orders, FillMaker(maker, quantity, makerPart))
         levels    == SetOrders(Levels(side), 1, orders)
         levelDone == orders = <<>> \/ quantity = taker.remaining
         made      == [accounts EXCEPT ![maker.user] =
                         ApplyFill(@, maker.side, maker.price, quantity, makerPart, maker.leverage)]
         trade     == [event |-> "trade.executed", maker |-> maker.id, taker |-> taker.id,
                       makerUser |-> maker.user, takerUser |-> o.user,
                       price |-> maker.price, quantity |-> quantity, side |-> o.side]
     IN
     /\ accounts' = [made EXCEPT ![o.user] =
                       ApplyFill(@, o.side, maker.price, quantity, takerPart, o.leverage)]
     /\ SetLevels(side, IF levelDone THEN RemoveEmptyLevel(levels, level.price) ELSE levels)
     /\ lastTradePrice' = maker.price
     /\ taker' = [taker EXCEPT !.remaining = @ - quantity,
                               !.affected = @ \cup {maker.user},
                               !.reports = Append(@, MakerReport(maker, quantity))]
     /\ outs' = outs \o <<trade>>
                     \o IF levelDone THEN <<DeltaDraft(side, level.price, levels)>> ELSE <<>>
     /\ UNCHANGED <<known, markPrice, lastObserverSeq, orderCount, credited>>

TakerReport(status) ==
  [event |-> "order.accepted", order |-> taker.id, user |-> taker.order.user, status |-> status,
   filled |-> taker.order.quantity - taker.remaining, remaining |-> taker.remaining]

\* The events that close onPlaceOrder: the makers' reports, the accounts and,
\* last, the taker's own report.
Closing(status) ==
  taker.reports \o <<AccountDrafts(taker.affected), TakerReport(status)>>

Partly(otherwise) ==
  IF taker.remaining < taker.order.quantity THEN "PARTIAL" ELSE otherwise

EndMatch ==
  /\ ~Idle
  /\ ~CanFill
  /\ taker' = NoTaker
  /\ LET o       == taker.order
         rest    == MarginShare(o, taker.remaining)
         resting == [id |-> taker.id, user |-> o.user, side |-> o.side, price |-> o.price,
                     quantity |-> taker.remaining, remaining |-> taker.remaining,
                     leverage |-> o.leverage, margin |-> rest]
         levels  == InsertResting(Levels(o.side), resting)
     IN
     \/ /\ o.type = "LIMIT" /\ taker.remaining > 0
        /\ SetLevels(o.side, levels)
        /\ UNCHANGED accounts
        /\ outs' = outs \o <<DeltaDraft(o.side, o.price, levels)>> \o Closing(Partly("OPEN"))
     \/ /\ o.type = "MARKET" /\ taker.remaining > 0
        /\ accounts' = [accounts EXCEPT ![o.user].bal = Release(@, rest)]
        /\ UNCHANGED <<bids, asks>>
        /\ outs' = outs \o Closing(Partly("CANCELLED"))
     \/ /\ taker.remaining = 0
        /\ UNCHANGED <<accounts, bids, asks>>
        /\ outs' = outs \o Closing("FILLED")
  /\ UNCHANGED <<known, markPrice, lastTradePrice, lastObserverSeq, orderCount, credited>>

-----------------------------------------------------------------------------
(* order.cancel *)

Target(user, id, side, price) ==
  {o \in ToSet(OrdersAt(Levels(side), price)) : o.id = id /\ o.user = user}

CancelOrder(user, id, side, price) ==
  /\ Idle
  /\ \E o \in Target(user, id, side, price) :
       LET levels   == CancelResting(Levels(side), price, id)
           released == Released(accounts[user].bal, o.margin)
       IN
       /\ SetLevels(side, levels)
       /\ accounts' = [accounts EXCEPT ![user].bal = Release(@, o.margin)]
       /\ outs' = <<DeltaDraft(side, price, levels), BalanceDraft(user),
                    [event |-> "order.cancelled", order |-> id, user |-> user,
                     released |-> released]>>
  /\ UNCHANGED <<known, markPrice, lastTradePrice, lastObserverSeq, taker, orderCount, credited>>

RejectCancel(user, id, side, price) ==
  /\ Idle
  /\ Target(user, id, side, price) = {}
  /\ outs' = <<Rejection(id, user)>>
  /\ UNCHANGED <<known, accounts, bids, asks, markPrice, lastTradePrice,
                 lastObserverSeq, taker, orderCount, credited>>

-----------------------------------------------------------------------------
(* index_price.updated *)

\* An observer sequence number that is not new is dropped.
DropIndexPrice(seq) ==
  /\ Idle
  /\ seq <= lastObserverSeq
  /\ outs' = <<>>
  /\ UNCHANGED <<known, accounts, bids, asks, markPrice, lastTradePrice,
                 lastObserverSeq, taker, orderCount, credited>>

IndexPrice(seq, price) ==
  /\ Idle
  /\ seq > lastObserverSeq
  /\ lastObserverSeq' = seq
  /\ markPrice' = price
  /\ LET hit == {u \in Users : IsLiquidatable(accounts[u].pos, price)} IN
     /\ accounts' = [u \in Users |->
                       IF u \in hit THEN Liquidate(accounts[u], price)
                                    ELSE MarkToMarket(accounts[u], price)]
     /\ outs' = IF hit = {} THEN <<>>
                ELSE <<[event |-> "position.liquidated", users |-> hit, price |-> price],
                       AccountDrafts(hit)>>
  /\ UNCHANGED <<known, bids, asks, lastTradePrice, taker, orderCount, credited>>

-----------------------------------------------------------------------------

Match == Fill \/ EndMatch

Next ==
  \/ \E user \in Users, amount \in Amounts : CreditUser(user, amount)
  \/ \E o \in OrderInput : RejectOrder(o) \/ BeginMatch(o)
  \/ Match
  \/ \E user \in Users, id \in 1..orderCount, side \in Sides, price \in Prices :
       CancelOrder(user, id, side, price) \/ RejectCancel(user, id, side, price)
  \/ \E seq \in 0..MaxObserverSeq :
       DropIndexPrice(seq) \/ \E price \in MarkPrices : IndexPrice(seq, price)

Spec == Init /\ [][Next]_vars
=============================================================================
