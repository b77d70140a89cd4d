----------------------------- MODULE Projection -----------------------------
(***************************************************************************)
(* The engine with what others make of its events: the database, which     *)
(* apps/db-Writer/src/projector.ts and the handlers of apps/backend write, *)
(* and a client that follows the order book.                               *)
(*                                                                         *)
(* The events that a command causes join the output stream when the        *)
(* command is done.  The database writer projects them in order, later;    *)
(* its consumer may deliver an event again, when an acknowledgement was    *)
(* lost, or put one off, when its transaction failed (StreamConsumer).     *)
(* Every user has signed up: there is a wallet row for each of them, and   *)
(* the engine learns of it later, or never.  The columns of orders and     *)
(* wallet are integers, so what the API accepts are whole amounts.         *)
(***************************************************************************)
EXTENDS Engine, Sums

CONSTANTS
  Unit,             \* quanta in the integers of the database
  MaxLag,           \* bound: events waiting when a command arrives
  MaxRedelivered,   \* bound: lost acknowledgements
  MaxPutOff         \* bound: failed transactions

ASSUME ProjectionAssumption ==
  /\ Unit \in Nat \ {0}
  /\ \A amount \in Prices \cup Margins \cup Amounts : amount % Unit = 0
  /\ {MaxLag, MaxRedelivered, MaxPutOff} \subseteq Nat

VARIABLES
  orders,      \* rows of orders, by order number
  wallets,     \* rows of wallet
  positions,   \* rows of positions
  fills,       \* rows of fills
  processed,   \* rows of processed_events
  queue,       \* the events of the output stream that are not yet projected
  unacked,     \* projected events that will be delivered again
  putOff,      \* history: number of failed transactions
  published,   \* history: number of events published
  inFlight,    \* how many deposits of each amount the API made and the engine has
               \* not yet seen
  depth        \* the book as a client of orderbook.delta knows it

dbVars == <<orders, wallets, positions, fills, processed>>

streamVars == <<queue, unacked, putOff, published>>

projectionVars == <<dbVars, streamVars, inFlight, depth>>

allVars == <<vars, projectionVars>>

\* Math.round of an amount, as the database stores it.
Rounded(amount) == RoundDiv(amount, Unit)

NoWallet == [balance |-> 0, freeBalance |-> 0, lockedBalance |-> 0]

WalletRow(b) ==
  [balance |-> Rounded(b.total), freeBalance |-> Rounded(b.free),
   lockedBalance |-> Rounded(b.locked)]

\* unrealizedPnl and markPrice are left out: they change without an event.
PositionRow(p) ==
  [size |-> p.size, entryPrice |-> Rounded(p.entryPrice), margin |-> Rounded(p.margin),
   leverage |-> p.leverage, liquidationPrice |-> Rounded(p.liqPrice),
   realizedPnl |-> Rounded(p.realizedPnl)]

PInit ==
  /\ Init
  /\ orders = <<>>
  /\ wallets = [u \in Users |-> NoWallet]
  /\ positions = [u \in Users |-> PositionRow(NoPosition)]
  /\ fills = {}
  /\ processed = {}
  /\ queue = <<>> /\ unacked = {} /\ putOff = 0 /\ published = 0
  /\ inFlight = [u \in Users |-> [amount \in Amounts |-> 0]]
  /\ depth = [side \in Sides |-> [price \in Prices |-> 0]]

-----------------------------------------------------------------------------
(* The engine and its output                                               *)

DeltasOf(events, side, price) ==
  {k \in DOMAIN events : /\ events[k].event = "orderbook.delta"
                         /\ events[k].side = side /\ events[k].price = price}

\* A client replaces what it knows of a level by what a delta says, so that of
\* several deltas the last one counts.
ApplyDeltas(d, events) ==
  [side \in Sides |-> [price \in Prices |->
     LET deltas == DeltasOf(events, side, price) IN
     IF deltas = {} THEN d[side][price] ELSE events[Max(deltas)].quantity]]

\* The bound, checked when a command arrives.
WithinLag == Len(queue) <= MaxLag

\* The events of a command that is done are published.
Emit ==
  LET events == IF taker' = NoTaker THEN outs' ELSE <<>> IN
  /\ queue' = queue \o [k \in DOMAIN events |-> [id |-> published + k, event |-> events[k]]]
  /\ published' = published + Len(events)
  /\ depth' = ApplyDeltas(depth, events)
  /\ UNCHANGED <<wallets, positions, fills, processed, unacked, putOff>>

\* OrderController: the row first, then the command.
PlaceOrder(o) ==
  /\ WithinLag
  /\ RejectOrder(o) \/ BeginMatch(o)
  /\ orders' = Append(orders, [user |-> o.user, quantity |-> o.quantity,
                               status |-> "PENDING", filledQuantity |-> 0])
  /\ Emit
  /\ UNCHANGED inFlight

Closed == {"FILLED", "CANCELLED", "REJECTED", "CLOSE"}

\* deleteOrder; side and price are what the client says they are.
DeleteOrder(id, side, price) ==
  /\ WithinLag
  /\ orders[id].status \notin Closed
  /\ \/ CancelOrder(orders[id].user, id, side, price)
     \/ RejectCancel(orders[id].user, id, side, price)
  /\ Emit
  /\ UNCHANGED <<orders, inFlight>>

\* signupcontroller: user.created with an opening balance of 0, whose command id
\* is that of the user.
SignUp(user) ==
  /\ WithinLag
  /\ user \notin known
  /\ CreditUser(user, 0)
  /\ Emit
  /\ UNCHANGED <<orders, inFlight>>

\* What was deposited for a user and not yet credited.
Ahead(user) == Total([amount \in Amounts |-> amount * inFlight[user][amount]])

\* onrampController: a positive amount, the wallet first, then the command.  Any
\* number of deposits of a user can be between the two; MaxCredit bounds what is
\* deposited for all of them.
Onramp(user, amount) ==
  /\ Idle
  /\ amount > 0
  /\ Total([u \in Users |-> credited[u] + Ahead(u)]) + amount <= MaxCredit
  /\ inFlight' = [inFlight EXCEPT ![user][amount] = @ + 1]
  /\ wallets' = [wallets EXCEPT ![user].balance = @ + Rounded(amount),
                                ![user].freeBalance = @ + Rounded(amount)]
  /\ UNCHANGED <<vars, orders, positions, fills, processed, streamVars, depth>>

\* The command of one of them reaches the engine, in whatever order.
Deposit(user, amount) ==
  /\ WithinLag
  /\ inFlight[user][amount] > 0
  /\ CreditUser(user, amount)
  /\ inFlight' = [inFlight EXCEPT ![user][amount] = @ - 1]
  /\ Emit
  /\ UNCHANGED orders

Continue ==
  /\ \/ Match
     \/ \E seq \in 0..MaxObserverSeq :
          \/ DropIndexPrice(seq)
          \/ WithinLag /\ \E price \in MarkPrices : IndexPrice(seq, price)
  /\ Emit
  /\ UNCHANGED <<orders, inFlight>>

-----------------------------------------------------------------------------
(* projector.ts *)

\* Faulty: a partly filled order is shown as filled.
RowStatusEager(status) ==
  IF status = "PARTIAL" THEN "FILLED" ELSE status

RowStatus(status) ==
  IF status = "PARTIAL" THEN "PARTIALLYFILLED" ELSE status

SetStatus(id, status) ==
  orders' = [orders EXCEPT ![id].status = status]

OrderAccepted(e) ==
  /\ e.event = "order.accepted"
  /\ orders' = [orders EXCEPT ![e.order].status = RowStatus(e.status),
                              ![e.order].filledQuantity = e.filled]
  /\ UNCHANGED <<wallets, positions, fills>>

OrderRejected(e) ==
  /\ e.event = "order.rejected"
  /\ SetStatus(e.order, "REJECTED")
  /\ UNCHANGED <<wallets, positions, fills>>

\* Faulty: the event is not handled.
CancelledIgnored(e) ==
  /\ e.event = "order.cancelled"
  /\ UNCHANGED <<orders, wallets, positions, fills>>

OrderCancelled(e) ==
  /\ e.event = "order.cancelled"
  /\ SetStatus(e.order, "CANCELLED")
  /\ UNCHANGED <<wallets, positions, fills>>

\* One row for each tradeId; a taker meets a maker once (MakersMetOnce), so the
\* pair stands for it.
FillRow(e) ==
  [maker |-> e.maker, taker |-> e.taker, price |-> e.price, quantity |-> e.quantity]

TradeExecuted(e) ==
  /\ e.event = "trade.executed"
  /\ fills' = fills \cup {FillRow(e)}
  /\ UNCHANGED <<orders, wallets, positions>>

BalanceUpdated(e) ==
  /\ e.event = "balance.updated"
  /\ wallets' = [wallets EXCEPT ![e.user] = WalletRow(e.bal)]
  /\ UNCHANGED <<orders, positions, fills>>

AccountsUpdated(e) ==
  /\ e.event = "account.updated"
  /\ LET of(u)   == (CHOOSE a \in e.accounts : a.user = u).account
         changed == {a.user : a \in e.accounts}
     IN
     /\ wallets' = [u \in Users |-> IF u \in changed THEN WalletRow(of(u).bal) ELSE wallets[u]]
     /\ positions' = [u \in Users |-> IF u \in changed THEN PositionRow(of(u).pos) ELSE positions[u]]
  /\ UNCHANGED <<orders, fills>>

OtherEvent(e) ==
  /\ e.event \in {"orderbook.delta", "position.liquidated"}
  /\ UNCHANGED <<orders, wallets, positions, fills>>

ApplyEvent(e) ==
  \/ OrderAccepted(e) \/ OrderRejected(e) \/ OrderCancelled(e)
  \/ TradeExecuted(e)
  \/ BalanceUpdated(e) \/ AccountsUpdated(e)
  \/ OtherEvent(e)

\* Faulty: no processed_events row is looked at.
ProjectAgain(d) ==
  /\ ApplyEvent(d.event)
  /\ UNCHANGED processed

\* The transaction: a duplicate hits the primary key of processed_events.
ProjectEvent(d) ==
  \/ /\ d.id \notin processed
     /\ processed' = processed \cup {d.id}
     /\ ApplyEvent(d.event)
  \/ /\ d.id \in processed
     /\ UNCHANGED dbVars

\* The next event of the stream is projected; its XACK may be lost.
Project ==
  /\ queue # <<>>
  /\ ProjectEvent(Head(queue))
  /\ queue' = Tail(queue)
  /\ unacked' \in {unacked} \cup
       {unacked \cup {d} : d \in {h \in {Head(queue)} : Cardinality(unacked) < MaxRedelivered}}
  /\ UNCHANGED <<vars, putOff, published, inFlight, depth>>

Redeliver(d) ==
  /\ d \in unacked
  /\ ProjectEvent(d)
  /\ unacked' = unacked \ {d}
  /\ UNCHANGED <<vars, queue, putOff, published, inFlight, depth>>

\* The transaction fails: the event is retried when others have been projected.
PutOff(later) ==
  /\ putOff < MaxPutOff
  /\ putOff' = putOff + 1
  /\ queue' = InsertAt(Tail(queue), later + 1, Head(queue))
  /\ UNCHANGED <<vars, dbVars, unacked, published, inFlight, depth>>

-----------------------------------------------------------------------------

PNext ==
  \/ \E o \in OrderInput : PlaceOrder(o)
  \/ \E id \in DOMAIN orders, side \in Sides, price \in Prices : DeleteOrder(id, side, price)
  \/ \E user \in Users : SignUp(user)
  \/ \E user \in Users, amount \in Amounts : Onramp(user, amount) \/ Deposit(user, amount)
  \/ Continue
  \/ Project
  \/ \E d \in unacked : Redeliver(d)
  \/ \E later \in 1..Len(queue) - 1 : PutOff(later)

PSpec == PInit /\ [][PNext]_allVars
=============================================================================
