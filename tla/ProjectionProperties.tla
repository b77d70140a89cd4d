------------------------ MODULE ProjectionProperties ------------------------
(***************************************************************************)
(* What the database and a client of the order book may rely on.           *)
(***************************************************************************)
EXTENDS Projection

\* The deposits of a user that the engine has not seen.
UnderWay(u) == {amount \in Amounts : inFlight[u][amount] > 0}

\* Nothing is on its way: no event waits, no command is being processed.
CaughtUp == Idle /\ queue = <<>> /\ \A u \in Users : UnderWay(u) = {}

\* Once the writer has caught up, the wallets are the engine's balances: each
\* handler publishes every balance it changed, deposits that the API wrote
\* ahead of the engine are not lost or counted twice, and a redelivered event
\* does not bring an old balance back.
WalletsFollow ==
  CaughtUp => \A u \in Users : wallets[u] = WalletRow(accounts[u].bal)

\* The same for positions: taker and makers after a match, and everyone a new
\* index price liquidated.
PositionsFollow ==
  CaughtUp => \A u \in Users : positions[u] = PositionRow(accounts[u].pos)

\* A client that folds the deltas knows the depth of every level, although a
\* match reports a level only when it leaves it.
DeltasGiveDepth ==
  Idle => \A side \in Sides, price \in Prices :
    depth[side][price] = Depth(Levels(side), price)

FillsOf(id) == {f \in fills : id \in {f.maker, f.taker}}

\* How much of an order was traded, by the rows of a ledger.
TradedIn(rows, id) ==
  Total([f \in {f \in rows : id \in {f.maker, f.taker}} |-> f.quantity])

Traded(id) == TradedIn(fills, id)

Resting(id) == {o \in RestingOrders(bids) \cup RestingOrders(asks) : o.id = id}

\* The trade ledger and the book agree on what is left of an order.
LedgerMatchesBook ==
  CaughtUp => \A id \in DOMAIN orders :
    /\ \A o \in Resting(id) : Traded(id) + o.remaining = orders[id].quantity
    /\ Traded(id) <= orders[id].quantity

\* An order that the database calls filled has left the book, at any moment and
\* however far the writer is behind; and all of its quantity is in the ledger,
\* once the writer has caught up.
FilledIsFinal ==
  \A id \in DOMAIN orders : orders[id].status = "FILLED" =>
    Resting(id) = {} /\ (CaughtUp => Traded(id) = orders[id].quantity)

\* No order that is gone is shown as pending or open: it is filled, cancelled or
\* rejected, or was reported as partly filled.  A maker that several takers have
\* filled keeps that last status, since each of them is reported on its own.
\* (FilledQuantityFollows is about the same reports.)
NoGhostOrders ==
  CaughtUp => \A id \in DOMAIN orders :
    orders[id].status \in {"PENDING", "OPEN"} => Resting(id) # {}

\* The writer brings the quantities of orders in line with what was traded.
\* (README.md:38 "order status ... for HTTP reads | Postgres projection")
FilledQuantityFollows ==
  CaughtUp => \A id \in DOMAIN orders : orders[id].filledQuantity = Traded(id)

\* An order that is shown as rejected never traded and does not trade.
\* (orderController.ts:50-51 "the db-poller will reconcile the order status
\* from the output stream")
RejectedNeverTraded ==
  CaughtUp => \A id \in DOMAIN orders :
    orders[id].status = "REJECTED" => FillsOf(id) = {} /\ Resting(id) = {}
-----------------------------------------------------------------------------
(* The inductive invariant *)

\* What an event makes of the rows of wallet, of positions and of the statuses
\* of orders: a function from those it touches.
BalanceNews(e) ==
  CASE e.event = "balance.updated" -> [u \in {e.user} |-> WalletRow(e.bal)]
    [] e.event = "account.updated" ->
         [u \in {a.user : a \in e.accounts} |->
            WalletRow((CHOOSE a \in e.accounts : a.user = u).account.bal)]
    [] OTHER -> [u \in {} |-> NoWallet]

PositionNews(e) ==
  IF e.event = "account.updated"
  THEN [u \in {a.user : a \in e.accounts} |->
          PositionRow((CHOOSE a \in e.accounts : a.user = u).account.pos)]
  ELSE [u \in {} |-> PositionRow(NoPosition)]

StatusNews(e) ==
  CASE e.event = "order.accepted" -> [id \in {e.order} |-> RowStatus(e.status)]
    [] e.event = "order.rejected" -> [id \in {e.order} |-> "REJECTED"]
    [] e.event = "order.cancelled" -> [id \in {e.order} |-> "CANCELLED"]
    [] OTHER -> [id \in {} |-> "PENDING"]

\* When all the news has been applied to a row, what it says of x is in S.
EndsIn(S, news, x, row) ==
  /\ (\A k \in DOMAIN news : x \notin DOMAIN news[k]) => row \in S
  /\ \A k \in DOMAIN news :
       /\ x \in DOMAIN news[k]
       /\ \A m \in DOMAIN news : m > k => x \notin DOMAIN news[m]
       => news[k][x] \in S

IsSequence(s) == s \in Seq({s[k] : k \in DOMAIN s})

\* The order in which the writer sees the events: their ids are those that
\* follow what it has projected, and what comes again it has projected.
StreamInv ==
  /\ IsSequence(queue)
  /\ published \in Nat /\ Len(queue) <= published
  /\ \A k \in DOMAIN queue : queue[k].id = published - Len(queue) + k
  /\ processed = 1..(published - Len(queue))
  /\ \A d \in unacked : d.id \in processed
  /\ putOff = 0

\* The users of whose accounts the match in progress has yet to report.
Unreported == IF Idle THEN {} ELSE taker.affected

WalletInv ==
  \A u \in Users \ Unreported : UnderWay(u) = {} =>
    EndsIn({WalletRow(accounts[u].bal)},
           [k \in DOMAIN queue |-> BalanceNews(queue[k].event)], u, wallets[u])

PositionInv ==
  \A u \in Users \ Unreported :
    EndsIn({PositionRow(accounts[u].pos)},
           [k \in DOMAIN queue |-> PositionNews(queue[k].event)], u, positions[u])

\* The orders of which it has yet to report.
Undecided ==
  IF Idle THEN {} ELSE {taker.id} \cup {taker.reports[i].order : i \in DOMAIN taker.reports}

GoneInv ==
  \A id \in DOMAIN orders \ Undecided : Resting(id) = {} =>
    EndsIn({"PARTIALLYFILLED", "FILLED", "CANCELLED", "REJECTED"},
           [k \in DOMAIN queue |-> StatusNews(queue[k].event)], id, orders[id].status)

\* While a match is in progress it has reported trades and levels only.
QuietInv ==
  /\ IsSequence(outs)
  /\ ~Idle => /\ taker.order.user \in taker.affected
              /\ \A k \in DOMAIN outs : outs[k].event \in {"trade.executed", "orderbook.delta"}
              /\ \A i \in DOMAIN taker.reports : taker.reports[i].status \in {"PARTIAL", "FILLED"}

Rows ==
  /\ DOMAIN wallets = Users /\ DOMAIN positions = Users
  /\ inFlight \in [Users -> [Amounts -> Nat]]
  /\ IsSequence(orders) /\ Len(orders) = orderCount
  /\ \A id \in DOMAIN orders :
       /\ DOMAIN orders[id] = {"user", "quantity", "status", "filledQuantity"}
       /\ orders[id].user \in Users /\ orders[id].quantity \in Nat

ProjectionInv == Rows /\ StreamInv /\ QuietInv /\ WalletInv /\ PositionInv /\ GoneInv

-----------------------------------------------------------------------------
(* The inductive invariant of the ledger, in whatever order transactions    *)
(* succeed                                                                  *)

\* What is projected has been published, and what waits has not been projected.
QueueInv ==
  /\ IsSequence(queue)
  /\ published \in Nat /\ processed \subseteq 1..published
  /\ \A k \in DOMAIN queue : queue[k].id \in 1..published \ processed
  /\ \A k, m \in DOMAIN queue : queue[k].id = queue[m].id => k = m
  /\ \A d \in unacked : d.id \in processed

\* The events that have yet to be projected: those in the queue, and what the
\* match in progress has said and will say of its makers.
Pending ==
  {d.event : d \in ToSet(queue)} \cup
  (IF Idle THEN {} ELSE ToSet(outs) \cup ToSet(taker.reports))

TradeRows(events) == {FillRow(e) : e \in {e \in events : e.event = "trade.executed"}}

\* The rows of fills, when all of that has been projected.
Ledger == fills \cup TradeRows(Pending)

\* Trades are between orders that have a number, and with the present taker
\* there is one for each maker that was reported.
TradesInv ==
  /\ IsFiniteSet(Ledger)
  /\ \A f \in Ledger :
       /\ f.quantity \in Nat
       /\ f.maker \in 0..orderCount /\ f.taker \in 0..orderCount
       /\ ~Idle => /\ f.maker # taker.id
                   /\ f.taker = taker.id =>
                        \E i \in DOMAIN taker.reports : taker.reports[i].order = f.maker

\* No order rests on both sides, and each that rests has a row.
OneSide ==
  /\ \A b \in RestingOrders(bids), a \in RestingOrders(asks) : b.id # a.id
  /\ \A o \in RestingOrders(bids) \cup RestingOrders(asks) : o.id \in DOMAIN orders

\* What is left of an order, in the book or in the loop.
LeftOf(id) ==
  {o.remaining : o \in Resting(id)} \cup
  (IF ~Idle /\ id = taker.id THEN {taker.remaining} ELSE {})

SoldInv ==
  \A id \in DOMAIN orders :
    /\ TradedIn(Ledger, id) <= orders[id].quantity
    /\ \A n \in LeftOf(id) : TradedIn(Ledger, id) + n = orders[id].quantity

FilledIn(events) ==
  {e.order : e \in {e \in events : e.event = "order.accepted" /\ e.status = "FILLED"}}

\* The orders that are called filled, or will be.
SaidFilled == {id \in DOMAIN orders : orders[id].status = "FILLED"} \cup FilledIn(Pending)

FilledInv ==
  \A id \in SaidFilled :
    /\ id \in DOMAIN orders
    /\ LeftOf(id) = {} /\ TradedIn(Ledger, id) = orders[id].quantity

LedgerInv == Rows /\ QuietInv /\ QueueInv /\ TradesInv /\ OneSide /\ SoldInv /\ FilledInv

-----------------------------------------------------------------------------
(* The inductive invariant of the depth                                     *)

\* What a client will know of the depth when what was said is published.
Seen == IF Idle THEN depth ELSE ApplyDeltas(depth, outs)

\* The level that the taker is about to go on with: it is reported when it is left.
Eaten(side, price) ==
  /\ ~Idle /\ CanFill
  /\ side = Opposite(taker.order.side) /\ price = Head(Levels(side)).price

DepthInv ==
  \A side \in Sides, price \in Prices :
    Eaten(side, price) \/ Seen[side][price] = Depth(Levels(side), price)
=============================================================================
