-------------------------- MODULE EngineProperties --------------------------
(***************************************************************************)
(* What must be true of the engine's state and of its steps.               *)
(***************************************************************************)
EXTENDS Engine, Sums

-----------------------------------------------------------------------------
(* Types *)

\* Every variable has the type that the handlers assume: the records of
\* state.ts and the locals of onPlaceOrder.  In particular every resting order
\* has something left and every level an order, without which the divisions by
\* maker.remaining and the reads of level.orders[0] would go wrong.  (The types
\* of the events are those of Projection, which reads them.)
TypeOK ==
  /\ known \subseteq Users
  /\ accounts \in [Users -> Account]
  /\ bids \in LevelsOf(Prices, RestingOrder)
  /\ asks \in LevelsOf(Prices, RestingOrder)
  /\ markPrice \in Nat
  /\ lastTradePrice \in Nat
  /\ lastObserverSeq \in -1..MaxObserverSeq
  /\ taker \in TakerState \cup {NoTaker}
  /\ orderCount \in 0..MaxOrders
  /\ credited \in [Users -> Nat]

-----------------------------------------------------------------------------
(* Balances *)

\* A user's total is always the free part plus the locked part, and the locked
\* part is never negative: no path through lock, release and applyPnl moves one
\* without the other, or gives back more than was locked.
BalancesAddUp ==
  \A u \in Users : BalanceAddsUp(accounts[u].bal)

\* What a user owns is what was credited to them plus the profit and loss
\* their position realized: total changes in no other way.
TotalIsCreditPlusPnl ==
  \A u \in Users :
    accounts[u].bal.total = credited[u] + accounts[u].pos.realizedPnl

MarginOf(orders) == Total([o \in orders |-> o.margin])

\* The collateral of a user's resting orders on one side.
RestingMargin(u, levels) ==
  MarginOf({o \in RestingOrders(levels) : o.user = u})

\* What is still locked for the part of the taker that has not been filled.
InFlightMargin(u) ==
  IF ~Idle /\ taker.order.user = u THEN MarginShare(taker.order, taker.remaining) ELSE 0

Backing(u) ==
  accounts[u].pos.margin + RestingMargin(u, bids) + RestingMargin(u, asks) + InFlightMargin(u)

\* Locked collateral is exactly what backs the user's position, resting orders
\* and order in flight, when no order's margin has to be rounded to be split
\* over its quantity: nothing stays locked for nothing and nothing that backs
\* something has been given back.  (positions.ts:46 "Collateral that ends up
\* not backing an open position is released".)
CollateralExact ==
  \A u \in Users : accounts[u].bal.locked = Backing(u)

-----------------------------------------------------------------------------
(* Positions *)

Net == Total([u \in Users |-> accounts[u].pos.size])

\* A trade moves size from one user to another: longs minus shorts changes
\* only when the exchange force-closes a position, at a new index price.
NetSizeOnlyMovedByLiquidation ==
  [][Net' # Net => markPrice' # markPrice \/ lastObserverSeq' # lastObserverSeq]_vars

\* What users own less what their positions cost them.
Worth(a) == a.bal.total - a.pos.entryPrice * a.pos.size

Cash == Total([u \in Users |-> Worth(accounts[u])])

\* The lots of the position of u whose entry price a fill averages: the position
\* that it has added to, or nothing.  Of the two legs of a user who trades with
\* themselves one may add and the other takes back.
LotsAveraged(u) ==
  LET before == accounts[u].pos.size
      after  == accounts'[u].pos.size
  IN  IF before = 0 THEN 0
      ELSE IF before = after /\ u = taker.order.user
      THEN Abs(before) + (taker.remaining - taker'.remaining)
      ELSE IF Sign(after - before) = Sign(before) THEN Abs(after) ELSE 0

\* Fills create and destroy no money: what one side realizes the other side
\* pays or carries in its entry price, but for the rounding of an averaged
\* entry price (positions.ts:73), at most half a quantum for each lot that was
\* averaged.  A fill that only opens, reduces, closes or flips loses nothing.
FillsConserveMoney ==
  [][Fill => 2 * Abs(Cash' - Cash) <= Total([u \in Users |-> LotsAveraged(u)])]_vars

\* A flat position carries no entry price, no collateral and no liquidation
\* price; an open one has collateral that is not negative and the liquidation
\* price of the size, entry price and leverage it has now: no path through
\* applyFill leaves the cached liqPrice behind.
PositionsConsistent ==
  \A u \in Users : PositionConsistent(accounts[u].pos)

-----------------------------------------------------------------------------
(* The book *)

\* The levels of a side are strictly sorted, best first, none is empty, and
\* each holds live orders of its own price in order of arrival: what the
\* handlers rely on when they take makerLevels[0] and level.orders[0].
BookWellFormed ==
  LevelsWellFormed("Bid", bids) /\ LevelsWellFormed("Ask", asks)

\* Between commands the best bid is below the best ask.
Uncrossed ==
  Idle /\ bids # <<>> /\ asks # <<>> => Head(bids).price < Head(asks).price

\* A taker meets a maker at most once: the loop always finishes a maker, or
\* itself.  (Otherwise makerTouched would have to add fills up, and the loop
\* might not end.)
MakersMetOnce ==
  ~Idle =>
    \A i, j \in DOMAIN taker.reports :
      i # j => taker.reports[i].order # taker.reports[j].order

-----------------------------------------------------------------------------
(* The inductive invariant *)

\* Resting orders that arrived before a given number.
Older(n) ==
  {o \in RestingOrder : o.id < n /\ o.remaining <= o.quantity /\ o.margin >= 0}

\* A number above the ids in the book: an order that rests joins the tail of
\* its level, and is the youngest there.
Horizon == IF Idle THEN orderCount + 1 ELSE orderCount

TakerInv ==
  ~Idle => taker.id = orderCount /\ orderCount > 0 /\ taker.remaining <= taker.order.quantity

BookInv ==
  /\ bids \in LevelsOf(Prices, Older(Horizon))
  /\ asks \in LevelsOf(Prices, Older(Horizon))
  /\ BookWellFormed

\* What every handler relies on and restores: a fill divides the collateral of
\* a live maker, whose share cannot be negative, and an order that rests is
\* younger than what rests.
Inv ==
  /\ TypeOK
  /\ BalancesAddUp
  /\ TotalIsCreditPlusPnl
  /\ PositionsConsistent
  /\ TakerInv
  /\ BookInv

\* No two orders of a side have an id in common.
IdsApart ==
  \A side \in Sides : \A o, p \in RestingOrders(Levels(side)) : o.id = p.id => o = p

\* Every bid is below every ask, also while a taker is in the loop.
SidesApart ==
  \A b \in RestingOrders(bids), a \in RestingOrders(asks) : b.price < a.price

\* As long as the taker wants more, every maker it met has left the book.
MakersGone ==
  ~Idle /\ taker.remaining > 0 =>
    \A i \in DOMAIN taker.reports : \A o \in RestingOrders(Levels(Opposite(taker.order.side))) :
      taker.reports[i].order # o.id

\* What the loop relies on to keep the book uncrossed and to meet no maker
\* twice.
MatchInv ==
  Inv /\ IdsApart /\ SidesApart /\ MakersMetOnce /\ MakersGone

-----------------------------------------------------------------------------
(* The abstract specification *)

OrderLeft(o) ==
  [id |-> o.id, user |-> o.user, side |-> o.side, type |-> "LIMIT",
   price |-> o.price, remaining |-> o.remaining]

OrdersLeft ==
  {OrderLeft(o) : o \in RestingOrders(bids) \cup RestingOrders(asks)}

TakerLeft ==
  IF Idle THEN NoTaker
  ELSE [id |-> taker.id, user |-> taker.order.user, side |-> taker.order.side,
        type |-> taker.order.type, price |-> taker.order.price, remaining |-> taker.remaining]

X == INSTANCE Exchange WITH
       resting <- OrdersLeft, incoming <- TakerLeft,
       lastPrice <- lastTradePrice, count <- orderCount

\* The engine, with its levels and queues, does what the price-time priority
\* order book does.
PriceTimePriority == X!Spec
=============================================================================
