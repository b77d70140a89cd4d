-------------------------------- MODULE Book --------------------------------
(***************************************************************************)
(* The order book of packages/domain/book.ts: one sequence of price levels *)
(* per side, best price first, and in a level the resting orders in order  *)
(* of arrival.                                                             *)
(***************************************************************************)
EXTENDS Integers, Sequences, SequencesExt, Sums

\* Sides with prices of P and orders of O: no level is ever without orders.
LevelsOf(P, O) == Seq([price : P, orders : Seq(O) \ {<<>>}])

BetterFirst(side, a, b) == IF side = "Bid" THEN a > b ELSE a < b

\* levels.findIndex((l) => l.price === price), 0 when there is none.
LevelIndex(levels, price) ==
  SelectInSeq(levels, LAMBDA l : l.price = price)

\* The orders of the level at a price, none when there is no such level.
OrdersAt(levels, price) ==
  LET i == LevelIndex(levels, price) IN
  IF i = 0 THEN <<>> ELSE levels[i].orders

\* The side with other orders at one of its levels.
SetOrders(levels, at, orders) ==
  [levels EXCEPT ![at] = [price |-> levels[at].price, orders |-> orders]]

\* Faulty: a new level goes to the end, whatever its price.
InsertAtEnd(levels, order) ==
  LET at == LevelIndex(levels, order.price) IN
  IF at # 0 THEN SetOrders(levels, at, Append(levels[at].orders, order))
  ELSE Append(levels, [price |-> order.price, orders |-> <<order>>])

\* Faulty: an order goes to the head of the queue at its price.
InsertAtHead(levels, order) ==
  LET at    == LevelIndex(levels, order.price)
      worse == SelectInSeq(levels, LAMBDA l : BetterFirst(order.side, order.price, l.price))
      level == [price |-> order.price, orders |-> <<order>>]
  IN  IF at # 0 THEN SetOrders(levels, at, <<order>> \o levels[at].orders)
      ELSE InsertAt(levels, IF worse = 0 THEN Len(levels) + 1 ELSE worse, level)

InsertResting(levels, order) ==
  LET at    == LevelIndex(levels, order.price)
      worse == SelectInSeq(levels, LAMBDA l : BetterFirst(order.side, order.price, l.price))
      level == [price |-> order.price, orders |-> <<order>>]
  IN  IF at # 0 THEN SetOrders(levels, at, Append(levels[at].orders, order))
      ELSE InsertAt(levels, IF worse = 0 THEN Len(levels) + 1 ELSE worse, level)

RemoveEmptyLevel(levels, price) ==
  LET at == LevelIndex(levels, price) IN
  IF at # 0 /\ levels[at].orders = <<>> THEN RemoveAt(levels, at) ELSE levels

\* cancelResting for an order that is in the level at that price.
CancelResting(levels, price, id) ==
  LET at == LevelIndex(levels, price)
      i  == SelectInSeq(levels[at].orders, LAMBDA o : o.id = id)
  IN  RemoveEmptyLevel(SetOrders(levels, at, RemoveAt(levels[at].orders, i)), price)

QuantityLeft(orders) ==
  Total([k \in DOMAIN orders |-> orders[k].remaining])

\* The quantity that deltaDraft and snapshot report for a level.
Depth(levels, price) == QuantityLeft(OrdersAt(levels, price))

RestingOrders(levels) ==
  UNION {ToSet(levels[i].orders) : i \in DOMAIN levels}

-----------------------------------------------------------------------------
(* What the operators above maintain of one side of the book.              *)

\* An order that may rest at a price: something is left of it, and what it
\* still has of its collateral is not negative.
LiveAt(side, price, o) ==
  /\ o.side = side /\ o.price = price
  /\ o.remaining \in 1..o.quantity
  /\ o.margin >= 0

InOrderOfArrival(orders) ==
  \A k, m \in DOMAIN orders : k < m => orders[k].id < orders[m].id

QueueWellFormed(side, price, orders) ==
  /\ orders # <<>>
  /\ InOrderOfArrival(orders)
  /\ \A k \in DOMAIN orders : LiveAt(side, price, orders[k])

\* Best price first, one level for each price.
LevelsSorted(side, levels) ==
  \A i, j \in DOMAIN levels : i < j => BetterFirst(side, levels[i].price, levels[j].price)

LevelsWellFormed(side, levels) ==
  /\ LevelsSorted(side, levels)
  /\ \A i \in DOMAIN levels : QueueWellFormed(side, levels[i].price, levels[i].orders)
=============================================================================
