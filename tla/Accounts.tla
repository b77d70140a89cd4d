------------------------------ MODULE Accounts ------------------------------
(***************************************************************************)
(* Balances, positions and margin: packages/domain/balances.ts, risk.ts    *)
(* and positions.ts, as operators from one value to the next.              *)
(*                                                                         *)
(* An account is what the engine keeps of a user: the entry of             *)
(* state.balances and the entry of state.positions.  A user without an     *)
(* entry has the entry that ensureBalance and ensurePosition would create. *)
(* Position.markPrice is left out: it always equals state.markPrice.       *)
(***************************************************************************)
EXTENDS Money

CONSTANTS
  Tolerance,       \* the 1e-6 of lock() and onPlaceOrder(), in quanta
  MmrNum, MmrDen   \* market.maintenanceMarginRate, as a fraction

ASSUME ToleranceAssumption == Tolerance \in Nat
ASSUME MmrAssumption == MmrNum \in Nat /\ MmrDen \in Nat \ {0}

Balance == [total : Int, free : Int, locked : Int]

Position == [size : Int, entryPrice : Int, margin : Int, leverage : Nat \ {0},
             liqPrice : Int, realizedPnl : Int, unrealizedPnl : Int]

Account == [bal : Balance, pos : Position]

NoBalance == [total |-> 0, free |-> 0, locked |-> 0]

NoPosition == [size |-> 0, entryPrice |-> 0, margin |-> 0, leverage |-> 1,
               liqPrice |-> 0, realizedPnl |-> 0, unrealizedPnl |-> 0]

NoAccount == [bal |-> NoBalance, pos |-> NoPosition]

Sides == {"Bid", "Ask"}

Opposite(side) == IF side = "Bid" THEN "Ask" ELSE "Bid"

-----------------------------------------------------------------------------
(* balances.ts *)

Credit(b, amount) ==
  [total |-> b.total + amount, free |-> b.free + amount, locked |-> b.locked]

\* The condition under which lock() moves the amount instead of refusing.
CanLock(b, amount) == b.free + Tolerance >= amount

Lock(b, amount) ==
  [total |-> b.total, free |-> b.free - amount, locked |-> b.locked + amount]

\* What release() moves back: never more than is locked.
Released(b, amount) == Least(b.locked, Greatest(0, amount))

Release(b, amount) ==
  [total |-> b.total, free |-> b.free + Released(b, amount),
   locked |-> b.locked - Released(b, amount)]

\* Faulty: the profit does not reach the free part.
ApplyPnlToTotal(b, pnl) ==
  [total |-> b.total + pnl, free |-> b.free, locked |-> b.locked]

ApplyPnl(b, pnl) ==
  [total |-> b.total + pnl, free |-> b.free + pnl, locked |-> b.locked]

-----------------------------------------------------------------------------
(* risk.ts *)

RequiredMargin(price, quantity, leverage) ==
  RoundDiv(price * quantity, leverage)

\* 1 -/+ 1/leverage +/- mmr over the common denominator leverage * MmrDen.
LiquidationPrice(size, entryPrice, leverage) ==
  LET den == leverage * MmrDen IN
  IF size > 0
  THEN RoundDiv(Greatest(0, entryPrice * (den - MmrDen + MmrNum * leverage)), den)
  ELSE RoundDiv(entryPrice * (den + MmrDen - MmrNum * leverage), den)

IsLiquidatable(p, mark) ==
  /\ p.size # 0
  /\ p.liqPrice > 0
  /\ IF p.size > 0 THEN mark <= p.liqPrice ELSE mark >= p.liqPrice

-----------------------------------------------------------------------------
(* positions.ts: one leg of a fill, folded into an account.                *)

\* Faulty: both legs of a trade are long.
SignedLong(side, quantity) == quantity

Signed(side, quantity) == IF side = "Bid" THEN quantity ELSE -quantity

\* Faulty: the realized profit is not accumulated.
RestatedPnl(p, size, entryPrice, margin, leverage, pnl) ==
  [size |-> size, entryPrice |-> entryPrice, margin |-> margin, leverage |-> leverage,
   liqPrice |-> IF size = 0 THEN 0 ELSE LiquidationPrice(size, entryPrice, leverage),
   realizedPnl |-> pnl, unrealizedPnl |-> p.unrealizedPnl]

\* Faulty: refreshLiq is not called when a position stays open.
RestatedStale(p, size, entryPrice, margin, leverage, pnl) ==
  [size |-> size, entryPrice |-> entryPrice, margin |-> margin, leverage |-> leverage,
   liqPrice |-> IF size = 0 THEN 0
                ELSE IF p.size = 0 THEN LiquidationPrice(size, entryPrice, leverage)
                ELSE p.liqPrice,
   realizedPnl |-> p.realizedPnl + pnl, unrealizedPnl |-> p.unrealizedPnl]

\* A position after a fill that realized pnl, with the liquidation price that
\* refreshLiq gives it.
Restated(p, size, entryPrice, margin, leverage, pnl) ==
  [size |-> size, entryPrice |-> entryPrice, margin |-> margin, leverage |-> leverage,
   liqPrice |-> IF size = 0 THEN 0 ELSE LiquidationPrice(size, entryPrice, leverage),
   realizedPnl |-> p.realizedPnl + pnl, unrealizedPnl |-> p.unrealizedPnl]

OpenPosition(a, signed, price, margin, leverage) ==
  [bal |-> a.bal, pos |-> Restated(a.pos, signed, price, margin, leverage, 0)]

\* Faulty: the entry price is that of the last fill.
AddAtLastPrice(a, signed, price, margin, leverage) ==
  [bal |-> a.bal,
   pos |-> Restated(a.pos, a.pos.size + signed, price, a.pos.margin + margin, leverage, 0)]

AddToPosition(a, signed, price, margin, leverage) ==
  LET p      == a.pos
      absOld == Abs(p.size)
      newAbs == absOld + Abs(signed)
      entry  == RoundDiv(absOld * p.entryPrice + Abs(signed) * price, newAbs)
  IN  [bal |-> a.bal,
       pos |-> Restated(p, p.size + signed, entry, p.margin + margin, leverage, 0)]

\* An opposing leg: settle the closed part, then be flat, stand on the other
\* side with what is left of the fill, or stay reduced.
ReducePosition(a, signed, price, margin, leverage) ==
  LET p        == a.pos
      absPos   == Abs(p.size)
      absTrade == Abs(signed)
      closed   == Least(absPos, absTrade)
      pnl      == (price - p.entryPrice) * closed * Sign(p.size)
      freed    == RoundDiv(closed * p.margin, absPos)
      unused   == RoundDiv(closed * margin, absTrade)
      size     == p.size + signed
      settled  == Release(ApplyPnl(Release(a.bal, freed), pnl), unused)
  IN  IF size = 0
      THEN [bal |-> Release(settled, p.margin - freed),
            pos |-> Restated(p, 0, 0, 0, p.leverage, pnl)]
      ELSE IF absTrade > absPos
      THEN [bal |-> settled,
            pos |-> Restated(p, size, price, margin - unused, leverage, pnl)]
      ELSE [bal |-> settled,
            pos |-> Restated(p, size, p.entryPrice, p.margin - freed, p.leverage, pnl)]

ApplyFill(a, side, price, quantity, margin, leverage) ==
  LET signed == Signed(side, quantity) IN
  IF a.pos.size = 0
  THEN OpenPosition(a, signed, price, margin, leverage)
  ELSE IF Sign(a.pos.size) = Sign(signed)
  THEN AddToPosition(a, signed, price, margin, leverage)
  ELSE ReducePosition(a, signed, price, margin, leverage)

-----------------------------------------------------------------------------
(* positions.ts: a new mark price.                                         *)

MarkToMarket(a, mark) ==
  [a EXCEPT !.pos.unrealizedPnl = (mark - a.pos.entryPrice) * a.pos.size]

\* Force-close at the mark price.
Liquidate(a, mark) ==
  LET pnl == (mark - a.pos.entryPrice) * a.pos.size IN
  [bal |-> ApplyPnl(Release(a.bal, a.pos.margin), pnl),
   pos |-> [Restated(a.pos, 0, 0, 0, a.pos.leverage, pnl) EXCEPT !.unrealizedPnl = 0]]

-----------------------------------------------------------------------------
(* What the operators above maintain of one balance and of one position.   *)

\* The free and the locked part make up the total, and what is locked is
\* not negative.  (The free part can be: a loss is taken from it.)
BalanceAddsUp(b) ==
  b.total = b.free + b.locked /\ b.locked >= 0

\* A flat position carries no entry price, collateral or liquidation price;
\* an open one has the liquidation price of its present size, entry price and
\* leverage.
PositionConsistent(p) ==
  /\ p.margin >= 0
  /\ IF p.size = 0
     THEN p.entryPrice = 0 /\ p.margin = 0 /\ p.liqPrice = 0
     ELSE p.liqPrice = LiquidationPrice(p.size, p.entryPrice, p.leverage)
=============================================================================
