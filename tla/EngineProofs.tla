---------------------------- MODULE EngineProofs ----------------------------
(***************************************************************************)
(* Proofs about the engine, whatever the constants are.                    *)
(*                                                                         *)
(* First, what the operators of Accounts and Book return, for every        *)
(* account and books of every length.  Levels and queues are read as an    *)
(* ordering of the set of orders of a side, best price first, then         *)
(* arrival, and the set has a collateral, the sum of that of its orders.   *)
(*                                                                         *)
(* The engine keeps its types, its balances, its positions and its book    *)
(* sound: Inv is the inductive invariant, there is a lemma for each        *)
(* action, and each one splits Inv in what it says of the accounts, of the *)
(* book and of the rest.                                                   *)
(*                                                                         *)
(* It implements Exchange: it keeps price-time priority, never leaves a    *)
(* crossed book behind, and meets a maker once.                            *)
(*                                                                         *)
(* And it neither makes nor loses anything: a fill moves size and money    *)
(* from one user to another, but for the rounding of an averaged price,    *)
(* and what is locked is what backs something.                             *)
(***************************************************************************)
EXTENDS EngineProperties, ListingProofs

-----------------------------------------------------------------------------
(* Rounding *)

\* q of a quotient with a positive divisor is a number of quanta.
LEMMA RoundDivType ==
  ASSUME NEW a \in Int, NEW b \in Nat \ {0}
  PROVE  RoundDiv(a, b) \in Int
BY DEF RoundDiv

\* What the quotient lies between, when multiplied out.
LEMMA DivBounds ==
  ASSUME NEW a \in Int, NEW b \in Nat \ {0}
  PROVE  /\ a \div b \in Int
         /\ b * (a \div b) <= a
         /\ a < b * (a \div b) + b
OBVIOUS

\* A rounded share of a margin is between nothing and the whole margin.
LEMMA RoundDivShare ==
  ASSUME NEW part \in Nat, NEW whole \in Nat \ {0}, part <= whole, NEW m \in Nat
  PROVE  RoundDiv(part * m, whole) \in 0..m
<1> DEFINE r == (2 * (part * m) + whole) \div (2 * whole)
<1>1. /\ r \in Int
      /\ (2 * whole) * r <= 2 * (part * m) + whole
      /\ 2 * (part * m) + whole < (2 * whole) * r + 2 * whole
  BY DivBounds, 2 * (part * m) + whole \in Int, 2 * whole \in Nat \ {0}
<1>2. part * m \in Nat /\ part * m <= whole * m
  OBVIOUS
<1>3. r >= 0
  <2>1. SUFFICES ASSUME r <= -1 PROVE FALSE
    BY <1>1
  <2>2. (2 * whole) * r <= -(2 * whole)
    BY <1>1, <2>1
  <2> QED
    BY <1>1, <1>2, <2>2
<1>4. r <= m
  <2>1. SUFFICES ASSUME r >= m + 1 PROVE FALSE
    BY <1>1
  <2>2. (2 * whole) * r >= (2 * whole) * m + 2 * whole
    BY <1>1, <2>1
  <2> QED
    BY <1>1, <1>2, <2>2
<1> QED
  BY <1>1, <1>3, <1>4 DEF RoundDiv

-----------------------------------------------------------------------------
(* Balances *)

\* lock, release, credit and applyPnl return a balance.
LEMMA BalanceType ==
  ASSUME NEW b \in Balance, NEW x \in Int
  PROVE  /\ Credit(b, x) \in Balance
         /\ Lock(b, x) \in Balance
         /\ Release(b, x) \in Balance
         /\ ApplyPnl(b, x) \in Balance
         /\ Released(b, x) \in Int
BY DEF Balance, Credit, Lock, Release, ApplyPnl, Released, Least, Greatest

\* They keep a balance that adds up one that adds up.
LEMMA BalanceStaysSound ==
  ASSUME NEW b \in Balance, NEW x \in Int, BalanceAddsUp(b)
  PROVE  /\ BalanceAddsUp(Credit(b, x))
         /\ x >= 0 => BalanceAddsUp(Lock(b, x))
         /\ BalanceAddsUp(Release(b, x))
         /\ BalanceAddsUp(ApplyPnl(b, x))
BY DEF Balance, BalanceAddsUp, Credit, Lock, Release, ApplyPnl, Released, Least, Greatest

\* What they do to the total: only a credit and a realized profit change it.
LEMMA BalanceTotal ==
  ASSUME NEW b \in Balance, NEW x \in Int
  PROVE  /\ Credit(b, x).total = b.total + x
         /\ Lock(b, x).total = b.total
         /\ Release(b, x).total = b.total
         /\ ApplyPnl(b, x).total = b.total + x
BY DEF Balance, Credit, Lock, Release, ApplyPnl

-----------------------------------------------------------------------------
(* Positions *)

\* The liquidation price is a number of quanta for every leverage.
LEMMA LiquidationPriceType ==
  ASSUME NEW size \in Int, NEW entry \in Int, NEW leverage \in Nat \ {0}
  PROVE  LiquidationPrice(size, entry, leverage) \in Int
<1> DEFINE den == leverage * MmrDen
<1>1. den \in Nat \ {0}
  BY MmrAssumption
<1>2. /\ entry * (den - MmrDen + MmrNum * leverage) \in Int
      /\ entry * (den + MmrDen - MmrNum * leverage) \in Int
  BY <1>1, MmrAssumption
<1>3. Greatest(0, entry * (den - MmrDen + MmrNum * leverage)) \in Int
  BY <1>2 DEF Greatest
<1> QED
  BY <1>1, <1>2, <1>3, RoundDivType DEF LiquidationPrice

\* The three ways a fill changes an account, and what each needs.
FillArguments(a, signed, price, margin, leverage) ==
  /\ a \in Account /\ PositionConsistent(a.pos)
  /\ signed \in Int \ {0} /\ price \in Int /\ margin \in Nat
  /\ leverage \in Nat \ {0}

\* What a fill must return: an account with the same total but for the profit
\* it realizes.
FillResult(a, r) ==
  /\ r \in Account
  /\ PositionConsistent(r.pos)
  /\ BalanceAddsUp(a.bal) => BalanceAddsUp(r.bal)
  /\ r.bal.total - r.pos.realizedPnl = a.bal.total - a.pos.realizedPnl

\* A restated position is one, and its liquidation price is that of its size,
\* entry price and leverage.
LEMMA RestatedResult ==
  ASSUME NEW p \in Position, NEW size \in Int \ {0}, NEW entry \in Int, NEW margin \in Nat,
         NEW leverage \in Nat \ {0}, NEW pnl \in Int
  PROVE  /\ Restated(p, size, entry, margin, leverage, pnl) \in Position
         /\ PositionConsistent(Restated(p, size, entry, margin, leverage, pnl))
         /\ Restated(p, size, entry, margin, leverage, pnl).realizedPnl = p.realizedPnl + pnl
<1>1. LiquidationPrice(size, entry, leverage) \in Int
  BY LiquidationPriceType
<1> QED
  BY <1>1 DEF Restated, Position, PositionConsistent

LEMMA FlatResult ==
  ASSUME NEW p \in Position, NEW leverage \in Nat \ {0}, NEW pnl \in Int
  PROVE  /\ Restated(p, 0, 0, 0, leverage, pnl) \in Position
         /\ PositionConsistent(Restated(p, 0, 0, 0, leverage, pnl))
         /\ Restated(p, 0, 0, 0, leverage, pnl).realizedPnl = p.realizedPnl + pnl
BY DEF Restated, Position, PositionConsistent

\* Opening a position leaves the balance and sets every field of the position.
LEMMA OpenPositionResult ==
  ASSUME NEW a, NEW signed, NEW price, NEW margin, NEW leverage,
         FillArguments(a, signed, price, margin, leverage)
  PROVE  FillResult(a, OpenPosition(a, signed, price, margin, leverage))
<1> DEFINE r == Restated(a.pos, signed, price, margin, leverage, 0)
<1>1. /\ r \in Position
      /\ PositionConsistent(r)
      /\ r.realizedPnl = a.pos.realizedPnl + 0
  BY RestatedResult DEF FillArguments, Account
<1> QED
  BY <1>1 DEF FillArguments, FillResult, OpenPosition, Account, Position, Balance

\* Adding to a position averages its entry price; the sign of the size stays.
LEMMA AddToPositionResult ==
  ASSUME NEW a, NEW signed, NEW price, NEW margin, NEW leverage,
         FillArguments(a, signed, price, margin, leverage),
         a.pos.size # 0, Sign(a.pos.size) = Sign(signed)
  PROVE  FillResult(a, AddToPosition(a, signed, price, margin, leverage))
<1> DEFINE absOld == Abs(a.pos.size)
           newAbs == absOld + Abs(signed)
           entry  == RoundDiv(absOld * a.pos.entryPrice + Abs(signed) * price, newAbs)
           size   == a.pos.size + signed
           sum    == a.pos.margin + margin
           r      == Restated(a.pos, size, entry, sum, leverage, 0)
<1>1. absOld \in Nat /\ Abs(signed) \in Nat /\ newAbs \in Nat \ {0} /\ size \in Int \ {0}
  BY DEF FillArguments, Account, Position, Abs, Sign
<1>2. absOld * a.pos.entryPrice + Abs(signed) * price \in Int
  BY <1>1 DEF FillArguments, Account, Position
<1>3. entry \in Int /\ sum \in Nat
  BY <1>1, <1>2, RoundDivType DEF FillArguments, Account, Position, PositionConsistent
<1> HIDE DEF absOld, newAbs, entry, size, sum
<1>4. /\ r \in Position
      /\ PositionConsistent(r)
      /\ r.realizedPnl = a.pos.realizedPnl + 0
  BY <1>1, <1>3, RestatedResult DEF FillArguments, Account
<1>5. AddToPosition(a, signed, price, margin, leverage) = [bal |-> a.bal, pos |-> r]
  BY DEF AddToPosition, absOld, newAbs, entry, size, sum
<1> QED
  BY <1>4, <1>5 DEF FillArguments, FillResult, Account, Position, Balance

\* Reducing, closing or flipping a position: three releases and the realized
\* profit on the balance, and a position with collateral that is not negative.
LEMMA ReducePositionResult ==
  ASSUME NEW a, NEW signed, NEW price, NEW margin, NEW leverage,
         FillArguments(a, signed, price, margin, leverage),
         a.pos.size # 0, Sign(a.pos.size) # Sign(signed)
  PROVE  FillResult(a, ReducePosition(a, signed, price, margin, leverage))
<1> DEFINE p        == a.pos
           absPos   == Abs(p.size)
           absTrade == Abs(signed)
           closed   == Least(absPos, absTrade)
           pnl      == (price - p.entryPrice) * closed * Sign(p.size)
           freed    == RoundDiv(closed * p.margin, absPos)
           unused   == RoundDiv(closed * margin, absTrade)
           size     == p.size + signed
           left     == p.margin - freed
           kept     == margin - unused
           entry    == p.entryPrice
           standing == p.leverage
           b1       == Release(a.bal, freed)
           b2       == ApplyPnl(b1, pnl)
           b3       == Release(b2, unused)
           b4       == Release(b3, left)
           out      == ReducePosition(a, signed, price, margin, leverage)
<1>1. /\ p \in Position /\ a.bal \in Balance /\ p.margin \in Nat /\ p.size \in Int \ {0}
      /\ p.entryPrice \in Int /\ p.leverage \in Nat \ {0}
      /\ signed \in Int \ {0} /\ price \in Int /\ margin \in Nat
      /\ leverage \in Nat \ {0}
  BY DEF FillArguments, Account, Position, PositionConsistent
<1>2. /\ absPos \in Nat \ {0} /\ absTrade \in Nat \ {0}
      /\ closed \in Nat /\ closed <= absPos /\ closed <= absTrade /\ size \in Int
      /\ Sign(p.size) \in Int
  BY <1>1 DEF Abs, Least, Sign
<1>3. freed \in 0..p.margin /\ unused \in 0..margin
  BY <1>1, <1>2, RoundDivShare
<1>4. pnl \in Int
  BY <1>1, <1>2
<1>5. /\ freed \in Int /\ unused \in Int /\ left \in Nat /\ kept \in Nat
      /\ left \in Int /\ entry \in Int /\ standing \in Nat \ {0}
  BY <1>1, <1>3
<1> SUFFICES FillResult(a, out)
  OBVIOUS
<1> HIDE DEF p, absPos, absTrade, closed, pnl, freed, unused, size, left, kept, entry, standing
<1>6. b1 \in Balance
  BY <1>1, <1>5, BalanceType
<1>7. b2 \in Balance
  BY <1>4, <1>6, BalanceType
<1>8. b3 \in Balance
  BY <1>5, <1>7, BalanceType
<1>9. b4 \in Balance
  BY <1>5, <1>8, BalanceType
<1>10. BalanceAddsUp(a.bal) => BalanceAddsUp(b3) /\ BalanceAddsUp(b4)
  <2>1. BalanceAddsUp(a.bal) => BalanceAddsUp(b1)
    BY <1>1, <1>5, BalanceStaysSound
  <2>2. BalanceAddsUp(b1) => BalanceAddsUp(b2)
    BY <1>4, <1>6, BalanceStaysSound
  <2>3. BalanceAddsUp(b2) => BalanceAddsUp(b3)
    BY <1>5, <1>7, BalanceStaysSound
  <2>4. BalanceAddsUp(b3) => BalanceAddsUp(b4)
    BY <1>5, <1>8, BalanceStaysSound
  <2> QED
    BY <2>1, <2>2, <2>3, <2>4
<1>11. b3.total = a.bal.total + pnl /\ b4.total = a.bal.total + pnl
  <2>1. b1.total = a.bal.total
    BY <1>1, <1>5, BalanceTotal
  <2>2. b2.total = b1.total + pnl
    BY <1>4, <1>6, BalanceTotal
  <2>3. b3.total = b2.total
    BY <1>5, <1>7, BalanceTotal
  <2>4. b4.total = b3.total
    BY <1>5, <1>8, BalanceTotal
  <2> QED
    BY <2>1, <2>2, <2>3, <2>4
<1> HIDE DEF b1, b2, b3, b4
<1>12. ASSUME NEW b \in {b3, b4}, NEW r \in Position, PositionConsistent(r),
              r.realizedPnl = p.realizedPnl + pnl, out = [bal |-> b, pos |-> r]
       PROVE  FillResult(a, out)
  <2>1. a.bal.total \in Int /\ p.realizedPnl \in Int
    BY <1>1 DEF Balance, Position
  <2>2. out.bal = b /\ out.pos = r /\ out \in Account
    BY <1>8, <1>9, <1>12 DEF Account
  <2> HIDE DEF out
  <2> QED
    BY <1>4, <1>10, <1>11, <1>12, <2>1, <2>2 DEF FillResult, p
<1> HIDE DEF out
<1>13. CASE size = 0
  <2> DEFINE r == Restated(p, 0, 0, 0, standing, pnl)
  <2>1. out = [bal |-> b4, pos |-> r]
    BY <1>13 DEF ReducePosition, out, p, absPos, absTrade, closed, pnl, freed, unused, size,
                 left, kept, entry, standing, b1, b2, b3, b4
  <2>2. r \in Position /\ PositionConsistent(r) /\ r.realizedPnl = p.realizedPnl + pnl
    BY <1>1, <1>4, <1>5, FlatResult
  <2> HIDE DEF r
  <2> QED
    BY <1>12, <2>1, <2>2
<1>14. CASE size # 0 /\ absTrade > absPos
  <2>0. /\ p \in Position /\ size \in Int \ {0} /\ price \in Int /\ kept \in Nat
        /\ leverage \in Nat \ {0} /\ pnl \in Int
    BY <1>1, <1>2, <1>4, <1>5, <1>14
  <2> DEFINE r == Restated(p, size, price, kept, leverage, pnl)
  <2>1. out = [bal |-> b3, pos |-> r]
    BY <1>14 DEF ReducePosition, out, p, absPos, absTrade, closed, pnl, freed, unused, size,
                 left, kept, entry, standing, b1, b2, b3
  <2>2. r \in Position /\ PositionConsistent(r) /\ r.realizedPnl = p.realizedPnl + pnl
    <3>1. r \in Position
      BY <2>0, RestatedResult
    <3>2. PositionConsistent(r)
      BY <2>0, RestatedResult
    <3>3. r.realizedPnl = p.realizedPnl + pnl
      BY <2>0, RestatedResult
    <3> QED
      BY <3>1, <3>2, <3>3
  <2> HIDE DEF r
  <2> QED
    BY <1>12, <2>1, <2>2
<1>15. CASE size # 0 /\ ~(absTrade > absPos)
  <2>0. /\ p \in Position /\ size \in Int \ {0} /\ entry \in Int /\ left \in Nat
        /\ standing \in Nat \ {0} /\ pnl \in Int
    BY <1>1, <1>2, <1>4, <1>5, <1>15
  <2> DEFINE r == Restated(p, size, entry, left, standing, pnl)
  <2>1. out = [bal |-> b3, pos |-> r]
    BY <1>15 DEF ReducePosition, out, p, absPos, absTrade, closed, pnl, freed, unused, size,
                 left, kept, entry, standing, b1, b2, b3
  <2>2. r \in Position /\ PositionConsistent(r) /\ r.realizedPnl = p.realizedPnl + pnl
    <3>1. r \in Position
      BY <2>0, RestatedResult
    <3>2. PositionConsistent(r)
      BY <2>0, RestatedResult
    <3>3. r.realizedPnl = p.realizedPnl + pnl
      BY <2>0, RestatedResult
    <3> QED
      BY <3>1, <3>2, <3>3
  <2> HIDE DEF r
  <2> QED
    BY <1>12, <2>1, <2>2
<1> QED
  BY <1>13, <1>14, <1>15

\* One leg of a fill, whichever way it goes.
LEMMA ApplyFillResult ==
  ASSUME NEW a \in Account, PositionConsistent(a.pos), NEW side \in Sides, NEW price \in Int,
         NEW quantity \in Nat \ {0}, NEW margin \in Nat, NEW leverage \in Nat \ {0}
  PROVE  FillResult(a, ApplyFill(a, side, price, quantity, margin, leverage))
<1> DEFINE signed == Signed(side, quantity)
<1>1. FillArguments(a, signed, price, margin, leverage)
  BY DEF FillArguments, Signed
<1> HIDE DEF signed
<1>2. ApplyFill(a, side, price, quantity, margin, leverage)
        = IF a.pos.size = 0
          THEN OpenPosition(a, signed, price, margin, leverage)
          ELSE IF Sign(a.pos.size) = Sign(signed)
          THEN AddToPosition(a, signed, price, margin, leverage)
          ELSE ReducePosition(a, signed, price, margin, leverage)
  BY DEF ApplyFill, signed
<1> QED
  BY <1>1, <1>2, OpenPositionResult, AddToPositionResult, ReducePositionResult

-----------------------------------------------------------------------------
(* What a leg of a fill does to the money *)

\* What an account has locked besides the collateral of its position.
Spare(a) == a.bal.locked - a.pos.margin

\* What a leg must do: move its size, pay for it, but for the rounding of an
\* averaged entry price, and use up the collateral that it carries.
LegResult(a, r, signed, price, margin) ==
  /\ r.pos.size = a.pos.size + signed
  /\ margin <= Spare(a) => Spare(r) = Spare(a) - margin
  /\ LET error == Worth(r) - Worth(a) + price * signed IN
     IF a.pos.size # 0 /\ Sign(a.pos.size) = Sign(signed)
     THEN 2 * Abs(error) <= Abs(r.pos.size)
     ELSE error = 0

\* release moves what it is asked to when that much is locked.
LEMMA ReleaseAll ==
  ASSUME NEW b \in Balance, NEW x \in Nat, x <= b.locked
  PROVE  Release(b, x).locked = b.locked - x
BY DEF Balance, Release, Released, Least, Greatest

\* Opening pays the price of every lot.
LEMMA OpenLeg ==
  ASSUME NEW a, NEW signed, NEW price, NEW margin, NEW leverage,
         FillArguments(a, signed, price, margin, leverage), a.pos.size = 0
  PROVE  LegResult(a, OpenPosition(a, signed, price, margin, leverage), signed, price, margin)
<1> DEFINE r == OpenPosition(a, signed, price, margin, leverage)
<1>1. /\ r.bal = a.bal /\ r.pos.size = signed /\ r.pos.entryPrice = price
      /\ r.pos.margin = margin
  BY DEF OpenPosition, Restated
<1>2. /\ a.pos.entryPrice = 0 /\ a.pos.margin = 0 /\ a.bal.total \in Int /\ a.bal.locked \in Int
      /\ signed \in Int /\ price \in Int /\ margin \in Nat
  BY DEF FillArguments, PositionConsistent, Account, Balance
<1> HIDE DEF r
<1>3. Worth(a) = a.bal.total /\ Worth(r) = a.bal.total - price * signed
  BY <1>1, <1>2 DEF Worth
<1>4. price * signed \in Int
  BY <1>2
<1>5. Worth(r) - Worth(a) + price * signed = 0
  BY <1>2, <1>3, <1>4
<1> QED
  BY <1>1, <1>2, <1>5 DEF LegResult, Spare, r

\* How far a rounded quotient is from the number it divides.
LEMMA RoundDivError ==
  ASSUME NEW a \in Int, NEW b \in Nat \ {0}, NEW r, r = RoundDiv(a, b)
  PROVE  /\ r \in Int
         /\ 2 * (b * r) - 2 * a <= b /\ 2 * a - 2 * (b * r) <= b
<1>1. /\ r \in Int
      /\ (2 * b) * r <= 2 * a + b
      /\ 2 * a + b < (2 * b) * r + 2 * b
  BY DivBounds, 2 * a + b \in Int, 2 * b \in Nat \ {0} DEF RoundDiv
<1>2. (2 * b) * r = 2 * (b * r) /\ b * r \in Int
  BY <1>1
<1> QED
  BY <1>1, <1>2

\* Adding pays the price of every lot too, but for the rounding of the average.
LEMMA AddLeg ==
  ASSUME NEW a, NEW signed, NEW price, NEW margin, NEW leverage,
         FillArguments(a, signed, price, margin, leverage),
         a.pos.size # 0, Sign(a.pos.size) = Sign(signed)
  PROVE  LegResult(a, AddToPosition(a, signed, price, margin, leverage), signed, price, margin)
<1> DEFINE size  == a.pos.size
           old   == Abs(size)
           added == Abs(signed)
           all   == old + added
           paid  == old * a.pos.entryPrice + added * price
           entry == RoundDiv(paid, all)
           r     == AddToPosition(a, signed, price, margin, leverage)
<1>1. /\ r.bal = a.bal /\ r.pos.size = size + signed /\ r.pos.entryPrice = entry
      /\ r.pos.margin = a.pos.margin + margin
  BY DEF AddToPosition, Restated
<1>2. /\ a.pos.entryPrice \in Int /\ a.pos.margin \in Int /\ a.bal.total \in Int
      /\ a.bal.locked \in Int /\ size \in Int /\ signed \in Int /\ price \in Int /\ margin \in Nat
  BY DEF FillArguments, PositionConsistent, Account, Balance, Position
<1>3. \/ size > 0 /\ signed > 0 /\ old = size /\ added = signed
      \/ size < 0 /\ signed < 0 /\ old = -size /\ added = -signed
  BY <1>2 DEF Sign, Abs, FillArguments
<1> DEFINE e == a.pos.entryPrice
<1> HIDE DEF r, old, added, size, e
<1>4. /\ old \in Nat \ {0} /\ added \in Nat \ {0} /\ all \in Nat \ {0}
      /\ old * e \in Int /\ added * price \in Int /\ paid \in Int
      /\ size * e \in Int /\ signed * price \in Int
  BY <1>2, <1>3 DEF e
<1>5. entry \in Int /\ 2 * (all * entry) - 2 * paid <= all /\ 2 * paid - 2 * (all * entry) <= all
  <2> HIDE DEF all, paid
  <2> QED
    BY <1>4, RoundDivError
<1> DEFINE error == Worth(r) - Worth(a) + price * signed
<1>6. Worth(r) = a.bal.total - entry * (size + signed) /\ Worth(a) = a.bal.total - e * size
  BY <1>1 DEF Worth, e, size
<1>7. paid = old * e + added * price
  BY DEF e
<1> HIDE DEF entry, paid
<1>8. /\ Abs(size + signed) = all
      /\ error = paid - all * entry \/ error = all * entry - paid
  <2>1. CASE size > 0 /\ signed > 0 /\ old = size /\ added = signed
    <3>1. all * entry = entry * (size + signed) /\ all = size + signed
      BY <1>2, <1>5, <2>1
    <3>2. paid = e * size + price * signed
      BY <1>2, <1>7, <2>1 DEF e
    <3>3. entry * (size + signed) \in Int /\ e * size \in Int /\ price * signed \in Int
      BY <1>2, <1>5 DEF e
    <3> HIDE DEF all
    <3>4. error = paid - all * entry
      BY <1>2, <1>6, <3>1, <3>2, <3>3
    <3> QED
      BY <1>2, <2>1, <3>1, <3>4 DEF Abs
  <2>2. CASE size < 0 /\ signed < 0 /\ old = -size /\ added = -signed
    <3>1. all * entry = -(entry * (size + signed)) /\ all = -(size + signed)
      BY <1>2, <1>5, <2>2
    <3>2. paid = -(e * size) - price * signed
      BY <1>2, <1>7, <2>2 DEF e
    <3>3. entry * (size + signed) \in Int /\ e * size \in Int /\ price * signed \in Int
      BY <1>2, <1>5 DEF e
    <3> HIDE DEF all
    <3>4. error = all * entry - paid
      BY <1>2, <1>6, <3>1, <3>2, <3>3
    <3> QED
      BY <1>2, <2>2, <3>1, <3>4 DEF Abs
  <2> QED
    BY <1>3, <2>1, <2>2
<1>9. paid \in Int /\ all * entry \in Int
  BY <1>2, <1>4, <1>5 DEF paid
<1> HIDE DEF all
<1>10. 2 * Abs(error) <= Abs(size + signed)
  <2> HIDE DEF error
  <2> QED
    BY <1>5, <1>8, <1>9, <1>4 DEF Abs
<1>11. Spare(r) = Spare(a) - margin
  BY <1>1, <1>2 DEF Spare
<1> QED
  BY <1>1, <1>10, <1>11 DEF LegResult, size, r

\* A rounded share of the whole is the whole.
LEMMA RoundDivWhole ==
  ASSUME NEW n \in Nat \ {0}, NEW m \in Nat
  PROVE  RoundDiv(n * m, n) = m
<1> DEFINE r == RoundDiv(n * m, n)
<1>1. n * m \in Int
  OBVIOUS
<1>2. r \in Int /\ 2 * (n * r) - 2 * (n * m) <= n /\ 2 * (n * m) - 2 * (n * r) <= n
  BY <1>1, RoundDivError
<1>3. r \in 0..m
  <2>1. n \in Nat /\ n <= n
    OBVIOUS
  <2> QED
    BY <2>1, RoundDivShare
<1> HIDE DEF r
<1>4. r >= m
  <2>1. SUFFICES ASSUME r <= m - 1 PROVE FALSE
    BY <1>2
  <2>2. n * r <= n * (m - 1) /\ n * (m - 1) = n * m - n /\ n * r \in Int /\ n * m \in Int
    BY <1>2, <2>1
  <2> QED
    BY <1>2, <2>2
<1>5. r = m
  BY <1>3, <1>4
<1> QED
  BY <1>5 DEF r

\* Reducing, closing and flipping settle the lots that are closed and pay for
\* those that are opened; each release gives back what it is asked to.
LEMMA ReduceLeg ==
  ASSUME NEW a, NEW signed, NEW price, NEW margin, NEW leverage,
         FillArguments(a, signed, price, margin, leverage),
         a.pos.size # 0, Sign(a.pos.size) # Sign(signed)
  PROVE  LegResult(a, ReducePosition(a, signed, price, margin, leverage), signed, price, margin)
<1> DEFINE p        == a.pos
           absPos   == Abs(p.size)
           absTrade == Abs(signed)
           closed   == Least(absPos, absTrade)
           pnl      == (price - p.entryPrice) * closed * Sign(p.size)
           freed    == RoundDiv(closed * p.margin, absPos)
           unused   == RoundDiv(closed * margin, absTrade)
           size     == p.size + signed
           left     == p.margin - freed
           kept     == margin - unused
           b1       == Release(a.bal, freed)
           b2       == ApplyPnl(b1, pnl)
           b3       == Release(b2, unused)
           b4       == Release(b3, left)
           r        == ReducePosition(a, signed, price, margin, leverage)
<1>1. /\ a.bal \in Balance /\ p.margin \in Nat /\ p.size \in Int \ {0}
      /\ p.entryPrice \in Int /\ signed \in Int \ {0} /\ price \in Int /\ margin \in Nat
      /\ a.bal.total \in Int /\ a.bal.locked \in Int
  BY DEF FillArguments, Account, Position, Balance, PositionConsistent
<1>2. /\ absPos \in Nat \ {0} /\ absTrade \in Nat \ {0} /\ closed \in Nat \ {0}
      /\ closed <= absPos /\ closed <= absTrade /\ size \in Int
      /\ closed = absPos \/ closed = absTrade
      /\ size = 0 => closed = absPos /\ closed = absTrade
      /\ absTrade > absPos => closed = absPos
      /\ size # 0 /\ ~(absTrade > absPos) => closed = absTrade
  BY <1>1 DEF Abs, Least, Sign
<1>3. freed \in 0..p.margin /\ unused \in 0..margin
  BY <1>1, <1>2, RoundDivShare
<1>4. /\ closed = absPos => freed = p.margin
      /\ closed = absTrade => unused = margin
  BY <1>1, <1>2, RoundDivWhole
<1>5. closed * Sign(p.size) = IF closed = absPos THEN p.size ELSE -signed
  BY <1>1, <1>2 DEF Abs, Sign, Least
<1>6. pnl = (price - p.entryPrice) * (closed * Sign(p.size)) /\ pnl \in Int
  BY <1>1, <1>2 DEF Sign
<1>7. /\ size = 0 => r = [bal |-> b4, pos |-> Restated(p, 0, 0, 0, p.leverage, pnl)]
      /\ size # 0 /\ absTrade > absPos =>
           r = [bal |-> b3, pos |-> Restated(p, size, price, kept, leverage, pnl)]
      /\ size # 0 /\ ~(absTrade > absPos) =>
           r = [bal |-> b3, pos |-> Restated(p, size, p.entryPrice, left, p.leverage, pnl)]
  BY DEF ReducePosition
<1> HIDE DEF absPos, absTrade, closed, pnl, freed, unused, size, r
<1>8. left \in Nat /\ kept \in Nat /\ freed \in Nat /\ unused \in Nat /\ left \in Int /\ freed \in Int
      /\ unused \in Int
  BY <1>1, <1>3
<1> HIDE DEF left, kept
<1>9. /\ b1 \in Balance /\ b2 \in Balance /\ b3 \in Balance /\ b4 \in Balance
      /\ b3.total = a.bal.total + pnl /\ b4.total = a.bal.total + pnl
      /\ b1.locked \in Int /\ b2.locked = b1.locked
  <2>1. b1 \in Balance /\ b1.total = a.bal.total
    BY <1>1, <1>8, BalanceType, BalanceTotal
  <2> HIDE DEF b1
  <2>2. b2 \in Balance /\ b2.total = b1.total + pnl /\ b2.locked = b1.locked
    BY <1>6, <2>1, BalanceType, BalanceTotal DEF ApplyPnl
  <2> HIDE DEF b2
  <2>3. b3 \in Balance /\ b3.total = b2.total
    BY <1>8, <2>2, BalanceType, BalanceTotal
  <2> HIDE DEF b3
  <2>4. b4 \in Balance /\ b4.total = b3.total
    BY <1>8, <2>3, BalanceType, BalanceTotal
  <2> QED
    BY <2>1, <2>2, <2>3, <2>4 DEF Balance
<1>10. ASSUME margin <= Spare(a)
       PROVE  /\ b3.locked = a.bal.locked - freed - unused
              /\ freed = p.margin => b4.locked = b3.locked
              /\ Spare(a) = a.bal.locked - p.margin
  <2>1. Spare(a) = a.bal.locked - p.margin /\ freed + unused <= a.bal.locked
    BY <1>1, <1>3, <1>10 DEF Spare
  <2>2. b1.locked = a.bal.locked - freed
    BY <1>1, <1>8, <2>1, ReleaseAll
  <2> HIDE DEF b1
  <2>3. unused <= b2.locked
    BY <1>1, <1>8, <1>9, <2>1, <2>2
  <2> HIDE DEF b2
  <2>4. b3.locked = b2.locked - unused
    BY <1>8, <1>9, <2>3, ReleaseAll
  <2>5. /\ b3.locked = a.bal.locked - freed - unused
    BY <1>1, <1>8, <1>9, <2>2, <2>4
  <2> HIDE DEF b3
  <2>6. ASSUME freed = p.margin PROVE b4.locked = b3.locked
    <3>1. left = 0 /\ 0 <= b3.locked /\ b3.locked \in Int
      BY <1>1, <1>8, <2>1, <2>5, <2>6 DEF left
    <3>2. b4.locked = b3.locked - left
      BY <1>8, <1>9, <3>1, ReleaseAll
    <3> QED
      BY <3>1, <3>2
  <2> QED
    BY <2>1, <2>5, <2>6
<1> HIDE DEF b1, b2, b3, b4
<1> DEFINE e == p.entryPrice
<1>11. Worth(a) = a.bal.total - e * p.size /\ e * p.size \in Int /\ price * signed \in Int
  BY <1>1 DEF Worth
<1>12. SUFFICES /\ r.pos.size = size
                /\ margin <= Spare(a) => Spare(r) = Spare(a) - margin
                /\ Worth(r) - Worth(a) + price * signed = 0
  BY <1>1 DEF LegResult, size, r
<1>13. CASE size = 0
  <2>1. r.bal = b4 /\ r.pos.size = size /\ r.pos.margin = 0 /\ r.pos.entryPrice = 0
    BY <1>7, <1>13 DEF Restated
  <2>2. pnl = (price - e) * p.size
    BY <1>2, <1>5, <1>6, <1>13
  <2>7. p.size = -signed
    BY <1>1, <1>13 DEF size
  <2>3. pnl = -(price * signed) - e * p.size
    BY <1>1, <2>2, <2>7
  <2>4. Worth(r) = b4.total
    <3>1. Worth(r) = b4.total - 0 * 0 /\ b4.total \in Int
      BY <1>9, <1>13, <2>1 DEF Worth, Balance
    <3> QED
      BY <3>1
  <2>5. Worth(r) - Worth(a) + price * signed = 0
    BY <1>1, <1>6, <1>9, <1>11, <2>3, <2>4
  <2>6. margin <= Spare(a) => Spare(r) = Spare(a) - margin
    <3> HAVE margin <= Spare(a)
    <3>1. b4.locked = a.bal.locked - p.margin - margin /\ Spare(a) = a.bal.locked - p.margin
      BY <1>2, <1>4, <1>10, <1>13
    <3> QED
      BY <1>1, <2>1, <3>1 DEF Spare
  <2> QED
    BY <2>1, <2>5, <2>6
<1>14. CASE size # 0 /\ absTrade > absPos
  <2>1. r.bal = b3 /\ r.pos.size = size /\ r.pos.margin = kept /\ r.pos.entryPrice = price
    BY <1>7, <1>14 DEF Restated
  <2>2. pnl = (price - e) * p.size
    BY <1>1, <1>2, <1>5, <1>6, <1>14
  <2>3. pnl = price * p.size - e * p.size /\ price * size = price * p.size + price * signed
    BY <1>1, <2>2 DEF size
  <2>4. Worth(r) = b3.total - price * size /\ price * p.size \in Int
    BY <1>1, <2>1 DEF Worth
  <2>5. Worth(r) - Worth(a) + price * signed = 0
    BY <1>1, <1>6, <1>9, <1>11, <2>3, <2>4
  <2>6. margin <= Spare(a) => Spare(r) = Spare(a) - margin
    <3> HAVE margin <= Spare(a)
    <3>1. b3.locked = a.bal.locked - p.margin - unused /\ Spare(a) = a.bal.locked - p.margin
      BY <1>2, <1>4, <1>10, <1>14
    <3> QED
      BY <1>1, <1>8, <2>1, <3>1 DEF Spare, kept
  <2> QED
    BY <2>1, <2>5, <2>6
<1>15. CASE size # 0 /\ ~(absTrade > absPos)
  <2>1. r.bal = b3 /\ r.pos.size = size /\ r.pos.margin = left /\ r.pos.entryPrice = e
    BY <1>7, <1>15 DEF Restated
  <2>2. pnl = -((price - e) * signed)
    <3>1. closed * Sign(p.size) = -signed
      BY <1>1, <1>2, <1>5, <1>15 DEF size, absPos, absTrade, Abs
    <3> QED
      BY <1>1, <1>6, <3>1
  <2>3. pnl = -(price * signed) + e * signed /\ e * size = e * p.size + e * signed
    BY <1>1, <2>2 DEF size
  <2>4. Worth(r) = b3.total - e * size /\ e * signed \in Int
    BY <1>1, <2>1 DEF Worth
  <2>5. Worth(r) - Worth(a) + price * signed = 0
    BY <1>1, <1>6, <1>9, <1>11, <2>3, <2>4
  <2>6. margin <= Spare(a) => Spare(r) = Spare(a) - margin
    <3> HAVE margin <= Spare(a)
    <3>1. b3.locked = a.bal.locked - freed - margin /\ Spare(a) = a.bal.locked - p.margin
      BY <1>2, <1>4, <1>10, <1>15
    <3> QED
      BY <1>1, <1>8, <2>1, <3>1 DEF Spare, left
  <2> QED
    BY <2>1, <2>5, <2>6
<1> QED
  BY <1>13, <1>14, <1>15

\* One leg of a fill, whichever way it goes.
LEMMA ApplyFillLeg ==
  ASSUME NEW a \in Account, PositionConsistent(a.pos), NEW side \in Sides, NEW price \in Int,
         NEW quantity \in Nat \ {0}, NEW margin \in Nat, NEW leverage \in Nat \ {0}
  PROVE  LegResult(a, ApplyFill(a, side, price, quantity, margin, leverage),
                   Signed(side, quantity), price, margin)
<1> DEFINE signed == Signed(side, quantity)
<1>1. FillArguments(a, signed, price, margin, leverage)
  BY DEF FillArguments, Signed
<1> HIDE DEF signed
<1>2. ApplyFill(a, side, price, quantity, margin, leverage)
        = IF a.pos.size = 0
          THEN OpenPosition(a, signed, price, margin, leverage)
          ELSE IF Sign(a.pos.size) = Sign(signed)
          THEN AddToPosition(a, signed, price, margin, leverage)
          ELSE ReducePosition(a, signed, price, margin, leverage)
  BY DEF ApplyFill, signed
<1>3. LegResult(a, ApplyFill(a, side, price, quantity, margin, leverage), signed, price, margin)
  BY <1>1, <1>2, OpenLeg, AddLeg, ReduceLeg
<1> QED
  BY <1>3 DEF signed

\* A new mark price changes nothing that is locked for something else.
LEMMA MarkSpare ==
  ASSUME NEW a \in Account, PositionConsistent(a.pos), NEW mark \in Int, Spare(a) >= 0
  PROVE  Spare(MarkToMarket(a, mark)) = Spare(a) /\ Spare(Liquidate(a, mark)) = Spare(a)
<1> DEFINE pnl == (mark - a.pos.entryPrice) * a.pos.size
           b1  == Release(a.bal, a.pos.margin)
           b2  == ApplyPnl(b1, pnl)
           r   == Liquidate(a, mark)
<1>1. /\ a.bal \in Balance /\ a.pos.margin \in Nat /\ a.bal.locked \in Int
      /\ Spare(a) = a.bal.locked - a.pos.margin
  BY DEF Account, Position, Balance, PositionConsistent, Spare
<1>2. b1.locked = a.bal.locked - a.pos.margin
  BY <1>1, ReleaseAll
<1>3. b2.locked = b1.locked
  BY DEF ApplyPnl
<1>4. r.bal = b2 /\ r.pos.margin = 0
  BY DEF Liquidate, Restated
<1> HIDE DEF b1, b2, r
<1>5. Spare(r) = Spare(a)
  BY <1>1, <1>2, <1>3, <1>4 DEF Spare
<1>6. Spare(MarkToMarket(a, mark)) = Spare(a)
  BY DEF Spare, MarkToMarket, Account, Position, Balance
<1> QED
  BY <1>5, <1>6 DEF r

-----------------------------------------------------------------------------
(* A new mark price *)

\* Marking a position changes nothing that these properties are about, and a
\* forced close realizes the loss and leaves a flat position.
LEMMA MarkResult ==
  ASSUME NEW a \in Account, PositionConsistent(a.pos), NEW mark \in Int
  PROVE  FillResult(a, MarkToMarket(a, mark)) /\ FillResult(a, Liquidate(a, mark))
<1> DEFINE pnl    == (mark - a.pos.entryPrice) * a.pos.size
           margin == a.pos.margin
           lev    == a.pos.leverage
           b1     == Release(a.bal, margin)
           b2     == ApplyPnl(b1, pnl)
           r      == Restated(a.pos, 0, 0, 0, lev, pnl)
<1>1. /\ pnl \in Int /\ margin \in Int /\ a.bal \in Balance /\ a.pos \in Position
      /\ lev \in Nat \ {0}
  BY DEF Account, Position, PositionConsistent
<1>2. FillResult(a, MarkToMarket(a, mark))
  BY <1>1 DEF MarkToMarket, FillResult, Account, Position, Balance, PositionConsistent
<1>3. FillResult(a, Liquidate(a, mark))
  <2>1. Liquidate(a, mark) = [bal |-> b2, pos |-> [r EXCEPT !.unrealizedPnl = 0]]
    BY DEF Liquidate
  <2> HIDE DEF pnl, margin, lev
  <2>2. r \in Position /\ PositionConsistent(r) /\ r.realizedPnl = a.pos.realizedPnl + pnl
    BY <1>1, FlatResult
  <2>3. b1 \in Balance /\ b1.total = a.bal.total /\ (BalanceAddsUp(a.bal) => BalanceAddsUp(b1))
    BY <1>1, BalanceType, BalanceStaysSound, BalanceTotal
  <2> HIDE DEF b1
  <2>4. /\ b2 \in Balance /\ b2.total = b1.total + pnl
        /\ BalanceAddsUp(b1) => BalanceAddsUp(b2)
    BY <1>1, <2>3, BalanceType, BalanceStaysSound, BalanceTotal
  <2> HIDE DEF b2, r
  <2>5. /\ [r EXCEPT !.unrealizedPnl = 0] \in Position
        /\ PositionConsistent([r EXCEPT !.unrealizedPnl = 0])
        /\ [r EXCEPT !.unrealizedPnl = 0].realizedPnl = r.realizedPnl
    BY <2>2 DEF Position, PositionConsistent
  <2> QED
    BY <1>1, <2>1, <2>2, <2>3, <2>4, <2>5 DEF FillResult, Account, Position, Balance
<1> QED
  BY <1>2, <1>3

-----------------------------------------------------------------------------
(* Sequences *)

\* findIndex returns the first index of an element that passes the test.
LEMMA FirstIndex ==
  ASSUME NEW S, NEW s \in Seq(S), NEW I \in SUBSET (1..Len(s)),
         NEW f, f = IF I # {} THEN Min(I) ELSE 0
  PROVE  /\ f \in 0..Len(s)
         /\ f # 0 => f \in I
         /\ f = 0 => I = {}
         /\ \A i \in I : f <= i
<1>1. Len(s) \in Nat
  BY LenProperties
<1>2. I \subseteq Nat
  BY <1>1
<1>3. CASE I = {}
  BY <1>1, <1>3
<1>4. CASE I # {}
  <2>1. Min(I) \in I /\ \A y \in I : Min(I) <= y
    BY <1>2, <1>4, MinOfNaturals
  <2>2. f = Min(I)
    BY <1>4
  <2>3. f \in I /\ \A i \in I : f <= i
    BY <2>1, <2>2
  <2>4. f \in 1..Len(s)
    BY <2>3
  <2> QED
    BY <1>1, <1>4, <2>3, <2>4
<1> QED
  BY <1>3, <1>4

\* What InsertAt returns, for one element of the result.
LEMMA InsertAtElement ==
  ASSUME NEW S, NEW s \in Seq(S), NEW at \in 1..(Len(s) + 1), NEW e \in S,
         NEW j \in 1..(Len(s) + 1)
  PROVE  /\ j < at => InsertAt(s, at, e)[j] = s[j]
         /\ j > at => InsertAt(s, at, e)[j] = s[j - 1]
<1>1. \A i \in 1..(Len(s) + 1) :
        /\ i < at => InsertAt(s, at, e)[i] = s[i]
        /\ i > at => InsertAt(s, at, e)[i] = s[i - 1]
  BY InsertAtResult
<1> QED
  BY <1>1

LEMMA RemoveAtResult ==
  ASSUME NEW S, NEW s \in Seq(S), NEW at \in 1..Len(s)
  PROVE  /\ RemoveAt(s, at) \in Seq(S)
         /\ Len(RemoveAt(s, at)) = Len(s) - 1
         /\ \A j \in 1..(Len(s) - 1) :
              RemoveAt(s, at)[j] = IF j < at THEN s[j] ELSE s[j + 1]
<1> DEFINE front == SubSeq(s, 1, at - 1)
           back  == SubSeq(s, at + 1, Len(s))
<1>1. Len(s) \in Nat /\ \A i \in 1..Len(s) : s[i] \in S
  BY LenProperties, ElementOfSeq
<1>2. /\ front \in Seq(S) /\ Len(front) = at - 1
      /\ \A i \in 1..(at - 1) : front[i] = s[i]
  BY <1>1, SubSeqProperties
<1>3. /\ back \in Seq(S) /\ Len(back) = Len(s) - at
      /\ \A i \in 1..(Len(s) - at) : back[i] = s[at + i]
  BY <1>1, SubSeqProperties
<1> HIDE DEF front, back
<1>4. /\ front \o back \in Seq(S)
      /\ Len(front \o back) = Len(front) + Len(back)
      /\ \A i \in 1..(Len(front) + Len(back)) :
           (front \o back)[i] = IF i <= Len(front) THEN front[i] ELSE back[i - Len(front)]
  BY <1>2, <1>3, ConcatProperties
<1>5. RemoveAt(s, at) = front \o back
  BY DEF RemoveAt, front, back
<1>6. Len(front) + Len(back) = Len(s) - 1
  BY <1>1, <1>2, <1>3
<1>7. ASSUME NEW j \in 1..(Len(s) - 1)
      PROVE  (front \o back)[j] = IF j < at THEN s[j] ELSE s[j + 1]
  <2>1. (front \o back)[j] = IF j <= at - 1 THEN front[j] ELSE back[j - (at - 1)]
    BY <1>2, <1>4, <1>6
  <2>2. CASE j < at
    BY <1>2, <2>1, <2>2
  <2>3. CASE ~(j < at)
    <3>1. j - (at - 1) \in 1..(Len(s) - at) /\ at + (j - (at - 1)) = j + 1
      BY <1>1, <2>3
    <3>2. back[j - (at - 1)] = s[j + 1]
      BY <1>3, <3>1
    <3> QED
      BY <2>1, <2>3, <3>2
  <2> QED
    BY <2>2, <2>3
<1> QED
  BY <1>4, <1>5, <1>6, <1>7

-----------------------------------------------------------------------------
(* Levels *)

LEMMA LevelIndexResult ==
  ASSUME NEW S, NEW levels \in Seq(S), NEW price
  PROVE  /\ LevelIndex(levels, price) \in 0..Len(levels)
         /\ LevelIndex(levels, price) # 0 => levels[LevelIndex(levels, price)].price = price
         /\ \A i \in 1..Len(levels) :
              levels[i].price = price => LevelIndex(levels, price) # 0 /\ LevelIndex(levels, price) <= i
<1> DEFINE I == {i \in 1..Len(levels) : levels[i].price = price}
<1>1. LevelIndex(levels, price) = IF I # {} THEN Min(I) ELSE 0
  BY DEF LevelIndex, SelectInSeq
<1>2. I \in SUBSET (1..Len(levels))
  OBVIOUS
<1>3. /\ LevelIndex(levels, price) \in 0..Len(levels)
      /\ LevelIndex(levels, price) # 0 => LevelIndex(levels, price) \in I
      /\ LevelIndex(levels, price) = 0 => I = {}
      /\ \A i \in I : LevelIndex(levels, price) <= i
  <2> HIDE DEF I
  <2> QED BY <1>1, <1>2, FirstIndex
<1> QED
  BY <1>3

\* What a level of a well-typed side is.
LEMMA LevelType ==
  ASSUME NEW P, NEW O, NEW levels \in LevelsOf(P, O), NEW i \in 1..Len(levels)
  PROVE  /\ levels[i].price \in P
         /\ levels[i].orders \in Seq(O) \ {<<>>}
         /\ levels[i] = [price |-> levels[i].price, orders |-> levels[i].orders]
<1>1. levels[i] \in [price : P, orders : Seq(O) \ {<<>>}]
  BY ElementOfSeq DEF LevelsOf
<1> QED
  BY <1>1

\* Replacing the orders of one level: the elements of the side that results.
LEMMA SetOrdersValue ==
  ASSUME NEW S, NEW levels \in Seq(S), NEW at \in 1..Len(levels), NEW orders
  PROVE  /\ Len(SetOrders(levels, at, orders)) = Len(levels)
         /\ \A j \in 1..Len(levels) :
              SetOrders(levels, at, orders)[j] =
                IF j = at THEN [price |-> levels[at].price, orders |-> orders] ELSE levels[j]
<1> DEFINE level == [price |-> levels[at].price, orders |-> orders]
<1>1. SetOrders(levels, at, orders) = [levels EXCEPT ![at] = level]
  BY DEF SetOrders
<1> HIDE DEF level
<1>2. levels \in Seq(S \cup {level})
  BY SeqMonotonic
<1>3. /\ Len([levels EXCEPT ![at] = level]) = Len(levels)
      /\ \A j \in 1..Len(levels) :
           [levels EXCEPT ![at] = level][j] = IF j = at THEN level ELSE levels[j]
  BY <1>2, ExceptSeq
<1> QED
  BY <1>1, <1>3 DEF level

\* Replacing the orders of one level.
LEMMA SetOrdersResult ==
  ASSUME NEW P, NEW O, NEW levels \in LevelsOf(P, O), NEW at \in 1..Len(levels), NEW orders
  PROVE  /\ Len(SetOrders(levels, at, orders)) = Len(levels)
         /\ \A j \in 1..Len(levels) :
              SetOrders(levels, at, orders)[j] =
                IF j = at THEN [price |-> levels[at].price, orders |-> orders] ELSE levels[j]
         /\ SetOrders(levels, at, orders) \in Seq([price : P, orders : Seq(O) \cup {orders}])
         /\ orders \in Seq(O) \ {<<>>} => SetOrders(levels, at, orders) \in LevelsOf(P, O)
<1> DEFINE level == [price |-> levels[at].price, orders |-> orders]
           S     == [price : P, orders : Seq(O) \cup {orders}]
           new   == [levels EXCEPT ![at] = level]
<1>1. levels[at].price \in P
  BY LevelType
<1>2. SetOrders(levels, at, orders) = new
  BY DEF SetOrders
<1>3. [price : P, orders : Seq(O) \ {<<>>}] \subseteq S
  OBVIOUS
<1>4. levels \in Seq(S)
  BY <1>3, SeqMonotonic DEF LevelsOf
<1>5. level \in S
  BY <1>1
<1>6. orders \in Seq(O) \ {<<>>} => level \in [price : P, orders : Seq(O) \ {<<>>}]
  BY <1>1
<1> HIDE DEF level, S
<1>7. /\ new \in Seq(S) /\ Len(new) = Len(levels)
      /\ \A j \in 1..Len(levels) : new[j] = IF j = at THEN level ELSE levels[j]
  BY <1>4, <1>5, ExceptSeq
<1>8. orders \in Seq(O) \ {<<>>} => new \in LevelsOf(P, O)
  BY <1>6, ExceptSeq DEF LevelsOf
<1> QED
  BY <1>2, <1>7, <1>8 DEF level, S

-----------------------------------------------------------------------------
(* A fill or a cancel: one level gets other orders, and goes when it has none *)

LEMMA AlterLevelResult ==
  ASSUME NEW P, NEW O, NEW levels \in LevelsOf(P, O), NEW at \in 1..Len(levels),
         at = LevelIndex(levels, levels[at].price), NEW orders \in Seq(O)
  PROVE  RemoveEmptyLevel(SetOrders(levels, at, orders), levels[at].price) =
           IF orders = <<>> THEN RemoveAt(SetOrders(levels, at, orders), at)
                            ELSE SetOrders(levels, at, orders)
<1> DEFINE price == levels[at].price
           new == SetOrders(levels, at, orders)
           S   == [price : P, orders : Seq(O) \cup {orders}]
<1>1. Len(levels) \in Nat /\ levels \in Seq([price : P, orders : Seq(O) \ {<<>>}])
  BY LenProperties DEF LevelsOf
<1>2. /\ new \in Seq(S) /\ Len(new) = Len(levels)
      /\ \A j \in 1..Len(levels) :
           new[j] = IF j = at THEN [price |-> price, orders |-> orders] ELSE levels[j]
  BY SetOrdersResult
<1>3. \A j \in 1..Len(levels) : new[j].price = levels[j].price
  BY <1>2
<1>4. \A j \in 1..Len(levels) : levels[j].price = price => at <= j
  BY <1>1, LevelIndexResult
<1>5. new[at].orders = orders
  BY <1>2
<1> HIDE DEF new, S, price
<1>6. /\ LevelIndex(new, price) \in 0..Len(new)
      /\ LevelIndex(new, price) # 0 => new[LevelIndex(new, price)].price = price
      /\ \A i \in 1..Len(new) :
           new[i].price = price => LevelIndex(new, price) # 0 /\ LevelIndex(new, price) <= i
  BY <1>2, LevelIndexResult
<1>7. new[at].price = price
  BY <1>3 DEF price
<1>8. LevelIndex(new, price) = at
  BY <1>1, <1>2, <1>3, <1>4, <1>6, <1>7
<1>9. RemoveEmptyLevel(new, price) = IF orders = <<>> THEN RemoveAt(new, at) ELSE new
  BY <1>5, <1>8 DEF RemoveEmptyLevel
<1> QED
  BY <1>9 DEF new, price

LEMMA DomainOfSeq ==
  ASSUME NEW S, NEW s \in Seq(S)
  PROVE  DOMAIN s = 1..Len(s)
BY LenProperties

\* A sequence of which every element is in T.
LEMMA SeqOfElements ==
  ASSUME NEW S, NEW T, NEW s \in Seq(S), \A i \in 1..Len(s) : s[i] \in T
  PROVE  s \in Seq(T)
<1>1. Len(s) \in Nat /\ s = [i \in 1..Len(s) |-> s[i]]
  BY LenProperties, SeqDef
<1> QED
  BY <1>1, SeqDef

\* Every level of the side that results is one of before, in the same order, or
\* the level that got other orders.
LEMMA ReplaceLevelResult ==
  ASSUME NEW P \in SUBSET Int, NEW O, NEW levels \in LevelsOf(P, O), NEW at \in 1..Len(levels),
         at = LevelIndex(levels, levels[at].price), NEW orders \in Seq(O), NEW side,
         NEW r, r = RemoveEmptyLevel(SetOrders(levels, at, orders), levels[at].price)
  PROVE  /\ r \in LevelsOf(P, O)
         /\ /\ LevelsWellFormed(side, levels)
            /\ QueueWellFormed(side, levels[at].price, levels[at].orders) /\ orders # <<>> =>
                 QueueWellFormed(side, levels[at].price, orders)
            => LevelsWellFormed(side, r)
<1> DEFINE new == SetOrders(levels, at, orders)
           T   == [price : P, orders : Seq(O) \ {<<>>}]
           S   == [price : P, orders : Seq(O) \cup {orders}]
           lvl == [price |-> levels[at].price, orders |-> orders]
<1>1. Len(levels) \in Nat /\ levels \in Seq(T)
  BY LenProperties DEF LevelsOf
<1>2. /\ new \in Seq(S) /\ Len(new) = Len(levels)
      /\ \A j \in 1..Len(levels) : new[j] = IF j = at THEN lvl ELSE levels[j]
      /\ orders # <<>> => new \in LevelsOf(P, O)
  <2> HIDE DEF T
  <2>1. /\ Len(new) = Len(levels)
        /\ \A j \in 1..Len(levels) : new[j] = IF j = at THEN lvl ELSE levels[j]
    <3>1. levels \in Seq(T)
      BY <1>1
    <3> QED
      BY <3>1, SetOrdersValue
  <2>2. new \in Seq(S)
    BY SetOrdersResult
  <2>3. orders # <<>> => new \in LevelsOf(P, O)
    BY SetOrdersResult
  <2> QED
    BY <2>1, <2>2, <2>3
<1>3. r = IF orders = <<>> THEN RemoveAt(new, at) ELSE new
  BY AlterLevelResult
<1>4. \A j \in 1..Len(levels) : levels[j] \in T
  BY <1>1, ElementOfSeq
<1>5. lvl.price = levels[at].price
  OBVIOUS
<1>8. levels \in Seq(T) /\ (r \in Seq(T) => r \in LevelsOf(P, O))
  BY DEF LevelsOf
<1>9. DOMAIN levels = 1..Len(levels) /\ (r \in LevelsOf(P, O) => DOMAIN r = 1..Len(r))
  BY DomainOfSeq DEF LevelsOf
<1> HIDE DEF new, S, lvl, T
<1>10. SUFFICES /\ r \in LevelsOf(P, O)
                /\ LevelsSorted(side, levels) => LevelsSorted(side, r)
                /\ /\ \A i \in 1..Len(levels) : QueueWellFormed(side, levels[i].price, levels[i].orders)
                   /\ orders # <<>> => QueueWellFormed(side, levels[at].price, orders)
                   => \A i \in 1..Len(r) : QueueWellFormed(side, r[i].price, r[i].orders)
  BY <1>9 DEF LevelsWellFormed
<1>6. CASE orders # <<>>
  <2>1. r = new
    BY <1>3, <1>6
  <2>2. LevelsSorted(side, levels) => LevelsSorted(side, r)
    <3>1. DOMAIN levels = 1..Len(levels) /\ DOMAIN new = 1..Len(levels)
      BY <1>2, <1>8, DomainOfSeq
    <3>2. \A j \in 1..Len(levels) : new[j].price = levels[j].price
      BY <1>2, <1>5
    <3> QED
      BY <2>1, <3>1, <3>2 DEF LevelsSorted
  <2>3. QueueWellFormed(side, lvl.price, lvl.orders) /\ (\A i \in 1..Len(levels) : QueueWellFormed(side, levels[i].price, levels[i].orders))
        => \A i \in 1..Len(r) : QueueWellFormed(side, r[i].price, r[i].orders)
    BY <1>2, <2>1
  <2> QED
    BY <1>2, <1>6, <2>1, <2>2, <2>3 DEF lvl
<1>7. CASE orders = <<>>
  <2>1. /\ r \in Seq(S) /\ Len(r) = Len(levels) - 1
        /\ \A j \in 1..(Len(levels) - 1) : r[j] = IF j < at THEN new[j] ELSE new[j + 1]
    BY <1>2, <1>3, <1>7, RemoveAtResult
  <2> DEFINE old(j) == IF j < at THEN j ELSE j + 1
  <2>2. \A j \in 1..Len(r) : old(j) \in 1..Len(levels) /\ old(j) # at
    BY <1>1, <2>1
  <2>3. \A j \in 1..Len(r) : r[j] = levels[old(j)]
    <3>1. \A j \in 1..Len(r) : r[j] = new[old(j)]
      BY <1>1, <2>1
    <3> HIDE DEF old
    <3> QED
      BY <1>2, <2>2, <3>1
  <2>4. \A i, j \in 1..Len(r) : i < j => old(i) < old(j)
    BY <1>1, <2>1
  <2>5. DOMAIN levels = 1..Len(levels) /\ DOMAIN r = 1..Len(r)
    BY <1>8, <2>1, DomainOfSeq
  <2> HIDE DEF old
  <2>6. \A j \in 1..Len(r) : r[j] \in T
    BY <1>4, <2>2, <2>3
  <2>7. r \in LevelsOf(P, O)
    BY <1>8, <2>1, <2>6, SeqOfElements
  <2>8. LevelsSorted(side, levels) => LevelsSorted(side, r)
    <3>1. SUFFICES ASSUME LevelsSorted(side, levels), NEW i \in 1..Len(r), NEW j \in 1..Len(r), i < j
                   PROVE  BetterFirst(side, r[i].price, r[j].price)
      BY <2>5 DEF LevelsSorted
    <3>2. BetterFirst(side, levels[old(i)].price, levels[old(j)].price)
      BY <2>2, <2>4, <2>5, <3>1 DEF LevelsSorted
    <3> QED
      BY <2>3, <3>2
  <2>9. (\A i \in 1..Len(levels) : QueueWellFormed(side, levels[i].price, levels[i].orders))
        => \A i \in 1..Len(r) : QueueWellFormed(side, r[i].price, r[i].orders)
    BY <2>2, <2>3
  <2> QED
    BY <1>7, <2>7, <2>8, <2>9
<1> QED
  BY <1>6, <1>7

-----------------------------------------------------------------------------
(* An order that rests *)

\* Index of the first level of which the price is worse, 0 when there is none.
FirstWorse(levels, order) ==
  SelectInSeq(levels, LAMBDA l : BetterFirst(order.side, order.price, l.price))

LEMMA FirstWorseResult ==
  ASSUME NEW S, NEW levels \in Seq(S), NEW order
  PROVE  /\ FirstWorse(levels, order) \in 0..Len(levels)
         /\ FirstWorse(levels, order) # 0 =>
              BetterFirst(order.side, order.price, levels[FirstWorse(levels, order)].price)
         /\ \A i \in 1..Len(levels) :
              BetterFirst(order.side, order.price, levels[i].price)
              => FirstWorse(levels, order) # 0 /\ FirstWorse(levels, order) <= i
<1> DEFINE I == {i \in 1..Len(levels) : BetterFirst(order.side, order.price, levels[i].price)}
           w == FirstWorse(levels, order)
<1>1. w = IF I # {} THEN Min(I) ELSE 0
  BY DEF FirstWorse, SelectInSeq
<1>2. I \in SUBSET (1..Len(levels))
  OBVIOUS
<1>3. /\ w \in 0..Len(levels)
      /\ w # 0 => w \in I
      /\ w = 0 => I = {}
      /\ \A i \in I : w <= i
  <2> HIDE DEF I, w
  <2> QED BY <1>1, <1>2, FirstIndex
<1> QED
  BY <1>3

LEMMA BetterFirstOrder ==
  ASSUME NEW side, NEW a \in Int, NEW b \in Int, NEW c \in Int
  PROVE  /\ BetterFirst(side, a, b) /\ BetterFirst(side, b, c) => BetterFirst(side, a, c)
         /\ a = b \/ BetterFirst(side, a, b) \/ BetterFirst(side, b, a)
         /\ ~(BetterFirst(side, a, b) /\ BetterFirst(side, b, a))
         /\ ~BetterFirst(side, a, a)
BY DEF BetterFirst

\* The order at the tail of its level, younger than the orders there.
LEMMA AppendQueue ==
  ASSUME NEW O, NEW orders \in Seq(O), NEW order \in O, NEW price, NEW side,
         QueueWellFormed(side, price, orders),
         \A k \in 1..Len(orders) : orders[k].id < order.id,
         LiveAt(side, price, order)
  PROVE  /\ Append(orders, order) \in Seq(O) \ {<<>>}
         /\ QueueWellFormed(side, price, Append(orders, order))
<1> DEFINE new == Append(orders, order)
<1>1. /\ new \in Seq(O) /\ Len(new) = Len(orders) + 1 /\ Len(orders) \in Nat
      /\ \A k \in 1..Len(orders) : new[k] = orders[k]
      /\ new[Len(orders) + 1] = order
  BY AppendProperties, LenProperties
<1> HIDE DEF new
<1>2. DOMAIN new = 1..(Len(orders) + 1) /\ DOMAIN orders = 1..Len(orders)
  BY <1>1, DomainOfSeq
<1>3. new # <<>>
  BY <1>1, EmptySeq
<1>4. InOrderOfArrival(orders) /\ \A k \in 1..Len(orders) : LiveAt(side, price, orders[k])
  BY <1>2 DEF QueueWellFormed
<1>5. InOrderOfArrival(new)
  <2>1. SUFFICES ASSUME NEW k \in 1..(Len(orders) + 1), NEW m \in 1..(Len(orders) + 1), k < m
                 PROVE  new[k].id < new[m].id
    BY <1>2 DEF InOrderOfArrival
  <2>2. k \in 1..Len(orders) /\ new[k] = orders[k]
    BY <1>1, <2>1
  <2>3. CASE m = Len(orders) + 1
    BY <1>1, <2>2, <2>3
  <2>4. CASE m # Len(orders) + 1
    <3>1. m \in 1..Len(orders)
      BY <1>1, <2>4
    <3> QED
      BY <1>1, <1>2, <1>4, <2>1, <2>2, <3>1 DEF InOrderOfArrival
  <2> QED
    BY <2>3, <2>4
<1>6. \A k \in 1..(Len(orders) + 1) : LiveAt(side, price, new[k])
  <2>1. \A k \in 1..(Len(orders) + 1) : k \in 1..Len(orders) \/ k = Len(orders) + 1
    BY <1>1
  <2> QED
    BY <1>1, <1>4, <2>1
<1> QED
  BY <1>1, <1>2, <1>3, <1>5, <1>6 DEF QueueWellFormed, new

\* A queue that loses one order, which may have been its last one.
LEMMA RemoveQueue ==
  ASSUME NEW O, NEW orders \in Seq(O), NEW at \in 1..Len(orders), NEW price, NEW side
  PROVE  /\ RemoveAt(orders, at) \in Seq(O)
         /\ /\ QueueWellFormed(side, price, orders)
            /\ RemoveAt(orders, at) # <<>>
            => QueueWellFormed(side, price, RemoveAt(orders, at))
<1> DEFINE new == RemoveAt(orders, at)
           old(k) == IF k < at THEN k ELSE k + 1
<1>1. /\ new \in Seq(O) /\ Len(new) = Len(orders) - 1
      /\ \A k \in 1..(Len(orders) - 1) : new[k] = IF k < at THEN orders[k] ELSE orders[k + 1]
      /\ Len(orders) \in Nat
  BY RemoveAtResult, LenProperties
<1> HIDE DEF new
<1>2. \A k \in 1..Len(new) : old(k) \in 1..Len(orders) /\ new[k] = orders[old(k)]
  BY <1>1
<1>3. \A k, m \in 1..Len(new) : k < m => old(k) < old(m)
  BY <1>1
<1>4. DOMAIN new = 1..Len(new) /\ DOMAIN orders = 1..Len(orders)
  BY <1>1, DomainOfSeq
<1> HIDE DEF old
<1>5. InOrderOfArrival(orders) => InOrderOfArrival(new)
  BY <1>2, <1>3, <1>4 DEF InOrderOfArrival
<1>6. (\A k \in 1..Len(orders) : LiveAt(side, price, orders[k]))
      => \A k \in 1..Len(new) : LiveAt(side, price, new[k])
  BY <1>2
<1> QED
  BY <1>1, <1>4, <1>5, <1>6 DEF QueueWellFormed, new

\* A queue of which the head has changed but is the same order.
LEMMA ReplaceHead ==
  ASSUME NEW O, NEW orders \in Seq(O), orders # <<>>, NEW head \in O, NEW price, NEW side
  PROVE  /\ [orders EXCEPT ![1] = head] \in Seq(O) \ {<<>>}
         /\ /\ QueueWellFormed(side, price, orders)
            /\ LiveAt(side, price, head) /\ head.id = orders[1].id
            => QueueWellFormed(side, price, [orders EXCEPT ![1] = head])
<1> DEFINE new == [orders EXCEPT ![1] = head]
<1>1. Len(orders) \in Nat \ {0} /\ 1 \in 1..Len(orders)
  BY EmptySeq, LenProperties
<1>2. /\ new \in Seq(O) /\ Len(new) = Len(orders)
      /\ \A k \in 1..Len(orders) : new[k] = IF k = 1 THEN head ELSE orders[k]
  BY <1>1, ExceptSeq
<1> HIDE DEF new
<1>3. new # <<>> /\ DOMAIN new = 1..Len(orders) /\ DOMAIN orders = 1..Len(orders)
  BY <1>1, <1>2, DomainOfSeq, EmptySeq
<1>4. InOrderOfArrival(orders) /\ head.id = orders[1].id => InOrderOfArrival(new)
  <2>1. head.id = orders[1].id => \A k \in 1..Len(orders) : new[k].id = orders[k].id
    BY <1>2
  <2> QED
    BY <1>3, <2>1 DEF InOrderOfArrival
<1>5. (\A k \in 1..Len(orders) : LiveAt(side, price, orders[k])) /\ LiveAt(side, price, head)
      => \A k \in 1..Len(orders) : LiveAt(side, price, new[k])
  BY <1>2
<1> QED
  BY <1>2, <1>3, <1>4, <1>5 DEF QueueWellFormed, new

LEMMA AppendType ==
  ASSUME NEW O, NEW orders \in Seq(O), NEW order \in O
  PROVE  Append(orders, order) \in Seq(O) \ {<<>>}
<1>1. Append(orders, order) \in Seq(O) /\ Len(Append(orders, order)) = Len(orders) + 1
      /\ Len(orders) \in Nat
  BY AppendProperties, LenProperties
<1>2. Append(orders, order) # <<>>
  BY <1>1, EmptySeq
<1> QED
  BY <1>1, <1>2

\* The order joins the level of its price.
LEMMA JoinLevelResult ==
  ASSUME NEW P, NEW O, NEW levels \in LevelsOf(P, O), NEW at \in 1..Len(levels),
         NEW order \in O, NEW r, r = SetOrders(levels, at, Append(levels[at].orders, order))
  PROVE  /\ r \in LevelsOf(P, O)
         /\ /\ LevelsWellFormed(order.side, levels)
            /\ LiveAt(order.side, levels[at].price, order)
            /\ \A i \in 1..Len(levels) : \A k \in 1..Len(levels[i].orders) :
                 levels[i].orders[k].id < order.id
            => LevelsWellFormed(order.side, r)
<1> DEFINE joined == Append(levels[at].orders, order)
           side   == order.side
           level  == [price |-> levels[at].price, orders |-> joined]
<1>1. levels[at].orders \in Seq(O) /\ levels[at] = [price |-> levels[at].price, orders |-> levels[at].orders]
  BY LevelType
<1>2. joined \in Seq(O) \ {<<>>}
  BY <1>1, AppendType
<1>3. /\ QueueWellFormed(side, levels[at].price, levels[at].orders)
      /\ \A k \in 1..Len(levels[at].orders) : levels[at].orders[k].id < order.id
      /\ LiveAt(side, levels[at].price, order)
      => QueueWellFormed(side, level.price, level.orders)
  <2>1. levels[at].price = levels[at].price
    OBVIOUS
  <2> DEFINE queue == levels[at].orders
             price == levels[at].price
  <2>2. queue \in Seq(O) /\ levels[at] = [price |-> price, orders |-> queue]
    BY <1>1
  <2> HIDE DEF queue, price
  <2>3. /\ QueueWellFormed(side, price, queue)
        /\ \A k \in 1..Len(queue) : queue[k].id < order.id
        /\ LiveAt(side, price, order)
        => QueueWellFormed(side, price, Append(queue, order))
    BY <2>2, AppendQueue
  <2> QED
    BY <2>2, <2>3 DEF queue, price
<1>10. r = SetOrders(levels, at, joined)
  OBVIOUS
<1> HIDE DEF joined
<1>4. r \in LevelsOf(P, O)
  BY <1>2, <1>10, SetOrdersResult
<1>5. /\ Len(r) = Len(levels)
      /\ \A j \in 1..Len(levels) : r[j] = IF j = at THEN level ELSE levels[j]
  BY <1>10, SetOrdersValue DEF LevelsOf
<1>6. DOMAIN r = 1..Len(levels) /\ DOMAIN levels = 1..Len(levels)
  BY <1>4, <1>5, DomainOfSeq DEF LevelsOf
<1>7. \A j \in 1..Len(levels) : r[j].price = levels[j].price
  BY <1>5
<1> HIDE DEF level
<1>8. LevelsSorted(side, levels) => LevelsSorted(side, r)
  BY <1>6, <1>7 DEF LevelsSorted
<1>9. ASSUME LevelsWellFormed(side, levels), LiveAt(side, levels[at].price, order),
             \A i \in 1..Len(levels) : \A k \in 1..Len(levels[i].orders) :
                 levels[i].orders[k].id < order.id
      PROVE  LevelsWellFormed(side, r)
  <2>1. \A i \in 1..Len(levels) : QueueWellFormed(side, levels[i].price, levels[i].orders)
    BY <1>6, <1>9 DEF LevelsWellFormed
  <2>2. QueueWellFormed(side, level.price, level.orders)
    BY <1>3, <1>9, <2>1
  <2> QED
    BY <1>5, <1>6, <1>8, <1>9, <2>1, <2>2 DEF LevelsWellFormed
<1> QED
  BY <1>4, <1>9

\* The order opens a level, before the first worse one.
LEMMA OpenLevelResult ==
  ASSUME NEW P \in SUBSET Int, NEW O, NEW levels \in LevelsOf(P, O), NEW order \in O,
         order.price \in P, \A i \in 1..Len(levels) : levels[i].price # order.price,
         NEW at, at = IF FirstWorse(levels, order) = 0 THEN Len(levels) + 1
                      ELSE FirstWorse(levels, order),
         NEW level, level = [price |-> order.price, orders |-> <<order>>],
         NEW r, r = InsertAt(levels, at, level)
  PROVE  /\ r \in LevelsOf(P, O)
         /\ LevelsWellFormed(order.side, levels) /\ LiveAt(order.side, order.price, order)
            => LevelsWellFormed(order.side, r)
<1> DEFINE side  == order.side
           T     == [price : P, orders : Seq(O) \ {<<>>}]
<1>1. levels \in Seq(T) /\ Len(levels) \in Nat
  BY LenProperties DEF LevelsOf
<1>2. level \in T
  BY EmptySeq
<1>3. LiveAt(side, order.price, order) => QueueWellFormed(side, level.price, level.orders)
  BY DEF QueueWellFormed, InOrderOfArrival
<1>4. \A j \in 1..Len(levels) : levels[j].price \in P
  BY LevelType
<1>5. level.price = order.price
  OBVIOUS
<1>6. r \in Seq(T) => r \in LevelsOf(P, O)
  BY DEF LevelsOf
<1> HIDE DEF T
<1>7. /\ FirstWorse(levels, order) \in 0..Len(levels)
      /\ \A i \in 1..Len(levels) :
           BetterFirst(side, order.price, levels[i].price)
           => FirstWorse(levels, order) # 0 /\ FirstWorse(levels, order) <= i
      /\ FirstWorse(levels, order) # 0 =>
           BetterFirst(side, order.price, levels[FirstWorse(levels, order)].price)
  BY <1>1, FirstWorseResult
<1>8. at \in 1..(Len(levels) + 1)
  BY <1>1, <1>7
<1>9. /\ r \in Seq(T) /\ Len(r) = Len(levels) + 1
      /\ r[at] = level
      /\ \A j \in 1..(Len(levels) + 1) :
           (j < at => r[j] = levels[j]) /\ (j > at => r[j] = levels[j - 1])
  <2>1. r \in Seq(T) /\ Len(r) = Len(levels) + 1
    BY <1>1, <1>2, <1>8, InsertAtResult
  <2>2. r[at] = level
    BY <1>1, <1>2, <1>8, InsertAtResult
  <2>3. ASSUME NEW j \in 1..(Len(levels) + 1), j < at
        PROVE  r[j] = levels[j]
    BY <1>1, <1>2, <1>8, <2>3, InsertAtElement
  <2>4. ASSUME NEW j \in 1..(Len(levels) + 1), j > at
        PROVE  r[j] = levels[j - 1]
    BY <1>1, <1>2, <1>8, <2>4, InsertAtElement
  <2> QED
    BY <2>1, <2>2, <2>3, <2>4
<1> DEFINE old(j) == IF j < at THEN j ELSE j - 1
<1>10. \A j \in 1..(Len(levels) + 1) :
          j # at => old(j) \in 1..Len(levels) /\ r[j] = levels[old(j)]
  <2>1. SUFFICES ASSUME NEW j \in 1..(Len(levels) + 1), j # at
                 PROVE  old(j) \in 1..Len(levels) /\ r[j] = levels[old(j)]
    OBVIOUS
  <2>2. CASE j < at
    BY <1>1, <1>8, <1>9, <2>2
  <2>3. CASE j > at
    BY <1>1, <1>8, <1>9, <2>3, SMTT(30)
  <2> QED
    BY <1>1, <1>8, <2>1, <2>2, <2>3
<1>11. \A i, j \in 1..(Len(levels) + 1) : i # at /\ j # at /\ i < j => old(i) < old(j)
  BY <1>1, <1>8
<1>12. r[at] = level
  BY <1>1, <1>8, <1>9
<1>13. DOMAIN r = 1..(Len(levels) + 1) /\ DOMAIN levels = 1..Len(levels)
  BY <1>1, <1>9, DomainOfSeq
<1>14. \A j \in 1..(Len(levels) + 1) : (j < at => old(j) < at) /\ (j > at => old(j) >= at)
  BY <1>1, <1>8
<1> HIDE DEF old
\* Levels before the new one are better, and those after it worse.
<1>15. ASSUME LevelsSorted(side, levels), NEW j \in 1..Len(levels)
       PROVE  /\ j < at => BetterFirst(side, levels[j].price, order.price)
              /\ j >= at => BetterFirst(side, order.price, levels[j].price)
  <2>1. CASE j < at
    <3>1. ~BetterFirst(side, order.price, levels[j].price)
      BY <1>1, <1>7, <2>1
    <3>2. levels[j].price \in Int /\ order.price \in Int /\ levels[j].price # order.price
      BY <1>4
    <3>3. BetterFirst(side, levels[j].price, order.price)
      BY <3>1, <3>2 DEF BetterFirst
    <3> QED
      BY <1>8, <2>1, <3>3
  <2>2. CASE j >= at
    <3>1. at = FirstWorse(levels, order) /\ at \in 1..Len(levels)
      BY <1>1, <1>7, <1>8, <2>2
    <3>2. BetterFirst(side, order.price, levels[at].price)
      BY <1>7, <3>1
    <3>3. at = j \/ BetterFirst(side, levels[at].price, levels[j].price)
      BY <1>8, <1>13, <1>15, <2>2, <3>1 DEF LevelsSorted
    <3>4. levels[at].price \in Int /\ levels[j].price \in Int /\ order.price \in Int
      BY <1>4, <3>1
    <3> QED
      BY <1>8, <2>2, <3>2, <3>3, <3>4 DEF BetterFirst
  <2> QED
    BY <1>8, <2>1, <2>2
<1>16. ASSUME LevelsSorted(side, levels), NEW i \in 1..(Len(levels) + 1),
              NEW j \in 1..(Len(levels) + 1), i < j
       PROVE  BetterFirst(side, r[i].price, r[j].price)
  <2>1. CASE i = at
    <3>1. j # at /\ old(j) \in 1..Len(levels) /\ old(j) >= at /\ r[j] = levels[old(j)]
      BY <1>8, <1>10, <1>14, <1>16, <2>1
    <3> QED
      BY <1>5, <1>12, <1>15, <1>16, <2>1, <3>1
  <2>2. CASE j = at
    <3>1. i # at /\ old(i) \in 1..Len(levels) /\ old(i) < at /\ r[i] = levels[old(i)]
      BY <1>8, <1>10, <1>14, <1>16, <2>2
    <3> QED
      BY <1>5, <1>12, <1>15, <1>16, <2>2, <3>1
  <2>3. CASE i # at /\ j # at
    BY <1>10, <1>11, <1>13, <1>16, <2>3 DEF LevelsSorted
  <2> QED
    BY <2>1, <2>2, <2>3
<1>17. LevelsWellFormed(side, levels) /\ LiveAt(side, order.price, order)
       => LevelsWellFormed(side, r)
  BY <1>3, <1>10, <1>12, <1>13, <1>16, SMTT(30) DEF LevelsWellFormed, LevelsSorted
<1> QED
  BY <1>6, <1>9, <1>17

LEMMA InsertRestingResult ==
  ASSUME NEW P \in SUBSET Int, NEW O, NEW levels \in LevelsOf(P, O), NEW order \in O,
         order.price \in P
  PROVE  /\ InsertResting(levels, order) \in LevelsOf(P, O)
         /\ /\ LevelsWellFormed(order.side, levels)
            /\ LiveAt(order.side, order.price, order)
            /\ \A i \in 1..Len(levels) : \A k \in 1..Len(levels[i].orders) :
                 levels[i].orders[k].id < order.id
            => LevelsWellFormed(order.side, InsertResting(levels, order))
<1> DEFINE at    == LevelIndex(levels, order.price)
           worse == FirstWorse(levels, order)
           level == [price |-> order.price, orders |-> <<order>>]
           place == IF worse = 0 THEN Len(levels) + 1 ELSE worse
<1>1. InsertResting(levels, order) =
        IF at # 0 THEN SetOrders(levels, at, Append(levels[at].orders, order))
        ELSE InsertAt(levels, place, level)
  BY DEF InsertResting, FirstWorse
<1>2. /\ at \in 0..Len(levels)
      /\ at # 0 => levels[at].price = order.price
      /\ at = 0 => \A i \in 1..Len(levels) : levels[i].price # order.price
  BY LevelIndexResult DEF LevelsOf
<1>3. Len(levels) \in Nat
  BY LenProperties DEF LevelsOf
<1> HIDE DEF at
<1>4. CASE at # 0
  <2> DEFINE r == SetOrders(levels, at, Append(levels[at].orders, order))
  <2>1. at \in 1..Len(levels) /\ levels[at].price = order.price
    BY <1>2, <1>3, <1>4
  <2>2. InsertResting(levels, order) = r
    BY <1>1, <1>4
  <2>3. /\ r \in LevelsOf(P, O)
        /\ /\ LevelsWellFormed(order.side, levels)
           /\ LiveAt(order.side, levels[at].price, order)
           /\ \A i \in 1..Len(levels) : \A k \in 1..Len(levels[i].orders) :
                levels[i].orders[k].id < order.id
           => LevelsWellFormed(order.side, r)
    BY <2>1, JoinLevelResult
  <2> QED
    BY <2>1, <2>2, <2>3
<1>5. CASE at = 0
  <2> DEFINE r == InsertAt(levels, place, level)
  <2>1. InsertResting(levels, order) = r
    BY <1>1, <1>5
  <2>2. \A i \in 1..Len(levels) : levels[i].price # order.price
    BY <1>2, <1>5
  <2>3. /\ r \in LevelsOf(P, O)
        /\ LevelsWellFormed(order.side, levels) /\ LiveAt(order.side, order.price, order)
           => LevelsWellFormed(order.side, r)
    BY <2>2, OpenLevelResult
  <2> QED
    BY <2>1, <2>3
<1> QED
  BY <1>4, <1>5

\* An order leaves its level, and the side too when it was the last one there.
LEMMA LeaveLevelResult ==
  ASSUME NEW P \in SUBSET Int, NEW O, NEW levels \in LevelsOf(P, O), NEW at \in 1..Len(levels),
         at = LevelIndex(levels, levels[at].price), NEW i \in 1..Len(levels[at].orders), NEW side
  PROVE  LET r == RemoveEmptyLevel(SetOrders(levels, at, RemoveAt(levels[at].orders, i)),
                                   levels[at].price)
         IN  /\ r \in LevelsOf(P, O)
             /\ LevelsWellFormed(side, levels) => LevelsWellFormed(side, r)
<1> DEFINE queue == levels[at].orders
           price == levels[at].price
<1>1. queue \in Seq(O) /\ i \in 1..Len(queue)
  BY LevelType
<1> HIDE DEF queue, price
<1>2. /\ RemoveAt(queue, i) \in Seq(O)
      /\ QueueWellFormed(side, price, queue) /\ RemoveAt(queue, i) # <<>>
         => QueueWellFormed(side, price, RemoveAt(queue, i))
  BY <1>1, RemoveQueue
<1>3. PICK rest \in Seq(O) : rest = RemoveAt(queue, i)
  BY <1>2
<1>4. PICK r : r = RemoveEmptyLevel(SetOrders(levels, at, rest), levels[at].price)
  OBVIOUS
<1>5. /\ r \in LevelsOf(P, O)
      /\ /\ LevelsWellFormed(side, levels)
         /\ QueueWellFormed(side, levels[at].price, levels[at].orders) /\ rest # <<>> =>
              QueueWellFormed(side, levels[at].price, rest)
         => LevelsWellFormed(side, r)
  BY <1>4, ReplaceLevelResult
<1> QED
  BY <1>2, <1>3, <1>4, <1>5 DEF queue, price

LEMMA CancelRestingResult ==
  ASSUME NEW P \in SUBSET Int, NEW O, NEW levels \in LevelsOf(P, O), NEW price, NEW id, NEW side,
         NEW at, at = LevelIndex(levels, price), at # 0,
         NEW k \in 1..Len(levels[at].orders), levels[at].orders[k].id = id
  PROVE  /\ CancelResting(levels, price, id) \in LevelsOf(P, O)
         /\ LevelsWellFormed(side, levels) => LevelsWellFormed(side, CancelResting(levels, price, id))
<1> DEFINE queue == levels[at].orders
           I     == {j \in 1..Len(queue) : queue[j].id = id}
           i     == SelectInSeq(queue, LAMBDA o : o.id = id)
<1>1. at \in 1..Len(levels) /\ levels[at].price = price
  BY LevelIndexResult, LenProperties DEF LevelsOf
<1>2. queue \in Seq(O)
  BY <1>1, LevelType
<1>3. i = IF I # {} THEN Min(I) ELSE 0
  BY DEF SelectInSeq
<1>4. I # {} /\ I \in SUBSET (1..Len(queue))
  OBVIOUS
<1> HIDE DEF I, i, queue
<1>5. i \in I
  BY <1>2, <1>3, <1>4, FirstIndex
<1> USE DEF I, queue
<1>6. i \in 1..Len(levels[at].orders)
  BY <1>5
<1> HIDE DEF i, I
<1>7. CancelResting(levels, price, id) =
        RemoveEmptyLevel(SetOrders(levels, at, RemoveAt(levels[at].orders, i)), levels[at].price)
  BY <1>1 DEF CancelResting, i
<1>8. at = LevelIndex(levels, levels[at].price)
  BY <1>1
<1> QED
  BY <1>1, <1>6, <1>7, <1>8, LeaveLevelResult

\* The first level is the only one that a fill alters.
LEMMA FillLevelResult ==
  ASSUME NEW P \in SUBSET Int, NEW O, NEW levels \in LevelsOf(P, O), levels # <<>>,
         NEW orders \in Seq(O), NEW side,
         NEW r, r = RemoveEmptyLevel(SetOrders(levels, 1, orders), levels[1].price)
  PROVE  /\ orders # <<>> => r = SetOrders(levels, 1, orders)
         /\ r \in LevelsOf(P, O)
         /\ /\ LevelsWellFormed(side, levels)
            /\ orders # <<>> =>
                 QueueWellFormed(side, levels[1].price, orders)
            => LevelsWellFormed(side, r)
<1> DEFINE at == 1
<1>1. at \in 1..Len(levels) /\ Len(levels) \in Nat
  BY EmptySeq, LenProperties DEF LevelsOf
<1>2. at = LevelIndex(levels, levels[at].price)
  <2>1. /\ LevelIndex(levels, levels[at].price) \in 0..Len(levels)
        /\ LevelIndex(levels, levels[at].price) # 0 /\ LevelIndex(levels, levels[at].price) <= 1
    BY <1>1, LevelIndexResult DEF LevelsOf
  <2> QED
    BY <1>1, <2>1
<1>3. r = RemoveEmptyLevel(SetOrders(levels, at, orders), levels[at].price)
  OBVIOUS
<1> HIDE DEF at
<1>4. orders # <<>> => r = SetOrders(levels, at, orders)
  BY <1>1, <1>2, <1>3, AlterLevelResult
<1>5. /\ r \in LevelsOf(P, O)
      /\ /\ LevelsWellFormed(side, levels)
         /\ QueueWellFormed(side, levels[at].price, levels[at].orders) /\ orders # <<>> =>
              QueueWellFormed(side, levels[at].price, orders)
         => LevelsWellFormed(side, r)
  BY <1>1, <1>2, <1>3, ReplaceLevelResult
<1> QED
  BY <1>4, <1>5 DEF at

\* A queue whose head has been filled completely.
LEMMA TailQueue ==
  ASSUME NEW O, NEW orders \in Seq(O), orders # <<>>, NEW price, NEW side
  PROVE  /\ Tail(orders) \in Seq(O)
         /\ /\ QueueWellFormed(side, price, orders)
            /\ Tail(orders) # <<>>
            => QueueWellFormed(side, price, Tail(orders))
<1>1. Len(orders) \in Nat \ {0}
  BY EmptySeq
<1>2. /\ Tail(orders) \in Seq(O) /\ Len(Tail(orders)) = Len(orders) - 1
      /\ \A k \in 1..Len(Tail(orders)) : Tail(orders)[k] = orders[k + 1]
  BY HeadTailProperties
<1> DEFINE new == Tail(orders)
           old(k) == k + 1
<1>3. \A k \in 1..Len(new) : old(k) \in 1..Len(orders) /\ new[k] = orders[old(k)]
  BY <1>1, <1>2
<1>4. \A k, m \in 1..Len(new) : k < m => old(k) < old(m)
  BY <1>1, <1>2
<1>5. DOMAIN new = 1..Len(new) /\ DOMAIN orders = 1..Len(orders)
  BY <1>2, DomainOfSeq
<1>6. new \in Seq(O)
  BY <1>2
<1> HIDE DEF old, new
<1>7. InOrderOfArrival(orders) => InOrderOfArrival(new)
  BY <1>3, <1>4, <1>5 DEF InOrderOfArrival
<1>8. (\A k \in 1..Len(orders) : LiveAt(side, price, orders[k]))
      => \A k \in 1..Len(new) : LiveAt(side, price, new[k])
  BY <1>3
<1>9. QueueWellFormed(side, price, orders) /\ new # <<>> => QueueWellFormed(side, price, new)
  BY <1>5, <1>7, <1>8 DEF QueueWellFormed
<1> QED
  BY <1>6, <1>9 DEF new

\* More orders make more sides.
LEMMA LevelsOfMonotonic ==
  ASSUME NEW P, NEW O, NEW O2, O \subseteq O2, NEW levels \in LevelsOf(P, O)
  PROVE  levels \in LevelsOf(P, O2)
<1>1. Seq(O) \subseteq Seq(O2)
  BY SeqMonotonic
<1>2. [price : P, orders : Seq(O) \ {<<>>}] \subseteq [price : P, orders : Seq(O2) \ {<<>>}]
  BY <1>1
<1> QED
  BY <1>2, SeqMonotonic DEF LevelsOf

-----------------------------------------------------------------------------
(* Queues as sets *)

LEMMA AppendSet ==
  ASSUME NEW S, NEW s \in Seq(S), NEW e \in S
  PROVE  ToSet(Append(s, e)) = ToSet(s) \cup {e}
<1>1. /\ DOMAIN s = 1..Len(s) /\ Len(s) \in Nat /\ DOMAIN Append(s, e) = 1..(Len(s) + 1)
      /\ \A i \in 1..Len(s) : Append(s, e)[i] = s[i]
      /\ Append(s, e)[Len(s) + 1] = e
  BY AppendProperties, LenProperties
<1>2. \A i \in DOMAIN s : i \in DOMAIN Append(s, e) /\ Append(s, e)[i] = s[i]
  BY <1>1
<1>3. \A i \in DOMAIN Append(s, e) : i \in DOMAIN s \/ i = Len(s) + 1
  BY <1>1
<1>4. Len(s) + 1 \in DOMAIN Append(s, e)
  BY <1>1
<1> HIDE DEF ToSet
<1>5. \A x \in ToSet(Append(s, e)) : x \in ToSet(s) \/ x = e
  BY <1>1, <1>2, <1>3 DEF ToSet
<1>6. \A x \in ToSet(s) : x \in ToSet(Append(s, e))
  BY <1>2 DEF ToSet
<1>7. e \in ToSet(Append(s, e))
  BY <1>1, <1>4 DEF ToSet
<1> QED
  BY <1>5, <1>6, <1>7

\* Taking one element out of a sequence without repetitions.
LEMMA RemoveSet ==
  ASSUME NEW S, NEW s \in Seq(S), NEW at \in 1..Len(s), \A k, m \in 1..Len(s) : s[k] = s[m] => k = m
  PROVE  ToSet(RemoveAt(s, at)) = ToSet(s) \ {s[at]}
<1> DEFINE r == RemoveAt(s, at)
<1>1. /\ DOMAIN s = 1..Len(s) /\ Len(s) \in Nat /\ r \in Seq(S) /\ Len(r) = Len(s) - 1
      /\ \A j \in 1..(Len(s) - 1) : r[j] = IF j < at THEN s[j] ELSE s[j + 1]
  BY RemoveAtResult, LenProperties
<1> HIDE DEF r
<1>2. DOMAIN r = 1..(Len(s) - 1)
  BY <1>1, DomainOfSeq
<1>3. ASSUME NEW j \in DOMAIN r
      PROVE  r[j] \in ToSet(s) \ {s[at]}
  <2>1. CASE j < at
    <3>1. j \in 1..Len(s) /\ j # at /\ r[j] = s[j]
      BY <1>1, <1>2, <2>1
    <3> QED
      BY <1>1, <3>1 DEF ToSet
  <2>2. CASE ~(j < at)
    <3>1. j + 1 \in 1..Len(s) /\ j + 1 # at /\ r[j] = s[j + 1]
      BY <1>1, <1>2, <2>2
    <3> QED
      BY <1>1, <3>1 DEF ToSet
  <2> QED
    BY <2>1, <2>2
<1>4. ASSUME NEW j \in 1..Len(s), s[j] # s[at]
      PROVE  \E k \in DOMAIN r : r[k] = s[j]
  <2>1. CASE j < at
    <3>1. j \in DOMAIN r /\ r[j] = s[j]
      BY <1>1, <1>2, <2>1
    <3> QED
      BY <3>1
  <2>2. CASE j > at
    <3>1. j - 1 \in DOMAIN r /\ j - 1 \in 1..(Len(s) - 1) /\ ~(j - 1 < at) /\ (j - 1) + 1 = j
      BY <1>1, <1>2, <2>2
    <3>2. r[j - 1] = s[j]
      BY <1>1, <3>1
    <3> QED
      BY <3>1, <3>2
  <2> QED
    BY <1>1, <1>4, <2>1, <2>2
<1>5. \A x \in ToSet(r) : x \in ToSet(s) \ {s[at]}
  BY <1>3 DEF ToSet
<1>6. \A x \in ToSet(s) \ {s[at]} : x \in ToSet(r)
  BY <1>1, <1>4 DEF ToSet
<1>7. ToSet(r) = ToSet(s) \ {s[at]}
  BY <1>5, <1>6
<1> QED
  BY <1>7 DEF r

\* In a queue in order of arrival nothing comes twice.
LEMMA NoneTwice ==
  ASSUME NEW n, NEW orders \in Seq(Older(n)), InOrderOfArrival(orders)
  PROVE  \A k, m \in 1..Len(orders) : orders[k].id = orders[m].id => k = m
<1>1. DOMAIN orders = 1..Len(orders) /\ Len(orders) \in Nat
  BY LenProperties
<1>2. \A k \in 1..Len(orders) : orders[k].id \in Nat
  BY ElementOfSeq DEF Older, RestingOrder
<1> QED
  BY <1>1, <1>2 DEF InOrderOfArrival

\* What a fill leaves of a queue: without its head, or with another head.
LEMMA TailSet ==
  ASSUME NEW n, NEW orders \in Seq(Older(n)), orders # <<>>, InOrderOfArrival(orders)
  PROVE  ToSet(Tail(orders)) = ToSet(orders) \ {orders[1]}
<1>1. /\ Len(orders) \in Nat \ {0} /\ DOMAIN orders = 1..Len(orders)
      /\ Tail(orders) \in Seq(Older(n)) /\ Len(Tail(orders)) = Len(orders) - 1
      /\ \A k \in 1..Len(Tail(orders)) : Tail(orders)[k] = orders[k + 1]
  BY EmptySeq, HeadTailProperties, LenProperties
<1> DEFINE r == Tail(orders)
<1>2. r \in Seq(Older(n)) /\ Len(r) = Len(orders) - 1 /\ \A k \in 1..Len(r) : r[k] = orders[k + 1]
  BY <1>1
<1> HIDE DEF r
<1>3. DOMAIN r = 1..(Len(orders) - 1)
  BY <1>2, DomainOfSeq
<1>4. \A k, m \in 1..Len(orders) : orders[k] = orders[m] => k = m
  BY NoneTwice
<1>5. ASSUME NEW k \in DOMAIN r
      PROVE  r[k] \in ToSet(orders) \ {orders[1]}
  <2>1. k + 1 \in 1..Len(orders) /\ 1 \in 1..Len(orders) /\ k + 1 # 1 /\ r[k] = orders[k + 1]
    BY <1>1, <1>2, <1>3
  <2> QED
    BY <1>1, <1>4, <2>1 DEF ToSet
<1>6. ASSUME NEW k \in 1..Len(orders), orders[k] # orders[1]
      PROVE  \E m \in DOMAIN r : r[m] = orders[k]
  <2>1. k - 1 \in DOMAIN r /\ k - 1 \in 1..Len(r) /\ (k - 1) + 1 = k
    BY <1>1, <1>2, <1>3, <1>6
  <2>2. r[k - 1] = orders[k]
    BY <1>2, <2>1
  <2> QED
    BY <2>1, <2>2
<1>7. \A x \in ToSet(r) : x \in ToSet(orders) \ {orders[1]}
  BY <1>5 DEF ToSet
<1>8. \A x \in ToSet(orders) \ {orders[1]} : x \in ToSet(r)
  BY <1>1, <1>6 DEF ToSet
<1>9. ToSet(r) = ToSet(orders) \ {orders[1]}
  BY <1>7, <1>8
<1> QED
  BY <1>9 DEF r

LEMMA HeadSet ==
  ASSUME NEW n, NEW orders \in Seq(Older(n)), orders # <<>>, InOrderOfArrival(orders),
         NEW head \in Older(n)
  PROVE  ToSet([orders EXCEPT ![1] = head]) = (ToSet(orders) \ {orders[1]}) \cup {head}
<1> DEFINE r == [orders EXCEPT ![1] = head]
<1>1. Len(orders) \in Nat \ {0} /\ 1 \in 1..Len(orders) /\ DOMAIN orders = 1..Len(orders)
  BY EmptySeq, LenProperties
<1>2. /\ r \in Seq(Older(n)) /\ Len(r) = Len(orders)
      /\ \A k \in 1..Len(orders) : r[k] = IF k = 1 THEN head ELSE orders[k]
  BY <1>1, ExceptSeq
<1> HIDE DEF r
<1>3. DOMAIN r = 1..Len(orders)
  BY <1>2, DomainOfSeq
<1>4. \A k, m \in 1..Len(orders) : orders[k] = orders[m] => k = m
  BY NoneTwice
<1>5. \A x \in ToSet(r) : x \in (ToSet(orders) \ {orders[1]}) \cup {head}
  BY <1>1, <1>2, <1>3, <1>4 DEF ToSet
<1>6. \A x \in ToSet(orders) \ {orders[1]} : x \in ToSet(r)
  BY <1>1, <1>2, <1>3 DEF ToSet
<1>7. head \in ToSet(r)
  BY <1>1, <1>2, <1>3 DEF ToSet
<1>8. ToSet(r) = (ToSet(orders) \ {orders[1]}) \cup {head}
  BY <1>5, <1>6, <1>7
<1> QED
  BY <1>8 DEF r

-----------------------------------------------------------------------------
(* Sides as sets of orders *)

\* Where a resting order is.
LEMMA RestingWhere ==
  ASSUME NEW P, NEW O, NEW levels \in LevelsOf(P, O)
  PROVE  /\ \A o \in RestingOrders(levels) :
              \E i \in 1..Len(levels) : o \in ToSet(levels[i].orders)
         /\ \A i \in 1..Len(levels) : ToSet(levels[i].orders) \subseteq RestingOrders(levels)
<1>1. DOMAIN levels = 1..Len(levels)
  BY DomainOfSeq DEF LevelsOf
<1> QED
  BY <1>1 DEF RestingOrders

LEMMA QueueWhere ==
  ASSUME NEW O, NEW orders \in Seq(O)
  PROVE  /\ \A o \in ToSet(orders) : \E k \in 1..Len(orders) : o = orders[k]
         /\ \A k \in 1..Len(orders) : orders[k] \in ToSet(orders)
         /\ ToSet(orders) \subseteq O
<1>1. DOMAIN orders = 1..Len(orders)
  BY DomainOfSeq
<1>2. \A k \in 1..Len(orders) : orders[k] \in O
  BY ElementOfSeq
<1> QED
  BY <1>1, <1>2 DEF ToSet

\* An order of a level has the level's side and price; one price, one level.
LEMMA LevelOrders ==
  ASSUME NEW P \in SUBSET Int, NEW n, NEW side, NEW levels \in LevelsOf(P, Older(n)),
         LevelsWellFormed(side, levels)
  PROVE  /\ \A i \in 1..Len(levels) : \A o \in ToSet(levels[i].orders) :
              o \in Older(n) /\ o.side = side /\ o.price = levels[i].price
         /\ \A i, j \in 1..Len(levels) : levels[i].price = levels[j].price => i = j
<1>1. DOMAIN levels = 1..Len(levels) /\ Len(levels) \in Nat
  BY DomainOfSeq, LenProperties DEF LevelsOf
<1>2. ASSUME NEW i \in 1..Len(levels), NEW o \in ToSet(levels[i].orders)
      PROVE  o \in Older(n) /\ o.side = side /\ o.price = levels[i].price
  <2>1. levels[i].orders \in Seq(Older(n)) /\ QueueWellFormed(side, levels[i].price, levels[i].orders)
    BY <1>1, LevelType DEF LevelsWellFormed
  <2> DEFINE orders == levels[i].orders
             price  == levels[i].price
  <2>2. orders \in Seq(Older(n)) /\ QueueWellFormed(side, price, orders) /\ o \in ToSet(orders)
    BY <1>2, <2>1
  <2> HIDE DEF orders, price
  <2>3. PICK k \in 1..Len(orders) : o = orders[k]
    BY <2>2, QueueWhere
  <2>4. k \in DOMAIN orders /\ orders[k] \in Older(n)
    BY <2>2, ElementOfSeq, DomainOfSeq
  <2>5. LiveAt(side, price, o)
    BY <2>2, <2>3, <2>4 DEF QueueWellFormed
  <2> QED
    BY <2>3, <2>4, <2>5 DEF LiveAt, price
<1>3. ASSUME NEW i \in 1..Len(levels), NEW j \in 1..Len(levels), levels[i].price = levels[j].price
      PROVE  i = j
  <2>1. levels[i].price \in Int
    BY LevelType
  <2>2. ~BetterFirst(side, levels[i].price, levels[j].price) /\ ~BetterFirst(side, levels[j].price, levels[i].price)
    BY <1>3, <2>1 DEF BetterFirst
  <2>3. ~(i < j) /\ ~(j < i)
    BY <1>1, <2>2 DEF LevelsWellFormed, LevelsSorted
  <2> QED
    BY <2>3
<1> QED
  BY <1>2, <1>3

\* Price and id tell the orders of a side apart.
LEMMA RestingApart ==
  ASSUME NEW P \in SUBSET Int, NEW n, NEW side, NEW levels \in LevelsOf(P, Older(n)),
         LevelsWellFormed(side, levels)
  PROVE  /\ \A o \in RestingOrders(levels) : o \in Older(n) /\ o.side = side /\ o.price \in P
         /\ \A o, p \in RestingOrders(levels) : o.price = p.price /\ o.id = p.id => o = p
<1>1. ASSUME NEW o \in RestingOrders(levels)
      PROVE  o \in Older(n) /\ o.side = side /\ o.price \in P
  <2>1. PICK i \in 1..Len(levels) : o \in ToSet(levels[i].orders)
    BY RestingWhere
  <2>2. levels[i].price \in P
    BY LevelType
  <2> QED
    BY <2>1, <2>2, LevelOrders
<1>2. ASSUME NEW o \in RestingOrders(levels), NEW p \in RestingOrders(levels),
             o.price = p.price, o.id = p.id
      PROVE  o = p
  <2>1. PICK i \in 1..Len(levels) : o \in ToSet(levels[i].orders)
    BY RestingWhere
  <2>2. PICK j \in 1..Len(levels) : p \in ToSet(levels[j].orders)
    BY RestingWhere
  <2>3. o.price = levels[i].price /\ p.price = levels[j].price
    BY <2>1, <2>2, LevelOrders
  <2>4. i = j
    BY <1>2, <2>3, LevelOrders
  <2> DEFINE orders == levels[i].orders
  <2>5. orders \in Seq(Older(n)) /\ InOrderOfArrival(orders)
    <3>1. DOMAIN levels = 1..Len(levels)
      BY DomainOfSeq DEF LevelsOf
    <3> QED
      BY <3>1, LevelType DEF LevelsWellFormed, QueueWellFormed
  <2>6. o \in ToSet(orders) /\ p \in ToSet(orders)
    BY <2>1, <2>2, <2>4
  <2> HIDE DEF orders
  <2>7. PICK k \in 1..Len(orders) : o = orders[k]
    BY <2>5, <2>6, QueueWhere
  <2>8. PICK m \in 1..Len(orders) : p = orders[m]
    BY <2>5, <2>6, QueueWhere
  <2> QED
    BY <1>2, <2>5, <2>7, <2>8, NoneTwice
<1> QED
  BY <1>1, <1>2

\* The head of the best level comes before every other order of its side.
LEMMA BestOrder ==
  ASSUME NEW P \in SUBSET Int, NEW n, NEW side, NEW levels \in LevelsOf(P, Older(n)),
         LevelsWellFormed(side, levels), levels # <<>>,
         NEW first, first = levels[1].orders[1]
  PROVE  /\ first \in ToSet(levels[1].orders) /\ first \in RestingOrders(levels)
         /\ first.price = levels[1].price
         /\ \A o \in RestingOrders(levels) \ {first} :
              \/ BetterFirst(side, first.price, o.price)
              \/ o.price = first.price /\ first.id < o.id
<1>1. DOMAIN levels = 1..Len(levels) /\ Len(levels) \in Nat \ {0}
  <2> DEFINE T == [price : P, orders : Seq(Older(n)) \ {<<>>}]
  <2>1. levels \in Seq(T)
    BY DEF LevelsOf
  <2> HIDE DEF T
  <2> QED
    BY <2>1, EmptySeq, DomainOfSeq, LenProperties
<1> DEFINE one    == 1
           orders == levels[one].orders
<1>2. one \in 1..Len(levels) /\ one = 1
  BY <1>1
<1> HIDE DEF one
<1>3. orders \in Seq(Older(n)) \ {<<>>} /\ InOrderOfArrival(orders)
  BY <1>1, <1>2, LevelType DEF LevelsWellFormed, QueueWellFormed
<1>4. first = orders[1] /\ orders = levels[1].orders
  BY <1>2
<1>5. \A o \in ToSet(orders) : o \in Older(n) /\ o.price = levels[one].price
  BY <1>2, LevelOrders
<1>6. ToSet(orders) \subseteq RestingOrders(levels)
  BY <1>2, RestingWhere
<1> HIDE DEF orders
<1>7. Len(orders) \in Nat \ {0} /\ DOMAIN orders = 1..Len(orders)
  BY <1>3, EmptySeq, DomainOfSeq, LenProperties
<1>8. first \in ToSet(orders)
  <2>1. 1 \in 1..Len(orders)
    BY <1>7
  <2> QED
    BY <1>3, <1>4, <2>1, QueueWhere
<1>9. ASSUME NEW o \in RestingOrders(levels), o # first
      PROVE  \/ BetterFirst(side, first.price, o.price)
             \/ o.price = first.price /\ first.id < o.id
  <2>1. PICK i \in 1..Len(levels) : o \in ToSet(levels[i].orders)
    BY RestingWhere
  <2>2. o.price = levels[i].price
    BY <2>1, LevelOrders
  <2>3. CASE i = one
    <3>1. o \in ToSet(orders)
      BY <2>1, <2>3 DEF orders
    <3>2. PICK k \in 1..Len(orders) : o = orders[k]
      BY <1>3, <3>1, QueueWhere
    <3>3. 1 < k /\ k \in DOMAIN orders /\ 1 \in DOMAIN orders
      BY <1>4, <1>7, <1>9, <3>2
    <3>4. first.id < o.id
      BY <1>3, <1>4, <3>2, <3>3 DEF InOrderOfArrival
    <3> QED
      BY <1>5, <1>8, <3>1, <3>4
  <2>4. CASE i # one
    <3>1. one \in DOMAIN levels /\ i \in DOMAIN levels /\ one < i
      BY <1>1, <1>2, <2>4
    <3>2. BetterFirst(side, levels[one].price, levels[i].price)
      BY <3>1 DEF LevelsWellFormed, LevelsSorted
    <3> QED
      BY <1>5, <1>8, <2>2, <3>2
  <2> QED
    BY <2>3, <2>4
<1>10. first.price = levels[1].price
  BY <1>2, <1>5, <1>8
<1> QED
  BY <1>4, <1>6, <1>8, <1>9, <1>10

\* Another queue at one level: the orders of the other prices stay.
LEMMA ReplaceLevelOrders ==
  ASSUME NEW P \in SUBSET Int, NEW n, NEW side, NEW levels \in LevelsOf(P, Older(n)),
         LevelsWellFormed(side, levels), NEW at \in 1..Len(levels),
         at = LevelIndex(levels, levels[at].price), NEW orders \in Seq(Older(n)),
         NEW r, r = RemoveEmptyLevel(SetOrders(levels, at, orders), levels[at].price)
  PROVE  RestingOrders(r) = (RestingOrders(levels) \ ToSet(levels[at].orders)) \cup ToSet(orders)
<1> DEFINE set == SetOrders(levels, at, orders)
           kept == RestingOrders(levels) \ ToSet(levels[at].orders)
<1>1. DOMAIN levels = 1..Len(levels) /\ Len(levels) \in Nat
  BY DomainOfSeq, LenProperties DEF LevelsOf
<1>2. /\ Len(set) = Len(levels) /\ set \in Seq([price : P, orders : Seq(Older(n)) \cup {orders}])
      /\ \A j \in 1..Len(levels) :
           set[j] = IF j = at THEN [price |-> levels[at].price, orders |-> orders] ELSE levels[j]
  <2>1. /\ Len(set) = Len(levels)
        /\ \A j \in 1..Len(levels) :
             set[j] = IF j = at THEN [price |-> levels[at].price, orders |-> orders] ELSE levels[j]
    BY SetOrdersValue DEF LevelsOf
  <2>2. set \in Seq([price : P, orders : Seq(Older(n)) \cup {orders}])
    BY SetOrdersResult
  <2> QED
    BY <2>1, <2>2
<1>3. /\ r = IF orders = <<>> THEN RemoveAt(set, at) ELSE set
      /\ r \in LevelsOf(P, Older(n))
  BY AlterLevelResult, ReplaceLevelResult
<1> HIDE DEF set
<1>4. /\ set[at].orders = orders
      /\ \A j \in 1..Len(levels) : j # at => set[j].orders = levels[j].orders
  BY <1>2
<1>5. \A j \in 1..Len(levels) : j # at => ToSet(levels[j].orders) \subseteq kept
  <2>1. SUFFICES ASSUME NEW j \in 1..Len(levels), j # at, NEW o \in ToSet(levels[j].orders)
                 PROVE  o \in kept
    OBVIOUS
  <2>2. o \in RestingOrders(levels)
    BY RestingWhere
  <2>3. ASSUME o \in ToSet(levels[at].orders) PROVE FALSE
    <3>1. o.price = levels[j].price /\ o.price = levels[at].price
      BY <2>3, LevelOrders
    <3> QED
      BY <2>1, <3>1, LevelOrders
  <2> QED
    BY <2>2, <2>3
<1>6. \A o \in kept : \E j \in 1..Len(levels) : j # at /\ o \in ToSet(levels[j].orders)
  BY RestingWhere
<1> HIDE DEF kept
<1>7. CASE orders # <<>>
  <2>1. r = set
    BY <1>3, <1>7
  <2>2. ASSUME NEW o \in RestingOrders(r) PROVE o \in kept \cup ToSet(orders)
    <3>1. PICK j \in 1..Len(r) : o \in ToSet(r[j].orders)
      BY <1>3, <2>2, RestingWhere
    <3>2. j \in 1..Len(levels)
      BY <1>2, <2>1
    <3>3. CASE j = at
      BY <1>4, <2>1, <3>1, <3>3
    <3>4. CASE j # at
      BY <1>4, <1>5, <2>1, <3>1, <3>2, <3>4
    <3> QED
      BY <3>3, <3>4
  <2>3. ASSUME NEW o \in kept PROVE o \in RestingOrders(r)
    <3>1. PICK j \in 1..Len(levels) : j # at /\ o \in ToSet(levels[j].orders)
      BY <1>6, <2>3
    <3>2. o \in ToSet(r[j].orders) /\ j \in 1..Len(r)
      BY <1>2, <1>4, <2>1, <3>1
    <3> QED
      BY <1>3, <3>2, RestingWhere
  <2>4. ToSet(orders) \subseteq RestingOrders(r)
    <3>1. ToSet(orders) = ToSet(r[at].orders) /\ at \in 1..Len(r)
      BY <1>2, <1>4, <2>1
    <3> QED
      BY <1>3, <3>1, RestingWhere
  <2> QED
    BY <2>2, <2>3, <2>4 DEF kept
<1>8. CASE orders = <<>>
  <2>1. r = RemoveAt(set, at)
    BY <1>3, <1>8
  <2> DEFINE T == [price : P, orders : Seq(Older(n)) \cup {orders}]
  <2>2. set \in Seq(T) /\ at \in 1..Len(set)
    BY <1>2
  <2> HIDE DEF T
  <2>3. /\ Len(r) = Len(levels) - 1
        /\ \A j \in 1..(Len(levels) - 1) : r[j] = IF j < at THEN set[j] ELSE set[j + 1]
    BY <1>2, <2>1, <2>2, RemoveAtResult, SMTT(30)
  <2>4. ASSUME NEW j \in 1..(Len(levels) - 1)
        PROVE  \E i \in 1..Len(levels) : i # at /\ r[j].orders = levels[i].orders
    <3>1. CASE j < at
      <4>1. j \in 1..Len(levels) /\ j # at
        BY <1>1, <3>1
      <4>2. r[j] = set[j]
        BY <2>3, <3>1
      <4> QED
        BY <1>4, <4>1, <4>2
    <3>2. CASE ~(j < at)
      <4>1. j + 1 \in 1..Len(levels) /\ j + 1 # at
        BY <1>1, <3>2
      <4>2. r[j] = set[j + 1]
        BY <2>3, <3>2
      <4> QED
        BY <1>4, <4>1, <4>2
    <3> QED
      BY <3>1, <3>2
  <2>5. ASSUME NEW i \in 1..Len(levels), i # at
        PROVE  \E j \in 1..(Len(levels) - 1) : r[j].orders = levels[i].orders
    <3>1. CASE i < at
      <4>1. i \in 1..(Len(levels) - 1)
        BY <1>1, <3>1
      <4>2. r[i] = set[i]
        BY <2>3, <3>1, <4>1
      <4> QED
        BY <1>4, <2>5, <4>1, <4>2
    <3>2. CASE i > at
      <4>1. i - 1 \in 1..(Len(levels) - 1) /\ ~(i - 1 < at) /\ (i - 1) + 1 = i
        BY <1>1, <3>2
      <4>2. r[i - 1] = set[i]
        BY <2>3, <4>1
      <4> QED
        BY <1>4, <2>5, <4>1, <4>2
    <3> QED
      BY <1>1, <2>5, <3>1, <3>2
  <2>6. RestingOrders(r) \subseteq kept
    <3>1. SUFFICES ASSUME NEW o \in RestingOrders(r) PROVE o \in kept
      OBVIOUS
    <3>2. PICK j \in 1..Len(r) : o \in ToSet(r[j].orders)
      BY <1>3, RestingWhere
    <3>3. PICK i \in 1..Len(levels) : i # at /\ r[j].orders = levels[i].orders
      BY <2>3, <2>4
    <3> QED
      BY <1>5, <3>2, <3>3
  <2>7. kept \subseteq RestingOrders(r)
    <3>1. SUFFICES ASSUME NEW o \in kept PROVE o \in RestingOrders(r)
      OBVIOUS
    <3>2. PICK i \in 1..Len(levels) : i # at /\ o \in ToSet(levels[i].orders)
      BY <1>6
    <3>3. PICK j \in 1..Len(r) : r[j].orders = levels[i].orders
      BY <2>3, <2>5, <3>2
    <3> QED
      BY <1>3, <3>2, <3>3, RestingWhere
  <2>8. ToSet(orders) = {}
    BY <1>8, EmptySeq DEF ToSet
  <2> QED
    BY <2>6, <2>7, <2>8 DEF kept
<1> QED
  BY <1>7, <1>8

\* A price that had no level gets one.
LEMMA OpenLevelOrders ==
  ASSUME NEW P, NEW O, NEW levels \in LevelsOf(P, O), NEW order \in O, order.price \in P,
         NEW at \in 1..(Len(levels) + 1),
         NEW level, level = [price |-> order.price, orders |-> <<order>>],
         NEW r, r = InsertAt(levels, at, level)
  PROVE  RestingOrders(r) = RestingOrders(levels) \cup {order}
<1> DEFINE T == [price : P, orders : Seq(O) \ {<<>>}]
<1>1. levels \in Seq(T) /\ Len(levels) \in Nat /\ DOMAIN levels = 1..Len(levels)
  BY DomainOfSeq, LenProperties DEF LevelsOf
<1>2. <<order>> \in Seq(O) \ {<<>>} /\ ToSet(level.orders) = {order}
  BY EmptySeq DEF ToSet
<1>3. level \in T
  BY <1>2
<1> HIDE DEF T
<1>4. r \in Seq(T) /\ Len(r) = Len(levels) + 1 /\ r[at] = level
  BY <1>1, <1>3, InsertAtResult
<1>5. \A j \in 1..(Len(levels) + 1) :
        (j < at => r[j] = levels[j]) /\ (j > at => r[j] = levels[j - 1])
  BY <1>1, <1>3, InsertAtElement
<1>6. DOMAIN r = 1..(Len(levels) + 1)
  BY <1>4, DomainOfSeq
<1>7. ASSUME NEW j \in DOMAIN r
      PROVE  ToSet(r[j].orders) \subseteq RestingOrders(levels) \cup {order}
  <2>1. CASE j = at
    BY <1>2, <1>4, <2>1
  <2>2. CASE j < at
    <3>1. j \in DOMAIN levels
      BY <1>1, <1>6, <2>2
    <3>2. r[j] = levels[j]
      BY <1>5, <1>6, <2>2
    <3> QED
      BY <3>1, <3>2 DEF RestingOrders
  <2>3. CASE j > at
    <3>1. j - 1 \in DOMAIN levels
      BY <1>1, <1>6, <2>3
    <3>2. r[j] = levels[j - 1]
      BY <1>5, <1>6, <2>3
    <3> QED
      BY <3>1, <3>2 DEF RestingOrders
  <2> QED
    BY <1>1, <1>6, <2>1, <2>2, <2>3
<1>8. ASSUME NEW i \in DOMAIN levels
      PROVE  \E j \in DOMAIN r : r[j] = levels[i]
  <2>1. CASE i < at
    <3>1. i \in DOMAIN r
      BY <1>1, <1>6
    <3>2. r[i] = levels[i]
      BY <1>5, <1>6, <2>1, <3>1
    <3> QED
      BY <3>1, <3>2
  <2>2. CASE ~(i < at)
    <3>1. i + 1 \in DOMAIN r /\ i + 1 > at /\ (i + 1) - 1 = i
      BY <1>1, <1>6, <2>2
    <3>2. r[i + 1] = levels[(i + 1) - 1]
      BY <1>5, <1>6, <3>1
    <3> QED
      BY <3>1, <3>2
  <2> QED
    BY <2>1, <2>2
<1>9. RestingOrders(r) \subseteq RestingOrders(levels) \cup {order}
  BY <1>7 DEF RestingOrders
<1>10. RestingOrders(levels) \subseteq RestingOrders(r)
  BY <1>8 DEF RestingOrders
<1>11. order \in RestingOrders(r)
  BY <1>2, <1>4, <1>6 DEF RestingOrders
<1> QED
  BY <1>9, <1>10, <1>11

\* insertResting adds the order to its side, and nothing else.
LEMMA InsertRestingOrders ==
  ASSUME NEW P \in SUBSET Int, NEW n, NEW levels \in LevelsOf(P, Older(n)),
         NEW order \in Older(n), order.price \in P, LevelsWellFormed(order.side, levels)
  PROVE  RestingOrders(InsertResting(levels, order)) = RestingOrders(levels) \cup {order}
<1> DEFINE at    == LevelIndex(levels, order.price)
           worse == FirstWorse(levels, order)
           level == [price |-> order.price, orders |-> <<order>>]
           place == IF worse = 0 THEN Len(levels) + 1 ELSE worse
           side  == order.side
           price == order.price
<1>1. InsertResting(levels, order) =
        IF at # 0 THEN SetOrders(levels, at, Append(levels[at].orders, order))
        ELSE InsertAt(levels, place, level)
  BY DEF InsertResting, FirstWorse
<1>2. /\ at \in 0..Len(levels) /\ Len(levels) \in Nat
      /\ at # 0 => levels[at].price = price
  BY LevelIndexResult, LenProperties DEF LevelsOf
<1>3. worse \in 0..Len(levels)
  BY FirstWorseResult DEF LevelsOf
<1>4. at = LevelIndex(levels, price)
  OBVIOUS
<1> HIDE DEF at, worse, level, side, price
<1>5. CASE at # 0
  <2> DEFINE orders == levels[at].orders
             joined == Append(orders, order)
             r      == RemoveEmptyLevel(SetOrders(levels, at, joined), levels[at].price)
  <2>1. at \in 1..Len(levels) /\ at = LevelIndex(levels, levels[at].price)
    BY <1>2, <1>4, <1>5
  <2>2. orders \in Seq(Older(n))
    BY <2>1, LevelType
  <2> HIDE DEF orders
  <2>3. joined \in Seq(Older(n)) \ {<<>>} /\ ToSet(joined) = ToSet(orders) \cup {order}
    <3>1. joined \in Seq(Older(n)) \ {<<>>}
      BY <2>2, AppendType
    <3> QED
      BY <2>2, <3>1, AppendSet
  <2> HIDE DEF joined
  <2>4. r = SetOrders(levels, at, joined)
    BY <2>1, <2>3, AlterLevelResult
  <2>5. LevelsWellFormed(side, levels)
    BY DEF side
  <2> HIDE DEF r
  <2>6. RestingOrders(r) = (RestingOrders(levels) \ ToSet(levels[at].orders)) \cup ToSet(joined)
    BY <2>1, <2>3, <2>5, ReplaceLevelOrders DEF r
  <2>7. ToSet(orders) \subseteq RestingOrders(levels)
    BY <2>1, RestingWhere DEF orders
  <2>8. InsertResting(levels, order) = r
    BY <1>1, <1>5, <2>4 DEF joined, orders
  <2> QED
    BY <2>3, <2>6, <2>7, <2>8 DEF orders
<1>6. CASE at = 0
  <2>1. place \in 1..(Len(levels) + 1)
    BY <1>2, <1>3
  <2> HIDE DEF place
  <2> DEFINE r == InsertAt(levels, place, level)
  <2>2. InsertResting(levels, order) = r /\ level = [price |-> order.price, orders |-> <<order>>]
    BY <1>1, <1>6 DEF level
  <2> HIDE DEF r
  <2>3. RestingOrders(r) = RestingOrders(levels) \cup {order}
    BY <2>1, <2>2, OpenLevelOrders DEF r
  <2> QED
    BY <2>2, <2>3
<1> QED
  BY <1>5, <1>6

\* cancelResting takes the order out of its side, and nothing else.
LEMMA CancelRestingOrders ==
  ASSUME NEW P \in SUBSET Int, NEW n, NEW side, NEW levels \in LevelsOf(P, Older(n)),
         LevelsWellFormed(side, levels), NEW order \in RestingOrders(levels)
  PROVE  RestingOrders(CancelResting(levels, order.price, order.id)) = RestingOrders(levels) \ {order}
<1>1. PICK at \in 1..Len(levels) : order \in ToSet(levels[at].orders)
  BY RestingWhere
<1> DEFINE id    == order.id
           queue == levels[at].orders
           I     == {j \in 1..Len(queue) : queue[j].id = id}
           i     == SelectInSeq(queue, LAMBDA o : o.id = id)
           left  == RemoveAt(queue, i)
<1>2. order.price = levels[at].price
  BY <1>1, LevelOrders
<1>3. at = LevelIndex(levels, levels[at].price)
  <2> DEFINE f == LevelIndex(levels, levels[at].price)
  <2>1. f \in 0..Len(levels) /\ f # 0 /\ levels[f].price = levels[at].price
    BY LevelIndexResult DEF LevelsOf
  <2> HIDE DEF f
  <2>2. f \in 1..Len(levels)
    BY <2>1
  <2>3. f = at
    BY <2>1, <2>2, LevelOrders
  <2> QED
    BY <2>3 DEF f
<1>4. queue \in Seq(Older(n)) /\ InOrderOfArrival(queue) /\ ToSet(queue) \subseteq RestingOrders(levels)
  <2>1. DOMAIN levels = 1..Len(levels)
    BY DomainOfSeq DEF LevelsOf
  <2> QED
    BY <2>1, LevelType, RestingWhere DEF LevelsWellFormed, QueueWellFormed
<1>5. i = IF I # {} THEN Min(I) ELSE 0
  BY DEF SelectInSeq
<1>6. CancelResting(levels, order.price, order.id) =
        RemoveEmptyLevel(SetOrders(levels, at, left), levels[at].price)
  BY <1>2, <1>3 DEF CancelResting
<1>7. order \in ToSet(queue)
  BY <1>1
<1> HIDE DEF queue, i
<1>8. PICK k \in 1..Len(queue) : order = queue[k]
  BY <1>4, <1>7, QueueWhere
<1>9. I # {} /\ I \in SUBSET (1..Len(queue))
  BY <1>8
<1> HIDE DEF I
<1>10. i \in I
  BY <1>4, <1>5, <1>9, FirstIndex
<1>11. i \in 1..Len(queue) /\ queue[i].id = queue[k].id
  BY <1>8, <1>10 DEF I
<1>12. i = k /\ \A k1, k2 \in 1..Len(queue) : queue[k1] = queue[k2] => k1 = k2
  BY <1>4, <1>8, <1>11, NoneTwice
<1>13. left \in Seq(Older(n)) /\ ToSet(left) = ToSet(queue) \ {order}
  <2>1. left \in Seq(Older(n))
    BY <1>4, <1>11, RemoveAtResult
  <2>2. ToSet(left) = ToSet(queue) \ {queue[i]}
    BY <1>4, <1>11, <1>12, RemoveSet
  <2> QED
    BY <1>8, <1>12, <2>1, <2>2
<1> HIDE DEF left, id
<1> DEFINE r == RemoveEmptyLevel(SetOrders(levels, at, left), levels[at].price)
<1>14. r = RemoveEmptyLevel(SetOrders(levels, at, left), levels[at].price)
  OBVIOUS
<1> HIDE DEF r
<1>15. RestingOrders(r) = (RestingOrders(levels) \ ToSet(levels[at].orders)) \cup ToSet(left)
  BY <1>3, <1>13, <1>14, ReplaceLevelOrders
<1>16. levels[at].orders = queue
  BY DEF queue
<1>17. RestingOrders(r) = RestingOrders(levels) \ {order}
  BY <1>4, <1>7, <1>13, <1>15, <1>16
<1> QED
  BY <1>6, <1>14, <1>17

-----------------------------------------------------------------------------
(* The collateral of the orders of a side *)

LEMMA FiniteImage ==
  ASSUME NEW S, IsFiniteSet(S), NEW f, DOMAIN f = S, NEW T, T = {f[x] : x \in S}
  PROVE  IsFiniteSet(T)
<1> DEFINE g == [x \in S |-> f[x]]
<1>1. g \in Surjection(S, T)
  BY DEF Surjection
<1> QED
  BY <1>1, FS_Surjection

\* A book of finitely many levels has finitely many orders.
LEMMA RestingFinite ==
  ASSUME NEW P, NEW O, NEW levels \in LevelsOf(P, O)
  PROVE  IsFiniteSet(RestingOrders(levels))
<1>1. Len(levels) \in Nat /\ DOMAIN levels = 1..Len(levels)
  BY LenProperties, DomainOfSeq DEF LevelsOf
<1>2. IsFiniteSet(1..Len(levels))
  BY <1>1, FS_Interval
<1>3. ASSUME NEW i \in 1..Len(levels) PROVE IsFiniteSet(ToSet(levels[i].orders))
  <2> DEFINE s == levels[i].orders
  <2>1. s \in Seq(O)
    BY LevelType
  <2> HIDE DEF s
  <2>2. Len(s) \in Nat /\ DOMAIN s = 1..Len(s)
    BY <2>1, LenProperties, DomainOfSeq
  <2>3. IsFiniteSet(DOMAIN s)
    BY <2>2, FS_Interval
  <2>4. IsFiniteSet(ToSet(s))
    BY <2>3, FiniteImage DEF ToSet
  <2> QED
    BY <2>4 DEF s
<1> DEFINE f == [i \in 1..Len(levels) |-> ToSet(levels[i].orders)]
           Q == {f[i] : i \in 1..Len(levels)}
<1>4. IsFiniteSet(Q)
  <2>1. DOMAIN f = 1..Len(levels)
    OBVIOUS
  <2> HIDE DEF f
  <2> QED
    BY <1>2, <2>1, FiniteImage
<1>5. \A T \in Q : IsFiniteSet(T)
  BY <1>3
<1>6. RestingOrders(levels) = UNION Q
  BY <1>1 DEF RestingOrders
<1> QED
  <2> HIDE DEF Q
  <2> QED
    BY <1>4, <1>5, <1>6, FS_UNION

\* The collateral of one user's orders among some orders.
OwnMargin(u, orders) == MarginOf({o \in orders : o.user = u})

LEMMA OwnMarginType ==
  ASSUME NEW R, IsFiniteSet(R), \A o \in R : o.margin \in Nat, NEW u
  PROVE  /\ OwnMargin(u, R) \in Nat
         /\ \A x \in R : x.user = u => x.margin <= OwnMargin(u, R)
         /\ (\A o \in R : o.user # u) => OwnMargin(u, R) = 0
<1> DEFINE S == {o \in R : o.user = u}
           f == [o \in S |-> o.margin]
<1>1. IsFiniteSet(S)
  BY FS_Subset
<1>2. f \in [S -> Nat] /\ f \in [S -> Int] /\ \A x \in S : f[x] = x.margin
  OBVIOUS
<1>3. OwnMargin(u, R) = Total(f)
  BY DEF OwnMargin, MarginOf
<1>4. (\A o \in R : o.user # u) => S = {}
  OBVIOUS
<1>5. \A x \in R : x.user = u => x \in S
  OBVIOUS
<1> HIDE DEF f, S
<1>6. Total(f) \in Int /\ (S = {} => Total(f) = 0)
  BY <1>1, <1>2, TotalType
<1>7. Total(f) >= 0 /\ \A x \in S : Total(f) >= f[x]
  BY <1>1, <1>2, TotalNotLess
<1> QED
  BY <1>2, <1>3, <1>4, <1>5, <1>6, <1>7

\* An order that leaves takes its collateral along.
LEMMA OwnMarginWithout ==
  ASSUME NEW R, IsFiniteSet(R), \A o \in R : o.margin \in Nat, NEW x \in R, NEW u
  PROVE  OwnMargin(u, R \ {x}) = OwnMargin(u, R) - IF x.user = u THEN x.margin ELSE 0
<1> DEFINE S == {o \in R : o.user = u}
           Q == {o \in R \ {x} : o.user = u}
           f == [o \in S |-> o.margin]
           g == [o \in Q |-> o.margin]
<1>1. OwnMargin(u, R) = Total(f) /\ OwnMargin(u, R \ {x}) = Total(g)
  BY DEF OwnMargin, MarginOf
<1>2. CASE x.user = u
  <2>1. x \in S /\ Q = S \ {x}
    BY <1>2
  <2>2. IsFiniteSet(S)
    BY FS_Subset
  <2>3. f \in [S -> Int] /\ g \in [Q -> Int] /\ (\A y \in Q : g[y] = f[y]) /\ f[x] = x.margin
    BY <2>1
  <2>6. g \in [S \ {x} -> Int] /\ \A y \in S \ {x} : g[y] = f[y]
    BY <2>1, <2>3
  <2> HIDE DEF S, Q, f, g
  <2>4. Total(f) = f[x] + Total(g) /\ Total(g) \in Int
    BY <2>1, <2>2, <2>3, <2>6, TotalWithout
  <2>5. x.margin \in Int
    OBVIOUS
  <2> QED
    BY <1>1, <1>2, <2>3, <2>4, <2>5
<1>3. CASE x.user # u
  <2>1. Q = S
    BY <1>3
  <2>2. Total(f) = Total(g)
    BY <2>1
  <2>3. OwnMargin(u, R) \in Nat
    BY OwnMarginType
  <2> QED
    BY <1>1, <1>3, <2>2, <2>3
<1> QED
  BY <1>2, <1>3

\* An order that joins brings its collateral.
LEMMA OwnMarginWith ==
  ASSUME NEW R, IsFiniteSet(R), \A o \in R : o.margin \in Nat, NEW x, x \notin R,
         x.margin \in Nat, NEW u
  PROVE  OwnMargin(u, R \cup {x}) = OwnMargin(u, R) + IF x.user = u THEN x.margin ELSE 0
<1> DEFINE Q == R \cup {x}
<1>1. IsFiniteSet(Q) /\ x \in Q /\ Q \ {x} = R /\ \A o \in Q : o.margin \in Nat
  BY FS_AddElement
<1> HIDE DEF Q
<1>2. OwnMargin(u, Q \ {x}) = OwnMargin(u, Q) - IF x.user = u THEN x.margin ELSE 0
  BY <1>1, OwnMarginWithout
<1>3. OwnMargin(u, Q) \in Nat
  BY <1>1, OwnMarginType
<1>4. OwnMargin(u, Q) = OwnMargin(u, R) + IF x.user = u THEN x.margin ELSE 0
  BY <1>1, <1>2, <1>3
<1> QED
  BY <1>4 DEF Q


-----------------------------------------------------------------------------
(* The three parts of Inv *)

\* What Inv says of one account, to which c was credited.
AccountGood(a, c) ==
  /\ a \in Account
  /\ BalanceAddsUp(a.bal)
  /\ a.bal.total = c + a.pos.realizedPnl
  /\ PositionConsistent(a.pos)

AccountsInv ==
  /\ accounts \in [Users -> Account]
  /\ credited \in [Users -> Nat]
  /\ \A u \in Users : AccountGood(accounts[u], credited[u])

RestInv ==
  /\ known \subseteq Users
  /\ markPrice \in Nat
  /\ lastTradePrice \in Nat
  /\ lastObserverSeq \in -1..MaxObserverSeq
  /\ taker \in TakerState \cup {NoTaker}
  /\ orderCount \in 0..MaxOrders
  /\ TakerInv

LEMMA OlderSubset ==
  ASSUME NEW n
  PROVE  Older(n) \subseteq RestingOrder
BY DEF Older

LEMMA InvParts == Inv <=> AccountsInv /\ RestInv /\ BookInv
<1>1. ASSUME Inv PROVE AccountsInv
  BY <1>1 DEF Inv, TypeOK, AccountsInv, AccountGood, BalancesAddUp, TotalIsCreditPlusPnl, PositionsConsistent
<1>2. ASSUME Inv PROVE RestInv /\ BookInv
  BY <1>2 DEF Inv, TypeOK, RestInv
<1>3. ASSUME AccountsInv, RestInv, BookInv PROVE Inv
  <2>1. /\ bids \in LevelsOf(Prices, RestingOrder)
        /\ asks \in LevelsOf(Prices, RestingOrder)
    BY <1>3, OlderSubset, LevelsOfMonotonic DEF BookInv
  <2>2. TypeOK
    BY <1>3, <2>1 DEF TypeOK, AccountsInv, RestInv
  <2>3. BalancesAddUp /\ TotalIsCreditPlusPnl /\ PositionsConsistent
    BY <1>3 DEF AccountsInv, AccountGood, BalancesAddUp, TotalIsCreditPlusPnl, PositionsConsistent
  <2> QED
    BY <1>3, <2>2, <2>3 DEF Inv, RestInv
<1> QED
  BY <1>1, <1>2, <1>3

LEMMA InvPartsNext == AccountsInv' /\ RestInv' /\ BookInv' => Inv'
BY InvParts, PTL

-----------------------------------------------------------------------------
(* Accounts *)

\* A leg of a fill, with collateral that is not negative.
LEMMA FillGood ==
  ASSUME NEW a, NEW c \in Int, AccountGood(a, c), NEW side \in Sides, NEW price \in Int,
         NEW quantity \in Nat \ {0}, NEW margin \in Nat, NEW leverage \in Nat \ {0}
  PROVE  AccountGood(ApplyFill(a, side, price, quantity, margin, leverage), c)
<1> DEFINE r == ApplyFill(a, side, price, quantity, margin, leverage)
<1>1. a \in Account /\ PositionConsistent(a.pos) /\ BalanceAddsUp(a.bal)
      /\ a.bal.total = c + a.pos.realizedPnl
  BY DEF AccountGood
<1>2. FillResult(a, r)
  BY <1>1, ApplyFillResult
<1> HIDE DEF r
<1>3. r \in Account /\ BalanceAddsUp(r.bal) /\ PositionConsistent(r.pos)
      /\ r.bal.total - r.pos.realizedPnl = a.bal.total - a.pos.realizedPnl
  BY <1>1, <1>2 DEF FillResult
<1>4. r.bal.total = c + r.pos.realizedPnl
  BY <1>1, <1>3 DEF Account, Balance, Position
<1>5. AccountGood(r, c)
  BY <1>3, <1>4 DEF AccountGood
<1> QED
  BY <1>5 DEF r

LEMMA MarkGood ==
  ASSUME NEW a, NEW c \in Int, AccountGood(a, c), NEW mark \in Int
  PROVE  AccountGood(MarkToMarket(a, mark), c) /\ AccountGood(Liquidate(a, mark), c)
<1>1. a \in Account /\ PositionConsistent(a.pos) /\ BalanceAddsUp(a.bal)
      /\ a.bal.total = c + a.pos.realizedPnl
  BY DEF AccountGood
<1>2. FillResult(a, MarkToMarket(a, mark)) /\ FillResult(a, Liquidate(a, mark))
  BY <1>1, MarkResult
<1>3. ASSUME NEW r, FillResult(a, r) PROVE AccountGood(r, c)
  <2>1. r \in Account /\ BalanceAddsUp(r.bal) /\ PositionConsistent(r.pos)
        /\ r.bal.total - r.pos.realizedPnl = a.bal.total - a.pos.realizedPnl
    BY <1>1, <1>3 DEF FillResult
  <2>2. r.bal.total = c + r.pos.realizedPnl
    BY <1>1, <2>1 DEF Account, Balance, Position
  <2> QED
    BY <2>1, <2>2 DEF AccountGood
<1> QED
  BY <1>2, <1>3

\* Only the balance of an account changes, and it still adds up.
LEMMA BalanceGood ==
  ASSUME NEW a, NEW c \in Int, AccountGood(a, c), NEW b \in Balance, NEW d \in Int,
         BalanceAddsUp(b), b.total = d + a.pos.realizedPnl
  PROVE  AccountGood([a EXCEPT !.bal = b], d)
BY DEF AccountGood, Account

\* An action that changes the account of one user.
LEMMA OneAccount ==
  ASSUME AccountsInv, NEW user \in Users, NEW a, AccountGood(a, credited[user]),
         accounts' = [accounts EXCEPT ![user] = a], UNCHANGED credited
  PROVE  AccountsInv'
<1>1. a \in Account
  BY DEF AccountGood
<1>2. accounts' \in [Users -> Account] /\ credited' \in [Users -> Nat]
  BY <1>1 DEF AccountsInv
<1>3. \A u \in Users : AccountGood(accounts'[u], credited'[u])
  BY DEF AccountsInv
<1> QED
  BY <1>2, <1>3 DEF AccountsInv

-----------------------------------------------------------------------------
(* The initial state and the actions that leave the book alone *)

LEMMA EmptySide ==
  ASSUME NEW side, NEW n
  PROVE  <<>> \in LevelsOf(Prices, Older(n)) /\ LevelsWellFormed(side, <<>>)
<1>1. <<>> \in LevelsOf(Prices, Older(n))
  BY EmptySeq DEF LevelsOf
<1>2. DOMAIN <<>> = {}
  BY EmptySeq
<1> QED
  BY <1>1, <1>2 DEF LevelsWellFormed, LevelsSorted

LEMMA InitInv == Init => Inv
<1> SUFFICES ASSUME Init PROVE Inv
  OBVIOUS
<1>1. AccountGood(NoAccount, 0)
  BY DEF AccountGood, NoAccount, NoBalance, NoPosition, Account, Balance, Position,
         BalanceAddsUp, PositionConsistent
<1>2. AccountsInv
  BY <1>1 DEF Init, AccountsInv, AccountGood
<1>3. RestInv
  BY InputAssumption DEF Init, RestInv, TakerInv, Idle, NoTaker
<1>4. BookInv
  BY EmptySide DEF Init, BookInv, BookWellFormed
<1> QED
  BY <1>2, <1>3, <1>4, InvParts

\* The book is the same, and the horizon is not lower.
LEMMA SameBook ==
  ASSUME Inv, UNCHANGED <<bids, asks>>, Horizon \in Nat, Horizon' \in Nat, Horizon <= Horizon'
  PROVE  BookInv'
<1>1. Older(Horizon) \subseteq Older(Horizon')
  BY DEF Older, RestingOrder
<1>2. BookInv
  BY DEF Inv
<1>3. bids' \in LevelsOf(Prices, Older(Horizon')) /\ asks' \in LevelsOf(Prices, Older(Horizon'))
  BY <1>1, <1>2, LevelsOfMonotonic DEF BookInv
<1>4. BookWellFormed'
  BY <1>2 DEF BookInv, BookWellFormed
<1> QED
  BY <1>3, <1>4 DEF BookInv

LEMMA HorizonType ==
  ASSUME Inv
  PROVE  orderCount \in Nat /\ Horizon \in Nat
BY InputAssumption DEF Inv, TypeOK, Horizon

LEMMA CreditUserInv ==
  ASSUME Inv, NEW user \in Users, NEW amount \in Nat, CreditUser(user, amount)
  PROVE  Inv'
<1> USE DEF CreditUser
<1> DEFINE a == accounts[user]
           b == Credit(a.bal, amount)
           d == credited[user] + amount
<1>1. AccountsInv /\ RestInv
  BY InvParts
<1>2. amount \in Nat /\ a \in Account /\ credited[user] \in Nat
  BY <1>1, InputAssumption DEF AccountsInv
<1>3. AccountGood(a, credited[user])
  BY <1>1 DEF AccountsInv
<1>4. a.bal \in Balance /\ BalanceAddsUp(a.bal) /\ amount \in Int
  BY <1>2, <1>3 DEF Account, AccountGood
<1>5. b \in Balance /\ BalanceAddsUp(b) /\ b.total = a.bal.total + amount
  <2> HIDE DEF a, CreditUser
  <2> QED BY <1>4, BalanceType, BalanceStaysSound, BalanceTotal
<1>6. b.total = d + a.pos.realizedPnl
  BY <1>2, <1>3, <1>5 DEF AccountGood, Account, Balance, Position
<1>7. accounts' = [accounts EXCEPT ![user] = [a EXCEPT !.bal = b]]
  OBVIOUS
<1>8. d \in Nat /\ credited' = [credited EXCEPT ![user] = d]
  BY <1>2
<1> HIDE DEF a, b, d, CreditUser
<1>9. AccountGood([a EXCEPT !.bal = b], d)
  BY <1>2, <1>3, <1>5, <1>6, <1>8, BalanceGood
<1>10. [a EXCEPT !.bal = b] \in Account
  BY <1>9 DEF AccountGood
<1>11. AccountsInv'
  BY <1>1, <1>7, <1>8, <1>9, <1>10 DEF AccountsInv
<1>12. RestInv'
  BY <1>1 DEF RestInv, TakerInv, Idle, CreditUser
<1>13. BookInv'
  BY HorizonType, SameBook DEF CreditUser, Horizon, Idle
<1> QED
  BY <1>11, <1>12, <1>13, InvPartsNext

\* An action that returns events and changes nothing else, but for the count
\* of commands.
LEMMA NothingChangedInv ==
  ASSUME Inv, UNCHANGED <<known, accounts, bids, asks, markPrice, lastTradePrice,
                          lastObserverSeq, taker, credited>>,
         \/ orderCount' = orderCount
         \/ Idle /\ orderCount < MaxOrders /\ orderCount' = orderCount + 1
  PROVE  Inv'
<1>1. AccountsInv /\ RestInv
  BY InvParts
<1>2. AccountsInv'
  BY <1>1 DEF AccountsInv
<1>3. RestInv'
  BY <1>1, InputAssumption DEF RestInv, TakerInv, Idle
<1>4. BookInv'
  BY HorizonType, SameBook, InputAssumption DEF Horizon, Idle
<1> QED
  BY <1>2, <1>3, <1>4, InvPartsNext

LEMMA IndexPriceInv ==
  ASSUME Inv, NEW seq \in 0..MaxObserverSeq, NEW price \in MarkPrices, IndexPrice(seq, price)
  PROVE  Inv'
<1> USE DEF IndexPrice
<1>1. AccountsInv /\ RestInv
  BY InvParts
<1>2. price \in Nat
  BY InputAssumption
<1>3. \A u \in Users : AccountGood(accounts'[u], credited'[u])
  <2>1. SUFFICES ASSUME NEW u \in Users PROVE AccountGood(accounts'[u], credited[u])
    OBVIOUS
  <2>2. \/ accounts'[u] = MarkToMarket(accounts[u], price)
        \/ accounts'[u] = Liquidate(accounts[u], price)
    OBVIOUS
  <2>3. AccountGood(accounts[u], credited[u]) /\ credited[u] \in Int
    BY <1>1 DEF AccountsInv
  <2> HIDE DEF IndexPrice
  <2>4. /\ AccountGood(MarkToMarket(accounts[u], price), credited[u])
        /\ AccountGood(Liquidate(accounts[u], price), credited[u])
    BY <1>2, <2>3, MarkGood
  <2> QED
    BY <2>2, <2>4
<1>4. accounts' = [u \in Users |-> accounts'[u]]
  OBVIOUS
<1> HIDE DEF IndexPrice
<1>5. \A u \in Users : accounts'[u] \in Account
  BY <1>3 DEF AccountGood
<1>6. accounts' \in [Users -> Account]
  BY <1>4, <1>5
<1>7. AccountsInv'
  BY <1>1, <1>3, <1>6 DEF AccountsInv, IndexPrice
<1>8. RestInv'
  BY <1>1, <1>2, InputAssumption DEF RestInv, TakerInv, Idle, IndexPrice
<1>9. BookInv'
  BY HorizonType, SameBook DEF IndexPrice, Horizon, Idle
<1> QED
  BY <1>7, <1>8, <1>9, InvPartsNext

-----------------------------------------------------------------------------
(* order.place: the taker enters the loop *)

LEMMA OrderInputType ==
  ASSUME NEW o \in OrderInput
  PROVE  /\ o.user \in Users /\ o.side \in Sides /\ o.type \in {"LIMIT", "MARKET"}
         /\ o.quantity \in Nat \ {0} /\ o.leverage \in Nat \ {0} /\ o.margin \in Nat
         /\ o.type = "LIMIT" => o.price \in Prices
BY InputAssumption DEF OrderInput, LimitOrder, MarketOrder

\* Locking, or releasing, some of a user's balance.
LEMMA LockGood ==
  ASSUME NEW a, NEW c \in Int, AccountGood(a, c), NEW x \in Int
  PROVE  /\ x >= 0 => AccountGood([a EXCEPT !.bal = Lock(a.bal, x)], c)
         /\ AccountGood([a EXCEPT !.bal = Release(a.bal, x)], c)
<1>1. /\ a.bal \in Balance /\ BalanceAddsUp(a.bal)
      /\ a.bal.total = c + a.pos.realizedPnl
  BY DEF AccountGood, Account
<1>2. /\ Lock(a.bal, x) \in Balance /\ Release(a.bal, x) \in Balance
      /\ x >= 0 => BalanceAddsUp(Lock(a.bal, x))
      /\ BalanceAddsUp(Release(a.bal, x))
      /\ Lock(a.bal, x).total = a.bal.total /\ Release(a.bal, x).total = a.bal.total
  BY <1>1, BalanceType, BalanceStaysSound, BalanceTotal
<1>3. Release(a.bal, x).total = c + a.pos.realizedPnl /\ Lock(a.bal, x).total = c + a.pos.realizedPnl
  BY <1>1, <1>2
<1> QED
  BY <1>2, <1>3, BalanceGood

LEMMA BeginMatchInv ==
  ASSUME Inv, NEW o \in OrderInput, BeginMatch(o)
  PROVE  Inv'
<1> USE DEF BeginMatch
<1>1. AccountsInv /\ RestInv
  BY InvParts
<1>2. /\ o.user \in Users /\ o.quantity \in Nat \ {0} /\ o.margin \in Nat
  BY OrderInputType
<1> DEFINE a == accounts[o.user]
<1>3. accounts' = [accounts EXCEPT ![o.user] = [a EXCEPT !.bal = Lock(a.bal, o.margin)]]
  OBVIOUS
<1>4. AccountGood(a, credited[o.user]) /\ credited[o.user] \in Int /\ o.margin \in Int /\ o.margin >= 0
  BY <1>1, <1>2 DEF AccountsInv
<1>5. UNCHANGED credited
  OBVIOUS
<1>6. AccountGood([a EXCEPT !.bal = Lock(a.bal, o.margin)], credited[o.user])
  <2> HIDE DEF a, BeginMatch
  <2> QED BY <1>4, LockGood
<1>7. AccountsInv'
  <2> HIDE DEF a, BeginMatch
  <2> QED BY <1>1, <1>2, <1>3, <1>5, <1>6, OneAccount
<1>8. orderCount \in Nat /\ orderCount' \in 1..MaxOrders /\ orderCount' = orderCount + 1
  BY <1>1, InputAssumption DEF RestInv
<1>9. taker' = [id |-> orderCount + 1, order |-> o, remaining |-> o.quantity,
                affected |-> {o.user}, reports |-> <<>>]
  OBVIOUS
<1>10. taker' \in TakerState /\ taker' # NoTaker
  BY <1>2, <1>8, <1>9, EmptySeq DEF TakerState, NoTaker
<1>11. TakerInv'
  BY <1>2, <1>8, <1>9 DEF TakerInv
<1>12. RestInv'
  BY <1>1, <1>8, <1>10, <1>11 DEF RestInv
<1>13. Horizon' = Horizon
  BY <1>8, <1>10 DEF Horizon, Idle
<1>14. BookInv'
  BY <1>13, HorizonType, SameBook
<1> QED
  BY <1>7, <1>12, <1>14, InvPartsNext

-----------------------------------------------------------------------------
(* order.cancel *)

\* One side gets other levels that are well formed.
LEMMA SetLevelsBook ==
  ASSUME BookInv, NEW side \in Sides, NEW levels \in LevelsOf(Prices, Older(Horizon)),
         LevelsWellFormed(side, levels), SetLevels(side, levels), UNCHANGED Horizon
  PROVE  BookInv'
BY DEF BookInv, BookWellFormed, SetLevels, Sides

\* What Inv says of one side.
LEMMA SideGood ==
  ASSUME Inv, NEW side \in Sides
  PROVE  Levels(side) \in LevelsOf(Prices, Older(Horizon)) /\ LevelsWellFormed(side, Levels(side))
BY DEF Inv, BookInv, BookWellFormed, Levels, Sides

LEMMA CancelOrderInv ==
  ASSUME Inv, NEW user \in Users, NEW id, NEW side \in Sides, NEW price \in Prices,
         CancelOrder(user, id, side, price)
  PROVE  Inv'
<1>1. AccountsInv /\ RestInv /\ BookInv
  BY InvParts
<1> DEFINE levels == Levels(side)
           at     == LevelIndex(levels, price)
           a      == accounts[user]
<1>2. PICK o \in Target(user, id, side, price) :
        /\ SetLevels(side, CancelResting(levels, price, id))
        /\ accounts' = [accounts EXCEPT ![user] = [a EXCEPT !.bal = Release(a.bal, o.margin)]]
  BY DEF CancelOrder
<1>3. levels \in LevelsOf(Prices, Older(Horizon)) /\ LevelsWellFormed(side, levels)
  BY SideGood
<1>4. o \in ToSet(OrdersAt(levels, price)) /\ o.id = id
  BY DEF Target
<1> HIDE DEF levels
<1>5. at # 0 /\ OrdersAt(levels, price) = levels[at].orders
  BY <1>4 DEF OrdersAt, ToSet
<1>6. at \in 1..Len(levels)
  BY <1>3, <1>5, LevelIndexResult, LenProperties DEF LevelsOf
<1>7. levels[at].orders \in Seq(Older(Horizon))
  BY <1>3, <1>6, LevelType
<1> HIDE DEF at
<1>8. PICK k \in 1..Len(levels[at].orders) : o = levels[at].orders[k]
  BY <1>4, <1>5, <1>7, DomainOfSeq DEF ToSet
<1>9. o \in Older(Horizon) /\ o.margin \in Int
  BY <1>7, <1>8, ElementOfSeq DEF Older, RestingOrder
<1>10. Prices \in SUBSET Int /\ levels[at].orders[k].id = id /\ at = LevelIndex(levels, price)
  BY <1>4, <1>8, InputAssumption DEF at
<1>11. /\ CancelResting(levels, price, id) \in LevelsOf(Prices, Older(Horizon))
       /\ LevelsWellFormed(side, CancelResting(levels, price, id))
  BY <1>3, <1>5, <1>8, <1>10, CancelRestingResult
<1>12. UNCHANGED Horizon
  BY DEF CancelOrder, Horizon, Idle
<1>13. BookInv'
  BY <1>1, <1>2, <1>11, <1>12, SetLevelsBook
<1>14. AccountGood(a, credited[user]) /\ credited[user] \in Int
  BY <1>1 DEF AccountsInv
<1>15. UNCHANGED credited
  BY DEF CancelOrder
<1> HIDE DEF a
<1>16. AccountGood([a EXCEPT !.bal = Release(a.bal, o.margin)], credited[user])
  BY <1>9, <1>14, LockGood
<1>17. AccountsInv'
  BY <1>1, <1>2, <1>15, <1>16, OneAccount
<1>18. RestInv'
  BY <1>1 DEF CancelOrder, RestInv, TakerInv, Idle
<1> QED
  BY <1>13, <1>17, <1>18, InvPartsNext

-----------------------------------------------------------------------------
(* order.place: the taker leaves the loop *)

\* What Inv says of a taker in the loop.
LEMMA TakerGood ==
  ASSUME Inv, ~Idle
  PROVE  /\ taker \in TakerState
         /\ taker.id = orderCount /\ orderCount \in Nat \ {0} /\ Horizon = orderCount
         /\ taker.order \in OrderInput
         /\ taker.remaining \in Nat /\ taker.remaining <= taker.order.quantity
<1>1. RestInv
  BY InvParts
<1>2. taker \in TakerState
  BY <1>1 DEF RestInv, Idle
<1>3. taker.id = orderCount /\ orderCount > 0 /\ orderCount \in Nat /\ Horizon = orderCount
      /\ taker.remaining <= taker.order.quantity
  BY <1>1, InputAssumption DEF RestInv, TakerInv, Horizon
<1> QED
  BY <1>2, <1>3 DEF TakerState

\* The collateral of a part of an order is some of the order's.
LEMMA MarginShareType ==
  ASSUME NEW o \in OrderInput, NEW n \in Nat, n <= o.quantity
  PROVE  MarginShare(o, n) \in Nat
<1>1. o.quantity \in Nat \ {0} /\ o.margin \in Nat
  BY OrderInputType
<1>2. RoundDiv(n * o.margin, o.quantity) \in 0..o.margin
  BY <1>1, RoundDivShare
<1> QED
  BY <1>1, <1>2 DEF MarginShare

LEMMA EndMatchInv ==
  ASSUME Inv, EndMatch
  PROVE  Inv'
<1>1. AccountsInv /\ RestInv /\ BookInv
  BY InvParts
<1> DEFINE o       == taker.order
           rest    == MarginShare(o, taker.remaining)
           resting == [id |-> taker.id, user |-> o.user, side |-> o.side, price |-> o.price,
                       quantity |-> taker.remaining, remaining |-> taker.remaining,
                       leverage |-> o.leverage, margin |-> rest]
           levels  == Levels(o.side)
           new     == InsertResting(levels, resting)
<1>2. /\ ~Idle /\ taker' = NoTaker
      /\ UNCHANGED <<known, markPrice, lastTradePrice, lastObserverSeq, orderCount, credited>>
  BY DEF EndMatch
<1>3. /\ taker.id = orderCount /\ orderCount \in Nat \ {0} /\ Horizon = orderCount
      /\ o \in OrderInput /\ taker.remaining \in Nat /\ taker.remaining <= o.quantity
  BY <1>2, TakerGood
<1>4. /\ o.user \in Users /\ o.side \in Sides /\ o.leverage \in Nat \ {0}
      /\ o.type = "LIMIT" => o.price \in Prices
  BY <1>3, OrderInputType
<1>5. rest \in Nat
  BY <1>3, MarginShareType
<1>6. Horizon' = Horizon + 1 /\ Idle'
  BY <1>2, <1>3 DEF Horizon, Idle
<1>7. RestInv'
  BY <1>1, <1>2, <1>6 DEF RestInv, TakerInv
<1>8. CASE /\ o.type = "LIMIT" /\ taker.remaining > 0
           /\ SetLevels(o.side, new) /\ UNCHANGED accounts
  <2>1. resting \in Older(Horizon')
    BY <1>3, <1>4, <1>5, <1>6, <1>8 DEF Older, RestingOrder
  <2>2. Older(Horizon) \subseteq Older(Horizon')
    BY <1>3, <1>6 DEF Older, RestingOrder
  <2>3. levels \in LevelsOf(Prices, Older(Horizon)) /\ LevelsWellFormed(o.side, levels)
    BY <1>4, SideGood
  <2>4. levels \in LevelsOf(Prices, Older(Horizon'))
    <3> HIDE DEF levels
    <3> QED BY <2>2, <2>3, LevelsOfMonotonic
  <2>5. LiveAt(o.side, o.price, resting)
    BY <1>3, <1>5, <1>8 DEF LiveAt
  <2>6. resting.side = o.side /\ resting.price = o.price /\ resting.id = Horizon
    BY <1>3
  <2> HIDE DEF levels, resting
  <2>7. \A i \in 1..Len(levels) : \A k \in 1..Len(levels[i].orders) :
          levels[i].orders[k].id < resting.id
    <3>1. SUFFICES ASSUME NEW i \in 1..Len(levels), NEW k \in 1..Len(levels[i].orders)
                   PROVE  levels[i].orders[k].id < Horizon
      BY <2>6
    <3>2. levels[i].orders \in Seq(Older(Horizon))
      BY <2>3, LevelType
    <3>3. levels[i].orders[k] \in Older(Horizon)
      BY <3>2, ElementOfSeq
    <3> QED
      BY <3>3 DEF Older
  <2>8. Prices \in SUBSET Int /\ resting.price \in Prices
    BY <1>4, <1>8, <2>6, InputAssumption
  <2>9. /\ LevelsWellFormed(resting.side, levels)
        /\ LiveAt(resting.side, resting.price, resting)
    BY <2>3, <2>5, <2>6
  <2>10. /\ new \in LevelsOf(Prices, Older(Horizon'))
         /\ LevelsWellFormed(resting.side, new)
    BY <2>1, <2>4, <2>7, <2>8, <2>9, InsertRestingResult
  <2>11. /\ bids \in LevelsOf(Prices, Older(Horizon'))
         /\ asks \in LevelsOf(Prices, Older(Horizon'))
    <3>1. bids \in LevelsOf(Prices, Older(Horizon)) /\ asks \in LevelsOf(Prices, Older(Horizon))
      BY <1>1 DEF BookInv
    <3> QED
      BY <2>2, <3>1, LevelsOfMonotonic
  <2>12. LevelsWellFormed(o.side, new)
    BY <2>6, <2>10
  <2> HIDE DEF new
  <2>13. BookInv'
    BY <1>1, <1>4, <1>8, <2>10, <2>11, <2>12 DEF BookInv, BookWellFormed, SetLevels, Sides
  <2>14. AccountsInv'
    BY <1>1, <1>2, <1>8 DEF AccountsInv
  <2> QED
    BY <1>7, <2>13, <2>14, InvPartsNext
<1>9. CASE /\ accounts' = [accounts EXCEPT ![o.user].bal = Release(@, rest)]
           /\ UNCHANGED <<bids, asks>>
  <2> DEFINE a == accounts[o.user]
  <2>1. accounts' = [accounts EXCEPT ![o.user] = [a EXCEPT !.bal = Release(a.bal, rest)]]
    BY <1>9
  <2>2. AccountGood(a, credited[o.user]) /\ credited[o.user] \in Int /\ rest \in Int
    BY <1>1, <1>4, <1>5 DEF AccountsInv
  <2> HIDE DEF a, rest
  <2>3. AccountGood([a EXCEPT !.bal = Release(a.bal, rest)], credited[o.user])
    BY <2>2, LockGood
  <2>4. AccountsInv'
    BY <1>1, <1>2, <1>4, <2>1, <2>3, OneAccount
  <2>5. BookInv'
    BY <1>3, <1>6, <1>9, SameBook
  <2> QED
    BY <1>7, <2>4, <2>5, InvPartsNext
<1>10. CASE UNCHANGED <<accounts, bids, asks>>
  <2>1. AccountsInv'
    BY <1>1, <1>2, <1>10 DEF AccountsInv
  <2>2. BookInv'
    BY <1>3, <1>6, <1>10, SameBook
  <2> QED
    BY <1>7, <2>1, <2>2, InvPartsNext
<1> QED
  BY <1>8, <1>9, <1>10 DEF EndMatch

-----------------------------------------------------------------------------
(* order.place: one iteration of the loop *)

\* The maker that heads the best level, and what a fill leaves of its level.
LEMMA AfterFillResult ==
  ASSUME NEW n \in Nat, NEW orders \in Seq(Older(n)) \ {<<>>}, NEW side, NEW price,
         QueueWellFormed(side, price, orders), NEW maker, maker = Head(orders),
         NEW quantity \in Nat \ {0}, quantity <= maker.remaining,
         NEW margin \in Nat, margin <= maker.margin
  PROVE  LET left == AfterFill(orders, FillMaker(maker, quantity, margin)) IN
         /\ left \in Seq(Older(n))
         /\ left # <<>> => QueueWellFormed(side, price, left)
<1> DEFINE after == FillMaker(maker, quantity, margin)
           left  == AfterFill(orders, after)
<1>1. Len(orders) \in Nat \ {0} /\ maker = orders[1] /\ maker \in Older(n)
  BY EmptySeq, ElementOfSeq, HeadTailProperties
<1>2. /\ maker.remaining \in Nat \ {0} /\ maker.margin \in Nat /\ maker.quantity \in Nat
      /\ maker.remaining <= maker.quantity
  BY <1>1 DEF Older, RestingOrder
<1>3. LiveAt(side, price, maker)
  BY <1>1, DomainOfSeq DEF QueueWellFormed
<1>4. /\ after.remaining = maker.remaining - quantity /\ after.margin = maker.margin - margin
      /\ after.id = maker.id /\ after.side = maker.side /\ after.price = maker.price
      /\ after.quantity = maker.quantity
  BY <1>1 DEF FillMaker, Older, RestingOrder
<1>5. CASE after.remaining = 0
  <2>1. left = Tail(orders)
    BY <1>5 DEF AfterFill
  <2>2. /\ Tail(orders) \in Seq(Older(n))
        /\ Tail(orders) # <<>> => QueueWellFormed(side, price, Tail(orders))
    BY TailQueue
  <2> QED
    BY <2>1, <2>2
<1>6. CASE after.remaining # 0
  <2>1. left = [orders EXCEPT ![1] = after]
    BY <1>6 DEF AfterFill
  <2>2. after \in Older(n)
    <3>1. maker.remaining - quantity \in Nat \ {0} /\ maker.margin - margin \in Nat
      BY <1>2, <1>4, <1>6
    <3>2. maker \in RestingOrder
      BY <1>1 DEF Older
    <3> DEFINE r == maker.remaining - quantity
               m == maker.margin - margin
    <3>3. after = [maker EXCEPT !.remaining = r, !.margin = m]
      BY DEF FillMaker
    <3>5. r \in Nat \ {0} /\ m \in Int
      BY <3>1
    <3> HIDE DEF r, m, after
    <3>4. after \in RestingOrder
      BY <3>2, <3>3, <3>5 DEF RestingOrder
    <3> QED
      BY <1>1, <1>2, <1>4, <3>4 DEF Older
  <2>3. LiveAt(side, price, after)
    BY <1>2, <1>3, <1>4, <1>6 DEF LiveAt
  <2>4. after.id = orders[1].id
    BY <1>1, <1>4
  <2>5. /\ [orders EXCEPT ![1] = after] \in Seq(Older(n)) \ {<<>>}
        /\ QueueWellFormed(side, price, [orders EXCEPT ![1] = after])
    <3> HIDE DEF after
    <3> QED BY <2>2, <2>3, <2>4, ReplaceHead
  <2>6. left \in Seq(Older(n)) /\ QueueWellFormed(side, price, left)
    <3> HIDE DEF after, left
    <3> QED BY <2>1, <2>5
  <2> QED
    BY <2>6
<1> QED
  BY <1>5, <1>6

LEMMA FillInv ==
  ASSUME Inv, Fill
  PROVE  Inv'
<1>1. AccountsInv /\ RestInv /\ BookInv
  BY InvParts
<1> DEFINE o         == taker.order
           side      == Opposite(o.side)
           old       == Levels(side)
           level     == Head(old)
           maker     == Head(level.orders)
           quantity  == Least(taker.remaining, maker.remaining)
           makerPart == RoundDiv(quantity * maker.margin, maker.remaining)
           takerPart == MarginShare(o, quantity)
           orders    == AfterFill(level.orders, FillMaker(maker, quantity, makerPart))
           levels    == SetOrders(old, 1, orders)
           levelDone == orders = <<>> \/ quantity = taker.remaining
           new       == IF levelDone THEN RemoveEmptyLevel(levels, level.price) ELSE levels
           made      == [accounts EXCEPT ![maker.user] =
                           ApplyFill(@, maker.side, maker.price, quantity, makerPart, maker.leverage)]
<1>2. /\ ~Idle /\ CanFill
      /\ accounts' = [made EXCEPT ![o.user] =
                        ApplyFill(@, o.side, maker.price, quantity, takerPart, o.leverage)]
      /\ SetLevels(side, new)
      /\ lastTradePrice' = maker.price
      /\ taker' = [taker EXCEPT !.remaining = @ - quantity,
                                !.affected = @ \cup {maker.user},
                                !.reports = Append(@, MakerReport(maker, quantity))]
      /\ UNCHANGED <<known, markPrice, lastObserverSeq, orderCount, credited>>
  BY DEF Fill
<1>3. /\ taker \in TakerState /\ taker.id = orderCount /\ orderCount \in Nat \ {0}
      /\ Horizon = orderCount /\ o \in OrderInput
      /\ taker.remaining \in Nat /\ taker.remaining <= o.quantity
  BY <1>2, TakerGood
<1>4. /\ o.user \in Users /\ o.side \in Sides /\ o.leverage \in Nat \ {0} /\ o.quantity \in Nat
  BY <1>3, OrderInputType
<1>5. taker.remaining > 0 /\ old # <<>>
  BY <1>2 DEF CanFill
<1>6. side \in Sides
  BY <1>4 DEF Opposite, Sides
<1>7. old \in LevelsOf(Prices, Older(Horizon)) /\ LevelsWellFormed(side, old)
  BY <1>6, SideGood
<1> HIDE DEF old
<1>8. Len(old) \in Nat \ {0} /\ level = old[1] /\ DOMAIN old = 1..Len(old)
  <2> DEFINE T == [price : Prices, orders : Seq(Older(Horizon)) \ {<<>>}]
  <2>1. old \in Seq(T)
    BY <1>7 DEF LevelsOf
  <2> HIDE DEF T
  <2>2. Len(old) \in Nat \ {0} /\ DOMAIN old = 1..Len(old)
    BY <1>5, <2>1, EmptySeq, DomainOfSeq
  <2>3. Head(old) = old[1]
    OBVIOUS
  <2> QED
    BY <2>2, <2>3
<1>9. level.price \in Prices /\ level.orders \in Seq(Older(Horizon)) \ {<<>>}
  <2> DEFINE i == 1
  <2>1. i \in 1..Len(old) /\ level = old[i]
    BY <1>8
  <2> HIDE DEF i, level
  <2> QED
    BY <1>7, <2>1, LevelType
<1>10. QueueWellFormed(side, level.price, level.orders)
  BY <1>7, <1>8 DEF LevelsWellFormed
<1> HIDE DEF level
<1>11. maker \in Older(Horizon)
  <2>1. Len(level.orders) \in Nat \ {0} /\ maker = level.orders[1]
    BY <1>9, EmptySeq, HeadTailProperties
  <2> QED
    BY <1>9, <2>1, ElementOfSeq
<1>12. /\ maker.user \in Users /\ maker.side \in Sides /\ maker.price \in Prices
       /\ maker.leverage \in Nat \ {0} /\ maker.remaining \in Nat \ {0} /\ maker.margin \in Nat
       /\ maker.id \in Nat /\ maker.quantity \in Nat
  BY <1>11 DEF Older, RestingOrder
<1> HIDE DEF maker
<1>13. /\ quantity \in Nat \ {0} /\ quantity <= maker.remaining
       /\ quantity <= taker.remaining /\ quantity <= o.quantity
  BY <1>3, <1>4, <1>5, <1>12 DEF Least
<1> HIDE DEF quantity
<1>14. makerPart \in 0..maker.margin
  BY <1>12, <1>13, RoundDivShare
<1>15. takerPart \in Nat
  <2> HIDE DEF o
  <2>1. quantity \in Nat
    BY <1>13
  <2> QED BY <1>3, <1>13, <2>1, MarginShareType
<1>16. maker.price \in Int /\ Prices \in SUBSET Int /\ maker.price \in Nat
  <2>1. Prices \subseteq Nat
    BY InputAssumption
  <2>2. Prices \in SUBSET Int
    BY <2>1
  <2>3. maker.price \in Nat
    BY <1>12, <2>1
  <2> QED
    BY <2>2, <2>3
<1> HIDE DEF makerPart, takerPart, o
<1>17. makerPart \in Nat /\ makerPart <= maker.margin
  BY <1>12, <1>14
\* Two legs, the second of them on the maker's own account if it is the taker.
<1>18. AccountsInv'
  <2> DEFINE first  == ApplyFill(accounts[maker.user], maker.side, maker.price, quantity, makerPart, maker.leverage)
             second == ApplyFill(made[o.user], o.side, maker.price, quantity, takerPart, o.leverage)
  <2>1. credited[maker.user] \in Int /\ AccountGood(accounts[maker.user], credited[maker.user])
    BY <1>1, <1>12 DEF AccountsInv
  <2>2. AccountGood(first, credited[maker.user])
    BY <1>12, <1>13, <1>16, <1>17, <2>1, FillGood
  <2>3. made = [accounts EXCEPT ![maker.user] = first]
    OBVIOUS
  <2> HIDE DEF first, made
  <2>4. first \in Account
    BY <2>2 DEF AccountGood
  <2>5. made \in [Users -> Account] /\ \A u \in Users : AccountGood(made[u], credited[u])
    BY <1>1, <1>12, <2>2, <2>3, <2>4 DEF AccountsInv
  <2>6. credited[o.user] \in Int /\ AccountGood(made[o.user], credited[o.user])
    BY <1>1, <1>4, <2>5 DEF AccountsInv
  <2>7. AccountGood(second, credited[o.user])
    BY <1>4, <1>13, <1>15, <1>16, <2>6, FillGood
  <2>8. accounts' = [made EXCEPT ![o.user] = second]
    BY <1>2
  <2> HIDE DEF second
  <2>9. second \in Account
    BY <2>7 DEF AccountGood
  <2>10. accounts' \in [Users -> Account] /\ \A u \in Users : AccountGood(accounts'[u], credited[u])
    BY <1>4, <2>5, <2>7, <2>8, <2>9
  <2> QED
    BY <1>1, <1>2, <2>10 DEF AccountsInv
<1>19. taker' \in TakerState /\ taker'.id = taker.id /\ taker'.order = taker.order
       /\ taker'.remaining \in Nat /\ taker'.remaining <= taker.remaining
  <2>1. MakerReport(maker, quantity) \in Report
    BY <1>12, <1>13 DEF MakerReport, Report, Status, Greatest
  <2>2. taker.reports \in Seq(Report) /\ taker.affected \in SUBSET Users
    BY <1>3 DEF TakerState
  <2>3. Append(taker.reports, MakerReport(maker, quantity)) \in Seq(Report)
    BY <2>1, <2>2, AppendProperties
  <2>4. taker.remaining - quantity \in Nat /\ taker.remaining - quantity <= taker.remaining
    BY <1>3, <1>13
  <2>5. taker.affected \cup {maker.user} \in SUBSET Users
    BY <1>12, <2>2
  <2> DEFINE reports == Append(taker.reports, MakerReport(maker, quantity))
             left    == taker.remaining - quantity
             users   == taker.affected \cup {maker.user}
  <2>6. taker' = [taker EXCEPT !.remaining = left, !.affected = users, !.reports = reports]
    BY <1>2
  <2> HIDE DEF reports, left, users
  <2>7. left \in Nat /\ left <= taker.remaining /\ users \in SUBSET Users /\ reports \in Seq(Report)
    BY <2>3, <2>4, <2>5 DEF reports, left, users
  <2> QED
    BY <1>3, <2>6, <2>7 DEF TakerState
<1>20. ~Idle' /\ Horizon' = Horizon
  BY <1>2, <1>3, <1>19 DEF Idle, Horizon, NoTaker
<1>21. TakerInv'
  BY <1>2, <1>3, <1>4, <1>19 DEF TakerInv, o
<1>22. RestInv'
  BY <1>1, <1>2, <1>16, <1>19, <1>21 DEF RestInv
<1>23. new \in LevelsOf(Prices, Older(Horizon)) /\ LevelsWellFormed(side, new)
  <2>1. Horizon \in Nat
    BY <1>3
  <2>2. maker = Head(level.orders)
    BY DEF maker
  <2>3. /\ orders \in Seq(Older(Horizon))
        /\ orders # <<>> => QueueWellFormed(side, level.price, orders)
    BY <1>9, <1>10, <1>13, <1>17, <2>1, <2>2, AfterFillResult
  <2> HIDE DEF orders, side
  <2> DEFINE r == RemoveEmptyLevel(SetOrders(old, 1, orders), old[1].price)
  <2>4. /\ orders # <<>> => r = SetOrders(old, 1, orders)
        /\ r \in LevelsOf(Prices, Older(Horizon))
        /\ LevelsWellFormed(side, r)
    BY <1>5, <1>7, <1>8, <1>16, <2>3, FillLevelResult
  <2>5. new = r
    BY <1>8, <2>4
  <2> QED
    BY <2>4, <2>5
<1>24. BookInv'
  <2> HIDE DEF new, side
  <2> QED BY <1>1, <1>2, <1>6, <1>20, <1>23, SetLevelsBook
<1> QED
  BY <1>18, <1>22, <1>24, InvPartsNext

-----------------------------------------------------------------------------
(* The theorems *)

LEMMA NextInv == Inv /\ [Next]_vars => Inv'
<1> SUFFICES ASSUME Inv, [Next]_vars PROVE Inv'
  OBVIOUS
<1>1. ASSUME NEW user \in Users, NEW amount \in Amounts, CreditUser(user, amount) PROVE Inv'
  BY <1>1, CreditUserInv, InputAssumption
<1>2. ASSUME NEW o \in OrderInput, RejectOrder(o) PROVE Inv'
  BY <1>2, NothingChangedInv DEF RejectOrder
<1>3. ASSUME NEW o \in OrderInput, BeginMatch(o) PROVE Inv'
  BY <1>3, BeginMatchInv
<1>4. CASE Fill
  BY <1>4, FillInv
<1>5. CASE EndMatch
  BY <1>5, EndMatchInv
<1>6. ASSUME NEW user \in Users, NEW id, NEW side \in Sides, NEW price \in Prices,
             CancelOrder(user, id, side, price)
      PROVE  Inv'
  BY <1>6, CancelOrderInv
<1>7. ASSUME NEW user, NEW id, NEW side, NEW price, RejectCancel(user, id, side, price)
      PROVE  Inv'
  BY <1>7, NothingChangedInv DEF RejectCancel
<1>8. ASSUME NEW seq, DropIndexPrice(seq) PROVE Inv'
  BY <1>8, NothingChangedInv DEF DropIndexPrice
<1>9. ASSUME NEW seq \in 0..MaxObserverSeq, NEW price \in MarkPrices, IndexPrice(seq, price)
      PROVE  Inv'
  BY <1>9, IndexPriceInv
<1>10. CASE UNCHANGED vars
  BY <1>10, NothingChangedInv DEF vars
<1> QED
  BY <1>1, <1>2, <1>3, <1>4, <1>5, <1>6, <1>7, <1>8, <1>9, <1>10 DEF Next, Match

\* The invariant of every handler, and of every iteration of the loop of
\* onPlaceOrder.
THEOREM InvHolds == Spec => []Inv
<1>1. Init => Inv
  BY InitInv
<1>2. Inv /\ [Next]_vars => Inv'
  BY NextInv
<1> QED
  BY <1>1, <1>2, PTL DEF Spec

\* The engine's state always has the types of state.ts: no division by a
\* maker's remaining quantity is by zero, no read of level.orders[0] undefined.
THEOREM TypesHold == Spec => []TypeOK
<1>1. Inv => TypeOK
  BY DEF Inv
<1> QED
  BY <1>1, InvHolds, PTL

\* In every balance the free and the locked part make up the total, and the
\* locked part is not negative.
THEOREM BalancesAlwaysAddUp == Spec => []BalancesAddUp
<1>1. Inv => BalancesAddUp
  BY DEF Inv
<1> QED
  BY <1>1, InvHolds, PTL

\* A user's total is what was credited plus what their positions realized.
THEOREM TotalIsAlwaysCreditPlusPnl == Spec => []TotalIsCreditPlusPnl
<1>1. Inv => TotalIsCreditPlusPnl
  BY DEF Inv
<1> QED
  BY <1>1, InvHolds, PTL

\* The cached liquidation price of a position is never stale, and a flat
\* position carries nothing.
THEOREM PositionsAlwaysConsistent == Spec => []PositionsConsistent
<1>1. Inv => PositionsConsistent
  BY DEF Inv
<1> QED
  BY <1>1, InvHolds, PTL

\* Both sides stay sorted, without empty levels, each a queue in order of
\* arrival.
THEOREM BookAlwaysWellFormed == Spec => []BookWellFormed
<1>1. Inv => BookWellFormed
  BY DEF Inv, BookInv
<1> QED
  BY <1>1, InvHolds, PTL

-----------------------------------------------------------------------------
(* A fill *)

LEMMA FilledMaker ==
  ASSUME NEW n \in Nat, NEW maker \in Older(n), NEW quantity \in Nat \ {0},
         quantity <= maker.remaining, NEW margin \in Nat, margin <= maker.margin,
         NEW after, after = FillMaker(maker, quantity, margin)
  PROVE  /\ after.remaining = maker.remaining - quantity /\ after.remaining \in Nat
         /\ after.id = maker.id /\ after.user = maker.user
         /\ after.side = maker.side /\ after.price = maker.price
         /\ after.margin = maker.margin - margin
         /\ after.remaining # 0 => after \in Older(n)
<1>1. /\ maker.remaining \in Nat \ {0} /\ maker.margin \in Nat /\ maker.quantity \in Nat
      /\ maker.remaining <= maker.quantity /\ maker \in RestingOrder /\ maker.id < n
  BY DEF Older, RestingOrder
<1> DEFINE r == maker.remaining - quantity
           m == maker.margin - margin
<1>2. r \in Nat /\ m \in Nat /\ r <= maker.quantity
  BY <1>1
<1>3. after = [maker EXCEPT !.remaining = r, !.margin = m]
  BY DEF FillMaker
<1> HIDE DEF r, m
<1>4. /\ after.remaining = r /\ after.margin = m /\ after.quantity = maker.quantity
      /\ after.id = maker.id /\ after.user = maker.user
      /\ after.side = maker.side /\ after.price = maker.price
  BY <1>1, <1>3 DEF RestingOrder
<1>5. ASSUME r # 0 PROVE after \in Older(n)
  <2>1. after \in RestingOrder
    <3>1. maker \in RestingOrder
      BY <1>1
    <3>2. r \in Nat \ {0} /\ m \in Int
      BY <1>2, <1>5
    <3> QED
      BY <1>3, <3>1, <3>2 DEF RestingOrder
  <2> QED
    BY <1>1, <1>2, <1>4, <2>1 DEF Older
<1> QED
  BY <1>2, <1>4, <1>5 DEF r, m

LEMMA AfterFillSet ==
  ASSUME NEW n, NEW orders \in Seq(Older(n)), orders # <<>>, InOrderOfArrival(orders),
         NEW after, after.remaining \in Nat, after.remaining # 0 => after \in Older(n)
  PROVE  ToSet(AfterFill(orders, after)) =
           (ToSet(orders) \ {orders[1]}) \cup {o \in {after} : o.remaining > 0}
<1>1. CASE after.remaining = 0
  <2>1. AfterFill(orders, after) = Tail(orders) /\ {o \in {after} : o.remaining > 0} = {}
    BY <1>1 DEF AfterFill
  <2> QED
    BY <2>1, TailSet
<1>2. CASE after.remaining # 0
  <2>1. AfterFill(orders, after) = [orders EXCEPT ![1] = after]
        /\ {o \in {after} : o.remaining > 0} = {after}
    BY <1>2 DEF AfterFill
  <2>2. ToSet([orders EXCEPT ![1] = after]) = (ToSet(orders) \ {orders[1]}) \cup {after}
    BY <1>2, HeadSet
  <2> QED
    BY <2>1, <2>2
<1> QED
  BY <1>1, <1>2

\* The taker met this maker on this side, and left the order `after' of it.
Filled(side, maker, after) ==
  LET quantity == Least(taker.remaining, maker.remaining) IN
  /\ Crosses(taker.order, maker.price)
  /\ \A o \in RestingOrders(Levels(side)) \ {maker} :
       \/ BetterFirst(side, maker.price, o.price)
       \/ o.price = maker.price /\ maker.id < o.id
  /\ after.remaining = maker.remaining - quantity /\ after.remaining \in Nat
  /\ after.id = maker.id /\ after.user = maker.user
  /\ after.side = maker.side /\ after.price = maker.price
  /\ RestingOrders(Levels(side)') =
       (RestingOrders(Levels(side)) \ {maker}) \cup {o \in {after} : o.remaining > 0}
  /\ \A other \in Sides \ {side} : Levels(other)' = Levels(other)
  /\ lastTradePrice' = maker.price
  /\ taker' = [taker EXCEPT !.remaining = @ - quantity,
                            !.affected = @ \cup {maker.user},
                            !.reports = Append(@, MakerReport(maker, quantity))]
  /\ orderCount' = orderCount

\* The maker gives up its share of the collateral and the two legs are folded
\* into the accounts, the maker's first.
Settled(maker, after) ==
  LET quantity == Least(taker.remaining, maker.remaining)
      part     == RoundDiv(quantity * maker.margin, maker.remaining)
      made     == [accounts EXCEPT ![maker.user] =
                     ApplyFill(@, maker.side, maker.price, quantity, part, maker.leverage)]
  IN
  /\ after.margin = maker.margin - part
  /\ accounts' = [made EXCEPT ![taker.order.user] =
                    ApplyFill(@, taker.order.side, maker.price, quantity,
                              MarginShare(taker.order, quantity), taker.order.leverage)]

\* What one iteration of the loop does to the two sides, to the taker and to
\* the accounts.
LEMMA FillEffect ==
  ASSUME Inv, Fill, NEW side \in Sides, side = Opposite(taker.order.side)
  PROVE  \E maker \in RestingOrders(Levels(side)) : \E after :
           Filled(side, maker, after) /\ Settled(maker, after)
<1> DEFINE o         == taker.order
           old       == Levels(side)
           level     == Head(old)
           maker     == Head(level.orders)
           quantity  == Least(taker.remaining, maker.remaining)
           makerPart == RoundDiv(quantity * maker.margin, maker.remaining)
           after     == FillMaker(maker, quantity, makerPart)
           orders    == AfterFill(level.orders, after)
           levels    == SetOrders(old, 1, orders)
           levelDone == orders = <<>> \/ quantity = taker.remaining
           new       == IF levelDone THEN RemoveEmptyLevel(levels, level.price) ELSE levels
           made      == [accounts EXCEPT ![maker.user] =
                           ApplyFill(@, maker.side, maker.price, quantity, makerPart, maker.leverage)]
<1>1. /\ ~Idle /\ CanFill
      /\ SetLevels(side, new)
      /\ lastTradePrice' = maker.price
      /\ taker' = [taker EXCEPT !.remaining = @ - quantity,
                                !.affected = @ \cup {maker.user},
                                !.reports = Append(@, MakerReport(maker, quantity))]
      /\ orderCount' = orderCount
      /\ accounts' = [made EXCEPT ![o.user] =
                        ApplyFill(@, o.side, maker.price, quantity, MarginShare(o, quantity), o.leverage)]
  BY DEF Fill
<1>2. /\ taker.remaining > 0 /\ old # <<>> /\ Crosses(o, level.price)
  BY <1>1 DEF CanFill
<1>3. taker.remaining \in Nat /\ Horizon \in Nat
  BY <1>1, TakerGood
<1>4. old \in LevelsOf(Prices, Older(Horizon)) /\ LevelsWellFormed(side, old)
  BY SideGood
<1>5. Prices \in SUBSET Int
  BY InputAssumption
<1> HIDE DEF old, o
<1>6. Len(old) \in Nat \ {0} /\ level = old[1] /\ DOMAIN old = 1..Len(old)
  <2> DEFINE T == [price : Prices, orders : Seq(Older(Horizon)) \ {<<>>}]
  <2>1. old \in Seq(T)
    BY <1>4 DEF LevelsOf
  <2> HIDE DEF T
  <2>2. Len(old) \in Nat \ {0} /\ DOMAIN old = 1..Len(old)
    BY <1>2, <2>1, EmptySeq, DomainOfSeq
  <2>3. Head(old) = old[1]
    OBVIOUS
  <2> QED
    BY <2>2, <2>3
<1>7. level.price \in Prices /\ level.orders \in Seq(Older(Horizon)) \ {<<>>}
  <2> DEFINE i == 1
  <2>1. i \in 1..Len(old) /\ level = old[i]
    BY <1>6
  <2> HIDE DEF i, level
  <2> QED
    BY <1>4, <2>1, LevelType
<1>8. QueueWellFormed(side, level.price, level.orders)
  BY <1>4, <1>6 DEF LevelsWellFormed
<1> HIDE DEF level
<1>9. maker = level.orders[1] /\ maker \in Older(Horizon)
  <2>1. Len(level.orders) \in Nat \ {0} /\ maker = level.orders[1]
    BY <1>7, EmptySeq, HeadTailProperties
  <2> QED
    BY <1>7, <2>1, ElementOfSeq
<1>10. maker.remaining \in Nat \ {0} /\ maker.margin \in Nat
  BY <1>9 DEF Older, RestingOrder
<1> HIDE DEF maker
<1>11. maker = old[1].orders[1]
  BY <1>6, <1>9
<1>12. /\ maker \in RestingOrders(old) /\ maker.price = level.price
       /\ \A p \in RestingOrders(old) \ {maker} :
            \/ BetterFirst(side, maker.price, p.price)
            \/ p.price = maker.price /\ maker.id < p.id
  BY <1>2, <1>4, <1>5, <1>6, <1>11, BestOrder
<1>13. quantity \in Nat \ {0} /\ quantity <= maker.remaining
  BY <1>2, <1>3, <1>10 DEF Least
<1>14. makerPart \in Nat /\ makerPart <= maker.margin
  <2> HIDE DEF quantity
  <2>1. makerPart \in 0..maker.margin
    BY <1>10, <1>13, RoundDivShare
  <2> QED
    BY <1>10, <2>1
<1> HIDE DEF quantity, makerPart
<1>15. /\ after.remaining = maker.remaining - quantity /\ after.remaining \in Nat
       /\ after.id = maker.id /\ after.user = maker.user
       /\ after.side = maker.side /\ after.price = maker.price
       /\ after.margin = maker.margin - makerPart
       /\ after.remaining # 0 => after \in Older(Horizon)
  BY <1>3, <1>9, <1>13, <1>14, FilledMaker
<1>16. /\ orders \in Seq(Older(Horizon))
       /\ ToSet(orders) = (ToSet(level.orders) \ {maker}) \cup {p \in {after} : p.remaining > 0}
  <2>1. orders \in Seq(Older(Horizon))
    <3>1. maker = Head(level.orders)
      BY DEF maker
    <3> QED
      BY <1>3, <1>7, <1>8, <1>13, <1>14, <3>1, AfterFillResult
  <2> HIDE DEF after
  <2>2. InOrderOfArrival(level.orders)
    BY <1>8 DEF QueueWellFormed
  <2>3. ToSet(orders) = (ToSet(level.orders) \ {level.orders[1]}) \cup {p \in {after} : p.remaining > 0}
    BY <1>7, <1>15, <2>2, AfterFillSet
  <2> QED
    BY <1>9, <2>1, <2>3
<1> HIDE DEF orders, after
<1>17. RestingOrders(new) = (RestingOrders(old) \ {maker}) \cup {p \in {after} : p.remaining > 0}
  <2> DEFINE at == 1
             r  == RemoveEmptyLevel(SetOrders(old, at, orders), old[at].price)
  <2>1. /\ orders # <<>> => r = SetOrders(old, at, orders)
        /\ r = RemoveEmptyLevel(SetOrders(old, at, orders), old[at].price)
    BY <1>2, <1>4, <1>5, <1>16, FillLevelResult
  <2>2. new = r
    BY <1>6, <2>1
  <2>3. at \in 1..Len(old) /\ level = old[at]
    BY <1>6
  <2> HIDE DEF r, new, at
  <2>4. at = LevelIndex(old, old[at].price)
    <3> DEFINE f == LevelIndex(old, old[at].price)
    <3>1. f \in 0..Len(old) /\ f # 0 /\ old[f].price = old[at].price
      BY <1>4, <2>3, LevelIndexResult DEF LevelsOf
    <3> HIDE DEF f
    <3>2. f \in 1..Len(old)
      BY <3>1
    <3>3. f = at
      BY <1>4, <1>5, <2>3, <3>1, <3>2, LevelOrders
    <3> QED
      BY <3>3 DEF f
  <2>5. RestingOrders(r) = (RestingOrders(old) \ ToSet(old[at].orders)) \cup ToSet(orders)
    BY <1>4, <1>5, <1>16, <2>1, <2>3, <2>4, ReplaceLevelOrders
  <2>6. ToSet(level.orders) \subseteq RestingOrders(old) /\ maker \in ToSet(level.orders)
    <3>1. ToSet(level.orders) \subseteq RestingOrders(old)
      BY <1>4, <2>3, RestingWhere
    <3>2. maker \in ToSet(old[1].orders)
      BY <1>2, <1>4, <1>5, <1>11, BestOrder
    <3> QED
      BY <1>6, <3>1, <3>2
  <2> QED
    BY <1>16, <2>2, <2>3, <2>5, <2>6
<1>18. Levels(side)' = new /\ \A other \in Sides \ {side} : Levels(other)' = Levels(other)
  <2> HIDE DEF new
  <2> QED BY <1>1 DEF Levels, SetLevels, Sides
<1> HIDE DEF new
<1>19. Crosses(taker.order, maker.price)
  BY <1>2, <1>12 DEF o
<1>20. RestingOrders(Levels(side)') =
         (RestingOrders(Levels(side)) \ {maker}) \cup {p \in {after} : p.remaining > 0}
  BY <1>17, <1>18 DEF old
<1> DEFINE q == Least(taker.remaining, maker.remaining)
<1>21. q = quantity
  BY DEF quantity
<1>22. /\ maker \in RestingOrders(Levels(side))
       /\ \A p \in RestingOrders(Levels(side)) \ {maker} :
            \/ BetterFirst(side, maker.price, p.price)
            \/ p.price = maker.price /\ maker.id < p.id
  BY <1>12 DEF old
<1> HIDE DEF q
<1>23. taker' = [taker EXCEPT !.remaining = @ - q,
                              !.affected = @ \cup {maker.user},
                              !.reports = Append(@, MakerReport(maker, q))]
  BY <1>1, <1>21
<1>24. after.remaining = maker.remaining - q
  BY <1>15, <1>21
<1> USE DEF q
<1>25. Filled(side, maker, after)
  BY <1>1, <1>15, <1>18, <1>19, <1>20, <1>22, <1>23, <1>24 DEF Filled
<1>26. Settled(maker, after)
  BY <1>1, <1>15 DEF Settled, o, quantity, makerPart
<1> QED
  BY <1>22, <1>25, <1>26

-----------------------------------------------------------------------------
(* The end of a match, and a cancellation *)

\* When the loop ends with something left, it has nothing to trade with.
LEMMA NothingCrosses ==
  ASSUME Inv, ~Idle, ~CanFill, taker.remaining > 0,
         NEW side \in Sides, side = Opposite(taker.order.side)
  PROVE  \A o \in RestingOrders(Levels(side)) : ~Crosses(taker.order, o.price)
<1> DEFINE old == Levels(side)
<1>1. old \in LevelsOf(Prices, Older(Horizon)) /\ LevelsWellFormed(side, old) /\ Prices \in SUBSET Int
  BY SideGood, InputAssumption
<1>2. taker.order \in OrderInput /\ taker.order.side \in Sides /\ taker.order.type \in {"LIMIT", "MARKET"}
      /\ (taker.order.type = "LIMIT" => taker.order.price \in Int)
  BY <1>1, TakerGood, OrderInputType
<1>3. old = <<>> \/ ~Crosses(taker.order, Head(old).price)
  BY DEF CanFill
<1> HIDE DEF old
<1>4. \A o \in RestingOrders(old) : o.price \in Int
  <2>1. \A o \in RestingOrders(old) : o.price \in Prices
    BY <1>1, RestingApart
  <2> QED
    BY <1>1, <2>1
<1>5. CASE old = <<>>
  <2>1. RestingOrders(old) = {}
    BY <1>5, EmptySeq DEF RestingOrders
  <2> QED
    BY <2>1 DEF old
<1>6. CASE old # <<>>
  <2> DEFINE first == old[1].orders[1]
  <2>1. /\ first \in RestingOrders(old) /\ first.price = old[1].price
        /\ \A o \in RestingOrders(old) \ {first} :
             BetterFirst(side, first.price, o.price) \/ o.price = first.price
    BY <1>1, <1>6, BestOrder
  <2>2. Head(old) = old[1]
    OBVIOUS
  <2>3. first.price \in Int
    BY <1>4, <2>1
  <2>4. ~Crosses(taker.order, first.price)
    BY <1>3, <1>6, <2>1, <2>2, Zenon
  <2> HIDE DEF first
  <2>5. ASSUME NEW o \in RestingOrders(old) PROVE ~Crosses(taker.order, o.price)
    <3>1. o.price \in Int
      BY <1>4
    <3>2. CASE o = first
      BY <2>4, <3>2, Zenon
    <3>3. CASE o # first
      BY <1>2, <2>1, <2>3, <2>4, <3>1, <3>3 DEF Crosses, BetterFirst, Opposite, Sides
    <3> QED
      BY <3>2, <3>3
  <2> QED
    BY <2>5 DEF old
<1> QED
  BY <1>5, <1>6

\* What EndMatch does to the taker and to its side.
LEMMA EndMatchEffect ==
  ASSUME Inv, EndMatch, NEW side \in Sides, side = taker.order.side
  PROVE  /\ taker' = NoTaker /\ UNCHANGED <<lastTradePrice, orderCount>>
         /\ \/ /\ taker.order.type = "LIMIT" /\ taker.remaining > 0
               /\ \E rest \in Older(orderCount + 1) :
                    /\ rest.id = taker.id /\ rest.user = taker.order.user /\ rest.side = side
                    /\ rest.price = taker.order.price /\ rest.remaining = taker.remaining
                    /\ rest.margin = MarginShare(taker.order, taker.remaining)
                    /\ RestingOrders(Levels(side)') = RestingOrders(Levels(side)) \cup {rest}
               /\ \A other \in Sides \ {side} : Levels(other)' = Levels(other)
            \/ /\ ~(taker.order.type = "LIMIT" /\ taker.remaining > 0)
               /\ UNCHANGED <<bids, asks>>
<1> DEFINE o       == taker.order
           share   == MarginShare(o, taker.remaining)
           rest    == [id |-> taker.id, user |-> o.user, side |-> o.side, price |-> o.price,
                       quantity |-> taker.remaining, remaining |-> taker.remaining,
                       leverage |-> o.leverage, margin |-> share]
           levels  == Levels(side)
           new     == InsertResting(levels, rest)
<1>1. ~Idle /\ taker' = NoTaker /\ UNCHANGED <<lastTradePrice, orderCount>>
  BY DEF EndMatch
<1>2. /\ taker.id = orderCount /\ orderCount \in Nat \ {0} /\ Horizon = orderCount
      /\ o \in OrderInput /\ taker.remaining \in Nat /\ taker.remaining <= o.quantity
  BY <1>1, TakerGood
<1>3. /\ o.user \in Users /\ o.side \in Sides /\ o.leverage \in Nat \ {0}
      /\ o.type \in {"LIMIT", "MARKET"} /\ (o.type = "LIMIT" => o.price \in Prices)
  BY <1>2, OrderInputType
<1>4. share \in Nat
  BY <1>2, MarginShareType
<1>5. CASE o.type = "LIMIT" /\ taker.remaining > 0 /\ SetLevels(side, new)
  <2>1. rest \in Older(orderCount + 1)
    BY <1>2, <1>3, <1>4, <1>5 DEF Older, RestingOrder
  <2>2. Older(Horizon) \subseteq Older(orderCount + 1)
    BY <1>2 DEF Older, RestingOrder
  <2>3. levels \in LevelsOf(Prices, Older(Horizon)) /\ LevelsWellFormed(side, levels)
    BY SideGood
  <2>4. /\ rest.id = taker.id /\ rest.user = o.user /\ rest.side = side
        /\ rest.price = o.price /\ rest.remaining = taker.remaining
        /\ rest.margin = MarginShare(o, taker.remaining)
    OBVIOUS
  <2> HIDE DEF levels, rest, share
  <2>5. levels \in LevelsOf(Prices, Older(orderCount + 1))
    BY <2>2, <2>3, LevelsOfMonotonic
  <2>6. Prices \in SUBSET Int /\ rest.price \in Prices /\ LevelsWellFormed(rest.side, levels)
    BY <1>3, <1>5, <2>3, <2>4, InputAssumption
  <2>7. RestingOrders(new) = RestingOrders(levels) \cup {rest}
    BY <2>1, <2>5, <2>6, InsertRestingOrders
  <2>8. Levels(side)' = new /\ \A other \in Sides \ {side} : Levels(other)' = Levels(other)
    <3> HIDE DEF new
    <3> QED BY <1>5 DEF Levels, SetLevels, Sides
  <2> HIDE DEF new
  <2>9. RestingOrders(Levels(side)') = RestingOrders(Levels(side)) \cup {rest}
    BY <2>7, <2>8 DEF levels
  <2> QED
    BY <1>1, <1>5, <2>1, <2>4, <2>8, <2>9
<1>6. CASE ~(o.type = "LIMIT" /\ taker.remaining > 0) /\ UNCHANGED <<bids, asks>>
  BY <1>1, <1>6
<1>7. \/ o.type = "LIMIT" /\ taker.remaining > 0 /\ SetLevels(side, new)
      \/ ~(o.type = "LIMIT" /\ taker.remaining > 0) /\ UNCHANGED <<bids, asks>>
  <2> DEFINE there == InsertResting(Levels(o.side), rest)
  <2>1. \/ o.type = "LIMIT" /\ taker.remaining > 0 /\ SetLevels(o.side, there)
        \/ o.type = "MARKET" /\ UNCHANGED <<bids, asks>>
        \/ taker.remaining = 0 /\ UNCHANGED <<bids, asks>>
    BY DEF EndMatch
  <2>2. there = new /\ o.side = side
    OBVIOUS
  <2> HIDE DEF there, new, rest
  <2>3. CASE o.type = "LIMIT" /\ taker.remaining > 0 /\ SetLevels(o.side, there)
    BY <2>2, <2>3
  <2>4. CASE o.type = "MARKET" /\ UNCHANGED <<bids, asks>>
    BY <2>4
  <2>5. CASE taker.remaining = 0 /\ UNCHANGED <<bids, asks>>
    BY <2>5
  <2> QED
    BY <2>1, <2>3, <2>4, <2>5
<1> QED
  BY <1>5, <1>6, <1>7

\* A cancelled order gives its collateral back to its user.
Refunded(user, o) ==
  o.user = user /\ accounts' = [accounts EXCEPT ![user].bal = Release(@, o.margin)]

\* A cancellation takes one order out of its side.
LEMMA CancelEffect ==
  ASSUME Inv, NEW user, NEW id, NEW side \in Sides, NEW price, CancelOrder(user, id, side, price)
  PROVE  /\ \E o \in RestingOrders(Levels(side)) :
              /\ RestingOrders(Levels(side)') = RestingOrders(Levels(side)) \ {o}
              /\ o.id = id /\ Refunded(user, o)
         /\ \A other \in Sides \ {side} : Levels(other)' = Levels(other)
         /\ Idle /\ UNCHANGED <<taker, lastTradePrice, orderCount>>
<1> DEFINE levels == Levels(side)
           new    == CancelResting(levels, price, id)
<1>1. PICK o \in Target(user, id, side, price) :
        /\ SetLevels(side, new)
        /\ accounts' = [accounts EXCEPT ![user].bal = Release(@, o.margin)]
  BY DEF CancelOrder
<1>2. levels \in LevelsOf(Prices, Older(Horizon)) /\ LevelsWellFormed(side, levels) /\ Prices \in SUBSET Int
  BY SideGood, InputAssumption
<1>3. o \in ToSet(OrdersAt(levels, price)) /\ o.id = id /\ o.user = user
  BY DEF Target
<1> HIDE DEF levels
<1> DEFINE at == LevelIndex(levels, price)
<1>4. at # 0 /\ OrdersAt(levels, price) = levels[at].orders
  BY <1>3 DEF OrdersAt, ToSet
<1>5. at \in 1..Len(levels) /\ levels[at].price = price
  BY <1>2, <1>4, LevelIndexResult, LenProperties DEF LevelsOf
<1> HIDE DEF at
<1>6. o \in RestingOrders(levels) /\ o.price = price
  BY <1>2, <1>3, <1>4, <1>5, RestingWhere, LevelOrders
<1>7. RestingOrders(CancelResting(levels, o.price, o.id)) = RestingOrders(levels) \ {o}
  BY <1>2, <1>6, CancelRestingOrders
<1>8. RestingOrders(new) = RestingOrders(levels) \ {o}
  BY <1>3, <1>6, <1>7
<1> HIDE DEF new
<1>9. Levels(side)' = new /\ \A other \in Sides \ {side} : Levels(other)' = Levels(other)
  BY <1>1 DEF Levels, SetLevels, Sides
<1>10. Idle /\ UNCHANGED <<taker, lastTradePrice, orderCount>>
  BY DEF CancelOrder
<1>11. RestingOrders(Levels(side)') = RestingOrders(Levels(side)) \ {o} /\ o \in RestingOrders(Levels(side))
  BY <1>6, <1>8, <1>9 DEF levels
<1>12. o.id = id /\ Refunded(user, o)
  BY <1>1, <1>3 DEF Refunded
<1> QED
  BY <1>9, <1>10, <1>11, <1>12

-----------------------------------------------------------------------------
(* The invariant of the match *)

LEMMA SidesOfBook ==
  /\ Sides = {"Bid", "Ask"}
  /\ Levels("Bid") = bids /\ Levels("Ask") = asks
  /\ Levels("Bid")' = bids' /\ Levels("Ask")' = asks'
BY DEF Sides, Levels

\* The sides of the taker and of its makers.
LEMMA TakerSides ==
  ASSUME Inv, ~Idle
  PROVE  /\ taker.order.side \in Sides /\ Opposite(taker.order.side) \in Sides
         /\ Opposite(taker.order.side) # taker.order.side
         /\ Sides = {taker.order.side, Opposite(taker.order.side)}
<1>1. taker.order.side \in Sides
  BY TakerGood, OrderInputType
<1> QED
  BY <1>1 DEF Opposite, Sides

\* A step that brings no new price to a side leaves the sides apart.
LEMMA SamePrices ==
  ASSUME SidesApart,
         \A side \in Sides : \A o \in RestingOrders(Levels(side)') :
           \E p \in RestingOrders(Levels(side)) : p.price = o.price
  PROVE  SidesApart'
<1>1. SUFFICES ASSUME NEW b \in RestingOrders(bids'), NEW a \in RestingOrders(asks')
               PROVE  b.price < a.price
  BY DEF SidesApart
<1>2. PICK b1 \in RestingOrders(bids) : b1.price = b.price
  BY SidesOfBook
<1>3. PICK a1 \in RestingOrders(asks) : a1.price = a.price
  BY SidesOfBook
<1>4. b1.price < a1.price
  BY <1>2, <1>3 DEF SidesApart
<1> QED
  BY <1>2, <1>3, <1>4

LEMMA FillMatchInv ==
  ASSUME MatchInv, Fill
  PROVE  MatchInv'
<1>1. Inv /\ IdsApart /\ SidesApart /\ MakersMetOnce /\ MakersGone /\ ~Idle
  BY DEF MatchInv, Fill
<1> DEFINE side == Opposite(taker.order.side)
<1>2. side \in Sides
  BY <1>1, TakerSides
<1>3. /\ taker \in TakerState /\ taker.remaining \in Nat /\ taker.reports \in Seq(Report)
      /\ taker.remaining > 0
  BY <1>1, TakerGood DEF TakerState, Fill, CanFill
<1>4. PICK sd \in Sides : sd = side
  BY <1>2
<1> DEFINE S == RestingOrders(Levels(sd))
           T == RestingOrders(Levels(sd)')
<1>m. PICK maker \in RestingOrders(Levels(sd)) : \E after : Filled(sd, maker, after)
  BY <1>1, <1>4, FillEffect
<1>5. PICK after : Filled(sd, maker, after)
  BY <1>m
<1> DEFINE quantity == Least(taker.remaining, maker.remaining)
           report   == MakerReport(maker, quantity)
<1>6. maker.remaining \in Nat \ {0}
  <2>1. /\ Levels(sd) \in LevelsOf(Prices, Older(Horizon)) /\ LevelsWellFormed(sd, Levels(sd))
        /\ Prices \in SUBSET Int
    BY <1>1, SideGood, InputAssumption
  <2>2. maker \in RestingOrders(Levels(sd))
    BY <1>4
  <2>3. maker \in Older(Horizon)
    BY <2>1, <2>2, RestingApart
  <2> QED
    BY <2>3 DEF Older, RestingOrder
<1>7. S = RestingOrders(Levels(sd)) /\ maker \in S
  BY <1>5
<1>8. /\ after.remaining = maker.remaining - quantity
      /\ after.id = maker.id /\ after.price = maker.price
      /\ T = (S \ {maker}) \cup {o \in {after} : o.remaining > 0}
      /\ \A other \in Sides \ {sd} : Levels(other)' = Levels(other)
      /\ taker' = [taker EXCEPT !.remaining = @ - quantity,
                                !.affected = @ \cup {maker.user},
                                !.reports = Append(@, report)]
  BY <1>5 DEF Filled
<1>9. \A o, p \in S : o.id = p.id => o = p
  BY <1>1, <1>7 DEF IdsApart
<1>10. /\ taker'.remaining = taker.remaining - quantity /\ taker'.order = taker.order
       /\ taker'.reports = Append(taker.reports, report) /\ report.order = maker.id
  BY <1>3, <1>8 DEF TakerState, MakerReport
<1>11. \A i \in DOMAIN taker.reports : \A o \in S : taker.reports[i].order # o.id
  BY <1>1, <1>3, <1>4 DEF MakersGone
<1> HIDE DEF S, T, report, side
<1>12. /\ DOMAIN taker.reports = 1..Len(taker.reports) /\ Len(taker.reports) \in Nat
       /\ DOMAIN taker'.reports = 1..(Len(taker.reports) + 1)
       /\ \A i \in DOMAIN taker.reports : taker'.reports[i] = taker.reports[i]
       /\ taker'.reports[Len(taker.reports) + 1] = report
  <2> DEFINE reports == taker.reports
  <2>1. reports \in Seq(Report) /\ taker'.reports = Append(reports, report)
    BY <1>3, <1>10
  <2> HIDE DEF reports
  <2>2. reports \in Seq(Report \cup {report}) /\ report \in Report \cup {report}
    BY <2>1, SeqOfElements, ElementOfSeq
  <2>3. /\ Len(reports) \in Nat /\ DOMAIN reports = 1..Len(reports)
        /\ DOMAIN Append(reports, report) = 1..(Len(reports) + 1)
        /\ \A i \in 1..Len(reports) : Append(reports, report)[i] = reports[i]
        /\ Append(reports, report)[Len(reports) + 1] = report
    BY <2>2, AppendProperties, LenProperties
  <2> QED
    BY <2>1, <2>3 DEF reports
<1>13. Inv'
  BY <1>1, FillInv
<1>14. IdsApart'
  <2>1. SUFFICES ASSUME NEW s \in Sides, NEW o \in RestingOrders(Levels(s)'),
                        NEW p \in RestingOrders(Levels(s)'), o.id = p.id
                 PROVE  o = p
    BY DEF IdsApart
  <2>2. CASE s = sd
    <3>1. o \in T /\ p \in T
      BY <2>1, <2>2 DEF T
    <3>2. CASE o = after /\ p = after
      BY <3>2
    <3>3. CASE o = after /\ p # after
      <4>1. p \in S /\ p # maker /\ p.id = maker.id
        BY <1>8, <2>1, <3>1, <3>3
      <4> QED
        BY <1>7, <1>9, <1>8, <4>1
    <3>4. CASE o # after /\ p = after
      <4>1. o \in S /\ o # maker /\ o.id = maker.id
        BY <1>8, <2>1, <3>1, <3>4
      <4> QED
        BY <1>7, <1>9, <1>8, <4>1
    <3>5. CASE o # after /\ p # after
      <4>1. o \in S /\ p \in S
        BY <1>8, <3>1, <3>5
      <4> QED
        BY <1>9, <2>1, <4>1
    <3> QED
      BY <3>2, <3>3, <3>4, <3>5
  <2>3. CASE s # sd
    <3>1. Levels(s)' = Levels(s)
      BY <1>8, <2>3
    <3> QED
      BY <1>1, <2>1, <3>1 DEF IdsApart
  <2> QED
    BY <2>2, <2>3
<1>15. SidesApart'
  <2>1. ASSUME NEW s \in Sides, NEW o \in RestingOrders(Levels(s)')
        PROVE  \E p \in RestingOrders(Levels(s)) : p.price = o.price
    <3>1. CASE s = sd
      <4>1. o \in T
        BY <2>1, <3>1 DEF T
      <4>2. CASE o = after
        BY <1>7, <1>8, <3>1, <4>2
      <4>3. CASE o # after
        BY <1>7, <1>8, <3>1, <4>1, <4>3
      <4> QED
        BY <4>2, <4>3
    <3>2. CASE s # sd
      <4>1. Levels(s)' = Levels(s)
        BY <1>8, <3>2
      <4> QED
        BY <2>1, <4>1
    <3> QED
      BY <3>1, <3>2
  <2> QED
    BY <1>1, <2>1, SamePrices
<1>16. MakersMetOnce'
  <2>1. SUFFICES ASSUME NEW i \in DOMAIN taker'.reports, NEW j \in DOMAIN taker'.reports, i # j
                 PROVE  taker'.reports[i].order # taker'.reports[j].order
    BY DEF MakersMetOnce
  <2>2. \A k \in DOMAIN taker.reports : taker.reports[k].order # maker.id
    BY <1>7, <1>11
  <2>3. CASE i \in DOMAIN taker.reports /\ j \in DOMAIN taker.reports
    BY <1>1, <1>12, <2>1, <2>3 DEF MakersMetOnce
  <2>4. CASE i \in DOMAIN taker.reports /\ j = Len(taker.reports) + 1
    BY <1>10, <1>12, <2>2, <2>4
  <2>5. CASE i = Len(taker.reports) + 1 /\ j \in DOMAIN taker.reports
    BY <1>10, <1>12, <2>2, <2>5
  <2> QED
    BY <1>12, <2>1, <2>3, <2>4, <2>5
<1>17. MakersGone'
  <2>1. SUFFICES ASSUME taker'.remaining > 0
                 PROVE  \A i \in DOMAIN taker'.reports :
                          \A o \in T : taker'.reports[i].order # o.id
    <3>1. Opposite(taker'.order.side) = sd
      BY <1>4, <1>10 DEF side
    <3>2. RestingOrders(Levels(Opposite(taker.order.side)))' = T
      BY <1>4, <1>10, <3>1 DEF T, Levels, Opposite, Sides
    <3> QED
      BY <3>2 DEF MakersGone
  <2>2. after.remaining = 0
    BY <1>3, <1>6, <1>10, <1>8, <2>1 DEF Least
  <2>3. T \subseteq S \ {maker}
    BY <1>8, <2>2
  <2>4. ASSUME NEW i \in DOMAIN taker'.reports, NEW o \in T
        PROVE  taker'.reports[i].order # o.id
    <3>1. o \in S /\ o # maker
      BY <2>3
    <3>2. CASE i \in DOMAIN taker.reports
      BY <1>11, <1>12, <3>1, <3>2
    <3>3. CASE i = Len(taker.reports) + 1
      BY <1>7, <1>9, <1>8, <1>10, <1>12, <3>1, <3>3
    <3> QED
      BY <1>12, <3>2, <3>3
  <2> QED
    BY <2>4
<1> QED
  BY <1>13, <1>14, <1>15, <1>16, <1>17 DEF MatchInv

LEMMA EndMatchMatchInv ==
  ASSUME MatchInv, EndMatch
  PROVE  MatchInv'
<1>1. Inv /\ IdsApart /\ SidesApart /\ ~Idle /\ ~CanFill
  BY DEF MatchInv, EndMatch
<1>2. PICK sd \in Sides : sd = taker.order.side
  BY <1>1, TakerSides
<1>3. PICK opp \in Sides : opp = Opposite(taker.order.side) /\ opp # sd /\ Sides = {sd, opp}
  BY <1>1, <1>2, TakerSides
<1>4. Inv'
  BY <1>1, EndMatchInv
<1>5. taker' = NoTaker
  BY DEF EndMatch
<1>6. MakersMetOnce' /\ MakersGone'
  BY <1>5 DEF MakersMetOnce, MakersGone, Idle
<1>7. CASE UNCHANGED <<bids, asks>>
  <2>1. \A s \in Sides : Levels(s)' = Levels(s)
    BY <1>7 DEF Levels
  <2>2. IdsApart'
    BY <1>1, <2>1 DEF IdsApart
  <2>3. SidesApart'
    BY <1>1, <1>7 DEF SidesApart
  <2> QED
    BY <1>4, <1>6, <2>2, <2>3 DEF MatchInv
<1>8. CASE /\ taker.order.type = "LIMIT" /\ taker.remaining > 0
           /\ \E rest \in Older(orderCount + 1) :
                /\ rest.id = taker.id /\ rest.user = taker.order.user /\ rest.side = sd
                /\ rest.price = taker.order.price /\ rest.remaining = taker.remaining
                /\ RestingOrders(Levels(sd)') = RestingOrders(Levels(sd)) \cup {rest}
           /\ \A other \in Sides \ {sd} : Levels(other)' = Levels(other)
  <2>1. PICK rest \in Older(orderCount + 1) :
          /\ rest.id = taker.id /\ rest.price = taker.order.price
          /\ RestingOrders(Levels(sd)') = RestingOrders(Levels(sd)) \cup {rest}
    BY <1>8
  <2>2. Levels(opp)' = Levels(opp)
    BY <1>3, <1>8
  <2> DEFINE S == RestingOrders(Levels(sd))
             T == RestingOrders(Levels(sd)')
  <2>3. \A o \in S : o.id < rest.id
    <3>1. rest.id = Horizon
      BY <1>1, <2>1, TakerGood
    <3>2. /\ Levels(sd) \in LevelsOf(Prices, Older(Horizon)) /\ LevelsWellFormed(sd, Levels(sd))
          /\ Prices \in SUBSET Int
      BY <1>1, SideGood, InputAssumption
    <3>3. \A o \in S : o \in Older(Horizon)
      BY <3>2, RestingApart
    <3> QED
      BY <3>1, <3>3 DEF Older
  <2>4. \A o \in S : o.id # rest.id
    <3>1. \A o \in S : o.id \in Int
      <4>1. /\ Levels(sd) \in LevelsOf(Prices, Older(Horizon)) /\ LevelsWellFormed(sd, Levels(sd))
            /\ Prices \in SUBSET Int
        BY <1>1, SideGood, InputAssumption
      <4>2. \A o \in S : o \in Older(Horizon)
        BY <4>1, RestingApart
      <4> QED
        BY <4>2 DEF Older, RestingOrder
    <3> QED
      BY <2>3, <3>1
  <2>5. IdsApart'
    <3>1. SUFFICES ASSUME NEW s \in Sides, NEW o \in RestingOrders(Levels(s)'),
                          NEW p \in RestingOrders(Levels(s)'), o.id = p.id
                   PROVE  o = p
      BY DEF IdsApart
    <3>2. CASE s = sd
      <4>1. o \in S \cup {rest} /\ p \in S \cup {rest}
        BY <2>1, <3>1, <3>2
      <4>2. \A o1, p1 \in S : o1.id = p1.id => o1 = p1
        BY <1>1 DEF IdsApart
      <4> QED
        BY <2>4, <3>1, <4>1, <4>2
    <3>3. CASE s = opp
      BY <1>1, <2>2, <3>1, <3>3 DEF IdsApart
    <3> QED
      BY <1>3, <3>2, <3>3
  <2>6. \A o \in RestingOrders(Levels(opp)) : ~Crosses(taker.order, o.price)
    BY <1>1, <1>3, <1>8, NothingCrosses
  <2>7. \A s \in Sides : \A o \in RestingOrders(Levels(s)) : o.price \in Int
    <3>1. SUFFICES ASSUME NEW s \in Sides PROVE \A o \in RestingOrders(Levels(s)) : o.price \in Int
      OBVIOUS
    <3>2. /\ Levels(s) \in LevelsOf(Prices, Older(Horizon)) /\ LevelsWellFormed(s, Levels(s))
          /\ Prices \in SUBSET Int
      BY <1>1, SideGood, InputAssumption
    <3>3. \A o \in RestingOrders(Levels(s)) : o.price \in Prices
      BY <3>2, RestingApart
    <3> QED
      BY <3>2, <3>3
  <2>8. rest.price \in Int /\ taker.order.price = rest.price
    <3>1. rest.price \in Prices
      <4>1. rest \in RestingOrder
        BY DEF Older
      <4> QED
        BY <4>1 DEF RestingOrder
    <3>2. rest.price \in Int
      <4>1. Prices \subseteq Int
        BY InputAssumption
      <4> QED
        BY <3>1, <4>1
    <3>3. taker.order.price = rest.price
      BY <2>1
    <3> QED
      BY <3>2, <3>3
  <2>9. SidesApart'
    <3>1. SUFFICES ASSUME NEW b \in RestingOrders(bids'), NEW a \in RestingOrders(asks')
                   PROVE  b.price < a.price
      BY DEF SidesApart
    <3>2. CASE sd = "Bid"
      <4>1. opp = "Ask" /\ asks' = asks /\ b \in RestingOrders(bids) \cup {rest}
        BY <1>3, <2>1, <2>2, <3>2, SidesOfBook
      <4>2. CASE b = rest
        <5>1. a \in RestingOrders(Levels(opp)) /\ a.price \in Int
          BY <1>3, <2>7, <4>1, SidesOfBook
        <5>2. ~Crosses(taker.order, a.price)
          BY <2>6, <5>1
        <5>3. taker.order.side = "Bid"
          BY <1>2, <3>2
        <5> QED
          BY <1>8, <2>8, <4>2, <5>1, <5>2, <5>3 DEF Crosses
      <4>3. CASE b # rest
        BY <1>1, <4>1, <4>3 DEF SidesApart
      <4> QED
        BY <4>2, <4>3
    <3>3. CASE sd = "Ask"
      <4>1. opp = "Bid" /\ bids' = bids /\ a \in RestingOrders(asks) \cup {rest}
        BY <1>3, <2>1, <2>2, <3>3, SidesOfBook
      <4>2. CASE a = rest
        <5>1. b \in RestingOrders(Levels(opp)) /\ b.price \in Int
          BY <1>3, <2>7, <4>1, SidesOfBook
        <5>2. ~Crosses(taker.order, b.price)
          BY <2>6, <5>1
        <5>3. taker.order.side = "Ask"
          BY <1>2, <3>3
        <5> QED
          BY <1>8, <2>8, <4>2, <5>1, <5>2, <5>3 DEF Crosses
      <4>3. CASE a # rest
        BY <1>1, <4>1, <4>3 DEF SidesApart
      <4> QED
        BY <4>2, <4>3
    <3> QED
      BY <3>2, <3>3, SidesOfBook
  <2> QED
    BY <1>4, <1>6, <2>5, <2>9 DEF MatchInv
<1> QED
  BY <1>1, <1>2, <1>7, <1>8, EndMatchEffect

LEMMA CancelMatchInv ==
  ASSUME MatchInv, NEW user \in Users, NEW id, NEW side \in Sides, NEW price \in Prices,
         CancelOrder(user, id, side, price)
  PROVE  MatchInv'
<1>1. Inv /\ IdsApart /\ SidesApart
  BY DEF MatchInv
<1>2. /\ \E o \in RestingOrders(Levels(side)) :
           RestingOrders(Levels(side)') = RestingOrders(Levels(side)) \ {o}
      /\ \A other \in Sides \ {side} : Levels(other)' = Levels(other)
      /\ Idle /\ taker' = taker
  BY <1>1, CancelEffect
<1>3. Inv'
  BY <1>1, CancelOrderInv
<1>4. MakersMetOnce' /\ MakersGone'
  BY <1>2 DEF MakersMetOnce, MakersGone, Idle
<1>5. \A s \in Sides : RestingOrders(Levels(s)') \subseteq RestingOrders(Levels(s))
  <2>1. SUFFICES ASSUME NEW s \in Sides PROVE RestingOrders(Levels(s)') \subseteq RestingOrders(Levels(s))
    OBVIOUS
  <2>2. CASE s = side
    BY <1>2, <2>2
  <2>3. CASE s # side
    <3>1. Levels(s)' = Levels(s)
      BY <1>2, <2>3
    <3> QED
      BY <3>1
  <2> QED
    BY <2>2, <2>3
<1>6. IdsApart'
  <2>1. SUFFICES ASSUME NEW s \in Sides, NEW o \in RestingOrders(Levels(s)'),
                        NEW p \in RestingOrders(Levels(s)'), o.id = p.id
                 PROVE  o = p
    BY DEF IdsApart
  <2>2. o \in RestingOrders(Levels(s)) /\ p \in RestingOrders(Levels(s))
    BY <1>5
  <2> QED
    BY <1>1, <2>1, <2>2 DEF IdsApart
<1>7. SidesApart'
  BY <1>1, <1>5, SamePrices
<1> QED
  BY <1>3, <1>4, <1>6, <1>7 DEF MatchInv

\* An action that leaves the book alone, and starts a match or does nothing
\* to the taker.
LEMMA SameBookMatchInv ==
  ASSUME MatchInv, Inv', UNCHANGED <<bids, asks>>,
         taker' = taker \/ taker'.reports = <<>>
  PROVE  MatchInv'
<1>1. IdsApart /\ SidesApart /\ MakersMetOnce /\ MakersGone
  BY DEF MatchInv
<1>2. \A s \in Sides : Levels(s)' = Levels(s)
  BY DEF Levels
<1>3. IdsApart'
  BY <1>1, <1>2 DEF IdsApart
<1>4. SidesApart'
  BY <1>1 DEF SidesApart
<1>5. CASE taker' = taker
  <2>1. MakersMetOnce'
    BY <1>1, <1>5 DEF MakersMetOnce, Idle
  <2>2. MakersGone'
    BY <1>1, <1>5 DEF MakersGone, Idle, Levels
  <2> QED
    BY <1>3, <1>4, <2>1, <2>2 DEF MatchInv
<1>6. CASE taker'.reports = <<>>
  <2>1. DOMAIN taker'.reports = {}
    BY <1>6, EmptySeq
  <2>2. MakersMetOnce' /\ MakersGone'
    BY <2>1 DEF MakersMetOnce, MakersGone
  <2> QED
    BY <1>3, <1>4, <2>2 DEF MatchInv
<1> QED
  BY <1>5, <1>6

LEMMA InitMatchInv == Init => MatchInv
<1> SUFFICES ASSUME Init PROVE MatchInv
  OBVIOUS
<1>1. \A s \in Sides : RestingOrders(Levels(s)) = {}
  BY EmptySeq DEF Init, Levels, RestingOrders
<1>2. IdsApart
  BY <1>1 DEF IdsApart
<1>3. SidesApart
  BY <1>1, SidesOfBook DEF SidesApart
<1>4. MakersMetOnce /\ MakersGone
  BY DEF Init, MakersMetOnce, MakersGone, Idle
<1> QED
  BY <1>2, <1>3, <1>4, InitInv DEF MatchInv

LEMMA NextMatchInv == MatchInv /\ [Next]_vars => MatchInv'
<1> SUFFICES ASSUME MatchInv, [Next]_vars PROVE MatchInv'
  OBVIOUS
<1>1. Inv /\ Inv'
  BY NextInv DEF MatchInv
<1>2. ASSUME NEW user \in Users, NEW amount \in Amounts, CreditUser(user, amount) PROVE MatchInv'
  BY <1>1, <1>2, SameBookMatchInv DEF CreditUser
<1>3. ASSUME NEW o \in OrderInput, RejectOrder(o) PROVE MatchInv'
  BY <1>1, <1>3, SameBookMatchInv DEF RejectOrder
<1>4. ASSUME NEW o \in OrderInput, BeginMatch(o) PROVE MatchInv'
  <2>1. taker'.reports = <<>> /\ UNCHANGED <<bids, asks>>
    BY <1>4 DEF BeginMatch
  <2> QED
    BY <1>1, <2>1, SameBookMatchInv
<1>5. CASE Fill
  BY <1>5, FillMatchInv
<1>6. CASE EndMatch
  BY <1>6, EndMatchMatchInv
<1>7. ASSUME NEW user \in Users, NEW id, NEW side \in Sides, NEW price \in Prices,
             CancelOrder(user, id, side, price)
      PROVE  MatchInv'
  BY <1>7, CancelMatchInv
<1>8. ASSUME NEW user, NEW id, NEW side, NEW price, RejectCancel(user, id, side, price)
      PROVE  MatchInv'
  BY <1>1, <1>8, SameBookMatchInv DEF RejectCancel
<1>9. ASSUME NEW seq, DropIndexPrice(seq) PROVE MatchInv'
  BY <1>1, <1>9, SameBookMatchInv DEF DropIndexPrice
<1>10. ASSUME NEW seq \in 0..MaxObserverSeq, NEW price \in MarkPrices, IndexPrice(seq, price)
      PROVE  MatchInv'
  BY <1>1, <1>10, SameBookMatchInv DEF IndexPrice
<1>11. CASE UNCHANGED vars
  BY <1>1, <1>11, SameBookMatchInv DEF vars
<1> QED
  BY <1>2, <1>3, <1>4, <1>5, <1>6, <1>7, <1>8, <1>9, <1>10, <1>11 DEF Next, Match

LEMMA MatchInvHolds == Spec => []MatchInv
<1> QED
  BY InitMatchInv, NextMatchInv, PTL DEF Spec

\* Between commands the best bid is below the best ask: onPlaceOrder never
\* lets an order rest that crosses the other side.
THEOREM BookNeverCrossed == Spec => []Uncrossed
<1>1. MatchInv => Uncrossed
  <2>1. SUFFICES ASSUME MatchInv, bids # <<>>, asks # <<>>
                 PROVE  Head(bids).price < Head(asks).price
    BY DEF Uncrossed
  <2>2. ASSUME NEW side \in Sides, Levels(side) # <<>>
        PROVE  \E o \in RestingOrders(Levels(side)) : o.price = Head(Levels(side)).price
    <3> DEFINE levels == Levels(side)
    <3>1. levels \in LevelsOf(Prices, Older(Horizon)) /\ LevelsWellFormed(side, levels)
      BY <2>1, SideGood DEF MatchInv
    <3>2. Prices \in SUBSET Int /\ levels # <<>>
      BY <2>2, InputAssumption
    <3> HIDE DEF levels
    <3> DEFINE first == levels[1].orders[1]
    <3>3. first \in RestingOrders(levels) /\ first.price = levels[1].price
      BY <3>1, <3>2, BestOrder
    <3>4. Head(levels) = levels[1]
      OBVIOUS
    <3> HIDE DEF first
    <3> QED
      BY <3>3, <3>4 DEF levels
  <2>3. PICK b \in RestingOrders(bids) : b.price = Head(bids).price
    BY <2>1, <2>2, SidesOfBook
  <2>4. PICK a \in RestingOrders(asks) : a.price = Head(asks).price
    BY <2>1, <2>2, SidesOfBook
  <2>5. b.price < a.price
    BY <2>1 DEF MatchInv, SidesApart
  <2> QED
    BY <2>3, <2>4, <2>5
<1> QED
  BY <1>1, MatchInvHolds, PTL

\* In one pass of the loop a taker meets each maker at most once.
THEOREM MakersAlwaysMetOnce == Spec => []MakersMetOnce
<1>1. MatchInv => MakersMetOnce
  BY DEF MatchInv
<1> QED
  BY <1>1, MatchInvHolds, PTL

-----------------------------------------------------------------------------
(* The refinement: the engine does what Exchange does *)

LEMMA OrderLeftFields ==
  ASSUME NEW o
  PROVE  /\ OrderLeft(o).id = o.id /\ OrderLeft(o).user = o.user /\ OrderLeft(o).side = o.side
         /\ OrderLeft(o).type = "LIMIT" /\ OrderLeft(o).price = o.price
         /\ OrderLeft(o).remaining = o.remaining
BY DEF OrderLeft

\* The mapped orders are the orders of the two sides.
LEMMA OrdersLeftOfSides ==
  /\ \A x : x \in OrdersLeft <=>
       \E s \in Sides : \E o \in RestingOrders(Levels(s)) : x = OrderLeft(o)
  /\ \A x : x \in OrdersLeft' <=>
       \E s \in Sides : \E o \in RestingOrders(Levels(s)') : x = OrderLeft(o)
<1>1. \A x : x \in OrdersLeft <=> \E o \in RestingOrders(bids) \cup RestingOrders(asks) : x = OrderLeft(o)
  BY DEF OrdersLeft
<1>2. \A x : x \in OrdersLeft' <=> \E o \in RestingOrders(bids') \cup RestingOrders(asks') : x = OrderLeft(o)
  BY DEF OrdersLeft
<1> QED
  BY <1>1, <1>2, SidesOfBook

\* The mapping keeps orders apart: it keeps their side, price and id.
LEMMA OrdersLeftApart ==
  ASSUME Inv, NEW s \in Sides, NEW o \in RestingOrders(Levels(s)),
         NEW t \in Sides, NEW p \in RestingOrders(Levels(t)), OrderLeft(o) = OrderLeft(p)
  PROVE  s = t /\ o = p
<1>1. o.id = p.id /\ o.side = p.side /\ o.price = p.price
  BY OrderLeftFields
<1>2. /\ Levels(s) \in LevelsOf(Prices, Older(Horizon)) /\ LevelsWellFormed(s, Levels(s))
      /\ Levels(t) \in LevelsOf(Prices, Older(Horizon)) /\ LevelsWellFormed(t, Levels(t))
  BY SideGood
<1>3. Prices \in SUBSET Int
  BY InputAssumption
<1>4. o.side = s /\ p.side = t
  BY <1>2, <1>3, RestingApart
<1>5. s = t
  BY <1>1, <1>4
<1>6. o \in RestingOrders(Levels(t))
  BY <1>5
<1>7. o = p
  BY <1>1, <1>2, <1>3, <1>6, RestingApart
<1> QED
  BY <1>5, <1>7

LEMMA TakerLeftOf ==
  ASSUME Inv
  PROVE  /\ Idle => TakerLeft = X!None
         /\ ~Idle =>
              /\ TakerLeft = [id |-> taker.id, user |-> taker.order.user, side |-> taker.order.side,
                              type |-> taker.order.type, price |-> taker.order.price,
                              remaining |-> taker.remaining]
              /\ TakerLeft # X!None
<1>1. CASE Idle
  BY <1>1 DEF TakerLeft, NoTaker, X!None
<1>2. CASE ~Idle
  <2>1. TakerLeft = [id |-> taker.id, user |-> taker.order.user, side |-> taker.order.side,
                     type |-> taker.order.type, price |-> taker.order.price,
                     remaining |-> taker.remaining]
    BY <1>2 DEF TakerLeft
  <2>2. taker.id # 0
    BY <1>2, TakerGood
  <2>3. TakerLeft.id # 0
    BY <2>1, <2>2
  <2> QED
    BY <1>2, <2>1, <2>3 DEF X!None
<1> QED
  BY <1>1, <1>2

LEMMA SameLeft ==
  ASSUME UNCHANGED <<bids, asks, taker>>
  PROVE  OrdersLeft' = OrdersLeft /\ TakerLeft' = TakerLeft
BY DEF OrdersLeft, TakerLeft, Idle

\* The actions that change neither the book nor the taker are not seen.
LEMMA StutterMaps ==
  ASSUME UNCHANGED <<bids, asks, taker, lastTradePrice, orderCount>>
  PROVE  [X!Next]_X!vars
BY SameLeft DEF X!vars

LEMMA InitMaps == Init => X!Init
<1> SUFFICES ASSUME Init PROVE X!Init
  OBVIOUS
<1>1. RestingOrders(bids) = {} /\ RestingOrders(asks) = {}
  BY EmptySeq DEF Init, RestingOrders
<1>2. OrdersLeft = {}
  BY <1>1 DEF OrdersLeft
<1>3. TakerLeft = X!None
  BY DEF Init, TakerLeft, Idle, NoTaker, X!None
<1> QED
  BY <1>2, <1>3 DEF Init, X!Init

LEMMA RejectMaps ==
  ASSUME Inv, NEW o \in OrderInput, RejectOrder(o)
  PROVE  X!Next
<1>1. /\ Idle /\ orderCount < MaxOrders /\ orderCount' = orderCount + 1
      /\ UNCHANGED <<bids, asks, taker, lastTradePrice>>
  BY DEF RejectOrder
<1>2. TakerLeft = X!None /\ TakerLeft' = TakerLeft /\ OrdersLeft' = OrdersLeft
  BY <1>1, TakerLeftOf, SameLeft
<1>3. o.user \in Users /\ o.side \in X!Sides /\ o.quantity \in Quantities
      /\ (\/ o.type = "LIMIT" /\ o.price \in Prices
          \/ o.type = "MARKET" /\ o.price = 0)
  BY DEF OrderInput, LimitOrder, MarketOrder, Sides, X!Sides
<1>4. X!Arrive(o.user, o.side, o.type, o.price, o.quantity)
  BY <1>1, <1>2 DEF X!Arrive
<1>5. CASE o.type = "LIMIT" /\ o.price \in Prices
  <2>1. X!Arrive(o.user, o.side, "LIMIT", o.price, o.quantity)
    BY <1>4, <1>5
  <2> QED
    BY <1>3, <1>5, <2>1 DEF X!Next
<1>6. CASE o.type = "MARKET" /\ o.price = 0
  <2>1. X!Arrive(o.user, o.side, "MARKET", 0, o.quantity)
    BY <1>4, <1>6
  <2> QED
    BY <1>3, <2>1 DEF X!Next
<1> QED
  BY <1>3, <1>5, <1>6

LEMMA BeginMaps ==
  ASSUME Inv, NEW o \in OrderInput, BeginMatch(o)
  PROVE  X!Next
<1>1. /\ Idle /\ orderCount < MaxOrders /\ orderCount' = orderCount + 1
      /\ UNCHANGED <<bids, asks, lastTradePrice>>
      /\ taker' = [id |-> orderCount + 1, order |-> o, remaining |-> o.quantity,
                   affected |-> {o.user}, reports |-> <<>>]
  BY DEF BeginMatch
<1>2. TakerLeft = X!None
  BY <1>1, TakerLeftOf
<1>3. OrdersLeft' = OrdersLeft
  BY <1>1 DEF OrdersLeft
<1>4. Inv' /\ orderCount \in Nat
  BY BeginMatchInv, HorizonType
<1>5. TakerLeft' = [id |-> orderCount + 1, user |-> o.user, side |-> o.side, type |-> o.type,
                    price |-> o.price, remaining |-> o.quantity]
  <2>1. taker' # NoTaker
    <3>1. taker'.id # 0
      BY <1>1, <1>4
    <3> QED
      BY <3>1 DEF NoTaker
  <2>2. ~Idle'
    BY <2>1 DEF Idle
  <2>3. /\ taker'.id = orderCount + 1 /\ taker'.order = o /\ taker'.remaining = o.quantity
    BY <1>1
  <2> QED
    BY <2>2, <2>3 DEF TakerLeft
<1>6. o.user \in Users /\ o.side \in X!Sides /\ o.quantity \in Quantities
      /\ (\/ o.type = "LIMIT" /\ o.price \in Prices
          \/ o.type = "MARKET" /\ o.price = 0)
  BY DEF OrderInput, LimitOrder, MarketOrder, Sides, X!Sides
<1>7. X!Arrive(o.user, o.side, o.type, o.price, o.quantity)
  BY <1>1, <1>2, <1>3, <1>5 DEF X!Arrive
<1>8. CASE o.type = "LIMIT" /\ o.price \in Prices
  <2>1. X!Arrive(o.user, o.side, "LIMIT", o.price, o.quantity)
    BY <1>7, <1>8
  <2> QED
    BY <1>6, <1>8, <2>1 DEF X!Next
<1>9. CASE o.type = "MARKET" /\ o.price = 0
  <2>1. X!Arrive(o.user, o.side, "MARKET", 0, o.quantity)
    BY <1>7, <1>9
  <2> QED
    BY <1>6, <2>1 DEF X!Next
<1> QED
  BY <1>6, <1>8, <1>9

\* Taking orders out of one side, or putting one in.
LEMMA OneSideLeft ==
  ASSUME Inv, NEW side \in Sides, NEW old \in SUBSET RestingOrders(Levels(side)), NEW new,
         RestingOrders(Levels(side)') = (RestingOrders(Levels(side)) \ old) \cup new,
         \A other \in Sides \ {side} : Levels(other)' = Levels(other)
  PROVE  OrdersLeft' = (OrdersLeft \ {OrderLeft(o) : o \in old}) \cup {OrderLeft(o) : o \in new}
<1> DEFINE gone == {OrderLeft(o) : o \in old}
           come == {OrderLeft(o) : o \in new}
<1>1. ASSUME NEW x \in OrdersLeft'
      PROVE  x \in (OrdersLeft \ gone) \cup come
  <2>1. PICK s \in Sides : \E o \in RestingOrders(Levels(s)') : x = OrderLeft(o)
    BY <1>1, OrdersLeftOfSides
  <2>2. PICK o \in RestingOrders(Levels(s)') : x = OrderLeft(o)
    BY <2>1
  <2>3. CASE s = side /\ o \in new
    BY <2>2, <2>3
  <2>4. CASE ~(s = side /\ o \in new)
    <3>1. o \in RestingOrders(Levels(s)) /\ (s = side => o \notin old)
      <4>1. CASE s = side
        BY <2>2, <2>4, <4>1
      <4>2. CASE s # side
        <5>1. Levels(s)' = Levels(s)
          BY <4>2
        <5> QED
          BY <2>2, <4>2, <5>1
      <4> QED
        BY <4>1, <4>2
    <3>2. x \in OrdersLeft
      BY <2>2, <3>1, OrdersLeftOfSides
    <3>3. ASSUME NEW p \in old, x = OrderLeft(p) PROVE FALSE
      <4>1. p \in RestingOrders(Levels(side))
        OBVIOUS
      <4>2. s = side /\ o = p
        BY <2>2, <3>1, <3>3, <4>1, OrdersLeftApart
      <4> QED
        BY <3>1, <4>2
    <3> QED
      BY <3>2, <3>3
  <2> QED
    BY <2>3, <2>4
<1>2. ASSUME NEW x \in OrdersLeft, x \notin gone
      PROVE  x \in OrdersLeft'
  <2>1. PICK s \in Sides : \E o \in RestingOrders(Levels(s)) : x = OrderLeft(o)
    BY <1>2, OrdersLeftOfSides
  <2>2. PICK o \in RestingOrders(Levels(s)) : x = OrderLeft(o)
    BY <2>1
  <2>3. o \in RestingOrders(Levels(s)')
    <3>1. CASE s = side
      <4>1. o \notin old
        BY <1>2, <2>2
      <4> QED
        BY <2>2, <3>1, <4>1
    <3>2. CASE s # side
      <4>1. Levels(s)' = Levels(s)
        BY <3>2
      <4> QED
        BY <2>2, <4>1
    <3> QED
      BY <3>1, <3>2
  <2> QED
    BY <2>2, <2>3, OrdersLeftOfSides
<1>3. ASSUME NEW x \in come
      PROVE  x \in OrdersLeft'
  <2>1. PICK o \in new : x = OrderLeft(o)
    BY <1>3
  <2>2. o \in RestingOrders(Levels(side)')
    OBVIOUS
  <2> QED
    BY <2>1, <2>2, OrdersLeftOfSides
<1> QED
  BY <1>1, <1>2, <1>3

LEMMA CancelMaps ==
  ASSUME Inv, NEW user \in Users, NEW id, NEW side \in Sides, NEW price \in Prices,
         CancelOrder(user, id, side, price)
  PROVE  X!Next
<1>1. PICK o \in RestingOrders(Levels(side)) :
        RestingOrders(Levels(side)') = RestingOrders(Levels(side)) \ {o}
  BY CancelEffect
<1>2. /\ \A other \in Sides \ {side} : Levels(other)' = Levels(other)
      /\ Idle /\ UNCHANGED <<taker, lastTradePrice, orderCount>>
  BY CancelEffect
<1>3. OrdersLeft' = OrdersLeft \ {OrderLeft(o)}
  <2> DEFINE old == {o}
             new == {}
  <2>1. /\ old \in SUBSET RestingOrders(Levels(side))
        /\ RestingOrders(Levels(side)') = (RestingOrders(Levels(side)) \ old) \cup new
    BY <1>1
  <2>2. {OrderLeft(p) : p \in old} = {OrderLeft(o)} /\ {OrderLeft(p) : p \in new} = {}
    OBVIOUS
  <2> HIDE DEF old, new
  <2>3. OrdersLeft' = (OrdersLeft \ {OrderLeft(p) : p \in old}) \cup {OrderLeft(p) : p \in new}
    BY <1>2, <2>1, OneSideLeft
  <2> QED
    BY <2>2, <2>3
<1>4. OrderLeft(o) \in OrdersLeft
  BY OrdersLeftOfSides
<1>5. TakerLeft = X!None /\ TakerLeft' = TakerLeft
  <2>1. TakerLeft' = TakerLeft
    BY <1>2 DEF TakerLeft, Idle
  <2> QED
    BY <1>2, <2>1, TakerLeftOf
<1>6. X!Cancel(OrderLeft(o))
  BY <1>2, <1>3, <1>5 DEF X!Cancel
<1> QED
  BY <1>4, <1>6 DEF X!Next

\* Which of the mapped orders the mapped taker crosses.
LEMMA CrossingLeft ==
  ASSUME Inv, ~Idle, NEW side \in Sides, side = Opposite(taker.order.side)
  PROVE  \A x : x \in X!Crossing <=>
           \E o \in RestingOrders(Levels(side)) : Crosses(taker.order, o.price) /\ x = OrderLeft(o)
<1>1. /\ TakerLeft.side = taker.order.side /\ TakerLeft.type = taker.order.type
      /\ TakerLeft.price = taker.order.price
  BY TakerLeftOf
<1>2. taker.order.side \in Sides /\ side # taker.order.side /\ Sides = {taker.order.side, side}
  BY TakerSides
<1>3. \A s \in Sides : \A o \in RestingOrders(Levels(s)) : o.side = s
  <2>1. SUFFICES ASSUME NEW s \in Sides PROVE \A o \in RestingOrders(Levels(s)) : o.side = s
    OBVIOUS
  <2>2. /\ Levels(s) \in LevelsOf(Prices, Older(Horizon)) /\ LevelsWellFormed(s, Levels(s))
        /\ Prices \in SUBSET Int
    BY SideGood, InputAssumption
  <2> QED
    BY <2>2, RestingApart
<1>4. ASSUME NEW o
      PROVE  Crosses(taker.order, o.price) <=>
               \/ TakerLeft.type = "MARKET"
               \/ TakerLeft.side = "Bid" /\ OrderLeft(o).price <= TakerLeft.price
               \/ TakerLeft.side = "Ask" /\ OrderLeft(o).price >= TakerLeft.price
  BY <1>1, <1>2, OrderLeftFields DEF Crosses, Sides
<1>5. ASSUME NEW x \in X!Crossing
      PROVE  \E o \in RestingOrders(Levels(side)) : Crosses(taker.order, o.price) /\ x = OrderLeft(o)
  <2>1. x \in OrdersLeft /\ x.side # TakerLeft.side
        /\ (\/ TakerLeft.type = "MARKET"
            \/ TakerLeft.side = "Bid" /\ x.price <= TakerLeft.price
            \/ TakerLeft.side = "Ask" /\ x.price >= TakerLeft.price)
    BY <1>5 DEF X!Crossing
  <2>2. PICK s \in Sides : \E o \in RestingOrders(Levels(s)) : x = OrderLeft(o)
    BY <2>1, OrdersLeftOfSides
  <2>3. PICK o \in RestingOrders(Levels(s)) : x = OrderLeft(o)
    BY <2>2
  <2>4. s = side
    <3>1. x.side = s
      BY <1>3, <2>3, OrderLeftFields
    <3> QED
      BY <1>1, <1>2, <2>1, <3>1
  <2>5. Crosses(taker.order, o.price)
    BY <1>4, <2>1, <2>3
  <2> QED
    BY <2>3, <2>4, <2>5
<1>6. ASSUME NEW o \in RestingOrders(Levels(side)), Crosses(taker.order, o.price)
      PROVE  OrderLeft(o) \in X!Crossing
  <2>1. OrderLeft(o) \in OrdersLeft
    BY OrdersLeftOfSides
  <2>2. OrderLeft(o).side # TakerLeft.side
    BY <1>1, <1>2, <1>3, OrderLeftFields
  <2>3. \/ TakerLeft.type = "MARKET"
        \/ TakerLeft.side = "Bid" /\ OrderLeft(o).price <= TakerLeft.price
        \/ TakerLeft.side = "Ask" /\ OrderLeft(o).price >= TakerLeft.price
    BY <1>4, <1>6
  <2> QED
    BY <2>1, <2>2, <2>3 DEF X!Crossing
<1> QED
  BY <1>5, <1>6

LEMMA FillMaps ==
  ASSUME Inv, Fill
  PROVE  X!Next
<1>1. ~Idle /\ taker.remaining > 0
  BY DEF Fill, CanFill
<1>2. PICK side \in Sides : side = Opposite(taker.order.side)
  BY <1>1, TakerSides
<1>m. PICK maker \in RestingOrders(Levels(side)) : \E after : Filled(side, maker, after)
  BY <1>2, FillEffect
<1>3. PICK after : Filled(side, maker, after)
  BY <1>m
<1> DEFINE q == Least(taker.remaining, maker.remaining)
           r == OrderLeft(maker)
           n == IF r.remaining < TakerLeft.remaining THEN r.remaining ELSE TakerLeft.remaining
           left == [r EXCEPT !.remaining = @ - n]
<1>4. /\ Crosses(taker.order, maker.price)
      /\ \A o \in RestingOrders(Levels(side)) \ {maker} :
           \/ BetterFirst(side, maker.price, o.price)
           \/ o.price = maker.price /\ maker.id < o.id
  BY <1>3 DEF Filled
<1>5. /\ after.remaining = maker.remaining - q
      /\ after.id = maker.id /\ after.user = maker.user
      /\ after.side = maker.side /\ after.price = maker.price
  BY <1>3 DEF Filled
<1>6. /\ RestingOrders(Levels(side)') =
           (RestingOrders(Levels(side)) \ {maker}) \cup {o \in {after} : o.remaining > 0}
      /\ \A other \in Sides \ {side} : Levels(other)' = Levels(other)
  BY <1>3 DEF Filled
<1>7. /\ lastTradePrice' = maker.price /\ orderCount' = orderCount
      /\ taker' = [taker EXCEPT !.remaining = @ - q,
                                !.affected = @ \cup {maker.user},
                                !.reports = Append(@, MakerReport(maker, q))]
  BY <1>3 DEF Filled
<1>8. /\ taker \in TakerState /\ taker.remaining \in Nat /\ taker.id = orderCount /\ orderCount \in Nat \ {0}
  BY <1>1, TakerGood
<1>9. maker.side = side /\ maker.remaining \in Nat \ {0} /\ maker.price \in Int
  <2>1. /\ Levels(side) \in LevelsOf(Prices, Older(Horizon)) /\ LevelsWellFormed(side, Levels(side))
        /\ Prices \in SUBSET Int
    BY SideGood, InputAssumption
  <2>2. maker \in Older(Horizon) /\ maker.side = side /\ maker.price \in Prices
    BY <2>1, RestingApart
  <2> QED
    BY <2>1, <2>2 DEF Older, RestingOrder
<1>10. TakerLeft # X!None
       /\ TakerLeft = [id |-> taker.id, user |-> taker.order.user, side |-> taker.order.side,
                       type |-> taker.order.type, price |-> taker.order.price,
                       remaining |-> taker.remaining]
  BY <1>1, TakerLeftOf
<1>11. TakerLeft' = [TakerLeft EXCEPT !.remaining = @ - q]
  <2>1. taker'.id = taker.id /\ taker'.order = taker.order /\ taker'.remaining = taker.remaining - q
    BY <1>7, <1>8 DEF TakerState
  <2>2. ~Idle'
    BY <1>8, <2>1 DEF Idle, NoTaker
  <2> HIDE DEF q
  <2>3. TakerLeft' = [id |-> taker.id, user |-> taker.order.user, side |-> taker.order.side,
                      type |-> taker.order.type, price |-> taker.order.price,
                      remaining |-> taker.remaining - q]
    BY <2>1, <2>2 DEF TakerLeft
  <2> QED
    BY <1>10, <2>3
<1>12. /\ r.id = maker.id /\ r.user = maker.user /\ r.side = maker.side /\ r.type = "LIMIT"
       /\ r.price = maker.price /\ r.remaining = maker.remaining
  BY OrderLeftFields
<1>13. n = q
  BY <1>8, <1>9, <1>10, <1>12 DEF Least
<1>14. left = OrderLeft(after)
  <2> HIDE DEF q, n
  <2>1. left = [r EXCEPT !.remaining = maker.remaining - q]
    BY <1>12, <1>13
  <2>2. r = [id |-> maker.id, user |-> maker.user, side |-> maker.side, type |-> "LIMIT",
             price |-> maker.price, remaining |-> maker.remaining]
    BY DEF OrderLeft
  <2>3. OrderLeft(after) = [id |-> maker.id, user |-> maker.user, side |-> maker.side, type |-> "LIMIT",
                            price |-> maker.price, remaining |-> maker.remaining - q]
    BY <1>5 DEF OrderLeft
  <2> HIDE DEF left, r
  <2> QED
    BY <2>1, <2>2, <2>3
<1>15. OrdersLeft' = (OrdersLeft \ {r}) \cup {l \in {left} : l.remaining > 0}
  <2> DEFINE old == {maker}
             new == {o \in {after} : o.remaining > 0}
  <2>1. /\ old \in SUBSET RestingOrders(Levels(side))
        /\ RestingOrders(Levels(side)') = (RestingOrders(Levels(side)) \ old) \cup new
    BY <1>6
  <2>2. {OrderLeft(p) : p \in old} = {r}
    OBVIOUS
  <2>3. {OrderLeft(p) : p \in new} = {l \in {OrderLeft(after)} : l.remaining > 0}
    BY OrderLeftFields
  <2> HIDE DEF old, new, r, left
  <2>4. OrdersLeft' = (OrdersLeft \ {OrderLeft(p) : p \in old}) \cup {OrderLeft(p) : p \in new}
    BY <1>6, <2>1, OneSideLeft
  <2> QED
    BY <1>14, <2>2, <2>3, <2>4
<1>16. r \in X!Crossing
  BY <1>1, <1>2, <1>4, CrossingLeft
<1>17. \A s \in X!Crossing \ {r} : X!Before(r, s)
  <2>1. SUFFICES ASSUME NEW s \in X!Crossing, s # r PROVE X!Before(r, s)
    OBVIOUS
  <2>2. PICK o \in RestingOrders(Levels(side)) : s = OrderLeft(o)
    BY <1>1, <1>2, CrossingLeft
  <2>3. o # maker
    BY <2>1, <2>2
  <2>4. s.price = o.price /\ s.id = o.id
    BY <2>2, OrderLeftFields
  <2>5. \/ BetterFirst(side, maker.price, o.price)
        \/ o.price = maker.price /\ maker.id < o.id
    BY <1>4, <2>3, Zenon
  <2> HIDE DEF r
  <2> QED
    BY <1>9, <1>12, <2>4, <2>5 DEF X!Before, BetterFirst
<1>18. TakerLeft.remaining > 0 /\ lastTradePrice' = r.price
  BY <1>1, <1>7, <1>10, <1>12
<1> HIDE DEF r, q
<1>19. TakerLeft' = [TakerLeft EXCEPT !.remaining = @ - n]
  BY <1>11, <1>13
<1>20. X!Trade
  BY <1>7, <1>10, <1>15, <1>16, <1>17, <1>18, <1>19 DEF X!Trade
<1> QED
  BY <1>20 DEF X!Next

LEMMA EndMatchMaps ==
  ASSUME Inv, EndMatch
  PROVE  X!Next
<1>1. ~Idle /\ ~CanFill
  BY DEF EndMatch
<1>2. PICK side \in Sides : side = taker.order.side
  BY <1>1, TakerSides
<1>3. PICK opp \in Sides : opp = Opposite(taker.order.side)
  BY <1>1, TakerSides
<1>4. taker' = NoTaker /\ UNCHANGED <<lastTradePrice, orderCount>>
  BY <1>2, EndMatchEffect
<1>5. TakerLeft # X!None
      /\ TakerLeft = [id |-> taker.id, user |-> taker.order.user, side |-> taker.order.side,
                      type |-> taker.order.type, price |-> taker.order.price,
                      remaining |-> taker.remaining]
  BY <1>1, TakerLeftOf
<1>6. TakerLeft' = X!None
  BY <1>4 DEF TakerLeft, Idle, NoTaker, X!None
<1>7. taker.remaining \in Nat
  BY <1>1, TakerGood
<1>8. TakerLeft.remaining = 0 \/ X!Crossing = {}
  <2>1. CASE taker.remaining = 0
    BY <1>5, <2>1
  <2>2. CASE taker.remaining > 0
    <3>1. \A o \in RestingOrders(Levels(opp)) : ~Crosses(taker.order, o.price)
      BY <1>1, <1>3, <2>2, NothingCrosses
    <3>2. X!Crossing = {}
      BY <1>1, <1>3, <3>1, CrossingLeft
    <3> QED
      BY <3>2
  <2> QED
    BY <1>7, <2>1, <2>2
<1>9. OrdersLeft' = OrdersLeft \cup
        {o \in {TakerLeft} : o.type = "LIMIT" /\ o.remaining > 0}
  <2>1. CASE ~(taker.order.type = "LIMIT" /\ taker.remaining > 0) /\ UNCHANGED <<bids, asks>>
    <3>1. OrdersLeft' = OrdersLeft
      BY <2>1 DEF OrdersLeft
    <3>2. {o \in {TakerLeft} : o.type = "LIMIT" /\ o.remaining > 0} = {}
      BY <1>5, <2>1
    <3> QED
      BY <3>1, <3>2
  <2>2. CASE /\ taker.order.type = "LIMIT" /\ taker.remaining > 0
             /\ \E rest \in Older(orderCount + 1) :
                  /\ rest.id = taker.id /\ rest.user = taker.order.user /\ rest.side = side
                  /\ rest.price = taker.order.price /\ rest.remaining = taker.remaining
                  /\ RestingOrders(Levels(side)') = RestingOrders(Levels(side)) \cup {rest}
             /\ \A other \in Sides \ {side} : Levels(other)' = Levels(other)
    <3>1. PICK rest \in Older(orderCount + 1) :
            /\ rest.id = taker.id /\ rest.user = taker.order.user /\ rest.side = side
            /\ rest.price = taker.order.price /\ rest.remaining = taker.remaining
            /\ RestingOrders(Levels(side)') = RestingOrders(Levels(side)) \cup {rest}
      BY <2>2
    <3>2. OrderLeft(rest) = TakerLeft
      BY <1>2, <1>5, <2>2, <3>1 DEF OrderLeft
    <3>3. OrdersLeft' = OrdersLeft \cup {OrderLeft(rest)}
      <4> DEFINE old == {}
                 new == {rest}
      <4>1. /\ old \in SUBSET RestingOrders(Levels(side))
            /\ RestingOrders(Levels(side)') = (RestingOrders(Levels(side)) \ old) \cup new
        BY <3>1
      <4>2. {OrderLeft(p) : p \in old} = {} /\ {OrderLeft(p) : p \in new} = {OrderLeft(rest)}
        OBVIOUS
      <4> HIDE DEF old, new
      <4>3. OrdersLeft' = (OrdersLeft \ {OrderLeft(p) : p \in old}) \cup {OrderLeft(p) : p \in new}
        BY <2>2, <4>1, OneSideLeft
      <4> QED
        BY <4>2, <4>3
    <3>4. {o \in {TakerLeft} : o.type = "LIMIT" /\ o.remaining > 0} = {TakerLeft}
      BY <1>5, <2>2
    <3> QED
      BY <3>2, <3>3, <3>4
  <2> QED
    BY <1>2, <2>1, <2>2, EndMatchEffect
<1>10. X!Settle
  BY <1>4, <1>5, <1>6, <1>8, <1>9 DEF X!Settle
<1> QED
  BY <1>10 DEF X!Next

LEMMA NextMaps == Inv /\ [Next]_vars => [X!Next]_X!vars
<1> SUFFICES ASSUME Inv, [Next]_vars PROVE [X!Next]_X!vars
  OBVIOUS
<1>1. ASSUME NEW user \in Users, NEW amount \in Amounts, CreditUser(user, amount)
      PROVE  [X!Next]_X!vars
  BY <1>1, StutterMaps DEF CreditUser
<1>2. ASSUME NEW o \in OrderInput, RejectOrder(o) PROVE X!Next
  BY <1>2, RejectMaps
<1>3. ASSUME NEW o \in OrderInput, BeginMatch(o) PROVE X!Next
  BY <1>3, BeginMaps
<1>4. CASE Fill
  BY <1>4, FillMaps
<1>5. CASE EndMatch
  BY <1>5, EndMatchMaps
<1>6. ASSUME NEW user \in Users, NEW id, NEW side \in Sides, NEW price \in Prices,
             CancelOrder(user, id, side, price)
      PROVE  X!Next
  BY <1>6, CancelMaps
<1>7. ASSUME NEW user, NEW id, NEW side, NEW price, RejectCancel(user, id, side, price)
      PROVE  [X!Next]_X!vars
  BY <1>7, StutterMaps DEF RejectCancel
<1>8. ASSUME NEW seq, DropIndexPrice(seq) PROVE [X!Next]_X!vars
  BY <1>8, StutterMaps DEF DropIndexPrice
<1>9. ASSUME NEW seq, NEW price, IndexPrice(seq, price) PROVE [X!Next]_X!vars
  BY <1>9, StutterMaps DEF IndexPrice
<1>10. CASE UNCHANGED vars
  BY <1>10, StutterMaps DEF vars
<1> QED
  BY <1>1, <1>2, <1>3, <1>4, <1>5, <1>6, <1>7, <1>8, <1>9, <1>10 DEF Next, Match

\* The engine implements the price-time priority order book: its levels and
\* queues always give the taker the best order it crosses, the oldest among
\* equals, and what is left rests or is dropped as Exchange says.
THEOREM KeepsPriceTimePriority == Spec => PriceTimePriority
<1>1. Init => X!Init
  BY InitMaps
<1>2. Inv /\ [Next]_vars => [X!Next]_X!vars
  BY NextMaps
<1> QED
  BY <1>1, <1>2, InvHolds, PTL DEF Spec, X!Spec, PriceTimePriority

-----------------------------------------------------------------------------
(* The money: sizes, cash and collateral *)

\* The two legs of a fill: `made' are the accounts between them.
Legs(maker, after, made, quantity, part) ==
  LET signed == Signed(maker.side, quantity)
      user   == taker.order.user
  IN
  /\ quantity = Least(taker.remaining, maker.remaining)
  /\ part = RoundDiv(quantity * maker.margin, maker.remaining)
  /\ quantity \in Nat \ {0} /\ part \in Nat /\ part <= maker.margin
  /\ after.margin = maker.margin - part
  /\ maker \in Older(Horizon) /\ maker.user \in Users /\ user \in Users
  /\ maker.price \in Int /\ signed \in Int
  /\ signed = quantity \/ signed = -quantity
  /\ made \in [Users -> Account] /\ accounts' \in [Users -> Account]
  /\ \A u \in Users \ {maker.user} : made[u] = accounts[u]
  /\ \A u \in Users \ {user} : accounts'[u] = made[u]
  /\ LegResult(accounts[maker.user], made[maker.user], signed, maker.price, part)
  /\ LegResult(made[user], accounts'[user], -signed, maker.price,
               MarginShare(taker.order, quantity))

LEMMA FillLegs ==
  ASSUME Inv, Fill, NEW side \in Sides, side = Opposite(taker.order.side)
  PROVE  \E maker \in RestingOrders(Levels(side)) : \E after, made, quantity, part :
           Filled(side, maker, after) /\ Legs(maker, after, made, quantity, part)
<1>1. PICK maker \in RestingOrders(Levels(side)) : \E after :
        Filled(side, maker, after) /\ Settled(maker, after)
  BY FillEffect
<1>2. PICK after : Filled(side, maker, after) /\ Settled(maker, after)
  BY <1>1
<1> DEFINE o        == taker.order
           quantity == Least(taker.remaining, maker.remaining)
           part     == RoundDiv(quantity * maker.margin, maker.remaining)
           share    == MarginShare(o, quantity)
           signed   == Signed(maker.side, quantity)
           own      == ApplyFill(accounts[maker.user], maker.side, maker.price, quantity, part,
                                 maker.leverage)
           made     == [accounts EXCEPT ![maker.user] = own]
           other    == ApplyFill(made[o.user], o.side, maker.price, quantity, share, o.leverage)
<1>3. ~Idle /\ taker.remaining > 0
  BY DEF Fill, CanFill
<1>4. /\ o \in OrderInput /\ taker.remaining \in Nat /\ taker.remaining <= o.quantity
  BY <1>3, TakerGood
<1>5. /\ o.user \in Users /\ o.side \in Sides /\ o.leverage \in Nat \ {0}
      /\ o.quantity \in Nat \ {0} /\ o.margin \in Nat
  BY <1>4, OrderInputType
<1>6. Levels(side) \in LevelsOf(Prices, Older(Horizon)) /\ LevelsWellFormed(side, Levels(side))
  BY SideGood
<1>7. Prices \in SUBSET Int
  BY InputAssumption
<1>8. maker \in Older(Horizon) /\ maker.side = side /\ maker.price \in Int
  <2> DEFINE levels == Levels(side)
  <2>1. levels \in LevelsOf(Prices, Older(Horizon)) /\ LevelsWellFormed(side, levels)
    BY <1>6
  <2>2. maker \in RestingOrders(levels)
    OBVIOUS
  <2> HIDE DEF levels
  <2>3. maker \in Older(Horizon) /\ maker.side = side /\ maker.price \in Prices
    BY <1>7, <2>1, <2>2, RestingApart
  <2> QED
    BY <1>7, <2>3
<1>9. /\ maker.user \in Users /\ maker.side \in Sides
      /\ maker.leverage \in Nat \ {0} /\ maker.remaining \in Nat \ {0} /\ maker.margin \in Nat
  BY <1>8 DEF Older, RestingOrder
<1>10. /\ quantity \in Nat \ {0} /\ quantity <= maker.remaining /\ quantity <= o.quantity
  BY <1>3, <1>4, <1>5, <1>9 DEF Least
<1>11. /\ accounts' = [made EXCEPT ![o.user] = other]
       /\ after.margin = maker.margin - part
  BY <1>2 DEF Settled
<1>12. /\ signed = quantity \/ signed = -quantity
       /\ Signed(o.side, quantity) = -signed
  BY <1>5, <1>8, <1>10 DEF Signed, Opposite, Sides
<1> HIDE DEF quantity, o
<1>13. part \in Nat /\ part <= maker.margin
  <2>1. part \in 0..maker.margin
    BY <1>9, <1>10, RoundDivShare
  <2> QED
    BY <1>9, <2>1
<1>14. share \in Nat
  <2>1. quantity \in Nat
    BY <1>10
  <2> QED
    BY <1>4, <1>10, <2>1, MarginShareType
<1> HIDE DEF part, share
<1>15. accounts \in [Users -> Account] /\ \A u \in Users : PositionConsistent(accounts[u].pos)
  BY DEF Inv, TypeOK, PositionsConsistent
<1>16. accounts[maker.user] \in Account /\ PositionConsistent(accounts[maker.user].pos)
  BY <1>9, <1>15
<1>17. /\ own \in Account /\ PositionConsistent(own.pos)
       /\ LegResult(accounts[maker.user], own, signed, maker.price, part)
  <2>1. FillResult(accounts[maker.user], own)
    BY <1>8, <1>9, <1>10, <1>13, <1>16, ApplyFillResult
  <2>2. LegResult(accounts[maker.user], own, signed, maker.price, part)
    BY <1>8, <1>9, <1>10, <1>13, <1>16, ApplyFillLeg
  <2> QED
    BY <2>1, <2>2 DEF FillResult
<1> HIDE DEF own
<1>18. /\ made \in [Users -> Account] /\ made[maker.user] = own
       /\ \A u \in Users \ {maker.user} : made[u] = accounts[u]
       /\ \A u \in Users : PositionConsistent(made[u].pos)
  BY <1>9, <1>15, <1>17
<1> HIDE DEF made
<1>19. made[o.user] \in Account /\ PositionConsistent(made[o.user].pos)
  BY <1>5, <1>18
<1>20. /\ other \in Account
       /\ LegResult(made[o.user], other, -signed, maker.price, share)
  <2>1. FillResult(made[o.user], other)
    BY <1>5, <1>8, <1>10, <1>14, <1>19, ApplyFillResult
  <2>2. LegResult(made[o.user], other, Signed(o.side, quantity), maker.price, share)
    BY <1>5, <1>8, <1>10, <1>14, <1>19, ApplyFillLeg
  <2> HIDE DEF other, signed
  <2> QED
    BY <1>12, <2>1, <2>2 DEF FillResult
<1> HIDE DEF other
<1>21. /\ accounts' \in [Users -> Account] /\ accounts'[o.user] = other
       /\ \A u \in Users \ {o.user} : accounts'[u] = made[u]
  BY <1>5, <1>11, <1>18, <1>20
<1>22. signed \in Int
  BY <1>10, <1>12
<1> HIDE DEF signed
<1>23. Legs(maker, after, made, quantity, part)
  <2>1. /\ quantity = Least(taker.remaining, maker.remaining)
        /\ part = RoundDiv(quantity * maker.margin, maker.remaining)
        /\ Signed(maker.side, quantity) = signed /\ taker.order = o /\ MarginShare(o, quantity) = share
    BY DEF quantity, part, signed, o, share
  <2>2. LegResult(accounts[maker.user], made[maker.user], signed, maker.price, part)
    BY <1>17, <1>18
  <2>3. LegResult(made[o.user], accounts'[o.user], -signed, maker.price, share)
    BY <1>20, <1>21
  <2>4. /\ quantity \in Nat \ {0} /\ part \in Nat /\ part <= maker.margin
        /\ after.margin = maker.margin - part
        /\ maker \in Older(Horizon) /\ maker.user \in Users /\ o.user \in Users
        /\ maker.price \in Int /\ signed \in Int
        /\ signed = quantity \/ signed = -quantity
        /\ made \in [Users -> Account] /\ accounts' \in [Users -> Account]
        /\ \A u \in Users \ {maker.user} : made[u] = accounts[u]
        /\ \A u \in Users \ {o.user} : accounts'[u] = made[u]
    BY <1>5, <1>8, <1>9, <1>10, <1>11, <1>12, <1>13, <1>18, <1>21, <1>22
  <2> QED
    BY <2>1, <2>2, <2>3, <2>4, Zenon DEF Legs
<1> QED
  BY <1>2, <1>23

\* A step that leaves every user's size alone leaves the net size alone.
LEMMA SameNet ==
  ASSUME Inv, Inv', \A u \in Users : accounts'[u].pos.size = accounts[u].pos.size
  PROVE  Net' = Net
<1> DEFINE f == [u \in Users |-> accounts[u].pos.size]
           g == [u \in Users |-> accounts'[u].pos.size]
<1>1. f = g
  OBVIOUS
<1>2. Net = Total(f) /\ Net' = Total(g)
  BY DEF Net
<1> QED
  BY <1>1, <1>2

\* A step that changes balances only leaves every size alone.
LEMMA OnlyBalance ==
  ASSUME Inv, NEW user \in Users, NEW b, accounts' = [accounts EXCEPT ![user].bal = b]
  PROVE  \A u \in Users : accounts'[u].pos.size = accounts[u].pos.size
<1>1. accounts \in [Users -> Account]
  BY DEF Inv, TypeOK
<1> QED
  BY <1>1 DEF Account

\* The legs of a fill move the same size in opposite directions.
LEMMA FillNet ==
  ASSUME Inv, Fill
  PROVE  Net' = Net
<1> DEFINE side == Opposite(taker.order.side)
           user == taker.order.user
<1>1. side \in Sides
  BY TakerSides DEF Fill
<1>2. PICK maker \in RestingOrders(Levels(side)) : \E after, made, quantity, part :
        Filled(side, maker, after) /\ Legs(maker, after, made, quantity, part)
  BY <1>1, FillLegs
<1>3. PICK after, made, quantity, part : Legs(maker, after, made, quantity, part)
  BY <1>2
<1> DEFINE signed == Signed(maker.side, quantity)
           f == [u \in Users |-> accounts[u].pos.size]
           g == [u \in Users |-> made[u].pos.size]
           h == [u \in Users |-> accounts'[u].pos.size]
<1>4. /\ maker.user \in Users /\ user \in Users /\ signed \in Int
      /\ made \in [Users -> Account] /\ accounts' \in [Users -> Account]
      /\ \A u \in Users \ {maker.user} : made[u] = accounts[u]
      /\ \A u \in Users \ {user} : accounts'[u] = made[u]
      /\ made[maker.user].pos.size = accounts[maker.user].pos.size + signed
      /\ accounts'[user].pos.size = made[user].pos.size + (-signed)
  BY <1>3 DEF Legs, LegResult
<1>5. IsFiniteSet(Users) /\ accounts \in [Users -> Account]
  BY InputAssumption DEF Inv, TypeOK
<1> HIDE DEF signed, user
<1>6. f \in [Users -> Int] /\ g \in [Users -> Int] /\ h \in [Users -> Int]
  BY <1>4, <1>5 DEF Account, Position
<1>7. Total(g) = Total(f) - f[maker.user] + g[maker.user]
  <2>1. \A u \in Users \ {maker.user} : g[u] = f[u]
    BY <1>4
  <2> HIDE DEF f, g
  <2> QED
    BY <1>4, <1>5, <1>6, <2>1, TotalChange
<1>8. Total(h) = Total(g) - g[user] + h[user]
  <2>1. \A u \in Users \ {user} : h[u] = g[u]
    BY <1>4
  <2> HIDE DEF h, g
  <2> QED
    BY <1>4, <1>5, <1>6, <2>1, TotalChange
<1>9. g[maker.user] = f[maker.user] + signed /\ h[user] = g[user] - signed
  <2>1. /\ f[maker.user] = accounts[maker.user].pos.size /\ g[maker.user] = made[maker.user].pos.size
        /\ g[user] = made[user].pos.size /\ h[user] = accounts'[user].pos.size
    BY <1>4
  <2>2. g[user] \in Int
    BY <1>4, <1>6
  <2> HIDE DEF f, g, h
  <2> QED
    BY <1>4, <2>1, <2>2
<1>10. Net = Total(f) /\ Net' = Total(h)
  BY DEF Net
<1> HIDE DEF f, g, h
<1>11. Total(f) \in Int /\ f[maker.user] \in Int /\ g[user] \in Int
  BY <1>4, <1>5, <1>6, TotalType
<1> QED
  BY <1>4, <1>7, <1>8, <1>9, <1>10, <1>11

\* Longs minus shorts changes only when onIndexPrice force-closes a position:
\* every other command, and each fill of a match, moves size from one user to
\* another or not at all.
THEOREM NetSizeOnlyLiquidated == Spec => NetSizeOnlyMovedByLiquidation
<1> DEFINE Moved == markPrice' # markPrice \/ lastObserverSeq' # lastObserverSeq
<1>1. ASSUME Inv, Inv', [Next]_vars
      PROVE  [Net' # Net => Moved]_vars
  <2>1. ASSUME NEW user \in Users, NEW amount, CreditUser(user, amount) PROVE Net' = Net
    BY <1>1, <2>1, OnlyBalance, SameNet DEF CreditUser
  <2>2. ASSUME NEW o, RejectOrder(o) PROVE Net' = Net
    BY <1>1, <2>2, SameNet DEF RejectOrder
  <2>3. ASSUME NEW o \in OrderInput, BeginMatch(o) PROVE Net' = Net
    <3>1. o.user \in Users
      BY OrderInputType
    <3> QED
      BY <1>1, <2>3, <3>1, OnlyBalance, SameNet DEF BeginMatch
  <2>4. CASE Fill
    BY <1>1, <2>4, FillNet
  <2>5. CASE EndMatch
    <3> DEFINE user  == taker.order.user
               freed == Release(accounts[user].bal, MarginShare(taker.order, taker.remaining))
    <3>1. UNCHANGED accounts \/ accounts' = [accounts EXCEPT ![user].bal = freed]
      BY <2>5 DEF EndMatch
    <3>2. user \in Users
      BY <1>1, <2>5, TakerGood, OrderInputType DEF EndMatch
    <3> HIDE DEF user, freed
    <3> QED
      BY <1>1, <3>1, <3>2, OnlyBalance, SameNet
  <2>6. ASSUME NEW user \in Users, NEW id, NEW side, NEW price, CancelOrder(user, id, side, price)
        PROVE  Net' = Net
    <3>1. PICK o : accounts' = [accounts EXCEPT ![user].bal = Release(@, o.margin)]
      BY <2>6 DEF CancelOrder
    <3> QED
      BY <1>1, <3>1, OnlyBalance, SameNet
  <2>7. ASSUME NEW user, NEW id, NEW side, NEW price, RejectCancel(user, id, side, price)
        PROVE  Net' = Net
    BY <1>1, <2>7, SameNet DEF RejectCancel
  <2>8. ASSUME NEW seq, DropIndexPrice(seq) PROVE Net' = Net
    BY <1>1, <2>8, SameNet DEF DropIndexPrice
  <2>9. ASSUME NEW seq \in 0..MaxObserverSeq, NEW price, IndexPrice(seq, price) PROVE Moved
    BY <1>1, <2>9 DEF IndexPrice, Inv, TypeOK
  <2> QED
    BY <1>1, <2>1, <2>2, <2>3, <2>4, <2>5, <2>6, <2>7, <2>8, <2>9 DEF Next, Match
<1>2. Spec => []Inv /\ [][Next]_vars
  BY InvHolds, PTL DEF Spec
<1> QED
  BY <1>1, <1>2, PTL DEF NetSizeOnlyMovedByLiquidation

-----------------------------------------------------------------------------
(* Money *)

\* What a leg loses or gains to rounding: nothing unless it adds to a position,
\* and then at most half a quantum for each lot of the position that results.
LegError(a, r, signed, price) == Worth(r) - Worth(a) + price * signed

LEMMA LegErrorBound ==
  ASSUME NEW a \in Account, NEW r \in Account, NEW signed \in Int, NEW quantity \in Nat \ {0},
         signed = quantity \/ signed = -quantity, NEW price \in Int, NEW margin,
         LegResult(a, r, signed, price, margin)
  PROVE  /\ LegError(a, r, signed, price) \in Int
         /\ Worth(a) \in Int /\ Worth(r) \in Int
         /\ a.pos.size \in Int /\ r.pos.size = a.pos.size + signed
         /\ 2 * Abs(LegError(a, r, signed, price)) <= Abs(a.pos.size) + quantity
         /\ 2 * Abs(LegError(a, r, signed, price)) <= Abs(r.pos.size)
         /\ LegError(a, r, signed, price) # 0 =>
              \/ a.pos.size > 0 /\ signed > 0
              \/ a.pos.size < 0 /\ signed < 0
<1> DEFINE e == LegError(a, r, signed, price)
<1>1. Worth(a) \in Int /\ Worth(r) \in Int /\ a.pos.size \in Int /\ r.pos.size \in Int
  BY DEF Worth, Account, Balance, Position
<1>2. e \in Int
  BY <1>1 DEF LegError
<1>3. /\ r.pos.size = a.pos.size + signed
      /\ IF a.pos.size # 0 /\ Sign(a.pos.size) = Sign(signed)
         THEN 2 * Abs(e) <= Abs(r.pos.size)
         ELSE e = 0
  BY DEF LegResult, LegError
<1> HIDE DEF e
<1>4. /\ 2 * Abs(e) <= Abs(a.pos.size) + quantity
      /\ 2 * Abs(e) <= Abs(r.pos.size)
      /\ e # 0 => \/ a.pos.size > 0 /\ signed > 0
                  \/ a.pos.size < 0 /\ signed < 0
  <2>1. CASE a.pos.size # 0 /\ Sign(a.pos.size) = Sign(signed)
    <3>1. 2 * Abs(e) <= Abs(r.pos.size)
      BY <1>3, <2>1
    <3>2. \/ a.pos.size > 0 /\ signed > 0
          \/ a.pos.size < 0 /\ signed < 0
      BY <1>1, <2>1 DEF Sign
    <3>3. Abs(r.pos.size) = Abs(a.pos.size) + quantity
      BY <1>1, <1>3, <3>2 DEF Abs
    <3> QED
      BY <3>1, <3>2, <3>3
  <2>2. CASE ~(a.pos.size # 0 /\ Sign(a.pos.size) = Sign(signed))
    <3>1. e = 0
      BY <1>3, <2>2
    <3> QED
      BY <1>1, <3>1 DEF Abs
  <2> QED
    BY <2>1, <2>2
<1> QED
  BY <1>1, <1>2, <1>3, <1>4 DEF e

\* A position to which a leg adds is averaged over all its lots.
LEMMA LotsAdded ==
  ASSUME NEW u \in Users, NEW signed \in Int, accounts[u].pos.size \in Int,
         accounts'[u].pos.size = accounts[u].pos.size + signed,
         \/ accounts[u].pos.size > 0 /\ signed > 0
         \/ accounts[u].pos.size < 0 /\ signed < 0
  PROVE  LotsAveraged(u) = Abs(accounts'[u].pos.size)
<1> DEFINE was == accounts[u].pos.size
           now == accounts'[u].pos.size
<1>1. /\ was \in Int /\ now = was + signed
      /\ \/ was > 0 /\ signed > 0
         \/ was < 0 /\ signed < 0
  OBVIOUS
<1>2. LotsAveraged(u) = IF was = 0 THEN 0
                        ELSE IF was = now /\ u = taker.order.user
                        THEN Abs(was) + (taker.remaining - taker'.remaining)
                        ELSE IF Sign(now - was) = Sign(was) THEN Abs(now) ELSE 0
  BY DEF LotsAveraged
<1> HIDE DEF was, now
<1>3. was # 0 /\ was # now /\ Sign(now - was) = Sign(was)
  BY <1>1 DEF Sign
<1>4. LotsAveraged(u) = Abs(now)
  BY <1>2, <1>3
<1> QED
  BY <1>4 DEF now

\* The two errors of a fill are those of two users, or one of them is nothing.
LEMMA FillConserves ==
  ASSUME Inv, Fill
  PROVE  2 * Abs(Cash' - Cash) <= Total([u \in Users |-> LotsAveraged(u)])
<1> DEFINE side == Opposite(taker.order.side)
           t    == taker.order.user
<1>1. side \in Sides
  BY TakerSides DEF Fill
<1>2. PICK maker \in RestingOrders(Levels(side)) : \E after, made, quantity, part :
        Filled(side, maker, after) /\ Legs(maker, after, made, quantity, part)
  BY <1>1, FillLegs
<1>3. PICK after, made, quantity, part :
        Filled(side, maker, after) /\ Legs(maker, after, made, quantity, part)
  BY <1>2
<1> DEFINE m      == maker.user
           price  == maker.price
           signed == Signed(maker.side, quantity)
           paid   == price * signed
           f == [u \in Users |-> Worth(accounts[u])]
           g == [u \in Users |-> Worth(made[u])]
           h == [u \in Users |-> Worth(accounts'[u])]
           e1 == LegError(accounts[m], made[m], signed, price)
           e2 == LegError(made[t], accounts'[t], -signed, price)
           lots == [u \in Users |-> LotsAveraged(u)]
<1>4. /\ m \in Users /\ t \in Users /\ signed \in Int /\ price \in Int
      /\ quantity = Least(taker.remaining, maker.remaining)
      /\ quantity \in Nat \ {0} /\ (signed = quantity \/ signed = -quantity)
      /\ made \in [Users -> Account] /\ accounts' \in [Users -> Account]
      /\ \A u \in Users \ {m} : made[u] = accounts[u]
      /\ \A u \in Users \ {t} : accounts'[u] = made[u]
      /\ LegResult(accounts[m], made[m], signed, price, part)
      /\ LegResult(made[t], accounts'[t], -signed, price, MarginShare(taker.order, quantity))
  BY <1>3 DEF Legs
<1>5. IsFiniteSet(Users) /\ accounts \in [Users -> Account]
  BY InputAssumption DEF Inv, TypeOK
<1>6. taker.remaining - taker'.remaining = quantity
  <2>1. taker \in TakerState /\ taker.remaining \in Nat
    BY TakerGood DEF Fill
  <2>2. taker'.remaining = taker.remaining - quantity
    BY <1>3, <1>4, <2>1 DEF Filled, TakerState
  <2> HIDE DEF t, side
  <2> QED
    BY <1>4, <2>1, <2>2
<1> HIDE DEF signed, t, m, price
<1>7. /\ e1 \in Int /\ Worth(accounts[m]) \in Int /\ Worth(made[m]) \in Int
      /\ accounts[m].pos.size \in Int /\ made[m].pos.size = accounts[m].pos.size + signed
      /\ 2 * Abs(e1) <= Abs(accounts[m].pos.size) + quantity
      /\ 2 * Abs(e1) <= Abs(made[m].pos.size)
      /\ e1 # 0 => \/ accounts[m].pos.size > 0 /\ signed > 0
                   \/ accounts[m].pos.size < 0 /\ signed < 0
  <2>1. accounts[m] \in Account /\ made[m] \in Account
    BY <1>4, <1>5
  <2> QED
    BY <1>4, <2>1, LegErrorBound
<1>8. /\ e2 \in Int /\ Worth(made[t]) \in Int /\ Worth(accounts'[t]) \in Int
      /\ made[t].pos.size \in Int /\ accounts'[t].pos.size = made[t].pos.size + (-signed)
      /\ 2 * Abs(e2) <= Abs(made[t].pos.size) + quantity
      /\ 2 * Abs(e2) <= Abs(accounts'[t].pos.size)
      /\ e2 # 0 => \/ made[t].pos.size > 0 /\ -signed > 0
                   \/ made[t].pos.size < 0 /\ -signed < 0
  <2>1. made[t] \in Account /\ accounts'[t] \in Account
    BY <1>4
  <2>2. -signed \in Int /\ (-signed = quantity \/ -signed = -quantity)
    BY <1>4
  <2> QED
    BY <1>4, <2>1, <2>2, LegErrorBound
<1>9. /\ paid \in Int /\ price * (-signed) = -paid
      /\ e1 = Worth(made[m]) - Worth(accounts[m]) + paid
      /\ e2 = Worth(accounts'[t]) - Worth(made[t]) + price * (-signed)
  BY <1>4 DEF LegError
<1>10. f \in [Users -> Int] /\ g \in [Users -> Int] /\ h \in [Users -> Int]
  BY <1>4, <1>5 DEF Worth, Account, Balance, Position
<1>11. Total(g) = Total(f) - f[m] + g[m]
  <2>1. \A u \in Users \ {m} : g[u] = f[u]
    BY <1>4
  <2> HIDE DEF f, g
  <2> QED
    BY <1>4, <1>5, <1>10, <2>1, TotalChange
<1>12. Total(h) = Total(g) - g[t] + h[t]
  <2>1. \A u \in Users \ {t} : h[u] = g[u]
    BY <1>4
  <2> HIDE DEF h, g
  <2> QED
    BY <1>4, <1>5, <1>10, <2>1, TotalChange
<1>13. /\ f[m] = Worth(accounts[m]) /\ g[m] = Worth(made[m])
       /\ g[t] = Worth(made[t]) /\ h[t] = Worth(accounts'[t])
  BY <1>4
<1>14. Cash = Total(f) /\ Cash' = Total(h)
  BY DEF Cash
<1>15. Total(f) \in Int
  BY <1>5, <1>10, TotalType
<1> HIDE DEF f, g, h, e1, e2, paid
<1>16. Cash' - Cash = e1 + e2
  BY <1>7, <1>8, <1>9, <1>11, <1>12, <1>13, <1>14, <1>15
<1>17. \A u \in Users : LotsAveraged(u) \in Nat
  <2> SUFFICES ASSUME NEW u \in Users
               PROVE  LotsAveraged(u) \in Nat
    OBVIOUS
  <2> DEFINE was == accounts[u].pos.size
             now == accounts'[u].pos.size
  <2>1. was \in Int /\ now \in Int
    BY <1>4, <1>5 DEF Account, Position
  <2>2. LotsAveraged(u) = IF was = 0 THEN 0
                          ELSE IF was = now /\ u = taker.order.user
                          THEN Abs(was) + quantity
                          ELSE IF Sign(now - was) = Sign(was) THEN Abs(now) ELSE 0
    BY <1>6 DEF LotsAveraged
  <2> HIDE DEF was, now
  <2>3. Abs(was) \in Nat /\ Abs(now) \in Nat /\ Abs(was) + quantity \in Nat
    BY <1>4, <2>1 DEF Abs
  <2> QED
    BY <2>2, <2>3
<1>18. /\ Total(lots) \in Int
       /\ Total(lots) >= LotsAveraged(m)
       /\ m # t => Total(lots) >= LotsAveraged(m) + LotsAveraged(t)
  <2>1. lots \in [Users -> Nat] /\ lots \in [Users -> Int]
    BY <1>17
  <2>2. lots[m] = LotsAveraged(m) /\ lots[t] = LotsAveraged(t)
    BY <1>4
  <2> HIDE DEF lots
  <2>3. Total(lots) \in Int
    BY <1>5, <2>1, TotalType
  <2>4. /\ Total(lots) >= lots[m]
        /\ m # t => Total(lots) >= lots[m] + lots[t]
    BY <1>4, <1>5, <2>1, TotalNotLess
  <2> QED
    BY <2>2, <2>3, <2>4
<1> HIDE DEF lots
<1>19. 2 * Abs(e1 + e2) <= Total(lots)
  <2>0. LotsAveraged(m) \in Nat /\ LotsAveraged(t) \in Nat
    BY <1>4, <1>17
  <2>1. CASE m # t
    <3>1. made[t] = accounts[t] /\ accounts'[m] = made[m]
      BY <1>4, <2>1
    <3>2. 2 * Abs(e1) <= LotsAveraged(m)
      <4>1. CASE e1 = 0
        BY <2>0, <4>1 DEF Abs
      <4>2. CASE e1 # 0
        BY <1>4, <1>7, <3>1, <4>2, LotsAdded
      <4> QED
        BY <4>1, <4>2
    <3>3. 2 * Abs(e2) <= LotsAveraged(t)
      <4>1. CASE e2 = 0
        BY <2>0, <4>1 DEF Abs
      <4>2. CASE e2 # 0
        <5>1. -signed \in Int
          BY <1>4
        <5> QED
          BY <1>4, <1>8, <3>1, <4>2, <5>1, LotsAdded
      <4> QED
        BY <4>1, <4>2
    <3>4. 2 * Abs(e1 + e2) <= 2 * Abs(e1) + 2 * Abs(e2)
      BY <1>7, <1>8 DEF Abs
    <3>5. Abs(e1) \in Nat /\ Abs(e2) \in Nat /\ Abs(e1 + e2) \in Nat
      BY <1>7, <1>8 DEF Abs
    <3> QED
      BY <1>18, <2>0, <2>1, <3>2, <3>3, <3>4, <3>5
  <2>2. CASE m = t
    <3> DEFINE was == accounts[t].pos.size
    <3>1. /\ was \in Int /\ accounts[m].pos.size = was /\ accounts'[t].pos.size = was
          /\ made[t].pos.size = was + signed
      BY <1>4, <1>7, <1>8, <2>2
    <3>2. LotsAveraged(t) = IF was = 0 THEN 0 ELSE Abs(was) + quantity
      BY <1>6, <3>1 DEF LotsAveraged, t
    <3>3. /\ 2 * Abs(e1) <= Abs(was) + quantity
          /\ e1 # 0 => \/ was > 0 /\ signed > 0
                       \/ was < 0 /\ signed < 0
      BY <1>7, <3>1
    <3>4. /\ 2 * Abs(e2) <= Abs(was)
          /\ e2 # 0 => \/ was + signed > 0 /\ -signed > 0
                       \/ was + signed < 0 /\ -signed < 0
      BY <1>8, <3>1
    <3>5. e1 \in Int /\ e2 \in Int /\ signed \in Int /\ quantity \in Nat
      BY <1>4, <1>7, <1>8
    <3> HIDE DEF was
    <3>6. was \in Int
      BY <3>1
    <3>7. 2 * Abs(e1 + e2) <= LotsAveraged(t)
      <4>1. CASE e1 = 0 /\ e2 = 0
        BY <2>0, <4>1 DEF Abs
      <4>2. CASE e1 # 0 \/ e2 # 0
        <5>1. was # 0 /\ (e1 = 0 \/ e2 = 0)
          BY <3>3, <3>4, <3>5, <3>6, <4>2
        <5>2. Abs(e1 + e2) = Abs(e1) \/ Abs(e1 + e2) = Abs(e2)
          BY <3>5, <5>1
        <5>3. Abs(was) \in Nat /\ Abs(e1) \in Nat /\ Abs(e2) \in Nat
          BY <3>5, <3>6 DEF Abs
        <5> QED
          BY <3>2, <3>3, <3>4, <3>5, <5>1, <5>2, <5>3
      <4> QED
        BY <4>1, <4>2
    <3>8. Abs(e1 + e2) \in Nat
      BY <3>5 DEF Abs
    <3> QED
      BY <1>18, <2>0, <2>2, <3>7, <3>8
  <2> QED
    BY <2>1, <2>2
<1> QED
  BY <1>16, <1>19 DEF lots

\* A fill creates or destroys at most half a quantum for each lot of the positions
\* that it adds to, whose entry price it averages: what one leg realizes the other
\* pays or carries.
THEOREM FillsAlwaysConserveMoney == Spec => FillsConserveMoney
<1>1. Inv /\ [Next]_vars =>
        [Fill => 2 * Abs(Cash' - Cash) <= Total([u \in Users |-> LotsAveraged(u)])]_vars
  BY FillConserves
<1> QED
  BY <1>1, InvHolds, PTL DEF Spec, FillsConserveMoney

-----------------------------------------------------------------------------
(* Collateral *)

\* No order's margin has to be rounded to be split over its quantity.
NoRounding ==
  \A quantity \in Quantities, margin \in Margins : \E k \in Nat : margin = k * quantity

\* Then each lot of an order carries the same share of its margin.
LEMMA SharePerLot ==
  ASSUME NoRounding, NEW o \in OrderInput
  PROVE  \E k \in Nat : /\ o.margin = k * o.quantity
                        /\ \A n \in Nat : MarginShare(o, n) = n * k
<1>1. o.margin \in Margins /\ o.quantity \in Quantities /\ o.quantity \in Nat \ {0}
  BY InputAssumption DEF OrderInput, LimitOrder, MarketOrder
<1>2. PICK k \in Nat : o.margin = k * o.quantity
  BY <1>1 DEF NoRounding
<1>3. ASSUME NEW n \in Nat PROVE MarginShare(o, n) = n * k
  <2> DEFINE q == o.quantity
  <2>1. q \in Nat \ {0} /\ n * k \in Nat
    BY <1>1
  <2>2. n * (k * q) = q * (n * k)
    BY <2>1
  <2>3. RoundDiv(q * (n * k), q) = n * k
    BY <2>1, RoundDivWhole
  <2> QED
    BY <1>2, <2>2, <2>3 DEF MarginShare
<1> QED
  BY <1>2, <1>3

\* The collateral of a user's resting orders.
Held(u) == OwnMargin(u, RestingOrders(bids)) + OwnMargin(u, RestingOrders(asks))

\* What is locked besides the collateral of the position is that of the
\* resting orders and of the order in flight.
ExactFor(u) == Spare(accounts[u]) = Held(u) + InFlightMargin(u)

SideMargins ==
  \A side \in Sides :
    /\ IsFiniteSet(RestingOrders(Levels(side)))
    /\ \A o \in RestingOrders(Levels(side)) : o.margin \in Nat

LEMMA SideMarginsGood == Inv => SideMargins
<1> SUFFICES ASSUME Inv, NEW side \in Sides
             PROVE  /\ IsFiniteSet(RestingOrders(Levels(side)))
                    /\ \A o \in RestingOrders(Levels(side)) : o.margin \in Nat
  BY DEF SideMargins
<1> DEFINE levels == Levels(side)
<1>1. /\ levels \in LevelsOf(Prices, Older(Horizon)) /\ LevelsWellFormed(side, levels)
      /\ Prices \in SUBSET Int
  BY SideGood, InputAssumption
<1> HIDE DEF levels
<1>2. IsFiniteSet(RestingOrders(levels))
  BY <1>1, RestingFinite
<1>3. \A o \in RestingOrders(levels) : o \in Older(Horizon)
  BY <1>1, RestingApart
<1>4. \A o \in RestingOrders(levels) : o.margin \in Nat
  BY <1>3 DEF Older, RestingOrder
<1> QED
  BY <1>2, <1>4 DEF levels

\* None of these amounts is negative, and those of a side are part of what is
\* held.
LEMMA HeldType ==
  ASSUME Inv, NEW u \in Users
  PROVE  /\ Held(u) \in Nat /\ InFlightMargin(u) \in Nat
         /\ \A side \in Sides : /\ OwnMargin(u, RestingOrders(Levels(side))) \in Nat
                                /\ OwnMargin(u, RestingOrders(Levels(side))) <= Held(u)
<1>1. \A side \in Sides : OwnMargin(u, RestingOrders(Levels(side))) \in Nat
  BY SideMarginsGood, OwnMarginType DEF SideMargins
<1>2. Levels("Bid") = bids /\ Levels("Ask") = asks /\ "Bid" \in Sides /\ "Ask" \in Sides
  BY DEF Levels, Sides
<1>3. /\ OwnMargin(u, RestingOrders(bids)) \in Nat
      /\ OwnMargin(u, RestingOrders(asks)) \in Nat
  BY <1>1, <1>2
<1>4. \A side \in Sides : Levels(side) = bids \/ Levels(side) = asks
  BY DEF Levels
<1>5. Held(u) \in Nat
  BY <1>3 DEF Held
<1>6. ASSUME NEW side \in Sides PROVE OwnMargin(u, RestingOrders(Levels(side))) <= Held(u)
  <2>1. CASE Levels(side) = bids
    BY <1>3, <2>1 DEF Held
  <2>2. CASE Levels(side) = asks
    BY <1>3, <2>2 DEF Held
  <2> QED
    BY <1>4, <2>1, <2>2
<1>7. InFlightMargin(u) \in Nat
  <2>1. CASE Idle
    BY <2>1 DEF InFlightMargin
  <2>2. CASE ~Idle
    BY <2>2, TakerGood, MarginShareType DEF InFlightMargin
  <2> QED
    BY <2>1, <2>2
<1> QED
  BY <1>1, <1>5, <1>6, <1>7

LEMMA ExactForAll == Inv => (CollateralExact <=> \A u \in Users : ExactFor(u))
<1> SUFFICES ASSUME Inv, NEW u \in Users
             PROVE  accounts[u].bal.locked = Backing(u) <=> ExactFor(u)
  BY DEF CollateralExact
<1>1. accounts[u].bal.locked \in Int /\ accounts[u].pos.margin \in Int
  BY DEF Inv, TypeOK, Account, Balance, Position
<1> DEFINE b == OwnMargin(u, RestingOrders(bids))
           a == OwnMargin(u, RestingOrders(asks))
           i == InFlightMargin(u)
<1>2. b \in Nat /\ a \in Nat
  <2>1. Levels("Bid") = bids /\ Levels("Ask") = asks /\ "Bid" \in Sides /\ "Ask" \in Sides
    BY DEF Levels, Sides
  <2> QED
    BY <2>1, HeldType
<1>3. i \in Nat
  BY HeldType
<1>4. Backing(u) = accounts[u].pos.margin + b + a + i
  BY DEF Backing, RestingMargin, OwnMargin
<1>5. ExactFor(u) <=> accounts[u].bal.locked - accounts[u].pos.margin = (b + a) + i
  BY DEF ExactFor, Spare, Held
<1> HIDE DEF a, b, i
<1> QED
  BY <1>1, <1>2, <1>3, <1>4, <1>5

Exactness == \A u \in Users : ExactFor(u)

\* What is held after a step that changes one side.
LEMMA OneSideHeld ==
  ASSUME Inv, NEW side \in Sides, NEW R, RestingOrders(Levels(side)') = R,
         \A other \in Sides \ {side} : Levels(other)' = Levels(other),
         NEW u \in Users, OwnMargin(u, R) \in Nat
  PROVE  Held(u)' = Held(u) - OwnMargin(u, RestingOrders(Levels(side))) + OwnMargin(u, R)
<1>1. Levels("Bid") = bids /\ Levels("Ask") = asks /\ Levels("Bid")' = bids' /\ Levels("Ask")' = asks'
  BY DEF Levels
<1>2. Sides = {"Bid", "Ask"}
  BY DEF Sides
<1>3. /\ OwnMargin(u, RestingOrders(bids)) \in Nat
      /\ OwnMargin(u, RestingOrders(asks)) \in Nat
  BY <1>1, <1>2, HeldType
<1>4. Held(u)' = OwnMargin(u, RestingOrders(bids')) + OwnMargin(u, RestingOrders(asks'))
  BY DEF Held, OwnMargin, MarginOf, RestingOrders
<1>5. CASE side = "Bid"
  <2>1. RestingOrders(bids') = R /\ asks' = asks
    BY <1>1, <1>2, <1>5
  <2> QED
    BY <1>1, <1>3, <1>4, <1>5, <2>1 DEF Held
<1>6. CASE side = "Ask"
  <2>1. RestingOrders(asks') = R /\ bids' = bids
    BY <1>1, <1>2, <1>6
  <2> QED
    BY <1>1, <1>3, <1>4, <1>6, <2>1 DEF Held
<1> QED
  BY <1>2, <1>5, <1>6

LEMMA SameHeld ==
  ASSUME UNCHANGED <<bids, asks>>, NEW u
  PROVE  Held(u)' = Held(u)
BY DEF Held

LEMMA SameInFlight ==
  ASSUME UNCHANGED taker, NEW u
  PROVE  InFlightMargin(u)' = InFlightMargin(u)
BY DEF InFlightMargin, Idle

\* No user's position carries collateral that is negative, so what is spare is
\* locked.
LEMMA SpareLocked ==
  ASSUME Inv, NEW u \in Users
  PROVE  /\ accounts[u] \in Account /\ accounts[u].bal \in Balance
         /\ Spare(accounts[u]) \in Int /\ Spare(accounts[u]) <= accounts[u].bal.locked
         /\ accounts[u].bal.locked \in Int /\ accounts[u].pos.margin \in Int
<1>1. accounts[u] \in Account
  BY DEF Inv, TypeOK
<1>2. accounts[u].pos.margin >= 0
  BY DEF Inv, PositionsConsistent, PositionConsistent
<1> QED
  BY <1>1, <1>2 DEF Spare, Account, Balance, Position

\* A balance is replaced.
LEMMA NewBalance ==
  ASSUME Inv, NEW user \in Users, NEW b, b.locked \in Int,
         accounts' = [accounts EXCEPT ![user].bal = b]
  PROVE  \A u \in Users :
           Spare(accounts'[u]) = Spare(accounts[u])
                                 + IF u = user THEN b.locked - accounts[u].bal.locked ELSE 0
<1> SUFFICES ASSUME NEW u \in Users
             PROVE  Spare(accounts'[u]) = Spare(accounts[u])
                                 + IF u = user THEN b.locked - accounts[u].bal.locked ELSE 0
  OBVIOUS
<1>1. /\ accounts[u] \in Account /\ Spare(accounts[u]) \in Int
      /\ accounts[u].bal.locked \in Int /\ accounts[u].pos.margin \in Int
  BY SpareLocked
<1>2. accounts \in [Users -> Account]
  BY DEF Inv, TypeOK
<1>3. CASE u = user
  <2>1. accounts'[u].bal = b /\ accounts'[u].pos = accounts[u].pos
    BY <1>1, <1>2, <1>3 DEF Account
  <2> QED
    BY <1>1, <1>3, <2>1 DEF Spare
<1>4. CASE u # user
  <2>1. accounts'[u] = accounts[u]
    BY <1>2, <1>4
  <2> QED
    BY <1>1, <1>4, <2>1
<1> QED
  BY <1>3, <1>4

-----------------------------------------------------------------------------
(* Each action keeps the collateral exact *)

LEMMA InitExact == Init => Exactness
<1> SUFFICES ASSUME Init, NEW u \in Users PROVE ExactFor(u)
  BY DEF Exactness
<1>1. RestingOrders(bids) = {} /\ RestingOrders(asks) = {}
  BY EmptySeq DEF Init, RestingOrders
<1>2. IsFiniteSet({}) /\ OwnMargin(u, {}) = 0
  <2>1. IsFiniteSet({})
    BY FS_EmptySet
  <2> QED
    BY <2>1, OwnMarginType
<1>3. InFlightMargin(u) = 0
  BY DEF Init, InFlightMargin, Idle
<1>4. Spare(accounts[u]) = 0
  BY DEF Init, Spare, NoAccount, NoBalance, NoPosition
<1> QED
  BY <1>1, <1>2, <1>3, <1>4 DEF ExactFor, Held

LEMMA CreditExact ==
  ASSUME Inv, Exactness, NEW user \in Users, NEW amount, CreditUser(user, amount)
  PROVE  Exactness'
<1> DEFINE b == Credit(accounts[user].bal, amount)
<1>1. accounts' = [accounts EXCEPT ![user].bal = b] /\ b.locked = accounts[user].bal.locked
  BY DEF CreditUser, Credit
<1>2. accounts[user].bal.locked \in Int
  BY SpareLocked
<1> HIDE DEF b
<1>3. ASSUME NEW u \in Users PROVE ExactFor(u)'
  <2>1. Spare(accounts'[u]) = Spare(accounts[u])
    <3>1. Spare(accounts'[u]) = Spare(accounts[u])
                                + IF u = user THEN b.locked - accounts[u].bal.locked ELSE 0
      BY <1>1, <1>2, NewBalance
    <3>2. Spare(accounts[u]) \in Int /\ accounts[user].bal.locked \in Int
      BY SpareLocked
    <3> QED
      BY <1>1, <3>1, <3>2
  <2>2. Held(u)' = Held(u) /\ InFlightMargin(u)' = InFlightMargin(u)
    BY SameHeld, SameInFlight DEF CreditUser
  <2> QED
    BY <2>1, <2>2 DEF Exactness, ExactFor, Spare
<1> QED
  BY <1>3 DEF Exactness

LEMMA SameExact ==
  ASSUME Exactness, UNCHANGED <<accounts, bids, asks, taker>>
  PROVE  Exactness'
<1>1. ASSUME NEW u \in Users PROVE ExactFor(u)'
  <2>1. Held(u)' = Held(u) /\ InFlightMargin(u)' = InFlightMargin(u)
    BY SameHeld, SameInFlight
  <2> QED
    BY <2>1 DEF Exactness, ExactFor
<1> QED
  BY <1>1 DEF Exactness

\* The whole margin of an order is locked before the loop.
LEMMA BeginMatchExact ==
  ASSUME NoRounding, Inv, Exactness, NEW o \in OrderInput, BeginMatch(o)
  PROVE  Exactness'
<1> DEFINE user == o.user
           b    == Lock(accounts[user].bal, o.margin)
<1>1. user \in Users /\ o.quantity \in Nat \ {0} /\ o.margin \in Nat
  BY OrderInputType
<1>2. /\ accounts' = [accounts EXCEPT ![user].bal = b]
      /\ b.locked = accounts[user].bal.locked + o.margin
  BY DEF BeginMatch, Lock
<1>3. b.locked \in Int
  BY <1>1, <1>2, SpareLocked
<1>4. /\ taker' = [id |-> orderCount + 1, order |-> o, remaining |-> o.quantity,
                   affected |-> {o.user}, reports |-> <<>>]
      /\ Idle /\ UNCHANGED <<bids, asks>>
  BY DEF BeginMatch
<1>5. orderCount \in Nat
  BY HorizonType
<1>6. MarginShare(o, o.quantity) = o.margin
  <2>1. PICK k \in Nat : o.margin = k * o.quantity /\ \A n \in Nat : MarginShare(o, n) = n * k
    BY SharePerLot
  <2> QED
    BY <1>1, <2>1
<1>7. taker'.order = o /\ taker'.remaining = o.quantity /\ ~Idle'
  <2>1. taker'.id = orderCount + 1 /\ taker'.order = o /\ taker'.remaining = o.quantity
    BY <1>4
  <2> QED
    BY <1>5, <2>1 DEF Idle, NoTaker
<1> HIDE DEF b, user
<1>8. ASSUME NEW u \in Users PROVE ExactFor(u)'
  <2>1. Spare(accounts'[u]) = Spare(accounts[u]) + IF u = user THEN o.margin ELSE 0
    <3>1. Spare(accounts'[u]) = Spare(accounts[u])
                                + IF u = user THEN b.locked - accounts[u].bal.locked ELSE 0
      BY <1>1, <1>2, <1>3, NewBalance
    <3>2. accounts[user].bal.locked \in Int
      BY <1>1, SpareLocked
    <3> QED
      BY <1>1, <1>2, <3>1, <3>2
  <2>2. Held(u)' = Held(u)
    BY <1>4, SameHeld
  <2>3. InFlightMargin(u) = 0 /\ InFlightMargin(u)' = IF u = user THEN o.margin ELSE 0
    BY <1>4, <1>6, <1>7 DEF InFlightMargin, user
  <2>4. Held(u) \in Nat /\ Spare(accounts[u]) = Held(u) + InFlightMargin(u)
    BY HeldType DEF Exactness, ExactFor
  <2>5. Spare(accounts'[u]) = Held(u)' + InFlightMargin(u)'
    BY <1>1, <2>1, <2>2, <2>3, <2>4
  <2> QED
    BY <2>5 DEF ExactFor, Spare
<1> QED
  BY <1>8 DEF Exactness

\* An order that leaves the book takes its collateral along, and gives it back.
LEMMA CancelExact ==
  ASSUME Inv, Exactness, NEW user \in Users, NEW id, NEW side \in Sides, NEW price,
         CancelOrder(user, id, side, price)
  PROVE  Exactness'
<1>1. PICK o \in RestingOrders(Levels(side)) :
        /\ RestingOrders(Levels(side)') = RestingOrders(Levels(side)) \ {o}
        /\ Refunded(user, o)
  BY CancelEffect
<1> DEFINE R == RestingOrders(Levels(side))
<1>2. /\ \A other \in Sides \ {side} : Levels(other)' = Levels(other)
      /\ UNCHANGED taker
  BY CancelEffect
<1>3. IsFiniteSet(R) /\ (\A p \in R : p.margin \in Nat) /\ o.margin \in Nat
  BY SideMarginsGood DEF SideMargins
<1> DEFINE b == Release(accounts[user].bal, o.margin)
           Q == R \ {o}
<1>4. b.locked = accounts[user].bal.locked - o.margin /\ b.locked \in Int
  <2>0. o.user = user
    BY <1>1 DEF Refunded
  <2>1. o.margin <= OwnMargin(user, R) /\ OwnMargin(user, R) \in Nat
    BY <1>3, <2>0, OwnMarginType
  <2>2. /\ OwnMargin(user, R) <= Held(user) /\ Held(user) \in Nat
        /\ InFlightMargin(user) \in Nat
    BY HeldType
  <2>3. Spare(accounts[user]) = Held(user) + InFlightMargin(user)
    BY DEF Exactness, ExactFor
  <2>4. Spare(accounts[user]) <= accounts[user].bal.locked /\ accounts[user].bal.locked \in Int
        /\ accounts[user].bal \in Balance
    BY SpareLocked
  <2> HIDE DEF R
  <2>5. o.margin <= accounts[user].bal.locked
    BY <1>3, <2>1, <2>2, <2>3, <2>4
  <2> QED
    BY <1>3, <2>4, <2>5, ReleaseAll
<1>5. accounts' = [accounts EXCEPT ![user].bal = b]
  BY <1>1 DEF Refunded
<1> HIDE DEF b
<1>6. ASSUME NEW u \in Users PROVE ExactFor(u)'
  <2> DEFINE x == IF u = user THEN o.margin ELSE 0
  <2>1. Spare(accounts'[u]) = Spare(accounts[u]) - x
    <3>1. Spare(accounts'[u]) = Spare(accounts[u])
                                + IF u = user THEN b.locked - accounts[u].bal.locked ELSE 0
      BY <1>4, <1>5, NewBalance
    <3>2. accounts[user].bal.locked \in Int /\ Spare(accounts[u]) \in Int
      BY SpareLocked
    <3> QED
      BY <1>3, <1>4, <3>1, <3>2
  <2>2. OwnMargin(u, Q) = OwnMargin(u, R) - x
    <3>1. o.user = user /\ o \in R
      BY <1>1 DEF Refunded
    <3> HIDE DEF R
    <3>2. OwnMargin(u, R \ {o}) = OwnMargin(u, R) - IF o.user = u THEN o.margin ELSE 0
      BY <1>3, <3>1, OwnMarginWithout
    <3> QED
      BY <3>1, <3>2
  <2>3. OwnMargin(u, R) \in Nat
    BY HeldType
  <2>4. OwnMargin(u, Q) \in Nat
    <3>1. IsFiniteSet(Q) /\ \A p \in Q : p.margin \in Nat
      <4> HIDE DEF R
      <4> QED BY <1>3, FS_RemoveElement
    <3> HIDE DEF Q
    <3> QED
      BY <3>1, OwnMarginType
  <2>5. Held(u)' = Held(u) - OwnMargin(u, R) + OwnMargin(u, Q)
    <3>1. RestingOrders(Levels(side)') = Q
      BY <1>1
    <3> HIDE DEF Q
    <3> QED
      BY <1>2, <2>4, <3>1, OneSideHeld
  <2>6. InFlightMargin(u)' = InFlightMargin(u)
    BY <1>2, SameInFlight
  <2>7. /\ Held(u) \in Nat /\ InFlightMargin(u) \in Nat /\ x \in Nat
        /\ Spare(accounts[u]) = Held(u) + InFlightMargin(u)
    BY <1>3, HeldType DEF Exactness, ExactFor
  <2> HIDE DEF x, R, Q
  <2>8. Spare(accounts'[u]) = Held(u)' + InFlightMargin(u)'
    BY <2>1, <2>2, <2>3, <2>5, <2>6, <2>7
  <2> QED
    BY <2>8 DEF ExactFor, Spare
<1> QED
  BY <1>6 DEF Exactness

\* Marking and liquidating touch the collateral of positions only.
LEMMA IndexPriceExact ==
  ASSUME Inv, Exactness, NEW seq, NEW price \in MarkPrices, IndexPrice(seq, price)
  PROVE  Exactness'
<1>1. price \in Int
  BY InputAssumption
<1>2. UNCHANGED <<bids, asks, taker>>
  BY DEF IndexPrice
<1>3. ASSUME NEW u \in Users PROVE ExactFor(u)'
  <2>1. \/ accounts'[u] = MarkToMarket(accounts[u], price)
        \/ accounts'[u] = Liquidate(accounts[u], price)
    BY DEF IndexPrice
  <2>2. accounts[u] \in Account /\ PositionConsistent(accounts[u].pos)
    BY DEF Inv, TypeOK, PositionsConsistent
  <2>3. Held(u) \in Nat /\ InFlightMargin(u) \in Nat
    BY HeldType
  <2>4. Spare(accounts[u]) = Held(u) + InFlightMargin(u)
    BY DEF Exactness, ExactFor
  <2>5. Spare(accounts[u]) >= 0
    BY <2>3, <2>4
  <2>6. Spare(accounts'[u]) = Spare(accounts[u])
    BY <1>1, <2>1, <2>2, <2>5, MarkSpare
  <2>7. Held(u)' = Held(u) /\ InFlightMargin(u)' = InFlightMargin(u)
    BY <1>2, SameHeld, SameInFlight
  <2>8. Spare(accounts'[u]) = Held(u)' + InFlightMargin(u)'
    BY <2>4, <2>6, <2>7
  <2> QED
    BY <2>8 DEF ExactFor, Spare
<1> QED
  BY <1>3 DEF Exactness

\* What is left of the taker rests with its share, or gives it back.
LEMMA EndMatchExact ==
  ASSUME NoRounding, Inv, Exactness, EndMatch
  PROVE  Exactness'
<1> DEFINE o    == taker.order
           user == o.user
           n    == taker.remaining
           left == MarginShare(o, n)
<1>1. ~Idle
  BY DEF EndMatch
<1>0. PICK side \in Sides : side = o.side
  BY <1>1, TakerSides
<1> DEFINE R == RestingOrders(Levels(side))
<1>2. o \in OrderInput /\ n \in Nat /\ n <= o.quantity /\ Horizon = orderCount /\ taker.id = orderCount
  BY <1>1, TakerGood
<1>3. user \in Users
  BY <1>2, OrderInputType
<1>4. left \in Nat
  BY <1>2, MarginShareType
<1>5. IsFiniteSet(R) /\ \A p \in R : p.margin \in Nat
  BY <1>3, SideMarginsGood DEF SideMargins
<1>6. taker' = NoTaker
  BY DEF EndMatch
<1>7. ASSUME NEW u \in Users
      PROVE  InFlightMargin(u) = (IF u = user THEN left ELSE 0) /\ InFlightMargin(u)' = 0
  BY <1>1, <1>6 DEF InFlightMargin, Idle
<1>8. ASSUME NEW u \in Users
      PROVE  /\ Held(u) \in Nat /\ Spare(accounts[u]) \in Int
             /\ Spare(accounts[u]) = Held(u) + IF u = user THEN left ELSE 0
  BY <1>7, HeldType, SpareLocked DEF Exactness, ExactFor
<1>9. CASE o.type = "LIMIT" /\ n > 0
  <2>1. PICK rest \in Older(orderCount + 1) :
          /\ rest.id = taker.id /\ rest.user = taker.order.user
          /\ rest.margin = MarginShare(taker.order, taker.remaining)
          /\ RestingOrders(Levels(side)') = RestingOrders(Levels(side)) \cup {rest}
    BY <1>0, <1>9, EndMatchEffect
  <2>2. /\ \A other \in Sides \ {side} : Levels(other)' = Levels(other)
        /\ UNCHANGED accounts
    <3>1. \A other \in Sides \ {side} : Levels(other)' = Levels(other)
      BY <1>0, <1>9, EndMatchEffect
    <3>2. UNCHANGED accounts
      BY <1>9 DEF EndMatch
    <3> QED
      BY <3>1, <3>2
  <2>3. rest \notin R
    <3>1. /\ Levels(side) \in LevelsOf(Prices, Older(Horizon)) /\ LevelsWellFormed(side, Levels(side))
          /\ Prices \in SUBSET Int
      BY <1>3, SideGood, InputAssumption
    <3>2. \A p \in R : p \in Older(Horizon)
      BY <3>1, RestingApart
    <3>3. \A p \in R : p.id \in Nat /\ p.id < Horizon
      BY <3>2 DEF Older, RestingOrder
    <3>4. orderCount \in Nat
      BY HorizonType
    <3> QED
      BY <1>2, <2>1, <3>3, <3>4
  <2> DEFINE Q == R \cup {rest}
  <2>4. ASSUME NEW u \in Users PROVE ExactFor(u)'
    <3> DEFINE x == IF u = user THEN left ELSE 0
    <3>1. OwnMargin(u, R) \in Nat
      BY <1>3, HeldType
    <3>2. OwnMargin(u, Q) = OwnMargin(u, R) + x
      <4>1. rest.margin \in Nat
        BY <1>4, <2>1
      <4>2. OwnMargin(u, Q) = OwnMargin(u, R) + IF rest.user = u THEN rest.margin ELSE 0
        <5> HIDE DEF R
        <5> QED BY <1>5, <2>3, <4>1, OwnMarginWith
      <4>3. rest.user = user /\ rest.margin = left
        BY <2>1
      <4> HIDE DEF Q, R, left, user
      <4> QED
        BY <4>2, <4>3
    <3>3. x \in Nat
      BY <1>4
    <3>4. Held(u)' = Held(u) - OwnMargin(u, R) + OwnMargin(u, Q)
      <4>1. RestingOrders(Levels(side)') = Q
        BY <2>1
      <4>2. OwnMargin(u, Q) \in Nat
        BY <3>1, <3>2, <3>3
      <4> HIDE DEF Q
      <4> QED
        BY <1>3, <2>2, <4>1, <4>2, OneSideHeld
    <3>5. InFlightMargin(u)' = 0 /\ accounts'[u] = accounts[u]
      BY <1>7, <2>2
    <3>6. Held(u) \in Nat /\ Spare(accounts[u]) = Held(u) + x
      BY <1>8
    <3> HIDE DEF x, Q, R
    <3>7. Spare(accounts'[u]) = Held(u)' + InFlightMargin(u)'
      BY <3>1, <3>2, <3>3, <3>4, <3>5, <3>6
    <3> QED
      BY <3>7 DEF ExactFor, Spare
  <2> QED
    BY <2>4 DEF Exactness
<1>10. CASE ~(o.type = "LIMIT" /\ n > 0)
  <2>1. UNCHANGED <<bids, asks>>
    BY <1>0, <1>10, EndMatchEffect
  <2>2. CASE n > 0
    <3> DEFINE b == Release(accounts[user].bal, left)
    <3>1. accounts' = [accounts EXCEPT ![user].bal = b]
      BY <1>10, <2>2 DEF EndMatch
    <3>2. b.locked = accounts[user].bal.locked - left /\ b.locked \in Int
      <4>1. Spare(accounts[user]) = Held(user) + left /\ Held(user) \in Nat
        BY <1>3, <1>8
      <4>2. Spare(accounts[user]) <= accounts[user].bal.locked /\ accounts[user].bal.locked \in Int
            /\ accounts[user].bal \in Balance
        BY <1>3, SpareLocked
      <4> HIDE DEF left, user
      <4>3. left <= accounts[user].bal.locked
        BY <1>4, <4>1, <4>2
      <4> QED
        BY <1>4, <4>2, <4>3, ReleaseAll
    <3> HIDE DEF b
    <3>3. ASSUME NEW u \in Users PROVE ExactFor(u)'
      <4>1. Spare(accounts'[u]) = Spare(accounts[u]) - IF u = user THEN left ELSE 0
        <5> HIDE DEF left, user
        <5>1. Spare(accounts'[u]) = Spare(accounts[u])
                                    + IF u = user THEN b.locked - accounts[u].bal.locked ELSE 0
          BY <1>3, <3>1, <3>2, NewBalance
        <5>2. accounts[user].bal.locked \in Int /\ Spare(accounts[u]) \in Int
          BY <1>3, SpareLocked
        <5> QED
          BY <1>4, <3>2, <5>1, <5>2
      <4>2. Held(u)' = Held(u) /\ InFlightMargin(u)' = 0
        BY <1>7, <2>1, SameHeld
      <4>3. /\ Held(u) \in Nat /\ Spare(accounts[u]) \in Int
            /\ Spare(accounts[u]) = Held(u) + IF u = user THEN left ELSE 0
        BY <1>8
      <4> HIDE DEF left, user
      <4>4. Spare(accounts'[u]) = Held(u)' + InFlightMargin(u)'
        BY <1>4, <4>1, <4>2, <4>3
      <4> QED
        BY <4>4 DEF ExactFor, Spare
    <3> QED
      BY <3>3 DEF Exactness
  <2>3. CASE n = 0
    <3>1. UNCHANGED accounts
      BY <2>3 DEF EndMatch
    <3>2. left = 0
      <4>1. PICK k \in Nat : \A i \in Nat : MarginShare(o, i) = i * k
        BY <1>2, SharePerLot
      <4> QED
        BY <2>3, <4>1
    <3>3. ASSUME NEW u \in Users PROVE ExactFor(u)'
      <4>1. Held(u)' = Held(u) /\ InFlightMargin(u)' = 0
        BY <1>7, <2>1, SameHeld
      <4>2. Held(u) \in Nat /\ Spare(accounts[u]) = Held(u)
        BY <1>8, <3>2
      <4>3. Spare(accounts'[u]) = Held(u)' + InFlightMargin(u)'
        BY <3>1, <4>1, <4>2
      <4> QED
        BY <4>3 DEF ExactFor, Spare
    <3> QED
      BY <3>3 DEF Exactness
  <2> QED
    BY <1>2, <2>2, <2>3
<1> QED
  BY <1>9, <1>10

\* The maker's share leaves the collateral of the book.
LEMMA FillMargins ==
  ASSUME MatchInv, Fill, NEW side \in Sides, NEW maker \in RestingOrders(Levels(side)),
         NEW after, NEW made, NEW quantity, NEW part,
         Filled(side, maker, after), Legs(maker, after, made, quantity, part), NEW u \in Users
  PROVE  /\ Held(u)' = Held(u) - IF u = maker.user THEN part ELSE 0
         /\ maker.margin \in Nat
         /\ u = maker.user => maker.margin <= Held(u)
<1> DEFINE R == RestingOrders(Levels(side))
           S == R \ {maker}
           Q == S \cup {o \in {after} : o.remaining > 0}
           x == IF maker.user = u THEN maker.margin ELSE 0
           y == IF maker.user = u THEN maker.margin - part ELSE 0
<1>1. Inv /\ \A o \in R : o.id = maker.id => o = maker
  BY DEF MatchInv, IdsApart
<1>2. IsFiniteSet(R) /\ \A o \in R : o.margin \in Nat
  BY <1>1, SideMarginsGood DEF SideMargins
<1>3. maker \in R /\ maker.margin \in Nat
  BY <1>2
<1>4. /\ quantity = Least(taker.remaining, maker.remaining) /\ quantity \in Nat \ {0}
      /\ part = RoundDiv(quantity * maker.margin, maker.remaining)
      /\ part \in Nat /\ part <= maker.margin /\ after.margin = maker.margin - part
  BY DEF Legs
<1>5. /\ after.id = maker.id /\ after.user = maker.user
      /\ after.remaining = maker.remaining - quantity /\ after.remaining \in Nat
      /\ RestingOrders(Levels(side)') = Q
      /\ \A other \in Sides \ {side} : Levels(other)' = Levels(other)
  BY <1>4 DEF Filled
<1>6. maker.remaining \in Nat \ {0}
  <2>1. /\ Levels(side) \in LevelsOf(Prices, Older(Horizon)) /\ LevelsWellFormed(side, Levels(side))
        /\ Prices \in SUBSET Int
    BY <1>1, SideGood, InputAssumption
  <2>2. maker \in Older(Horizon)
    BY <2>1, RestingApart
  <2> QED
    BY <2>2 DEF Older, RestingOrder
<1>7. /\ OwnMargin(u, R) \in Nat /\ OwnMargin(u, R) <= Held(u) /\ Held(u) \in Nat
  BY <1>1, HeldType
<1> HIDE DEF R
<1>8. IsFiniteSet(S) /\ (\A o \in S : o.margin \in Nat) /\ after \notin S
  <2>1. IsFiniteSet(S) /\ \A o \in S : o.margin \in Nat
    BY <1>2, FS_RemoveElement
  <2>2. after \notin S
    BY <1>1, <1>5
  <2> QED
    BY <2>1, <2>2
<1>9. OwnMargin(u, S) = OwnMargin(u, R) - x
  BY <1>2, <1>3, OwnMarginWithout
<1>10. u = maker.user => maker.margin <= OwnMargin(u, R)
  BY <1>2, <1>3, OwnMarginType
<1> HIDE DEF S
<1>11. OwnMargin(u, Q) = OwnMargin(u, R) - x + y
  <2>1. CASE after.remaining > 0
    <3>1. Q = S \cup {after}
      BY <2>1
    <3>2. after.margin \in Nat
      BY <1>3, <1>4
    <3>3. OwnMargin(u, S \cup {after}) = OwnMargin(u, S) + IF after.user = u THEN after.margin ELSE 0
      BY <1>8, <3>2, OwnMarginWith
    <3>4. (IF after.user = u THEN after.margin ELSE 0) = y
      BY <1>4, <1>5
    <3> HIDE DEF Q, y, x
    <3> QED
      BY <1>9, <3>1, <3>3, <3>4
  <2>2. CASE after.remaining = 0
    <3>1. Q = S
      BY <2>2
    <3>2. quantity = maker.remaining
      BY <1>4, <1>5, <1>6, <2>2
    <3>3. part = maker.margin
      BY <1>3, <1>4, <1>6, <3>2, RoundDivWhole
    <3>4. y = 0
      BY <1>3, <3>3
    <3>5. x \in Nat
      BY <1>3
    <3> HIDE DEF Q, y, x
    <3> QED
      BY <1>7, <1>9, <3>1, <3>4, <3>5
  <2> QED
    BY <1>5, <2>1, <2>2
<1>12. OwnMargin(u, Q) \in Nat
  <2>1. CASE maker.user = u
    BY <1>3, <1>4, <1>7, <1>10, <1>11, <2>1
  <2>2. CASE maker.user # u
    BY <1>7, <1>11, <2>2
  <2> QED
    BY <2>1, <2>2
<1>13. Held(u)' = Held(u) - OwnMargin(u, R) + OwnMargin(u, Q)
  <2> HIDE DEF Q
  <2> QED
    BY <1>1, <1>5, <1>12, OneSideHeld DEF R
<1> HIDE DEF Q
<1>14. Held(u)' = Held(u) - IF u = maker.user THEN part ELSE 0
  <2>1. CASE maker.user = u
    BY <1>3, <1>4, <1>7, <1>11, <1>13, <2>1
  <2>2. CASE maker.user # u
    BY <1>7, <1>11, <1>13, <2>2
  <2> QED
    BY <2>1, <2>2
<1> QED
  BY <1>3, <1>7, <1>10, <1>14

\* Each leg uses up exactly the collateral that its order gives up.
LEMMA FillExact ==
  ASSUME NoRounding, MatchInv, Exactness, Fill
  PROVE  Exactness'
<1>1. Inv /\ ~Idle /\ taker.remaining > 0
  BY DEF MatchInv, Fill, CanFill
<1>2. PICK side \in Sides : side = Opposite(taker.order.side)
  BY <1>1, TakerSides
<1>3. PICK maker \in RestingOrders(Levels(side)) : \E after, made, quantity, part :
        Filled(side, maker, after) /\ Legs(maker, after, made, quantity, part)
  BY <1>1, <1>2, FillLegs
<1>4. PICK after, made, quantity, part :
        Filled(side, maker, after) /\ Legs(maker, after, made, quantity, part)
  BY <1>3
<1>5. PICK t : t = taker.order.user
  OBVIOUS
<1>6. PICK o \in OrderInput : o = taker.order
  BY <1>1, TakerGood
<1>7. PICK n \in Nat : n = taker.remaining
  BY <1>1, TakerGood
<1> DEFINE m      == maker.user
           share  == MarginShare(o, quantity)
           left   == MarginShare(o, n - quantity)
           whole  == MarginShare(o, n)
           price  == maker.price
           signed == Signed(maker.side, quantity)
<1>8. /\ m \in Users /\ t \in Users
      /\ quantity \in Nat \ {0} /\ quantity = Least(n, maker.remaining)
      /\ part \in Nat /\ part <= maker.margin
      /\ made \in [Users -> Account] /\ accounts' \in [Users -> Account]
      /\ \A u \in Users \ {m} : made[u] = accounts[u]
      /\ \A u \in Users \ {t} : accounts'[u] = made[u]
      /\ LegResult(accounts[m], made[m], signed, price, part)
      /\ LegResult(made[t], accounts'[t], -signed, price, share)
  BY <1>4, <1>5, <1>6, <1>7 DEF Legs
<1> HIDE DEF m, signed, price
<1>9. \A u \in Users : /\ Held(u)' = Held(u) - IF u = m THEN part ELSE 0
                       /\ maker.margin \in Nat
                       /\ u = m => maker.margin <= Held(u)
  BY <1>4, FillMargins DEF m
<1>10. quantity <= n
  <2>1. maker.remaining \in Nat
    <3>1. /\ Levels(side) \in LevelsOf(Prices, Older(Horizon)) /\ LevelsWellFormed(side, Levels(side))
          /\ Prices \in SUBSET Int
      BY <1>1, SideGood, InputAssumption
    <3>2. maker \in Older(Horizon)
      BY <3>1, RestingApart
    <3> QED
      BY <3>2 DEF Older, RestingOrder
  <2> QED
    BY <1>8, <2>1 DEF Least
<1>11. share \in Nat /\ left \in Nat /\ whole = share + left
  <2>1. PICK k \in Nat : \A i \in Nat : MarginShare(o, i) = i * k
    BY SharePerLot
  <2>2. n - quantity \in Nat /\ quantity \in Nat
    BY <1>8, <1>10
  <2>3. share = quantity * k /\ left = (n - quantity) * k /\ whole = n * k
    BY <2>1, <2>2
  <2>4. quantity * k \in Nat /\ (n - quantity) * k \in Nat
        /\ n * k = quantity * k + (n - quantity) * k
    BY <2>2
  <2> QED
    BY <2>3, <2>4
<1>12. ASSUME NEW u \in Users
       PROVE  /\ InFlightMargin(u) = (IF u = t THEN whole ELSE 0)
              /\ InFlightMargin(u)' = (IF u = t THEN left ELSE 0)
  <2>1. InFlightMargin(u) = IF u = t THEN whole ELSE 0
    BY <1>1, <1>5, <1>6, <1>7 DEF InFlightMargin
  <2>2. /\ taker' = [taker EXCEPT !.remaining = @ - quantity,
                                  !.affected = @ \cup {maker.user},
                                  !.reports = Append(@, MakerReport(maker, quantity))]
        /\ taker \in TakerState /\ taker.id = orderCount /\ orderCount \in Nat \ {0}
    BY <1>1, <1>4, <1>7, <1>8, TakerGood DEF Filled
  <2>3. taker'.id = taker.id /\ taker'.order = o /\ taker'.remaining = n - quantity
    BY <1>6, <1>7, <2>2 DEF TakerState
  <2>4. ~Idle'
    BY <2>2, <2>3 DEF Idle, NoTaker
  <2>5. InFlightMargin(u)' = IF u = t THEN left ELSE 0
    BY <1>5, <1>6, <2>3, <2>4 DEF InFlightMargin
  <2> QED
    BY <2>1, <2>5
<1> HIDE DEF share, left, whole
<1>13. \A u \in Users : /\ Held(u) \in Nat /\ Spare(accounts[u]) \in Int
                        /\ Spare(accounts[u]) = Held(u) + IF u = t THEN whole ELSE 0
  BY <1>1, <1>12, HeldType, SpareLocked DEF Exactness, ExactFor
<1>14. part <= Spare(accounts[m])
  BY <1>8, <1>9, <1>11, <1>13
<1>15. Spare(made[m]) = Spare(accounts[m]) - part
  BY <1>8, <1>14 DEF LegResult
<1>16. \A u \in Users : Spare(made[u]) = Spare(accounts[u]) - IF u = m THEN part ELSE 0
  <2> SUFFICES ASSUME NEW u \in Users
               PROVE  Spare(made[u]) = Spare(accounts[u]) - IF u = m THEN part ELSE 0
    OBVIOUS
  <2>1. CASE u = m
    BY <1>15, <2>1
  <2>2. CASE u # m
    <3>1. made[u] = accounts[u]
      BY <1>8, <2>2
    <3> QED
      BY <1>13, <2>2, <3>1
  <2> QED
    BY <2>1, <2>2
<1>17. share <= Spare(made[t])
  <2>1. /\ Spare(accounts[t]) = Held(t) + whole /\ Held(t) \in Nat
        /\ t = m => maker.margin <= Held(t)
        /\ Spare(made[t]) = Spare(accounts[t]) - IF t = m THEN part ELSE 0
        /\ maker.margin \in Nat
    BY <1>8, <1>9, <1>13, <1>16
  <2>2. CASE t = m
    BY <1>8, <1>11, <2>1, <2>2
  <2>3. CASE t # m
    BY <1>11, <2>1, <2>3
  <2> QED
    BY <2>2, <2>3
<1>18. Spare(accounts'[t]) = Spare(made[t]) - share
  BY <1>8, <1>17 DEF LegResult
<1>19. ASSUME NEW u \in Users PROVE ExactFor(u)'
  <2> DEFINE x == IF u = m THEN part ELSE 0
             y == IF u = t THEN share ELSE 0
  <2>1. Spare(made[u]) = Spare(accounts[u]) - x
    BY <1>16
  <2>2. Spare(accounts'[u]) = Spare(made[u]) - y
    <3>1. CASE u = t
      BY <1>18, <3>1
    <3>2. CASE u # t
      <4>1. accounts'[u] = made[u]
        BY <1>8, <3>2
      <4>2. Spare(made[u]) \in Int
        BY <1>8, <1>13, <2>1
      <4> QED
        BY <3>2, <4>1, <4>2
    <3> QED
      BY <3>1, <3>2
  <2>3. Held(u)' = Held(u) - x
    BY <1>9
  <2>4. InFlightMargin(u) = InFlightMargin(u)' + y /\ InFlightMargin(u)' \in Nat
    BY <1>11, <1>12
  <2>5. /\ Held(u) \in Nat /\ Spare(accounts[u]) = Held(u) + InFlightMargin(u)
        /\ x \in Nat /\ y \in Nat
    BY <1>8, <1>11, <1>12, <1>13
  <2> HIDE DEF x, y
  <2>6. Spare(accounts'[u]) = Held(u)' + InFlightMargin(u)'
    BY <2>1, <2>2, <2>3, <2>4, <2>5
  <2> QED
    BY <2>6 DEF ExactFor, Spare
<1> QED
  BY <1>19 DEF Exactness

LEMMA NextExact ==
  ASSUME NoRounding, MatchInv, Exactness, [Next]_vars
  PROVE  Exactness'
<1>1. Inv
  BY DEF MatchInv
<1>2. ASSUME NEW user \in Users, NEW amount, CreditUser(user, amount) PROVE Exactness'
  BY <1>1, <1>2, CreditExact
<1>3. ASSUME NEW o, RejectOrder(o) PROVE Exactness'
  BY <1>3, SameExact DEF RejectOrder
<1>4. ASSUME NEW o \in OrderInput, BeginMatch(o) PROVE Exactness'
  BY <1>1, <1>4, BeginMatchExact
<1>5. CASE Fill
  BY <1>5, FillExact
<1>6. CASE EndMatch
  BY <1>1, <1>6, EndMatchExact
<1>7. ASSUME NEW user \in Users, NEW id, NEW side \in Sides, NEW price,
             CancelOrder(user, id, side, price)
      PROVE  Exactness'
  BY <1>1, <1>7, CancelExact
<1>8. ASSUME NEW user, NEW id, NEW side, NEW price, RejectCancel(user, id, side, price)
      PROVE  Exactness'
  BY <1>8, SameExact DEF RejectCancel
<1>9. ASSUME NEW seq, DropIndexPrice(seq) PROVE Exactness'
  BY <1>9, SameExact DEF DropIndexPrice
<1>10. ASSUME NEW seq, NEW price \in MarkPrices, IndexPrice(seq, price) PROVE Exactness'
  BY <1>1, <1>10, IndexPriceExact
<1>11. CASE UNCHANGED vars
  BY <1>11, SameExact DEF vars
<1> QED
  BY <1>2, <1>3, <1>4, <1>5, <1>6, <1>7, <1>8, <1>9, <1>10, <1>11 DEF Next, Match

\* What a user has locked is exactly the collateral of their position, of
\* their resting orders and of their order in flight, provided that no margin
\* has to be rounded: no path through lock, applyFill, release and cancel
\* forgets to give collateral back or gives it back twice.
THEOREM CollateralAlwaysExact == NoRounding => (Spec => []CollateralExact)
<1> SUFFICES ASSUME NoRounding
             PROVE  Spec => []CollateralExact
  OBVIOUS
<1>1. Init => MatchInv /\ Exactness
  BY InitMatchInv, InitExact
<1>2. MatchInv /\ Exactness /\ [Next]_vars => MatchInv' /\ Exactness'
  BY NextMatchInv, NextExact
<1>3. MatchInv /\ Exactness => CollateralExact
  BY ExactForAll DEF MatchInv, Exactness
<1> QED
  BY <1>1, <1>2, <1>3, PTL DEF Spec
=============================================================================
