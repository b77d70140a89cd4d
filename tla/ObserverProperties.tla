------------------------- MODULE ObserverProperties -------------------------
(***************************************************************************)
(* What the engine and the API may rely on about index prices.             *)
(***************************************************************************)
EXTENDS Observer

ObserverTypeOK ==
  /\ ticks \in 0..MaxTicks /\ time \in 0..MaxTime
  /\ link \in {"connecting", "open", "waiting"} /\ quiet \in BOOLEAN
  /\ lastSeq \in Nat /\ used \in Nat /\ lastObserverSeq \in Nat
  /\ log \in Seq(Price)
  /\ calls \in Seq(Call) /\ replies \in Seq(Price)
  /\ quote \in 0..MaxTicks /\ mark \in 0..MaxTicks
  /\ delivered \in 0..Len(log) /\ late \subseteq 1..Len(log)

\* The engine never goes back to an older price, although entries reach it late,
\* out of order and again, and lost calls leave gaps in the log.
MarkNeverGoesBack == [][mark' >= mark]_vars

Holds(entries, tick) == \E i \in DOMAIN entries : entries[i].tick = tick

\* The price that the API quotes is one that is in the engine's log: an order
\* that is placed because of it meets an engine that has it before it in its
\* input, even if the observer died or lost its connection between the two
\* writes.
QuoteIsLogged == quote = 0 \/ Holds(log, quote)

\* What is set, or will be when an XADD has returned, is in the log.
QuoteInv ==
  /\ QuoteIsLogged
  /\ \A i \in DOMAIN replies : Holds(log, replies[i].tick)
  /\ \A i \in DOMAIN calls : calls[i].kind = "set" => Holds(log, calls[i].price.tick)

Before(price, other) == price.tick < other.tick /\ price.seq < other.seq

\* The prices of the log, and after them those that are on their way to it, have
\* increasing numbers, none beyond those that were given out.
OrderInv ==
  /\ lastSeq \in {0, used}
  /\ \A i \in DOMAIN log : log[i].tick <= ticks /\ log[i].seq <= used
  /\ \A i, j \in DOMAIN log : i < j => Before(log[i], log[j])
  /\ \A j \in DOMAIN calls : calls[j].kind = "add" =>
       /\ calls[j].price.tick <= ticks /\ calls[j].price.seq <= used
       /\ \A i \in DOMAIN log : Before(log[i], calls[j].price)
       /\ \A i \in DOMAIN calls :
            i < j /\ calls[i].kind = "add" => Before(calls[i].price, calls[j].price)

\* The engine's price is that of the log entry whose number it remembers.
MarkInv ==
  \/ mark = 0 /\ lastObserverSeq = 0
  \/ \E i \in DOMAIN log : log[i].tick = mark /\ log[i].seq = lastObserverSeq

\* The inductive invariant.
Inv ==
  /\ ObserverTypeOK
  /\ QuoteInv
  /\ LateRestarts => OrderInv
  /\ MarkInv

\* Every price in the log reaches the engine, or a newer one does: none is
\* dropped in favour of an older one.
MarkFollows ==
  \A i \in 1..MaxTicks : i \in DOMAIN log ~> i \in DOMAIN log /\ mark >= log[i].tick
=============================================================================
