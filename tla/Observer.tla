------------------------------ MODULE Observer ------------------------------
(***************************************************************************)
(* The index price observer, apps/index-price-observer/src: prices of      *)
(* Binance on their way into the engine's input log and into the redis key *)
(* index_price, from which the API quotes (utils/priceClient.ts); and what *)
(* the engine makes of them, onIndexPrice of packages/domain/engine.ts,    *)
(* behind a consumer that may deliver an entry late or again.              *)
(*                                                                         *)
(* A price is the number of its tick: ticks are numbered as they come.     *)
(***************************************************************************)
EXTENDS Naturals, Sequences, FiniteSetsExt, SequencesExt

CONSTANTS
  LateRestarts,   \* whether a restart takes longer than the observer was ahead of Binance's clock
  MaxTicks,       \* bound: ticks that the observer receives
  MaxTime,        \* bound: Binance's event times
  MaxRestarts,    \* bound: restarts of the observer
  MaxLate         \* bound: entries whose delivery to the engine is put off

ASSUME ObserverAssumption ==
  /\ LateRestarts \in BOOLEAN
  /\ {MaxTicks, MaxTime, MaxRestarts, MaxLate} \subseteq Nat

VARIABLES
  ticks,       \* number of ticks received
  time,        \* event time of the last one
  link,        \* the connection to Binance
  quiet,       \* the last emission is less than minIntervalMs ago
  lastSeq,     \* lastSeq
  calls,       \* calls on the redis connection that have not been executed
  replies,     \* prices whose XADD was executed and has not returned
  log,         \* the index prices in stream:engine:input
  quote,       \* the key index_price: a tick, 0 for none
  delivered,   \* number of entries delivered to the engine
  late,        \* delivered entries that it has not handled
  mark,        \* the engine's markPrice: a tick, 0 for none
  lastObserverSeq,   \* (0 for the -1 of the code: no price has a smaller number than 1)
  used,        \* history: the greatest sequence number given to a tick
  restarts     \* history: number of restarts

binanceVars == <<ticks, time, link>>
observerVars == <<quiet, lastSeq, used>>
redisVars == <<calls, replies, log, quote>>
engineVars == <<delivered, late, mark, lastObserverSeq>>

vars == <<binanceVars, observerVars, redisVars, engineVars, restarts>>

Price == [tick : 1..MaxTicks, seq : Nat]

Call == [kind : {"add", "set"}, price : Price]

Init ==
  /\ ticks = 0 /\ time = 0 /\ link = "connecting"
  /\ quiet = FALSE /\ lastSeq = 0 /\ used = 0
  /\ calls = <<>> /\ replies = <<>> /\ log = <<>> /\ quote = 0
  /\ delivered = 0 /\ late = {} /\ mark = 0 /\ lastObserverSeq = 0
  /\ restarts = 0

-----------------------------------------------------------------------------
(* connectBinance *)

Connect ==
  /\ link = "connecting"
  /\ link' = "open"
  /\ UNCHANGED <<ticks, time, observerVars, redisVars, engineVars, restarts>>

\* Closed or failed: the next attempt is made after the backoff.
Disconnect ==
  /\ link # "waiting"
  /\ link' = "waiting"
  /\ UNCHANGED <<ticks, time, observerVars, redisVars, engineVars, restarts>>

BackoffEnds ==
  /\ link = "waiting"
  /\ link' = "connecting"
  /\ UNCHANGED <<ticks, time, observerVars, redisVars, engineVars, restarts>>

-----------------------------------------------------------------------------
(* The callback of connectBinance in main() *)

Add(price) == [kind |-> "add", price |-> price]
Set(price) == [kind |-> "set", price |-> price]

\* Faulty: ties are not nudged forward.
SeqOfTime(eventTime) == eventTime

ObserverSeq(eventTime) == IF eventTime > lastSeq THEN eventTime ELSE lastSeq + 1

\* Faulty: the key is set without waiting for the XADD.
EmitBoth(price) == <<Set(price), Add(price)>>

Emit(price) == <<Add(price)>>

\* The event times of a connection, and of the one after it, do not decrease.
NewTick(eventTime) ==
  /\ link = "open"
  /\ ticks < MaxTicks
  /\ eventTime >= time
  /\ ticks' = ticks + 1
  /\ time' = eventTime

\* A tick that the throttle drops, or whose price is not a positive number.
Drop(eventTime) ==
  /\ NewTick(eventTime)
  /\ UNCHANGED <<link, observerVars, redisVars, engineVars, restarts>>

\* A tick that is emitted; nobody waits for the XADD.
OnTick(eventTime) ==
  /\ NewTick(eventTime)
  /\ ~quiet
  /\ LateRestarts /\ lastSeq = 0 => eventTime > used
  /\ quiet' = TRUE
  /\ lastSeq' = ObserverSeq(eventTime)
  /\ used' = IF lastSeq' > used THEN lastSeq' ELSE used
  /\ calls' = calls \o Emit([tick |-> ticks', seq |-> lastSeq'])
  /\ UNCHANGED <<link, replies, log, quote, engineVars, restarts>>

IntervalPasses ==
  /\ quiet
  /\ quiet' = FALSE
  /\ UNCHANGED <<binanceVars, lastSeq, used, redisVars, engineVars, restarts>>

-----------------------------------------------------------------------------
(* Redis executes the calls of a connection in turn, and they return in turn *)

ExecuteAdd ==
  /\ calls # <<>> /\ Head(calls).kind = "add"
  /\ calls' = Tail(calls)
  /\ log' = Append(log, Head(calls).price)
  /\ replies' = Append(replies, Head(calls).price)
  /\ UNCHANGED <<binanceVars, observerVars, quote, engineVars, restarts>>

\* The XADD returns: the price is set.
AddReturns ==
  /\ replies # <<>>
  /\ replies' = Tail(replies)
  /\ calls' = Append(calls, Set(Head(replies)))
  /\ UNCHANGED <<binanceVars, observerVars, log, quote, engineVars, restarts>>

ExecuteSet ==
  /\ calls # <<>> /\ Head(calls).kind = "set"
  /\ calls' = Tail(calls)
  /\ quote' = Head(calls).price.tick
  /\ UNCHANGED <<binanceVars, observerVars, replies, log, engineVars, restarts>>

\* The connection is lost: what has not returned is rejected and logged.
LoseRedis ==
  /\ calls \o replies # <<>>
  /\ calls' = <<>> /\ replies' = <<>>
  /\ UNCHANGED <<binanceVars, observerVars, log, quote, engineVars, restarts>>

\* The observer dies and is started again: main(), with new variables.
Restart ==
  /\ restarts < MaxRestarts
  /\ restarts' = restarts + 1
  /\ link' = "connecting"
  /\ quiet' = FALSE /\ lastSeq' = 0
  /\ calls' = <<>> /\ replies' = <<>>
  /\ UNCHANGED <<ticks, time, used, log, quote, engineVars>>

-----------------------------------------------------------------------------
(* The engine *)

\* Faulty: every price is taken for a new one.
NotStale(seq) == FALSE

Stale(seq) == seq <= lastObserverSeq

\* onIndexPrice
Handle(i) ==
  IF Stale(log[i].seq)
  THEN UNCHANGED <<mark, lastObserverSeq>>
  ELSE mark' = log[i].tick /\ lastObserverSeq' = log[i].seq

\* The next entry, or one that was put off, or one once more.
Deliver(i) ==
  /\ i <= delivered + 1
  /\ Handle(i)
  /\ delivered' = IF i > delivered THEN i ELSE delivered
  /\ late' = late \ {i}
  /\ UNCHANGED <<binanceVars, observerVars, redisVars, restarts>>

\* The reply of the XREADGROUP is lost: the entry stays pending for a while.
PutOff ==
  /\ delivered < Len(log)
  /\ Cardinality(late) < MaxLate
  /\ delivered' = delivered + 1
  /\ late' = late \cup {delivered + 1}
  /\ UNCHANGED <<binanceVars, observerVars, redisVars, mark, lastObserverSeq, restarts>>

-----------------------------------------------------------------------------

Next ==
  \/ Connect \/ Disconnect \/ BackoffEnds
  \/ \E t \in 1..MaxTime : OnTick(t) \/ Drop(t)
  \/ IntervalPasses
  \/ ExecuteAdd \/ AddReturns \/ ExecuteSet \/ LoseRedis
  \/ Restart
  \/ \E i \in DOMAIN log : Deliver(i)
  \/ PutOff

Safety == Init /\ [][Next]_vars

\* The engine's consumer delivers what is new, and what was put off.
Spec ==
  Safety /\ \A i \in 1..MaxTicks :
    WF_vars(i \in DOMAIN log /\ (i = delivered + 1 \/ i \in late) /\ Deliver(i))
=============================================================================
