--------------------------- MODULE ObserverProofs ---------------------------
(***************************************************************************)
(* Theorems about index prices: the price that the API quotes is in the    *)
(* log, always; and, when restarts are late, the engine's price never goes *)
(* back, for any number of ticks, restarts, lost calls and late            *)
(* deliveries.                                                             *)
(***************************************************************************)
EXTENDS ObserverProperties, SequenceTheorems, TLAPS

-----------------------------------------------------------------------------
(* Sequences *)

LEMMA Appended ==
  ASSUME NEW S, NEW s \in Seq(S), NEW e \in S
  PROVE  /\ Append(s, e) \in Seq(S)
         /\ Len(Append(s, e)) = Len(s) + 1
         /\ DOMAIN Append(s, e) = 1..(Len(s) + 1)
         /\ Append(s, e)[Len(s) + 1] = e
         /\ \A i \in DOMAIN s : i \in 1..Len(s) /\ Append(s, e)[i] = s[i]
         /\ s \o <<e>> = Append(s, e)
BY AppendProperties, AppendIsConcat, LenProperties

LEMMA Dequeued ==
  ASSUME NEW S, NEW s \in Seq(S), s # <<>>
  PROVE  /\ Tail(s) \in Seq(S)
         /\ Head(s) \in S /\ Head(s) = s[1] /\ 1 \in DOMAIN s
         /\ DOMAIN Tail(s) = 1..(Len(s) - 1)
         /\ \A i \in DOMAIN Tail(s) : i + 1 \in DOMAIN s /\ i < i + 1 /\ Tail(s)[i] = s[i + 1]
<1>1. Tail(s) \in Seq(S) /\ Head(s) \in S /\ Len(Tail(s)) = Len(s) - 1
      /\ \A i \in 1..Len(Tail(s)) : Tail(s)[i] = s[i + 1]
  BY HeadTailProperties
<1>2. Len(s) \in Nat /\ Len(s) # 0 /\ DOMAIN s = 1..Len(s) /\ DOMAIN Tail(s) = 1..Len(Tail(s))
  BY <1>1, LenProperties, EmptySeq
<1>3. Head(s) = s[1]
  OBVIOUS
<1> QED
  BY <1>1, <1>2, <1>3

-----------------------------------------------------------------------------
(* The inductive invariant *)

LEMMA InitInv == Init => Inv
<1> SUFFICES ASSUME Init
             PROVE  Inv
  OBVIOUS
<1>1. calls = <<>> /\ replies = <<>> /\ log = <<>> /\ DOMAIN << >> = {} /\ Len(<< >>) = 0
  BY DEF Init
<1>2. ObserverTypeOK
  <2>1. calls \in Seq(Call) /\ replies \in Seq(Price) /\ log \in Seq(Price)
    BY <1>1, EmptySeq
  <2>2. quiet \in BOOLEAN /\ link \in {"connecting", "open", "waiting"}
    BY DEF Init
  <2>3. MaxTicks \in Nat /\ MaxTime \in Nat
    BY ObserverAssumption
  <2>4. /\ ticks \in 0..MaxTicks /\ time \in 0..MaxTime
        /\ lastSeq \in Nat /\ used \in Nat /\ lastObserverSeq \in Nat
        /\ quote \in 0..MaxTicks /\ mark \in 0..MaxTicks
    BY <2>3 DEF Init
  <2>5. delivered \in 0..Len(log) /\ late \subseteq 1..Len(log)
    BY <1>1 DEF Init
  <2> QED
    BY <2>1, <2>2, <2>4, <2>5 DEF ObserverTypeOK
<1>3. QuoteInv /\ MarkInv
  BY <1>1 DEF Init, QuoteInv, QuoteIsLogged, MarkInv
<1>4. OrderInv
  BY <1>1 DEF Init, OrderInv
<1> QED
  BY <1>2, <1>3, <1>4 DEF Inv

\* Types.
LEMMA TypeStep ==
  ASSUME ObserverTypeOK, [Next]_vars
  PROVE  ObserverTypeOK'
<1> USE ObserverAssumption DEF ObserverTypeOK
<1>1. CASE Connect
  BY <1>1 DEF Connect, observerVars, redisVars, engineVars
<1>2. CASE Disconnect
  BY <1>2 DEF Disconnect, observerVars, redisVars, engineVars
<1>3. CASE BackoffEnds
  BY <1>3 DEF BackoffEnds, observerVars, redisVars, engineVars
<1>4. ASSUME NEW t \in 1..MaxTime, Drop(t)
      PROVE  ObserverTypeOK'
  BY <1>4 DEF Drop, NewTick, observerVars, redisVars, engineVars
<1>5. ASSUME NEW t \in 1..MaxTime, OnTick(t)
      PROVE  ObserverTypeOK'
  <2> DEFINE price == [tick |-> ticks', seq |-> lastSeq']
  <2>1. ticks' \in 1..MaxTicks /\ time' \in 0..MaxTime
    BY <1>5, SMTT(30) DEF OnTick, NewTick
  <2>2. lastSeq' \in Nat /\ used' \in Nat
    BY <1>5 DEF OnTick, ObserverSeq
  <2>3. price \in Price
    BY <2>1, <2>2 DEF Price
  <2>4. Add(price) \in Call
    BY <2>3 DEF Add, Call
  <2>5. calls' \in Seq(Call)
    BY <1>5, <2>4, Appended DEF OnTick, Emit
  <2> QED
    BY <1>5, <2>1, <2>2, <2>5 DEF OnTick, NewTick, engineVars
<1>6. CASE IntervalPasses
  BY <1>6 DEF IntervalPasses, binanceVars, redisVars, engineVars
<1>7. CASE ExecuteAdd
  <2>1. Head(calls) \in Call /\ Tail(calls) \in Seq(Call)
    BY <1>7, Dequeued DEF ExecuteAdd
  <2>2. Head(calls).price \in Price
    BY <2>1 DEF Call
  <2> DEFINE price == Head(calls).price
  <2>3. log' = Append(log, price) /\ replies' = Append(replies, price) /\ calls' = Tail(calls)
    BY <1>7 DEF ExecuteAdd
  <2> HIDE DEF price
  <2>4. log' \in Seq(Price) /\ Len(log') = Len(log) + 1 /\ replies' \in Seq(Price)
    BY <2>2, <2>3, Appended DEF price
  <2>5. Len(log) \in Nat
    BY LenProperties
  <2>6. UNCHANGED <<binanceVars, observerVars, quote, engineVars, restarts>>
    BY <1>7 DEF ExecuteAdd
  <2>7. UNCHANGED <<ticks, time, link, quiet, lastSeq, used, quote, mark, lastObserverSeq>>
        /\ delivered' = delivered /\ late' = late
    BY <2>6 DEF binanceVars, observerVars, engineVars
  <2>8. delivered' \in 0..Len(log') /\ late' \subseteq 1..Len(log')
    BY <2>4, <2>5, <2>7
  <2> QED
    BY <2>1, <2>3, <2>4, <2>7, <2>8
<1>8. CASE AddReturns
  <2>1. Head(replies) \in Price /\ Tail(replies) \in Seq(Price)
    BY <1>8, Dequeued DEF AddReturns
  <2>2. Set(Head(replies)) \in Call
    BY <2>1 DEF Set, Call
  <2>3. calls' \in Seq(Call)
    BY <1>8, <2>2, Appended DEF AddReturns
  <2> QED
    BY <1>8, <2>1, <2>3 DEF AddReturns, binanceVars, observerVars, engineVars
<1>9. CASE ExecuteSet
  <2>1. Head(calls) \in Call /\ Tail(calls) \in Seq(Call)
    BY <1>9, Dequeued DEF ExecuteSet
  <2>2. Head(calls).price.tick \in 1..MaxTicks
    BY <2>1 DEF Call, Price
  <2> QED
    BY <1>9, <2>1, <2>2, SMTT(30) DEF ExecuteSet, binanceVars, observerVars, engineVars
<1>10. CASE LoseRedis
  BY <1>10, EmptySeq DEF LoseRedis, binanceVars, observerVars, engineVars
<1>11. CASE Restart
  BY <1>11, EmptySeq DEF Restart, engineVars
<1>12. ASSUME NEW i \in DOMAIN log, Deliver(i)
       PROVE  ObserverTypeOK'
  <2>1. i \in 1..Len(log) /\ Len(log) \in Nat
    BY LenProperties
  <2>2. log[i] \in Price
    BY <2>1, ElementOfSeq
  <2>3. log[i].tick \in 1..MaxTicks /\ log[i].seq \in Nat
    BY <2>2 DEF Price
  <2>4. mark' \in 0..MaxTicks /\ lastObserverSeq' \in Nat
    <3>1. CASE Stale(log[i].seq)
      BY <1>12, <3>1 DEF Deliver, Handle
    <3>2. CASE ~Stale(log[i].seq)
      BY <1>12, <2>3, <3>2, SMTT(30) DEF Deliver, Handle
    <3> QED
      BY <3>1, <3>2
  <2>5. UNCHANGED <<ticks, time, link, quiet, lastSeq, used, calls, replies, log, quote>>
    BY <1>12 DEF Deliver, binanceVars, observerVars, redisVars
  <2>6. delivered' \in 0..Len(log) /\ late' \subseteq 1..Len(log)
    <3>1. delivered' = (IF i > delivered THEN i ELSE delivered) /\ late' = late \ {i}
      BY <1>12 DEF Deliver
    <3>2. delivered \in 0..Len(log) /\ late \subseteq 1..Len(log)
      OBVIOUS
    <3>3. delivered' \in 0..Len(log)
      BY ONLY <2>1, <3>1, <3>2
    <3>4. late' \subseteq 1..Len(log)
      BY ONLY <3>1, <3>2
    <3> QED
      BY ONLY <3>3, <3>4
  <2> QED
    BY <2>4, <2>5, <2>6
<1>13. CASE PutOff
  <2>1. Len(log) \in Nat
    BY LenProperties
  <2> QED
    BY <1>13, <2>1 DEF PutOff, binanceVars, observerVars, redisVars
<1>14. CASE UNCHANGED vars
  BY <1>14 DEF vars, binanceVars, observerVars, redisVars, engineVars
<1> QED
  BY <1>1, <1>2, <1>3, <1>4, <1>5, <1>6, <1>7, <1>8, <1>9, <1>10, <1>11, <1>12, <1>13, <1>14
     DEF Next

\* An entry of the log stays where it is.
LEMMA LogGrows ==
  ASSUME ObserverTypeOK, [Next]_vars
  PROVE  /\ DOMAIN log \subseteq DOMAIN log'
         /\ \A i \in DOMAIN log : log'[i] = log[i]
<1>1. CASE ExecuteAdd
  <2>1. Head(calls) \in Call
    BY <1>1, Dequeued DEF ExecuteAdd, ObserverTypeOK
  <2>2. Head(calls).price \in Price
    BY <2>1 DEF Call
  <2>3. log' = Append(log, Head(calls).price)
    BY <1>1 DEF ExecuteAdd
  <2>4. log \in Seq(Price)
    BY DEF ObserverTypeOK
  <2>5. Len(log) \in Nat
    BY <2>4, LenProperties
  <2> QED
    BY <2>2, <2>3, <2>4, <2>5, Appended
<1>2. CASE ~ExecuteAdd
  <2>1. log' = log
    BY <1>2 DEF Next, Connect, Disconnect, BackoffEnds, OnTick, Drop, IntervalPasses, AddReturns,
      ExecuteSet, LoseRedis, Restart, Deliver, PutOff, vars, redisVars
  <2> QED
    BY <2>1
<1> QED
  BY <1>1, <1>2

\* The quote: what has been executed is in the log before it is set.
LEMMA QuoteStep ==
  ASSUME ObserverTypeOK, QuoteInv, [Next]_vars
  PROVE  QuoteInv'
<1>1. /\ quote = 0 \/ Holds(log, quote)
      /\ \A i \in DOMAIN replies : Holds(log, replies[i].tick)
      /\ \A i \in DOMAIN calls : calls[i].kind = "set" => Holds(log, calls[i].price.tick)
  BY DEF QuoteInv, QuoteIsLogged
<1>2. calls \in Seq(Call) /\ replies \in Seq(Price) /\ log \in Seq(Price)
  BY DEF ObserverTypeOK
<1>3. \A tick : Holds(log, tick) => Holds(log', tick)
  BY LogGrows DEF Holds
<1> SUFFICES
      /\ quote' = 0 \/ Holds(log', quote')
      /\ \A i \in DOMAIN replies' : Holds(log', replies'[i].tick)
      /\ \A i \in DOMAIN calls' : calls'[i].kind = "set" => Holds(log', calls'[i].price.tick)
  BY DEF QuoteInv, QuoteIsLogged
<1>5. CASE UNCHANGED <<calls, replies, quote>>
  BY <1>1, <1>3, <1>5
<1>6. ASSUME NEW t \in 1..MaxTime, OnTick(t)
      PROVE  UNCHANGED <<replies, quote>>
             /\ \A i \in DOMAIN calls' : calls'[i].kind = "set" =>
                  i \in DOMAIN calls /\ calls'[i] = calls[i]
  <2> DEFINE call == Add([tick |-> ticks', seq |-> lastSeq'])
  <2>1. ticks' \in 1..MaxTicks
    BY <1>6, ObserverAssumption DEF OnTick, NewTick, ObserverTypeOK
  <2>2. lastSeq' \in Nat
    BY TypeStep DEF ObserverTypeOK
  <2>3. call \in Call /\ call.kind = "add"
    BY <2>1, <2>2 DEF Add, Call, Price
  <2>4. calls' = calls \o <<call>> /\ UNCHANGED <<replies, quote>>
    BY <1>6 DEF OnTick, Emit
  <2> HIDE DEF call
  <2>5. /\ DOMAIN calls' = 1..(Len(calls) + 1) /\ calls'[Len(calls) + 1] = call
        /\ \A i \in DOMAIN calls : calls'[i] = calls[i]
        /\ DOMAIN calls = 1..Len(calls) /\ Len(calls) \in Nat
    BY <1>2, <2>3, <2>4, Appended, LenProperties
  <2> QED
    BY <2>3, <2>4, <2>5
<1>7. CASE ExecuteAdd
  <2> DEFINE price == Head(calls).price
  <2>1. calls # <<>> /\ calls' = Tail(calls) /\ quote' = quote
        /\ replies' = Append(replies, price) /\ log' = Append(log, price)
    BY <1>7 DEF ExecuteAdd
  <2>2. price \in Price
    <3>1. Head(calls) \in Call
      BY <1>2, <2>1, Dequeued
    <3> QED
      BY <3>1 DEF Call
  <2> HIDE DEF price
  <2>3. Len(log) + 1 \in DOMAIN log' /\ log'[Len(log) + 1] = price
    <3>1. Len(log) \in Nat
      BY <1>2, LenProperties
    <3> QED
      BY <1>2, <2>1, <2>2, <3>1, Appended
  <2>4. Holds(log', price.tick)
    BY <2>3 DEF Holds
  <2>5. /\ DOMAIN replies' = 1..(Len(replies) + 1) /\ replies'[Len(replies) + 1] = price
        /\ \A i \in DOMAIN replies : replies'[i] = replies[i]
        /\ DOMAIN replies = 1..Len(replies) /\ Len(replies) \in Nat
    BY <1>2, <2>1, <2>2, Appended, LenProperties
  <2>6. \A i \in DOMAIN replies' : Holds(log', replies'[i].tick)
    BY <1>1, <1>3, <2>4, <2>5
  <2>7. \A i \in DOMAIN calls' : i + 1 \in DOMAIN calls /\ calls'[i] = calls[i + 1]
    BY <1>2, <2>1, Dequeued
  <2> QED
    BY <1>1, <1>3, <2>1, <2>6, <2>7
<1>8. CASE AddReturns
  <2> DEFINE call == Set(Head(replies))
  <2>1. replies # <<>> /\ replies' = Tail(replies) /\ calls' = Append(calls, call)
        /\ quote' = quote
    BY <1>8 DEF AddReturns
  <2>2. Head(replies) \in Price /\ Holds(log, Head(replies).tick)
    BY <1>1, <1>2, <2>1, Dequeued
  <2>3. call \in Call /\ call.price = Head(replies)
    BY <2>2 DEF Set, Call
  <2> HIDE DEF call
  <2>4. /\ DOMAIN calls' = 1..(Len(calls) + 1) /\ calls'[Len(calls) + 1] = call
        /\ \A i \in DOMAIN calls : calls'[i] = calls[i]
        /\ DOMAIN calls = 1..Len(calls) /\ Len(calls) \in Nat
    BY <1>2, <2>1, <2>3, Appended, LenProperties
  <2>5. \A i \in DOMAIN calls' : calls'[i].kind = "set" => Holds(log', calls'[i].price.tick)
    BY <1>1, <1>3, <2>2, <2>3, <2>4
  <2>6. \A i \in DOMAIN replies' : i + 1 \in DOMAIN replies /\ replies'[i] = replies[i + 1]
    BY <1>2, <2>1, Dequeued
  <2> QED
    BY <1>1, <1>3, <2>1, <2>5, <2>6
<1>9. CASE ExecuteSet
  <2>1. calls # <<>> /\ Head(calls).kind = "set" /\ calls' = Tail(calls)
        /\ quote' = Head(calls).price.tick /\ UNCHANGED replies
    BY <1>9 DEF ExecuteSet
  <2>2. Head(calls) = calls[1] /\ 1 \in DOMAIN calls
    BY <1>2, <2>1, Dequeued
  <2>3. Holds(log', quote')
    BY <1>1, <1>3, <2>1, <2>2
  <2>4. \A i \in DOMAIN calls' : i + 1 \in DOMAIN calls /\ calls'[i] = calls[i + 1]
    BY <1>2, <2>1, Dequeued
  <2> QED
    BY <1>1, <1>3, <2>1, <2>3, <2>4
<1>10. CASE LoseRedis
  BY <1>1, <1>3, <1>10 DEF LoseRedis
<1>11. CASE Restart
  BY <1>1, <1>3, <1>11 DEF Restart
<1>12. UNCHANGED <<calls, replies, quote>> \/ (\E t \in 1..MaxTime : OnTick(t)) \/ ExecuteAdd
       \/ AddReturns \/ ExecuteSet \/ LoseRedis \/ Restart
  BY DEF Next, Connect, Disconnect, BackoffEnds, Drop, IntervalPasses, Deliver, PutOff, vars, redisVars
<1> QED
  BY <1>1, <1>3, <1>5, <1>6, <1>7, <1>8, <1>9, <1>10, <1>11, <1>12

-----------------------------------------------------------------------------
(* The order of the numbers, when restarts are late *)

\* A step leaves the log and the calls alone, or shortens the calls, or makes one of
\* three moves.
LEMMA CallsStep ==
  ASSUME ObserverTypeOK, [Next]_vars
  PROVE  \/ \E t \in 1..MaxTime : OnTick(t)
         \/ ExecuteAdd
         \/ AddReturns
         \/ ExecuteSet
         \/ /\ calls' \in {calls, <<>>} /\ log' = log
            /\ ticks' \in {ticks, ticks + 1} /\ used' = used /\ lastSeq' \in {lastSeq, 0}
BY DEF Next, Connect, Disconnect, BackoffEnds, Drop, NewTick, IntervalPasses, LoseRedis, Restart,
  Deliver, PutOff, vars, binanceVars, observerVars, redisVars, engineVars

\* A number that is given to a tick is greater than all before it.
LEMMA NewNumber ==
  ASSUME ObserverTypeOK, OrderInv, LateRestarts, NEW t \in 1..MaxTime, OnTick(t)
  PROVE  lastSeq' \in Nat /\ lastSeq' > used /\ used' = lastSeq'
<1>1. lastSeq' = (IF t > lastSeq THEN t ELSE lastSeq + 1) /\ (lastSeq = 0 => t > used)
      /\ used' = IF lastSeq' > used THEN lastSeq' ELSE used
  BY DEF OnTick, ObserverSeq
<1>2. lastSeq \in Nat /\ used \in Nat /\ lastSeq \in {0, used} /\ t \in Nat
  BY ObserverAssumption DEF ObserverTypeOK, OrderInv
<1> QED
  BY <1>1, <1>2

LEMMA OrderStep ==
  ASSUME ObserverTypeOK, OrderInv, LateRestarts, [Next]_vars
  PROVE  OrderInv'
<1>1. /\ lastSeq \in {0, used}
      /\ \A i \in DOMAIN log : log[i].tick <= ticks /\ log[i].seq <= used
      /\ \A i, j \in DOMAIN log : i < j => Before(log[i], log[j])
      /\ \A j \in DOMAIN calls : calls[j].kind = "add" =>
           calls[j].price.tick <= ticks /\ calls[j].price.seq <= used
      /\ \A j \in DOMAIN calls : calls[j].kind = "add" =>
           \A i \in DOMAIN log : Before(log[i], calls[j].price)
      /\ \A i, j \in DOMAIN calls : i < j /\ calls[i].kind = "add" /\ calls[j].kind = "add" =>
           Before(calls[i].price, calls[j].price)
  BY DEF OrderInv
<1> SUFFICES
      /\ lastSeq' \in {0, used'}
      /\ \A i \in DOMAIN log' : log'[i].tick <= ticks' /\ log'[i].seq <= used'
      /\ \A i, j \in DOMAIN log' : i < j => Before(log'[i], log'[j])
      /\ \A j \in DOMAIN calls' : calls'[j].kind = "add" =>
           calls'[j].price.tick <= ticks' /\ calls'[j].price.seq <= used'
      /\ \A j \in DOMAIN calls' : calls'[j].kind = "add" =>
           \A i \in DOMAIN log' : Before(log'[i], calls'[j].price)
      /\ \A i, j \in DOMAIN calls' : i < j /\ calls'[i].kind = "add" /\ calls'[j].kind = "add" =>
           Before(calls'[i].price, calls'[j].price)
  BY DEF OrderInv
<1>2. calls \in Seq(Call) /\ log \in Seq(Price)
  BY DEF ObserverTypeOK
<1>3. /\ \A i \in DOMAIN log : log[i].tick \in Nat /\ log[i].seq \in Nat
      /\ \A i \in DOMAIN calls : calls[i].price.tick \in Nat /\ calls[i].price.seq \in Nat
      /\ ticks \in Nat /\ used \in Nat
  <2>1. \A i \in DOMAIN log : log[i] \in Price
    BY <1>2, ElementOfSeq, LenProperties
  <2>2. \A i \in DOMAIN calls : calls[i] \in Call
    BY <1>2, ElementOfSeq, LenProperties
  <2>3. MaxTicks \in Nat /\ ticks \in Nat /\ used \in Nat
    BY ObserverAssumption DEF ObserverTypeOK
  <2> QED
    BY <2>1, <2>2, <2>3 DEF Price, Call
<1>4. ASSUME NEW t \in 1..MaxTime, OnTick(t)
      PROVE  OrderInv'
  <2> DEFINE price == [tick |-> ticks', seq |-> lastSeq']
  <2>1. lastSeq' \in Nat /\ lastSeq' > used /\ used' = lastSeq' /\ ticks' = ticks + 1 /\ log' = log
    BY <1>4, NewNumber DEF OnTick, NewTick
  <2>2. price \in Price
    <3>1. ticks' \in 1..MaxTicks
      BY <1>4, ObserverAssumption DEF OnTick, NewTick, ObserverTypeOK
    <3> QED
      BY <2>1, <3>1 DEF Price
  <2>3. calls' = calls \o <<Add(price)>> /\ price.tick = ticks + 1 /\ price.seq = used'
    BY <1>4, <2>1 DEF OnTick, Emit
  <2> DEFINE call == Add(price)
  <2>4. call \in Call /\ call.kind = "add" /\ call.price = price
    BY <2>2 DEF Add, Call
  <2>5. calls' = calls \o <<call>>
    BY <2>3
  <2> HIDE DEF price, call
  <2>6. /\ DOMAIN calls' = 1..(Len(calls) + 1) /\ calls'[Len(calls) + 1] = call
        /\ \A i \in DOMAIN calls : calls'[i] = calls[i]
        /\ DOMAIN calls = 1..Len(calls) /\ Len(calls) \in Nat
    BY <1>2, <2>4, <2>5, Appended, LenProperties
  <2>7. \A i \in DOMAIN calls' : (i \in DOMAIN calls /\ calls'[i] = calls[i])
                                 \/ (i = Len(calls) + 1 /\ calls'[i] = call)
    BY <2>6
  <2>8. \A i \in DOMAIN log : Before(log[i], price)
    BY <1>1, <1>3, <2>1, <2>3 DEF Before
  <2>9. \A i \in DOMAIN calls : calls[i].kind = "add" => Before(calls[i].price, price)
    BY <1>1, <1>3, <2>1, <2>3 DEF Before
  <2> QED
    BY <1>1, <1>3, <2>1, <2>3, <2>4, <2>6, <2>7, <2>8, <2>9, SMTT(30) DEF OrderInv
<1>5. CASE ExecuteAdd
  <2> DEFINE price == Head(calls).price
  <2>1. calls # <<>> /\ Head(calls).kind = "add" /\ calls' = Tail(calls) /\ log' = Append(log, price)
        /\ UNCHANGED <<ticks, used, lastSeq>>
    BY <1>5 DEF ExecuteAdd, binanceVars, observerVars
  <2>2. Head(calls) \in Call /\ Head(calls) = calls[1] /\ 1 \in DOMAIN calls
    BY <1>2, <2>1, Dequeued
  <2>3. price \in Price /\ price = calls[1].price
    BY <2>2 DEF Call
  <2> HIDE DEF price
  <2>4. /\ DOMAIN log' = 1..(Len(log) + 1) /\ log'[Len(log) + 1] = price
        /\ \A i \in DOMAIN log : log'[i] = log[i]
        /\ DOMAIN log = 1..Len(log) /\ Len(log) \in Nat
    BY <1>2, <2>1, <2>3, Appended, LenProperties
  <2>5. \A i \in DOMAIN calls' : i + 1 \in DOMAIN calls /\ calls'[i] = calls[i + 1] /\ i \in Nat /\ 1 < i + 1
    <3>1. DOMAIN calls' = 1..(Len(calls) - 1) /\ Len(calls) \in Nat
      BY <1>2, <2>1, Dequeued, LenProperties
    <3> QED
      BY <1>2, <2>1, <3>1, Dequeued
  <2>6. \A i, j \in DOMAIN log' : i < j => Before(log'[i], log'[j])
    BY <1>1, <2>1, <2>2, <2>3, <2>4
  <2>7. \A i \in DOMAIN log' : log'[i].tick <= ticks' /\ log'[i].seq <= used'
    BY <1>1, <2>1, <2>2, <2>3, <2>4
  <2>8. \A j \in DOMAIN calls' : calls'[j].kind = "add" =>
          \A i \in DOMAIN log' : Before(log'[i], calls'[j].price)
    BY <1>1, <2>1, <2>2, <2>3, <2>4, <2>5
  <2>9. \A i, j \in DOMAIN calls' : i < j /\ calls'[i].kind = "add" /\ calls'[j].kind = "add" =>
          Before(calls'[i].price, calls'[j].price)
    BY <1>1, <2>5
  <2> QED
    BY <1>1, <2>1, <2>5, <2>6, <2>7, <2>8, <2>9
<1>6. CASE AddReturns
  <2> DEFINE call == Set(Head(replies))
  <2>1. replies # <<>> /\ calls' = Append(calls, call) /\ UNCHANGED <<ticks, used, lastSeq, log>>
    BY <1>6 DEF AddReturns, binanceVars, observerVars
  <2>2. call \in Call /\ call.kind # "add"
    <3>1. Head(replies) \in Price
      BY <2>1, Dequeued DEF ObserverTypeOK
    <3> QED
      BY <3>1 DEF Set, Call
  <2> HIDE DEF call
  <2>3. /\ DOMAIN calls' = 1..(Len(calls) + 1) /\ calls'[Len(calls) + 1] = call
        /\ \A i \in DOMAIN calls : calls'[i] = calls[i]
        /\ DOMAIN calls = 1..Len(calls) /\ Len(calls) \in Nat
    BY <1>2, <2>1, <2>2, Appended, LenProperties
  <2>4. \A i \in DOMAIN calls' : calls'[i].kind = "add" => i \in DOMAIN calls /\ calls'[i] = calls[i]
    BY <2>2, <2>3
  <2> QED
    BY <1>1, <2>1, <2>4
<1>7. CASE ExecuteSet
  <2>1. calls # <<>> /\ calls' = Tail(calls) /\ UNCHANGED <<ticks, used, lastSeq, log>>
    BY <1>7 DEF ExecuteSet, binanceVars, observerVars
  <2>2. \A i \in DOMAIN calls' : i + 1 \in DOMAIN calls /\ calls'[i] = calls[i + 1] /\ i \in Nat
    <3>1. DOMAIN calls' = 1..(Len(calls) - 1) /\ Len(calls) \in Nat
      BY <1>2, <2>1, Dequeued, LenProperties
    <3> QED
      BY <1>2, <2>1, <3>1, Dequeued
  <2> QED
    BY <1>1, <2>1, <2>2
<1>8. CASE /\ calls' \in {calls, <<>>} /\ log' = log
           /\ ticks' \in {ticks, ticks + 1} /\ used' = used /\ lastSeq' \in {lastSeq, 0}
  <2>1. \A j \in DOMAIN calls' : j \in DOMAIN calls /\ calls'[j] = calls[j]
    BY <1>8
  <2>2. \A n \in Nat : n <= ticks => n <= ticks'
    BY <1>3, <1>8
  <2> QED
    BY <1>1, <1>3, <1>8, <2>1, <2>2
<1> QED
  BY <1>4, <1>5, <1>6, <1>7, <1>8, CallsStep DEF OrderInv

-----------------------------------------------------------------------------
(* The price of the engine *)

LEMMA MarkStep ==
  ASSUME ObserverTypeOK, MarkInv, [Next]_vars
  PROVE  MarkInv'
<1>1. CASE UNCHANGED <<mark, lastObserverSeq>>
  BY <1>1, LogGrows DEF MarkInv
<1>2. ASSUME NEW i \in DOMAIN log, Deliver(i)
      PROVE  MarkInv'
  <2>1. log' = log
    BY <1>2 DEF Deliver, redisVars
  <2>2. CASE Stale(log[i].seq)
    BY <1>1, <1>2, <2>2 DEF Deliver, Handle
  <2>3. CASE ~Stale(log[i].seq)
    BY <1>2, <2>1, <2>3 DEF Deliver, Handle, MarkInv
  <2> QED
    BY <2>2, <2>3
<1>3. UNCHANGED <<mark, lastObserverSeq>> \/ \E i \in DOMAIN log : Deliver(i)
  BY DEF Next, Connect, Disconnect, BackoffEnds, Drop, OnTick, IntervalPasses, ExecuteAdd,
    AddReturns, ExecuteSet, LoseRedis, Restart, PutOff, vars, engineVars
<1> QED
  BY <1>1, <1>2, <1>3

\* The engine takes over a price only from an entry behind the one it has.
LEMMA MarkGrows ==
  ASSUME ObserverTypeOK, OrderInv, MarkInv, [Next]_vars
  PROVE  mark' >= mark
<1>1. mark \in Nat /\ lastObserverSeq \in Nat
  BY ObserverAssumption DEF ObserverTypeOK
<1>2. ASSUME NEW i \in DOMAIN log, Deliver(i)
      PROVE  mark' >= mark
  <2>1. i \in Nat /\ log[i].tick \in Nat /\ log[i].seq \in Nat
    <3>1. log[i] \in Price /\ i \in Nat
      BY ElementOfSeq, LenProperties DEF ObserverTypeOK
    <3> QED
      BY <3>1, ObserverAssumption DEF Price
  <2>2. CASE Stale(log[i].seq)
    BY <1>1, <1>2, <2>2 DEF Deliver, Handle
  <2>3. CASE ~Stale(log[i].seq)
    <3>1. mark' = log[i].tick /\ log[i].seq > lastObserverSeq
      BY <1>1, <1>2, <2>1, <2>3 DEF Deliver, Handle, Stale
    <3>2. CASE mark = 0
      BY <2>1, <3>1, <3>2
    <3>3. CASE mark # 0
      <4>1. PICK j \in DOMAIN log : log[j].tick = mark /\ log[j].seq = lastObserverSeq
        BY <3>3 DEF MarkInv
      <4>2. j \in Nat
        BY LenProperties DEF ObserverTypeOK
      <4>3. ~(i < j) /\ i # j
        BY <1>1, <2>1, <3>1, <4>1 DEF OrderInv, Before
      <4>4. Before(log[j], log[i])
        BY <2>1, <4>1, <4>2, <4>3 DEF OrderInv
      <4> QED
        BY <1>1, <2>1, <3>1, <4>1, <4>4 DEF Before
    <3> QED
      BY <3>2, <3>3
  <2> QED
    BY <2>2, <2>3
<1>3. mark' = mark \/ \E i \in DOMAIN log : Deliver(i)
  BY DEF Next, Connect, Disconnect, BackoffEnds, Drop, OnTick, IntervalPasses, ExecuteAdd,
    AddReturns, ExecuteSet, LoseRedis, Restart, PutOff, vars, engineVars
<1> QED
  BY <1>1, <1>2, <1>3

-----------------------------------------------------------------------------
(* The theorems *)

LEMMA InvStep == Inv /\ [Next]_vars => Inv'
<1> SUFFICES ASSUME Inv, [Next]_vars
             PROVE  Inv'
  OBVIOUS
<1>1. ObserverTypeOK'
  BY TypeStep DEF Inv
<1>2. QuoteInv'
  BY QuoteStep DEF Inv
<1>3. LateRestarts => OrderInv'
  BY OrderStep DEF Inv
<1>4. MarkInv'
  BY MarkStep DEF Inv
<1> QED
  BY <1>1, <1>2, <1>3, <1>4 DEF Inv

\* Every reachable state satisfies the inductive invariant.
THEOREM Invariant == Spec => []Inv
<1>1. Init => Inv
  BY InitInv
<1>2. Inv /\ [Next]_vars => Inv'
  BY InvStep
<1> QED
  BY <1>1, <1>2, PTL DEF Spec, Safety

\* What the API quotes is in the engine's log, whatever is lost or dies
\* (the XADD is awaited before the SET, index.ts).
THEOREM QuoteAlwaysLogged == Spec => []QuoteIsLogged
<1>1. Inv => QuoteIsLogged
  BY DEF Inv, QuoteInv
<1> QED
  BY <1>1, Invariant, PTL

\* As long as the first price after a restart is from after every number that was
\* given out (index.ts:19-22), the engine's mark price only moves to later ticks,
\* in whatever order, and however often, entries reach it (onIndexPrice, engine.ts).
THEOREM MarkGoesForward == LateRestarts => (Spec => MarkNeverGoesBack)
<1> SUFFICES ASSUME LateRestarts
             PROVE  Spec => MarkNeverGoesBack
  OBVIOUS
<1>1. Inv /\ [Next]_vars => [mark' >= mark]_vars
  BY MarkGrows DEF Inv
<1> QED
  BY <1>1, Invariant, PTL DEF Spec, Safety, MarkNeverGoesBack
=============================================================================
