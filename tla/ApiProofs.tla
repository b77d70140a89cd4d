----------------------------- MODULE ApiProofs -----------------------------
(***************************************************************************)
(* Theorems about the API's client of the engine: waiters and promises     *)
(* agree, answers are true, and queries show what was confirmed before     *)
(* them, for any commands, queries, failures and restarts.                 *)
(***************************************************************************)
EXTENDS ApiProperties, SequenceTheorems, TLAPS

-----------------------------------------------------------------------------
(* Sequences *)

LEMMA Appended ==
  ASSUME NEW S, NEW s \in Seq(S), NEW e \in S
  PROVE  /\ Append(s, e) \in Seq(S)
         /\ Len(Append(s, e)) = Len(s) + 1
         /\ DOMAIN Append(s, e) = 1..(Len(s) + 1)
         /\ Append(s, e)[Len(s) + 1] = e
         /\ \A i \in DOMAIN s : i \in DOMAIN Append(s, e) /\ Append(s, e)[i] = s[i]
         /\ \A i \in DOMAIN Append(s, e) : i \in DOMAIN s \/ i = Len(s) + 1
         /\ DOMAIN s = 1..Len(s) /\ Len(s) \in Nat
BY AppendProperties, LenProperties

LEMMA Joined ==
  ASSUME NEW S, NEW s \in Seq(S), NEW t \in Seq(S)
  PROVE  /\ s \o t \in Seq(S)
         /\ Len(s \o t) = Len(s) + Len(t)
         /\ \A i \in DOMAIN s : i \in DOMAIN (s \o t) /\ (s \o t)[i] = s[i]
         /\ \A i \in DOMAIN (s \o t) :
              i \in DOMAIN s \/ (i - Len(s) \in DOMAIN t /\ (s \o t)[i] = t[i - Len(s)])
         /\ DOMAIN (s \o t) = 1..(Len(s) + Len(t))
         /\ DOMAIN s = 1..Len(s) /\ Len(s) \in Nat /\ Len(t) \in Nat /\ DOMAIN t = 1..Len(t)
<1>1. /\ s \o t \in Seq(S) /\ Len(s \o t) = Len(s) + Len(t)
      /\ \A i \in 1..Len(s) + Len(t) :
           (s \o t)[i] = IF i <= Len(s) THEN s[i] ELSE t[i - Len(s)]
  BY ConcatProperties
<1>2. /\ Len(s) \in Nat /\ Len(t) \in Nat /\ DOMAIN s = 1..Len(s) /\ DOMAIN t = 1..Len(t)
      /\ DOMAIN (s \o t) = 1..(Len(s) + Len(t))
  BY <1>1, LenProperties
<1> QED
  BY <1>1, <1>2

\* An entry of a stream is in its range.
LEMMA InRange ==
  ASSUME NEW s, NEW i \in DOMAIN s
  PROVE  s[i] \in ToSet(s)
BY DEF ToSet

-----------------------------------------------------------------------------
(* What a step does to one half of the state *)

\* The promises of commands: none changes, one is made, or one is settled, with
\* null or with the event that tailOutput reads.
LEMMA AnswersStep ==
  ASSUME [Next]_vars
  PROVE  \/ UNCHANGED <<answers, waiters>>
         \/ \E c \in Commands \ DOMAIN answers :
              /\ answers' = [d \in DOMAIN answers \cup {c} |-> IF d = c THEN Waiting ELSE answers[d]]
              /\ waiters' = waiters \cup {c}
              /\ UNCHANGED <<input, output>>
         \/ \E c \in adding \cup waiters : Resolve(c, Null) /\ UNCHANGED output
         \/ \E c \in waiters :
              /\ HasNext(tail, output) /\ UNCHANGED <<input, output>>
              /\ c = output[tail.from + 1].corr
              /\ Resolve(c, output[tail.from + 1])
<1>1. CASE \E c \in Commands : Submit(c, Cardinality(DOMAIN queryAnswers))
  BY <1>1 DEF Submit
<1>2. CASE \E c \in Commands : Enqueue(c)
  BY <1>2 DEF Enqueue
<1>3. CASE \E c \in Commands : AddFails(c)
  BY <1>3 DEF AddFails, GiveUp
<1>4. CASE \E c \in Commands : Timeout(c)
  BY <1>4 DEF Timeout
<1>5. CASE TakeEvent
  <2>1. CASE UNCHANGED <<waiters, answers>>
    BY <2>1
  <2>2. CASE \E c \in WaitersFor(output[tail.from + 1]) : Resolve(c, output[tail.from + 1])
    <3>1. PICK c \in WaitersFor(output[tail.from + 1]) : Resolve(c, output[tail.from + 1])
      BY <2>2
    <3>2. c \in waiters /\ c = output[tail.from + 1].corr
      BY <3>1 DEF WaitersFor
    <3> QED
      BY <1>5, <3>1, <3>2 DEF TakeEvent
  <2> QED
    BY <1>5, <2>1, <2>2 DEF TakeEvent
<1>6. CASE Process \/ WaitForEvent \/ TailFails
  BY <1>6 DEF Process, WaitForEvent, TailFails
<1>7. CASE QueryNext \/ UNCHANGED vars
  BY <1>7 DEF QueryNext, Ask, EnqueueQuery, AskFails, QueryTimeout, WaitForQuery, AnswerQuery,
    ServerFails, EngineRestarts, Recover, WaitForReply, TakeReply, QueryTailFails, vars, clientVars
<1> QED
  BY <1>1, <1>2, <1>3, <1>4, <1>5, <1>6, <1>7 DEF Next, ClientNext

\* The promises of queries, in the same way.
LEMMA QueryAnswersStep ==
  ASSUME [Next]_vars
  PROVE  \/ UNCHANGED <<queryAnswers, queryWaiters, told>>
         \/ \E q \in Queries \ DOMAIN queryAnswers :
              /\ queryAnswers' = Extend(queryAnswers, q, Waiting)
              /\ queryWaiters' = queryWaiters \cup {q}
              /\ told' = Extend(told, q, Confirmed)
              /\ UNCHANGED <<input, replies>>
         \/ \E q \in asking \cup queryWaiters : Settle(q, Null) /\ UNCHANGED <<told, replies>>
         \/ \E q \in queryWaiters :
              /\ HasNext(queryTail, replies) /\ UNCHANGED <<input, told, replies>>
              /\ q = replies[queryTail.from + 1].query
              /\ Settle(q, replies[queryTail.from + 1])
<1>1. CASE \E q \in Queries : Ask(q)
  BY <1>1 DEF Ask, clientVars
<1>2. CASE \E q \in Queries : EnqueueQuery(q)
  BY <1>2 DEF EnqueueQuery
<1>3. CASE \E q \in Queries : AskFails(q)
  BY <1>3 DEF AskFails
<1>4. CASE \E q \in Queries : QueryTimeout(q)
  BY <1>4 DEF QueryTimeout
<1>5. CASE TakeReply
  <2>1. CASE UNCHANGED <<queryWaiters, queryAnswers>>
    BY <1>5, <2>1 DEF TakeReply
  <2>2. CASE \E q \in WaiterOf(replies[queryTail.from + 1]) : Settle(q, replies[queryTail.from + 1])
    <3>1. PICK q \in WaiterOf(replies[queryTail.from + 1]) : Settle(q, replies[queryTail.from + 1])
      BY <2>2
    <3>2. q \in queryWaiters /\ q = replies[queryTail.from + 1].query
      BY <3>1 DEF WaiterOf
    <3> QED
      BY <1>5, <3>1, <3>2 DEF TakeReply, clientVars
  <2> QED
    BY <1>5, <2>1, <2>2 DEF TakeReply
<1>6. CASE WaitForQuery \/ AnswerQuery \/ ServerFails \/ EngineRestarts \/ WaitForReply \/ QueryTailFails
  BY <1>6 DEF WaitForQuery, AnswerQuery, ServerFails, EngineRestarts, WaitForReply, QueryTailFails
<1>7. CASE UNCHANGED queryVars
  BY <1>7 DEF queryVars
<1> QED
  BY <1>1, <1>2, <1>3, <1>4, <1>5, <1>6, <1>7 DEF Next, QueryNext, vars

\* The input log: none, one or another kind of move.
LEMMA InputStep ==
  ASSUME [Next]_vars
  PROVE  \/ UNCHANGED <<input, adding>>
         \/ \E c \in DOMAIN answers' \ DOMAIN answers : adding' = adding \cup {c} /\ input' = input
         \/ \E c \in adding : adding' = adding \ {c} /\ input' \in {input, Append(input, c)}
<1>1. CASE \E c \in Commands : Submit(c, Cardinality(DOMAIN queryAnswers))
  BY <1>1 DEF Submit
<1>2. CASE \E c \in Commands : Enqueue(c)
  BY <1>2 DEF Enqueue
<1>3. CASE \E c \in Commands : AddFails(c)
  BY <1>3 DEF AddFails
<1>4. CASE \E c \in Commands : Timeout(c)
  BY <1>4 DEF Timeout
<1>5. CASE Process \/ WaitForEvent \/ TakeEvent \/ TailFails
  BY <1>5 DEF Process, WaitForEvent, TakeEvent, TailFails
<1>6. CASE QueryNext \/ UNCHANGED vars
  BY <1>6 DEF QueryNext, Ask, EnqueueQuery, AskFails, QueryTimeout, WaitForQuery, AnswerQuery,
    ServerFails, EngineRestarts, Recover, WaitForReply, TakeReply, QueryTailFails, vars, clientVars
<1> QED
  BY <1>1, <1>2, <1>3, <1>4, <1>5, <1>6 DEF Next, ClientNext

\* The engine.
LEMMA EngineStep ==
  ASSUME [Next]_vars
  PROVE  \/ UNCHANGED <<taken, output>>
         \/ Process /\ UNCHANGED queryVars
         \/ Recover
<1>1. CASE \E c \in Commands : Submit(c, Cardinality(DOMAIN queryAnswers))
  BY <1>1 DEF Submit
<1>2. CASE \E c \in Commands : Enqueue(c) \/ AddFails(c) \/ Timeout(c)
  BY <1>2 DEF Enqueue, AddFails, Timeout
<1>3. CASE WaitForEvent \/ TakeEvent \/ TailFails
  BY <1>3 DEF WaitForEvent, TakeEvent, TailFails
<1>4. CASE QueryNext \/ UNCHANGED vars
  BY <1>4 DEF QueryNext, Ask, EnqueueQuery, AskFails, QueryTimeout, WaitForQuery, AnswerQuery,
    ServerFails, EngineRestarts, WaitForReply, TakeReply, QueryTailFails, vars, clientVars
<1> QED
  BY <1>1, <1>2, <1>3, <1>4 DEF Next, ClientNext

\* The stream of queries.
LEMMA QueriesStep ==
  ASSUME [Next]_vars
  PROVE  \/ UNCHANGED <<queries, asking>>
         \/ \E q \in DOMAIN queryAnswers' \ DOMAIN queryAnswers :
              asking' = asking \cup {q} /\ queries' = queries
         \/ \E q \in asking : asking' = asking \ {q} /\ queries' \in {queries, Append(queries, q)}
<1>1. CASE \E q \in Queries : Ask(q)
  BY <1>1 DEF Ask, Extend
<1>2. CASE \E q \in Queries : EnqueueQuery(q) \/ AskFails(q) \/ QueryTimeout(q)
  BY <1>2 DEF EnqueueQuery, AskFails, QueryTimeout
<1>3. CASE WaitForQuery \/ AnswerQuery \/ ServerFails \/ EngineRestarts
  BY <1>3 DEF WaitForQuery, AnswerQuery, ServerFails, EngineRestarts
<1>4. CASE WaitForReply \/ TakeReply \/ QueryTailFails
  BY <1>4 DEF WaitForReply, TakeReply, QueryTailFails
<1>5. CASE UNCHANGED queryVars
  BY <1>5 DEF queryVars
<1> QED
  BY <1>1, <1>2, <1>3, <1>4, <1>5 DEF Next, QueryNext, vars

\* Replies are written by the query server only, from what the engine knows.
LEMMA RepliesStep ==
  ASSUME [Next]_vars
  PROVE  \/ UNCHANGED replies
         \/ /\ HasNext(server, queries) /\ UNCHANGED <<input, told, queryAnswers>>
            /\ replies' = Append(replies, [query |-> queries[server.from + 1], taken |-> taken])
<1>1. CASE \E q \in Queries : Ask(q) \/ EnqueueQuery(q) \/ AskFails(q) \/ QueryTimeout(q)
  BY <1>1 DEF Ask, EnqueueQuery, AskFails, QueryTimeout
<1>2. CASE AnswerQuery
  BY <1>2 DEF AnswerQuery, StateNow, clientVars
<1>3. CASE WaitForQuery \/ ServerFails \/ EngineRestarts \/ WaitForReply \/ TakeReply \/ QueryTailFails
  BY <1>3 DEF WaitForQuery, ServerFails, EngineRestarts, WaitForReply, TakeReply, QueryTailFails
<1>4. CASE UNCHANGED queryVars
  BY <1>4 DEF queryVars
<1> QED
  BY <1>1, <1>2, <1>3, <1>4 DEF Next, QueryNext, vars

\* The loops around XREAD.
LEMMA ReadersStep ==
  ASSUME [Next]_vars
  PROVE  /\ \/ tail' \in {tail, Wait(tail, output), Stop(tail)} 
            \/ HasNext(tail, output) /\ tail' = Advance(tail)
         /\ \/ server' \in {server, Wait(server, queries), Stop(server), NewReader}
            \/ HasNext(server, queries) /\ server' = Advance(server)
         /\ \/ queryTail' \in {queryTail, Wait(queryTail, replies), Stop(queryTail)}
            \/ HasNext(queryTail, replies) /\ queryTail' = Advance(queryTail)
<1>1. CASE \E c \in Commands : Submit(c, Cardinality(DOMAIN queryAnswers)) /\ UNCHANGED queryVars
  BY <1>1 DEF Submit, queryVars
<1>2. CASE (\E c \in Commands : Enqueue(c) \/ AddFails(c) \/ Timeout(c)) /\ UNCHANGED queryVars
  BY <1>2 DEF Enqueue, AddFails, Timeout, queryVars
<1>3. CASE (Process \/ WaitForEvent \/ TakeEvent \/ TailFails) /\ UNCHANGED queryVars
  BY <1>3 DEF Process, WaitForEvent, TakeEvent, TailFails, queryVars
<1>4. CASE \E q \in Queries : Ask(q) \/ EnqueueQuery(q) \/ AskFails(q) \/ QueryTimeout(q)
  BY <1>4 DEF Ask, EnqueueQuery, AskFails, QueryTimeout, clientVars
<1>5. CASE WaitForQuery \/ AnswerQuery \/ ServerFails \/ EngineRestarts
  BY <1>5 DEF WaitForQuery, AnswerQuery, ServerFails, EngineRestarts, Recover, clientVars
<1>6. CASE WaitForReply \/ TakeReply \/ QueryTailFails
  BY <1>6 DEF WaitForReply, TakeReply, QueryTailFails, clientVars
<1>7. CASE UNCHANGED vars
  BY <1>7 DEF vars, clientVars, queryVars
<1> QED
  BY <1>1, <1>2, <1>3, <1>4, <1>5, <1>6, <1>7 DEF Next, ClientNext, QueryNext

LEMMA FailuresStep ==
  ASSUME [Next]_vars
  PROVE  UNCHANGED failures \/ (failures < MaxFailures /\ failures' = failures + 1)
<1>1. CASE \E c \in Commands : Submit(c, Cardinality(DOMAIN queryAnswers))
  BY <1>1 DEF Submit
<1>2. CASE \E c \in Commands : Enqueue(c) \/ AddFails(c) \/ Timeout(c)
  BY <1>2 DEF Enqueue, AddFails, Timeout
<1>3. CASE Process \/ WaitForEvent \/ TakeEvent \/ TailFails
  BY <1>3 DEF Process, WaitForEvent, TakeEvent, TailFails, Fails
<1>4. CASE \E q \in Queries : Ask(q) \/ EnqueueQuery(q) \/ AskFails(q) \/ QueryTimeout(q)
  BY <1>4 DEF Ask, EnqueueQuery, AskFails, QueryTimeout, clientVars
<1>5. CASE WaitForQuery \/ AnswerQuery \/ ServerFails \/ EngineRestarts
  BY <1>5 DEF WaitForQuery, AnswerQuery, ServerFails, Fails, EngineRestarts, Recover, clientVars
<1>6. CASE WaitForReply \/ TakeReply \/ QueryTailFails
  BY <1>6 DEF WaitForReply, TakeReply, QueryTailFails, Fails, clientVars
<1>7. CASE UNCHANGED vars
  BY <1>7 DEF vars, clientVars
<1> QED
  BY <1>1, <1>2, <1>3, <1>4, <1>5, <1>6, <1>7 DEF Next, ClientNext, QueryNext

-----------------------------------------------------------------------------
(* What grows *)

\* The events of one command: all about it, and a rejection is alone.
LEMMA OutcomesOf ==
  ASSUME NEW c \in Commands, NEW events \in Outcomes(c)
  PROVE  /\ events \in Seq(Event)
         /\ \A k \in DOMAIN events : events[k].corr = c
         /\ \A k, l \in DOMAIN events :
              events[k].type = "order.rejected" => events[l].type = "order.rejected"
<1>1. CASE events = <<Rejected(c)>>
  BY <1>1 DEF Rejected, Event
<1>2. CASE c \in Places /\ events = <<Accepted(c, c)>>
  BY <1>2 DEF Accepted, Event
<1>3. CASE c \in Places /\ \E m \in Makers : events = <<Accepted(c, m), Accepted(c, c)>>
  <2>1. PICK m \in Makers : events = <<Accepted(c, m), Accepted(c, c)>>
    BY <1>3
  <2>2. m \in Commands
    BY DEF Makers, Commands
  <2>3. Accepted(c, m) \in Event /\ Accepted(c, c) \in Event
    BY <2>2 DEF Accepted, Event
  <2>4. Accepted(c, m).corr = c /\ Accepted(c, c).corr = c
        /\ Accepted(c, m).type # "order.rejected" /\ Accepted(c, c).type # "order.rejected"
    BY DEF Accepted
  <2> HIDE DEF Accepted
  <2> QED
    BY <2>1, <2>3, <2>4
<1>4. CASE events = <<[corr |-> c, order |-> c, type |-> "order.cancelled"]>>
  BY <1>4 DEF Event
<1> QED
  BY <1>1, <1>2, <1>3, <1>4 DEF Outcomes

-----------------------------------------------------------------------------
(* Waiters *)

\* Settling a promise takes the waiter with it.
LEMMA WaiterStep ==
  ASSUME TypeOK, WaiterWhileOpen, [Next]_vars
  PROVE  WaiterWhileOpen'
<1>1. waiters = {c \in DOMAIN answers : answers[c] = Waiting}
      /\ queryWaiters = {q \in DOMAIN queryAnswers : queryAnswers[q] = Waiting}
  BY DEF WaiterWhileOpen
<1>2. adding \subseteq DOMAIN answers /\ asking \subseteq DOMAIN queryAnswers
      /\ output \in Seq(Event) /\ replies \in Seq(Answer)
  BY DEF TypeOK
<1>3. waiters' = {c \in DOMAIN answers' : answers'[c] = Waiting}
  <2>1. CASE UNCHANGED <<answers, waiters>>
    BY <1>1, <2>1
  <2>2. ASSUME NEW c \in Commands \ DOMAIN answers,
               answers' = [d \in DOMAIN answers \cup {c} |-> IF d = c THEN Waiting ELSE answers[d]],
               waiters' = waiters \cup {c}
        PROVE  waiters' = {d \in DOMAIN answers' : answers'[d] = Waiting}
    BY <1>1, <2>2
  <2>3. ASSUME NEW c \in adding \cup waiters, NEW a, a # Waiting, Resolve(c, a)
        PROVE  waiters' = {d \in DOMAIN answers' : answers'[d] = Waiting}
    <3>1. c \in DOMAIN answers
      BY <1>1, <1>2
    <3>2. CASE answers[c] = Waiting
      BY <1>1, <2>3, <3>1, <3>2 DEF Resolve
    <3>3. CASE answers[c] # Waiting
      BY <1>1, <2>3, <3>1, <3>3 DEF Resolve
    <3> QED
      BY <3>2, <3>3
  <2>4. Null # Waiting /\ (HasNext(tail, output) => output[tail.from + 1] # Waiting)
    <3>1. ASSUME HasNext(tail, output)
          PROVE  output[tail.from + 1] \in Event
      <4>1. Len(output) \in Nat /\ tail.from + 1 \in 1..Len(output)
        BY <1>2, <3>1, LenProperties DEF HasNext
      <4> QED
        BY <1>2, <4>1, ElementOfSeq
    <3> QED
      BY <3>1, ApiAssumption
  <2> QED
    BY <2>1, <2>2, <2>3, <2>4, AnswersStep
<1>4. queryWaiters' = {q \in DOMAIN queryAnswers' : queryAnswers'[q] = Waiting}
  <2>1. CASE UNCHANGED <<queryAnswers, queryWaiters>>
    BY <1>1, <2>1
  <2>2. ASSUME NEW q \in Queries \ DOMAIN queryAnswers,
               queryAnswers' = Extend(queryAnswers, q, Waiting),
               queryWaiters' = queryWaiters \cup {q}
        PROVE  queryWaiters' = {d \in DOMAIN queryAnswers' : queryAnswers'[d] = Waiting}
    BY <1>1, <2>2 DEF Extend
  <2>3. ASSUME NEW q \in asking \cup queryWaiters, NEW a, a # Waiting, Settle(q, a)
        PROVE  queryWaiters' = {d \in DOMAIN queryAnswers' : queryAnswers'[d] = Waiting}
    <3>1. q \in DOMAIN queryAnswers
      BY <1>1, <1>2
    <3>2. CASE queryAnswers[q] = Waiting
      BY <1>1, <2>3, <3>1, <3>2 DEF Settle
    <3>3. CASE queryAnswers[q] # Waiting
      BY <1>1, <2>3, <3>1, <3>3 DEF Settle
    <3> QED
      BY <3>2, <3>3
  <2>4. Null # Waiting /\ (HasNext(queryTail, replies) => replies[queryTail.from + 1] # Waiting)
    <3>1. ASSUME HasNext(queryTail, replies)
          PROVE  replies[queryTail.from + 1] \in Answer
      <4>1. Len(replies) \in Nat /\ queryTail.from + 1 \in 1..Len(replies)
        BY <1>2, <3>1, LenProperties DEF HasNext
      <4> QED
        BY <1>2, <4>1, ElementOfSeq
    <3> QED
      BY <3>1, ApiAssumption, QueryAssumption
  <2> QED
    BY <2>1, <2>2, <2>3, <2>4, QueryAnswersStep
<1> QED
  BY <1>3, <1>4 DEF WaiterWhileOpen

-----------------------------------------------------------------------------
(* Types *)

\* Steps of a loop keep it a reader, and within its stream.
LEMMA ReaderStays ==
  ASSUME NEW r \in Reader, NEW s, NEW rr, Len(s) \in Nat,
         rr \in {r, Wait(r, s), Stop(r), NewReader} \/ (HasNext(r, s) /\ rr = Advance(r))
  PROVE  rr \in Reader
<1>1. r = [from |-> r.from, started |-> r.started] /\ r.started \in BOOLEAN
      /\ r.from \in Nat \cup {NotReading, Stopped}
  BY DEF Reader
<1>2. CASE rr = Wait(r, s)
  <2>1. rr = [from |-> IF r.from = NotReading THEN Len(s) ELSE NotReading, started |-> r.started]
    BY <1>1, <1>2 DEF Wait
  <2> QED
    BY <1>1, <2>1 DEF Reader
<1>3. CASE rr = Stop(r)
  <2>1. rr = [from |-> Stopped, started |-> r.started]
    BY <1>1, <1>3 DEF Stop
  <2> QED
    BY <1>1, <2>1 DEF Reader
<1>4. CASE rr = NewReader
  BY <1>4 DEF NewReader, Reader
<1>5. CASE HasNext(r, s) /\ rr = Advance(r)
  BY <1>5 DEF HasNext, Advance, Reader
<1> QED
  BY <1>2, <1>3, <1>4, <1>5

LEMMA ReaderWithin ==
  ASSUME NEW r \in Reader, NEW s, NEW n \in Nat, NEW rr, Len(s) \in Nat, Len(s) <= n,
         r.from \in {NotReading, Stopped} \cup (0..Len(s)),
         rr \in {r, Wait(r, s), Stop(r)} \/ (HasNext(r, s) /\ rr = Advance(r))
  PROVE  rr.from \in {NotReading, Stopped} \cup (0..n)
<1>1. r = [from |-> r.from, started |-> r.started]
  BY DEF Reader
<1>2. CASE rr = Wait(r, s)
  <2>1. rr.from = IF r.from = NotReading THEN Len(s) ELSE NotReading
    BY <1>1, <1>2 DEF Wait
  <2> QED
    BY <2>1
<1>3. CASE rr = Stop(r)
  BY <1>1, <1>3 DEF Stop
<1>4. CASE HasNext(r, s) /\ rr = Advance(r)
  BY <1>4 DEF HasNext, Advance
<1> QED
  BY <1>2, <1>3, <1>4

LEMMA TypeStep ==
  ASSUME TypeOK, WaiterWhileOpen, InputInv, [Next]_vars
  PROVE  /\ TypeOK'
         /\ input' \in Seq(Commands) /\ queries' \in Seq(Queries)
         /\ {tail, server, queryTail}' \subseteq Reader
<1>1. /\ DOMAIN answers \subseteq Commands
      /\ \A c \in DOMAIN answers : answers[c] \in {Waiting, Null} \cup Event
      /\ ToSet(input) \cup adding \subseteq DOMAIN answers
      /\ output \in Seq(Event) /\ input \in Seq(Commands) /\ taken \in 0..Len(input)
      /\ DOMAIN queryAnswers \subseteq Queries /\ DOMAIN told = DOMAIN queryAnswers
      /\ \A q \in DOMAIN queryAnswers : queryAnswers[q] \in {Waiting, Null} \cup Answer
      /\ ToSet(queries) \cup asking \subseteq DOMAIN queryAnswers
      /\ queries \in Seq(Queries) /\ replies \in Seq(Answer)
      /\ waiters \subseteq DOMAIN answers /\ queryWaiters \subseteq DOMAIN queryAnswers
  BY DEF TypeOK, InputInv, WaiterWhileOpen
<1>2. /\ Len(input) \in Nat /\ Len(output) \in Nat /\ Len(queries) \in Nat /\ Len(replies) \in Nat
      /\ DOMAIN input = 1..Len(input) /\ DOMAIN queries = 1..Len(queries)
  BY <1>1, LenProperties
<1>3. /\ HasNext(tail, output) => output[tail.from + 1] \in Event
      /\ HasNext(queryTail, replies) => replies[queryTail.from + 1] \in Answer
      /\ HasNext(server, queries) => queries[server.from + 1] \in Queries
  <2>1. HasNext(tail, output) => tail.from + 1 \in 1..Len(output)
    BY <1>2 DEF HasNext
  <2>2. HasNext(queryTail, replies) => queryTail.from + 1 \in 1..Len(replies)
    BY <1>2 DEF HasNext
  <2>3. HasNext(server, queries) => server.from + 1 \in 1..Len(queries)
    BY <1>2 DEF HasNext
  <2> QED
    BY <1>1, <2>1, <2>2, <2>3, ElementOfSeq
<1>4. /\ DOMAIN answers' \subseteq Commands /\ DOMAIN answers \subseteq DOMAIN answers'
      /\ \A c \in DOMAIN answers' : answers'[c] \in {Waiting, Null} \cup Event
  BY <1>1, <1>3, AnswersStep DEF Resolve
<1>5. /\ DOMAIN queryAnswers' \subseteq Queries /\ DOMAIN told' = DOMAIN queryAnswers'
      /\ DOMAIN queryAnswers \subseteq DOMAIN queryAnswers'
      /\ \A q \in DOMAIN queryAnswers' : queryAnswers'[q] \in {Waiting, Null} \cup Answer
  BY <1>1, <1>3, QueryAnswersStep DEF Settle, Extend
<1>6. /\ input' \in Seq(Commands) /\ Len(input') \in Nat /\ Len(input) <= Len(input')
      /\ ToSet(input') \cup adding' \subseteq DOMAIN answers'
  <2>1. CASE input' = input /\ adding' \subseteq DOMAIN answers'
    BY <1>1, <1>2, <1>4, <2>1
  <2>2. ASSUME NEW c \in adding, adding' = adding \ {c}, input' = Append(input, c)
        PROVE  input' \in Seq(Commands) /\ Len(input') \in Nat /\ Len(input) <= Len(input')
               /\ ToSet(input') \cup adding' \subseteq DOMAIN answers'
    <3>1. c \in DOMAIN answers /\ c \in Commands
      BY <1>1
    <3>2. input' \in Seq(Commands) /\ Len(input') = Len(input) + 1
          /\ \A i \in DOMAIN input' : input'[i] = c \/ (i \in DOMAIN input /\ input'[i] = input[i])
      BY <1>1, <2>2, <3>1, Appended
    <3>3. ToSet(input') \subseteq ToSet(input) \cup {c}
      BY <3>2 DEF ToSet
    <3> QED
      BY <1>1, <1>2, <1>4, <2>2, <3>1, <3>2, <3>3
  <2> QED
    BY <1>1, <1>4, <2>1, <2>2, InputStep
<1>7. /\ queries' \in Seq(Queries) /\ Len(queries') \in Nat /\ Len(queries) <= Len(queries')
      /\ ToSet(queries') \cup asking' \subseteq DOMAIN queryAnswers'
  <2>1. CASE queries' = queries /\ asking' \subseteq DOMAIN queryAnswers'
    BY <1>1, <1>2, <1>5, <2>1
  <2>2. ASSUME NEW q \in asking, asking' = asking \ {q}, queries' = Append(queries, q)
        PROVE  /\ queries' \in Seq(Queries) /\ Len(queries') \in Nat /\ Len(queries) <= Len(queries')
               /\ ToSet(queries') \cup asking' \subseteq DOMAIN queryAnswers'
    <3>1. q \in DOMAIN queryAnswers /\ q \in Queries
      BY <1>1
    <3>2. queries' \in Seq(Queries) /\ Len(queries') = Len(queries) + 1
          /\ \A i \in DOMAIN queries' : queries'[i] = q \/ (i \in DOMAIN queries /\ queries'[i] = queries[i])
      BY <1>1, <2>2, <3>1, Appended
    <3>3. ToSet(queries') \subseteq ToSet(queries) \cup {q}
      BY <3>2 DEF ToSet
    <3> QED
      BY <1>1, <1>2, <1>5, <2>2, <3>1, <3>2, <3>3
  <2> QED
    BY <1>1, <1>5, <2>1, <2>2, QueriesStep
<1>8. /\ output' \in Seq(Event) /\ Len(output') \in Nat /\ Len(output) <= Len(output')
      /\ taken' \in 0..Len(input')
  <2>1. CASE UNCHANGED <<taken, output>>
    BY <1>1, <1>2, <1>6, <2>1
  <2>2. CASE Process
    <3>1. taken + 1 \in 1..Len(input) /\ taken' = taken + 1 /\ input' = input
      BY <1>1, <1>2, <2>2 DEF Process
    <3>2. input[taken + 1] \in Commands
      BY <1>1, <3>1, ElementOfSeq
    <3>3. PICK events \in Outcomes(input[taken + 1]) : output' = output \o events
      BY <2>2 DEF Process
    <3>4. events \in Seq(Event)
      BY <3>2, OutcomesOf
    <3>5. output' \in Seq(Event) /\ Len(output') = Len(output) + Len(events) /\ Len(events) \in Nat
      BY <1>1, <3>3, <3>4, Joined
    <3> QED
      BY <1>2, <3>1, <3>5
  <2>3. CASE Recover
    BY <1>1, <1>2, <2>3 DEF Recover
  <2> QED
    BY <2>1, <2>2, <2>3, EngineStep
<1>9. replies' \in Seq(Answer) /\ Len(replies') \in Nat /\ Len(replies) <= Len(replies')
  <2>1. CASE UNCHANGED replies
    BY <1>1, <1>2, <2>1
  <2>2. CASE HasNext(server, queries)
             /\ replies' = Append(replies, [query |-> queries[server.from + 1], taken |-> taken])
    <3> DEFINE reply == [query |-> queries[server.from + 1], taken |-> taken]
    <3>1. reply \in Answer
      BY <1>1, <1>2, <1>3, <2>2 DEF Answer
    <3>2. replies' = Append(replies, reply)
      BY <2>2
    <3> HIDE DEF reply
    <3>3. replies' \in Seq(Answer) /\ Len(replies') = Len(replies) + 1
      BY <1>1, <3>1, <3>2, Appended
    <3> QED
      BY <1>2, <3>3
  <2> QED
    BY <2>1, <2>2, RepliesStep
<1>10. /\ {tail', server', queryTail'} \subseteq Reader
       /\ tail'.from \in {NotReading, Stopped} \cup (0..Len(output'))
  <2>1. {tail, server, queryTail} \subseteq Reader
        /\ tail.from \in {NotReading, Stopped} \cup (0..Len(output))
    BY DEF TypeOK, InputInv
  <2>2. tail' \in Reader
    BY <1>2, <2>1, ReadersStep, ReaderStays
  <2>3. server' \in Reader
    BY <1>2, <2>1, ReadersStep, ReaderStays
  <2>4. queryTail' \in Reader
    BY <1>2, <2>1, ReadersStep, ReaderStays
  <2>5. tail'.from \in {NotReading, Stopped} \cup (0..Len(output'))
    BY <1>2, <1>8, <2>1, ReadersStep, ReaderWithin
  <2> QED
    BY <2>2, <2>3, <2>4, <2>5
<1>12. failures' \in 0..MaxFailures
  BY FailuresStep, ApiAssumption DEF TypeOK
<1>13. TypeOK'
  BY <1>4, <1>5, <1>6, <1>7, <1>8, <1>9, <1>10, <1>12 DEF TypeOK
<1> QED
  BY <1>6, <1>7, <1>10, <1>13

-----------------------------------------------------------------------------
(* The log and the output *)

\* What is in the log stays where it is, and the engine does not forget.
LEMMA LogGrows ==
  ASSUME TypeOK, WaiterWhileOpen, InputInv, [Next]_vars
  PROVE  /\ Len(input) \in Nat /\ Len(input') \in Nat /\ Len(input) <= Len(input')
         /\ DOMAIN input = 1..Len(input) /\ DOMAIN input' = 1..Len(input')
         /\ \A i \in DOMAIN input : input'[i] = input[i]
         /\ taken \in 0..Len(input) /\ taken' \in 0..Len(input') /\ taken <= taken'
<1>1. input \in Seq(Commands) /\ adding \subseteq Commands /\ taken \in 0..Len(input)
      /\ input' \in Seq(Commands) /\ taken' \in 0..Len(input')
  BY TypeStep DEF TypeOK, InputInv
<1>2. /\ Len(input) \in Nat /\ Len(input') \in Nat
      /\ DOMAIN input = 1..Len(input) /\ DOMAIN input' = 1..Len(input')
  BY <1>1, LenProperties
<1>3. Len(input) <= Len(input') /\ \A i \in DOMAIN input : input'[i] = input[i]
  <2>1. ASSUME NEW c \in adding, input' = Append(input, c)
        PROVE  Len(input) <= Len(input') /\ \A i \in DOMAIN input : input'[i] = input[i]
    BY <1>1, <1>2, <2>1, Appended
  <2>2. CASE input' = input
    BY <1>2, <2>2
  <2> QED
    BY <2>1, <2>2, InputStep
<1>4. taken <= taken'
  BY <1>1, <1>2, EngineStep DEF Process, Recover
<1> QED
  BY <1>1, <1>2, <1>3, <1>4

LEMMA ProcessedGrows ==
  ASSUME TypeOK, WaiterWhileOpen, InputInv, [Next]_vars
  PROVE  Processed \subseteq Processed'
<1>1. \A i \in 1..taken : i \in 1..taken' /\ input'[i] = input[i]
  BY LogGrows
<1> QED
  BY <1>1 DEF Processed

LEMMA InputStays ==
  ASSUME TypeOK, WaiterWhileOpen, InputInv, [Next]_vars
  PROVE  InputInv'
<1>1. /\ input \in Seq(Commands) /\ adding \subseteq DOMAIN answers /\ ToSet(input) \subseteq DOMAIN answers
      /\ \A i, j \in DOMAIN input : input[i] = input[j] => i = j
      /\ \A i \in DOMAIN input : input[i] \notin adding
      /\ DOMAIN answers \subseteq Commands
  BY DEF TypeOK, InputInv
<1>2. /\ \A i, j \in DOMAIN input' : input'[i] = input'[j] => i = j
      /\ \A i \in DOMAIN input' : input'[i] \notin adding'
  <2>1. CASE UNCHANGED <<input, adding>>
    BY <1>1, <2>1
  <2>2. ASSUME NEW c \in DOMAIN answers' \ DOMAIN answers, adding' = adding \cup {c}, input' = input
        PROVE  /\ \A i, j \in DOMAIN input' : input'[i] = input'[j] => i = j
               /\ \A i \in DOMAIN input' : input'[i] \notin adding'
    <3>1. \A i \in DOMAIN input : input[i] # c
      BY <1>1, InRange
    <3> QED
      BY <1>1, <2>2, <3>1
  <2>3. ASSUME NEW c \in adding, adding' = adding \ {c}, input' = input
        PROVE  /\ \A i, j \in DOMAIN input' : input'[i] = input'[j] => i = j
               /\ \A i \in DOMAIN input' : input'[i] \notin adding'
    BY <1>1, <2>3
  <2>4. ASSUME NEW c \in adding, adding' = adding \ {c}, input' = Append(input, c)
        PROVE  /\ \A i, j \in DOMAIN input' : input'[i] = input'[j] => i = j
               /\ \A i \in DOMAIN input' : input'[i] \notin adding'
    <3>1. /\ DOMAIN input' = 1..(Len(input) + 1) /\ input'[Len(input) + 1] = c
          /\ \A i \in DOMAIN input : input'[i] = input[i]
          /\ \A i \in DOMAIN input' : i \in DOMAIN input \/ i = Len(input) + 1
      BY <1>1, <2>4, Appended
    <3> QED
      BY <1>1, <2>4, <3>1
  <2> QED
    BY <2>1, <2>2, <2>3, <2>4, InputStep
<1> QED
  BY <1>2, TypeStep DEF InputInv

\* The events of a command that has just been processed are the first about it.
LEMMA OutputStep ==
  ASSUME TypeOK, WaiterWhileOpen, InputInv, OutputInv, [Next]_vars
  PROVE  /\ OutputInv'
         /\ \A k \in DOMAIN output : k \in DOMAIN output' /\ output'[k] = output[k]
<1>1. /\ \A k \in DOMAIN output : output[k].corr \in Processed
      /\ \A k, l \in DOMAIN output :
           output[k].corr = output[l].corr /\ output[k].type = "order.rejected"
             => output[l].type = "order.rejected"
      /\ output \in Seq(Event) /\ input \in Seq(Commands) /\ taken \in 0..Len(input)
  BY DEF OutputInv, TypeOK, InputInv
<1>2. Processed \subseteq Processed'
  BY ProcessedGrows
<1>3. CASE output' = output
  BY <1>1, <1>2, <1>3 DEF OutputInv
<1>4. CASE Process
  <2> DEFINE c == input[taken + 1]
  <2>1. taken + 1 \in 1..Len(input) /\ taken' = taken + 1 /\ input' = input /\ Len(input) \in Nat
        /\ DOMAIN input = 1..Len(input)
    BY <1>1, <1>4, LenProperties DEF Process
  <2>2. c \in Commands
    BY <1>1, <2>1, ElementOfSeq
  <2>3. PICK events \in Outcomes(c) : output' = output \o events
    BY <1>4 DEF Process
  <2>4. c \in Processed'
    BY <2>1 DEF Processed
  <2>5. c \notin Processed
    <3>1. \A i \in 1..taken : i \in DOMAIN input /\ taken + 1 \in DOMAIN input /\ i # taken + 1
      BY <1>1, <2>1
    <3> QED
      BY <3>1 DEF Processed, InputInv
  <2> HIDE DEF c
  <2>6. /\ events \in Seq(Event)
        /\ \A k \in DOMAIN events : events[k].corr = c
        /\ \A k, l \in DOMAIN events :
             events[k].type = "order.rejected" => events[l].type = "order.rejected"
    BY <2>2, <2>3, OutcomesOf
  <2>7. /\ \A k \in DOMAIN output : k \in DOMAIN output' /\ output'[k] = output[k]
        /\ \A k \in DOMAIN output' :
             k \in DOMAIN output \/ (k - Len(output) \in DOMAIN events
                                     /\ output'[k] = events[k - Len(output)])
    BY <1>1, <2>3, <2>6, Joined
  <2>8. \A k \in DOMAIN output' : output'[k].corr \in Processed'
    BY <1>1, <1>2, <2>4, <2>6, <2>7
  <2>9. \A k, l \in DOMAIN output' :
          output'[k].corr = output'[l].corr /\ output'[k].type = "order.rejected"
            => output'[l].type = "order.rejected"
    <3>1. \A k \in DOMAIN output' : k \in DOMAIN output => output'[k].corr # c
      BY <1>1, <2>5, <2>7
    <3>2. \A k \in DOMAIN output' : k \notin DOMAIN output => output'[k].corr = c
      BY <2>6, <2>7
    <3> QED
      BY <1>1, <2>6, <2>7, <3>1, <3>2
  <2> QED
    BY <2>7, <2>8, <2>9 DEF OutputInv
<1> QED
  BY <1>3, <1>4, EngineStep DEF Recover, OutputInv

-----------------------------------------------------------------------------
(* Answers *)

LEMMA AnswerStays ==
  ASSUME TypeOK, WaiterWhileOpen, InputInv, OutputInv, AnswerInv, [Next]_vars
  PROVE  AnswerInv'
<1>1. \A c \in DOMAIN answers : answers[c] \in Event =>
        \E k \in DOMAIN output : answers[c] = output[k] /\ output[k].corr = c
  BY DEF AnswerInv
<1>2. \A k \in DOMAIN output : k \in DOMAIN output' /\ output'[k] = output[k]
  BY OutputStep
<1>3. Null \notin Event /\ Waiting \notin Event
  BY ApiAssumption
<1>4. ASSUME NEW c \in DOMAIN answers', answers'[c] \in Event
      PROVE  \E k \in DOMAIN output' : answers'[c] = output'[k] /\ output'[k].corr = c
  <2>1. CASE c \in DOMAIN answers /\ answers'[c] = answers[c]
    BY <1>1, <1>2, <1>4, <2>1
  <2>2. CASE ~(c \in DOMAIN answers /\ answers'[c] = answers[c])
    <3>1. /\ HasNext(tail, output) /\ UNCHANGED output
          /\ c = output[tail.from + 1].corr /\ answers'[c] = output[tail.from + 1]
      BY <1>3, <1>4, <2>2, AnswersStep DEF Resolve
    <3>2. tail.from + 1 \in DOMAIN output
      <4>1. Len(output) \in Nat /\ DOMAIN output = 1..Len(output)
        BY LenProperties DEF TypeOK
      <4> QED
        BY <3>1, <4>1 DEF HasNext
    <3> QED
      BY <3>1, <3>2
  <2> QED
    BY <2>1, <2>2
<1> QED
  BY <1>4 DEF AnswerInv

-----------------------------------------------------------------------------
(* Queries *)

\* What has been confirmed has been processed.
LEMMA ConfirmedProcessed ==
  ASSUME OutputInv, AnswerInv
  PROVE  Confirmed \subseteq Processed
<1> SUFFICES ASSUME NEW c \in DOMAIN answers, answers[c] \in Event
             PROVE  c \in Processed
  BY DEF Confirmed
<1>1. PICK k \in DOMAIN output : answers[c] = output[k] /\ output[k].corr = c
  BY DEF AnswerInv
<1> QED
  BY <1>1 DEF OutputInv

\* An answer that showed what it had to show still does.
LEMMA ShownStays ==
  ASSUME TypeOK, WaiterWhileOpen, InputInv, [Next]_vars,
         NEW answer \in Answer, answer.query \in DOMAIN told, Shows(answer)
  PROVE  /\ answer.query \in DOMAIN told'
         /\ answer.taken <= Len(input')
         /\ told'[answer.query] \subseteq {input'[j] : j \in 1..answer.taken}
<1>1. answer.taken \in Nat
  BY DEF Answer
<1>2. answer.query \in DOMAIN told' /\ told'[answer.query] = told[answer.query]
  <2>1. DOMAIN told = DOMAIN queryAnswers
    BY DEF TypeOK
  <2>2. CASE UNCHANGED told
    BY <2>2
  <2>3. CASE \E q \in Queries \ DOMAIN queryAnswers : told' = Extend(told, q, Confirmed)
    BY <2>1, <2>3 DEF Extend
  <2> QED
    BY <2>2, <2>3, QueryAnswersStep
<1>3. /\ answer.taken <= Len(input)
      /\ told[answer.query] \subseteq {input[j] : j \in 1..answer.taken}
  BY DEF Shows
<1>4. answer.taken <= Len(input') /\ \A j \in 1..answer.taken : input'[j] = input[j]
  BY <1>1, <1>3, LogGrows
<1> QED
  BY <1>2, <1>3, <1>4

LEMMA QueryStays ==
  ASSUME TypeOK, WaiterWhileOpen, InputInv, OutputInv, AnswerInv, QueryInv, [Next]_vars
  PROVE  QueryInv'
<1>1. /\ DOMAIN told = DOMAIN queryAnswers /\ queryWaiters \subseteq DOMAIN queryAnswers
      /\ replies \in Seq(Answer) /\ asking \subseteq DOMAIN queryAnswers
      /\ ToSet(queries) \subseteq DOMAIN queryAnswers /\ queries \in Seq(Queries)
      /\ DOMAIN queryAnswers \subseteq Queries
  BY DEF TypeOK, WaiterWhileOpen, InputInv
<1>2. /\ \A q \in DOMAIN told : told[q] \subseteq Processed
      /\ \A i \in DOMAIN replies : replies[i].query \in DOMAIN told /\ Shows(replies[i])
      /\ \A q \in DOMAIN queryAnswers : queryAnswers[q] \in Answer =>
           queryAnswers[q].query = q /\ Shows(queryAnswers[q])
  BY DEF QueryInv
<1>3. Null \notin Answer /\ Waiting \notin Answer
  BY QueryAssumption
<1>4. ASSUME NEW q \in DOMAIN told'
      PROVE  told'[q] \subseteq Processed'
  <2>1. CASE q \in DOMAIN told /\ told'[q] = told[q]
    BY <1>2, <2>1, ProcessedGrows
  <2>2. CASE ~(q \in DOMAIN told /\ told'[q] = told[q])
    <3>1. told'[q] = Confirmed
      BY <1>1, <1>4, <2>2, QueryAnswersStep DEF Extend
    <3> QED
      BY <3>1, ConfirmedProcessed, ProcessedGrows
  <2> QED
    BY <2>1, <2>2
<1>5. ASSUME NEW i \in DOMAIN replies
      PROVE  /\ replies[i].query \in DOMAIN told'
             /\ replies[i].taken <= Len(input')
             /\ told'[replies[i].query] \subseteq {input'[j] : j \in 1..replies[i].taken}
  <2>1. replies[i] \in Answer
    BY <1>1, ElementOfSeq, LenProperties
  <2> QED
    BY <1>2, <2>1, ShownStays
<1>6. ASSUME NEW i \in DOMAIN replies'
      PROVE  /\ replies'[i].query \in DOMAIN told'
             /\ replies'[i].taken <= Len(input')
             /\ told'[replies'[i].query] \subseteq {input'[j] : j \in 1..replies'[i].taken}
  <2>1. CASE UNCHANGED replies
    BY <1>5, <1>6, <2>1
  <2>2. CASE /\ HasNext(server, queries) /\ UNCHANGED <<input, told, queryAnswers>>
             /\ replies' = Append(replies, [query |-> queries[server.from + 1], taken |-> taken])
    <3> DEFINE q == queries[server.from + 1]
               reply == [query |-> q, taken |-> taken]
    <3>1. server.from + 1 \in DOMAIN queries
      <4>1. Len(queries) \in Nat /\ DOMAIN queries = 1..Len(queries)
        BY <1>1, LenProperties
      <4> QED
        BY <2>2, <4>1 DEF HasNext
    <3>2. q \in DOMAIN told /\ q \in Queries
      BY <1>1, <3>1, InRange
    <3>3. taken \in Nat /\ taken <= Len(input)
      BY LogGrows
    <3>4. told[q] \subseteq {input[j] : j \in 1..taken}
      BY <1>2, <3>2 DEF Processed
    <3>5. reply \in Answer /\ reply.query = q /\ reply.taken = taken
      BY <3>2, <3>3 DEF Answer
    <3>6. replies' = Append(replies, reply)
      BY <2>2
    <3> HIDE DEF q, reply
    <3>7. (i \in DOMAIN replies /\ replies'[i] = replies[i]) \/ replies'[i] = reply
      BY <1>1, <1>6, <3>5, <3>6, Appended
    <3> QED
      BY <1>5, <2>2, <3>2, <3>3, <3>4, <3>5, <3>7
  <2> QED
    BY <2>1, <2>2, RepliesStep
<1>7. ASSUME NEW q \in DOMAIN queryAnswers', queryAnswers'[q] \in Answer
      PROVE  /\ queryAnswers'[q].query = q
             /\ queryAnswers'[q].taken <= Len(input')
             /\ told'[queryAnswers'[q].query] \subseteq
                  {input'[j] : j \in 1..queryAnswers'[q].taken}
  <2>1. CASE q \in DOMAIN queryAnswers /\ queryAnswers'[q] = queryAnswers[q]
    <3>1. /\ queryAnswers[q] \in Answer /\ queryAnswers[q].query = q /\ Shows(queryAnswers[q])
          /\ queryAnswers[q].query \in DOMAIN told
      BY <1>1, <1>2, <1>7, <2>1
    <3> QED
      BY <2>1, <3>1, ShownStays
  <2>2. CASE ~(q \in DOMAIN queryAnswers /\ queryAnswers'[q] = queryAnswers[q])
    <3> DEFINE k == queryTail.from + 1
    <3>1. /\ HasNext(queryTail, replies)
          /\ q = replies[k].query /\ queryAnswers'[q] = replies[k]
      BY <1>1, <1>3, <1>7, <2>2, QueryAnswersStep DEF Settle, Extend
    <3>2. k \in DOMAIN replies
      <4>1. Len(replies) \in Nat /\ DOMAIN replies = 1..Len(replies)
        BY <1>1, LenProperties
      <4> QED
        BY <3>1, <4>1 DEF HasNext
    <3> HIDE DEF k
    <3> QED
      BY <1>5, <3>1, <3>2
  <2> QED
    BY <2>1, <2>2
<1> QED
  BY <1>4, <1>6, <1>7 DEF QueryInv, Shows

-----------------------------------------------------------------------------
(* The invariant *)

LEMMA InitInv ==
  ASSUME Init
  PROVE  ApiInv
<1>1. /\ input = <<>> /\ output = <<>> /\ queries = <<>> /\ replies = <<>>
      /\ adding = {} /\ asking = {} /\ waiters = {} /\ queryWaiters = {}
      /\ DOMAIN answers = {} /\ DOMAIN queryAnswers = {} /\ DOMAIN told = {}
      /\ taken = 0 /\ failures = 0 /\ {tail, server, queryTail} \subseteq Reader
      /\ tail.from = NotReading
  BY DEF Init, ClientInit, NewReader, Reader
<1>2. ToSet(input) = {} /\ ToSet(queries) = {} /\ Len(input) = 0
  BY <1>1 DEF ToSet
<1>3. TypeOK
  BY <1>1, <1>2, ApiAssumption DEF TypeOK
<1>4. WaiterWhileOpen /\ InputInv /\ OutputInv /\ AnswerInv /\ QueryInv
  BY <1>1 DEF WaiterWhileOpen, InputInv, OutputInv, AnswerInv, QueryInv
<1> QED
  BY <1>3, <1>4 DEF ApiInv

LEMMA InvStep ==
  ASSUME ApiInv, [Next]_vars
  PROVE  ApiInv'
BY TypeStep, WaiterStep, InputStays, OutputStep, AnswerStays, QueryStays DEF ApiInv

\* The inductive invariant holds throughout, for any number of commands and
\* queries, requests and failures.
THEOREM Invariant == Spec => []ApiInv
BY InitInv, InvStep, PTL DEF Spec

\* Promises, timers, streams and readers keep their types (client.ts:48-92 and
\* 125-169).
THEOREM TypesHold == Spec => []TypeOK
<1>1. ApiInv => TypeOK
  BY DEF ApiInv
<1> QED
  BY <1>1, Invariant, PTL

\* A waiter of client.ts is in its map exactly as long as its promise is open,
\* whichever of the timer, the XADD that fails and the answer comes first
\* (client.ts:62-69, 84-89, 134-147 and 156-169).
THEOREM WaitersWhileOpen == Spec => []WaiterWhileOpen
<1>1. ApiInv => WaiterWhileOpen
  BY DEF ApiInv
<1> QED
  BY <1>1, Invariant, PTL

\* The event that resolves a command is one that the engine wrote about that very
\* command, and an order that its owner is told was rejected is never accepted
\* (client.ts:62-69).
THEOREM AnswersAlwaysTrue == Spec => []AnswersAreTrue
<1>1. ApiInv => AnswersAreTrue
  <2> SUFFICES ASSUME ApiInv, NEW c \in DOMAIN answers, answers[c] \in Event
               PROVE  /\ answers[c] \in Events(c)
                      /\ answers[c].type = "order.rejected" =>
                           Accepted(c, c) \notin ToSet(output)
    BY DEF AnswersAreTrue
  <2>1. PICK k \in DOMAIN output : answers[c] = output[k] /\ output[k].corr = c
    BY DEF ApiInv, AnswerInv
  <2>2. answers[c] \in Events(c)
    BY <2>1, InRange DEF Events
  <2>3. ASSUME answers[c].type = "order.rejected", Accepted(c, c) \in ToSet(output)
        PROVE  FALSE
    <3>1. PICK l \in DOMAIN output : output[l] = Accepted(c, c)
      BY <2>3 DEF ToSet
    <3>2. output[l].corr = c /\ output[l].type = "order.accepted"
      BY <3>1 DEF Accepted
    <3> QED
      BY <2>1, <2>3, <3>2 DEF ApiInv, OutputInv
  <2> QED
    BY <2>2, <2>3
<1> QED
  BY <1>1, Invariant, PTL

\* What engineQuery returns is the reply to that query, and shows every command
\* that had been confirmed when it was asked, although the engine may have died
\* and recovered meanwhile (client.ts:81-89, runtime.ts:158-187).
THEOREM QueriesAlwaysSeeConfirmed == Spec => []QueriesSeeConfirmed
<1>1. ApiInv => QueriesSeeConfirmed
  BY DEF ApiInv, QueryInv, Shows, QueriesSeeConfirmed
<1> QED
  BY <1>1, Invariant, PTL
=============================================================================
