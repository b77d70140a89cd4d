---------------------------- MODULE QueryChannel ----------------------------
(***************************************************************************)
(* Reads of the engine's state: engineQuery and tailQueryReplies of        *)
(* apps/backend/src/engine/client.ts, and the query server of              *)
(* apps/engine/src/runtime.ts, next to the commands of ApiClient.          *)
(*                                                                         *)
(* What the engine knows is the number of commands that it has taken, so   *)
(* an answer is the query and that number.                                 *)
(***************************************************************************)
EXTENDS ApiClient

CONSTANT Queries   \* correlation ids of queries

\* taken: what the engine knew.
Answer == [query : Queries, taken : Nat]

ASSUME QueryAssumption == Waiting \notin Answer /\ Null \notin Answer

VARIABLES
  queries,        \* stream:engine:query
  replies,        \* stream:engine:query:reply
  asking,         \* queries whose XADD has not been executed
  queryWaiters,   \* queryWaiters; each has its timer
  queryAnswers,   \* how the promise of each query stands
  server,         \* the query server's loop around XREAD
  queryTail,      \* tailQueryReplies: its loop around XREAD
  told            \* history: the commands that had been confirmed when a query was asked

queryVars == <<queries, replies, asking, queryWaiters, queryAnswers, server, queryTail, told>>

vars == <<clientVars, queryVars>>

Init ==
  /\ ClientInit
  /\ queries = <<>> /\ replies = <<>>
  /\ asking = {} /\ queryWaiters = {} /\ queryAnswers = <<>>
  /\ server = NewReader /\ queryTail = NewReader
  /\ told = <<>>

\* f, extended by x to v.
Extend(f, x, v) == [y \in DOMAIN f \cup {x} |-> IF y = x THEN v ELSE f[y]]

-----------------------------------------------------------------------------
(* engineQuery *)

Confirmed == {c \in DOMAIN answers : answers[c] \in Event}

Ask(q) ==
  /\ Cardinality(DOMAIN answers) + Cardinality(DOMAIN queryAnswers) < MaxRequests
  /\ q \notin DOMAIN queryAnswers
  /\ queryAnswers' = Extend(queryAnswers, q, Waiting)
  /\ queryWaiters' = queryWaiters \cup {q}
  /\ asking' = asking \cup {q}
  /\ told' = Extend(told, q, Confirmed)
  /\ UNCHANGED <<clientVars, queries, replies, server, queryTail>>

EnqueueQuery(q) ==
  /\ q \in asking
  /\ asking' = asking \ {q}
  /\ queries' = Append(queries, q)
  /\ UNCHANGED <<clientVars, replies, queryWaiters, queryAnswers, server, queryTail, told>>

\* Faulty: the waiter stays in the map.
SettleOnly(q, answer) ==
  /\ queryAnswers' = IF queryAnswers[q] = Waiting
                     THEN [queryAnswers EXCEPT ![q] = answer] ELSE queryAnswers
  /\ UNCHANGED queryWaiters

\* clearTimeout, delete and resolve.
Settle(q, answer) ==
  /\ queryWaiters' = queryWaiters \ {q}
  /\ queryAnswers' = IF queryAnswers[q] = Waiting
                     THEN [queryAnswers EXCEPT ![q] = answer] ELSE queryAnswers

\* The XADD is rejected, before or after it had its effect.
AskFails(q) ==
  /\ q \in asking
  /\ failures < MaxFailures
  /\ failures' = failures + 1
  /\ asking' = asking \ {q}
  /\ queries' \in {queries, Append(queries, q)}
  /\ Settle(q, Null)
  /\ UNCHANGED <<input, output, taken, adding, waiters, answers, tail>>
  /\ UNCHANGED <<replies, server, queryTail, told>>

QueryTimeout(q) ==
  /\ q \in queryWaiters
  /\ Settle(q, Null)
  /\ UNCHANGED <<clientVars, queries, replies, asking, server, queryTail, told>>

-----------------------------------------------------------------------------
(* startQueryServer and answerQuery *)

WaitForQuery ==
  /\ Idle(server, queries)
  /\ server' = Wait(server, queries)
  /\ UNCHANGED <<clientVars, queries, replies, asking, queryWaiters, queryAnswers, queryTail, told>>

\* Faulty: the state that the engine started with.
StateAtStart == 0

\* The state is read when the query is answered.
StateNow == taken

AnswerQuery ==
  /\ HasNext(server, queries)
  /\ server' = Advance(server)
  /\ replies' = Append(replies, [query |-> queries[server.from + 1], taken |-> StateNow])
  /\ UNCHANGED <<clientVars, queries, asking, queryWaiters, queryAnswers, queryTail, told>>

\* The XREAD or the XADD of a reply.
ServerFails ==
  /\ Fails(server)
  /\ server' = Stop(server)
  /\ UNCHANGED <<input, output, taken, adding, waiters, answers, tail>>
  /\ UNCHANGED <<queries, replies, asking, queryWaiters, queryAnswers, queryTail, told>>

\* The server of the new process starts from "$" again.
EngineRestarts ==
  /\ Recover
  /\ server' = NewReader
  /\ UNCHANGED <<queries, replies, asking, queryWaiters, queryAnswers, queryTail, told>>

-----------------------------------------------------------------------------
(* tailQueryReplies *)

WaitForReply ==
  /\ Idle(queryTail, replies)
  /\ queryTail' = Wait(queryTail, replies)
  /\ UNCHANGED <<clientVars, queries, replies, asking, queryWaiters, queryAnswers, server, told>>

\* Faulty: whoever waits gets it.
AnyWaiter(reply) == queryWaiters

WaiterOf(reply) == queryWaiters \cap {reply.query}

TakeReply ==
  /\ HasNext(queryTail, replies)
  /\ queryTail' = Advance(queryTail)
  /\ LET reply == replies[queryTail.from + 1] IN
     \/ \E q \in WaiterOf(reply) : Settle(q, reply)
     \/ WaiterOf(reply) = {} /\ UNCHANGED <<queryWaiters, queryAnswers>>
  /\ UNCHANGED <<clientVars, queries, replies, asking, server, told>>

QueryTailFails ==
  /\ Fails(queryTail)
  /\ queryTail' = Stop(queryTail)
  /\ UNCHANGED <<input, output, taken, adding, waiters, answers, tail>>
  /\ UNCHANGED <<queries, replies, asking, queryWaiters, queryAnswers, server, told>>

-----------------------------------------------------------------------------

QueryNext ==
  \/ \E q \in Queries : Ask(q) \/ EnqueueQuery(q) \/ AskFails(q) \/ QueryTimeout(q)
  \/ WaitForQuery \/ AnswerQuery \/ ServerFails \/ EngineRestarts
  \/ WaitForReply \/ TakeReply \/ QueryTailFails

Next ==
  \/ (\E c \in Commands : Submit(c, Cardinality(DOMAIN queryAnswers))) /\ UNCHANGED queryVars
  \/ (ClientNext /\ UNCHANGED queryVars)
  \/ QueryNext

\* Timers fire.
Spec ==
  /\ Init /\ [][Next]_vars
  /\ \A c \in Commands : WF_vars(Timeout(c) /\ UNCHANGED queryVars)
  /\ \A q \in Queries : WF_vars(QueryTimeout(q))
=============================================================================
