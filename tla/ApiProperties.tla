--------------------------- MODULE ApiProperties ---------------------------
(***************************************************************************)
(* What a caller of submitCommand and engineQuery may rely on.             *)
(***************************************************************************)
EXTENDS QueryChannel

\* The streams hold events of submitted commands and replies to queries that
\* were asked, and only what was submitted or asked is being added.
TypeOK ==
  /\ DOMAIN answers \subseteq Commands
  /\ \A c \in DOMAIN answers : answers[c] \in {Waiting, Null} \cup Event
  /\ ToSet(input) \cup adding \subseteq DOMAIN answers
  /\ output \in Seq(Event)
  /\ taken \in 0..Len(input)
  /\ tail.from \in {NotReading, Stopped} \cup (0..Len(output))
  /\ failures \in 0..MaxFailures
  /\ DOMAIN queryAnswers \subseteq Queries /\ DOMAIN told = DOMAIN queryAnswers
  /\ \A q \in DOMAIN queryAnswers : queryAnswers[q] \in {Waiting, Null} \cup Answer
  /\ ToSet(queries) \cup asking \subseteq DOMAIN queryAnswers
  /\ replies \in Seq(Answer)

\* A command or a query has its waiter exactly as long as its promise is open,
\* however the timer, the failing XADD and the answer raced: none is left behind
\* in a map, and none that is still needed is gone from it.
WaiterWhileOpen ==
  /\ waiters = {c \in DOMAIN answers : answers[c] = Waiting}
  /\ queryWaiters = {q \in DOMAIN queryAnswers : queryAnswers[q] = Waiting}

Events(c) == {e \in ToSet(output) : e.corr = c}

\* What a caller is told came out of its own command, and an order that its owner
\* is told was rejected is not in the book and never will be.
AnswersAreTrue ==
  \A c \in DOMAIN answers :
    /\ answers[c] \in Event => answers[c] \in Events(c)
    /\ answers[c] \in Event /\ answers[c].type = "order.rejected" =>
         Accepted(c, c) \notin ToSet(output)

\* Once a command has been confirmed, every balance, position or order book that
\* is asked for shows it: the answer is about the query that was asked, not one
\* that timed out before it, and the engine knew at least what it had told,
\* although queries and commands travel on different streams, to different
\* loops, and the engine may have died and recovered in between.
QueriesSeeConfirmed ==
  \A q \in DOMAIN queryAnswers : queryAnswers[q] \in Answer =>
    /\ queryAnswers[q].query = q
    /\ told[q] \subseteq {input[i] : i \in 1..queryAnswers[q].taken}

\* Every request is answered, whatever redis and the engine do: a command by the
\* engine's event or by a 202 (client.ts:121-123), a query by the engine's reply
\* or by null, although a query that arrives between two XREADs from "$" is never
\* seen by the engine.
EveryRequestAnswered ==
  /\ \A c \in Commands : c \in DOMAIN answers ~> c \in DOMAIN answers /\ answers[c] # Waiting
  /\ \A q \in Queries :
       q \in DOMAIN queryAnswers ~> q \in DOMAIN queryAnswers /\ queryAnswers[q] # Waiting

\* The event that answers an order.place is the engine's reply about that
\* order.  (config/index.ts:68 "the engine's correlated reply")
ReplyIsAboutTheOrder ==
  \A c \in DOMAIN answers : answers[c] \in Event => answers[c].order = c

-----------------------------------------------------------------------------
(* The inductive invariant *)

Reader == [from : Nat \cup {NotReading, Stopped}, started : BOOLEAN]

\* A command is added to the log at most once.
InputInv ==
  /\ input \in Seq(Commands) /\ queries \in Seq(Queries)
  /\ {tail, server, queryTail} \subseteq Reader
  /\ \A i, j \in DOMAIN input : input[i] = input[j] => i = j
  /\ \A i \in DOMAIN input : input[i] \notin adding

\* Events are about commands that were processed, and a command is rejected or
\* not.
OutputInv ==
  /\ \A k \in DOMAIN output : output[k].corr \in Processed
  /\ \A k, l \in DOMAIN output :
       output[k].corr = output[l].corr /\ output[k].type = "order.rejected"
         => output[l].type = "order.rejected"

AnswerInv ==
  \A c \in DOMAIN answers : answers[c] \in Event =>
    \E k \in DOMAIN output : answers[c] = output[k] /\ output[k].corr = c

\* The engine knew what had been confirmed when the query was asked.
Shows(answer) ==
  /\ answer.taken <= Len(input)
  /\ told[answer.query] \subseteq {input[i] : i \in 1..answer.taken}

\* Queries and replies are about queries that were asked, after the engine had
\* processed what they are to show.
QueryInv ==
  /\ \A q \in DOMAIN told : told[q] \subseteq Processed
  /\ \A i \in DOMAIN replies : replies[i].query \in DOMAIN told /\ Shows(replies[i])
  /\ \A q \in DOMAIN queryAnswers : queryAnswers[q] \in Answer =>
       queryAnswers[q].query = q /\ Shows(queryAnswers[q])

ApiInv == TypeOK /\ WaiterWhileOpen /\ InputInv /\ OutputInv /\ AnswerInv /\ QueryInv
=============================================================================
