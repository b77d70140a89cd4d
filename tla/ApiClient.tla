----------------------------- MODULE ApiClient -----------------------------
(***************************************************************************)
(* How the API waits for the engine to carry out a command: submitCommand  *)
(* and tailOutput of apps/backend/src/engine/client.ts, with a timer, a    *)
(* failing XADD and the answer of the engine racing each other for one     *)
(* promise.  QueryChannel adds the other half of that file.                *)
(*                                                                         *)
(* The engine is what the API sees of it: commands taken in order, and for *)
(* each the events that onPlaceOrder or onCancelOrder return, of those     *)
(* types that the API waits for.  A command is its correlation id; the     *)
(* order that it places has the same name.                                 *)
(***************************************************************************)
EXTENDS Naturals, Sequences, FiniteSets, SequencesExt

CONSTANTS
  Places, Cancels,   \* commands: order.place and order.cancel
  Waiting,           \* a promise that is open
  Null,              \* the answer null, which the controllers turn into a 202
  NotReading,        \* a loop around XREAD between two calls
  Stopped,           \* a loop around XREAD that is over
  MaxRequests,       \* bound: commands and queries
  MaxFailures        \* bound: failing redis calls

Commands == Places \cup Cancels

Event ==
  [corr : Commands, order : Commands,
   type : {"order.accepted", "order.rejected", "order.cancelled"}]

ASSUME ApiAssumption ==
  /\ Places \cap Cancels = {}
  /\ Waiting # Null /\ Waiting \notin Event /\ Null \notin Event
  /\ {MaxRequests, MaxFailures} \subseteq Nat

VARIABLES
  input,      \* stream:engine:input
  output,     \* stream:engine:output
  taken,      \* number of input entries that the engine has processed
  adding,     \* commands whose XADD has not been executed
  waiters,    \* commandWaiters; each has its timer
  answers,    \* how the promise of each submitted command stands
  tail,       \* tailOutput: its loop around XREAD
  failures    \* history: number of failures

clientVars == <<input, output, taken, adding, waiters, answers, tail, failures>>

-----------------------------------------------------------------------------
(* A loop around XREAD that starts from "$".  from: the entry after which   *)
(* it reads.  started: it has read an entry, whose id takes the place of    *)
(* "$"; from then on it makes no difference when a call arrives.  Entries   *)
(* of a batch are handled one after the other, and so they are read here.   *)

NewReader == [from |-> NotReading, started |-> FALSE]

\* A call is about to be made, or waits for something to read.
Idle(reader, stream) == ~reader.started /\ reader.from \in {NotReading, Len(stream)}

\* The call arrives, and "$" is whatever is last in the stream by then; or it
\* returns nothing, after a while.
Wait(reader, stream) ==
  [reader EXCEPT !.from = IF @ = NotReading THEN Len(stream) ELSE NotReading]

HasNext(reader, stream) == reader.from \in 0..Len(stream) - 1

\* Faulty: the entry after the next is taken for the last one read.
AdvanceTwice(reader) == [from |-> reader.from + 2, started |-> TRUE]

Advance(reader) == [from |-> reader.from + 1, started |-> TRUE]

\* A call is rejected, which nothing catches: the loop is over.
Fails(reader) ==
  /\ reader.from \in Nat
  /\ failures < MaxFailures
  /\ failures' = failures + 1

Stop(reader) == [reader EXCEPT !.from = Stopped]

-----------------------------------------------------------------------------

ClientInit ==
  /\ input = <<>> /\ output = <<>> /\ taken = 0
  /\ adding = {} /\ waiters = {} /\ answers = <<>>
  /\ tail = NewReader
  /\ failures = 0

-----------------------------------------------------------------------------
(* submitCommand *)

\* clearTimeout, delete and resolve; a promise that is resolved stays so.
Resolve(c, answer) ==
  /\ waiters' = waiters \ {c}
  /\ answers' = IF answers[c] = Waiting THEN [answers EXCEPT ![c] = answer] ELSE answers

\* Faulty: the promise is left as it is.
ForgetWaiter(c) ==
  waiters' = waiters \ {c} /\ UNCHANGED answers

GiveUp(c) == Resolve(c, Null)

\* c is submitted when `others` queries have been asked.
Submit(c, others) ==
  /\ Cardinality(DOMAIN answers) + others < MaxRequests
  /\ c \notin DOMAIN answers
  /\ answers' = [d \in DOMAIN answers \cup {c} |-> IF d = c THEN Waiting ELSE answers[d]]
  /\ waiters' = waiters \cup {c}
  /\ adding' = adding \cup {c}
  /\ UNCHANGED <<input, output, taken, tail, failures>>

Enqueue(c) ==
  /\ c \in adding
  /\ adding' = adding \ {c}
  /\ input' = Append(input, c)
  /\ UNCHANGED <<output, taken, waiters, answers, tail, failures>>

\* The XADD is rejected, before or after it had its effect.  (A rejection that
\* comes later than the answer finds the promise resolved.)
AddFails(c) ==
  /\ c \in adding
  /\ failures < MaxFailures
  /\ failures' = failures + 1
  /\ adding' = adding \ {c}
  /\ input' \in {input, Append(input, c)}
  /\ GiveUp(c)
  /\ UNCHANGED <<output, taken, tail>>

Timeout(c) ==
  /\ c \in waiters
  /\ Resolve(c, Null)
  /\ UNCHANGED <<input, output, taken, adding, tail, failures>>

-----------------------------------------------------------------------------
(* The engine *)

Accepted(c, order) == [corr |-> c, order |-> order, type |-> "order.accepted"]

Rejected(c) == [corr |-> c, order |-> c, type |-> "order.rejected"]

Processed == {input[i] : i \in 1..taken}

\* Orders that may rest in the book, whether the API has learnt of it or not.
Makers == {c \in Processed \cap Places : Rejected(c) \notin ToSet(output)}

\* A match reports the makers first and the order itself last.
Outcomes(c) ==
  {<<Rejected(c)>>} \cup
  IF c \in Places
  THEN {<<Accepted(c, c)>>} \cup {<<Accepted(c, m), Accepted(c, c)>> : m \in Makers}
  ELSE {<<[corr |-> c, order |-> c, type |-> "order.cancelled"]>>}

Process ==
  /\ taken < Len(input)
  /\ taken' = taken + 1
  /\ \E events \in Outcomes(input[taken + 1]) : output' = output \o events
  /\ UNCHANGED <<input, adding, waiters, answers, tail, failures>>

\* The engine dies and recovers: it replays the commands that are in the log,
\* and publishes nothing.
Recover ==
  /\ failures < MaxFailures
  /\ failures' = failures + 1
  /\ taken' = Len(input)
  /\ UNCHANGED <<input, output, adding, waiters, answers, tail>>

-----------------------------------------------------------------------------
(* tailOutput *)

\* The types that the controller of a command waits for.
ResolveOn(c) ==
  IF c \in Places THEN {"order.accepted", "order.rejected"}
                  ELSE {"order.cancelled", "order.rejected"}

\* Faulty: the first waiter that waits for such an event gets it.
WaitersByType(e) == {c \in waiters : e.type \in ResolveOn(c)}

WaitersFor(e) == {c \in waiters : c = e.corr /\ e.type \in ResolveOn(c)}

WaitForEvent ==
  /\ Idle(tail, output)
  /\ tail' = Wait(tail, output)
  /\ UNCHANGED <<input, output, taken, adding, waiters, answers, failures>>

TakeEvent ==
  /\ HasNext(tail, output)
  /\ tail' = Advance(tail)
  /\ LET e == output[tail.from + 1] IN
     \/ \E c \in WaitersFor(e) : Resolve(c, e)
     \/ WaitersFor(e) = {} /\ UNCHANGED <<waiters, answers>>
  /\ UNCHANGED <<input, output, taken, adding, failures>>

TailFails ==
  /\ Fails(tail)
  /\ tail' = Stop(tail)
  /\ UNCHANGED <<input, output, taken, adding, waiters, answers>>

-----------------------------------------------------------------------------

ClientNext ==
  \/ \E c \in Commands : Enqueue(c) \/ AddFails(c) \/ Timeout(c)
  \/ Process
  \/ WaitForEvent \/ TakeEvent \/ TailFails
=============================================================================
