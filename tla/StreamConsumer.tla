--------------------------- MODULE StreamConsumer ---------------------------
(***************************************************************************)
(* The consumer loop of packages/redis-streams/consumer.ts: consumers of   *)
(* one group that reclaim what was abandoned, read what is new, and give   *)
(* each message to a handler.  An action is what happens between two       *)
(* awaits: another consumer, or a failure, can come between any two.       *)
(*                                                                         *)
(* The handler is a parameter of the loop: here it resolves or throws, as  *)
(* it pleases.  EngineRuntime says what the engine's does.                 *)
(***************************************************************************)
EXTENDS ConsumerGroup

CONSTANTS
  Messages,      \* what a producer may add
  Consumers,     \* consumers of the group
  MaxMessages,   \* bound: length of the stream
  Faults,        \* the kinds of failure that happen
  MaxFailures    \* bound: failures

ASSUME StreamAssumption ==
  /\ MaxMessages \in Nat
  /\ Faults \subseteq {"crash", "error", "reply", "ack"}
  /\ MaxFailures \in Nat

VARIABLES
  stream,     \* the redis stream
  group,      \* the consumer group: last delivered id and pending list
  loop,       \* where each consumer's loop is, and the rest of its batch
  handled,    \* history: messages for which a handler resolved
  dead,       \* messages in the dead-letter stream
  failures    \* history: number of failures

consumerVars == <<stream, group, loop, handled, dead, failures>>

Steps == {"claim", "count", "reclaimed", "read", "new"}

\* resolved: the first message of the batch only waits for its XACK.
Loop == [step : Steps, batch : Seq(Delivery), resolved : BOOLEAN]

\* The top of the loop, with nothing in hand.
Top == [step |-> "claim", batch |-> <<>>, resolved |-> FALSE]

ConsumerInit ==
  /\ stream = <<>>
  /\ group = NewGroup
  /\ loop = [c \in Consumers |-> Top]
  /\ handled = {}
  /\ dead = {}
  /\ failures = 0

\* StreamProducer.add
Add(m) ==
  /\ Len(stream) < MaxMessages
  /\ stream' = Append(stream, m)
  /\ UNCHANGED <<group, loop, handled, dead, failures>>

-----------------------------------------------------------------------------

At(c, step) == loop[c].step = step

GoTo(c, step, batch) ==
  loop' = [loop EXCEPT ![c] = [step |-> step, batch |-> batch, resolved |-> FALSE]]

\* reclaimAbandoned, up to the reply of XAUTOCLAIM; `idle` entries of the
\* pending list have been idle for long enough.
Claim(c, idle) ==
  /\ At(c, "claim")
  /\ LET ids == ClaimIds(group, idle) IN
     /\ group' = Reclaim(group, ids)
     /\ GoTo(c, IF ids = {} THEN "read" ELSE "count", Deliveries([id \in ids |-> 1]))
  /\ UNCHANGED <<stream, handled, dead, failures>>

\* The rest of reclaimAbandoned: how often was each delivered?
CountDeliveries(c) ==
  /\ At(c, "count")
  /\ GoTo(c, "reclaimed", DeliveryCounts(group, Ids(loop[c].batch)))
  /\ UNCHANGED <<stream, group, handled, dead, failures>>

\* readNew; the call returns nothing after blockMs when there is nothing.
ReadNew(c) ==
  /\ At(c, "read")
  /\ LET entries == NewEntries(group, Len(stream)) IN
     /\ group' = DeliverNew(group, entries)
     /\ GoTo(c, IF entries = <<>> THEN "claim" ELSE "new", entries)
  /\ UNCHANGED <<stream, handled, dead, failures>>

-----------------------------------------------------------------------------
(* dispatch *)

Dispatching(c) == (At(c, "reclaimed") \/ At(c, "new")) /\ ~loop[c].resolved

Current(c) == Head(loop[c].batch)

\* Faulty: one delivery too few.
ExhaustedEarly(c) == Current(c).deliveries >= MaxDeliveries

Exhausted(c) == Current(c).deliveries > MaxDeliveries

\* On to the next message of the batch, or out of it.
NextMessage(c) ==
  LET rest == Tail(loop[c].batch) IN
  GoTo(c, IF rest # <<>> THEN loop[c].step ELSE IF At(c, "new") THEN "claim" ELSE "read", rest)

Resolve(c) == loop' = [loop EXCEPT ![c].resolved = TRUE]

\* The handler resolves.
Handle(c) ==
  /\ Dispatching(c) /\ ~Exhausted(c)
  /\ handled' = handled \cup {Current(c).id}
  /\ Resolve(c)
  /\ UNCHANGED <<stream, group, dead, failures>>

\* Faulty: a message whose handler threw is acknowledged.
ThrowAcked(c) ==
  /\ Dispatching(c) /\ ~Exhausted(c)
  /\ Resolve(c)
  /\ UNCHANGED <<stream, group, handled, dead, failures>>

\* The handler throws: the message stays pending.
Throw(c) ==
  /\ Dispatching(c) /\ ~Exhausted(c)
  /\ NextMessage(c)
  /\ UNCHANGED <<stream, group, handled, dead, failures>>

DeadLetter(c) ==
  /\ Dispatching(c) /\ Exhausted(c)
  /\ dead' = dead \cup {Current(c).id}
  /\ Resolve(c)
  /\ UNCHANGED <<stream, group, handled, failures>>

\* XACK, after the handler resolved or the message was dead-lettered.
AckMessage(c) ==
  /\ loop[c].resolved
  /\ group' = Ack(group, Current(c).id)
  /\ NextMessage(c)
  /\ UNCHANGED <<stream, handled, dead, failures>>

-----------------------------------------------------------------------------
(* Failures.  What was claimed or read and not yet acknowledged is         *)
(* forgotten by the consumer, and stays pending.                           *)

FailWith(fault) ==
  /\ fault \in Faults
  /\ failures < MaxFailures
  /\ failures' = failures + 1

\* An XACK that fails after a handler counts as a throw of the handler.
AckFails(c) ==
  /\ loop[c].resolved /\ ~Exhausted(c)
  /\ FailWith("ack")
  /\ NextMessage(c)
  /\ UNCHANGED <<stream, group, handled, dead>>

\* XAUTOCLAIM or XREADGROUP is done, but its reply does not arrive.
ReplyLost(c) ==
  /\ FailWith("reply")
  /\ \/ /\ At(c, "claim")
        /\ \E idle \in 1..Len(group.pending) : group' = Reclaim(group, ClaimIds(group, idle))
     \/ /\ At(c, "read")
        /\ group' = DeliverNew(group, NewEntries(group, Len(stream)))
  /\ loop' = [loop EXCEPT ![c] = Top]
  /\ UNCHANGED <<stream, handled, dead>>

\* A redis call that is not made by a handler fails: the catch of the loop.
LoopError(c) ==
  /\ FailWith("error")
  /\ At(c, "count") \/ At(c, "read") \/ (loop[c].batch # <<>> /\ Exhausted(c))
  /\ loop' = [loop EXCEPT ![c] = Top]
  /\ UNCHANGED <<stream, group, handled, dead>>

\* The process dies and is started again.
Crash(c) ==
  /\ FailWith("crash")
  /\ loop' = [loop EXCEPT ![c] = Top]
  /\ UNCHANGED <<stream, group, handled, dead>>

-----------------------------------------------------------------------------

LoopStep(c) ==
  \/ \E idle \in 0..Len(group.pending) : Claim(c, idle)
  \/ CountDeliveries(c)
  \/ ReadNew(c)
  \/ Handle(c) \/ Throw(c)
  \/ DeadLetter(c)
  \/ AckMessage(c)

ConsumerNext ==
  \/ \E m \in Messages : Add(m)
  \/ \E c \in Consumers : LoopStep(c) \/ AckFails(c) \/ ReplyLost(c) \/ LoopError(c) \/ Crash(c)

\* A loop never stops, and what nobody touches becomes idle: a claim that
\* finds something is not put off forever.
ConsumerFairness ==
  /\ \A c \in Consumers : WF_consumerVars(LoopStep(c))
  /\ \A c \in Consumers :
       SF_consumerVars(\E idle \in 1..Len(group.pending) : Claim(c, idle))

ConsumerSafety == ConsumerInit /\ [][ConsumerNext]_consumerVars

ConsumerSpec == ConsumerSafety /\ ConsumerFairness
=============================================================================
