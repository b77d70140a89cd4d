-------------------------------- MODULE Feed --------------------------------
(***************************************************************************)
(* The WebSocket server, apps/ws/src/index.ts: sockets that subscribe to   *)
(* channels and may ask for what they missed, and a loop that publishes    *)
(* the engine's output.  Backfills and the loop share one redis            *)
(* connection, on which calls are executed, and their replies handled, in  *)
(* turn: a backfill waits behind the blocking XREAD of the loop.           *)
(*                                                                         *)
(* An entry of the output stream is what topicsFor makes of it: the topic  *)
(* on which it is delivered, or Nothing, if there is none or the entry     *)
(* does not decode, in which case both readers skip it.                    *)
(***************************************************************************)
EXTENDS Listing, FiniteSetsExt, SequencesExt

CONSTANTS
  Sockets,
  Public,          \* the channels that are also topics: orderbook, trades
  Users,           \* each is also the topic user:<userId>
  UserOf,          \* the user of a socket's token, or Null
  Null,
  Nothing,         \* an entry that is delivered on no topic
  Entries,         \* what the engine may publish
  Dollar,          \* the stream id "$"
  ReadCount,       \* COUNT of the XREAD
  BackfillCount,   \* COUNT of the XRANGE
  MaxEvents        \* bound: length of the output stream

ASSUME FeedAssumption ==
  /\ UserOf \in [Sockets -> Users \cup {Null}]
  /\ {Null, Nothing} \cap (Users \cup Public) = {} /\ Nothing # Null
  /\ Public \subseteq {"orderbook", "trades"} /\ Users \cap Public = {}
  /\ Entries \subseteq Users \cup Public \cup {Nothing}
  /\ {ReadCount, BackfillCount} \subseteq Nat \ {0}
  /\ MaxEvents \in Nat /\ Dollar \notin Nat

Channels == Public \cup {"user"}

Topics == Public \cup Users

VARIABLES
  output,      \* stream:engine:output
  calls,       \* calls on the connection that redis has not executed
  replies,     \* replies that the server has not handled
  lastId,      \* consumeOutput: the last entry read, Dollar for none
  open,        \* sockets that are connected
  channels,    \* ws.data.channels of each socket; its topics follow from them
  live,        \* history: entries that the loop published to a socket
  filled,      \* history: entries that a backfill sent to a socket
  owed,        \* history: the entry since which a socket should know a channel
  unheard      \* history: entries that came while nobody read after "$"

vars ==
  <<output, calls, replies, lastId, open, channels, live, filled, owed, unheard>>

socketVars == <<open, channels, live, filled, owed>>

\* XREAD after an entry, or after Dollar, which redis resolves when the call
\* arrives; XRANGE for a socket, after the entry it names.
ReadCall(from) == [kind |-> "read", socket |-> Null, from |-> from]
RangeCall(s, from) == [kind |-> "range", socket |-> s, from |-> from]

NothingOwed == [ch \in Channels |-> Null]

Init ==
  /\ output = <<>>
  /\ calls = <<ReadCall(Dollar)>>
  /\ replies = <<>>
  /\ lastId = Dollar
  /\ open = {}
  /\ channels = [s \in Sockets |-> {}]
  /\ live = [s \in Sockets |-> <<>>]
  /\ filled = [s \in Sockets |-> {}]
  /\ owed = [s \in Sockets |-> NothingOwed]
  /\ unheard = {}

-----------------------------------------------------------------------------
(* The engine publishes *)

\* The loop reads after a known entry, or has such a reply coming.
Hearing ==
  \/ lastId # Dollar
  \/ \E call \in ToSet(calls) : call.kind = "read" /\ call.from # Dollar
  \/ \E reply \in ToSet(replies) : reply.kind = "read" /\ reply.ids # {}

Emit(topic) ==
  /\ Len(output) < MaxEvents
  /\ output' = Append(output, topic)
  /\ unheard' = IF Hearing THEN unheard ELSE unheard \cup {Len(output) + 1}
  /\ UNCHANGED <<calls, replies, lastId, socketVars>>

-----------------------------------------------------------------------------
(* The handlers of a socket *)

Waiting(s) ==
  \E call \in ToSet(calls) \cup ToSet(replies) : call.kind = "range" /\ call.socket = s

\* The client connects, or connects again, as a new socket.
Open(s) ==
  /\ s \notin open /\ ~Waiting(s)
  /\ open' = open \cup {s}
  /\ UNCHANGED <<output, calls, replies, lastId, channels, live, filled, owed, unheard>>

\* These sockets are gone, with what is known of them.
Gone(sockets) ==
  /\ open' = open \ sockets
  /\ channels' = [s \in Sockets |-> IF s \in sockets THEN {} ELSE channels[s]]
  /\ live' = [s \in Sockets |-> IF s \in sockets THEN <<>> ELSE live[s]]
  /\ filled' = [s \in Sockets |-> IF s \in sockets THEN {} ELSE filled[s]]
  /\ owed' = [s \in Sockets |-> IF s \in sockets THEN NothingOwed ELSE owed[s]]

Close(s) ==
  /\ s \in open
  /\ Gone({s})
  /\ UNCHANGED <<output, calls, replies, lastId, unheard>>

\* The user channel requires a token.  (A message about several channels is
\* modelled as several messages.)
Granted(s, ch) == {ch} \ (IF UserOf[s] = Null THEN {"user"} ELSE {})

Subscribe(s, ch) ==
  /\ s \in open
  /\ channels' = [channels EXCEPT ![s] = @ \cup Granted(s, ch)]
  /\ UNCHANGED <<output, calls, replies, lastId, open, live, filled, owed, unheard>>

\* A subscription with sinceId = since.  When no more than BackfillCount
\* entries follow it, the socket will know all of them.
SubscribeSince(s, ch, since) ==
  /\ s \in open
  /\ ~Waiting(s)     \* bound: a client waits for one backfill before the next
  /\ since <= Len(output)
  /\ channels' = [channels EXCEPT ![s] = @ \cup Granted(s, ch)]
  /\ calls' = Append(calls, RangeCall(s, since))
  /\ owed' = [owed EXCEPT ![s] =
       [c \in Channels |->
          IF c \in channels'[s] /\ Len(output) - since <= BackfillCount THEN since ELSE Null]]
  /\ UNCHANGED <<output, replies, lastId, open, live, filled, unheard>>

Unsubscribe(s, ch) ==
  /\ s \in open
  /\ channels' = [channels EXCEPT ![s] = @ \ {ch}]
  /\ owed' = [owed EXCEPT ![s][ch] = Null]
  /\ UNCHANGED <<output, calls, replies, lastId, open, live, filled, unheard>>

-----------------------------------------------------------------------------
(* Redis executes the calls of the connection one after the other *)

Following(from, count) ==
  from + 1 .. (IF from + count < Len(output) THEN from + count ELSE Len(output))

AtHead(kind) == calls # <<>> /\ Head(calls).kind = kind

\* Faulty: the XREAD blocks until there is something to read.
BlockForever == FALSE

\* BLOCK 5000
BlockEnds == TRUE

Reply(ids) ==
  /\ calls' = Tail(calls)
  /\ replies' = Append(replies, [kind |-> Head(calls).kind, socket |-> Head(calls).socket, ids |-> ids])
  /\ UNCHANGED <<output, lastId, socketVars, unheard>>

\* The XREAD arrives.
BeginRead ==
  /\ AtHead("read") /\ Head(calls).from = Dollar
  /\ calls' = <<ReadCall(Len(output))>> \o Tail(calls)
  /\ UNCHANGED <<output, replies, lastId, socketVars, unheard>>

Read ==
  /\ AtHead("read") /\ Head(calls).from # Dollar
  /\ Head(calls).from < Len(output) \/ BlockEnds
  /\ Reply(Following(Head(calls).from, ReadCount))

ReadRange ==
  /\ AtHead("range")
  /\ Reply(Following(Head(calls).from, BackfillCount))

-----------------------------------------------------------------------------
(* The server handles the replies *)

Topic(s, ch) == IF ch = "user" THEN UserOf[s] ELSE ch

\* The topics to which a socket is subscribed.
TopicsOf(s) == {Topic(s, ch) : ch \in channels[s]}

Deliverable(s, id) == output[id] \in TopicsOf(s)

\* The part of consumeOutput between two XREADs.
\* Faulty: what was read last is not remembered.
ReadAgain(ids) == IF ids = {} THEN lastId ELSE Min(ids)

LastRead(ids) == IF ids = {} THEN lastId ELSE Max(ids)

\* Faulty: each XREAD starts from "$".
FromDollar(id) == Dollar

ReadFrom(id) == id

HandleRead ==
  /\ replies # <<>> /\ Head(replies).kind = "read"
  /\ LET ids == Head(replies).ids IN
     /\ lastId' = LastRead(ids)
     /\ live' = [s \in Sockets |->
          IF s \in open
          THEN live[s] \o Ascending({id \in ids : output[id] \in TopicsOf(s)})
          ELSE live[s]]
  /\ replies' = Tail(replies)
  /\ calls' = Append(calls, ReadCall(ReadFrom(lastId')))
  /\ UNCHANGED <<output, open, channels, filled, owed, unheard>>

\* The rest of backfill().
HandleRange ==
  /\ replies # <<>> /\ Head(replies).kind = "range"
  /\ LET s == Head(replies).socket IN
     filled' = [filled EXCEPT ![s] = @ \cup
       IF s \in open THEN {id \in Head(replies).ids : Deliverable(s, id)} ELSE {}]
  /\ replies' = Tail(replies)
  /\ UNCHANGED <<output, calls, lastId, open, channels, live, owed, unheard>>

\* The connection is lost.  The calls on it are rejected, and with its XREAD
\* the loop is over: nothing catches the rejection.
LoseConnection ==
  /\ calls' = <<>> /\ replies' = <<>>
  /\ owed' = [s \in Sockets |->
       IF Waiting(s) THEN NothingOwed ELSE owed[s]]
  /\ UNCHANGED <<output, lastId, open, channels, live, filled, unheard>>

\* The process dies, with its sockets, and is started again.
Restart ==
  /\ calls' = <<ReadCall(Dollar)>> /\ replies' = <<>>
  /\ lastId' = Dollar
  /\ Gone(Sockets)
  /\ UNCHANGED <<output, unheard>>

-----------------------------------------------------------------------------

Next ==
  \/ \E topic \in Entries : Emit(topic)
  \/ \E s \in Sockets :
       \/ Open(s) \/ Close(s)
       \/ \E ch \in Channels :
            \/ Subscribe(s, ch) \/ Unsubscribe(s, ch)
            \/ \E since \in 0..MaxEvents : SubscribeSince(s, ch, since)
  \/ BeginRead \/ Read \/ ReadRange
  \/ HandleRead \/ HandleRange
  \/ LoseConnection \/ Restart

Safety == Init /\ [][Next]_vars

\* Redis executes what arrives, a blocking call ends, and the server handles
\* replies.
Spec == Safety /\ WF_vars(BeginRead \/ Read \/ ReadRange) /\ WF_vars(HandleRead \/ HandleRange)
=============================================================================
