--------------------------- MODULE FeedProperties ---------------------------
(***************************************************************************)
(* What a client of the WebSocket server may rely on.                      *)
(***************************************************************************)
EXTENDS Feed

\* The loop publishes an entry to a socket at most once, and in the order of the
\* stream, whatever was subscribed, unsubscribed and backfilled meanwhile.
LiveInOrder ==
  \A s \in Sockets : \A i, j \in DOMAIN live[s] : i < j => live[s][i] < live[s][j]

Known(s) == ToSet(live[s]) \cup filled[s]

\* A client that subscribes with the id of the last entry that it knows misses
\* nothing after it: the backfill and the live entries leave no gap between
\* them, although the subscription, the call that reads the backfill and its
\* reply are three moments between which the loop publishes.  Excepted are
\* entries that came while the loop was between two XREADs from "$", and nothing
\* is said of entries after lastId: the loop has yet to publish them, or never
\* will when it has lost its connection.
NothingMissed ==
  \A s \in open : ~Waiting(s) => \A ch \in channels[s] :
    owed[s][ch] # Null /\ lastId # Dollar =>
      \A id \in owed[s][ch] + 1 .. lastId :
        output[id] = Topic(s, ch) => id \in Known(s) \cup unheard

-----------------------------------------------------------------------------
(* Why it does: the inductive invariant.                                   *)

Call ==
  [kind : {"read"}, socket : {Null}, from : Nat \cup {Dollar}]
    \cup [kind : {"range"}, socket : Sockets, from : Nat]

Answer ==
  [kind : {"read"}, socket : {Null}, ids : SUBSET Nat]
    \cup [kind : {"range"}, socket : Sockets, ids : SUBSET Nat]

FeedTypeOK ==
  /\ output \in Seq(Entries)
  /\ calls \in Seq(Call) /\ replies \in Seq(Answer)
  /\ lastId \in Nat \cup {Dollar}
  /\ open \subseteq Sockets
  /\ channels \in [Sockets -> SUBSET Channels]
  /\ live \in [Sockets -> Seq(Nat)]
  /\ filled \in [Sockets -> SUBSET Nat]
  /\ owed \in [Sockets -> [Channels -> Nat \cup {Null}]]

Reads(queue) == {e \in ToSet(queue) : e.kind = "read"}

Single(queue) ==
  \A i, j \in DOMAIN queue : queue[i].kind = "read" /\ queue[j].kind = "read" => i = j

\* The loop has one XREAD under way, or its reply, or is over.
OneRead ==
  /\ Single(calls) /\ Single(replies)
  /\ Reads(calls) = {} \/ Reads(replies) = {}

\* It reads after the entry that it read last, or after what there was when its
\* XREAD from "$" arrived; and a reply has consecutive entries.
LoopInv ==
  /\ OneRead
  /\ lastId # Dollar => lastId <= Len(output)
  /\ \A call \in Reads(calls) :
       \/ call.from = lastId
       \/ lastId = Dollar /\ call.from \in 0..Len(output)
  /\ \A reply \in ToSet(replies) : \E first \in 1..Len(output) + 1, last \in 0..Len(output) :
       /\ reply.ids = first..last
       /\ reply.kind = "read" /\ lastId # Dollar => first = lastId + 1

\* What the loop published is not after the entry that it read last.
LiveInv ==
  /\ LiveInOrder
  /\ \A s \in Sockets : \A id \in ToSet(live[s]) : lastId # Dollar /\ id <= lastId

\* The loop will publish the entry, unless it ends before.
Ahead(id) ==
  IF lastId # Dollar THEN id > lastId
  ELSE /\ \A call \in Reads(calls) : call.from # Dollar /\ id > call.from
       /\ \A reply \in Reads(replies) : \E first \in reply.ids : first <= id

\* The backfill of the socket will have it.
Filling(s, id) ==
  \/ \E call \in ToSet(calls) :
       /\ call.kind = "range" /\ call.socket = s
       /\ id \in call.from + 1 .. call.from + BackfillCount
  \/ \E reply \in ToSet(replies) :
       /\ reply.kind = "range" /\ reply.socket = s
       /\ id \in reply.ids

Covered(s, id) == id \in Known(s) \cup unheard \/ Filling(s, id) \/ Ahead(id)

OwedInv ==
  \A s \in Sockets : \A ch \in Channels : owed[s][ch] # Null =>
    /\ s \in open /\ ch \in channels[s]
    /\ \A id \in owed[s][ch] + 1 .. Len(output) :
         output[id] = Topic(s, ch) => Covered(s, id)

FeedInv == FeedTypeOK /\ LoopInv /\ LiveInv /\ OwedInv

-----------------------------------------------------------------------------

\* A backfill does not wait for ever behind the XREAD of the loop, even if the
\* engine never publishes anything again.
BackfillEnds ==
  \A s \in Sockets : Waiting(s) ~> ~Waiting(s)
=============================================================================
