--------------------------- MODULE ConsumerGroup ---------------------------
(***************************************************************************)
(* A redis consumer group, as packages/redis-streams/consumer.ts uses it:  *)
(* XREADGROUP, XAUTOCLAIM, XPENDING and XACK as operators from one group   *)
(* to the next.  A message's id is its position in the stream.             *)
(*                                                                         *)
(* The pending list is kept in order of last delivery, so the entries that *)
(* have been idle for some time are a prefix of it.  XAUTOCLAIM and XACK   *)
(* do not look at the owner of an entry, which is left out.  A delivery    *)
(* counter is only ever compared with maxDeliveries: it saturates above.   *)
(***************************************************************************)
EXTENDS Listing, SequencesExt

CONSTANTS
  Count,           \* config.consumer.count: messages per call
  MaxDeliveries    \* config.consumer.maxDeliveries

ASSUME GroupAssumption == Count \in Nat \ {0} /\ MaxDeliveries \in Nat \ {0}

\* A message as it is delivered, and an entry of the pending list.
Delivery == [id : Nat \ {0}, deliveries : 1..MaxDeliveries + 1]

Group == [last : Nat, pending : Seq(Delivery)]

NewGroup == [last |-> 0, pending |-> <<>>]

Ids(entries) == {entries[i].id : i \in DOMAIN entries}

\* The deliveries of messages with the given counters, in the order of their ids.
Deliveries(counter) ==
  LET ids == Ascending(DOMAIN counter) IN
  [k \in DOMAIN ids |-> [id |-> ids[k], deliveries |-> counter[ids[k]]]]

Without(entries, ids) == Filter(entries, {k \in DOMAIN entries : entries[k].id \notin ids})

Counter(g, id) ==
  (CHOOSE e \in ToSet(g.pending) : e.id = id).deliveries

\* XREADGROUP ... COUNT n STREAMS s >
NewEntries(g, length) ==
  [k \in 1..(IF length - g.last > Count THEN Count ELSE length - g.last) |->
     [id |-> g.last + k, deliveries |-> 1]]

DeliverNew(g, entries) ==
  [last |-> g.last + Len(entries), pending |-> g.pending \o entries]

\* XAUTOCLAIM from "0", when the first `idle` entries have been idle for
\* claimIdleMs.
ClaimIds(g, idle) == Lowest(Ids(SubSeq(g.pending, 1, idle)), Count)

\* Faulty: a claim is not counted as a delivery.
ReclaimUncounted(g, ids) ==
  [g EXCEPT !.pending = Without(@, ids) \o Deliveries([id \in ids |-> Counter(g, id)])]

Reclaim(g, ids) ==
  [g EXCEPT !.pending =
     Without(@, ids) \o
     Deliveries([id \in ids |-> IF Counter(g, id) > MaxDeliveries THEN MaxDeliveries + 1
                             ELSE Counter(g, id) + 1])]

\* deliveryCounts: XPENDING "-" "+" with the number of claimed messages as its
\* COUNT reads the counters of that many first entries of the whole group; a
\* claimed message that is not among them counts as delivered once.
DeliveryCounts(g, ids) ==
  Deliveries([id \in ids |-> IF id \in Lowest(Ids(g.pending), Cardinality(ids))
                             THEN Counter(g, id) ELSE 1])

Ack(g, id) == [g EXCEPT !.pending = Without(@, {id})]
=============================================================================
