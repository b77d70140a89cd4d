------------------------- MODULE ConsumerProperties -------------------------
(***************************************************************************)
(* What StreamConsumer promises (consumer.ts:29-40): delivery at least     *)
(* once, retries, and a way out for messages that keep failing.            *)
(***************************************************************************)
EXTENDS StreamConsumer

\* At least once: whatever crashes, errors and lost replies there were, a
\* message that was delivered is still pending unless a handler resolved for it
\* or it is in the dead-letter stream.  (consumer.ts:33-37)
NothingLost ==
  \A id \in 1..group.last : id \in Ids(group.pending) \cup handled \cup dead

-----------------------------------------------------------------------------
(* Why it does: the inductive invariant.                                   *)

ConsumerTypeOK ==
  /\ stream \in Seq(Messages) /\ Len(stream) <= MaxMessages
  /\ group \in Group /\ group.last <= Len(stream)
  /\ loop \in [Consumers -> Loop]

\* The pending list has one entry for a message, and only of delivered ones.
Unique(entries) ==
  \A k, l \in DOMAIN entries : entries[k].id = entries[l].id => k = l

PendingInv == Unique(group.pending) /\ Ids(group.pending) \subseteq 1..group.last

\* What a consumer holds was delivered; and where it counted enough deliveries
\* to give a message up, the message still has them, or is acknowledged.
Held(c) ==
  \A e \in ToSet(loop[c].batch) :
    /\ e.id <= group.last
    /\ At(c, "new") => e.deliveries = 1
    /\ e.deliveries > MaxDeliveries =>
         \A p \in ToSet(group.pending) : p.id = e.id => p.deliveries > MaxDeliveries

LoopInv(c) ==
  /\ (loop[c].batch = <<>>) <=> (At(c, "claim") \/ At(c, "read"))
  /\ loop[c].resolved => /\ At(c, "reclaimed") \/ At(c, "new")
                         /\ Current(c).id \in handled \cup dead

ConsumerInv ==
  /\ ConsumerTypeOK /\ PendingInv /\ NothingLost
  /\ \A c \in Consumers : Held(c) /\ LoopInv(c)

-----------------------------------------------------------------------------

\* No message is given up while it has deliveries left, although the counter
\* that dispatch compares was read before, when other consumers may have
\* claimed and acknowledged messages since.  (consumer.ts:36-37)
GivenUpOnlyWhenExhausted ==
  [][\A id \in dead' \ dead : id \in Ids(group.pending) => Counter(group, id) > MaxDeliveries]_consumerVars

\* No message wedges the group: each one is, in the end, acknowledged for good,
\* whether its handler works or not, and whatever other messages do.
NeverWedged ==
  \A id \in 1..MaxMessages :
    Len(stream) >= id ~> group.last >= id /\ id \notin Ids(group.pending)
=============================================================================
