------------------------- MODULE RuntimeProperties -------------------------
(***************************************************************************)
(* What the engine process promises: state that is the log, replayed, and  *)
(* events that are told apart by their ids.                                *)
(***************************************************************************)
EXTENDS EngineRuntime

\* What the consumer, the handler, recover() and the snapshot store keep;
\* between two messages nothing is left to publish.
TypeOK ==
  /\ group \in Group /\ loop \in [Consumers -> Loop]
  /\ mem \in State
  /\ replayedThrough \in 0..MaxMessages
  /\ processed \in BOOLEAN
  /\ outbox \in Seq(Event) /\ (outbox # <<>> => processed)
  /\ output \in Seq(Event)
  /\ saves \in Nat /\ saving \subseteq Save /\ disk \subseteq File

\* The state of the exchange, with the counter of its events; the other fields
\* say how the engine got there.
Domain(s) == <<s.applied, s.seq>>

\* The state that the first n entries of the log lead to.
After(n) == Domain(ReplayUpTo(Genesis, n))

\* The live state is always that of a prefix of the log, in the order of the
\* log, with every input applied once: whatever was redelivered, retried,
\* skipped or restored.  (README.md:20 "the source of truth for engine state")
LiveStateIsReplay ==
  \E n \in 0..Len(stream) : Domain(mem) = After(n)

\* The last entry that had an effect on the live state.
Reflected == IF mem.applied = <<>> THEN 0 ELSE Last(mem.applied)

LogAndState == INSTANCE Journal WITH Inputs <- Messages, log <- stream, applied <- Reflected

\* The engine process implements the journal: its state goes forward along the
\* log, one effect at a time or, when it recovers, several.  No crash, torn
\* snapshot or redelivered entry takes back what was visible in its answers.
FollowsLog == LogAndState!Spec

\* A crash at any moment loses nothing: the newest valid snapshot and the
\* entries after it give the state that the whole log gives, although
\* snapshots are written while their state changes and lastInputId can go back
\* to a redelivered entry.  (README.md:78-79)
RecoveryIsReplay ==
  \A loaded \in Loadable : Domain(Replay(loaded)) = After(Len(stream))

\* A file is only removed when as many newer ones as are to be kept are there,
\* though saves overlap, each prunes what it saw when it looked, and a crash or a
\* failing unlink leaves a pruning half done.  (snapshot.ts:34 "only the newest
\* `retain` files are kept")
KeepsNewest ==
  [][\A f \in disk \ disk' : Cardinality(NewerThan(f, disk')) >= Retain]_vars

\* The events of the output stream carry increasing ids, across crashes and
\* retries: two events never share an id, by which the database writer takes
\* the second for a duplicate of the first.
EventIdsIncrease ==
  \A i, j \in DOMAIN output : i < j => output[i].seq < output[j].seq

-----------------------------------------------------------------------------
(* Why it does.                                                            *)

Commands == Messages \ {Tick, Garbled}

\* No more commands than the engine remembers: what it forgot it would apply again.
NoneForgotten == IsFiniteSet(Commands) /\ Cardinality(Commands) <= MaxApplied

\* One engine process, as index.ts starts it, that forgets no command; and no
\* XREADGROUP whose reply is lost, for an entry that was in one is only read after
\* newer ones.
OneProcess ==
  /\ \A c, d \in Consumers : c = d
  /\ "reply" \notin Faults
  /\ NoneForgotten

\* States the engine was in, of which some were saved.
Visited == {mem} \cup {s.file.sum : s \in saving} \cup {f.sum : f \in disk}

\* The files, and those that are still being written.
Files == disk \cup {s.file : s \in saving}

Known(s) ==
  /\ s \in State
  /\ s.applied \in Seq(1..Len(stream)) /\ s.last <= Len(stream)

\* Whatever fails, and with any number of consumers.
HistoryInv ==
  /\ TypeOK
  /\ replayedThrough <= Len(stream)
  /\ \A s \in Visited : Known(s)
  /\ \A f \in Files : Known(f.content)

\* What some prune() has yet to unlink, there or not, has newer files enough.
PruneInv ==
  /\ IsFiniteSet(disk)
  /\ \A s \in saving : \A f \in s.stale : Cardinality(NewerThan(f, disk)) >= Retain

\* The entries among the first n that have an effect when they come in order.
Effective(n) ==
  {i \in 1..n : /\ stream[i] # Garbled
                /\ stream[i] # Tick => \A j \in 1..i-1 : stream[j] # stream[i]}

\* s is the state after the first n entries.
Reflects(s, n) ==
  /\ s.applied = Ascending(Effective(n))
  /\ s.seq = Drafts * Len(s.applied)

\* A message is in the engine's state as soon as it is processed, and those
\* before it are: only what is left of the last batch is not.
Done(c) ==
  IF ~At(c, "new") THEN group.last
  ELSE IF processed \/ loop[c].resolved THEN Current(c).id ELSE Current(c).id - 1

\* What is left of a batch of new messages is the end of what was delivered.
Consecutive(c) ==
  LET batch == loop[c].batch IN
  At(c, "new") => \A k \in DOMAIN batch : batch[k].id = group.last - Len(batch) + k

InHandler(c) ==
  /\ Dispatching(c) /\ ~Exhausted(c) /\ ~Replayed(c)
  /\ stream[Current(c).id] # Garbled

LevelInv ==
  /\ \E n \in 0..Len(stream) :
       /\ Reflects(mem, n) /\ mem.last <= n
       /\ replayedThrough <= n /\ \A c \in Consumers : Done(c) <= n
  /\ \A s \in Visited : \E n \in 0..Len(stream) : Reflects(s, n) /\ s.last <= n
  /\ \A c \in Consumers : Consecutive(c)
  /\ processed => \E c \in Consumers : InHandler(c)

\* What is published, and after it what is left to publish, is numbered up to the
\* counter of the state.
NumbersInv ==
  /\ EventIdsIncrease
  /\ \A i \in DOMAIN output : output[i].seq <= mem.seq - Len(outbox)
  /\ \A k \in DOMAIN outbox : outbox[k].seq = mem.seq - Len(outbox) + k

-----------------------------------------------------------------------------

Applied(id) ==
  \E i \in ToSet(mem.applied) :
    stream[i] = stream[id] /\ (stream[id] = Tick => i >= id)

\* Every command that was queued is applied in the end, whatever crashes and
\* redis errors there are, if no reply of an XREADGROUP is lost: again and again
\* there comes a time when all that were queued are.  (The log has a bound; if
\* commands kept coming, the loop could stay behind for ever.)
\* (client.ts:122-123 "the command stays queued and will still be processed")
EventuallyApplied ==
  []<>(\A id \in DOMAIN stream : stream[id] = Garbled \/ Applied(id))

\* The events of every input whose handler has finished are in the output
\* stream: the database writer will learn of them.  (orderController.ts:50-51;
\* envelope.ts:11-12 "treats a repeat as a no-op re-emit")
EffectsPublished ==
  \A id \in handled \cap ToSet(mem.applied) :
    Cardinality({i \in DOMAIN output : output[i].cause = id}) = Drafts
=============================================================================
