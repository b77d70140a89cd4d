--------------------------- MODULE EngineRuntime ---------------------------
(***************************************************************************)
(* The engine process around the engine: apps/engine/src/runtime.ts and    *)
(* snapshot.ts, with Engine.process of packages/domain/engine.ts.          *)
(*                                                                         *)
(* The engine is deterministic, so its state is represented by the entries *)
(* of the input log that it applied, in the order in which it did (Engine  *)
(* says what they do).  A handler that does nothing, because its command   *)
(* was applied before or its index price is not new, leaves it unchanged.  *)
(*                                                                         *)
(* Messages of the input log: command ids, each a command; Tick, an index  *)
(* price, without a command id and with an observer sequence number that   *)
(* grows along the log; Garbled, an entry that cannot be decoded.          *)
(***************************************************************************)
EXTENDS StreamConsumer

CONSTANTS
  Tick, Garbled,
  Drafts,      \* events that an input causes when it is applied
  MaxApplied,  \* MAX_APPLIED_COMMANDS
  Retain,      \* config.engine.snapshotRetain
  MaxSaves     \* bound: snapshots

ASSUME RuntimeAssumption == Drafts \in Nat /\ {MaxApplied, Retain, MaxSaves} \subseteq Nat

VARIABLES
  mem,              \* this.engine.state
  replayedThrough,  \* this.replayedThrough
  processed,        \* the handler has called process() and not yet returned
  outbox,           \* the events it has not yet published
  output,           \* the output stream
  saves,            \* how many snapshots were begun: the time of the last one
  saving,           \* the calls of save() that are under way
  disk              \* the snapshot files

snapshotVars == <<saves, saving, disk>>

engineVars == <<mem, replayedThrough, processed, outbox, output, snapshotVars>>

vars == <<consumerVars, engineVars>>

\* applied: stands for the whole domain state; last: lastInputId; seq: the
\* last event id; count: appliedCount.
Genesis == [applied |-> <<>>, last |-> 0, seq |-> 0, count |-> 0]

Entry == 1..MaxMessages

State == [applied : Seq(Entry), last : 0..MaxMessages, seq : Nat, count : Nat]

Event == [seq : Nat, cause : Entry]

\* at: savedAt, with appliedCount the name of the file; content: what was written
\* to it; sum: what its checksum was made of.
File == [at : Nat, content : State, sum : State]

\* Where a call of save() is, the file that it writes, and the names that prune()
\* has yet to unlink.
Save == [step : {"write", "rename", "list", "unlink"}, file : File, stale : SUBSET File]

-----------------------------------------------------------------------------
(* Engine.process *)

\* Faulty: the commands are counted one too many.
RememberedOneLess(s) ==
  {s.applied[k] : k \in {k \in DOMAIN s.applied :
     Cardinality({l \in DOMAIN s.applied : l >= k /\ stream[s.applied[l]] # Tick}) < MaxApplied}}

\* The inputs whose commands are in appliedCommandIds: MaxApplied commands, and
\* those the newest.
Remembered(s) ==
  {s.applied[k] : k \in {k \in DOMAIN s.applied :
     Cardinality({l \in DOMAIN s.applied : l >= k /\ stream[s.applied[l]] # Tick}) <= MaxApplied}}

\* An input that the engine applies: a command that it does not remember, or an
\* index price with a new sequence number.
Fresh(s, id) ==
  IF stream[id] = Tick
  THEN \A i \in ToSet(s.applied) : stream[i] = Tick => i < id
  ELSE \A i \in Remembered(s) : stream[i] # stream[id]

Process(s, id) ==
  IF Fresh(s, id)
  THEN [applied |-> Append(s.applied, id), last |-> id, seq |-> s.seq + Drafts,
        count |-> s.count + 1]
  ELSE [s EXCEPT !.last = id, !.count = @ + IF stream[id] = Tick THEN 1 ELSE 0]

Outputs(s, id) ==
  IF Fresh(s, id) THEN [k \in 1..Drafts |-> [seq |-> s.seq + k, cause |-> id]] ELSE <<>>

-----------------------------------------------------------------------------
(* recover *)

\* Faulty: the checksum is not verified.
ValidAlways(file) == TRUE

Valid(file) == file.content = file.sum

\* Faulty: snapshots do not contain the event counter.
LoadableWithoutSeq ==
  {Genesis} \cup {[f.content EXCEPT !.seq = 0] : f \in {f \in disk : Valid(f)}}

\* What loadLatest may return: the newest file that can be read and passes its
\* checksum.  Reading any of them may fail, or all of them.
Loadable == {Genesis} \cup {f.content : f \in {f \in disk : Valid(f)}}

ReplayEntry(s, id) ==
  IF stream[id] = Garbled THEN [s EXCEPT !.last = id] ELSE Process(s, id)

\* The log from s.last to n, folded into s.
ReplayUpTo(s, n) ==
  LET state[id \in s.last..n] ==
        IF id = s.last THEN s ELSE ReplayEntry(state[id - 1], id)
  IN  state[n]

\* Faulty: nothing is replayed.
ReplayNothing(s) == s

Replay(s) == ReplayUpTo(s, Len(stream))

Init ==
  /\ ConsumerInit
  /\ mem = Genesis
  /\ replayedThrough = 0
  /\ processed = FALSE
  /\ outbox = <<>>
  /\ output = <<>>
  /\ saves = 0
  /\ saving = {}
  /\ disk = {}

\* The process dies; what it kept in memory is gone, and what it had not yet
\* renamed does not count.  It is started again and recovers.
CrashAndRecover(c) ==
  /\ Crash(c)
  /\ \E loaded \in Loadable : mem' = Replay(loaded)
  /\ replayedThrough' = mem'.last
  /\ processed' = FALSE
  /\ outbox' = <<>>
  /\ saving' = {}
  /\ UNCHANGED <<output, saves, disk>>

-----------------------------------------------------------------------------
(* runLive: the handler of the consumer *)

\* Faulty: everything that is in the stream counts as replayed.
ReplayedAll(c) == Current(c).id <= Len(stream)

Replayed(c) == Current(c).id <= replayedThrough

SkipReplayed(c) ==
  /\ Handle(c)
  /\ Replayed(c)
  /\ UNCHANGED engineVars

RejectGarbled(c) ==
  /\ Throw(c)
  /\ ~Replayed(c)
  /\ stream[Current(c).id] = Garbled
  /\ UNCHANGED engineVars

ProcessMessage(c) ==
  /\ Dispatching(c) /\ ~Exhausted(c)
  /\ ~Replayed(c)
  /\ stream[Current(c).id] # Garbled
  /\ ~processed
  /\ mem' = Process(mem, Current(c).id)
  /\ outbox' = Outputs(mem, Current(c).id)
  /\ processed' = TRUE
  /\ UNCHANGED <<consumerVars, replayedThrough, output, snapshotVars>>

Publish ==
  /\ outbox # <<>>
  /\ output' = Append(output, Head(outbox))
  /\ outbox' = Tail(outbox)
  /\ UNCHANGED <<consumerVars, mem, replayedThrough, processed, snapshotVars>>

\* Faulty: what was not published is published with the next input.
PublishPutOff(c) ==
  /\ outbox # <<>>
  /\ Throw(c)
  /\ processed' = FALSE
  /\ UNCHANGED <<mem, replayedThrough, outbox, output, snapshotVars>>

\* An XADD fails: the handler throws, and what it has not published is gone.
PublishFails(c) ==
  /\ outbox # <<>>
  /\ Throw(c)
  /\ outbox' = <<>>
  /\ processed' = FALSE
  /\ UNCHANGED <<mem, replayedThrough, output, snapshotVars>>

FinishHandler(c) ==
  /\ processed
  /\ outbox = <<>>
  /\ Handle(c)
  /\ processed' = FALSE
  /\ UNCHANGED <<mem, replayedThrough, outbox, output, snapshotVars>>

-----------------------------------------------------------------------------
(* saveSnapshot: on a timer, after so many events, and when the process is *)
(* told to stop; nothing keeps a second one from beginning meanwhile.      *)
(* A call of save() waits for the file system between any two of its steps *)
(* and for its handler's turn.                                             *)

\* Every step of a save leaves the rest of the process alone.
Besides == UNCHANGED <<consumerVars, mem, replayedThrough, processed, outbox, output>>

\* The save s goes on, or is over.
GoOn(s, next) ==
  /\ saving' = (saving \ {s}) \cup next
  /\ UNCHANGED saves
  /\ Besides

\* serialize and checksum.
BeginSave ==
  /\ saves < MaxSaves
  /\ saves' = saves + 1
  /\ saving' = saving \cup
       {[step |-> "write", file |-> [at |-> saves + 1, content |-> mem, sum |-> mem], stale |-> {}]}
  /\ UNCHANGED disk
  /\ Besides

\* What JSON.stringify writes after the first await of save().  The numbers of
\* the serialized state are copies; its balances, positions, levels and
\* appliedCommandIds are those of the live state.  An index price may have
\* changed none of them, a command has changed appliedCommandIds.
Written(s) ==
  {[s EXCEPT !.applied = mem.applied]} \cup
  {t \in {s} : \A i \in ToSet(mem.applied) \ ToSet(s.applied) : stream[i] = Tick}

\* To a temporary file.
WriteFile(s) ==
  /\ s.step = "write"
  /\ \E content \in Written(s.file.sum) :
       GoOn(s, {[s EXCEPT !.step = "rename", !.file.content = content]})
  /\ UNCHANGED disk

RenameFile(s) ==
  /\ s.step = "rename"
  /\ disk' = disk \cup {s.file}
  /\ GoOn(s, {[s EXCEPT !.step = "list"]})

\* Opening, writing or renaming the file fails: the temporary file is left behind.
SaveFails(s) ==
  /\ s.step \in {"write", "rename"}
  /\ GoOn(s, {})
  /\ UNCHANGED disk

\* By the names of the files.
Newer(f, g) ==
  f.sum.count > g.sum.count \/ (f.sum.count = g.sum.count /\ f.at > g.at)

NewerThan(g, files) == {f \in files : Newer(f, g)}

\* Faulty: one file less is kept.
StaleOneMore == {f \in disk : Cardinality(NewerThan(f, disk)) >= Retain - 1}

\* All but the newest files.
Stale == {f \in disk : Cardinality(NewerThan(f, disk)) >= Retain}

\* prune goes on while there is something to unlink.
Unlinking(s, stale) ==
  {t \in {[s EXCEPT !.step = "unlink", !.stale = stale]} : stale # {}}

\* prune: what there is when it looks, or nothing, when that fails.
ListFiles(s) ==
  /\ s.step = "list"
  /\ \E stale \in {Stale, {}} : GoOn(s, Unlinking(s, stale))
  /\ UNCHANGED disk

\* Of those that were stale then, the newest first; if one cannot be removed, it
\* stays, and the others' turn comes.
UnlinkFile(s) ==
  /\ s.step = "unlink"
  /\ \E f \in s.stale :
       /\ NewerThan(f, s.stale) = {}
       /\ disk' \in {disk \ {f}, disk}
       /\ GoOn(s, Unlinking(s, s.stale \ {f}))

ContinueSave(s) ==
  WriteFile(s) \/ RenameFile(s) \/ SaveFails(s) \/ ListFiles(s) \/ UnlinkFile(s)

-----------------------------------------------------------------------------

\* The steps of the consumer loop that are not the handler's.
Consume(c) ==
  /\ \/ \E idle \in 0..Len(group.pending) : Claim(c, idle)
     \/ CountDeliveries(c)
     \/ ReadNew(c)
     \/ DeadLetter(c)
     \/ AckMessage(c)
  /\ UNCHANGED engineVars

Run(c) ==
  \/ Consume(c)
  \/ SkipReplayed(c)
  \/ RejectGarbled(c)
  \/ ProcessMessage(c)
  \/ Publish
  \/ FinishHandler(c)

Disturb(c) ==
  /\ AckFails(c) \/ ReplyLost(c) \/ LoopError(c)
  /\ UNCHANGED engineVars

Next ==
  \/ \E m \in Messages : Add(m) /\ UNCHANGED engineVars
  \/ \E c \in Consumers : Run(c) \/ PublishFails(c) \/ Disturb(c) \/ CrashAndRecover(c)
  \/ BeginSave
  \/ \E s \in saving : ContinueSave(s)

Safety == Init /\ [][Next]_vars

\* The loop of the process, which takes no part in saves, never stops while the
\* process lives.
Spec == Safety /\ \A c \in Consumers : WF_vars(UNCHANGED snapshotVars /\ Run(c))
=============================================================================
