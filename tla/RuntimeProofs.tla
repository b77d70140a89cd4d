--------------------------- MODULE RuntimeProofs ---------------------------
(***************************************************************************)
(* Theorems about the engine process: its state is always the log,         *)
(* replayed, a recovery gives the state of the whole log, no event id is   *)
(* used twice and pruning keeps the newest snapshots, for any number of    *)
(* messages, snapshots, crashes and failures.                              *)
(***************************************************************************)
EXTENDS RuntimeProperties, ConsumerProofs

-----------------------------------------------------------------------------
(* Replaying *)

\* There is a function that satisfies the recursion of ReplayUpTo.
LEMMA ReplayExists ==
  ASSUME NEW s, NEW a \in Nat, NEW n \in Nat, a <= n
  PROVE  \E f : f = [id \in a..n |-> IF id = a THEN s ELSE ReplayEntry(f[id - 1], id)]
<1> DEFINE Solves(f, m) == f = [id \in a..m |-> IF id = a THEN s ELSE ReplayEntry(f[id - 1], id)]
           S == {k \in Nat : \E f : Solves(f, a + k)}
<1>1. 0 \in S
  <2> DEFINE f == [id \in a..a |-> s]
  <2>1. \A id \in a..a : id = a
    OBVIOUS
  <2>2. f = [id \in a..a |-> IF id = a THEN s ELSE ReplayEntry(f[id - 1], id)]
    BY <2>1
  <2>3. Solves(f, a + 0)
    BY <2>2
  <2> QED
    BY <2>3
<1>2. \A k \in Nat : k \in S => k + 1 \in S
  <2> SUFFICES ASSUME NEW k \in Nat, \E f : Solves(f, a + k)
               PROVE  \E f : Solves(f, a + (k + 1))
    OBVIOUS
  <2>1. PICK f : Solves(f, a + k)
    OBVIOUS
  <2> DEFINE m == a + k
             g == [id \in a..m + 1 |-> IF id <= m THEN f[id] ELSE ReplayEntry(f[m], id)]
  <2>2. m \in Nat /\ a + (k + 1) = m + 1 /\ a <= m
    OBVIOUS
  <2>3. Solves(f, m)
    BY <2>1
  <2> HIDE DEF m
  <2>4. \A id \in a..m : f[id] = IF id = a THEN s ELSE ReplayEntry(f[id - 1], id)
    BY <2>3
  <2>5. \A id \in a..m : g[id] = f[id]
    BY <2>2
  <2>6. \A id \in a..m + 1 : g[id] = IF id = a THEN s ELSE ReplayEntry(g[id - 1], id)
    <3> TAKE id \in a..m + 1
    <3>1. CASE id = a
      BY <2>2, <2>4, <2>5, <3>1
    <3>2. CASE id # a /\ id <= m
      <4>1. id \in a..m /\ id - 1 \in a..m
        BY <2>2, <3>2
      <4> QED
        BY <2>4, <2>5, <3>2, <4>1
    <3>3. CASE id = m + 1
      <4>1. id - 1 = m /\ m \in a..m /\ id # a /\ ~(id <= m)
        BY <2>2, <3>3
      <4>2. g[id] = ReplayEntry(f[m], id)
        BY <4>1
      <4> QED
        BY <2>5, <4>1, <4>2
    <3> QED
      BY <2>2, <3>1, <3>2, <3>3
  <2>7. g = [id \in a..m + 1 |-> g[id]]
    OBVIOUS
  <2> HIDE DEF g
  <2>8. Solves(g, m + 1)
    BY <2>6, <2>7
  <2> QED
    BY <2>2, <2>8
<1>3. n - a \in S
  <2>1. n - a \in Nat
    OBVIOUS
  <2> HIDE DEF S
  <2> QED
    BY <1>1, <1>2, <2>1, Induction
<1>4. a + (n - a) = n
  OBVIOUS
<1> QED
  BY <1>3, <1>4

\* What each entry carries over, the replay does: Q says what holds after each.
LEMMA ReplayCarries ==
  ASSUME NEW s, NEW n \in Nat, s.last \in Nat, s.last <= n, NEW Q, s \in Q[s.last],
         \A id \in s.last + 1 .. n : \A t \in Q[id - 1] : ReplayEntry(t, id) \in Q[id]
  PROVE  ReplayUpTo(s, n) \in Q[n]
<1> DEFINE a == s.last
           f == CHOOSE f : f = [id \in a..n |-> IF id = a THEN s ELSE ReplayEntry(f[id - 1], id)]
<1>1. ReplayUpTo(s, n) = f[n]
  BY DEF ReplayUpTo
<1>2. f = [id \in a..n |-> IF id = a THEN s ELSE ReplayEntry(f[id - 1], id)]
  BY ReplayExists
<1> HIDE DEF f
<1>3. \A id \in a..n : f[id] = IF id = a THEN s ELSE ReplayEntry(f[id - 1], id)
  BY <1>2
<1> DEFINE S == {k \in Nat : a + k <= n => f[a + k] \in Q[a + k]}
<1>4. 0 \in S
  <2>1. a + 0 = a /\ a \in a..n
    OBVIOUS
  <2> QED
    BY <1>3, <2>1
<1>5. \A k \in Nat : k \in S => k + 1 \in S
  <2> SUFFICES ASSUME NEW k \in Nat, k \in S, a + (k + 1) <= n
               PROVE  f[a + (k + 1)] \in Q[a + (k + 1)]
    OBVIOUS
  <2> DEFINE id == a + (k + 1)
  <2>1. id \in a + 1 .. n /\ id \in a..n /\ id # a /\ id - 1 = a + k /\ a + k <= n
    OBVIOUS
  <2>2. f[id - 1] \in Q[id - 1]
    BY <2>1
  <2> HIDE DEF id, S
  <2>3. f[id] = ReplayEntry(f[id - 1], id)
    BY <1>3, <2>1
  <2>4. f[id] \in Q[id]
    BY <2>1, <2>2, <2>3
  <2> QED
    BY <2>4 DEF id
<1>6. n - a \in S
  <2>1. n - a \in Nat
    OBVIOUS
  <2> HIDE DEF S
  <2> QED
    BY <1>4, <1>5, <2>1, Induction
<1>7. a + (n - a) = n
  OBVIOUS
<1> QED
  BY <1>1, <1>6, <1>7

-----------------------------------------------------------------------------
(* One input *)

StreamOK == stream \in Seq(Messages) /\ Len(stream) \in 0..MaxMessages

LEMMA KnownState ==
  ASSUME NEW s, Known(s)
  PROVE  /\ s \in State /\ s.last \in Nat /\ s.last <= Len(stream) /\ s.seq \in Nat /\ s.count \in Nat
         /\ s.applied \in Seq(1..Len(stream)) /\ Len(s.applied) \in Nat
         /\ DOMAIN s.applied = 1..Len(s.applied)
         /\ \A i \in DOMAIN s.applied : s.applied[i] \in 1..Len(stream)
         /\ \A e \in ToSet(s.applied) : \E i \in DOMAIN s.applied : s.applied[i] = e
         /\ \A i \in DOMAIN s.applied : s.applied[i] \in ToSet(s.applied)
<1>1. s \in State /\ s.applied \in Seq(1..Len(stream)) /\ s.last <= Len(stream)
  BY DEF Known
<1>2. s.last \in Nat /\ s.seq \in Nat /\ s.count \in Nat
  BY <1>1, StreamAssumption DEF State
<1>3. Len(s.applied) \in Nat /\ DOMAIN s.applied = 1..Len(s.applied)
      /\ \A i \in DOMAIN s.applied : s.applied[i] \in 1..Len(stream)
  BY <1>1, LenProperties, ElementOfSeq
<1> QED
  BY <1>1, <1>2, <1>3 DEF ToSet

LEMMA ProcessKnown ==
  ASSUME StreamOK, NEW s, Known(s), NEW id \in 1..Len(stream)
  PROVE  Known(Process(s, id)) /\ Process(s, id).last = id
<1> DEFINE new == Append(s.applied, id)
           counted == IF stream[id] = Tick THEN 1 ELSE 0
           fresh == [applied |-> new, last |-> id, seq |-> s.seq + Drafts, count |-> s.count + 1]
           stale == [s EXCEPT !.last = id, !.count = @ + counted]
<1>1. /\ s \in State /\ s.seq \in Nat /\ s.count \in Nat /\ Len(s.applied) \in Nat
      /\ s.applied \in Seq(1..Len(stream)) /\ DOMAIN s.applied = 1..Len(s.applied)
      /\ \A i \in DOMAIN s.applied : s.applied[i] \in ToSet(s.applied) /\ s.applied[i] \in 1..Len(stream)
  BY KnownState
<1>2. Len(stream) \in Nat /\ 1..Len(stream) \subseteq Entry /\ id \in 0..MaxMessages /\ id <= Len(stream)
  BY StreamAssumption DEF StreamOK, Entry
<1>3. CASE Fresh(s, id)
  <2>1. Process(s, id) = fresh
    BY <1>3 DEF Process
  <2>2. /\ new \in Seq(1..Len(stream)) /\ Len(new) = Len(s.applied) + 1
        /\ \A i \in 1..Len(s.applied) : new[i] = s.applied[i]
        /\ new[Len(s.applied) + 1] = id /\ DOMAIN new = 1..Len(s.applied) + 1
    BY <1>1, AppendProperties, LenProperties
  <2>3. new \in Seq(Entry)
    BY <1>2, <2>2, SeqMonotonic
  <2> HIDE DEF new
  <2>4. Known(fresh)
    <3>1. fresh \in State
      BY <1>1, <1>2, <2>3, RuntimeAssumption DEF State
    <3> QED
      BY <1>2, <2>2, <3>1 DEF Known
  <2> QED
    BY <2>1, <2>4
<1>4. CASE ~Fresh(s, id)
  <2>1. Process(s, id) = stale
    BY <1>4 DEF Process
  <2>2. counted \in Nat
    OBVIOUS
  <2> HIDE DEF counted
  <2>3. /\ stale \in State /\ stale.last = id /\ stale.applied = s.applied
    <3>1. s.count + counted \in Nat
      BY <1>1, <2>2
    <3>2. stale = [applied |-> s.applied, last |-> id, seq |-> s.seq, count |-> s.count + counted]
      <4>1. PICK w, x, y, z : s = [applied |-> w, last |-> x, seq |-> y, count |-> z]
        BY <1>1, Zenon DEF State
      <4> DEFINE moved == [s EXCEPT !.last = id]
      <4>2. moved = [applied |-> s.applied, last |-> id, seq |-> s.seq, count |-> s.count]
        BY <4>1
      <4>3. stale = [moved EXCEPT !.count = s.count + counted]
        OBVIOUS
      <4> HIDE DEF moved, stale
      <4> QED
        BY <4>2, <4>3
    <3>3. s.applied \in Seq(Entry)
      BY <1>1 DEF State
    <3> QED
      BY <1>1, <1>2, <3>1, <3>2, <3>3 DEF State
  <2> HIDE DEF stale
  <2> QED
    BY <1>1, <1>2, <2>1, <2>3 DEF Known
<1> QED
  BY <1>3, <1>4

LEMMA EntryKnown ==
  ASSUME StreamOK, NEW s, Known(s), NEW id \in 1..Len(stream)
  PROVE  Known(ReplayEntry(s, id)) /\ ReplayEntry(s, id).last = id
<1>1. CASE stream[id] = Garbled
  <2> DEFINE t == [s EXCEPT !.last = id]
  <2>1. ReplayEntry(s, id) = t
    BY <1>1 DEF ReplayEntry
  <2>2. s \in State /\ s.applied \in Seq(1..Len(stream))
    BY KnownState
  <2>3. id \in 0..MaxMessages /\ id <= Len(stream)
    BY StreamAssumption DEF StreamOK
  <2>4. t \in State /\ t.last = id /\ t.applied = s.applied
    BY <2>2, <2>3 DEF State
  <2> HIDE DEF t
  <2> QED
    BY <2>1, <2>2, <2>3, <2>4 DEF Known
<1>2. CASE stream[id] # Garbled
  BY <1>2, ProcessKnown DEF ReplayEntry
<1> QED
  BY <1>1, <1>2

LEMMA ReplayKnown ==
  ASSUME StreamOK, NEW s, Known(s)
  PROVE  Known(Replay(s)) /\ Replay(s).last = Len(stream)
<1> DEFINE n == Len(stream)
           Q == [id \in 0..n |-> {t \in State : Known(t) /\ t.last = id}]
<1>1. n \in Nat /\ s.last \in Nat /\ s.last <= n /\ s \in State
  BY KnownState DEF StreamOK
<1>2. s \in Q[s.last]
  BY <1>1
<1>3. ASSUME NEW id \in s.last + 1 .. n, NEW t \in Q[id - 1]
      PROVE  ReplayEntry(t, id) \in Q[id]
  <2>1. id \in 1..n /\ id \in 0..n /\ id - 1 \in 0..n
    BY <1>1
  <2>2. Known(t)
    BY <2>1
  <2>3. Known(ReplayEntry(t, id)) /\ ReplayEntry(t, id).last = id
    BY <2>1, <2>2, EntryKnown
  <2>4. ReplayEntry(t, id) \in State
    BY <2>3 DEF Known
  <2> QED
    BY <2>1, <2>3, <2>4
<1> HIDE DEF Q
<1>4. ReplayUpTo(s, n) \in Q[n]
  BY <1>1, <1>2, <1>3, ReplayCarries
<1>5. ReplayUpTo(s, n) \in {t \in State : Known(t) /\ t.last = n}
  BY <1>1, <1>4 DEF Q
<1> QED
  BY <1>5 DEF Replay

-----------------------------------------------------------------------------
(* Snapshots *)

LEMMA GenesisKnown ==
  ASSUME StreamOK
  PROVE  /\ Known(Genesis)
         /\ Genesis.applied = <<>> /\ Genesis.last = 0 /\ Genesis.seq = 0
<1>1. <<>> \in Seq(Entry) /\ <<>> \in Seq(1..Len(stream)) /\ DOMAIN << >> = {}
  BY EmptySeq
<1>2. Len(stream) \in Nat /\ MaxMessages \in Nat
  BY StreamAssumption DEF StreamOK
<1> QED
  BY <1>1, <1>2 DEF Known, Genesis, State

\* A snapshot that passes its checksum is a state in which the engine was.
LEMMA LoadedVisited ==
  ASSUME NEW loaded \in Loadable
  PROVE  loaded = Genesis \/ loaded \in Visited
<1>1. ASSUME NEW f \in disk, Valid(f) PROVE f.content \in Visited
  BY <1>1 DEF Valid, Visited
<1> QED
  BY <1>1 DEF Loadable

-----------------------------------------------------------------------------
(* Whatever fails, and with any number of consumers                        *)

\* Known of a state and a log: what it says is kept as the log grows.
KnownIn(s, log) ==
  /\ s \in State
  /\ s.applied \in Seq(1..Len(log)) /\ s.last <= Len(log)

\* A longer log has the same entries, and the states that were known still are.
LEMMA LogGrows ==
  ASSUME NEW log \in Seq(Messages), NEW m \in Messages
  PROVE  LET longer == Append(log, m) IN
         /\ Len(log) \in Nat /\ Len(longer) = Len(log) + 1 /\ longer \in Seq(Messages)
         /\ \A i \in 1..Len(log) : longer[i] = log[i]
         /\ longer[Len(longer)] = m
         /\ \A s : KnownIn(s, log) => KnownIn(s, longer)
<1> DEFINE longer == Append(log, m)
<1>1. /\ Len(log) \in Nat /\ Len(longer) = Len(log) + 1 /\ longer \in Seq(Messages)
      /\ \A i \in 1..Len(log) : longer[i] = log[i]
      /\ longer[Len(longer)] = m
  BY LenProperties, AppendProperties
<1> HIDE DEF longer
<1>2. ASSUME NEW s, KnownIn(s, log) PROVE KnownIn(s, longer)
  <2>1. s \in State /\ s.applied \in Seq(1..Len(log)) /\ s.last <= Len(log)
    BY <1>2 DEF KnownIn
  <2>2. 1..Len(log) \subseteq 1..Len(longer)
    BY <1>1
  <2>3. s.applied \in Seq(1..Len(longer))
    BY <2>1, <2>2, SeqMonotonic
  <2>4. s.last \in Nat
    BY <2>1, StreamAssumption DEF State
  <2> QED
    BY <1>1, <2>1, <2>3, <2>4 DEF KnownIn
<1> QED
  BY <1>1, <1>2 DEF longer

\* Saving disturbs nothing else.
LEMMA SavesBeside ==
  ASSUME BeginSave \/ \E s \in saving : ContinueSave(s)
  PROVE  UNCHANGED <<stream, group, loop, handled, dead, failures,
                     mem, replayedThrough, processed, outbox, output>>
<1>1. Besides
  BY DEF BeginSave, ContinueSave, WriteFile, RenameFile, SaveFails, ListFiles, UnlinkFile, GoOn
<1> QED
  BY <1>1 DEF Besides, consumerVars

\* Every step of the process is a step of its consumers or leaves them alone.
LEMMA ConsumersMove ==
  ASSUME [Next]_vars
  PROVE  [ConsumerNext]_consumerVars
<1>1. CASE \E m \in Messages : Add(m)
  BY <1>1 DEF ConsumerNext
<1>2. ASSUME NEW c \in Consumers, Run(c) PROVE [ConsumerNext]_consumerVars
  BY <1>2 DEF Run, Consume, SkipReplayed, RejectGarbled, ProcessMessage, Publish, FinishHandler,
              ConsumerNext, LoopStep
<1>3. ASSUME NEW c \in Consumers, PublishFails(c) \/ Disturb(c) \/ CrashAndRecover(c)
      PROVE  [ConsumerNext]_consumerVars
  BY <1>3 DEF PublishFails, Disturb, CrashAndRecover, ConsumerNext, LoopStep
<1>4. CASE BeginSave \/ (\E s \in saving : ContinueSave(s)) \/ UNCHANGED vars
  BY <1>4, SavesBeside DEF vars, consumerVars
<1> QED
  BY <1>1, <1>2, <1>3, <1>4 DEF Next

LEMMA ConsumersSafe == Safety => []ConsumerInv
<1>1. Init => ConsumerInv
  BY ConsumerStart DEF Init
<1>2. ConsumerInv /\ [Next]_vars => ConsumerInv'
  BY ConsumersMove, ConsumerStep
<1> QED
  BY <1>1, <1>2, PTL DEF Safety

\* The log of a step of the process: it stays, or one entry is added.
LEMMA LogMoves ==
  ASSUME [Next]_vars
  PROVE  \/ stream' = stream
         \/ \E m \in Messages : stream' = Append(stream, m) /\ UNCHANGED <<engineVars, group, loop>>
<1>1. CASE \E m \in Messages : Add(m) /\ UNCHANGED engineVars
  BY <1>1 DEF Add
<1>2. ASSUME NEW c \in Consumers, Run(c) \/ PublishFails(c) \/ Disturb(c) \/ CrashAndRecover(c)
      PROVE  stream' = stream
  BY <1>2 DEF Run, Consume, Claim, CountDeliveries, ReadNew, DeadLetter, AckMessage, SkipReplayed,
              Handle, RejectGarbled, Throw, ProcessMessage, Publish, FinishHandler, PublishFails,
              Disturb, AckFails, ReplyLost, LoopError, CrashAndRecover, Crash, consumerVars
<1>3. CASE BeginSave \/ (\E s \in saving : ContinueSave(s)) \/ UNCHANGED vars
  BY <1>3, SavesBeside DEF vars, consumerVars
<1> QED
  BY <1>1, <1>2, <1>3 DEF Next

LEMMA StreamTypes ==
  ASSUME ConsumerInv
  PROVE  StreamOK /\ stream \in Seq(Messages)
BY Facts DEF ConsumerInv, ConsumerTypeOK, StreamOK

\* A message in hand is an entry of the log.
LEMMA InHand ==
  ASSUME ConsumerInv, NEW c \in Consumers, loop[c].batch # <<>>
  PROVE  Current(c).id \in 1..group.last /\ Current(c).id \in 1..Len(stream)
<1>1. /\ loop[c].batch \in Seq(Delivery) /\ group.last \in Nat
      /\ group.last <= Len(stream) /\ Len(stream) \in Nat
  BY Facts
<1>2. Head(loop[c].batch) \in ToSet(loop[c].batch) /\ Head(loop[c].batch).id \in Nat \ {0}
  BY <1>1, Elements
<1>3. Head(loop[c].batch).id <= group.last
  BY <1>2 DEF ConsumerInv, Held
<1> QED
  BY <1>1, <1>2, <1>3 DEF Current

\* HistoryInv survives a step when what the step brings in is known.
LEMMA HistoryMoves ==
  ASSUME ConsumerInv, ConsumerInv', HistoryInv, stream' = stream,
         mem' \in State, replayedThrough' \in 0..Len(stream), processed' \in BOOLEAN,
         outbox' \in Seq(Event), outbox' # <<>> => processed',
         output' \in Seq(Event),
         saves' \in Nat, saving' \subseteq Save, disk' \subseteq File,
         \A s \in Visited' : s \in Visited \/ Known(s),
         \A f \in Files' : f \in Files \/ Known(f.content)
  PROVE  HistoryInv'
<1>1. TypeOK'
  <2>1. group' \in Group /\ loop' \in [Consumers -> Loop]
    BY DEF ConsumerInv, ConsumerTypeOK
  <2>2. replayedThrough' \in 0..MaxMessages
    BY StreamTypes, StreamAssumption DEF StreamOK
  <2> QED
    BY <2>1, <2>2 DEF TypeOK
<1>2. (replayedThrough <= Len(stream))'
  BY StreamTypes DEF StreamOK
<1>3. \A s \in Visited' : KnownIn(s, stream')
  BY DEF HistoryInv, Known, KnownIn
<1>4. \A f \in Files' : KnownIn(f.content, stream')
  BY DEF HistoryInv, Known, KnownIn
<1>5. (\A s \in Visited : Known(s))'
  BY <1>3 DEF Known, KnownIn
<1>6. (\A f \in Files : Known(f.content))'
  BY <1>4 DEF Known, KnownIn
<1> QED
  BY <1>1, <1>2, <1>5, <1>6 DEF HistoryInv

\* What HistoryInv gives a step.
LEMMA HistoryFacts ==
  ASSUME ConsumerInv, HistoryInv
  PROVE  /\ StreamOK /\ Len(stream) \in Nat
         /\ mem \in State /\ Known(mem)
         /\ replayedThrough \in 0..Len(stream) /\ processed \in BOOLEAN
         /\ outbox \in Seq(Event) /\ (outbox # <<>> => processed) /\ output \in Seq(Event)
         /\ saves \in Nat /\ saving \subseteq Save /\ disk \subseteq File
         /\ \A s \in Visited : Known(s)
         /\ \A f \in Files : Known(f.content)
<1>1. StreamOK /\ Len(stream) \in Nat
  BY StreamTypes DEF StreamOK
<1>2. mem \in Visited
  BY DEF Visited
<1>3. replayedThrough \in 0..Len(stream)
  BY <1>1, StreamAssumption DEF HistoryInv, TypeOK
<1> QED
  BY <1>1, <1>2, <1>3 DEF HistoryInv, TypeOK

\* The process is left as it was.
LEMMA IdleHistory ==
  ASSUME ConsumerInv, ConsumerInv', HistoryInv, UNCHANGED engineVars, stream' = stream
  PROVE  HistoryInv'
<1>1. UNCHANGED <<mem, replayedThrough, processed, outbox, output, saves, saving, disk>>
  BY DEF engineVars, snapshotVars
<1>2. Visited' = Visited /\ Files' = Files
  BY <1>1 DEF Visited, Files
<1> QED
  BY <1>1, <1>2, HistoryFacts, HistoryMoves

LEMMA AddHistory ==
  ASSUME ConsumerInv, ConsumerInv', HistoryInv, UNCHANGED <<engineVars, group, loop>>,
         NEW m \in Messages, stream' = Append(stream, m)
  PROVE  HistoryInv'
<1>1. /\ Len(stream) \in Nat /\ Len(stream') = Len(stream) + 1
      /\ \A s : KnownIn(s, stream) => KnownIn(s, stream')
  BY StreamTypes, LogGrows
<1>2. UNCHANGED <<mem, replayedThrough, processed, outbox, output, saves, saving, disk, group, loop>>
  BY DEF engineVars, snapshotVars
<1>3. TypeOK'
  BY <1>2 DEF HistoryInv, TypeOK
<1>4. (replayedThrough <= Len(stream))'
  BY <1>1, <1>2, HistoryFacts
<1>5. \A s \in Visited' : KnownIn(s, stream')
  <2>1. Visited' = Visited
    BY <1>2 DEF Visited
  <2>2. \A s \in Visited : KnownIn(s, stream)
    BY DEF HistoryInv, Known, KnownIn
  <2> QED
    BY <1>1, <2>1, <2>2
<1>6. \A f \in Files' : KnownIn(f.content, stream')
  <2>1. Files' = Files
    BY <1>2 DEF Files
  <2>2. \A f \in Files : KnownIn(f.content, stream)
    BY DEF HistoryInv, Known, KnownIn
  <2> QED
    BY <1>1, <2>1, <2>2
<1>7. (\A s \in Visited : Known(s))'
  BY <1>5 DEF Known, KnownIn
<1>8. (\A f \in Files : Known(f.content))'
  BY <1>6 DEF Known, KnownIn
<1> QED
  BY <1>3, <1>4, <1>7, <1>8 DEF HistoryInv

LEMMA EventsOf ==
  ASSUME StreamOK, NEW s, Known(s), NEW id \in 1..Len(stream)
  PROVE  Outputs(s, id) \in Seq(Event)
<1>1. s.seq \in Nat
  BY KnownState
<1>2. id \in Entry /\ Drafts \in Nat
  BY StreamAssumption, RuntimeAssumption DEF StreamOK, Entry
<1> DEFINE events == [k \in 1..Drafts |-> [seq |-> s.seq + k, cause |-> id]]
<1>3. events \in [1..Drafts -> Event]
  BY <1>1, <1>2 DEF Event
<1>4. events \in Seq(Event)
  BY <1>2, <1>3, IsASeq
<1>5. <<>> \in Seq(Event)
  BY EmptySeq
<1> QED
  BY <1>4, <1>5 DEF Outputs

LEMMA ProcessHistory ==
  ASSUME ConsumerInv, ConsumerInv', HistoryInv, NEW c \in Consumers, ProcessMessage(c)
  PROVE  HistoryInv'
<1> DEFINE id == Current(c).id
<1>1. loop[c].batch # <<>>
  BY Facts DEF ProcessMessage, Dispatching, At
<1>2. id \in 1..Len(stream)
  BY <1>1, InHand
<1>3. Known(Process(mem, id))
  BY <1>2, HistoryFacts, ProcessKnown
<1>4. /\ mem' = Process(mem, id) /\ outbox' = Outputs(mem, id) /\ processed' = TRUE
      /\ UNCHANGED <<stream, replayedThrough, output, saves, saving, disk>>
  BY DEF ProcessMessage, consumerVars, snapshotVars
<1> HIDE DEF id
<1>5. mem' \in State
  BY <1>3, <1>4 DEF Known
<1>6. outbox' \in Seq(Event)
  BY <1>2, <1>4, HistoryFacts, EventsOf
<1>7. (\A s \in Visited' : s \in Visited \/ Known(s)) /\ Files' = Files
  BY <1>3, <1>4 DEF Visited, Files
<1> QED
  BY <1>4, <1>5, <1>6, <1>7, HistoryFacts, HistoryMoves

LEMMA PublishHistory ==
  ASSUME ConsumerInv, ConsumerInv', HistoryInv, Publish
  PROVE  HistoryInv'
<1>1. /\ outbox # <<>> /\ output' = Append(output, Head(outbox)) /\ outbox' = Tail(outbox)
      /\ UNCHANGED <<stream, mem, replayedThrough, processed, saves, saving, disk>>
  BY DEF Publish, consumerVars, snapshotVars
<1>2. outbox \in Seq(Event) /\ output \in Seq(Event) /\ processed
  BY <1>1, HistoryFacts
<1>3. Tail(outbox) \in Seq(Event) /\ Head(outbox) \in Event
  BY <1>1, <1>2, HeadTailProperties
<1>4. output' \in Seq(Event)
  BY <1>1, <1>2, <1>3, AppendProperties
<1>5. Visited' = Visited /\ Files' = Files
  BY <1>1 DEF Visited, Files
<1> QED
  BY <1>1, <1>2, <1>3, <1>4, <1>5, HistoryFacts, HistoryMoves

\* The handler ends, one way or the other.
LEMMA EndHistory ==
  ASSUME ConsumerInv, ConsumerInv', HistoryInv,
         \E c \in Consumers : PublishFails(c) \/ FinishHandler(c)
  PROVE  HistoryInv'
<1>1. /\ outbox' = <<>> /\ processed' = FALSE
      /\ UNCHANGED <<stream, mem, replayedThrough, output, saves, saving, disk>>
  BY DEF PublishFails, FinishHandler, Throw, Handle, snapshotVars
<1>2. <<>> \in Seq(Event)
  BY EmptySeq
<1>3. Visited' = Visited /\ Files' = Files
  BY <1>1 DEF Visited, Files
<1> QED
  BY <1>1, <1>2, <1>3, HistoryFacts, HistoryMoves

LEMMA LoadedKnown ==
  ASSUME ConsumerInv, HistoryInv, NEW loaded \in Loadable
  PROVE  Known(loaded)
BY HistoryFacts, LoadedVisited, GenesisKnown

LEMMA CrashHistory ==
  ASSUME ConsumerInv, ConsumerInv', HistoryInv, NEW c \in Consumers, CrashAndRecover(c)
  PROVE  HistoryInv'
<1>0. PICK loaded \in Loadable : mem' = Replay(loaded)
  BY DEF CrashAndRecover
<1>1. /\ replayedThrough' = mem'.last /\ processed' = FALSE
      /\ outbox' = <<>> /\ saving' = {} /\ UNCHANGED <<stream, output, saves, disk>>
  BY DEF CrashAndRecover, Crash
<1>2. Known(mem') /\ mem'.last = Len(stream)
  BY <1>0, LoadedKnown, HistoryFacts, ReplayKnown
<1>3. mem' \in State /\ replayedThrough' \in 0..Len(stream)
  BY <1>1, <1>2, HistoryFacts DEF Known
<1>4. <<>> \in Seq(Event)
  BY EmptySeq
<1>5. (\A s \in Visited' : s \in Visited \/ Known(s)) /\ Files' \subseteq Files
  BY <1>1, <1>2 DEF Visited, Files
<1> QED
  BY <1>1, <1>3, <1>4, <1>5, HistoryFacts, HistoryMoves

\* What a file can hold: the state that was serialized, or that state with the
\* applied commands of a later one.
LEMMA WrittenKnown ==
  ASSUME ConsumerInv, HistoryInv, NEW s, Known(s), NEW content \in Written(s)
  PROVE  Known(content) /\ content \in State
<1>1. Known(mem)
  BY HistoryFacts
<1> DEFINE t == [s EXCEPT !.applied = mem.applied]
<1>2. content = s \/ content = t
  BY DEF Written
<1>3. /\ t \in State /\ t.applied = mem.applied /\ t.last = s.last
  BY <1>1 DEF Known, State
<1> HIDE DEF t
<1>4. Known(t)
  BY <1>1, <1>3 DEF Known
<1> QED
  BY <1>1, <1>2, <1>4 DEF Known

\* A save that goes on with the same file.
LEMMA SaveParts ==
  ASSUME NEW s \in Save
  PROVE  /\ s.file \in File /\ s.file.sum \in State /\ s.stale \subseteq File
         /\ \A step \in {"list"} :
              /\ [s EXCEPT !.step = step] \in Save
              /\ [s EXCEPT !.step = step].file = s.file
              /\ [s EXCEPT !.step = step].stale = s.stale
         /\ \A stale \in SUBSET File :
              LET t == [s EXCEPT !.step = "unlink", !.stale = stale]
                  r == [s EXCEPT !.stale = stale] IN
              /\ t \in Save /\ t.file = s.file /\ t.stale = stale
              /\ r \in Save /\ r.file = s.file /\ r.stale = stale
         /\ \A content \in State :
              LET t == [s EXCEPT !.step = "rename", !.file.content = content] IN
              /\ t \in Save /\ t.stale = s.stale
              /\ t.file.sum = s.file.sum /\ t.file.content = content
<1>1. PICK a, b, c : s = [step |-> a, file |-> b, stale |-> c]
  BY Zenon DEF Save
<1>2. a \in {"write", "rename", "list", "unlink"} /\ b \in File /\ c \subseteq File
  BY <1>1 DEF Save
<1>3. PICK k, l, m : b = [at |-> k, content |-> l, sum |-> m] /\ k \in Nat /\ l \in State /\ m \in State
  BY <1>2, Zenon DEF File
<1> QED
  BY <1>1, <1>2, <1>3 DEF Save, File

\* The steps of a save bring in no state that was not there, and what they write is
\* known.
LEMMA SavesVisited ==
  ASSUME ConsumerInv, HistoryInv, NEW s \in saving, ContinueSave(s)
  PROVE  /\ saves' \in Nat /\ saving' \subseteq Save /\ disk' \subseteq File
         /\ Visited' \subseteq Visited
         /\ \A f \in Files' : f \in Files \/ Known(f.content)
<1>1. /\ saves \in Nat /\ saving \subseteq Save /\ disk \subseteq File /\ s \in Save
      /\ \A f \in Files : Known(f.content)
      /\ Known(s.file.sum)
  BY HistoryFacts DEF Visited
<1>2. s.file \in Files /\ s.file \in File /\ s.stale \subseteq File
  BY <1>1, SaveParts DEF Files
<1>3. mem' = mem /\ saves' = saves
  BY DEF ContinueSave, WriteFile, RenameFile, SaveFails, ListFiles, UnlinkFile, GoOn, Besides
<1> DEFINE Moves(next) ==
      /\ saving' = (saving \ {s}) \cup next /\ next \subseteq Save
      /\ disk' \subseteq disk \cup {s.file}
      /\ \A t \in next : t.file.sum = s.file.sum /\ (t.file = s.file \/ Known(t.file.content))
<1>4. ASSUME NEW next, Moves(next)
      PROVE  /\ saving' \subseteq Save /\ disk' \subseteq File
             /\ Visited' \subseteq Visited
             /\ \A f \in Files' : f \in Files \/ Known(f.content)
  <2>1. saving' \subseteq Save /\ disk' \subseteq File
    BY <1>1, <1>2, <1>4
  <2>2. \A x \in Visited' : x \in Visited
    BY <1>3, <1>4 DEF Visited
  <2>3. ASSUME NEW f \in Files' PROVE f \in Files \/ Known(f.content)
    BY <1>2, <1>4 DEF Files
  <2> QED
    BY <2>1, <2>2, <2>3
<1> HIDE DEF Moves
<1>5. ASSUME WriteFile(s) PROVE \E next : Moves(next)
  <2>1. PICK content \in Written(s.file.sum) :
          saving' = (saving \ {s}) \cup {[s EXCEPT !.step = "rename", !.file.content = content]}
    BY <1>5 DEF WriteFile, GoOn
  <2>2. Known(content) /\ content \in State
    BY <1>1, WrittenKnown
  <2> DEFINE t == [s EXCEPT !.step = "rename", !.file.content = content]
  <2>3. t \in Save /\ t.file.sum = s.file.sum /\ t.file.content = content
    BY <1>1, <2>2, SaveParts
  <2>4. saving' = (saving \ {s}) \cup {t} /\ disk' = disk
    BY <1>5, <2>1 DEF WriteFile
  <2> HIDE DEF t
  <2>5. Moves({t})
    BY <2>2, <2>3, <2>4 DEF Moves
  <2> QED
    BY <2>5
<1>6. ASSUME RenameFile(s) PROVE \E next : Moves(next)
  <2> DEFINE t == [s EXCEPT !.step = "list"]
  <2>1. saving' = (saving \ {s}) \cup {t} /\ disk' = disk \cup {s.file}
    BY <1>6 DEF RenameFile, GoOn
  <2>2. t \in Save /\ t.file = s.file
    BY <1>1, SaveParts
  <2> HIDE DEF t
  <2>3. Moves({t})
    BY <2>1, <2>2 DEF Moves
  <2> QED
    BY <2>3
<1>7. ASSUME SaveFails(s) PROVE \E next : Moves(next)
  <2>1. saving' = (saving \ {s}) \cup {} /\ disk' = disk
    BY <1>7 DEF SaveFails, GoOn
  <2>2. Moves({})
    BY <2>1 DEF Moves
  <2> QED
    BY <2>2
<1>8. ASSUME ListFiles(s) PROVE \E next : Moves(next)
  <2>1. PICK stale \in {Stale, {}} : saving' = (saving \ {s}) \cup Unlinking(s, stale)
    BY <1>8 DEF ListFiles, GoOn
  <2> DEFINE t == [s EXCEPT !.step = "unlink", !.stale = stale]
  <2>2. stale \in SUBSET File
    BY <1>1 DEF Stale
  <2>3. t \in Save /\ t.file = s.file
    BY <1>1, <2>2, SaveParts
  <2>4. saving' = (saving \ {s}) \cup Unlinking(s, stale) /\ disk' = disk
    BY <1>8, <2>1 DEF ListFiles
  <2>5. Unlinking(s, stale) \subseteq {t}
    BY DEF Unlinking
  <2> HIDE DEF t
  <2>6. Moves(Unlinking(s, stale))
    BY <2>3, <2>4, <2>5 DEF Moves
  <2> QED
    BY <2>6
<1>9. ASSUME UnlinkFile(s) PROVE \E next : Moves(next)
  <2>1. PICK f \in s.stale : /\ disk' \in {disk \ {f}, disk}
                             /\ saving' = (saving \ {s}) \cup Unlinking(s, s.stale \ {f})
    BY <1>9 DEF UnlinkFile, GoOn
  <2> DEFINE rest == s.stale \ {f}
             t == [s EXCEPT !.step = "unlink", !.stale = rest]
  <2>2. t \in Save /\ t.file = s.file
    <3>1. rest \in SUBSET File
      BY <1>2
    <3> QED
      BY <1>1, <3>1, SaveParts
  <2>3. saving' = (saving \ {s}) \cup Unlinking(s, rest) /\ disk' \subseteq disk
    BY <2>1
  <2>4. Unlinking(s, rest) \subseteq {t}
    BY DEF Unlinking
  <2> HIDE DEF t
  <2>5. Moves(Unlinking(s, rest))
    BY <2>2, <2>3, <2>4 DEF Moves
  <2> QED
    BY <2>5
<1>10. \E next : Moves(next)
  BY <1>5, <1>6, <1>7, <1>8, <1>9 DEF ContinueSave
<1> QED
  BY <1>1, <1>3, <1>4, <1>10

\* Neither does the first.
LEMMA BeginVisited ==
  ASSUME ConsumerInv, HistoryInv, BeginSave
  PROVE  /\ saves' \in Nat /\ saving' \subseteq Save /\ disk' = disk
         /\ Visited' \subseteq Visited
         /\ \A f \in Files' : f \in Files \/ Known(f.content)
<1> DEFINE file == [at |-> saves + 1, content |-> mem, sum |-> mem]
           t    == [step |-> "write", file |-> file, stale |-> {}]
<1>1. /\ saves' = saves + 1 /\ saving' = saving \cup {t} /\ disk' = disk /\ mem' = mem
  BY DEF BeginSave, Besides
<1>2. saves \in Nat /\ saving \subseteq Save /\ mem \in State /\ Known(mem)
  BY HistoryFacts
<1>3. file \in File /\ file.sum = mem /\ file.content = mem
  BY <1>2 DEF File
<1> HIDE DEF file
<1>4. t \in Save /\ t.file = file
  BY <1>3 DEF Save
<1> HIDE DEF t
<1>5. saving' \subseteq Save
  BY <1>1, <1>2, <1>4
<1>6. \A x \in Visited' : x \in Visited
  BY <1>1, <1>3, <1>4 DEF Visited
<1>7. \A f \in Files' : f \in Files \/ Known(f.content)
  BY <1>1, <1>2, <1>3, <1>4 DEF Files
<1> QED
  BY <1>1, <1>2, <1>5, <1>6, <1>7

LEMMA SaveHistory ==
  ASSUME ConsumerInv, ConsumerInv', HistoryInv, BeginSave \/ \E s \in saving : ContinueSave(s)
  PROVE  HistoryInv'
<1>1. UNCHANGED <<stream, mem, replayedThrough, processed, outbox, output>>
  BY SavesBeside
<1>2. /\ saves' \in Nat /\ saving' \subseteq Save /\ disk' \subseteq File
      /\ Visited' \subseteq Visited
      /\ \A f \in Files' : f \in Files \/ Known(f.content)
  BY BeginVisited, SavesVisited, HistoryFacts
<1> QED
  BY <1>1, <1>2, HistoryFacts, HistoryMoves

LEMMA HistoryStep ==
  ASSUME ConsumerInv, HistoryInv, [Next]_vars
  PROVE  HistoryInv'
<1>0. ConsumerInv'
  BY ConsumersMove, ConsumerStep
<1>1. CASE stream' # stream
  BY <1>0, <1>1, LogMoves, AddHistory
<1>2. CASE stream' = stream /\ UNCHANGED engineVars
  BY <1>0, <1>2, IdleHistory
<1>3. ASSUME NEW c \in Consumers, Run(c), stream' = stream PROVE HistoryInv'
  <2>1. \/ UNCHANGED engineVars \/ ProcessMessage(c) \/ Publish \/ FinishHandler(c)
    BY <1>3 DEF Run, Consume, SkipReplayed, RejectGarbled
  <2> QED
    BY <1>0, <1>2, <1>3, <2>1, ProcessHistory, PublishHistory, EndHistory
<1>4. ASSUME NEW c \in Consumers, PublishFails(c) \/ CrashAndRecover(c) PROVE HistoryInv'
  BY <1>0, <1>4, EndHistory, CrashHistory
<1>5. ASSUME NEW c \in Consumers, Disturb(c), stream' = stream PROVE HistoryInv'
  BY <1>2, <1>5 DEF Disturb
<1>6. CASE BeginSave \/ \E s \in saving : ContinueSave(s)
  BY <1>0, <1>6, SaveHistory
<1>7. CASE UNCHANGED vars
  BY <1>2, <1>7 DEF vars, consumerVars
<1> QED
  BY <1>1, <1>2, <1>3, <1>4, <1>5, <1>6, <1>7 DEF Next

LEMMA HistoryStart == Init => HistoryInv
<1> SUFFICES ASSUME Init PROVE HistoryInv
  OBVIOUS
<1>1. ConsumerInv /\ StreamOK /\ stream = <<>>
  BY ConsumerStart, StreamTypes DEF Init, ConsumerInit
<1>2. /\ mem = Genesis /\ replayedThrough = 0 /\ processed = FALSE /\ outbox = <<>>
      /\ output = <<>> /\ saves = 0 /\ saving = {} /\ disk = {}
  BY DEF Init
<1>3. <<>> \in Seq(Event)
  BY EmptySeq
<1>4. Known(Genesis) /\ Genesis \in State
  BY <1>1, GenesisKnown DEF Known
<1>5. Visited = {Genesis} /\ Files = {}
  BY <1>2 DEF Visited, Files
<1>6. TypeOK
  <2>1. group \in Group /\ loop \in [Consumers -> Loop]
    BY <1>1 DEF ConsumerInv, ConsumerTypeOK
  <2>2. 0 \in 0..MaxMessages
    BY StreamAssumption
  <2> QED
    BY <1>2, <1>3, <1>4, <2>1, <2>2 DEF TypeOK
<1> QED
  BY <1>1, <1>2, <1>3, <1>4, <1>5, <1>6 DEF HistoryInv

LEMMA ProcessSafe == Safety => [](ConsumerInv /\ HistoryInv)
<1>1. Init => HistoryInv
  BY HistoryStart
<1>2. ConsumerInv /\ HistoryInv /\ [Next]_vars => HistoryInv'
  BY HistoryStep
<1> QED
  BY <1>1, <1>2, ConsumersSafe, PTL DEF Safety

\* The types of what the process keeps, with any faults and any number of consumers;
\* between two messages nothing is left to publish.
THEOREM ProcessTypes == Safety => []TypeOK
<1>1. HistoryInv => TypeOK
  BY DEF HistoryInv
<1> QED
  BY <1>1, ProcessSafe, PTL

-----------------------------------------------------------------------------
(* Pruning                                                                 *)

\* By their names files are in a strict order.
LEMMA NewerOrder ==
  /\ \A f \in File : ~Newer(f, f)
  /\ \A f, g, h \in File : Newer(f, g) /\ Newer(g, h) => Newer(f, h)
<1>1. \A f \in File : f.at \in Nat /\ f.sum.count \in Nat
  BY DEF File, State
<1> QED
  BY <1>1 DEF Newer

\* As files are added, none gets fewer newer ones.
LEMMA NewerGrow ==
  ASSUME NEW more, IsFiniteSet(more), NEW files \in SUBSET more, NEW f,
         Cardinality(NewerThan(f, files)) >= Retain
  PROVE  Cardinality(NewerThan(f, more)) >= Retain
<1>1. /\ NewerThan(f, more) \in SUBSET more
      /\ NewerThan(f, files) \in SUBSET NewerThan(f, more)
  BY DEF NewerThan
<1>2. IsFiniteSet(NewerThan(f, more)) /\ IsFiniteSet(NewerThan(f, files))
  BY <1>1, FS_Subset
<1>3. /\ Cardinality(NewerThan(f, more)) \in Nat /\ Cardinality(NewerThan(f, files)) \in Nat
      /\ Cardinality(NewerThan(f, files)) <= Cardinality(NewerThan(f, more))
  BY <1>1, <1>2, FS_Subset, FS_CardinalityType
<1> QED
  BY <1>3, RuntimeAssumption

\* A stale file more or less: what was stale still is.
LEMMA StaleWithout ==
  ASSUME NEW files \in SUBSET File, IsFiniteSet(files), NEW f \in File, NEW g \in files,
         Cardinality(NewerThan(f, files)) >= Retain, Cardinality(NewerThan(g, files)) >= Retain
  PROVE  Cardinality(NewerThan(f, files \ {g})) >= Retain
<1>1. IsFiniteSet(files \ {g})
  BY FS_RemoveElement
<1>2. CASE Newer(g, f)
  <2>1. NewerThan(g, files) \subseteq NewerThan(f, files \ {g})
    BY <1>2, NewerOrder DEF NewerThan
  <2>2. NewerThan(g, files) = NewerThan(g, files \ {g})
    BY NewerOrder DEF NewerThan
  <2>3. /\ NewerThan(f, files \ {g}) \in SUBSET (files \ {g})
        /\ NewerThan(g, files) \in SUBSET NewerThan(f, files \ {g})
    BY <2>1 DEF NewerThan
  <2>4. IsFiniteSet(NewerThan(f, files \ {g})) /\ IsFiniteSet(NewerThan(g, files))
    BY <1>1, <2>3, FS_Subset
  <2>5. /\ Cardinality(NewerThan(g, files)) <= Cardinality(NewerThan(f, files \ {g}))
        /\ Cardinality(NewerThan(g, files)) \in Nat /\ Cardinality(NewerThan(f, files \ {g})) \in Nat
    BY <2>3, <2>4, FS_Subset, FS_CardinalityType
  <2> QED
    BY <2>5, RuntimeAssumption
<1>3. CASE ~Newer(g, f)
  <2>1. NewerThan(f, files \ {g}) = NewerThan(f, files)
    BY <1>3 DEF NewerThan
  <2> QED
    BY <2>1
<1> QED
  BY <1>2, <1>3

\* What a step of a save does to the files, and to what is still to be unlinked.
LEMMA PruneParts ==
  ASSUME HistoryInv, NEW s \in saving, ContinueSave(s)
  PROVE  /\ \/ disk' = disk
            \/ disk' = disk \cup {s.file}
            \/ \E f \in s.stale : disk' = disk \ {f}
         /\ \A t \in saving' : \/ t \in saving
                               \/ t.stale \subseteq s.stale
                               \/ disk' = disk /\ t.stale \subseteq Stale
<1>1. s \in Save
  BY DEF HistoryInv, TypeOK
<1>2. PICK a, b, c : s = [step |-> a, file |-> b, stale |-> c]
  BY <1>1, Zenon DEF Save
<1>3. ASSUME WriteFile(s) PROVE disk' = disk /\ \A t \in saving' : t \in saving \/ t.stale = c
  <2>1. PICK content \in Written(s.file.sum) :
          saving' = (saving \ {s}) \cup {[s EXCEPT !.step = "rename", !.file.content = content]}
    BY <1>3 DEF WriteFile, GoOn
  <2>2. [s EXCEPT !.step = "rename", !.file.content = content].stale = c
    BY <1>2
  <2>3. disk' = disk
    BY <1>3 DEF WriteFile
  <2> QED
    BY <2>1, <2>2, <2>3
<1>4. ASSUME RenameFile(s) PROVE disk' = disk \cup {s.file} /\ \A t \in saving' : t \in saving \/ t.stale = c
  <2>1. saving' = (saving \ {s}) \cup {[s EXCEPT !.step = "list"]} /\ disk' = disk \cup {s.file}
    BY <1>4 DEF RenameFile, GoOn
  <2>2. [s EXCEPT !.step = "list"].stale = c
    BY <1>2
  <2> QED
    BY <2>1, <2>2
<1>5. ASSUME SaveFails(s) PROVE disk' = disk /\ saving' \subseteq saving
  BY <1>5 DEF SaveFails, GoOn
<1>6. ASSUME ListFiles(s) PROVE disk' = disk /\ \A t \in saving' : t \in saving \/ t.stale \subseteq Stale
  <2>1. PICK stale \in {Stale, {}} : saving' = (saving \ {s}) \cup Unlinking(s, stale)
    BY <1>6 DEF ListFiles, GoOn
  <2>2. \A t \in Unlinking(s, stale) : t.stale = stale
    BY <1>2 DEF Unlinking
  <2>3. disk' = disk
    BY <1>6 DEF ListFiles
  <2> QED
    BY <2>1, <2>2, <2>3
<1>7. ASSUME UnlinkFile(s)
      PROVE  /\ disk' = disk \/ \E f \in s.stale : disk' = disk \ {f}
             /\ \A t \in saving' : t \in saving \/ t.stale \subseteq c
  <2>1. PICK f \in s.stale : /\ disk' \in {disk \ {f}, disk}
                             /\ saving' = (saving \ {s}) \cup Unlinking(s, s.stale \ {f})
    BY <1>7 DEF UnlinkFile, GoOn
  <2>2. \A t \in Unlinking(s, s.stale \ {f}) : t.stale = c \ {f}
    BY <1>2 DEF Unlinking
  <2> QED
    BY <2>1, <2>2
<1>8. s.stale = c
  BY <1>2
<1> QED
  BY <1>3, <1>4, <1>5, <1>6, <1>7, <1>8 DEF ContinueSave

\* A step keeps what PruneInv says, and the newest files.
LEMMA PruneStep ==
  ASSUME HistoryInv, HistoryInv', PruneInv, [Next]_vars
  PROVE  /\ PruneInv'
         /\ \A f \in disk \ disk' : Cardinality(NewerThan(f, disk')) >= Retain
<1> DEFINE Enough(f, files) == Cardinality(NewerThan(f, files)) >= Retain
           Keeps == /\ IsFiniteSet(disk')
                    /\ \A t \in saving' : \A f \in t.stale : Enough(f, disk')
                    /\ \A f \in disk \ disk' : Enough(f, disk')
<1>1. IsFiniteSet(disk) /\ \A s \in saving : \A f \in s.stale : Enough(f, disk)
  BY DEF PruneInv
<1>2. disk \subseteq File
  BY DEF HistoryInv, TypeOK
<1>3. ASSUME UNCHANGED disk, \A t \in saving' : t \in saving \/ t.stale = {} PROVE Keeps
  BY <1>1, <1>3
<1>4. ASSUME NEW s \in saving, ContinueSave(s) PROVE Keeps
  <2> DEFINE Due(t) == t \in saving \/ t.stale \subseteq s.stale \/ (disk' = disk /\ t.stale \subseteq Stale)
  <2>1. \/ disk' = disk \/ disk' = disk \cup {s.file} \/ \E f \in s.stale : disk' = disk \ {f}
    BY <1>4, PruneParts
  <2>2. \A t \in saving' : Due(t)
    BY <1>4, PruneParts
  <2>3. \A f \in s.stale : Enough(f, disk)
    BY <1>1
  <2>4. \A f \in Stale : Enough(f, disk)
    BY DEF Stale
  <2> HIDE DEF Enough
  <2>5. \A t \in saving' : \A f \in t.stale : Enough(f, disk)
    BY <1>1, <2>2, <2>3, <2>4
  <2>6. CASE disk' = disk
    BY <1>1, <2>5, <2>6
  <2>7. CASE disk' = disk \cup {s.file}
    <3>1. IsFiniteSet(disk')
      BY <1>1, <2>7, FS_AddElement
    <3>2. \A f : Enough(f, disk) => Enough(f, disk')
      BY <2>7, <3>1, NewerGrow DEF Enough
    <3> QED
      BY <2>5, <2>7, <3>1, <3>2
  <2>8. CASE \E f \in s.stale : disk' = disk \ {f}
    <3>1. PICK g \in s.stale : disk' = disk \ {g}
      BY <2>8
    <3>2. CASE g \notin disk
      <4>1. disk' = disk
        BY <3>1, <3>2
      <4> QED
        BY <2>6, <4>1
    <3>3. CASE g \in disk
      <4>1. Enough(g, disk)
        BY <2>3, <3>3
      <4>2. IsFiniteSet(disk')
        BY <1>1, <3>1, FS_RemoveElement
      <4>3. \A f \in File : Enough(f, disk) => Enough(f, disk')
        BY <1>1, <1>2, <3>1, <3>3, <4>1, StaleWithout DEF Enough
      <4>4. \A t \in saving' : \A f \in t.stale : f \in File
        BY DEF HistoryInv, TypeOK, Save
      <4>5. \A f \in disk \ disk' : f = g
        BY <3>1
      <4> QED
        BY <1>2, <2>5, <3>1, <3>3, <4>1, <4>2, <4>3, <4>4, <4>5
    <3> QED
      BY <3>2, <3>3
  <2> QED
    BY <2>1, <2>6, <2>7, <2>8
<1>5. ASSUME UNCHANGED <<saving, disk>> PROVE Keeps
  BY <1>3, <1>5
<1>6. ASSUME BeginSave PROVE Keeps
  <2>1. saving' = saving \cup
          {[step |-> "write", file |-> [at |-> saves + 1, content |-> mem, sum |-> mem], stale |-> {}]}
    BY <1>6 DEF BeginSave
  <2>2. disk' = disk
    BY <1>6 DEF BeginSave
  <2> QED
    BY <1>3, <2>1, <2>2
<1>7. ASSUME NEW c \in Consumers, CrashAndRecover(c) PROVE Keeps
  <2>1. disk' = disk /\ saving' = {}
    BY <1>7 DEF CrashAndRecover
  <2> QED
    BY <1>3, <2>1
<1>8. ASSUME NEW c \in Consumers, Run(c) \/ PublishFails(c) \/ Disturb(c) PROVE Keeps
  <2>1. UNCHANGED <<saving, disk>>
    BY <1>8 DEF Run, Consume, SkipReplayed, RejectGarbled, ProcessMessage, Publish, FinishHandler,
                PublishFails, Disturb, engineVars, snapshotVars
  <2> QED
    BY <1>5, <2>1
<1>9. ASSUME (\E m \in Messages : Add(m) /\ UNCHANGED engineVars) \/ UNCHANGED vars PROVE Keeps
  <2>1. UNCHANGED <<saving, disk>>
    BY <1>9 DEF vars, engineVars, snapshotVars
  <2> QED
    BY <1>5, <2>1
<1>10. Keeps
  <2> HIDE DEF Keeps
  <2> QED
    BY <1>4, <1>6, <1>7, <1>8, <1>9 DEF Next
<1>11. IsFiniteSet(disk)' /\ (\A s \in saving : \A f \in s.stale : Cardinality(NewerThan(f, disk)) >= Retain)'
  BY <1>10 DEF NewerThan, Newer
<1> QED
  BY <1>10, <1>11 DEF PruneInv

\* Whatever saves overlap, whatever fails and whenever the process dies: a file goes
\* only while as many newer ones as are to be kept stay.
THEOREM NewestFilesStay == Safety => KeepsNewest
<1>1. Init => PruneInv
  BY FS_EmptySet DEF Init, PruneInv
<1>2. HistoryInv /\ HistoryInv' /\ PruneInv /\ [Next]_vars
        => PruneInv' /\ [\A f \in disk \ disk' : Cardinality(NewerThan(f, disk')) >= Retain]_vars
  BY PruneStep
<1>3. Safety => []HistoryInv
  BY ProcessSafe, PTL
<1> QED
  BY <1>1, <1>2, <1>3, PTL DEF Safety, KeepsNewest

-----------------------------------------------------------------------------
(* The state after a prefix of the log                                     *)

\* Effective and Reflects for a given log.
EffectiveIn(n, log) ==
  {i \in 1..n : /\ log[i] # Garbled
                /\ log[i] # Tick => \A j \in 1..i-1 : log[j] # log[i]}

ReflectsIn(s, n, log) ==
  /\ s.applied = Ascending(EffectiveIn(n, log))
  /\ s.seq = Drafts * Len(s.applied)

\* The entries with an effect, as a list.
LEMMA EffectiveList ==
  ASSUME NEW n \in Nat
  PROVE  /\ Effective(n) \in SUBSET Nat /\ Effective(n) \subseteq 1..n /\ IsFiniteSet(Effective(n))
         /\ Ascending(Effective(n)) \in Seq(Effective(n))
         /\ Len(Ascending(Effective(n))) \in Nat
         /\ ToSet(Ascending(Effective(n))) = Effective(n)
         /\ \A i \in Effective(n) : \E k \in 1..Len(Ascending(Effective(n))) : Ascending(Effective(n))[k] = i
         /\ \A k, l \in 1..Len(Ascending(Effective(n))) :
              k < l => Ascending(Effective(n))[k] < Ascending(Effective(n))[l]
<1> DEFINE ids == Effective(n)
           list == Ascending(ids)
<1>1. ids \subseteq 1..n
  BY DEF Effective
<1>2. IsFiniteSet(1..n) /\ 1..n \in SUBSET Nat
  BY FS_Interval
<1>3. ids \in SUBSET Nat /\ IsFiniteSet(ids)
  BY <1>1, <1>2, FS_Subset
<1> HIDE DEF ids
<1>4. /\ list \in Seq(ids)
      /\ \A i \in ids : \E k \in 1..Len(list) : list[k] = i
      /\ \A k, l \in 1..Len(list) : k < l => list[k] < list[l]
  BY <1>3, AscendingLists
<1> HIDE DEF list
<1>5. Len(list) \in Nat /\ DOMAIN list = 1..Len(list) /\ \A k \in 1..Len(list) : list[k] \in ids
  BY <1>4, LenProperties, ElementOfSeq
<1>6. ToSet(list) = ids
  BY <1>4, <1>5 DEF ToSet
<1> QED
  BY <1>1, <1>3, <1>4, <1>5, <1>6 DEF ids, list

\* The first of several equal commands has an effect.
LEMMA FirstOfThem ==
  ASSUME StreamOK, NEW n \in 0..Len(stream), NEW i \in 1..n, stream[i] # Garbled, stream[i] # Tick
  PROVE  \E j \in Effective(n) : j <= i /\ stream[j] = stream[i]
<1> DEFINE same == {j \in 1..i : stream[j] = stream[i]}
<1>1. n \in Nat /\ i \in Nat /\ i <= n
  BY DEF StreamOK
<1>2. same \in SUBSET Nat /\ same # {}
  BY <1>1
<1>3. Min(same) \in same /\ \A y \in same : Min(same) <= y
  <2> HIDE DEF same
  <2> QED
    BY <1>2, MinOfNaturals
<1> DEFINE first == Min(same)
<1>4. first \in 1..i /\ stream[first] = stream[i]
  BY <1>3
<1>5. \A y \in 1..i : stream[y] = stream[i] => first <= y
  BY <1>3
<1> HIDE DEF first, same
<1>6. \A j \in 1..first - 1 : stream[j] # stream[first]
  <2> TAKE j \in 1..first - 1
  <2>1. j \in 1..i /\ ~(first <= j)
    BY <1>1, <1>4
  <2> QED
    BY <1>4, <1>5, <2>1
<1>7. first \in Effective(n)
  <2>1. first \in 1..n
    BY <1>1, <1>4
  <2> QED
    BY <1>4, <1>6, <2>1 DEF Effective
<1> QED
  BY <1>1, <1>4, <1>7

\* The commands of the state after n entries are different ones: all are remembered.
LEMMA AllRemembered ==
  ASSUME NoneForgotten, StreamOK, NEW n \in 0..Len(stream), NEW s, Reflects(s, n)
  PROVE  Remembered(s) = ToSet(s.applied)
<1> DEFINE ids == Effective(n)
           list == s.applied
           later(k) == {l \in DOMAIN list : l >= k /\ stream[list[l]] # Tick}
<1>1. n \in Nat /\ Len(stream) \in Nat /\ stream \in Seq(Messages)
  BY DEF StreamOK
<1>2. /\ list \in Seq(ids) /\ Len(list) \in Nat
      /\ \A k, l \in 1..Len(list) : k < l => list[k] < list[l]
  BY <1>1, EffectiveList DEF Reflects
<1> HIDE DEF list
<1>3. DOMAIN list = 1..Len(list) /\ \A k \in 1..Len(list) : list[k] \in ids
  BY <1>2, LenProperties, ElementOfSeq
<1>4. \A i \in ids : i \in 1..n /\ stream[i] \in Messages /\ stream[i] # Garbled
  <2>1. \A i \in 1..n : i \in 1..Len(stream)
    BY <1>1
  <2>2. \A i \in 1..Len(stream) : stream[i] \in Messages
    BY <1>1, ElementOfSeq
  <2> QED
    BY <2>1, <2>2 DEF Effective
<1>5. \A i \in ids : stream[i] # Tick => \A j \in 1..i - 1 : stream[j] # stream[i]
  BY DEF Effective
<1> HIDE DEF ids
<1>6. ASSUME NEW k \in DOMAIN list PROVE Cardinality(later(k)) <= MaxApplied
  <2> DEFINE S == later(k)
             f == [l \in S |-> stream[list[l]]]
  <2>1. \A l \in S : l \in 1..Len(list) /\ stream[list[l]] # Tick /\ list[l] \in ids
    BY <1>3
  <2>2. \A l \in S : stream[list[l]] \in Commands
    BY <1>4, <2>1 DEF Commands
  <2>3. ASSUME NEW a \in S, NEW b \in S, a < b PROVE stream[list[a]] # stream[list[b]]
    <3>1. list[a] \in 1..n /\ list[b] \in 1..n /\ list[a] < list[b]
      BY <1>2, <1>4, <2>1, <2>3
    <3>2. list[a] \in 1..list[b] - 1
      BY <1>1, <3>1
    <3> QED
      BY <1>5, <2>1, <3>2
  <2>4. ASSUME NEW a \in S, NEW b \in S, stream[list[a]] = stream[list[b]] PROVE a = b
    <3>1. a \in Nat /\ b \in Nat
      BY <1>2, <2>1
    <3> HIDE DEF S
    <3> QED
      BY <2>3, <2>4, <3>1
  <2> HIDE DEF S
  <2>5. f \in [S -> Commands]
    BY <2>2
  <2>6. \A a, b \in S : f[a] = f[b] => a = b
    BY <2>4
  <2>7. f \in Injection(S, Commands)
    <3> HIDE DEF f
    <3> QED
      BY <2>5, <2>6 DEF Injection, IsInjective
  <2>8. /\ IsFiniteSet(S) /\ Cardinality(S) <= Cardinality(Commands)
        /\ IsFiniteSet(Commands) /\ Cardinality(Commands) <= MaxApplied
    BY <2>7, FS_Injection DEF NoneForgotten
  <2>9. Cardinality(S) \in Nat /\ Cardinality(Commands) \in Nat /\ MaxApplied \in Nat
    BY <2>8, FS_CardinalityType, RuntimeAssumption
  <2>10. Cardinality(S) <= MaxApplied
    BY <2>8, <2>9
  <2> QED
    BY <2>10 DEF S
<1>7. Remembered(s) = {list[k] : k \in {k \in DOMAIN list : Cardinality(later(k)) <= MaxApplied}}
  BY DEF Remembered, list
<1> HIDE DEF later
<1>8. {k \in DOMAIN list : Cardinality(later(k)) <= MaxApplied} = DOMAIN list
  BY <1>6
<1>9. ToSet(list) = {list[k] : k \in DOMAIN list}
  BY DEF ToSet
<1>10. Remembered(s) = ToSet(list)
  BY <1>7, <1>8, <1>9
<1> QED
  BY <1>10 DEF list

\* An input is new to the state after n entries when it is the next one and has
\* an effect, and not when it is one of them.
LEMMA FreshInput ==
  ASSUME NoneForgotten, StreamOK, NEW n \in 0..Len(stream), NEW s, Reflects(s, n),
         NEW id \in 1..Len(stream), stream[id] # Garbled, id <= n + 1
  PROVE  Fresh(s, id) <=> id = n + 1 /\ id \in Effective(n + 1)
<1>1. n \in Nat /\ id \in Nat /\ Len(stream) \in Nat
  BY DEF StreamOK
<1>2. ToSet(s.applied) = Effective(n) /\ Effective(n) \subseteq 1..n
  BY <1>1, EffectiveList DEF Reflects
<1>0. Remembered(s) = Effective(n)
  BY <1>2, AllRemembered
<1>3. CASE stream[id] = Tick
  <2>1. CASE id = n + 1
    <3>1. id \in Effective(n + 1)
      BY <1>1, <1>3, <2>1 DEF Effective
    <3>2. \A i \in Effective(n) : i < id
      BY <1>1, <1>2, <2>1
    <3> QED
      BY <1>2, <1>3, <2>1, <3>1, <3>2 DEF Fresh
  <2>2. CASE id # n + 1
    <3>1. id \in Effective(n) /\ ~(id < id)
      BY <1>1, <1>3, <2>2 DEF Effective
    <3> QED
      BY <1>2, <1>3, <2>2, <3>1 DEF Fresh
  <2> QED
    BY <2>1, <2>2
<1>4. CASE stream[id] # Tick
  <2>1. Fresh(s, id) <=> \A i \in Effective(n) : stream[i] # stream[id]
    BY <1>0, <1>4 DEF Fresh
  <2>2. CASE id <= n
    <3>1. id \in 1..n
      BY <1>1, <2>2
    <3>2. \E j \in Effective(n) : stream[j] = stream[id]
      BY <1>4, <3>1, FirstOfThem
    <3> QED
      BY <1>1, <2>1, <2>2, <3>2
  <2>3. CASE id = n + 1
    <3>1. id \in Effective(n + 1) <=> \A j \in 1..n : stream[j] # stream[id]
      <4>1. id - 1 = n /\ id \in 1..n + 1
        BY <1>1, <2>3
      <4> QED
        BY <1>4, <4>1 DEF Effective
    <3>2. ASSUME \A i \in Effective(n) : stream[i] # stream[id], NEW j \in 1..n, stream[j] = stream[id]
          PROVE  FALSE
      <4>1. \E i \in Effective(n) : stream[i] = stream[j]
        BY <1>4, <3>2, FirstOfThem
      <4> QED
        BY <3>2, <4>1
    <3> QED
      BY <1>2, <2>1, <2>3, <3>1, <3>2
  <2> QED
    BY <1>1, <2>2, <2>3
<1> QED
  BY <1>3, <1>4

\* One more entry that has an effect is appended; one that has none changes nothing.
LEMMA OneMore ==
  ASSUME NEW n \in Nat
  PROVE  /\ n + 1 \in Effective(n + 1) =>
              Ascending(Effective(n + 1)) = Append(Ascending(Effective(n)), n + 1)
         /\ n + 1 \notin Effective(n + 1) => Effective(n + 1) = Effective(n)
<1> DEFINE list == Ascending(Effective(n))
           longer == Append(list, n + 1)
<1>1. \A i \in 1..n : i \in Effective(n + 1) <=> i \in Effective(n)
  BY DEF Effective
<1>2. Effective(n) \subseteq 1..n /\ Effective(n + 1) \subseteq 1..n + 1
  BY DEF Effective
<1>3. \A i \in Effective(n + 1) : i \in 1..n \/ i = n + 1
  <2>1. \A i \in 1..n + 1 : i \in 1..n \/ i = n + 1
    OBVIOUS
  <2> QED
    BY <1>2, <2>1
<1>4. ASSUME n + 1 \in Effective(n + 1) PROVE Ascending(Effective(n + 1)) = longer
  <2>1. /\ list \in Seq(Effective(n)) /\ Len(list) \in Nat
        /\ \A i \in Effective(n) : \E k \in 1..Len(list) : list[k] = i
        /\ \A k, l \in 1..Len(list) : k < l => list[k] < list[l]
    BY EffectiveList
  <2>2. Effective(n + 1) \in SUBSET Nat /\ IsFiniteSet(Effective(n + 1)) /\ n + 1 \in Nat
    BY EffectiveList
  <2> HIDE DEF list
  <2>3. Effective(n) \subseteq Effective(n + 1)
    BY <1>1, <1>2
  <2>4. list \in Seq(Effective(n + 1)) /\ \A k \in 1..Len(list) : list[k] \in Effective(n)
    BY <2>1, <2>3, SeqMonotonic, ElementOfSeq
  <2>5. /\ longer \in Seq(Effective(n + 1)) /\ Len(longer) = Len(list) + 1
        /\ \A k \in 1..Len(list) : longer[k] = list[k]
        /\ longer[Len(list) + 1] = n + 1
    BY <1>4, <2>4, AppendProperties
  <2> HIDE DEF longer
  <2>6. \A i \in Effective(n + 1) : \E k \in 1..Len(longer) : longer[k] = i
    <3> TAKE i \in Effective(n + 1)
    <3>1. CASE i = n + 1
      <4>1. Len(list) + 1 \in 1..Len(longer)
        BY <2>1, <2>5
      <4> QED
        BY <2>5, <3>1, <4>1
    <3>2. CASE i \in 1..n
      <4>1. PICK k \in 1..Len(list) : list[k] = i
        BY <1>1, <2>1, <3>2
      <4>2. k \in 1..Len(longer) /\ longer[k] = i
        BY <2>1, <2>5, <4>1
      <4> QED
        BY <4>2
    <3> QED
      BY <1>3, <3>1, <3>2
  <2>7. ASSUME NEW k \in 1..Len(longer), NEW l \in 1..Len(longer), k < l
        PROVE  longer[k] < longer[l]
    <3>1. k \in 1..Len(list) /\ longer[k] = list[k] /\ list[k] \in 1..n
      <4>1. k \in 1..Len(list)
        BY <2>1, <2>5, <2>7
      <4>2. list[k] \in Effective(n)
        BY <2>4, <4>1
      <4> QED
        BY <1>2, <2>5, <4>1, <4>2
    <3>2. CASE l = Len(list) + 1
      BY <2>5, <3>1, <3>2
    <3>3. CASE l \in 1..Len(list)
      BY <2>1, <2>5, <2>7, <3>1, <3>3
    <3>4. l = Len(list) + 1 \/ l \in 1..Len(list)
      BY <2>1, <2>5
    <3> QED
      BY <3>2, <3>3, <3>4
  <2> QED
    BY <2>2, <2>5, <2>6, <2>7, AscendingUnique
<1>5. ASSUME n + 1 \notin Effective(n + 1) PROVE Effective(n + 1) = Effective(n)
  <2>1. \A i \in Effective(n + 1) : i \in Effective(n)
    BY <1>1, <1>3, <1>5
  <2>2. \A i \in Effective(n) : i \in Effective(n + 1)
    BY <1>1, <1>2
  <2> QED
    BY <2>1, <2>2
<1> QED
  BY <1>4, <1>5

\* Replaying an entry: the next one brings the state one entry further, an earlier
\* one leaves it where it is.
LEMMA EntryReflects ==
  ASSUME NoneForgotten, StreamOK, NEW n \in 0..Len(stream), NEW s, Known(s), Reflects(s, n),
         NEW id \in 1..Len(stream), id <= n + 1
  PROVE  /\ id = n + 1 => Reflects(ReplayEntry(s, id), n + 1)
         /\ id <= n => Reflects(ReplayEntry(s, id), n)
<1>1. n \in Nat /\ id \in Nat
  BY DEF StreamOK
<1>2. s \in State /\ s.seq \in Nat /\ s.last \in Nat /\ s.count \in Nat /\ Drafts \in Nat
  BY KnownState, RuntimeAssumption
<1>3. ASSUME NEW t, t.applied = s.applied, t.seq = s.seq,
             id \notin Effective(n + 1) \/ id <= n
      PROVE  /\ id = n + 1 => Reflects(t, n + 1)
             /\ id <= n => Reflects(t, n)
  <2>1. Reflects(t, n)
    BY <1>3 DEF Reflects
  <2>2. id = n + 1 => Effective(n + 1) = Effective(n)
    BY <1>1, <1>3, OneMore
  <2> QED
    BY <2>1, <2>2 DEF Reflects
<1>4. CASE stream[id] = Garbled
  <2> DEFINE t == [s EXCEPT !.last = id]
  <2>1. ReplayEntry(s, id) = t
    BY <1>4 DEF ReplayEntry
  <2>2. t.applied = s.applied /\ t.seq = s.seq
    BY <1>2 DEF State
  <2>3. id \notin Effective(n + 1)
    BY <1>4 DEF Effective
  <2> HIDE DEF t
  <2> QED
    BY <1>3, <2>1, <2>2, <2>3
<1>5. CASE stream[id] # Garbled /\ ~Fresh(s, id)
  <2> DEFINE counted == IF stream[id] = Tick THEN 1 ELSE 0
             moved == [s EXCEPT !.last = id]
             t == [moved EXCEPT !.count = s.count + counted]
  <2>1. ReplayEntry(s, id) = [s EXCEPT !.last = id, !.count = @ + counted]
    BY <1>5 DEF ReplayEntry, Process
  <2>2. [s EXCEPT !.last = id, !.count = @ + counted] = t
    OBVIOUS
  <2>3. moved.applied = s.applied /\ moved.seq = s.seq
    BY <1>2 DEF State
  <2>4. t.applied = s.applied /\ t.seq = s.seq
    <3>1. PICK w, x, y, z : s = [applied |-> w, last |-> x, seq |-> y, count |-> z]
      BY <1>2, Zenon DEF State
    <3>2. moved = [applied |-> w, last |-> id, seq |-> y, count |-> z]
      BY <3>1
    <3> HIDE DEF moved
    <3> QED
      BY <3>1, <3>2
  <2>5. id \notin Effective(n + 1) \/ id <= n
    BY <1>1, <1>5, FreshInput
  <2> HIDE DEF t
  <2> QED
    BY <1>3, <2>1, <2>2, <2>4, <2>5
<1>6. CASE stream[id] # Garbled /\ Fresh(s, id)
  <2> DEFINE t == [applied |-> Append(s.applied, id), last |-> id, seq |-> s.seq + Drafts,
                   count |-> s.count + 1]
  <2>1. ReplayEntry(s, id) = t
    BY <1>6 DEF ReplayEntry, Process
  <2>2. id = n + 1 /\ id \in Effective(n + 1)
    BY <1>6, FreshInput
  <2>3. Ascending(Effective(n + 1)) = Append(s.applied, id)
    BY <1>1, <2>2, OneMore DEF Reflects
  <2>4. Len(s.applied) \in Nat /\ Len(Append(s.applied, id)) = Len(s.applied) + 1
    BY KnownState, AppendProperties
  <2>5. \A l \in Nat : Drafts * l + Drafts = Drafts * (l + 1)
    BY <1>2
  <2>6. s.seq + Drafts = Drafts * Len(Append(s.applied, id))
    BY <2>4, <2>5 DEF Reflects
  <2>7. Reflects(t, n + 1)
    BY <2>3, <2>6 DEF Reflects
  <2> HIDE DEF t
  <2> QED
    BY <1>1, <2>1, <2>2, <2>7
<1> QED
  BY <1>4, <1>5, <1>6

\* Replaying brings a state to the entry replayed last, or leaves it further on.
LEMMA ReplayReflects ==
  ASSUME NoneForgotten, StreamOK, NEW n \in 0..Len(stream), NEW s, Known(s), Reflects(s, n), s.last <= n,
         NEW m \in n..Len(stream)
  PROVE  Reflects(ReplayUpTo(s, m), m)
<1> DEFINE level(id) == IF id <= n THEN n ELSE id
           Q == [id \in 0..m |-> {t \in State : Known(t) /\ Reflects(t, level(id))}]
<1>1. /\ n \in Nat /\ m \in Nat /\ n <= m /\ m <= Len(stream) /\ Len(stream) \in Nat
      /\ s.last \in Nat /\ s.last <= m /\ s \in State
  BY KnownState DEF StreamOK
<1>2. s \in Q[s.last]
  BY <1>1
<1>3. ASSUME NEW id \in s.last + 1 .. m, NEW t \in Q[id - 1]
      PROVE  ReplayEntry(t, id) \in Q[id]
  <2>1. /\ id \in 1..m /\ id \in 0..m /\ id - 1 \in 0..m /\ id \in 1..Len(stream)
        /\ level(id - 1) \in 0..Len(stream) /\ id <= level(id - 1) + 1
    BY <1>1
  <2>2. Known(t) /\ Reflects(t, level(id - 1))
    BY <2>1
  <2>3. Known(ReplayEntry(t, id))
    BY <2>1, <2>2, EntryKnown
  <2>4. Reflects(ReplayEntry(t, id), level(id))
    <3>1. /\ id = level(id - 1) + 1 => Reflects(ReplayEntry(t, id), level(id - 1) + 1)
          /\ id <= level(id - 1) => Reflects(ReplayEntry(t, id), level(id - 1))
      BY <2>1, <2>2, EntryReflects
    <3>2. \/ id = level(id - 1) + 1 /\ level(id) = level(id - 1) + 1
          \/ id <= level(id - 1) /\ level(id) = level(id - 1)
      BY <1>1, <2>1
    <3> QED
      BY <3>1, <3>2
  <2>5. ReplayEntry(t, id) \in State
    BY <2>3 DEF Known
  <2> QED
    BY <2>1, <2>3, <2>4, <2>5
<1> HIDE DEF Q
<1>4. ReplayUpTo(s, m) \in Q[m]
  BY <1>1, <1>2, <1>3, ReplayCarries
<1>5. level(m) = m
  BY <1>1
<1> QED
  BY <1>1, <1>4, <1>5 DEF Q

\* The state that the first n entries of the log lead to, without replaying them.
LEMMA AfterReflects ==
  ASSUME NoneForgotten, StreamOK, NEW n \in 0..Len(stream)
  PROVE  /\ Reflects(Genesis, 0) /\ Reflects(ReplayUpTo(Genesis, n), n)
         /\ \A s : Reflects(s, n) => Domain(s) = After(n)
<1>1. Known(Genesis) /\ Genesis.applied = <<>> /\ Genesis.last = 0 /\ Genesis.seq = 0
  BY GenesisKnown
<1>2. 0 \in 0..Len(stream) /\ n \in 0..Len(stream) /\ 0 <= 0
  BY DEF StreamOK
<1>3. Reflects(Genesis, 0)
  <2>1. Effective(0) = {}
    BY DEF Effective
  <2>2. Ascending(Effective(0)) \in Seq({})
    BY <2>1, EffectiveList
  <2>3. Ascending(Effective(0)) = <<>>
    BY <2>2, LenProperties, ElementOfSeq, EmptySeq
  <2>4. Len(<< >>) = 0 /\ Drafts * 0 = 0
    BY EmptySeq, RuntimeAssumption
  <2> QED
    BY <1>1, <2>3, <2>4 DEF Reflects
<1>4. Reflects(ReplayUpTo(Genesis, n), n)
  BY <1>1, <1>2, <1>3, ReplayReflects
<1>5. ASSUME NEW s, Reflects(s, n) PROVE Domain(s) = After(n)
  BY <1>4, <1>5 DEF Reflects, After, Domain
<1> QED
  BY <1>3, <1>4, <1>5

-----------------------------------------------------------------------------
(* One process, and no lost replies                                        *)

\* What a step needs to keep LevelInv when the log stays as it is.
LEMMA LevelMoves ==
  ASSUME OneProcess, LevelInv, stream' = stream,
         NEW n \in 0..Len(stream), ReflectsIn(mem', n, stream), mem'.last <= n,
         replayedThrough' <= n,
         \A c \in Consumers : Done(c)' <= n /\ Consecutive(c)',
         Visited' \subseteq Visited \cup {mem'},
         processed' => \E c \in Consumers : InHandler(c)'
  PROVE  LevelInv'
<1>1. (\E l \in 0..Len(stream) :
         /\ Reflects(mem, l) /\ mem.last <= l
         /\ replayedThrough <= l /\ \A c \in Consumers : Done(c) <= l)'
  <2>1. Reflects(mem, n)'
    BY DEF ReflectsIn, EffectiveIn, Reflects, Effective
  <2>2. n \in 0..Len(stream')
    OBVIOUS
  <2> QED
    BY <2>1, <2>2
<1>2. ASSUME NEW s \in Visited' PROVE \E l \in 0..Len(stream') : ReflectsIn(s, l, stream') /\ s.last <= l
  <2>1. CASE s \in Visited
    <3>1. \E l \in 0..Len(stream) : Reflects(s, l) /\ s.last <= l
      BY <2>1 DEF LevelInv
    <3>2. \E l \in 0..Len(stream) : ReflectsIn(s, l, stream) /\ s.last <= l
      BY <3>1 DEF ReflectsIn, EffectiveIn, Reflects, Effective
    <3> QED
      BY <3>2
  <2>2. CASE s = mem'
    BY <2>2
  <2> QED
    BY <2>1, <2>2
<1>3. (\A s \in Visited : \E l \in 0..Len(stream) : Reflects(s, l) /\ s.last <= l)'
  BY <1>2 DEF ReflectsIn, EffectiveIn, Reflects, Effective
<1> QED
  BY <1>1, <1>3 DEF LevelInv

\* Where the state is, and what the one consumer holds.
LEMMA LevelFacts ==
  ASSUME OneProcess, ConsumerInv, HistoryInv, LevelInv, NEW c \in Consumers
  PROVE  /\ \A d \in Consumers : d = c
         /\ "reply" \notin Faults
         /\ \E n \in 0..Len(stream) :
              /\ Reflects(mem, n) /\ ReflectsIn(mem, n, stream) /\ mem.last <= n
              /\ replayedThrough <= n /\ Done(c) <= n
         /\ Consecutive(c)
         /\ processed => InHandler(c)
         /\ At(c, "new") => ~Exhausted(c)
<1>1. (\A d \in Consumers : d = c) /\ "reply" \notin Faults
  BY DEF OneProcess
<1>2. PICK n \in 0..Len(stream) :
        /\ Reflects(mem, n) /\ mem.last <= n
        /\ replayedThrough <= n /\ \A d \in Consumers : Done(d) <= n
  BY DEF LevelInv
<1>3. ReflectsIn(mem, n, stream)
  BY <1>2 DEF ReflectsIn, EffectiveIn, Reflects, Effective
<1>4. Consecutive(c) /\ (processed => InHandler(c))
  BY <1>1 DEF LevelInv
<1>5. ASSUME At(c, "new") PROVE ~Exhausted(c)
  <2>1. loop[c].batch # <<>> /\ loop[c].batch \in Seq(Delivery)
    BY <1>5, Facts DEF At
  <2>2. Head(loop[c].batch) \in ToSet(loop[c].batch)
    BY <2>1, Elements
  <2>3. Head(loop[c].batch).deliveries = 1
    BY <1>5, <2>2 DEF ConsumerInv, Held
  <2> QED
    BY <2>3, GroupAssumption DEF Exhausted, Current
<1> QED
  BY <1>1, <1>2, <1>3, <1>4, <1>5

\* On to the next message: with the one in hand the new ones up to it are done.
LEMMA NextDone ==
  ASSUME ConsumerInv, NEW c \in Consumers, Consecutive(c), loop[c].step \in {"reclaimed", "new"},
         NextMessage(c), group'.last = group.last, processed' = FALSE
  PROVE  /\ Consecutive(c)'
         /\ Done(c)' = IF At(c, "new") THEN Current(c).id ELSE group.last
<1> DEFINE batch == loop[c].batch
           rest == Tail(batch)
           next == IF rest # <<>> THEN loop[c].step ELSE IF At(c, "new") THEN "claim" ELSE "read"
<1>1. batch # <<>> /\ batch \in Seq(Delivery) /\ group.last \in Nat /\ DOMAIN loop = Consumers
  BY Facts DEF ConsumerInv, ConsumerTypeOK
<1>2. /\ Len(batch) \in Nat /\ DOMAIN batch = 1..Len(batch) /\ 1 \in 1..Len(batch)
      /\ rest \in Seq(Delivery) /\ Len(rest) = Len(batch) - 1
      /\ \A k \in 1..Len(rest) : rest[k] = batch[k + 1]
      /\ Head(batch) = batch[1]
  BY <1>1, LenProperties, HeadTailProperties, Elements
<1>3. /\ Len(rest) \in Nat /\ DOMAIN rest = 1..Len(rest) /\ (rest = <<>> <=> Len(rest) = 0)
      /\ (rest # <<>> => Head(rest) = rest[1] /\ 1 \in 1..Len(rest))
  <2>1. rest \in Seq(Delivery)
    BY <1>2
  <2> HIDE DEF rest
  <2>2. Len(rest) \in Nat /\ DOMAIN rest = 1..Len(rest)
    BY <2>1, LenProperties
  <2>3. rest = <<>> <=> Len(rest) = 0
    BY <2>1, EmptySeq
  <2>4. rest # <<>> => Head(rest) = rest[1]
    BY <2>1, Elements
  <2> QED
    BY <2>2, <2>3, <2>4
<1>4. loop'[c] = [step |-> next, batch |-> rest, resolved |-> FALSE]
  BY <1>1 DEF NextMessage, GoTo
<1>5. loop'[c].step = next /\ loop'[c].batch = rest /\ loop'[c].resolved = FALSE
  BY <1>4
<1> HIDE DEF batch, rest
<1>6. CASE At(c, "new")
  <2>1. \A k \in 1..Len(batch) : batch[k].id = group.last - Len(batch) + k
    BY <1>2, <1>6 DEF Consecutive, batch
  <2>2. Current(c).id = group.last - Len(batch) + 1
    BY <1>2, <2>1 DEF Current, batch
  <2>3. \A k \in 1..Len(rest) : rest[k].id = group.last - Len(rest) + k
    <3>1. ASSUME NEW k \in 1..Len(rest) PROVE rest[k].id = group.last - Len(rest) + k
      <4>1. k + 1 \in 1..Len(batch) /\ rest[k] = batch[k + 1]
        BY <1>2, <1>3
      <4>2. batch[k + 1].id = group.last - Len(batch) + (k + 1)
        BY <2>1, <4>1
      <4> QED
        BY <1>1, <1>2, <4>1, <4>2
    <3> QED
      BY <3>1
  <2>4. Consecutive(c)'
    BY <1>3, <1>5, <2>3 DEF Consecutive
  <2>5. CASE rest = <<>>
    <3>1. next = "claim" /\ Len(batch) = 1
      <4>1. Len(rest) = 0
        BY <1>3, <2>5
      <4>2. Len(batch) = 1
        <5>1. \A l \in Nat : l - 1 = 0 => l = 1
          OBVIOUS
        <5>2. Len(batch) \in Nat /\ Len(batch) - 1 = 0
          BY <1>2, <4>1, Zenon
        <5> QED
          BY <5>1, <5>2, Zenon
      <4>3. next = "claim"
        BY <1>6, <2>5
      <4> QED
        BY <4>2, <4>3
    <3>2. Done(c)' = group.last
      BY <1>5, <3>1 DEF Done, At
    <3> QED
      BY <1>1, <1>6, <2>2, <2>4, <3>1, <3>2
  <2>6. CASE rest # <<>>
    <3>1. next = "new"
      BY <1>6, <2>6 DEF At
    <3>2. Done(c)' = Head(rest).id - 1
      BY <1>5, <3>1 DEF Done, At, Current
    <3>3. Head(rest).id = group.last - Len(rest) + 1
      BY <1>3, <2>3, <2>6
    <3> QED
      BY <1>1, <1>2, <1>6, <2>2, <2>4, <3>2, <3>3
  <2> QED
    BY <2>5, <2>6
<1>7. CASE ~At(c, "new")
  <2>1. next # "new"
    BY <1>7 DEF At
  <2> QED
    BY <1>5, <1>7, <2>1 DEF Consecutive, Done, At
<1> QED
  BY <1>6, <1>7

\* Out of the loop's batch, or not yet in one.
LEMMA OutsideDone ==
  ASSUME NEW c \in Consumers, loop' \in [Consumers -> Loop], loop'[c].step # "new"
  PROVE  Consecutive(c)' /\ Done(c)' = group'.last
BY DEF Consecutive, Done, At

\* A step of the loop that leaves the process as it is.
LEMMA IdleLevel ==
  ASSUME OneProcess, ConsumerInv, HistoryInv, LevelInv, NEW c \in Consumers, stream' = stream,
         UNCHANGED engineVars, Consecutive(c)', Done(c)' = Done(c), processed = FALSE
  PROVE  LevelInv'
<1>1. PICK n \in 0..Len(stream) :
        /\ ReflectsIn(mem, n, stream) /\ mem.last <= n /\ replayedThrough <= n /\ Done(c) <= n
  BY LevelFacts
<1>2. UNCHANGED <<mem, replayedThrough, processed, outbox, output, saving, disk>>
  BY DEF engineVars, snapshotVars
<1>3. Visited' = Visited
  BY <1>2 DEF Visited
<1>4. \A d \in Consumers : Done(d)' <= n /\ Consecutive(d)'
  <2>1. Done(c)' <= n
    BY <1>1
  <2>2. \A d \in Consumers : d = c
    BY LevelFacts
  <2> QED
    BY <2>1, <2>2
<1>5. processed' = FALSE
  BY <1>2
<1> QED
  BY <1>1, <1>2, <1>3, <1>4, <1>5, LevelMoves

\* Done is a number.
LEMMA DoneNumber ==
  ASSUME ConsumerInv, NEW c \in Consumers
  PROVE  /\ Done(c) \in Int /\ Done(c) <= group.last
         /\ (At(c, "new") => Current(c).id \in Nat /\ Done(c) <= Current(c).id /\ Current(c).id <= Done(c) + 1)
         /\ (~At(c, "new") => Done(c) = group.last)
<1>1. group.last \in Nat
  BY Facts
<1>2. CASE At(c, "new")
  <2>1. loop[c].batch # <<>>
    BY <1>2, Facts DEF At
  <2>2. Current(c).id \in 1..group.last
    BY <2>1, InHand
  <2>3. Current(c).id \in Nat /\ Current(c).id <= group.last
    BY <1>1, <2>2
  <2>4. Done(c) = Current(c).id \/ Done(c) = Current(c).id - 1
    BY <1>2 DEF Done
  <2> QED
    BY <1>1, <1>2, <2>3, <2>4
<1>3. CASE ~At(c, "new")
  BY <1>1, <1>3 DEF Done
<1> QED
  BY <1>2, <1>3

\* The steps of the loop outside the handler.
LEMMA ConsumeLevel ==
  ASSUME OneProcess, ConsumerInv, HistoryInv, LevelInv, NEW c \in Consumers, Consume(c)
  PROVE  LevelInv'
<1>0. ConsumerInv'
  <2>1. [ConsumerNext]_consumerVars
    BY DEF Consume, ConsumerNext, LoopStep
  <2> QED
    BY <2>1, ConsumerStep
<1>1. /\ loop' \in [Consumers -> Loop] /\ loop \in [Consumers -> Loop]
      /\ GroupOK(group) /\ group.last \in Nat /\ Len(stream) \in Nat /\ group.last <= Len(stream)
      /\ Done(c) \in Int
      /\ (~At(c, "new") => Done(c) = group.last)
      /\ UNCHANGED engineVars
  BY <1>0, Facts, DoneNumber DEF ConsumerInv, ConsumerTypeOK, Consume
<1>2. Consecutive(c) /\ (processed => InHandler(c)) /\ (At(c, "new") => ~Exhausted(c))
  BY LevelFacts
<1>3. \A step \in {"claim", "count", "read"} : At(c, step) => processed = FALSE
  BY <1>2, HistoryFacts DEF At, InHandler, Dispatching
<1>4. ASSUME NEW idle \in 0..Len(group.pending), Claim(c, idle) PROVE LevelInv'
  <2>1. /\ stream' = stream /\ group' = Reclaim(group, ClaimIds(group, idle)) /\ At(c, "claim")
        /\ loop'[c].step \in {"read", "count"}
    BY <1>1, <1>4 DEF Claim, GoTo
  <2>2. group'.last = group.last
    BY <1>1, <2>1, Claimable, Claimed
  <2>3. Consecutive(c)' /\ Done(c)' = group.last
    BY <1>1, <2>1, <2>2, OutsideDone
  <2>4. Done(c) = group.last /\ processed = FALSE
    BY <1>1, <1>3, <2>1 DEF At
  <2> QED
    BY <1>1, <2>1, <2>3, <2>4, IdleLevel
<1>5. ASSUME CountDeliveries(c) PROVE LevelInv'
  <2>1. stream' = stream /\ group' = group /\ At(c, "count") /\ loop'[c].step = "reclaimed"
    BY <1>1, <1>5 DEF CountDeliveries, GoTo
  <2>2. Consecutive(c)' /\ Done(c)' = group.last
    BY <1>1, <2>1, OutsideDone
  <2>3. Done(c) = group.last /\ processed = FALSE
    BY <1>1, <1>3, <2>1 DEF At
  <2> QED
    BY <1>1, <2>1, <2>2, <2>3, IdleLevel
<1>6. ASSUME ReadNew(c) PROVE LevelInv'
  <2> DEFINE entries == NewEntries(group, Len(stream))
             next == IF entries = <<>> THEN "claim" ELSE "new"
  <2>1. /\ stream' = stream /\ group' = DeliverNew(group, entries) /\ At(c, "read")
        /\ loop'[c] = [step |-> next, batch |-> entries, resolved |-> FALSE]
    BY <1>1, <1>6 DEF ReadNew, GoTo
  <2>2. /\ entries \in Seq(Delivery) /\ group'.last = group.last + Len(entries)
        /\ \A k \in 1..Len(entries) : entries[k] = [id |-> group.last + k, deliveries |-> 1]
    BY <1>1, <2>1, NewlyDelivered
  <2>3. loop'[c].step = next /\ loop'[c].batch = entries /\ loop'[c].resolved = FALSE
    BY <2>1
  <2> HIDE DEF entries
  <2>4. /\ Len(entries) \in Nat /\ DOMAIN entries = 1..Len(entries)
        /\ (entries # <<>> => 1 \in 1..Len(entries) /\ Head(entries) = entries[1])
    BY <2>2, Elements, LenProperties
  <2>5. Done(c) = group.last /\ processed = FALSE /\ processed' = FALSE
    BY <1>1, <1>3, <2>1 DEF At, engineVars
  <2>6. CASE entries = <<>>
    <3>1. loop'[c].step # "new" /\ Len(entries) = 0
      BY <2>3, <2>6, EmptySeq
    <3>2. Consecutive(c)' /\ Done(c)' = group.last
      BY <1>1, <2>2, <3>1, OutsideDone
    <3> QED
      BY <1>1, <2>1, <2>5, <3>2, IdleLevel
  <2>7. CASE entries # <<>>
    <3>1. loop'[c].step = "new"
      BY <2>3, <2>7
    <3>2. \A k \in 1..Len(entries) : entries[k].id = group'.last - Len(entries) + k
      <4>1. ASSUME NEW k \in 1..Len(entries) PROVE entries[k].id = group.last + k
        <5>1. entries[k] = [id |-> group.last + k, deliveries |-> 1]
          BY <2>2
        <5> QED
          BY <5>1
      <4> QED
        BY <1>1, <2>2, <2>4, <4>1
    <3>3. Consecutive(c)'
      BY <2>3, <2>4, <3>2 DEF Consecutive
    <3>4. Head(entries).id = group.last + 1
      BY <2>2, <2>4, <2>7
    <3>5. Done(c)' = group.last
      <4>1. Done(c)' = Head(entries).id - 1
        BY <2>3, <2>5, <3>1 DEF Done, At, Current
      <4> QED
        BY <1>1, <3>4, <4>1
    <3> QED
      BY <1>1, <2>1, <2>5, <3>3, <3>5, IdleLevel
  <2> QED
    BY <2>6, <2>7
<1>7. ASSUME DeadLetter(c) PROVE LevelInv'
  <2>1. /\ UNCHANGED <<stream, group>> /\ Dispatching(c) /\ Exhausted(c)
        /\ loop' = [loop EXCEPT ![c].resolved = TRUE]
    BY <1>7 DEF DeadLetter, Resolve
  <2>2. ~At(c, "new") /\ loop'[c].step # "new"
    BY <1>1, <1>2, <2>1 DEF At, Loop
  <2>3. Consecutive(c)' /\ Done(c)' = group.last
    BY <1>1, <2>1, <2>2, OutsideDone
  <2>4. processed = FALSE
    BY <1>2, <2>1, HistoryFacts DEF InHandler
  <2> QED
    BY <1>1, <2>1, <2>2, <2>3, <2>4, IdleLevel
<1>8. ASSUME AckMessage(c) PROVE LevelInv'
  <2>1. /\ stream' = stream /\ group' = Ack(group, Current(c).id) /\ NextMessage(c) /\ loop[c].resolved
    BY <1>8 DEF AckMessage
  <2>2. group'.last = group.last /\ loop[c].step \in {"reclaimed", "new"}
    BY <1>1, <2>1, Facts, Acknowledged
  <2>3. processed = FALSE /\ processed' = FALSE
    BY <1>1, <1>2, <2>1, HistoryFacts DEF InHandler, Dispatching, engineVars
  <2>4. Consecutive(c)' /\ Done(c)' = IF At(c, "new") THEN Current(c).id ELSE group.last
    BY <1>2, <2>1, <2>2, <2>3, NextDone
  <2>5. Done(c) = IF At(c, "new") THEN Current(c).id ELSE group.last
    BY <1>1, <2>1 DEF Done
  <2> QED
    BY <1>1, <2>1, <2>3, <2>4, <2>5, IdleLevel
<1> QED
  BY <1>4, <1>5, <1>6, <1>7, <1>8 DEF Consume

\* The failures of the loop: what is in hand is dropped between two messages.
LEMMA DisturbLevel ==
  ASSUME OneProcess, ConsumerInv, HistoryInv, LevelInv, NEW c \in Consumers, Disturb(c)
  PROVE  LevelInv'
<1>0. ConsumerInv'
  <2>1. [ConsumerNext]_consumerVars
    BY DEF Disturb, ConsumerNext
  <2> QED
    BY <2>1, ConsumerStep
<1>1. /\ loop' \in [Consumers -> Loop] /\ loop \in [Consumers -> Loop] /\ group.last \in Nat
      /\ Done(c) \in Int /\ (~At(c, "new") => Done(c) = group.last)
      /\ UNCHANGED engineVars
  BY <1>0, Facts, DoneNumber DEF ConsumerInv, ConsumerTypeOK, Disturb
<1>2. Consecutive(c) /\ (processed => InHandler(c)) /\ (At(c, "new") => ~Exhausted(c))
      /\ "reply" \notin Faults
  BY LevelFacts
<1>3. ASSUME AckFails(c) PROVE LevelInv'
  <2>1. UNCHANGED <<stream, group>> /\ NextMessage(c) /\ loop[c].resolved
    BY <1>3 DEF AckFails
  <2>2. loop[c].step \in {"reclaimed", "new"}
    BY <2>1, Facts
  <2>3. processed = FALSE /\ processed' = FALSE
    BY <1>1, <1>2, <2>1, HistoryFacts DEF InHandler, Dispatching, engineVars
  <2>4. Consecutive(c)' /\ Done(c)' = IF At(c, "new") THEN Current(c).id ELSE group.last
    BY <1>2, <2>1, <2>2, <2>3, NextDone
  <2>5. Done(c) = IF At(c, "new") THEN Current(c).id ELSE group.last
    BY <1>1, <2>1 DEF Done
  <2> QED
    BY <1>1, <2>1, <2>3, <2>4, <2>5, IdleLevel
<1>4. ASSUME LoopError(c) PROVE LevelInv'
  <2>1. /\ UNCHANGED <<stream, group>> /\ loop' = [loop EXCEPT ![c] = Top]
        /\ At(c, "count") \/ At(c, "read") \/ (loop[c].batch # <<>> /\ Exhausted(c))
    BY <1>4 DEF LoopError
  <2>2. ~At(c, "new") /\ loop'[c].step # "new"
    BY <1>1, <1>2, <2>1 DEF At, Top
  <2>3. Consecutive(c)' /\ Done(c)' = group.last
    BY <1>1, <2>1, <2>2, OutsideDone
  <2>4. processed = FALSE
    BY <1>2, <2>1, HistoryFacts DEF InHandler, Dispatching, At
  <2> QED
    BY <1>1, <2>1, <2>2, <2>3, <2>4, IdleLevel
<1>5. ~ReplyLost(c)
  BY <1>2 DEF ReplyLost, FailWith
<1> QED
  BY <1>3, <1>4, <1>5 DEF Disturb

\* A longer log leads to the same states.
LEMMA EffectiveStays ==
  ASSUME NEW log \in Seq(Messages), NEW m \in Messages, NEW n \in 0..Len(log)
  PROVE  /\ EffectiveIn(n, Append(log, m)) = EffectiveIn(n, log)
         /\ \A s : ReflectsIn(s, n, log) => ReflectsIn(s, n, Append(log, m))
<1> DEFINE longer == Append(log, m)
<1>1. Len(log) \in Nat /\ \A i \in 1..Len(log) : longer[i] = log[i]
  BY LogGrows
<1> HIDE DEF longer
<1>2. \A i \in 1..n : longer[i] = log[i] /\ \A j \in 1..i-1 : longer[j] = log[j]
  <2> TAKE i \in 1..n
  <2>1. i \in 1..Len(log) /\ \A j \in 1..i-1 : j \in 1..Len(log)
    BY <1>1
  <2> QED
    BY <1>1, <2>1
<1>3. EffectiveIn(n, longer) = EffectiveIn(n, log)
  BY <1>2 DEF EffectiveIn
<1> QED
  BY <1>3 DEF ReflectsIn, longer

LEMMA AddLevel ==
  ASSUME ConsumerInv, HistoryInv, LevelInv, UNCHANGED <<engineVars, group, loop>>,
         NEW m \in Messages, stream' = Append(stream, m)
  PROVE  LevelInv'
<1>1. /\ stream \in Seq(Messages) /\ Len(stream) \in Nat /\ Len(stream') = Len(stream) + 1
      /\ \A i \in 1..Len(stream) : stream'[i] = stream[i]
  BY StreamTypes, LogGrows
<1>2. UNCHANGED <<mem, replayedThrough, processed, outbox, output, saving, disk, group, loop>>
  BY DEF engineVars, snapshotVars
<1>3. 0..Len(stream) \subseteq 0..Len(stream')
  BY <1>1
<1>4. \A n \in 0..Len(stream) : \A s : ReflectsIn(s, n, stream) => ReflectsIn(s, n, stream')
  BY <1>1, EffectiveStays
<1>5. \A c \in Consumers : Done(c)' = Done(c) /\ Consecutive(c)' = Consecutive(c)
  BY <1>2 DEF Done, Consecutive, At, Current
<1>6. (\E n \in 0..Len(stream) :
         /\ Reflects(mem, n) /\ mem.last <= n
         /\ replayedThrough <= n /\ \A c \in Consumers : Done(c) <= n)'
  <2>1. PICK n \in 0..Len(stream) :
          /\ Reflects(mem, n) /\ mem.last <= n
          /\ replayedThrough <= n /\ \A c \in Consumers : Done(c) <= n
    BY DEF LevelInv
  <2>2. ReflectsIn(mem', n, stream')
    BY <1>2, <1>4, <2>1 DEF Reflects, Effective, ReflectsIn, EffectiveIn
  <2>3. Reflects(mem, n)'
    BY <2>2 DEF Reflects, Effective, ReflectsIn, EffectiveIn
  <2>4. n \in 0..Len(stream')
    BY <1>3
  <2>5. mem'.last <= n /\ replayedThrough' <= n /\ \A c \in Consumers : Done(c)' <= n
    BY <1>2, <1>5, <2>1
  <2> QED
    BY <2>3, <2>4, <2>5
<1>7. \A s \in Visited' : \E n \in 0..Len(stream') : ReflectsIn(s, n, stream') /\ s.last <= n
  <2>1. Visited' = Visited
    BY <1>2 DEF Visited
  <2>2. \A s \in Visited : \E n \in 0..Len(stream) : ReflectsIn(s, n, stream) /\ s.last <= n
    BY DEF LevelInv, Reflects, Effective, ReflectsIn, EffectiveIn
  <2> QED
    BY <1>3, <1>4, <2>1, <2>2
<1>8. (\A s \in Visited : \E n \in 0..Len(stream) : Reflects(s, n) /\ s.last <= n)'
  BY <1>7 DEF Reflects, Effective, ReflectsIn, EffectiveIn
<1>9. ASSUME NEW c \in Consumers, InHandler(c) PROVE InHandler(c)'
  <2>1. loop[c].batch # <<>>
    BY <1>9, Facts DEF InHandler, Dispatching, At
  <2>2. stream'[Current(c).id] = stream[Current(c).id]
    BY <1>1, <2>1, InHand
  <2>3. stream'[Current(c).id] # Garbled
    BY <1>9, <2>2 DEF InHandler
  <2> QED
    BY <1>2, <1>9, <2>3 DEF InHandler, Dispatching, Exhausted, Replayed, At, Current
<1>10. processed' => \E c \in Consumers : InHandler(c)'
  BY <1>2, <1>9 DEF LevelInv
<1>11. \A c \in Consumers : Consecutive(c)'
  BY <1>5 DEF LevelInv
<1> QED
  BY <1>6, <1>8, <1>10, <1>11 DEF LevelInv

\* The handler takes a message: it is the next one, or one that had its effect.
LEMMA ProcessLevel ==
  ASSUME OneProcess, ConsumerInv, HistoryInv, LevelInv, NEW c \in Consumers, ProcessMessage(c)
  PROVE  \E n \in 0..Len(stream), k \in 0..Len(stream) :
           /\ Reflects(mem, n) /\ Reflects(mem', k) /\ n <= k
           /\ stream' = stream /\ LevelInv'
<1> DEFINE id == Current(c).id
<1>1. PICK n \in 0..Len(stream) :
        /\ Reflects(mem, n) /\ mem.last <= n /\ replayedThrough <= n /\ Done(c) <= n
  BY LevelFacts
<1>2. /\ loop[c].batch # <<>> /\ (\A d \in Consumers : d = c) /\ Consecutive(c)
      /\ Len(stream) \in Nat /\ Known(mem) /\ StreamOK
  BY Facts, LevelFacts, HistoryFacts DEF ProcessMessage, Dispatching, At
<1>3. id \in 1..Len(stream) /\ id \in 1..group.last /\ group.last \in Nat
  BY <1>2, InHand, Facts
<1>4. n \in Nat /\ id \in Nat /\ Done(c) \in Int /\ id <= n + 1
  <2>1. n \in Nat /\ id \in Nat /\ Done(c) \in Int
    BY <1>2, <1>3, DoneNumber
  <2>2. id <= Done(c) + 1
    <3>1. CASE At(c, "new")
      BY <3>1, DoneNumber
    <3>2. CASE ~At(c, "new")
      <4>1. Done(c) = group.last /\ id <= group.last
        BY <1>3, <3>2, DoneNumber
      <4> QED
        BY <1>3, <2>1, <4>1
    <3> QED
      BY <3>1, <3>2
  <2> QED
    BY <1>1, <2>1, <2>2
<1>5. /\ mem' = Process(mem, id) /\ processed' = TRUE /\ stream[id] # Garbled
      /\ UNCHANGED <<consumerVars, replayedThrough, output, saving, disk>>
  BY DEF ProcessMessage, snapshotVars
<1>6. UNCHANGED <<stream, group, loop, replayedThrough, saving, disk>>
  BY <1>5 DEF consumerVars
<1>7. mem' = ReplayEntry(mem, id)
  BY <1>5 DEF ReplayEntry
<1>8. Known(mem') /\ mem'.last = id
  BY <1>2, <1>3, <1>5, ProcessKnown
<1> DEFINE k == IF id <= n THEN n ELSE id
<1>9. k \in 0..Len(stream) /\ n <= k /\ id <= k /\ (id <= n \/ id = n + 1)
  BY <1>2, <1>3, <1>4
<1>10. Reflects(mem', k)
  <2>1. /\ id = n + 1 => Reflects(ReplayEntry(mem, id), n + 1)
        /\ id <= n => Reflects(ReplayEntry(mem, id), n)
    BY <1>1, <1>2, <1>3, <1>4, EntryReflects DEF OneProcess
  <2>2. CASE id <= n
    BY <1>7, <2>1, <2>2
  <2>3. CASE id = n + 1
    <3>1. k = n + 1
      BY <1>4, <2>3
    <3> QED
      BY <1>7, <2>1, <2>3, <3>1
  <2> QED
    BY <1>9, <2>2, <2>3
<1>11. ReflectsIn(mem', k, stream)
  BY <1>10 DEF Reflects, Effective, ReflectsIn, EffectiveIn
<1>12. Done(c)' <= k /\ Consecutive(c)'
  <2>1. Consecutive(c)'
    BY <1>2, <1>6 DEF Consecutive, At
  <2>2. CASE At(c, "new")
    <3>1. Done(c)' = id
      BY <1>5, <1>6, <2>2 DEF Done, At, Current
    <3> QED
      BY <1>9, <2>1, <3>1
  <2>3. CASE ~At(c, "new")
    <3>1. Done(c)' = group.last /\ Done(c) = group.last
      BY <1>6, <2>3 DEF Done, At
    <3>2. group.last <= k
      BY <1>1, <1>3, <1>4, <1>9, <3>1
    <3> QED
      BY <2>1, <3>1, <3>2
  <2> QED
    BY <2>2, <2>3
<1>13. InHandler(c)'
  <2>1. Dispatching(c) /\ ~Exhausted(c) /\ ~Replayed(c)
    BY DEF ProcessMessage
  <2> QED
    BY <1>5, <1>6, <2>1 DEF InHandler, Dispatching, Exhausted, Replayed, At, Current
<1>14. Visited' \subseteq Visited \cup {mem'}
  BY <1>6 DEF Visited
<1>15. mem'.last <= k /\ replayedThrough' <= k
  <2>1. replayedThrough \in Nat
    BY HistoryFacts, <1>2
  <2> QED
    BY <1>1, <1>4, <1>6, <1>8, <1>9, <2>1
<1> HIDE DEF k, id
<1>16. \A d \in Consumers : Done(d)' <= k /\ Consecutive(d)'
  BY <1>2, <1>12
<1>17. LevelInv'
  BY <1>6, <1>9, <1>11, <1>13, <1>14, <1>15, <1>16, LevelMoves
<1> QED
  BY <1>1, <1>6, <1>9, <1>10, <1>17

\* The handler passes over a message that was replayed.
LEMMA SkipLevel ==
  ASSUME OneProcess, ConsumerInv, HistoryInv, LevelInv, NEW c \in Consumers, SkipReplayed(c)
  PROVE  LevelInv'
<1>1. PICK n \in 0..Len(stream) :
        /\ ReflectsIn(mem, n, stream) /\ mem.last <= n /\ replayedThrough <= n /\ Done(c) <= n
  BY LevelFacts
<1>2. /\ (\A d \in Consumers : d = c) /\ Consecutive(c) /\ (processed => InHandler(c))
      /\ loop \in [Consumers -> Loop] /\ processed \in BOOLEAN
      /\ replayedThrough \in Nat /\ n \in Nat
  BY LevelFacts, HistoryFacts DEF ConsumerInv, ConsumerTypeOK
<1>3. /\ loop' = [loop EXCEPT ![c].resolved = TRUE] /\ UNCHANGED <<stream, group, engineVars>>
      /\ Current(c).id <= replayedThrough /\ processed = FALSE
  BY <1>2 DEF SkipReplayed, Handle, Resolve, Replayed, InHandler
<1>4. UNCHANGED <<mem, replayedThrough, processed, outbox, output, saving, disk>>
  BY <1>3 DEF engineVars, snapshotVars
<1>5. /\ loop'[c].step = loop[c].step /\ loop'[c].batch = loop[c].batch
  BY <1>2, <1>3 DEF Loop
<1>6. Consecutive(c)'
  BY <1>2, <1>3, <1>5 DEF Consecutive, At
<1>7. Done(c)' <= n
  <2>1. CASE At(c, "new")
    <3>1. Current(c).id \in Nat
      BY <2>1, DoneNumber
    <3>2. Done(c)' = Current(c).id \/ Done(c)' = Current(c).id - 1
      BY <1>5, <2>1 DEF Done, At, Current
    <3> QED
      BY <1>1, <1>2, <1>3, <3>1, <3>2
  <2>2. CASE ~At(c, "new")
    <3>1. Done(c)' = group.last /\ Done(c) = group.last
      BY <1>3, <1>5, <2>2 DEF Done, At
    <3> QED
      BY <1>1, <3>1
  <2> QED
    BY <2>1, <2>2
<1>8. Visited' = Visited
  BY <1>4 DEF Visited
<1>9. \A d \in Consumers : Done(d)' <= n /\ Consecutive(d)'
  BY <1>2, <1>6, <1>7
<1>10. processed' = FALSE
  BY <1>3, <1>4
<1> QED
  BY <1>1, <1>3, <1>4, <1>8, <1>9, <1>10, LevelMoves

\* The handler throws on an entry that cannot be decoded: it has no effect.
LEMMA RejectLevel ==
  ASSUME OneProcess, ConsumerInv, HistoryInv, LevelInv, NEW c \in Consumers, RejectGarbled(c)
  PROVE  LevelInv'
<1> DEFINE id == Current(c).id
<1>1. PICK n \in 0..Len(stream) :
        /\ Reflects(mem, n) /\ mem.last <= n /\ replayedThrough <= n /\ Done(c) <= n
  BY LevelFacts
<1>2. /\ (\A d \in Consumers : d = c) /\ Consecutive(c) /\ (processed => InHandler(c))
      /\ processed \in BOOLEAN /\ replayedThrough \in Nat /\ n \in Nat /\ Len(stream) \in Nat
      /\ mem.last \in Nat
  BY LevelFacts, HistoryFacts, KnownState
<1>3. /\ NextMessage(c) /\ UNCHANGED <<stream, group, engineVars>>
      /\ stream[id] = Garbled /\ processed = FALSE
      /\ loop[c].step \in {"reclaimed", "new"} /\ loop[c].batch # <<>>
  BY <1>2, Facts DEF RejectGarbled, Throw, InHandler, Dispatching, At
<1>4. UNCHANGED <<mem, replayedThrough, processed, outbox, output, saving, disk>>
  BY <1>3 DEF engineVars, snapshotVars
<1>5. Consecutive(c)' /\ Done(c)' = IF At(c, "new") THEN id ELSE group.last
  <2>1. processed' = FALSE /\ group'.last = group.last
    BY <1>3, <1>4
  <2> QED
    BY <1>2, <1>3, <2>1, NextDone
<1>6. id \in 1..Len(stream) /\ id \in Nat
  BY <1>3, InHand
<1> HIDE DEF id
<1>7. \E k \in 0..Len(stream) : Reflects(mem, k) /\ n <= k /\ Done(c)' <= k
  <2>1. CASE ~At(c, "new")
    <3>1. Done(c)' = group.last /\ Done(c) = group.last
      BY <1>5, <2>1 DEF Done
    <3> QED
      BY <1>1, <1>2, <3>1
  <2>2. CASE At(c, "new") /\ id <= n
    BY <1>1, <1>2, <1>5, <2>2
  <2>3. CASE At(c, "new") /\ ~(id <= n)
    <3>1. id <= Done(c) + 1 /\ Done(c) \in Int
      BY <2>3, DoneNumber DEF id
    <3>2. id = n + 1
      BY <1>1, <1>2, <1>6, <2>3, <3>1
    <3>3. n + 1 \notin Effective(n + 1)
      BY <1>3, <3>2 DEF Effective
    <3>4. Effective(n + 1) = Effective(n)
      BY <1>2, <3>3, OneMore
    <3>5. Reflects(mem, n + 1)
      BY <1>1, <3>4 DEF Reflects
    <3>6. n + 1 \in 0..Len(stream) /\ n <= n + 1 /\ Done(c)' <= n + 1
      BY <1>2, <1>5, <1>6, <2>3, <3>2
    <3> QED
      BY <3>5, <3>6
  <2> QED
    BY <2>1, <2>2, <2>3
<1>8. PICK k \in 0..Len(stream) : Reflects(mem, k) /\ n <= k /\ Done(c)' <= k
  BY <1>7
<1>9. ReflectsIn(mem', k, stream)
  BY <1>4, <1>8 DEF Reflects, Effective, ReflectsIn, EffectiveIn
<1>10. mem'.last <= k /\ replayedThrough' <= k
  BY <1>1, <1>2, <1>4, <1>8
<1>11. Visited' = Visited
  BY <1>4 DEF Visited
<1>12. \A d \in Consumers : Done(d)' <= k /\ Consecutive(d)'
  BY <1>2, <1>5, <1>8
<1>13. processed' = FALSE
  BY <1>3, <1>4
<1> QED
  BY <1>3, <1>9, <1>10, <1>11, <1>12, <1>13, LevelMoves

\* The handler ends, one way or the other.
LEMMA EndLevel ==
  ASSUME OneProcess, ConsumerInv, HistoryInv, LevelInv, NEW c \in Consumers,
         PublishFails(c) \/ FinishHandler(c)
  PROVE  LevelInv'
<1>1. PICK n \in 0..Len(stream) :
        /\ ReflectsIn(mem, n, stream) /\ mem.last <= n /\ replayedThrough <= n /\ Done(c) <= n
  BY LevelFacts
<1>2. /\ (\A d \in Consumers : d = c) /\ Consecutive(c) /\ (outbox # <<>> => processed)
      /\ loop \in [Consumers -> Loop]
  BY LevelFacts, HistoryFacts DEF ConsumerInv, ConsumerTypeOK
<1>3. /\ processed /\ processed' = FALSE
      /\ UNCHANGED <<stream, group, mem, replayedThrough, saving, disk>>
  BY <1>2 DEF PublishFails, FinishHandler, Throw, Handle, snapshotVars
<1>4. Visited' = Visited
  BY <1>3 DEF Visited
<1>5. Done(c) = IF At(c, "new") THEN Current(c).id ELSE group.last
  BY <1>3 DEF Done
<1>6. CASE PublishFails(c)
  <2>1. NextMessage(c) /\ loop[c].step \in {"reclaimed", "new"} /\ group'.last = group.last
    BY <1>3, <1>6 DEF PublishFails, Throw, Dispatching, At
  <2>2. Consecutive(c)' /\ Done(c)' = IF At(c, "new") THEN Current(c).id ELSE group.last
    BY <1>2, <1>3, <2>1, NextDone
  <2>3. Done(c)' <= n
    BY <1>1, <1>5, <2>2
  <2>4. \A d \in Consumers : Done(d)' <= n /\ Consecutive(d)'
    BY <1>2, <2>2, <2>3
  <2> QED
    BY <1>1, <1>3, <1>4, <2>4, LevelMoves
<1>7. CASE FinishHandler(c)
  <2>1. loop' = [loop EXCEPT ![c].resolved = TRUE]
    BY <1>7 DEF FinishHandler, Handle, Resolve
  <2>2. loop'[c].step = loop[c].step /\ loop'[c].batch = loop[c].batch /\ loop'[c].resolved = TRUE
    BY <1>2, <2>1 DEF Loop
  <2>3. Consecutive(c)'
    BY <1>2, <1>3, <2>2 DEF Consecutive, At
  <2>4. Done(c)' = Done(c)
    BY <1>3, <1>5, <2>2 DEF Done, At, Current
  <2>5. \A d \in Consumers : Done(d)' <= n /\ Consecutive(d)'
    BY <1>1, <1>2, <2>3, <2>4
  <2> QED
    BY <1>1, <1>3, <1>4, <2>5, LevelMoves
<1> QED
  BY <1>6, <1>7

\* Publishing, and snapshots.
LEMMA BesidesLevel ==
  ASSUME OneProcess, ConsumerInv, HistoryInv, LevelInv,
         Publish \/ BeginSave \/ \E s \in saving : ContinueSave(s)
  PROVE  LevelInv'
<1>1. PICK n \in 0..Len(stream) :
        /\ Reflects(mem, n) /\ mem.last <= n
        /\ replayedThrough <= n /\ \A d \in Consumers : Done(d) <= n
  BY DEF LevelInv
<1>2. UNCHANGED <<stream, group, loop, mem, replayedThrough, processed>>
  BY SavesBeside DEF Publish, consumerVars
<1>3. ReflectsIn(mem', n, stream)
  BY <1>1, <1>2 DEF Reflects, Effective, ReflectsIn, EffectiveIn
<1>4. \A d \in Consumers : Done(d)' = Done(d) /\ Consecutive(d)' = Consecutive(d)
  BY <1>2 DEF Done, Consecutive, At, Current
<1>5. \A d \in Consumers : InHandler(d)' = InHandler(d)
  BY <1>2 DEF InHandler, Dispatching, Exhausted, Replayed, At, Current
<1>6. \A d \in Consumers : Done(d)' <= n /\ Consecutive(d)'
  BY <1>1, <1>4 DEF LevelInv
<1>7. processed' => \E d \in Consumers : InHandler(d)'
  BY <1>2, <1>5 DEF LevelInv
<1>8. Visited' \subseteq Visited \cup {mem'}
  <2>1. CASE Publish
    BY <2>1 DEF Publish, Visited, snapshotVars
  <2>2. CASE BeginSave
    BY <2>2, BeginVisited
  <2>3. CASE \E s \in saving : ContinueSave(s)
    BY <2>3, SavesVisited
  <2> QED
    BY <2>1, <2>2, <2>3
<1>9. mem'.last <= n /\ replayedThrough' <= n
  BY <1>1, <1>2
<1> QED
  BY <1>2, <1>3, <1>6, <1>7, <1>8, <1>9, LevelMoves

\* The newest valid snapshot that can be read, and the log after it, give what the
\* log gives.
LEMMA RecoveredLevel ==
  ASSUME NoneForgotten, ConsumerInv, HistoryInv, LevelInv, NEW loaded \in Loadable
  PROVE  /\ Known(Replay(loaded)) /\ Replay(loaded).last = Len(stream)
         /\ Reflects(Replay(loaded), Len(stream))
<1>1. StreamOK /\ Len(stream) \in Nat
  BY HistoryFacts
<1>2. Known(loaded)
  BY LoadedKnown
<1>3. \E n \in 0..Len(stream) : Reflects(loaded, n) /\ loaded.last <= n
  <2>1. CASE loaded = Genesis
    <3>1. Reflects(Genesis, 0) /\ Genesis.last = 0 /\ 0 \in 0..Len(stream)
      BY <1>1, AfterReflects, GenesisKnown
    <3> QED
      BY <2>1, <3>1
  <2>2. CASE loaded \in Visited
    BY <2>2 DEF LevelInv
  <2> QED
    BY <2>1, <2>2, LoadedVisited
<1>4. PICK n \in 0..Len(stream) : Reflects(loaded, n) /\ loaded.last <= n
  BY <1>3
<1>5. Len(stream) \in n..Len(stream)
  BY <1>1
<1>6. Reflects(ReplayUpTo(loaded, Len(stream)), Len(stream))
  BY <1>1, <1>2, <1>4, <1>5, ReplayReflects
<1> QED
  BY <1>1, <1>2, <1>6, ReplayKnown DEF Replay

LEMMA CrashLevel ==
  ASSUME OneProcess, ConsumerInv, HistoryInv, LevelInv, NEW c \in Consumers, CrashAndRecover(c)
  PROVE  LevelInv'
<1>0. ConsumerInv'
  <2>1. [ConsumerNext]_consumerVars
    BY DEF CrashAndRecover, ConsumerNext
  <2> QED
    BY <2>1, ConsumerStep
<1>9. PICK loaded \in Loadable : mem' = Replay(loaded)
  BY DEF CrashAndRecover
<1>1. /\ replayedThrough' = mem'.last /\ processed' = FALSE
      /\ saving' = {} /\ UNCHANGED <<stream, group, disk>> /\ loop' = [loop EXCEPT ![c] = Top]
  BY DEF CrashAndRecover, Crash
<1>2. /\ mem'.last = Len(stream) /\ ReflectsIn(mem', Len(stream), stream)
  BY <1>9, RecoveredLevel DEF OneProcess, Reflects, Effective, ReflectsIn, EffectiveIn
<1>3. /\ loop' \in [Consumers -> Loop] /\ loop \in [Consumers -> Loop]
      /\ group.last <= Len(stream) /\ Len(stream) \in Nat
  BY <1>0, Facts DEF ConsumerInv, ConsumerTypeOK
<1>4. loop'[c].step # "new"
  BY <1>1, <1>3 DEF Top
<1>5. Consecutive(c)' /\ Done(c)' = group.last
  BY <1>1, <1>3, <1>4, OutsideDone
<1>6. \A d \in Consumers : Done(d)' <= Len(stream) /\ Consecutive(d)'
  BY <1>3, <1>5, LevelFacts
<1>7. Visited' \subseteq Visited \cup {mem'}
  BY <1>1 DEF Visited
<1>8. Len(stream) \in 0..Len(stream) /\ mem'.last <= Len(stream) /\ replayedThrough' <= Len(stream)
  BY <1>1, <1>2, <1>3
<1> QED
  BY <1>1, <1>2, <1>6, <1>7, <1>8, LevelMoves

LEMMA LevelStep ==
  ASSUME OneProcess, ConsumerInv, HistoryInv, LevelInv, [Next]_vars
  PROVE  LevelInv'
<1>1. CASE \E m \in Messages : Add(m) /\ UNCHANGED engineVars
  BY <1>1, AddLevel DEF Add
<1>2. ASSUME NEW c \in Consumers, Run(c) PROVE LevelInv'
  BY <1>2, ConsumeLevel, SkipLevel, RejectLevel, ProcessLevel, BesidesLevel, EndLevel DEF Run
<1>3. ASSUME NEW c \in Consumers, PublishFails(c) \/ Disturb(c) \/ CrashAndRecover(c) PROVE LevelInv'
  BY <1>3, EndLevel, DisturbLevel, CrashLevel
<1>4. CASE BeginSave \/ \E s \in saving : ContinueSave(s)
  BY <1>4, BesidesLevel
<1>5. CASE UNCHANGED vars
  <2>1. UNCHANGED <<stream, group, loop, mem, replayedThrough, processed, saving, disk>>
    BY <1>5 DEF vars, consumerVars, engineVars, snapshotVars
  <2>2. PICK n \in 0..Len(stream) :
          /\ Reflects(mem, n) /\ mem.last <= n
          /\ replayedThrough <= n /\ \A d \in Consumers : Done(d) <= n
    BY DEF LevelInv
  <2>3. ReflectsIn(mem', n, stream)
    BY <2>1, <2>2 DEF Reflects, Effective, ReflectsIn, EffectiveIn
  <2>4. \A d \in Consumers : Done(d)' <= n /\ Consecutive(d)'
    BY <2>1, <2>2 DEF LevelInv, Done, Consecutive, At, Current
  <2>5. processed' => \E d \in Consumers : InHandler(d)'
    BY <2>1 DEF LevelInv, InHandler, Dispatching, Exhausted, Replayed, At, Current
  <2>6. Visited' = Visited
    BY <2>1 DEF Visited
  <2> QED
    BY <2>1, <2>2, <2>3, <2>4, <2>5, <2>6, LevelMoves
<1> QED
  BY <1>1, <1>2, <1>3, <1>4, <1>5 DEF Next

LEMMA LevelStart == NoneForgotten /\ Init => LevelInv
<1> SUFFICES ASSUME NoneForgotten, Init PROVE LevelInv
  OBVIOUS
<1>1. /\ ConsumerInv /\ HistoryInv /\ StreamOK /\ stream = <<>> /\ Len(stream) = 0
      /\ group.last = 0 /\ \A c \in Consumers : loop[c].step = "claim"
  BY ConsumerStart, HistoryStart, StreamTypes, EmptySeq DEF Init, ConsumerInit, NewGroup, Top
<1>2. /\ mem = Genesis /\ replayedThrough = 0 /\ processed = FALSE
      /\ saving = {} /\ disk = {}
  BY DEF Init
<1>3. 0 \in 0..Len(stream) /\ Reflects(Genesis, 0) /\ Genesis.last = 0
  BY <1>1, AfterReflects, GenesisKnown
<1>4. \A c \in Consumers : Done(c) = 0 /\ Consecutive(c)
  BY <1>1 DEF Done, Consecutive, At
<1>5. Visited = {Genesis}
  BY <1>2 DEF Visited
<1> QED
  BY <1>2, <1>3, <1>4, <1>5 DEF LevelInv

LEMMA LevelKept == OneProcess => (Safety => [](ConsumerInv /\ HistoryInv /\ LevelInv))
<1> SUFFICES ASSUME OneProcess PROVE Safety => [](ConsumerInv /\ HistoryInv /\ LevelInv)
  OBVIOUS
<1>1. Init => LevelInv
  BY LevelStart DEF OneProcess
<1>2. ConsumerInv /\ HistoryInv /\ LevelInv /\ [Next]_vars => LevelInv'
  BY LevelStep
<1> QED
  BY <1>1, <1>2, ProcessSafe, PTL DEF Safety

\* With one process and no lost replies, the live state is that of a prefix of the
\* log: whatever was redelivered, retried, skipped, or restored from snapshots that
\* were written while the state changed.
THEOREM LiveStateFollowsLog == OneProcess => (Safety => []LiveStateIsReplay)
<1> SUFFICES ASSUME OneProcess PROVE Safety => []LiveStateIsReplay
  OBVIOUS
<1>1. ConsumerInv /\ HistoryInv /\ LevelInv => LiveStateIsReplay
  <2> SUFFICES ASSUME ConsumerInv, HistoryInv, LevelInv PROVE LiveStateIsReplay
    OBVIOUS
  <2>1. PICK n \in 0..Len(stream) : Reflects(mem, n)
    BY DEF LevelInv
  <2> QED
    BY <2>1, HistoryFacts, AfterReflects DEF LiveStateIsReplay, OneProcess
<1> QED
  BY <1>1, LevelKept, PTL

\* And a crash at any moment loses nothing of it.
THEOREM RecoveryGivesWholeLog == OneProcess => (Safety => []RecoveryIsReplay)
<1> SUFFICES ASSUME OneProcess PROVE Safety => []RecoveryIsReplay
  OBVIOUS
<1>1. ConsumerInv /\ HistoryInv /\ LevelInv => RecoveryIsReplay
  <2> SUFFICES ASSUME ConsumerInv, HistoryInv, LevelInv PROVE RecoveryIsReplay
    OBVIOUS
  <2>1. \A loaded \in Loadable : Reflects(Replay(loaded), Len(stream))
    BY RecoveredLevel DEF OneProcess
  <2>2. StreamOK /\ Len(stream) \in 0..Len(stream)
    BY HistoryFacts
  <2> QED
    BY <2>1, <2>2, AfterReflects DEF RecoveryIsReplay, OneProcess
<1> QED
  BY <1>1, LevelKept, PTL

-----------------------------------------------------------------------------
(* Event ids                                                               *)

\* Further along the log the counter of events is at least as high.
LEMMA SeqGrows ==
  ASSUME NEW n \in Nat, NEW k \in Nat, n <= k, NEW s, NEW t, Reflects(s, n), Reflects(t, k)
  PROVE  s.seq \in Nat /\ t.seq \in Nat /\ s.seq <= t.seq
<1>1. Effective(n) \subseteq Effective(k)
  BY DEF Effective
<1>2. /\ Effective(n) \in SUBSET Nat /\ IsFiniteSet(Effective(n))
      /\ Effective(k) \in SUBSET Nat /\ IsFiniteSet(Effective(k))
  BY EffectiveList
<1>3. /\ Cardinality(Effective(n)) \in Nat /\ Cardinality(Effective(k)) \in Nat
      /\ Cardinality(Effective(n)) <= Cardinality(Effective(k))
  BY <1>1, <1>2, FS_Subset, FS_CardinalityType
<1>4. Len(s.applied) = Cardinality(Effective(n)) /\ Len(t.applied) = Cardinality(Effective(k))
  BY <1>2, AscendingLists DEF Reflects
<1>5. \A a, b \in Nat : a <= b => Drafts * a \in Nat /\ Drafts * b \in Nat /\ Drafts * a <= Drafts * b
  <2>1. \A d, a, x \in Nat : d * a \in Nat /\ d * x \in Nat /\ d * (a + x) = d * a + d * x
    OBVIOUS
  <2>2. \A a, b \in Nat : a <= b => b = a + (b - a) /\ b - a \in Nat
    OBVIOUS
  <2>3. \A p, q \in Nat : p <= p + q
    OBVIOUS
  <2> SUFFICES ASSUME NEW a \in Nat, NEW b \in Nat, a <= b
               PROVE  Drafts * a \in Nat /\ Drafts * b \in Nat /\ Drafts * a <= Drafts * b
    OBVIOUS
  <2> DEFINE x == b - a
  <2>4. b = a + x /\ x \in Nat /\ Drafts \in Nat
    BY <2>2, RuntimeAssumption
  <2> HIDE DEF x
  <2>5. Drafts * b = Drafts * a + Drafts * x /\ Drafts * a \in Nat /\ Drafts * x \in Nat
    BY <2>1, <2>4
  <2> QED
    BY <2>1, <2>3, <2>4, <2>5
<1>6. s.seq = Drafts * Len(s.applied) /\ t.seq = Drafts * Len(t.applied)
  BY DEF Reflects
<1> QED
  BY <1>3, <1>4, <1>5, <1>6

LEMMA NumbersStart == Init => NumbersInv
<1> SUFFICES ASSUME Init PROVE NumbersInv
  OBVIOUS
<1>1. output = <<>> /\ outbox = <<>> /\ DOMAIN << >> = {}
  BY DEF Init
<1> QED
  BY <1>1 DEF NumbersInv, EventIdsIncrease

\* The sequences of events, and what is in them.
LEMMA NumbersFacts ==
  ASSUME ConsumerInv, HistoryInv
  PROVE  /\ mem.seq \in Nat /\ Len(outbox) \in Nat /\ Len(output) \in Nat
         /\ DOMAIN outbox = 1..Len(outbox) /\ DOMAIN output = 1..Len(output)
         /\ \A i \in DOMAIN output : output[i].seq \in Nat
         /\ \A k \in DOMAIN outbox : outbox[k].seq \in Nat
<1>1. outbox \in Seq(Event) /\ output \in Seq(Event) /\ mem.seq \in Nat
  BY HistoryFacts, KnownState
<1>2. \A e \in Event : e.seq \in Nat
  BY DEF Event
<1> QED
  BY <1>1, <1>2, LenProperties, ElementOfSeq

\* The handler of a message numbers its events from the counter on.
LEMMA ProcessNumbers ==
  ASSUME ConsumerInv, HistoryInv, NumbersInv, NEW c \in Consumers, ProcessMessage(c)
  PROVE  NumbersInv'
<1> DEFINE id == Current(c).id
<1>1. /\ mem' = Process(mem, id) /\ outbox' = Outputs(mem, id) /\ output' = output /\ ~processed
  BY DEF ProcessMessage
<1>2. /\ mem.seq \in Nat /\ mem \in State /\ outbox = <<>> /\ Len(outbox) = 0 /\ Drafts \in Nat
      /\ DOMAIN output = 1..Len(output) /\ \A i \in DOMAIN output : output[i].seq \in Nat
  BY <1>1, NumbersFacts, HistoryFacts, EmptySeq, RuntimeAssumption
<1>3. \A i \in DOMAIN output : output[i].seq <= mem.seq
  BY <1>2 DEF NumbersInv
<1>4. /\ mem'.seq = mem.seq + Len(outbox') /\ Len(outbox') \in Nat
      /\ \A k \in DOMAIN outbox' : outbox'[k].seq = mem.seq + k
  <2>1. CASE Fresh(mem, id)
    <3>1. mem'.seq = mem.seq + Drafts
      BY <1>1, <2>1 DEF Process
    <3>2. outbox' = [k \in 1..Drafts |-> [seq |-> mem.seq + k, cause |-> id]]
      BY <1>1, <2>1 DEF Outputs
    <3>3. Len(outbox') = Drafts
      BY <1>2, <3>2
    <3> QED
      BY <1>2, <3>1, <3>2, <3>3
  <2>2. CASE ~Fresh(mem, id)
    <3>1. outbox' = <<>> /\ Len(outbox') = 0 /\ DOMAIN outbox' = {}
      BY <1>1, <2>2 DEF Outputs
    <3>2. mem'.seq = mem.seq
      <4>1. PICK w, x, y, z : mem = [applied |-> w, last |-> x, seq |-> y, count |-> z]
        BY <1>2, Zenon DEF State
      <4> DEFINE counted == IF stream[id] = Tick THEN 1 ELSE 0
                 moved == [mem EXCEPT !.last = id]
                 t == [moved EXCEPT !.count = mem.count + counted]
      <4>2. mem' = [mem EXCEPT !.last = id, !.count = @ + counted]
        BY <1>1, <2>2 DEF Process
      <4>3. [mem EXCEPT !.last = id, !.count = @ + counted] = t
        OBVIOUS
      <4>4. moved = [applied |-> w, last |-> id, seq |-> y, count |-> z]
        BY <4>1
      <4> HIDE DEF moved
      <4>5. t.seq = mem.seq
        BY <4>1, <4>4
      <4> QED
        BY <4>2, <4>3, <4>5
    <3> QED
      BY <1>2, <3>1, <3>2
  <2> QED
    BY <2>1, <2>2
<1>5. EventIdsIncrease'
  BY <1>1 DEF NumbersInv, EventIdsIncrease
<1>6. \A i \in DOMAIN output' : output'[i].seq <= mem'.seq - Len(outbox')
  <2>1. mem'.seq - Len(outbox') = mem.seq
    BY <1>2, <1>4
  <2> QED
    BY <1>1, <1>3, <2>1
<1>7. \A k \in DOMAIN outbox' : outbox'[k].seq = mem'.seq - Len(outbox') + k
  <2>1. mem'.seq - Len(outbox') = mem.seq
    BY <1>2, <1>4
  <2> QED
    BY <1>4, <2>1
<1> QED
  BY <1>5, <1>6, <1>7 DEF NumbersInv

LEMMA PublishNumbers ==
  ASSUME ConsumerInv, HistoryInv, NumbersInv, Publish
  PROVE  NumbersInv'
<1>1. outbox # <<>> /\ output' = Append(output, Head(outbox)) /\ outbox' = Tail(outbox) /\ mem' = mem
  BY DEF Publish
<1>2. /\ mem.seq \in Nat /\ Len(outbox) \in Nat /\ Len(output) \in Nat
      /\ DOMAIN outbox = 1..Len(outbox) /\ DOMAIN output = 1..Len(output)
      /\ \A i \in DOMAIN output : output[i].seq \in Nat
      /\ outbox \in Seq(Event) /\ output \in Seq(Event)
  BY NumbersFacts, HistoryFacts
<1>3. /\ Len(outbox') = Len(outbox) - 1 /\ Len(outbox') \in Nat /\ DOMAIN outbox' = 1..Len(outbox')
      /\ \A k \in 1..Len(outbox') : outbox'[k] = outbox[k + 1]
      /\ Head(outbox) = outbox[1] /\ 1 \in 1..Len(outbox)
  <2>1. Tail(outbox) \in Seq(Event) /\ Len(Tail(outbox)) = Len(outbox) - 1
        /\ \A k \in 1..Len(Tail(outbox)) : Tail(outbox)[k] = outbox[k + 1]
    BY <1>1, <1>2, HeadTailProperties
  <2>2. Len(Tail(outbox)) \in Nat /\ DOMAIN Tail(outbox) = 1..Len(Tail(outbox))
    BY <2>1, LenProperties
  <2>3. Head(outbox) = outbox[1]
    OBVIOUS
  <2> QED
    BY <1>1, <1>2, <2>1, <2>2, <2>3
<1>4. /\ Len(output') = Len(output) + 1 /\ DOMAIN output' = 1..Len(output) + 1
      /\ \A i \in 1..Len(output) : output'[i] = output[i]
      /\ output'[Len(output) + 1] = outbox[1]
  <2>1. Head(outbox) \in Event
    BY <1>1, <1>2, HeadTailProperties
  <2> QED
    BY <1>1, <1>2, <1>3, <2>1, AppendProperties, LenProperties
<1>5. outbox[1].seq = mem.seq - Len(outbox) + 1
  BY <1>2, <1>3 DEF NumbersInv
<1>6. \A i \in 1..Len(output) : output[i].seq <= mem.seq - Len(outbox)
  BY <1>2 DEF NumbersInv
<1>7. \A i \in 1..Len(output) + 1 : i \in 1..Len(output) \/ i = Len(output) + 1
  BY <1>2
<1>8. EventIdsIncrease'
  <2> SUFFICES ASSUME NEW i \in 1..Len(output) + 1, NEW j \in 1..Len(output) + 1, i < j
               PROVE  output'[i].seq < output'[j].seq
    BY <1>4 DEF EventIdsIncrease
  <2>1. i \in 1..Len(output)
    BY <1>2, <1>7
  <2>2. CASE j \in 1..Len(output)
    <3>1. output[i].seq < output[j].seq
      BY <1>2, <2>1, <2>2 DEF NumbersInv, EventIdsIncrease
    <3> QED
      BY <1>4, <2>1, <2>2, <3>1
  <2>3. CASE j = Len(output) + 1
    <3>1. output'[j].seq = mem.seq - Len(outbox) + 1 /\ output'[i].seq = output[i].seq
      BY <1>4, <1>5, <2>1, <2>3
    <3>2. output[i].seq <= mem.seq - Len(outbox) /\ output[i].seq \in Nat
      BY <1>2, <1>6, <2>1
    <3> QED
      BY <1>2, <3>1, <3>2
  <2> QED
    BY <1>7, <2>2, <2>3
<1>9. \A i \in DOMAIN output' : output'[i].seq <= mem'.seq - Len(outbox')
  <2> SUFFICES ASSUME NEW i \in 1..Len(output) + 1
               PROVE  output'[i].seq <= mem.seq - (Len(outbox) - 1)
    BY <1>1, <1>3, <1>4
  <2>1. CASE i \in 1..Len(output)
    <3>1. output'[i].seq = output[i].seq /\ output[i].seq <= mem.seq - Len(outbox) /\ output[i].seq \in Nat
      BY <1>2, <1>4, <1>6, <2>1
    <3> QED
      BY <1>2, <3>1
  <2>2. CASE i = Len(output) + 1
    <3>1. output'[i].seq = mem.seq - Len(outbox) + 1
      BY <1>4, <1>5, <2>2
    <3> QED
      BY <1>2, <3>1
  <2> QED
    BY <1>7, <2>1, <2>2
<1>10. \A k \in DOMAIN outbox' : outbox'[k].seq = mem'.seq - Len(outbox') + k
  <2> SUFFICES ASSUME NEW k \in 1..Len(outbox')
               PROVE  outbox'[k].seq = mem.seq - (Len(outbox) - 1) + k
    BY <1>1, <1>3
  <2>1. k + 1 \in 1..Len(outbox) /\ outbox'[k] = outbox[k + 1]
    BY <1>2, <1>3
  <2>2. outbox[k + 1].seq = mem.seq - Len(outbox) + (k + 1)
    BY <1>2, <2>1 DEF NumbersInv
  <2> QED
    BY <1>2, <2>1, <2>2
<1> QED
  BY <1>8, <1>9, <1>10 DEF NumbersInv

\* What was left to publish is gone, and the state is as far or further.
LEMMA DropNumbers ==
  ASSUME ConsumerInv, HistoryInv, NumbersInv, outbox' = <<>>, output' = output,
         mem'.seq \in Nat, mem.seq <= mem'.seq
  PROVE  NumbersInv'
<1>1. /\ mem.seq \in Nat /\ Len(outbox) \in Nat /\ \A i \in DOMAIN output : output[i].seq \in Nat
  BY NumbersFacts
<1>2. Len(outbox') = 0 /\ DOMAIN outbox' = {}
  OBVIOUS
<1>3. \A i \in DOMAIN output' : output'[i].seq <= mem'.seq - Len(outbox')
  <2> SUFFICES ASSUME NEW i \in DOMAIN output PROVE output[i].seq <= mem'.seq - 0
    BY <1>2
  <2>1. output[i].seq <= mem.seq - Len(outbox) /\ output[i].seq \in Nat
    BY <1>1 DEF NumbersInv
  <2> QED
    BY <1>1, <2>1
<1>4. EventIdsIncrease'
  BY DEF NumbersInv, EventIdsIncrease
<1> QED
  BY <1>2, <1>3, <1>4 DEF NumbersInv

LEMMA NumbersStep ==
  ASSUME OneProcess, ConsumerInv, HistoryInv, LevelInv, NumbersInv, [Next]_vars
  PROVE  NumbersInv'
<1>1. ASSUME UNCHANGED <<mem, outbox, output>> PROVE NumbersInv'
  BY <1>1 DEF NumbersInv, EventIdsIncrease
<1>2. ASSUME NEW c \in Consumers, Run(c) PROVE NumbersInv'
  <2>1. UNCHANGED <<mem, outbox, output>> \/ ProcessMessage(c) \/ Publish \/ FinishHandler(c)
    BY <1>2 DEF Run, Consume, SkipReplayed, RejectGarbled, engineVars
  <2>2. FinishHandler(c) => UNCHANGED <<mem, outbox, output>>
    BY DEF FinishHandler
  <2> QED
    BY <1>1, <2>1, <2>2, ProcessNumbers, PublishNumbers
<1>3. ASSUME NEW c \in Consumers, PublishFails(c) PROVE NumbersInv'
  <2>1. outbox' = <<>> /\ output' = output /\ mem' = mem
    BY <1>3 DEF PublishFails
  <2>2. mem.seq \in Nat
    BY NumbersFacts
  <2> QED
    BY <2>1, <2>2, DropNumbers
<1>4. ASSUME NEW c \in Consumers, CrashAndRecover(c) PROVE NumbersInv'
  <2>1. outbox' = <<>> /\ output' = output /\ \E loaded \in Loadable : mem' = Replay(loaded)
    BY <1>4 DEF CrashAndRecover
  <2>2. PICK n \in 0..Len(stream) : Reflects(mem, n)
    BY DEF LevelInv
  <2>3. Reflects(mem', Len(stream)) /\ Len(stream) \in Nat
    BY <2>1, RecoveredLevel, HistoryFacts DEF OneProcess
  <2>4. n \in Nat /\ n <= Len(stream)
    BY <2>3
  <2>5. mem'.seq \in Nat /\ mem.seq <= mem'.seq
    BY <2>2, <2>3, <2>4, SeqGrows
  <2> QED
    BY <2>1, <2>5, DropNumbers
<1>5. ASSUME \E m \in Messages : Add(m) /\ UNCHANGED engineVars PROVE NumbersInv'
  BY <1>1, <1>5 DEF engineVars
<1>6. ASSUME NEW c \in Consumers, Disturb(c) PROVE NumbersInv'
  BY <1>1, <1>6 DEF Disturb, engineVars
<1>7. ASSUME BeginSave \/ (\E s \in saving : ContinueSave(s)) \/ UNCHANGED vars PROVE NumbersInv'
  <2>1. UNCHANGED <<mem, outbox, output>>
    BY <1>7, SavesBeside DEF vars, engineVars
  <2> QED
    BY <1>1, <2>1
<1> QED
  BY <1>2, <1>3, <1>4, <1>5, <1>6, <1>7 DEF Next

\* No event id is used twice in the output stream, and they increase along it, across
\* crashes, replays, retries and events that were never published.
THEOREM EventIdsUnique == OneProcess => (Safety => []EventIdsIncrease)
<1> SUFFICES ASSUME OneProcess PROVE Safety => []EventIdsIncrease
  OBVIOUS
<1>1. Init => NumbersInv
  BY NumbersStart
<1>2. ConsumerInv /\ HistoryInv /\ LevelInv /\ NumbersInv /\ [Next]_vars => NumbersInv'
  BY NumbersStep
<1>3. NumbersInv => EventIdsIncrease
  BY DEF NumbersInv
<1>4. Safety => [](ConsumerInv /\ HistoryInv /\ LevelInv)
  BY LevelKept
<1> QED
  BY <1>1, <1>2, <1>3, <1>4, PTL DEF Safety

-----------------------------------------------------------------------------
(* The refinement                                                          *)

\* The last entry that had an effect on s.
ReflectedIn(s) == IF s.applied = <<>> THEN 0 ELSE Last(s.applied)

\* The last effect of a state after n entries is the greatest entry with one.
LEMMA LastEffect ==
  ASSUME NEW n \in Nat, NEW s, Reflects(s, n)
  PROVE  /\ ReflectedIn(s) \in 0..n
         /\ ReflectedIn(s) = 0 \/ ReflectedIn(s) \in Effective(n)
         /\ \A i \in Effective(n) : i <= ReflectedIn(s)
<1> DEFINE list == Ascending(Effective(n))
           len == Len(list)
<1>1. /\ Effective(n) \subseteq 1..n /\ list \in Seq(Effective(n)) /\ len \in Nat
      /\ \A i \in Effective(n) : \E k \in 1..len : list[k] = i
      /\ \A k, l \in 1..len : k < l => list[k] < list[l]
      /\ s.applied = list
  BY EffectiveList DEF Reflects
<1> HIDE DEF list
<1>2. list = <<>> <=> len = 0
  BY <1>1, EmptySeq
<1>3. CASE list = <<>>
  <2>1. ReflectedIn(s) = 0 /\ Effective(n) = {}
    BY <1>1, <1>2, <1>3 DEF ReflectedIn
  <2> QED
    BY <2>1
<1>4. CASE list # <<>>
  <2>1. len \in 1..len /\ ReflectedIn(s) = list[len]
    BY <1>1, <1>2, <1>4 DEF ReflectedIn, Last
  <2>2. list[len] \in Effective(n)
    BY <1>1, <2>1, ElementOfSeq
  <2>3. \A k \in 1..len : list[k] \in Effective(n) /\ list[k] \in Nat
    <3>1. \A k \in 1..len : list[k] \in Effective(n)
      BY <1>1, ElementOfSeq
    <3>2. \A i \in Effective(n) : i \in Nat
      BY <1>1
    <3> QED
      BY <3>1, <3>2
  <2>4. ASSUME NEW i \in Effective(n) PROVE i <= list[len]
    <3>1. PICK k \in 1..len : list[k] = i
      BY <1>1
    <3>2. CASE k = len
      <4>1. i = list[len] /\ i \in Nat
        BY <2>3, <3>1, <3>2
      <4> QED
        BY <4>1
    <3>3. CASE k < len
      <4>1. list[k] < list[len] /\ list[k] \in Nat /\ list[len] \in Nat
        BY <1>1, <2>1, <2>3, <3>3
      <4> QED
        BY <3>1, <4>1
    <3>4. k = len \/ k < len
      BY <1>1
    <3> QED
      BY <3>2, <3>3, <3>4
  <2>5. list[len] \in 0..n
    BY <1>1, <2>2
  <2> QED
    BY <2>1, <2>2, <2>4, <2>5
<1> QED
  BY <1>3, <1>4

LEMMA EffectsGrow ==
  ASSUME NEW n \in Nat, NEW k \in Nat, n <= k, NEW s, NEW t, Reflects(s, n), Reflects(t, k)
  PROVE  /\ ReflectedIn(s) \in Nat /\ ReflectedIn(t) \in 0..k
         /\ ReflectedIn(s) <= ReflectedIn(t)
<1>1. ReflectedIn(s) \in 0..n /\ (ReflectedIn(s) = 0 \/ ReflectedIn(s) \in Effective(n))
  BY LastEffect
<1>2. ReflectedIn(t) \in 0..k /\ \A i \in Effective(k) : i <= ReflectedIn(t)
  BY LastEffect
<1>3. Effective(n) \subseteq Effective(k)
  BY DEF Effective
<1> QED
  BY <1>1, <1>2, <1>3

\* A step of the process records an input, or goes forward along the log, or is not
\* seen.
LEMMA JournalStep ==
  ASSUME OneProcess, ConsumerInv, HistoryInv, LevelInv, [Next]_vars
  PROVE  [LogAndState!Record \/ LogAndState!Advance]_<<stream, Reflected>>
<1>0. Len(stream) \in Nat
  BY HistoryFacts
<1>1. ASSUME NEW n \in 0..Len(stream), NEW k \in 0..Len(stream),
             Reflects(mem, n), Reflects(mem', k), n <= k, stream' = stream
      PROVE  [LogAndState!Record \/ LogAndState!Advance]_<<stream, Reflected>>
  <2>1. n \in Nat /\ k \in Nat /\ k <= Len(stream)
    BY <1>0
  <2>2. /\ ReflectedIn(mem) \in Nat /\ ReflectedIn(mem') \in 0..k
        /\ ReflectedIn(mem) <= ReflectedIn(mem')
    BY <1>1, <2>1, EffectsGrow
  <2>3. Reflected = ReflectedIn(mem) /\ Reflected' = ReflectedIn(mem')
    BY DEF Reflected, ReflectedIn
  <2>4. Reflected' = Reflected \/ Reflected' \in Reflected + 1 .. Len(stream)
    BY <1>0, <2>1, <2>2, <2>3
  <2> QED
    BY <1>1, <2>4 DEF LogAndState!Advance
<1>2. ASSUME mem' = mem, stream' = stream
      PROVE  [LogAndState!Record \/ LogAndState!Advance]_<<stream, Reflected>>
  BY <1>2 DEF Reflected
<1>3. ASSUME NEW m \in Messages, Add(m), UNCHANGED engineVars
      PROVE  [LogAndState!Record \/ LogAndState!Advance]_<<stream, Reflected>>
  <2>1. stream' = Append(stream, m) /\ Reflected' = Reflected
    BY <1>3 DEF Add, Reflected, engineVars
  <2> QED
    BY <2>1 DEF LogAndState!Record
<1>4. ASSUME NEW c \in Consumers, ProcessMessage(c)
      PROVE  [LogAndState!Record \/ LogAndState!Advance]_<<stream, Reflected>>
  <2>1. PICK n \in 0..Len(stream), k \in 0..Len(stream) :
          Reflects(mem, n) /\ Reflects(mem', k) /\ n <= k /\ stream' = stream
    BY <1>4, ProcessLevel
  <2> QED
    BY <1>1, <2>1
<1>5. ASSUME NEW c \in Consumers, CrashAndRecover(c)
      PROVE  [LogAndState!Record \/ LogAndState!Advance]_<<stream, Reflected>>
  <2>1. (\E loaded \in Loadable : mem' = Replay(loaded)) /\ stream' = stream
    BY <1>5 DEF CrashAndRecover, Crash
  <2>2. PICK n \in 0..Len(stream) : Reflects(mem, n)
    BY DEF LevelInv
  <2>3. Reflects(mem', Len(stream)) /\ Len(stream) \in 0..Len(stream) /\ n <= Len(stream)
    BY <1>0, <2>1, RecoveredLevel DEF OneProcess
  <2> QED
    BY <1>1, <2>1, <2>2, <2>3
<1>6. ASSUME NEW c \in Consumers, Run(c)
      PROVE  [LogAndState!Record \/ LogAndState!Advance]_<<stream, Reflected>>
  <2>1. ProcessMessage(c) \/ (mem' = mem /\ stream' = stream)
    BY <1>6 DEF Run, Consume, Claim, CountDeliveries, ReadNew, DeadLetter, AckMessage, SkipReplayed,
                Handle, RejectGarbled, Throw, Publish, FinishHandler, engineVars, consumerVars
  <2> QED
    BY <1>2, <1>4, <2>1
<1>7. ASSUME NEW c \in Consumers, PublishFails(c) \/ Disturb(c)
      PROVE  [LogAndState!Record \/ LogAndState!Advance]_<<stream, Reflected>>
  <2>1. mem' = mem /\ stream' = stream
    BY <1>7 DEF PublishFails, Throw, Disturb, AckFails, ReplyLost, LoopError, engineVars
  <2> QED
    BY <1>2, <2>1
<1>8. CASE BeginSave \/ (\E s \in saving : ContinueSave(s)) \/ UNCHANGED vars
  <2>1. mem' = mem /\ stream' = stream
    BY <1>8, SavesBeside DEF vars, consumerVars, engineVars
  <2> QED
    BY <1>2, <2>1
<1> QED
  BY <1>3, <1>5, <1>6, <1>7, <1>8 DEF Next

\* The engine process implements the journal: its state goes forward along the log,
\* and nothing that fails takes back what it showed.
THEOREM ProcessFollowsLog == OneProcess => (Safety => FollowsLog)
<1> SUFFICES ASSUME OneProcess PROVE Safety => FollowsLog
  OBVIOUS
<1>1. Init => LogAndState!Init
  BY GenesisKnown, HistoryStart, ConsumerStart, StreamTypes
     DEF Init, ConsumerInit, LogAndState!Init, Reflected, Genesis
<1>2. ConsumerInv /\ HistoryInv /\ LevelInv /\ [Next]_vars
        => [LogAndState!Record \/ LogAndState!Advance]_<<stream, Reflected>>
  BY JournalStep
<1>3. Safety => [](ConsumerInv /\ HistoryInv /\ LevelInv)
  BY LevelKept
<1> QED
  BY <1>1, <1>2, <1>3, PTL DEF Safety, FollowsLog, LogAndState!Spec
=============================================================================
