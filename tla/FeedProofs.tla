----------------------------- MODULE FeedProofs -----------------------------
(***************************************************************************)
(* Theorems about the WebSocket server: live entries in order and once,    *)
(* and no gap after a backfill, for any number of sockets, channels,       *)
(* entries, lost connections and restarts.                                 *)
(***************************************************************************)
EXTENDS FeedProperties, ListingProofs

-----------------------------------------------------------------------------
(* Queues of calls and of replies *)

LEMMA Places ==
  ASSUME NEW S, NEW q \in Seq(S)
  PROVE  /\ Len(q) \in Nat /\ DOMAIN q = 1..Len(q)
         /\ \A i \in DOMAIN q : q[i] \in S /\ q[i] \in ToSet(q)
         /\ \A e \in ToSet(q) : e \in S /\ \E i \in DOMAIN q : q[i] = e
<1>1. Len(q) \in Nat /\ DOMAIN q = 1..Len(q)
  BY LenProperties
<1>2. \A i \in DOMAIN q : q[i] \in S
  BY <1>1, ElementOfSeq
<1> QED
  BY <1>1, <1>2, Zenon DEF ToSet

LEMMA Empty == ToSet(<<>>) = {} /\ Reads(<<>>) = {} /\ Single(<<>>)
<1>1. DOMAIN <<>> = {}
  OBVIOUS
<1>2. ToSet(<<>>) = {}
  BY <1>1, Zenon DEF ToSet
<1> QED
  BY <1>1, <1>2, Zenon DEF Reads, Single

LEMMA Enqueued ==
  ASSUME NEW S, NEW q \in Seq(S), NEW e \in S
  PROVE  /\ Append(q, e) \in Seq(S)
         /\ ToSet(Append(q, e)) = ToSet(q) \cup {e}
         /\ Reads(Append(q, e)) = Reads(q) \cup (IF e.kind = "read" THEN {e} ELSE {})
         /\ Single(q) /\ (e.kind = "read" => Reads(q) = {}) => Single(Append(q, e))
<1> DEFINE new == Append(q, e)
<1>1. Len(q) \in Nat /\ DOMAIN q = 1..Len(q)
  BY Places
<1>2. /\ new \in Seq(S) /\ Len(new) = Len(q) + 1
      /\ \A i \in 1..Len(q) : new[i] = q[i]
      /\ new[Len(q) + 1] = e
  BY AppendProperties
<1>3. DOMAIN new = 1..Len(q) + 1
  BY <1>2, LenProperties
<1>4. /\ \A i \in DOMAIN new : i = Len(q) + 1 \/ (i \in DOMAIN q /\ new[i] = q[i])
      /\ \A i \in DOMAIN q : i \in DOMAIN new /\ new[i] = q[i]
      /\ Len(q) + 1 \in DOMAIN new
  BY <1>1, <1>2, <1>3
<1> HIDE DEF new
<1>5. ToSet(new) = ToSet(q) \cup {e}
  BY <1>2, <1>4, Zenon DEF ToSet
<1>6. Reads(new) = Reads(q) \cup (IF e.kind = "read" THEN {e} ELSE {})
  BY <1>5 DEF Reads
<1>7. ASSUME Single(q), e.kind = "read" => Reads(q) = {}
      PROVE  Single(new)
  <2>1. \A i \in DOMAIN q : e.kind = "read" => q[i].kind # "read"
    BY <1>7, Places DEF Reads
  <2> QED
    BY <1>2, <1>4, <1>7, <2>1 DEF Single
<1> QED
  BY <1>2, <1>5, <1>6, <1>7 DEF new

LEMMA Dequeued ==
  ASSUME NEW S, NEW q \in Seq(S), q # <<>>
  PROVE  /\ Tail(q) \in Seq(S)
         /\ Head(q) \in S /\ Head(q) \in ToSet(q)
         /\ ToSet(q) = {Head(q)} \cup ToSet(Tail(q))
         /\ Reads(q) = Reads(Tail(q)) \cup (IF Head(q).kind = "read" THEN {Head(q)} ELSE {})
         /\ Single(q) => /\ Single(Tail(q))
                         /\ Head(q).kind = "read" => Reads(Tail(q)) = {}
<1> DEFINE rest == Tail(q)
           first == Head(q)
<1>1. Len(q) \in Nat /\ DOMAIN q = 1..Len(q) /\ Len(q) # 0
  BY Places, EmptySeq
<1>2. /\ rest \in Seq(S) /\ Len(rest) = Len(q) - 1
      /\ \A i \in 1..Len(rest) : rest[i] = q[i + 1]
      /\ first = q[1] /\ first \in S
  BY HeadTailProperties, ElementOfSeq, <1>1
<1>3. DOMAIN rest = 1..Len(q) - 1
  BY <1>2, LenProperties
<1>4. /\ \A i \in DOMAIN rest : i + 1 \in DOMAIN q /\ rest[i] = q[i + 1] /\ i + 1 # 1
      /\ \A i \in DOMAIN q : i = 1 \/ (i - 1 \in DOMAIN rest /\ rest[i - 1] = q[i])
      /\ \A i, j \in DOMAIN rest : i + 1 = j + 1 => i = j
      /\ 1 \in DOMAIN q
  BY <1>1, <1>2, <1>3
<1> HIDE DEF rest, first
<1>5. ToSet(q) = {first} \cup ToSet(rest)
  <2>0. \A i \in DOMAIN rest : rest[i] \in ToSet(rest)
    BY Zenon DEF ToSet
  <2>1. \A e \in ToSet(q) : e \in {first} \cup ToSet(rest)
    <3>1. \A i \in DOMAIN q : q[i] \in {first} \cup ToSet(rest)
      BY <1>2, <1>4, <2>0
    <3> QED
      BY <3>1, Zenon DEF ToSet
  <2>2. first \in ToSet(q)
    BY <1>2, <1>4, Zenon DEF ToSet
  <2>3. \A i \in DOMAIN rest : rest[i] \in ToSet(q)
    BY <1>4, Zenon DEF ToSet
  <2>4. \A e \in ToSet(rest) : e \in ToSet(q)
    BY <2>3, Zenon DEF ToSet
  <2> QED
    BY <2>1, <2>2, <2>4
<1>6. Reads(q) = Reads(rest) \cup (IF first.kind = "read" THEN {first} ELSE {})
  BY <1>5 DEF Reads
<1>7. ASSUME Single(q)
      PROVE  Single(rest) /\ (first.kind = "read" => Reads(rest) = {})
  <2>1. Single(rest)
    BY <1>4, <1>7 DEF Single
  <2>2. ASSUME first.kind = "read", NEW e \in Reads(rest)
        PROVE  FALSE
    <3>1. e.kind = "read" /\ e \in ToSet(rest)
      BY <2>2 DEF Reads
    <3>2. PICK i \in DOMAIN rest : rest[i] = e
      BY <3>1, Zenon DEF ToSet
    <3> QED
      BY <1>2, <1>4, <1>7, <2>2, <3>1, <3>2 DEF Single
  <2> QED
    BY <2>1, <2>2
<1> QED
  BY <1>2, <1>5, <1>6, <1>7 DEF rest, first

LEMMA Pushed ==
  ASSUME NEW S, NEW q \in Seq(S), NEW e \in S, Reads(q) = {}
  PROVE  /\ <<e>> \o q \in Seq(S)
         /\ ToSet(<<e>> \o q) = {e} \cup ToSet(q)
         /\ Reads(<<e>> \o q) = IF e.kind = "read" THEN {e} ELSE {}
         /\ Single(<<e>> \o q)
<1> DEFINE new == <<e>> \o q
<1>1. Len(q) \in Nat /\ DOMAIN q = 1..Len(q)
  BY Places
<1>2. <<e>> \in Seq(S) /\ Len(<<e>>) = 1 /\ <<e>>[1] = e
  OBVIOUS
<1>3. /\ new \in Seq(S) /\ Len(new) = 1 + Len(q)
      /\ \A i \in 1..1 + Len(q) : new[i] = IF i <= 1 THEN <<e>>[i] ELSE q[i - 1]
  BY <1>2, ConcatProperties
<1>4. DOMAIN new = 1..1 + Len(q)
  BY <1>3, LenProperties
<1>5. /\ \A i \in DOMAIN new : (i = 1 /\ new[i] = e) \/ (i - 1 \in DOMAIN q /\ new[i] = q[i - 1])
      /\ \A i \in DOMAIN q : i + 1 \in DOMAIN new /\ new[i + 1] = q[i]
      /\ 1 \in DOMAIN new /\ new[1] = e
  BY <1>1, <1>2, <1>3, <1>4
<1> HIDE DEF new
<1>6. ToSet(new) = {e} \cup ToSet(q)
  <2>1. \A d \in ToSet(new) : d \in {e} \cup ToSet(q)
    <3>1. \A i \in DOMAIN new : new[i] \in {e} \cup ToSet(q)
      BY <1>5, Places
    <3> QED
      BY <3>1, Zenon DEF ToSet
  <2>2. e \in ToSet(new)
    BY <1>5, Zenon DEF ToSet
  <2>3. \A i \in DOMAIN q : q[i] \in ToSet(new)
    BY <1>5, Zenon DEF ToSet
  <2>4. \A d \in ToSet(q) : d \in ToSet(new)
    BY <2>3, Zenon DEF ToSet
  <2> QED
    BY <2>1, <2>2, <2>4
<1>7. Reads(new) = IF e.kind = "read" THEN {e} ELSE {}
  BY <1>6 DEF Reads
<1>8. \A i \in DOMAIN q : q[i].kind # "read"
  BY Places DEF Reads
<1>9. Single(new)
  BY <1>5, <1>8 DEF Single
<1> QED
  BY <1>3, <1>6, <1>7, <1>9 DEF new

\* Entries that are published after older ones.
LEMMA Published ==
  ASSUME NEW l \in Seq(Nat), NEW ids \in SUBSET Nat, IsFiniteSet(ids),
         \A i, j \in DOMAIN l : i < j => l[i] < l[j],
         \A old \in ToSet(l), new \in ids : old < new
  PROVE  LET all == l \o Ascending(ids) IN
         /\ all \in Seq(Nat)
         /\ ToSet(all) = ToSet(l) \cup ids
         /\ \A i, j \in DOMAIN all : i < j => all[i] < all[j]
<1> DEFINE more == Ascending(ids)
           all == l \o more
<1>1. /\ more \in Seq(ids)
      /\ \A i \in ids : \E k \in 1..Len(more) : more[k] = i
      /\ \A j, k \in 1..Len(more) : j < k => more[j] < more[k]
  BY AscendingLists
<1>2. Len(more) \in Nat /\ DOMAIN more = 1..Len(more) /\ \A k \in DOMAIN more : more[k] \in ids /\ more[k] \in Nat
  BY <1>1, Places
<1>3. Len(l) \in Nat /\ DOMAIN l = 1..Len(l) /\ \A k \in DOMAIN l : l[k] \in ToSet(l) /\ l[k] \in Nat
  BY Places
<1> HIDE DEF more
<1>4. more \in Seq(Nat)
  BY <1>1, SeqMonotonic, Zenon
<1>5. /\ all \in Seq(Nat) /\ Len(all) = Len(l) + Len(more)
      /\ \A i \in 1..Len(l) + Len(more) : all[i] = IF i <= Len(l) THEN l[i] ELSE more[i - Len(l)]
  BY <1>4, ConcatProperties
<1>6. DOMAIN all = 1..Len(l) + Len(more)
  BY <1>5, LenProperties
<1>7. /\ \A i \in DOMAIN all :
           \/ i \in DOMAIN l /\ all[i] = l[i] /\ i <= Len(l)
           \/ i - Len(l) \in DOMAIN more /\ all[i] = more[i - Len(l)] /\ i > Len(l)
      /\ \A i \in DOMAIN l : i \in DOMAIN all /\ all[i] = l[i]
      /\ \A k \in DOMAIN more : k + Len(l) \in DOMAIN all /\ all[k + Len(l)] = more[k]
  BY <1>2, <1>3, <1>5, <1>6
<1> HIDE DEF all
<1>8. ToSet(all) = ToSet(l) \cup ids
  <2>1. \A e \in ToSet(all) : e \in ToSet(l) \cup ids
    BY <1>2, <1>3, <1>7, Zenon DEF ToSet
  <2>2. \A e \in ToSet(l) : e \in ToSet(all)
    BY <1>7, Zenon DEF ToSet
  <2>3. \A e \in ids : e \in ToSet(all)
    BY <1>1, <1>2, <1>7, Zenon DEF ToSet
  <2> QED
    BY <2>1, <2>2, <2>3
<1>9. ASSUME NEW i \in DOMAIN all, NEW j \in DOMAIN all, i < j
      PROVE  all[i] < all[j]
  <2>0. i \in Nat /\ j \in Nat
    BY <1>2, <1>3, <1>6
  <2>1. CASE j \in DOMAIN l /\ all[j] = l[j] /\ j <= Len(l)
    BY <1>3, <1>7, <1>9, <2>0, <2>1
  <2>2. CASE j - Len(l) \in DOMAIN more /\ all[j] = more[j - Len(l)] /\ j > Len(l)
    <3>1. CASE i \in DOMAIN l /\ all[i] = l[i]
      BY <1>2, <1>3, <2>2, <3>1
    <3>2. CASE i - Len(l) \in DOMAIN more /\ all[i] = more[i - Len(l)]
      <4>1. i - Len(l) < j - Len(l)
        BY <1>3, <1>9, <2>0
      <4> QED
        BY <1>1, <1>2, <2>2, <3>2, <4>1
    <3> QED
      BY <1>7, <3>1, <3>2
  <2> QED
    BY <1>7, <2>1, <2>2
<1> QED
  BY <1>5, <1>8, <1>9 DEF all, more

-----------------------------------------------------------------------------
(* Facts about the invariant *)

LEMMA FeedTypes ==
  ASSUME FeedTypeOK
  PROVE  /\ Len(output) \in Nat /\ DOMAIN output = 1..Len(output)
         /\ calls \in Seq(Call) /\ replies \in Seq(Answer)
         /\ \A s \in Sockets :
              /\ channels[s] \in SUBSET Channels /\ live[s] \in Seq(Nat) /\ filled[s] \in SUBSET Nat
              /\ \A ch \in Channels : owed[s][ch] \in Nat \cup {Null}
         /\ \A call \in ToSet(calls) : call \in Call
         /\ \A reply \in ToSet(replies) : reply \in Answer
<1>1. /\ output \in Seq(Entries)
      /\ calls \in Seq(Call) /\ replies \in Seq(Answer)
      /\ channels \in [Sockets -> SUBSET Channels]
      /\ live \in [Sockets -> Seq(Nat)]
      /\ filled \in [Sockets -> SUBSET Nat]
      /\ owed \in [Sockets -> [Channels -> Nat \cup {Null}]]
  BY DEF FeedTypeOK
<1>2. Len(output) \in Nat /\ DOMAIN output = 1..Len(output)
  BY <1>1, Places
<1>3. \A call \in ToSet(calls) : call \in Call
  BY <1>1, Places
<1>4. \A reply \in ToSet(replies) : reply \in Answer
  BY <1>1, Places
<1>5. \A s \in Sockets :
        /\ channels[s] \in SUBSET Channels /\ live[s] \in Seq(Nat) /\ filled[s] \in SUBSET Nat
        /\ owed[s] \in [Channels -> Nat \cup {Null}]
  BY <1>1, Zenon
<1> QED
  BY <1>1, <1>2, <1>3, <1>4, <1>5

LEMMA CallTypes ==
  /\ \A from \in Nat \cup {Dollar} : ReadCall(from) \in Call
  /\ \A s \in Sockets, from \in Nat : RangeCall(s, from) \in Call
BY DEF Call, ReadCall, RangeCall

LEMMA CallFields ==
  ASSUME NEW call \in Call
  PROVE  /\ call.kind \in {"read", "range"}
         /\ call.kind = "read" => call.from \in Nat \cup {Dollar} /\ call.socket = Null
         /\ call.kind = "range" => call.from \in Nat /\ call.socket \in Sockets
BY DEF Call

\* Nothing changes for the loop.
LEMMA LoopSame ==
  ASSUME LoopInv, UNCHANGED <<output, calls, replies, lastId>>
  PROVE  LoopInv'
BY DEF LoopInv, OneRead, Reads, Single, ToSet

LEMMA LiveSame ==
  ASSUME LiveInv, UNCHANGED <<live, lastId>>
  PROVE  LiveInv'
BY DEF LiveInv, LiveInOrder, ToSet

\* What is owed stays covered, as long as the stream does not grow.
LEMMA OwedKept ==
  ASSUME FeedTypeOK, OwedInv, output' = output,
         \A s \in Sockets, ch \in Channels : owed'[s][ch] # Null =>
           /\ owed'[s][ch] = owed[s][ch] /\ s \in open' /\ ch \in channels'[s]
           /\ \A id \in 1..Len(output) :
                output[id] = Topic(s, ch) /\ Covered(s, id) => Covered(s, id)'
  PROVE  OwedInv'
<1> SUFFICES ASSUME NEW s \in Sockets, NEW ch \in Channels, owed'[s][ch] # Null
             PROVE  /\ s \in open' /\ ch \in channels'[s]
                    /\ \A id \in owed'[s][ch] + 1 .. Len(output') :
                         output'[id] = Topic(s, ch) => Covered(s, id)'
  BY DEF OwedInv, Topic
<1>1. /\ owed'[s][ch] = owed[s][ch] /\ s \in open' /\ ch \in channels'[s]
      /\ \A id \in 1..Len(output) :
           output[id] = Topic(s, ch) /\ Covered(s, id) => Covered(s, id)'
  OBVIOUS
<1>2. \A id \in owed[s][ch] + 1 .. Len(output) : output[id] = Topic(s, ch) => Covered(s, id)
  BY <1>1 DEF OwedInv
<1>3. owed[s][ch] \in Nat /\ Len(output) \in Nat
  BY <1>1, FeedTypes
<1>4. \A id \in owed[s][ch] + 1 .. Len(output) : id \in 1..Len(output)
  BY <1>3
<1> QED
  BY <1>1, <1>2, <1>4

\* Whether an entry will be read depends on the loop and its connection only.
LEMMA AheadSame ==
  ASSUME NEW id, Reads(calls') = Reads(calls), Reads(replies') = Reads(replies), lastId' = lastId
  PROVE  Ahead(id) <=> Ahead(id)'
BY DEF Ahead, Reads

LEMMA CoveredKept ==
  ASSUME NEW s, NEW id, Covered(s, id),
         Known(s) \subseteq Known(s)', unheard \subseteq unheard',
         Filling(s, id) => Filling(s, id)', Ahead(id) => Ahead(id)'
  PROVE  Covered(s, id)'
BY DEF Covered

-----------------------------------------------------------------------------
(* The handlers of a socket, and the engine *)

LEMMA EmitStep ==
  ASSUME FeedInv, NEW topic \in Entries, Emit(topic)
  PROVE  FeedInv'
<1> USE DEF FeedInv
<1>1. /\ output' = Append(output, topic)
      /\ unheard' = IF Hearing THEN unheard ELSE unheard \cup {Len(output) + 1}
      /\ calls' = calls /\ replies' = replies /\ lastId' = lastId
      /\ open' = open /\ channels' = channels /\ live' = live /\ filled' = filled /\ owed' = owed
  BY DEF Emit, socketVars
<1>2. /\ Len(output) \in Nat /\ output \in Seq(Entries)
      /\ output' \in Seq(Entries) /\ Len(output') = Len(output) + 1
      /\ \A id \in 1..Len(output) : output'[id] = output[id]
  BY <1>1, FeedTypes, AppendProperties DEF FeedTypeOK
<1>3. FeedTypeOK'
  BY <1>1, <1>2 DEF FeedTypeOK, Call, Answer
<1>4. LoopInv'
  <2>1. OneRead' /\ (lastId # Dollar => lastId <= Len(output'))
    <3>1. lastId # Dollar => lastId \in Nat /\ lastId <= Len(output)
      BY DEF FeedTypeOK, LoopInv
    <3>2. OneRead'
      BY <1>1 DEF LoopInv, OneRead, Reads, Single, ToSet
    <3> QED
      BY <1>2, <3>1, <3>2
  <2>2. \A call \in Reads(calls) :
          call.from = lastId \/ (lastId = Dollar /\ call.from \in 0..Len(output'))
    BY <1>2 DEF LoopInv
  <2>3. \A reply \in ToSet(replies) : \E first \in 1..Len(output') + 1, last \in 0..Len(output') :
          /\ reply.ids = first..last
          /\ reply.kind = "read" /\ lastId # Dollar => first = lastId + 1
    <3> TAKE reply \in ToSet(replies)
    <3>1. PICK first \in 1..Len(output) + 1, last \in 0..Len(output) :
            /\ reply.ids = first..last
            /\ reply.kind = "read" /\ lastId # Dollar => first = lastId + 1
      BY DEF LoopInv
    <3>2. first \in 1..Len(output') + 1 /\ last \in 0..Len(output')
      BY <1>2
    <3> QED
      BY <3>1, <3>2
  <2> QED
    BY <1>1, <2>1, <2>2, <2>3 DEF LoopInv, Reads
<1>5. LiveInv'
  BY <1>1, LiveSame
<1>6. OwedInv'
  <2> SUFFICES ASSUME NEW s \in Sockets, NEW ch \in Channels, owed[s][ch] # Null
               PROVE  /\ s \in open /\ ch \in channels[s]
                      /\ \A id \in owed[s][ch] + 1 .. Len(output') :
                           output'[id] = Topic(s, ch) => Covered(s, id)'
    BY <1>1 DEF OwedInv, Topic
  <2>1. s \in open /\ ch \in channels[s]
    BY DEF OwedInv
  <2>2. owed[s][ch] \in Nat
    BY FeedTypes
  <2>3. \A id \in owed[s][ch] + 1 .. Len(output) : output'[id] = Topic(s, ch) => Covered(s, id)'
    <3> TAKE id \in owed[s][ch] + 1 .. Len(output)
    <3> HAVE output'[id] = Topic(s, ch)
    <3>1. id \in 1..Len(output)
      BY <1>2, <2>2
    <3>2. Covered(s, id)
      BY <1>2, <3>1 DEF OwedInv
    <3>3. Ahead(id)' <=> Ahead(id)
      BY <1>1 DEF Ahead, Reads
    <3>4. Known(s)' = Known(s) /\ unheard \subseteq unheard' /\ (Filling(s, id) <=> Filling(s, id)')
      BY <1>1 DEF Known, Filling
    <3> QED
      BY <3>2, <3>3, <3>4, CoveredKept
  <2>new. PICK new \in Nat : new = Len(output) + 1
    BY <1>2
  <2>4. Covered(s, new)'
    <3>1. CASE ~Hearing
      BY <1>1, <2>new, <3>1 DEF Covered
    <3>2. CASE Hearing
      <4>1. CASE lastId # Dollar
        BY <1>1, <1>2, <2>new, <4>1 DEF Covered, Ahead, LoopInv, FeedTypeOK
      <4>2. CASE lastId = Dollar
        <5>1. \A i, j \in DOMAIN calls : calls[i].kind = "read" /\ calls[j].kind = "read" => i = j
          BY DEF LoopInv, OneRead, Single
        <5>2. \A c, d \in Reads(calls) : c = d
          BY <5>1, Zenon DEF Reads, ToSet
        <5>3. \A i, j \in DOMAIN replies : replies[i].kind = "read" /\ replies[j].kind = "read" => i = j
          BY DEF LoopInv, OneRead, Single
        <5>4. \A c, d \in Reads(replies) : c = d
          BY <5>3, Zenon DEF Reads, ToSet
        <5>5. Reads(calls) = {} \/ Reads(replies) = {}
          BY DEF LoopInv, OneRead
        <5>6. \/ \E call \in Reads(calls) : call.from # Dollar
              \/ \E reply \in Reads(replies) : reply.ids # {}
          BY <3>2, <4>2 DEF Hearing, Reads
        <5>7. CASE \E call \in Reads(calls) : call.from # Dollar
          <6>1. PICK call \in Reads(calls) : call.from # Dollar
            BY <5>7
          <6>2. call.from \in 0..Len(output)
            BY <4>2, <6>1 DEF LoopInv
          <6>3. Reads(replies) = {} /\ \A c \in Reads(calls) : c = call
            BY <5>2, <5>5, <6>1
          <6>4. \A c \in Reads(calls) : c.from # Dollar /\ new > c.from
            BY <1>2, <2>new, <6>1, <6>2, <6>3
          <6> QED
            BY <1>1, <4>2, <6>3, <6>4 DEF Covered, Ahead, Reads
        <5>8. CASE \E reply \in Reads(replies) : reply.ids # {}
          <6>1. PICK reply \in Reads(replies) : reply.ids # {}
            BY <5>8
          <6>2. Reads(calls) = {} /\ \A c \in Reads(replies) : c = reply
            BY <5>4, <5>5, <6>1
          <6>3. PICK first \in 1..Len(output) + 1, last \in 0..Len(output) : reply.ids = first..last
            BY <6>1 DEF LoopInv, Reads
          <6>4. first \in reply.ids /\ first <= new
            BY <1>2, <2>new, <6>1, <6>3
          <6> QED
            BY <1>1, <4>2, <6>2, <6>4 DEF Covered, Ahead, Reads
        <5> QED
          BY <5>6, <5>7, <5>8
      <4> QED
        BY <4>1, <4>2
    <3> QED
      BY <3>1, <3>2
  <2>5. \A id \in owed[s][ch] + 1 .. Len(output') : id \in owed[s][ch] + 1 .. Len(output) \/ id = Len(output) + 1
    BY <1>2, <2>2
  <2> QED
    BY <2>1, <2>3, <2>4, <2>5, <2>new
<1> QED
  BY <1>3, <1>4, <1>5, <1>6

\* A handler that leaves the connection alone, adds no debt, and takes nothing
\* from a socket to which something is owed.
LEMMA SocketStep ==
  ASSUME FeedInv, UNCHANGED <<output, calls, replies, lastId, unheard>>, FeedTypeOK', LiveInv',
         \A s \in Sockets, ch \in Channels : owed'[s][ch] # Null =>
           /\ owed'[s][ch] = owed[s][ch] /\ s \in open' /\ ch \in channels'[s]
           /\ live'[s] = live[s] /\ filled'[s] = filled[s]
  PROVE  FeedInv'
<1>1. LoopInv'
  BY LoopSame DEF FeedInv
<1>2. OwedInv'
  <2>1. \A s \in Sockets, ch \in Channels : owed'[s][ch] # Null =>
          /\ owed'[s][ch] = owed[s][ch] /\ s \in open' /\ ch \in channels'[s]
          /\ \A id \in 1..Len(output) :
               output[id] = Topic(s, ch) /\ Covered(s, id) => Covered(s, id)'
    <3> TAKE s \in Sockets, ch \in Channels
    <3> HAVE owed'[s][ch] # Null
    <3>1. ASSUME NEW id \in 1..Len(output), Covered(s, id)
          PROVE  Covered(s, id)'
      <4>1. Ahead(id)' <=> Ahead(id)
        BY DEF Ahead, Reads
      <4>2. Known(s)' = Known(s) /\ unheard' = unheard /\ (Filling(s, id) <=> Filling(s, id)')
        BY DEF Known, Filling
      <4> QED
        BY <3>1, <4>1, <4>2, CoveredKept
    <3> QED
      BY <3>1
  <2> QED
    BY <2>1, OwedKept DEF FeedInv
<1> QED
  BY <1>1, <1>2 DEF FeedInv

LEMMA OpenStep ==
  ASSUME FeedInv, NEW s \in Sockets, Open(s)
  PROVE  FeedInv'
<1>1. /\ open' = open \cup {s}
      /\ UNCHANGED <<output, calls, replies, lastId, channels, live, filled, owed, unheard>>
  BY DEF Open
<1>2. FeedTypeOK'
  BY <1>1 DEF FeedInv, FeedTypeOK, Call, Answer
<1>3. LiveInv'
  BY <1>1, LiveSame DEF FeedInv
<1>4. \A t \in Sockets, ch \in Channels : owed[t][ch] # Null => t \in open' /\ ch \in channels[t]
  BY <1>1 DEF FeedInv, OwedInv
<1> QED
  BY <1>1, <1>2, <1>3, <1>4, SocketStep

LEMMA GoneStep ==
  ASSUME FeedTypeOK, LiveInOrder, NEW sockets \in SUBSET Sockets, Gone(sockets)
  PROVE  /\ open' \subseteq Sockets
         /\ channels' \in [Sockets -> SUBSET Channels]
         /\ live' \in [Sockets -> Seq(Nat)]
         /\ filled' \in [Sockets -> SUBSET Nat]
         /\ owed' \in [Sockets -> [Channels -> Nat \cup {Null}]]
         /\ LiveInOrder'
         /\ \A s \in Sockets \ sockets :
              /\ s \in open => s \in open'
              /\ channels'[s] = channels[s] /\ live'[s] = live[s]
              /\ filled'[s] = filled[s] /\ owed'[s] = owed[s]
         /\ \A s \in sockets : s \notin open' /\ live'[s] = <<>> /\ \A ch \in Channels : owed'[s][ch] = Null
<1>1. /\ open' = open \ sockets
      /\ channels' = [s \in Sockets |-> IF s \in sockets THEN {} ELSE channels[s]]
      /\ live' = [s \in Sockets |-> IF s \in sockets THEN <<>> ELSE live[s]]
      /\ filled' = [s \in Sockets |-> IF s \in sockets THEN {} ELSE filled[s]]
      /\ owed' = [s \in Sockets |-> IF s \in sockets THEN NothingOwed ELSE owed[s]]
  BY DEF Gone
<1>2. NothingOwed \in [Channels -> Nat \cup {Null}] /\ \A ch \in Channels : NothingOwed[ch] = Null
  BY DEF NothingOwed
<1>3. \A s \in Sockets :
        /\ channels[s] \in SUBSET Channels /\ live[s] \in Seq(Nat) /\ filled[s] \in SUBSET Nat
        /\ owed[s] \in [Channels -> Nat \cup {Null}]
  BY Zenon DEF FeedTypeOK
<1>4. <<>> \in Seq(Nat) /\ DOMAIN <<>> = {}
  OBVIOUS
<1>5. live' \in [Sockets -> Seq(Nat)]
  BY <1>1, <1>3, <1>4, Zenon
<1>6. /\ channels' \in [Sockets -> SUBSET Channels]
      /\ filled' \in [Sockets -> SUBSET Nat]
      /\ owed' \in [Sockets -> [Channels -> Nat \cup {Null}]]
  BY <1>1, <1>2, <1>3
<1>7. /\ \A s \in Sockets \ sockets :
           /\ channels'[s] = channels[s] /\ live'[s] = live[s]
           /\ filled'[s] = filled[s] /\ owed'[s] = owed[s]
      /\ \A s \in sockets : live'[s] = <<>> /\ owed'[s] = NothingOwed
  BY <1>1, Zenon
<1>8. LiveInOrder'
  BY <1>4, <1>7 DEF LiveInOrder
<1> QED
  BY <1>1, <1>2, <1>5, <1>6, <1>7, <1>8 DEF FeedTypeOK

LEMMA CloseStep ==
  ASSUME FeedInv, NEW s \in Sockets, Close(s)
  PROVE  FeedInv'
<1>1. Gone({s}) /\ UNCHANGED <<output, calls, replies, lastId, unheard>>
  BY DEF Close
<1>2. /\ open' \subseteq Sockets
      /\ channels' \in [Sockets -> SUBSET Channels]
      /\ live' \in [Sockets -> Seq(Nat)]
      /\ filled' \in [Sockets -> SUBSET Nat]
      /\ owed' \in [Sockets -> [Channels -> Nat \cup {Null}]]
      /\ LiveInOrder'
      /\ \A t \in Sockets \ {s} :
           /\ t \in open => t \in open'
           /\ channels'[t] = channels[t] /\ live'[t] = live[t]
           /\ filled'[t] = filled[t] /\ owed'[t] = owed[t]
      /\ live'[s] = <<>> /\ \A ch \in Channels : owed'[s][ch] = Null
  BY <1>1, GoneStep DEF FeedInv, LiveInv
<1>3. FeedTypeOK'
  BY <1>1, <1>2 DEF FeedInv, FeedTypeOK, Call, Answer
<1>4. LiveInv'
  <2>1. \A t \in Sockets : \A id \in ToSet(live'[t]) : t # s /\ id \in ToSet(live[t])
    BY <1>2, Empty
  <2>2. \A t \in Sockets : \A id \in ToSet(live'[t]) : lastId' # Dollar /\ id <= lastId'
    BY <1>1, <2>1 DEF FeedInv, LiveInv
  <2> QED
    BY <1>2, <2>2 DEF LiveInv, ToSet
<1>5. \A t \in Sockets, ch \in Channels : owed'[t][ch] # Null =>
        /\ owed'[t][ch] = owed[t][ch] /\ t \in open' /\ ch \in channels'[t]
        /\ live'[t] = live[t] /\ filled'[t] = filled[t]
  <2> SUFFICES ASSUME NEW t \in Sockets, NEW ch \in Channels, owed'[t][ch] # Null
               PROVE  /\ owed'[t][ch] = owed[t][ch] /\ t \in open' /\ ch \in channels'[t]
                      /\ live'[t] = live[t] /\ filled'[t] = filled[t]
    OBVIOUS
  <2>1. t \in Sockets \ {s}
    BY <1>2
  <2>2. owed[t][ch] # Null /\ owed'[t] = owed[t]
    BY <1>2, <2>1
  <2>3. t \in open /\ ch \in channels[t]
    BY <2>2 DEF FeedInv, OwedInv
  <2> QED
    BY <1>2, <2>1, <2>2, <2>3
<1> QED
  BY <1>1, <1>3, <1>4, <1>5, SocketStep

LEMMA GrantedChannels ==
  ASSUME FeedTypeOK, NEW s \in Sockets, NEW ch \in Channels, NEW old \in [Sockets -> SUBSET Channels]
  PROVE  [old EXCEPT ![s] = @ \cup Granted(s, ch)] \in [Sockets -> SUBSET Channels]
BY DEF Granted

LEMMA SubscribeStep ==
  ASSUME FeedInv, NEW s \in Sockets, NEW ch \in Channels, Subscribe(s, ch)
  PROVE  FeedInv'
<1>1. /\ channels' = [channels EXCEPT ![s] = @ \cup Granted(s, ch)]
      /\ UNCHANGED <<output, calls, replies, lastId, open, live, filled, owed, unheard>>
  BY DEF Subscribe
<1>2. channels \in [Sockets -> SUBSET Channels]
  BY DEF FeedInv, FeedTypeOK
<1>3. channels' \in [Sockets -> SUBSET Channels]
  BY <1>1, <1>2, GrantedChannels DEF FeedInv
<1>4. FeedTypeOK'
  BY <1>1, <1>3 DEF FeedInv, FeedTypeOK, Call, Answer
<1>5. LiveInv'
  BY <1>1, LiveSame DEF FeedInv
<1>6. \A t \in Sockets : channels[t] \subseteq channels'[t]
  BY <1>1, <1>2
<1>7. \A t \in Sockets, c \in Channels : owed[t][c] # Null => t \in open /\ c \in channels'[t]
  BY <1>6 DEF FeedInv, OwedInv
<1> QED
  BY <1>1, <1>4, <1>5, <1>7, SocketStep

LEMMA UnsubscribeStep ==
  ASSUME FeedInv, NEW s \in Sockets, NEW ch \in Channels, Unsubscribe(s, ch)
  PROVE  FeedInv'
<1>1. /\ channels' = [channels EXCEPT ![s] = @ \ {ch}]
      /\ owed' = [owed EXCEPT ![s][ch] = Null]
      /\ UNCHANGED <<output, calls, replies, lastId, open, live, filled, unheard>>
  BY DEF Unsubscribe
<1>2. channels \in [Sockets -> SUBSET Channels] /\ owed \in [Sockets -> [Channels -> Nat \cup {Null}]]
  BY DEF FeedInv, FeedTypeOK
<1>3. channels' \in [Sockets -> SUBSET Channels] /\ owed' \in [Sockets -> [Channels -> Nat \cup {Null}]]
  BY <1>1, <1>2
<1>4. FeedTypeOK'
  BY <1>1, <1>3 DEF FeedInv, FeedTypeOK, Call, Answer
<1>5. LiveInv'
  BY <1>1, LiveSame DEF FeedInv
<1>6. \A t \in Sockets, c \in Channels : owed'[t][c] # Null =>
        /\ owed'[t][c] = owed[t][c]
        /\ c \in channels[t] => c \in channels'[t]
  BY <1>1, <1>2
<1>7. \A t \in Sockets, c \in Channels : owed'[t][c] # Null =>
        owed'[t][c] = owed[t][c] /\ t \in open /\ c \in channels'[t]
  BY <1>6 DEF FeedInv, OwedInv
<1> QED
  BY <1>1, <1>4, <1>5, <1>7, SocketStep

LEMMA SinceStep ==
  ASSUME FeedInv, NEW s \in Sockets, NEW ch \in Channels, NEW since \in 0..MaxEvents,
         SubscribeSince(s, ch, since)
  PROVE  FeedInv'
<1> USE DEF FeedInv
<1> DEFINE call == RangeCall(s, since)
<1>1. /\ s \in open /\ since <= Len(output)
      /\ channels' = [channels EXCEPT ![s] = @ \cup Granted(s, ch)]
      /\ calls' = Append(calls, call)
      /\ owed' = [owed EXCEPT ![s] =
           [c \in Channels |->
              IF c \in channels'[s] /\ Len(output) - since <= BackfillCount THEN since ELSE Null]]
      /\ UNCHANGED <<output, replies, lastId, open, live, filled, unheard>>
  BY DEF SubscribeSince
<1>2. /\ since \in Nat /\ Len(output) \in Nat /\ BackfillCount \in Nat
      /\ channels \in [Sockets -> SUBSET Channels] /\ owed \in [Sockets -> [Channels -> Nat \cup {Null}]]
  BY FeedTypes, FeedAssumption DEF FeedTypeOK
<1>3. call \in Call /\ call.kind = "range" /\ call.socket = s /\ call.from = since
  BY <1>2, CallTypes DEF RangeCall
<1> HIDE DEF call
<1>4. /\ calls' \in Seq(Call)
      /\ ToSet(calls') = ToSet(calls) \cup {call}
      /\ Reads(calls') = Reads(calls)
      /\ Single(calls')
  <2>1. Single(calls) /\ calls \in Seq(Call)
    BY DEF LoopInv, OneRead, FeedTypeOK
  <2>2. /\ Append(calls, call) \in Seq(Call)
        /\ ToSet(Append(calls, call)) = ToSet(calls) \cup {call}
        /\ Reads(Append(calls, call)) = Reads(calls) \cup (IF call.kind = "read" THEN {call} ELSE {})
        /\ call.kind # "read" => Single(Append(calls, call))
    BY <1>3, <2>1, Enqueued, ZenonT(40)
  <2>3. call.kind # "read"
    BY <1>3
  <2> QED
    BY <1>1, <2>2, <2>3
<1>5. channels' \in [Sockets -> SUBSET Channels] /\ \A t \in Sockets : channels[t] \subseteq channels'[t]
  BY <1>1, <1>2, GrantedChannels
<1>6. owed' \in [Sockets -> [Channels -> Nat \cup {Null}]]
  <2> DEFINE mine == [c \in Channels |->
              IF c \in channels'[s] /\ Len(output) - since <= BackfillCount THEN since ELSE Null]
  <2>1. mine \in [Channels -> Nat \cup {Null}]
    BY <1>2
  <2>2. owed' = [owed EXCEPT ![s] = mine]
    BY <1>1
  <2> HIDE DEF mine
  <2> QED
    BY <1>2, <2>1, <2>2
<1>7. FeedTypeOK'
  BY <1>1, <1>4, <1>5, <1>6 DEF FeedTypeOK, Call, Answer
<1>8. LoopInv'
  <2>0. Single(calls') /\ Single(replies) /\ (Reads(calls') = {} \/ Reads(replies) = {})
    BY <1>4 DEF LoopInv, OneRead
  <2>1. OneRead'
    BY <1>1, <2>0 DEF OneRead, Reads, Single, ToSet
  <2>2. \A c \in Reads(calls') : c.from = lastId \/ (lastId = Dollar /\ c.from \in 0..Len(output))
    BY <1>4 DEF LoopInv
  <2> QED
    BY <1>1, <2>1, <2>2 DEF LoopInv, Reads
<1>9. LiveInv'
  BY <1>1, LiveSame
<1>10. \A t, id : Covered(t, id) => Covered(t, id)'
  <2> TAKE t, id
  <2> HAVE Covered(t, id)
  <2>1. Known(t)' = Known(t) /\ unheard' = unheard
    BY <1>1 DEF Known
  <2>2. Filling(t, id) => Filling(t, id)'
    BY <1>1, <1>4 DEF Filling
  <2>3. Ahead(id) => Ahead(id)'
    BY <1>1, <1>4 DEF Ahead, Reads
  <2> QED
    BY <2>1, <2>2, <2>3, CoveredKept
<1>11. OwedInv'
  <2> SUFFICES ASSUME NEW t \in Sockets, NEW c \in Channels, owed'[t][c] # Null
               PROVE  /\ t \in open /\ c \in channels'[t]
                      /\ \A id \in owed'[t][c] + 1 .. Len(output) :
                           output[id] = Topic(t, c) => Covered(t, id)'
    BY <1>1 DEF OwedInv, Topic
  <2>1. CASE t # s
    <3>1. owed'[t][c] = owed[t][c]
      BY <1>1, <1>2, <2>1
    <3> QED
      BY <1>5, <1>10, <3>1 DEF OwedInv
  <2>2. CASE t = s
    <3>1. owed'[s][c] = since /\ c \in channels'[s] /\ Len(output) - since <= BackfillCount
      BY <1>1, <1>2, <2>2
    <3>2. \A id \in since + 1 .. Len(output) : id \in since + 1 .. since + BackfillCount
      BY <1>2, <3>1
    <3>3. \A id \in since + 1 .. Len(output) : Filling(s, id)'
      BY <1>1, <1>3, <1>4, <3>2 DEF Filling
    <3> QED
      BY <1>1, <2>2, <3>1, <3>3 DEF Covered
  <2> QED
    BY <2>1, <2>2
<1> QED
  BY <1>7, <1>8, <1>9, <1>11

-----------------------------------------------------------------------------
(* Redis *)

LEMMA BeginReadStep ==
  ASSUME FeedInv, BeginRead
  PROVE  FeedInv'
<1> USE DEF FeedInv
<1> DEFINE read == ReadCall(Len(output))
           rest == Tail(calls)
<1>1. /\ calls # <<>> /\ Head(calls).kind = "read" /\ Head(calls).from = Dollar
      /\ calls' = <<read>> \o rest
      /\ UNCHANGED <<output, replies, lastId, open, channels, live, filled, owed, unheard>>
  BY DEF BeginRead, AtHead, socketVars
<1>2. Len(output) \in Nat /\ calls \in Seq(Call) /\ Single(calls)
  BY FeedTypes DEF LoopInv, OneRead
<1>3. read \in Call /\ read.kind = "read" /\ read.from = Len(output)
  BY <1>2, CallTypes DEF ReadCall
<1>4. /\ rest \in Seq(Call) /\ Reads(rest) = {}
      /\ ToSet(calls) = {Head(calls)} \cup ToSet(rest)
      /\ Reads(calls) = {Head(calls)}
  BY <1>1, <1>2, Dequeued
<1> HIDE DEF read, rest
<1>5. /\ calls' \in Seq(Call) /\ Single(calls')
      /\ ToSet(calls') = {read} \cup ToSet(rest)
      /\ Reads(calls') = {read}
  <2>1. rest \in Seq(Call) /\ Reads(rest) = {} /\ read \in Call
    BY <1>3, <1>4
  <2>2. /\ <<read>> \o rest \in Seq(Call) /\ Single(<<read>> \o rest)
        /\ ToSet(<<read>> \o rest) = {read} \cup ToSet(rest)
        /\ Reads(<<read>> \o rest) = IF read.kind = "read" THEN {read} ELSE {}
    BY <2>1, Pushed
  <2> QED
    BY <1>1, <1>3, <2>2
<1>6. lastId = Dollar
  <2>1. Dollar \notin 0..Len(output)
    BY <1>2, FeedAssumption
  <2> QED
    BY <1>1, <1>4, <2>1 DEF LoopInv
<1>7. FeedTypeOK'
  BY <1>1, <1>5 DEF FeedTypeOK, Call, Answer
<1>8. LoopInv'
  <2>1. Reads(replies) = {} /\ Single(replies)
    BY <1>4 DEF LoopInv, OneRead
  <2>2. OneRead'
    BY <1>1, <1>5, <2>1 DEF OneRead, Reads, Single, ToSet
  <2>3. Len(output) \in 0..Len(output)
    BY <1>2
  <2> QED
    BY <1>1, <1>3, <1>5, <1>6, <2>2, <2>3 DEF LoopInv, Reads
<1>9. LiveInv'
  BY <1>1, LiveSame
<1>10. ASSUME NEW t \in Sockets, NEW id \in 1..Len(output), Covered(t, id)
       PROVE  Covered(t, id)'
  <2>1. ~Ahead(id)
    BY <1>1, <1>4, <1>6 DEF Ahead
  <2>2. Known(t)' = Known(t) /\ unheard' = unheard
    BY <1>1 DEF Known
  <2>3. Filling(t, id) => Filling(t, id)'
    BY <1>1, <1>4, <1>5 DEF Filling
  <2> QED
    BY <1>10, <2>1, <2>2, <2>3, CoveredKept
<1>11. OwedInv'
  <2>1. \A t \in Sockets, c \in Channels : owed[t][c] # Null => t \in open /\ c \in channels[t]
    BY DEF OwedInv
  <2> QED
    BY <1>1, <1>10, <2>1, OwedKept
<1> QED
  BY <1>7, <1>8, <1>9, <1>11

\* What redis answers to an XREAD or XRANGE.
LEMMA FollowingEntries ==
  ASSUME FeedTypeOK, NEW from \in Nat, NEW count \in Nat \ {0}
  PROVE  /\ \E first \in 1..Len(output) + 1, last \in 0..Len(output) :
              /\ Following(from, count) = first..last
              /\ from <= Len(output) => first = from + 1
         /\ Following(from, count) \in SUBSET Nat
         /\ \A id \in 1..Len(output) : id \in from + 1 .. from + count => id \in Following(from, count)
         /\ \A id \in 1..Len(output) : id > from => \E first \in Following(from, count) : first <= id
<1> DEFINE n == Len(output)
           upTo == IF from + count < n THEN from + count ELSE n
<1>1. n \in Nat
  BY FeedTypes
<1>2. Following(from, count) = from + 1 .. upTo
  BY DEF Following
<1> HIDE DEF n
<1>3. upTo \in 0..n
  BY <1>1
<1>4. CASE from <= n
  <2>1. from + 1 \in 1..n + 1
    BY <1>1, <1>4
  <2> QED
    BY <1>1, <1>2, <1>3, <2>1 DEF n
<1>5. CASE from > n
  <2>1. from + 1 .. upTo = 1..0
    BY <1>1, <1>3, <1>5
  <2>2. 1 \in 1..n + 1 /\ 0 \in 0..n
    BY <1>1
  <2>3. ~(from <= n) /\ \A id \in 1..n : ~(id > from) /\ id \notin from + 1 .. from + count
    BY <1>1, <1>5
  <2> QED
    BY <1>2, <2>1, <2>2, <2>3 DEF n
<1> QED
  BY <1>1, <1>4, <1>5

LEMMA ReplyStep ==
  ASSUME FeedInv, calls # <<>>, Head(calls).from # Dollar,
         NEW count \in Nat \ {0}, Reply(Following(Head(calls).from, count)),
         Head(calls).kind = "range" => count = BackfillCount
  PROVE  FeedInv'
<1> USE DEF FeedInv
<1> DEFINE call == Head(calls)
           rest == Tail(calls)
           ids == Following(call.from, count)
           reply == [kind |-> call.kind, socket |-> call.socket, ids |-> ids]
<1>1. /\ calls' = rest /\ replies' = Append(replies, reply)
      /\ UNCHANGED <<output, lastId, open, channels, live, filled, owed, unheard>>
  BY DEF Reply, socketVars
<1>2. Len(output) \in Nat /\ calls \in Seq(Call) /\ replies \in Seq(Answer) /\ Single(calls) /\ Single(replies)
  BY FeedTypes DEF LoopInv, OneRead
<1>3. /\ rest \in Seq(Call) /\ call \in Call /\ call \in ToSet(calls)
      /\ ToSet(calls) = {call} \cup ToSet(rest)
      /\ Reads(calls) = Reads(rest) \cup (IF call.kind = "read" THEN {call} ELSE {})
      /\ Single(rest) /\ (call.kind = "read" => Reads(rest) = {})
  BY <1>2, Dequeued
<1> HIDE DEF call
<1>4. call.from \in Nat /\ call.kind \in {"read", "range"}
  BY <1>3, CallFields DEF call
<1>5. /\ \E first \in 1..Len(output) + 1, last \in 0..Len(output) :
           ids = first..last /\ (call.from <= Len(output) => first = call.from + 1)
      /\ ids \in SUBSET Nat
      /\ \A id \in 1..Len(output) : id \in call.from + 1 .. call.from + count => id \in ids
      /\ \A id \in 1..Len(output) : id > call.from => \E first \in ids : first <= id
  BY <1>4, FollowingEntries
<1> HIDE DEF ids, rest
<1>6. reply \in Answer /\ reply.kind = call.kind /\ reply.socket = call.socket /\ reply.ids = ids
  <2>1. call.kind = "read" => call.socket = Null
    BY <1>3, CallFields
  <2>2. call.kind = "range" => call.socket \in Sockets
    BY <1>3, CallFields
  <2> QED
    BY <1>4, <1>5, <2>1, <2>2 DEF Answer
<1> HIDE DEF reply
<1>7. /\ replies' \in Seq(Answer)
      /\ ToSet(replies') = ToSet(replies) \cup {reply}
      /\ Reads(replies') = Reads(replies) \cup (IF call.kind = "read" THEN {reply} ELSE {})
      /\ Single(replies')
  <2>1. call.kind = "read" => Reads(replies) = {}
    BY <1>3 DEF LoopInv, OneRead
  <2> QED
    BY <1>1, <1>2, <1>6, <2>1, Enqueued
<1>8. FeedTypeOK'
  BY <1>1, <1>3, <1>7 DEF FeedTypeOK, Call, Answer
<1>9. LoopInv'
  <2>1. OneRead'
    <3>1. Reads(rest) = {} \/ Reads(replies') = {}
      BY <1>3, <1>7 DEF LoopInv, OneRead
    <3> QED
      BY <1>1, <1>3, <1>7, <3>1 DEF OneRead, Reads, Single, ToSet
  <2>2. \A c \in Reads(rest) : c.from = lastId \/ (lastId = Dollar /\ c.from \in 0..Len(output))
    BY <1>3 DEF LoopInv
  <2>3. call.kind = "read" /\ lastId # Dollar => call.from = lastId /\ call.from <= Len(output)
    BY <1>3 DEF LoopInv
  <2>4. PICK first \in 1..Len(output) + 1, last \in 0..Len(output) :
          ids = first..last /\ (call.from <= Len(output) => first = call.from + 1)
    BY <1>5
  <2>5. reply.kind = "read" /\ lastId # Dollar => first = lastId + 1
    BY <1>6, <2>3, <2>4
  <2>6. \A r \in ToSet(replies') : \E f \in 1..Len(output) + 1, l \in 0..Len(output) :
          /\ r.ids = f..l
          /\ r.kind = "read" /\ lastId # Dollar => f = lastId + 1
    BY <1>6, <1>7, <2>4, <2>5 DEF LoopInv
  <2>7. lastId # Dollar => lastId <= Len(output)
    BY DEF LoopInv
  <2> QED
    BY <1>1, <2>1, <2>2, <2>6, <2>7 DEF LoopInv, Reads
<1>10. LiveInv'
  BY <1>1, LiveSame
<1>11. ASSUME NEW t \in Sockets, NEW id \in 1..Len(output), Covered(t, id)
       PROVE  Covered(t, id)'
  <2>1. Known(t)' = Known(t) /\ unheard' = unheard
    BY <1>1 DEF Known
  <2>2. ASSUME Filling(t, id)
        PROVE  Filling(t, id)'
    <3>1. CASE \E r \in ToSet(replies) : r.kind = "range" /\ r.socket = t /\ id \in r.ids
      BY <1>7, <3>1 DEF Filling
    <3>2. CASE \E c \in ToSet(rest) : /\ c.kind = "range" /\ c.socket = t
                                      /\ id \in c.from + 1 .. c.from + BackfillCount
      BY <1>1, <3>2 DEF Filling
    <3>3. CASE /\ call.kind = "range" /\ call.socket = t
               /\ id \in call.from + 1 .. call.from + BackfillCount
      <4>1. id \in ids
        BY <1>5, <3>3 DEF call
      <4> QED
        BY <1>6, <1>7, <3>3, <4>1 DEF Filling
    <3> QED
      BY <1>3, <2>2, <3>1, <3>2, <3>3 DEF Filling
  <2>3. ASSUME Ahead(id)
        PROVE  Ahead(id)'
    <3>1. CASE lastId # Dollar
      BY <1>1, <2>3, <3>1 DEF Ahead
    <3>2. CASE lastId = Dollar
      <4>1. \A c \in Reads(rest) : c.from # Dollar /\ id > c.from
        BY <1>3, <2>3, <3>2 DEF Ahead
      <4>2. call.kind = "read" => id > call.from
        BY <1>3, <2>3, <3>2 DEF Ahead
      <4>3. \A r \in Reads(replies') : \E first \in r.ids : first <= id
        BY <1>5, <1>6, <1>7, <2>3, <3>2, <4>2 DEF Ahead
      <4> QED
        BY <1>1, <3>2, <4>1, <4>3 DEF Ahead, Reads
    <3> QED
      BY <3>1, <3>2
  <2> QED
    BY <1>11, <2>1, <2>2, <2>3, CoveredKept
<1>12. OwedInv'
  <2>1. \A t \in Sockets, c \in Channels : owed[t][c] # Null => t \in open /\ c \in channels[t]
    BY DEF OwedInv
  <2> QED
    BY <1>1, <1>11, <2>1, OwedKept
<1> QED
  BY <1>8, <1>9, <1>10, <1>12

LEMMA ReadStep ==
  ASSUME FeedInv, Read
  PROVE  FeedInv'
BY ReplyStep, FeedAssumption DEF Read, AtHead

LEMMA ReadRangeStep ==
  ASSUME FeedInv, ReadRange
  PROVE  FeedInv'
<1>1. calls \in Seq(Call) /\ calls # <<>> /\ Head(calls).kind = "range"
  BY DEF ReadRange, AtHead, FeedInv, FeedTypeOK
<1>2. Head(calls).from \in Nat
  BY <1>1, Dequeued, CallFields
<1> QED
  BY <1>1, <1>2, ReplyStep, FeedAssumption DEF ReadRange

-----------------------------------------------------------------------------
(* The replies, and what goes wrong *)

LEMMA HandleReadStep ==
  ASSUME FeedInv, HandleRead
  PROVE  FeedInv'
<1> USE DEF FeedInv
<1> DEFINE reply == Head(replies)
           rest == Tail(replies)
           ids == reply.ids
           mine(s) == {id \in ids : output[id] \in TopicsOf(s)}
           call == ReadCall(lastId')
<1>1. /\ replies # <<>> /\ reply.kind = "read"
      /\ lastId' = LastRead(ids)
      /\ live' = [s \in Sockets |-> IF s \in open THEN live[s] \o Ascending(mine(s)) ELSE live[s]]
      /\ replies' = rest /\ calls' = Append(calls, call)
      /\ UNCHANGED <<output, open, channels, filled, owed, unheard>>
  BY DEF HandleRead, ReadFrom
<1>2. /\ Len(output) \in Nat /\ calls \in Seq(Call) /\ replies \in Seq(Answer)
      /\ Single(calls) /\ Single(replies) /\ lastId \in Nat \cup {Dollar}
  BY FeedTypes DEF LoopInv, OneRead, FeedTypeOK
<1>3. /\ rest \in Seq(Answer) /\ reply \in Answer /\ reply \in ToSet(replies)
      /\ ToSet(replies) = {reply} \cup ToSet(rest)
      /\ Reads(replies) = {reply} /\ Reads(rest) = {} /\ Single(rest)
  BY <1>1, <1>2, Dequeued
<1> HIDE DEF reply, rest
<1>4. Reads(calls) = {}
  BY <1>3 DEF LoopInv, OneRead
<1>5. PICK first \in 1..Len(output) + 1, last \in 0..Len(output) :
        /\ ids = first..last
        /\ lastId # Dollar => first = lastId + 1
  BY <1>1, <1>3 DEF LoopInv
<1>6. ids \in SUBSET Nat /\ IsFiniteSet(ids) /\ \A id \in ids : id \in Nat /\ id <= last
  <2>1. IsFiniteSet(first..last)
    BY FS_Interval
  <2> QED
    BY <1>5, <2>1
<1>7. /\ ids = {} => lastId' = lastId
      /\ ids # {} => lastId' = last /\ last \in ids
  <2>1. ids = {} => lastId' = lastId
    BY <1>1 DEF LastRead
  <2>2. ASSUME ids # {}
        PROVE  lastId' = last /\ last \in ids
    <3>1. last \in ids
      BY <1>5, <2>2
    <3>2. Max(ids) \in ids /\ \A id \in ids : id <= Max(ids)
      <4>1. ids \in SUBSET (0..Len(output))
        BY <1>2, <1>5
      <4> HIDE DEF ids
      <4> QED
        BY <1>2, <2>2, <4>1, MaxOfNaturals
    <3>3. Max(ids) = last
      BY <1>6, <3>1, <3>2
    <3> QED
      BY <1>1, <2>2, <3>1, <3>3 DEF LastRead
  <2> QED
    BY <2>1, <2>2
<1>8. lastId' \in Nat \cup {Dollar} /\ (lastId' # Dollar => lastId' <= Len(output))
  <2>1. last \in Nat /\ last <= Len(output)
    BY <1>2
  <2> QED
    BY <1>2, <1>7, <2>1 DEF LoopInv
<1>9. call \in Call /\ call.kind = "read" /\ call.from = lastId'
  BY <1>8, CallTypes DEF ReadCall
<1> HIDE DEF call
<1>10. /\ calls' \in Seq(Call) /\ Single(calls')
       /\ ToSet(calls') = ToSet(calls) \cup {call}
       /\ Reads(calls') = {call}
  BY <1>1, <1>2, <1>4, <1>9, Enqueued
<1>11. \A s \in Sockets :
         /\ live[s] \in Seq(Nat)
         /\ \A i, j \in DOMAIN live[s] : i < j => live[s][i] < live[s][j]
         /\ \A old \in ToSet(live[s]) : old \in Nat /\ lastId # Dollar /\ old <= lastId
  <2>1. \A s \in Sockets : live[s] \in Seq(Nat)
    BY FeedTypes
  <2> QED
    BY <2>1, Places DEF LiveInv, LiveInOrder
<1>12. \A s \in Sockets : \A old \in ToSet(live[s]), new \in mine(s) : old < new
  <2> TAKE s \in Sockets
  <2> TAKE old \in ToSet(live[s]), new \in mine(s)
  <2>1. old \in Nat /\ lastId # Dollar /\ old <= lastId
    BY <1>11
  <2>2. new \in first..last /\ first = lastId + 1 /\ lastId \in Nat
    BY <1>2, <1>5, <2>1
  <2> QED
    BY <2>1, <2>2
<1>13. \A s \in Sockets :
         /\ live'[s] \in Seq(Nat)
         /\ \A i, j \in DOMAIN live'[s] : i < j => live'[s][i] < live'[s][j]
         /\ ToSet(live'[s]) = ToSet(live[s]) \cup (IF s \in open THEN mine(s) ELSE {})
  <2> TAKE s \in Sockets
  <2>1. mine(s) \in SUBSET Nat /\ IsFiniteSet(mine(s))
    <3>1. mine(s) \in SUBSET ids
      OBVIOUS
    <3> QED
      BY <1>6, <3>1, FS_Subset
  <2> DEFINE all == live[s] \o Ascending(mine(s))
  <2>2. /\ all \in Seq(Nat) /\ ToSet(all) = ToSet(live[s]) \cup mine(s)
        /\ \A i, j \in DOMAIN all : i < j => all[i] < all[j]
    <3> HIDE DEF mine
    <3> QED
      BY <1>11, <1>12, <2>1, Published
  <2>3. live'[s] = IF s \in open THEN all ELSE live[s]
    BY <1>1
  <2> HIDE DEF all, mine
  <2>4. CASE s \in open
    BY <2>2, <2>3, <2>4
  <2>5. CASE s \notin open
    BY <1>11, <2>3, <2>5
  <2> QED
    BY <2>4, <2>5
<1>14. FeedTypeOK'
  <2>1. live' \in [Sockets -> Seq(Nat)]
    <3>1. live' = [s \in Sockets |-> live'[s]]
      BY <1>1
    <3> QED
      BY <1>13, <3>1
  <2> QED
    BY <1>1, <1>3, <1>8, <1>10, <2>1 DEF FeedTypeOK, Call, Answer
<1>15. LoopInv'
  <2>1. OneRead'
    BY <1>1, <1>3, <1>10 DEF OneRead, Reads, Single, ToSet
  <2>2. \A r \in ToSet(rest) : r.kind # "read"
    BY <1>3 DEF Reads
  <2>3. \A r \in ToSet(rest) : \E f \in 1..Len(output) + 1, l \in 0..Len(output) : r.ids = f..l
    BY <1>3 DEF LoopInv
  <2>4. \A r \in ToSet(rest) : \E f \in 1..Len(output) + 1, l \in 0..Len(output) :
          /\ r.ids = f..l
          /\ r.kind = "read" /\ lastId' # Dollar => f = lastId' + 1
    BY <2>2, <2>3
  <2>5. \A c \in Reads(calls') : c.from = lastId'
    BY <1>9, <1>10
  <2> QED
    BY <1>1, <1>8, <2>1, <2>4, <2>5 DEF LoopInv, Reads
<1>16. LiveInv'
  <2>1. \A s \in Sockets : \A id \in ToSet(live'[s]) : lastId' # Dollar /\ id <= lastId'
    <3> TAKE s \in Sockets
    <3> TAKE id \in ToSet(live'[s])
    <3>1. CASE id \in ToSet(live[s])
      <4>1. id \in Nat /\ lastId \in Nat /\ lastId # Dollar /\ id <= lastId
        BY <1>2, <1>11, <3>1
      <4>2. CASE ids = {}
        BY <1>7, <4>1, <4>2
      <4>3. CASE ids # {}
        <5>1. first = lastId + 1 /\ last \in first..last /\ lastId' = last /\ last \in Nat
          BY <1>5, <1>7, <4>1, <4>3
        <5> QED
          BY <4>1, <5>1, FeedAssumption
      <4> QED
        BY <4>2, <4>3
    <3>2. CASE id \in ids
      <4>1. lastId' = last /\ last \in Nat
        BY <1>7, <3>2
      <4> QED
        BY <1>6, <3>2, <4>1, FeedAssumption
    <3> QED
      BY <1>13, <3>1, <3>2
  <2> QED
    BY <1>13, <2>1 DEF LiveInv, LiveInOrder, ToSet
<1>17. ASSUME NEW s \in Sockets, NEW ch \in channels[s], s \in open,
              NEW id \in 1..Len(output), output[id] = Topic(s, ch), Covered(s, id)
       PROVE  Covered(s, id)'
  <2>0. id \in Nat
    BY <1>2
  <2>1. Known(s) \subseteq Known(s)' /\ unheard' = unheard
    BY <1>1, <1>13 DEF Known
  <2>2. Filling(s, id) => Filling(s, id)'
    <3>1. \A r \in ToSet(replies) : r.kind = "range" => r \in ToSet(rest)
      BY <1>1, <1>3
    <3> QED
      BY <1>1, <1>10, <3>1 DEF Filling
  <2>3. ASSUME Ahead(id)
        PROVE  Covered(s, id)'
    <3>1. CASE id \in ids
      <4>1. id \in mine(s)
        BY <1>17, <3>1 DEF TopicsOf
      <4> QED
        BY <1>13, <1>17, <4>1 DEF Covered, Known
    <3>2. CASE id \notin ids /\ ids = {}
      <4>1. lastId # Dollar /\ id > lastId
        BY <1>3, <2>3, <3>2 DEF Ahead
      <4> QED
        BY <1>7, <3>2, <4>1 DEF Covered, Ahead
    <3>3. CASE id \notin ids /\ ids # {}
      <4>1. lastId' = last /\ last \in Nat /\ last # Dollar /\ first \in Nat
        BY <1>7, <3>3, FeedAssumption
      <4>2. id >= first
        <5>1. CASE lastId # Dollar
          BY <1>2, <1>5, <2>0, <2>3, <5>1 DEF Ahead
        <5>2. CASE lastId = Dollar
          <6>1. PICK f \in ids : f <= id
            BY <1>3, <2>3, <5>2 DEF Ahead
          <6>2. f \in first..last
            BY <1>5
          <6> QED
            BY <2>0, <4>1, <6>1, <6>2
        <5> QED
          BY <5>1, <5>2
      <4>3. id > last
        BY <1>5, <2>0, <3>3, <4>1, <4>2
      <4> QED
        BY <4>1, <4>3 DEF Covered, Ahead
    <3> QED
      BY <3>1, <3>2, <3>3
  <2> QED
    BY <1>17, <2>1, <2>2, <2>3 DEF Covered
<1>18. OwedInv'
  <2>1. \A s \in Sockets, ch \in Channels : owed[s][ch] # Null => s \in open /\ ch \in channels[s]
    BY DEF OwedInv
  <2> QED
    BY <1>1, <1>17, <2>1, OwedKept
<1> QED
  BY <1>14, <1>15, <1>16, <1>18

LEMMA HandleRangeStep ==
  ASSUME FeedInv, HandleRange
  PROVE  FeedInv'
<1> USE DEF FeedInv
<1> DEFINE reply == Head(replies)
           rest == Tail(replies)
           to == reply.socket
           news == IF to \in open THEN {id \in reply.ids : output[id] \in TopicsOf(to)} ELSE {}
<1>1. /\ replies # <<>> /\ reply.kind = "range" /\ replies' = rest
      /\ filled' = [filled EXCEPT ![to] = @ \cup news]
      /\ UNCHANGED <<output, calls, lastId, open, channels, live, owed, unheard>>
  BY DEF HandleRange, Deliverable
<1>2. /\ Len(output) \in Nat /\ replies \in Seq(Answer)
      /\ Single(replies) /\ filled \in [Sockets -> SUBSET Nat]
  BY FeedTypes DEF LoopInv, OneRead, FeedTypeOK
<1>3. /\ rest \in Seq(Answer) /\ reply \in Answer /\ reply \in ToSet(replies)
      /\ ToSet(replies) = {reply} \cup ToSet(rest)
      /\ Reads(replies) = Reads(rest) /\ Single(rest)
  <2>1. Reads(replies) = Reads(rest) \cup (IF reply.kind = "read" THEN {reply} ELSE {})
    BY <1>1, <1>2, Dequeued
  <2> QED
    BY <1>1, <1>2, <2>1, Dequeued
<1> HIDE DEF reply, rest
<1>4. news \in SUBSET Nat /\ to \in Sockets
  BY <1>1, <1>3 DEF Answer
<1>5. /\ filled' \in [Sockets -> SUBSET Nat]
      /\ \A s \in Sockets : filled'[s] = filled[s] \cup (IF s = to THEN news ELSE {})
  BY <1>1, <1>2, <1>4
<1>6. FeedTypeOK'
  BY <1>1, <1>3, <1>5 DEF FeedTypeOK, Call, Answer
<1>7. LoopInv'
  <2>0. Single(calls) /\ Single(rest) /\ (Reads(calls) = {} \/ Reads(rest) = {})
    BY <1>3 DEF LoopInv, OneRead
  <2>1. OneRead'
    BY <1>1, <2>0 DEF OneRead, Reads, Single, ToSet
  <2>2. \A r \in ToSet(rest) : \E first \in 1..Len(output) + 1, last \in 0..Len(output) :
          /\ r.ids = first..last
          /\ r.kind = "read" /\ lastId # Dollar => first = lastId + 1
    BY <1>3 DEF LoopInv
  <2>3. /\ lastId # Dollar => lastId <= Len(output)
        /\ \A c \in Reads(calls) : c.from = lastId \/ (lastId = Dollar /\ c.from \in 0..Len(output))
    BY DEF LoopInv
  <2> QED
    BY <1>1, <2>1, <2>2, <2>3 DEF LoopInv, Reads
<1>8. LiveInv'
  BY <1>1, LiveSame
<1>9. ASSUME NEW s \in Sockets, NEW ch \in channels[s], s \in open,
             NEW id \in 1..Len(output), output[id] = Topic(s, ch), Covered(s, id)
      PROVE  Covered(s, id)'
  <2>1. Known(s) \subseteq Known(s)' /\ unheard' = unheard
    BY <1>1, <1>5 DEF Known
  <2>2. ASSUME Filling(s, id)
        PROVE  Covered(s, id)'
    <3>1. CASE to = s /\ id \in reply.ids
      <4>1. id \in news
        BY <1>9, <3>1 DEF TopicsOf
      <4> QED
        BY <1>5, <3>1, <4>1 DEF Covered, Known
    <3>2. CASE ~(to = s /\ id \in reply.ids)
      BY <1>1, <1>3, <2>2, <3>2 DEF Filling, Covered
    <3> QED
      BY <3>1, <3>2
  <2>3. Ahead(id) => Ahead(id)'
    BY <1>1, <1>3 DEF Ahead, Reads
  <2> QED
    BY <1>9, <2>1, <2>2, <2>3 DEF Covered
<1>10. OwedInv'
  <2>1. \A s \in Sockets, ch \in Channels : owed[s][ch] # Null => s \in open /\ ch \in channels[s]
    BY DEF OwedInv
  <2> QED
    BY <1>1, <1>9, <2>1, OwedKept
<1> QED
  BY <1>6, <1>7, <1>8, <1>10

LEMMA LoseStep ==
  ASSUME FeedInv, LoseConnection
  PROVE  FeedInv'
<1> USE DEF FeedInv
<1>1. /\ calls' = <<>> /\ replies' = <<>>
      /\ owed' = [s \in Sockets |-> IF Waiting(s) THEN NothingOwed ELSE owed[s]]
      /\ UNCHANGED <<output, lastId, open, channels, live, filled, unheard>>
  BY DEF LoseConnection
<1>2. /\ \A s \in Sockets : owed[s] \in [Channels -> Nat \cup {Null}]
      /\ NothingOwed \in [Channels -> Nat \cup {Null}] /\ \A ch \in Channels : NothingOwed[ch] = Null
  BY DEF FeedTypeOK, NothingOwed
<1>3. FeedTypeOK'
  <2>1. owed' \in [Sockets -> [Channels -> Nat \cup {Null}]]
    BY <1>1, <1>2
  <2> QED
    BY <1>1, <2>1 DEF FeedTypeOK, Call, Answer
<1>4. LoopInv'
  <2>1. OneRead'
    BY <1>1, Empty DEF OneRead, Reads, Single, ToSet
  <2>2. Reads(calls') = {} /\ ToSet(replies') = {}
    BY <1>1, Empty
  <2> QED
    BY <1>1, <2>1, <2>2 DEF LoopInv, Reads, ToSet
<1>5. LiveInv'
  BY <1>1, LiveSame
<1>6. \A s \in Sockets, ch \in Channels : owed'[s][ch] # Null => ~Waiting(s) /\ owed'[s][ch] = owed[s][ch]
  BY <1>1, <1>2
<1>7. ASSUME NEW s \in Sockets, ~Waiting(s), NEW id \in 1..Len(output), Covered(s, id)
      PROVE  Covered(s, id)'
  <2>1. Known(s)' = Known(s) /\ unheard' = unheard
    BY <1>1 DEF Known
  <2>2. ~Filling(s, id)
    BY <1>7 DEF Filling, Waiting
  <2>3. Ahead(id) => Ahead(id)'
    <3>1. Reads(calls') = {} /\ Reads(replies') = {}
      BY <1>1, Empty
    <3> QED
      BY <1>1, <3>1 DEF Ahead, Reads
  <2> QED
    BY <1>7, <2>1, <2>2, <2>3, CoveredKept
<1>8. OwedInv'
  <2>1. \A s \in Sockets, ch \in Channels : owed[s][ch] # Null => s \in open /\ ch \in channels[s]
    BY DEF OwedInv
  <2> QED
    BY <1>1, <1>6, <1>7, <2>1, OwedKept
<1> QED
  BY <1>3, <1>4, <1>5, <1>8

LEMMA FirstCall ==
  /\ <<ReadCall(Dollar)>> \in Seq(Call)
  /\ Single(<<ReadCall(Dollar)>>)
  /\ \A call \in Reads(<<ReadCall(Dollar)>>) : call.from = Dollar
<1>1. ReadCall(Dollar) \in Call /\ ReadCall(Dollar).from = Dollar
  BY CallTypes DEF ReadCall
<1>2. <<ReadCall(Dollar)>> \in Seq(Call) /\ DOMAIN <<ReadCall(Dollar)>> = {1}
  BY <1>1
<1>3. Single(<<ReadCall(Dollar)>>)
  BY <1>2 DEF Single
<1>4. \A call \in ToSet(<<ReadCall(Dollar)>>) : call = ReadCall(Dollar)
  BY <1>2 DEF ToSet
<1> QED
  BY <1>1, <1>2, <1>3, <1>4 DEF Reads

\* A process that has just started, with no socket that is owed anything.
LEMMA Started ==
  ASSUME output \in Seq(Entries), calls = <<ReadCall(Dollar)>>, replies = <<>>, lastId = Dollar,
         \A s \in Sockets : live[s] = <<>> /\ \A ch \in Channels : owed[s][ch] = Null
  PROVE  LoopInv /\ LiveInv /\ OwedInv
<1>1. LoopInv
  <2>1. OneRead
    BY Empty, FirstCall DEF OneRead
  <2> QED
    BY <2>1, Empty, FirstCall DEF LoopInv
<1>2. LiveInv
  <2>1. DOMAIN <<>> = {}
    OBVIOUS
  <2> QED
    BY <2>1, Empty DEF LiveInv, LiveInOrder
<1>3. OwedInv
  BY DEF OwedInv
<1> QED
  BY <1>1, <1>2, <1>3

LEMMA FeedStart == Init => FeedInv
<1> SUFFICES ASSUME Init PROVE FeedInv
  OBVIOUS
<1>1. /\ output = <<>> /\ calls = <<ReadCall(Dollar)>> /\ replies = <<>> /\ lastId = Dollar
      /\ open = {} /\ channels = [s \in Sockets |-> {}] /\ live = [s \in Sockets |-> <<>>]
      /\ filled = [s \in Sockets |-> {}] /\ owed = [s \in Sockets |-> NothingOwed]
  BY DEF Init
<1>2. NothingOwed \in [Channels -> Nat \cup {Null}] /\ \A ch \in Channels : NothingOwed[ch] = Null
  BY DEF NothingOwed
<1>3. <<>> \in Seq(Entries) /\ <<>> \in Seq(Answer) /\ <<>> \in Seq(Nat)
  OBVIOUS
<1>4. FeedTypeOK
  BY <1>1, <1>2, <1>3, FirstCall DEF FeedTypeOK
<1>5. \A s \in Sockets : live[s] = <<>> /\ \A ch \in Channels : owed[s][ch] = Null
  BY <1>1, <1>2
<1> QED
  BY <1>1, <1>3, <1>4, <1>5, Started DEF FeedInv

LEMMA RestartStep ==
  ASSUME FeedInv, Restart
  PROVE  FeedInv'
<1>1. /\ calls' = <<ReadCall(Dollar)>> /\ replies' = <<>> /\ lastId' = Dollar
      /\ Gone(Sockets) /\ output' = output
  BY DEF Restart
<1>2. /\ open' \subseteq Sockets
      /\ channels' \in [Sockets -> SUBSET Channels]
      /\ live' \in [Sockets -> Seq(Nat)]
      /\ filled' \in [Sockets -> SUBSET Nat]
      /\ owed' \in [Sockets -> [Channels -> Nat \cup {Null}]]
      /\ LiveInOrder'
      /\ \A s \in Sockets : live'[s] = <<>> /\ \A ch \in Channels : owed'[s][ch] = Null
  BY <1>1, GoneStep DEF FeedInv, LiveInv
<1>3. <<>> \in Seq(Answer)
  OBVIOUS
<1>4. FeedTypeOK'
  BY <1>1, <1>2, <1>3, FirstCall DEF FeedInv, FeedTypeOK, Call, Answer, ReadCall
<1>5. LoopInv'
  <2>1. Single(calls') /\ Single(replies') /\ Reads(replies') = {} /\ ToSet(replies') = {}
        /\ \A call \in Reads(calls') : call.from = lastId'
    BY <1>1, Empty, FirstCall
  <2>2. OneRead'
    BY <2>1 DEF OneRead, Single, Reads, ToSet
  <2> QED
    BY <1>1, <2>1, <2>2 DEF LoopInv, Reads, ToSet
<1>6. LiveInv'
  <2>1. \A s \in Sockets : ToSet(live'[s]) = {}
    BY <1>2, Empty
  <2> QED
    BY <1>2, <2>1 DEF LiveInv, ToSet
<1>7. OwedInv'
  BY <1>2 DEF OwedInv
<1> QED
  BY <1>4, <1>5, <1>6, <1>7 DEF FeedInv

LEMMA FeedStep == FeedInv /\ [Next]_vars => FeedInv'
<1> SUFFICES ASSUME FeedInv, [Next]_vars PROVE FeedInv'
  OBVIOUS
<1>1. CASE UNCHANGED vars
  <2>1. UNCHANGED <<output, calls, replies, lastId, open, channels, live, filled, owed, unheard>>
    BY <1>1 DEF vars
  <2>2. FeedTypeOK' /\ LiveInv'
    BY <2>1, LiveSame DEF FeedInv, FeedTypeOK, Call, Answer
  <2>3. \A s \in Sockets, ch \in Channels : owed[s][ch] # Null => s \in open /\ ch \in channels[s]
    BY DEF FeedInv, OwedInv
  <2> QED
    BY <2>1, <2>2, <2>3, SocketStep
<1>2. CASE \E topic \in Entries : Emit(topic)
  BY <1>2, EmitStep
<1>3. CASE \E s \in Sockets : Open(s) \/ Close(s)
  BY <1>3, OpenStep, CloseStep
<1>4. CASE \E s \in Sockets, ch \in Channels : Subscribe(s, ch) \/ Unsubscribe(s, ch)
  BY <1>4, SubscribeStep, UnsubscribeStep
<1>5. CASE \E s \in Sockets, ch \in Channels, since \in 0..MaxEvents : SubscribeSince(s, ch, since)
  BY <1>5, SinceStep
<1>6. CASE BeginRead \/ Read \/ ReadRange
  BY <1>6, BeginReadStep, ReadStep, ReadRangeStep
<1>7. CASE HandleRead \/ HandleRange
  BY <1>7, HandleReadStep, HandleRangeStep
<1>8. CASE LoseConnection \/ Restart
  BY <1>8, LoseStep, RestartStep
<1> QED
  BY <1>1, <1>2, <1>3, <1>4, <1>5, <1>6, <1>7, <1>8 DEF Next

\* The invariant that the theorems below rest on, whatever clients do, redis
\* loses, or restarts there are.
THEOREM FeedInvariant == Safety => []FeedInv
BY FeedStart, FeedStep, PTL DEF Safety

-----------------------------------------------------------------------------
(* What clients may rely on *)

\* consumeOutput() publishes an entry to a socket at most once, and entries in
\* the order of the stream.
THEOREM LiveAlwaysInOrder == Safety => []LiveInOrder
<1>1. FeedInv => LiveInOrder
  BY DEF FeedInv, LiveInv
<1> QED
  BY <1>1, FeedInvariant, PTL

\* Between backfill() and consumeOutput(), nothing that a socket was promised is
\* lost, however its subscription, the XRANGE and the XREADs interleave.
THEOREM NothingEverMissed == Safety => []NothingMissed
<1>1. FeedInv => NothingMissed
  <2> SUFFICES ASSUME FeedInv, NEW s \in open, ~Waiting(s), NEW ch \in channels[s],
                      owed[s][ch] # Null, lastId # Dollar, NEW id \in owed[s][ch] + 1 .. lastId,
                      output[id] = Topic(s, ch)
               PROVE  id \in Known(s) \cup unheard
    BY DEF NothingMissed
  <2>1. s \in Sockets /\ ch \in Channels
    BY DEF FeedInv, FeedTypeOK
  <2>2. owed[s][ch] \in Nat /\ lastId \in Nat /\ lastId <= Len(output) /\ Len(output) \in Nat
    BY <2>1, FeedTypes DEF FeedInv, FeedTypeOK, LoopInv
  <2>3. id \in owed[s][ch] + 1 .. Len(output) /\ ~(id > lastId)
    BY <2>2
  <2>4. Covered(s, id)
    BY <2>1, <2>3 DEF FeedInv, OwedInv
  <2>5. ~Filling(s, id) /\ ~Ahead(id)
    BY <2>3 DEF Filling, Waiting, Ahead
  <2> QED
    BY <2>4, <2>5 DEF Covered
<1> QED
  BY <1>1, FeedInvariant, PTL
=============================================================================
