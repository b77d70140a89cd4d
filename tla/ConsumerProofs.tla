--------------------------- MODULE ConsumerProofs ---------------------------
(***************************************************************************)
(* Theorems about the consumer loop: at least once, and nothing given up   *)
(* that has deliveries left, for any number of consumers, messages and     *)
(* failures.                                                               *)
(***************************************************************************)
EXTENDS ConsumerProperties, ListingProofs

-----------------------------------------------------------------------------
(* Lists of deliveries *)

LEMMA Elements ==
  ASSUME NEW s \in Seq(Delivery)
  PROVE  /\ Len(s) \in Nat /\ DOMAIN s = 1..Len(s)
         /\ \A k \in DOMAIN s : s[k] \in ToSet(s) /\ s[k] \in Delivery /\ s[k].id \in Ids(s)
         /\ \A e \in ToSet(s) : e \in Delivery /\ \E k \in DOMAIN s : s[k] = e
         /\ \A e \in ToSet(s) : e.id \in Ids(s) /\ e.id \in Nat \ {0} /\ e.deliveries \in Nat
         /\ \A i \in Ids(s) : \E e \in ToSet(s) : e.id = i
         /\ \A i \in Ids(s) : \E k \in DOMAIN s : s[k].id = i
         /\ (s = <<>>) <=> (Ids(s) = {})
         /\ s # <<>> => Head(s) \in ToSet(s) /\ Head(s).id \in Ids(s) /\ Head(s) = s[1]
<1>1. Len(s) \in Nat /\ DOMAIN s = 1..Len(s)
  BY LenProperties
<1>2. \A k \in DOMAIN s : s[k] \in Delivery
  BY <1>1, ElementOfSeq
<1>3. \A e \in Delivery : e.id \in Nat \ {0} /\ e.deliveries \in Nat
  BY GroupAssumption DEF Delivery
<1>4. ToSet(s) = {s[k] : k \in DOMAIN s}
  BY DEF ToSet
<1>5. s # <<>> => Head(s) = s[1] /\ 1 \in DOMAIN s
  BY <1>1, EmptySeq
<1>6. s = <<>> => DOMAIN s = {}
  OBVIOUS
<1> QED
  BY <1>1, <1>2, <1>3, <1>4, <1>5, <1>6, Zenon DEF Ids

LEMMA TailElements ==
  ASSUME NEW s \in Seq(Delivery), s # <<>>
  PROVE  Tail(s) \in Seq(Delivery) /\ ToSet(Tail(s)) \subseteq ToSet(s)
<1>1. Tail(s) \in Seq(Delivery) /\ Len(Tail(s)) = Len(s) - 1
      /\ \A k \in 1..Len(Tail(s)) : Tail(s)[k] = s[k + 1]
  BY HeadTailProperties
<1>2. Len(s) \in Nat /\ DOMAIN s = 1..Len(s) /\ Len(Tail(s)) \in Nat /\ DOMAIN Tail(s) = 1..Len(Tail(s))
  BY <1>1, LenProperties
<1>3. \A k \in DOMAIN Tail(s) : k + 1 \in DOMAIN s /\ Tail(s)[k] = s[k + 1]
  BY <1>1, <1>2
<1> QED
  BY <1>1, <1>3 DEF ToSet

LEMMA Concatenation ==
  ASSUME NEW s \in Seq(Delivery), NEW t \in Seq(Delivery)
  PROVE  /\ s \o t \in Seq(Delivery)
         /\ ToSet(s \o t) = ToSet(s) \cup ToSet(t)
         /\ Ids(s \o t) = Ids(s) \cup Ids(t)
         /\ Unique(s) /\ Unique(t) /\ Ids(s) \cap Ids(t) = {} => Unique(s \o t)
<1>1. s \o t \in Seq(Delivery) /\ Len(s \o t) = Len(s) + Len(t)
      /\ \A i \in 1..Len(s) + Len(t) : (s \o t)[i] = IF i <= Len(s) THEN s[i] ELSE t[i - Len(s)]
  BY ConcatProperties
<1>2. Len(s) \in Nat /\ Len(t) \in Nat /\ DOMAIN s = 1..Len(s) /\ DOMAIN t = 1..Len(t)
      /\ DOMAIN (s \o t) = 1..Len(s) + Len(t)
  BY <1>1, LenProperties
<1>3. /\ \A i \in DOMAIN (s \o t) :
           \/ i \in DOMAIN s /\ (s \o t)[i] = s[i]
           \/ i - Len(s) \in DOMAIN t /\ (s \o t)[i] = t[i - Len(s)]
      /\ \A i \in DOMAIN s : i \in DOMAIN (s \o t) /\ (s \o t)[i] = s[i]
      /\ \A i \in DOMAIN t : i + Len(s) \in DOMAIN (s \o t) /\ (s \o t)[i + Len(s)] = t[i]
  BY <1>1, <1>2
<1>4. ToSet(s \o t) = ToSet(s) \cup ToSet(t)
  <2>1. \A e \in ToSet(s \o t) : e \in ToSet(s) \cup ToSet(t)
    BY <1>3 DEF ToSet
  <2>2. \A k \in DOMAIN s : s[k] \in ToSet(s \o t)
    BY <1>3, Zenon DEF ToSet
  <2>3. \A k \in DOMAIN t : t[k] \in ToSet(s \o t)
    BY <1>3, Zenon DEF ToSet
  <2>4. \A e \in ToSet(s) \cup ToSet(t) : e \in ToSet(s \o t)
    BY <2>2, <2>3 DEF ToSet
  <2> QED
    BY <2>1, <2>4
<1>5. Ids(s \o t) = Ids(s) \cup Ids(t)
  <2>1. \A i \in Ids(s \o t) : i \in Ids(s) \cup Ids(t)
    BY <1>3 DEF Ids
  <2>2. \A k \in DOMAIN s : s[k].id \in Ids(s \o t)
    BY <1>3, Zenon DEF Ids
  <2>3. \A k \in DOMAIN t : t[k].id \in Ids(s \o t)
    BY <1>3, Zenon DEF Ids
  <2>4. \A i \in Ids(s) \cup Ids(t) : i \in Ids(s \o t)
    BY <2>2, <2>3 DEF Ids
  <2> QED
    BY <2>1, <2>4
<1>6. ASSUME Unique(s), Unique(t), Ids(s) \cap Ids(t) = {}
      PROVE  Unique(s \o t)
  <2> SUFFICES ASSUME NEW k \in DOMAIN (s \o t), NEW l \in DOMAIN (s \o t),
                      (s \o t)[k].id = (s \o t)[l].id
               PROVE  k = l
    BY DEF Unique
  <2>1. \A i \in DOMAIN s, j \in DOMAIN t : s[i].id # t[j].id
    BY <1>6 DEF Ids
  <2>2. CASE k \in DOMAIN s /\ (s \o t)[k] = s[k]
    BY <1>3, <1>6, <2>1, <2>2 DEF Unique
  <2>3. CASE k - Len(s) \in DOMAIN t /\ (s \o t)[k] = t[k - Len(s)]
    <3>1. l - Len(s) \in DOMAIN t /\ (s \o t)[l] = t[l - Len(s)]
      BY <1>3, <2>1, <2>3
    <3>2. k - Len(s) = l - Len(s)
      BY <1>6, <2>3, <3>1 DEF Unique
    <3> QED
      BY <1>2, <3>2
  <2> QED
    BY <1>3, <2>2, <2>3
<1> QED
  BY <1>1, <1>4, <1>5, <1>6

LEMMA DeliveriesList ==
  ASSUME NEW ids \in SUBSET (Nat \ {0}), IsFiniteSet(ids),
         NEW counter \in [ids -> 1..MaxDeliveries + 1]
  PROVE  /\ Deliveries(counter) \in Seq(Delivery)
         /\ Ids(Deliveries(counter)) = ids
         /\ Unique(Deliveries(counter))
         /\ \A e \in ToSet(Deliveries(counter)) : e.id \in ids /\ e.deliveries = counter[e.id]
<1> DEFINE at == Ascending(ids)
<1>1. ids \in SUBSET Nat
  OBVIOUS
<1>2. /\ at \in Seq(ids)
      /\ \A i \in ids : \E k \in 1..Len(at) : at[k] = i
      /\ \A k, l \in 1..Len(at) : k < l => at[k] < at[l]
  BY <1>1, AscendingLists
<1>3. Len(at) \in Nat /\ DOMAIN at = 1..Len(at) /\ \A k \in 1..Len(at) : at[k] \in ids /\ at[k] \in Nat
  BY <1>1, <1>2, LenProperties, ElementOfSeq
<1>4. Deliveries(counter) =
        [k \in 1..Len(at) |-> [id |-> at[k], deliveries |-> counter[at[k]]]]
  BY <1>3 DEF Deliveries
<1> HIDE DEF at
<1>5. \A k \in 1..Len(at) : [id |-> at[k], deliveries |-> counter[at[k]]] \in Delivery
  BY <1>3 DEF Delivery
<1>6. Deliveries(counter) \in Seq(Delivery) /\ DOMAIN Deliveries(counter) = 1..Len(at)
  BY <1>3, <1>4, <1>5
<1>7. Ids(Deliveries(counter)) = ids
  <2>1. \A k \in 1..Len(at) : Deliveries(counter)[k].id = at[k]
    BY <1>4
  <2>2. \A i \in Ids(Deliveries(counter)) : i \in ids
    BY <1>3, <1>6, <2>1 DEF Ids
  <2>3. \A i \in ids : i \in Ids(Deliveries(counter))
    BY <1>2, <1>6, <2>1 DEF Ids
  <2> QED
    BY <2>2, <2>3
<1>8. Unique(Deliveries(counter))
  BY <1>2, <1>3, <1>4, <1>6 DEF Unique
<1>9. \A e \in ToSet(Deliveries(counter)) : e.id \in ids /\ e.deliveries = counter[e.id]
  BY <1>3, <1>4, <1>6 DEF ToSet
<1> QED
  BY <1>6, <1>7, <1>8, <1>9

LEMMA WithoutList ==
  ASSUME NEW entries \in Seq(Delivery), NEW ids
  PROVE  /\ Without(entries, ids) \in Seq(Delivery)
         /\ ToSet(Without(entries, ids)) = {e \in ToSet(entries) : e.id \notin ids}
         /\ Ids(Without(entries, ids)) = Ids(entries) \ ids
         /\ Unique(entries) => Unique(Without(entries, ids))
<1> DEFINE w == Without(entries, ids)
           places == {k \in DOMAIN entries : entries[k].id \notin ids}
<1>1. Len(entries) \in Nat /\ DOMAIN entries = 1..Len(entries)
  BY LenProperties
<1>2. w \in Seq(Delivery) /\ \E at \in [1..Len(w) -> places] :
        /\ \A p \in places : \E k \in 1..Len(w) : at[k] = p
        /\ \A k, l \in 1..Len(w) : k < l => at[k] < at[l]
        /\ \A k \in 1..Len(w) : w[k] = entries[at[k]]
  <2>1. places \in SUBSET (1..Len(entries)) /\ w = Filter(entries, places)
    BY <1>1 DEF Without
  <2> HIDE DEF places, w
  <2> QED
    BY <2>1, FilterLists
<1>3. PICK at \in [1..Len(w) -> places] :
        /\ \A p \in places : \E k \in 1..Len(w) : at[k] = p
        /\ \A k, l \in 1..Len(w) : k < l => at[k] < at[l]
        /\ \A k \in 1..Len(w) : w[k] = entries[at[k]]
  BY <1>2
<1>4. Len(w) \in Nat /\ DOMAIN w = 1..Len(w)
  BY <1>2, LenProperties
<1> HIDE DEF w
<1>5. ToSet(w) = {e \in ToSet(entries) : e.id \notin ids}
  BY <1>3, <1>4 DEF ToSet
<1>6. Ids(w) = Ids(entries) \ ids
  BY <1>3, <1>4, SMTT(30) DEF Ids
<1>7. ASSUME Unique(entries) PROVE Unique(w)
  <2> SUFFICES ASSUME NEW k \in 1..Len(w), NEW l \in 1..Len(w), w[k].id = w[l].id
               PROVE  k = l
    BY <1>4 DEF Unique
  <2>1. at[k] \in DOMAIN entries /\ at[l] \in DOMAIN entries /\ at[k] \in Nat /\ at[l] \in Nat
    BY <1>1, <1>3
  <2>2. at[k] = at[l]
    BY <1>3, <1>7, <2>1 DEF Unique
  <2> QED
    BY <1>3, <1>4, <2>1, <2>2
<1> QED
  BY <1>2, <1>5, <1>6, <1>7 DEF w

-----------------------------------------------------------------------------
(* What redis does to the group *)

GroupOK(g) == g \in Group /\ Unique(g.pending) /\ Ids(g.pending) \subseteq 1..g.last

\* Messages become pending once, and do not lose deliveries while they are.
Evolves(g, h) ==
  /\ GroupOK(h) /\ g.last <= h.last
  /\ \A p \in ToSet(h.pending) : p.id <= g.last =>
       \E o \in ToSet(g.pending) :
         o.id = p.id /\ (o.deliveries > MaxDeliveries => p.deliveries > MaxDeliveries)

LEMMA GroupTypes ==
  ASSUME NEW g, GroupOK(g)
  PROVE  /\ g.last \in Nat /\ g.pending \in Seq(Delivery)
         /\ IsFiniteSet(1..g.last) /\ 1..g.last \in SUBSET (Nat \ {0})
         /\ \A ids \in SUBSET Ids(g.pending) : IsFiniteSet(ids) /\ ids \in SUBSET (Nat \ {0})
         /\ \A p \in ToSet(g.pending) : p.id <= g.last
<1>1. g.last \in Nat /\ g.pending \in Seq(Delivery)
  BY DEF GroupOK, Group
<1>2. IsFiniteSet(1..g.last)
  BY <1>1, FS_Interval
<1>3. \A i \in 1..g.last : i \in Nat \ {0} /\ i <= g.last
  BY <1>1
<1>4. Ids(g.pending) \subseteq 1..g.last
  BY DEF GroupOK
<1>5. \A ids \in SUBSET Ids(g.pending) : ids \in SUBSET (1..g.last)
  BY <1>4
<1>6. \A ids \in SUBSET Ids(g.pending) : IsFiniteSet(ids) /\ ids \in SUBSET (Nat \ {0})
  BY <1>2, <1>3, <1>5, FS_Subset
<1>7. \A p \in ToSet(g.pending) : p.id \in Ids(g.pending)
  BY <1>1, Elements
<1> QED
  BY <1>1, <1>2, <1>3, <1>4, <1>6, <1>7

LEMMA CounterOf ==
  ASSUME NEW g, GroupOK(g), NEW p \in ToSet(g.pending)
  PROVE  /\ Counter(g, p.id) = p.deliveries
         /\ p.deliveries \in 1..MaxDeliveries + 1
         /\ \A q \in ToSet(g.pending) : q.id = p.id => q = p
<1>1. g.pending \in Seq(Delivery)
  BY GroupTypes
<1>2. \A q \in ToSet(g.pending) : q.id = p.id => q = p
  <2> SUFFICES ASSUME NEW q \in ToSet(g.pending), q.id = p.id
               PROVE  q = p
    OBVIOUS
  <2>1. PICK k \in DOMAIN g.pending, l \in DOMAIN g.pending : g.pending[k] = p /\ g.pending[l] = q
    BY <1>1, Elements
  <2> QED
    BY <2>1 DEF GroupOK, Unique
<1>3. (CHOOSE e \in ToSet(g.pending) : e.id = p.id) = p
  BY <1>2
<1>4. p \in Delivery
  BY <1>1, Elements
<1> QED
  BY <1>2, <1>3, <1>4 DEF Counter, Delivery

LEMMA Claimed ==
  ASSUME NEW g, GroupOK(g), NEW ids \in SUBSET Ids(g.pending)
  PROVE  /\ Evolves(g, Reclaim(g, ids))
         /\ Reclaim(g, ids).last = g.last
         /\ Ids(Reclaim(g, ids).pending) = Ids(g.pending)
<1> DEFINE next == [id \in ids |-> IF Counter(g, id) > MaxDeliveries THEN MaxDeliveries + 1
                                   ELSE Counter(g, id) + 1]
           kept == Without(g.pending, ids)
           claimed == Deliveries(next)
           h == Reclaim(g, ids)
<1>1. /\ g.last \in Nat /\ g.pending \in Seq(Delivery)
      /\ IsFiniteSet(ids) /\ ids \in SUBSET (Nat \ {0})
      /\ \A p \in ToSet(g.pending) : p.id <= g.last
  BY GroupTypes
<1>2. h = [g EXCEPT !.pending = kept \o claimed]
  BY DEF Reclaim
<1>3. h.last = g.last /\ h.pending = kept \o claimed
  BY <1>2 DEF GroupOK, Group
<1>4. \A i \in ids : \E p \in ToSet(g.pending) :
        p.id = i /\ Counter(g, i) = p.deliveries /\ p.deliveries \in 1..MaxDeliveries + 1
  BY <1>1, Elements, CounterOf
<1>5. next \in [ids -> 1..MaxDeliveries + 1]
  BY <1>4, GroupAssumption
<1>6. /\ claimed \in Seq(Delivery) /\ Ids(claimed) = ids /\ Unique(claimed)
      /\ \A e \in ToSet(claimed) : e.id \in ids /\ e.deliveries = next[e.id]
  <2> HIDE DEF next
  <2> QED
    BY <1>1, <1>5, DeliveriesList
<1>7. /\ kept \in Seq(Delivery) /\ Ids(kept) = Ids(g.pending) \ ids /\ Unique(kept)
      /\ ToSet(kept) \subseteq ToSet(g.pending)
  BY <1>1, WithoutList DEF GroupOK
<1>8. /\ h.pending \in Seq(Delivery) /\ Ids(h.pending) = Ids(g.pending) /\ Unique(h.pending)
      /\ ToSet(h.pending) = ToSet(kept) \cup ToSet(claimed)
  <2> HIDE DEF kept, claimed, h
  <2>1. Ids(kept) \cap Ids(claimed) = {} /\ Ids(kept) \cup Ids(claimed) = Ids(g.pending)
    BY <1>6, <1>7
  <2> QED
    <3>1. /\ kept \o claimed \in Seq(Delivery) /\ Unique(kept \o claimed)
          /\ ToSet(kept \o claimed) = ToSet(kept) \cup ToSet(claimed)
          /\ Ids(kept \o claimed) = Ids(kept) \cup Ids(claimed)
      BY <1>6, <1>7, <2>1, Concatenation
    <3> QED
      BY <1>3, <2>1, <3>1
<1>9. GroupOK(h)
  <2>1. h \in Group
    BY <1>2, <1>3, <1>8 DEF GroupOK, Group
  <2> QED
    BY <1>3, <1>8, <2>1 DEF GroupOK
<1>10. ASSUME NEW p \in ToSet(h.pending)
       PROVE  \E o \in ToSet(g.pending) :
                o.id = p.id /\ (o.deliveries > MaxDeliveries => p.deliveries > MaxDeliveries)
  <2>1. CASE p \in ToSet(kept)
    BY <1>7, <2>1
  <2>2. CASE p \in ToSet(claimed)
    <3>1. p.id \in ids /\ p.deliveries = next[p.id]
      BY <1>6, <2>2
    <3>2. PICK o \in ToSet(g.pending) : o.id = p.id /\ Counter(g, p.id) = o.deliveries
      BY <1>4, <3>1
    <3>3. o.deliveries > MaxDeliveries => next[p.id] > MaxDeliveries
      BY <3>1, <3>2, GroupAssumption
    <3> QED
      BY <3>1, <3>2, <3>3
  <2> QED
    BY <1>8, <1>10, <2>1, <2>2
<1> HIDE DEF next, kept, claimed, h
<1>11. Evolves(g, h)
  BY <1>1, <1>3, <1>9, <1>10 DEF Evolves
<1>12. h.last = g.last /\ Ids(h.pending) = Ids(g.pending)
  BY <1>3, <1>8
<1> QED
  BY <1>11, <1>12 DEF h

LEMMA Acknowledged ==
  ASSUME NEW g, GroupOK(g), NEW id
  PROVE  /\ Evolves(g, Ack(g, id))
         /\ Ack(g, id).last = g.last
         /\ Ids(Ack(g, id).pending) = Ids(g.pending) \ {id}
<1> DEFINE kept == Without(g.pending, {id})
           h == Ack(g, id)
<1>1. g.last \in Nat /\ g.pending \in Seq(Delivery)
  BY GroupTypes
<1>2. h = [g EXCEPT !.pending = kept]
  BY DEF Ack
<1>3. h.last = g.last /\ h.pending = kept
  BY <1>2 DEF GroupOK, Group
<1>4. /\ kept \in Seq(Delivery) /\ Ids(kept) = Ids(g.pending) \ {id} /\ Unique(kept)
      /\ ToSet(kept) \subseteq ToSet(g.pending)
  BY <1>1, WithoutList DEF GroupOK
<1>5. GroupOK(h)
  BY <1>2, <1>3, <1>4 DEF GroupOK, Group
<1> HIDE DEF kept, h
<1>6. Evolves(g, h)
  BY <1>1, <1>3, <1>4, <1>5 DEF Evolves
<1>7. h.last = g.last /\ Ids(h.pending) = Ids(g.pending) \ {id}
  BY <1>3, <1>4
<1> QED
  BY <1>6, <1>7 DEF h

LEMMA NewlyDelivered ==
  ASSUME NEW g, GroupOK(g), NEW length \in Nat, g.last <= length
  PROVE  LET n == NewEntries(g, length)  h == DeliverNew(g, n) IN
         /\ n \in Seq(Delivery)
         /\ \A k \in 1..Len(n) : n[k] = [id |-> g.last + k, deliveries |-> 1]
         /\ \A e \in ToSet(n) : e.id <= h.last /\ e.deliveries = 1
         /\ h.last = g.last + Len(n) /\ h.last <= length
         /\ Evolves(g, h)
         /\ Ids(h.pending) = Ids(g.pending) \cup (g.last + 1 .. h.last)
<1> DEFINE n == NewEntries(g, length)
           h == DeliverNew(g, n)
           m == IF length - g.last > Count THEN Count ELSE length - g.last
<1>1. g.last \in Nat /\ g.pending \in Seq(Delivery) /\ \A p \in ToSet(g.pending) : p.id <= g.last
  BY GroupTypes
<1>2. m \in Nat /\ g.last + m <= length
  BY <1>1, GroupAssumption
<1>3. n = [k \in 1..m |-> [id |-> g.last + k, deliveries |-> 1]]
  BY DEF NewEntries
<1> HIDE DEF m
<1>4. \A k \in 1..m : [id |-> g.last + k, deliveries |-> 1] \in Delivery
  BY <1>1, <1>2, GroupAssumption DEF Delivery
<1>5. n \in Seq(Delivery) /\ Len(n) = m /\ DOMAIN n = 1..m
  BY <1>2, <1>3, <1>4
<1>6. h = [last |-> g.last + m, pending |-> g.pending \o n]
  BY <1>5 DEF DeliverNew
<1>7. h.last = g.last + m /\ h.pending = g.pending \o n
  BY <1>6
<1>8. \A k \in 1..m : n[k] = [id |-> g.last + k, deliveries |-> 1]
  BY <1>3
<1>9. \A e \in ToSet(n) : e.id \in g.last + 1 .. g.last + m /\ e.deliveries = 1
  BY <1>1, <1>2, <1>5, <1>8 DEF ToSet
<1>10. Ids(n) = g.last + 1 .. g.last + m
  <2> DEFINE last == g.last
  <2> HIDE DEF n
  <2>0. last \in Nat /\ \A k \in 1..m : n[k].id = last + k
    <3>1. \A k \in 1..m : n[k] = [id |-> last + k, deliveries |-> 1]
      BY <1>8
    <3>2. last \in Nat
      BY <1>1
    <3> HIDE DEF last
    <3>3. \A k \in 1..m : n[k].id = last + k
      <4> TAKE k \in 1..m
      <4>1. n[k] = [id |-> last + k, deliveries |-> 1]
        BY <3>1
      <4> QED
        BY <1>2, <3>2, <4>1
    <3> QED
      BY <3>2, <3>3
  <2> HIDE DEF last
  <2>a. /\ \A k \in 1..m : last + k \in last + 1 .. last + m
        /\ \A i \in last + 1 .. last + m : i - last \in 1..m /\ last + (i - last) = i
    BY <1>2, <2>0
  <2>1. \A k \in 1..m : n[k].id = g.last + k /\ g.last + k \in g.last + 1 .. g.last + m
    BY <2>0, <2>a DEF last
  <2>2. \A i \in g.last + 1 .. g.last + m : i - g.last \in 1..m /\ n[i - g.last].id = i
    BY <2>0, <2>a DEF last
  <2>3. \A i \in Ids(n) : i \in g.last + 1 .. g.last + m
    BY <1>5, <2>1 DEF Ids
  <2>4. \A i \in g.last + 1 .. g.last + m : i \in Ids(n)
    BY <1>5, <2>2, Zenon DEF Ids
  <2> QED
    BY <2>3, <2>4
<1>11. Unique(n)
  BY <1>1, <1>5, <1>8 DEF Unique
<1> HIDE DEF n, h
<1>12. /\ h.pending \in Seq(Delivery) /\ Unique(h.pending)
       /\ ToSet(h.pending) = ToSet(g.pending) \cup ToSet(n)
       /\ Ids(h.pending) = Ids(g.pending) \cup (g.last + 1 .. g.last + m)
  <2>1. Ids(g.pending) \cap Ids(n) = {}
    BY <1>1, <1>10 DEF GroupOK
  <2> QED
    BY <1>1, <1>5, <1>7, <1>10, <1>11, <2>1, Concatenation DEF GroupOK
<1>13. GroupOK(h)
  <2>1. h \in Group
    BY <1>1, <1>2, <1>6, <1>7, <1>12 DEF Group
  <2>2. \A i \in Ids(h.pending) : i \in 1..h.last
    BY <1>1, <1>2, <1>7, <1>12 DEF GroupOK
  <2> QED
    BY <1>12, <2>1, <2>2 DEF GroupOK
<1>14. Evolves(g, h)
  <2>1. \A p \in ToSet(h.pending) : p.id <= g.last => p \in ToSet(g.pending)
    BY <1>1, <1>2, <1>9, <1>12
  <2> QED
    BY <1>1, <1>2, <1>7, <1>13, <2>1 DEF Evolves
<1>15. \A e \in ToSet(n) : e.id <= h.last /\ e.deliveries = 1
  BY <1>1, <1>2, <1>7, <1>9
<1> QED
  BY <1>2, <1>5, <1>7, <1>8, <1>12, <1>14, <1>15 DEF n, h

LEMMA Counted ==
  ASSUME NEW g, GroupOK(g), NEW ids \in SUBSET (1..g.last)
  PROVE  /\ DeliveryCounts(g, ids) \in Seq(Delivery)
         /\ Ids(DeliveryCounts(g, ids)) = ids
         /\ \A e \in ToSet(DeliveryCounts(g, ids)) : e.id <= g.last /\
              (e.deliveries > MaxDeliveries =>
                 \A p \in ToSet(g.pending) : p.id = e.id => p.deliveries > MaxDeliveries)
<1> DEFINE low == Lowest(Ids(g.pending), Cardinality(ids))
           counts == [id \in ids |-> IF id \in low THEN Counter(g, id) ELSE 1]
<1>1. /\ g.last \in Nat /\ g.pending \in Seq(Delivery)
      /\ IsFiniteSet(1..g.last) /\ 1..g.last \in SUBSET (Nat \ {0})
  BY GroupTypes
<1>2. IsFiniteSet(ids) /\ ids \in SUBSET (Nat \ {0}) /\ \A i \in ids : i <= g.last
  <2>1. \A i \in ids : i \in 1..g.last
    OBVIOUS
  <2>2. \A i \in ids : i <= g.last /\ i \in Nat \ {0}
    BY <1>1, <2>1
  <2> QED
    BY <1>1, <2>2, FS_Subset
<1>3. low \subseteq Ids(g.pending)
  BY DEF Lowest
<1> HIDE DEF low
<1>4. \A i \in low : \E p \in ToSet(g.pending) : p.id = i
  BY <1>1, <1>3, Elements
<1>5. \A i \in low : Counter(g, i) \in 1..MaxDeliveries + 1
  BY <1>4, CounterOf
<1>6. counts \in [ids -> 1..MaxDeliveries + 1]
  BY <1>5, GroupAssumption
<1>7. DeliveryCounts(g, ids) = Deliveries(counts)
  BY DEF DeliveryCounts, low
<1>8. \A i \in ids : counts[i] > MaxDeliveries =>
        \A p \in ToSet(g.pending) : p.id = i => p.deliveries > MaxDeliveries
  <2> SUFFICES ASSUME NEW i \in ids, counts[i] > MaxDeliveries,
                      NEW p \in ToSet(g.pending), p.id = i
               PROVE  p.deliveries > MaxDeliveries
    OBVIOUS
  <2>1. counts[i] = Counter(g, i)
    BY GroupAssumption
  <2>2. Counter(g, i) = p.deliveries
    BY CounterOf
  <2> QED
    BY <2>1, <2>2
<1> HIDE DEF counts
<1>9. /\ Deliveries(counts) \in Seq(Delivery)
      /\ Ids(Deliveries(counts)) = ids
      /\ \A e \in ToSet(Deliveries(counts)) : e.id \in ids /\ e.deliveries = counts[e.id]
  BY <1>2, <1>6, DeliveriesList
<1> QED
  BY <1>2, <1>7, <1>8, <1>9

\* XAUTOCLAIM finds entries of the pending list.
LEMMA Claimable ==
  ASSUME NEW g, GroupOK(g), NEW idle \in 0..Len(g.pending)
  PROVE  ClaimIds(g, idle) \in SUBSET Ids(g.pending)
<1>1. g.pending \in Seq(Delivery)
  BY GroupTypes
<1>2. Len(g.pending) \in Nat /\ DOMAIN g.pending = 1..Len(g.pending)
      /\ \A k \in 1..Len(g.pending) : g.pending[k] \in Delivery
  BY <1>1, LenProperties, ElementOfSeq
<1> DEFINE first == SubSeq(g.pending, 1, idle)
<1>3. first \in Seq(Delivery) /\ Len(first) = idle
      /\ \A k \in 1..idle : first[k] = g.pending[k]
  <2>1. \A k \in 1..idle : g.pending[k] \in Delivery
    BY <1>2
  <2>2. idle \in Int /\ 1 \in Int /\ idle >= 0
    BY <1>2
  <2>3. /\ first \in Seq(Delivery)
        /\ Len(first) = IF 1 <= idle THEN idle - 1 + 1 ELSE 0
        /\ \A i \in 1..idle - 1 + 1 : first[i] = g.pending[1 + i - 1]
    BY <2>1, <2>2, SubSeqProperties
  <2>4. idle - 1 + 1 = idle /\ \A i \in 1..idle : 1 + i - 1 = i
    BY <2>2
  <2> QED
    BY <2>2, <2>3, <2>4
<1>4. DOMAIN first = 1..idle
  BY <1>3, LenProperties
<1> HIDE DEF first
<1>5. \A k \in 1..idle : first[k].id \in Ids(g.pending)
  <2>1. \A k \in 1..idle : k \in DOMAIN g.pending
    BY <1>2
  <2>2. \A k \in DOMAIN g.pending : g.pending[k].id \in Ids(g.pending)
    BY DEF Ids
  <2> QED
    BY <1>3, <2>1, <2>2
<1>6. Ids(first) \subseteq Ids(g.pending)
  BY <1>4, <1>5 DEF Ids
<1> QED
  BY <1>6 DEF ClaimIds, Lowest, first

-----------------------------------------------------------------------------
(* The inductive invariant *)

\* The program counters of a loop that has c at r, given that the others wait.
LEMMA LoopMoves ==
  ASSUME ConsumerInv, NEW c \in Consumers, NEW r \in Loop,
         loop' = [loop EXCEPT ![c] = r],
         stream' = stream, group'.last <= Len(stream),
         Evolves(group, group'), NothingLost',
         handled \cup dead \subseteq handled' \cup dead',
         \A e \in ToSet(r.batch) :
           \/ e \in ToSet(loop[c].batch) /\ (r.step = "new" => loop[c].step = "new")
           \/ /\ e.id <= group'.last
              /\ r.step = "new" => e.deliveries = 1
              /\ e.deliveries > MaxDeliveries =>
                   \A p \in ToSet(group'.pending) : p.id = e.id => p.deliveries > MaxDeliveries,
         (r.batch = <<>>) <=> (r.step \in {"claim", "read"}),
         r.resolved => r.step \in {"reclaimed", "new"} /\ Head(r.batch).id \in handled' \cup dead'
  PROVE  ConsumerInv'
<1>1. /\ loop \in [Consumers -> Loop] /\ stream \in Seq(Messages) /\ Len(stream) <= MaxMessages
      /\ group \in Group /\ group.last \in Nat
  BY DEF ConsumerInv, ConsumerTypeOK, Group
<1>2. loop' \in [Consumers -> Loop] /\ loop'[c] = r /\ \A d \in Consumers \ {c} : loop'[d] = loop[d]
  BY <1>1
<1>3. /\ group' \in Group /\ Unique(group'.pending) /\ Ids(group'.pending) \subseteq 1..group'.last
      /\ group'.last \in Nat /\ group.last <= group'.last
  BY DEF Evolves, GroupOK, Group
<1>4. ConsumerTypeOK'
  BY <1>1, <1>2, <1>3 DEF ConsumerTypeOK
<1>5. PendingInv'
  <2>1. Unique(group.pending)'
    BY <1>3 DEF Unique
  <2>2. (Ids(group.pending) \subseteq 1..group.last)'
    BY <1>3 DEF Ids
  <2> QED
    BY <2>1, <2>2 DEF PendingInv
<1>6. \A d \in Consumers : \A e \in ToSet(loop[d].batch) : e.id \in Nat /\ e.deliveries \in Nat
  <2> TAKE d \in Consumers
  <2>1. loop[d].batch \in Seq(Delivery)
    BY <1>1 DEF Loop
  <2> QED
    BY <2>1, Elements
<1>7. ASSUME NEW d \in Consumers, NEW e \in ToSet(loop[d].batch)
      PROVE  /\ e.id <= group'.last
             /\ e.deliveries > MaxDeliveries =>
                  \A p \in ToSet(group'.pending) : p.id = e.id => p.deliveries > MaxDeliveries
  <2>1. /\ e.id <= group.last
        /\ e.deliveries > MaxDeliveries =>
             \A p \in ToSet(group.pending) : p.id = e.id => p.deliveries > MaxDeliveries
    BY DEF ConsumerInv, Held
  <2>2. e.id <= group'.last
    BY <1>1, <1>3, <1>6, <2>1
  <2>3. ASSUME e.deliveries > MaxDeliveries, NEW p \in ToSet(group'.pending), p.id = e.id
        PROVE  p.deliveries > MaxDeliveries
    <3>1. p.id <= group.last
      BY <2>1, <2>3
    <3>2. PICK o \in ToSet(group.pending) :
            o.id = p.id /\ (o.deliveries > MaxDeliveries => p.deliveries > MaxDeliveries)
      BY <3>1 DEF Evolves
    <3> QED
      BY <2>1, <2>3, <3>2
  <2> QED
    BY <2>2, <2>3
<1>8. ASSUME NEW d \in Consumers PROVE Held(d)'
  <2> SUFFICES ASSUME NEW e \in ToSet(loop'[d].batch)
               PROVE  /\ e.id <= group'.last
                      /\ loop'[d].step = "new" => e.deliveries = 1
                      /\ e.deliveries > MaxDeliveries =>
                           \A p \in ToSet(group'.pending) : p.id = e.id => p.deliveries > MaxDeliveries
    BY DEF Held, At
  <2>0. \A x \in Consumers : \A y \in ToSet(loop[x].batch) : loop[x].step = "new" => y.deliveries = 1
    BY DEF ConsumerInv, Held, At
  <2>1. CASE d # c
    BY <1>2, <1>7, <2>0, <2>1
  <2>2. CASE d = c
    BY <1>2, <1>7, <2>0, <2>2
  <2> QED
    BY <2>1, <2>2
<1>9. ASSUME NEW d \in Consumers PROVE LoopInv(d)'
  <2>1. CASE d # c
    BY <1>2, <2>1 DEF ConsumerInv, LoopInv, At, Current
  <2>2. CASE d = c
    BY <1>2, <2>2 DEF LoopInv, At, Current
  <2> QED
    BY <2>1, <2>2
<1> QED
  BY <1>4, <1>5, <1>8, <1>9 DEF ConsumerInv

LEMMA NothingChanges ==
  ASSUME NEW g, GroupOK(g)
  PROVE  Evolves(g, g)
<1>1. g.last \in Nat
  BY GroupTypes
<1> QED
  BY <1>1 DEF Evolves

\* What every step may use.
LEMMA Facts ==
  ASSUME ConsumerInv
  PROVE  /\ GroupOK(group) /\ Evolves(group, group) /\ group.last \in Nat
         /\ Len(stream) \in Nat /\ group.last <= Len(stream)
         /\ \A c \in Consumers :
              /\ loop[c] \in Loop /\ loop[c].batch \in Seq(Delivery)
              /\ (loop[c].batch = <<>>) <=> (loop[c].step \in {"claim", "read"})
              /\ loop[c].resolved =>
                   loop[c].step \in {"reclaimed", "new"} /\ Head(loop[c].batch).id \in handled \cup dead
         /\ \A id \in 1..group.last : id \in Ids(group.pending) \cup handled \cup dead
<1>1. GroupOK(group)
  BY DEF ConsumerInv, ConsumerTypeOK, PendingInv, GroupOK
<1>2. Evolves(group, group) /\ group.last \in Nat
  BY <1>1, GroupTypes, NothingChanges
<1>3. Len(stream) \in Nat /\ group.last <= Len(stream)
  BY LenProperties DEF ConsumerInv, ConsumerTypeOK
<1>4. ASSUME NEW c \in Consumers
      PROVE  /\ loop[c] \in Loop /\ loop[c].batch \in Seq(Delivery)
             /\ (loop[c].batch = <<>>) <=> (loop[c].step \in {"claim", "read"})
             /\ loop[c].resolved =>
                  loop[c].step \in {"reclaimed", "new"} /\ Head(loop[c].batch).id \in handled \cup dead
  <2>1. loop[c] \in Loop /\ loop[c].batch \in Seq(Delivery)
    BY DEF ConsumerInv, ConsumerTypeOK, Loop
  <2> QED
    BY <2>1 DEF ConsumerInv, LoopInv, At, Current
<1> QED
  BY <1>1, <1>2, <1>3, <1>4 DEF ConsumerInv, NothingLost

\* A step that leaves the group alone keeps what is pending.
LEMMA StillThere ==
  ASSUME ConsumerInv, group' = group, handled \cup dead \subseteq handled' \cup dead'
  PROVE  NothingLost'
BY DEF ConsumerInv, NothingLost, Ids

LEMMA NextMessageMoves ==
  ASSUME ConsumerInv, NEW c \in Consumers, NextMessage(c),
         loop[c].step \in {"reclaimed", "new"},
         stream' = stream, group'.last <= Len(stream),
         Evolves(group, group'), NothingLost',
         handled \cup dead \subseteq handled' \cup dead'
  PROVE  ConsumerInv'
<1> DEFINE rest == Tail(loop[c].batch)
           next == IF rest # <<>> THEN loop[c].step ELSE IF At(c, "new") THEN "claim" ELSE "read"
           r == [step |-> next, batch |-> rest, resolved |-> FALSE]
<1>1. loop[c].batch # <<>> /\ loop[c].batch \in Seq(Delivery) /\ loop[c] \in Loop
  BY Facts
<1>2. rest \in Seq(Delivery) /\ ToSet(rest) \subseteq ToSet(loop[c].batch)
  BY <1>1, TailElements
<1>3. loop' = [loop EXCEPT ![c] = r]
  BY DEF NextMessage, GoTo
<1>4. /\ next \in Steps
      /\ (rest = <<>>) <=> (next \in {"claim", "read"})
      /\ next = "new" => loop[c].step = "new"
  BY DEF Steps, At
<1> HIDE DEF rest, next
<1>5. r \in Loop
  <2>1. rest \in Seq(Delivery) /\ next \in Steps /\ FALSE \in BOOLEAN
    BY <1>2, <1>4
  <2> QED
    BY <2>1, Zenon DEF Loop
<1>6. r.batch = rest /\ r.step = next /\ ~r.resolved
  OBVIOUS
<1> HIDE DEF r
<1>7. /\ \A e \in ToSet(r.batch) :
           e \in ToSet(loop[c].batch) /\ (r.step = "new" => loop[c].step = "new")
      /\ (r.batch = <<>>) <=> (r.step \in {"claim", "read"})
      /\ ~r.resolved
  BY <1>2, <1>4, <1>6
<1> QED
  BY <1>3, <1>5, <1>7, LoopMoves

\* The consumer starts from the top again, with nothing in hand.
LEMMA TopMoves ==
  ASSUME ConsumerInv, NEW c \in Consumers, loop' = [loop EXCEPT ![c] = Top],
         stream' = stream, group'.last <= Len(stream),
         Evolves(group, group'), NothingLost',
         handled \cup dead \subseteq handled' \cup dead'
  PROVE  ConsumerInv'
<1>1. Top \in Loop /\ Top.batch = <<>> /\ Top.step = "claim" /\ ~Top.resolved
  <2>1. <<>> \in Seq(Delivery)
    BY EmptySeq
  <2> QED
    BY <2>1 DEF Top, Loop, Steps
<1>2. ToSet(Top.batch) = {}
  <2>1. DOMAIN << >> = {}
    OBVIOUS
  <2> QED
    BY <1>1, <2>1 DEF ToSet
<1> QED
  BY <1>1, <1>2, LoopMoves

LEMMA ClaimStep ==
  ASSUME ConsumerInv, NEW c \in Consumers, NEW idle \in 0..Len(group.pending), Claim(c, idle)
  PROVE  ConsumerInv'
<1> DEFINE ids == ClaimIds(group, idle)
           batch == Deliveries([id \in ids |-> 1])
           next == IF ids = {} THEN "read" ELSE "count"
           r == [step |-> next, batch |-> batch, resolved |-> FALSE]
<1>1. GroupOK(group) /\ group.last <= Len(stream)
  BY Facts
<1>2. /\ group' = Reclaim(group, ids) /\ loop' = [loop EXCEPT ![c] = r]
      /\ stream' = stream /\ handled' = handled /\ dead' = dead
  BY DEF Claim, GoTo
<1>3. ids \in SUBSET Ids(group.pending)
  BY <1>1, Claimable
<1> HIDE DEF ids
<1>4. /\ Evolves(group, group') /\ group'.last = group.last
      /\ Ids(group'.pending) = Ids(group.pending)
  BY <1>1, <1>2, <1>3, Claimed
<1>5. IsFiniteSet(ids) /\ ids \in SUBSET (Nat \ {0}) /\ \A i \in ids : i <= group.last
  <2>1. group.last \in Nat /\ Ids(group.pending) \subseteq 1..group.last
    BY <1>1, GroupTypes DEF GroupOK
  <2>2. \A i \in 1..group.last : i <= group.last
    BY <2>1
  <2> QED
    BY <1>1, <1>3, <2>1, <2>2, GroupTypes
<1>6. /\ batch \in Seq(Delivery) /\ Ids(batch) = ids
      /\ \A e \in ToSet(batch) : e.id <= group.last /\ e.deliveries = 1
  <2>1. [id \in ids |-> 1] \in [ids -> 1..MaxDeliveries + 1]
    BY GroupAssumption
  <2>2. /\ batch \in Seq(Delivery) /\ Ids(batch) = ids
        /\ \A e \in ToSet(batch) : e.id \in ids /\ e.deliveries = [id \in ids |-> 1][e.id]
    BY <1>5, <2>1, DeliveriesList
  <2> QED
    BY <1>5, <2>2
<1> HIDE DEF batch
<1>7. (batch = <<>>) <=> (next \in {"claim", "read"})
  BY <1>6, Elements
<1>8. r \in Loop
  BY <1>6 DEF Loop, Steps
<1>9. NothingLost'
  <2>1. \A id \in 1..group.last : id \in Ids(group.pending) \cup handled \cup dead
    BY Facts
  <2> QED
    BY <1>2, <1>4, <2>1 DEF NothingLost, Ids
<1>10. /\ \A e \in ToSet(r.batch) :
            /\ e.id <= group'.last
            /\ r.step = "new" => e.deliveries = 1
            /\ ~(e.deliveries > MaxDeliveries)
       /\ (r.batch = <<>>) <=> (r.step \in {"claim", "read"})
       /\ ~r.resolved
  BY <1>4, <1>6, <1>7, GroupAssumption
<1> HIDE DEF r
<1> QED
  BY <1>1, <1>2, <1>4, <1>8, <1>9, <1>10, LoopMoves

LEMMA CountStep ==
  ASSUME ConsumerInv, NEW c \in Consumers, CountDeliveries(c)
  PROVE  ConsumerInv'
<1> DEFINE batch == DeliveryCounts(group, Ids(loop[c].batch))
           r == [step |-> "reclaimed", batch |-> batch, resolved |-> FALSE]
<1>1. GroupOK(group) /\ group.last <= Len(stream) /\ group.last \in Nat
  BY Facts
<1>2. loop' = [loop EXCEPT ![c] = r] /\ group' = group /\ UNCHANGED <<stream, handled, dead>>
  BY DEF CountDeliveries, GoTo
<1>3. loop[c].batch \in Seq(Delivery) /\ loop[c].batch # <<>>
  BY Facts DEF CountDeliveries, At
<1>4. Ids(loop[c].batch) \in SUBSET (1..group.last) /\ Ids(loop[c].batch) # {}
  <2>1. \A e \in ToSet(loop[c].batch) : e.id <= group.last /\ e.id \in Nat \ {0}
    BY <1>3, Elements DEF ConsumerInv, Held
  <2>2. \A i \in Ids(loop[c].batch) : i \in 1..group.last
    BY <1>1, <1>3, <2>1, Elements
  <2> QED
    BY <1>3, <2>2, Elements
<1>5. /\ batch \in Seq(Delivery) /\ batch # <<>>
      /\ \A e \in ToSet(batch) : e.id <= group.last /\
           (e.deliveries > MaxDeliveries =>
              \A p \in ToSet(group.pending) : p.id = e.id => p.deliveries > MaxDeliveries)
  BY <1>1, <1>4, Counted, Elements
<1> HIDE DEF batch
<1>6. r \in Loop
  BY <1>5 DEF Loop, Steps
<1>7. NothingLost'
  BY <1>2, StillThere
<1>8. /\ Evolves(group, group') /\ group'.last <= Len(stream)
      /\ r.step = "reclaimed" /\ r.batch = batch /\ ~r.resolved
  BY <1>1, <1>2, NothingChanges
<1> HIDE DEF r
<1> QED
  BY <1>2, <1>5, <1>6, <1>7, <1>8, LoopMoves

LEMMA ReadStep ==
  ASSUME ConsumerInv, NEW c \in Consumers, ReadNew(c)
  PROVE  ConsumerInv'
<1> DEFINE entries == NewEntries(group, Len(stream))
           next == IF entries = <<>> THEN "claim" ELSE "new"
           r == [step |-> next, batch |-> entries, resolved |-> FALSE]
<1>1. GroupOK(group) /\ group.last <= Len(stream) /\ Len(stream) \in Nat /\ group.last \in Nat
  BY Facts
<1>2. /\ group' = DeliverNew(group, entries) /\ loop' = [loop EXCEPT ![c] = r]
      /\ stream' = stream /\ handled' = handled /\ dead' = dead
  BY DEF ReadNew, GoTo
<1>3. /\ entries \in Seq(Delivery)
      /\ \A e \in ToSet(entries) : e.id <= group'.last /\ e.deliveries = 1
      /\ group'.last <= Len(stream) /\ Evolves(group, group')
      /\ Ids(group'.pending) = Ids(group.pending) \cup (group.last + 1 .. group'.last)
  BY <1>1, <1>2, NewlyDelivered
<1> HIDE DEF entries
<1>4. r \in Loop
  BY <1>3 DEF Loop, Steps
<1>5. NothingLost'
  <2>1. \A id \in 1..group.last : id \in Ids(group.pending) \cup handled \cup dead
    BY Facts
  <2>2. group'.last \in Nat
    BY <1>3, GroupTypes DEF Evolves
  <2>3. \A id \in 1..group'.last : id \in 1..group.last \/ id \in group.last + 1 .. group'.last
    BY <1>1, <2>2
  <2>4. \A id \in 1..group'.last : id \in Ids(group'.pending) \cup handled \cup dead
    BY <1>3, <2>1, <2>3
  <2> QED
    BY <1>2, <2>4 DEF NothingLost, Ids
<1>6. /\ \A e \in ToSet(r.batch) : e.id <= group'.last /\ e.deliveries = 1 /\ ~(e.deliveries > MaxDeliveries)
      /\ (r.batch = <<>>) <=> (r.step \in {"claim", "read"})
      /\ ~r.resolved
  BY <1>3, GroupAssumption
<1> HIDE DEF r
<1> QED
  BY <1>2, <1>3, <1>4, <1>5, <1>6, LoopMoves

\* A message is marked as resolved when it is handled or dead-lettered.
LEMMA ResolveStep ==
  ASSUME ConsumerInv, NEW c \in Consumers, Dispatching(c), Resolve(c),
         UNCHANGED <<stream, group>>,
         handled \cup dead \subseteq handled' \cup dead', Current(c).id \in handled' \cup dead'
  PROVE  ConsumerInv'
<1> DEFINE r == [loop[c] EXCEPT !.resolved = TRUE]
<1>1. /\ group.last <= Len(stream) /\ Evolves(group, group)
      /\ loop[c] \in Loop
      /\ (loop[c].batch = <<>>) <=> (loop[c].step \in {"claim", "read"})
  BY Facts
<1>2. loop' = [loop EXCEPT ![c] = r]
  BY DEF Resolve
<1>3. r \in Loop /\ r.batch = loop[c].batch /\ r.step = loop[c].step
  BY <1>1 DEF Loop
<1>4. r.step \in {"reclaimed", "new"} /\ Head(r.batch).id \in handled' \cup dead'
  BY <1>3 DEF Dispatching, At, Current
<1>5. NothingLost'
  BY StillThere
<1> HIDE DEF r
<1> QED
  BY <1>1, <1>2, <1>3, <1>4, <1>5, LoopMoves

LEMMA AckStep ==
  ASSUME ConsumerInv, NEW c \in Consumers, AckMessage(c)
  PROVE  ConsumerInv'
<1> DEFINE id == Current(c).id
<1>1. GroupOK(group) /\ group.last <= Len(stream)
  BY Facts
<1>2. loop[c].step \in {"reclaimed", "new"} /\ id \in handled \cup dead
  BY Facts DEF AckMessage, Current
<1>3. group' = Ack(group, id) /\ NextMessage(c) /\ UNCHANGED <<stream, handled, dead>>
  BY DEF AckMessage
<1> HIDE DEF id
<1>4. /\ Evolves(group, group') /\ group'.last = group.last
      /\ Ids(group'.pending) = Ids(group.pending) \ {id}
  BY <1>1, <1>3, Acknowledged
<1>5. NothingLost'
  <2>1. \A i \in 1..group.last : i \in Ids(group.pending) \cup handled \cup dead
    BY Facts
  <2>2. \A i \in 1..group.last : i \in Ids(group'.pending) \cup handled \cup dead
    BY <1>2, <1>4, <2>1
  <2> QED
    BY <1>3, <1>4, <2>2 DEF NothingLost, Ids
<1> QED
  BY <1>1, <1>2, <1>3, <1>4, <1>5, NextMessageMoves

LEMMA ReplyLostStep ==
  ASSUME ConsumerInv, NEW c \in Consumers, ReplyLost(c)
  PROVE  ConsumerInv'
<1>1. GroupOK(group) /\ group.last <= Len(stream) /\ Len(stream) \in Nat /\ group.last \in Nat
      /\ \A id \in 1..group.last : id \in Ids(group.pending) \cup handled \cup dead
  BY Facts
<1>2. loop' = [loop EXCEPT ![c] = Top] /\ UNCHANGED <<stream, handled, dead>>
  BY DEF ReplyLost
<1>3. CASE \E idle \in 1..Len(group.pending) : group' = Reclaim(group, ClaimIds(group, idle))
  <2>1. PICK idle \in 1..Len(group.pending) : group' = Reclaim(group, ClaimIds(group, idle))
    BY <1>3
  <2>2. ClaimIds(group, idle) \in SUBSET Ids(group.pending)
    <3>1. Len(group.pending) \in Nat
      BY <1>1, GroupTypes, LenProperties
    <3> QED
      BY <1>1, <3>1, Claimable
  <2>3. /\ Evolves(group, group') /\ group'.last = group.last
        /\ Ids(group'.pending) = Ids(group.pending)
    BY <1>1, <2>1, <2>2, Claimed
  <2>4. NothingLost'
    BY <1>1, <1>2, <2>3 DEF NothingLost, Ids
  <2> QED
    BY <1>1, <1>2, <2>3, <2>4, TopMoves
<1>4. CASE group' = DeliverNew(group, NewEntries(group, Len(stream)))
  <2>1. /\ group'.last <= Len(stream) /\ Evolves(group, group')
        /\ Ids(group'.pending) = Ids(group.pending) \cup (group.last + 1 .. group'.last)
    BY <1>1, <1>4, NewlyDelivered
  <2>2. group'.last \in Nat
    BY <2>1, GroupTypes DEF Evolves
  <2>3. \A id \in 1..group'.last : id \in 1..group.last \/ id \in group.last + 1 .. group'.last
    BY <1>1, <2>2
  <2>4. \A id \in 1..group'.last : id \in Ids(group'.pending) \cup handled \cup dead
    BY <1>1, <2>1, <2>3
  <2>5. NothingLost'
    BY <1>2, <2>4 DEF NothingLost, Ids
  <2> QED
    BY <1>2, <2>1, <2>5, TopMoves
<1> QED
  BY <1>3, <1>4 DEF ReplyLost

LEMMA AddStep ==
  ASSUME ConsumerInv, NEW m \in Messages, Add(m)
  PROVE  ConsumerInv'
<1>1. /\ stream \in Seq(Messages) /\ Len(stream) \in Nat /\ group.last \in Nat
      /\ group.last <= Len(stream)
  BY Facts DEF ConsumerInv, ConsumerTypeOK
<1>2. stream' \in Seq(Messages) /\ Len(stream') = Len(stream) + 1 /\ Len(stream) < MaxMessages
      /\ UNCHANGED <<group, loop, handled, dead>>
  BY <1>1, AppendProperties DEF Add
<1>3. ConsumerTypeOK'
  <2>1. Len(stream') <= MaxMessages /\ group.last <= Len(stream')
    BY <1>1, <1>2, StreamAssumption
  <2> QED
    BY <1>2, <2>1 DEF ConsumerInv, ConsumerTypeOK
<1>4. PendingInv' /\ NothingLost'
  BY <1>2 DEF ConsumerInv, PendingInv, Unique, Ids, NothingLost
<1>5. \A c \in Consumers : Held(c)' /\ LoopInv(c)'
  BY <1>2 DEF ConsumerInv, Held, LoopInv, At, Current
<1> QED
  BY <1>3, <1>4, <1>5 DEF ConsumerInv

LEMMA ConsumerStep ==
  ASSUME ConsumerInv, [ConsumerNext]_consumerVars
  PROVE  ConsumerInv'
<1>1. ASSUME NEW m \in Messages, Add(m) PROVE ConsumerInv'
  BY <1>1, AddStep
<1>2. ASSUME NEW c \in Consumers, NEW idle \in 0..Len(group.pending), Claim(c, idle) PROVE ConsumerInv'
  BY <1>2, ClaimStep
<1>3. ASSUME NEW c \in Consumers, CountDeliveries(c) PROVE ConsumerInv'
  BY <1>3, CountStep
<1>4. ASSUME NEW c \in Consumers, ReadNew(c) PROVE ConsumerInv'
  BY <1>4, ReadStep
<1>5. ASSUME NEW c \in Consumers, Handle(c) PROVE ConsumerInv'
  <2>1. /\ Dispatching(c) /\ Resolve(c) /\ UNCHANGED <<stream, group>>
        /\ handled \cup dead \subseteq handled' \cup dead' /\ Current(c).id \in handled' \cup dead'
    BY <1>5 DEF Handle
  <2> QED
    BY <2>1, ResolveStep
<1>6. ASSUME NEW c \in Consumers, DeadLetter(c) PROVE ConsumerInv'
  <2>1. /\ Dispatching(c) /\ Resolve(c) /\ UNCHANGED <<stream, group>>
        /\ handled \cup dead \subseteq handled' \cup dead' /\ Current(c).id \in handled' \cup dead'
    BY <1>6 DEF DeadLetter
  <2> QED
    BY <2>1, ResolveStep
<1>7. ASSUME NEW c \in Consumers, AckMessage(c) PROVE ConsumerInv'
  BY <1>7, AckStep
<1>8. ASSUME NEW c \in Consumers, Throw(c) \/ AckFails(c) PROVE ConsumerInv'
  <2>1. loop[c].step \in {"reclaimed", "new"}
    BY <1>8, Facts DEF Throw, AckFails, Dispatching, At
  <2>2. NextMessage(c) /\ UNCHANGED <<stream, group, handled, dead>>
    BY <1>8 DEF Throw, AckFails
  <2>3. NothingLost'
    BY <2>2, StillThere
  <2>4. Evolves(group, group') /\ group'.last <= Len(stream)
    BY <2>2, Facts
  <2> QED
    BY <2>1, <2>2, <2>3, <2>4, NextMessageMoves
<1>9. ASSUME NEW c \in Consumers, LoopError(c) \/ Crash(c) PROVE ConsumerInv'
  <2>1. loop' = [loop EXCEPT ![c] = Top] /\ UNCHANGED <<stream, group, handled, dead>>
    BY <1>9 DEF LoopError, Crash
  <2>2. NothingLost'
    BY <2>1, StillThere
  <2>3. Evolves(group, group') /\ group'.last <= Len(stream)
    BY <2>1, Facts
  <2> QED
    BY <2>1, <2>2, <2>3, TopMoves
<1>10. ASSUME NEW c \in Consumers, ReplyLost(c) PROVE ConsumerInv'
  BY <1>10, ReplyLostStep
<1>11. ASSUME UNCHANGED consumerVars PROVE ConsumerInv'
  BY <1>11 DEF consumerVars, ConsumerInv, ConsumerTypeOK, PendingInv, Unique, Ids, NothingLost,
               Held, LoopInv, At, Current
<1> QED
  BY <1>1, <1>2, <1>3, <1>4, <1>5, <1>6, <1>7, <1>8, <1>9, <1>10, <1>11 DEF ConsumerNext, LoopStep

LEMMA ConsumerStart == ConsumerInit => ConsumerInv
<1> SUFFICES ASSUME ConsumerInit PROVE ConsumerInv
  OBVIOUS
<1>1. stream = <<>> /\ group = NewGroup /\ loop = [c \in Consumers |-> Top] /\ DOMAIN << >> = {}
  BY DEF ConsumerInit
<1>2. <<>> \in Seq(Messages) /\ <<>> \in Seq(Delivery) /\ Len(<< >>) = 0
  BY EmptySeq
<1>3. /\ group.last = 0 /\ group.pending = <<>> /\ group \in Group
  BY <1>1, <1>2 DEF NewGroup, Group
<1>4. Top \in Loop /\ Top.batch = <<>> /\ Top.step = "claim" /\ ~Top.resolved
  BY <1>2 DEF Top, Loop, Steps
<1>5. ConsumerTypeOK
  BY <1>1, <1>2, <1>3, <1>4, StreamAssumption DEF ConsumerTypeOK
<1>6. PendingInv /\ NothingLost
  BY <1>1, <1>3 DEF PendingInv, Unique, Ids, NothingLost
<1>7. \A c \in Consumers : Held(c) /\ LoopInv(c)
  BY <1>1, <1>4 DEF Held, LoopInv, ToSet, At
<1> QED
  BY <1>5, <1>6, <1>7 DEF ConsumerInv

-----------------------------------------------------------------------------
(* The theorems *)

\* The invariant holds for any number of consumers and messages, any batch size
\* and any failures.
THEOREM ConsumerInvariant == ConsumerSafety => []ConsumerInv
<1> QED
  BY ConsumerStart, ConsumerStep, PTL DEF ConsumerSafety

\* At least once: a delivered message is pending, handled or dead-lettered.
THEOREM DeliveredAtLeastOnce == ConsumerSafety => []NothingLost
<1>1. ConsumerInv => NothingLost
  BY DEF ConsumerInv
<1> QED
  BY <1>1, ConsumerInvariant, PTL

\* Nothing that is still pending is given up with deliveries left, although the
\* counters were read earlier and other consumers act in between.
THEOREM NoEarlyGivingUp == ConsumerSafety => GivenUpOnlyWhenExhausted
<1> DEFINE Exhausting ==
      \A id \in dead' \ dead : id \in Ids(group.pending) => Counter(group, id) > MaxDeliveries
<1>1. ASSUME ConsumerInv, [ConsumerNext]_consumerVars
      PROVE  [Exhausting]_consumerVars
  <2>1. ASSUME NEW c \in Consumers, DeadLetter(c),
               NEW id \in dead' \ dead, id \in Ids(group.pending)
        PROVE  Counter(group, id) > MaxDeliveries
    <3> DEFINE e == Head(loop[c].batch)
    <3>1. id = e.id /\ e.deliveries > MaxDeliveries
      BY <2>1 DEF DeadLetter, Current, Exhausted
    <3>2. e \in ToSet(loop[c].batch)
      BY <1>1, <2>1, Facts, Elements, SMTT(30) DEF DeadLetter, Dispatching, At
    <3>3. GroupOK(group) /\ group.pending \in Seq(Delivery)
      BY <1>1, Facts, GroupTypes
    <3>4. PICK p \in ToSet(group.pending) : p.id = id
      BY <2>1, <3>3, Elements
    <3>5. p.deliveries > MaxDeliveries
      BY <1>1, <3>1, <3>2, <3>4 DEF ConsumerInv, Held
    <3> QED
      BY <3>3, <3>4, <3>5, CounterOf
  <2>2. dead' = dead \/ \E c \in Consumers : DeadLetter(c)
    BY <1>1 DEF ConsumerNext, LoopStep, Add, Claim, CountDeliveries, ReadNew, Handle, Throw,
                AckMessage, AckFails, ReplyLost, LoopError, Crash, consumerVars
  <2> QED
    BY <2>1, <2>2
<1> QED
  BY <1>1, ConsumerInvariant, PTL DEF ConsumerSafety, GivenUpOnlyWhenExhausted
=============================================================================
