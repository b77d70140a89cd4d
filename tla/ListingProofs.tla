--------------------------- MODULE ListingProofs ---------------------------
(***************************************************************************)
(* Lemmas about ordered lists: a finite set of ids has one ascending list, *)
(* and filtering keeps the order; about sums: a sum is the value of any    *)
(* element and the sum of the others, whichever one Sums chooses; and      *)
(* induction over the numbers, in the form in which the provers can apply  *)
(* it.                                                                     *)
(***************************************************************************)
EXTENDS Listing, Sums, Integers, SequencesExt, SequenceTheorems, FiniteSetTheorems, WellFoundedInduction, TLAPS

\* Induction: a set of numbers that has 0, and the successor of each of its
\* elements, has them all.  Otherwise there is a least one that it has not.
LEMMA Induction ==
  ASSUME NEW S, 0 \in S, \A n \in Nat : n \in S => n + 1 \in S
  PROVE  Nat \subseteq S
<1>1. SUFFICES ASSUME Nat \ S # {} PROVE FALSE
  OBVIOUS
<1>2. PICK x \in Nat \ S : \A y \in Nat \ S : ~(<<y, x>> \in OpToRel(<, Nat))
  BY <1>1, NatLessThanWellFounded, WFMin
<1>3. \A y \in Nat \ S : ~(y < x)
  <2>1. \A a, b \in Nat : a < b => <<a, b>> \in OpToRel(<, Nat)
    BY Zenon DEF OpToRel
  <2> QED
    BY <1>2, <2>1
<1>4. x \in Nat /\ x \notin S
  BY <1>2
<1>5. x # 0
  BY <1>4
<1>6. x - 1 \in Nat /\ x - 1 < x /\ (x - 1) + 1 = x
  BY <1>4, <1>5
<1>7. x - 1 \in S
  BY <1>3, <1>6
<1> QED
  BY <1>4, <1>6, <1>7

\* A non-empty set of naturals has the smallest element that Min names.
LEMMA MinOfNaturals ==
  ASSUME NEW S \in SUBSET Nat, S # {}
  PROVE  Min(S) \in S /\ \A y \in S : Min(S) <= y
<1>1. PICK x \in S : \A y \in S : ~(<<y, x>> \in OpToRel(<, Nat))
  BY NatLessThanWellFounded, WFMin
<1>2. \A a, b \in Nat : a < b => <<a, b>> \in OpToRel(<, Nat)
  BY Zenon DEF OpToRel
<1>3. \A y \in S : ~(y < x)
  BY <1>1, <1>2
<1>4. \A y \in S : x <= y
  BY <1>3
<1> QED
  BY <1>4 DEF Min

\* A non-empty set of numbers with a bound has the largest element that Max names.
LEMMA MaxOfNaturals ==
  ASSUME NEW n \in Nat, NEW S \in SUBSET (0..n), S # {}
  PROVE  Max(S) \in S /\ \A y \in S : y <= Max(S)
<1> DEFINE T == {n - x : x \in S}
<1>1. T \in SUBSET Nat /\ T # {}
  <2>1. \A x \in S : n - x \in Nat
    OBVIOUS
  <2> QED
    BY <2>1
<1>0. Min(T) \in T /\ \A y \in T : Min(T) <= y
  <2> HIDE DEF T
  <2> QED
    BY <1>1, MinOfNaturals
<1>2. PICK x \in S : Min(T) = n - x /\ \A y \in T : n - x <= y
  BY <1>0
<1>3. \A y \in S : n - x <= n - y
  BY <1>2
<1>4. \A y \in S : x >= y /\ x \in Nat /\ y \in Nat
  BY <1>3
<1>5. Max(S) \in S /\ \A y \in S : Max(S) >= y
  BY <1>4 DEF Max
<1>6. \A y \in S : y \in Nat
  OBVIOUS
<1> QED
  BY <1>5, <1>6

-----------------------------------------------------------------------------

\* Ranks number a finite set of ids from 1, in their order, without gaps.
LEMMA RankNumbers ==
  ASSUME NEW ids \in SUBSET Nat, IsFiniteSet(ids)
  PROVE  /\ Cardinality(ids) \in Nat
         /\ \A i \in ids : Rank(i, ids) \in 1..Cardinality(ids)
         /\ \A i, j \in ids : i < j => Rank(i, ids) < Rank(j, ids)
         /\ \A i, j \in ids : Rank(i, ids) = Rank(j, ids) => i = j
         /\ \A k \in 1..Cardinality(ids) : \E i \in ids : Rank(i, ids) = k
<1> DEFINE upTo(i) == {j \in ids : j <= i}
           n == Cardinality(ids)
           rank == [i \in ids |-> Rank(i, ids)]
<1>1. n \in Nat
  BY FS_CardinalityType
<1>2. \A i \in ids : IsFiniteSet(upTo(i)) /\ Cardinality(upTo(i)) \in 1..n
  <2> TAKE i \in ids
  <2>1. IsFiniteSet(upTo(i)) /\ Cardinality(upTo(i)) <= n
    BY FS_Subset
  <2>2. Cardinality(upTo(i)) \in Nat
    BY <2>1, FS_CardinalityType
  <2>3. i \in upTo(i)
    OBVIOUS
  <2>4. Cardinality(upTo(i)) # 0
    BY <2>1, <2>3, FS_EmptySet
  <2> QED
    BY <1>1, <2>1, <2>2, <2>4
<1>3. \A i, j \in ids : i < j => Rank(i, ids) < Rank(j, ids)
  <2> SUFFICES ASSUME NEW i \in ids, NEW j \in ids, i < j
               PROVE  Cardinality(upTo(i)) < Cardinality(upTo(j))
    BY DEF Rank
  <2>1. upTo(i) \in SUBSET upTo(j) /\ j \in upTo(j) /\ j \notin upTo(i)
    <3>1. \A m \in ids : m \in Nat
      OBVIOUS
    <3>2. j <= j /\ ~(j <= i) /\ \A m \in ids : m <= i => m <= j
      BY <3>1
    <3> QED
      BY <3>2
  <2>2. Cardinality(upTo(i)) <= Cardinality(upTo(j)) /\ Cardinality(upTo(i)) # Cardinality(upTo(j))
    BY <1>2, <2>1, FS_Subset
  <2> QED
    BY <1>1, <1>2, <2>2
<1>4. \A i \in ids : Rank(i, ids) \in 1..n
  BY <1>2 DEF Rank
<1>5. \A i, j \in ids : Rank(i, ids) = Rank(j, ids) => i = j
  BY <1>1, <1>3, <1>4
<1>6. rank \in Injection(ids, 1..n)
  BY <1>4, <1>5 DEF Injection, IsInjective
<1>7. rank \in Surjection(ids, 1..n)
  <2>1. IsFiniteSet(1..n) /\ Cardinality(1..n) = n
    BY <1>1, FS_Interval
  <2> QED
    BY <1>6, <2>1, FS_Injection
<1>8. \A k \in 1..n : \E i \in ids : rank[i] = k
  BY <1>7 DEF Surjection
<1> QED
  BY <1>1, <1>3, <1>4, <1>5, <1>8

\* Ascending lists a set: every element once, in increasing order.
LEMMA AscendingLists ==
  ASSUME NEW ids \in SUBSET Nat, IsFiniteSet(ids)
  PROVE  /\ Ascending(ids) \in Seq(ids)
         /\ Len(Ascending(ids)) = Cardinality(ids)
         /\ \A i \in ids : \E k \in 1..Len(Ascending(ids)) : Ascending(ids)[k] = i
         /\ \A k, l \in 1..Len(Ascending(ids)) : k < l => Ascending(ids)[k] < Ascending(ids)[l]
<1> DEFINE n == Cardinality(ids)
           at(k) == CHOOSE i \in ids : Rank(i, ids) = k
<1>a. /\ n \in Nat
      /\ \A i \in ids : Rank(i, ids) \in 1..n /\ i \in Nat
      /\ \A i, j \in ids : i < j => Rank(i, ids) < Rank(j, ids)
      /\ \A i, j \in ids : Rank(i, ids) = Rank(j, ids) => i = j
      /\ \A k \in 1..n : \E i \in ids : Rank(i, ids) = k
  BY RankNumbers
<1>1. n \in Nat /\ \A k \in 1..n : at(k) \in ids /\ at(k) \in Nat /\ Rank(at(k), ids) = k
  BY <1>a
<1>2. Ascending(ids) = [k \in 1..n |-> at(k)]
  BY DEF Ascending
<1> HIDE DEF at
<1>3. Ascending(ids) \in Seq(ids) /\ Len(Ascending(ids)) = n
  BY <1>1, <1>2
<1>4. \A i \in ids : \E k \in 1..n : Ascending(ids)[k] = i
  <2> TAKE i \in ids
  <2>1. Rank(i, ids) \in 1..n
    BY <1>a
  <2>2. at(Rank(i, ids)) = i
    BY <1>a, <1>1, <2>1
  <2> QED
    BY <1>2, <2>1, <2>2
<1>5. \A k, l \in 1..n : k < l => at(k) < at(l)
  <2> SUFFICES ASSUME NEW k \in 1..n, NEW l \in 1..n, k < l, ~(at(k) < at(l))
               PROVE  FALSE
    OBVIOUS
  <2>1. at(l) \in Nat /\ at(k) \in Nat /\ at(l) # at(k)
    BY <1>1
  <2>2. at(l) < at(k)
    BY <2>1
  <2>3. l < k
    BY <1>a, <1>1, <2>2
  <2> QED
    BY <1>1, <2>3
<1>6. \A k, l \in 1..n : k < l => Ascending(ids)[k] < Ascending(ids)[l]
  BY <1>2, <1>5
<1> QED
  BY <1>3, <1>4, <1>6

\* An increasing list is the ascending list of its elements, so there is one.
LEMMA AscendingUnique ==
  ASSUME NEW ids \in SUBSET Nat, IsFiniteSet(ids), NEW s \in Seq(ids),
         \A i \in ids : \E k \in 1..Len(s) : s[k] = i,
         \A k, l \in 1..Len(s) : k < l => s[k] < s[l]
  PROVE  s = Ascending(ids)
<1> DEFINE n == Len(s)
<1>1. n \in Nat /\ \A k \in 1..n : s[k] \in ids /\ s[k] \in Nat
  <2>1. \A i \in ids : i \in Nat
    OBVIOUS
  <2> QED
    BY <2>1, LenProperties, ElementOfSeq
<1>a. /\ Cardinality(ids) \in Nat
      /\ \A i \in ids : Rank(i, ids) \in 1..Cardinality(ids)
      /\ \A i, j \in ids : Rank(i, ids) = Rank(j, ids) => i = j
      /\ \A k \in 1..Cardinality(ids) : \E i \in ids : Rank(i, ids) = k
  BY RankNumbers
<1>2. \A k \in 1..n : Rank(s[k], ids) = k
  <2> TAKE k \in 1..n
  <2> DEFINE upTo == {j \in ids : j <= s[k]}
             list == [l \in 1..k |-> s[l]]
  <2>1. \A l \in 1..n : l <= k <=> s[l] <= s[k]
    BY <1>1
  <2>2. list \in Bijection(1..k, upTo)
    <3>1. \A l \in 1..k : l \in 1..n /\ list[l] \in upTo
      BY <1>1, <2>1
    <3>2. \A l, m \in 1..k : list[l] = list[m] => l = m
      BY <1>1, <3>1
    <3>3. \A i \in upTo : \E l \in 1..k : list[l] = i
      BY <1>1, <2>1
    <3> QED
      BY <3>1, <3>2, <3>3 DEF Bijection, Injection, Surjection, IsInjective
  <2>3. IsFiniteSet(1..k) /\ Cardinality(1..k) = k
    BY <1>1, FS_Interval
  <2>4. ExistsBijection(1..k, upTo)
    BY <2>2 DEF ExistsBijection
  <2>5. Cardinality(upTo) = k
    BY <2>3, <2>4, FS_Bijection
  <2> QED
    BY <2>5 DEF Rank
<1>3. n = Cardinality(ids)
  <2>1. \A k \in 1..n : k \in 1..Cardinality(ids)
    BY <1>a, <1>1, <1>2
  <2>2. \A k \in 1..Cardinality(ids) : k \in 1..n
    <3> TAKE k \in 1..Cardinality(ids)
    <3>1. PICK i \in ids : Rank(i, ids) = k
      BY <1>a
    <3>2. PICK l \in 1..n : s[l] = i
      BY <3>1
    <3> QED
      BY <1>2, <3>1, <3>2
  <2>3. Cardinality(ids) \in Nat
    BY <1>a
  <2>4. (n > 0 => n \in 1..Cardinality(ids)) /\ (Cardinality(ids) > 0 => Cardinality(ids) \in 1..n)
    BY <1>1, <2>1, <2>2, <2>3
  <2> QED
    BY <1>1, <2>3, <2>4
<1>4. \A k \in 1..n : (CHOOSE i \in ids : Rank(i, ids) = k) = s[k]
  <2> TAKE k \in 1..n
  <2>1. s[k] \in ids /\ Rank(s[k], ids) = k
    BY <1>1, <1>2
  <2>2. \A i \in ids : Rank(i, ids) = k => i = s[k]
    BY <2>1, <1>a
  <2> QED
    BY <2>1, <2>2
<1>5. Ascending(ids) = [k \in 1..n |-> s[k]]
  BY <1>3, <1>4 DEF Ascending
<1> QED
  BY <1>1, <1>5, LenProperties

\* A filtered list has the elements at the places, each once, in their order.
LEMMA FilterLists ==
  ASSUME NEW S, NEW s \in Seq(S), NEW places \in SUBSET (1..Len(s))
  PROVE  /\ Filter(s, places) \in Seq(S)
         /\ \E at \in [1..Len(Filter(s, places)) -> places] :
              /\ \A p \in places : \E k \in 1..Len(Filter(s, places)) : at[k] = p
              /\ \A k, l \in 1..Len(Filter(s, places)) : k < l => at[k] < at[l]
              /\ \A k \in 1..Len(Filter(s, places)) : Filter(s, places)[k] = s[at[k]]
<1> DEFINE at == Ascending(places)
<1>1. places \in SUBSET Nat /\ IsFiniteSet(places)
  <2>1. Len(s) \in Nat
    BY LenProperties
  <2>2. IsFiniteSet(1..Len(s))
    BY <2>1, FS_Interval
  <2>3. \A p \in places : p \in 1..Len(s) /\ p \in Nat
    BY <2>1
  <2> QED
    BY <2>2, <2>3, FS_Subset
<1>2. at \in Seq(places) /\ Len(at) \in Nat /\ DOMAIN at = 1..Len(at)
      /\ at \in [1..Len(at) -> places]
  BY <1>1, AscendingLists, LenProperties
<1>3. Filter(s, places) = [k \in 1..Len(at) |-> s[at[k]]]
  BY <1>2 DEF Filter
<1>4. \A k \in 1..Len(at) : s[at[k]] \in S
  BY <1>2, ElementOfSeq
<1>5. Filter(s, places) \in Seq(S) /\ Len(Filter(s, places)) = Len(at)
  BY <1>2, <1>3, <1>4
<1> QED
  BY <1>1, <1>2, <1>3, <1>5, AscendingLists

\* What InsertAt returns.
LEMMA InsertAtResult ==
  ASSUME NEW S, NEW s \in Seq(S), NEW at \in 1..(Len(s) + 1), NEW e \in S
  PROVE  /\ InsertAt(s, at, e) \in Seq(S)
         /\ Len(InsertAt(s, at, e)) = Len(s) + 1
         /\ InsertAt(s, at, e)[at] = e
         /\ \A j \in 1..(Len(s) + 1) :
              /\ j < at => InsertAt(s, at, e)[j] = s[j]
              /\ j > at => InsertAt(s, at, e)[j] = s[j - 1]
<1> DEFINE front == SubSeq(s, 1, at - 1)
           back  == SubSeq(s, at, Len(s))
<1>1. Len(s) \in Nat /\ \A i \in 1..Len(s) : s[i] \in S
  BY LenProperties, ElementOfSeq
<1>2. /\ front \in Seq(S) /\ Len(front) = at - 1
      /\ \A i \in 1..(at - 1) : front[i] = s[i]
  BY <1>1, SubSeqProperties
<1>3. /\ back \in Seq(S) /\ Len(back) = Len(s) - at + 1
      /\ \A i \in 1..(Len(s) - at + 1) : back[i] = s[at + i - 1]
  BY <1>1, SubSeqProperties
<1>4. <<e>> \in Seq(S) /\ Len(<<e>>) = 1 /\ <<e>>[1] = e
  OBVIOUS
<1> HIDE DEF front, back
<1> DEFINE head == front \o <<e>>
<1>5. /\ head \in Seq(S) /\ Len(head) = at
      /\ \A i \in 1..at : head[i] = IF i <= at - 1 THEN front[i] ELSE <<e>>[i - (at - 1)]
  BY <1>1, <1>2, <1>4, ConcatProperties
<1> HIDE DEF head
<1>6. /\ head \o back \in Seq(S) /\ Len(head \o back) = Len(s) + 1
      /\ \A i \in 1..(Len(s) + 1) :
           (head \o back)[i] = IF i <= at THEN head[i] ELSE back[i - at]
  BY <1>1, <1>3, <1>5, ConcatProperties
<1>7. InsertAt(s, at, e) = head \o back
  BY DEF InsertAt, front, back, head
<1> QED
  BY <1>1, <1>2, <1>3, <1>4, <1>5, <1>6, <1>7

-----------------------------------------------------------------------------
(* Sums *)

\* The sizes of the parts of a finite set.
LEMMA PartSizes ==
  ASSUME NEW D, IsFiniteSet(D)
  PROVE  /\ \A S \in SUBSET D : Cardinality(S) \in Nat /\ IsFiniteSet(S)
         /\ \A S \in SUBSET D : Cardinality(S) = 0 => S = {}
         /\ \A S \in SUBSET D : \A x \in S : /\ S \ {x} \in SUBSET D
                                             /\ Cardinality(S \ {x}) = Cardinality(S) - 1
         /\ Cardinality({}) = 0
<1>1. \A S \in SUBSET D : IsFiniteSet(S) /\ Cardinality(S) \in Nat
  BY FS_Subset, FS_CardinalityType
<1>2. ASSUME NEW S \in SUBSET D, Cardinality(S) = 0 PROVE S = {}
  <2>1. IsFiniteSet(S)
    BY <1>1
  <2> QED
    BY <1>2, <2>1, FS_EmptySet
<1>3. ASSUME NEW S \in SUBSET D, NEW x \in S
      PROVE  S \ {x} \in SUBSET D /\ Cardinality(S \ {x}) = Cardinality(S) - 1
  <2>1. IsFiniteSet(S)
    BY <1>1
  <2> QED
    BY <2>1, FS_RemoveElement
<1> QED
  BY <1>1, <1>2, <1>3, FS_EmptySet

\* What holds of a part when it holds of the part less any of its elements
\* holds of them all.
LEMMA PartInduction ==
  ASSUME NEW D, IsFiniteSet(D), NEW P, {} \in P,
         \A S \in SUBSET D : S # {} /\ (\A x \in S : S \ {x} \in P) => S \in P
  PROVE  \A S \in SUBSET D : S \in P
<1> DEFINE K == {k \in Nat : \A S \in SUBSET D : Cardinality(S) = k => S \in P}
<1>1. 0 \in K
  <2>1. \A S \in SUBSET D : Cardinality(S) = 0 => S = {}
    BY PartSizes
  <2> QED
    BY <2>1
<1>2. ASSUME NEW k \in Nat, k \in K PROVE k + 1 \in K
  <2>1. ASSUME NEW S \in SUBSET D, Cardinality(S) = k + 1 PROVE S \in P
    <3>1. S # {}
      <4>1. Cardinality({}) = 0
        BY PartSizes
      <4> QED
        BY <2>1, <4>1
    <3>2. ASSUME NEW x \in S PROVE S \ {x} \in P
      <4>1. S \ {x} \in SUBSET D /\ Cardinality(S \ {x}) = k + 1 - 1
        BY <2>1, PartSizes
      <4> QED
        BY <1>2, <4>1
    <3> QED
      BY <3>1, <3>2
  <2> QED
    BY <2>1
<1>3. Nat \subseteq K
  <2> HIDE DEF K
  <2> QED
    BY <1>1, <1>2, Induction
<1>4. \A S \in SUBSET D : Cardinality(S) \in Nat
  BY PartSizes
<1> QED
  BY <1>3, <1>4

\* A sum is the value of any element and the sum of the others: a function that
\* satisfies the recursion exists on the parts of the domain with at most k
\* elements, for every k, and what it does with one element it does with any.
LEMMA SumsOfSubsets ==
  ASSUME NEW D, IsFiniteSet(D), NEW f \in [D -> Int]
  PROVE  \A S \in SUBSET D : /\ Sums(f)[S] \in Int
                             /\ S = {} => Sums(f)[S] = 0
                             /\ \A x \in S : Sums(f)[S] = f[x] + Sums(f)[S \ {x}]
<1> DEFINE Small(k) == {S \in SUBSET D : Cardinality(S) <= k}
           pick(S) == CHOOSE x \in S : TRUE
           Solves(g, k) == \A S \in Small(k) :
                             g[S] = IF S = {} THEN 0 ELSE f[pick(S)] + g[S \ {pick(S)}]
           K == {k \in Nat : \E g \in [Small(k) -> Int] : Solves(g, k)}
           Is(g) == g = [S \in SUBSET D |-> IF S = {} THEN 0
                           ELSE f[pick(S)] + g[S \ {pick(S)}]]
           s == Sums(f)
<1>1. /\ \A S \in SUBSET D : Cardinality(S) \in Nat
      /\ \A S \in SUBSET D : Cardinality(S) = 0 => S = {}
      /\ \A S \in SUBSET D : \A x \in S : /\ S \ {x} \in SUBSET D
                                          /\ Cardinality(S \ {x}) = Cardinality(S) - 1
  BY PartSizes
<1>2. \A S \in SUBSET D : S # {} => pick(S) \in S
  OBVIOUS
<1>3. Sums(f) = CHOOSE h : Is(h)
  <2>1. DOMAIN f = D
    OBVIOUS
  <2> QED
    BY <2>1 DEF Sums
<1>4. (\E h : Is(h)) => Is(CHOOSE h : Is(h))
  <2> HIDE DEF Is
  <2> QED
    OBVIOUS
<1> HIDE DEF pick, s
<1>5. 0 \in K
  <2> DEFINE g == [S \in Small(0) |-> 0]
  <2>1. \A S \in Small(0) : S = {}
    <3> TAKE S \in Small(0)
    <3>1. S \in SUBSET D /\ Cardinality(S) <= 0
      OBVIOUS
    <3>2. Cardinality(S) = 0
      BY <1>1, <3>1
    <3> QED
      BY <1>1, <3>1, <3>2
  <2>2. g \in [Small(0) -> Int]
    OBVIOUS
  <2>3. Solves(g, 0)
    BY <2>1
  <2>4. \E h \in [Small(0) -> Int] : Solves(h, 0)
    BY <2>2, <2>3
  <2> QED
    BY <2>4
<1>6. ASSUME NEW k \in Nat, k \in K PROVE k + 1 \in K
  <2>1. PICK g \in [Small(k) -> Int] : Solves(g, k)
    BY <1>6
  <2> DEFINE value(S) == IF S = {} THEN 0 ELSE f[pick(S)] + g[S \ {pick(S)}]
             h == [S \in Small(k + 1) |-> value(S)]
  <2>2. ASSUME NEW S \in Small(k + 1), S # {}
        PROVE  S \ {pick(S)} \in Small(k) /\ pick(S) \in D
    <3>1. S \in SUBSET D /\ Cardinality(S) <= k + 1 /\ pick(S) \in S
      BY <1>2, <2>2
    <3>2. /\ S \ {pick(S)} \in SUBSET D
          /\ Cardinality(S \ {pick(S)}) = Cardinality(S) - 1 /\ Cardinality(S) \in Nat
      BY <1>1, <3>1
    <3>3. Cardinality(S \ {pick(S)}) <= k
      BY <3>1, <3>2
    <3> QED
      BY <3>1, <3>2, <3>3
  <2>3. \A S \in Small(k) : S \in Small(k + 1)
    <3> TAKE S \in Small(k)
    <3>1. S \in SUBSET D /\ Cardinality(S) <= k /\ Cardinality(S) \in Nat
      BY <1>1
    <3>2. Cardinality(S) <= k + 1
      BY <3>1
    <3> QED
      BY <3>1, <3>2
  <2> HIDE DEF Small
  <2>4. \A S \in Small(k + 1) : value(S) \in Int
    BY <2>2
  <2>5. h \in [Small(k + 1) -> Int]
    BY <2>4
  <2>6. \A S \in Small(k) : h[S] = g[S]
    BY <2>1, <2>3
  <2>7. \A S \in Small(k + 1) : S # {} => h[S \ {pick(S)}] = g[S \ {pick(S)}]
    <3> HIDE DEF h
    <3> QED
      BY <2>2, <2>6
  <2>8. \A S \in Small(k + 1) : h[S] = value(S)
    OBVIOUS
  <2>9. Solves(h, k + 1)
    <3> HIDE DEF h
    <3> QED
      BY <2>7, <2>8
  <2>10. \E e \in [Small(k + 1) -> Int] : Solves(e, k + 1)
    BY <2>5, <2>9
  <2>11. k + 1 \in Nat
    OBVIOUS
  <2> HIDE DEF Solves
  <2> QED
    BY <2>10, <2>11
<1>7. Nat \subseteq K
  <2> HIDE DEF K
  <2> QED
    BY <1>5, <1>6, Induction
<1>8. PICK g \in [SUBSET D -> Int] : \A S \in SUBSET D :
        g[S] = IF S = {} THEN 0 ELSE f[pick(S)] + g[S \ {pick(S)}]
  <2> DEFINE n == Cardinality(D)
  <2>1. n \in Nat
    BY FS_CardinalityType
  <2>2. \A S \in SUBSET D : Cardinality(S) <= n
    BY FS_Subset
  <2> HIDE DEF n
  <2>3. Small(n) = SUBSET D
    BY <2>2
  <2>4. \E g \in [Small(n) -> Int] : Solves(g, n)
    BY <1>7, <2>1
  <2>5. PICK g \in [Small(n) -> Int] : \A S \in Small(n) :
          g[S] = IF S = {} THEN 0 ELSE f[pick(S)] + g[S \ {pick(S)}]
    BY <2>4
  <2> HIDE DEF Small
  <2> QED
    BY <2>3, <2>5
<1>9. Is(g)
  BY <1>8
<1>10. Is(s)
  <2> HIDE DEF Is
  <2> QED
    BY <1>3, <1>4, <1>9 DEF s
<1>11. \A S \in SUBSET D : s[S] = IF S = {} THEN 0 ELSE f[pick(S)] + s[S \ {pick(S)}]
  BY <1>10
<1>12. {} \in SUBSET D /\ s[{}] = 0
  BY <1>11
<1>13. \A S \in SUBSET D : S # {} => s[S] = f[pick(S)] + s[S \ {pick(S)}]
  BY <1>11
<1>14. \A S \in SUBSET D : s[S] \in Int
  <2> DEFINE P == {S \in SUBSET D : s[S] \in Int}
  <2>1. {} \in P
    BY <1>12
  <2>2. ASSUME NEW S \in SUBSET D, S # {}, \A x \in S : S \ {x} \in P
        PROVE  S \in P
    <3>1. pick(S) \in S /\ f[pick(S)] \in Int
      BY <1>2, <2>2
    <3>2. s[S \ {pick(S)}] \in Int
      BY <2>2, <3>1
    <3>3. s[S] = f[pick(S)] + s[S \ {pick(S)}]
      BY <1>13, <2>2
    <3>4. s[S] \in Int
      BY <3>1, <3>2, <3>3
    <3> QED
      BY <3>4
  <2>3. \A S \in SUBSET D : S \in P
    <3> HIDE DEF P
    <3> QED
      BY <2>1, <2>2, PartInduction
  <2> QED
    BY <2>3
<1>16. \A S \in SUBSET D : \A x \in S : s[S] = f[x] + s[S \ {x}]
  <2> DEFINE P == {S \in SUBSET D : \A x \in S : s[S] = f[x] + s[S \ {x}]}
  <2>1. {} \in P
    OBVIOUS
  <2>2. ASSUME NEW S \in SUBSET D, S # {}, \A x \in S : S \ {x} \in P
        PROVE  S \in P
    <3> DEFINE y == pick(S)
    <3>1. y \in S /\ s[S] = f[y] + s[S \ {y}]
      BY <1>2, <1>13, <2>2
    <3> HIDE DEF y
    <3>2. ASSUME NEW x \in S PROVE s[S] = f[x] + s[S \ {x}]
      <4>1. CASE x = y
        BY <3>1, <4>1
      <4>2. CASE x # y
        <5> DEFINE rest == (S \ {y}) \ {x}
        <5>1. x \in S \ {y} /\ y \in S \ {x}
          BY <3>1, <4>2
        <5>2. rest = (S \ {x}) \ {y} /\ rest \in SUBSET D
          OBVIOUS
        <5>3. s[S \ {y}] = f[x] + s[rest]
          BY <2>2, <3>1, <5>1
        <5>4. s[S \ {x}] = f[y] + s[(S \ {x}) \ {y}]
          BY <2>2, <5>1
        <5> HIDE DEF rest, P
        <5>5. s[S \ {x}] = f[y] + s[rest]
          BY <5>2, <5>4, Zenon
        <5>6. s[rest] \in Int /\ f[x] \in Int /\ f[y] \in Int
          BY <1>14, <3>1, <5>2
        <5> QED
          BY <3>1, <5>3, <5>5, <5>6
      <4> QED
        BY <4>1, <4>2
    <3> QED
      BY <3>2
  <2>3. \A S \in SUBSET D : S \in P
    <3> HIDE DEF P
    <3> QED
      BY <2>1, <2>2, PartInduction
  <2> QED
    BY <2>3
<1> QED
  BY <1>12, <1>14, <1>16 DEF s

\* The same, of one set.
LEMMA SumEmpty ==
  ASSUME NEW D, IsFiniteSet(D), NEW f \in [D -> Int]
  PROVE  Sums(f)[{}] = 0
BY SumsOfSubsets

LEMMA SumType ==
  ASSUME NEW D, IsFiniteSet(D), NEW f \in [D -> Int], NEW S \in SUBSET D
  PROVE  Sums(f)[S] \in Int
BY SumsOfSubsets

Splits(f) ==
  \A S \in SUBSET DOMAIN f : \A x \in S : Sums(f)[S] = f[x] + Sums(f)[S \ {x}]

LEMMA SumSplit ==
  ASSUME NEW D, IsFiniteSet(D), NEW f \in [D -> Int]
  PROVE  Splits(f) /\ DOMAIN f = D
<1>1. DOMAIN f = D
  OBVIOUS
<1>2. ASSUME NEW S \in SUBSET D, NEW x \in S
      PROVE  Sums(f)[S] = f[x] + Sums(f)[S \ {x}]
  BY SumsOfSubsets
<1> QED
  BY <1>1, <1>2 DEF Splits

\* The sum over a set depends on the values on this set alone.
LEMMA SumsAgree ==
  ASSUME NEW D, IsFiniteSet(D), NEW f \in [D -> Int],
         NEW E, IsFiniteSet(E), NEW g \in [E -> Int],
         NEW T \in SUBSET D, T \in SUBSET E, \A x \in T : f[x] = g[x]
  PROVE  Sums(f)[T] = Sums(g)[T]
<1>1. Sums(f)[{}] = 0 /\ Sums(g)[{}] = 0
  BY SumEmpty
<1>2. Splits(f) /\ DOMAIN f = D
  BY SumSplit
<1>3. Splits(g) /\ DOMAIN g = E
  BY SumSplit
<1> DEFINE s == Sums(f)
           t == Sums(g)
           P == {S \in SUBSET T : s[S] = t[S]}
<1> HIDE DEF s, t
<1>4. {} \in P
  BY <1>1 DEF s, t
<1>5. ASSUME NEW S \in SUBSET T, S # {}, \A x \in S : S \ {x} \in P
      PROVE  S \in P
  <2>1. PICK x \in S : TRUE
    BY <1>5
  <2>2. s[S \ {x}] = t[S \ {x}] /\ f[x] = g[x]
    BY <1>5
  <2>3. S \in SUBSET D /\ S \in SUBSET E
    OBVIOUS
  <2>4. s[S] = f[x] + s[S \ {x}] /\ t[S] = g[x] + t[S \ {x}]
    BY <1>2, <1>3, <2>3 DEF s, t, Splits
  <2>5. s[S] = t[S]
    BY <2>2, <2>4
  <2> QED
    BY <2>5
<1>6. IsFiniteSet(T)
  BY FS_Subset
<1>7. \A S \in SUBSET T : S \in P
  <2> HIDE DEF P
  <2> QED
    BY <1>4, <1>5, <1>6, PartInduction
<1> QED
  BY <1>7 DEF s, t

LEMMA TotalType ==
  ASSUME NEW D, IsFiniteSet(D), NEW f \in [D -> Int]
  PROVE  Total(f) \in Int /\ (D = {} => Total(f) = 0)
<1>1. DOMAIN f = D
  OBVIOUS
<1>2. Sums(f)[D] \in Int /\ Sums(f)[{}] = 0
  BY SumEmpty, SumType
<1> QED
  BY <1>1, <1>2 DEF Total

\* One element less.
LEMMA TotalWithout ==
  ASSUME NEW D, IsFiniteSet(D), NEW f \in [D -> Int], NEW x \in D,
         NEW g \in [D \ {x} -> Int], \A y \in D \ {x} : g[y] = f[y]
  PROVE  Total(f) = f[x] + Total(g) /\ Total(g) \in Int
<1>1. DOMAIN f = D /\ DOMAIN g = D \ {x}
  OBVIOUS
<1>2. IsFiniteSet(D \ {x})
  BY FS_RemoveElement
<1>3. Sums(f)[D] = f[x] + Sums(f)[D \ {x}]
  <2>1. D \in SUBSET D
    OBVIOUS
  <2> QED
    BY <2>1, SumSplit DEF Splits
<1>4. Sums(f)[D \ {x}] = Sums(g)[D \ {x}]
  <2>1. D \ {x} \in SUBSET D /\ D \ {x} \in SUBSET (D \ {x})
    OBVIOUS
  <2> QED
    BY <1>2, <2>1, SumsAgree
<1>5. Total(g) \in Int
  BY <1>2, TotalType
<1> QED
  BY <1>1, <1>3, <1>4, <1>5 DEF Total

\* One value changes.
LEMMA TotalChange ==
  ASSUME NEW D, IsFiniteSet(D), NEW f \in [D -> Int], NEW g \in [D -> Int],
         NEW x \in D, \A y \in D \ {x} : g[y] = f[y]
  PROVE  Total(g) = Total(f) - f[x] + g[x]
<1> DEFINE h == [y \in D \ {x} |-> f[y]]
<1>1. h \in [D \ {x} -> Int] /\ \A y \in D \ {x} : h[y] = f[y] /\ h[y] = g[y]
  OBVIOUS
<1> HIDE DEF h
<1>2. Total(f) = f[x] + Total(h) /\ Total(h) \in Int
  BY <1>1, TotalWithout
<1>3. Total(g) = g[x] + Total(h)
  BY <1>1, TotalWithout
<1>4. f[x] \in Int /\ g[x] \in Int
  OBVIOUS
<1> QED
  BY <1>2, <1>3, <1>4

\* Values that are not negative have a sum that is not less than any of them,
\* nor than any two of them.
LEMMA TotalNotLess ==
  ASSUME NEW D, IsFiniteSet(D), NEW f \in [D -> Nat]
  PROVE  /\ Total(f) >= 0
         /\ \A x \in D : Total(f) >= f[x]
         /\ \A x, y \in D : x # y => Total(f) >= f[x] + f[y]
<1> DEFINE s == Sums(f)
           P == {S \in SUBSET D : s[S] >= 0}
<1>1. f \in [D -> Int] /\ DOMAIN f = D
  OBVIOUS
<1>2. s[{}] = 0
  BY <1>1, SumEmpty
<1>15. ASSUME NEW S \in SUBSET D PROVE s[S] \in Int
  BY <1>1, SumType
<1>3. ASSUME NEW S \in SUBSET D, NEW x \in S PROVE s[S] = f[x] + s[S \ {x}]
  BY <1>1, SumSplit DEF Splits
<1>4. Total(f) = s[D]
  BY <1>1 DEF Total
<1> HIDE DEF s
<1>5. {} \in P
  BY <1>2
<1>6. ASSUME NEW S \in SUBSET D, S # {}, \A x \in S : S \ {x} \in P
      PROVE  S \in P
  <2>1. PICK x \in S : TRUE
    BY <1>6
  <2>2. s[S \ {x}] >= 0 /\ S \ {x} \in SUBSET D
    BY <1>6
  <2>3. s[S] = f[x] + s[S \ {x}] /\ f[x] \in Nat /\ s[S \ {x}] \in Int
    BY <1>3, <1>15, <2>2
  <2>4. s[S] >= 0
    BY <2>2, <2>3
  <2> QED
    BY <2>4
<1>7. \A S \in SUBSET D : S \in P
  <2> HIDE DEF P
  <2> QED
    BY <1>5, <1>6, PartInduction
<1>8. \A S \in SUBSET D : s[S] \in Int /\ s[S] >= 0
  BY <1>7, <1>15
<1>9. ASSUME NEW x \in D PROVE /\ s[D] = f[x] + s[D \ {x}]
                               /\ f[x] \in Nat /\ s[D \ {x}] \in Int /\ s[D \ {x}] >= 0
  <2>1. D \in SUBSET D /\ D \ {x} \in SUBSET D
    OBVIOUS
  <2> QED
    BY <1>3, <1>8, <2>1
<1>10. ASSUME NEW x \in D, NEW y \in D, x # y
       PROVE  /\ s[D \ {x}] = f[y] + s[D \ {x, y}]
              /\ s[D \ {x, y}] \in Int /\ s[D \ {x, y}] >= 0
  <2>1. y \in D \ {x} /\ D \ {x} \in SUBSET D /\ D \ {x, y} \in SUBSET D
    BY <1>10
  <2>2. (D \ {x}) \ {y} = D \ {x, y}
    OBVIOUS
  <2>3. s[D \ {x}] = f[y] + s[(D \ {x}) \ {y}]
    BY <1>3, <2>1
  <2> QED
    BY <1>8, <2>1, <2>2, <2>3
<1>11. D \in SUBSET D
  OBVIOUS
<1>12. s[D] >= 0
  BY <1>8, <1>11
<1>13. ASSUME NEW x \in D PROVE s[D] >= f[x]
  <2>1. s[D] = f[x] + s[D \ {x}] /\ f[x] \in Nat /\ s[D \ {x}] \in Int /\ s[D \ {x}] >= 0
    BY <1>9
  <2> QED
    BY <2>1
<1>14. ASSUME NEW x \in D, NEW y \in D, x # y PROVE s[D] >= f[x] + f[y]
  <2>1. /\ s[D] = f[x] + s[D \ {x}] /\ s[D \ {x}] = f[y] + s[D \ {x, y}]
        /\ s[D \ {x, y}] \in Int /\ s[D \ {x, y}] >= 0 /\ f[x] \in Nat /\ f[y] \in Nat
    BY <1>9, <1>10, <1>14
  <2> QED
    BY <2>1
<1> QED
  BY <1>4, <1>12, <1>13, <1>14
=============================================================================
