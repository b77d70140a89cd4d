------------------------------ MODULE Listing ------------------------------
(***************************************************************************)
(* Lists in the order of ids.  A redis stream keeps its entries in that    *)
(* order, and every command that reads it answers in that order.           *)
(***************************************************************************)
EXTENDS Naturals, FiniteSets, Sequences

\* The place of i in the list of the ids.
Rank(i, ids) == Cardinality({j \in ids : j <= i})

\* A finite set of ids, as a list.
Ascending(ids) == [k \in 1..Cardinality(ids) |-> CHOOSE i \in ids : Rank(i, ids) = k]

\* The first n of them.
Lowest(ids, n) == {i \in ids : Rank(i, ids) <= n}

\* What a sequence has at these places, in the same order.
Filter(s, places) ==
  LET at == Ascending(places) IN [k \in DOMAIN at |-> s[at[k]]]
=============================================================================
