-------------------------------- MODULE Sums --------------------------------
(***************************************************************************)
(* Sums of what belongs to the elements of a finite set.                   *)
(***************************************************************************)
EXTENDS Integers, FiniteSets

\* The sums of f over the subsets of its domain.
Sums(f) ==
  LET sum[S \in SUBSET DOMAIN f] ==
        IF S = {} THEN 0
        ELSE LET x == CHOOSE x \in S : TRUE IN f[x] + sum[S \ {x}]
  IN  sum

Total(f) == Sums(f)[DOMAIN f]
=============================================================================
