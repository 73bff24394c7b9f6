------------------------------ MODULE Percentile ------------------------------
(***************************************************************************)
(* internal/runner, percentile: the median and the 95th percentile of a    *)
(* non-empty series of durations.                                          *)
(***************************************************************************)
EXTENDS Integers, Sequences, FiniteSets

(* A mistake the checks must notice: the durations are not sorted.         *)
KthUnsorted(d, k) == d[k]

(* sorted[k - 1] of the code: the k-th smallest value of a sequence.       *)
KthSmallest(d, k) ==
  CHOOSE v \in {d[i] : i \in DOMAIN d} :
    /\ Cardinality({i \in DOMAIN d : d[i] < v}) < k
    /\ k <= Cardinality({i \in DOMAIN d : d[i] <= v})

(* A mistake the checks must notice: an even number has a middle, too.     *)
P50DoubledUpper(d) == 2 * KthSmallest(d, Len(d) \div 2 + 1)

(* percentile(d, 0.50), doubled: the median, or the sum of the two middle  *)
(* values where the code takes their mean.                                 *)
P50Doubled(d) ==
  LET n == Len(d)
  IN  IF n % 2 = 1
      THEN 2 * KthSmallest(d, n \div 2 + 1)
      ELSE KthSmallest(d, n \div 2) + KthSmallest(d, n \div 2 + 1)

(* A mistake the checks must notice: the rank is used as an index from 0.  *)
P95RankAsIndex(d) ==
  LET n == Len(d)
      rank == (95 * n + 99) \div 100 + 1
  IN  KthSmallest(d, IF rank < 1 THEN 1 ELSE IF rank > n THEN n ELSE rank)

(* percentile(d, 0.95): nearest rank, ceil(0.95 n) clamped to 1 .. n.      *)
P95(d) ==
  LET n == Len(d)
      rank == (95 * n + 99) \div 100
  IN  KthSmallest(d, IF rank < 1 THEN 1 ELSE IF rank > n THEN n ELSE rank)
==============================================================================
