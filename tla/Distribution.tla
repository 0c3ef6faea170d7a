---------------------------- MODULE Distribution -----------------------------
(***************************************************************************)
(* internal/store/distribution.go: the eight fixed positive-balance        *)
(* buckets of address_balance_distribution.                                *)
(***************************************************************************)
EXTENDS Integers

CONSTANT SatoshisPerQOGE   \* the scale between QOGE and satoshis

ASSUME ScaleAssumption == SatoshisPerQOGE \in Nat \ {0}

Bucket == 1..8
NoBucket == 0

\* distributionBuckets: inclusive bounds, the top bucket has no maximum.
minSatoshis == << 1,
                  1 * SatoshisPerQOGE,
                  10 * SatoshisPerQOGE,
                  100 * SatoshisPerQOGE,
                  1000 * SatoshisPerQOGE,
                  10000 * SatoshisPerQOGE,
                  100000 * SatoshisPerQOGE,
                  1000000 * SatoshisPerQOGE >>
maxSatoshis == << 1 * SatoshisPerQOGE - 1,
                  10 * SatoshisPerQOGE - 1,
                  100 * SatoshisPerQOGE - 1,
                  1000 * SatoshisPerQOGE - 1,
                  10000 * SatoshisPerQOGE - 1,
                  100000 * SatoshisPerQOGE - 1,
                  1000000 * SatoshisPerQOGE - 1 >>

InBucket(k, balance) ==
  /\ balance >= minSatoshis[k]
  /\ k = 8 \/ balance <= maxSatoshis[k]

\* The first bucket that holds the balance, NoBucket for a balance of zero.
bucketForBalance(balance) ==
  IF \E k \in Bucket : balance > 0 /\ InBucket(k, balance)
  THEN CHOOSE k \in Bucket : /\ InBucket(k, balance)
                             /\ \A j \in Bucket : InBucket(j, balance) => k <= j
  ELSE NoBucket
=============================================================================
