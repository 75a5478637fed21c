-------------------------- MODULE RateLimitProofs --------------------------
(***************************************************************************)
(* Proofs about the token buckets of RateLimit, for any capacities,        *)
(* periods, addresses, names and tasks.                                    *)
(*                                                                         *)
(* A bucket accounts for the grants of its key: the tokens it holds are    *)
(* what a full bucket, less the grants since some earlier one, has come to *)
(* by the last refill, and never more than that for any of them.  A key    *)
(* without a bucket is one whose bucket would be full.                     *)
(***************************************************************************)
EXTENDS RateLimit, FiniteSetTheorems, TLAPS

GoodLimit(limit) ==
    /\ limit \in [capacity : Nat \ {0}, period : Nat \ {0}, full : Nat \ {0}]
    /\ limit.full = limit.capacity * limit.period
    /\ limit.period <= limit.full
    /\ limit.full <= IdleTTL

(* What the grants from the i-th on have cost.                             *)
Cost(q, i, limit) == (Len(q) - i + 1) * limit.period

InOrder(q, t) ==
    \A i \in 1 .. Len(q) : q[i] <= t /\ \A j \in i .. Len(q) : q[i] <= q[j]

Accounts(b, q, limit, t) ==
    IF b = NoBucket
    THEN \A i \in 1 .. Len(q) : Cost(q, i, limit) <= t - q[i]
    ELSE /\ b.last_refill <= t
         /\ \A i \in 1 .. Len(q) :
               Cost(q, i, limit) + b.tokens <= limit.full + (b.last_refill - q[i])
         /\ \/ b.tokens = limit.full
            \/ \E i \in 1 .. Len(q) :
                  Cost(q, i, limit) + b.tokens >= limit.full + (b.last_refill - q[i])

GoodBucket(b, q, limit, t) ==
    /\ b \in BucketOf(limit)
    /\ q \in Seq(Nat)
    /\ InOrder(q, t)
    /\ WithinRate(q, limit)
    /\ Accounts(b, q, limit, t)

GoodTable(buckets, history, limit, t, dom) ==
    /\ buckets \in [dom -> BucketOf(limit)]
    /\ history \in [dom -> Seq(Nat)]
    /\ \A k \in dom : GoodBucket(buckets[k], history[k], limit, t)
    /\ IsFiniteSet(Present(buckets))
    /\ Cardinality(Present(buckets)) <= MaxEntries

(* The inductive invariant.                                                *)
IInv ==
    /\ now \in Nat
    /\ call \in [Tasks -> CallStates]
    /\ \A t \in Tasks : call[t] # IdleCall => call[t].asked <= now
    /\ GoodTable(ip_rate_limits, ip_granted, IpLimit, now, IPs)
    /\ GoodTable(rate_limits, granted, UserLimit, now, Keys)

-----------------------------------------------------------------------------
(* The limits of the two tables are good ones.                             *)
LEMMA LimitsGood == GoodLimit(IpLimit) /\ GoodLimit(UserLimit)
<1>1. ASSUME NEW c \in Nat \ {0}, NEW p \in Nat \ {0}
      PROVE  c * p \in Nat \ {0} /\ p <= c * p
  <2>1. c * p = p + (c - 1) * p /\ c - 1 \in Nat
    OBVIOUS
  <2>2. (c - 1) * p \in Nat
    BY <2>1
  <2> QED BY <2>1, <2>2
<1> QED
  BY <1>1, LimitsAssumption DEF GoodLimit, IpLimit, UserLimit, Limit

(* A bucket that was refilled for the time that passed: the bounds of its   *)
(* sum move with the time.                                                 *)
LEMMA SumMoves ==
    ASSUME NEW x \in Int, NEW y \in Int, NEW z \in Int, NEW full \in Int,
           NEW sent \in Int, NEW from \in Int, NEW to \in Int
    PROVE  /\ x + y <= full + (from - sent) /\ z <= y + (to - from)
                => x + z <= full + (to - sent)
           /\ x + y >= full + (from - sent) /\ z = y + (to - from)
                => x + z >= full + (to - sent)
  OBVIOUS

(* A bucket that was idle for longer than it takes to fill: without it, the *)
(* cost of its grants is within the time that passed.                      *)
LEMMA SumPruned ==
    ASSUME NEW x \in Int, NEW y \in Int, NEW full \in Int, NEW ttl \in Int,
           NEW sent \in Int, NEW from \in Int, NEW asked \in Int, NEW to \in Int
    PROVE  /\ x + y <= full + (from - sent)
           /\ 0 <= y
           /\ full <= ttl
           /\ asked - from > ttl
           /\ asked <= to
           => x <= to - sent
  OBVIOUS

(* A bucket that has come to less than a token: what its grants cost.      *)
LEMMA SumRefused ==
    ASSUME NEW x \in Int, NEW y \in Int, NEW full \in Int, NEW period \in Int,
           NEW sent \in Int, NEW from \in Int, NEW to \in Int,
           x + y >= full + (from - sent),
           y + (to - from) < period
    PROVE  x > full - period + (to - sent)
  OBVIOUS

(* A bucket and its grants stay good as time passes.                       *)
LEMMA GoodBucketLater ==
    ASSUME NEW limit, GoodLimit(limit), NEW b, NEW q, NEW t \in Nat, NEW u \in Nat,
           t <= u, GoodBucket(b, q, limit, t)
    PROVE  GoodBucket(b, q, limit, u)
<1> USE DEF GoodBucket
<1>1. \A i \in 1 .. Len(q) : q[i] \in Nat
  OBVIOUS
<1>2. InOrder(q, u)
  BY <1>1 DEF InOrder
<1>3. Accounts(b, q, limit, u)
  <2>1. CASE b = NoBucket
    <3> SUFFICES ASSUME NEW i \in 1 .. Len(q)
                 PROVE  Cost(q, i, limit) <= u - q[i]
      BY <2>1 DEF Accounts
    <3>1. Cost(q, i, limit) \in Int
      BY DEF Cost, GoodLimit
    <3>2. Cost(q, i, limit) <= t - q[i]
      BY <2>1 DEF Accounts
    <3>3. q[i] \in Nat
      BY <1>1
    <3> HIDE DEF GoodBucket
    <3> QED BY <3>1, <3>2, <3>3
  <2>2. CASE b # NoBucket
    <3>1. b.last_refill \in Nat
      BY <2>2 DEF BucketOf
    <3> QED BY <2>2, <3>1 DEF Accounts
  <2> QED BY <2>1, <2>2
<1> QED BY <1>2, <1>3

(* prune_buckets drops only buckets that would be full by now, even when   *)
(* it goes by a time that has passed.                                      *)
LEMMA GoodBucketPruned ==
    ASSUME NEW limit, GoodLimit(limit), NEW b, NEW q, NEW t \in Nat, NEW asked \in Nat,
           asked <= t, GoodBucket(b, q, limit, t)
    PROVE  GoodBucket(IF asked - b.last_refill > IdleTTL THEN NoBucket ELSE b, q, limit, t)
<1> USE DEF GoodBucket
<1>1. CASE ~(asked - b.last_refill > IdleTTL) \/ b = NoBucket
  BY <1>1
<1>2. CASE asked - b.last_refill > IdleTTL /\ b # NoBucket
  <2>1. b.last_refill \in Nat /\ b.tokens \in Nat /\ limit.full \in Nat
    BY <1>2 DEF BucketOf, GoodLimit
  <2>2. ASSUME NEW i \in 1 .. Len(q)
        PROVE  Cost(q, i, limit) <= t - q[i]
    <3>1. Cost(q, i, limit) \in Int /\ q[i] \in Nat
      BY DEF Cost, GoodLimit
    <3>2. Cost(q, i, limit) + b.tokens <= limit.full + (b.last_refill - q[i])
      BY <1>2 DEF Accounts
    <3>3. limit.full <= IdleTTL /\ IdleTTL \in Int
      BY LimitsAssumption DEF GoodLimit
    <3>4. q[i] \in Int /\ t \in Int /\ asked \in Int
      BY <3>1
    <3>5. b.tokens \in Int /\ b.last_refill \in Int /\ limit.full \in Int /\ 0 <= b.tokens
      BY <2>1
    <3> HIDE DEF GoodBucket
    <3> QED BY <1>2, <3>1, <3>2, <3>3, <3>4, <3>5, SumPruned, Zenon
  <2>3. Accounts(NoBucket, q, limit, t)
    BY <2>2 DEF Accounts
  <2> QED BY <1>2, <2>3 DEF BucketOf
<1> QED BY <1>1, <1>2

(* What a refill up to now yields.                                         *)
LEMMA RefilledBounds ==
    ASSUME NEW limit, GoodLimit(limit), NEW b, NEW q, now \in Nat,
           GoodBucket(b, q, limit, now)
    PROVE  /\ Refilled(b, limit) \in 0 .. limit.full
           /\ \A i \in 1 .. Len(q) :
                 Cost(q, i, limit) + Refilled(b, limit) <= limit.full + (now - q[i])
           /\ \/ Refilled(b, limit) = limit.full
              \/ \E i \in 1 .. Len(q) :
                    Cost(q, i, limit) + Refilled(b, limit) >= limit.full + (now - q[i])
<1> USE DEF GoodBucket
<1>1. limit.full \in Nat /\ \A i \in 1 .. Len(q) : Cost(q, i, limit) \in Int /\ q[i] \in Nat
  BY DEF Cost, GoodLimit
<1>2. CASE b = NoBucket
  BY <1>1, <1>2 DEF Accounts, Refilled
<1>3. CASE b # NoBucket
  <2>1. b.last_refill \in Nat /\ b.tokens \in 0 .. limit.full /\ b.last_refill <= now
    BY <1>3 DEF BucketOf, Accounts
  <2>2. \A i \in 1 .. Len(q) :
           Cost(q, i, limit) + b.tokens <= limit.full + (b.last_refill - q[i])
    BY <1>3 DEF Accounts
  <2>3. \/ b.tokens = limit.full
        \/ \E i \in 1 .. Len(q) :
              Cost(q, i, limit) + b.tokens >= limit.full + (b.last_refill - q[i])
    BY <1>3 DEF Accounts
  <2> HIDE DEF GoodBucket
  <2>4. /\ Refilled(b, limit) \in 0 .. limit.full
        /\ Refilled(b, limit) <= b.tokens + (now - b.last_refill)
        /\ \/ Refilled(b, limit) = limit.full
           \/ Refilled(b, limit) = b.tokens + (now - b.last_refill)
    BY <1>1, <1>3, <2>1 DEF Refilled
  <2>5. \A i \in 1 .. Len(q) :
           Cost(q, i, limit) + Refilled(b, limit) <= limit.full + (now - q[i])
    <3> SUFFICES ASSUME NEW i \in 1 .. Len(q)
                 PROVE  Cost(q, i, limit) + Refilled(b, limit) <= limit.full + (now - q[i])
      OBVIOUS
    <3>1. Cost(q, i, limit) \in Int /\ q[i] \in Int /\ limit.full \in Int
      BY <1>1
    <3>2. Cost(q, i, limit) + b.tokens <= limit.full + (b.last_refill - q[i])
      BY <2>2
    <3>3. b.tokens \in Int /\ b.last_refill \in Int /\ Refilled(b, limit) \in Int
      BY <1>1, <2>1, <2>4
    <3>4. Refilled(b, limit) <= b.tokens + (now - b.last_refill)
      BY <2>4
    <3>5. now \in Int
      OBVIOUS
    <3> QED BY <3>1, <3>2, <3>3, <3>4, <3>5, SumMoves, Zenon
  <2>6. ASSUME Refilled(b, limit) # limit.full
        PROVE  \E i \in 1 .. Len(q) :
                  Cost(q, i, limit) + Refilled(b, limit) >= limit.full + (now - q[i])
    <3>1. b.tokens # limit.full
      BY <1>1, <2>1, <2>4, <2>6
    <3>2. PICK i \in 1 .. Len(q) :
             Cost(q, i, limit) + b.tokens >= limit.full + (b.last_refill - q[i])
      BY <2>3, <3>1
    <3>3. now \in Int
      OBVIOUS
    <3>4. Cost(q, i, limit) + Refilled(b, limit) >= limit.full + (now - q[i])
      <4>1. Cost(q, i, limit) \in Int /\ q[i] \in Int /\ limit.full \in Int
        BY <1>1
      <4>2. b.tokens \in Int /\ b.last_refill \in Int
        BY <1>1, <2>1
      <4>3. Refilled(b, limit) = b.tokens + (now - b.last_refill)
        BY <2>4, <2>6
      <4>4. Refilled(b, limit) \in Int
        BY <1>1, <2>4
      <4> QED BY <3>2, <4>1, <4>2, <4>3, <4>4, <3>3, SumMoves, Zenon
    <3> QED BY <3>4
  <2> QED BY <2>4, <2>5, <2>6
<1> QED BY <1>2, <1>3

(* A refused call leaves a good bucket.                                    *)
LEMMA GoodBucketRefused ==
    ASSUME NEW limit, GoodLimit(limit), NEW b, NEW q, now \in Nat,
           GoodBucket(b, q, limit, now)
    PROVE  GoodBucket([tokens |-> Refilled(b, limit), last_refill |-> now], q, limit, now)
<1> DEFINE c == [tokens |-> Refilled(b, limit), last_refill |-> now]
<1>1. c.tokens = Refilled(b, limit) /\ c.last_refill = now /\ c # NoBucket
  BY DEF NoBucket
<1>2. c \in BucketOf(limit)
  BY RefilledBounds DEF BucketOf
<1> HIDE DEF c
<1>3. Accounts(c, q, limit, now)
  BY <1>1, RefilledBounds DEF Accounts
<1>4. GoodBucket(c, q, limit, now)
  BY <1>2, <1>3 DEF GoodBucket
<1> QED BY <1>4 DEF c

(* So does one that is granted, and its grant is within the rate.          *)
LEMMA GoodBucketGranted ==
    ASSUME NEW limit, GoodLimit(limit), NEW b, NEW q, now \in Nat,
           GoodBucket(b, q, limit, now), Refilled(b, limit) >= limit.period
    PROVE  GoodBucket([tokens |-> Refilled(b, limit) - limit.period, last_refill |-> now],
                      Append(q, now), limit, now)
<1> DEFINE c  == [tokens |-> Refilled(b, limit) - limit.period, last_refill |-> now]
           r  == Append(q, now)
           n  == Len(q)
<1>1. limit.full \in Nat \ {0} /\ limit.period \in Nat \ {0} /\ limit.period <= limit.full
  BY DEF GoodLimit
<1>2. q \in Seq(Nat) /\ n \in Nat /\ \A i \in 1 .. n : q[i] \in Nat /\ q[i] <= now
  BY DEF GoodBucket, InOrder
<1>3. /\ r \in Seq(Nat) /\ Len(r) = n + 1 /\ r[n + 1] = now
      /\ \A i \in 1 .. n : r[i] = q[i]
  BY <1>2
<1>4. Refilled(b, limit) \in 0 .. limit.full
  BY RefilledBounds
<1>5. c \in BucketOf(limit) /\ c # NoBucket
  <2>1. Refilled(b, limit) - limit.period \in 0 .. limit.full
    BY <1>1, <1>4
  <2> QED BY <2>1 DEF BucketOf, NoBucket
<1>6. c.tokens = Refilled(b, limit) - limit.period /\ c.last_refill = now
  OBVIOUS
<1>7. \A i \in 1 .. n : Cost(q, i, limit) \in Int
                        /\ Cost(r, i, limit) = Cost(q, i, limit) + limit.period
  BY <1>1, <1>2, <1>3 DEF Cost
<1>8. Cost(r, n + 1, limit) = limit.period
  BY <1>1, <1>2, <1>3 DEF Cost
<1>8a. limit.period \in Int /\ Refilled(b, limit) \in Int
  BY <1>1, <1>4
<1> HIDE DEF c, r
<1>9. InOrder(r, now)
  <2>1. \A i \in 1 .. n : \A j \in i .. n : q[i] <= q[j]
    BY DEF InOrder, GoodBucket
  <2> SUFFICES ASSUME NEW i \in 1 .. Len(r)
               PROVE  r[i] <= now /\ \A j \in i .. Len(r) : r[i] <= r[j]
    BY DEF InOrder
  <2>2. CASE i = n + 1
    <3>1. r[i] = now /\ \A j \in i .. Len(r) : j = i
      BY <1>2, <1>3, <2>2
    <3> QED BY <3>1
  <2>3. CASE i # n + 1
    <3>1. i \in 1 .. n
      BY <1>2, <1>3, <2>3
    <3>2. r[i] = q[i] /\ r[i] <= now
      BY <1>2, <1>3, <3>1
    <3>3. ASSUME NEW j \in i .. Len(r)
          PROVE  r[i] <= r[j]
      <4>1. CASE j = n + 1
        BY <1>3, <3>2, <4>1
      <4>2. CASE j # n + 1
        <5>0. i \in Int /\ 1 <= i /\ j \in Int /\ i <= j /\ j <= n + 1 /\ n \in Int
          BY <1>2, <1>3
        <5>1. j \in i .. n /\ j \in 1 .. n
          BY <4>2, <5>0
        <5>2. q[i] <= q[j]
          BY <2>1, <3>1, <5>1
        <5>3. r[i] = q[i] /\ r[j] = q[j]
          BY <1>3, <3>1, <5>1
        <5> QED BY <5>2, <5>3
      <4> QED BY <4>1, <4>2
    <3> QED BY <3>2, <3>3
  <2> QED BY <2>2, <2>3
<1>10. ASSUME NEW i \in 1 .. Len(r)
       PROVE  Cost(r, i, limit) + c.tokens <= limit.full + (now - r[i])
  <2>1. CASE i = n + 1
    <3>1. Cost(r, i, limit) + c.tokens = Refilled(b, limit)
      BY <1>6, <1>8, <1>8a, <2>1
    <3>2. r[i] = now
      BY <1>3, <2>1
    <3>3. limit.full \in Nat /\ Refilled(b, limit) <= limit.full
      BY <1>1, <1>4
    <3> QED BY <1>8a, <3>1, <3>2, <3>3
  <2>2. CASE i \in 1 .. n
    <3>1. Cost(q, i, limit) + Refilled(b, limit) <= limit.full + (now - q[i])
      BY <2>2, RefilledBounds
    <3>2. Cost(q, i, limit) \in Int /\ Cost(r, i, limit) = Cost(q, i, limit) + limit.period
      BY <1>7, <2>2
    <3>3. q[i] \in Nat /\ r[i] = q[i]
      BY <1>2, <1>3, <2>2
    <3>4. Cost(r, i, limit) + c.tokens = Cost(q, i, limit) + Refilled(b, limit)
      BY <1>6, <1>8a, <3>2
    <3> QED BY <3>1, <3>3, <3>4
  <2> QED BY <1>2, <1>3, <2>1, <2>2
<1>11. \E i \in 1 .. Len(r) : Cost(r, i, limit) + c.tokens >= limit.full + (now - r[i])
  <2>1. CASE Refilled(b, limit) = limit.full
    <3>1. n + 1 \in 1 .. Len(r)
      BY <1>2, <1>3
    <3>2. Cost(r, n + 1, limit) + c.tokens = Refilled(b, limit)
      BY <1>6, <1>8, <1>8a
    <3>3. Cost(r, n + 1, limit) + c.tokens >= limit.full + (now - r[n + 1])
      BY <1>1, <1>3, <2>1, <3>2
    <3> QED BY <3>1, <3>3
  <2>2. CASE Refilled(b, limit) # limit.full
    <3>1. PICK i \in 1 .. n :
             Cost(q, i, limit) + Refilled(b, limit) >= limit.full + (now - q[i])
      BY <2>2, RefilledBounds
    <3>2. Cost(q, i, limit) \in Int /\ Cost(r, i, limit) = Cost(q, i, limit) + limit.period
      BY <1>7
    <3>3. r[i] = q[i]
      BY <1>3
    <3>4. Cost(r, i, limit) + c.tokens = Cost(q, i, limit) + Refilled(b, limit)
      BY <1>6, <1>8a, <3>2
    <3>5. Cost(r, i, limit) + c.tokens >= limit.full + (now - r[i])
      BY <3>1, <3>3, <3>4
    <3>6. i \in 1 .. Len(r)
      BY <1>2, <1>3
    <3> QED BY <3>5, <3>6
  <2> QED BY <2>1, <2>2
<1>12. Accounts(c, r, limit, now)
  BY <1>5, <1>6, <1>10, <1>11 DEF Accounts
<1>13. WithinRate(r, limit)
  <2> SUFFICES ASSUME NEW i \in 1 .. Len(r), NEW j \in i .. Len(r)
               PROVE  (j - i + 1) * limit.period <= limit.full + (r[j] - r[i])
    BY DEF WithinRate
  <2>1. CASE j = n + 1
    <3>1. Cost(r, i, limit) = (j - i + 1) * limit.period
      BY <1>3, <2>1 DEF Cost
    <3>2. c.tokens \in Nat
      BY <1>1, <1>4, <1>6
    <3>3. Cost(r, i, limit) \in Int
      BY <1>1, <1>2, <1>3 DEF Cost
    <3>4. r[i] \in Nat
      BY <1>3
    <3>5. Cost(r, i, limit) + c.tokens <= limit.full + (now - r[i])
      BY <1>10
    <3>6. r[j] = now
      BY <1>3, <2>1
    <3>7. (j - i + 1) * limit.period \in Int
      BY <3>1, <3>3
    <3> QED BY <1>1, <3>1, <3>2, <3>3, <3>4, <3>5, <3>6, <3>7
  <2>2. CASE j # n + 1
    <3>1. i \in 1 .. n /\ j \in i .. n
      BY <1>2, <1>3, <2>2
    <3> QED BY <1>3, <3>1 DEF GoodBucket, WithinRate
  <2> QED BY <2>1, <2>2
<1>14. GoodBucket(c, r, limit, now)
  BY <1>3, <1>5, <1>9, <1>12, <1>13 DEF GoodBucket
<1> QED BY <1>14 DEF c, r

-----------------------------------------------------------------------------
(* A table stays good as time passes.                                      *)
LEMMA GoodTableLater ==
    ASSUME NEW limit, GoodLimit(limit), NEW dom, NEW buckets, NEW history,
           NEW t \in Nat, NEW u \in Nat, t <= u, GoodTable(buckets, history, limit, t, dom)
    PROVE  GoodTable(buckets, history, limit, u, dom)
BY GoodBucketLater DEF GoodTable

(* prune_buckets leaves a good table.                                      *)
LEMMA GoodTablePruned ==
    ASSUME NEW limit, GoodLimit(limit), NEW dom, NEW buckets, NEW history,
           NEW t \in Nat, NEW asked \in Nat, asked <= t,
           GoodTable(buckets, history, limit, t, dom)
    PROVE  GoodTable(PruneBuckets(buckets, asked), history, limit, t, dom)
<1> DEFINE pruned == PruneBuckets(buckets, asked)
<1>1. /\ buckets \in [dom -> BucketOf(limit)] /\ history \in [dom -> Seq(Nat)]
      /\ \A k \in dom : GoodBucket(buckets[k], history[k], limit, t)
      /\ IsFiniteSet(Present(buckets)) /\ Cardinality(Present(buckets)) <= MaxEntries
  BY DEF GoodTable
<1>2. pruned = [k \in dom |-> IF asked - buckets[k].last_refill > IdleTTL
                              THEN NoBucket ELSE buckets[k]]
  BY <1>1 DEF PruneBuckets
<1>3. pruned \in [dom -> BucketOf(limit)]
  BY <1>1, <1>2 DEF BucketOf
<1>4. ASSUME NEW k \in dom
      PROVE  GoodBucket(pruned[k], history[k], limit, t)
  <2>1. GoodBucket(buckets[k], history[k], limit, t)
    BY <1>1
  <2>2. GoodBucket(IF asked - buckets[k].last_refill > IdleTTL THEN NoBucket ELSE buckets[k],
                   history[k], limit, t)
    BY <2>1, GoodBucketPruned
  <2> QED BY <1>2, <2>2
<1>5. IsFiniteSet(Present(pruned)) /\ Cardinality(Present(pruned)) <= MaxEntries
  <2>1. Present(pruned) \subseteq Present(buckets)
    BY <1>1, <1>2 DEF Present
  <2>2. /\ IsFiniteSet(Present(pruned))
        /\ Cardinality(Present(pruned)) <= Cardinality(Present(buckets))
    BY <1>1, <2>1, FS_Subset
  <2>3. Cardinality(Present(pruned)) \in Nat /\ Cardinality(Present(buckets)) \in Nat
    BY <1>1, <2>2, FS_CardinalityType
  <2> QED BY <1>1, <2>2, <2>3, LimitsAssumption
<1> QED BY <1>1, <1>3, <1>4, <1>5 DEF GoodTable

(* A call adds a key only where the table has room, and leaves the other   *)
(* buckets alone.                                                          *)
LEMMA GoodTableConsumed ==
    ASSUME NEW limit, GoodLimit(limit), NEW dom, NEW buckets, NEW history, now \in Nat,
           GoodTable(buckets, history, limit, now, dom), NEW k \in dom
    PROVE  GoodTable(ConsumeOne(buckets, k, limit),
                     IF Grants(buckets, k, limit)
                     THEN [history EXCEPT ![k] = Append(@, now)] ELSE history,
                     limit, now, dom)
<1> DEFINE tokens == Refilled(buckets[k], limit)
           after == [tokens |-> IF tokens >= limit.period THEN tokens - limit.period ELSE tokens,
                     last_refill |-> now]
           buckets2 == ConsumeOne(buckets, k, limit)
           history2 == IF Grants(buckets, k, limit)
                       THEN [history EXCEPT ![k] = Append(@, now)] ELSE history
<1>1. /\ buckets \in [dom -> BucketOf(limit)] /\ history \in [dom -> Seq(Nat)]
      /\ \A j \in dom : GoodBucket(buckets[j], history[j], limit, now)
      /\ IsFiniteSet(Present(buckets)) /\ Cardinality(Present(buckets)) <= MaxEntries
  BY DEF GoodTable
<1>2. CASE ~HasRoom(buckets, k)
  <2>1. buckets2 = buckets /\ history2 = history
    BY <1>2 DEF ConsumeOne, Grants
  <2> QED BY <2>1
<1>3. CASE HasRoom(buckets, k)
  <2>1. buckets2 = [buckets EXCEPT ![k] = after]
    BY <1>3 DEF ConsumeOne
  <2>2. history2 = [history EXCEPT ![k] =
                      IF tokens >= limit.period THEN Append(history[k], now) ELSE history[k]]
    BY <1>1, <1>3 DEF Grants
  <2>3. GoodBucket(after, IF tokens >= limit.period THEN Append(history[k], now) ELSE history[k],
                   limit, now)
    <3>1. GoodBucket(buckets[k], history[k], limit, now)
      BY <1>1
    <3>2. CASE tokens >= limit.period
      BY <3>1, <3>2, GoodBucketGranted
    <3>3. CASE ~(tokens >= limit.period)
      BY <3>1, <3>3, GoodBucketRefused
    <3> QED BY <3>2, <3>3
  <2> HIDE DEF after, buckets2, history2
  <2>4. /\ buckets2 \in [dom -> BucketOf(limit)] /\ history2 \in [dom -> Seq(Nat)]
        /\ \A j \in dom : GoodBucket(buckets2[j], history2[j], limit, now)
    BY <1>1, <2>1, <2>2, <2>3 DEF GoodBucket
  <2>5. IsFiniteSet(Present(buckets2)) /\ Cardinality(Present(buckets2)) <= MaxEntries
    <3>1. Present(buckets2) \subseteq Present(buckets) \cup {k}
      BY <1>1, <2>1, <2>4 DEF Present
    <3>2. CASE buckets[k] # NoBucket
      <4>1. Present(buckets2) \subseteq Present(buckets)
        BY <1>1, <3>1, <3>2 DEF Present
      <4>2. /\ IsFiniteSet(Present(buckets2))
            /\ Cardinality(Present(buckets2)) <= Cardinality(Present(buckets))
        BY <1>1, <4>1, FS_Subset
      <4>3. Cardinality(Present(buckets2)) \in Nat /\ Cardinality(Present(buckets)) \in Nat
        BY <1>1, <4>2, FS_CardinalityType
      <4> QED BY <1>1, <4>2, <4>3, LimitsAssumption
    <3>3. CASE buckets[k] = NoBucket
      <4>1. k \notin Present(buckets) /\ Cardinality(Present(buckets)) < MaxEntries
        BY <1>3, <3>3 DEF Present, HasRoom
      <4>2. /\ IsFiniteSet(Present(buckets) \cup {k})
            /\ Cardinality(Present(buckets) \cup {k}) = Cardinality(Present(buckets)) + 1
        BY <1>1, <4>1, FS_AddElement
      <4>3. /\ IsFiniteSet(Present(buckets2))
            /\ Cardinality(Present(buckets2)) <= Cardinality(Present(buckets) \cup {k})
        BY <3>1, <4>2, FS_Subset
      <4>4. Cardinality(Present(buckets2)) \in Nat /\ Cardinality(Present(buckets)) \in Nat
        BY <1>1, <4>3, FS_CardinalityType
      <4> QED BY <4>1, <4>2, <4>3, <4>4, LimitsAssumption
    <3> QED BY <3>2, <3>3
  <2>6. GoodTable(buckets2, history2, limit, now, dom)
    BY <2>4, <2>5 DEF GoodTable
  <2> QED BY <2>6 DEF buckets2, history2
<1> QED BY <1>2, <1>3

-----------------------------------------------------------------------------
(* The initial state satisfies the inductive invariant.                    *)
LEMMA InitIInv == Init => IInv
<1> SUFFICES ASSUME Init PROVE IInv
  OBVIOUS
<1>1. ASSUME NEW limit, GoodLimit(limit), NEW dom
      PROVE  GoodTable([k \in dom |-> NoBucket], [k \in dom |-> << >>], limit, now, dom)
  <2>1. GoodBucket(NoBucket, << >>, limit, now)
    BY DEF GoodBucket, BucketOf, InOrder, WithinRate, Accounts
  <2>2. Present([k \in dom |-> NoBucket]) = {}
    BY DEF Present
  <2>3. IsFiniteSet({}) /\ Cardinality({}) = 0
    BY FS_EmptySet
  <2>4. NoBucket \in BucketOf(limit) /\ << >> \in Seq(Nat)
    BY DEF BucketOf
  <2>5. 0 <= MaxEntries
    BY LimitsAssumption
  <2> QED BY <2>1, <2>2, <2>3, <2>4, <2>5 DEF GoodTable
<1>2. now \in Nat /\ call \in [Tasks -> CallStates]
  BY DEF Init, CallStates
<1>3. \A t \in Tasks : call[t] = IdleCall
  BY DEF Init
<1>4. /\ GoodTable(ip_rate_limits, ip_granted, IpLimit, now, IPs)
      /\ GoodTable(rate_limits, granted, UserLimit, now, Keys)
  BY <1>1, LimitsGood DEF Init
<1> QED BY <1>2, <1>3, <1>4 DEF IInv

(* Every step preserves it.                                                *)
LEMMA NextIInv == IInv /\ [Next]_vars => IInv'
<1> SUFFICES ASSUME IInv, [Next]_vars PROVE IInv'
  OBVIOUS
<1>a. /\ now \in Nat /\ call \in [Tasks -> CallStates]
      /\ \A t \in Tasks : call[t] # IdleCall => call[t].asked <= now
      /\ GoodTable(ip_rate_limits, ip_granted, IpLimit, now, IPs)
      /\ GoodTable(rate_limits, granted, UserLimit, now, Keys)
  BY DEF IInv
<1>1. ASSUME NEW t \in Tasks, Begin(t)
      PROVE  IInv'
  <2>1. PICK ip \in IPs, name \in Names :
           call' = [call EXCEPT ![t] = [pc |-> "ip", ip |-> ip, name |-> name, asked |-> now]]
    BY <1>1 DEF Begin
  <2>2. UNCHANGED <<now, ip_rate_limits, rate_limits, ip_granted, granted>>
    BY <1>1 DEF Begin
  <2>3. call' \in [Tasks -> CallStates]
    BY <1>a, <2>1 DEF CallStates
  <2>4. \A u \in Tasks : call'[u] # IdleCall => call'[u].asked <= now
    BY <1>a, <2>1
  <2> QED BY <1>a, <2>2, <2>3, <2>4 DEF IInv
<1>2. ASSUME NEW t \in Tasks, TakeIpToken(t)
      PROVE  IInv'
  <2> DEFINE ip == call[t].ip
             buckets == PruneBuckets(ip_rate_limits, call[t].asked)
  <2>1. call[t].pc = "ip" /\ UNCHANGED <<now, rate_limits, granted>>
    BY <1>2 DEF TakeIpToken
  <2>2. /\ call[t] # IdleCall /\ call[t] \in CallStates /\ ip \in IPs /\ call[t].name \in Names
        /\ call[t].asked \in Nat /\ call[t].asked <= now
    BY <1>a, <2>1 DEF CallStates, IdleCall
  <2>3. GoodTable(buckets, ip_granted, IpLimit, now, IPs)
    BY <1>a, <2>2, GoodTablePruned, LimitsGood
  <2>4. GoodTable(ConsumeOne(buckets, ip, IpLimit),
                  IF Grants(buckets, ip, IpLimit)
                  THEN [ip_granted EXCEPT ![ip] = Append(@, now)] ELSE ip_granted,
                  IpLimit, now, IPs)
    BY <1>a, <2>2, <2>3, GoodTableConsumed, LimitsGood
  <2>5. /\ ip_rate_limits' = ConsumeOne(buckets, ip, IpLimit)
        /\ ip_granted' = IF Grants(buckets, ip, IpLimit)
                         THEN [ip_granted EXCEPT ![ip] = Append(@, now)] ELSE ip_granted
    BY <1>2 DEF TakeIpToken
  <2>6. \/ call' = [call EXCEPT ![t].pc = "user", ![t].asked = now]
        \/ call' = [call EXCEPT ![t] = IdleCall]
    BY <1>2 DEF TakeIpToken
  <2> HIDE DEF buckets, ip
  <2>7. /\ call' \in [Tasks -> CallStates]
        /\ \A u \in Tasks : call'[u] # IdleCall => call'[u].asked <= now
    <3>1. CASE call' = [call EXCEPT ![t].pc = "user", ![t].asked = now]
      <4>1. call[t] \in [pc : {"ip", "user"}, ip : IPs, name : Names, asked : Nat]
        BY <2>1, <2>2 DEF CallStates, IdleCall
      <4>2. [call[t] EXCEPT !.pc = "user", !.asked = now]
               \in [pc : {"ip", "user"}, ip : IPs, name : Names, asked : Nat]
        BY <1>a, <4>1
      <4>3. call' = [call EXCEPT ![t] = [call[t] EXCEPT !.pc = "user", !.asked = now]]
        BY <1>a, <3>1
      <4>4. [call[t] EXCEPT !.pc = "user", !.asked = now].asked = now
        BY <4>1
      <4> DEFINE c == [call[t] EXCEPT !.pc = "user", !.asked = now]
      <4>5. c \in CallStates
        BY <4>2 DEF CallStates
      <4>6. call' = [call EXCEPT ![t] = c] /\ c.asked = now
        BY <4>3, <4>4
      <4> HIDE DEF c
      <4> QED BY <1>a, <4>5, <4>6
    <3>2. CASE call' = [call EXCEPT ![t] = IdleCall]
      BY <1>a, <3>2 DEF CallStates
    <3> QED BY <2>6, <3>1, <3>2
  <2> QED BY <1>a, <2>1, <2>4, <2>5, <2>7 DEF IInv
<1>3. ASSUME NEW t \in Tasks, TakeUserToken(t)
      PROVE  IInv'
  <2> DEFINE buckets == PruneBuckets(rate_limits, call[t].asked)
  <2>1. call[t].pc = "user" /\ UNCHANGED <<now, ip_rate_limits, ip_granted>>
    BY <1>3 DEF TakeUserToken
  <2>2. /\ call[t] # IdleCall /\ call[t].ip \in IPs /\ call[t].name \in Names
        /\ call[t].asked \in Nat /\ call[t].asked <= now
    BY <1>a, <2>1 DEF CallStates, IdleCall
  <2>3. Key(t) \in Keys
    BY <2>2, NamesAssumption DEF Key, Keys
  <2>4. GoodTable(buckets, granted, UserLimit, now, Keys)
    BY <1>a, <2>2, GoodTablePruned, LimitsGood
  <2>5. GoodTable(ConsumeOne(buckets, Key(t), UserLimit),
                  IF Grants(buckets, Key(t), UserLimit)
                  THEN [granted EXCEPT ![Key(t)] = Append(@, now)] ELSE granted,
                  UserLimit, now, Keys)
    BY <1>a, <2>3, <2>4, GoodTableConsumed, LimitsGood
  <2>6. /\ rate_limits' = ConsumeOne(buckets, Key(t), UserLimit)
        /\ granted' = IF Grants(buckets, Key(t), UserLimit)
                      THEN [granted EXCEPT ![Key(t)] = Append(@, now)] ELSE granted
    BY <1>3 DEF TakeUserToken
  <2>7. call' = [call EXCEPT ![t] = IdleCall]
    BY <1>3 DEF TakeUserToken
  <2> HIDE DEF buckets
  <2>8. /\ call' \in [Tasks -> CallStates]
        /\ \A u \in Tasks : call'[u] # IdleCall => call'[u].asked <= now
    BY <1>a, <2>7 DEF CallStates
  <2> QED BY <1>a, <2>1, <2>5, <2>6, <2>8 DEF IInv
<1>4. CASE Tick
  <2>1. now' = now + 1 /\ now' \in Nat /\ now <= now'
    BY <1>4, <1>a DEF Tick
  <2>2. UNCHANGED <<ip_rate_limits, rate_limits, call, ip_granted, granted>>
    BY <1>4 DEF Tick
  <2>3. /\ GoodTable(ip_rate_limits, ip_granted, IpLimit, now', IPs)
        /\ GoodTable(rate_limits, granted, UserLimit, now', Keys)
    BY <1>a, <2>1, GoodTableLater, LimitsGood
  <2>4. \A t \in Tasks : call[t] # IdleCall => call[t].asked <= now'
    <3> SUFFICES ASSUME NEW t \in Tasks, call[t] # IdleCall
                 PROVE  call[t].asked <= now'
      OBVIOUS
    <3>1. call[t].asked \in Nat
      BY <1>a DEF CallStates
    <3>2. call[t].asked <= now
      BY <1>a
    <3> QED BY <1>a, <2>1, <3>1, <3>2
  <2> QED BY <1>a, <2>1, <2>2, <2>3, <2>4 DEF IInv
<1>5. CASE UNCHANGED vars
  BY <1>5, <1>a DEF vars, IInv
<1> QED BY <1>1, <1>2, <1>3, <1>4, <1>5 DEF Next

(* The invariant holds in every reachable state.                           *)
THEOREM Invariance == Spec => []IInv
<1> QED BY InitIInv, NextIInv, PTL DEF Spec

(* A bucket never holds more tokens than its capacity, and the time of its *)
(* last refill is one the clock has shown.                                 *)
THEOREM TypeCorrect == Spec => []TypeOK
<1>1. IInv => TypeOK
  BY DEF IInv, GoodTable, TypeOK
<1> QED BY <1>1, Invariance, PTL

(* The attempts granted to an address, and to a name at an address, are    *)
(* within its rate over every stretch of time.                             *)
THEOREM RateIsBounded == Spec => []RateBounded
<1>1. IInv => RateBounded
  BY DEF IInv, GoodTable, GoodBucket, RateBounded
<1> QED BY <1>1, Invariance, PTL

(* No table holds more than RATE_LIMIT_MAX_ENTRIES buckets.                *)
THEOREM TablesAreBounded == Spec => []TablesBounded
<1>1. IInv => TablesBounded
  BY DEF IInv, GoodTable, TablesBounded
<1> QED BY <1>1, Invariance, PTL

-----------------------------------------------------------------------------
(* More periods are longer.                                                *)
LEMMA PeriodsGrow ==
    ASSUME NEW m \in Int, NEW n \in Int, NEW period \in Nat
    PROVE  /\ m * period \in Int
           /\ m <= n => m * period <= n * period
<1>1. n * period = m * period + (n - m) * period
  OBVIOUS
<1>2. m <= n => n - m \in Nat
  OBVIOUS
<1>3. \A d \in Nat : d * period \in Nat
  OBVIOUS
<1>4. m * period \in Int /\ n * period \in Int
  OBVIOUS
<1> QED BY <1>1, <1>2, <1>3, <1>4

(* Grants that cost more than a bucketful less one token, and some time    *)
(* gone, are at least a bucketful; those up to the first of the last       *)
(* bucketful cost more than the time gone.                                 *)
LEMMA EnoughGranted ==
    ASSUME NEW c \in Nat \ {0}, NEW period \in Nat \ {0}, NEW n \in Nat, NEW i \in 1 .. n,
           NEW gone \in Nat,
           (n - i + 1) * period > c * period - period + gone
    PROVE  /\ n - c + 1 \in i .. n
           /\ ((n - c + 1) - i + 1) * period > gone
<1>1. PICK m \in Int : m = n - i + 1
  OBVIOUS
<1>2. (c - 1) * period = c * period - period
  OBVIOUS
<1>3. (m - c + 1) * period = m * period - c * period + period
  OBVIOUS
<1>4. m * period > c * period - period + gone
  BY <1>1
<1>5. /\ m * period \in Int /\ c * period \in Int
      /\ m <= c - 1 => m * period <= (c - 1) * period
  BY PeriodsGrow
<1>6. m >= c
  BY <1>2, <1>4, <1>5
<1>7. (m - c + 1) * period > gone
  BY <1>3, <1>4, <1>5
<1>8. (n - c + 1) - i + 1 = m - c + 1
  BY <1>1
<1> QED BY <1>1, <1>6, <1>7, <1>8

(* A key with a bucket that gives it no token was granted a bucketful of   *)
(* them in the time a bucket takes to fill.                                *)
LEMMA RefusedWasGranted ==
    ASSUME NEW limit, GoodLimit(limit), NEW dom, NEW buckets, NEW history, now \in Nat,
           GoodTable(buckets, history, limit, now, dom), NEW k \in dom
    PROVE  Spent(buckets, k, history[k], limit)
<1> DEFINE b == buckets[k]
           q == history[k]
<1>1. /\ GoodBucket(b, q, limit, now)
      /\ b \in BucketOf(limit) /\ q \in Seq(Nat) /\ Len(q) \in Nat
      /\ \A i \in 1 .. Len(q) : q[i] \in Nat
  BY DEF GoodTable, GoodBucket
<1>2. /\ limit.capacity \in Nat \ {0} /\ limit.period \in Nat \ {0} /\ limit.full \in Nat
      /\ limit.full = limit.capacity * limit.period /\ limit.period <= limit.full
  BY DEF GoodLimit
<1> SUFFICES ASSUME HasRoom(buckets, k), ~Grants(buckets, k, limit)
             PROVE  Cardinality(Recent(q, limit)) >= limit.capacity
  BY DEF Spent
<1> HIDE DEF b, q
<1>3. ~(Refilled(b, limit) >= limit.period)
  BY DEF Grants, b
<1>4. /\ b # NoBucket
      /\ b.tokens \in Nat /\ b.last_refill \in Nat
      /\ b.last_refill <= now
      /\ b.tokens + (now - b.last_refill) < limit.period
  <2>1. b # NoBucket
    BY <1>2, <1>3 DEF Refilled
  <2>2. b.tokens \in Nat /\ b.last_refill \in Nat
    BY <1>1, <1>2, <2>1 DEF BucketOf
  <2>3. b.last_refill <= now
    BY <1>1, <2>1 DEF GoodBucket, Accounts
  <2> QED BY <1>2, <1>3, <2>1, <2>2, <2>3 DEF Refilled
<1>5. b.tokens # limit.full
  BY <1>2, <1>4
<1>6. PICK i \in 1 .. Len(q) : Cost(q, i, limit) + b.tokens >= limit.full + (b.last_refill - q[i])
  BY <1>1, <1>4, <1>5 DEF GoodBucket, Accounts
<1>7. PICK n \in Nat : n = Len(q)
  BY <1>1
<1>8. /\ i \in 1 .. n /\ q[i] \in Nat /\ q[i] <= now
      /\ (n - i + 1) * limit.period > limit.capacity * limit.period - limit.period
                                         + (now - q[i])
  <2>1. i \in 1 .. n /\ q[i] \in Nat /\ q[i] <= now
    BY <1>1, <1>7 DEF GoodBucket, InOrder
  <2>2. PICK x \in Int : x = (n - i + 1) * limit.period
    BY <1>2, <2>1
  <2>3. x + b.tokens >= limit.full + (b.last_refill - q[i])
    BY <1>6, <1>7, <2>2 DEF Cost
  <2>4. x > limit.full - limit.period + (now - q[i])
    <3>1. limit.full \in Nat /\ limit.period \in Nat
      BY <1>2
    <3>2. x \in Int
      BY <2>2
    <3>3. b.tokens \in Nat /\ b.last_refill \in Nat /\ b.tokens + (now - b.last_refill) < limit.period
      BY <1>4
    <3>4. q[i] \in Nat
      BY <2>1
    <3>5. now \in Int /\ q[i] \in Int /\ b.tokens \in Int /\ b.last_refill \in Int
          /\ limit.full \in Int /\ limit.period \in Int
      BY <3>1, <3>3, <3>4
    <3>. QED  BY <2>3, <3>2, <3>3, <3>5, SumRefused, Zenon
  <2> QED BY <1>2, <2>1, <2>2, <2>4
<1>9. PICK j \in Int : j = n - limit.capacity + 1
  BY <1>2
<1>10. j \in i .. n /\ j \in 1 .. Len(q) /\ (j - i + 1) * limit.period > now - q[i]
  <2>1. now - q[i] \in Nat
    BY <1>8
  <2>2. j \in i .. n /\ (j - i + 1) * limit.period > now - q[i]
    BY <1>2, <1>8, <1>9, <2>1, EnoughGranted
  <2> QED BY <1>7, <1>8, <2>2
<1>11. now - q[j] < limit.full
  <2>1. (j - i + 1) * limit.period <= limit.full + (q[j] - q[i])
    BY <1>1, <1>7, <1>10 DEF GoodBucket, WithinRate
  <2>2. PICK x \in Int : x = (j - i + 1) * limit.period
    <3>1. PICK d \in Int : d = j - i + 1
      BY <1>8, <1>9
    <3>2. d * limit.period \in Int
      BY <1>2, <3>1
    <3>. QED  BY <3>1, <3>2
  <2>3. x > now - q[i] /\ x <= limit.full + (q[j] - q[i])
    BY <1>10, <2>1, <2>2
  <2>4. q[j] \in Nat
    BY <1>1, <1>10
  <2> QED BY <1>2, <1>8, <2>3, <2>4
<1>12. j .. Len(q) \subseteq Recent(q, limit)
  <2> SUFFICES ASSUME NEW l \in j .. Len(q)
               PROVE  l \in 1 .. Len(q) /\ now - q[l] < limit.full
    BY DEF Recent
  <2>1. l \in 1 .. Len(q)
    BY <1>1, <1>10
  <2>2. q[j] <= q[l] /\ q[l] \in Nat /\ q[j] \in Nat
    BY <1>1, <1>10, <2>1 DEF GoodBucket, InOrder
  <2> QED BY <1>2, <1>11, <2>1, <2>2
<1>13. IsFiniteSet(j .. Len(q)) /\ Cardinality(j .. Len(q)) = limit.capacity
  <2>1. Len(q) \in Int /\ ~(j > Len(q)) /\ Len(q) - j + 1 = limit.capacity
    <3>1. limit.capacity \in Nat \ {0} /\ j \in i .. n
      BY <1>2, <1>10
    <3> QED BY <1>7, <1>9, <3>1
  <2>2. /\ IsFiniteSet(j .. Len(q))
        /\ Cardinality(j .. Len(q)) = IF j > Len(q) THEN 0 ELSE Len(q) - j + 1
    BY <2>1, FS_Interval
  <2> QED BY <2>1, <2>2
<1>14. IsFiniteSet(Recent(q, limit))
  <2>1. IsFiniteSet(1 .. Len(q))
    BY <1>1, FS_Interval
  <2>2. Recent(q, limit) \subseteq 1 .. Len(q)
    BY DEF Recent
  <2> QED BY <2>1, <2>2, FS_Subset
<1>15. limit.capacity <= Cardinality(Recent(q, limit))
  BY <1>12, <1>13, <1>14, FS_Subset
<1>16. Cardinality(Recent(q, limit)) \in Nat
  BY <1>14, FS_CardinalityType
<1> QED BY <1>2, <1>15, <1>16

(* A refusal is either for want of room or after a bucketful of grants, by *)
(* the address alone or by the name at the address alone: a bucket that    *)
(* was dropped and made anew never refuses for it.                         *)
THEOREM RefusalsAreEarned == Spec => []RefusalsEarned
<1>1. IInv => RefusalsEarned
  <2> SUFFICES ASSUME IInv, NEW t \in Tasks
               PROVE  /\ call[t].pc = "ip" =>
                            Spent(PruneBuckets(ip_rate_limits, call[t].asked), call[t].ip,
                                  ip_granted[call[t].ip], IpLimit)
                      /\ call[t].pc = "user" =>
                            Spent(PruneBuckets(rate_limits, call[t].asked), Key(t),
                                  granted[Key(t)], UserLimit)
    BY DEF RefusalsEarned
  <2>1. /\ now \in Nat
        /\ GoodTable(ip_rate_limits, ip_granted, IpLimit, now, IPs)
        /\ GoodTable(rate_limits, granted, UserLimit, now, Keys)
    BY DEF IInv
  <2>2. ASSUME call[t].pc \in {"ip", "user"}
        PROVE  /\ call[t].ip \in IPs /\ Key(t) \in Keys
               /\ call[t].asked \in Nat /\ call[t].asked <= now
    <3>1. call[t] # IdleCall /\ call[t] \in CallStates
      BY <2>2 DEF IInv, IdleCall
    <3> QED BY <3>1, NamesAssumption DEF IInv, CallStates, Key, Keys
  <2>3. ASSUME call[t].pc = "ip"
        PROVE  Spent(PruneBuckets(ip_rate_limits, call[t].asked), call[t].ip,
                     ip_granted[call[t].ip], IpLimit)
    BY <2>1, <2>2, <2>3, GoodTablePruned, LimitsGood, RefusedWasGranted
  <2>4. ASSUME call[t].pc = "user"
        PROVE  Spent(PruneBuckets(rate_limits, call[t].asked), Key(t),
                     granted[Key(t)], UserLimit)
    BY <2>1, <2>2, <2>4, GoodTablePruned, LimitsGood, RefusedWasGranted
  <2> QED BY <2>3, <2>4
<1> QED BY <1>1, Invariance, PTL

=============================================================================
