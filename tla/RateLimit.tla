----------------------------- MODULE RateLimit -----------------------------
(***************************************************************************)
(* The token buckets of AuthEngine in src/auth/mod.rs.  An attempt first   *)
(* takes a token from the bucket of its address, then one from the bucket  *)
(* of its address and user name; either table refuses new keys when it is  *)
(* full, and every call first drops the buckets that were idle too long.   *)
(* The two tables have a mutex each, and a call reads the time it prunes   *)
(* by before it waits for the mutex.                                       *)
(*                                                                         *)
(* Tokens are counted in fractions of 1/period, so that one unit of time   *)
(* refills one fraction and a token costs period of them; the rounding of  *)
(* f64 is left out.  Time is Instant::now(), which never steps back.       *)
(***************************************************************************)
EXTENDS Integers, Sequences, FiniteSets

CONSTANTS
    IPs,            \* remote addresses
    Names,          \* user names as typed
    Tasks,          \* connection tasks
    Lower,          \* to_ascii_lowercase
    IpCapacity, IpPeriod,       \* IP_RATE_LIMIT_CAPACITY, 1 / REFILL_PER_SEC
    UserCapacity, UserPeriod,   \* the same of USER_RATE_LIMIT
    MaxEntries,     \* RATE_LIMIT_MAX_ENTRIES
    IdleTTL,        \* RATE_LIMIT_IDLE_TTL
    MaxTime         \* bound on the clock

(* A bucket that is pruned is one that would be full by now: in the code   *)
(* 30 * 60 s against 30 * 1 s and 10 * 30 s.                               *)
ASSUME LimitsAssumption ==
    /\ IpCapacity \in Nat \ {0} /\ IpPeriod \in Nat \ {0}
    /\ UserCapacity \in Nat \ {0} /\ UserPeriod \in Nat \ {0}
    /\ MaxEntries \in Nat /\ IdleTTL \in Nat /\ MaxTime \in Nat
    /\ IdleTTL >= IpCapacity * IpPeriod
    /\ IdleTTL >= UserCapacity * UserPeriod

ASSUME NamesAssumption == Lower \in [Names -> Names]

Limit(capacity, period) ==
    [capacity |-> capacity, period |-> period, full |-> capacity * period]

IpLimit == Limit(IpCapacity, IpPeriod)
UserLimit == Limit(UserCapacity, UserPeriod)

Keys == IPs \X Names    \* RateLimitKey

NoBucket == [tokens |-> 0, last_refill |-> -1]      \* no entry in the map

-----------------------------------------------------------------------------
VARIABLES
    now,                \* Instant::now()
    ip_rate_limits,
    rate_limits,
    call,               \* where each task's call is
    ip_granted,         \* history: when the bucket of an address gave a token
    granted             \* history: the same of a key

vars == <<now, ip_rate_limits, rate_limits, call, ip_granted, granted>>

IdleCall == [pc |-> "idle"]

CallStates ==
    {IdleCall} \cup [pc : {"ip", "user"}, ip : IPs, name : Names, asked : Nat]

BucketOf(limit) ==
    [tokens : 0 .. limit.full, last_refill : Nat] \cup {NoBucket}

TypeOK ==
    /\ now \in Nat
    /\ ip_rate_limits \in [IPs -> BucketOf(IpLimit)]
    /\ rate_limits \in [Keys -> BucketOf(UserLimit)]
    /\ call \in [Tasks -> CallStates]
    /\ ip_granted \in [IPs -> Seq(Nat)]
    /\ granted \in [Keys -> Seq(Nat)]

Init ==
    /\ now = 0
    /\ ip_rate_limits = [ip \in IPs |-> NoBucket]
    /\ rate_limits = [k \in Keys |-> NoBucket]
    /\ call = [t \in Tasks |-> IdleCall]
    /\ ip_granted = [ip \in IPs |-> << >>]
    /\ granted = [k \in Keys |-> << >>]

(* Fault: a bucket is dropped as soon as it is idle at all.                *)
PruneAtOnce(buckets, t) ==
    [k \in DOMAIN buckets |->
        IF buckets[k].last_refill < t THEN NoBucket ELSE buckets[k]]

(* prune_buckets; duration_since is 0 when last_refill is the later.       *)
PruneBuckets(buckets, t) ==
    [k \in DOMAIN buckets |->
        IF t - buckets[k].last_refill > IdleTTL THEN NoBucket ELSE buckets[k]]

Present(buckets) == {k \in DOMAIN buckets : buckets[k] # NoBucket}

(* Fault: the size of the table is not looked at.                          *)
HasAnyRoom(buckets, k) == TRUE

HasRoom(buckets, k) == buckets[k] # NoBucket \/ Cardinality(Present(buckets)) < MaxEntries

(* Fault: a bucket is never refilled.                                      *)
NotRefilled(b, limit) == IF b = NoBucket THEN limit.full ELSE b.tokens

(* TokenBucket::new, or refill.                                            *)
Refilled(b, limit) ==
    IF b = NoBucket \/ b.tokens + (now - b.last_refill) > limit.full
    THEN limit.full
    ELSE b.tokens + (now - b.last_refill)

Grants(buckets, k, limit) ==
    HasRoom(buckets, k) /\ Refilled(buckets[k], limit) >= limit.period

(* The table once the call is through: a refusal for want of tokens still  *)
(* refills the bucket.                                                     *)
ConsumeOne(buckets, k, limit) ==
    LET tokens == Refilled(buckets[k], limit)
    IN  IF ~HasRoom(buckets, k)
        THEN buckets
        ELSE [buckets EXCEPT ![k] =
                [tokens |-> IF tokens >= limit.period THEN tokens - limit.period ELSE tokens,
                 last_refill |-> now]]

-----------------------------------------------------------------------------
(* consume_rate_limit_token.                                               *)

Begin(t) ==
    /\ call[t] = IdleCall
    /\ \E ip \in IPs, name \in Names :
          call' = [call EXCEPT ![t] = [pc |-> "ip", ip |-> ip, name |-> name, asked |-> now]]
    /\ UNCHANGED <<now, ip_rate_limits, rate_limits, ip_granted, granted>>

TakeIpToken(t) ==
    /\ call[t].pc = "ip"
    /\ LET ip == call[t].ip
           buckets == PruneBuckets(ip_rate_limits, call[t].asked)
       IN  /\ ip_rate_limits' = ConsumeOne(buckets, ip, IpLimit)
           /\ \/ /\ Grants(buckets, ip, IpLimit)
                 /\ ip_granted' = [ip_granted EXCEPT ![ip] = Append(@, now)]
                 /\ call' = [call EXCEPT ![t].pc = "user", ![t].asked = now]
              \/ /\ ~Grants(buckets, ip, IpLimit)
                 /\ call' = [call EXCEPT ![t] = IdleCall]
                 /\ UNCHANGED ip_granted
    /\ UNCHANGED <<now, rate_limits, granted>>

Key(t) == <<call[t].ip, Lower[call[t].name]>>

TakeUserToken(t) ==
    /\ call[t].pc = "user"
    /\ LET buckets == PruneBuckets(rate_limits, call[t].asked)
       IN  /\ rate_limits' = ConsumeOne(buckets, Key(t), UserLimit)
           /\ \/ /\ Grants(buckets, Key(t), UserLimit)
                 /\ granted' = [granted EXCEPT ![Key(t)] = Append(@, now)]
              \/ /\ ~Grants(buckets, Key(t), UserLimit)
                 /\ UNCHANGED granted
    /\ call' = [call EXCEPT ![t] = IdleCall]
    /\ UNCHANGED <<now, ip_rate_limits, ip_granted>>

Tick ==
    /\ now < MaxTime
    /\ now' = now + 1
    /\ UNCHANGED <<ip_rate_limits, rate_limits, call, ip_granted, granted>>

Next ==
    \/ \E t \in Tasks : Begin(t) \/ TakeIpToken(t) \/ TakeUserToken(t)
    \/ Tick

Spec == Init /\ [][Next]_vars

-----------------------------------------------------------------------------
(* Properties.                                                             *)

(* Every stretch of grants i .. j: capacity of them come at once, each     *)
(* further one takes a period.                                             *)
WithinRate(q, limit) ==
    \A i \in 1 .. Len(q) : \A j \in i .. Len(q) :
        (j - i + 1) * limit.period <= limit.full + (q[j] - q[i])

(***************************************************************************)
(* No address, and no user name at one address, however it is capitalised, *)
(* gets more attempts over any stretch of time than its bucket allows,     *)
(* though idle buckets are dropped and made anew and a call may prune by a *)
(* time that has passed while it waited.                                   *)
(***************************************************************************)
RateBounded ==
    /\ \A ip \in IPs : WithinRate(ip_granted[ip], IpLimit)
    /\ \A k \in Keys : WithinRate(granted[k], UserLimit)

(***************************************************************************)
(* The two tables never outgrow RATE_LIMIT_MAX_ENTRIES, whatever addresses *)
(* and names are tried at once.                                            *)
(***************************************************************************)
TablesBounded ==
    /\ Cardinality(Present(ip_rate_limits)) <= MaxEntries
    /\ Cardinality(Present(rate_limits)) <= MaxEntries

(***************************************************************************)
(* An attempt is refused only if the table had no room for its key, or if  *)
(* the key was granted a full bucket of tokens within the time it takes to *)
(* refill it: nobody else's attempts at other names or addresses count.    *)
(***************************************************************************)
Recent(q, limit) == {i \in 1 .. Len(q) : now - q[i] < limit.full}

Spent(buckets, k, q, limit) ==
    (HasRoom(buckets, k) /\ ~Grants(buckets, k, limit)) =>
        Cardinality(Recent(q, limit)) >= limit.capacity

RefusalsEarned ==
    \A t \in Tasks :
        /\ call[t].pc = "ip" =>
              Spent(PruneBuckets(ip_rate_limits, call[t].asked), call[t].ip,
                    ip_granted[call[t].ip], IpLimit)
        /\ call[t].pc = "user" =>
              Spent(PruneBuckets(rate_limits, call[t].asked), Key(t),
                    granted[Key(t)], UserLimit)

=============================================================================
