------------------------------ MODULE RateLimit ------------------------------
(***************************************************************************)
(* The token bucket of internal/ratelimit as operators on the map of       *)
(* buckets.  Time and tokens are counted in ticks: a token takes Refill    *)
(* ticks to come back, so a bucket holds Burst * Refill ticks.  The code   *)
(* counts in floating point; its rounding is left out.                     *)
(***************************************************************************)
EXTENDS Integers

CONSTANTS
    Burst,      \* tokens of a full bucket, the limit per minute
    Refill      \* ticks until one token has come back

ASSUME RateAssumption == Burst \in Nat \ {0} /\ Refill \in Nat \ {0}

Full == Burst * Refill

\* x, but no more than cap.
AtMost(x, cap) == IF x > cap THEN cap ELSE x

\* New: no client has been seen.
NoBuckets == [k \in {} |-> [tokens |-> Full, lastFill |-> 0]]

\* What the bucket of k holds now; the first request finds a full one.
Level(buckets, k, now) ==
    IF k \in DOMAIN buckets
    THEN AtMost(buckets[k].tokens + now - buckets[k].lastFill, Full)
    ELSE Full

Admits(buckets, k, now) == Level(buckets, k, now) >= Refill

\* Bug: the first request of a client leaves its bucket full.
AfterAllow_firstIsFree(buckets, k, now) ==
    LET level == Level(buckets, k, now)
        cost == IF k \in DOMAIN buckets /\ Admits(buckets, k, now) THEN Refill ELSE 0
    IN  [c \in DOMAIN buckets \cup {k} |->
            IF c = k THEN [tokens |-> level - cost, lastFill |-> now] ELSE buckets[c]]

\* Allow: refill, and take a token if there is one.
AfterAllow(buckets, k, now) ==
    LET level == Level(buckets, k, now)
        bucket == [tokens |-> IF Admits(buckets, k, now) THEN level - Refill ELSE level,
                   lastFill |-> now]
    IN  [c \in DOMAIN buckets \cup {k} |-> IF c = k THEN bucket ELSE buckets[c]]
=============================================================================
