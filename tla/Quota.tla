-------------------------------- MODULE Quota --------------------------------
(***************************************************************************)
(* The daily quota of internal/quota: one counter per client, all of them  *)
(* forgotten by the first request of another day.                          *)
(***************************************************************************)
EXTENDS Integers

CONSTANTS
    Clients,
    DailyLimit

ASSUME QuotaAssumption == DailyLimit \in Nat \ {0}

NoCounts == [c \in Clients |-> 0]

\* New: no day has begun, which is a day like no other.
NewQuota == [day |-> -1, counts |-> NoCounts]

\* Bug: the counters live on.
Today_neverReset(quota, day) == [quota EXCEPT !.day = day]

\* The counters of the given day.
Today(quota, day) == IF quota.day = day THEN quota ELSE [day |-> day, counts |-> NoCounts]

HasUnit(quota, c, day) == Today(quota, day).counts[c] < DailyLimit

\* Bug: every call takes a unit.
AfterCall_refusedCounts(quota, c, day) ==
    [Today(quota, day) EXCEPT !.counts[c] = @ + 1]

\* Allow: start the day if it is another one, and take a unit if there is one.
AfterCall(quota, c, day) ==
    IF HasUnit(quota, c, day)
    THEN [Today(quota, day) EXCEPT !.counts[c] = @ + 1]
    ELSE Today(quota, day)
=============================================================================
