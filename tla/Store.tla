------------------------------- MODULE Store -------------------------------
(***************************************************************************)
(* The in-memory TTL store of internal/store: a map of entries and a slice *)
(* of keys in insertion order, each call one critical section under m.mu.  *)
(* The operators map a store, and the time the call reads inside its       *)
(* critical section, to the store the call leaves behind.                  *)
(***************************************************************************)
EXTENDS SequencesExt

CONSTANT Absent    \* what a Get that finds nothing reports

EmptyStore == [entries |-> <<>>, order |-> <<>>]

Keys(s) == DOMAIN s.entries

\* The shape of a store, whatever its keys and values.
IsStore(s) == /\ s = [entries |-> s.entries, order |-> s.order]
              /\ s.entries = [k \in Keys(s) |-> s.entries[k]]

Without(f, S) == Restrict(f, DOMAIN f \ S)

\* Bug: one instant too long.
Expired_late(e, now) == e.expiresAt < now

\* now >= expiresAt
Expired(e, now) == e.expiresAt <= now

\* Bug: the key stays in the slice.
Removed_mapOnly(s, key) ==
    [entries |-> Without(s.entries, {key}), order |-> s.order]

\* delete from the map, and of the slice the first occurrence of the key.
Removed(s, key) ==
    [entries |-> Without(s.entries, {key}), order |-> RemoveFirst(s.order, key)]

\* Get: the value of a live entry; an expired one is purged on the way.
Found(s, key, now) == key \in Keys(s) /\ ~Expired(s.entries[key], now)
Got(s, key, now) == IF Found(s, key, now) THEN s.entries[key].value ELSE Absent
AfterGet(s, key, now) ==
    IF key \in Keys(s) /\ ~Found(s, key, now) THEN Removed(s, key) ELSE s

\* Bug: stops when the store is full, not when it has room.
Evicted_oneTooFew(s, cap) ==
    LET oldest(n) == {s.order[i] : i \in 1..n}
        drop == Min({n \in 0..Len(s.order) :
                       Cardinality(Keys(s) \ oldest(n)) <= cap \/ n = Len(s.order)})
    IN  [entries |-> Without(s.entries, oldest(drop)),
         order   |-> SubSeq(s.order, drop + 1, Len(s.order))]

\* Bug: drops the newest key.
Evicted_newest(s, cap) ==
    IF Cardinality(Keys(s)) < cap THEN s
    ELSE [entries |-> Without(s.entries, {Last(s.order)}), order |-> Front(s.order)]

\* evictIfFull: drop the oldest keys until there is room for one more entry.
Evicted(s, cap) ==
    LET oldest(n) == {s.order[i] : i \in 1..n}
        drop == Min({n \in 0..Len(s.order) :
                       Cardinality(Keys(s) \ oldest(n)) < cap \/ n = Len(s.order)})
    IN  IF Cardinality(Keys(s)) < cap THEN s
        ELSE [entries |-> Without(s.entries, oldest(drop)),
              order   |-> SubSeq(s.order, drop + 1, Len(s.order))]

\* Set: a new key makes room for itself and goes to the end of the order; a
\* known key keeps its place.
AfterSet(s, key, value, ttl, now, cap) ==
    LET e == [value |-> value, expiresAt |-> now + ttl]
        r == Evicted(s, cap)
    IN  IF ttl <= 0 THEN s
        ELSE IF key \in Keys(s) THEN [s EXCEPT !.entries[key] = e]
        ELSE [entries |-> [k \in {key} \cup Keys(r) |-> IF k = key THEN e ELSE r.entries[k]],
              order   |-> Append(r.order, key)]

AfterDelete(s, key) == Removed(s, key)

\* The keys of an order that are present, in their order: kept[n] is what the
\* loop has kept of the first n.  A recursive function, and not SelectSeq, so
\* that proofs can follow the loop.
Rebuilt(order, present) ==
    LET kept[n \in 0..Len(order)] ==
          IF n = 0 THEN <<>>
          ELSE IF order[n] \in present THEN Append(kept[n - 1], order[n]) ELSE kept[n - 1]
    IN  kept[Len(order)]

\* PurgeExpired: drop what has expired and rebuild the order of the rest.
AfterPurge(s, now) ==
    LET dead == {k \in Keys(s) : Expired(s.entries[k], now)}
    IN  IF dead = {} THEN s
        ELSE [entries |-> Without(s.entries, dead),
              order   |-> Rebuilt(s.order, Keys(s) \ dead)]
=============================================================================
