---------------------------- MODULE MemoryStore ----------------------------
(***************************************************************************)
(* One in-memory store under concurrent use: callers get, set and delete,  *)
(* the retention sweep purges, time passes.  Every call holds m.mu from    *)
(* its first read to its last write, the reading of the clock included, so *)
(* a call is one step.                                                     *)
(***************************************************************************)
EXTENDS Store

CONSTANTS
    MapKeys,      \* the keys callers use
    Values,       \* the values they store
    Ttls,         \* the times to live they ask for
    MaxEntries,   \* the cap of the store
    MaxTime       \* bound on the clock

ASSUME StoreAssumption ==
    /\ Absent \notin Values
    /\ Ttls \subseteq Int
    /\ MaxEntries \in Nat \ {0}
    /\ MaxTime \in Nat

VARIABLES
    now,          \* the clock of the store
    store,        \* its entries and their order
    answer        \* what the last Get returned

vars == <<now, store, answer>>

Init ==
    /\ now = 0
    /\ store = EmptyStore
    /\ answer = Absent

Get(k) ==
    /\ answer' = Got(store, k, now)
    /\ store' = AfterGet(store, k, now)
    /\ UNCHANGED now

Set(k, v, ttl) ==
    /\ store' = AfterSet(store, k, v, ttl, now, MaxEntries)
    /\ UNCHANGED <<now, answer>>

Delete(k) ==
    /\ store' = AfterDelete(store, k)
    /\ UNCHANGED <<now, answer>>

PurgeExpired ==
    /\ store' = AfterPurge(store, now)
    /\ UNCHANGED <<now, answer>>

Tick ==
    /\ now < MaxTime
    /\ now' = now + 1
    /\ UNCHANGED <<store, answer>>

Next ==
    \/ \E k \in MapKeys : Get(k) \/ Delete(k)
    \/ \E k \in MapKeys, v \in Values, ttl \in Ttls : Set(k, v, ttl)
    \/ PurgeExpired
    \/ Tick

Spec == Init /\ [][Next]_vars
-----------------------------------------------------------------------------
(***************************************************************************)
(* Properties.                                                             *)
(***************************************************************************)

TypeOK ==
    /\ now \in 0..MaxTime
    /\ Keys(store) \subseteq MapKeys
    /\ \A k \in Keys(store) :
         store.entries[k] \in [value : Values, expiresAt : Int]
    /\ store.order \in Seq(MapKeys) /\ Len(store.order) <= MaxEntries
    /\ answer \in Values \cup {Absent}

\* The slice and the map never come apart, whatever mixture of lazy expiry,
\* sweep, deletion and eviction ran: every stored key has exactly one place in
\* the order.  A key left behind in the slice would make evictIfFull throw out
\* its successor, a key missing from it could never be evicted and the cap
\* would not hold.
OrderMatchesMap ==
    /\ Range(store.order) = Keys(store)
    /\ IsInjective(store.order)
    /\ Cardinality(Keys(store)) <= MaxEntries

\* The inductive invariant: the properties above, and the shape of a store.
StoreInv == TypeOK /\ OrderMatchesMap /\ IsStore(store)

Live(s, t) == {k \in Keys(s) : ~Expired(s.entries[k], t)}

\* A live entry disappears for three reasons only: it was deleted, its time
\* came, or a new key took its room, and then it was the oldest of a full store.
LosesOnlyTheOldest ==
    [][\A k \in Live(store, now') \ Keys(store') :
          \/ Delete(k)
          \/ /\ Cardinality(Keys(store)) = MaxEntries
             /\ Head(store.order) = k
             /\ Last(store'.order) \notin Keys(store)]_vars

\* The store implements TtlMap: neither expired entries still in memory nor
\* the sweep can be noticed by a caller.
Map == INSTANCE TtlMap WITH
    clock <- now,
    live  <- Restrict(store.entries, Live(store, now))

ImplementsTtlMap == Map!MapSpec
=============================================================================
