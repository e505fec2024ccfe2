---------------------------- MODULE ResultCache ----------------------------
(***************************************************************************)
(* How an answer comes about: the POST handler with its Idempotency-Key    *)
(* store, the caching decorator of internal/verification/cache.go around   *)
(* the verification itself, the retry loop of the asynchronous items on    *)
(* top of the same decorator, erasure, the retention sweep, and a restart, *)
(* over the in-memory or the Postgres backend.  The do-not-verify list is  *)
(* read from the environment at start and asked by the verification only,  *)
(* behind both stores.                                                     *)
(*                                                                         *)
(* Each store call is a step of its own: nothing holds a lock from the     *)
(* lookup that misses to the write that follows the verification.          *)
(***************************************************************************)
EXTENDS Store

CONSTANTS
    Posts,        \* calls of POST /v1/verifications (GET is one without a key)
    Items,        \* emails of asynchronous batches
    Addresses,    \* email addresses as the callers spell them
    Normal,       \* Normal[a]: a lower-cased and trimmed
    AddressOf,    \* AddressOf[c]: the address call c asks about
    KeyOf,        \* KeyOf[c]: the Idempotency-Key of a post
    NoKey,        \* no Idempotency-Key
    MaxEntries,   \* cap of each in-memory store
    CacheTtl,     \* SYNCORE_VERIFIER_CACHE_TTL
    UnknownTtl,   \* SYNCORE_VERIFIER_CACHE_TTL_UNKNOWN, 0 if not set
    Minute,       \* its default
    IdemTtl,      \* 24 hours
    RetryMax,     \* SYNCORE_VERIFIER_RETRY_MAX_ATTEMPTS
    Lists,        \* the do-not-verify lists a process may be started with
    MaxTime,      \* bound on the clock
    MaxRestarts   \* bound on the restarts

Calls == Posts \cup Items

\* No address spells a namespaced idempotency key, so the two kinds of rows of
\* the shared table stay apart.  A client may use one key for many addresses.
ASSUME CacheAssumption ==
    /\ Posts \cap Items = {}
    /\ Normal \in [Addresses -> Addresses]
    /\ AddressOf \in [Calls -> Addresses]
    /\ \A c \in Items : KeyOf[c] = NoKey
    /\ Lists \subseteq SUBSET {Normal[a] : a \in Addresses}
    /\ IsFiniteSet(Posts) /\ IsFiniteSet(Addresses)
    /\ {MaxEntries, CacheTtl, Minute, IdemTtl} \subseteq Nat \ {0}
    /\ {UnknownTtl, RetryMax, MaxTime, MaxRestarts} \subseteq Nat

VARIABLES
    backend,    \* SYNCORE_VERIFIER_STORE, fixed at start
    now,
    cache,      \* the result cache
    idem,       \* the idempotency store
    call,       \* call[c]: progress of the goroutine that serves c
    restarts,
    suppressed, \* the do-not-verify list of the running process, normalised
    startedAt,  \* history: when it started
    storedAt,   \* history: when the cache last took a result under a key, 0 if erased
    cleared,    \* history: cleared[c] counts the verifications c had made at the
                \* last erasure of its address that found none under way
    prior       \* history: prior[c] are the posts with the key of c whose
                \* answers were kept and alive when c looked for its key

stores  == <<cache, idem>>
process == <<backend, restarts, suppressed, startedAt>>
history == <<storedAt, cleared, prior>>
vars == <<process, now, cache, idem, call, history>>

(***************************************************************************)
(* An assessment, as far as caching tells it apart: whether it is          *)
(* retryable or comes of the do-not-verify list, and which verification of *)
(* which call made it, in which process (after how many restarts).         *)
(***************************************************************************)
Verdicts == {"terminal", "retryable", "suppressed"}

Assessments == [by: Calls, nth: 1..(RetryMax + 1), start: 0..MaxRestarts, verdict: Verdicts]

Fresh == [pc |-> "idle", attempts |-> 0, ran |-> 0, answer |-> Absent, keptUntil |-> 0]

CallStates == [pc: {"idle", "lookup", "verifying", "storing", "answered", "done", "lost"},
               attempts: 0..(RetryMax + 1),
               ran: 0..(RetryMax + 1),
               answer: Assessments \cup {Absent},
               keptUntil: 0..(MaxTime + IdemTtl)]

\* Bug: the key is not normalised.
CacheKey_asSpelled(c) == AddressOf[c]

CacheKey(c) == Normal[AddressOf[c]]

Normals == {Normal[a] : a \in Addresses}

TypeOK ==
    /\ backend \in {"memory", "postgres"}
    /\ suppressed \subseteq Normals
    /\ startedAt \in 0..now
    /\ now \in 0..MaxTime
    /\ call \in [Calls -> CallStates]
    /\ restarts \in 0..MaxRestarts
    /\ Keys(cache) \subseteq Normals
    /\ \A k \in Keys(cache) :
         /\ cache.entries[k] \in [value: Assessments, expiresAt: 1..(MaxTime + CacheTtl)]
         /\ CacheKey(cache.entries[k].value.by) = k
    /\ Keys(idem) \subseteq {KeyOf[c] : c \in Posts} \ {NoKey}
    /\ \A k \in Keys(idem) :
         idem.entries[k] \in [value: Assessments, expiresAt: 1..(MaxTime + IdemTtl)]

Init ==
    /\ backend \in {"memory", "postgres"}
    /\ now = 0
    /\ cache = EmptyStore
    /\ idem = EmptyStore
    /\ call = [c \in Calls |-> Fresh]
    /\ restarts = 0
    /\ suppressed \in Lists
    /\ startedAt = 0
    /\ storedAt = [a \in Addresses |-> 0]
    /\ cleared = [c \in Calls |-> 0]
    /\ prior = [c \in Calls |-> {}]

-----------------------------------------------------------------------------
\* Whether a call took effect in the database, where it may fail, also because
\* the client of the request is gone; the in-memory store ignores the context and
\* never fails.  An error reported after a commit is "ok": whoever calls Set only
\* logs the error, and an erasure that took effect is Erase whatever it answers.
StoreCalls == IF backend = "memory" THEN {"ok"} ELSE {"ok", "failed"}

\* The Postgres table has no cap, and a Get leaves an expired row in place.
Cap == IF backend = "memory" THEN MaxEntries ELSE Cardinality(Addresses) + Cardinality(Posts)
ReadOf(s, k) == IF backend = "memory" THEN AfterGet(s, k, now) ELSE s

\* NewCachingVerifier: the unknown TTL defaults to a minute and never exceeds
\* the TTL of terminal results.
ShortTtl == Min({CacheTtl, IF UnknownTtl <= 0 THEN Minute ELSE UnknownTtl})

\* Bug: one lifetime for all results.
TtlFor_long(a) == CacheTtl

TtlFor(a) == IF a.verdict = "retryable" THEN ShortTtl ELSE CacheTtl

\* Verifications of k whose result may still be written.
UnderWay(k) == {c \in Calls : CacheKey(c) = k /\ call[c].pc \in {"verifying", "storing"}}

-----------------------------------------------------------------------------
\* The handler looks for its key; a store error counts as a miss.
Kept(c) == {d \in Posts : KeyOf[d] = KeyOf[c] /\ call[d].pc = "done" /\ now < call[d].keptUntil}

FindKey(c, outcome) ==
    /\ call[c].pc = "idle"
    /\ KeyOf[c] # NoKey
    /\ idem' = ReadOf(idem, KeyOf[c])
    /\ IF outcome = "ok" /\ Found(idem, KeyOf[c], now)
       THEN call' = [call EXCEPT ![c] = [@ EXCEPT !.pc = "done",
                                                  !.answer = Got(idem, KeyOf[c], now)]]
       ELSE call' = [call EXCEPT ![c].pc = "lookup"]
    /\ prior' = [prior EXCEPT ![c] = IF outcome = "ok" THEN Kept(c) ELSE {}]
    /\ UNCHANGED <<process, now, cache, storedAt, cleared>>

StartPlain(c) ==
    /\ call[c].pc = "idle"
    /\ KeyOf[c] = NoKey
    /\ call' = [call EXCEPT ![c].pc = "lookup"]
    /\ UNCHANGED <<process, now, stores, history>>

\* CachingVerifier.Verify, up to the call of the wrapped verifier: a hit is the
\* answer, a miss or an error goes on to verify.
Lookup(c, outcome) ==
    /\ call[c].pc = "lookup"
    /\ cache' = ReadOf(cache, CacheKey(c))
    /\ IF outcome = "ok" /\ Found(cache, CacheKey(c), now)
       THEN call' = [call EXCEPT ![c] = [@ EXCEPT !.pc = "answered",
                                                  !.attempts = call[c].attempts + 1,
                                                  !.answer = Got(cache, CacheKey(c), now)]]
       ELSE call' = [call EXCEPT ![c].pc = "verifying"]
    /\ UNCHANGED <<process, now, idem, history>>

\* suppression.Set.Contains normalises as the list was normalised.
OnList(c) == Normal[AddressOf[c]] \in suppressed

\* The wrapped verifier returns; it asks the list before anything else.
Verify(c, verdict) ==
    /\ call[c].pc = "verifying"
    /\ verdict = "suppressed" <=> OnList(c)
    /\ call' = [call EXCEPT ![c] =
                  [@ EXCEPT !.pc = "storing",
                            !.attempts = call[c].attempts + 1,
                            !.ran = call[c].ran + 1,
                            !.answer = [by |-> c, nth |-> call[c].ran + 1,
                                        start |-> restarts, verdict |-> verdict]]]
    /\ UNCHANGED <<process, now, stores, history>>

\* The decorator writes what it got, whatever has been written, erased or
\* restarted since its lookup.
StoreResult(c, outcome) ==
    /\ call[c].pc = "storing"
    /\ IF outcome = "ok"
       THEN /\ cache' = AfterSet(cache, CacheKey(c), call[c].answer,
                                 TtlFor(call[c].answer), now, Cap)
            /\ storedAt' = [storedAt EXCEPT ![CacheKey(c)] = now]
       ELSE UNCHANGED <<cache, storedAt>>
    /\ call' = [call EXCEPT ![c].pc = "answered"]
    /\ UNCHANGED <<process, now, idem, cleared, prior>>

\* Bug: answers are kept as briefly as retryable results.
IdemLifetime_asRetryable == ShortTtl

\* The handler keeps its answer under the key before it responds; a store
\* error is logged.
IdemLifetime == IdemTtl

KeepAnswer(c, outcome) ==
    /\ call[c].pc = "answered"
    /\ KeyOf[c] # NoKey
    /\ IF outcome = "ok"
       THEN /\ idem' = AfterSet(idem, KeyOf[c], call[c].answer, IdemLifetime, now, Cap)
            /\ call' = [call EXCEPT ![c] = [@ EXCEPT !.pc = "done", !.keptUntil = now + IdemTtl]]
       ELSE /\ call' = [call EXCEPT ![c].pc = "done"]
            /\ UNCHANGED idem
    /\ UNCHANGED <<process, now, cache, history>>

\* verifyWithRetry goes round again through the same decorator.
MayRetry(c) ==
    c \in Items /\ call[c].answer.verdict = "retryable" /\ call[c].attempts <= RetryMax

TryAgain(c) ==
    /\ call[c].pc = "answered"
    /\ MayRetry(c)
    /\ call' = [call EXCEPT ![c].pc = "lookup"]
    /\ UNCHANGED <<process, now, stores, history>>

Respond(c) ==
    /\ call[c].pc = "answered"
    /\ KeyOf[c] = NoKey
    /\ ~MayRetry(c)
    /\ call' = [call EXCEPT ![c] = [@ EXCEPT !.pc = "done", !.answer = Absent]]
    /\ UNCHANGED <<process, now, stores, history>>

-----------------------------------------------------------------------------
\* Bug: the key is not normalised.
ErasureKey_asSpelled(a) == a

\* POST /admin/erasure deletes the row of the address from the result cache;
\* when Postgres fails it answers 500 and nothing is erased.
ErasureKey(a) == Normal[a]

Erase(a) ==
    /\ cache' = AfterDelete(cache, ErasureKey(a))
    /\ cleared' = IF UnderWay(Normal[a]) = {}
                  THEN [c \in Calls |-> IF CacheKey(c) = Normal[a] THEN call[c].ran ELSE cleared[c]]
                  ELSE cleared
    /\ storedAt' = [storedAt EXCEPT ![Normal[a]] = 0]
    /\ UNCHANGED <<process, now, idem, call, prior>>

\* The retention sweep visits the in-memory stores one after the other; no call
\* depends on both, so one step stands for the round.
Sweep ==
    /\ backend = "memory"
    /\ cache' = AfterPurge(cache, now)
    /\ idem' = AfterPurge(idem, now)
    /\ UNCHANGED <<process, now, call, history>>

Tick ==
    /\ now < MaxTime
    /\ now' = now + 1
    /\ UNCHANGED <<process, stores, call, history>>

\* The process ends and starts again, perhaps with another list: calls under
\* way are lost, and so is what the in-memory stores held.
Restart ==
    /\ restarts < MaxRestarts
    /\ restarts' = restarts + 1
    /\ suppressed' \in Lists
    /\ startedAt' = now
    /\ IF backend = "memory"
       THEN cache' = EmptyStore /\ idem' = EmptyStore
       ELSE UNCHANGED stores
    /\ call' = [c \in Calls |->
                  IF call[c].pc \in {"idle", "done"}
                  THEN [call[c] EXCEPT !.keptUntil = IF backend = "memory" THEN 0 ELSE @]
                  ELSE [Fresh EXCEPT !.pc = "lost", !.ran = call[c].ran]]
    /\ UNCHANGED <<backend, now, history>>

Next ==
    \/ \E c \in Calls, outcome \in StoreCalls :
         FindKey(c, outcome) \/ Lookup(c, outcome) \/ StoreResult(c, outcome)
           \/ KeepAnswer(c, outcome)
    \/ \E c \in Calls, verdict \in Verdicts : Verify(c, verdict)
    \/ \E c \in Calls : StartPlain(c) \/ TryAgain(c) \/ Respond(c)
    \/ \E a \in Addresses : Erase(a)
    \/ Sweep
    \/ Tick
    \/ Restart

Spec == Init /\ [][Next]_vars
-----------------------------------------------------------------------------
(***************************************************************************)
(* Properties.                                                             *)
(***************************************************************************)

\* A hit is never older than its kind allows: a result that a retry could
\* change is served for at most the shorter TTL since it was stored, however
\* writers of the same address overlapped.
HitsAreFresh ==
    [][\A c \in Calls :
         call[c].pc = "lookup" /\ call'[c].pc = "answered" =>
           LET age == now - storedAt[CacheKey(c)]
           IN  /\ age < CacheTtl
               /\ call'[c].answer.verdict = "retryable" => age < ShortTtl]_vars

\* What the do-not-verify list does to an answer, wherever the answer comes from.
\* A verification obeys the list of its process.  A hit of the cache is about the
\* address asked for; what a verification of this process found obeys the list, and
\* only Postgres may contradict it, through what an earlier process found and for
\* no longer than a cached result lasts, counted from the start of this one.  The
\* answer kept under an Idempotency-Key obeys the list about the address of some
\* post with that key: the handler does not ask whether it is this post's.  The
\* README promises more of a listed address, see ListedIsSuppressed.
Concerns(c, a) == CacheKey(a.by) = CacheKey(c)

Agrees(a) == a.verdict = "suppressed" <=> CacheKey(a.by) \in suppressed

Obeys(a) ==
    /\ a.start <= restarts
    /\ IF a.start = restarts THEN Agrees(a) ELSE backend = "postgres"

ListTakesEffect ==
    [][\A c \in Calls :
         LET moved(from, to) == call[c].pc = from /\ call'[c].pc = to
             a == call'[c].answer
         IN  /\ moved("verifying", "storing") =>
                   Concerns(c, a) /\ a.start = restarts /\ Agrees(a)
             /\ moved("lookup", "answered") =>
                   /\ Concerns(c, a) /\ Obeys(a)
                   /\ a.start < restarts => now < startedAt + CacheTtl
             /\ moved("idle", "done") =>
                   /\ Obeys(a)
                   /\ \E d \in Posts : KeyOf[d] = KeyOf[c] /\ Concerns(d, a)]_vars

\* README.md:266: an address on the do-not-verify list returns risky and
\* suppressed with no network check performed.
ListedIsSuppressed ==
    \A c \in Calls :
        call[c].pc = "answered" /\ OnList(c) => call[c].answer.verdict = "suppressed"

\* A retried request that arrives after an answer under its key was kept is
\* not verified again and repeats an answer already given under that key, also
\* after a restart on the durable backend.  This takes a cap with room for the
\* keys in use (KeysFit): the in-memory store may evict a kept answer.
ReplayRepeats ==
    \A c \in Posts :
        prior[c] # {} =>
            /\ call[c].pc = "done"
            /\ call[c].ran = 0
            /\ \E d \in prior[c] : call[c].answer = call[d].answer

\* An erasure that finds no verification of the address under way removes from
\* the result cache all that was found out about it before.
ErasureEffective ==
    \A k \in Keys(cache) :
        LET assessment == cache.entries[k].value
        IN  assessment.nth > cleared[assessment.by]

-----------------------------------------------------------------------------
(***************************************************************************)
(* The parts of the inductive invariant that are not properties of their   *)
(* own.                                                                    *)
(***************************************************************************)
Scalars ==
    /\ backend \in {"memory", "postgres"}
    /\ suppressed \subseteq Normals
    /\ restarts \in 0..MaxRestarts
    /\ now \in 0..MaxTime
    /\ startedAt \in 0..now
    /\ call \in [Calls -> CallStates]
    /\ storedAt \in [Addresses -> 0..now]
    /\ cleared \in [Calls -> Nat]
    /\ prior \in [Calls -> SUBSET Posts]

\* How far a call has come, and what its answer says.
CallPhase(c) ==
    /\ call[c].pc = "idle" => call[c].attempts = 0 /\ call[c].ran = 0
    /\ call[c].pc \in {"lookup", "verifying"} => call[c].attempts <= RetryMax
    /\ call[c].pc # "lost" => call[c].ran <= call[c].attempts
    /\ cleared[c] <= call[c].ran
    /\ call[c].pc \in {"storing", "answered"} =>
         /\ call[c].answer \in Assessments
         /\ Concerns(c, call[c].answer)
         /\ Obeys(call[c].answer)
    /\ call[c].pc = "storing" =>
         /\ call[c].answer.start = restarts
         /\ call[c].answer.by = c
         /\ call[c].answer.nth = call[c].ran
         /\ cleared[c] < call[c].ran

\* A row of the cache: its age, and what it says of the list.
CacheRow(k) ==
    LET row == cache.entries[k]
    IN  /\ k \in Normals
        /\ row \in [value: Assessments, expiresAt: 1..(MaxTime + CacheTtl)]
        /\ CacheKey(row.value.by) = k
        /\ row.value.nth > cleared[row.value.by]
        /\ row.expiresAt = storedAt[k] + TtlFor(row.value)
        /\ Obeys(row.value)
        /\ row.value.start < restarts => row.expiresAt <= startedAt + CacheTtl

\* A row of the idempotency store.
KeysInUse == {KeyOf[c] : c \in Posts} \ {NoKey}

IdemRow(k) ==
    LET row == idem.entries[k]
    IN  /\ k \in KeysInUse
        /\ row \in [value: Assessments, expiresAt: 1..(MaxTime + IdemTtl)]
        /\ Obeys(row.value)
        /\ \E d \in Posts : KeyOf[d] = k /\ Concerns(d, row.value)

CacheInv ==
    /\ Scalars
    /\ IsStore(cache) /\ IsStore(idem)
    /\ \A c \in Calls : CallPhase(c)
    /\ \A k \in Keys(cache) : CacheRow(k)
    /\ \A k \in Keys(idem) : IdemRow(k)

\* The in-memory store has room for the keys in use.
KeysFit == Cardinality(KeysInUse) <= MaxEntries

\* A kept answer has its row, and a live row is an answer that was kept.
Alive(d) == call[d].pc = "done" /\ now < call[d].keptUntil

HasRow(d) ==
    /\ call[d].pc # "done" => call[d].keptUntil = 0
    /\ call[d].keptUntil <= now + IdemTtl
    /\ Alive(d) => /\ KeyOf[d] \in Keys(idem)
                   /\ call[d].keptUntil <= idem.entries[KeyOf[d]].expiresAt

OfPost(k) ==
    now < idem.entries[k].expiresAt =>
        \E d \in Posts : /\ KeyOf[d] = k /\ call[d].pc = "done"
                         /\ call[d].keptUntil = idem.entries[k].expiresAt
                         /\ call[d].answer = idem.entries[k].value

Repeats(c) ==
    /\ \A d \in prior[c] : call[d].pc = "done"
    /\ prior[c] # {} => /\ call[c].pc = "done"
                        /\ call[c].ran = 0
                        /\ \E d \in prior[c] : call[c].answer = call[d].answer

ReplayInv ==
    /\ \A d \in Posts : HasRow(d)
    /\ \A k \in Keys(idem) : OfPost(k)
    /\ \A c \in Calls : Repeats(c)
=============================================================================
