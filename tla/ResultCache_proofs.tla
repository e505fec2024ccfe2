------------------------- MODULE ResultCache_proofs -------------------------
(***************************************************************************)
(* Proofs about ResultCache, for every set of calls and addresses, every   *)
(* lifetime and every cap.  The stores are known through five lemmas about *)
(* the operators of Store; what the calls do to them follows from those.   *)
(*                                                                         *)
(* CacheInv relates each row of the cache to the time it was stored and to *)
(* the verification it came from.  The replay of a kept answer needs, on   *)
(* top, that no kept answer is evicted, which is the hypothesis KeysFit.   *)
(***************************************************************************)
EXTENDS ResultCache, FiniteSetTheorems, TLAPS

-----------------------------------------------------------------------------
(***************************************************************************)
(* The operators of Store.                                                 *)
(***************************************************************************)

\* The store t holds rows of the store s and no others.
Shrinks(s, t) ==
    /\ IsStore(t)
    /\ Keys(t) \subseteq Keys(s)
    /\ \A k \in Keys(t) : t.entries[k] = s.entries[k]

\* What has not expired is in both.
KeepsLive(s, t, clock) ==
    \A k \in Keys(s) : clock < s.entries[k].expiresAt => k \in Keys(t)

\* The rows of a store carry times.
Timed(s) == \A k \in Keys(s) : s.entries[k].expiresAt \in Int

\* The store t is s with one row written, others perhaps evicted.
Puts(s, t, key, row) ==
    /\ IsStore(t)
    /\ key \in Keys(t)
    /\ t.entries[key] = row
    /\ Keys(t) \subseteq Keys(s) \cup {key}
    /\ \A k \in Keys(t) \ {key} : t.entries[k] = s.entries[k]

\* Rows taken out of a store leave the others as they are.
LEMMA WithoutShrinks ==
  ASSUME NEW s, NEW S, NEW o
  PROVE  LET t == [entries |-> Without(s.entries, S), order |-> o]
         IN  Shrinks(s, t) /\ Keys(t) = Keys(s) \ S
  BY DEF Without, Restrict, Keys, Shrinks, IsStore

\* A delete takes out the row of its key.
LEMMA DeleteShrinks ==
  ASSUME NEW s, NEW key
  PROVE  Shrinks(s, AfterDelete(s, key)) /\ Keys(AfterDelete(s, key)) = Keys(s) \ {key}
  BY WithoutShrinks DEF AfterDelete, Removed

\* A get takes out at most the row of its key, and only when it has expired.
LEMMA GetShrinks ==
  ASSUME NEW s, IsStore(s), Timed(s), NEW key, NEW clock \in Int
  PROVE  Shrinks(s, AfterGet(s, key, clock)) /\ KeepsLive(s, AfterGet(s, key, clock), clock)
<1>1. CASE key \in Keys(s) /\ ~Found(s, key, clock)
  <2>1. AfterGet(s, key, clock) = AfterDelete(s, key) /\ s.entries[key].expiresAt <= clock
    BY <1>1 DEF AfterGet, AfterDelete, Found, Expired
  <2>2. \A k \in Keys(s) : clock < s.entries[k].expiresAt => k # key
    BY <2>1 DEF Timed
  <2> QED
    BY <2>1, <2>2, DeleteShrinks DEF KeepsLive
<1>2. CASE ~(key \in Keys(s) /\ ~Found(s, key, clock))
  BY <1>2 DEF AfterGet, Shrinks, KeepsLive
<1> QED
  BY <1>1, <1>2

\* A sweep takes out the expired rows.
LEMMA PurgeShrinks ==
  ASSUME NEW s, IsStore(s), Timed(s), NEW clock \in Int
  PROVE  Shrinks(s, AfterPurge(s, clock)) /\ KeepsLive(s, AfterPurge(s, clock), clock)
<1> DEFINE dead == {k \in Keys(s) : Expired(s.entries[k], clock)}
           rest == AfterPurge(s, clock)
<1>1. CASE dead = {}
  <2>1. rest = s
    BY <1>1 DEF AfterPurge
  <2> QED
    BY <2>1 DEF Shrinks, KeepsLive
<1>2. CASE dead # {}
  <2>1. PICK o : rest = [entries |-> Without(s.entries, dead), order |-> o]
    BY <1>2 DEF AfterPurge
  <2>2. Shrinks(s, rest) /\ Keys(rest) = Keys(s) \ dead
    BY <2>1, WithoutShrinks
  <2>3. \A k \in Keys(s) : clock < s.entries[k].expiresAt => k \notin dead
    BY DEF Expired, Timed
  <2> QED
    BY <2>2, <2>3 DEF KeepsLive
<1> QED
  BY <1>1, <1>2

\* A set writes its row.  It evicts nothing when its key is known or the store
\* has room.
LEMMA SetPuts ==
  ASSUME NEW s, IsStore(s), NEW key, NEW v, NEW ttl \in Nat \ {0}, NEW clock, NEW cap
  PROVE  LET t == AfterSet(s, key, v, ttl, clock, cap)
         IN  /\ Puts(s, t, key, [value |-> v, expiresAt |-> clock + ttl])
             /\ key \in Keys(s) \/ Cardinality(Keys(s)) < cap => Keys(s) \subseteq Keys(t)
<1> DEFINE t == AfterSet(s, key, v, ttl, clock, cap)
           row == [value |-> v, expiresAt |-> clock + ttl]
           r == Evicted(s, cap)
<1> SUFFICES /\ Puts(s, t, key, row)
             /\ key \in Keys(s) \/ Cardinality(Keys(s)) < cap => Keys(s) \subseteq Keys(t)
  OBVIOUS
<1>1. Shrinks(s, r)
  <2>1. CASE Cardinality(Keys(s)) < cap
    BY <2>1 DEF Evicted, Shrinks
  <2>2. CASE ~(Cardinality(Keys(s)) < cap)
    <3>1. PICK S, o : r = [entries |-> Without(s.entries, S), order |-> o]
      BY <2>2 DEF Evicted
    <3> QED
      BY <3>1, WithoutShrinks
  <2> QED
    BY <2>1, <2>2
<1>2. CASE key \in Keys(s)
  <2>1. t = [s EXCEPT !.entries[key] = row]
    BY <1>2 DEF AfterSet
  <2>2. t = [entries |-> [s.entries EXCEPT ![key] = row], order |-> s.order]
    BY <2>1 DEF IsStore
  <2>3. t.entries = [k \in Keys(s) |-> IF k = key THEN row ELSE s.entries[k]]
    BY <2>2 DEF IsStore
  <2> HIDE DEF t, row
  <2> QED
    BY <1>2, <2>2, <2>3 DEF Puts, Keys, IsStore
<1>3. CASE key \notin Keys(s)
  <2>1. t = [entries |-> [k \in {key} \cup Keys(r) |-> IF k = key THEN row ELSE r.entries[k]],
             order   |-> Append(r.order, key)]
    BY <1>3 DEF AfterSet
  <2>2. t.entries = [k \in {key} \cup Keys(r) |-> IF k = key THEN row ELSE r.entries[k]]
    BY <2>1
  <2>3. Cardinality(Keys(s)) < cap => Keys(r) = Keys(s)
    BY DEF Evicted
  <2> HIDE DEF t, row, r
  <2>4. IsStore(t) /\ Keys(t) = {key} \cup Keys(r)
    BY <2>1, <2>2 DEF IsStore, Keys
  <2> QED
    BY <1>1, <1>3, <2>2, <2>3, <2>4 DEF Puts, Shrinks
<1> QED
  BY <1>2, <1>3
-----------------------------------------------------------------------------
(***************************************************************************)
(* Constants and types.                                                    *)
(***************************************************************************)

\* NewCachingVerifier never lets the shorter lifetime exceed the longer one,
\* and both are positive: no Set of the decorator is dropped.
LEMMA Lifetimes ==
  /\ CacheTtl \in Nat \ {0} /\ IdemTtl \in Nat \ {0} /\ MaxTime \in Nat /\ RetryMax \in Nat
  /\ ShortTtl \in Nat \ {0} /\ ShortTtl <= CacheTtl
  /\ \A a : /\ TtlFor(a) \in Nat \ {0} /\ TtlFor(a) <= CacheTtl
            /\ a.verdict = "retryable" => TtlFor(a) = ShortTtl
<1>1. /\ CacheTtl \in Nat \ {0} /\ IdemTtl \in Nat \ {0} /\ MaxTime \in Nat /\ RetryMax \in Nat
      /\ Minute \in Nat \ {0} /\ UnknownTtl \in Nat
  BY CacheAssumption
<1> DEFINE other == IF UnknownTtl <= 0 THEN Minute ELSE UnknownTtl
<1>2. other \in Nat \ {0} /\ ShortTtl = Min({CacheTtl, other})
  BY <1>1 DEF ShortTtl
<1> HIDE DEF other
<1>3. ShortTtl \in {CacheTtl, other} /\ ShortTtl <= CacheTtl
  <2>1. \E x \in {CacheTtl, other} : \A y \in {CacheTtl, other} : x =< y
    BY <1>1, <1>2
  <2> QED
    BY <1>2, <2>1 DEF Min
<1>4. ShortTtl \in Nat \ {0}
  BY <1>1, <1>2, <1>3
<1> QED
  BY <1>1, <1>3, <1>4 DEF TtlFor

\* Every call has a key of the cache, and the keys are addresses.
LEMMA KeyTypes ==
  /\ \A c \in Calls : CacheKey(c) \in Normals
  /\ Normals \subseteq Addresses
  /\ \A a \in Addresses : Normal[a] \in Normals
  BY CacheAssumption DEF CacheKey, Normals

\* Only posts have an Idempotency-Key.
LEMMA PostKeys ==
  \A c \in Calls : KeyOf[c] # NoKey => c \in Posts /\ KeyOf[c] \in KeysInUse
  BY CacheAssumption DEF Calls, KeysInUse

Places == {"idle", "lookup", "verifying", "storing", "answered", "done", "lost"}
Counts == 0..(RetryMax + 1)
Answers == Assessments \cup {Absent}
Spans == 0..(MaxTime + IdemTtl)

\* CallStates by the named sets.
LEMMA CallShape ==
  CallStates = [pc: Places, attempts: Counts, ran: Counts, answer: Answers, keptUntil: Spans]
  BY DEF CallStates, Places, Counts, Answers, Spans

\* The types of what a step reads.
LEMMA StateOf ==
  ASSUME Scalars, NEW c \in Calls
  PROVE  /\ call[c] \in CallStates
         /\ call[c].pc \in Places /\ call[c].attempts \in Counts /\ call[c].ran \in Counts
         /\ call[c].answer \in Answers /\ call[c].keptUntil \in Spans
         /\ now \in 0..MaxTime /\ startedAt \in 0..now /\ cleared[c] \in Nat
         /\ prior[c] \in SUBSET Posts
<1>1. call[c] \in CallStates
  BY DEF Scalars
<1>2. call[c] \in [pc: Places, attempts: Counts, ran: Counts, answer: Answers, keptUntil: Spans]
  BY <1>1, CallShape
<1> QED
  BY <1>1, <1>2 DEF Scalars

\* A step of c: what it makes of the call, and that it touches no other.
Moves(c, p, n, r, a, t) ==
    /\ call' \in [Calls -> CallStates]
    /\ call'[c].pc = p /\ call'[c].attempts = n /\ call'[c].ran = r
    /\ call'[c].answer = a /\ call'[c].keptUntil = t
    /\ \A d \in Calls \ {c} : call'[d] = call[d]

\* A call gets another state, and one of the type.
LEMMA CallMoves ==
  ASSUME Scalars, NEW c \in Calls, NEW new \in CallStates, call' = [call EXCEPT ![c] = new]
  PROVE  Moves(c, new.pc, new.attempts, new.ran, new.answer, new.keptUntil)
<1>1. /\ call' \in [Calls -> CallStates] /\ call'[c] = new
      /\ \A d \in Calls \ {c} : call'[d] = call[d]
  BY DEF Scalars
<1> QED
  BY <1>1 DEF Moves

\* The reads take nothing out of a store but what has expired.
LEMMA ReadShrinks ==
  ASSUME NEW s, IsStore(s), Timed(s), NEW k, now \in Int
  PROVE  Shrinks(s, ReadOf(s, k)) /\ KeepsLive(s, ReadOf(s, k), now)
<1>1. Shrinks(s, s) /\ KeepsLive(s, s, now)
  BY DEF Shrinks, KeepsLive
<1> QED
  BY <1>1, GetShrinks DEF ReadOf

\* The rows of both stores carry times.
LEMMA TimedRows ==
  ASSUME CacheInv
  PROVE  Timed(cache) /\ Timed(idem)
<1>1. \A k \in Keys(cache) : cache.entries[k].expiresAt \in 1..(MaxTime + CacheTtl)
  BY DEF CacheInv, CacheRow
<1>2. \A k \in Keys(idem) : idem.entries[k].expiresAt \in 1..(MaxTime + IdemTtl)
  BY DEF CacheInv, IdemRow
<1> QED
  BY <1>1, <1>2 DEF Timed

-----------------------------------------------------------------------------
(***************************************************************************)
(* What each step makes of the call.                                       *)
(***************************************************************************)

\* A step that moves a call on and changes nothing else of it.
LEMMA PlaceMoves ==
  ASSUME Scalars, NEW c \in Calls, NEW p \in Places, call' = [call EXCEPT ![c].pc = p]
  PROVE  Moves(c, p, call[c].attempts, call[c].ran, call[c].answer, call[c].keptUntil)
<1> DEFINE old == call[c]
           new == [old EXCEPT !.pc = p]
<1>1. /\ new \in CallStates /\ new.pc = p /\ new.attempts = old.attempts
      /\ new.ran = old.ran /\ new.answer = old.answer /\ new.keptUntil = old.keptUntil
  BY StateOf, CallShape
<1>2. call' = [call EXCEPT ![c] = new]
  OBVIOUS
<1> HIDE DEF new
<1> QED
  BY <1>1, <1>2, CallMoves

\* Get of the handler: the kept answer, or on to the decorator.
LEMMA FindKeyMoves ==
  ASSUME CacheInv, NEW c \in Calls, NEW outcome \in StoreCalls, FindKey(c, outcome)
  PROVE  LET found == outcome = "ok" /\ Found(idem, KeyOf[c], now)
         IN  Moves(c, IF found THEN "done" ELSE "lookup", call[c].attempts, call[c].ran,
                   IF found THEN idem.entries[KeyOf[c]].value ELSE call[c].answer,
                   call[c].keptUntil)
<1> DEFINE found == outcome = "ok" /\ Found(idem, KeyOf[c], now)
           old == call[c]
           a == Got(idem, KeyOf[c], now)
           new == [old EXCEPT !.pc = "done", !.answer = a]
<1>0. Scalars
  BY DEF CacheInv
<1>1. CASE found
  <2>1. a = idem.entries[KeyOf[c]].value /\ a \in Answers
    BY <1>1 DEF CacheInv, IdemRow, Found, Got, Answers
  <2>2. /\ new \in CallStates /\ new.pc = "done" /\ new.attempts = old.attempts
        /\ new.ran = old.ran /\ new.answer = a /\ new.keptUntil = old.keptUntil
    <3> HIDE DEF a
    <3>1. "done" \in Places
      BY DEF Places
    <3> QED
      BY <1>0, <2>1, <3>1, StateOf, CallShape
  <2>3. call' = [call EXCEPT ![c] = new]
    BY <1>1 DEF FindKey
  <2> HIDE DEF new, a
  <2>4. Moves(c, "done", old.attempts, old.ran, a, old.keptUntil)
    BY <1>0, <2>2, <2>3, CallMoves
  <2> QED
    BY <1>1, <2>1, <2>4
<1>2. CASE ~found
  <2>1. call' = [call EXCEPT ![c].pc = "lookup"] /\ "lookup" \in Places
    BY <1>2 DEF FindKey, Places
  <2> QED
    BY <1>0, <1>2, <2>1, PlaceMoves
<1> QED
  BY <1>1, <1>2

\* Get of the decorator: a hit counts as an attempt, a miss goes on to verify.
LEMMA LookupMoves ==
  ASSUME CacheInv, NEW c \in Calls, NEW outcome \in StoreCalls, Lookup(c, outcome)
  PROVE  LET found == outcome = "ok" /\ Found(cache, CacheKey(c), now)
         IN  Moves(c, IF found THEN "answered" ELSE "verifying",
                   IF found THEN call[c].attempts + 1 ELSE call[c].attempts, call[c].ran,
                   IF found THEN cache.entries[CacheKey(c)].value ELSE call[c].answer,
                   call[c].keptUntil)
<1> DEFINE found == outcome = "ok" /\ Found(cache, CacheKey(c), now)
           old == call[c]
           a == Got(cache, CacheKey(c), now)
           n == old.attempts + 1
           new == [old EXCEPT !.pc = "answered", !.attempts = n, !.answer = a]
<1>0. Scalars
  BY DEF CacheInv
<1>1. CASE found
  <2>1. a = cache.entries[CacheKey(c)].value /\ a \in Answers
    BY <1>1 DEF CacheInv, CacheRow, Found, Got, Answers
  <2>2. n \in Counts
    <3>1. old.attempts \in Counts /\ old.attempts <= RetryMax
      BY <1>0, StateOf DEF Lookup, CacheInv, CallPhase
    <3> QED
      BY <3>1, Lifetimes DEF Counts
  <2>3. /\ new \in CallStates /\ new.pc = "answered" /\ new.attempts = n
        /\ new.ran = old.ran /\ new.answer = a /\ new.keptUntil = old.keptUntil
    <3> HIDE DEF a
    <3>1. "answered" \in Places
      BY DEF Places
    <3> QED
      BY <1>0, <2>1, <2>2, <3>1, StateOf, CallShape
  <2>4. call' = [call EXCEPT ![c] = new]
    BY <1>1 DEF Lookup
  <2> HIDE DEF new, n, a
  <2>5. Moves(c, "answered", n, old.ran, a, old.keptUntil)
    BY <1>0, <2>3, <2>4, CallMoves
  <2> QED
    BY <1>1, <2>1, <2>5 DEF n
<1>2. CASE ~found
  <2>1. call' = [call EXCEPT ![c].pc = "verifying"] /\ "verifying" \in Places
    BY <1>2 DEF Lookup, Places
  <2> QED
    BY <1>0, <1>2, <2>1, PlaceMoves
<1> QED
  BY <1>1, <1>2

\* The wrapped verifier returns.
LEMMA VerifyMoves ==
  ASSUME CacheInv, NEW c \in Calls, NEW verdict \in Verdicts,
         Verify(c, verdict)
  PROVE  LET a == [by |-> c, nth |-> call[c].ran + 1, start |-> restarts, verdict |-> verdict]
         IN  /\ Moves(c, "storing", call[c].attempts + 1, call[c].ran + 1, a, call[c].keptUntil)
             /\ a \in Assessments
             /\ call[c].attempts <= RetryMax
             /\ call[c].ran <= call[c].attempts
<1> DEFINE old == call[c]
           n == old.attempts + 1
           r == old.ran + 1
           a == [by |-> c, nth |-> old.ran + 1, start |-> restarts, verdict |-> verdict]
           new == [old EXCEPT !.pc = "storing", !.attempts = n, !.ran = r, !.answer = a]
<1>0. Scalars
  BY DEF CacheInv
<1>1. old.attempts <= RetryMax /\ old.ran <= old.attempts
  BY DEF Verify, CacheInv, CallPhase
<1>2. n \in Counts /\ r \in Counts /\ r \in 1..(RetryMax + 1)
  <2>1. old.attempts \in Counts /\ old.ran \in Counts
    BY <1>0, StateOf
  <2> QED
    BY <1>1, <2>1, Lifetimes DEF Counts
<1>3. a \in Assessments
  BY <1>0, <1>2 DEF Assessments, Scalars
<1>4. /\ new \in CallStates /\ new.pc = "storing" /\ new.attempts = n
      /\ new.ran = r /\ new.answer = a /\ new.keptUntil = old.keptUntil
  <2> HIDE DEF a
  <2>1. "storing" \in Places /\ a \in Answers
    BY <1>3 DEF Places, Answers
  <2> QED
    BY <1>0, <1>2, <2>1, StateOf, CallShape
<1>5. call' = [call EXCEPT ![c] = new]
  BY DEF Verify
<1> HIDE DEF new, n, r, a
<1>6. Moves(c, "storing", n, r, a, old.keptUntil)
  BY <1>0, <1>4, <1>5, CallMoves
<1> QED
  BY <1>1, <1>3, <1>6 DEF n, r, a

\* Set of the handler.
LEMMA KeepMoves ==
  ASSUME CacheInv, NEW c \in Calls, NEW outcome \in StoreCalls, KeepAnswer(c, outcome)
  PROVE  Moves(c, "done", call[c].attempts, call[c].ran, call[c].answer,
               IF outcome = "ok" THEN now + IdemTtl ELSE call[c].keptUntil)
<1> DEFINE old == call[c]
           t == now + IdemTtl
           new == [old EXCEPT !.pc = "done", !.keptUntil = now + IdemTtl]
<1>0. Scalars /\ "done" \in Places
  BY DEF CacheInv, Places
<1>1. CASE outcome = "ok"
  <2>1. t \in Spans
    BY <1>0, StateOf, Lifetimes DEF Spans
  <2>2. /\ new \in CallStates /\ new.pc = "done" /\ new.attempts = old.attempts
        /\ new.ran = old.ran /\ new.answer = old.answer /\ new.keptUntil = t
    BY <1>0, <2>1, StateOf, CallShape
  <2>3. call' = [call EXCEPT ![c] = new]
    BY <1>1 DEF KeepAnswer
  <2> HIDE DEF new, t
  <2>4. Moves(c, "done", old.attempts, old.ran, old.answer, t)
    BY <1>0, <2>2, <2>3, CallMoves
  <2> QED
    BY <1>1, <2>4 DEF t
<1>2. CASE outcome # "ok"
  <2>1. call' = [call EXCEPT ![c].pc = "done"]
    BY <1>2 DEF KeepAnswer
  <2> QED
    BY <1>0, <1>2, <2>1, PlaceMoves
<1> QED
  BY <1>1, <1>2

\* The response drops the answer.
LEMMA RespondMoves ==
  ASSUME CacheInv, NEW c \in Calls, Respond(c)
  PROVE  Moves(c, "done", call[c].attempts, call[c].ran, Absent, call[c].keptUntil)
<1> DEFINE old == call[c]
           new == [old EXCEPT !.pc = "done", !.answer = Absent]
<1>0. Scalars
  BY DEF CacheInv
<1>1. /\ new \in CallStates /\ new.pc = "done" /\ new.attempts = old.attempts
      /\ new.ran = old.ran /\ new.answer = Absent /\ new.keptUntil = old.keptUntil
  <2>1. "done" \in Places /\ Absent \in Answers
    BY DEF Places, Answers
  <2> QED
    BY <1>0, <2>1, StateOf, CallShape
<1>2. call' = [call EXCEPT ![c] = new]
  BY DEF Respond
<1> HIDE DEF new
<1> QED
  BY <1>0, <1>1, <1>2, CallMoves

\* A restart: what was under way is lost, what was done stays done.
LEMMA RestartMoves ==
  ASSUME CacheInv, Restart
  PROVE  /\ call' \in [Calls -> CallStates]
         /\ \A c \in Calls :
              /\ call'[c].ran = call[c].ran
              /\ call[c].pc \in {"idle", "done"} =>
                   /\ call'[c].pc = call[c].pc
                   /\ call'[c].attempts = call[c].attempts
                   /\ call'[c].answer = call[c].answer
                   /\ call'[c].keptUntil = IF backend = "memory" THEN 0 ELSE call[c].keptUntil
              /\ call[c].pc \notin {"idle", "done"} =>
                   call'[c].pc = "lost" /\ call'[c].keptUntil = 0
<1> DEFINE kept(c) == [call[c] EXCEPT !.keptUntil = IF backend = "memory" THEN 0 ELSE @]
           lost(c) == [Fresh EXCEPT !.pc = "lost", !.ran = call[c].ran]
           t(c) == IF backend = "memory" THEN 0 ELSE call[c].keptUntil
<1>0. Scalars
  BY DEF CacheInv
<1>1. ASSUME NEW c \in Calls
      PROVE  /\ kept(c) \in CallStates /\ kept(c).pc = call[c].pc
             /\ kept(c).attempts = call[c].attempts /\ kept(c).ran = call[c].ran
             /\ kept(c).answer = call[c].answer /\ kept(c).keptUntil = t(c)
  <2>1. t(c) \in Spans
    BY <1>0, StateOf, Lifetimes DEF Spans
  <2>2. kept(c) = [call[c] EXCEPT !.keptUntil = t(c)]
    OBVIOUS
  <2> HIDE DEF kept, t
  <2> QED
    BY <1>0, <2>1, <2>2, StateOf, CallShape
<1>2. ASSUME NEW c \in Calls
      PROVE  /\ lost(c) \in CallStates /\ lost(c).pc = "lost"
             /\ lost(c).ran = call[c].ran /\ lost(c).keptUntil = 0
  <2>1. /\ "lost" \in Places /\ "idle" \in Places
        /\ 0 \in Counts /\ Absent \in Answers /\ 0 \in Spans
    BY Lifetimes DEF Places, Counts, Answers, Spans
  <2>2. Fresh \in CallStates /\ Fresh.keptUntil = 0
    BY <2>1, CallShape DEF Fresh
  <2> QED
    BY <1>0, <2>1, <2>2, StateOf, CallShape
<1>3. call' = [c \in Calls |-> IF call[c].pc \in {"idle", "done"} THEN kept(c) ELSE lost(c)]
  BY DEF Restart
<1> HIDE DEF kept, lost
<1> QED
  BY <1>1, <1>2, <1>3
-----------------------------------------------------------------------------
(***************************************************************************)
(* What a step leaves alone.                                               *)
(***************************************************************************)

\* What is known of a call no step touched stays known.
LEMMA PhaseStays ==
  ASSUME NEW c \in Calls, CallPhase(c), call'[c] = call[c], cleared'[c] = cleared[c],
         UNCHANGED process
  PROVE  CallPhase(c)'
  BY DEF CallPhase, process, Concerns, Obeys, Agrees, CacheKey

\* A step of one call keeps what is known of the others.
LEMMA MovesKeep ==
  ASSUME CacheInv, NEW c \in Calls, NEW p, NEW n, NEW r, NEW a, NEW t, Moves(c, p, n, r, a, t),
         UNCHANGED <<process, cleared>>, CallPhase(c)'
  PROVE  \A d \in Calls : CallPhase(d)'
<1>1. ASSUME NEW d \in Calls, d # c
      PROVE  CallPhase(d)'
  <2>1. CallPhase(d) /\ call'[d] = call[d] /\ cleared'[d] = cleared[d]
    BY <1>1 DEF CacheInv, Moves
  <2> QED
    BY <2>1, PhaseStays
<1> QED
  BY <1>1

\* A cache that lost rows and took in none.
LEMMA CacheStays ==
  ASSUME CacheInv, Shrinks(cache, cache'), UNCHANGED process,
         \A k \in Keys(cache') :
           /\ storedAt'[k] = storedAt[k]
           /\ cleared'[cache.entries[k].value.by] = cleared[cache.entries[k].value.by]
  PROVE  IsStore(cache)' /\ \A k \in Keys(cache)' : CacheRow(k)'
<1>1. ASSUME NEW k \in Keys(cache')
      PROVE  CacheRow(k)'
  <2>1. k \in Keys(cache) /\ cache'.entries[k] = cache.entries[k] /\ CacheRow(k)
    BY DEF Shrinks, CacheInv
  <2>2. /\ storedAt'[k] = storedAt[k]
        /\ cleared'[cache.entries[k].value.by] = cleared[cache.entries[k].value.by]
    OBVIOUS
  <2> QED
    BY <2>1, <2>2 DEF CacheRow, process, Obeys, Agrees, CacheKey
<1>2. IsStore(cache')
  BY DEF Shrinks
<1> QED
  BY <1>1, <1>2 DEF Keys, IsStore

\* An idempotency store that lost rows and took in none.
LEMMA IdemStays ==
  ASSUME CacheInv, Shrinks(idem, idem'), UNCHANGED process
  PROVE  IsStore(idem)' /\ \A k \in Keys(idem)' : IdemRow(k)'
<1>1. ASSUME NEW k \in Keys(idem')
      PROVE  IdemRow(k)'
  <2>1. k \in Keys(idem) /\ idem'.entries[k] = idem.entries[k] /\ IdemRow(k)
    BY DEF Shrinks, CacheInv
  <2> QED
    BY <2>1 DEF IdemRow, process, Obeys, Agrees, Concerns, CacheKey
<1>2. IsStore(idem')
  BY DEF Shrinks
<1> QED
  BY <1>1, <1>2 DEF Keys, IsStore

\* The stores a step leaves as they are.
LEMMA SameStores ==
  ASSUME CacheInv
  PROVE  Shrinks(cache, cache) /\ Shrinks(idem, idem)
  BY DEF CacheInv, Shrinks

\* A step of one call that leaves history and both stores alone, but for a read.
LEMMA QuietKeeps ==
  ASSUME CacheInv, NEW c \in Calls, NEW p, NEW n, NEW r, NEW a, NEW t, Moves(c, p, n, r, a, t),
         UNCHANGED <<process, now, cleared, storedAt>>, prior' \in [Calls -> SUBSET Posts],
         Shrinks(cache, cache'), Shrinks(idem, idem'), CallPhase(c)'
  PROVE  CacheInv'
<1>1. Scalars'
  BY DEF CacheInv, Scalars, Moves, process
<1>2. \A d \in Calls : CallPhase(d)'
  BY MovesKeep
<1>3. IsStore(cache)' /\ \A k \in Keys(cache)' : CacheRow(k)'
  BY CacheStays
<1>4. IsStore(idem)' /\ \A k \in Keys(idem)' : IdemRow(k)'
  BY IdemStays
<1> QED
  BY <1>1, <1>2, <1>3, <1>4 DEF CacheInv

-----------------------------------------------------------------------------
(***************************************************************************)
(* Every step keeps CacheInv.                                              *)
(***************************************************************************)

\* The handler looks for its key.
LEMMA FindKeyKeeps ==
  ASSUME CacheInv, NEW c \in Calls, NEW outcome \in StoreCalls, FindKey(c, outcome)
  PROVE  CacheInv'
<1> DEFINE found == outcome = "ok" /\ Found(idem, KeyOf[c], now)
           p == IF found THEN "done" ELSE "lookup"
           a == IF found THEN idem.entries[KeyOf[c]].value ELSE call[c].answer
<1>1. Moves(c, p, call[c].attempts, call[c].ran, a, call[c].keptUntil)
  BY FindKeyMoves
<1>2. p \in {"done", "lookup"}
  OBVIOUS
<1> HIDE DEF p, a
<1>3. CallPhase(c)'
  <2>1. /\ call[c].attempts = 0 /\ call[c].ran = 0 /\ cleared[c] <= call[c].ran
        /\ cleared'[c] = cleared[c]
    BY DEF FindKey, CacheInv, CallPhase
  <2> QED
    BY <1>1, <1>2, <2>1, Lifetimes DEF CallPhase, Moves
<1>4. Shrinks(idem, idem') /\ Shrinks(cache, cache')
  <2>1. now \in Int /\ IsStore(idem) /\ idem' = ReadOf(idem, KeyOf[c]) /\ cache' = cache
    BY StateOf DEF CacheInv, FindKey
  <2> QED
    BY <2>1, TimedRows, ReadShrinks, SameStores
<1>5. prior' \in [Calls -> SUBSET Posts]
  BY DEF FindKey, CacheInv, Scalars, Kept
<1>6. UNCHANGED <<process, now, cleared, storedAt>>
  BY DEF FindKey
<1> QED
  BY <1>1, <1>3, <1>4, <1>5, <1>6, QuietKeeps

\* A request without a key goes on to the decorator.
LEMMA StartPlainKeeps ==
  ASSUME CacheInv, NEW c \in Calls, StartPlain(c)
  PROVE  CacheInv'
<1>1. Moves(c, "lookup", call[c].attempts, call[c].ran, call[c].answer, call[c].keptUntil)
  BY PlaceMoves DEF StartPlain, CacheInv, Places
<1>2. CallPhase(c)'
  <2>1. /\ call[c].attempts = 0 /\ call[c].ran = 0 /\ cleared[c] <= call[c].ran
        /\ cleared'[c] = cleared[c]
    BY DEF StartPlain, CacheInv, CallPhase, history
  <2> QED
    BY <1>1, <2>1, Lifetimes DEF CallPhase, Moves
<1>3. /\ Shrinks(idem, idem') /\ Shrinks(cache, cache')
      /\ prior' \in [Calls -> SUBSET Posts]
      /\ UNCHANGED <<process, now, cleared, storedAt>>
  BY SameStores DEF StartPlain, stores, history, CacheInv, Scalars
<1> QED
  BY <1>1, <1>2, <1>3, QuietKeeps

\* The decorator looks for the address.
LEMMA LookupKeeps ==
  ASSUME CacheInv, NEW c \in Calls, NEW outcome \in StoreCalls, Lookup(c, outcome)
  PROVE  CacheInv'
<1> DEFINE k == CacheKey(c)
           found == outcome = "ok" /\ Found(cache, k, now)
           p == IF found THEN "answered" ELSE "verifying"
           n == IF found THEN call[c].attempts + 1 ELSE call[c].attempts
           a == IF found THEN cache.entries[k].value ELSE call[c].answer
<1>1. Moves(c, p, n, call[c].ran, a, call[c].keptUntil)
  BY LookupMoves
<1>2. /\ call[c].attempts <= RetryMax /\ call[c].ran <= call[c].attempts
      /\ cleared[c] <= call[c].ran /\ cleared'[c] = cleared[c]
      /\ call[c].attempts \in Int /\ call[c].ran \in Int
  BY StateOf DEF Lookup, CacheInv, CallPhase, history, Counts
<1>3. CallPhase(c)'
  <2>1. CASE found
    <3>1. a \in Assessments /\ CacheKey(a.by) = k /\ Obeys(a)
      BY <2>1 DEF Found, CacheInv, CacheRow
    <3>2. p = "answered" /\ n = call[c].attempts + 1
      BY <2>1
    <3>3. UNCHANGED process
      BY DEF Lookup
    <3> HIDE DEF p, n, a, found
    <3> QED
      BY <1>1, <1>2, <3>1, <3>2, <3>3
         DEF CallPhase, Moves, Concerns, Obeys, Agrees, process, CacheKey
  <2>2. CASE ~found
    <3>1. p = "verifying" /\ n = call[c].attempts
      BY <2>2
    <3> HIDE DEF p, n, a, found
    <3> QED
      BY <1>1, <1>2, <3>1 DEF CallPhase, Moves
  <2> QED
    BY <2>1, <2>2
<1>4. Shrinks(idem, idem') /\ Shrinks(cache, cache')
  <2>1. now \in Int /\ IsStore(cache) /\ cache' = ReadOf(cache, k) /\ idem' = idem
    BY StateOf DEF CacheInv, Lookup
  <2> QED
    BY <2>1, TimedRows, ReadShrinks, SameStores
<1>5. prior' \in [Calls -> SUBSET Posts] /\ UNCHANGED <<process, now, cleared, storedAt>>
  BY DEF Lookup, CacheInv, Scalars, history
<1> HIDE DEF p, n, a
<1> QED
  BY <1>1, <1>3, <1>4, <1>5, QuietKeeps

\* The wrapped verifier returns.
LEMMA VerifyKeeps ==
  ASSUME CacheInv, NEW c \in Calls, NEW verdict \in Verdicts,
         Verify(c, verdict)
  PROVE  CacheInv'
<1> DEFINE a == [by |-> c, nth |-> call[c].ran + 1, start |-> restarts, verdict |-> verdict]
           n == call[c].attempts + 1
           r == call[c].ran + 1
<1>1. /\ Moves(c, "storing", n, r, a, call[c].keptUntil) /\ a \in Assessments
      /\ call[c].ran <= call[c].attempts
  BY VerifyMoves
<1>2. /\ cleared[c] <= call[c].ran /\ cleared'[c] = cleared[c] /\ UNCHANGED process
      /\ call[c].attempts \in Int /\ call[c].ran \in Int /\ cleared[c] \in Int
  BY StateOf DEF Verify, CacheInv, CallPhase, history, Counts
<1>3. CallPhase(c)'
  <2>1. /\ a.by = c /\ a.nth = r /\ a.start = restarts /\ restarts \in Int
        /\ a.verdict = "suppressed" <=> Normal[AddressOf[c]] \in suppressed
    BY DEF Verify, OnList, CacheInv, Scalars
  <2>2. r \in Int /\ n \in Int /\ r <= n /\ cleared[c] < r
    BY <1>1, <1>2
  <2> HIDE DEF a, r, n
  <2> QED
    BY <1>1, <1>2, <2>1, <2>2 DEF CallPhase, Moves, Concerns, Obeys, Agrees, process, CacheKey
<1>4. /\ Shrinks(idem, idem') /\ Shrinks(cache, cache')
      /\ prior' \in [Calls -> SUBSET Posts]
      /\ UNCHANGED <<process, now, cleared, storedAt>>
  BY SameStores DEF Verify, stores, history, CacheInv, Scalars
<1> HIDE DEF a, n, r
<1> QED
  BY <1>1, <1>3, <1>4, QuietKeeps
\* The decorator stores its result: the row is as young as the write.
LEMMA StoreResultKeeps ==
  ASSUME CacheInv, NEW c \in Calls, NEW outcome \in StoreCalls, StoreResult(c, outcome)
  PROVE  CacheInv'
<1> DEFINE k == CacheKey(c)
           a == call[c].answer
           ttl == TtlFor(a)
           row == [value |-> a, expiresAt |-> now + ttl]
<1>0. Scalars /\ call[c].pc = "storing" /\ UNCHANGED <<process, now, idem, cleared, prior>>
  BY DEF StoreResult, CacheInv
<1>1. Moves(c, "answered", call[c].attempts, call[c].ran, a, call[c].keptUntil)
  BY <1>0, PlaceMoves DEF StoreResult, Places
<1>2. /\ a \in Assessments /\ CacheKey(a.by) = k /\ Obeys(a) /\ a.start = restarts
      /\ a.by = c /\ a.nth = call[c].ran /\ cleared[c] < call[c].ran
      /\ call[c].ran <= call[c].attempts /\ cleared[c] <= call[c].ran
  BY <1>0 DEF CacheInv, CallPhase, Concerns
<1>3. CallPhase(c)'
  <2> HIDE DEF k, a
  <2> QED
    BY <1>0, <1>1, <1>2 DEF CallPhase, Moves, Concerns, Obeys, Agrees, process, CacheKey, k
<1>4. \A d \in Calls : CallPhase(d)'
  BY <1>0, <1>1, <1>3, MovesKeep
<1>5. IsStore(idem)' /\ \A j \in Keys(idem)' : IdemRow(j)'
  BY <1>0, SameStores, IdemStays
<1>6. /\ ttl \in Nat \ {0} /\ ttl <= CacheTtl /\ CacheTtl \in Nat /\ MaxTime \in Nat
      /\ now \in 0..MaxTime /\ startedAt \in 0..now /\ k \in Normals /\ k \in Addresses
  BY <1>0, Lifetimes, StateOf, KeyTypes
<1>7. CASE outcome = "ok"
  <2>1. /\ cache' = AfterSet(cache, k, a, ttl, now, Cap)
        /\ storedAt' = [storedAt EXCEPT ![k] = now]
    BY <1>7 DEF StoreResult
  <2>2. Puts(cache, cache', k, row)
    <3>1. IsStore(cache)
      BY DEF CacheInv
    <3> HIDE DEF k, a, ttl
    <3> QED
      BY <1>6, <2>1, <3>1, SetPuts
  <2>3. /\ storedAt' \in [Addresses -> 0..now] /\ storedAt'[k] = now
        /\ \A j \in Addresses \ {k} : storedAt'[j] = storedAt[j]
    BY <1>0, <1>6, <2>1 DEF Scalars
  <2>4. Scalars'
    BY <1>0, <1>1, <2>3 DEF Scalars, Moves, process
  <2>5. CacheRow(k)'
    <3>1. /\ row \in [value: Assessments, expiresAt: 1..(MaxTime + CacheTtl)]
          /\ row.value = a /\ row.expiresAt = now + ttl
      BY <1>2, <1>6
    <3>2. cache'.entries[k] = row
      BY <2>2 DEF Puts
    <3>3. /\ a.start = restarts' /\ restarts' \in Int
          /\ a.verdict = "suppressed" <=> CacheKey(a.by) \in suppressed'
      BY <1>0, <1>2 DEF Obeys, Agrees, process, Scalars
    <3>4. a.nth > cleared'[a.by]
      BY <1>0, <1>2, StateOf DEF Counts
    <3> HIDE DEF row, k, a
    <3> QED
      BY <1>2, <1>6, <2>3, <3>1, <3>2, <3>3, <3>4 DEF CacheRow, Obeys, Agrees, CacheKey, k
  <2>6. ASSUME NEW j \in Keys(cache'), j # k
        PROVE  CacheRow(j)'
    <3>1. j \in Keys(cache) /\ cache'.entries[j] = cache.entries[j] /\ CacheRow(j)
      BY <2>2, <2>6 DEF Puts, CacheInv
    <3>2. storedAt'[j] = storedAt[j]
      BY <2>3, <2>6, <3>1, KeyTypes DEF CacheRow
    <3> QED
      BY <1>0, <3>1, <3>2 DEF CacheRow, process, Obeys, Agrees, CacheKey
  <2>7. IsStore(cache)' /\ \A j \in Keys(cache)' : CacheRow(j)'
    <3>1. \A j \in Keys(cache') : CacheRow(j)'
      BY <2>5, <2>6
    <3> QED
      BY <2>2, <3>1 DEF Puts, Keys, IsStore
  <2> QED
    BY <1>4, <1>5, <2>4, <2>7 DEF CacheInv
<1>8. CASE outcome # "ok"
  <2>1. UNCHANGED <<cache, storedAt>>
    BY <1>8 DEF StoreResult
  <2>2. Shrinks(cache, cache') /\ Shrinks(idem, idem') /\ prior' \in [Calls -> SUBSET Posts]
    BY <1>0, <2>1, SameStores DEF Scalars
  <2> QED
    BY <1>0, <1>1, <1>3, <2>1, <2>2, QuietKeeps
<1> QED
  BY <1>7, <1>8

\* The handler keeps its answer.
LEMMA KeepAnswerKeeps ==
  ASSUME CacheInv, NEW c \in Calls, NEW outcome \in StoreCalls, KeepAnswer(c, outcome)
  PROVE  CacheInv'
<1> DEFINE k == KeyOf[c]
           a == call[c].answer
           t == IF outcome = "ok" THEN now + IdemTtl ELSE call[c].keptUntil
           row == [value |-> a, expiresAt |-> now + IdemTtl]
<1>0. /\ Scalars /\ call[c].pc = "answered" /\ k # NoKey
      /\ UNCHANGED <<process, now, cache, history>>
  BY DEF KeepAnswer, CacheInv
<1>1. Moves(c, "done", call[c].attempts, call[c].ran, a, t)
  BY KeepMoves
<1> HIDE DEF t
<1>2. /\ a \in Assessments
      /\ Obeys(a) /\ Concerns(c, a)
      /\ call[c].ran <= call[c].attempts /\ cleared[c] <= call[c].ran
  BY <1>0 DEF CacheInv, CallPhase
<1>3. CallPhase(c)'
  <2> HIDE DEF a
  <2> QED
    BY <1>0, <1>1, <1>2 DEF CallPhase, Moves, history
<1>4. Scalars' /\ UNCHANGED cleared
  BY <1>0, <1>1 DEF Scalars, Moves, process, history
<1>5. \A d \in Calls : CallPhase(d)'
  BY <1>0, <1>1, <1>3, <1>4, MovesKeep
<1>6. IsStore(cache)' /\ \A j \in Keys(cache)' : CacheRow(j)'
  BY <1>0, SameStores, CacheStays DEF history
<1>7. IsStore(idem)' /\ \A j \in Keys(idem)' : IdemRow(j)'
  <2>1. CASE outcome = "ok"
    <3>1. idem' = AfterSet(idem, k, a, IdemTtl, now, Cap)
      BY <2>1 DEF KeepAnswer, IdemLifetime
    <3>2. Puts(idem, idem', k, row)
      <4>1. IsStore(idem) /\ IdemTtl \in Nat \ {0}
        BY Lifetimes DEF CacheInv
      <4> HIDE DEF k, a
      <4> QED
        BY <3>1, <4>1, SetPuts
    <3>3. IdemRow(k)'
      <4>1. /\ row \in [value: Assessments, expiresAt: 1..(MaxTime + IdemTtl)]
            /\ row.value = a
        <5>1. now + IdemTtl \in 1..(MaxTime + IdemTtl)
          BY <1>0, Lifetimes DEF Scalars
        <5> QED
          BY <1>2, <5>1
      <4>2. k \in KeysInUse /\ c \in Posts
        BY <1>0, PostKeys
      <4>3. /\ a.start <= restarts'
            /\ a.start = restarts' => (a.verdict = "suppressed" <=> CacheKey(a.by) \in suppressed')
            /\ a.start # restarts' => backend' = "postgres"
            /\ CacheKey(a.by) = CacheKey(c)
        BY <1>0, <1>2 DEF process, Obeys, Agrees, Concerns
      <4>4. idem'.entries[k] = row
        BY <3>2 DEF Puts
      <4> HIDE DEF row, k, a
      <4> QED
        BY <4>1, <4>2, <4>3, <4>4 DEF IdemRow, Obeys, Agrees, Concerns, CacheKey, k
    <3>4. ASSUME NEW j \in Keys(idem'), j # k
          PROVE  IdemRow(j)'
      <4>1. j \in Keys(idem) /\ idem'.entries[j] = idem.entries[j] /\ IdemRow(j)
        BY <3>2, <3>4 DEF Puts, CacheInv
      <4> QED
        BY <1>0, <4>1 DEF IdemRow, process, Obeys, Agrees, Concerns, CacheKey
    <3>5. \A j \in Keys(idem') : IdemRow(j)'
      BY <3>3, <3>4
    <3> QED
      BY <3>2, <3>5 DEF Puts, Keys, IsStore
  <2>2. CASE outcome # "ok"
    <3>1. idem' = idem
      BY <2>2 DEF KeepAnswer
    <3> QED
      BY <1>0, <3>1, SameStores, IdemStays
  <2> QED
    BY <2>1, <2>2
<1> QED
  BY <1>4, <1>5, <1>6, <1>7 DEF CacheInv

\* A retryable answer of an item goes round again.
LEMMA TryAgainKeeps ==
  ASSUME CacheInv, NEW c \in Calls, TryAgain(c)
  PROVE  CacheInv'
<1>0. Scalars
  BY DEF CacheInv
<1>1. Moves(c, "lookup", call[c].attempts, call[c].ran, call[c].answer, call[c].keptUntil)
  BY <1>0, PlaceMoves DEF TryAgain, Places
<1>2. /\ Shrinks(idem, idem') /\ Shrinks(cache, cache')
      /\ prior' \in [Calls -> SUBSET Posts]
      /\ UNCHANGED <<process, now, cleared, storedAt>>
  BY SameStores DEF TryAgain, stores, history, CacheInv, Scalars
<1>3. CallPhase(c)'
  <2>1. /\ call[c].attempts <= RetryMax /\ call[c].ran <= call[c].attempts
        /\ cleared[c] <= call[c].ran
    BY DEF TryAgain, MayRetry, CacheInv, CallPhase
  <2> QED
    BY <1>1, <1>2, <2>1 DEF CallPhase, Moves
<1> QED
  BY <1>1, <1>2, <1>3, QuietKeeps

\* An answer goes out.
LEMMA RespondKeeps ==
  ASSUME CacheInv, NEW c \in Calls, Respond(c)
  PROVE  CacheInv'
<1>1. Moves(c, "done", call[c].attempts, call[c].ran, Absent, call[c].keptUntil)
  BY RespondMoves
<1>2. /\ Shrinks(idem, idem') /\ Shrinks(cache, cache')
      /\ prior' \in [Calls -> SUBSET Posts]
      /\ UNCHANGED <<process, now, cleared, storedAt>>
  BY SameStores DEF Respond, stores, history, CacheInv, Scalars
<1>3. CallPhase(c)'
  <2>1. call[c].ran <= call[c].attempts /\ cleared[c] <= call[c].ran
    BY DEF Respond, CacheInv, CallPhase
  <2> QED
    BY <1>1, <1>2, <2>1 DEF CallPhase, Moves
<1> QED
  BY <1>1, <1>2, <1>3, QuietKeeps

\* An erasure takes out the row of its address, so that what is cleared of its
\* verifications concerns no row that stays; and nothing that is under way.
LEMMA EraseKeeps ==
  ASSUME CacheInv, NEW x \in Addresses, Erase(x)
  PROVE  CacheInv'
<1> DEFINE k == Normal[x]
<1>0. /\ Scalars /\ UNCHANGED <<process, now, idem, call, prior>>
      /\ cache' = AfterDelete(cache, k)
      /\ storedAt' = [storedAt EXCEPT ![k] = 0]
      /\ k \in Normals /\ k \in Addresses
  BY KeyTypes DEF Erase, ErasureKey, CacheInv
<1>1. /\ cleared' \in [Calls -> Nat]
      /\ \A c \in Calls : CacheKey(c) # k => cleared'[c] = cleared[c]
      /\ \A c \in Calls : cleared'[c] = cleared[c]
                            \/ (call[c].pc \notin {"verifying", "storing"} /\ cleared'[c] = call[c].ran)
  <2>1. CASE UnderWay(k) = {}
    <3>1. cleared' = [c \in Calls |-> IF CacheKey(c) = k THEN call[c].ran ELSE cleared[c]]
      BY <2>1 DEF Erase
    <3>2. \A c \in Calls : call[c].ran \in Nat /\ cleared[c] \in Nat
      BY <1>0, StateOf DEF Counts
    <3> QED
      BY <2>1, <3>1, <3>2 DEF UnderWay
  <2>2. CASE UnderWay(k) # {}
    <3>1. cleared' = cleared
      BY <2>2 DEF Erase
    <3> QED
      BY <1>0, <3>1 DEF Scalars
  <2> QED
    BY <2>1, <2>2
<1>2. /\ storedAt' \in [Addresses -> 0..now]
      /\ \A j \in Addresses \ {k} : storedAt'[j] = storedAt[j]
  BY <1>0 DEF Scalars
<1>3. Scalars'
  BY <1>0, <1>1, <1>2 DEF Scalars, process
<1>4. ASSUME NEW c \in Calls
      PROVE  CallPhase(c)'
  <2>1. CallPhase(c) /\ call'[c] = call[c]
    BY <1>0 DEF CacheInv
  <2>2. cleared'[c] <= call[c].ran /\ (call[c].pc = "storing" => cleared'[c] < call[c].ran)
    <3>1. call[c].ran \in Int
      BY <1>0, StateOf DEF Counts
    <3> QED
      BY <1>1, <2>1, <3>1 DEF CallPhase
  <2> QED
    BY <1>0, <2>1, <2>2 DEF CallPhase, process, Concerns, Obeys, Agrees, CacheKey
<1>5. Shrinks(cache, cache') /\ k \notin Keys(cache')
  BY <1>0, DeleteShrinks
<1>6. IsStore(cache)' /\ \A j \in Keys(cache)' : CacheRow(j)'
  <2>1. ASSUME NEW j \in Keys(cache')
        PROVE  /\ storedAt'[j] = storedAt[j]
               /\ cleared'[cache.entries[j].value.by] = cleared[cache.entries[j].value.by]
    <3>1. j \in Keys(cache) /\ j # k /\ CacheRow(j)
      BY <1>5 DEF Shrinks, CacheInv
    <3>2. j \in Addresses /\ CacheKey(cache.entries[j].value.by) = j
          /\ cache.entries[j].value.by \in Calls
      BY <3>1, KeyTypes DEF CacheRow, Assessments
    <3> QED
      BY <1>1, <1>2, <3>1, <3>2
  <2> QED
    BY <1>0, <1>5, <2>1, CacheStays
<1>7. IsStore(idem)' /\ \A j \in Keys(idem)' : IdemRow(j)'
  BY <1>0, SameStores, IdemStays
<1> QED
  BY <1>3, <1>4, <1>6, <1>7 DEF CacheInv

\* The sweep takes rows out.
LEMMA SweepKeeps ==
  ASSUME CacheInv, Sweep
  PROVE  CacheInv'
<1>0. Scalars /\ UNCHANGED <<process, now, call, history>>
  BY DEF Sweep, CacheInv
<1>1. Shrinks(cache, cache') /\ Shrinks(idem, idem')
  <2>1. now \in Int /\ IsStore(cache) /\ IsStore(idem)
    BY DEF CacheInv, Scalars
  <2> QED
    BY <2>1, TimedRows, PurgeShrinks DEF Sweep
<1>2. Scalars'
  BY <1>0 DEF Scalars, process, history
<1>3. \A c \in Calls : CallPhase(c)'
  BY <1>0, PhaseStays DEF CacheInv, history
<1>4. IsStore(cache)' /\ \A k \in Keys(cache)' : CacheRow(k)'
  BY <1>0, <1>1, CacheStays DEF history
<1>5. IsStore(idem)' /\ \A k \in Keys(idem)' : IdemRow(k)'
  BY <1>0, <1>1, IdemStays
<1> QED
  BY <1>2, <1>3, <1>4, <1>5 DEF CacheInv

\* Time passes.
LEMMA TickKeeps ==
  ASSUME CacheInv, Tick
  PROVE  CacheInv'
<1>0. Scalars /\ UNCHANGED <<process, stores, call, history>> /\ now' = now + 1 /\ now < MaxTime
  BY DEF Tick, CacheInv
<1>1. Scalars'
  <2>1. now' \in 0..MaxTime /\ 0..now \subseteq 0..now'
    BY <1>0, Lifetimes DEF Scalars
  <2> QED
    BY <1>0, <2>1 DEF Scalars, process, history
<1>2. \A c \in Calls : CallPhase(c)'
  BY <1>0, PhaseStays DEF CacheInv, history
<1>3. IsStore(cache)' /\ \A k \in Keys(cache)' : CacheRow(k)'
  BY <1>0, SameStores, CacheStays DEF history, stores
<1>4. IsStore(idem)' /\ \A k \in Keys(idem)' : IdemRow(k)'
  BY <1>0, SameStores, IdemStays DEF stores
<1> QED
  BY <1>1, <1>2, <1>3, <1>4 DEF CacheInv

\* A restart: what Postgres kept may contradict the new list, but no row
\* outlives the longer lifetime counted from now.
LEMMA RestartKeeps ==
  ASSUME CacheInv, Restart
  PROVE  CacheInv'
<1>0. /\ Scalars /\ UNCHANGED <<backend, now, history>>
      /\ restarts < MaxRestarts /\ restarts' = restarts + 1
      /\ suppressed' \in Lists /\ startedAt' = now
  BY DEF Restart, CacheInv
<1>1. Scalars'
  <2>1. restarts' \in 0..MaxRestarts /\ startedAt' \in 0..now'
    BY <1>0, CacheAssumption DEF Scalars
  <2> QED
    BY <1>0, <2>1, RestartMoves, CacheAssumption DEF Scalars, history, Normals
<1>2. ASSUME NEW c \in Calls
      PROVE  CallPhase(c)'
  <2>1. /\ CallPhase(c) /\ cleared' = cleared /\ call'[c].ran = call[c].ran
        /\ call[c].pc \in {"idle", "done"} =>
             call'[c].pc = call[c].pc /\ call'[c].attempts = call[c].attempts
        /\ call[c].pc \notin {"idle", "done"} => call'[c].pc = "lost"
    BY <1>0, RestartMoves DEF CacheInv, history
  <2> QED
    BY <2>1 DEF CallPhase
<1>3. CASE backend = "memory"
  <2>1. cache' = EmptyStore /\ idem' = EmptyStore
    BY <1>3 DEF Restart
  <2>2. IsStore(EmptyStore) /\ Keys(EmptyStore) = {}
    BY DEF IsStore, EmptyStore, Keys
  <2> QED
    BY <1>1, <1>2, <2>1, <2>2 DEF CacheInv, Keys, IsStore
<1>4. CASE backend = "postgres"
  <2>1. cache' = cache /\ idem' = idem
    BY <1>4 DEF Restart, stores
  <2>2. ASSUME NEW v, Obeys(v), v.start \in Int
        PROVE  Obeys(v)' /\ v.start < restarts'
    BY <1>0, <1>4, <2>2 DEF Obeys, Scalars
  <2>3. ASSUME NEW k \in Keys(cache)
        PROVE  CacheRow(k)'
    <3>1. CacheRow(k) /\ k \in Addresses
      BY KeyTypes DEF CacheInv, CacheRow
    <3>2. cache.entries[k].expiresAt <= now + CacheTtl
      <4>1. /\ cache.entries[k].expiresAt = storedAt[k] + TtlFor(cache.entries[k].value)
            /\ storedAt[k] \in 0..now /\ now \in Int
        BY <1>0, <3>1 DEF CacheRow, Scalars
      <4> QED
        BY <4>1, Lifetimes
    <3>3. cache.entries[k].value.start \in Int
      BY <3>1 DEF CacheRow, Assessments
    <3>4. Obeys(cache.entries[k].value)'
      BY <2>1, <2>2, <3>1, <3>3 DEF CacheRow
    <3> QED
      BY <1>0, <2>1, <3>1, <3>2, <3>4 DEF CacheRow, history, CacheKey
  <2>4. ASSUME NEW k \in Keys(idem)
        PROVE  IdemRow(k)'
    <3>1. IdemRow(k)
      BY DEF CacheInv
    <3>2. idem.entries[k].value.start \in Int
      BY <3>1 DEF IdemRow, Assessments
    <3>3. Obeys(idem.entries[k].value)'
      BY <2>1, <2>2, <3>1, <3>2 DEF IdemRow
    <3> QED
      BY <2>1, <3>1, <3>3 DEF IdemRow, Concerns, CacheKey
  <2>5. IsStore(cache)' /\ IsStore(idem)' /\ Keys(cache)' = Keys(cache) /\ Keys(idem)' = Keys(idem)
    BY <2>1 DEF CacheInv, IsStore, Keys
  <2> QED
    BY <1>1, <1>2, <2>3, <2>4, <2>5 DEF CacheInv
<1> QED
  BY <1>0, <1>3, <1>4 DEF Scalars
\* The initial states satisfy CacheInv: nothing is stored and no call has begun.
LEMMA InitInv == Init => CacheInv
<1> SUFFICES ASSUME Init
             PROVE  CacheInv
  OBVIOUS
<1>1. Fresh \in CallStates
  <2>1. "idle" \in Places /\ 0 \in Counts /\ Absent \in Answers /\ 0 \in Spans
    BY Lifetimes DEF Places, Counts, Answers, Spans
  <2> QED
    BY <2>1, CallShape DEF Fresh
<1>2. Scalars
  <2>1. 0 \in 0..MaxRestarts /\ 0 \in 0..MaxTime
    BY CacheAssumption
  <2> QED
    BY <1>1, <2>1, CacheAssumption DEF Init, Scalars, Normals
<1>3. \A c \in Calls : CallPhase(c)
  <2>1. Fresh.pc = "idle" /\ Fresh.attempts = 0 /\ Fresh.ran = 0
    BY DEF Fresh
  <2>2. \A c \in Calls : call[c] = Fresh /\ cleared[c] = 0
    BY DEF Init
  <2> HIDE DEF Fresh
  <2> QED
    BY <2>1, <2>2 DEF CallPhase
<1>4. IsStore(EmptyStore) /\ Keys(EmptyStore) = {}
  BY DEF IsStore, EmptyStore, Keys
<1> QED
  BY <1>2, <1>3, <1>4 DEF Init, CacheInv

\* A stutter keeps CacheInv.
LEMMA StutterInv == CacheInv /\ UNCHANGED vars => CacheInv'
<1> SUFFICES ASSUME CacheInv, UNCHANGED vars
             PROVE  CacheInv'
  OBVIOUS
<1>0. UNCHANGED <<process, now, cache, idem, call, history>>
  BY DEF vars
<1>1. Scalars'
  BY <1>0 DEF CacheInv, Scalars, process, history
<1>2. \A c \in Calls : CallPhase(c)'
  BY <1>0, PhaseStays DEF CacheInv, history
<1>3. IsStore(cache)' /\ \A k \in Keys(cache)' : CacheRow(k)'
  BY <1>0, SameStores, CacheStays DEF history
<1>4. IsStore(idem)' /\ \A k \in Keys(idem)' : IdemRow(k)'
  BY <1>0, SameStores, IdemStays
<1> QED
  BY <1>1, <1>2, <1>3, <1>4 DEF CacheInv

\* Every step keeps CacheInv, one step of the proof per action.
LEMMA NextInv == CacheInv /\ [Next]_vars => CacheInv'
<1> SUFFICES ASSUME CacheInv, [Next]_vars
             PROVE  CacheInv'
  OBVIOUS
<1>1. ASSUME NEW c \in Calls, NEW outcome \in StoreCalls, FindKey(c, outcome)
      PROVE  CacheInv'
  BY <1>1, FindKeyKeeps
<1>2. ASSUME NEW c \in Calls, NEW outcome \in StoreCalls, Lookup(c, outcome)
      PROVE  CacheInv'
  BY <1>2, LookupKeeps
<1>3. ASSUME NEW c \in Calls, NEW outcome \in StoreCalls, StoreResult(c, outcome)
      PROVE  CacheInv'
  BY <1>3, StoreResultKeeps
<1>4. ASSUME NEW c \in Calls, NEW outcome \in StoreCalls, KeepAnswer(c, outcome)
      PROVE  CacheInv'
  BY <1>4, KeepAnswerKeeps
<1>5. ASSUME NEW c \in Calls, NEW verdict \in Verdicts,
             Verify(c, verdict)
      PROVE  CacheInv'
  BY <1>5, VerifyKeeps
<1>6. ASSUME NEW c \in Calls, StartPlain(c) \/ TryAgain(c) \/ Respond(c)
      PROVE  CacheInv'
  BY <1>6, StartPlainKeeps, TryAgainKeeps, RespondKeeps
<1>7. ASSUME NEW x \in Addresses, Erase(x)
      PROVE  CacheInv'
  BY <1>7, EraseKeeps
<1>8. CASE Sweep
  BY <1>8, SweepKeeps
<1>9. CASE Tick
  BY <1>9, TickKeeps
<1>10. CASE Restart
  BY <1>10, RestartKeeps
<1>11. CASE UNCHANGED vars
  BY <1>11, StutterInv
<1> QED
  BY <1>1, <1>2, <1>3, <1>4, <1>5, <1>6, <1>7, <1>8, <1>9, <1>10, <1>11 DEF Next

\* In every reachable state each row of the cache has the age and the origin
\* that CacheRow says, whatever calls, erasures, sweeps and restarts overlapped.
THEOREM Invariance == Spec => []CacheInv
  BY InitInv, NextInv, PTL DEF Spec

\* The states of the model are of their types; in particular a row of the cache
\* comes of a verification of its own address.
THEOREM TypeCorrect == Spec => []TypeOK
<1>1. CacheInv => TypeOK
  <2> SUFFICES ASSUME CacheInv
               PROVE  TypeOK
    OBVIOUS
  <2>1. Scalars
    BY DEF CacheInv
  <2>2. ASSUME NEW k \in Keys(cache)
        PROVE  /\ k \in Normals
               /\ cache.entries[k] \in [value: Assessments, expiresAt: 1..(MaxTime + CacheTtl)]
               /\ CacheKey(cache.entries[k].value.by) = k
    BY DEF CacheInv, CacheRow
  <2>3. ASSUME NEW k \in Keys(idem)
        PROVE  /\ k \in KeysInUse
               /\ idem.entries[k] \in [value: Assessments, expiresAt: 1..(MaxTime + IdemTtl)]
    BY DEF CacheInv, IdemRow
  <2> QED
    BY <2>1, <2>2, <2>3 DEF TypeOK, Scalars, KeysInUse
<1> QED
  BY <1>1, Invariance, PTL

\* An erasure that finds no verification of the address under way removes from
\* the cache everything found out before (Delete of the erasure endpoint).
THEOREM Erasure == Spec => []ErasureEffective
<1>1. CacheInv => ErasureEffective
  BY DEF CacheInv, CacheRow, ErasureEffective
<1> QED
  BY <1>1, Invariance, PTL

-----------------------------------------------------------------------------
(***************************************************************************)
(* Hits.                                                                   *)
(***************************************************************************)

\* Only Lookup answers from the cache, only FindKey from the kept answers, and
\* only Verify makes an assessment.
LEMMA WhoMoves ==
  ASSUME CacheInv, [Next]_vars, NEW c \in Calls
  PROVE  /\ call[c].pc = "lookup" /\ call'[c].pc = "answered" =>
              \E outcome \in StoreCalls : Lookup(c, outcome)
         /\ call[c].pc = "idle" /\ call'[c].pc = "done" =>
              \E outcome \in StoreCalls : FindKey(c, outcome)
         /\ call[c].pc = "verifying" /\ call'[c].pc = "storing" =>
              \E verdict \in Verdicts : Verify(c, verdict)
<1> DEFINE Moved == \/ call[c].pc = "lookup" /\ call'[c].pc = "answered"
                    \/ call[c].pc = "idle" /\ call'[c].pc = "done"
                    \/ call[c].pc = "verifying" /\ call'[c].pc = "storing"
           Known == \/ \E outcome \in StoreCalls : FindKey(c, outcome) \/ Lookup(c, outcome)
                    \/ \E verdict \in Verdicts : Verify(c, verdict)
<1>1. ASSUME NEW d \in Calls, NEW outcome \in StoreCalls, FindKey(d, outcome), Moved
      PROVE  Known
  BY <1>1, FindKeyMoves DEF Moves
<1>2. ASSUME NEW d \in Calls, NEW outcome \in StoreCalls, Lookup(d, outcome), Moved
      PROVE  Known
  BY <1>2, LookupMoves DEF Moves
<1>3. ASSUME NEW d \in Calls, NEW outcome \in StoreCalls, StoreResult(d, outcome), Moved
      PROVE  Known
  BY <1>3 DEF StoreResult, CacheInv, Scalars
<1>4. ASSUME NEW d \in Calls, NEW outcome \in StoreCalls, KeepAnswer(d, outcome), Moved
      PROVE  Known
  BY <1>4, KeepMoves DEF Moves, KeepAnswer
<1>5. ASSUME NEW d \in Calls, NEW verdict \in Verdicts,
             Verify(d, verdict), Moved
      PROVE  Known
  <2>1. \A x \in Calls \ {d} : call'[x] = call[x]
    BY <1>5, VerifyMoves DEF Moves
  <2>2. CASE c = d
    BY <1>5, <2>2
  <2>3. CASE c # d
    BY <1>5, <2>1, <2>3
  <2> QED
    BY <2>2, <2>3
<1>6. ASSUME NEW d \in Calls, StartPlain(d) \/ TryAgain(d) \/ Respond(d), Moved
      PROVE  Known
  <2>1. CASE StartPlain(d) \/ TryAgain(d)
    BY <1>6, <2>1, PlaceMoves DEF StartPlain, TryAgain, Moves, Places, CacheInv
  <2>2. CASE Respond(d)
    BY <1>6, <2>2, RespondMoves DEF Respond, Moves
  <2> QED
    BY <1>6, <2>1, <2>2
<1>7. ASSUME Restart, Moved
      PROVE  Known
  BY <1>7, RestartMoves
<1>8. ASSUME (\E x \in Addresses : Erase(x)) \/ Sweep \/ Tick \/ UNCHANGED vars, Moved
      PROVE  Known
  BY <1>8 DEF Erase, Sweep, Tick, vars
<1>9. Moved => Known
  <2> HIDE DEF Moved, Known
  <2> QED
    BY <1>1, <1>2, <1>3, <1>4, <1>5, <1>6, <1>7, <1>8 DEF Next
<1>10. /\ \A outcome \in StoreCalls : FindKey(c, outcome) => call[c].pc = "idle"
       /\ \A outcome \in StoreCalls : Lookup(c, outcome) => call[c].pc = "lookup"
       /\ \A verdict \in Verdicts :
            Verify(c, verdict) => call[c].pc = "verifying"
  BY DEF FindKey, Lookup, Verify
<1> QED
  BY <1>9, <1>10

\* A hit is a live row of the cache.
LEMMA HitRow ==
  ASSUME CacheInv, NEW c \in Calls, NEW outcome \in StoreCalls, Lookup(c, outcome),
         call'[c].pc = "answered"
  PROVE  LET row == cache.entries[CacheKey(c)]
         IN  /\ CacheKey(c) \in Keys(cache)
             /\ now < row.expiresAt
             /\ call'[c].answer = row.value
             /\ CacheRow(CacheKey(c))
<1>1. Found(cache, CacheKey(c), now) /\ call'[c].answer = cache.entries[CacheKey(c)].value
  BY LookupMoves DEF Moves
<1>2. CacheKey(c) \in Keys(cache) /\ CacheRow(CacheKey(c))
  BY <1>1 DEF Found, CacheInv
<1>3. cache.entries[CacheKey(c)].expiresAt \in Int /\ now \in Int
  BY <1>2 DEF CacheRow, CacheInv, Scalars
<1> QED
  BY <1>1, <1>2, <1>3 DEF Found, Expired

\* No hit is older than its kind allows (the two lifetimes of CachingVerifier).
THEOREM FreshHits == Spec => HitsAreFresh
<1>1. CacheInv /\ [Next]_vars =>
        [\A c \in Calls :
           call[c].pc = "lookup" /\ call'[c].pc = "answered" =>
             LET age == now - storedAt[CacheKey(c)]
             IN  /\ age < CacheTtl
                 /\ call'[c].answer.verdict = "retryable" => age < ShortTtl]_vars
  <2> SUFFICES ASSUME CacheInv, [Next]_vars, NEW c \in Calls,
                      call[c].pc = "lookup", call'[c].pc = "answered"
               PROVE  LET age == now - storedAt[CacheKey(c)]
                      IN  /\ age < CacheTtl
                          /\ call'[c].answer.verdict = "retryable" => age < ShortTtl
    OBVIOUS
  <2> DEFINE k == CacheKey(c)
             row == cache.entries[k]
  <2>1. PICK outcome \in StoreCalls : Lookup(c, outcome)
    BY WhoMoves
  <2>2. /\ now < row.expiresAt /\ call'[c].answer = row.value
        /\ row.expiresAt = storedAt[k] + TtlFor(row.value)
    BY <2>1, HitRow DEF CacheRow
  <2>3. storedAt[k] \in Int /\ now \in Int
    BY KeyTypes DEF CacheInv, Scalars
  <2> HIDE DEF row, k
  <2> QED
    BY <2>2, <2>3, Lifetimes DEF k
<1> QED
  BY <1>1, Invariance, PTL DEF Spec, HitsAreFresh

\* What the do-not-verify list does to an answer: a verification obeys it, a hit
\* of the cache disobeys it only with what an earlier process left in Postgres and
\* within the lifetime of a cached result from the start of this one, and a kept
\* answer speaks of the address of some post with that key (service.go:259 asks
\* the list behind both stores).
THEOREM ListEffect == Spec => ListTakesEffect
<1>1. CacheInv /\ [Next]_vars =>
        [\A c \in Calls :
           LET moved(from, to) == call[c].pc = from /\ call'[c].pc = to
               a == call'[c].answer
           IN  /\ moved("verifying", "storing") =>
                     Concerns(c, a) /\ a.start = restarts /\ Agrees(a)
               /\ moved("lookup", "answered") =>
                     /\ Concerns(c, a) /\ Obeys(a)
                     /\ a.start < restarts => now < startedAt + CacheTtl
               /\ moved("idle", "done") =>
                     /\ Obeys(a)
                     /\ \E d \in Posts : KeyOf[d] = KeyOf[c] /\ Concerns(d, a)]_vars
  <2> SUFFICES ASSUME CacheInv, [Next]_vars, NEW c \in Calls
               PROVE  LET a == call'[c].answer
                      IN  /\ call[c].pc = "verifying" /\ call'[c].pc = "storing" =>
                                Concerns(c, a) /\ a.start = restarts /\ Agrees(a)
                          /\ call[c].pc = "lookup" /\ call'[c].pc = "answered" =>
                                /\ Concerns(c, a) /\ Obeys(a)
                                /\ a.start < restarts => now < startedAt + CacheTtl
                          /\ call[c].pc = "idle" /\ call'[c].pc = "done" =>
                                /\ Obeys(a)
                                /\ \E d \in Posts : KeyOf[d] = KeyOf[c] /\ Concerns(d, a)
    OBVIOUS
  <2>1. ASSUME call[c].pc = "verifying", call'[c].pc = "storing"
        PROVE  LET a == call'[c].answer
               IN  Concerns(c, a) /\ a.start = restarts /\ Agrees(a)
    <3>1. PICK verdict \in Verdicts : Verify(c, verdict)
      BY <2>1, WhoMoves
    <3>2. call'[c].answer =
            [by |-> c, nth |-> call[c].ran + 1, start |-> restarts, verdict |-> verdict]
      BY <3>1, VerifyMoves DEF Moves
    <3>3. /\ call'[c].answer.verdict = verdict /\ call'[c].answer.by = c
          /\ call'[c].answer.start = restarts
      BY <3>2
    <3> QED
      BY <3>1, <3>3 DEF Verify, OnList, Agrees, Concerns, CacheKey
  <2>2. ASSUME call[c].pc = "lookup", call'[c].pc = "answered"
        PROVE  LET a == call'[c].answer
               IN  /\ Concerns(c, a) /\ Obeys(a)
                   /\ a.start < restarts => now < startedAt + CacheTtl
    <3> DEFINE k == CacheKey(c)
               row == cache.entries[k]
    <3>1. PICK outcome \in StoreCalls : Lookup(c, outcome)
      BY <2>2, WhoMoves
    <3>2. now < row.expiresAt /\ call'[c].answer = row.value /\ CacheRow(k)
      BY <2>2, <3>1, HitRow
    <3>3. row.expiresAt \in Int /\ now \in Int /\ startedAt \in Int /\ CacheTtl \in Int
      BY <3>2, Lifetimes DEF CacheRow, CacheInv, Scalars
    <3>4. /\ CacheKey(row.value.by) = k /\ Obeys(row.value)
          /\ row.value.start < restarts => row.expiresAt <= startedAt + CacheTtl
      BY <3>2 DEF CacheRow
    <3> HIDE DEF row
    <3> QED
      BY <3>2, <3>3, <3>4 DEF Concerns
  <2>3. ASSUME call[c].pc = "idle", call'[c].pc = "done"
        PROVE  LET a == call'[c].answer
               IN  Obeys(a) /\ \E d \in Posts : KeyOf[d] = KeyOf[c] /\ Concerns(d, a)
    <3>1. PICK outcome \in StoreCalls : FindKey(c, outcome)
      BY <2>3, WhoMoves
    <3>2. Found(idem, KeyOf[c], now) /\ call'[c].answer = idem.entries[KeyOf[c]].value
      BY <2>3, <3>1, FindKeyMoves DEF Moves
    <3>3. KeyOf[c] \in Keys(idem)
      BY <3>2 DEF Found
    <3> QED
      BY <3>2, <3>3 DEF CacheInv, IdemRow
  <2> QED
    BY <2>1, <2>2, <2>3
<1> QED
  BY <1>1, Invariance, PTL DEF Spec, ListTakesEffect
-----------------------------------------------------------------------------
(***************************************************************************)
(* Replays, for a store with room for the keys in use.                     *)
(***************************************************************************)

\* A new key finds room.
LEMMA RoomForKeys ==
  ASSUME CacheInv, KeysFit, NEW k \in KeysInUse, k \notin Keys(idem)
  PROVE  Cardinality(Keys(idem)) < Cap
<1> DEFINE keys == {KeyOf[c] : c \in Posts}
<1>1. IsFiniteSet(keys) /\ Cardinality(keys) <= Cardinality(Posts)
  <2>1. [c \in Posts |-> KeyOf[c]] \in Surjection(Posts, keys)
    BY DEF Surjection
  <2> QED
    BY <2>1, FS_Surjection, CacheAssumption
<1>2. /\ IsFiniteSet(KeysInUse) /\ Cardinality(KeysInUse) <= Cardinality(keys)
  <2>1. KeysInUse \in SUBSET keys
    BY DEF KeysInUse
  <2> HIDE DEF keys
  <2> QED
    BY <1>1, <2>1, FS_Subset
<1>3. Cardinality(Keys(idem)) < Cardinality(KeysInUse)
  <2>1. Keys(idem) \in SUBSET KeysInUse
    BY DEF CacheInv, IdemRow
  <2>2. /\ IsFiniteSet(Keys(idem)) /\ Cardinality(Keys(idem)) <= Cardinality(KeysInUse)
        /\ Cardinality(Keys(idem)) # Cardinality(KeysInUse)
    BY <1>2, <2>1, FS_Subset
  <2> QED
    BY <1>2, <2>2, FS_CardinalityType
<1>4. /\ Cardinality(Keys(idem)) \in Nat /\ Cardinality(KeysInUse) \in Nat
      /\ Cardinality(keys) \in Nat /\ Cardinality(Posts) \in Nat
      /\ Cardinality(Addresses) \in Nat /\ MaxEntries \in Nat
  <2>1. IsFiniteSet(Keys(idem))
    <3>1. Keys(idem) \in SUBSET KeysInUse
      BY DEF CacheInv, IdemRow
    <3> QED
      BY <1>2, <3>1, FS_Subset
  <2> HIDE DEF keys
  <2> QED
    BY <1>1, <1>2, <2>1, FS_CardinalityType, CacheAssumption
<1> HIDE DEF keys
<1> QED
  BY <1>1, <1>2, <1>3, <1>4 DEF Cap, KeysFit

\* A step of a call that is not done, over the same kept answers.
LEMMA QuietReplays ==
  ASSUME CacheInv, ReplayInv, NEW c \in Calls, call[c].pc # "done",
         NEW p, NEW n, NEW r, NEW a, Moves(c, p, n, r, a, call[c].keptUntil),
         UNCHANGED <<now, idem, prior>>
  PROVE  ReplayInv'
<1>0. now \in Nat /\ IdemTtl \in Nat
  BY Lifetimes DEF CacheInv, Scalars
<1>1. ASSUME NEW d \in Posts
      PROVE  HasRow(d)'
  <2>1. HasRow(d) /\ d \in Calls
    BY DEF ReplayInv, Calls
  <2>2. CASE d = c
    BY <1>0, <2>1, <2>2 DEF HasRow, Alive, Moves
  <2>3. CASE d # c
    BY <2>1, <2>3 DEF HasRow, Alive, Moves
  <2> QED
    BY <2>2, <2>3
<1>2. ASSUME NEW k \in Keys(idem)
      PROVE  OfPost(k)'
  <2>1. OfPost(k)
    BY DEF ReplayInv
  <2>2. \A d \in Posts : call[d].pc = "done" => call'[d] = call[d]
    BY DEF Moves, Calls
  <2> QED
    BY <2>1, <2>2 DEF OfPost
<1>3. ASSUME NEW x \in Calls
      PROVE  Repeats(x)'
  <2>1. Repeats(x) /\ prior' = prior /\ prior[x] \subseteq Calls
    BY DEF ReplayInv, CacheInv, Scalars, Calls
  <2>2. \A d \in Calls : call[d].pc = "done" => call'[d] = call[d]
    BY DEF Moves
  <2> QED
    BY <2>1, <2>2 DEF Repeats
<1> QED
  BY <1>1, <1>2, <1>3 DEF ReplayInv, Keys

\* A step that takes only expired answers out, and of no call.
LEMMA LiveReplays ==
  ASSUME CacheInv, ReplayInv, UNCHANGED <<call, prior>>, now' \in Int, now <= now',
         Shrinks(idem, idem'), KeepsLive(idem, idem', now)
  PROVE  ReplayInv'
<1>0. now \in Int /\ IdemTtl \in Int
  BY Lifetimes DEF CacheInv, Scalars
<1>1. ASSUME NEW d \in Posts
      PROVE  HasRow(d)'
  <2>1. HasRow(d) /\ call[d].keptUntil \in Int
    BY StateOf DEF ReplayInv, CacheInv, Calls, Spans
  <2>2. ASSUME now' < call[d].keptUntil, call[d].pc = "done"
        PROVE  /\ KeyOf[d] \in Keys(idem')
               /\ call[d].keptUntil <= idem'.entries[KeyOf[d]].expiresAt
    <3>1. /\ KeyOf[d] \in Keys(idem)
          /\ call[d].keptUntil <= idem.entries[KeyOf[d]].expiresAt
          /\ idem.entries[KeyOf[d]].expiresAt \in Int
      BY <1>0, <2>1, <2>2, TimedRows DEF HasRow, Alive, Timed
    <3> QED
      BY <1>0, <2>1, <2>2, <3>1 DEF KeepsLive, Shrinks
  <2> QED
    BY <1>0, <2>1, <2>2 DEF HasRow, Alive, Keys
<1>2. ASSUME NEW k \in Keys(idem')
      PROVE  OfPost(k)'
  <2>1. OfPost(k) /\ idem'.entries[k] = idem.entries[k] /\ idem.entries[k].expiresAt \in Int
    BY TimedRows DEF ReplayInv, Shrinks, Timed
  <2> QED
    BY <1>0, <2>1 DEF OfPost
<1>3. \A x \in Calls : Repeats(x)'
  BY DEF ReplayInv, Repeats
<1> QED
  BY <1>1, <1>2, <1>3 DEF ReplayInv, Keys

\* A request that arrives after an answer was kept finds it.
LEMMA FindKeyReplays ==
  ASSUME CacheInv, ReplayInv, NEW c \in Calls, NEW outcome \in StoreCalls, FindKey(c, outcome)
  PROVE  ReplayInv'
<1> DEFINE k == KeyOf[c]
           found == outcome = "ok" /\ Found(idem, k, now)
           p == IF found THEN "done" ELSE "lookup"
           a == IF found THEN idem.entries[k].value ELSE call[c].answer
<1>0. /\ now \in Int /\ IdemTtl \in Nat \ {0} /\ IsStore(idem) /\ c \in Posts
      /\ call[c].pc = "idle" /\ call[c].ran = 0 /\ UNCHANGED now
      /\ now \in Nat
  BY Lifetimes, PostKeys DEF CacheInv, Scalars, FindKey, CallPhase
<1>1. Moves(c, p, call[c].attempts, call[c].ran, a, call[c].keptUntil)
  BY FindKeyMoves
<1>2. Shrinks(idem, idem') /\ KeepsLive(idem, idem', now)
  BY <1>0, TimedRows, ReadShrinks DEF FindKey
<1>3. \A d \in Calls : call[d].pc = "done" => call'[d] = call[d]
  BY <1>0, <1>1 DEF Moves
<1>4. ASSUME NEW d \in Posts
      PROVE  HasRow(d)'
  <2>1. HasRow(d) /\ call[d].keptUntil \in Int /\ d \in Calls
    BY StateOf DEF ReplayInv, CacheInv, Calls, Spans
  <2>2. CASE d = c
    BY <1>0, <1>1, <2>1, <2>2 DEF HasRow, Alive, Moves
  <2>3. CASE d # c
    <3>1. call'[d] = call[d]
      BY <1>1, <2>1, <2>3 DEF Moves
    <3>2. Alive(d) => /\ KeyOf[d] \in Keys(idem)
                      /\ call[d].keptUntil <= idem.entries[KeyOf[d]].expiresAt
                      /\ idem.entries[KeyOf[d]].expiresAt \in Int
      BY <2>1, TimedRows DEF HasRow, Timed
    <3>3. Alive(d) => /\ KeyOf[d] \in Keys(idem')
                      /\ idem'.entries[KeyOf[d]] = idem.entries[KeyOf[d]]
      BY <1>0, <1>2, <2>1, <3>2 DEF Alive, KeepsLive, Shrinks
    <3> QED
      BY <1>0, <2>1, <3>1, <3>2, <3>3 DEF HasRow, Alive, Keys
  <2> QED
    BY <2>2, <2>3
<1>5. ASSUME NEW j \in Keys(idem')
      PROVE  OfPost(j)'
  <2>1. OfPost(j) /\ idem'.entries[j] = idem.entries[j]
    BY <1>2 DEF ReplayInv, Shrinks
  <2>2. \A d \in Posts : call[d].pc = "done" => call'[d] = call[d]
    BY <1>3 DEF Calls
  <2> QED
    BY <1>0, <2>1, <2>2 DEF OfPost
<1>6. /\ prior'[c] = IF outcome = "ok" THEN Kept(c) ELSE {}
      /\ \A x \in Calls \ {c} : prior'[x] = prior[x]
  BY DEF FindKey, CacheInv, Scalars
<1>7. Repeats(c)'
  <2>1. CASE prior'[c] = {}
    BY <2>1 DEF Repeats
  <2>2. CASE prior'[c] # {}
    <3>1. outcome = "ok" /\ prior'[c] = Kept(c)
      BY <1>6, <2>2
    <3>2. PICK d \in Kept(c) : d \in Posts /\ KeyOf[d] = k /\ Alive(d)
      BY <2>2, <3>1 DEF Kept, Alive
    <3>3. /\ k \in Keys(idem) /\ call[d].keptUntil <= idem.entries[k].expiresAt
          /\ call[d].keptUntil \in Int /\ idem.entries[k].expiresAt \in Int
          /\ now < call[d].keptUntil
      BY <3>2, StateOf, TimedRows DEF ReplayInv, HasRow, Alive, Timed, CacheInv, Calls, Spans
    <3>4. now < idem.entries[k].expiresAt
      BY <1>0, <3>3
    <3>5. found
      BY <1>0, <3>1, <3>3, <3>4 DEF Found, Expired
    <3>6. PICK e \in Posts : /\ KeyOf[e] = k /\ call[e].pc = "done"
                             /\ call[e].keptUntil = idem.entries[k].expiresAt
                             /\ call[e].answer = idem.entries[k].value
      BY <3>3, <3>4 DEF ReplayInv, OfPost
    <3>7. e \in Kept(c)
      BY <3>4, <3>6 DEF Kept
    <3>8. call'[c].pc = "done" /\ call'[c].ran = 0 /\ call'[c].answer = idem.entries[k].value
      BY <1>0, <1>1, <3>5 DEF Moves
    <3>9. \A x \in Kept(c) : call[x].pc = "done" /\ call'[x] = call[x]
      BY <1>3 DEF Kept, Calls
    <3> QED
      BY <3>1, <3>6, <3>7, <3>8, <3>9 DEF Repeats
  <2> QED
    BY <2>1, <2>2
<1>8. ASSUME NEW x \in Calls, x # c
      PROVE  Repeats(x)'
  <2>1. Repeats(x) /\ prior'[x] = prior[x] /\ prior[x] \subseteq Calls /\ call'[x] = call[x]
    BY <1>1, <1>6, <1>8 DEF ReplayInv, CacheInv, Scalars, Calls, Moves
  <2> QED
    BY <1>3, <2>1 DEF Repeats
<1> QED
  BY <1>4, <1>5, <1>7, <1>8 DEF ReplayInv, Keys
\* A kept answer lasts as long as the latest one under its key, and evicts no
\* other.
LEMMA KeepAnswerReplays ==
  ASSUME KeysFit, CacheInv, ReplayInv, NEW c \in Calls, NEW outcome \in StoreCalls,
         KeepAnswer(c, outcome)
  PROVE  ReplayInv'
<1> DEFINE k == KeyOf[c]
           a == call[c].answer
           t == IF outcome = "ok" THEN now + IdemTtl ELSE call[c].keptUntil
           row == [value |-> a, expiresAt |-> now + IdemTtl]
<1>0. /\ now \in Nat /\ IdemTtl \in Nat \ {0} /\ IsStore(idem)
      /\ c \in Posts /\ k \in KeysInUse
      /\ call[c].pc = "answered" /\ UNCHANGED <<now, prior>>
  BY Lifetimes, PostKeys DEF CacheInv, Scalars, KeepAnswer, history
<1>1. Moves(c, "done", call[c].attempts, call[c].ran, a, t)
  BY KeepMoves
<1>2. CASE outcome # "ok"
  <2>1. t = call[c].keptUntil /\ idem' = idem
    BY <1>2 DEF KeepAnswer
  <2> HIDE DEF t, a
  <2> QED
    BY <1>0, <1>1, <2>1, QuietReplays
<1>3. CASE outcome = "ok"
  <2>1. idem' = AfterSet(idem, k, a, IdemTtl, now, Cap)
    BY <1>3 DEF KeepAnswer, IdemLifetime
  <2>2. Puts(idem, idem', k, row)
        /\ (k \in Keys(idem) \/ Cardinality(Keys(idem)) < Cap => Keys(idem) \subseteq Keys(idem'))
    <3> HIDE DEF k, a
    <3> QED
      BY <1>0, <2>1, SetPuts
  <2>3. Keys(idem) \subseteq Keys(idem')
    BY <1>0, <2>2, RoomForKeys
  <2>4. /\ k \in Keys(idem') /\ idem'.entries[k].value = a
        /\ idem'.entries[k].expiresAt = now + IdemTtl
        /\ Keys(idem') \subseteq Keys(idem) \cup {k}
        /\ \A j \in Keys(idem') \ {k} : idem'.entries[j] = idem.entries[j]
    <3>1. row.value = a /\ row.expiresAt = now + IdemTtl
      OBVIOUS
    <3> HIDE DEF row
    <3> QED
      BY <2>2, <3>1 DEF Puts
  <2>5. /\ call'[c].pc = "done" /\ call'[c].answer = a /\ call'[c].keptUntil = now + IdemTtl
        /\ \A d \in Calls \ {c} : call'[d] = call[d]
        /\ \A d \in Calls : call[d].pc = "done" => call'[d] = call[d]
    BY <1>0, <1>1, <1>3 DEF Moves
  <2> HIDE DEF a, k, t, row
  <2>6. ASSUME NEW d \in Posts
        PROVE  HasRow(d)'
    <3>1. HasRow(d) /\ call[d].keptUntil \in Int /\ d \in Calls
      BY StateOf DEF ReplayInv, CacheInv, Calls, Spans
    <3>2. CASE d = c
      BY <1>0, <2>4, <2>5, <3>2 DEF HasRow, Alive, Keys, k
    <3>3. CASE d # c
      <4>1. call'[d] = call[d]
        BY <2>5, <3>1, <3>3
      <4>2. ASSUME Alive(d)
            PROVE  /\ KeyOf[d] \in Keys(idem')
                   /\ call[d].keptUntil <= idem'.entries[KeyOf[d]].expiresAt
        <5>1. /\ KeyOf[d] \in Keys(idem)
              /\ call[d].keptUntil <= idem.entries[KeyOf[d]].expiresAt
              /\ call[d].keptUntil <= now + IdemTtl
          BY <3>1, <4>2 DEF HasRow
        <5>2. CASE KeyOf[d] = k
          BY <2>4, <5>1, <5>2
        <5>3. CASE KeyOf[d] # k
          BY <2>3, <2>4, <5>1, <5>3
        <5> QED
          BY <5>2, <5>3
      <4> QED
        BY <1>0, <3>1, <4>1, <4>2 DEF HasRow, Alive, Keys
    <3> QED
      BY <3>2, <3>3
  <2>7. ASSUME NEW j \in Keys(idem')
        PROVE  OfPost(j)'
    <3>1. CASE j = k
      BY <1>0, <2>4, <2>5, <3>1 DEF OfPost, k
    <3>2. CASE j # k
      <4>1. OfPost(j) /\ idem'.entries[j] = idem.entries[j]
        BY <2>4, <3>2 DEF ReplayInv
      <4>2. \A d \in Posts : call[d].pc = "done" => call'[d] = call[d]
        BY <2>5 DEF Calls
      <4> QED
        BY <1>0, <4>1, <4>2 DEF OfPost
    <3> QED
      BY <3>1, <3>2
  <2>8. ASSUME NEW x \in Calls
        PROVE  Repeats(x)'
    <3>1. Repeats(x) /\ prior' = prior /\ prior[x] \subseteq Calls
      BY <1>0 DEF ReplayInv, CacheInv, Scalars, Calls
    <3> QED
      BY <2>5, <3>1 DEF Repeats
  <2> QED
    BY <2>6, <2>7, <2>8 DEF ReplayInv, Keys
<1> QED
  BY <1>2, <1>3

\* A restart keeps the answers together with their rows, or drops both.
LEMMA RestartReplays ==
  ASSUME CacheInv, ReplayInv, Restart
  PROVE  ReplayInv'
<1>0. /\ now \in Nat /\ IdemTtl \in Nat \ {0} /\ UNCHANGED <<now, prior>>
      /\ backend \in {"memory", "postgres"}
  <2>1. UNCHANGED <<now, prior>>
    BY DEF Restart, history
  <2>2. now \in Nat /\ backend \in {"memory", "postgres"}
    BY Lifetimes DEF CacheInv, Scalars
  <2> QED
    BY <2>1, <2>2, Lifetimes
<1>1. ASSUME NEW d \in Calls
      PROVE  /\ call'[d].ran = call[d].ran
             /\ call[d].pc = "done" =>
                  /\ call'[d].pc = "done" /\ call'[d].answer = call[d].answer
                  /\ call'[d].keptUntil = IF backend = "memory" THEN 0 ELSE call[d].keptUntil
             /\ call[d].pc = "idle" =>
                  /\ call'[d].pc = "idle"
                  /\ call'[d].keptUntil = IF backend = "memory" THEN 0 ELSE call[d].keptUntil
             /\ call[d].pc \notin {"idle", "done"} => call'[d].pc = "lost" /\ call'[d].keptUntil = 0
  BY RestartMoves
<1>2. ASSUME NEW x \in Calls
      PROVE  Repeats(x)'
  <2>1. Repeats(x) /\ prior' = prior /\ prior[x] \subseteq Calls
    BY <1>0 DEF ReplayInv, CacheInv, Scalars, Calls
  <2> QED
    BY <1>1, <2>1 DEF Repeats
<1>3. CASE backend = "memory"
  <2>1. idem' = EmptyStore /\ Keys(EmptyStore) = {}
    <3>1. idem' = EmptyStore
      BY <1>3 DEF Restart
    <3>2. Keys(EmptyStore) = {}
      BY DEF EmptyStore, Keys
    <3> QED
      BY <3>1, <3>2
  <2>2. ASSUME NEW d \in Posts
        PROVE  HasRow(d)'
    <3>1. call'[d].keptUntil = 0
      BY <1>1, <1>3 DEF Calls
    <3> QED
      BY <1>0, <3>1 DEF HasRow, Alive
  <2> QED
    BY <1>2, <2>1, <2>2 DEF ReplayInv, Keys
<1>4. CASE backend = "postgres"
  <2>1. idem' = idem
    BY <1>4 DEF Restart, stores
  <2>2. ASSUME NEW d \in Posts
        PROVE  HasRow(d)'
    <3>1. HasRow(d) /\ d \in Calls /\ call[d].keptUntil \in Int
      BY StateOf DEF ReplayInv, CacheInv, Calls, Spans
    <3>2. CASE call[d].pc = "done"
      <4>1. call'[d].pc = "done" /\ call'[d].keptUntil = call[d].keptUntil
        BY <1>1, <1>4, <3>1, <3>2
      <4> QED
        BY <1>0, <2>1, <3>1, <3>2, <4>1 DEF HasRow, Alive, Keys
    <3>3. CASE call[d].pc # "done"
      <4>1. call'[d].pc # "done" /\ call'[d].keptUntil = 0
        BY <1>1, <1>4, <3>1, <3>3 DEF HasRow
      <4> QED
        BY <1>0, <4>1 DEF HasRow, Alive
    <3> QED
      BY <3>2, <3>3
  <2>3. ASSUME NEW k \in Keys(idem)
        PROVE  OfPost(k)'
    <3>1. OfPost(k)
      BY DEF ReplayInv
    <3>2. \A d \in Posts : call[d].pc = "done" =>
            /\ call'[d].pc = "done" /\ call'[d].answer = call[d].answer
            /\ call'[d].keptUntil = call[d].keptUntil
      BY <1>1, <1>4 DEF Calls
    <3> QED
      BY <1>0, <2>1, <3>1, <3>2 DEF OfPost
  <2> QED
    BY <1>2, <2>1, <2>2, <2>3 DEF ReplayInv, Keys
<1> QED
  BY <1>0, <1>3, <1>4

\* Initially no answer is kept.
LEMMA InitReplays == Init => ReplayInv
<1> SUFFICES ASSUME Init
             PROVE  ReplayInv
  OBVIOUS
<1>1. /\ \A c \in Calls : call[c].pc = "idle" /\ call[c].keptUntil = 0 /\ prior[c] = {}
      /\ Keys(idem) = {} /\ now = 0 /\ IdemTtl \in Nat
  BY Lifetimes DEF Init, Fresh, EmptyStore, Keys
<1> QED
  BY <1>1 DEF ReplayInv, HasRow, Alive, Repeats, Calls

\* Every step keeps ReplayInv, one step of the proof per action.
LEMMA NextReplays == KeysFit /\ CacheInv /\ ReplayInv /\ [Next]_vars => ReplayInv'
<1> SUFFICES ASSUME KeysFit, CacheInv, ReplayInv, [Next]_vars
             PROVE  ReplayInv'
  OBVIOUS
<1>0. now \in Int /\ Scalars
  BY DEF CacheInv, Scalars
<1>1. ASSUME NEW c \in Calls, NEW outcome \in StoreCalls, FindKey(c, outcome)
      PROVE  ReplayInv'
  BY <1>1, FindKeyReplays
<1>2. ASSUME NEW c \in Calls, NEW outcome \in StoreCalls, Lookup(c, outcome)
      PROVE  ReplayInv'
  <2>1. call[c].pc # "done" /\ UNCHANGED <<now, idem, prior>>
    BY <1>2 DEF Lookup, history
  <2> QED
    BY <1>2, <2>1, LookupMoves, QuietReplays
<1>3. ASSUME NEW c \in Calls, NEW outcome \in StoreCalls, StoreResult(c, outcome)
      PROVE  ReplayInv'
  <2>1. call[c].pc # "done" /\ UNCHANGED <<now, idem, prior>>
    BY <1>3 DEF StoreResult
  <2>2. call' = [call EXCEPT ![c].pc = "answered"] /\ "answered" \in Places
    BY <1>3 DEF StoreResult, Places
  <2> QED
    BY <1>0, <2>1, <2>2, PlaceMoves, QuietReplays
<1>4. ASSUME NEW c \in Calls, NEW outcome \in StoreCalls, KeepAnswer(c, outcome)
      PROVE  ReplayInv'
  BY <1>4, KeepAnswerReplays
<1>5. ASSUME NEW c \in Calls, NEW verdict \in Verdicts,
             Verify(c, verdict)
      PROVE  ReplayInv'
  <2>1. call[c].pc # "done" /\ UNCHANGED <<now, idem, prior>>
    BY <1>5 DEF Verify, stores, history
  <2> QED
    BY <1>5, <2>1, VerifyMoves, QuietReplays
<1>6. ASSUME NEW c \in Calls, StartPlain(c) \/ TryAgain(c)
      PROVE  ReplayInv'
  <2>1. call[c].pc # "done" /\ UNCHANGED <<now, idem, prior>>
    BY <1>6 DEF StartPlain, TryAgain, stores, history
  <2>2. call' = [call EXCEPT ![c].pc = "lookup"] /\ "lookup" \in Places
    BY <1>6 DEF StartPlain, TryAgain, Places
  <2> QED
    BY <1>0, <2>1, <2>2, PlaceMoves, QuietReplays
<1>7. ASSUME NEW c \in Calls, Respond(c)
      PROVE  ReplayInv'
  <2>1. call[c].pc # "done" /\ UNCHANGED <<now, idem, prior>>
    BY <1>7 DEF Respond, stores, history
  <2> QED
    BY <1>7, <2>1, RespondMoves, QuietReplays
<1>8. CASE Tick \/ UNCHANGED vars \/ \E x \in Addresses : Erase(x)
  <2>1. /\ UNCHANGED <<call, prior, idem>> /\ now' \in Int /\ now <= now'
    BY <1>0, <1>8 DEF Tick, Erase, vars, stores, history
  <2>2. Shrinks(idem, idem') /\ KeepsLive(idem, idem', now)
    BY <2>1, SameStores DEF KeepsLive
  <2> QED
    BY <2>1, <2>2, LiveReplays
<1>9. CASE Sweep
  <2>1. /\ UNCHANGED <<call, prior>> /\ now' \in Int /\ now <= now'
        /\ IsStore(idem) /\ idem' = AfterPurge(idem, now)
    BY <1>0, <1>9 DEF Sweep, history, CacheInv
  <2>2. Shrinks(idem, idem') /\ KeepsLive(idem, idem', now)
    BY <1>0, <2>1, TimedRows, PurgeShrinks
  <2> QED
    BY <2>1, <2>2, LiveReplays
<1>10. CASE Restart
  BY <1>10, RestartReplays
<1> QED
  BY <1>1, <1>2, <1>3, <1>4, <1>5, <1>6, <1>7, <1>8, <1>9, <1>10 DEF Next

\* A request that arrives after an answer under its key was kept repeats one and
\* is not verified again, when the store has room for the keys in use: the
\* in-memory store may evict the answer of a key to make room for another.
THEOREM Replay == KeysFit => (Spec => []ReplayRepeats)
<1> SUFFICES ASSUME KeysFit
             PROVE  Spec => []ReplayRepeats
  OBVIOUS
<1>1. CacheInv /\ ReplayInv /\ [Next]_vars => ReplayInv'
  BY NextReplays
<1>2. ReplayInv => ReplayRepeats
  BY DEF ReplayInv, Repeats, ReplayRepeats, Calls
<1> QED
  BY <1>1, <1>2, InitReplays, Invariance, PTL DEF Spec
=============================================================================
