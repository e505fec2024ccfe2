------------------------------- MODULE Gateway -------------------------------
(***************************************************************************)
(* A request on its way through the router of cmd/apiserver: panic         *)
(* recovery, authentication, rate limit, daily quota, and the handler, a   *)
(* single verification or a synchronous batch with its worker pool.        *)
(* Requests run concurrently; each Allow of the limiter and of the quota   *)
(* is one critical section, and between them others take their turn and    *)
(* the day may end.  The wall clock never goes back.                       *)
(***************************************************************************)
EXTENDS RateLimit, Quota, Sequences, FiniteSets

CONSTANTS
    Requests,
    ClientOf,     \* ClientOf[r]: whom clientKey names
    Emails,       \* Emails[r]: how many emails a batch has, 0: a single verification
    BatchMax,     \* SYNCORE_VERIFIER_BATCH_MAX_ITEMS
    Concurrency,  \* SYNCORE_VERIFIER_BATCH_CONCURRENCY
    DayLength,    \* ticks of a day
    MaxTime       \* bound on the clock

ASSUME GatewayAssumption ==
    /\ ClientOf \in [Requests -> Clients]
    /\ Emails \in [Requests -> Nat]
    /\ {BatchMax, Concurrency, DayLength} \subseteq Nat \ {0}
    /\ MaxTime \in Nat

VARIABLES
    now,
    buckets,    \* the buckets of the limiter
    quota,      \* the counters of the quota
    pc,         \* pc[r]: the middleware or handler request r is in
    status,     \* status[r]: the HTTP status of its answer, 0 before
    fed,        \* fed[r]: emails handed to the workers
    busy,       \* busy[r]: emails that workers verify
    results,    \* results[r][i]: the result of the i-th email
    passed,     \* history: the requests the limiter let pass, and when
    entered,    \* history: the requests that reached a handler behind the quota,
                \* and on what day
    verdicts    \* history: verdicts[r][i]: how the verification of email i ended

limits  == <<buckets, quota>>
pool    == <<fed, busy, results, verdicts>>
vars == <<now, limits, pc, status, pool, passed, entered>>

Places(r) == 1..Emails[r]
Verdicts == {"verified", "fault"}

TypeOK ==
    /\ now \in 0..MaxTime
    /\ DOMAIN buckets \subseteq Clients
    /\ \A c \in DOMAIN buckets : buckets[c] \in [tokens: 0..Full, lastFill: 0..now]
    /\ quota \in [day: -1..MaxTime, counts: [Clients -> 0..DailyLimit]]
    /\ pc \in [Requests -> {"new", "limiter", "quota", "handler", "answered"}]
    /\ status \in [Requests -> {0, 200, 400, 401, 429, 500}]
    /\ fed \in [Requests -> Nat] /\ busy \in [Requests -> SUBSET Nat]
    /\ {DOMAIN results, DOMAIN verdicts} \subseteq {Requests}
    /\ \A r \in Requests :
         /\ fed[r] \in 0..Emails[r]
         /\ busy[r] \subseteq Places(r)
         /\ {results[r], verdicts[r]} \subseteq [Places(r) -> Verdicts \cup {"none"}]

Init ==
    /\ now = 0
    /\ buckets = NoBuckets
    /\ quota = NewQuota
    /\ pc = [r \in Requests |-> "new"]
    /\ status = [r \in Requests |-> 0]
    /\ fed = [r \in Requests |-> 0]
    /\ busy = [r \in Requests |-> {}]
    /\ results = [r \in Requests |-> [i \in Places(r) |-> "none"]]
    /\ passed = {}
    /\ entered = {}
    /\ verdicts = [r \in Requests |-> [i \in Places(r) |-> "none"]]

Day == now \div DayLength

Answer(r, code) ==
    /\ pc' = [pc EXCEPT ![r] = "answered"]
    /\ status' = [status EXCEPT ![r] = code]

Proceed(r, place) ==
    /\ pc' = [pc EXCEPT ![r] = place]
    /\ UNCHANGED status

-----------------------------------------------------------------------------
(***************************************************************************)
(* The middleware.  The probes /health and /ready pass all of it and touch *)
(* nothing, so they are left out.                                          *)
(***************************************************************************)
Authenticate(r, credential) ==
    /\ pc[r] = "new"
    /\ IF credential = "valid" THEN Proceed(r, "limiter") ELSE Answer(r, 401)
    /\ UNCHANGED <<now, limits, pool, passed, entered>>

TakeToken(r) ==
    LET c == ClientOf[r] IN
    /\ pc[r] = "limiter"
    /\ buckets' = AfterAllow(buckets, c, now)
    /\ IF Admits(buckets, c, now)
       THEN Proceed(r, "quota") /\ passed' = passed \cup {[req |-> r, at |-> now]}
       ELSE Answer(r, 429) /\ UNCHANGED passed
    /\ UNCHANGED <<now, quota, pool, entered>>

TakeUnit(r) ==
    LET c == ClientOf[r] IN
    /\ pc[r] = "quota"
    /\ quota' = AfterCall(quota, c, Day)
    /\ IF HasUnit(quota, c, Day)
       THEN Proceed(r, "handler") /\ entered' = entered \cup {[req |-> r, day |-> Day]}
       ELSE Answer(r, 429) /\ UNCHANGED entered
    /\ UNCHANGED <<now, buckets, pool, passed>>

-----------------------------------------------------------------------------
(***************************************************************************)
(* The handlers.                                                           *)
(***************************************************************************)

\* A single verification; recoverMiddleware turns a panic into a 500.
VerifyOne(r, verdict) ==
    /\ pc[r] = "handler"
    /\ Emails[r] = 0
    /\ Answer(r, IF verdict = "fault" THEN 500 ELSE 200)
    /\ UNCHANGED <<now, limits, pool, passed, entered>>

RefuseBatch(r) ==
    /\ pc[r] = "handler"
    /\ Emails[r] > BatchMax
    /\ Answer(r, 400)
    /\ UNCHANGED <<now, limits, pool, passed, entered>>

\* verifyBatch: never more workers than emails.
Pool(r) == AtMost(Concurrency, Emails[r])

\* An idle worker takes the next email from the unbuffered channel.
Hand(r) ==
    /\ pc[r] = "handler"
    /\ Emails[r] <= BatchMax
    /\ fed[r] < Emails[r]
    /\ Cardinality(busy[r]) < Pool(r)
    /\ fed' = [fed EXCEPT ![r] = @ + 1]
    /\ busy' = [busy EXCEPT ![r] = @ \cup {fed[r] + 1}]
    /\ UNCHANGED <<now, limits, pc, status, results, verdicts, passed, entered>>

\* Bug: the worker writes where the feeder stands by now.
Slot_ofFeeder(r, i) == fed[r]

\* Each email has its own place in the results.
Slot(r, i) == i

\* verifyItem: a panic becomes a result of its own, and the worker goes on.
VerifyItem(r, i, verdict) ==
    /\ i \in busy[r]
    /\ verdicts' = [verdicts EXCEPT ![r][i] = verdict]
    /\ results' = [results EXCEPT ![r][Slot(r, i)] = verdict]
    /\ busy' = [busy EXCEPT ![r] = @ \ {i}]
    /\ UNCHANGED <<now, limits, pc, status, fed, passed, entered>>

\* The channel is closed after the last email, the idle workers leave, and
\* wg.Wait returns.
RespondBatch(r) ==
    /\ pc[r] = "handler"
    /\ Emails[r] \in 1..BatchMax
    /\ fed[r] = Emails[r]
    /\ busy[r] = {}
    /\ Answer(r, 200)
    /\ UNCHANGED <<now, limits, pool, passed, entered>>

Tick ==
    /\ now < MaxTime
    /\ now' = now + 1
    /\ UNCHANGED <<limits, pc, status, pool, passed, entered>>

\* All requests are answered and the clock has run out.
Finished ==
    /\ now = MaxTime
    /\ \A r \in Requests : pc[r] = "answered"
    /\ UNCHANGED vars

Next ==
    \/ \E r \in Requests, credential \in {"valid", "invalid"} : Authenticate(r, credential)
    \/ \E r \in Requests : TakeToken(r) \/ TakeUnit(r)
    \/ \E r \in Requests, verdict \in Verdicts : VerifyOne(r, verdict)
    \/ \E r \in Requests : RefuseBatch(r) \/ Hand(r) \/ RespondBatch(r)
    \/ \E r \in Requests : \E i \in Places(r), verdict \in Verdicts : VerifyItem(r, i, verdict)
    \/ Tick
    \/ Finished

Spec == Init /\ [][Next]_vars
-----------------------------------------------------------------------------
(***************************************************************************)
(* Properties.                                                             *)
(***************************************************************************)
PassedSince(c, t) == {p \in passed : ClientOf[p.req] = c /\ p.at >= t}
EnteredOn(c, day) == {e \in entered : ClientOf[e.req] = c /\ e.day = day}

\* Whatever the order in which requests of a client reach the limiter, no
\* stretch of time sees more of them pass than a full bucket and what flowed
\* into it meanwhile; and a bucket is never emptier than the passes of the time
\* it takes to fill account for, so nobody is refused for what long has passed.
RateBounded ==
    \A c \in Clients :
        /\ \A t \in 0..now :
             Cardinality(PassedSince(c, t)) * Refill <= Full + now - t
        /\ Level(buckets, c, now) >= Full - Cardinality(PassedSince(c, now - Full)) * Refill

\* A client reaches the handlers at most DailyLimit times a day, and is charged
\* for exactly that: not for requests that were refused, by authentication, by
\* the limiter or by the quota itself, nor for those of the day before.
QuotaHonest ==
    \A c \in Clients :
        /\ \A d \in 0..Day : Cardinality(EnteredOn(c, d)) <= DailyLimit
        /\ quota.day >= 0 => quota.counts[c] = Cardinality(EnteredOn(c, quota.day))

\* "A single bad or faulty item never fails the whole batch - results are
\* returned one-per-input, in order" (handlers.go:255): an answered batch has
\* at each place how the verification of that very email ended, and a batch
\* within the limit is always answered so, never with a 500.
BatchWhole ==
    \A r \in Requests :
        /\ Cardinality(busy[r]) <= Concurrency
        /\ pc[r] = "answered" /\ status[r] = 200 =>
             \A i \in Places(r) : results[r][i] = verdicts[r][i] /\ results[r][i] # "none"
        /\ pc[r] = "answered" /\ Emails[r] \in 1..BatchMax => status[r] \in {200, 401, 429}

\* The parts of the inductive invariant that are not properties of their own:
\* where a request stands that the limiter or the quota let pass, how full a
\* bucket is for what passed since t, and how far a batch has come.
HistoryPhase ==
    /\ IsFiniteSet(passed) /\ IsFiniteSet(entered)
    /\ quota.day <= Day
    /\ \A p \in passed :
         /\ p.req \in Requests /\ p.at \in 0..now
         /\ pc[p.req] \in {"quota", "handler", "answered"}
    /\ \A e \in entered :
         /\ e.req \in Requests /\ e.day \in 0..quota.day
         /\ pc[e.req] \in {"handler", "answered"}

BucketPhase ==
    \A c \in Clients : \A t \in (-Full)..now :
        LET spent == Cardinality(PassedSince(c, t)) * Refill IN
        /\ spent + Level(buckets, c, now) <= Full + now - t
        /\ Level(buckets, c, now) >= AtMost(now - t, Full) - spent

PoolPhase ==
    \A r \in Requests :
        /\ results[r] = verdicts[r]
        /\ busy[r] \subseteq 1..fed[r] /\ IsFiniteSet(busy[r])
        /\ Cardinality(busy[r]) <= Concurrency
        /\ \A i \in (1..fed[r]) \ busy[r] : results[r][i] # "none"
        /\ pc[r] = "answered" /\ status[r] = 200 => fed[r] = Emails[r] /\ busy[r] = {}
        /\ pc[r] = "answered" /\ Emails[r] \in 1..BatchMax => status[r] \in {200, 401, 429}

GatewayInv == TypeOK /\ HistoryPhase /\ BucketPhase /\ PoolPhase /\ QuotaHonest
=============================================================================
