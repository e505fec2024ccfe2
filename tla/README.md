# Verification of the Syncore email verifier

TLA+ modules that model the verifier of this repository, TLC configurations
that check them on small instances, and theorems with proofs the TLA+ proof
system checks: about the batch manager, the server process around it, the
verification pipeline, the in-memory store and the caching of results in it, the
dialling of mail hosts, the middleware with the synchronous batch, the disposable-domain refresh and the
feedback loop. Paths are relative to `src/`.

## 1. The system

A Go server (`cmd/apiserver`) answers whether an email address can be
delivered to. It wraps a library at the root of the repository (DNS and SMTP
probing) in a classifier, caches, batch processing and the usual middleware.

| Component | State | Operations | Talks to | What makes it correct |
|---|---|---|---|---|
| Async batch manager `internal/jobs/manager.go` | batch map, queue channel (1024), workers, `stopped` | `Submit`, `worker`, `process`, `verifyWithRetry`, `Get`, `Results`, `Stop` | verifier, webhook | no accepted batch lost or run twice; results appear whole and stay; bounded concurrency; the drain ends and cuts nothing off |
| Webhook `internal/jobs/webhook.go` | none | `Send`, with retries | receiver | told only of finished batches, a bounded number of times |
| Async endpoints `cmd/apiserver/async_batch.go` | none | submit, status, pages of results | manager | a 202 is a promise; pages tile the results |
| Server process `cmd/apiserver/main.go` | where `main` stands | signal, `Shutdown`, deferred `Stop` and closing of the stores | HTTP server, manager, stores | a graceful exit loses nothing; the stores close last; the shutdown ends |
| In-memory store `internal/store/store.go` | map and insertion list, one mutex | `Get`, `Set`, `Delete`, `PurgeExpired` | cache, idempotency, MX cache | list and map agree; the cap holds; a lifetime is kept |
| Postgres store `internal/store/postgres.go` | rows | the same | the database | durable, may fail |
| Caching verifier `internal/verification/cache.go` | the result cache | `Verify` | store, service | a hit is fresh for its kind |
| Single endpoints `cmd/apiserver/handlers.go` | idempotency store | GET, POST | caching verifier | a repeated key repeats its answer |
| Erasure and retention `admin.go`, `main.go` | none | `handleErasure`, `runPurger` | stores | an erased address is gone from the cache |
| MX dialling `smtp.go` | goroutines and one channel per check | `newSMTPClient`, `drainMXResults` | mail servers | first connection wins, nothing leaks |
| Mail hosts `mx.go` | none | `resolveMailHosts` | DNS | an outage is no verdict |
| SMTP dialogue `smtp.go`, `error.go` | the connection | `CheckSMTP`, `ParseSMTPError`, `classifyRecipientReply` | mail servers | a verdict rests on a reply about the very recipient |
| Verification service `internal/verification/service.go` | MX cache, histories | `Verify` | all of the above | valid and invalid are proven, the rest is retried |
| Classifier, scores `internal/classify`, `domain_health.go` | none | `Classify`, adjusters | service | precedence; caps hold after all adjusters |
| Sync batch `handlers.go` | a worker pool per request | `verifyBatch`, `verifyItem` | caching verifier | one result per email, in its place |
| Middleware `server.go`, `internal/ratelimit`, `internal/quota` | buckets, counters | `Allow` | every request | limits hold exactly |
| Feedback `internal/feedback`, `cmd/apiserver/feedback*.go` | tallies per domain | adapters, `Record`, `Domain` | scores | an outcome moves the scores its own way |
| Disposable refresh `handler.go`, `schedule.go`, `verifier.go` | a `sync.Map`, a plain map, a schedule per verifier | refresh, `AddDisposableDomains`, enable, disable | HTTP source | nothing that must be listed goes missing for good; one schedule; calls return |
| Library `verifier.go` | none | `Verify` | the same checks as the service | never contradicts the service |
| Suppression `internal/suppression` | a set read at start | `Contains` | service | asked before any network check, but behind the stores |
| Configuration, metrics, console, parsing, tables, Yahoo API, Gravatar and DNSBL lookups, build tools | | | | pure, external or start-up only; not modelled |

How they interact: a request passes recovery, authentication, rate limit and
quota and reaches a handler. All verification goes through one
`VerificationService`, the caching verifier when a cache TTL is set. `Service.Verify`
shares the MX cache between concurrent verifications and calls `CheckSMTP`,
which resolves the hosts a second time and dials up to five of them at once.
The batch manager calls the same service from its item goroutines and the
webhook from its workers. The result cache and the idempotency keys live in
two in-memory stores or in one Postgres table. `main` shuts the HTTP server down
with a deadline of 20 seconds, then its deferred calls stop the manager and close
the stores. Providers notify the feedback endpoints, whose tallies the service
reads when it scores. The disposable domains are one global set which each
verifier may refresh daily; the server enables that when configured
(`main.go:296`).

What is hard: a send on a channel outside the lock that guards its close
(`manager.go:145-153`), goroutines that outlive the caller that started them
(`smtp.go:175-205`), lookup and write of a cache with a verification in
between, a retry loop on top of a cache, lifetimes at their last instant,
erasure during a verification, restart, a webhook answered too late, two DNS
lookups that disagree, six score adjusters in a row, a shutdown whose deadline
passes with handlers still inside `Submit`, a refresh without a lock, a schedule
stopped in the middle of its job, notifications that arrive twice or never. `PROJECT.json` lists each
hazard at its line with the properties that cover it.

## 2. Modules

| Module | Models | State and actions |
|---|---|---|
| `JobsManager` | manager, webhook, submit endpoint | `submit[b]` is the call of `Submit` for `b`: `Register` (critical section), `Enqueue` or `SendPanics` (the send), `SubmitReturns`. `pc[w]` is the worker's place: `Receive`, `StartBatch`, `Launch`, `Publish`, `Post`, `Exit`. `item[b][i]` is a goroutine: `Verified`, `Retry`. `CloseQueue` and `StopReturns` are `Stop`. |
| `BatchService` | what the batch endpoints promise | abstract: appear, accept, begin, finish, notify, close, end of drain |
| `Server` | `main`, the submit, status and results endpoints, a paging client; EXTENDS `JobsManager` | `main` is where the process stands: `Signal`, `ShutdownReturns` or `ShutdownTimesOut`, `StopManager` (the manager's `CloseQueue` and `StopReturns`), `ExitProcess`, `Kill`; `request[b]`: `Arrive`, `Refuse`, `HandleSubmit`, `Respond`; `reader`: `Poll`, `ReadPage` with int addition |
| `Store` | in-memory store as operators | `AfterGet`, `AfterSet`, `AfterDelete`, `AfterPurge` on `[entries, order]`; `Rebuilt` is the loop in which a sweep rebuilds the order |
| `MemoryStore` | one store under concurrent calls | one action per method, as each holds the mutex throughout |
| `TtlMap` | what a store promises | abstract map with expiry instants |
| `ResultCache` | caching verifier, idempotency, suppression list, erasure, sweep, restart | each store call and the verification are steps: `FindKey`, `Lookup`, `Verify`, `StoreResult`, `KeepAnswer`, `TryAgain`, `Respond`; `Erase`, `Sweep`, `Restart`, `Tick` |
| `Classify` | replies, ladder, reason table, scores, the library's `Reachable` | pure operators |
| `Pipeline` | `Service.Verify`, `resolveMailHosts`, `CheckSMTP` | `check[c].pc` follows a verification: `Parse`, `FindMx`, `LookupMx`, `LookupIp`, `PutMx`, `Connect`, `Introduce`, `Probe`, `Rcpt`, `Assess`; `Fail` is each early return |
| `MxDial` | `newSMTPClient`, `dialSMTP`, `drainMXResults` | a goroutine per host, the channel, the caller, the drainer |
| `RateLimit`, `Quota` | the two counters | pure operators |
| `Gateway` | middleware and synchronous batch | `pc[r]` is the middleware a request is in; `Hand`, `VerifyItem`, `RespondBatch` are the worker pool |
| `Disposable` | the refresh, `AddDisposableDomains`, the schedule | `listed` and `additional` are the two maps; `refresh[v][t]` follows `updateDisposableDomains` in the caller (thread 0) or the goroutine of a schedule: `Fetch`, `Visit`, `Put`, `Restore`, each a single map operation; `caller[v]`: `StopBegins`, `StopReceived`, `StartSchedule`, `AddWrites`, `AddStores`; `RaceCrash` is Go's abort on a concurrent use of the plain map |
| `Feedback` | two providers (SES, Smartlead), their adapters, feedback store, and the scores of `Classify` | `Send`, `Settle`, `Return` (a bounce after a delivery), `Delay` (a transient bounce), `React`, `Lose` are the provider; `Receive` is a handler taking a notification (again, if it is repeated), `Record` one event of it; `Restart` empties the store |
| `*_proofs` | | theorems about the module of that name; `Server_proofs` holds those about `JobsManager` too |
| `MC*` | | instances for TLC |

A lock is not a variable: a critical section is a step. Data is cut down to
what the properties tell apart: an assessment is a verdict and the
verification that made it, a reply is a code and the phrase the code looks
for, an address is a model value. An operator with a suffix and a comment
`Bug:` is a plausible mistake of the operator below it; substituting it must
break the property that `PROJECT.json` names, which shows that the property
says something about that line.

## 3. Runs

| Run | Instance | Shows |
|---|---|---|
| `jobs_safety` | 3 batches of 3, 1, 1 emails, 2 workers, queue of 1, 2 tokens, 1 retry, 1 webhook retry | custody, whole results, retries, drain, and that the manager implements `BatchService` |
| `server` | 2 batches of 2 and 1 emails, 1 worker, queue of 1, page limits 0, 1 and 3, default 2, `int` up to 3 | graceful exits lose nothing, stores close last, pages tile the results at the overflow of `offset+limit`; accepted batches finish, requests and the shutdown end |
| `memory_store` | 3 keys, 2 values, cap 2, lifetimes 0, 1 and 3, clock to 4 | list and map agree, only the oldest is evicted, implements `TtlMap` |
| `result_cache` | 2 posts for two addresses under one key, 1 item of another spelling of the first with 1 retry, cap 1, both backends, 2 do-not-verify lists, 1 restart, clock to 2 | freshness, replay, erasure, how far the do-not-verify list reaches |
| `list_restart` | as above | **violated**: a listed address is `suppressed` (4.3) |
| `mx_dial` | 3 hosts | none lost, unanimous failure, no leak |
| `pipeline` | 2 verifications (one of a role account), 12 replies, 2 histories | proof of valid and invalid, retry of transients, agreement with the library, score caps |
| `pipeline_dns`, `pipeline_panic` | as above | **violated** (4.1, 4.2) |
| `gateway` | 3 requests of one client, 1 of another, 2 tokens, 2 units, one midnight | limits hold exactly, batches are answered whole, nothing hangs |
| `disposable` | 2 verifiers with 3 and 1 calls, a built-in and an additional domain, a list without and one with the latter | what is in every list is always found, additions come back, one schedule each, calls end |
| `feedback` | a SES mail to 2 recipients of a domain and a Smartlead mail to one of them, one transient bounce of each for that one, reactions to the Smartlead mail, 2 handlers, 2 notifications on the wire, 1 fault, scores 35 and 95 | outcomes move scores their own way, histories are fair |

Why the bounds suffice. A queue of one is full with one batch, so three
submissions block, race with the close and wait behind a worker. Three emails
with two tokens make the worker wait for a token and let goroutines finish in
any order. One retry reaches both sides of `attempts <= RetryMax`. A cap of one
or two reaches eviction with each `Set`. The clock passes each lifetime's last
instant. Three hosts give a winner, a late connection and a failure in every
order. Two verifications suffice for the MX cache, which holds one entry per
domain. The twelve replies hit each row of the reply tables that leads to a
different recipient verdict, the two histories lift a score and cap it. In
`server` a second batch fills the queue of one behind a first, so that a handler
blocks in its send when the shutdown's deadline passes, and an offset of 1 with a
limit of 3 overflows an `int` of at most 3. In `disposable` three calls enable,
stop or enable again and add, beside a refresh of the other verifier; a schedule
ticks at any time. In `feedback` three recipients give up to six delivery samples
of one domain (each send counts as one), so that the lift at five samples and
both caps are crossed; one fault is a loss, a repetition or a restart. Smartlead
reports no complaints, so that a recorded complaint is left to the proof. Bounds
that are not constants of the code: `MaxTime`, `MaxRestarts`, `MaxCalls`,
`MaxFaults`, `MaxDelays` (transient bounces of a mail for a recipient), `MaxWire`
(notifications on their way at the same time), `Noticed` (mails that recipients
react to), `Scores` and `CatchAlls` (what the history is applied to; the code asks
only whether a catch-all is confirmed) and `Lists` (what a process may be started
with, or a refresh may fetch).
Symmetry is used for interchangeable workers and requests, in runs with
invariants and action properties only.

Deadlock is checked except in the cache, pipeline and feedback runs, where the
bounds on calls, faults and the clock end the instance; the others name their
proper end as a stuttering action (`Terminated`, `ProcessEnded`, `Finished`,
`Settled`).

Fairness. `Server` assumes that the Go scheduler runs a goroutine that can go on,
that `Verify` returns (every network step under it has a deadline), that a post
of the webhook ends (the client's ten seconds) and that the context of `Shutdown`
ends it. Weak fairness is stated per handler, worker and verification, and for the
steps of `main`. No client has to send, no operator to signal, nothing to kill.
`MxDial` assumes the connect and operation timeouts of `dialSMTP`. `Disposable`
assumes weak fairness of each refresh (a fetch ends within five seconds) and of
each call; the meeting on the stop channel is strongly fair, because the goroutine
of a schedule leaves its `select` at each tick: the ticks are a day apart and the
`select` picks among ready cases at random, so a stop that is offered at every
wait is taken at one. The other modules state safety only.

## 4. Where documentation and code disagree

1. `README.md:343` says timeouts become unknown, never invalid.
   `resolveMailHosts` takes a failed address lookup for "no address", the
   verdict is `no_mail_host`, and the MX cache keeps it (`pipeline_dns`).
2. `docs/PHASE_1_PLAN.md:424` lists a typed nil among the inconclusive
   outcomes. A reply up to 400 where 250 is expected makes `ParseSMTPError`
   return a nil pointer, which `classifyTransport` dereferences
   (`pipeline_panic`); a synchronous request answers 500, in the batch manager
   no one recovers.
3. `README.md:266` says of an address on the do-not-verify list that it "returns
   `risky` + `suppressed:true` with **no network check performed**". The list is
   asked by `Service.Verify`, behind the result cache. On Postgres a process that
   starts with the address on its list answers what an earlier process found by
   the network, until the row expires (`list_restart`). `ListTakesEffect` states
   what does hold.

Noted without a run of their own:

- `docs/ROADMAP.md:106` says the retry worker re-verifies retryable unknowns.
  With the cache on the retry goes through the same decorator and finds the
  verdict of the attempt before it when the backoff is shorter than the
  unknown TTL. `HitsAreFresh` bounds how long.
- `internal/verification/service.go:62` says a listing caps the score. The
  Gravatar bonus and the catch-all lift are applied after the cap.
- An `Idempotency-Key` is not tied to an address (`handlers.go:208-217`): a post
  that uses a key again for another address gets the answer about the first, and
  so can a listed address get one that is not `suppressed`, on either backend.
- `internal/jobs/manager.go:119-120` says that on `Stop` "queued batches finish".
  A `Submit` registers its batch as queued, releases the lock and sends; when
  the shutdown times out and the channel is closed in between, the send panics
  and the batch stays queued. It was never accepted: `DrainKeepsAccepted` and,
  after a graceful shutdown, `GracefulExitLosesNothing` hold.
- `README.md:263` promises the A/AAAA fallback to a domain without MX records.
  Go's resolver reports "no such record" as an error that `IsNotFound`, so that
  `resolveMailHosts` returns before the fallback and `classifyDNSError` says
  `no_domain`; the fallback is reached when the records there are can not be used.
  `LookupMx` follows the code.
- A page whose `offset+limit` overflows an `int` is answered with 500 by the
  recovery of a panic (`manager.go:251`).
- `docs/ROADMAP.md:243` wants an erasure to remove all traces, the code (and
  `README.md:300`) removes the cached row and leaves answers kept under an
  `Idempotency-Key`.
- `internal/feedback/adapters.go:64` says that Send events are ignored;
  `adapters.go:109` records them as deliveries, so a mail that is sent and then
  delivered counts twice, and one that bounces counts as both. Complaints are
  counted and move no score.
- `internal/feedback/feedback.go:18` calls a bounce a hard one. The adapter of
  Smartlead (`adapters.go:167-169`) records every bounce event, as its events do
  not tell soft from hard.
- A fetched list `[]` is a list: it removes every built-in disposable domain
  until the next refresh. `IsDisposable` misses an additional domain while a
  refresh whose list lacks it is between its deletion and its second store.

## 5. Proofs

The first part of `Server_proofs` proves about `JobsManager`, for any sets of
batches and workers and any bounds that meet `JobsAssumption`:

- `Inductive`: `Spec => []IInv`;
- from it `TypeCorrect`, `CustodyHolds`, `ResultsWhole`, `ConcurrencyHolds`,
  `RetriesHold`, `WebhookHolds`, `DrainHolds`, `DoneIsFinalHolds`;
- `NeverStuck`: in every reachable state some goroutine need not wait
  (`ManagerCanGo`), or the accepted batches are done, the workers have left if
  `Stop` was called, and the channel has room for a blocked `Submit`;
- `Refines`: every behaviour of `JobsManager` is one of `BatchService` under
  the mapping `Service`.

`Custody` alone is not inductive: that a worker which receives a batch is its
only holder needs that a queued id is held by nobody; that `Publish` publishes
a whole result needs that every goroutine of a running batch has a verdict; and
that an exited worker leaves nothing behind needs that the queue is empty once
it is closed and drained. `IInv` therefore adds `SubmitPhase` (a call of
`Submit` and the state of its batch), `WorkerPhase` (a worker's place and its
batch), `BatchPhase` (a batch, its goroutines, its results and posts),
`ItemPhase` (a goroutine's attempts and verdict) and `SemaphoreBounded`. The
proof has one lemma per action of the next-state relation. The invariants
`ConcurrencyBounded` and `WebhookAfterResults` and the action property
`DoneIsFinal` are proved and need no run. `NeverStuck` is the deadlock check of the
runs for every size of queue, pool and semaphore. It is where the order of the
feeding loop matters: a worker waits for a token only while one of its own
goroutines holds it, and the item it comes to next is the least one not launched.

Its second part builds on that. `RunsTheManager` shows that every behaviour of the
server is a behaviour of the manager, so what is proved there holds here.
`ServerInv` is inductive relative to that: `MainPhase` ties `main` to the state of
`Stop`, `RequestPhase` a request to its call of `Submit` (a submission can be
turned away or panic only once the manager has been stopped, which after a
graceful shutdown comes when no request is open), `ReaderPhase` the client to the
finished batch. From it and the manager's invariants follow `GracefulHolds`,
`StoresHold` and `PagesHold`, the last for every width of `int` and all limits.

`MxDial_proofs` proves `NoneLostHolds`, `FailureHolds` and `SendsNeverBlock` (the
comment at `smtp.go:154`) for any set of hosts. The invariant `DialInv` says which
goroutines have a result still to come (`ToCome`), that the caller counts exactly
the others that failed, and that channel and results to come never exceed the
number of hosts. Of the liveness property `NothingLeaks` it proves what is safety:
when all goroutines have ended nothing is open (`EndsClean`), until then one of them
need not wait (`SomeoneCanGo`), and each step lowers a natural number
(`StepsRunOut`). That a goroutine that can go on does is the fairness left to TLC.

`Feedback_proofs` proves `TypeCorrect` and `ScoreFollows` for any mails, domains,
handlers and faults. Its core is `ScoreMonotone`: of two histories of a domain the
one with more bounces, or fewer deliveries, never has the higher score. That is
not obvious because a history of four bounces or deliveries is below the five samples
that lift a catch-all: one more of either kind crosses the threshold, and only
because one bounce in five is above the 10 percent a lift tolerates the bounce
does not raise the score.

`Fair` proves `HistoryIsFair`. A bounce that counts is a permanent one, or any that
Smartlead reports. A tally keeps no trace of the mails behind it, so the property
needs `FeedbackInv`. `Founded` says that nothing is on the wire, with a handler or
in a tally that did not happen to the mail, whatever was lost, repeated or
forgotten; it gives the domain without a bounce that counts. `Ledger` says that
without faults what is recorded, in hand and on the wire adds up to what was due,
per domain and type of event; for bounces to no less, since a transient bounce of a
Smartlead mail is recorded and due to no fate. Once nothing is under way the tally
counts a recipient once for its send and at least once for its bounce, a rate of
one half or more that brings the score down to 20. A mail that bounced after it was
delivered counted twice before it bounced, which leaves a third and the cap of 50.
The proof follows the cardinalities of the three sets through each action.
`FeedbackAssumption` says that a mail has finitely many recipients, and one
recipient at Smartlead, whose events name no more.

`MemoryStore_proofs` proves all properties of the `memory_store` run for any keys,
values, lifetimes and cap. The insertion list is a slice of any length that a sweep
filters in a loop, so `Store` writes that loop as a recursive function (`Rebuilt`)
and the proofs follow it. The library's induction theorems take an operator;
`NatInSet` does without: a set of numbers that holds 0 and with each number the next
is all of `Nat`, because otherwise it would miss a least one. By it a rebuilt list
keeps the order of the list it came from, each key once, and those that are present
(`RebuiltIsLoop` and the lemmas after it). From `StoreInv` follow `OrderHolds`,
`OldestGoes` (the one property that reads the first and the last of the list) and
`Refines`, step by step: a lazy expiry and a sweep stutter, an eviction is the
one removal `TtlMap` allows a `Put` of a new key.

`Pipeline_proofs` proves all properties of the `pipeline` run for any
verifications, replies and histories. The properties speak of a verdict, and a
verdict keeps nothing of how it came about; the invariant `PipelineInv` says what
a verification knows at each place (`PhaseOf`) and who said it: what dns and
source in its record the resolver told it, or told the verification that filled
the cache (`Backed`, `CachePhase`), and what the mail server told it so far. It
comes to be judged in one of five ways (`Malformed`, `Stopped`, `Failed`,
`CatchAll`, `Answered`), and `JudgedWell` shows for each that the rung of the
ladder it lands on, the retry mark of that reason and the library's short cuts
fit what was heard. `TransientFailures` names two failures it does not speak of:
a temporary reply to the random RCPT, which only leaves the catch-all question
open, so that the reply to the address itself may still prove it valid or invalid
(the theorem says that nothing else does), and a failed address lookup, which ends
as invalid (4.1). `ReasonByLadder` opens the ladder once: `classifyReason`,
the first rule that applies, is a decision by cases. `ScoreTypes` follows a score
through all six adjusters.

`Gateway_proofs` proves `LimiterBounds`, `QuotaCounts` and `BatchesAreWhole` for
any requests, limits and sizes of batch and pool. The limiter's bound over a
stretch of time is not inductive: `BucketPhase` says for every instant how much
the bucket holds now and how much passed since, from both sides, also for
instants before the first request; `PoolPhase` says that an item is either with
a worker, or its verdict is in its place, or it has not been fed.

`Disposable_proofs` proves `SteadyStays`, `AdditionalAreListed` and
`ScheduleIsSingle` for any lists, verifiers and numbers of calls. Refreshes
overlap without a lock, so a missing additional domain is nobody's in
particular: `MissingPhase` says that whenever one is missing some refresh or
some addition is on its way to store it, and the hard step is the one that
deletes: the refresh that does has yet to come to the additional domains.
`CallPhase` relates the place of a caller in `enable` or `disable` to the one
schedule there may be.

`ResultCache_proofs` proves all properties of the `result_cache` run for any
calls, addresses, lifetimes and caps, on both backends. What the five operators
of `Store` do to the rows comes first (`GetShrinks`, `PurgeShrinks`,
`DeleteShrinks`, `SetPuts`); none of it depends on the insertion list. `CacheInv`
then says of each row when it was stored and which verification it is from
(`CacheRow`), and of each call how its verifications relate to the last erasure
(`CallPhase`): a result about to be stored is younger than that erasure, because
an erasure counts only when none of its address is under way. An assessment names
the process that made it. `ListEffect` says of each way to an answer how far the
do-not-verify list reaches: a verification obeys the list of its process, a row of
the cache only that of the process that made it, so that in Postgres it may
contradict a later list until it expires, and a kept answer that of the address of
some post with its key. Nothing is assumed of which keys go with which addresses. `Replay` has a hypothesis, `KeysFit`: the cap of
the idempotency store is no less than the number of keys in use. Without it the
in-memory store may evict a kept answer and a repeated request is verified
again. With it `ReplayInv` ties kept answers and live rows to each other in both
directions.

Assumptions: each module states what it assumes of its constants (`JobsAssumption`,
`PipelineAssumption` and so on). Most of it the code justifies (positive limits,
lists that are sets, replies that have a code). The rest are restrictions of the
model and not facts about the code: the bounds of section 3, the hypothesis
`KeysFit` of `Replay`, and that no address spells a namespaced key.

Only model-checked: liveness, because fairness and ENABLED are out of the prover's
reach (`AcceptedFinishes`, `RequestsEnd`, `ShutdownEnds`, `NothingLeaks`,
`CallsEnd`). Every invariant and every safety property of a step that a passing run
checks is proved, and so are the refinements.

## 6. Bounds and abstractions to know

- `ResultCache` keeps the rows of the cache and of the idempotency keys in two
  stores, as in memory; in Postgres they share a table, where an address that
  spells a namespaced key would collide with it. A call of Postgres that reports an
  error after it took effect is one that succeeded: its callers only log it, and
  the client of an erasure may be told otherwise.
- `RateLimit` counts in whole ticks where the code uses floating point, and
  `Gateway` keeps a wall clock that never goes back.
- `Pipeline` runs with the catch-all probe on and the Yahoo verifier off, as
  the server configures them.
- `MxDial` leaves out a failing `SetDeadline`.
- `Server` has one paging client; `main`'s early exit when its port is taken
  comes before any request and is left out. How long the shutdown takes is real
  time: a kill may come at any step.
- `Disposable` makes a call of `AddDisposableDomains` with several domains as
  many calls with one, and lets each verifier be configured by one goroutine.
- `Feedback` compares bounce rates as fractions, exactly, where the code
  divides floating-point numbers; the thresholds are tenths of integers. A bounce
  after a delivery comes before any reaction to the mail; opens name the recipient
  that opened, where SES names all (engagement moves no score). The endpoint
  `/v1/feedback`, which records the event its signed caller names
  (`cmd/apiserver/feedback.go:67`), calls `Record` like the adapters, but no
  provider stands behind it.

## 7. Not modelled

Most of the lines of the repository are the three generated tables
(`metadata_disposable.go` and its siblings, 128712 lines), which are data: sets of
domains and role names that the modules take as constants or choices. Besides,
`internal/config` parses the environment before anything runs;
`internal/metrics`, `observability.go` and `console.go` count and print;
address parsing and suggestion are pure string functions; the Yahoo verifier is
never enabled; Gravatar and DNS blocklist lookups are external, their outcomes
are choices in `Pipeline`; request decoding is the choice between a refusal and
a call.

What is left: the theorems about `ResultCache` do not say that the lists of its two
stores match their maps; `MemoryStore_proofs` says so of one store.
`SomeoneCanGo` and `StepsRunOut` have no counterpart yet for `Server`, `Gateway` and
`Disposable`, whose ends are only model-checked.
