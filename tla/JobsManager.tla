----------------------------- MODULE JobsManager -----------------------------
(***************************************************************************)
(* The asynchronous batch manager of internal/jobs: Submit registers a     *)
(* batch and sends its id into a bounded channel, a pool of workers takes  *)
(* ids out, fans the emails of a batch out over goroutines gated by a      *)
(* semaphore, retries retryable verdicts, publishes all results at once    *)
(* and posts the completion webhook.  Stop closes the channel and waits    *)
(* for the workers.                                                        *)
(*                                                                         *)
(* One step is one critical section, one channel operation or one return   *)
(* of a blocking call.  The lock m.mu is not a variable: each of its       *)
(* critical sections is a step.  Each element of Batches is one call of    *)
(* Submit, which draws a fresh random id.                                  *)
(***************************************************************************)
EXTENDS Naturals, Sequences, FiniteSets

CONSTANTS
    Batches,       \* the calls of Submit, each with the id it draws
    NoBatch,       \* what a worker between two batches holds
    Workers,       \* the worker goroutines Start launches
    QueueCap,      \* capacity of the queue channel (1024 in the code)
    MaxItems,      \* bound on the emails of one batch
    Total,         \* Total[b]: number of emails submitted in batch b
    ItemConc,      \* emails of one batch verified at the same time
    RetryMax,      \* retries of a retryable email
    WebhookRetries,\* retries of a webhook post (3 in the code)
    Notified       \* the batches with a callback URL, if webhooks are enabled

ASSUME JobsAssumption ==
    /\ NoBatch \notin Batches
    /\ Workers # {}
    /\ QueueCap \in Nat \ {0}
    /\ MaxItems \in Nat
    /\ Total \in [Batches -> 0..MaxItems]
    /\ ItemConc \in Nat \ {0}
    /\ RetryMax \in Nat
    /\ WebhookRetries \in Nat
    /\ Notified \subseteq Batches

VARIABLES
    stop,      \* the call of Stop: not made, waiting for the workers, returned
    submit,    \* submit[b]: where the call of Submit for b stands
    state,     \* state[b]: Batch.State, "absent" while b is not in m.batches
    results,   \* results[b]: Batch.results as Results and Get show it
    queue,     \* the contents of the channel m.queue
    pc,        \* pc[w]: where worker w is in its loop
    job,       \* job[w]: the batch worker w processes
    item,      \* item[b][i]: the goroutine that verifies the i-th email of b
    posts,     \* posts[b]: webhook attempts made for b
    received   \* received[b]: how many of them reached the receiver

clientVars == <<stop, submit>>
batchVars  == <<state, results>>
hookVars   == <<posts, received>>
vars == <<stop, submit, state, results, queue, pc, job, item,
          posts, received>>

(***************************************************************************)
(* What Verify says of an email, as far as this package looks: its         *)
(* Retryable flag.                                                         *)
(***************************************************************************)
Verdicts == {"settled", "retryable"}

ItemStates == [pc: {"pending", "verifying", "backoff", "finished"},
               attempts: 0..(RetryMax + 1),
               verdict: Verdicts \cup {"none"}]

ItemResults == [verdict: Verdicts, attempts: 1..(RetryMax + 1)]

Items(b) == 1..Total[b]

\* m.stopped; the channel m.queue is closed in the same critical section.
stopped == stop # "uncalled"

\* The emails of b whose goroutine holds a token of the semaphore.
InFlight(b) == {i \in Items(b) : item[b][i].pc \in {"verifying", "backoff"}}

TypeOK ==
    /\ stop \in {"uncalled", "waiting", "returned"}
    /\ submit \in [Batches -> {"uncalled", "sending", "sent", "returned",
                               "rejected", "panicked"}]
    /\ state \in [Batches -> {"absent", "queued", "running", "done"}]
    /\ results \in [Batches -> Seq(ItemResults)]
    /\ queue \in Seq(Batches)
    /\ pc \in [Workers -> {"receive", "claimed", "feeding", "posting", "exited"}]
    /\ job \in [Workers -> Batches \cup {NoBatch}]
    /\ item \in [Batches -> [1..MaxItems -> ItemStates]]
    /\ posts \in [Batches -> 0..(WebhookRetries + 1)]
    /\ received \in [Batches -> 0..(WebhookRetries + 1)]

\* An email whose goroutine has not been launched yet.
FreshItem == [pc |-> "pending", attempts |-> 0, verdict |-> "none"]

\* Start has launched the workers and no request has arrived yet.
Init ==
    /\ stop = "uncalled"
    /\ submit = [b \in Batches |-> "uncalled"]
    /\ state = [b \in Batches |-> "absent"]
    /\ results = [b \in Batches |-> <<>>]
    /\ queue = <<>>
    /\ pc = [w \in Workers |-> "receive"]
    /\ job = [w \in Workers |-> NoBatch]
    /\ item = [b \in Batches |-> [i \in 1..MaxItems |-> FreshItem]]
    /\ posts = [b \in Batches |-> 0]
    /\ received = [b \in Batches |-> 0]

-----------------------------------------------------------------------------
(***************************************************************************)
(* Submit.                                                                 *)
(***************************************************************************)

\* The critical section: after Stop the call is turned away, otherwise the
\* batch becomes visible under its id.
Register(b) ==
    /\ submit[b] = "uncalled"
    /\ IF stopped
       THEN /\ submit' = [submit EXCEPT ![b] = "rejected"]
            /\ UNCHANGED state
       ELSE /\ submit' = [submit EXCEPT ![b] = "sending"]
            /\ state' = [state EXCEPT ![b] = "queued"]
    /\ UNCHANGED <<stop, results, queue, pc, job, item, hookVars>>

HasRoom == Len(queue) < QueueCap

\* Bug: a send that gives up on a full channel.
Enqueue_dropsWhenFull(b) ==
    /\ submit[b] = "sending"
    /\ ~stopped
    /\ queue' = IF HasRoom THEN Append(queue, b) ELSE queue
    /\ submit' = [submit EXCEPT ![b] = "sent"]
    /\ UNCHANGED <<stop, batchVars, pc, job, item, hookVars>>

\* The send on the channel, outside the lock; it blocks while the buffer is
\* full.
Enqueue(b) ==
    /\ submit[b] = "sending"
    /\ ~stopped
    /\ HasRoom
    /\ queue' = Append(queue, b)
    /\ submit' = [submit EXCEPT ![b] = "sent"]
    /\ UNCHANGED <<stop, batchVars, pc, job, item, hookVars>>

\* A send on the closed channel panics, also when the sender was blocked at
\* the close; the recovery middleware answers 500 and the batch stays in the map.
SendPanics(b) ==
    /\ submit[b] = "sending"
    /\ stopped
    /\ submit' = [submit EXCEPT ![b] = "panicked"]
    /\ UNCHANGED <<stop, batchVars, queue, pc, job, item, hookVars>>

SubmitReturns(b) ==
    /\ submit[b] = "sent"
    /\ submit' = [submit EXCEPT ![b] = "returned"]
    /\ UNCHANGED <<stop, batchVars, queue, pc, job, item, hookVars>>

-----------------------------------------------------------------------------
(***************************************************************************)
(* The worker loop and process.                                            *)
(***************************************************************************)

Receive(w) ==
    /\ pc[w] = "receive"
    /\ queue # <<>>
    /\ job' = [job EXCEPT ![w] = Head(queue)]
    /\ queue' = Tail(queue)
    /\ pc' = [pc EXCEPT ![w] = "claimed"]
    /\ UNCHANGED <<clientVars, batchVars, item, hookVars>>

\* Bug: the loop ends at once.
LoopEnds_dropsBacklog == stopped

\* Bug: the loop takes an empty buffer for the end.
LoopEnds_idle == queue = <<>>

\* Bug: the channel is never closed.
LoopEnds_neverClosed == FALSE

\* range over a closed channel ends once the buffer is empty.
LoopEnds == stopped /\ queue = <<>>

Exit(w) ==
    /\ pc[w] = "receive"
    /\ LoopEnds
    /\ pc' = [pc EXCEPT ![w] = "exited"]
    /\ UNCHANGED <<clientVars, batchVars, queue, job, item, hookVars>>

StartBatch(w) ==
    /\ pc[w] = "claimed"
    /\ state' = [state EXCEPT ![job[w]] = "running"]
    /\ pc' = [pc EXCEPT ![w] = "feeding"]
    /\ UNCHANGED <<clientVars, results, queue, job, item, hookVars>>

\* The next email gets a goroutine as soon as the semaphore has a token.
TokenFree(b) == Cardinality(InFlight(b)) < ItemConc

Launch(w, i) ==
    LET b == job[w] IN
    /\ pc[w] = "feeding"
    /\ i \in Items(b)
    /\ item[b][i].pc = "pending"
    /\ \A j \in Items(b) : j < i => item[b][j].pc # "pending"
    /\ TokenFree(b)
    /\ item' = [item EXCEPT ![b][i].pc = "verifying"]
    /\ UNCHANGED <<clientVars, batchVars, queue, pc, job, hookVars>>

\* Bug: one retry too few.
MayRetry_oneShort(v, attempts) == v = "retryable" /\ attempts < RetryMax

\* The loop condition of verifyWithRetry, after the given number of attempts.
MayRetry(v, attempts) == v = "retryable" /\ attempts <= RetryMax

\* Verify answers; the goroutine backs off for another attempt or stores the
\* result, gives its token back and is done.
Verified(b, i, v) ==
    /\ item[b][i].pc = "verifying"
    /\ LET attempts == item[b][i].attempts + 1
           next == IF MayRetry(v, attempts) THEN "backoff" ELSE "finished"
       IN  item' = [item EXCEPT ![b][i] =
                      [pc |-> next, attempts |-> attempts, verdict |-> v]]
    /\ UNCHANGED <<clientVars, batchVars, queue, pc, job, hookVars>>

\* The backoff timer fires.
Retry(b, i) ==
    /\ item[b][i].pc = "backoff"
    /\ item' = [item EXCEPT ![b][i].pc = "verifying"]
    /\ UNCHANGED <<clientVars, batchVars, queue, pc, job, hookVars>>

\* Bug: waits for the launches only.
AllFinished_launchedOnly(b) == \A i \in Items(b) : item[b][i].pc # "pending"

\* wg.Wait returns: no goroutine of the batch is left.
AllFinished(b) == \A i \in Items(b) : item[b][i].pc = "finished"

CollectedResults(b) ==
    [i \in Items(b) |-> [verdict |-> item[b][i].verdict,
                         attempts |-> item[b][i].attempts]]

\* The second critical section: results, counts, progress and the final state
\* become visible together.
Publish(w) ==
    LET b == job[w] IN
    /\ pc[w] = "feeding"
    /\ AllFinished(b)
    /\ results' = [results EXCEPT ![b] = CollectedResults(b)]
    /\ state' = [state EXCEPT ![b] = "done"]
    /\ IF b \in Notified
       THEN /\ pc' = [pc EXCEPT ![w] = "posting"]
            /\ UNCHANGED job
       ELSE /\ pc' = [pc EXCEPT ![w] = "receive"]
            /\ job' = [job EXCEPT ![w] = NoBatch]
    /\ UNCHANGED <<clientVars, queue, item, hookVars>>

-----------------------------------------------------------------------------
(***************************************************************************)
(* Webhook.Send, called by the worker after it released the lock.          *)
(***************************************************************************)

\* What may become of a post: a 2xx answer comes back; the receiver acts on it
\* but no 2xx answer comes back; it never arrives.
PostOutcomes == {"acknowledged", "unacknowledged", "undelivered"}

MayPostAgain(n) == n <= WebhookRetries

Post(w, outcome) ==
    LET b == job[w]
        n == posts[b] + 1
    IN
    /\ pc[w] = "posting"
    /\ posts' = [posts EXCEPT ![b] = n]
    /\ received' = IF outcome = "undelivered"
                   THEN received
                   ELSE [received EXCEPT ![b] = @ + 1]
    /\ IF outcome # "acknowledged" /\ MayPostAgain(n)
       THEN UNCHANGED <<pc, job>>
       ELSE /\ pc' = [pc EXCEPT ![w] = "receive"]
            /\ job' = [job EXCEPT ![w] = NoBatch]
    /\ UNCHANGED <<clientVars, batchVars, queue, item>>

\* The callback URL passed the prefix check but makes no valid request: Send
\* returns before the first attempt, and the worker drops the error.
PostUnbuildable(w) ==
    /\ pc[w] = "posting"
    /\ posts[job[w]] = 0
    /\ pc' = [pc EXCEPT ![w] = "receive"]
    /\ job' = [job EXCEPT ![w] = NoBatch]
    /\ UNCHANGED <<clientVars, batchVars, queue, item, hookVars>>

-----------------------------------------------------------------------------
(***************************************************************************)
(* Stop.                                                                   *)
(***************************************************************************)

\* The critical section that refuses new work and closes the channel.
CloseQueue ==
    /\ stop = "uncalled"
    /\ stop' = "waiting"
    /\ UNCHANGED <<submit, batchVars, queue, pc, job, item, hookVars>>

\* Bug: an idle worker counts as gone.
WorkersGone_idleCounts == \A w \in Workers : pc[w] \in {"receive", "exited"}

WorkersGone == \A w \in Workers : pc[w] = "exited"

StopReturns ==
    /\ stop = "waiting"
    /\ WorkersGone
    /\ stop' = "returned"
    /\ UNCHANGED <<submit, batchVars, queue, pc, job, item, hookVars>>

\* Nothing is left to do once Stop has returned and no call of Submit is open.
Terminated ==
    /\ stop = "returned"
    /\ \A b \in Batches : submit[b] \in {"returned", "rejected", "panicked"}
    /\ UNCHANGED vars

-----------------------------------------------------------------------------
Submit(b) == Register(b) \/ Enqueue(b) \/ SendPanics(b) \/ SubmitReturns(b)

Verification(b, i) == Retry(b, i) \/ \E v \in Verdicts : Verified(b, i, v)

Worker(w) ==
    \/ Receive(w)
    \/ Exit(w)
    \/ StartBatch(w)
    \/ \E i \in 1..MaxItems : Launch(w, i)
    \/ Publish(w)
    \/ \E outcome \in PostOutcomes : Post(w, outcome)
    \/ PostUnbuildable(w)

Next ==
    \/ \E b \in Batches : Submit(b)
    \/ \E w \in Workers : Worker(w)
    \/ \E b \in Batches, i \in 1..MaxItems : Verification(b, i)
    \/ CloseQueue
    \/ StopReturns
    \/ Terminated

Spec == Init /\ [][Next]_vars

-----------------------------------------------------------------------------
(***************************************************************************)
(* Properties.                                                             *)
(***************************************************************************)

\* The call of Submit got its id into the channel: the client holds, or is
\* about to get, a 202 for b.
Accepted(b) == submit[b] \in {"sent", "returned"}

Enqueued(b) == \E k \in 1..Len(queue) : queue[k] = b

Holds(w, b) == pc[w] \in {"claimed", "feeding", "posting"} /\ job[w] = b

\* An accepted batch that is not finished is in exactly one pair of hands: one
\* place of the channel or one worker.  Whatever the order in which Submit,
\* Stop and the workers run, no batch is lost and none is processed twice.
Custody ==
    /\ \A b \in Batches :
         Accepted(b) => Enqueued(b) \/ (\E w \in Workers : Holds(w, b)) \/ state[b] = "done"
    /\ \A b \in Batches : Enqueued(b) =>
         Accepted(b) /\ state[b] = "queued" /\ ~\E w \in Workers : Holds(w, b)
    /\ \A v, w \in Workers, b \in Batches : Holds(v, b) /\ Holds(w, b) => v = w
    /\ \A j, k \in 1..Len(queue) : queue[j] = queue[k] => j = k

\* A status query that says done is followed by a results query that returns
\* every email; before that no result shows at all (process publishes under
\* one lock, after its wait group).
ResultsAppearWhole ==
    \A b \in Batches :
        IF state[b] = "done"
        THEN /\ DOMAIN results[b] = Items(b)
            /\ \A i \in Items(b) : item[b][i].pc = "finished"
        ELSE results[b] = <<>>

\* At most Workers * ItemConc verifications run at any time: a batch has no
\* more than ItemConc of them, and none once its worker has left it, whatever
\* the order in which the goroutines finish and back off.
ConcurrencyBounded ==
    \A b \in Batches :
        /\ Cardinality(InFlight(b)) <= ItemConc
        /\ InFlight(b) # {} => \E w \in Workers : pc[w] = "feeding" /\ job[w] = b

\* A published verdict that is still retryable has used up all its retries,
\* and none was tried more often (verifyWithRetry, "retrying while it is
\* retryable up to RetryMax").
RetriesExhausted ==
    \A b \in Batches : \A i \in DOMAIN results[b] :
        results[b][i].verdict = "retryable" => results[b][i].attempts = RetryMax + 1

\* A receiver that is told about a batch can fetch all of it, and is not told
\* more than WebhookRetries + 1 times.
WebhookAfterResults ==
    \A b \in Batches :
        /\ received[b] > 0 => b \in Notified /\ state[b] = "done"
        /\ received[b] <= posts[b]
        /\ posts[b] <= WebhookRetries + 1

\* When Stop has returned every accepted batch is done and no goroutine of the
\* manager runs any more: neither a verification nor a webhook post is cut off.
DrainKeepsAccepted ==
    stop = "returned" =>
        /\ \A b \in Batches : Accepted(b) => state[b] = "done"
        /\ \A b \in Batches : InFlight(b) = {}
        /\ \A w \in Workers : pc[w] = "exited"

\* The parts of the inductive invariant that are not properties of their own:
\* how the call of Submit and the batch, the worker and its batch, the batch
\* and its goroutines go together.
SubmitPhase ==
    \A b \in Batches :
        /\ submit[b] \in {"uncalled", "rejected"} <=> state[b] = "absent"
        /\ submit[b] \in {"sending", "panicked"} => state[b] = "queued"

WorkerPhaseOf(w) ==
    /\ pc[w] \in {"receive", "exited"} <=> job[w] = NoBatch
    /\ pc[w] = "claimed" => Accepted(job[w]) /\ state[job[w]] = "queued"
    /\ pc[w] = "feeding" => state[job[w]] = "running"
    /\ pc[w] = "posting" => /\ state[job[w]] = "done"
                           /\ job[w] \in Notified
                           /\ posts[job[w]] <= WebhookRetries
    /\ pc[w] = "exited" => stopped /\ queue = <<>>

WorkerPhase == \A w \in Workers : WorkerPhaseOf(w)

BatchPhase ==
    \A b \in Batches :
        /\ state[b] \in {"absent", "queued"} =>
             \A i \in 1..MaxItems : item[b][i].pc = "pending"
        /\ state[b] = "running" => \E w \in Workers : pc[w] = "feeding" /\ job[w] = b
        /\ state[b] = "done" => AllFinished(b)
        /\ results[b] = IF state[b] = "done" THEN CollectedResults(b) ELSE <<>>
        /\ posts[b] > 0 => b \in Notified /\ state[b] = "done"
        /\ received[b] <= posts[b]

ItemPhase ==
    \A b \in Batches, i \in 1..MaxItems :
        LET g == item[b][i] IN
        /\ IF g.pc = "pending" THEN g.attempts = 0 ELSE i \in Items(b)
        /\ g.pc \in {"verifying", "backoff"} => g.attempts <= RetryMax
        /\ g.pc = "finished" =>
             /\ g.verdict \in Verdicts
             /\ g.attempts >= 1
             /\ g.verdict = "retryable" => g.attempts = RetryMax + 1

SemaphoreBounded == \A b \in Batches : Cardinality(InFlight(b)) <= ItemConc

\* The inductive invariant: together the parts are preserved by every step.
IInv == TypeOK /\ SubmitPhase /\ WorkerPhase /\ BatchPhase
        /\ ItemPhase /\ SemaphoreBounded /\ Custody

\* What Stop waited for stays so: a worker that has left its loop is gone.
ReturnedAfterWorkers == stop = "returned" => WorkersGone

\* Once a batch is done, its state and its results are never touched again.
DoneIsFinal ==
    [][\A b \in Batches : state[b] = "done" =>
          state'[b] = "done" /\ results'[b] = results[b]]_vars

\* The manager implements the promise of BatchService.
Service == INSTANCE BatchService WITH
    Answers    <- ItemResults,
    Size       <- Total,
    MaxNotices <- WebhookRetries + 1,
    phase      <- state,
    accepted   <- {b \in Batches : Accepted(b)},
    answer     <- results,
    notices    <- received,
    open       <- ~stopped,
    drained    <- stop = "returned"

ImplementsService == Service!ServiceSpec
=============================================================================
