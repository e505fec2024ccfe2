---------------------------- MODULE Server_proofs ----------------------------
(***************************************************************************)
(* Proofs about JobsManager and about Server, which extends it.            *)
(*                                                                         *)
(* First the manager: the inductive invariant IInv, the safety properties  *)
(* that follow from it, and the refinement of BatchService.  Then the      *)
(* process: its behaviours are behaviours of the manager, so that all of   *)
(* this holds inside it; on top of that, the order of the shutdown and the *)
(* pages a client puts together are proved for any number of batches,      *)
(* workers and items, any limits and any size of int.                      *)
(***************************************************************************)
EXTENDS Server, FiniteSetTheorems, SequenceTheorems, WellFoundedInduction, TLAPS

-----------------------------------------------------------------------------
(***************************************************************************)
(* Facts about the operators.                                              *)
(***************************************************************************)

\* A goroutine not yet launched has a well-formed record.
LEMMA FreshItemType ==
  /\ FreshItem \in ItemStates
  /\ FreshItem.pc = "pending"
  /\ FreshItem.attempts = 0
  BY JobsAssumption DEF FreshItem, ItemStates

\* The emails of a batch are within the bound on emails.
LEMMA ItemsInRange == \A b \in Batches : Items(b) \subseteq 1..MaxItems
  BY JobsAssumption DEF Items

\* The goroutines of a batch are finitely many.
LEMMA InFlightFinite == \A b \in Batches : IsFiniteSet(Items(b)) /\ IsFiniteSet(InFlight(b))
<1> SUFFICES ASSUME NEW b \in Batches
             PROVE  IsFiniteSet(Items(b)) /\ IsFiniteSet(InFlight(b))
  OBVIOUS
<1>1. IsFiniteSet(Items(b))
  BY JobsAssumption, FS_Interval DEF Items
<1>2. InFlight(b) \subseteq Items(b)
  BY DEF InFlight
<1> QED
  BY <1>1, <1>2, FS_Subset

\* What does not touch the goroutines keeps their part of the invariant.
LEMMA ItemFrame ==
  ASSUME ItemPhase, SemaphoreBounded, item' = item
  PROVE  ItemPhase' /\ SemaphoreBounded'
  BY DEF ItemPhase, SemaphoreBounded, InFlight, Items

\* What leaves the channel and the hands of the workers alone, and the state of
\* every accepted batch, keeps Custody.
LEMMA CustodyFrame ==
  ASSUME Custody,
         queue' = queue,
         \A b \in Batches : Accepted(b)' <=> Accepted(b),
         \A b \in Batches, w \in Workers : Holds(w, b)' <=> Holds(w, b),
         \A b \in Batches : Accepted(b) => state'[b] = state[b]
  PROVE  Custody'
<1>1. \A b \in Batches : Enqueued(b)' <=> Enqueued(b)
  BY DEF Enqueued
<1> QED
  BY <1>1 DEF Custody

\* A worker that is not waiting for a batch and has not exited has one.
LEMMA BusyWorker ==
  ASSUME TypeOK, WorkerPhase, NEW w \in Workers,
         pc[w] \in {"claimed", "feeding", "posting"}
  PROVE  job[w] \in Batches
<1>1. job[w] # NoBatch
  BY DEF WorkerPhase, WorkerPhaseOf
<1> QED
  BY <1>1 DEF TypeOK

-----------------------------------------------------------------------------
(***************************************************************************)
(* IInv holds initially.                                                   *)
(***************************************************************************)
LEMMA InitIInv == Init => IInv
<1> SUFFICES ASSUME Init PROVE IInv
  OBVIOUS
<1>1. TypeOK
  BY JobsAssumption, FreshItemType DEF Init, TypeOK
<1>2. SubmitPhase /\ WorkerPhase
  BY DEF Init, SubmitPhase, WorkerPhase, WorkerPhaseOf
<1>3. BatchPhase
  BY JobsAssumption, FreshItemType, ItemsInRange DEF Init, BatchPhase
<1>4. ItemPhase
  BY FreshItemType DEF Init, ItemPhase
<1>5. SemaphoreBounded
  <2>1. \A b \in Batches : InFlight(b) = {}
    BY FreshItemType, ItemsInRange DEF Init, InFlight
  <2>2. \A b \in Batches : Cardinality(InFlight(b)) = 0
    BY <2>1, FS_EmptySet
  <2> QED
    BY <2>2, JobsAssumption DEF SemaphoreBounded
<1>6. Custody
  BY DEF Init, Custody, Accepted, Enqueued, Holds
<1> QED
  BY <1>1, <1>2, <1>3, <1>4, <1>5, <1>6 DEF IInv

-----------------------------------------------------------------------------
(***************************************************************************)
(* Every step preserves IInv.                                              *)
(***************************************************************************)
\* The critical section of Submit preserves the invariant.
LEMMA RegisterStep ==
  ASSUME IInv, NEW b \in Batches, Register(b)
  PROVE  IInv'
<1> USE DEF IInv
<1>0. /\ submit[b] = "uncalled" /\ state[b] = "absent"
      /\ UNCHANGED <<stop, results, queue, pc, job, item, posts, received>>
      /\ \/ /\ submit' = [submit EXCEPT ![b] = "rejected"]
            /\ state' = state
         \/ /\ submit' = [submit EXCEPT ![b] = "sending"]
            /\ state' = [state EXCEPT ![b] = "queued"]
  BY DEF Register, SubmitPhase, hookVars
<1>1. TypeOK'
  BY <1>0 DEF TypeOK
<1>2. SubmitPhase'
  BY <1>0 DEF SubmitPhase, TypeOK
<1>3. WorkerPhase'
  <2>1. \A c \in Batches : Accepted(c)' <=> Accepted(c)
    BY <1>0 DEF Accepted, TypeOK
  <2>2. \A w \in Workers :
           pc[w] \in {"claimed", "feeding", "posting"} =>
              job[w] \in Batches /\ state'[job[w]] = state[job[w]]
    BY <1>0 DEF WorkerPhase, WorkerPhaseOf, TypeOK
  <2> QED
    BY <1>0, <2>1, <2>2 DEF WorkerPhase, WorkerPhaseOf, TypeOK, stopped
<1>4. BatchPhase'
  BY <1>0 DEF BatchPhase, AllFinished, Items, CollectedResults, TypeOK
<1>5. ItemPhase' /\ SemaphoreBounded'
  BY <1>0, ItemFrame
<1>6. Custody'
  <2>1. \A c \in Batches : Accepted(c)' <=> Accepted(c)
    BY <1>0 DEF Accepted, TypeOK
  <2>2. \A c \in Batches, w \in Workers : Holds(w, c)' <=> Holds(w, c)
    BY <1>0 DEF Holds
  <2>3. \A c \in Batches : Accepted(c) => state'[c] = state[c]
    BY <1>0 DEF Accepted, TypeOK
  <2> QED
    BY <1>0, <2>1, <2>2, <2>3, CustodyFrame
<1> QED
  BY <1>1, <1>2, <1>3, <1>4, <1>5, <1>6

\* The send of an id preserves the invariant: the id enters the channel once.
LEMMA EnqueueStep ==
  ASSUME IInv, NEW b \in Batches, Enqueue(b)
  PROVE  IInv'
<1> USE DEF IInv
<1>0. /\ submit[b] = "sending" /\ ~stopped
      /\ submit' = [submit EXCEPT ![b] = "sent"]
      /\ queue' = Append(queue, b)
      /\ UNCHANGED <<stop, state, results, pc, job, item, posts, received>>
  BY DEF Enqueue, hookVars, batchVars
<1>1. TypeOK'
  BY <1>0 DEF TypeOK
<1>2. SubmitPhase'
  BY <1>0 DEF SubmitPhase, TypeOK
<1>3. WorkerPhase'
  BY <1>0 DEF WorkerPhase, WorkerPhaseOf, Accepted, TypeOK, stopped
<1>4. BatchPhase'
  BY <1>0 DEF BatchPhase, AllFinished, Items, CollectedResults
<1>5. ItemPhase' /\ SemaphoreBounded'
  BY <1>0, ItemFrame
<1>6. Custody'
  <2>1. \A c \in Batches : Accepted(c)' <=> Accepted(c) \/ c = b
    BY <1>0 DEF Accepted, TypeOK
  <2>2. \A c \in Batches, w \in Workers : Holds(w, c)' <=> Holds(w, c)
    BY <1>0 DEF Holds
  <2>3. /\ Len(queue') = Len(queue) + 1
        /\ queue'[Len(queue) + 1] = b
        /\ \A k \in 1..Len(queue) : queue'[k] = queue[k]
        /\ Len(queue) \in Nat
    BY <1>0 DEF TypeOK
  <2>4. \A c \in Batches : Enqueued(c)' <=> Enqueued(c) \/ c = b
    BY <2>3 DEF Enqueued
  <2>5. /\ state[b] = "queued"
        /\ ~Accepted(b)
        /\ ~Enqueued(b)
        /\ \A w \in Workers : ~Holds(w, b)
    BY <1>0 DEF SubmitPhase, Accepted, Custody, WorkerPhase, WorkerPhaseOf, Holds
  <2>6. \A j, k \in 1..Len(queue') : queue'[j] = queue'[k] => j = k
    BY <2>3, <2>5 DEF Custody, Enqueued
  <2> QED
    BY <1>0, <2>1, <2>2, <2>4, <2>5, <2>6 DEF Custody
<1> QED
  BY <1>1, <1>2, <1>3, <1>4, <1>5, <1>6

\* The two steps of Submit that change nothing but where its call stands.
LEMMA SubmitEndStep ==
  ASSUME IInv, NEW b \in Batches, SendPanics(b) \/ SubmitReturns(b)
  PROVE  IInv'
<1> USE DEF IInv
<1>0. /\ \/ submit[b] = "sending" /\ submit' = [submit EXCEPT ![b] = "panicked"]
         \/ submit[b] = "sent" /\ submit' = [submit EXCEPT ![b] = "returned"]
      /\ UNCHANGED <<stop, state, results, queue, pc, job, item, posts, received>>
  BY DEF SendPanics, SubmitReturns, hookVars, batchVars
<1>1. TypeOK'
  BY <1>0 DEF TypeOK
<1>2. SubmitPhase'
  BY <1>0 DEF SubmitPhase, TypeOK
<1>3. \A c \in Batches : Accepted(c)' <=> Accepted(c)
  BY <1>0 DEF Accepted, TypeOK
<1>4. WorkerPhase'
  BY <1>0, <1>3 DEF WorkerPhase, WorkerPhaseOf, TypeOK, stopped
<1>5. BatchPhase'
  BY <1>0 DEF BatchPhase, AllFinished, Items, CollectedResults
<1>6. ItemPhase' /\ SemaphoreBounded'
  BY <1>0, ItemFrame
<1>7. Custody'
  <2>1. \A c \in Batches, w \in Workers : Holds(w, c)' <=> Holds(w, c)
    BY <1>0 DEF Holds
  <2> QED
    BY <1>0, <1>3, <2>1, CustodyFrame
<1> QED
  BY <1>1, <1>2, <1>4, <1>5, <1>6, <1>7

\* A worker that takes an id preserves the invariant: the batch changes hands.
LEMMA ReceiveStep ==
  ASSUME IInv, NEW w \in Workers, Receive(w)
  PROVE  IInv'
<1> USE DEF IInv
<1>b. PICK b : b = Head(queue)
  OBVIOUS
<1>0. /\ pc[w] = "receive" /\ job[w] = NoBatch
      /\ queue # <<>>
      /\ job' = [job EXCEPT ![w] = b]
      /\ queue' = Tail(queue)
      /\ pc' = [pc EXCEPT ![w] = "claimed"]
      /\ UNCHANGED <<stop, submit, state, results, item, posts, received>>
  BY <1>b DEF Receive, WorkerPhase, WorkerPhaseOf, clientVars, batchVars, hookVars
<1>1. /\ b \in Batches /\ b # NoBatch
      /\ Len(queue) \in Nat \ {0}
      /\ b = queue[1]
      /\ Len(queue') = Len(queue) - 1
      /\ \A k \in 1..Len(queue') : queue'[k] = queue[k + 1]
  BY <1>0, <1>b, JobsAssumption DEF TypeOK
<1>2. /\ Accepted(b) /\ state[b] = "queued"
      /\ \A v \in Workers : ~Holds(v, b)
  <2>1. Enqueued(b)
    BY <1>1 DEF Enqueued
  <2> QED
    BY <1>1, <2>1 DEF Custody
<1>3. TypeOK'
  BY <1>0, <1>1 DEF TypeOK
<1>4. SubmitPhase'
  BY <1>0 DEF SubmitPhase
<1>5. \A c \in Batches : Accepted(c)' <=> Accepted(c)
  BY <1>0 DEF Accepted
<1>6. WorkerPhase'
  BY <1>0, <1>1, <1>2, <1>5 DEF WorkerPhase, WorkerPhaseOf, TypeOK, stopped
<1>7. BatchPhase'
  BY <1>0 DEF BatchPhase, AllFinished, Items, CollectedResults, TypeOK
<1>8. ItemPhase' /\ SemaphoreBounded'
  BY <1>0, ItemFrame
<1>9. Custody'
  <2>1. \A c \in Batches : Enqueued(c) <=> Enqueued(c)' \/ c = b
    <3>1. ASSUME NEW c \in Batches, NEW k \in 1..Len(queue), queue[k] = c, c # b
          PROVE  Enqueued(c)'
      <4>1. k - 1 \in 1..Len(queue') /\ queue'[k - 1] = queue[k]
        BY <1>1, <3>1
      <4> QED
        BY <3>1, <4>1 DEF Enqueued
    <3>2. ASSUME NEW c \in Batches, NEW k \in 1..Len(queue'), queue'[k] = c
          PROVE  Enqueued(c)
      <4>1. k + 1 \in 1..Len(queue) /\ queue[k + 1] = c
        BY <1>1, <3>2
      <4> QED
        BY <4>1 DEF Enqueued
    <3>3. Enqueued(b)
      BY <1>1 DEF Enqueued
    <3> QED
      BY <3>1, <3>2, <3>3 DEF Enqueued
  <2>2. ~Enqueued(b)'
    <3> SUFFICES ASSUME NEW k \in 1..Len(queue'), queue'[k] = b PROVE FALSE
      BY DEF Enqueued
    <3>1. k + 1 \in 1..Len(queue) /\ 1 \in 1..Len(queue) /\ queue[k + 1] = queue[1]
      BY <1>1
    <3>2. k + 1 = 1
      BY <3>1 DEF Custody
    <3> QED
      BY <3>2
  <2>3. \A c \in Batches, v \in Workers :
           Holds(v, c)' <=> Holds(v, c) \/ (v = w /\ c = b)
    BY <1>0, <1>1 DEF Holds, TypeOK
  <2>4. \A j, k \in 1..Len(queue') : queue'[j] = queue'[k] => j = k
    <3> SUFFICES ASSUME NEW j \in 1..Len(queue'), NEW k \in 1..Len(queue'),
                        queue'[j] = queue'[k]
                 PROVE  j = k
      OBVIOUS
    <3>1. j + 1 \in 1..Len(queue) /\ k + 1 \in 1..Len(queue) /\ queue[j + 1] = queue[k + 1]
      BY <1>1
    <3>2. j + 1 = k + 1
      BY <3>1 DEF Custody
    <3> QED
      BY <3>2
  <2>5. \A v, u \in Workers, c \in Batches : Holds(v, c)' /\ Holds(u, c)' => v = u
    BY <1>2, <2>3 DEF Custody
  <2>6. \A c \in Batches :
           Accepted(c)' => Enqueued(c)' \/ (\E v \in Workers : Holds(v, c)') \/ state'[c] = "done"
    BY <1>0, <1>5, <2>1, <2>3 DEF Custody
  <2>7. \A c \in Batches : Enqueued(c)' =>
           Accepted(c)' /\ state'[c] = "queued" /\ ~\E v \in Workers : Holds(v, c)'
    BY <1>0, <1>5, <2>1, <2>2, <2>3 DEF Custody
  <2> QED
    BY <2>4, <2>5, <2>6, <2>7 DEF Custody
<1> QED
  BY <1>3, <1>4, <1>6, <1>7, <1>8, <1>9

\* A worker that leaves its loop over the drained channel preserves the invariant.
LEMMA ExitStep ==
  ASSUME IInv, NEW w \in Workers, Exit(w)
  PROVE  IInv'
<1> USE DEF IInv
<1>0. /\ pc[w] = "receive" /\ stopped /\ queue = <<>>
      /\ pc' = [pc EXCEPT ![w] = "exited"]
      /\ UNCHANGED <<stop, submit, state, results, queue, job, item, posts, received>>
  BY DEF Exit, LoopEnds, clientVars, batchVars, hookVars
<1>1. TypeOK'
  BY <1>0 DEF TypeOK
<1>2. SubmitPhase'
  BY <1>0 DEF SubmitPhase
<1>3. \A c \in Batches : Accepted(c)' <=> Accepted(c)
  BY <1>0 DEF Accepted
<1>4. WorkerPhase'
  BY <1>0, <1>3 DEF WorkerPhase, WorkerPhaseOf, TypeOK, stopped
<1>5. BatchPhase'
  BY <1>0 DEF BatchPhase, AllFinished, Items, CollectedResults, TypeOK
<1>6. ItemPhase' /\ SemaphoreBounded'
  BY <1>0, ItemFrame
<1>7. Custody'
  <2>1. \A c \in Batches, v \in Workers : Holds(v, c)' <=> Holds(v, c)
    BY <1>0 DEF Holds, TypeOK
  <2> QED
    BY <1>0, <1>3, <2>1, CustodyFrame
<1> QED
  BY <1>1, <1>2, <1>4, <1>5, <1>6, <1>7

\* A batch that starts to run preserves the invariant.
LEMMA StartBatchStep ==
  ASSUME IInv, NEW w \in Workers, StartBatch(w)
  PROVE  IInv'
<1> USE DEF IInv
<1>b. PICK b \in Batches : b = job[w]
  BY DEF StartBatch, WorkerPhase, WorkerPhaseOf, TypeOK
<1>0. /\ pc[w] = "claimed" /\ job[w] = b
      /\ Accepted(b) /\ state[b] = "queued"
      /\ state' = [state EXCEPT ![b] = "running"]
      /\ pc' = [pc EXCEPT ![w] = "feeding"]
      /\ UNCHANGED <<stop, submit, results, queue, job, item, posts, received>>
  BY <1>b DEF StartBatch, WorkerPhase, WorkerPhaseOf, TypeOK, clientVars, hookVars
<1>1. TypeOK'
  BY <1>0 DEF TypeOK
<1>2. SubmitPhase'
  BY <1>0 DEF SubmitPhase, Accepted, TypeOK
<1>3. /\ \A c \in Batches : Accepted(c)' <=> Accepted(c)
      /\ \A c \in Batches, v \in Workers : Holds(v, c)' <=> Holds(v, c)
      /\ \A c \in Batches : Enqueued(c)' <=> Enqueued(c)
  BY <1>0 DEF Accepted, Holds, Enqueued, TypeOK
<1>4. \A v \in Workers : Holds(v, b) => v = w
  BY <1>0 DEF Custody, Holds
<1>5. WorkerPhase'
  <2>1. \A v \in Workers : v # w /\ pc[v] \in {"claimed", "feeding", "posting"} =>
           job[v] \in Batches /\ state'[job[v]] = state[job[v]]
    BY <1>0, <1>4 DEF Holds, WorkerPhase, WorkerPhaseOf, TypeOK
  <2> QED
    BY <1>0, <1>3, <2>1 DEF WorkerPhase, WorkerPhaseOf, TypeOK, stopped
<1>6. BatchPhase'
  BY <1>0 DEF BatchPhase, AllFinished, Items, CollectedResults, TypeOK
<1>7. ItemPhase' /\ SemaphoreBounded'
  BY <1>0, ItemFrame
<1>8. Custody'
  <2>1. Holds(w, b)
    BY <1>0 DEF Holds
  <2>2. ~Enqueued(b)
    BY <1>0, <2>1 DEF Custody
  <2> QED
    BY <1>0, <1>3, <2>1, <2>2 DEF Custody, TypeOK
<1> QED
  BY <1>1, <1>2, <1>5, <1>6, <1>7, <1>8

\* What ItemPhase asks of a goroutine that has been launched.
Advanced(g) ==
  /\ g.pc # "pending"
  /\ g.pc \in {"verifying", "backoff"} => g.attempts <= RetryMax
  /\ g.pc = "finished" => /\ g.verdict \in Verdicts
                          /\ g.attempts >= 1
                          /\ g.verdict = "retryable" => g.attempts = RetryMax + 1

\* A step of a single goroutine of a running batch, which reaches the state g.
LEMMA GoroutineStep ==
  ASSUME IInv,
         NEW b \in Batches, NEW i \in Items(b), NEW g \in ItemStates,
         state[b] = "running",
         item' = [item EXCEPT ![b] = [item[b] EXCEPT ![i] = g]],
         UNCHANGED <<stop, submit, state, results, queue, pc, job, posts, received>>,
         Advanced(g),
         Cardinality(InFlight(b)') <= ItemConc
  PROVE  IInv'
<1> USE DEF IInv
<1>1. i \in 1..MaxItems
  BY ItemsInRange
<1>2. TypeOK'
  BY <1>1 DEF TypeOK
<1>3. /\ item'[b][i] = g
      /\ \A c \in Batches, j \in 1..MaxItems : c # b \/ j # i => item'[c][j] = item[c][j]
  BY <1>1 DEF TypeOK
<1>4. SubmitPhase'
  BY DEF SubmitPhase
<1>5. \A c \in Batches : Accepted(c)' <=> Accepted(c)
  BY DEF Accepted
<1>6. WorkerPhase'
  BY <1>5 DEF WorkerPhase, WorkerPhaseOf, TypeOK, stopped
<1>7. BatchPhase'
  <2>1. \A c \in Batches : state[c] # "running" => \A j \in 1..MaxItems : item'[c][j] = item[c][j]
    BY <1>3
  <2>2. \A c \in Batches : state[c] = "done" =>
           AllFinished(c)' /\ CollectedResults(c)' = CollectedResults(c)
    <3> SUFFICES ASSUME NEW c \in Batches, state[c] = "done"
                 PROVE  AllFinished(c)' /\ CollectedResults(c)' = CollectedResults(c)
      OBVIOUS
    <3>1. Items(c)' = Items(c)
      BY DEF Items
    <3>2. \A j \in Items(c) : item'[c][j] = item[c][j]
      BY <2>1, ItemsInRange
    <3>3. AllFinished(c)'
      BY <3>1, <3>2 DEF BatchPhase, AllFinished
    <3>4. CollectedResults(c)' = CollectedResults(c)
      BY <3>1, <3>2 DEF CollectedResults
    <3> QED
      BY <3>3, <3>4
  <2> QED
    BY <2>1, <2>2 DEF BatchPhase
<1>8. ItemPhase'
  BY <1>3 DEF ItemPhase, Items, Advanced
<1>9. SemaphoreBounded'
  <2>1. \A c \in Batches : c # b => InFlight(c)' = InFlight(c)
    BY <1>3, ItemsInRange DEF InFlight, Items
  <2> QED
    BY <2>1 DEF SemaphoreBounded
<1>10. Custody'
  <2>1. \A c \in Batches, v \in Workers : Holds(v, c)' <=> Holds(v, c)
    BY DEF Holds
  <2> QED
    BY <1>5, <2>1, CustodyFrame
<1> QED
  BY <1>2, <1>4, <1>6, <1>7, <1>8, <1>9, <1>10

\* A launch preserves the invariant: it takes one free token.
LEMMA LaunchStep ==
  ASSUME IInv, NEW w \in Workers, NEW i \in 1..MaxItems, Launch(w, i)
  PROVE  IInv'
<1> USE DEF IInv
<1>a. pc[w] = "feeding"
  BY DEF Launch
<1>b. PICK b \in Batches : b = job[w]
  BY <1>a, BusyWorker
<1>g. PICK g : g = [item[b][i] EXCEPT !.pc = "verifying"]
  OBVIOUS
<1>0. /\ pc[w] = "feeding" /\ i \in Items(b)
      /\ item[b][i].pc = "pending"
      /\ Cardinality(InFlight(b)) < ItemConc
      /\ item' = [item EXCEPT ![b] = [item[b] EXCEPT ![i] = g]]
      /\ UNCHANGED <<stop, submit, state, results, queue, pc, job, posts, received>>
  BY <1>b, <1>g DEF Launch, TokenFree, clientVars, batchVars, hookVars, TypeOK
<1>1. item[b][i] \in ItemStates /\ item[b][i].attempts = 0
  BY <1>0 DEF TypeOK, ItemPhase
<1>2. g \in ItemStates /\ g.pc = "verifying" /\ g.attempts <= RetryMax
  BY <1>1, <1>g, JobsAssumption DEF ItemStates
<1>2a. Advanced(g)
  BY <1>2 DEF Advanced
<1>3. state[b] = "running"
  BY <1>0, <1>b DEF WorkerPhase, WorkerPhaseOf
<1>4. Cardinality(InFlight(b)') <= ItemConc
  <2>1. InFlight(b)' = InFlight(b) \cup {i}
    BY <1>0, <1>2, ItemsInRange DEF InFlight, Items, TypeOK
  <2>2. IsFiniteSet(InFlight(b)) /\ i \notin InFlight(b)
    BY <1>0, InFlightFinite DEF InFlight
  <2>3. Cardinality(InFlight(b)') = Cardinality(InFlight(b)) + 1
    BY <2>1, <2>2, FS_AddElement
  <2>4. Cardinality(InFlight(b)) \in Nat
    BY <2>2, FS_CardinalityType
  <2> QED
    BY <1>0, <2>3, <2>4, JobsAssumption
<1> QED
  BY <1>0, <1>2, <1>2a, <1>3, <1>4, GoroutineStep

\* Verify answers or a backoff ends: no token is taken.
LEMMA VerificationStep ==
  ASSUME IInv, NEW b \in Batches, NEW i \in 1..MaxItems, Verification(b, i)
  PROVE  IInv'
<1> USE DEF IInv
<1>1. item[b][i] \in ItemStates
  BY DEF TypeOK
<1>2. PICK g \in ItemStates :
        /\ item' = [item EXCEPT ![b] = [item[b] EXCEPT ![i] = g]]
        /\ Advanced(g)
  <2>1. CASE Retry(b, i)
    <3> DEFINE g == [item[b][i] EXCEPT !.pc = "verifying"]
    <3>1. item' = [item EXCEPT ![b] = [item[b] EXCEPT ![i] = g]]
      BY <2>1 DEF Retry, TypeOK
    <3>2. item[b][i].attempts <= RetryMax
      BY <2>1 DEF Retry, ItemPhase
    <3>3. g \in ItemStates /\ Advanced(g)
      BY <1>1, <3>2 DEF ItemStates, Advanced
    <3> QED
      BY <3>1, <3>3
  <2>2. ASSUME NEW v \in Verdicts, Verified(b, i, v)
        PROVE  \E g \in ItemStates :
                 /\ item' = [item EXCEPT ![b] = [item[b] EXCEPT ![i] = g]]
                 /\ Advanced(g)
    <3> DEFINE n == item[b][i].attempts + 1
    <3>0. PICK h : h = [pc |-> IF MayRetry(v, n) THEN "backoff" ELSE "finished",
                        attempts |-> n, verdict |-> v]
      OBVIOUS
    <3>1. item' = [item EXCEPT ![b] = [item[b] EXCEPT ![i] = h]]
      BY <2>2, <3>0 DEF Verified, TypeOK
    <3>2. n \in 1..(RetryMax + 1)
      BY <1>1, <2>2, JobsAssumption DEF Verified, ItemPhase, ItemStates
    <3>3. h \in ItemStates
      BY <3>0, <3>2, JobsAssumption DEF ItemStates
    <3>4. MayRetry(v, n) => n <= RetryMax
      BY DEF MayRetry
    <3>5. ~MayRetry(v, n) /\ v = "retryable" => n = RetryMax + 1
      BY <3>2, JobsAssumption DEF MayRetry
    <3>6. h.attempts = n /\ h.verdict = v
      BY <3>0
    <3>7. CASE MayRetry(v, n)
      <4>1. h.pc = "backoff"
        BY <3>0, <3>7
      <4> QED
        BY <3>1, <3>3, <3>4, <3>6, <3>7, <4>1 DEF Advanced
    <3>8. CASE ~MayRetry(v, n)
      <4>1. h.pc = "finished"
        BY <3>0, <3>8
      <4>2. h.verdict \in Verdicts /\ h.attempts >= 1
        BY <3>2, <3>6, JobsAssumption
      <4>3. h.verdict = "retryable" => h.attempts = RetryMax + 1
        BY <3>5, <3>6, <3>8
      <4>4. Advanced(h)
        BY <4>1, <4>2, <4>3 DEF Advanced
      <4> QED
        BY <3>1, <3>3, <4>4
    <3> QED
      BY <3>7, <3>8
  <2> QED
    BY <2>1, <2>2 DEF Verification
<1>3. /\ item[b][i].pc \in {"verifying", "backoff"}
      /\ UNCHANGED <<stop, submit, state, results, queue, pc, job, posts, received>>
  BY DEF Verification, Retry, Verified, clientVars, batchVars, hookVars
<1>4. i \in Items(b)
  BY <1>3 DEF ItemPhase
<1>5. state[b] = "running"
  <2>1. state[b] \notin {"absent", "queued"}
    BY <1>3 DEF BatchPhase
  <2>2. state[b] # "done"
    BY <1>3, <1>4 DEF BatchPhase, AllFinished
  <2> QED
    BY <2>1, <2>2 DEF TypeOK
<1>6. Cardinality(InFlight(b)') <= ItemConc
  <2>1. InFlight(b)' \subseteq InFlight(b)
    BY <1>2, <1>3, <1>4, ItemsInRange DEF InFlight, Items, TypeOK
  <2>2. IsFiniteSet(InFlight(b))
    BY InFlightFinite
  <2>3. /\ Cardinality(InFlight(b)') <= Cardinality(InFlight(b))
        /\ Cardinality(InFlight(b)) \in Nat /\ Cardinality(InFlight(b)') \in Nat
    BY <2>1, <2>2, FS_Subset, FS_CardinalityType
  <2> QED
    BY <2>3, JobsAssumption DEF SemaphoreBounded
<1> QED
  BY <1>2, <1>3, <1>4, <1>5, <1>6, GoroutineStep

\* The critical section that publishes results preserves the invariant.
LEMMA PublishStep ==
  ASSUME IInv, NEW w \in Workers, Publish(w)
  PROVE  IInv'
<1> USE DEF IInv
<1>a. pc[w] = "feeding"
  BY DEF Publish
<1>b. PICK b \in Batches : b = job[w]
  BY <1>a, BusyWorker
<1>r. PICK r : r = CollectedResults(b)
  OBVIOUS
<1>0. /\ job[w] = b /\ state[b] = "running" /\ AllFinished(b)
      /\ results' = [results EXCEPT ![b] = r]
      /\ state' = [state EXCEPT ![b] = "done"]
      /\ \/ /\ b \in Notified
            /\ pc' = [pc EXCEPT ![w] = "posting"]
            /\ job' = job
         \/ /\ pc' = [pc EXCEPT ![w] = "receive"]
            /\ job' = [job EXCEPT ![w] = NoBatch]
      /\ UNCHANGED <<stop, submit, queue, item, posts, received>>
  BY <1>a, <1>b, <1>r DEF Publish, WorkerPhase, WorkerPhaseOf, clientVars, hookVars
<1>1. r \in Seq(ItemResults)
  <2>1. \A i \in Items(b) :
           [verdict |-> item[b][i].verdict, attempts |-> item[b][i].attempts] \in ItemResults
    <3> SUFFICES ASSUME NEW i \in Items(b)
                 PROVE  [verdict |-> item[b][i].verdict,
                         attempts |-> item[b][i].attempts] \in ItemResults
      OBVIOUS
    <3>1. i \in 1..MaxItems /\ item[b][i].pc = "finished"
      BY <1>0, ItemsInRange DEF AllFinished
    <3>2. /\ item[b][i].verdict \in Verdicts
          /\ item[b][i].attempts >= 1
          /\ item[b][i] \in ItemStates
      BY <3>1 DEF ItemPhase, TypeOK
    <3> QED
      BY <3>2, JobsAssumption DEF ItemStates, ItemResults
  <2>2. r \in [1..Total[b] -> ItemResults] /\ Total[b] \in Nat
    BY <1>r, <2>1, JobsAssumption DEF CollectedResults, Items
  <2> QED
    BY <2>2
<1>2. TypeOK'
  BY <1>0, <1>1 DEF TypeOK
<1>3. SubmitPhase'
  BY <1>0 DEF SubmitPhase, TypeOK
<1>5. \A v \in Workers : v # w /\ pc[v] \in {"claimed", "feeding", "posting"} =>
         job[v] \in Batches /\ job[v] # b
  BY <1>0, <1>a DEF Custody, Holds, WorkerPhase, WorkerPhaseOf, TypeOK
<1>6. \A c \in Batches : Accepted(c)' <=> Accepted(c)
  BY <1>0 DEF Accepted
<1>7. \A v \in Workers : v # w => pc'[v] = pc[v] /\ job'[v] = job[v]
  BY <1>0 DEF TypeOK
<1>8. \A c \in Batches : c # b => state'[c] = state[c] /\ results'[c] = results[c]
  BY <1>0 DEF TypeOK
<1>9. state'[b] = "done" /\ results'[b] = r
  BY <1>0 DEF TypeOK
<1>10. posts[b] = 0
  BY <1>0 DEF BatchPhase, TypeOK
<1>11. WorkerPhase'
  <2>1. ASSUME NEW v \in Workers, v # w
        PROVE  WorkerPhaseOf(v)'
    <3>1. WorkerPhaseOf(v)
      BY DEF WorkerPhase
    <3>2. pc[v] \in {"claimed", "feeding", "posting"} => state'[job[v]] = state[job[v]]
      BY <1>5, <1>8, <2>1
    <3> QED
      BY <1>0, <1>6, <1>7, <1>5, <2>1, <3>1, <3>2 DEF WorkerPhaseOf, stopped
  <2>2. WorkerPhaseOf(w)'
    <3>1. CASE b \in Notified /\ pc' = [pc EXCEPT ![w] = "posting"] /\ job' = job
      <4>1. pc'[w] = "posting" /\ job'[w] = b
        BY <1>0, <3>1 DEF TypeOK
      <4> QED
        BY <1>0, <1>9, <1>10, <3>1, <4>1, JobsAssumption DEF WorkerPhaseOf
    <3>2. CASE pc' = [pc EXCEPT ![w] = "receive"] /\ job' = [job EXCEPT ![w] = NoBatch]
      <4>1. pc'[w] = "receive" /\ job'[w] = NoBatch
        BY <3>2 DEF TypeOK
      <4> QED
        BY <4>1 DEF WorkerPhaseOf
    <3> QED
      BY <1>0, <3>1, <3>2
  <2> QED
    BY <2>1, <2>2 DEF WorkerPhase
<1>12. BatchPhase'
  <2>1. \A c \in Batches : Items(c)' = Items(c) /\ (AllFinished(c)' <=> AllFinished(c))
                          /\ CollectedResults(c)' = CollectedResults(c)
    BY <1>0 DEF Items, AllFinished, CollectedResults
  <2>2. \A c \in Batches, v \in Workers :
           c # b /\ pc[v] = "feeding" /\ job[v] = c => pc'[v] = "feeding" /\ job'[v] = c
    BY <1>0, <1>7
  <2> QED
    BY <1>0, <1>8, <1>9, <1>r, <2>1, <2>2 DEF BatchPhase
<1>13. ItemPhase' /\ SemaphoreBounded'
  BY <1>0, ItemFrame
<1>14. Custody'
  <2>1. \A c \in Batches, v \in Workers : c # b => (Holds(v, c)' <=> Holds(v, c))
    <3>1. \A c \in Batches : c # b => ~Holds(w, c) /\ ~Holds(w, c)'
      BY <1>0, JobsAssumption DEF Holds, TypeOK
    <3> QED
      BY <1>7, <3>1 DEF Holds
  <2>2. \A v \in Workers : Holds(v, b)' => v = w
    BY <1>5, <1>7 DEF Holds
  <2>3. \A c \in Batches : Enqueued(c)' <=> Enqueued(c)
    BY <1>0 DEF Enqueued
  <2>4. ~Enqueued(b)
    BY <1>0 DEF Custody
  <2>5. \A c \in Batches :
           Accepted(c)' => Enqueued(c)' \/ (\E v \in Workers : Holds(v, c)') \/ state'[c] = "done"
    BY <1>6, <1>8, <1>9, <2>1, <2>3 DEF Custody
  <2>6. \A c \in Batches : Enqueued(c)' =>
           Accepted(c)' /\ state'[c] = "queued" /\ ~\E v \in Workers : Holds(v, c)'
    BY <1>6, <1>8, <2>1, <2>3, <2>4 DEF Custody
  <2>7. \A v, u \in Workers, c \in Batches : Holds(v, c)' /\ Holds(u, c)' => v = u
    BY <2>1, <2>2 DEF Custody
  <2> QED
    BY <1>0, <2>5, <2>6, <2>7 DEF Custody
<1> QED
  BY <1>2, <1>3, <1>11, <1>12, <1>13, <1>14

\* A webhook post, or the decision not to make one.
LEMMA PostStep ==
  ASSUME IInv, NEW w \in Workers,
         PostUnbuildable(w) \/ \E outcome \in PostOutcomes : Post(w, outcome)
  PROVE  IInv'
<1> USE DEF IInv
<1>a. pc[w] = "posting"
  BY DEF PostUnbuildable, Post
<1>b. PICK b \in Batches : b = job[w]
  BY <1>a, BusyWorker
<1>0. /\ job[w] = b /\ state[b] = "done" /\ b \in Notified /\ posts[b] <= WebhookRetries
      /\ \/ /\ pc' = pc /\ job' = job
            /\ posts'[b] <= WebhookRetries
         \/ /\ pc' = [pc EXCEPT ![w] = "receive"]
            /\ job' = [job EXCEPT ![w] = NoBatch]
      /\ \/ posts' = posts /\ received' = received
         \/ /\ posts' = [posts EXCEPT ![b] = posts[b] + 1]
            /\ received' = received \/ received' = [received EXCEPT ![b] = received[b] + 1]
      /\ UNCHANGED <<stop, submit, state, results, queue, item>>
  <2>1. state[b] = "done" /\ b \in Notified /\ posts[b] <= WebhookRetries
    BY <1>a, <1>b DEF WorkerPhase, WorkerPhaseOf
  <2>2. CASE PostUnbuildable(w)
    BY <1>b, <2>1, <2>2 DEF PostUnbuildable, clientVars, batchVars, hookVars
  <2>3. ASSUME NEW outcome \in PostOutcomes, Post(w, outcome)
        PROVE  /\ posts' = [posts EXCEPT ![b] = posts[b] + 1]
               /\ received' = received \/ received' = [received EXCEPT ![b] = received[b] + 1]
               /\ \/ pc' = pc /\ job' = job /\ posts[b] + 1 <= WebhookRetries
                  \/ /\ pc' = [pc EXCEPT ![w] = "receive"]
                     /\ job' = [job EXCEPT ![w] = NoBatch]
               /\ UNCHANGED <<stop, submit, state, results, queue, item>>
    <3>1. /\ posts' = [posts EXCEPT ![b] = posts[b] + 1]
          /\ received' = received \/ received' = [received EXCEPT ![b] = received[b] + 1]
          /\ UNCHANGED <<stop, submit, state, results, queue, item>>
      BY <1>b, <2>3 DEF Post, clientVars, batchVars
    <3>2. CASE outcome # "acknowledged" /\ MayPostAgain(posts[b] + 1)
      <4>1. pc' = pc /\ job' = job
        BY <1>b, <2>3, <3>2 DEF Post
      <4> QED
        BY <3>1, <3>2, <4>1 DEF MayPostAgain
    <3>3. CASE ~(outcome # "acknowledged" /\ MayPostAgain(posts[b] + 1))
      <4>1. /\ pc' = [pc EXCEPT ![w] = "receive"]
            /\ job' = [job EXCEPT ![w] = NoBatch]
        BY <1>b, <2>3, <3>3 DEF Post
      <4> QED
        BY <3>1, <4>1
    <3> QED
      BY <3>2, <3>3
  <2>4. posts' = [posts EXCEPT ![b] = posts[b] + 1] => posts'[b] = posts[b] + 1
    BY DEF TypeOK
  <2> QED
    BY <1>b, <2>1, <2>2, <2>3, <2>4
<1>1. /\ posts[b] \in 0..WebhookRetries /\ received[b] \in 0..posts[b]
      /\ posts[b] + 1 \in 0..(WebhookRetries + 1)
      /\ received[b] + 1 \in 0..(WebhookRetries + 1)
  BY <1>0, JobsAssumption DEF TypeOK, BatchPhase
<1>2. TypeOK'
  <2>1. pc' \in [Workers -> {"receive", "claimed", "feeding", "posting", "exited"}]
        /\ job' \in [Workers -> Batches \cup {NoBatch}]
    BY <1>0 DEF TypeOK
  <2>2. posts' \in [Batches -> 0..(WebhookRetries + 1)]
        /\ received' \in [Batches -> 0..(WebhookRetries + 1)]
    <3>1. [posts EXCEPT ![b] = posts[b] + 1] \in [Batches -> 0..(WebhookRetries + 1)]
      BY <1>1 DEF TypeOK
    <3>2. [received EXCEPT ![b] = received[b] + 1] \in [Batches -> 0..(WebhookRetries + 1)]
      BY <1>1 DEF TypeOK
    <3>3. posts \in [Batches -> 0..(WebhookRetries + 1)]
          /\ received \in [Batches -> 0..(WebhookRetries + 1)]
      BY DEF TypeOK
    <3> QED
      BY <1>0, <3>1, <3>2, <3>3
  <2> QED
    BY <1>0, <2>1, <2>2 DEF TypeOK
<1>3. SubmitPhase'
  BY <1>0 DEF SubmitPhase
<1>4. \A c \in Batches : Accepted(c)' <=> Accepted(c)
  BY <1>0 DEF Accepted
<1>5. \A c \in Batches : c # b => posts'[c] = posts[c] /\ received'[c] = received[c]
  BY <1>0 DEF TypeOK
<1>6. \A v \in Workers : v # w => pc'[v] = pc[v] /\ job'[v] = job[v]
  BY <1>0 DEF TypeOK
<1>7. WorkerPhase'
  <2>1. ASSUME NEW v \in Workers, v # w
        PROVE  WorkerPhaseOf(v)'
    <3>1. WorkerPhaseOf(v)
      BY DEF WorkerPhase
    <3>2. pc[v] = "posting" => job[v] \in Batches /\ job[v] # b
      BY <1>0, <1>a, <2>1, BusyWorker DEF Custody, Holds
    <3>3. pc[v] = "claimed" => job[v] \in Batches
      BY BusyWorker
    <3> QED
      BY <1>0, <1>4, <1>5, <1>6, <2>1, <3>1, <3>2, <3>3 DEF WorkerPhaseOf, stopped
  <2>2. WorkerPhaseOf(w)'
    <3>1. CASE pc' = pc /\ job' = job /\ posts'[b] <= WebhookRetries
      BY <1>0, <1>a, <3>1, JobsAssumption DEF WorkerPhaseOf
    <3>2. CASE pc' = [pc EXCEPT ![w] = "receive"] /\ job' = [job EXCEPT ![w] = NoBatch]
      <4>1. pc'[w] = "receive" /\ job'[w] = NoBatch
        BY <3>2 DEF TypeOK
      <4> QED
        BY <4>1 DEF WorkerPhaseOf
    <3> QED
      BY <1>0, <3>1, <3>2
  <2> QED
    BY <2>1, <2>2 DEF WorkerPhase
<1>8. BatchPhase'
  <2>1. \A c \in Batches : Items(c)' = Items(c) /\ (AllFinished(c)' <=> AllFinished(c))
                          /\ CollectedResults(c)' = CollectedResults(c)
    BY <1>0 DEF Items, AllFinished, CollectedResults
  <2>2. \A c \in Batches, v \in Workers :
           pc[v] = "feeding" /\ job[v] = c => pc'[v] = "feeding" /\ job'[v] = c
    BY <1>a, <1>6
  <2>3. received'[b] <= posts'[b]
    BY <1>0, <1>1 DEF TypeOK
  <2> QED
    BY <1>0, <1>5, <2>1, <2>2, <2>3 DEF BatchPhase
<1>9. ItemPhase' /\ SemaphoreBounded'
  BY <1>0, ItemFrame
<1>10. Custody'
  <2>1. \A c \in Batches, v \in Workers : c # b => (Holds(v, c)' <=> Holds(v, c))
    <3>1. \A c \in Batches : c # b => ~Holds(w, c) /\ ~Holds(w, c)'
      BY <1>0, JobsAssumption DEF Holds, TypeOK
    <3> QED
      BY <1>6, <3>1 DEF Holds
  <2>2. \A v \in Workers : Holds(v, b)' => Holds(v, b)
    BY <1>0, <1>a, <1>6 DEF Holds, TypeOK
  <2>3. \A c \in Batches : Enqueued(c)' <=> Enqueued(c)
    BY <1>0 DEF Enqueued
  <2>5. \A c \in Batches :
           Accepted(c)' => Enqueued(c)' \/ (\E v \in Workers : Holds(v, c)') \/ state'[c] = "done"
    BY <1>0, <1>4, <2>1, <2>3 DEF Custody
  <2>6. \A c \in Batches : Enqueued(c)' =>
           Accepted(c)' /\ state'[c] = "queued" /\ ~\E v \in Workers : Holds(v, c)'
    BY <1>0, <1>4, <2>1, <2>2, <2>3 DEF Custody
  <2>7. \A v, u \in Workers, c \in Batches : Holds(v, c)' /\ Holds(u, c)' => v = u
    BY <2>1, <2>2 DEF Custody
  <2> QED
    BY <1>0, <2>5, <2>6, <2>7 DEF Custody
<1> QED
  BY <1>2, <1>3, <1>7, <1>8, <1>9, <1>10

\* Stop moves on, or nothing happens at all.
LEMMA StopStep ==
  ASSUME IInv, CloseQueue \/ StopReturns \/ UNCHANGED vars
  PROVE  IInv'
<1> USE DEF IInv
<1>0. /\ stop' \in {"uncalled", "waiting", "returned"}
      /\ stopped => stopped'
      /\ UNCHANGED <<submit, state, results, queue, pc, job, item, posts, received>>
  BY DEF CloseQueue, StopReturns, vars, batchVars, hookVars, stopped, TypeOK
<1>1. TypeOK'
  BY <1>0 DEF TypeOK
<1>2. SubmitPhase'
  BY <1>0 DEF SubmitPhase
<1>3. \A c \in Batches : Accepted(c)' <=> Accepted(c)
  BY <1>0 DEF Accepted
<1>4. WorkerPhase'
  BY <1>0, <1>3, BusyWorker DEF WorkerPhase, WorkerPhaseOf
<1>5. BatchPhase'
  BY <1>0 DEF BatchPhase, AllFinished, Items, CollectedResults
<1>6. ItemPhase' /\ SemaphoreBounded'
  BY <1>0, ItemFrame
<1>7. Custody'
  <2>1. \A c \in Batches, v \in Workers : Holds(v, c)' <=> Holds(v, c)
    BY <1>0 DEF Holds
  <2> QED
    BY <1>0, <1>3, <2>1, CustodyFrame
<1> QED
  BY <1>1, <1>2, <1>4, <1>5, <1>6, <1>7

-----------------------------------------------------------------------------
(***************************************************************************)
(* The theorems.                                                           *)
(***************************************************************************)

\* Every reachable state of the batch manager satisfies IInv, whatever the
\* number of batches, workers, emails and retries and the capacity of the
\* channel.
THEOREM Inductive == Spec => []IInv
<1>1. Init => IInv
  BY InitIInv
<1>2. IInv /\ [Next]_vars => IInv'
  <2> SUFFICES ASSUME IInv, [Next]_vars PROVE IInv'
    OBVIOUS
  <2>1. ASSUME NEW b \in Batches, Submit(b) PROVE IInv'
    BY <2>1, RegisterStep, EnqueueStep, SubmitEndStep DEF Submit
  <2>2. ASSUME NEW w \in Workers, Worker(w) PROVE IInv'
    BY <2>2, ReceiveStep, ExitStep, StartBatchStep, LaunchStep, PublishStep, PostStep
       DEF Worker
  <2>3. ASSUME NEW b \in Batches, NEW i \in 1..MaxItems, Verification(b, i) PROVE IInv'
    BY <2>3, VerificationStep
  <2>4. CASE CloseQueue \/ StopReturns \/ UNCHANGED vars
    BY <2>4, StopStep
  <2>5. CASE Terminated
    BY <2>5, StopStep DEF Terminated
  <2> QED
    BY <2>1, <2>2, <2>3, <2>4, <2>5 DEF Next
<1> QED
  BY <1>1, <1>2, PTL DEF Spec

\* The variables keep their types: in particular the counters of attempts and
\* of webhook posts never leave their bounds.
THEOREM TypeCorrect == Spec => []TypeOK
BY Inductive, PTL DEF IInv

\* No batch accepted by Submit is lost and none is in two pairs of hands.
THEOREM CustodyHolds == Spec => []Custody
BY Inductive, PTL DEF IInv

\* Results are visible all together, and only with the state done.
THEOREM ResultsWhole == Spec => []ResultsAppearWhole
<1>1. IInv => ResultsAppearWhole
  BY DEF IInv, TypeOK, BatchPhase, ResultsAppearWhole, CollectedResults, AllFinished
<1> QED
  BY <1>1, Inductive, PTL

\* The semaphore bounds the verifications of a batch, and no goroutine outlives
\* the stay of its worker in the batch.
THEOREM ConcurrencyHolds == Spec => []ConcurrencyBounded
<1>1. IInv => ConcurrencyBounded
  <2> SUFFICES ASSUME IInv, NEW b \in Batches, InFlight(b) # {}
               PROVE  \E w \in Workers : pc[w] = "feeding" /\ job[w] = b
    BY DEF IInv, ConcurrencyBounded, SemaphoreBounded
  <2>1. PICK i \in Items(b) : item[b][i].pc \in {"verifying", "backoff"}
    BY DEF InFlight
  <2>2. i \in 1..MaxItems
    BY ItemsInRange
  <2>3. state[b] \notin {"absent", "queued"}
    BY <2>1, <2>2 DEF IInv, BatchPhase
  <2>4. state[b] # "done"
    BY <2>1 DEF IInv, BatchPhase, AllFinished
  <2>5. state[b] = "running"
    BY <2>3, <2>4 DEF IInv, TypeOK
  <2> QED
    BY <2>5 DEF IInv, BatchPhase
<1> QED
  BY <1>1, Inductive, PTL

\* A published retryable verdict has used all its retries.
THEOREM RetriesHold == Spec => []RetriesExhausted
<1>1. IInv => RetriesExhausted
  <2> SUFFICES ASSUME IInv, NEW b \in Batches, NEW i \in DOMAIN results[b],
                      results[b][i].verdict = "retryable"
               PROVE  results[b][i].attempts = RetryMax + 1
    BY DEF RetriesExhausted
  <2>1. results[b] = IF state[b] = "done" THEN CollectedResults(b) ELSE <<>>
    BY DEF IInv, BatchPhase
  <2>2. state[b] = "done" /\ results[b] = CollectedResults(b)
    BY <2>1
  <2>3. /\ i \in Items(b)
        /\ results[b][i].verdict = item[b][i].verdict
        /\ results[b][i].attempts = item[b][i].attempts
    BY <2>2 DEF CollectedResults
  <2>4. i \in 1..MaxItems
    BY <2>3, ItemsInRange
  <2>5. item[b][i].pc = "finished"
    BY <2>2, <2>3 DEF IInv, BatchPhase, AllFinished
  <2> QED
    BY <2>3, <2>4, <2>5 DEF IInv, ItemPhase
<1> QED
  BY <1>1, Inductive, PTL

\* A receiver hears of a batch only when it can fetch all of it, and at most
\* WebhookRetries + 1 times.
THEOREM WebhookHolds == Spec => []WebhookAfterResults
<1>1. IInv => WebhookAfterResults
  <2> SUFFICES ASSUME IInv, NEW b \in Batches
               PROVE  /\ received[b] > 0 => b \in Notified /\ state[b] = "done"
                      /\ received[b] <= posts[b]
                      /\ posts[b] <= WebhookRetries + 1
    BY DEF WebhookAfterResults
  <2>1. posts[b] \in 0..(WebhookRetries + 1) /\ received[b] \in 0..(WebhookRetries + 1)
    BY DEF IInv, TypeOK
  <2>2. /\ received[b] <= posts[b]
        /\ posts[b] > 0 => b \in Notified /\ state[b] = "done"
    BY DEF IInv, BatchPhase
  <2> QED
    BY <2>1, <2>2, JobsAssumption
<1> QED
  BY <1>1, Inductive, PTL

\* A batch that is done is never touched again, by any step of any goroutine.
LEMMA DoneStays ==
  ASSUME IInv, Next, NEW b \in Batches, state[b] = "done"
  PROVE  state'[b] = "done" /\ results'[b] = results[b]
<1> USE DEF IInv
<1>1. ASSUME NEW c \in Batches, Submit(c)
      PROVE  state'[b] = "done" /\ results'[b] = results[b]
  <2>1. CASE Register(c)
    <3>1. results' = results /\ submit[c] = "uncalled"
      BY <2>1 DEF Register, batchVars
    <3>2. b # c
      BY <3>1 DEF SubmitPhase
    <3> QED
      BY <2>1, <3>1, <3>2 DEF Register, TypeOK
  <2>2. CASE Enqueue(c) \/ SendPanics(c) \/ SubmitReturns(c)
    BY <2>2 DEF Enqueue, SendPanics, SubmitReturns, batchVars
  <2> QED
    BY <1>1, <2>1, <2>2 DEF Submit
<1>2. ASSUME NEW w \in Workers, Worker(w)
      PROVE  state'[b] = "done" /\ results'[b] = results[b]
  <2>1. CASE StartBatch(w)
    <3>1. pc[w] = "claimed" /\ state' = [state EXCEPT ![job[w]] = "running"] /\ results' = results
      BY <2>1 DEF StartBatch
    <3>2. job[w] # b
      BY <3>1 DEF WorkerPhase, WorkerPhaseOf
    <3> QED
      BY <3>1, <3>2 DEF TypeOK
  <2>2. CASE Publish(w)
    <3>1. /\ pc[w] = "feeding"
          /\ state' = [state EXCEPT ![job[w]] = "done"]
          /\ results' = [results EXCEPT ![job[w]] = CollectedResults(job[w])]
      BY <2>2 DEF Publish
    <3>2. job[w] # b
      BY <3>1 DEF WorkerPhase, WorkerPhaseOf
    <3> QED
      BY <3>1, <3>2 DEF TypeOK
  <2>3. CASE Receive(w) \/ Exit(w) \/ (\E i \in 1..MaxItems : Launch(w, i))
             \/ (\E outcome \in PostOutcomes : Post(w, outcome)) \/ PostUnbuildable(w)
    BY <2>3 DEF Receive, Exit, Launch, Post, PostUnbuildable, batchVars
  <2> QED
    BY <1>2, <2>1, <2>2, <2>3 DEF Worker
<1>3. ASSUME NEW c \in Batches, NEW i \in 1..MaxItems, Verification(c, i)
      PROVE  state'[b] = "done" /\ results'[b] = results[b]
  BY <1>3 DEF Verification, Retry, Verified, batchVars
<1>4. CASE CloseQueue \/ StopReturns \/ Terminated
  BY <1>4 DEF CloseQueue, StopReturns, Terminated, batchVars, vars
<1> QED
  BY <1>1, <1>2, <1>3, <1>4 DEF Next

\* A batch whose status says done keeps that status and its results for good.
THEOREM DoneIsFinalHolds == Spec => DoneIsFinal
<1>1. IInv /\ [Next]_vars =>
        [\A b \in Batches : state[b] = "done" =>
            state'[b] = "done" /\ results'[b] = results[b]]_vars
  BY DoneStays
<1> QED
  BY <1>1, Inductive, PTL DEF Spec, DoneIsFinal

\* An exited worker never takes up work again.
LEMMA DrainInduction == Spec => []ReturnedAfterWorkers
<1>1. Init => ReturnedAfterWorkers
  BY DEF Init, ReturnedAfterWorkers
<1>2. IInv /\ ReturnedAfterWorkers /\ [Next]_vars => ReturnedAfterWorkers'
  <2> SUFFICES ASSUME IInv, ReturnedAfterWorkers, [Next]_vars, stop' = "returned"
               PROVE  WorkersGone'
    BY DEF ReturnedAfterWorkers
  <2>1. CASE stop = "returned"
    <3>1. WorkersGone
      BY <2>1 DEF ReturnedAfterWorkers
    <3>2. \A w \in Workers : ~Worker(w)
      BY <3>1 DEF WorkersGone, Worker, Receive, Exit, StartBatch, Launch, Publish,
                  Post, PostUnbuildable
    <3>3. pc' = pc
      BY <3>2 DEF Next, Submit, Register, Enqueue, SendPanics, SubmitReturns, Verification,
                  Retry, Verified, CloseQueue, StopReturns, Terminated, vars
    <3> QED
      BY <3>1, <3>3 DEF WorkersGone
  <2>2. CASE stop # "returned"
    <3>1. ~ \E w \in Workers : Worker(w)
      BY <2>2 DEF Worker, Receive, Exit, StartBatch, Launch, Publish, Post,
                  PostUnbuildable, clientVars
    <3>2. ~ \E b \in Batches, i \in 1..MaxItems : Verification(b, i)
      BY <2>2 DEF Verification, Retry, Verified, clientVars
    <3>3. ~ \E b \in Batches : Submit(b)
      BY <2>2 DEF Submit, Register, Enqueue, SendPanics, SubmitReturns
    <3>4. StopReturns
      BY <2>2, <3>1, <3>2, <3>3 DEF Next, CloseQueue, Terminated, vars
    <3> QED
      BY <3>4 DEF StopReturns, WorkersGone
  <2> QED
    BY <2>1, <2>2
<1> QED
  BY <1>1, <1>2, Inductive, PTL DEF Spec

\* Stop returns only over an idle manager in which every accepted batch is done.
THEOREM DrainHolds == Spec => []DrainKeepsAccepted
<1>3. IInv /\ ReturnedAfterWorkers => DrainKeepsAccepted
  <2> SUFFICES ASSUME IInv, ReturnedAfterWorkers, stop = "returned"
               PROVE  /\ \A b \in Batches : Accepted(b) => state[b] = "done"
                      /\ \A b \in Batches : InFlight(b) = {}
                      /\ \A w \in Workers : pc[w] = "exited"
    BY DEF DrainKeepsAccepted
  <2>1. \A w \in Workers : pc[w] = "exited"
    BY DEF ReturnedAfterWorkers, WorkersGone
  <2>2. queue = <<>>
    BY <2>1, JobsAssumption DEF IInv, WorkerPhase, WorkerPhaseOf
  <2>3. \A b \in Batches : ~Enqueued(b) /\ ~\E w \in Workers : Holds(w, b)
    BY <2>1, <2>2 DEF Enqueued, Holds
  <2>4. \A b \in Batches : Accepted(b) => state[b] = "done"
    BY <2>3 DEF IInv, Custody
  <2>5. ASSUME NEW b \in Batches
        PROVE  InFlight(b) = {}
    <3>1. state[b] # "running"
      BY <2>1 DEF IInv, BatchPhase
    <3>2. state[b] \in {"absent", "queued"} \/ state[b] = "done"
      BY <3>1 DEF IInv, TypeOK
    <3>3. state[b] \in {"absent", "queued"} => \A i \in Items(b) : item[b][i].pc = "pending"
      BY ItemsInRange DEF IInv, BatchPhase
    <3>4. state[b] = "done" => \A i \in Items(b) : item[b][i].pc = "finished"
      BY DEF IInv, BatchPhase, AllFinished
    <3> QED
      BY <3>2, <3>3, <3>4 DEF InFlight
  <2> QED
    BY <2>1, <2>4, <2>5
<1> QED
  BY <1>3, DrainInduction, Inductive, PTL

\* Some goroutine of the manager need not wait for another one: a worker that
\* starts, launches, publishes, posts, receives or leaves its loop, or the
\* goroutine of an email.
ManagerCanGo ==
  \/ \E w \in Workers :
       \/ pc[w] \in {"claimed", "posting"}
       \/ pc[w] = "receive" /\ (queue # <<>> \/ LoopEnds)
       \/ pc[w] = "feeding" /\ AllFinished(job[w])
       \/ /\ pc[w] = "feeding" /\ TokenFree(job[w])
          /\ \E i \in Items(job[w]) :
               /\ item[job[w]][i].pc = "pending"
               /\ \A j \in Items(job[w]) : j < i => item[job[w]][j].pc # "pending"
  \/ \E b \in Batches : \E i \in Items(b) : item[b][i].pc \in {"verifying", "backoff"}

\* A set of natural numbers that is not empty has a least element.
LEMMA Least ==
  ASSUME NEW S, S \subseteq Nat, S # {}
  PROVE  \E n \in S : \A m \in S : n <= m
<1> DEFINE less == OpToRel(<, Nat)
<1>1. less = {p \in Nat \X Nat : p[1] < p[2]}
  BY DEF OpToRel
<1>2. IsWellFoundedOn(less, Nat)
  BY NatLessThanWellFounded
<1> HIDE DEF less
<1>3. PICK n \in S : \A m \in S : <<m, n>> \notin less
  BY <1>2, WFMin
<1>4. ASSUME NEW m \in S
      PROVE  n <= m
  <2>1. <<m, n>> \in Nat \X Nat
    OBVIOUS
  <2>2. ~(m < n)
    BY <1>1, <1>3, <2>1
  <2> QED
    BY <2>2
<1> QED
  BY <1>4

\* A worker that feeds a batch can go on, or a goroutine of the batch can: with
\* no goroutine at work every token of the semaphore is free.
LEMMA FeederCanGo ==
  ASSUME IInv, NEW w \in Workers, pc[w] = "feeding"
  PROVE  ManagerCanGo
<1> DEFINE b == job[w]
           waiting == {i \in Items(b) : item[b][i].pc = "pending"}
<1>1. b \in Batches
  <2>1. job[w] \in Batches \cup {NoBatch}
    BY DEF IInv, TypeOK
  <2>2. WorkerPhaseOf(w)
    BY DEF IInv, WorkerPhase
  <2>3. job[w] # NoBatch
    BY <2>2 DEF WorkerPhaseOf
  <2> QED
    BY <2>1, <2>3
<1>2. CASE InFlight(b) # {}
  BY <1>1, <1>2 DEF InFlight, ManagerCanGo
<1>3. CASE InFlight(b) = {} /\ waiting = {}
  <2>1. ASSUME NEW i \in Items(b)
        PROVE  item[b][i].pc = "finished"
    <3>1. item[b][i] \in ItemStates
      BY <1>1, ItemsInRange DEF IInv, TypeOK
    <3>2. item[b][i].pc \in {"pending", "verifying", "backoff", "finished"}
      BY <3>1 DEF ItemStates
    <3> QED
      BY <1>3, <3>2 DEF InFlight
  <2> QED
    BY <2>1 DEF ManagerCanGo, AllFinished
<1>4. CASE InFlight(b) = {} /\ waiting # {}
  <2>1. TokenFree(b)
    BY <1>4, FS_EmptySet, JobsAssumption DEF TokenFree
  <2>2. waiting \subseteq Nat /\ \A i \in Items(b) : i \in Nat
    BY <1>1, JobsAssumption DEF Items
  <2>3. PICK i \in waiting : \A j \in waiting : i <= j
    <3> HIDE DEF waiting
    <3> QED
      BY <1>4, <2>2, Least
  <2>4. \A j \in Items(b) : j < i => item[b][j].pc # "pending"
    BY <2>2, <2>3
  <2> QED
    BY <2>1, <2>3, <2>4 DEF ManagerCanGo
<1> QED
  BY <1>2, <1>3, <1>4

\* When nothing can go on, the workers wait for a batch of an open, empty
\* channel, or have left it closed and empty.
LEMMA IdleWorkers ==
  ASSUME IInv, ~ManagerCanGo
  PROVE  /\ queue = <<>>
         /\ \A w \in Workers : pc[w] = "exited" \/ (pc[w] = "receive" /\ ~stopped)
<1>1. \A w \in Workers : pc[w] \in {"receive", "exited"}
  BY FeederCanGo DEF IInv, TypeOK, ManagerCanGo
<1>2. \A w \in Workers : pc[w] = "receive" => queue = <<>> /\ ~stopped
  BY DEF ManagerCanGo, LoopEnds
<1>3. \A w \in Workers : pc[w] = "exited" => queue = <<>>
  BY DEF IInv, WorkerPhase, WorkerPhaseOf
<1> QED
  BY <1>1, <1>2, <1>3, JobsAssumption

\* The manager never gets stuck, whatever the sizes of its queue, pool and
\* semaphore: as long as an accepted batch is not done, Stop waits for workers
\* (manager.go:128), or a Submit is blocked on the full channel, somebody else
\* can go on.
THEOREM NeverStuck ==
  Spec => [](\/ ManagerCanGo
             \/ /\ \A b \in Batches : Accepted(b) => state[b] = "done"
                /\ stopped => WorkersGone
                /\ HasRoom)
<1>1. ASSUME IInv, ~ManagerCanGo
      PROVE  /\ \A b \in Batches : Accepted(b) => state[b] = "done"
             /\ stopped => WorkersGone
             /\ HasRoom
  <2>1. /\ queue = <<>>
        /\ \A w \in Workers : pc[w] = "exited" \/ (pc[w] = "receive" /\ ~stopped)
    BY <1>1, IdleWorkers
  <2>2. \A b \in Batches : ~Enqueued(b) /\ ~\E w \in Workers : Holds(w, b)
    BY <2>1 DEF Enqueued, Holds
  <2>3. \A b \in Batches : Accepted(b) => state[b] = "done"
    BY <1>1, <2>2 DEF IInv, Custody
  <2>4. stopped => WorkersGone
    BY <2>1 DEF WorkersGone
  <2>5. HasRoom
    BY <2>1, JobsAssumption DEF HasRoom
  <2> QED
    BY <2>3, <2>4, <2>5
<1> QED
  BY <1>1, Inductive, PTL

(***************************************************************************)
(* The manager implements BatchService.                                    *)
(***************************************************************************)

\* While a worker is in its loop Stop has not returned.
LEMMA NotDrained ==
  ASSUME ReturnedAfterWorkers, NEW w \in Workers, pc[w] # "exited"
  PROVE  stop # "returned"
BY DEF ReturnedAfterWorkers, WorkersGone

\* A step that leaves what the client sees alone is no step of the service.
LEMMA Stutter ==
  ASSUME UNCHANGED <<stop, state, results, received>>,
         \A b \in Batches : Accepted(b)' <=> Accepted(b)
  PROVE  UNCHANGED Service!serviceVars
<1>1. {b \in Batches : Accepted(b)}' = {b \in Batches : Accepted(b)}
  OBVIOUS
<1> QED
  BY <1>1 DEF Service!serviceVars, stopped

\* A step of a call of Submit is a step of the service, or none.
LEMMA SubmitRefines ==
  ASSUME IInv, ReturnedAfterWorkers, NEW b \in Batches, Submit(b)
  PROVE  Service!ServiceNext \/ UNCHANGED Service!serviceVars
<1> USE DEF IInv
<1>1. CASE Register(b) /\ stopped
  <2>1. UNCHANGED <<stop, state, results, received>>
        /\ submit' = [submit EXCEPT ![b] = "rejected"] /\ submit[b] = "uncalled"
    BY <1>1 DEF Register, batchVars, hookVars
  <2>2. \A c \in Batches : Accepted(c)' <=> Accepted(c)
    BY <2>1 DEF TypeOK, Accepted
  <2> QED
    BY <2>1, <2>2, Stutter
<1>2. CASE Register(b) /\ ~stopped
  <2>1. /\ UNCHANGED <<stop, results, received>>
        /\ submit' = [submit EXCEPT ![b] = "sending"] /\ submit[b] = "uncalled"
        /\ state' = [state EXCEPT ![b] = "queued"]
    BY <1>2 DEF Register, hookVars
  <2>2. \A c \in Batches : Accepted(c)' <=> Accepted(c)
    BY <2>1 DEF TypeOK, Accepted
  <2>3. {c \in Batches : Accepted(c)}' = {c \in Batches : Accepted(c)}
    BY <2>2
  <2>4. state[b] = "absent"
    BY <2>1 DEF SubmitPhase
  <2>5. Service!Appear(b)
    BY <1>2, <2>1, <2>3, <2>4 DEF Service!Appear, stopped
  <2> QED
    BY <2>5 DEF Service!ServiceNext
<1>3. CASE Enqueue(b)
  <2>1. /\ UNCHANGED <<stop, state, results, received>>
        /\ submit' = [submit EXCEPT ![b] = "sent"] /\ submit[b] = "sending" /\ ~stopped
    BY <1>3 DEF Enqueue, batchVars, hookVars
  <2>2. \A c \in Batches : Accepted(c)' <=> Accepted(c) \/ c = b
    BY <2>1 DEF TypeOK, Accepted
  <2>3. {c \in Batches : Accepted(c)}' = {c \in Batches : Accepted(c)} \cup {b}
    BY <2>2
  <2>4. state[b] = "queued" /\ b \notin {c \in Batches : Accepted(c)}
    BY <2>1 DEF SubmitPhase, Accepted
  <2>5. Service!Accept(b)
    BY <2>1, <2>3, <2>4 DEF Service!Accept, stopped
  <2> QED
    BY <2>5 DEF Service!ServiceNext
<1>4. CASE SendPanics(b) \/ SubmitReturns(b)
  <2>1. /\ UNCHANGED <<stop, state, results, received>>
        /\ \/ submit[b] = "sending" /\ submit' = [submit EXCEPT ![b] = "panicked"]
           \/ submit[b] = "sent" /\ submit' = [submit EXCEPT ![b] = "returned"]
    BY <1>4 DEF SendPanics, SubmitReturns, batchVars, hookVars
  <2>2. \A c \in Batches : Accepted(c)' <=> Accepted(c)
    BY <2>1 DEF TypeOK, Accepted
  <2> QED
    BY <2>1, <2>2, Stutter
<1> QED
  BY <1>1, <1>2, <1>3, <1>4 DEF Submit

\* The results process publishes are one result for each email of the batch.
LEMMA AnswerType ==
  ASSUME IInv, NEW b \in Batches, AllFinished(b)
  PROVE  CollectedResults(b) \in [1..Total[b] -> ItemResults]
<1> USE DEF IInv
<1>1. ASSUME NEW i \in 1..Total[b]
      PROVE  [verdict |-> item[b][i].verdict, attempts |-> item[b][i].attempts] \in ItemResults
  <2>1. i \in 1..MaxItems /\ item[b][i].pc = "finished"
    BY ItemsInRange DEF Items, AllFinished
  <2>2. item[b][i].verdict \in Verdicts /\ item[b][i].attempts >= 1
    BY <2>1 DEF ItemPhase
  <2>3. item[b][i].attempts \in 0..(RetryMax + 1)
    BY <2>1 DEF TypeOK, ItemStates
  <2>4. item[b][i].attempts \in 1..(RetryMax + 1)
    BY <2>2, <2>3, JobsAssumption
  <2> QED
    BY <2>2, <2>4 DEF ItemResults
<1> QED
  BY <1>1 DEF CollectedResults, Items

\* A step of a worker is a step of the service, or none.
LEMMA WorkerRefines ==
  ASSUME IInv, ReturnedAfterWorkers, NEW w \in Workers, Worker(w)
  PROVE  Service!ServiceNext \/ UNCHANGED Service!serviceVars
<1> USE DEF IInv
<1>1. CASE Receive(w) \/ Exit(w) \/ (\E i \in 1..MaxItems : Launch(w, i)) \/ PostUnbuildable(w)
  <2>1. UNCHANGED <<stop, submit, state, results, received>>
    BY <1>1 DEF Receive, Exit, Launch, PostUnbuildable, clientVars, batchVars, hookVars
  <2> QED
    BY <2>1, Stutter DEF Accepted
<1>2. CASE StartBatch(w)
  <2>1. PICK b \in Batches : b = job[w]
    BY <1>2, BusyWorker DEF StartBatch
  <2>2. /\ pc[w] = "claimed" /\ state' = [state EXCEPT ![b] = "running"]
        /\ UNCHANGED <<stop, submit, results, received>>
    BY <1>2, <2>1 DEF StartBatch, clientVars, hookVars
  <2>3. stop # "returned" /\ Accepted(b) /\ state[b] = "queued"
    BY <2>1, <2>2, NotDrained DEF WorkerPhase, WorkerPhaseOf
  <2>4. {c \in Batches : Accepted(c)}' = {c \in Batches : Accepted(c)}
    BY <2>2 DEF Accepted
  <2>5. Service!Begin(b)
    BY <2>2, <2>3, <2>4 DEF Service!Begin, stopped
  <2> QED
    BY <2>5 DEF Service!ServiceNext
<1>3. CASE Publish(w)
  <2>1. PICK b \in Batches : b = job[w]
    BY <1>3, BusyWorker DEF Publish
  <2>2. /\ pc[w] = "feeding" /\ AllFinished(b)
        /\ state' = [state EXCEPT ![b] = "done"]
        /\ results' = [results EXCEPT ![b] = CollectedResults(b)]
        /\ UNCHANGED <<stop, submit, received>>
    BY <1>3, <2>1 DEF Publish, clientVars, hookVars
  <2>3. stop # "returned" /\ state[b] = "running"
    BY <2>1, <2>2, NotDrained DEF WorkerPhase, WorkerPhaseOf
  <2>4. {c \in Batches : Accepted(c)}' = {c \in Batches : Accepted(c)}
    BY <2>2 DEF Accepted
  <2>5. CollectedResults(b) \in [1..Total[b] -> ItemResults]
    BY <2>2, AnswerType
  <2>6. Service!Finish(b)
    BY <2>2, <2>3, <2>4, <2>5 DEF Service!Finish, stopped
  <2> QED
    BY <2>6 DEF Service!ServiceNext
<1>4. ASSUME NEW outcome \in PostOutcomes, Post(w, outcome)
      PROVE  Service!ServiceNext \/ UNCHANGED Service!serviceVars
  <2>1. PICK b \in Batches : b = job[w]
    BY <1>4, BusyWorker DEF Post
  <2>2. /\ pc[w] = "posting"
        /\ received' = received \/ received' = [received EXCEPT ![b] = received[b] + 1]
        /\ UNCHANGED <<stop, submit, state, results>>
    BY <1>4, <2>1 DEF Post, clientVars, batchVars
  <2>3. /\ stop # "returned" /\ state[b] = "done" /\ b \in Notified
        /\ posts[b] <= WebhookRetries /\ received[b] <= posts[b]
    BY <2>1, <2>2, NotDrained DEF WorkerPhase, WorkerPhaseOf, BatchPhase
  <2>4. received[b] < WebhookRetries + 1
    BY <2>3, JobsAssumption DEF TypeOK
  <2>5. {c \in Batches : Accepted(c)}' = {c \in Batches : Accepted(c)}
    BY <2>2 DEF Accepted
  <2>6. CASE received' = received
    BY <2>2, <2>6, Stutter DEF Accepted
  <2>7. CASE received' = [received EXCEPT ![b] = received[b] + 1]
    <3>1. Service!Notify(b)
      BY <2>2, <2>3, <2>4, <2>5, <2>7 DEF Service!Notify, stopped
    <3> QED
      BY <3>1 DEF Service!ServiceNext
  <2> QED
    BY <2>2, <2>6, <2>7
<1> QED
  BY <1>1, <1>2, <1>3, <1>4 DEF Worker

\* Every behaviour of the manager is one of BatchService: each step of a
\* goroutine either changes nothing a client can see or is one step of the
\* promised service.
THEOREM Refines == Spec => ImplementsService
<1>1. Init => Service!ServiceInit
  BY DEF Init, Service!ServiceInit, Accepted, stopped
<1>3. IInv /\ ReturnedAfterWorkers /\ [Next]_vars
        => [Service!ServiceNext]_(Service!serviceVars)
  <2> SUFFICES ASSUME IInv, ReturnedAfterWorkers, [Next]_vars
               PROVE  Service!ServiceNext \/ UNCHANGED Service!serviceVars
    OBVIOUS
  <2>1. ASSUME NEW b \in Batches, NEW i \in 1..MaxItems, Verification(b, i)
        PROVE  UNCHANGED Service!serviceVars
    <3>1. UNCHANGED <<stop, submit, state, results, received>>
      BY <2>1 DEF Verification, Retry, Verified, clientVars, batchVars, hookVars
    <3> QED
      BY <3>1, Stutter DEF Accepted
  <2>2. CASE CloseQueue
    <3>1. {c \in Batches : Accepted(c)}' = {c \in Batches : Accepted(c)}
      BY <2>2 DEF CloseQueue, Accepted
    <3>2. Service!Close
      BY <2>2, <3>1 DEF CloseQueue, Service!Close, stopped, batchVars, hookVars
    <3> QED
      BY <3>2 DEF Service!ServiceNext
  <2>3. CASE StopReturns
    <3>1. {c \in Batches : Accepted(c)}' = {c \in Batches : Accepted(c)}
      BY <2>3 DEF StopReturns, Accepted
    <3>2. \A w \in Workers : pc[w] = "exited"
      BY <2>3 DEF StopReturns, WorkersGone
    <3>3. queue = <<>>
      BY <3>2, JobsAssumption DEF IInv, WorkerPhase, WorkerPhaseOf
    <3>4. \A b \in Batches : ~Enqueued(b) /\ ~\E w \in Workers : Holds(w, b)
      BY <3>2, <3>3 DEF Enqueued, Holds
    <3>5. \A b \in Batches : Accepted(b) => state[b] = "done"
      BY <3>4 DEF IInv, Custody
    <3>6. Service!EndDrain
      BY <2>3, <3>1, <3>5 DEF StopReturns, Service!EndDrain, stopped, batchVars, hookVars
    <3> QED
      BY <3>6 DEF Service!ServiceNext
  <2>4. CASE Terminated \/ UNCHANGED vars
    <3>1. UNCHANGED <<stop, submit, state, results, received>>
      BY <2>4 DEF Terminated, vars
    <3> QED
      BY <3>1, Stutter DEF Accepted
  <2> QED
    BY <2>1, <2>2, <2>3, <2>4, SubmitRefines, WorkerRefines DEF Next
<1>4. Spec => []ReturnedAfterWorkers
  BY DrainInduction
<1> QED
  BY <1>1, <1>3, <1>4, Inductive, PTL DEF Spec, ImplementsService, Service!ServiceSpec


-----------------------------------------------------------------------------
(***************************************************************************)
(* The manager inside the process.                                         *)
(***************************************************************************)

\* Every step of the process is a step of the manager or leaves it alone.
LEMMA ManagerStep == [ServerNext]_serverVars => [Next]_vars
<1> SUFFICES ASSUME [ServerNext]_serverVars PROVE Next \/ UNCHANGED vars
  OBVIOUS
<1>1. ASSUME NEW b \in Batches, Arrive(b) \/ Handler(b) PROVE Next \/ UNCHANGED vars
  BY <1>1 DEF Arrive, Handler, Refuse, HandleSubmit, Respond, Next
<1>2. ASSUME NEW w \in Workers, RunWorker(w) PROVE Next
  BY <1>2 DEF RunWorker, Next
<1>3. ASSUME NEW b \in Batches, NEW i \in 1..MaxItems, RunVerification(b, i) PROVE Next
  BY <1>3 DEF RunVerification, Next
<1>4. CASE StopManager
  BY <1>4 DEF StopManager, Next
<1>5. CASE Signal \/ ShutdownReturns \/ ShutdownTimesOut \/ ExitProcess \/ Kill \/ Poll
           \/ (\E limit \in Limits : ReadPage(limit)) \/ ProcessEnded \/ UNCHANGED serverVars
  BY <1>5 DEF Signal, ShutdownReturns, ShutdownTimesOut, ExitProcess, Kill, Poll, ReadPage,
              ProcessEnded, serverVars
<1> QED
  BY <1>1, <1>2, <1>3, <1>4, <1>5 DEF ServerNext

\* The process runs the manager as its specification says: Submit, Stop and
\* the workers meet inside the server only as they may meet there.
THEOREM RunsTheManager == ServerSpec => Spec
<1>1. ServerInit => Init
  BY DEF ServerInit
<1> QED
  BY <1>1, ManagerStep, PTL DEF ServerSpec, Spec

-----------------------------------------------------------------------------
(***************************************************************************)
(* How main, the requests and the manager go together.                     *)
(***************************************************************************)

\* Who calls what: only main stops the manager, only handlers submit.
LEMMA Callers ==
  ASSUME TypeOK, [ServerNext]_serverVars
  PROVE  /\ \/ stop' = stop /\ (main' = "closing" => main = "closing")
            \/ main = "stopping" /\ main' = "stopping" /\ stop' = "waiting"
            \/ main = "stopping" /\ main' = "closing" /\ stop' = "returned"
         /\ \A b \in Batches : submit'[b] # submit[b] => request[b] = "open"
<1> DEFINE Claim == /\ \/ stop' = stop /\ (main' = "closing" => main = "closing")
                       \/ main = "stopping" /\ main' = "stopping" /\ stop' = "waiting"
                       \/ main = "stopping" /\ main' = "closing" /\ stop' = "returned"
                    /\ \A b \in Batches : submit'[b] # submit[b] => request[b] = "open"
<1>1. ASSUME NEW b \in Batches, HandleSubmit(b) PROVE Claim
  <2>1. stop' = stop /\ main' = main /\ request[b] = "open"
    BY <1>1 DEF mainVars, HandleSubmit, Submit, Register, Enqueue, SendPanics, SubmitReturns
  <2>2. \A c \in Batches : c # b => submit'[c] = submit[c]
    BY <1>1 DEF HandleSubmit, Submit, Register, Enqueue, SendPanics, SubmitReturns, TypeOK
  <2> QED
    BY <2>1, <2>2
<1>2. ASSUME NEW b \in Batches, Arrive(b) \/ Refuse(b) \/ Respond(b) PROVE Claim
  BY <1>2 DEF Arrive, Refuse, Respond, mainVars, vars
<1>3. ASSUME NEW w \in Workers, RunWorker(w) PROVE Claim
  BY <1>3 DEF RunWorker, Worker, Receive, Exit, StartBatch, Launch, Publish, Post,
              PostUnbuildable, clientVars, mainVars
<1>4. ASSUME NEW b \in Batches, NEW i \in 1..MaxItems, RunVerification(b, i) PROVE Claim
  BY <1>4 DEF RunVerification, Verification, Retry, Verified, clientVars, mainVars
<1>5. CASE StopManager
  BY <1>5 DEF StopManager, CloseQueue, StopReturns, mainVars
<1>6. CASE Signal \/ ShutdownReturns \/ ShutdownTimesOut \/ ExitProcess \/ Kill \/ Poll
           \/ (\E limit \in Limits : ReadPage(limit)) \/ ProcessEnded \/ UNCHANGED serverVars
  BY <1>6 DEF Signal, ShutdownReturns, ShutdownTimesOut, ExitProcess, Kill, Poll, ReadPage,
              ProcessEnded, serverVars, mainVars, vars
<1> QED
  BY <1>1, <1>2, <1>3, <1>4, <1>5, <1>6 DEF ServerNext, Handler

\* What a step can do to main and to the requests.
LEMMA MainMoves ==
  ASSUME ServerTypeOK, [ServerNext]_serverVars
  PROVE  /\ \/ main' = main /\ graceful' = graceful
            \/ main = "serving" /\ main' = "shutdown" /\ graceful' = graceful
            \/ main = "shutdown" /\ main' = "stopping" /\ Quiet /\ graceful' = TRUE
            \/ main = "shutdown" /\ main' = "stopping" /\ graceful' = graceful
            \/ main = "stopping" /\ main' = "closing" /\ graceful' = graceful
            \/ main = "closing" /\ main' = "exited" /\ graceful' = graceful
            \/ main' = "killed" /\ graceful' = graceful
         /\ \A b \in Batches :
              \/ request'[b] = request[b]
              \/ request[b] = "away" /\ request'[b] = "open" /\ main \in {"serving", "shutdown"}
                   /\ main' = main /\ submit' = submit
              \/ request[b] = "open" /\ request'[b] = "closed" /\ submit' = submit
                   /\ submit[b] \in {"uncalled", "returned", "rejected", "panicked"}
  BY DEF ServerTypeOK, ServerNext, Handler, HandleSubmit, Arrive, Refuse, Respond, RunWorker,
         RunVerification, Signal, ShutdownReturns, ShutdownTimesOut, StopManager, ExitProcess,
         Kill, Poll, ReadPage, ProcessEnded, mainVars, serverVars, vars

\* A call of Submit that was not turned away or did not panic before does so
\* only once the manager is stopped.
LEMMA TurnedAway ==
  ASSUME TypeOK, [Next]_vars, NEW b \in Batches,
         submit'[b] \in {"rejected", "panicked"}, submit'[b] # submit[b]
  PROVE  stopped
<1>1. ASSUME NEW c \in Batches, Submit(c) PROVE stopped
  BY <1>1 DEF Submit, Register, Enqueue, SendPanics, SubmitReturns, TypeOK
<1>2. ASSUME NEW w \in Workers, Worker(w) PROVE submit' = submit
  BY <1>2 DEF Worker, Receive, Exit, StartBatch, Launch, Publish, Post, PostUnbuildable, clientVars
<1>3. ASSUME NEW c \in Batches, NEW i \in 1..MaxItems, Verification(c, i) PROVE submit' = submit
  BY <1>3 DEF Verification, Retry, Verified, clientVars
<1>4. CASE CloseQueue \/ StopReturns \/ Terminated \/ UNCHANGED vars
  BY <1>4 DEF CloseQueue, StopReturns, Terminated, vars
<1> QED
  BY <1>1, <1>2, <1>3, <1>4 DEF Next

-----------------------------------------------------------------------------
(***************************************************************************)
(* The paging client.                                                      *)
(***************************************************************************)

\* The end of a page that is not before its start: the start only at the end
\* of the results, and never past that end.
LEMMA PageEndRange ==
  ASSUME NEW total \in 0..MaxItems, NEW first \in 0..total, NEW limit \in 1..IntMax,
         PageEnd(total, first, limit) >= first
  PROVE  /\ PageEnd(total, first, limit) \in first..total
         /\ PageEnd(total, first, limit) = first => first = total
  BY JobsAssumption, ServerAssumption DEF PageEnd, AddInt

\* The results of a batch that is done are as many as its emails.
LEMMA ResultsLength ==
  ASSUME IInv, NEW b \in Batches, state[b] = "done"
  PROVE  results[b] \in Seq(ItemResults) /\ Len(results[b]) = Total[b] /\ Total[b] \in 0..MaxItems
<1>1. results[b] = CollectedResults(b) /\ results[b] \in Seq(ItemResults)
  BY DEF IInv, BatchPhase, TypeOK
<1>2. DOMAIN results[b] = 1..Total[b] /\ Total[b] \in 0..MaxItems
  BY <1>1, JobsAssumption DEF CollectedResults, Items
<1>3. DOMAIN results[b] = 1..Len(results[b]) /\ Len(results[b]) \in Nat
  BY <1>1
<1> QED
  BY <1>1, <1>2, <1>3

\* A page fetched by the client continues what it has.
LEMMA ReadPageStep ==
  ASSUME IInv, ServerTypeOK, ReaderPhase, PagesAssemble, NEW limit \in Limits, ReadPage(limit)
  PROVE  /\ reader' \in [pc: {"polling", "reading", "complete"}, got: Seq(ItemResults)]
         /\ ReaderPhase' /\ PagesAssemble'
<1> DEFINE r == results[Paged]
           total == Len(r)
           first == Clip(Len(reader.got), total)
           end == PageEnd(total, first, EffectiveLimit(limit))
<1>1. /\ state[Paged] = "done" /\ reader.pc = "reading"
      /\ results' = results /\ state' = state
  BY DEF ReadPage, ReaderPhase, vars
<1>2. r \in Seq(ItemResults) /\ total = Total[Paged] /\ total \in 0..MaxItems
  BY <1>1, ResultsLength, ServerAssumption
<1>3. /\ reader.got \in Seq(ItemResults) /\ Len(reader.got) \in 0..total
      /\ reader.got = SubSeq(r, 1, Len(reader.got))
  BY <1>2 DEF ServerTypeOK, PagesAssemble
<1>4. first = Len(reader.got)
  BY <1>2, <1>3, JobsAssumption DEF Clip
<1>5. EffectiveLimit(limit) \in 1..IntMax
  BY ServerAssumption DEF EffectiveLimit
<1>6. reader' = IF end < first THEN reader
                ELSE IF end = first THEN [reader EXCEPT !.pc = "complete"]
                ELSE [reader EXCEPT !.got = @ \o SubSeq(r, first + 1, end)]
  BY DEF ReadPage
<1>7. end \in Int
  BY <1>2, <1>3, <1>4, <1>5, JobsAssumption, ServerAssumption DEF PageEnd, AddInt
<1> HIDE DEF r, end
<1>8. CASE end < first
  <2>1. reader' = reader
    BY <1>6, <1>8
  <2> QED
    BY <2>1, <1>1 DEF ServerTypeOK, ReaderPhase, PagesAssemble
<1>9. CASE end = first
  <2>1. first = total
    BY <1>2, <1>3, <1>4, <1>5, <1>9, PageEndRange DEF end
  <2>2. reader' = [reader EXCEPT !.pc = "complete"]
    BY <1>6, <1>9, <1>3, <1>4, <1>7
  <2>3. /\ reader'.pc = "complete" /\ reader'.got = reader.got
        /\ reader' \in [pc: {"polling", "reading", "complete"}, got: Seq(ItemResults)]
    BY <2>2 DEF ServerTypeOK
  <2> QED
    BY <2>1, <2>3, <1>1, <1>2, <1>4 DEF ReaderPhase, PagesAssemble, r
<1>10. CASE end > first
  <2>1. end \in first..total
    BY <1>2, <1>3, <1>4, <1>5, <1>7, <1>10, PageEndRange DEF end
  <2>2. reader' = [reader EXCEPT !.got = @ \o SubSeq(r, first + 1, end)]
    BY <1>4, <1>6, <1>10, <1>7, <1>3
  <2>3. reader.got \o SubSeq(r, first + 1, end) = SubSeq(r, 1, end)
    <3>1. SubSeq(r, 1, first) \o SubSeq(r, first + 1, end) = SubSeq(r, 1, end)
      <4>1. 1 \in 1..(total + 1) /\ first \in (1 - 1)..total /\ end \in first..total
        BY <2>1, <1>2, <1>3, <1>4
      <4> HIDE DEF first
      <4> QED
        BY <4>1, <1>2, ConcatAdjacentSubSeq
    <3> QED
      BY <3>1, <1>3, <1>4
  <2>4. /\ SubSeq(r, 1, end) \in Seq(ItemResults)
        /\ Len(SubSeq(r, 1, end)) = end
    <3>1. end \in Int /\ 1 <= end /\ end <= total
      BY <2>1, <1>10, <1>2, <1>3, <1>4
    <3>2. \A i \in 1..end : r[i] \in ItemResults
      BY <3>1, <1>2
    <3> QED
      BY <3>1, <3>2, SubSeqProperties
  <2>5. /\ reader'.pc = "reading" /\ reader'.got = SubSeq(r, 1, end)
        /\ reader' \in [pc: {"polling", "reading", "complete"}, got: Seq(ItemResults)]
    BY <2>2, <2>3, <2>4, <1>1 DEF ServerTypeOK
  <2>6. Len(reader'.got) <= Len(results'[Paged])
        /\ reader'.got = SubSeq(results'[Paged], 1, Len(reader'.got))
    BY <2>1, <2>4, <2>5, <1>1, <1>2 DEF r
  <2> QED
    BY <2>5, <2>6, <1>1 DEF ReaderPhase, PagesAssemble
<1> QED
  BY <1>3, <1>4, <1>7, <1>8, <1>9, <1>10

\* Whatever else happens, the client keeps a beginning of the results.
LEMMA ReaderRests ==
  ASSUME IInv, IInv', [Next]_vars, ServerTypeOK, ReaderPhase, PagesAssemble,
         \/ reader' = reader
         \/ reader' = [reader EXCEPT !.pc = "reading"] /\ reader.pc = "polling"
              /\ state[Paged] = "done"
  PROVE  /\ reader' \in [pc: {"polling", "reading", "complete"}, got: Seq(ItemResults)]
         /\ ReaderPhase' /\ PagesAssemble'
<1>1. state[Paged] = "done" => state'[Paged] = "done" /\ results'[Paged] = results[Paged]
  BY DoneStays, ServerAssumption DEF vars
<1>2. /\ reader.got = reader'.got
      /\ reader' \in [pc: {"polling", "reading", "complete"}, got: Seq(ItemResults)]
      /\ reader'.pc = "polling" => reader.pc = "polling"
      /\ reader'.pc = "complete" => reader.pc = "complete"
      /\ reader'.pc # "polling" => state[Paged] = "done"
  BY DEF ServerTypeOK, ReaderPhase
<1>3. ReaderPhase'
  BY <1>1, <1>2 DEF ReaderPhase
<1>4. CASE state[Paged] = "done"
  BY <1>1, <1>2, <1>3, <1>4 DEF PagesAssemble
<1>5. CASE state[Paged] # "done"
  <2>1. reader.got = <<>> /\ reader'.got = <<>> /\ reader'.pc = "polling"
    BY <1>2, <1>5 DEF ReaderPhase, ServerTypeOK
  <2>2. results'[Paged] \in Seq(ItemResults)
    BY ServerAssumption DEF IInv, TypeOK
  <2>3. SubSeq(results'[Paged], 1, 0) = <<>> /\ Len(<<>>) = 0 /\ Len(results'[Paged]) >= 0
    BY <2>2, SubSeqEmpty, LenProperties
  <2> QED
    BY <2>1, <2>3, <1>2, <1>3 DEF PagesAssemble
<1> QED
  BY <1>2, <1>3, <1>4, <1>5

-----------------------------------------------------------------------------
(***************************************************************************)
(* The inductive invariant.                                                *)
(***************************************************************************)

\* main, the requests and the paging client keep together in every reachable
\* state of the process.
THEOREM ServerInductive == ServerSpec => []ServerInv
<1>1. ServerInit => ServerInv
  <2> SUFFICES ASSUME ServerInit PROVE ServerInv
    OBVIOUS
  <2>1. ServerTypeOK /\ MainPhase /\ RequestPhase /\ ReaderPhase
    <3>1. ServerTypeOK
      <4>1. <<>> \in Seq(ItemResults)
        BY EmptySeq
      <4> QED
        BY <4>1 DEF ServerInit, ServerTypeOK
    <3>2. ~graceful
      BY Zenon DEF ServerInit
    <3> QED
      BY <3>1, <3>2 DEF ServerInit, Init, MainPhase, RequestPhase, ReaderPhase, stopped
  <2>2. PagesAssemble
    BY ServerAssumption, SubSeqEmpty DEF ServerInit, Init, PagesAssemble
  <2> QED
    BY <2>1, <2>2 DEF ServerInv
<1>2. IInv /\ IInv' /\ ServerInv /\ [ServerNext]_serverVars => ServerInv'
  <2> SUFFICES ASSUME IInv, IInv', ServerInv, [ServerNext]_serverVars PROVE ServerInv'
    OBVIOUS
  <2> USE DEF ServerInv
  <2>1. [Next]_vars /\ TypeOK
    BY ManagerStep DEF IInv
  <2>2. MainPhase'
    <3>1. main' \in {"serving", "shutdown"} =>
             main \in {"serving", "shutdown"} /\ graceful' = graceful
      BY MainMoves DEF ServerTypeOK
    <3>2. main' \in {"serving", "shutdown"} => ~graceful'
      BY <3>1, Zenon DEF MainPhase
    <3>3. /\ main' \in {"serving", "shutdown"} => stop' = "uncalled"
          /\ main' = "stopping" => stop' \in {"uncalled", "waiting"}
          /\ main' \in {"closing", "exited"} => stop' = "returned"
      BY <2>1, Callers, MainMoves DEF MainPhase, ServerTypeOK
    <3> QED
      BY <3>2, <3>3 DEF MainPhase
  <2>3. RequestPhase'
    <3> SUFFICES ASSUME NEW b \in Batches
                 PROVE  /\ request'[b] = "away" => submit'[b] = "uncalled"
                        /\ request'[b] = "closed" => submit'[b] \notin {"sending", "sent"}
                        /\ submit'[b] \in {"rejected", "panicked"} => stopped'
                        /\ graceful' => /\ request'[b] # "open"
                                        /\ submit'[b] \notin {"rejected", "panicked"}
      BY DEF RequestPhase
    <3>1. /\ submit'[b] \in {"rejected", "panicked"} => stopped
          /\ stopped => stopped'
      BY <2>1, TurnedAway, Callers DEF RequestPhase, stopped
    <3>2. graceful' => graceful \/ (main = "shutdown" /\ main' = "stopping" /\ Quiet)
      <4>1. graceful' = graceful \/ (main = "shutdown" /\ main' = "stopping" /\ Quiet)
        BY MainMoves
      <4> QED
        BY <4>1, Zenon
    <3>3. graceful => main \notin {"serving", "shutdown"}
      BY DEF MainPhase
    <3>4. main = "shutdown" => ~stopped
      BY DEF MainPhase, stopped
    <3>5. /\ request'[b] = "away" => submit'[b] = "uncalled"
          /\ request'[b] = "closed" => submit'[b] \notin {"sending", "sent"}
      BY <2>1, Callers, MainMoves DEF RequestPhase, ServerTypeOK
    <3>6. graceful' => request'[b] # "open" /\ submit'[b] = submit[b]
      <4>1. CASE graceful
        <5>1. request[b] # "open" /\ main \notin {"serving", "shutdown"}
          BY <3>3, <4>1 DEF RequestPhase
        <5> QED
          BY <5>1, <2>1, Callers, MainMoves
      <4>2. CASE main = "shutdown" /\ main' = "stopping" /\ Quiet
        <5>1. request[b] # "open"
          BY <4>2 DEF Quiet
        <5> QED
          BY <4>2, <5>1, <2>1, Callers, MainMoves
      <4> QED
        BY <3>2, <4>1, <4>2
    <3>7. graceful' => submit[b] \notin {"rejected", "panicked"}
      BY <3>2, <3>4 DEF RequestPhase
    <3> QED
      BY <3>1, <3>5, <3>6, <3>7
  <2>4. /\ reader' \in [pc: {"polling", "reading", "complete"}, got: Seq(ItemResults)]
        /\ ReaderPhase' /\ PagesAssemble'
    <3>1. CASE \E limit \in Limits : ReadPage(limit)
      BY <3>1, ReadPageStep
    <3>2. CASE Poll
      BY <3>2, <2>1, ReaderRests DEF Poll
    <3>3. CASE reader' = reader
      BY <3>3, <2>1, ReaderRests
    <3>4. (\E limit \in Limits : ReadPage(limit)) \/ Poll \/ reader' = reader
      BY DEF ServerNext, Handler, HandleSubmit, Arrive, Refuse, Respond, RunWorker,
             RunVerification, Signal, ShutdownReturns, ShutdownTimesOut, StopManager,
             ExitProcess, Kill, ProcessEnded, serverVars
    <3> QED
      BY <3>1, <3>2, <3>3, <3>4
  <2>5. /\ main' \in {"serving", "shutdown", "stopping", "closing", "exited", "killed"}
        /\ graceful' \in BOOLEAN
    BY MainMoves DEF ServerTypeOK
  <2>6. request' \in [Batches -> {"away", "open", "closed"}]
    BY DEF ServerTypeOK, ServerNext, Handler, HandleSubmit, Arrive, Refuse, Respond, RunWorker,
           RunVerification, Signal, ShutdownReturns, ShutdownTimesOut, StopManager, ExitProcess,
           Kill, Poll, ReadPage, ProcessEnded, serverVars
  <2> QED
    BY <2>2, <2>3, <2>4, <2>5, <2>6 DEF ServerTypeOK
<1> QED
  BY <1>1, <1>2, RunsTheManager, Inductive, PTL DEF ServerSpec

\* The process ends after a graceful shutdown only with nothing it took on
\* left undone.
THEOREM GracefulHolds == ServerSpec => []GracefulExitLosesNothing
<1>1. IInv /\ DrainKeepsAccepted /\ ServerInv => GracefulExitLosesNothing
  <2> SUFFICES ASSUME IInv, DrainKeepsAccepted, ServerInv, main = "exited", graceful,
                      NEW b \in Batches
               PROVE  submit[b] \in {"uncalled", "returned"} /\ state[b] \in {"absent", "done"}
    BY DEF GracefulExitLosesNothing
  <2>1. stop = "returned"
    BY DEF ServerInv, MainPhase
  <2>2. request[b] \in {"away", "closed"}
    BY DEF ServerInv, RequestPhase, ServerTypeOK
  <2>3. submit[b] \in {"uncalled", "returned"}
    BY <2>2 DEF ServerInv, RequestPhase, IInv, TypeOK
  <2>4. submit[b] = "uncalled" => state[b] = "absent"
    BY DEF IInv, SubmitPhase
  <2>5. submit[b] = "returned" => state[b] = "done"
    BY <2>1 DEF DrainKeepsAccepted, Accepted
  <2> QED
    BY <2>3, <2>4, <2>5
<1> QED
  BY <1>1, ServerInductive, RunsTheManager, Inductive, DrainHolds, PTL

\* No store is closed under a verification, and none before every batch that
\* was answered with 202 is done, however the shutdown went.
THEOREM StoresHold == ServerSpec => []StoresOutliveBatches
<1>1. DrainKeepsAccepted /\ ServerInv => StoresOutliveBatches
  BY DEF DrainKeepsAccepted, ServerInv, MainPhase, StoresOutliveBatches, Accepted
<1> QED
  BY <1>1, ServerInductive, RunsTheManager, DrainHolds, PTL

\* The pages put together are the results, for every choice of limits.
THEOREM PagesHold == ServerSpec => []PagesAssemble
BY ServerInductive, PTL DEF ServerInv
=============================================================================
