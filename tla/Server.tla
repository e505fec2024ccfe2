------------------------------- MODULE Server -------------------------------
(***************************************************************************)
(* The life of the process around the batch manager: main waits for a      *)
(* signal, shuts the HTTP server down with a deadline, and its deferred    *)
(* calls drain the manager and close the stores.  The manager is           *)
(* JobsManager; here its calls of Submit are made by the handlers of       *)
(* submit requests, its Stop by main, and a client pages through the       *)
(* results of one batch while all that happens.                            *)
(*                                                                         *)
(* The process may be killed at any time: a crash, the service manager     *)
(* after its stop timeout, or a second signal once main no longer catches  *)
(* them.  The early exit of main when the port cannot be bound comes       *)
(* before any request and is left out.                                     *)
(***************************************************************************)
EXTENDS JobsManager, Integers

CONSTANTS
    Paged,         \* the batch the paging client submitted
    Limits,        \* the values of the limit parameter the client uses
    DefaultLimit,  \* defaultResultsPageLimit (100 in the code)
    IntMax         \* the largest int of the platform

ASSUME ServerAssumption ==
    /\ Paged \in Batches
    /\ IntMax \in Nat \ {0}
    /\ MaxItems <= IntMax
    /\ DefaultLimit \in 1..IntMax
    /\ Limits \subseteq 0..IntMax

VARIABLES
    main,      \* where main stands, or how the process ended
    graceful,  \* server.Shutdown returned without an error
    request,   \* request[b]: the submit request of b and its handler
    reader     \* the paging client: what it does and the items it has got

mainVars   == <<main, graceful>>
serverVars == <<vars, mainVars, request, reader>>

up == main \notin {"exited", "killed"}

ServerTypeOK ==
    /\ main \in {"serving", "shutdown", "stopping", "closing", "exited", "killed"}
    /\ graceful \in BOOLEAN
    /\ request \in [Batches -> {"away", "open", "closed"}]
    /\ reader \in [pc: {"polling", "reading", "complete"}, got: Seq(ItemResults)]

ServerInit ==
    /\ Init
    /\ main = "serving"
    /\ graceful = FALSE
    /\ request = [b \in Batches |-> "away"]
    /\ reader = [pc |-> "polling", got |-> <<>>]

-----------------------------------------------------------------------------
(***************************************************************************)
(* A submit request.  A connection accepted before the signal may bring    *)
(* its request during the shutdown, later none does.                       *)
(***************************************************************************)

Arrive(b) ==
    /\ main \in {"serving", "shutdown"}
    /\ request[b] = "away"
    /\ request' = [request EXCEPT ![b] = "open"]
    /\ UNCHANGED <<vars, mainVars, reader>>

\* The validation of the request fails, nothing is submitted.
Refuse(b) ==
    /\ up
    /\ request[b] = "open"
    /\ submit[b] = "uncalled"
    /\ request' = [request EXCEPT ![b] = "closed"]
    /\ UNCHANGED <<vars, mainVars, reader>>

HandleSubmit(b) ==
    /\ up
    /\ request[b] = "open"
    /\ Submit(b)
    /\ UNCHANGED <<mainVars, request, reader>>

\* 202 after submit returned, 503 when the manager has stopped, 500 from the
\* recovery middleware after a panic.
Respond(b) ==
    /\ up
    /\ request[b] = "open"
    /\ submit[b] \in {"returned", "rejected", "panicked"}
    /\ request' = [request EXCEPT ![b] = "closed"]
    /\ UNCHANGED <<vars, mainVars, reader>>

Handler(b) == Refuse(b) \/ HandleSubmit(b) \/ Respond(b)

-----------------------------------------------------------------------------
(***************************************************************************)
(* The goroutines of the manager, while the process is up.                 *)
(***************************************************************************)

RunWorker(w) == up /\ Worker(w) /\ UNCHANGED <<mainVars, request, reader>>

RunVerification(b, i) ==
    up /\ Verification(b, i) /\ UNCHANGED <<mainVars, request, reader>>

-----------------------------------------------------------------------------
(***************************************************************************)
(* main.                                                                   *)
(***************************************************************************)

\* The first interrupt or SIGTERM: main leaves its select and calls Shutdown.
Signal ==
    /\ main = "serving"
    /\ main' = "shutdown"
    /\ UNCHANGED <<vars, graceful, request, reader>>

\* Bug: open requests are not waited for.
Quiet_always == TRUE

\* No handler runs: what Shutdown waits for.
Quiet == \A b \in Batches : request[b] # "open"

ShutdownReturns ==
    /\ main = "shutdown"
    /\ Quiet
    /\ main' = "stopping"
    /\ graceful' = TRUE
    /\ UNCHANGED <<vars, request, reader>>

\* The context of Shutdown ends after 20 seconds; the error is logged only.
ShutdownTimesOut ==
    /\ main = "shutdown"
    /\ main' = "stopping"
    /\ UNCHANGED <<vars, graceful, request, reader>>

\* Bug: main does not wait for the manager.
StopManager_inBackground ==
    /\ main = "stopping"
    /\ CloseQueue
    /\ main' = "closing"
    /\ UNCHANGED <<graceful, request, reader>>

\* The deferred jobsMgr.Stop: closes the channel, then waits for the workers.
StopManager ==
    \/ /\ main = "stopping"
       /\ CloseQueue
       /\ UNCHANGED <<mainVars, request, reader>>
    \/ /\ main = "stopping"
       /\ StopReturns
       /\ main' = "closing"
       /\ UNCHANGED <<graceful, request, reader>>

\* The deferred closeStore and the end of main.
ExitProcess ==
    /\ main = "closing"
    /\ main' = "exited"
    /\ UNCHANGED <<vars, graceful, request, reader>>

Kill ==
    /\ up
    /\ main' = "killed"
    /\ UNCHANGED <<vars, graceful, request, reader>>

-----------------------------------------------------------------------------
(***************************************************************************)
(* The paging client.                                                      *)
(***************************************************************************)

\* int addition.
AddInt(m, n) == IF m + n > IntMax THEN m + n - 2 * (IntMax + 1) ELSE m + n

\* Bug: the limit is taken for the end of the page.
PageEnd_limitOnly(total, offset, limit) == IF limit < total THEN limit ELSE total

PageEnd(total, offset, limit) ==
    IF AddInt(offset, limit) < total THEN AddInt(offset, limit) ELSE total

\* handleBatchResults replaces a limit that is not positive.
EffectiveLimit(limit) == IF limit <= 0 THEN DefaultLimit ELSE limit

\* Offset past the end is clipped to it.
Clip(offset, total) == IF offset > total THEN total ELSE offset

\* A status query finds the batch done; the id is known from the 202.
Poll ==
    /\ main \in {"serving", "shutdown"}
    /\ request[Paged] = "closed" /\ submit[Paged] = "returned"
    /\ reader.pc = "polling"
    /\ state[Paged] = "done"
    /\ reader' = [reader EXCEPT !.pc = "reading"]
    /\ UNCHANGED <<vars, mainVars, request>>

\* The client asks for the items from the first it lacks; an empty page tells
\* it that it has them all.  A negative end makes the allocation panic: the
\* answer is 500 and the client has what it had.
ReadPage(limit) ==
    LET total == Len(results[Paged])
        first == Clip(Len(reader.got), total)
        end   == PageEnd(total, first, EffectiveLimit(limit))
    IN
    /\ main \in {"serving", "shutdown"}
    /\ reader.pc = "reading"
    /\ reader' = IF end < first THEN reader
                 ELSE IF end = first THEN [reader EXCEPT !.pc = "complete"]
                 ELSE [reader EXCEPT !.got = @ \o SubSeq(results[Paged], first + 1, end)]
    /\ UNCHANGED <<vars, mainVars, request>>

-----------------------------------------------------------------------------
ProcessEnded == ~up /\ UNCHANGED serverVars

ServerNext ==
    \/ \E b \in Batches : Arrive(b) \/ Handler(b)
    \/ \E w \in Workers : RunWorker(w)
    \/ \E b \in Batches, i \in 1..MaxItems : RunVerification(b, i)
    \/ Signal
    \/ ShutdownReturns
    \/ ShutdownTimesOut
    \/ StopManager
    \/ ExitProcess
    \/ Kill
    \/ Poll
    \/ \E limit \in Limits : ReadPage(limit)
    \/ ProcessEnded

ServerSpec == ServerInit /\ [][ServerNext]_serverVars

(***************************************************************************)
(* Goroutines are scheduled, a call of Verify returns (every network step  *)
(* under it has a deadline) and so does every webhook post (the client has *)
(* a ten-second timeout); the context of Shutdown has a deadline too.      *)
(* Nothing obliges a client to send, an operator to signal, or anything to *)
(* kill the process.                                                       *)
(***************************************************************************)
ServerFairness ==
    /\ \A b \in Batches : WF_serverVars(Handler(b))
    /\ \A w \in Workers : WF_serverVars(RunWorker(w))
    /\ \A b \in Batches, i \in 1..MaxItems : WF_serverVars(RunVerification(b, i))
    /\ WF_serverVars(ShutdownReturns \/ ShutdownTimesOut)
    /\ WF_serverVars(StopManager)
    /\ WF_serverVars(ExitProcess)

FairServerSpec == ServerSpec /\ ServerFairness

-----------------------------------------------------------------------------
(***************************************************************************)
(* Properties.                                                             *)
(***************************************************************************)

\* A process that ended by itself after a graceful shutdown has done all it
\* took on: no submission was turned away or panicked, and every batch that
\* became visible is done (main.go: Shutdown before Stop, Stop before the
\* stores close).
GracefulExitLosesNothing ==
    main = "exited" /\ graceful =>
        \A b \in Batches :
            /\ submit[b] \in {"uncalled", "returned"}
            /\ state[b] \in {"absent", "done"}

\* Even after a shutdown that timed out the stores close only when no item of
\* a batch is being verified and every batch answered with 202 is done.
StoresOutliveBatches ==
    main \in {"closing", "exited"} =>
        \A b \in Batches :
            /\ InFlight(b) = {}
            /\ request[b] = "closed" /\ submit[b] = "returned" => state[b] = "done"

\* The pages a client puts together, whatever limits it asks for, are the
\* results from the first on without gap or repetition, and an empty page
\* means that there are no more (Results and handleBatchResults).
PagesAssemble ==
    /\ Len(reader.got) <= Len(results[Paged])
    /\ reader.got = SubSeq(results[Paged], 1, Len(reader.got))
    /\ reader.pc = "complete" => Len(reader.got) = Total[Paged]

\* The parts of the inductive invariant that are not properties of their own:
\* how main and the manager, a request and its call of Submit, and the paging
\* client and its batch go together.
MainPhase ==
    /\ main \in {"serving", "shutdown"} => stop = "uncalled" /\ ~graceful
    /\ main = "stopping" => stop \in {"uncalled", "waiting"}
    /\ main \in {"closing", "exited"} => stop = "returned"

RequestPhase ==
    \A b \in Batches :
        /\ request[b] = "away" => submit[b] = "uncalled"
        /\ request[b] = "closed" => submit[b] \notin {"sending", "sent"}
        /\ submit[b] \in {"rejected", "panicked"} => stopped
        /\ graceful => request[b] # "open" /\ submit[b] \notin {"rejected", "panicked"}

ReaderPhase ==
    /\ reader.pc = "polling" => reader.got = <<>>
    /\ reader.pc # "polling" => state[Paged] = "done"

\* Inductive relative to what holds of the manager in every reachable state.
ServerInv == ServerTypeOK /\ MainPhase /\ RequestPhase /\ ReaderPhase /\ PagesAssemble

\* Every accepted batch is eventually done unless the process is killed, also
\* when the shutdown begins while it waits in the channel.
AcceptedFinishes ==
    \A b \in Batches : Accepted(b) ~> state[b] = "done" \/ main = "killed"

\* No submit request hangs: a handler blocked on the full channel goes through
\* or panics, and is answered unless the process ends first.
RequestsEnd == \A b \in Batches : request[b] = "open" ~> request[b] = "closed" \/ ~up

\* The shutdown ends: handlers or the deadline release Shutdown, the workers
\* drain the channel, Stop returns.
ShutdownEnds == main = "shutdown" ~> ~up
=============================================================================
