------------------------------- MODULE MxDial -------------------------------
(***************************************************************************)
(* One call of CheckSMTP, as far as its connections go (smtp.go): one      *)
(* goroutine per candidate host dials and delivers its result to a         *)
(* buffered channel; the caller takes results until one is a connection,   *)
(* talks over it and closes it; a drainer takes the rest and closes what   *)
(* nobody needs.                                                           *)
(*                                                                         *)
(* A deadline cannot be refused by a connection that is open, so the error *)
(* path of SetDeadline (smtp.go:242-244) is left out.                      *)
(***************************************************************************)
EXTENDS Integers, FiniteSets, Sequences

CONSTANTS
    Hosts,     \* the candidates newSMTPClient dials
    NoHost     \* no host

ASSUME DialAssumption == IsFiniteSet(Hosts) /\ Hosts # {} /\ NoHost \notin Hosts

Outcomes == {"connected", "unreachable", "rejected"}

VARIABLES
    dial,      \* dial[h]: the goroutine of host h
    conn,      \* conn[h]: the connection to h
    results,   \* the buffered channel, oldest result first
    caller,    \* the goroutine that runs CheckSMTP: its step and its client
    taken,     \* the results the caller took from the channel
    firstErr,  \* the host of the first failure it took
    drainer,   \* "none", "draining" or "ended"
    remaining  \* the results the drainer still waits for

vars == <<dial, conn, results, caller, taken, firstErr, drainer, remaining>>

Result == [host: Hosts, outcome: Outcomes]

TypeOK ==
    /\ dial \in [Hosts -> {"dialling", "greeting"} \cup Outcomes \cup {"ended"}]
    /\ conn \in [Hosts -> {"none", "open", "closed"}]
    /\ results \in Seq(Result)
    /\ caller \in [pc: {"waiting", "talking", "answered", "failed"}, client: Hosts \cup {NoHost}]
    /\ taken \in 0..Cardinality(Hosts)
    /\ firstErr \in Hosts \cup {NoHost}
    /\ drainer \in {"none", "draining", "ended"}
    /\ remaining \in 0..Cardinality(Hosts)

Init ==
    /\ dial = [h \in Hosts |-> "dialling"]
    /\ conn = [h \in Hosts |-> "none"]
    /\ results = <<>>
    /\ caller = [pc |-> "waiting", client |-> NoHost]
    /\ taken = 0
    /\ firstErr = NoHost
    /\ drainer = "none"
    /\ remaining = 0

-----------------------------------------------------------------------------
(***************************************************************************)
(* dialSMTP in the goroutine of host h: the connect timeout bounds the     *)
(* first step, the deadline of the connection the second.                  *)
(***************************************************************************)
Unreachable(h) ==
    /\ dial[h] = "dialling"
    /\ dial' = [dial EXCEPT ![h] = "unreachable"]
    /\ UNCHANGED <<conn, results, caller, taken, firstErr, drainer, remaining>>

Opened(h) ==
    /\ dial[h] = "dialling"
    /\ dial' = [dial EXCEPT ![h] = "greeting"]
    /\ conn' = [conn EXCEPT ![h] = "open"]
    /\ UNCHANGED <<results, caller, taken, firstErr, drainer, remaining>>

\* smtp.NewClient has read the greeting; when it is no 220, or none comes, the
\* client closes the connection itself.
AfterBadGreeting == "closed"

Greeted(h, outcome) ==
    /\ dial[h] = "greeting"
    /\ dial' = [dial EXCEPT ![h] = outcome]
    /\ conn' = IF outcome = "rejected" THEN [conn EXCEPT ![h] = AfterBadGreeting] ELSE conn
    /\ UNCHANGED <<results, caller, taken, firstErr, drainer, remaining>>

\* The send, on a channel with room for ChannelSize results.
ChannelSize == Cardinality(Hosts)

Deliver(h) ==
    /\ dial[h] \in Outcomes
    /\ Len(results) < ChannelSize
    /\ results' = Append(results, [host |-> h, outcome |-> dial[h]])
    /\ dial' = [dial EXCEPT ![h] = "ended"]
    /\ UNCHANGED <<conn, caller, taken, firstErr, drainer, remaining>>

-----------------------------------------------------------------------------
(***************************************************************************)
(* newSMTPClient and the rest of CheckSMTP.                                *)
(***************************************************************************)
IsFailure(r) == r.outcome # "connected"

\* Bug: the loop gives up one result early.
LastTaken_early(n) == n >= Cardinality(Hosts) - 1

\* The loop over the results is over with the last of them.
LastTaken(n) == n = Cardinality(Hosts)

TakeFailure ==
    /\ caller.pc = "waiting"
    /\ results # <<>>
    /\ IsFailure(Head(results))
    /\ results' = Tail(results)
    /\ taken' = taken + 1
    /\ firstErr' = IF firstErr = NoHost THEN Head(results).host ELSE firstErr
    /\ caller' = IF LastTaken(taken') THEN [caller EXCEPT !.pc = "failed"] ELSE caller
    /\ UNCHANGED <<dial, conn, drainer, remaining>>

\* Bug: only what is already in the channel is left to the drainer.
Rest_buffered == Len(results) - 1

\* The first connection wins; the results still to come are left to a drainer.
Rest == Cardinality(Hosts) - taken - 1

TakeClient ==
    /\ caller.pc = "waiting"
    /\ results # <<>>
    /\ ~IsFailure(Head(results))
    /\ results' = Tail(results)
    /\ taken' = taken + 1
    /\ caller' = [pc |-> "talking", client |-> Head(results).host]
    /\ remaining' = Rest
    /\ drainer' = IF Rest > 0 THEN "draining" ELSE "none"
    /\ UNCHANGED <<dial, conn, firstErr>>

\* Every return of CheckSMTP after the dial runs the deferred Close.
Finish ==
    /\ caller.pc = "talking"
    /\ conn' = [conn EXCEPT ![caller.client] = "closed"]
    /\ caller' = [caller EXCEPT !.pc = "answered"]
    /\ UNCHANGED <<dial, results, taken, firstErr, drainer, remaining>>

\* Bug: the drainer drops late clients without closing them.
Drained_notClosed(r) == conn

Drained(r) == IF IsFailure(r) THEN conn ELSE [conn EXCEPT ![r.host] = "closed"]

Drain ==
    /\ drainer = "draining"
    /\ results # <<>>
    /\ results' = Tail(results)
    /\ conn' = Drained(Head(results))
    /\ remaining' = remaining - 1
    /\ drainer' = IF remaining = 1 THEN "ended" ELSE "draining"
    /\ UNCHANGED <<dial, caller, taken, firstErr>>

Stopped ==
    /\ caller.pc \in {"answered", "failed"}
    /\ drainer # "draining"
    /\ \A h \in Hosts : dial[h] = "ended"

\* All goroutines have ended.
End == Stopped /\ UNCHANGED vars

Next ==
    \/ \E h \in Hosts : Unreachable(h) \/ Opened(h) \/ Deliver(h)
    \/ \E h \in Hosts, outcome \in {"connected", "rejected"} : Greeted(h, outcome)
    \/ TakeFailure \/ TakeClient \/ Finish \/ Drain
    \/ End

\* A goroutine that can run does, and neither the dial nor the dialogue
\* outlives the timeouts ConnectTimeout and OperationTimeout.
Fairness ==
    /\ \A h \in Hosts : WF_vars(Unreachable(h) \/ Opened(h))
                          /\ WF_vars(\E outcome \in {"connected", "rejected"} : Greeted(h, outcome))
                          /\ WF_vars(Deliver(h))
    /\ WF_vars(TakeFailure \/ TakeClient) /\ WF_vars(Finish) /\ WF_vars(Drain)

Spec == Init /\ [][Next]_vars /\ Fairness
-----------------------------------------------------------------------------
(***************************************************************************)
(* Properties.                                                             *)
(***************************************************************************)

\* The client the caller talks over stays open until the caller closes it, and
\* every other open connection is in hands that will yet close it or pass it
\* on: a dialling goroutine, or the channel while somebody reads it.
NoneLost ==
    /\ caller.pc = "talking" => conn[caller.client] = "open"
    /\ \A h \in Hosts :
         conn[h] = "open" =>
            \/ dial[h] \in {"greeting", "connected"}
            \/ caller.pc = "talking" /\ caller.client = h
            \/ /\ \E i \in DOMAIN results : results[i] = [host |-> h, outcome |-> "connected"]
               /\ caller.pc = "waiting" \/ drainer = "draining"

\* The caller gives up only when every candidate has failed: nothing is under
\* way, and no connection is or will be open.
FailureIsUnanimous ==
    caller.pc = "failed" =>
        /\ results = <<>>
        /\ \A h \in Hosts : dial[h] = "ended" /\ conn[h] # "open"

\* The parts of the inductive invariant that are not properties of their own:
\* a goroutine and its connection, a result and its connection, the caller and
\* its drainer, and the number of results still to come.
DialPhase ==
    \A h \in Hosts :
        /\ dial[h] \in {"greeting", "connected"} => conn[h] = "open"
        /\ dial[h] \in {"dialling", "unreachable", "rejected"} => conn[h] # "open"

ChannelPhase ==
    /\ \A i \in 1..Len(results) :
         LET h == results[i].host IN
         /\ dial[h] = "ended"
         /\ conn[h] = "open" <=> results[i].outcome = "connected"
         /\ h # caller.client
    /\ \A i, j \in 1..Len(results) : results[i].host = results[j].host => i = j

CallerPhase ==
    /\ caller.pc \in {"talking", "answered"} <=> caller.client # NoHost
    /\ caller.client # NoHost => dial[caller.client] = "ended"
    /\ caller.pc = "answered" => conn[caller.client] # "open"
    /\ caller.pc \in {"waiting", "failed"} => remaining = 0
    /\ drainer = "draining" <=> remaining > 0

Unfinished == {h \in Hosts : dial[h] # "ended"}

ToCome ==
    Cardinality(Unfinished) + Len(results) =
        IF caller.pc = "waiting" THEN Cardinality(Hosts) - taken ELSE remaining

DialInv == TypeOK /\ DialPhase /\ ChannelPhase /\ CallerPhase /\ ToCome /\ NoneLost

\* "no goroutine and no connection leaks" (smtp.go:158): in the end the caller,
\* the dialling goroutines and the drainer are through, and all connections are
\* closed, the late ones too.
NothingLeaks == <>[](Stopped /\ \A h \in Hosts : conn[h] # "open")
=============================================================================
