---------------------------- MODULE MxDial_proofs ----------------------------
(***************************************************************************)
(* Proofs about MxDial, for any number of candidate hosts: no connection   *)
(* is lost on the way between the dialling goroutines, the caller and the  *)
(* drainer, and the caller fails only when every candidate has.            *)
(***************************************************************************)
EXTENDS MxDial, FiniteSetTheorems, TLAPS

\* The number of candidates.
N == Cardinality(Hosts)

\* The hosts are finitely many, and so are the goroutines among them that have
\* not delivered; without any the count is zero.
LEMMA Counts ==
  /\ N \in Nat
  /\ IsFiniteSet(Unfinished) /\ Cardinality(Unfinished) \in Nat
  /\ Cardinality(Unfinished) = 0 => Unfinished = {}
<1>1. IsFiniteSet(Unfinished)
  BY DialAssumption, FS_Subset DEF Unfinished
<1> QED
  BY <1>1, DialAssumption, FS_CardinalityType, FS_EmptySet DEF N

\* A result names a host.
LEMMA ResultHost == TypeOK => \A i \in 1..Len(results) : results[i].host \in Hosts
<1> SUFFICES ASSUME TypeOK, NEW i \in 1..Len(results) PROVE results[i].host \in Hosts
  OBVIOUS
<1>1. results[i] \in Result
  BY DEF TypeOK
<1> QED
  BY <1>1 DEF Result

\* In the hands the invariant allows, an open connection is never lost: the
\* first part of NoneLost, and the second without the reader.
Held ==
  /\ caller.pc = "talking" => conn[caller.client] = "open"
  /\ \A h \in Hosts :
       conn[h] = "open" =>
         \/ dial[h] \in {"greeting", "connected"}
         \/ caller.pc = "talking" /\ caller.client = h
         \/ \E i \in 1..Len(results) : results[i] = [host |-> h, outcome |-> "connected"]

\* Somebody reads what is in the channel.
LEMMA ReaderThere ==
  ASSUME TypeOK, CallerPhase, ToCome, results # <<>>
  PROVE  caller.pc = "waiting" \/ drainer = "draining"
<1>1. Len(results) \in Nat /\ Len(results) > 0
  BY DEF TypeOK
<1>2. Cardinality(Unfinished) \in Nat
  BY Counts
<1>3. caller.pc # "waiting" => remaining > 0
  BY <1>1, <1>2 DEF ToCome, TypeOK
<1> QED
  BY <1>3 DEF CallerPhase

\* So what is held is not lost.
LEMMA HeldIsNotLost ==
  ASSUME TypeOK, CallerPhase, ToCome
  PROVE  NoneLost <=> Held
<1>1. DOMAIN results = 1..Len(results)
  BY DEF TypeOK
<1>2. (\E i \in DOMAIN results : TRUE) => results # <<>>
  BY <1>1
<1> QED
  BY <1>1, <1>2, ReaderThere DEF NoneLost, Held

-----------------------------------------------------------------------------
(***************************************************************************)
(* Every step preserves the invariant.                                     *)
(***************************************************************************)

\* The parts of the invariant that are preserved step by step.
Core == TypeOK /\ DialPhase /\ ChannelPhase /\ CallerPhase /\ ToCome /\ Held

\* A step of a goroutine before it delivers keeps the invariant.
LEMMA DialStep ==
  ASSUME Core, NEW h \in Hosts,
         \/ Unreachable(h) \/ Opened(h)
         \/ \E outcome \in {"connected", "rejected"} : Greeted(h, outcome)
  PROVE  Core'
<1> USE DEF Core
<1>1. /\ dial[h] \in {"dialling", "greeting"}
      /\ UNCHANGED <<results, caller, taken, firstErr, drainer, remaining>>
      /\ \E d \in {"unreachable", "greeting", "connected", "rejected"} :
           /\ dial' = [dial EXCEPT ![h] = d]
           /\ \/ d = "unreachable" /\ dial[h] = "dialling" /\ conn' = conn
              \/ d = "greeting" /\ conn' = [conn EXCEPT ![h] = "open"]
              \/ d = "connected" /\ dial[h] = "greeting" /\ conn' = conn
              \/ d = "rejected" /\ conn' = [conn EXCEPT ![h] = "closed"]
  BY DEF Unreachable, Opened, Greeted, AfterBadGreeting
<1>2. PICK d \in {"unreachable", "greeting", "connected", "rejected"} :
           /\ dial' = [dial EXCEPT ![h] = d]
           /\ \/ d = "unreachable" /\ dial[h] = "dialling" /\ conn' = conn
              \/ d = "greeting" /\ conn' = [conn EXCEPT ![h] = "open"]
              \/ d = "connected" /\ dial[h] = "greeting" /\ conn' = conn
              \/ d = "rejected" /\ conn' = [conn EXCEPT ![h] = "closed"]
  BY <1>1
<1>3. TypeOK'
  BY <1>1, <1>2 DEF TypeOK, Outcomes
<1>4. \A g \in Hosts : g # h => dial'[g] = dial[g] /\ conn'[g] = conn[g]
  BY <1>2 DEF TypeOK
<1>5. /\ d \in {"greeting", "connected"} => conn'[h] = "open"
      /\ d \in {"unreachable", "rejected"} => conn'[h] # "open"
      /\ dial'[h] = d
  BY <1>2 DEF TypeOK, DialPhase
<1>6. DialPhase'
  BY <1>4, <1>5 DEF DialPhase
<1>7. \A i \in 1..Len(results) : results[i].host \in Hosts /\ results[i].host # h
  BY <1>1, ResultHost DEF ChannelPhase
<1>8. ChannelPhase'
  BY <1>1, <1>4, <1>7 DEF ChannelPhase
<1>9. caller.client # h /\ caller.client \in Hosts \cup {NoHost}
  BY <1>1, DialAssumption DEF CallerPhase, TypeOK
<1>10. CallerPhase'
  BY <1>1, <1>4, <1>9 DEF CallerPhase
<1>11. Unfinished' = Unfinished
  BY <1>1, <1>4, <1>5 DEF Unfinished
<1>12. ToCome'
  BY <1>1, <1>11 DEF ToCome
<1>13. Held'
  <2>1. caller.pc = "talking" => conn'[caller.client] = "open"
    BY <1>4, <1>9 DEF Held, CallerPhase
  <2>2. ASSUME NEW g \in Hosts, conn'[g] = "open"
        PROVE  \/ dial'[g] \in {"greeting", "connected"}
               \/ caller.pc = "talking" /\ caller.client = g
               \/ \E i \in 1..Len(results) : results[i] = [host |-> g, outcome |-> "connected"]
    BY <1>4, <1>5, <2>2 DEF Held
  <2> QED
    BY <1>1, <2>1, <2>2 DEF Held
<1> QED
  BY <1>3, <1>6, <1>8, <1>10, <1>12, <1>13

\* Delivering a result passes the connection on to the channel.
LEMMA DeliverStep ==
  ASSUME Core, NEW h \in Hosts, Deliver(h)
  PROVE  Core'
<1> USE DEF Core
<1> DEFINE r == [host |-> h, outcome |-> dial[h]]
<1>1. /\ dial[h] \in Outcomes
      /\ results' = Append(results, r)
      /\ dial' = [dial EXCEPT ![h] = "ended"]
      /\ UNCHANGED <<conn, caller, taken, firstErr, drainer, remaining>>
  BY DEF Deliver
<1>2. results \in Seq(Result) /\ r \in Result
  BY <1>1 DEF TypeOK, Result
<1>3. /\ results' \in Seq(Result) /\ Len(results') = Len(results) + 1 /\ Len(results) \in Nat
      /\ \A i \in 1..Len(results) : results'[i] = results[i]
      /\ results'[Len(results) + 1] = r
  <2> HIDE DEF r
  <2> QED
    BY <1>1, <1>2
<1>4. TypeOK'
  BY <1>1, <1>3 DEF TypeOK
<1>5. dial'[h] = "ended" /\ \A g \in Hosts : g # h => dial'[g] = dial[g]
  BY <1>1 DEF TypeOK
<1>6. DialPhase'
  BY <1>1, <1>5 DEF DialPhase
<1>7. \A i \in 1..Len(results) : results[i].host \in Hosts /\ results[i].host # h
  BY <1>1, ResultHost DEF ChannelPhase, Outcomes
<1>8. caller.client # h /\ caller.client \in Hosts \cup {NoHost}
  BY <1>1, DialAssumption DEF CallerPhase, TypeOK, Outcomes
<1>9. conn[h] = "open" <=> dial[h] = "connected"
  BY <1>1 DEF DialPhase, Outcomes
<1>10. ChannelPhase'
  <2>1. \A i \in 1..Len(results') :
          \/ i \in 1..Len(results) /\ results'[i] = results[i]
          \/ i = Len(results) + 1 /\ results'[i] = r
    BY <1>3
  <2>2. ASSUME NEW i \in 1..Len(results')
        PROVE  /\ dial'[results'[i].host] = "ended"
               /\ conn'[results'[i].host] = "open" <=> results'[i].outcome = "connected"
               /\ results'[i].host # caller'.client
    BY <2>1, <1>1, <1>5, <1>7, <1>8, <1>9 DEF ChannelPhase
  <2>3. ASSUME NEW i \in 1..Len(results'), NEW j \in 1..Len(results'),
               results'[i].host = results'[j].host
        PROVE  i = j
    BY <2>1, <2>3, <1>7 DEF ChannelPhase
  <2> QED
    BY <2>2, <2>3 DEF ChannelPhase
<1>11. CallerPhase'
  BY <1>1, <1>5, <1>8 DEF CallerPhase
<1>12. ToCome'
  <2>1. h \in Unfinished /\ Unfinished' = Unfinished \ {h}
    BY <1>1, <1>5 DEF Unfinished, Outcomes
  <2>2. Cardinality(Unfinished') = Cardinality(Unfinished) - 1 /\ Cardinality(Unfinished) \in Nat
    BY <2>1, Counts, FS_RemoveElement
  <2> QED
    BY <2>2, <1>1, <1>3 DEF ToCome
<1>13. Held'
  <2>1. ASSUME NEW g \in Hosts, conn'[g] = "open"
        PROVE  \/ dial'[g] \in {"greeting", "connected"}
               \/ caller'.pc = "talking" /\ caller'.client = g
               \/ \E i \in 1..Len(results') : results'[i] = [host |-> g, outcome |-> "connected"]
    <3>1. CASE g = h
      <4>1. results'[Len(results) + 1] = [host |-> g, outcome |-> "connected"]
        BY <3>1, <2>1, <1>1, <1>3, <1>9
      <4>2. Len(results) + 1 \in 1..Len(results')
        BY <1>3
      <4> QED
        BY <4>1, <4>2
    <3>2. CASE g # h
      BY <3>2, <2>1, <1>1, <1>3, <1>5 DEF Held
    <3> QED
      BY <3>1, <3>2
  <2> QED
    BY <1>1, <2>1 DEF Held
<1> QED
  BY <1>4, <1>6, <1>10, <1>11, <1>12, <1>13

\* The channel after its oldest result has been taken.
LEMMA Taken ==
  ASSUME TypeOK, results # <<>>
  PROVE  /\ Head(results) \in Result /\ Head(results) = results[1]
         /\ Tail(results) \in Seq(Result)
         /\ Len(results) \in Nat /\ Len(results) >= 1
         /\ Len(Tail(results)) = Len(results) - 1
         /\ \A i \in 1..Len(Tail(results)) : Tail(results)[i] = results[i + 1]
         /\ \A i \in 1..Len(results) :
              i = 1 \/ (i - 1 \in 1..Len(Tail(results)) /\ Tail(results)[i - 1] = results[i])
  BY DEF TypeOK

\* Taking a result while the channel is read, when the connection of a taken
\* client goes to the caller or is closed, keeps what the channel says.
LEMMA ChannelAfter ==
  ASSUME Core, results # <<>>, results' = Tail(results), dial' = dial,
         \A g \in Hosts : conn'[g] = conn[g] \/ g = Head(results).host,
         caller'.client \in {caller.client, Head(results).host}
  PROVE  ChannelPhase'
<1>1. \A i \in 1..Len(results') : /\ i + 1 \in 1..Len(results) /\ results'[i] = results[i + 1]
                                  /\ i + 1 # 1
  BY Taken DEF Core
<1>2. \A i \in 1..Len(results) : results[i].host \in Hosts
  BY ResultHost DEF Core
<1>3. 1 \in 1..Len(results) /\ Head(results) = results[1]
  BY Taken DEF Core
<1>4. \A i \in 1..Len(results') : results'[i].host # Head(results).host
  BY <1>1, <1>3 DEF Core, ChannelPhase
<1>5. ASSUME NEW i \in 1..Len(results')
      PROVE  /\ dial'[results'[i].host] = "ended"
             /\ conn'[results'[i].host] = "open" <=> results'[i].outcome = "connected"
             /\ results'[i].host # caller'.client
  BY <1>1, <1>2, <1>4 DEF Core, ChannelPhase
<1>6. ASSUME NEW i \in 1..Len(results'), NEW j \in 1..Len(results'),
             results'[i].host = results'[j].host
      PROVE  i = j
  BY <1>1, <1>6 DEF Core, ChannelPhase
<1> QED
  BY <1>5, <1>6 DEF ChannelPhase

\* The other results are still there.
LEMMA HeldAfter ==
  ASSUME Core, results # <<>>, results' = Tail(results), NEW g \in Hosts,
         g # Head(results).host,
         \E i \in 1..Len(results) : results[i] = [host |-> g, outcome |-> "connected"]
  PROVE  \E i \in 1..Len(results') : results'[i] = [host |-> g, outcome |-> "connected"]
<1>1. PICK i \in 1..Len(results) : results[i] = [host |-> g, outcome |-> "connected"]
  OBVIOUS
<1>2. i # 1
  BY <1>1, Taken DEF Core
<1> QED
  BY <1>1, <1>2, Taken DEF Core

\* The caller takes a failure: nothing open is taken with it.
LEMMA TakeFailureStep == ASSUME Core, TakeFailure PROVE Core'
<1> USE DEF Core
<1> DEFINE h == Head(results).host
<1>1. /\ caller.pc = "waiting" /\ results # <<>> /\ Head(results).outcome # "connected"
      /\ results' = Tail(results) /\ taken' = taken + 1
      /\ firstErr' = IF firstErr = NoHost THEN h ELSE firstErr
      /\ caller' = IF taken + 1 = N THEN [caller EXCEPT !.pc = "failed"] ELSE caller
      /\ UNCHANGED <<dial, conn, drainer, remaining>>
  BY DEF TakeFailure, IsFailure, LastTaken, N
<1>2. /\ Len(results) \in Nat /\ Len(results) >= 1 /\ Len(results') = Len(results) - 1
      /\ results' \in Seq(Result) /\ h \in Hosts
      /\ 1 \in 1..Len(results) /\ results[1] = Head(results)
  BY <1>1, Taken DEF Result
<1>3. /\ Cardinality(Unfinished) + Len(results) = N - taken
      /\ N \in Nat /\ Cardinality(Unfinished) \in Nat /\ taken \in 0..N
  BY <1>1, Counts DEF ToCome, TypeOK, N
<1>4. taken' \in 0..N
  BY <1>1, <1>2, <1>3
<1>5. caller'.client = caller.client /\ caller'.pc \in {"waiting", "failed"}
      /\ (caller'.pc = "failed" <=> taken + 1 = N)
      /\ caller' \in [pc: {"waiting", "talking", "answered", "failed"}, client: Hosts \cup {NoHost}]
  BY <1>1 DEF TypeOK
<1>6. TypeOK'
  BY <1>1, <1>2, <1>4, <1>5 DEF TypeOK, N
<1>7. DialPhase' /\ CallerPhase'
  BY <1>1, <1>5 DEF DialPhase, CallerPhase
<1>8. ChannelPhase'
  BY <1>1, <1>5, ChannelAfter
<1>9. ToCome'
  <2>1. Unfinished' = Unfinished /\ remaining' = 0
    BY <1>1 DEF Unfinished, CallerPhase
  <2>2. Cardinality(Unfinished) + Len(results') = N - taken'
    BY <1>1, <1>2, <1>3
  <2>3. taken' = N => Cardinality(Unfinished) + Len(results') = 0
    BY <2>2, <1>3
  <2>4. caller'.pc # "waiting" => taken' = N
    BY <1>1, <1>5
  <2> HIDE DEF h
  <2> QED
    BY <2>1, <2>2, <2>3, <2>4 DEF ToCome, N
<1>10. conn[h] # "open"
  BY <1>1, <1>2 DEF ChannelPhase
<1>11. Held'
  BY <1>1, <1>5, <1>10, HeldAfter DEF Held
<1> QED
  BY <1>6, <1>7, <1>8, <1>9, <1>11

\* The caller takes its client, and leaves exactly the rest to a drainer.
LEMMA TakeClientStep == ASSUME Core, TakeClient PROVE Core'
<1> USE DEF Core
<1> DEFINE h == Head(results).host
<1>1. /\ caller.pc = "waiting" /\ results # <<>> /\ Head(results).outcome = "connected"
      /\ results' = Tail(results) /\ taken' = taken + 1
      /\ caller' = [pc |-> "talking", client |-> h]
      /\ remaining' = N - taken - 1
      /\ drainer' = IF N - taken - 1 > 0 THEN "draining" ELSE "none"
      /\ UNCHANGED <<dial, conn, firstErr>>
  BY DEF TakeClient, IsFailure, Rest, N
<1>2. /\ Len(results) \in Nat /\ Len(results) >= 1 /\ Len(results') = Len(results) - 1
      /\ results' \in Seq(Result) /\ h \in Hosts
      /\ 1 \in 1..Len(results) /\ results[1] = Head(results)
  BY <1>1, Taken DEF Result
<1>3. /\ Cardinality(Unfinished) + Len(results) = N - taken
      /\ N \in Nat /\ Cardinality(Unfinished) \in Nat /\ taken \in 0..N
  BY <1>1, Counts DEF ToCome, TypeOK, N
<1>4. taken' \in 0..N /\ remaining' \in 0..N
  BY <1>1, <1>2, <1>3
<1>5. TypeOK'
  BY <1>1, <1>2, <1>4 DEF TypeOK, N
<1>6. dial[h] = "ended" /\ conn[h] = "open" /\ h # NoHost
  BY <1>1, <1>2, DialAssumption DEF ChannelPhase
<1>7. DialPhase'
  BY <1>1 DEF DialPhase
<1>8. CallerPhase'
  BY <1>1, <1>4, <1>6 DEF CallerPhase
<1>9. ChannelPhase'
  BY <1>1, ChannelAfter
<1>10. ToCome'
  <2>1. Unfinished' = Unfinished
    BY <1>1 DEF Unfinished
  <2> QED
    BY <2>1, <1>1, <1>2, <1>3 DEF ToCome
<1>11. Held'
  BY <1>1, <1>6, HeldAfter DEF Held
<1> QED
  BY <1>5, <1>7, <1>8, <1>9, <1>10, <1>11

\* The caller closes its client.
LEMMA FinishStep == ASSUME Core, Finish PROVE Core'
<1> USE DEF Core
<1>1. /\ caller.pc = "talking"
      /\ conn' = [conn EXCEPT ![caller.client] = "closed"]
      /\ caller' = [caller EXCEPT !.pc = "answered"]
      /\ UNCHANGED <<dial, results, taken, firstErr, drainer, remaining>>
  BY DEF Finish
<1>2. /\ caller.client \in Hosts /\ dial[caller.client] = "ended"
      /\ caller'.client = caller.client /\ caller'.pc = "answered"
      /\ conn'[caller.client] = "closed"
      /\ \A g \in Hosts : g # caller.client => conn'[g] = conn[g]
  BY <1>1 DEF TypeOK, CallerPhase
<1>3. TypeOK'
  BY <1>1, <1>2 DEF TypeOK
<1>4. DialPhase'
  BY <1>1, <1>2 DEF DialPhase
<1>5. ChannelPhase'
  <2>1. \A i \in 1..Len(results) : results[i].host \in Hosts
    BY ResultHost
  <2> QED
    BY <1>1, <1>2, <2>1 DEF ChannelPhase
<1>6. CallerPhase'
  BY <1>1, <1>2 DEF CallerPhase
<1>7. ToCome'
  BY <1>1, <1>2 DEF ToCome, Unfinished
<1>8. Held'
  BY <1>1, <1>2 DEF Held
<1> QED
  BY <1>3, <1>4, <1>5, <1>6, <1>7, <1>8

\* The drainer takes a result and closes its client.
LEMMA DrainStep == ASSUME Core, Drain PROVE Core'
<1> USE DEF Core
<1> DEFINE h == Head(results).host
<1>1. /\ drainer = "draining" /\ results # <<>>
      /\ results' = Tail(results)
      /\ conn' = Drained(Head(results))
      /\ remaining' = remaining - 1
      /\ drainer' = IF remaining = 1 THEN "ended" ELSE "draining"
      /\ UNCHANGED <<dial, caller, taken, firstErr>>
  BY DEF Drain
<1>2. /\ Len(results) \in Nat /\ Len(results) >= 1 /\ Len(results') = Len(results) - 1
      /\ results' \in Seq(Result) /\ h \in Hosts
      /\ 1 \in 1..Len(results) /\ results[1] = Head(results)
  BY <1>1, Taken DEF Result
<1>3. /\ remaining \in 1..N /\ caller.pc \notin {"waiting", "failed"}
      /\ N \in Nat /\ Cardinality(Unfinished) \in Nat
  BY <1>1, Counts DEF CallerPhase, TypeOK, N
<1>4. dial[h] = "ended" /\ h # caller.client
  BY <1>2 DEF ChannelPhase
<1>5. /\ conn' \in [Hosts -> {"none", "open", "closed"}]
      /\ conn'[h] # "open"
      /\ \A g \in Hosts : g # h => conn'[g] = conn[g]
  <2>1. CASE Head(results).outcome = "connected"
    BY <1>1, <1>2, <2>1 DEF Drained, IsFailure, TypeOK
  <2>2. CASE Head(results).outcome # "connected"
    BY <1>1, <1>2, <2>2 DEF Drained, IsFailure, TypeOK, ChannelPhase
  <2> QED
    BY <2>1, <2>2
<1>6. remaining' \in 0..N
  BY <1>1, <1>3
<1>7. TypeOK'
  BY <1>1, <1>2, <1>5, <1>6 DEF TypeOK, N
<1>8. DialPhase'
  BY <1>1, <1>4, <1>5 DEF DialPhase
<1>9. CallerPhase'
  <2>1. caller.client # NoHost => caller.client \in Hosts
    BY DEF TypeOK
  <2> QED
    BY <2>1, <1>1, <1>3, <1>4, <1>5 DEF CallerPhase
<1>10. ChannelPhase'
  BY <1>1, <1>5, ChannelAfter
<1>11. ToCome'
  <2>1. Unfinished' = Unfinished
    BY <1>1 DEF Unfinished
  <2> QED
    BY <2>1, <1>1, <1>2, <1>3 DEF ToCome
<1>12. Held'
  <2>1. caller.pc = "talking" => caller.client \in Hosts
    BY DEF TypeOK, CallerPhase
  <2> QED
    BY <2>1, <1>1, <1>4, <1>5, HeldAfter DEF Held
<1> QED
  BY <1>7, <1>8, <1>9, <1>10, <1>11, <1>12

\* The invariant holds in every reachable state.
THEOREM DialInductive == Spec => []DialInv
<1>1. Init => Core
  <2> SUFFICES ASSUME Init PROVE Core
    OBVIOUS
  <2>1. Unfinished = Hosts /\ N \in Nat
    BY Counts DEF Init, Unfinished
  <2>2. TypeOK
    BY <2>1 DEF Init, TypeOK, N
  <2>3. DialPhase /\ ChannelPhase /\ CallerPhase /\ Held
    BY DEF Init, DialPhase, ChannelPhase, CallerPhase, Held
  <2>4. ToCome
    BY <2>1 DEF Init, ToCome, N
  <2> QED
    BY <2>2, <2>3, <2>4 DEF Core
<1>2. Core /\ [Next]_vars => Core'
  <2> SUFFICES ASSUME Core, [Next]_vars PROVE Core'
    OBVIOUS
  <2>1. CASE End \/ UNCHANGED vars
    <3>1. UNCHANGED vars
      BY <2>1 DEF End
    <3>2. TypeOK'
      BY <3>1 DEF vars, Core, TypeOK
    <3>3. DialPhase' /\ ChannelPhase' /\ CallerPhase'
      BY <3>1 DEF vars, Core, DialPhase, ChannelPhase, CallerPhase
    <3>4. ToCome'
      BY <3>1 DEF vars, Core, ToCome, Unfinished
    <3>5. Held'
      BY <3>1 DEF vars, Core, Held
    <3> QED
      BY <3>2, <3>3, <3>4, <3>5 DEF Core
  <2>2. ASSUME NEW h \in Hosts, Unreachable(h) \/ Opened(h) PROVE Core'
    BY <2>2, DialStep
  <2>3. ASSUME NEW h \in Hosts, NEW outcome \in {"connected", "rejected"}, Greeted(h, outcome)
        PROVE  Core'
    BY <2>3, DialStep
  <2>4. ASSUME NEW h \in Hosts, Deliver(h) PROVE Core'
    BY <2>4, DeliverStep
  <2>5. CASE TakeFailure \/ TakeClient \/ Finish \/ Drain
    BY <2>5, TakeFailureStep, TakeClientStep, FinishStep, DrainStep
  <2> QED
    BY <2>1, <2>2, <2>3, <2>4, <2>5 DEF Next
<1>3. Core => DialInv
  BY HeldIsNotLost DEF Core, DialInv
<1> QED
  BY <1>1, <1>2, <1>3, PTL DEF Spec

\* Every variable keeps its type: neither count leaves its bounds.
THEOREM DialTypeCorrect == Spec => []TypeOK
BY DialInductive, PTL DEF DialInv

\* No connection gets lost between goroutines, channel, caller and drainer,
\* and nobody closes the client under the caller.
THEOREM NoneLostHolds == Spec => []NoneLost
BY DialInductive, PTL DEF DialInv

\* CheckSMTP fails only when every candidate host has.
THEOREM FailureHolds == Spec => []FailureIsUnanimous
<1>1. DialInv => FailureIsUnanimous
  <2> SUFFICES ASSUME DialInv, caller.pc = "failed"
               PROVE  results = <<>> /\ \A h \in Hosts : dial[h] = "ended" /\ conn[h] # "open"
    BY DEF FailureIsUnanimous
  <2> USE DEF DialInv
  <2>1. Cardinality(Unfinished) + Len(results) = 0
    BY DEF ToCome, CallerPhase
  <2>2. Cardinality(Unfinished) = 0 /\ Len(results) = 0
    BY <2>1, Counts DEF TypeOK
  <2>3. results = <<>>
    BY <2>2 DEF TypeOK
  <2>4. \A h \in Hosts : dial[h] = "ended"
    BY <2>2, Counts DEF Unfinished
  <2> QED
    BY <2>3, <2>4 DEF NoneLost
<1> QED
  BY <1>1, DialInductive, PTL

\* "so every dial goroutine can deliver its single result without ever blocking
\* - even after a winner has been chosen" (smtp.go:154).
THEOREM SendsNeverBlock ==
  Spec => [](\A h \in Hosts : dial[h] \in Outcomes => Len(results) < ChannelSize)
<1>1. DialInv => \A h \in Hosts : dial[h] \in Outcomes => Len(results) < ChannelSize
  <2> SUFFICES ASSUME DialInv, NEW h \in Hosts, dial[h] \in Outcomes
               PROVE  Len(results) < ChannelSize
    OBVIOUS
  <2>1. h \in Unfinished
    BY DEF Unfinished, Outcomes
  <2>2. Cardinality(Unfinished) \in Nat \ {0}
    BY <2>1, Counts
  <2>3. Len(results) < N
    BY <2>2, Counts DEF DialInv, ToCome, TypeOK, N
  <2> QED
    BY <2>3 DEF ChannelSize, N
<1> QED
  BY <1>1, DialInductive, PTL

-----------------------------------------------------------------------------
(***************************************************************************)
(* What NothingLeaks promises is reached under fairness, which stays with  *)
(* TLC.  The rest of the argument is safety: nothing is open at the end,   *)
(* before the end some goroutine can go on, and the steps run out.         *)
(***************************************************************************)

\* When every goroutine has ended, every connection is closed (smtp.go:158).
THEOREM EndsClean == Spec => [](Stopped => \A h \in Hosts : conn[h] # "open")
<1>1. DialInv => (Stopped => \A h \in Hosts : conn[h] # "open")
  BY DEF DialInv, NoneLost, Stopped
<1> QED
  BY <1>1, DialInductive, PTL

\* A goroutine that need not wait: one that dials, reads the greeting or has
\* room to deliver, a reader of a channel that holds something, the caller in
\* its dialogue.
CanGo ==
  \/ \E h \in Hosts : dial[h] \in {"dialling", "greeting"}
  \/ \E h \in Hosts : dial[h] \in Outcomes /\ Len(results) < ChannelSize
  \/ results # <<>> /\ (caller.pc = "waiting" \/ drainer = "draining")
  \/ caller.pc = "talking"

\* A caller that waits has not taken every result: the loop ends at the last.
LEMMA WaitsForMore == Spec => [](caller.pc = "waiting" => taken # N)
<1> DEFINE W == caller.pc = "waiting" => taken # N
<1>1. Init => W
  BY DialAssumption, FS_EmptySet DEF Init, N
<1>2. TypeOK /\ W /\ [Next]_vars => W'
  <2> SUFFICES ASSUME TypeOK, W, [Next]_vars PROVE W'
    OBVIOUS
  <2>1. CASE TakeFailure
    BY <2>1 DEF TakeFailure, LastTaken, N, TypeOK
  <2>2. CASE TakeClient
    BY <2>2 DEF TakeClient
  <2>3. CASE Finish
    BY <2>3 DEF Finish, TypeOK
  <2>4. CASE UNCHANGED <<caller, taken>>
    BY <2>4
  <2>5. \/ TakeFailure \/ TakeClient \/ Finish \/ UNCHANGED <<caller, taken>>
    BY DEF Next, vars, Unreachable, Opened, Deliver, Greeted, Drain, End
  <2> QED
    BY <2>1, <2>2, <2>3, <2>4, <2>5
<1> QED
  BY <1>1, <1>2, DialTypeCorrect, PTL DEF Spec

\* Nobody waits for everybody: until all have ended, some goroutine can go on.
THEOREM SomeoneCanGo == Spec => [](Stopped \/ CanGo)
<1>1. ASSUME DialInv, caller.pc = "waiting" => taken # N, ~CanGo
      PROVE  Stopped
  <2> USE DEF DialInv
  <2>1. \A h \in Hosts : dial[h] = "ended" \/ dial[h] \in Outcomes
    BY <1>1 DEF CanGo, TypeOK
  <2>2. Cardinality(Unfinished) # 0 => Len(results) < N
    BY <1>1, Counts DEF ToCome, TypeOK, N
  <2>3. Unfinished = {}
    <3>1. ASSUME NEW h \in Unfinished
          PROVE  FALSE
      <4>1. Cardinality(Unfinished) # 0
        BY Counts
      <4>2. dial[h] \in Outcomes /\ Len(results) < ChannelSize
        BY <2>1, <2>2, <4>1 DEF Unfinished, ChannelSize, N
      <4> QED
        BY <1>1, <4>2 DEF CanGo, Unfinished
    <3> QED
      BY <3>1
  <2>4. results = <<>>
    BY <1>1, ReaderThere DEF CanGo
  <2>5. Cardinality(Unfinished) + Len(results) = 0
    BY <2>3, <2>4, FS_EmptySet
  <2>6. caller.pc # "waiting" /\ remaining = 0
    BY <1>1, <2>5, Counts DEF ToCome, TypeOK, N
  <2> QED
    BY <1>1, <2>3, <2>6 DEF Stopped, CanGo, CallerPhase, TypeOK, Unfinished
<1> QED
  BY <1>1, DialInductive, WaitsForMore, PTL

\* The goroutines that have yet to connect, and to be through with the dial.
Dialling == {h \in Hosts : dial[h] = "dialling"}
Opening == {h \in Hosts : dial[h] \in {"dialling", "greeting"}}

\* How many steps there can be still: two for each dial, one for its delivery
\* and one for the result it delivers, and those of the caller.
StepsLeft ==
  Cardinality(Dialling) + Cardinality(Opening) + 2 * Cardinality(Unfinished) + Len(results)
    + (IF caller.pc = "waiting" THEN 2 ELSE IF caller.pc = "talking" THEN 1 ELSE 0)

\* The counts of goroutines are natural numbers.
LEMMA GoroutineCounts ==
  /\ IsFiniteSet(Dialling) /\ IsFiniteSet(Opening) /\ IsFiniteSet(Unfinished)
  /\ Cardinality(Dialling) \in Nat /\ Cardinality(Opening) \in Nat
  /\ Cardinality(Unfinished) \in Nat
<1>1. IsFiniteSet(Dialling) /\ IsFiniteSet(Opening) /\ IsFiniteSet(Unfinished)
  BY DialAssumption, FS_Subset DEF Dialling, Opening, Unfinished
<1> QED
  BY <1>1, FS_CardinalityType

\* A step of a goroutine brings its dial on.
LEMMA DialsRunOut ==
  ASSUME TypeOK, NEW h \in Hosts,
         \/ Unreachable(h) \/ Opened(h) \/ Deliver(h)
         \/ \E outcome \in {"connected", "rejected"} : Greeted(h, outcome)
  PROVE  StepsLeft' < StepsLeft
<1>1. \A S : IsFiniteSet(S) /\ h \in S => Cardinality(S \ {h}) = Cardinality(S) - 1
  BY FS_RemoveElement
<1>2. Len(results) \in Nat
  BY DEF TypeOK
<1>3. CASE Unreachable(h)
  <2>1. /\ Dialling' = Dialling \ {h} /\ Opening' = Opening \ {h} /\ Unfinished' = Unfinished
        /\ h \in Dialling /\ h \in Opening
    BY <1>3 DEF Unreachable, Dialling, Opening, Unfinished, TypeOK
  <2>2. /\ Cardinality(Dialling') = Cardinality(Dialling) - 1
        /\ Cardinality(Opening') = Cardinality(Opening) - 1
    BY <1>1, <2>1, GoroutineCounts
  <2>3. UNCHANGED <<results, caller>>
    BY <1>3 DEF Unreachable
  <2> QED
    BY <1>2, <2>1, <2>2, <2>3, GoroutineCounts DEF StepsLeft
<1>4. CASE Opened(h)
  <2>1. /\ Dialling' = Dialling \ {h} /\ Opening' = Opening /\ Unfinished' = Unfinished
        /\ h \in Dialling
    BY <1>4 DEF Opened, Dialling, Opening, Unfinished, TypeOK
  <2>2. Cardinality(Dialling') = Cardinality(Dialling) - 1
    BY <1>1, <2>1, GoroutineCounts
  <2>3. UNCHANGED <<results, caller>>
    BY <1>4 DEF Opened
  <2> QED
    BY <1>2, <2>1, <2>2, <2>3, GoroutineCounts DEF StepsLeft
<1>5. ASSUME NEW outcome \in {"connected", "rejected"}, Greeted(h, outcome)
      PROVE  StepsLeft' < StepsLeft
  <2>1. /\ Dialling' = Dialling /\ Opening' = Opening \ {h} /\ Unfinished' = Unfinished
        /\ h \in Opening
    BY <1>5 DEF Greeted, Dialling, Opening, Unfinished, TypeOK
  <2>2. Cardinality(Opening') = Cardinality(Opening) - 1
    BY <1>1, <2>1, GoroutineCounts
  <2>3. UNCHANGED <<results, caller>>
    BY <1>5 DEF Greeted
  <2> QED
    BY <1>2, <2>1, <2>2, <2>3, GoroutineCounts DEF StepsLeft
<1>6. CASE Deliver(h)
  <2>1. /\ Dialling' = Dialling /\ Opening' = Opening /\ Unfinished' = Unfinished \ {h}
        /\ h \in Unfinished
    BY <1>6 DEF Deliver, Outcomes, Dialling, Opening, Unfinished, TypeOK
  <2>2. Cardinality(Unfinished') = Cardinality(Unfinished) - 1
    BY <1>1, <2>1, GoroutineCounts
  <2>3. Len(results') = Len(results) + 1 /\ caller' = caller
    BY <1>6 DEF Deliver, TypeOK
  <2> QED
    BY <1>2, <2>1, <2>2, <2>3, GoroutineCounts DEF StepsLeft
<1> QED
  BY <1>3, <1>4, <1>5, <1>6

\* Every step is one of finitely many: nobody redials, waits in a loop or puts
\* a result back, so that a call of CheckSMTP ends unless a goroutine that can
\* go on never does.
THEOREM StepsRunOut == Spec => [][(StepsLeft \in Nat) /\ StepsLeft' < StepsLeft]_vars
<1>1. ASSUME TypeOK, [Next]_vars
      PROVE  (StepsLeft \in Nat /\ StepsLeft' < StepsLeft) \/ UNCHANGED vars
  <2>1. StepsLeft \in Nat
    BY <1>1, GoroutineCounts DEF StepsLeft, TypeOK
  <2>2. ASSUME UNCHANGED dial, Len(results') = Len(results) - 1,
               caller' = caller \/ caller.pc = "waiting"
        PROVE  StepsLeft' < StepsLeft
    <3> DEFINE rank(c) == IF c.pc = "waiting" THEN 2 ELSE IF c.pc = "talking" THEN 1 ELSE 0
               goroutines == Cardinality(Dialling) + Cardinality(Opening) + 2 * Cardinality(Unfinished)
    <3>1. goroutines' = goroutines /\ goroutines \in Nat
      BY <2>2, GoroutineCounts DEF Dialling, Opening, Unfinished
    <3>2. rank(caller') <= rank(caller) /\ rank(caller) \in Nat /\ rank(caller') \in Nat
      BY <2>2
    <3>3. /\ StepsLeft = goroutines + Len(results) + rank(caller)
          /\ StepsLeft' = goroutines' + Len(results') + rank(caller')
      BY DEF StepsLeft
    <3>4. PICK g \in Nat, now \in Nat, next \in Nat :
                 /\ StepsLeft = g + Len(results) + now
                 /\ StepsLeft' = g + (Len(results) - 1) + next
                 /\ next <= now
      <4> HIDE DEF rank, goroutines
      <4>1. StepsLeft' = goroutines + (Len(results) - 1) + rank(caller')
        BY <2>2, <3>1, <3>3
      <4> QED
        BY <3>1, <3>2, <3>3, <4>1
    <3>5. Len(results) \in Nat
      BY <1>1 DEF TypeOK
    <3> HIDE DEF rank, goroutines
    <3> QED
      BY <3>4, <3>5
  <2>3. results # <<>> => Len(Tail(results)) = Len(results) - 1
    BY <1>1 DEF TypeOK
  <2>4. CASE TakeFailure \/ TakeClient \/ Drain
    BY <2>1, <2>2, <2>3, <2>4 DEF TakeFailure, TakeClient, Drain
  <2>5. CASE Finish
    <3>1. Dialling' = Dialling /\ Opening' = Opening /\ Unfinished' = Unfinished
          /\ results' = results /\ caller.pc = "talking" /\ caller'.pc = "answered"
      BY <1>1, <2>5 DEF Finish, Dialling, Opening, Unfinished, TypeOK
    <3> QED
      BY <1>1, <2>1, <3>1, GoroutineCounts DEF StepsLeft, TypeOK
  <2> QED
    BY <1>1, <2>1, <2>4, <2>5, DialsRunOut DEF Next, End
<1> QED
  BY <1>1, DialTypeCorrect, PTL DEF Spec
=============================================================================
