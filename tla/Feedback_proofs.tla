--------------------------- MODULE Feedback_proofs ---------------------------
(***************************************************************************)
(* Proofs about Feedback, for any number of handlers, mails and domains:   *)
(* its types; that the score of a domain follows the outcomes recorded for *)
(* it, for every history and every score; that nothing is recorded that    *)
(* did not happen to the mail (Founded), that without faults every event   *)
(* is recorded, in a handler's hands or on the wire (Ledger), and what     *)
(* this makes of a domain with no bounce that counts, or nothing but.      *)
(***************************************************************************)
EXTENDS Feedback, FiniteSetTheorems, TLAPS

\* A sending history as the score sees it.
Rep(delivered, bounced) == [delivered |-> delivered, bounced |-> bounced]

-----------------------------------------------------------------------------
(***************************************************************************)
(* The arithmetic of the score.                                            *)
(***************************************************************************)

\* One more bounce keeps every bounce rate that was reached, and can not make
\* a history reliable: the fifth sample must not be a bounce.
LEMMA OneMoreBounce ==
  ASSUME NEW d \in Nat, NEW b \in Nat
  PROVE  /\ RateAtLeast(Rep(d, b), 50) => RateAtLeast(Rep(d, b + 1), 50)
         /\ RateAtLeast(Rep(d, b), 20) => RateAtLeast(Rep(d, b + 1), 20)
         /\ Reliable(Rep(d, b + 1)) => Reliable(Rep(d, b))
  BY SMT DEF Rep, RateAtLeast, Reliable, Samples

\* One more delivery reaches no bounce rate, and keeps a history reliable.
LEMMA OneMoreDelivery ==
  ASSUME NEW d \in Nat, NEW b \in Nat
  PROVE  /\ RateAtLeast(Rep(d + 1, b), 50) => RateAtLeast(Rep(d, b), 50)
         /\ RateAtLeast(Rep(d + 1, b), 20) => RateAtLeast(Rep(d, b), 20)
         /\ Reliable(Rep(d, b)) => Reliable(Rep(d + 1, b))
  BY SMT DEF Rep, RateAtLeast, Reliable, Samples

\* A history that is no worse by any of the three tests scores no less.
LEMMA ScoreMonotone ==
  ASSUME NEW score \in 0..100, NEW catchAll, NEW worse, NEW better,
         RateAtLeast(better, 50) => RateAtLeast(worse, 50),
         RateAtLeast(better, 20) => RateAtLeast(worse, 20),
         Reliable(worse) => Reliable(better)
  PROVE  HistoryScore(score, catchAll, worse) <= HistoryScore(score, catchAll, better)
<1> DEFINE low  == RefineCatchAllScore(score, catchAll, worse)
           high == RefineCatchAllScore(score, catchAll, better)
<1>1. low \in 0..100 /\ high \in 0..100 /\ low <= high
  BY DEF RefineCatchAllScore, ClampScore, AtMost, AtLeast
<1>2. HistoryScore(score, catchAll, worse) = AdjustScoreForReputation(low, worse)
      /\ HistoryScore(score, catchAll, better) = AdjustScoreForReputation(high, better)
  BY DEF HistoryScore
<1>3. AdjustScoreForReputation(low, worse) <= AdjustScoreForReputation(high, better)
  <2> HIDE DEF low, high
  <2> QED
    BY <1>1 DEF AdjustScoreForReputation, ClampScore, AtMost, AtLeast
<1> QED
  BY <1>2, <1>3

-----------------------------------------------------------------------------
(***************************************************************************)
(* Type correctness.                                                       *)
(***************************************************************************)

\* Every step of the provider keeps the types.
LEMMA ProviderType == TypeOK /\ Provider => TypeOK'
<1> SUFFICES ASSUME TypeOK, Provider PROVE TypeOK'
  OBVIOUS
<1> USE FeedbackAssumption
<1>1. ASSUME NEW m \in Mails, NEW to \in SUBSET Addresses, NEW kind \in Notices,
             Notify(m, kind, to)
      PROVE  wire' \subseteq Notifications
  <2>1. [mail |-> m, kind |-> kind, to |-> to] \in Notifications
    BY DEF Notifications
  <2> QED
    BY <1>1, <2>1 DEF TypeOK, Notify
<1>2. ASSUME NEW m \in Mails, NEW to \in SUBSET Addresses, NEW kind \in Notices,
             NEW what \in Fates,
             Becomes(m, to, what), Notify(m, kind, to), UNCHANGED <<delays, handler, tally, faults>>
      PROVE  TypeOK'
  <2>1. fate' \in [Mails -> [Addresses -> Fates]]
    BY <1>2 DEF TypeOK, Becomes
  <2> QED
    BY <1>1, <1>2, <2>1 DEF TypeOK
<1>3. PICK m \in Mails :
         \/ Send(m)
         \/ \E to \in SUBSET To[m] :
               \/ Settle(m, to, "delivery") \/ Settle(m, to, "bounce")
               \/ Return(m, to) \/ Delay(m, to)
         \/ \E a \in To[m] : React(m, a, "open") \/ React(m, a, "complaint")
  BY DEF Provider
<1>4. To[m] \in SUBSET Addresses
  OBVIOUS
<1>5. CASE Send(m)
  BY <1>2, <1>4, <1>5 DEF Send, Notices, Fates
<1>6. ASSUME NEW to \in SUBSET To[m], NEW kind \in {"delivery", "bounce"}, Settle(m, to, kind)
      PROVE  TypeOK'
  BY <1>2, <1>4, <1>6 DEF Settle, Notices, Fates
<1>7. ASSUME NEW to \in SUBSET To[m], Return(m, to)
      PROVE  TypeOK'
  BY <1>2, <1>4, <1>7 DEF Return, Notices, Fates
<1>8. ASSUME NEW to \in SUBSET To[m], Delay(m, to)
      PROVE  TypeOK'
  <2>1. wire' \subseteq Notifications
    BY <1>1, <1>4, <1>8 DEF Delay, Notices
  <2>2. delays' \in [Mails -> [Addresses -> Nat]]
    <3>1. [a \in Addresses |-> delays[m][a] + IF a \in to THEN 1 ELSE 0] \in [Addresses -> Nat]
      BY DEF TypeOK
    <3> QED
      BY <1>8, <3>1 DEF Delay, TypeOK
  <2> QED
    BY <1>8, <2>1, <2>2 DEF Delay, TypeOK
<1>9. ASSUME NEW a \in To[m], NEW kind \in {"open", "complaint"}, React(m, a, kind)
      PROVE  TypeOK'
  <2>1. {a} \in SUBSET Addresses
    BY <1>4
  <2> QED
    BY <1>2, <1>9, <2>1 DEF React, Notices, Fates
<1> QED
  BY <1>3, <1>5, <1>6, <1>7, <1>8, <1>9

\* Recording one event keeps the types: it adds to one count of one tally.
LEMMA RecordType ==
  ASSUME TypeOK, NEW h \in Handlers, NEW a \in handler[h].left, Record(h, a)
  PROVE  TypeOK'
<1>1. handler[h] \in [event: Types \cup {"none"}, left: SUBSET Addresses]
  BY DEF TypeOK
<1>2. a \in Addresses /\ DomainOf[a] \in Domains \cup {NoDomain}
  BY <1>1, FeedbackAssumption
<1>3. tally' \in [Domains -> [Types -> Nat]]
  <2>1. CASE DomainOf[a] = NoDomain
    BY <2>1 DEF Record, TypeOK
  <2>2. CASE DomainOf[a] # NoDomain
    <3> DEFINE d == DomainOf[a]
               e == handler[h].event
    <3>1. tally' = [tally EXCEPT ![d][e] = @ + 1] /\ d \in Domains
      BY <1>2, <2>2 DEF Record
    <3>2. [tally[d] EXCEPT ![e] = @ + 1] \in [Types -> Nat]
      <4>1. tally[d] \in [Types -> Nat]
        BY <3>1 DEF TypeOK
      <4>2. CASE e \in Types
        BY <4>1, <4>2
      <4>3. CASE e \notin Types
        <5>1. [tally[d] EXCEPT ![e] = @ + 1] = tally[d]
          BY <4>1, <4>3
        <5> QED
          BY <4>1, <5>1
      <4> QED
        BY <4>2, <4>3
    <3> QED
      BY <3>1, <3>2 DEF TypeOK
  <2> QED
    BY <2>1, <2>2
<1>4. handler' \in [Handlers -> [event: Types \cup {"none"}, left: SUBSET Addresses]]
  <2>1. [handler[h] EXCEPT !.left = handler[h].left \ {a}]
          \in [event: Types \cup {"none"}, left: SUBSET Addresses]
    BY <1>1
  <2>2. Free \in [event: Types \cup {"none"}, left: SUBSET Addresses]
    BY DEF Free
  <2> QED
    BY <2>1, <2>2 DEF Record, TypeOK
<1> QED
  BY <1>3, <1>4 DEF Record, TypeOK

\* Every variable keeps its type: the counts of a tally are natural numbers
\* and every notification names recipients of a mail.
THEOREM TypeCorrect == Spec => []TypeOK
<1> USE FeedbackAssumption
<1>1. Init => TypeOK
  BY DEF Init, TypeOK, Free, NoTally, Fates
<1>2. TypeOK /\ [Next]_vars => TypeOK'
  <2> SUFFICES ASSUME TypeOK, [Next]_vars PROVE TypeOK'
    OBVIOUS
  <2>1. CASE Provider
    BY <2>1, ProviderType
  <2>2. ASSUME NEW n \in wire, Lose(n) PROVE TypeOK'
    BY <2>2 DEF Lose, TypeOK
  <2>3. ASSUME NEW h \in Handlers, NEW n \in wire, NEW again \in BOOLEAN, Receive(h, n, again)
        PROVE  TypeOK'
    <3>1. n \in Notifications
      BY DEF TypeOK
    <3>2. [event |-> EventOf(Via[n.mail], n.kind), left |-> n.to]
            \in [event: Types \cup {"none"}, left: SUBSET Addresses]
      BY <3>1 DEF Notifications, EventOf, Types
    <3>3. handler' \in [Handlers -> [event: Types \cup {"none"}, left: SUBSET Addresses]]
      BY <2>3, <3>2 DEF Receive, TypeOK
    <3> QED
      BY <2>3, <3>3 DEF Receive, TypeOK
  <2>4. ASSUME NEW h \in Handlers, NEW a \in handler[h].left, Record(h, a) PROVE TypeOK'
    BY <2>4, RecordType
  <2>5. CASE Restart
    BY <2>5 DEF Restart, TypeOK, NoTally, Free
  <2>6. CASE UNCHANGED vars
    BY <2>6 DEF vars, TypeOK
  <2> QED
    BY <2>1, <2>2, <2>3, <2>4, <2>5, <2>6 DEF Next
<1> QED
  BY <1>1, <1>2, PTL DEF Spec

-----------------------------------------------------------------------------
(***************************************************************************)
(* The score follows the outcomes.                                         *)
(***************************************************************************)

\* What one step can do to the tally of a domain: nothing, one event more, or
\* empty it.
LEMMA TallyStep ==
  ASSUME TypeOK, [Next]_vars, NEW d \in Domains
  PROVE  \/ tally'[d] = tally[d]
         \/ tally'[d] = NoTally
         \/ \E e \in Types : tally'[d] = [tally[d] EXCEPT ![e] = @ + 1]
<1>1. CASE UNCHANGED tally
  BY <1>1
<1>2. CASE Restart
  BY <1>2 DEF Restart
<1>3. ASSUME NEW h \in Handlers, NEW a \in handler[h].left, Record(h, a)
      PROVE  \/ tally'[d] = tally[d]
             \/ \E e \in Types : tally'[d] = [tally[d] EXCEPT ![e] = @ + 1]
  <2> DEFINE e == handler[h].event
  <2>1. tally \in [Domains -> [Types -> Nat]]
    BY DEF TypeOK
  <2>2. \/ tally' = tally
        \/ tally' = [tally EXCEPT ![DomainOf[a]][e] = @ + 1]
    BY <1>3 DEF Record
  <2>3. tally'[d] = tally[d] \/ tally'[d] = [tally[d] EXCEPT ![e] = @ + 1]
    <3> HIDE DEF e
    <3> QED
      BY <2>1, <2>2
  <2>4. e \notin Types => [tally[d] EXCEPT ![e] = @ + 1] = tally[d]
    <3> HIDE DEF e
    <3> QED
      BY <2>1
  <2> QED
    BY <2>3, <2>4
<1>4. \/ UNCHANGED tally \/ Restart
      \/ \E h \in Handlers : \E a \in handler[h].left : Record(h, a)
  BY DEF Next, vars, Provider, Send, Settle, Return, Delay, React, Lose, Receive
<1> QED
  BY <1>1, <1>2, <1>3, <1>4

\* A recorded bounce never raises the score of an address of the domain, a
\* recorded delivery never lowers one and no other event moves it, whatever
\* the history, the score and the catch-all evidence.
THEOREM ScoreFollows == Spec => ScoreFollowsOutcomes
<1> DEFINE A == \A d \in Domains :
                  /\ Counted(d, "bounced") =>
                       \A score \in Scores, catchAll \in CatchAlls :
                           ScoreOf(d, score, catchAll)' <= ScoreOf(d, score, catchAll)
                  /\ Counted(d, "delivered") =>
                       \A score \in Scores, catchAll \in CatchAlls :
                           ScoreOf(d, score, catchAll)' >= ScoreOf(d, score, catchAll)
                  /\ Counted(d, "complained") \/ Counted(d, "engaged") =>
                       \A score \in Scores, catchAll \in CatchAlls :
                           ScoreOf(d, score, catchAll)' = ScoreOf(d, score, catchAll)
<1>1. ASSUME TypeOK, [Next]_vars PROVE A
  <2> SUFFICES ASSUME NEW d \in Domains, NEW score \in Scores, NEW catchAll \in CatchAlls
               PROVE  /\ Counted(d, "bounced") =>
                           HistoryScore(score, catchAll, Reputation(d)')
                             <= HistoryScore(score, catchAll, Reputation(d))
                      /\ Counted(d, "delivered") =>
                           HistoryScore(score, catchAll, Reputation(d)')
                             >= HistoryScore(score, catchAll, Reputation(d))
                      /\ Counted(d, "complained") \/ Counted(d, "engaged") =>
                           HistoryScore(score, catchAll, Reputation(d)')
                             = HistoryScore(score, catchAll, Reputation(d))
    BY DEF ScoreOf
  <2> DEFINE n == tally[d]["delivered"]
             b == tally[d]["bounced"]
  <2>1. /\ score \in 0..100
        /\ tally[d] \in [Types -> Nat]
        /\ n \in Nat /\ b \in Nat
    BY <1>1, FeedbackAssumption DEF TypeOK, Types
  <2>2. Reputation(d) = Rep(n, b)
        /\ Reputation(d)' = Rep(tally'[d]["delivered"], tally'[d]["bounced"])
    BY DEF Reputation, Rep
  <2>3. CASE tally'[d] = tally[d] \/ tally'[d] = NoTally
    BY <2>1, <2>3 DEF Counted, NoTally, Types
  <2>4. ASSUME NEW e \in Types, tally'[d] = [tally[d] EXCEPT ![e] = @ + 1]
        PROVE  /\ \A t \in Types : Counted(d, t) => t = e
               /\ Reputation(d)' = CASE e = "delivered" -> Rep(n + 1, b)
                                     [] e = "bounced" -> Rep(n, b + 1)
                                     [] OTHER -> Rep(n, b)
    BY <2>1, <2>2, <2>4 DEF Counted, Types
  <2>5. ASSUME NEW e \in Types, tally'[d] = [tally[d] EXCEPT ![e] = @ + 1]
        PROVE  /\ Counted(d, "bounced") =>
                    HistoryScore(score, catchAll, Reputation(d)')
                      <= HistoryScore(score, catchAll, Reputation(d))
               /\ Counted(d, "delivered") =>
                    HistoryScore(score, catchAll, Reputation(d)')
                      >= HistoryScore(score, catchAll, Reputation(d))
               /\ Counted(d, "complained") \/ Counted(d, "engaged") =>
                    HistoryScore(score, catchAll, Reputation(d)')
                      = HistoryScore(score, catchAll, Reputation(d))
    <3>1. HistoryScore(score, catchAll, Rep(n, b + 1)) <= HistoryScore(score, catchAll, Rep(n, b))
      BY <2>1, OneMoreBounce, ScoreMonotone
    <3>2. HistoryScore(score, catchAll, Rep(n, b)) <= HistoryScore(score, catchAll, Rep(n + 1, b))
      BY <2>1, OneMoreDelivery, ScoreMonotone
    <3> QED
      BY <2>2, <2>4, <2>5, <3>1, <3>2 DEF Types
  <2> QED
    BY <1>1, <2>3, <2>5, TallyStep
<1>2. TypeOK /\ [Next]_vars => [A]_vars
  BY <1>1
<1> QED
  BY <1>2, TypeCorrect, PTL DEF Spec, ScoreFollowsOutcomes

-----------------------------------------------------------------------------
(***************************************************************************)
(* The steps, in the form the inductive invariant sees them.               *)
(***************************************************************************)

\* The provider reports what became of some recipients of m: until now their
\* fates called for no notification of this kind, now they do, and for
\* notifications of other kinds nothing changes.
Reports(m, to, kind, what) ==
    /\ to # {}
    /\ Becomes(m, to, what)
    /\ Notify(m, kind, to)
    /\ UNCHANGED <<delays, handler, tally, faults>>
    /\ kind # "transient"
    /\ what \in Told(kind)
    /\ \A a \in to : /\ fate[m][a] \notin Told(kind)
                     /\ \A k \in Notices \ {kind} : fate[m][a] \in Told(k) <=> what \in Told(k)

\* Every step of the provider reports something or is a delay.
LEMMA ProviderSteps ==
  ASSUME TypeOK, Provider
  PROVE  \/ \E m \in Mails : \E to \in SUBSET To[m], kind \in Notices, what \in Fates :
               Reports(m, to, kind, what)
         \/ \E m \in Mails : \E to \in SUBSET To[m] : Delay(m, to)
<1> USE FeedbackAssumption
<1>1. PICK m \in Mails :
         \/ Send(m)
         \/ \E to \in SUBSET To[m] :
               \/ Settle(m, to, "delivery") \/ Settle(m, to, "bounce")
               \/ Return(m, to) \/ Delay(m, to)
         \/ \E a \in To[m] : React(m, a, "open") \/ React(m, a, "complaint")
  BY DEF Provider
<1>2. CASE Send(m)
  <2>1. Reports(m, To[m], "send", "pending")
    BY <1>2 DEF Send, Reports, Told, Notices, Fates
  <2>2. "send" \in Notices /\ "pending" \in Fates
    BY DEF Notices, Fates
  <2> QED
    BY <2>1, <2>2
<1>3. ASSUME NEW to \in SUBSET To[m], Settle(m, to, "delivery")
      PROVE  /\ "delivery" \in Notices /\ "delivered" \in Fates
             /\ Reports(m, to, "delivery", "delivered")
  BY <1>3 DEF Settle, Having, Reports, Told, Notices, Fates
<1>4. ASSUME NEW to \in SUBSET To[m], Settle(m, to, "bounce")
      PROVE  /\ "bounce" \in Notices /\ "bounced" \in Fates
             /\ Reports(m, to, "bounce", "bounced")
  BY <1>4 DEF Settle, Having, Reports, Told, Notices, Fates
<1>5. ASSUME NEW to \in SUBSET To[m], Return(m, to)
      PROVE  /\ "bounce" \in Notices /\ "returned" \in Fates
             /\ Reports(m, to, "bounce", "returned")
  BY <1>5 DEF Return, Having, Reports, Told, Notices, Fates
<1>6. ASSUME NEW a \in To[m], React(m, a, "open")
      PROVE  /\ "open" \in Notices /\ "engaged" \in Fates
             /\ {a} \in SUBSET To[m] /\ Reports(m, {a}, "open", "engaged")
  BY <1>6 DEF React, Having, Reports, Told, Notices, Fates
<1>7. ASSUME NEW a \in To[m], React(m, a, "complaint")
      PROVE  /\ "complaint" \in Notices /\ "complained" \in Fates
             /\ {a} \in SUBSET To[m] /\ Reports(m, {a}, "complaint", "complained")
  BY <1>7 DEF React, Having, Reports, Told, Notices, Fates
<1> QED
  BY <1>1, <1>2, <1>3, <1>4, <1>5, <1>6, <1>7

\* A delay adds to the count of those it names, and changes no fate.
LEMMA DelayStep ==
  ASSUME TypeOK, NEW w \in Mails, NEW to \in SUBSET To[w], Delay(w, to),
         NEW m \in Mails, NEW a \in Addresses
  PROVE  /\ delays'[m][a] = IF m = w /\ a \in to THEN delays[m][a] + 1 ELSE delays[m][a]
         /\ fate' = fate /\ delays[m][a] \in Nat
  BY DEF Delay, TypeOK

\* What occurred stays so: no step takes a fate out of a set of Told, or back
\* the count of the transient bounces.
LEMMA OccurredStable ==
  ASSUME TypeOK, [Next]_vars, NEW kind \in Notices, NEW m \in Mails, NEW a \in Addresses,
         Occurred(m, kind, a)
  PROVE  Occurred(m, kind, a)'
<1>1. CASE UNCHANGED <<fate, delays>>
  BY <1>1 DEF Occurred
<1>2. ASSUME NEW w \in Mails, NEW to \in SUBSET To[w], NEW k \in Notices, NEW what,
             Reports(w, to, k, what)
      PROVE  Occurred(m, kind, a)'
  <2>1. fate'[m][a] = IF m = w /\ a \in to THEN what ELSE fate[m][a]
    BY <1>2 DEF Reports, Becomes, TypeOK
  <2>2. delays' = delays
    BY <1>2 DEF Reports
  <2> QED
    BY <1>2, <2>1, <2>2 DEF Reports, Occurred
<1>3. ASSUME NEW w \in Mails, NEW to \in SUBSET To[w], Delay(w, to)
      PROVE  Occurred(m, kind, a)'
  <2>1. fate' = fate /\ (delays[m][a] > 0 => delays'[m][a] > 0)
    BY <1>3, DelayStep
  <2> QED
    BY <2>1 DEF Occurred
<1>4. Provider \/ UNCHANGED <<fate, delays>>
  BY DEF Next, vars, Lose, Receive, Record, Restart
<1> QED
  BY <1>1, <1>2, <1>3, <1>4, ProviderSteps

\* So does what happened to a recipient of some mail.
LEMMA HappenedStable ==
  ASSUME TypeOK, [Next]_vars, NEW type, NEW a \in Addresses, Happened(type, a)
  PROVE  Happened(type, a)'
<1>1. PICK m \in Mails, kind \in Notices :
             EventOf(Via[m], kind) = type /\ Occurred(m, kind, a)
  BY DEF Happened
<1>2. Occurred(m, kind, a)'
  BY <1>1, OccurredStable
<1> QED
  BY <1>1, <1>2 DEF Happened

-----------------------------------------------------------------------------
(***************************************************************************)
(* Nothing is counted that did not happen.                                 *)
(***************************************************************************)

\* A notification on the wire names recipients to whom it happened.
LEMMA WireFounded ==
  ASSUME TypeOK, Founded, [Next]_vars, NEW n \in wire'
  PROVE  n.to \subseteq To[n.mail] /\ \A a \in n.to : Occurred(n.mail, n.kind, a)'
<1> USE FeedbackAssumption
<1>1. CASE n \in wire
  <2>1. n.kind \in Notices /\ n.mail \in Mails /\ n.to \subseteq Addresses
    BY <1>1 DEF TypeOK, Notifications
  <2>2. n.to \subseteq To[n.mail] /\ \A a \in n.to : Occurred(n.mail, n.kind, a)
    BY <1>1 DEF Founded
  <2> QED
    BY <2>1, <2>2, OccurredStable
<1>2. ASSUME NEW m \in Mails, NEW to \in SUBSET To[m], NEW k \in Notices, NEW what,
             Reports(m, to, k, what), n \notin wire
      PROVE  n.to \subseteq To[n.mail] /\ \A a \in n.to : Occurred(n.mail, n.kind, a)'
  <2>1. n = [mail |-> m, kind |-> k, to |-> to]
    BY <1>2 DEF Reports, Notify
  <2>2. \A a \in to : fate'[m][a] = what
    BY <1>2 DEF Reports, Becomes, TypeOK
  <2> QED
    BY <1>2, <2>1, <2>2 DEF Reports, Occurred
<1>3. ASSUME NEW m \in Mails, NEW to \in SUBSET To[m], Delay(m, to), n \notin wire
      PROVE  n.to \subseteq To[n.mail] /\ \A a \in n.to : Occurred(n.mail, n.kind, a)'
  <2>1. n = [mail |-> m, kind |-> "transient", to |-> to]
    BY <1>3 DEF Delay, Notify
  <2>2. \A a \in to : delays'[m][a] > 0
    BY <1>3, DelayStep
  <2> QED
    BY <2>1, <2>2 DEF Occurred
<1>4. Provider \/ wire' \subseteq wire
  BY DEF Next, vars, Lose, Receive, Record, Restart
<1> QED
  BY <1>1, <1>2, <1>3, <1>4, ProviderSteps

\* What a handler has left to record happened.
LEMMA HandFounded ==
  ASSUME TypeOK, Founded, [Next]_vars, NEW h \in Handlers, NEW a \in handler'[h].left
  PROVE  handler'[h].event \in Types /\ Happened(handler[h].event, a)'
<1> USE FeedbackAssumption
<1>0. ASSUME NEW type \in Types, a \in Addresses, handler'[h].event = type, Happened(type, a)
      PROVE  handler'[h].event \in Types /\ Happened(handler[h].event, a)'
  <2>1. Happened(type, a)'
    BY <1>0, HappenedStable
  <2> QED
    BY <1>0, <2>1 DEF Happened
<1>1. CASE handler[h].event = handler'[h].event /\ a \in handler[h].left
  <2>1. a \in Addresses
    BY <1>1 DEF TypeOK
  <2>2. handler[h].event \in Types /\ Happened(handler[h].event, a)
    BY <1>1 DEF Founded
  <2>3. PICK type \in Types : type = handler[h].event
    BY <2>2
  <2>4. handler'[h].event = type /\ Happened(type, a)
    BY <1>1, <2>2, <2>3
  <2> QED
    BY <1>0, <2>1, <2>4
<1>2. ASSUME NEW n \in wire, NEW e, e = EventOf(Via[n.mail], n.kind), e # "none",
             handler'[h] = [event |-> e, left |-> n.to]
      PROVE  handler'[h].event \in Types /\ Happened(handler[h].event, a)'
  <2>1. n.kind \in Notices /\ n.mail \in Mails /\ n.to \subseteq Addresses
    BY DEF TypeOK, Notifications
  <2>2. handler'[h].event = e /\ a \in n.to
    BY <1>2
  <2>3. Occurred(n.mail, n.kind, a)
    BY <2>2 DEF Founded
  <2>4. Happened(e, a)
    BY <1>2, <2>1, <2>3 DEF Happened
  <2>5. e \in Types
    BY <1>2 DEF EventOf, Types
  <2> QED
    BY <1>0, <2>1, <2>2, <2>4, <2>5
<1> DEFINE Takes(n) == LET e == EventOf(Via[n.mail], n.kind)
                       IN  e # "none" /\ handler'[h] = [event |-> e, left |-> n.to]
<1>3. \/ handler'[h] = handler[h] \/ handler'[h] = Free
      \/ handler'[h].event = handler[h].event /\ handler'[h].left \subseteq handler[h].left
      \/ \E n \in wire : Takes(n)
  <2>1. CASE UNCHANGED handler
    BY <2>1
  <2>2. ASSUME NEW g \in Handlers, NEW n \in wire, NEW again \in BOOLEAN, Receive(g, n, again)
        PROVE  \/ handler'[h] = handler[h]
               \/ Takes(n)
    BY <2>2 DEF Receive, TypeOK
  <2>3. ASSUME NEW g \in Handlers, NEW b \in handler[g].left, Record(g, b)
        PROVE  \/ handler'[h] = handler[h] \/ handler'[h] = Free
               \/ handler'[h].event = handler[h].event /\ handler'[h].left \subseteq handler[h].left
    <3> DEFINE left == handler[g].left \ {b}
               rest == [handler[g] EXCEPT !.left = left]
    <3>1. handler[g] \in [event: Types \cup {"none"}, left: SUBSET Addresses]
      BY DEF TypeOK
    <3>2. rest.event = handler[g].event /\ rest.left = left /\ left \subseteq handler[g].left
      BY <3>1
    <3>3. handler'[h] = IF h = g THEN (IF left = {} THEN Free ELSE rest) ELSE handler[h]
      BY <2>3 DEF Record, TypeOK
    <3> HIDE DEF left, rest
    <3> QED
      BY <3>2, <3>3
  <2>4. CASE Restart
    BY <2>4 DEF Restart
  <2>5. \/ UNCHANGED handler \/ Restart
        \/ \E g \in Handlers : \/ \E n \in wire, again \in BOOLEAN : Receive(g, n, again)
                             \/ \E b \in handler[g].left : Record(g, b)
    BY DEF Next, vars, Provider, Send, Settle, Return, Delay, React, Lose
  <2> HIDE DEF Takes
  <2> QED
    BY <2>1, <2>2, <2>3, <2>4, <2>5
<1>4. handler'[h] # Free
  BY DEF Free
<1>5. CASE \E n \in wire : Takes(n)
  BY <1>2, <1>5
<1> HIDE DEF Takes
<1>6. CASE \/ handler'[h] = handler[h]
           \/ handler'[h].event = handler[h].event /\ handler'[h].left \subseteq handler[h].left
  <2>1. handler[h].event = handler'[h].event /\ a \in handler[h].left
    BY <1>6
  <2> QED
    BY <1>1, <2>1
<1> QED
  BY <1>3, <1>4, <1>5, <1>6

\* What a tally counts happened.
LEMMA TallyFounded ==
  ASSUME TypeOK, Founded, [Next]_vars, NEW d \in Domains, NEW type \in Types, tally'[d][type] > 0
  PROVE  \E a \in Addresses : DomainOf[a] = d /\ Happened(type, a)'
<1> USE FeedbackAssumption
<1>1. tally[d] \in [Types -> Nat]
  BY DEF TypeOK
<1>2. CASE tally[d][type] > 0
  <2>1. PICK a \in Addresses : DomainOf[a] = d /\ Happened(type, a)
    BY <1>2 DEF Founded
  <2> QED
    BY <2>1, HappenedStable
<1>3. ASSUME NEW h \in Handlers, NEW a \in handler[h].left, Record(h, a), ~(tally[d][type] > 0)
      PROVE  \E b \in Addresses : DomainOf[b] = d /\ Happened(type, b)'
  <2> DEFINE e == handler[h].event
  <2>1. a \in Addresses /\ tally \in [Domains -> [Types -> Nat]]
    BY DEF TypeOK
  <2>2. DomainOf[a] = d /\ e = type
    <3>1. tally' = IF DomainOf[a] = NoDomain THEN tally ELSE [tally EXCEPT ![DomainOf[a]][e] = @ + 1]
      BY <1>3 DEF Record
    <3>2. tally'[d][type] # tally[d][type]
      BY <1>1, <1>3
    <3> HIDE DEF e
    <3> QED
      BY <2>1, <3>1, <3>2
  <2>3. Happened(type, a)
    BY <2>2 DEF Founded
  <2> QED
    BY <2>1, <2>2, <2>3, HappenedStable
<1>4. \/ UNCHANGED tally \/ Restart
      \/ \E h \in Handlers : \E a \in handler[h].left : Record(h, a)
  BY DEF Next, vars, Provider, Send, Settle, Return, Delay, React, Lose, Receive
<1>5. ~Restart
  BY DEF Restart, NoTally
<1> QED
  BY <1>1, <1>2, <1>3, <1>4, <1>5

\* Every step keeps the record founded on what happened.
LEMMA NextFounded == TypeOK /\ Founded /\ [Next]_vars => Founded'
<1> SUFFICES ASSUME TypeOK, Founded, [Next]_vars
             PROVE  Founded'
  OBVIOUS
<1>1. \A n \in wire' :
         n.to \subseteq To[n.mail] /\ \A a \in n.to : Occurred(n.mail, n.kind, a)'
  BY WireFounded
<1>2. \A h \in Handlers : \A a \in handler'[h].left :
         handler'[h].event \in Types /\ Happened(handler[h].event, a)'
  BY HandFounded
<1>3. \A d \in Domains, type \in Types : tally'[d][type] > 0 =>
         \E a \in Addresses : DomainOf[a] = d /\ Happened(type, a)'
  BY TallyFounded
<1> QED
  BY <1>1, <1>2, <1>3 DEF Founded

-----------------------------------------------------------------------------
(***************************************************************************)
(* The ledger: without faults, every event is in one place.                *)
(***************************************************************************)

\* The events there are, in whatever place, against those that are due.
Covers(type, there, due) == IF type = "bounced" THEN there >= due ELSE there = due

\* What Balanced says, with its sizes.
LEMMA BalancedIs ==
  ASSUME NEW d, NEW type
  PROVE  Balanced(d, type) <=>
           /\ IsFiniteSet(OnWire(d, type)) /\ IsFiniteSet(InHand(d, type)) /\ IsFiniteSet(Due(d, type))
           /\ Covers(type, tally[d][type] + Cardinality(OnWire(d, type)) + Cardinality(InHand(d, type)),
                     Cardinality(Due(d, type)))
  BY DEF Balanced, Covers

\* One event moves from the hands of a handler into the tally.
LEMMA Moved ==
  ASSUME NEW t \in Nat, NEW x \in Nat, NEW y \in Nat, NEW v \in Nat, y = v + 1
  PROVE  (t + 1) + x + v = t + x + y
  OBVIOUS

\* The recipients of a domain among those a notification names.
At(to, d) == {a \in to : DomainOf[a] = d}

\* There are as many tokens for some recipients as there are recipients.
LEMMA Tokens ==
  ASSUME NEW x, NEW T, IsFiniteSet(T)
  PROVE  /\ IsFiniteSet({x} \X T)
         /\ Cardinality({x} \X T) = Cardinality(T)
         /\ Cardinality(T) \in Nat
<1>1. IsFiniteSet({x}) /\ Cardinality({x}) = 1
  BY FS_Singleton
<1>2. Cardinality({x} \X T) = Cardinality({x}) * Cardinality(T) /\ IsFiniteSet({x} \X T)
  BY <1>1, FS_Product
<1>3. Cardinality(T) \in Nat
  BY FS_CardinalityType
<1> QED
  BY <1>1, <1>2, <1>3

\* Adding new elements to a finite set adds their number to its size.
LEMMA Added ==
  ASSUME NEW S, IsFiniteSet(S), NEW R, IsFiniteSet(R), S \cap R = {}
  PROVE  /\ IsFiniteSet(S \cup R)
         /\ Cardinality(S \cup R) = Cardinality(S) + Cardinality(R)
<1>1. /\ IsFiniteSet(S \cup R)
      /\ Cardinality(S \cup R) = Cardinality(S) + Cardinality(R) - Cardinality(S \cap R)
  BY FS_Union
<1>2. Cardinality(S \cap R) = 0
  BY FS_EmptySet
<1>3. Cardinality(S) \in Nat /\ Cardinality(R) \in Nat
  BY FS_CardinalityType
<1> QED
  BY <1>1, <1>2, <1>3

\* Taking elements out of a finite set takes their number from its size.
LEMMA Taken ==
  ASSUME NEW S, IsFiniteSet(S), NEW R, R \subseteq S
  PROVE  /\ IsFiniteSet(S \ R)
         /\ Cardinality(S \ R) = Cardinality(S) - Cardinality(R)
<1>1. IsFiniteSet(S \ R) /\ Cardinality(S \ R) = Cardinality(S) - Cardinality(S \cap R)
  BY FS_Difference
<1>2. S \cap R = R
  OBVIOUS
<1> QED
  BY <1>1, <1>2

\* The recipients a notification names at one domain are finitely many.
LEMMA FewAt ==
  ASSUME NEW m \in Mails, NEW to \in SUBSET To[m], NEW d
  PROVE  IsFiniteSet(At(to, d))
BY FS_Subset, FeedbackAssumption DEF At

\* A report is balanced: every recipient it names has one more event due and
\* one more on the wire.
LEMMA ReportBalanced ==
  ASSUME TypeOK, Founded, NEW m \in Mails, NEW to \in SUBSET To[m], NEW kind \in Notices,
         NEW what, Reports(m, to, kind, what),
         NEW d \in Domains, NEW type \in Types, Balanced(d, type)
  PROVE  Balanced(d, type)'
<1> USE FeedbackAssumption
<1> DEFINE n == [mail |-> m, kind |-> kind, to |-> to]
           T == At(to, d)
           due == <<kind, m>>
<1>1. /\ tally' = tally /\ handler' = handler /\ wire' = wire \cup {n}
      /\ \A w \in Mails, a \in Addresses :
           fate'[w][a] = IF w = m /\ a \in to THEN what ELSE fate[w][a]
  BY DEF Reports, Notify, Becomes, TypeOK
<1>2. /\ n.mail = m /\ n.kind = kind /\ n.to = to /\ n \notin wire /\ to \subseteq Addresses
      /\ due \in Notices \X Mails /\ due[1] = kind /\ due[2] = m
  BY DEF Reports, Founded, Occurred
<1>3. IsFiniteSet(T) /\ T \subseteq Addresses
  <2>1. IsFiniteSet(T)
    BY <1>2, FewAt
  <2>2. T \subseteq Addresses
    BY <1>2 DEF At
  <2> QED
    BY <2>1, <2>2
<1>4. InHand(d, type)' = InHand(d, type)
  BY <1>1 DEF InHand
<1>5. CASE EventOf(Via[m], kind) = type
  <2>1. OnWire(d, type)' = OnWire(d, type) \cup ({n} \X T)
    <3> HIDE DEF n
    <3> QED
      BY <1>1, <1>2, <1>5 DEF OnWire, At
  <2>2. OnWire(d, type) \cap ({n} \X T) = {}
    <3> HIDE DEF n, T
    <3> QED
      BY <1>2 DEF OnWire
  <2>3. Due(d, type)' = Due(d, type) \cup ({due} \X T)
    <3>1. ASSUME NEW p \in (Notices \X Mails) \X Addresses
          PROVE  p \in Due(d, type)' <=> p \in Due(d, type) \/ p \in {due} \X T
      <4>1. /\ p[1] = due <=> p[1][1] = kind /\ p[1][2] = m
            /\ p \in {due} \X T <=> p[1] = due /\ p[2] \in T
        BY <1>2
      <4>2. fate'[p[1][2]][p[2]] = IF p[1][2] = m /\ p[2] \in to THEN what ELSE fate[p[1][2]][p[2]]
        BY <1>1
      <4> HIDE DEF due
      <4> QED
        BY <1>2, <1>5, <4>1, <4>2 DEF Due, At, Reports
    <3>2. /\ Due(d, type)' \subseteq (Notices \X Mails) \X Addresses
          /\ Due(d, type) \subseteq (Notices \X Mails) \X Addresses
          /\ {due} \X T \subseteq (Notices \X Mails) \X Addresses
      BY <1>2, <1>3 DEF Due
    <3> HIDE DEF due, T
    <3> QED
      BY <3>1, <3>2
  <2>4. Due(d, type) \cap ({due} \X T) = {}
    BY <1>2 DEF Due, At, Reports
  <2> DEFINE W == OnWire(d, type)
             H == InHand(d, type)
             D == Due(d, type)
             onWire == {n} \X T
             isDue == {due} \X T
  <2>5. /\ IsFiniteSet(W) /\ IsFiniteSet(H) /\ IsFiniteSet(D)
        /\ tally[d][type] \in Nat
        /\ Covers(type, tally[d][type] + Cardinality(W) + Cardinality(H), Cardinality(D))
    BY BalancedIs DEF TypeOK
  <2>6. /\ IsFiniteSet(onWire) /\ Cardinality(onWire) = Cardinality(T)
        /\ IsFiniteSet(isDue) /\ Cardinality(isDue) = Cardinality(T)
        /\ Cardinality(T) \in Nat
    <3> HIDE DEF n, T, due
    <3> QED
      BY <1>3, Tokens
  <2>7. W \cap onWire = {} /\ D \cap isDue = {}
    BY <2>2, <2>4
  <2> DEFINE wired == W \cup onWire
             owed  == D \cup isDue
  <2>8. OnWire(d, type)' = wired /\ Due(d, type)' = owed /\ InHand(d, type)' = H
    BY <1>4, <2>1, <2>3
  <2> HIDE DEF T, W, H, D, onWire, isDue
  <2>9. /\ IsFiniteSet(wired) /\ Cardinality(wired) = Cardinality(W) + Cardinality(onWire)
        /\ IsFiniteSet(owed) /\ Cardinality(owed) = Cardinality(D) + Cardinality(isDue)
    BY <2>5, <2>6, <2>7, Added
  <2>10. Cardinality(W) \in Nat /\ Cardinality(H) \in Nat /\ Cardinality(D) \in Nat
    BY <2>5, FS_CardinalityType
  <2> HIDE DEF wired, owed
  <2>11. Covers(type, tally[d][type] + Cardinality(wired) + Cardinality(H), Cardinality(owed))
    BY <2>5, <2>6, <2>9, <2>10 DEF Covers
  <2>12. /\ IsFiniteSet(OnWire(d, type)') /\ IsFiniteSet(InHand(d, type)') /\ IsFiniteSet(Due(d, type)')
         /\ Covers(type, tally'[d][type] + Cardinality(OnWire(d, type)') + Cardinality(InHand(d, type)'),
                   Cardinality(Due(d, type)'))
    BY <1>1, <2>5, <2>8, <2>9, <2>11
  <2> QED
    BY <2>12 DEF Balanced, Covers
<1>6. CASE EventOf(Via[m], kind) # type
  <2>1. OnWire(d, type)' = OnWire(d, type)
    <3> HIDE DEF n
    <3> QED
      BY <1>1, <1>2, <1>6 DEF OnWire
  <2>2. Due(d, type)' = Due(d, type)
    <3>1. ASSUME NEW p \in (Notices \X Mails) \X Addresses
          PROVE  p \in Due(d, type)' <=> p \in Due(d, type)
      <4>1. fate'[p[1][2]][p[2]] = IF p[1][2] = m /\ p[2] \in to THEN what ELSE fate[p[1][2]][p[2]]
        BY <1>1
      <4> QED
        BY <1>6, <4>1 DEF Due, Reports
    <3> QED
      BY <3>1 DEF Due
  <2> QED
    BY <1>1, <1>4, <2>1, <2>2 DEF Balanced
<1> QED
  BY <1>5, <1>6

\* A handler that takes a notification moves its events from the wire into its
\* hands; one that is no event is dropped, and was not counted.
LEMMA ReceiveBalanced ==
  ASSUME TypeOK, Founded, NEW h \in Handlers, NEW n \in wire, Receive(h, n, FALSE),
         NEW d \in Domains, NEW type \in Types, Balanced(d, type)
  PROVE  Balanced(d, type)'
<1> USE FeedbackAssumption
<1> DEFINE T == At(n.to, d)
           e == EventOf(Via[n.mail], n.kind)
<1>1. /\ tally' = tally /\ fate' = fate /\ wire' = wire \ {n} /\ handler[h] = Free
      /\ handler' = IF e = "none" THEN handler
                    ELSE [handler EXCEPT ![h] = [event |-> e, left |-> n.to]]
  BY DEF Receive
<1>2. n.kind \in Notices /\ n.mail \in Mails /\ n.to \subseteq Addresses /\ n.to \subseteq To[n.mail]
  BY DEF TypeOK, Notifications, Founded
<1>3. IsFiniteSet(T) /\ T \subseteq Addresses
  <2>1. IsFiniteSet(T)
    BY <1>2, FewAt
  <2>2. T \subseteq Addresses
    BY <1>2 DEF At
  <2> QED
    BY <2>1, <2>2
<1>4. Due(d, type)' = Due(d, type)
  BY <1>1 DEF Due
<1>5. /\ type # "none"
      /\ handler[h].left = {}
      /\ \A g \in Handlers \ {h} : handler'[g] = handler[g]
      /\ e # "none" => handler'[h].event = e /\ handler'[h].left = n.to
      /\ e = "none" => handler' = handler
  BY <1>1 DEF TypeOK, Types, Free
<1>6. CASE e = type
  <2>1. OnWire(d, type)' = OnWire(d, type) \ ({n} \X T)
    BY <1>1, <1>6 DEF OnWire, At
  <2>2. {n} \X T \subseteq OnWire(d, type)
    BY <1>3, <1>6 DEF OnWire, At
  <2>3. InHand(d, type)' = InHand(d, type) \cup ({h} \X T)
    BY <1>2, <1>5, <1>6 DEF InHand, At
  <2>4. InHand(d, type) \cap ({h} \X T) = {}
    BY <1>5 DEF InHand
  <2> DEFINE W == OnWire(d, type)
             H == InHand(d, type)
             out == {n} \X T
             in == {h} \X T
  <2>5. /\ IsFiniteSet(W) /\ IsFiniteSet(H) /\ IsFiniteSet(Due(d, type))
        /\ tally[d][type] \in Nat
        /\ Covers(type, tally[d][type] + Cardinality(W) + Cardinality(H), Cardinality(Due(d, type)))
    BY BalancedIs DEF TypeOK
  <2>6. /\ IsFiniteSet(out) /\ Cardinality(out) = Cardinality(T)
        /\ IsFiniteSet(in) /\ Cardinality(in) = Cardinality(T)
        /\ Cardinality(T) \in Nat
    <3> HIDE DEF T
    <3> QED
      BY <1>3, Tokens
  <2>7. out \subseteq W /\ H \cap in = {}
    BY <2>2, <2>4
  <2> DEFINE wired == W \ out
             held  == H \cup in
  <2>8. OnWire(d, type)' = wired /\ InHand(d, type)' = held
    BY <2>1, <2>3
  <2> HIDE DEF T, W, H, out, in
  <2>9. /\ IsFiniteSet(wired) /\ Cardinality(wired) = Cardinality(W) - Cardinality(out)
        /\ IsFiniteSet(held) /\ Cardinality(held) = Cardinality(H) + Cardinality(in)
    BY <2>5, <2>6, <2>7, Added, Taken
  <2>10. Cardinality(W) \in Nat /\ Cardinality(H) \in Nat
    BY <2>5, FS_CardinalityType
  <2> HIDE DEF wired, held
  <2>11. Cardinality(wired) + Cardinality(held) = Cardinality(W) + Cardinality(H)
    BY <2>6, <2>9, <2>10
  <2>12. Cardinality(wired) \in Nat /\ Cardinality(held) \in Nat
    BY <2>9, FS_CardinalityType
  <2>13. tally[d][type] + Cardinality(wired) + Cardinality(held)
           = tally[d][type] + Cardinality(W) + Cardinality(H)
    <3>1. PICK t \in Nat : t = tally[d][type]
      BY <2>5
    <3>2. PICK x \in Nat, y \in Nat : x = Cardinality(wired) /\ y = Cardinality(held)
      BY <2>12
    <3>3. PICK u \in Nat, v \in Nat : u = Cardinality(W) /\ v = Cardinality(H)
      BY <2>10
    <3>4. x + y = u + v
      BY <2>11, <3>2, <3>3
    <3>5. t + x + y = t + u + v
      BY <3>4
    <3> QED
      BY <3>1, <3>2, <3>3, <3>5
  <2>14. Covers(type, tally[d][type] + Cardinality(wired) + Cardinality(held), Cardinality(Due(d, type)))
    BY <2>5, <2>13
  <2>15. /\ IsFiniteSet(OnWire(d, type)') /\ IsFiniteSet(InHand(d, type)') /\ IsFiniteSet(Due(d, type)')
         /\ Covers(type, tally'[d][type] + Cardinality(OnWire(d, type)') + Cardinality(InHand(d, type)'),
                   Cardinality(Due(d, type)'))
    BY <1>1, <1>4, <2>5, <2>8, <2>9, <2>14
  <2> QED
    BY <2>15 DEF Balanced, Covers
<1>7. CASE e # type
  <2>1. OnWire(d, type)' = OnWire(d, type)
    BY <1>1, <1>7 DEF OnWire
  <2>2. InHand(d, type)' = InHand(d, type)
    BY <1>5, <1>7 DEF InHand
  <2> QED
    BY <1>1, <1>4, <2>1, <2>2 DEF Balanced
<1> QED
  BY <1>6, <1>7

\* A handler that records an event takes it out of its hands.
LEMMA RecordBalanced ==
  ASSUME TypeOK, NEW h \in Handlers, NEW a \in handler[h].left, Record(h, a),
         NEW d \in Domains, NEW type \in Types, Balanced(d, type)
  PROVE  Balanced(d, type)'
<1> USE FeedbackAssumption
<1> DEFINE left == handler[h].left \ {a}
           rest == [handler[h] EXCEPT !.left = left]
           new  == IF left = {} THEN Free ELSE rest
           e    == handler[h].event
           token == <<h, a>>
<1>1. /\ tally' = IF DomainOf[a] = NoDomain THEN tally ELSE [tally EXCEPT ![DomainOf[a]][e] = @ + 1]
      /\ handler' = [handler EXCEPT ![h] = new]
      /\ fate' = fate /\ wire' = wire
  BY DEF Record
<1>2. /\ handler \in [Handlers -> [event: Types \cup {"none"}, left: SUBSET Addresses]]
      /\ tally \in [Domains -> [Types -> Nat]]
      /\ a \in Addresses /\ token \in Handlers \X Addresses
  BY DEF TypeOK
<1>3. new.left = left /\ (left # {} => new.event = handler[h].event)
  <2>1. rest.left = left /\ rest.event = handler[h].event
    BY <1>2
  <2> HIDE DEF left, rest
  <2> QED
    BY <2>1 DEF Free
<1>4. /\ handler'[h] = new
      /\ \A g \in Handlers \ {h} : handler'[g] = handler[g]
  <2> HIDE DEF new
  <2> QED
    BY <1>1, <1>2
<1>5. OnWire(d, type)' = OnWire(d, type) /\ Due(d, type)' = Due(d, type)
  BY <1>1 DEF OnWire, Due
<1>6. ASSUME NEW p \in Handlers \X Addresses
      PROVE  p \in InHand(d, type)' <=> p \in InHand(d, type) /\ p # token
  <2>1. p = token <=> p[1] = h /\ p[2] = a
    OBVIOUS
  <2>2. p[1] # h => handler'[p[1]] = handler[p[1]]
    BY <1>4
  <2>3. p[1] = h /\ p[2] \in left => handler'[h].event = e
    BY <1>3, <1>4
  <2>4. p[1] = h => (p[2] \in handler'[p[1]].left <=> p[2] \in handler[h].left /\ p[2] # a)
    BY <1>3, <1>4
  <2> HIDE DEF token, new
  <2> QED
    BY <2>1, <2>2, <2>3, <2>4 DEF InHand
<1>7. token \in InHand(d, type) <=> e = type /\ DomainOf[a] = d
  BY <1>2 DEF InHand
<1>8. tally'[d][type] = IF e = type /\ DomainOf[a] = d THEN tally[d][type] + 1 ELSE tally[d][type]
  <2> HIDE DEF e
  <2> QED
    BY <1>1, <1>2
<1> HIDE DEF token
<1>9. InHand(d, type)' = InHand(d, type) \ {token}
  <2>1. InHand(d, type)' \subseteq Handlers \X Addresses /\ InHand(d, type) \subseteq Handlers \X Addresses
    BY DEF InHand
  <2> QED
    BY <1>6, <2>1
<1> HIDE DEF e, new, left, rest
<1> DEFINE H == InHand(d, type)
<1>10. /\ IsFiniteSet(OnWire(d, type)) /\ IsFiniteSet(H) /\ IsFiniteSet(Due(d, type))
       /\ tally[d][type] \in Nat
       /\ Covers(type, tally[d][type] + Cardinality(OnWire(d, type)) + Cardinality(H),
                 Cardinality(Due(d, type)))
  BY BalancedIs DEF TypeOK
<1>11. InHand(d, type)' = H \ {token} /\ (token \in H <=> e = type /\ DomainOf[a] = d)
  BY <1>7, <1>9
<1> HIDE DEF H
<1>12. /\ IsFiniteSet(H \ {token})
       /\ Cardinality(H \ {token}) = IF token \in H THEN Cardinality(H) - 1 ELSE Cardinality(H)
  BY <1>10, FS_RemoveElement
<1>13. Cardinality(H) \in Nat /\ Cardinality(OnWire(d, type)) \in Nat
  BY <1>10, FS_CardinalityType
<1> DEFINE later == H \ {token}
           wired == OnWire(d, type)
<1>14. InHand(d, type)' = later /\ OnWire(d, type)' = wired
  BY <1>5, <1>11
<1> HIDE DEF later, wired
<1>15. IsFiniteSet(later) /\ IsFiniteSet(wired) /\ Cardinality(wired) \in Nat
       /\ Cardinality(later) = IF token \in H THEN Cardinality(H) - 1 ELSE Cardinality(H)
  BY <1>10, <1>12, <1>13 DEF later, wired
<1>16. tally'[d][type] + Cardinality(wired) + Cardinality(later)
         = tally[d][type] + Cardinality(wired) + Cardinality(H)
  <2>1. CASE token \in H
    <3>1. tally'[d][type] = tally[d][type] + 1
      BY <1>8, <1>11, <2>1
    <3>2. Cardinality(later) \in Nat /\ Cardinality(H) = Cardinality(later) + 1
      <4>1. Cardinality(later) = Cardinality(H) - 1
        BY <1>15, <2>1
      <4>2. Cardinality(later) \in Nat
        BY <1>15, FS_CardinalityType
      <4> QED
        BY <1>13, <4>1, <4>2
    <3> QED
      BY <1>10, <1>13, <1>15, <3>1, <3>2, Moved
  <2>2. CASE token \notin H
    <3>1. tally'[d][type] = tally[d][type] /\ Cardinality(later) = Cardinality(H)
      BY <1>8, <1>11, <1>15, <2>2
    <3> QED
      BY <3>1
  <2> QED
    BY <2>1, <2>2
<1>17. Covers(type, tally'[d][type] + Cardinality(wired) + Cardinality(later), Cardinality(Due(d, type)))
  BY <1>10, <1>16 DEF wired
<1>18. /\ IsFiniteSet(OnWire(d, type)') /\ IsFiniteSet(InHand(d, type)') /\ IsFiniteSet(Due(d, type)')
       /\ Covers(type, tally'[d][type] + Cardinality(OnWire(d, type)') + Cardinality(InHand(d, type)'),
                 Cardinality(Due(d, type)'))
  BY <1>5, <1>10, <1>14, <1>15, <1>17
<1> QED
  BY <1>18 DEF Balanced, Covers

\* A delay adds nothing that is due; what it may add to the wire are bounces.
LEMMA DelayBalanced ==
  ASSUME TypeOK, NEW m \in Mails, NEW to \in SUBSET To[m], Delay(m, to),
         NEW d \in Domains, NEW type \in Types, Balanced(d, type)
  PROVE  Balanced(d, type)'
<1> USE FeedbackAssumption
<1> DEFINE n == [mail |-> m, kind |-> "transient", to |-> to]
           T == At(to, d)
<1>1. /\ wire' = wire \cup {n} /\ UNCHANGED <<fate, handler, tally>>
      /\ n.mail = m /\ n.kind = "transient" /\ n.to = to
  BY DEF Delay, Notify
<1>2. InHand(d, type)' = InHand(d, type) /\ Due(d, type)' = Due(d, type)
  BY <1>1 DEF InHand, Due
<1>3. EventOf(Via[m], "transient") \in {"bounced", "none"}
  BY DEF EventOf
<1>4. to \subseteq Addresses /\ IsFiniteSet(T)
  BY FewAt
<1>5. CASE n \in wire \/ EventOf(Via[m], "transient") # type
  <2>1. OnWire(d, type)' = OnWire(d, type)
    <3> HIDE DEF n
    <3> QED
      BY <1>1, <1>5 DEF OnWire
  <2> QED
    BY <1>1, <1>2, <2>1 DEF Balanced
<1>6. CASE n \notin wire /\ EventOf(Via[m], "transient") = type
  <2> DEFINE W == OnWire(d, type)
             onWire == {n} \X T
             wired == W \cup onWire
             there == tally[d][type] + Cardinality(W) + Cardinality(InHand(d, type))
  <2>1. OnWire(d, type)' = wired
    <3> HIDE DEF n
    <3> QED
      BY <1>1, <1>4, <1>6 DEF OnWire, At
  <2>2. W \cap onWire = {}
    <3> HIDE DEF n, T
    <3> QED
      BY <1>6 DEF OnWire
  <2>3. /\ IsFiniteSet(W) /\ IsFiniteSet(InHand(d, type)) /\ IsFiniteSet(Due(d, type))
        /\ tally[d][type] \in Nat /\ Covers(type, there, Cardinality(Due(d, type)))
    BY BalancedIs DEF TypeOK
  <2>4. IsFiniteSet(onWire) /\ Cardinality(onWire) \in Nat
    <3> HIDE DEF n, T
    <3> QED
      BY <1>4, Tokens
  <2> HIDE DEF n, T, W, onWire
  <2>5. IsFiniteSet(wired) /\ Cardinality(wired) = Cardinality(W) + Cardinality(onWire)
    BY <2>2, <2>3, <2>4, Added
  <2>6. /\ Cardinality(W) \in Nat /\ Cardinality(InHand(d, type)) \in Nat
        /\ Cardinality(Due(d, type)) \in Nat
    BY <2>3, FS_CardinalityType
  <2> HIDE DEF wired
  <2>7. type = "bounced"
    BY <1>3, <1>6 DEF Types
  <2>8. Covers(type, tally[d][type] + Cardinality(wired) + Cardinality(InHand(d, type)),
               Cardinality(Due(d, type)))
    BY <2>3, <2>4, <2>5, <2>6, <2>7 DEF Covers
  <2>9. /\ IsFiniteSet(OnWire(d, type)') /\ IsFiniteSet(InHand(d, type)') /\ IsFiniteSet(Due(d, type)')
        /\ Covers(type, tally'[d][type] + Cardinality(OnWire(d, type)') + Cardinality(InHand(d, type)'),
                  Cardinality(Due(d, type)'))
    BY <1>1, <1>2, <2>1, <2>3, <2>5, <2>8
  <2> QED
    BY <2>9 DEF Balanced, Covers
<1> QED
  BY <1>5, <1>6

\* Every step without a fault keeps the ledger; a fault ends what it claims.
LEMMA NextLedger == TypeOK /\ Founded /\ Ledger /\ [Next]_vars => Ledger'
<1> SUFFICES ASSUME TypeOK, Founded, Ledger, [Next]_vars, faults' = 0,
                    NEW d \in Domains, NEW type \in Types
             PROVE  Balanced(d, type)'
  BY DEF Ledger
<1>1. faults \in Nat /\ faults' # faults + 1
  BY FeedbackAssumption DEF TypeOK
<1>2. CASE faults = 0
  <2>1. Balanced(d, type)
    BY <1>2 DEF Ledger
  <2>2. ASSUME NEW m \in Mails, NEW to \in SUBSET To[m], NEW kind \in Notices, NEW what,
               Reports(m, to, kind, what)
        PROVE  Balanced(d, type)'
    BY <2>1, <2>2, ReportBalanced
  <2>3. ASSUME NEW m \in Mails, NEW to \in SUBSET To[m], Delay(m, to)
        PROVE  Balanced(d, type)'
    BY <2>1, <2>3, DelayBalanced
  <2>4. ASSUME NEW h \in Handlers, NEW n \in wire, NEW again \in BOOLEAN, Receive(h, n, again)
        PROVE  Balanced(d, type)'
    <3>1. again = FALSE
      BY <1>1, <2>4 DEF Receive
    <3> QED
      BY <2>1, <2>4, <3>1, ReceiveBalanced
  <2>5. ASSUME NEW h \in Handlers, NEW a \in handler[h].left, Record(h, a)
        PROVE  Balanced(d, type)'
    BY <2>1, <2>5, RecordBalanced
  <2>6. CASE UNCHANGED vars
    <3>1. /\ OnWire(d, type)' = OnWire(d, type) /\ InHand(d, type)' = InHand(d, type)
          /\ Due(d, type)' = Due(d, type) /\ tally' = tally
      BY <2>6 DEF vars, OnWire, InHand, Due
    <3> QED
      BY <2>1, <3>1 DEF Balanced
  <2>7. ~Restart /\ ~(\E n \in wire : Lose(n))
    BY <1>1 DEF Restart, Lose
  <2> QED
    BY <2>2, <2>3, <2>4, <2>5, <2>6, <2>7, ProviderSteps DEF Next
<1>3. CASE faults # 0
  <2>1. faults' = faults \/ faults' = faults + 1
    BY DEF Next, vars, Provider, Send, Settle, Return, Delay, React, Lose, Receive, Record, Restart
  <2> QED
    BY <1>1, <1>3, <2>1
<1> QED
  BY <1>2, <1>3

\* Nothing has been sent at first, and nothing is on its way.
LEMMA InitFeedback == Init => Founded /\ Ledger
<1> SUFFICES ASSUME Init PROVE Founded /\ Ledger
  OBVIOUS
<1>1. \A kind : "unsent" \notin Told(kind)
  BY DEF Told
<1>2. Founded
  BY DEF Init, Founded, Free, NoTally, Types
<1>3. ASSUME NEW d \in Domains, NEW type \in Types
      PROVE  Balanced(d, type)
  <2>1. OnWire(d, type) = {} /\ InHand(d, type) = {} /\ Due(d, type) = {}
    BY <1>1 DEF Init, OnWire, InHand, Due, Free
  <2>2. tally[d][type] = 0
    BY DEF Init, NoTally
  <2> QED
    BY <2>1, <2>2, FS_EmptySet DEF Balanced
<1> QED
  BY <1>2, <1>3 DEF Ledger

\* The inductive invariant: the record is founded on what happened to the
\* mail, and without faults every event is in one place.
THEOREM Invariance == Spec => []FeedbackInv
<1>1. Init => Founded /\ Ledger
  BY InitFeedback
<1>2. TypeOK /\ (Founded /\ Ledger) /\ [Next]_vars => (Founded /\ Ledger)'
  BY NextFounded, NextLedger
<1>3. FeedbackInv <=> TypeOK /\ (Founded /\ Ledger)
  BY DEF FeedbackInv
<1> QED
  BY <1>1, <1>2, <1>3, TypeCorrect, PTL DEF Spec

-----------------------------------------------------------------------------
(***************************************************************************)
(* The history is fair.                                                    *)
(***************************************************************************)

\* A domain without a bounce that counts has no bounce in its tally.
LEMMA NoBounceCounted ==
  ASSUME FeedbackInv, NEW d \in Domains,
         \A m \in Mails, a \in Addresses : ReportedBad(m, a) => DomainOf[a] # d
  PROVE  tally[d]["bounced"] = 0
<1>1. tally[d]["bounced"] \in Nat
  BY DEF FeedbackInv, TypeOK, Types
<1>2. ASSUME tally[d]["bounced"] > 0
      PROVE  FALSE
  <2>1. PICK a \in Addresses : DomainOf[a] = d /\ Happened("bounced", a)
    BY <1>2 DEF FeedbackInv, Founded, Types
  <2>2. PICK m \in Mails, kind \in Notices :
               EventOf(Via[m], kind) = "bounced" /\ Occurred(m, kind, a)
    BY <2>1 DEF Happened
  <2>3. kind = "bounce" \/ (kind = "transient" /\ Via[m] = "smartlead")
    BY <2>2 DEF EventOf
  <2>4. ReportedBad(m, a)
    BY <2>2, <2>3 DEF Occurred, Told, ReportedBad
  <2> QED
    BY <2>1, <2>4
<1> QED
  BY <1>1, <1>2

\* When everything is recorded and all the mail of a domain bounced, it has at
\* least one bounce for every recipient; it has as many deliveries when none
\* was returned, and no more than twice as many otherwise.
LEMMA AllBouncesCounted ==
  ASSUME FeedbackInv, Quiet, faults = 0, NEW d \in Domains, Sent(d) # {},
         \A p \in Sent(d) : fate[p[1]][p[2]] \in {"bounced", "returned"}
  PROVE  \E sent \in Nat \ {0}, back \in Nat :
            /\ tally[d]["bounced"] \in Nat /\ tally[d]["bounced"] >= sent
            /\ tally[d]["delivered"] = sent + back /\ back <= sent
            /\ (\A p \in Sent(d) : fate[p[1]][p[2]] = "bounced") => back = 0
<1> DEFINE S == Sent(d)
           R == {p \in S : fate[p[1]][p[2]] = "returned"}
           Tagged(kind, P) == {p \in ({kind} \X Mails) \X Addresses : <<p[1][2], p[2]>> \in P}
<1>1. "bounced" \in Types /\ "delivered" \in Types
  BY DEF Types
<1>2. ASSUME NEW type \in Types
      PROVE  IsFiniteSet(Due(d, type)) /\ Covers(type, tally[d][type], Cardinality(Due(d, type)))
             /\ tally[d][type] \in Nat
  <2>1. OnWire(d, type) = {} /\ InHand(d, type) = {}
    BY DEF Quiet, OnWire, InHand, Free
  <2>2. tally[d][type] \in Nat /\ Balanced(d, type)
    BY DEF FeedbackInv, TypeOK, Ledger
  <2>3. Cardinality({}) = 0
    BY FS_EmptySet
  <2>4. tally[d][type] + 0 + 0 = tally[d][type]
    BY <2>2
  <2>5. Covers(type, tally[d][type] + Cardinality({}) + Cardinality({}), Cardinality(Due(d, type)))
    BY <2>1, <2>2 DEF Balanced, Covers
  <2> QED
    BY <2>2, <2>3, <2>4, <2>5 DEF Balanced
<1>3. \A m \in Mails, a \in Addresses : DomainOf[a] = d =>
         /\ fate[m][a] \in Told("bounce") <=> <<m, a>> \in S
         /\ fate[m][a] \in Told("send") <=> <<m, a>> \in S
         /\ fate[m][a] \in Told("delivery") <=> <<m, a>> \in R
  <2>1. \A m \in Mails, a \in Addresses : fate[m][a] \in Fates
    BY DEF FeedbackInv, TypeOK
  <2> QED
    BY <2>1 DEF Told, Fates, Sent
<1>4. Due(d, "bounced") = Tagged("bounce", S)
  <2>1. \A m \in Mails, kind \in Notices : EventOf(Via[m], kind) = "bounced" =>
          kind = "bounce" \/ (kind = "transient" /\ Told(kind) = {})
    BY DEF EventOf, Told
  <2>2. "bounce" \in Notices /\ \A m \in Mails : EventOf(Via[m], "bounce") = "bounced"
    BY DEF Notices, EventOf
  <2> QED
    BY <1>3, <2>1, <2>2 DEF Due, Sent
<1>5. Due(d, "delivered") = Tagged("send", S) \cup Tagged("delivery", R)
  <2>1. \A m \in Mails, kind \in Notices :
          EventOf(Via[m], kind) = "delivered" <=> kind = "send" \/ kind = "delivery"
    BY DEF EventOf, Notices
  <2>2. "send" \in Notices /\ "delivery" \in Notices
    BY DEF Notices
  <2> QED
    BY <1>3, <2>1, <2>2 DEF Due, Sent
<1>6. S \subseteq Mails \X Addresses /\ R \subseteq S
  BY DEF Sent
<1> HIDE DEF S, R
<1>7. ASSUME NEW P \in SUBSET (Mails \X Addresses), NEW Q \in SUBSET P, NEW k, NEW l,
             IsFiniteSet(Tagged(k, P))
      PROVE  /\ IsFiniteSet(Tagged(l, Q))
             /\ Cardinality(Tagged(l, Q)) <= Cardinality(Tagged(k, P))
             /\ Q = P => Cardinality(Tagged(l, Q)) = Cardinality(Tagged(k, P))
  <2> DEFINE f == [p \in Tagged(l, Q) |-> <<<<k, p[1][2]>>, p[2]>>]
  <2>1. f \in [Tagged(l, Q) -> Tagged(k, P)]
    OBVIOUS
  <2>2. \A p, q \in Tagged(l, Q) : f[p] = f[q] => p = q
    OBVIOUS
  <2>3. Q = P => \A q \in Tagged(k, P) : \E p \in Tagged(l, Q) : f[p] = q
    <3> SUFFICES ASSUME Q = P, NEW q \in Tagged(k, P)
                 PROVE  \E p \in Tagged(l, Q) : f[p] = q
      OBVIOUS
    <3>1. q = <<<<k, q[1][2]>>, q[2]>> /\ <<q[1][2], q[2]>> \in P
          /\ q[1][2] \in Mails /\ q[2] \in Addresses
      OBVIOUS
    <3>2. <<<<l, q[1][2]>>, q[2]>> \in Tagged(l, Q)
      BY <3>1
    <3> QED
      BY <3>1, <3>2
  <2> HIDE DEF f
  <2> DEFINE from == Tagged(l, Q)
             into == Tagged(k, P)
  <2>4. IsFiniteSet(into) /\ f \in Injection(from, into)
    BY <1>7, <2>1, <2>2 DEF Injection, IsInjective
  <2>5. Q = P => f \in Surjection(from, into)
    BY <2>1, <2>3 DEF Surjection
  <2> HIDE DEF from, into
  <2>6. /\ IsFiniteSet(from) /\ Cardinality(from) <= Cardinality(into)
        /\ Q = P => Cardinality(from) = Cardinality(into)
    BY <2>4, <2>5, FS_Injection
  <2> QED
    BY <2>6 DEF from, into
<1> DEFINE bounces == Tagged("bounce", S)
           sends == Tagged("send", S)
           backs == Tagged("delivery", R)
           all == sends \cup backs
<1>8. sends \cap backs = {}
  OBVIOUS
<1>9. \E p \in bounces : TRUE
  <2>1. PICK p \in S : p = <<p[1], p[2]>> /\ p[1] \in Mails /\ p[2] \in Addresses
    BY <1>6 DEF S
  <2>2. <<<<"bounce", p[1]>>, p[2]>> \in bounces
    BY <2>1
  <2> QED
    BY <2>2
<1>10. IsFiniteSet(bounces)
  BY <1>1, <1>2, <1>4
<1>11. /\ IsFiniteSet(sends) /\ Cardinality(sends) = Cardinality(bounces)
       /\ IsFiniteSet(backs) /\ Cardinality(backs) <= Cardinality(bounces)
  <2>1. S \in SUBSET (Mails \X Addresses) /\ S \in SUBSET S /\ R \in SUBSET S
    BY <1>6
  <2>2. IsFiniteSet(Tagged("bounce", S))
    BY <1>10
  <2> HIDE DEF Tagged
  <2>3. /\ IsFiniteSet(Tagged("send", S))
        /\ Cardinality(Tagged("send", S)) = Cardinality(Tagged("bounce", S))
    BY <1>7, <2>1, <2>2
  <2>4. /\ IsFiniteSet(Tagged("delivery", R))
        /\ Cardinality(Tagged("delivery", R)) <= Cardinality(Tagged("bounce", S))
    BY <1>7, <2>1, <2>2
  <2> QED
    BY <2>3, <2>4
<1>12. (\A p \in Sent(d) : fate[p[1]][p[2]] = "bounced") => backs = {}
  BY DEF S, R
<1>13. Due(d, "bounced") = bounces /\ Due(d, "delivered") = all
  BY <1>4, <1>5
<1> HIDE DEF Tagged, bounces, sends, backs
<1>14. IsFiniteSet(all) /\ Cardinality(all) = Cardinality(sends) + Cardinality(backs)
  BY <1>8, <1>11, Added
<1> HIDE DEF all
<1>15. /\ tally[d]["bounced"] \in Nat /\ tally[d]["bounced"] >= Cardinality(bounces)
       /\ tally[d]["delivered"] = Cardinality(all)
  BY <1>1, <1>2, <1>13 DEF Covers
<1>16. Cardinality(bounces) \in Nat \ {0} /\ Cardinality(backs) \in Nat
  BY <1>9, <1>10, <1>11, FS_EmptySet, FS_CardinalityType
<1>17. backs = {} => Cardinality(backs) = 0
  BY FS_EmptySet
<1> QED
  BY <1>11, <1>12, <1>14, <1>15, <1>16, <1>17

\* A domain without a bounce that counts is never scored down, and one whose
\* mail all bounced scores at most 20 once everything has been recorded, or at
\* most 50 when some of it had been delivered first.
THEOREM Fair == Spec => []HistoryIsFair
<1>1. ASSUME FeedbackInv
      PROVE  HistoryIsFair
  <2> SUFFICES ASSUME NEW d \in Domains, NEW score \in Scores, NEW catchAll \in CatchAlls
               PROVE  LET after == HistoryScore(score, catchAll, Reputation(d))
                          Ended(fates) == \A p \in Sent(d) : fate[p[1]][p[2]] \in fates
                      IN
                      /\ (\A m \in Mails, a \in Addresses : ReportedBad(m, a) => DomainOf[a] # d)
                            => after >= score
                      /\ Quiet /\ faults = 0 /\ Sent(d) # {} =>
                            /\ Ended({"bounced"}) => after <= 20
                            /\ Ended({"bounced", "returned"}) => after <= 50
    BY DEF HistoryIsFair, ScoreOf
  <2> DEFINE n == tally[d]["delivered"]
             b == tally[d]["bounced"]
             lifted == RefineCatchAllScore(score, catchAll, Reputation(d))
             after == HistoryScore(score, catchAll, Reputation(d))
             Over(percent) == RateAtLeast(Reputation(d), percent)
  <2>1. score \in 0..100 /\ n \in Nat /\ b \in Nat
    BY <1>1, FeedbackAssumption DEF FeedbackInv, TypeOK, Types
  <2>2. lifted \in 0..100 /\ lifted >= score
    BY <2>1 DEF RefineCatchAllScore, ClampScore, AtMost, AtLeast
  <2>3. after = AdjustScoreForReputation(lifted, Reputation(d))
    BY DEF HistoryScore
  <2>4. /\ Over(50) <=> n + b > 0 /\ 100 * b >= 50 * (n + b)
        /\ Over(20) <=> n + b > 0 /\ 100 * b >= 20 * (n + b)
    BY DEF RateAtLeast, Samples, Reputation
  <2>5. /\ Over(50) => after <= 20
        /\ Over(20) => after <= 50
        /\ ~Over(50) /\ ~Over(20) => after >= score
    <3> HIDE DEF lifted, after
    <3> QED
      BY <2>2, <2>3 DEF AdjustScoreForReputation, ClampScore, AtMost, AtLeast
  <2> HIDE DEF lifted, n, b, after, Over
  <2>6. b = 0 => after >= score
    BY <2>1, <2>4, <2>5
  <2>7. (\A m \in Mails, a \in Addresses : ReportedBad(m, a) => DomainOf[a] # d) => b = 0
    BY <1>1, NoBounceCounted DEF b
  <2>8. ASSUME Quiet, faults = 0, Sent(d) # {},
               \A p \in Sent(d) : fate[p[1]][p[2]] \in {"bounced", "returned"}
        PROVE  /\ (\A p \in Sent(d) : fate[p[1]][p[2]] = "bounced") => after <= 20
               /\ after <= 50
    <3>1. PICK sent \in Nat \ {0}, back \in Nat :
                 /\ b >= sent /\ n = sent + back /\ back <= sent
                 /\ (\A p \in Sent(d) : fate[p[1]][p[2]] = "bounced") => back = 0
      BY <1>1, <2>8, AllBouncesCounted DEF n, b
    <3>2. Over(20)
      BY <2>1, <2>4, <3>1
    <3>3. back = 0 => Over(50)
      BY <2>1, <2>4, <3>1
    <3> QED
      BY <2>5, <3>1, <3>2, <3>3
  <2>9. ASSUME Quiet, faults = 0, Sent(d) # {}
        PROVE  /\ (\A p \in Sent(d) : fate[p[1]][p[2]] \in {"bounced"}) => after <= 20
               /\ (\A p \in Sent(d) : fate[p[1]][p[2]] \in {"bounced", "returned"}) => after <= 50
    BY <2>8, <2>9
  <2> QED
    BY <2>6, <2>7, <2>9 DEF after
<1> QED
  BY <1>1, Invariance, PTL
=============================================================================
