--------------------------- MODULE Gateway_proofs ---------------------------
(***************************************************************************)
(* Proofs about Gateway: for any requests, clients, limits and any length  *)
(* of a day, the limiter and the quota count exactly, and batches are      *)
(* answered whole.                                                         *)
(***************************************************************************)
EXTENDS Gateway, FiniteSetTheorems, TLAPS

-----------------------------------------------------------------------------
(***************************************************************************)
(* Arithmetic.                                                             *)
(***************************************************************************)

\* A full bucket holds at least one request's worth.
LEMMA FullType == Full \in Nat /\ Refill \in Nat /\ 0 < Refill /\ Refill <= Full
<1>1. Burst \in Nat /\ Refill \in Nat /\ Burst >= 1 /\ Refill >= 1
  BY RateAssumption
<1>2. Burst * Refill \in Nat
  BY <1>1
<1>3. Refill <= Burst * Refill
  BY <1>1
<1> QED
  BY <1>1, <1>2, <1>3 DEF Full

\* What n passes have taken.
LEMMA Taken ==
  ASSUME NEW n \in Nat
  PROVE  /\ n * Refill \in Nat
         /\ (n + 1) * Refill = n * Refill + Refill
<1>1. Refill \in Nat
  BY FullType
<1> QED
  BY <1>1

\* A later tick is no earlier day, and there are no more days than ticks.
LEMMA DayMonotone ==
  ASSUME NEW n \in Nat
  PROVE  /\ n \div DayLength \in 0..n
         /\ n \div DayLength <= (n + 1) \div DayLength
<1>1. DayLength \in Nat /\ DayLength >= 1
  BY GatewayAssumption
<1> QED
  BY <1>1

-----------------------------------------------------------------------------
(***************************************************************************)
(* Which steps touch what.                                                 *)
(***************************************************************************)

\* The buckets and their history.
LEMMA LimiterSteps ==
  ASSUME [Next]_vars
  PROVE  \/ \E r \in Requests : TakeToken(r)
         \/ Tick
         \/ UNCHANGED <<now, buckets, passed>>
  BY DEF Next, vars, limits, pool, Authenticate, TakeUnit, VerifyOne, RefuseBatch, Hand,
         VerifyItem, RespondBatch, Finished

\* The counters and theirs.
LEMMA QuotaSteps ==
  ASSUME [Next]_vars
  PROVE  \/ \E r \in Requests : TakeUnit(r)
         \/ Tick
         \/ UNCHANGED <<now, quota, entered>>
  BY DEF Next, vars, limits, pool, Authenticate, TakeToken, VerifyOne, RefuseBatch, Hand,
         VerifyItem, RespondBatch, Finished

\* The stations of the requests.
LEMMA AnswerSteps ==
  ASSUME [Next]_vars
  PROVE  \/ \E r \in Requests :
              \/ pc[r] = "new" /\ (Proceed(r, "limiter") \/ Answer(r, 401))
              \/ pc[r] = "limiter" /\ (Proceed(r, "quota") \/ Answer(r, 429))
              \/ pc[r] = "quota" /\ (Proceed(r, "handler") \/ Answer(r, 429))
              \/ /\ pc[r] = "handler" /\ Emails[r] \in 1..BatchMax
                 /\ fed[r] = Emails[r] /\ busy[r] = {} /\ Answer(r, 200)
              \/ /\ pc[r] = "handler" /\ Emails[r] \notin 1..BatchMax
                 /\ (Answer(r, 400) \/ Answer(r, 500) \/ (Emails[r] = 0 /\ Answer(r, 200)))
         \/ UNCHANGED <<pc, status>>
<1> DEFINE moved(r) ==
             \/ pc[r] = "new" /\ (Proceed(r, "limiter") \/ Answer(r, 401))
             \/ pc[r] = "limiter" /\ (Proceed(r, "quota") \/ Answer(r, 429))
             \/ pc[r] = "quota" /\ (Proceed(r, "handler") \/ Answer(r, 429))
             \/ /\ pc[r] = "handler" /\ Emails[r] \in 1..BatchMax
                /\ fed[r] = Emails[r] /\ busy[r] = {} /\ Answer(r, 200)
             \/ /\ pc[r] = "handler" /\ Emails[r] \notin 1..BatchMax
                /\ (Answer(r, 400) \/ Answer(r, 500) \/ (Emails[r] = 0 /\ Answer(r, 200)))
           still == UNCHANGED <<pc, status>>
<1>1. BatchMax \in Nat
  BY GatewayAssumption
<1>2. ASSUME NEW r \in Requests, NEW credential, Authenticate(r, credential)
      PROVE  moved(r)
  BY <1>2 DEF Authenticate
<1>3. ASSUME NEW r \in Requests, TakeToken(r) \/ TakeUnit(r)
      PROVE  moved(r)
  BY <1>3, Zenon DEF TakeToken, TakeUnit
<1>4. ASSUME NEW r \in Requests, NEW verdict, VerifyOne(r, verdict)
      PROVE  moved(r)
  BY <1>4 DEF VerifyOne
<1>5. ASSUME NEW r \in Requests, RefuseBatch(r) \/ RespondBatch(r)
      PROVE  moved(r)
  BY <1>1, <1>5, GatewayAssumption DEF RefuseBatch, RespondBatch
<1>6. ASSUME NEW r \in Requests, NEW i, NEW verdict, Hand(r) \/ VerifyItem(r, i, verdict)
      PROVE  still
  BY <1>6 DEF Hand, VerifyItem
<1>7. Tick \/ Finished \/ UNCHANGED vars => still
  BY DEF Tick, Finished, vars
<1> HIDE DEF moved, still
<1>8. (\E r \in Requests : moved(r)) \/ still
  BY <1>2, <1>3, <1>4, <1>5, <1>6, <1>7 DEF Next
<1> QED
  BY <1>8 DEF moved, still

\* The pools of the batches.
LEMMA PoolSteps ==
  ASSUME [Next]_vars
  PROVE  \/ \E r \in Requests : Hand(r)
         \/ \E r \in Requests : \E i \in Places(r), verdict \in Verdicts :
              VerifyItem(r, i, verdict)
         \/ UNCHANGED pool
  BY DEF Next, vars, limits, pool, Authenticate, TakeToken, TakeUnit, VerifyOne,
         RefuseBatch, RespondBatch, Tick, Finished

-----------------------------------------------------------------------------
(***************************************************************************)
(* Type correctness.                                                       *)
(***************************************************************************)

\* The types hold at first.
LEMMA InitTypes == Init => TypeOK
  BY FullType, GatewayAssumption, QuotaAssumption
     DEF Init, TypeOK, NoBuckets, NewQuota, NoCounts, Places

\* What a bucket holds.
LEMMA LevelType ==
  ASSUME TypeOK, NEW c \in Clients
  PROVE  Level(buckets, c, now) \in 0..Full
<1>1. now \in Nat /\ Full \in Nat
  BY FullType, GatewayAssumption DEF TypeOK
<1>2. CASE c \in DOMAIN buckets
  <2>1. buckets[c].tokens \in 0..Full /\ buckets[c].lastFill \in 0..now
    BY <1>2 DEF TypeOK
  <2> QED
    BY <1>1, <1>2, <2>1 DEF Level, AtMost
<1>3. CASE c \notin DOMAIN buckets
  BY <1>1, <1>3 DEF Level
<1> QED
  BY <1>2, <1>3

\* The quota of today.
LEMMA TodayType ==
  ASSUME TypeOK
  PROVE  /\ Day \in 0..MaxTime
         /\ Today(quota, Day) \in [day: {Day}, counts: [Clients -> 0..DailyLimit]]
<1>1. Day \in 0..MaxTime
  BY DayMonotone, GatewayAssumption DEF TypeOK, Day
<1>2. NoCounts \in [Clients -> 0..DailyLimit]
  BY QuotaAssumption DEF NoCounts
<1>3. quota \in [day: -1..MaxTime, counts: [Clients -> 0..DailyLimit]]
  BY DEF TypeOK
<1> QED
  BY <1>1, <1>2, <1>3 DEF Today

\* Every step keeps the types.
LEMMA NextTypes == TypeOK /\ [Next]_vars => TypeOK'
<1> SUFFICES ASSUME TypeOK, [Next]_vars PROVE TypeOK'
  OBVIOUS
<1> USE GatewayAssumption
<1>1. now' \in 0..MaxTime /\ now <= now'
  BY LimiterSteps DEF TypeOK, TakeToken, Tick
<1>2. /\ DOMAIN buckets' \subseteq Clients
      /\ \A c \in DOMAIN buckets' : buckets'[c] \in [tokens: 0..Full, lastFill: 0..now']
  <2>1. CASE buckets' = buckets
    BY <1>1, <2>1 DEF TypeOK
  <2>2. ASSUME NEW r \in Requests, TakeToken(r)
        PROVE  <1>2
    <3> DEFINE c == ClientOf[r]
               level == Level(buckets, c, now)
               bucket == [tokens |-> IF Admits(buckets, c, now) THEN level - Refill ELSE level,
                          lastFill |-> now]
    <3>1. c \in Clients /\ level \in 0..Full
      BY LevelType
    <3>2. bucket \in [tokens: 0..Full, lastFill: 0..now]
      BY <3>1, FullType DEF Admits, TypeOK
    <3>3. buckets' = [d \in DOMAIN buckets \cup {c} |-> IF d = c THEN bucket ELSE buckets[d]]
          /\ now' = now
      BY <2>2 DEF TakeToken, AfterAllow
    <3> HIDE DEF c, level, bucket
    <3> QED
      BY <3>1, <3>2, <3>3 DEF TypeOK
  <2> QED
    BY <2>1, <2>2, LimiterSteps DEF Tick, limits
<1>3. quota' \in [day: -1..MaxTime, counts: [Clients -> 0..DailyLimit]]
  <2>1. ASSUME NEW r \in Requests, TakeUnit(r)
        PROVE  <1>3
    <3>1. quota' = AfterCall(quota, ClientOf[r], Day) /\ ClientOf[r] \in Clients
      BY <2>1 DEF TakeUnit
    <3> QED
      BY <3>1, TodayType, QuotaAssumption DEF AfterCall, HasUnit
  <2> QED
    BY <2>1, QuotaSteps DEF TypeOK, Tick, limits
<1>4. pc' \in [Requests -> {"new", "limiter", "quota", "handler", "answered"}]
      /\ status' \in [Requests -> {0, 200, 400, 401, 429, 500}]
  <2>1. CASE UNCHANGED <<pc, status>>
    BY <2>1 DEF TypeOK
  <2>2. ASSUME NEW r \in Requests,
               \/ \E place \in {"limiter", "quota", "handler"} : Proceed(r, place)
               \/ \E code \in {200, 400, 401, 429, 500} : Answer(r, code)
        PROVE  <1>4
    <3>1. CASE \E place \in {"limiter", "quota", "handler"} : Proceed(r, place)
      BY <3>1 DEF TypeOK, Proceed
    <3>2. CASE \E code \in {200, 400, 401, 429, 500} : Answer(r, code)
      BY <3>2 DEF TypeOK, Answer
    <3> QED
      BY <2>2, <3>1, <3>2
  <2>3. \/ UNCHANGED <<pc, status>>
        \/ \E r \in Requests :
             \/ \E place \in {"limiter", "quota", "handler"} : Proceed(r, place)
             \/ \E code \in {200, 400, 401, 429, 500} : Answer(r, code)
    BY AnswerSteps
  <2> QED
    BY <2>1, <2>2, <2>3
<1>5. /\ fed' \in [Requests -> Nat] /\ busy' \in [Requests -> SUBSET Nat]
      /\ {DOMAIN results', DOMAIN verdicts'} \subseteq {Requests}
      /\ \A r \in Requests :
           /\ fed'[r] \in 0..Emails[r]
           /\ busy'[r] \subseteq Places(r)
           /\ {results'[r], verdicts'[r]} \subseteq [Places(r) -> Verdicts \cup {"none"}]
  <2>1. ASSUME NEW r \in Requests, Hand(r)
        PROVE  <1>5
    <3>1. /\ fed[r] \in Nat /\ Emails[r] \in Nat /\ fed[r] < Emails[r]
          /\ fed' = [fed EXCEPT ![r] = @ + 1]
          /\ busy' = [busy EXCEPT ![r] = @ \cup {fed[r] + 1}]
          /\ UNCHANGED <<results, verdicts>>
      BY <2>1 DEF Hand, TypeOK
    <3>2. fed[r] + 1 \in 1..Emails[r]
      BY <3>1
    <3> QED
      BY <3>1, <3>2 DEF TypeOK, Places
  <2>2. ASSUME NEW r \in Requests, NEW i \in Places(r), NEW verdict \in Verdicts,
               VerifyItem(r, i, verdict)
        PROVE  <1>5
    BY <2>2 DEF VerifyItem, TypeOK, Slot
  <2> QED
    BY <2>1, <2>2, PoolSteps DEF TypeOK, pool
<1> QED
  BY <1>1, <1>2, <1>3, <1>4, <1>5 DEF TypeOK

\* The clock, the buckets, the counters, the stations of the requests and the
\* pools of the batches keep their types.
THEOREM TypeCorrect == Spec => []TypeOK
<1>1. TypeOK /\ UNCHANGED vars => TypeOK'
  BY NextTypes
<1> QED
  BY InitTypes, NextTypes, PTL DEF Spec

-----------------------------------------------------------------------------
(***************************************************************************)
(* The histories.                                                          *)
(***************************************************************************)

\* No request has passed anything at first.
LEMMA InitHistory == Init => HistoryPhase
<1> SUFFICES ASSUME Init PROVE HistoryPhase
  OBVIOUS
<1>1. now = 0 /\ Day \in 0..0
  BY DayMonotone DEF Init, Day
<1> QED
  BY <1>1, FS_EmptySet DEF Init, HistoryPhase, NewQuota

\* Every request that passed the limiter or the quota stands behind it.
LEMMA NextHistory == TypeOK /\ HistoryPhase /\ [Next]_vars => HistoryPhase'
<1> SUFFICES ASSUME TypeOK, HistoryPhase, [Next]_vars PROVE HistoryPhase'
  OBVIOUS
<1>1. /\ now \in Nat /\ now' \in Nat /\ now <= now'
      /\ quota.day \in Int /\ Day \in Nat /\ Day' \in Nat /\ Day <= Day'
  <2>1. now \in Nat /\ now' \in {now, now + 1} /\ quota.day \in Int
    BY LimiterSteps, GatewayAssumption DEF TypeOK, TakeToken, Tick
  <2> QED
    BY <2>1, DayMonotone DEF Day
<1>2. \A q \in Requests :
        /\ pc[q] \in {"handler", "answered"} => pc'[q] \in {"handler", "answered"}
        /\ pc[q] = "quota" => pc'[q] \in {"quota", "handler", "answered"}
  BY AnswerSteps DEF TypeOK, Answer, Proceed
<1>3. /\ IsFiniteSet(passed')
      /\ \A p \in passed' :
           /\ p.req \in Requests /\ p.at \in 0..now'
           /\ pc'[p.req] \in {"quota", "handler", "answered"}
  <2>1. CASE passed' = passed
    BY <1>1, <1>2, <2>1 DEF HistoryPhase
  <2>2. ASSUME NEW r \in Requests, TakeToken(r), passed' # passed
        PROVE  <1>3
    <3>1. passed' = passed \cup {[req |-> r, at |-> now]} /\ pc'[r] = "quota" /\ now' = now
      BY <2>2 DEF TakeToken, TypeOK, Proceed
    <3>2. IsFiniteSet(passed')
      BY <3>1, FS_AddElement DEF HistoryPhase
    <3>3. \A p \in passed : /\ p.req \in Requests /\ p.at \in 0..now
                            /\ pc'[p.req] \in {"quota", "handler", "answered"}
      BY <1>2 DEF HistoryPhase
    <3> QED
      BY <1>1, <3>1, <3>2, <3>3
  <2> QED
    BY <2>1, <2>2, LimiterSteps DEF Tick
<1>4. /\ IsFiniteSet(entered') /\ quota'.day <= Day'
      /\ \A e \in entered' :
           /\ e.req \in Requests /\ e.day \in 0..quota'.day
           /\ pc'[e.req] \in {"handler", "answered"}
  <2>1. CASE entered' = entered /\ quota' = quota
    BY <1>1, <1>2, <2>1 DEF HistoryPhase
  <2>2. ASSUME NEW r \in Requests, TakeUnit(r)
        PROVE  <1>4
    <3>1. Day' = Day
      BY <2>2 DEF TakeUnit, Day
    <3>2. quota'.day = Day
      <4>1. quota' = AfterCall(quota, ClientOf[r], Day)
        BY <2>2 DEF TakeUnit
      <4> QED
        BY <4>1, TodayType DEF AfterCall
    <3>3. \A e \in entered : e.req \in Requests /\ e.day \in 0..Day
      BY <1>1 DEF HistoryPhase
    <3>4. CASE entered' = entered
      BY <1>1, <1>2, <3>1, <3>2, <3>3, <3>4 DEF HistoryPhase
    <3>5. CASE entered' = entered \cup {[req |-> r, day |-> Day]} /\ Proceed(r, "handler")
      <4>1. pc'[r] = "handler"
        BY <3>5 DEF Proceed, TypeOK
      <4>2. IsFiniteSet(entered')
        BY <3>5, FS_AddElement DEF HistoryPhase
      <4>3. \A e \in entered : pc'[e.req] \in {"handler", "answered"}
        BY <1>2 DEF HistoryPhase
      <4> QED
        BY <1>1, <3>1, <3>2, <3>3, <3>5, <4>1, <4>2, <4>3
    <3> QED
      BY <2>2, <3>4, <3>5 DEF TakeUnit
  <2> QED
    BY <2>1, <2>2, QuotaSteps DEF Tick, limits
<1> QED
  BY <1>3, <1>4 DEF HistoryPhase

-----------------------------------------------------------------------------
(***************************************************************************)
(* The limiter.                                                            *)
(***************************************************************************)

\* Its history is finite, and holds nothing of the future.
LEMMA PassedCount ==
  ASSUME TypeOK, HistoryPhase, NEW c \in Clients, NEW t \in Int
  PROVE  /\ IsFiniteSet(PassedSince(c, t))
         /\ Cardinality(PassedSince(c, t)) \in Nat
         /\ Cardinality(PassedSince(c, t)) * Refill \in Nat
         /\ t > now => Cardinality(PassedSince(c, t)) * Refill = 0
<1>1. IsFiniteSet(PassedSince(c, t))
  <2>1. IsFiniteSet(passed) /\ PassedSince(c, t) \subseteq passed
    BY DEF HistoryPhase, PassedSince
  <2> QED
    BY <2>1, FS_Subset
<1>2. Cardinality(PassedSince(c, t)) \in Nat
  BY <1>1, FS_CardinalityType
<1>3. ASSUME t > now PROVE Cardinality(PassedSince(c, t)) * Refill = 0
  <2>1. PassedSince(c, t) = {}
    BY <1>3, GatewayAssumption DEF HistoryPhase, PassedSince, TypeOK
  <2> QED
    BY <2>1, FS_EmptySet, FullType
<1> QED
  BY <1>1, <1>2, <1>3, Taken

\* Every bucket is full at first.
LEMMA InitBucket == Init => BucketPhase
<1> SUFFICES ASSUME Init, NEW c \in Clients, NEW t \in (-Full)..now
             PROVE  LET spent == Cardinality(PassedSince(c, t)) * Refill IN
                    /\ spent + Level(buckets, c, now) <= Full + now - t
                    /\ Level(buckets, c, now) >= AtMost(now - t, Full) - spent
  BY DEF BucketPhase
<1>1. Level(buckets, c, now) = Full /\ now = 0
  BY DEF Init, NoBuckets, Level
<1>2. Cardinality(PassedSince(c, t)) * Refill = 0
  <2>1. PassedSince(c, t) = {}
    BY DEF Init, PassedSince
  <2> QED
    BY <2>1, FS_EmptySet, FullType
<1> QED
  BY <1>1, <1>2, FullType DEF AtMost

\* Every step keeps the balance of a bucket and what passed, for each instant.
LEMMA NextBucket == TypeOK /\ HistoryPhase /\ BucketPhase /\ [Next]_vars => BucketPhase'
<1> SUFFICES ASSUME TypeOK, HistoryPhase, BucketPhase, [Next]_vars,
                    NEW c \in Clients, NEW t \in (-Full)..now'
             PROVE  LET spent == Cardinality(PassedSince(c, t)') * Refill IN
                    /\ spent + Level(buckets', c, now') <= Full + now' - t
                    /\ Level(buckets', c, now') >= AtMost(now' - t, Full) - spent
  BY DEF BucketPhase, PassedSince
<1> DEFINE count  == Cardinality(PassedSince(c, t))
           count1 == Cardinality(PassedSince(c, t)')
           level  == Level(buckets, c, now)
           level1 == Level(buckets', c, now')
<1>1. /\ now \in Nat /\ Full \in Nat /\ Refill \in Nat /\ t \in Int /\ -Full <= t
      /\ level \in 0..Full /\ count \in Nat /\ count * Refill \in Nat
      /\ t <= now => count * Refill + level <= Full + now - t
      /\ t <= now => level >= AtMost(now - t, Full) - count * Refill
      /\ t > now => count * Refill = 0
  <2>1. now \in Nat /\ now' \in Nat
    BY LimiterSteps, GatewayAssumption DEF TypeOK, TakeToken, Tick
  <2> QED
    BY <2>1, FullType, LevelType, PassedCount DEF BucketPhase
<1>2. CASE UNCHANGED <<now, buckets, passed>>
  <2>1. count1 = count /\ level1 = level /\ now' = now
    BY <1>2 DEF PassedSince
  <2> HIDE DEF count, count1, level, level1
  <2>2. t <= now
    BY <2>1, <1>1
  <2>3. /\ count1 * Refill + level1 <= Full + now' - t
        /\ level1 >= AtMost(now' - t, Full) - count1 * Refill
    BY <1>1, <2>1, <2>2
  <2> QED
    BY <2>3 DEF count1, level1
<1>3. CASE Tick
  <2>1. count1 = count /\ now' = now + 1
    BY <1>3 DEF PassedSince, Tick
  <2>2. level <= level1 /\ level1 <= level + 1 /\ level1 <= Full /\ level1 \in Nat
        /\ (level1 = level + 1 \/ level1 = Full)
    <3>1. buckets' = buckets /\ now' = now + 1
      BY <1>3 DEF Tick, limits
    <3>2. CASE c \in DOMAIN buckets
      <4>1. buckets[c].tokens \in 0..Full /\ buckets[c].lastFill \in 0..now
        BY <3>2 DEF TypeOK
      <4> QED
        BY <1>1, <3>1, <3>2, <4>1 DEF Level, AtMost
    <3>3. CASE c \notin DOMAIN buckets
      BY <1>1, <3>1, <3>3 DEF Level
    <3> QED
      BY <3>2, <3>3
  <2> DEFINE spent == count * Refill
  <2>3. spent \in Nat /\ spent = count1 * Refill
    BY <1>1, <2>1
  <2> HIDE DEF count, count1, level, level1, spent
  <2>4. /\ spent + level1 <= Full + now' - t
        /\ level1 >= AtMost(now' - t, Full) - spent
    <3>1. CASE t <= now
      BY <1>1, <2>1, <2>2, <2>3, <3>1 DEF AtMost, spent
    <3>2. CASE t = now + 1
      BY <1>1, <2>1, <2>2, <2>3, <3>2 DEF AtMost, spent
    <3> QED
      BY <1>1, <2>1, <3>1, <3>2
  <2> QED
    BY <2>3, <2>4 DEF count1, level1
<1>4. ASSUME NEW r \in Requests, TakeToken(r)
      PROVE  /\ count1 * Refill + level1 <= Full + now' - t
             /\ level1 >= AtMost(now' - t, Full) - count1 * Refill
  <2> DEFINE d == ClientOf[r]
  <2>1. now' = now /\ buckets' = AfterAllow(buckets, d, now) /\ d \in Clients /\ t <= now
    BY <1>1, <1>4, GatewayAssumption DEF TakeToken
  <2>2. CASE d # c
    <3>1. PassedSince(c, t)' = PassedSince(c, t)
      BY <1>4, <2>2 DEF TakeToken, PassedSince
    <3>2. level1 = level
      BY <2>1, <2>2 DEF AfterAllow, Level
    <3>3. count1 = count
      BY <3>1
    <3> HIDE DEF count, count1, level, level1
    <3> QED
      BY <1>1, <2>1, <3>2, <3>3
  <2>3. CASE d = c /\ ~Admits(buckets, c, now)
    <3>1. PassedSince(c, t)' = PassedSince(c, t)
      BY <1>4, <2>3 DEF TakeToken, PassedSince
    <3>2. level1 = level
      <4>1. level1 = AtMost(level + now - now, Full)
        BY <2>1, <2>3 DEF AfterAllow, Level
      <4> QED
        BY <1>1, <4>1 DEF AtMost
    <3>3. count1 = count
      BY <3>1
    <3> HIDE DEF count, count1, level, level1
    <3> QED
      BY <1>1, <2>1, <3>2, <3>3
  <2>4. CASE d = c /\ Admits(buckets, c, now)
    <3> DEFINE x == [req |-> r, at |-> now]
    <3>1. PassedSince(c, t)' = PassedSince(c, t) \cup {x} /\ x \notin PassedSince(c, t)
      <4>1. passed' = passed \cup {x} /\ pc[r] = "limiter"
        BY <1>4, <2>4 DEF TakeToken
      <4>2. x \notin passed
        BY <4>1 DEF HistoryPhase
      <4> QED
        BY <1>1, <2>1, <2>4, <4>1, <4>2 DEF PassedSince
    <3>2. count1 = count + 1
      BY <3>1, PassedCount, FS_AddElement, <1>1
    <3>3. level1 = level - Refill
      <4>1. level1 = AtMost((level - Refill) + now - now, Full)
        BY <2>1, <2>4 DEF AfterAllow, Level
      <4>2. level - Refill \in 0..Full
        BY <1>1, <2>4, FullType DEF Admits
      <4> QED
        BY <1>1, <4>1, <4>2 DEF AtMost
    <3> HIDE DEF count, count1, level, level1, d
    <3>4. count1 * Refill = count * Refill + Refill
      BY <1>1, <3>2, Taken
    <3> DEFINE spent == count * Refill
    <3>5. count1 * Refill = spent + Refill /\ spent \in Nat
          /\ spent + level <= Full + now - t /\ level >= AtMost(now - t, Full) - spent
      BY <1>1, <2>1, <3>4
    <3> HIDE DEF spent
    <3> QED
      BY <1>1, <2>1, <3>3, <3>5 DEF AtMost
  <2> QED
    BY <2>2, <2>3, <2>4
<1> QED
  BY <1>2, <1>3, <1>4, LimiterSteps

-----------------------------------------------------------------------------
(***************************************************************************)
(* The quota.                                                              *)
(***************************************************************************)

\* Its history is finite, and holds nothing of a day the quota has not seen.
LEMMA EnteredCount ==
  ASSUME HistoryPhase, NEW c, NEW d \in Int, quota.day \in Int
  PROVE  /\ IsFiniteSet(EnteredOn(c, d))
         /\ Cardinality(EnteredOn(c, d)) \in Nat
         /\ d > quota.day => Cardinality(EnteredOn(c, d)) = 0
<1>1. IsFiniteSet(EnteredOn(c, d))
  <2>1. IsFiniteSet(entered) /\ EnteredOn(c, d) \subseteq entered
    BY DEF HistoryPhase, EnteredOn
  <2> QED
    BY <2>1, FS_Subset
<1>2. Cardinality(EnteredOn(c, d)) \in Nat
  BY <1>1, FS_CardinalityType
<1>3. ASSUME d > quota.day PROVE Cardinality(EnteredOn(c, d)) = 0
  <2>1. EnteredOn(c, d) = {}
    BY <1>3 DEF HistoryPhase, EnteredOn
  <2> QED
    BY <2>1, FS_EmptySet
<1> QED
  BY <1>1, <1>2, <1>3

\* No unit is charged at first.
LEMMA InitQuota == Init => QuotaHonest
<1> SUFFICES ASSUME Init PROVE QuotaHonest
  OBVIOUS
<1>1. \A c, d : EnteredOn(c, d) = {}
  BY DEF Init, EnteredOn
<1>2. \A c, d : Cardinality(EnteredOn(c, d)) = 0
  BY <1>1, FS_EmptySet
<1>3. 0 <= DailyLimit /\ quota.day = -1
  BY QuotaAssumption DEF Init, NewQuota
<1> QED
  BY <1>2, <1>3 DEF QuotaHonest

\* Every step keeps the counters equal to what reached the handlers.
LEMMA NextQuota == TypeOK /\ HistoryPhase /\ QuotaHonest /\ [Next]_vars => QuotaHonest'
<1> SUFFICES ASSUME TypeOK, HistoryPhase, QuotaHonest, [Next]_vars, NEW c \in Clients
             PROVE  /\ \A d \in 0..Day' : Cardinality(EnteredOn(c, d)') <= DailyLimit
                    /\ quota'.day >= 0 =>
                         quota'.counts[c] = Cardinality(EnteredOn(c, quota.day)')
  BY DEF QuotaHonest, EnteredOn
<1>1. /\ Day \in Nat /\ quota.day \in Int /\ quota.day <= Day
      /\ DailyLimit \in Nat /\ DailyLimit > 0
  BY TodayType, QuotaAssumption, GatewayAssumption DEF TypeOK, HistoryPhase
<1>2. \A d \in Nat : Cardinality(EnteredOn(c, d)) <= DailyLimit
  <2> TAKE d \in Nat
  <2>1. CASE d \in 0..Day
    BY <2>1 DEF QuotaHonest
  <2>2. CASE d > Day
    <3>1. d \in Int /\ d > quota.day
      BY <1>1, <2>2
    <3> QED
      BY <1>1, <3>1, EnteredCount
  <2> QED
    BY <1>1, <2>1, <2>2
<1>3. ASSUME UNCHANGED <<quota, entered>>, Day' \in Nat
      PROVE  /\ \A d \in 0..Day' : Cardinality(EnteredOn(c, d)') <= DailyLimit
             /\ quota'.day >= 0 =>
                  quota'.counts[c] = Cardinality(EnteredOn(c, quota.day)')
  BY <1>2, <1>3 DEF EnteredOn, QuotaHonest
<1>4. CASE UNCHANGED <<now, quota, entered>>
  <2>1. Day' = Day
    BY <1>4 DEF Day
  <2> QED
    BY <1>1, <1>3, <1>4, <2>1
<1>5. CASE Tick
  <2>1. Day' \in Nat
    <3>1. now \in Nat /\ now' = now + 1
      BY <1>5, GatewayAssumption DEF Tick, TypeOK
    <3> QED
      BY <3>1, DayMonotone DEF Day
  <2> QED
    BY <1>3, <1>5, <2>1 DEF Tick, limits
<1>6. ASSUME NEW r \in Requests, TakeUnit(r)
      PROVE  /\ \A d \in 0..Day' : Cardinality(EnteredOn(c, d)') <= DailyLimit
             /\ quota'.day >= 0 =>
                  quota'.counts[c] = Cardinality(EnteredOn(c, quota.day)')
  <2> DEFINE k == ClientOf[r]
             today == Today(quota, Day)
             x == [req |-> r, day |-> Day]
  <2>1. /\ Day' = Day /\ pc[r] = "quota" /\ k \in Clients
        /\ quota' = AfterCall(quota, k, Day)
    BY <1>6, GatewayAssumption DEF TakeUnit, Day
  <2>2. /\ today.day = Day /\ today.counts \in [Clients -> 0..DailyLimit]
        /\ today \in [day: {Day}, counts: [Clients -> 0..DailyLimit]]
    BY TodayType
  <2>3. today.counts[c] = Cardinality(EnteredOn(c, Day))
    <3>1. CASE quota.day = Day
      BY <1>1, <3>1 DEF Today, QuotaHonest
    <3>2. CASE quota.day # Day
      <4>1. today.counts[c] = 0
        BY <3>2 DEF Today, NoCounts
      <4>2. Day \in Int /\ Day > quota.day
        BY <1>1, <3>2
      <4> QED
        BY <1>1, <4>1, <4>2, EnteredCount
    <3> QED
      BY <3>1, <3>2
  <2>4. CASE k # c \/ ~HasUnit(quota, k, Day)
    <3>1. \A d : EnteredOn(c, d)' = EnteredOn(c, d)
      BY <1>6, <2>4 DEF TakeUnit, EnteredOn
    <3>2. quota'.day = Day /\ quota'.counts[c] = today.counts[c]
      <4> HIDE DEF today
      <4>1. quota' = IF HasUnit(quota, k, Day) THEN [today EXCEPT !.counts[k] = @ + 1] ELSE today
        BY <2>1 DEF AfterCall, today
      <4> QED
        BY <2>2, <2>4, <4>1
    <3> QED
      BY <1>1, <1>2, <2>1, <2>3, <3>1, <3>2
  <2>5. CASE k = c /\ HasUnit(quota, k, Day)
    <3>1. entered' = entered \cup {x}
      BY <1>6, <2>5 DEF TakeUnit
    <3>2. x \notin entered
      BY <2>1 DEF HistoryPhase
    <3>3. /\ EnteredOn(c, Day)' = EnteredOn(c, Day) \cup {x} /\ x \notin EnteredOn(c, Day)
          /\ \A d \in Nat \ {Day} : EnteredOn(c, d)' = EnteredOn(c, d)
      BY <2>1, <2>5, <3>1, <3>2 DEF EnteredOn
    <3>4. /\ IsFiniteSet(EnteredOn(c, Day)) /\ Cardinality(EnteredOn(c, Day)) \in Nat
      BY <1>1, EnteredCount
    <3>5. Cardinality(EnteredOn(c, Day)') = Cardinality(EnteredOn(c, Day)) + 1
      <4> DEFINE S == EnteredOn(c, Day)
      <4>1. Cardinality(S \cup {x}) = Cardinality(S) + 1
        <5> HIDE DEF x, S
        <5>1. IsFiniteSet(S) /\ x \notin S
          BY <3>3, <3>4 DEF S
        <5> QED
          BY <5>1, FS_AddElement
      <4> QED
        BY <3>3, <4>1
    <3>6. today.counts[c] < DailyLimit
      BY <2>5 DEF HasUnit
    <3>7. quota'.day = Day /\ quota'.counts[c] = today.counts[c] + 1
      <4> HIDE DEF today
      <4>1. quota' = [today EXCEPT !.counts[k] = @ + 1]
        BY <2>1, <2>5 DEF AfterCall, today
      <4> QED
        BY <2>2, <2>5, <4>1
    <3>8. Cardinality(EnteredOn(c, Day)') <= DailyLimit
          /\ quota'.counts[c] = Cardinality(EnteredOn(c, Day)')
      <4> HIDE DEF today
      <4> QED
        BY <1>1, <2>3, <3>4, <3>5, <3>6, <3>7
    <3>9. EnteredOn(c, quota.day)' = EnteredOn(c, Day)'
      BY <2>1, <3>7 DEF EnteredOn
    <3>10. \A d \in Nat : Cardinality(EnteredOn(c, d)') <= DailyLimit
      <4> TAKE d \in Nat
      <4>1. CASE d = Day
        BY <2>1, <3>8, <4>1 DEF EnteredOn
      <4>2. CASE d # Day
        BY <1>2, <3>3, <4>2
      <4> QED
        BY <4>1, <4>2
    <3> QED
      BY <1>1, <2>1, <3>7, <3>8, <3>9, <3>10
  <2> QED
    BY <2>4, <2>5
<1> QED
  BY <1>4, <1>5, <1>6, QuotaSteps

-----------------------------------------------------------------------------
(***************************************************************************)
(* The batches.                                                            *)
(***************************************************************************)

\* How far the batch of r has come.
PoolOf(r) ==
    /\ results[r] = verdicts[r]
    /\ busy[r] \subseteq 1..fed[r] /\ IsFiniteSet(busy[r])
    /\ Cardinality(busy[r]) <= Concurrency
    /\ \A i \in (1..fed[r]) \ busy[r] : results[r][i] # "none"

\* What an answer says of a batch.
AnswerOf(r) ==
    /\ pc[r] = "answered" /\ status[r] = 200 => fed[r] = Emails[r] /\ busy[r] = {}
    /\ pc[r] = "answered" /\ Emails[r] \in 1..BatchMax => status[r] \in {200, 401, 429}

\* The pools, request by request.
LEMMA PoolParts == PoolPhase <=> \A r \in Requests : PoolOf(r) /\ AnswerOf(r)
  BY DEF PoolPhase, PoolOf, AnswerOf

\* No email has been handed out at first.
LEMMA InitPool == Init => PoolPhase
<1> SUFFICES ASSUME Init, NEW r \in Requests PROVE PoolOf(r) /\ AnswerOf(r)
  BY PoolParts
<1>1. Concurrency \in Nat /\ Cardinality({}) = 0 /\ IsFiniteSet({})
  BY GatewayAssumption, FS_EmptySet
<1> QED
  BY <1>1 DEF Init, PoolOf, AnswerOf

\* Workers keep their places: an email is handed out, or its result is written.
LEMMA NextPoolOf ==
  ASSUME TypeOK, [Next]_vars, NEW q \in Requests, PoolOf(q)
  PROVE  PoolOf(q)'
<1>1. CASE UNCHANGED pool
  BY <1>1 DEF pool, PoolOf
<1>2. ASSUME NEW r \in Requests, Hand(r)
      PROVE  PoolOf(q)'
  <2>1. /\ fed' = [fed EXCEPT ![r] = fed[r] + 1]
        /\ busy' = [busy EXCEPT ![r] = busy[r] \cup {fed[r] + 1}]
        /\ UNCHANGED <<results, verdicts>>
        /\ Cardinality(busy[r]) < Pool(r)
    BY <1>2 DEF Hand, TypeOK
  <2>2. CASE q # r
    BY <2>1, <2>2 DEF TypeOK, PoolOf
  <2>3. CASE q = r
    <3>1. fed'[q] = fed[q] + 1 /\ busy'[q] = busy[q] \cup {fed[q] + 1} /\ fed[q] \in Nat
      BY <2>1, <2>3 DEF TypeOK
    <3>2. IsFiniteSet(busy'[q]) /\ Cardinality(busy'[q]) <= Concurrency
      <4>1. IsFiniteSet(busy[q]) /\ fed[q] + 1 \notin busy[q]
        BY <3>1 DEF PoolOf
      <4>2. Cardinality(busy[q]) \in Nat
        BY <4>1, FS_CardinalityType
      <4>3. IsFiniteSet(busy[q] \cup {fed[q] + 1})
            /\ Cardinality(busy[q] \cup {fed[q] + 1}) = Cardinality(busy[q]) + 1
        BY <4>1, FS_AddElement
      <4>4. Cardinality(busy[q]) < Concurrency
        BY <2>1, <2>3, <4>2, GatewayAssumption DEF Pool, AtMost
      <4> QED
        BY <3>1, <4>2, <4>3, <4>4, GatewayAssumption
    <3>3. busy'[q] \subseteq 1..fed'[q]
          /\ (1..fed'[q]) \ busy'[q] \subseteq (1..fed[q]) \ busy[q]
      BY <3>1 DEF PoolOf
    <3> QED
      BY <2>1, <3>2, <3>3 DEF PoolOf
  <2> QED
    BY <2>2, <2>3
<1>3. ASSUME NEW r \in Requests, NEW i \in Places(r), NEW verdict \in Verdicts,
             VerifyItem(r, i, verdict)
      PROVE  PoolOf(q)'
  <2>1. /\ results' = [results EXCEPT ![r][i] = verdict]
        /\ verdicts' = [verdicts EXCEPT ![r][i] = verdict]
        /\ busy' = [busy EXCEPT ![r] = busy[r] \ {i}]
        /\ UNCHANGED fed
        /\ DOMAIN results = Requests /\ DOMAIN verdicts = Requests
    BY <1>3 DEF VerifyItem, Slot, TypeOK
  <2>2. CASE q # r
    BY <2>1, <2>2 DEF TypeOK, PoolOf
  <2>3. CASE q = r
    <3>1. /\ results'[q] = [results[q] EXCEPT ![i] = verdict]
          /\ verdicts'[q] = [verdicts[q] EXCEPT ![i] = verdict]
          /\ busy'[q] = busy[q] \ {i} /\ fed'[q] = fed[q]
          /\ i \in DOMAIN results[q] /\ verdict # "none"
      BY <2>1, <2>3 DEF TypeOK, Verdicts
    <3>2. IsFiniteSet(busy'[q]) /\ Cardinality(busy'[q]) <= Concurrency
      <4>1. IsFiniteSet(busy[q]) /\ busy'[q] \subseteq busy[q]
        BY <3>1 DEF PoolOf
      <4>2. /\ Cardinality(busy[q]) \in Nat /\ Cardinality(busy'[q]) \in Nat
            /\ IsFiniteSet(busy'[q]) /\ Cardinality(busy'[q]) <= Cardinality(busy[q])
        BY <4>1, FS_Subset, FS_CardinalityType
      <4> QED
        BY <4>2, GatewayAssumption DEF PoolOf
    <3>3. \A j \in (1..fed'[q]) \ busy'[q] : results'[q][j] # "none"
      BY <3>1 DEF PoolOf
    <3> QED
      BY <3>1, <3>2, <3>3 DEF PoolOf
  <2> QED
    BY <2>2, <2>3
<1> QED
  BY <1>1, <1>2, <1>3, PoolSteps

\* A batch that is answered is never taken up again.
LEMMA NextAnswerOf ==
  ASSUME TypeOK, [Next]_vars, NEW q \in Requests, PoolOf(q), AnswerOf(q)
  PROVE  AnswerOf(q)'
<1> DEFINE done == fed[q] = Emails[q] /\ busy[q] = {}
<1>1. done => done'
  <2> SUFFICES ASSUME done PROVE done'
    OBVIOUS
  <2>1. ASSUME NEW r \in Requests, Hand(r) PROVE done'
    <3>1. r # q
      BY <2>1, GatewayAssumption DEF Hand, TypeOK
    <3> QED
      BY <2>1, <3>1 DEF Hand, TypeOK
  <2>2. ASSUME NEW r \in Requests, NEW i \in Places(r), NEW verdict \in Verdicts,
               VerifyItem(r, i, verdict)
        PROVE  done'
    BY <2>2 DEF VerifyItem, TypeOK
  <2> QED
    BY <2>1, <2>2, PoolSteps DEF pool
<1>2. \/ pc'[q] # "answered"
      \/ pc'[q] = pc[q] /\ status'[q] = status[q]
      \/ status'[q] = 200 /\ done /\ Emails[q] \in 1..BatchMax
      \/ status'[q] \in {401, 429}
      \/ Emails[q] \notin 1..BatchMax /\ (status'[q] # 200 \/ Emails[q] = 0)
  BY AnswerSteps DEF TypeOK, Answer, Proceed
<1>3. Emails[q] = 0 => done
  BY DEF TypeOK, Places
<1> HIDE DEF done
<1>4. /\ pc'[q] = "answered" /\ status'[q] = 200 => done
      /\ pc'[q] = "answered" /\ Emails[q] \in 1..BatchMax => status'[q] \in {200, 401, 429}
  BY <1>2, <1>3 DEF AnswerOf, done
<1> QED
  BY <1>1, <1>4 DEF AnswerOf, done

\* Every step keeps the pools.
LEMMA NextPool == TypeOK /\ PoolPhase /\ [Next]_vars => PoolPhase'
<1> SUFFICES ASSUME TypeOK, PoolPhase, [Next]_vars, NEW q \in Requests
             PROVE  PoolOf(q)' /\ AnswerOf(q)'
  BY DEF PoolPhase, PoolOf, AnswerOf
<1> QED
  BY PoolParts, NextPoolOf, NextAnswerOf

-----------------------------------------------------------------------------
(***************************************************************************)
(* The inductive invariant, and what follows from it.                      *)
(***************************************************************************)

\* The histories, the buckets, the counters and the pools account for each
\* other in every reachable state.
THEOREM Invariance == Spec => []GatewayInv
<1>1. Init => GatewayInv
  BY InitTypes, InitHistory, InitBucket, InitQuota, InitPool DEF GatewayInv
<1>2. GatewayInv /\ [Next]_vars => GatewayInv'
  BY NextTypes, NextHistory, NextBucket, NextQuota, NextPool DEF GatewayInv
<1> QED
  BY <1>1, <1>2, PTL DEF Spec

\* However the requests of a client interleave at the limiter, no stretch of
\* time sees more of them pass than the bucket allows, and none is refused for
\* what passed longer ago than the bucket takes to fill.
THEOREM LimiterBounds == Spec => []RateBounded
<1>1. GatewayInv => RateBounded
  <2> SUFFICES ASSUME GatewayInv, NEW c \in Clients
               PROVE  /\ \A t \in 0..now :
                           Cardinality(PassedSince(c, t)) * Refill <= Full + now - t
                      /\ Level(buckets, c, now)
                           >= Full - Cardinality(PassedSince(c, now - Full)) * Refill
    BY DEF RateBounded
  <2>1. now \in Nat /\ Full \in Nat /\ Level(buckets, c, now) \in 0..Full
    BY FullType, LevelType, GatewayAssumption DEF GatewayInv, TypeOK
  <2>2. ASSUME NEW t \in (-Full)..now
        PROVE  /\ Cardinality(PassedSince(c, t)) * Refill \in Nat
               /\ Cardinality(PassedSince(c, t)) * Refill + Level(buckets, c, now)
                    <= Full + now - t
               /\ Level(buckets, c, now)
                    >= AtMost(now - t, Full) - Cardinality(PassedSince(c, t)) * Refill
    BY <2>1, PassedCount DEF GatewayInv, BucketPhase
  <2>3. ASSUME NEW t \in 0..now
        PROVE  Cardinality(PassedSince(c, t)) * Refill <= Full + now - t
    <3>1. t \in (-Full)..now
      BY <2>1
    <3> DEFINE spent == Cardinality(PassedSince(c, t)) * Refill
    <3>2. spent \in Nat /\ spent + Level(buckets, c, now) <= Full + now - t
      BY <2>2, <3>1
    <3> HIDE DEF spent
    <3>3. spent <= Full + now - t
      BY <2>1, <3>2
    <3> QED
      BY <3>3 DEF spent
  <2>4. Level(buckets, c, now) >= Full - Cardinality(PassedSince(c, now - Full)) * Refill
    <3>1. now - Full \in (-Full)..now /\ AtMost(now - (now - Full), Full) = Full
      BY <2>1 DEF AtMost
    <3> QED
      BY <2>2, <3>1
  <2> QED
    BY <2>3, <2>4
<1> QED
  BY <1>1, Invariance, PTL

\* A client is charged for exactly the requests that reached a handler today,
\* and never more of them do than its daily limit.
THEOREM QuotaCounts == Spec => []QuotaHonest
<1>1. GatewayInv => QuotaHonest
  BY DEF GatewayInv
<1> QED
  BY <1>1, Invariance, PTL

\* An answered batch has one result per email, each at its own place, from no
\* more workers than configured, and a batch within the limit never fails.
THEOREM BatchesAreWhole == Spec => []BatchWhole
<1>1. GatewayInv => BatchWhole
  <2> SUFFICES ASSUME GatewayInv, NEW r \in Requests
               PROVE  /\ Cardinality(busy[r]) <= Concurrency
                      /\ pc[r] = "answered" /\ status[r] = 200 =>
                           \A i \in Places(r) :
                              results[r][i] = verdicts[r][i] /\ results[r][i] # "none"
                      /\ pc[r] = "answered" /\ Emails[r] \in 1..BatchMax =>
                           status[r] \in {200, 401, 429}
    BY DEF BatchWhole
  <2>1. PoolOf(r) /\ AnswerOf(r)
    BY PoolParts DEF GatewayInv
  <2> QED
    BY <2>1 DEF PoolOf, AnswerOf, Places
<1> QED
  BY <1>1, Invariance, PTL

=============================================================================
