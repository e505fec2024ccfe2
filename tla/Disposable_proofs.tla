-------------------------- MODULE Disposable_proofs --------------------------
(***************************************************************************)
(* Proofs about Disposable: for any number of verifiers, calls, domains    *)
(* and lists, the overlapping refreshes keep what every list holds, the    *)
(* additional domains return, and a verifier has one schedule at most.     *)
(***************************************************************************)
EXTENDS Disposable, TLAPS

Refreshes == [at: {"none", "fetch", "range", "store", "restore"},
              list: SUBSET Domains, due: SUBSET Domains, seen: SUBSET Domains]

Callers == [at: {"idle", "stop", "sending", "refreshing", "write", "put"},
            call: {"none", "enable", "disable", "add"},
            domains: SUBSET Extra]

-----------------------------------------------------------------------------
(***************************************************************************)
(* What a step does to the refreshes and to the callers.                   *)
(***************************************************************************)

\* One refresh goes on, or none.
LEMMA RefreshStep ==
  ASSUME TypeOK, NEW v \in Verifiers, NEW t \in Threads(v), NEW place, NEW list, NEW due,
         Goes(v, t, place, list, due)
  PROVE  /\ DOMAIN refresh' = Verifiers
         /\ refresh'[v][t] = [at |-> place, list |-> list, due |-> due, seen |-> {}]
         /\ \A u \in Verifiers : /\ DOMAIN refresh'[u] = Threads(u)
                                 /\ \A s \in Threads(u) : (u # v \/ s # t) =>
                                      refresh'[u][s] = refresh[u][s]
<1>1. /\ DOMAIN refresh = Verifiers
      /\ \A u \in Verifiers : DOMAIN refresh[u] = Threads(u)
  BY DEF TypeOK
<1> QED
  BY <1>1 DEF Goes

\* A refresh that ticks a domain off changes nothing of any refresh but its own
\* set of seen ones.
LEMMA SawStep ==
  ASSUME TypeOK, NEW v \in Verifiers, NEW t \in Threads(v), NEW d, Saw(v, t, d)
  PROVE  /\ DOMAIN refresh' = Verifiers
         /\ refresh'[v][t] = [refresh[v][t] EXCEPT !.seen = @ \cup {d}]
         /\ \A u \in Verifiers : /\ DOMAIN refresh'[u] = Threads(u)
                                 /\ \A s \in Threads(u) : (u # v \/ s # t) =>
                                      refresh'[u][s] = refresh[u][s]
<1>1. /\ DOMAIN refresh = Verifiers
      /\ \A u \in Verifiers : DOMAIN refresh[u] = Threads(u)
  BY DEF TypeOK
<1> QED
  BY <1>1 DEF Saw

\* What TypeOK says of one refresh.
LEMMA RefreshTypes ==
  TypeOK => \A v \in Verifiers : \A t \in Threads(v) : refresh[v][t] \in Refreshes
  BY DEF TypeOK, Refreshes

\* A refresh that goes on keeps the types of the refreshes.
LEMMA RefreshStepTypes ==
  ASSUME TypeOK, NEW v \in Verifiers, NEW t \in Threads(v),
         \/ \E place \in {"none", "fetch", "range", "store", "restore"},
               list \in SUBSET Domains, due \in SUBSET Domains : Goes(v, t, place, list, due)
         \/ \E d \in Domains : Saw(v, t, d)
         \/ UNCHANGED refresh
  PROVE  DOMAIN refresh' = Verifiers /\ \A u \in Verifiers : refresh'[u] \in [Threads(u) -> Refreshes]
<1>1. ASSUME NEW place \in {"none", "fetch", "range", "store", "restore"},
             NEW list \in SUBSET Domains, NEW due \in SUBSET Domains,
             Goes(v, t, place, list, due)
      PROVE  refresh' = [refresh EXCEPT ![v][t] =
                [at |-> place, list |-> list, due |-> due, seen |-> {}]]
             /\ [at |-> place, list |-> list, due |-> due, seen |-> {}] \in Refreshes
  BY <1>1 DEF Goes, Refreshes
<1>2. ASSUME NEW d \in Domains, Saw(v, t, d)
      PROVE  refresh' = [refresh EXCEPT ![v][t] = [refresh[v][t] EXCEPT !.seen = @ \cup {d}]]
             /\ [refresh[v][t] EXCEPT !.seen = @ \cup {d}] \in Refreshes
  <2>1. refresh[v][t] \in Refreshes
    BY RefreshTypes
  <2> QED
    BY <1>2, <2>1 DEF Saw, Refreshes
<1>3. /\ DOMAIN refresh = Verifiers
      /\ \A u \in Verifiers : refresh[u] \in [Threads(u) -> Refreshes]
  BY DEF TypeOK, Refreshes
<1>4. \A new \in Refreshes : refresh' = [refresh EXCEPT ![v][t] = new] =>
        DOMAIN refresh' = Verifiers /\ \A u \in Verifiers : refresh'[u] \in [Threads(u) -> Refreshes]
  BY <1>3
<1> QED
  BY <1>1, <1>2, <1>3, <1>4

\* The steps of a refresh.
LEMMA RefreshSets ==
  ASSUME TypeOK, NEW v \in Verifiers, NEW t \in Threads(v), Refresh(v, t)
  PROVE  /\ listed' \subseteq Domains
         /\ DOMAIN refresh' = Verifiers
         /\ \A u \in Verifiers : refresh'[u] \in [Threads(u) -> Refreshes]
         /\ UNCHANGED <<additional, caller, calls, schedule, alive>>
<1>1. /\ listed \subseteq Domains /\ additional \subseteq Domains
      /\ refresh[v][t].list \in SUBSET Domains
      /\ Lists \subseteq SUBSET Domains
  BY RefreshTypes, DisposableAssumption DEF TypeOK, Refreshes
<1>2. CASE FetchFails(v, t)
  <2>1. Goes(v, t, "none", {}, {})
    BY <1>2 DEF FetchFails, Goes, NoRefresh
  <2> QED
    BY <1>1, <1>2, <2>1, RefreshStepTypes DEF FetchFails, sets
<1>3. ASSUME NEW list \in Lists, Fetch(v, t, list)
      PROVE  /\ Goes(v, t, "range", list, listed) /\ UNCHANGED listed
             /\ UNCHANGED <<additional, caller, calls, schedule, alive>>
  BY <1>3 DEF Fetch, sets
<1>4. ASSUME NEW d \in Domains, Visit(v, t, d) \/ Put(v, t, d) \/ Restore(v, t, d)
      PROVE  /\ listed' \subseteq Domains /\ Saw(v, t, d)
             /\ UNCHANGED <<additional, caller, calls, schedule, alive>>
  BY <1>1, <1>4 DEF Visit, Put, Restore
<1>5. CASE RangeEnds(v, t)
  BY <1>1, <1>5, RefreshStepTypes DEF RangeEnds, sets
<1>6. CASE PutsEnd(v, t)
  BY <1>1, <1>6, RefreshStepTypes DEF PutsEnd, sets
<1>7. CASE RestoreEnds(v, t)
  <2>1. Goes(v, t, "none", {}, {})
    BY <1>7 DEF RestoreEnds, Goes, NoRefresh
  <2> QED
    BY <1>1, <1>7, <2>1, RefreshStepTypes DEF RestoreEnds, sets
<1>8. ASSUME NEW list \in Lists, Fetch(v, t, list)
      PROVE  /\ listed' \subseteq Domains
             /\ DOMAIN refresh' = Verifiers
             /\ \A u \in Verifiers : refresh'[u] \in [Threads(u) -> Refreshes]
             /\ UNCHANGED <<additional, caller, calls, schedule, alive>>
  <2>1. list \in SUBSET Domains /\ listed \in SUBSET Domains
    BY <1>1
  <2>2. Goes(v, t, "range", list, listed)
    BY <1>3, <1>8
  <2> QED
    BY <1>1, <1>3, <1>8, <2>1, <2>2, RefreshStepTypes
<1>9. ASSUME NEW d \in Domains, Saw(v, t, d)
      PROVE  /\ DOMAIN refresh' = Verifiers
             /\ \A u \in Verifiers : refresh'[u] \in [Threads(u) -> Refreshes]
  BY <1>9, RefreshStepTypes
<1> QED
  BY <1>2, <1>4, <1>5, <1>6, <1>7, <1>8, <1>9 DEF Refresh

\* A refresh goes on, and starts no other.
LEMMA RefreshAwake ==
  ASSUME TypeOK, NEW v \in Verifiers, NEW t \in Threads(v), Refresh(v, t),
         NEW u \in Verifiers, NEW s \in Threads(u)
  PROVE  refresh'[u][s].at # "none" => refresh[u][s].at # "none"
<1>1. refresh[v][t].at # "none"
  BY DEF Refresh, FetchFails, Fetch, Visit, RangeEnds, Put, PutsEnd, Restore, RestoreEnds, At
<1>2. u # v \/ s # t => refresh'[u][s] = refresh[u][s]
  <2>1. DOMAIN refresh = Verifiers /\ \A w \in Verifiers : DOMAIN refresh[w] = Threads(w)
    BY DEF TypeOK
  <2>2. \E new : refresh' = [refresh EXCEPT ![v][t] = new]
    BY Zenon DEF Refresh, FetchFails, Fetch, Visit, RangeEnds, Put, PutsEnd, Restore,
              RestoreEnds, Goes, Saw
  <2> QED
    BY <2>1, <2>2
<1> QED
  BY <1>1, <1>2

\* The steps of the calls.
StepOfCall(v) ==
    \/ CallEnable(v)
    \/ CallDisable(v)
    \/ \E d \in Extra : CallAdd(v, d)
    \/ NothingToStop(v)
    \/ StopBegins(v)
    \/ StopReceived(v)
    \/ StartSchedule(v)
    \/ AddWrites(v)
    \/ AddStores(v)

\* Every step is one of a refresh, of a call, or the race that ends the process.
LEMMA Steps ==
  ASSUME [Next]_vars
  PROVE  \/ \E v \in Verifiers : \E t \in Threads(v) : Refresh(v, t) \/ Tick(v, t)
         \/ \E v \in Verifiers : StepOfCall(v)
         \/ UNCHANGED <<sets, caller, calls, schedule, refresh>> /\ alive' \in {alive, FALSE}
  BY Zenon DEF Next, vars, CallGoesOn, Add, StepOfCall, RaceCrash, Settled

-----------------------------------------------------------------------------
(***************************************************************************)
(* The calls.                                                              *)
(***************************************************************************)

\* What TypeOK says of the calls and the schedule of v.
VerifierTypes(v) ==
    /\ caller[v] \in Callers
    /\ calls[v] \in 0..MaxCalls[v]
    /\ current[v] \in Threads(v)
    /\ running[v] \in BOOLEAN
    /\ live[v] \subseteq Threads(v) \ {0}

\* What CallPhase says of v.
CallPhaseOf(v) ==
    /\ caller[v].at = "idle" => caller[v] = Idle
    /\ caller[v].at \in {"stop", "sending"} => caller[v].call \in {"enable", "disable"}
    /\ caller[v].at = "refreshing" => caller[v].call = "enable"
    /\ caller[v].at \in {"write", "put"} => caller[v].call = "add"
    /\ current[v] <= calls[v]
    /\ caller[v].call = "enable" => current[v] < calls[v]
    /\ caller[v].at \in {"sending", "refreshing"} => ~running[v]
    /\ live[v] = IF running[v] \/ caller[v].at = "sending" THEN {current[v]} ELSE {}
    /\ \A t \in Threads(v) : refresh[v][t].at # "none" =>
         IF t = 0 THEN caller[v].at = "refreshing" ELSE t \in live[v]

Domained ==
    {DOMAIN caller, DOMAIN calls, DOMAIN current, DOMAIN running, DOMAIN live} \subseteq {Verifiers}

TypesOfAll ==
    /\ listed \subseteq Domains /\ additional \subseteq Extra
    /\ Domained /\ DOMAIN refresh = Verifiers
    /\ \A v \in Verifiers : VerifierTypes(v) /\ refresh[v] \in [Threads(v) -> Refreshes]
    /\ alive \in BOOLEAN

\* The types, verifier by verifier.
LEMMA TypeParts == (TypeOK <=> TypesOfAll) /\ (TypeOK' <=> TypesOfAll')
  BY DEF TypeOK, TypesOfAll, VerifierTypes, Domained, Refreshes, Callers

\* The places of the calls, verifier by verifier.
LEMMA PhaseParts ==
  /\ CallPhase <=> \A v \in Verifiers : CallPhaseOf(v)
  /\ CallPhase' <=> \A v \in Verifiers : CallPhaseOf(v)'
  BY DEF CallPhase, CallPhaseOf

\* A step of a call touches nothing of another verifier.
LEMMA CallFrame ==
  ASSUME TypeOK, NEW v \in Verifiers, StepOfCall(v), NEW u \in Verifiers \ {v}
  PROVE  /\ caller'[u] = caller[u] /\ calls'[u] = calls[u] /\ current'[u] = current[u]
         /\ running'[u] = running[u] /\ live'[u] = live[u] /\ refresh'[u] = refresh[u]
<1> USE DEF schedule
<1>0. DOMAIN caller = Verifiers /\ DOMAIN calls = Verifiers /\ DOMAIN current = Verifiers
      /\ DOMAIN running = Verifiers /\ DOMAIN live = Verifiers /\ DOMAIN refresh = Verifiers
  BY DEF TypeOK
<1>1. ASSUME NEW place, NEW call, NEW domains, Begin(v, place, call, domains)
      PROVE  /\ caller'[u] = caller[u] /\ calls'[u] = calls[u]
             /\ UNCHANGED <<current, running, live, refresh>>
  BY <1>0, <1>1 DEF Begin
<1>2. StopDone(v) => caller'[u] = caller[u] /\ refresh'[u] = refresh[u]
  BY <1>0 DEF StopDone, Goes
<1>3. CASE NothingToStop(v) \/ StopReceived(v)
  BY <1>0, <1>2, <1>3 DEF NothingToStop, StopReceived
<1>4. CASE StopBegins(v) \/ StartSchedule(v)
  BY <1>0, <1>4 DEF StopBegins, StartSchedule
<1>5. CASE AddWrites(v) \/ AddStores(v)
  BY <1>0, <1>5 DEF AddWrites, AddStores
<1> QED
  BY <1>1, <1>3, <1>4, <1>5 DEF StepOfCall, CallEnable, CallDisable, CallAdd

\* Each step of a call keeps the types of its verifier, and leaves its caller
\* where the schedule is as the call has it.
LEMMA CallMoves ==
  ASSUME TypeOK, CallPhase, NEW v \in Verifiers, StepOfCall(v)
  PROVE  /\ VerifierTypes(v)' /\ CallPhaseOf(v)' /\ Domained'
         /\ DOMAIN refresh' = Verifiers
         /\ \A u \in Verifiers : refresh'[u] \in [Threads(u) -> Refreshes]
         /\ listed' \subseteq Domains /\ additional' \subseteq Extra /\ alive' = alive
<1> USE DEF schedule
<1> DEFINE goal == /\ VerifierTypes(v)' /\ CallPhaseOf(v)' /\ Domained'
                   /\ DOMAIN refresh' = Verifiers
                   /\ \A u \in Verifiers : refresh'[u] \in [Threads(u) -> Refreshes]
                   /\ listed' \subseteq Domains /\ additional' \subseteq Extra /\ alive' = alive
<1>1. /\ DOMAIN caller = Verifiers /\ DOMAIN calls = Verifiers /\ DOMAIN current = Verifiers
      /\ DOMAIN running = Verifiers /\ DOMAIN live = Verifiers /\ DOMAIN refresh = Verifiers
      /\ \A u \in Verifiers : refresh[u] \in [Threads(u) -> Refreshes]
      /\ listed \subseteq Domains /\ additional \subseteq Extra /\ Extra \subseteq Domains
  BY TypeParts, DisposableAssumption DEF TypesOfAll, Domained
<1>2. VerifierTypes(v) /\ CallPhaseOf(v) /\ MaxCalls[v] \in Nat
  BY TypeParts, PhaseParts, DisposableAssumption DEF TypesOfAll
<1>3. ASSUME NEW place \in {"stop", "write"}, NEW call \in {"enable", "disable", "add"},
             NEW domains \in SUBSET Extra, Begin(v, place, call, domains),
             place = "write" <=> call = "add"
      PROVE  goal
  <2>1. /\ caller'[v] = [at |-> place, call |-> call, domains |-> domains]
        /\ calls'[v] = calls[v] + 1 /\ calls[v] < MaxCalls[v] /\ caller[v] = Idle
        /\ DOMAIN caller' = Verifiers /\ DOMAIN calls' = Verifiers
        /\ UNCHANGED <<listed, additional, current, running, live, refresh, alive>>
    BY <1>1, <1>3 DEF Begin, sets
  <2>2. VerifierTypes(v)'
    BY <1>2, <1>3, <2>1 DEF VerifierTypes, Callers
  <2>3. CallPhaseOf(v)'
    BY <1>2, <1>3, <2>1 DEF CallPhaseOf, VerifierTypes, Idle, Threads
  <2> QED
    BY <1>1, <2>1, <2>2, <2>3 DEF Domained
<1>4. ASSUME StopDone(v), caller[v].at \in {"stop", "sending"}
      PROVE  /\ DOMAIN caller' = Verifiers /\ caller'[v] \in Callers
             /\ DOMAIN refresh' = Verifiers
             /\ \A u \in Verifiers : refresh'[u] \in [Threads(u) -> Refreshes]
             /\ \/ /\ caller[v].call = "enable" /\ caller'[v] = [caller[v] EXCEPT !.at = "refreshing"]
                   /\ refresh'[v][0].at = "fetch"
                   /\ \A t \in Threads(v) \ {0} : refresh'[v][t] = refresh[v][t]
                \/ caller'[v] = Idle /\ UNCHANGED refresh
  <2>1. 0 \in Threads(v)
    BY <1>2 DEF Threads
  <2>2. CASE caller[v].call = "enable"
    <3>1. Goes(v, 0, "fetch", {}, {}) /\ caller' = [caller EXCEPT ![v].at = "refreshing"]
      BY <1>4, <2>2 DEF StopDone
    <3>2. /\ DOMAIN caller' = Verifiers /\ caller'[v] = [caller[v] EXCEPT !.at = "refreshing"]
          /\ caller'[v] \in Callers
      BY <1>1, <1>2, <3>1 DEF VerifierTypes, Callers
    <3>3. /\ refresh'[v][0] = [at |-> "fetch", list |-> {}, due |-> {}, seen |-> {}]
          /\ \A t \in Threads(v) \ {0} : refresh'[v][t] = refresh[v][t]
      BY <2>1, <3>1, RefreshStep
    <3>4. /\ DOMAIN refresh' = Verifiers
          /\ \A u \in Verifiers : refresh'[u] \in [Threads(u) -> Refreshes]
      BY <2>1, <3>1, RefreshStepTypes
    <3> QED
      BY <2>2, <3>2, <3>3, <3>4
  <2>3. CASE caller[v].call # "enable"
    BY <1>1, <1>4, <2>3 DEF StopDone, Idle, Callers
  <2> QED
    BY <2>2, <2>3
<1>5. CASE NothingToStop(v)
  <2>1. /\ caller[v].at = "stop" /\ ~running[v] /\ StopDone(v)
        /\ UNCHANGED <<listed, additional, calls, current, running, live, alive>>
    BY <1>5 DEF NothingToStop, CallerAt, MustStop, sets
  <2>2. VerifierTypes(v)'
    BY <1>2, <1>4, <2>1 DEF VerifierTypes
  <2>3. CallPhaseOf(v)'
    <3>1. /\ caller[v] \in Callers /\ live'[v] = {} /\ ~running'[v]
          /\ current'[v] = current[v] /\ calls'[v] = calls[v]
          /\ \A t \in Threads(v) : refresh[v][t].at = "none"
      BY <1>2, <2>1 DEF CallPhaseOf, VerifierTypes
    <3>2. CASE /\ caller[v].call = "enable" /\ caller'[v] = [caller[v] EXCEPT !.at = "refreshing"]
               /\ refresh'[v][0].at = "fetch"
               /\ \A t \in Threads(v) \ {0} : refresh'[v][t] = refresh[v][t]
      BY <1>2, <2>1, <3>1, <3>2 DEF CallPhaseOf, Callers
    <3>3. CASE caller'[v] = Idle /\ UNCHANGED refresh
      <4>1. caller'[v] = Idle /\ Idle.at = "idle" /\ Idle.call = "none"
        BY <3>3 DEF Idle
      <4>2. \A s \in Threads(v) : refresh'[v][s].at = "none"
        BY <3>1, <3>3
      <4>3. current'[v] <= calls'[v]
        BY <1>2, <3>1 DEF CallPhaseOf
      <4> HIDE DEF Idle
      <4> QED
        BY <3>1, <4>1, <4>2, <4>3 DEF CallPhaseOf
    <3> QED
      BY <1>4, <2>1, <3>2, <3>3
  <2> QED
    BY <1>1, <1>4, <2>1, <2>2, <2>3 DEF Domained
<1>6. CASE StopBegins(v)
  <2>1. /\ caller[v].at = "stop" /\ running[v] /\ running'[v] = FALSE
        /\ caller'[v] = [caller[v] EXCEPT !.at = "sending"]
        /\ DOMAIN caller' = Verifiers /\ DOMAIN running' = Verifiers
        /\ UNCHANGED <<listed, additional, calls, current, live, refresh, alive>>
    BY <1>1, <1>6 DEF StopBegins, CallerAt, MustStop, sets
  <2>2. VerifierTypes(v)'
    BY <1>2, <2>1 DEF VerifierTypes, Callers
  <2>3. CallPhaseOf(v)'
    BY <1>2, <2>1 DEF CallPhaseOf, VerifierTypes, Callers
  <2> QED
    BY <1>1, <2>1, <2>2, <2>3 DEF Domained
<1>7. CASE StopReceived(v)
  <2>1. /\ caller[v].at = "sending" /\ refresh[v][current[v]].at = "none" /\ StopDone(v)
        /\ live'[v] = live[v] \ {current[v]} /\ DOMAIN live' = Verifiers
        /\ UNCHANGED <<listed, additional, calls, current, running, alive>>
    BY <1>1, <1>7 DEF StopReceived, CallerAt, Waiting, sets
  <2>2. VerifierTypes(v)'
    BY <1>2, <1>4, <2>1 DEF VerifierTypes
  <2>3. CallPhaseOf(v)'
    <3>1. live'[v] = {} /\ \A t \in Threads(v) : refresh[v][t].at = "none"
      BY <1>2, <2>1 DEF CallPhaseOf
    <3> QED
      BY <1>2, <1>4, <2>1, <3>1 DEF CallPhaseOf, VerifierTypes, Idle, Callers
  <2> QED
    BY <1>1, <1>4, <2>1, <2>2, <2>3 DEF Domained
<1>8. CASE StartSchedule(v)
  <2>1. /\ caller[v].at = "refreshing" /\ refresh[v][0].at = "none"
        /\ current'[v] = current[v] + 1 /\ running'[v] = TRUE
        /\ live'[v] = live[v] \cup {current[v] + 1} /\ caller'[v] = Idle
        /\ DOMAIN caller' = Verifiers /\ DOMAIN running' = Verifiers
        /\ DOMAIN current' = Verifiers /\ DOMAIN live' = Verifiers
        /\ UNCHANGED <<listed, additional, calls, refresh, alive>>
    BY <1>1, <1>8 DEF StartSchedule, CallerAt, sets
  <2>2. live[v] = {} /\ current[v] < calls[v] /\ current[v] \in Nat /\ calls[v] \in 0..MaxCalls[v]
    BY <1>2, <2>1 DEF CallPhaseOf, VerifierTypes, Threads
  <2>3. VerifierTypes(v)'
    BY <1>2, <2>1, <2>2 DEF VerifierTypes, Callers, Idle, Threads
  <2>4. CallPhaseOf(v)'
    BY <1>2, <2>1, <2>2 DEF CallPhaseOf, Idle
  <2> QED
    BY <1>1, <2>1, <2>3, <2>4 DEF Domained
<1>9. CASE AddWrites(v) \/ AddStores(v)
  <2>1. caller[v].domains \in SUBSET Extra /\ caller[v] \in Callers
    BY <1>2 DEF VerifierTypes, Callers
  <2>2. /\ \/ caller[v].at = "write" /\ caller'[v] = [caller[v] EXCEPT !.at = "put"]
           \/ caller[v].at = "put" /\ caller'[v] = Idle
        /\ DOMAIN caller' = Verifiers
        /\ listed' \subseteq Domains /\ additional' \subseteq Extra
        /\ UNCHANGED <<calls, current, running, live, refresh, alive>>
    BY <1>1, <1>9, <2>1 DEF AddWrites, AddStores, CallerAt
  <2>3. VerifierTypes(v)'
    BY <1>2, <2>1, <2>2 DEF VerifierTypes, Callers, Idle
  <2>4. CallPhaseOf(v)'
    BY <1>2, <2>1, <2>2 DEF CallPhaseOf, Idle, Callers
  <2> QED
    BY <1>1, <2>2, <2>3, <2>4 DEF Domained
<1>10. ASSUME CallEnable(v) \/ CallDisable(v) \/ \E d \in Extra : CallAdd(v, d)
       PROVE  goal
  <2>1. CASE CallEnable(v)
    <3>1. Begin(v, "stop", "enable", {}) /\ {} \in SUBSET Extra
      BY <2>1 DEF CallEnable
    <3> QED
      BY <1>3, <3>1
  <2>2. CASE CallDisable(v)
    <3>1. Begin(v, "stop", "disable", {}) /\ {} \in SUBSET Extra
      BY <2>2 DEF CallDisable
    <3> QED
      BY <1>3, <3>1
  <2>3. ASSUME NEW d \in Extra, CallAdd(v, d)
        PROVE  goal
    <3>1. Begin(v, "write", "add", {d}) /\ {d} \in SUBSET Extra
      BY <2>3 DEF CallAdd
    <3> QED
      BY <1>3, <3>1
  <2> QED
    BY <1>10, <2>1, <2>2, <2>3
<1> QED
  BY <1>5, <1>6, <1>7, <1>8, <1>9, <1>10 DEF StepOfCall

-----------------------------------------------------------------------------
(***************************************************************************)
(* Type correctness and the phases of the calls.                           *)
(***************************************************************************)

\* The types and the places of the calls hold at first.
LEMMA InitTypes == Init => TypeOK /\ CallPhase
<1> SUFFICES ASSUME Init PROVE TypeOK /\ CallPhase
  OBVIOUS
<1>1. \A v \in Verifiers : 0 \in Threads(v) /\ MaxCalls[v] \in Nat
  BY DisposableAssumption DEF Threads
<1>2. TypeOK
  BY <1>1, DisposableAssumption DEF Init, TypeOK, NoRefresh, Idle
<1>3. CallPhase
  BY <1>1 DEF Init, CallPhase, NoRefresh, Idle
<1> QED
  BY <1>2, <1>3

\* Every step keeps the types and the places of the calls.
LEMMA NextTypes == TypeOK /\ CallPhase /\ [Next]_vars => TypeOK' /\ CallPhase'
<1> SUFFICES ASSUME TypeOK, CallPhase, [Next]_vars PROVE TypeOK' /\ CallPhase'
  OBVIOUS
<1>1. ASSUME NEW v \in Verifiers, StepOfCall(v)
      PROVE  TypeOK' /\ CallPhase'
  <2>1. ASSUME NEW u \in Verifiers \ {v} PROVE VerifierTypes(u)' /\ CallPhaseOf(u)'
    <3>1. VerifierTypes(u) /\ CallPhaseOf(u)
      BY TypeParts, PhaseParts DEF TypesOfAll
    <3> QED
      BY <1>1, <3>1, CallFrame DEF VerifierTypes, CallPhaseOf
  <2>2. \A u \in Verifiers : VerifierTypes(u)' /\ CallPhaseOf(u)'
    BY <1>1, <2>1, CallMoves
  <2>3. TypesOfAll'
    BY <1>1, <2>2, CallMoves DEF TypesOfAll, TypeOK
  <2> QED
    BY <2>2, <2>3, TypeParts, PhaseParts
<1>2. ASSUME NEW v \in Verifiers, NEW t \in Threads(v), Refresh(v, t)
      PROVE  TypeOK' /\ CallPhase'
  <2>1. UNCHANGED <<additional, caller, calls, current, running, live, alive>>
    BY <1>2, RefreshSets DEF schedule
  <2>2. TypesOfAll'
    BY <1>2, <2>1, TypeParts, RefreshSets DEF TypesOfAll, Domained, VerifierTypes
  <2>3. ASSUME NEW u \in Verifiers, NEW s \in Threads(u)
        PROVE  refresh'[u][s].at # "none" => refresh[u][s].at # "none"
    BY <1>2, RefreshAwake
  <2>4. \A u \in Verifiers : CallPhaseOf(u)'
    BY <2>1, <2>3, PhaseParts DEF CallPhaseOf
  <2> QED
    BY <2>2, <2>4, TypeParts, PhaseParts
<1>3. ASSUME NEW v \in Verifiers, NEW t \in Threads(v), Tick(v, t)
      PROVE  TypeOK' /\ CallPhase'
  <2>1. /\ Goes(v, t, "fetch", {}, {}) /\ t \in live[v]
        /\ UNCHANGED <<listed, additional, caller, calls, current, running, live, alive>>
    BY <1>3 DEF Tick, Waiting, sets, schedule
  <2>2. TypesOfAll'
    <3>1. /\ DOMAIN refresh' = Verifiers
          /\ \A u \in Verifiers : refresh'[u] \in [Threads(u) -> Refreshes]
      BY <2>1, RefreshStepTypes
    <3> QED
      BY <2>1, <3>1, TypeParts DEF TypesOfAll, Domained, VerifierTypes
  <2>3. \A u \in Verifiers : \A s \in Threads(u) :
           (u # v \/ s # t) => refresh'[u][s] = refresh[u][s]
    BY <2>1, RefreshStep
  <2>4. t # 0
    BY <2>1 DEF TypeOK
  <2>5. \A u \in Verifiers : CallPhaseOf(u)'
    BY <2>1, <2>3, <2>4, PhaseParts DEF CallPhaseOf
  <2> QED
    BY <2>2, <2>5, TypeParts, PhaseParts
<1>4. ASSUME UNCHANGED <<sets, caller, calls, schedule, refresh>>, alive' \in {alive, FALSE}
      PROVE  TypeOK' /\ CallPhase'
  BY <1>4 DEF TypeOK, CallPhase, sets, schedule
<1> QED
  BY <1>1, <1>2, <1>3, <1>4, Steps

-----------------------------------------------------------------------------
(***************************************************************************)
(* The refreshes.                                                          *)
(***************************************************************************)

\* What one step of a refresh does to it and to the set.
LEMMA RefreshMoves ==
  ASSUME TypeOK, NEW v \in Verifiers, NEW t \in Threads(v), Refresh(v, t)
  PROVE  LET old == refresh[v][t]
             new == refresh'[v][t]
         IN  \/ /\ old.at = "fetch" /\ new.at = "none" /\ UNCHANGED listed
             \/ /\ old.at = "fetch" /\ new.at = "range" /\ new.list \in Lists
                /\ UNCHANGED listed
             \/ /\ old.at = "range" /\ new.at = "range" /\ new.list = old.list
                /\ \E d \in Domains : listed' \in {listed, listed \ ({d} \ old.list)}
             \/ /\ old.at = "range" /\ new.at = "store" /\ UNCHANGED listed
             \/ /\ old.at = "store" /\ new.at = "store" /\ listed \subseteq listed'
             \/ /\ old.at = "store" /\ new.at = "restore" /\ new.due = additional
                /\ new.seen = {} /\ UNCHANGED listed
             \/ /\ old.at = "restore" /\ new.at = "restore" /\ new.due = old.due
                /\ \E d : new.seen = old.seen \cup {d} /\ listed' = listed \cup {d}
             \/ /\ old.at = "restore" /\ new.at = "none" /\ old.due \subseteq old.seen
                /\ UNCHANGED listed
<1> DEFINE old == refresh[v][t]
           new == refresh'[v][t]
<1>1. old \in Refreshes
  BY RefreshTypes
<1>2. ASSUME NEW d, Saw(v, t, d)
      PROVE  new.at = old.at /\ new.list = old.list /\ new.due = old.due
             /\ new.seen = old.seen \cup {d}
  <2>1. new = [old EXCEPT !.seen = @ \cup {d}]
    BY <1>2, SawStep
  <2> QED
    BY <1>1, <2>1 DEF Refreshes
<1>3. ASSUME NEW place, NEW list, NEW due, Goes(v, t, place, list, due)
      PROVE  new.at = place /\ new.list = list /\ new.due = due /\ new.seen = {}
  <2>1. new = [at |-> place, list |-> list, due |-> due, seen |-> {}]
    BY <1>3, RefreshStep
  <2> QED
    BY <2>1
<1>4. CASE FetchFails(v, t)
  <2>1. Goes(v, t, "none", {}, {})
    BY <1>4 DEF FetchFails, Goes, NoRefresh
  <2> QED
    BY <1>3, <1>4, <2>1 DEF FetchFails, At, sets
<1>5. ASSUME NEW list \in Lists, Fetch(v, t, list)
      PROVE  old.at = "fetch" /\ new.at = "range" /\ new.list \in Lists /\ UNCHANGED listed
  BY <1>3, <1>5 DEF Fetch, At, sets
<1>6. ASSUME NEW d \in Domains, Visit(v, t, d)
      PROVE  /\ old.at = "range" /\ new.at = "range" /\ new.list = old.list
             /\ listed' \in {listed, listed \ ({d} \ old.list)}
  <2>1. listed' = IF d \notin old.list THEN listed \ {d} ELSE listed
    BY <1>6 DEF Visit, Obsolete
  <2>2. old.at = "range" /\ new.at = "range" /\ new.list = old.list
    BY <1>2, <1>6 DEF Visit, At
  <2> QED
    BY <2>1, <2>2
<1>7. CASE RangeEnds(v, t)
  BY <1>3, <1>7 DEF RangeEnds, At, sets
<1>8. ASSUME NEW d \in Domains, Put(v, t, d)
      PROVE  old.at = "store" /\ new.at = "store" /\ listed \subseteq listed'
  BY <1>2, <1>8 DEF Put, At
<1>9. CASE PutsEnd(v, t)
  BY <1>3, <1>9 DEF PutsEnd, At, sets
<1>10. ASSUME NEW d \in Domains, Restore(v, t, d)
       PROVE  /\ old.at = "restore" /\ new.at = "restore" /\ new.due = old.due
              /\ new.seen = old.seen \cup {d} /\ listed' = listed \cup {d}
  BY <1>2, <1>10 DEF Restore, At
<1>11. CASE RestoreEnds(v, t)
  <2>1. Goes(v, t, "none", {}, {})
    BY <1>11 DEF RestoreEnds, Goes, NoRefresh
  <2> QED
    BY <1>3, <1>11, <2>1 DEF RestoreEnds, AllSeen, At, sets
<1> HIDE DEF old, new
<1>12. QED
  BY <1>4, <1>5, <1>6, <1>7, <1>8, <1>9, <1>10, <1>11 DEF Refresh, old, new

\* A refresh leaves the others alone.
LEMMA RefreshAlone ==
  ASSUME TypeOK, NEW v \in Verifiers, NEW t \in Threads(v), Refresh(v, t) \/ Tick(v, t),
         NEW u \in Verifiers, NEW s \in Threads(u), u # v \/ s # t
  PROVE  refresh'[u][s] = refresh[u][s]
<1>1. DOMAIN refresh = Verifiers /\ \A w \in Verifiers : DOMAIN refresh[w] = Threads(w)
  BY DEF TypeOK
<1>2. \E new : refresh' = [refresh EXCEPT ![v][t] = new]
  BY Zenon DEF Refresh, FetchFails, Fetch, Visit, RangeEnds, Put, PutsEnd, Restore,
            RestoreEnds, Goes, Saw, Tick
<1> QED
  BY <1>1, <1>2

\* A step of a call deletes nothing, and starts at most a fetch.
LEMMA CallStores ==
  ASSUME TypeOK, NEW v \in Verifiers, StepOfCall(v)
  PROVE  /\ listed \subseteq listed'
         /\ \A u \in Verifiers : \A s \in Threads(u) :
              refresh'[u][s] = refresh[u][s]
                \/ (u = v /\ s = 0 /\ refresh'[u][s].at = "fetch")
<1>1. 0 \in Threads(v)
  BY DisposableAssumption DEF Threads
<1>2. StopDone(v) => \A u \in Verifiers : \A s \in Threads(u) :
                       refresh'[u][s] = refresh[u][s]
                           \/ (u = v /\ s = 0 /\ refresh'[u][s].at = "fetch")
  <2> SUFFICES ASSUME Goes(v, 0, "fetch", {}, {})
               PROVE  \A u \in Verifiers : \A s \in Threads(u) :
                         refresh'[u][s] = refresh[u][s]
                           \/ (u = v /\ s = 0 /\ refresh'[u][s].at = "fetch")
    BY DEF StopDone
  <2>1. /\ refresh'[v][0] = [at |-> "fetch", list |-> {}, due |-> {}, seen |-> {}]
        /\ \A u \in Verifiers : \A s \in Threads(u) : (u # v \/ s # 0) =>
             refresh'[u][s] = refresh[u][s]
    BY <1>1, RefreshStep
  <2> QED
    BY <2>1
<1>3. CASE NothingToStop(v) \/ StopReceived(v)
  BY <1>2, <1>3 DEF NothingToStop, StopReceived, sets
<1>4. ASSUME UNCHANGED refresh, listed \subseteq listed'
      PROVE  /\ listed \subseteq listed'
             /\ \A u \in Verifiers : \A s \in Threads(u) :
                  refresh'[u][s] = refresh[u][s]
                           \/ (u = v /\ s = 0 /\ refresh'[u][s].at = "fetch")
  BY <1>4
<1>5. CASE CallEnable(v) \/ CallDisable(v) \/ \E d \in Extra : CallAdd(v, d)
  BY <1>4, <1>5 DEF CallEnable, CallDisable, CallAdd, Begin, sets
<1>6. CASE StopBegins(v) \/ StartSchedule(v) \/ AddWrites(v) \/ AddStores(v)
  BY <1>4, <1>6 DEF StopBegins, StartSchedule, AddWrites, AddStores, sets
<1> QED
  BY <1>3, <1>5, <1>6 DEF StepOfCall

-----------------------------------------------------------------------------
(***************************************************************************)
(* What every list holds.                                                  *)
(***************************************************************************)

\* At first no refresh has fetched a list, and the built-in domains are there.
LEMMA InitServed == Init => ListsServed /\ SteadyNeverMissing
  BY DEF Init, ListsServed, SteadyNeverMissing, NoRefresh

\* A refresh ranges over a list that was served, which holds every steady
\* domain, so that it never deletes one.
LEMMA NextServed ==
  TypeOK /\ ListsServed /\ SteadyNeverMissing /\ [Next]_vars =>
    ListsServed' /\ SteadyNeverMissing'
<1> SUFFICES ASSUME TypeOK, ListsServed, SteadyNeverMissing, [Next]_vars
             PROVE  ListsServed' /\ SteadyNeverMissing'
  OBVIOUS
<1>1. ASSUME NEW v \in Verifiers, NEW t \in Threads(v), Refresh(v, t)
      PROVE  ListsServed' /\ SteadyNeverMissing'
  <2>1. ListsServed'
    BY <1>1, RefreshMoves, RefreshAlone DEF ListsServed
  <2>2. SteadyNeverMissing'
    <3> SUFFICES ASSUME NEW d \in BuiltIn, \A list \in Lists : d \in list
                 PROVE  d \in listed'
      BY DEF SteadyNeverMissing
    <3>1. d \in listed
      BY DEF SteadyNeverMissing
    <3>2. refresh[v][t].at = "range" => d \in refresh[v][t].list
      BY DEF ListsServed
    <3> QED
      BY <1>1, <3>1, <3>2, RefreshMoves
  <2> QED
    BY <2>1, <2>2
<1>2. ASSUME NEW v \in Verifiers, NEW t \in Threads(v), Tick(v, t)
      PROVE  ListsServed' /\ SteadyNeverMissing'
  <2>1. refresh'[v][t].at = "fetch" /\ UNCHANGED listed
    <3>1. Goes(v, t, "fetch", {}, {}) /\ UNCHANGED listed
      BY <1>2 DEF Tick, sets
    <3>2. refresh'[v][t] = [at |-> "fetch", list |-> {}, due |-> {}, seen |-> {}]
      BY <3>1, RefreshStep
    <3> QED
      BY <3>1, <3>2
  <2> QED
    BY <1>2, <2>1, RefreshAlone DEF ListsServed, SteadyNeverMissing
<1>3. ASSUME NEW v \in Verifiers, StepOfCall(v)
      PROVE  ListsServed' /\ SteadyNeverMissing'
  BY <1>3, CallStores DEF ListsServed, SteadyNeverMissing
<1>4. ASSUME UNCHANGED <<sets, caller, calls, schedule, refresh>>
      PROVE  ListsServed' /\ SteadyNeverMissing'
  BY <1>4 DEF ListsServed, SteadyNeverMissing, sets
<1> QED
  BY <1>1, <1>2, <1>3, <1>4, Steps

-----------------------------------------------------------------------------
(***************************************************************************)
(* The additional domains.                                                 *)
(***************************************************************************)

\* No additional domain is missing at first, as none was added.
LEMMA InitMissing == Init => MissingPhase
  BY DEF Init, MissingPhase

\* A domain somebody will yet store is stored, or somebody still will.
LEMMA NextMissing ==
  TypeOK /\ CallPhase /\ MissingPhase /\ [Next]_vars => MissingPhase'
<1> SUFFICES ASSUME TypeOK, CallPhase, MissingPhase, [Next]_vars,
                    NEW d \in additional' \ listed'
             PROVE  WillBeStored(d)'
  BY DEF MissingPhase
<1>1. ASSUME NEW v \in Verifiers, NEW t \in Threads(v), Refresh(v, t)
      PROVE  WillBeStored(d)'
  <2>1. UNCHANGED <<additional, caller>>
    BY <1>1, RefreshSets
  <2>2. CASE d \in listed
    <3>1. refresh'[v][t].at = "range"
      BY <1>1, <2>2, RefreshMoves
    <3> QED
      BY <3>1 DEF WillBeStored
  <2>3. CASE d \notin listed
    <3>1. WillBeStored(d)
      BY <2>1, <2>3 DEF MissingPhase
    <3>2. CASE \E u \in Verifiers : caller[u].at = "put" /\ d \in caller[u].domains
      BY <2>1, <3>2 DEF WillBeStored
    <3>3. ASSUME NEW u \in Verifiers, NEW s \in Threads(u), u # v \/ s # t,
                 \/ refresh[u][s].at \in {"range", "store"}
                 \/ refresh[u][s].at = "restore"
                    /\ d \in refresh[u][s].due \ refresh[u][s].seen
          PROVE  WillBeStored(d)'
      <4>1. refresh'[u][s] = refresh[u][s]
        BY <1>1, <3>3, RefreshAlone
      <4> QED
        BY <3>3, <4>1 DEF WillBeStored
    <3>4. CASE refresh[v][t].at \in {"range", "store"}
      <4>1. \/ refresh'[v][t].at \in {"range", "store"}
            \/ refresh'[v][t].at = "restore" /\ refresh'[v][t].due = additional
               /\ refresh'[v][t].seen = {}
        BY <1>1, <3>4, RefreshMoves
      <4> QED
        BY <2>1, <4>1 DEF WillBeStored
    <3>5. CASE refresh[v][t].at = "restore" /\ d \in refresh[v][t].due \ refresh[v][t].seen
      <4>1. refresh'[v][t].at = "restore" /\ d \in refresh'[v][t].due \ refresh'[v][t].seen
        BY <1>1, <3>5, RefreshMoves
      <4> QED
        BY <4>1 DEF WillBeStored
    <3> QED
      BY <3>1, <3>2, <3>3, <3>4, <3>5 DEF WillBeStored
  <2> QED
    BY <2>2, <2>3
<1>2. ASSUME NEW v \in Verifiers, NEW t \in Threads(v), Tick(v, t)
      PROVE  WillBeStored(d)'
  <2>1. refresh[v][t].at = "none" /\ UNCHANGED <<listed, additional, caller>>
    BY <1>2 DEF Tick, Waiting, sets
  <2>2. WillBeStored(d)
    BY <2>1 DEF MissingPhase
  <2>3. ASSUME NEW u \in Verifiers, NEW s \in Threads(u), refresh[u][s].at # "none"
        PROVE  refresh'[u][s] = refresh[u][s]
    BY <1>2, <2>1, <2>3, RefreshAlone
  <2> QED
    BY <2>1, <2>2, <2>3 DEF WillBeStored
<1>3. ASSUME NEW v \in Verifiers, StepOfCall(v)
      PROVE  WillBeStored(d)'
  <2>1. CASE AddWrites(v)
    <3>1. /\ additional' = additional \cup caller[v].domains
          /\ caller'[v] = [caller[v] EXCEPT !.at = "put"] /\ caller[v] \in Callers
          /\ UNCHANGED <<listed, refresh>>
      BY <2>1, TypeParts DEF AddWrites, CallerAt, TypesOfAll, Domained, VerifierTypes
    <3>2. CASE d \in caller[v].domains
      BY <3>1, <3>2 DEF WillBeStored, Callers
    <3>3. CASE d \notin caller[v].domains
      <4>1. WillBeStored(d) /\ caller[v].at = "write"
        BY <2>1, <3>1, <3>3 DEF MissingPhase, AddWrites, CallerAt
      <4>2. \A u \in Verifiers : caller[u].at = "put" => caller'[u] = caller[u]
        BY <1>3, <4>1, CallFrame
      <4> QED
        BY <3>1, <4>1, <4>2 DEF WillBeStored
    <3> QED
      BY <3>2, <3>3
  <2>2. CASE ~AddWrites(v)
    <3>1. additional' = additional /\ listed \subseteq listed'
      BY <1>3, <2>2, CallStores DEF StepOfCall, CallEnable, CallDisable, CallAdd, Begin,
         NothingToStop, StopBegins, StopReceived, StartSchedule, AddStores, sets
    <3>2. WillBeStored(d)
      BY <3>1 DEF MissingPhase
    <3>3. ASSUME NEW u \in Verifiers, caller[u].at = "put", d \in caller[u].domains
          PROVE  caller'[u] = caller[u]
      <4>1. CASE u # v
        BY <1>3, <4>1, CallFrame
      <4>2. CASE u = v
        <5>1. ~(StepOfCall(v) /\ ~AddStores(v))
          BY <2>2, <3>3, <4>2, PhaseParts
             DEF StepOfCall, CallEnable, CallDisable, CallAdd, Begin, Idle, NothingToStop,
                 StopBegins, StopReceived, StartSchedule, CallerAt
        <5>2. d \in listed'
          BY <1>3, <3>3, <4>2, <5>1 DEF AddStores
        <5> QED
          BY <5>2
      <4> QED
        BY <4>1, <4>2
    <3>4. ASSUME NEW u \in Verifiers, NEW s \in Threads(u),
                 refresh[u][s].at \in {"range", "store", "restore"}
          PROVE  refresh'[u][s] = refresh[u][s]
      <4>1. refresh'[u][s] = refresh[u][s] \/ (u = v /\ s = 0)
        BY <1>3, CallStores
      <4>2. CASE u = v /\ s = 0
        <5>1. caller[v].at = "refreshing"
          BY <3>4, <4>2, PhaseParts DEF CallPhaseOf
        <5>2. UNCHANGED refresh
          BY <1>3, <5>1 DEF StepOfCall, CallEnable, CallDisable, CallAdd, Begin, Idle,
             NothingToStop, StopBegins, StopReceived, StartSchedule, AddWrites, AddStores,
             CallerAt
        <5> QED
          BY <5>2
      <4> QED
        BY <4>1, <4>2
    <3> QED
      BY <3>2, <3>3, <3>4 DEF WillBeStored
  <2> QED
    BY <2>1, <2>2
<1>4. ASSUME UNCHANGED <<sets, caller, calls, schedule, refresh>>
      PROVE  WillBeStored(d)'
  BY <1>4 DEF MissingPhase, WillBeStored, sets
<1> QED
  BY <1>1, <1>2, <1>3, <1>4, Steps

-----------------------------------------------------------------------------
(***************************************************************************)
(* The inductive invariant, and what follows from it.                      *)
(***************************************************************************)

\* In every reachable state each caller stands where its call and its schedule
\* say, refreshes go by lists the source serves, and whatever additional domain
\* is missing will be stored.
THEOREM Invariance == Spec => []DisposableInv
<1>1. Init => DisposableInv
  BY InitTypes, InitServed, InitMissing DEF DisposableInv
<1>2. DisposableInv /\ [Next]_vars => DisposableInv'
  BY NextTypes, NextServed, NextMissing DEF DisposableInv
<1> QED
  BY <1>1, <1>2, PTL DEF Spec

\* The sets, the calls, the schedules and the refreshes keep their types.
THEOREM TypeCorrect == Spec => []TypeOK
<1>1. DisposableInv => TypeOK
  BY DEF DisposableInv
<1> QED
  BY <1>1, Invariance, PTL

\* A built-in domain that every list of the source holds is found at every
\* moment, however many refreshes overlap.
THEOREM SteadyStays == Spec => []SteadyNeverMissing
<1>1. DisposableInv => SteadyNeverMissing
  BY DEF DisposableInv
<1> QED
  BY <1>1, Invariance, PTL

\* When nothing is under way every additional domain is listed.
THEOREM AdditionalAreListed == Spec => []AdditionalReturn
<1>1. DisposableInv => AdditionalReturn
  <2> SUFFICES ASSUME DisposableInv, NEW d \in additional \ listed,
                      \A v \in Verifiers : caller[v].call # "add",
                      \A v \in Verifiers : \A t \in Threads(v) : refresh[v][t].at = "none"
               PROVE  FALSE
    BY DEF AdditionalReturn
  <2>1. WillBeStored(d)
    BY DEF DisposableInv, MissingPhase
  <2>2. \A v \in Verifiers : caller[v].at # "put"
    BY PhaseParts DEF DisposableInv, CallPhaseOf
  <2> QED
    BY <2>1, <2>2 DEF WillBeStored
<1> QED
  BY <1>1, Invariance, PTL

\* A verifier has one schedule at most, and none when Disable has returned.
THEOREM ScheduleIsSingle == Spec => []OneScheduleEach
<1>1. DisposableInv => OneScheduleEach
  BY PhaseParts DEF DisposableInv, CallPhaseOf, OneScheduleEach
<1> QED
  BY <1>1, Invariance, PTL
=============================================================================
