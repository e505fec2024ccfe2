----------------------------- MODULE Disposable -----------------------------
(***************************************************************************)
(* The set of disposable domains and its automatic update: one global      *)
(* concurrent map that every verifier of the process reads, refreshed from *)
(* a list on the web by the caller of EnableAutoUpdateDisposable and by a  *)
(* goroutine per enabled verifier, and extended by AddDisposableDomains.   *)
(*                                                                         *)
(* The map has no lock around a refresh: each Delete and each Store is a   *)
(* step.  Each verifier is configured by one goroutine, its caller, whose  *)
(* calls follow one another; the callers of different verifiers run        *)
(* concurrently.  A call with several domains is as many calls with one.   *)
(***************************************************************************)
EXTENDS Naturals, FiniteSets

CONSTANTS
    Verifiers,   \* the verifiers of the process
    Domains,     \* the domains
    BuiltIn,     \* the domains compiled into the program
    Extra,       \* the domains users of the library add
    Lists,       \* the lists the source serves at one time or another
    MaxCalls     \* MaxCalls[v]: bound on the calls v's caller makes

ASSUME DisposableAssumption ==
    /\ BuiltIn \subseteq Domains
    /\ Extra \subseteq Domains
    /\ Lists \subseteq SUBSET Domains
    /\ MaxCalls \in [Verifiers -> Nat]

VARIABLES
    listed,      \* disposableSyncDomains
    additional,  \* additionalDisposableDomains
    caller,      \* caller[v]: where the caller of v stands in which call
    calls,       \* calls[v]: how many calls it has made
    current,     \* current[v]: the schedule v.schedule points to, 0 for nil
    running,     \* running[v]: its running flag
    live,        \* live[v]: the schedules of v whose goroutine runs
    refresh,     \* refresh[v][t]: the refresh thread t of v is in
    alive        \* the process has not crashed

sets     == <<listed, additional>>
schedule == <<current, running, live>>
vars == <<sets, caller, calls, schedule, refresh, alive>>

\* Thread 0 of a verifier is its caller, thread n the goroutine of its n-th
\* schedule.
Threads(v) == 0..MaxCalls[v]

NoRefresh == [at |-> "none", list |-> {}, due |-> {}, seen |-> {}]

Idle == [at |-> "idle", call |-> "none", domains |-> {}]

TypeOK ==
    /\ listed \subseteq Domains
    /\ additional \subseteq Extra
    /\ {DOMAIN caller, DOMAIN calls, DOMAIN current, DOMAIN running, DOMAIN live,
        DOMAIN refresh} \subseteq {Verifiers}
    /\ \A v \in Verifiers :
         /\ caller[v] \in [at: {"idle", "stop", "sending", "refreshing", "write", "put"},
                           call: {"none", "enable", "disable", "add"},
                           domains: SUBSET Extra]
         /\ calls[v] \in 0..MaxCalls[v]
         /\ current[v] \in Threads(v)
         /\ running[v] \in BOOLEAN
         /\ live[v] \subseteq Threads(v) \ {0}
         /\ refresh[v] \in [Threads(v) ->
                [at: {"none", "fetch", "range", "store", "restore"},
                 list: SUBSET Domains, due: SUBSET Domains, seen: SUBSET Domains]]
    /\ alive \in BOOLEAN

\* The package's init has stored the built-in domains.
Init ==
    /\ listed = BuiltIn
    /\ additional = {}
    /\ caller = [v \in Verifiers |-> Idle]
    /\ calls = [v \in Verifiers |-> 0]
    /\ current = [v \in Verifiers |-> 0]
    /\ running = [v \in Verifiers |-> FALSE]
    /\ live = [v \in Verifiers |-> {}]
    /\ refresh = [v \in Verifiers |-> [t \in Threads(v) |-> NoRefresh]]
    /\ alive = TRUE

-----------------------------------------------------------------------------
(***************************************************************************)
(* updateDisposableDomains, in thread t of v.                              *)
(***************************************************************************)

At(v, t, place) == alive /\ refresh[v][t].at = place

Goes(v, t, place, list, due) ==
    refresh' = [refresh EXCEPT ![v][t] =
                  [at |-> place, list |-> list, due |-> due, seen |-> {}]]

Saw(v, t, d) == refresh' = [refresh EXCEPT ![v][t].seen = @ \cup {d}]

\* What Range, over either map, may still visit: each key that was there when
\* it began, and perhaps a key stored since.
Unseen(v, t, map) == (refresh[v][t].due \cup map) \ refresh[v][t].seen

AllSeen(v, t) == refresh[v][t].due \subseteq refresh[v][t].seen

\* The request fails or times out, the status is not 200, or the body is empty
\* or no list: nothing changes.  (A body of null is a list, the empty one.)
FetchFails(v, t) ==
    /\ At(v, t, "fetch")
    /\ refresh' = [refresh EXCEPT ![v][t] = NoRefresh]
    /\ UNCHANGED <<sets, caller, calls, schedule, alive>>

Fetch(v, t, list) ==
    /\ At(v, t, "fetch")
    /\ Goes(v, t, "range", list, listed)
    /\ UNCHANGED <<sets, caller, calls, schedule, alive>>

\* Bug: the old entries are cleared, also those the new list holds.
Obsolete_all(d, list) == TRUE

Obsolete(d, list) == d \notin list

\* Range visits d and deletes it when the new list lacks it.
Visit(v, t, d) ==
    /\ At(v, t, "range")
    /\ d \in Unseen(v, t, listed)
    /\ listed' = IF Obsolete(d, refresh[v][t].list) THEN listed \ {d} ELSE listed
    /\ Saw(v, t, d)
    /\ UNCHANGED <<additional, caller, calls, schedule, alive>>

RangeEnds(v, t) ==
    /\ At(v, t, "range")
    /\ AllSeen(v, t)
    /\ Goes(v, t, "store", refresh[v][t].list, refresh[v][t].list)
    /\ UNCHANGED <<sets, caller, calls, schedule, alive>>

\* Bug: the new list is stored through AddDisposableDomains.
Put_asAdditional(v, t, d) ==
    /\ At(v, t, "store")
    /\ d \in refresh[v][t].due \ refresh[v][t].seen
    /\ listed' = listed \cup {d}
    /\ additional' = additional \cup {d}
    /\ Saw(v, t, d)
    /\ UNCHANGED <<caller, calls, schedule, alive>>

\* The domains of the new list are stored one by one.
Put(v, t, d) ==
    /\ At(v, t, "store")
    /\ d \in refresh[v][t].due \ refresh[v][t].seen
    /\ listed' = listed \cup {d}
    /\ Saw(v, t, d)
    /\ UNCHANGED <<additional, caller, calls, schedule, alive>>

PutsEnd(v, t) ==
    /\ At(v, t, "store")
    /\ AllSeen(v, t)
    /\ Goes(v, t, "restore", {}, additional)
    /\ UNCHANGED <<sets, caller, calls, schedule, alive>>

\* The additional domains are stored again, in the order of a map's range.
Restore(v, t, d) ==
    /\ At(v, t, "restore")
    /\ d \in Unseen(v, t, additional)
    /\ listed' = listed \cup {d}
    /\ Saw(v, t, d)
    /\ UNCHANGED <<additional, caller, calls, schedule, alive>>

RestoreEnds(v, t) ==
    /\ At(v, t, "restore")
    /\ AllSeen(v, t)
    /\ refresh' = [refresh EXCEPT ![v][t] = NoRefresh]
    /\ UNCHANGED <<sets, caller, calls, schedule, alive>>

Refresh(v, t) ==
    \/ FetchFails(v, t)
    \/ \E list \in Lists : Fetch(v, t, list)
    \/ \E d \in Domains : Visit(v, t, d) \/ Put(v, t, d) \/ Restore(v, t, d)
    \/ RangeEnds(v, t)
    \/ PutsEnd(v, t)
    \/ RestoreEnds(v, t)

-----------------------------------------------------------------------------
(***************************************************************************)
(* The schedule.                                                           *)
(***************************************************************************)

\* The goroutine waits in its select.
Waiting(v, t) == t \in live[v] /\ refresh[v][t].at = "none"

\* The ticker fires and the goroutine takes it.
Tick(v, t) ==
    /\ alive
    /\ Waiting(v, t)
    /\ Goes(v, t, "fetch", {}, {})
    /\ UNCHANGED <<sets, caller, calls, schedule, alive>>

-----------------------------------------------------------------------------
(***************************************************************************)
(* The calls of a verifier's caller.                                       *)
(***************************************************************************)

Begin(v, place, call, domains) ==
    /\ alive
    /\ caller[v] = Idle
    /\ calls[v] < MaxCalls[v]
    /\ calls' = [calls EXCEPT ![v] = @ + 1]
    /\ caller' = [caller EXCEPT ![v] = [at |-> place, call |-> call, domains |-> domains]]
    /\ UNCHANGED <<sets, schedule, refresh, alive>>

CallEnable(v) == Begin(v, "stop", "enable", {})

CallDisable(v) == Begin(v, "stop", "disable", {})

CallAdd(v, d) == Begin(v, "write", "add", {d})

CallerAt(v, place) == alive /\ caller[v].at = place

\* stopCurrentSchedule is over: Enable fetches a list, Disable returns.
StopDone(v) ==
    IF caller[v].call = "enable"
    THEN /\ caller' = [caller EXCEPT ![v].at = "refreshing"]
         /\ Goes(v, 0, "fetch", {}, {})
    ELSE /\ caller' = [caller EXCEPT ![v] = Idle]
         /\ UNCHANGED refresh

\* Bug: a schedule that has been stopped is stopped again.
MustStop_again(v) == current[v] # 0

\* There is a schedule and it has not been stopped yet.
MustStop(v) == running[v]

NothingToStop(v) ==
    /\ CallerAt(v, "stop")
    /\ ~MustStop(v)
    /\ StopDone(v)
    /\ UNCHANGED <<sets, calls, schedule, alive>>

StopBegins(v) ==
    /\ CallerAt(v, "stop")
    /\ MustStop(v)
    /\ running' = [running EXCEPT ![v] = FALSE]
    /\ caller' = [caller EXCEPT ![v].at = "sending"]
    /\ UNCHANGED <<sets, calls, current, live, refresh, alive>>

\* Bug: a send that gives up when the goroutine does not wait.
StopReceived_orSkipped(v) ==
    /\ CallerAt(v, "sending")
    /\ live' = [live EXCEPT ![v] = IF Waiting(v, current[v]) THEN @ \ {current[v]} ELSE @]
    /\ StopDone(v)
    /\ UNCHANGED <<sets, calls, current, running, alive>>

\* The unbuffered stop channel: sender and goroutine meet in its select.
StopReceived(v) ==
    /\ CallerAt(v, "sending")
    /\ Waiting(v, current[v])
    /\ live' = [live EXCEPT ![v] = @ \ {current[v]}]
    /\ StopDone(v)
    /\ UNCHANGED <<sets, calls, current, running, alive>>

\* Enable's own refresh is over, whatever came of it: a new schedule starts.
StartSchedule(v) ==
    /\ CallerAt(v, "refreshing")
    /\ refresh[v][0].at = "none"
    /\ current' = [current EXCEPT ![v] = @ + 1]
    /\ running' = [running EXCEPT ![v] = TRUE]
    /\ live' = [live EXCEPT ![v] = @ \cup {current[v] + 1}]
    /\ caller' = [caller EXCEPT ![v] = Idle]
    /\ UNCHANGED <<sets, calls, refresh, alive>>

\* AddDisposableDomains: first the plain map, then the concurrent one.
AddWrites(v) ==
    /\ CallerAt(v, "write")
    /\ additional' = additional \cup caller[v].domains
    /\ caller' = [caller EXCEPT ![v].at = "put"]
    /\ UNCHANGED <<listed, calls, schedule, refresh, alive>>

AddStores(v) ==
    /\ CallerAt(v, "put")
    /\ listed' = listed \cup caller[v].domains
    /\ caller' = [caller EXCEPT ![v] = Idle]
    /\ UNCHANGED <<additional, calls, schedule, refresh, alive>>

\* Bug: first the concurrent map, then the plain one.
Add_storesFirst(v) ==
    \/ /\ CallerAt(v, "write")
       /\ listed' = listed \cup caller[v].domains
       /\ caller' = [caller EXCEPT ![v].at = "put"]
       /\ UNCHANGED <<additional, calls, schedule, refresh, alive>>
    \/ /\ CallerAt(v, "put")
       /\ additional' = additional \cup caller[v].domains
       /\ caller' = [caller EXCEPT ![v] = Idle]
       /\ UNCHANGED <<listed, calls, schedule, refresh, alive>>

Add(v) == AddWrites(v) \/ AddStores(v)

\* The plain map is written without a lock: a write that overlaps another write
\* or a range over it may go through, or may end the process.
Racing(v) ==
    /\ CallerAt(v, "write")
    /\ \/ \E u \in Verifiers \ {v} : caller[u].at = "write"
       \/ \E u \in Verifiers : \E t \in Threads(u) : refresh[u][t].at = "restore"

RaceCrash ==
    /\ \E v \in Verifiers : Racing(v)
    /\ alive' = FALSE
    /\ UNCHANGED <<sets, caller, calls, schedule, refresh>>

-----------------------------------------------------------------------------
\* The steps of a call that has begun, but for the one that meets the goroutine.
CallGoesOn(v) ==
    NothingToStop(v) \/ StopBegins(v) \/ StartSchedule(v) \/ Add(v)

\* No caller has a call left and nothing is under way: the goroutines that run
\* wait for the next day.  Or the process has crashed.
Settled ==
    /\ alive => \A v \in Verifiers : caller[v] = Idle /\ calls[v] = MaxCalls[v]
    /\ UNCHANGED vars

Next ==
    \/ \E v \in Verifiers : \E t \in Threads(v) : Refresh(v, t) \/ Tick(v, t)
    \/ \E v \in Verifiers :
          \/ CallEnable(v)
          \/ CallDisable(v)
          \/ \E d \in Extra : CallAdd(v, d)
          \/ CallGoesOn(v)
          \/ StopReceived(v)
    \/ RaceCrash
    \/ Settled

(***************************************************************************)
(* Goroutines are scheduled and a fetch ends within its five seconds.  The *)
(* goroutine of a schedule waits in its select again and again, but not    *)
(* continuously; Go's select takes one of the ready cases at random, and   *)
(* the next tick is a day away, so that a stop that is offered at every    *)
(* wait is taken at some wait: strong fairness.  Nobody has to call.       *)
(***************************************************************************)
Fairness ==
    /\ \A v \in Verifiers : \A t \in Threads(v) : WF_vars(Refresh(v, t))
    /\ \A v \in Verifiers : WF_vars(CallGoesOn(v)) /\ SF_vars(StopReceived(v))

Spec == Init /\ [][Next]_vars /\ Fairness

-----------------------------------------------------------------------------
(***************************************************************************)
(* Properties.                                                             *)
(***************************************************************************)

\* A domain that is built in and in every list the source serves is found at
\* every moment, in the middle of refreshes as well: a refresh deletes only
\* what its list lacks (updateDisposableDomains).
SteadyNeverMissing ==
    \A d \in BuiltIn : (\A list \in Lists : d \in list) => d \in listed

\* Once no refresh and no call of AddDisposableDomains is under way, every
\* additional domain is listed, whatever refreshes and additions overlapped:
\* a refresh that deleted one stores it again, and a domain a refresh did not
\* see among the additional ones is stored after it was deleted.
AdditionalReturn ==
    (/\ \A v \in Verifiers : caller[v].call # "add"
     /\ \A v \in Verifiers : \A t \in Threads(v) : refresh[v][t].at = "none")
    => additional \subseteq listed

\* A verifier has one schedule at most, the current one, and when Disable has
\* returned it has none, and no refresh of its own is under way any more: stop
\* waits for the goroutine, in the middle of a job as well.
OneScheduleEach ==
    \A v \in Verifiers :
        /\ live[v] \subseteq {current[v]}
        /\ caller[v].at = "idle" => live[v] = IF running[v] THEN {current[v]} ELSE {}
        /\ \A t \in Threads(v) : refresh[v][t].at # "none" =>
             IF t = 0 THEN caller[v].at = "refreshing" ELSE t \in live[v]

\* Every call returns, unless the process crashes: also a stop that finds the
\* goroutine in the middle of a refresh.
CallsEnd == \A v \in Verifiers : caller[v].at # "idle" ~> caller[v].at = "idle" \/ ~alive

\* The parts of the inductive invariant that are not properties of their own:
\* where a caller stands in which call and what that says of its schedule; that
\* a refresh deletes by a list the source serves; and who will yet store an
\* additional domain that is not listed.
CallPhase ==
    \A v \in Verifiers :
        /\ caller[v].at = "idle" => caller[v] = Idle
        /\ caller[v].at \in {"stop", "sending"} => caller[v].call \in {"enable", "disable"}
        /\ caller[v].at = "refreshing" => caller[v].call = "enable"
        /\ caller[v].at \in {"write", "put"} => caller[v].call = "add"
        /\ current[v] <= calls[v]
        /\ caller[v].call = "enable" => current[v] < calls[v]
        /\ caller[v].at \in {"sending", "refreshing"} => ~running[v]
        /\ live[v] = IF running[v] \/ caller[v].at = "sending" THEN {current[v]} ELSE {}
        /\ \A t \in Threads(v) : refresh[v][t].at # "none" =>
             IF t = 0 THEN caller[v].at = "refreshing" ELSE t \in live[v]

ListsServed ==
    \A v \in Verifiers : \A t \in Threads(v) :
        refresh[v][t].at = "range" => refresh[v][t].list \in Lists

WillBeStored(d) ==
    \/ \E v \in Verifiers : caller[v].at = "put" /\ d \in caller[v].domains
    \/ \E v \in Verifiers : \E t \in Threads(v) :
          \/ refresh[v][t].at \in {"range", "store"}
          \/ refresh[v][t].at = "restore" /\ d \in refresh[v][t].due \ refresh[v][t].seen

MissingPhase == \A d \in additional \ listed : WillBeStored(d)

DisposableInv ==
    TypeOK /\ CallPhase /\ ListsServed /\ SteadyNeverMissing /\ MissingPhase
=============================================================================
