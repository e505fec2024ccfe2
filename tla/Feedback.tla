------------------------------ MODULE Feedback ------------------------------
(***************************************************************************)
(* The feedback loop: mails are sent through a provider, the provider      *)
(* notifies the server of what became of them, the adapters turn each      *)
(* notification into one event per recipient, the store adds the events up *)
(* per domain, and the tally of a domain moves the score of its addresses. *)
(*                                                                         *)
(* The provider and its notification service are external: notifications   *)
(* come in any order, may come twice and may be lost.  A handler records   *)
(* its events one by one, each under the lock of the store, so that the    *)
(* events of concurrent handlers interleave.  The store is in memory: a    *)
(* restart empties it.  Authentication and the shape of the payloads are   *)
(* left out: a body that is refused or makes no event changes nothing.     *)
(***************************************************************************)
EXTENDS Classify

CONSTANTS
    Mails,      \* the mails that are sent
    Addresses,  \* their recipients
    To,         \* To[m]: the recipients of mail m
    Via,        \* Via[m]: the provider of mail m, "ses" or "smartlead"
    MaxDelays,  \* MaxDelays[m][a]: bound on the transient bounces of m for a
    Noticed,    \* bound: the mails a recipient may open or complain about
    Domains,    \* the domains
    NoDomain,   \* what domainOf returns when an address has none
    DomainOf,   \* DomainOf[a]: what domainOf returns for a
    Scores,     \* the scores addresses have before the history is applied
    CatchAlls,  \* the catch-all results they may come with
    Handlers,   \* the handlers that can run at the same time
    MaxWire,    \* bound on the notifications on their way at the same time
    MaxFaults   \* bound on lost and repeated notifications and restarts

ASSUME FeedbackAssumption ==
    /\ To \in [Mails -> SUBSET Addresses]
    /\ \A m \in Mails : IsFiniteSet(To[m])
    /\ Via \in [Mails -> {"ses", "smartlead"}]
    \* An event of Smartlead names one recipient.
    /\ \A m \in Mails : Via[m] = "smartlead" => \A a, b \in To[m] : a = b
    /\ MaxDelays \in [Mails -> [Addresses -> Nat]]
    /\ Noticed \subseteq Mails
    /\ NoDomain \notin Domains
    /\ DomainOf \in [Addresses -> Domains \cup {NoDomain}]
    /\ Scores \subseteq 0..100
    /\ CatchAlls \subseteq {"confirmed", "not_catch_all", "unknown", "not_checked"}
    /\ MaxWire \in Nat
    /\ MaxFaults \in Nat

VARIABLES
    fate,     \* fate[m][a]: what became of mail m for recipient a
    delays,   \* delays[m][a]: how often mail m bounced transiently for a
    wire,     \* the notifications on their way
    handler,  \* handler[h]: the type of its events and who is left to record
    tally,    \* tally[d]: the tally of the store, all zero without an entry
    faults    \* how many notifications were lost or repeated, and restarts

vars == <<fate, delays, wire, handler, tally, faults>>

Types == {"delivered", "bounced", "complained", "engaged"}

Notices == {"send", "delivery", "bounce", "transient", "complaint", "open"}

Notifications == [mail: Mails, kind: Notices, to: SUBSET Addresses]

Free == [event |-> "none", left |-> {}]

NoTally == [type \in Types |-> 0]

\* A mail that is "returned" was delivered and bounced afterwards.
Fates == {"unsent", "pending", "bounced", "delivered", "returned", "complained", "engaged"}

TypeOK ==
    /\ fate \in [Mails -> [Addresses -> Fates]]
    /\ delays \in [Mails -> [Addresses -> Nat]]
    /\ wire \subseteq Notifications
    /\ handler \in [Handlers -> [event: Types \cup {"none"}, left: SUBSET Addresses]]
    /\ tally \in [Domains -> [Types -> Nat]]
    /\ faults \in 0..MaxFaults

Init ==
    /\ fate = [m \in Mails |-> [a \in Addresses |-> "unsent"]]
    /\ delays = [m \in Mails |-> [a \in Addresses |-> 0]]
    /\ wire = {}
    /\ handler = [h \in Handlers |-> Free]
    /\ tally = [d \in Domains |-> NoTally]
    /\ faults = 0

-----------------------------------------------------------------------------
(***************************************************************************)
(* The provider.                                                           *)
(***************************************************************************)

Notify(m, kind, to) ==
    /\ Cardinality(wire) < MaxWire
    /\ wire' = wire \cup {[mail |-> m, kind |-> kind, to |-> to]}

Becomes(m, to, what) ==
    fate' = [fate EXCEPT ![m] = [a \in Addresses |-> IF a \in to THEN what ELSE @[a]]]

\* The provider accepts the mail for its recipients.
Send(m) ==
    /\ \A a \in To[m] : fate[m][a] = "unsent"
    /\ To[m] # {}
    /\ Becomes(m, To[m], "pending")
    /\ Notify(m, "send", To[m])
    /\ UNCHANGED <<delays, handler, tally, faults>>

Having(m, what) == {a \in To[m] : fate[m][a] = what}

\* A delivery or a permanent bounce settles some of the recipients.
Settle(m, to, kind) ==
    /\ to \subseteq Having(m, "pending") /\ to # {}
    /\ Becomes(m, to, IF kind = "delivery" THEN "delivered" ELSE "bounced")
    /\ Notify(m, kind, to)
    /\ UNCHANGED <<delays, handler, tally, faults>>

\* A mail that was delivered bounces after all.
Return(m, to) ==
    /\ to \subseteq Having(m, "delivered") /\ to # {}
    /\ Becomes(m, to, "returned")
    /\ Notify(m, "bounce", to)
    /\ UNCHANGED <<delays, handler, tally, faults>>

\* A transient bounce settles nothing.
Delay(m, to) ==
    /\ to \subseteq Having(m, "pending") /\ to # {}
    /\ \A a \in to : delays[m][a] < MaxDelays[m][a]
    /\ delays' = [delays EXCEPT ![m] = [a \in Addresses |-> @[a] + IF a \in to THEN 1 ELSE 0]]
    /\ Notify(m, "transient", to)
    /\ UNCHANGED <<fate, handler, tally, faults>>

\* A recipient opens the mail or complains about it.  (SES names every
\* destination of the mail that was opened, the model the one who opened it:
\* engagement moves no score.)
React(m, a, kind) ==
    /\ m \in Noticed
    /\ a \in Having(m, "delivered")
    /\ Becomes(m, {a}, IF kind = "complaint" THEN "complained" ELSE "engaged")
    /\ Notify(m, kind, {a})
    /\ UNCHANGED <<delays, handler, tally, faults>>

\* A notification is lost for good.
Lose(n) ==
    /\ faults < MaxFaults
    /\ n \in wire
    /\ wire' = wire \ {n}
    /\ faults' = faults + 1
    /\ UNCHANGED <<fate, delays, handler, tally>>

-----------------------------------------------------------------------------
(***************************************************************************)
(* The adapters and the store.                                             *)
(***************************************************************************)

\* Bug: every bounce counts.
EventOf_anyBounce(via, kind) ==
    CASE kind \in {"bounce", "transient"} -> "bounced"
      [] kind = "complaint" /\ via = "ses" -> "complained"
      [] kind \in {"delivery", "send"} -> "delivered"
      [] kind = "open" -> "engaged"
      [] OTHER -> "none"

\* The event type an adapter makes of a notification; "none" is dropped.  Only
\* SES says whether a bounce is permanent and reports complaints; the adapter
\* of Smartlead records every bounce it is told of.
EventOf(via, kind) ==
    CASE kind = "bounce" \/ (kind = "transient" /\ via = "smartlead") -> "bounced"
      [] kind = "complaint" /\ via = "ses" -> "complained"
      [] kind \in {"delivery", "send"} -> "delivered"
      [] kind = "open" -> "engaged"
      [] OTHER -> "none"

\* A handler takes a notification; a repeated one stays on the wire.
Receive(h, n, again) ==
    LET event == EventOf(Via[n.mail], n.kind) IN
    /\ handler[h] = Free
    /\ n \in wire
    /\ IF again
       THEN faults < MaxFaults /\ faults' = faults + 1 /\ UNCHANGED wire
       ELSE wire' = wire \ {n} /\ UNCHANGED faults
    /\ handler' = IF event = "none" THEN handler
                  ELSE [handler EXCEPT ![h] = [event |-> event, left |-> n.to]]
    /\ UNCHANGED <<fate, delays, tally>>

\* Store.Record for one recipient; after the last the handler answers 202.
Record(h, a) ==
    LET d == DomainOf[a]
        left == handler[h].left \ {a}
    IN
    /\ a \in handler[h].left
    /\ tally' = IF d = NoDomain THEN tally
                ELSE [tally EXCEPT ![d][handler[h].event] = @ + 1]
    /\ handler' = [handler EXCEPT ![h] = IF left = {} THEN Free ELSE [@ EXCEPT !.left = left]]
    /\ UNCHANGED <<fate, delays, wire, faults>>

\* The store starts empty; what a handler had not recorded yet is gone.
Restart ==
    /\ faults < MaxFaults
    /\ faults' = faults + 1
    /\ tally' = [d \in Domains |-> NoTally]
    /\ handler' = [h \in Handlers |-> Free]
    /\ UNCHANGED <<fate, delays, wire>>

\* The history main hands to the service, and the score it makes of a score.
Reputation(d) == [delivered |-> tally[d]["delivered"], bounced |-> tally[d]["bounced"]]

ScoreOf(d, score, catchAll) == HistoryScore(score, catchAll, Reputation(d))

-----------------------------------------------------------------------------
Provider ==
    \E m \in Mails :
        \/ Send(m)
        \/ \E to \in SUBSET To[m] :
              \/ Settle(m, to, "delivery") \/ Settle(m, to, "bounce")
              \/ Return(m, to) \/ Delay(m, to)
        \/ \E a \in To[m] : React(m, a, "open") \/ React(m, a, "complaint")

Next ==
    \/ Provider
    \/ \E n \in wire : Lose(n)
    \/ \E h \in Handlers :
          \/ \E n \in wire, again \in BOOLEAN : Receive(h, n, again)
          \/ \E a \in handler[h].left : Record(h, a)
    \/ Restart

Spec == Init /\ [][Next]_vars

-----------------------------------------------------------------------------
(***************************************************************************)
(* The inductive invariant: events and what happened to the mail agree.    *)
(***************************************************************************)

\* The fates a recipient can have once a notification of this kind named it;
\* a transient bounce settles none.
Told(kind) ==
    CASE kind = "send" -> Fates \ {"unsent"}
      [] kind = "delivery" -> {"delivered", "returned", "complained", "engaged"}
      [] kind = "bounce" -> {"bounced", "returned"}
      [] kind = "complaint" -> {"complained"}
      [] kind = "open" -> {"engaged"}
      [] OTHER -> {}

Occurred(m, kind, a) ==
    IF kind = "transient" THEN delays[m][a] > 0 ELSE fate[m][a] \in Told(kind)

\* Something happened to a that an adapter makes an event of this type of.
Happened(type, a) ==
    \E m \in Mails, kind \in Notices : EventOf(Via[m], kind) = type /\ Occurred(m, kind, a)

\* Nothing is on the wire, with a handler or in a tally that did not happen.
Founded ==
    /\ \A n \in wire :
         n.to \subseteq To[n.mail] /\ \A a \in n.to : Occurred(n.mail, n.kind, a)
    /\ \A h \in Handlers : \A a \in handler[h].left :
         handler[h].event \in Types /\ Happened(handler[h].event, a)
    /\ \A d \in Domains, type \in Types : tally[d][type] > 0 =>
         \E a \in Addresses : DomainOf[a] = d /\ Happened(type, a)

\* The events of one type for one domain: those on the wire, those a handler
\* has yet to record, and those that the fates of the mails call for.
OnWire(d, type) ==
    {p \in wire \X Addresses :
       EventOf(Via[p[1].mail], p[1].kind) = type /\ p[2] \in p[1].to /\ DomainOf[p[2]] = d}

InHand(d, type) ==
    {p \in Handlers \X Addresses :
       /\ handler[p[1]].event = type
       /\ p[2] \in handler[p[1]].left
       /\ DomainOf[p[2]] = d}

Due(d, type) ==
    {p \in (Notices \X Mails) \X Addresses :
       /\ EventOf(Via[p[1][2]], p[1][1]) = type
       /\ DomainOf[p[2]] = d
       /\ fate[p[1][2]][p[2]] \in Told(p[1][1])}

\* Every event is in one place: recorded, with a handler or on the wire.  Only
\* transient bounces add events no fate calls for.
Balanced(d, type) ==
    /\ IsFiniteSet(OnWire(d, type))
    /\ IsFiniteSet(InHand(d, type))
    /\ IsFiniteSet(Due(d, type))
    /\ LET there == tally[d][type] + Cardinality(OnWire(d, type)) + Cardinality(InHand(d, type))
       IN  IF type = "bounced" THEN there >= Cardinality(Due(d, type))
           ELSE there = Cardinality(Due(d, type))

Ledger == faults = 0 => \A d \in Domains, type \in Types : Balanced(d, type)

FeedbackInv == TypeOK /\ Founded /\ Ledger

-----------------------------------------------------------------------------
(***************************************************************************)
(* Properties.                                                             *)
(***************************************************************************)

Counted(d, type) == tally'[d][type] > tally[d][type]

\* A recorded bounce never raises the score of any address of the domain, a
\* recorded delivery never lowers one, and nothing else moves it, whatever was
\* recorded before: the lift of a catch-all, which waits for five samples, and
\* the two caps never work against the outcome that was just recorded.
ScoreFollowsOutcomes ==
    [][\A d \in Domains :
          /\ Counted(d, "bounced") =>
               \A score \in Scores, catchAll \in CatchAlls :
                   ScoreOf(d, score, catchAll)' <= ScoreOf(d, score, catchAll)
          /\ Counted(d, "delivered") =>
               \A score \in Scores, catchAll \in CatchAlls :
                   ScoreOf(d, score, catchAll)' >= ScoreOf(d, score, catchAll)
          /\ Counted(d, "complained") \/ Counted(d, "engaged") =>
               \A score \in Scores, catchAll \in CatchAlls :
                   ScoreOf(d, score, catchAll)' = ScoreOf(d, score, catchAll)]_vars

Quiet == wire = {} /\ \A h \in Handlers : handler[h] = Free

\* The recipients of d that a mail was sent to, with the mail.
Sent(d) == {p \in Mails \X Addresses :
              DomainOf[p[2]] = d /\ fate[p[1]][p[2]] # "unsent"}

\* The adapter of the provider is told of a bounce it can not tell from a
\* permanent one.
ReportedBad(m, a) ==
    \/ fate[m][a] \in {"bounced", "returned"}
    \/ Via[m] = "smartlead" /\ delays[m][a] > 0

\* A domain without a bounce that counts (a permanent one, or any that
\* Smartlead reports) is never scored down, whatever was delayed, complained
\* about, lost or repeated.  When all its mail bounced for good and every
\* notification has been recorded once, no address of it scores more than 20,
\* although each mail also counted as delivered when it was sent; more than 50
\* when some of it bounced only after its delivery had counted as well.
HistoryIsFair ==
    \A d \in Domains, score \in Scores, catchAll \in CatchAlls :
        LET after == ScoreOf(d, score, catchAll)
            Ended(fates) == \A p \in Sent(d) : fate[p[1]][p[2]] \in fates
        IN
        /\ (\A m \in Mails, a \in Addresses : ReportedBad(m, a) => DomainOf[a] # d)
              => after >= score
        /\ Quiet /\ faults = 0 /\ Sent(d) # {} =>
              /\ Ended({"bounced"}) => after <= 20
              /\ Ended({"bounced", "returned"}) => after <= 50
=============================================================================
