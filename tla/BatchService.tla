---------------------------- MODULE BatchService ----------------------------
(***************************************************************************)
(* What the asynchronous batch endpoints promise a client, without         *)
(* channels, workers or goroutines: a batch is registered, its submission  *)
(* is accepted, it runs once, its answer appears whole and never changes,  *)
(* the client is notified only after that, and a drain ends only when      *)
(* every accepted batch has its answer.                                    *)
(***************************************************************************)
EXTENDS Naturals, Sequences

CONSTANTS
    Batches,     \* the submissions
    Answers,     \* the possible answers for one email
    Size,        \* Size[b]: the number of emails of b
    Notified,    \* the batches whose submitter asked to be notified
    MaxNotices   \* the most notices a receiver may see for one batch

VARIABLES
    phase,       \* phase[b]: what a status query for b reports
    accepted,    \* the batches the service has taken responsibility for
    answer,      \* answer[b]: what a results query for b reports
    notices,     \* notices[b]: notices the receiver has seen for b
    open,        \* new submissions are taken
    drained      \* the drain has ended

serviceVars == <<phase, accepted, answer, notices, open, drained>>

ServiceInit ==
    /\ phase = [b \in Batches |-> "absent"]
    /\ accepted = {}
    /\ answer = [b \in Batches |-> <<>>]
    /\ notices = [b \in Batches |-> 0]
    /\ open = TRUE
    /\ drained = FALSE

Appear(b) ==
    /\ open
    /\ phase[b] = "absent"
    /\ phase' = [phase EXCEPT ![b] = "queued"]
    /\ UNCHANGED <<accepted, answer, notices, open, drained>>

Accept(b) ==
    /\ open
    /\ phase[b] = "queued"
    /\ b \notin accepted
    /\ accepted' = accepted \cup {b}
    /\ UNCHANGED <<phase, answer, notices, open, drained>>

Begin(b) ==
    /\ ~drained
    /\ b \in accepted
    /\ phase[b] = "queued"
    /\ phase' = [phase EXCEPT ![b] = "running"]
    /\ UNCHANGED <<accepted, answer, notices, open, drained>>

Finish(b) ==
    /\ ~drained
    /\ phase[b] = "running"
    /\ phase' = [phase EXCEPT ![b] = "done"]
    /\ \E r \in [1..Size[b] -> Answers] : answer' = [answer EXCEPT ![b] = r]
    /\ UNCHANGED <<accepted, notices, open, drained>>

Notify(b) ==
    /\ ~drained
    /\ b \in Notified
    /\ phase[b] = "done"
    /\ notices[b] < MaxNotices
    /\ notices' = [notices EXCEPT ![b] = @ + 1]
    /\ UNCHANGED <<phase, accepted, answer, open, drained>>

Close ==
    /\ open
    /\ open' = FALSE
    /\ UNCHANGED <<phase, accepted, answer, notices, drained>>

EndDrain ==
    /\ ~open
    /\ ~drained
    /\ \A b \in accepted : phase[b] = "done"
    /\ drained' = TRUE
    /\ UNCHANGED <<phase, accepted, answer, notices, open>>

ServiceNext ==
    \/ \E b \in Batches : Appear(b) \/ Accept(b) \/ Begin(b) \/ Finish(b) \/ Notify(b)
    \/ Close
    \/ EndDrain

ServiceSpec == ServiceInit /\ [][ServiceNext]_serviceVars
=============================================================================
