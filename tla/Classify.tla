------------------------------ MODULE Classify ------------------------------
(***************************************************************************)
(* The pure core of the verdict: what an SMTP reply says of a recipient    *)
(* (error.go), the precedence ladder and its metadata                      *)
(* (internal/classify), and the deliverability score                       *)
(* (internal/verification/domain_health.go).                               *)
(*                                                                         *)
(* The answer to an SMTP command is a record [code, says]: a reply, whose  *)
(* text is abstracted to the phrase bucket it falls in, or, with code 0,   *)
(* the failure of the connection: "timeout", "refused" or "other".         *)
(***************************************************************************)
EXTENDS Integers, FiniteSets

Phrases    == {"plain", "nonexistent", "disabled", "greylist", "quota", "refused", "timeout"}
Kinds      == {"timeout", "refused", "other"}
Failures   == [code: {0}, says: Kinds]
Transports == {"none"} \cup Kinds

Recipients ==
    [result: {"accepted", "rejected", "temporary", "blocked", "unknown", "not_checked"},
     reason: {"", "mailbox_not_found", "mailbox_disabled", "full_inbox", "policy_block",
              "rate_limited", "temporary_failure", "greylisted"}]

Recipient(result, reason) == [result |-> result, reason |-> reason]

NotChecked == Recipient("not_checked", "")

-----------------------------------------------------------------------------
\* The codes ParseSMTPError names; for the others the text decides.
NamedCodes == {421, 450, 451, 452, 503} \cup 550..554

\* What classifyTransport makes of ParseSMTPError: a reply up to 400 gives no
\* error value at all, and the nil pointer inside the error is dereferenced.
ParseSMTPError(answer) ==
    CASE answer.code = 0 -> answer.says
      [] answer.code \in 1..400 -> "nil"
      [] answer.code > 400 /\ answer.code \notin NamedCodes /\ answer.says \in {"refused", "timeout"}
           -> answer.says
      [] OTHER -> "other"

\* Bug: a generic 550 is taken for a nonexistent mailbox.
PermanentReply_generic(reply) ==
    IF reply.code = 550 THEN Recipient("rejected", "mailbox_not_found")
    ELSE Recipient("blocked", "policy_block")

PermanentReply(reply) ==
    CASE reply.code = 552 -> Recipient("rejected", "full_inbox")
      [] reply.code # 552 /\ reply.says = "nonexistent" -> Recipient("rejected", "mailbox_not_found")
      [] reply.code # 552 /\ reply.says = "disabled" -> Recipient("rejected", "mailbox_disabled")
      [] OTHER -> Recipient("blocked", "policy_block")

TemporaryReply(reply) ==
    Recipient("temporary",
        CASE reply.code \in {421, 450} /\ reply.says = "greylist" -> "greylisted"
          [] reply.code = 451 -> "rate_limited"
          [] reply.code = 452 -> IF reply.says = "quota" THEN "full_inbox" ELSE "rate_limited"
          [] OTHER -> "temporary_failure")

\* Bug: everything below 400 is taken for acceptance.
RecipientReply_lenient(answer) ==
    CASE answer.code \in 200..399 -> Recipient("accepted", "")
      [] answer.code \in 400..499 -> TemporaryReply(answer)
      [] answer.code >= 500 -> PermanentReply(answer)
      [] OTHER -> Recipient("unknown", "")

\* The recipient part of classifyRecipientReply, for RCPT.
RecipientReply(answer) ==
    CASE answer.code \in 200..299 -> Recipient("accepted", "")
      [] answer.code \in 400..499 -> TemporaryReply(answer)
      [] answer.code >= 500 -> PermanentReply(answer)
      [] OTHER -> Recipient("unknown", "")

\* Its transport error; parseBasicErr keeps the three kinds apart.
ReplyTransport(answer) == IF answer.code = 0 THEN answer.says ELSE "none"

-----------------------------------------------------------------------------
\* The ladder of classifyReason over the evidence ev: the first rung that
\* applies names the reason.
Ladder(ev) ==
    << <<ev.syntax = "malformed", "syntax_invalid">>,
       <<ev.dns = "not_found", "domain_not_found">>,
       <<ev.dns = "temporary", "dns_error">>,
       <<ev.source = "null", "null_mx">>,
       <<ev.source = "none", "no_mail_host">>,
       <<ev.domain = "disposable", "disposable_domain">>,
       <<ev.recipient.reason = "mailbox_not_found", "mailbox_rejected">>,
       <<ev.recipient.reason = "mailbox_disabled", "mailbox_disabled">>,
       <<ev.recipient.reason = "full_inbox", "full_inbox">>,
       <<ev.catchAll = "confirmed", "catch_all">>,
       <<ev.recipient.result = "accepted" /\ ev.account = "role", "role_account">>,
       <<ev.recipient.result = "accepted", "smtp_accepted">>,
       <<ev.recipient.result = "temporary"
           /\ ev.recipient.reason \in {"temporary_failure", "greylisted"}, "temporary_rejection">>,
       <<ev.recipient.reason = "rate_limited", "rate_limited">>,
       <<ev.recipient.result = "blocked", "provider_blocked">>,
       <<ev.transport = "timeout", "smtp_timeout">>,
       <<ev.transport = "refused", "connection_refused">>,
       <<ev.checkReason = "disabled", "smtp_disabled">>,
       <<TRUE, "smtp_inconclusive">> >>

ClassifyReason(ev) ==
    LET ladder == Ladder(ev)
        rung == CHOOSE i \in DOMAIN ladder :
                    ladder[i][1] /\ \A j \in 1..(i - 1) : ~ladder[j][1]
    IN  ladder[rung][2]

\* reasonMeta: status, whether a retry may help, and confidence.
Meta == [
    smtp_accepted       |-> <<"valid", FALSE, 95>>,
    syntax_invalid      |-> <<"invalid", FALSE, 100>>,
    domain_not_found    |-> <<"invalid", FALSE, 99>>,
    null_mx             |-> <<"invalid", FALSE, 99>>,
    no_mail_host        |-> <<"invalid", FALSE, 95>>,
    mailbox_rejected    |-> <<"invalid", FALSE, 90>>,
    disposable_domain   |-> <<"risky", FALSE, 90>>,
    mailbox_disabled    |-> <<"risky", FALSE, 80>>,
    role_account        |-> <<"risky", FALSE, 70>>,
    full_inbox          |-> <<"risky", TRUE, 60>>,
    catch_all           |-> <<"risky", FALSE, 50>>,
    temporary_rejection |-> <<"unknown", TRUE, 20>>,
    rate_limited        |-> <<"unknown", TRUE, 15>>,
    provider_blocked    |-> <<"unknown", TRUE, 15>>,
    dns_error           |-> <<"unknown", TRUE, 10>>,
    smtp_timeout        |-> <<"unknown", TRUE, 10>>,
    connection_refused  |-> <<"unknown", TRUE, 10>>,
    smtp_inconclusive   |-> <<"unknown", TRUE, 5>>,
    smtp_disabled       |-> <<"unknown", FALSE, 30>>]

Status(reason)     == Meta[reason][1]
Retryable(reason)  == Meta[reason][2]
Confidence(reason) == Meta[reason][3]

-----------------------------------------------------------------------------
\* Bug: everything but a rejection counts as deliverable.
CalculateReachable_unlessRejected(ev) ==
    CASE ev.recipient.result # "rejected" -> "yes"
      [] ev.recipient.result = "rejected" /\ ev.catchAll = "confirmed" -> "unknown"
      [] OTHER -> "no"

\* calculateReachable, with the SMTP check on.
CalculateReachable(ev) ==
    CASE ev.recipient.result = "accepted" -> "yes"
      [] ev.recipient.result # "accepted" /\ ev.catchAll = "confirmed" -> "unknown"
      [] OTHER -> "no"

\* What the library's own Verify says over the same evidence: its short cuts,
\* then the outcome of CheckSMTP, an error of which leaves "unknown".
Reachable(ev, smtp) ==
    CASE ev.syntax = "malformed" \/ ev.domain = "disposable" -> "unknown"
      [] ~(ev.syntax = "malformed" \/ ev.domain = "disposable")
           /\ (ev.dns = "not_found" \/ (ev.dns = "resolved" /\ ev.source \in {"null", "none"})) -> "no"
      [] ~(ev.syntax = "malformed" \/ ev.domain = "disposable") /\ ev.dns = "resolved"
           /\ ev.source \notin {"null", "none"} /\ smtp = "on" /\ ev.transport = "none"
           -> CalculateReachable(ev)
      [] OTHER -> "unknown"

-----------------------------------------------------------------------------
AtMost(score, cap)    == IF score > cap THEN cap ELSE score
AtLeast(score, floor) == IF score < floor THEN floor ELSE score
ClampScore(score)     == AtLeast(AtMost(score, 100), 0)

DeliverabilityScore(reason, ev) ==
    CASE Status(reason) = "invalid" -> 0
      [] Status(reason) = "unknown" -> ClampScore(Confidence(reason))
      [] OTHER ->
           LET first  == IF Status(reason) = "valid" THEN 95 ELSE Confidence(reason)
               second == IF ev.domain = "disposable" THEN AtMost(first, 15) ELSE first
               third  == IF ev.catchAll = "confirmed" THEN AtMost(second, 50) ELSE second
           IN  ClampScore(IF ev.account = "role" THEN third - 10 ELSE third)

\* A listing on the domain blocklist caps the score at 15.
ApplyBlocklistPenalty(score, dnsbl) ==
    IF dnsbl = "listed" THEN AtMost(score, 15) ELSE score

ApplyGravatarBonus(score, reason, gravatar) ==
    IF Status(reason) \in {"unknown", "risky"} /\ gravatar = "profile"
    THEN ClampScore(score + 8) ELSE score

\* The sending history of a domain: how many deliveries and bounces were
\* recorded.  BounceRate is their share of bounces, and 0 without any.
Samples(rep) == rep.delivered + rep.bounced

RateAtLeast(rep, percent) ==
    Samples(rep) > 0 /\ 100 * rep.bounced >= percent * Samples(rep)

\* Bug: a catch-all is lifted on a history with too many bounces.
Reliable_lenient(rep) == Samples(rep) >= 5 /\ ~RateAtLeast(rep, 30)

Reliable(rep) == Samples(rep) >= 5 /\ ~RateAtLeast(rep, 10)

\* A good history lifts a catch-all ...
RefineCatchAllScore(score, catchAll, rep) ==
    IF catchAll = "confirmed" /\ Reliable(rep)
    THEN ClampScore(AtLeast(score, 75)) ELSE score

\* ... and a bad one caps every address of the domain.
AdjustScoreForReputation(score, rep) ==
    CASE RateAtLeast(rep, 50) -> ClampScore(AtMost(score, 20))
      [] RateAtLeast(rep, 20) /\ ~RateAtLeast(rep, 50) -> ClampScore(AtMost(score, 50))
      [] OTHER -> ClampScore(score)

\* What the history makes of a score.
HistoryScore(score, catchAll, rep) ==
    AdjustScoreForReputation(RefineCatchAllScore(score, catchAll, rep), rep)

\* Bug: bonus and lift are applied after the cap.
FinalScore_liftLast(reason, ev, dnsbl, gravatar, rep) ==
    LET listed == ApplyBlocklistPenalty(DeliverabilityScore(reason, ev), dnsbl)
        capped == AdjustScoreForReputation(listed, rep)
    IN  RefineCatchAllScore(ApplyGravatarBonus(capped, reason, gravatar), ev.catchAll, rep)

\* The order in which Service.Verify applies them.
FinalScore(reason, ev, dnsbl, gravatar, rep) ==
    LET listed == ApplyBlocklistPenalty(DeliverabilityScore(reason, ev), dnsbl)
    IN  HistoryScore(ApplyGravatarBonus(listed, reason, gravatar), ev.catchAll, rep)

=============================================================================
