--------------------------- MODULE Pipeline_proofs ---------------------------
(***************************************************************************)
(* Proofs about Pipeline: the type invariant, and that verdict, retry mark,*)
(* library verdict and score rest on what was heard, for every set of      *)
(* verifications, every set of replies and every sending history.          *)
(*                                                                         *)
(* The invariant says of each place of Service.Verify what is known there  *)
(* and who said it.  The judgement then needs no history: each of the five *)
(* ways of coming to be judged fixes the rung of the ladder.               *)
(***************************************************************************)
EXTENDS Pipeline, TLAPS

-----------------------------------------------------------------------------
(***************************************************************************)
(* The ladder and its table.                                               *)
(***************************************************************************)

\* classifyReason has nineteen rules, the last of which always applies.
LEMMA LadderLength ==
  ASSUME NEW ev
  PROVE  DOMAIN Ladder(ev) = 1..19
  BY DEF Ladder

\* The first rung that applies names the reason.
LEMMA FirstRung ==
  ASSUME NEW ev, NEW i \in 1..19, Ladder(ev)[i][1], \A j \in 1..(i - 1) : ~Ladder(ev)[j][1]
  PROVE  ClassifyReason(ev) = Ladder(ev)[i][2]
<1> DEFINE first(k) == Ladder(ev)[k][1] /\ \A j \in 1..(k - 1) : ~Ladder(ev)[j][1]
<1>1. \A k \in 1..19 : first(k) => k = i
  BY DEF first
<1>2. (CHOOSE k \in 1..19 : first(k)) = i
  <2> HIDE DEF first
  <2>1. first(i)
    BY DEF first
  <2> QED
    BY <1>1, <2>1
<1> QED
  BY <1>2, LadderLength DEF ClassifyReason, first

\* The ladder as one decision: the rungs after the catch-all, and all of them.
LateReason(ev) ==
    IF ev.recipient.result = "accepted" /\ ev.account = "role" THEN "role_account"
    ELSE IF ev.recipient.result = "accepted" THEN "smtp_accepted"
    ELSE IF /\ ev.recipient.result = "temporary"
            /\ ev.recipient.reason \in {"temporary_failure", "greylisted"}
         THEN "temporary_rejection"
    ELSE IF ev.recipient.reason = "rate_limited" THEN "rate_limited"
    ELSE IF ev.recipient.result = "blocked" THEN "provider_blocked"
    ELSE IF ev.transport = "timeout" THEN "smtp_timeout"
    ELSE IF ev.transport = "refused" THEN "connection_refused"
    ELSE IF ev.checkReason = "disabled" THEN "smtp_disabled"
    ELSE "smtp_inconclusive"

ReasonOf(ev) ==
    IF ev.syntax = "malformed" THEN "syntax_invalid"
    ELSE IF ev.dns = "not_found" THEN "domain_not_found"
    ELSE IF ev.dns = "temporary" THEN "dns_error"
    ELSE IF ev.source = "null" THEN "null_mx"
    ELSE IF ev.source = "none" THEN "no_mail_host"
    ELSE IF ev.domain = "disposable" THEN "disposable_domain"
    ELSE IF ev.recipient.reason = "mailbox_not_found" THEN "mailbox_rejected"
    ELSE IF ev.recipient.reason = "mailbox_disabled" THEN "mailbox_disabled"
    ELSE IF ev.recipient.reason = "full_inbox" THEN "full_inbox"
    ELSE IF ev.catchAll = "confirmed" THEN "catch_all"
    ELSE LateReason(ev)

\* classifyReason decides as ReasonOf does, rung by rung.
LEMMA ReasonByLadder ==
  ASSUME NEW ev
  PROVE  ClassifyReason(ev) = ReasonOf(ev)
<1> DEFINE holds(k) == Ladder(ev)[k][1]
           clear(k) == \A j \in 1..k : ~holds(j)
           name(k)  == Ladder(ev)[k][2]
           reason   == ClassifyReason(ev)
<1>1. /\ \A k \in 1..19 : clear(k - 1) /\ holds(k) => reason = name(k)
      /\ \A k \in 1..19 : clear(k - 1) /\ ~holds(k) => clear(k)
      /\ clear(0)
  BY FirstRung
<1> HIDE DEF clear, holds, name, reason
<1>2. /\ clear(0) => IF holds(1) THEN reason = name(1) ELSE clear(1)
      /\ clear(1) => IF holds(2) THEN reason = name(2) ELSE clear(2)
      /\ clear(2) => IF holds(3) THEN reason = name(3) ELSE clear(3)
      /\ clear(3) => IF holds(4) THEN reason = name(4) ELSE clear(4)
      /\ clear(4) => IF holds(5) THEN reason = name(5) ELSE clear(5)
      /\ clear(5) => IF holds(6) THEN reason = name(6) ELSE clear(6)
      /\ clear(6) => IF holds(7) THEN reason = name(7) ELSE clear(7)
      /\ clear(7) => IF holds(8) THEN reason = name(8) ELSE clear(8)
      /\ clear(8) => IF holds(9) THEN reason = name(9) ELSE clear(9)
      /\ clear(9) => IF holds(10) THEN reason = name(10) ELSE clear(10)
  BY <1>1
<1>3. /\ clear(10) => IF holds(11) THEN reason = name(11) ELSE clear(11)
      /\ clear(11) => IF holds(12) THEN reason = name(12) ELSE clear(12)
      /\ clear(12) => IF holds(13) THEN reason = name(13) ELSE clear(13)
      /\ clear(13) => IF holds(14) THEN reason = name(14) ELSE clear(14)
      /\ clear(14) => IF holds(15) THEN reason = name(15) ELSE clear(15)
      /\ clear(15) => IF holds(16) THEN reason = name(16) ELSE clear(16)
      /\ clear(16) => IF holds(17) THEN reason = name(17) ELSE clear(17)
      /\ clear(17) => IF holds(18) THEN reason = name(18) ELSE clear(18)
      /\ clear(18) => IF holds(19) THEN reason = name(19) ELSE clear(19)
  BY <1>1
<1>4. /\ (holds(1) <=> ev.syntax = "malformed") /\ name(1) = "syntax_invalid"
      /\ (holds(2) <=> ev.dns = "not_found") /\ name(2) = "domain_not_found"
      /\ (holds(3) <=> ev.dns = "temporary") /\ name(3) = "dns_error"
      /\ (holds(4) <=> ev.source = "null") /\ name(4) = "null_mx"
      /\ (holds(5) <=> ev.source = "none") /\ name(5) = "no_mail_host"
      /\ (holds(6) <=> ev.domain = "disposable") /\ name(6) = "disposable_domain"
      /\ (holds(7) <=> ev.recipient.reason = "mailbox_not_found") /\ name(7) = "mailbox_rejected"
      /\ (holds(8) <=> ev.recipient.reason = "mailbox_disabled") /\ name(8) = "mailbox_disabled"
      /\ (holds(9) <=> ev.recipient.reason = "full_inbox") /\ name(9) = "full_inbox"
      /\ (holds(10) <=> ev.catchAll = "confirmed") /\ name(10) = "catch_all"
  BY DEF Ladder, holds, name
<1>5. /\ (holds(11) <=> (ev.recipient.result = "accepted" /\ ev.account = "role")) /\ name(11) = "role_account"
      /\ (holds(12) <=> ev.recipient.result = "accepted") /\ name(12) = "smtp_accepted"
      /\ (holds(13) <=> /\ ev.recipient.result = "temporary"
                        /\ ev.recipient.reason \in {"temporary_failure", "greylisted"})
      /\ name(13) = "temporary_rejection"
      /\ (holds(14) <=> ev.recipient.reason = "rate_limited") /\ name(14) = "rate_limited"
      /\ (holds(15) <=> ev.recipient.result = "blocked") /\ name(15) = "provider_blocked"
      /\ (holds(16) <=> ev.transport = "timeout") /\ name(16) = "smtp_timeout"
      /\ (holds(17) <=> ev.transport = "refused") /\ name(17) = "connection_refused"
      /\ (holds(18) <=> ev.checkReason = "disabled") /\ name(18) = "smtp_disabled"
      /\ (holds(19) <=> TRUE) /\ name(19) = "smtp_inconclusive"
  BY DEF Ladder, holds, name
<1>6. clear(10) => reason = LateReason(ev)
  BY <1>3, <1>5, Zenon DEF LateReason
<1> QED
  BY <1>1, <1>2, <1>4, <1>6, Zenon DEF ReasonOf, reason

-----------------------------------------------------------------------------
(***************************************************************************)
(* Types.                                                                  *)
(***************************************************************************)

\* What an answer can be, and what error.go can make of it.
LEMMA AnswerTypes ==
  ASSUME NEW answer \in Answers
  PROVE  /\ answer.code \in Int
         /\ answer.code = 0 \/ answer.code \in 200..599
         /\ answer.code = 0 => answer.says \in Kinds
         /\ answer.code # 0 => answer.says \in Phrases
         /\ RecipientReply(answer) \in Recipients
         /\ ReplyTransport(answer) \in Transports
         /\ ParseSMTPError(answer) \in Kinds \cup {"nil"}
<1>1. /\ answer.code \in Int
      /\ answer.code = 0 \/ answer.code \in 200..599
      /\ answer.code = 0 => answer.says \in Kinds
      /\ answer.code # 0 => answer.says \in Phrases
  BY PipelineAssumption DEF Answers, Failures
<1>2. RecipientReply(answer) \in Recipients
  BY DEF RecipientReply, TemporaryReply, PermanentReply, Recipient, Recipients
<1>3. ReplyTransport(answer) \in Transports /\ ParseSMTPError(answer) \in Kinds \cup {"nil"}
  BY <1>1 DEF ReplyTransport, ParseSMTPError, Transports, Kinds
<1> QED
  BY <1>1, <1>2, <1>3

\* Every reason the ladder names has a row in reasonMeta.
LEMMA ReasonTypes ==
  ASSUME NEW ev
  PROVE  ClassifyReason(ev) \in DOMAIN Meta
<1>1. LateReason(ev) \in DOMAIN Meta
  BY DEF LateReason, Meta
<1>2. ReasonOf(ev) \in DOMAIN Meta
  BY <1>1 DEF ReasonOf, Meta
<1> QED
  BY <1>2, ReasonByLadder

\* The nineteen reasons.
Reasons == {"smtp_accepted", "syntax_invalid", "domain_not_found", "null_mx",
            "no_mail_host", "mailbox_rejected", "disposable_domain", "mailbox_disabled",
            "role_account", "full_inbox", "catch_all", "temporary_rejection",
            "rate_limited", "provider_blocked", "dns_error", "smtp_timeout",
            "connection_refused", "smtp_inconclusive", "smtp_disabled"}

\* The rows of the table.
LEMMA MetaTable ==
  /\ DOMAIN Meta = Reasons
  /\ Meta["smtp_accepted"] = <<"valid", FALSE, 95>>
  /\ Meta["syntax_invalid"] = <<"invalid", FALSE, 100>>
  /\ Meta["domain_not_found"] = <<"invalid", FALSE, 99>>
  /\ Meta["null_mx"] = <<"invalid", FALSE, 99>>
  /\ Meta["no_mail_host"] = <<"invalid", FALSE, 95>>
  /\ Meta["mailbox_rejected"] = <<"invalid", FALSE, 90>>
  /\ Meta["disposable_domain"] = <<"risky", FALSE, 90>>
  /\ Meta["mailbox_disabled"] = <<"risky", FALSE, 80>>
  /\ Meta["role_account"] = <<"risky", FALSE, 70>>
  /\ Meta["full_inbox"] = <<"risky", TRUE, 60>>
  /\ Meta["catch_all"] = <<"risky", FALSE, 50>>
  /\ Meta["temporary_rejection"] = <<"unknown", TRUE, 20>>
  /\ Meta["rate_limited"] = <<"unknown", TRUE, 15>>
  /\ Meta["provider_blocked"] = <<"unknown", TRUE, 15>>
  /\ Meta["dns_error"] = <<"unknown", TRUE, 10>>
  /\ Meta["smtp_timeout"] = <<"unknown", TRUE, 10>>
  /\ Meta["connection_refused"] = <<"unknown", TRUE, 10>>
  /\ Meta["smtp_inconclusive"] = <<"unknown", TRUE, 5>>
  /\ Meta["smtp_disabled"] = <<"unknown", FALSE, 30>>
  BY DEF Meta, Reasons

\* A row of the table is a status and a confidence in percent.
LEMMA MetaTypes ==
  \A reason \in Reasons :
    /\ Status(reason) \in {"valid", "invalid", "risky", "unknown"}
    /\ Confidence(reason) \in 0..100
  BY MetaTable DEF Reasons, Status, Confidence

\* The range of a score, and what the sending history and an invalid address
\* make of it.
LEMMA ScoreTypes ==
  ASSUME NEW ev, NEW reason \in Reasons, NEW dnsbl, NEW gravatar,
         NEW rep \in [delivered: Nat, bounced: Nat]
  PROVE  LET score == FinalScore(reason, ev, dnsbl, gravatar, rep)
         IN  /\ score \in 0..100
             /\ RateAtLeast(rep, 50) => score <= 20
             /\ Status(reason) = "invalid" /\ ev.catchAll # "confirmed" => score = 0
<1> DEFINE base   == DeliverabilityScore(reason, ev)
           listed == ApplyBlocklistPenalty(base, dnsbl)
           lifted == ApplyGravatarBonus(listed, reason, gravatar)
           refined == RefineCatchAllScore(lifted, ev.catchAll, rep)
           score  == AdjustScoreForReputation(refined, rep)
<1>1. Confidence(reason) \in 0..100
  BY MetaTypes
<1>2. base \in 0..100 /\ (Status(reason) = "invalid" => base = 0)
  BY <1>1 DEF DeliverabilityScore, ClampScore, AtMost, AtLeast
<1> HIDE DEF base
<1>3. listed \in 0..100 /\ (base = 0 => listed = 0)
  BY <1>2 DEF ApplyBlocklistPenalty, AtMost
<1> HIDE DEF listed
<1>4. lifted \in 0..100 /\ (listed = 0 /\ Status(reason) = "invalid" => lifted = 0)
  BY <1>3 DEF ApplyGravatarBonus, ClampScore, AtMost, AtLeast
<1> HIDE DEF lifted
<1>5. refined \in 0..100 /\ (lifted = 0 /\ ev.catchAll # "confirmed" => refined = 0)
  BY <1>4 DEF RefineCatchAllScore, ClampScore, AtMost, AtLeast
<1> HIDE DEF refined
<1>6. /\ score \in 0..100 /\ (refined = 0 => score = 0)
      /\ RateAtLeast(rep, 50) => score <= 20
  BY <1>5 DEF AdjustScoreForReputation, ClampScore, AtMost, AtLeast
<1>7. score = FinalScore(reason, ev, dnsbl, gravatar, rep)
  BY DEF FinalScore, HistoryScore, base, listed, lifted, refined
<1> QED
  BY <1>2, <1>3, <1>4, <1>5, <1>6, <1>7

\* The fields of a verification, each with its set named.
Places == {"idle", "cache", "mx", "ip", "put", "dial", "hello", "mail", "probe", "rcpt",
           "assess", "done", "suppressed", "panicked"}
Syntaxes == {"valid", "malformed"}
Accounts == {"role", "personal"}
DomainKinds == {"disposable", "regular"}
DnsStates == {"", "resolved", "not_found", "temporary"}
HostSources == {""} \cup Sources
CatchAlls == {"confirmed", "not_catch_all", "unknown", "not_checked"}
CheckReasons == {"", "dns_failure", "null_mx", "no_mail_host", "disposable", "disabled",
                 "attempted", "catch_all"}
Verdicts == {""} \cup DOMAIN Meta
Scores == 0..100
Libraries == {"", "yes", "no", "unknown"}

\* CheckStates by the named sets.
LEMMA StateShape ==
  CheckStates =
    [pc: Places, syntax: Syntaxes, account: Accounts, domain: DomainKinds, dns: DnsStates,
     source: HostSources, recipient: Recipients, catchAll: CatchAlls, transport: Transports,
     checkReason: CheckReasons, reason: Verdicts, score: Scores, library: Libraries]
  BY DEF CheckStates, Places, Syntaxes, Accounts, DomainKinds, DnsStates, HostSources,
         CatchAlls, CheckReasons, Verdicts, Scores, Libraries

\* A verification that has not begun is one of the type.
LEMMA FreshTypes == Fresh \in CheckStates
  BY DEF Fresh, CheckStates, NotChecked, Recipient, Recipients, Transports, Kinds

\* The entry of the cache, or the answer of the resolver, decides.
LEMMA GateTypes ==
  ASSUME NEW dns, NEW source
  PROVE  GateReason(dns, source) \in
           {"", "dns_failure", "null_mx", "no_mail_host", "disposable", "disabled"}
  BY DEF GateReason

\* A step of c: what it makes of the verification, and what stays.
Moves(c, new) ==
    /\ check' \in [Checks -> CheckStates] /\ check'[c] = new
    /\ \A d \in Checks \ {c} : check'[d] = check[d]
    /\ heard' \in [Checks -> SUBSET Facts]
    /\ \A d \in Checks \ {c} : heard'[d] = heard[d]
    /\ told' \in [Checks -> SUBSET Facts]
    /\ \A d \in Checks \ {c} : told'[d] = told[d]
    /\ domain' = domain /\ smtp' = smtp

\* A verification gets another state, and one of the type.
LEMMA CheckMoves ==
  ASSUME TypeOK, NEW c \in Checks, NEW new \in CheckStates, check' = [check EXCEPT ![c] = new]
  PROVE  /\ check' \in [Checks -> CheckStates] /\ check'[c] = new
         /\ \A d \in Checks \ {c} : check'[d] = check[d]
  BY DEF TypeOK

\* Hear adds to what one verification heard.
LEMMA HearMoves ==
  ASSUME TypeOK, NEW c \in Checks, NEW facts \in SUBSET Facts, Hear(c, facts)
  PROVE  /\ heard' \in [Checks -> SUBSET Facts] /\ heard'[c] = heard[c] \cup facts
         /\ \A d \in Checks \ {c} : heard'[d] = heard[d]
  BY DEF TypeOK, Hear

\* The types of what a step reads.
LEMMA StateOf ==
  ASSUME TypeOK, NEW c \in Checks
  PROVE  /\ check[c] \in CheckStates
         /\ domain.kind \in DomainKinds /\ domain.rep \in [delivered: Nat, bounced: Nat]
         /\ smtp \in {"on", "off"}
  BY PipelineAssumption DEF TypeOK, Domains, DomainKinds, NoHistory

\* An address on the do-not-verify list gets no verdict.
LEMMA SuppressedMoves ==
  ASSUME TypeOK, NEW c \in Checks, Suppressed(c)
  PROVE  /\ Moves(c, [check[c] EXCEPT !.pc = "suppressed"])
         /\ UNCHANGED <<mxCache, history>>
<1>1. [check[c] EXCEPT !.pc = "suppressed"] \in CheckStates
  <2>1. "suppressed" \in Places
    BY DEF Places
  <2> QED
    BY <2>1, StateOf, StateShape
<1>2. check' = [check EXCEPT ![c] = [check[c] EXCEPT !.pc = "suppressed"]]
  BY DEF Suppressed, TypeOK
<1>3. /\ check' \in [Checks -> CheckStates] /\ check'[c] = [check[c] EXCEPT !.pc = "suppressed"]
      /\ \A d \in Checks \ {c} : check'[d] = check[d]
  BY <1>1, <1>2, CheckMoves
<1> QED
  BY <1>3 DEF Suppressed, Moves, TypeOK, history

\* The syntax and what is read off the address.
LEMMA ParseMoves ==
  ASSUME TypeOK, NEW c \in Checks, NEW syntax \in {"valid", "malformed"}, Parse(c, syntax)
  PROVE  /\ Moves(c, [check[c] EXCEPT !.pc = IF syntax = "valid" THEN "cache" ELSE "assess",
                                     !.syntax = syntax,
                                     !.account = IF c \in Roles THEN "role" ELSE "personal",
                                     !.domain = domain.kind])
         /\ UNCHANGED <<mxCache, history>>
<1> DEFINE new == [check[c] EXCEPT !.pc = IF syntax = "valid" THEN "cache" ELSE "assess",
                                   !.syntax = syntax,
                                   !.account = IF c \in Roles THEN "role" ELSE "personal",
                                   !.domain = domain.kind]
<1>1. new \in CheckStates
  <2>1. /\ (IF syntax = "valid" THEN "cache" ELSE "assess") \in Places
        /\ syntax \in Syntaxes
        /\ (IF c \in Roles THEN "role" ELSE "personal") \in Accounts
    BY DEF Places, Syntaxes, Accounts
  <2> QED
    BY <2>1, StateOf, StateShape
<1>2. check' = [check EXCEPT ![c] = new]
  BY DEF Parse, TypeOK
<1> HIDE DEF new
<1>3. /\ check' \in [Checks -> CheckStates] /\ check'[c] = new
      /\ \A d \in Checks \ {c} : check'[d] = check[d]
  BY <1>1, <1>2, CheckMoves
<1>4. Moves(c, new) /\ UNCHANGED <<mxCache, history>>
  BY <1>3 DEF Parse, Moves, TypeOK, history
<1> QED
  BY <1>4 DEF new

\* The gate leaves a verification of the type.
LEMMA GatedTypes ==
  ASSUME TypeOK, NEW c \in Checks, NEW dns \in DnsStates, NEW source \in HostSources
  PROVE  Gated(c, dns, source) \in CheckStates
<1>1. /\ GateReason(dns, source) \in CheckReasons
      /\ (IF GateReason(dns, source) = "" THEN "dial" ELSE "assess") \in Places
  BY GateTypes DEF CheckReasons, Places
<1> QED
  BY <1>1, StateOf, StateShape DEF Gated

\* resolveMailHosts with an entry in the cache, and without.
LEMMA FindMxMoves ==
  ASSUME TypeOK, NEW c \in Checks, FindMx(c)
  PROVE  /\ Moves(c, IF mxCache # Absent THEN Gated(c, mxCache.dns, mxCache.source)
                     ELSE [check[c] EXCEPT !.pc = "mx"])
         /\ told'[c] = IF mxCache # Absent THEN learnt ELSE told[c]
         /\ UNCHANGED <<mxCache, heard, learnt>>
<1>1. CASE mxCache # Absent
  <2>1. mxCache.dns \in DnsStates /\ mxCache.source \in HostSources
    BY <1>1 DEF TypeOK, Entries, DnsStates, HostSources
  <2>2. check' = [check EXCEPT ![c] = Gated(c, mxCache.dns, mxCache.source)]
    BY <1>1 DEF FindMx
  <2>3. /\ check' \in [Checks -> CheckStates]
        /\ check'[c] = Gated(c, mxCache.dns, mxCache.source)
        /\ \A d \in Checks \ {c} : check'[d] = check[d]
    BY <2>1, <2>2, GatedTypes, CheckMoves
  <2>4. /\ told' \in [Checks -> SUBSET Facts] /\ told'[c] = learnt
        /\ \A d \in Checks \ {c} : told'[d] = told[d]
    BY <1>1 DEF FindMx, TypeOK
  <2> QED
    BY <1>1, <2>3, <2>4 DEF FindMx, Moves, TypeOK
<1>2. CASE mxCache = Absent
  <2>1. [check[c] EXCEPT !.pc = "mx"] \in CheckStates
    <3>1. "mx" \in Places
      BY DEF Places
    <3> QED
      BY <3>1, StateOf, StateShape
  <2>2. check' = [check EXCEPT ![c] = [check[c] EXCEPT !.pc = "mx"]]
    BY <1>2 DEF FindMx, TypeOK
  <2>3. /\ check' \in [Checks -> CheckStates] /\ check'[c] = [check[c] EXCEPT !.pc = "mx"]
        /\ \A d \in Checks \ {c} : check'[d] = check[d]
    BY <2>1, <2>2, CheckMoves
  <2> QED
    BY <1>2, <2>3 DEF FindMx, Moves, TypeOK
<1> QED
  BY <1>1, <1>2

\* The first question of the resolver, by its outcomes.
LEMMA LookupMxMoves ==
  ASSUME TypeOK, NEW c \in Checks, NEW outcome \in MxOutcomes, LookupMx(c, outcome)
  PROVE  /\ \/ /\ outcome = "records" /\ heard'[c] = heard[c]
               /\ Moves(c, [check[c] EXCEPT !.pc = "put", !.dns = "resolved", !.source = "mx"])
            \/ /\ outcome = "null" /\ heard'[c] = heard[c] \cup {"null_mx"}
               /\ Moves(c, [check[c] EXCEPT !.pc = "put", !.dns = "resolved", !.source = "null"])
            \/ /\ outcome = "unusable" /\ heard'[c] = heard[c]
               /\ Moves(c, [check[c] EXCEPT !.pc = "ip"])
            \/ /\ outcome \in {"absent", "failed"}
               /\ heard'[c] = heard[c] \cup {IF outcome = "absent" THEN "no_domain" ELSE "dns_failed"}
               /\ Moves(c, [check[c] EXCEPT !.pc = "put", !.source = "none",
                                           !.dns = ClassifyDNSError(outcome)])
         /\ UNCHANGED <<mxCache, told, learnt>>
<1> DEFINE records == [check[c] EXCEPT !.pc = "put", !.dns = "resolved", !.source = "mx"]
           null == [check[c] EXCEPT !.pc = "put", !.dns = "resolved", !.source = "null"]
           unusable == [check[c] EXCEPT !.pc = "ip"]
           error == [check[c] EXCEPT !.pc = "put", !.source = "none",
                                     !.dns = ClassifyDNSError(outcome)]
<1>1. /\ records \in CheckStates /\ null \in CheckStates
      /\ unusable \in CheckStates /\ error \in CheckStates
  <2>1. /\ "put" \in Places /\ "ip" \in Places
        /\ "resolved" \in DnsStates /\ ClassifyDNSError(outcome) \in DnsStates
        /\ "mx" \in HostSources /\ "null" \in HostSources /\ "none" \in HostSources
    BY DEF Places, DnsStates, HostSources, Sources, ClassifyDNSError
  <2> QED
    BY <2>1, StateOf, StateShape
<1>2. /\ domain' = domain /\ smtp' = smtp /\ UNCHANGED <<mxCache, told, learnt>>
      /\ told' \in [Checks -> SUBSET Facts] /\ heard \in [Checks -> SUBSET Facts]
      /\ check \in [Checks -> CheckStates]
  BY DEF LookupMx, TypeOK
<1>3. CASE outcome = "records"
  <2>1. check' = [check EXCEPT ![c] = records] /\ heard' = heard
    BY <1>3, <1>2 DEF LookupMx
  <2> HIDE DEF records
  <2>2. Moves(c, records)
    BY <1>1, <1>2, <2>1, CheckMoves DEF Moves
  <2> QED
    BY <1>2, <1>3, <2>1, <2>2 DEF records
<1>4. CASE outcome = "null"
  <2>1. check' = [check EXCEPT ![c] = null] /\ Hear(c, {"null_mx"})
    BY <1>4, <1>2 DEF LookupMx
  <2> HIDE DEF null
  <2>2. /\ heard' \in [Checks -> SUBSET Facts] /\ heard'[c] = heard[c] \cup {"null_mx"}
        /\ \A d \in Checks \ {c} : heard'[d] = heard[d]
    <3>1. {"null_mx"} \in SUBSET Facts
      BY DEF Facts
    <3> QED
      BY <3>1, <2>1, HearMoves
  <2>3. Moves(c, null)
    BY <1>1, <1>2, <2>1, <2>2, CheckMoves DEF Moves
  <2> QED
    BY <1>2, <1>4, <2>2, <2>3 DEF null
<1>5. CASE outcome = "unusable"
  <2>1. check' = [check EXCEPT ![c] = unusable] /\ heard' = heard
    BY <1>5, <1>2 DEF LookupMx
  <2> HIDE DEF unusable
  <2>2. Moves(c, unusable)
    BY <1>1, <1>2, <2>1, CheckMoves DEF Moves
  <2> QED
    BY <1>2, <1>5, <2>1, <2>2 DEF unusable
<1>6. CASE outcome \in {"absent", "failed"}
  <2> DEFINE facts == {IF outcome = "absent" THEN "no_domain" ELSE "dns_failed"}
  <2>1. check' = [check EXCEPT ![c] = error] /\ Hear(c, facts)
    BY <1>6, <1>2 DEF LookupMx
  <2>2. facts \in SUBSET Facts
    BY DEF Facts
  <2> HIDE DEF error, facts
  <2>3. /\ heard' \in [Checks -> SUBSET Facts] /\ heard'[c] = heard[c] \cup facts
        /\ \A d \in Checks \ {c} : heard'[d] = heard[d]
    BY <2>1, <2>2, HearMoves
  <2>4. Moves(c, error)
    BY <1>1, <1>2, <2>1, <2>3, CheckMoves DEF Moves
  <2> QED
    BY <1>2, <1>6, <2>3, <2>4 DEF error, facts
<1> QED
  BY <1>3, <1>4, <1>5, <1>6 DEF MxOutcomes

\* The second question.
LEMMA LookupIpMoves ==
  ASSUME TypeOK, NEW c \in Checks, NEW outcome \in IpOutcomes, LookupIp(c, outcome)
  PROVE  /\ Moves(c, [check[c] EXCEPT !.pc = "put", !.dns = "resolved",
                !.source = IF outcome \in {"a", "aaaa"} THEN outcome ELSE "none"])
         /\ heard'[c] = heard[c] \cup (CASE outcome = "absent" -> {"no_address"}
                                         [] outcome = "failed" -> {"address_failed"}
                                         [] OTHER -> {})
         /\ UNCHANGED <<mxCache, told, learnt>>
<1> DEFINE new == [check[c] EXCEPT !.pc = "put", !.dns = "resolved",
                     !.source = IF outcome \in {"a", "aaaa"} THEN outcome ELSE "none"]
           facts == CASE outcome = "absent" -> {"no_address"}
                      [] outcome = "failed" -> {"address_failed"}
                      [] OTHER -> {}
<1>1. new \in CheckStates
  <2>1. /\ "put" \in Places /\ "resolved" \in DnsStates
        /\ (IF outcome \in {"a", "aaaa"} THEN outcome ELSE "none") \in HostSources
    BY DEF Places, DnsStates, HostSources, Sources
  <2> QED
    BY <2>1, StateOf, StateShape
<1>2. check' = [check EXCEPT ![c] = new] /\ Hear(c, facts)
  BY DEF LookupIp, TypeOK
<1>3. facts \in SUBSET Facts
  BY DEF Facts
<1> HIDE DEF new, facts
<1>4. /\ heard' \in [Checks -> SUBSET Facts] /\ heard'[c] = heard[c] \cup facts
      /\ \A d \in Checks \ {c} : heard'[d] = heard[d]
  BY <1>2, <1>3, HearMoves
<1>5. Moves(c, new)
  BY <1>1, <1>2, <1>4, CheckMoves DEF LookupIp, Moves, TypeOK
<1> QED
  BY <1>4, <1>5 DEF new, facts, LookupIp

\* The entry put, and the gate.
LEMMA PutMxMoves ==
  ASSUME TypeOK, NEW c \in Checks, PutMx(c)
  PROVE  /\ Moves(c, Gated(c, check[c].dns, check[c].source))
         /\ UNCHANGED <<heard, told>>
         /\ IF Cacheable(check[c].dns)
            THEN /\ mxCache' = [dns |-> check[c].dns, source |-> check[c].source]
                 /\ learnt' = heard[c]
            ELSE UNCHANGED <<mxCache, learnt>>
<1>1. check[c].dns \in DnsStates /\ check[c].source \in HostSources
  BY StateOf, StateShape
<1>2. /\ check' \in [Checks -> CheckStates]
      /\ check'[c] = Gated(c, check[c].dns, check[c].source)
      /\ \A d \in Checks \ {c} : check'[d] = check[d]
  BY <1>1, GatedTypes, CheckMoves DEF PutMx
<1> QED
  BY <1>2 DEF PutMx, Moves, TypeOK

\* CheckSMTP returns with an error, or with a typed nil.
LEMMA FailMoves ==
  ASSUME TypeOK, NEW c \in Checks, NEW answer \in Answers, Fail(c, answer),
         UNCHANGED <<domain, smtp, mxCache, told, learnt>>
  PROVE  /\ Moves(c, [check[c] EXCEPT
                !.pc = IF ParseSMTPError(answer) = "nil" THEN "panicked" ELSE "assess",
                !.checkReason = "attempted",
                !.transport = IF ParseSMTPError(answer) = "nil" THEN "none"
                              ELSE ParseSMTPError(answer)])
         /\ heard'[c] = heard[c] \cup (IF Transient(answer) THEN {"transient"} ELSE {})
<1> DEFINE new == [check[c] EXCEPT
                     !.pc = IF ParseSMTPError(answer) = "nil" THEN "panicked" ELSE "assess",
                     !.checkReason = "attempted",
                     !.transport = IF ParseSMTPError(answer) = "nil" THEN "none"
                                   ELSE ParseSMTPError(answer)]
           facts == IF Transient(answer) THEN {"transient"} ELSE {}
<1>1. new \in CheckStates
  <2>1. /\ (IF ParseSMTPError(answer) = "nil" THEN "panicked" ELSE "assess") \in Places
        /\ "attempted" \in CheckReasons
    BY DEF Places, CheckReasons
  <2>2. (IF ParseSMTPError(answer) = "nil" THEN "none" ELSE ParseSMTPError(answer)) \in Transports
    BY AnswerTypes DEF Transports
  <2> QED
    BY <2>1, <2>2, StateOf, StateShape
<1>2. check' = [check EXCEPT ![c] = new] /\ Hear(c, facts)
  BY DEF Fail, TypeOK
<1>3. facts \in SUBSET Facts
  BY DEF Facts
<1> HIDE DEF new, facts
<1>4. /\ heard' \in [Checks -> SUBSET Facts] /\ heard'[c] = heard[c] \cup facts
      /\ \A d \in Checks \ {c} : heard'[d] = heard[d]
  BY <1>2, <1>3, HearMoves
<1>5. Moves(c, new)
  BY <1>1, <1>2, <1>4, CheckMoves DEF Moves, TypeOK
<1> QED
  BY <1>4, <1>5 DEF new, facts

\* newSMTPClient succeeds.
LEMMA ConnectMoves ==
  ASSUME TypeOK, NEW c \in Checks, Connect(c)
  PROVE  /\ Moves(c, [check[c] EXCEPT !.pc = "hello"])
         /\ UNCHANGED <<mxCache, history>>
<1> DEFINE new == [check[c] EXCEPT !.pc = "hello"]
<1>1. new \in CheckStates
  <2>1. "hello" \in Places
    BY DEF Places
  <2> QED
    BY <2>1, StateOf, StateShape
<1>2. check' = [check EXCEPT ![c] = new]
  BY DEF Connect, TypeOK
<1> HIDE DEF new
<1>3. Moves(c, new) /\ UNCHANGED <<mxCache, history>>
  BY <1>1, <1>2, CheckMoves DEF Connect, Moves, TypeOK, history
<1> QED
  BY <1>3 DEF new

\* HELO or MAIL FROM is accepted.
LEMMA IntroduceMoves ==
  ASSUME TypeOK, NEW c \in Checks, NEW answer \in Answers, Introduce(c, answer),
         answer.code = 250
  PROVE  /\ Moves(c, [check[c] EXCEPT !.pc = IF At(c, "hello") THEN "mail" ELSE "probe"])
         /\ heard'[c] = heard[c] \cup (IF At(c, "mail") THEN {"greeted"} ELSE {})
         /\ UNCHANGED <<mxCache, told, learnt>>
<1> DEFINE new == [check[c] EXCEPT !.pc = IF At(c, "hello") THEN "mail" ELSE "probe"]
           facts == IF At(c, "mail") THEN {"greeted"} ELSE {}
<1>1. new \in CheckStates
  <2>1. (IF At(c, "hello") THEN "mail" ELSE "probe") \in Places
    BY DEF Places
  <2> QED
    BY <2>1, StateOf, StateShape
<1>2. check' = [check EXCEPT ![c] = new] /\ Hear(c, facts)
  BY DEF Introduce, TypeOK
<1>3. facts \in SUBSET Facts
  BY DEF Facts
<1> HIDE DEF new, facts
<1>4. /\ heard' \in [Checks -> SUBSET Facts] /\ heard'[c] = heard[c] \cup facts
      /\ \A d \in Checks \ {c} : heard'[d] = heard[d]
  BY <1>2, <1>3, HearMoves
<1>5. UNCHANGED <<domain, smtp, mxCache, told, learnt>> /\ told \in [Checks -> SUBSET Facts]
  BY DEF Introduce, TypeOK
<1>6. /\ check' \in [Checks -> CheckStates] /\ check'[c] = new
      /\ \A d \in Checks \ {c} : check'[d] = check[d]
  BY <1>1, <1>2, CheckMoves
<1>7. Moves(c, new)
  BY <1>4, <1>5, <1>6 DEF Moves
<1> QED
  BY <1>4, <1>5, <1>7 DEF new, facts

\* The answer to the random address.
LEMMA ProbeMoves ==
  ASSUME TypeOK, NEW c \in Checks, NEW answer \in Answers, Probe(c, answer)
  PROVE  /\ Moves(c, [check[c] EXCEPT
                !.catchAll = CatchAllOf(answer),
                !.transport = ReplyTransport(answer),
                !.checkReason = IF CatchAllOf(answer) = "confirmed" THEN "catch_all" ELSE "attempted",
                !.pc = IF CatchAllOf(answer) = "confirmed" \/ ~IsReply(answer)
                       THEN "assess" ELSE "rcpt"])
         /\ heard'[c] = heard[c] \cup ((IF Accepts(answer) THEN {"probe_accepted"} ELSE {})
                                        \cup (IF IsReply(answer) THEN {} ELSE {"transient"})
                                        \cup (IF answer.code \in 400..499
                                              THEN {"probe_temporary"} ELSE {}))
         /\ UNCHANGED <<mxCache, told, learnt>>
<1> DEFINE new == [check[c] EXCEPT
                     !.catchAll = CatchAllOf(answer),
                     !.transport = ReplyTransport(answer),
                     !.checkReason = IF CatchAllOf(answer) = "confirmed" THEN "catch_all" ELSE "attempted",
                     !.pc = IF CatchAllOf(answer) = "confirmed" \/ ~IsReply(answer)
                            THEN "assess" ELSE "rcpt"]
           facts == (IF Accepts(answer) THEN {"probe_accepted"} ELSE {})
                      \cup (IF IsReply(answer) THEN {} ELSE {"transient"})
                      \cup (IF answer.code \in 400..499 THEN {"probe_temporary"} ELSE {})
<1>1. new \in CheckStates
  <2>1. /\ (IF CatchAllOf(answer) = "confirmed" \/ ~IsReply(answer)
            THEN "assess" ELSE "rcpt") \in Places
        /\ (IF CatchAllOf(answer) = "confirmed" THEN "catch_all" ELSE "attempted") \in CheckReasons
        /\ CatchAllOf(answer) \in CatchAlls
    BY DEF Places, CheckReasons, CatchAlls, CatchAllOf
  <2>2. ReplyTransport(answer) \in Transports
    BY AnswerTypes
  <2> QED
    BY <2>1, <2>2, StateOf, StateShape
<1>2. check' = [check EXCEPT ![c] = new] /\ Hear(c, facts)
  BY DEF Probe, TypeOK
<1>3. facts \in SUBSET Facts
  BY DEF Facts
<1> HIDE DEF new, facts
<1>4. /\ heard' \in [Checks -> SUBSET Facts] /\ heard'[c] = heard[c] \cup facts
      /\ \A d \in Checks \ {c} : heard'[d] = heard[d]
  BY <1>2, <1>3, HearMoves
<1>5. Moves(c, new)
  BY <1>1, <1>2, <1>4, CheckMoves DEF Probe, Moves, TypeOK
<1> QED
  BY <1>4, <1>5 DEF new, facts, Probe

\* The answer to the address itself.
LEMMA RcptMoves ==
  ASSUME TypeOK, NEW c \in Checks, NEW answer \in Answers, Rcpt(c, answer)
  PROVE  /\ Moves(c, [check[c] EXCEPT !.pc = "assess", !.recipient = RecipientReply(answer),
                                     !.transport = ReplyTransport(answer)])
         /\ heard'[c] = heard[c] \cup RcptFacts(answer)
         /\ UNCHANGED <<mxCache, told, learnt>>
<1> DEFINE new == [check[c] EXCEPT !.pc = "assess", !.recipient = RecipientReply(answer),
                                   !.transport = ReplyTransport(answer)]
<1>1. new \in CheckStates
  <2>1. "assess" \in Places
    BY DEF Places
  <2>2. RecipientReply(answer) \in Recipients /\ ReplyTransport(answer) \in Transports
    BY AnswerTypes
  <2> QED
    BY <2>1, <2>2, StateOf, StateShape
<1>2. check' = [check EXCEPT ![c] = new] /\ Hear(c, RcptFacts(answer))
  BY DEF Rcpt, TypeOK
<1>3. RcptFacts(answer) \in SUBSET Facts
  BY DEF Facts, RcptFacts
<1> HIDE DEF new
<1>4. /\ heard' \in [Checks -> SUBSET Facts] /\ heard'[c] = heard[c] \cup RcptFacts(answer)
      /\ \A d \in Checks \ {c} : heard'[d] = heard[d]
  BY <1>2, <1>3, HearMoves
<1>5. Moves(c, new)
  BY <1>1, <1>2, <1>4, CheckMoves DEF Rcpt, Moves, TypeOK
<1> QED
  BY <1>4, <1>5 DEF new, Rcpt

-----------------------------------------------------------------------------
(***************************************************************************)
(* What a step leaves alone.                                               *)
(***************************************************************************)

\* The five properties, of one verification.
ProvenOf(c) ==
    Done(c) =>
      /\ Verdict(c) = "valid" =>
           /\ {"greeted", "accepted"} \subseteq heard[c]
           /\ "probe_accepted" \notin heard[c]
           /\ c \notin Roles
           /\ domain.kind = "regular"
           /\ smtp = "on"
      /\ Verdict(c) = "invalid" =>
           \/ check[c].syntax = "malformed"
           \/ "no_domain" \in heard[c]
           \/ {"null_mx", "no_address", "address_failed"} \cap (heard[c] \cup told[c]) # {}
           \/ /\ {"greeted", "no_mailbox"} \subseteq heard[c]
              /\ "probe_accepted" \notin heard[c]
      /\ {"dns_failed", "transient"} \cap heard[c] # {} =>
            Verdict(c) \in {"unknown", "risky"} /\ Retryable(check[c].reason)
      /\ "probe_temporary" \in heard[c] =>
            /\ check[c].reason # "catch_all"
            /\ Verdict(c) \in {"valid", "invalid"} =>
                  {"accepted", "no_mailbox"} \cap heard[c] # {}
      /\ Verdict(c) = "valid" => check[c].library = "yes"
      /\ check[c].library = "yes" => Verdict(c) \in {"valid", "risky"}
      /\ Verdict(c) = "invalid" =>
            check[c].library =
                IF check[c].syntax = "malformed" \/ domain.kind = "disposable"
                THEN "unknown" ELSE "no"
      /\ Verdict(c) = "invalid" => check[c].score = 0
      /\ RateAtLeast(domain.rep, 50) => check[c].score <= 20

\* The five properties hold when they do of each verification.
LEMMA ProvenParts ==
  /\ ValidIsProven /\ InvalidIsProven /\ TransientsRetry /\ LibraryAgrees /\ ScoresAgree
       <=> \A c \in Checks : ProvenOf(c)
  /\ ValidIsProven' /\ InvalidIsProven' /\ TransientsRetry' /\ LibraryAgrees' /\ ScoresAgree'
       <=> \A c \in Checks : ProvenOf(c)'
<1>1. ValidIsProven /\ InvalidIsProven /\ TransientsRetry /\ LibraryAgrees /\ ScoresAgree
       <=> \A c \in Checks : ProvenOf(c)
  BY Zenon DEF ValidIsProven, InvalidIsProven, TransientsRetry, LibraryAgrees, ScoresAgree, ProvenOf
<1>2. ValidIsProven' /\ InvalidIsProven' /\ TransientsRetry' /\ LibraryAgrees' /\ ScoresAgree'
       <=> \A c \in Checks : ProvenOf(c)'
  BY Zenon DEF ValidIsProven, InvalidIsProven, TransientsRetry, LibraryAgrees, ScoresAgree, ProvenOf
<1> QED
  BY <1>1, <1>2

\* What PhaseOf and ProvenOf speak of.
Untouched(c) ==
    /\ check'[c] = check[c] /\ heard'[c] = heard[c] /\ told'[c] = told[c]
    /\ domain' = domain /\ smtp' = smtp

\* A verification no step touched keeps its verdict and what it rests on.
LEMMA ProvenStays ==
  ASSUME NEW c \in Checks, Untouched(c), ProvenOf(c)
  PROVE  ProvenOf(c)'
  BY DEF ProvenOf, Untouched, Done, At, Verdict

\* What is known of a verification no step touched stays known.
LEMMA PartsStay ==
  ASSUME NEW c \in Checks, Untouched(c)
  PROVE  /\ Unresolved(c)' <=> Unresolved(c)
         /\ Parsed(c)' <=> Parsed(c)
         /\ Resolved(c)' <=> Resolved(c)
         /\ Talking(c)' <=> Talking(c)
         /\ Mute(c)' <=> Mute(c)
         /\ OfMail(c)' = OfMail(c)
         /\ ButProbe(c)' = ButProbe(c)
         /\ Malformed(c)' <=> Malformed(c)
         /\ Stopped(c)' <=> Stopped(c)
         /\ Failed(c)' <=> Failed(c)
         /\ CatchAll(c)' <=> CatchAll(c)
         /\ Answered(c)' <=> Answered(c)
<1>1. /\ Mute(c)' <=> Mute(c)
      /\ Parsed(c)' <=> Parsed(c)
      /\ OfMail(c)' = OfMail(c)
      /\ ButProbe(c)' = ButProbe(c)
  BY DEF Untouched, Mute, Parsed, OfMail, ButProbe
<1>2. /\ Unresolved(c)' <=> Unresolved(c)
      /\ Resolved(c)' <=> Resolved(c)
  BY <1>1 DEF Untouched, Unresolved, Resolved
<1>3. GateReason(check[c].dns, check[c].source)' = GateReason(check[c].dns, check[c].source)
  BY DEF Untouched, GateReason
<1>4. Talking(c)' <=> Talking(c)
  BY <1>2, <1>3 DEF Talking
<1>5. /\ Malformed(c)' <=> Malformed(c)
      /\ Stopped(c)' <=> Stopped(c)
      /\ Failed(c)' <=> Failed(c)
      /\ CatchAll(c)' <=> CatchAll(c)
      /\ Answered(c)' <=> Answered(c)
  BY <1>1, <1>2, <1>3, <1>4 DEF Untouched, Malformed, Stopped, Failed, CatchAll, Answered
<1> QED
  BY <1>1, <1>2, <1>4, <1>5

\* ... and with it its place.
LEMMA PhaseStays ==
  ASSUME NEW c \in Checks, Untouched(c), PhaseOf(c)
  PROVE  PhaseOf(c)'
<1>1. At(c, "idle")' <=> At(c, "idle")
  BY DEF Untouched, At
<1> QED
  BY PartsStay DEF Untouched, PhaseOf, At

\* A step of c keeps the invariant when it does for c and for the cache.
LEMMA MovesKeep ==
  ASSUME PipelineInv, NEW c \in Checks, NEW new, Moves(c, new),
         mxCache' \in Entries \cup {Absent}, learnt' \subseteq Facts,
         CachePhase', PhaseOf(c)', ProvenOf(c)'
  PROVE  PipelineInv'
<1>1. TypeOK'
  BY DEF PipelineInv, TypeOK, Moves
<1>2. ASSUME NEW d \in Checks PROVE PhaseOf(d)' /\ ProvenOf(d)'
  <2>1. CASE d # c
    <3>1. Untouched(d)
      BY <2>1 DEF Moves, Untouched
    <3>2. PhaseOf(d) /\ ProvenOf(d)
      BY ProvenParts DEF PipelineInv
    <3> QED
      BY <3>1, <3>2, PhaseStays, ProvenStays
  <2> QED
    BY <2>1
<1> QED
  BY <1>1, <1>2, ProvenParts DEF PipelineInv

-----------------------------------------------------------------------------
(***************************************************************************)
(* Up to the gate.                                                         *)
(***************************************************************************)

\* An entry no step touched stays backed.
LEMMA CacheStays ==
  ASSUME PipelineInv, mxCache' = mxCache, learnt' = learnt
  PROVE  CachePhase' /\ mxCache' \in Entries \cup {Absent} /\ learnt' \subseteq Facts
<1>1. CachePhase /\ TypeOK
  BY DEF PipelineInv
<1> QED
  BY <1>1 DEF CachePhase, TypeOK

\* Nothing is asked of a verification that has not returned.
LEMMA NotDoneYet ==
  ASSUME NEW c \in Checks, check'[c].pc # "done"
  PROVE  ProvenOf(c)'
  BY DEF ProvenOf, Done, At

\* A suppressed address leaves the invariant alone.
LEMMA SuppressedKeeps ==
  ASSUME PipelineInv, NEW c \in Checks, Suppressed(c)
  PROVE  PipelineInv'
<1> DEFINE new == [check[c] EXCEPT !.pc = "suppressed"]
<1>1. Moves(c, new) /\ UNCHANGED <<mxCache, history>>
  BY SuppressedMoves DEF PipelineInv
<1>2. new.pc = "suppressed"
  BY StateOf, StateShape DEF PipelineInv
<1> HIDE DEF new
<1>3. check'[c].pc = "suppressed"
  BY <1>1, <1>2 DEF Moves
<1>4. PhaseOf(c)' /\ ProvenOf(c)'
  BY <1>3, NotDoneYet DEF PhaseOf, At
<1> QED
  BY <1>1, <1>4, CacheStays, MovesKeep DEF history

\* A malformed address is judged at once, any other goes to the mail hosts.
LEMMA ParseKeeps ==
  ASSUME PipelineInv, NEW c \in Checks, NEW syntax \in {"valid", "malformed"}, Parse(c, syntax)
  PROVE  PipelineInv'
<1> DEFINE new == [check[c] EXCEPT !.pc = IF syntax = "valid" THEN "cache" ELSE "assess",
                                   !.syntax = syntax,
                                   !.account = IF c \in Roles THEN "role" ELSE "personal",
                                   !.domain = domain.kind]
<1>1. Moves(c, new) /\ UNCHANGED <<mxCache, history>>
  BY ParseMoves DEF PipelineInv
<1>2. /\ new.pc = IF syntax = "valid" THEN "cache" ELSE "assess"
      /\ new.syntax = syntax
      /\ new.account = IF c \in Roles THEN "role" ELSE "personal"
      /\ new.domain = domain.kind
      /\ new.dns = check[c].dns /\ new.source = check[c].source
      /\ new.recipient = check[c].recipient /\ new.catchAll = check[c].catchAll
      /\ new.transport = check[c].transport
  BY StateOf, StateShape DEF PipelineInv
<1>3. Unresolved(c)
  BY DEF PipelineInv, PhaseOf, Parse
<1> HIDE DEF new
<1>4. check'[c] = new /\ domain' = domain /\ heard' = heard /\ told' = told
  BY <1>1 DEF Moves, history
<1>5. Unresolved(c)'
  BY <1>2, <1>3, <1>4 DEF Unresolved, Mute
<1>6. CASE syntax = "valid"
  <2>1. Parsed(c)' /\ check'[c].pc = "cache"
    BY <1>2, <1>4, <1>6 DEF Parsed
  <2>2. PhaseOf(c)' /\ ProvenOf(c)'
    BY <1>5, <2>1, NotDoneYet DEF PhaseOf, At
  <2> QED
    BY <1>1, <2>2, CacheStays, MovesKeep DEF history
<1>7. CASE syntax = "malformed"
  <2>1. Malformed(c)' /\ check'[c].pc = "assess"
    BY <1>2, <1>4, <1>5, <1>7 DEF Malformed
  <2>2. PhaseOf(c)' /\ ProvenOf(c)'
    BY <2>1, NotDoneYet DEF PhaseOf, At
  <2> QED
    BY <1>1, <2>2, CacheStays, MovesKeep DEF history
<1> QED
  BY <1>6, <1>7

\* Behind the gate a verification is dialled or judged at once.
LEMMA GatePhase ==
  ASSUME PipelineInv, NEW c \in Checks,
         NEW dns \in DnsStates, NEW source \in HostSources, Moves(c, Gated(c, dns, source)),
         Parsed(c), Mute(c), heard'[c] \cap MailFacts = {},
         dns # "", source # "",
         dns = "not_found" => "no_domain" \in heard'[c],
         "dns_failed" \in heard'[c] => dns = "temporary",
         dns # "resolved" => source = "none",
         Backed(dns, source, heard'[c] \cup told'[c])
  PROVE  PhaseOf(c)' /\ ProvenOf(c)'
<1> DEFINE new == Gated(c, dns, source)
           stop == GateReason(dns, source)
<1>1. /\ new.dns = dns /\ new.source = source /\ new.checkReason = stop
      /\ new.pc = IF stop = "" THEN "dial" ELSE "assess"
      /\ new.syntax = check[c].syntax /\ new.account = check[c].account
      /\ new.domain = check[c].domain
      /\ new.recipient = check[c].recipient /\ new.catchAll = check[c].catchAll
      /\ new.transport = check[c].transport
  BY StateOf, StateShape DEF PipelineInv, Gated
<1>2. check'[c] = new /\ domain' = domain /\ smtp' = smtp
  BY DEF Moves
<1>3. GateReason(dns, source)' = stop
  BY <1>2 DEF GateReason
<1> HIDE DEF new
<1>4. Parsed(c)' /\ Mute(c)' /\ OfMail(c)' = {}
  BY <1>1, <1>2 DEF Parsed, Mute, OfMail
<1>5. Resolved(c)'
  BY <1>1, <1>2, <1>4 DEF Resolved
<1>6. GateReason(check[c].dns, check[c].source)' = stop
  BY <1>1, <1>2 DEF GateReason, stop
<1>7. CASE stop = ""
  <2>1. Talking(c)' /\ check'[c].pc = "dial"
    BY <1>1, <1>2, <1>5, <1>6, <1>7 DEF Talking
  <2> QED
    BY <1>4, <2>1, NotDoneYet DEF PhaseOf, At
<1>8. CASE stop # ""
  <2>1. Stopped(c)' /\ check'[c].pc = "assess"
    BY <1>1, <1>2, <1>4, <1>5, <1>6, <1>8 DEF Stopped
  <2> QED
    BY <2>1, NotDoneYet DEF PhaseOf, At
<1> QED
  BY <1>7, <1>8

\* An entry of the cache brings what its resolver was told.
LEMMA FindMxKeeps ==
  ASSUME PipelineInv, NEW c \in Checks, FindMx(c)
  PROVE  PipelineInv'
<1>1. /\ Moves(c, IF mxCache # Absent THEN Gated(c, mxCache.dns, mxCache.source)
                  ELSE [check[c] EXCEPT !.pc = "mx"])
      /\ told'[c] = IF mxCache # Absent THEN learnt ELSE told[c]
      /\ UNCHANGED <<mxCache, heard, learnt>>
  BY FindMxMoves DEF PipelineInv
<1>2. Unresolved(c) /\ Parsed(c)
  BY DEF PipelineInv, PhaseOf, FindMx, At
<1>3. Mute(c) /\ heard'[c] = {} /\ told[c] = {}
  BY <1>1, <1>2 DEF Unresolved
<1>4. CASE mxCache # Absent
  <2>1. /\ mxCache \in Entries /\ Backed(mxCache.dns, mxCache.source, learnt)
    BY <1>4 DEF PipelineInv, CachePhase
  <2>2. /\ mxCache.dns = "resolved" /\ mxCache.source # ""
        /\ mxCache.dns \in DnsStates /\ mxCache.source \in HostSources
    BY <2>1 DEF Entries, Sources, DnsStates, HostSources
  <2>3. Backed(mxCache.dns, mxCache.source, heard'[c] \cup told'[c])
    BY <1>1, <1>3, <1>4, <2>1 DEF Backed
  <2>4. Moves(c, Gated(c, mxCache.dns, mxCache.source))
    BY <1>1, <1>4
  <2>5. PhaseOf(c)' /\ ProvenOf(c)'
    BY <1>2, <1>3, <2>2, <2>3, <2>4, GatePhase
  <2> QED
    BY <1>1, <2>4, <2>5, CacheStays, MovesKeep
<1>5. CASE mxCache = Absent
  <2> DEFINE new == [check[c] EXCEPT !.pc = "mx"]
  <2>1. /\ new.pc = "mx" /\ new.syntax = check[c].syntax /\ new.account = check[c].account
        /\ new.domain = check[c].domain
        /\ new.dns = check[c].dns /\ new.source = check[c].source
        /\ new.recipient = check[c].recipient /\ new.catchAll = check[c].catchAll
        /\ new.transport = check[c].transport
    BY StateOf, StateShape DEF PipelineInv
  <2>2. Moves(c, new)
    BY <1>1, <1>5
  <2> HIDE DEF new
  <2>3. check'[c] = new /\ domain' = domain /\ heard'[c] = heard[c] /\ told'[c] = told[c]
    BY <1>1, <1>5, <2>2 DEF Moves
  <2>4. Unresolved(c)' /\ Parsed(c)' /\ check'[c].pc = "mx"
    BY <1>2, <2>1, <2>3 DEF Unresolved, Mute, Parsed
  <2>5. PhaseOf(c)' /\ ProvenOf(c)'
    BY <2>4, NotDoneYet DEF PhaseOf, At
  <2> QED
    BY <1>1, <2>2, <2>5, CacheStays, MovesKeep
<1> QED
  BY <1>4, <1>5

\* An answered question leaves the entry to be put.
LEMMA PutPhase ==
  ASSUME PipelineInv, NEW c \in Checks, NEW new, Moves(c, new),
         new.pc = "put", new.syntax = check[c].syntax, new.account = check[c].account,
         new.domain = check[c].domain, new.recipient = check[c].recipient,
         new.catchAll = check[c].catchAll, new.transport = check[c].transport,
         Parsed(c), Mute(c), heard'[c] \cap MailFacts = {}, told'[c] = {},
         new.dns # "", new.source # "",
         new.dns = "not_found" => "no_domain" \in heard'[c],
         "dns_failed" \in heard'[c] => new.dns = "temporary",
         new.dns # "resolved" => new.source = "none",
         Backed(new.dns, new.source, heard'[c])
  PROVE  PhaseOf(c)' /\ ProvenOf(c)'
<1>1. check'[c] = new /\ domain' = domain
  BY DEF Moves
<1>2. Parsed(c)' /\ Mute(c)' /\ OfMail(c)' = {}
  BY <1>1 DEF Parsed, Mute, OfMail
<1>3. Backed(new.dns, new.source, heard'[c] \cup told'[c])
  BY DEF Backed
<1>4. Resolved(c)'
  BY <1>1, <1>2, <1>3 DEF Resolved
<1> QED
  BY <1>1, <1>2, <1>4, NotDoneYet DEF PhaseOf, At

\* Only an authoritative "not found" makes the domain not found.
LEMMA LookupMxKeeps ==
  ASSUME PipelineInv, NEW c \in Checks, NEW outcome \in MxOutcomes, LookupMx(c, outcome)
  PROVE  PipelineInv'
<1> USE DEF PipelineInv
<1>1. UNCHANGED <<mxCache, told, learnt>>
  BY LookupMxMoves
<1>2. Unresolved(c) /\ Parsed(c)
  BY DEF PhaseOf, LookupMx, At
<1>3. Mute(c) /\ heard[c] = {} /\ told'[c] = {}
  BY <1>1, <1>2 DEF Unresolved
<1>4. CASE outcome = "records"
  <2> DEFINE new == [check[c] EXCEPT !.pc = "put", !.dns = "resolved", !.source = "mx"]
  <2>1. Moves(c, new) /\ heard'[c] = heard[c]
    BY <1>4, LookupMxMoves
  <2>2. /\ new.pc = "put" /\ new.syntax = check[c].syntax /\ new.account = check[c].account
        /\ new.domain = check[c].domain /\ new.recipient = check[c].recipient
        /\ new.catchAll = check[c].catchAll /\ new.transport = check[c].transport
        /\ new.dns = "resolved" /\ new.source = "mx"
    BY StateOf, StateShape
  <2> HIDE DEF new, PipelineInv
  <2>3. Backed(new.dns, new.source, heard'[c])
    BY <2>2 DEF Backed
  <2>4. PhaseOf(c)' /\ ProvenOf(c)'
    BY <1>2, <1>3, <2>1, <2>2, <2>3, PutPhase
  <2> QED
    BY <1>1, <2>1, <2>4, CacheStays, MovesKeep
<1>5. CASE outcome = "null"
  <2> DEFINE new == [check[c] EXCEPT !.pc = "put", !.dns = "resolved", !.source = "null"]
  <2>1. Moves(c, new) /\ heard'[c] = heard[c] \cup {"null_mx"}
    BY <1>5, LookupMxMoves
  <2>2. /\ new.pc = "put" /\ new.syntax = check[c].syntax /\ new.account = check[c].account
        /\ new.domain = check[c].domain /\ new.recipient = check[c].recipient
        /\ new.catchAll = check[c].catchAll /\ new.transport = check[c].transport
        /\ new.dns = "resolved" /\ new.source = "null"
    BY StateOf, StateShape
  <2> HIDE DEF new, PipelineInv
  <2>3. Backed(new.dns, new.source, heard'[c])
    BY <2>1, <2>2 DEF Backed
  <2>4. heard'[c] \cap MailFacts = {} /\ "dns_failed" \notin heard'[c]
    BY <1>3, <2>1 DEF MailFacts
  <2>5. PhaseOf(c)' /\ ProvenOf(c)'
    BY <1>2, <1>3, <2>1, <2>2, <2>3, <2>4, PutPhase
  <2> QED
    BY <1>1, <2>1, <2>5, CacheStays, MovesKeep
<1>6. CASE outcome = "unusable"
  <2> DEFINE new == [check[c] EXCEPT !.pc = "ip"]
  <2>1. Moves(c, new) /\ heard'[c] = heard[c]
    BY <1>6, LookupMxMoves
  <2>2. /\ new.pc = "ip" /\ new.syntax = check[c].syntax /\ new.account = check[c].account
        /\ new.domain = check[c].domain
        /\ new.dns = check[c].dns /\ new.source = check[c].source
        /\ new.recipient = check[c].recipient /\ new.catchAll = check[c].catchAll
        /\ new.transport = check[c].transport
    BY StateOf, StateShape
  <2> HIDE DEF new, PipelineInv
  <2>3. check'[c] = new /\ domain' = domain
    BY <2>1 DEF Moves
  <2>4. Unresolved(c)' /\ Parsed(c)' /\ check'[c].pc = "ip"
    BY <1>2, <1>3, <2>1, <2>2, <2>3 DEF Unresolved, Mute, Parsed
  <2>5. PhaseOf(c)' /\ ProvenOf(c)'
    BY <2>4, NotDoneYet DEF PhaseOf, At
  <2> QED
    BY <1>1, <2>1, <2>5, CacheStays, MovesKeep
<1>7. CASE outcome \in {"absent", "failed"}
  <2> DEFINE new == [check[c] EXCEPT !.pc = "put", !.source = "none",
                                     !.dns = ClassifyDNSError(outcome)]
             fact == IF outcome = "absent" THEN "no_domain" ELSE "dns_failed"
  <2>1. Moves(c, new) /\ heard'[c] = heard[c] \cup {fact}
    BY <1>7, LookupMxMoves
  <2>2. /\ new.pc = "put" /\ new.syntax = check[c].syntax /\ new.account = check[c].account
        /\ new.domain = check[c].domain /\ new.recipient = check[c].recipient
        /\ new.catchAll = check[c].catchAll /\ new.transport = check[c].transport
        /\ new.dns = ClassifyDNSError(outcome) /\ new.source = "none"
    BY StateOf, StateShape
  <2> HIDE DEF new, PipelineInv
  <2>3. \/ new.dns = "not_found" /\ heard'[c] = {"no_domain"}
        \/ new.dns = "temporary" /\ heard'[c] = {"dns_failed"}
    BY <1>3, <1>7, <2>1, <2>2 DEF ClassifyDNSError
  <2>4. /\ Backed(new.dns, new.source, heard'[c])
        /\ heard'[c] \cap MailFacts = {}
    BY <2>2, <2>3 DEF Backed, MailFacts
  <2>5. /\ new.dns # "" /\ new.source # ""
        /\ new.dns = "not_found" => "no_domain" \in heard'[c]
        /\ "dns_failed" \in heard'[c] => new.dns = "temporary"
        /\ new.dns # "resolved" => new.source = "none"
    BY <2>2, <2>3
  <2>6. PhaseOf(c)' /\ ProvenOf(c)'
    BY <1>2, <1>3, <2>1, <2>2, <2>4, <2>5, PutPhase
  <2> QED
    BY <1>1, <2>1, <2>6, CacheStays, MovesKeep
<1> QED
  BY <1>4, <1>5, <1>6, <1>7 DEF MxOutcomes

\* No address leaves the domain without a mail host, an error as well.
LEMMA LookupIpKeeps ==
  ASSUME PipelineInv, NEW c \in Checks, NEW outcome \in IpOutcomes, LookupIp(c, outcome)
  PROVE  PipelineInv'
<1> DEFINE source == IF outcome \in {"a", "aaaa"} THEN outcome ELSE "none"
           new == [check[c] EXCEPT !.pc = "put", !.dns = "resolved", !.source = source]
           facts == CASE outcome = "absent" -> {"no_address"}
                      [] outcome = "failed" -> {"address_failed"}
                      [] OTHER -> {}
<1>1. /\ Moves(c, new) /\ heard'[c] = heard[c] \cup facts
      /\ UNCHANGED <<mxCache, told, learnt>>
  BY LookupIpMoves DEF PipelineInv
<1>2. Unresolved(c) /\ Parsed(c)
  BY DEF PhaseOf, LookupIp, At, PipelineInv
<1>3. Mute(c) /\ heard[c] = {} /\ told'[c] = {}
  BY <1>1, <1>2 DEF Unresolved
<1>4. /\ new.pc = "put" /\ new.syntax = check[c].syntax /\ new.account = check[c].account
      /\ new.domain = check[c].domain /\ new.recipient = check[c].recipient
      /\ new.catchAll = check[c].catchAll /\ new.transport = check[c].transport
      /\ new.dns = "resolved" /\ new.source = source
  BY StateOf, StateShape DEF PipelineInv
<1>5. \/ source \in {"a", "aaaa"} /\ facts = {}
      \/ source = "none" /\ facts = {"no_address"}
      \/ source = "none" /\ facts = {"address_failed"}
  BY DEF IpOutcomes
<1> HIDE DEF new, facts, source
<1>6. heard'[c] = facts
  BY <1>1, <1>3
<1>7. Backed(new.dns, new.source, heard'[c])
  BY <1>4, <1>5, <1>6 DEF Backed
<1>8. heard'[c] \cap MailFacts = {} /\ "dns_failed" \notin heard'[c] /\ source # ""
  BY <1>5, <1>6 DEF MailFacts
<1>9. PhaseOf(c)' /\ ProvenOf(c)'
  BY <1>1, <1>2, <1>3, <1>4, <1>7, <1>8, PutPhase
<1> QED
  BY <1>1, <1>9, CacheStays, MovesKeep

\* Only what resolved is remembered, with what backs it.
LEMMA PutMxKeeps ==
  ASSUME PipelineInv, NEW c \in Checks, PutMx(c)
  PROVE  PipelineInv'
<1>1. /\ Moves(c, Gated(c, check[c].dns, check[c].source))
      /\ UNCHANGED <<heard, told>>
      /\ IF Cacheable(check[c].dns)
         THEN /\ mxCache' = [dns |-> check[c].dns, source |-> check[c].source]
              /\ learnt' = heard[c]
         ELSE UNCHANGED <<mxCache, learnt>>
  BY PutMxMoves DEF PipelineInv
<1>2. Resolved(c) /\ Mute(c) /\ OfMail(c) = {} /\ told[c] = {}
  BY DEF PipelineInv, PhaseOf, PutMx
<1>3. /\ check[c].dns \in DnsStates /\ check[c].source \in HostSources
      /\ heard[c] \subseteq Facts
  BY StateOf, StateShape DEF PipelineInv, TypeOK
<1>4. PhaseOf(c)' /\ ProvenOf(c)'
  <2>1. /\ Parsed(c) /\ check[c].dns # "" /\ check[c].source # ""
        /\ check[c].dns = "not_found" => "no_domain" \in heard'[c]
        /\ "dns_failed" \in heard'[c] => check[c].dns = "temporary"
        /\ check[c].dns # "resolved" => check[c].source = "none"
        /\ Backed(check[c].dns, check[c].source, heard'[c] \cup told'[c])
        /\ heard'[c] \cap MailFacts = {}
    BY <1>1, <1>2 DEF Resolved, OfMail
  <2> QED
    BY <1>1, <1>2, <1>3, <2>1, GatePhase
<1>5. CASE Cacheable(check[c].dns)
  <2>1. check[c].dns = "resolved" /\ check[c].source \in Sources
    BY <1>2, <1>3, <1>5 DEF Cacheable, Resolved, HostSources
  <2>2. mxCache' \in Entries /\ learnt' \subseteq Facts
    BY <1>1, <1>3, <1>5, <2>1 DEF Entries
  <2>3. heard[c] \cup told[c] = heard[c]
    BY <1>2
  <2>4. Backed(check[c].dns, check[c].source, heard[c])
    BY <1>2, <2>3 DEF Resolved
  <2>5. mxCache'.dns = check[c].dns /\ mxCache'.source = check[c].source /\ learnt' = heard[c]
    BY <1>1, <1>5
  <2>6. CachePhase'
    BY <2>2, <2>4, <2>5 DEF CachePhase, Backed
  <2> QED
    BY <1>1, <1>4, <2>2, <2>6, MovesKeep
<1>6. CASE ~Cacheable(check[c].dns)
  BY <1>1, <1>4, <1>6, CacheStays, MovesKeep
<1> QED
  BY <1>5, <1>6

\* Forgetting the entry takes nothing from the verifications.
LEMMA ForgetMxKeeps ==
  ASSUME PipelineInv, ForgetMx
  PROVE  PipelineInv'
<1>1. TypeOK' /\ CachePhase'
  BY DEF PipelineInv, ForgetMx, TypeOK, CachePhase
<1>2. ASSUME NEW d \in Checks PROVE PhaseOf(d)' /\ ProvenOf(d)'
  <2>1. Untouched(d)
    BY DEF ForgetMx, Untouched
  <2>2. PhaseOf(d) /\ ProvenOf(d)
    BY ProvenParts DEF PipelineInv
  <2> QED
    BY <2>1, <2>2, PhaseStays, ProvenStays
<1> QED
  BY <1>1, <1>2, ProvenParts DEF PipelineInv

-----------------------------------------------------------------------------
(***************************************************************************)
(* The dialogue.                                                           *)
(***************************************************************************)

\* What the mail server tells does not touch what the resolver told.
LEMMA TalkGoesOn ==
  ASSUME NEW c \in Checks, NEW new, NEW facts \in SUBSET MailFacts, Moves(c, new),
         new.syntax = check[c].syntax, new.account = check[c].account,
         new.domain = check[c].domain, new.dns = check[c].dns, new.source = check[c].source,
         heard'[c] = heard[c] \cup facts, told'[c] = told[c], Talking(c)
  PROVE  Talking(c)' /\ OfMail(c)' = OfMail(c) \cup facts
<1>1. check'[c] = new /\ domain' = domain /\ smtp' = smtp
  BY DEF Moves
<1>2. GateReason(check[c].dns, check[c].source)' = GateReason(check[c].dns, check[c].source)
  BY <1>1 DEF GateReason
<1>3. Resolved(c) /\ Parsed(c)
  BY DEF Talking, Resolved
<1>4. Parsed(c)'
  BY <1>1, <1>3 DEF Parsed
<1>5. /\ "dns_failed" \in heard'[c] => "dns_failed" \in heard[c]
      /\ "no_domain" \in heard[c] => "no_domain" \in heard'[c]
  BY DEF MailFacts
<1>6. Backed(check[c].dns, check[c].source, heard[c] \cup told[c])
        => Backed(check[c].dns, check[c].source, heard'[c] \cup told'[c])
  BY DEF Backed
<1>7. Resolved(c)'
  BY <1>1, <1>3, <1>4, <1>5, <1>6 DEF Resolved
<1>8. Talking(c)'
  BY <1>2, <1>7 DEF Talking
<1> QED
  BY <1>8 DEF OfMail

\* A connection tells nothing yet.
LEMMA ConnectKeeps ==
  ASSUME PipelineInv, NEW c \in Checks, Connect(c)
  PROVE  PipelineInv'
<1> DEFINE new == [check[c] EXCEPT !.pc = "hello"]
<1>1. Moves(c, new) /\ UNCHANGED <<mxCache, history>>
  BY ConnectMoves DEF PipelineInv
<1>2. Talking(c) /\ Mute(c) /\ OfMail(c) = {}
  BY DEF PipelineInv, PhaseOf, Connect, At
<1>3. /\ new.pc = "hello" /\ new.syntax = check[c].syntax /\ new.account = check[c].account
      /\ new.domain = check[c].domain /\ new.dns = check[c].dns
      /\ new.source = check[c].source /\ new.recipient = check[c].recipient
      /\ new.catchAll = check[c].catchAll /\ new.transport = check[c].transport
  BY StateOf, StateShape DEF PipelineInv
<1> HIDE DEF new
<1>4. heard'[c] = heard[c] \cup {} /\ told'[c] = told[c] /\ {} \in SUBSET MailFacts
  BY <1>1 DEF history
<1>5. Talking(c)' /\ OfMail(c)' = {}
  BY <1>1, <1>2, <1>3, <1>4, TalkGoesOn
<1>6. check'[c] = new
  BY <1>1 DEF Moves
<1>7. Mute(c)' /\ check'[c].pc = "hello"
  BY <1>2, <1>3, <1>6 DEF Mute
<1>8. PhaseOf(c)' /\ ProvenOf(c)'
  BY <1>5, <1>7, NotDoneYet DEF PhaseOf, At
<1> QED
  BY <1>1, <1>8, CacheStays, MovesKeep DEF history

\* A failed dialogue leaves a transport error and no recipient.
LEMMA FailKeeps ==
  ASSUME PipelineInv, NEW c \in Checks, NEW answer \in Answers, Fail(c, answer),
         UNCHANGED <<domain, smtp, mxCache, told, learnt>>,
         Talking(c), Mute(c), OfMail(c) = {}
  PROVE  PipelineInv'
<1> DEFINE said == ParseSMTPError(answer)
           new == [check[c] EXCEPT !.pc = IF said = "nil" THEN "panicked" ELSE "assess",
                                   !.checkReason = "attempted",
                                   !.transport = IF said = "nil" THEN "none" ELSE said]
           facts == IF Transient(answer) THEN {"transient"} ELSE {}
<1>1. Moves(c, new) /\ heard'[c] = heard[c] \cup facts
  BY FailMoves DEF PipelineInv
<1>2. /\ new.pc = IF said = "nil" THEN "panicked" ELSE "assess"
      /\ new.syntax = check[c].syntax /\ new.account = check[c].account
      /\ new.domain = check[c].domain /\ new.dns = check[c].dns
      /\ new.source = check[c].source /\ new.recipient = check[c].recipient
      /\ new.catchAll = check[c].catchAll /\ new.checkReason = "attempted"
      /\ new.transport = IF said = "nil" THEN "none" ELSE said
  BY StateOf, StateShape DEF PipelineInv
<1>3. facts \subseteq {"transient"} /\ facts \in SUBSET MailFacts /\ told'[c] = told[c]
  BY DEF MailFacts
<1>4. said \in Kinds \cup {"nil"}
  BY AnswerTypes
<1> HIDE DEF new, facts, said
<1>5. Talking(c)' /\ OfMail(c)' = facts
  <2>1. Talking(c)' /\ OfMail(c)' = OfMail(c) \cup facts
    BY <1>1, <1>2, <1>3, TalkGoesOn
  <2> QED
    BY <2>1
<1>6. check'[c] = new
  BY <1>1 DEF Moves
<1>7. CASE said = "nil"
  <2>1. check'[c].pc = "panicked"
    BY <1>2, <1>6, <1>7
  <2>2. PhaseOf(c)' /\ ProvenOf(c)'
    BY <2>1, NotDoneYet DEF PhaseOf, At
  <2> QED
    BY <1>1, <2>2, CacheStays, MovesKeep
<1>8. CASE said # "nil"
  <2>1. check'[c].pc = "assess" /\ check'[c].transport \in Kinds
    BY <1>2, <1>4, <1>6, <1>8
  <2>2. /\ check'[c].recipient = NotChecked /\ check'[c].catchAll = "not_checked"
        /\ check'[c].checkReason = "attempted"
    BY <1>2, <1>6 DEF Mute
  <2>3. Failed(c)'
    BY <1>3, <1>5, <2>1, <2>2 DEF Failed
  <2>4. PhaseOf(c)' /\ ProvenOf(c)'
    BY <2>1, <2>3, NotDoneYet DEF PhaseOf, At
  <2> QED
    BY <1>1, <2>4, CacheStays, MovesKeep
<1> QED
  BY <1>7, <1>8

\* newSMTPClient fails.
LEMMA DialFailsKeeps ==
  ASSUME PipelineInv, NEW c \in Checks, NEW answer \in Answers, DialFails(c, answer)
  PROVE  PipelineInv'
<1>1. Talking(c) /\ Mute(c) /\ OfMail(c) = {}
  BY DEF PipelineInv, PhaseOf, DialFails, At
<1> QED
  BY <1>1, FailKeeps DEF DialFails

\* A server that accepts MAIL FROM has let the client in.
LEMMA IntroduceKeeps ==
  ASSUME PipelineInv, NEW c \in Checks, NEW answer \in Answers, Introduce(c, answer)
  PROVE  PipelineInv'
<1>1. Talking(c) /\ Mute(c) /\ OfMail(c) = {} /\ check[c].pc \in {"hello", "mail"}
  BY DEF PipelineInv, PhaseOf, Introduce
<1>2. CASE answer.code # 250
  BY <1>1, <1>2, FailKeeps DEF Introduce
<1>3. CASE answer.code = 250
  <2> DEFINE new == [check[c] EXCEPT !.pc = IF At(c, "hello") THEN "mail" ELSE "probe"]
             facts == IF At(c, "mail") THEN {"greeted"} ELSE {}
  <2>1. /\ Moves(c, new) /\ heard'[c] = heard[c] \cup facts
        /\ UNCHANGED <<mxCache, told, learnt>>
    BY <1>3, IntroduceMoves DEF PipelineInv
  <2>2. /\ new.syntax = check[c].syntax /\ new.account = check[c].account
        /\ new.domain = check[c].domain /\ new.dns = check[c].dns
        /\ new.source = check[c].source /\ new.recipient = check[c].recipient
        /\ new.catchAll = check[c].catchAll /\ new.transport = check[c].transport
        /\ new.pc = IF At(c, "hello") THEN "mail" ELSE "probe"
    BY StateOf, StateShape DEF PipelineInv
  <2>3. \/ new.pc = "mail" /\ facts = {}
        \/ new.pc = "probe" /\ facts = {"greeted"}
    BY <1>1, <2>2 DEF At
  <2>4. facts \in SUBSET MailFacts /\ told'[c] = told[c]
    BY <2>1 DEF MailFacts
  <2> HIDE DEF new, facts
  <2>5. Talking(c)' /\ OfMail(c)' = facts
    BY <1>1, <2>1, <2>2, <2>4, TalkGoesOn
  <2>6. check'[c] = new
    BY <2>1 DEF Moves
  <2>7. Mute(c)'
    BY <1>1, <2>2, <2>6 DEF Mute
  <2>8. PhaseOf(c)' /\ ProvenOf(c)'
    BY <2>3, <2>5, <2>6, <2>7, NotDoneYet DEF PhaseOf, At
  <2> QED
    BY <2>1, <2>8, CacheStays, MovesKeep
<1> QED
  BY <1>2, <1>3

\* Only a server that did not accept the random address is asked on.
LEMMA ProbeKeeps ==
  ASSUME PipelineInv, NEW c \in Checks, NEW answer \in Answers, Probe(c, answer)
  PROVE  PipelineInv'
<1> DEFINE found == CatchAllOf(answer)
           new == [check[c] EXCEPT
                     !.catchAll = found,
                     !.transport = ReplyTransport(answer),
                     !.checkReason = IF found = "confirmed" THEN "catch_all" ELSE "attempted",
                     !.pc = IF found = "confirmed" \/ ~IsReply(answer)
                            THEN "assess" ELSE "rcpt"]
           facts == (IF Accepts(answer) THEN {"probe_accepted"} ELSE {})
                      \cup (IF IsReply(answer) THEN {} ELSE {"transient"})
                      \cup (IF answer.code \in 400..499 THEN {"probe_temporary"} ELSE {})
<1>1. /\ Moves(c, new) /\ heard'[c] = heard[c] \cup facts
      /\ UNCHANGED <<mxCache, told, learnt>>
  BY ProbeMoves DEF PipelineInv
<1>2. Talking(c) /\ Mute(c) /\ OfMail(c) = {"greeted"}
  BY DEF PipelineInv, PhaseOf, Probe
<1>3. /\ new.syntax = check[c].syntax /\ new.account = check[c].account
      /\ new.domain = check[c].domain /\ new.dns = check[c].dns
      /\ new.source = check[c].source /\ new.recipient = check[c].recipient
      /\ new.catchAll = found /\ new.transport = ReplyTransport(answer)
      /\ new.checkReason = IF found = "confirmed" THEN "catch_all" ELSE "attempted"
      /\ new.pc = IF found = "confirmed" \/ ~IsReply(answer) THEN "assess" ELSE "rcpt"
  BY StateOf, StateShape DEF PipelineInv
<1>4. facts \in SUBSET MailFacts /\ told'[c] = told[c]
  BY <1>1 DEF MailFacts
<1>5. \/ found = "confirmed" /\ facts = {"probe_accepted"} /\ IsReply(answer)
      \/ found = "unknown" /\ facts = {"transient"} /\ ~IsReply(answer)
      \/ /\ found \in {"not_catch_all", "unknown"} /\ IsReply(answer)
         /\ facts \subseteq {"probe_temporary"}
  <2>1. answer.code \in Int
    BY AnswerTypes
  <2>2. RecipientReply(answer).result = "accepted" <=> Accepts(answer)
    BY <2>1 DEF RecipientReply, Accepts, Recipient, TemporaryReply, PermanentReply
  <2>3. ~IsReply(answer) => RecipientReply(answer) = Recipient("unknown", "") /\ ~Accepts(answer)
    <3>1. ~IsReply(answer) => answer.code = 0
      BY DEF IsReply
    <3>2. answer.code = 0 => /\ answer.code \notin 200..299 /\ answer.code \notin 400..499
                            /\ ~(answer.code >= 500)
      OBVIOUS
    <3>3. answer.code = 0 => RecipientReply(answer) = Recipient("unknown", "")
      BY <3>2, Zenon DEF RecipientReply
    <3> QED
      BY <3>1, <3>2, <3>3 DEF Accepts
  <2>4. /\ Recipient("unknown", "") # Recipient("rejected", "mailbox_not_found")
        /\ Recipient("unknown", "").result = "unknown"
    BY DEF Recipient
  <2>5. /\ found = "confirmed" <=> Accepts(answer)
        /\ found \in {"confirmed", "not_catch_all", "unknown"}
    <3>1. RecipientReply(answer) = Recipient("rejected", "mailbox_not_found")
            => RecipientReply(answer).result # "accepted"
      BY DEF Recipient
    <3> QED
      BY <2>2, <3>1 DEF CatchAllOf
  <2>6. ~IsReply(answer) => found = "unknown"
    BY <2>3, <2>4 DEF CatchAllOf
  <2>7. /\ Accepts(answer) => answer.code \notin 400..499
        /\ ~IsReply(answer) => answer.code \notin 400..499
    BY <2>1 DEF Accepts, IsReply
  <2>8. CASE Accepts(answer)
    <3>1. facts = {"probe_accepted"} /\ IsReply(answer)
      BY <2>3, <2>7, <2>8
    <3> QED
      BY <2>5, <2>8, <3>1
  <2>9. CASE ~IsReply(answer)
    <3>1. facts = {"transient"}
      BY <2>3, <2>7, <2>9
    <3> QED
      BY <2>6, <2>9, <3>1
  <2>10. CASE IsReply(answer) /\ ~Accepts(answer)
    <3>1. facts \subseteq {"probe_temporary"}
      BY <2>10
    <3> QED
      BY <2>5, <2>10, <3>1
  <2> QED
    BY <2>8, <2>9, <2>10
<1>6. IF IsReply(answer) THEN ReplyTransport(answer) = "none" ELSE ReplyTransport(answer) \in Kinds
  BY AnswerTypes DEF IsReply, ReplyTransport
<1> HIDE DEF new, facts, found
<1>7. Talking(c)' /\ OfMail(c)' = {"greeted"} \cup facts
  BY <1>1, <1>2, <1>3, <1>4, TalkGoesOn
<1>8. check'[c] = new /\ new.recipient = NotChecked
  BY <1>1, <1>2, <1>3 DEF Moves, Mute
<1>9. CASE found = "confirmed"
  <2>1. facts = {"probe_accepted"} /\ check'[c].transport = "none"
    BY <1>3, <1>5, <1>6, <1>8, <1>9
  <2>2. CatchAll(c)'
    BY <1>3, <1>7, <1>8, <1>9, <2>1 DEF CatchAll
  <2>3. PhaseOf(c)' /\ ProvenOf(c)'
    BY <1>3, <1>8, <1>9, <2>2, NotDoneYet DEF PhaseOf, At
  <2> QED
    BY <1>1, <2>3, CacheStays, MovesKeep
<1>10. CASE ~IsReply(answer)
  <2>1. found = "unknown" /\ facts = {"transient"} /\ check'[c].transport \in Kinds
    BY <1>3, <1>5, <1>6, <1>8, <1>10
  <2>2. Failed(c)'
    BY <1>3, <1>7, <1>8, <2>1 DEF Failed
  <2>3. PhaseOf(c)' /\ ProvenOf(c)'
    BY <1>3, <1>8, <1>10, <2>2, NotDoneYet DEF PhaseOf, At
  <2> QED
    BY <1>1, <2>3, CacheStays, MovesKeep
<1>11. CASE found # "confirmed" /\ IsReply(answer)
  <2>1. /\ found \in {"not_catch_all", "unknown"} /\ new.pc = "rcpt"
        /\ facts \subseteq {"probe_temporary"}
    BY <1>3, <1>5, <1>11
  <2>2. ButProbe(c)' = {"greeted"}
    BY <1>7, <2>1 DEF ButProbe
  <2>3. PhaseOf(c)' /\ ProvenOf(c)'
    BY <1>3, <1>7, <1>8, <1>11, <2>1, <2>2, NotDoneYet DEF PhaseOf, At
  <2> QED
    BY <1>1, <2>3, CacheStays, MovesKeep
<1> QED
  BY <1>9, <1>10, <1>11

\* The last answer, with what it tells.
LEMMA RcptKeeps ==
  ASSUME PipelineInv, NEW c \in Checks, NEW answer \in Answers, Rcpt(c, answer)
  PROVE  PipelineInv'
<1> DEFINE new == [check[c] EXCEPT !.pc = "assess", !.recipient = RecipientReply(answer),
                                   !.transport = ReplyTransport(answer)]
<1>1. /\ Moves(c, new) /\ heard'[c] = heard[c] \cup RcptFacts(answer)
      /\ UNCHANGED <<mxCache, told, learnt>>
  BY RcptMoves DEF PipelineInv
<1>2. /\ Talking(c) /\ ButProbe(c) = {"greeted"}
      /\ check[c].catchAll \in {"not_catch_all", "unknown"}
      /\ check[c].checkReason = "attempted"
  BY DEF PipelineInv, PhaseOf, Rcpt
<1>3. /\ new.pc = "assess" /\ new.syntax = check[c].syntax /\ new.account = check[c].account
      /\ new.domain = check[c].domain /\ new.dns = check[c].dns
      /\ new.source = check[c].source /\ new.catchAll = check[c].catchAll
      /\ new.checkReason = check[c].checkReason
      /\ new.recipient = RecipientReply(answer) /\ new.transport = ReplyTransport(answer)
  BY StateOf, StateShape DEF PipelineInv
<1>4. RcptFacts(answer) \in SUBSET MailFacts /\ told'[c] = told[c]
  BY <1>1 DEF MailFacts, RcptFacts
<1> HIDE DEF new
<1>5. Talking(c)' /\ ButProbe(c)' = {"greeted"} \cup RcptFacts(answer)
  <2>1. Talking(c)' /\ OfMail(c)' = OfMail(c) \cup RcptFacts(answer)
    BY <1>1, <1>2, <1>3, <1>4, TalkGoesOn
  <2>2. "probe_temporary" \notin RcptFacts(answer)
    BY DEF RcptFacts
  <2> QED
    BY <1>2, <2>1, <2>2 DEF ButProbe
<1>6. check'[c] = new
  BY <1>1 DEF Moves
<1>7. /\ check'[c].recipient = RecipientReply(answer)
      /\ check'[c].transport = ReplyTransport(answer)
  BY <1>3, <1>6
<1>8. /\ check'[c].catchAll \in {"not_catch_all", "unknown"}
      /\ check'[c].checkReason = "attempted" /\ check'[c].pc = "assess"
  BY <1>2, <1>3, <1>6
<1>9. Answered(c)'
  BY <1>5, <1>7, <1>8 DEF Answered
<1>10. PhaseOf(c)' /\ ProvenOf(c)'
  BY <1>8, <1>9, NotDoneYet DEF PhaseOf, At
<1> QED
  BY <1>1, <1>10, CacheStays, MovesKeep

-----------------------------------------------------------------------------
(***************************************************************************)
(* The judgement.                                                          *)
(***************************************************************************)

\* What the properties ask of a reason and of the library's verdict, said of
\* the evidence at the moment of judging.
WellJudged(c, reason, library) ==
    /\ Status(reason) = "valid" =>
         /\ {"greeted", "accepted"} \subseteq heard[c]
         /\ "probe_accepted" \notin heard[c]
         /\ c \notin Roles
         /\ domain.kind = "regular"
         /\ smtp = "on"
         /\ library = "yes"
    /\ Status(reason) = "invalid" =>
         /\ \/ check[c].syntax = "malformed"
            \/ "no_domain" \in heard[c]
            \/ {"null_mx", "no_address", "address_failed"} \cap (heard[c] \cup told[c]) # {}
            \/ /\ {"greeted", "no_mailbox"} \subseteq heard[c]
               /\ "probe_accepted" \notin heard[c]
         /\ library = IF check[c].syntax = "malformed" \/ domain.kind = "disposable"
                      THEN "unknown" ELSE "no"
         /\ check[c].catchAll # "confirmed"
    /\ {"dns_failed", "transient"} \cap heard[c] # {} =>
          Status(reason) \in {"unknown", "risky"} /\ Retryable(reason)
    /\ "probe_temporary" \in heard[c] =>
          /\ reason # "catch_all"
          /\ Status(reason) \in {"valid", "invalid"} =>
                {"accepted", "no_mailbox"} \cap heard[c] # {}
    /\ library = "yes" => Status(reason) \in {"valid", "risky"}

\* The statuses and retry marks of the reasons, from the table.
LEMMA Meanings ==
  /\ \A reason \in {"syntax_invalid", "domain_not_found", "null_mx", "no_mail_host",
                     "mailbox_rejected"} : Status(reason) = "invalid"
  /\ \A reason \in {"disposable_domain", "mailbox_disabled", "role_account", "catch_all"} :
       Status(reason) = "risky"
  /\ Status("full_inbox") = "risky" /\ Retryable("full_inbox") = TRUE
  /\ \A reason \in {"temporary_rejection", "rate_limited", "provider_blocked", "dns_error",
                     "smtp_timeout", "connection_refused", "smtp_inconclusive"} :
       Status(reason) = "unknown" /\ Retryable(reason) = TRUE
  /\ Status("smtp_disabled") = "unknown"
  /\ Status("smtp_accepted") = "valid"
<1>1. /\ Status("syntax_invalid") = "invalid" /\ Status("domain_not_found") = "invalid"
      /\ Status("null_mx") = "invalid" /\ Status("no_mail_host") = "invalid"
      /\ Status("mailbox_rejected") = "invalid"
  BY MetaTable DEF Status
<1>2. /\ Status("disposable_domain") = "risky" /\ Status("mailbox_disabled") = "risky"
      /\ Status("role_account") = "risky" /\ Status("catch_all") = "risky"
  BY MetaTable DEF Status
<1>3. /\ Status("full_inbox") = "risky" /\ Retryable("full_inbox") = TRUE
      /\ Status("smtp_disabled") = "unknown" /\ Status("smtp_accepted") = "valid"
  BY MetaTable DEF Status, Retryable
<1>4. /\ Status("temporary_rejection") = "unknown" /\ Status("rate_limited") = "unknown"
      /\ Status("provider_blocked") = "unknown" /\ Status("dns_error") = "unknown"
      /\ Status("smtp_timeout") = "unknown" /\ Status("connection_refused") = "unknown"
      /\ Status("smtp_inconclusive") = "unknown"
  BY MetaTable DEF Status
<1>5. /\ Retryable("temporary_rejection") = TRUE /\ Retryable("rate_limited") = TRUE
      /\ Retryable("provider_blocked") = TRUE /\ Retryable("dns_error") = TRUE
      /\ Retryable("smtp_timeout") = TRUE /\ Retryable("connection_refused") = TRUE
      /\ Retryable("smtp_inconclusive") = TRUE
  BY MetaTable DEF Retryable
<1> QED
  BY <1>1, <1>2, <1>3, <1>4, <1>5

\* A recipient nobody asked about.
LEMMA NothingChecked == NotChecked.result = "not_checked" /\ NotChecked.reason = ""
  BY DEF NotChecked, Recipient

\* A malformed address is invalid on its own.
LEMMA MalformedJudged ==
  ASSUME NEW c \in Checks, Malformed(c)
  PROVE  WellJudged(c, ReasonOf(check[c]), Reachable(check[c], smtp))
<1>1. check[c].syntax = "malformed" /\ check[c].catchAll = "not_checked" /\ heard[c] = {}
  BY DEF Malformed, Unresolved, Mute
<1>2. ReasonOf(check[c]) = "syntax_invalid"
  BY <1>1 DEF ReasonOf
<1>3. Reachable(check[c], smtp) = "unknown"
  BY <1>1 DEF Reachable
<1> QED
  BY <1>1, <1>2, <1>3, Meanings DEF WellJudged

\* No server was asked.
LEMMA StoppedJudged ==
  ASSUME TypeOK, NEW c \in Checks, Stopped(c)
  PROVE  WellJudged(c, ReasonOf(check[c]), Reachable(check[c], smtp))
<1> DEFINE ev == check[c]
           dns == ev.dns
           source == ev.source
           disposable == domain.kind = "disposable"
<1>1. /\ ev.syntax = "valid" /\ ev.domain = domain.kind
      /\ dns \in {"resolved", "not_found", "temporary"} /\ source # ""
      /\ dns = "not_found" => "no_domain" \in heard[c]
      /\ "dns_failed" \in heard[c] => dns = "temporary"
      /\ Backed(dns, source, heard[c] \cup told[c])
  BY StateOf, StateShape DEF Stopped, Resolved, Parsed, DnsStates
<1>2. /\ ev.recipient = NotChecked /\ ev.catchAll = "not_checked" /\ ev.transport = "none"
      /\ {"transient", "probe_temporary"} \cap heard[c] = {}
      /\ ev.checkReason = GateReason(dns, source) /\ ev.checkReason # ""
  BY DEF Stopped, Mute, OfMail, MailFacts
<1> HIDE DEF ev, dns, source
<1>3. CASE dns = "not_found"
  <2>1. ReasonOf(ev) = "domain_not_found"
    BY <1>1, <1>3 DEF ReasonOf, dns
  <2>2. Reachable(ev, smtp) = IF disposable THEN "unknown" ELSE "no"
    BY <1>1, <1>3 DEF Reachable, dns, source
  <2> QED
    BY <1>1, <1>2, <1>3, <2>1, <2>2, Meanings DEF WellJudged, ev
<1>4. CASE dns = "temporary"
  <2>1. ReasonOf(ev) = "dns_error"
    BY <1>1, <1>4 DEF ReasonOf, dns
  <2>2. Reachable(ev, smtp) = "unknown"
    BY <1>1, <1>4 DEF Reachable, dns, source
  <2> QED
    BY <1>1, <1>2, <1>4, <2>1, <2>2, Meanings DEF WellJudged, ev
<1>5. CASE dns = "resolved" /\ source \in {"null", "none"}
  <2>1. ReasonOf(ev) = IF source = "null" THEN "null_mx" ELSE "no_mail_host"
    BY <1>1, <1>5 DEF ReasonOf, dns, source
  <2>2. Reachable(ev, smtp) = IF disposable THEN "unknown" ELSE "no"
    BY <1>1, <1>5 DEF Reachable, dns, source
  <2>3. {"null_mx", "no_address", "address_failed"} \cap (heard[c] \cup told[c]) # {}
    BY <1>1, <1>5 DEF Backed
  <2> QED
    BY <1>1, <1>2, <1>5, <2>1, <2>2, <2>3, Meanings DEF WellJudged, ev
<1>6. CASE dns = "resolved" /\ source \notin {"null", "none"} /\ disposable
  <2>1. ReasonOf(ev) = "disposable_domain"
    BY <1>1, <1>6 DEF ReasonOf, dns, source
  <2>2. Reachable(ev, smtp) = "unknown"
    BY <1>1, <1>6 DEF Reachable, dns, source
  <2> QED
    BY <1>1, <1>2, <1>6, <2>1, <2>2, Meanings DEF WellJudged, ev
<1>7. CASE dns = "resolved" /\ source \notin {"null", "none"} /\ ~disposable
  <2>1. smtp = "off" /\ ev.checkReason = "disabled"
    BY <1>2, <1>7 DEF GateReason
  <2>2. LateReason(ev) = "smtp_disabled"
    BY <1>2, <2>1, NothingChecked DEF LateReason
  <2>3. ReasonOf(ev) = "smtp_disabled"
    BY <1>1, <1>2, <1>7, <2>2, NothingChecked DEF ReasonOf, dns, source
  <2>4. Reachable(ev, smtp) = "unknown"
    BY <1>1, <1>7, <2>1 DEF Reachable, dns, source
  <2> QED
    BY <1>1, <1>2, <1>7, <2>3, <2>4, Meanings DEF WellJudged, ev
<1> QED
  BY <1>1, <1>3, <1>4, <1>5, <1>6, <1>7 DEF ev

\* What holds of every verification whose dialogue took place.
LEMMA TalkingFacts ==
  ASSUME NEW c \in Checks, Talking(c)
  PROVE  /\ check[c].syntax = "valid" /\ check[c].domain = domain.kind
         /\ check[c].account = IF c \in Roles THEN "role" ELSE "personal"
         /\ check[c].dns = "resolved" /\ check[c].source \notin {"null", "none"}
         /\ domain.kind # "disposable" /\ smtp # "off"
         /\ "dns_failed" \notin heard[c]
<1>1. /\ check[c].dns = "resolved" /\ check[c].source \notin {"null", "none"}
      /\ domain.kind # "disposable" /\ smtp # "off"
  BY DEF Talking, GateReason
<1> QED
  BY <1>1 DEF Talking, Resolved, Parsed

\* A failed dialogue is judged by its transport error: unknown, to be retried.
LEMMA FailedJudged ==
  ASSUME NEW c \in Checks, Failed(c)
  PROVE  WellJudged(c, ReasonOf(check[c]), Reachable(check[c], smtp))
<1> DEFINE ev == check[c]
<1>1. Talking(c)
  BY DEF Failed
<1>2. /\ ev.recipient.result = "not_checked" /\ ev.recipient.reason = ""
      /\ ev.catchAll # "confirmed" /\ ev.transport # "none" /\ ev.checkReason = "attempted"
  BY NothingChecked DEF Failed, Kinds
<1>0. "probe_temporary" \notin heard[c]
  BY DEF Failed, OfMail, MailFacts
<1> HIDE DEF ev
<1>3. LateReason(ev) \in {"smtp_timeout", "connection_refused", "smtp_inconclusive"}
  BY <1>2 DEF LateReason
<1>4. ReasonOf(ev) = LateReason(ev)
  BY <1>1, <1>2, TalkingFacts DEF ReasonOf, ev
<1>5. Reachable(ev, smtp) = "unknown"
  BY <1>1, <1>2, TalkingFacts DEF Reachable, ev
<1> QED
  BY <1>0, <1>3, <1>4, <1>5, Meanings DEF WellJudged, ev

\* A domain that accepts a random address is risky.
LEMMA CatchAllJudged ==
  ASSUME NEW c \in Checks, CatchAll(c)
  PROVE  WellJudged(c, ReasonOf(check[c]), Reachable(check[c], smtp))
<1> DEFINE ev == check[c]
<1>1. Talking(c)
  BY DEF CatchAll
<1>2. /\ ev.recipient.result = "not_checked" /\ ev.recipient.reason = ""
      /\ ev.catchAll = "confirmed" /\ ev.transport = "none"
  BY NothingChecked DEF CatchAll
<1>3. {"transient", "probe_temporary"} \cap heard[c] = {}
  BY DEF CatchAll, OfMail, MailFacts
<1> HIDE DEF ev
<1>4. ReasonOf(ev) = "catch_all"
  BY <1>1, <1>2, TalkingFacts DEF ReasonOf, ev
<1>5. Reachable(ev, smtp) # "yes"
  BY <1>1, <1>2, TalkingFacts DEF Reachable, CalculateReachable, ev
<1> QED
  BY <1>1, <1>3, <1>4, <1>5, TalkingFacts, Meanings DEF WellJudged, ev

\* What each kind of answer to RCPT says, and what was heard with it.
LEMMA ReplyKinds ==
  ASSUME NEW answer \in Answers
  PROVE  /\ answer.code \in 200..299 => RecipientReply(answer) = Recipient("accepted", "")
         /\ answer.code \in 400..499 => RecipientReply(answer) = TemporaryReply(answer)
         /\ answer.code >= 500 => RecipientReply(answer) = PermanentReply(answer)
         /\ answer.code = 0 \/ answer.code \in 300..399
              => RecipientReply(answer) = Recipient("unknown", "")
<1> DEFINE good == answer.code \in 200..299
           soft == answer.code \in 400..499
           hard == answer.code >= 500
<1>1. answer.code \in Int
  BY AnswerTypes
<1>2. /\ good => ~soft /\ ~hard
      /\ soft => ~good /\ ~hard
      /\ hard => ~good /\ ~soft
      /\ answer.code = 0 \/ answer.code \in 300..399 => ~good /\ ~soft /\ ~hard
  BY <1>1
<1>3. RecipientReply(answer) = CASE good -> Recipient("accepted", "")
                                 [] soft -> TemporaryReply(answer)
                                 [] hard -> PermanentReply(answer)
                                 [] OTHER -> Recipient("unknown", "")
  BY DEF RecipientReply
<1> HIDE DEF good, soft, hard
<1>4. /\ good => RecipientReply(answer) = Recipient("accepted", "")
      /\ soft => RecipientReply(answer) = TemporaryReply(answer)
      /\ hard => RecipientReply(answer) = PermanentReply(answer)
      /\ ~good /\ ~soft /\ ~hard => RecipientReply(answer) = Recipient("unknown", "")
  BY <1>2, <1>3, Zenon
<1> QED
  BY <1>2, <1>4 DEF good, soft, hard

\* What is heard with each kind of answer.
LEMMA RcptHeard ==
  ASSUME NEW answer \in Answers
  PROVE  /\ answer.code \in 200..299 => "accepted" \in RcptFacts(answer)
         /\ answer.code \in 200..399 \/ answer.code >= 500 => "transient" \notin RcptFacts(answer)
         /\ answer.code >= 500 /\ answer.says = "nonexistent" => "no_mailbox" \in RcptFacts(answer)
         /\ answer.code # 0 => ReplyTransport(answer) = "none"
         /\ answer.code = 0 => ReplyTransport(answer) \in Kinds
<1>1. answer.code \in Int /\ (answer.code = 0 => answer.says \in Kinds)
  BY AnswerTypes
<1>2. /\ answer.code \in 200..299 => "accepted" \in RcptFacts(answer)
      /\ answer.code >= 500 /\ answer.says = "nonexistent" => "no_mailbox" \in RcptFacts(answer)
  BY DEF RcptFacts, Accepts
<1>3. ~Transient(answer) => "transient" \notin RcptFacts(answer)
  BY DEF RcptFacts
<1>4. answer.code \in 200..399 \/ answer.code >= 500 => ~Transient(answer)
  BY <1>1 DEF Transient
<1> QED
  BY <1>1, <1>2, <1>3, <1>4 DEF ReplyTransport

\* The fields of a recipient.
LEMMA RecipientFields ==
  ASSUME NEW result, NEW reason
  PROVE  Recipient(result, reason).result = result /\ Recipient(result, reason).reason = reason
  BY DEF Recipient

\* The two recipients without a reason.
LEMMA PlainFields ==
  /\ Recipient("accepted", "").result = "accepted" /\ Recipient("accepted", "").reason = ""
  /\ Recipient("unknown", "").result = "unknown" /\ Recipient("unknown", "").reason = ""
  BY DEF Recipient

\* A temporary reply never rejects.
LEMMA TemporaryMeans ==
  ASSUME NEW answer
  PROVE  /\ TemporaryReply(answer).result = "temporary"
         /\ TemporaryReply(answer).reason \in {"greylisted", "rate_limited", "full_inbox",
                                               "temporary_failure"}
<1>1. PICK reason \in {"greylisted", "rate_limited", "full_inbox", "temporary_failure"} :
        TemporaryReply(answer) = Recipient("temporary", reason)
  BY DEF TemporaryReply
<1> QED
  BY <1>1, RecipientFields

\* Only a reply that says so finds no mailbox.
LEMMA PermanentMeans ==
  ASSUME NEW answer
  PROVE  \/ /\ PermanentReply(answer).result = "rejected"
            /\ PermanentReply(answer).reason \in {"full_inbox", "mailbox_disabled"}
         \/ /\ PermanentReply(answer).result = "rejected"
            /\ PermanentReply(answer).reason = "mailbox_not_found"
            /\ answer.says = "nonexistent"
         \/ /\ PermanentReply(answer).result = "blocked"
            /\ PermanentReply(answer).reason = "policy_block"
<1>1. \/ PermanentReply(answer) = Recipient("rejected", "full_inbox")
      \/ PermanentReply(answer) = Recipient("rejected", "mailbox_disabled")
      \/ /\ PermanentReply(answer) = Recipient("rejected", "mailbox_not_found")
         /\ answer.says = "nonexistent"
      \/ PermanentReply(answer) = Recipient("blocked", "policy_block")
  BY DEF PermanentReply
<1> QED
  BY <1>1, RecipientFields

\* The verdict on an address the server answered for.
LEMMA AnsweredJudged ==
  ASSUME TypeOK, NEW c \in Checks, Answered(c)
  PROVE  WellJudged(c, ReasonOf(check[c]), Reachable(check[c], smtp))
<1> DEFINE ev == check[c]
<1>1. /\ Talking(c) /\ ev.checkReason = "attempted" /\ ev.catchAll # "confirmed"
  BY DEF Answered
<1>2. PICK answer \in Answers : /\ ev.recipient = RecipientReply(answer)
                                /\ ev.transport = ReplyTransport(answer)
                                /\ ButProbe(c) = {"greeted"} \cup RcptFacts(answer)
  BY DEF Answered
<1>3. /\ ev.syntax = "valid" /\ ev.domain = domain.kind
      /\ ev.account = IF c \in Roles THEN "role" ELSE "personal"
      /\ ev.dns = "resolved" /\ ev.source \notin {"null", "none"}
      /\ domain.kind # "disposable" /\ smtp # "off" /\ "dns_failed" \notin heard[c]
  BY <1>1, TalkingFacts
<1>4. /\ "greeted" \in heard[c] /\ "probe_accepted" \notin heard[c]
      /\ "accepted" \in RcptFacts(answer) => "accepted" \in heard[c]
      /\ "no_mailbox" \in RcptFacts(answer) => "no_mailbox" \in heard[c]
      /\ "transient" \notin RcptFacts(answer) => "transient" \notin heard[c]
  <2>1. "probe_accepted" \notin RcptFacts(answer)
    BY DEF RcptFacts
  <2> QED
    BY <1>2, <2>1 DEF ButProbe, OfMail, MailFacts
<1> HIDE DEF ev
<1>5. Reachable(ev, smtp) =
        IF ev.transport # "none" THEN "unknown"
        ELSE IF ev.recipient.result = "accepted" THEN "yes" ELSE "no"
  <2>1. smtp = "on"
    BY <1>3, StateOf
  <2>2. CASE ev.transport # "none"
    BY <1>3, <2>2 DEF Reachable
  <2>3. CASE ev.transport = "none"
    <3>1. Reachable(ev, smtp) = CalculateReachable(ev)
      BY <1>3, <2>1, <2>3 DEF Reachable
    <3>2. CalculateReachable(ev) = IF ev.recipient.result = "accepted" THEN "yes" ELSE "no"
      BY <1>1 DEF CalculateReachable
    <3> QED
      BY <2>3, <3>1, <3>2
  <2> QED
    BY <2>2, <2>3
<1>6. CASE answer.code \in 200..299
  <2>1. /\ ev.recipient.result = "accepted" /\ ev.recipient.reason = ""
        /\ ev.transport = "none" /\ "accepted" \in heard[c] /\ "transient" \notin heard[c]
    <3>1. ev.recipient = Recipient("accepted", "")
      BY <1>2, <1>6, ReplyKinds
    <3>2. ev.transport = "none" /\ "accepted" \in RcptFacts(answer)
          /\ "transient" \notin RcptFacts(answer)
      BY <1>2, <1>6, RcptHeard
    <3> QED
      BY <1>4, <3>1, <3>2, PlainFields
  <2>2. ReasonOf(ev) = IF c \in Roles THEN "role_account" ELSE "smtp_accepted"
    BY <1>1, <1>3, <2>1 DEF ReasonOf, LateReason
  <2>3. Reachable(ev, smtp) = "yes"
    BY <1>5, <2>1
  <2>4. domain.kind = "regular" /\ smtp = "on"
    BY <1>3, StateOf DEF DomainKinds
  <2> QED
    BY <1>3, <1>4, <2>1, <2>2, <2>3, <2>4, Meanings DEF WellJudged, ev
<1>7. CASE answer.code \in 400..499
  <2>1. /\ ev.recipient.result = "temporary" /\ ev.transport = "none"
        /\ ev.recipient.reason \in {"greylisted", "rate_limited", "full_inbox",
                                    "temporary_failure"}
    <3>1. ev.recipient = TemporaryReply(answer)
      BY <1>2, <1>7, ReplyKinds
    <3>2. ev.transport = "none"
      BY <1>2, <1>7, RcptHeard
    <3> QED
      BY <3>1, <3>2, TemporaryMeans
  <2>2. ReasonOf(ev) \in {"full_inbox", "temporary_rejection", "rate_limited"}
    BY <1>1, <1>3, <2>1 DEF ReasonOf, LateReason
  <2>3. Reachable(ev, smtp) # "yes"
    BY <1>5, <2>1
  <2> QED
    BY <2>2, <2>3, Meanings DEF WellJudged, ev
<1>8. CASE answer.code >= 500
  <2>1. /\ \/ /\ ev.recipient.result = "rejected"
              /\ ev.recipient.reason \in {"full_inbox", "mailbox_disabled"}
           \/ /\ ev.recipient.result = "rejected" /\ ev.recipient.reason = "mailbox_not_found"
              /\ "no_mailbox" \in heard[c]
           \/ ev.recipient.result = "blocked" /\ ev.recipient.reason = "policy_block"
        /\ "transient" \notin heard[c] /\ ev.transport = "none"
    <3>1. ev.recipient = PermanentReply(answer)
      BY <1>2, <1>8, ReplyKinds
    <3>2. /\ ev.transport = "none" /\ "transient" \notin RcptFacts(answer)
          /\ answer.says = "nonexistent" => "no_mailbox" \in RcptFacts(answer)
      BY <1>2, <1>8, RcptHeard
    <3> QED
      BY <1>4, <3>1, <3>2, PermanentMeans
  <2>2. \/ ReasonOf(ev) \in {"full_inbox", "mailbox_disabled", "provider_blocked"}
        \/ ReasonOf(ev) = "mailbox_rejected" /\ "no_mailbox" \in heard[c]
    BY <1>1, <1>3, <2>1 DEF ReasonOf, LateReason
  <2>3. Reachable(ev, smtp) = "no"
    BY <1>5, <2>1
  <2> QED
    BY <1>1, <1>3, <1>4, <2>1, <2>2, <2>3, Meanings DEF WellJudged, ev
<1>9. CASE answer.code = 0
  <2>1. /\ ev.recipient.result = "unknown" /\ ev.recipient.reason = ""
        /\ ev.transport # "none"
    <3>1. ev.recipient = Recipient("unknown", "")
      BY <1>2, <1>9, ReplyKinds
    <3>2. ev.transport # "none"
      BY <1>2, <1>9, RcptHeard DEF Kinds
    <3> QED
      BY <3>1, <3>2, PlainFields
  <2>2. ReasonOf(ev) \in {"smtp_timeout", "connection_refused", "smtp_inconclusive"}
    BY <1>1, <1>3, <2>1 DEF ReasonOf, LateReason
  <2>3. Reachable(ev, smtp) = "unknown"
    BY <1>5, <2>1
  <2> QED
    BY <2>2, <2>3, Meanings DEF WellJudged, ev
<1>10. CASE answer.code \in 300..399
  <2>1. /\ ev.recipient.result = "unknown" /\ ev.recipient.reason = ""
        /\ ev.transport = "none" /\ "transient" \notin heard[c]
    <3>1. ev.recipient = Recipient("unknown", "")
      BY <1>2, <1>10, ReplyKinds
    <3>2. ev.transport = "none" /\ "transient" \notin RcptFacts(answer)
      BY <1>2, <1>10, RcptHeard
    <3> QED
      BY <1>4, <3>1, <3>2, PlainFields
  <2>2. ReasonOf(ev) = "smtp_inconclusive"
    BY <1>1, <1>3, <2>1 DEF ReasonOf, LateReason
  <2>3. Reachable(ev, smtp) = "no"
    BY <1>5, <2>1
  <2> QED
    BY <1>3, <2>1, <2>2, <2>3, Meanings DEF WellJudged, ev
<1>11. answer.code = 0 \/ answer.code \in 200..599
  BY AnswerTypes
<1> QED
  BY <1>6, <1>7, <1>8, <1>9, <1>10, <1>11 DEF ev

\* A verification that comes to be judged is judged well.
LEMMA JudgedWell ==
  ASSUME PipelineInv, NEW c \in Checks, At(c, "assess")
  PROVE  WellJudged(c, ClassifyReason(check[c]), Reachable(check[c], smtp))
<1>1. Malformed(c) \/ Stopped(c) \/ Failed(c) \/ CatchAll(c) \/ Answered(c)
  BY DEF PipelineInv, PhaseOf
<1>2. WellJudged(c, ReasonOf(check[c]), Reachable(check[c], smtp))
  BY <1>1, MalformedJudged, StoppedJudged, FailedJudged, CatchAllJudged, AnsweredJudged
     DEF PipelineInv
<1> QED
  BY <1>2, ReasonByLadder

\* A verification that returns satisfies the properties.
LEMMA AssessKeeps ==
  ASSUME PipelineInv, NEW c \in Checks, NEW gravatar \in {"profile", "none"}, Assess(c, gravatar)
  PROVE  PipelineInv'
<1> DEFINE ev == check[c]
           reason == ClassifyReason(ev)
           profile == IF Status(reason) # "invalid" THEN gravatar ELSE "none"
           score == FinalScore(reason, ev, Listing(c), profile, domain.rep)
           library == Reachable(ev, smtp)
           new == Returned(ev, reason, score)
<1>1. /\ At(c, "assess") /\ check' = [check EXCEPT ![c] = new]
      /\ UNCHANGED <<domain, smtp, mxCache, history>>
  <2>1. check' = [check EXCEPT ![c] = Returned(@, reason,
                     FinalScore(reason, @, Listing(c), profile, domain.rep))]
    BY DEF Assess
  <2>2. check \in [Checks -> CheckStates]
    BY DEF PipelineInv, TypeOK
  <2> QED
    BY <2>1, <2>2 DEF Assess
<1>2. WellJudged(c, reason, library)
  BY <1>1, JudgedWell
<1>3. reason \in Reasons /\ reason \in Verdicts
  BY ReasonTypes, MetaTable DEF Verdicts
<1>4. /\ score \in Scores /\ (RateAtLeast(domain.rep, 50) => score <= 20)
      /\ Status(reason) = "invalid" /\ ev.catchAll # "confirmed" => score = 0
  <2>1. domain.rep \in [delivered: Nat, bounced: Nat]
    BY StateOf DEF PipelineInv
  <2> HIDE DEF reason, profile, ev
  <2> QED
    BY <1>3, <2>1, ScoreTypes DEF Scores
<1>5. library \in Libraries
  BY DEF Reachable, CalculateReachable, Libraries
<1> HIDE DEF reason, profile, score, library
<1>6. /\ new.pc = "done" /\ new.syntax = ev.syntax /\ new.reason = reason
      /\ new.score = score /\ new.library = library
  BY DEF Returned, Fresh, library
<1>7. new \in CheckStates
  <2>1. /\ ev.syntax \in Syntaxes /\ ev.dns \in DnsStates /\ "done" \in Places
    BY StateOf, StateShape DEF PipelineInv, Places
  <2>2. Fresh \in [pc: Places, syntax: Syntaxes, account: Accounts, domain: DomainKinds,
                   dns: DnsStates, source: HostSources, recipient: Recipients,
                   catchAll: CatchAlls, transport: Transports, checkReason: CheckReasons,
                   reason: Verdicts, score: Scores, library: Libraries]
    BY FreshTypes, StateShape
  <2>3. new = [Fresh EXCEPT !.pc = "done", !.syntax = ev.syntax, !.dns = ev.dns,
                            !.reason = reason, !.score = score, !.library = library]
    BY DEF Returned, library
  <2> HIDE DEF ev, new
  <2> QED
    BY <1>3, <1>4, <1>5, <2>1, <2>2, <2>3, StateShape
<1> HIDE DEF new
<1>8. Moves(c, new)
  <2>1. /\ check' \in [Checks -> CheckStates] /\ check'[c] = new
        /\ \A d \in Checks \ {c} : check'[d] = check[d]
    BY <1>1, <1>7, CheckMoves DEF PipelineInv
  <2> QED
    BY <1>1, <2>1 DEF Moves, PipelineInv, TypeOK, history
<1>9. /\ check'[c].pc = "done" /\ check'[c].syntax = ev.syntax /\ check'[c].reason = reason
      /\ check'[c].score = score /\ check'[c].library = library
      /\ heard'[c] = heard[c] /\ told'[c] = told[c] /\ domain' = domain /\ smtp' = smtp
  BY <1>1, <1>6, <1>8 DEF Moves, history
<1>10. Verdict(c)' = Status(reason) /\ Retryable(check[c].reason)' = Retryable(reason)
  BY <1>9 DEF Verdict, Status, Retryable
<1>11. RateAtLeast(domain.rep, 50)' = RateAtLeast(domain.rep, 50)
  BY <1>9 DEF RateAtLeast, Samples
<1>12. ProvenOf(c)'
  BY <1>2, <1>4, <1>9, <1>10, <1>11, Zenon DEF ProvenOf, WellJudged, ev
<1>13. PhaseOf(c)'
  BY <1>9 DEF PhaseOf, At
<1> QED
  BY <1>1, <1>8, <1>12, <1>13, CacheStays, MovesKeep DEF history

-----------------------------------------------------------------------------
(***************************************************************************)
(* The theorems.                                                           *)
(***************************************************************************)

\* The invariant holds at the start ...
LEMMA InitInv == Init => PipelineInv
<1> SUFFICES ASSUME Init PROVE PipelineInv
  OBVIOUS
<1>1. TypeOK /\ CachePhase
  BY FreshTypes DEF Init, TypeOK, CachePhase
<1>2. ASSUME NEW c \in Checks PROVE PhaseOf(c) /\ ProvenOf(c)
  <2>1. /\ check[c].pc = "idle" /\ check[c].dns = "" /\ check[c].source = ""
        /\ check[c].recipient = NotChecked /\ check[c].catchAll = "not_checked"
        /\ check[c].transport = "none" /\ heard[c] = {} /\ told[c] = {}
    BY DEF Init, Fresh
  <2>2. Unresolved(c)
    BY <2>1 DEF Unresolved, Mute
  <2> QED
    BY <2>1, <2>2 DEF PhaseOf, ProvenOf, Done, At
<1> QED
  BY <1>1, <1>2, ProvenParts DEF PipelineInv

\* ... and where nothing happens ...
LEMMA StutterInv == PipelineInv /\ UNCHANGED vars => PipelineInv'
<1> SUFFICES ASSUME PipelineInv, UNCHANGED vars PROVE PipelineInv'
  OBVIOUS
<1>1. TypeOK' /\ CachePhase'
  BY DEF PipelineInv, vars, history, TypeOK, CachePhase
<1>2. ASSUME NEW d \in Checks PROVE PhaseOf(d)' /\ ProvenOf(d)'
  <2>1. Untouched(d)
    BY DEF vars, history, Untouched
  <2>2. PhaseOf(d) /\ ProvenOf(d)
    BY ProvenParts DEF PipelineInv
  <2> QED
    BY <2>1, <2>2, PhaseStays, ProvenStays
<1> QED
  BY <1>1, <1>2, ProvenParts DEF PipelineInv

\* ... and every step of Service.Verify keeps it.
LEMMA NextInv == PipelineInv /\ [Next]_vars => PipelineInv'
<1> SUFFICES ASSUME PipelineInv, [Next]_vars PROVE PipelineInv'
  OBVIOUS
<1>1. ASSUME NEW c \in Checks, Suppressed(c) PROVE PipelineInv'
  BY <1>1, SuppressedKeeps
<1>2. ASSUME NEW c \in Checks, FindMx(c) PROVE PipelineInv'
  BY <1>2, FindMxKeeps
<1>3. ASSUME NEW c \in Checks, PutMx(c) PROVE PipelineInv'
  BY <1>3, PutMxKeeps
<1>4. ASSUME NEW c \in Checks, Connect(c) PROVE PipelineInv'
  BY <1>4, ConnectKeeps
<1>5. ASSUME NEW c \in Checks, NEW syntax \in {"valid", "malformed"}, Parse(c, syntax)
      PROVE  PipelineInv'
  BY <1>5, ParseKeeps
<1>6. ASSUME NEW c \in Checks, NEW outcome \in MxOutcomes, LookupMx(c, outcome)
      PROVE  PipelineInv'
  BY <1>6, LookupMxKeeps
<1>7. ASSUME NEW c \in Checks, NEW outcome \in IpOutcomes, LookupIp(c, outcome)
      PROVE  PipelineInv'
  BY <1>7, LookupIpKeeps
<1>8. ASSUME ForgetMx PROVE PipelineInv'
  BY <1>8, ForgetMxKeeps
<1>9. ASSUME NEW c \in Checks, NEW answer \in Answers,
             DialFails(c, answer) \/ Introduce(c, answer) \/ Probe(c, answer) \/ Rcpt(c, answer)
      PROVE  PipelineInv'
  BY <1>9, DialFailsKeeps, IntroduceKeeps, ProbeKeeps, RcptKeeps
<1>10. ASSUME NEW c \in Checks, NEW gravatar \in {"profile", "none"}, Assess(c, gravatar)
       PROVE  PipelineInv'
  BY <1>10, AssessKeeps
<1>11. CASE UNCHANGED vars
  BY <1>11, StutterInv
<1> QED
  BY <1>1, <1>2, <1>3, <1>4, <1>5, <1>6, <1>7, <1>8, <1>9, <1>10, <1>11 DEF Next

\* At every place of every verification the invariant says what is known and
\* who said it, and so the properties hold of every verdict of Service.Verify.
THEOREM Invariance == Spec => []PipelineInv
  BY InitInv, NextInv, PTL DEF Spec

\* The states of the model are of their types; in particular only a domain that
\* resolved is ever in the MX cache.
THEOREM TypeCorrect == Spec => []TypeOK
<1>1. PipelineInv => TypeOK
  BY DEF PipelineInv
<1> QED
  BY <1>1, Invariance, PTL

\* "valid" takes an acceptance of the very address by a server that did not
\* accept the random one (classifyReason, CheckSMTP).
THEOREM ValidVerdicts == Spec => []ValidIsProven
<1>1. PipelineInv => ValidIsProven
  BY DEF PipelineInv
<1> QED
  BY <1>1, Invariance, PTL

\* "invalid" takes proof: of the syntax, the DNS or an explicit reply.
THEOREM InvalidVerdicts == Spec => []InvalidIsProven
<1>1. PipelineInv => InvalidIsProven
  BY DEF PipelineInv
<1> QED
  BY <1>1, Invariance, PTL

\* A failed MX lookup, a dialogue broken off and a temporary reply about the
\* address itself end unknown or risky and marked for retry; a temporary reply
\* about the random address decides nothing (CheckSMTP, classifyReason).  A failed
\* address lookup is not covered: it ends invalid.
THEOREM TransientFailures == Spec => []TransientsRetry
<1>1. PipelineInv => TransientsRetry
  BY DEF PipelineInv
<1> QED
  BY <1>1, Invariance, PTL

\* Verifier.Verify and Service.Verify never contradict each other.
THEOREM TwoVerdicts == Spec => []LibraryAgrees
<1>1. PipelineInv => LibraryAgrees
  BY DEF PipelineInv
<1> QED
  BY <1>1, Invariance, PTL

\* No adjuster lifts an invalid address off 0, nor a domain half of whose mail
\* bounced above 20.
THEOREM ScoreBounds == Spec => []ScoresAgree
<1>1. PipelineInv => ScoresAgree
  BY DEF PipelineInv
<1> QED
  BY <1>1, Invariance, PTL

=============================================================================
