------------------------------ MODULE Pipeline ------------------------------
(***************************************************************************)
(* Verifications of addresses of one domain, as Service.Verify             *)
(* (internal/verification/service.go) runs them: suppression, syntax, mail *)
(* hosts through the shared MX cache, the SMTP dialogue of CheckSMTP, the  *)
(* classification and the score.  The DNS and the mail server answer       *)
(* anything they can answer, and answer each question anew: CheckSMTP      *)
(* resolves the hosts a second time.                                       *)
(*                                                                         *)
(* The catch-all probe is on, as the server leaves it; the Yahoo API       *)
(* verifier is off, as the server never enables it.                        *)
(***************************************************************************)
EXTENDS Classify

CONSTANTS
    Checks,     \* the verifications
    Roles,      \* those of role accounts
    Replies,    \* replies of the mail server: records [code, says]
    Histories,  \* sending histories of the domain: records [delivered, bounced]
    Absent      \* no entry in the MX cache

ASSUME PipelineAssumption ==
    /\ Roles \subseteq Checks
    /\ Replies \subseteq [code: 200..599, says: Phrases]
    /\ Histories \subseteq [delivered: Nat, bounced: Nat]

VARIABLES
    domain,     \* what is known of the domain: its kind, whether the blocklist
                \* lists it, and its sending history
    smtp,       \* SYNCORE_VERIFIER_SMTP_ENABLED: "on" or "off"
    mxCache,    \* the entry of the domain in the MX cache
    check,      \* check[c]: the verification
    heard,      \* history: heard[c], what the outside told c itself
    told,       \* history: told[c], what it told the resolver of the entry c read
    learnt      \* history: what it told the resolver of the entry in the cache

history == <<heard, told, learnt>>
vars == <<domain, smtp, mxCache, check, history>>

\* What the outside can tell that a verdict may rest on.
Facts == {"no_domain", "dns_failed", "null_mx", "no_address", "address_failed",
          "greeted", "probe_accepted", "probe_temporary", "accepted", "no_mailbox", "transient"}

Answers == Replies \cup Failures
Sources == {"none", "mx", "a", "aaaa", "null"}
Entries == [dns: {"resolved"}, source: Sources]

CheckStates ==
    [pc: {"idle", "cache", "mx", "ip", "put", "dial", "hello", "mail", "probe", "rcpt",
          "assess", "done", "suppressed", "panicked"},
     syntax: {"valid", "malformed"},
     account: {"role", "personal"},
     domain: {"disposable", "regular"},
     dns: {"", "resolved", "not_found", "temporary"},
     source: {""} \cup Sources,
     recipient: Recipients,
     catchAll: {"confirmed", "not_catch_all", "unknown", "not_checked"},
     transport: Transports,
     checkReason: {"", "dns_failure", "null_mx", "no_mail_host", "disposable", "disabled",
                   "attempted", "catch_all"},
     reason: {""} \cup DOMAIN Meta,
     score: 0..100,
     library: {"", "yes", "no", "unknown"}]

NoHistory == [delivered |-> 0, bounced |-> 0]
Domains == [kind: {"disposable", "regular"}, dnsbl: {"listed", "clear"},
            rep: Histories \cup {NoHistory}]

TypeOK ==
    /\ domain \in Domains
    /\ smtp \in {"on", "off"}
    /\ mxCache \in Entries \cup {Absent}
    /\ check \in [Checks -> CheckStates]
    /\ heard \in [Checks -> SUBSET Facts]
    /\ told \in [Checks -> SUBSET Facts]
    /\ learnt \subseteq Facts

Fresh == [pc |-> "idle", syntax |-> "valid", account |-> "personal", domain |-> "regular",
          dns |-> "", source |-> "", recipient |-> NotChecked, catchAll |-> "not_checked",
          transport |-> "none", checkReason |-> "", reason |-> "", score |-> 0,
          library |-> ""]

Init ==
    /\ domain \in Domains
    /\ smtp \in {"on", "off"}
    /\ mxCache = Absent
    /\ check = [c \in Checks |-> Fresh]
    /\ heard = [c \in Checks |-> {}]
    /\ told = [c \in Checks |-> {}]
    /\ learnt = {}

At(c, pc) == check[c].pc = pc
Hear(c, facts) == heard' = [heard EXCEPT ![c] = @ \cup facts]

-----------------------------------------------------------------------------
(***************************************************************************)
(* Before the network.                                                     *)
(***************************************************************************)
Suppressed(c) ==
    /\ At(c, "idle")
    /\ check' = [check EXCEPT ![c].pc = "suppressed"]
    /\ UNCHANGED <<domain, smtp, mxCache, history>>

Parse(c, syntax) ==
    /\ At(c, "idle")
    /\ check' = [check EXCEPT ![c].pc = IF syntax = "valid" THEN "cache" ELSE "assess",
                              ![c].syntax = syntax,
                              ![c].account = IF c \in Roles THEN "role" ELSE "personal",
                              ![c].domain = domain.kind]
    /\ UNCHANGED <<domain, smtp, mxCache, history>>

-----------------------------------------------------------------------------
(***************************************************************************)
(* The mail hosts.  Gate decides whether there is anything to dial.        *)
(***************************************************************************)
GateReason(dns, source) ==
    CASE dns # "resolved" -> "dns_failure"
      [] dns = "resolved" /\ source = "null" -> "null_mx"
      [] dns = "resolved" /\ source = "none" -> "no_mail_host"
      [] dns = "resolved" /\ source \notin {"null", "none"} ->
           IF domain.kind = "disposable" THEN "disposable"
           ELSE IF smtp = "off" THEN "disabled" ELSE ""

Gated(c, dns, source) ==
    [check[c] EXCEPT !.dns = dns, !.source = source,
                     !.checkReason = GateReason(dns, source),
                     !.pc = IF GateReason(dns, source) = "" THEN "dial" ELSE "assess"]

FindMx(c) ==
    /\ At(c, "cache")
    /\ IF mxCache # Absent
       THEN /\ check' = [check EXCEPT ![c] = Gated(c, mxCache.dns, mxCache.source)]
            /\ told' = [told EXCEPT ![c] = learnt]
       ELSE /\ check' = [check EXCEPT ![c].pc = "mx"]
            /\ UNCHANGED told
    /\ UNCHANGED <<domain, smtp, mxCache, heard, learnt>>

\* Bug: any failed lookup means that the domain does not exist.
ClassifyDNSError_anyFailure(failure) == "not_found"

\* classifyDNSError: only an authoritative "not found" is one.
ClassifyDNSError(failure) == IF failure = "absent" THEN "not_found" ELSE "temporary"

\* resolveMailHosts, first question: usable records, a Null MX, records none of
\* which can be dialled, or an error.  "absent" is what Go calls not found: the
\* domain does not exist, or it has no MX records.
LookupMx(c, outcome) ==
    /\ At(c, "mx")
    /\ CASE outcome = "records" -> /\ check' = [check EXCEPT ![c].pc = "put", ![c].dns = "resolved",
                                                             ![c].source = "mx"]
                                   /\ UNCHANGED heard
         [] outcome = "null" -> /\ check' = [check EXCEPT ![c].pc = "put", ![c].dns = "resolved",
                                                          ![c].source = "null"]
                                /\ Hear(c, {"null_mx"})
         [] outcome = "unusable" -> /\ check' = [check EXCEPT ![c].pc = "ip"]
                                    /\ UNCHANGED heard
         [] outcome \in {"absent", "failed"} ->
              /\ check' = [check EXCEPT ![c].pc = "put", ![c].source = "none",
                                        ![c].dns = ClassifyDNSError(outcome)]
              /\ Hear(c, {IF outcome = "absent" THEN "no_domain" ELSE "dns_failed"})
    /\ UNCHANGED <<domain, smtp, mxCache, told, learnt>>

\* Second question, the addresses of the domain itself: an error of any kind
\* counts as no address, and the domain as resolved.
LookupIp(c, outcome) ==
    /\ At(c, "ip")
    /\ check' = [check EXCEPT ![c].pc = "put", ![c].dns = "resolved",
                              ![c].source = IF outcome \in {"a", "aaaa"} THEN outcome ELSE "none"]
    /\ Hear(c, CASE outcome = "absent" -> {"no_address"}
                 [] outcome = "failed" -> {"address_failed"}
                 [] OTHER -> {})
    /\ UNCHANGED <<domain, smtp, mxCache, told, learnt>>

\* Bug: failed lookups are remembered too.
Cacheable_always(dns) == TRUE

Cacheable(dns) == dns = "resolved"

PutMx(c) ==
    /\ At(c, "put")
    /\ IF Cacheable(check[c].dns)
       THEN /\ mxCache' = [dns |-> check[c].dns, source |-> check[c].source]
            /\ learnt' = heard[c]
       ELSE UNCHANGED <<mxCache, learnt>>
    /\ check' = [check EXCEPT ![c] = Gated(c, check[c].dns, check[c].source)]
    /\ UNCHANGED <<domain, smtp, heard, told>>

\* The entry expires or is evicted.
ForgetMx ==
    /\ mxCache # Absent
    /\ mxCache' = Absent
    /\ learnt' = {}
    /\ UNCHANGED <<domain, smtp, check, heard, told>>

-----------------------------------------------------------------------------
(***************************************************************************)
(* The SMTP dialogue.                                                      *)
(***************************************************************************)
IsReply(answer)   == answer.code # 0
Accepts(answer)   == answer.code \in 200..299
Transient(answer) == answer.code \in {0} \cup 400..499

\* CheckSMTP returns with ParseSMTPError(err); classifyTransport then looks
\* into the error, and there is none for a code up to 400.
Fail(c, answer) ==
    /\ check' = [check EXCEPT
         ![c].pc = IF ParseSMTPError(answer) = "nil" THEN "panicked" ELSE "assess",
         ![c].checkReason = "attempted",
         ![c].transport = IF ParseSMTPError(answer) = "nil" THEN "none"
                          ELSE ParseSMTPError(answer)]
    /\ Hear(c, IF Transient(answer) THEN {"transient"} ELSE {})

\* newSMTPClient: the hosts are resolved again and dialled; the answer is the
\* first failure of a resolution, a connection or a greeting.
Connect(c) ==
    /\ At(c, "dial")
    /\ check' = [check EXCEPT ![c].pc = "hello"]
    /\ UNCHANGED <<domain, smtp, mxCache, history>>

DialFails(c, answer) ==
    /\ At(c, "dial")
    /\ Fail(c, answer)
    /\ UNCHANGED <<domain, smtp, mxCache, told, learnt>>

\* HELO, then MAIL FROM; only 250 is accepted.
Introduce(c, answer) ==
    /\ check[c].pc \in {"hello", "mail"}
    /\ IF answer.code = 250
       THEN /\ check' = [check EXCEPT ![c].pc = IF At(c, "hello") THEN "mail" ELSE "probe"]
            /\ Hear(c, IF At(c, "mail") THEN {"greeted"} ELSE {})
       ELSE Fail(c, answer)
    /\ UNCHANGED <<domain, smtp, mxCache, told, learnt>>

\* RCPT for a random address of the domain.
CatchAllOf(answer) ==
    CASE RecipientReply(answer).result = "accepted" -> "confirmed"
      [] RecipientReply(answer) = Recipient("rejected", "mailbox_not_found") -> "not_catch_all"
      [] OTHER -> "unknown"

Probe(c, answer) ==
    /\ At(c, "probe")
    /\ check' = [check EXCEPT
         ![c].catchAll = CatchAllOf(answer),
         ![c].transport = ReplyTransport(answer),
         ![c].checkReason = IF CatchAllOf(answer) = "confirmed" THEN "catch_all" ELSE "attempted",
         ![c].pc = IF CatchAllOf(answer) = "confirmed" \/ ~IsReply(answer)
                   THEN "assess" ELSE "rcpt"]
    /\ Hear(c, (IF Accepts(answer) THEN {"probe_accepted"} ELSE {})
                 \cup (IF IsReply(answer) THEN {} ELSE {"transient"})
                 \cup (IF answer.code \in 400..499 THEN {"probe_temporary"} ELSE {}))
    /\ UNCHANGED <<domain, smtp, mxCache, told, learnt>>

\* What the answer to RCPT tells.
RcptFacts(answer) ==
    (IF Transient(answer) THEN {"transient"} ELSE {})
      \cup (IF Accepts(answer) THEN {"accepted"} ELSE {})
      \cup (IF answer.code >= 500 /\ answer.says = "nonexistent" THEN {"no_mailbox"} ELSE {})

\* RCPT for the address itself.
Rcpt(c, answer) ==
    /\ At(c, "rcpt")
    /\ check' = [check EXCEPT ![c].pc = "assess",
                              ![c].recipient = RecipientReply(answer),
                              ![c].transport = ReplyTransport(answer)]
    /\ Hear(c, RcptFacts(answer))
    /\ UNCHANGED <<domain, smtp, mxCache, told, learnt>>

-----------------------------------------------------------------------------
\* The rest of Service.Verify: the verdict, then the adjusters, each of which
\* may be off, which looks like knowing nothing.  The blocklist is asked only
\* about a domain that resolved, Gravatar only about an address not yet invalid.
Listing(c) == IF check[c].dns = "resolved" THEN domain.dnsbl ELSE "clear"

\* What is left of a verification that has returned.
Returned(evidence, reason, score) ==
    [Fresh EXCEPT !.pc = "done", !.syntax = evidence.syntax, !.dns = evidence.dns,
                  !.reason = reason, !.score = score, !.library = Reachable(evidence, smtp)]

Assess(c, gravatar) ==
    LET reason == ClassifyReason(check[c])
        profile == IF Status(reason) # "invalid" THEN gravatar ELSE "none"
    IN  /\ At(c, "assess")
        /\ check' = [check EXCEPT ![c] = Returned(@, reason,
                       FinalScore(reason, @, Listing(c), profile, domain.rep))]
        /\ UNCHANGED <<domain, smtp, mxCache, history>>

MxOutcomes == {"records", "null", "unusable", "absent", "failed"}
IpOutcomes == {"a", "aaaa", "absent", "failed"}

Next ==
    \/ \E c \in Checks : Suppressed(c) \/ FindMx(c) \/ PutMx(c) \/ Connect(c)
    \/ \E c \in Checks, syntax \in {"valid", "malformed"} : Parse(c, syntax)
    \/ \E c \in Checks, outcome \in MxOutcomes : LookupMx(c, outcome)
    \/ \E c \in Checks, outcome \in IpOutcomes : LookupIp(c, outcome)
    \/ ForgetMx
    \/ \E c \in Checks, answer \in Answers :
         DialFails(c, answer) \/ Introduce(c, answer) \/ Probe(c, answer) \/ Rcpt(c, answer)
    \/ \E c \in Checks, gravatar \in {"profile", "none"} : Assess(c, gravatar)

Spec == Init /\ [][Next]_vars
-----------------------------------------------------------------------------
(***************************************************************************)
(* Properties.                                                             *)
(***************************************************************************)
Done(c) == At(c, "done")
Verdict(c) == Status(check[c].reason)

\* "valid" takes an acceptance of the very recipient by a server that let the
\* client in, did not accept the random address, and serves neither a role nor
\* a disposable address: no other path through the pipeline ends there.
ValidIsProven ==
    \A c \in Checks :
        Done(c) /\ Verdict(c) = "valid" =>
            /\ {"greeted", "accepted"} \subseteq heard[c]
            /\ "probe_accepted" \notin heard[c]
            /\ c \notin Roles
            /\ domain.kind = "regular"
            /\ smtp = "on"

\* "invalid" takes a malformed address, a domain that is not found (or, to the
\* same error of the resolver, has no MX records), a Null MX,
\* a domain without mail hosts, or a permanent reply that says in so many
\* words that the mailbox does not exist, from a server that let the client in;
\* the first lookup alone, or the one the cache remembers, never the second,
\* speaks for the domain.  That an address lookup failed also passes for "no
\* mail host" is the subject of OutagesAreNeverInvalid.
InvalidIsProven ==
    \A c \in Checks :
        Done(c) /\ Verdict(c) = "invalid" =>
            \/ check[c].syntax = "malformed"
            \/ "no_domain" \in heard[c]
            \/ {"null_mx", "no_address", "address_failed"} \cap (heard[c] \cup told[c]) # {}
            \/ /\ {"greeted", "no_mailbox"} \subseteq heard[c]
               /\ "probe_accepted" \notin heard[c]

\* A verification whose MX lookup failed, whose dialogue broke off (no host could
\* be resolved again or reached, the connection was lost at any command, HELO or
\* MAIL FROM met a temporary reply), or whose own RCPT met a temporary reply, is never "valid"
\* or "invalid" and always marked for retry.  Two failures are not among these.
\* A temporary reply to the RCPT of the random address only leaves open whether
\* the domain is a catch-all (README.md:262): the verdict then is never
\* catch_all, and valid or invalid only by the reply to the address itself.  A
\* failed address lookup does end as invalid, see OutagesAreNeverInvalid.
TransientsRetry ==
    \A c \in Checks :
        Done(c) =>
            /\ {"dns_failed", "transient"} \cap heard[c] # {} =>
                  Verdict(c) \in {"unknown", "risky"} /\ Retryable(check[c].reason)
            /\ "probe_temporary" \in heard[c] =>
                  /\ check[c].reason # "catch_all"
                  /\ Verdict(c) \in {"valid", "invalid"} =>
                        {"accepted", "no_mailbox"} \cap heard[c] # {}

\* The library's own Verify and the service judge the same conversation by
\* different rules, and never contradict each other: what the service calls
\* valid the library calls reachable, what one of them accepts the other does
\* not rule out, and an invalid address is not reachable, for all that stands
\* between them: replies, transport errors, short cuts and the ladder.  Only
\* the library's short cuts leave an invalid address "unknown".
LibraryAgrees ==
    \A c \in Checks :
        Done(c) =>
            /\ Verdict(c) = "valid" => check[c].library = "yes"
            /\ check[c].library = "yes" => Verdict(c) \in {"valid", "risky"}
            /\ Verdict(c) = "invalid" =>
                  check[c].library =
                      IF check[c].syntax = "malformed" \/ domain.kind = "disposable"
                      THEN "unknown" ELSE "no"

\* Whatever the adjusters add, an invalid address scores 0, and a domain half
\* of whose mail bounced at most 20 ("Applied before reputation so a bad bounce
\* history still caps the score", service.go:339).
ScoresAgree ==
    \A c \in Checks :
        Done(c) => /\ Verdict(c) = "invalid" => check[c].score = 0
                   /\ RateAtLeast(domain.rep, 50) => check[c].score <= 20

\* "Timeouts, temporary rejections, and provider blocking become unknown - never
\* invalid" (README.md:343).  It fails: a failed address lookup makes the
\* verdict no_mail_host, which the MX cache then hands on.
OutagesAreNeverInvalid ==
    \A c \in Checks :
        Done(c) /\ {"dns_failed", "address_failed", "transient"} \cap heard[c] # {} =>
            Verdict(c) # "invalid"

\* Rule 19 of the ladder counts a typed nil among the outcomes that end as
\* smtp_inconclusive (docs/PHASE_1_PLAN.md:424).  It fails: it never reaches
\* the ladder.
TypedNilsAreInconclusive ==
    \A c \in Checks : ~At(c, "panicked")

-----------------------------------------------------------------------------
(***************************************************************************)
(* The parts of the inductive invariant that are not properties of their   *)
(* own: what a verification has found out at each place, and who said so.  *)
(***************************************************************************)
MailFacts == {"greeted", "probe_accepted", "probe_temporary", "accepted", "no_mailbox", "transient"}
OfMail(c) == heard[c] \cap MailFacts
ButProbe(c) == OfMail(c) \ {"probe_temporary"}

\* Nothing has been asked of a mail server.
Mute(c) == /\ check[c].recipient = NotChecked
           /\ check[c].catchAll = "not_checked"
           /\ check[c].transport = "none"

Parsed(c) == /\ check[c].syntax = "valid"
             /\ check[c].account = IF c \in Roles THEN "role" ELSE "personal"
             /\ check[c].domain = domain.kind

Unresolved(c) == /\ check[c].dns = "" /\ check[c].source = ""
                 /\ Mute(c)
                 /\ heard[c] = {} /\ told[c] = {}

\* What an entry says, the resolver that made it was told.
Backed(dns, source, facts) ==
    /\ source = "null" => "null_mx" \in facts
    /\ dns = "resolved" /\ source = "none" => {"no_address", "address_failed"} \cap facts # {}

Resolved(c) ==
    LET dns == check[c].dns
        source == check[c].source
    IN  /\ Parsed(c)
        /\ dns # "" /\ source # ""
        /\ dns = "not_found" => "no_domain" \in heard[c]
        /\ "dns_failed" \in heard[c] => dns = "temporary"
        /\ dns # "resolved" => source = "none"
        /\ Backed(dns, source, heard[c] \cup told[c])

\* The dialogue is under way, or over.
Talking(c) == /\ Resolved(c)
              /\ GateReason(check[c].dns, check[c].source) = ""

\* The ways in which a verification comes to be judged.
Malformed(c) == check[c].syntax = "malformed" /\ Unresolved(c)

Stopped(c) == /\ Resolved(c) /\ Mute(c) /\ OfMail(c) = {}
              /\ check[c].checkReason = GateReason(check[c].dns, check[c].source)
              /\ check[c].checkReason # ""

Failed(c) == /\ Talking(c)
             /\ check[c].recipient = NotChecked
             /\ check[c].catchAll \in {"not_checked", "unknown"}
             /\ check[c].transport \in Kinds
             /\ check[c].checkReason = "attempted"
             /\ OfMail(c) \subseteq {"greeted", "transient"}

CatchAll(c) == /\ Talking(c)
               /\ check[c].recipient = NotChecked
               /\ check[c].catchAll = "confirmed"
               /\ check[c].transport = "none"
               /\ OfMail(c) = {"greeted", "probe_accepted"}

Answered(c) ==
    /\ Talking(c)
    /\ check[c].catchAll \in {"not_catch_all", "unknown"}
    /\ check[c].checkReason = "attempted"
    /\ \E answer \in Answers :
         /\ check[c].recipient = RecipientReply(answer)
         /\ check[c].transport = ReplyTransport(answer)
         /\ ButProbe(c) = {"greeted"} \cup RcptFacts(answer)

PhaseOf(c) ==
    /\ At(c, "idle") => Unresolved(c)
    /\ check[c].pc \in {"cache", "mx", "ip"} => Unresolved(c) /\ Parsed(c)
    /\ At(c, "put") => Resolved(c) /\ Mute(c) /\ OfMail(c) = {} /\ told[c] = {}
    /\ check[c].pc \in {"dial", "hello", "mail"} => Talking(c) /\ Mute(c) /\ OfMail(c) = {}
    /\ At(c, "probe") => Talking(c) /\ Mute(c) /\ OfMail(c) = {"greeted"}
    /\ At(c, "rcpt") => /\ Talking(c)
                        /\ check[c].recipient = NotChecked
                        /\ check[c].catchAll \in {"not_catch_all", "unknown"}
                        /\ check[c].checkReason = "attempted"
                        /\ ButProbe(c) = {"greeted"}
    /\ At(c, "assess") => Malformed(c) \/ Stopped(c) \/ Failed(c) \/ CatchAll(c) \/ Answered(c)

CachePhase ==
    mxCache # Absent => mxCache \in Entries /\ Backed(mxCache.dns, mxCache.source, learnt)

PipelineInv ==
    /\ TypeOK
    /\ CachePhase
    /\ \A c \in Checks : PhaseOf(c)
    /\ ValidIsProven /\ InvalidIsProven /\ TransientsRetry /\ LibraryAgrees /\ ScoresAgree
=============================================================================
