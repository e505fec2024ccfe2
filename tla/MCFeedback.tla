----------------------------- MODULE MCFeedback -----------------------------
(* Instances of Feedback for TLC. *)
EXTENDS Feedback, TLC

CONSTANTS m1, m2, a1, a2, d1, h1, h2

\* A mail to two recipients of a domain through SES, a second one to one of
\* them through Smartlead.
MCTo == (m1 :> {a1, a2}) @@ (m2 :> {a1})
MCVia == (m1 :> "ses") @@ (m2 :> "smartlead")
MCMaxDelays == [m \in Mails |-> [a \in Addresses |-> IF a = a1 THEN 1 ELSE 0]]
MCDomainOf == (a1 :> d1) @@ (a2 :> d1)

\* The handlers are interchangeable.
MCSymmetry == Permutations({h1, h2})
=============================================================================
