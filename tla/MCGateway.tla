------------------------------ MODULE MCGateway ------------------------------
\* Gateway with a client that sends a batch of two and two single requests,
\* and one that sends a batch over the limit, around the end of a day.
EXTENDS Gateway, TLC

CONSTANTS r1, r2, r3, r4, c1, c2

MCClientOf == [r \in Requests |-> IF r = r4 THEN c2 ELSE c1]
MCEmails == (r1 :> 2) @@ (r2 :> 0) @@ (r3 :> 0) @@ (r4 :> 3)

\* The single requests are interchangeable.
MCSymmetry == Permutations({r2, r3})
=============================================================================
