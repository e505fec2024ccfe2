-------------------------------- MODULE MCJobs --------------------------------
(* Instances of JobsManager for TLC. *)
EXTENDS JobsManager, TLC

CONSTANTS b1, b2, b3, w1, w2

\* Three submissions of three, one and one emails.
MCTotal == (b1 :> 3) @@ (b2 :> 1) @@ (b3 :> 1)

\* The workers are interchangeable.
MCSymmetry == Permutations({w1, w2})
=============================================================================
