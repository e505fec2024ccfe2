------------------------------ MODULE MCServer ------------------------------
(* Instances of Server for TLC. *)
EXTENDS Server, TLC

CONSTANTS b1, b2, w1

\* Two submissions, the first with two emails for the paging client.
MCTotal == (b1 :> 2) @@ (b2 :> 1)
=============================================================================
