---------------------------- MODULE MCDisposable ----------------------------
(* Instances of Disposable for TLC. *)
EXTENDS Disposable, TLC

CONSTANTS v1, v2, steady, extra

\* Room to enable, disable or enable again and add; the other verifier makes
\* one call beside it.
MCCalls == (v1 :> 3) @@ (v2 :> 1)

\* One list lacks the additional domain, the other has it too.
MCLists == {{steady}, {steady, extra}}
=============================================================================
