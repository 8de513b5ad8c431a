----------------------------- MODULE MCDmRelay -----------------------------
(* DmRelay on small instances.                                             *)
EXTENDS DmRelay, TLC

CONSTANTS c1, c2

\* One call may retry once, another, of a second device, does not retry.
MCMaxAttempts == c1 :> 2 @@ c2 :> 1
=============================================================================
