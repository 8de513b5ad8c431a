--------------------------- MODULE MCOfflineFeed ---------------------------
(* OfflineFeed on small instances.                                         *)
EXTENDS OfflineFeed

CONSTANTS d1, t1, r1, r2, s1

SameText == [d \in Drafts |-> t1]
=============================================================================
