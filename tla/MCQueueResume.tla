--------------------------- MODULE MCQueueResume ---------------------------
(* QueueResume on small instances.                                         *)
EXTENDS QueueResume
=============================================================================
