--------------------------- MODULE MCEventFanout ---------------------------
(* EventFanout for TLC: two connection slots, queues of one frame, one drop. *)
EXTENDS EventFanout
=============================================================================
