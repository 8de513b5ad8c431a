------------------------ MODULE MCTransactionQueue ------------------------
(* Small instances of TransactionQueue: queue "q1" submits two transactions *)
(* of the account, queue "q2" one that was built with the same sequence     *)
(* number as q1's first.                                                    *)
EXTENDS TransactionQueue

MCQueue == {"q1", "q2"}
MCTx == {"a1", "a2", "b1"}
MCSeqNum == [t \in MCTx |-> IF t = "a2" THEN 2 ELSE 1]
MCPlan == [q \in MCQueue |-> IF q = "q1" THEN <<"a1", "a2">> ELSE <<"b1">>]

Timed   == [dry |-> FALSE, skip |-> TRUE, timed |-> TRUE]
Untimed == [dry |-> FALSE, skip |-> TRUE, timed |-> FALSE]
Dry     == [dry |-> TRUE, skip |-> FALSE, timed |-> FALSE]
MCRunOptions == [q \in MCQueue |-> IF q = "q1" THEN {Timed} ELSE {Untimed, Dry}]
MCMaxRuns == [q \in MCQueue |-> IF q = "q1" THEN 2 ELSE 1]
=============================================================================
