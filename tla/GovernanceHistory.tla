--------------------------- MODULE GovernanceHistory ---------------------------
(***************************************************************************)
(* Governance with a record, for the properties only, of what happens to   *)
(* each proposal while it is active: its last vote, whether the vote       *)
(* window was changed under it, and the quorum terms it was created under, *)
(* as long as nobody rewrites them; and, once it is executed, the quorum   *)
(* those terms asked for.  The code stores the time lock of creation only, *)
(* and reads the rest live.                                                *)
(***************************************************************************)
EXTENDS Governance

VARIABLE history    \* per proposal [moved, lastVote, terms, asked]

historyVars == <<vars, history>>

QuorumTerms(c) == [quorum |-> c.quorum, floor |-> c.floor, rate |-> c.rate]

(***************************************************************************)
(* Terms that ask for nothing, and the record of a proposal without any.   *)
(***************************************************************************)
NoTerms == [quorum |-> 0, floor |-> 0, rate |-> 0]
Fresh == [moved |-> FALSE, lastVote |-> 0, terms |-> NoTerms, asked |-> 0]

(***************************************************************************)
(* What a step adds to the record of a proposal that stays active, and     *)
(* what is left of it when the proposal is executed.                       *)
(***************************************************************************)
Recorded(p) ==
    [moved    |-> history[p].moved \/ config'.window # config.window,
     lastVote |-> IF Total(p)' # Total(p) THEN ledger ELSE history[p].lastVote,
     terms    |-> IF QuorumTerms(config') = QuorumTerms(config)
                  THEN history[p].terms ELSE NoTerms,
     asked    |-> 0]

Executed(p) ==
    [Fresh EXCEPT !.asked = Decayed(history[p].terms, ledger - proposals[p].created)]

Record ==
    history' = [p \in 1 .. Len(proposals') |->
                   IF p \notin Id THEN [Fresh EXCEPT !.terms = QuorumTerms(config)]
                   ELSE IF proposals'[p].status = "Active" THEN Recorded(p)
                   ELSE IF ~Active(p) THEN history[p]
                   ELSE IF proposals'[p].status = "Executed" THEN Executed(p)
                   ELSE Fresh]

HistoryInit == Init /\ history = <<>>
HistoryNext == Next /\ Record
HistorySpec == HistoryInit /\ [][HistoryNext]_historyVars

-------------------------------------------------------------------------------
(***************************************************************************)
(* test.rs 5588 says that quorum and decay rate are fixed when a proposal  *)
(* is created.  gov_execute reads them live; what holds is that an         *)
(* executed proposal has, and keeps, the approval that the configuration   *)
(* of its creation asked for, unless that was rewritten while it was open. *)
(***************************************************************************)
ExecutedWithQuorum ==
    \A p \in Id : proposals[p].status = "Executed"
        => Total(p) > 0 /\ Approval(p) >= history[p].asked

(***************************************************************************)
(* What the governance rows say together, whatever proposals rewrite the   *)
(* configuration: the quorum stays above the floor, tallies are ballots,   *)
(* and what was executed had its quorum.                                   *)
(***************************************************************************)
GovernanceConsistent ==
    TypeOK /\ QuorumAboveFloor /\ TallyMatchesBallots /\ ExecutedWithQuorum

(***************************************************************************)
(* The time lock does its job: everyone has the proposal's full time lock, *)
(* counted from the last vote, to react before it takes effect, unless the *)
(* vote window was changed while the proposal was open.                    *)
(***************************************************************************)
FullTimeLockAfterLastVote ==
    [][\A p \in Id : Active(p) /\ proposals'[p].status = "Executed" /\ ~history[p].moved
           => ledger - history[p].lastVote >= proposals[p].timeLock]_historyVars
=================================================================================
