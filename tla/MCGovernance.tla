------------------------------ MODULE MCGovernance ------------------------------
(***************************************************************************)
(* Instances of Governance for TLC.  A rate of 10000 bps takes one point   *)
(* off the quorum per ledger, down to a floor that half of two voters can  *)
(* reach.                                                                  *)
(***************************************************************************)
EXTENDS Governance, TLC

Base == [quorum |-> 54, floor |-> 50, timeLock |-> 1, window |-> 2,
         rate |-> 10000]
Strict == [quorum |-> 60, floor |-> 55, timeLock |-> 2, window |-> 1,
           rate |-> 0]

AnyConfig == {Base, Strict}

(***************************************************************************)
(* A quorum above the floor of Base and below that of Strict, a window of  *)
(* no ledgers, one that grows (Strict shrinks it), and a time lock so long *)
(* that the veto window overflows.                                         *)
(***************************************************************************)
AnyMotion == {<<"FeeBps", 1>>, <<"GovQuorum", 53>>,
              <<"GovTimeLock", 60>>, <<"GovVoteWindow", 0>>,
              <<"GovVoteWindow", 4>>}

Symmetry == Permutations(Voter)
=================================================================================
