---------------------------- MODULE GovernanceProofs ----------------------------
(***************************************************************************)
(* Theorems about Governance and GovernanceHistory for any number of       *)
(* voters, proposals, ledgers, configurations and motions.                 *)
(***************************************************************************)
EXTENDS GovernanceHistory, FiniteSetTheorems, SequenceTheorems, TLAPS

(***************************************************************************)
(* The wholes that effective_quorum divides by are positive.               *)
(***************************************************************************)
LEMMA Wholes == AllBps \in Nat \ {0} /\ Percent \in Nat \ {0}
  BY DEF AllBps, Percent

(***************************************************************************)
(* What the rows of proposals are: a function on the proposal numbers.     *)
(***************************************************************************)
LEMMA RowTypes ==
    ASSUME proposals \in Seq(GovProposal)
    PROVE  /\ Len(proposals) \in Nat
           /\ \A p \in Id :
                 /\ proposals[p] \in GovProposal
                 /\ proposals[p].votesFor \in Nat
                 /\ proposals[p].votesAgainst \in Nat
                 /\ proposals[p].created \in Nat
                 /\ proposals[p].timeLock \in Nat \ {0}
                 /\ Total(p) \in Nat
  <1>1. Len(proposals) \in Nat /\ \A p \in Id : proposals[p] \in GovProposal
    BY LenProperties DEF Id
  <1>2. MaxLedger \in Nat /\ MaxU32 \in Nat
    BY GovernanceBounds
  <1>3. ASSUME NEW r \in GovProposal
        PROVE  /\ r.votesFor \in Nat /\ r.votesAgainst \in Nat
               /\ r.created \in Nat /\ r.timeLock \in Nat \ {0}
    BY <1>2 DEF GovProposal
  <1> QED
    BY <1>1, <1>3 DEF Total

(***************************************************************************)
(* The tallies that gov_vote writes keep a proposal in its type.           *)
(***************************************************************************)
LEMMA RowForms ==
    ASSUME NEW r \in GovProposal
    PROVE  /\ [r EXCEPT !.votesFor = @ + 1] \in GovProposal
           /\ [r EXCEPT !.votesAgainst = @ + 1] \in GovProposal
  BY DEF GovProposal

(***************************************************************************)
(* The same for the configuration, by the parameter that is written.       *)
(***************************************************************************)
LEMMA ConfigForms ==
    ASSUME NEW c \in GovConfig, NEW v
    PROVE  /\ v \in 1 .. Percent => [c EXCEPT !.quorum = v] \in GovConfig
           /\ v \in 1 .. MaxU32 => /\ [c EXCEPT !.timeLock = v] \in GovConfig
                                   /\ [c EXCEPT !.window = v] \in GovConfig
  <1>1. ASSUME v \in 1 .. Percent PROVE [c EXCEPT !.quorum = v] \in GovConfig
    BY <1>1 DEF GovConfig
  <1>2. ASSUME v \in 1 .. MaxU32 PROVE [c EXCEPT !.timeLock = v] \in GovConfig
    BY <1>2 DEF GovConfig
  <1>3. ASSUME v \in 1 .. MaxU32 PROVE [c EXCEPT !.window = v] \in GovConfig
    BY <1>3 DEF GovConfig
  <1> QED
    BY <1>1, <1>2, <1>3

(***************************************************************************)
(* gov_execute and gov_veto write the status of one proposal and nothing   *)
(* else of any row.                                                        *)
(***************************************************************************)
LEMMA StatusWritten ==
    ASSUME proposals \in Seq(GovProposal), NEW p \in Id,
           NEW st \in {"Active", "Executed", "Vetoed"},
           proposals' = [proposals EXCEPT ![p].status = st]
    PROVE  /\ proposals' \in Seq(GovProposal)
           /\ Id' = Id
           /\ \A q \in Id : q # p => proposals'[q] = proposals[q]
           /\ proposals'[p].status = st
           /\ \A f \in {"param", "value", "votesFor", "votesAgainst", "created", "timeLock"} :
                 proposals'[p][f] = proposals[p][f]
  <1> DEFINE row == [proposals[p] EXCEPT !.status = st]
  <1>1. proposals' = [proposals EXCEPT ![p] = row]
    OBVIOUS
  <1>2. proposals[p] \in GovProposal
    BY RowTypes
  <1>3. /\ row \in GovProposal /\ row.status = st
        /\ \A f \in {"param", "value", "votesFor", "votesAgainst", "created", "timeLock"} :
              row[f] = proposals[p][f]
    BY <1>2 DEF GovProposal
  <1> HIDE DEF row
  <1> QED
    BY <1>1, <1>3, ExceptSeq DEF Id

(***************************************************************************)
(* gov_vote adds one to the tally of one proposal and writes nothing else  *)
(* of any row.                                                             *)
(***************************************************************************)
LEMMA VoteCounted ==
    ASSUME proposals \in Seq(GovProposal), NEW p \in Id, NEW support \in BOOLEAN,
           proposals' = IF support THEN [proposals EXCEPT ![p].votesFor = @ + 1]
                        ELSE [proposals EXCEPT ![p].votesAgainst = @ + 1]
    PROVE  /\ proposals' \in Seq(GovProposal)
           /\ Id' = Id
           /\ \A q \in Id : q # p => proposals'[q] = proposals[q]
           /\ Total(p)' = Total(p) + 1
           /\ \A f \in {"param", "value", "created", "timeLock", "status"} :
                 proposals'[p][f] = proposals[p][f]
  <1>1. proposals[p] \in GovProposal
    BY RowTypes
  <1>2. CASE support
    <2> DEFINE row == [proposals[p] EXCEPT !.votesFor = @ + 1]
    <2>1. proposals' = [proposals EXCEPT ![p] = row]
      BY <1>2
    <2>2. row \in GovProposal
      BY <1>1, RowForms
    <2>3. row.votesFor = proposals[p].votesFor + 1 /\ row.votesAgainst = proposals[p].votesAgainst
      BY <1>1 DEF GovProposal
    <2>4. \A f \in {"param", "value", "created", "timeLock", "status"} :
              row[f] = proposals[p][f]
      BY <1>1 DEF GovProposal
    <2> HIDE DEF row
    <2>5. /\ proposals' \in Seq(GovProposal) /\ Id' = Id /\ proposals'[p] = row
          /\ \A q \in Id : q # p => proposals'[q] = proposals[q]
      BY <2>1, <2>2, ExceptSeq DEF Id
    <2>6. Total(p)' = Total(p) + 1
      BY <2>3, <2>5, RowTypes DEF Total
    <2> QED
      BY <2>4, <2>5, <2>6
  <1>3. CASE ~support
    <2> DEFINE row == [proposals[p] EXCEPT !.votesAgainst = @ + 1]
    <2>1. proposals' = [proposals EXCEPT ![p] = row]
      BY <1>3
    <2>2. row \in GovProposal
      BY <1>1, RowForms
    <2>3. row.votesAgainst = proposals[p].votesAgainst + 1 /\ row.votesFor = proposals[p].votesFor
      BY <1>1 DEF GovProposal
    <2>4. \A f \in {"param", "value", "created", "timeLock", "status"} :
              row[f] = proposals[p][f]
      BY <1>1 DEF GovProposal
    <2> HIDE DEF row
    <2>5. /\ proposals' \in Seq(GovProposal) /\ Id' = Id /\ proposals'[p] = row
          /\ \A q \in Id : q # p => proposals'[q] = proposals[q]
      BY <2>1, <2>2, ExceptSeq DEF Id
    <2>6. Total(p)' = Total(p) + 1
      BY <2>3, <2>5, RowTypes DEF Total
    <2> QED
      BY <2>4, <2>5, <2>6
  <1> QED
    BY <1>2, <1>3

(***************************************************************************)
(* gov_init_config and gov_propose write rows of the right types.          *)
(***************************************************************************)
LEMMA TypeInit == Init => TypeOK
  <1> SUFFICES ASSUME Init PROVE TypeOK
    OBVIOUS
  <1>1. proposals \in Seq(GovProposal) /\ Id = {}
    BY EmptySeq DEF Init, Id
  <1>2. 1 \in 1 .. MaxLedger
    BY GovernanceBounds
  <1>3. ledger \in 1 .. MaxLedger /\ config \in GovConfig
    BY <1>2, ConfigsAreValid DEF Init
  <1>4. ballots \subseteq Id \X Voter /\ fee \in 0 .. AllBps
    BY Wholes DEF Init
  <1>5. paused \in BOOLEAN
    BY DEF Init
  <1> QED
    BY <1>1, <1>3, <1>4, <1>5 DEF TypeOK

(***************************************************************************)
(* What gov_propose appends, and what it leaves.                           *)
(***************************************************************************)
LEMMA Proposed ==
    ASSUME TypeOK, NEW m \in Motion, GovPropose(m[1], m[2])
    PROVE  /\ proposals' \in Seq(GovProposal)
           /\ Len(proposals') = Len(proposals) + 1
           /\ \A p \in Id : proposals'[p] = proposals[p]
           /\ LET r == proposals'[Len(proposals) + 1]
              IN  /\ <<r.param, r.value>> = m
                  /\ r.created = ledger /\ r.votesFor = 0 /\ r.votesAgainst = 0
                  /\ r.status = "Active"
           /\ UNCHANGED <<ledger, config, ballots, fee, paused>>
  <1> DEFINE new == [param |-> m[1], value |-> m[2], votesFor |-> 0,
                     votesAgainst |-> 0, created |-> ledger,
                     timeLock |-> config.timeLock,
                     expiry |-> ProposalExpiry, status |-> "Active"]
  <1>1. m = <<m[1], m[2]>> /\ m[2] \in 0 .. MaxU32
        /\ m[1] \in {"FeeBps", "GovQuorum", "GovTimeLock", "GovVoteWindow"}
    BY MotionsAreU32
  <1>2. config.timeLock \in 1 .. MaxU32 /\ ledger \in 1 .. MaxLedger
    BY DEF TypeOK, GovConfig
  <1>3. new \in GovProposal
    BY <1>1, <1>2 DEF GovProposal, ProposalExpiry
  <1>4. /\ proposals' = Append(proposals, new)
        /\ UNCHANGED <<ledger, config, ballots, fee, paused>>
    BY DEF GovPropose
  <1>5. /\ <<new.param, new.value>> = m
        /\ new.created = ledger /\ new.votesFor = 0 /\ new.votesAgainst = 0
        /\ new.status = "Active"
    BY <1>1
  <1> HIDE DEF new
  <1>6. /\ Append(proposals, new) \in Seq(GovProposal)
        /\ Len(Append(proposals, new)) = Len(proposals) + 1
        /\ \A p \in Id : Append(proposals, new)[p] = proposals[p]
        /\ Append(proposals, new)[Len(proposals) + 1] = new
    BY <1>3, AppendProperties DEF TypeOK, Id
  <1> QED
    BY <1>4, <1>5, <1>6

(***************************************************************************)
(* Every call keeps the rows in their types.                               *)
(***************************************************************************)
LEMMA TypeStep == TypeOK /\ [Next]_vars => TypeOK'
  <1> SUFFICES ASSUME TypeOK, [Next]_vars PROVE TypeOK'
    OBVIOUS
  <1>0. /\ proposals \in Seq(GovProposal) /\ Len(proposals) \in Nat
        /\ ledger \in Nat /\ MaxLedger \in Nat /\ MaxU32 \in Nat
        /\ \A p \in Id : proposals[p] \in GovProposal /\ proposals[p].created \in Nat
    BY RowTypes, GovernanceBounds DEF TypeOK
  <1>1. ASSUME NEW c \in Config, GovInitConfig(c)
        PROVE  TypeOK'
    BY <1>1, ConfigsAreValid DEF GovInitConfig, TypeOK, Id
  <1>2. ASSUME NEW m \in Motion, GovPropose(m[1], m[2])
        PROVE  TypeOK'
    <2>1. Id' = Id \cup {Len(proposals) + 1} /\ ledger \in Nat
      BY <1>0, <1>2, Proposed DEF Id
    <2>2. \A p \in Id' : /\ <<proposals'[p].param, proposals'[p].value>> \in Motion
                         /\ proposals'[p].created =< ledger'
      BY <1>0, <1>2, <2>1, Proposed DEF TypeOK
    <2>3. ballots' \subseteq Id' \X Voter
      BY <1>2, <2>1, Proposed DEF TypeOK
    <2>4. UNCHANGED <<ledger, config, fee, paused>> /\ proposals' \in Seq(GovProposal)
      BY <1>2, Proposed
    <2> QED
      BY <2>2, <2>3, <2>4 DEF TypeOK
  <1>3. ASSUME NEW v \in Voter, NEW p \in Id, NEW s \in BOOLEAN, GovVote(v, p, s)
        PROVE  TypeOK'
    <2>1. /\ proposals' \in Seq(GovProposal) /\ Id' = Id
          /\ \A q \in Id : /\ proposals'[q].param = proposals[q].param
                           /\ proposals'[q].value = proposals[q].value
                           /\ proposals'[q].created = proposals[q].created
      BY <1>0, <1>3, VoteCounted DEF GovVote
    <2>2. ballots' \subseteq Id' \X Voter
      BY <1>3, <2>1 DEF GovVote, TypeOK
    <2> QED
      BY <1>3, <2>1, <2>2 DEF GovVote, TypeOK
  <1>4. ASSUME NEW p \in Id, GovExecute(p)
        PROVE  TypeOK'
    <2>1. /\ proposals' \in Seq(GovProposal) /\ Id' = Id
          /\ \A q \in Id : /\ proposals'[q].param = proposals[q].param
                           /\ proposals'[q].value = proposals[q].value
                           /\ proposals'[q].created = proposals[q].created
      BY <1>0, <1>4, StatusWritten DEF GovExecute
    <2>2. proposals[p].value \in 0 .. MaxU32
      BY <1>0 DEF GovProposal
    <2>3. /\ InRange(proposals[p].param, proposals[p].value)
          /\ proposals[p].param \in {"FeeBps", "GovQuorum", "GovTimeLock", "GovVoteWindow"}
      BY <1>0, <1>4 DEF GovExecute, GovProposal
    <2>4. fee' \in 0 .. AllBps
      <3>1. CASE proposals[p].param = "FeeBps"
        <4>1. fee' = proposals[p].value
          BY <1>4, <3>1 DEF GovExecute
        <4>2. proposals[p].value =< AllBps
          BY <2>3, <3>1 DEF InRange
        <4> QED
          BY <2>2, <4>1, <4>2, GovernanceBounds, Wholes
      <3>2. CASE proposals[p].param # "FeeBps"
        BY <1>4, <3>2 DEF GovExecute, TypeOK
      <3> QED
        BY <3>1, <3>2
    <2>5. config' \in GovConfig
      <3>0. config \in GovConfig
        BY DEF TypeOK
      <3>1. CASE proposals[p].param = "FeeBps"
        BY <1>4, <3>0, <3>1 DEF GovExecute
      <3>2. CASE proposals[p].param = "GovQuorum"
        <4>1. proposals[p].value \in 1 .. Percent
          BY <2>3, <3>2 DEF InRange
        <4>2. config' = [config EXCEPT !.quorum = proposals[p].value]
          BY <1>4, <3>2 DEF GovExecute
        <4> QED
          BY <3>0, <4>1, <4>2, ConfigForms
      <3>3. CASE proposals[p].param = "GovTimeLock"
        <4>1. proposals[p].value \in 1 .. MaxU32
          BY <1>0, <2>2, <2>3, <3>3 DEF InRange
        <4>2. config' = [config EXCEPT !.timeLock = proposals[p].value]
          BY <1>4, <3>3 DEF GovExecute
        <4> QED
          BY <3>0, <4>1, <4>2, ConfigForms
      <3>4. CASE proposals[p].param = "GovVoteWindow"
        <4>1. proposals[p].value \in 1 .. MaxU32
          BY <1>0, <2>2, <2>3, <3>4 DEF InRange
        <4>2. config' = [config EXCEPT !.window = proposals[p].value]
          BY <1>4, <3>4 DEF GovExecute
        <4> QED
          BY <3>0, <4>1, <4>2, ConfigForms
      <3> QED
        BY <2>3, <3>1, <3>2, <3>3, <3>4
    <2>6. UNCHANGED <<ledger, ballots, paused>>
      BY <1>4 DEF GovExecute
    <2> QED
      BY <2>1, <2>4, <2>5, <2>6 DEF TypeOK
  <1>5. ASSUME NEW p \in Id, GovVeto(p)
        PROVE  TypeOK'
    <2>1. /\ proposals' \in Seq(GovProposal) /\ Id' = Id
          /\ \A q \in Id : /\ proposals'[q].param = proposals[q].param
                           /\ proposals'[q].value = proposals[q].value
                           /\ proposals'[q].created = proposals[q].created
      BY <1>0, <1>5, StatusWritten DEF GovVeto
    <2> QED
      BY <1>5, <2>1 DEF GovVeto, TypeOK
  <1>6. ASSUME NEW b \in BOOLEAN, SetPaused(b)
        PROVE  TypeOK'
    BY <1>6 DEF SetPaused, TypeOK, Id
  <1>7. CASE LedgerCloses
    BY <1>0, <1>7 DEF LedgerCloses, TypeOK, Id
  <1>8. CASE UNCHANGED vars
    BY <1>8 DEF vars, TypeOK, Id
  <1> QED
    BY <1>1, <1>2, <1>3, <1>4, <1>5, <1>6, <1>7, <1>8 DEF Next

(***************************************************************************)
(* Every governance row keeps its type.                                    *)
(***************************************************************************)
THEOREM TypeCorrect == Spec => []TypeOK
  BY TypeInit, TypeStep, PTL DEF Spec

-------------------------------------------------------------------------------
(***************************************************************************)
(* The inductive invariant.  Counting ballots needs them to be finite in   *)
(* number, which the contract's rows are after any number of calls.        *)
(***************************************************************************)
GovInv == TypeOK /\ QuorumAboveFloor /\ IsFiniteSet(ballots) /\ TallyMatchesBallots

BallotsOf(p) == {b \in ballots : b[1] = p}

(***************************************************************************)
(* gov_init_config checks the floor against the quorum, and gov_execute    *)
(* checks a new quorum against the floor in force.                         *)
(***************************************************************************)
LEMMA QuorumStep ==
    ASSUME TypeOK, QuorumAboveFloor, [Next]_vars
    PROVE  QuorumAboveFloor'
  <1> USE DEF QuorumAboveFloor
  <1>1. ASSUME NEW c \in Config, GovInitConfig(c)
        PROVE  QuorumAboveFloor'
    <2>1. c.floor =< c.quorum /\ c.floor \in Nat /\ c.quorum \in Nat
      BY ConfigsAreValid, Wholes DEF GovConfig
    <2> QED
      BY <1>1, <2>1 DEF GovInitConfig
  <1>2. ASSUME NEW p \in Id, GovExecute(p)
        PROVE  QuorumAboveFloor'
    <2>1. config \in GovConfig
      BY DEF TypeOK
    <2>2. CASE proposals[p].param = "GovQuorum"
      <3>1. /\ config' = [config EXCEPT !.quorum = proposals[p].value]
            /\ proposals[p].value >= config.floor
        BY <1>2, <2>2 DEF GovExecute, QuorumAllowed
      <3>2. config'.floor = config.floor /\ config'.quorum = proposals[p].value
        BY <2>1, <3>1 DEF GovConfig
      <3> QED
        BY <3>1, <3>2
    <2>3. CASE proposals[p].param # "GovQuorum"
      <3>1. \/ config' = config
            \/ config' = [config EXCEPT !.timeLock = proposals[p].value]
            \/ config' = [config EXCEPT !.window = proposals[p].value]
        <4>1. CASE proposals[p].param = "GovTimeLock"
          BY <1>2, <4>1 DEF GovExecute
        <4>2. CASE proposals[p].param = "GovVoteWindow"
          BY <1>2, <4>2 DEF GovExecute
        <4>3. CASE proposals[p].param \notin {"GovQuorum", "GovTimeLock", "GovVoteWindow"}
          BY <1>2, <4>3 DEF GovExecute
        <4> QED
          BY <2>3, <4>1, <4>2, <4>3
      <3>2. config'.floor = config.floor /\ config'.quorum = config.quorum
        BY <2>1, <3>1 DEF GovConfig
      <3> QED
        BY <3>2
    <2> QED
      BY <2>2, <2>3
  <1>3. CASE UNCHANGED config
    BY <1>3
  <1> QED
    BY <1>1, <1>2, <1>3
    DEF Next, vars, GovPropose, GovVote, GovVeto, SetPaused, LedgerCloses

(***************************************************************************)
(* A vote adds one to the tally of its proposal and one ballot that was    *)
(* not there before; a new proposal has neither.                           *)
(***************************************************************************)
LEMMA TallyStep ==
    ASSUME TypeOK, IsFiniteSet(ballots), TallyMatchesBallots, [Next]_vars
    PROVE  IsFiniteSet(ballots') /\ TallyMatchesBallots'
  <1>0. proposals \in Seq(GovProposal) /\ ballots \subseteq Id \X Voter
    BY DEF TypeOK
  <1>1. ASSUME NEW m \in Motion, GovPropose(m[1], m[2])
        PROVE  IsFiniteSet(ballots') /\ TallyMatchesBallots'
    <2>0. Len(proposals) \in Nat
      BY <1>0, RowTypes
    <2>1. PICK n \in Nat : n = Len(proposals) + 1
      BY <2>0
    <2>2. /\ Id' = Id \cup {n} /\ n \notin Id /\ ballots' = ballots
          /\ \A p \in Id : proposals'[p] = proposals[p]
          /\ proposals'[n].votesFor = 0 /\ proposals'[n].votesAgainst = 0
      BY <1>1, <2>0, <2>1, Proposed DEF Id
    <2>3. Total(n)' = 0 /\ \A p \in Id : Total(p)' = Total(p)
      BY <2>2 DEF Total
    <2>4. {b \in ballots' : b[1] = n} = {}
      BY <1>0, <2>2
    <2>5. \A p \in Id' : Total(p)' = Cardinality({b \in ballots' : b[1] = p})
      BY <2>2, <2>3, <2>4, FS_EmptySet DEF TallyMatchesBallots
    <2> QED
      BY <2>2, <2>5 DEF TallyMatchesBallots
  <1>2. ASSUME NEW v \in Voter, NEW p \in Id, NEW s \in BOOLEAN, GovVote(v, p, s)
        PROVE  IsFiniteSet(ballots') /\ TallyMatchesBallots'
    <2>1. /\ ballots' = ballots \cup {<<p, v>>} /\ <<p, v>> \notin ballots
          /\ Id' = Id /\ Total(p)' = Total(p) + 1
          /\ \A q \in Id : q # p => Total(q)' = Total(q)
      BY <1>0, <1>2, VoteCounted DEF GovVote, NotYetVoted, Total
    <2>2. IsFiniteSet(ballots')
      BY <2>1, FS_AddElement
    <2>3. /\ {b \in ballots' : b[1] = p} = BallotsOf(p) \cup {<<p, v>>}
          /\ <<p, v>> \notin BallotsOf(p)
      BY <2>1 DEF BallotsOf
    <2>4. ASSUME NEW q \in Id, q # p
          PROVE  {b \in ballots' : b[1] = q} = BallotsOf(q)
      BY <2>1, <2>4 DEF BallotsOf
    <2>5. BallotsOf(p) \in SUBSET ballots
      BY DEF BallotsOf
    <2>6. IsFiniteSet(BallotsOf(p))
      BY <2>5, FS_Subset
    <2>7. Cardinality({b \in ballots' : b[1] = p}) = Cardinality(BallotsOf(p)) + 1
      BY <2>3, <2>6, FS_AddElement
    <2>8. \A q \in Id : Total(q) = Cardinality(BallotsOf(q))
      BY DEF TallyMatchesBallots, BallotsOf
    <2>9. \A q \in Id : Total(q)' = Cardinality({b \in ballots' : b[1] = q})
      BY <2>1, <2>4, <2>7, <2>8
    <2> QED
      BY <2>1, <2>2, <2>9 DEF TallyMatchesBallots
  <1>3. ASSUME NEW p \in Id, GovExecute(p) \/ GovVeto(p)
        PROVE  IsFiniteSet(ballots') /\ TallyMatchesBallots'
    <2>1. PICK st \in {"Executed", "Vetoed"} :
              ballots' = ballots /\ proposals' = [proposals EXCEPT ![p].status = st]
      BY <1>3 DEF GovExecute, GovVeto
    <2>2. Id' = Id /\ \A q \in Id : Total(q)' = Total(q)
      BY <1>0, <2>1, StatusWritten DEF Total
    <2> QED
      BY <2>1, <2>2 DEF TallyMatchesBallots
  <1>4. CASE UNCHANGED <<proposals, ballots>>
    BY <1>4 DEF TallyMatchesBallots, Id, Total
  <1> QED
    BY <1>1, <1>2, <1>3, <1>4
    DEF Next, vars, GovInitConfig, SetPaused, LedgerCloses

(***************************************************************************)
(* The invariant holds after any sequence of calls.                        *)
(***************************************************************************)
THEOREM GovInvariant == Spec => []GovInv
  <1>1. Init => GovInv
    <2> SUFFICES ASSUME Init PROVE GovInv
      OBVIOUS
    <2>1. TypeOK
      BY TypeInit
    <2>2. QuorumAboveFloor
      BY ConfigsAreValid, Wholes DEF Init, QuorumAboveFloor, GovConfig
    <2>3. IsFiniteSet(ballots) /\ Id = {}
      BY FS_EmptySet DEF Init, Id
    <2> QED
      BY <2>1, <2>2, <2>3 DEF GovInv, TallyMatchesBallots
  <1>2. GovInv /\ [Next]_vars => GovInv'
    BY TypeStep, QuorumStep, TallyStep DEF GovInv
  <1> QED
    BY <1>1, <1>2, PTL DEF Spec

-------------------------------------------------------------------------------
(***************************************************************************)
(* Only gov_vote, gov_execute and gov_veto write an existing row, and all  *)
(* three ask for an active proposal.                                       *)
(***************************************************************************)
LEMMA SettledStep ==
    ASSUME TypeOK, [Next]_vars, NEW p \in Id, proposals[p].status # "Active"
    PROVE  proposals'[p] = proposals[p]
  <1>0. proposals \in Seq(GovProposal)
    BY DEF TypeOK
  <1>1. ASSUME NEW m \in Motion, GovPropose(m[1], m[2])
        PROVE  proposals'[p] = proposals[p]
    BY <1>1, Proposed
  <1>2. ASSUME NEW v \in Voter, NEW q \in Id, NEW s \in BOOLEAN, GovVote(v, q, s)
        PROVE  proposals'[p] = proposals[p]
    BY <1>0, <1>2, VoteCounted DEF GovVote, Active
  <1>3. ASSUME NEW q \in Id, GovExecute(q)
        PROVE  proposals'[p] = proposals[p]
    BY <1>0, <1>3, StatusWritten DEF GovExecute, Executable, Active
  <1>4. ASSUME NEW q \in Id, GovVeto(q)
        PROVE  proposals'[p] = proposals[p]
    BY <1>0, <1>4, StatusWritten DEF GovVeto, Active
  <1>5. CASE UNCHANGED proposals
    BY <1>5
  <1> QED
    BY <1>1, <1>2, <1>3, <1>4, <1>5
    DEF Next, vars, GovInitConfig, SetPaused, LedgerCloses

(***************************************************************************)
(* An executed or vetoed proposal never changes again.                     *)
(***************************************************************************)
THEOREM SettledProposals == Spec => SettledStaysSettled
  <1>1. TypeOK /\ [Next]_vars => [\A p \in Id : proposals[p].status # "Active"
                                     => proposals'[p] = proposals[p]]_vars
    BY SettledStep
  <1> QED
    BY <1>1, TypeCorrect, PTL DEF Spec, SettledStaysSettled

-------------------------------------------------------------------------------
(***************************************************************************)
(* The record of GovernanceHistory adds no behaviour to the rows.          *)
(***************************************************************************)
LEMMA HistoryImplementsSpec == HistorySpec => Spec
  <1>1. HistoryInit => Init
    BY DEF HistoryInit
  <1>2. [HistoryNext]_historyVars => [Next]_vars
    BY DEF HistoryNext, historyVars
  <1> QED
    BY <1>1, <1>2, PTL DEF HistorySpec, Spec

(***************************************************************************)
(* While nobody has changed the vote window under an active proposal, its  *)
(* last vote was cast before its vote ended; while nobody has rewritten    *)
(* its quorum terms, they are the ones in force; and an executed proposal  *)
(* has the approval that was asked of it.                                  *)
(***************************************************************************)
HistoryOK(p) ==
    /\ history[p].lastVote \in Nat
    /\ Active(p) /\ ~history[p].moved => history[p].lastVote =< VoteEnd(p)
    /\ Active(p) => history[p].terms \in {QuorumTerms(config), NoTerms}
    /\ proposals[p].status = "Executed" => Total(p) > 0 /\ Approval(p) >= history[p].asked

HistoryInv == \A p \in Id : HistoryOK(p)

(***************************************************************************)
(* What effective_quorum asks depends on the quorum terms of a             *)
(* configuration only, and no terms ask for nothing.                       *)
(***************************************************************************)
LEMMA QuorumOfTerms ==
    ASSUME NEW c, NEW elapsed \in Nat
    PROVE  /\ Decayed(QuorumTerms(c), elapsed) = Decayed(c, elapsed)
           /\ Decayed(NoTerms, elapsed) = 0
  <1>1. Decayed(QuorumTerms(c), elapsed) = Decayed(c, elapsed)
    <2> DEFINE t == QuorumTerms(c)
    <2>1. t.quorum = c.quorum /\ t.floor = c.floor /\ t.rate = c.rate
      BY DEF QuorumTerms
    <2> HIDE DEF t
    <2>2. Decayed(t, elapsed) = Decayed(c, elapsed)
      BY <2>1 DEF Decayed
    <2> QED
      BY <2>2 DEF t
  <1>2. Decayed(NoTerms, elapsed) = 0
    <2>1. NoTerms.quorum = 0 /\ NoTerms.floor = 0 /\ NoTerms.rate = 0
      BY DEF NoTerms
    <2>2. elapsed * 0 = 0 /\ 0 \div AllBps = 0
      BY Wholes
    <2>3. (elapsed * NoTerms.rate) \div AllBps = 0
      BY <2>1, <2>2
    <2> QED
      BY <2>1, <2>3 DEF Decayed
  <1> QED
    BY <1>1, <1>2

(***************************************************************************)
(* A proposal keeps its number, its creation ledger and its time lock, and *)
(* its tally changes only while its vote is open.                          *)
(***************************************************************************)
LEMMA RowStep ==
    ASSUME TypeOK, Next, NEW p \in Id
    PROVE  /\ p \in Id'
           /\ proposals'[p].created = proposals[p].created
           /\ Total(p)' # Total(p) => VoteOpen(p)
  <1>0. proposals \in Seq(GovProposal)
    BY DEF TypeOK
  <1> DEFINE Kept == /\ p \in Id'
                     /\ proposals'[p].created = proposals[p].created
                     /\ proposals'[p].votesFor = proposals[p].votesFor
                     /\ proposals'[p].votesAgainst = proposals[p].votesAgainst
  <1>1. ASSUME NEW m \in Motion, GovPropose(m[1], m[2])
        PROVE  Kept
    <2>1. proposals'[p] = proposals[p] /\ Len(proposals') = Len(proposals) + 1
      BY <1>1, Proposed
    <2> QED
      BY <1>0, <2>1, RowTypes DEF Id
  <1>2. ASSUME NEW v \in Voter, NEW q \in Id, NEW s \in BOOLEAN, GovVote(v, q, s)
        PROVE  Kept \/ (VoteOpen(p) /\ p \in Id' /\ proposals'[p].created = proposals[p].created)
    BY <1>0, <1>2, VoteCounted DEF GovVote
  <1>3. ASSUME NEW q \in Id, GovExecute(q)
        PROVE  Kept
    BY <1>0, <1>3, StatusWritten DEF GovExecute
  <1>4. ASSUME NEW q \in Id, GovVeto(q)
        PROVE  Kept
    BY <1>0, <1>4, StatusWritten DEF GovVeto
  <1>5. ASSUME UNCHANGED proposals
        PROVE  Kept
    BY <1>5 DEF Id
  <1>6. Kept => Total(p)' = Total(p)
    BY DEF Total
  <1>7. Kept \/ (VoteOpen(p) /\ p \in Id' /\ proposals'[p].created = proposals[p].created)
    BY <1>1, <1>2, <1>3, <1>4, <1>5 DEF Next, GovInitConfig, SetPaused, LedgerCloses
  <1> QED
    BY <1>6, <1>7

(***************************************************************************)
(* Only gov_execute makes an active proposal executed, after its time lock *)
(* and with its quorum; the tally stays.                                   *)
(***************************************************************************)
LEMMA OnlyExecution ==
    ASSUME TypeOK, Next, NEW p \in Id,
           proposals[p].status = "Active", proposals'[p].status = "Executed"
    PROVE  Executable(p) /\ Total(p)' = Total(p) /\ Approval(p)' = Approval(p)
  <1>0. proposals \in Seq(GovProposal)
    BY DEF TypeOK
  <1>1. ASSUME NEW m \in Motion, GovPropose(m[1], m[2])
        PROVE  FALSE
    BY <1>1, Proposed
  <1>2. ASSUME NEW v \in Voter, NEW q \in Id, NEW s \in BOOLEAN, GovVote(v, q, s)
        PROVE  FALSE
    BY <1>0, <1>2, VoteCounted DEF GovVote
  <1>3. ASSUME NEW q \in Id, GovExecute(q)
        PROVE  Executable(p) /\ Total(p)' = Total(p) /\ Approval(p)' = Approval(p)
    <2>1. /\ p = q
          /\ proposals'[p].votesFor = proposals[p].votesFor
          /\ proposals'[p].votesAgainst = proposals[p].votesAgainst
      BY <1>0, <1>3, StatusWritten DEF GovExecute
    <2>2. Total(p)' = Total(p) /\ Approval(p)' = Approval(p)
      BY <2>1 DEF Total, Approval
    <2> QED
      BY <1>3, <2>1, <2>2 DEF GovExecute
  <1>4. ASSUME NEW q \in Id, GovVeto(q)
        PROVE  FALSE
    BY <1>0, <1>4, StatusWritten DEF GovVeto
  <1> QED
    BY <1>1, <1>2, <1>3, <1>4 DEF Next, GovInitConfig, SetPaused, LedgerCloses

(***************************************************************************)
(* Only gov_propose adds a row, an active one, and it leaves the           *)
(* configuration alone.                                                    *)
(***************************************************************************)
LEMMA NewRow ==
    ASSUME TypeOK, Next, NEW p \in Id', p \notin Id
    PROVE  proposals'[p].status = "Active" /\ config' = config
  <1>0. proposals \in Seq(GovProposal) /\ Len(proposals) \in Nat
    BY RowTypes DEF TypeOK
  <1>1. ASSUME NEW m \in Motion, GovPropose(m[1], m[2])
        PROVE  proposals'[p].status = "Active" /\ config' = config
    <2>1. Len(proposals') = Len(proposals) + 1
      BY <1>1, Proposed
    <2>2. p = Len(proposals) + 1
      BY <1>0, <2>1 DEF Id
    <2> QED
      BY <1>1, <2>2, Proposed
  <1>2. ASSUME NEW v \in Voter, NEW q \in Id, NEW s \in BOOLEAN, GovVote(v, q, s)
        PROVE  FALSE
    BY <1>0, <1>2, VoteCounted DEF GovVote
  <1>3. ASSUME NEW q \in Id, GovExecute(q) \/ GovVeto(q)
        PROVE  FALSE
    BY <1>0, <1>3, StatusWritten DEF GovExecute, GovVeto
  <1>4. ASSUME UNCHANGED proposals
        PROVE  FALSE
    BY <1>4 DEF Id
  <1> QED
    BY <1>1, <1>2, <1>3, <1>4 DEF Next, GovInitConfig, SetPaused, LedgerCloses

(***************************************************************************)
(* A step that keeps the window and the tally keeps the record in bounds;  *)
(* a vote is cast in a ledger not past the end of the vote.                *)
(***************************************************************************)
LEMMA HistoryStep ==
    ASSUME TypeOK, HistoryInv, [HistoryNext]_historyVars
    PROVE  HistoryInv'
  <1>0. CASE UNCHANGED historyVars
    BY <1>0 DEF historyVars, vars, HistoryInv, HistoryOK, Id, Active, VoteEnd, QuorumTerms, Total, Approval
  <1>1. CASE Next /\ Record
    <2>1. \A p \in Id' : VoteEnd(p)' \in Nat
      <3>1. TypeOK'
        BY <1>1, TypeStep
      <3>2. config' \in GovConfig /\ \A p \in Id' : proposals'[p] \in GovProposal
        BY <3>1, ElementOfSeq DEF TypeOK, Id
      <3>3. ASSUME NEW r \in GovProposal, NEW c \in GovConfig
            PROVE  r.created + c.window \in Nat
        BY GovernanceBounds DEF GovProposal, GovConfig
      <3> QED
        BY <3>2, <3>3 DEF VoteEnd
    <2> SUFFICES ASSUME NEW p \in Id' PROVE HistoryOK(p)'
      BY DEF HistoryInv
    <2>2. CASE p \notin Id
      <3>1. history'[p] = [Fresh EXCEPT !.terms = QuorumTerms(config)]
        BY <1>1, <2>2 DEF Record, Id
      <3>2. /\ history'[p].lastVote = 0
            /\ history'[p].terms = QuorumTerms(config)
        BY <3>1 DEF Fresh
      <3>3. proposals'[p].status = "Active" /\ config' = config
        BY <1>1, <2>2, NewRow
      <3>4. QuorumTerms(config)' = QuorumTerms(config)
        BY <3>3 DEF QuorumTerms
      <3>5. 0 =< VoteEnd(p)'
        BY <2>1
      <3> QED
        BY <3>2, <3>3, <3>4, <3>5 DEF HistoryOK
    <2>3. CASE p \in Id /\ proposals'[p].status = "Active"
      <3>1. history'[p] = Recorded(p)
        BY <1>1, <2>3 DEF Record, Id
      <3>2. history[p].lastVote \in Nat /\ ledger \in Nat
        BY <2>3, GovernanceBounds DEF HistoryInv, HistoryOK, TypeOK
      <3>3. Recorded(p).lastVote \in Nat
        BY <3>2 DEF Recorded
      <3>4. Active(p)
        BY <1>1, <2>3, SettledStep DEF Active
      <3>5. ASSUME ~Recorded(p).moved
            PROVE  Recorded(p).lastVote =< VoteEnd(p)'
        <4>1. ~history[p].moved /\ config'.window = config.window
          BY <3>5 DEF Recorded
        <4>2. /\ proposals'[p].created = proposals[p].created
              /\ Total(p)' # Total(p) => VoteOpen(p)
          BY <1>1, <2>3, RowStep
        <4>3. VoteEnd(p)' = VoteEnd(p)
          BY <4>1, <4>2 DEF VoteEnd
        <4>4. history[p].lastVote =< VoteEnd(p)
          BY <2>3, <3>4, <4>1 DEF HistoryInv, HistoryOK
        <4>5. Recorded(p).lastVote \in {ledger, history[p].lastVote}
              /\ (Recorded(p).lastVote # history[p].lastVote => Total(p)' # Total(p))
          BY DEF Recorded
        <4> QED
          BY <4>2, <4>3, <4>4, <4>5 DEF VoteOpen
      <3>6. Recorded(p).terms \in {QuorumTerms(config'), NoTerms}
        <4>1. history[p].terms \in {QuorumTerms(config), NoTerms}
          BY <2>3, <3>4 DEF HistoryInv, HistoryOK
        <4>2. Recorded(p).terms = IF QuorumTerms(config') = QuorumTerms(config)
                                  THEN history[p].terms ELSE NoTerms
          BY DEF Recorded
        <4> QED
          BY <4>1, <4>2
      <3>7. QuorumTerms(config)' = QuorumTerms(config')
        BY DEF QuorumTerms
      <3> HIDE DEF QuorumTerms
      <3> QED
        BY <2>3, <3>1, <3>3, <3>5, <3>6, <3>7 DEF HistoryOK
    <2>4. CASE p \in Id /\ ~Active(p)
      <3>1. proposals'[p] = proposals[p]
        BY <1>1, <2>4, SettledStep DEF Active
      <3>2. history'[p] = history[p] /\ ~Active(p)'
        BY <1>1, <2>4, <3>1 DEF Record, Id, Active
      <3>3. Total(p)' = Total(p) /\ Approval(p)' = Approval(p)
        BY <3>1 DEF Total, Approval
      <3> QED
        BY <2>4, <3>1, <3>2, <3>3 DEF HistoryInv, HistoryOK
    <2>5. CASE p \in Id /\ Active(p) /\ proposals'[p].status = "Executed"
      <3>1. history'[p] = [Fresh EXCEPT !.asked = Decayed(history[p].terms, ledger - proposals[p].created)]
        BY <1>1, <2>5 DEF Record, Id, Executed
      <3>2. /\ history'[p].lastVote = 0
            /\ history'[p].asked = Decayed(history[p].terms, ledger - proposals[p].created)
        BY <3>1 DEF Fresh
      <3>3. /\ Executable(p) /\ Total(p)' = Total(p) /\ Approval(p)' = Approval(p)
        BY <1>1, <2>5, OnlyExecution DEF Active
      <3>4. ledger - proposals[p].created \in Nat
        <4>1. proposals \in Seq(GovProposal) /\ ledger \in 1 .. MaxLedger
          BY DEF TypeOK
        <4>2. proposals[p].created \in Nat /\ proposals[p].created =< ledger
          BY <2>5, <4>1, RowTypes DEF TypeOK
        <4> QED
          BY <4>1, <4>2
      <3>5. Approval(p) \in Nat
        <4>1. Total(p) \in Nat \ {0} /\ proposals[p].votesFor * Percent \in Nat
          BY <2>5, <3>3, RowTypes, Wholes DEF TypeOK, Executable
        <4>2. ASSUME NEW n \in Nat, NEW k \in Nat \ {0} PROVE n \div k \in Nat
          OBVIOUS
        <4> QED
          BY <4>1, <4>2 DEF Approval
      <3>6. history[p].terms \in {QuorumTerms(config), NoTerms}
        BY <2>5 DEF HistoryInv, HistoryOK
      <3>7. Approval(p) >= Decayed(history[p].terms, ledger - proposals[p].created)
        BY <3>3, <3>4, <3>5, <3>6, QuorumOfTerms DEF Executable, EffectiveQuorum
      <3>8. ~Active(p)' /\ Total(p) > 0
        BY <2>5, <3>3 DEF Active, Executable
      <3> QED
        BY <3>2, <3>3, <3>7, <3>8 DEF HistoryOK
    <2>6. CASE p \in Id /\ Active(p) /\ proposals'[p].status \notin {"Active", "Executed"}
      <3>1. history'[p] = Fresh
        BY <1>1, <2>6 DEF Record, Id
      <3>2. Fresh.lastVote = 0
        BY DEF Fresh
      <3> QED
        BY <2>6, <3>1, <3>2 DEF HistoryOK, Active
    <2> QED
      BY <2>2, <2>3, <2>4, <2>5, <2>6
  <1> QED
    BY <1>0, <1>1 DEF HistoryNext

(***************************************************************************)
(* The record keeps its meaning through any sequence of calls.             *)
(***************************************************************************)
THEOREM HistoryInvariant == HistorySpec => [](TypeOK /\ HistoryInv)
  <1>1. HistoryInit => HistoryInv
    BY DEF HistoryInit, Init, HistoryInv, Id
  <1>2. TypeOK /\ HistoryInv /\ [HistoryNext]_historyVars => HistoryInv'
    BY HistoryStep
  <1>3. HistorySpec => []TypeOK
    BY HistoryImplementsSpec, TypeCorrect, PTL
  <1> QED
    BY <1>1, <1>2, <1>3, PTL DEF HistorySpec

(***************************************************************************)
(* The governance rows agree after any sequence of calls, whatever         *)
(* proposals rewrite the configuration, and an executed proposal has the   *)
(* approval the terms of its creation asked for, unless those were         *)
(* rewritten while it was open.                                            *)
(***************************************************************************)
THEOREM GovernanceStaysConsistent == HistorySpec => []GovernanceConsistent
  <1>1. GovInv /\ HistoryInv => GovernanceConsistent
    BY DEF GovInv, HistoryInv, HistoryOK, ExecutedWithQuorum, GovernanceConsistent
  <1>2. HistorySpec => []GovInv
    BY HistoryImplementsSpec, GovInvariant, PTL
  <1> QED
    BY <1>1, <1>2, HistoryInvariant, PTL

(***************************************************************************)
(* Between the last vote on a proposal and its execution lies its whole    *)
(* time lock, unless the vote window was changed under it: voters cannot   *)
(* decide a proposal that is then executed before anyone can react.        *)
(***************************************************************************)
THEOREM TimeLockIsServed == HistorySpec => FullTimeLockAfterLastVote
  <1>1. ASSUME TypeOK, HistoryInv, [HistoryNext]_historyVars
        PROVE  [\A p \in Id : Active(p) /\ proposals'[p].status = "Executed" /\ ~history[p].moved
                   => ledger - history[p].lastVote >= proposals[p].timeLock]_historyVars
    <2> SUFFICES ASSUME NEW p \in Id, Active(p), proposals'[p].status = "Executed",
                        ~history[p].moved
                 PROVE  ledger - history[p].lastVote >= proposals[p].timeLock
      OBVIOUS
    <2>1. TimeLockExpired(p)
      BY OnlyExecution, <1>1 DEF HistoryNext, historyVars, vars, Active, Executable
    <2>2. history[p].lastVote =< VoteEnd(p) /\ history[p].lastVote \in Nat
      BY <1>1 DEF HistoryInv, HistoryOK
    <2>3. /\ proposals[p].created \in Nat /\ proposals[p].timeLock \in Nat
          /\ config.window \in Nat /\ ledger \in Nat
      BY <1>1, RowTypes, GovernanceBounds DEF TypeOK, GovConfig
    <2> QED
      BY <2>1, <2>2, <2>3 DEF TimeLockExpired, VoteEnd
  <1> QED
    BY <1>1, HistoryInvariant, PTL DEF HistorySpec, FullTimeLockAfterLastVote
=================================================================================
