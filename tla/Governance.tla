------------------------------- MODULE Governance -------------------------------
(***************************************************************************)
(* On-chain governance of linkora-contracts/src/lib.rs: proposals, votes,  *)
(* the time lock with its veto window, quorum decay, and execution, which  *)
(* may rewrite the very configuration that times every other proposal.     *)
(* The ledger sequence number is the clock.  u32 sums that overflow panic  *)
(* (overflow-checks = true), so the call is no step.                       *)
(***************************************************************************)
EXTENDS Integers, FiniteSets, Sequences

CONSTANTS Voter,
          Motion,       \* what may be proposed: <<parameter, new value>>
          Config,       \* configurations gov_init_config may install
          MaxLedger,    \* bound on the clock
          MaxProposals, \* bound on proposals ever made
          MaxU32        \* largest ledger number and ledger count

AllBps == 10000     \* a whole in basis points
Percent == 100      \* a whole in percent

(***************************************************************************)
(* GovConfig, whose rate is in basis points per ledger, and GovProposal.   *)
(***************************************************************************)
GovConfig ==
    [quorum : 1 .. Percent, floor : 0 .. Percent, timeLock : 1 .. MaxU32,
     window : 1 .. MaxU32, rate : 0 .. AllBps]

GovProposal ==
    [param : {"FeeBps", "GovQuorum", "GovTimeLock", "GovVoteWindow"},
     value : 0 .. MaxU32, votesFor : Nat, votesAgainst : Nat,
     created : 1 .. MaxLedger, timeLock : 1 .. MaxU32, expiry : Nat,
     status : {"Active", "Executed", "Vetoed"}]

ASSUME ConfigsAreValid ==
    Config \subseteq GovConfig /\ \A c \in Config : c.floor =< c.quorum
ASSUME MotionsAreU32 ==
    Motion \subseteq {"FeeBps", "GovQuorum", "GovTimeLock", "GovVoteWindow"}
                     \X (0 .. MaxU32)
ASSUME GovernanceBounds ==
    MaxLedger \in 1 .. MaxU32 /\ MaxProposals \in Nat /\ MaxU32 \in Nat

VARIABLES
    ledger,     \* current ledger sequence
    config,     \* GovConfig
    proposals,  \* GovProposal rows by id
    ballots,    \* GovVote rows, pairs <<id, voter>>
    fee,        \* FEE_BPS, standing for the parameters outside GovConfig
    paused      \* PauseModule::Governance

vars == <<ledger, config, proposals, ballots, fee, paused>>

Id == 1 .. Len(proposals)
(* Mutant: any existing proposal counts as active. *)
ActiveIfExists(p) == p \in Id

Active(p) == p \in Id /\ proposals[p].status = "Active"

(* The governance rows have the types that gov_init_config, gov_propose and
   gov_vote write. *)
TypeOK ==
    /\ ledger \in 1 .. MaxLedger
    /\ config \in GovConfig
    /\ proposals \in Seq(GovProposal)
    /\ \A p \in Id : /\ <<proposals[p].param, proposals[p].value>> \in Motion
                     /\ proposals[p].created =< ledger
    /\ ballots \subseteq Id \X Voter
    /\ fee \in 0 .. AllBps
    /\ paused \in BOOLEAN

Init ==
    /\ ledger = 1
    /\ config \in Config
    /\ proposals = <<>> /\ ballots = {}
    /\ fee = 0
    /\ paused = FALSE

-------------------------------------------------------------------------------
(***************************************************************************)
(* gov_init_config may be called again at any time.                        *)
(***************************************************************************)
GovInitConfig(c) ==
    /\ config' = c
    /\ UNCHANGED <<ledger, proposals, ballots, fee, paused>>

(***************************************************************************)
(* The range check on new_value, by parameter, made by gov_propose and     *)
(* again by gov_execute.                                                   *)
(***************************************************************************)
InRange(param, v) ==
    CASE param = "FeeBps"    -> v =< AllBps
      [] param = "GovQuorum" -> v \in 1 .. Percent
      [] OTHER               -> v >= 1

(***************************************************************************)
(* GovConfig.proposal_expiry_ledgers, which gov_init_config always sets to *)
(* 0 and nothing else sets: no proposal ever expires.                      *)
(***************************************************************************)
ProposalExpiry == 0

GovPropose(param, v) ==
    /\ ~paused
    /\ Len(proposals) < MaxProposals
    /\ InRange(param, v)
    /\ proposals' = Append(proposals,
           [param |-> param, value |-> v, votesFor |-> 0, votesAgainst |-> 0,
            created |-> ledger, timeLock |-> config.timeLock,
            expiry |-> ProposalExpiry, status |-> "Active"])
    /\ UNCHANGED <<ledger, config, ballots, fee, paused>>

(***************************************************************************)
(* The end of the vote, from the configuration in force now.               *)
(***************************************************************************)
VoteEnd(p) == proposals[p].created + config.window

VoteOpen(p) == VoteEnd(p) =< MaxU32 /\ ledger =< VoteEnd(p)

NotYetVoted(v, p) == <<p, v>> \notin ballots

GovVote(v, p, support) ==
    /\ ~paused
    /\ Active(p) /\ VoteOpen(p)
    /\ NotYetVoted(v, p)
    /\ proposals' = IF support THEN [proposals EXCEPT ![p].votesFor = @ + 1]
                    ELSE [proposals EXCEPT ![p].votesAgainst = @ + 1]
    /\ ballots' = ballots \cup {<<p, v>>}
    /\ UNCHANGED <<ledger, config, fee, paused>>

(***************************************************************************)
(* effective_quorum: the configured quorum less its decay since creation,  *)
(* never below the floor.  Quorum, floor and rate are those in force now.  *)
(***************************************************************************)
Decayed(c, elapsed) ==
    LET decay   == (elapsed * c.rate) \div AllBps
        decayed == IF decay > c.quorum THEN 0 ELSE c.quorum - decay
    IN  IF decayed < c.floor THEN c.floor ELSE decayed

(* Mutant: a proposal is held to the floor from its first ledger on. *)
EffectiveQuorumIsFloor(p) == config.floor

EffectiveQuorum(p) == Decayed(config, ledger - proposals[p].created)

Total(p) == proposals[p].votesFor + proposals[p].votesAgainst
Approval(p) == (proposals[p].votesFor * Percent) \div Total(p)

(* Mutant: execution does not wait for the time lock. *)
TimeLockExpiredAtVoteEnd(p) == VoteEnd(p) =< MaxU32 /\ ledger >= VoteEnd(p)

(***************************************************************************)
(* Execution is timed by the live vote window and the time lock the        *)
(* proposal was created with; this sum is taken in u64.                    *)
(***************************************************************************)
TimeLockExpired(p) ==
    VoteEnd(p) =< MaxU32 /\ ledger >= VoteEnd(p) + proposals[p].timeLock

Expired(p) ==
    /\ proposals[p].expiry > 0
    /\ ledger >= proposals[p].created + proposals[p].expiry

Executable(p) ==
    /\ Active(p) /\ TimeLockExpired(p) /\ ~Expired(p)
    /\ Total(p) > 0 /\ Approval(p) >= EffectiveQuorum(p)

QuorumAllowed(v) == v >= config.floor

(***************************************************************************)
(* gov_execute writes the parameter and retires the proposal.              *)
(***************************************************************************)
GovExecute(p) ==
    /\ ~paused
    /\ Executable(p)
    /\ LET v == proposals[p].value
           param == proposals[p].param
       IN  /\ InRange(param, v)
           /\ param = "GovQuorum" => QuorumAllowed(v)
           /\ fee' = IF param = "FeeBps" THEN v ELSE fee
           /\ config' =
                CASE param = "GovQuorum"     -> [config EXCEPT !.quorum = v]
                  [] param = "GovTimeLock"   -> [config EXCEPT !.timeLock = v]
                  [] param = "GovVoteWindow" -> [config EXCEPT !.window = v]
                  [] OTHER                   -> config
    /\ proposals' = [proposals EXCEPT ![p].status = "Executed"]
    /\ UNCHANGED <<ledger, ballots, paused>>

(***************************************************************************)
(* gov_veto by enough admins of some pool, inside the window the live      *)
(* configuration gives; both sums are taken in u32.                        *)
(***************************************************************************)
VetoOpen(p) ==
    /\ VoteEnd(p) + config.timeLock =< MaxU32
    /\ ledger \in VoteEnd(p) .. VoteEnd(p) + config.timeLock - 1

GovVeto(p) ==
    /\ ~paused
    /\ Active(p) /\ VetoOpen(p)
    /\ proposals' = [proposals EXCEPT ![p].status = "Vetoed"]
    /\ UNCHANGED <<ledger, config, ballots, fee, paused>>

SetPaused(b) ==
    /\ paused' = b
    /\ UNCHANGED <<ledger, config, proposals, ballots, fee>>

(***************************************************************************)
(* The network closes a ledger.                                            *)
(***************************************************************************)
LedgerCloses ==
    /\ ledger < MaxLedger
    /\ ledger' = ledger + 1
    /\ UNCHANGED <<config, proposals, ballots, fee, paused>>

Next ==
    \/ \E c \in Config : GovInitConfig(c)
    \/ \E m \in Motion : GovPropose(m[1], m[2])
    \/ \E v \in Voter, p \in Id, s \in BOOLEAN : GovVote(v, p, s)
    \/ \E p \in Id : GovExecute(p)
    \/ \E p \in Id : GovVeto(p)
    \/ \E b \in BOOLEAN : SetPaused(b)
    \/ LedgerCloses

Spec == Init /\ [][Next]_vars

-------------------------------------------------------------------------------
(***************************************************************************)
(* Properties                                                              *)
(***************************************************************************)

(***************************************************************************)
(* tests/invariants.rs, 6: whatever is proposed, executed or reconfigured, *)
(* in whatever order, the quorum never drops below the floor in force.     *)
(***************************************************************************)
QuorumAboveFloor == config.quorum >= config.floor

(***************************************************************************)
(* The tally of every proposal is the number of its ballots, one per       *)
(* voter, also across reopened vote windows.                               *)
(***************************************************************************)
TallyMatchesBallots ==
    \A p \in Id : Total(p) = Cardinality({b \in ballots : b[1] = p})

(***************************************************************************)
(* A proposal that was executed or vetoed is settled: neither its status   *)
(* nor its tally ever changes again, whatever happens to the windows.      *)
(***************************************************************************)
SettledStaysSettled ==
    [][\A p \in Id : proposals[p].status # "Active"
           => proposals'[p] = proposals[p]]_vars
=================================================================================
