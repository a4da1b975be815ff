----------------------------- MODULE Governance -----------------------------
(***************************************************************************)
(* The governance contract (contracts/governance): proposals to change a   *)
(* risk parameter, quadratic votes, delegation, the timelock, and an admin *)
(* who may change the rules and cancel proposals at any time.  Calls are   *)
(* atomic and everybody signs what is asked of them.  One parameter stands *)
(* for the six; the hand-over of the admin, which is that of OracleAdapter *)
(* again, and the marker call tally_proposal, which writes nothing, are    *)
(* left out.                                                               *)
(***************************************************************************)
EXTENDS Integers, Sequences, FiniteSets, FiniteSetsExt, Functions

CONSTANTS
    Voters,
    DefaultBalance,    \* tokens of an address nothing is stored for (100)
    GovConfigs,        \* GovernanceConfig values the admin may set
    FirstConfig,       \* GovernanceConfig::default()
    TotalPowers,       \* total voting power the admin may set
    ParamRange,        \* valid values of the parameter
    ParamValues,       \* values that are proposed, invalid ones included
    VoteCounts,        \* num_votes arguments
    MaxProposals,      \* bound: proposals created
    MaxDelegations,    \* bound: calls of delegate
    MaxRules,          \* bound: changes of the rules by the admin
    MaxGovTime         \* bound: ledger time

ASSUME GovernanceAssumption ==
    /\ DefaultBalance \in Nat
    /\ FirstConfig \in GovConfigs
    /\ \A c \in GovConfigs : c.voting_period \in Nat /\ c.timelock_period \in Nat
    /\ VoteCounts \subseteq Int
    /\ IsFiniteSet(Voters) /\ "nobody" \notin Voters

VARIABLES
    balance,           \* ("vp", voter)
    delegation,        \* ("deleg", delegator)
    delegators,        \* ("d_list", delegatee)
    proposals,         \* ("prop", id), ids from 1
    ballots,           \* ("vote", id, voter) for each proposal
    config,            \* instance storage "config"
    total_pwr,         \* instance storage "total_pwr"
    param,             \* the value last handed to RiskAssessment, see execute_proposal
    govTime,           \* ledger timestamp
    delegations,       \* calls of delegate so far
    rules              \* changes of the rules so far

govVars == <<balance, delegation, delegators, proposals, ballots, config, total_pwr,
             param, govTime, delegations, rules>>

Nobody == "nobody"
NoBallot == [support |-> FALSE, power |-> 0]

\* Newton's method, from n / 2 + 1 downwards.
Closer(n, x) == (x + n \div x) \div 2
Newton(n) == LET root[x \in 1 .. n] == IF Closer(n, x) < x THEN root[Closer(n, x)] ELSE x
             IN root

sqrt(n) == CASE n <= 0 -> 0
             [] n = 1 -> n
             [] OTHER -> Newton(n)[n \div 2 + 1]

\* Mutated forms of definitions below.
AlreadyVoted_Unchecked(p, v) == FALSE
ExecutionTs_NoVoting(c) == govTime + c.timelock_period
Listed_Unchecked(d, list) == FALSE

validate_parameter(v) == v \in ParamRange

AlreadyVoted(p, v) == ballots[p][v] # NoBallot

\* execution_ts of a proposal made now.
ExecutionTs(c) == govTime + c.voting_period + c.timelock_period

\* deleg_list.contains
Listed(d, list) == d \in Range(list)

\* get_total_controlled_tokens: the loop over the list, which skips those who have
\* delegated to somebody else since.
Delegated(v) == [i \in DOMAIN delegators[v] |->
                   LET d == delegators[v][i] IN IF delegation[d] = v THEN balance[d] ELSE 0]
Controlled(v) == balance[v] + SumFunction(Delegated(v))

get_voting_power(v) == sqrt(Controlled(v))

TotalVotes(p) == proposals[p].votes_for + proposals[p].votes_against

\* has_proposal_passed, in the terms of the moment it is asked.
has_proposal_passed(p) ==
    /\ TotalVotes(p) >= (total_pwr * config.quorum_bps) \div 10000
    /\ proposals[p].votes_for >= (TotalVotes(p) * config.majority_bps) \div 10000

----------------------------------------------------------------------------

GovInit ==
    /\ balance = [v \in Voters |-> DefaultBalance]
    /\ delegation = [v \in Voters |-> Nobody]
    /\ delegators = [v \in Voters |-> <<>>]
    /\ proposals = <<>>
    /\ ballots = <<>>
    /\ config = FirstConfig
    /\ total_pwr \in TotalPowers
    /\ param \in ParamRange
    /\ govTime = 0
    /\ delegations = 0
    /\ rules = 0

\* The last two fields are history: when the last vote was cast, and the timelock
\* in force when the proposal was made.
create_proposal(v, value) ==
    /\ Len(proposals) < MaxProposals
    /\ Controlled(v) >= config.min_voting_power
    /\ validate_parameter(value)
    /\ proposals' = Append(proposals,
         [new_value |-> value, votes_for |-> 0, votes_against |-> 0, executed |-> FALSE,
          voting_end_ts |-> govTime + config.voting_period, execution_ts |-> ExecutionTs(config),
          last_vote |-> govTime, timelock |-> config.timelock_period])
    /\ ballots' = Append(ballots, [w \in Voters |-> NoBallot])
    /\ UNCHANGED <<balance, delegation, delegators, config, total_pwr, param, govTime,
                   delegations, rules>>

\* The cost is taken from the voter's own tokens, as far as they go.
cast_vote(p, v, support, num_votes) ==
    /\ num_votes > 0
    /\ govTime < proposals[p].voting_end_ts
    /\ ~AlreadyVoted(p, v)
    /\ num_votes <= get_voting_power(v)
    /\ balance' = [balance EXCEPT ![v] = Max({0, @ - num_votes * num_votes})]
    /\ ballots' = [ballots EXCEPT ![p][v] = [support |-> support, power |-> num_votes]]
    /\ proposals' =
         IF support
         THEN [proposals EXCEPT ![p].votes_for = @ + num_votes, ![p].last_vote = govTime]
         ELSE [proposals EXCEPT ![p].votes_against = @ + num_votes, ![p].last_vote = govTime]
    /\ UNCHANGED <<delegation, delegators, config, total_pwr, param, govTime, delegations, rules>>

\* The new value is handed to RiskAssessment's update_risk_parameters.  There it
\* waits for a second timelock and for a call that applies it, so that it comes
\* into force later than param has it.
execute_proposal(p) ==
    /\ ~proposals[p].executed
    /\ govTime >= proposals[p].voting_end_ts
    /\ govTime >= proposals[p].execution_ts
    /\ has_proposal_passed(p)
    /\ param' = proposals[p].new_value
    /\ proposals' = [proposals EXCEPT ![p].executed = TRUE]
    /\ UNCHANGED <<balance, delegation, delegators, ballots, config, total_pwr, govTime,
                   delegations, rules>>

cancel_proposal(p) ==
    /\ ~proposals[p].executed
    /\ proposals' = [proposals EXCEPT ![p].executed = TRUE]
    /\ UNCHANGED <<balance, delegation, delegators, ballots, config, total_pwr, param, govTime,
                   delegations, rules>>

\* The list of an earlier delegatee keeps the delegator.
delegate(d, to) ==
    /\ delegations < MaxDelegations
    /\ delegations' = delegations + 1
    /\ d # to
    /\ delegation' = [delegation EXCEPT ![d] = to]
    /\ delegators' = IF Listed(d, delegators[to]) THEN delegators
                     ELSE [delegators EXCEPT ![to] = Append(@, d)]
    /\ UNCHANGED <<balance, proposals, ballots, config, total_pwr, param, govTime, rules>>

update_config(c) ==
    /\ rules < MaxRules
    /\ rules' = rules + 1
    /\ config' = c
    /\ UNCHANGED <<balance, delegation, delegators, proposals, ballots, total_pwr, param, govTime,
                   delegations>>

set_total_voting_power(n) ==
    /\ rules < MaxRules
    /\ rules' = rules + 1
    /\ total_pwr' = n
    /\ UNCHANGED <<balance, delegation, delegators, proposals, ballots, config, param, govTime,
                   delegations>>

GovTick ==
    /\ govTime < MaxGovTime
    /\ govTime' = govTime + 1
    /\ UNCHANGED <<balance, delegation, delegators, proposals, ballots, config, total_pwr, param,
                   delegations, rules>>

GovNext ==
    \/ \E v \in Voters :
         \/ \E value \in ParamValues : create_proposal(v, value)
         \/ \E p \in DOMAIN proposals, support \in BOOLEAN, n \in VoteCounts :
              cast_vote(p, v, support, n)
         \/ \E to \in Voters : delegate(v, to)
    \/ \E p \in DOMAIN proposals : execute_proposal(p) \/ cancel_proposal(p)
    \/ \E c \in GovConfigs : update_config(c)
    \/ \E n \in TotalPowers : set_total_voting_power(n)
    \/ GovTick

GovSpec == GovInit /\ [][GovNext]_govVars

----------------------------------------------------------------------------
(* Properties *)

\* The votes of a proposal, and those who cast one for or against it; a voter
\* without a ballot counts among the latter, with no power.
Powers(p) == [v \in Voters |-> ballots[p][v].power]
Sided(p, support) == {v \in Voters : ballots[p][v].support = support}

\* The two counters of a proposal are the sums of the ballots it holds: nobody is
\* counted twice, in whatever order votes are cast and however often a voter
\* comes back.
TalliesMatchBallots ==
    \A p \in DOMAIN proposals :
       /\ proposals[p].votes_for = SumFunctionOnSet(Powers(p), Sided(p, TRUE))
       /\ proposals[p].votes_against = SumFunctionOnSet(Powers(p), Sided(p, FALSE))

\* The tokens of a voter and of those whose delegation it has now.
Tokens(v) == balance[v] + SumFunctionOnSet(balance, {d \in Voters : delegation[d] = v})

\* Quadratic voting: the square of a new vote is at most these tokens, each counted
\* once, however often delegations were changed, taken back and given again.
VotesWithinTokens ==
    [][\A p \in DOMAIN proposals, v \in Voters :
         ballots'[p][v] # ballots[p][v] =>
            ballots'[p][v].power * ballots'[p][v].power <= Tokens(v)]_govVars

\* A change is handed on only when the timelock that was in force when it was
\* proposed has passed since its last vote, also when the admin has changed the
\* periods meanwhile; it comes into force no earlier.
EffectAfterTimelock ==
    [][\A p \in DOMAIN proposals :
         param' # param /\ proposals'[p].executed # proposals[p].executed =>
            /\ govTime >= proposals[p].last_vote + proposals[p].timelock
            /\ TotalVotes(p) > 0 => govTime > proposals[p].last_vote + proposals[p].timelock]_govVars
=============================================================================
