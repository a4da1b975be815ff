---------------------------- MODULE MCContracts ----------------------------
(* Two contracts that share nothing, one at a time: a behaviour is one of    *)
(* the registry, with two owners, two documents and up to two collaterals,   *)
(* or one of the governance contract, with three voters of four tokens each, *)
(* one proposal and an admin who may loosen the rules once.                  *)
EXTENDS CollateralRegistry, Governance, TLC

VARIABLE part

MCValuations == {0, 1, 2}
MCLockRefs == {0, 7}

Default ==
    [voting_period |-> 2, timelock_period |-> 1, quorum_bps |-> 1000,
     majority_bps |-> 5000, min_voting_power |-> 5]
Loose ==
    [voting_period |-> 1, timelock_period |-> 0, quorum_bps |-> 0,
     majority_bps |-> 5000, min_voting_power |-> 0]
TwoConfigs == {Default, Loose}

\* No operation tells one voter from another.
VoterSymmetry == Permutations(Voters)

ContractsInit ==
    /\ Init /\ GovInit
    /\ part \in {"registry", "governance"}
    /\ part = "registry" => total_pwr = 10 /\ param = 1

ContractsNext ==
    \/ part = "registry" /\ Next /\ UNCHANGED <<govVars, part>>
    \/ part = "governance" /\ GovNext /\ UNCHANGED <<regVars, part>>

ContractsSpec == ContractsInit /\ [][ContractsNext]_<<regVars, govVars, part>>
============================================================================
