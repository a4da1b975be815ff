--------------------------- MODULE OracleService ---------------------------
(***************************************************************************)
(* The server's records of oracles (server/src/services/oracle.service.ts) *)
(* under calls that run at the same time.  A call is a list of steps, each *)
(* one query: what it reads it keeps, and what it writes may meanwhile     *)
(* have been changed by another.  resolveDispute wraps its loop in a       *)
(* transaction, which covers only the dispute's row: the penalties go      *)
(* through the plain client and stay when the transaction is rolled back.  *)
(* Stakes are counted in units of the 100 that a lost dispute costs.  One  *)
(* escrow and one threshold signature; scores, rewards and metadata are    *)
(* left out.                                                               *)
(***************************************************************************)
EXTENDS Integers, Sequences, SequencesExt, FiniteSets

CONSTANTS
    Nodes,             \* addresses of oracles
    Calls,             \* calls that can be under way at once
    EventNames,        \* event types that are confirmed
    DisputeIds,
    StakeAmounts,      \* stakeAmount of a registration, 0 for none
    RequiredSigs,      \* requiredSigs of the threshold signature
    MAX_CONFIRMATIONS_PER_MINUTE,
    MaxCalls           \* bound: calls made in a behaviour

ASSUME OracleAssumption ==
    /\ IsFiniteSet(Calls) /\ Calls # {}
    /\ MAX_CONFIRMATIONS_PER_MINUTE \in Nat \ {0}
    /\ StakeAmounts \subseteq Nat
    /\ MaxCalls \in Nat
    /\ "none" \notin DisputeIds

VARIABLES
    node,              \* Oracle rows
    stake,             \* OracleStake rows
    votes,             \* votes of the OracleReputation rows
    outcomes,          \* confirmation counters of the Oracle rows
    confirmed,         \* OracleConfirmation rows
    rate,              \* OracleRateLimit of the current minute
    dispute,           \* Dispute rows: status and the verdict
    threshold,         \* signers of the threshold signature, and its status
    call,              \* the steps each call has left, and what it has read
    made,              \* calls made
    cost,              \* history: slashes for a dispute
    signed,            \* history: signatures that were answered with success
    collided           \* history: whether a signature was written over another

oracleVars == <<node, stake, votes, outcomes, confirmed, rate, dispute, threshold,
                call, made, cost, signed, collided>>

NoVotes == [success |-> 0, failure |-> 0]
NoStake == [held |-> FALSE, amount |-> 0, slashed |-> 0]
NoCall == [todo |-> <<>>, event |-> "none", dispute |-> "none", outcome |-> "none",
           stake |-> 0, read |-> NoVotes, seen |-> {}]
Do(step, o) == [do |-> step, node |-> o]

\* Mutated forms of definitions below.
UnderLimit_OneMore(o) == rate[o] <= MAX_CONFIRMATIONS_PER_MINUTE
Penalty_CommitsFirst(losers, outcome) ==
    <<Do("commit", "none")>> \o
    FlattenSeq([i \in DOMAIN losers |-> <<Do("check", losers[i]), Do("slash", losers[i])>>])
slashStake_StakeOnly(o) == <<Do("check", o), Do("slash", o)>>

\* checkRateLimitAtomic
UnderLimit(o) == rate[o] < MAX_CONFIRMATIONS_PER_MINUTE

EnoughStake(o) == stake[o].held /\ stake[o].amount >= 1

\* signatures.push
Push(seen, o) == seen \cup {o}

updateReputation(o) == <<Do("read", o), Do("write", o), Do("count", o)>>
slashStake(o) == <<Do("check", o), Do("slash", o)>> \o updateReputation(o)

\* What resolveDispute does to the oracles that confirmed, before it commits.
Penalty(losers, outcome) ==
    FlattenSeq([i \in DOMAIN losers |->
        IF outcome = "failure" THEN updateReputation(losers[i]) \o slashStake(losers[i])
        ELSE updateReputation(losers[i])])
    \o <<Do("commit", "none")>>

----------------------------------------------------------------------------

OracleInit ==
    /\ node = [o \in Nodes |-> "none"]
    /\ stake = [o \in Nodes |-> NoStake]
    /\ votes = [o \in Nodes |-> NoVotes]
    /\ outcomes = [o \in Nodes |-> NoVotes]
    /\ confirmed = {}
    /\ rate = [o \in Nodes |-> 0]
    /\ dispute = [d \in DisputeIds |-> "none"]
    /\ threshold = {}
    /\ call = [k \in Calls |-> NoCall]
    /\ made = 0
    /\ cost = [d \in DisputeIds |-> [o \in Nodes |-> 0]]
    /\ signed = {}
    /\ collided = FALSE

dataVars == <<node, stake, votes, outcomes, confirmed, rate, dispute, threshold,
              cost, signed, collided>>

\* A call starts: what it tests at once has been tested.
Start(k, c) ==
    /\ call[k] = NoCall
    /\ made < MaxCalls
    /\ made' = made + 1
    /\ call' = [call EXCEPT ![k] = c]
    /\ UNCHANGED dataVars

registerOracle(k, o, amount) ==
    /\ node[o] # "active"
    /\ LET write == IF node[o] = "none" THEN "create" ELSE "reactivate"
       IN Start(k, [NoCall EXCEPT !.todo = <<Do(write, o)>>, !.stake = amount])

confirmOracleEvent(k, o, ev) ==
    /\ node[o] = "active"
    /\ <<o, ev>> \notin confirmed
    /\ Start(k, [NoCall EXCEPT !.todo = <<Do("limit", o), Do("confirm", o)>>, !.event = ev])

SlashCall(k, o) ==
    /\ node[o] # "none"
    /\ Start(k, [NoCall EXCEPT !.todo = slashStake(o), !.outcome = "failure"])

resolveDispute(k, d, outcome) ==
    /\ dispute[d] = "OPEN"
    /\ Start(k, [NoCall EXCEPT !.todo = <<Do("update", "none")>>, !.dispute = d, !.outcome = outcome])

addThresholdSignature(k, o) ==
    /\ Cardinality(threshold) < RequiredSigs
    /\ o \notin threshold
    /\ Start(k, [NoCall EXCEPT !.todo = <<Do("sign", o)>>, !.seen = threshold])

deactivateOracle(o) ==
    /\ node[o] = "active"
    /\ node' = [node EXCEPT ![o] = "inactive"]
    /\ UNCHANGED <<stake, votes, outcomes, confirmed, rate, dispute, threshold, call, made,
                   cost, signed, collided>>

\* The dispute that flagDispute creates.
FlagDispute(d) ==
    /\ dispute[d] = "none"
    /\ dispute' = [dispute EXCEPT ![d] = "OPEN"]
    /\ UNCHANGED <<node, stake, votes, outcomes, confirmed, rate, threshold, call, made,
                   cost, signed, collided>>

\* getMinuteWindow moves on.
NextMinute ==
    /\ \E o \in Nodes : rate[o] # 0
    /\ rate' = [o \in Nodes |-> 0]
    /\ UNCHANGED <<node, stake, votes, outcomes, confirmed, dispute, threshold, call, made,
                   cost, signed, collided>>

----------------------------------------------------------------------------
(* The steps of a call *)

NextStep(k) == Head(call[k].todo)
At(k, step) == call[k].todo # <<>> /\ NextStep(k).do = step

\* On to the next step, or nothing left.
Goes(k) ==
    call' = [call EXCEPT ![k] = IF Len(call[k].todo) = 1 THEN NoCall
                                ELSE [call[k] EXCEPT !.todo = Tail(@)]]
Throws(k) == call' = [call EXCEPT ![k] = NoCall]

\* The row of a dispute is locked by the first update of it.
Holds(k, d) == call[k].dispute = d /\ ~At(k, "update")

\* A new row must be unique; one that was inactive when it was read is taken over
\* with the new stake, also when it has become active meanwhile.
Register(k) ==
    /\ At(k, "create") \/ At(k, "reactivate")
    /\ LET o == NextStep(k).node
       IN IF At(k, "create") /\ node[o] # "none"
          THEN Throws(k) /\ UNCHANGED <<node, stake>>
          ELSE /\ node' = [node EXCEPT ![o] = "active"]
               /\ stake' = IF call[k].stake = 0 THEN stake
                           ELSE [stake EXCEPT ![o].held = TRUE, ![o].amount = call[k].stake]
               /\ Goes(k)
    /\ UNCHANGED <<votes, outcomes, confirmed, rate, dispute, threshold, cost, signed, collided>>

CheckLimit(k) ==
    /\ At(k, "limit")
    /\ IF UnderLimit(NextStep(k).node) THEN Goes(k) ELSE Throws(k)
    /\ UNCHANGED dataVars

\* The increment and the new row, which must be unique, in one transaction.
Confirm(k) ==
    /\ At(k, "confirm")
    /\ LET o == NextStep(k).node
           new == <<o, call[k].event>>
       IN IF new \in confirmed THEN Throws(k) /\ UNCHANGED <<confirmed, rate>>
          ELSE /\ confirmed' = confirmed \cup {new}
               /\ rate' = [rate EXCEPT ![o] = @ + 1]
               /\ Goes(k)
    /\ UNCHANGED <<node, stake, votes, outcomes, dispute, threshold, cost, signed, collided>>

ReadReputation(k) ==
    /\ At(k, "read")
    /\ call' = [call EXCEPT ![k].todo = Tail(@), ![k].read = votes[NextStep(k).node]]
    /\ UNCHANGED dataVars

\* The votes are written as computed from the read, the counters are incremented.
Plus(v, k) == [v EXCEPT ![call[k].outcome] = @ + 1]

WriteReputation(k) ==
    /\ At(k, "write")
    /\ votes' = [votes EXCEPT ![NextStep(k).node] = Plus(call[k].read, k)]
    /\ call' = [call EXCEPT ![k].todo = Tail(@), ![k].read = NoVotes]
    /\ UNCHANGED <<node, stake, outcomes, confirmed, rate, dispute, threshold, cost, signed, collided>>

CountOutcome(k) ==
    /\ At(k, "count")
    /\ outcomes' = [outcomes EXCEPT ![NextStep(k).node] = Plus(@, k)]
    /\ Goes(k)
    /\ UNCHANGED <<node, stake, votes, confirmed, rate, dispute, threshold, cost, signed, collided>>

CheckStake(k) ==
    /\ At(k, "check")
    /\ IF EnoughStake(NextStep(k).node) THEN Goes(k) ELSE Throws(k)
    /\ UNCHANGED dataVars

Slash(k) ==
    /\ At(k, "slash")
    /\ LET o == NextStep(k).node
       IN /\ stake' = [stake EXCEPT ![o].amount = @ - 1, ![o].slashed = @ + 1]
          /\ cost' = IF call[k].dispute = "none" THEN cost
                     ELSE [cost EXCEPT ![call[k].dispute][o] = @ + 1]
    /\ Goes(k)
    /\ UNCHANGED <<node, votes, outcomes, confirmed, rate, dispute, threshold, signed, collided>>

\* tx.dispute.update waits for the row, whatever its status has become; then the
\* confirmations are fetched.
UpdateDispute(k) ==
    /\ At(k, "update")
    /\ \A j \in Calls : ~Holds(j, call[k].dispute)
    /\ LET rows == SetToSeq(confirmed)
           losers == [i \in DOMAIN rows |-> rows[i][1]]
       IN call' = [call EXCEPT ![k].todo = Penalty(losers, call[k].outcome),
                               ![k].seen = Range(losers)]
    /\ UNCHANGED dataVars

Commit(k) ==
    /\ At(k, "commit")
    /\ dispute' = [dispute EXCEPT ![call[k].dispute] = call[k].outcome]
    /\ Goes(k)
    /\ UNCHANGED <<node, stake, votes, outcomes, confirmed, rate, threshold, cost, signed, collided>>

Sign(k) ==
    /\ At(k, "sign")
    /\ LET o == NextStep(k).node
       IN /\ threshold' = Push(call[k].seen, o)
          /\ signed' = signed \cup {o}
          /\ collided' = (collided \/ threshold # call[k].seen)
    /\ Goes(k)
    /\ UNCHANGED <<node, stake, votes, outcomes, confirmed, rate, dispute, cost>>

CallStep(k) ==
    /\ \/ Register(k) \/ CheckLimit(k) \/ Confirm(k)
       \/ ReadReputation(k) \/ WriteReputation(k) \/ CountOutcome(k)
       \/ CheckStake(k) \/ Slash(k)
       \/ UpdateDispute(k) \/ Commit(k) \/ Sign(k)
    /\ UNCHANGED made

OracleNext ==
    \/ \E k \in Calls :
         \/ CallStep(k)
         \/ \E o \in Nodes :
              \/ \E amount \in StakeAmounts : registerOracle(k, o, amount)
              \/ \E ev \in EventNames : confirmOracleEvent(k, o, ev)
              \/ SlashCall(k, o)
              \/ addThresholdSignature(k, o)
         \/ \E d \in DisputeIds, outcome \in {"success", "failure"} : resolveDispute(k, d, outcome)
    \/ \E o \in Nodes : deactivateOracle(o)
    \/ \E d \in DisputeIds : FlagDispute(d)
    \/ NextMinute

OracleSpec == OracleInit /\ [][OracleNext]_oracleVars

----------------------------------------------------------------------------
(* Properties *)

Counts == [success : Nat, failure : Nat]

OracleTypeOK ==
    /\ node \in [Nodes -> {"none", "active", "inactive"}]
    /\ \A o \in Nodes :
         /\ stake[o] = NoStake \/ stake[o].held
         /\ votes[o] \in Counts /\ outcomes[o] \in Counts /\ rate[o] \in Nat
         /\ node[o] = "none" => stake[o] = NoStake /\ outcomes[o] = NoVotes
    /\ \A new \in confirmed : node[new[1]] # "none" /\ new[2] \in EventNames
    /\ dispute \in [DisputeIds -> {"none", "OPEN", "success", "failure"}]
    /\ threshold \subseteq Nodes
    /\ made \in 0 .. MaxCalls

\* Checks and the writes they guard are separate queries.  However calls overlap,
\* an oracle exceeds the limit of a minute by no more than the calls beside the one
\* that reached it, also when the minute changes in between (checkRateLimitAtomic);
\* a stake is overdrawn by no more than one slash for each other call (slashStake);
\* and a signature is lost only to a signer that overlapped (addThresholdSignature).
OverlapsBounded ==
    /\ \A o \in Nodes :
         /\ rate[o] <= MAX_CONFIRMATIONS_PER_MINUTE + Cardinality(Calls) - 1
         /\ stake[o].amount >= 1 - Cardinality(Calls)
    /\ threshold \subseteq signed
    /\ ~collided => threshold = signed

\* A dispute is recorded as lost for the oracles only after every oracle whose
\* confirmation the resolution read has been slashed for it.
PenaltiesBeforeVerdict ==
    [][\A k \in Calls :
         At(k, "commit") /\ call'[k] # call[k] /\ call[k].outcome = "failure" =>
            \A o \in call[k].seen : cost[call[k].dispute][o] >= 1]_oracleVars

\* Every slash shows in the oracle's failure count, or its call is about to count
\* it: no interleaving of slashes and resolutions loses one from the counters.
SlashesAreFailures ==
    \A o \in Nodes :
       stake[o].slashed <= outcomes[o].failure
          + Cardinality({k \in Calls :
               /\ call[k].outcome = "failure" /\ call[k].todo # <<>>
               /\ NextStep(k).node = o /\ NextStep(k).do \in {"read", "write", "count"}})

=============================================================================
