-------------------------- MODULE GovernanceProofs --------------------------
(***************************************************************************)
(* Proofs about the governance contract, for any number of voters,         *)
(* proposals and delegations and any rules: its tallies, its quadratic     *)
(* votes, Newton's square root included, and its timelock.                 *)
(***************************************************************************)
EXTENDS Governance, CountingTheorems

----------------------------------------------------------------------------
(* The square root *)

LEMMA CloserFacts ==
    ASSUME NEW n \in Nat, NEW x \in 1 .. n
    PROVE  /\ Closer(n, x) \in Nat \ {0}
           /\ Closer(n, x) >= x => x * x <= n
<1>1. PICK q \in Nat : q = n \div x
    OBVIOUS
<1>2. x * q <= n /\ q >= 1
    BY <1>1
<1>3. Closer(n, x) = (x + q) \div 2
    BY <1>1 DEF Closer
<1>4. (x + q) \div 2 \in Nat \ {0} /\ ((x + q) \div 2 >= x => q >= x)
    BY <1>2
<1>5. q >= x => x * x <= n
  <2>1. q >= x => x * x <= x * q
      OBVIOUS
  <2>2. x * x \in Int /\ x * q \in Int
      OBVIOUS
  <2> QED
      BY <1>2, <2>1, <2>2
<1> QED
    BY <1>3, <1>4, <1>5

\* The loop ends: its recursion has a solution on every range of values of x.
Roots(g, n, m) == g = [x \in 1 .. m |-> IF Closer(n, x) < x THEN g[Closer(n, x)] ELSE x]

LEMMA RootsExist ==
    ASSUME NEW n \in Nat, NEW k \in 0 .. n
    PROVE  \E g : Roots(g, n, k)
<1> DEFINE Bad == {m \in Nat : m <= n /\ ~\E g : Roots(g, n, m)}
<1>1. Bad = {}
  <2> SUFFICES ASSUME Bad # {} PROVE FALSE
      OBVIOUS
  <2>1. PICK m \in Bad : \A b \in Bad : m <= b
      BY LeastNumber
  <2>2. m # 0
    <3> DEFINE g == [x \in 1 .. 0 |-> x]
    <3>1. Roots(g, n, 0)
        BY DEF Roots
    <3> QED
        BY <3>1
  <2>3. m - 1 \in Nat /\ m - 1 <= n /\ m - 1 \notin Bad
      BY <2>1, <2>2
  <2>4. PICK g : Roots(g, n, m - 1)
      BY <2>3
  <2> DEFINE h == [x \in 1 .. m |-> IF x # m THEN g[x]
                                    ELSE IF Closer(n, m) < m THEN g[Closer(n, m)] ELSE m]
  <2>5. ASSUME NEW x \in 1 .. m
        PROVE  h[x] = IF Closer(n, x) < x THEN h[Closer(n, x)] ELSE x
    <3>1. PICK y : y = Closer(n, x)
        OBVIOUS
    <3>2. y \in Nat \ {0}
        BY <3>1, CloserFacts, <2>3
    <3>3. y < x => h[y] = g[y]
        BY <3>2
    <3>4. CASE x = m
        BY <3>1, <3>3, <3>4
    <3>5. CASE x # m
      <4>1. x \in 1 .. (m - 1)
          BY <3>5
      <4>2. g[x] = IF y < x THEN g[y] ELSE x
          BY <2>4, <3>1, <4>1 DEF Roots
      <4> QED
          BY <3>1, <3>3, <3>5, <4>2
    <3> QED
        BY <3>4, <3>5
  <2>6. Roots(h, n, m)
      BY <2>5 DEF Roots
  <2> QED
      BY <2>6
<1> QED
    BY <1>1

LEMMA NewtonValue ==
    ASSUME NEW n \in Nat, NEW x \in 1 .. n
    PROVE  Newton(n)[x] = IF Closer(n, x) < x THEN Newton(n)[Closer(n, x)] ELSE x
<1> DEFINE g == Newton(n)
<1>1. g = CHOOSE r : Roots(r, n, n)
    BY DEF Newton, Roots
<1>2. \E r : Roots(r, n, n)
    BY RootsExist
<1>3. Roots(g, n, n)
    BY <1>1, <1>2
<1> HIDE DEF g
<1>4. g[x] = IF Closer(n, x) < x THEN g[Closer(n, x)] ELSE x
    BY <1>3 DEF Roots
<1> QED
    BY <1>4 DEF g

\* Newton's method returns no more than the root.
THEOREM RootCorrect ==
    ASSUME NEW n \in Int
    PROVE  sqrt(n) \in Nat /\ (n >= 0 => sqrt(n) * sqrt(n) <= n)
<1>1. CASE n <= 1
    BY <1>1 DEF sqrt
<1>2. CASE n > 1
  <2> DEFINE g == Newton(n)
             Good(x) == g[x] \in Nat /\ g[x] * g[x] <= n
             Bad == {x \in Nat : x \in 1 .. n /\ ~Good(x)}
  <2>1. n \in Nat
      BY <1>2
  <2>2. Bad = {}
    <3> SUFFICES ASSUME Bad # {} PROVE FALSE
        OBVIOUS
    <3>1. PICK x \in Bad : \A b \in Bad : x <= b
        BY LeastNumber
    <3>2. x \in 1 .. n /\ ~Good(x)
        OBVIOUS
    <3>3. PICK y : y = Closer(n, x)
        OBVIOUS
    <3>4. y \in Nat \ {0} /\ (y >= x => x * x <= n)
        BY <2>1, <3>2, <3>3, CloserFacts
    <3>5. g[x] = IF y < x THEN g[y] ELSE x
        BY <2>1, <3>2, <3>3, NewtonValue
    <3>6. CASE y < x
      <4>1. y \in 1 .. n /\ y \notin Bad
          BY <2>1, <3>1, <3>2, <3>4, <3>6
      <4>2. Good(y)
          BY <3>4, <4>1
      <4> QED
          BY <3>2, <3>5, <3>6, <4>2
    <3>7. CASE ~(y < x)
        BY <2>1, <3>2, <3>4, <3>5, <3>7
    <3> QED
        BY <3>6, <3>7
  <2>3. n \div 2 + 1 \in 1 .. n
      BY <1>2
  <2>4. Good(n \div 2 + 1)
      BY <2>2, <2>3
  <2>5. sqrt(n) = g[n \div 2 + 1]
      BY <1>2 DEF sqrt
  <2> QED
      BY <2>4, <2>5
<1> QED
    BY <1>1, <1>2

----------------------------------------------------------------------------
(* The invariant *)

Proposal == [new_value : ParamRange, votes_for : Nat, votes_against : Nat, executed : BOOLEAN,
             voting_end_ts : Nat, execution_ts : Nat, last_vote : Nat, timelock : Nat]
Ballot == [support : BOOLEAN, power : Nat]

GovTypeOK ==
    /\ balance \in [Voters -> Nat]
    /\ delegation \in [Voters -> Voters \cup {Nobody}]
    /\ delegators \in [Voters -> Seq(Voters)]
    /\ proposals \in Seq(Proposal)
    /\ ballots \in Seq([Voters -> Ballot])
    /\ Len(ballots) = Len(proposals)
    /\ config \in GovConfigs
    /\ govTime \in Nat

\* A list may name voters who delegate elsewhere by now, but names nobody twice
\* and leaves nobody out.
ListSound(v) ==
    /\ \A i, j \in DOMAIN delegators[v] : delegators[v][i] = delegators[v][j] => i = j
    /\ \A d \in Voters : delegation[d] = v => \E i \in DOMAIN delegators[v] : delegators[v][i] = d

TallySound(p) ==
    /\ proposals[p].votes_for = SumFunctionOnSet(Powers(p), Sided(p, TRUE))
    /\ proposals[p].votes_against = SumFunctionOnSet(Powers(p), Sided(p, FALSE))

\* The times of a proposal are those of the rules it was made under.
ClockSound(p) ==
    /\ proposals[p].execution_ts = proposals[p].voting_end_ts + proposals[p].timelock
    /\ proposals[p].last_vote <= proposals[p].voting_end_ts
    /\ TotalVotes(p) > 0 => proposals[p].last_vote < proposals[p].voting_end_ts

GovInv ==
    /\ GovTypeOK
    /\ \A v \in Voters : ListSound(v)
    /\ \A p \in DOMAIN proposals : TallySound(p) /\ ClockSound(p)

\* The loop of get_total_controlled_tokens counts every delegator once.
LEMMA ControlledIsTokens ==
    ASSUME GovInv, NEW v \in Voters
    PROVE  Controlled(v) = Tokens(v) /\ Controlled(v) \in Int
<1> DEFINE s == delegators[v]
           T == {d \in Voters : delegation[d] = v}
           f == Delegated(v)
<1>1. s \in Seq(Voters) /\ T \in SUBSET Voters /\ \A d \in Voters : balance[d] \in Nat
    BY DEF GovInv, GovTypeOK
<1>2. /\ \A i, j \in DOMAIN s : s[i] = s[j] => i = j
      /\ \A d \in T : \E i \in DOMAIN s : s[i] = d
    BY DEF GovInv, ListSound
<1>3. \A i \in DOMAIN s : s[i] \in Voters
    BY <1>1
<1>4. /\ DOMAIN f = DOMAIN s
      /\ \A i \in DOMAIN s : f[i] = IF s[i] \in T THEN balance[s[i]] ELSE 0
    BY <1>3 DEF Delegated
<1>5. Controlled(v) = balance[v] + SumFunctionOnSet(f, DOMAIN s)
    BY <1>4 DEF Controlled, SumFunction
<1>6. Tokens(v) = balance[v] + SumFunctionOnSet(balance, T)
    BY DEF Tokens
<1>7. \A d \in T : balance[d] \in Int
    BY <1>1
<1>8. IsFiniteSet(T)
    BY GovernanceAssumption, FS_Subset
<1> HIDE DEF s, T, f
<1>9. SumFunctionOnSet(f, DOMAIN s) = SumFunctionOnSet(balance, T)
  <2>1. Covers(s, T)
      BY <1>2 DEF Covers
  <2>2. Skips(f, s, T, balance)
      BY <1>4 DEF Skips
  <2> QED
      BY <1>1, <1>7, <2>1, <2>2, SumOfList
<1>10. SumFunctionOnSet(balance, T) \in Int
    BY <1>7, <1>8, SumInt
<1> QED
    BY <1>1, <1>5, <1>6, <1>9, <1>10

LEMMA GovInitial == GovInit => GovInv
<1> SUFFICES ASSUME GovInit PROVE GovInv
    OBVIOUS
<1>1. GovTypeOK
    BY GovernanceAssumption DEF GovInit, GovTypeOK
<1>2. \A v \in Voters : ListSound(v)
    BY GovernanceAssumption DEF GovInit, ListSound, Nobody
<1>3. DOMAIN proposals = {}
    BY DEF GovInit
<1> QED
    BY <1>1, <1>2, <1>3 DEF GovInv

\* Steps that leave votes and delegations alone.
LEMMA OtherKeeps ==
    ASSUME GovInv, UNCHANGED <<balance, delegation, delegators, ballots>>,
           config' \in GovConfigs, govTime' \in Nat,
           proposals' \in Seq(Proposal), Len(proposals') = Len(proposals),
           \A p \in DOMAIN proposals :
             /\ proposals'[p].votes_for = proposals[p].votes_for
             /\ proposals'[p].votes_against = proposals[p].votes_against
             /\ proposals'[p].voting_end_ts = proposals[p].voting_end_ts
             /\ proposals'[p].execution_ts = proposals[p].execution_ts
             /\ proposals'[p].last_vote = proposals[p].last_vote
             /\ proposals'[p].timelock = proposals[p].timelock
    PROVE  GovInv'
<1>1. GovTypeOK'
    BY DEF GovInv, GovTypeOK
<1>2. \A v \in Voters : ListSound(v)'
    BY DEF GovInv, ListSound
<1>3. DOMAIN proposals' = DOMAIN proposals
    BY DEF GovInv, GovTypeOK
<1>4. ASSUME NEW p \in DOMAIN proposals PROVE (TallySound(p) /\ ClockSound(p))'
  <2>1. TallySound(p) /\ ClockSound(p)
      BY DEF GovInv
  <2>2. Powers(p)' = Powers(p) /\ Sided(p, TRUE)' = Sided(p, TRUE) /\ Sided(p, FALSE)' = Sided(p, FALSE)
      BY DEF Powers, Sided
  <2>3. TotalVotes(p)' = TotalVotes(p)
      BY DEF TotalVotes
  <2> QED
      BY <2>1, <2>2, <2>3 DEF TallySound, ClockSound
<1> QED
    BY <1>1, <1>2, <1>3, <1>4 DEF GovInv

LEMMA CreateProposalKeeps ==
    ASSUME GovInv, NEW v \in Voters, NEW value \in ParamValues, create_proposal(v, value)
    PROVE  GovInv'
<1> DEFINE new == [new_value |-> value, votes_for |-> 0, votes_against |-> 0, executed |-> FALSE,
                   voting_end_ts |-> govTime + config.voting_period,
                   execution_ts |-> ExecutionTs(config),
                   last_vote |-> govTime, timelock |-> config.timelock_period]
           none == [w \in Voters |-> NoBallot]
<1>1. GovTypeOK
    BY DEF GovInv
<1> PICK n \in Nat : n = Len(proposals) + 1
    BY <1>1 DEF GovTypeOK
<1>2. /\ value \in ParamRange
      /\ proposals' = Append(proposals, new) /\ ballots' = Append(ballots, none)
      /\ UNCHANGED <<balance, delegation, delegators, config, govTime>>
    BY DEF create_proposal, validate_parameter
<1>3. config.voting_period \in Nat /\ config.timelock_period \in Nat
    BY <1>1, GovernanceAssumption DEF GovTypeOK
<1>4. new \in Proposal
    BY <1>1, <1>2, <1>3 DEF Proposal, GovTypeOK, ExecutionTs
<1>5. none \in [Voters -> Ballot]
    BY DEF Ballot, NoBallot
<1>6. /\ new.votes_for = 0 /\ new.votes_against = 0
      /\ new.execution_ts = new.voting_end_ts + new.timelock
      /\ new.last_vote <= new.voting_end_ts
    BY <1>1, <1>3 DEF ExecutionTs, GovTypeOK
<1>7. \A w \in Voters : none[w].support = FALSE /\ none[w].power = 0
    BY DEF NoBallot
<1> HIDE DEF new, none
<1>8. /\ Len(proposals) \in Nat /\ Len(ballots) = Len(proposals)
      /\ DOMAIN proposals = 1 .. Len(proposals) /\ DOMAIN proposals' = 1 .. n
      /\ proposals'[n] = new /\ ballots'[n] = none
      /\ \A p \in 1 .. Len(proposals) : proposals'[p] = proposals[p] /\ ballots'[p] = ballots[p]
    BY <1>1, <1>2, <1>4, <1>5 DEF GovTypeOK
<1>9. GovTypeOK'
    BY <1>1, <1>2, <1>4, <1>5 DEF GovTypeOK
<1>10. \A w \in Voters : ListSound(w)'
    BY <1>2 DEF GovInv, ListSound
<1>11. ASSUME NEW p \in DOMAIN proposals PROVE (TallySound(p) /\ ClockSound(p))'
  <2>1. TallySound(p) /\ ClockSound(p) /\ proposals'[p] = proposals[p] /\ ballots'[p] = ballots[p]
      BY <1>8 DEF GovInv
  <2>2. Powers(p)' = Powers(p) /\ Sided(p, TRUE)' = Sided(p, TRUE) /\ Sided(p, FALSE)' = Sided(p, FALSE)
      BY <2>1 DEF Powers, Sided
  <2> QED
      BY <2>1, <2>2 DEF TallySound, ClockSound, TotalVotes
<1>12. (TallySound(n) /\ ClockSound(n))'
  <2>1. proposals'[n] = new /\ ballots'[n] = none
      BY <1>8
  <2>2. /\ Sided(n, TRUE)' = {} /\ Sided(n, FALSE)' = Voters
        /\ Powers(n)' = [w \in Voters |-> 0]
      BY <1>7, <1>8 DEF Sided, Powers
  <2>3. SumFunctionOnSet([w \in Voters |-> 0], Voters) = 0
      BY GovernanceAssumption, SumZero
  <2>4. TallySound(n)'
      BY <1>6, <1>8, <2>2, <2>3, SumEmpty DEF TallySound
  <2> QED
      BY <1>6, <1>8, <2>4 DEF ClockSound, TotalVotes
<1> QED
    BY <1>8, <1>9, <1>10, <1>11, <1>12 DEF GovInv

\* What a new ballot does to the two sums of its proposal.
LEMMA BallotCounts ==
    ASSUME GovTypeOK, NEW p \in DOMAIN proposals, NEW v \in Voters, NEW support \in BOOLEAN,
           NEW num \in Nat, ballots[p][v] = NoBallot,
           ballots'[p] = [ballots[p] EXCEPT ![v] = [support |-> support, power |-> num]]
    PROVE  /\ SumFunctionOnSet(Powers(p), Sided(p, TRUE))' =
                SumFunctionOnSet(Powers(p), Sided(p, TRUE)) + (IF support THEN num ELSE 0)
           /\ SumFunctionOnSet(Powers(p), Sided(p, FALSE))' =
                SumFunctionOnSet(Powers(p), Sided(p, FALSE)) + (IF support THEN 0 ELSE num)
<1> DEFINE f == Powers(p)
           g == Powers(p)'
           For == Sided(p, TRUE)
           Against == Sided(p, FALSE)
<1>1. ballots[p] \in [Voters -> Ballot] /\ ballots'[p] \in [Voters -> Ballot]
    BY DEF GovTypeOK, Ballot
<1>2. /\ \A w \in Voters : f[w] \in Int /\ g[w] \in Int
      /\ f[v] = 0 /\ g[v] = num /\ \A w \in Voters \ {v} : g[w] = f[w]
    BY <1>1 DEF Powers, Ballot, NoBallot
<1>3. /\ For \subseteq Voters /\ Against \subseteq Voters /\ v \notin For /\ v \in Against
      /\ IsFiniteSet(For) /\ IsFiniteSet(Against)
    BY GovernanceAssumption, FS_Subset DEF Sided, NoBallot
<1>4. /\ Sided(p, TRUE)' = IF support THEN For \cup {v} ELSE For
      /\ Sided(p, FALSE)' = IF support THEN Against \ {v} ELSE Against
  <2>1. \A w \in Voters : ballots'[p][w].support = IF w = v THEN support ELSE ballots[p][w].support
      BY <1>1
  <2> QED
      BY <2>1, <1>3 DEF Sided
<1> HIDE DEF f, g, For, Against
<1>5. SumFunctionOnSet(g, For) = SumFunctionOnSet(f, For)
    BY <1>2, <1>3, SumSame
<1>6. SumFunctionOnSet(f, For) \in Int /\ SumFunctionOnSet(f, Against) \in Int
    BY <1>2, <1>3, SumInt
<1>7. IsFiniteSet(Against \ {v})
    BY <1>3, FS_Subset
<1>8. SumFunctionOnSet(f, Against \ {v}) = SumFunctionOnSet(g, Against \ {v})
    BY <1>2, <1>3, <1>7, SumSame
<1>9. SumFunctionOnSet(f, Against) = f[v] + SumFunctionOnSet(f, Against \ {v})
    BY <1>2, <1>3, SumTakeOut
<1>10. SumFunctionOnSet(f, Against \ {v}) \in Int
    BY <1>2, <1>3, <1>7, SumInt
<1>11. ASSUME support
      PROVE  /\ SumFunctionOnSet(g, For \cup {v}) = SumFunctionOnSet(f, For) + num
             /\ SumFunctionOnSet(g, Against \ {v}) = SumFunctionOnSet(f, Against)
  <2>1. SumFunctionOnSet(g, For \cup {v}) = g[v] + SumFunctionOnSet(g, For)
      BY <1>2, <1>3, SumAdd
  <2> QED
      BY <1>2, <1>5, <1>6, <1>8, <1>9, <1>10, <2>1
<1>12. SumFunctionOnSet(g, Against) = SumFunctionOnSet(f, Against) + num
  <2>1. SumFunctionOnSet(g, Against) = g[v] + SumFunctionOnSet(g, Against \ {v})
      BY <1>2, <1>3, SumTakeOut
  <2> QED
      BY <1>2, <1>8, <1>9, <1>10, <2>1
<1>13. /\ SumFunctionOnSet(g, IF support THEN For \cup {v} ELSE For) =
           SumFunctionOnSet(f, For) + (IF support THEN num ELSE 0)
      /\ SumFunctionOnSet(g, IF support THEN Against \ {v} ELSE Against) =
           SumFunctionOnSet(f, Against) + (IF support THEN 0 ELSE num)
  <2>1. CASE support
      BY <1>6, <1>11, <2>1
  <2>2. CASE ~support
      BY <1>5, <1>6, <1>12, <2>2
  <2> QED
      BY <2>1, <2>2
<1> QED
    BY <1>4, <1>13 DEF f, g, For, Against

LEMMA MaxOfTwo == ASSUME NEW n \in Int PROVE Max({0, n}) \in Nat
<1>1. \E x \in {0, n} : \A y \in {0, n} : x >= y
    BY DEF Max
<1>2. Max({0, n}) \in {0, n} /\ \A y \in {0, n} : Max({0, n}) >= y
    BY <1>1 DEF Max
<1> QED
    BY <1>2

LEMMA CastKeeps ==
    ASSUME GovInv, NEW v \in Voters, NEW p \in DOMAIN proposals, NEW support \in BOOLEAN,
           NEW num \in VoteCounts, cast_vote(p, v, support, num)
    PROVE  GovInv'
<1>1. GovTypeOK /\ TallySound(p) /\ ClockSound(p)
    BY DEF GovInv
<1>2. /\ num > 0 /\ govTime < proposals[p].voting_end_ts /\ ballots[p][v] = NoBallot
      /\ balance' = [balance EXCEPT ![v] = Max({0, balance[v] - num * num})]
      /\ ballots' = [ballots EXCEPT ![p][v] = [support |-> support, power |-> num]]
      /\ UNCHANGED <<delegation, delegators, config, govTime>>
    BY DEF cast_vote, AlreadyVoted
<1>3. proposals' = IF support
         THEN [proposals EXCEPT ![p].votes_for = @ + num, ![p].last_vote = govTime]
         ELSE [proposals EXCEPT ![p].votes_against = @ + num, ![p].last_vote = govTime]
    BY DEF cast_vote
<1>4. num \in Nat /\ num # 0
    BY <1>2, GovernanceAssumption
<1>5. balance' \in [Voters -> Nat]
  <2>1. balance[v] - num * num \in Int
      BY <1>1, <1>4 DEF GovTypeOK
  <2> QED
      BY <1>1, <1>2, <2>1, MaxOfTwo DEF GovTypeOK
<1>6. /\ proposals[p] \in Proposal /\ ballots[p] \in [Voters -> Ballot] /\ p \in DOMAIN ballots
      /\ DOMAIN proposals = 1 .. Len(proposals)
    BY <1>1 DEF GovTypeOK
<1>7. PICK new \in Proposal :
        /\ proposals' = [proposals EXCEPT ![p] = new]
        /\ new.votes_for = proposals[p].votes_for + (IF support THEN num ELSE 0)
        /\ new.votes_against = proposals[p].votes_against + (IF support THEN 0 ELSE num)
        /\ new.last_vote = govTime /\ new.timelock = proposals[p].timelock
        /\ new.voting_end_ts = proposals[p].voting_end_ts
        /\ new.execution_ts = proposals[p].execution_ts
  <2> DEFINE n1 == [proposals[p] EXCEPT !.votes_for = @ + num, !.last_vote = govTime]
             n2 == [proposals[p] EXCEPT !.votes_against = @ + num, !.last_vote = govTime]
  <2>1. n1 \in Proposal /\ n2 \in Proposal
    <3>1. govTime \in Nat
        BY <1>1 DEF GovTypeOK
    <3>2. proposals[p].votes_for + num \in Nat /\ proposals[p].votes_against + num \in Nat
        BY <1>4, <1>6 DEF Proposal
    <3>3. n1 \in Proposal
        BY <1>6, <3>1, <3>2 DEF Proposal
    <3>4. n2 \in Proposal
        BY <1>6, <3>1, <3>2 DEF Proposal
    <3> QED
        BY <3>3, <3>4
  <2>2. /\ proposals[p].votes_for \in Nat /\ proposals[p].votes_against \in Nat
        /\ n1.votes_for = proposals[p].votes_for + num /\ n1.votes_against = proposals[p].votes_against
        /\ n2.votes_for = proposals[p].votes_for /\ n2.votes_against = proposals[p].votes_against + num
      BY <1>6 DEF Proposal
  <2>3. \A n \in {n1, n2} :
          /\ n.last_vote = govTime /\ n.timelock = proposals[p].timelock
          /\ n.voting_end_ts = proposals[p].voting_end_ts
          /\ n.execution_ts = proposals[p].execution_ts
      BY <1>6 DEF Proposal
  <2>4. /\ support => proposals' = [proposals EXCEPT ![p] = n1]
        /\ ~support => proposals' = [proposals EXCEPT ![p] = n2]
      BY <1>3, <1>6
  <2> HIDE DEF n1, n2
  <2>5. CASE support
      BY <2>1, <2>5, <2>2, <2>3, <2>4
  <2>6. CASE ~support
      BY <2>1, <2>6, <2>2, <2>3, <2>4
  <2> QED
      BY <2>5, <2>6
<1>8. /\ ballots'[p] = [ballots[p] EXCEPT ![v] = [support |-> support, power |-> num]]
      /\ \A q \in DOMAIN proposals \ {p} : ballots'[q] = ballots[q] /\ proposals'[q] = proposals[q]
      /\ proposals'[p] = new /\ DOMAIN proposals' = DOMAIN proposals
    BY <1>1, <1>2, <1>6, <1>7 DEF GovTypeOK
<1>9. GovTypeOK'
  <2>1. ballots' \in Seq([Voters -> Ballot]) /\ Len(ballots') = Len(ballots)
      BY <1>1, <1>2, <1>4, <1>6 DEF GovTypeOK, Ballot
  <2>2. proposals' \in Seq(Proposal) /\ Len(proposals') = Len(proposals)
      BY <1>1, <1>7 DEF GovTypeOK
  <2> QED
      BY <1>1, <1>2, <1>5, <2>1, <2>2 DEF GovTypeOK
<1>10. \A w \in Voters : ListSound(w)'
    BY <1>2 DEF GovInv, ListSound
<1>11. ASSUME NEW q \in DOMAIN proposals, q # p PROVE (TallySound(q) /\ ClockSound(q))'
  <2>1. TallySound(q) /\ ClockSound(q) /\ proposals'[q] = proposals[q] /\ ballots'[q] = ballots[q]
      BY <1>8, <1>11 DEF GovInv
  <2>2. Powers(q)' = Powers(q) /\ Sided(q, TRUE)' = Sided(q, TRUE) /\ Sided(q, FALSE)' = Sided(q, FALSE)
      BY <2>1 DEF Powers, Sided
  <2> QED
      BY <2>1, <2>2 DEF TallySound, ClockSound, TotalVotes
<1>12. TallySound(p)'
  <2>1. /\ SumFunctionOnSet(Powers(p), Sided(p, TRUE))' =
             SumFunctionOnSet(Powers(p), Sided(p, TRUE)) + (IF support THEN num ELSE 0)
        /\ SumFunctionOnSet(Powers(p), Sided(p, FALSE))' =
             SumFunctionOnSet(Powers(p), Sided(p, FALSE)) + (IF support THEN 0 ELSE num)
      BY <1>1, <1>2, <1>4, <1>8, BallotCounts
  <2>2. /\ proposals[p].votes_for = SumFunctionOnSet(Powers(p), Sided(p, TRUE))
        /\ proposals[p].votes_against = SumFunctionOnSet(Powers(p), Sided(p, FALSE))
      BY <1>1 DEF TallySound
  <2> QED
      BY <1>7, <1>8, <2>1, <2>2 DEF TallySound
<1>13. ClockSound(p)'
    BY <1>1, <1>2, <1>6, <1>7, <1>8 DEF ClockSound, Proposal, GovTypeOK
<1> QED
    BY <1>8, <1>9, <1>10, <1>11, <1>12, <1>13 DEF GovInv

LEMMA DelegateKeeps ==
    ASSUME GovInv, NEW d \in Voters, NEW to \in Voters, delegate(d, to)
    PROVE  GovInv'
<1>1. GovTypeOK
    BY DEF GovInv
<1>2. /\ delegation' = [delegation EXCEPT ![d] = to]
      /\ delegators' = IF Listed(d, delegators[to]) THEN delegators
                       ELSE [delegators EXCEPT ![to] = Append(delegators[to], d)]
      /\ UNCHANGED <<balance, proposals, ballots, config, govTime>>
    BY DEF delegate
<1>3. GovTypeOK'
    BY <1>1, <1>2 DEF GovTypeOK
<1>4. \A w \in Voters : delegation'[w] = IF w = d THEN to ELSE delegation[w]
    BY <1>1, <1>2 DEF GovTypeOK
<1>5. Listed(d, delegators[to]) <=> \E i \in DOMAIN delegators[to] : delegators[to][i] = d
    BY DEF Listed, Range
<1>6. ASSUME NEW v \in Voters PROVE ListSound(v)'
  <2>1. ListSound(v) /\ delegators[v] \in Seq(Voters)
      BY <1>1 DEF GovInv, GovTypeOK
  <2>2. CASE v # to
    <3>1. delegators'[v] = delegators[v]
        BY <1>1, <1>2, <2>2 DEF GovTypeOK
    <3> QED
        BY <1>4, <2>1, <2>2, <3>1 DEF ListSound
  <2>3. CASE v = to /\ Listed(d, delegators[to])
    <3>1. delegators'[v] = delegators[v]
        BY <1>2, <2>3
    <3> QED
        BY <1>4, <1>5, <2>1, <2>3, <3>1 DEF ListSound
  <2>4. CASE v = to /\ ~Listed(d, delegators[to])
    <3> DEFINE s == delegators[v]
    <3>1. delegators'[v] = Append(s, d)
        BY <1>1, <1>2, <2>4 DEF GovTypeOK
    <3>2. \A i \in DOMAIN s : s[i] # d
        BY <1>5, <2>4
    <3>3. \A i, j \in DOMAIN s : s[i] = s[j] => i = j
        BY <2>1 DEF ListSound
    <3> DEFINE r == Append(s, d)
    <3>4. s \in Seq(Voters)
        BY <2>1
    <3> HIDE DEF s
    <3>5. /\ {r[i] : i \in DOMAIN r} = {s[i] : i \in DOMAIN s} \cup {d}
          /\ \A i, j \in DOMAIN r : r[i] = r[j] => i = j
        BY <3>4, <3>2, <3>3, AppendFresh
    <3>6. ASSUME NEW w \in Voters, delegation'[w] = v
          PROVE  \E i \in DOMAIN r : r[i] = w
      <4>1. w = d \/ \E i \in DOMAIN s : s[i] = w
          BY <1>4, <2>1, <3>6 DEF ListSound, s
      <4>2. w \in {r[i] : i \in DOMAIN r}
          BY <3>5, <4>1
      <4> QED
          BY <4>2
    <3> QED
        BY <3>1, <3>5, <3>6 DEF ListSound
  <2> QED
      BY <2>2, <2>3, <2>4
<1>7. ASSUME NEW p \in DOMAIN proposals PROVE (TallySound(p) /\ ClockSound(p))'
  <2>1. Powers(p)' = Powers(p) /\ Sided(p, TRUE)' = Sided(p, TRUE) /\ Sided(p, FALSE)' = Sided(p, FALSE)
      BY <1>2 DEF Powers, Sided
  <2> QED
      BY <1>2, <2>1 DEF GovInv, TallySound, ClockSound, TotalVotes
<1> QED
    BY <1>2, <1>3, <1>6, <1>7 DEF GovInv

LEMMA GovStep == GovInv /\ [GovNext]_govVars => GovInv'
<1> SUFFICES ASSUME GovInv, [GovNext]_govVars PROVE GovInv'
    OBVIOUS
<1>1. GovTypeOK
    BY DEF GovInv
<1>2. ASSUME NEW p \in DOMAIN proposals,
             proposals' = [proposals EXCEPT ![p].executed = TRUE],
             UNCHANGED <<balance, delegation, delegators, ballots, config, govTime>>
      PROVE  GovInv'
  <2> DEFINE new == [proposals[p] EXCEPT !.executed = TRUE]
  <2>1. /\ proposals[p] \in Proposal /\ proposals' = [proposals EXCEPT ![p] = new]
        /\ config \in GovConfigs /\ govTime \in Nat /\ proposals \in Seq(Proposal)
      BY <1>1, <1>2 DEF GovTypeOK
  <2>2. new \in Proposal
      BY <2>1 DEF Proposal
  <2>3. /\ new.votes_for = proposals[p].votes_for
        /\ new.votes_against = proposals[p].votes_against
        /\ new.voting_end_ts = proposals[p].voting_end_ts
        /\ new.execution_ts = proposals[p].execution_ts
        /\ new.last_vote = proposals[p].last_vote
        /\ new.timelock = proposals[p].timelock
      BY <2>1 DEF Proposal
  <2> HIDE DEF new
  <2>4. /\ proposals' \in Seq(Proposal) /\ Len(proposals') = Len(proposals)
        /\ \A q \in DOMAIN proposals : proposals'[q] = IF q = p THEN new ELSE proposals[q]
      BY <2>1, <2>2
  <2> QED
      BY <1>2, <2>1, <2>3, <2>4, OtherKeeps
<1>3. ASSUME UNCHANGED <<balance, delegation, delegators, proposals, ballots>>,
             config' \in GovConfigs, govTime' \in Nat
      PROVE  GovInv'
  <2>1. proposals' \in Seq(Proposal) /\ Len(proposals') = Len(proposals)
      BY <1>1, <1>3 DEF GovTypeOK
  <2> QED
      BY <1>3, <2>1, OtherKeeps
<1>4. CASE \E v \in Voters, value \in ParamValues : create_proposal(v, value)
    BY <1>4, CreateProposalKeeps
<1>5. CASE \E v \in Voters, p \in DOMAIN proposals, support \in BOOLEAN, n \in VoteCounts :
             cast_vote(p, v, support, n)
    BY <1>5, CastKeeps
<1>6. CASE \E v, to \in Voters : delegate(v, to)
    BY <1>6, DelegateKeeps
<1>7. CASE \E p \in DOMAIN proposals : execute_proposal(p) \/ cancel_proposal(p)
    BY <1>2, <1>7 DEF execute_proposal, cancel_proposal
<1>8. CASE \E c \in GovConfigs : update_config(c)
    BY <1>1, <1>3, <1>8 DEF update_config, GovTypeOK
<1>9. CASE (\E n \in TotalPowers : set_total_voting_power(n)) \/ UNCHANGED govVars
    BY <1>1, <1>3, <1>9 DEF set_total_voting_power, govVars, GovTypeOK
<1>10. CASE GovTick
    BY <1>1, <1>3, <1>10 DEF GovTick, GovTypeOK
<1> QED
    BY <1>4, <1>5, <1>6, <1>7, <1>8, <1>9, <1>10 DEF GovNext

----------------------------------------------------------------------------
(* The theorems *)

LEMMA GovAlways == GovSpec => []GovInv
<1>1. GovInv /\ [GovNext]_govVars => GovInv'
    BY GovStep
<1> QED
    BY <1>1, GovInitial, PTL DEF GovSpec

\* Whatever is voted on and in whatever order, the two counters of every proposal
\* are the sums of the ballots stored for it (cast_vote).
THEOREM TalliesCorrect == GovSpec => []TalliesMatchBallots
<1>1. GovInv => TalliesMatchBallots
    BY DEF GovInv, TallySound, TalliesMatchBallots
<1> QED
    BY <1>1, GovAlways, PTL

LEMMA VoteBacked ==
    GovInv /\ [GovNext]_govVars =>
      \A p \in DOMAIN proposals, v \in Voters :
         ballots'[p][v] # ballots[p][v] =>
            ballots'[p][v].power * ballots'[p][v].power <= Tokens(v)
<1> SUFFICES ASSUME GovInv, [GovNext]_govVars, NEW p \in DOMAIN proposals, NEW v \in Voters,
                    ballots'[p][v] # ballots[p][v]
             PROVE  ballots'[p][v].power * ballots'[p][v].power <= Tokens(v)
    OBVIOUS
<1>1. GovTypeOK /\ p \in DOMAIN ballots /\ DOMAIN proposals = 1 .. Len(proposals)
    BY DEF GovInv, GovTypeOK
<1>2. ballots' # ballots
    OBVIOUS
<1>3. ASSUME NEW w \in Voters, NEW value \in ParamValues, create_proposal(w, value) PROVE FALSE
  <2>1. ballots'[p] = ballots[p]
      BY <1>1, <1>3 DEF create_proposal, GovTypeOK
  <2> QED
      BY <2>1
<1>4. PICK q \in DOMAIN proposals, w \in Voters, support \in BOOLEAN, num \in VoteCounts :
        cast_vote(q, w, support, num)
    BY <1>2, <1>3 DEF GovNext, delegate, execute_proposal, cancel_proposal, update_config,
       set_total_voting_power, GovTick, govVars
<1>5. /\ ballots' = [ballots EXCEPT ![q][w] = [support |-> support, power |-> num]]
      /\ num > 0 /\ num <= sqrt(Controlled(w))
    BY <1>4 DEF cast_vote, get_voting_power
<1>6. q = p /\ w = v /\ ballots'[p][v].power = num
    BY <1>1, <1>5 DEF GovTypeOK
<1>7. PICK c \in Int : c = Controlled(v) /\ c = Tokens(v)
    BY ControlledIsTokens
<1>8. num \in Nat /\ num # 0
    BY <1>5, GovernanceAssumption
<1>9. c \in Nat /\ sqrt(c) \in Nat /\ sqrt(c) * sqrt(c) <= c
    BY <1>5, <1>6, <1>7, <1>8, RootCorrect DEF sqrt
<1>10. num <= sqrt(c)
    BY <1>5, <1>6, <1>7
<1>11. num * num <= c
  <2>1. PICK r \in Nat : r = sqrt(c)
      BY <1>9
  <2>2. num * num <= r * r
      BY <1>8, <1>10, <2>1
  <2>3. num * num \in Int /\ r * r \in Int
      BY <1>8
  <2> QED
      BY <1>9, <2>1, <2>2, <2>3
<1> QED
    BY <1>6, <1>7, <1>11

\* Votes are quadratic: whoever votes has at least the square of the vote in tokens
\* of its own and of those who delegate to it at that moment (cast_vote,
\* get_total_controlled_tokens and sqrt).
THEOREM VotesBacked == GovSpec => VotesWithinTokens
<1>1. GovInv /\ [GovNext]_govVars =>
        [\A p \in DOMAIN proposals, v \in Voters :
           ballots'[p][v] # ballots[p][v] =>
              ballots'[p][v].power * ballots'[p][v].power <= Tokens(v)]_govVars
    BY VoteBacked
<1> QED
    BY <1>1, GovAlways, PTL DEF GovSpec, VotesWithinTokens

LEMMA EffectTimed ==
    GovInv /\ [GovNext]_govVars =>
      \A p \in DOMAIN proposals :
         param' # param /\ proposals'[p].executed # proposals[p].executed =>
            /\ govTime >= proposals[p].last_vote + proposals[p].timelock
            /\ TotalVotes(p) > 0 => govTime > proposals[p].last_vote + proposals[p].timelock
<1> SUFFICES ASSUME GovInv, [GovNext]_govVars, NEW p \in DOMAIN proposals,
                    param' # param, proposals'[p].executed # proposals[p].executed
             PROVE  /\ govTime >= proposals[p].last_vote + proposals[p].timelock
                    /\ TotalVotes(p) > 0 =>
                         govTime > proposals[p].last_vote + proposals[p].timelock
    OBVIOUS
<1>1. GovTypeOK /\ ClockSound(p)
    BY DEF GovInv
<1>2. PICK q \in DOMAIN proposals : execute_proposal(q)
  <2>1. \A v \in Voters :
          /\ \A value \in ParamValues : create_proposal(v, value) => param' = param
          /\ \A to \in Voters : delegate(v, to) => param' = param
      BY DEF create_proposal, delegate
  <2>2. \A v \in Voters, r \in DOMAIN proposals, support \in BOOLEAN, n \in VoteCounts :
          cast_vote(r, v, support, n) => param' = param
      BY DEF cast_vote
  <2>3. \A r \in DOMAIN proposals : cancel_proposal(r) => param' = param
      BY DEF cancel_proposal
  <2> QED
      BY <2>1, <2>2, <2>3 DEF GovNext, update_config, set_total_voting_power, GovTick, govVars
<1>3. q = p
    BY <1>1, <1>2 DEF execute_proposal, GovTypeOK
<1>4. govTime >= proposals[p].execution_ts
    BY <1>2, <1>3 DEF execute_proposal
<1>5. /\ govTime \in Nat /\ proposals[p].last_vote \in Nat /\ proposals[p].timelock \in Nat
      /\ proposals[p].voting_end_ts \in Nat
  <2>1. govTime \in Nat /\ proposals[p] \in Proposal
      BY <1>1 DEF GovTypeOK
  <2> QED
      BY <2>1 DEF Proposal
<1> QED
    BY <1>1, <1>4, <1>5 DEF ClockSound

\* The parameter changes only when the timelock of the proposal, as it was when the
\* proposal was made, has passed since the last vote, whatever update_config did to
\* the periods in between (create_proposal, execute_proposal).
THEOREM TimelockKept == GovSpec => EffectAfterTimelock
<1>1. GovInv /\ [GovNext]_govVars =>
        [\A p \in DOMAIN proposals :
           param' # param /\ proposals'[p].executed # proposals[p].executed =>
              /\ govTime >= proposals[p].last_vote + proposals[p].timelock
              /\ TotalVotes(p) > 0 =>
                   govTime > proposals[p].last_vote + proposals[p].timelock]_govVars
    BY EffectTimed
<1> QED
    BY <1>1, GovAlways, PTL DEF GovSpec, EffectAfterTimelock
=============================================================================
