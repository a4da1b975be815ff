------------------------ MODULE OracleAdapterProofs ------------------------
(***************************************************************************)
(* Proofs about OracleAdapter, for any oracles, admins, escrow ids and     *)
(* event types.                                                            *)
(***************************************************************************)
EXTENDS OracleAdapter, CountingTheorems

----------------------------------------------------------------------------
(* The two stores of confirmations.  The replay test of confirm_event looks   *)
(* at both; that each rules out the other's duplicates is the invariant.      *)

AdapterInv == TypeOK /\ ConfirmationsListed

LEMMA ConfirmKeepsList ==
    ASSUME AdapterInv, NEW o \in Oracles, NEW e \in EscrowIds, NEW t \in EventTypes,
           confirm_event(o, e, t)
    PROVE  AdapterInv'
<1> DEFINE s == confirming[e]
<1>1. /\ s \in Seq(Oracles)
      /\ \A i, j \in DOMAIN s : s[i] = s[j] => i = j
      /\ \A i \in DOMAIN s : s[i] # o
      /\ Elements(s) = {q \in Oracles : confirmation[e][q] # Unconfirmed}
    BY DEF AdapterInv, TypeOK, ConfirmationsListed, confirm_event, AlreadyConfirmed, Elements
<1>2. t \in ValidEvents /\ t # Unconfirmed
    BY DEF confirm_event, IsValidEvent, ValidEvents, Unconfirmed
<1>3. /\ confirmation' = [confirmation EXCEPT ![e][o] = t]
      /\ confirming' = [confirming EXCEPT ![e] = Append(s, o)]
      /\ UNCHANGED <<oracles, orcAdmin, orcPending>>
    BY DEF confirm_event
<1> HIDE DEF s
<1>4. /\ Append(s, o) \in Seq(Oracles)
      /\ Elements(Append(s, o)) = Elements(s) \cup {o}
      /\ \A i, j \in DOMAIN Append(s, o) : Append(s, o)[i] = Append(s, o)[j] => i = j
    BY <1>1, AppendFresh DEF Elements
<1>5. /\ confirmation' \in [EscrowIds -> [Oracles -> ValidEvents \cup {Unconfirmed}]]
      /\ confirmation'[e] = [confirmation[e] EXCEPT ![o] = t]
      /\ \A d \in EscrowIds \ {e} : confirmation'[d] = confirmation[d]
    BY <1>2, <1>3 DEF AdapterInv, TypeOK
<1>6. /\ confirming' \in [EscrowIds -> Seq(Oracles)]
      /\ confirming'[e] = Append(s, o)
      /\ \A d \in EscrowIds \ {e} : confirming'[d] = confirming[d]
    BY <1>3, <1>4 DEF AdapterInv, TypeOK
<1>7. TypeOK'
    BY <1>3, <1>5, <1>6 DEF AdapterInv, TypeOK
<1>8. Elements(confirming'[e]) = {q \in Oracles : confirmation'[e][q] # Unconfirmed}
  <2>1. \A q \in Oracles : confirmation'[e][q] = IF q = o THEN t ELSE confirmation[e][q]
      BY <1>5 DEF AdapterInv, TypeOK
  <2> QED
      BY <1>1, <1>2, <1>4, <1>6, <2>1
<1>9. ConfirmationsListed'
  <2> SUFFICES ASSUME NEW d \in EscrowIds
               PROVE  /\ Elements(confirming'[d])
                           = {q \in Oracles : confirmation'[d][q] # Unconfirmed}
                      /\ \A i, j \in DOMAIN confirming'[d] :
                           confirming'[d][i] = confirming'[d][j] => i = j
      BY DEF ConfirmationsListed, Elements
  <2>1. CASE d = e
      BY <1>4, <1>6, <1>8, <2>1
  <2>2. CASE d # e
      BY <1>5, <1>6, <2>2 DEF AdapterInv, ConfirmationsListed
  <2> QED
      BY <2>1, <2>2
<1> QED
    BY <1>7, <1>9 DEF AdapterInv

LEMMA AdapterStep == AdapterInv /\ [Next]_orcVars => AdapterInv'
<1> SUFFICES ASSUME AdapterInv, [Next]_orcVars
             PROVE  AdapterInv'
    OBVIOUS
<1> USE DEF AdapterInv, TypeOK, ConfirmationsListed
<1>1. ASSUME NEW o \in Oracles, add_oracle(o)
      PROVE  AdapterInv'
    BY <1>1 DEF add_oracle
<1>2. ASSUME NEW o \in Oracles, remove_oracle(o)
      PROVE  AdapterInv'
    BY <1>2 DEF remove_oracle
<1>3. ASSUME NEW a \in Admins, propose_admin(a)
      PROVE  AdapterInv'
    BY <1>3 DEF propose_admin
<1>4. CASE accept_admin
    BY <1>4 DEF accept_admin
<1>5. CASE UNCHANGED orcVars
    BY <1>5 DEF orcVars
<1> QED
    BY <1>1, <1>2, <1>3, <1>4, <1>5, ConfirmKeepsList DEF Next

\* Every reachable state is well formed, and the two stores agree: an oracle is
\* listed for an escrow, once, exactly if its confirmation is stored.
THEOREM ListsCorrect == Spec => [](TypeOK /\ ConfirmationsListed)
<1>1. Init => AdapterInv
  <2> SUFFICES ASSUME Init PROVE AdapterInv
      OBVIOUS
  <2>1. TypeOK
      BY AdapterAssumption DEF Init, TypeOK
  <2>2. ConfirmationsListed
      BY DEF Init, ConfirmationsListed, Elements
  <2> QED
      BY <2>1, <2>2 DEF AdapterInv
<1> QED
    BY <1>1, AdapterStep, PTL DEF Spec, AdapterInv

----------------------------------------------------------------------------
(* Consensus *)

\* The registered oracles of the set that have confirmed the escrow.
Agreeing(e, set) ==
    {o \in Oracles : /\ confirmation[e][o] # Unconfirmed
                     /\ Registered(o)
                     /\ set = <<>> \/ o \in Elements(set)}

\* check_consensus counts positions of a list; they are as many as the oracles,
\* whatever the oracle set repeats.
LEMMA CountedAreOracles ==
    ASSUME AdapterInv, NEW e \in EscrowIds, NEW set
    PROVE  /\ IsFiniteSet(Agreeing(e, set))
           /\ Cardinality(Counted(e, set)) = Cardinality(Agreeing(e, set))
<1> DEFINE s == confirming[e]
           T == {o \in oracles : set = <<>> \/ o \in Elements(set)}
<1>1. /\ s \in Seq(Oracles)
      /\ \A i, j \in DOMAIN s : s[i] = s[j] => i = j
      /\ Elements(s) = {o \in Oracles : confirmation[e][o] # Unconfirmed}
    BY DEF AdapterInv, TypeOK, ConfirmationsListed
<1>2. Counted(e, set) = {i \in DOMAIN s : s[i] \in T}
    BY DEF Counted, get_confirmations_for_escrow, Registered
<1>3. Agreeing(e, set) = {s[i] : i \in DOMAIN s} \cap T
    BY <1>1 DEF Agreeing, Registered, Elements
<1> HIDE DEF s, T
<1> QED
    BY <1>1, <1>2, <1>3, PositionsAreEntries

\* check_consensus answers whether as many different registered oracles of the
\* set confirmed the escrow as the threshold asks, for every set and threshold.
ConsensusExact ==
    \A e \in EscrowIds, set \in Seq(Oracles), k \in Nat :
      check_consensus(e, k, set) <=> k > 0 /\ Cardinality(Agreeing(e, set)) >= k

\* The threshold is a number of unique oracles, though the code counts list
\* entries: for every set of oracles, not only the short ones a run enumerates.
THEOREM ConsensusCorrect == Spec => [](ConsensusExact /\ ConsensusCountsOracles)
<1>1. ASSUME AdapterInv
      PROVE  ConsensusExact /\ ConsensusCountsOracles
  <2>1. ASSUME NEW e \in EscrowIds, NEW set, NEW k \in Nat
        PROVE  check_consensus(e, k, set) <=> k > 0 /\ Cardinality(Agreeing(e, set)) >= k
      BY <1>1, CountedAreOracles DEF check_consensus, ThresholdMet
  <2>2. 0 .. Cardinality(Oracles) \subseteq Nat
      BY AdapterAssumption, FS_CardinalityType
  <2> QED
      BY <2>1, <2>2 DEF ConsensusExact, ConsensusCountsOracles, Agreeing
<1> QED
    BY <1>1, ListsCorrect, PTL DEF AdapterInv

\* Nothing takes back or changes a confirmation, and nothing but the removal of an
\* oracle makes check_consensus go back on what it has answered: neither the
\* registration of further oracles nor what they confirm nor a new admin.
ConsensusLasts ==
    [][/\ \A e \in EscrowIds, o \in Oracles :
            confirmation[e][o] # Unconfirmed => confirmation'[e][o] = confirmation[e][o]
       /\ oracles \subseteq oracles' =>
            \A e \in EscrowIds, set \in Seq(Oracles), k \in Nat :
              check_consensus(e, k, set) => check_consensus(e, k, set)']_orcVars

\* The replay test of confirm_event is the only writer's guard, so a confirmation is
\* final, and agreement that was reached is lost to remove_oracle alone.
THEOREM ConsensusKept == Spec => ConsensusLasts
<1>1. ASSUME AdapterInv, [Next]_orcVars, NEW e \in EscrowIds, NEW o \in Oracles,
             confirmation[e][o] # Unconfirmed
      PROVE  confirmation'[e][o] = confirmation[e][o]
  <2>1. CASE UNCHANGED confirmation
      BY <2>1
  <2>2. ASSUME NEW q \in Oracles, NEW d \in EscrowIds, NEW t \in EventTypes, confirm_event(q, d, t)
        PROVE  confirmation'[e][o] = confirmation[e][o]
      BY <1>1, <2>2 DEF confirm_event, AlreadyConfirmed, AdapterInv, TypeOK
  <2> QED
      BY <1>1, <2>1, <2>2 DEF Next, add_oracle, remove_oracle, propose_admin, accept_admin, orcVars
<1>2. AdapterInv => ConsensusExact /\ \A e \in EscrowIds : \A set : IsFiniteSet(Agreeing(e, set))
  <2> SUFFICES ASSUME AdapterInv
               PROVE  ConsensusExact /\ \A e \in EscrowIds : \A set : IsFiniteSet(Agreeing(e, set))
      OBVIOUS
  <2>1. ASSUME NEW e \in EscrowIds, NEW set, NEW k \in Nat
        PROVE  check_consensus(e, k, set) <=> k > 0 /\ Cardinality(Agreeing(e, set)) >= k
      BY CountedAreOracles DEF check_consensus, ThresholdMet
  <2> QED
      BY <2>1, CountedAreOracles DEF ConsensusExact
<1>3. (AdapterInv => ConsensusExact /\ \A e \in EscrowIds : \A set : IsFiniteSet(Agreeing(e, set)))'
    BY <1>2, PTL
<1>4. ASSUME AdapterInv, [Next]_orcVars, oracles \subseteq oracles', NEW e \in EscrowIds,
             NEW set \in Seq(Oracles), NEW k \in Nat, check_consensus(e, k, set)
      PROVE  check_consensus(e, k, set)'
  <2>1. AdapterInv'
      BY <1>4, AdapterStep
  <2>2. ConsensusExact /\ ConsensusExact'
      BY <1>2, <1>3, <1>4, <2>1
  <2>3. Agreeing(e, set) \in SUBSET Agreeing(e, set)'
      BY <1>1, <1>4 DEF Agreeing, Registered
  <2>4. IsFiniteSet(Agreeing(e, set)')
      BY <1>3, <2>1
  <2>5. /\ Cardinality(Agreeing(e, set)) <= Cardinality(Agreeing(e, set)')
        /\ Cardinality(Agreeing(e, set)) \in Nat /\ Cardinality(Agreeing(e, set)') \in Nat
      BY <2>3, <2>4, FS_Subset, FS_CardinalityType
  <2>6. k > 0 /\ Cardinality(Agreeing(e, set)) >= k
      BY <1>4, <2>2 DEF ConsensusExact
  <2>7. k > 0 /\ Cardinality(Agreeing(e, set)') >= k
      BY <2>5, <2>6
  <2> QED
      BY <2>2, <2>7 DEF ConsensusExact
<1> DEFINE Lasts ==
        /\ \A e \in EscrowIds, o \in Oracles :
             confirmation[e][o] # Unconfirmed => confirmation'[e][o] = confirmation[e][o]
        /\ oracles \subseteq oracles' =>
             \A e \in EscrowIds, set \in Seq(Oracles), k \in Nat :
               check_consensus(e, k, set) => check_consensus(e, k, set)'
<1>5. AdapterInv /\ [Next]_orcVars => [Lasts]_orcVars
    BY <1>1, <1>4
<1>6. Spec => []AdapterInv
    BY ListsCorrect DEF AdapterInv
<1> QED
    BY <1>5, <1>6, PTL DEF Spec, ConsensusLasts
============================================================================
