--------------------------- MODULE OracleAdapter ---------------------------
(***************************************************************************)
(* The oracle adapter contract (contracts/oracle-adapter): the register of *)
(* oracles and their confirmations of off-chain events, queried by the     *)
(* escrow manager.  Calls are atomic and signatures come from Willing, as  *)
(* in CollateralRegistry.  The order of the register, the result bytes and *)
(* the timestamp of a confirmation, which nothing reads, are left out.     *)
(***************************************************************************)
EXTENDS Integers, Sequences, FiniteSets

CONSTANTS
    Oracles,         \* addresses that may be registered as oracles
    Admins,          \* addresses that may be nominated as admin
    EscrowIds,       \* escrow ids an oracle may name; nobody checks they exist
    EventTypes,      \* event type arguments, invalid codes included
    InitialAdmin,    \* the admin fixed by initialize
    Willing          \* addresses that sign when their signature is required

ASSUME AdapterAssumption ==
    /\ EventTypes \subseteq Nat
    /\ InitialAdmin \in Admins
    /\ IsFiniteSet(Oracles)

VARIABLES
    oracles,         \* ContractData.oracles, a list without duplicates
    orcAdmin,        \* ContractData.admin
    orcPending,      \* instance storage "pend_adm"
    confirmation,    \* persistent storage (escrow, oracle) -> event type
    confirming       \* persistent storage ("conf_orc", escrow) -> list of oracles

orcVars == <<oracles, orcAdmin, orcPending, confirmation, confirming>>

NoAdmin == "none"
Unconfirmed == 0

\* EventType: Shipment, Delivery, Quality, Custom, Valuation.
ValidEvents == 1 .. 5

Elements(list) == {list[i] : i \in DOMAIN list}

require_auth(a) == a \in Willing

\* is_oracle_registered
Registered(o) == o \in oracles

\* Mutated forms of the helpers below.
AlreadyConfirmed_Unchecked(o, e) == FALSE
ThresholdMet_Strict(count, threshold) == count > threshold

IsValidEvent(t) == t \in ValidEvents

\* The replay test of confirm_event, made on both stores.
AlreadyConfirmed(o, e) ==
    confirmation[e][o] # Unconfirmed \/ o \in Elements(confirming[e])

ThresholdMet(count, threshold) == count >= threshold

----------------------------------------------------------------------------
(* Queries *)

\* get_confirmations_for_escrow: the confirmations in the order the confirming
\* oracles were recorded.  The fallback for entries without a confirming list
\* is for data older than this code and finds nothing in a fresh deployment.
get_confirmations_for_escrow(e) ==
    [i \in DOMAIN confirming[e] |->
        [oracle |-> confirming[e][i],
         event_type |-> confirmation[e][confirming[e][i]],
         verified |-> TRUE]]

\* Mutated form of Counted: confirmations of removed oracles still count.
Counted_Removed(e, oracle_set) ==
    {i \in DOMAIN confirming[e] :
       oracle_set = <<>> \/ confirming[e][i] \in Elements(oracle_set)}

\* The positions check_consensus counts: verified confirmations by oracles that
\* are still registered and belong to oracle_set (any, when it is empty).
Counted(e, oracle_set) ==
    LET confs == get_confirmations_for_escrow(e)
    IN {i \in DOMAIN confs :
          /\ oracle_set = <<>> \/ confs[i].oracle \in Elements(oracle_set)
          /\ Registered(confs[i].oracle)
          /\ confs[i].verified}

\* check_consensus.  A zero threshold is an error, that is, no answer.
check_consensus(e, threshold, oracle_set) ==
    /\ threshold # 0
    /\ ThresholdMet(Cardinality(Counted(e, oracle_set)), threshold)

----------------------------------------------------------------------------
(* Operations *)

\* The state initialize leaves behind.
Init ==
    /\ oracles = {}
    /\ orcAdmin = InitialAdmin
    /\ orcPending = NoAdmin
    /\ confirmation = [e \in EscrowIds |-> [o \in Oracles |-> Unconfirmed]]
    /\ confirming = [e \in EscrowIds |-> <<>>]

add_oracle(o) ==
    /\ require_auth(orcAdmin)
    /\ ~Registered(o)
    /\ oracles' = oracles \cup {o}
    /\ UNCHANGED <<orcAdmin, orcPending, confirmation, confirming>>

remove_oracle(o) ==
    /\ require_auth(orcAdmin)
    /\ Registered(o)
    /\ oracles' = oracles \ {o}
    /\ UNCHANGED <<orcAdmin, orcPending, confirmation, confirming>>

\* verify_signature is the oracle's require_auth; the bytes are not inspected.
confirm_event(o, e, event_type) ==
    /\ Registered(o)
    /\ IsValidEvent(event_type)
    /\ ~AlreadyConfirmed(o, e)
    /\ require_auth(o)
    /\ confirmation' = [confirmation EXCEPT ![e][o] = event_type]
    /\ confirming' = [confirming EXCEPT ![e] = Append(@, o)]
    /\ UNCHANGED <<oracles, orcAdmin, orcPending>>

propose_admin(a) ==
    /\ require_auth(orcAdmin)
    /\ orcPending' = a
    /\ UNCHANGED <<oracles, orcAdmin, confirmation, confirming>>

accept_admin ==
    /\ orcPending # NoAdmin
    /\ require_auth(orcPending)
    /\ orcAdmin' = orcPending
    /\ orcPending' = NoAdmin
    /\ UNCHANGED <<oracles, confirmation, confirming>>

Next ==
    \/ \E o \in Oracles :
         \/ add_oracle(o)
         \/ remove_oracle(o)
         \/ \E e \in EscrowIds, t \in EventTypes : confirm_event(o, e, t)
    \/ \E a \in Admins : propose_admin(a)
    \/ accept_admin

Spec == Init /\ [][Next]_orcVars

----------------------------------------------------------------------------
(* Properties *)

TypeOK ==
    /\ oracles \subseteq Oracles
    /\ orcAdmin \in Admins
    /\ orcPending \in Admins \cup {NoAdmin}
    /\ confirmation \in [EscrowIds -> [Oracles -> ValidEvents \cup {Unconfirmed}]]
    /\ confirming \in [EscrowIds -> Seq(Oracles)]

\* The list of confirming oracles and the stored confirmations describe the same
\* facts: each oracle that confirmed an escrow is listed exactly once.
ConfirmationsListed ==
    \A e \in EscrowIds :
      /\ Elements(confirming[e]) = {o \in Oracles : confirmation[e][o] # Unconfirmed}
      /\ \A i, j \in DOMAIN confirming[e] :
           confirming[e][i] = confirming[e][j] => i = j

\* Oracle sets of at most two entries, duplicates included.
SetsOfOracles == {<<>>} \cup [1 .. 1 -> Oracles] \cup [1 .. 2 -> Oracles]

\* check_consensus promises a number of unique oracles, and counts list
\* positions.  The two agree for every threshold and oracle set, whatever
\* registrations, removals and re-registrations came before.
ConsensusCountsOracles ==
    \A e \in EscrowIds, set \in SetsOfOracles, k \in 0 .. Cardinality(Oracles) :
      check_consensus(e, k, set) <=>
        /\ k > 0
        /\ Cardinality({o \in Oracles :
                          /\ confirmation[e][o] # Unconfirmed
                          /\ Registered(o)
                          /\ set = <<>> \/ o \in Elements(set)}) >= k

============================================================================
