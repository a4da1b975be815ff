--------------------------- MODULE EscrowManager ---------------------------
(***************************************************************************)
(* The escrow manager contract (contracts/escrow-manager) composed with    *)
(* the contracts it calls: the collateral registry and the oracle adapter  *)
(* (the modules of those names), the treasury's fee interface and the      *)
(* token contracts of the Soroban host.                                    *)
(*                                                                         *)
(* An invocation is atomic, the calls it makes to other contracts          *)
(* included: an Err, a trap or a refused signature anywhere undoes all of  *)
(* it.  So an operation is one action whose guard is the conjunction of    *)
(* every condition on the way, in the callees too.  Where the calls do not *)
(* fit the repository's own callees (lock_collateral, check_consensus),    *)
(* LockParams and ConsensusParams say what is found at the address.        *)
(*                                                                         *)
(* Left out because no operation reads it back: created_at, the dispute's  *)
(* time, author and reason, the per-seller index, events and entry TTLs.   *)
(***************************************************************************)
EXTENDS Integers, Sequences, FiniteSets, FiniteSetsExt

CONSTANTS
    \* --- the host
    Parties,           \* account addresses
    Contract,          \* the escrow manager's own address
    Assets,            \* token contracts
    InitialBalance,    \* [Assets -> [Parties -> Nat]], what the parties start with
    Willing,           \* addresses that sign when their signature is required
    Reluctant,         \* owners that will nevertheless not sign an unlock
    MaxTime,           \* bound: last ledger timestamp
    \* --- the escrow manager
    Configs,           \* EscrowConfig arguments, invalid ones included
    Rates,             \* arguments of set_test_exchange_rate
    Managers,          \* addresses that may become admin
    InitialManager,    \* the admin fixed by initialize
    Treasuries,        \* addresses that may be set as treasury
    InitialTreasury,   \* the treasury fixed by initialize
    FeeBps,            \* [treasury contract -> its get_fee_bps]; other addresses trap
    MaxEscrows,        \* bound: escrows created in a behaviour
    \* --- how the deployment is wired
    LockParams,        \* parameters lock_collateral declares at the registry address
    ConsensusParams,   \* parameters check_consensus declares at the adapter address
    DirectLocking,     \* whether owners also call the registry's lock and unlock
    \* --- the collateral registry
    Owners, Hashes, Valuations, Classes, LockRefs,
    RegistryAdmin, RegistryOracle, MaxCollaterals,
    \* --- the oracle adapter
    Oracles, Admins, EventTypes, InitialAdmin

Accounts == Parties \cup {Contract} \cup Treasuries
AllEscrowIds == 1 .. MaxEscrows

EscrowConfig ==
    [buyer : Parties, seller : Parties, lender : Parties,
     collateral_id : Nat, amount : Int, asset : Assets,
     required_confirmation : Nat, expiry_ts : Nat,
     destination_asset : Assets, min_destination_amount : Int,
     required_confirmations : Nat, oracle_set : Seq(Oracles)]

ASSUME ManagerAssumption ==
    /\ Contract \notin Parties
    /\ Contract \notin Treasuries
    /\ Configs \subseteq EscrowConfig
    /\ InitialBalance \in [Assets -> [Parties -> Nat]]
    /\ Rates \subseteq Int
    /\ InitialManager \in Managers
    /\ InitialTreasury \in Treasuries
    /\ DOMAIN FeeBps \subseteq Treasuries
    /\ \A t \in DOMAIN FeeBps : FeeBps[t] \in Nat
    /\ DirectLocking \in BOOLEAN
    /\ MaxTime \in Nat
    /\ MaxEscrows \in Nat
    /\ Valuations \subseteq Int
    /\ LockRefs \subseteq Nat
    /\ EventTypes \subseteq Nat
    /\ InitialAdmin \in Admins

VARIABLES
    escrow,            \* persistent storage id -> Escrow
    next_id,           \* instance storage "next_id"
    admin, pend_adm,   \* instance storage "admin", "pend_adm"
    treasury,          \* instance storage "treasury"
    test_rate,         \* instance storage "test_rate", 6 decimals
    bal,               \* token balances, per asset and account
    fees,              \* fees recorded by deposit_fee, per treasury and asset
    now,               \* ledger timestamp
    collateral, nextCollId, hashKeys, ownerKeys,
    oracles, orcAdmin, orcPending, confirmation, confirming

Registry == INSTANCE CollateralRegistry
Adapter == INSTANCE OracleAdapter WITH EscrowIds <- AllEscrowIds

regVars == <<collateral, nextCollId, hashKeys, ownerKeys>>
orcVars == <<oracles, orcAdmin, orcPending, confirmation, confirming>>
setupVars == <<admin, pend_adm, treasury, test_rate>>
vars == <<escrow, next_id, setupVars, bal, fees, now, regVars, orcVars>>

EscrowIds == 1 .. (next_id - 1)
NoAdmin == "none"
UNIT == 1000000

\* EscrowStatus; the terminal ones are Released and Refunded.
EscrowStatus == {"Active", "Released", "Refunded", "Disputed"}
Open == {"Active", "Disputed"}

Escrow == [config : {c \in Configs : c.amount > 0}, status : EscrowStatus]

IsOpen(id) == escrow[id].status \in Open

----------------------------------------------------------------------------
(* The host *)

require_auth(a) == a \in Willing

transfer(asset, from, to, amount) ==
    LET debited == [bal[asset] EXCEPT ![from] = @ - amount]
        credited == [debited EXCEPT ![to] = @ + amount]
    IN /\ 0 <= amount /\ amount <= bal[asset][from]
       /\ bal' = [bal EXCEPT ![asset] = credited]

Tick ==
    /\ now < MaxTime
    /\ now' = now + 1
    /\ UNCHANGED <<escrow, next_id, setupVars, bal, fees, regVars, orcVars>>

----------------------------------------------------------------------------
(* Helpers of the contract *)

\* Mutated forms of the helpers below, one plausible slip each.
ValidConfig_NoAmount(c) == c.min_destination_amount > 0
RequireActive_OnlyDisputed(id) == escrow[id].status # "Disputed"
SlippageOk_Unchecked(c) == TRUE
refund_recipient_Lender(c) == c.lender
CanRefund_Strict(c) == bal[c.asset][Contract] > c.amount

\* The argument checks of create_escrow.
ValidConfig(c) ==
    /\ c.amount > 0
    /\ c.min_destination_amount > 0
    /\ c.required_confirmations > 0 =>
         /\ c.oracle_set # <<>>
         /\ c.required_confirmations <= Len(c.oracle_set)
         /\ \A i, j \in DOMAIN c.oracle_set : c.oracle_set[i] = c.oracle_set[j] => i = j

\* The status test of release_funds_on_confirmation and refund_escrow.
RequireActive(id) == escrow[id].status = "Active"

estimate_path_payment(amount) == (amount * test_rate) \div UNIT

SameAsset(c) == c.asset = c.destination_asset

payout_amount(c) == IF SameAsset(c) THEN c.amount ELSE estimate_path_payment(c.amount)

\* Within one asset the minimum is not looked at.
SlippageOk(c) == SameAsset(c) \/ payout_amount(c) >= c.min_destination_amount

\* The seller is paid out of the contract's pooled balance; across assets it is
\* the destination asset that leaves, and the source asset stays.
execute_release_payout(c) ==
    /\ SlippageOk(c)
    /\ transfer(c.destination_asset, Contract, c.seller, payout_amount(c))

\* process_refund pays the buyer, not the lender.
refund_recipient(c) == c.buyer

CanRefund(c) == bal[c.asset][Contract] >= c.amount

\* A fee is reported to the treasury, and no token moves.
collect_protocol_fee(c) ==
    /\ treasury \in DOMAIN FeeBps
    /\ LET fee == (c.amount * FeeBps[treasury]) \div 10000
           recorded == [fees[treasury] EXCEPT ![c.asset] = @ + fee]
       IN fees' = IF fee <= 0 THEN fees ELSE [fees EXCEPT ![treasury] = recorded]

\* check_consensus as the escrow manager calls it, with an event type to filter
\* by.  The repository's adapter has no such parameter; this is its counting, of
\* the confirmations of that event only.
check_consensus(id, event_type, threshold, oracle_set) ==
    LET confs == Adapter!get_confirmations_for_escrow(id)
        counted == {i \in Adapter!Counted(id, oracle_set) : confs[i].event_type = event_type}
    IN threshold # 0 /\ Adapter!ThresholdMet(Cardinality(counted), threshold)

\* Mutated form of ConsensusMet: the event type and the threshold, two integers
\* of nearly the same name, are passed in the wrong order.
ConsensusMet_Swapped(id) ==
    LET c == escrow[id].config
    IN check_consensus(id, c.required_confirmations, c.required_confirmation, c.oracle_set)

\* The call of check_consensus.
ConsensusMet(id) ==
    LET c == escrow[id].config
    IN check_consensus(id, c.required_confirmation, c.required_confirmations, c.oracle_set)

\* The evidence release_funds_on_confirmation asks of the adapter.  A call with
\* a number of arguments other than the callee declares traps.
Confirmed(id) ==
    LET c == escrow[id].config
        confs == Adapter!get_confirmations_for_escrow(id)
    IN \/ /\ c.required_confirmations > 0
          /\ c.oracle_set # <<>>
          /\ c.required_confirmations <= Len(c.oracle_set)
          /\ ConsensusParams = 4
          /\ ConsensusMet(id)
       \/ /\ c.required_confirmations = 0
          /\ \E i \in DOMAIN confs :
               /\ confs[i].event_type = c.required_confirmation
               /\ confs[i].verified

\* The tail shared by release_funds_on_confirmation and resolve_dispute.
settle_release(id) ==
    LET c == escrow[id].config
    IN /\ execute_release_payout(c)
       /\ collect_protocol_fee(c)
       /\ Registry!unlock_collateral(c.collateral_id)
       /\ escrow' = [escrow EXCEPT ![id].status = "Released"]
       /\ UNCHANGED <<next_id, setupVars, now, orcVars>>

\* Mutated form of settle_refund: the collateral stays locked.
settle_refund_NoUnlock(id) ==
    LET c == escrow[id].config
    IN /\ CanRefund(c)
       /\ transfer(c.asset, Contract, refund_recipient(c), c.amount)
       /\ escrow' = [escrow EXCEPT ![id].status = "Refunded"]
       /\ UNCHANGED <<next_id, setupVars, fees, now, regVars, orcVars>>

\* process_refund and the unlocking that follows it in both callers.
settle_refund(id) ==
    LET c == escrow[id].config
    IN /\ CanRefund(c)
       /\ transfer(c.asset, Contract, refund_recipient(c), c.amount)
       /\ Registry!unlock_collateral(c.collateral_id)
       /\ escrow' = [escrow EXCEPT ![id].status = "Refunded"]
       /\ UNCHANGED <<next_id, setupVars, fees, now, orcVars>>

----------------------------------------------------------------------------
(* Operations of the escrow manager *)

\* The state initialize leaves behind, in a host whose tokens are all with the
\* parties and next to a freshly initialised registry and adapter.
Init ==
    /\ escrow = [id \in {} |-> {}]
    /\ next_id = 1
    /\ admin = InitialManager
    /\ pend_adm = NoAdmin
    /\ treasury = InitialTreasury
    /\ test_rate = UNIT
    /\ bal = [a \in Assets |-> [p \in Accounts |->
                IF p \in Parties THEN InitialBalance[a][p] ELSE 0]]
    /\ fees = [t \in Treasuries |-> [a \in Assets |-> 0]]
    /\ now = 0
    /\ Registry!Init
    /\ Adapter!Init

create_escrow(c) ==
    /\ next_id <= MaxEscrows
    /\ require_auth(c.lender)
    /\ ValidConfig(c)
    /\ LockParams = 1
    /\ Registry!lock_collateral(c.collateral_id, 0)
    /\ transfer(c.asset, c.lender, Contract, c.amount)
    /\ escrow' = [id \in 1 .. next_id |->
                    IF id = next_id THEN [config |-> c, status |-> "Active"]
                    ELSE escrow[id]]
    /\ next_id' = next_id + 1
    /\ UNCHANGED <<setupVars, fees, now, orcVars>>

raise_dispute(id, disputer) ==
    /\ escrow[id].status = "Active"
    /\ disputer \in {escrow[id].config.buyer, escrow[id].config.seller}
    /\ require_auth(disputer)
    /\ escrow' = [escrow EXCEPT ![id].status = "Disputed"]
    /\ UNCHANGED <<next_id, setupVars, bal, fees, now, regVars, orcVars>>

dispute_escrow(id, caller) ==
    /\ require_auth(caller)
    /\ caller \in {escrow[id].config.buyer, escrow[id].config.seller,
                   escrow[id].config.lender}
    /\ escrow[id].status = "Active"
    /\ escrow' = [escrow EXCEPT ![id].status = "Disputed"]
    /\ UNCHANGED <<next_id, setupVars, bal, fees, now, regVars, orcVars>>

release_funds_on_confirmation(id) ==
    /\ RequireActive(id)
    /\ Confirmed(id)
    /\ settle_release(id)

refund_escrow(id) ==
    /\ RequireActive(id)
    /\ now > escrow[id].config.expiry_ts
    /\ settle_refund(id)

resolve_dispute(id, decision) ==
    /\ require_auth(admin)
    /\ escrow[id].status = "Disputed"
    /\ \/ decision = "ReleaseToSeller" /\ settle_release(id)
       \/ decision = "RefundToBuyer" /\ settle_refund(id)

set_treasury(t) ==
    /\ require_auth(admin)
    /\ treasury' = t
    /\ UNCHANGED <<escrow, next_id, admin, pend_adm, test_rate, bal, fees, now,
                   regVars, orcVars>>

propose_admin(a) ==
    /\ require_auth(admin)
    /\ pend_adm' = a
    /\ UNCHANGED <<escrow, next_id, admin, treasury, test_rate, bal, fees, now,
                   regVars, orcVars>>

accept_admin ==
    /\ pend_adm # NoAdmin
    /\ require_auth(pend_adm)
    /\ admin' = pend_adm
    /\ pend_adm' = NoAdmin
    /\ UNCHANGED <<escrow, next_id, treasury, test_rate, bal, fees, now,
                   regVars, orcVars>>

\* Anybody may call it.
set_test_exchange_rate(rate) ==
    /\ test_rate' = rate
    /\ UNCHANGED <<escrow, next_id, admin, pend_adm, treasury, bal, fees, now,
                   regVars, orcVars>>

----------------------------------------------------------------------------
(* Calls of the owners and oracles on the other two contracts *)

managerVars == <<escrow, next_id, setupVars, bal, fees, now>>

OwnerStep ==
    /\ UNCHANGED <<managerVars, orcVars>>
    /\ \/ \E o \in Owners, h \in Hashes, v \in Valuations :
            Registry!register_collateral(o, h, v)
       \/ \E i \in Registry!CollateralIds, o \in Owners :
            Registry!transfer_collateral(i, o)

DirectLockStep ==
    /\ DirectLocking
    /\ UNCHANGED <<managerVars, orcVars>>
    /\ \E i \in Registry!CollateralIds :
         \/ \E e \in LockRefs : Registry!lock_collateral(i, e)
         \/ Registry!unlock_collateral(i)

OracleStep ==
    /\ UNCHANGED <<managerVars, regVars>>
    /\ \E o \in Oracles :
         \/ Adapter!add_oracle(o)
         \/ Adapter!remove_oracle(o)
         \/ \E e \in AllEscrowIds, t \in EventTypes : Adapter!confirm_event(o, e, t)

EscrowStep(id) ==
    \/ release_funds_on_confirmation(id)
    \/ refund_escrow(id)
    \/ \E p \in Parties : raise_dispute(id, p) \/ dispute_escrow(id, p)
    \/ \E d \in {"ReleaseToSeller", "RefundToBuyer"} : resolve_dispute(id, d)

SetupStep ==
    \/ \E t \in Treasuries : set_treasury(t)
    \/ \E a \in Managers : propose_admin(a)
    \/ accept_admin
    \/ \E r \in Rates : set_test_exchange_rate(r)

Next ==
    \/ \E c \in Configs : create_escrow(c)
    \/ \E id \in EscrowIds : EscrowStep(id)
    \/ SetupStep
    \/ OwnerStep
    \/ DirectLockStep
    \/ OracleStep
    \/ Tick

Spec == Init /\ [][Next]_vars

\* Time passes, and after an escrow's expiry somebody calls refund_escrow; owners
\* register collateral, lenders fund and releases are called for.
FairSpec ==
    /\ Spec
    /\ WF_vars(Tick)
    /\ WF_vars(OwnerStep)
    /\ WF_vars(\E c \in Configs : create_escrow(c))
    /\ \A id \in AllEscrowIds :
         /\ WF_vars(id \in EscrowIds /\ refund_escrow(id))
         /\ WF_vars(id \in EscrowIds /\ release_funds_on_confirmation(id))

----------------------------------------------------------------------------
(* Properties *)

TypeOK ==
    /\ next_id \in Nat \ {0}
    /\ escrow \in [EscrowIds -> Escrow]
    /\ admin \in Managers
    /\ pend_adm \in Managers \cup {NoAdmin}
    /\ treasury \in Treasuries
    /\ test_rate \in Int
    /\ bal \in [Assets -> [Accounts -> Nat]]
    /\ fees \in [Treasuries -> [Assets -> Nat]]
    /\ now \in Nat
    /\ Registry!TypeOK
    /\ Adapter!TypeOK

\* Sum of the amounts of a set of escrows.
Amounts == [id \in EscrowIds |-> escrow[id].config.amount]
Total(ids) == SumFunctionOnSet(Amounts, ids)

\* Escrows of an asset with a status in S.
Of(asset, S) == {id \in EscrowIds : escrow[id].config.asset = asset /\ escrow[id].status \in S}
LentBy(asset, p) == {id \in Of(asset, EscrowStatus) : escrow[id].config.lender = p}
ReleasedTo(asset, p) == {id \in Of(asset, {"Released"}) : escrow[id].config.seller = p}
RefundedTo(asset, p) == {id \in Of(asset, {"Refunded"}) : escrow[id].config.buyer = p}

\* Every token is accounted for, for escrows that pay out in their own asset:
\* the contract holds exactly what the open escrows were funded with, and each
\* party has what it started with, less what it lent, plus what was released to
\* it as seller and refunded to it as buyer.  So no escrow is paid twice, and
\* none is paid with another escrow's money.
LedgerReconciles ==
    \A a \in Assets :
      /\ bal[a][Contract] = Total(Of(a, Open))
      /\ \A p \in Parties :
           bal[a][p] + Total(LentBy(a, p))
             = InitialBalance[a][p] + Total(ReleasedTo(a, p)) + Total(RefundedTo(a, p))

\* A collateral is locked exactly while an open escrow rests on it: an open
\* escrow never loses its collateral, however it is settled the collateral is
\* given back, and no step in between leaves a lock behind.
LocksMatchEscrows ==
    /\ \A id \in EscrowIds : IsOpen(id) =>
         /\ escrow[id].config.collateral_id \in Registry!CollateralIds
         /\ collateral[escrow[id].config.collateral_id].locked
    /\ \A i \in Registry!CollateralIds : collateral[i].locked =>
         \E id \in EscrowIds : IsOpen(id) /\ escrow[id].config.collateral_id = i

\* A collateral secures at most one open escrow at a time.
CollateralSingleUse ==
    \A i, j \in EscrowIds :
      /\ IsOpen(i) /\ IsOpen(j)
      /\ escrow[i].config.collateral_id = escrow[j].config.collateral_id
      => i = j

\* Locked collaterals and open escrows match one to one, over creations,
\* settlements and collateral transfers in any order, as long as owners leave
\* locking to the escrow manager.
LocksOneToOne == LocksMatchEscrows /\ CollateralSingleUse

\* A settled escrow stays as it was settled, under the terms it was created
\* with, whatever disputes, resolutions, releases and refunds are tried later.
SettledIsFinal ==
    [][\A id \in EscrowIds :
         /\ escrow'[id].config = escrow[id].config
         /\ ~IsOpen(id) => escrow'[id].status = escrow[id].status]_vars

\* The stage of each escrow, as EscrowLifecycle has it.
life == [id \in AllEscrowIds |-> IF id \in EscrowIds THEN escrow[id].status ELSE "none"]
Lifecycle == INSTANCE EscrowLifecycle WITH Ids <- AllEscrowIds

\* The three contracts together keep the promise the rest of the system is built
\* on: an escrow is funded once, disputed at most while it is active and settled
\* once, one escrow in a step, whatever else the contracts do.
ImplementsLifecycle == Lifecycle!LifeSpec

\* An oracle has confirmed the event that the escrow's terms require.
ConfirmedBy(id, o) ==
    /\ confirmation[id][o] # Adapter!Unconfirmed
    /\ confirmation[id][o] = escrow[id].config.required_confirmation

\* Enough different, currently registered oracles of the escrow's set confirmed
\* the event it requires.
Agreed(id) ==
    LET c == escrow[id].config
        set == {c.oracle_set[i] : i \in DOMAIN c.oracle_set}
    IN /\ c.required_confirmations > 0
       /\ Cardinality({o \in set : ConfirmedBy(id, o) /\ Adapter!Registered(o)})
            >= c.required_confirmations

\* Money leaves an undisputed escrow for the seller only on evidence of the
\* required event: as many different, currently registered oracles of its set as
\* it requires have confirmed it; or, with no threshold, some oracle has.  An
\* oracle that confirmed another event, or was removed, does not count.
EvidenceForRelease ==
    [][\A id \in EscrowIds :
         (escrow[id].status = "Active" /\ escrow'[id].status = "Released") =>
           \/ Agreed(id)
           \/ /\ escrow[id].config.required_confirmations = 0
              /\ \E o \in Oracles : ConfirmedBy(id, o)]_vars

\* What the seller of an escrow gains in a step, in the asset it is to be paid.
Received(c) == bal'[c.destination_asset][c.seller] - bal[c.destination_asset][c.seller]

\* Slippage protection, as far as it goes: however an escrow comes to be
\* released, by its oracles or by the admin, and whatever the rate has become by
\* then, across assets the seller receives at least the agreed minimum.  Within
\* one asset it receives the amount, no more and no less.
SlippageProtected ==
    [][\A id \in EscrowIds :
         (IsOpen(id) /\ escrow'[id].status = "Released") =>
           LET c == escrow[id].config
           IN IF SameAsset(c) THEN Received(c) = c.amount
              ELSE Received(c) >= c.min_destination_amount]_vars

\* An undisputed escrow that has expired is settled or disputed eventually: the
\* refund never comes to lack money or the lock it has to undo.
ExpiredEscrowSettles ==
    \A id \in AllEscrowIds :
      (id \in EscrowIds /\ escrow[id].status = "Active" /\ now > escrow[id].config.expiry_ts)
        ~> (id \in EscrowIds /\ escrow[id].status # "Active")

\* release_funds_on_confirmation's comment: when check_consensus finds enough
\* confirmations the escrow is released.  So, if releases are called for, an
\* escrow on whose required event its oracles have agreed for good does not stay
\* active.
ConsensusSettles ==
    \A id \in AllEscrowIds :
      <>[](id \in EscrowIds /\ Agreed(id)) => <>(id \in EscrowIds /\ escrow[id].status # "Active")

----------------------------------------------------------------------------
(* What comments and tests of the repository say and the code does not do *)

\* proptest_escrow.rs, read with the disputed escrows counted in: the contract
\* still holds what its open escrows were funded with.
BalanceCoversOpen ==
    \A a \in Assets : bal[a][Contract] >= Total(Of(a, Open))

\* The doc of create_escrow: min_destination_amount is the "Minimum amount seller
\* must receive".  So a release pays no less, within one asset too.
SellerGetsMinimum ==
    [][\A id \in EscrowIds :
         (IsOpen(id) /\ escrow'[id].status = "Released") =>
           Received(escrow[id].config) >= escrow[id].config.min_destination_amount]_vars
============================================================================
