------------------------ MODULE EscrowManagerProofs ------------------------
(***************************************************************************)
(* Proofs about EscrowManager, for any parties, assets, configurations,    *)
(* oracles and numbers of escrows and collaterals.                         *)
(***************************************************************************)
EXTENDS EscrowManager, CountingTheorems

----------------------------------------------------------------------------
(* The calls an operation makes, each with what it keeps well formed *)

BalType == bal \in [Assets -> [Accounts -> Nat]]

LEMMA TransferTyped ==
    ASSUME NEW asset \in Assets, NEW from \in Accounts, NEW to \in Accounts,
           NEW amount \in Int, BalType, transfer(asset, from, to, amount)
    PROVE  BalType'
<1>1. /\ bal[asset] \in [Accounts -> Nat]
      /\ amount \in Nat /\ bal[asset][from] - amount \in Nat
    BY DEF BalType, transfer
<1> DEFINE less == [bal[asset] EXCEPT ![from] = bal[asset][from] - amount]
<1>2. less \in [Accounts -> Nat]
    BY <1>1
<1>3. [less EXCEPT ![to] = less[to] + amount] \in [Accounts -> Nat]
    BY <1>1, <1>2
<1>4. bal' = [bal EXCEPT ![asset] = [less EXCEPT ![to] = less[to] + amount]]
    BY DEF transfer
<1> HIDE DEF less
<1> QED
    BY <1>3, <1>4 DEF BalType

FeesType == fees \in [Treasuries -> [Assets -> Nat]]

LEMMA FeesTyped ==
    ASSUME NEW c \in EscrowConfig, c.amount > 0, FeesType, treasury \in Treasuries,
           collect_protocol_fee(c)
    PROVE  FeesType'
<1> DEFINE fee == (c.amount * FeeBps[treasury]) \div 10000
<1>1. c.amount \in Nat /\ c.asset \in Assets
    BY DEF EscrowConfig
<1>2. FeeBps[treasury] \in Nat
    BY ManagerAssumption DEF collect_protocol_fee
<1>3. fee \in Nat
    BY <1>1, <1>2
<1> DEFINE recorded == [fees[treasury] EXCEPT ![c.asset] = fees[treasury][c.asset] + fee]
<1>4. fees' = IF fee <= 0 THEN fees ELSE [fees EXCEPT ![treasury] = recorded]
    BY DEF collect_protocol_fee
<1> HIDE DEF fee
<1>5. recorded \in [Assets -> Nat]
    BY <1>1, <1>3 DEF FeesType
<1> HIDE DEF recorded
<1> QED
    BY <1>4, <1>5 DEF FeesType

\* The calls on the registry keep it well formed.  A lock and an unlock rewrite
\* the lock of one collateral and nothing else.
LEMMA LockTyped ==
    ASSUME NEW id, NEW e \in Nat, Registry!TypeOK, Registry!lock_collateral(id, e)
    PROVE  /\ Registry!TypeOK'
           /\ id \in Registry!CollateralIds
           /\ Registry!CollateralIds' = Registry!CollateralIds
           /\ ~collateral[id].locked /\ collateral'[id].locked
           /\ \A i \in Registry!CollateralIds \ {id} : collateral'[i] = collateral[i]
<1> DEFINE rec == [collateral[id] EXCEPT !.locked = TRUE, !.locked_by_escrow = e]
<1>1. id \in Registry!CollateralIds /\ ~collateral[id].locked
    BY DEF Registry!lock_collateral, Registry!NotLocked
<1>2. collateral[id] \in Registry!Collateral /\ DOMAIN collateral = Registry!CollateralIds
    BY <1>1 DEF Registry!TypeOK
<1>3. rec \in Registry!Collateral /\ rec.locked
    BY <1>2 DEF Registry!Collateral
<1>4. /\ collateral' = [collateral EXCEPT ![id] = rec]
      /\ UNCHANGED <<nextCollId, hashKeys, ownerKeys>>
      /\ Registry!CollateralIds' = Registry!CollateralIds
    BY DEF Registry!lock_collateral, Registry!CollateralIds
<1> HIDE DEF rec
<1> QED
    BY <1>1, <1>2, <1>3, <1>4 DEF Registry!TypeOK

LEMMA UnlockTyped ==
    ASSUME NEW id, Registry!TypeOK, Registry!unlock_collateral(id)
    PROVE  /\ Registry!TypeOK'
           /\ id \in Registry!CollateralIds
           /\ Registry!CollateralIds' = Registry!CollateralIds
           /\ ~collateral'[id].locked
           /\ \A i \in Registry!CollateralIds \ {id} : collateral'[i] = collateral[i]
<1> DEFINE rec == [collateral[id] EXCEPT !.locked = FALSE, !.locked_by_escrow = 0]
<1>1. id \in Registry!CollateralIds
    BY DEF Registry!unlock_collateral
<1>2. collateral[id] \in Registry!Collateral /\ DOMAIN collateral = Registry!CollateralIds
    BY <1>1 DEF Registry!TypeOK
<1>3. rec \in Registry!Collateral /\ ~rec.locked
    BY <1>2 DEF Registry!Collateral
<1>4. /\ collateral' = [collateral EXCEPT ![id] = rec]
      /\ UNCHANGED <<nextCollId, hashKeys, ownerKeys>>
      /\ Registry!CollateralIds' = Registry!CollateralIds
    BY DEF Registry!unlock_collateral, Registry!CollateralIds
<1> HIDE DEF rec
<1> QED
    BY <1>1, <1>2, <1>3, <1>4 DEF Registry!TypeOK

LEMMA RegisterTyped ==
    ASSUME NEW o \in Owners, NEW h \in Hashes, NEW v \in Valuations,
           Registry!TypeOK, Registry!register_collateral(o, h, v)
    PROVE  /\ Registry!TypeOK'
           /\ Registry!CollateralIds' = Registry!CollateralIds \cup {nextCollId}
           /\ ~collateral'[nextCollId].locked
           /\ \A i \in Registry!CollateralIds : collateral'[i] = collateral[i]
<1>0. v > 0
    BY DEF Registry!register_collateral, Registry!ValidValuation
<1>1. v \in Nat \ {0}
    BY <1>0, ManagerAssumption
<1> DEFINE new == [owner |-> o, asset_hash |-> h,
                   current_valuation |-> v, previous_valuation |-> 0,
                   locked |-> FALSE, locked_by_escrow |-> 0,
                   verified |-> FALSE, class |-> Registry!NoClass]
<1>2. new \in Registry!Collateral /\ ~new.locked
    BY <1>1 DEF Registry!Collateral
<1>3. collateral' = [i \in 1 .. nextCollId |->
                       IF i = nextCollId THEN new ELSE collateral[i]]
    BY DEF Registry!register_collateral
<1> HIDE DEF new
<1>4. /\ nextCollId \in Nat \ {0}
      /\ nextCollId' = nextCollId + 1
      /\ Registry!CollateralIds' = 1 .. nextCollId
      /\ Registry!CollateralIds' = Registry!CollateralIds \cup {nextCollId}
      /\ nextCollId \notin Registry!CollateralIds
    BY DEF Registry!register_collateral, Registry!TypeOK, Registry!CollateralIds
<1>5. /\ collateral'[nextCollId] = new
      /\ \A i \in Registry!CollateralIds : collateral'[i] = collateral[i]
    BY <1>3, <1>4
<1>6. collateral' \in [Registry!CollateralIds' -> Registry!Collateral]
    BY <1>2, <1>3, <1>4 DEF Registry!TypeOK
<1>7. /\ hashKeys' \subseteq Hashes \X Registry!CollateralIds'
      /\ ownerKeys' \subseteq Owners \X Registry!CollateralIds'
    BY <1>4 DEF Registry!TypeOK, Registry!register_collateral
<1> QED
    BY <1>2, <1>4, <1>5, <1>6, <1>7 DEF Registry!TypeOK

LEMMA MoveTyped ==
    ASSUME NEW id, NEW o \in Owners,
           Registry!TypeOK, Registry!transfer_collateral(id, o)
    PROVE  /\ Registry!TypeOK'
           /\ Registry!CollateralIds' = Registry!CollateralIds
           /\ \A i \in Registry!CollateralIds : collateral'[i].locked = collateral[i].locked
<1>1. /\ id \in Registry!CollateralIds
      /\ Registry!CollateralIds' = Registry!CollateralIds
    BY DEF Registry!transfer_collateral, Registry!CollateralIds
<1>2. collateral[id] \in Registry!Collateral /\ DOMAIN collateral = Registry!CollateralIds
    BY <1>1 DEF Registry!TypeOK
<1> DEFINE rec == [collateral[id] EXCEPT !.owner = o]
<1>3. rec \in Registry!Collateral /\ rec.locked = collateral[id].locked
    BY <1>2 DEF Registry!Collateral
<1>4. /\ collateral' = [collateral EXCEPT ![id] = rec]
      /\ ownerKeys' = (ownerKeys \ {<<collateral[id].owner, id>>}) \cup {<<o, id>>}
      /\ UNCHANGED <<nextCollId, hashKeys>>
    BY DEF Registry!transfer_collateral, Registry!MovedOwnerKey
<1> HIDE DEF rec
<1> QED
    BY <1>1, <1>2, <1>3, <1>4 DEF Registry!TypeOK

\* Confirmations and the register of oracles stay well formed.
LEMMA AdapterTyped ==
    ASSUME Adapter!TypeOK, NEW o \in Oracles,
           \/ Adapter!add_oracle(o)
           \/ Adapter!remove_oracle(o)
           \/ \E e \in AllEscrowIds, t \in EventTypes : Adapter!confirm_event(o, e, t)
    PROVE  Adapter!TypeOK'
<1>1. CASE Adapter!add_oracle(o)
    BY <1>1 DEF Adapter!add_oracle, Adapter!TypeOK
<1>2. CASE Adapter!remove_oracle(o)
    BY <1>2 DEF Adapter!remove_oracle, Adapter!TypeOK
<1>3. ASSUME NEW e \in AllEscrowIds, NEW t \in EventTypes, Adapter!confirm_event(o, e, t)
      PROVE  Adapter!TypeOK'
  <2>1. t \in Adapter!ValidEvents \cup {Adapter!Unconfirmed}
      BY <1>3 DEF Adapter!confirm_event, Adapter!IsValidEvent
  <2>2. Append(confirming[e], o) \in Seq(Oracles)
      BY DEF Adapter!TypeOK
  <2>3. /\ confirmation' = [confirmation EXCEPT ![e][o] = t]
        /\ confirming' = [confirming EXCEPT ![e] = Append(confirming[e], o)]
        /\ UNCHANGED <<oracles, orcAdmin, orcPending>>
      BY <1>3 DEF Adapter!confirm_event
  <2>4. confirmation' \in [AllEscrowIds ->
                             [Oracles -> Adapter!ValidEvents \cup {Adapter!Unconfirmed}]]
      BY <2>1, <2>3 DEF Adapter!TypeOK
  <2>5. confirming' \in [AllEscrowIds -> Seq(Oracles)]
      BY <2>2, <2>3 DEF Adapter!TypeOK
  <2> QED
      BY <2>3, <2>4, <2>5 DEF Adapter!TypeOK
<1> QED
    BY <1>1, <1>2, <1>3

----------------------------------------------------------------------------
(* Type correctness *)

\* The configuration of a stored escrow.
LEMMA StoredConfig ==
    ASSUME TypeOK, NEW id \in EscrowIds
    PROVE  /\ escrow[id] \in Escrow
           /\ escrow[id].config \in EscrowConfig
           /\ escrow[id].config.amount > 0
    BY ManagerAssumption DEF TypeOK, Escrow

\* Rewriting the status of one escrow, as every operation on an escrow does.
LEMMA StatusTyped ==
    ASSUME TypeOK, NEW id \in EscrowIds, NEW st \in EscrowStatus,
           escrow' = [escrow EXCEPT ![id].status = st], next_id' = next_id
    PROVE  /\ EscrowIds' = EscrowIds
           /\ escrow' \in [EscrowIds' -> Escrow]
           /\ escrow'[id].status = st
           /\ \A j \in EscrowIds : escrow'[j].config = escrow[j].config
           /\ \A j \in EscrowIds \ {id} : escrow'[j] = escrow[j]
<1> DEFINE rec == [escrow[id] EXCEPT !.status = st]
<1>1. rec \in Escrow /\ rec.status = st /\ rec.config = escrow[id].config
    BY DEF TypeOK, Escrow
<1>2. escrow' = [escrow EXCEPT ![id] = rec]
    OBVIOUS
<1>3. EscrowIds' = EscrowIds
    BY DEF EscrowIds
<1> HIDE DEF rec
<1> QED
    BY <1>1, <1>2, <1>3 DEF TypeOK

\* What settling an escrow does to the escrows and to the locks, whichever way
\* it is settled.
Settles(id, st) ==
    /\ escrow' = [escrow EXCEPT ![id].status = st]
    /\ next_id' = next_id
    /\ Registry!unlock_collateral(escrow[id].config.collateral_id)

LEMMA ReleaseSettles ==
    ASSUME TypeOK, NEW id \in EscrowIds, settle_release(id)
    PROVE  TypeOK' /\ Settles(id, "Released")
<1> DEFINE c == escrow[id].config
<1>1. /\ c \in EscrowConfig /\ c.amount > 0
      /\ c.destination_asset \in Assets
      /\ c.seller \in Accounts /\ Contract \in Accounts
      /\ c.amount \in Int
    BY StoredConfig DEF EscrowConfig, Accounts
<1>2. payout_amount(c) \in Int
    BY <1>1 DEF payout_amount, estimate_path_payment, UNIT, TypeOK
<1>3. /\ transfer(c.destination_asset, Contract, c.seller, payout_amount(c))
      /\ collect_protocol_fee(c)
      /\ Registry!unlock_collateral(c.collateral_id)
      /\ escrow' = [escrow EXCEPT ![id].status = "Released"]
      /\ UNCHANGED <<next_id, setupVars, now, orcVars>>
    BY DEF settle_release, execute_release_payout
<1> HIDE DEF c
<1>4. BalType'
    BY <1>1, <1>2, <1>3, TransferTyped DEF TypeOK, BalType
<1>5. FeesType'
    BY <1>1, <1>3, FeesTyped DEF TypeOK, FeesType
<1>6. Registry!TypeOK'
    BY <1>3, UnlockTyped DEF TypeOK
<1>7. escrow' \in [EscrowIds' -> Escrow]
    BY <1>3, StatusTyped DEF EscrowStatus
<1>8. TypeOK'
    BY <1>3, <1>4, <1>5, <1>6, <1>7
       DEF TypeOK, BalType, FeesType, Adapter!TypeOK, setupVars, orcVars
<1> QED
    BY <1>3, <1>8 DEF Settles, c

LEMMA RefundSettles ==
    ASSUME TypeOK, NEW id \in EscrowIds, settle_refund(id)
    PROVE  TypeOK' /\ Settles(id, "Refunded")
<1> DEFINE c == escrow[id].config
<1>1. /\ c \in EscrowConfig
      /\ c.asset \in Assets
      /\ c.buyer \in Accounts /\ Contract \in Accounts
      /\ c.amount \in Int
    BY StoredConfig DEF EscrowConfig, Accounts
<1>2. /\ transfer(c.asset, Contract, c.buyer, c.amount)
      /\ Registry!unlock_collateral(c.collateral_id)
      /\ escrow' = [escrow EXCEPT ![id].status = "Refunded"]
      /\ UNCHANGED <<next_id, setupVars, fees, now, orcVars>>
    BY DEF settle_refund, refund_recipient
<1> HIDE DEF c
<1>3. BalType'
    BY <1>1, <1>2, TransferTyped DEF TypeOK, BalType
<1>4. Registry!TypeOK'
    BY <1>2, UnlockTyped DEF TypeOK
<1>5. escrow' \in [EscrowIds' -> Escrow]
    BY <1>2, StatusTyped DEF EscrowStatus
<1>6. TypeOK'
    BY <1>2, <1>3, <1>4, <1>5
       DEF TypeOK, BalType, Adapter!TypeOK, setupVars, orcVars
<1> QED
    BY <1>2, <1>6 DEF Settles, c

\* What creating an escrow does to the escrows and to the locks.
LEMMA CreateTyped ==
    ASSUME TypeOK, NEW c \in Configs, create_escrow(c)
    PROVE  /\ TypeOK'
           /\ EscrowIds' = EscrowIds \cup {next_id}
           /\ next_id \notin EscrowIds
           /\ escrow'[next_id] = [config |-> c, status |-> "Active"]
           /\ \A id \in EscrowIds : escrow'[id] = escrow[id]
           /\ Registry!lock_collateral(c.collateral_id, 0)
<1> DEFINE new == [config |-> c, status |-> "Active"]
<1>1. /\ c \in EscrowConfig
      /\ c.asset \in Assets
      /\ c.lender \in Accounts /\ Contract \in Accounts
      /\ c.amount \in Int
    BY ManagerAssumption DEF EscrowConfig, Accounts
<1>2. /\ c.amount > 0
      /\ Registry!lock_collateral(c.collateral_id, 0)
      /\ transfer(c.asset, c.lender, Contract, c.amount)
      /\ escrow' = [id \in 1 .. next_id |-> IF id = next_id THEN new ELSE escrow[id]]
      /\ next_id' = next_id + 1
      /\ UNCHANGED <<setupVars, fees, now, orcVars>>
    BY DEF create_escrow, ValidConfig
<1>3. new \in Escrow
    BY <1>2 DEF Escrow, EscrowStatus
<1> HIDE DEF new
<1>4. /\ next_id \in Nat \ {0}
      /\ EscrowIds' = 1 .. next_id
      /\ EscrowIds' = EscrowIds \cup {next_id}
      /\ next_id \notin EscrowIds
    BY <1>2 DEF TypeOK, EscrowIds
<1>5. escrow' \in [EscrowIds' -> Escrow]
    BY <1>2, <1>3, <1>4 DEF TypeOK
<1>6. /\ escrow'[next_id] = new
      /\ \A id \in EscrowIds : escrow'[id] = escrow[id]
    BY <1>2, <1>4
<1>7. BalType'
    BY <1>1, <1>2, TransferTyped DEF TypeOK, BalType
<1>8. Registry!TypeOK'
    BY <1>2, LockTyped DEF TypeOK
<1>9. TypeOK'
    BY <1>2, <1>4, <1>5, <1>7, <1>8
       DEF TypeOK, BalType, Adapter!TypeOK, setupVars, orcVars
<1> QED
    BY <1>2, <1>4, <1>6, <1>9 DEF new

\* Opening a dispute, on either of the two ways the contract has for it.
Disputes(id) ==
    /\ escrow[id].status = "Active"
    /\ escrow' = [escrow EXCEPT ![id].status = "Disputed"]
    /\ UNCHANGED <<next_id, setupVars, bal, fees, now, regVars, orcVars>>

LEMMA DisputeTyped ==
    ASSUME TypeOK, NEW id \in EscrowIds, Disputes(id)
    PROVE  TypeOK'
<1>1. escrow' \in [EscrowIds' -> Escrow]
    BY StatusTyped DEF Disputes, EscrowStatus
<1> QED
    BY <1>1 DEF TypeOK, Disputes, Registry!TypeOK, Registry!CollateralIds, Adapter!TypeOK,
                setupVars, regVars, orcVars

\* A step that does not touch an escrow or the registry.
Elsewhere == UNCHANGED <<escrow, next_id, regVars>>

LEMMA ElsewhereTyped ==
    ASSUME TypeOK, SetupStep \/ OracleStep \/ Tick \/ UNCHANGED vars
    PROVE  TypeOK' /\ Elsewhere
<1> USE DEF Registry!TypeOK, Registry!CollateralIds, EscrowIds, managerVars, setupVars,
            regVars, orcVars, Elsewhere
<1>1. CASE SetupStep
  <2>1. ASSUME NEW t \in Treasuries, set_treasury(t)
        PROVE  TypeOK' /\ Elsewhere
      BY <2>1 DEF set_treasury, TypeOK, Adapter!TypeOK
  <2>2. ASSUME NEW a \in Managers, propose_admin(a)
        PROVE  TypeOK' /\ Elsewhere
      BY <2>2 DEF propose_admin, TypeOK, Adapter!TypeOK
  <2>3. CASE accept_admin
      BY <2>3 DEF accept_admin, TypeOK, Adapter!TypeOK
  <2>4. ASSUME NEW r \in Rates, set_test_exchange_rate(r)
        PROVE  TypeOK' /\ Elsewhere
      BY <2>4, ManagerAssumption DEF set_test_exchange_rate, TypeOK, Adapter!TypeOK
  <2> QED
      BY <1>1, <2>1, <2>2, <2>3, <2>4 DEF SetupStep
<1>2. CASE OracleStep
  <2>1. Adapter!TypeOK'
      BY <1>2, AdapterTyped DEF OracleStep, TypeOK
  <2> QED
      BY <1>2, <2>1 DEF OracleStep, TypeOK
<1>3. CASE Tick
    BY <1>3 DEF Tick, TypeOK, Adapter!TypeOK
<1>4. CASE UNCHANGED vars
    BY <1>4 DEF vars, TypeOK, Adapter!TypeOK
<1> QED
    BY <1>1, <1>2, <1>3, <1>4

\* A call of an owner on the registry alone.
LEMMA OwnerTyped ==
    ASSUME TypeOK, OwnerStep \/ DirectLockStep
    PROVE  TypeOK' /\ UNCHANGED <<escrow, next_id>>
<1>1. UNCHANGED <<escrow, next_id, admin, pend_adm, treasury, test_rate, bal, fees, now,
                  oracles, orcAdmin, orcPending, confirmation, confirming>>
    BY DEF OwnerStep, DirectLockStep, managerVars, setupVars, orcVars
<1>2. Registry!TypeOK'
    BY ManagerAssumption, RegisterTyped, MoveTyped, LockTyped, UnlockTyped
       DEF TypeOK, OwnerStep, DirectLockStep
<1> QED
    BY <1>1, <1>2 DEF TypeOK, Adapter!TypeOK, EscrowIds

\* The kinds of steps, as the proofs below tell them apart.
LEMMA StepKinds ==
    ASSUME [Next]_vars
    PROVE  \/ \E c \in Configs : create_escrow(c)
           \/ \E id \in EscrowIds : Disputes(id)
           \/ \E id \in EscrowIds : IsOpen(id) /\ (settle_release(id) \/ settle_refund(id))
           \/ OwnerStep
           \/ DirectLockStep
           \/ SetupStep \/ OracleStep \/ Tick \/ UNCHANGED vars
<1>1. ASSUME NEW id \in EscrowIds, EscrowStep(id)
      PROVE  Disputes(id) \/ (IsOpen(id) /\ (settle_release(id) \/ settle_refund(id)))
    BY <1>1 DEF EscrowStep, release_funds_on_confirmation, refund_escrow, RequireActive,
                raise_dispute, dispute_escrow, resolve_dispute, Disputes, IsOpen, Open
<1> QED
    BY <1>1 DEF Next

LEMMA TypeInit == Init => TypeOK
<1> SUFFICES ASSUME Init PROVE TypeOK
    OBVIOUS
<1>1. Registry!TypeOK /\ Adapter!TypeOK
    BY ManagerAssumption DEF Init, Registry!Init, Registry!TypeOK, Registry!CollateralIds,
       Adapter!Init, Adapter!TypeOK
<1>2. bal \in [Assets -> [Accounts -> Nat]] /\ fees \in [Treasuries -> [Assets -> Nat]]
    BY ManagerAssumption DEF Init
<1> QED
    BY <1>1, <1>2, ManagerAssumption DEF Init, TypeOK, EscrowIds, UNIT

LEMMA TypeStep == TypeOK /\ [Next]_vars => TypeOK'
    BY StepKinds, CreateTyped, DisputeTyped, ReleaseSettles, RefundSettles, OwnerTyped,
       ElsewhereTyped

\* Every reachable state is well formed: no balance or recorded fee is ever
\* negative, every stored escrow has a positive amount and a valid
\* configuration, and ids run from 1 without gaps.
THEOREM TypeCorrect == Spec => []TypeOK
    BY TypeInit, TypeStep, PTL DEF Spec

----------------------------------------------------------------------------
(* A settled escrow is final *)

\* No step changes the terms of an escrow, and none changes the status of one
\* that was released or refunded.
THEOREM SettledStaysSettled == Spec => SettledIsFinal
<1> DEFINE Final == \A id \in EscrowIds :
                      /\ escrow'[id].config = escrow[id].config
                      /\ ~IsOpen(id) => escrow'[id].status = escrow[id].status
<1>1. TypeOK /\ [Next]_vars => Final
  <2> SUFFICES ASSUME TypeOK, [Next]_vars
               PROVE  Final
      OBVIOUS
  <2>1. ASSUME NEW id \in EscrowIds, NEW st \in EscrowStatus, IsOpen(id),
               escrow' = [escrow EXCEPT ![id].status = st], next_id' = next_id
        PROVE  Final
      BY <2>1, StatusTyped
  <2>2. ASSUME NEW c \in Configs, create_escrow(c)
        PROVE  Final
      BY <2>2, CreateTyped
  <2>3. ASSUME NEW id \in EscrowIds, Disputes(id)
        PROVE  Final
      BY <2>1, <2>3 DEF Disputes, IsOpen, Open, EscrowStatus
  <2>4. ASSUME NEW id \in EscrowIds, IsOpen(id), settle_release(id) \/ settle_refund(id)
        PROVE  Final
      BY <2>1, <2>4, ReleaseSettles, RefundSettles DEF Settles, EscrowStatus
  <2>5. CASE OwnerStep \/ DirectLockStep \/ SetupStep \/ OracleStep \/ Tick \/ UNCHANGED vars
      BY <2>5, OwnerTyped, ElsewhereTyped DEF Elsewhere
  <2> QED
      BY <2>2, <2>3, <2>4, <2>5, StepKinds
<1> QED
    BY <1>1, TypeCorrect, PTL DEF Spec, SettledIsFinal

----------------------------------------------------------------------------
(* Locks.  Neither half of the argument stands alone: a settlement unlocks a  *)
(* collateral, which is right only if no other open escrow rests on it, and   *)
(* an escrow is created on an unlocked collateral, which no open escrow can   *)
(* rest on only because open escrows keep theirs locked.                      *)

LockInv == TypeOK /\ LocksMatchEscrows /\ CollateralSingleUse

\* A step that leaves open escrows open and settled ones settled, and that keeps
\* which collaterals exist and are locked, keeps the invariant.
LEMMA SameLocks ==
    ASSUME LockInv, TypeOK', next_id' = next_id,
           \A id \in EscrowIds :
             /\ escrow'[id].config = escrow[id].config
             /\ escrow'[id].status \in Open <=> escrow[id].status \in Open,
           Registry!CollateralIds \subseteq Registry!CollateralIds',
           \A i \in Registry!CollateralIds : collateral'[i].locked = collateral[i].locked,
           \A i \in Registry!CollateralIds' \ Registry!CollateralIds : ~collateral'[i].locked
    PROVE  LockInv'
<1>1. EscrowIds' = EscrowIds
    BY DEF EscrowIds
<1>2. LocksMatchEscrows'
  <2>1. ASSUME NEW id \in EscrowIds, escrow'[id].status \in Open
        PROVE  /\ escrow'[id].config.collateral_id \in Registry!CollateralIds'
               /\ collateral'[escrow'[id].config.collateral_id].locked
      BY <2>1 DEF LockInv, LocksMatchEscrows, IsOpen
  <2>2. ASSUME NEW i \in Registry!CollateralIds', collateral'[i].locked
        PROVE  \E id \in EscrowIds : /\ escrow'[id].status \in Open
                                     /\ escrow'[id].config.collateral_id = i
      BY <2>2 DEF LockInv, LocksMatchEscrows, IsOpen
  <2> QED
      BY <1>1, <2>1, <2>2 DEF LocksMatchEscrows, IsOpen
<1>3. CollateralSingleUse'
    BY <1>1 DEF LockInv, CollateralSingleUse, IsOpen
<1> QED
    BY <1>2, <1>3 DEF LockInv

\* A new escrow locks a collateral that no open escrow rests on.
LEMMA CreateLocks ==
    ASSUME LockInv, NEW c \in Configs, create_escrow(c)
    PROVE  LockInv'
<1> DEFINE k == c.collateral_id
<1>0. escrow'[next_id] = [config |-> c, status |-> "Active"]
    BY CreateTyped DEF LockInv
<1>1. /\ TypeOK'
      /\ EscrowIds' = EscrowIds \cup {next_id} /\ next_id \notin EscrowIds
      /\ escrow'[next_id].config = c /\ escrow'[next_id].status \in Open
      /\ \A id \in EscrowIds : escrow'[id] = escrow[id]
  <2>1. escrow'[next_id].config = c /\ escrow'[next_id].status \in Open
      BY <1>0 DEF Open
  <2> QED
      BY <2>1, CreateTyped DEF LockInv
<1>2. /\ k \in Registry!CollateralIds
      /\ Registry!CollateralIds' = Registry!CollateralIds
      /\ ~collateral[k].locked /\ collateral'[k].locked
      /\ \A i \in Registry!CollateralIds \ {k} : collateral'[i] = collateral[i]
    BY CreateTyped, LockTyped DEF LockInv, TypeOK
<1> HIDE DEF k
<1>3. \A id \in EscrowIds : escrow[id].status \in Open => escrow[id].config.collateral_id # k
    BY <1>2 DEF LockInv, LocksMatchEscrows, IsOpen
<1>4. c.collateral_id = k
    BY DEF k
<1>5. LocksMatchEscrows'
  <2>1. ASSUME NEW id \in EscrowIds', escrow'[id].status \in Open
        PROVE  /\ escrow'[id].config.collateral_id \in Registry!CollateralIds'
               /\ collateral'[escrow'[id].config.collateral_id].locked
      BY <1>1, <1>2, <1>3, <1>4, <2>1 DEF LockInv, LocksMatchEscrows, IsOpen
  <2>2. ASSUME NEW i \in Registry!CollateralIds', collateral'[i].locked
        PROVE  \E id \in EscrowIds' : /\ escrow'[id].status \in Open
                                      /\ escrow'[id].config.collateral_id = i
    <3>1. CASE i = k
        BY <1>1, <1>4, <3>1
    <3>2. CASE i # k
        BY <1>1, <1>2, <2>2, <3>2 DEF LockInv, LocksMatchEscrows, IsOpen
    <3> QED
        BY <3>1, <3>2
  <2> QED
      BY <2>1, <2>2 DEF LocksMatchEscrows, IsOpen
<1>6. CollateralSingleUse'
    BY <1>1, <1>3, <1>4 DEF LockInv, CollateralSingleUse, IsOpen
<1> QED
    BY <1>1, <1>5, <1>6 DEF LockInv

\* A settlement frees the collateral of the one escrow it settles.
LEMMA SettleLocks ==
    ASSUME LockInv, TypeOK', NEW id \in EscrowIds, IsOpen(id),
           NEW st \in EscrowStatus \ Open, Settles(id, st)
    PROVE  LockInv'
<1> DEFINE k == escrow[id].config.collateral_id
<1>1. /\ EscrowIds' = EscrowIds
      /\ escrow'[id].status \notin Open
      /\ \A j \in EscrowIds : escrow'[j].config = escrow[j].config
      /\ \A j \in EscrowIds \ {id} : escrow'[j] = escrow[j]
    BY StatusTyped DEF Settles, LockInv
<1>2. /\ k \in Registry!CollateralIds
      /\ Registry!CollateralIds' = Registry!CollateralIds
      /\ ~collateral'[k].locked
      /\ \A i \in Registry!CollateralIds \ {k} : collateral'[i] = collateral[i]
    BY UnlockTyped DEF Settles, LockInv, TypeOK
<1>3. \A j \in EscrowIds \ {id} :
        escrow[j].status \in Open => escrow[j].config.collateral_id # k
    BY DEF LockInv, CollateralSingleUse, IsOpen
<1>4. LocksMatchEscrows'
  <2>1. ASSUME NEW j \in EscrowIds, escrow'[j].status \in Open
        PROVE  /\ escrow'[j].config.collateral_id \in Registry!CollateralIds
               /\ collateral'[escrow'[j].config.collateral_id].locked
      BY <1>1, <1>2, <1>3, <2>1 DEF LockInv, LocksMatchEscrows, IsOpen
  <2>2. ASSUME NEW i \in Registry!CollateralIds, collateral'[i].locked
        PROVE  \E j \in EscrowIds : /\ escrow'[j].status \in Open
                                    /\ escrow'[j].config.collateral_id = i
    <3>1. i # k /\ collateral[i].locked
        BY <1>2, <2>2
    <3>2. PICK j \in EscrowIds : escrow[j].status \in Open /\ escrow[j].config.collateral_id = i
        BY <3>1 DEF LockInv, LocksMatchEscrows, IsOpen
    <3> QED
        BY <1>1, <3>1, <3>2
  <2> QED
      BY <1>1, <1>2, <2>1, <2>2 DEF LocksMatchEscrows, IsOpen
<1>5. CollateralSingleUse'
    BY <1>1 DEF LockInv, CollateralSingleUse, IsOpen
<1> QED
    BY <1>4, <1>5 DEF LockInv

LEMMA LockStep == ~DirectLocking /\ LockInv /\ [Next]_vars => LockInv'
<1> SUFFICES ASSUME ~DirectLocking, LockInv, [Next]_vars
             PROVE  LockInv'
    OBVIOUS
<1>0. TypeOK /\ TypeOK'
    BY TypeStep DEF LockInv
<1>1. ASSUME NEW c \in Configs, create_escrow(c)
      PROVE  LockInv'
    BY <1>1, CreateLocks
<1>2. ASSUME NEW id \in EscrowIds, Disputes(id)
      PROVE  LockInv'
  <2>1. /\ next_id' = next_id /\ collateral' = collateral
        /\ Registry!CollateralIds' = Registry!CollateralIds
        /\ escrow[id].status = "Active"
        /\ escrow' = [escrow EXCEPT ![id].status = "Disputed"]
      BY <1>2 DEF Disputes, regVars, Registry!CollateralIds
  <2>2. \A j \in EscrowIds : /\ escrow'[j].config = escrow[j].config
                             /\ escrow'[j].status \in Open <=> escrow[j].status \in Open
      BY <1>0, <2>1, StatusTyped DEF Open, EscrowStatus
  <2> QED
      BY <1>0, <2>1, <2>2, SameLocks
<1>3. ASSUME NEW id \in EscrowIds, IsOpen(id), settle_release(id) \/ settle_refund(id)
      PROVE  LockInv'
    BY <1>0, <1>3, ReleaseSettles, RefundSettles, SettleLocks DEF EscrowStatus, Open
<1>4. CASE OwnerStep
  <2>1. escrow' = escrow /\ next_id' = next_id
      BY <1>0, <1>4, OwnerTyped
  <2>2. /\ Registry!CollateralIds \subseteq Registry!CollateralIds'
        /\ \A i \in Registry!CollateralIds : collateral'[i].locked = collateral[i].locked
        /\ \A i \in Registry!CollateralIds' \ Registry!CollateralIds : ~collateral'[i].locked
      BY <1>0, <1>4, RegisterTyped, MoveTyped DEF OwnerStep, TypeOK
  <2> QED
      BY <1>0, <2>1, <2>2, SameLocks
<1>5. ~DirectLockStep
    BY DEF DirectLockStep
<1>6. CASE SetupStep \/ OracleStep \/ Tick \/ UNCHANGED vars
  <2>1. /\ escrow' = escrow /\ next_id' = next_id /\ collateral' = collateral
        /\ Registry!CollateralIds' = Registry!CollateralIds
      BY <1>0, <1>6, ElsewhereTyped DEF Elsewhere, regVars, Registry!CollateralIds
  <2> QED
      BY <1>0, <2>1, SameLocks
<1> QED
    BY <1>1, <1>2, <1>3, <1>4, <1>5, <1>6, StepKinds

\* As long as owners leave locking to the escrow manager, a collateral is locked
\* exactly while one open escrow rests on it, and never two escrows rest on one
\* collateral.  The premise is needed: unlock_collateral asks for no more than the
\* owner's signature, and an owner that unlocks breaks both parts.
THEOREM LocksCorrect ==
    ASSUME ~DirectLocking
    PROVE  Spec => []LocksOneToOne
<1>1. Init => LockInv
  <2> SUFFICES ASSUME Init PROVE LockInv
      OBVIOUS
  <2>1. TypeOK
      BY TypeInit
  <2>2. EscrowIds = {} /\ Registry!CollateralIds = {}
      BY DEF Init, EscrowIds, Registry!Init, Registry!CollateralIds
  <2> QED
      BY <2>1, <2>2 DEF LockInv, LocksMatchEscrows, CollateralSingleUse
<1>2. LockInv /\ [Next]_vars => LockInv'
    BY LockStep
<1>3. LockInv => LocksOneToOne
    BY DEF LockInv, LocksOneToOne
<1> QED
    BY <1>1, <1>2, <1>3, PTL DEF Spec

----------------------------------------------------------------------------
(* The contracts implement EscrowLifecycle *)

\* A step that changes the status of one escrow as EscrowLifecycle allows is a
\* step of EscrowLifecycle.
LEMMA Advances ==
    ASSUME NEW id \in AllEscrowIds, NEW to \in Lifecycle!Stages,
           Lifecycle!Succeeds(life[id], to), life'[id] = to,
           \A j \in AllEscrowIds \ {id} : life'[j] = life[j]
    PROVE  Lifecycle!LifeNext
<1>1. life' = [life EXCEPT ![id] = to]
    BY DEF life
<1> QED
    BY <1>1 DEF Lifecycle!LifeNext, Lifecycle!Advance

LEMMA LifeStep == TypeOK /\ [Next]_vars => [Lifecycle!LifeNext]_life
<1> SUFFICES ASSUME TypeOK, [Next]_vars
             PROVE  Lifecycle!LifeNext \/ life' = life
    OBVIOUS
<1>0. TypeOK'
    BY TypeStep
<1>1. ASSUME NEW c \in Configs, create_escrow(c)
      PROVE  Lifecycle!LifeNext
  <2>1. /\ EscrowIds' = EscrowIds \cup {next_id}
        /\ next_id \notin EscrowIds
        /\ escrow'[next_id] = [config |-> c, status |-> "Active"]
        /\ \A id \in EscrowIds : escrow'[id] = escrow[id]
      BY <1>1, CreateTyped
  <2>2. next_id \in AllEscrowIds
      BY <1>1, ManagerAssumption DEF create_escrow, AllEscrowIds, TypeOK
  <2>3. life[next_id] = "none" /\ life'[next_id] = "Active"
      BY <2>1, <2>2 DEF life
  <2>4. \A j \in AllEscrowIds \ {next_id} : life'[j] = life[j]
      BY <2>1 DEF life
  <2> QED
      BY <2>2, <2>3, <2>4, Advances DEF Lifecycle!Succeeds, Lifecycle!Stages
<1>2. ASSUME NEW id \in EscrowIds, NEW st \in EscrowStatus,
             escrow' = [escrow EXCEPT ![id].status = st], next_id' = next_id,
             Lifecycle!Succeeds(escrow[id].status, st)
      PROVE  Lifecycle!LifeNext \/ life' = life
  <2>1. /\ EscrowIds' = EscrowIds
        /\ escrow'[id].status = st
        /\ \A j \in EscrowIds \ {id} : escrow'[j] = escrow[j]
      BY <1>2, StatusTyped
  <2>2. \A j \in AllEscrowIds \ {id} : life'[j] = life[j]
      BY <2>1 DEF life
  <2>3. CASE id \in AllEscrowIds
    <3>1. life[id] = escrow[id].status /\ life'[id] = st
        BY <2>1, <2>3 DEF life
    <3> QED
        BY <1>2, <2>2, <2>3, <3>1, Advances DEF Lifecycle!Stages, EscrowStatus
  <2>4. CASE id \notin AllEscrowIds
      BY <2>1, <2>4 DEF life
  <2> QED
      BY <2>3, <2>4
<1>3. ASSUME NEW id \in EscrowIds, Disputes(id)
      PROVE  Lifecycle!LifeNext \/ life' = life
    BY <1>2, <1>3 DEF Disputes, Lifecycle!Succeeds, Lifecycle!Settled, EscrowStatus
<1>4. ASSUME NEW id \in EscrowIds, IsOpen(id), settle_release(id) \/ settle_refund(id)
      PROVE  Lifecycle!LifeNext \/ life' = life
  <2>1. PICK st \in {"Released", "Refunded"} : Settles(id, st)
      BY <1>4, ReleaseSettles, RefundSettles
  <2> QED
      BY <1>2, <1>4, <2>1 DEF Settles, IsOpen, Open, Lifecycle!Succeeds, Lifecycle!Settled,
                              EscrowStatus
<1>5. CASE OwnerStep \/ DirectLockStep \/ SetupStep \/ OracleStep \/ Tick \/ UNCHANGED vars
  <2>1. escrow' = escrow /\ next_id' = next_id
      BY <1>5, OwnerTyped, ElsewhereTyped DEF Elsewhere
  <2> QED
      BY <2>1 DEF life, EscrowIds
<1> QED
    BY <1>1, <1>3, <1>4, <1>5, StepKinds

\* However the three contracts are called, and with whatever wiring, treasuries,
\* rates and signatures, they implement the life cycle the server's mirror relies
\* on: every step changes nothing in it or takes one escrow one stage further.
THEOREM LifecycleRefined == Spec => ImplementsLifecycle
<1>1. Init => Lifecycle!LifeInit
  <2> SUFFICES ASSUME Init PROVE Lifecycle!LifeInit
      OBVIOUS
  <2>1. EscrowIds = {}
      BY DEF Init, EscrowIds
  <2> QED
      BY <2>1 DEF Lifecycle!LifeInit, life
<1>2. TypeOK /\ [Next]_vars => [Lifecycle!LifeNext]_life
    BY LifeStep
<1> QED
    BY <1>1, <1>2, TypeCorrect, PTL DEF Spec, ImplementsLifecycle, Lifecycle!LifeSpec

----------------------------------------------------------------------------
(* Money.  Each settlement takes one escrow out of the open ones and pays its *)
(* amount, so the sums on both sides of LedgerReconciles move together.       *)

\* A transfer moves the amount between two accounts of one asset.
LEMMA TransferMoves ==
    ASSUME NEW asset \in Assets, NEW from \in Accounts, NEW to \in Accounts, from # to,
           NEW amount \in Int, BalType, transfer(asset, from, to, amount)
    PROVE  /\ bal'[asset][from] = bal[asset][from] - amount
           /\ bal'[asset][to] = bal[asset][to] + amount
           /\ \A p \in Accounts \ {from, to} : bal'[asset][p] = bal[asset][p]
           /\ \A a \in Assets \ {asset} : bal'[a] = bal[a]
<1> DEFINE less == [bal[asset] EXCEPT ![from] = bal[asset][from] - amount]
           more == [less EXCEPT ![to] = less[to] + amount]
<1>1. bal' = [bal EXCEPT ![asset] = more]
    BY DEF transfer
<1>2. DOMAIN bal = Assets /\ DOMAIN bal[asset] = Accounts
    BY DEF BalType
<1>3. /\ more[from] = bal[asset][from] - amount
      /\ more[to] = bal[asset][to] + amount
      /\ \A p \in Accounts \ {from, to} : more[p] = bal[asset][p]
    BY <1>2
<1> HIDE DEF more
<1> QED
    BY <1>1, <1>2, <1>3

\* Sums over stored escrows are sums of integers, and do not change as long as
\* no terms do.
LEMMA StoredSums ==
    ASSUME TypeOK, NEW S \in SUBSET EscrowIds
    PROVE  /\ IsFiniteSet(S)
           /\ \A id \in S : Amounts[id] = escrow[id].config.amount /\ Amounts[id] \in Int
           /\ Total(S) \in Int
           /\ \A id \in S : Total(S) = escrow[id].config.amount + Total(S \ {id})
<1>1. IsFiniteSet(S)
  <2>1. IsFiniteSet(EscrowIds)
      BY FS_Interval DEF EscrowIds, TypeOK
  <2> QED
      BY <2>1, FS_Subset
<1>2. \A id \in S : Amounts[id] = escrow[id].config.amount /\ Amounts[id] \in Int
    BY StoredConfig DEF Amounts, EscrowConfig
<1>3. SumFunctionOnSet(Amounts, S) \in Int
    BY <1>1, <1>2, SumInt
<1>4. \A id \in S : SumFunctionOnSet(Amounts, S)
                      = Amounts[id] + SumFunctionOnSet(Amounts, S \ {id})
    BY <1>1, <1>2, SumTakeOut
<1> QED
    BY <1>1, <1>2, <1>3, <1>4 DEF Total

LEMMA SameSums ==
    ASSUME TypeOK, NEW S \in SUBSET EscrowIds, EscrowIds \subseteq EscrowIds',
           \A id \in EscrowIds : escrow'[id].config = escrow[id].config
    PROVE  SumFunctionOnSet(Amounts', S) = Total(S)
<1>1. \A id \in S : Amounts'[id] = Amounts[id]
    BY DEF Amounts
<1>2. IsFiniteSet(S)
    BY StoredSums
<1>3. SumFunctionOnSet(Amounts', S) = SumFunctionOnSet(Amounts, S)
    BY <1>1, <1>2, SumSame
<1> QED
    BY <1>3 DEF Total

\* What the ledger says for one asset.
Reconciles(a) ==
    /\ bal[a][Contract] = Total(Of(a, Open))
    /\ \A p \in Parties :
         bal[a][p] + Total(LentBy(a, p))
           = InitialBalance[a][p] + Total(ReleasedTo(a, p)) + Total(RefundedTo(a, p))

\* An asset of which no balance and no escrow changes.
LEMMA UntouchedReconciles ==
    ASSUME TypeOK, NEW a \in Assets, Reconciles(a), bal'[a] = bal[a],
           EscrowIds \subseteq EscrowIds',
           \A id \in EscrowIds : escrow'[id].config = escrow[id].config,
           \A id \in EscrowIds : escrow[id].config.asset = a =>
             /\ escrow'[id].status \in EscrowStatus
             /\ escrow[id].status \in EscrowStatus
             /\ escrow'[id].status \in Open <=> escrow[id].status \in Open
             /\ escrow'[id].status = "Released" <=> escrow[id].status = "Released"
             /\ escrow'[id].status = "Refunded" <=> escrow[id].status = "Refunded",
           \A id \in EscrowIds' \ EscrowIds : escrow'[id].config.asset # a
    PROVE  Reconciles(a)'
<1>1. Of(a, Open)' = Of(a, Open) /\ Of(a, Open) \in SUBSET EscrowIds
    BY DEF Of
<1>2. ASSUME NEW p \in Parties
      PROVE  /\ LentBy(a, p)' = LentBy(a, p) /\ LentBy(a, p) \in SUBSET EscrowIds
             /\ ReleasedTo(a, p)' = ReleasedTo(a, p) /\ ReleasedTo(a, p) \in SUBSET EscrowIds
             /\ RefundedTo(a, p)' = RefundedTo(a, p) /\ RefundedTo(a, p) \in SUBSET EscrowIds
    BY DEF Of, LentBy, ReleasedTo, RefundedTo
<1>3. Total(Of(a, Open))' = Total(Of(a, Open))
    BY <1>1, SameSums DEF Total
<1>4. ASSUME NEW p \in Parties
      PROVE  /\ Total(LentBy(a, p))' = Total(LentBy(a, p))
             /\ Total(ReleasedTo(a, p))' = Total(ReleasedTo(a, p))
             /\ Total(RefundedTo(a, p))' = Total(RefundedTo(a, p))
    BY <1>2, SameSums DEF Total
<1> QED
    BY <1>3, <1>4 DEF Reconciles

\* A settlement, of an escrow that pays out in the asset it was funded in, pays
\* the escrow's amount to the seller or to the buyer.
Pays(id, to) ==
    LET c == escrow[id].config
    IN /\ to \in Parties
       /\ transfer(c.asset, Contract, to, c.amount)

LEMMA SettleReconciles ==
    ASSUME TypeOK, NEW a \in Assets, Reconciles(a), NEW id \in EscrowIds, IsOpen(id),
           NEW st \in {"Released", "Refunded"}, Settles(id, st), escrow[id].config.asset = a,
           Pays(id, IF st = "Released" THEN escrow[id].config.seller
                                       ELSE escrow[id].config.buyer)
    PROVE  Reconciles(a)'
<1> DEFINE c == escrow[id].config
           to == IF st = "Released" THEN c.seller ELSE c.buyer
           amount == c.amount
<1>1. /\ EscrowIds' = EscrowIds
      /\ escrow'[id].status = st
      /\ \A j \in EscrowIds : escrow'[j].config = escrow[j].config
      /\ \A j \in EscrowIds \ {id} : escrow'[j] = escrow[j]
    BY StatusTyped DEF Settles, EscrowStatus
<1>2. c.asset = a /\ escrow[id].status \in Open /\ amount \in Int /\ to \in Parties
    BY StoredConfig DEF Pays, EscrowConfig, IsOpen
<1>3. /\ bal'[a][Contract] = bal[a][Contract] - amount
      /\ bal'[a][to] = bal[a][to] + amount
      /\ \A p \in Parties \ {to} : bal'[a][p] = bal[a][p]
  <2>1. /\ Contract \in Accounts /\ to \in Accounts /\ to # Contract
        /\ transfer(a, Contract, to, amount)
        /\ BalType
        /\ \A p \in Parties : p \in Accounts /\ p # Contract
      BY <1>2, ManagerAssumption DEF Pays, Accounts, TypeOK, BalType
  <2> HIDE DEF to, amount
  <2> QED
      BY <1>2, <2>1, TransferMoves
<1>4. \A p \in Parties : bal[a][p] \in Int
    BY DEF TypeOK, Accounts
<1>5. bal[a][Contract] \in Int
    BY DEF TypeOK, Accounts
<1> HIDE DEF to, amount, c
<1>6. bal'[a][Contract] = Total(Of(a, Open))'
  <2>1. Of(a, Open)' = Of(a, Open) \ {id} /\ id \in Of(a, Open)
      BY <1>1, <1>2 DEF Of, Open, c
  <2>2. Of(a, Open) \in SUBSET EscrowIds
      BY DEF Of
  <2>3. Total(Of(a, Open)) = amount + Total(Of(a, Open) \ {id})
      BY <2>1, <2>2, StoredSums DEF amount, c
  <2>4. Total(Of(a, Open) \ {id}) \in Int
      BY <2>2, StoredSums
  <2>5. Total(Of(a, Open))' = Total(Of(a, Open) \ {id})
      BY <1>1, <2>1, <2>2, SameSums DEF Total
  <2> QED
      BY <1>2, <1>3, <1>5, <2>3, <2>4, <2>5 DEF Reconciles
<1>7. ASSUME NEW p \in Parties
      PROVE  bal'[a][p] + Total(LentBy(a, p))'
               = InitialBalance[a][p] + Total(ReleasedTo(a, p))' + Total(RefundedTo(a, p))'
  <2>1. /\ LentBy(a, p) \in SUBSET EscrowIds
        /\ ReleasedTo(a, p) \in SUBSET EscrowIds
        /\ RefundedTo(a, p) \in SUBSET EscrowIds
      BY DEF Of, LentBy, ReleasedTo, RefundedTo
  <2>2. LentBy(a, p)' = LentBy(a, p)
      BY <1>1, <1>2 DEF Of, LentBy, Open, EscrowStatus
  <2>3. Total(LentBy(a, p))' = Total(LentBy(a, p))
      BY <1>1, <2>1, <2>2, SameSums DEF Total
  <2>4. /\ Total(LentBy(a, p)) \in Int /\ Total(ReleasedTo(a, p)) \in Int
        /\ Total(RefundedTo(a, p)) \in Int /\ InitialBalance[a][p] \in Int
      BY <2>1, StoredSums, ManagerAssumption
  <2>5. Total(ReleasedTo(a, p))'
          = Total(ReleasedTo(a, p)) + (IF st = "Released" /\ p = to THEN amount ELSE 0)
    <3>1. CASE st = "Released" /\ p = to
      <4>1. /\ id \in ReleasedTo(a, p)' /\ ReleasedTo(a, p)' \in SUBSET EscrowIds
            /\ ReleasedTo(a, p)' \ {id} = ReleasedTo(a, p)
          BY <1>1, <1>2, <3>1 DEF Of, ReleasedTo, Open, c, to
      <4> DEFINE T == ReleasedTo(a, p)'
      <4>2. Total(T) = amount + Total(T \ {id})
          BY <4>1, StoredSums DEF amount, c
      <4>3. SumFunctionOnSet(Amounts', T) = Total(T)
          BY <1>1, <4>1, SameSums
      <4>4. Total(T) = amount + Total(ReleasedTo(a, p))
          BY <4>1, <4>2
      <4>5. Total(ReleasedTo(a, p))' = Total(T)
          BY <4>3 DEF Total
      <4> QED
          BY <1>2, <2>4, <3>1, <4>4, <4>5
    <3>2. CASE ~(st = "Released" /\ p = to)
      <4>1. ReleasedTo(a, p)' = ReleasedTo(a, p)
          BY <1>1, <1>2, <3>2 DEF Of, ReleasedTo, Open, c, to
      <4> QED
          BY <1>1, <2>1, <2>4, <3>2, <4>1, SameSums DEF Total
    <3> QED
        BY <3>1, <3>2
  <2>6. Total(RefundedTo(a, p))'
          = Total(RefundedTo(a, p)) + (IF st = "Refunded" /\ p = to THEN amount ELSE 0)
    <3>1. CASE st = "Refunded" /\ p = to
      <4>1. /\ id \in RefundedTo(a, p)' /\ RefundedTo(a, p)' \in SUBSET EscrowIds
            /\ RefundedTo(a, p)' \ {id} = RefundedTo(a, p)
          BY <1>1, <1>2, <3>1 DEF Of, RefundedTo, Open, c, to
      <4> DEFINE T == RefundedTo(a, p)'
      <4>2. Total(T) = amount + Total(T \ {id})
          BY <4>1, StoredSums DEF amount, c
      <4>3. SumFunctionOnSet(Amounts', T) = Total(T)
          BY <1>1, <4>1, SameSums
      <4>4. Total(T) = amount + Total(RefundedTo(a, p))
          BY <4>1, <4>2
      <4>5. Total(RefundedTo(a, p))' = Total(T)
          BY <4>3 DEF Total
      <4> QED
          BY <1>2, <2>4, <3>1, <4>4, <4>5
    <3>2. CASE ~(st = "Refunded" /\ p = to)
      <4>1. RefundedTo(a, p)' = RefundedTo(a, p)
          BY <1>1, <1>2, <3>2 DEF Of, RefundedTo, Open, c, to
      <4> QED
          BY <1>1, <2>1, <2>4, <3>2, <4>1, SameSums DEF Total
    <3> QED
        BY <3>1, <3>2
  <2>7. bal'[a][p] = bal[a][p] + (IF p = to THEN amount ELSE 0)
      BY <1>2, <1>3, <1>4
  <2>8. bal[a][p] + Total(LentBy(a, p))
          = InitialBalance[a][p] + Total(ReleasedTo(a, p)) + Total(RefundedTo(a, p))
      BY DEF Reconciles
  <2>9. CASE p = to
    <3>1. CASE st = "Released"
      <4>1. /\ Total(ReleasedTo(a, p))' = Total(ReleasedTo(a, p)) + amount
            /\ Total(RefundedTo(a, p))' = Total(RefundedTo(a, p)) + 0
            /\ bal'[a][p] = bal[a][p] + amount
          BY <2>5, <2>6, <2>7, <2>9, <3>1
      <4> QED
          BY <1>2, <1>4, <2>3, <2>4, <2>8, <4>1
    <3>2. CASE st = "Refunded"
      <4>1. /\ Total(ReleasedTo(a, p))' = Total(ReleasedTo(a, p)) + 0
            /\ Total(RefundedTo(a, p))' = Total(RefundedTo(a, p)) + amount
            /\ bal'[a][p] = bal[a][p] + amount
          BY <2>5, <2>6, <2>7, <2>9, <3>2
      <4> QED
          BY <1>2, <1>4, <2>3, <2>4, <2>8, <4>1
    <3> QED
        BY <3>1, <3>2
  <2>10. CASE p # to
      BY <1>4, <2>3, <2>4, <2>5, <2>6, <2>7, <2>8, <2>10
  <2> QED
      BY <2>9, <2>10
<1> QED
    BY <1>6, <1>7 DEF Reconciles

\* A new escrow moves its amount from the lender to the contract.
LEMMA CreateReconciles ==
    ASSUME TypeOK, NEW c \in Configs, create_escrow(c), NEW a \in Assets, Reconciles(a),
           c.asset = a
    PROVE  Reconciles(a)'
<1> DEFINE amount == c.amount
           new == next_id
<1>1. /\ EscrowIds' = EscrowIds \cup {new} /\ new \notin EscrowIds
      /\ escrow'[new].config = c /\ escrow'[new].status = "Active"
      /\ \A id \in EscrowIds : escrow'[id] = escrow[id]
      /\ TypeOK'
  <2>1. escrow'[new] = [config |-> c, status |-> "Active"]
      BY CreateTyped
  <2>2. escrow'[new].config = c /\ escrow'[new].status = "Active"
      BY <2>1
  <2> QED
      BY <2>2, CreateTyped
<1>2. amount \in Int /\ c.lender \in Parties
    BY ManagerAssumption DEF EscrowConfig
<1>3. /\ bal'[a][Contract] = bal[a][Contract] + amount
      /\ bal'[a][c.lender] = bal[a][c.lender] - amount
      /\ \A p \in Parties \ {c.lender} : bal'[a][p] = bal[a][p]
  <2>1. /\ Contract \in Accounts /\ c.lender \in Accounts /\ c.lender # Contract
        /\ transfer(a, c.lender, Contract, amount)
        /\ BalType
        /\ \A p \in Parties : p \in Accounts /\ p # Contract
      BY <1>2, ManagerAssumption DEF create_escrow, Accounts, TypeOK, BalType
  <2> HIDE DEF amount
  <2> QED
      BY <1>2, <2>1, TransferMoves
<1>4. bal[a][Contract] \in Int /\ \A p \in Parties : bal[a][p] \in Int
    BY DEF TypeOK, Accounts
\* Sums with the new escrow, and without it.
<1>5. ASSUME NEW S \in SUBSET EscrowIds
      PROVE  /\ SumFunctionOnSet(Amounts', S) = Total(S)
             /\ SumFunctionOnSet(Amounts', S \cup {new}) = amount + Total(S)
             /\ Total(S) \in Int
  <2>1. SumFunctionOnSet(Amounts', S) = Total(S) /\ Total(S) \in Int /\ IsFiniteSet(S)
      BY <1>1, SameSums, StoredSums
  <2>2. Amounts'[new] = amount /\ \A id \in S : Amounts'[id] = Amounts[id]
      BY <1>1 DEF Amounts
  <2>3. \A id \in S \cup {new} : Amounts'[id] \in Int
      BY <1>2, <2>2, StoredSums
  <2>4. new \notin S
      BY <1>1
  <2> HIDE DEF new, amount
  <2>5. SumFunctionOnSet(Amounts', S \cup {new})
          = Amounts'[new] + SumFunctionOnSet(Amounts', S)
      BY <2>1, <2>3, <2>4, SumAdd
  <2> QED
      BY <2>1, <2>2, <2>5
<1> HIDE DEF new, amount
<1>6. bal'[a][Contract] = Total(Of(a, Open))'
  <2>1. /\ Of(a, Open)' = Of(a, Open) \cup {new}
        /\ Of(a, Open) \in SUBSET EscrowIds
      BY <1>1 DEF Of, Open
  <2>2. Total(Of(a, Open))' = amount + Total(Of(a, Open)) /\ Total(Of(a, Open)) \in Int
      BY <1>5, <2>1 DEF Total
  <2> QED
      BY <1>2, <1>3, <1>4, <2>2 DEF Reconciles
<1>7. ASSUME NEW p \in Parties
      PROVE  bal'[a][p] + Total(LentBy(a, p))'
               = InitialBalance[a][p] + Total(ReleasedTo(a, p))' + Total(RefundedTo(a, p))'
  <2>1. /\ LentBy(a, p) \in SUBSET EscrowIds
        /\ ReleasedTo(a, p) \in SUBSET EscrowIds /\ ReleasedTo(a, p)' = ReleasedTo(a, p)
        /\ RefundedTo(a, p) \in SUBSET EscrowIds /\ RefundedTo(a, p)' = RefundedTo(a, p)
      BY <1>1 DEF Of, LentBy, ReleasedTo, RefundedTo
  <2>2. /\ Total(ReleasedTo(a, p))' = Total(ReleasedTo(a, p))
        /\ Total(RefundedTo(a, p))' = Total(RefundedTo(a, p))
        /\ Total(LentBy(a, p)) \in Int
      BY <1>5, <2>1 DEF Total
  <2>3. bal[a][p] + Total(LentBy(a, p))
          = InitialBalance[a][p] + Total(ReleasedTo(a, p)) + Total(RefundedTo(a, p))
      BY DEF Reconciles
  <2>4. CASE p = c.lender
    <3>1. LentBy(a, p)' = LentBy(a, p) \cup {new}
        BY <1>1, <2>4 DEF Of, LentBy, EscrowStatus
    <3>2. Total(LentBy(a, p))' = amount + Total(LentBy(a, p))
        BY <1>5, <2>1, <3>1 DEF Total
    <3>3. bal'[a][p] = bal[a][p] - amount
        BY <1>3, <2>4
    <3> QED
        BY <1>2, <1>4, <2>2, <2>3, <3>2, <3>3
  <2>5. CASE p # c.lender
    <3>1. LentBy(a, p)' = LentBy(a, p)
        BY <1>1, <2>5 DEF Of, LentBy, EscrowStatus
    <3>2. Total(LentBy(a, p))' = Total(LentBy(a, p))
        BY <1>5, <2>1, <3>1 DEF Total
    <3> QED
        BY <1>3, <2>2, <2>3, <2>5, <3>2
  <2> QED
      BY <2>4, <2>5
<1> QED
    BY <1>6, <1>7 DEF Reconciles

LEMMA ReconcileStep ==
    ASSUME \A c \in Configs : SameAsset(c), TypeOK, [Next]_vars, NEW a \in Assets,
           Reconciles(a)
    PROVE  Reconciles(a)'
<1>0. TypeOK'
    BY TypeStep
<1>1. ASSUME NEW c \in Configs, create_escrow(c)
      PROVE  Reconciles(a)'
  <2>1. CASE c.asset = a
      BY <1>1, <2>1, CreateReconciles
  <2>2. CASE c.asset # a
    <3>0. escrow'[next_id] = [config |-> c, status |-> "Active"]
        BY <1>1, CreateTyped
    <3>1. escrow'[next_id].config = c
        BY <3>0
    <3>2. /\ EscrowIds' = EscrowIds \cup {next_id}
          /\ \A id \in EscrowIds : escrow'[id] = escrow[id]
        BY <1>1, CreateTyped
    <3>3. bal'[a] = bal[a]
        BY <1>1, <2>2 DEF create_escrow, transfer, TypeOK
    <3>4. \A id \in EscrowIds : escrow[id].status \in EscrowStatus
        BY DEF TypeOK, Escrow
    <3> QED
        BY <2>2, <3>1, <3>2, <3>3, <3>4, UntouchedReconciles
  <2> QED
      BY <2>1, <2>2
<1>2. ASSUME NEW id \in EscrowIds, Disputes(id)
      PROVE  Reconciles(a)'
  <2>1. bal' = bal /\ escrow[id].status = "Active"
      BY <1>2 DEF Disputes
  <2>2. /\ EscrowIds' = EscrowIds
        /\ escrow'[id].status = "Disputed"
        /\ \A j \in EscrowIds : escrow'[j].config = escrow[j].config
        /\ \A j \in EscrowIds \ {id} : escrow'[j] = escrow[j]
      BY <1>2, StatusTyped DEF Disputes, EscrowStatus
  <2>3. \A j \in EscrowIds : /\ escrow[j].status \in EscrowStatus
                             /\ escrow'[j].status \in EscrowStatus
      BY <1>0, <2>2 DEF TypeOK, Escrow
  <2>4. \A j \in EscrowIds :
             /\ escrow'[j].status \in Open <=> escrow[j].status \in Open
             /\ escrow'[j].status = "Released" <=> escrow[j].status = "Released"
             /\ escrow'[j].status = "Refunded" <=> escrow[j].status = "Refunded"
      BY <2>1, <2>2 DEF Open
  <2> QED
      BY <2>1, <2>2, <2>3, <2>4, UntouchedReconciles
<1>3. ASSUME NEW id \in EscrowIds, IsOpen(id), settle_release(id) \/ settle_refund(id)
      PROVE  Reconciles(a)'
  <2> DEFINE c == escrow[id].config
  <2>1. c \in Configs /\ c.asset \in Assets /\ SameAsset(c)
        /\ c.seller \in Parties /\ c.buyer \in Parties
      BY StoredConfig DEF TypeOK, Escrow, EscrowConfig
  <2>2. PICK st \in {"Released", "Refunded"} :
          /\ Settles(id, st)
          /\ Pays(id, IF st = "Released" THEN c.seller ELSE c.buyer)
    <3>1. CASE settle_release(id)
      <4>1. Settles(id, "Released")
          BY <3>1, ReleaseSettles
      <4>2. Pays(id, c.seller)
          BY <2>1, <3>1 DEF settle_release, execute_release_payout, payout_amount, SameAsset, Pays
      <4> QED
          BY <4>1, <4>2
    <3>2. CASE settle_refund(id)
      <4>1. Settles(id, "Refunded")
          BY <3>2, RefundSettles
      <4>2. Pays(id, c.buyer)
          BY <2>1, <3>2 DEF settle_refund, refund_recipient, Pays
      <4> QED
          BY <4>1, <4>2
    <3> QED
        BY <1>3, <3>1, <3>2
  <2>3. CASE c.asset = a
      BY <1>3, <2>2, <2>3, SettleReconciles
  <2>4. CASE c.asset # a
    <3>1. bal'[a] = bal[a]
        BY <2>1, <2>2, <2>4 DEF Pays, transfer, TypeOK
    <3>2. /\ EscrowIds' = EscrowIds
          /\ \A j \in EscrowIds : escrow'[j].config = escrow[j].config
          /\ \A j \in EscrowIds \ {id} : escrow'[j] = escrow[j]
        BY <2>2, StatusTyped DEF Settles, EscrowStatus
    <3>3. \A j \in EscrowIds : /\ escrow[j].status \in EscrowStatus
                               /\ escrow'[j].status \in EscrowStatus
        BY <1>0, <3>2 DEF TypeOK, Escrow
    <3>4. \A j \in EscrowIds : escrow[j].config.asset = a => escrow'[j] = escrow[j]
        BY <2>4, <3>2
    <3> QED
        BY <3>1, <3>2, <3>3, <3>4, UntouchedReconciles
  <2> QED
      BY <2>3, <2>4
<1>4. CASE OwnerStep \/ DirectLockStep \/ SetupStep \/ OracleStep \/ Tick \/ UNCHANGED vars
  <2>1. escrow' = escrow /\ next_id' = next_id
      BY <1>4, OwnerTyped, ElsewhereTyped DEF Elsewhere
  <2>2. bal' = bal
      BY <1>4 DEF OwnerStep, DirectLockStep, SetupStep, OracleStep, Tick, vars, managerVars,
         set_treasury, propose_admin, accept_admin, set_test_exchange_rate
  <2>3. EscrowIds' = EscrowIds /\ \A id \in EscrowIds : escrow[id].status \in EscrowStatus
      BY <2>1 DEF EscrowIds, TypeOK, Escrow
  <2> QED
      BY <2>1, <2>2, <2>3, UntouchedReconciles
<1> QED
    BY <1>1, <1>2, <1>3, <1>4, StepKinds

\* For every number of escrows, parties and assets: as long as every escrow pays
\* out in the asset it was funded in, the contract holds exactly what its open
\* escrows were funded with, and every party's balance is explained by what it
\* lent, what was released to it and what was refunded to it.  Across assets it
\* is false (BalanceCoversOpen is refuted by a run).
THEOREM MoneyReconciles ==
    ASSUME \A c \in Configs : SameAsset(c)
    PROVE  Spec => []LedgerReconciles
<1> DEFINE LedgerInv == TypeOK /\ \A a \in Assets : Reconciles(a)
<1>1. Init => LedgerInv
  <2> SUFFICES ASSUME Init, NEW a \in Assets PROVE Reconciles(a)
      BY TypeInit
  <2>1. EscrowIds = {}
      BY DEF Init, EscrowIds
  <2>2. /\ Of(a, Open) = {}
        /\ \A p \in Parties : LentBy(a, p) = {} /\ ReleasedTo(a, p) = {} /\ RefundedTo(a, p) = {}
      BY <2>1 DEF Of, LentBy, ReleasedTo, RefundedTo
  <2>3. Total({}) = 0
      BY SumEmpty DEF Total
  <2>4. bal[a][Contract] = 0 /\ \A p \in Parties : bal[a][p] = InitialBalance[a][p]
      BY ManagerAssumption DEF Init, Accounts
  <2>5. \A p \in Parties : InitialBalance[a][p] \in Nat
      BY ManagerAssumption
  <2> QED
      BY <2>2, <2>3, <2>4, <2>5 DEF Reconciles
<1>2. LedgerInv /\ [Next]_vars => LedgerInv'
    BY ReconcileStep, TypeStep
<1>3. LedgerInv => LedgerReconciles
    BY DEF Reconciles, LedgerReconciles
<1> QED
    BY <1>1, <1>2, <1>3, PTL DEF Spec

\* What a settlement of either kind needs of the two contracts, signatures apart:
\* the contract holds the amount, and the collateral is there to be unlocked.
SettlementFunded ==
    \A id \in EscrowIds : IsOpen(id) =>
      LET c == escrow[id].config
      IN /\ CanRefund(c)
         /\ bal[c.destination_asset][Contract] >= payout_amount(c)
         /\ c.collateral_id \in Registry!CollateralIds
         /\ collateral[c.collateral_id].locked

\* The safety half of ExpiredEscrowSettles, for every number of escrows: whatever
\* creations, settlements, disputes and transfers come before it, no settlement of an
\* open escrow lacks the money it pays or the lock it undoes (process_refund,
\* execute_release_payout), unless escrows pay across assets or owners unlock
\* directly.
THEOREM SettlementsStayFunded ==
    ASSUME ~DirectLocking, \A c \in Configs : SameAsset(c)
    PROVE  Spec => []SettlementFunded
<1>1. ASSUME TypeOK, LedgerReconciles, LocksMatchEscrows PROVE SettlementFunded
  <2> SUFFICES ASSUME NEW id \in EscrowIds, IsOpen(id)
               PROVE  LET c == escrow[id].config
                      IN /\ CanRefund(c)
                         /\ bal[c.destination_asset][Contract] >= payout_amount(c)
                         /\ c.collateral_id \in Registry!CollateralIds
                         /\ collateral[c.collateral_id].locked
      BY DEF SettlementFunded
  <2>1. PICK c : c = escrow[id].config
      OBVIOUS
  <2>2. c \in Configs /\ c.asset \in Assets /\ c.amount \in Int
      BY <1>1, <2>1, StoredConfig DEF Escrow, EscrowConfig
  <2>3. PICK S \in SUBSET EscrowIds : S = Of(c.asset, Open)
      BY DEF Of
  <2>4. id \in S
      BY <2>1, <2>3 DEF Of, IsOpen
  <2>5. Total(S) = c.amount + Total(S \ {id})
      BY <1>1, <2>1, <2>4, StoredSums
  <2>6. Total(S \ {id}) \in Nat
    <3>1. IsFiniteSet(S \ {id})
        BY <1>1, StoredSums
    <3>2. \A i \in S \ {id} : Amounts[i] \in Nat
      <4> SUFFICES ASSUME NEW i \in EscrowIds PROVE Amounts[i] \in Nat
          OBVIOUS
      <4>1. escrow[i].config.amount > 0 /\ escrow[i].config.amount \in Int
          BY <1>1, StoredConfig DEF EscrowConfig
      <4> QED
          BY <4>1 DEF Amounts
    <3> QED
        BY <3>1, <3>2, SumNat DEF Total
  <2>7. bal[c.asset][Contract] >= c.amount
      BY <1>1, <2>2, <2>3, <2>5, <2>6 DEF LedgerReconciles
  <2>8. c.destination_asset = c.asset /\ payout_amount(c) = c.amount
      BY <2>2 DEF SameAsset, payout_amount
  <2>9. c.collateral_id \in Registry!CollateralIds /\ collateral[c.collateral_id].locked
      BY <1>1, <2>1 DEF LocksMatchEscrows
  <2> QED
      BY <2>1, <2>7, <2>8, <2>9 DEF CanRefund
<1>2. Spec => []LedgerReconciles
    BY MoneyReconciles
<1>3. Spec => []LocksOneToOne
    BY LocksCorrect
<1>4. LocksOneToOne => LocksMatchEscrows
    BY DEF LocksOneToOne
<1> QED
    BY <1>1, <1>2, <1>3, <1>4, TypeCorrect, PTL

----------------------------------------------------------------------------
(* Releases *)

\* What a step that releases an escrow was: settle_release, and for an escrow
\* that was not disputed, on the adapter's evidence.
LEMMA ReleaseKind ==
    ASSUME TypeOK, [Next]_vars, NEW id \in EscrowIds, IsOpen(id),
           escrow'[id].status = "Released"
    PROVE  /\ settle_release(id)
           /\ escrow[id].status = "Active" => Confirmed(id)
<1>0. escrow[id].status # "Released"
    BY DEF IsOpen, Open
<1>1. ~\E c \in Configs : create_escrow(c)
    BY <1>0, CreateTyped
<1>2. ~(SetupStep \/ OwnerStep \/ DirectLockStep \/ OracleStep \/ Tick \/ UNCHANGED vars)
    BY <1>0, OwnerTyped, ElsewhereTyped DEF Elsewhere
<1>3. PICK j \in EscrowIds : EscrowStep(j)
    BY <1>1, <1>2 DEF Next
<1>4. ASSUME NEW st \in EscrowStatus, escrow' = [escrow EXCEPT ![j].status = st],
             next_id' = next_id
      PROVE  j = id /\ st = "Released"
    BY <1>0, <1>4, StatusTyped
<1>5. ~Disputes(j)
    BY <1>4 DEF Disputes, EscrowStatus
<1>6. ~settle_refund(j)
    BY <1>4, RefundSettles DEF Settles, EscrowStatus
<1>7. settle_release(j) => j = id
    BY <1>4, ReleaseSettles DEF Settles, EscrowStatus
<1>8. \/ release_funds_on_confirmation(j)
      \/ escrow[j].status = "Disputed" /\ settle_release(j)
    BY <1>3, <1>5, <1>6 DEF EscrowStep, refund_escrow, resolve_dispute, raise_dispute,
       dispute_escrow, Disputes
<1> QED
    BY <1>7, <1>8 DEF release_funds_on_confirmation

\* What execute_release_payout pays, for every configuration create_escrow accepts
\* and whatever rate has been set by then: across assets at least the agreed
\* minimum, within one asset the amount.
THEOREM SlippageKept == Spec => SlippageProtected
<1> DEFINE Protected ==
             \A id \in EscrowIds :
               (IsOpen(id) /\ escrow'[id].status = "Released") =>
                 LET c == escrow[id].config
                 IN IF SameAsset(c) THEN Received(c) = c.amount
                    ELSE Received(c) >= c.min_destination_amount
<1>1. TypeOK /\ [Next]_vars => Protected
  <2> SUFFICES ASSUME TypeOK, [Next]_vars, NEW id \in EscrowIds, IsOpen(id),
                      escrow'[id].status = "Released"
               PROVE  LET c == escrow[id].config
                      IN IF SameAsset(c) THEN Received(c) = c.amount
                         ELSE Received(c) >= c.min_destination_amount
      OBVIOUS
  <2> DEFINE c == escrow[id].config
             d == c.destination_asset
             paid == payout_amount(c)
  <2>1. SlippageOk(c) /\ transfer(d, Contract, c.seller, paid)
      BY ReleaseKind DEF settle_release, execute_release_payout
  <2>2. /\ c \in Configs /\ d \in Assets /\ c.seller \in Accounts /\ Contract \in Accounts
        /\ c.seller # Contract /\ c.amount \in Int /\ c.min_destination_amount \in Int
      BY StoredConfig, ManagerAssumption DEF TypeOK, Escrow, EscrowConfig, Accounts
  <2>3. paid \in Int
      BY <2>2 DEF payout_amount, estimate_path_payment, UNIT, TypeOK
  <2>4. IF SameAsset(c) THEN paid = c.amount ELSE paid >= c.min_destination_amount
      BY <2>1, <2>2 DEF SlippageOk, payout_amount
  <2>5. bal[d][c.seller] \in Int /\ BalType
      BY <2>2 DEF TypeOK, BalType
  <2> HIDE DEF c, d, paid
  <2>6. bal'[d][c.seller] = bal[d][c.seller] + paid
      BY <2>1, <2>2, <2>3, <2>5, TransferMoves
  <2>7. bal'[d][c.seller] - bal[d][c.seller] = paid
      BY <2>3, <2>5, <2>6
  <2>8. Received(c) = paid
      BY <2>7 DEF Received, d
  <2> QED
      BY <2>4, <2>8 DEF c
<1> QED
    BY <1>1, TypeCorrect, PTL DEF Spec, SlippageProtected

----------------------------------------------------------------------------
(* Evidence *)

\* The invariant the evidence rests on: the confirming oracles are listed once
\* each, and every escrow has an id the adapter keeps confirmations for.
EvidenceInv ==
    /\ TypeOK
    /\ Adapter!ConfirmationsListed
    /\ next_id <= MaxEscrows + 1

\* A confirmation lists its oracle, which was not listed.
LEMMA ConfirmKeepsList ==
    ASSUME Adapter!TypeOK, Adapter!ConfirmationsListed, NEW o \in Oracles,
           NEW e \in AllEscrowIds, NEW t \in EventTypes, Adapter!confirm_event(o, e, t)
    PROVE  Adapter!ConfirmationsListed'
<1> DEFINE s == confirming[e]
<1>1. /\ s \in Seq(Oracles)
      /\ \A i, j \in DOMAIN s : s[i] = s[j] => i = j
      /\ \A i \in DOMAIN s : s[i] # o
      /\ Adapter!Elements(s) = {q \in Oracles : confirmation[e][q] # Adapter!Unconfirmed}
    BY DEF Adapter!TypeOK, Adapter!ConfirmationsListed, Adapter!confirm_event,
           Adapter!AlreadyConfirmed, Adapter!Elements
<1>2. t # Adapter!Unconfirmed
    BY DEF Adapter!confirm_event, Adapter!IsValidEvent, Adapter!ValidEvents,
           Adapter!Unconfirmed
<1>3. /\ confirmation' = [confirmation EXCEPT ![e][o] = t]
      /\ confirming' = [confirming EXCEPT ![e] = Append(s, o)]
    BY DEF Adapter!confirm_event
<1> HIDE DEF s
<1>4. /\ Adapter!Elements(Append(s, o)) = Adapter!Elements(s) \cup {o}
      /\ \A i, j \in DOMAIN Append(s, o) : Append(s, o)[i] = Append(s, o)[j] => i = j
  <2>1. /\ s \in Seq(Oracles)
        /\ \A i, j \in DOMAIN s : s[i] = s[j] => i = j
        /\ \A i \in DOMAIN s : s[i] # o
      BY <1>1
  <2>2. {Append(s, o)[i] : i \in DOMAIN Append(s, o)} = {s[i] : i \in DOMAIN s} \cup {o}
      BY <2>1, AppendFresh
  <2>3. \A i, j \in DOMAIN Append(s, o) : Append(s, o)[i] = Append(s, o)[j] => i = j
      BY <2>1, AppendFresh
  <2> QED
      BY <2>2, <2>3 DEF Adapter!Elements
<1>5. /\ \A q \in Oracles : confirmation'[e][q] = IF q = o THEN t ELSE confirmation[e][q]
      /\ \A d \in AllEscrowIds \ {e} : confirmation'[d] = confirmation[d]
    BY <1>3 DEF Adapter!TypeOK
<1>6. /\ confirming'[e] = Append(s, o)
      /\ \A d \in AllEscrowIds \ {e} : confirming'[d] = confirming[d]
    BY <1>3 DEF Adapter!TypeOK
<1>7. Adapter!Elements(confirming'[e])
        = {q \in Oracles : confirmation'[e][q] # Adapter!Unconfirmed}
    BY <1>1, <1>2, <1>4, <1>5, <1>6
<1> SUFFICES ASSUME NEW d \in AllEscrowIds
             PROVE  /\ Adapter!Elements(confirming'[d])
                         = {q \in Oracles : confirmation'[d][q] # Adapter!Unconfirmed}
                    /\ \A i, j \in DOMAIN confirming'[d] :
                         confirming'[d][i] = confirming'[d][j] => i = j
    BY DEF Adapter!ConfirmationsListed, Adapter!Elements
<1>8. CASE d = e
    BY <1>4, <1>6, <1>7, <1>8
<1>9. CASE d # e
    BY <1>5, <1>6, <1>9 DEF Adapter!ConfirmationsListed
<1> QED
    BY <1>8, <1>9

LEMMA EvidenceStep == EvidenceInv /\ [Next]_vars => EvidenceInv'
<1> SUFFICES ASSUME EvidenceInv, [Next]_vars
             PROVE  EvidenceInv'
    OBVIOUS
<1>1. TypeOK /\ TypeOK'
    BY TypeStep DEF EvidenceInv
<1>2. next_id' <= MaxEscrows + 1
  <2>1. ASSUME NEW c \in Configs, create_escrow(c)
        PROVE  next_id' <= MaxEscrows + 1
      BY <1>1, <2>1, ManagerAssumption DEF create_escrow, TypeOK
  <2>2. CASE next_id' = next_id
      BY <2>2 DEF EvidenceInv
  <2> QED
      BY <1>1, <2>1, <2>2, StepKinds, ReleaseSettles, RefundSettles, OwnerTyped,
         ElsewhereTyped DEF Disputes, Settles, Elsewhere
<1>3. CASE UNCHANGED <<confirmation, confirming>>
    BY <1>1, <1>2, <1>3 DEF EvidenceInv, Adapter!ConfirmationsListed
<1>4. CASE OracleStep
  <2>1. PICK o \in Oracles :
          \/ UNCHANGED <<confirmation, confirming>>
          \/ \E e \in AllEscrowIds, t \in EventTypes : Adapter!confirm_event(o, e, t)
      BY <1>4 DEF OracleStep, Adapter!add_oracle, Adapter!remove_oracle
  <2>2. CASE UNCHANGED <<confirmation, confirming>>
      BY <1>3, <2>2
  <2>3. ASSUME NEW e \in AllEscrowIds, NEW t \in EventTypes, Adapter!confirm_event(o, e, t)
        PROVE  Adapter!ConfirmationsListed'
      BY <1>1, <2>3, ConfirmKeepsList DEF EvidenceInv, TypeOK
  <2> QED
      BY <1>1, <1>2, <2>1, <2>2, <2>3 DEF EvidenceInv
<1>5. CASE ~OracleStep
  <2>1. UNCHANGED <<confirmation, confirming>>
    <3>1. \/ \E c \in Configs : create_escrow(c)
          \/ \E id \in EscrowIds : Disputes(id) \/ settle_release(id) \/ settle_refund(id)
          \/ OwnerStep \/ DirectLockStep \/ SetupStep \/ Tick \/ UNCHANGED vars
        BY <1>5, StepKinds
    <3> QED
        BY <3>1 DEF create_escrow, Disputes, settle_release, settle_refund, OwnerStep,
           DirectLockStep, SetupStep, set_treasury, propose_admin, accept_admin,
           set_test_exchange_rate, Tick, vars, orcVars
  <2> QED
      BY <1>3, <2>1
<1> QED
    BY <1>4, <1>5

\* The oracles of an escrow's set, and those of them that agree on its event.
OracleSet(id) == LET q == escrow[id].config.oracle_set IN {q[i] : i \in DOMAIN q}

Agreeing(id) == {o \in OracleSet(id) : ConfirmedBy(id, o) /\ Adapter!Registered(o)}

\* The positions check_consensus counts for an escrow: those of the confirmations
\* of its event by registered oracles of its set.
CountedFor(id) ==
    LET c == escrow[id].config
        confs == Adapter!get_confirmations_for_escrow(id)
    IN {i \in Adapter!Counted(id, c.oracle_set) : confs[i].event_type = c.required_confirmation}

\* These positions are different oracles, all of which agree.
LEMMA CountedAreOracles ==
    ASSUME EvidenceInv, NEW id \in EscrowIds, escrow[id].config.oracle_set # <<>>
    PROVE  Cardinality(CountedFor(id)) = Cardinality(Agreeing(id))
<1> DEFINE s == confirming[id]
           e == escrow[id].config.required_confirmation
           T == {o \in OracleSet(id) : o \in oracles /\ confirmation[id][o] = e}
<1>1. id \in AllEscrowIds
    BY ManagerAssumption DEF EvidenceInv, TypeOK, EscrowIds, AllEscrowIds
<1>2. OracleSet(id) \subseteq Oracles
    BY StoredConfig DEF EvidenceInv, EscrowConfig, OracleSet
<1>3. s \in Seq(Oracles) /\ \A i, j \in DOMAIN s : s[i] = s[j] => i = j
    BY <1>1 DEF EvidenceInv, TypeOK, Adapter!TypeOK, Adapter!ConfirmationsListed
<1>4. CountedFor(id) = {i \in DOMAIN s : s[i] \in T}
  <2>1. Adapter!Counted(id, escrow[id].config.oracle_set)
          = {i \in DOMAIN s : s[i] \in OracleSet(id) /\ s[i] \in oracles}
      BY DEF Adapter!Counted, Adapter!get_confirmations_for_escrow, Adapter!Registered,
             Adapter!Elements, OracleSet
  <2>2. \A i \in DOMAIN s :
          Adapter!get_confirmations_for_escrow(id)[i].event_type = confirmation[id][s[i]]
      BY DEF Adapter!get_confirmations_for_escrow
  <2> QED
      BY <2>1, <2>2 DEF CountedFor
<1>5. Agreeing(id) = {s[i] : i \in DOMAIN s} \cap T
  <2>1. {s[i] : i \in DOMAIN s} = {o \in Oracles : confirmation[id][o] # Adapter!Unconfirmed}
      BY <1>1 DEF EvidenceInv, Adapter!ConfirmationsListed, Adapter!Elements
  <2> QED
      BY <1>2, <2>1 DEF Adapter!Registered, Agreeing, ConfirmedBy
<1> HIDE DEF s, T
<1> QED
    BY <1>3, <1>4, <1>5, PositionsAreEntries

LEMMA ConsensusAgreed ==
    ASSUME EvidenceInv, NEW id \in EscrowIds, escrow[id].config.required_confirmations > 0,
           escrow[id].config.oracle_set # <<>>, ConsensusMet(id)
    PROVE  Agreed(id)
<1>1. Cardinality(CountedFor(id)) >= escrow[id].config.required_confirmations
    BY DEF ConsensusMet, check_consensus, CountedFor, Adapter!ThresholdMet
<1>2. Cardinality(Agreeing(id)) >= escrow[id].config.required_confirmations
    BY <1>1, CountedAreOracles
<1> QED
    BY <1>2 DEF Agreed, Agreeing, OracleSet

\* No order of registrations, removals, confirmations and calls makes an
\* undisputed escrow pay its seller without the evidence its terms ask for: the
\* required event, confirmed by as many different oracles of its set, registered at
\* the time of the release, as its threshold says.
THEOREM ReleasesNeedEvidence == Spec => EvidenceForRelease
<1> DEFINE Evidence ==
             \A id \in EscrowIds :
               (escrow[id].status = "Active" /\ escrow'[id].status = "Released") =>
                 \/ Agreed(id)
                 \/ /\ escrow[id].config.required_confirmations = 0
                    /\ \E o \in Oracles : ConfirmedBy(id, o)
<1>1. Init => EvidenceInv
  <2> SUFFICES ASSUME Init PROVE EvidenceInv
      OBVIOUS
  <2>1. Adapter!ConfirmationsListed
      BY DEF Init, Adapter!Init, Adapter!ConfirmationsListed, Adapter!Elements
  <2>2. next_id <= MaxEscrows + 1
      BY ManagerAssumption DEF Init
  <2> QED
      BY <2>1, <2>2, TypeInit DEF EvidenceInv
<1>2. EvidenceInv /\ [Next]_vars => Evidence
  <2> SUFFICES ASSUME EvidenceInv, [Next]_vars, NEW id \in EscrowIds,
                      escrow[id].status = "Active", escrow'[id].status = "Released"
               PROVE  \/ Agreed(id)
                      \/ /\ escrow[id].config.required_confirmations = 0
                         /\ \E o \in Oracles : ConfirmedBy(id, o)
      OBVIOUS
  <2>1. Confirmed(id)
      BY ReleaseKind DEF EvidenceInv, IsOpen, Open
  <2>2. CASE escrow[id].config.required_confirmations > 0
      BY <2>1, <2>2, ConsensusAgreed DEF Confirmed
  <2>3. CASE ~(escrow[id].config.required_confirmations > 0)
    <3> DEFINE s == confirming[id]
    <3>1. id \in AllEscrowIds
        BY ManagerAssumption DEF EvidenceInv, TypeOK, EscrowIds, AllEscrowIds
    <3>2. s \in Seq(Oracles)
        BY <3>1 DEF EvidenceInv, TypeOK, Adapter!TypeOK
    <3>3. /\ escrow[id].config.required_confirmations = 0
          /\ \E i \in DOMAIN s :
               confirmation[id][s[i]] = escrow[id].config.required_confirmation
        BY <2>1, <2>3 DEF Confirmed, Adapter!get_confirmations_for_escrow
    <3>4. \A i \in DOMAIN s : s[i] \in Oracles /\ confirmation[id][s[i]] # Adapter!Unconfirmed
        BY <3>1, <3>2 DEF EvidenceInv, Adapter!ConfirmationsListed, Adapter!Elements
    <3> QED
        BY <3>3, <3>4 DEF ConfirmedBy
  <2> QED
      BY <2>2, <2>3
<1>3. EvidenceInv /\ [Next]_vars => EvidenceInv'
    BY EvidenceStep
<1> QED
    BY <1>1, <1>2, <1>3, PTL DEF Spec, EvidenceForRelease
============================================================================
