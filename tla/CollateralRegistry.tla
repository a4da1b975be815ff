------------------------ MODULE CollateralRegistry ------------------------
(***************************************************************************)
(* The collateral registry contract (contracts/collateral-registry): the   *)
(* records of tokenised assets, their owners, valuations and locks.        *)
(*                                                                         *)
(* A Soroban invocation is atomic: an Err or a trap undoes every write, so *)
(* a failing call is a call that is not taken.  A signature is modelled by *)
(* Willing, the addresses that will sign what is asked of them.  Ids are   *)
(* dense from 1, so the table is a function on 1..(nextCollId - 1).        *)
(* Write-only data is left out: timestamps, the metadata URI, and the      *)
(* history entries that no function of the contract reads back.            *)
(***************************************************************************)
EXTENDS Integers

CONSTANTS
    Owners,          \* addresses that may own collateral
    Hashes,          \* asset document hashes
    Valuations,      \* valuation arguments, non-positive ones included
    Classes,         \* asset classifications
    LockRefs,        \* escrow ids an owner may pass to lock_collateral
    RegistryAdmin,   \* the admin fixed by initialize
    RegistryOracle,  \* the oracle fixed by initialize
    Willing,         \* addresses that sign when their signature is required
    Reluctant,       \* owners that will nevertheless not sign an unlock
    MaxCollaterals   \* bound: collaterals registered in a behaviour

ASSUME RegistryAssumption ==
    /\ Valuations \subseteq Int
    /\ LockRefs \subseteq Nat
    /\ MaxCollaterals \in Nat

VARIABLES
    collateral,      \* persistent storage ("collat", id) -> Collateral
    nextCollId,      \* instance storage "next_id"
    hashKeys,        \* persistent storage ("hash", h) -> id, as a set of pairs
    ownerKeys        \* persistent storage ("owner", o, id), as a set of pairs

regVars == <<collateral, nextCollId, hashKeys, ownerKeys>>

NoClass == "unclassified"

CollateralIds == 1 .. (nextCollId - 1)

\* The fields of struct Collateral that some operation reads or returns.
Collateral ==
    [owner : Owners,
     asset_hash : Hashes,
     current_valuation : Nat \ {0},
     previous_valuation : Int,
     locked : BOOLEAN,
     locked_by_escrow : Nat,
     verified : BOOLEAN,
     class : Classes \cup {NoClass}]

require_auth(a) == a \in Willing

\* Mutated forms of the helpers below: a check that was forgotten, and an index
\* entry that a transfer leaves behind.
ValidValuation_Unchecked(v) == TRUE
MovedOwnerKey_KeepsOld(id, new_owner) == ownerKeys \cup {<<new_owner, id>>}

\* The tests of register_collateral and update_valuation.
ValidValuation(v) == v > 0
HashIsFree(hash) == \A k \in hashKeys : k[1] # hash

\* The test that transfer_collateral and lock_collateral share.
NotLocked(id) == ~collateral[id].locked

\* The owner index after a transfer.
MovedOwnerKey(id, new_owner) ==
    (ownerKeys \ {<<collateral[id].owner, id>>}) \cup {<<new_owner, id>>}

----------------------------------------------------------------------------
(* Operations *)

\* The state initialize leaves behind.
Init ==
    /\ collateral = [id \in {} |-> {}]
    /\ nextCollId = 1
    /\ hashKeys = {}
    /\ ownerKeys = {}

register_collateral(owner, hash, valuation) ==
    /\ nextCollId <= MaxCollaterals
    /\ require_auth(owner)
    /\ ValidValuation(valuation)
    /\ HashIsFree(hash)
    /\ collateral' =
         [id \in 1 .. nextCollId |->
            IF id = nextCollId
            THEN [owner |-> owner,
                  asset_hash |-> hash,
                  current_valuation |-> valuation,
                  previous_valuation |-> 0,
                  locked |-> FALSE,
                  locked_by_escrow |-> 0,
                  verified |-> FALSE,
                  class |-> NoClass]
            ELSE collateral[id]]
    /\ hashKeys' = hashKeys \cup {<<hash, nextCollId>>}
    /\ ownerKeys' = ownerKeys \cup {<<owner, nextCollId>>}
    /\ nextCollId' = nextCollId + 1

\* expiry_date is 0 in every record (no operation sets it), so the code's
\* expiry test never fires.
update_valuation(id, valuation) ==
    /\ require_auth(RegistryOracle)
    /\ ValidValuation(valuation)
    /\ id \in CollateralIds
    /\ collateral' = [collateral EXCEPT ![id] =
                        [@ EXCEPT !.previous_valuation = collateral[id].current_valuation,
                                  !.current_valuation = valuation]]
    /\ UNCHANGED <<nextCollId, hashKeys, ownerKeys>>

transfer_collateral(id, new_owner) ==
    /\ id \in CollateralIds
    /\ require_auth(collateral[id].owner)
    /\ NotLocked(id)
    /\ new_owner # collateral[id].owner
    /\ collateral' = [collateral EXCEPT ![id].owner = new_owner]
    /\ ownerKeys' = MovedOwnerKey(id, new_owner)
    /\ UNCHANGED <<nextCollId, hashKeys>>

lock_collateral(id, escrow_id) ==
    /\ id \in CollateralIds
    /\ require_auth(collateral[id].owner)
    /\ NotLocked(id)
    /\ collateral' = [collateral EXCEPT ![id] =
                        [@ EXCEPT !.locked = TRUE, !.locked_by_escrow = escrow_id]]
    /\ UNCHANGED <<nextCollId, hashKeys, ownerKeys>>

unlock_collateral(id) ==
    /\ id \in CollateralIds
    /\ require_auth(collateral[id].owner)
    /\ collateral[id].owner \notin Reluctant
    /\ collateral[id].locked
    /\ collateral' = [collateral EXCEPT ![id] =
                        [@ EXCEPT !.locked = FALSE, !.locked_by_escrow = 0]]
    /\ UNCHANGED <<nextCollId, hashKeys, ownerKeys>>

verify_collateral(id, document_hash) ==
    /\ require_auth(RegistryAdmin)
    /\ id \in CollateralIds
    /\ collateral[id].asset_hash = document_hash
    /\ collateral' = [collateral EXCEPT ![id].verified = TRUE]
    /\ UNCHANGED <<nextCollId, hashKeys, ownerKeys>>

classify_collateral(id, class) ==
    /\ require_auth(RegistryAdmin)
    /\ id \in CollateralIds
    /\ collateral' = [collateral EXCEPT ![id].class = class]
    /\ UNCHANGED <<nextCollId, hashKeys, ownerKeys>>

\* get_collateral_by_hash: the id stored under a hash, if any.
get_collateral_by_hash(hash) == {k[2] : k \in {q \in hashKeys : q[1] = hash}}

Next ==
    \/ \E o \in Owners, h \in Hashes, v \in Valuations : register_collateral(o, h, v)
    \/ \E id \in CollateralIds :
         \/ \E v \in Valuations : update_valuation(id, v)
         \/ \E o \in Owners : transfer_collateral(id, o)
         \/ \E e \in LockRefs : lock_collateral(id, e)
         \/ unlock_collateral(id)
         \/ \E h \in Hashes : verify_collateral(id, h)
         \/ \E c \in Classes : classify_collateral(id, c)

Spec == Init /\ [][Next]_regVars

----------------------------------------------------------------------------
(* Properties *)

\* Every stored record is well formed and ids run from 1 without gaps.
TypeOK ==
    /\ nextCollId \in Nat \ {0}
    /\ collateral \in [CollateralIds -> Collateral]
    /\ hashKeys \subseteq Hashes \X CollateralIds
    /\ ownerKeys \subseteq Owners \X CollateralIds

\* The two indexes kept beside the records never drift from them: the owner
\* index holds exactly the current owner of each collateral after any number of
\* transfers, and get_collateral_by_hash finds exactly the record with that hash.
IndexesAgree ==
    /\ \A id \in CollateralIds, o \in Owners :
         <<o, id>> \in ownerKeys <=> collateral[id].owner = o
    /\ \A id \in CollateralIds, h \in Hashes :
         <<h, id>> \in hashKeys <=> collateral[id].asset_hash = h

\* One document backs at most one collateral: register_collateral's duplicate
\* test looks only at the hash index, and the records stay distinct.
UniqueDocuments ==
    \A i, j \in CollateralIds :
      collateral[i].asset_hash = collateral[j].asset_hash => i = j

============================================================================
