---------------------- MODULE CollateralRegistryProofs ----------------------
(***************************************************************************)
(* Proofs about CollateralRegistry, for any number of owners, documents    *)
(* and collaterals.                                                        *)
(***************************************************************************)
EXTENDS CollateralRegistry, TLAPS

\* All operations but registration and transfer rewrite one record, and keep its
\* owner and document.
LEMMA OneRecord ==
    ASSUME NEW id \in CollateralIds, collateral[id] \in Collateral,
           \/ \E v \in Valuations : update_valuation(id, v)
           \/ \E e \in LockRefs : lock_collateral(id, e)
           \/ unlock_collateral(id)
           \/ \E h \in Hashes : verify_collateral(id, h)
           \/ \E c \in Classes : classify_collateral(id, c)
    PROVE  \E rec \in Collateral :
             /\ collateral' = [collateral EXCEPT ![id] = rec]
             /\ rec.owner = collateral[id].owner
             /\ rec.asset_hash = collateral[id].asset_hash
             /\ UNCHANGED <<nextCollId, hashKeys, ownerKeys>>
<1> USE RegistryAssumption
<1> DEFINE Same(rec) == /\ rec \in Collateral
                        /\ rec.owner = collateral[id].owner
                        /\ rec.asset_hash = collateral[id].asset_hash
                        /\ collateral' = [collateral EXCEPT ![id] = rec]
                        /\ UNCHANGED <<nextCollId, hashKeys, ownerKeys>>
<1>1. ASSUME NEW v \in Valuations, update_valuation(id, v)
      PROVE  \E rec : Same(rec)
  <2>1. v > 0
      BY <1>1 DEF update_valuation, ValidValuation
  <2>2. v \in Nat \ {0} /\ collateral[id].current_valuation \in Int
      BY <2>1 DEF Collateral
  <2>3. Same([collateral[id] EXCEPT !.previous_valuation = collateral[id].current_valuation,
                                    !.current_valuation = v])
      BY <1>1, <2>2 DEF update_valuation, Collateral
  <2> QED
      BY <2>3
<1>2. ASSUME NEW e \in LockRefs, lock_collateral(id, e)
      PROVE  \E rec : Same(rec)
  <2>1. Same([collateral[id] EXCEPT !.locked = TRUE, !.locked_by_escrow = e])
      BY <1>2 DEF lock_collateral, Collateral
  <2> QED
      BY <2>1
<1>3. ASSUME unlock_collateral(id)
      PROVE  \E rec : Same(rec)
  <2>1. Same([collateral[id] EXCEPT !.locked = FALSE, !.locked_by_escrow = 0])
      BY <1>3 DEF unlock_collateral, Collateral
  <2> QED
      BY <2>1
<1>4. ASSUME NEW h \in Hashes, verify_collateral(id, h)
      PROVE  \E rec : Same(rec)
  <2>1. Same([collateral[id] EXCEPT !.verified = TRUE])
      BY <1>4 DEF verify_collateral, Collateral
  <2> QED
      BY <2>1
<1>5. ASSUME NEW c \in Classes, classify_collateral(id, c)
      PROVE  \E rec : Same(rec)
  <2>1. Same([collateral[id] EXCEPT !.class = c])
      BY <1>5 DEF classify_collateral, Collateral
  <2> QED
      BY <2>1
<1> QED
    BY <1>1, <1>2, <1>3, <1>4, <1>5

\* Every step keeps the records and the indexes well formed.
LEMMA TypeStep == TypeOK /\ [Next]_regVars => TypeOK'
<1> SUFFICES ASSUME TypeOK, [Next]_regVars
             PROVE  TypeOK'
    OBVIOUS
<1> USE RegistryAssumption
<1>0. \A id \in CollateralIds : collateral[id] \in Collateral
    BY DEF TypeOK
<1>1. ASSUME NEW o \in Owners, NEW h \in Hashes, NEW v \in Valuations,
             register_collateral(o, h, v)
      PROVE  TypeOK'
  <2>0. v > 0
      BY <1>1 DEF register_collateral, ValidValuation
  <2>1. v \in Nat \ {0}
      BY <2>0
  <2> DEFINE new == [owner |-> o, asset_hash |-> h,
                     current_valuation |-> v, previous_valuation |-> 0,
                     locked |-> FALSE, locked_by_escrow |-> 0,
                     verified |-> FALSE, class |-> NoClass]
  <2>2. new \in Collateral
      BY <2>1 DEF Collateral
  <2>3. collateral' = [i \in 1 .. nextCollId |->
                         IF i = nextCollId THEN new ELSE collateral[i]]
      BY <1>1 DEF register_collateral
  <2> HIDE DEF new
  <2>4. /\ nextCollId \in Nat \ {0}
        /\ nextCollId' = nextCollId + 1
        /\ CollateralIds' = 1 .. nextCollId
      BY <1>1 DEF register_collateral, TypeOK, CollateralIds
  <2>5. collateral' \in [CollateralIds' -> Collateral]
      BY <1>0, <2>2, <2>3, <2>4 DEF CollateralIds
  <2>6. /\ hashKeys' = hashKeys \cup {<<h, nextCollId>>}
        /\ ownerKeys' = ownerKeys \cup {<<o, nextCollId>>}
      BY <1>1 DEF register_collateral
  <2>7. /\ hashKeys' \subseteq Hashes \X CollateralIds'
        /\ ownerKeys' \subseteq Owners \X CollateralIds'
      BY <2>4, <2>6 DEF TypeOK, CollateralIds
  <2> QED
      BY <2>4, <2>5, <2>7 DEF TypeOK
<1>2. ASSUME NEW id \in CollateralIds, NEW rec \in Collateral,
             collateral' = [collateral EXCEPT ![id] = rec],
             UNCHANGED <<nextCollId, hashKeys, ownerKeys>>
      PROVE  TypeOK'
    BY <1>2 DEF TypeOK, CollateralIds
<1>3. ASSUME NEW id \in CollateralIds, NEW o \in Owners, transfer_collateral(id, o)
      PROVE  TypeOK'
  <2>1. [collateral[id] EXCEPT !.owner = o] \in Collateral
      BY <1>0 DEF Collateral
  <2>2. /\ collateral' = [collateral EXCEPT ![id] = [collateral[id] EXCEPT !.owner = o]]
        /\ ownerKeys' = (ownerKeys \ {<<collateral[id].owner, id>>}) \cup {<<o, id>>}
        /\ UNCHANGED <<nextCollId, hashKeys>>
      BY <1>3 DEF transfer_collateral, MovedOwnerKey
  <2> QED
      BY <2>1, <2>2 DEF TypeOK, CollateralIds
<1>4. ASSUME NEW id \in CollateralIds,
             \/ \E v \in Valuations : update_valuation(id, v)
             \/ \E e \in LockRefs : lock_collateral(id, e)
             \/ unlock_collateral(id)
             \/ \E h \in Hashes : verify_collateral(id, h)
             \/ \E c \in Classes : classify_collateral(id, c)
      PROVE  TypeOK'
    BY <1>0, <1>2, <1>4, OneRecord
<1>5. CASE UNCHANGED regVars
    BY <1>5 DEF regVars, TypeOK, CollateralIds
<1> QED
    BY <1>1, <1>3, <1>4, <1>5 DEF Next

\* Every reachable registry state is well formed: ids run from 1 without gaps,
\* valuations are positive, the indexes name existing collateral only.
THEOREM TypeCorrect == Spec => []TypeOK
<1>1. Init => TypeOK
    BY DEF Init, TypeOK, CollateralIds
<1> QED
    BY <1>1, TypeStep, PTL DEF Spec

----------------------------------------------------------------------------
(* The indexes *)

Indexed == TypeOK /\ IndexesAgree /\ UniqueDocuments

\* A step that keeps a record's owner and document keeps the indexes right.
LEMMA SameKeysStep ==
    ASSUME Indexed, TypeOK',
           UNCHANGED <<nextCollId, hashKeys, ownerKeys>>,
           \A id \in CollateralIds : /\ collateral'[id].owner = collateral[id].owner
                                     /\ collateral'[id].asset_hash = collateral[id].asset_hash
    PROVE  Indexed'
<1> USE DEF CollateralIds
<1>1. IndexesAgree'
    BY DEF Indexed, IndexesAgree
<1>2. UniqueDocuments'
    BY DEF Indexed, UniqueDocuments
<1> QED
    BY <1>1, <1>2 DEF Indexed

\* Registration adds one record, one hash and one owner entry, for a new id and
\* a document no record has.
LEMMA RegisterIndexed ==
    ASSUME NEW o \in Owners, NEW h \in Hashes, NEW v \in Valuations,
           Indexed, TypeOK', register_collateral(o, h, v)
    PROVE  Indexed'
<1>1. /\ nextCollId \in Nat \ {0}
      /\ nextCollId' = nextCollId + 1
      /\ CollateralIds' = CollateralIds \cup {nextCollId}
      /\ nextCollId \notin CollateralIds
      /\ nextCollId \in CollateralIds'
    BY DEF register_collateral, Indexed, TypeOK, CollateralIds
<1>2. /\ \A id \in CollateralIds : collateral'[id] = collateral[id]
      /\ collateral'[nextCollId].owner = o
      /\ collateral'[nextCollId].asset_hash = h
    BY <1>1 DEF register_collateral, CollateralIds
<1>3. /\ hashKeys' = hashKeys \cup {<<h, nextCollId>>}
      /\ ownerKeys' = ownerKeys \cup {<<o, nextCollId>>}
    BY DEF register_collateral
<1>4. /\ \A g \in Hashes : <<g, nextCollId>> \notin hashKeys
      /\ \A p \in Owners : <<p, nextCollId>> \notin ownerKeys
    BY <1>1 DEF Indexed, TypeOK
<1>5. \A id \in CollateralIds : collateral[id].asset_hash # h
  <2> SUFFICES ASSUME NEW id \in CollateralIds, collateral[id].asset_hash = h
               PROVE  FALSE
      OBVIOUS
  <2>1. <<h, id>> \in hashKeys
      BY DEF Indexed, IndexesAgree
  <2> QED
      BY <2>1 DEF register_collateral, HashIsFree
<1>6. IndexesAgree'
  <2>1. ASSUME NEW id \in CollateralIds', NEW p \in Owners
        PROVE  <<p, id>> \in ownerKeys' <=> collateral'[id].owner = p
      BY <1>1, <1>2, <1>3, <1>4 DEF Indexed, IndexesAgree
  <2>2. ASSUME NEW id \in CollateralIds', NEW g \in Hashes
        PROVE  <<g, id>> \in hashKeys' <=> collateral'[id].asset_hash = g
      BY <1>1, <1>2, <1>3, <1>4 DEF Indexed, IndexesAgree
  <2> QED
      BY <2>1, <2>2 DEF IndexesAgree
<1>7. UniqueDocuments'
  <2> SUFFICES ASSUME NEW i \in CollateralIds', NEW j \in CollateralIds',
                      collateral'[i].asset_hash = collateral'[j].asset_hash
               PROVE  i = j
      BY DEF UniqueDocuments
  <2>1. CASE i \in CollateralIds /\ j \in CollateralIds
      BY <1>2, <2>1 DEF Indexed, UniqueDocuments
  <2>2. CASE i = nextCollId \/ j = nextCollId
      BY <1>1, <1>2, <1>5, <2>2
  <2> QED
      BY <1>1, <2>1, <2>2
<1> QED
    BY <1>6, <1>7 DEF Indexed

\* A transfer moves one owner entry from the old owner to the new one.
LEMMA TransferIndexed ==
    ASSUME NEW id \in CollateralIds, NEW o \in Owners,
           Indexed, TypeOK', transfer_collateral(id, o)
    PROVE  Indexed'
<1>1. /\ collateral' = [collateral EXCEPT ![id] = [collateral[id] EXCEPT !.owner = o]]
      /\ ownerKeys' = (ownerKeys \ {<<collateral[id].owner, id>>}) \cup {<<o, id>>}
      /\ UNCHANGED <<nextCollId, hashKeys>>
      /\ CollateralIds' = CollateralIds
    BY DEF transfer_collateral, MovedOwnerKey, CollateralIds
<1>2. /\ collateral[id] \in Collateral
      /\ DOMAIN collateral = CollateralIds
    BY DEF Indexed, TypeOK
<1>3. /\ collateral'[id].owner = o
      /\ \A i \in CollateralIds \ {id} : collateral'[i] = collateral[i]
      /\ \A i \in CollateralIds : collateral'[i].asset_hash = collateral[i].asset_hash
    BY <1>1, <1>2 DEF Collateral
<1>4. IndexesAgree'
  <2>1. ASSUME NEW i \in CollateralIds, NEW p \in Owners
        PROVE  <<p, i>> \in ownerKeys' <=> collateral'[i].owner = p
      BY <1>1, <1>3 DEF Indexed, IndexesAgree
  <2>2. ASSUME NEW i \in CollateralIds, NEW h \in Hashes
        PROVE  <<h, i>> \in hashKeys' <=> collateral'[i].asset_hash = h
      BY <1>1, <1>3 DEF Indexed, IndexesAgree
  <2> QED
      BY <1>1, <2>1, <2>2 DEF IndexesAgree
<1>5. UniqueDocuments'
    BY <1>1, <1>3 DEF Indexed, UniqueDocuments
<1> QED
    BY <1>4, <1>5 DEF Indexed

\* The owner index and the hash index always describe the records, and no two
\* collaterals rest on one document, after any history of operations.
THEOREM IndexesCorrect == Spec => [](IndexesAgree /\ UniqueDocuments)
<1>1. Init => Indexed
    BY DEF Init, Indexed, TypeOK, CollateralIds, IndexesAgree, UniqueDocuments
<1>2. Indexed /\ [Next]_regVars => Indexed'
  <2> SUFFICES ASSUME Indexed, [Next]_regVars
               PROVE  Indexed'
      OBVIOUS
  <2>1. TypeOK'
      BY TypeStep DEF Indexed
  <2>2. \A id \in CollateralIds : collateral[id] \in Collateral
      BY DEF Indexed, TypeOK
  <2>3. ASSUME NEW o \in Owners, NEW h \in Hashes, NEW v \in Valuations,
               register_collateral(o, h, v)
        PROVE  Indexed'
      BY <2>1, <2>3, RegisterIndexed
  <2>4. ASSUME NEW id \in CollateralIds, NEW o \in Owners, transfer_collateral(id, o)
        PROVE  Indexed'
      BY <2>1, <2>4, TransferIndexed
  <2>5. ASSUME NEW id \in CollateralIds, NEW rec \in Collateral,
               collateral' = [collateral EXCEPT ![id] = rec],
               rec.owner = collateral[id].owner,
               rec.asset_hash = collateral[id].asset_hash,
               UNCHANGED <<nextCollId, hashKeys, ownerKeys>>
        PROVE  Indexed'
    <3>1. DOMAIN collateral = CollateralIds
        BY DEF Indexed, TypeOK
    <3>2. \A i \in CollateralIds : /\ collateral'[i].owner = collateral[i].owner
                                   /\ collateral'[i].asset_hash = collateral[i].asset_hash
        BY <2>5, <3>1
    <3> QED
        BY <2>1, <2>5, <3>2, SameKeysStep
  <2>6. ASSUME NEW id \in CollateralIds,
               \/ \E v \in Valuations : update_valuation(id, v)
               \/ \E e \in LockRefs : lock_collateral(id, e)
               \/ unlock_collateral(id)
               \/ \E h \in Hashes : verify_collateral(id, h)
               \/ \E c \in Classes : classify_collateral(id, c)
        PROVE  Indexed'
    <3>1. \E rec \in Collateral :
            /\ collateral' = [collateral EXCEPT ![id] = rec]
            /\ rec.owner = collateral[id].owner
            /\ rec.asset_hash = collateral[id].asset_hash
            /\ UNCHANGED <<nextCollId, hashKeys, ownerKeys>>
        BY <2>1, <2>2, <2>6, OneRecord
    <3> QED
        BY <2>5, <3>1
  <2>7. CASE UNCHANGED regVars
      BY <2>1, <2>7, SameKeysStep DEF regVars
  <2> QED
      BY <2>3, <2>4, <2>6, <2>7 DEF Next
<1> QED
    BY <1>1, <1>2, PTL DEF Spec, Indexed
============================================================================
