----------------------- MODULE BusinessRegistryProofs -----------------------
(***************************************************************************)
(* Proofs about the business registry, for any sets of ids, addresses and  *)
(* hashes.  The argument: the two index entries a registration reads are   *)
(* enough because every active business is the one its owner's and its     *)
(* wallet's entries lead to (ActiveIsIndexed).                             *)
(***************************************************************************)
EXTENDS BusinessRegistry, TLAPS

(* Every state of every behaviour has the stored types: an index holds ids *)
(* and nothing else (contracts/business_registry/src/storage.rs).          *)
THEOREM TypeCorrect == Spec => []TypeOK
<1>1. Init => TypeOK
  BY DEF Init, TypeOK
<1>2. TypeOK /\ [Next]_vars => TypeOK'
  <2> SUFFICES ASSUME TypeOK, [Next]_vars
               PROVE  TypeOK'
    OBVIOUS
  <2>1. ASSUME NEW signer \in Addresses, Initialize(signer)
        PROVE  TypeOK'
    BY <2>1 DEF Initialize, TypeOK
  <2>2. ASSUME NEW signer \in Addresses, NEW id \in Ids,
               NEW wallet \in Addresses, NEW hash \in Hashes,
               RegisterBusiness(signer, id, wallet, hash)
        PROVE  TypeOK'
    BY <2>2 DEF RegisterBusiness, SaveIndexes, TypeOK, Business
  <2>3. ASSUME NEW signer \in Addresses, NEW id \in Ids, NEW hash \in Hashes,
               UpdateMetadata(signer, id, hash)
        PROVE  TypeOK'
    <3>1. business[id] \in Business
      BY <2>3 DEF UpdateMetadata, Active, Exists, TypeOK
    <3>2. [business[id] EXCEPT !.metadata_hash = hash] \in Business
      BY <3>1 DEF Business
    <3> QED
      BY <2>3, <3>2 DEF UpdateMetadata, TypeOK
  <2>4. ASSUME NEW signer \in Addresses, NEW id \in Ids,
               DeactivateBusiness(signer, id)
        PROVE  TypeOK'
    <3>1. business[id] \in Business
      BY <2>4 DEF DeactivateBusiness, Active, Exists, TypeOK
    <3>2. [business[id] EXCEPT !.active = FALSE] \in Business
      BY <3>1 DEF Business
    <3> QED
      BY <2>4, <3>2 DEF DeactivateBusiness, TypeOK
  <2>5. CASE UNCHANGED vars
    BY <2>5 DEF vars, TypeOK
  <2> QED
    BY <2>1, <2>2, <2>3, <2>4, <2>5 DEF Next
<1> QED
  BY <1>1, <1>2, PTL DEF Spec

(* What one call does to the index invariant. *)
LEMMA IndexStep == TypeOK /\ IndexInv /\ [Next]_vars => IndexInv'
<1> SUFFICES ASSUME TypeOK, ActiveIsIndexed, IndexIsSound, [Next]_vars
             PROVE  ActiveIsIndexed' /\ IndexIsSound'
  BY DEF IndexInv
<1>1. ASSUME NEW signer \in Addresses, Initialize(signer)
      PROVE  ActiveIsIndexed' /\ IndexIsSound'
  BY <1>1 DEF Initialize, ActiveIsIndexed, IndexIsSound, Active, Exists
<1>2. ASSUME NEW signer \in Addresses, NEW id \in Ids,
             NEW wallet \in Addresses, NEW hash \in Hashes,
             RegisterBusiness(signer, id, wallet, hash)
      PROVE  ActiveIsIndexed' /\ IndexIsSound'
  <2> DEFINE new == [owner |-> signer, wallet |-> wallet,
                     metadata_hash |-> hash, active |-> TRUE]
  <2>1. /\ business' = [business EXCEPT ![id] = new]
        /\ walletIndex' = [walletIndex EXCEPT ![wallet] = id]
        /\ ownerIndex' = [ownerIndex EXCEPT ![signer] = id]
        /\ ~Exists(id)
        /\ ~IndexedActive(ownerIndex[signer])
        /\ ~IndexedActive(walletIndex[wallet])
    BY <1>2 DEF RegisterBusiness, MayRegister, SaveIndexes
  <2>2. new \in Business /\ new # None
    <3>1. new \in Business
      BY DEF Business
    <3> QED
      BY <3>1, NoneAssumption
  <2>3. ASSUME NEW i \in Ids, Active(i)'
        PROVE  ownerIndex'[business'[i].owner] = i /\ walletIndex'[business'[i].wallet] = i
    <3>1. CASE i = id
      BY <3>1, <2>1 DEF TypeOK
    <3>2. CASE i # id
      <4>1. business'[i] = business[i] /\ Active(i)
        BY <3>2, <2>1, <2>3 DEF Active, Exists, TypeOK
      <4>2. ownerIndex[business[i].owner] = i /\ walletIndex[business[i].wallet] = i
        BY <4>1 DEF ActiveIsIndexed
      <4>3. business[i].owner # signer /\ business[i].wallet # wallet
        BY <4>1, <4>2, <2>1 DEF IndexedActive
      <4>4. business[i].owner \in Addresses /\ business[i].wallet \in Addresses
        BY <4>1 DEF TypeOK, Business, Active, Exists
      <4> QED
        BY <4>1, <4>2, <4>3, <4>4, <2>1 DEF TypeOK
    <3> QED
      BY <3>1, <3>2
  <2>4. ASSUME NEW a \in Addresses, ownerIndex'[a] # None
        PROVE  Exists(ownerIndex[a])' /\ business'[ownerIndex'[a]].owner = a
    <3>1. CASE a = signer
      BY <3>1, <2>1, <2>2 DEF Exists, TypeOK
    <3>2. CASE a # signer
      <4>1. ownerIndex'[a] = ownerIndex[a] /\ ownerIndex[a] \in Ids
        BY <3>2, <2>1, <2>4 DEF TypeOK
      <4>2. Exists(ownerIndex[a]) /\ business[ownerIndex[a]].owner = a
        BY <4>1, <2>4 DEF IndexIsSound
      <4>3. ownerIndex[a] # id
        BY <4>2, <2>1
      <4> QED
        BY <4>1, <4>2, <4>3, <2>1 DEF Exists, TypeOK
    <3> QED
      BY <3>1, <3>2
  <2>5. ASSUME NEW a \in Addresses, walletIndex'[a] # None
        PROVE  Exists(walletIndex[a])' /\ business'[walletIndex'[a]].wallet = a
    <3>1. CASE a = wallet
      BY <3>1, <2>1, <2>2 DEF Exists, TypeOK
    <3>2. CASE a # wallet
      <4>1. walletIndex'[a] = walletIndex[a] /\ walletIndex[a] \in Ids
        BY <3>2, <2>1, <2>5 DEF TypeOK
      <4>2. Exists(walletIndex[a]) /\ business[walletIndex[a]].wallet = a
        BY <4>1, <2>5 DEF IndexIsSound
      <4>3. walletIndex[a] # id
        BY <4>2, <2>1
      <4> QED
        BY <4>1, <4>2, <4>3, <2>1 DEF Exists, TypeOK
    <3> QED
      BY <3>1, <3>2
  <2> QED
    BY <2>3, <2>4, <2>5 DEF ActiveIsIndexed, IndexIsSound
<1>3. ASSUME NEW signer \in Addresses, NEW id \in Ids, NEW hash \in Hashes,
             UpdateMetadata(signer, id, hash)
      PROVE  ActiveIsIndexed' /\ IndexIsSound'
  <2>1. business[id] \in Business
    BY <1>3 DEF UpdateMetadata, Active, Exists, TypeOK
  <2>2. \A i \in Ids : /\ Exists(i)' <=> Exists(i)
                       /\ Active(i)' <=> Active(i)
                       /\ business'[i].owner = business[i].owner
                       /\ business'[i].wallet = business[i].wallet
    BY <1>3, <2>1, NoneAssumption DEF UpdateMetadata, Active, Exists, TypeOK, Business
  <2> QED
    BY <1>3, <2>2 DEF UpdateMetadata, ActiveIsIndexed, IndexIsSound, TypeOK
<1>4. ASSUME NEW signer \in Addresses, NEW id \in Ids,
             DeactivateBusiness(signer, id)
      PROVE  ActiveIsIndexed' /\ IndexIsSound'
  <2>1. business[id] \in Business
    BY <1>4 DEF DeactivateBusiness, Active, Exists, TypeOK
  <2>2. \A i \in Ids : /\ Exists(i)' <=> Exists(i)
                       /\ Active(i)' => Active(i)
                       /\ business'[i].owner = business[i].owner
                       /\ business'[i].wallet = business[i].wallet
    BY <1>4, <2>1, NoneAssumption DEF DeactivateBusiness, Active, Exists, TypeOK, Business
  <2> QED
    BY <1>4, <2>2 DEF DeactivateBusiness, ActiveIsIndexed, IndexIsSound, TypeOK
<1>5. CASE UNCHANGED vars
  BY <1>5 DEF vars, ActiveIsIndexed, IndexIsSound, Active, Exists
<1> QED
  BY <1>1, <1>2, <1>3, <1>4, <1>5 DEF Next

(* Both indexes lead to the active businesses and to nobody else's, after  *)
(* any sequence of registrations, updates and deactivations.               *)
THEOREM IndexCorrect == Spec => []IndexInv
<1>1. Init => IndexInv
  BY DEF Init, IndexInv, ActiveIsIndexed, IndexIsSound, Active, Exists
<1> QED
  BY <1>1, IndexStep, TypeCorrect, PTL DEF Spec

(* The rules register_business states: an owner owns one active business   *)
(* at most and a wallet serves one at most.                                *)
THEOREM ClaimsAreExclusive == Spec => []NoSharedClaim
<1>1. IndexInv => NoSharedClaim
  BY DEF IndexInv, ActiveIsIndexed, NoSharedClaim
<1> QED
  BY <1>1, IndexCorrect, PTL

(* get_business_by_wallet returns the wallet's active business whenever    *)
(* there is one and never a business of another wallet.                    *)
THEOREM LookupCorrect == Spec => []WalletLookup
<1>1. TypeOK /\ IndexInv => WalletLookup
  <2> SUFFICES ASSUME TypeOK, IndexInv, NEW w \in Addresses
               PROVE  /\ \A i \in Ids : Active(i) /\ business[i].wallet = w =>
                                            BusinessByWallet(w) = i
                      /\ BusinessByWallet(w) # None =>
                             business[BusinessByWallet(w)].wallet = w
    BY DEF WalletLookup
  <2>1. ASSUME NEW i \in Ids, Active(i), business[i].wallet = w
        PROVE  BusinessByWallet(w) = i
    BY <2>1, NoneAssumption DEF IndexInv, ActiveIsIndexed, BusinessByWallet, Active
  <2>2. ASSUME BusinessByWallet(w) # None
        PROVE  business[BusinessByWallet(w)].wallet = w
    BY <2>2 DEF BusinessByWallet, IndexInv, IndexIsSound
  <2> QED
    BY <2>1, <2>2
<1> QED
  BY <1>1, TypeCorrect, IndexCorrect, PTL

(* No call removes a record, moves it to another owner or wallet, or       *)
(* touches it once it is deactivated.                                      *)
THEOREM HistoryIsKept == Spec => HistoryKept
<1>1. TypeOK /\ [Next]_vars => [HistoryStep]_vars
  <2> SUFFICES ASSUME TypeOK, Next
               PROVE  HistoryStep
    OBVIOUS
  <2> SUFFICES ASSUME NEW i \in Ids, Exists(i)
               PROVE  /\ Exists(i)'
                      /\ business'[i].owner = business[i].owner
                      /\ business'[i].wallet = business[i].wallet
                      /\ ~business[i].active => business'[i] = business[i]
    BY DEF HistoryStep
  <2>0. business[i] \in Business
    BY DEF TypeOK, Exists
  <2>1. ASSUME NEW signer \in Addresses, Initialize(signer)
        PROVE  business' = business
    BY <2>1 DEF Initialize
  <2>2. ASSUME NEW signer \in Addresses, NEW id \in Ids,
               NEW wallet \in Addresses, NEW hash \in Hashes,
               RegisterBusiness(signer, id, wallet, hash)
        PROVE  business'[i] = business[i]
    BY <2>2 DEF RegisterBusiness, MayRegister, Exists, TypeOK
  <2>3. ASSUME NEW signer \in Addresses, NEW id \in Ids, NEW hash \in Hashes,
               UpdateMetadata(signer, id, hash)
        PROVE  \/ business'[i] = business[i]
               \/ /\ business[i].active
                  /\ business'[i] = [business[i] EXCEPT !.metadata_hash = hash]
    BY <2>3 DEF UpdateMetadata, Active, TypeOK
  <2>4. ASSUME NEW signer \in Addresses, NEW id \in Ids,
               DeactivateBusiness(signer, id)
        PROVE  \/ business'[i] = business[i]
               \/ /\ business[i].active
                  /\ business'[i] = [business[i] EXCEPT !.active = FALSE]
    BY <2>4 DEF DeactivateBusiness, Active, TypeOK
  <2> DEFINE keeps == /\ business'[i].owner = business[i].owner
                      /\ business'[i].wallet = business[i].wallet
                      /\ business'[i] \in Business
  <2>5. ASSUME NEW hash \in Hashes,
               business'[i] = [business[i] EXCEPT !.metadata_hash = hash]
        PROVE  keeps
    BY <2>0, <2>5 DEF Business
  <2>6. ASSUME business'[i] = [business[i] EXCEPT !.active = FALSE]
        PROVE  keeps
    BY <2>0, <2>6 DEF Business
  <2>7. \/ business'[i] = business[i]
        \/ business[i].active /\ keeps
    BY <2>1, <2>2, <2>3, <2>4, <2>5, <2>6 DEF Next
  <2> QED
    BY <2>0, <2>7, NoneAssumption DEF Exists
<1> QED
  BY <1>1, TypeCorrect, PTL DEF Spec, HistoryKept

(* The registry that reads two index entries per registration implements   *)
(* the one that compares a new claim with all claims held, so nothing is   *)
(* lost by not scanning the businesses.                                    *)
THEOREM Refinement == Spec => ImplementsClaims
<1>1. Init => Claims!Init
  BY DEF Init, Claims!Init, ActiveClaims, Active, Exists
<1>2. TypeOK /\ IndexInv /\ [Next]_vars => [Claims!Next]_Claims!vars
  <2> SUFFICES ASSUME TypeOK, IndexInv, [Next]_vars
               PROVE  Claims!Next \/ UNCHANGED <<ActiveClaims, {i \in Ids : Exists(i)}>>
    BY DEF Claims!vars
  <2> DEFINE used == {i \in Ids : Exists(i)}
             claim(i) == [id |-> i, owner |-> business[i].owner,
                          wallet |-> business[i].wallet]
  <2>1. ASSUME NEW signer \in Addresses, Initialize(signer)
        PROVE  UNCHANGED <<ActiveClaims, used>>
    BY <2>1 DEF Initialize, ActiveClaims, Active, Exists
  <2>2. ASSUME NEW signer \in Addresses, NEW id \in Ids,
               NEW wallet \in Addresses, NEW hash \in Hashes,
               RegisterBusiness(signer, id, wallet, hash)
        PROVE  Claims!Claim(id, signer, wallet)
    <3> DEFINE new == [owner |-> signer, wallet |-> wallet,
                       metadata_hash |-> hash, active |-> TRUE]
               added == [id |-> id, owner |-> signer, wallet |-> wallet]
    <3>1. /\ business' = [business EXCEPT ![id] = new]
          /\ ~Exists(id)
          /\ ~IndexedActive(ownerIndex[signer])
          /\ ~IndexedActive(walletIndex[wallet])
      BY <2>2 DEF RegisterBusiness, MayRegister
    <3>2. new # None
      <4>1. new \in Business
        BY DEF Business
      <4> QED
        BY <4>1, NoneAssumption
    <3>3. business'[id] = new /\ \A i \in Ids \ {id} : business'[i] = business[i]
      BY <3>1 DEF TypeOK
    <3>4. used' = used \cup {id} /\ id \notin used
      BY <3>1, <3>2, <3>3 DEF Exists
    <3>5. /\ business'[id].active
          /\ business'[id].owner = signer
          /\ business'[id].wallet = wallet
      BY <3>3
    <3>6. /\ Active(id)' /\ ~Active(id)
          /\ \A i \in Ids \ {id} : Active(i)' <=> Active(i)
      BY <3>1, <3>2, <3>3, <3>5 DEF Active, Exists
    <3>7. ActiveClaims' = ActiveClaims \cup {added}
      BY <3>3, <3>5, <3>6 DEF ActiveClaims
    <3>8. \A c \in ActiveClaims : c.owner # signer /\ c.wallet # wallet
      <4> SUFFICES ASSUME NEW i \in Ids, Active(i)
                   PROVE  business[i].owner # signer /\ business[i].wallet # wallet
        BY DEF ActiveClaims
      <4> QED
        BY <3>1 DEF IndexInv, ActiveIsIndexed, IndexedActive
    <3> QED
      BY <3>4, <3>7, <3>8 DEF Claims!Claim
  <2>3. ASSUME NEW signer \in Addresses, NEW id \in Ids, NEW hash \in Hashes,
               UpdateMetadata(signer, id, hash)
        PROVE  UNCHANGED <<ActiveClaims, used>>
    <3>1. business[id] \in Business
      BY <2>3 DEF UpdateMetadata, Active, Exists, TypeOK
    <3>2. \A i \in Ids : /\ Exists(i)' <=> Exists(i)
                         /\ Active(i)' <=> Active(i)
                         /\ business'[i].owner = business[i].owner
                         /\ business'[i].wallet = business[i].wallet
      BY <2>3, <3>1, NoneAssumption
      DEF UpdateMetadata, Active, Exists, TypeOK, Business
    <3> QED
      BY <3>2 DEF ActiveClaims
  <2>4. ASSUME NEW signer \in Addresses, NEW id \in Ids,
               DeactivateBusiness(signer, id)
        PROVE  claim(id) \in ActiveClaims /\ Claims!Release(claim(id))
    <3>1. business[id] \in Business /\ Active(id)
      BY <2>4 DEF DeactivateBusiness, Active, Exists, TypeOK
    <3>2. /\ \A i \in Ids : /\ Exists(i)' <=> Exists(i)
                            /\ business'[i].owner = business[i].owner
                            /\ business'[i].wallet = business[i].wallet
          /\ \A i \in Ids \ {id} : Active(i)' <=> Active(i)
          /\ ~Active(id)'
      BY <2>4, <3>1, NoneAssumption
      DEF DeactivateBusiness, Active, Exists, TypeOK, Business
    <3>3. claim(id) \in ActiveClaims
      BY <3>1 DEF ActiveClaims
    <3>4. ActiveClaims' = ActiveClaims \ {claim(id)}
      BY <3>1, <3>2 DEF ActiveClaims
    <3>5. used' = used
      BY <3>2
    <3> QED
      BY <3>3, <3>4, <3>5 DEF Claims!Release
  <2>5. CASE UNCHANGED vars
    BY <2>5 DEF vars, ActiveClaims, Active, Exists
  <2> QED
    BY <2>1, <2>2, <2>3, <2>4, <2>5 DEF Next, Claims!Next
<1> QED
  BY <1>1, <1>2, TypeCorrect, IndexCorrect, PTL DEF Spec, ImplementsClaims, Claims!Spec
=============================================================================
