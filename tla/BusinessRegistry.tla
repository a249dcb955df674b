-------------------------- MODULE BusinessRegistry --------------------------
(***************************************************************************)
(* The BusinessRegistry Soroban contract                                   *)
(* (contracts/business_registry/src/lib.rs and storage.rs).                *)
(*                                                                         *)
(* A contract call is one transaction: it either runs to its end or leaves *)
(* the storage untouched, so each entry point is one action whose guards   *)
(* are the calls' early returns.  `signer` is the address whose            *)
(* require_auth() succeeds.  Time-to-live extensions and published events  *)
(* change nothing that a later call reads and are left out.                *)
(***************************************************************************)

CONSTANTS
    Ids,        \* business ids (BytesN<32>)
    Addresses,  \* Stellar addresses: owners, wallets, the administrator
    Hashes,     \* metadata hashes
    None        \* an absent storage entry

Business == [owner : Addresses, wallet : Addresses,
             metadata_hash : Hashes, active : BOOLEAN]

\* An absent entry is no value that the contract stores.
ASSUME NoneAssumption ==
    None \notin Business /\ None \notin Ids /\ None \notin Addresses

VARIABLES
    admin,         \* DataKey::Admin
    business,      \* DataKey::Business(id)
    walletIndex,   \* DataKey::WalletIndex(wallet)
    ownerIndex     \* DataKey::OwnerIndex(owner)

vars == <<admin, business, walletIndex, ownerIndex>>

TypeOK ==
    /\ admin \in Addresses \cup {None}
    /\ business \in [Ids -> Business \cup {None}]
    /\ walletIndex \in [Addresses -> Ids \cup {None}]
    /\ ownerIndex \in [Addresses -> Ids \cup {None}]

Exists(id) == business[id] # None

Active(id) == Exists(id) /\ business[id].active

-----------------------------------------------------------------------------
Init ==
    /\ admin = None
    /\ business = [id \in Ids |-> None]
    /\ walletIndex = [a \in Addresses |-> None]
    /\ ownerIndex = [a \in Addresses |-> None]

Initialize(signer) ==
    /\ admin = None
    /\ admin' = signer
    /\ UNCHANGED <<business, walletIndex, ownerIndex>>

\* The index entry `id` leads to a business that is still active.
IndexedActive(id) == id \in Ids /\ Active(id)

MayRegister(signer, id, wallet) ==
    /\ ~Exists(id)                              \* AlreadyExists
    /\ ~IndexedActive(ownerIndex[signer])       \* AlreadyRegistered
    /\ ~IndexedActive(walletIndex[wallet])      \* InvalidWallet

\* Mutant: owner and wallet are swapped in the two calls.
SaveSwappedIndexes(signer, wallet, id) ==
    /\ walletIndex' = [walletIndex EXCEPT ![signer] = id]
    /\ ownerIndex' = [ownerIndex EXCEPT ![wallet] = id]

SaveIndexes(signer, wallet, id) ==
    /\ walletIndex' = [walletIndex EXCEPT ![wallet] = id]
    /\ ownerIndex' = [ownerIndex EXCEPT ![signer] = id]

RegisterBusiness(signer, id, wallet, hash) ==
    /\ MayRegister(signer, id, wallet)
    /\ business' = [business EXCEPT ![id] =
           [owner |-> signer, wallet |-> wallet,
            metadata_hash |-> hash, active |-> TRUE]]
    /\ SaveIndexes(signer, wallet, id)
    /\ UNCHANGED admin

\* Mutant: the Inactive check is forgotten.
UpdateInactiveMetadata(signer, id, hash) ==
    /\ Exists(id)
    /\ signer = business[id].owner
    /\ business' = [business EXCEPT ![id].metadata_hash = hash]
    /\ UNCHANGED <<admin, walletIndex, ownerIndex>>

UpdateMetadata(signer, id, hash) ==
    /\ Active(id)                               \* NotFound, Inactive
    /\ signer = business[id].owner
    /\ business' = [business EXCEPT ![id].metadata_hash = hash]
    /\ UNCHANGED <<admin, walletIndex, ownerIndex>>

\* Mutant: deactivation removes the record instead of clearing its flag.
DeactivateByRemoval(signer, id) ==
    /\ Active(id)
    /\ signer = business[id].owner
    /\ business' = [business EXCEPT ![id] = None]
    /\ UNCHANGED <<admin, walletIndex, ownerIndex>>

\* Only the flag is cleared: both index entries stay behind.
DeactivateBusiness(signer, id) ==
    /\ Active(id)                               \* NotFound, Inactive
    /\ signer = business[id].owner
    /\ business' = [business EXCEPT ![id].active = FALSE]
    /\ UNCHANGED <<admin, walletIndex, ownerIndex>>

\* get_business_by_wallet: the id whose record the query returns, or None.
BusinessByWallet(wallet) ==
    IF walletIndex[wallet] # None /\ Exists(walletIndex[wallet])
    THEN walletIndex[wallet]
    ELSE None

Next ==
    \E signer \in Addresses :
        \/ Initialize(signer)
        \/ \E id \in Ids, wallet \in Addresses, hash \in Hashes :
               RegisterBusiness(signer, id, wallet, hash)
        \/ \E id \in Ids, hash \in Hashes : UpdateMetadata(signer, id, hash)
        \/ \E id \in Ids : DeactivateBusiness(signer, id)

Spec == Init /\ [][Next]_vars

-----------------------------------------------------------------------------
(* No owner and no wallet stands behind two active businesses.  The        *)
(* contract never looks at all businesses: it trusts one index entry per   *)
(* owner and per wallet, entries that deactivation leaves behind and that  *)
(* a later registration overwrites.                                        *)
NoSharedClaim ==
    \A i, j \in Ids :
        i # j /\ Active(i) /\ Active(j) =>
            /\ business[i].owner # business[j].owner
            /\ business[i].wallet # business[j].wallet

(* The two indexes are current: each leads from the owner and from the     *)
(* wallet of every active business to that business.                       *)
ActiveIsIndexed ==
    \A i \in Ids :
        Active(i) =>
            /\ ownerIndex[business[i].owner] = i
            /\ walletIndex[business[i].wallet] = i

(* No index entry dangles or leads to a business of someone else.          *)
IndexIsSound ==
    \A a \in Addresses :
        /\ ownerIndex[a] # None =>
               Exists(ownerIndex[a]) /\ business[ownerIndex[a]].owner = a
        /\ walletIndex[a] # None =>
               Exists(walletIndex[a]) /\ business[walletIndex[a]].wallet = a

(* What makes it work: after every call both indexes lead to the active    *)
(* businesses, and the entries left behind lead to their own businesses.   *)
IndexInv == ActiveIsIndexed /\ IndexIsSound

(* get_business_by_wallet finds the active business of a wallet when there *)
(* is one, and what it returns always belongs to the wallet asked for.     *)
WalletLookup ==
    \A w \in Addresses :
        /\ \A i \in Ids :
               Active(i) /\ business[i].wallet = w => BusinessByWallet(w) = i
        /\ BusinessByWallet(w) # None => business[BusinessByWallet(w)].wallet = w

(* A record is never removed or handed to another owner or wallet, and a   *)
(* deactivated one never changes again: there is no way back to active.    *)
HistoryStep ==
    \A i \in Ids :
        Exists(i) =>
            /\ Exists(i)'
            /\ business'[i].owner = business[i].owner
            /\ business'[i].wallet = business[i].wallet
            /\ ~business[i].active => business'[i] = business[i]

HistoryKept == [][HistoryStep]_vars

-----------------------------------------------------------------------------
\* The claims that the stored records amount to.
ActiveClaims ==
    {[id |-> i, owner |-> business[i].owner, wallet |-> business[i].wallet] :
        i \in {k \in Ids : Active(k)}}

Claims == INSTANCE ExclusiveClaims
    WITH claims <- ActiveClaims, spent <- {i \in Ids : Exists(i)}

(* The contract, reading two index entries per registration, behaves like  *)
(* a registry that compares a new claim with all claims held.              *)
ImplementsClaims == Claims!Spec
=============================================================================
