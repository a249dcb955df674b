------------------------ MODULE AttestationRegistry ------------------------
(***************************************************************************)
(* The AttestationRegistry Soroban contract                                *)
(* (contracts/attestation_registry/src/lib.rs and storage.rs).             *)
(*                                                                         *)
(* One action per entry point; `signer` is the address whose               *)
(* require_auth() succeeds.  Hashes and the issuing ledger are never read  *)
(* again and are left out of the records.                                  *)
(***************************************************************************)

CONSTANTS
    AttestationIds, EventIds, Addresses,
    None            \* an absent storage entry

Attester == [active : BOOLEAN]

Attestation == [event_id : EventIds, attester : Addresses,
                status : {"Active", "Revoked"}]

\* An absent entry is no value that the contract stores.
ASSUME NoneAssumption ==
    None \notin Attester /\ None \notin Attestation /\ None \notin Addresses

VARIABLES
    admin,         \* DataKey::Admin
    attester,      \* DataKey::Attester(address)
    attestation    \* DataKey::Attestation(id)

registry == <<admin, attester, attestation>>

RegistryTypeOK ==
    /\ admin \in Addresses \cup {None}
    /\ attester \in [Addresses -> Attester \cup {None}]
    /\ attestation \in [AttestationIds -> Attestation \cup {None}]

RegistryInit ==
    /\ admin = None
    /\ attester = [a \in Addresses |-> None]
    /\ attestation = [id \in AttestationIds |-> None]

Issued(id) == attestation[id] # None

ActiveAttester(a) == attester[a] # None /\ attester[a].active

-----------------------------------------------------------------------------
Initialize(signer) ==
    /\ admin = None
    /\ admin' = signer
    /\ UNCHANGED <<attester, attestation>>

\* An attester that was deactivated may be registered again.
RegisterAttester(signer, a) ==
    /\ signer = admin
    /\ ~ActiveAttester(a)                       \* AlreadyExists
    /\ attester' = [attester EXCEPT ![a] = [active |-> TRUE]]
    /\ UNCHANGED <<admin, attestation>>

DeactivateAttester(signer, a) ==
    /\ signer = admin
    /\ ActiveAttester(a)                        \* NotFound, Inactive
    /\ attester' = [attester EXCEPT ![a].active = FALSE]
    /\ UNCHANGED <<admin, attestation>>

\* The event is not looked up: it belongs to another contract.
CreateAttestation(id, event_id, signer) ==
    /\ ActiveAttester(signer)                   \* InvalidAttester, InactiveAttester
    /\ ~Issued(id)                              \* DuplicateAttestation
    /\ attestation' = [attestation EXCEPT ![id] =
           [event_id |-> event_id, attester |-> signer, status |-> "Active"]]
    /\ UNCHANGED <<admin, attester>>

\* The issuer may revoke after its own deactivation.
RevokeAttestation(id, signer) ==
    /\ Issued(id)                               \* NotFound
    /\ signer = attestation[id].attester
    /\ attestation[id].status = "Active"        \* InvalidState
    /\ attestation' = [attestation EXCEPT ![id].status = "Revoked"]
    /\ UNCHANGED <<admin, attester>>

Administer ==
    \E signer \in Addresses :
        \/ Initialize(signer)
        \/ \E a \in Addresses : RegisterAttester(signer, a)
        \/ \E a \in Addresses : DeactivateAttester(signer, a)

\* The calls that change attestation id.
Attest(id) ==
    \E signer \in Addresses :
        \/ \E event_id \in EventIds : CreateAttestation(id, event_id, signer)
        \/ RevokeAttestation(id, signer)

RegistryNext == Administer \/ \E id \in AttestationIds : Attest(id)

RegistrySpec == RegistryInit /\ [][RegistryNext]_registry

=============================================================================
