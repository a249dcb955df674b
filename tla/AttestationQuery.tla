-------------------------- MODULE AttestationQuery --------------------------
(***************************************************************************)
(* The SDK's reads of attestations through its query cache                 *)
(* (packages/sdk/src/cache/query-cache.ts,                                 *)
(* packages/sdk/src/contracts/attestation-registry.ts), in one process,    *)
(* over the contract that this and other processes write to.               *)
(*                                                                         *)
(* What a read returns is abstracted to the attestation's status: absent,  *)
(* Active or Revoked; is_valid_attestation tells Active from the rest.     *)
(* A read with bypassCache touches no state and is not a step.             *)
(***************************************************************************)
EXTENDS AttestationRegistry, Integers

CONSTANTS
    Methods,    \* get_attestation, is_valid_attestation
    Ttl,        \* ttlMs
    LoadTime,   \* assumed: a query is answered or fails within this time
    MaxTime     \* bound on the clock

Keys == Methods \X AttestationIds


VARIABLES
    clock,       \* Date.now()
    store,       \* QueryCache.store
    inFlight,    \* QueryCache.inFlight: the loads of a key not yet answered
    writing,     \* attestations whose own write awaits submitAndWait
    confirmed,   \* history: status at the last own write that was confirmed
    raced,       \* history: keys with a load in flight at that moment
    answered,    \* history: what a cached read of the key last returned
    changedAt    \* history: when the attestation last changed

cache == <<store, inFlight>>
history == <<confirmed, raced, answered, changedAt>>
vars == <<registry, clock, cache, writing, history>>

Status(id) == IF Issued(id) THEN attestation[id].status ELSE "absent"

\* The order in which an attestation can have the three statuses.
Age(status) == CASE status = "absent" -> 0 [] status = "Active" -> 1
                 [] status = "Revoked" -> 2

Statuses == {"absent", "Active", "Revoked"}

Entry == [status : Statuses, expiresAt : Nat]

Load == [startedAt : 0..MaxTime, status : Statuses \cup {None}]

\* None is neither a status nor an entry of the cache.
ASSUME CacheAssumption ==
    /\ {Ttl, LoadTime, MaxTime} \subseteq Nat
    /\ None \notin Statuses /\ None \notin Entry

TypeOK ==
    /\ RegistryTypeOK
    /\ clock \in 0..MaxTime
    /\ store \in [Keys -> Entry \cup {None}]
    /\ inFlight \in [Keys -> SUBSET Load]
    /\ writing \subseteq AttestationIds
    /\ confirmed \in [AttestationIds -> Statuses]
    /\ raced \subseteq Keys
    /\ answered \in [Keys -> Statuses]
    /\ changedAt \in [AttestationIds -> 0..MaxTime]

Init ==
    /\ RegistryInit
    /\ clock = 0
    /\ store = [k \in Keys |-> None]
    /\ inFlight = [k \in Keys |-> {}]
    /\ writing = {}
    /\ confirmed = [id \in AttestationIds |-> "absent"]
    /\ raced = {}
    /\ answered = [k \in Keys |-> "absent"]
    /\ changedAt = [id \in AttestationIds |-> 0]

-----------------------------------------------------------------------------
(* Reads.                                                                  *)

\* Mutant: an entry is used whether it has expired or not.
FreshForEver(k) == store[k] # None

Fresh(k) == store[k] # None /\ store[k].expiresAt > clock

\* get: a hit.
Hit(k) ==
    /\ Fresh(k)
    /\ answered' = [answered EXCEPT ![k] = store[k].status]
    /\ UNCHANGED <<registry, clock, cache, writing, confirmed, raced, changedAt>>

\* Mutant: a miss never joins the request under way.
MayAlwaysLoad(k) == ~Fresh(k)

\* A read that finds a request under way joins it, which is not a step.
MayLoad(k) == ~Fresh(k) /\ inFlight[k] = {}

\* get: a miss calls the loader.
StartLoad(k) ==
    /\ MayLoad(k)
    /\ inFlight' = [inFlight EXCEPT ![k] =
           @ \cup {[startedAt |-> clock, status |-> None]}]
    /\ raced' = raced \ {k}
    /\ UNCHANGED <<registry, clock, store, writing, confirmed, answered, changedAt>>

\* The RPC server evaluates the query.
Evaluate(k, load) ==
    /\ load.status = None
    /\ inFlight' = [inFlight EXCEPT ![k] =
           (@ \ {load}) \cup {[load EXCEPT !.status = Status(k[2])]}]
    /\ UNCHANGED <<registry, clock, store, writing, history>>

\* The answer arrives: it is stored and given to every reader that joined.
Answer(k, load) ==
    /\ load.status # None
    /\ store' = [store EXCEPT ![k] =
           [status |-> load.status, expiresAt |-> clock + Ttl]]
    /\ inFlight' = [inFlight EXCEPT ![k] = @ \ {load}]
    /\ answered' = [answered EXCEPT ![k] = load.status]
    /\ UNCHANGED <<registry, clock, writing, confirmed, raced, changedAt>>

\* Mutant: the outcome is stored whether there is a value or not.
StoreFailure(k, load) ==
    /\ store' = [store EXCEPT ![k] = [status |-> None, expiresAt |-> clock + Ttl]]
    /\ inFlight' = [inFlight EXCEPT ![k] = @ \ {load}]
    /\ UNCHANGED <<registry, clock, writing, history>>

\* The loader throws.
LoadFails(k, load) ==
    /\ inFlight' = [inFlight EXCEPT ![k] = @ \ {load}]
    /\ UNCHANGED <<registry, clock, store, writing, history>>

-----------------------------------------------------------------------------
(* Writes, of this process and of others.                                  *)

\* A write of the attestation takes effect on the chain.
Write(id) ==
    /\ Attest(id)
    /\ changedAt' = [changedAt EXCEPT ![id] = clock]
    /\ writing' \in {writing, writing \cup {id}}
    /\ UNCHANGED <<clock, cache, confirmed, raced, answered>>

\* Mutant: only one of the two keys is invalidated.
InvalidateFirst(id) ==
    store' = [store EXCEPT ![<<CHOOSE m \in Methods : TRUE, id>>] = None]

\* defaultQueryCache.invalidate for both keys; requests under way go on.
Invalidate(id) == store' = [k \in Keys |-> IF k[2] = id THEN None ELSE store[k]]

\* submitAndWait returns to createAttestation or revokeAttestation.
WriteConfirmed(id) ==
    /\ id \in writing
    /\ Invalidate(id)
    /\ writing' = writing \ {id}
    /\ confirmed' = [confirmed EXCEPT ![id] = Status(id)]
    /\ raced' = raced \cup {k \in Keys : k[2] = id /\ inFlight[k] # {}}
    /\ UNCHANGED <<registry, clock, inFlight, answered, changedAt>>

\* submitAndWait throws although the transaction was applied.
WriteUnconfirmed(id) ==
    /\ id \in writing
    /\ writing' = writing \ {id}
    /\ UNCHANGED <<registry, clock, cache, history>>

Govern == Administer /\ UNCHANGED <<clock, cache, writing, history>>

\* Time passes.  simulateRead sets no deadline: that a query does not stay open
\* longer than LoadTime is what the HTTP connection is assumed to ensure.
Tick ==
    /\ clock < MaxTime
    /\ \A k \in Keys : \A load \in inFlight[k] : clock < load.startedAt + LoadTime
    /\ clock' = clock + 1
    /\ UNCHANGED <<registry, cache, writing, history>>

Next ==
    \/ \E k \in Keys :
        \/ Hit(k) \/ StartLoad(k)
        \/ \E load \in inFlight[k] :
               Evaluate(k, load) \/ Answer(k, load) \/ LoadFails(k, load)
    \/ \E id \in AttestationIds :
        Write(id) \/ WriteConfirmed(id) \/ WriteUnconfirmed(id)
    \/ Govern \/ Tick

Spec == Init /\ [][Next]_vars

-----------------------------------------------------------------------------
(* A cached read can be out of date, but not for longer than the TTL and   *)
(* one load after the last change (query-cache.ts: "any staleness ... is    *)
(* bounded and small").                                                    *)
BoundedStaleness ==
    \A k \in Keys :
        Fresh(k) /\ store[k].status # Status(k[2]) =>
            clock < changedAt[k[2]] + Ttl + LoadTime

(* The cached reads of a key never go back in time: no reader is told that *)
(* an attestation is valid after one was told that it is revoked.  Joining *)
(* the request under way is what keeps answers from overtaking each other. *)
ReadsInOrder ==
    [][\A k \in Keys : Age(answered'[k]) >= Age(answered[k])]_vars

(* After an own write is confirmed, cached reads show it or what came      *)
(* after it, unless a request was under way at that moment.                *)
OwnWritesSeen ==
    \A k \in Keys :
        Fresh(k) /\ k \notin raced =>
            Age(store[k].status) >= Age(confirmed[k[2]])

(* packages/sdk/README.md: the write functions invalidate the entries they *)
(* affect, "so a read immediately after a write does not see a stale       *)
(* value".                                                                 *)
ReadAfterWrite ==
    \A k \in Keys :
        Fresh(k) => Age(store[k].status) >= Age(confirmed[k[2]])
=============================================================================
