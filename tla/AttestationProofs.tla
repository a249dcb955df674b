-------------------------- MODULE AttestationProofs --------------------------
(***************************************************************************)
(* Proofs about the two readers of the attestation contract, for any       *)
(* attestations, accounts, keys and times.                                 *)
(*                                                                         *)
(* The query cache: an attestation only grows older (absent, Active,       *)
(* Revoked), and a key has one load at most.  So a load answers with       *)
(* something no younger than the entry it replaces, and what it read was   *)
(* true at some moment since it began.                                     *)
(*                                                                         *)
(* The tables: whatever a form or a resync holds was read from the chain   *)
(* or put there by its own transaction, and the contract takes neither an  *)
(* attestation nor its revocation back.                                    *)
(***************************************************************************)
EXTENDS MCAttestation, FiniteSetTheorems, TLAPS

-----------------------------------------------------------------------------
(* The contract.                                                           *)

(* The contract's own steps keep its types; an attestation stays issued,   *)
(* by the same attester, and stays revoked.                                *)
LEMMA RegistryStep ==
    ASSUME RegistryTypeOK,
           UNCHANGED registry \/ Administer \/ \E id \in AttestationIds : Attest(id)
    PROVE  /\ RegistryTypeOK'
           /\ \A x \in AttestationIds : Issued(x) =>
                  /\ Issued(x)' /\ attestation'[x].attester = attestation[x].attester
                  /\ attestation[x].status = "Revoked" => attestation'[x].status = "Revoked"
<1>1. CASE UNCHANGED registry
  BY <1>1 DEF registry, RegistryTypeOK, Issued
<1>2. CASE Administer
  <2>1. PICK signer \in Addresses :
            \/ Initialize(signer)
            \/ \E a \in Addresses :
                   RegisterAttester(signer, a) \/ DeactivateAttester(signer, a)
    BY <1>2 DEF Administer
  <2>2. CASE Initialize(signer)
    BY <2>2 DEF Initialize, RegistryTypeOK, Issued
  <2>3. ASSUME NEW a \in Addresses, RegisterAttester(signer, a)
        PROVE  /\ admin' = admin /\ attestation' = attestation
               /\ attester' \in [Addresses -> Attester \cup {None}]
    BY <2>3 DEF RegisterAttester, RegistryTypeOK, Attester
  <2>4. ASSUME NEW a \in Addresses, DeactivateAttester(signer, a)
        PROVE  /\ admin' = admin /\ attestation' = attestation
               /\ attester' \in [Addresses -> Attester \cup {None}]
    <3>1. PICK old \in Attester : old = attester[a]
      BY <2>4 DEF DeactivateAttester, ActiveAttester, RegistryTypeOK
    <3>2. PICK new \in Attester : new = [old EXCEPT !.active = FALSE]
      BY DEF Attester
    <3>3. attester' = [attester EXCEPT ![a] = new]
      BY <2>4, <3>1, <3>2 DEF DeactivateAttester
    <3> QED
      BY <3>3, <2>4 DEF DeactivateAttester, RegistryTypeOK
  <2> QED
    BY <2>1, <2>2, <2>3, <2>4 DEF RegistryTypeOK, Issued
<1>3. ASSUME NEW id \in AttestationIds, Attest(id)
      PROVE  /\ RegistryTypeOK'
             /\ \A x \in AttestationIds : Issued(x) =>
                    /\ Issued(x)' /\ attestation'[x].attester = attestation[x].attester
                    /\ attestation[x].status = "Revoked" => attestation'[x].status = "Revoked"
  <2>1. PICK signer \in Addresses :
            \/ \E event_id \in EventIds : CreateAttestation(id, event_id, signer)
            \/ RevokeAttestation(id, signer)
    BY <1>3 DEF Attest
  <2>2. PICK new \in Attestation :
            /\ attestation' = [attestation EXCEPT ![id] = new]
            /\ Issued(id) => attestation[id].status = "Active"
                             /\ new.attester = attestation[id].attester
            /\ UNCHANGED <<admin, attester>>
    <3>1. ASSUME NEW event_id \in EventIds, CreateAttestation(id, event_id, signer)
          PROVE  \E new \in Attestation :
                     /\ attestation' = [attestation EXCEPT ![id] = new]
                     /\ Issued(id) => attestation[id].status = "Active"
                                      /\ new.attester = attestation[id].attester
                     /\ UNCHANGED <<admin, attester>>
      <4>1. PICK new \in Attestation :
                new = [event_id |-> event_id, attester |-> signer, status |-> "Active"]
        BY DEF Attestation
      <4> QED
        BY <3>1, <4>1 DEF CreateAttestation
    <3>2. CASE RevokeAttestation(id, signer)
      <4>1. PICK old \in Attestation : old = attestation[id]
        BY <3>2 DEF RevokeAttestation, RegistryTypeOK, Issued
      <4>2. PICK new : new = [old EXCEPT !.status = "Revoked"]
        OBVIOUS
      <4>3. new \in Attestation /\ new.attester = old.attester
        BY <4>2 DEF Attestation
      <4> QED
        BY <3>2, <4>1, <4>2, <4>3 DEF RevokeAttestation
    <3> QED
      BY <2>1, <3>1, <3>2
  <2>3. attestation' \in [AttestationIds -> Attestation \cup {None}]
    BY <2>2 DEF RegistryTypeOK
  <2>4. \A x \in AttestationIds : x # id => attestation'[x] = attestation[x]
    BY <2>2 DEF RegistryTypeOK
  <2>5. attestation'[id] = new /\ new # None
    BY <2>2, NoneAssumption DEF RegistryTypeOK
  <2> QED
    BY <2>2, <2>3, <2>4, <2>5 DEF RegistryTypeOK, Issued
<1> QED
  BY <1>1, <1>2, <1>3

-----------------------------------------------------------------------------
(* The query cache.                                                        *)

(* The constants that are numbers.                                         *)
LEMMA QueryNumbers == Ttl \in Nat /\ LoadTime \in Nat /\ MaxTime \in Nat
BY CacheAssumption

(* The ages of the statuses.                                               *)
LEMMA Ages ==
    /\ Age("absent") = 0 /\ Age("Active") = 1 /\ Age("Revoked") = 2
    /\ \A s \in Statuses : Age(s) \in Nat
BY DEF Age, Statuses

(* An attestation has one of the three.                                    *)
LEMMA StatusType ==
    ASSUME NEW id \in AttestationIds
    PROVE  /\ RegistryTypeOK => Status(id) \in Statuses
           /\ RegistryTypeOK' => Status(id)' \in Statuses
<1>1. RegistryTypeOK => attestation[id] \in Attestation \cup {None}
  BY DEF RegistryTypeOK
<1>2. RegistryTypeOK' => attestation'[id] \in Attestation \cup {None}
  BY DEF RegistryTypeOK
<1> QED
  BY <1>1, <1>2 DEF Status, Issued, Attestation, Statuses

(* A write of an attestation makes it older and leaves the others alone.   *)
LEMMA WriteAges ==
    ASSUME RegistryTypeOK, NEW id \in AttestationIds, Attest(id)
    PROVE  /\ Age(Status(id)) <= Age(Status(id)')
           /\ \A x \in AttestationIds : x # id => Status(x)' = Status(x)
<1>1. PICK signer \in Addresses :
          \/ \E event_id \in EventIds : CreateAttestation(id, event_id, signer)
          \/ RevokeAttestation(id, signer)
  BY DEF Attest
<1>2. \A x \in AttestationIds : x # id => attestation'[x] = attestation[x]
  BY <1>1 DEF CreateAttestation, RevokeAttestation, RegistryTypeOK
<1>3. RegistryTypeOK'
  BY RegistryStep
<1>4. Status(id) \in Statuses /\ Status(id)' \in Statuses
  BY <1>3, StatusType
<1>5. Status(id) = "Active" => Status(id)' \in {"Active", "Revoked"}
  <2> SUFFICES ASSUME Status(id) = "Active"
               PROVE  Status(id)' \in {"Active", "Revoked"}
    OBVIOUS
  <2>1. Issued(id)
    BY DEF Status
  <2>2. Issued(id)'
    BY <2>1, RegistryStep
  <2>3. attestation'[id] \in Attestation
    BY <1>3, <2>2 DEF RegistryTypeOK, Issued
  <2> QED
    BY <2>2, <2>3 DEF Status, Attestation
<1>6. Status(id) = "Revoked" => Status(id)' = "Revoked"
  <2> SUFFICES ASSUME Status(id) = "Revoked" PROVE Status(id)' = "Revoked"
    OBVIOUS
  <2>1. Issued(id) /\ attestation[id].status = "Revoked"
    BY DEF Status
  <2> QED
    BY <2>1, RegistryStep DEF Status
<1>7. \A s, t \in Statuses :
          (s = "Active" => t \in {"Active", "Revoked"}) /\ (s = "Revoked" => t = "Revoked")
          => Age(s) <= Age(t)
  BY Ages DEF Statuses
<1>8. \A x \in AttestationIds : x # id => Status(x)' = Status(x)
  BY <1>2 DEF Status, Issued
<1> QED
  BY <1>4, <1>5, <1>6, <1>7, <1>8

(* Governing the contract changes no attestation.                          *)
LEMMA GovernKeeps ==
    ASSUME Administer
    PROVE  /\ attestation' = attestation
           /\ \A x : Status(x)' = Status(x)
BY DEF Administer, Initialize, RegisterAttester, DeactivateAttester, Status, Issued

\* A load was begun not too long ago.  Once evaluated it is not behind what was
\* answered before, nor behind an own write that found no load under way, and
\* it was true since it began.
LoadOK(k, load) ==
    /\ load.startedAt <= clock /\ clock <= load.startedAt + LoadTime
    /\ load.status # None =>
           /\ Age(answered[k]) <= Age(load.status)
           /\ Age(load.status) <= Age(Status(k[2]))
           /\ load.status # Status(k[2]) => load.startedAt <= changedAt[k[2]]
           /\ k \notin raced => Age(confirmed[k[2]]) <= Age(load.status)

\* An entry is what was last answered, and expires soon after it stopped being
\* true.
EntryOK(k) ==
    store[k] # None =>
        /\ store[k].status = answered[k]
        /\ store[k].expiresAt <= clock + Ttl
        /\ store[k].status # Status(k[2]) =>
               store[k].expiresAt <= changedAt[k[2]] + Ttl + LoadTime
        /\ Fresh(k) /\ k \notin raced =>
               Age(confirmed[k[2]]) <= Age(store[k].status)

\* A key has one load at most.
KeyOK(k) ==
    /\ \A load, other \in inFlight[k] : load = other
    /\ \A load \in inFlight[k] : LoadOK(k, load)
    /\ EntryOK(k)
    /\ Age(answered[k]) <= Age(Status(k[2]))

\* What was confirmed is not ahead of the chain, and nothing changed later than now.
WritesOK ==
    \A id \in AttestationIds :
        Age(confirmed[id]) <= Age(Status(id)) /\ changedAt[id] <= clock

\* The inductive invariant.
QueryInv ==
    /\ TypeOK
    /\ \A k \in Keys : KeyOK(k)
    /\ WritesOK

(* The first state.                                                        *)
LEMMA QueryBegins == Init => QueryInv
<1> SUFFICES ASSUME Init PROVE QueryInv
  OBVIOUS
<1>1. \A id \in AttestationIds : Status(id) = "absent"
  BY DEF Init, RegistryInit, Status, Issued
<1>2. TypeOK
  BY QueryNumbers DEF Init, RegistryInit, RegistryTypeOK, TypeOK, Keys, Statuses
<1>3. \A k \in Keys : KeyOK(k)
  BY <1>1, Ages DEF Init, KeyOK, EntryOK, Keys
<1>4. WritesOK
  <2> SUFFICES ASSUME NEW id \in AttestationIds
               PROVE  Age(confirmed[id]) <= Age(Status(id)) /\ changedAt[id] <= clock
    BY DEF WritesOK
  <2>1. confirmed[id] = "absent" /\ Status(id) = "absent"
    BY <1>1 DEF Init
  <2>2. changedAt[id] = 0 /\ clock = 0
    BY DEF Init
  <2> QED
    BY <2>1, <2>2, Ages
<1> QED
  BY <1>2, <1>3, <1>4 DEF QueryInv

(* What a step does not touch of a key and its attestation is kept.        *)
LEMMA KeyKept ==
    ASSUME NEW k \in Keys, KeyOK(k),
           clock' = clock, store'[k] = store[k], inFlight'[k] = inFlight[k],
           answered'[k] = answered[k], k \in raced' <=> k \in raced,
           confirmed'[k[2]] = confirmed[k[2]], changedAt'[k[2]] = changedAt[k[2]],
           Status(k[2])' = Status(k[2])
    PROVE  KeyOK(k)'
<1>1. \A load : LoadOK(k, load) => LoadOK(k, load)'
  BY DEF LoadOK
<1>2. EntryOK(k)'
  BY DEF KeyOK, EntryOK, Fresh
<1> QED
  BY <1>1, <1>2 DEF KeyOK

(* What the variables of a key hold.                                       *)
LEMMA KeyTypes ==
    ASSUME NEW k \in Keys
    PROVE  /\ k[2] \in AttestationIds
           /\ TypeOK => /\ clock \in 0..MaxTime /\ answered[k] \in Statuses
                        /\ Status(k[2]) \in Statuses /\ confirmed[k[2]] \in Statuses
                        /\ changedAt[k[2]] \in 0..MaxTime
                        /\ store[k] \in Entry \cup {None}
                        /\ \A load \in inFlight[k] : load \in Load
BY StatusType DEF Keys, TypeOK

(* A hit answers what was answered before.                                 *)
LEMMA HitKeeps ==
    ASSUME QueryInv, NEW k \in Keys, Hit(k)
    PROVE  /\ QueryInv' /\ answered' = answered
<1>1. answered' = answered
  BY DEF Hit, Fresh, QueryInv, KeyOK, EntryOK, TypeOK
<1>2. UNCHANGED <<registry, clock, store, inFlight, writing, confirmed, raced, changedAt>>
  BY DEF Hit, cache
<1>3. \A x : Status(x)' = Status(x)
  BY <1>2 DEF registry, Status, Issued
<1>4. TypeOK'
  BY <1>1, <1>2 DEF QueryInv, TypeOK, registry, RegistryTypeOK
<1>5. \A x \in Keys : KeyOK(x)'
  BY <1>1, <1>2, <1>3, KeyKept DEF QueryInv
<1>6. WritesOK'
  BY <1>2, <1>3 DEF QueryInv, WritesOK
<1> QED
  BY <1>1, <1>4, <1>5, <1>6 DEF QueryInv

(* A step that changes the loads of one key, or stores one's answer.       *)
LEMMA LoadStep ==
    ASSUME QueryInv, NEW k \in Keys, NEW load, load \in Load \/ inFlight'[k] = {},
           inFlight' = [inFlight EXCEPT ![k] = {}] \/ inFlight' = [inFlight EXCEPT ![k] = {load}],
           store' \in [Keys -> Entry \cup {None}], answered' \in [Keys -> Statuses],
           raced' \subseteq Keys, KeyOK(k)',
           \A x \in Keys \ {k} : /\ store'[x] = store[x] /\ answered'[x] = answered[x]
                                 /\ x \in raced' <=> x \in raced,
           UNCHANGED <<registry, clock, writing, confirmed, changedAt>>
    PROVE  QueryInv'
<1>1. \A x : Status(x)' = Status(x)
  BY DEF registry, Status, Issued
<1>2. TypeOK'
  <2>1. inFlight' \in [Keys -> SUBSET Load]
    BY DEF QueryInv, TypeOK
  <2> QED
    BY <2>1 DEF QueryInv, TypeOK, registry, RegistryTypeOK
<1>3. ASSUME NEW x \in Keys \ {k} PROVE KeyOK(x)'
  <2>1. inFlight'[x] = inFlight[x]
    BY DEF QueryInv, TypeOK
  <2> QED
    BY <1>1, <2>1, KeyKept DEF QueryInv
<1>4. WritesOK'
  BY <1>1 DEF QueryInv, WritesOK
<1> QED
  BY <1>2, <1>3, <1>4 DEF QueryInv

(* A load begins only when there is none and no entry that counts.         *)
LEMMA StartLoadKeeps ==
    ASSUME QueryInv, NEW k \in Keys, StartLoad(k)
    PROVE  QueryInv'
<1>1. PICK load : load = [startedAt |-> clock, status |-> None]
  OBVIOUS
<1>2. load \in Load /\ load.startedAt = clock /\ load.status = None
  BY <1>1 DEF Load, QueryInv, TypeOK
<1>3. inFlight[k] = {} /\ ~Fresh(k)
  BY DEF StartLoad, MayLoad
<1>4. inFlight' = [inFlight EXCEPT ![k] = {load}]
  BY <1>1, <1>3 DEF StartLoad
<1>5. UNCHANGED <<registry, clock, store, writing, confirmed, answered, changedAt>>
      /\ raced' = raced \ {k}
  BY DEF StartLoad
<1>6. inFlight'[k] = {load}
  BY <1>4 DEF QueryInv, TypeOK
<1>7. LoadOK(k, load)'
  <2>1. clock <= clock + LoadTime
    BY QueryNumbers DEF QueryInv, TypeOK
  <2> QED
    BY <1>2, <1>5, <2>1 DEF LoadOK, QueryInv, TypeOK
<1>8. Status(k[2])' = Status(k[2])
  BY <1>5 DEF registry, Status, Issued
<1>9. EntryOK(k)'
  BY <1>3, <1>5, <1>8 DEF QueryInv, KeyOK, EntryOK, Fresh
<1>10. KeyOK(k)'
  BY <1>5, <1>6, <1>7, <1>8, <1>9 DEF QueryInv, KeyOK
<1> QED
  BY <1>2, <1>4, <1>5, <1>10, LoadStep DEF QueryInv, TypeOK

(* A load that is evaluated reads the attestation as it is.                *)
LEMMA EvaluateKeeps ==
    ASSUME QueryInv, NEW k \in Keys, NEW load \in inFlight[k], Evaluate(k, load)
    PROVE  QueryInv'
<1>1. load \in Load /\ LoadOK(k, load) /\ inFlight[k] = {load}
  BY KeyTypes DEF QueryInv, KeyOK
<1>2. PICK new : new = [load EXCEPT !.status = Status(k[2])]
  OBVIOUS
<1>3. new \in Load /\ new.startedAt = load.startedAt /\ new.status = Status(k[2])
  BY <1>1, <1>2, KeyTypes DEF Load, QueryInv
<1>4. inFlight' = [inFlight EXCEPT ![k] = {new}]
  BY <1>1, <1>2 DEF Evaluate
<1>5. UNCHANGED <<registry, clock, store, writing, confirmed, raced, answered, changedAt>>
  BY DEF Evaluate, history
<1>6. inFlight'[k] = {new}
  BY <1>4 DEF QueryInv, TypeOK
<1>7. Status(k[2])' = Status(k[2])
  BY <1>5 DEF registry, Status, Issued
<1>8. /\ Age(answered[k]) <= Age(Status(k[2]))
      /\ Age(confirmed[k[2]]) <= Age(Status(k[2]))
      /\ Age(Status(k[2])) <= Age(Status(k[2]))
  <2>1. Age(Status(k[2])) \in Nat
    BY KeyTypes, Ages DEF QueryInv
  <2> QED
    BY <2>1, KeyTypes DEF QueryInv, KeyOK, WritesOK
<1>9. LoadOK(k, new)'
  BY <1>1, <1>3, <1>5, <1>7, <1>8 DEF LoadOK
<1>10. EntryOK(k)'
  BY <1>5, <1>7 DEF QueryInv, KeyOK, EntryOK, Fresh
<1>11. KeyOK(k)'
  BY <1>5, <1>6, <1>7, <1>8, <1>9, <1>10 DEF KeyOK
<1> QED
  BY <1>3, <1>4, <1>5, <1>11, LoadStep DEF QueryInv, TypeOK

(* An answer is no younger than the one before, and true until it began.   *)
LEMMA AnswerKeeps ==
    ASSUME QueryInv, NEW k \in Keys, NEW load \in inFlight[k], Answer(k, load)
    PROVE  QueryInv' /\ \A x \in Keys : Age(answered[x]) <= Age(answered'[x])
<1>1. load \in Load /\ LoadOK(k, load) /\ inFlight[k] = {load} /\ load.status # None
  BY KeyTypes DEF QueryInv, KeyOK, Answer
<1>2. PICK s, begun : s = load.status /\ begun = load.startedAt
  OBVIOUS
<1>3. s \in Statuses /\ begun \in Nat /\ s # None
  BY <1>1, <1>2 DEF Load
<1>4. PICK new : new = [status |-> s, expiresAt |-> clock + Ttl]
  OBVIOUS
<1>5. new \in Entry /\ new # None /\ new.status = s /\ new.expiresAt = clock + Ttl
  <2>1. clock + Ttl \in Nat
    BY QueryNumbers DEF QueryInv, TypeOK
  <2>2. new \in Entry
    BY <1>3, <1>4, <2>1 DEF Entry
  <2> QED
    BY <1>4, <2>2, CacheAssumption
<1>6. /\ inFlight' = [inFlight EXCEPT ![k] = {}]
      /\ store' = [store EXCEPT ![k] = new]
      /\ answered' = [answered EXCEPT ![k] = s]
      /\ UNCHANGED <<registry, clock, writing, confirmed, raced, changedAt>>
  BY <1>1, <1>2, <1>4 DEF Answer
<1>7. inFlight'[k] = {} /\ store'[k] = new /\ answered'[k] = s
  BY <1>6 DEF QueryInv, TypeOK
<1>8. Status(k[2])' = Status(k[2])
  BY <1>6 DEF registry, Status, Issued
<1>9. /\ Age(answered[k]) <= Age(s) /\ Age(s) <= Age(Status(k[2]))
      /\ s # Status(k[2]) => begun <= changedAt[k[2]]
      /\ k \notin raced => Age(confirmed[k[2]]) <= Age(s)
      /\ clock <= begun + LoadTime
  BY <1>1, <1>2 DEF LoadOK
<1>10. s # Status(k[2]) => clock + Ttl <= changedAt[k[2]] + Ttl + LoadTime
  <2>1. clock \in Nat /\ changedAt[k[2]] \in Nat
    BY KeyTypes DEF QueryInv
  <2> QED
    BY <2>1, <1>3, <1>9, QueryNumbers
<1>11. clock + Ttl <= clock + Ttl
  BY QueryNumbers DEF QueryInv, TypeOK
<1>12. EntryOK(k)'
  BY <1>5, <1>6, <1>7, <1>8, <1>9, <1>10, <1>11 DEF EntryOK
<1>13. KeyOK(k)'
  BY <1>7, <1>8, <1>9, <1>12 DEF KeyOK
<1>14. store' \in [Keys -> Entry \cup {None}] /\ answered' \in [Keys -> Statuses]
  BY <1>3, <1>5, <1>6 DEF QueryInv, TypeOK
<1>15. QueryInv'
  <2>1. \A x \in Keys \ {k} : store'[x] = store[x] /\ answered'[x] = answered[x]
    BY <1>6 DEF QueryInv, TypeOK
  <2>2. raced' \subseteq Keys
    BY <1>6 DEF QueryInv, TypeOK
  <2> QED
    BY <1>6, <1>7, <1>13, <1>14, <2>1, <2>2, LoadStep
<1>16. ASSUME NEW x \in Keys PROVE Age(answered[x]) <= Age(answered'[x])
  <2>1. CASE x = k
    BY <2>1, <1>7, <1>9
  <2>2. CASE x # k
    <3>1. answered'[x] = answered[x] /\ Age(answered[x]) \in Nat
      BY <2>2, <1>6, KeyTypes, Ages DEF QueryInv, TypeOK
    <3> QED
      BY <3>1
  <2> QED
    BY <2>1, <2>2
<1> QED
  BY <1>15, <1>16

(* A load that fails leaves nothing behind.                                *)
LEMMA LoadFailsKeeps ==
    ASSUME QueryInv, NEW k \in Keys, NEW load \in inFlight[k], LoadFails(k, load)
    PROVE  QueryInv'
<1>1. inFlight[k] = {load}
  BY DEF QueryInv, KeyOK
<1>2. /\ inFlight' = [inFlight EXCEPT ![k] = {}]
      /\ UNCHANGED <<registry, clock, store, writing, confirmed, raced, answered, changedAt>>
  BY <1>1 DEF LoadFails, history
<1>3. inFlight'[k] = {}
  BY <1>2 DEF QueryInv, TypeOK
<1>4. Status(k[2])' = Status(k[2])
  BY <1>2 DEF registry, Status, Issued
<1>5. EntryOK(k)'
  BY <1>2, <1>4 DEF QueryInv, KeyOK, EntryOK, Fresh
<1>6. KeyOK(k)'
  BY <1>2, <1>3, <1>4, <1>5 DEF QueryInv, KeyOK
<1> QED
  BY <1>2, <1>3, <1>6, LoadStep DEF QueryInv, TypeOK

(* A write of an attestation: what the cache holds of it was true until    *)
(* now.                                                                    *)
LEMMA WriteKeeps ==
    ASSUME QueryInv, NEW id \in AttestationIds, Write(id)
    PROVE  QueryInv'
<1>1. /\ Attest(id) /\ changedAt' = [changedAt EXCEPT ![id] = clock]
      /\ writing' \in {writing, writing \cup {id}}
      /\ UNCHANGED <<clock, store, inFlight, confirmed, raced, answered>>
  BY DEF Write, cache
<1>2. RegistryTypeOK'
  BY <1>1, RegistryStep DEF QueryInv, TypeOK
<1>3. /\ Age(Status(id)) <= Age(Status(id)')
      /\ \A x \in AttestationIds : x # id => Status(x)' = Status(x)
  BY <1>1, WriteAges DEF QueryInv, TypeOK
<1>4. changedAt'[id] = clock /\ \A x \in AttestationIds : x # id => changedAt'[x] = changedAt[x]
  BY <1>1 DEF QueryInv, TypeOK
<1>5. TypeOK'
  <2>1. changedAt' \in [AttestationIds -> 0..MaxTime]
    BY <1>1 DEF QueryInv, TypeOK
  <2>2. writing' \subseteq AttestationIds
    BY <1>1 DEF QueryInv, TypeOK
  <2> QED
    BY <1>1, <1>2, <2>1, <2>2 DEF QueryInv, TypeOK
<1>6. ASSUME NEW k \in Keys PROVE KeyOK(k)'
  <2>1. CASE k[2] # id
    BY <1>1, <1>3, <1>4, <2>1, KeyTypes, KeyKept DEF QueryInv
  <2>2. CASE k[2] = id
    <3>1. Age(Status(id)) \in Nat /\ Age(Status(id)') \in Nat
          /\ Age(answered[k]) \in Nat /\ clock \in Nat
      BY <1>2, <2>2, KeyTypes, StatusType, Ages DEF QueryInv
    <3>2. ASSUME NEW load \in inFlight[k] PROVE LoadOK(k, load)'
      <4>1. LoadOK(k, load) /\ load \in Load
        BY KeyTypes DEF QueryInv, KeyOK
      <4>2. load.status # None =>
                Age(load.status) \in Nat /\ Age(load.status) <= Age(Status(id))
        BY <4>1, <2>2, Ages DEF LoadOK, Load
      <4>3. load.status # None => Age(load.status) <= Age(Status(id)')
        BY <4>2, <3>1, <1>3
      <4> QED
        BY <4>1, <4>3, <1>1, <1>4, <2>2 DEF LoadOK
    <3>3. EntryOK(k)'
      <4> SUFFICES ASSUME store[k] # None
                   PROVE  /\ store[k].status = answered[k]
                          /\ store[k].expiresAt <= clock + Ttl
                          /\ store[k].expiresAt <= clock + Ttl + LoadTime
                          /\ Fresh(k) /\ k \notin raced =>
                                 Age(confirmed[k[2]]) <= Age(store[k].status)
        BY <1>1, <1>4, <2>2 DEF EntryOK, Fresh
      <4>1. EntryOK(k) /\ store[k] \in Entry
        BY KeyTypes DEF QueryInv, KeyOK
      <4>2. store[k].expiresAt \in Nat /\ store[k].expiresAt <= clock + Ttl
        BY <4>1 DEF EntryOK, Entry
      <4>3. store[k].expiresAt <= clock + Ttl + LoadTime
        BY <4>2, <3>1, QueryNumbers
      <4> QED
        BY <4>1, <4>3 DEF EntryOK
    <3>4. Age(answered[k]) <= Age(Status(id)')
      <4>1. Age(answered[k]) <= Age(Status(id))
        BY <2>2 DEF QueryInv, KeyOK
      <4> QED
        BY <4>1, <3>1, <1>3
    <3> QED
      BY <1>1, <2>2, <3>2, <3>3, <3>4 DEF QueryInv, KeyOK
  <2> QED
    BY <2>1, <2>2
<1>7. WritesOK'
  <2> SUFFICES ASSUME NEW x \in AttestationIds
               PROVE  Age(confirmed[x]) <= Age(Status(x)') /\ changedAt'[x] <= clock
    BY <1>1 DEF WritesOK
  <2>1. Age(confirmed[x]) <= Age(Status(x)) /\ changedAt[x] <= clock
    BY DEF QueryInv, WritesOK
  <2>2. CASE x # id
    BY <2>1, <2>2, <1>3, <1>4
  <2>3. CASE x = id
    <3>1. /\ Age(Status(id)) \in Nat /\ Age(Status(id)') \in Nat
          /\ Age(confirmed[id]) \in Nat /\ clock \in Nat
      BY <1>2, StatusType, Ages DEF QueryInv, TypeOK
    <3> QED
      BY <2>1, <2>3, <3>1, <1>3, <1>4
  <2> QED
    BY <2>2, <2>3
<1> QED
  BY <1>5, <1>6, <1>7 DEF QueryInv

(* An own write is confirmed: its entries go, and what is still under way  *)
(* is marked as raced.                                                     *)
LEMMA ConfirmKeeps ==
    ASSUME QueryInv, NEW id \in AttestationIds, WriteConfirmed(id)
    PROVE  QueryInv'
<1>1. /\ store' = [k \in Keys |-> IF k[2] = id THEN None ELSE store[k]]
      /\ writing' = writing \ {id}
      /\ confirmed' = [confirmed EXCEPT ![id] = Status(id)]
      /\ raced' = raced \cup {k \in Keys : k[2] = id /\ inFlight[k] # {}}
      /\ UNCHANGED <<registry, clock, inFlight, answered, changedAt>>
  BY DEF WriteConfirmed, Invalidate
<1>2. \A x : Status(x)' = Status(x)
  BY <1>1 DEF registry, Status, Issued
<1>3. Status(id) \in Statuses
  BY StatusType DEF QueryInv, TypeOK
<1>4. TypeOK'
  <2>1. store' \in [Keys -> Entry \cup {None}]
    BY <1>1 DEF QueryInv, TypeOK
  <2>2. confirmed' \in [AttestationIds -> Statuses]
    BY <1>1, <1>3 DEF QueryInv, TypeOK
  <2>3. writing' \subseteq AttestationIds /\ raced' \subseteq Keys
    BY <1>1 DEF QueryInv, TypeOK
  <2> QED
    BY <1>1, <2>1, <2>2, <2>3 DEF QueryInv, TypeOK, registry, RegistryTypeOK
<1>5. /\ confirmed'[id] = Status(id)
      /\ \A x \in AttestationIds : x # id => confirmed'[x] = confirmed[x]
  BY <1>1 DEF QueryInv, TypeOK
<1>6. ASSUME NEW k \in Keys PROVE KeyOK(k)'
  <2>1. CASE k[2] # id
    <3>1. store'[k] = store[k] /\ (k \in raced' <=> k \in raced)
      BY <1>1, <2>1
    <3> QED
      BY <1>1, <1>2, <1>5, <2>1, <3>1, KeyTypes, KeyKept DEF QueryInv
  <2>2. CASE k[2] = id
    <3>1. store'[k] = None
      BY <1>1, <2>2
    <3>2. ASSUME NEW load \in inFlight[k] PROVE LoadOK(k, load)'
      <4>1. k \in raced'
        BY <1>1, <2>2
      <4> QED
        BY <1>1, <1>2, <4>1 DEF LoadOK, QueryInv, KeyOK
    <3> QED
      BY <1>1, <1>2, <3>1, <3>2 DEF QueryInv, KeyOK, EntryOK
  <2> QED
    BY <2>1, <2>2
<1>7. WritesOK'
  <2>1. Age(Status(id)) <= Age(Status(id))
    BY <1>3, Ages
  <2> QED
    BY <1>1, <1>2, <1>5, <2>1 DEF QueryInv, WritesOK
<1> QED
  BY <1>4, <1>6, <1>7 DEF QueryInv

(* Steps that touch neither an attestation nor the cache.                  *)
LEMMA QuietKeeps ==
    ASSUME QueryInv, RegistryTypeOK', attestation' = attestation, writing' \subseteq AttestationIds,
           UNCHANGED <<clock, store, inFlight, confirmed, raced, answered, changedAt>>
    PROVE  QueryInv'
<1>1. \A x : Status(x)' = Status(x)
  BY DEF Status, Issued
<1>2. TypeOK'
  BY DEF QueryInv, TypeOK
<1>3. \A k \in Keys : KeyOK(k)'
  BY <1>1, KeyKept DEF QueryInv
<1>4. WritesOK'
  BY <1>1 DEF QueryInv, WritesOK
<1> QED
  BY <1>2, <1>3, <1>4 DEF QueryInv

(* Time passes, but not beyond the time of a load.                         *)
LEMMA TickKeeps ==
    ASSUME QueryInv, Tick
    PROVE  QueryInv'
<1>1. /\ clock < MaxTime /\ clock' = clock + 1
      /\ UNCHANGED <<registry, store, inFlight, writing, confirmed, raced, answered, changedAt>>
  BY DEF Tick, cache, history
<1>2. \A x : Status(x)' = Status(x)
  BY <1>1 DEF registry, Status, Issued
<1>3. clock \in Nat /\ clock' \in 0..MaxTime
  BY <1>1, QueryNumbers DEF QueryInv, TypeOK
<1>4. TypeOK'
  BY <1>1, <1>3 DEF QueryInv, TypeOK, registry, RegistryTypeOK
<1>5. ASSUME NEW k \in Keys PROVE KeyOK(k)'
  <2>1. ASSUME NEW load \in inFlight[k] PROVE LoadOK(k, load)'
    <3>1. LoadOK(k, load) /\ load \in Load /\ clock < load.startedAt + LoadTime
      BY KeyTypes DEF QueryInv, KeyOK, Tick
    <3>2. load.startedAt \in Nat /\ load.startedAt <= clock
      BY <3>1, QueryNumbers DEF Load, LoadOK
    <3>3. load.startedAt <= clock' /\ clock' <= load.startedAt + LoadTime
      BY <1>1, <1>3, <3>1, <3>2, QueryNumbers
    <3> QED
      BY <1>1, <1>2, <3>1, <3>3 DEF LoadOK
  <2>2. EntryOK(k)'
    <3> SUFFICES ASSUME store[k] # None
                 PROVE  /\ store[k].status = answered[k]
                        /\ store[k].expiresAt <= clock' + Ttl
                        /\ store[k].status # Status(k[2]) =>
                               store[k].expiresAt <= changedAt[k[2]] + Ttl + LoadTime
                        /\ store[k].expiresAt > clock' /\ k \notin raced =>
                               Age(confirmed[k[2]]) <= Age(store[k].status)
      BY <1>1, <1>2 DEF EntryOK, Fresh
    <3>1. EntryOK(k) /\ store[k] \in Entry
      BY KeyTypes DEF QueryInv, KeyOK
    <3>2. PICK at \in Nat : at = store[k].expiresAt
      BY <3>1 DEF Entry
    <3>3. at <= clock + Ttl /\ (at > clock' => at > clock)
      BY <3>1, <3>2, <1>1, <1>3 DEF EntryOK
    <3>4. at <= clock' + Ttl
      BY <3>3, <1>1, <1>3, QueryNumbers
    <3> QED
      BY <3>1, <3>2, <3>3, <3>4 DEF EntryOK, Fresh
  <2> QED
    BY <1>1, <1>2, <2>1, <2>2 DEF QueryInv, KeyOK
<1>6. WritesOK'
  <2> SUFFICES ASSUME NEW id \in AttestationIds
               PROVE  Age(confirmed[id]) <= Age(Status(id)) /\ changedAt[id] <= clock'
    BY <1>1, <1>2 DEF WritesOK
  <2>1. Age(confirmed[id]) <= Age(Status(id)) /\ changedAt[id] <= clock
    BY DEF QueryInv, WritesOK
  <2>2. changedAt[id] \in Nat
    BY DEF QueryInv, TypeOK
  <2> QED
    BY <2>1, <2>2, <1>1, <1>3
<1> QED
  BY <1>4, <1>5, <1>6 DEF QueryInv

(* Every step keeps the invariant, and no read goes back in time.          *)
LEMMA QueryStep ==
    ASSUME QueryInv, [Next]_vars
    PROVE  QueryInv' /\ \A k \in Keys : Age(answered[k]) <= Age(answered'[k])
<1>0. answered' = answered => \A k \in Keys : Age(answered[k]) <= Age(answered'[k])
  BY KeyTypes, Ages DEF QueryInv
<1>1. ASSUME NEW k \in Keys, Hit(k) \/ StartLoad(k)
      PROVE  QueryInv' /\ answered' = answered
  BY <1>1, HitKeeps, StartLoadKeeps DEF StartLoad
<1>2. ASSUME NEW k \in Keys, NEW load \in inFlight[k],
             Evaluate(k, load) \/ LoadFails(k, load)
      PROVE  QueryInv' /\ answered' = answered
  BY <1>2, EvaluateKeeps, LoadFailsKeeps DEF Evaluate, LoadFails, history
<1>3. ASSUME NEW k \in Keys, NEW load \in inFlight[k], Answer(k, load)
      PROVE  QueryInv' /\ \A x \in Keys : Age(answered[x]) <= Age(answered'[x])
  BY <1>3, AnswerKeeps
<1>4. ASSUME NEW id \in AttestationIds, Write(id) \/ WriteConfirmed(id)
      PROVE  QueryInv' /\ answered' = answered
  BY <1>4, WriteKeeps, ConfirmKeeps DEF Write, WriteConfirmed
<1>5. ASSUME NEW id \in AttestationIds, WriteUnconfirmed(id)
      PROVE  QueryInv' /\ answered' = answered
  <2>1. RegistryTypeOK' /\ attestation' = attestation /\ writing' \subseteq AttestationIds
    BY <1>5 DEF WriteUnconfirmed, registry, QueryInv, TypeOK, RegistryTypeOK
  <2> QED
    BY <1>5, <2>1, QuietKeeps DEF WriteUnconfirmed, cache, history
<1>6. CASE Govern
  <2>1. RegistryTypeOK'
    BY <1>6, RegistryStep DEF Govern, QueryInv, TypeOK
  <2>2. writing' \subseteq AttestationIds
    BY <1>6 DEF Govern, QueryInv, TypeOK
  <2>3. QueryInv' /\ answered' = answered
    BY <1>6, <2>1, <2>2, GovernKeeps, QuietKeeps DEF Govern, cache, history
  <2> QED
    BY <2>3, <1>0
<1>7. CASE Tick
  BY <1>7, <1>0, TickKeeps DEF Tick, history
<1>8. CASE UNCHANGED vars
  <2>1. RegistryTypeOK' /\ attestation' = attestation /\ writing' \subseteq AttestationIds
    BY <1>8 DEF vars, registry, QueryInv, TypeOK, RegistryTypeOK
  <2>2. QueryInv' /\ answered' = answered
    BY <1>8, <2>1, QuietKeeps DEF vars, cache, history
  <2> QED
    BY <2>2, <1>0
<1> QED
  BY <1>0, <1>1, <1>2, <1>3, <1>4, <1>5, <1>6, <1>7, <1>8 DEF Next

(* So the invariant always holds.                                          *)
LEMMA QueryIsSound == Spec => []QueryInv
<1>1. QueryInv /\ [Next]_vars => QueryInv'
  BY QueryStep
<1> QED
  BY <1>1, QueryBegins, PTL DEF Spec

(* A cached read is out of date for no longer than the TTL and one load    *)
(* (query-cache.ts: "any staleness ... is bounded and small").             *)
THEOREM StalenessBounded == Spec => []BoundedStaleness
<1>1. QueryInv => BoundedStaleness
  <2> SUFFICES ASSUME QueryInv, NEW k \in Keys, Fresh(k), store[k].status # Status(k[2])
               PROVE  clock < changedAt[k[2]] + Ttl + LoadTime
    BY DEF BoundedStaleness
  <2>1. store[k] \in Entry /\ EntryOK(k) /\ clock \in Nat /\ changedAt[k[2]] \in Nat
    BY KeyTypes DEF Fresh, QueryInv, KeyOK
  <2>2. PICK at \in Nat : at = store[k].expiresAt
    BY <2>1 DEF Entry
  <2>3. at > clock /\ at <= changedAt[k[2]] + Ttl + LoadTime
    BY <2>1, <2>2 DEF Fresh, EntryOK
  <2> QED
    BY <2>1, <2>2, <2>3, QueryNumbers
<1> QED
  BY <1>1, QueryIsSound, PTL

(* After an own write is confirmed, a cached read shows it or what came    *)
(* later, unless a load was under way (attestation-registry.ts).           *)
THEOREM OwnWritesAreSeen == Spec => []OwnWritesSeen
<1>1. QueryInv => OwnWritesSeen
  <2> SUFFICES ASSUME QueryInv, NEW k \in Keys, Fresh(k), k \notin raced
               PROVE  Age(store[k].status) >= Age(confirmed[k[2]])
    BY DEF OwnWritesSeen
  <2>1. store[k] \in Entry /\ EntryOK(k)
    BY KeyTypes DEF Fresh, QueryInv, KeyOK
  <2>2. Age(store[k].status) \in Nat /\ Age(confirmed[k[2]]) \in Nat
    BY <2>1, KeyTypes, Ages DEF QueryInv, Entry
  <2>3. Age(confirmed[k[2]]) <= Age(store[k].status)
    BY <2>1 DEF EntryOK, Fresh
  <2> QED
    BY <2>2, <2>3
<1> QED
  BY <1>1, QueryIsSound, PTL

(* The cached reads of a key never go back in time (query-cache.ts).       *)
THEOREM ReadsStayInOrder == Spec => ReadsInOrder
<1>1. QueryInv /\ [Next]_vars => [\A k \in Keys : Age(answered'[k]) >= Age(answered[k])]_vars
  <2> SUFFICES ASSUME QueryInv, [Next]_vars, NEW k \in Keys
               PROVE  Age(answered'[k]) >= Age(answered[k])
    OBVIOUS
  <2>1. QueryInv' /\ Age(answered[k]) <= Age(answered'[k])
    BY QueryStep
  <2>2. answered'[k] \in Statuses /\ answered[k] \in Statuses
    BY <2>1 DEF QueryInv, TypeOK
  <2> QED
    BY <2>1, <2>2, Ages
<1> QED
  BY <1>1, QueryIsSound, PTL DEF Spec, ReadsInOrder

-----------------------------------------------------------------------------
(* The tables and the pages.                                               *)

Pages == Form \cup List \cup {Away}

\* A form has a wallet once it is past the first step, and what it is to sign
\* from then on.  A creation that was applied is on the chain, and one that
\* ended well is in the table.
FormOK(p) ==
    /\ p.at \in {"create", "register"} /\ p.step # "wallet" => p.wallet \in Addresses
    /\ p.at = "create" /\ p.step \in {"sign", "sent", "applied", "save", "done", "warned"} =>
           p.id \in AttestationIds
    /\ p.at = "register" /\ p.step \in {"sign", "sent", "applied", "save"} =>
           p.subject \in Addresses
    /\ p.at = "create" /\ p.step \in {"applied", "save"} =>
           Issued(p.id) /\ attestation[p.id].attester = p.wallet
    /\ p.at = "create" /\ p.step = "done" =>
           claims[p.id] # None /\ claims[p.id].described

\* A list shows rows of the table.
ListOK(p) == p.at = "list" => \A id \in p.checking : claims[id] # None

PageOK(p) == FormOK(p) /\ ListOK(p)

\* A status that was read is not ahead of the chain.
Seen(id, status) ==
    /\ status \in {"Active", "Revoked"} => Issued(id)
    /\ status = "Revoked" => attestation[id].status = "Revoked"

\* Neither is a row of the table.
RowOK(id) ==
    claims[id] # None =>
        /\ Issued(id) /\ attestation[id].attester = claims[id].attester
        /\ claims[id].status = "Revoked" => attestation[id].status = "Revoked"

\* The server's copies: the cached list, the cached statuses and the resyncs.
CopiesOK ==
    /\ listed # None => \A id \in listed : claims[id] # None
    /\ \A id \in AttestationIds : Seen(id, cachedStatus[id])
    /\ \A r \in resyncs : claims[r.id] # None /\ Seen(r.id, r.seen)
    /\ IsFiniteSet(resyncs)

\* The inductive invariant.
PagesInv ==
    /\ PagesTypeOK
    /\ \A t \in Views : PageOK(page[t])
    /\ \A id \in AttestationIds : RowOK(id)
    /\ CopiesOK

\* What no step takes back, on the chain and in the table.
ChainGrows ==
    /\ RegistryTypeOK'
    /\ \A x \in AttestationIds : Issued(x) =>
           /\ Issued(x)' /\ attestation'[x].attester = attestation[x].attester
           /\ attestation[x].status = "Revoked" => attestation'[x].status = "Revoked"

ClaimsGrow ==
    \A id \in AttestationIds : claims[id] # None =>
        claims'[id] # None /\ (claims[id].described => claims'[id].described)

(* What a page, a status and a row say stays true.                         *)
LEMMA PageKept ==
    ASSUME ChainGrows, ClaimsGrow, NEW p \in Pages, PageOK(p)
    PROVE  PageOK(p)'
<1>1. FormOK(p)'
  <2>1. p.at = "create" /\ p.step \in {"applied", "save"} =>
            Issued(p.id)' /\ attestation'[p.id].attester = p.wallet
    BY DEF PageOK, FormOK, ChainGrows
  <2>2. p.at = "create" /\ p.step = "done" =>
            claims'[p.id] # None /\ claims'[p.id].described
    BY DEF PageOK, FormOK, ClaimsGrow
  <2> QED
    BY <2>1, <2>2 DEF PageOK, FormOK
<1>2. ListOK(p)'
  <2> SUFFICES ASSUME p.at = "list", NEW id \in p.checking PROVE claims'[id] # None
    BY DEF ListOK
  <2>1. id \in AttestationIds
    BY DEF Pages, Form, List, Away
  <2> QED
    BY <2>1 DEF PageOK, ListOK, ClaimsGrow
<1> QED
  BY <1>1, <1>2 DEF PageOK

(* A status the chain has shown, it has shown ever after.                  *)
LEMMA SeenKept ==
    ASSUME ChainGrows, NEW id \in AttestationIds, NEW status, Seen(id, status)
    PROVE  Seen(id, status)'
BY DEF Seen, ChainGrows

(* So a row that is not written stays true.                                *)
LEMMA RowKept ==
    ASSUME ChainGrows, NEW id \in AttestationIds, RowOK(id), claims'[id] = claims[id]
    PROVE  RowOK(id)'
BY DEF RowOK, ChainGrows

(* What no step takes back when the contract is not called.                *)
LEMMA ChainRests ==
    ASSUME PagesTypeOK, UNCHANGED registry
    PROVE  ChainGrows
BY RegistryStep DEF PagesTypeOK, ChainGrows

(* The pages a step does not touch.                                        *)
LEMMA PagesKept ==
    ASSUME PagesInv, ChainGrows, ClaimsGrow, NEW t \in Views, page'[t] = page[t]
    PROVE  PageOK(page[t])'
<1>1. PICK q \in Pages : q = page[t] /\ q = page'[t]
  BY DEF PagesInv, PagesTypeOK, Pages
<1>2. PageOK(q)'
  BY <1>1, PageKept DEF PagesInv
<1> QED
  BY <1>1, <1>2 DEF PageOK, FormOK, ListOK

(* The server's copies, when a step leaves them alone.                     *)
LEMMA CopiesKept ==
    ASSUME PagesInv, ChainGrows, ClaimsGrow, UNCHANGED <<cachedStatus, listed, resyncs>>
    PROVE  CopiesOK'
<1>1. \A r \in resyncs : r.id \in AttestationIds
  BY DEF PagesInv, PagesTypeOK, Resync
<1>2. listed # None => \A id \in listed : id \in AttestationIds
  BY DEF PagesInv, PagesTypeOK
<1>3. listed' # None => \A id \in listed' : claims'[id] # None
  BY <1>2 DEF PagesInv, CopiesOK, ClaimsGrow
<1>4. \A id \in AttestationIds : Seen(id, cachedStatus[id])'
  BY SeenKept DEF PagesInv, CopiesOK
<1>5. \A r \in resyncs : claims'[r.id] # None /\ Seen(r.id, r.seen)'
  BY <1>1, SeenKept DEF PagesInv, CopiesOK, ClaimsGrow
<1> QED
  BY <1>3, <1>4, <1>5 DEF PagesInv, CopiesOK

(* A step of one tab that may store rows.                                  *)
LEMMA StoreStep ==
    ASSUME PagesInv, ChainGrows, ClaimsGrow, NEW t \in Views, NEW p \in Pages,
           page' = [page EXCEPT ![t] = p], PageOK(p)',
           profiles' \subseteq Addresses, claims' \in [AttestationIds -> Claim \cup {None}],
           \A id \in AttestationIds : RowOK(id)',
           UNCHANGED <<cachedStatus, listed, resyncs>>
    PROVE  PagesInv'
<1>1. PagesTypeOK'
  <2>1. page' \in [Views -> Form \cup List \cup {Away}]
    BY DEF PagesInv, PagesTypeOK, Pages
  <2> QED
    BY <2>1 DEF PagesInv, PagesTypeOK, ChainGrows
<1>2. ASSUME NEW u \in Views PROVE PageOK(page[u])'
  <2>1. CASE u = t
    <3>1. page'[u] = p
      BY <2>1 DEF PagesInv, PagesTypeOK
    <3> QED
      BY <3>1 DEF PageOK, FormOK, ListOK
  <2>2. CASE u # t
    <3>1. page'[u] = page[u]
      BY <2>2 DEF PagesInv, PagesTypeOK
    <3> QED
      BY <3>1, PagesKept
  <2> QED
    BY <2>1, <2>2
<1> QED
  BY <1>1, <1>2, CopiesKept DEF PagesInv

(* A step of one tab that stores nothing.                                  *)
LEMMA TabStep ==
    ASSUME PagesInv, ChainGrows, Unstored, NEW t \in Views, NEW p \in Pages,
           page' = [page EXCEPT ![t] = p], PageOK(p)'
    PROVE  PagesInv'
<1>1. ClaimsGrow
  BY DEF ClaimsGrow, Unstored
<1>2. \A id \in AttestationIds : RowOK(id)'
  BY RowKept DEF PagesInv, Unstored
<1> QED
  BY <1>1, <1>2, StoreStep DEF Unstored, PagesInv, PagesTypeOK

(* A form that goes one step on.                                           *)
LEMMA TurnStep ==
    ASSUME PagesInv, ChainGrows, Unstored, NEW t \in Views, NEW step,
           NEW f, f = page[t], f.at \in {"create", "register"}, f.step # "wallet",
           Turn(t, step),
           \/ step \in {"events", "ready", "not-attester"}
           \/ step = "sent" /\ f.step = "sign"
           \/ step = "applied" /\ f.step = "sent"
              /\ (f.at = "create" =>
                     Issued(f.id)' /\ attestation'[f.id].attester = f.wallet)
           \/ step = "save" /\ f.step = "applied"
           \/ step = "warned" /\ f.step = "save"
    PROVE  PagesInv'
<1>1. f \in Form /\ f = page[t]
  BY DEF PagesInv, PagesTypeOK, List, Away
<1>2. PICK g : g = [f EXCEPT !.step = step]
  OBVIOUS
<1>3. /\ g \in Form /\ g.at = f.at /\ g.wallet = f.wallet /\ g.id = f.id
      /\ g.subject = f.subject /\ g.step = step
  BY <1>1, <1>2 DEF Form
<1>4. page' = [page EXCEPT ![t] = g]
  BY <1>1, <1>2 DEF Turn
<1>5. PageOK(f) /\ PageOK(f)'
  <2>1. ClaimsGrow
    BY DEF ClaimsGrow, Unstored
  <2>2. PageOK(f) /\ f \in Pages
    BY <1>1 DEF PagesInv, Pages
  <2> QED
    BY <2>1, <2>2, PageKept
<1>6. PageOK(g)'
  <2>1. g.at # "list"
    BY <1>1, <1>3
  <2>2. g.wallet \in Addresses
    BY <1>1, <1>3, <1>5 DEF PageOK, FormOK
  <2>3. g.at = "create" /\ g.step \in {"sign", "sent", "applied", "save", "done", "warned"} =>
            g.id \in AttestationIds
    BY <1>1, <1>3, <1>5 DEF PageOK, FormOK
  <2>4. g.at = "register" /\ g.step \in {"sign", "sent", "applied", "save"} =>
            g.subject \in Addresses
    BY <1>1, <1>3, <1>5 DEF PageOK, FormOK
  <2>5. g.at = "create" /\ g.step \in {"applied", "save"} =>
            Issued(g.id)' /\ attestation'[g.id].attester = g.wallet
    <3>1. CASE step = "applied"
      BY <1>1, <1>3, <3>1
    <3>2. CASE step = "save"
      BY <1>1, <1>3, <1>5, <3>2 DEF PageOK, FormOK
    <3> QED
      BY <1>3, <3>1, <3>2
  <2>6. g.step # "done"
    BY <1>3
  <2> QED
    BY <2>1, <2>2, <2>3, <2>4, <2>5, <2>6 DEF PageOK, FormOK, ListOK
<1> QED
  BY <1>3, <1>4, <1>6, TabStep DEF Pages

(* The rest of the invariant when only a page or the list changes: steps   *)
(* that store nothing on the chain.                                        *)
LEMMA OpenKeeps ==
    ASSUME PagesInv, NEW t \in Views, Open(t)
    PROVE  PagesInv'
<1>1. ChainGrows /\ Unstored
  BY ChainRests DEF Open, PagesInv
<1>2. PICK p \in Pages : page' = [page EXCEPT ![t] = p] /\ PageOK(p)'
  <2>1. CASE page' = [page EXCEPT ![t] = Away]
    <3>1. PICK p : p = Away
      OBVIOUS
    <3>2. p \in Pages /\ p.at = "away"
      BY <3>1 DEF Pages, Away
    <3>3. PageOK(p)'
      BY <3>2 DEF PageOK, FormOK, ListOK
    <3> QED
      BY <2>1, <3>1, <3>2, <3>3
  <2>2. CASE page' # [page EXCEPT ![t] = Away]
    <3>1. PICK at \in {"create", "register"} :
              page' = [page EXCEPT ![t] = [at |-> at, wallet |-> None, id |-> None,
                                           subject |-> None, step |-> "wallet"]]
      BY <2>2 DEF Open
    <3>2. PICK p : p = [at |-> at, wallet |-> None, id |-> None,
                        subject |-> None, step |-> "wallet"]
      OBVIOUS
    <3>3. p \in Form /\ p.at \in {"create", "register"} /\ p.step = "wallet"
      BY <3>2 DEF Form
    <3>4. PageOK(p)'
      BY <3>3 DEF PageOK, FormOK, ListOK
    <3> QED
      BY <3>1, <3>2, <3>3, <3>4 DEF Pages
  <2> QED
    BY <2>1, <2>2
<1> QED
  BY <1>1, <1>2, TabStep

(* A wallet is connected to a form.                                        *)
LEMMA ConnectKeeps ==
    ASSUME PagesInv, NEW t \in Views, NEW w \in Addresses, WalletConnected(t, w)
    PROVE  PagesInv'
<1>1. ChainGrows /\ Unstored
  BY ChainRests DEF WalletConnected, PagesInv
<1>2. PICK f \in Form : f = page[t]
  BY DEF WalletConnected, Stands, PagesInv, PagesTypeOK, List, Away
<1>3. PICK step : step = IF f.at = "create" THEN "checking" ELSE "ready"
  OBVIOUS
<1>4. PICK g : g = [f EXCEPT !.wallet = w, !.step = step]
  OBVIOUS
<1>5. g \in Form /\ g.at = f.at /\ g.wallet = w /\ g.step = step
  BY <1>3, <1>4 DEF Form
<1>6. page' = [page EXCEPT ![t] = g]
  BY <1>2, <1>3, <1>4 DEF WalletConnected
<1>7. PageOK(g)'
  <2>1. g.at \in {"create", "register"} /\ g.step \in {"checking", "ready"}
    BY <1>3, <1>5 DEF Form
  <2> QED
    BY <1>5, <2>1 DEF PageOK, FormOK, ListOK
<1> QED
  BY <1>1, <1>5, <1>6, <1>7, TabStep DEF Pages

(* A form is sent off with what its user filled in.                        *)
LEMMA SubmitKeeps ==
    ASSUME PagesInv, NEW t \in Views, NEW id \in AttestationIds, NEW subject \in Addresses,
           Submit(t, id, subject)
    PROVE  PagesInv'
<1>1. ChainGrows /\ Unstored
  BY ChainRests DEF Submit, PagesInv
<1>2. PICK f \in Form : f = page[t] /\ f.step = "ready" /\ f.wallet \in Addresses
  BY DEF Submit, PagesInv, PagesTypeOK, List, Away, PageOK, FormOK
<1>3. PICK i, s : /\ i = (IF f.at = "create" THEN id ELSE None)
                  /\ s = (IF f.at = "register" THEN subject ELSE None)
  OBVIOUS
<1>4. PICK g : g = [f EXCEPT !.step = "sign", !.id = i, !.subject = s]
  OBVIOUS
<1>5. /\ g \in Form /\ g.at = f.at /\ g.wallet = f.wallet /\ g.step = "sign"
      /\ g.at = "create" => g.id \in AttestationIds
      /\ g.at = "register" => g.subject \in Addresses
  BY <1>3, <1>4 DEF Form
<1>6. page' = [page EXCEPT ![t] = g]
  BY <1>2, <1>3, <1>4 DEF Submit
<1>7. PageOK(g)'
  <2>1. g.at \in {"create", "register"}
    BY <1>5 DEF Form
  <2> QED
    BY <1>2, <1>5, <2>1 DEF PageOK, FormOK, ListOK
<1> QED
  BY <1>1, <1>5, <1>6, <1>7, TabStep DEF Pages

(* The steps of a form from the check of its wallet to the end, but for    *)
(* what it saves.                                                          *)
LEMMA FormStepKeeps ==
    ASSUME PagesInv, NEW t \in Views,
           \/ CheckAttester(t) \/ SignForm(t) \/ ApplyForm(t) \/ Answered(t)
           \/ SubmitFails(t) \/ SaveFails(t)
    PROVE  PagesInv'
<1>1. CASE CheckAttester(t) \/ SignForm(t) \/ Answered(t) \/ SubmitFails(t) \/ SaveFails(t)
  <2>1. ChainGrows /\ Unstored
    BY <1>1, ChainRests
    DEF CheckAttester, SignForm, Answered, SubmitFails, SaveFails, PagesInv
  <2>2. PICK f : f = page[t]
    OBVIOUS
  <2>3. f.at \in {"create", "register"} /\ f.step # "wallet"
    BY <1>1, <2>2 DEF CheckAttester, SignForm, Answered, SubmitFails, SaveFails, Stands
  <2>4. PICK step : Turn(t, step) /\
            \/ step \in {"events", "ready", "not-attester"}
            \/ step = "sent" /\ f.step = "sign"
            \/ step = "save" /\ f.step = "applied"
            \/ step = "warned" /\ f.step = "save"
    BY <1>1, <2>2 DEF CheckAttester, SignForm, Answered, SubmitFails, SaveFails
  <2> QED
    BY <2>1, <2>2, <2>3, <2>4, TurnStep
<1>2. CASE ApplyForm(t)
  <2>1. PICK f \in Form : f = page[t]
    BY <1>2 DEF ApplyForm, PagesInv, PagesTypeOK, List, Away
  <2>2. f.at \in {"create", "register"} /\ f.step = "sent"
    BY <1>2, <2>1 DEF ApplyForm
  <2>3. /\ f.wallet \in Addresses
        /\ f.at = "create" => f.id \in AttestationIds
        /\ f.at = "register" => f.subject \in Addresses
    BY <2>1, <2>2 DEF PagesInv, PageOK, FormOK
  <2>4. /\ \/ Administer
           \/ \E id \in AttestationIds : Attest(id)
        /\ f.at = "create" => Issued(f.id)' /\ attestation'[f.id].attester = f.wallet
    <3>1. CASE f.at = "create"
      <4>1. PICK event_id \in EventIds : CreateAttestation(f.id, event_id, f.wallet)
        BY <1>2, <2>1, <3>1 DEF ApplyForm, FormCall
      <4>2. PICK new \in Attestation :
                new = [event_id |-> event_id, attester |-> f.wallet, status |-> "Active"]
        BY <2>3 DEF Attestation
      <4>3. attestation'[f.id] = new /\ new # None /\ new.attester = f.wallet
        BY <2>3, <3>1, <4>1, <4>2, NoneAssumption
        DEF CreateAttestation, PagesInv, PagesTypeOK, RegistryTypeOK
      <4>4. Attest(f.id)
        BY <2>3, <4>1 DEF Attest
      <4> QED
        BY <2>3, <3>1, <4>3, <4>4 DEF Issued
    <3>2. CASE f.at = "register"
      BY <1>2, <2>1, <2>3, <3>2 DEF ApplyForm, FormCall, Administer
    <3> QED
      BY <2>2, <3>1, <3>2
  <2>5. ChainGrows
    BY <2>4, RegistryStep DEF ChainGrows, PagesInv, PagesTypeOK
  <2>6. Turn(t, "applied") /\ Unstored
    BY <1>2 DEF ApplyForm
  <2> QED
    BY <2>1, <2>2, <2>4, <2>5, <2>6, TurnStep
<1> QED
  BY <1>1, <1>2

(* The profile of a registered attester is saved.                          *)
LEMMA SaveProfileKeeps ==
    ASSUME PagesInv, NEW t \in Views, SaveProfile(t)
    PROVE  PagesInv'
<1>1. ChainGrows /\ ClaimsGrow
  BY ChainRests DEF SaveProfile, PagesInv, ClaimsGrow
<1>2. PICK f \in Form : f = page[t] /\ f.at = "register" /\ f.step = "save"
  BY DEF SaveProfile, Stands, PagesInv, PagesTypeOK, List, Away
<1>3. PICK step \in {"done", "warned"} : Turn(t, step)
  BY DEF SaveProfile, Stored
<1>4. PICK g : g = [f EXCEPT !.step = step]
  OBVIOUS
<1>5. g \in Form /\ g.at = "register" /\ g.wallet = f.wallet /\ g.step \in {"done", "warned"}
  BY <1>2, <1>4 DEF Form
<1>6. page' = [page EXCEPT ![t] = g]
  BY <1>2, <1>3, <1>4 DEF Turn
<1>7. f.wallet \in Addresses /\ f.subject \in Addresses
  BY <1>2 DEF PagesInv, PageOK, FormOK
<1>8. PageOK(g)'
  BY <1>5, <1>7 DEF PageOK, FormOK, ListOK
<1>9. profiles' \subseteq Addresses /\ UNCHANGED <<registry, claims, cachedStatus, listed, resyncs>>
  BY <1>2, <1>7 DEF SaveProfile, PagesInv, PagesTypeOK
<1>10. \A id \in AttestationIds : RowOK(id)'
  BY <1>1, <1>9, RowKept DEF PagesInv
<1> QED
  BY <1>1, <1>5, <1>6, <1>8, <1>9, <1>10, StoreStep DEF Pages, PagesInv, PagesTypeOK

(* The row of a created attestation: the attestation is on the chain.      *)
LEMMA SaveClaimKeeps ==
    ASSUME PagesInv, NEW t \in Views, SaveClaim(t)
    PROVE  PagesInv'
<1>1. ChainGrows
  BY ChainRests DEF SaveClaim, PagesInv
<1>2. PICK f \in Form : f = page[t] /\ f.at = "create" /\ f.step = "save"
  BY DEF SaveClaim, Stands, PagesInv, PagesTypeOK, List, Away
<1>3. PICK step \in {"done", "warned"} : Turn(t, step)
  BY DEF SaveClaim, Stored
<1>4. PICK g : g = [f EXCEPT !.step = step]
  OBVIOUS
<1>5. /\ g \in Form /\ g.at = "create" /\ g.wallet = f.wallet /\ g.id = f.id
      /\ g.step \in {"done", "warned"}
  BY <1>2, <1>4 DEF Form
<1>6. page' = [page EXCEPT ![t] = g]
  BY <1>2, <1>3, <1>4 DEF Turn
<1>7. /\ f.wallet \in Addresses /\ f.id \in AttestationIds
      /\ Issued(f.id) /\ attestation[f.id].attester = f.wallet
  BY <1>2 DEF PagesInv, PageOK, FormOK
<1>8. PICK new \in Claim :
          /\ claims' = [claims EXCEPT ![f.id] = new]
          /\ new.described /\ new.attester = f.wallet
          /\ new.status = "Revoked" => attestation[f.id].status = "Revoked"
  <2>1. CASE claims[f.id] = None
    <3>1. PICK new : new = [status |-> "Active", attester |-> f.wallet, described |-> TRUE]
      OBVIOUS
    <3>2. /\ new \in Claim /\ new.described /\ new.attester = f.wallet
          /\ new.status = "Active"
      BY <3>1, <1>7 DEF Claim
    <3> QED
      BY <1>2, <2>1, <3>1, <3>2 DEF SaveClaim
  <2>2. CASE claims[f.id] # None
    <3>1. PICK old \in Claim : old = claims[f.id]
      BY <1>7, <2>2 DEF PagesInv, PagesTypeOK
    <3>2. PICK new : new = [old EXCEPT !.described = TRUE]
      OBVIOUS
    <3>3. /\ new \in Claim /\ new.described /\ new.attester = old.attester
          /\ new.status = old.status
      BY <3>2 DEF Claim
    <3>4. /\ old.attester = f.wallet
          /\ old.status = "Revoked" => attestation[f.id].status = "Revoked"
      BY <1>7, <2>2, <3>1 DEF PagesInv, RowOK
    <3> QED
      BY <1>2, <2>2, <3>1, <3>2, <3>3, <3>4 DEF SaveClaim
  <2> QED
    BY <2>1, <2>2
<1>9. /\ claims' \in [AttestationIds -> Claim \cup {None}]
      /\ claims'[f.id] = new /\ new # None
      /\ \A id \in AttestationIds : id # f.id => claims'[id] = claims[id]
  BY <1>7, <1>8, PagesAssumption DEF PagesInv, PagesTypeOK
<1>10. ClaimsGrow
  BY <1>8, <1>9 DEF ClaimsGrow
<1>11. PageOK(g)'
  BY <1>5, <1>7, <1>8, <1>9 DEF PageOK, FormOK, ListOK
<1>12. UNCHANGED <<registry, profiles, cachedStatus, listed, resyncs>>
  BY DEF SaveClaim
<1>13. ASSUME NEW id \in AttestationIds PROVE RowOK(id)'
  <2>1. CASE id = f.id
    BY <1>7, <1>8, <1>9, <1>12, <2>1 DEF RowOK, registry, Issued
  <2>2. CASE id # f.id
    BY <1>1, <1>9, <2>2, RowKept DEF PagesInv
  <2> QED
    BY <2>1, <2>2
<1> QED
  BY <1>1, <1>5, <1>6, <1>9, <1>10, <1>11, <1>12, <1>13, StoreStep
  DEF Pages, PagesInv, PagesTypeOK

(* A step of the server that changes its copies only.                      *)
LEMMA CopyStep ==
    ASSUME PagesInv, UNCHANGED <<registry, profiles, claims>>,
           page' \in [Views -> Form \cup List \cup {Away}], \A t \in Views : PageOK(page[t])',
           cachedStatus' \in [AttestationIds -> {"absent", "Active", "Revoked", None}],
           listed' \in (SUBSET AttestationIds) \cup {None},
           resyncs' \subseteq Resync, Cardinality(resyncs') <= MaxResyncs, CopiesOK'
    PROVE  PagesInv'
<1>1. ChainGrows
  BY ChainRests DEF PagesInv
<1>2. PagesTypeOK'
  BY <1>1 DEF PagesInv, PagesTypeOK, ChainGrows
<1>3. \A id \in AttestationIds : RowOK(id)'
  BY <1>1, RowKept DEF PagesInv
<1> QED
  BY <1>2, <1>3 DEF PagesInv

(* What a step that calls no contract and changes no row leaves as it is.  *)
LEMMA Rest ==
    ASSUME PagesInv, UNCHANGED <<registry, claims>>
    PROVE  /\ ChainGrows /\ ClaimsGrow
           /\ \A id, s : Seen(id, s)' <=> Seen(id, s)
           /\ page' = page => /\ page' \in [Views -> Form \cup List \cup {Away}]
                              /\ \A t \in Views : PageOK(page[t])'
<1>1. ChainGrows /\ ClaimsGrow
  BY ChainRests DEF PagesInv, ClaimsGrow
<1>2. \A id, s : Seen(id, s)' <=> Seen(id, s)
  BY DEF Seen, Issued, registry
<1>3. page' = page => \A t \in Views : PageOK(page[t])'
  BY <1>1, PagesKept
<1> QED
  BY <1>1, <1>2, <1>3 DEF PagesInv, PagesTypeOK

(* The list is what the table had, or the cache kept of it.                *)
LEMMA ListKeeps ==
    ASSUME PagesInv, NEW t \in Views, OpenList(t) \/ RenewList
    PROVE  PagesInv'
<1>1. /\ ActiveClaims \in SUBSET AttestationIds
      /\ \A id \in ActiveClaims : claims[id] # None
  BY DEF ActiveClaims
<1>2. UNCHANGED <<registry, profiles, claims, cachedStatus, resyncs>>
  BY DEF OpenList, RenewList
<1>3. ChainGrows /\ ClaimsGrow /\ \A id, s : Seen(id, s)' <=> Seen(id, s)
  BY <1>2, Rest
<1>4. /\ listed' \in (SUBSET AttestationIds) \cup {None}
      /\ listed' # None => \A id \in listed' : claims[id] # None
  BY <1>1 DEF OpenList, RenewList, PagesInv, PagesTypeOK, CopiesOK
<1>5. CopiesOK'
  BY <1>2, <1>3, <1>4 DEF PagesInv, CopiesOK
<1>6. page' \in [Views -> Form \cup List \cup {Away}] /\ \A u \in Views : PageOK(page[u])'
  <2>1. CASE RenewList
    BY <1>2, <2>1, Rest DEF RenewList
  <2>2. CASE OpenList(t)
    <3>1. PICK p : p = [at |-> "list", checking |-> listed']
      OBVIOUS
    <3>2. listed' \in SUBSET AttestationIds /\ \A id \in listed' : claims[id] # None
      BY <1>1, <2>2 DEF OpenList, PagesInv, PagesTypeOK, CopiesOK
    <3>3. p \in List /\ p.at = "list" /\ p.checking = listed'
      BY <3>1, <3>2 DEF List
    <3>4. page' = [page EXCEPT ![t] = p]
      BY <2>2, <3>1 DEF OpenList
    <3>5. PageOK(p)'
      BY <1>2, <3>2, <3>3 DEF PageOK, FormOK, ListOK
    <3>6. page' \in [Views -> Form \cup List \cup {Away}]
      BY <3>3, <3>4 DEF PagesInv, PagesTypeOK
    <3>7. ASSUME NEW u \in Views PROVE PageOK(page[u])'
      <4>1. CASE u = t
        <5>1. page'[u] = p
          BY <3>4, <4>1 DEF PagesInv, PagesTypeOK
        <5> QED
          BY <3>5, <5>1 DEF PageOK, FormOK, ListOK
      <4>2. CASE u # t
        <5>1. page'[u] = page[u]
          BY <3>4, <4>2 DEF PagesInv, PagesTypeOK
        <5> QED
          BY <1>3, <5>1, PagesKept
      <4> QED
        BY <4>1, <4>2
    <3> QED
      BY <3>6, <3>7
  <2> QED
    BY <2>1, <2>2
<1> QED
  BY <1>2, <1>4, <1>5, <1>6, CopyStep DEF PagesInv, PagesTypeOK

(* A row is checked; it may be resynced, as it is in the table.            *)
LEMMA CheckRowKeeps ==
    ASSUME PagesInv, NEW t \in Views, NEW id \in AttestationIds, CheckRow(t, id)
    PROVE  PagesInv'
<1>1. UNCHANGED <<registry, profiles, claims, cachedStatus, listed>>
  BY DEF CheckRow
<1>2. ChainGrows /\ ClaimsGrow /\ \A x, s : Seen(x, s)' <=> Seen(x, s)
  BY <1>1, Rest
<1>3. PICK p \in List : p = page[t] /\ id \in p.checking
  BY DEF CheckRow, PagesInv, PagesTypeOK, Form, Away
<1>4. PICK q : q = [p EXCEPT !.checking = @ \ {id}]
  OBVIOUS
<1>5. q \in List /\ q.at = "list" /\ q.checking = p.checking \ {id} /\ p.at = "list"
  BY <1>4 DEF List
<1>6. page' = [page EXCEPT ![t] = q]
  BY <1>3, <1>4 DEF CheckRow
<1>7. \A x \in p.checking : claims[x] # None
  BY <1>3, <1>5 DEF PagesInv, PageOK, ListOK
<1>8. PageOK(q)'
  BY <1>1, <1>5, <1>7 DEF PageOK, FormOK, ListOK
<1>9. page' \in [Views -> Form \cup List \cup {Away}]
  BY <1>5, <1>6 DEF PagesInv, PagesTypeOK
<1>10. ASSUME NEW u \in Views PROVE PageOK(page[u])'
  <2>1. CASE u = t
    <3>1. page'[u] = q
      BY <1>6, <2>1 DEF PagesInv, PagesTypeOK
    <3> QED
      BY <1>8, <3>1 DEF PageOK, FormOK, ListOK
  <2>2. CASE u # t
    <3>1. page'[u] = page[u]
      BY <1>6, <2>2 DEF PagesInv, PagesTypeOK
    <3> QED
      BY <1>2, <3>1, PagesKept
  <2> QED
    BY <2>1, <2>2
<1>11. PICK r : r = [id |-> id, seen |-> None]
  OBVIOUS
<1>12. r \in Resync /\ r.id = id /\ r.seen = None
  BY <1>11 DEF Resync
<1>13. /\ resyncs' \subseteq Resync /\ IsFiniteSet(resyncs')
       /\ Cardinality(resyncs') <= MaxResyncs
       /\ \A x \in resyncs' : x \in resyncs \/ x = r
  <2>1. resyncs' = resyncs \/ (resyncs' = resyncs \cup {r} /\ Cardinality(resyncs) < MaxResyncs)
    BY <1>11 DEF CheckRow
  <2>2. /\ resyncs \subseteq Resync /\ IsFiniteSet(resyncs)
        /\ Cardinality(resyncs) <= MaxResyncs /\ Cardinality(resyncs) \in Nat
    BY FS_CardinalityType DEF PagesInv, PagesTypeOK, CopiesOK
  <2>3. /\ IsFiniteSet(resyncs \cup {r})
        /\ Cardinality(resyncs \cup {r}) \in {Cardinality(resyncs), Cardinality(resyncs) + 1}
    BY <2>2, FS_AddElement
  <2> QED
    BY <2>1, <2>2, <2>3, <1>12, PagesAssumption
<1>14. Seen(id, None)
  BY PagesAssumption DEF Seen
<1>15. CopiesOK'
  <2>1. \A x \in resyncs' : claims'[x.id] # None /\ Seen(x.id, x.seen)'
    BY <1>1, <1>2, <1>3, <1>7, <1>12, <1>13, <1>14 DEF PagesInv, CopiesOK
  <2> QED
    BY <1>1, <1>2, <1>13, <2>1 DEF PagesInv, CopiesOK
<1> QED
  BY <1>1, <1>9, <1>10, <1>13, <1>15, CopyStep DEF PagesInv, PagesTypeOK

(* A resync reads the chain, or what the server read of it before.         *)
LEMMA ReadChainKeeps ==
    ASSUME PagesInv, NEW r \in resyncs, ReadChain(r)
    PROVE  PagesInv'
<1>1. UNCHANGED <<registry, profiles, claims, listed, page>>
  BY DEF ReadChain
<1>2. PICK s : /\ cachedStatus' = [cachedStatus EXCEPT ![r.id] = s]
               /\ s = IF cachedStatus[r.id] = None THEN ChainStatus(r.id) ELSE cachedStatus[r.id]
  BY DEF ReadChain
<1>3. r \in Resync /\ r.id \in AttestationIds
  BY DEF PagesInv, PagesTypeOK, Resync
<1>4. s \in {"absent", "Active", "Revoked"} /\ Seen(r.id, s)
  <2>1. CASE cachedStatus[r.id] = None
    <3>1. s = ChainStatus(r.id)
      BY <1>2, <2>1
    <3>2. attestation[r.id] \in Attestation \cup {None}
      BY <1>3 DEF PagesInv, PagesTypeOK, RegistryTypeOK
    <3>3. Issued(r.id) => attestation[r.id].status \in {"Active", "Revoked"}
      BY <3>2 DEF Issued, Attestation
    <3> QED
      BY <3>1, <3>3 DEF ChainStatus, Seen
  <2>2. CASE cachedStatus[r.id] # None
    BY <1>2, <1>3, <2>2 DEF PagesInv, PagesTypeOK, CopiesOK
  <2> QED
    BY <2>1, <2>2
<1>5. cachedStatus'[r.id] = s
  BY <1>2, <1>3 DEF PagesInv, PagesTypeOK
<1>6. PICK q : q = [r EXCEPT !.seen = s]
  OBVIOUS
<1>7. q.id = r.id /\ q.seen = s /\ (s # "absent" => q \in Resync)
  BY <1>3, <1>4, <1>6 DEF Resync
<1>8. resyncs' = (resyncs \ {r}) \cup (IF s = "absent" THEN {} ELSE {q})
  BY <1>5, <1>6 DEF ReadChain
<1>9. /\ resyncs' \subseteq Resync /\ IsFiniteSet(resyncs')
      /\ Cardinality(resyncs') <= MaxResyncs
  <2>1. /\ resyncs \subseteq Resync /\ IsFiniteSet(resyncs)
        /\ Cardinality(resyncs) <= MaxResyncs /\ Cardinality(resyncs) \in Nat
    BY FS_CardinalityType DEF PagesInv, PagesTypeOK, CopiesOK
  <2>2. PICK others : others = resyncs \ {r}
    OBVIOUS
  <2>3. IsFiniteSet(others) /\ Cardinality(others) = Cardinality(resyncs) - 1
    BY <2>1, <2>2, FS_RemoveElement
  <2>4. /\ IsFiniteSet(others \cup {q})
        /\ Cardinality(others \cup {q}) \in {Cardinality(others), Cardinality(others) + 1}
    BY <2>3, FS_AddElement
  <2>5. resyncs' = others \/ (resyncs' = others \cup {q} /\ s # "absent")
    BY <1>8, <2>2
  <2>6. resyncs' \subseteq Resync
    BY <1>7, <2>1, <2>2, <2>5
  <2> QED
    BY <2>1, <2>3, <2>4, <2>5, <2>6, PagesAssumption
<1>10. \A x, z : Seen(x, z)' <=> Seen(x, z)
  BY <1>1, Rest
<1>11. CopiesOK'
  <2>1. \A x \in resyncs' : claims'[x.id] # None /\ Seen(x.id, x.seen)'
    BY <1>1, <1>4, <1>7, <1>8, <1>10 DEF PagesInv, CopiesOK
  <2>2. ASSUME NEW x \in AttestationIds PROVE Seen(x, cachedStatus'[x])
    BY <1>2, <1>4 DEF PagesInv, PagesTypeOK, CopiesOK
  <2>3. \A x \in AttestationIds : Seen(x, cachedStatus[x])'
    <3>1. ASSUME NEW x \in AttestationIds PROVE Seen(x, cachedStatus[x])'
      <4>1. PICK z : z = cachedStatus'[x]
        OBVIOUS
      <4>2. Seen(x, z)'
        BY <1>10, <2>2, <4>1
      <4> QED
        BY <4>1, <4>2 DEF Seen
    <3> QED
      BY <3>1
  <2> QED
    BY <1>1, <1>9, <2>1, <2>3 DEF PagesInv, CopiesOK
<1>12. cachedStatus' \in [AttestationIds -> {"absent", "Active", "Revoked", None}]
  BY <1>2, <1>4 DEF PagesInv, PagesTypeOK
<1>13. page' \in [Views -> Form \cup List \cup {Away}] /\ \A t \in Views : PageOK(page[t])'
  BY <1>1, Rest
<1> QED
  BY <1>1, <1>9, <1>11, <1>12, <1>13, CopyStep DEF PagesInv, PagesTypeOK

(* An entry of the server's cache expires.                                 *)
LEMMA ForgetKeeps ==
    ASSUME PagesInv, NEW id \in AttestationIds, ForgetStatus(id)
    PROVE  PagesInv'
<1>1. UNCHANGED <<registry, profiles, claims, listed, page, resyncs>>
      /\ cachedStatus' = [cachedStatus EXCEPT ![id] = None]
  BY DEF ForgetStatus
<1>2. \A x, z : Seen(x, z)' <=> Seen(x, z)
  BY <1>1, Rest
<1>3. \A x : Seen(x, None)
  BY PagesAssumption DEF Seen
<1>4. ASSUME NEW x \in AttestationIds PROVE Seen(x, cachedStatus[x])'
  <2>1. PICK z : z = cachedStatus'[x]
    OBVIOUS
  <2>2. Seen(x, z)
    BY <1>1, <1>3, <2>1 DEF PagesInv, PagesTypeOK, CopiesOK
  <2>3. Seen(x, z)'
    BY <1>2, <2>2
  <2> QED
    BY <2>1, <2>3 DEF Seen
<1>5. CopiesOK'
  BY <1>1, <1>2, <1>4 DEF PagesInv, CopiesOK
<1>6. cachedStatus' \in [AttestationIds -> {"absent", "Active", "Revoked", None}]
  BY <1>1 DEF PagesInv, PagesTypeOK
<1>7. page' \in [Views -> Form \cup List \cup {Away}] /\ \A t \in Views : PageOK(page[t])'
  BY <1>1, Rest
<1> QED
  BY <1>1, <1>5, <1>6, <1>7, CopyStep DEF PagesInv, PagesTypeOK

(* A resync writes what it read into the row, which is there.              *)
LEMMA WriteStatusKeeps ==
    ASSUME PagesInv, NEW r \in resyncs, WriteStatus(r)
    PROVE  PagesInv'
<1>1. UNCHANGED <<registry, profiles, cachedStatus, listed, page>> /\ resyncs' = resyncs \ {r}
  BY DEF WriteStatus
<1>2. r.id \in AttestationIds /\ r.seen \in {"Active", "Revoked"}
  BY DEF WriteStatus, PagesInv, PagesTypeOK, Resync
<1>3. /\ Seen(r.id, r.seen) /\ RowOK(r.id)
      /\ claims[r.id] # None /\ claims[r.id] \in Claim
  BY <1>2 DEF PagesInv, PagesTypeOK, CopiesOK
<1>4. PICK old \in Claim : old = claims[r.id]
  BY <1>3
<1>5. PICK new : new = [old EXCEPT !.status = r.seen]
  OBVIOUS
<1>6. /\ new \in Claim /\ new.attester = old.attester /\ new.status = r.seen
      /\ new.described = old.described
  BY <1>2, <1>5 DEF Claim
<1>7. PICK row \in {old, new} : claims' = [claims EXCEPT ![r.id] = row]
  <2>1. CASE claims' = claims
    <3>1. claims = [claims EXCEPT ![r.id] = old]
      BY <1>4 DEF PagesInv, PagesTypeOK
    <3> QED
      BY <2>1, <3>1
  <2>2. CASE claims' # claims
    BY <1>4, <1>5, <2>2 DEF WriteStatus
  <2> QED
    BY <2>1, <2>2
<1>8. /\ claims' \in [AttestationIds -> Claim \cup {None}]
      /\ claims'[r.id] = row /\ row # None
      /\ \A id \in AttestationIds : id # r.id => claims'[id] = claims[id]
  BY <1>2, <1>6, <1>7, PagesAssumption DEF PagesInv, PagesTypeOK
<1>9. ChainGrows
  BY <1>1, ChainRests DEF PagesInv
<1>10. ClaimsGrow
  <2>1. row.described = old.described
    BY <1>6
  <2> QED
    BY <1>4, <1>8, <2>1 DEF ClaimsGrow
<1>11. ASSUME NEW id \in AttestationIds PROVE RowOK(id)'
  <2>1. CASE id = r.id
    <3>1. Issued(id) /\ attestation[id].attester = old.attester
      BY <1>3, <1>4, <2>1 DEF RowOK
    <3>2. row.status = "Revoked" => attestation[id].status = "Revoked"
      BY <1>3, <1>4, <1>6, <2>1 DEF RowOK, Seen
    <3>3. row.attester = old.attester
      BY <1>6
    <3> QED
      BY <1>1, <1>8, <2>1, <3>1, <3>2, <3>3 DEF RowOK, registry, Issued
  <2>2. CASE id # r.id
    BY <1>8, <1>9, <2>2, RowKept DEF PagesInv
  <2> QED
    BY <2>1, <2>2
<1>12. /\ resyncs' \subseteq Resync /\ IsFiniteSet(resyncs')
       /\ Cardinality(resyncs') <= MaxResyncs
  <2>1. /\ resyncs \subseteq Resync /\ IsFiniteSet(resyncs)
        /\ Cardinality(resyncs) <= MaxResyncs /\ Cardinality(resyncs) \in Nat
    BY FS_CardinalityType DEF PagesInv, PagesTypeOK, CopiesOK
  <2>2. /\ IsFiniteSet(resyncs \ {r}) /\ Cardinality(resyncs \ {r}) = Cardinality(resyncs) - 1
    BY <2>1, FS_RemoveElement
  <2> QED
    BY <1>1, <2>1, <2>2, PagesAssumption
<1>13. PagesTypeOK'
  BY <1>1, <1>8, <1>9, <1>12 DEF PagesInv, PagesTypeOK, ChainGrows
<1>14. \A t \in Views : PageOK(page[t])'
  BY <1>1, <1>9, <1>10, PagesKept
<1>15. CopiesOK'
  <2>1. \A x \in resyncs : x.id \in AttestationIds
    BY DEF PagesInv, PagesTypeOK, Resync
  <2>2. \A x \in resyncs' : claims'[x.id] # None /\ Seen(x.id, x.seen)'
    BY <1>1, <1>9, <1>10, <2>1, SeenKept DEF PagesInv, CopiesOK, ClaimsGrow
  <2>3. listed # None => \A id \in listed : id \in AttestationIds
    BY DEF PagesInv, PagesTypeOK
  <2>4. listed' # None => \A id \in listed' : claims'[id] # None
    BY <1>1, <1>10, <2>3 DEF PagesInv, CopiesOK, ClaimsGrow
  <2>5. \A id \in AttestationIds : Seen(id, cachedStatus[id])'
    BY <1>1, <1>9, SeenKept DEF PagesInv, CopiesOK
  <2> QED
    BY <1>12, <2>2, <2>4, <2>5 DEF CopiesOK
<1> QED
  BY <1>11, <1>13, <1>14, <1>15 DEF PagesInv

(* Calls of the contract from elsewhere only add to what is on the chain.  *)
LEMMA CallKeeps ==
    ASSUME PagesInv, RegistryTypeOK', ChainGrows, Unstored, UNCHANGED page
    PROVE  PagesInv'
<1>1. ClaimsGrow
  BY DEF ClaimsGrow, Unstored
<1>2. PagesTypeOK'
  BY DEF PagesInv, PagesTypeOK, Unstored
<1>3. \A t \in Views : PageOK(page[t])'
  BY <1>1, PagesKept
<1>4. \A id \in AttestationIds : RowOK(id)'
  BY RowKept DEF PagesInv, Unstored
<1> QED
  BY <1>1, <1>2, <1>3, <1>4, CopiesKept DEF PagesInv, Unstored

(* The first state.                                                        *)
LEMMA PagesBegin == PagesInit => PagesInv
<1> SUFFICES ASSUME PagesInit PROVE PagesInv
  OBVIOUS
<1>1. PagesTypeOK
  BY FS_EmptySet, PagesAssumption
  DEF PagesInit, PagesTypeOK, RegistryInit, RegistryTypeOK
<1>2. \A t \in Views : PageOK(page[t])
  BY DEF PagesInit, PageOK, FormOK, ListOK, Away
<1>3. \A id \in AttestationIds : RowOK(id)
  BY DEF PagesInit, RowOK
<1>4. CopiesOK
  <2>1. \A id \in AttestationIds : Seen(id, cachedStatus[id])
    BY PagesAssumption DEF PagesInit, Seen
  <2> QED
    BY <2>1, FS_EmptySet DEF PagesInit, CopiesOK
<1> QED
  BY <1>1, <1>2, <1>3, <1>4 DEF PagesInv

(* Every step.                                                             *)
LEMMA PagesStep == PagesInv /\ [PagesNext]_attestationPages => PagesInv'
<1> SUFFICES ASSUME PagesInv, [PagesNext]_attestationPages PROVE PagesInv'
  OBVIOUS
<1>1. ASSUME NEW t \in Views, FormNext(t) PROVE PagesInv'
  <2>1. CASE \/ Open(t) \/ OpenList(t) \/ CheckAttester(t) \/ SignForm(t) \/ ApplyForm(t)
             \/ Answered(t) \/ SubmitFails(t) \/ SaveProfile(t) \/ SaveClaim(t) \/ SaveFails(t)
    BY <2>1, OpenKeeps, ListKeeps, FormStepKeeps, SaveProfileKeeps, SaveClaimKeeps
  <2>2. ASSUME NEW wallet \in Addresses, WalletConnected(t, wallet) PROVE PagesInv'
    BY <2>2, ConnectKeeps
  <2>3. ASSUME NEW id \in AttestationIds, NEW subject \in Addresses, Submit(t, id, subject)
        PROVE  PagesInv'
    BY <2>3, SubmitKeeps
  <2>4. ASSUME NEW id \in AttestationIds, CheckRow(t, id) PROVE PagesInv'
    BY <2>4, CheckRowKeeps
  <2> QED
    BY <1>1, <2>1, <2>2, <2>3, <2>4 DEF FormNext
<1>2. ASSUME NEW r \in resyncs, ReadChain(r) \/ WriteStatus(r) PROVE PagesInv'
  BY <1>2, ReadChainKeeps, WriteStatusKeeps
<1>3. ASSUME NEW id \in AttestationIds, ForgetStatus(id) PROVE PagesInv'
  BY <1>3, ForgetKeeps
<1>4. CASE RenewList
  <2>1. CASE Views = {}
    <3>1. ActiveClaims \in SUBSET AttestationIds /\ \A id \in ActiveClaims : claims[id] # None
      BY DEF ActiveClaims
    <3>2. \A id, s : Seen(id, s)' <=> Seen(id, s)
      BY <1>4, Rest DEF RenewList
    <3>3. CopiesOK' /\ listed' \in (SUBSET AttestationIds) \cup {None}
      BY <1>4, <3>1, <3>2 DEF RenewList, PagesInv, CopiesOK
    <3> QED
      BY <1>4, <2>1, <3>3, CopyStep DEF RenewList, PagesInv, PagesTypeOK
  <2>2. CASE Views # {}
    BY <1>4, <2>2, ListKeeps
  <2> QED
    BY <2>1, <2>2
<1>5. CASE CallRegistry
  <2>1. ChainGrows
    BY <1>5, RegistryStep DEF CallRegistry, RegistryNext, ChainGrows, PagesInv, PagesTypeOK
  <2> QED
    BY <1>5, <2>1, CallKeeps DEF CallRegistry, ChainGrows
<1>6. CASE UNCHANGED attestationPages
  <2>1. ChainGrows
    BY <1>6, ChainRests DEF attestationPages, PagesInv
  <2> QED
    BY <1>6, <2>1, CallKeeps DEF attestationPages, Unstored, ChainGrows
<1> QED
  BY <1>1, <1>2, <1>3, <1>4, <1>5, <1>6 DEF PagesNext

(* The tables and the pages keep their types.                              *)
THEOREM PageTypes == PagesSpec => []PagesTypeOK
<1>1. PagesInv => PagesTypeOK
  BY DEF PagesInv
<1> QED
  BY <1>1, PagesBegin, PagesStep, PTL DEF PagesSpec

(* The table attestation is never ahead of the chain, nor a form ahead of  *)
(* the table (create-attestation-form.tsx, attestation-list.tsx, resync).  *)
THEOREM RowsFollowChain == PagesSpec => []RowsOnChain
<1>1. PagesInv => RowsOnChain
  <2> SUFFICES ASSUME PagesInv PROVE RowsOnChain
    OBVIOUS
  <2>1. \A t \in Views : Stands(t, "create", "done") =>
            claims[page[t].id] # None /\ claims[page[t].id].described
    BY DEF PagesInv, PageOK, FormOK, Stands
  <2>2. \A id \in AttestationIds : claims[id] # None =>
            /\ Issued(id) /\ attestation[id].attester = claims[id].attester
            /\ claims[id].status = "Revoked" => attestation[id].status = "Revoked"
    BY DEF PagesInv, RowOK
  <2> QED
    BY <2>1, <2>2 DEF RowsOnChain
<1> QED
  BY <1>1, PagesBegin, PagesStep, PTL DEF PagesSpec

-----------------------------------------------------------------------------
(* The contract with either of them: every variable keeps its type.        *)
THEOREM AttestationTypes == AttestationSpec => []AttestationTypeOK
<1> DEFINE Both == /\ part \in {"query", "pages"}
                   /\ part = "query" => QueryInv
                   /\ part = "pages" => PagesInv
<1>1. AttestationInit => Both
  BY QueryBegins, PagesBegin DEF AttestationInit
<1>2. Both /\ [AttestationNext]_<<part, vars, pageVars>> => Both'
  <2> SUFFICES ASSUME Both, [AttestationNext]_<<part, vars, pageVars>> PROVE Both'
    OBVIOUS
  <2>1. part' = part
    BY DEF AttestationNext
  <2>2. CASE part = "query"
    <3>1. [Next]_vars
      BY <2>2 DEF AttestationNext
    <3> QED
      BY <2>1, <2>2, <3>1, QueryStep
  <2>3. CASE part = "pages"
    <3>1. [PagesNext]_attestationPages
      BY <2>3 DEF AttestationNext, vars, pageVars, attestationPages
    <3> QED
      BY <2>1, <2>3, <3>1, PagesStep
  <2> QED
    BY <2>2, <2>3
<1>3. Both => AttestationTypeOK
  BY DEF AttestationTypeOK, QueryInv, PagesInv
<1> QED
  BY <1>1, <1>2, <1>3, PTL DEF AttestationSpec
=============================================================================
