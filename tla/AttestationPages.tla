-------------------------- MODULE AttestationPages --------------------------
(***************************************************************************)
(* Attestations in the web application: the forms that register an         *)
(* attester and create an attestation                                      *)
(* (apps/web/components/attestations/attester-registration-form.tsx,       *)
(* create-attestation-form.tsx), the list and its on-chain check           *)
(* (attestation-list.tsx), their routes (apps/web/app/api/attestations),   *)
(* and the tables behind them (packages/db/src/repositories), over the     *)
(* AttestationRegistry contract.                                           *)
(*                                                                         *)
(* A tab shows one page at a time and may leave it at any moment; a resync *)
(* it asked for runs on.  The indexer writes no attestation: a row begins  *)
(* with the claim description.                                             *)
(***************************************************************************)
EXTENDS AttestationRegistry, FiniteSets, Naturals

CONSTANTS
    Views,          \* browser tabs
    MaxResyncs      \* bound on resync requests under way

VARIABLES
    profiles,      \* wallets in the table attesterProfile, all of them active
    claims,        \* the table attestation, by id
    cachedStatus,  \* the server's query cache for get_attestation, by id
    listed,        \* unstable_cache: the Active attestations of the business
    page,          \* what each tab shows
    resyncs        \* resync requests and what they have read

attestationPages == <<registry, profiles, claims, cachedStatus, listed, page, resyncs>>

Claim == [status : {"Active", "Revoked"}, attester : Addresses, described : BOOLEAN]

\* The steps of both forms: "wallet" is "connecting" and "checking" is
\* "checking-attester"; "submitting" is split into "sign", "sent" and
\* "applied"; "save" is the request that follows it.
Form == [at : {"create", "register"}, wallet : Addresses \cup {None},
         id : AttestationIds \cup {None}, subject : Addresses \cup {None},
         step : {"wallet", "checking", "events", "not-attester", "ready", "sign",
                 "sent", "applied", "save", "done", "warned"}]

\* The list with the rows whose on-chain check is not finished.
List == [at : {"list"}, checking : SUBSET AttestationIds]

Away == [at |-> "away"]

Resync == [id : AttestationIds, seen : {"Active", "Revoked", None}]

\* None is neither a row nor a status.
ASSUME PagesAssumption ==
    /\ None \notin Claim /\ None \notin {"absent", "Active", "Revoked"}
    /\ MaxResyncs \in Nat

PagesTypeOK ==
    /\ RegistryTypeOK
    /\ profiles \subseteq Addresses
    /\ claims \in [AttestationIds -> Claim \cup {None}]
    /\ cachedStatus \in [AttestationIds -> {"absent", "Active", "Revoked", None}]
    /\ listed \in (SUBSET AttestationIds) \cup {None}
    /\ page \in [Views -> Form \cup List \cup {Away}]
    /\ resyncs \subseteq Resync /\ Cardinality(resyncs) <= MaxResyncs

PagesInit ==
    /\ RegistryInit
    /\ profiles = {}
    /\ claims = [id \in AttestationIds |-> None]
    /\ cachedStatus = [id \in AttestationIds |-> None]
    /\ listed = None
    /\ page = [t \in Views |-> Away]
    /\ resyncs = {}

ActiveClaims == {id \in AttestationIds : claims[id] # None /\ claims[id].status = "Active"}

\* The form `at` of tab t is at this step.
Stands(t, at, step) == page[t].at = at /\ page[t].step = step

Turn(t, step) == page' = [page EXCEPT ![t].step = step]

Unstored == UNCHANGED <<profiles, claims, cachedStatus, listed, resyncs>>

-----------------------------------------------------------------------------
(* Pages and the two forms up to the transaction.                          *)

Open(t) ==
    /\ page' \in {[page EXCEPT ![t] = Away]} \cup
          {[page EXCEPT ![t] = [at |-> at, wallet |-> None, id |-> None,
               subject |-> None, step |-> "wallet"]] : at \in {"create", "register"}}
    /\ Unstored /\ UNCHANGED registry

\* handleWalletConnected.  The creation form checks the wallet and has no
\* WalletConnect any more; the registration form keeps it beside the details
\* and the error, and follows the wallet.
WalletConnected(t, wallet) ==
    /\ \/ Stands(t, "create", "wallet")
       \/ page[t].at = "register" /\ page[t].step \in {"wallet", "ready"}
    /\ page' = [page EXCEPT ![t].wallet = wallet,
           ![t].step = IF page[t].at = "create" THEN "checking" ELSE "ready"]
    /\ Unstored /\ UNCHANGED registry

\* GET attester-status and GET events ask the profile only; both may fail, and
\* a form without an active profile ends.
CheckAttester(t) ==
    /\ page[t].at = "create"
    /\ \/ Stands(t, "create", "checking") /\ page[t].wallet \in profiles /\ Turn(t, "events")
       \/ Stands(t, "create", "events") /\ page[t].wallet \in profiles /\ Turn(t, "ready")
       \/ page[t].step \in {"checking", "events"} /\ Turn(t, "not-attester")
    /\ Unstored /\ UNCHANGED registry

\* handleSubmit: a new attestation has an id made of wallet, event and time.
Submit(t, id, subject) ==
    /\ page[t].at \in {"create", "register"} /\ page[t].step = "ready"
    /\ page' = [page EXCEPT ![t].step = "sign",
           ![t].id = IF page[t].at = "create" THEN id ELSE None,
           ![t].subject = IF page[t].at = "register" THEN subject ELSE None]
    /\ Unstored /\ UNCHANGED registry

-----------------------------------------------------------------------------
(* The transaction and the request that follows it.                        *)

\* The call that the form of tab t makes, as the contract executes it.
FormCall(t) ==
    \/ /\ page[t].at = "create"
       /\ \E event_id \in EventIds :
              CreateAttestation(page[t].id, event_id, page[t].wallet)
    \/ /\ page[t].at = "register"
       /\ RegisterAttester(page[t].wallet, page[t].subject)

\* simulateAndPrepare: the contract would accept the call now.
Accepted(t) ==
    IF page[t].at = "create"
    THEN ActiveAttester(page[t].wallet) /\ ~Issued(page[t].id)
    ELSE page[t].wallet = admin /\ ~ActiveAttester(page[t].subject)

SignForm(t) ==
    /\ page[t].at \in {"create", "register"} /\ page[t].step = "sign"
    /\ Accepted(t)
    /\ Turn(t, "sent")
    /\ Unstored /\ UNCHANGED registry

ApplyForm(t) ==
    /\ page[t].at \in {"create", "register"} /\ page[t].step = "sent"
    /\ FormCall(t)
    /\ Turn(t, "applied")
    /\ Unstored

\* Mutant: any answer of submitAndWait is taken for a success.
AnsweredAnyhow(t) ==
    /\ page[t].at \in {"create", "register"}
    /\ page[t].step \in {"sent", "applied"}
    /\ Turn(t, "save")
    /\ Unstored /\ UNCHANGED registry

\* submitAndWait returns a success; the form says so before it saves.  The
\* invalidation is of this tab's query cache, not of the server's.
Answered(t) ==
    /\ page[t].at \in {"create", "register"} /\ page[t].step = "applied"
    /\ Turn(t, "save")
    /\ Unstored /\ UNCHANGED registry

\* The result is no success or something throws: whatever became of the
\* transaction, the form is back where it was.
SubmitFails(t) ==
    /\ page[t].at \in {"create", "register"}
    /\ page[t].step \in {"sign", "sent", "applied"}
    /\ Turn(t, "ready")
    /\ Unstored /\ UNCHANGED registry

\* The request took effect; its answer may be lost, and the form then warns.
Stored(t) == \E step \in {"done", "warned"} : Turn(t, step)

\* POST register-attester: the profile is active, also one that was there.
SaveProfile(t) ==
    /\ Stands(t, "register", "save")
    /\ profiles' = profiles \cup {page[t].subject}
    /\ Stored(t)
    /\ UNCHANGED <<registry, claims, cachedStatus, listed, resyncs>>

\* POST claim-description: the row is created Active or gets the description.
\* revalidateTag(.., "max") keeps serving the cached list until it is renewed.
SaveClaim(t) ==
    /\ Stands(t, "create", "save")
    /\ page[t].wallet \in profiles
    /\ claims' = [claims EXCEPT ![page[t].id] =
           IF @ = None
           THEN [status |-> "Active", attester |-> page[t].wallet, described |-> TRUE]
           ELSE [@ EXCEPT !.described = TRUE]]
    /\ Stored(t)
    /\ UNCHANGED <<registry, profiles, cachedStatus, listed, resyncs>>

\* The request fails before it stored anything: saveWarning.
SaveFails(t) ==
    /\ page[t].at \in {"create", "register"} /\ page[t].step = "save"
    /\ Turn(t, "warned")
    /\ Unstored /\ UNCHANGED registry

-----------------------------------------------------------------------------
(* The list and the resync route.                                          *)

\* getAttestations(businessId, false): the cached list, or a new one.
OpenList(t) ==
    /\ listed' = IF listed = None THEN ActiveClaims ELSE listed
    /\ page' = [page EXCEPT ![t] = [at |-> "list", checking |-> listed']]
    /\ UNCHANGED <<registry, profiles, claims, cachedStatus, resyncs>>

\* The cached list is renewed after its tag was revalidated or its time is up.
RenewList ==
    /\ listed' \in {None, ActiveClaims}
    /\ UNCHANGED <<registry, profiles, claims, cachedStatus, page, resyncs>>

\* isValidAttestation, in the tab's own query cache, says something else than
\* the row, which is Active: resync.  The answer says the same or there is
\* none: nothing.  In no case does the row on the screen change, as the
\* route's answer has no attestation in it.
CheckRow(t, id) ==
    /\ page[t].at = "list" /\ id \in page[t].checking
    /\ page' = [page EXCEPT ![t].checking = @ \ {id}]
    /\ \/ resyncs' = resyncs
       \/ /\ Cardinality(resyncs) < MaxResyncs
          /\ ~Issued(id) \/ attestation[id].status = "Revoked"
          /\ resyncs' = resyncs \cup {[id |-> id, seen |-> None]}
    /\ UNCHANGED <<registry, profiles, claims, cachedStatus, listed>>

ChainStatus(id) == IF Issued(id) THEN attestation[id].status ELSE "absent"

\* POST resync up to getAttestation's answer: from the server's cache, or a
\* new reading.  Without an attestation on chain the request ends.
ReadChain(r) ==
    /\ r.seen = None
    /\ cachedStatus' \in {[cachedStatus EXCEPT ![r.id] = s] :
           s \in IF cachedStatus[r.id] = None THEN {ChainStatus(r.id)} ELSE {cachedStatus[r.id]}}
    /\ resyncs' = (resyncs \ {r}) \cup
           (IF cachedStatus'[r.id] = "absent" THEN {} ELSE {[r EXCEPT !.seen = cachedStatus'[r.id]]})
    /\ UNCHANGED <<registry, profiles, claims, listed, page>>

ForgetStatus(id) ==
    /\ cachedStatus' = [cachedStatus EXCEPT ![id] = None]
    /\ UNCHANGED <<registry, profiles, claims, listed, page, resyncs>>

\* attestations.upsert and revalidateTag; or something throws.
WriteStatus(r) ==
    /\ r.seen # None
    /\ claims' \in {claims, [claims EXCEPT ![r.id].status = r.seen]}
    /\ resyncs' = resyncs \ {r}
    /\ UNCHANGED <<registry, profiles, cachedStatus, listed, page>>

\* The contract's other callers, and transactions that a form gave up on.
CallRegistry == RegistryNext /\ Unstored /\ UNCHANGED page

FormNext(t) ==
    \/ Open(t) \/ OpenList(t) \/ CheckAttester(t)
    \/ \E wallet \in Addresses : WalletConnected(t, wallet)
    \/ \E id \in AttestationIds, subject \in Addresses : Submit(t, id, subject)
    \/ SignForm(t) \/ ApplyForm(t) \/ Answered(t) \/ SubmitFails(t)
    \/ SaveProfile(t) \/ SaveClaim(t) \/ SaveFails(t)
    \/ \E id \in AttestationIds : CheckRow(t, id)

PagesNext ==
    \/ \E t \in Views : FormNext(t)
    \/ \E r \in resyncs : ReadChain(r) \/ WriteStatus(r)
    \/ \E id \in AttestationIds : ForgetStatus(id)
    \/ RenewList \/ CallRegistry

PagesSpec == PagesInit /\ [][PagesNext]_attestationPages

-----------------------------------------------------------------------------
(* Properties *)

(* The table is never ahead of the chain: an attestation in it was issued  *)
(* by the attester it names, and one it calls revoked is revoked, however  *)
(* old the status is that a resync read and whatever the forms gave up on. *)
(* Nor is a form ahead of the table: one that ends without a warning has   *)
(* left its attestation there with its description.                        *)
RowsOnChain ==
    /\ \A id \in AttestationIds :
           claims[id] # None =>
               /\ Issued(id) /\ attestation[id].attester = claims[id].attester
               /\ claims[id].status = "Revoked" => attestation[id].status = "Revoked"
    /\ \A t \in Views :
           Stands(t, "create", "done") =>
               claims[page[t].id] # None /\ claims[page[t].id].described
=============================================================================
