--------------------------- MODULE BusinessRecords ---------------------------
(***************************************************************************)
(* The database's copy of a business and the routes that move it           *)
(* (apps/web/app/api/business/{deactivate,metadata,sync,verify}/route.ts   *)
(* and v1/business/register/route.ts,                                      *)
(* packages/db/src/repositories/businesses.ts), with the deactivation      *)
(* dialog (components/business/business-deactivation-flow.tsx) and the SDK *)
(* calls they make (packages/sdk/src/contracts/business-registry.ts), over *)
(* the BusinessRegistry contract.                                          *)
(*                                                                         *)
(* The routes run in one server process, which holds the idempotency keys  *)
(* of metadata updates and the query cache of get_business.  A request is  *)
(* split where its route awaits.  Signing may always fail; that it can     *)
(* succeed on a server is what the SDK's interface says, not what          *)
(* Freighter does.                                                         *)
(***************************************************************************)
EXTENDS BusinessRegistry, Integers, Sequences, SequencesExt, FiniteSetsExt

CONSTANTS
    Users,      \* signed-in users
    Clients,    \* browser tabs and API clients, one request each at a time
    KeyLimit,   \* more idempotency keys than this start a clean-up (1000)
    KeyDrop     \* how many keys a clean-up removes (500)

ASSUME KeyAssumption == KeyLimit \in Nat /\ KeyDrop \in Nat

VARIABLES
    rows,     \* the table businessProfile
    stored,   \* the query cache's entries for get_business, by id
    load,     \* the query cache's request for get_business, by id
    keys,     \* idempotencyKeys, in order of insertion
    req,      \* each client's request and how far it is, or the screen shown
    trimmed   \* history: keys that a clean-up removed while in progress

chain == vars
recordVars == <<chain, rows, stored, load, keys, req, trimmed>>

Row == [user : Users, id : Ids, wallet : Addresses,
        metadata_hash : Hashes, active : BOOLEAN]

\* What get_business returns: nothing, or the record.
Reading == {{}} \cup {{b} : b \in Business}

Key == Ids \X Hashes

\* No request: the screen shows the deactivation dialog or none.
Shows(screen) == [op |-> "none", step |-> screen]

Screens == {"idle", "warning", "confirm", "complete"}

\* sync and verify make the same "check".
Request == [op : {"deactivate", "metadata", "check"}, user : Users,
            id : Ids, hash : Hashes \cup {None}, seen : Reading,
            step : {"find", "sign", "sent", "applied", "read", "wait", "save"}]

NoLoad == [state |-> "none", value |-> {}]

RecordTypeOK ==
    /\ TypeOK
    /\ rows \subseteq Row
    /\ stored \in [Ids -> Reading \cup {{None}}]
    /\ load \in [Ids -> [state : {"none", "sent", "answered"}, value : Reading]]
    /\ keys \in Seq([key : Key, status : {"in_progress", "completed", "failed"}])
    /\ req \in [Clients -> Request \cup {Shows(screen) : screen \in Screens}]
    /\ trimmed \subseteq Key

RecordInit ==
    /\ Init
    /\ rows = {}
    /\ stored = [id \in Ids |-> {None}]
    /\ load = [id \in Ids |-> NoLoad]
    /\ keys = <<>>
    /\ req = [c \in Clients |-> Shows("idle")]
    /\ trimmed = {}

RowsOf(id) == {r \in rows : r.id = id}

Put(r, new) == rows' = (rows \ {r}) \cup {new}

KeyOf(c) == <<req[c].id, req[c].hash>>

Place(k) == {i \in DOMAIN keys : keys[i].key = k}

\* Map.set: a new key goes to the end, an old one keeps its place.
SetKey(k, status) ==
    IF Place(k) = {}
    THEN Append(keys, [key |-> k, status |-> status])
    ELSE [i \in DOMAIN keys |->
             IF i \in Place(k) THEN [key |-> k, status |-> status] ELSE keys[i]]

\* Map.delete.
DeleteKey(k) ==
    IF Place(k) = {} THEN keys ELSE RemoveAt(keys, CHOOSE i \in Place(k) : TRUE)

\* Keys beyond the limit: the oldest ones go, whatever their status.
Trim(seq) ==
    IF Len(seq) > KeyLimit THEN SubSeq(seq, KeyDrop + 1, Len(seq)) ELSE seq

At(c, step) == req[c].step = step

Go(c, step) == req' = [req EXCEPT ![c].step = step]

\* The answer; the dialog shows what came of a deactivation.
Finish(c, success) ==
    req' = [req EXCEPT ![c] = Shows(IF req[c].op # "deactivate" THEN "idle"
                                    ELSE IF success THEN "complete" ELSE "confirm")]

-----------------------------------------------------------------------------
(* The deactivation dialog: to its second page and back, Cancel, Done.     *)

DialogStep(c) ==
    /\ \E move \in {<<"idle", "warning">>, <<"warning", "confirm">>,
                    <<"confirm", "warning">>, <<"warning", "idle">>,
                    <<"complete", "idle">>} :
           At(c, move[1]) /\ req' = [req EXCEPT ![c] = Shows(move[2])]
    /\ UNCHANGED <<chain, rows, stored, load, keys, trimmed>>

-----------------------------------------------------------------------------
(* Requests.                                                               *)

Start(c, op, user, id, hash) ==
    req' = [req EXCEPT ![c] = [op |-> op, user |-> user, id |-> id,
        hash |-> hash, seen |-> {}, step |-> "find"]]

\* POST deactivate (handleConfirm), sync and verify, up to the first await.
Begin(c, user, id) ==
    /\ \/ At(c, "confirm") /\ Start(c, "deactivate", user, id, None)
       \/ At(c, "idle") /\ Start(c, "check", user, id, None)
    /\ UNCHANGED <<chain, rows, stored, load, keys, trimmed>>

\* Mutant: only a completed update stops a second one.
BeginBesideOther(c, user, id, hash) ==
    /\ At(c, "idle") /\ Start(c, "metadata", user, id, hash)
    /\ \A i \in Place(<<id, hash>>) : keys[i].status # "completed"
    /\ keys' = SetKey(<<id, hash>>, "in_progress")
    /\ UNCHANGED <<chain, rows, stored, load, trimmed>>

\* PUT metadata: a key that is there already ends the request, with success
\* when it is completed, which changes nothing.
BeginMetadata(c, user, id, hash) ==
    /\ At(c, "idle") /\ Start(c, "metadata", user, id, hash)
    /\ Place(<<id, hash>>) = {}
    /\ keys' = SetKey(<<id, hash>>, "in_progress")
    /\ UNCHANGED <<chain, rows, stored, load, trimmed>>

\* findById finds nothing or a row of somebody else (404), or the business to
\* deactivate is inactive (400).
Refuse(c) ==
    /\ At(c, "find")
    /\ \/ \A r \in RowsOf(req[c].id) : r.user # req[c].user
       \/ req[c].op = "deactivate" /\ \A r \in RowsOf(req[c].id) : ~r.active
    /\ keys' = IF req[c].op = "metadata" THEN DeleteKey(KeyOf(c)) ELSE keys
    /\ Finish(c, FALSE)
    /\ UNCHANGED <<chain, rows, stored, load, trimmed>>

\* findById, and getAccount for the writes.
Find(c) ==
    /\ At(c, "find")
    /\ \E r \in RowsOf(req[c].id) :
        /\ r.user = req[c].user
        /\ req[c].op = "deactivate" => r.active
        /\ Go(c, IF req[c].op = "check" THEN "read" ELSE "sign")
    /\ UNCHANGED <<chain, rows, stored, load, keys, trimmed>>

\* simulateAndPrepare rejects a call that the contract would reject now.
Sign(c) ==
    /\ At(c, "sign")
    /\ Active(req[c].id)
    /\ Go(c, "sent")
    /\ UNCHANGED <<chain, rows, stored, load, keys, trimmed>>

\* The transaction is included, signed by the business's owner.
Apply(c) ==
    /\ At(c, "sent")
    /\ \E signer \in Addresses :
        \/ req[c].op = "deactivate" /\ DeactivateBusiness(signer, req[c].id)
        \/ req[c].op = "metadata" /\ UpdateMetadata(signer, req[c].id, req[c].hash)
    /\ Go(c, "applied")
    /\ UNCHANGED <<rows, stored, load, keys, trimmed>>

\* submitAndWait returns; the SDK invalidates get_business of this id.
Confirm(c) ==
    /\ At(c, "applied")
    /\ stored' = [stored EXCEPT ![req[c].id] = {None}]
    /\ Go(c, "save")
    /\ UNCHANGED <<chain, rows, load, keys, trimmed>>

\* businesses.deactivate.
SaveDeactivated(c) ==
    /\ At(c, "save") /\ req[c].op = "deactivate"
    /\ \E r \in RowsOf(req[c].id) : Put(r, [r EXCEPT !.active = FALSE])
    /\ Finish(c, TRUE)
    /\ UNCHANGED <<chain, stored, load, keys, trimmed>>

\* businesses.update with the new hash; the key is completed, then the map is
\* cleaned up.
SaveMetadata(c) ==
    /\ At(c, "save") /\ req[c].op = "metadata"
    /\ \E r \in RowsOf(req[c].id) : Put(r, [r EXCEPT !.metadata_hash = req[c].hash])
    /\ LET after == SetKey(KeyOf(c), "completed")
       IN /\ keys' = Trim(after)
          /\ trimmed' = trimmed \cup
                {e.key : e \in {x \in ToSet(after) \ ToSet(Trim(after)) :
                                    x.status = "in_progress"}}
    /\ Finish(c, TRUE)
    /\ UNCHANGED <<chain, stored, load>>

\* Mutant: the row is brought up to date whatever became of the call.
FailsSaved(c) ==
    /\ req[c].step \notin Screens \cup {"wait"}
    /\ \E r \in RowsOf(req[c].id) :
           Put(r, [r EXCEPT !.active = @ /\ req[c].op # "deactivate"])
    /\ keys' = IF req[c].op = "metadata" THEN SetKey(KeyOf(c), "failed") ELSE keys
    /\ Finish(c, FALSE)
    /\ UNCHANGED <<chain, stored, load, trimmed>>

\* Anything throws: getAccount, the simulation, signing, submitAndWait (whether
\* or not the transaction is applied) or the database.
Fails(c) ==
    /\ req[c].step \notin Screens \cup {"wait"}
    /\ keys' = IF req[c].op = "metadata" THEN SetKey(KeyOf(c), "failed") ELSE keys
    /\ Finish(c, FALSE)
    /\ UNCHANGED <<chain, rows, stored, load, trimmed>>

-----------------------------------------------------------------------------
(* getBusiness: the cached read of sync and verify.                        *)

ReadHit(c) ==
    /\ At(c, "read") /\ stored[req[c].id] # {None}
    /\ req' = [req EXCEPT ![c].seen = stored[req[c].id], ![c].step = "save"]
    /\ UNCHANGED <<chain, rows, stored, load, keys, trimmed>>

\* A miss joins the request under way or starts one.
ReadMiss(c) ==
    /\ At(c, "read") /\ stored[req[c].id] = {None}
    /\ load' = [load EXCEPT ![req[c].id].state = IF @ = "none" THEN "sent" ELSE @]
    /\ Go(c, "wait")
    /\ UNCHANGED <<chain, rows, stored, keys, trimmed>>

Evaluate(id) ==
    /\ load[id].state = "sent"
    /\ load' = [load EXCEPT ![id] = [state |-> "answered",
           value |-> IF Exists(id) THEN {business[id]} ELSE {}]]
    /\ UNCHANGED <<chain, rows, stored, keys, req, trimmed>>

Waits(c, id) == At(c, "wait") /\ req[c].id = id

Answer(id) ==
    /\ load[id].state = "answered"
    /\ stored' = [stored EXCEPT ![id] = load[id].value]
    /\ load' = [load EXCEPT ![id] = NoLoad]
    /\ req' = [c \in Clients |->
           IF Waits(c, id) THEN [req[c] EXCEPT !.seen = load[id].value, !.step = "save"]
                           ELSE req[c]]
    /\ UNCHANGED <<chain, rows, keys, trimmed>>

\* The loader throws, and with it every read that joined it.
LoadFails(id) ==
    /\ load[id].state # "none"
    /\ load' = [load EXCEPT ![id] = NoLoad]
    /\ req' = [c \in Clients |-> IF Waits(c, id) THEN Shows("idle") ELSE req[c]]
    /\ UNCHANGED <<chain, rows, stored, keys, trimmed>>

Expire(id) ==
    /\ stored[id] # {None}
    /\ stored' = [stored EXCEPT ![id] = {None}]
    /\ UNCHANGED <<chain, rows, load, keys, req, trimmed>>

\* POST sync: the row takes wallet, hash and flag of the record.
Sync(c) ==
    /\ At(c, "save") /\ req[c].op = "check"
    /\ \E b \in req[c].seen, r \in RowsOf(req[c].id) :
           Put(r, [r EXCEPT !.wallet = b.wallet, !.active = b.active,
                            !.metadata_hash = b.metadata_hash])
    /\ Finish(c, TRUE)
    /\ UNCHANGED <<chain, stored, load, keys, trimmed>>

\* POST verify compares and changes nothing.
Verify(c) ==
    /\ At(c, "save") /\ req[c].op = "check"
    /\ Finish(c, TRUE)
    /\ UNCHANGED <<chain, rows, stored, load, keys, trimmed>>

-----------------------------------------------------------------------------
(* What else changes rows and records.                                     *)

\* POST v1/business/register: a row for a user without one; user, id and
\* wallet are unique columns.  The chain is not asked.
RegisterRow(user, id, wallet, hash) ==
    /\ \A r \in rows : r.user # user /\ r.id # id /\ r.wallet # wallet
    /\ rows' = rows \cup {[user |-> user, id |-> id, wallet |-> wallet,
                          metadata_hash |-> hash, active |-> TRUE]}
    /\ UNCHANGED <<chain, stored, load, keys, req, trimmed>>

\* The owner's other clients, and transactions whose request gave up on them.
CallContract ==
    /\ \E signer \in Addresses, id \in Ids, hash \in Hashes :
        \/ \E wallet \in Addresses : RegisterBusiness(signer, id, wallet, hash)
        \/ UpdateMetadata(signer, id, hash)
        \/ DeactivateBusiness(signer, id)
    /\ UNCHANGED <<rows, stored, load, keys, req, trimmed>>

ClientStep(c) ==
    \/ DialogStep(c)
    \/ \E user \in Users, id \in Ids :
        \/ Begin(c, user, id)
        \/ \E hash \in Hashes : BeginMetadata(c, user, id, hash)
    \/ Refuse(c) \/ Find(c) \/ Sign(c) \/ Apply(c) \/ Confirm(c) \/ Fails(c)
    \/ SaveDeactivated(c) \/ SaveMetadata(c)
    \/ ReadHit(c) \/ ReadMiss(c) \/ Sync(c) \/ Verify(c)

RecordNext ==
    \/ \E c \in Clients : ClientStep(c)
    \/ \E id \in Ids : Evaluate(id) \/ Answer(id) \/ LoadFails(id) \/ Expire(id)
    \/ \E user \in Users, id \in Ids, wallet \in Addresses, hash \in Hashes :
           RegisterRow(user, id, wallet, hash)
    \/ CallContract

RecordSpec == RecordInit /\ [][RecordNext]_recordVars

-----------------------------------------------------------------------------
(* A business that the database calls inactive is inactive on the chain:   *)
(* whatever fails between the two writes of a deactivation, and however    *)
(* old the record is that a sync writes, a row is never ahead of the       *)
(* contract.                                                               *)
InactiveOnChain ==
    \A r \in rows : ~r.active => Exists(r.id) /\ ~business[r.id].active

(* The idempotency keys keep one submission of an update under way at a    *)
(* time, unless a clean-up forgot the key of a request that was running.   *)
OneSubmission ==
    \A c, d \in Clients :
        /\ c # d
        /\ req[c].op = "metadata" /\ req[d].op = "metadata"
        /\ KeyOf(c) = KeyOf(d)
        => KeyOf(c) \in trimmed

(* business-deactivation-flow.tsx tells the user: "You will not be able to *)
(* reactivate this business from the UI".                                  *)
StaysInactive ==
    [][\A r \in rows : ~r.active => \A new \in rows' : new.id = r.id => ~new.active]_recordVars
=============================================================================
