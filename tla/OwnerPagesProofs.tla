-------------------------- MODULE OwnerPagesProofs --------------------------
(***************************************************************************)
(* Proofs about the parts of the web application that an owner uses, which *)
(* share no variable: the record of the business, the linked wallet, the   *)
(* wallet of the tab, the activity and the client of the ledger contract.  *)
(* One section each, for any number of users, tabs, businesses, rows and   *)
(* requests, and any bounds; the last one puts them together.              *)
(***************************************************************************)
EXTENDS MCOwnerPages, SequenceTheorems, FiniteSetTheorems, WellFoundedInduction, TLAPS

-----------------------------------------------------------------------------
(* The record of the business. The argument: a business that is inactive   *)
(* on the chain stays so, hence whatever says that it is inactive goes on  *)
(* being right however late it is used: a row, a cached record, an answer  *)
(* under way, or a request that has seen its deactivation confirmed.       *)

Inactive(id) == Exists(id) /\ ~business[id].active

\* A reading that says inactive is right, and still right.
Trails(reading, id) == \A b \in reading : b # None /\ ~b.active => Inactive(id)

\* A request's own knowledge: what it read, and the transaction it saw applied.
RequestTrails(r) ==
    r.step \notin Screens =>
        /\ Trails(r.seen, r.id)
        /\ r.step \in {"read", "wait"} => r.op = "check"
        /\ r.op = "metadata" => r.hash \in Hashes
        /\ r.op = "deactivate" /\ r.step \in {"applied", "save"} => Inactive(r.id)

RequestType == Request \cup {Shows(screen) : screen \in Screens}

RowsInv == rows \subseteq Row /\ InactiveOnChain

CacheInv ==
    /\ stored \in [Ids -> Reading \cup {{None}}]
    /\ load \in [Ids -> [state : {"none", "sent", "answered"}, value : Reading]]
    /\ \A id \in Ids : Trails(stored[id], id) /\ Trails(load[id].value, id)

RequestInv ==
    /\ req \in [Clients -> RequestType]
    /\ \A c \in Clients : RequestTrails(req[c])

RecordInv == TypeOK /\ RowsInv /\ CacheInv /\ RequestInv

\* What the calls of the contract, or none, do to the records.
ChainStep == TypeOK' /\ \A id \in Ids : Inactive(id) => Inactive(id)'

(* DeactivateBusiness leaves its business inactive.                        *)
LEMMA DeactivateKeeps ==
    ASSUME TypeOK, NEW signer \in Addresses, NEW id \in Ids,
           DeactivateBusiness(signer, id)
    PROVE  ChainStep /\ Inactive(id)'
<1> DEFINE new == [business[id] EXCEPT !.active = FALSE]
<1>1. business[id] \in Business
  BY DEF DeactivateBusiness, Active, Exists, TypeOK
<1>2. new \in Business /\ new # None /\ ~new.active
  BY <1>1, NoneAssumption DEF Business
<1>3. business' = [business EXCEPT ![id] = new]
  BY DEF DeactivateBusiness
<1> HIDE DEF new
<1>4. TypeOK'
  BY <1>2, <1>3 DEF DeactivateBusiness, TypeOK
<1>5. Inactive(id)' /\ \A k \in Ids : Inactive(k) => Inactive(k)'
  BY <1>2, <1>3 DEF TypeOK, Inactive, Exists
<1> QED
  BY <1>4, <1>5 DEF ChainStep

(* UpdateMetadata is for an active business.                               *)
LEMMA UpdateKeeps ==
    ASSUME TypeOK, NEW signer \in Addresses, NEW id \in Ids, NEW hash \in Hashes,
           UpdateMetadata(signer, id, hash)
    PROVE  ChainStep
<1> DEFINE new == [business[id] EXCEPT !.metadata_hash = hash]
<1>1. business[id] \in Business
  BY DEF UpdateMetadata, Active, Exists, TypeOK
<1>2. new \in Business
  BY <1>1 DEF Business
<1>3. business' = [business EXCEPT ![id] = new] /\ ~Inactive(id)
  BY DEF UpdateMetadata, Active, Inactive
<1> HIDE DEF new
<1>4. TypeOK'
  BY <1>2, <1>3 DEF UpdateMetadata, TypeOK
<1>5. \A k \in Ids : Inactive(k) => Inactive(k)'
  BY <1>3 DEF TypeOK, Inactive, Exists
<1> QED
  BY <1>4, <1>5 DEF ChainStep

(* RegisterBusiness is for a new id.                                       *)
LEMMA RegisterKeeps ==
    ASSUME TypeOK, NEW signer \in Addresses, NEW id \in Ids,
           NEW wallet \in Addresses, NEW hash \in Hashes,
           RegisterBusiness(signer, id, wallet, hash)
    PROVE  ChainStep
<1>1. TypeOK'
  BY DEF RegisterBusiness, SaveIndexes, TypeOK, Business
<1>2. \A k \in Ids : Inactive(k) => Inactive(k)'
  BY DEF RegisterBusiness, MayRegister, TypeOK, Inactive, Exists
<1> QED
  BY <1>1, <1>2 DEF ChainStep

(* No call of the contract.                                                *)
LEMMA NoCallKeeps ==
    ASSUME TypeOK, UNCHANGED chain
    PROVE  ChainStep
BY DEF chain, vars, Exists, Inactive, TypeOK, ChainStep


(* What says inactive goes on being right.                                 *)
LEMMA TrailsKept ==
    ASSUME ChainStep, NEW reading, NEW id \in Ids, Trails(reading, id)
    PROVE  Trails(reading, id)'
BY DEF ChainStep, Trails

(* The rows, the cache and the requests that a step leaves alone.          *)
LEMMA RowsKept ==
    ASSUME RowsInv, ChainStep, UNCHANGED rows
    PROVE  RowsInv'
<1>1. \A r \in rows : r.id \in Ids /\ (~r.active => Inactive(r.id))
  BY DEF RowsInv, InactiveOnChain, Row, Inactive
<1> QED
  BY <1>1 DEF RowsInv, InactiveOnChain, ChainStep, Inactive

LEMMA CacheKept ==
    ASSUME CacheInv, ChainStep, UNCHANGED <<stored, load>>
    PROVE  CacheInv'
BY DEF CacheInv, ChainStep, Trails

(* One client's request changes.                                           *)
LEMMA OthersTrail ==
    ASSUME RequestInv, ChainStep, NEW c \in Clients,
           req' \in [Clients -> RequestType],
           \A d \in Clients \ {c} : req'[d] = req[d],
           RequestTrails(req[c])'
    PROVE  RequestInv'
<1> SUFFICES ASSUME NEW d \in Clients \ {c}, req[d].step \notin Screens
             PROVE  RequestTrails(req[d])'
  BY DEF RequestInv, RequestTrails
<1>1. req[d].id \in Ids
  BY DEF RequestInv, RequestType, Request, Shows
<1> QED
  BY <1>1 DEF RequestInv, RequestTrails, Trails, ChainStep

LEMMA RequestsKept ==
    ASSUME RequestInv, ChainStep, UNCHANGED req
    PROVE  RequestInv'
<1>1. \A d \in Clients : req[d].step \notin Screens => req[d].id \in Ids
  BY DEF RequestInv, RequestType, Request, Shows
<1> QED
  BY <1>1 DEF RequestInv, RequestTrails, Trails, ChainStep

(* A client shows a screen.                                                *)
LEMMA ScreenShown ==
    ASSUME RequestInv, ChainStep, NEW c \in Clients, NEW screen \in Screens,
           req' = [req EXCEPT ![c] = Shows(screen)]
    PROVE  RequestInv'
<1>1. req' \in [Clients -> RequestType] /\ req'[c] = Shows(screen)
  BY DEF RequestInv, RequestType
<1>2. RequestTrails(req[c])'
  BY <1>1 DEF RequestTrails, Shows
<1> QED
  BY <1>1, <1>2, OthersTrail DEF RequestInv

(* A request ends with a screen.                                           *)
LEMMA RequestFinished ==
    ASSUME RequestInv, ChainStep, NEW c \in Clients, NEW success, Finish(c, success)
    PROVE  RequestInv'
BY ScreenShown DEF Finish, Screens

(* A request is in step; what it knows is in its record.                   *)
LEMMA RequestAt ==
    ASSUME RequestInv, NEW c \in Clients, req[c].step \notin Screens
    PROVE  req[c] \in Request /\ RequestTrails(req[c])
BY DEF RequestInv, RequestType, Shows

(* A request goes on: it must know what its next step relies on.           *)
LEMMA RequestGoes ==
    ASSUME RequestInv, ChainStep, NEW c \in Clients, req[c].step \notin Screens,
           NEW step \in {"sign", "sent", "applied", "read", "wait", "save"}, Go(c, step),
           step \in {"read", "wait"} => req[c].op = "check",
           req[c].op = "deactivate" /\ step \in {"applied", "save"}
               => \A id \in Ids : id = req[c].id => Inactive(id)'
    PROVE  RequestInv'
<1> DEFINE new == [req[c] EXCEPT !.step = step]
<1>1. req[c] \in Request /\ RequestTrails(req[c])
  BY RequestAt
<1>2. /\ new \in Request
      /\ new.step = step /\ new.op = req[c].op /\ new.id = req[c].id
      /\ new.seen = req[c].seen /\ new.hash = req[c].hash
  BY <1>1 DEF Request
<1>3. req' = [req EXCEPT ![c] = new]
  BY DEF Go
<1> HIDE DEF new
<1>4. req' \in [Clients -> RequestType] /\ req'[c] = new
  BY <1>2, <1>3 DEF RequestInv, RequestType
<1>5. Trails(req[c].seen, req[c].id)'
  BY <1>1, <1>2, <1>4 DEF RequestTrails, Trails, ChainStep, Request
<1>6. req[c].op = "metadata" => req[c].hash \in Hashes
  BY <1>1 DEF RequestTrails
<1>7. new.id \in Ids /\ req'[c].id = new.id
  BY <1>2, <1>4 DEF Request
<1>8. req[c].op = "deactivate" /\ step \in {"applied", "save"} => Inactive(req[c].id)'
  BY <1>2, <1>7 DEF Inactive, Exists
<1>9. RequestTrails(req[c])'
  BY <1>2, <1>4, <1>5, <1>6, <1>8 DEF RequestTrails
<1> QED
  BY <1>3, <1>4, <1>9, OthersTrail DEF RequestInv

(* A request begins and knows nothing.                                     *)
LEMMA RequestStarts ==
    ASSUME RequestInv, ChainStep, NEW c \in Clients,
           NEW op \in {"deactivate", "metadata", "check"}, NEW user \in Users,
           NEW id \in Ids, NEW hash \in Hashes \cup {None},
           op = "metadata" => hash \in Hashes, Start(c, op, user, id, hash)
    PROVE  RequestInv'
<1> DEFINE new == [op |-> op, user |-> user, id |-> id,
                   hash |-> hash, seen |-> {}, step |-> "find"]
<1>1. new \in Request
  BY DEF Request, Reading
<1>2. new.op = op /\ new.hash = hash /\ new.seen = {} /\ new.step = "find"
  OBVIOUS
<1>3. req' = [req EXCEPT ![c] = new]
  BY DEF Start
<1> HIDE DEF new
<1>4. req' \in [Clients -> RequestType] /\ req'[c] = new
  BY <1>1, <1>3 DEF RequestInv, RequestType
<1>5. RequestTrails(req[c])'
  BY <1>2, <1>4 DEF RequestTrails, Trails
<1> QED
  BY <1>3, <1>4, <1>5, OthersTrail DEF RequestInv

(* A row is written that says inactive only of what is inactive.           *)
LEMMA RowPut ==
    ASSUME RowsInv, ChainStep, NEW r \in rows, NEW new \in Row, Put(r, new),
           ~new.active => Inactive(new.id)'
    PROVE  RowsInv'
<1>1. \A x \in rows : x.id \in Ids /\ (~x.active => Inactive(x.id))
  BY DEF RowsInv, InactiveOnChain, Row, Inactive
<1>2. \A x \in rows' : x \in Row /\ (~x.active => Inactive(x.id)')
  BY <1>1 DEF RowsInv, Put, ChainStep, Inactive
<1> QED
  BY <1>2 DEF RowsInv, InactiveOnChain, Inactive

-----------------------------------------------------------------------------
(* The steps of a client. *)

(* The routes up to their first await.                                     *)
LEMMA BeginKeeps ==
    ASSUME RecordInv, NEW c \in Clients, NEW user \in Users, NEW id \in Ids,
           Begin(c, user, id) \/ \E hash \in Hashes : BeginMetadata(c, user, id, hash)
    PROVE  RecordInv'
<1>1. ChainStep
  BY NoCallKeeps DEF RecordInv, Begin, BeginMetadata
<1>2. RequestInv'
  BY <1>1, RequestStarts DEF RecordInv, Begin, BeginMetadata
<1>3. RowsInv' /\ CacheInv'
  BY <1>1, RowsKept, CacheKept DEF RecordInv, Begin, BeginMetadata
<1> QED
  BY <1>1, <1>2, <1>3 DEF RecordInv, ChainStep

(* Steps that only move a request or show a screen.                        *)
LEMMA MoveKeeps ==
    ASSUME RecordInv, NEW c \in Clients,
           \/ DialogStep(c) \/ Refuse(c) \/ Fails(c) \/ Verify(c)
           \/ Find(c) \/ Sign(c) \/ ReadHit(c)
    PROVE  RecordInv'
<1>1. UNCHANGED <<chain, rows, stored, load>>
  BY DEF DialogStep, Refuse, Fails, Verify, Find, Sign, ReadHit
<1>2. ChainStep
  BY <1>1, NoCallKeeps DEF RecordInv
<1>3. RowsInv' /\ CacheInv'
  BY <1>1, <1>2, RowsKept, CacheKept DEF RecordInv
<1>4. RequestInv'
  <2>1. CASE DialogStep(c)
    <3>1. PICK move \in {<<"idle", "warning">>, <<"warning", "confirm">>,
                          <<"confirm", "warning">>, <<"warning", "idle">>,
                          <<"complete", "idle">>} :
              req' = [req EXCEPT ![c] = Shows(move[2])]
      BY <2>1 DEF DialogStep
    <3>2. move[2] \in Screens
      BY DEF Screens
    <3> QED
      BY <3>1, <3>2, <1>2, ScreenShown DEF RecordInv
  <2>2. CASE Refuse(c) \/ Fails(c) \/ Verify(c)
    BY <2>2, <1>2, RequestFinished DEF Refuse, Fails, Verify, RecordInv
  <2>3. CASE Find(c)
    BY <2>3, <1>2, RequestGoes DEF Find, At, Screens, RecordInv
  <2>4. CASE Sign(c)
    BY <2>4, <1>2, RequestGoes DEF Sign, At, Screens, RecordInv
  <2>5. CASE ReadHit(c)
    <3> DEFINE new == [req[c] EXCEPT !.seen = stored[req[c].id], !.step = "save"]
    <3>1. req[c].step = "read" /\ req[c].step \notin Screens
      BY <2>5 DEF ReadHit, At, Screens
    <3>2. req[c] \in Request /\ RequestTrails(req[c])
      BY <3>1, RequestAt DEF RecordInv
    <3>3. req[c].id \in Ids /\ req[c].op = "check"
      BY <3>1, <3>2 DEF Request, RequestTrails
    <3>4. stored[req[c].id] \in Reading /\ Trails(stored[req[c].id], req[c].id)
      BY <2>5, <3>3 DEF ReadHit, RecordInv, CacheInv
    <3>5. /\ new \in Request /\ new.op = "check" /\ new.id = req[c].id
          /\ new.seen = stored[req[c].id] /\ new.step = "save"
      BY <3>2, <3>3, <3>4 DEF Request
    <3>6. req' = [req EXCEPT ![c] = new]
      BY <2>5 DEF ReadHit
    <3> HIDE DEF new
    <3>7. req' \in [Clients -> RequestType] /\ req'[c] = new
      BY <3>5, <3>6 DEF RecordInv, RequestInv, RequestType
    <3>8. Trails(req[c].seen, req[c].id)'
      BY <1>2, <3>3, <3>4, <3>5, <3>7 DEF Trails, ChainStep
    <3>9. RequestTrails(req[c])'
      BY <3>5, <3>7, <3>8 DEF RequestTrails
    <3> QED
      BY <1>2, <3>6, <3>7, <3>9, OthersTrail DEF RecordInv, RequestInv
  <2> QED
    BY <2>1, <2>2, <2>3, <2>4, <2>5
<1> QED
  BY <1>2, <1>3, <1>4 DEF RecordInv, ChainStep

(* The transaction is applied to the contract.                             *)
LEMMA ApplyKeeps ==
    ASSUME RecordInv, NEW c \in Clients, Apply(c)
    PROVE  RecordInv'
<1>1. req[c].step = "sent" /\ req[c].step \notin Screens
  BY DEF Apply, At, Screens
<1>2. req[c] \in Request /\ RequestTrails(req[c])
  BY <1>1, RequestAt DEF RecordInv
<1>3. req[c].id \in Ids /\ (req[c].op = "metadata" => req[c].hash \in Hashes)
  BY <1>1, <1>2 DEF Request, RequestTrails
<1>4. PICK id \in Ids : id = req[c].id
  BY <1>3
<1>5. ChainStep /\ (req[c].op = "deactivate" => Inactive(id)')
  <2>1. PICK signer \in Addresses :
            \/ req[c].op = "deactivate" /\ DeactivateBusiness(signer, id)
            \/ req[c].op = "metadata" /\ UpdateMetadata(signer, id, req[c].hash)
    BY <1>4 DEF Apply
  <2>2. CASE req[c].op = "deactivate" /\ DeactivateBusiness(signer, id)
    BY <2>2, DeactivateKeeps DEF RecordInv
  <2>3. CASE req[c].op = "metadata" /\ UpdateMetadata(signer, id, req[c].hash)
    BY <2>3, <1>3, UpdateKeeps DEF RecordInv
  <2> QED
    BY <2>1, <2>2, <2>3
<1>6. RowsInv' /\ CacheInv'
  BY <1>5, RowsKept, CacheKept DEF RecordInv, Apply
<1>7. RequestInv'
  BY <1>1, <1>4, <1>5, RequestGoes DEF RecordInv, Apply
<1> QED
  BY <1>5, <1>6, <1>7 DEF RecordInv, ChainStep

(* The SDK invalidates the cached record.                                  *)
LEMMA ConfirmKeeps ==
    ASSUME RecordInv, NEW c \in Clients, Confirm(c)
    PROVE  RecordInv'
<1>1. ChainStep
  BY NoCallKeeps DEF RecordInv, Confirm
<1>2. req[c].step = "applied" /\ req[c].step \notin Screens
  BY DEF Confirm, At, Screens
<1>3. req[c] \in Request /\ RequestTrails(req[c])
  BY <1>2, RequestAt DEF RecordInv
<1>4. PICK id \in Ids : id = req[c].id
  BY <1>3 DEF Request
<1>5. req[c].op = "deactivate" => Inactive(id)'
  <2>1. req[c].op = "deactivate" => Inactive(id)
    BY <1>2, <1>3, <1>4 DEF RequestTrails
  <2> QED
    BY <1>1, <2>1 DEF ChainStep
<1>6. RequestInv'
  BY <1>1, <1>2, <1>4, <1>5, RequestGoes DEF RecordInv, Confirm
<1>7. CacheInv'
  BY <1>1, <1>4, NoneAssumption DEF Confirm, RecordInv, CacheInv, Trails, ChainStep
<1>8. RowsInv'
  BY <1>1, RowsKept DEF RecordInv, Confirm
<1> QED
  BY <1>1, <1>6, <1>7, <1>8 DEF RecordInv, ChainStep

(* A read of the record misses the cache.                                  *)
LEMMA ReadMissKeeps ==
    ASSUME RecordInv, NEW c \in Clients, ReadMiss(c)
    PROVE  RecordInv'
<1>1. ChainStep
  BY NoCallKeeps DEF RecordInv, ReadMiss
<1>2. req[c].step = "read" /\ req[c].step \notin Screens
  BY DEF ReadMiss, At, Screens
<1>3. req[c] \in Request /\ RequestTrails(req[c])
  BY <1>2, RequestAt DEF RecordInv
<1>4. req[c].id \in Ids /\ req[c].op = "check"
  BY <1>2, <1>3 DEF Request, RequestTrails
<1>5. RequestInv'
  BY <1>1, <1>2, <1>4, RequestGoes DEF RecordInv, ReadMiss
<1>6. CacheInv'
  <2> DEFINE new == [load[req[c].id] EXCEPT !.state = IF @ = "none" THEN "sent" ELSE @]
  <2>1. load' = [load EXCEPT ![req[c].id] = new]
    BY DEF ReadMiss
  <2>2. /\ new \in [state : {"none", "sent", "answered"}, value : Reading]
        /\ new.value = load[req[c].id].value
    BY <1>4 DEF RecordInv, CacheInv
  <2> HIDE DEF new
  <2>3. /\ load' \in [Ids -> [state : {"none", "sent", "answered"}, value : Reading]]
        /\ \A id \in Ids : load'[id].value = load[id].value
    BY <1>4, <2>1, <2>2 DEF RecordInv, CacheInv
  <2> QED
    BY <1>1, <2>3 DEF ReadMiss, RecordInv, CacheInv, Trails, ChainStep
<1>7. RowsInv'
  BY <1>1, RowsKept DEF RecordInv, ReadMiss
<1> QED
  BY <1>1, <1>5, <1>6, <1>7 DEF RecordInv, ChainStep

\* The row is written: after a confirmed deactivation, a confirmed update, or
(* from the record that was read.                                          *)
LEMMA SaveKeeps ==
    ASSUME RecordInv, NEW c \in Clients,
           SaveDeactivated(c) \/ SaveMetadata(c) \/ Sync(c)
    PROVE  RecordInv'
<1>1. ChainStep
  BY NoCallKeeps DEF RecordInv, SaveDeactivated, SaveMetadata, Sync
<1>2. req[c].step = "save" /\ req[c].step \notin Screens
  BY DEF SaveDeactivated, SaveMetadata, Sync, At, Screens
<1>3. req[c] \in Request /\ RequestTrails(req[c])
  BY <1>2, RequestAt DEF RecordInv
<1>4. PICK id \in Ids : id = req[c].id
  BY <1>3 DEF Request
<1>5. RowsInv'
  <2>1. CASE SaveDeactivated(c)
    <3>1. PICK r \in RowsOf(id) : Put(r, [r EXCEPT !.active = FALSE])
      BY <2>1, <1>4 DEF SaveDeactivated
    <3>2. r \in rows /\ r \in Row /\ r.id = id
      BY DEF RowsOf, RecordInv, RowsInv
    <3>3. Inactive(id)
      BY <2>1, <1>2, <1>3, <1>4 DEF SaveDeactivated, RequestTrails
    <3>4. Inactive(id)'
      BY <1>1, <3>3 DEF ChainStep
    <3>5. PICK new \in Row : new = [r EXCEPT !.active = FALSE]
      BY <3>2 DEF Row
    <3>6. new.id = id
      BY <3>2, <3>5 DEF Row
    <3> QED
      BY <1>1, <3>1, <3>2, <3>4, <3>5, <3>6, RowPut DEF RecordInv
  <2>2. CASE SaveMetadata(c)
    <3>1. PICK r \in RowsOf(id) : Put(r, [r EXCEPT !.metadata_hash = req[c].hash])
      BY <2>2, <1>4 DEF SaveMetadata
    <3>2. r \in rows /\ r \in Row /\ r.id = id
      BY DEF RowsOf, RecordInv, RowsInv
    <3>3. req[c].hash \in Hashes
      BY <2>2, <1>2, <1>3 DEF SaveMetadata, RequestTrails
    <3>4. PICK new \in Row : new = [r EXCEPT !.metadata_hash = req[c].hash]
      BY <3>2, <3>3 DEF Row
    <3>5. new.id = id /\ new.active = r.active
      BY <3>2, <3>4 DEF Row
    <3>6. ~r.active => Inactive(id)
      BY <3>2 DEF RecordInv, RowsInv, InactiveOnChain, Inactive
    <3>7. ~new.active => Inactive(id)'
      BY <1>1, <3>5, <3>6 DEF ChainStep
    <3> QED
      BY <1>1, <3>1, <3>2, <3>4, <3>5, <3>7, RowPut DEF RecordInv
  <2>3. CASE Sync(c)
    <3>1. PICK b \in req[c].seen, r \in RowsOf(id) :
              Put(r, [r EXCEPT !.wallet = b.wallet, !.active = b.active,
                               !.metadata_hash = b.metadata_hash])
      BY <2>3, <1>4 DEF Sync
    <3>2. r \in rows /\ r \in Row /\ r.id = id
      BY DEF RowsOf, RecordInv, RowsInv
    <3>3. b \in Business /\ b # None
      BY <1>3, NoneAssumption DEF Request, Reading
    <3>4. ~b.active => Inactive(id)
      BY <1>2, <1>3, <1>4, <3>1, <3>3 DEF RequestTrails, Trails
    <3>5. PICK new \in Row :
              new = [r EXCEPT !.wallet = b.wallet, !.active = b.active,
                              !.metadata_hash = b.metadata_hash]
      BY <3>2, <3>3 DEF Row, Business
    <3>6. new.id = id /\ new.active = b.active
      BY <3>2, <3>5 DEF Row
    <3>7. ~new.active => Inactive(id)'
      BY <1>1, <3>4, <3>6 DEF ChainStep
    <3> QED
      BY <1>1, <3>1, <3>2, <3>5, <3>6, <3>7, RowPut DEF RecordInv
  <2> QED
    BY <2>1, <2>2, <2>3
<1>6. CacheInv'
  BY <1>1, CacheKept DEF RecordInv, SaveDeactivated, SaveMetadata, Sync
<1>7. RequestInv'
  BY <1>1, RequestFinished DEF RecordInv, SaveDeactivated, SaveMetadata, Sync
<1> QED
  BY <1>1, <1>5, <1>6, <1>7 DEF RecordInv, ChainStep

-----------------------------------------------------------------------------
(* The steps of the cache, the register route and the other callers. *)

(* The chain answers a request for a record, or an entry expires.          *)
LEMMA CacheStepKeeps ==
    ASSUME RecordInv, NEW id \in Ids, Evaluate(id) \/ Expire(id)
    PROVE  RecordInv'
<1>1. ChainStep
  BY NoCallKeeps DEF RecordInv, Evaluate, Expire
<1>2. CacheInv'
  <2>1. CASE Evaluate(id)
    <3> DEFINE new == [state |-> "answered",
                       value |-> IF Exists(id) THEN {business[id]} ELSE {}]
    <3>1. new.value \in Reading
      BY DEF RecordInv, TypeOK, Exists, Reading
    <3>2. /\ new \in [state : {"none", "sent", "answered"}, value : Reading]
          /\ Trails(new.value, id)
      BY <3>1 DEF Trails, Inactive, Exists
    <3>3. load' = [load EXCEPT ![id] = new]
      BY <2>1 DEF Evaluate
    <3> HIDE DEF new
    <3>4. /\ load' \in [Ids -> [state : {"none", "sent", "answered"}, value : Reading]]
          /\ \A k \in Ids : Trails(load'[k].value, k)
      BY <3>2, <3>3 DEF RecordInv, CacheInv
    <3> QED
      BY <1>1, <2>1, <3>4 DEF Evaluate, RecordInv, CacheInv, Trails, ChainStep
  <2>2. CASE Expire(id)
    BY <1>1, <2>2, NoneAssumption DEF Expire, RecordInv, CacheInv, Trails, ChainStep
  <2> QED
    BY <2>1, <2>2
<1>3. RowsInv'
  BY <1>1, RowsKept DEF RecordInv, Evaluate, Expire
<1>4. RequestInv'
  BY <1>1, RequestsKept DEF RecordInv, Evaluate, Expire
<1> QED
  BY <1>1, <1>2, <1>3, <1>4 DEF RecordInv, ChainStep

(* A request for a record ends, and with it the reads that wait for it.    *)
LEMMA LoadEndKeeps ==
    ASSUME RecordInv, NEW id \in Ids, Answer(id) \/ LoadFails(id)
    PROVE  RecordInv'
<1>1. ChainStep
  BY NoCallKeeps DEF RecordInv, Answer, LoadFails
<1>2. load[id].value \in Reading /\ Trails(load[id].value, id)
  BY DEF RecordInv, CacheInv
<1>3. CacheInv'
  <2>1. /\ NoLoad \in [state : {"none", "sent", "answered"}, value : Reading]
        /\ \A k \in Ids : Trails(NoLoad.value, k)
    BY DEF NoLoad, Reading, Trails
  <2>2. load' = [load EXCEPT ![id] = NoLoad]
    BY DEF Answer, LoadFails
  <2>3. /\ load' \in [Ids -> [state : {"none", "sent", "answered"}, value : Reading]]
        /\ \A k \in Ids : Trails(load'[k].value, k)
    BY <2>1, <2>2 DEF RecordInv, CacheInv
  <2>4. /\ stored' \in [Ids -> Reading \cup {{None}}]
        /\ \A k \in Ids : Trails(stored'[k], k)
    BY <1>2 DEF Answer, LoadFails, RecordInv, CacheInv
  <2> QED
    BY <1>1, <2>3, <2>4 DEF CacheInv, Trails, ChainStep
<1>4. RowsInv'
  BY <1>1, RowsKept DEF RecordInv, Answer, LoadFails
<1>5. RequestInv'
  <2>1. \A c \in Clients : req'[c] \in RequestType /\ RequestTrails(req'[c])
    <3> SUFFICES ASSUME NEW c \in Clients
                 PROVE  req'[c] \in RequestType /\ RequestTrails(req'[c])
      OBVIOUS
    <3>1. CASE req'[c] = req[c]
      BY <3>1 DEF RecordInv, RequestInv
    <3>2. CASE LoadFails(id) /\ req'[c] = Shows("idle")
      BY <3>2 DEF RequestType, RequestTrails, Shows, Screens
    <3>3. CASE Answer(id) /\ Waits(c, id)
      <4>1. req[c].step = "wait" /\ req[c].step \notin Screens /\ req[c].id = id
        BY <3>3 DEF Waits, At, Screens
      <4>2. req[c] \in Request /\ RequestTrails(req[c]) /\ req[c].op = "check"
        BY <4>1, RequestAt DEF RecordInv, RequestTrails
      <4>3. req'[c] = [req[c] EXCEPT !.seen = load[id].value, !.step = "save"]
        BY <3>3 DEF Answer
      <4>4. /\ req'[c] \in Request
            /\ req'[c].op = "check" /\ req'[c].id = id
            /\ req'[c].seen = load[id].value /\ req'[c].step = "save"
        BY <1>2, <4>1, <4>2, <4>3 DEF Request
      <4> QED
        BY <1>2, <4>4 DEF RequestType, RequestTrails
    <3> QED
      BY <3>1, <3>2, <3>3 DEF Answer, LoadFails
  <2>2. req' \in [Clients -> RequestType]
    BY <2>1 DEF Answer, LoadFails
  <2>3. \A c \in Clients : req'[c].step \notin Screens => req'[c].id \in Ids
    BY <2>1 DEF RequestType, Request, Shows
  <2> QED
    BY <1>1, <2>1, <2>2, <2>3 DEF RequestInv, RequestTrails, Trails, ChainStep
<1> QED
  BY <1>1, <1>3, <1>4, <1>5 DEF RecordInv, ChainStep

(* A new row is active.                                                    *)
LEMMA RegisterRowKeeps ==
    ASSUME RecordInv, NEW user \in Users, NEW id \in Ids, NEW wallet \in Addresses,
           NEW hash \in Hashes, RegisterRow(user, id, wallet, hash)
    PROVE  RecordInv'
<1>1. ChainStep
  BY NoCallKeeps DEF RecordInv, RegisterRow
<1>2. CacheInv' /\ RequestInv'
  BY <1>1, CacheKept, RequestsKept DEF RecordInv, RegisterRow
<1>3. RowsInv'
  <2>1. PICK new \in Row : new = [user |-> user, id |-> id, wallet |-> wallet,
                                  metadata_hash |-> hash, active |-> TRUE]
    BY DEF Row
  <2>2. rows' = rows \cup {new} /\ new.active
    BY <2>1 DEF RegisterRow
  <2>3. \A r \in rows : r \in Row /\ r.id \in Ids /\ (~r.active => Inactive(r.id))
    BY DEF RecordInv, RowsInv, InactiveOnChain, Row, Inactive
  <2> QED
    BY <1>1, <2>2, <2>3 DEF RowsInv, InactiveOnChain, Inactive, ChainStep
<1> QED
  BY <1>1, <1>2, <1>3 DEF RecordInv, ChainStep

(* The contract is called by others.                                       *)
LEMMA CallContractKeeps ==
    ASSUME RecordInv, CallContract
    PROVE  RecordInv'
<1>1. ChainStep
  BY RegisterKeeps, UpdateKeeps, DeactivateKeeps DEF RecordInv, CallContract
<1>2. RowsInv' /\ CacheInv' /\ RequestInv'
  BY <1>1, RowsKept, CacheKept, RequestsKept DEF RecordInv, CallContract
<1> QED
  BY <1>1, <1>2 DEF RecordInv, ChainStep

-----------------------------------------------------------------------------

(* The initial states.                                                     *)
LEMMA RecordInit_Inv == RecordInit => RecordInv
<1> SUFFICES ASSUME RecordInit PROVE RecordInv
  OBVIOUS
<1>1. TypeOK
  BY DEF RecordInit, Init, TypeOK
<1>2. RowsInv
  BY DEF RecordInit, RowsInv, InactiveOnChain
<1>3. CacheInv
  BY NoneAssumption DEF RecordInit, CacheInv, NoLoad, Reading, Trails
<1>4. RequestInv
  BY DEF RecordInit, RequestInv, RequestType, RequestTrails, Shows, Screens
<1> QED
  BY <1>1, <1>2, <1>3, <1>4 DEF RecordInv

(* Every step.                                                             *)
LEMMA RecordNext_Inv == RecordInv /\ [RecordNext]_recordVars => RecordInv'
<1> SUFFICES ASSUME RecordInv, [RecordNext]_recordVars PROVE RecordInv'
  OBVIOUS
<1>1. ASSUME NEW c \in Clients, ClientStep(c) PROVE RecordInv'
  BY <1>1, BeginKeeps, MoveKeeps, ApplyKeeps, ConfirmKeeps, ReadMissKeeps, SaveKeeps
     DEF ClientStep
<1>2. ASSUME NEW id \in Ids, Evaluate(id) \/ Answer(id) \/ LoadFails(id) \/ Expire(id)
      PROVE  RecordInv'
  BY <1>2, CacheStepKeeps, LoadEndKeeps
<1>3. ASSUME NEW user \in Users, NEW id \in Ids, NEW wallet \in Addresses,
             NEW hash \in Hashes, RegisterRow(user, id, wallet, hash)
      PROVE  RecordInv'
  BY <1>3, RegisterRowKeeps
<1>4. CASE CallContract
  BY <1>4, CallContractKeeps
<1>5. CASE UNCHANGED recordVars
  <2>1. UNCHANGED <<chain, rows, stored, load, req>>
    BY <1>5 DEF recordVars
  <2>2. ChainStep
    BY <2>1, NoCallKeeps DEF RecordInv
  <2> QED
    BY <2>1, <2>2, RowsKept, CacheKept, RequestsKept DEF RecordInv, ChainStep
<1> QED
  BY <1>1, <1>2, <1>3, <1>4, <1>5 DEF RecordNext

(* No route ever puts a row ahead of the contract: not the deactivation    *)
(* route whatever fails between its two writes, not the sync that writes    *)
(* an old cached record, for any number of users, tabs and businesses.     *)
THEOREM RowsNeverAhead == RecordSpec => []InactiveOnChain
<1>1. RecordInv => InactiveOnChain
  BY DEF RecordInv, RowsInv
<1> QED
  BY RecordInit_Inv, RecordNext_Inv, <1>1, PTL DEF RecordSpec

-----------------------------------------------------------------------------
(***************************************************************************)
(* The idempotency keys.  While a metadata request runs, its key is in the *)
(* map and in progress, unless a clean-up removed it; so the key stops     *)
(* every other request for the same update.                                *)

KeyRecord == [key : Key, status : {"in_progress", "completed", "failed"}]

HasKey(seq, k) == \E i \in DOMAIN seq : seq[i] = [key |-> k, status |-> "in_progress"]

KeysInv ==
    /\ keys \in Seq(KeyRecord)
    /\ trimmed \subseteq Key
    /\ \A c \in Clients : req[c].op = "metadata" /\ KeyOf(c) \notin trimmed
                              => HasKey(keys, KeyOf(c))
    /\ OneSubmission

(* A request for metadata has a key.                                       *)
LEMMA KeyOfRequest ==
    ASSUME RequestInv, NEW c \in Clients, req[c].op = "metadata",
           req[c].step \notin Screens
    PROVE  KeyOf(c) \in Key
BY RequestAt DEF RequestTrails, Request, KeyOf, Key

(* No step but BeginMetadata begins an update: others keep the map's       *)
(* bargain where they leave keys and updates alone.                        *)
LEMMA KeysKept ==
    ASSUME KeysInv, UNCHANGED <<keys, trimmed>>,
           \A d \in Clients : req'[d].op = "metadata" =>
               /\ req[d].op = "metadata"
               /\ req'[d].id = req[d].id /\ req'[d].hash = req[d].hash
    PROVE  KeysInv'
<1> DEFINE Same(d) == /\ req[d].op = "metadata"
                      /\ req'[d].id = req[d].id /\ req'[d].hash = req[d].hash
<1>1. \A d \in Clients : req'[d].op = "metadata" => Same(d) /\ KeyOf(d)' = KeyOf(d)
  BY DEF KeyOf
<1>2. OneSubmission'
  BY <1>1 DEF KeysInv, OneSubmission
<1> QED
  BY <1>1, <1>2 DEF KeysInv, HasKey

(* A request that ends gives up its key; the map must keep the others'.    *)
LEMMA KeysGivenUp ==
    ASSUME KeysInv, NEW c \in Clients, NEW screen, req' = [req EXCEPT ![c] = Shows(screen)],
           req \in [Clients -> RequestType], req[c].op = "metadata",
           keys' \in Seq(KeyRecord), trimmed \subseteq trimmed', trimmed' \subseteq Key,
           \A k \in Key : /\ k # KeyOf(c) /\ HasKey(keys, k)
                          => HasKey(keys', k) \/ k \in trimmed'
    PROVE  KeysInv'
<1>1. \A d \in Clients : req'[d].op = "metadata" =>
          d # c /\ req[d].op = "metadata" /\ req'[d] = req[d]
  BY DEF Shows
<1>2. \A d \in Clients : req'[d].op = "metadata" => KeyOf(d)' = KeyOf(d)
  BY <1>1 DEF KeyOf
<1>3. OneSubmission'
  BY <1>1, <1>2 DEF KeysInv, OneSubmission
<1>4. \A d \in Clients : req[d].op = "metadata" /\ KeyOf(d) \notin trimmed => KeyOf(d) \in Key
  BY DEF KeysInv, HasKey, KeyRecord
<1>5. ASSUME NEW d \in Clients, req'[d].op = "metadata", KeyOf(d) \notin trimmed'
      PROVE  HasKey(keys', KeyOf(d))
  <2>1. d # c /\ req[d].op = "metadata" /\ KeyOf(d) \notin trimmed
    BY <1>1, <1>5
  <2>2. KeyOf(d) # KeyOf(c)
    BY <2>1 DEF KeysInv, OneSubmission
  <2> QED
    BY <1>4, <1>5, <2>1, <2>2 DEF KeysInv
<1> QED
  BY <1>1, <1>2, <1>3, <1>5 DEF KeysInv, HasKey

-----------------------------------------------------------------------------
(* What the operations of the map do to the other keys. *)

(* Map.set.                                                                *)
LEMMA SetKeyKeeps ==
    ASSUME keys \in Seq(KeyRecord), NEW k \in Key,
           NEW status \in {"in_progress", "completed", "failed"}
    PROVE  /\ SetKey(k, status) \in Seq(KeyRecord)
           /\ \A j : j # k /\ HasKey(keys, j) => HasKey(SetKey(k, status), j)
           /\ status = "in_progress" => HasKey(SetKey(k, status), k)
<1>1. PICK e \in KeyRecord : e = [key |-> k, status |-> status]
  BY DEF KeyRecord
<1>2. PICK seq : seq = SetKey(k, status)
  OBVIOUS
<1>3. CASE Place(k) = {}
  <2>1. seq = Append(keys, e)
    BY <1>1, <1>2, <1>3 DEF SetKey
  <2>2. /\ seq \in Seq(KeyRecord) /\ Len(seq) = Len(keys) + 1 /\ seq[Len(keys) + 1] = e
        /\ \A i \in 1..Len(keys) : seq[i] = keys[i]
    BY <1>1, <2>1
  <2>3. \A j : HasKey(keys, j) => HasKey(seq, j)
    BY <2>2 DEF HasKey
  <2>4. status = "in_progress" => HasKey(seq, k)
    BY <1>1, <2>2 DEF HasKey
  <2> QED
    BY <1>2, <2>2, <2>3, <2>4
<1>4. CASE Place(k) # {}
  <2>1. seq = [i \in 1..Len(keys) |-> IF i \in Place(k) THEN e ELSE keys[i]]
    BY <1>1, <1>2, <1>4 DEF SetKey
  <2>2. /\ seq \in Seq(KeyRecord) /\ Len(seq) = Len(keys)
        /\ \A i \in 1..Len(keys) : seq[i] = IF i \in Place(k) THEN e ELSE keys[i]
    BY <1>1, <2>1
  <2>3. ASSUME NEW j, j # k, HasKey(keys, j) PROVE HasKey(seq, j)
    <3>1. PICK i \in 1..Len(keys) : keys[i] = [key |-> j, status |-> "in_progress"]
      BY <2>3 DEF HasKey
    <3>2. i \notin Place(k)
      BY <2>3, <3>1 DEF Place
    <3> QED
      BY <2>2, <3>1, <3>2 DEF HasKey
  <2>4. status = "in_progress" => HasKey(seq, k)
    BY <1>1, <1>4, <2>2 DEF HasKey, Place
  <2> QED
    BY <1>2, <2>2, <2>3, <2>4
<1> QED
  BY <1>3, <1>4

(* Map.delete.                                                             *)
LEMMA DeleteKeyKeeps ==
    ASSUME keys \in Seq(KeyRecord), NEW k \in Key
    PROVE  /\ DeleteKey(k) \in Seq(KeyRecord)
           /\ \A j : j # k /\ HasKey(keys, j) => HasKey(DeleteKey(k), j)
<1>1. CASE Place(k) = {}
  BY <1>1 DEF DeleteKey
<1>2. CASE Place(k) # {}
  <2>1. PICK p \in Place(k) : DeleteKey(k) = RemoveAt(keys, p)
    BY <1>2 DEF DeleteKey
  <2>2. p \in 1..Len(keys) /\ keys[p].key = k /\ Len(keys) \in Nat
    BY DEF Place
  <2>3. PICK head, tail : head = SubSeq(keys, 1, p - 1) /\ tail = SubSeq(keys, p + 1, Len(keys))
    OBVIOUS
  <2>4. /\ head \in Seq(KeyRecord) /\ Len(head) = p - 1
        /\ \A i \in 1..(p - 1) : head[i] = keys[i]
    BY <2>2, <2>3
  <2>5. /\ tail \in Seq(KeyRecord) /\ Len(tail) = Len(keys) - p
        /\ \A i \in 1..(Len(keys) - p) : tail[i] = keys[p + i]
    BY <2>2, <2>3
  <2>6. PICK seq : seq = head \o tail
    OBVIOUS
  <2>7. /\ seq \in Seq(KeyRecord) /\ Len(seq) = Len(keys) - 1
        /\ \A i \in 1..(p - 1) : seq[i] = keys[i]
        /\ \A i \in p..(Len(keys) - 1) : seq[i] = keys[i + 1]
    <3>1. /\ seq \in Seq(KeyRecord) /\ Len(seq) = Len(head) + Len(tail)
          /\ \A i \in 1..(Len(head) + Len(tail)) :
                 seq[i] = IF i <= Len(head) THEN head[i] ELSE tail[i - Len(head)]
      BY <2>4, <2>5, <2>6, ConcatProperties
    <3>2. ASSUME NEW i \in p..(Len(keys) - 1) PROVE seq[i] = keys[i + 1]
      <4>1. /\ i \in 1..(Len(head) + Len(tail)) /\ ~(i <= Len(head))
            /\ i - Len(head) \in 1..(Len(keys) - p) /\ p + (i - Len(head)) = i + 1
        BY <2>2, <2>4, <2>5
      <4> QED
        BY <2>5, <3>1, <4>1
    <3>3. ASSUME NEW i \in 1..(p - 1) PROVE seq[i] = keys[i]
      <4>1. i \in 1..(Len(head) + Len(tail)) /\ i <= Len(head)
        BY <2>2, <2>4, <2>5
      <4> QED
        BY <2>4, <3>1, <4>1
    <3> QED
      BY <2>2, <2>4, <2>5, <3>1, <3>2, <3>3
  <2>8. ASSUME NEW j, j # k, HasKey(keys, j) PROVE HasKey(seq, j)
    <3>1. PICK i \in 1..Len(keys) : keys[i] = [key |-> j, status |-> "in_progress"]
      BY <2>8 DEF HasKey
    <3>2. i # p
      BY <2>2, <2>8, <3>1
    <3>3. CASE i < p
      BY <2>2, <2>7, <3>1, <3>3 DEF HasKey
    <3>4. CASE i > p
      <4>1. i - 1 \in p..(Len(keys) - 1) /\ (i - 1) + 1 = i /\ i - 1 \in 1..Len(seq)
        BY <2>2, <2>7, <3>1, <3>4
      <4> QED
        BY <2>7, <3>1, <4>1 DEF HasKey
    <3> QED
      BY <2>2, <3>1, <3>2, <3>3, <3>4
  <2> QED
    BY <2>1, <2>3, <2>6, <2>7, <2>8 DEF RemoveAt
<1> QED
  BY <1>1, <1>2

(* A clean-up records the keys in progress that it removes.                *)
LEMMA TrimKeeps ==
    ASSUME NEW seq \in Seq(KeyRecord)
    PROVE  /\ Trim(seq) \in Seq(KeyRecord)
           /\ \A k : HasKey(seq, k) =>
                 \/ HasKey(Trim(seq), k)
                 \/ \E e \in ToSet(seq) \ ToSet(Trim(seq)) :
                        e.status = "in_progress" /\ e.key = k
<1>1. Trim(seq) \in Seq(KeyRecord)
  <2>1. CASE Len(seq) > KeyLimit
    <3>1. PICK m \in Nat : m = KeyDrop + 1
      BY KeyAssumption
    <3>2. \A i \in m..Len(seq) : seq[i] \in KeyRecord
      BY <3>1, KeyAssumption
    <3> QED
      BY <2>1, <3>1, <3>2, SubSeqProperties DEF Trim
  <2> QED
    BY <2>1 DEF Trim
<1>2. ASSUME NEW k, HasKey(seq, k), ~HasKey(Trim(seq), k)
      PROVE  \E e \in ToSet(seq) \ ToSet(Trim(seq)) : e.status = "in_progress" /\ e.key = k
  <2>1. PICK e : e = [key |-> k, status |-> "in_progress"]
    OBVIOUS
  <2>2. e \in ToSet(seq) /\ e \notin ToSet(Trim(seq))
    BY <1>2, <2>1 DEF HasKey, ToSet
  <2> QED
    BY <2>1, <2>2
<1> QED
  BY <1>1, <1>2

-----------------------------------------------------------------------------

\* A request's next state, and with a reading.
Stepped(r, step) == [r EXCEPT !.step = step]

Answered(r, seen, step) == [r EXCEPT !.seen = seen, !.step = step]

(* An update that moves on stays the same update.                          *)
LEMMA UpdateMoves ==
    ASSUME NEW r \in RequestType, NEW new, NEW seen, NEW step, new.op = "metadata",
           new = Stepped(r, step) \/ new = Answered(r, seen, step)
    PROVE  r.op = "metadata" /\ new.id = r.id /\ new.hash = r.hash
<1>1. CASE r \in Request
  BY <1>1 DEF Request, Stepped, Answered
<1>2. CASE r \notin Request
  <2>1. PICK screen \in Screens : r = [op |-> "none", step |-> screen]
    BY <1>2 DEF RequestType, Shows
  <2>2. new.op = "none"
    BY <2>1 DEF Stepped, Answered
  <2> QED
    BY <2>2
<1> QED
  BY <1>1, <1>2

(* The steps that leave the keys alone.                                    *)
LEMMA OtherStepsKeepKeys ==
    ASSUME RecordInv, KeysInv, NEW c \in Clients,
           \/ DialogStep(c) \/ Find(c) \/ Sign(c) \/ Apply(c) \/ Confirm(c)
           \/ SaveDeactivated(c) \/ ReadHit(c) \/ ReadMiss(c) \/ Sync(c) \/ Verify(c)
           \/ \E user \in Users, id \in Ids : Begin(c, user, id)
    PROVE  KeysInv'
<1>1. UNCHANGED <<keys, trimmed>>
  BY DEF DialogStep, Find, Sign, Apply, Confirm, SaveDeactivated, ReadHit, ReadMiss,
         Sync, Verify, Begin
<1>2. req \in [Clients -> RequestType]
  BY DEF RecordInv, RequestInv
<1>3. \A d \in Clients : req'[d].op = "metadata" =>
          /\ req[d].op = "metadata"
          /\ req'[d].id = req[d].id /\ req'[d].hash = req[d].hash
  <2>1. CASE Find(c) \/ Sign(c) \/ Apply(c) \/ Confirm(c) \/ ReadMiss(c)
    <3>1. PICK step : req' = [req EXCEPT ![c].step = step]
      BY <2>1 DEF Find, Sign, Apply, Confirm, ReadMiss, Go
    <3>2. ASSUME NEW d \in Clients
          PROVE  req'[d] = req[d] \/ req'[d] = Stepped(req[d], step)
      BY <1>2, <3>1 DEF Stepped
    <3> SUFFICES ASSUME NEW d \in Clients, req'[d].op = "metadata"
                 PROVE  /\ req[d].op = "metadata"
                        /\ req'[d].id = req[d].id /\ req'[d].hash = req[d].hash
      OBVIOUS
    <3>4. PICK old, new : old \in RequestType /\ old = req[d] /\ new = req'[d]
      BY <1>2
    <3>5. \/ new = old
          \/ old.op = "metadata" /\ new.id = old.id /\ new.hash = old.hash
      BY <3>2, <3>4, UpdateMoves
    <3> QED
      BY <3>4, <3>5
  <2>2. CASE ReadHit(c)
    <3>1. PICK seen : req' = [req EXCEPT ![c].seen = seen, ![c].step = "save"]
      BY <2>2 DEF ReadHit
    <3>2. ASSUME NEW d \in Clients
          PROVE  req'[d] = req[d] \/ req'[d] = Answered(req[d], seen, "save")
      BY <1>2, <3>1 DEF Answered
    <3> SUFFICES ASSUME NEW d \in Clients, req'[d].op = "metadata"
                 PROVE  /\ req[d].op = "metadata"
                        /\ req'[d].id = req[d].id /\ req'[d].hash = req[d].hash
      OBVIOUS
    <3>4. PICK old, new : old \in RequestType /\ old = req[d] /\ new = req'[d]
      BY <1>2
    <3>5. \/ new = old
          \/ old.op = "metadata" /\ new.id = old.id /\ new.hash = old.hash
      BY <3>2, <3>4, UpdateMoves
    <3> QED
      BY <3>4, <3>5
  <2>3. CASE \/ DialogStep(c) \/ SaveDeactivated(c) \/ Sync(c) \/ Verify(c)
    <3>1. PICK screen : req' = [req EXCEPT ![c] = Shows(screen)]
      BY <2>3 DEF DialogStep, SaveDeactivated, Sync, Verify, Finish
    <3> QED
      BY <1>2, <3>1 DEF Shows
  <2>4. CASE \E user \in Users, id \in Ids : Begin(c, user, id)
    BY <1>2, <2>4 DEF Begin, Start
  <2> QED
    BY <2>1, <2>2, <2>3, <2>4
<1> QED
  BY <1>1, <1>3, KeysKept

(* An update begins only where its key is in no other request's hands.     *)
LEMMA BeginKeepsKeys ==
    ASSUME RecordInv, KeysInv, NEW c \in Clients, NEW user \in Users, NEW id \in Ids,
           NEW hash \in Hashes, BeginMetadata(c, user, id, hash)
    PROVE  KeysInv'
<1>1. PICK k \in Key : k = <<id, hash>>
  BY DEF Key
<1>2. /\ req' = [req EXCEPT ![c] = [op |-> "metadata", user |-> user, id |-> id,
                     hash |-> hash, seen |-> {}, step |-> "find"]]
      /\ keys' = SetKey(k, "in_progress") /\ trimmed' = trimmed /\ Place(k) = {}
  BY <1>1 DEF BeginMetadata, Start
<1>3. req \in [Clients -> RequestType]
  BY DEF RecordInv, RequestInv
<1>4. KeyOf(c)' = k /\ \A d \in Clients \ {c} : req'[d] = req[d] /\ KeyOf(d)' = KeyOf(d)
  BY <1>1, <1>2, <1>3 DEF KeyOf
<1>5. ~HasKey(keys, k)
  BY <1>2 DEF HasKey, Place
<1>6. \A d \in Clients : req[d].op = "metadata" /\ KeyOf(d) = k => k \in trimmed
  BY <1>5 DEF KeysInv
<1>7. OneSubmission'
  BY <1>2, <1>4, <1>6 DEF KeysInv, OneSubmission
<1>8. /\ keys' \in Seq(KeyRecord) /\ HasKey(keys', k)
      /\ \A j : j # k /\ HasKey(keys, j) => HasKey(keys', j)
  BY <1>2, SetKeyKeeps DEF KeysInv
<1>9. ASSUME NEW d \in Clients, req'[d].op = "metadata", KeyOf(d)' \notin trimmed'
      PROVE  HasKey(keys', KeyOf(d)')
  <2>1. CASE d = c
    BY <1>4, <1>8, <2>1
  <2>2. CASE d # c /\ KeyOf(d) # k
    BY <1>2, <1>4, <1>8, <1>9, <2>2 DEF KeysInv
  <2>3. CASE d # c /\ KeyOf(d) = k
    BY <1>2, <1>4, <1>6, <1>9, <2>3
  <2> QED
    BY <2>1, <2>2, <2>3
<1> QED
  BY <1>2, <1>7, <1>8, <1>9 DEF KeysInv, HasKey

(* A request is refused or fails: its key is deleted or marked.            *)
LEMMA EndKeepsKeys ==
    ASSUME RecordInv, KeysInv, NEW c \in Clients, Refuse(c) \/ Fails(c)
    PROVE  KeysInv'
<1>1. PICK screen : req' = [req EXCEPT ![c] = Shows(screen)] /\ trimmed' = trimmed
  BY DEF Refuse, Fails, Finish
<1>2. req \in [Clients -> RequestType] /\ req[c].step \notin Screens
  BY DEF Refuse, Fails, At, Screens, RecordInv, RequestInv
<1>3. CASE req[c].op # "metadata"
  BY <1>1, <1>2, <1>3, KeysKept DEF Refuse, Fails, Shows
<1>4. CASE req[c].op = "metadata"
  <2>1. PICK k \in Key : k = KeyOf(c)
    BY <1>2, <1>4, KeyOfRequest DEF RecordInv
  <2>2. keys' = DeleteKey(k) \/ keys' = SetKey(k, "failed")
    BY <1>4, <2>1 DEF Refuse, Fails
  <2>3. /\ keys' \in Seq(KeyRecord)
        /\ \A j : j # k /\ HasKey(keys, j) => HasKey(keys', j)
    BY <2>2, SetKeyKeeps, DeleteKeyKeeps DEF KeysInv
  <2> QED
    BY <1>1, <1>2, <1>4, <2>1, <2>3, KeysGivenUp DEF KeysInv
<1> QED
  BY <1>3, <1>4

(* A completed update may clean up, which can remove keys in progress.     *)
LEMMA SaveKeepsKeys ==
    ASSUME RecordInv, KeysInv, NEW c \in Clients, SaveMetadata(c)
    PROVE  KeysInv'
<1>1. PICK screen : req' = [req EXCEPT ![c] = Shows(screen)]
  BY DEF SaveMetadata, Finish
<1>2. req \in [Clients -> RequestType] /\ req[c].step \notin Screens /\ req[c].op = "metadata"
  BY DEF SaveMetadata, At, Screens, RecordInv, RequestInv
<1>3. PICK k \in Key : k = KeyOf(c)
  BY <1>2, KeyOfRequest DEF RecordInv
<1>4. PICK after : after = SetKey(k, "completed")
  OBVIOUS
<1>5. /\ after \in Seq(KeyRecord)
      /\ \A j : j # k /\ HasKey(keys, j) => HasKey(after, j)
  BY <1>4, SetKeyKeeps DEF KeysInv
<1>6. /\ keys' = Trim(after)
      /\ trimmed' = trimmed \cup
             {e.key : e \in {x \in ToSet(after) \ ToSet(Trim(after)) :
                                 x.status = "in_progress"}}
  BY <1>3, <1>4 DEF SaveMetadata
<1>7. /\ keys' \in Seq(KeyRecord)
      /\ \A j : HasKey(after, j) => HasKey(keys', j) \/ j \in trimmed'
  BY <1>5, <1>6, TrimKeeps
<1>8. trimmed \subseteq trimmed' /\ trimmed' \subseteq Key
  <2>1. \A e \in ToSet(after) : e \in KeyRecord /\ e.key \in Key
    <3> SUFFICES ASSUME NEW i \in 1..Len(after)
                 PROVE  after[i] \in KeyRecord /\ after[i].key \in Key
      BY <1>5 DEF ToSet
    <3>1. after[i] \in KeyRecord
      BY <1>5
    <3> QED
      BY <3>1 DEF KeyRecord
  <2> QED
    BY <1>6, <2>1 DEF KeysInv
<1> QED
  BY <1>1, <1>2, <1>3, <1>5, <1>7, <1>8, KeysGivenUp

(* The answers of the cache, the register route and the chain.             *)
LEMMA RestKeepsKeys ==
    ASSUME RecordInv, KeysInv,
           \/ \E id \in Ids : Evaluate(id) \/ Answer(id) \/ LoadFails(id) \/ Expire(id)
           \/ \E user \in Users, id \in Ids, wallet \in Addresses, hash \in Hashes :
                  RegisterRow(user, id, wallet, hash)
           \/ CallContract
           \/ UNCHANGED recordVars
    PROVE  KeysInv'
<1>1. UNCHANGED <<keys, trimmed>>
  BY DEF Evaluate, Answer, LoadFails, Expire, RegisterRow, CallContract, recordVars
<1>2. req \in [Clients -> RequestType]
  BY DEF RecordInv, RequestInv
<1>3. \A d \in Clients : req'[d].op = "metadata" =>
          /\ req[d].op = "metadata"
          /\ req'[d].id = req[d].id /\ req'[d].hash = req[d].hash
  <2>1. CASE UNCHANGED req
    BY <2>1
  <2>2. CASE \E id \in Ids : Answer(id) \/ LoadFails(id)
    <3>1. PICK id \in Ids : Answer(id) \/ LoadFails(id)
      BY <2>2
    <3>2. ASSUME NEW d \in Clients
          PROVE  \/ req'[d] = req[d] \/ req'[d] = Shows("idle")
                 \/ req'[d] = Answered(req[d], load[id].value, "save")
      BY <3>1 DEF Answer, LoadFails, Answered
    <3>3. Shows("idle").op # "metadata"
      BY DEF Shows
    <3> SUFFICES ASSUME NEW d \in Clients, req'[d].op = "metadata"
                 PROVE  /\ req[d].op = "metadata"
                        /\ req'[d].id = req[d].id /\ req'[d].hash = req[d].hash
      OBVIOUS
    <3>4. PICK old, new : old \in RequestType /\ old = req[d] /\ new = req'[d]
      BY <1>2
    <3>5. \/ new = old
          \/ old.op = "metadata" /\ new.id = old.id /\ new.hash = old.hash
      BY <3>3, <3>2, <3>4, UpdateMoves
    <3> QED
      BY <3>4, <3>5
  <2> QED
    BY <2>1, <2>2 DEF Evaluate, Expire, RegisterRow, CallContract, recordVars
<1> QED
  BY <1>1, <1>3, KeysKept

(* Every step.                                                             *)
LEMMA RecordNext_Keys == RecordInv /\ KeysInv /\ [RecordNext]_recordVars => KeysInv'
<1> SUFFICES ASSUME RecordInv, KeysInv, [RecordNext]_recordVars PROVE KeysInv'
  OBVIOUS
<1>1. ASSUME NEW c \in Clients, ClientStep(c) PROVE KeysInv'
  <2>1. CASE \E user \in Users, id \in Ids, hash \in Hashes : BeginMetadata(c, user, id, hash)
    BY <2>1, BeginKeepsKeys
  <2>2. CASE Refuse(c) \/ Fails(c)
    BY <2>2, EndKeepsKeys
  <2>3. CASE SaveMetadata(c)
    BY <2>3, SaveKeepsKeys
  <2> QED
    BY <1>1, <2>1, <2>2, <2>3, OtherStepsKeepKeys DEF ClientStep
<1> QED
  BY <1>1, RestKeepsKeys DEF RecordNext

(* The initial states.                                                     *)
LEMMA RecordInit_Keys == RecordInit => KeysInv
BY DEF RecordInit, KeysInv, OneSubmission, Shows, KeyRecord

(* While an update of a business to a hash runs, no second request runs    *)
(* the same update (PUT metadata's idempotencyKeys), for any number of     *)
(* clients and any limit of the map, unless the clean-up at the limit      *)
(* removed the key of the request that was running.                        *)
THEOREM UpdatesRunOnce == RecordSpec => []OneSubmission
<1>1. KeysInv => OneSubmission
  BY DEF KeysInv
<1> QED
  BY RecordInit_Inv, RecordNext_Inv, RecordInit_Keys, RecordNext_Keys, <1>1, PTL DEF RecordSpec

-----------------------------------------------------------------------------
(* The linked wallet. The argument: until something disturbs a panel, one  *)
(* handler of it runs at most, and the panel shows what the database held  *)
(* when that began.                                                        *)

(* While nothing has disturbed a panel, one handler runs at most, the      *)
(* panel waits for it and shows what it has seen, and the database holds   *)
(* that until the handler's write.                                         *)
PanelOK(b) ==
    b \notin disturbed =>
        /\ b \notin syncs
        /\ \A c, d \in CallsOf(b) : c = d
        /\ \A c \in CallsOf(b) :
               /\ c.own /\ c.shown = panel[b].wallet
               /\ link[b] = IF c.step = "done" THEN c.wallet ELSE panel[b].wallet
        /\ CallsOf(b) = {} => link[b] = panel[b].wallet
        /\ panel[b].busy <=> \E c \in CallsOf(b) : c.wallet # NoWallet

LinkInv == LinkTypeOK /\ \A b \in Businesses : PanelOK(b)

LinkRest ==
    /\ onChain \in [Businesses -> EventStatus]
    /\ eventRow \in [Businesses -> EventStatus \cup {"none"}]
    /\ disputes \in [Businesses -> Seq(DisputeStatus)]
    /\ form \in [Businesses -> {"empty", "list", "lifecycle"} \cup Forms]

(* A step about one business leaves the panels of the others as they are.  *)
LEMMA PanelsRest ==
    ASSUME LinkInv, NEW b \in Businesses, PanelOK(b)',
           \A x \in Businesses : x # b =>
               /\ CallsOf(x)' = CallsOf(x) /\ panel'[x] = panel[x] /\ link'[x] = link[x]
               /\ x \in disturbed' <=> x \in disturbed
               /\ x \in syncs' <=> x \in syncs
    PROVE  \A x \in Businesses : PanelOK(x)'
<1> SUFFICES ASSUME NEW x \in Businesses, x # b PROVE PanelOK(x)'
  OBVIOUS
<1> QED
  BY DEF LinkInv, PanelOK

(* Events and disputes do not reach the panel.                             *)
LEMMA EventsKeep ==
    ASSUME LinkInv, NEW b \in Businesses,
           \/ CallLedger(b) \/ IndexEvent(b) \/ MountList(b) \/ OpenForm(b)
           \/ SubmitDispute(b) \/ CreateDispute(b) \/ SaveFails(b) \/ GetDispute(b)
    PROVE  LinkInv'
<1>1. UNCHANGED walletVars
  BY DEF CallLedger, IndexEvent, MountList, OpenForm, SubmitDispute, CreateDispute,
         SaveFails, GetDispute
<1>2. \A x \in Businesses : PanelOK(x)'
  BY <1>1 DEF LinkInv, PanelOK, CallsOf, walletVars
<1>3. LinkTypeOK => LinkRest
  BY DEF LinkTypeOK, LinkRest
<1>4. onChain' \in [Businesses -> EventStatus]
  BY <1>3 DEF LinkInv, LinkRest, CallLedger, IndexEvent, MountList, OpenForm, SubmitDispute,
     CreateDispute, SaveFails, GetDispute, Move, EventStatus
<1>5. eventRow' \in [Businesses -> EventStatus \cup {"none"}]
  BY <1>3 DEF LinkInv, LinkRest, CallLedger, IndexEvent, MountList, OpenForm, SubmitDispute,
     CreateDispute, SaveFails, GetDispute, EventStatus
<1>6. form' \in [Businesses -> {"empty", "list", "lifecycle"} \cup Forms]
  BY <1>3 DEF LinkInv, LinkRest, CallLedger, IndexEvent, MountList, OpenForm, SubmitDispute,
     CreateDispute, SaveFails, GetDispute, FormGoes, Forms, Listed
<1>7. disputes' \in [Businesses -> Seq(DisputeStatus)]
  <2>1. disputes[b] \in Seq(DisputeStatus)
    BY <1>3 DEF LinkInv, LinkRest
  <2>2. CASE CreateDispute(b)
    <3>1. Append(disputes[b], "Submitted") \in Seq(DisputeStatus)
      BY <2>1 DEF DisputeStatus
    <3> QED
      BY <1>3, <2>2, <3>1 DEF LinkInv, LinkRest, CreateDispute
  <2>3. CASE GetDispute(b)
    <3> DEFINE n == Len(disputes[b])
    <3>1. n \in 1..Len(disputes[b])
      BY <2>1, <2>3, EmptySeq, LenProperties DEF GetDispute
    <3>2. disputes[b][n] \in DisputeStatus
      BY <2>1, <3>1, ElementOfSeq
    <3>3. PICK s : s = deriveDisputeLifecycleStatus(eventRow[b], disputes[b][n])
      OBVIOUS
    <3>4. s \in DisputeStatus
      BY <3>2, <3>3 DEF deriveDisputeLifecycleStatus, DisputeStatus
    <3>5. PICK new : new = [disputes[b] EXCEPT ![n] = s]
      OBVIOUS
    <3>6. new \in Seq(DisputeStatus)
      BY <2>1, <3>1, <3>4, <3>5, ExceptSeq
    <3>7. disputes' = [disputes EXCEPT ![b] = new]
      BY <2>3, <3>3, <3>5 DEF GetDispute
    <3> QED
      BY <1>3, <3>6, <3>7 DEF LinkInv, LinkRest
  <2> QED
    BY <1>3, <2>2, <2>3 DEF LinkInv, LinkRest, CallLedger, IndexEvent, MountList, OpenForm,
       SubmitDispute, SaveFails
<1> QED
  BY <1>1, <1>2, <1>4, <1>5, <1>6, <1>7 DEF LinkInv, LinkTypeOK, walletVars

(* A handler starts.                                                       *)
LEMMA StartKeeps ==
    ASSUME LinkInv, NEW b \in Businesses, NEW wallet \in Wallets \cup {NoWallet},
           StartCall(b, wallet)
    PROVE  LinkInv'
<1>1. PICK step : step = IF wallet = NoWallet THEN "check" ELSE "connect"
  OBVIOUS
<1>2. PICK new : new = [business |-> b, wallet |-> wallet, shown |-> panel[b].wallet,
                        own |-> TRUE, disputed |-> FALSE, step |-> step]
  OBVIOUS
<1>3. panel[b].wallet \in Linked
  BY DEF LinkInv, LinkTypeOK
<1>4. /\ new \in Call /\ new.business = b /\ new.wallet = wallet /\ new.own
      /\ new.shown = panel[b].wallet /\ new.step # "done"
  BY <1>1, <1>2, <1>3 DEF Call
<1>5. calls' = calls \cup {new} /\ UNCHANGED <<eventVars, link, syncs, deleted>>
  BY <1>1, <1>2 DEF StartCall
<1>6. PICK busy \in BOOLEAN : busy = (wallet # NoWallet)
  OBVIOUS
<1>7. PICK p : p = [panel[b] EXCEPT !.busy = busy]
  OBVIOUS
<1>8. /\ panel' = [panel EXCEPT ![b] = p] /\ p \in [busy : BOOLEAN, wallet : Linked]
      /\ p.busy = busy /\ p.wallet = panel[b].wallet
  BY <1>6, <1>7 DEF StartCall, LinkInv, LinkTypeOK
<1>9. LinkTypeOK'
  <2>1. calls' \subseteq Call /\ disturbed' \subseteq Businesses
    BY <1>4, <1>5 DEF StartCall, Disturb, LinkInv, LinkTypeOK
  <2>2. panel' \in [Businesses -> [busy : BOOLEAN, wallet : Linked]]
    BY <1>8 DEF LinkInv, LinkTypeOK
  <2> QED
    BY <1>5, <2>1, <2>2 DEF LinkInv, LinkTypeOK, eventVars
<1>10. PanelOK(b)'
  <2> SUFFICES ASSUME b \notin disturbed' PROVE PanelOK(b)'
    BY DEF PanelOK
  <2>1. b \notin disturbed /\ CallsOf(b) = {}
    BY DEF StartCall, Disturb
  <2>2. CallsOf(b)' = {new}
    BY <1>4, <1>5, <2>1 DEF CallsOf
  <2>3. link[b] = panel[b].wallet /\ b \notin syncs'
    BY <1>5, <2>1 DEF LinkInv, PanelOK
  <2>4. panel'[b] = p
    BY <1>8 DEF LinkInv, LinkTypeOK
  <2> QED
    BY <1>4, <1>5, <1>6, <1>8, <2>2, <2>3, <2>4 DEF PanelOK
<1>11. \A x \in Businesses : x # b =>
           /\ CallsOf(x)' = CallsOf(x) /\ panel'[x] = panel[x] /\ link'[x] = link[x]
           /\ x \in disturbed' <=> x \in disturbed
           /\ x \in syncs' <=> x \in syncs
  BY <1>4, <1>5, <1>8 DEF StartCall, Disturb, CallsOf, LinkInv, LinkTypeOK
<1> QED
  BY <1>9, <1>10, <1>11, PanelsRest DEF LinkInv

(* A handler goes on, or it and its panel end.                             *)
LEMMA CallKeeps ==
    ASSUME LinkInv, NEW c \in calls,
           \/ Proceed(c) \/ CheckDispute(c) \/ WriteLink(c)
           \/ AnswerCall(c) \/ CallFails(c) \/ CallLost(c)
    PROVE  LinkInv'
<1>1. PICK b \in Businesses : b = c.business
  BY DEF LinkInv, LinkTypeOK, Call
<1>2. c \in Call /\ calls \subseteq Call
  BY DEF LinkInv, LinkTypeOK
<1>3. c \in CallsOf(b)
  BY <1>1 DEF CallsOf
<1>4. b \notin disturbed => /\ b \notin syncs
                            /\ CallsOf(b) = {c} /\ c.own /\ c.shown = panel[b].wallet
                            /\ link[b] = IF c.step = "done" THEN c.wallet
                                         ELSE panel[b].wallet
                            /\ panel[b].busy <=> c.wallet # NoWallet
  BY <1>3 DEF LinkInv, PanelOK
<1>5. panel[b] \in [busy : BOOLEAN, wallet : Linked]
  BY DEF LinkInv, LinkTypeOK
<1>6. CASE Proceed(c) \/ CheckDispute(c) \/ WriteLink(c)
  <2>1. PICK new \in Call :
            /\ calls' = (calls \ {c}) \cup {new}
            /\ new.business = b /\ new.wallet = c.wallet /\ new.shown = c.shown
            /\ new.own = c.own /\ c.step # "done"
            /\ \/ new.step # "done" /\ link' = link
               \/ new.step = "done" /\ link' = [link EXCEPT ![b] = c.wallet]
    <3>1. ASSUME NEW step \in {"sign", "check", "done", "refused"}, NEW new,
                 new = [c EXCEPT !.step = step]
          PROVE  /\ new \in Call
                 /\ new.business = b /\ new.wallet = c.wallet /\ new.shown = c.shown
                 /\ new.own = c.own /\ new.step = step
      BY <1>1, <1>2, <3>1 DEF Call
    <3>2. CASE Proceed(c)
      <4>1. PICK step \in {"sign", "check"} : Replace(c, step)
        BY <3>2 DEF Proceed
      <4>2. PICK new : new = [c EXCEPT !.step = step]
        OBVIOUS
      <4> QED
        BY <3>1, <3>2, <4>1, <4>2 DEF Proceed, Replace
    <3>3. CASE WriteLink(c)
      <4>1. PICK step \in {"done", "refused"} :
                /\ Replace(c, step)
                /\ \/ step = "done" /\ link' = [link EXCEPT ![b] = c.wallet]
                   \/ step = "refused" /\ link' = link
        BY <1>1, <3>3 DEF WriteLink
      <4>2. PICK new : new = [c EXCEPT !.step = step]
        OBVIOUS
      <4> QED
        BY <3>1, <3>3, <4>1, <4>2 DEF WriteLink, Replace
    <3>4. CASE CheckDispute(c)
      <4>1. PICK step \in {"refused", "write"}, d \in BOOLEAN :
                /\ step = IF hasActiveDisputes(c.business) THEN "refused" ELSE "write"
                /\ d = (onChain[c.business] = "Disputed")
        OBVIOUS
      <4>2. PICK new : new = [c EXCEPT !.disputed = d, !.step = step]
        OBVIOUS
      <4>3. /\ new \in Call
            /\ new.business = b /\ new.wallet = c.wallet /\ new.shown = c.shown
            /\ new.own = c.own /\ new.step = step
        BY <1>1, <1>2, <4>2 DEF Call
      <4> QED
        BY <3>4, <4>1, <4>2, <4>3 DEF CheckDispute
    <3> QED
      BY <1>6, <3>2, <3>3, <3>4
  <2>2. UNCHANGED <<eventVars, syncs, panel, deleted, disturbed>>
    BY <1>6 DEF Proceed, CheckDispute, WriteLink
  <2>3. c.wallet \in Linked
    BY <1>2 DEF Call, Linked
  <2>4. LinkTypeOK'
    BY <2>1, <2>2, <2>3 DEF LinkInv, LinkTypeOK, eventVars
  <2>5. PanelOK(b)'
    <3> SUFFICES ASSUME b \notin disturbed' PROVE PanelOK(b)'
      BY DEF PanelOK
    <3>1. CallsOf(b)' = {new}
      BY <1>4, <2>1, <2>2 DEF CallsOf
    <3>2. link'[b] = IF new.step = "done" THEN new.wallet ELSE panel[b].wallet
      BY <1>4, <2>1, <2>2 DEF LinkInv, LinkTypeOK
    <3> QED
      BY <1>4, <2>1, <2>2, <3>1, <3>2 DEF PanelOK
  <2>6. \A x \in Businesses : x # b =>
            /\ CallsOf(x)' = CallsOf(x) /\ panel'[x] = panel[x] /\ link'[x] = link[x]
            /\ x \in disturbed' <=> x \in disturbed
            /\ x \in syncs' <=> x \in syncs
    BY <1>1, <2>1, <2>2 DEF CallsOf, LinkInv, LinkTypeOK
  <2> QED
    BY <2>4, <2>5, <2>6, PanelsRest DEF LinkInv
<1>7. CASE AnswerCall(c) \/ CallFails(c) \/ CallLost(c)
  <2>1. PICK success \in BOOLEAN :
            /\ Settle(c, success)
            /\ ~ CallLost(c) => (success <=> c.step = "done")
    <3>1. CASE AnswerCall(c)
      <4>1. PICK success \in BOOLEAN : success = (c.step = "done")
        OBVIOUS
      <4> QED
        BY <3>1, <4>1 DEF AnswerCall
    <3>2. CASE CallFails(c)
      BY <3>2 DEF CallFails
    <3>3. CASE CallLost(c)
      BY <3>3 DEF CallLost
    <3> QED
      BY <1>7, <3>1, <3>2, <3>3
  <2>2. UNCHANGED <<eventVars, link, syncs, deleted>>
    BY <1>7 DEF AnswerCall, CallFails, CallLost
  <2>3. PICK p \in [busy : BOOLEAN, wallet : Linked] :
            /\ panel' = [panel EXCEPT ![b] = p]
            /\ \/ ~ (c.own /\ (success \/ c.wallet # NoWallet)) /\ p = panel[b]
               \/ ~ p.busy /\ p.wallet = IF success THEN c.wallet ELSE c.shown
    <3>1. CASE c.own /\ (success \/ c.wallet # NoWallet)
      <4>1. PICK w : w = IF success THEN c.wallet ELSE c.shown
        OBVIOUS
      <4>2. PICK p : p = [busy |-> FALSE, wallet |-> w]
        OBVIOUS
      <4>3. w \in Linked
        BY <1>2, <4>1 DEF Call, Linked
      <4>4. p \in [busy : BOOLEAN, wallet : Linked] /\ ~ p.busy /\ p.wallet = w
        BY <4>2, <4>3
      <4>5. panel' = [panel EXCEPT ![b] = p]
        BY <1>1, <2>1, <3>1, <4>1, <4>2 DEF Settle, Show
      <4> QED
        BY <4>1, <4>4, <4>5
    <3>2. CASE ~ (c.own /\ (success \/ c.wallet # NoWallet))
      BY <1>5, <2>1, <3>2 DEF Settle, LinkInv, LinkTypeOK
    <3> QED
      BY <3>1, <3>2
  <2>4. /\ calls' \subseteq Call
        /\ \A x \in Businesses : x # b => CallsOf(x)' = CallsOf(x)
        /\ ~ CallLost(c) => calls' = calls \ {c}
    <3>1. CASE CallLost(c)
      <4>1. PICK new : new = [c EXCEPT !.own = FALSE]
        OBVIOUS
      <4>2. new \in Call /\ new.business = b
        BY <1>1, <1>2, <4>1 DEF Call
      <4>3. calls' = (calls \ {c}) \cup {new}
        BY <3>1, <4>1 DEF CallLost
      <4> QED
        BY <1>1, <1>2, <3>1, <4>2, <4>3 DEF CallsOf
    <3>2. CASE ~ CallLost(c)
      <4>1. calls' = calls \ {c}
        BY <1>7, <3>2 DEF AnswerCall, CallFails
      <4> QED
        BY <1>1, <1>2, <4>1 DEF CallsOf
    <3> QED
      BY <3>1, <3>2
  <2>5. /\ disturbed' \subseteq Businesses
        /\ \A x \in Businesses : x # b => (x \in disturbed' <=> x \in disturbed)
        /\ CallLost(c) => b \in disturbed'
        /\ ~ CallLost(c) => disturbed' = disturbed
    BY <1>1, <1>7 DEF AnswerCall, CallFails, CallLost, Disturb, LinkInv, LinkTypeOK
  <2>6. panel' \in [Businesses -> [busy : BOOLEAN, wallet : Linked]]
    BY <2>3 DEF LinkInv, LinkTypeOK
  <2>7. LinkTypeOK'
    BY <2>2, <2>4, <2>5, <2>6 DEF LinkInv, LinkTypeOK, eventVars
  <2>8. PanelOK(b)'
    <3> SUFFICES ASSUME b \notin disturbed' PROVE PanelOK(b)'
      BY DEF PanelOK
    <3>1. b \notin disturbed /\ ~ CallLost(c)
      BY <2>5
    <3>2. CallsOf(b)' = {}
      BY <1>4, <2>4, <3>1 DEF CallsOf
    <3>3. panel'[b] = p
      BY <2>3 DEF LinkInv, LinkTypeOK
    <3>4. ~ p.busy /\ p.wallet = link[b]
      BY <1>4, <2>1, <2>3, <3>1
    <3> QED
      BY <1>4, <1>5, <2>2, <3>1, <3>2, <3>3, <3>4 DEF PanelOK
  <2>9. \A x \in Businesses : x # b => panel'[x] = panel[x] /\ link'[x] = link[x]
    BY <2>2, <2>3 DEF LinkInv, LinkTypeOK
  <2> QED
    BY <2>2, <2>4, <2>5, <2>7, <2>8, <2>9, PanelsRest DEF LinkInv
<1> QED
  BY <1>6, <1>7

(* The panel is mounted again, or the account deleted.                     *)
LEMMA PageKeeps ==
    ASSUME LinkInv, NEW b \in Businesses, Reload(b) \/ DeleteAccount(b)
    PROVE  LinkInv'
<1>1. CASE Reload(b)
  <2>1. PICK p : p = [busy |-> FALSE, wallet |-> link[b]]
    OBVIOUS
  <2>2. /\ p \in [busy : BOOLEAN, wallet : Linked] /\ ~ p.busy /\ p.wallet = link[b]
        /\ panel' = [panel EXCEPT ![b] = p] /\ UNCHANGED <<eventVars, link, syncs, deleted>>
    BY <1>1, <2>1 DEF Reload, Show, LinkInv, LinkTypeOK
  <2>3. PICK left :
            left = {[c EXCEPT !.own = FALSE] : c \in
                        {d \in CallsOf(b) : d.step \notin {"connect", "sign"}}}
    OBVIOUS
  <2>4. left \subseteq Call /\ \A c \in left : c.business = b
    <3>1. ASSUME NEW c \in CallsOf(b), NEW d, d = [c EXCEPT !.own = FALSE]
          PROVE  d \in Call /\ d.business = b
      BY <3>1 DEF CallsOf, LinkInv, LinkTypeOK, Call
    <3> QED
      BY <2>3, <3>1
  <2>5. calls' = (calls \ CallsOf(b)) \cup left /\ (CallsOf(b) = {} => left = {})
    BY <1>1, <2>3 DEF Reload
  <2>6. /\ disturbed' \subseteq Businesses
        /\ \A x \in Businesses : x # b => (x \in disturbed' <=> x \in disturbed)
        /\ b \notin disturbed' => CallsOf(b) = {} /\ b \notin syncs
    BY <1>1 DEF Reload, LinkInv, LinkTypeOK
  <2>7. LinkTypeOK'
    <3>1. panel' \in [Businesses -> [busy : BOOLEAN, wallet : Linked]]
      BY <2>2 DEF LinkInv, LinkTypeOK
    <3>2. calls' \subseteq Call
      BY <2>4, <2>5 DEF LinkInv, LinkTypeOK
    <3> QED
      BY <2>2, <2>6, <3>1, <3>2 DEF LinkInv, LinkTypeOK, eventVars
  <2>8. PanelOK(b)'
    <3> SUFFICES ASSUME b \notin disturbed' PROVE PanelOK(b)'
      BY DEF PanelOK
    <3>1. CallsOf(b)' = {}
      BY <2>5, <2>6 DEF CallsOf
    <3>2. panel'[b] = p
      BY <2>2 DEF LinkInv, LinkTypeOK
    <3> QED
      BY <2>2, <2>6, <3>1, <3>2 DEF PanelOK
  <2>9. \A x \in Businesses : x # b =>
            /\ CallsOf(x)' = CallsOf(x) /\ panel'[x] = panel[x] /\ link'[x] = link[x]
    <3>1. \A x \in Businesses : x # b => CallsOf(x)' = CallsOf(x)
      BY <2>4, <2>5 DEF CallsOf
    <3> QED
      BY <2>2, <3>1 DEF LinkInv, LinkTypeOK
  <2> QED
    BY <2>2, <2>6, <2>7, <2>8, <2>9, PanelsRest DEF LinkInv
<1>2. CASE DeleteAccount(b)
  <2>1. PICK new : new = IF link[b] = NoWallet THEN link[b] ELSE Anonymous
    OBVIOUS
  <2>2. new \in Linked
    BY <2>1 DEF Linked
  <2>3. /\ link' = [link EXCEPT ![b] = new] /\ deleted' = deleted \cup {b}
        /\ disturbed' = disturbed \cup {b} /\ UNCHANGED <<eventVars, calls, syncs, panel>>
    BY <1>2, <2>1 DEF DeleteAccount, deleteUserAccount, Disturb
  <2>4. LinkTypeOK'
    BY <2>2, <2>3 DEF LinkInv, LinkTypeOK, eventVars
  <2>5. PanelOK(b)'
    BY <2>3 DEF PanelOK
  <2>6. \A x \in Businesses : x # b =>
            /\ CallsOf(x)' = CallsOf(x) /\ panel'[x] = panel[x] /\ link'[x] = link[x]
            /\ x \in disturbed' <=> x \in disturbed
            /\ x \in syncs' <=> x \in syncs
    BY <2>3 DEF CallsOf, LinkInv, LinkTypeOK
  <2> QED
    BY <2>4, <2>5, <2>6, PanelsRest DEF LinkInv
<1> QED
  BY <1>1, <1>2

(* The row is synced from the chain: from the start of that the panel is   *)
(* disturbed.                                                              *)
LEMMA SyncKeeps ==
    ASSUME LinkInv, NEW b \in Businesses, StartSync(b) \/ EndSync(b)
    PROVE  LinkInv'
<1>1. /\ b \in disturbed' /\ disturbed' \subseteq Businesses /\ syncs' \subseteq Businesses
      /\ UNCHANGED <<eventVars, calls, panel, deleted>>
  BY DEF StartSync, EndSync, Disturb, LinkInv, LinkTypeOK, PanelOK
<1>2. PICK new \in Linked : link' = [link EXCEPT ![b] = new]
  <2>1. CASE StartSync(b) \/ UNCHANGED link
    BY <2>1 DEF StartSync, LinkInv, LinkTypeOK
  <2>2. CASE \E wallet \in Wallets : link' = [link EXCEPT ![b] = wallet]
    BY <2>2 DEF Linked
  <2> QED
    BY <2>1, <2>2 DEF EndSync
<1>3. LinkTypeOK'
  BY <1>1, <1>2 DEF LinkInv, LinkTypeOK, eventVars
<1>4. PanelOK(b)'
  BY <1>1 DEF PanelOK
<1>5. \A x \in Businesses : x # b =>
          /\ CallsOf(x)' = CallsOf(x) /\ panel'[x] = panel[x] /\ link'[x] = link[x]
          /\ x \in disturbed' <=> x \in disturbed
          /\ x \in syncs' <=> x \in syncs
  BY <1>1, <1>2 DEF StartSync, EndSync, Disturb, CallsOf, LinkInv, LinkTypeOK
<1> QED
  BY <1>3, <1>4, <1>5, PanelsRest DEF LinkInv

(* The first state.                                                        *)
LEMMA LinkStart == LinkInit => LinkInv
<1> SUFFICES ASSUME LinkInit PROVE LinkInv
  OBVIOUS
<1>1. <<>> \in Seq(DisputeStatus)
  BY EmptySeq
<1>2. LinkTypeOK
  BY <1>1 DEF LinkInit, LinkTypeOK, EventStatus, Linked
<1>3. \A b \in Businesses : PanelOK(b)
  BY DEF LinkInit, PanelOK, CallsOf
<1> QED
  BY <1>2, <1>3 DEF LinkInv

(* Every step.                                                             *)
LEMMA LinkStep == LinkInv /\ [LinkNext]_linkVars => LinkInv'
<1> SUFFICES ASSUME LinkInv, [LinkNext]_linkVars PROVE LinkInv'
  OBVIOUS
<1>1. CASE UNCHANGED linkVars
  BY <1>1 DEF linkVars, eventVars, walletVars, LinkInv, LinkTypeOK, PanelOK, CallsOf
<1>2. CASE LinkNext
  BY <1>2, EventsKeep, StartKeeps, CallKeeps, PageKeeps, SyncKeeps DEF LinkNext
<1> QED
  BY <1>1, <1>2

(* An idle panel shows the wallet that the database holds, as long as its  *)
(* handlers took turns, every answer came and neither POST sync nor the    *)
(* account's deletion wrote the row since it was loaded                    *)
(* (linked-wallet.tsx).                                                    *)
THEOREM PanelsAreTruthful == LinkSpec => []PanelTruthful
<1>1. LinkInv => PanelTruthful
  BY DEF LinkInv, LinkTypeOK, PanelOK, PanelTruthful
<1> QED
  BY <1>1, LinkStart, LinkStep, PTL DEF LinkSpec

-----------------------------------------------------------------------------
(* The wallet of the tab. The argument: a reading of the extension that    *)
(* names another account than Freighter's is older than the last switch,   *)
(* and while the screen names another one, the next poll or one under way  *)
(* will correct it in time.                                                *)

(* What a call of the extension has read is out of date only since a       *)
(* switch that came after it.                                              *)
ReadsRecent ==
    /\ \A r \in reads : \A a \in r.seen : a # freighter => sinceChange <= r.age
    /\ connection.step \in {"idle", "access"} => connection.address = NoAddress
    /\ connection.step = "address" /\ connection.address \notin {NoAddress, freighter} =>
           sinceChange <= connection.age
    /\ connection.step = "network" /\ connection.address # freighter =>
           sinceChange <= ReadTime + connection.age

(* While the context names another account, the next poll is due in time,  *)
(* or one is on its way that will correct it.                              *)
Corrected(r) ==
    /\ r.by = "poll" /\ r.seen \subseteq {freighter}
    /\ sinceChange <= 2 * ReadTime + PollInterval + r.age

ContextRecent ==
    context.address # freighter =>
        \/ sinceChange <= 2 * ReadTime + sincePoll
        \/ \E r \in reads : Corrected(r)

FormFollows ==
    Shown(signup.step) /\ context.address # NoAddress => signup.wallet = context.address

SessionInv == SessionTypeOK /\ ReadsRecent /\ ContextRecent /\ FormFollows

Connection == [step : {"idle", "access", "address", "network"}, address : Address,
               age : 0..ReadTime]

Read == [by : Caller, seen : Seen, age : 0..ReadTime]

Form == [step : {"wallet", "details", "submitting", "error"}, wallet : Address]

(* The constants that are numbers.                                         *)
LEMMA SessionNumbers ==
    PollInterval \in Nat /\ PollInterval > 0 /\ ReadTime \in Nat /\ DetectionTime \in Nat
BY PollAssumption DEF DetectionTime

(* The variables that are numbers.                                         *)
LEMMA TimesAreNumbers ==
    ASSUME SessionTypeOK
    PROVE  /\ sincePoll \in Nat /\ sincePoll <= PollInterval
           /\ sinceChange \in Nat /\ sinceChange <= DetectionTime + 1
           /\ connection.age \in Nat /\ connection.age <= ReadTime
           /\ \A r \in reads : r \in Read /\ r.age \in Nat /\ r.age <= ReadTime
BY SessionNumbers DEF SessionTypeOK, Read

(* The form hears of a new address.                                        *)
LEMMA AddressIsNotified ==
    ASSUME SessionTypeOK, FormFollows, NEW address \in Address, NEW error \in BOOLEAN,
           SetAddress(address, error)
    PROVE  /\ context' \in [address : Address, error : BOOLEAN]
           /\ context'.address = address
           /\ signup' \in Form
           /\ FormFollows'
<1>1. context' \in [address : Address, error : BOOLEAN] /\ context'.address = address
  BY DEF SetAddress
<1>2. signup \in Form
  BY DEF SessionTypeOK, Form
<1>3. Notify(address, signup) \in Form
  BY <1>2 DEF Notify, Form
<1>4. signup' \in Form
  BY <1>2, <1>3 DEF SetAddress
<1>5. FormFollows'
  BY <1>1 DEF SetAddress, FormFollows, Notify, Shown
<1> QED
  BY <1>1, <1>4, <1>5

(* What a step keeps that changes neither the times nor the account.       *)
LEMMA RestKeeps ==
    ASSUME SessionInv, UNCHANGED <<freighter, sincePoll, sinceChange>>,
           context' \in [address : Address, error : BOOLEAN],
           connection' = connection \/ connection' = NoConnection
               \/ connection' = [NoConnection EXCEPT !.step = "access"],
           reads' \subseteq reads,
           provider' \in [address : Address, checking : BOOLEAN], session' \in BOOLEAN,
           signup' \in Form, FormFollows',
           \/ context'.address = freighter
           \/ context'.address = context.address
              /\ \A r \in reads : r.by = "poll" /\ r.seen \subseteq {freighter} => r \in reads'
           \/ sinceChange <= 2 * ReadTime
    PROVE  SessionInv'
<1> USE DEF SessionInv
<1>1. /\ NoConnection \in Connection
      /\ [NoConnection EXCEPT !.step = "access"] \in
             Connection
      /\ NoConnection.step = "idle" /\ [NoConnection EXCEPT !.step = "access"].step = "access"
      /\ NoConnection.address = NoAddress
      /\ [NoConnection EXCEPT !.step = "access"].address = NoAddress
  BY SessionNumbers DEF NoConnection, Address, Connection
<1>2. SessionTypeOK'
  BY <1>1 DEF SessionTypeOK, Form, Connection
<1>3. ReadsRecent'
  BY <1>1 DEF ReadsRecent
<1>4. ContextRecent'
  <2> SUFFICES ASSUME context'.address # freighter
               PROVE  sinceChange <= 2 * ReadTime + sincePoll \/ \E r \in reads' : Corrected(r)'
    BY DEF ContextRecent
  <2>1. CASE sinceChange <= 2 * ReadTime
    BY <2>1, SessionNumbers, TimesAreNumbers
  <2>2. CASE /\ context'.address = context.address
             /\ \A r \in reads : r.by = "poll" /\ r.seen \subseteq {freighter} => r \in reads'
    BY <2>2 DEF ContextRecent, Corrected
  <2> QED
    BY <2>1, <2>2
<1> QED
  BY <1>2, <1>3, <1>4

(* Steps of the buttons, of the form and of the session.                   *)
LEMMA ScreenKeeps ==
    ASSUME SessionInv, Connect \/ ConnectFails \/ FormStep \/ SignOut
    PROVE  SessionInv'
<1> USE DEF SessionInv
<1>1. signup \in Form /\ context \in [address : Address, error : BOOLEAN]
  BY DEF SessionTypeOK, Form
<1>2. UNCHANGED <<freighter, reads, sincePoll, sinceChange>>
  BY DEF Connect, ConnectFails, FormStep, SignOut
<1>3. context' \in [address : Address, error : BOOLEAN] /\ context'.address = context.address
  BY <1>1 DEF Connect, ConnectFails, FormStep, SignOut
<1>4. connection' = connection \/ connection' = NoConnection
          \/ connection' = [NoConnection EXCEPT !.step = "access"]
  BY DEF Connect, ConnectFails, FormStep, SignOut
<1>5. provider' \in [address : Address, checking : BOOLEAN] /\ session' \in BOOLEAN
  BY DEF Connect, ConnectFails, FormStep, SignOut, SessionTypeOK, Address
<1>6. signup' \in Form /\ FormFollows'
  <2>1. CASE signup' = signup
    BY <1>1, <1>3, <2>1 DEF FormFollows
  <2>2. CASE FormStep
    <3>1. CASE signup' = [signup EXCEPT !.step = "submitting"]
      BY <1>1, <3>1 DEF Form, FormFollows, Shown
    <3>2. ASSUME NEW w \in {signup.wallet, NoAddress}, signup' = [step |-> "error", wallet |-> w]
          PROVE  signup' \in Form /\ FormFollows'
      BY <1>1, <3>2 DEF Form, FormFollows, Shown, Address
    <3>3. CASE signup' = Notify(context.address, [signup EXCEPT
                   !.step = IF signup.wallet = NoAddress THEN "wallet" ELSE "details"])
      <4>1. PICK step \in {"wallet", "details"} :
                step = IF signup.wallet = NoAddress THEN "wallet" ELSE "details"
        OBVIOUS
      <4>2. PICK f : f = [signup EXCEPT !.step = step]
        OBVIOUS
      <4>3. f \in Form /\ Shown(f.step)
        BY <1>1, <4>2 DEF Form, Shown
      <4>4. signup' = Notify(context.address, f)
        BY <3>3, <4>1, <4>2
      <4>5. signup' \in Form
        BY <1>1, <4>3, <4>4 DEF Notify, Form
      <4>6. FormFollows'
        BY <1>3, <4>3, <4>4 DEF Notify, FormFollows
      <4> QED
        BY <4>5, <4>6
    <3> QED
      BY <2>2, <3>1, <3>2, <3>3 DEF FormStep
  <2> QED
    BY <2>1, <2>2 DEF Connect, ConnectFails, FormStep, SignOut
<1> QED
  BY <1>2, <1>3, <1>4, <1>5, <1>6, RestKeeps

(* An answer reaches the page, which takes over the address it brings.     *)
LEMMA AnswersKeep ==
    ASSUME SessionInv,
           \/ \E r \in reads : AddressRead(r) \/ ProviderRead(r)
           \/ Connected
    PROVE  SessionInv'
<1> USE DEF SessionInv
<1>1. signup \in Form /\ context \in [address : Address, error : BOOLEAN]
  BY DEF SessionTypeOK, Form
<1>2. CASE Connected
  <2>1. SetAddress(connection.address, context.error) /\ connection.address \in Address
    BY <1>2 DEF Connected, SessionTypeOK
  <2>2. /\ context' \in [address : Address, error : BOOLEAN]
        /\ context'.address = connection.address /\ signup' \in Form /\ FormFollows'
    BY <1>1, <2>1, AddressIsNotified
  <2>3. connection.address = freighter \/ sinceChange <= 2 * ReadTime
    BY <1>2, SessionNumbers, TimesAreNumbers DEF Connected, ReadsRecent
  <2> QED
    BY <1>2, <2>2, <2>3, RestKeeps DEF Connected, SessionTypeOK
<1>3. ASSUME NEW r \in reads, AddressRead(r) PROVE SessionInv'
  <2>1. r \in Read
    BY TimesAreNumbers
  <2>2. PICK a \in r.seen :
            SetAddress(a, context.error /\ (r.by = "mount" \/ a # NoAddress
                                            \/ a = context.address))
    BY <1>3 DEF AddressRead
  <2>3. a \in Address
    BY <2>1 DEF Read, Seen
  <2>4. PICK e \in BOOLEAN : e = (context.error /\ (r.by = "mount" \/ a # NoAddress
                                                    \/ a = context.address))
    BY <1>1
  <2>5. /\ context' \in [address : Address, error : BOOLEAN]
        /\ context'.address = a /\ signup' \in Form /\ FormFollows'
    BY <2>2, <2>3, <2>4, AddressIsNotified
  <2>6. a = freighter \/ sinceChange <= 2 * ReadTime
    <3>1. a # freighter => sinceChange <= r.age
      BY DEF ReadsRecent
    <3> QED
      BY <3>1, SessionNumbers, TimesAreNumbers
  <2> QED
    BY <1>3, <2>5, <2>6, RestKeeps DEF AddressRead, SessionTypeOK
<1>4. ASSUME NEW r \in reads, ProviderRead(r) PROVE SessionInv'
  <2>1. r \in Read
    BY TimesAreNumbers
  <2>2. PICK a \in r.seen : provider' = [address |-> a, checking |-> FALSE]
    BY <1>4 DEF ProviderRead
  <2>3. provider' \in [address : Address, checking : BOOLEAN]
    BY <2>1, <2>2 DEF Read, Seen
  <2>4. FormFollows'
    BY <1>4 DEF ProviderRead, FormFollows
  <2> QED
    BY <1>1, <1>4, <2>3, <2>4, RestKeeps DEF ProviderRead, SessionTypeOK
<1> QED
  BY <1>2, <1>3, <1>4

(* The account or what is known of it changes now, or the extension tells  *)
(* what it is.                                                             *)
LEMMA ChangesKeep ==
    ASSUME SessionInv,
           \/ \E a \in Address : SwitchAccount(a)
           \/ \E r \in reads : ReadAddress(r)
           \/ AccessGranted \/ AddressGiven \/ AskNetwork \/ Disconnect
    PROVE  SessionInv'
<1> USE DEF SessionInv
<1>1. ASSUME SessionTypeOK', sinceChange' = 0, sincePoll' = sincePoll,
             UNCHANGED <<context, signup>> \/ FormFollows',
             \A r \in reads' : r.age \in Nat, connection' = connection
      PROVE  SessionInv'
  <2>1. ReadsRecent'
    BY <1>1, SessionNumbers, TimesAreNumbers DEF ReadsRecent
  <2>2. ContextRecent'
    BY <1>1, SessionNumbers, TimesAreNumbers DEF ContextRecent
  <2> QED
    BY <1>1, <2>1, <2>2 DEF FormFollows
<1>2. ASSUME NEW a \in Address, SwitchAccount(a) PROVE SessionInv'
  <2>1. SessionTypeOK'
    BY <1>2, SessionNumbers DEF SwitchAccount, SessionTypeOK
  <2> QED
    BY <1>1, <1>2, <2>1, TimesAreNumbers DEF SwitchAccount
<1>3. CASE Disconnect
  <2>1. SetAddress(NoAddress, FALSE) /\ NoAddress \in Address
    BY <1>3 DEF Disconnect, Address
  <2>2. /\ context' \in [address : Address, error : BOOLEAN] /\ signup' \in Form
        /\ FormFollows'
    BY <2>1, AddressIsNotified
  <2>3. SessionTypeOK'
    BY <1>3, <2>2, SessionNumbers DEF Disconnect, SessionTypeOK, Form
  <2> QED
    BY <1>1, <1>3, <2>2, <2>3, TimesAreNumbers DEF Disconnect
<1>4. CASE AccessGranted \/ AddressGiven \/ AskNetwork
  <2>1. connection \in Connection /\ freighter \in Address
    BY DEF SessionTypeOK, Connection
  <2>2. UNCHANGED <<freighter, context, reads, provider, session, signup, sincePoll,
                    sinceChange>>
    BY <1>4 DEF AccessGranted, AddressGiven, AskNetwork
  <2>3. /\ connection' \in Connection /\ connection'.step \in {"address", "network"}
        /\ connection'.step = "address" /\ connection'.address \notin {NoAddress, freighter} =>
               sinceChange <= connection'.age
        /\ connection'.step = "network" /\ connection'.address # freighter =>
               sinceChange <= ReadTime + connection'.age
    <3>1. CASE AccessGranted
      <4>1. PICK c : c = [connection EXCEPT !.step = "address"]
        OBVIOUS
      <4>2. /\ c \in Connection /\ c.step = "address" /\ c.address = connection.address
            /\ connection' = c
        BY <2>1, <3>1, <4>1 DEF Connection, AccessGranted
      <4>3. connection.address = NoAddress
        BY <3>1 DEF AccessGranted, ReadsRecent
      <4> QED
        BY <4>2, <4>3
    <3>2. CASE AddressGiven
      <4>1. PICK c : c = [connection EXCEPT !.address = freighter]
        OBVIOUS
      <4>2. /\ c \in Connection /\ c.step = "address" /\ c.address = freighter
            /\ connection' = c
        BY <2>1, <3>2, <4>1 DEF Connection, AddressGiven
      <4> QED
        BY <4>2
    <3>3. CASE AskNetwork
      <4>0. PICK z \in 0..ReadTime : z = 0
        BY SessionNumbers
      <4>1. PICK c : c = [connection EXCEPT !.step = "network", !.age = z]
        OBVIOUS
      <4>2. /\ c \in Connection /\ c.step = "network" /\ c.address = connection.address
            /\ c.age = z
        BY <2>1, <4>1 DEF Connection
      <4>5. connection' = c /\ c.age = 0
        BY <3>3, <4>0, <4>1, <4>2 DEF AskNetwork
      <4>3. connection.address # freighter => sinceChange <= ReadTime
        BY <3>3, SessionNumbers, TimesAreNumbers DEF AskNetwork, ReadsRecent
      <4>4. sinceChange \in Nat /\ connection'.address = connection.address
        BY <4>2, <4>5, TimesAreNumbers
      <4> QED
        BY <2>2, <4>2, <4>3, <4>4, <4>5, SessionNumbers
    <3> QED
      BY <1>4, <3>1, <3>2, <3>3
  <2>4. SessionTypeOK'
    BY <2>2, <2>3 DEF SessionTypeOK, Connection
  <2>5. ReadsRecent'
    BY <2>2, <2>3 DEF ReadsRecent
  <2> QED
    BY <2>2, <2>4, <2>5 DEF ContextRecent, Corrected, FormFollows
<1>5. ASSUME NEW r \in reads, ReadAddress(r) PROVE SessionInv'
  <2>1. PICK a \in {freighter, NoAddress} :
            /\ reads' = (reads \ {r}) \cup {[r EXCEPT !.seen = {a}]}
            /\ sinceChange' = IF a # freighter THEN 0 ELSE sinceChange
    BY <1>5 DEF ReadAddress
  <2>2. PICK q : q = [r EXCEPT !.seen = {a}]
    OBVIOUS
  <2>3. a \in Address
    BY <2>1 DEF SessionTypeOK, Address
  <2>4. /\ q \in Read /\ q.by = r.by /\ q.age = r.age /\ q.seen = {a}
        /\ r \in Read
    BY <2>2, <2>3, TimesAreNumbers DEF Read, Seen
  <2>5. reads' = (reads \ {r}) \cup {q}
    BY <2>1, <2>2
  <2>6. SessionTypeOK'
    BY <1>5, <2>1, <2>4, <2>5, SessionNumbers DEF ReadAddress, SessionTypeOK, Read
  <2>7. CASE a # freighter
    <3>1. \A s \in reads' : s.age \in Nat
      BY <2>4, <2>5, TimesAreNumbers
    <3> QED
      BY <1>1, <1>5, <2>1, <2>6, <2>7, <3>1, TimesAreNumbers DEF ReadAddress
  <2>8. CASE a = freighter
    <3>1. UNCHANGED <<freighter, context, connection, signup, sincePoll, sinceChange>>
      BY <1>5, <2>1, <2>8 DEF ReadAddress
    <3>2. ReadsRecent'
      BY <2>4, <2>5, <2>8, <3>1 DEF ReadsRecent
    <3>3. \A s \in reads : Corrected(s) => \E t \in reads' : Corrected(t)'
      BY <2>4, <2>5, <2>8, <3>1 DEF Corrected
    <3>4. ContextRecent'
      BY <3>1, <3>3 DEF ContextRecent
    <3> QED
      BY <2>6, <3>1, <3>2, <3>4 DEF FormFollows
  <2> QED
    BY <2>7, <2>8
<1> QED
  BY <1>2, <1>3, <1>4, <1>5

(* A new call is sent: by the poll, before its time has run out, or by the *)
(* layout of another session.                                              *)
LEMMA CallsKeep ==
    ASSUME SessionInv, Poll \/ SignIn
    PROVE  SessionInv'
<1> USE DEF SessionInv
<1>1. ASSUME NEW by \in Caller
      PROVE  /\ ReadBy(by) \in Read /\ ReadBy(by).seen = {} /\ ReadBy(by).age = 0
             /\ ReadBy(by).by = by
  BY SessionNumbers DEF ReadBy, Read, Seen
<1>2. CASE Poll
  <2>1. PICK q : q = ReadBy("poll")
    OBVIOUS
  <2>2. q \in Read /\ q.seen = {} /\ q.age = 0 /\ q.by = "poll"
    BY <1>1, <2>1 DEF Caller
  <2>3. /\ reads' = reads \cup {q} /\ sincePoll = PollInterval /\ sincePoll' = 0
        /\ UNCHANGED <<freighter, context, connection, provider, session, signup, sinceChange>>
    BY <1>2, <2>1 DEF Poll
  <2>4. SessionTypeOK'
    BY <2>2, <2>3, SessionNumbers DEF SessionTypeOK, Read
  <2>5. ReadsRecent'
    BY <2>2, <2>3 DEF ReadsRecent
  <2>6. ContextRecent'
    <3> SUFFICES ASSUME context.address # freighter PROVE \E r \in reads' : Corrected(r)'
      BY <2>3 DEF ContextRecent
    <3>1. CASE sinceChange <= 2 * ReadTime + sincePoll
      <4>1. Corrected(q)'
        BY <2>2, <2>3, <3>1, SessionNumbers, TimesAreNumbers DEF Corrected
      <4> QED
        BY <2>3, <4>1
    <3>2. ASSUME NEW r \in reads, Corrected(r) PROVE \E s \in reads' : Corrected(s)'
      BY <2>3, <3>2 DEF Corrected
    <3> QED
      BY <3>1, <3>2 DEF ContextRecent
  <2> QED
    BY <2>3, <2>4, <2>5, <2>6 DEF FormFollows
<1>3. CASE SignIn
  <2>1. PICK q : q = ReadBy("provider")
    OBVIOUS
  <2>2. q \in Read /\ q.seen = {} /\ q.age = 0 /\ q.by = "provider"
    BY <1>1, <2>1 DEF Caller
  <2>3. /\ reads' = {r \in reads : r.by # "provider"} \cup {q}
        /\ session' = TRUE /\ provider' = [address |-> NoAddress, checking |-> TRUE]
        /\ UNCHANGED <<freighter, context, connection, signup, sincePoll, sinceChange>>
    BY <1>3, <2>1 DEF SignIn
  <2>4. SessionTypeOK'
    BY <2>2, <2>3 DEF SessionTypeOK, Read, Address
  <2>5. ReadsRecent'
    BY <2>2, <2>3 DEF ReadsRecent
  <2>6. \A r \in reads : Corrected(r) => r \in reads' /\ Corrected(r)'
    BY <2>3 DEF Corrected
  <2>7. ContextRecent'
    BY <2>3, <2>6 DEF ContextRecent
  <2> QED
    BY <2>3, <2>4, <2>5, <2>7 DEF FormFollows
<1> QED
  BY <1>2, <1>3

(* Time passes for the calls and the timers alike.                         *)
LEMMA TickKeeps ==
    ASSUME SessionInv, Tick
    PROVE  SessionInv'
<1> USE DEF SessionInv
<1>1. /\ sincePoll \in Nat /\ sincePoll < PollInterval /\ sincePoll' = sincePoll + 1
      /\ sinceChange \in Nat /\ sinceChange' \in Nat
      /\ sinceChange' <= sinceChange + 1 /\ sinceChange' <= DetectionTime + 1
      /\ UNCHANGED <<freighter, context, provider, session, signup>>
  BY SessionNumbers, TimesAreNumbers DEF Tick
<1>2. ASSUME NEW r \in reads, NEW s, s = [r EXCEPT !.age = r.age + 1]
      PROVE  /\ s \in Read /\ s.by = r.by /\ s.seen = r.seen /\ s.age = r.age + 1
             /\ r.age \in Nat
  <2>1. PICK n : n = r.age + 1
    OBVIOUS
  <2>2. r \in Read /\ r.age \in Nat /\ n \in 0..ReadTime
    BY <2>1, SessionNumbers, TimesAreNumbers DEF Tick
  <2>3. s = [r EXCEPT !.age = n]
    BY <1>2, <2>1
  <2> QED
    BY <2>1, <2>2, <2>3 DEF Read
<1>3. reads' = {[r EXCEPT !.age = r.age + 1] : r \in reads}
  BY DEF Tick
<1>4. /\ connection' \in Connection
      /\ connection'.step = connection.step /\ connection'.address = connection.address
      /\ Calling => connection'.age = connection.age + 1
  <2>1. PICK n : n = IF Calling THEN connection.age + 1 ELSE connection.age
    OBVIOUS
  <2>2. n \in 0..ReadTime
    BY <2>1, SessionNumbers, TimesAreNumbers DEF Tick
  <2>3. connection' = [connection EXCEPT !.age = n]
    BY <2>1 DEF Tick
  <2>4. connection \in Connection
    BY DEF SessionTypeOK, Connection
  <2> QED
    BY <2>1, <2>2, <2>3, <2>4 DEF Connection
<1>5. SessionTypeOK'
  <2>1. reads' \subseteq Read
    BY <1>2, <1>3
  <2>2. sincePoll' \in 0..PollInterval /\ sinceChange' \in 0..DetectionTime + 1
    BY <1>1, SessionNumbers
  <2> QED
    BY <1>1, <1>4, <2>1, <2>2 DEF SessionTypeOK, Read, Connection
<1>6. ReadsRecent'
  <2>1. ASSUME NEW s \in reads', NEW a \in s.seen, a # freighter
        PROVE  sinceChange' <= s.age
    <3>1. PICK r \in reads : s = [r EXCEPT !.age = r.age + 1]
      BY <1>3
    <3>2. s.seen = r.seen /\ s.age = r.age + 1 /\ r.age \in Nat
      BY <1>2, <3>1
    <3>3. sinceChange <= r.age
      BY <2>1, <3>2 DEF ReadsRecent
    <3> QED
      BY <1>1, <3>2, <3>3
  <2>2. /\ connection'.step = "address" /\ connection'.address \notin {NoAddress, freighter} =>
               sinceChange' <= connection'.age
        /\ connection'.step = "network" /\ connection'.address # freighter =>
               sinceChange' <= ReadTime + connection'.age
    BY <1>1, <1>4, SessionNumbers, TimesAreNumbers DEF ReadsRecent, Calling
  <2> QED
    BY <1>1, <1>4, <2>1, <2>2 DEF ReadsRecent
<1>7. ContextRecent'
  <2> SUFFICES ASSUME context.address # freighter
               PROVE  \/ sinceChange' <= 2 * ReadTime + sincePoll'
                      \/ \E r \in reads' : Corrected(r)'
    BY <1>1 DEF ContextRecent
  <2>1. CASE sinceChange <= 2 * ReadTime + sincePoll
    BY <1>1, <2>1, SessionNumbers
  <2>2. ASSUME NEW r \in reads, Corrected(r) PROVE \E s \in reads' : Corrected(s)'
    <3>1. PICK s \in reads' : s = [r EXCEPT !.age = r.age + 1]
      BY <1>3
    <3>2. s.by = r.by /\ s.seen = r.seen /\ s.age = r.age + 1 /\ r.age \in Nat
      BY <1>2, <3>1
    <3>3. Corrected(s)'
      BY <1>1, <2>2, <3>2, SessionNumbers DEF Corrected
    <3> QED
      BY <3>3
  <2> QED
    BY <2>1, <2>2 DEF ContextRecent
<1> QED
  BY <1>1, <1>5, <1>6, <1>7 DEF FormFollows

(* The first state.                                                        *)
LEMMA SessionStart == SessionInit => SessionInv
<1> SUFFICES ASSUME SessionInit PROVE SessionInv
  OBVIOUS
<1>1. SessionTypeOK
  BY SessionNumbers DEF SessionInit, SessionTypeOK, NoConnection, ReadBy, Caller, Seen, Address
<1>2. ReadsRecent
  BY DEF SessionInit, ReadsRecent, ReadBy, NoConnection
<1>3. ContextRecent /\ FormFollows
  BY SessionNumbers DEF SessionInit, ContextRecent, FormFollows
<1> QED
  BY <1>1, <1>2, <1>3 DEF SessionInv

(* Every step.                                                             *)
LEMMA SessionStep == SessionInv /\ [SessionNext]_walletSessionVars => SessionInv'
<1> SUFFICES ASSUME SessionInv, [SessionNext]_walletSessionVars PROVE SessionInv'
  OBVIOUS
<1>1. CASE UNCHANGED walletSessionVars
  BY <1>1 DEF walletSessionVars, SessionInv, SessionTypeOK, ReadsRecent, ContextRecent,
     Corrected, FormFollows
<1>2. CASE SessionNext
  BY <1>2, ScreenKeeps, AnswersKeep, ChangesKeep, CallsKeep, TickKeeps DEF SessionNext
<1> QED
  BY <1>1, <1>2

(* The screen names Freighter's account again within one poll interval and *)
(* three calls of a switch (context.tsx, freighter.ts).                    *)
THEOREM SwitchesAreDetected == SessionSpec => []DetectedInTime
<1>1. SessionInv => DetectedInTime
  <2> SUFFICES ASSUME SessionInv, ~ NamesTheAccount
               PROVE  sinceChange <= DetectionTime
    BY DEF DetectedInTime
  <2>1. context.address # freighter
    BY DEF SessionInv, FormFollows, NamesTheAccount
  <2> QED
    BY <2>1, SessionNumbers, TimesAreNumbers
       DEF SessionInv, ContextRecent, Corrected, DetectionTime
<1> QED
  BY <1>1, SessionStart, SessionStep, PTL DEF SessionSpec

-----------------------------------------------------------------------------
(* The activity. The argument: rows are added and never removed. The rows   *)
(* of later ledgers than an event's come before it in every answer. As     *)
(* long as the event is not written and no page ended within its ledger,   *)
(* these are at least as many as the offset, and new rows only add to them.*)

\* The rows that every answer puts before an event of ledger l.
Above(E, l) == {e \in E : LedgerSequence(e) > l}

(* The constants that are numbers.                                         *)
LEMMA ActivityNumbers ==
    /\ MaxLedgers \in Nat /\ MaxPerLedger \in Nat /\ MaxOffset \in Nat
    /\ ExportSize \in Nat /\ ExportSize > 0
    /\ \A n \in Limits : n \in Nat /\ n > 0
    /\ \A e \in Events : LedgerSequence(e) \in Ledgers /\ LedgerSequence(e) \in Nat
BY ExportAssumption DEF Events, Ledgers, LedgerSequence

(* Rows are finitely many.                                                 *)
LEMMA RowsAreFinite ==
    ASSUME NEW E \in SUBSET Events
    PROVE  IsFiniteSet(E) /\ Cardinality(E) \in Nat
<1>1. IsFiniteSet(Ledgers) /\ IsFiniteSet(1..MaxPerLedger)
  BY FS_Interval, ActivityNumbers DEF Ledgers
<1>2. IsFiniteSet(Events)
  BY <1>1, FS_Product DEF Events
<1> QED
  BY <1>2, FS_Subset, FS_CardinalityType

(* A part of the rows is no larger than they are.                          *)
LEMMA PartIsSmaller ==
    ASSUME NEW E \in SUBSET Events, NEW D \in SUBSET E
    PROVE  /\ Cardinality(D) \in Nat /\ Cardinality(D) <= Cardinality(E)
           /\ Cardinality(D) = Cardinality(E) => D = E
<1>1. D \in SUBSET Events
  OBVIOUS
<1> QED
  BY <1>1, RowsAreFinite, FS_Subset

(* The export: every row from the start is written or on a page to come,   *)
(* unless a page ended within its ledger.                                  *)
Reachable(c, e) ==
    LedgerSequence(e) \in c.cut \/ c.offset <= Cardinality(Above(eventRows, LedgerSequence(e)))

ExportInv ==
    /\ csv.state = "running" =>
           /\ csv.offset <= Cardinality(eventRows)
           /\ csv.before \subseteq eventRows
           /\ \A e \in csv.before \ csv.written : Reachable(csv, e)
    /\ ExportComplete

(* The list: only the present selection's request is not ignored.          *)
ListInv ==
    /\ \A r \in requests : ~r.ignore => r.of = selection
    /\ PageSelected

ActivityInv == ActivityTypeOK /\ ExportInv /\ ListInv

Export == [state : {"idle", "running", "complete"}, offset : Nat,
           written : SUBSET Events, before : SUBSET Events, cut : SUBSET Ledgers]

(* New rows are behind an event or move it away from the first page.       *)
LEMMA AddKeeps ==
    ASSUME ActivityInv, NEW l \in Events, AddRow(l)
    PROVE  ActivityInv'
<1> USE DEF ActivityInv
<1>1. eventRows' = eventRows \cup {l} /\ UNCHANGED <<csv, selection, list, requests>>
  BY DEF AddRow
<1>2. ActivityTypeOK' /\ ListInv'
  BY <1>1 DEF AddRow, ActivityTypeOK, ListInv, PageSelected
<1>3. ExportInv'
  <2> SUFFICES ASSUME csv.state = "running"
               PROVE  /\ csv.offset <= Cardinality(eventRows')
                      /\ \A e \in csv.before \ csv.written :
                             \/ LedgerSequence(e) \in csv.cut
                             \/ csv.offset <= Cardinality(Above(eventRows', LedgerSequence(e)))
    BY <1>1 DEF ExportInv, ExportComplete, Reachable
  <2>1. eventRows' \in SUBSET Events /\ eventRows \in SUBSET eventRows' /\ csv.offset \in Nat
    BY <1>1 DEF ActivityTypeOK
  <2>2. /\ Cardinality(eventRows) <= Cardinality(eventRows')
        /\ Cardinality(eventRows) \in Nat /\ Cardinality(eventRows') \in Nat
    BY <2>1, PartIsSmaller
  <2>3. ASSUME NEW k
        PROVE  /\ Cardinality(Above(eventRows, k)) <= Cardinality(Above(eventRows', k))
               /\ Cardinality(Above(eventRows, k)) \in Nat
               /\ Cardinality(Above(eventRows', k)) \in Nat
    <3>1. /\ Above(eventRows', k) \in SUBSET Events
          /\ Above(eventRows, k) \in SUBSET Above(eventRows', k)
      BY <2>1 DEF Above
    <3> QED
      BY <3>1, PartIsSmaller
  <2>4. \A e \in csv.before \ csv.written : Reachable(csv, e)
    BY DEF ExportInv
  <2> QED
    BY <2>1, <2>2, <2>3, <2>4 DEF ExportInv, Reachable
<1> QED
  BY <1>2, <1>3

(* An answer that begins with `first` has an event of its last ledger or   *)
(* of a later one at every place, so that what is left out comes after     *)
(* all that is not of its own ledger.                                      *)
LEMMA FirstOnes ==
    ASSUME eventRows \in SUBSET Events, NEW n \in Nat, NEW first \in Firsts(n),
           NEW e \in eventRows
    PROVE  /\ first \in SUBSET eventRows /\ Cardinality(first) \in Nat
           /\ Cardinality(first) <= n
           /\ n <= Cardinality(eventRows) => Cardinality(first) = n
           /\ Cardinality(first) < n => first = eventRows
           /\ e \in first =>
                  Cardinality(first) > Cardinality(Above(eventRows, LedgerSequence(e)))
                  \/ \E r \in eventRows \ first : LedgerSequence(r) > LedgerSequence(e)
           /\ e \notin first =>
                  \/ Cardinality(first) <= Cardinality(Above(eventRows, LedgerSequence(e)))
                  \/ \E r \in first : LedgerSequence(r) = LedgerSequence(e)
<1> DEFINE l == LedgerSequence(e)
<1>1. /\ first \in SUBSET eventRows
      /\ Cardinality(first) = n \/ (Cardinality(first) < n /\ first = eventRows)
      /\ \A a \in first, r \in eventRows \ first : LedgerSequence(a) >= LedgerSequence(r)
  BY DEF Firsts
<1>2. Cardinality(first) \in Nat /\ Cardinality(eventRows) \in Nat
  BY <1>1, PartIsSmaller, RowsAreFinite
<1>3. Above(eventRows, l) \in SUBSET Events /\ Cardinality(Above(eventRows, l)) \in Nat
  BY RowsAreFinite DEF Above
<1>4. ASSUME e \in first, \A r \in eventRows \ first : ~ (LedgerSequence(r) > l)
      PROVE  Cardinality(first) > Cardinality(Above(eventRows, l))
  <2>1. Above(eventRows, l) \in SUBSET first
    BY <1>4 DEF Above
  <2>2. e \notin Above(eventRows, l)
    BY ActivityNumbers DEF Above
  <2>3. /\ Cardinality(Above(eventRows, l)) <= Cardinality(first)
        /\ Cardinality(Above(eventRows, l)) = Cardinality(first) => Above(eventRows, l) = first
    BY <1>1, <2>1, PartIsSmaller
  <2> QED
    BY <1>2, <1>3, <1>4, <2>2, <2>3
<1>5. ASSUME e \notin first, \A r \in first : LedgerSequence(r) # l
      PROVE  Cardinality(first) <= Cardinality(Above(eventRows, l))
  <2>1. \A a \in first : LedgerSequence(a) > l
    BY <1>1, <1>5, ActivityNumbers
  <2>2. first \in SUBSET Above(eventRows, l)
    BY <1>1, <2>1 DEF Above
  <2> QED
    BY <1>3, <2>2, PartIsSmaller
<1> QED
  BY <1>1, <1>2, <1>4, <1>5

(* One page of the export; a short one ends it, since nothing is left.     *)
LEMMA PullKeeps ==
    ASSUME ActivityInv, Pull
    PROVE  ActivityInv'
<1> USE DEF ActivityInv
<1>1. PICK skipped \in Firsts(csv.offset), upTo \in Firsts(csv.offset + ExportSize) :
          skipped \subseteq upTo /\ WritePage(skipped, upTo)
  BY DEF Pull
<1>2. PICK page : page = upTo \ skipped
  OBVIOUS
<1>3. PICK cut : cut = {l \in Ledgers : /\ \E e \in upTo : LedgerSequence(e) = l
                                      /\ \E e \in eventRows \ upTo : LedgerSequence(e) = l}
  OBVIOUS
<1>4. PICK n : n = Cardinality(page)
  OBVIOUS
<1>5. PICK c : c = csv
  OBVIOUS
<1>6. /\ c \in Export /\ eventRows \in SUBSET Events
      /\ c.offset \in Nat /\ c.offset <= Cardinality(eventRows)
      /\ c.before \subseteq eventRows
      /\ \A e \in c.before \ c.written : Reachable(c, e)
  BY <1>5 DEF Pull, ActivityTypeOK, ExportInv, Export
<1>7. /\ skipped \in SUBSET eventRows /\ Cardinality(skipped) = c.offset
      /\ upTo \in SUBSET eventRows /\ Cardinality(upTo) \in Nat
      /\ Cardinality(upTo) <= c.offset + ExportSize
      /\ Cardinality(upTo) < c.offset + ExportSize => upTo = eventRows
  <2>1. ASSUME NEW k \in Nat, NEW first \in Firsts(k)
        PROVE  /\ first \in SUBSET eventRows
               /\ Cardinality(first) = k \/ (Cardinality(first) < k /\ first = eventRows)
    BY <2>1 DEF Firsts
  <2>2. c.offset + ExportSize \in Nat
    BY <1>6, ActivityNumbers
  <2>3. skipped \in SUBSET eventRows /\ upTo \in SUBSET eventRows
    BY <1>1, <1>5, <1>6, <2>1, <2>2
  <2>4. Cardinality(skipped) = c.offset
    <3>1. Cardinality(eventRows) \in Nat
      BY <1>6, RowsAreFinite
    <3>2. Cardinality(skipped) = c.offset
              \/ (Cardinality(skipped) < c.offset /\ skipped = eventRows)
      BY <1>1, <1>5, <1>6, <2>1
    <3> QED
      BY <1>6, <3>1, <3>2
  <2>5. Cardinality(upTo) = c.offset + ExportSize
            \/ (Cardinality(upTo) < c.offset + ExportSize /\ upTo = eventRows)
    BY <1>1, <1>5, <1>6, <2>1, <2>2
  <2>6. Cardinality(upTo) \in Nat
    BY <1>6, <2>3, PartIsSmaller
  <2> QED
    BY <2>2, <2>3, <2>4, <2>5, <2>6
<1>8. n \in Nat /\ c.offset + n = Cardinality(upTo) /\ page \in SUBSET eventRows
  <2>1. IsFiniteSet(upTo) /\ upTo \cap skipped = skipped
    BY <1>1, <1>6, <1>7, RowsAreFinite
  <2>2. n = Cardinality(upTo) - c.offset
    <3>1. Cardinality(upTo \ skipped) = Cardinality(upTo) - Cardinality(upTo \cap skipped)
      BY <2>1, FS_Difference
    <3> QED
      BY <1>2, <1>4, <1>7, <2>1, <3>1
  <2>3. page \in SUBSET eventRows
    BY <1>2, <1>7
  <2>4. n \in Nat
    BY <1>4, <1>6, <2>3, PartIsSmaller
  <2> QED
    BY <1>6, <1>7, <2>2, <2>3, <2>4
<1>9. PICK m : m = c.offset + n
  OBVIOUS
<1>10. /\ m \in Nat /\ m = Cardinality(upTo) /\ m <= Cardinality(eventRows)
       /\ n < ExportSize => upTo = eventRows
  BY <1>6, <1>7, <1>8, <1>9, ActivityNumbers, PartIsSmaller
<1>11. PICK s \in {"complete", "running"} : s = IF n < ExportSize THEN "complete" ELSE "running"
  OBVIOUS
<1>12. PICK d : d = [c EXCEPT !.offset = m, !.written = c.written \cup page,
                              !.cut = c.cut \cup cut, !.state = s]
  OBVIOUS
<1>13. /\ d \in Export /\ d.offset = m /\ d.written = c.written \cup page /\ d.state = s
       /\ d.before = c.before /\ d.cut = c.cut \cup cut
  <2>1. PICK w \in SUBSET Events : w = c.written \cup page
    BY <1>6, <1>8 DEF Export
  <2>2. PICK k \in SUBSET Ledgers : k = c.cut \cup cut
    BY <1>3, <1>6 DEF Export
  <2>3. d = [c EXCEPT !.offset = m, !.written = w, !.cut = k, !.state = s]
    BY <1>12, <2>1, <2>2
  <2>4. d \in Export /\ d.offset = m /\ d.written = w /\ d.state = s /\ d.before = c.before
        /\ d.cut = k
    BY <1>6, <1>10, <1>11, <2>3 DEF Export
  <2> QED
    BY <2>1, <2>2, <2>4
<1>14. csv' = d /\ UNCHANGED <<eventRows, selection, list, requests, newEvents>>
  <2>1. csv' = [c EXCEPT !.offset = c.offset + Cardinality(page),
                         !.written = c.written \cup page, !.cut = c.cut \cup cut,
                         !.state = IF Cardinality(page) < ExportSize
                                   THEN "complete" ELSE "running"]
    BY <1>1, <1>2, <1>3, <1>5 DEF WritePage
  <2> QED
    BY <1>4, <1>9, <1>11, <1>12, <2>1 DEF Pull
<1>15. ASSUME NEW e \in d.before \ d.written
       PROVE  /\ e \in eventRows
              /\ \/ LedgerSequence(e) \in d.cut
                 \/ e \notin upTo /\ m <= Cardinality(Above(eventRows, LedgerSequence(e)))
  <2>1. e \in eventRows /\ e \in c.before \ c.written /\ Reachable(c, e) /\ e \notin page
    BY <1>6, <1>13, <1>15
  <2> SUFFICES ASSUME LedgerSequence(e) \notin d.cut
               PROVE  e \notin upTo /\ m <= Cardinality(Above(eventRows, LedgerSequence(e)))
    BY <2>1
  <2>2. c.offset <= Cardinality(Above(eventRows, LedgerSequence(e)))
    BY <1>13, <2>1 DEF Reachable
  <2>3. Cardinality(Above(eventRows, LedgerSequence(e))) \in Nat
    <3>1. Above(eventRows, LedgerSequence(e)) \in SUBSET Events
      BY <1>6 DEF Above
    <3> QED
      BY <3>1, RowsAreFinite
  <2>4. e \notin skipped
    <3> SUFFICES ASSUME e \in skipped PROVE FALSE
      OBVIOUS
    <3>1. PICK r \in eventRows \ skipped : LedgerSequence(r) > LedgerSequence(e)
      BY <1>1, <1>5, <1>6, <1>7, <2>1, <2>2, <2>3, FirstOnes
    <3>2. LedgerSequence(e) >= LedgerSequence(r)
      BY <1>1, <3>1 DEF Firsts
    <3> QED
      BY <1>6, <2>1, <3>1, <3>2, ActivityNumbers
  <2>5. e \notin upTo
    BY <1>2, <2>1, <2>4
  <2>6. LedgerSequence(e) \notin cut /\ LedgerSequence(e) \in Ledgers
    BY <1>6, <1>13, <2>1, ActivityNumbers
  <2>7. \A r \in upTo : LedgerSequence(r) # LedgerSequence(e)
    BY <1>3, <2>1, <2>5, <2>6
  <2>8. c.offset + ExportSize \in Nat
    BY <1>6, ActivityNumbers
  <2>9. Cardinality(upTo) <= Cardinality(Above(eventRows, LedgerSequence(e)))
    BY <1>1, <1>5, <1>6, <2>1, <2>5, <2>7, <2>8, FirstOnes
  <2> QED
    BY <1>10, <2>5, <2>9
<1>16. d.state = "complete" => \A e \in d.before : e \in d.written \/ LedgerSequence(e) \in d.cut
  BY <1>10, <1>11, <1>13, <1>15
<1>17. d.state = "running" => \A e \in d.before \ d.written : Reachable(d, e)
  BY <1>13, <1>15 DEF Reachable
<1>18. ExportInv'
  BY <1>6, <1>10, <1>13, <1>14, <1>16, <1>17 DEF ExportInv, ExportComplete, Reachable
<1>19. ActivityTypeOK' /\ ListInv'
  BY <1>13, <1>14 DEF ActivityTypeOK, Export, ListInv, PageSelected
<1> QED
  BY <1>18, <1>19

(* The export begins at the first page; the new events are cleared.        *)
LEMMA StartKeepsActivity ==
    ASSUME ActivityInv, StartExport \/ ClearNewEvents
    PROVE  ActivityInv'
<1> USE DEF ActivityInv
<1>1. UNCHANGED <<eventRows, selection, list, requests>> /\ newEvents' \subseteq Events
  BY DEF StartExport, ClearNewEvents, ActivityTypeOK
<1>2. ListInv'
  BY <1>1 DEF ListInv, PageSelected
<1>3. CASE ClearNewEvents
  BY <1>1, <1>2, <1>3 DEF ClearNewEvents, ActivityTypeOK, ExportInv, ExportComplete, Reachable
<1>4. CASE StartExport
  <2>1. PICK c : c = [Idle EXCEPT !.state = "running", !.before = eventRows]
    OBVIOUS
  <2>2. /\ c \in Export /\ c.state = "running" /\ c.offset = 0 /\ c.before = eventRows
    <3>1. PICK held \in SUBSET Events : held = eventRows
      BY DEF ActivityTypeOK
    <3>2. c = [state |-> "running", offset |-> 0, written |-> {}, before |-> held, cut |-> {}]
      BY <2>1, <3>1 DEF Idle
    <3> QED
      BY <3>1, <3>2 DEF Export
  <2>3. csv' = c
    BY <1>4, <2>1 DEF StartExport
  <2>4. Cardinality(eventRows) \in Nat
    BY RowsAreFinite DEF ActivityTypeOK
  <2>5. \A e : Cardinality(Above(eventRows, LedgerSequence(e))) \in Nat
    <3>1. \A e : Above(eventRows, LedgerSequence(e)) \in SUBSET Events
      BY DEF Above, ActivityTypeOK
    <3> QED
      BY <3>1, RowsAreFinite
  <2>6. ExportInv'
    BY <1>1, <2>2, <2>3, <2>4, <2>5 DEF ExportInv, ExportComplete, Reachable
  <2> QED
    BY <1>1, <1>2, <2>2, <2>3, <2>6 DEF ActivityTypeOK, Export
<1> QED
  BY <1>3, <1>4

(* A new selection has all requests ignored but its own, and shows no page *)
(* until that is answered.                                                 *)
LEMMA SelectKeeps ==
    ASSUME ActivityInv, NEW s \in Selection, Select(s)
    PROVE  ActivityInv'
<1> USE DEF ActivityInv
<1>1. PICK q : q = [of |-> s, ignore |-> FALSE]
  OBVIOUS
<1>2. q \in [of : Selection, ignore : BOOLEAN] /\ q.of = s
  BY <1>1
<1>3. ASSUME NEW r \in requests, NEW t, t = [r EXCEPT !.ignore = TRUE]
      PROVE  t \in [of : Selection, ignore : BOOLEAN] /\ t.ignore = TRUE
  BY <1>3 DEF ActivityTypeOK
<1>4. requests' = {[r EXCEPT !.ignore = TRUE] : r \in requests} \cup {q}
  BY <1>1 DEF Select
<1>5. \A r \in requests' : /\ r \in [of : Selection, ignore : BOOLEAN]
                           /\ ~r.ignore => r.of = s
  BY <1>2, <1>3, <1>4
<1>6. /\ list' \in [state : {"page", "loading", "error"}, of : Selection]
      /\ list'.state = "loading"
  BY DEF Select, ActivityTypeOK
<1>7. UNCHANGED <<eventRows, csv, newEvents>> /\ selection' = s
  BY DEF Select
<1>8. ActivityTypeOK' /\ ListInv' /\ ExportInv'
  BY <1>5, <1>6, <1>7 DEF ActivityTypeOK, ListInv, PageSelected, ExportInv, ExportComplete,
     Reachable
<1> QED
  BY <1>8

(* The list: a page is turned, chosen anew or answered.                    *)
LEMMA ListKeeps ==
    ASSUME ActivityInv, TurnPage \/ Restart \/ \E r \in requests : AnswerList(r)
    PROVE  ActivityInv'
<1> USE DEF ActivityInv
<1>1. ASSUME NEW s \in Selection, Select(s) PROVE ActivityInv'
  BY <1>1, SelectKeeps
<1>2. CASE TurnPage
  <2>1. PICK offset \in Turned : Select([selection EXCEPT !.offset = offset])
    BY <1>2 DEF TurnPage
  <2>2. selection \in Selection /\ selection.offset \in Nat /\ selection.limit \in Nat
    BY ActivityNumbers DEF ActivityTypeOK, Selection
  <2>3. offset \in 0..MaxOffset
    BY <2>2, ActivityNumbers DEF Turned
  <2>4. [selection EXCEPT !.offset = offset] \in Selection
    BY <2>2, <2>3 DEF Selection
  <2> QED
    BY <1>1, <2>1, <2>4
<1>3. CASE Restart
  BY <1>1, <1>3 DEF Restart
<1>4. ASSUME NEW r \in requests, AnswerList(r) PROVE ActivityInv'
  <2>1. r.of \in Selection /\ UNCHANGED <<eventRows, csv, selection, newEvents>>
    BY <1>4 DEF AnswerList, ActivityTypeOK
  <2>2. requests' = requests \ {r}
    BY <1>4 DEF AnswerList
  <2>3. \/ list' = list
        \/ ~r.ignore /\ list' = [state |-> "page", of |-> r.of]
        \/ list' = [list EXCEPT !.state = "error"]
    BY <1>4 DEF AnswerList
  <2>4. list' \in [state : {"page", "loading", "error"}, of : Selection]
    BY <2>1, <2>3 DEF ActivityTypeOK
  <2>5. list'.state = "page" => list'.of = selection
    BY <2>3 DEF ActivityTypeOK, ListInv, PageSelected
  <2>6. ActivityTypeOK' /\ ListInv' /\ ExportInv'
    BY <2>1, <2>2, <2>4, <2>5 DEF ActivityTypeOK, ListInv, PageSelected, ExportInv,
       ExportComplete, Reachable
  <2> QED
    BY <2>6
<1> QED
  BY <1>2, <1>3, <1>4

(* The first state.                                                        *)
LEMMA ActivityStart == ActivityInit => ActivityInv
<1> SUFFICES ASSUME ActivityInit PROVE ActivityInv
  OBVIOUS
<1>1. Idle \in Export /\ Idle.state = "idle"
  BY ActivityNumbers DEF Idle, Export
<1> QED
  BY <1>1 DEF ActivityInit, ActivityInv, ActivityTypeOK, ExportInv, ExportComplete, ListInv,
     PageSelected, Export

(* Every step.                                                             *)
LEMMA ActivityStep == ActivityInv /\ [ActivityNext]_activityVars => ActivityInv'
<1> SUFFICES ASSUME ActivityInv, [ActivityNext]_activityVars PROVE ActivityInv'
  OBVIOUS
<1>1. CASE UNCHANGED activityVars
  BY <1>1 DEF activityVars, ActivityInv, ActivityTypeOK, ExportInv, ExportComplete, ListInv,
     PageSelected, Reachable
<1>2. CASE ActivityNext
  BY <1>2, AddKeeps, PullKeeps, StartKeepsActivity, ListKeeps DEF ActivityNext
<1> QED
  BY <1>1, <1>2

(* A complete export holds every event that was there when it began, but   *)
(* of a ledger that one of its pages ended within                          *)
(* (activity/export/route.ts, repositories/financial-events.ts).           *)
THEOREM ExportsAreComplete == ActivitySpec => []ExportComplete
<1>1. ActivityInv => ExportComplete
  BY DEF ActivityInv, ExportInv
<1> QED
  BY <1>1, ActivityStart, ActivityStep, PTL DEF ActivitySpec

(* The page on the screen is the one selected (activity-list.tsx).         *)
THEOREM SelectedPageIsShown == ActivitySpec => []PageSelected
<1>1. ActivityInv => PageSelected
  BY DEF ActivityInv, ListInv
<1> QED
  BY <1>1, ActivityStart, ActivityStep, PTL DEF ActivitySpec

-----------------------------------------------------------------------------
(***************************************************************************)
(* The client of the ledger contract.  An own write that is answered drops *)
(* the event's entry and marks the event where a request for it runs; what *)
(* is read later shows at least that write, since changes are only added.  *)

\* Readings of a key.
ReadingOf(k) == [Covered(k) -> Changes]

Loader == [id : 1..MaxLoads, key : QueryKeys, reading : SUBSET Readings]

ClientTypes ==
    /\ state \in [Ledgered -> [status : Status, changes : Changes]]
    /\ DOMAIN entries \subseteq QueryKeys
    /\ \A k \in DOMAIN entries : entries[k] \in ReadingOf(k)
    /\ DOMAIN joined \subseteq QueryKeys /\ \A k \in DOMAIN joined : joined[k] \in 1..MaxLoads
    /\ loaders \subseteq Loader
    /\ \A r \in loaders : r.reading \subseteq ReadingOf(r.key)
    /\ confirmed \in [Ledgered -> Changes]
    /\ raced \subseteq Ledgered

CallsInv == call \in [Callers -> {NoCall} \cup ClientCall]

\* A reading of an event shows its last own write.
UpToDate(reading, e) == reading[e] >= confirmed[e]

SeenInv ==
    \A e \in Ledgered :
        /\ confirmed[e] <= state[e].changes
        /\ e \notin raced =>
               /\ e \in DOMAIN entries => UpToDate(entries[e], e)
               /\ \A r \in loaders : r.key = e => \A x \in r.reading : UpToDate(x, e)

ClientInv == ClientTypes /\ CallsInv /\ SeenInv

(* The bounds are numbers, and no number of changes is beyond them.        *)
LEMMA ClientNumbers == MaxChanges \in Nat /\ MaxLoads \in Nat /\ Changes \subseteq Nat
BY ChangesAssumption DEF Changes

(* A reading of a key is a reading, and shows the key's own event.         *)
LEMMA ReadingsOfKeys ==
    /\ \A k \in QueryKeys : ReadingOf(k) \subseteq Readings
    /\ \A e \in Ledgered : \A x \in ReadingOf(e) : x[e] \in Nat
<1>1. \A e \in Ledgered : e \in Covered(e)
  BY DEF Covered
<1>2. \A e \in Ledgered : \A x \in ReadingOf(e) : x[e] \in Changes
  BY <1>1 DEF ReadingOf
<1>3. \A k \in QueryKeys : ReadingOf(k) \subseteq Readings
  BY DEF QueryKeys, ReadingOf, Readings, Covered
<1> QED
  BY <1>2, <1>3, ClientNumbers

-----------------------------------------------------------------------------
(* The writes. *)

(* A call steps on, before its transaction is included.                    *)
LEMMA CallSteps ==
    ASSUME ClientInv, NEW c \in Callers, SimulateCall(c) \/ SignCall(c)
    PROVE  ClientInv'
<1>1. PICK step \in {"sign", "sent"} : call' = [call EXCEPT ![c].step = step]
  BY DEF SimulateCall, SignCall, StepTo
<1>2. call[c] \in ClientCall
  BY DEF SimulateCall, SignCall, ClientInv, CallsInv, NoCall
<1>3. PICK new \in ClientCall : new = [call[c] EXCEPT !.step = step]
  BY <1>1, <1>2 DEF ClientCall
<1>4. CallsInv'
  BY <1>1, <1>3 DEF ClientInv, CallsInv
<1>5. UNCHANGED <<state, cacheVars, confirmed, raced>>
  BY DEF SimulateCall, SignCall
<1> QED
  BY <1>4, <1>5 DEF ClientInv, ClientTypes, SeenInv, UpToDate, cacheVars

(* A call is built, or given up.                                           *)
LEMMA CallBegins ==
    ASSUME ClientInv, NEW c \in Callers, NEW e \in Ledgered,
           NEW moves \in SUBSET (Status \X Status), BuildCall(c, e, moves)
    PROVE  ClientInv'
<1>1. PICK current \in BOOLEAN :
          call' = [call EXCEPT ![c] = [step |-> "simulate", event |-> e,
                                       moves |-> moves, current |-> current]]
  BY DEF BuildCall
<1>2. PICK new \in ClientCall : new = [step |-> "simulate", event |-> e,
                                       moves |-> moves, current |-> current]
  BY DEF ClientCall
<1>3. CallsInv'
  BY <1>1, <1>2 DEF ClientInv, CallsInv
<1>4. UNCHANGED <<state, cacheVars, confirmed, raced>>
  BY DEF BuildCall
<1> QED
  BY <1>3, <1>4 DEF ClientInv, ClientTypes, SeenInv, UpToDate, cacheVars

(* A call throws.                                                          *)
LEMMA CallGivenUp ==
    ASSUME ClientInv, NEW c \in Callers, CallThrows(c)
    PROVE  ClientInv'
<1>1. CallsInv'
  BY DEF CallThrows, ClientInv, CallsInv
<1>2. UNCHANGED <<state, cacheVars, confirmed, raced>>
  BY DEF CallThrows
<1> QED
  BY <1>1, <1>2 DEF ClientInv, ClientTypes, SeenInv, UpToDate, cacheVars

(* The moves of the five writes are changes of status.                     *)
LEMMA MovesAreChanges ==
    /\ RecordMoves \in SUBSET (Status \X Status)
    /\ VerifyMoves \in SUBSET (Status \X Status)
    /\ DisputeMoves \in SUBSET (Status \X Status)
    /\ RevokeMoves \in SUBSET (Status \X Status)
    /\ \A valid \in BOOLEAN : ResolveMoves(valid) \in SUBSET (Status \X Status)
BY DEF RecordMoves, VerifyMoves, DisputeMoves, RevokeMoves, ResolveMoves, Status

(* The other calls of the account lose the number that they carry.         *)
LEMMA OthersOutdated ==
    ASSUME CallsInv, NEW d \in Callers
    PROVE  Outdated(d) \in {NoCall} \cup ClientCall
<1>1. CASE call[d] = NoCall
  BY <1>1 DEF Outdated
<1>2. CASE call[d] # NoCall
  <2>1. PICK x \in ClientCall : x = call[d]
    BY <1>2 DEF CallsInv
  <2>2. [x EXCEPT !.current = FALSE] \in ClientCall
    BY DEF ClientCall
  <2> QED
    BY <1>2, <2>1, <2>2 DEF Outdated
<1> QED
  BY <1>1, <1>2

\* One more change of an event.
Changed(e, new) ==
    /\ state[e].changes < MaxChanges
    /\ state' = [state EXCEPT ![e] = [status |-> new, changes |-> @.changes + 1]]

(* A change adds to what the readings are compared with only from above.   *)
LEMMA ChangeKeeps ==
    ASSUME ClientTypes, SeenInv, NEW e \in Ledgered, NEW new \in Status, Changed(e, new),
           UNCHANGED <<cacheVars, confirmed, raced>>
    PROVE  ClientTypes' /\ SeenInv'
<1>1. PICK n : n = state[e].changes
  OBVIOUS
<1>2. n \in Nat /\ n + 1 \in Changes
  BY <1>1, ClientNumbers DEF Changed, ClientTypes, Changes
<1>3. PICK s \in [status : Status, changes : Changes] : s = [status |-> new, changes |-> n + 1]
  BY <1>2
<1>4. state' = [state EXCEPT ![e] = s] /\ s.changes = n + 1
  BY <1>1, <1>3 DEF Changed
<1>5. \A f \in Ledgered : state'[f].changes >= state[f].changes
                          /\ state[f].changes \in Nat /\ state'[f].changes \in Nat
  <2> SUFFICES ASSUME NEW f \in Ledgered
               PROVE  /\ state'[f].changes >= state[f].changes
                      /\ state[f].changes \in Nat /\ state'[f].changes \in Nat
    OBVIOUS
  <2>1. state[f].changes \in Nat
    BY ClientNumbers DEF ClientTypes
  <2>2. CASE f = e
    BY <1>1, <1>2, <1>4, <2>1, <2>2 DEF ClientTypes
  <2>3. CASE f # e
    BY <1>4, <2>1, <2>3 DEF ClientTypes
  <2> QED
    BY <2>2, <2>3
<1>6. \A f \in Ledgered : confirmed[f] \in Nat
  BY ClientNumbers DEF ClientTypes
<1>7. ClientTypes'
  BY <1>3, <1>4 DEF ClientTypes, cacheVars
<1>8. \A f \in Ledgered : confirmed'[f] <= state'[f].changes
  BY <1>5, <1>6 DEF SeenInv
<1> QED
  BY <1>7, <1>8 DEF SeenInv, UpToDate, cacheVars

(* The transaction of an own write is included.                            *)
LEMMA ApplyKeepsClient ==
    ASSUME ClientInv, NEW c \in Callers, ApplyCall(c)
    PROVE  ClientInv'
<1>1. PICK x \in ClientCall : x = call[c]
  BY DEF ApplyCall, ClientInv, CallsInv, NoCall
<1>2. PICK e \in Ledgered : e = call[c].event
  BY <1>1 DEF ClientCall
<1>3. PICK new \in Status : Changed(e, new)
  BY <1>2 DEF ApplyCall, Changed
<1>4. UNCHANGED <<cacheVars, confirmed, raced>>
  BY DEF ApplyCall
<1>5. [x EXCEPT !.step = "applied"] \in ClientCall
  BY DEF ClientCall
<1>6. CallsInv'
  BY <1>1, <1>5, OthersOutdated DEF ApplyCall, ClientInv, CallsInv
<1> QED
  BY <1>3, <1>4, <1>6, ChangeKeeps DEF ClientInv

(* Others change an event, or use the account.                             *)
LEMMA ElsewhereKeeps ==
    ASSUME ClientInv, Elsewhere
    PROVE  ClientInv'
<1>1. UNCHANGED <<cacheVars, confirmed, raced>>
  BY DEF Elsewhere
<1>2. CASE call' = [d \in Callers |-> Outdated(d)] /\ UNCHANGED state
  <2>1. CallsInv'
    BY <1>2, OthersOutdated DEF ClientInv, CallsInv
  <2> QED
    BY <1>1, <1>2, <2>1 DEF ClientInv, ClientTypes, SeenInv, UpToDate, cacheVars
<1>3. CASE /\ UNCHANGED call
           /\ \E e \in Ledgered, new \in Status : Changed(e, new)
  BY <1>1, <1>3, ChangeKeeps DEF ClientInv, CallsInv
<1> QED
  BY <1>2, <1>3 DEF Elsewhere, Changed

(* An own write is answered.                                               *)
LEMMA ConfirmedKeepsClient ==
    ASSUME ClientInv, NEW c \in Callers, CallConfirmed(c)
    PROVE  ClientInv'
<1>1. PICK x \in ClientCall : x = call[c]
  BY DEF CallConfirmed, ClientInv, CallsInv, NoCall
<1>2. PICK e \in Ledgered : e = call[c].event
  BY <1>1 DEF ClientCall
<1>3. /\ entries' = Without(entries, {e}) /\ UNCHANGED <<state, joined, loaders>>
      /\ raced' = raced \cup (IF \E r \in loaders : r.key = e THEN {e} ELSE {})
      /\ confirmed' = [confirmed EXCEPT ![e] = state[e].changes]
  BY <1>2 DEF CallConfirmed, invalidate
<1>4. CallsInv'
  BY DEF CallConfirmed, ClientInv, CallsInv
<1>5. PICK n \in Changes : n = state[e].changes
  BY DEF ClientInv, ClientTypes
<1>6. confirmed' = [confirmed EXCEPT ![e] = n] /\ n \in Nat
  BY <1>3, <1>5, ClientNumbers
<1>7. /\ DOMAIN entries' = DOMAIN entries \ {e}
      /\ \A k \in DOMAIN entries' : entries'[k] = entries[k]
  BY <1>3 DEF Without
<1>8. ClientTypes'
  BY <1>3, <1>6, <1>7 DEF ClientInv, ClientTypes
<1>9. ASSUME NEW f \in Ledgered
      PROVE  /\ confirmed'[f] <= state'[f].changes
             /\ f \notin raced' =>
                    /\ f \in DOMAIN entries' => entries'[f][f] >= confirmed'[f]
                    /\ \A r \in loaders' : r.key = f => \A y \in r.reading : y[f] >= confirmed'[f]
  <2>1. CASE f = e
    BY <1>3, <1>5, <1>6, <1>7, <2>1 DEF ClientInv, ClientTypes
  <2>2. CASE f # e
    <3>1. confirmed'[f] = confirmed[f] /\ (f \in raced' <=> f \in raced)
      BY <1>3, <1>6, <2>2 DEF ClientInv, ClientTypes
    <3> QED
      BY <1>3, <1>7, <3>1 DEF ClientInv, SeenInv, UpToDate
  <2> QED
    BY <2>1, <2>2
<1>10. SeenInv'
  BY <1>9 DEF SeenInv, UpToDate
<1> QED
  BY <1>4, <1>8, <1>10 DEF ClientInv

-----------------------------------------------------------------------------
(* The reads. *)

(* A request that begins has read nothing; with no other one for its key,  *)
(* nothing old can be stored for it any more.                              *)
LEMMA LoadKeeps ==
    ASSUME ClientInv, NEW k \in QueryKeys, LoadKey(k)
    PROVE  ClientInv'
<1>1. PICK id \in 1..MaxLoads :
          /\ loaders' = loaders \cup {[id |-> id, key |-> k, reading |-> {}]}
          /\ joined' = With(joined, k, id)
  BY DEF LoadKey, FreeIds
<1>2. /\ UNCHANGED <<state, entries, call, confirmed>> /\ k \notin DOMAIN entries
      /\ raced' = raced \ (IF \E r \in loaders : r.key = k THEN {} ELSE {k})
  BY DEF LoadKey
<1>3. PICK new \in Loader : new = [id |-> id, key |-> k, reading |-> {}]
  BY DEF Loader
<1>4. loaders' = loaders \cup {new} /\ new.reading = {} /\ new.key = k
  BY <1>1, <1>3
<1>5. DOMAIN joined' \subseteq QueryKeys /\ \A j \in DOMAIN joined' : joined'[j] \in 1..MaxLoads
  BY <1>1 DEF With, ClientInv, ClientTypes
<1>6. ClientTypes' /\ CallsInv'
  BY <1>2, <1>4, <1>5 DEF ClientInv, ClientTypes, CallsInv
<1>7. SeenInv'
  BY <1>2, <1>4 DEF ClientInv, SeenInv, UpToDate
<1> QED
  BY <1>6, <1>7 DEF ClientInv

(* A reading shows the event as it is, so all confirmed writes.            *)
LEMMA SimulatedKeeps ==
    ASSUME ClientInv, NEW r \in loaders, Simulated(r)
    PROVE  ClientInv'
<1>1. PICK x : x = [e \in Covered(r.key) |-> state[e].changes]
  OBVIOUS
<1>2. r \in Loader /\ r.key \in QueryKeys
  BY DEF ClientInv, ClientTypes, Loader
<1>3. Covered(r.key) \subseteq Ledgered
  BY <1>2 DEF QueryKeys, Covered
<1>4. x \in ReadingOf(r.key)
  BY <1>1, <1>3 DEF ReadingOf, ClientInv, ClientTypes
<1>5. PICK new : new = [r EXCEPT !.reading = {x}]
  OBVIOUS
<1>6. new \in Loader /\ new.key = r.key /\ new.reading = {x}
  BY <1>2, <1>4, <1>5, ReadingsOfKeys DEF Loader
<1>7. /\ loaders' = (loaders \ {r}) \cup {new}
      /\ UNCHANGED <<state, entries, joined, call, confirmed, raced>>
  BY <1>1, <1>5 DEF Simulated
<1>8. ClientTypes' /\ CallsInv'
  BY <1>4, <1>6, <1>7 DEF ClientInv, ClientTypes, CallsInv
<1>9. ASSUME NEW e \in Ledgered, r.key = e PROVE x[e] >= confirmed[e]
  <2>1. x[e] = state[e].changes
    BY <1>1, <1>9 DEF Covered
  <2>2. state[e].changes \in Nat /\ confirmed[e] \in Nat
    BY ClientNumbers DEF ClientInv, ClientTypes
  <2> QED
    BY <2>1, <2>2 DEF ClientInv, SeenInv
<1>10. SeenInv'
  BY <1>6, <1>7, <1>9 DEF ClientInv, SeenInv, UpToDate
<1> QED
  BY <1>8, <1>10 DEF ClientInv

(* A reading is stored, or the request fails.                              *)
LEMMA LoadedKeeps ==
    ASSUME ClientInv, NEW r \in loaders, Loaded(r)
    PROVE  ClientInv'
<1>1. r \in Loader /\ r.key \in QueryKeys /\ r.reading \subseteq ReadingOf(r.key)
  BY DEF ClientInv, ClientTypes, Loader
<1>2. /\ loaders' = loaders \ {r} /\ joined' = Without(joined, {r.key})
      /\ UNCHANGED <<state, call, confirmed, raced>>
  BY DEF Loaded
<1>3. DOMAIN joined' \subseteq QueryKeys /\ \A j \in DOMAIN joined' : joined'[j] \in 1..MaxLoads
  BY <1>2 DEF Without, ClientInv, ClientTypes
<1>4. /\ DOMAIN entries' \subseteq QueryKeys
      /\ \A k \in DOMAIN entries' :
             \/ k \in DOMAIN entries /\ entries'[k] = entries[k]
             \/ k = r.key /\ entries'[k] \in r.reading
  BY <1>1 DEF With, Loaded, ClientInv, ClientTypes
<1>5. ClientTypes' /\ CallsInv'
  BY <1>1, <1>2, <1>3, <1>4 DEF ClientInv, ClientTypes, CallsInv
<1>6. SeenInv'
  BY <1>2, <1>4 DEF ClientInv, SeenInv, UpToDate
<1> QED
  BY <1>5, <1>6 DEF ClientInv

(* Entries go: they expire, or the cache is cleared.                       *)
LEMMA EntriesGo ==
    ASSUME ClientInv, clear \/ \E k \in QueryKeys : ExpireKey(k)
    PROVE  ClientInv'
<1>1. UNCHANGED <<state, loaders, call, confirmed, raced>>
  BY DEF clear, ExpireKey
<1>2. /\ DOMAIN entries' \subseteq DOMAIN entries
      /\ \A k \in DOMAIN entries' : entries'[k] = entries[k]
      /\ DOMAIN joined' \subseteq DOMAIN joined
      /\ \A k \in DOMAIN joined' : joined'[k] = joined[k]
  <2>1. CASE clear
    <3>1. DOMAIN entries' = {} /\ DOMAIN joined' = {}
      BY <2>1 DEF clear
    <3> QED
      BY <3>1
  <2>2. CASE \E k \in QueryKeys : ExpireKey(k)
    BY <2>2 DEF Without, ExpireKey
  <2> QED
    BY <2>1, <2>2
<1>3. ClientTypes' /\ CallsInv'
  BY <1>1, <1>2 DEF ClientInv, ClientTypes, CallsInv
<1>4. SeenInv'
  BY <1>1, <1>2 DEF ClientInv, SeenInv, UpToDate
<1> QED
  BY <1>3, <1>4 DEF ClientInv

-----------------------------------------------------------------------------

(* The initial states.                                                     *)
LEMMA ClientInit_Inv == ClientInit => ClientInv
<1> SUFFICES ASSUME ClientInit PROVE ClientInv
  OBVIOUS
<1>1. ClientTypes
  BY ClientNumbers DEF ClientInit, ClientTypes, Changes
<1>2. CallsInv
  BY DEF ClientInit, CallsInv
<1>3. SeenInv
  BY DEF ClientInit, SeenInv
<1> QED
  BY <1>1, <1>2, <1>3 DEF ClientInv

(* Every step.                                                             *)
LEMMA ClientNext_Inv == ClientInv /\ [ClientNext]_clientVars => ClientInv'
<1> SUFFICES ASSUME ClientInv, [ClientNext]_clientVars PROVE ClientInv'
  OBVIOUS
<1>1. ASSUME NEW c \in Callers, NEW e \in Ledgered,
             \/ recordFinancialEvent(c, e) \/ verifyFinancialEvent(c, e)
             \/ disputeFinancialEvent(c, e) \/ revokeFinancialEvent(c, e)
             \/ \E valid \in BOOLEAN : resolveFinancialEvent(c, e, valid)
      PROVE  ClientInv'
  BY <1>1, CallBegins, MovesAreChanges
     DEF recordFinancialEvent, verifyFinancialEvent, disputeFinancialEvent,
         revokeFinancialEvent, resolveFinancialEvent
<1>2. ASSUME NEW c \in Callers,
             \/ SimulateCall(c) \/ SignCall(c) \/ ApplyCall(c)
             \/ CallConfirmed(c) \/ CallThrows(c)
      PROVE  ClientInv'
  BY <1>2, CallSteps, ApplyKeepsClient, ConfirmedKeepsClient, CallGivenUp
<1>3. ASSUME \/ \E e \in Ledgered : getFinancialEvent(e)
             \/ getBusinessEvents
      PROVE  ClientInv'
  BY <1>3, LoadKeeps DEF getFinancialEvent, getBusinessEvents, QueryKeys
<1>4. ASSUME NEW r \in loaders, Simulated(r) \/ Loaded(r) PROVE ClientInv'
  BY <1>4, SimulatedKeeps, LoadedKeeps
<1>5. ASSUME clear \/ Elsewhere \/ \E k \in QueryKeys : ExpireKey(k) PROVE ClientInv'
  BY <1>5, EntriesGo, ElsewhereKeeps
<1>6. CASE UNCHANGED clientVars
  BY <1>6 DEF clientVars, ClientInv, ClientTypes, CallsInv, SeenInv, UpToDate
<1> QED
  BY <1>1, <1>2, <1>3, <1>4, <1>5, <1>6 DEF ClientNext

(* The types that the client's actions keep.                               *)
LEMMA ClientInv_Types == ClientInv => ClientTypeOK
BY ReadingsOfKeys DEF ClientInv, ClientTypes, CallsInv, ClientTypeOK, Loader

(* A read of an event after the answer of an own write shows that write,   *)
(* whatever the loads, expiries and clears between them, unless a request  *)
(* for the event was under way at that answer (invalidate drops the entry, *)
(* not the request).                                                       *)
THEOREM OwnCallsAreSeen == ClientSpec => []OwnCallSeen
<1>1. ClientInv => OwnCallSeen
  BY DEF ClientInv, SeenInv, UpToDate, OwnCallSeen
<1> QED
  BY ClientInit_Inv, ClientNext_Inv, <1>1, PTL DEF ClientSpec

-----------------------------------------------------------------------------
(* The parts together.                                                     *)

OwnerInv ==
    /\ part \in {"records", "link", "session", "export", "list", "client"}
    /\ RecordInv /\ KeysInv /\ LinkInv /\ SessionInv /\ ActivityInv /\ ClientInv

(* The part whose turn it is takes a step of its own; the others rest.     *)
LEMMA OwnerStep ==
    ASSUME OwnerInv, [OwnerNext]_ownerVars
    PROVE  OwnerInv'
<1>1. /\ [RecordNext]_recordVars /\ [LinkNext]_linkVars
      /\ [SessionNext]_walletSessionVars /\ [ActivityNext]_activityVars
      /\ [ClientNext]_clientVars /\ part' = part
  BY DEF OwnerNext, ownerVars
<1>2. RecordInv' /\ KeysInv'
  BY <1>1, RecordNext_Inv, RecordNext_Keys DEF OwnerInv
<1>3. LinkInv'
  BY <1>1, LinkStep DEF OwnerInv
<1>4. SessionInv'
  BY <1>1, SessionStep DEF OwnerInv
<1>5. ActivityInv'
  BY <1>1, ActivityStep DEF OwnerInv
<1>6. ClientInv'
  BY <1>1, ClientNext_Inv DEF OwnerInv
<1> QED
  BY <1>1, <1>2, <1>3, <1>4, <1>5, <1>6 DEF OwnerInv

(* The types of the record, its cache, its requests and their keys.        *)
LEMMA RecordInv_Types == RecordInv /\ KeysInv => RecordTypeOK
BY DEF RecordInv, KeysInv, RowsInv, CacheInv, RequestInv, RequestType, RecordTypeOK, KeyRecord

(* Every part keeps its types: the routes of a business and its cached     *)
(* reads, the linked wallet, the wallet of the tab, the activity list and  *)
(* its export, and the ledger client, for every value of the constants.    *)
THEOREM OwnerTypes == OwnerSpec => []OwnerTypeOK
<1>1. OwnerInit => OwnerInv
  BY RecordInit_Inv, RecordInit_Keys, LinkStart, SessionStart, ActivityStart, ClientInit_Inv
     DEF OwnerInit, OwnerInv
<1>2. OwnerInv => OwnerTypeOK
  <2> SUFFICES ASSUME OwnerInv
               PROVE  RecordTypeOK /\ LinkTypeOK /\ SessionTypeOK /\ ActivityTypeOK /\ ClientTypeOK
    BY DEF OwnerInv, OwnerTypeOK
  <2> QED
    BY RecordInv_Types, ClientInv_Types DEF OwnerInv, LinkInv, SessionInv, ActivityInv
<1>3. OwnerInv /\ [OwnerNext]_ownerVars => OwnerInv'
  BY OwnerStep
<1> QED
  BY <1>1, <1>2, <1>3, PTL DEF OwnerSpec
=============================================================================
