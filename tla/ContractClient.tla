--------------------------- MODULE ContractClient ---------------------------
(***************************************************************************)
(* The SDK's client of the FinancialLedger contract                        *)
(* (packages/sdk/src/contracts/financial-ledger.ts) in one process: writes *)
(* that build, simulate, sign and submit one transaction, and reads that   *)
(* go through the query cache, whose clear() is modelled too               *)
(* (packages/sdk/src/cache/query-cache.ts).                                *)
(*                                                                         *)
(* The contract is reduced to the status of each event and the number of   *)
(* times it changed (FinancialLedger has the contract).  A reading is the  *)
(* number of changes that it shows, of one event or of each in a page.     *)
(* A transaction is included only while it carries the account's next      *)
(* sequence number (`current`), which it does from the start only if the   *)
(* caller read the account; new Account(address, "0") carries another one. *)
(***************************************************************************)
EXTENDS Naturals, FiniteSets

CONSTANTS
    Ledgered,       \* event ids
    Callers,        \* functions of this process that use the client
    MaxChanges,     \* bound on the changes of an event
    MaxLoads        \* bound on the requests under way

ASSUME ChangesAssumption == MaxChanges \in Nat /\ MaxLoads \in Nat

VARIABLES
    state,       \* the contract: each event's status and number of changes
    entries,     \* QueryCache.store: key -> reading, for the cached keys
    joined,      \* QueryCache.inFlight: key -> the request that it holds
    loaders,     \* loaders that run, also those that clear() forgot
    call,        \* each caller's write and how far it is
    confirmed,   \* history: changes of each event at the last own write's answer
    raced        \* history: events whose entry a running request may still replace

clientVars == <<state, entries, joined, loaders, call, confirmed, raced>>

Status == {"absent", "Pending", "Verified", "Disputed", "Revoked"}

\* The readings that are cached: get_event of an event, or a page of the
\* business's events.
Page == "get_business_events"

QueryKeys == Ledgered \cup {Page}

Changes == 0..MaxChanges

Covered(k) == IF k = Page THEN Ledgered ELSE {k}

Readings == [Ledgered -> Changes] \cup UNION {[{e} -> Changes] : e \in Ledgered}

NoCall == [step |-> "none"]

\* `moves` are the changes of status that the contract accepts for the call.
ClientCall == [step : {"simulate", "sign", "sent", "applied"}, event : Ledgered,
               moves : SUBSET (Status \X Status), current : BOOLEAN]

ClientTypeOK ==
    /\ state \in [Ledgered -> [status : Status, changes : Changes]]
    /\ DOMAIN entries \subseteq QueryKeys /\ \A k \in DOMAIN entries : entries[k] \in Readings
    /\ DOMAIN joined \subseteq QueryKeys /\ \A k \in DOMAIN joined : joined[k] \in 1..MaxLoads
    /\ loaders \subseteq [id : 1..MaxLoads, key : QueryKeys, reading : SUBSET Readings]
    /\ call \in [Callers -> {NoCall} \cup ClientCall]
    /\ confirmed \in [Ledgered -> Changes]
    /\ raced \subseteq Ledgered

\* Whatever happened to the events before the process started.
ClientInit ==
    /\ state \in [Ledgered -> [status : Status, changes : {0}]]
    /\ entries = <<>> /\ joined = <<>> /\ loaders = {}
    /\ call = [c \in Callers |-> NoCall]
    /\ confirmed = [e \in Ledgered |-> 0]
    /\ raced = {}

Without(f, keys) == [k \in DOMAIN f \ keys |-> f[k]]

With(f, key, value) == [k \in DOMAIN f \cup {key} |-> IF k = key THEN value ELSE f[k]]

StepTo(c, step) == call' = [call EXCEPT ![c].step = step]

cacheVars == <<entries, joined, loaders>>

-----------------------------------------------------------------------------
(* Writes.                                                                 *)

\* The transaction is built with the source account that the caller has: read
\* from the network (getAccount), or made of the address and "0".
BuildCall(c, e, moves) ==
    /\ call[c] = NoCall
    /\ \E current \in BOOLEAN :
           call' = [call EXCEPT ![c] = [step |-> "simulate", event |-> e,
               moves |-> moves, current |-> current]]
    /\ UNCHANGED <<state, cacheVars, confirmed, raced>>

RecordMoves == {<<"absent", "Pending">>}
VerifyMoves == {<<"Pending", "Verified">>}
DisputeMoves == {<<"Verified", "Disputed">>}
ResolveMoves(valid) == {<<"Disputed", IF valid THEN "Verified" ELSE "Revoked">>}
RevokeMoves == {"Pending", "Verified", "Disputed"} \X {"Revoked"}

recordFinancialEvent(c, e) == BuildCall(c, e, RecordMoves)

verifyFinancialEvent(c, e) == BuildCall(c, e, VerifyMoves)

disputeFinancialEvent(c, e) == BuildCall(c, e, DisputeMoves)

resolveFinancialEvent(c, e, valid) == BuildCall(c, e, ResolveMoves(valid))

revokeFinancialEvent(c, e) == BuildCall(c, e, RevokeMoves)

\* The contract accepts the call now: the new status is determined.
Accepts(c, new) == <<state[call[c].event].status, new>> \in call[c].moves

\* simulateAndPrepare; the simulation does not look at the sequence number.
SimulateCall(c) ==
    /\ call[c].step = "simulate"
    /\ \E new \in Status : Accepts(c, new)
    /\ StepTo(c, "sign")
    /\ UNCHANGED <<state, cacheVars, confirmed, raced>>

\* signTransactionWithFreighter and submitAndWait's sendTransaction.
SignCall(c) ==
    /\ call[c].step = "sign"
    /\ StepTo(c, "sent")
    /\ UNCHANGED <<state, cacheVars, confirmed, raced>>

\* A transaction of the account uses up the number that others carry.
Outdated(d) == IF call[d] = NoCall THEN NoCall ELSE [call[d] EXCEPT !.current = FALSE]

\* The transaction is included.
ApplyCall(c) ==
    /\ call[c].step = "sent" /\ call[c].current
    /\ state[call[c].event].changes < MaxChanges
    /\ \E new \in Status :
        /\ Accepts(c, new)
        /\ state' = [state EXCEPT ![call[c].event] =
               [status |-> new, changes |-> @.changes + 1]]
    /\ call' = [d \in Callers |->
           IF d = c THEN [call[c] EXCEPT !.step = "applied"] ELSE Outdated(d)]
    /\ UNCHANGED <<cacheVars, confirmed, raced>>

\* Mutant: the page's key is invalidated instead of the event's.
InvalidateEvent(e) == entries' = Without(entries, {Page})

\* defaultQueryCache.invalidate: the event's own key, not the pages.
invalidate(e) == entries' = Without(entries, {e})

\* submitAndWait returns a success.
CallConfirmed(c) ==
    LET e == call[c].event
    IN  /\ call[c].step = "applied"
        /\ invalidate(e)
        /\ confirmed' = [confirmed EXCEPT ![e] = state[e].changes]
        /\ raced' = raced \cup (IF \E r \in loaders : r.key = e THEN {e} ELSE {})
        /\ call' = [call EXCEPT ![c] = NoCall]
        /\ UNCHANGED <<state, joined, loaders>>

\* Any step throws, the last one also when the transaction is applied: no key
\* is invalidated.
CallThrows(c) ==
    /\ call[c] # NoCall
    /\ call' = [call EXCEPT ![c] = NoCall]
    /\ UNCHANGED <<state, cacheVars, confirmed, raced>>

\* Another client of the contract, and the account's other transactions.
Elsewhere ==
    /\ \/ /\ call' = [d \in Callers |-> Outdated(d)]
          /\ UNCHANGED state
       \/ /\ \E e \in Ledgered, new \in Status :
              /\ state[e].changes < MaxChanges
              /\ <<state[e].status, new>> \in RecordMoves \cup VerifyMoves
                    \cup DisputeMoves \cup ResolveMoves(TRUE) \cup RevokeMoves
              /\ state' = [state EXCEPT ![e] = [status |-> new, changes |-> @.changes + 1]]
          /\ UNCHANGED call
    /\ UNCHANGED <<cacheVars, confirmed, raced>>

-----------------------------------------------------------------------------
(* Reads.                                                                  *)

FreeIds == (1..MaxLoads) \ ({r.id : r \in loaders})

\* A miss that joins no request calls the loader.
LoadKey(k) ==
    /\ k \notin DOMAIN entries \cup DOMAIN joined
    /\ \E id \in FreeIds :
        /\ loaders' = loaders \cup {[id |-> id, key |-> k, reading |-> {}]}
        /\ joined' = With(joined, k, id)
    /\ raced' = raced \ (IF \E r \in loaders : r.key = k THEN {} ELSE {k})
    /\ UNCHANGED <<state, entries, call, confirmed>>

getFinancialEvent(e) == LoadKey(e)

getBusinessEvents == LoadKey(Page)

\* The server simulates the call on the ledger as it is.
Simulated(r) ==
    /\ r.reading = {}
    /\ loaders' = (loaders \ {r}) \cup {[r EXCEPT !.reading =
           {[e \in Covered(r.key) |-> state[e].changes]}]}
    /\ UNCHANGED <<state, entries, joined, call, confirmed, raced>>

\* then and finally: the reading is stored, and whichever request inFlight
\* holds for the key is forgotten.  Or the loader throws: finally alone.
Loaded(r) ==
    /\ \/ \E reading \in r.reading : entries' = With(entries, r.key, reading)
       \/ UNCHANGED entries
    /\ joined' = Without(joined, {r.key})
    /\ loaders' = loaders \ {r}
    /\ UNCHANGED <<state, call, confirmed, raced>>

\* The entry's time is up.
ExpireKey(k) ==
    /\ k \in DOMAIN entries
    /\ entries' = Without(entries, {k})
    /\ UNCHANGED <<state, joined, loaders, call, confirmed, raced>>

\* clearQueryCache: the requests run on.
clear ==
    /\ entries' = <<>> /\ joined' = <<>>
    /\ UNCHANGED <<state, loaders, call, confirmed, raced>>

ClientNext ==
    \/ \E c \in Callers :
        \/ \E e \in Ledgered :
            \/ recordFinancialEvent(c, e) \/ verifyFinancialEvent(c, e)
            \/ disputeFinancialEvent(c, e) \/ revokeFinancialEvent(c, e)
            \/ \E valid \in BOOLEAN : resolveFinancialEvent(c, e, valid)
        \/ SimulateCall(c) \/ SignCall(c) \/ ApplyCall(c)
        \/ CallConfirmed(c) \/ CallThrows(c)
    \/ \E e \in Ledgered : getFinancialEvent(e)
    \/ getBusinessEvents
    \/ \E r \in loaders : Simulated(r) \/ Loaded(r)
    \/ \E k \in QueryKeys : ExpireKey(k)
    \/ clear \/ Elsewhere

ClientSpec == ClientInit /\ [][ClientNext]_clientVars

-----------------------------------------------------------------------------
(* A cached event is never older than the last own write of it that was    *)
(* answered, unless a request for it was under way at that moment, also    *)
(* when clear() forgot that request and another one overtook it.           *)
OwnCallSeen ==
    \A e \in Ledgered :
        e \in DOMAIN entries /\ e \notin raced => entries[e][e] >= confirmed[e]

(* packages/sdk/README.md: the write functions invalidate "the cache       *)
(* entries their contract method affects", so that "a read immediately     *)
(* after a write does not see a stale value".                              *)
PagesAfterWrite ==
    Page \in DOMAIN entries =>
        \A e \in Ledgered : entries[Page][e] >= confirmed[e]
=============================================================================
