--------------------------- MODULE FinancialLedger ---------------------------
(***************************************************************************)
(* The FinancialLedger Soroban contract                                    *)
(* (contracts/financial_ledger/src/lib.rs and storage.rs).                 *)
(*                                                                         *)
(* Each entry point is one action (a contract call runs to its end or      *)
(* changes nothing); `signer` is the address whose require_auth()          *)
(* succeeds.  An event lives under its id; a second storage key holds, per *)
(* business, the ids of its events in the order they were recorded.        *)
(* Asset, reference and metadata hashes of an event are never read again   *)
(* and are left out of the stored record.                                  *)
(***************************************************************************)
EXTENDS Integers, Sequences

CONSTANTS
    EventIds, BusinessIds, Addresses, Assets,
    Amounts,        \* amounts offered to record_event (i128, any sign)
    PaymentTypes,   \* PaymentReceived, PaymentSent
    ContextTypes,   \* InvoiceSettled, CommitmentFulfilled
    MaxPageLimit,   \* MAX_PAGE_LIMIT
    MaxSequence,    \* bound: last ledger sequence number explored
    None

EventType == PaymentTypes \cup ContextTypes

Status == {"Pending", "Verified", "Disputed", "Revoked"}

FinancialEvent == [id : EventIds, business_id : BusinessIds,
                   event_type : EventType, amount : Amounts,
                   status : Status, created_at : 0..MaxSequence]

ASSUME LedgerAssumption ==
    /\ None \notin FinancialEvent /\ None \notin Addresses
    /\ Amounts \subseteq Int
    /\ MaxPageLimit \in Nat /\ MaxSequence \in Nat

VARIABLES
    admin, recorder, resolver,  \* authorities (instance storage)
    supported,                  \* DataKey::SupportedAsset(asset)
    event,                      \* DataKey::Event(id)
    businessEvents,             \* DataKey::BusinessEvents(business_id)
    sequence                    \* env.ledger().sequence()

authorities == <<admin, recorder, resolver>>
vars == <<authorities, supported, event, businessEvents, sequence>>

TypeOK ==
    /\ admin \in Addresses \cup {None}
    /\ recorder \in Addresses \cup {None}
    /\ resolver \in Addresses \cup {None}
    /\ supported \in [Assets -> BOOLEAN]
    /\ event \in [EventIds -> FinancialEvent \cup {None}]
    /\ businessEvents \in [BusinessIds -> Seq(EventIds)]
    /\ sequence \in 0..MaxSequence

Recorded(e) == event[e] # None

HasStatus(e, s) == Recorded(e) /\ event[e].status = s

-----------------------------------------------------------------------------
Init ==
    /\ admin = None /\ recorder = None /\ resolver = None
    /\ supported = [a \in Assets |-> FALSE]
    /\ event = [e \in EventIds |-> None]
    /\ businessEvents = [b \in BusinessIds |-> <<>>]
    /\ sequence = 0

Initialize(signer, rec, res) ==
    /\ admin = None
    /\ admin' = signer /\ recorder' = rec /\ resolver' = res
    /\ UNCHANGED <<supported, event, businessEvents, sequence>>

AddSupportedAsset(signer, a) ==
    /\ signer = admin
    /\ ~supported[a]                            \* AlreadyExists
    /\ supported' = [supported EXCEPT ![a] = TRUE]
    /\ UNCHANGED <<authorities, event, businessEvents, sequence>>

RemoveSupportedAsset(signer, a) ==
    /\ signer = admin
    /\ supported[a]                             \* NotFound
    /\ supported' = [supported EXCEPT ![a] = FALSE]
    /\ UNCHANGED <<authorities, event, businessEvents, sequence>>

AppendBusinessEvent(b, e) ==
    businessEvents' = [businessEvents EXCEPT ![b] = Append(@, e)]

\* Mutant: the DuplicateEvent check is forgotten.
MayRecordAgain(e, type, a, amount) ==
    amount > 0 /\ (type \in PaymentTypes => supported[a])

MayRecord(e, type, a, amount) ==
    /\ ~Recorded(e)                             \* DuplicateEvent
    /\ amount > 0                               \* InvalidAmount
    /\ type \in PaymentTypes => supported[a]    \* UnsupportedAsset

\* The InvalidReference check rejects the call whatever the state is; calls
\* it rejects are not among the inputs.
RecordEvent(signer, e, b, type, a, amount) ==
    /\ signer = recorder
    /\ MayRecord(e, type, a, amount)
    /\ event' = [event EXCEPT ![e] =
           [id |-> e, business_id |-> b, event_type |-> type, amount |-> amount,
            status |-> "Pending", created_at |-> sequence]]
    /\ AppendBusinessEvent(b, e)
    /\ UNCHANGED <<authorities, supported, sequence>>

SetStatus(e, s) ==
    /\ event' = [event EXCEPT ![e].status = s]
    /\ UNCHANGED <<authorities, supported, businessEvents, sequence>>

\* Mutant: the status of the event is not looked at.
VerifyAnyEvent(signer, e) ==
    signer = recorder /\ Recorded(e) /\ SetStatus(e, "Verified")

VerifyEvent(signer, e) ==
    /\ signer = recorder
    /\ HasStatus(e, "Pending")                  \* NotFound, InvalidState
    /\ SetStatus(e, "Verified")

\* `business_owner` is an argument of the call: whoever signs is taken for it.
DisputeEvent(business_owner, e) ==
    /\ business_owner \in Addresses
    /\ HasStatus(e, "Verified")                 \* NotFound, DisputeNotAllowed
    /\ SetStatus(e, "Disputed")

ResolveDispute(signer, e, valid) ==
    /\ signer = resolver
    /\ HasStatus(e, "Disputed")                 \* NotFound, ResolutionNotAllowed
    /\ SetStatus(e, IF valid THEN "Verified" ELSE "Revoked")

RevokeEvent(signer, e) ==
    /\ signer = resolver
    /\ Recorded(e) /\ ~HasStatus(e, "Revoked")  \* NotFound, InvalidState
    /\ SetStatus(e, "Revoked")

\* The network closes a ledger (MaxSequence bounds the exploration).
CloseLedger ==
    /\ sequence < MaxSequence
    /\ sequence' = sequence + 1
    /\ UNCHANGED <<authorities, supported, event, businessEvents>>

AtMost(n, bound) == IF n <= bound THEN n ELSE bound

\* Mutant: the cap is forgotten.
UncappedPageEnd(start, limit, total) == AtMost(start + limit, total)

\* Mutant: the end of the page is taken for an index, one too few.
ShortPageEnd(start, limit, total) ==
    AtMost(start + AtMost(limit, MaxPageLimit) - 1, total)

PageEnd(start, limit, total) ==
    AtMost(start + AtMost(limit, MaxPageLimit), total)

\* get_business_events: from start to end, each id whose record is there is
\* pushed to the result.
GetBusinessEvents(b, offset, limit) ==
    LET ids   == businessEvents[b]
        start == AtMost(offset, Len(ids))
        end   == PageEnd(start, limit, Len(ids))
        result[i \in start..end] ==
            IF i = start THEN <<>>
            ELSE IF Recorded(ids[i]) THEN Append(result[i - 1], event[ids[i]])
                 ELSE result[i - 1]
    IN  result[end]

Next ==
    \/ \E signer \in Addresses :
        \/ \E rec, res \in Addresses : Initialize(signer, rec, res)
        \/ \E a \in Assets : AddSupportedAsset(signer, a)
        \/ \E a \in Assets : RemoveSupportedAsset(signer, a)
        \/ \E e \in EventIds, b \in BusinessIds, type \in EventType,
              a \in Assets, amount \in Amounts :
               RecordEvent(signer, e, b, type, a, amount)
        \/ \E e \in EventIds : VerifyEvent(signer, e)
        \/ \E e \in EventIds : DisputeEvent(signer, e)
        \/ \E e \in EventIds, valid \in BOOLEAN : ResolveDispute(signer, e, valid)
        \/ \E e \in EventIds : RevokeEvent(signer, e)
    \/ CloseLedger

Spec == Init /\ [][Next]_vars

-----------------------------------------------------------------------------
(* Every id in a business's list leads to an event of that business, and   *)
(* every recorded event is in the list of its business.                    *)
ListedIsRecorded ==
    \A b \in BusinessIds : \A k \in 1..Len(businessEvents[b]) :
        /\ Recorded(businessEvents[b][k])
        /\ event[businessEvents[b][k]].business_id = b

RecordedIsListed ==
    \A e \in EventIds :
        Recorded(e) =>
            /\ event[e].id = e
            /\ \E k \in 1..Len(businessEvents[event[e].business_id]) :
                   businessEvents[event[e].business_id][k] = e

(* No event is listed twice.                                               *)
ListedOnce ==
    \A b \in BusinessIds : \A j, k \in 1..Len(businessEvents[b]) :
        businessEvents[b][j] = businessEvents[b][k] => j = k

(* A list is in the order of the ledgers in which its events were created, *)
(* as get_business_events documents.                                       *)
Chronological ==
    /\ \A e \in EventIds : Recorded(e) => event[e].created_at <= sequence
    /\ \A b \in BusinessIds : \A j, k \in 1..Len(businessEvents[b]) :
           j <= k => event[businessEvents[b][j]].created_at
                        <= event[businessEvents[b][k]].created_at

(* The table of events and the lists of ids describe the same history: no  *)
(* event is lost, listed twice, filed under another business or listed out *)
(* of order, whatever calls came before.                                   *)
ListsMatchEvents ==
    ListedIsRecorded /\ RecordedIsListed /\ ListedOnce /\ Chronological

(* A reader that asks for page after page, with any limit, also one above   *)
(* the cap, meets every event of a business once: the record at place r of *)
(* page p is the event number p * size + r of the history and no other,    *)
(* size being the limit or the cap; every event has its place on a page;   *)
(* and no page holds more.                                                 *)
PagesTile ==
    \A b \in BusinessIds, limit \in 1..(2 * MaxPageLimit) :
        LET ids     == businessEvents[b]
            total   == Len(ids)
            size    == AtMost(limit, MaxPageLimit)
            page(p) == GetBusinessEvents(b, p * size, limit)
        IN  \A p \in 0..total :
                /\ Len(page(p)) <= size
                /\ \A r \in 1..Len(page(p)) :
                       /\ p * size + r \in 1..total
                       /\ \A k \in 1..total :
                              page(p)[r] = event[ids[k]] <=> k = p * size + r
                /\ \A r \in 1..size : p * size + r <= total => r <= Len(page(p))

-----------------------------------------------------------------------------
\* The journal of each business: its list of ids with the records filled in.
Journals ==
    [b \in BusinessIds |->
        [k \in 1..Len(businessEvents[b]) |-> event[businessEvents[b][k]]]]

Journal == INSTANCE EventJournal
    WITH Entries <- FinancialEvent, journal <- Journals

(* The two storage keys together behave like one append-only journal per   *)
(* business in which only a status moves, and only along the lifecycle.    *)
ImplementsJournal == Journal!Spec
=============================================================================
