------------------------ MODULE FinancialLedgerProofs ------------------------
(***************************************************************************)
(* Proofs about the financial ledger, for any sets of ids, businesses,     *)
(* addresses, assets and amounts.  The argument: the list of a business    *)
(* and the table of events change together, in record_event alone; every   *)
(* other call keeps the lists and the id, business and creation ledger of  *)
(* every event (KeepsRecords).  So every id a page goes through has its    *)
(* record, and the page is a stretch of the list filled in.                *)
(***************************************************************************)
EXTENDS FinancialLedger, SequenceTheorems, WellFoundedInduction, TLAPS

(* What a call that only moves a status, or touches no event, leaves be.   *)
KeepsRecords ==
    /\ businessEvents' = businessEvents
    /\ sequence' \in Nat /\ sequence <= sequence'
    /\ \A e \in EventIds :
           /\ Recorded(e)' <=> Recorded(e)
           /\ Recorded(e) => /\ event'[e].id = event[e].id
                             /\ event'[e].business_id = event[e].business_id
                             /\ event'[e].created_at = event[e].created_at

(* Replacing the status of a recorded event gives an event again.          *)
LEMMA StatusUpdate ==
    ASSUME TypeOK, NEW e \in EventIds, NEW s \in Status, Recorded(e), SetStatus(e, s)
    PROVE  /\ event' \in [EventIds -> FinancialEvent \cup {None}]
           /\ KeepsRecords
           /\ \A f \in EventIds \ {e} : event'[f] = event[f]
           /\ event'[e] = [event[e] EXCEPT !.status = s]
<1>1. event[e] \in FinancialEvent
  BY DEF TypeOK, Recorded
<1>2. /\ event' = [event EXCEPT ![e].status = s]
      /\ UNCHANGED <<businessEvents, sequence>>
  BY DEF SetStatus
<1>3. event'[e] = [event[e] EXCEPT !.status = s]
  BY <1>2 DEF TypeOK
<1>4. \A f \in EventIds \ {e} : event'[f] = event[f]
  BY <1>2 DEF TypeOK
<1>5. /\ event'[e] \in FinancialEvent
      /\ event'[e].id = event[e].id
      /\ event'[e].business_id = event[e].business_id
      /\ event'[e].created_at = event[e].created_at
  BY <1>1, <1>3 DEF FinancialEvent
<1>6. event' \in [EventIds -> FinancialEvent \cup {None}]
  BY <1>2, <1>4, <1>5 DEF TypeOK
<1>7. KeepsRecords
  <2>1. \A f \in EventIds : Recorded(f)' <=> Recorded(f)
    BY <1>1, <1>4, <1>5, LedgerAssumption DEF Recorded
  <2>2. \A f \in EventIds : /\ event'[f].id = event[f].id
                            /\ event'[f].business_id = event[f].business_id
                            /\ event'[f].created_at = event[f].created_at
    BY <1>4, <1>5
  <2> QED
    BY <1>2, <2>1, <2>2, LedgerAssumption DEF KeepsRecords, TypeOK
<1> QED
  BY <1>3, <1>4, <1>6, <1>7

(* A recorded event and its place in the list of its business.             *)
LEMMA RecordUpdate ==
    ASSUME TypeOK, NEW signer \in Addresses, NEW e \in EventIds,
           NEW b \in BusinessIds, NEW type \in EventType, NEW a \in Assets,
           NEW amount \in Amounts, RecordEvent(signer, e, b, type, a, amount)
    PROVE  /\ ~Recorded(e)
           /\ event'[e] \in FinancialEvent
           /\ event'[e].id = e
           /\ event'[e].business_id = b
           /\ event'[e].status = "Pending"
           /\ event'[e].created_at = sequence
           /\ event' = [event EXCEPT ![e] = event'[e]]
           /\ businessEvents' = [businessEvents EXCEPT ![b] = Append(@, e)]
           /\ UNCHANGED <<authorities, supported, sequence>>
<1> DEFINE new == [id |-> e, business_id |-> b, event_type |-> type,
                   amount |-> amount, status |-> "Pending", created_at |-> sequence]
<1>1. /\ event' = [event EXCEPT ![e] = new]
      /\ businessEvents' = [businessEvents EXCEPT ![b] = Append(@, e)]
      /\ ~Recorded(e)
      /\ UNCHANGED <<authorities, supported, sequence>>
  BY DEF RecordEvent, MayRecord, AppendBusinessEvent
<1>2. event'[e] = new
  BY <1>1 DEF TypeOK
<1>3. new \in FinancialEvent
  BY DEF FinancialEvent, TypeOK, Status
<1>4. /\ new.id = e /\ new.business_id = b
      /\ new.status = "Pending" /\ new.created_at = sequence
  OBVIOUS
<1> HIDE DEF new
<1> QED
  BY <1>1, <1>2, <1>3, <1>4

(* The statuses an event moves between, call by call.                      *)
Moves(e, s) ==
    /\ Recorded(e)
    /\ SetStatus(e, s)
    /\ <<event[e].status, s>> \in Journal!Lifecycle

(* Every step records an event, moves one along the lifecycle, or leaves   *)
(* events and lists alone.                                                 *)
LEMMA StepShape ==
    ASSUME TypeOK, [Next]_vars
    PROVE  \/ \E signer \in Addresses, e \in EventIds, b \in BusinessIds,
                 type \in EventType, a \in Assets, amount \in Amounts :
                  RecordEvent(signer, e, b, type, a, amount)
           \/ \E e \in EventIds, s \in {"Verified", "Disputed", "Revoked"} : Moves(e, s)
           \/ /\ UNCHANGED <<event, businessEvents>>
              /\ sequence' \in 0..MaxSequence /\ sequence <= sequence'
              /\ \/ UNCHANGED <<authorities, supported>>
                 \/ \E signer, rec, res \in Addresses : Initialize(signer, rec, res)
                 \/ \E signer \in Addresses, a \in Assets :
                        AddSupportedAsset(signer, a) \/ RemoveSupportedAsset(signer, a)
<1> DEFINE MoveStep == \E e \in EventIds, s \in {"Verified", "Disputed", "Revoked"} : Moves(e, s)
           Rest == /\ UNCHANGED <<event, businessEvents>>
                   /\ sequence' \in 0..MaxSequence /\ sequence <= sequence'
<1>1. ASSUME NEW signer \in Addresses, NEW e \in EventIds, VerifyEvent(signer, e)
      PROVE  MoveStep
  BY <1>1 DEF VerifyEvent, HasStatus, Moves, Journal!Lifecycle
<1>2. ASSUME NEW signer \in Addresses, NEW e \in EventIds, DisputeEvent(signer, e)
      PROVE  MoveStep
  BY <1>2 DEF DisputeEvent, HasStatus, Moves, Journal!Lifecycle
<1>3. ASSUME NEW signer \in Addresses, NEW e \in EventIds, NEW valid \in BOOLEAN,
             ResolveDispute(signer, e, valid)
      PROVE  MoveStep
  <2>1. CASE valid
    BY <1>3, <2>1 DEF ResolveDispute, HasStatus, Moves, Journal!Lifecycle
  <2>2. CASE ~valid
    BY <1>3, <2>2 DEF ResolveDispute, HasStatus, Moves, Journal!Lifecycle
  <2> QED
    BY <2>1, <2>2
<1>4. ASSUME NEW signer \in Addresses, NEW e \in EventIds, RevokeEvent(signer, e)
      PROVE  MoveStep
  <2>1. event[e].status \in {"Pending", "Verified", "Disputed"}
    BY <1>4 DEF RevokeEvent, HasStatus, Recorded, TypeOK, FinancialEvent, Status
  <2> QED
    BY <1>4, <2>1 DEF RevokeEvent, Moves, Journal!Lifecycle
<1>5. ASSUME NEW signer \in Addresses, NEW rec \in Addresses, NEW res \in Addresses,
             Initialize(signer, rec, res)
      PROVE  Rest
  BY <1>5 DEF Initialize, TypeOK
<1>6. ASSUME NEW signer \in Addresses, NEW a \in Assets,
             AddSupportedAsset(signer, a) \/ RemoveSupportedAsset(signer, a)
      PROVE  Rest
  BY <1>6 DEF AddSupportedAsset, RemoveSupportedAsset, TypeOK
<1>7. ASSUME CloseLedger
      PROVE  Rest /\ UNCHANGED <<authorities, supported>>
  BY <1>7, LedgerAssumption DEF CloseLedger, TypeOK
<1>8. ASSUME UNCHANGED vars
      PROVE  Rest /\ UNCHANGED <<authorities, supported>>
  BY <1>8 DEF vars, TypeOK
<1> QED
  BY <1>1, <1>2, <1>3, <1>4, <1>5, <1>6, <1>7, <1>8 DEF Next

(* The storage keeps its types: lists hold event ids, records are complete *)
(* and the ledger number stays in the explored range.                      *)
THEOREM TypeCorrect == Spec => []TypeOK
<1>1. Init => TypeOK
  BY LedgerAssumption DEF Init, TypeOK
<1>2. TypeOK /\ [Next]_vars => TypeOK'
  <2> SUFFICES ASSUME TypeOK, [Next]_vars
               PROVE  TypeOK'
    OBVIOUS
  <2>1. ASSUME NEW signer \in Addresses, NEW e \in EventIds, NEW b \in BusinessIds,
               NEW type \in EventType, NEW a \in Assets, NEW amount \in Amounts,
               RecordEvent(signer, e, b, type, a, amount)
        PROVE  TypeOK'
    <3>1. /\ event'[e] \in FinancialEvent
          /\ event' = [event EXCEPT ![e] = event'[e]]
          /\ businessEvents' = [businessEvents EXCEPT ![b] = Append(@, e)]
          /\ UNCHANGED <<authorities, supported, sequence>>
      BY <2>1, RecordUpdate
    <3>2. event' \in [EventIds -> FinancialEvent \cup {None}]
      BY <3>1 DEF TypeOK
    <3>3. businessEvents' \in [BusinessIds -> Seq(EventIds)]
      BY <3>1 DEF TypeOK
    <3> QED
      BY <3>1, <3>2, <3>3 DEF TypeOK, authorities
  <2>2. ASSUME NEW e \in EventIds, NEW s \in {"Verified", "Disputed", "Revoked"},
               Moves(e, s)
        PROVE  TypeOK'
    <3>1. event' \in [EventIds -> FinancialEvent \cup {None}]
      BY <2>2, StatusUpdate DEF Moves, Status
    <3> QED
      BY <2>2, <3>1 DEF Moves, SetStatus, TypeOK, authorities
  <2>3. ASSUME UNCHANGED <<event, businessEvents>>, sequence' \in 0..MaxSequence,
               \/ UNCHANGED <<authorities, supported>>
               \/ \E signer, rec, res \in Addresses : Initialize(signer, rec, res)
               \/ \E signer \in Addresses, a \in Assets :
                      AddSupportedAsset(signer, a) \/ RemoveSupportedAsset(signer, a)
        PROVE  TypeOK'
    <3>1. CASE UNCHANGED <<authorities, supported>>
      BY <2>3, <3>1 DEF TypeOK, authorities
    <3>2. CASE \E signer, rec, res \in Addresses : Initialize(signer, rec, res)
      BY <2>3, <3>2 DEF TypeOK, Initialize
    <3>3. CASE \E signer \in Addresses, a \in Assets :
                   AddSupportedAsset(signer, a) \/ RemoveSupportedAsset(signer, a)
      BY <2>3, <3>3 DEF TypeOK, AddSupportedAsset, RemoveSupportedAsset, authorities
    <3> QED
      BY <2>3, <3>1, <3>2, <3>3
  <2> QED
    BY <2>1, <2>2, <2>3, StepShape
<1> QED
  BY <1>1, <1>2, PTL DEF Spec

(* Recording an event extends the list of its business by that event, and  *)
(* leaves every other list and every other event alone.                    *)
LEMMA RecordLists ==
    ASSUME TypeOK, NEW signer \in Addresses, NEW e \in EventIds,
           NEW b \in BusinessIds, NEW type \in EventType, NEW a \in Assets,
           NEW amount \in Amounts, RecordEvent(signer, e, b, type, a, amount)
    PROVE  /\ Len(businessEvents'[b]) = Len(businessEvents[b]) + 1
           /\ businessEvents'[b][Len(businessEvents[b]) + 1] = e
           /\ \A k \in 1..Len(businessEvents[b]) :
                  businessEvents'[b][k] = businessEvents[b][k]
           /\ \A c \in BusinessIds \ {b} : businessEvents'[c] = businessEvents[c]
           /\ \A f \in EventIds \ {e} : event'[f] = event[f]
           /\ \A c \in BusinessIds : Len(businessEvents[c]) \in Nat
           /\ \A c \in BusinessIds : \A k \in 1..Len(businessEvents[c]) :
                  businessEvents[c][k] \in EventIds
           /\ Recorded(e)'
<1>1. /\ businessEvents' = [businessEvents EXCEPT ![b] = Append(@, e)]
      /\ event' = [event EXCEPT ![e] = event'[e]]
      /\ event'[e] \in FinancialEvent
  BY RecordUpdate
<1>2. \A c \in BusinessIds : businessEvents[c] \in Seq(EventIds)
  BY DEF TypeOK
<1>3. businessEvents'[b] = Append(businessEvents[b], e)
  BY <1>1 DEF TypeOK
<1>4. \A c \in BusinessIds \ {b} : businessEvents'[c] = businessEvents[c]
  BY <1>1 DEF TypeOK
<1>5. \A f \in EventIds \ {e} : event'[f] = event[f]
  BY <1>1 DEF TypeOK
<1>6. /\ Len(businessEvents'[b]) = Len(businessEvents[b]) + 1
      /\ businessEvents'[b][Len(businessEvents[b]) + 1] = e
      /\ \A k \in 1..Len(businessEvents[b]) :
             businessEvents'[b][k] = businessEvents[b][k]
  BY <1>2, <1>3
<1>7. /\ \A c \in BusinessIds : Len(businessEvents[c]) \in Nat
      /\ \A c \in BusinessIds : \A k \in 1..Len(businessEvents[c]) :
             businessEvents[c][k] \in EventIds
  BY <1>2
<1>8. Recorded(e)'
  BY <1>1, LedgerAssumption DEF Recorded
<1> QED
  BY <1>4, <1>5, <1>6, <1>7, <1>8

(* Append, entry by entry.                                                 *)
LEMMA AppendAsFunction ==
    ASSUME NEW S, NEW row \in Seq(S), NEW new \in S
    PROVE  Append(row, new) =
               [k \in 1..(Len(row) + 1) |-> IF k = Len(row) + 1 THEN new ELSE row[k]]
<1> DEFINE n == Len(row)
<1>1. n \in Nat /\ row \in [1..n -> S]
  OBVIOUS
<1>2. /\ Append(row, new) \in [1..(n + 1) -> S]
      /\ Append(row, new)[n + 1] = new
      /\ \A k \in 1..n : Append(row, new)[k] = row[k]
  <2>1. /\ Append(row, new) \in Seq(S) /\ Len(Append(row, new)) = n + 1
        /\ Append(row, new)[n + 1] = new
        /\ \A k \in 1..n : Append(row, new)[k] = row[k]
    BY AppendProperties
  <2>2. Append(row, new) \in [1..Len(Append(row, new)) -> S]
    BY <2>1, LenProperties, Zenon
  <2> QED
    BY <2>1, <2>2
<1> HIDE DEF n
<1>3. \A k \in 1..(n + 1) : k = n + 1 \/ k \in 1..n
  BY <1>1
<1>4. \A k \in 1..n : k # n + 1
  BY <1>1
<1>5. \A k \in 1..(n + 1) : Append(row, new)[k] = IF k = n + 1 THEN new ELSE row[k]
  BY <1>2, <1>3, <1>4
<1> QED
  BY <1>2, <1>5 DEF n

(* What one call does to the lists.                                        *)
LEMMA ListStep == TypeOK /\ ListsMatchEvents /\ [Next]_vars => ListsMatchEvents'
<1> SUFFICES ASSUME TypeOK, ListsMatchEvents, [Next]_vars
             PROVE  ListsMatchEvents'
  OBVIOUS
<1> USE DEF ListsMatchEvents
<1>1. ASSUME NEW signer \in Addresses, NEW e \in EventIds, NEW b \in BusinessIds,
             NEW type \in EventType, NEW a \in Assets, NEW amount \in Amounts,
             RecordEvent(signer, e, b, type, a, amount)
      PROVE  ListsMatchEvents'
  <2> DEFINE n == Len(businessEvents[b])
  <2>1. /\ ~Recorded(e) /\ event'[e].id = e /\ event'[e].business_id = b
        /\ event'[e].created_at = sequence /\ sequence' = sequence
    BY <1>1, RecordUpdate
  <2>2. /\ Len(businessEvents'[b]) = n + 1 /\ businessEvents'[b][n + 1] = e
        /\ \A k \in 1..n : businessEvents'[b][k] = businessEvents[b][k]
        /\ \A c \in BusinessIds \ {b} : businessEvents'[c] = businessEvents[c]
        /\ \A f \in EventIds \ {e} : event'[f] = event[f]
        /\ \A c \in BusinessIds : Len(businessEvents[c]) \in Nat
        /\ \A c \in BusinessIds : \A k \in 1..Len(businessEvents[c]) :
               businessEvents[c][k] \in EventIds
        /\ Recorded(e)'
    BY <1>1, RecordLists
  <2>3. \A f \in EventIds \ {e} : Recorded(f)' <=> Recorded(f)
    BY <2>2 DEF Recorded
  \* A listed event was recorded before the step, so it is not e.
  <2>4. \A c \in BusinessIds : \A k \in 1..Len(businessEvents[c]) :
            businessEvents[c][k] \in EventIds \ {e}
    BY <2>1, <2>2 DEF ListedIsRecorded
  <2>5. ListedIsRecorded'
    <3> SUFFICES ASSUME NEW c \in BusinessIds, NEW k \in 1..Len(businessEvents'[c])
                 PROVE  /\ Recorded(businessEvents[c][k])'
                        /\ event'[businessEvents'[c][k]].business_id = c
      BY DEF ListedIsRecorded
    <3>1. CASE c = b /\ k = n + 1
      BY <3>1, <2>1, <2>2
    <3>2. CASE ~(c = b /\ k = n + 1)
      <4>1. k \in 1..Len(businessEvents[c]) /\ businessEvents'[c][k] = businessEvents[c][k]
        BY <3>2, <2>2
      <4> QED
        BY <4>1, <2>2, <2>3, <2>4 DEF ListedIsRecorded, Recorded
    <3> QED
      BY <3>1, <3>2
  <2>6. RecordedIsListed'
    <3> SUFFICES ASSUME NEW f \in EventIds, Recorded(f)'
                 PROVE  /\ event'[f].id = f
                        /\ \E k \in 1..Len(businessEvents'[event'[f].business_id]) :
                               businessEvents'[event'[f].business_id][k] = f
      BY DEF RecordedIsListed
    <3>1. CASE f = e
      BY <3>1, <2>1, <2>2
    <3>2. CASE f # e
      <4>1. Recorded(f) /\ event'[f] = event[f]
        BY <3>2, <2>2, <2>3
      <4>2. event[f].business_id \in BusinessIds
        BY <4>1 DEF Recorded, TypeOK, FinancialEvent
      <4>3. PICK k \in 1..Len(businessEvents[event[f].business_id]) :
                businessEvents[event[f].business_id][k] = f
        BY <4>1 DEF RecordedIsListed
      <4>4. /\ k \in 1..Len(businessEvents'[event[f].business_id])
            /\ businessEvents'[event[f].business_id][k] = f
        BY <4>2, <4>3, <2>2
      <4> QED
        BY <4>1, <4>4 DEF RecordedIsListed
    <3> QED
      BY <3>1, <3>2
  <2>7. ListedOnce'
    <3> SUFFICES ASSUME NEW c \in BusinessIds, NEW j \in 1..Len(businessEvents'[c]),
                        NEW k \in 1..Len(businessEvents'[c]),
                        businessEvents'[c][j] = businessEvents'[c][k]
                 PROVE  j = k
      BY DEF ListedOnce
    <3>1. CASE c # b
      BY <3>1, <2>2 DEF ListedOnce
    <3>2. CASE c = b
      <4>1. j \in 1..(n + 1) /\ k \in 1..(n + 1)
        BY <3>2, <2>2
      <4>2. CASE j \in 1..n /\ k \in 1..n
        <5>1. businessEvents[b][j] = businessEvents[b][k]
          BY <3>2, <4>2, <2>2
        <5> QED
          BY <4>2, <5>1 DEF ListedOnce
      <4>3. CASE j = n + 1 /\ k \in 1..n
        <5>1. businessEvents'[b][k] # e
          BY <4>3, <2>2, <2>4
        <5> QED
          BY <3>2, <4>3, <5>1, <2>2
      <4>4. CASE j \in 1..n /\ k = n + 1
        <5>1. businessEvents'[b][j] # e
          BY <4>4, <2>2, <2>4
        <5> QED
          BY <3>2, <4>4, <5>1, <2>2
      <4>5. n \in Nat
        BY <2>2
      <4> QED
        BY <4>1, <4>2, <4>3, <4>4, <4>5
    <3> QED
      BY <3>1, <3>2
  <2>8. Chronological'
    <3>1. \A f \in EventIds : Recorded(f)' => event'[f].created_at <= sequence'
      BY <2>1, <2>2, <2>3 DEF Chronological, TypeOK
    <3>2. ASSUME NEW c \in BusinessIds, NEW j \in 1..Len(businessEvents'[c]),
                 NEW k \in 1..Len(businessEvents'[c]), j <= k
          PROVE  event'[businessEvents'[c][j]].created_at
                     <= event'[businessEvents'[c][k]].created_at
      <4>1. CASE c # b \/ k # n + 1
        <5>1. /\ j \in 1..Len(businessEvents[c]) /\ k \in 1..Len(businessEvents[c])
              /\ businessEvents'[c][j] = businessEvents[c][j]
              /\ businessEvents'[c][k] = businessEvents[c][k]
          BY <4>1, <3>2, <2>2
        <5>2. /\ event'[businessEvents[c][j]] = event[businessEvents[c][j]]
              /\ event'[businessEvents[c][k]] = event[businessEvents[c][k]]
          BY <5>1, <2>2, <2>4
        <5>3. event[businessEvents[c][j]].created_at
                  <= event[businessEvents[c][k]].created_at
          BY <5>1, <3>2 DEF Chronological
        <5> QED
          BY <5>1, <5>2, <5>3
      <4>2. CASE c = b /\ k = n + 1
        <5>1. event'[businessEvents'[c][k]].created_at = sequence'
          BY <4>2, <2>1, <2>2
        <5>2. businessEvents'[c][j] \in EventIds /\ Recorded(businessEvents[c][j])'
          <6>1. Recorded(businessEvents[c][j])'
            BY <2>5 DEF ListedIsRecorded
          <6>2. CASE j = n + 1
            BY <6>1, <6>2, <4>2, <2>2
          <6>3. CASE j \in 1..n
            BY <6>1, <6>3, <4>2, <2>2
          <6>4. n \in Nat /\ j \in 1..(n + 1)
            BY <4>2, <2>2
          <6> QED
            BY <6>2, <6>3, <6>4
        <5> QED
          BY <5>1, <5>2, <3>1
      <4> QED
        BY <4>1, <4>2
    <3> QED
      BY <3>1, <3>2 DEF Chronological
  <2> QED
    BY <2>5, <2>6, <2>7, <2>8
<1>2. ASSUME KeepsRecords
      PROVE  ListsMatchEvents'
  <2>1. \A b \in BusinessIds : \A k \in 1..Len(businessEvents[b]) :
            businessEvents[b][k] \in EventIds
    BY DEF TypeOK
  <2>2. businessEvents' = businessEvents
    BY <1>2 DEF KeepsRecords
  <2>3. \A e \in EventIds :
            /\ Recorded(e)' <=> Recorded(e)
            /\ Recorded(e) => /\ event'[e].id = event[e].id
                              /\ event'[e].business_id = event[e].business_id
                              /\ event'[e].created_at = event[e].created_at
    BY <1>2 DEF KeepsRecords
  <2>4. ListedIsRecorded' /\ RecordedIsListed' /\ ListedOnce'
    BY <2>1, <2>2, <2>3 DEF ListedIsRecorded, RecordedIsListed, ListedOnce
  <2>5. Chronological'
    <3>1. \A e \in EventIds : Recorded(e) => event[e].created_at \in Nat
      BY LedgerAssumption DEF TypeOK, Recorded, FinancialEvent
    <3>2. \A e \in EventIds : Recorded(e)' => event'[e].created_at <= sequence'
      BY <1>2, <2>3, <3>1, LedgerAssumption DEF Chronological, KeepsRecords, TypeOK
    <3>3. \A b \in BusinessIds : \A j, k \in 1..Len(businessEvents'[b]) :
              j <= k => event'[businessEvents'[b][j]].created_at
                           <= event'[businessEvents'[b][k]].created_at
      BY <2>1, <2>2, <2>3 DEF Chronological, ListedIsRecorded
    <3> QED
      BY <3>2, <3>3 DEF Chronological
  <2> QED
    BY <2>4, <2>5
<1>3. ASSUME NEW e \in EventIds, NEW s \in {"Verified", "Disputed", "Revoked"}, Moves(e, s)
      PROVE  KeepsRecords
  BY <1>3, StatusUpdate DEF Moves, Status
<1>4. ASSUME UNCHANGED <<event, businessEvents>>, sequence' \in 0..MaxSequence,
             sequence <= sequence'
      PROVE  KeepsRecords
  BY <1>4, LedgerAssumption DEF KeepsRecords, Recorded
<1> QED
  BY <1>1, <1>2, <1>3, <1>4, StepShape

(* After any sequence of calls each recorded event is in the list of its   *)
(* business exactly once, in the order of creation, and nothing else is.   *)
THEOREM ListsCorrect == Spec => []ListsMatchEvents
<1>1. Init => ListsMatchEvents
  BY DEF Init, ListsMatchEvents, ListedIsRecorded, RecordedIsListed, ListedOnce,
         Chronological, Recorded
<1> QED
  BY <1>1, ListStep, TypeCorrect, PTL DEF Spec

(* The event table and the id lists implement one append-only journal per  *)
(* business: entries are added at the end, never removed or moved, and a   *)
(* status only follows the lifecycle, Revoked being final.                 *)
THEOREM Refinement == Spec => ImplementsJournal
<1>1. Init => Journal!Init
  <2> SUFFICES ASSUME Init
               PROVE  Journals = [b \in BusinessIds |-> <<>>]
    BY DEF Journal!Init
  <2>1. \A b \in BusinessIds : businessEvents[b] = <<>>
    BY DEF Init
  <2>2. \A b \in BusinessIds :
            [k \in 1..Len(businessEvents[b]) |-> event[businessEvents[b][k]]] = <<>>
    BY <2>1
  <2> QED
    BY <2>2 DEF Journals
<1>2. TypeOK /\ ListsMatchEvents /\ [Next]_vars => [Journal!Next]_Journals
  <2> SUFFICES ASSUME TypeOK, ListsMatchEvents, [Next]_vars
               PROVE  Journal!Next \/ Journals' = Journals
    OBVIOUS
  <2>0. /\ \A c \in BusinessIds : Len(businessEvents[c]) \in Nat
        /\ \A c \in BusinessIds : \A k \in 1..Len(businessEvents[c]) :
               businessEvents[c][k] \in EventIds
    BY DEF TypeOK
  <2>j. /\ DOMAIN Journals = BusinessIds
        /\ \A c \in BusinessIds :
               /\ Journals[c] = [k \in 1..Len(businessEvents[c]) |->
                                    event[businessEvents[c][k]]]
               /\ Journals[c] \in Seq(FinancialEvent)
               /\ Len(Journals[c]) = Len(businessEvents[c])
    <3>1. \A c \in BusinessIds : \A k \in 1..Len(businessEvents[c]) :
              event[businessEvents[c][k]] \in FinancialEvent
      BY <2>0 DEF ListsMatchEvents, ListedIsRecorded, Recorded, TypeOK
    <3> QED
      BY <2>0, <3>1 DEF Journals
  <2>1. ASSUME NEW signer \in Addresses, NEW e \in EventIds, NEW b \in BusinessIds,
               NEW type \in EventType, NEW a \in Assets, NEW amount \in Amounts,
               RecordEvent(signer, e, b, type, a, amount)
        PROVE  Journal!Next
    <3> DEFINE n == Len(businessEvents[b])
    <3>1. /\ ~Recorded(e) /\ event'[e].id = e
          /\ event'[e] \in FinancialEvent /\ event'[e].status = "Pending"
      BY <2>1, RecordUpdate
    <3>2. /\ Len(businessEvents'[b]) = n + 1 /\ businessEvents'[b][n + 1] = e
          /\ \A k \in 1..n : businessEvents'[b][k] = businessEvents[b][k]
          /\ \A c \in BusinessIds \ {b} : businessEvents'[c] = businessEvents[c]
          /\ \A f \in EventIds \ {e} : event'[f] = event[f]
      BY <2>1, RecordLists
    <3>3. \A c \in BusinessIds : \A k \in 1..Len(businessEvents[c]) :
              businessEvents[c][k] \in EventIds \ {e}
      BY <2>0, <3>1 DEF ListsMatchEvents, ListedIsRecorded
    <3>4. ~Journal!Holds(event'[e].id)
      <4> SUFFICES ASSUME NEW c \in BusinessIds, NEW k \in 1..Len(Journals[c])
                   PROVE  Journals[c][k].id # event'[e].id
        BY DEF Journal!Holds
      <4>1. k \in 1..Len(businessEvents[c])
        BY <2>j
      <4>2. /\ Journals[c][k] = event[businessEvents[c][k]]
            /\ businessEvents[c][k] \in EventIds \ {e}
            /\ Recorded(businessEvents[c][k])
        BY <2>j, <3>3, <4>1 DEF ListsMatchEvents, ListedIsRecorded
      <4>3. event[businessEvents[c][k]].id = businessEvents[c][k]
        BY <4>2 DEF ListsMatchEvents, RecordedIsListed
      <4> QED
        BY <4>2, <4>3, <3>1
    <3>5. Journals'[b] = Append(Journals[b], event'[e])
      <4>1. Journals'[b] = [k \in 1..(n + 1) |-> event'[businessEvents'[b][k]]]
        BY <3>2 DEF Journals
      <4>2. \A k \in 1..n : event'[businessEvents'[b][k]] = event[businessEvents[b][k]]
        BY <3>2, <3>3
      <4>3. /\ Journals[b] \in Seq(FinancialEvent) /\ Len(Journals[b]) = n
            /\ \A k \in 1..n : Journals[b][k] = event[businessEvents[b][k]]
        BY <2>j
      <4> DEFINE row == Journals[b]
                 new == event'[e]
      <4>4. n \in Nat /\ new \in FinancialEvent
        BY <2>0, <3>1
      <4>5. \A k \in 1..(n + 1) :
                event'[businessEvents'[b][k]] = IF k = n + 1 THEN new ELSE row[k]
        BY <4>2, <4>3, <4>4, <3>2
      <4>6. Journals'[b] = [k \in 1..(n + 1) |-> IF k = n + 1 THEN new ELSE row[k]]
        BY <4>1, <4>5
      <4>7. row \in Seq(FinancialEvent) /\ Len(row) = n
        BY <4>3
      <4> HIDE DEF row, new, n
      <4>8. Append(row, new) = [k \in 1..(n + 1) |-> IF k = n + 1 THEN new ELSE row[k]]
        BY <4>4, <4>7, AppendAsFunction
      <4> QED
        BY <4>6, <4>8 DEF row, new
    <3>6. \A c \in BusinessIds \ {b} : Journals'[c] = Journals[c]
      <4> SUFFICES ASSUME NEW c \in BusinessIds \ {b}
                   PROVE  Journals'[c] = Journals[c]
        OBVIOUS
      <4>1. \A k \in 1..Len(businessEvents[c]) :
                event'[businessEvents[c][k]] = event[businessEvents[c][k]]
        BY <3>2, <3>3
      <4>2. Journals'[c] = [k \in 1..Len(businessEvents[c]) |->
                                event'[businessEvents[c][k]]]
        BY <3>2 DEF Journals
      <4> QED
        BY <2>j, <4>1, <4>2
    <3>7. Journals' = [Journals EXCEPT ![b] = Append(@, event'[e])]
      BY <2>j, <3>5, <3>6 DEF Journals
    <3>8. Journal!Record(b, event'[e])
      BY <3>1, <3>4, <3>7 DEF Journal!Record
    <3> QED
      BY <3>1, <3>8 DEF Journal!Next
  <2>2. ASSUME NEW e \in EventIds, NEW s \in {"Verified", "Disputed", "Revoked"},
               Moves(e, s)
        PROVE  Journal!Next
    <3>0. /\ event'[e] = [event[e] EXCEPT !.status = s]
          /\ \A f \in EventIds \ {e} : event'[f] = event[f]
          /\ businessEvents' = businessEvents
      BY <2>2, StatusUpdate DEF Moves, Status, KeepsRecords
    <3>1. /\ Recorded(e) /\ event[e] \in FinancialEvent
          /\ <<event[e].status, s>> \in Journal!Lifecycle
      BY <2>2 DEF Moves, Recorded, TypeOK
    <3> DEFINE b == event[e].business_id
    <3>2. b \in BusinessIds
      BY <3>1 DEF FinancialEvent
    <3>3. PICK k \in 1..Len(businessEvents[b]) : businessEvents[b][k] = e
      BY <3>1 DEF ListsMatchEvents, RecordedIsListed
    <3>4. \A c \in BusinessIds : \A i \in 1..Len(businessEvents[c]) :
              businessEvents[c][i] = e => c = b /\ i = k
      BY <2>0, <3>2, <3>3 DEF ListsMatchEvents, ListedIsRecorded, ListedOnce
    <3>5. \A c \in BusinessIds : Journals'[c] =
              [i \in 1..Len(businessEvents[c]) |-> event'[businessEvents[c][i]]]
      BY <3>0 DEF Journals
    <3> HIDE DEF b
    <3>6. \A c \in BusinessIds \ {b} : Journals'[c] = Journals[c]
      <4> SUFFICES ASSUME NEW c \in BusinessIds \ {b}
                   PROVE  Journals'[c] = Journals[c]
        OBVIOUS
      <4>1. \A i \in 1..Len(businessEvents[c]) :
                event'[businessEvents[c][i]] = event[businessEvents[c][i]]
        BY <2>0, <3>0, <3>1, <3>4
      <4>2. Journals'[c] = [i \in 1..Len(businessEvents[c]) |->
                                event'[businessEvents[c][i]]]
        BY <3>5
      <4>3. Journals[c] = [i \in 1..Len(businessEvents[c]) |->
                                event[businessEvents[c][i]]]
        BY <2>j
      <4> QED
        BY <4>1, <4>2, <4>3
    <3> DEFINE row   == Journals[b]
               moved == [row[k] EXCEPT !.status = s]
    <3>7. Journals'[b] = [row EXCEPT ![k] = moved]
      <4>1. /\ Journals[b] = [i \in 1..Len(businessEvents[b]) |->
                                event[businessEvents[b][i]]]
            /\ Journals'[b] = [i \in 1..Len(businessEvents[b]) |->
                                event'[businessEvents[b][i]]]
        BY <2>j, <3>2, <3>5
      <4>2. \A i \in 1..Len(businessEvents[b]) : i # k =>
                event'[businessEvents[b][i]] = event[businessEvents[b][i]]
        BY <2>0, <3>0, <3>1, <3>2, <3>4
      <4>3. row[k] = event[e]
        BY <4>1, <3>3
      <4>4. event'[businessEvents[b][k]] = moved
        BY <4>3, <3>0, <3>1, <3>3
      <4> HIDE DEF moved
      <4> QED
        BY <4>1, <4>2, <4>4, <3>3
    <3>8. Journals' = [Journals EXCEPT ![b] = [row EXCEPT ![k] = moved]]
      <4> HIDE DEF moved
      <4>1. Journals' \in [BusinessIds -> {Journals'[c] : c \in BusinessIds}]
        BY DEF Journals
      <4>2. Journals \in [BusinessIds -> {Journals[c] : c \in BusinessIds}]
        BY DEF Journals
      <4> QED
        BY <4>1, <4>2, <3>2, <3>6, <3>7
    <3>9. row[k].status = event[e].status /\ k \in 1..Len(row)
      BY <2>j, <3>2, <3>3
    <3>10. Journal!Move(b, k, s) /\ k \in 1..Len(Journals[b])
      BY <3>1, <3>8, <3>9 DEF Journal!Move
    <3> QED
      BY <3>2, <3>10 DEF Journal!Next
  <2>3. ASSUME UNCHANGED <<event, businessEvents>>
        PROVE  Journals' = Journals
    BY <2>3 DEF Journals
  <2> QED
    BY <2>1, <2>2, <2>3, StepShape
<1> QED
  BY <1>1, <1>2, TypeCorrect, ListsCorrect, PTL DEF Spec, ImplementsJournal, Journal!Spec

-----------------------------------------------------------------------------
(* Pages.                                                                  *)

(* A set of natural numbers that is not empty has a least element.         *)
LEMMA LeastOf ==
    ASSUME NEW S \in SUBSET Nat, S # {}
    PROVE  \E x \in S : \A y \in S : x <= y
<1> DEFINE R == {ss \in Nat \X Nat : ss[1] < ss[2]}
<1>1. IsWellFoundedOn(R, Nat)
  BY NatLessThanWellFounded DEF OpToRel
<1>2. PICK x \in S : \A y \in S : ~(<<y, x>> \in R)
  <2> HIDE DEF R
  <2> QED BY <1>1, WFMin
<1>3. ASSUME NEW y \in S PROVE x <= y
  <2>1. y \in Nat /\ x \in Nat /\ ~(<<y, x>> \in R)
    BY <1>2
  <2> QED
    BY <2>1
<1> QED
  BY <1>3

Loop(ids, start, end, f) ==
    f = [i \in start..end |->
            IF i = start THEN <<>>
            ELSE IF Recorded(ids[i]) THEN Append(f[i - 1], event[ids[i]])
                 ELSE f[i - 1]]

Stretch(ids, start, i) == [j \in 1..(i - start) |-> event[ids[start + j]]]

(* One more id is one more record.                                         *)
LEMMA StretchGrows ==
    ASSUME TypeOK, NEW ids \in Seq(EventIds), NEW start \in 0..Len(ids),
           NEW i \in (start + 1)..Len(ids)
    PROVE  Stretch(ids, start, i) = Append(Stretch(ids, start, i - 1), event[ids[i]])
<1> DEFINE s == Stretch(ids, start, i - 1)
           n == (i - 1) - start
<1>1. /\ Len(ids) \in Nat /\ start \in Nat /\ i \in Nat /\ n \in Nat
      /\ i - start = n + 1 /\ start + (n + 1) = i
  OBVIOUS
<1>2. s \in Seq(FinancialEvent \cup {None}) /\ Len(s) = n /\ DOMAIN s = 1..n
  <2>1. \A j \in 1..n : event[ids[start + j]] \in FinancialEvent \cup {None}
    <3> TAKE j \in 1..n
    <3>1. start + j \in 1..Len(ids)
      BY <1>1
    <3>2. ids[start + j] \in EventIds
      BY <3>1, ElementOfSeq
    <3> QED
      BY <3>2 DEF TypeOK
  <2>2. s = [j \in 1..n |-> event[ids[start + j]]]
    BY DEF Stretch
  <2> HIDE DEF s, n
  <2> QED
    BY <1>1, <2>1, <2>2
<1>3. Stretch(ids, start, i) = [j \in 1..(n + 1) |-> event[ids[start + j]]]
  BY <1>1 DEF Stretch
<1>4. \A j \in 1..n : s[j] = event[ids[start + j]]
  BY DEF Stretch
<1> HIDE DEF s, n
<1>5. Append(s, event[ids[i]]) = [j \in 1..(n + 1) |-> IF j = n + 1 THEN event[ids[i]] ELSE s[j]]
  BY <1>1, <1>2
<1>6. \A j \in 1..(n + 1) : event[ids[start + j]] = IF j = n + 1 THEN event[ids[i]] ELSE s[j]
  BY <1>1, <1>4
<1> QED
  BY <1>3, <1>5, <1>6 DEF s

(* The loop's result when every record is there.                           *)
LEMMA LoopResult ==
    ASSUME TypeOK, NEW ids \in Seq(EventIds), NEW start \in 0..Len(ids),
           NEW end \in start..Len(ids),
           \A i \in 1..Len(ids) : Recorded(ids[i]),
           NEW f, Loop(ids, start, end, f)
    PROVE  \A i \in start..end : f[i] = Stretch(ids, start, i)
<1> DEFINE wrong == {i \in start..end : f[i] # Stretch(ids, start, i)}
<1>1. Len(ids) \in Nat /\ start \in Nat /\ end \in Nat /\ start..end \subseteq Nat
  OBVIOUS
<1>2. SUFFICES ASSUME wrong # {} PROVE FALSE
  OBVIOUS
<1>3. PICK i \in wrong : \A j \in wrong : i <= j
  <2>1. wrong \in SUBSET Nat
    BY <1>1
  <2> HIDE DEF wrong
  <2> QED
    BY <1>2, <2>1, LeastOf
<1>4. CASE i = start
  <2>1. f[i] = <<>>
    BY <1>4, <1>3 DEF Loop
  <2>2. Stretch(ids, start, i) = <<>>
    BY <1>1, <1>4 DEF Stretch
  <2> QED
    BY <2>1, <2>2, <1>3
<1>5. CASE i # start
  <2>1. i \in (start + 1)..Len(ids) /\ i \in 1..Len(ids) /\ i - 1 \in start..end /\ i - 1 < i
    BY <1>1, <1>3, <1>5
  <2>2. f[i - 1] = Stretch(ids, start, i - 1)
    BY <1>3, <2>1, <1>1
  <2>3. f[i] = Append(f[i - 1], event[ids[i]])
    BY <1>3, <1>5, <2>1 DEF Loop
  <2>4. f[i] = Stretch(ids, start, i)
    BY <2>1, <2>2, <2>3, StretchGrows
  <2> QED
    BY <2>4, <1>3
<1> QED
  BY <1>4, <1>5

(* There is such a result.                                                 *)
LEMMA LoopExists ==
    ASSUME TypeOK, NEW ids \in Seq(EventIds), NEW start \in 0..Len(ids),
           NEW end \in start..Len(ids),
           \A i \in 1..Len(ids) : Recorded(ids[i])
    PROVE  \E f : Loop(ids, start, end, f)
<1> DEFINE f == [i \in start..end |-> Stretch(ids, start, i)]
<1>1. ASSUME NEW i \in start..end
      PROVE  f[i] = IF i = start THEN <<>>
                    ELSE IF Recorded(ids[i]) THEN Append(f[i - 1], event[ids[i]])
                         ELSE f[i - 1]
  <2>1. CASE i = start
    BY <2>1 DEF Stretch
  <2>2. CASE i # start
    <3>1. i \in (start + 1)..Len(ids) /\ i \in 1..Len(ids) /\ i - 1 \in start..end
      BY <2>2
    <3>2. f[i] = Append(f[i - 1], event[ids[i]])
      BY <3>1, StretchGrows
    <3> QED
      BY <2>2, <3>1, <3>2
  <2> QED
    BY <2>1, <2>2
<1>2. Loop(ids, start, end, f)
  BY <1>1 DEF Loop
<1> QED
  BY <1>2

LEMMA PageIsStretch ==
    ASSUME TypeOK, ListedIsRecorded, NEW b \in BusinessIds,
           NEW offset \in Nat, NEW limit \in Nat
    PROVE  LET ids   == businessEvents[b]
               start == AtMost(offset, Len(ids))
               end   == PageEnd(start, limit, Len(ids))
           IN  GetBusinessEvents(b, offset, limit) = Stretch(ids, start, end)
<1> DEFINE ids   == businessEvents[b]
           start == AtMost(offset, Len(ids))
           end   == PageEnd(start, limit, Len(ids))
           result == CHOOSE f : Loop(ids, start, end, f)
<1>1. ids \in Seq(EventIds) /\ \A i \in 1..Len(ids) : Recorded(ids[i])
  BY DEF TypeOK, ListedIsRecorded
<1>2. start \in 0..Len(ids) /\ end \in start..Len(ids)
  BY <1>1, LedgerAssumption DEF AtMost, PageEnd
<1>3. GetBusinessEvents(b, offset, limit) = result[end]
  BY DEF GetBusinessEvents, Loop
<1> HIDE DEF ids, start, end
<1>4. Loop(ids, start, end, result)
  BY <1>1, <1>2, LoopExists
<1>5. result[end] = Stretch(ids, start, end)
  <2> HIDE DEF result
  <2>1. end \in start..end
    BY <1>2
  <2> QED
    BY <1>1, <1>2, <1>4, <2>1, LoopResult
<1> QED
  BY <1>3, <1>5 DEF ids, start, end

(* The records of the page that begins at an offset: as many as the limit, *)
(* the cap and the rest of the list allow, each at its place.              *)
LEMMA PageHolds ==
    ASSUME TypeOK, ListedIsRecorded, NEW b \in BusinessIds,
           NEW offset \in Nat, NEW limit \in Nat, NEW r \in Nat \ {0}
    PROVE  LET ids  == businessEvents[b]
               size == AtMost(limit, MaxPageLimit)
               page == GetBusinessEvents(b, offset, limit)
           IN  /\ Len(page) \in 0..size
               /\ r <= Len(page) => /\ offset + r \in 1..Len(ids)
                                    /\ page[r] = event[ids[offset + r]]
               /\ r <= size /\ offset + r <= Len(ids) => r <= Len(page)
<1> DEFINE ids   == businessEvents[b]
           size  == AtMost(limit, MaxPageLimit)
           start == AtMost(offset, Len(ids))
           end   == PageEnd(start, limit, Len(ids))
<1>1. ids \in Seq(EventIds) /\ Len(ids) \in Nat /\ size \in Nat
  BY LedgerAssumption DEF TypeOK, AtMost
<1>2. /\ start \in 0..Len(ids) /\ end \in start..Len(ids) /\ end - start \in 0..size
      /\ offset >= Len(ids) => start = Len(ids) /\ end = start
      /\ offset < Len(ids) => start = offset
      /\ start + size <= Len(ids) => end = start + size
      /\ start + size > Len(ids) => end = Len(ids)
  <2>1. end = AtMost(start + size, Len(ids))
    BY DEF PageEnd
  <2> HIDE DEF ids, size, end
  <2> QED
    BY <1>1, <2>1 DEF AtMost
<1>3. GetBusinessEvents(b, offset, limit) = Stretch(ids, start, end)
  BY <1>1, PageIsStretch
<1> HIDE DEF ids, size, start, end
<1> DEFINE n == end - start
<1>4. n \in Nat /\ n \in 0..size
  BY <1>1, <1>2
<1>5. Stretch(ids, start, end) = [j \in 1..n |-> event[ids[start + j]]]
  BY DEF Stretch
<1>6. r <= n => offset + r \in 1..Len(ids) /\ start + r = offset + r
  BY <1>1, <1>2
<1>7. r <= size /\ offset + r <= Len(ids) => r <= n
  BY <1>1, <1>2
<1> HIDE DEF n
<1>8. Len([j \in 1..n |-> event[ids[start + j]]]) = n
  BY <1>4
<1>9. r <= n => [j \in 1..n |-> event[ids[start + j]]][r] = event[ids[offset + r]]
  BY <1>4, <1>6
<1> QED
  BY <1>3, <1>4, <1>5, <1>6, <1>7, <1>8, <1>9 DEF ids, size

(* The events at two places of a list are two events.                      *)
LEMMA PlacesDiffer ==
    ASSUME TypeOK, ListsMatchEvents, NEW b \in BusinessIds,
           NEW j \in 1..Len(businessEvents[b]), NEW k \in 1..Len(businessEvents[b]),
           event[businessEvents[b][j]] = event[businessEvents[b][k]]
    PROVE  j = k
<1> DEFINE ids == businessEvents[b]
<1>1. ids[j] \in EventIds /\ ids[k] \in EventIds /\ Recorded(ids[j]) /\ Recorded(ids[k])
  <2>1. ids \in Seq(EventIds)
    BY DEF TypeOK
  <2> QED
    BY <2>1, ElementOfSeq DEF ListsMatchEvents, ListedIsRecorded
<1>2. event[ids[j]].id = ids[j] /\ event[ids[k]].id = ids[k]
  BY <1>1 DEF ListsMatchEvents, RecordedIsListed
<1> QED
  BY <1>2 DEF ListsMatchEvents, ListedOnce

(* Whatever calls came before, pages of any limit, the cap exceeded or     *)
(* not, hold each event of a business once, at its place, and no more      *)
(* events than limit and cap allow (load_business_events).                 *)
THEOREM PagesTileTheHistory == Spec => []PagesTile
<1>1. TypeOK /\ ListsMatchEvents => PagesTile
  <2> SUFFICES ASSUME TypeOK, ListsMatchEvents,
                      NEW b \in BusinessIds, NEW limit \in 1..(2 * MaxPageLimit),
                      NEW p \in 0..Len(businessEvents[b])
               PROVE  LET ids   == businessEvents[b]
                          total == Len(ids)
                          size  == AtMost(limit, MaxPageLimit)
                          page  == GetBusinessEvents(b, p * size, limit)
                      IN  /\ Len(page) <= size
                          /\ \A r \in 1..Len(page) :
                                 /\ p * size + r \in 1..total
                                 /\ \A k \in 1..total :
                                        page[r] = event[ids[k]] <=> k = p * size + r
                          /\ \A r \in 1..size : p * size + r <= total => r <= Len(page)
    BY DEF PagesTile
  <2> DEFINE ids    == businessEvents[b]
             total  == Len(ids)
             size   == AtMost(limit, MaxPageLimit)
             offset == p * size
             page   == GetBusinessEvents(b, offset, limit)
  <2>1. total \in Nat /\ size \in Nat /\ limit \in Nat /\ p \in Nat /\ ListedIsRecorded
    BY LedgerAssumption DEF TypeOK, AtMost, ListsMatchEvents
  <2>2. offset \in Nat
    <3> HIDE DEF size
    <3> QED BY <2>1
  <2>3. Len(page) \in 0..size
    <3>1. 1 \in Nat \ {0}
      OBVIOUS
    <3> HIDE DEF offset
    <3> QED BY <2>1, <2>2, <3>1, PageHolds
  <2>4. ASSUME NEW r \in 1..Len(page)
        PROVE  /\ offset + r \in 1..total
               /\ \A k \in 1..total : page[r] = event[ids[k]] <=> k = offset + r
    <3> HIDE DEF offset
    <3>1. r \in Nat \ {0} /\ r <= Len(page)
      BY <2>1, <2>3
    <3>2. offset + r \in 1..total /\ page[r] = event[ids[offset + r]]
      BY <2>1, <2>2, <3>1, PageHolds
    <3> QED
      BY <3>2, PlacesDiffer
  <2>5. ASSUME NEW r \in 1..size, offset + r <= total PROVE r <= Len(page)
    <3>1. r \in Nat \ {0} /\ r <= size
      <4> HIDE DEF size
      <4> QED BY <2>1
    <3> HIDE DEF offset
    <3> QED
      BY <2>1, <2>2, <2>5, <3>1, PageHolds
  <2> HIDE DEF size, page
  <2>6. Len(page) <= size
    BY <2>1, <2>3
  <2> QED
    BY <2>4, <2>5, <2>6 DEF size, page
<1> QED
  BY <1>1, TypeCorrect, ListsCorrect, PTL
=============================================================================
