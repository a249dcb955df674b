---------------------------- MODULE EventJournal ----------------------------
(***************************************************************************)
(* What the financial ledger promises, without its storage: one journal    *)
(* per business, entries in the order they were recorded, never removed,   *)
(* never moved and never rewritten except for the status, which follows    *)
(* the event lifecycle and stops for good at Revoked.                      *)
(***************************************************************************)
EXTENDS Naturals, Sequences

CONSTANTS
    BusinessIds,
    Entries     \* records with at least an id and a status

VARIABLE journal

Init == journal = [b \in BusinessIds |-> <<>>]

Holds(id) ==
    \E b \in BusinessIds : \E k \in 1..Len(journal[b]) : journal[b][k].id = id

Record(b, e) ==
    /\ e.status = "Pending"
    /\ ~Holds(e.id)
    /\ journal' = [journal EXCEPT ![b] = Append(@, e)]

Lifecycle == {<<"Pending", "Verified">>, <<"Verified", "Disputed">>,
              <<"Disputed", "Verified">>, <<"Pending", "Revoked">>,
              <<"Verified", "Revoked">>, <<"Disputed", "Revoked">>}

Move(b, k, status) ==
    /\ <<journal[b][k].status, status>> \in Lifecycle
    /\ journal' = [journal EXCEPT ![b][k].status = status]

Next ==
    \E b \in BusinessIds :
        \/ \E e \in Entries : Record(b, e)
        \/ \E k \in 1..Len(journal[b]), status \in {"Verified", "Disputed", "Revoked"} :
               Move(b, k, status)

Spec == Init /\ [][Next]_journal
=============================================================================
