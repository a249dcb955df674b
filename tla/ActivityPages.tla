---------------------------- MODULE ActivityPages ----------------------------
(***************************************************************************)
(* What a business sees of its events: the activity list                   *)
(* (apps/web/components/activity/activity-list.tsx) that reads pages from  *)
(* app/api/v1/activity/recent, under new events from the event stream and  *)
(* beside the notifications (components/navigation/notifications.tsx), and *)
(* the CSV export that reads the whole table page by page                  *)
(* (app/api/v1/activity/export).                                           *)
(*                                                                         *)
(* An event is its ledger and its place among those of the ledger.  The    *)
(* query orders by ledgerSequence alone, so that two events of one ledger  *)
(* come in any order, and in another one in the next query.  Rows are      *)
(* added in any order, as replays of dead letters do, and never removed.   *)
(* A page of the list may come from a copy up to 20 seconds old            *)
(* (unstable_cache), so the model keeps which page it is and not its rows. *)
(***************************************************************************)
EXTENDS Naturals, FiniteSets

CONSTANTS
    MaxLedgers,     \* bound on the ledgers with an event of the business
    MaxPerLedger,   \* bound on its events in one ledger
    ExportSize,     \* EXPORT_PAGE_SIZE
    Limits,         \* PAGE_SIZE_OPTIONS
    MaxOffset,      \* bound on the list's offset
    Ranges,         \* date ranges
    MaxRequests     \* bound on the requests of the list under way

ASSUME ExportAssumption ==
    /\ ExportSize \in Nat \ {0} /\ Limits \subseteq Nat \ {0}
    /\ {MaxLedgers, MaxPerLedger, MaxOffset} \subseteq Nat

VARIABLES
    eventRows,  \* the events with a row in financialEvent
    csv,        \* the export: offset, rows written; history: the rows when
                \* it began, the ledgers a page of it ended within
    selection,  \* the list's offset, limit and date range
    list,       \* what the list shows: a page, a spinner or an error
    requests,   \* its requests, of which one may be the present effect's
    newEvents   \* events of the stream over the first page (useEventStream)

activityVars == <<eventRows, csv, selection, list, requests, newEvents>>

Ledgers == 1..MaxLedgers

Events == Ledgers \X (1..MaxPerLedger)

LedgerSequence(e) == e[1]

Selection == [offset : 0..MaxOffset, limit : Limits, range : Ranges]

Idle == [state |-> "idle", offset |-> 0, written |-> {}, before |-> {}, cut |-> {}]

ActivityTypeOK ==
    /\ eventRows \subseteq Events
    /\ csv \in [state : {"idle", "running", "complete"}, offset : Nat,
                written : SUBSET Events, before : SUBSET Events, cut : SUBSET Ledgers]
    /\ selection \in Selection
    /\ list \in [state : {"page", "loading", "error"}, of : Selection]
    /\ requests \subseteq [of : Selection, ignore : BOOLEAN]
    /\ newEvents \subseteq Events

\* The first page is rendered by the server (ActivityListServer).
ActivityInit ==
    /\ eventRows = {} /\ csv = Idle
    /\ selection \in {s \in Selection : s.offset = 0}
    /\ list = [state |-> "page", of |-> selection]
    /\ requests = {} /\ newEvents = {}

\* The indexer stores an event; the stream may tell this tab of it.
AddRow(e) ==
    /\ e \notin eventRows
    /\ eventRows' = eventRows \cup {e}
    /\ newEvents' \in {newEvents, newEvents \cup {e}}
    /\ UNCHANGED <<csv, selection, list, requests>>

-----------------------------------------------------------------------------
(* The export.                                                             *)

\* Mutant: the query has no order.
FirstsInNoOrder(n) ==
    {first \in SUBSET eventRows :
        Cardinality(first) = n \/ (Cardinality(first) < n /\ first = eventRows)}

\* Newest first: what an answer may put before the row number n.
Firsts(n) ==
    {first \in SUBSET eventRows :
        /\ Cardinality(first) = n \/ (Cardinality(first) < n /\ first = eventRows)
        /\ \A e \in first, r \in eventRows \ first : LedgerSequence(e) >= LedgerSequence(r)}

StartExport ==
    /\ csv.state # "running"
    /\ csv' = [Idle EXCEPT !.state = "running", !.before = eventRows]
    /\ UNCHANGED <<eventRows, selection, list, requests, newEvents>>

\* findRecentEventsByBusiness: `skipped` before the offset, the page after it.
WritePage(skipped, upTo) ==
    LET page == upTo \ skipped
        cut  == {l \in Ledgers : /\ \E e \in upTo : LedgerSequence(e) = l
                                /\ \E e \in eventRows \ upTo : LedgerSequence(e) = l}
    IN  csv' = [csv EXCEPT !.offset = @ + Cardinality(page),
                           !.written = @ \cup page, !.cut = @ \cup cut,
                           !.state = IF Cardinality(page) < ExportSize
                                     THEN "complete" ELSE "running"]

\* pull: one page; a short one is the last.
Pull ==
    /\ csv.state = "running"
    /\ \E skipped \in Firsts(csv.offset), upTo \in Firsts(csv.offset + ExportSize) :
           skipped \subseteq upTo /\ WritePage(skipped, upTo)
    /\ UNCHANGED <<eventRows, selection, list, requests, newEvents>>

-----------------------------------------------------------------------------
(* The list.                                                               *)

\* A new selection: the effect before is ignored, the new one loads.
Select(s) ==
    /\ s # selection /\ Cardinality(requests) < MaxRequests
    /\ selection' = s
    /\ requests' = {[r EXCEPT !.ignore = TRUE] : r \in requests}
                   \cup {[of |-> s, ignore |-> FALSE]}
    /\ list' = [list EXCEPT !.state = "loading"]
    /\ UNCHANGED <<eventRows, csv, newEvents>>

\* Mutant: Previous does not stop at the first page.
TurnedBelow ==
    {offset \in {selection.offset + selection.limit, selection.offset - selection.limit} :
        offset <= MaxOffset}

\* Where Next, while the page was full, and Previous lead.
Turned ==
    {offset \in {selection.offset + selection.limit,
                 IF selection.offset < selection.limit THEN 0
                 ELSE selection.offset - selection.limit} : offset <= MaxOffset}

\* The spinner and the error hide both buttons.
TurnPage ==
    /\ list.state = "page"
    /\ \E offset \in Turned : Select([selection EXCEPT !.offset = offset])

\* Another range (handleRangeChange) or page size starts at the first page.
Restart ==
    \E s \in Selection : /\ s.offset = 0
                         /\ s.range = selection.range \/ s.limit = selection.limit
                         /\ Select(s)

\* Mutant: an answer is shown whichever effect asked.
AnswerAny(r) ==
    /\ list' \in {[state |-> "page", of |-> r.of], [list EXCEPT !.state = "error"]}
    /\ requests' = requests \ {r}
    /\ UNCHANGED <<eventRows, csv, selection, newEvents>>

\* GET activity/recent returns or fails, in any order.
AnswerList(r) ==
    /\ list' \in IF r.ignore THEN {list}
                 ELSE {[state |-> "page", of |-> r.of], [list EXCEPT !.state = "error"]}
    /\ requests' = requests \ {r}
    /\ UNCHANGED <<eventRows, csv, selection, newEvents>>

\* The notifications' effect on the activity page: clearNewEvents.
ClearNewEvents ==
    /\ newEvents # {}
    /\ newEvents' = {}
    /\ UNCHANGED <<eventRows, csv, selection, list, requests>>

ActivityNext ==
    \/ \E e \in Events : AddRow(e)
    \/ StartExport \/ Pull
    \/ TurnPage \/ Restart \/ ClearNewEvents
    \/ \E r \in requests : AnswerList(r)

ActivitySpec == ActivityInit /\ [][ActivityNext]_activityVars

-----------------------------------------------------------------------------
(* An export that is complete holds every event that was there when it     *)
(* began, unless one of its pages ended between two events of that event's *)
(* ledger: rows that arrive meanwhile push others to later pages, where    *)
(* they are written again, and none before the offset.  Between events of  *)
(* one ledger the next query may choose another order.                     *)
ExportComplete ==
    csv.state = "complete" =>
        \A e \in csv.before : e \in csv.written \/ LedgerSequence(e) \in csv.cut

(* What an export is for.  The code does not keep it (see the finding).    *)
ExportHoldsAll == csv.state = "complete" => csv.before \subseteq csv.written

(* The page on the screen is the one selected, however late and in         *)
(* whatever order the answers of earlier selections come.                  *)
PageSelected == list.state = "page" => list.of = selection

(* lib/data/activity.ts: "the existing client-side SSE stream              *)
(* (useEventStream) that overlays newly-indexed events after initial       *)
(* paint".                                                                 *)
NewEventsStay ==
    [][list' = list /\ list.state = "page" => newEvents \subseteq newEvents']_activityVars
=============================================================================
