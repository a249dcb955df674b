----------------------------- MODULE EventStream -----------------------------
(***************************************************************************)
(* New events on their way to the browser: rows that the indexer stores,   *)
(* the stream that polls for them (apps/web/app/api/v1/events/stream) and  *)
(* the tabs of one user's browser, of which the leader keeps the stream    *)
(* open and passes events on to the others                                 *)
(* (apps/web/hooks/use-event-stream.ts).  With Web Locks the holder of one *)
(* leads; in a browser without them every tab does.  BroadcastChannel is   *)
(* there.                                                                  *)
(*                                                                         *)
(* updatedAt is set before a row is committed, by the same clock as the    *)
(* stream's lastChecked.  The stream's polls do not wait for each other.   *)
(* A poll goes on for a client that is gone; its result then reaches       *)
(* nobody and is left out.                                                 *)
(***************************************************************************)
EXTENDS Naturals, FiniteSets

CONSTANTS
    Tabs,
    Events,
    MaxClock,   \* bound on the clock
    MaxPolls,   \* bound on the polls of a stream that run at once
    MaxTimers   \* bound on a tab's reconnection timers

ASSUME StreamAssumption == MaxClock \in Nat /\ MaxTimers \in Nat

VARIABLES
    webLocks,   \* the browser has navigator.locks
    clock,
    writes,     \* rows stamped and not yet committed
    table,      \* financialEvent: rows with event and updatedAt
    late,       \* history: events committed behind a row as new or newer
    tab,        \* the module state of the hook in each tab
    stream,     \* the server's end of each tab's connection
    broadcast,  \* events posted on the BroadcastChannel, by receiving tab
    told        \* events that handleEvents was given, by tab: the ones it keeps
                \* (globalNewEvents), cleared or not

streamVars == <<webLocks, clock, writes, table, late, tab, stream, broadcast, told>>

StoredRow == [event : Events, at : 0..MaxClock]

\* A poll: findUpdatedAfter(after), then what it found.
PollState == [read : BOOLEAN, after : 0..MaxClock, rows : SUBSET StoredRow]

\* `start` and `listeners` are history: when the stream began, and the tabs it
\* is passed on to that have had a channel since.
NoStream == [open |-> FALSE, start |-> 0, last |-> 0, listeners |-> {},
             polls |-> {}]

\* `lock` is the request for the Web Lock; "refused" when it failed.
NewTab == [subscribed |-> FALSE, lock |-> "none", leader |-> FALSE, source |-> FALSE,
           timers |-> 0, channel |-> FALSE]

StreamTypeOK ==
    /\ webLocks \in BOOLEAN
    /\ clock \in 0..MaxClock
    /\ writes \subseteq StoredRow /\ table \subseteq StoredRow
    /\ late \subseteq Events
    /\ tab \in [Tabs -> [subscribed : BOOLEAN,
                         lock : {"none", "waiting", "held", "refused"},
                         leader : BOOLEAN, source : BOOLEAN,
                         timers : 0..MaxTimers, channel : BOOLEAN]]
    /\ stream \in [Tabs -> [open : BOOLEAN, start : 0..MaxClock, last : 0..MaxClock,
                            listeners : SUBSET Tabs, polls : SUBSET PollState]]
    /\ broadcast \in [Tabs -> SUBSET Events]
    /\ told \in [Tabs -> SUBSET Events]

StreamInit ==
    /\ webLocks \in BOOLEAN
    /\ clock = 0
    /\ writes = {} /\ table = {} /\ late = {}
    /\ tab = [t \in Tabs |-> NewTab]
    /\ stream = [t \in Tabs |-> NoStream]
    /\ broadcast = [t \in Tabs |-> {}]
    /\ told = [t \in Tabs |-> {}]

-----------------------------------------------------------------------------
(* Rows: the indexer's upserts of one event follow each other.             *)

Stamp(e) ==
    /\ \A w \in writes : w.event # e
    /\ writes' = writes \cup {[event |-> e, at |-> clock]}
    /\ UNCHANGED <<clock, table, late, tab, stream, broadcast, told>>

Commit(w) ==
    /\ writes' = writes \ {w}
    /\ table' = {r \in table : r.event # w.event} \cup {w}
    /\ late' = IF \E r \in table : r.event # w.event /\ r.at >= w.at
               THEN late \cup {w.event} ELSE late \ {w.event}
    /\ UNCHANGED <<clock, tab, stream, broadcast, told>>

StreamTick ==
    /\ clock < MaxClock
    /\ clock' = clock + 1
    /\ UNCHANGED <<writes, table, late, tab, stream, broadcast, told>>

-----------------------------------------------------------------------------
(* The tabs.                                                               *)

\* Events it has already got are dropped.
handleEvents(t, events) == told' = [told EXCEPT ![t] = @ \cup events]

\* The first subscriber of the tab (initSSE): without Web Locks it leads.
Subscribe(t) ==
    /\ ~tab[t].subscribed
    /\ tab' = [tab EXCEPT ![t].subscribed = TRUE, ![t].channel = TRUE,
                          ![t].lock = IF webLocks THEN "waiting" ELSE "none",
                          ![t].leader = ~webLocks, ![t].source = ~webLocks]
    /\ UNCHANGED <<clock, writes, table, late, stream, broadcast, told>>

\* Web Locks: one tab holds the lock; it becomes the leader and connects.
Lead(t) ==
    /\ tab[t].lock = "waiting" /\ \A u \in Tabs : tab[u].lock # "held"
    /\ tab' = [tab EXCEPT ![t].lock = "held", ![t].leader = TRUE, ![t].source = TRUE]
    /\ UNCHANGED <<clock, writes, table, late, stream, broadcast, told>>

\* The request for the lock fails, not by an abort: the tab connects all the
\* same, and does not lead.
LockFails(t) ==
    /\ tab[t].lock = "waiting"
    /\ tab' = [tab EXCEPT ![t].lock = "refused", ![t].source = TRUE]
    /\ UNCHANGED <<clock, writes, table, late, stream, broadcast, told>>

\* The last subscriber leaves: source and lock go, timers and the channel stay.
Unsubscribe(t) ==
    /\ tab[t].subscribed
    /\ tab' = [tab EXCEPT ![t].subscribed = FALSE, ![t].lock = "none",
                          ![t].leader = FALSE, ![t].source = FALSE]
    /\ stream' = [stream EXCEPT ![t] = NoStream]
    /\ UNCHANGED <<clock, writes, table, late, broadcast, told>>

CloseTab(t) ==
    /\ tab' = [tab EXCEPT ![t] = NewTab]
    /\ stream' = [u \in Tabs |->
           IF u = t THEN NoStream ELSE [stream[u] EXCEPT !.listeners = @ \ {t}]]
    /\ broadcast' = [broadcast EXCEPT ![t] = {}]
    /\ told' = [told EXCEPT ![t] = {}]
    /\ UNCHANGED <<clock, writes, table, late>>

\* onerror: the stream was refused, broke or reached its 55 seconds.
SourceFails(t) ==
    /\ tab[t].source /\ tab[t].timers < MaxTimers
    /\ tab' = [tab EXCEPT ![t].source = FALSE, ![t].timers = @ + 1]
    /\ stream' = [stream EXCEPT ![t] = NoStream]
    /\ UNCHANGED <<clock, writes, table, late, broadcast, told>>

\* Mutant: a tab reconnects whether or not it still leads.
ReconnectAnyway(t) ==
    /\ tab[t].timers > 0
    /\ tab' = [tab EXCEPT ![t].timers = @ - 1, ![t].source = TRUE]
    /\ UNCHANGED <<clock, writes, table, late, stream, broadcast, told>>

Reconnect(t) ==
    /\ tab[t].timers > 0
    /\ tab' = [tab EXCEPT ![t].timers = @ - 1, ![t].source = @ \/ tab[t].leader]
    /\ UNCHANGED <<clock, writes, table, late, stream, broadcast, told>>

HearBroadcast(t) ==
    /\ broadcast[t] # {}
    /\ \E e \in broadcast[t] :
        /\ handleEvents(t, {e})
        /\ broadcast' = [broadcast EXCEPT ![t] = @ \ {e}]
    /\ UNCHANGED <<clock, writes, table, late, tab, stream>>

-----------------------------------------------------------------------------
(* The stream.                                                             *)

\* The route has read session and business: lastChecked is the present time.
\* A leader passes events on.
Accept(t) ==
    /\ tab[t].source /\ ~stream[t].open
    /\ stream' = [stream EXCEPT ![t] =
           [NoStream EXCEPT !.open = TRUE, !.start = clock, !.last = clock,
                             !.listeners = {u \in Tabs : /\ tab[u].channel
                                                         /\ u = t \/ tab[t].leader}]]
    /\ UNCHANGED <<clock, writes, table, late, tab, broadcast, told>>

\* The interval fires every 2 seconds.
StartPoll(t) ==
    /\ stream[t].open
    /\ Cardinality(stream[t].polls) < MaxPolls
    /\ stream' = [stream EXCEPT ![t].polls = @ \cup
           {[read |-> FALSE, after |-> stream[t].last, rows |-> {}]}]
    /\ UNCHANGED <<clock, writes, table, late, tab, broadcast, told>>

findUpdatedAfter(after) == {r \in table : r.at > after}

ReadPoll(t, p) ==
    /\ ~p.read
    /\ stream' = [stream EXCEPT ![t].polls = (@ \ {p}) \cup
           {[p EXCEPT !.read = TRUE, !.rows = findUpdatedAfter(p.after)]}]
    /\ UNCHANGED <<clock, writes, table, late, tab, broadcast, told>>

\* Mutant: lastChecked is the time of the answer.
CheckedAt(rows, last) == IF rows = {} THEN last ELSE clock

\* The last row's updatedAt: rows come in its ascending order.
LastChecked(rows, last) ==
    IF rows = {} THEN last
    ELSE CHOOSE at \in {r.at : r \in rows} : \A r \in rows : r.at <= at

\* The message reaches the tab; a leader posts it to the other tabs.
EndPoll(t, p) ==
    /\ p.read
    /\ stream' = [stream EXCEPT ![t].last = LastChecked(p.rows, @),
                                ![t].polls = @ \ {p}]
    /\ LET events == {r.event : r \in p.rows}
       IN /\ handleEvents(t, events)
          /\ broadcast' = [u \in Tabs |->
                 IF u # t /\ tab[u].channel /\ tab[t].leader
                 THEN broadcast[u] \cup events ELSE broadcast[u]]
    /\ UNCHANGED <<clock, writes, table, late, tab>>

\* The query fails: logged, and nothing else.
PollFails(t, p) ==
    /\ stream' = [stream EXCEPT ![t].polls = @ \ {p}]
    /\ UNCHANGED <<clock, writes, table, late, tab, broadcast, told>>

StreamNext ==
    /\ webLocks' = webLocks
    /\ \/ \E e \in Events : Stamp(e)
       \/ \E w \in writes : Commit(w)
       \/ StreamTick
       \/ \E t \in Tabs :
           \/ Subscribe(t) \/ Lead(t) \/ LockFails(t) \/ Unsubscribe(t) \/ CloseTab(t)
           \/ SourceFails(t) \/ Reconnect(t) \/ HearBroadcast(t) \/ Accept(t)
           \/ StartPoll(t)
           \/ \E p \in stream[t].polls :
                  ReadPoll(t, p) \/ EndPoll(t, p) \/ PollFails(t, p)

StreamSpec == StreamInit /\ [][StreamNext]_streamVars

-----------------------------------------------------------------------------
(* A stream skips nothing: an event stamped since the stream began and     *)
(* committed in the order of the stamps is still ahead of lastChecked, or  *)
(* has reached or is about to reach every tab that has listened since,     *)
(* however the polls overlap, fail or set lastChecked back.                *)
StreamComplete ==
    \A t \in Tabs, r \in table :
        stream[t].open /\ r.at > stream[t].start /\ r.event \notin late =>
            \/ r.at > stream[t].last
            \/ \A u \in stream[t].listeners : r.event \in told[u] \cup broadcast[u]

(* Where the browser has Web Locks, its tabs keep one stream between them, *)
(* not counting a tab whose request for the lock failed; and a leader      *)
(* never stays without a source for good: if it has none, a timer is set   *)
(* that connects it.  Through lock changes, failures, tabs that leave and  *)
(* come back, and timers that outlive both.                                *)
OneSource ==
    /\ webLocks =>
           \A t, u \in {v \in Tabs : tab[v].source /\ tab[v].lock # "refused"} : t = u
    /\ \A t \in Tabs : tab[t].leader => tab[t].source \/ tab[t].timers > 0
=============================================================================
