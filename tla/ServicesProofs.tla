--------------------------- MODULE ServicesProofs ---------------------------
(***************************************************************************)
(* Proofs about the parts of the servers that share no variable: the event *)
(* stream, the rate limits, the access tokens, the notification settings,  *)
(* the data migrations and the indexer process, and the types of those     *)
(* that MCServices puts together.  One section each, for any number of     *)
(* tabs, keys, tokens, forms, runners and requests, and any bounds.        *)
(***************************************************************************)
EXTENDS MCServices, IndexerProcess, FiniteSetTheorems, SequenceTheorems,
        WellFoundedInduction, TLAPS

-----------------------------------------------------------------------------
(* The event stream. The argument: a poll and its stream miss no row up to *)
(* their times (CompleteTo, RowsComplete), because a row committed behind  *)
(* another of its time or a later one is late, and every other one is      *)
(* ahead of them all.                                                      *)

(* A tab by itself: a leader has a source or will have one, and who leads  *)
(* where there are locks holds one; without the lead only a failed request *)
(* leads to a source, and nobody unsubscribed has one.                     *)
TabOK(a) ==
    /\ ~a.subscribed => a.lock = "none" /\ ~a.leader
    /\ a.source => a.leader \/ a.lock = "refused"
    /\ a.leader => a.source \/ a.timers > 0
    /\ a.lock \in {"waiting", "refused"} => ~a.leader
    /\ webLocks /\ a.leader => a.lock = "held"

(* The tabs: the lock has one holder, only a source has a stream; a tab    *)
(* that heard of the stream has a channel, and other tabs hear of a        *)
(* leader's only.                                                          *)
TabsInv ==
    \A t \in Tabs :
        /\ TabOK(tab[t])
        /\ tab[t].lock = "held" => \A u \in Tabs \ {t} : tab[u].lock # "held"
        /\ stream[t].open => tab[t].source
        /\ ~stream[t].open => stream[t] = NoStream
        /\ \A u \in stream[t].listeners : tab[u].channel /\ (u = t \/ tab[t].leader)

(* The rows: none is of the future, an event has one next row at most, and *)
(* no older one, and a late row has another beside it that is as new.                          *)
RowsInv ==
    /\ \A r \in table \cup writes : r.at <= clock
    /\ \A v, w \in writes : v.event = w.event => v = w
    /\ \A w \in writes, r \in table : r.event = w.event => r.at <= w.at
    /\ \A r \in table : r.event \in late =>
           \E s \in table : s.event # r.event /\ s.at >= r.at

Timely(r, x) == r.at > x.start /\ r.event \notin late

Delivered(x, e) == \A u \in x.listeners : e \in told[u] \cup broadcast[u]

\* Of the rows up to the time `at` the stream x misses none.
CompleteTo(x, at) ==
    /\ at >= x.start
    /\ at > x.start => \E s \in table : s.at >= at
    /\ \A r \in table : Timely(r, x) /\ r.at <= at => Delivered(x, r.event)

\* A poll's rows: they were in the table and newer ones of their events may have
\* come since; those up to any of them are among them or delivered.
RowsComplete(x, rows) ==
    \A s \in rows :
        /\ s.at > x.start
        /\ \E r \in table : r.event = s.event /\ r.at >= s.at
        /\ \A r \in table : Timely(r, x) /\ r.at <= s.at =>
               (\E q \in rows : q.event = r.event) \/ Delivered(x, r.event)

PollOK(x, p) == CompleteTo(x, p.after) /\ RowsComplete(x, p.rows)

StreamOK(x) == CompleteTo(x, x.last) /\ \A p \in x.polls : PollOK(x, p)

Connection == [open : BOOLEAN, start : 0..MaxClock, last : 0..MaxClock,
               listeners : SUBSET Tabs, polls : SUBSET PollState]

StreamsOK ==
    \A t \in Tabs, x \in Connection : x = stream[t] /\ x.open => StreamOK(x)

StreamInv == StreamTypeOK /\ TabsInv /\ RowsInv /\ StreamsOK

(* Two of the constants are numbers.                                       *)
LEMMA StreamNumbers == MaxClock \in Nat /\ MaxTimers \in Nat
BY StreamAssumption

(* Rows of a poll have a last one.                                         *)
LEMMA LastRow ==
    ASSUME NEW rows \in SUBSET StoredRow, rows # {}, NEW last
    PROVE  /\ \E s \in rows : s.at = LastChecked(rows, last)
           /\ \A r \in rows : r.at <= LastChecked(rows, last)
<1> DEFINE T == {MaxClock - r.at : r \in rows}
<1>1. \A r \in rows : r.at \in Nat /\ MaxClock - r.at \in Nat
  BY StreamNumbers DEF StoredRow
<1>2. T \subseteq Nat /\ T # {}
  BY <1>1
<1>3. PICK x \in T : \A y \in T : ~ (<<y, x>> \in OpToRel(<, Nat))
  <2> HIDE DEF T
  <2> QED
    BY <1>2, NatLessThanWellFounded, WFMin
<1>4. PICK s \in rows : x = MaxClock - s.at
  OBVIOUS
<1>5. \A r \in rows : r.at <= s.at
  <2> SUFFICES ASSUME NEW r \in rows PROVE r.at <= s.at
    OBVIOUS
  <2>1. ~ (MaxClock - r.at < MaxClock - s.at)
    BY <1>1, <1>3, <1>4 DEF OpToRel
  <2> QED
    BY <1>1, <2>1, StreamNumbers
<1>6. s.at \in {r.at : r \in rows} /\ \A r \in rows : r.at <= s.at
  BY <1>5
<1>7. LastChecked(rows, last) =
          CHOOSE at \in {r.at : r \in rows} : \A r \in rows : r.at <= at
  BY DEF LastChecked
<1>8. /\ LastChecked(rows, last) \in {r.at : r \in rows}
      /\ \A r \in rows : r.at <= LastChecked(rows, last)
  BY <1>6, <1>7
<1> QED
  BY <1>8

(* What is complete stays so when events only get nearer to the tabs.      *)
LEMMA StreamRests ==
    ASSUME NEW x, StreamOK(x), UNCHANGED <<table, late>>,
           \A u \in x.listeners :
               told[u] \cup broadcast[u] \subseteq told'[u] \cup broadcast'[u]
    PROVE  StreamOK(x)'
<1>1. \A e : Delivered(x, e) => Delivered(x, e)'
  BY DEF Delivered
<1>2. \A at : CompleteTo(x, at) => CompleteTo(x, at)'
  BY <1>1 DEF CompleteTo, Timely
<1>3. \A rows : RowsComplete(x, rows) => RowsComplete(x, rows)'
  BY <1>1 DEF RowsComplete, Timely
<1> QED
  BY <1>2, <1>3 DEF StreamOK, PollOK

(* A row is committed: it is as new as what the streams have seen, or      *)
(* late.                                                                   *)
LEMMA CommitKeepsRows ==
    ASSUME StreamInv, NEW w \in writes, Commit(w)
    PROVE  RowsInv'
<1> USE DEF StreamInv
<1>1. /\ table' = {r \in table : r.event # w.event} \cup {w}
      /\ writes' = writes \ {w} /\ clock' = clock
      /\ table \subseteq StoredRow /\ writes \subseteq StoredRow
  BY DEF Commit, StreamTypeOK
<1>2. \A r \in table' \cup writes' : r.at <= clock'
  BY <1>1 DEF RowsInv
<1>3. ASSUME NEW v \in writes', NEW r \in table', r.event = v.event PROVE r.at <= v.at
  BY <1>1, <1>3 DEF RowsInv
<1>4. ASSUME NEW r \in table', r.event \in late'
      PROVE  \E s \in table' : s.event # r.event /\ s.at >= r.at
  <2>1. CASE r = w
    BY <1>1, <1>4, <2>1 DEF Commit
  <2>2. CASE r # w
    <3>1. r \in table /\ r.event # w.event /\ r.event \in late
      BY <1>1, <1>4, <2>2 DEF Commit
    <3>2. PICK s \in table : s.event # r.event /\ s.at >= r.at
      BY <3>1 DEF RowsInv
    <3>3. CASE s.event = w.event
      <4>1. s.at <= w.at
        BY <3>3 DEF RowsInv
      <4>2. w.at >= r.at
        BY <1>1, <3>1, <3>2, <4>1, StreamNumbers DEF StoredRow
      <4> QED
        BY <1>1, <3>1, <4>2
    <3> QED
      BY <1>1, <3>2, <3>3
  <2> QED
    BY <2>1, <2>2
<1> QED
  BY <1>1, <1>2, <1>3, <1>4 DEF RowsInv


(* No row is missed that is committed now: if a stream has gone past its   *)
(* time, the row it has seen there is of the same event, or this one is    *)
(* late.                                                                   *)
LEMMA CommitKeepsStreams ==
    ASSUME StreamInv, NEW w \in writes, Commit(w), NEW x \in Connection, StreamOK(x)
    PROVE  StreamOK(x)'
<1> USE DEF StreamInv
<1>1. /\ table' = {r \in table : r.event # w.event} \cup {w}
      /\ table \subseteq StoredRow /\ w \in StoredRow
      /\ UNCHANGED <<told, broadcast>>
  BY DEF Commit, StreamTypeOK
<1>2. x.start \in Nat /\ x.last \in Nat /\ \A r \in StoredRow : r.at \in Nat
  BY StreamNumbers DEF Connection, StoredRow
<1>3. \A e : Delivered(x, e) => Delivered(x, e)'
  BY <1>1 DEF Delivered
<1>4. \A r \in table' : r # w => /\ r \in table /\ r.event # w.event
                                 /\ Timely(r, x)' => Timely(r, x)
  BY <1>1 DEF Timely, Commit
<1>5. \A s \in table : \E r \in table' : r.at >= s.at
  <2> SUFFICES ASSUME NEW s \in table PROVE \E r \in table' : r.at >= s.at
    OBVIOUS
  <2>1. s.at <= s.at
    BY <1>1, <1>2
  <2>2. CASE s.event = w.event
    <3>1. s.at <= w.at
      BY <2>2 DEF RowsInv
    <3>2. w.at >= s.at
      BY <1>1, <1>2, <3>1
    <3> QED
      BY <1>1, <3>2
  <2>3. CASE s.event # w.event
    BY <1>1, <1>2, <2>3
  <2> QED
    BY <2>2, <2>3
<1>6. ASSUME NEW s \in table, s.at >= w.at, Timely(w, x)'
      PROVE  /\ s.event = w.event /\ s.at = w.at
             /\ Timely(s, x)
  <2>1. w.event \notin late'
    BY <1>6 DEF Timely
  <2>2. \A r \in table : r.event # w.event => ~ (r.at >= w.at)
    BY <2>1 DEF Commit
  <2>3. s.event = w.event
    BY <1>6, <2>2
  <2>4. s.at = w.at
    <3>1. s.at <= w.at
      BY <2>3 DEF RowsInv
    <3> QED
      BY <1>1, <1>2, <1>6, <3>1
  <2>5. s.event \notin late
    <3> SUFFICES ASSUME s.event \in late PROVE FALSE
      OBVIOUS
    <3>1. PICK r \in table : r.event # s.event /\ r.at >= s.at
      BY DEF RowsInv
    <3> QED
      BY <2>2, <2>3, <2>4, <3>1
  <2> QED
    BY <1>6, <2>3, <2>4, <2>5 DEF Timely
<1>7. ASSUME NEW at \in Nat, CompleteTo(x, at) PROVE CompleteTo(x, at)'
  <2>1. at > x.start => \E r \in table' : r.at >= at
    <3> SUFFICES ASSUME at > x.start PROVE \E r \in table' : r.at >= at
      OBVIOUS
    <3>1. PICK s \in table : s.at >= at
      BY <1>7 DEF CompleteTo
    <3>2. PICK r \in table' : r.at >= s.at
      BY <1>5
    <3>3. r \in StoredRow /\ s \in StoredRow
      BY <1>1
    <3> QED
      BY <1>2, <3>1, <3>2, <3>3
  <2>2. ASSUME NEW r \in table', Timely(r, x)', r.at <= at PROVE Delivered(x, r.event)'
    <3>1. CASE r # w
      BY <1>3, <1>4, <1>7, <2>2, <3>1 DEF CompleteTo
    <3>2. CASE r = w
      <4>1. at > x.start
        BY <1>1, <1>2, <2>2, <3>2 DEF Timely
      <4>2. PICK s \in table : s.at >= at
        BY <1>7, <4>1 DEF CompleteTo
      <4>3. s.at >= w.at
        BY <1>1, <1>2, <2>2, <3>2, <4>2
      <4>4. s.event = w.event /\ s.at = w.at /\ Timely(s, x)
        BY <1>6, <2>2, <3>2, <4>3
      <4> QED
        BY <1>3, <1>7, <2>2, <3>2, <4>4 DEF CompleteTo
    <3> QED
      BY <3>1, <3>2
  <2> QED
    BY <1>7, <2>1, <2>2 DEF CompleteTo
<1>8. ASSUME NEW rows \in SUBSET StoredRow, RowsComplete(x, rows)
      PROVE  RowsComplete(x, rows)'
  <2> SUFFICES ASSUME NEW s \in rows
               PROVE  /\ s.at > x.start
                      /\ \E r \in table' : r.event = s.event /\ r.at >= s.at
                      /\ \A r \in table' : Timely(r, x)' /\ r.at <= s.at =>
                             (\E q \in rows : q.event = r.event) \/ Delivered(x, r.event)'
    BY DEF RowsComplete
  <2>1. PICK v \in table : v.event = s.event /\ v.at >= s.at
    BY <1>8 DEF RowsComplete
  <2>2. s \in StoredRow /\ v \in StoredRow
    BY <1>1
  <2>3. \E r \in table' : r.event = s.event /\ r.at >= s.at
    <3>1. CASE v.event = w.event
      <4>1. v.at <= w.at
        BY <3>1 DEF RowsInv
      <4>2. w.at >= s.at
        BY <1>1, <1>2, <2>1, <2>2, <4>1
      <4> QED
        BY <1>1, <2>1, <3>1, <4>2
    <3> QED
      BY <1>1, <2>1, <3>1
  <2>4. ASSUME NEW r \in table', Timely(r, x)', r.at <= s.at
        PROVE  (\E q \in rows : q.event = r.event) \/ Delivered(x, r.event)'
    <3>1. CASE r # w
      BY <1>3, <1>4, <1>8, <2>4, <3>1 DEF RowsComplete
    <3>2. CASE r = w
      <4>1. v.at >= w.at
        BY <1>1, <1>2, <2>1, <2>2, <2>4, <3>2
      <4> QED
        BY <1>6, <2>1, <2>4, <3>2, <4>1
    <3> QED
      BY <3>1, <3>2
  <2> QED
    BY <1>8, <2>3, <2>4 DEF RowsComplete
<1>9. \A p \in x.polls : p.after \in Nat /\ p.rows \in SUBSET StoredRow
  BY StreamNumbers DEF Connection, PollState
<1> QED
  BY <1>2, <1>7, <1>8, <1>9 DEF StreamOK, PollOK

(* The streams of a state whose rows rest: those that stay as they were    *)
(* and one that may be new.                                                *)
LEMMA StreamsRest ==
    ASSUME StreamsOK, UNCHANGED <<table, late>>,
           StreamTypeOK,
           \A t \in Tabs, x \in Connection : x = stream'[t] /\ x.open =>
               \/ StreamOK(x)'
               \/ /\ x = stream[t]
                  /\ \A u \in x.listeners :
                         told[u] \cup broadcast[u] \subseteq told'[u] \cup broadcast'[u]
    PROVE  StreamsOK'
<1> SUFFICES ASSUME NEW t \in Tabs, NEW x \in Connection, x = stream'[t], x.open
             PROVE  StreamOK(x)'
  BY DEF StreamsOK
<1>1. CASE /\ x = stream[t]
           /\ \A u \in x.listeners :
                  told[u] \cup broadcast[u] \subseteq told'[u] \cup broadcast'[u]
  BY <1>1, StreamRests DEF StreamsOK
<1> QED
  BY <1>1

(* Rows and time.                                                          *)
LEMMA RowsKeep ==
    ASSUME StreamInv, webLocks' = webLocks,
           StreamTick \/ (\E e \in Events : Stamp(e)) \/ \E w \in writes : Commit(w)
    PROVE  StreamInv'
<1> USE DEF StreamInv
<1>1. /\ writes \subseteq StoredRow /\ table \subseteq StoredRow /\ clock \in 0..MaxClock
      /\ clock \in Nat /\ MaxClock \in Nat /\ \A r \in StoredRow : r.at \in Nat
  BY StreamNumbers DEF StreamTypeOK, StoredRow
<1>2. UNCHANGED <<tab, stream, broadcast, told>>
  BY DEF StreamTick, Stamp, Commit
<1>3. TabsInv'
  BY <1>2 DEF TabsInv, TabOK
<1>4. CASE StreamTick
  <2>1. /\ clock' = clock + 1 /\ clock < MaxClock /\ UNCHANGED <<writes, table, late>>
    BY <1>4 DEF StreamTick
  <2>2. StreamTypeOK'
    BY <1>1, <1>2, <2>1 DEF StreamTypeOK
  <2>3. RowsInv'
    <3>1. \A r \in table' \cup writes' : r.at <= clock'
      BY <1>1, <2>1 DEF RowsInv
    <3> QED
      BY <2>1, <3>1 DEF RowsInv
  <2>4. StreamsOK'
    BY <1>2, <2>1, StreamsRest
  <2> QED
    BY <1>3, <2>2, <2>3, <2>4
<1>5. ASSUME NEW e \in Events, Stamp(e) PROVE StreamInv'
  <2>1. PICK w : w = [event |-> e, at |-> clock]
    OBVIOUS
  <2>2. w \in StoredRow /\ w.event = e /\ w.at = clock
    BY <1>1, <2>1 DEF StoredRow
  <2>3. /\ writes' = writes \cup {w} /\ UNCHANGED <<clock, table, late>>
        /\ \A v \in writes : v.event # w.event
    BY <1>5, <2>1, <2>2 DEF Stamp
  <2>4. StreamTypeOK'
    BY <1>2, <2>2, <2>3 DEF StreamTypeOK
  <2>5. RowsInv'
    <3>1. \A r \in table' \cup writes' : r.at <= clock'
      BY <1>1, <2>2, <2>3 DEF RowsInv
    <3>2. \A u, v \in writes' : u.event = v.event => u = v
      BY <2>3 DEF RowsInv
    <3>3. \A v \in writes', r \in table' : r.event = v.event => r.at <= v.at
      BY <2>2, <2>3 DEF RowsInv
    <3> QED
      BY <2>3, <3>1, <3>2, <3>3 DEF RowsInv
  <2>6. StreamsOK'
    BY <1>2, <2>3, StreamsRest
  <2> QED
    BY <1>3, <2>4, <2>5, <2>6
<1>6. ASSUME NEW w \in writes, Commit(w) PROVE StreamInv'
  <2>1. StreamTypeOK'
    BY <1>2, <1>6 DEF Commit, StreamTypeOK, StoredRow
  <2>2. StreamsOK'
    <3> SUFFICES ASSUME NEW t \in Tabs, NEW x \in Connection, x = stream'[t], x.open
                 PROVE  StreamOK(x)'
      BY DEF StreamsOK
    <3>1. StreamOK(x)
      BY <1>2 DEF StreamsOK
    <3> QED
      BY <1>6, <3>1, CommitKeepsStreams
  <2> QED
    BY <1>3, <1>6, <2>1, <2>2, CommitKeepsRows
<1> QED
  BY <1>4, <1>5, <1>6

(* Tabs that come and go: a stream ends with its source.                   *)
LEMMA TabsKeep ==
    ASSUME StreamInv, webLocks' = webLocks, NEW t \in Tabs,
           \/ Subscribe(t) \/ Lead(t) \/ LockFails(t) \/ Unsubscribe(t) \/ CloseTab(t)
           \/ SourceFails(t) \/ Reconnect(t)
    PROVE  StreamInv'
<1> USE DEF StreamInv
<1> DEFINE Tab == [subscribed : BOOLEAN, lock : {"none", "waiting", "held", "refused"},
                   leader : BOOLEAN, source : BOOLEAN,
                   timers : 0..MaxTimers, channel : BOOLEAN]
<1>1. PICK a \in Tab : a = tab[t] /\ TabOK(a)
  BY DEF StreamTypeOK, TabsInv
<1>2. UNCHANGED <<clock, writes, table, late>>
  BY DEF Subscribe, Lead, LockFails, Unsubscribe, CloseTab, SourceFails, Reconnect
<1>3. RowsInv'
  BY <1>2 DEF RowsInv
<1>4. NoStream \in Connection /\ NoStream.open = FALSE /\ NoStream.listeners = {}
  BY StreamNumbers DEF NoStream, Connection
<1>5. /\ NewTab \in Tab /\ NewTab.lock = "none" /\ NewTab.source = FALSE
      /\ NewTab.leader = FALSE
  BY StreamNumbers DEF NewTab
<1>6. PICK b \in Tab :
          /\ tab' = [tab EXCEPT ![t] = b] /\ TabOK(b)
          /\ b.lock = "held" => \A u \in Tabs \ {t} : tab[u].lock # "held"
          /\ a.channel => b.channel \/ CloseTab(t)
          /\ \/ stream'[t] = NoStream
             \/ (a.source => b.source) /\ (a.leader => b.leader)
  <2>1. CASE Subscribe(t)
    <3>1. PICK lock \in {"waiting", "none"}, leads \in BOOLEAN :
              lock = (IF webLocks THEN "waiting" ELSE "none") /\ leads = ~webLocks
      OBVIOUS
    <3>2. PICK b : b = [a EXCEPT !.subscribed = TRUE, !.channel = TRUE, !.lock = lock,
                                 !.leader = leads, !.source = leads]
      OBVIOUS
    <3>3. /\ b \in Tab /\ b.lock = lock /\ b.channel = TRUE /\ b.source = leads
          /\ b.subscribed = TRUE /\ b.leader = leads
      BY <3>2
    <3>4. tab' = [tab EXCEPT ![t] = b] /\ ~a.subscribed
      BY <1>1, <2>1, <3>1, <3>2 DEF Subscribe, StreamTypeOK
    <3>5. TabOK(b)
      BY <3>1, <3>3 DEF TabOK, StreamTypeOK
    <3>6. ~a.leader /\ ~a.source
      BY <1>1, <3>4 DEF TabOK
    <3> QED
      BY <3>1, <3>3, <3>4, <3>5, <3>6
  <2>2. CASE Lead(t)
    <3>1. PICK b : b = [a EXCEPT !.lock = "held", !.leader = TRUE, !.source = TRUE]
      OBVIOUS
    <3>2. /\ b \in Tab /\ b.lock = "held" /\ b.channel = a.channel /\ b.source = TRUE
          /\ b.subscribed = a.subscribed /\ b.leader = TRUE
      BY <3>1
    <3>3. tab' = [tab EXCEPT ![t] = b] /\ \A u \in Tabs : tab[u].lock # "held"
      BY <1>1, <2>2, <3>1 DEF Lead, StreamTypeOK
    <3>4. a.subscribed
      BY <1>1, <2>2 DEF Lead, TabOK
    <3> QED
      BY <3>2, <3>3, <3>4 DEF TabOK
  <2>3. CASE LockFails(t)
    <3>1. PICK b : b = [a EXCEPT !.lock = "refused", !.source = TRUE]
      OBVIOUS
    <3>2. /\ b \in Tab /\ b.lock = "refused" /\ b.channel = a.channel /\ b.source = TRUE
          /\ b.subscribed = a.subscribed /\ b.leader = a.leader
      BY <3>1
    <3>3. tab' = [tab EXCEPT ![t] = b] /\ a.lock = "waiting"
      BY <1>1, <2>3, <3>1 DEF LockFails, StreamTypeOK
    <3>4. a.subscribed /\ ~a.leader
      BY <1>1, <3>3 DEF TabOK
    <3> QED
      BY <3>2, <3>3, <3>4 DEF TabOK
  <2>4. CASE Unsubscribe(t)
    <3>1. PICK b : b = [a EXCEPT !.subscribed = FALSE, !.lock = "none", !.leader = FALSE,
                                 !.source = FALSE]
      OBVIOUS
    <3>2. /\ b \in Tab /\ b.lock = "none" /\ b.channel = a.channel /\ b.source = FALSE
          /\ b.leader = FALSE
      BY <3>1
    <3>3. tab' = [tab EXCEPT ![t] = b] /\ stream'[t] = NoStream
      BY <1>1, <2>4, <3>1 DEF Unsubscribe, StreamTypeOK
    <3> QED
      BY <3>2, <3>3 DEF TabOK
  <2>5. CASE CloseTab(t)
    <3>1. tab' = [tab EXCEPT ![t] = NewTab] /\ stream'[t] = NoStream
      BY <2>5 DEF CloseTab
    <3> QED
      BY <1>5, <2>5, <3>1 DEF TabOK
  <2>6. CASE SourceFails(t)
    <3>1. PICK n : n = a.timers + 1
      OBVIOUS
    <3>2. PICK b : b = [a EXCEPT !.source = FALSE, !.timers = n]
      OBVIOUS
    <3>3. n \in 0..MaxTimers /\ n > 0
      BY <1>1, <2>6, <3>1, StreamNumbers DEF SourceFails
    <3>4. /\ b \in Tab /\ b.lock = a.lock /\ b.channel = a.channel /\ b.source = FALSE
          /\ b.timers > 0 /\ b.subscribed = a.subscribed /\ b.leader = a.leader
      BY <3>2, <3>3
    <3>5. tab' = [tab EXCEPT ![t] = b] /\ stream'[t] = NoStream
      BY <1>1, <2>6, <3>1, <3>2 DEF SourceFails, StreamTypeOK
    <3>6. TabOK(b)
      BY <1>1, <3>4 DEF TabOK
    <3> QED
      BY <1>1, <3>4, <3>5, <3>6 DEF TabsInv
  <2>7. CASE Reconnect(t)
    <3>1. PICK s \in BOOLEAN : s = (a.source \/ a.leader)
      OBVIOUS
    <3>2. PICK n : n = a.timers - 1
      OBVIOUS
    <3>3. PICK b : b = [a EXCEPT !.timers = n, !.source = s]
      OBVIOUS
    <3>4. n \in 0..MaxTimers
      BY <1>1, <2>7, <3>2, StreamNumbers DEF Reconnect
    <3>5. /\ b \in Tab /\ b.lock = a.lock /\ b.channel = a.channel /\ b.source = s
          /\ b.subscribed = a.subscribed /\ b.leader = a.leader
      BY <3>3, <3>4
    <3>6. tab' = [tab EXCEPT ![t] = b]
      BY <1>1, <2>7, <3>2, <3>1, <3>3 DEF Reconnect, StreamTypeOK
    <3>7. TabOK(b)
      BY <1>1, <3>1, <3>5 DEF TabOK
    <3> QED
      BY <1>1, <3>1, <3>5, <3>6, <3>7 DEF TabsInv
  <2> QED
    BY <2>1, <2>2, <2>3, <2>4, <2>5, <2>6, <2>7
<1>7. CASE CloseTab(t)
  <2>1. /\ tab' = [tab EXCEPT ![t] = NewTab]
        /\ stream' = [u \in Tabs |-> IF u = t THEN NoStream
                                     ELSE [stream[u] EXCEPT !.listeners = @ \ {t}]]
        /\ broadcast' = [broadcast EXCEPT ![t] = {}]
        /\ told' = [told EXCEPT ![t] = {}]
    BY <1>7 DEF CloseTab
  <2>2. ASSUME NEW u \in Tabs, u # t, NEW x, x = stream[u], NEW y, y = stream'[u]
        PROVE  /\ x \in Connection /\ y \in Connection
               /\ y.open = x.open /\ y.start = x.start /\ y.last = x.last
               /\ y.polls = x.polls /\ y.listeners = x.listeners \ {t}
               /\ x = NoStream => y = NoStream
    <3>1. x \in Connection
      BY <2>2 DEF StreamTypeOK, Connection
    <3>2. y = [x EXCEPT !.listeners = x.listeners \ {t}]
      BY <2>1, <2>2
    <3>3. /\ y \in Connection
          /\ y.open = x.open /\ y.start = x.start /\ y.last = x.last
          /\ y.polls = x.polls /\ y.listeners = x.listeners \ {t}
      BY <3>1, <3>2 DEF Connection
    <3>4. x = NoStream => y = NoStream
      BY <3>2 DEF NoStream
    <3> QED
      BY <3>1, <3>3, <3>4
  <2>3. StreamTypeOK'
    <3>1. stream' \in [Tabs -> Connection]
      <4>1. ASSUME NEW u \in Tabs PROVE stream'[u] \in Connection
        <5>1. CASE u = t
          BY <1>4, <2>1, <5>1
        <5>2. CASE u # t
          BY <2>2, <5>2
        <5> QED
          BY <5>1, <5>2
      <4> QED
        BY <2>1, <4>1
    <3> QED
      BY <1>2, <1>5, <2>1, <3>1 DEF StreamTypeOK, Connection
  <2>4. TabsInv'
    <3> SUFFICES ASSUME NEW u \in Tabs
                 PROVE  /\ TabOK(tab[u])'
                        /\ tab'[u].lock = "held" =>
                               \A v \in Tabs \ {u} : tab'[v].lock # "held"
                        /\ stream'[u].open => tab'[u].source
                        /\ ~stream'[u].open => stream'[u] = NoStream
                        /\ \A v \in stream'[u].listeners :
                               tab'[v].channel /\ (v = u \/ tab'[u].leader)
      BY DEF TabsInv
    <3>1. CASE u = t
      BY <1>4, <1>5, <2>1, <3>1 DEF NewTab, TabOK, StreamTypeOK
    <3>2. CASE u # t
      <4>1. /\ tab'[u] = tab[u]
            /\ \A v \in Tabs : tab'[v].lock = "held" => tab[v].lock = "held"
        BY <1>5, <2>1, <3>2 DEF StreamTypeOK
      <4>2. \A v \in Tabs \ {t} : tab'[v] = tab[v]
        BY <2>1 DEF StreamTypeOK
      <4>3. PICK x, y : x = stream[u] /\ y = stream'[u]
        OBVIOUS
      <4>4. /\ x \in Connection /\ y.open = x.open /\ y.listeners = x.listeners \ {t}
            /\ x = NoStream => y = NoStream
        BY <2>2, <3>2, <4>3
      <4>5. x.listeners \subseteq Tabs
        BY <4>4 DEF Connection
      <4>6. \A v \in y.listeners :
                v \in Tabs \ {t} /\ tab[v].channel /\ (v = u \/ tab[u].leader)
        BY <4>3, <4>4, <4>5 DEF TabsInv
      <4>7. \A v \in y.listeners : tab'[v].channel /\ (v = u \/ tab'[u].leader)
        BY <4>1, <4>2, <4>6
      <4>8. TabOK(tab[u])'
        BY <4>1 DEF TabsInv, TabOK
      <4> QED
        BY <4>1, <4>3, <4>4, <4>7, <4>8 DEF TabsInv
    <3> QED
      BY <3>1, <3>2
  <2>5. StreamsOK'
    <3> SUFFICES ASSUME NEW u \in Tabs, NEW z \in Connection, z = stream'[u], z.open
                 PROVE  StreamOK(z)'
      BY DEF StreamsOK
    <3>1. u # t
      BY <1>4, <2>1
    <3>2. PICK x, y : x = stream[u] /\ y = stream'[u]
      OBVIOUS
    <3>3. /\ x \in Connection
          /\ y.open = x.open /\ y.start = x.start /\ y.last = x.last
          /\ y.polls = x.polls /\ y.listeners = x.listeners \ {t}
      BY <2>2, <3>2, <3>1
    <3>4. StreamOK(x)
      BY <3>2, <3>3 DEF StreamsOK
    <3>5. \A e : Delivered(x, e) => Delivered(y, e)'
      BY <2>1, <3>2, <3>3 DEF Delivered, Connection, StreamTypeOK
    <3>6. \A at : CompleteTo(x, at) => CompleteTo(y, at)'
      BY <1>2, <3>3, <3>5 DEF CompleteTo, Timely
    <3>7. \A rows : RowsComplete(x, rows) => RowsComplete(y, rows)'
      BY <1>2, <3>3, <3>5 DEF RowsComplete, Timely
    <3>8. StreamOK(y)'
      BY <3>3, <3>4, <3>6, <3>7 DEF StreamOK, PollOK
    <3> QED
      BY <3>2, <3>8
  <2> QED
    BY <1>3, <2>3, <2>4, <2>5
<1>8. CASE ~ CloseTab(t)
  <2>1. /\ UNCHANGED <<broadcast, told>>
        /\ stream' = stream \/ stream' = [stream EXCEPT ![t] = NoStream]
    BY <1>8 DEF Subscribe, Lead, LockFails, Unsubscribe, SourceFails, Reconnect
  <2>2. StreamTypeOK'
    BY <1>2, <1>4, <1>6, <2>1 DEF StreamTypeOK, Connection
  <2>3. TabsInv'
    <3>1. \A u \in Tabs : u # t => tab'[u] = tab[u] /\ stream'[u] = stream[u]
      BY <1>6, <2>1 DEF StreamTypeOK
    <3>2. tab'[t] = b /\ (stream'[t] = stream[t] \/ stream'[t] = NoStream)
      BY <1>6, <2>1 DEF StreamTypeOK
    <3>3. stream'[t].open => b.source
      BY <1>1, <1>4, <1>6, <3>2 DEF TabsInv
    <3>4. \A u \in Tabs : tab[u].channel => tab'[u].channel
      BY <1>1, <1>6, <1>8, <3>1, <3>2
    <3>5. \A u \in Tabs : \A v \in stream'[u].listeners :
              v \in Tabs /\ tab'[v].channel /\ (v = u \/ tab'[u].leader)
      <4>1. ASSUME NEW u \in Tabs, NEW v \in stream'[u].listeners
            PROVE  v \in Tabs /\ tab'[v].channel /\ (v = u \/ tab'[u].leader)
        <5>1. stream'[u] = stream[u]
          BY <1>4, <3>1, <3>2, <4>1
        <5>2. v \in Tabs /\ tab[v].channel /\ (v = u \/ tab[u].leader)
          BY <4>1, <5>1 DEF TabsInv, StreamTypeOK
        <5>3. stream[u] # NoStream
          BY <1>4, <4>1, <5>1
        <5>4. tab[u].leader => tab'[u].leader
          BY <1>1, <1>6, <3>1, <3>2, <5>1, <5>3
        <5> QED
          BY <3>4, <5>2, <5>4
      <4> QED
        BY <4>1
    <3>6. \A u \in Tabs : ~stream'[u].open => stream'[u] = NoStream
      BY <3>1, <3>2 DEF TabsInv
    <3>7. \A u \in Tabs : TabOK(tab[u])' /\ (stream'[u].open => tab'[u].source)
      BY <1>6, <3>1, <3>2, <3>3 DEF TabsInv, TabOK
    <3>8. ASSUME NEW u \in Tabs, tab'[u].lock = "held"
          PROVE  \A v \in Tabs \ {u} : tab'[v].lock # "held"
      BY <1>6, <3>1, <3>2, <3>8 DEF TabsInv
    <3> QED
      BY <3>5, <3>6, <3>7, <3>8 DEF TabsInv
  <2>4. StreamsOK'
    BY <1>2, <1>4, <2>1, StreamsRest DEF StreamTypeOK
  <2> QED
    BY <1>3, <2>2, <2>3, <2>4
<1> QED
  BY <1>7, <1>8

(* A stream whose stream record becomes another of the same tab.           *)
LEMMA OneStream ==
    ASSUME StreamInv, NEW t \in Tabs, NEW x, x = stream[t], NEW y \in Connection,
           stream' = [stream EXCEPT ![t] = y],
           webLocks' = webLocks, tab[t].source, y.open,
           \A u \in y.listeners : tab[u].channel /\ (u = t \/ tab[t].leader),
           UNCHANGED <<clock, writes, table, late, tab>>,
           broadcast' \in [Tabs -> SUBSET Events] /\ told' \in [Tabs -> SUBSET Events],
           \A u \in Tabs : told[u] \cup broadcast[u] \subseteq told'[u] \cup broadcast'[u],
           StreamOK(y)'
    PROVE  StreamInv'
<1> USE DEF StreamInv
<1>1. StreamTypeOK'
  BY DEF StreamTypeOK, Connection
<1>2. RowsInv'
  BY DEF RowsInv
<1>3. /\ stream'[t] = y
      /\ \A u \in Tabs : u # t => stream'[u] = stream[u]
  BY DEF StreamTypeOK
<1>4. TabsInv'
  BY <1>3 DEF TabsInv, TabOK
<1>5. ASSUME NEW u \in Tabs, NEW z \in Connection, z = stream'[u], z.open
      PROVE  \/ StreamOK(z)'
             \/ /\ z = stream[u]
                /\ \A v \in z.listeners :
                       told[v] \cup broadcast[v] \subseteq told'[v] \cup broadcast'[v]
  <2>1. CASE u = t
    BY <1>3, <1>5, <2>1
  <2>2. CASE u # t
    <3>1. z = stream[u] /\ z.listeners \subseteq Tabs
      BY <1>3, <1>5, <2>2 DEF Connection
    <3> QED
      BY <3>1
  <2> QED
    BY <2>1, <2>2
<1> QED
  BY <1>1, <1>2, <1>4, <1>5, StreamsRest

(* A stream begins: it has nothing behind it.                              *)
LEMMA AcceptKeeps ==
    ASSUME StreamInv, webLocks' = webLocks, NEW t \in Tabs, Accept(t)
    PROVE  StreamInv'
<1> USE DEF StreamInv
<1>1. PICK y : y = [NoStream EXCEPT !.open = TRUE, !.start = clock, !.last = clock,
                                    !.listeners = {u \in Tabs : /\ tab[u].channel
                                                                /\ u = t \/ tab[t].leader}]
  OBVIOUS
<1>2. /\ y \in Connection /\ y.open /\ y.start = clock /\ y.last = clock /\ y.polls = {}
      /\ y.listeners = {u \in Tabs : tab[u].channel /\ (u = t \/ tab[t].leader)}
  BY <1>1 DEF NoStream, Connection, StreamTypeOK
<1>3. /\ stream' = [stream EXCEPT ![t] = y] /\ tab[t].source
      /\ UNCHANGED <<clock, writes, table, late, tab, broadcast, told>>
  BY <1>1 DEF Accept
<1>4. CompleteTo(y, y.last)
  <2>1. clock \in Nat /\ \A r \in table : r.at \in Nat /\ r.at <= clock
    BY StreamNumbers DEF RowsInv, StreamTypeOK, StoredRow
  <2> QED
    BY <1>2, <2>1 DEF CompleteTo, Timely
<1>5. StreamOK(y)'
  <2>1. StreamOK(y)
    BY <1>2, <1>4 DEF StreamOK
  <2> QED
    BY <1>3, <2>1, StreamRests
<1> QED
  BY <1>2, <1>3, <1>5, OneStream DEF StreamTypeOK

(* A poll begins where the stream is, and reads what is behind it.         *)
LEMMA PollKeeps ==
    ASSUME StreamInv, webLocks' = webLocks, NEW t \in Tabs,
           \/ StartPoll(t)
           \/ \E p \in stream[t].polls : ReadPoll(t, p) \/ PollFails(t, p)
    PROVE  StreamInv'
<1> USE DEF StreamInv
<1>1. PICK x \in Connection : x = stream[t]
  BY DEF StreamTypeOK, Connection
<1>2. UNCHANGED <<clock, writes, table, late, tab, broadcast, told>>
  BY DEF StartPoll, ReadPoll, PollFails
<1>3. x.open /\ tab[t].source
  <2>1. x # NoStream \/ x.open
    BY <1>1 DEF StartPoll, NoStream
  <2> QED
    BY <1>1, <2>1 DEF TabsInv
<1>4. StreamOK(x)
  BY <1>1, <1>3 DEF StreamsOK
<1>5. ASSUME NEW polls \in SUBSET PollState, \A p \in polls : PollOK(x, p),
             stream' = [stream EXCEPT ![t].polls = polls]
      PROVE  StreamInv'
  <2>1. PICK y : y = [x EXCEPT !.polls = polls]
    OBVIOUS
  <2>2. /\ y \in Connection /\ y.open = x.open /\ y.start = x.start /\ y.last = x.last
        /\ y.polls = polls /\ y.listeners = x.listeners
    BY <2>1 DEF Connection
  <2>3. stream' = [stream EXCEPT ![t] = y]
    BY <1>1, <1>5, <2>1 DEF StreamTypeOK
  <2>4. StreamOK(y)
    <3>1. \A at : CompleteTo(x, at) => CompleteTo(y, at)
      BY <2>2 DEF CompleteTo, Timely, Delivered
    <3>2. \A rows : RowsComplete(x, rows) => RowsComplete(y, rows)
      BY <2>2 DEF RowsComplete, Timely, Delivered
    <3> QED
      BY <1>4, <1>5, <2>2, <3>1, <3>2 DEF StreamOK, PollOK
  <2>5. StreamOK(y)'
    BY <1>2, <2>4, StreamRests
  <2>6. \A u \in y.listeners : tab[u].channel /\ (u = t \/ tab[t].leader)
    BY <1>1, <2>2 DEF TabsInv
  <2> QED
    BY <1>1, <1>2, <1>3, <2>2, <2>3, <2>5, <2>6, OneStream DEF StreamTypeOK
<1>6. x.polls \in SUBSET PollState
  BY DEF Connection
<1>7. CASE StartPoll(t)
  <2>1. PICK p : p = [read |-> FALSE, after |-> x.last, rows |-> {}]
    OBVIOUS
  <2>2. p \in PollState /\ p.after = x.last /\ p.rows = {}
    BY <2>1 DEF PollState, Connection
  <2>3. stream' = [stream EXCEPT ![t].polls = x.polls \cup {p}]
    BY <1>1, <1>7, <2>1 DEF StartPoll
  <2>4. PollOK(x, p)
    BY <1>4, <2>2 DEF StreamOK, PollOK, RowsComplete
  <2>5. \A q \in x.polls \cup {p} : PollOK(x, q)
    BY <1>4, <2>4 DEF StreamOK
  <2> QED
    BY <1>5, <1>6, <2>2, <2>3, <2>5
<1>8. ASSUME NEW p \in x.polls, PollFails(t, p) PROVE StreamInv'
  <2>1. stream' = [stream EXCEPT ![t].polls = x.polls \ {p}]
    BY <1>1, <1>8 DEF PollFails
  <2> QED
    BY <1>4, <1>5, <1>6, <2>1 DEF StreamOK
<1>9. ASSUME NEW p \in x.polls, ReadPoll(t, p) PROVE StreamInv'
  <2>1. PICK rows : rows = findUpdatedAfter(p.after)
    OBVIOUS
  <2>2. PICK q : q = [p EXCEPT !.read = TRUE, !.rows = rows]
    OBVIOUS
  <2>3. rows \in SUBSET StoredRow /\ p \in PollState
    BY <1>6, <2>1 DEF findUpdatedAfter, StreamTypeOK
  <2>4. q \in PollState /\ q.after = p.after /\ q.rows = rows
    BY <2>2, <2>3 DEF PollState
  <2>5. stream' = [stream EXCEPT ![t].polls = (x.polls \ {p}) \cup {q}]
    BY <1>1, <1>9, <2>1, <2>2 DEF ReadPoll
  <2>6. CompleteTo(x, p.after)
    BY <1>4 DEF StreamOK, PollOK
  <2>7. RowsComplete(x, rows)
    <3> SUFFICES ASSUME NEW s \in rows
                 PROVE  /\ s.at > x.start
                        /\ \E r \in table : r.event = s.event /\ r.at >= s.at
                        /\ \A r \in table : Timely(r, x) /\ r.at <= s.at =>
                             (\E o \in rows : o.event = r.event) \/ Delivered(x, r.event)
      BY DEF RowsComplete
    <3>1. s \in table /\ s.at > p.after /\ \A r \in table : r.at > p.after => r \in rows
      BY <2>1 DEF findUpdatedAfter
    <3>2. /\ \A r \in table : r.at \in Nat
          /\ x.start \in Nat /\ p.after \in Nat
      BY <2>3, StreamNumbers DEF StreamTypeOK, StoredRow, Connection, PollState
    <3>3. s.at > x.start /\ s.at >= s.at
      BY <2>6, <3>1, <3>2 DEF CompleteTo
    <3>4. ASSUME NEW r \in table, Timely(r, x)
          PROVE  (\E o \in rows : o.event = r.event) \/ Delivered(x, r.event)
      <4>1. CASE r.at > p.after
        BY <3>1, <4>1
      <4>2. CASE r.at <= p.after
        BY <2>6, <3>4, <4>2 DEF CompleteTo
      <4> QED
        BY <3>2, <4>1, <4>2
    <3> QED
      BY <3>1, <3>3, <3>4
  <2>8. PollOK(x, q)
    BY <2>4, <2>6, <2>7 DEF PollOK
  <2>9. \A o \in (x.polls \ {p}) \cup {q} : PollOK(x, o)
    BY <1>4, <2>8 DEF StreamOK
  <2> QED
    BY <1>5, <1>6, <2>4, <2>5, <2>9
<1> QED
  BY <1>1, <1>7, <1>8, <1>9

(* A poll's rows reach the tabs, and the stream is at the last of them.    *)
LEMMA EndPollKeeps ==
    ASSUME StreamInv, webLocks' = webLocks, NEW t \in Tabs, NEW p \in stream[t].polls, EndPoll(t, p)
    PROVE  StreamInv'
<1> USE DEF StreamInv
<1>1. PICK x \in Connection : x = stream[t]
  BY DEF StreamTypeOK, Connection
<1>2. UNCHANGED <<clock, writes, table, late, tab>>
  BY DEF EndPoll
<1>3. x.open /\ tab[t].source
  <2>1. x # NoStream
    BY <1>1 DEF NoStream
  <2> QED
    BY <1>1, <2>1 DEF TabsInv
<1>4. StreamOK(x)
  BY <1>1, <1>3 DEF StreamsOK
<1>5. p \in PollState /\ p \in x.polls /\ p.rows \in SUBSET StoredRow
  BY <1>1 DEF Connection, PollState
<1>6. PICK events : events = {r.event : r \in p.rows}
  OBVIOUS
<1>7. /\ events \subseteq Events
      /\ \A r \in p.rows : r.event \in events
  BY <1>5, <1>6 DEF StoredRow
<1>8. /\ told' = [told EXCEPT ![t] = told[t] \cup events]
      /\ broadcast' = [u \in Tabs |->
             IF u # t /\ tab[u].channel /\ tab[t].leader
             THEN broadcast[u] \cup events ELSE broadcast[u]]
  BY <1>6 DEF EndPoll, handleEvents
<1>9. /\ told' \in [Tabs -> SUBSET Events] /\ broadcast' \in [Tabs -> SUBSET Events]
      /\ \A u \in Tabs : /\ told[u] \subseteq told'[u] /\ broadcast[u] \subseteq broadcast'[u]
                         /\ told[u] \cup broadcast[u] \subseteq told'[u] \cup broadcast'[u]
  BY <1>7, <1>8 DEF StreamTypeOK
<1>10. PICK last : last = LastChecked(p.rows, x.last)
  OBVIOUS
<1>11. PICK y : y = [x EXCEPT !.last = last, !.polls = x.polls \ {p}]
  OBVIOUS
<1>12. stream' = [stream EXCEPT ![t] = y]
  BY <1>1, <1>10, <1>11 DEF EndPoll, StreamTypeOK
<1>13. \/ p.rows = {} /\ last = x.last
       \/ (\E s \in p.rows : s.at = last)
  <2>1. CASE p.rows = {}
    BY <1>10, <2>1 DEF LastChecked
  <2>2. CASE p.rows # {}
    BY <1>5, <1>10, <2>2, LastRow
  <2> QED
    BY <2>1, <2>2
<1>14. last \in 0..MaxClock
  BY <1>5, <1>13 DEF Connection, StoredRow
<1>15. /\ y \in Connection /\ y.open = x.open /\ y.start = x.start /\ y.last = last
       /\ y.polls = x.polls \ {p} /\ y.listeners = x.listeners
  BY <1>11, <1>14 DEF Connection
<1>16. StreamOK(x)'
  <2>1. x.listeners \subseteq Tabs
    BY DEF Connection
  <2> QED
    BY <1>2, <1>4, <1>9, <2>1, StreamRests
<1>17. \A r \in p.rows : Delivered(x, r.event)'
  <2> SUFFICES ASSUME NEW r \in p.rows, NEW u \in x.listeners
               PROVE  r.event \in told'[u] \cup broadcast'[u]
    BY DEF Delivered
  <2>1. u \in Tabs /\ tab[u].channel /\ (u = t \/ tab[t].leader)
    BY <1>1 DEF Connection, TabsInv
  <2>2. CASE u = t
    BY <1>7, <1>8, <2>1, <2>2 DEF StreamTypeOK
  <2>3. CASE u # t
    BY <1>3, <1>7, <1>8, <2>1, <2>3
  <2> QED
    BY <2>2, <2>3
<1>18. CompleteTo(x, last)'
  <2>1. CASE last = x.last
    BY <1>16, <2>1 DEF StreamOK
  <2>2. ASSUME NEW s \in p.rows, s.at = last PROVE CompleteTo(x, last)'
    <3>1. RowsComplete(x, p.rows)'
      BY <1>5, <1>16 DEF StreamOK, PollOK
    <3>2. s.at \in Nat /\ x.start \in Nat
      BY <1>5, StreamNumbers DEF StoredRow, Connection
    <3>3. /\ s.at >= x.start
          /\ \E r \in table' : r.at >= s.at
          /\ \A r \in table' : Timely(r, x)' /\ r.at <= s.at => Delivered(x, r.event)'
      BY <1>17, <3>1, <3>2 DEF RowsComplete
    <3> QED
      BY <2>2, <3>3 DEF CompleteTo
  <2> QED
    BY <1>13, <2>1, <2>2
<1>19. StreamOK(y)'
  <2>1. \A at : CompleteTo(x, at)' => CompleteTo(y, at)'
    BY <1>15 DEF CompleteTo, Timely, Delivered
  <2>2. \A rows : RowsComplete(x, rows)' => RowsComplete(y, rows)'
    BY <1>15 DEF RowsComplete, Timely, Delivered
  <2> QED
    BY <1>15, <1>16, <1>18, <2>1, <2>2 DEF StreamOK, PollOK
<1>20. \A u \in y.listeners : tab[u].channel /\ (u = t \/ tab[t].leader)
  BY <1>1, <1>15 DEF TabsInv
<1> QED
  BY <1>1, <1>2, <1>3, <1>9, <1>12, <1>15, <1>19, <1>20, OneStream

(* A tab hears of an event: it has it still.                               *)
LEMMA HearKeeps ==
    ASSUME StreamInv, webLocks' = webLocks, NEW t \in Tabs, HearBroadcast(t)
    PROVE  StreamInv'
<1> USE DEF StreamInv
<1>1. PICK e \in broadcast[t] :
          /\ told' = [told EXCEPT ![t] = told[t] \cup {e}]
          /\ broadcast' = [broadcast EXCEPT ![t] = broadcast[t] \ {e}]
  BY DEF HearBroadcast, handleEvents
<1>2. UNCHANGED <<clock, writes, table, late, tab, stream>>
  BY DEF HearBroadcast
<1>3. StreamTypeOK'
  BY <1>1, <1>2 DEF StreamTypeOK
<1>4. TabsInv' /\ RowsInv'
  BY <1>2 DEF TabsInv, TabOK, RowsInv
<1>5. \A u \in Tabs : told[u] \cup broadcast[u] \subseteq told'[u] \cup broadcast'[u]
  BY <1>1 DEF StreamTypeOK
<1>6. \A x \in Connection : x.listeners \subseteq Tabs
  BY DEF Connection
<1>7. StreamsOK'
  BY <1>2, <1>5, <1>6, StreamsRest
<1> QED
  BY <1>3, <1>4, <1>7

(* The first state.                                                        *)
LEMMA StreamStart == StreamInit => StreamInv
<1> SUFFICES ASSUME StreamInit PROVE StreamInv
  OBVIOUS
<1>1. NoStream \in Connection /\ NoStream.open = FALSE /\ NoStream.listeners = {}
  BY StreamNumbers DEF NoStream, Connection
<1>2. StreamTypeOK
  BY <1>1, StreamNumbers DEF StreamInit, StreamTypeOK, Connection, NewTab
<1>3. TabsInv
  BY <1>1 DEF StreamInit, TabsInv, TabOK, NewTab
<1>4. RowsInv /\ StreamsOK
  BY <1>1 DEF StreamInit, RowsInv, StreamsOK
<1> QED
  BY <1>2, <1>3, <1>4 DEF StreamInv

(* Every step.                                                             *)
LEMMA StreamStep == StreamInv /\ [StreamNext]_streamVars => StreamInv'
<1> SUFFICES ASSUME StreamInv, [StreamNext]_streamVars PROVE StreamInv'
  OBVIOUS
<1>1. CASE UNCHANGED streamVars
  <2>1. StreamTypeOK' /\ TabsInv' /\ RowsInv'
    BY <1>1 DEF streamVars, StreamInv, StreamTypeOK, TabsInv, TabOK, RowsInv
  <2>2. StreamsOK'
    BY <1>1, StreamsRest DEF streamVars, StreamInv
  <2> QED
    BY <2>1, <2>2 DEF StreamInv
<1>2. CASE StreamNext
  BY <1>2, RowsKeep, TabsKeep, AcceptKeeps, PollKeeps, EndPollKeeps, HearKeeps
     DEF StreamNext
<1> QED
  BY <1>1, <1>2

(* The event stream skips no event that is committed in order.             *)
THEOREM StreamSkipsNothing == StreamSpec => []StreamComplete
<1>1. StreamInv => StreamComplete
  <2> SUFFICES ASSUME StreamInv, NEW t \in Tabs, NEW r \in table,
                      stream[t].open, r.at > stream[t].start, r.event \notin late
               PROVE  \/ r.at > stream[t].last
                      \/ \A u \in stream[t].listeners : r.event \in told[u] \cup broadcast[u]
    BY DEF StreamComplete
  <2>1. PICK x \in Connection : x = stream[t]
    BY DEF StreamInv, StreamTypeOK, Connection
  <2>2. CompleteTo(x, x.last)
    BY <2>1 DEF StreamInv, StreamsOK, StreamOK
  <2>3. r.at \in Nat /\ x.last \in Nat
    BY StreamNumbers DEF StreamInv, StreamTypeOK, StoredRow, Connection
  <2>4. CASE r.at <= x.last
    BY <2>1, <2>2, <2>4 DEF CompleteTo, Timely, Delivered
  <2> QED
    BY <2>1, <2>3, <2>4
<1> QED
  BY <1>1, StreamStart, StreamStep, PTL DEF StreamSpec

(* Tabs of a browser with Web Locks keep one stream, not counting a tab    *)
(* whose request for the lock failed; and a leader without one has a timer *)
(* in any browser.                                                         *)
THEOREM TabsShareOneSource == StreamSpec => []OneSource
<1>1. StreamInv => OneSource
  BY DEF StreamInv, TabsInv, TabOK, OneSource
<1> QED
  BY <1>1, StreamStart, StreamStep, PTL DEF StreamSpec

-----------------------------------------------------------------------------
(* The rate limits. The argument: the times that passed are in order, and  *)
(* the window is their end; what is before the window has left it. So a    *)
(* request that passes while fewer than the maximum are in the window      *)
(* comes a window's length after the one that many places before it.       *)

(* A set of natural numbers that is not empty has a least element.         *)
LEMMA LeastOf ==
    ASSUME NEW S \in SUBSET Nat, S # {}
    PROVE  \E x \in S : \A y \in S : x <= y
<1> DEFINE R == {ss \in Nat \X Nat : ss[1] < ss[2]}
<1>1. IsWellFoundedOn(R, Nat)
  BY NatLessThanWellFounded DEF OpToRel
<1>2. PICK x \in S : \A y \in S : ~(<<y, x>> \in R)
  <2> HIDE DEF R
  <2> QED BY <1>1, WFMin
<1>3. ASSUME NEW y \in S PROVE x <= y
  <2>1. y \in Nat /\ x \in Nat /\ ~(<<y, x>> \in R)
    BY <1>2
  <2> QED
    BY <2>1
<1> QED
  BY <1>3

(* p, the times that passed, against w, the window, at the time n.         *)
Orderly(p, w, n, max) ==
    /\ \A i, j \in 1..Len(p) : i <= j => p[i] <= p[j]
    /\ \A i \in 1..Len(p) : p[i] <= n
    /\ Len(w) <= Len(p)
    /\ \A i \in 1..Len(w) : w[i] = p[i + (Len(p) - Len(w))]
    /\ \A i \in 1..(Len(p) - Len(w)) : p[i] <= n - WindowLength
    /\ \A i \in 1..Len(p) : i + max <= Len(p) => p[i] + WindowLength <= p[i + max]

LEMMA LimitNumbers ==
    /\ WindowLength \in Nat \ {0} /\ MaxTime \in Nat
    /\ \A l \in Limiters : Limit(l) \in Nat \ {0}
BY LimitAssumption DEF Limit, Limiters

(* Pruning drops the times up to the first one that is in the window.      *)
LEMMA LiveIsSuffix ==
    ASSUME NEW times \in Seq(0..MaxTime), now \in 0..MaxTime
    PROVE  \E n \in 0..Len(times) :
               /\ \A i \in 1..n : times[i] <= now - WindowLength
               /\ Live(times) = SubSeq(times, n + 1, Len(times))
<1> DEFINE cutoff == now - WindowLength
           Prunes(n) == /\ \A i \in 1..n : times[i] <= cutoff
                        /\ n < Len(times) => times[n + 1] > cutoff
           kept == {i \in 1..Len(times) : times[i] > cutoff}
<1>1. Len(times) \in Nat /\ cutoff \in Int /\ \A i \in 1..Len(times) : times[i] \in Int
  <2>1. \A i \in 1..Len(times) : times[i] \in 0..MaxTime
    BY ElementOfSeq
  <2> QED
    BY <2>1, LimitNumbers
<1>2. \E n \in 0..Len(times) : Prunes(n)
  <2> HIDE DEF cutoff
  <2>1. CASE kept = {}
    <3>1. Prunes(Len(times)) /\ Len(times) \in 0..Len(times)
      BY <2>1, <1>1
    <3> HIDE DEF Prunes
    <3> QED
      BY <3>1
  <2>2. CASE kept # {}
    <3>1. kept \in SUBSET Nat
      OBVIOUS
    <3>2. PICK m \in kept : \A i \in kept : m <= i
      <4> HIDE DEF kept
      <4> QED BY <2>2, <3>1, LeastOf
    <3>3. m \in 1..Len(times) /\ m - 1 \in 0..Len(times) /\ (m - 1) + 1 = m
      BY <3>2, <1>1
    <3>4. \A i \in 1..(m - 1) : times[i] <= cutoff
      BY <3>2, <3>3, <1>1
    <3> QED
      BY <3>2, <3>3, <3>4
  <2> QED
    BY <2>1, <2>2
<1> DEFINE n == CHOOSE n \in 0..Len(times) : Prunes(n)
<1>3. n \in 0..Len(times) /\ Prunes(n)
  <2> HIDE DEF Prunes
  <2> QED BY <1>2
<1>4. Live(times) = SubSeq(times, n + 1, Len(times))
  BY DEF Live
<1> HIDE DEF n
<1> QED
  BY <1>3, <1>4

(* So what it drops has left the window.                                   *)
LEMMA LiveOrderly ==
    ASSUME NEW p \in Seq(0..MaxTime), NEW w \in Seq(0..MaxTime),
           NEW max \in Nat \ {0}, now \in 0..MaxTime, Orderly(p, w, now, max)
    PROVE  /\ Live(w) \in Seq(0..MaxTime)
           /\ Orderly(p, Live(w), now, max)
<1> DEFINE v == Live(w)
<1>1. PICK n \in 0..Len(w) : /\ \A i \in 1..n : w[i] <= now - WindowLength
                            /\ v = SubSeq(w, n + 1, Len(w))
  BY LiveIsSuffix
<1> HIDE DEF v
<1>2. Len(w) \in Nat /\ Len(p) \in Nat /\ n \in Nat /\ n <= Len(w) /\ now \in Nat
  BY LimitNumbers
<1>3. v \in Seq(0..MaxTime) /\ Len(v) = Len(w) - n /\ \A i \in 1..Len(v) : v[i] = w[n + i]
  <2> DEFINE m == n + 1
  <2>1. m \in Nat /\ m = n + 1 /\ m \in 1..Len(w) + 1
    BY <1>2
  <2> HIDE DEF m
  <2>2. ASSUME NEW i \in m..Len(w) PROVE w[i] \in 0..MaxTime
    <3>1. i \in 1..Len(w)
      BY <2>1, <1>2
    <3> QED
      BY <3>1, ElementOfSeq
  <2>3. /\ SubSeq(w, m, Len(w)) \in Seq(0..MaxTime)
        /\ Len(SubSeq(w, m, Len(w))) = (IF m <= Len(w) THEN Len(w) - m + 1 ELSE 0)
        /\ \A i \in 1..Len(w) - m + 1 : SubSeq(w, m, Len(w))[i] = w[m + i - 1]
    BY <2>2, <2>1, <1>2, SubSeqProperties
  <2>4. v = SubSeq(w, m, Len(w)) /\ Len(w) - m + 1 = Len(w) - n
    BY <1>1, <1>2, <2>1
  <2>5. Len(v) = Len(w) - n
    <3>1. Len(SubSeq(w, m, Len(w))) = Len(w) - n
      BY <2>1, <2>3, <1>2
    <3> QED
      BY <3>1, <2>4
  <2>6. ASSUME NEW i \in 1..Len(v) PROVE v[i] = w[n + i]
    <3>1. i \in 1..Len(w) - m + 1 /\ m + i - 1 = n + i
      <4>1. i \in Int /\ 1 <= i /\ i <= Len(w) - n
        BY <2>5, <1>2
      <4> QED
        BY <4>1, <2>1, <1>2
    <3> QED
      BY <3>1, <2>3, <2>4
  <2> QED
    BY <2>3, <2>4, <2>5, <2>6
<1>4. ASSUME NEW i \in 1..Len(v) PROVE v[i] = p[i + (Len(p) - Len(v))]
  <2>1. n + i \in 1..Len(w)
    BY <1>2, <1>3
  <2>2. w[n + i] = p[(n + i) + (Len(p) - Len(w))]
    BY <2>1 DEF Orderly
  <2>3. (n + i) + (Len(p) - Len(w)) = i + (Len(p) - Len(v))
    BY <1>2, <1>3
  <2> QED
    BY <1>3, <2>2, <2>3
<1>5. ASSUME NEW i \in 1..(Len(p) - Len(v)) PROVE p[i] <= now - WindowLength
  <2>1. CASE i <= Len(p) - Len(w)
    BY <2>1, <1>2 DEF Orderly
  <2>2. CASE i > Len(p) - Len(w)
    <3> DEFINE j == i - (Len(p) - Len(w))
    <3>1. j \in 1..n /\ j \in 1..Len(w) /\ j + (Len(p) - Len(w)) = i
      BY <2>2, <1>2, <1>3
    <3>2. w[j] = p[j + (Len(p) - Len(w))]
      BY <3>1 DEF Orderly
    <3> QED
      BY <3>1, <3>2, <1>1
  <2> QED
    BY <2>1, <2>2, <1>2, <1>3
<1> QED
  BY <1>2, <1>3, <1>4, <1>5 DEF Orderly, v

(* A request that passes comes last, a window's length after the one that  *)
(* many places before it.                                                  *)
LEMMA AppendOrderly ==
    ASSUME NEW p \in Seq(0..MaxTime), NEW w \in Seq(0..MaxTime),
           NEW max \in Nat \ {0}, NEW n \in 0..MaxTime,
           Orderly(p, w, n, max), Len(w) < max
    PROVE  Orderly(Append(p, n), Append(w, n), n, max)
<1> DEFINE q == Append(p, n)
<1> DEFINE v == Append(w, n)
<1>1. /\ Len(p) \in Nat /\ Len(w) \in Nat /\ n \in Nat
      /\ \A i \in 1..Len(p) : p[i] \in Nat
  BY LimitNumbers
<1>2. /\ Len(q) = Len(p) + 1 /\ q[Len(p) + 1] = n
      /\ \A i \in 1..Len(p) : q[i] = p[i]
  BY AppendProperties
<1>3. /\ Len(v) = Len(w) + 1 /\ v[Len(w) + 1] = n
      /\ \A i \in 1..Len(w) : v[i] = w[i]
  BY AppendProperties
<1> HIDE DEF q, v
<1>4. ASSUME NEW i \in 1..Len(q) PROVE q[i] <= n /\ q[i] \in Nat
  <2>1. CASE i = Len(p) + 1
    BY <2>1, <1>1, <1>2
  <2>2. CASE i \in 1..Len(p)
    BY <2>2, <1>1, <1>2 DEF Orderly
  <2> QED
    BY <2>1, <2>2, <1>1, <1>2
<1>5. ASSUME NEW i \in 1..Len(q), NEW j \in 1..Len(q), i <= j PROVE q[i] <= q[j]
  <2>1. CASE j = Len(p) + 1
    BY <2>1, <1>2, <1>4
  <2>2. CASE j \in 1..Len(p)
    <3>1. i \in 1..Len(p)
      BY <2>2, <1>1, <1>5
    <3> QED
      BY <2>2, <3>1, <1>2, <1>5 DEF Orderly
  <2> QED
    BY <2>1, <2>2, <1>1, <1>2
<1>6. ASSUME NEW i \in 1..Len(v) PROVE v[i] = q[i + (Len(q) - Len(v))]
  <2>1. Len(q) - Len(v) = Len(p) - Len(w) /\ Len(w) <= Len(p)
    BY <1>1, <1>2, <1>3 DEF Orderly
  <2>2. CASE i = Len(w) + 1
    <3>1. i + (Len(q) - Len(v)) = Len(p) + 1
      BY <2>1, <2>2, <1>1
    <3> QED
      BY <3>1, <2>2, <1>2, <1>3
  <2>3. CASE i \in 1..Len(w)
    <3>1. i + (Len(p) - Len(w)) \in 1..Len(p)
      BY <2>1, <2>3, <1>1
    <3> QED
      BY <3>1, <2>1, <2>3, <1>2, <1>3 DEF Orderly
  <2> QED
    BY <2>2, <2>3, <1>1, <1>3
<1>7. ASSUME NEW i \in 1..(Len(q) - Len(v)) PROVE q[i] <= n - WindowLength
  <2>1. i \in 1..(Len(p) - Len(w)) /\ i \in 1..Len(p)
    BY <1>1, <1>2, <1>3 DEF Orderly
  <2> QED
    BY <2>1, <1>2 DEF Orderly
<1>8. ASSUME NEW i \in 1..Len(q), i + max <= Len(q)
      PROVE  q[i] + WindowLength <= q[i + max]
  <2>1. i \in 1..Len(p) /\ q[i] = p[i] /\ p[i] \in Nat
    BY <1>1, <1>2, <1>8
  <2>2. CASE i + max = Len(p) + 1
    <3>1. i \in 1..(Len(p) - Len(w))
      BY <2>1, <2>2, <1>1
    <3>2. p[i] <= n - WindowLength
      BY <3>1 DEF Orderly
    <3>3. q[i + max] = n
      BY <2>2, <1>2
    <3> QED
      BY <3>2, <3>3, <2>1, <1>1, LimitNumbers
  <2>3. CASE i + max <= Len(p)
    <3>1. q[i + max] = p[i + max]
      BY <2>1, <2>3, <1>1, <1>2
    <3>2. p[i] + WindowLength <= p[i + max]
      BY <2>1, <2>3 DEF Orderly
    <3> QED
      BY <3>1, <3>2, <2>1
  <2>4. i + max = Len(p) + 1 \/ i + max <= Len(p)
    BY <1>1, <1>2, <1>8
  <2> QED
    BY <2>2, <2>3, <2>4
<1>9. Len(v) <= Len(q)
  BY <1>1, <1>2, <1>3 DEF Orderly
<1> QED
  BY <1>4, <1>5, <1>6, <1>7, <1>8, <1>9 DEF Orderly, q, v

(* What has left the window stays out of it.                               *)
LEMMA LaterOrderly ==
    ASSUME NEW p \in Seq(0..MaxTime), NEW w \in Seq(0..MaxTime),
           NEW max \in Nat \ {0}, NEW n \in Nat, NEW m \in Nat,
           Orderly(p, w, n, max), n <= m
    PROVE  Orderly(p, w, m, max)
<1>1. /\ Len(p) \in Nat /\ Len(w) \in Nat
      /\ \A i \in 1..Len(p) : p[i] \in Nat
  BY LimitNumbers
<1>2. ASSUME NEW i \in 1..Len(p) PROVE p[i] <= m
  BY <1>1, <1>2 DEF Orderly
<1>3. ASSUME NEW i \in 1..(Len(p) - Len(w)) PROVE p[i] <= m - WindowLength
  <2>1. p[i] <= n - WindowLength /\ i \in 1..Len(p)
    BY <1>1 DEF Orderly
  <2> QED
    BY <2>1, <1>1, LimitNumbers
<1> QED
  BY <1>2, <1>3 DEF Orderly

(* No window of any length of time holds more than the maximum.            *)
LEMMA OrderlyBounds ==
    ASSUME NEW p \in Seq(0..MaxTime), NEW w, NEW n \in Nat,
           NEW max \in Nat \ {0}, Orderly(p, w, n, max), NEW t \in Nat
    PROVE  Cardinality({i \in DOMAIN p : p[i] \in (t - WindowLength + 1)..t}) <= max
<1> DEFINE S == {i \in DOMAIN p : p[i] \in (t - WindowLength + 1)..t}
<1>1. /\ Len(p) \in Nat /\ DOMAIN p = 1..Len(p)
      /\ \A i \in 1..Len(p) : p[i] \in Nat
  BY LimitNumbers
<1>2. CASE S = {}
  <2>1. Cardinality(S) = 0
    <3> HIDE DEF S
    <3> QED BY <1>2, FS_EmptySet
  <2> QED
    BY <2>1
<1>3. CASE S # {}
  <2>1. S \in SUBSET Nat
    BY <1>1
  <2>2. PICK m \in S : \A i \in S : m <= i
    <3> HIDE DEF S
    <3> QED BY <2>1, <1>3, LeastOf
  <2>3. m \in 1..Len(p) /\ p[m] \in (t - WindowLength + 1)..t
    BY <2>2, <1>1
  <2>4. ASSUME NEW i \in S PROVE i \in m..(m + max - 1)
    <3>1. i \in 1..Len(p) /\ p[i] <= t /\ p[i] \in Nat /\ m <= i
      BY <2>2, <1>1
    <3>2. SUFFICES ASSUME i >= m + max PROVE FALSE
      BY <3>1, <2>3
    <3>3. m + max \in 1..Len(p) /\ m + max <= Len(p)
      BY <3>1, <3>2, <2>3, <1>1
    <3>4. p[m] + WindowLength <= p[m + max]
      BY <3>3, <2>3 DEF Orderly
    <3>5. p[m + max] <= p[i]
      BY <3>1, <3>2, <3>3 DEF Orderly
    <3>6. p[m] \in Nat /\ p[m + max] \in Nat /\ p[m] >= t - WindowLength + 1
      BY <3>3, <2>3, <1>1
    <3> DEFINE first == p[m]
               next == p[m + max]
               this == p[i]
    <3>7. /\ first \in Nat /\ next \in Nat /\ this \in Nat
          /\ first >= t - WindowLength + 1 /\ first + WindowLength <= next
          /\ next <= this /\ this <= t
      BY <3>1, <3>4, <3>5, <3>6
    <3> HIDE DEF first, next, this
    <3> QED
      BY <3>7, LimitNumbers
  <2>5. /\ IsFiniteSet(m..(m + max - 1))
        /\ Cardinality(m..(m + max - 1)) = max
    <3> DEFINE last == m + max - 1
    <3>1. m \in Int /\ last \in Int /\ m <= last /\ last - m + 1 = max
      BY <2>3
    <3> HIDE DEF last
    <3>2. /\ IsFiniteSet(m..last)
          /\ Cardinality(m..last) = IF m > last THEN 0 ELSE last - m + 1
      BY <3>1, FS_Interval
    <3>3. Cardinality(m..last) = max
      BY <3>1, <3>2
    <3> QED
      BY <3>2, <3>3 DEF last
  <2>6. S \in SUBSET (m..(m + max - 1))
    BY <2>4
  <2>7. Cardinality(S) <= Cardinality(m..(m + max - 1))
    <3> HIDE DEF S
    <3> QED BY <2>5, <2>6, FS_Subset
  <2> QED
    BY <2>5, <2>7
<1> QED
  BY <1>2, <1>3

LimitInv ==
    /\ LimitTypeOK
    /\ \A l \in Limiters, k \in Keys : Orderly(passed[l][k], window[l][k], now, Limit(l))

(* What a step may do to one limiter's times of one key.                   *)
Records(l, k) ==
    \/ /\ passed'[l][k] = passed[l][k] /\ now \in 0..MaxTime /\ now' \in 0..MaxTime
       /\ now <= now'
       /\ window'[l][k] \in {window[l][k], Live(window[l][k])}
    \/ /\ now' = now
       /\ Len(Live(window[l][k])) < Limit(l)
       /\ window'[l][k] = Append(Live(window[l][k]), now)
       /\ passed'[l][k] = Append(passed[l][k], now)

LEMMA RecordsKeep ==
    ASSUME LimitInv, NEW l \in Limiters, NEW k \in Keys, Records(l, k)
    PROVE  /\ window'[l][k] \in Seq(0..MaxTime) /\ passed'[l][k] \in Seq(0..MaxTime)
           /\ Orderly(passed'[l][k], window'[l][k], now', Limit(l))
<1> DEFINE p == passed[l][k]
<1> DEFINE w == window[l][k]
<1>1. /\ p \in Seq(0..MaxTime) /\ w \in Seq(0..MaxTime) /\ now \in 0..MaxTime
      /\ Orderly(p, w, now, Limit(l)) /\ Limit(l) \in Nat \ {0}
  BY LimitNumbers DEF LimitInv, LimitTypeOK
<1>2. Live(w) \in Seq(0..MaxTime) /\ Orderly(p, Live(w), now, Limit(l))
  <2> HIDE DEF p, w
  <2> QED BY <1>1, LiveOrderly
<1>3. CASE /\ passed'[l][k] = p /\ now' \in 0..MaxTime /\ now <= now'
           /\ window'[l][k] \in {w, Live(w)}
  <2>1. now \in Nat /\ now' \in Nat
    BY <1>1, <1>3, LimitNumbers
  <2>2. Orderly(p, w, now', Limit(l)) /\ Orderly(p, Live(w), now', Limit(l))
    <3> HIDE DEF p, w
    <3> QED BY <1>1, <1>2, <1>3, <2>1, LaterOrderly
  <2>3. CASE window'[l][k] = w
    BY <2>2, <2>3, <1>1, <1>3
  <2>4. CASE window'[l][k] = Live(w)
    BY <2>2, <2>4, <1>1, <1>2, <1>3
  <2> QED
    BY <2>3, <2>4, <1>3
<1>4. CASE /\ now' = now /\ Len(Live(w)) < Limit(l)
           /\ window'[l][k] = Append(Live(w), now) /\ passed'[l][k] = Append(p, now)
  <2>1. Orderly(Append(p, now), Append(Live(w), now), now, Limit(l))
    <3> HIDE DEF p, w
    <3> QED BY <1>1, <1>2, <1>4, AppendOrderly
  <2>2. /\ Append(Live(w), now) \in Seq(0..MaxTime)
        /\ Append(p, now) \in Seq(0..MaxTime)
    <3> HIDE DEF p, w
    <3> QED BY <1>1, <1>2, AppendProperties
  <2> QED
    BY <2>1, <2>2, <1>4
<1> QED
  BY <1>3, <1>4 DEF Records

(* The steps that leave all times alone.                                   *)
LEMMA RequestsMove ==
    ASSUME LimitInv, UNCHANGED <<now, window, passed, advised>>,
           request' \in [Requests -> [at : Limiters \cup {"none", "handled", "refused"},
                                      key : Keys]]
    PROVE  LimitInv'
BY DEF LimitInv, LimitTypeOK

LEMMA GoTypes ==
    ASSUME LimitInv, NEW r \in Requests, NEW at \in Limiters \cup {"none", "handled", "refused"},
           Go(r, at)
    PROVE  request' \in [Requests -> [at : Limiters \cup {"none", "handled", "refused"},
                                      key : Keys]]
BY DEF LimitInv, LimitTypeOK, Go

LEMMA MarkTypes ==
    ASSUME LimitInv, NEW r \in Requests, NEW at \in {"none", "refused"},
           request' = [request EXCEPT ![r].at = at]
    PROVE  request' \in [Requests -> [at : Limiters \cup {"none", "handled", "refused"},
                                      key : Keys]]
<1>1. request[r] \in [at : Limiters \cup {"none", "handled", "refused"}, key : Keys]
  BY DEF LimitInv, LimitTypeOK
<1>2. [request[r] EXCEPT !.at = at]
          \in [at : Limiters \cup {"none", "handled", "refused"}, key : Keys]
  BY <1>1
<1> QED
  BY <1>2 DEF LimitInv, LimitTypeOK

(* The steps that record, prune or let time pass.                          *)
LEMMA TimesMove ==
    ASSUME LimitInv, now' \in 0..MaxTime,
           \A l \in Limiters : /\ window'[l] = [k \in Keys |-> window'[l][k]]
                               /\ passed'[l] = [k \in Keys |-> passed'[l][k]],
           window' = [l \in Limiters |-> window'[l]],
           passed' = [l \in Limiters |-> passed'[l]],
           \A l \in Limiters, k \in Keys : Records(l, k),
           request' \in [Requests -> [at : Limiters \cup {"none", "handled", "refused"},
                                      key : Keys]],
           advised' \in [Limiters -> [Keys -> 0..MaxTime + WindowLength]]
    PROVE  LimitInv'
<1>1. \A l \in Limiters, k \in Keys :
          /\ window'[l][k] \in Seq(0..MaxTime) /\ passed'[l][k] \in Seq(0..MaxTime)
          /\ Orderly(passed'[l][k], window'[l][k], now', Limit(l))
  BY RecordsKeep
<1>2. /\ window' \in [Limiters -> [Keys -> Seq(0..MaxTime)]]
      /\ passed' \in [Limiters -> [Keys -> Seq(0..MaxTime)]]
  BY <1>1
<1> QED
  BY <1>1, <1>2 DEF LimitInv, LimitTypeOK

LEMMA ArriveKeeps ==
    ASSUME LimitInv, NEW r \in Requests, Arrive(r)
    PROVE  LimitInv'
BY GoTypes, RequestsMove DEF Arrive, Limiters

LEMMA FinishedKeeps ==
    ASSUME LimitInv, NEW r \in Requests, Finished(r)
    PROVE  LimitInv'
BY MarkTypes, RequestsMove DEF Finished

LEMMA PassTimeKeeps ==
    ASSUME LimitInv, PassTime
    PROVE  LimitInv'
<1>1. /\ now \in 0..MaxTime /\ now' \in 0..MaxTime /\ now <= now'
      /\ UNCHANGED <<window, request, passed, advised>>
  BY LimitNumbers DEF PassTime, LimitInv, LimitTypeOK
<1>2. \A l \in Limiters, k \in Keys : Records(l, k)
  BY <1>1 DEF Records
<1> QED
  BY <1>1, <1>2, TimesMove DEF LimitInv, LimitTypeOK

LEMMA CleanUpKeeps ==
    ASSUME LimitInv, CleanUp
    PROVE  LimitInv'
<1>1. /\ window' = [window EXCEPT !["tier"] = [k \in Keys |-> Live(@[k])]]
      /\ UNCHANGED <<now, request, passed, advised>>
  BY DEF CleanUp
<1>2. \A l \in Limiters, k \in Keys : window'[l][k] \in {window[l][k], Live(window[l][k])}
  BY <1>1 DEF LimitInv, LimitTypeOK
<1>3. \A l \in Limiters, k \in Keys : Records(l, k)
  BY <1>1, <1>2, LimitNumbers DEF Records, LimitInv, LimitTypeOK
<1>4. /\ window' = [l \in Limiters |-> window'[l]]
      /\ \A l \in Limiters : window'[l] = [k \in Keys |-> window'[l][k]]
  BY <1>1 DEF LimitInv, LimitTypeOK
<1> QED
  BY <1>1, <1>3, <1>4, TimesMove DEF LimitInv, LimitTypeOK

LEMMA RefusedKeeps ==
    ASSUME LimitInv, NEW r \in Requests, NEW l \in Limiters, NEW k \in Keys, Refused(r, l, k)
    PROVE  LimitInv'
<1> DEFINE live == Live(window[l][k])
<1>1. /\ Len(live) >= Limit(l)
      /\ window' = [window EXCEPT ![l] = [window[l] EXCEPT ![k] = live]]
      /\ advised' = [advised EXCEPT ![l] = [advised[l] EXCEPT ![k] = Head(live) + WindowLength]]
      /\ UNCHANGED <<now, passed>>
      /\ request' = [request EXCEPT ![r].at = "refused"]
  BY DEF Refused, LimitInv, LimitTypeOK
<1>2. live \in Seq(0..MaxTime)
  BY LiveOrderly, LimitNumbers DEF LimitInv, LimitTypeOK
<1>3. Head(live) \in 0..MaxTime
  <2>1. live # <<>>
    BY <1>1, LimitNumbers
  <2> HIDE DEF live
  <2> QED
    BY <1>2, <2>1, HeadTailProperties
<1>4. Head(live) + WindowLength \in 0..MaxTime + WindowLength
  BY <1>3, LimitNumbers
<1> HIDE DEF live
<1>5. advised' \in [Limiters -> [Keys -> 0..MaxTime + WindowLength]]
  BY <1>1, <1>4 DEF LimitInv, LimitTypeOK
<1>6. \A m \in Limiters, j \in Keys : window'[m][j] \in {window[m][j], Live(window[m][j])}
  BY <1>1 DEF LimitInv, LimitTypeOK, live
<1>7. ASSUME NEW m \in Limiters, NEW j \in Keys PROVE Records(m, j)
  <2>1. now \in 0..MaxTime /\ now <= now' /\ passed'[m][j] = passed[m][j]
    BY <1>1, LimitNumbers DEF LimitInv, LimitTypeOK
  <2>2. now' \in 0..MaxTime
    BY <1>1, <2>1
  <2> QED
    BY <1>6, <2>1, <2>2 DEF Records
<1>8. /\ window' = [m \in Limiters |-> window'[m]]
      /\ \A m \in Limiters : window'[m] = [j \in Keys |-> window'[m][j]]
  BY <1>1 DEF LimitInv, LimitTypeOK
<1>9. /\ passed' = [m \in Limiters |-> passed'[m]]
      /\ \A m \in Limiters : passed'[m] = [j \in Keys |-> passed'[m][j]]
      /\ now' \in 0..MaxTime
  BY <1>1 DEF LimitInv, LimitTypeOK
<1>10. request' \in [Requests -> [at : Limiters \cup {"none", "handled", "refused"},
                                  key : Keys]]
  BY <1>1, MarkTypes
<1> QED
  BY <1>5, <1>7, <1>8, <1>9, <1>10, TimesMove

LEMMA AdmittedKeeps ==
    ASSUME LimitInv, NEW r \in Requests, NEW l \in Limiters, NEW k \in Keys, Admitted(r, l, k)
    PROVE  LimitInv'
<1> DEFINE live == Live(window[l][k])
<1>1. /\ Len(live) < Limit(l)
      /\ window' = [window EXCEPT ![l] = [window[l] EXCEPT ![k] = Append(live, now)]]
      /\ passed' = [passed EXCEPT ![l] = [passed[l] EXCEPT ![k] = Append(passed[l][k], now)]]
      /\ advised' = [advised EXCEPT ![l] = [advised[l] EXCEPT ![k] = 0]]
      /\ now' = now
  BY DEF Admitted, LimitInv, LimitTypeOK
<1>2. request' \in [Requests -> [at : Limiters \cup {"none", "handled", "refused"},
                                 key : Keys]]
  BY GoTypes DEF Admitted, Limiters
<1> HIDE DEF live
<1>3. advised' \in [Limiters -> [Keys -> 0..MaxTime + WindowLength]]
  BY <1>1, LimitNumbers DEF LimitInv, LimitTypeOK
<1>4. ASSUME NEW m \in Limiters, NEW j \in Keys PROVE Records(m, j)
  <2>1. CASE m = l /\ j = k
    <3>1. window'[l][k] = Append(live, now) /\ passed'[l][k] = Append(passed[l][k], now)
      BY <1>1 DEF LimitInv, LimitTypeOK
    <3> QED
      BY <3>1, <2>1, <1>1 DEF Records, live
  <2>2. CASE ~(m = l /\ j = k)
    <3>1. window'[m][j] = window[m][j] /\ passed'[m][j] = passed[m][j]
      BY <2>2, <1>1 DEF LimitInv, LimitTypeOK
    <3> QED
      BY <3>1, <1>1, LimitNumbers DEF Records, LimitInv, LimitTypeOK
  <2> QED
    BY <2>1, <2>2
<1>5. /\ window' = [m \in Limiters |-> window'[m]]
      /\ passed' = [m \in Limiters |-> passed'[m]]
      /\ \A m \in Limiters : /\ window'[m] = [j \in Keys |-> window'[m][j]]
                             /\ passed'[m] = [j \in Keys |-> passed'[m][j]]
  BY <1>1 DEF LimitInv, LimitTypeOK
<1>6. now' \in 0..MaxTime
  BY <1>1 DEF LimitInv, LimitTypeOK
<1> QED
  BY <1>2, <1>3, <1>4, <1>5, <1>6, TimesMove

LEMMA LimitStart == LimitInit => LimitInv
<1> SUFFICES ASSUME LimitInit PROVE LimitInv
  OBVIOUS
<1>1. LimitTypeOK
  BY LimitNumbers DEF LimitInit, LimitTypeOK, NoTimes
<1>2. \A l \in Limiters, k \in Keys : passed[l][k] = <<>> /\ window[l][k] = <<>>
  BY DEF LimitInit, NoTimes
<1>3. ASSUME NEW l \in Limiters PROVE Orderly(<<>>, <<>>, now, Limit(l))
  <2>1. Len(<<>>) = 0 /\ 1..0 = {}
    OBVIOUS
  <2>2. Limit(l) \in Nat \ {0}
    BY LimitNumbers
  <2> QED
    BY <2>1, <2>2 DEF Orderly
<1> QED
  BY <1>1, <1>2, <1>3 DEF LimitInv

LEMMA LimitStep == LimitInv /\ [LimitNext]_limitVars => LimitInv'
<1> SUFFICES ASSUME LimitInv, [LimitNext]_limitVars PROVE LimitInv'
  OBVIOUS
<1>1. CASE UNCHANGED limitVars
  BY <1>1 DEF limitVars, LimitInv, LimitTypeOK
<1>2. CASE \E r \in Requests : Arrive(r) \/ Finished(r)
  BY <1>2, ArriveKeeps, FinishedKeeps
<1>3. CASE \E r \in Requests : Check(r)
  BY <1>3, RefusedKeeps, AdmittedKeeps DEF Check
<1>4. CASE CleanUp
  BY <1>4, CleanUpKeeps
<1>5. CASE PassTime
  BY <1>5, PassTimeKeeps
<1> QED
  BY <1>1, <1>2, <1>3, <1>4, <1>5 DEF LimitNext

LEMMA LimitsHold == LimitSpec => []LimitInv
BY LimitStart, LimitStep, PTL DEF LimitSpec

(* No limiter lets more requests of a key pass within a window's length    *)
(* than its maximum (pruneWindow, checkRateLimit and check), for any       *)
(* number of keys and requests and any order of checks and clean-ups.      *)
THEOREM WindowsAreBounded == LimitSpec => []WindowBound
<1>1. LimitInv => WindowBound
  <2> SUFFICES ASSUME LimitInv, NEW l \in Limiters, NEW k \in Keys, NEW t \in 0..now
               PROVE  Cardinality({i \in DOMAIN passed[l][k] :
                          passed[l][k][i] \in (t - WindowLength + 1)..t}) <= Limit(l)
    BY DEF WindowBound
  <2>1. /\ passed[l][k] \in Seq(0..MaxTime) /\ now \in Nat /\ t \in Nat
        /\ Limit(l) \in Nat \ {0} /\ Orderly(passed[l][k], window[l][k], now, Limit(l))
    BY LimitNumbers DEF LimitInv, LimitTypeOK
  <2> QED
    BY <2>1, OrderlyBounds
<1> QED
  BY <1>1, LimitsHold, PTL

-----------------------------------------------------------------------------
(* The access tokens. The argument: a token is revoked for good, so a      *)
(* request that is late stays one.                                         *)

(* A request is late because its token was revoked when it came, and that  *)
(* has been true ever since.                                               *)
LateIsRevoked ==
    \A r \in Readers : reader[r].late =>
        /\ \A t \in reader[r].token : tokenRow[t].state = "revoked"
        /\ reader[r].step # "admitted"

TokensInv == TokensTypeOK /\ LateIsRevoked

(* A step that leaves the requests alone and no revoked token active.      *)
LEMMA ReadersRest ==
    ASSUME LateIsRevoked, TokensTypeOK, reader' = reader,
           \A t \in Tokens : tokenRow[t].state = "revoked" => tokenRow'[t].state = "revoked"
    PROVE  LateIsRevoked'
BY DEF LateIsRevoked, TokensTypeOK

(* The panel's calls.                                                      *)
LEMMA CallTypes ==
    /\ NoCall \in PanelCall
    /\ \A op \in {"mount", "load", "create", "revoke"}, token \in SUBSET Tokens :
           [NoCall EXCEPT !.op = op, !.token = token] \in PanelCall
    /\ \A c \in PanelCall, answer \in {"ok", "error"}, list \in Listing :
           /\ [c EXCEPT !.answer = answer] \in PanelCall
           /\ [c EXCEPT !.answer = answer, !.list = list] \in PanelCall
    /\ {} \in Listing
BY DEF PanelCall, NoCall, Listing

(* The section and its calls keep their types; they change no row.         *)
LEMMA PanelKeeps ==
    ASSUME TokensInv,
           \/ \E t \in Tokens : CreateToken(t) \/ RevokeToken(t)
           \/ DismissToken
           \/ \E i \in 1..MaxPanelCalls :
                  ServeError(i) \/ ListAnswered(i) \/ ChangeAnswered(i) \/ CallLost(i)
    PROVE  TokensInv'
<1> USE DEF TokensInv
<1>1. UNCHANGED <<tokenRow, reader, useUpdate>>
  BY DEF CreateToken, RevokeToken, DismissToken, ServeError, ListAnswered, ChangeAnswered,
         CallLost
<1>2. LateIsRevoked'
  BY <1>1, ReadersRest
<1> DEFINE Section == [list : Listing, creating : BOOLEAN, plaintext : SUBSET Tokens,
                       error : BOOLEAN]
<1>3. panelCall' \in [1..MaxPanelCalls -> PanelCall]
  <2>1. ASSUME NEW i \in 1..MaxPanelCalls, NEW c \in PanelCall,
               panelCall' = [panelCall EXCEPT ![i] = c]
        PROVE  panelCall' \in [1..MaxPanelCalls -> PanelCall]
    BY <2>1 DEF TokensTypeOK
  <2>2. CASE \E t \in Tokens : CreateToken(t) \/ RevokeToken(t)
    <3>1. PICK i \in Free, op \in {"create", "revoke"}, token \in SUBSET Tokens :
              Send(i, op, token)
      BY <2>2 DEF CreateToken, RevokeToken
    <3> QED
      BY <2>1, <3>1, CallTypes DEF Send, Free
  <2>3. CASE DismissToken
    BY <2>3 DEF DismissToken, TokensTypeOK
  <2>4. ASSUME NEW i \in 1..MaxPanelCalls,
               ServeError(i) \/ ListAnswered(i) \/ ChangeAnswered(i) \/ CallLost(i)
        PROVE  panelCall' \in [1..MaxPanelCalls -> PanelCall]
    <3>1. CASE End(i)
      BY <2>1, <3>1, CallTypes DEF End
    <3>2. CASE Send(i, "load", {})
      BY <2>1, <3>2, CallTypes DEF Send
    <3>3. CASE ServeError(i)
      <4>1. PICK c \in PanelCall : c = panelCall[i]
        BY DEF TokensTypeOK
      <4>2. panelCall' = [panelCall EXCEPT ![i] = [c EXCEPT !.answer = "error"]]
        BY <3>3, <4>1 DEF ServeError, TokensTypeOK
      <4> QED
        BY <2>1, <4>2, CallTypes
    <3> QED
      BY <2>4, <3>1, <3>2, <3>3 DEF ListAnswered, ChangeAnswered, CallLost
  <2> QED
    BY <2>2, <2>3, <2>4
<1>4. panel' \in Section
  <2>1. ASSUME NEW t \in Tokens, CreateToken(t) PROVE panel' \in Section
    BY <2>1 DEF CreateToken, TokensTypeOK
  <2>2. ASSUME NEW t \in Tokens, RevokeToken(t) PROVE panel' \in Section
    BY <2>2 DEF RevokeToken, TokensTypeOK
  <2>3. CASE DismissToken
    BY <2>3 DEF DismissToken, TokensTypeOK
  <2>4. ASSUME NEW i \in 1..MaxPanelCalls, ServeError(i) \/ CallLost(i) PROVE panel' \in Section
    BY <2>4 DEF ServeError, CallLost, TokensTypeOK
  <2>5. ASSUME NEW i \in 1..MaxPanelCalls, ListAnswered(i) PROVE panel' \in Section
    <3>1. panelCall[i].list \in Listing
      BY DEF TokensTypeOK, PanelCall
    <3>2. {[x \in Tokens |-> "none"]} \in Listing
      BY DEF Listing, RowState
    <3> QED
      BY <2>5, <3>1, <3>2 DEF ListAnswered, TokensTypeOK
  <2>6. ASSUME NEW i \in 1..MaxPanelCalls, ChangeAnswered(i) PROVE panel' \in Section
    <3>1. panelCall[i].token \in SUBSET Tokens
      BY DEF TokensTypeOK, PanelCall
    <3>2. PICK c, e : /\ c = (panel.creating /\ ~ (panelCall[i].op = "create"))
                      /\ e = (panel.error \/ panelCall[i].answer = "error")
      OBVIOUS
    <3>3. PICK p : p = (IF panelCall[i].op = "create" /\ panelCall[i].answer = "ok"
                        THEN panelCall[i].token ELSE panel.plaintext)
      OBVIOUS
    <3>4. panel' = [panel EXCEPT !.creating = c, !.plaintext = p, !.error = e]
      BY <2>6, <3>2, <3>3 DEF ChangeAnswered
    <3>5. c \in BOOLEAN /\ e \in BOOLEAN
      BY <3>2
    <3>6. p \in SUBSET Tokens
      BY <3>1, <3>3 DEF TokensTypeOK
    <3> QED
      BY <3>4, <3>5, <3>6 DEF TokensTypeOK
  <2> QED
    BY <2>1, <2>2, <2>3, <2>4, <2>5, <2>6
<1> QED
  BY <1>1, <1>2, <1>3, <1>4 DEF TokensTypeOK

(* The routes: a token goes from none to active to revoked and no way      *)
(* back, for a revocation takes active tokens only.                        *)
LEMMA ServeKeeps ==
    ASSUME TokensInv, NEW i \in 1..MaxPanelCalls, Serve(i)
    PROVE  TokensInv'
<1> USE DEF TokensInv
<1>1. PICK c \in PanelCall : c = panelCall[i]
  BY DEF TokensTypeOK
<1>2. PICK target, new :
          /\ target = (CASE c.op = "create" -> "none" [] c.op = "revoke" -> "active"
                         [] OTHER -> "")
          /\ new = (IF c.op = "create" THEN "active" ELSE "revoked")
  OBVIOUS
<1>3. PICK found :
          /\ found = (\A t \in c.token : tokenRow[t].state = target)
          /\ tokenRow' = [t \in Tokens |-> IF t \in c.token /\ found
                                           THEN [tokenRow[t] EXCEPT !.state = new]
                                           ELSE tokenRow[t]]
  BY <1>1, <1>2 DEF Serve
<1>4. /\ target # "revoked"
      /\ new \in RowState
  BY <1>2 DEF RowState
<1>5. ASSUME NEW t \in Tokens
      PROVE  /\ tokenRow'[t] \in [state : RowState, used : BOOLEAN]
             /\ tokenRow[t].state = "revoked" => tokenRow'[t].state = "revoked"
  <2>1. tokenRow[t] \in [state : RowState, used : BOOLEAN]
    BY DEF TokensTypeOK
  <2>2. CASE t \in c.token /\ found
    <3>1. tokenRow[t].state # "revoked"
      BY <1>3, <1>4, <2>2
    <3> QED
      BY <1>3, <1>4, <2>1, <2>2, <3>1
  <2>3. CASE ~ (t \in c.token /\ found)
    BY <1>3, <2>1, <2>3
  <2> QED
    BY <2>2, <2>3
<1>6. LateIsRevoked'
  BY <1>5, ReadersRest DEF Serve
<1>7. panelCall' \in [1..MaxPanelCalls -> PanelCall]
  <2>1. {Listed} \in Listing
    BY DEF Listed, Listing, TokensTypeOK
  <2>2. PICK answer \in {"ok", "error"}, list \in Listing :
            panelCall' = [panelCall EXCEPT ![i].answer = answer, ![i].list = list]
    BY <2>1, CallTypes DEF Serve
  <2>3. PICK d : d = [c EXCEPT !.answer = answer, !.list = list]
    OBVIOUS
  <2>4. d \in PanelCall
    BY <2>3, CallTypes
  <2>5. panelCall' = [panelCall EXCEPT ![i] = d]
    BY <1>1, <2>2, <2>3 DEF TokensTypeOK
  <2> QED
    BY <2>4, <2>5 DEF TokensTypeOK
<1> QED
  BY <1>3, <1>5, <1>6, <1>7 DEF Serve, TokensTypeOK

(* The indexer: a late request is rejected, and no update of a use takes a *)
(* revocation back.                                                        *)
LEMMA ReaderKeeps ==
    ASSUME TokensInv, NEW r \in Readers,
           (\E t \in Tokens : Present(r, t)) \/ VerifyToken(r) \/ ReaderDone(r)
    PROVE  TokensInv'
<1> USE DEF TokensInv
<1> DEFINE Request == [step : {"none", "sent", "admitted", "rejected"},
                         token : SUBSET Tokens, late : BOOLEAN]
<1>1. UNCHANGED <<tokenRow, panel, panelCall>>
  BY DEF Present, VerifyToken, ReaderDone
<1>2. PICK q \in Request : q = reader[r]
  BY DEF TokensTypeOK
<1>3. ASSUME NEW new \in Request, reader' = [reader EXCEPT ![r] = new],
             new.late => /\ \A x \in new.token : tokenRow[x].state = "revoked"
                         /\ new.step # "admitted",
             useUpdate' \subseteq [token : Tokens, seen : {"active"}]
      PROVE  TokensInv'
  BY <1>1, <1>3 DEF TokensTypeOK, LateIsRevoked
<1>4. ASSUME NEW t \in Tokens, Present(r, t) PROVE TokensInv'
  <2>1. PICK l \in BOOLEAN : l = (tokenRow[t].state = "revoked")
    OBVIOUS
  <2>2. PICK new : new = [step |-> "sent", token |-> {t}, late |-> l]
    OBVIOUS
  <2>3. new \in Request /\ new.token = {t} /\ new.step = "sent" /\ new.late = l
    BY <2>2
  <2>4. reader' = [reader EXCEPT ![r] = new] /\ useUpdate' = useUpdate
    BY <1>4, <2>1, <2>2 DEF Present
  <2> QED
    BY <1>3, <2>1, <2>3, <2>4 DEF TokensTypeOK
<1>5. CASE VerifyToken(r)
  <2>1. PICK x \in q.token :
            /\ reader' = [reader EXCEPT ![r].step = IF tokenRow[x].state = "active"
                                                    THEN "admitted" ELSE "rejected"]
            /\ \/ useUpdate' = useUpdate \cup {[token |-> x, seen |-> "active"]}
               \/ useUpdate' = useUpdate
    BY <1>2, <1>5 DEF VerifyToken
  <2>2. PICK step \in {"admitted", "rejected"} :
            step = (IF tokenRow[x].state = "active" THEN "admitted" ELSE "rejected")
    OBVIOUS
  <2>3. PICK new : new = [q EXCEPT !.step = step]
    OBVIOUS
  <2>4. /\ new \in Request /\ new.token = q.token /\ new.late = q.late /\ new.step = step
        /\ x \in Tokens
    BY <2>3
  <2>5. reader' = [reader EXCEPT ![r] = new]
    BY <1>2, <2>1, <2>2, <2>3 DEF TokensTypeOK
  <2>6. new.late => /\ \A y \in new.token : tokenRow[y].state = "revoked"
                    /\ new.step # "admitted"
    BY <1>2, <2>2, <2>4 DEF LateIsRevoked
  <2>7. useUpdate' \subseteq [token : Tokens, seen : {"active"}]
    BY <2>1, <2>4 DEF TokensTypeOK
  <2> QED
    BY <1>3, <2>4, <2>5, <2>6, <2>7
<1>6. CASE ReaderDone(r)
  <2>1. NoReader \in Request /\ NoReader.late = FALSE
    BY DEF NoReader
  <2> QED
    BY <1>3, <1>6, <2>1 DEF ReaderDone, TokensTypeOK
<1> QED
  BY <1>4, <1>5, <1>6

(* The update of a use changes no state.                                   *)
LEMMA UseKeeps ==
    ASSUME TokensInv, NEW u \in useUpdate, RecordUse(u) \/ UseNotRecorded(u)
    PROVE  TokensInv'
<1> USE DEF TokensInv
<1>1. u.token \in Tokens
  BY DEF TokensTypeOK
<1>2. PICK rows \in [Tokens -> [state : RowState, used : BOOLEAN]] : rows = tokenRow
  BY DEF TokensTypeOK
<1>3. PICK row : row = [rows[u.token] EXCEPT !.used = TRUE]
  OBVIOUS
<1>4. row \in [state : RowState, used : BOOLEAN] /\ row.state = rows[u.token].state
  BY <1>1, <1>3
<1>5. tokenRow' = rows \/ tokenRow' = [rows EXCEPT ![u.token] = row]
  BY <1>2, <1>3 DEF RecordUse, UseNotRecorded
<1>6. tokenRow' \in [Tokens -> [state : RowState, used : BOOLEAN]]
  BY <1>4, <1>5
<1>7. LateIsRevoked'
  <2>1. \A t \in Tokens : tokenRow'[t].state = tokenRow[t].state
    BY <1>1, <1>2, <1>4, <1>5
  <2> QED
    BY <2>1, ReadersRest DEF RecordUse, UseNotRecorded
<1> QED
  BY <1>6, <1>7 DEF RecordUse, UseNotRecorded, TokensTypeOK

(* The first state.                                                        *)
LEMMA TokensStart == TokensInit => TokensInv
<1> SUFFICES ASSUME TokensInit PROVE TokensInv
  OBVIOUS
<1>1. panelCall \in [1..MaxPanelCalls -> PanelCall]
  BY DEF TokensInit, NoCall, PanelCall, Listing
<1>2. panel.list \in Listing /\ tokenRow \in [Tokens -> [state : RowState, used : BOOLEAN]]
  BY CallTypes DEF TokensInit, RowState
<1> QED
  BY <1>1, <1>2 DEF TokensInit, NoReader, TokensInv, TokensTypeOK, LateIsRevoked

(* Every step.                                                             *)
LEMMA TokensStep == TokensInv /\ [TokensNext]_tokenVars => TokensInv'
<1> SUFFICES ASSUME TokensInv, [TokensNext]_tokenVars PROVE TokensInv'
  OBVIOUS
<1>1. CASE UNCHANGED tokenVars
  BY <1>1 DEF tokenVars, TokensInv, TokensTypeOK, LateIsRevoked
<1>2. CASE TokensNext
  BY <1>2, PanelKeeps, ServeKeeps, ReaderKeeps, UseKeeps DEF TokensNext
<1> QED
  BY <1>1, <1>2

(* "Revokes a token immediately" (tokens.ts:78): no request that comes     *)
(* after the revocation is admitted.                                       *)
THEOREM RevokedTokensAreRefused == TokensSpec => []RevokedIsRefused
<1>1. TokensInv => RevokedIsRefused
  BY DEF TokensInv, LateIsRevoked, RevokedIsRefused
<1> QED
  BY <1>1, TokensStart, TokensStep, PTL DEF TokensSpec

-----------------------------------------------------------------------------
(* The notification settings. The argument: the server lists the           *)
(* preferences in the order of the event types and a page keeps that       *)
(* order, so every save locks the rows 1, 2, ... in turn. Of two saves the *)
(* one that is further on never waits for the other.                       *)

\* What a page holds: nothing, or a preference for each event type in order.
Ordered ==
    {<<>>} \cup {p \in [EventTypes -> Preference] : \A i \in EventTypes : p[i].type = i}

SavingStep == {"saving", "tx"}

RowsOK == prefRow \in [EventTypes -> {{}} \cup {{c} : c \in Choices}]

PagesOK ==
    form \in [Forms -> [step : {"load", "edit", "saving", "tx", "answer"},
                        prefs : Ordered, ok : BOOLEAN, saved : BOOLEAN]]

SavesOK == saveTx \in [Forms -> [prefs : Ordered, upserted : 0..NumTypes]]

\* A save under way has preferences to save, and there is none otherwise.
SaveUnderWay ==
    \A f \in Forms :
        IF form[f].step \in {"saving", "tx"}
        THEN saveTx[f].prefs # <<>>
        ELSE saveTx[f].prefs = <<>> /\ saveTx[f].upserted = 0

\* The inductive invariant.
OrderInv == RowsOK /\ PagesOK /\ SavesOK /\ SaveUnderWay

-----------------------------------------------------------------------------
(* A page's preferences are none or one for each event type.               *)
LEMMA OrderedPrefs ==
    ASSUME NEW p \in Ordered
    PROVE  /\ p = <<>> => DOMAIN p = {}
           /\ p # <<>> => /\ DOMAIN p = EventTypes
                          /\ \A i \in EventTypes : p[i] \in Preference /\ p[i].type = i
BY DEF Ordered

(* The list the server answers with.                                       *)
LEMMA StoredOrdered ==
    ASSUME RowsOK
    PROVE  Stored \subseteq Ordered
<1>1. \A e \in EventTypes : ChoiceOf(e) \in Choices
  BY ChoiceAssumption DEF RowsOK, ChoiceOf
<1> QED
  BY <1>1 DEF Stored, Ordered, Preference

(* Ticking a box changes no event type.                                    *)
LEMMA ToggleOrdered ==
    ASSUME NEW p \in Ordered, NEW i \in DOMAIN p, NEW c \in Choices
    PROVE  [p EXCEPT ![i].choice = c] \in Ordered
<1>1. p # <<>> /\ i \in EventTypes /\ DOMAIN p = EventTypes
  BY OrderedPrefs
<1>2. p \in [EventTypes -> Preference] /\ \A k \in EventTypes : p[k].type = k
  BY <1>1 DEF Ordered
<1>3. [p[i] EXCEPT !.choice = c] \in Preference /\ [p[i] EXCEPT !.choice = c].type = i
  BY <1>1, <1>2 DEF Preference
<1> QED
  BY <1>1, <1>2, <1>3 DEF Ordered

-----------------------------------------------------------------------------
(* The first state.                                                        *)
LEMMA OrderBegins == NotificationInit => OrderInv
BY ChoiceAssumption
DEF NotificationInit, OrderInv, RowsOK, PagesOK, SavesOK, SaveUnderWay, Ordered, NoTx

(* Every step of a page or a save keeps the order.                         *)
LEMMA OrderStep == OrderInv /\ [NotificationNext]_notificationVars => OrderInv'
<1> SUFFICES ASSUME RowsOK, PagesOK, SavesOK, SaveUnderWay,
                    [NotificationNext]_notificationVars
             PROVE  RowsOK' /\ PagesOK' /\ SavesOK' /\ SaveUnderWay'
  BY DEF OrderInv
<1> DEFINE Goal == RowsOK /\ PagesOK /\ SavesOK /\ SaveUnderWay
<1>1. ASSUME NEW f \in Forms, Load(f)
      PROVE  Goal'
  <2>1. PICK prefs \in Ordered :
            form' = [form EXCEPT ![f].step = "edit", ![f].prefs = prefs]
    BY <1>1, StoredOrdered DEF Load, Ordered
  <2>2. PagesOK'
    BY <2>1 DEF PagesOK
  <2>3. SaveUnderWay'
    BY <1>1, <2>1 DEF Load, PagesOK, SaveUnderWay
  <2> QED
    BY <1>1, <2>2, <2>3 DEF Load, RowsOK, SavesOK
<1>2. ASSUME NEW f \in Forms, Toggle(f)
      PROVE  Goal'
  <2>1. PICK i \in DOMAIN form[f].prefs, c \in Choices :
            form' = [form EXCEPT ![f].prefs[i].choice = c, ![f].saved = FALSE]
    BY <1>2 DEF Toggle
  <2> DEFINE prefs == [form[f].prefs EXCEPT ![i].choice = c]
  <2>2. prefs \in Ordered
    BY ToggleOrdered DEF PagesOK
  <2>3. form' = [form EXCEPT ![f].prefs = prefs, ![f].saved = FALSE]
    BY <2>1
  <2> HIDE DEF prefs
  <2>4. PagesOK'
    BY <2>2, <2>3 DEF PagesOK
  <2>5. SaveUnderWay'
    BY <1>2, <2>3 DEF Toggle, PagesOK, SaveUnderWay
  <2> QED
    BY <1>2, <2>4, <2>5 DEF Toggle, RowsOK, SavesOK
<1>3. ASSUME NEW f \in Forms, Save(f)
      PROVE  Goal'
  <2> DEFINE step == IF form[f].prefs = <<>> THEN "answer" ELSE "saving"
             ok   == form[f].prefs # <<>>
  <2>1. /\ form' = [form EXCEPT ![f].step = step, ![f].ok = ok, ![f].saved = FALSE]
        /\ saveTx' = [saveTx EXCEPT ![f].prefs = form[f].prefs]
        /\ prefRow' = prefRow
    BY <1>3 DEF Save
  <2>2. step \in {"answer", "saving"} /\ ok \in BOOLEAN
    OBVIOUS
  <2>3. SavesOK'
    BY <2>1 DEF PagesOK, SavesOK
  <2>4. SaveUnderWay'
    BY <1>3, <2>1 DEF Save, PagesOK, SavesOK, SaveUnderWay
  <2> HIDE DEF step, ok
  <2>5. PagesOK'
    <3>1. PICK new \in [step : {"load", "edit", "saving", "tx", "answer"},
                        prefs : Ordered, ok : BOOLEAN, saved : BOOLEAN] :
              form' = [form EXCEPT ![f] = new]
      <4> DEFINE new == [form[f] EXCEPT !.step = step, !.ok = ok, !.saved = FALSE]
      <4>1. new \in [step : {"load", "edit", "saving", "tx", "answer"},
                     prefs : Ordered, ok : BOOLEAN, saved : BOOLEAN]
        BY <2>2 DEF PagesOK
      <4>2. form' = [form EXCEPT ![f] = new]
        BY <2>1
      <4> QED
        BY <4>1, <4>2
    <3> QED
      BY <3>1 DEF PagesOK
  <2> QED
    BY <2>1, <2>3, <2>4, <2>5 DEF RowsOK
<1>4. ASSUME NEW f \in Forms, Begun(f)
      PROVE  Goal'
  <2>1. PagesOK'
    BY <1>4 DEF Begun, PagesOK
  <2>2. SaveUnderWay'
    BY <1>4 DEF Begun, PagesOK, SaveUnderWay
  <2> QED
    BY <1>4, <2>1, <2>2 DEF Begun, RowsOK, SavesOK
<1>5. ASSUME NEW f \in Forms, Upsert(f)
      PROVE  Goal'
  <2>1. form[f].step = "tx" /\ saveTx[f].upserted + 1 \in DOMAIN saveTx[f].prefs
    BY <1>5 DEF Upsert, Wants
  <2>2. saveTx[f].upserted + 1 \in 0..NumTypes
    <3>1. saveTx[f].prefs \in Ordered
      BY DEF SavesOK
    <3> QED
      BY <2>1, <3>1, OrderedPrefs, ChoiceAssumption DEF EventTypes
  <2> QED
    BY <1>5, <2>1, <2>2 DEF Upsert, RowsOK, PagesOK, SavesOK, SaveUnderWay
<1>6. ASSUME NEW f \in Forms, CommitSave(f)
      PROVE  Goal'
  <2>1. saveTx[f].prefs # <<>> /\ saveTx[f].prefs \in Ordered
    BY <1>6 DEF CommitSave, SavesOK, SaveUnderWay
  <2>2. \A e \in EventTypes :
            {saveTx[f].prefs[i].choice : i \in {n \in EventTypes : saveTx[f].prefs[n].type = e}}
                = {saveTx[f].prefs[e].choice}
    BY <2>1, OrderedPrefs
  <2>3. \A e \in EventTypes : saveTx[f].prefs[e].choice \in Choices
    BY <2>1, OrderedPrefs DEF Preference
  <2>4. RowsOK'
    BY <1>6, <2>2, <2>3 DEF CommitSave, RowsOK
  <2>5. PagesOK'
    BY <1>6 DEF CommitSave, PagesOK
  <2>6. SavesOK'
    <3>1. NoTx \in [prefs : Ordered, upserted : 0..NumTypes]
      BY ChoiceAssumption DEF NoTx, Ordered
    <3> QED
      BY <1>6, <3>1 DEF CommitSave, SavesOK
  <2>7. SaveUnderWay'
    <3>1. /\ \A g \in Forms \ {f} : form'[g].step = form[g].step /\ saveTx'[g] = saveTx[g]
          /\ form'[f].step = "answer" /\ saveTx'[f] = NoTx
      BY <1>6 DEF CommitSave, PagesOK, SavesOK
    <3> QED
      BY <3>1 DEF SaveUnderWay, NoTx
  <2> QED
    BY <2>4, <2>5, <2>6, <2>7
<1>7. ASSUME NEW f \in Forms, SaveFails(f) \/ Answered(f)
      PROVE  Goal'
  <2>1. PagesOK'
    <3>1. CASE SaveFails(f)
      BY <3>1 DEF SaveFails, PagesOK
    <3>2. CASE Answered(f)
      <4> DEFINE ok == form[f].ok
      <4>1. ok \in BOOLEAN
        BY DEF PagesOK
      <4>2. form' = [form EXCEPT ![f].step = "edit", ![f].saved = ok]
        BY <3>2 DEF Answered
      <4> HIDE DEF ok
      <4> QED
        BY <4>1, <4>2 DEF PagesOK
    <3> QED
      BY <1>7, <3>1, <3>2
  <2>2. SavesOK'
    <3>1. NoTx \in [prefs : Ordered, upserted : 0..NumTypes]
      BY ChoiceAssumption DEF NoTx, Ordered
    <3> QED
      BY <1>7, <3>1 DEF SaveFails, Answered, SavesOK
  <2>3. SaveUnderWay'
    <3>1. \A g \in Forms \ {f} : form'[g].step = form[g].step /\ saveTx'[g] = saveTx[g]
      BY <1>7 DEF SaveFails, Answered, PagesOK, SavesOK
    <3>2. saveTx'[f] = NoTx
      BY <1>7 DEF SaveFails, Answered, SavesOK
    <3>3. form'[f].step \in {"answer", "edit"}
      <4>1. CASE SaveFails(f)
        BY <4>1 DEF SaveFails, PagesOK
      <4>2. CASE Answered(f)
        BY <4>2 DEF Answered, PagesOK
      <4> QED
        BY <1>7, <4>1, <4>2
    <3> QED
      BY <3>1, <3>2, <3>3 DEF SaveUnderWay, NoTx
  <2>4. RowsOK'
    BY <1>7 DEF SaveFails, Answered, RowsOK
  <2> QED
    BY <2>1, <2>2, <2>3, <2>4
<1>8. CASE UNCHANGED notificationVars
  BY <1>8 DEF notificationVars, RowsOK, PagesOK, SavesOK, SaveUnderWay
<1> QED
  BY <1>1, <1>2, <1>3, <1>4, <1>5, <1>6, <1>7, <1>8 DEF NotificationNext

-----------------------------------------------------------------------------
(* A save has locked rows up to the one it has come to, and wants the next.*)
LEMMA LocksInOrder ==
    ASSUME OrderInv, NEW f \in Forms
    PROVE  /\ saveTx[f].upserted \in Nat
           /\ \A e \in Locks(f) : e \in Nat /\ e <= saveTx[f].upserted
           /\ \A e \in Wants(f) : e = saveTx[f].upserted + 1
<1> DEFINE tx == saveTx[f]
<1>1. tx.prefs \in Ordered /\ tx.upserted \in 0..NumTypes
  BY DEF OrderInv, SavesOK
<1>2. tx.prefs = <<>> => tx.upserted = 0
  BY DEF OrderInv, SaveUnderWay
<1>3. \A i \in 1..tx.upserted : tx.prefs[i].type = i
  <2> SUFFICES ASSUME NEW i \in 1..tx.upserted
               PROVE  tx.prefs[i].type = i
    OBVIOUS
  <2>1. i \in EventTypes /\ tx.prefs # <<>>
    BY <1>1, <1>2, ChoiceAssumption DEF EventTypes
  <2> QED
    BY <1>1, <2>1, OrderedPrefs
<1>4. \A i \in DOMAIN tx.prefs : tx.prefs[i].type = i
  BY <1>1, OrderedPrefs
<1>5. \A e \in Locks(f) : e \in Nat /\ e <= tx.upserted
  BY <1>1, <1>3 DEF Locks
<1>6. \A e \in Wants(f) : e = tx.upserted + 1
  BY <1>4 DEF Wants
<1> QED
  BY <1>1, <1>5, <1>6, ChoiceAssumption

(* Two saves of the preferences never wait for each other's rows, however  *)
(* many pages save at the same time (lib/settings/notifications.ts): the   *)
(* database need not abort one of them.                                    *)
THEOREM SavesDoNotDeadlock == NotificationSpec => []NoLockCycle
<1>1. OrderInv => NoLockCycle
  <2> SUFFICES ASSUME OrderInv, NEW f \in Forms, NEW g \in Forms,
                      NEW d \in Wants(f) \cap Locks(g),
                      NEW e \in Wants(g) \cap Locks(f)
               PROVE  FALSE
    BY DEF NoLockCycle
  <2>1. saveTx[f].upserted + 1 <= saveTx[g].upserted
    BY LocksInOrder
  <2>2. saveTx[g].upserted + 1 <= saveTx[f].upserted
    BY LocksInOrder
  <2> QED
    BY <2>1, <2>2, LocksInOrder
<1> QED
  BY OrderBegins, OrderStep, <1>1, PTL DEF NotificationSpec

-----------------------------------------------------------------------------
(* The data migrations. The argument: what a runner has read stays true,   *)
(* since a recorded file is never taken out again; so the files it has     *)
(* gone past, those it skipped and those it recorded, are recorded         *)
(* (PastIsRecorded).                                                       *)

\* A runner past `file` - 1 files: all of them are recorded.
PastIsRecorded ==
    \A r \in Runners :
        /\ runners[r].applied \subseteq dataMigration
        /\ runners[r].step \in {"files", "up", "record"} =>
               1..(runners[r].file - 1) \subseteq dataMigration
        /\ runners[r].step \in {"up", "record"} => runners[r].file \in FileNumbers
        /\ runners[r].step = "record" => runners[r].file \in migrated

\* The inductive invariant.
MigrationsInv ==
    /\ MigrationsTypeOK
    /\ dataMigration \subseteq migrated
    /\ PastIsRecorded

(* The first state.                                                        *)
LEMMA MigrationsBegin == MigrationsInit => MigrationsInv
BY FilesAssumption
DEF MigrationsInit, MigrationsInv, MigrationsTypeOK, PastIsRecorded, Runner,
    Stopped, FileNumbers

(* The files before the next one: one more than before this one.           *)
LEMMA OneFileMore ==
    ASSUME NEW n \in Nat \ {0}, NEW S, 1..(n - 1) \subseteq S, n \in S
    PROVE  1..((n + 1) - 1) \subseteq S
<1>1. ASSUME NEW k \in 1..((n + 1) - 1)  PROVE k \in S
  <2>1. k \in 1..(n - 1) \/ k = n
    OBVIOUS
  <2> QED
    BY <2>1
<1> QED
  BY <1>1

(* Every step of a runner keeps the invariant.                             *)
LEMMA MigrationsStep == MigrationsInv /\ [MigrationsNext]_migrationVars => MigrationsInv'
<1> SUFFICES ASSUME MigrationsInv, [MigrationsNext]_migrationVars
             PROVE  MigrationsInv'
  OBVIOUS
<1> USE DEF MigrationsInv
<1>1. ASSUME NEW r \in Runners, StartRunner(r)
      PROVE  MigrationsInv'
  BY <1>1 DEF StartRunner, MigrationsTypeOK, PastIsRecorded, Runner
<1>2. ASSUME NEW r \in Runners, ReadApplied(r)
      PROVE  MigrationsInv'
  BY <1>2, FilesAssumption
  DEF ReadApplied, MigrationsTypeOK, PastIsRecorded, Runner, FileNumbers
<1>3. ASSUME NEW r \in Runners, NextFile(r)
      PROVE  MigrationsInv'
  <2>1. CASE runners[r].file \in runners[r].applied
    <3>1. 1..((runners[r].file + 1) - 1) \subseteq dataMigration
      BY <1>3, <2>1, OneFileMore
      DEF NextFile, MigrationsTypeOK, PastIsRecorded, Runner, FileNumbers
    <3> QED
      BY <1>3, <2>1, <3>1, FilesAssumption
      DEF NextFile, MigrationsTypeOK, PastIsRecorded, Runner, FileNumbers
  <2>2. CASE runners[r].file \notin runners[r].applied
    BY <1>3, <2>2 DEF NextFile, MigrationsTypeOK, PastIsRecorded, Runner
  <2> QED
    BY <2>1, <2>2
<1>4. ASSUME NEW r \in Runners, RunUp(r)
      PROVE  MigrationsInv'
  <2>1. runners[r].file \in FileNumbers
    BY <1>4 DEF RunUp, PastIsRecorded
  <2> QED
    BY <1>4, <2>1 DEF RunUp, MigrationsTypeOK, PastIsRecorded, Runner
<1>5. ASSUME NEW r \in Runners, Record(r)
      PROVE  MigrationsInv'
  <2> DEFINE n == runners[r].file
  <2>1. n \in FileNumbers /\ n \in Nat \ {0} /\ n \in migrated
    BY <1>5 DEF Record, MigrationsTypeOK, PastIsRecorded, FileNumbers
  <2>2. 1..((n + 1) - 1) \subseteq dataMigration \cup {n}
    BY <1>5, <2>1, OneFileMore DEF Record, PastIsRecorded
  <2> QED
    BY <1>5, <2>1, <2>2, FilesAssumption
    DEF Record, MigrationsTypeOK, PastIsRecorded, Runner, FileNumbers
<1>6. ASSUME NEW r \in Runners, EndRunner(r)
      PROVE  MigrationsInv'
  BY <1>6, FilesAssumption
  DEF EndRunner, MigrationsTypeOK, PastIsRecorded, Runner, Stopped, FileNumbers
<1>7. CASE UNCHANGED migrationVars
  BY <1>7 DEF migrationVars, MigrationsTypeOK, PastIsRecorded
<1> QED
  BY <1>1, <1>2, <1>3, <1>4, <1>5, <1>6, <1>7 DEF MigrationsNext

(* However many runners overlap, stop and start again, the up of a file    *)
(* begins when all files before it have gone through and are recorded, and *)
(* no file is recorded whose up has not gone through                       *)
(* (prisma/data-migrations/runner.ts).                                     *)
THEOREM MigrationsInOrder == MigrationsSpec => []MigratedInOrder
<1>1. MigrationsInv => MigratedInOrder
  BY DEF MigrationsInv, PastIsRecorded, MigratedInOrder
<1> QED
  BY MigrationsBegin, MigrationsStep, <1>1, PTL DEF MigrationsSpec

-----------------------------------------------------------------------------
(* The indexer process. The argument: from the signal on no cycle begins   *)
(* (HandlersAbort), so that a handler past its wait has either seen the    *)
(* cycle end or let its grace period run out (ClosedWhenDrained), and no   *)
(* request begins once the server is closing.                              *)

\* A call that failed for the last time is not waited for.
AttemptsLeft == loop.step = "backoff" => loop.attempt < MaxAttempts

ProcessTypeInv == ProcessTypeOK /\ AttemptsLeft

HandlersAbort ==
    /\ \A s \in Signals : handler[s] # "none" => aborted
    /\ aborted => loop.step # "sleep"

ClosedWhenDrained ==
    \A s \in Signals :
        /\ handler[s] \in {"close", "disconnect"} =>
               server = "closing" /\ (Inflight => expired # {})
        /\ handler[s] = "disconnect" => open = {}

\* The inductive invariant.
ShutdownInv == ProcessTypeInv /\ HandlersAbort /\ ClosedWhenDrained /\ DrainedExit

-----------------------------------------------------------------------------
(* The next cycle, whether or not the process is to stop.                  *)
LEMMA LoopTypes ==
    ASSUME NEW stop \in BOOLEAN
    PROVE  NextCycle(stop) \in [step : {"none", "call", "backoff", "write", "sleep", "stopped"},
                                attempt : 0..MaxAttempts]
BY ProcessAssumption DEF NextCycle, At

(* The end of a cycle keeps the types.                                     *)
LEMMA CycleTypes ==
    ASSUME ProcessTypeInv, CycleResolves \/ CycleRejects
    PROVE  ProcessTypeInv'
<1>1. CASE CycleResolves
  BY <1>1, ProcessAssumption
  DEF CycleResolves, At, ProcessTypeInv, ProcessTypeOK, AttemptsLeft, Draining
<1>2. CASE Exit("1")
  BY <1>2 DEF Exit, ProcessTypeInv, ProcessTypeOK, AttemptsLeft
<1> QED
  BY <1>1, <1>2 DEF CycleRejects

(* The reconciliation's steps keep its own type.                           *)
LEMMA ReconciliationTypes ==
    ASSUME ProcessTypeOK, ReconciliationBegins \/ CompareRow \/ ReconciliationEnds
    PROVE  recon' \in [running : BOOLEAN, left : 0..SampleSize, differs : BOOLEAN]
<1>1. CASE ReconciliationBegins
  BY <1>1 DEF ReconciliationBegins
<1>2. CASE CompareRow
  <2>1. PICK d \in BOOLEAN :
            recon' = [recon EXCEPT !.left = @ - 1, !.differs = @ \/ d]
    BY <1>2 DEF CompareRow
  <2> DEFINE left == recon.left - 1
             differs == recon.differs \/ d
  <2>2. recon' = [recon EXCEPT !.left = left, !.differs = differs]
    BY <2>1
  <2>3. left \in 0..SampleSize
    <3>1. recon.left > 0
      BY <1>2 DEF CompareRow
    <3>2. recon.left \in 0..SampleSize
      BY DEF ProcessTypeOK
    <3> QED
      BY <3>1, <3>2, ProcessAssumption
  <2>4. differs \in BOOLEAN
    OBVIOUS
  <2>5. recon \in [running : BOOLEAN, left : 0..SampleSize, differs : BOOLEAN]
    BY DEF ProcessTypeOK
  <2> HIDE DEF left, differs
  <2> QED
    BY <2>2, <2>3, <2>4, <2>5
<1>3. CASE ReconciliationEnds
  BY <1>3, ProcessAssumption DEF ReconciliationEnds, NoReconciliation
<1> QED
  BY <1>1, <1>2, <1>3

(* They change nothing else.                                               *)
LEMMA RestUnchanged ==
    ASSUME ReconciliationBegins \/ CompareRow \/ ReconciliationEnds
    PROVE  UNCHANGED <<main, aborted, loop, handler, expired, server, open, stuck, exit>>
BY Zenon DEF ReconciliationBegins, CompareRow, ReconciliationEnds

(* Every step keeps the types, and a call is never tried too often.        *)
LEMMA TypeStep == ProcessTypeInv /\ [ProcessNext]_processVars => ProcessTypeInv'
<1> SUFFICES ASSUME ProcessTypeInv, [ProcessNext]_processVars
             PROVE  ProcessTypeInv'
  OBVIOUS
<1> USE ProcessAssumption DEF ProcessTypeInv
<1>1. CASE Connect
  BY <1>1 DEF Connect, Exit, ProcessTypeOK, AttemptsLeft
<1>2. CASE Listen
  BY <1>2, LoopTypes DEF Listen, ProcessTypeOK, AttemptsLeft, NextCycle, At
<1>3. CASE StartFails \/ Kill
  BY <1>3 DEF StartFails, Kill, Exit, ProcessTypeOK, AttemptsLeft
<1>4. CASE CallAnswers
  BY <1>4 DEF CallAnswers, At, ProcessTypeOK, AttemptsLeft
<1>5. CASE CallFails
  <2>1. CASE CycleRejects
    BY <2>1, CycleTypes
  <2>2. CASE ~CycleRejects
    BY <1>5, <2>2 DEF CallFails, ProcessTypeOK, AttemptsLeft
  <2> QED
    BY <2>1, <2>2
<1>6. CASE BackoffEnds
  BY <1>6 DEF BackoffEnds, ProcessTypeOK, AttemptsLeft
<1>7. CASE WriteEnds
  <2>1. CASE CycleResolves \/ CycleRejects
    BY <2>1, CycleTypes
  <2>2. CASE ~(CycleResolves \/ CycleRejects)
    BY <1>7, <2>2 DEF WriteEnds, ProcessTypeOK, AttemptsLeft
  <2> QED
    BY <2>1, <2>2
<1>8. CASE SleepEnds
  BY <1>8, LoopTypes DEF SleepEnds, ProcessTypeOK, AttemptsLeft, NextCycle, At
<1>9. ASSUME NEW q \in HttpRequests, RequestBegins(q) \/ RequestHangs(q) \/ RequestEnds(q)
      PROVE  ProcessTypeInv'
  BY <1>9 DEF RequestBegins, RequestHangs, RequestEnds, ProcessTypeOK, AttemptsLeft
<1>10. CASE ReconciliationBegins \/ CompareRow \/ ReconciliationEnds
  BY <1>10, ReconciliationTypes, RestUnchanged DEF ProcessTypeOK, AttemptsLeft
<1>11. ASSUME NEW s \in Signals, Signal(s)
       PROVE  ProcessTypeInv'
  BY <1>11, LoopTypes DEF Signal, ProcessTypeOK, AttemptsLeft, NextCycle, At
<1>12. ASSUME NEW s \in Signals, ShutdownStep(s)
       PROVE  ProcessTypeInv'
  BY <1>12
  DEF ShutdownStep, GraceExpires, ServerClosed, Disconnected, Exit,
      ProcessTypeOK, AttemptsLeft
<1>13. CASE UNCHANGED processVars
  BY <1>13 DEF processVars, ProcessTypeOK, AttemptsLeft
<1> QED
  BY <1>1, <1>2, <1>3, <1>4, <1>5, <1>6, <1>7, <1>8, <1>9, <1>10, <1>11,
     <1>12, <1>13
  DEF ProcessNext

-----------------------------------------------------------------------------
(* The end of a cycle, as a shutdown that waits for it sees it.            *)
LEMMA CycleDrains ==
    ASSUME ShutdownInv, exit = "up", CycleResolves \/ CycleRejects
    PROVE  HandlersAbort' /\ ClosedWhenDrained' /\ DrainedExit'
<1>1. CASE CycleResolves
  BY <1>1
  DEF CycleResolves, At, Draining, Inflight, InCycle, ShutdownInv, ProcessTypeInv,
      ProcessTypeOK, HandlersAbort, ClosedWhenDrained, DrainedExit
<1>2. CASE Exit("1")
  BY <1>2
  DEF Exit, Inflight, InCycle, ShutdownInv, HandlersAbort, ClosedWhenDrained, DrainedExit
<1> QED
  BY <1>1, <1>2 DEF CycleRejects

(* Every step keeps the invariant of the shutdown.                         *)
LEMMA DrainStep == ShutdownInv /\ [ProcessNext]_processVars => ShutdownInv'
<1> SUFFICES ASSUME ShutdownInv, [ProcessNext]_processVars
             PROVE  HandlersAbort' /\ ClosedWhenDrained' /\ DrainedExit'
  BY TypeStep DEF ShutdownInv
<1> DEFINE Goal == HandlersAbort /\ ClosedWhenDrained /\ DrainedExit
<1>a. /\ \A s \in Signals : handler[s] # "none" => aborted
      /\ aborted => loop.step # "sleep"
      /\ \A s \in Signals :
             /\ handler[s] \in {"close", "disconnect"} =>
                    server = "closing" /\ (Inflight => expired # {})
             /\ handler[s] = "disconnect" => open = {}
      /\ exit = "0" => open = {} /\ (Inflight => expired # {})
      /\ aborted \in BOOLEAN
  BY DEF ShutdownInv, HandlersAbort, ClosedWhenDrained, DrainedExit, ProcessTypeInv, ProcessTypeOK
<1>b. /\ handler \in [Signals -> {"none", "drain", "close", "disconnect"}]
      /\ DOMAIN loop = {"step", "attempt"}
      /\ loop = [step |-> loop.step, attempt |-> loop.attempt]
  BY DEF ShutdownInv, ProcessTypeInv, ProcessTypeOK
<1> USE DEF HandlersAbort, ClosedWhenDrained, DrainedExit, Inflight, InCycle
<1>1. CASE exit = "up" /\ Connect
  BY <1>1, <1>a DEF Connect, Exit
<1>2. CASE exit = "up" /\ Listen
  BY <1>2, <1>a DEF Listen, NextCycle, At
<1>3. CASE exit = "up" /\ (StartFails \/ Kill)
  BY <1>3, <1>a DEF StartFails, Kill, Exit
<1>4. CASE exit = "up" /\ CallAnswers
  BY <1>4, <1>a DEF CallAnswers, At
<1>5. CASE exit = "up" /\ CallFails
  <2>1. CASE CycleRejects
    BY <1>5, <2>1, CycleDrains
  <2>2. CASE ~CycleRejects
    BY <1>5, <2>2, <1>a, <1>b DEF CallFails
  <2> QED
    BY <2>1, <2>2
<1>6. CASE exit = "up" /\ BackoffEnds
  BY <1>6, <1>a DEF BackoffEnds
<1>7. CASE exit = "up" /\ WriteEnds
  <2>1. CASE CycleResolves \/ CycleRejects
    BY <1>7, <2>1, CycleDrains
  <2>2. CASE ~(CycleResolves \/ CycleRejects)
    BY <1>7, <2>2, <1>a DEF WriteEnds
  <2> QED
    BY <2>1, <2>2
<1>8. CASE exit = "up" /\ SleepEnds
  BY <1>8, <1>a DEF SleepEnds, NextCycle, At
<1>9. ASSUME NEW q \in HttpRequests, exit = "up", RequestBegins(q) \/ RequestHangs(q) \/ RequestEnds(q)
      PROVE  Goal'
  BY <1>9, <1>a DEF RequestBegins, RequestHangs, RequestEnds
<1>10. CASE exit = "up" /\ (ReconciliationBegins \/ CompareRow \/ ReconciliationEnds)
  BY <1>10, <1>a, RestUnchanged
<1>11. ASSUME NEW s \in Signals, exit = "up", Signal(s)
       PROVE  Goal'
  BY <1>11, <1>a, <1>b DEF Signal, NextCycle, At
<1>12. ASSUME NEW s \in Signals, exit = "up", ShutdownStep(s)
       PROVE  Goal'
  <2>1. CASE GraceExpires(s)
    BY <1>12, <2>1, <1>a, <1>b DEF GraceExpires
  <2>2. CASE ServerClosed(s)
    BY <1>12, <2>2, <1>a, <1>b DEF ServerClosed
  <2>3. CASE Disconnected(s)
    BY <1>12, <2>3, <1>a DEF Disconnected, Exit
  <2> QED
    BY <1>12, <2>1, <2>2, <2>3 DEF ShutdownStep
<1>13. CASE UNCHANGED processVars
  BY <1>13, <1>a DEF processVars
<1> QED
  BY <1>1, <1>2, <1>3, <1>4, <1>5, <1>6, <1>7, <1>8, <1>9, <1>10, <1>11,
     <1>12, <1>13
  DEF ProcessNext

-----------------------------------------------------------------------------
(* The first state.                                                        *)
LEMMA ProcessBegins == ProcessInit => ShutdownInv
<1> SUFFICES ASSUME ProcessInit
             PROVE  ShutdownInv
  OBVIOUS
<1>1. recon \in [running : BOOLEAN, left : 0..SampleSize, differs : BOOLEAN]
  BY ProcessAssumption DEF ProcessInit, NoReconciliation
<1>2. ProcessTypeInv
  <2>1. main \in [step : {"connect", "listen", "running"}, attempt : 1..ConnectRetries]
    BY ProcessAssumption DEF ProcessInit
  <2>2. aborted \in BOOLEAN
    BY DEF ProcessInit
  <2>3. /\ loop \in [step : {"none", "call", "backoff", "write", "sleep", "stopped"},
                     attempt : 0..MaxAttempts]
        /\ AttemptsLeft
    BY ProcessAssumption DEF ProcessInit, At, AttemptsLeft
  <2>4. /\ handler \in [Signals -> {"none", "drain", "close", "disconnect"}]
        /\ expired \subseteq Signals /\ open \subseteq HttpRequests /\ stuck \subseteq open
        /\ server = "down" /\ exit = "up"
    BY DEF ProcessInit
  <2> QED
    BY <1>1, <2>1, <2>2, <2>3, <2>4 DEF ProcessTypeInv, ProcessTypeOK
<1>3. HandlersAbort
  <2>1. ~aborted
    BY DEF ProcessInit
  <2>2. \A s \in Signals : handler[s] = "none"
    BY DEF ProcessInit
  <2> QED
    BY <2>1, <2>2 DEF HandlersAbort
<1>4. ClosedWhenDrained
  BY DEF ProcessInit, ClosedWhenDrained
<1>5. DrainedExit
  BY DEF ProcessInit, DrainedExit
<1> QED
  BY <1>2, <1>3, <1>4, <1>5 DEF ShutdownInv

(* The process keeps its types; a call is tried at most MaxAttempts times  *)
(* and the database ConnectRetries times (retry.ts, db/client.ts).         *)
THEOREM ProcessTypes == ProcessSpec => []ProcessTypeOK
<1>1. ShutdownInv => ProcessTypeOK
  BY DEF ShutdownInv, ProcessTypeInv
<1> QED
  BY ProcessBegins, DrainStep, <1>1, PTL DEF ProcessSpec

(* Whatever signals come at whatever moment, a process that exits with     *)
(* code 0 serves no request and leaves no cycle under way unless a grace   *)
(* period ended first (main.ts:52-86).                                     *)
THEOREM ExitIsDrained == ProcessSpec => []DrainedExit
<1>1. ShutdownInv => DrainedExit
  BY DEF ShutdownInv
<1> QED
  BY ProcessBegins, DrainStep, <1>1, PTL DEF ProcessSpec
-----------------------------------------------------------------------------
(* The parts that MCServices puts together.                                *)

(* A page's preferences are a sequence of them.                            *)
LEMMA OrderedSeq == Ordered \subseteq Seq(Preference)
<1>1. [EventTypes -> Preference] \subseteq Seq(Preference)
  BY ChoiceAssumption DEF EventTypes
<1>2. \A p \in Ordered : p = <<>> \/ p \in [EventTypes -> Preference]
  BY DEF Ordered
<1>3. <<>> \in Seq(Preference)
  OBVIOUS
<1> QED
  BY <1>1, <1>2, <1>3

LEMMA OrderInv_Types == OrderInv => NotificationTypeOK
BY OrderedSeq DEF OrderInv, RowsOK, PagesOK, SavesOK, NotificationTypeOK

ServicesInv ==
    /\ part \in {"stream", "tabs", "limits", "tokens", "notifications", "migrations"}
    /\ StreamInv /\ LimitInv /\ TokensInv /\ OrderInv /\ MigrationsInv

(* The part whose turn it is takes a step of its own; the others rest.     *)
LEMMA ServicesStep ==
    ASSUME ServicesInv, [ServicesNext]_servicesVars
    PROVE  ServicesInv'
<1>1. /\ [StreamNext]_streamVars /\ [LimitNext]_limitVars /\ [TokensNext]_tokenVars
      /\ [NotificationNext]_notificationVars /\ [MigrationsNext]_migrationVars
      /\ part' = part
  BY DEF ServicesNext, servicesVars
<1>2. StreamInv'
  BY <1>1, StreamStep DEF ServicesInv
<1>3. LimitInv'
  BY <1>1, LimitStep DEF ServicesInv
<1>4. TokensInv'
  BY <1>1, TokensStep DEF ServicesInv
<1>5. OrderInv'
  BY <1>1, OrderStep DEF ServicesInv
<1>6. MigrationsInv'
  BY <1>1, MigrationsStep DEF ServicesInv
<1> QED
  BY <1>1, <1>2, <1>3, <1>4, <1>5, <1>6 DEF ServicesInv

(* Every part keeps its types: the event stream and its tabs, the rate     *)
(* limits, the access tokens, the notification settings and the data       *)
(* migrations, for every value of the constants.                           *)
THEOREM ServicesTypes == ServicesSpec => []ServicesTypeOK
<1>1. ServicesInit => ServicesInv
  BY StreamStart, LimitStart, TokensStart, OrderBegins, MigrationsBegin
     DEF ServicesInit, ServicesInv
<1>2. ServicesInv => ServicesTypeOK
  <2> SUFFICES ASSUME ServicesInv
               PROVE  /\ StreamTypeOK /\ LimitTypeOK /\ TokensTypeOK
                      /\ NotificationTypeOK /\ MigrationsTypeOK
    BY DEF ServicesInv, ServicesTypeOK
  <2> QED
    BY OrderInv_Types DEF ServicesInv, StreamInv, LimitInv, TokensInv, MigrationsInv
<1>3. ServicesInv /\ [ServicesNext]_servicesVars => ServicesInv'
  BY ServicesStep
<1> QED
  BY <1>1, <1>2, <1>3, PTL DEF ServicesSpec
=============================================================================
