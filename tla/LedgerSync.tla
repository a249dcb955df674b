----------------------------- MODULE LedgerSync -----------------------------
(***************************************************************************)
(* The indexer's ledger sync job (indexer/src/jobs/sync-ledger.ts), the    *)
(* indexing of one transaction (jobs/process-transaction.ts,               *)
(* index/financial-events.ts) and the admin replay of dead letters         *)
(* (api/routes/admin.ts), all over one database.                           *)
(*                                                                         *)
(* Every await that reaches the network or the database is a step, so the  *)
(* cycles of several replicas, replays, new ledgers and changes of the     *)
(* business table interleave between them.  A transaction is its position  *)
(* in `chain` (its paging token and its hash); a wallet is the number of   *)
(* its business row.                                                       *)
(***************************************************************************)
EXTENDS Integers, Sequences, FiniteSetsExt

CONSTANTS
    Replicas,        \* indexer processes that run the sync job
    Replayers,       \* concurrent requests to /admin/replay
    NumWallets,      \* business rows
    Outside,         \* a Stellar account of no business
    Batches,         \* what a ledger may hold: sequences of transactions
    TxPageSize, WalletPageSize, MAX_RETRIES,
    MaxLag,          \* ledgers that the RPC may be behind Horizon
    MaxTxs,          \* bound: transactions on the chain
    MaxLedger,       \* bound: height of the chain
    MaxFailures,     \* bound: failing calls and crashes
    MaxChanges       \* bound: changes of business rows, registrations apart

Wallets == 1..NumWallets

\* supported: isSupportedAsset says so of the payment's asset.
Payment == [from : Wallets \cup {Outside}, to : Wallets \cup {Outside},
            supported : BOOLEAN]

\* bump: a fee bump, which has a hash of its own around the inner transaction's.
Transaction == [bump : BOOLEAN, payments : Seq(Payment)]

ASSUME SyncAssumption ==
    /\ Outside \notin Wallets
    /\ Batches \subseteq Seq(Transaction)
    /\ {NumWallets, MAX_RETRIES, MaxLag, MaxTxs, MaxLedger} \subseteq Nat
    /\ {MaxFailures, MaxChanges} \subseteq Nat
    /\ {TxPageSize, WalletPageSize} \subseteq Nat \ {0}
    /\ IsFiniteSet(Replayers)

VARIABLES
    chain,       \* the successful transactions, oldest first
    height,      \* sequence number of the last closed ledger
    profile,     \* BusinessProfile: absent, active, deactivated, without wallet
    checkpoint,  \* IndexerCheckpoint("main", "global")
    row,         \* FinancialEvent by event id: the payment stored, or 0
    errors,      \* IndexerError rows
    logged,      \* "dead-letter-write-failed" log lines
    missed,      \* history: indexed for a wallet that no row named just then
    cycle,       \* the state of each replica's syncCycle
    job,         \* the state of each replay request
    failures,    \* failures so far
    changes      \* changes of business rows so far

network == <<chain, height>>
business == <<profile, changes>>
database == <<business, checkpoint, row, errors>>
vars == <<network, database, logged, missed, cycle, job, failures>>

Directions == {"recv", "sent"}

\* A transaction goes by its own hash, or a fee bump by the inner one's.
Hashes == {"own", "inner"}

\* deriveEventId: the hash of a transaction and a direction, nothing else.
EventId == (1..MaxTxs) \X Hashes \X Directions

IdleCycle == [phase |-> "idle", latest |-> 0, last |-> 0, wallets |-> {},
              after |-> 0, more |-> TRUE, txs |-> {}, before |-> MaxTxs + 1,
              paid |-> 0, processed |-> {}, visited |-> {}]

IdleJob == [error |-> 0, paid |-> 0, found |-> TRUE]

Job == [error : Nat, paid : Nat, found : BOOLEAN]

Cycle == [phase : {"idle", "begin", "cycle", "save", "hung"},
          latest : 0..MaxLedger,           \* latestLedger
          last : 0..MaxLedger,             \* lastCheckpoint
          wallets : SUBSET Wallets,        \* what is left of the wallet page
          after : 0..NumWallets,           \* walletCursor, 0 for the first page
          more : BOOLEAN,                  \* another page of wallets follows
          txs : SUBSET (1..MaxTxs),        \* what is left of the transaction page
          before : 0..(MaxTxs + 1),        \* txCursor, 0 when there is no next page
          paid : Nat,                      \* last payment indexed of the newest of txs
          processed : SUBSET (1..MaxLedger), \* processedLedgers
          visited : SUBSET Wallets]        \* history: wallets gone through

DeadLetterRow == [tx : 1..MaxTxs, wallet : Wallets, retryCount : Nat, resolved : BOOLEAN]

\* A transaction on the chain.
Entry == [ledger : 1..MaxLedger, bump : BOOLEAN, payments : Seq(Payment)]

TypeOK ==
    /\ chain \in Seq(Entry)
    /\ Len(chain) <= MaxTxs
    /\ height \in 0..MaxLedger
    /\ profile \in [Wallets -> {"none", "active", "inactive", "unlinked"}]
    /\ checkpoint \in 0..MaxLedger
    /\ row \in [EventId -> Nat]
    /\ errors \in Seq(DeadLetterRow)
    /\ logged \subseteq (1..MaxTxs) \X Wallets
    /\ missed \subseteq (1..MaxTxs) \X Wallets
    /\ cycle \in [Replicas -> Cycle]
    /\ job \in [Replayers -> Job]
    /\ \A p \in Replayers : job[p].error <= Len(errors)
    /\ failures \in 0..MaxFailures
    /\ changes \in 0..MaxChanges

Init ==
    /\ chain = <<>> /\ height = 0
    /\ profile = [w \in Wallets |-> "none"]
    /\ checkpoint = 0
    /\ row = [id \in EventId |-> 0]
    /\ errors = <<>> /\ logged = {} /\ missed = {}
    /\ cycle = [r \in Replicas |-> IdleCycle]
    /\ job = [p \in Replayers |-> IdleJob]
    /\ failures = 0 /\ changes = 0

-----------------------------------------------------------------------------
(* The network and the web application.                                    *)

CloseLedger(batch) ==
    /\ height < MaxLedger /\ Len(chain) + Len(batch) <= MaxTxs
    /\ height' = height + 1
    /\ chain' = chain \o [k \in 1..Len(batch) |->
                             [ledger |-> height + 1, bump |-> batch[k].bump,
                              payments |-> batch[k].payments]]
    /\ UNCHANGED <<database, logged, missed, cycle, job, failures>>

\* The row of business w goes from one of the old states to one of the new.
Profile(w, old, new) ==
    /\ profile[w] \in old
    /\ \E state \in new : profile' = [profile EXCEPT ![w] = state]
    /\ UNCHANGED <<network, checkpoint, row, errors, logged, missed, cycle, job, failures>>

Register(w) == Profile(w, {"none"}, {"active"}) /\ UNCHANGED changes

Change(w, old, new) == Profile(w, old, new) /\ changes < MaxChanges /\ changes' = changes + 1

Deactivate(w) == Change(w, {"active"}, {"inactive"})

\* A sync that read the chain before the deactivation writes its row late.
Reactivate(w) == Change(w, {"inactive"}, {"active"})

\* The owner unlinks the wallet, and may link it again.
Unlink(w) == Change(w, {"active", "inactive"}, {"unlinked"})
Relink(w) == Change(w, {"unlinked"}, {"active", "inactive"})

-----------------------------------------------------------------------------
(* Indexing a payment.                                                     *)

Ledger(i) == chain[i].ledger

\* The account whose event of this direction payment k of transaction i makes.
Party(i, k, direction) ==
    IF direction = "recv" THEN chain[i].payments[k].to ELSE chain[i].payments[k].from

\* The payments of transaction i that involve wallet w.
Relevant(i, w) ==
    {k \in 1..Len(chain[i].payments) : \E d \in Directions : Party(i, k, d) = w}

Touches(i, w) == Relevant(i, w) # {}

Supported(i, k) == chain[i].payments[k].supported

\* findBusinessByWallet: deactivated businesses are found too.
Registered(a) == a # Outside /\ profile[a] \in {"active", "inactive"}

\* upsertFinancialEvent: a row that exists keeps its payment.
UpsertEvent(i, hash, k, id) ==
    IF id[1] = i /\ id[2] = hash /\ row[id] = 0 /\ Registered(Party(i, k, id[3]))
    THEN k ELSE row[id]

\* indexPayment: both events of a payment in a supported asset, in one database
\* transaction.
IndexPayment(i, hash, k) ==
    row' = IF Supported(i, k) THEN [id \in EventId |-> UpsertEvent(i, hash, k, id)] ELSE row

\* No row names the wallet at that moment: its events are not made.
Miss(i, w, k) ==
    missed' = IF Supported(i, k) /\ ~Registered(w) THEN missed \cup {<<i, w>>} ELSE missed

\* The payments of transaction i still to be indexed for wallet w.
Unpaid(i, w, paid) == {k \in Relevant(i, w) : k > paid}

-----------------------------------------------------------------------------
(* syncCycle.                                                              *)

\* The wallet is finished when its page is empty and no other follows; with the
\* last wallet the cycle turns to the checkpoint.  No await lies in between.
WalletDone(c) ==
    IF c.wallets # {} /\ c.txs = {} /\ c.before = 0
    THEN [c EXCEPT !.visited = @ \cup {Min(c.wallets)},
                   !.wallets = @ \ {Min(c.wallets)},
                   !.before = MaxTxs + 1]
    ELSE c

Settle(c) ==
    IF c.phase = "cycle" /\ WalletDone(c).wallets = {} /\ ~c.more
    THEN [WalletDone(c) EXCEPT !.phase = "save"]
    ELSE WalletDone(c)

Goto(r, next) == cycle' = [cycle EXCEPT ![r] = Settle(next)]

Wallet(r) == Min(cycle[r].wallets)

\* The page is worked off in the order of the query, newest first.
Tx(r) == Max(cycle[r].txs)

InCycle(r) == cycle[r].phase = "cycle"

BeginCycle(r) ==
    /\ cycle[r].phase = "idle"
    /\ \E lag \in 0..MaxLag :
          Goto(r, [cycle[r] EXCEPT !.phase = "begin", !.latest = Max({0, height - lag})])
    /\ UNCHANGED <<network, database, logged, missed, job, failures>>

ReadCheckpoint(r) ==
    /\ cycle[r].phase = "begin"
    /\ Goto(r, [cycle[r] EXCEPT !.phase = "cycle", !.last = checkpoint])
    /\ UNCHANGED <<network, database, logged, missed, job, failures>>

\* The n members of S that come first, or last.
Lowest(n, S) == {x \in S : Cardinality({y \in S : y < x}) < n}
Highest(n, S) == {x \in S : Cardinality({y \in S : y > x}) < n}

\* The rows from the cursor's on, without the first: `skip: 1` drops the first
\* match, which is not the cursor's row when that one is no longer active.
WalletsAfter(cursor) ==
    LET active == {w \in Wallets : profile[w] = "active" /\ w >= cursor}
    IN  IF cursor = 0 \/ active = {} THEN active ELSE active \ {Min(active)}

\* Mutant: the query's cursor is not passed on, and one page is all there is.
ListFirstWallets(r) ==
    /\ InCycle(r) /\ cycle[r].wallets = {} /\ cycle[r].more
    /\ Goto(r, [cycle[r] EXCEPT !.wallets = Lowest(WalletPageSize, WalletsAfter(0)),
                                !.more = FALSE])
    /\ UNCHANGED <<network, database, logged, missed, job, failures>>

ListWallets(r) ==
    LET rest == WalletsAfter(cycle[r].after)
        page == Lowest(WalletPageSize, rest)
    IN  /\ InCycle(r) /\ cycle[r].wallets = {} /\ cycle[r].more
        /\ Goto(r, [cycle[r] EXCEPT !.wallets = page,
                                    !.after = IF page = {} THEN @ ELSE Max(page),
                                    !.more = page # rest])
        /\ UNCHANGED <<network, database, logged, missed, job, failures>>

\* Mutant: .order("asc"), as the comment on the function says.
OldestFirst(w, before) ==
    Lowest(TxPageSize, {i \in 1..Len(chain) : Touches(i, w) /\ i < before})

\* Horizon's page: the newest transactions of the account before the cursor.
Page(w, before) ==
    Highest(TxPageSize, {i \in 1..Len(chain) : Touches(i, w) /\ i < before})

FetchTransactions(r) ==
    LET page  == Page(Wallet(r), cycle[r].before)
        fresh == {i \in page : Ledger(i) > cycle[r].last}
    IN  /\ InCycle(r) /\ cycle[r].wallets # {}
        /\ cycle[r].txs = {} /\ cycle[r].before > 0
        /\ Goto(r, [cycle[r] EXCEPT
               !.txs = fresh,
               !.before = IF fresh # {} /\ fresh = page THEN Min(fresh) ELSE 0])
        /\ UNCHANGED <<network, database, logged, missed, job, failures>>

\* `if (ok && ledger > maxProcessedLedger)`: only a new maximum is noted.
Mark(r, ledger) ==
    IF \A l \in cycle[r].processed \cup {cycle[r].last} : ledger > l
    THEN cycle[r].processed \cup {ledger}
    ELSE cycle[r].processed

\* Leave transaction Tx(r), its ledger being processed or not.
NextTx(r, processed) ==
    [cycle[r] EXCEPT !.txs = @ \ {Tx(r)}, !.paid = 0, !.processed = processed]

\* processTransactionForWallet, one payment; after the last one the
\* transaction counts as processed.
ProcessPayment(r) ==
    /\ InCycle(r) /\ cycle[r].txs # {}
    /\ LET unpaid == Unpaid(Tx(r), Wallet(r), cycle[r].paid)
           k      == Min(unpaid)
       IN  /\ IndexPayment(Tx(r), "own", k) /\ Miss(Tx(r), Wallet(r), k)
           /\ Goto(r, IF unpaid = {k} THEN NextTx(r, Mark(r, Ledger(Tx(r))))
                                      ELSE [cycle[r] EXCEPT !.paid = k])
    /\ UNCHANGED <<network, business, checkpoint, errors, logged, job, failures>>

Failing == failures < MaxFailures /\ failures' = failures + 1

\* Processing fails at this payment; the dead letter is written.
DeadLetter(r) ==
    /\ InCycle(r) /\ cycle[r].txs # {} /\ Failing
    /\ errors' = Append(errors, [tx |-> Tx(r), wallet |-> Wallet(r),
                                 retryCount |-> 0, resolved |-> FALSE])
    /\ Goto(r, NextTx(r, Mark(r, Ledger(Tx(r)))))
    /\ UNCHANGED <<network, business, checkpoint, row, logged, missed, job>>

\* Mutant: the failure is not even logged, the cycle just goes on.
DropDeadLetter(r) ==
    /\ InCycle(r) /\ cycle[r].txs # {} /\ Failing
    /\ Goto(r, NextTx(r, cycle[r].processed))
    /\ UNCHANGED <<network, database, logged, missed, job>>

\* Writing the dead letter fails as well: a log line, and the ledger is not
\* marked as processed.
DeadLetterLost(r) ==
    /\ InCycle(r) /\ cycle[r].txs # {} /\ Failing
    /\ logged' = logged \cup {<<Tx(r), Wallet(r)>>}
    /\ Goto(r, NextTx(r, cycle[r].processed))
    /\ UNCHANGED <<network, database, missed, job>>

\* Sorted ascending before they are saved.
LedgerToSave(r) == Min(cycle[r].processed)

SaveCheckpoint(r) ==
    /\ cycle[r].phase = "save" /\ cycle[r].processed # {}
    /\ checkpoint' = LedgerToSave(r)
    /\ Goto(r, IF cycle[r].processed = {LedgerToSave(r)} THEN IdleCycle
               ELSE [cycle[r] EXCEPT !.processed = @ \ {LedgerToSave(r)}])
    /\ UNCHANGED <<network, business, row, errors, logged, missed, job, failures>>

\* Mutant: the checkpoint is taken for the next ledger to read.
EndCycleAhead(r) ==
    /\ cycle[r].phase = "save" /\ cycle[r].processed = {}
    /\ checkpoint' = IF cycle[r].visited = {} THEN cycle[r].latest + 1 ELSE checkpoint
    /\ Goto(r, IdleCycle)
    /\ UNCHANGED <<network, business, row, errors, logged, missed, job, failures>>

\* Nothing to save; when no wallet was listed the checkpoint jumps ahead.
EndCycle(r) ==
    /\ cycle[r].phase = "save" /\ cycle[r].processed = {}
    /\ checkpoint' = IF cycle[r].visited = {} THEN cycle[r].latest ELSE checkpoint
    /\ Goto(r, IdleCycle)
    /\ UNCHANGED <<network, business, row, errors, logged, missed, job, failures>>

\* A call to Horizon or the RPC, which have no timeout, never answers.
Hang(r) ==
    /\ cycle[r].phase # "hung" /\ Failing
    /\ Goto(r, [IdleCycle EXCEPT !.phase = "hung"])
    /\ UNCHANGED <<network, database, logged, missed, job>>

\* An error outside the inner try, or a crash: the cycle is abandoned.
Interrupt(r) ==
    /\ cycle[r].phase # "idle" /\ Failing
    /\ Goto(r, IdleCycle)
    /\ UNCHANGED <<network, database, logged, missed, job>>

-----------------------------------------------------------------------------
(* POST /admin/replay/:errorId.                                            *)

\* Mutant: the retry limit is not looked at.
MayReplayForever(e) == ~errors[e].resolved

MayReplay(e) ==
    /\ ~errors[e].resolved                      \* ALREADY_RESOLVED
    /\ errors[e].retryCount < MAX_RETRIES       \* MAX_RETRIES_EXCEEDED

\* The transaction is rebuilt from its XDR, a fee bump as the inner one.  Horizon
\* finds it by the inner hash, and may name the fee bump's in its operations:
\* these are taken for another transaction's.
ReplayBegin(p, e) ==
    /\ job[p] = IdleJob /\ MayReplay(e)
    /\ \E found \in IF chain[errors[e].tx].bump THEN BOOLEAN ELSE {TRUE} :
           job' = [job EXCEPT ![p] = [error |-> e, paid |-> 0, found |-> found]]
    /\ UNCHANGED <<network, database, logged, missed, cycle, failures>>

\* The transaction and the wallet that the replay in p is about.
Replayed(p) == errors[job[p].error]

ReplayedHash(p) == IF chain[Replayed(p).tx].bump THEN "inner" ELSE "own"

\* The payments that the replay in p has still to index.
Left(p) == IF job[p].found THEN Unpaid(Replayed(p).tx, Replayed(p).wallet, job[p].paid) ELSE {}

ReplayPayment(p) ==
    /\ job[p] # IdleJob /\ Left(p) # {}
    /\ IndexPayment(Replayed(p).tx, ReplayedHash(p), Min(Left(p)))
    /\ Miss(Replayed(p).tx, Replayed(p).wallet, Min(Left(p)))
    /\ job' = [job EXCEPT ![p].paid = Min(Left(p))]
    /\ UNCHANGED <<network, business, checkpoint, errors, logged, cycle, failures>>

\* Mutant: the row is resolved without waiting for the payments.
ResolveEarly(p) ==
    /\ job[p] # IdleJob
    /\ errors' = [errors EXCEPT ![job[p].error].resolved = TRUE]
    /\ job' = [job EXCEPT ![p] = IdleJob]
    /\ UNCHANGED <<network, business, checkpoint, row, logged, missed, cycle, failures>>

ReplayResolve(p) ==
    /\ job[p] # IdleJob /\ Left(p) = {}
    /\ errors' = [errors EXCEPT ![job[p].error].resolved = TRUE]
    /\ job' = [job EXCEPT ![p] = IdleJob]
    /\ UNCHANGED <<network, business, checkpoint, row, logged, missed, cycle, failures>>

\* Any call of the replay fails, markDeadLetterResolved included; counting the
\* failure may itself fail, or the process die.
ReplayFail(p) ==
    /\ job[p] # IdleJob /\ Failing
    /\ \/ errors' = [errors EXCEPT ![job[p].error].retryCount = @ + 1]
       \/ UNCHANGED errors
    /\ job' = [job EXCEPT ![p] = IdleJob]
    /\ UNCHANGED <<network, business, checkpoint, row, logged, missed, cycle>>

-----------------------------------------------------------------------------
CycleStep(r) ==
    \/ BeginCycle(r) \/ ReadCheckpoint(r) \/ ListWallets(r)
    \/ FetchTransactions(r) \/ ProcessPayment(r)
    \/ SaveCheckpoint(r) \/ EndCycle(r)

Fault(r) == DeadLetter(r) \/ DeadLetterLost(r) \/ Hang(r) \/ Interrupt(r)

ReplayStep(p) ==
    \/ \E e \in 1..Len(errors) : ReplayBegin(p, e)
    \/ ReplayPayment(p) \/ ReplayResolve(p) \/ ReplayFail(p)

Environment ==
    \/ \E batch \in Batches : CloseLedger(batch)
    \/ \E w \in Wallets :
        Register(w) \/ Deactivate(w) \/ Reactivate(w) \/ Unlink(w) \/ Relink(w)

Next ==
    \/ Environment
    \/ \E r \in Replicas : CycleStep(r) \/ Fault(r)
    \/ \E p \in Replayers : ReplayStep(p)

Spec == Init /\ [][Next]_vars

(* The loop of runSyncJob calls syncCycle for ever: errors are caught, the *)
(* orchestrator restarts a process that died, and a replica whose call     *)
(* does not answer takes no further step (Hang).  Nobody owes the chain a  *)
(* transaction, a dead letter a replay, or a hung replica a restart.       *)
FairSpec == Spec /\ \A r \in Replicas : WF_vars(CycleStep(r))

-----------------------------------------------------------------------------
\* The other payments of transaction i that derive the event id of payment k.
Rivals(i, k, d) ==
    {j \in 1..Len(chain[i].payments) \ {k} : Supported(i, j) /\ Party(i, j, d) \in Wallets}

\* Wallet w's events of transaction i are stored: each payment has a row of its
\* own, unless a rival payment took its event id.
Indexed(i, w) ==
    \A k \in Relevant(i, w), d \in Directions :
        Supported(i, k) /\ Party(i, k, d) = w =>
            row[<<i, "own", d>>] \in {k} \cup Rivals(i, k, d)

DeadLettered(i, w) ==
    \E e \in 1..Len(errors) : errors[e].tx = i /\ errors[e].wallet = w

\* The outcome of transaction i for wallet w is on record in the database.
Accounted(i, w) == Indexed(i, w) \/ DeadLettered(i, w)

\* Nothing is owed: the failure is only in the log, or no row named the wallet.
Excused(i, w) == <<i, w>> \in logged \cup missed

(* Before a replica moves the checkpoint, every transaction of a wallet it *)
(* went through that the chain held when the cycle began, and that is new  *)
(* since the checkpoint it read, is indexed or dead-lettered, or its       *)
(* double failure is in the log, or its wallet was unlinked when it was    *)
(* indexed.  Two cursors, a cut-off, other replicas and the owners stand   *)
(* between the two.                                                        *)
CycleCovers ==
    \A r \in Replicas :
        cycle[r].phase = "save" =>
            \A w \in cycle[r].visited, i \in 1..Len(chain) :
                /\ Touches(i, w)
                /\ cycle[r].last < Ledger(i) /\ Ledger(i) <= cycle[r].latest
                => Accounted(i, w) \/ Excused(i, w)

(* A dead letter is marked resolved only when its wallet's events are in   *)
(* the database, however replays and sync cycles overlap, unless its       *)
(* wallet was unlinked meanwhile or its transaction is a fee bump.         *)
ResolvedIsIndexed ==
    \A e \in 1..Len(errors) :
        errors[e].resolved =>
            \/ Indexed(errors[e].tx, errors[e].wallet)
            \/ <<errors[e].tx, errors[e].wallet>> \in missed
            \/ chain[errors[e].tx].bump

(* The retry limit is read before the replay and written after it, so      *)
(* concurrent requests overrun it, but by no more than one each.           *)
RetriesBounded ==
    \A e \in 1..Len(errors) :
        errors[e].retryCount < MAX_RETRIES + Max({1, Cardinality(Replayers)})

\* A transaction of an active business that the next cycles should pick up.
Waiting(i, w) ==
    /\ i <= Len(chain) /\ profile[w] = "active"
    /\ Touches(i, w) /\ Ledger(i) > checkpoint /\ ~Accounted(i, w)

AllIn(phase) == \A r \in Replicas : cycle[r].phase = phase

SomeBusinessLeft == \E v \in Wallets : profile[v] \in {"inactive", "unlinked"}

(* Such a transaction, between two cycles, is indexed or dead-lettered in  *)
(* the end, and never overtaken by the checkpoint: unless its dead letter  *)
(* could not be written, a business leaves meanwhile, or every replica     *)
(* waits for a call that never answers.  An outage only delays it.         *)
Progress ==
    \A i \in 1..MaxTxs, w \in Wallets :
        Waiting(i, w) /\ AllIn("idle") ~>
            \/ i <= Len(chain) /\ (Accounted(i, w) \/ Excused(i, w))
            \/ SomeBusinessLeft \/ AllIn("hung")

(* sync-ledger.ts on a transaction whose dead letter could not be written: *)
(* "the ledger gets retried on the next cycle instead of being silently    *)
(* dropped".                                                               *)
LostIsRetried ==
    \A i \in 1..Len(chain), w \in Wallets :
        <<i, w>> \in logged /\ ~Accounted(i, w) => Ledger(i) > checkpoint

(* process-transaction.ts on a transaction with several payments: "every   *)
(* one of them is indexed, not just the first".                            *)
EveryPaymentIndexed ==
    \A r \in Replicas :
        cycle[r].phase = "save" /\ failures = 0 =>
            \A w \in cycle[r].visited, i \in 1..Len(chain) :
                /\ cycle[r].last < Ledger(i) /\ Ledger(i) <= cycle[r].latest
                /\ <<i, w>> \notin missed
                => \A k \in Relevant(i, w) :
                       Supported(i, k) => \E d \in Directions : row[<<i, "own", d>>] = k

(* process-transaction.ts on sync and replay: "both use identical indexing *)
(* logic".  A replay makes the same rows as the sync.                      *)
ReplaysLikeSync ==
    \A e \in 1..Len(errors) :
        errors[e].resolved =>
            \/ Indexed(errors[e].tx, errors[e].wallet)
            \/ <<errors[e].tx, errors[e].wallet>> \in missed
=============================================================================
