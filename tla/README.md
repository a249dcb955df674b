# HerLedger in TLA+

HerLedger keeps a verifiable financial record for businesses on Stellar. Three
Soroban contracts hold the authoritative state; an indexer copies payments from
the network into a PostgreSQL database; a web application lets owners register,
dispute and read; an SDK connects both to the contracts and to the RPC servers.

This directory holds TLA+ models of the parts that keep state, the TLC
configurations that check them on small instances, and proofs, checked by
TLAPS, that every safety property of the runs holds for instances of any size.
Liveness is model-checked only. Paths below are relative to the repository; `app/` stands for
`herledger-app/` and `contracts/` for `herledger-contract/contracts/`.

    tlc -config BusinessRegistry.cfg BusinessRegistry.tla
    tlapm BusinessRegistryProofs.tla

`PROJECT.json` lists every run, every definition with the lines it models, and
for every property a mutant: a plausible bug in one definition (written next to
it, with a comment that begins "Mutant:") under which TLC finds the property
violated.

## 1. Inventory

| Part | State | Operations | What is hard | What makes it correct | Model |
|---|---|---|---|---|---|
| BusinessRegistry contract (`contracts/business_registry`) | a record per business; index by wallet; index by owner | initialize, register, update metadata, deactivate, look up by wallet | index entries are never removed, only overwritten; whether one counts depends on the record it names | no owner or wallet behind two active businesses; lookup by wallet finds the active one; history stays | `BusinessRegistry` |
| FinancialLedger contract (`contracts/financial_ledger`) | events; a list of ids per business; supported assets; authorities | record, verify, dispute, resolve, revoke, assets, paged query | two copies of the same history; a lifecycle with three authorities; pages with offset and capped limit | lists and events agree, in ledger order; status follows the lifecycle; pages neither skip nor repeat | `FinancialLedger` |
| AttestationRegistry contract (`contracts/attestation_registry`) | attesters; attestations | register and deactivate attesters, create, revoke | attesters leave while attestations stand | what is read of it later is what it held |  `AttestationRegistry` |
| SDK query cache and attestation client (`app/packages/sdk/src/cache`, `contracts/attestation-registry.ts`) | entries with expiry; requests under way | get, invalidate, own writes | answers that arrive after an invalidation; writes of other processes | bounded staleness; reads never go back in time; own writes are seen | `AttestationQuery` |
| SDK RPC client and submission (`app/packages/sdk/src/rpc`) | a circuit breaker per endpoint; timers of a submission | health check with failover, submit with back-off, poll | concurrent calls whose results come late and in any order; deadlines | endpoints that rest are not chosen, reachable ones used again; waiting is bounded | `RpcClient` |
| Indexer sync job (`app/indexer/src/jobs`, `stellar`, `index`) | checkpoint, event rows, dead letters; the cycle's own variables | list wallets, page through transactions, index payments, write dead letters, save the checkpoint | replicas, crashes between two writes, paging newest first under one global checkpoint | what a cycle went through is accounted for; what waits between two cycles is indexed in the end | `LedgerSync` |
| Dead-letter replay (`app/indexer/src/api/routes/admin.ts`) | rows with retry count and resolved flag | replay one row | checks long before the write they guard | resolved means indexed; the retry limit is overrun only by concurrent requests | `LedgerSync` |
| Event rows (`app/indexer/src/db/schema/financial-events.ts`) | event id, payment, status | upsert | the same event id from several places | each payment has its row; the code lets two of one transaction share one | `LedgerSync` (payment), `WalletLink` (status), `EventStream` (timestamp) |
| Registration flow (`app/apps/web/hooks/use-registration-flow.ts`, `lib/business/pending-registration.ts`, `app/api/business/register/route.ts`) | reducer state of each tab, localStorage, the user's row, the contract | submit, poll, post, resume, close | chain first, database second; tabs that share localStorage; a check and an insert that are two queries | the row and the confirmed screen stand for a business on chain; a pending registration goes only for a reason of its own; a submit ends | `RegistrationFlow` over `BusinessRegistry` |
| Event stream (`app/apps/web/app/api/v1/events/stream`, `hooks/use-event-stream.ts`) | time of the last poll; a lock, a source, timers and a channel per tab | poll every 2 s, reconnect, lead, broadcast, deduplicate | polls that overlap; rows committed out of order of their timestamps; the leader tab changes while timers run | a stream skips no event committed in order; tabs that share a Web Lock keep one stream, and the leader is never without one for good | `EventStream` |
| Business record routes (`app/apps/web/app/api/business`, the dialog and forms before them) | the user's row, idempotency keys, a cached read | deactivate, update metadata, sync, verify, register | chain first, row second; an old record written after a newer change; keys cleaned up while in progress | a row is never inactive when the contract is not; one submission of an update at a time | `BusinessRecords` over `BusinessRegistry` |
| Disputes and linked wallet (`app/apps/web/app/api/v1/disputes`, `lib/settings/wallet.ts`, SDK `wallet/challenge.ts`) | dispute rows, status of the event's row, the linked wallet, the panel | dispute, lazy refresh, challenge, unlink, re-link, delete the account | check of active disputes in another query; handlers that write what their closure saw; lost answers; POST sync, which writes the same column | an idle panel shows what the row holds | `WalletLink` |
| Wallet of a tab (`sdk/wallet/freighter.ts`, `apps/web/lib/wallet/context.tsx`) | the context's address, connection and reads under way, the form's wallet | poll, connect, disconnect, sign out and in | answers of another process, evaluated earlier than they arrive | a switch of accounts is seen in time, and nothing registers another account after that | `WalletSession` |
| Activity list and export (`components/activity/activity-list.tsx`, `api/v1/activity`) | selection, page shown, requests under way; the export's offset | turn pages, choose range and page size, export | late answers; rows added while paging by offset, and rows of one ledger in no order | the page shown is one of the selection; an export holds every row that was there, but for ledgers cut by a page | `ActivityPages` |
| SDK ledger client (`sdk/src/contracts/financial-ledger.ts`) | cache entries, requests under way, calls and their sequence numbers | five writes, two cached reads, clear | clear() and invalidate() while requests run | an own write is seen | `ContractClient` |
| Attestation pages (`components/attestations`, `api/attestations`) | attester profiles, claim rows, two caches, forms | register, create, describe, list, check, resync | chain first, row second; a resync writes a status read from a cache | the table is never ahead of the chain, no form ahead of the table | `AttestationPages` over `AttestationRegistry` |
| Rate limits (`lib/rate-limit.ts`, `lib/api/rate-limit.ts`) | a window of times per key in two stores | check, prune, clean up | two limiters on one route; a timer that deletes keys | no window holds more than its maximum | `RateLimits` |
| Personal access tokens (`lib/settings/tokens.ts`, `indexer/src/api/auth`) | token rows; the panel's calls | create, list, revoke, verify, record the use | a use recorded after the revocation | a revoked token is refused | `AccessTokens` |
| Notification settings (`lib/settings/notifications.ts`) | a row per event type with its lock | load, toggle, save | several rows in one transaction, several saves at once | saves do not deadlock | `NotificationSettings` |
| Indexer process (`indexer/src/main.ts`, `db/client.ts`, `stellar/retry.ts`, `jobs/reconciliation.ts`) | where start-up, loop, retries, shutdown, HTTP server and reconciliation are | connect, cycle, back off, sleep, serve, shut down | signals in any state, twice; calls that never answer; a crash | exit code 0 only when drained; a signal ends the process unless a request is never answered | `IndexerProcess` |
| Data migrations (`prisma/data-migrations/runner.ts`) | names recorded as applied | read, run, record | overlapping deployments, a stop between running and recording | migrations in order, none recorded that did not run | `DataMigrations` |
| Wallet claims (`indexer/src/db/schema/sync-jobs.ts`), asset cache | a claim per wallet; the asset list | claim, release, refresh | | | not modelled: no caller |
| Authentication, configuration, read-only API, encoding, presentation, scripts | sessions | | | | not modelled (section 8) |

How they interact: the web application calls the contracts through the SDK
(simulate, sign in the browser wallet, submit, poll) and writes its own tables;
the indexer reads the business table, Horizon and the RPC, and writes event
rows, dead letters and the checkpoint in the same database; admin requests
replay dead letters in the process of the indexer. Nothing is shared in memory
between processes: all coordination is by database rows, by the chain and, in
the browser, by localStorage.

The hazards that follow from this, each at its line, are in `PROJECT.json`.

## 2. Modules

    ExclusiveClaims  <|-- BusinessRegistry    <-- RegistrationFlow
                                              <-- BusinessRecords
    EventJournal     <|-- FinancialLedger     <-- MCFinancialLedger
                          AttestationRegistry <-- AttestationQuery, AttestationPages
                          LedgerSync          <-- MCLedgerSync
                          RpcClient
                          IndexerProcess
    MCAttestation <-- AttestationQuery, AttestationPages
    MCOwnerPages  <-- BusinessRecords, WalletLink, WalletSession, ActivityPages,
                      ContractClient
    MCServices    <-- EventStream, RateLimits, AccessTokens,
                      NotificationSettings, DataMigrations
    BusinessRegistryProofs, FinancialLedgerProofs, LedgerSyncProofs,
    RpcClientProofs, RegistrationFlowProofs
    AttestationProofs <-- MCAttestation
    OwnerPagesProofs  <-- MCOwnerPages
    ServicesProofs    <-- MCServices, IndexerProcess

`<|--` is "is implemented by" (an INSTANCE with a refinement mapping). In the
first block `A <-- B` says that B uses A, in the second that the MC module A puts
the modules B side by side: they share no variable (except the contract, in
MCAttestation), so a state that combined steps of two of them would show nothing
that each alone does not. A variable `part`, chosen at the start, says which one
moves; the others keep one initial state. Each module has its own Init, Next and
Spec and can be checked alone; the proofs are about these, so that nothing is
taken from the other parts' resting, and about the specification of the MC
module for the types of all of them.

**BusinessRegistry.** One variable per storage key. A contract call is one
transaction, so one action; its guard is the conjunction of the early returns.
`MayRegister` reads one index entry per owner and wallet, as `register_business`
does, never the set of businesses. `ExclusiveClaims` is what the contract
promises: a registry that compares a new claim with every claim held.
Refinement mapping: the claims are the owner and wallet of the active records.

**FinancialLedger.** Events and the list of ids per business are two variables,
as in storage.rs. `GetBusinessEvents` models the paged query with its capped
limit and its loop, which skips an id without a record. `EventJournal` is an append-only journal per business in which only a
status moves, along the lifecycle; the mapping fills the list of ids with the
records.

**AttestationRegistry / AttestationQuery.** The contract, and the cached reads
of one process over it. A load is three steps: the request leaves (`StartLoad`),
the RPC evaluates it (`Evaluate`), the answer arrives and is stored (`Answer`).
`Write` is a write of any process; when it is this process's own, the
invalidation comes with `WriteConfirmed`, after submitAndWait. History variables
record what the properties speak of: what a reader was last told, the status at
the last confirmed write, when the attestation last changed.

**RpcClient.** Breakers are records with the code's three fields (the time of
the last failure as a duration, up to the reset timeout). A health check is
`StartCheck`, `Respond` and then, when its promise settles, `CheckSucceeds` or
`CheckFails`, the latter with the failover to the next endpoint in the same
synchronous stretch. A submission goes through send, pause, sleep and poll with
the code's two deadlines. It asks the breakers for an endpoint when it begins and
again when it turns to polling, not before a repeated send or another poll, and
never reports to them. `Tick` is one unit of time and waits for timers that are due.

**LedgerSync.** One `syncCycle` per replica, split where the code awaits:
`BeginCycle`, `ReadCheckpoint`, `ListWallets`, `FetchTransactions`,
`ProcessPayment`, `SaveCheckpoint`, `EndCycle`; failures are `DeadLetter`
(processing fails), `DeadLetterLost` (writing the dead letter fails too),
`Interrupt` (an error outside the inner try, or a crash) and `Hang` (a call of
Horizon or the RPC server that never answers: they are created without a
timeout). `Settle` is the
synchronous code between two awaits. Replays are `ReplayBegin` to
`ReplayResolve` or `ReplayFail`. A transaction is its position on the chain, an
event id the hash of a transaction and a direction because `deriveEventId` hashes
nothing else; a fee bump has two hashes, its own, by which the sync job goes, and
the inner transaction's, by which a replay goes. A payment is in a supported
asset or not. A business row may be registered, deactivated, reactivated by a
sync, unlinked from its wallet and linked again; `missed` is a history of the
payments that were indexed while no row named their wallet.

**RegistrationFlow.** Tabs, each with the reducer's step and the place its async
function has reached (`job`); localStorage; the requests the server or the tab
has not seen the end of; the user's row; the contract as an instance of
`BusinessRegistry`. A transaction may be applied, fail or expire at any time
after it was sent; a tab may be closed anywhere; a call may fail with or without
its effect; the rows of other users may take a wallet at any time, so the route
answers 200, both kinds of 409 and 5xx.

**BusinessRecords.** The routes of one server process, each split where it
awaits: find the row, sign, send, confirm, write the row. The idempotency keys
are the Map in its order of insertion, with `KeyLimit` and `KeyDrop` for its
1000 and 500. A request that gives up may still be applied later (`CallContract`
covers its transaction). The read of `sync` and `verify` goes through the query
cache, so a sync may write a record from before a change.

**WalletLink.** One event, one dispute form and one settings panel per business.
`Call` is a handler of the panel together with the request it made; `shown` is
the wallet its closure saw. The event's status moves on chain as `EventJournal`
allows; the row's status follows by the indexer's upsert and the lazy refresh.
POST sync of the profile page (`StartSync`, `EndSync`) writes the same column as
the panel's handlers, whatever the disputes. BusinessRecords has that column on a
variable of its own, since nothing there depends on which wallet it holds.

**WalletSession.** The extension answers later than it evaluates; each read of
the address keeps what it saw. `connect()` makes its calls one after the other:
access, address, network. Time is counted so that the two-second promise of
`context.tsx` can be stated.

**ActivityPages, ContractClient, AttestationPages, AccessTokens.** A page keeps
the requests it has under way and drops answers as its code does (`ignore`,
`creating`); the server's part is one step per query. The export's query orders
by ledger alone: each page is cut out of any order that keeps the ledgers
descending (`Firsts`), and the next page out of another.

**EventStream.** A row is stamped (`Stamp`) before it is committed (`Commit`);
polls of one stream overlap. The tabs share a lock and a channel; timers of the
hook survive the lock. A browser without Web Locks (`webLocks`), where every tab
leads, and a request for the lock that is refused (`LockFails`), after which the
tab connects all the same, are in the module.

**RateLimits.** The two stores in the order in which a request meets them. The
sliding windows are sequences of times, pruned from the front up to the first
time that counts, as `pruneWindow` does; the tiers' `filter` keeps the same times,
since they are in order.

**NotificationSettings, DataMigrations.** A database transaction upsert by upsert
with its row locks; runners of migrations that stop anywhere.

**IndexerProcess.** main, the loop, one call under retry, the HTTP server, the
reconciliation and one run of `shutdown` per signal, as concurrent parts of one
process. What a cycle does is in LedgerSync; here it may also never end, and so
may a request (a replay calls Horizon and the RPC server).

## 3. Runs

| Run | What it checks | Distinct states |
|---|---|---|
| `business_registry` | the index invariant, history, refinement of `ExclusiveClaims` | 213,556 |
| `financial_ledger` | lists against events, pages of limits up to twice the cap, refinement of `EventJournal` | 52,786 |
| `sync_replicas` | two replicas at once: types, coverage before the checkpoint moves | 3,510,920 |
| `dead_letters` | two replay requests and the job: resolved means indexed, bounded retries | 3,587,160 |
| `sync_live` | one replica under fairness: progress | 25,743 |
| `attestation_query` | cached reads: bounded staleness, reads in order, own writes seen; pages: rows on chain, forms in the table | 3,833,410 |
| `rpc_client` | resting endpoints left alone, recovery, bounded waiting | 409,288 |
| `registration_flow` | chain first, what ends a pending registration, a submit ends | 735,762 |
| `indexer_process` | drained exit; a signal ends the process | 5,123 |
| `owner_pages` | records, linked wallet, wallet of the tab, activity, ledger client: types, `InactiveOnChain`, `OneSubmission`, `PanelTruthful`, `DetectedInTime`, `ExportComplete`, `PageSelected`, `OwnCallSeen` | 2,724,375 |
| `services` | stream, limits, tokens, notifications, migrations: types, `StreamComplete`, `OneSource`, `WindowBound`, `RevokedIsRefused`, `NoLockCycle`, `MigratedInOrder` | 1,586,973 |
| `payout_lost` | a statement of the repository's comments that the code does not keep (section 6) | - |

Properties worth knowing:

* `PagesTile`: which event is at place r of page p, for every limit, those above
  the cap included, and that a page holds no more than that: so that no event is
  missed or repeated.
* `CycleCovers`: before a replica saves a checkpoint, every transaction of every
  wallet it went through that is newer than the checkpoint it read, and that the
  chain held when it began, is indexed, dead-lettered or (double failure) logged.
  It relates two cursors, a cut-off by ledger, the marking of ledgers and what
  the other replica did. Indexed means that the row under a payment's event id
  holds that payment, or a rival: another payment of the transaction that derives
  the same id, which is the defect of `payout_lost`. Excepted is a wallet that no
  row named when its payment was indexed (unlinked between listing and indexing).
* `ResolvedIsIndexed`: the same of a resolved dead letter, fee bumps excepted,
  which a replay takes for another transaction (`ReplaysLikeSync`, section 6).
* `Progress`: what waits for an active business between two cycles is indexed or
  dead-lettered in the end, whatever fails in between, and the checkpoint never
  overtakes it. Excepted are lost dead letters, a business that leaves, and calls
  that never answer in every replica. What arrives during a cycle is not covered:
  see the limits below.
* `BoundedStaleness`: an entry that no longer equals the chain dies within TTL
  plus one load after the change, because a load that was evaluated before the
  change had started at most one load time earlier.
* `OwnWritesSeen`: the strongest form of read-your-writes that the cache keeps.
  The exception, a request under way at the confirmation, is a finding
  (`ReadAfterWrite`, section 6). `OwnCallSeen` is the same for the ledger client,
  whose cache can also be cleared while requests run.
* `LeftAlone`: no health check calls, and no submission chooses, an endpoint that
  reached the threshold less than the reset timeout ago, by a new check, failover
  in the middle of another check, a new submission or its change to polling.
  Repeated sends and later polls go to the server chosen before, without asking;
  the property says that they begin at most the wait budget after the choice.
  What the breaker's comments say is stronger (`RejectedWhenOpen`, `OneProbe`,
  section 6).
* `ForgottenWhenSettled`: the pending registration is removed or replaced only by
  a step of a tab with one of four reasons: its POST was answered when a row
  stood; it had resumed a registration and gives up; it opened and found one past
  its 24 hours; the network accepted its own transaction. Two of these are more
  than the comments allow (`LeftForResume`, `KeptForItsTab`, section 6).
* `InactiveOnChain`: five routes write the row and three of them after a call of
  the contract that may time out and be applied later; a sync may write a record
  read before. The row is never inactive when the contract is not. The converse
  does not hold (a crash leaves an active row), nor does `StaysInactive`.
* `PanelTruthful`: the settings panel writes what its handler's closure saw, not
  what the server answered. As long as handlers take turns, every answer
  comes and nothing else writes the row (POST sync, the account's deletion), an
  idle panel nevertheless shows what the row holds.
* `DetectedInTime`: the bound is one poll interval and three calls of the extension
  after the switch, more than the two seconds that the comment names
  (`DetectedByPoll`, section 6): an answer that was evaluated before the switch
  can still arrive after it, and `connect()` shows the address only after its
  second call.
* `StreamComplete`: each poll sets `lastChecked` to the newest row it found, even
  back to an older one; nothing is skipped because a poll only ever moves it to
  a row that it delivers. It excepts rows that commit behind a row as new or
  newer, which the code does skip.
* `OneSource`: relates the lock, the sources and the timers of all tabs, in a
  browser that has Web Locks and while no request for the lock was refused.
  Otherwise every tab connects by design.
* `ExportComplete`: rows are added while the export pages by offset, so it may
  repeat a row but not lose one, except in a ledger between two of whose rows a
  page ended: the query gives these no order, and the next page may be cut out of
  another (`ExportHoldsAll`, section 6).
* `RowsOnChain`: relates the table to the contract, and each form's last screen
  to the table.
* `WindowBound`: over every window of the past, not only the present one.
* `NoLockCycle`: holds because both the form and the server list event types in
  one order; nothing in the save itself orders its rows.
* `DrainedExit`: that no cycle slips in between the signal and the exit rests on
  `signal.aborted` being read in the same synchronous stretch that starts a
  cycle.
* `ShutdownEnds`: the grace period bounds the wait for a cycle, not the closing of
  the server, so a request that is never answered is excepted (`SignalEnds`,
  section 6).

### Bounds, and why they are enough

* Contracts: three ids on three accounts let an index entry be left behind,
  overwritten and left behind again, on the same or on another account; two
  hashes make an update visible. The ledger has three events of two businesses
  (two in one list and one in the other, in any order), a cap of two on pages
  (full, short and empty last pages all occur), limits up to four and two ledger
  numbers.
  Nothing in these contracts compares more than two businesses or events.
* LedgerSync: page sizes of one make every page boundary occur with two
  wallets and two transactions. `sync_replicas` allows one failure and one change
  of a business row besides the interleaving of two cycles; `dead_letters` has one
  transaction, a fee bump with an unsupported payment among its forms, an RPC that
  may be one ledger late, two changes (unlink and link again), and four failures
  with `MAX_RETRIES = 1` so that the limit is reached and overrun; `sync_live`
  three ledgers, so that the chain goes on after a failing cycle, and no change,
  since what is owed is owed only while no business is away. `Batches` lists what
  a ledger may hold: nothing, one payment, a payment between two businesses, one
  transaction that pays both, two transactions (in `MCLedgerSync`). `payout_lost`
  has one business and one transaction with two payments to it.
* AttestationQuery: one attestation under two methods (two keys), a TTL of two
  and loads of up to one unit in a horizon of five: long enough for an entry to
  be filled by an old answer, to expire and to be loaded again.
* RpcClient: two endpoints (one to fail over to), two health checks that can
  fail at once, a threshold of two (so that a single failure does not open a
  breaker), one submission with a budget of two units and pauses of one, two and
  four units. Safety also holds with calls of `getTransaction` that take time,
  and for all values by proof; the run keeps `PollTime = 0` because liveness
  is checked in it.
* RegistrationFlow: two tabs, two attempts, two wallets, one fault (a closed
  tab, a failing call or a lost answer): enough for a tab and the copy that
  resumed its registration to race for the row.
* MCOwnerPages: one business on one account with two hashes, two clients of its
  routes, and a map that is trimmed from the second key on (so that a key in
  progress is dropped); one business and one wallet with two handlers and a
  dispute; two accounts and polls every two units; an export of up to six rows in
  three ledgers by pages of two (so that a page ends within a ledger and between
  two); a list of pages of one and two rows, two ranges, two requests; one event and its page with two loads
  per key and two changes.
* MCServices: two tabs, two events, a clock of three values, two polls and one
  timer; tabs that connect without the lock (no Web Locks, or a refused request)
  are a part of their own with one event and a shorter clock, since how tabs share
  a source does not depend on what the stream sends; one key with two requests and a window of two in a horizon of four
  (every order of pruning, clean-up and check); one token with two readers and
  three calls of the panel; two forms with two types; three runners of three
  files.
* MCAttestation adds to the above two accounts, two tabs and two resyncs over one
  attestation. Its pages have no clock: an entry of the server's cache may expire
  at any time.
* IndexerProcess: two signals, two requests, two attempts, a sample of one, and
  one error of each class of `isPermanentError`. `DrainedExit` is proved for all.

Symmetry is used where elements are told apart by name only and no liveness is
checked: replicas, accounts, events and tabs.

Counters that the code does not bound (ledgers, transactions, failures, the
clock, changes of other clients, requests under way at once) are bounded by the
constants `MaxLedger`, `MaxTxs`, `MaxFailures`, `MaxSequence`, `MaxTime`,
`MaxFaults`, `MaxClock`, `MaxPolls`, `MaxTimers`, `MaxChanges`, `MaxLoads`,
`MaxCalls`, `MaxPanelCalls`, `MaxDisputes`, `MaxRequests`, `MaxResyncs`,
`MaxLedgers`, `MaxPerLedger` and `MaxOffset`, in the guards of the actions that count them. Runs
that reach such a bound, or whose users stop, end: those configurations do not
check for deadlock. `rpc_client`, `sync_live`, `registration_flow` and
`indexer_process` state their progress as liveness.

### Fairness

* LedgerSync: weak fairness of a replica's steps. `runSyncJob` is an endless
  loop around a try/catch, and the orchestrator restarts a process that died.
  Horizon and the RPC server are created without a timeout and
  `retryWithBackoff` has none, so a call may never answer: after `Hang` the
  replica has no step left, and `Progress` excepts the state in which all have
  come to that. Failures are bounded, so progress means "once the outage is
  over". Neither new transactions nor replays are fair.
* RpcClient: weak fairness of each health check (the endpoint is polled for
  ever, each call returns or fails), of a submission's steps (timers fire, calls
  return) and of time. Outages and the start of submissions are not fair.
* RegistrationFlow: weak fairness of the async function's own steps up to its
  result. The user and the network owe nothing: `SubmitEnds` therefore rests on
  the polling deadline (`PollThrows`) and not on the transaction being applied.
* IndexerProcess (`ProcessSpec`): weak fairness of the grace timer, of closing the
  server, of disconnecting, and of answering a request that is not stuck. Nothing
  is assumed of the cycle, whose calls may never return: that the shutdown ends all
  the same is what the grace period is for. A request may get stuck as well
  (`RequestHangs`), and then the server never closes.
* MCOwnerPages, MCServices and MCAttestation check safety only.

## 4. Proofs

Every invariant and every action property of the passing runs, and the two
refinements, are theorems: `Spec => ...` for every value of the constants. The temporal steps
use PTL; the rest is about single states and single steps. Each proof has an
inductive invariant of its own, because what is promised is seldom kept by a step
on the strength of itself alone. Below, which invariant that is and why.

**BusinessRegistryProofs.** `IndexInv` is the inductive invariant together with
`TypeOK`: every active business is found by both indexes (`ActiveIsIndexed`) and
no entry leads to someone else's business (`IndexIsSound`). `NoSharedClaim` alone
is not inductive: registration tests index entries, not businesses, so nothing
follows for an active business that the index does not find. With
`ActiveIsIndexed` an active business of the same wallet would be the index entry
that the guard has just tested. From it follow `ClaimsAreExclusive`,
`LookupCorrect` and, action by action, `Refinement`: the guard on two index
entries implies the guard on all claims.

**FinancialLedgerProofs.** `ListsMatchEvents` with `TypeOK` is inductive. The
hard case is recording: the new id must be in no list yet, which holds because
every listed id is recorded and the guard demands that this one is not; and it
must come last in time, which holds because no event is younger than the present
ledger (a conjunct of `Chronological`, there for this reason). `Refinement`
shows each call to append to one journal, to move one status along the
lifecycle, or to change none. `PagesTileTheHistory` is about the loop of the
paged query, a recursive function: that it finds every record makes its result a
stretch of the list (`LoopResult`, by the least index at which it would not be,
and `LoopExists`, which exhibits it); the rest is division with remainder.

**LedgerSyncProofs.** The argument is about a debt. A cycle owes each wallet the
transactions above the checkpoint it read and up to the ledger it began with.
At any moment each of them is in the page the cycle holds, is older than
its cursor and so still to be listed, or has its outcome on record: indexed, in a
dead letter, or logged (`CyclesOK`). `CycleCovers` only speaks of the end of a
cycle and is not inductive without that. `RowsOK` says that a row holds a payment
of its transaction that derives its event id, in a supported asset: without it an
occupied id would not show that a rival took it. What makes the argument survive
the other processes is `Grows`: no step of a replica, a replay or the network
takes a row, an outcome or a ledger back; and ledgers close in order (`InOrder`), so a
transaction that arrives later is owed by no cycle under way. `ResolvedIsIndexed`
needs the same of a replay: the payments that it has not come to yet and those
that have their rows are all that the transaction has (`JobsOK`). For
`RetriesBounded` each replay that passed the check owes at most one increment;
the invariant counts the rest of them with the count, which needs finitely many
`Replayers`.

**RpcClientProofs.** The invariant has a part for each breaker and one for each
submission. `Sound` adds to `BreakerCounts` that a HALF_OPEN breaker last failed
at least the reset timeout ago, without which the state alone would not show
that a call may begin; it is kept by each operation of the breaker, hence by any
order of late results. `OnTime` says what the present deadline leaves in every
phase of a submission; `WaitBounded` is not inductive without it. `LeftAlone`
needs that failover asks only later endpoints, whose breakers the failure just
recorded has not touched; its bound on the calls that do not ask is `OnTime`
again. That the search for an endpoint finds the first one
rests on the well-foundedness of the natural numbers (`LeastElement`).

**RegistrationFlowProofs.** `ChainFirst` is not inductive: it needs that an applied
transaction is never sent again, hence that an attempt which is submitted and not
sent is one tab's alone (the last part of `TabInv`), hence that `Submit` takes an
attempt without a wallet, which no transaction has. With that the applied attempts
only grow (`Settled`), and a confirmed tab, a request to the route and the user's
row each name one (`TabInv`, `RecordInv`). The contract's part is a registration that
writes one entry and finds it empty. `ForgottenWhenSettled` follows from the same
invariant, step by step of the tabs: the route answers "ok" or "conflict" only
when there is a row of the user or another user's with the wallet.
`AbsentAssumption` is the contract's own assumption about `None`, for the flow's
instance of it.

**AttestationProofs.** Of the contract only this is needed: an attestation becomes
Active, then Revoked, and never goes back. A key has one load at most, so what a
load answers is no younger than the entry it replaces, and what it read was true
at some moment since it began (`QueryInv`): from that the three properties of the
cached reads. For the tables (`PagesInv`): whatever a form, a request or a resync
holds was read from the chain or put there by its own transaction, so it stays
true however late it is written; what a list shows, and what an expiring cache
gives back, are of the same kind.

**OwnerPagesProofs**, one section for each part:

* Records. A business that is inactive on the chain stays so (`ChainStep`, one
  lemma for each call of the contract). `RecordInv` says that everything a row can be
  written from is right in this sense: other rows, a cached record, an answer under
  way, what a request has read, and the confirmation a deactivation has seen.
  `InactiveOnChain` alone is not inductive: a sync would write an old record of
  which nothing is known. `OneSubmission` needs `KeysInv`: while a request runs, its
  key is in the map and in progress, unless a clean-up dropped it; an insertion
  drops keys from the front of the map, and which ones depends on their order.
* Linked wallet. Until a panel is disturbed (two handlers at once, a lost answer,
  a sync, a deletion) it has one handler at most and shows what the row held when
  that began.
* Wallet of the tab. A reading that names another account than the extension's is
  older than the last switch, hence soon used or dropped (that of `connect()` after
  one more call); while the screen names
  another account, the next poll, or one under way, is in time to correct it.
* Activity. Rows are never removed, so a row the export has not written, and
  whose ledger no page has cut, is never before its offset: `ExportInv` counts
  the rows above each. `ListInv` says that a
  request that is not ignored is for the present selection.
* Ledger client. An own call that was answered has dropped the entry, or marked the
  event where a request for it runs; an entry stored later shows that call at least,
  also after `clear()` forgot requests that go on running.

**ServicesProofs**, likewise:

* Event stream. A stream misses no row up to its last poll (`CompleteTo`), and each
  poll none up to any row it found (`RowsComplete`); so the clock may be set to any
  of them, even back. A row that commits behind a newer one is what `late` excepts.
  For the tabs: the lock has one holder, only it has a source unless a request for
  the lock was refused, and it has a source or a timer.
* Rate limits. The window is the end of the times that passed, and what is before
  it has left it (`Orderly`). So a request that passes comes a window's length
  after the one that many places before it, and that bounds every window of the
  past.
* Access tokens. A revoked token stays so; a request that came late is never
  admitted because it asks for the row afterwards.
* Notification settings. A form's list has the event types in their order, whatever
  is toggled, and a transaction is a copy of it: of two saves the one that waits
  for the lower row holds no higher one.
* Data migrations. A runner is at most one file past what is recorded or was read as
  recorded, and both sets only grow, whoever records.
* Indexer process. `ExitIsDrained` needs that no cycle runs or can begin once a
  shutdown is past its drain without its grace period having ended, and that the
  server, once closing, takes no request; the second signal's run of `shutdown`
  is where the invariant is needed beyond the obvious.

The theorems assume of the constants what the modules name: limits, page sizes,
periods and bounds are natural numbers, not 0 where the code's are not; `None` and
`Outside` are values of no other kind (in the code, an absent key and an address
nobody registered); `Replayers` is finite. The bounds of the exploration
(`MaxTime` and the like) are arbitrary, so what is proved does not depend on them.

Only model-checked: liveness (`Progress`, `Recovers`, `SubmitEnds`,
`ShutdownEnds`), which is out of the prover's reach. `NoSharedClaim`,
`WalletLookup` and `BreakerCounts` are proved and follow from what the runs check.


## 5. Abstractions and assumptions

* A contract call is atomic. Storage time-to-live is left out: the contracts
  extend it on every access, and an archived entry is restored, not lost.
* Names, hashes, amounts and dates are model values unless a guard compares
  them.
* In LedgerSync a payment's asset is supported or not once and for all, and a
  transaction without a payment of the wallet is left out, although the code
  marks its ledger. Indexing a payment is one step: its two reads of business rows
  are taken together with the database transaction that follows them.
* An owner links again the wallet that was unlinked; another wallet would be
  another business row of the model.
* A payment that is indexed while no row names its wallet makes no event, which is
  no failure to the code: the properties except it (`missed`).
* Horizon finds a fee bump's operations by the inner hash, and names in them
  either hash: the documents of the repository do not say which.
* A call of Horizon or the RPC server may never answer, in LedgerSync and in
  IndexerProcess. `retryWithBackoff` begins such a call again only after it failed.
* The RPC endpoints of AttestationQuery answer with the state of the last ledger;
  a query ends within `LoadTime`. The code sets no deadline for a simulation.
* In RpcClient `getTransaction`, which the code calls without `withRpcTimeout`,
  returns within `PollTime`. The list of urls does not change while the process
  runs. The abort signal of a caller is one of the errors that `SubmitEnds` stands for.
* Three clients of the SDK read with a placeholder address of 55 characters and
  four forms build transactions with the sequence number 0 (section 6). The
  modules give these calls both outcomes, success and failure, so that what they
  show does not depend on that being mended.
* Signing by the browser wallet on the server, as two routes do, may succeed or
  fail in BusinessRecords.
* In WalletSession a call of the extension is answered within `ReadTime`, each of
  the two of `connect()` for itself; the user may take any time to grant access.
  While Freighter gives no address, the registration form keeps the last one.
* In EventStream the browser has BroadcastChannel. The rows of the export and the
  list are ordered by ledger alone; the model leaves the order within a ledger
  open from query to query.
* `QueryCache.clear()` is left out of AttestationQuery; ContractClient has it.
* In AttestationPages only the form calls the route that saves a claim.
* Caches of Next.js and the SDK on the server may forget an entry at any time, in
  BusinessRecords and AttestationPages.
* In RegistrationFlow attempts have distinct ids, and a pending registration is
  removed as too old (24 hours) only when its transaction, valid for 300
  seconds, is settled or expired. One user, whose row is written by the register
  route after the flow's POST; it can also be written by `v1/business/register`
  (in BusinessRecords) or by a POST of the user's own making, since neither route
  looks at the chain. Other users' rows have other business ids, so the third 409
  of the route does not occur, and may take any wallet.
* In NotificationSettings only the panel saves; the PUT route takes the types in
  the order it is given, and `NoLockCycle` says nothing of another client's.
* MCServices has no Web Locks or has them for all tabs: they are one browser's.

## 6. Findings

Each is in `PROJECT.json` with its line and the sentence it contradicts. Stated
by a run:

* `payout_lost`: process-transaction.ts:15-17 says that every payment of a
  transaction is indexed; event ids are made of the transaction and the
  direction only, so the second of two payments of one transaction to a business
  leaves no row. Two businesses paid in one transaction collide in the same way.

Stated by a definition that no configuration checks because the code does not
keep it; add it to the INVARIANTS (or PROPERTIES) of the run to see TLC's
counterexample:

| Definition | Run to add it to | What the documents say |
|---|---|---|
| `LostIsRetried` | `dead_letters` | a ledger whose dead letter could not be written is retried (sync-ledger.ts:209-211); a newer ledger moves the checkpoint past it |
| `ReplaysLikeSync` | `dead_letters` | sync and replay "use identical indexing logic" (process-transaction.ts:12-14); a fee bump is replayed under its inner hash |
| `ReadAfterWrite` | `attestation_query` | a read after a write sees no stale value (sdk/README.md:29-32); a request under way puts one back |
| `PagesAfterWrite` | `owner_pages` | the same; a ledger's write leaves the cached pages |
| `LeftForResume` | `registration_flow` | a failing POST leaves the pending registration (use-registration-flow.ts:133-134); a resumed flow removes it |
| `KeptForItsTab` | `registration_flow` | the pending registration is there to resume polling on the next load (pending-registration.ts:10-13); another attempt or another tab's answer takes its place |
| `RejectedWhenOpen` | `rpc_client` | an OPEN breaker rejects requests (circuit-breaker.ts:10); repeated sends and polls do not ask it |
| `OneProbe` | `rpc_client` | HALF_OPEN allows one probe (circuit-breaker.ts:11); every caller passes |
| `SignalEnds` | `indexer_process` | the exit is forced after a grace period (main.ts:17); closing the server waits for every request |
| `DetectedByPoll` | `owner_pages` | a switch of accounts is detected in 2 s (context.tsx:14-16); a late answer sets the former account again |
| `ExportHoldsAll` | `owner_pages` | the export streams every event (lib/api/openapi.ts:253); pages within a ledger have no order |
| `StaysInactive` | `owner_pages` | no reactivation from the UI (business-deactivation-flow.tsx:95); a sync writes an old record |
| `RefusedInDispute` | `owner_pages` | unlink and re-link are refused under a dispute (linked-wallet.tsx:15-16); check and update are two queries |
| `NewEventsStay` | `owner_pages` | the stream overlays newly indexed events (lib/data/activity.ts:19-21); opening the notifications clears them |
| `TierRetryAdmitted` | `services` | retry after N seconds (lib/api/rate-limit.ts:85); the wrapper counted the refused request |

Met while modelling: transactions built with the sequence number 0 and a
placeholder address that is not one; pages that read a response's fields one
level too high; routes that sign on the server; an account's deletion undone by
a re-link under way; a wallet connected again by the next poll; idempotency keys
that never forget a failure; a stream that polls on after its client left; rows
whose status goes back to Pending; a shutdown that ends with code 1 when the
cycle fails; retries that wait less than documented; a reconciliation that
reports success when it could read nothing; and others of that kind.

Limits of the code that are no contradiction of its documents, but that a reader
of `Progress`, `CycleCovers` and `StreamComplete` should know: with one global
checkpoint, a transaction that arrives behind a running cycle, or a business
registered or linked after the checkpoint passed its payments, is not read again; when a
listing's cursor is deactivated between two pages, the next wallet is left out of
that cycle; and a row committed after a newer one was streamed is not streamed.

## 7. Plan

Done: the contracts, the sync job and replay, the process around it, the query
cache and the attestation pages, the RPC client, the registration flow, the
owner's pages and the services; proofs of all their safety properties.

Next, in this order:

1. An abstract log of settled transactions per wallet that only grows, which
   LedgerSync implements; its `Grows` is the step already proved.
2. For each breaker, an abstract breaker that counts the failures since the last
   success, which RpcClient implements for any order of results.
3. The composition of EventStream with the sync job's writes, and of WalletLink
   with the wallets that LedgerSync lists.


## 8. Not modelled, and why

* Wallet claims, the indexer's asset cache: no production code calls them.
* The paginated dispute list and the dispute status poller: they read fields and
  ask for a route that do not exist (section 6), so they have no behaviour to
  check.
* Fee-bump resubmission and the abort signal of the SDK; reset of a breaker: no
  production code uses them.
* Authentication (a library's sessions), configuration, read-only routes, API
  descriptions, encoding, presentation, scripts and generated files: validation,
  queries without effect, data conversion and display.
