--------------------------- MODULE IndexerProcess ---------------------------
(***************************************************************************)
(* The life of one indexer process: start-up (indexer/src/main.ts and      *)
(* connectWithRetry of indexer/src/db/client.ts), the loop around the sync *)
(* cycles (runSyncJob of indexer/src/jobs/sync-ledger.ts), the retries of  *)
(* the calls a cycle makes (indexer/src/stellar/retry.ts), the HTTP        *)
(* requests it serves, the nightly reconciliation                          *)
(* (indexer/src/jobs/reconciliation.ts) and the graceful shutdown.  What a *)
(* cycle does is LedgerSync; here it is calls and writes, some of them     *)
(* stuck.  Delays are not counted: a timer may fire whenever it runs.      *)
(***************************************************************************)
EXTENDS Naturals

CONSTANTS
    ConnectRetries,     \* CONNECT_MAX_RETRIES
    MaxAttempts,        \* retryWithBackoff's maxAttempts
    Messages,           \* errors of a call: the marks their messages carry
    Signals,            \* SIGTERM and SIGINT, each delivered at most once
    HttpRequests,       \* requests that may be open together
    SampleSize          \* rows of one reconciliation

ASSUME ProcessAssumption ==
    /\ ConnectRetries \in Nat \ {0}
    /\ MaxAttempts \in Nat \ {0}
    /\ SampleSize \in Nat

VARIABLES
    main,           \* main(): where it is, and connectWithRetry's attempt
    aborted,        \* shutdownController.signal.aborted
    loop,           \* runSyncJob: where it is, and the attempt of its call
    handler,        \* shutdown(), one run for each signal
    expired,        \* runs whose grace period ended before the cycle did
    server,         \* the Fastify server
    open,           \* HTTP requests it is serving
    stuck,          \* those of them that will never be answered
    recon,          \* the reconciliation: rows left, whether one differs
    exit            \* "up", or how the process ended

processVars == <<main, aborted, loop, handler, expired, server, open, stuck, recon, exit>>

ProcessTypeOK ==
    /\ main \in [step : {"connect", "listen", "running"}, attempt : 1..ConnectRetries]
    /\ aborted \in BOOLEAN
    /\ loop \in [step : {"none", "call", "backoff", "write", "sleep", "stopped"},
                 attempt : 0..MaxAttempts]
    /\ handler \in [Signals -> {"none", "drain", "close", "disconnect"}]
    /\ expired \subseteq Signals
    /\ server \in {"down", "open", "closing"}
    /\ open \subseteq HttpRequests /\ stuck \subseteq open
    /\ recon \in [running : BOOLEAN, left : 0..SampleSize, differs : BOOLEAN]
    /\ exit \in {"up", "0", "1", "killed"}

At(step) == [step |-> step, attempt |-> 0]

NoReconciliation == [running |-> FALSE, left |-> 0, differs |-> FALSE]

ProcessInit ==
    /\ main = [step |-> "connect", attempt |-> 1]
    /\ aborted = FALSE
    /\ loop = At("none")
    /\ handler = [s \in Signals |-> "none"]
    /\ expired = {}
    /\ server = "down"
    /\ open = {} /\ stuck = {}
    /\ recon = NoReconciliation
    /\ exit = "up"

Exit(code) ==
    /\ exit' = code
    /\ UNCHANGED <<main, aborted, loop, handler, expired, server, open, stuck, recon>>

-----------------------------------------------------------------------------
(* Start-up. *)

\* The last failed attempt is fatal.
Connect ==
    /\ main.step = "connect"
    /\ \/ /\ main' = [main EXCEPT !.step = "listen"]
          /\ UNCHANGED <<aborted, loop, handler, expired, server, open, stuck, recon, exit>>
       \/ /\ main.attempt < ConnectRetries
          /\ main' = [main EXCEPT !.attempt = @ + 1]
          /\ UNCHANGED <<aborted, loop, handler, expired, server, open, stuck, recon, exit>>
       \/ main.attempt = ConnectRetries /\ Exit("1")

\* Mutant: the loop does not look at the signal.
NextCycleAnyway(stop) == [step |-> "call", attempt |-> 1]

\* while (!signal.aborted): a cycle begins with a call.
NextCycle(stop) == IF stop THEN At("stopped") ELSE [step |-> "call", attempt |-> 1]

\* A signal may have closed the server before it listens.
Listen ==
    /\ main.step = "listen"
    /\ main' = [main EXCEPT !.step = "running"]
    /\ server' = IF server = "closing" THEN server ELSE "open"
    /\ loop' = NextCycle(aborted)
    /\ UNCHANGED <<aborted, handler, expired, open, stuck, recon, exit>>

\* The port is taken, or a configuration runSyncJob or the scheduler refuses.
StartFails == main.step = "listen" /\ Exit("1")

-----------------------------------------------------------------------------
(* The sync loop. *)

InCycle(step) == step \in {"call", "backoff", "write"}

\* inflightSyncPromise
Inflight == InCycle(loop.step)

Draining == {s \in Signals : handler[s] = "drain"}

Transient == {"timeout", "refused", "rate", "5xx", "429"}
Permanent == {"xdr", "decode", "malformed", "4xx", "unauthorized"}

\* A mark of a transient error is looked for first; the default is to retry.
IsPermanentError(message) ==
    message \cap Transient = {} /\ message \cap Permanent # {}

\* The cycle's promise resolves: the loop sleeps or stops, and a shutdown
\* that waited for it closes the server.
CycleResolves ==
    /\ loop' = IF aborted THEN At("stopped") ELSE At("sleep")
    /\ handler' = [s \in Signals |-> IF s \in Draining THEN "close" ELSE handler[s]]
    /\ server' = IF Draining # {} THEN "closing" ELSE server
    /\ UNCHANGED <<main, aborted, expired, open, stuck, recon, exit>>

\* The loop catches a rejection; the race of a shutdown that waits does not,
\* and nothing handles the rejection of shutdown() itself.
CycleRejects ==
    IF Draining # {} THEN Exit("1") ELSE CycleResolves

CallAnswers ==
    /\ loop.step = "call"
    /\ loop' = At("write")
    /\ UNCHANGED <<main, aborted, handler, expired, server, open, stuck, recon, exit>>

CallFails ==
    /\ loop.step = "call"
    /\ \E message \in Messages :
        IF IsPermanentError(message) \/ loop.attempt = MaxAttempts
        THEN CycleRejects
        ELSE /\ loop' = [loop EXCEPT !.step = "backoff"]
             /\ UNCHANGED <<main, aborted, handler, expired, server, open, stuck, recon, exit>>

\* The back-off is not cut short by a shutdown.
BackoffEnds ==
    /\ loop.step = "backoff"
    /\ loop' = [step |-> "call", attempt |-> loop.attempt + 1]
    /\ UNCHANGED <<main, aborted, handler, expired, server, open, stuck, recon, exit>>

\* A cycle calls again for its next page, ends, or fails on its checkpoint.
WriteEnds ==
    /\ loop.step = "write"
    /\ \/ /\ loop' = [step |-> "call", attempt |-> 1]
          /\ UNCHANGED <<main, aborted, handler, expired, server, open, stuck, recon, exit>>
       \/ CycleResolves
       \/ CycleRejects

SleepEnds ==
    /\ loop.step = "sleep"
    /\ loop' = NextCycle(aborted)
    /\ UNCHANGED <<main, aborted, handler, expired, server, open, stuck, recon, exit>>

-----------------------------------------------------------------------------
(* Requests and the reconciliation. *)

RequestBegins(q) ==
    /\ server = "open"
    /\ q \notin open
    /\ open' = open \cup {q}
    /\ UNCHANGED <<main, aborted, loop, handler, expired, server, stuck, recon, exit>>

\* A replay calls Horizon and the RPC server, which may never answer.
RequestHangs(q) ==
    /\ q \in open
    /\ stuck' = stuck \cup {q}
    /\ UNCHANGED <<main, aborted, loop, handler, expired, server, open, recon, exit>>

RequestEnds(q) ==
    /\ q \in open \ stuck
    /\ open' = open \ {q}
    /\ UNCHANGED <<main, aborted, loop, handler, expired, server, stuck, recon, exit>>

\* The sample is empty when nothing is indexed.
ReconciliationBegins ==
    /\ main.step = "running"
    /\ ~recon.running
    /\ \E n \in 0..SampleSize :
        recon' = [running |-> TRUE, left |-> n, differs |-> FALSE]
    /\ UNCHANGED <<main, aborted, loop, handler, expired, server, open, stuck, exit>>

\* A row whose event cannot be read is skipped, like one that agrees.
CompareRow ==
    /\ recon.left > 0
    /\ \E differs \in BOOLEAN :
        recon' = [recon EXCEPT !.left = @ - 1, !.differs = @ \/ differs]
    /\ UNCHANGED <<main, aborted, loop, handler, expired, server, open, stuck, exit>>

ReconciliationEnds ==
    /\ recon.running
    /\ recon.left = 0
    /\ recon' = NoReconciliation
    /\ UNCHANGED <<main, aborted, loop, handler, expired, server, open, stuck, exit>>

-----------------------------------------------------------------------------
(* Shutdown. *)

\* The handlers are installed once the database answers.
Kill == main.step = "connect" /\ Exit("killed")

\* A sleeping loop wakes and sees the signal.
Signal(s) ==
    /\ main.step # "connect"
    /\ handler[s] = "none"
    /\ aborted' = TRUE
    /\ loop' = IF loop.step = "sleep" THEN NextCycle(TRUE) ELSE loop
    /\ handler' = [handler EXCEPT ![s] = IF Inflight THEN "drain" ELSE "close"]
    /\ server' = IF Inflight THEN server ELSE "closing"
    /\ UNCHANGED <<main, expired, open, stuck, recon, exit>>

\* Mutant: the race has no timeout.
NeverExpires(s) == handler[s] = "drain" /\ FALSE /\ UNCHANGED processVars

GraceExpires(s) ==
    /\ handler[s] = "drain"
    /\ expired' = expired \cup {s}
    /\ handler' = [handler EXCEPT ![s] = "close"]
    /\ server' = "closing"
    /\ UNCHANGED <<main, aborted, loop, open, stuck, recon, exit>>

\* Fastify refuses new requests and waits for those it serves.
ServerClosed(s) ==
    /\ handler[s] = "close"
    /\ open = {}
    /\ handler' = [handler EXCEPT ![s] = "disconnect"]
    /\ UNCHANGED <<main, aborted, loop, expired, server, open, stuck, recon, exit>>

Disconnected(s) == handler[s] = "disconnect" /\ Exit("0")

-----------------------------------------------------------------------------
ShutdownStep(s) == GraceExpires(s) \/ ServerClosed(s) \/ Disconnected(s)

ProcessNext ==
    /\ exit = "up"
    /\ \/ Connect \/ Listen \/ StartFails \/ Kill
       \/ CallAnswers \/ CallFails \/ BackoffEnds \/ WriteEnds \/ SleepEnds
       \/ \E q \in HttpRequests : RequestBegins(q) \/ RequestHangs(q) \/ RequestEnds(q)
       \/ ReconciliationBegins \/ CompareRow \/ ReconciliationEnds
       \/ \E s \in Signals : Signal(s) \/ ShutdownStep(s)

\* A request that is not stuck is answered, a timer fires, the pool disconnects.
\* Nothing is assumed of the cycle: a call of it may never answer.
ProcessSpec ==
    /\ ProcessInit /\ [][ProcessNext]_processVars
    /\ \A s \in Signals : WF_processVars(exit = "up" /\ ShutdownStep(s))
    /\ \A q \in HttpRequests : WF_processVars(exit = "up" /\ RequestEnds(q))

-----------------------------------------------------------------------------
(* Properties *)

(* A process that exits with code 0 serves no request and, unless a grace  *)
(* period ended first, has no sync cycle under way: no cycle slips in      *)
(* between the signal and the exit (main.ts:52-86).                        *)
DrainedExit ==
    exit = "0" => open = {} /\ (Inflight => expired # {})

(* After a signal the process ends, however long the cycle under way takes *)
(* (main.ts:55-56), unless a request it serves is never answered: closing  *)
(* the server waits for that (main.ts:79).                                 *)
ShutdownEnds ==
    (\E s \in Signals : handler[s] # "none") ~> exit # "up" \/ stuck # {}

(* main.ts:17: "Grace period for in-flight sync batches before a forced     *)
(* exit".  After a signal the process ends, whatever is stuck.             *)
SignalEnds ==
    (\E s \in Signals : handler[s] # "none") ~> exit # "up"
=============================================================================
