----------------------------- MODULE RpcClient -----------------------------
(***************************************************************************)
(* The SDK's RPC client in one process: the circuit breaker of each        *)
(* endpoint (packages/sdk/src/rpc/circuit-breaker.ts), failover in order   *)
(* of priority for health checks (rpc/client.ts), and the submission of a  *)
(* signed transaction (rpc/transactions.ts), which asks the breakers for   *)
(* an endpoint and tells them nothing.                                     *)
(*                                                                         *)
(* Any number of calls is open at once and each is answered whenever the   *)
(* network pleases, so results reach a breaker late and in any order.      *)
(* Times are kept as durations up to the value they are compared with.     *)
(***************************************************************************)
EXTENDS Integers, FiniteSetsExt

CONSTANTS
    NumEndpoints,    \* configured urls, 1 is the first
    Checkers,        \* concurrent health checks
    Submitters,      \* concurrent calls of submitAndWait
    Threshold,       \* failureThreshold
    ResetTimeout,    \* resetTimeoutMs
    MaxWait,         \* maxWaitMs
    PollInterval,    \* pollIntervalMs
    RpcTimeout,      \* timeoutMs of withRpcTimeout
    PollTime,        \* assumed: getTransaction returns within this time
    MaxBackoff       \* MAX_BACKOFF_MS; BASE_BACKOFF_MS is 1

Endpoints == 1..NumEndpoints

ASSUME ClientAssumption ==
    /\ {NumEndpoints, ResetTimeout, PollTime} \subseteq Nat
    /\ {Threshold, RpcTimeout, MaxWait, PollInterval, MaxBackoff} \subseteq Nat \ {0}

VARIABLES
    up,         \* the endpoints that answer
    breaker,    \* the circuit breaker of each endpoint
    check,      \* the open call of each health check
    submission  \* the state of each submitAndWait

vars == <<up, breaker, check, submission>>

Breaker == [state : {"CLOSED", "OPEN", "HALF_OPEN"},
            failureCount : 0..Threshold,     \* counted up to the threshold
            sinceFailure : 0..ResetTimeout]  \* now - lastFailureTime, likewise

Check == [at : {0} \cup Endpoints, result : {"none", "success", "failure"}]

IdleCheck == [at |-> 0, result |-> "none"]

\* `at` is the server, `delay` the back-off before the next attempt, `elapsed`
\* the time since submitAndWait was called, `waited` since the present deadline
\* was set, `left` what remains of a pause and `open` the age of an open call.
Submission == [phase : {"idle", "send", "pause", "sleep", "poll"},
               at : {0} \cup Endpoints, delay : 1..MaxBackoff,
               elapsed : Nat, waited : Nat, left : 0..MaxWait, open : Nat]

IdleSubmission == [phase |-> "idle", at |-> 0, delay |-> 1,
                   elapsed |-> 0, waited |-> 0, left |-> 0, open |-> 0]

TypeOK ==
    /\ up \subseteq Endpoints
    /\ breaker \in [Endpoints -> Breaker]
    /\ check \in [Checkers -> Check]
    /\ submission \in [Submitters -> Submission]

Init ==
    /\ up = Endpoints
    /\ breaker = [e \in Endpoints |->
           [state |-> "CLOSED", failureCount |-> 0, sinceFailure |-> ResetTimeout]]
    /\ check = [c \in Checkers |-> IdleCheck]
    /\ submission = [s \in Submitters |-> IdleSubmission]

AtMost(n, bound) == IF n <= bound THEN n ELSE bound

-----------------------------------------------------------------------------
(* The circuit breaker.                                                    *)

\* Mutant: only a success ends the state OPEN.
ReadAsStored(b) == b

\* The getter `state`: OPEN turns into HALF_OPEN when its time is over.
Read(b) ==
    IF b.state = "OPEN" /\ b.sinceFailure >= ResetTimeout
    THEN [b EXCEPT !.state = "HALF_OPEN"]
    ELSE b

AllowRequest(b) == Read(b).state # "OPEN"

OnSuccess(b) ==
    [state |-> "CLOSED", failureCount |-> 0, sinceFailure |-> b.sinceFailure]

OnFailure(b) ==
    LET count == AtMost(b.failureCount + 1, Threshold)
    IN  [state |-> IF b.state = "HALF_OPEN" \/ count >= Threshold
                   THEN "OPEN" ELSE b.state,
         failureCount |-> count, sinceFailure |-> 0]

\* The first endpoint from e on that allows a request, or 0.
First(breakers, e) ==
    LET allowed == {x \in e..NumEndpoints : AllowRequest(breakers[x])}
    IN  IF allowed = {} THEN 0 ELSE Min(allowed)

\* The breakers after a loop over the endpoints from e on has looked for one.
Asked(breakers, e) ==
    [x \in Endpoints |->
        IF x = First(breakers, e) THEN Read(breakers[x]) ELSE breakers[x]]

ReadAll(breakers) == [x \in Endpoints |-> Read(breakers[x])]

-----------------------------------------------------------------------------
(* Health checks: checkRpcHealth calls withRpcFailover.                    *)

CallAt(e) == IF e = 0 THEN IdleCheck ELSE [at |-> e, result |-> "none"]

\* Every breaker is read, then the first endpoint that is allowed is called.
StartCheck(c) ==
    /\ check[c] = IdleCheck
    /\ breaker' = ReadAll(breaker)
    /\ check' = [check EXCEPT ![c] = CallAt(First(breaker, 1))]
    /\ UNCHANGED <<up, submission>>

\* The endpoint answers the call or it does not.
Respond(c) ==
    /\ check[c].at # 0 /\ check[c].result = "none"
    /\ check' = [check EXCEPT ![c].result =
           IF check[c].at \in up THEN "success" ELSE "failure"]
    /\ UNCHANGED <<up, breaker, submission>>

\* The result arrives; getActiveRpcEndpoint then asks the breakers again.
CheckSucceeds(c) ==
    /\ check[c].result = "success"
    /\ breaker' = Asked([breaker EXCEPT ![check[c].at] = OnSuccess(@)], 1)
    /\ check' = [check EXCEPT ![c] = IdleCheck]
    /\ UNCHANGED <<up, submission>>

\* Mutant: the next endpoint is called whatever its breaker says.
CheckFailsOver(c) ==
    LET told == [breaker EXCEPT ![check[c].at] = OnFailure(@)]
        next == (check[c].at + 1) % (NumEndpoints + 1)
    IN  /\ check[c].result = "failure"
        /\ breaker' = IF next = 0 THEN ReadAll(told) ELSE Asked(told, next)
        /\ check' = [check EXCEPT ![c] = CallAt(next)]
        /\ UNCHANGED <<up, submission>>

\* The next endpoint is called; without one the check ends and reads all.
CheckFails(c) ==
    LET told == [breaker EXCEPT ![check[c].at] = OnFailure(@)]
        next == First(told, check[c].at + 1)
    IN  /\ check[c].result = "failure"
        /\ breaker' = IF next = 0 THEN ReadAll(told) ELSE Asked(told, next)
        /\ check' = [check EXCEPT ![c] = CallAt(next)]
        /\ UNCHANGED <<up, submission>>

-----------------------------------------------------------------------------
(* submitAndWait.                                                          *)

Becomes(s, next) ==
    /\ submission' = [submission EXCEPT ![s] = next]
    /\ UNCHANGED <<up, check>>

\* getSorobanRpcServer: the server is chosen once for all attempts.
StartSubmit(s) ==
    /\ submission[s].phase = "idle" /\ First(breaker, 1) # 0
    /\ breaker' = Asked(breaker, 1)
    /\ Becomes(s, [IdleSubmission EXCEPT !.phase = "send", !.at = First(breaker, 1)])

\* backoffDelayMs: a pause is twice as long as the one before it, with a limit.
NextDelay(sub) == AtMost(2 * sub.delay, MaxBackoff)

\* TRY_AGAIN_LATER: a pause, unless it would end after the deadline.
TryAgainLater(s) ==
    /\ submission[s].phase = "send" /\ submission[s].at \in up
    /\ Becomes(s, IF submission[s].waited + submission[s].delay > MaxWait
                  THEN IdleSubmission
                  ELSE [submission[s] EXCEPT !.phase = "pause",
                            !.delay = NextDelay(submission[s]),
                            !.left = submission[s].delay, !.open = 0])
    /\ UNCHANGED breaker

SendAgain(s) ==
    /\ submission[s].phase = "pause" /\ submission[s].left = 0
    /\ Becomes(s, [submission[s] EXCEPT !.phase = "send"])
    /\ UNCHANGED breaker

\* The loop of pollUntilResolved: give up at the deadline or sleep.
PollOrGiveUp(sub) ==
    IF sub.waited >= MaxWait THEN IdleSubmission
    ELSE [sub EXCEPT !.phase = "sleep", !.open = 0,
                     !.left = AtMost(PollInterval, MaxWait - sub.waited)]

\* Mutant: polling goes on at the server that took the transaction.
SendAcceptedSameServer(s) ==
    /\ submission[s].phase = "send" /\ submission[s].at \in up
    /\ Becomes(s, PollOrGiveUp([submission[s] EXCEPT !.delay = 1, !.waited = 0]))
    /\ UNCHANGED breaker

\* Accepted: pollTransactionStatus chooses a server and a deadline of its own,
\* or finds no server and throws.
SendAccepted(s) ==
    /\ submission[s].phase = "send" /\ submission[s].at \in up
    /\ breaker' = Asked(breaker, 1)
    /\ Becomes(s, IF First(breaker, 1) = 0 THEN IdleSubmission
                  ELSE PollOrGiveUp([submission[s] EXCEPT
                           !.at = First(breaker, 1), !.delay = 1, !.waited = 0]))

Poll(s) ==
    /\ submission[s].phase = "sleep" /\ submission[s].left = 0
    /\ Becomes(s, [submission[s] EXCEPT !.phase = "poll"])
    /\ UNCHANGED breaker

\* Mutant: the deadline is not looked at between two polls.
PollForEver(s) ==
    /\ submission[s].phase = "poll" /\ submission[s].at \in up
    /\ Becomes(s, [submission[s] EXCEPT !.phase = "sleep", !.open = 0,
                                        !.left = PollInterval])
    /\ UNCHANGED breaker

\* NOT_FOUND: not in a ledger yet.
NotFound(s) ==
    /\ submission[s].phase = "poll" /\ submission[s].at \in up
    /\ Becomes(s, PollOrGiveUp(submission[s]))
    /\ UNCHANGED breaker

\* A result, an error or a timeout, of the call or of the transaction.
SubmitEnds(s) ==
    /\ submission[s].phase \in {"send", "poll"}
    /\ Becomes(s, IdleSubmission)
    /\ UNCHANGED breaker

-----------------------------------------------------------------------------
(* The network and the time.                                               *)

Outage(e) ==
    /\ up' \in {up \cup {e}, up \ {e}} \ {up}
    /\ UNCHANGED <<breaker, check, submission>>

\* A timer that is due, or a call that has reached its limit.
Due(sub) ==
    \/ sub.phase \in {"pause", "sleep"} /\ sub.left = 0
    \/ sub.phase = "send" /\ sub.open = RpcTimeout
    \/ sub.phase = "poll" /\ sub.open = PollTime

Older(sub) ==
    CASE sub.phase = "idle" -> sub
      [] sub.phase \in {"pause", "sleep"} ->
             [sub EXCEPT !.elapsed = @ + 1, !.waited = @ + 1, !.left = @ - 1]
      [] OTHER -> [sub EXCEPT !.elapsed = @ + 1, !.waited = @ + 1, !.open = @ + 1]

\* Timers fire when they are due.
Tick ==
    /\ \A s \in Submitters : ~Due(submission[s])
    /\ breaker' = [e \in Endpoints |->
           [breaker[e] EXCEPT !.sinceFailure = AtMost(@ + 1, ResetTimeout)]]
    /\ submission' = [s \in Submitters |-> Older(submission[s])]
    /\ UNCHANGED <<up, check>>

CheckStep(c) == StartCheck(c) \/ Respond(c) \/ CheckSucceeds(c) \/ CheckFails(c)

SubmitStep(s) ==
    \/ TryAgainLater(s) \/ SendAgain(s) \/ SendAccepted(s)
    \/ Poll(s) \/ NotFound(s) \/ SubmitEnds(s)

Next ==
    \/ \E c \in Checkers : CheckStep(c)
    \/ \E s \in Submitters : StartSubmit(s) \/ SubmitStep(s)
    \/ \E e \in Endpoints : Outage(e)
    \/ Tick

Spec == Init /\ [][Next]_vars

(* The health endpoint is polled for ever, every call to an endpoint       *)
(* returns or fails, timers fire and time passes.                          *)
FairSpec ==
    /\ Spec /\ WF_vars(Tick)
    /\ \A c \in Checkers : WF_vars(CheckStep(c))
    /\ \A s \in Submitters : WF_vars(SubmitStep(s))

-----------------------------------------------------------------------------
(* A breaker has left CLOSED exactly when the failures since the last      *)
(* success have reached the threshold, in whatever order results came in.  *)
BreakerCounts ==
    \A e \in Endpoints :
        breaker[e].state = "CLOSED" <=> breaker[e].failureCount < Threshold

(* A submission asks the breakers for a server: in submitAndWait and again *)
(* in pollTransactionStatus.                                               *)
Chooses(s, e) ==
    /\ submission'[s].at = e
    /\ \/ submission[s].phase = "idle"
       \/ submission[s].phase = "send" /\ submission'[s].phase = "sleep"

\* A call of sendTransaction or getTransaction begins.
Calls(s, e) ==
    /\ submission'[s].at = e
    /\ submission'[s].phase \in {"send", "poll"} \ {submission[s].phase}

\* The breaker rejects requests, and has nothing to turn HALF_OPEN for yet.
Resting(e) ==
    /\ breaker[e].failureCount >= Threshold
    /\ breaker[e].sinceFailure < ResetTimeout

(* An endpoint whose failures made up the threshold less than the reset    *)
(* timeout ago gets no new user: no health check calls it and no submission*)
(* chooses it. Calls still begin there, of submissions that chose it       *)
(* earlier and do not ask again before a repeated send or another poll, but*)
(* none later than MaxWait after that choice.                              *)
LeftAlone ==
    [][\A e \in Endpoints : Resting(e) =>
           /\ \A c \in Checkers : check'[c].at = e => check[c].at = e
           /\ \A s \in Submitters :
                  /\ ~Chooses(s, e)
                  /\ Calls(s, e) => /\ submission[s].at = e
                                    /\ submission[s].waited <= MaxWait]_vars

(* What circuit-breaker.ts:10 says of OPEN, that requests are rejected at  *)
(* once. The code does not do it (see the finding): SendAgain and Poll do  *)
(* not ask the breaker.                                                    *)
RejectedWhenOpen ==
    [][\A e \in Endpoints, s \in Submitters : Resting(e) => ~Calls(s, e)]_vars

(* What circuit-breaker.ts:11 says of HALF_OPEN, that one probe is allowed.*)
(* The code lets every caller through (see the finding).                   *)
OneProbe ==
    [][\A e \in Endpoints, c, d \in Checkers :
           /\ breaker'[e].state = "HALF_OPEN"
           /\ check[c].at # e /\ check'[c].at = e
           => check[d].at # e]_vars

(* No submission takes longer than two wait budgets and one call of each   *)
(* kind: submission and polling each have a deadline, looked at before     *)
(* every pause and every poll.                                             *)
WaitBounded ==
    \A s \in Submitters :
        submission[s].elapsed <= 2 * MaxWait + RpcTimeout + PollTime

(* When the first endpoint stays reachable, its breaker ends up closed and *)
(* all calls go to it again, whatever results of old calls still come in.  *)
Recovers ==
    <>[](1 \in up) => <>[](breaker[1].state = "CLOSED")
=============================================================================
