----------------------------- MODULE RateLimits -----------------------------
(***************************************************************************)
(* The two sliding-window limiters of the web application.  A route        *)
(* handler first asks a tier of lib/api/rate-limit-config.ts (rateLimit of *)
(* lib/api/rate-limit.ts, with a timer that cleans it up); some handlers   *)
(* are also wrapped in withRateLimit of lib/rate-limit.ts, which has a     *)
(* store of its own.  Each check awaits the session before it and is       *)
(* atomic itself.  Time is counted in whole seconds, in which Retry-After  *)
(* is given; the stores are those of one server process.                   *)
(***************************************************************************)
EXTENDS Integers, Sequences, FiniteSets

CONSTANTS
    Keys,           \* user:<id> and ip:<address>
    Requests,       \* requests that may be under way together
    WindowLength,   \* windowMs
    MaxWrapped,     \* max of withRateLimit
    MaxTier,        \* maxRequests of the tier
    MaxTime         \* bound on the clock

ASSUME LimitAssumption ==
    /\ WindowLength \in Nat \ {0}
    /\ MaxWrapped \in Nat \ {0}
    /\ MaxTier \in Nat \ {0}
    /\ MaxTime \in Nat

VARIABLES
    now,            \* Date.now()
    window,         \* for each limiter and key, the times it recorded
    request,        \* where each request is, and its key there
    passed,         \* history: the times of all checks that passed
    advised         \* history: the earliest retry a refusal announced since
                    \* the last check of the key that passed, or 0

limitVars == <<now, window, request, passed, advised>>

Limiters == {"wrapper", "tier"}

Limit(l) == IF l = "wrapper" THEN MaxWrapped ELSE MaxTier

LimitTypeOK ==
    /\ now \in 0..MaxTime
    /\ window \in [Limiters -> [Keys -> Seq(0..MaxTime)]]
    /\ request \in [Requests -> [at : Limiters \cup {"none", "handled", "refused"},
                                key : Keys]]
    /\ passed \in [Limiters -> [Keys -> Seq(0..MaxTime)]]
    /\ advised \in [Limiters -> [Keys -> 0..MaxTime + WindowLength]]

NoTimes == [l \in Limiters |-> [k \in Keys |-> <<>>]]

LimitInit ==
    /\ now = 0
    /\ window = NoTimes
    /\ request \in [Requests -> [at : {"none"}, key : Keys]]
    /\ passed = NoTimes
    /\ advised = [l \in Limiters |-> [k \in Keys |-> 0]]

-----------------------------------------------------------------------------
\* A request awaits its session at a limiter.  Its key there is the user's,
\* or the address's when there is no session; the wrapper also takes the
\* address when the look-up fails.
Go(r, at) == \E k \in Keys : request' = [request EXCEPT ![r] = [at |-> at, key |-> k]]

\* A request comes to a route, wrapped or not.
Arrive(r) ==
    /\ request[r].at = "none"
    /\ \E l \in Limiters : Go(r, l)
    /\ UNCHANGED <<now, window, passed, advised>>

\* pruneWindow: "Since `win` is insertion-ordered, we can splice from the front";
\* the filter of the tiers keeps the same times.
Live(times) ==
    LET cutoff == now - WindowLength
        pruneCount == CHOOSE n \in 0..Len(times) :
                          /\ \A i \in 1..n : times[i] <= cutoff
                          /\ n < Len(times) => times[n + 1] > cutoff
    IN  SubSeq(times, pruneCount + 1, Len(times))

\* 429 with the time at which the oldest request leaves the window.
Refused(r, l, k) ==
    /\ Len(Live(window[l][k])) >= Limit(l)
    /\ window' = [window EXCEPT ![l][k] = Live(@)]
    /\ advised' = [advised EXCEPT ![l][k] = Head(Live(window[l][k])) + WindowLength]
    /\ request' = [request EXCEPT ![r].at = "refused"]
    /\ UNCHANGED <<now, passed>>

\* Recorded; the wrapper calls the handler, which asks its tier.
Admitted(r, l, k) ==
    /\ Len(Live(window[l][k])) < Limit(l)
    /\ window' = [window EXCEPT ![l][k] = Append(Live(@), now)]
    /\ passed' = [passed EXCEPT ![l][k] = Append(@, now)]
    /\ advised' = [advised EXCEPT ![l][k] = 0]
    /\ Go(r, IF l = "wrapper" THEN "tier" ELSE "handled")
    /\ UNCHANGED now

Check(r) ==
    \E l \in Limiters, k \in Keys :
        /\ request[r] = [at |-> l, key |-> k]
        /\ Refused(r, l, k) \/ Admitted(r, l, k)

\* The handler answers, or fails before its tier is asked.
Finished(r) ==
    /\ request[r].at \in {"tier", "handled", "refused"}
    /\ request' = [request EXCEPT ![r].at = "none"]
    /\ UNCHANGED <<now, window, passed, advised>>

\* Mutant: the timer empties the store.
ForgetAll ==
    /\ window' = [window EXCEPT !["tier"] = [k \in Keys |-> <<>>]]
    /\ UNCHANGED <<now, request, passed, advised>>

\* The tier's timer; an empty entry is the same as none.
CleanUp ==
    /\ window' = [window EXCEPT !["tier"] = [k \in Keys |-> Live(@[k])]]
    /\ UNCHANGED <<now, request, passed, advised>>

PassTime ==
    /\ now < MaxTime
    /\ now' = now + 1
    /\ UNCHANGED <<window, request, passed, advised>>

LimitNext ==
    \/ \E r \in Requests : Arrive(r) \/ Check(r) \/ Finished(r)
    \/ CleanUp
    \/ PassTime

LimitSpec == LimitInit /\ [][LimitNext]_limitVars

-----------------------------------------------------------------------------
(* Properties *)

(* No limiter lets more requests of a key pass within any window's length  *)
(* than its maximum, whenever its windows are pruned and cleaned up.       *)
WindowBound ==
    \A l \in Limiters, k \in Keys : \A t \in 0..now :
        Cardinality({i \in DOMAIN passed[l][k] :
                        passed[l][k][i] \in (t - WindowLength + 1)..t}) <= Limit(l)

\* A check of the key k refuses a request at l.
Refuses(l, k) ==
    \E r \in Requests : request[r] = [at |-> l, key |-> k] /\ request'[r].at = "refused"

(* The 429 of a tier says "Please retry after N second(s)." (rate-limit.ts *)
(* line 85), but a wrapped route counts the refused requests at its        *)
(* wrapper, which can refuse the retry.                                    *)
TierRetryAdmitted ==
    [][\A k \in Keys :
           /\ advised["tier"][k] # 0 /\ advised["wrapper"][k] = 0
           /\ now >= advised["tier"][k]
           => ~Refuses("wrapper", k)]_limitVars
=============================================================================
