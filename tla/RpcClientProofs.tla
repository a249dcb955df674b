-------------------------- MODULE RpcClientProofs --------------------------
(***************************************************************************)
(* For any number of endpoints, callers and failures: TypeOK, and what the *)
(* circuit breakers and the deadlines promise.                             *)
(*                                                                         *)
(* BreakerCounts and LeftAlone rest on an invariant of each breaker, Sound,*)
(* which also says how long ago a HALF_OPEN breaker last failed: without   *)
(* that, the state alone would not show that a call may begin.             *)
(* WaitBounded rests on an invariant of each submission, OnTime, which     *)
(* says phase by phase what the present deadline leaves.                   *)
(***************************************************************************)
EXTENDS RpcClient, TLAPS, WellFoundedInduction

Sound(b) ==
    /\ b \in Breaker
    /\ b.state = "CLOSED" <=> b.failureCount < Threshold
    /\ b.state = "HALF_OPEN" => b.sinceFailure = ResetTimeout

AllSound(breakers) ==
    /\ breakers \in [Endpoints -> Breaker]
    /\ \A e \in Endpoints : Sound(breakers[e])

OnTime(sub) ==
    /\ sub \in Submission
    /\ sub.phase = "idle" => sub = IdleSubmission
    /\ sub.phase = "send" =>
           /\ sub.open <= RpcTimeout /\ sub.waited <= MaxWait + sub.open
           /\ sub.elapsed = sub.waited
    /\ sub.phase = "pause" =>
           /\ sub.open = 0 /\ sub.waited + sub.left <= MaxWait
           /\ sub.elapsed = sub.waited
    /\ sub.phase = "sleep" =>
           /\ sub.open = 0 /\ sub.waited + sub.left <= MaxWait
           /\ sub.elapsed <= MaxWait + RpcTimeout + sub.waited
    /\ sub.phase = "poll" =>
           /\ sub.open <= PollTime /\ sub.waited <= MaxWait + sub.open
           /\ sub.elapsed <= MaxWait + RpcTimeout + sub.waited

ClientInv ==
    /\ up \subseteq Endpoints
    /\ AllSound(breaker)
    /\ check \in [Checkers -> Check]
    /\ submission \in [Submitters -> Submission]
    /\ \A s \in Submitters : OnTime(submission[s])

(* A set of natural numbers has a least element.                           *)
LEMMA LeastElement ==
    ASSUME NEW T \in SUBSET Nat, T # {}
    PROVE  Min(T) \in T
<1> DEFINE R == {ss \in Nat \X Nat : ss[1] < ss[2]}
<1>0. IsWellFoundedOn(R, Nat)
  BY NatLessThanWellFounded DEF OpToRel
<1>1. PICK x \in T : \A y \in T : ~ (<<y, x>> \in R)
  <2> HIDE DEF R
  <2> QED BY <1>0, WFMin
<1>2. \A y \in T : x <= y
  <2>1. SUFFICES ASSUME NEW y \in T, y < x  PROVE  FALSE
    OBVIOUS
  <2>2. <<y, x>> \in R
    BY <2>1
  <2>3. QED
    BY <1>1, <2>2
<1>3. \E m \in T : \A y \in T : m =< y
  BY <1>2
<1>4. QED
  BY <1>3 DEF Min

(* Looking for an endpoint finds one whose breaker allows a request.       *)
LEMMA FirstFound ==
    ASSUME NEW breakers, NEW e \in Nat \ {0}, First(breakers, e) # 0
    PROVE  /\ First(breakers, e) \in Endpoints
           /\ First(breakers, e) >= e
           /\ AllowRequest(breakers[First(breakers, e)])
<1> DEFINE allowed == {x \in e..NumEndpoints : AllowRequest(breakers[x])}
<1>1. allowed # {} /\ First(breakers, e) = Min(allowed)
  BY Zenon DEF First
<1>2. allowed \in SUBSET Nat /\ NumEndpoints \in Nat
  BY ClientAssumption
<1>3. First(breakers, e) \in allowed
  <2> HIDE DEF allowed
  <2> QED BY <1>1, <1>2, LeastElement
<1>4. QED
  BY <1>2, <1>3 DEF Endpoints

(* Reading its state keeps a breaker sound.                                *)
LEMMA ReadSound ==
    ASSUME NEW b, Sound(b)
    PROVE  Sound(Read(b))
BY ClientAssumption DEF Sound, Breaker, Read

(* So does a success, whatever the state it is recorded in.                *)
LEMMA OnSuccessSound ==
    ASSUME NEW b, Sound(b)
    PROVE  Sound(OnSuccess(b))
BY ClientAssumption DEF Sound, Breaker, OnSuccess

(* So does a failure, a late one of a closed breaker included.             *)
LEMMA OnFailureSound ==
    ASSUME NEW b, Sound(b)
    PROVE  Sound(OnFailure(b))
BY ClientAssumption DEF Sound, Breaker, OnFailure, AtMost

(* So does the passing of time.                                            *)
LEMMA OlderSound ==
    ASSUME NEW b, Sound(b)
    PROVE  Sound([b EXCEPT !.sinceFailure = AtMost(@ + 1, ResetTimeout)])
BY ClientAssumption DEF Sound, Breaker, AtMost

(* Looking for an endpoint keeps all breakers sound.                       *)
LEMMA AskedSound ==
    ASSUME NEW breakers, NEW e, AllSound(breakers)
    PROVE  AllSound(Asked(breakers, e))
<1>1. \A x \in Endpoints : Asked(breakers, e)[x] \in {breakers[x], Read(breakers[x])}
  BY DEF Asked
<1>2. \A x \in Endpoints : Sound(Asked(breakers, e)[x])
  BY <1>1, ReadSound DEF AllSound
<1>3. QED
  BY <1>2 DEF AllSound, Asked, Sound

(* Reading the state of every breaker keeps all of them sound.             *)
LEMMA ReadAllSound ==
    ASSUME NEW breakers, AllSound(breakers)
    PROVE  AllSound(ReadAll(breakers))
<1>1. \A x \in Endpoints : Sound(ReadAll(breakers)[x])
  BY ReadSound DEF AllSound, ReadAll
<1>2. QED
  BY <1>1 DEF AllSound, ReadAll, Sound

(* Recording a result at one endpoint keeps all of them sound.             *)
LEMMA ToldSound ==
    ASSUME NEW breakers, NEW e, AllSound(breakers)
    PROVE  /\ AllSound([breakers EXCEPT ![e] = OnSuccess(@)])
           /\ AllSound([breakers EXCEPT ![e] = OnFailure(@)])
<1>1. \A x \in Endpoints : Sound(OnSuccess(breakers[x])) /\ Sound(OnFailure(breakers[x]))
  BY OnSuccessSound, OnFailureSound DEF AllSound
<1>2. QED
  BY <1>1 DEF AllSound, Sound

(* The endpoint of a call is one of those configured, or there is no call. *)
LEMMA CallAtType ==
    ASSUME NEW breakers, NEW e \in Nat \ {0}
    PROVE  CallAt(First(breakers, e)) \in Check
BY FirstFound DEF CallAt, Check, IdleCheck

(* A call begins only where a sound breaker has had its pause.             *)
LEMMA AllowedRested ==
    ASSUME NEW b, Sound(b), AllowRequest(b)
    PROVE  b.failureCount < Threshold \/ b.sinceFailure >= ResetTimeout
BY ClientAssumption DEF Sound, Breaker, AllowRequest, Read

-----------------------------------------------------------------------------
(* The moves of one submission.                                            *)

(* The parameters as numbers.                                              *)
LEMMA Numbers ==
    /\ NumEndpoints \in Nat /\ PollTime \in Nat
    /\ MaxWait \in Nat /\ 0 < MaxWait
    /\ RpcTimeout \in Nat /\ 0 < RpcTimeout
    /\ PollInterval \in Nat /\ 0 < PollInterval
    /\ MaxBackoff \in Nat /\ 0 < MaxBackoff
BY ClientAssumption

(* A caller that has no submission is in time.                             *)
LEMMA IdleOnTime == OnTime(IdleSubmission)
BY Numbers DEF OnTime, IdleSubmission, Submission

(* A submission that begins has its whole budget.                          *)
LEMMA StartOnTime ==
    ASSUME NEW e \in Endpoints
    PROVE  OnTime([IdleSubmission EXCEPT !.phase = "send", !.at = e])
<1> DEFINE next == [IdleSubmission EXCEPT !.phase = "send", !.at = e]
<1>1. IdleSubmission \in Submission
  BY IdleOnTime DEF OnTime
<1>2. next \in Submission
  BY <1>1 DEF Submission
<1>3. next.phase = "send" /\ next.open = 0 /\ next.waited = 0 /\ next.elapsed = 0
  BY DEF IdleSubmission
<1>4. SUFFICES OnTime(next)
  OBVIOUS
<1> HIDE DEF next
<1>5. QED
  BY <1>2, <1>3, Numbers DEF OnTime

(* A pause is entered only when it ends before the deadline.               *)
LEMMA PauseOnTime ==
    ASSUME NEW sub, OnTime(sub), sub.phase = "send", sub.waited + sub.delay <= MaxWait
    PROVE  OnTime([sub EXCEPT !.phase = "pause", !.delay = NextDelay(sub),
                              !.left = sub.delay, !.open = 0])
<1> DEFINE next == [sub EXCEPT !.phase = "pause", !.delay = NextDelay(sub),
                               !.left = sub.delay, !.open = 0]
<1>1. sub \in Submission
  BY DEF OnTime
<1>2. NextDelay(sub) \in 1..MaxBackoff /\ sub.delay \in 0..MaxWait
  BY <1>1, Numbers DEF Submission, NextDelay, AtMost
<1>3. next \in Submission
  BY <1>1, <1>2 DEF Submission
<1>4. /\ next.phase = "pause" /\ next.open = 0 /\ next.left = sub.delay
      /\ next.waited = sub.waited /\ next.elapsed = sub.elapsed
  BY <1>1 DEF Submission
<1>5. SUFFICES OnTime(next)
  OBVIOUS
<1> HIDE DEF next
<1>6. QED
  BY <1>3, <1>4, <1>1, <1>2 DEF OnTime, Submission

(* What pollUntilResolved needs when it looks at its deadline.             *)
LEMMA PollOrGiveUpOnTime ==
    ASSUME NEW sub \in Submission, sub.elapsed <= MaxWait + RpcTimeout + sub.waited
    PROVE  OnTime(PollOrGiveUp(sub))
<1>1. CASE sub.waited >= MaxWait
  BY <1>1, IdleOnTime DEF PollOrGiveUp
<1>2. CASE sub.waited < MaxWait
  <2> DEFINE pause == AtMost(PollInterval, MaxWait - sub.waited)
             next == [sub EXCEPT !.phase = "sleep", !.open = 0, !.left = pause]
  <2>1. pause \in 0..MaxWait /\ sub.waited + pause <= MaxWait
    BY <1>2, Numbers DEF Submission, AtMost
  <2> HIDE DEF pause
  <2>2. next \in Submission
    BY <2>1 DEF Submission
  <2>3. /\ next.phase = "sleep" /\ next.open = 0 /\ next.left = pause
        /\ next.waited = sub.waited /\ next.elapsed = sub.elapsed
    BY DEF Submission
  <2>4. PollOrGiveUp(sub) = next
    BY <1>2, Numbers DEF PollOrGiveUp, pause, Submission
  <2> HIDE DEF next
  <2>5. OnTime(next)
    BY <2>1, <2>2, <2>3 DEF OnTime
  <2>6. QED
    BY <2>4, <2>5
<1>3. QED
  BY <1>1, <1>2, Numbers DEF Submission

(* Polling begins with a deadline of its own.                              *)
LEMMA AcceptedOnTime ==
    ASSUME NEW sub, OnTime(sub), sub.phase = "send", NEW e \in Endpoints
    PROVE  OnTime(PollOrGiveUp([sub EXCEPT !.at = e, !.delay = 1, !.waited = 0]))
<1> DEFINE next == [sub EXCEPT !.at = e, !.delay = 1, !.waited = 0]
<1>1. sub \in Submission /\ sub.elapsed <= MaxWait + RpcTimeout
  BY Numbers DEF OnTime, Submission
<1>2. next \in Submission
  <2>1. 1 \in 1..MaxBackoff
    BY Numbers
  <2>2. QED
    BY <1>1, <2>1 DEF Submission
<1>3. next.elapsed = sub.elapsed /\ next.waited = 0
  BY <1>1 DEF Submission
<1>4. SUFFICES OnTime(PollOrGiveUp(next))
  OBVIOUS
<1> HIDE DEF next
<1>5. QED
  BY <1>1, <1>2, <1>3, PollOrGiveUpOnTime, Numbers DEF Submission

(* The call after a pause is made before the deadline.                     *)
LEMMA CallOnTime ==
    ASSUME NEW sub, OnTime(sub), sub.left = 0
    PROVE  /\ sub.phase = "pause" => OnTime([sub EXCEPT !.phase = "send"])
           /\ sub.phase = "sleep" => OnTime([sub EXCEPT !.phase = "poll"])
BY Numbers DEF OnTime, Submission

(* No call grows older than its limit, no pause outlasts the deadline.     *)
LEMMA OlderOnTime ==
    ASSUME NEW sub, OnTime(sub), ~Due(sub)
    PROVE  OnTime(Older(sub))
<1> DEFINE paused == [sub EXCEPT !.elapsed = @ + 1, !.waited = @ + 1, !.left = @ - 1]
           open == [sub EXCEPT !.elapsed = @ + 1, !.waited = @ + 1, !.open = @ + 1]
<1>1. sub \in Submission
  BY DEF OnTime
<1>2. sub.elapsed + 1 \in Nat /\ sub.waited + 1 \in Nat /\ sub.open + 1 \in Nat
  BY <1>1 DEF Submission
<1>5. CASE sub.phase = "idle"
  BY <1>5 DEF Older
<1>3. CASE sub.phase \in {"pause", "sleep"}
  <2>1. sub.left \in 1..MaxWait
    BY <1>1, <1>3, Numbers DEF Due, Submission
  <2>2. paused \in Submission
    <3>1. sub.left - 1 \in 0..MaxWait
      BY <2>1, Numbers
    <3>2. QED
      BY <1>1, <1>2, <3>1 DEF Submission
  <2>3. /\ paused.phase = sub.phase /\ paused.left = sub.left - 1
        /\ paused.elapsed = sub.elapsed + 1 /\ paused.waited = sub.waited + 1
        /\ paused.open = sub.open
    BY <1>1 DEF Submission
  <2>4. Older(sub) = paused
    BY <1>3 DEF Older
  <2> HIDE DEF paused
  <2>5. OnTime(paused)
    BY <1>1, <1>3, <2>1, <2>2, <2>3, Numbers DEF OnTime, Submission
  <2>6. QED
    BY <2>4, <2>5
<1>4. CASE sub.phase \in {"send", "poll"}
  <2>1. sub.phase = "send" => sub.open < RpcTimeout
    BY <1>1, Numbers DEF Due, Submission, OnTime
  <2>2. sub.phase = "poll" => sub.open < PollTime
    BY <1>1, Numbers DEF Due, Submission, OnTime
  <2>3. open \in Submission
    BY <1>1, <1>2 DEF Submission
  <2>4. /\ open.phase = sub.phase /\ open.open = sub.open + 1
        /\ open.elapsed = sub.elapsed + 1 /\ open.waited = sub.waited + 1
    BY <1>1 DEF Submission
  <2>5. Older(sub) = open
    BY <1>4 DEF Older
  <2> HIDE DEF open
  <2>6. OnTime(open)
    BY <1>1, <1>4, <2>1, <2>2, <2>3, <2>4, Numbers DEF OnTime, Submission
  <2>7. QED
    BY <2>5, <2>6
<1>6. QED
  BY <1>1, <1>3, <1>4, <1>5 DEF Submission

-----------------------------------------------------------------------------
(* The invariant of the whole client.                                      *)

(* A submission that moves to a state in time leaves all of them in time.  *)
LEMMA BecomesOnTime ==
    ASSUME ClientInv, NEW s \in Submitters, NEW next, OnTime(next), Becomes(s, next)
    PROVE  /\ submission' \in [Submitters -> Submission]
           /\ \A t \in Submitters : OnTime(submission'[t])
           /\ up' = up /\ check' = check
<1>1. next \in Submission
  BY DEF OnTime
<1>2. QED
  BY <1>1 DEF ClientInv, Becomes

(* The initial state satisfies the invariant.                              *)
LEMMA InitInv == Init => ClientInv
<1>1. SUFFICES ASSUME Init  PROVE ClientInv
  OBVIOUS
<1>2. AllSound(breaker)
  BY <1>1, ClientAssumption DEF Init, AllSound, Sound, Breaker
<1>3. check \in [Checkers -> Check]
  BY <1>1 DEF Init, Check, IdleCheck
<1>4. QED
  BY <1>1, <1>2, <1>3, IdleOnTime DEF Init, ClientInv, OnTime

(* Every step of a health check keeps it.                                  *)
LEMMA CheckInv ==
    ASSUME ClientInv, NEW c \in Checkers, CheckStep(c)
    PROVE  ClientInv'
<1>1. AllSound(breaker') /\ check' \in [Checkers -> Check]
  <2>1. CASE StartCheck(c)
    <3>1. CallAt(First(breaker, 1)) \in Check
      BY CallAtType
    <3>2. QED
      BY <2>1, <3>1, ReadAllSound DEF StartCheck, ClientInv
  <2>2. CASE Respond(c)
    BY <2>2 DEF Respond, ClientInv, Check
  <2>3. CASE CheckSucceeds(c)
    <3>1. IdleCheck \in Check
      BY DEF IdleCheck, Check
    <3>2. AllSound([breaker EXCEPT ![check[c].at] = OnSuccess(@)])
      BY ToldSound DEF ClientInv
    <3>3. QED
      BY <2>3, <3>1, <3>2, AskedSound DEF CheckSucceeds, ClientInv
  <2>4. CASE CheckFails(c)
    <3> DEFINE told == [breaker EXCEPT ![check[c].at] = OnFailure(@)]
               next == First(told, check[c].at + 1)
    <3>1. AllSound(told)
      BY ToldSound DEF ClientInv
    <3>2. check[c].at + 1 \in Nat \ {0}
      BY Numbers DEF ClientInv, Check, Endpoints
    <3>3. CallAt(next) \in Check
      <4> HIDE DEF told
      <4> QED BY <3>2, CallAtType
    <3>4. /\ breaker' \in {ReadAll(told), Asked(told, next)}
          /\ check' = [check EXCEPT ![c] = CallAt(next)]
      BY <2>4 DEF CheckFails
    <3> HIDE DEF told, next
    <3>5. QED
      BY <3>1, <3>3, <3>4, ReadAllSound, AskedSound DEF ClientInv
  <2>5. QED
    BY <2>1, <2>2, <2>3, <2>4 DEF CheckStep
<1>2. UNCHANGED <<up, submission>>
  BY DEF CheckStep, StartCheck, Respond, CheckSucceeds, CheckFails
<1>3. QED
  BY <1>1, <1>2 DEF ClientInv

(* Every step of a submission keeps it.                                    *)
LEMMA SubmitInv ==
    ASSUME ClientInv, NEW s \in Submitters, StartSubmit(s) \/ SubmitStep(s)
    PROVE  ClientInv'
<1> DEFINE sub == submission[s]
<1>1. OnTime(sub) /\ AllSound(breaker)
  BY DEF ClientInv
<1>2. AllSound(breaker')
  BY <1>1, AskedSound DEF SubmitStep, StartSubmit, TryAgainLater, SendAgain,
     SendAccepted, Poll, NotFound, SubmitEnds
<1>3. \E next : OnTime(next) /\ Becomes(s, next)
  <2>0. First(breaker, 1) # 0 => First(breaker, 1) \in Endpoints
    BY FirstFound
  <2>1. CASE StartSubmit(s)
    BY <2>0, <2>1, StartOnTime DEF StartSubmit
  <2>2. CASE TryAgainLater(s)
    <3>1. sub.phase = "send"
      BY <2>2 DEF TryAgainLater
    <3>2. CASE sub.waited + sub.delay > MaxWait
      BY <2>2, <3>2, IdleOnTime DEF TryAgainLater
    <3>3. CASE ~(sub.waited + sub.delay > MaxWait)
      <4>1. sub.waited + sub.delay <= MaxWait
        BY <1>1, <3>3, Numbers DEF OnTime, Submission
      <4>2. QED
        BY <1>1, <2>2, <3>1, <3>3, <4>1, PauseOnTime DEF TryAgainLater
    <3>4. QED
      BY <3>2, <3>3
  <2>3. CASE SendAgain(s)
    BY <1>1, <2>3, CallOnTime DEF SendAgain
  <2>4. CASE SendAccepted(s)
    <3>1. CASE First(breaker, 1) = 0
      BY <2>4, <3>1, IdleOnTime DEF SendAccepted
    <3>2. CASE First(breaker, 1) # 0
      BY <1>1, <2>0, <2>4, <3>2, AcceptedOnTime DEF SendAccepted
    <3>3. QED
      BY <3>1, <3>2
  <2>5. CASE Poll(s)
    BY <1>1, <2>5, CallOnTime DEF Poll
  <2>6. CASE NotFound(s)
    <3>1. sub \in Submission /\ sub.elapsed <= MaxWait + RpcTimeout + sub.waited
      BY <1>1, <2>6 DEF NotFound, OnTime
    <3>2. QED
      BY <2>6, <3>1, PollOrGiveUpOnTime DEF NotFound
  <2>7. CASE SubmitEnds(s)
    BY <2>7, IdleOnTime DEF SubmitEnds
  <2>8. QED
    BY <2>1, <2>2, <2>3, <2>4, <2>5, <2>6, <2>7 DEF SubmitStep
<1>4. QED
  BY <1>2, <1>3, BecomesOnTime DEF ClientInv

(* The passing of time keeps it.                                           *)
LEMMA TickInv ==
    ASSUME ClientInv, Tick
    PROVE  ClientInv'
<1>1. \A e \in Endpoints :
          Sound([breaker[e] EXCEPT !.sinceFailure = AtMost(@ + 1, ResetTimeout)])
  BY OlderSound DEF ClientInv, AllSound
<1>2. AllSound(breaker')
  BY <1>1 DEF Tick, AllSound, Sound
<1>3. \A s \in Submitters : OnTime(Older(submission[s]))
  BY OlderOnTime DEF Tick, ClientInv
<1>4. \A s \in Submitters : OnTime(submission'[s])
  BY <1>3 DEF Tick
<1>5. submission' \in [Submitters -> Submission]
  BY <1>3 DEF Tick, OnTime
<1>6. QED
  BY <1>2, <1>4, <1>5 DEF Tick, ClientInv

(* The invariant holds in every reachable state.                           *)
LEMMA InductiveInv == Spec => []ClientInv
<1>1. ClientInv /\ [Next]_vars => ClientInv'
  <2>1. SUFFICES ASSUME ClientInv, [Next]_vars  PROVE ClientInv'
    OBVIOUS
  <2>2. CASE \E c \in Checkers : CheckStep(c)
    BY <2>1, <2>2, CheckInv
  <2>3. CASE \E s \in Submitters : StartSubmit(s) \/ SubmitStep(s)
    BY <2>1, <2>3, SubmitInv
  <2>4. CASE \E e \in Endpoints : Outage(e)
    BY <2>1, <2>4 DEF Outage, ClientInv, AllSound
  <2>5. CASE Tick
    BY <2>1, <2>5, TickInv
  <2>6. CASE UNCHANGED vars
    BY <2>1, <2>6 DEF vars, ClientInv, AllSound
  <2>7. QED
    BY <2>1, <2>2, <2>3, <2>4, <2>5, <2>6 DEF Next
<1>2. QED
  BY <1>1, InitInv, PTL DEF Spec

(* Breakers, calls and submissions keep their types: no counter leaves its *)
(* range and no pause is longer than the whole wait budget.                *)
THEOREM TypeCorrect == Spec => []TypeOK
<1>1. ClientInv => TypeOK
  BY DEF ClientInv, TypeOK, AllSound
<1>2. QED
  BY <1>1, InductiveInv, PTL

(* For any number of endpoints and callers, a breaker is CLOSED exactly    *)
(* while fewer failures than the threshold followed the last success.      *)
THEOREM BreakersCount == Spec => []BreakerCounts
<1>1. ClientInv => BreakerCounts
  BY DEF ClientInv, BreakerCounts, AllSound, Sound
<1>2. QED
  BY <1>1, InductiveInv, PTL

(* For any budgets and timeouts, a submission ends within two budgets and  *)
(* one call of each kind.                                                  *)
THEOREM WaitIsBounded == Spec => []WaitBounded
<1>1. ASSUME ClientInv, NEW s \in Submitters
      PROVE  submission[s].elapsed <= 2 * MaxWait + RpcTimeout + PollTime
  <2> DEFINE sub == submission[s]
  <2>1. OnTime(sub)
    BY <1>1 DEF ClientInv
  <2>2. CASE sub.phase = "idle"
    BY <2>1, <2>2, Numbers DEF OnTime, IdleSubmission
  <2>3. CASE sub.phase # "idle"
    BY <2>1, <2>3, Numbers DEF OnTime, Submission
  <2>4. QED
    BY <2>2, <2>3
<1>2. ClientInv => WaitBounded
  BY <1>1 DEF WaitBounded
<1>3. QED
  BY <1>2, InductiveInv, PTL

-----------------------------------------------------------------------------
(* New calls.                                                              *)

Rested(e) == breaker[e].failureCount < Threshold \/ breaker[e].sinceFailure >= ResetTimeout

(* The first endpoint that allows a request is one to call.                *)
LEMMA FirstRested ==
    ASSUME ClientInv, NEW e \in Endpoints, e = First(breaker, 1)
    PROVE  Rested(e)
<1>1. e # 0 /\ 1 \in Nat \ {0}
  BY Numbers DEF Endpoints
<1>2. AllowRequest(breaker[e])
  BY <1>1, FirstFound
<1>3. QED
  BY <1>2, AllowedRested DEF ClientInv, AllSound, Rested

(* A health check calls no other, failover included.                       *)
LEMMA CheckRested ==
    ASSUME ClientInv, NEW c \in Checkers, CheckStep(c), NEW d \in Checkers,
           NEW e \in Endpoints, check[d].at # e, check'[d].at = e
    PROVE  Rested(e)
<1>0. e # 0
  BY Numbers DEF Endpoints
<1>1. CASE StartCheck(c)
  <2>1. e = First(breaker, 1)
    BY <1>0, <1>1 DEF StartCheck, CallAt, IdleCheck, ClientInv
  <2>2. QED
    BY <2>1, FirstRested
<1>2. CASE Respond(c)
  BY <1>2 DEF Respond, ClientInv, Check
<1>3. CASE CheckSucceeds(c)
  BY <1>0, <1>3 DEF CheckSucceeds, IdleCheck, ClientInv
<1>4. CASE CheckFails(c)
  <2> DEFINE told == [breaker EXCEPT ![check[c].at] = OnFailure(@)]
             next == First(told, check[c].at + 1)
  <2>1. check' = [check EXCEPT ![c] = CallAt(next)]
    BY <1>4 DEF CheckFails
  <2>2. check[c].at \in Nat /\ check[c].at + 1 \in Nat \ {0}
    BY Numbers DEF ClientInv, Check, Endpoints
  <2>3. \A x \in Endpoints : x # check[c].at => told[x] = breaker[x]
    BY DEF ClientInv, AllSound
  <2>4. next = e
    <3> HIDE DEF next
    <3> QED BY <1>0, <2>1 DEF CallAt, IdleCheck, ClientInv
  <2>5. e >= check[c].at + 1 /\ AllowRequest(told[e])
    <3> HIDE DEF told
    <3> QED BY <1>0, <2>2, <2>4, FirstFound
  <2>6. told[e] = breaker[e]
    BY <2>2, <2>3, <2>5, Numbers DEF Endpoints
  <2>7. QED
    BY <2>5, <2>6, AllowedRested DEF ClientInv, AllSound, Rested
<1>5. QED
  BY <1>1, <1>2, <1>3, <1>4 DEF CheckStep

(* After a poll that gave no result a submission sleeps, with the server it*)
(* had, or has ended.                                                      *)
LEMMA PollAt ==
    ASSUME NEW sub \in Submission
    PROVE  /\ PollOrGiveUp(sub).at \in {0, sub.at}
           /\ PollOrGiveUp(sub).phase \in {"idle", "sleep"}
BY DEF PollOrGiveUp, IdleSubmission, Submission

(* No submission chooses an endpoint that is left alone, for sending or for*)
(* polling; those that call one have it from before, within their deadline.*)
LEMMA SubmitRested ==
    ASSUME ClientInv, NEW s \in Submitters, StartSubmit(s) \/ SubmitStep(s),
           NEW t \in Submitters, NEW e \in Endpoints
    PROVE  /\ Chooses(t, e) => Rested(e)
           /\ Calls(t, e) /\ ~Rested(e) =>
                  submission[t].at = e /\ submission[t].waited <= MaxWait
<1> DEFINE sub == submission[s]
<1> DEFINE now == submission'[s]
<1>1. sub \in Submission /\ OnTime(sub) /\ e # 0 /\ submission \in [Submitters -> Submission]
  BY Numbers DEF ClientInv, Endpoints
<1>2. ASSUME NEW next, Becomes(s, next)
      PROVE  now = next /\ (t # s => submission'[t] = submission[t])
  BY <1>1, <1>2 DEF Becomes
<1>3. CASE StartSubmit(s)
  <2> DEFINE next == [IdleSubmission EXCEPT !.phase = "send", !.at = First(breaker, 1)]
  <2>1. next.at = First(breaker, 1)
    BY DEF IdleSubmission
  <2>2. Becomes(s, next)
    BY <1>3 DEF StartSubmit
  <2> HIDE DEF next
  <2>3. CASE t = s
    <3>1. submission'[t].at = First(breaker, 1) /\ submission[t].phase = "idle"
      BY <1>2, <1>3, <2>1, <2>2, <2>3 DEF StartSubmit
    <3>2. Chooses(t, e) \/ Calls(t, e) => Rested(e)
      BY <3>1, FirstRested DEF Chooses, Calls
    <3>3. QED
      BY <3>2
  <2>4. CASE t # s
    BY <1>1, <1>2, <2>2, <2>4 DEF Chooses, Calls, OnTime, ClientInv, IdleSubmission
  <2>5. QED
    BY <2>3, <2>4
<1>4. CASE TryAgainLater(s)
  <2> DEFINE next == [sub EXCEPT !.phase = "pause", !.delay = NextDelay(sub),
                                 !.left = sub.delay, !.open = 0]
  <2>1. next.phase = "pause" /\ IdleSubmission.phase = "idle"
    BY <1>1 DEF Submission, IdleSubmission
  <2>2. (Becomes(s, IdleSubmission) \/ Becomes(s, next)) /\ sub.phase = "send"
    BY <1>4 DEF TryAgainLater
  <2> HIDE DEF next
  <2>3. now.phase \in {"idle", "pause"} /\ (t # s => submission'[t] = submission[t])
    BY <1>2, <2>1, <2>2
  <2>4. QED
    BY <1>1, <2>2, <2>3 DEF Chooses, Calls, OnTime, ClientInv, IdleSubmission
<1>5. CASE SendAgain(s)
  <2> DEFINE next == [sub EXCEPT !.phase = "send"]
  <2>1. Becomes(s, next) /\ sub.phase = "pause" /\ sub.left = 0
    BY <1>5 DEF SendAgain
  <2>2. next.at = sub.at /\ next.phase = "send" /\ sub.waited <= MaxWait
    BY <1>1, <2>1, Numbers DEF Submission, OnTime
  <2> HIDE DEF next
  <2>3. now.at = sub.at /\ now.phase = "send" /\ (t # s => submission'[t] = submission[t])
    BY <1>2, <2>1, <2>2
  <2>4. QED
    BY <1>1, <2>1, <2>2, <2>3 DEF Chooses, Calls, OnTime, ClientInv, IdleSubmission
<1>6. CASE Poll(s)
  <2> DEFINE next == [sub EXCEPT !.phase = "poll"]
  <2>1. Becomes(s, next) /\ sub.phase = "sleep" /\ sub.left = 0
    BY <1>6 DEF Poll
  <2>2. next.at = sub.at /\ next.phase = "poll" /\ sub.waited <= MaxWait
    BY <1>1, <2>1, Numbers DEF Submission, OnTime
  <2> HIDE DEF next
  <2>3. now.at = sub.at /\ now.phase = "poll" /\ (t # s => submission'[t] = submission[t])
    BY <1>2, <2>1, <2>2
  <2>4. QED
    BY <1>1, <2>1, <2>2, <2>3 DEF Chooses, Calls, OnTime, ClientInv, IdleSubmission
<1>7. CASE SendAccepted(s)
  <2> DEFINE next == [sub EXCEPT !.at = First(breaker, 1), !.delay = 1, !.waited = 0]
  <2>1. \E then : /\ Becomes(s, then) /\ then.at \in {0, First(breaker, 1)}
                  /\ then.phase \in {"idle", "sleep"}
    <3>1. CASE First(breaker, 1) = 0
      <4>1. Becomes(s, IdleSubmission)
        BY <1>7, <3>1 DEF SendAccepted
      <4>2. IdleSubmission.at = 0 /\ IdleSubmission.phase = "idle"
        BY DEF IdleSubmission
      <4>3. QED
        BY <4>1, <4>2
    <3>2. CASE First(breaker, 1) # 0
      <4>1. First(breaker, 1) \in Endpoints /\ 1 \in 1..MaxBackoff
        BY <3>2, FirstFound, Numbers
      <4>2. next \in Submission /\ next.at = First(breaker, 1)
        BY <1>1, <4>1 DEF Submission
      <4>3. Becomes(s, PollOrGiveUp(next))
        BY <1>7, <3>2 DEF SendAccepted
      <4> HIDE DEF next
      <4>4. QED
        BY <4>2, <4>3, PollAt
    <3>3. QED
      BY <3>1, <3>2
  <2>2. /\ now.at \in {0, First(breaker, 1)} /\ now.phase \in {"idle", "sleep"}
        /\ t # s => submission'[t] = submission[t]
    BY <1>2, <2>1
  <2>3. Chooses(s, e) => Rested(e)
    BY <1>1, <2>2, FirstRested DEF Chooses
  <2>4. QED
    BY <1>1, <2>2, <2>3 DEF Chooses, Calls, OnTime, ClientInv, IdleSubmission
<1>8. CASE NotFound(s)
  <2>1. Becomes(s, PollOrGiveUp(sub)) /\ sub.phase = "poll"
    BY <1>8 DEF NotFound
  <2>2. now.phase \in {"idle", "sleep"} /\ (t # s => submission'[t] = submission[t])
    BY <1>1, <1>2, <2>1, PollAt
  <2>3. QED
    BY <1>1, <2>1, <2>2 DEF Chooses, Calls, OnTime, ClientInv, IdleSubmission
<1>9. CASE SubmitEnds(s)
  <2>1. Becomes(s, IdleSubmission)
    BY <1>9 DEF SubmitEnds
  <2>2. now = IdleSubmission /\ (t # s => submission'[t] = submission[t])
    BY <1>2, <2>1
  <2>3. QED
    BY <1>1, <2>2 DEF Chooses, Calls, OnTime, ClientInv, IdleSubmission
<1>10. QED
  BY <1>3, <1>4, <1>5, <1>6, <1>7, <1>8, <1>9 DEF SubmitStep

(* Nor is any chosen, or called, when no submission takes a step.          *)
LEMMA NothingChosen ==
    ASSUME ClientInv, NEW t \in Submitters, NEW e \in Endpoints,
           submission'[t].at = submission[t].at,
           submission'[t].phase = submission[t].phase
    PROVE  ~Chooses(t, e) /\ ~Calls(t, e)
<1>1. e # 0 /\ OnTime(submission[t])
  BY Numbers DEF Endpoints, ClientInv
<1>2. QED
  BY <1>1 DEF Chooses, Calls, OnTime, IdleSubmission

(* For any number of endpoints and callers: an endpoint whose last failure *)
(* made up the threshold less than the pause ago is called by no health    *)
(* check and chosen by no submission; a submission that still calls it has *)
(* chosen it earlier, and no more than MaxWait ago.                        *)
THEOREM FailingLeftAlone == Spec => LeftAlone
<1> DEFINE Alone(e) ==
        /\ \A c \in Checkers : check'[c].at = e => check[c].at = e
        /\ \A s \in Submitters :
               /\ ~Chooses(s, e)
               /\ Calls(s, e) => submission[s].at = e /\ submission[s].waited <= MaxWait
<1>1. ASSUME ClientInv, Next, NEW e \in Endpoints, ~Rested(e)
      PROVE  Alone(e)
  <2>1. CASE \E c \in Checkers : CheckStep(c)
    <3>1. submission' = submission
      BY <2>1 DEF CheckStep, StartCheck, Respond, CheckSucceeds, CheckFails
    <3>2. QED
      BY <1>1, <2>1, <3>1, CheckRested, NothingChosen
  <2>2. CASE \E s \in Submitters : StartSubmit(s) \/ SubmitStep(s)
    <3>1. check' = check
      BY <2>2 DEF SubmitStep, StartSubmit, TryAgainLater, SendAgain,
         SendAccepted, Poll, NotFound, SubmitEnds, Becomes
    <3>2. QED
      BY <1>1, <2>2, <3>1, SubmitRested
  <2>3. CASE \E x \in Endpoints : Outage(x)
    <3>1. submission' = submission /\ check' = check
      BY <2>3 DEF Outage
    <3>2. QED
      BY <1>1, <3>1, NothingChosen
  <2>4. CASE Tick
    <3>1. \A s \in Submitters : submission'[s].at = submission[s].at
                               /\ submission'[s].phase = submission[s].phase
      BY <1>1, <2>4 DEF Tick, Older, ClientInv, Submission
    <3>2. check' = check
      BY <2>4 DEF Tick
    <3>3. QED
      BY <1>1, <3>1, <3>2, NothingChosen
  <2>5. QED
    BY <1>1, <2>1, <2>2, <2>3, <2>4 DEF Next
<1>2. ASSUME ClientInv, NEW e \in Endpoints, Resting(e)
      PROVE  ~Rested(e)
  BY <1>2, ClientAssumption DEF Resting, Rested, ClientInv, AllSound, Breaker
<1>3. ClientInv /\ [Next]_vars => [\A e \in Endpoints : Resting(e) => Alone(e)]_vars
  BY <1>1, <1>2
<1>4. ClientInv /\ [Next]_vars =>
          [\A e \in Endpoints : Resting(e) =>
              /\ \A c \in Checkers : check'[c].at = e => check[c].at = e
              /\ \A s \in Submitters :
                     /\ ~Chooses(s, e)
                     /\ Calls(s, e) => /\ submission[s].at = e
                                       /\ submission[s].waited <= MaxWait]_vars
  BY <1>3
<1>5. QED
  BY <1>4, InductiveInv, PTL DEF Spec, LeftAlone
=============================================================================
