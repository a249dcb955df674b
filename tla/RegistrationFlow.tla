-------------------------- MODULE RegistrationFlow --------------------------
(***************************************************************************)
(* Registering a business: the browser flow                                *)
(* (apps/web/hooks/use-registration-flow.ts), the pending registration it  *)
(* leaves in localStorage (lib/business/pending-registration.ts), the      *)
(* register route (app/api/business/register/route.ts) and the             *)
(* BusinessRegistry contract, for one signed-in user with several tabs.    *)
(*                                                                         *)
(* Every submit makes a new business id: an attempt.  Between any two      *)
(* awaits of a tab the network, the server or another tab may act, and the *)
(* tab may be closed.                                                      *)
(***************************************************************************)
EXTENDS Integers

CONSTANTS
    Tabs, Wallets, Attempts,
    MaxFaults,      \* bound: closed tabs, failing and lost calls
    None

ASSUME FlowAssumption ==
    None \notin Wallets \cup Attempts \cup Tabs /\ MaxFaults \in Nat

VARIABLES
    admin, business, walletIndex, ownerIndex,   \* the contract's storage
    tx,         \* the registration transaction of each attempt
    wallet,     \* the wallet of each attempt, None before it is submitted
    pending,    \* localStorage "herledger:pending-registration"
    tab,        \* the reducer's state and the async function running in a tab
    requests,   \* POSTs of which the server or the tab has not seen the end
    profile,    \* the user's BusinessProfile row: its business id
    others,     \* the wallets in the rows of other users
    faults

chain == <<admin, business, walletIndex, ownerIndex>>
vars == <<chain, tx, wallet, pending, tab, requests, profile, others, faults>>

Registry == INSTANCE BusinessRegistry
    WITH Ids <- Attempts, Addresses <- Wallets, Hashes <- {"metadata"}

\* What the contract assumes of an absent entry.
ASSUME AbsentAssumption == None \notin Registry!Business

Closed == [step |-> "closed", wallet |-> None, attempt |-> None,
           job |-> "none", resumed |-> FALSE]

\* initialRegistrationFlowState
Fresh == [Closed EXCEPT !.step = "wallet"]

Tab == [step : {"closed", "wallet", "details", "submitting", "confirmed", "error"},
        wallet : Wallets \cup {None}, attempt : Attempts \cup {None},
        job : {"none", "prepare", "send", "sent", "poll", "post"}, resumed : BOOLEAN]

Request == [tab : Tabs \cup {None}, attempt : Attempts,
            phase : {"check", "create", "ok", "conflict", "error"}]

TypeOK ==
    /\ Registry!TypeOK
    /\ tx \in [Attempts -> {"none", "sent", "applied", "failed", "expired"}]
    /\ wallet \in [Attempts -> Wallets \cup {None}]
    /\ pending \in Attempts \cup {None}
    /\ tab \in [Tabs -> Tab]
    /\ requests \subseteq Request
    /\ profile \in Attempts \cup {None}
    /\ others \subseteq Wallets
    /\ faults \in 0..MaxFaults

Init ==
    /\ Registry!Init
    /\ tx = [a \in Attempts |-> "none"]
    /\ wallet = [a \in Attempts |-> None]
    /\ pending = None
    /\ tab = [t \in Tabs |-> Closed]
    /\ requests = {}
    /\ profile = None
    /\ others = {}
    /\ faults = 0

Fault == faults < MaxFaults /\ faults' = faults + 1

-----------------------------------------------------------------------------
(* The network.                                                            *)

MayApply(a) == Registry!MayRegister(wallet[a], a, wallet[a])

\* The contract call registers the business, or fails.
Include(a) ==
    /\ tx[a] = "sent"
    /\ \/ /\ Registry!RegisterBusiness(wallet[a], a, wallet[a], "metadata")
          /\ tx' = [tx EXCEPT ![a] = "applied"]
       \/ /\ ~MayApply(a)
          /\ tx' = [tx EXCEPT ![a] = "failed"]
          /\ UNCHANGED chain
    /\ UNCHANGED <<wallet, pending, tab, requests, profile, others, faults>>

\* No ledger took it within its 300 s: its status stays unknown for ever.
Expire(a) ==
    /\ tx[a] = "sent"
    /\ tx' = [tx EXCEPT ![a] = "expired"]
    /\ UNCHANGED <<chain, wallet, pending, tab, requests, profile, others, faults>>

-----------------------------------------------------------------------------
(* The browser.                                                            *)

Set(t, next) == tab' = [tab EXCEPT ![t] = next]

\* Mount: a pending registration is taken up again; one older than 24 hours,
\* whose transaction cannot be under way any more, is removed.
Open(t) ==
    /\ tab[t].step = "closed"
    /\ \/ pending = None /\ Set(t, Fresh) /\ UNCHANGED pending
       \/ /\ pending # None /\ tx[pending] # "sent"
          /\ Set(t, Fresh) /\ pending' = None
       \/ /\ pending # None
          /\ Set(t, [step |-> "submitting", wallet |-> wallet[pending],
                     attempt |-> pending, job |-> "poll", resumed |-> TRUE])
          /\ UNCHANGED pending
    /\ UNCHANGED <<chain, tx, wallet, requests, profile, others, faults>>

ConnectWallet(t, w) ==
    /\ tab[t].step \in {"wallet", "details", "error"}
    /\ Set(t, [tab[t] EXCEPT !.step = "details", !.wallet = w])
    /\ UNCHANGED <<chain, tx, wallet, pending, requests, profile, others, faults>>

Retry(t) ==
    /\ tab[t].step = "error"
    /\ Set(t, [tab[t] EXCEPT !.step = IF tab[t].wallet # None THEN "details" ELSE "wallet"])
    /\ UNCHANGED <<chain, tx, wallet, pending, requests, profile, others, faults>>

Submit(t, a) ==
    /\ tab[t].step = "details" /\ wallet[a] = None
    /\ wallet' = [wallet EXCEPT ![a] = tab[t].wallet]
    /\ Set(t, [tab[t] EXCEPT !.step = "submitting", !.attempt = a,
                             !.job = "prepare", !.resumed = FALSE])
    /\ UNCHANGED <<chain, tx, pending, requests, profile, others, faults>>

\* SUBMIT_FAILED, and the end of the async function.
Failed(t) == [tab[t] EXCEPT !.step = "error", !.job = "none"]

\* simulateAndPrepare: the call is tried on the present state of the chain.
Prepare(t) ==
    /\ tab[t].job = "prepare"
    /\ Set(t, IF MayApply(tab[t].attempt) THEN [tab[t] EXCEPT !.job = "send"]
                                          ELSE Failed(t))
    /\ UNCHANGED <<chain, tx, wallet, pending, requests, profile, others, faults>>

\* WALLET_DISCONNECTED: signing throws.
WalletGone(t) ==
    /\ tab[t].job = "prepare" /\ Fault
    /\ Set(t, [Failed(t) EXCEPT !.wallet = None])
    /\ UNCHANGED <<chain, tx, wallet, pending, requests, profile, others>>

\* The network accepts the signed transaction ...
Send(t) ==
    /\ tab[t].job = "send"
    /\ tx' = [tx EXCEPT ![tab[t].attempt] = "sent"]
    /\ Set(t, [tab[t] EXCEPT !.job = "sent"])
    /\ UNCHANGED <<chain, wallet, pending, requests, profile, others, faults>>

\* Mutant: the wallet is stored instead of the attempt.
AcceptedWallet(t) ==
    /\ tab[t].job = "sent"
    /\ pending' = tab[t].wallet
    /\ Set(t, [tab[t] EXCEPT !.job = "poll"])
    /\ UNCHANGED <<chain, tx, wallet, requests, profile, others, faults>>

\* ... and when its answer arrives, onSubmitted writes the pending registration.
Accepted(t) ==
    /\ tab[t].job = "sent"
    /\ pending' = tab[t].attempt
    /\ Set(t, [tab[t] EXCEPT !.job = "poll"])
    /\ UNCHANGED <<chain, tx, wallet, requests, profile, others, faults>>

\* Simulation or submission throws; the network may have the transaction.
SendFails(t) ==
    /\ tab[t].job \in {"prepare", "send", "sent"} /\ Fault
    /\ Set(t, Failed(t))
    /\ UNCHANGED <<chain, tx, wallet, pending, requests, profile, others>>

\* Mutant: submit's catch block forgets the registration as well.
ForgetAlways(t) == pending' = None

\* What the two catch blocks do to the pending registration.
Catch(t) == pending' = IF tab[t].resumed THEN None ELSE pending

\* Mutant: the record is posted once the transaction is accepted.
PollAccepted(t) == tx[tab[t].attempt] \in {"sent", "applied"}

PollSucceeds(t) == tx[tab[t].attempt] = "applied"

\* pollTransactionStatus returns: SUBMIT_SUCCEEDED, then the POST is sent.
Poll(t) ==
    /\ tab[t].job = "poll" /\ PollSucceeds(t)
    /\ Set(t, [tab[t] EXCEPT !.step = "confirmed", !.job = "post"])
    /\ requests' = requests \cup
           {[tab |-> t, attempt |-> tab[t].attempt, phase |-> "check"]}
    /\ UNCHANGED <<chain, tx, wallet, pending, profile, others, faults>>

\* Mutant: polling has no deadline.
PollsForEver(t) == tx[tab[t].attempt] = "failed"

\* It throws: failed on chain, or no result before the deadline.
PollThrows(t) == tx[tab[t].attempt] \in {"failed", "sent", "expired"}

PollFailed(t) ==
    /\ tab[t].job = "poll" /\ PollThrows(t)
    /\ Catch(t) /\ Set(t, Failed(t))
    /\ UNCHANGED <<chain, tx, wallet, requests, profile, others, faults>>

\* It throws because a call to the RPC fails.
PollBreaks(t) ==
    /\ tab[t].job = "poll" /\ Fault
    /\ Catch(t) /\ Set(t, Failed(t))
    /\ UNCHANGED <<chain, tx, wallet, requests, profile, others>>

\* The POST's answer: 2xx and 409 end the registration, the rest throws.  The
\* reducer is in its final state and ignores SUBMIT_FAILED.
Answered(t, q) ==
    /\ tab[t].job = "post" /\ q.tab = t /\ q.phase \in {"ok", "conflict", "error"}
    /\ IF q.phase = "error" THEN Catch(t) ELSE pending' = None
    /\ Set(t, [tab[t] EXCEPT !.job = "none"])
    /\ requests' = requests \ {q}
    /\ UNCHANGED <<chain, tx, wallet, profile, others, faults>>

Orphan(q) == [q EXCEPT !.tab = None]

\* The connection breaks: fetch throws, the server goes on.
PostBreaks(t, q) ==
    /\ tab[t].job = "post" /\ q.tab = t /\ Fault
    /\ Catch(t)
    /\ Set(t, [tab[t] EXCEPT !.job = "none"])
    /\ requests' = (requests \ {q}) \cup {Orphan(q)}
    /\ UNCHANGED <<chain, tx, wallet, profile, others>>

Close(t) ==
    /\ tab[t].step # "closed" /\ Fault
    /\ Set(t, Closed)
    /\ requests' = {IF q.tab = t THEN Orphan(q) ELSE q : q \in requests}
    /\ UNCHANGED <<chain, tx, wallet, pending, profile, others>>

-----------------------------------------------------------------------------
(* The register route.                                                     *)

Becomes(q, phase) == requests' = (requests \ {q}) \cup {[q EXCEPT !.phase = phase]}

\* Another user's row names a wallet: the route takes any wallet from anyone.
OtherRegisters(w) ==
    /\ w \notin others /\ (profile # None => wallet[profile] # w)
    /\ others' = others \cup {w}
    /\ UNCHANGED <<chain, tx, wallet, pending, tab, requests, profile, faults>>

Taken(q) == wallet[q.attempt] \in others

\* findByUserId, then findByWallet: 200 for the row of this submission, 409 for
\* any other row of the user, and for another user's row with the wallet.
Check(q) ==
    /\ q.phase = "check"
    /\ Becomes(q, CASE profile = q.attempt             -> "ok"
                    [] profile = None /\ ~Taken(q)     -> "create"
                    [] profile # q.attempt /\ (profile # None \/ Taken(q)) -> "conflict")
    /\ UNCHANGED <<chain, tx, wallet, pending, tab, profile, others, faults>>

\* create, and when it fails findByUserId: the user's row that exists by now is
\* the answer.  On a wallet that another user has taken since, it throws.
Create(q) ==
    /\ q.phase = "create"
    /\ profile' = IF profile = None /\ ~Taken(q) THEN q.attempt ELSE profile
    /\ Becomes(q, IF profile = None /\ Taken(q) THEN "error" ELSE "ok")
    /\ UNCHANGED <<chain, tx, wallet, pending, tab, others, faults>>

\* 5xx, or another status that the client takes for an error.
ServerFails(q) ==
    /\ q.phase \in {"check", "create"} /\ Fault
    /\ Becomes(q, "error")
    /\ UNCHANGED <<chain, tx, wallet, pending, tab, profile, others>>

-----------------------------------------------------------------------------
\* The steps of a tab's async function up to its result.
FlowStep(t) == Prepare(t) \/ Send(t) \/ Accepted(t) \/ Poll(t) \/ PollFailed(t)

User(t) ==
    \/ Open(t) \/ Retry(t) \/ Close(t)
    \/ \E w \in Wallets : ConnectWallet(t, w)
    \/ \E a \in Attempts : Submit(t, a)

Next ==
    \/ \E t \in Tabs :
        \/ User(t) \/ FlowStep(t)
        \/ WalletGone(t) \/ SendFails(t) \/ PollBreaks(t)
        \/ \E q \in requests : Answered(t, q) \/ PostBreaks(t, q)
    \/ \E q \in requests : Check(q) \/ Create(q) \/ ServerFails(q)
    \/ \E a \in Attempts : Include(a) \/ Expire(a)
    \/ \E w \in Wallets : OtherRegisters(w)

Spec == Init /\ [][Next]_vars

(* Every call of the flow is answered or runs into its deadline.  Nothing  *)
(* obliges the user to open a tab or the network to take a transaction.    *)
FairSpec == Spec /\ \A t \in Tabs : WF_vars(FlowStep(t))

-----------------------------------------------------------------------------
(* The chain is the authority: a tab that shows a confirmed registration,  *)
(* and the user's row in the database, stand for a business that the       *)
(* contract has registered on the wallet the user submitted.               *)
OnChain(a) == Registry!Active(a) /\ business[a].wallet = wallet[a]

ChainFirst ==
    /\ \A t \in Tabs : tab[t].step = "confirmed" => OnChain(tab[t].attempt)
    /\ profile # None => OnChain(profile)

\* The user has a row, or another user's row holds the wallet of the attempt.
RowStands(q) == profile # None \/ Taken(q)

\* What the tab did to the pending registration, and why.
AnswerEnds(t) ==
    /\ tab[t].job = "post" /\ tab'[t].job = "none" /\ pending' = None
    /\ \E q \in requests \ requests' : q.tab = t /\ RowStands(q)

ResumeGivesUp(t) ==
    tab[t].resumed /\ tab[t].job \in {"poll", "post"} /\ tab'[t].job = "none" /\ pending' = None

FindsOld(t) ==
    tab[t].step = "closed" /\ tab'[t].step = "wallet" /\ tx[pending] # "sent" /\ pending' = None

TakesPlace(t) == tab[t].job = "sent" /\ pending' = tab[t].attempt

(* The registration that is pending stops being so only by the step of a   *)
(* tab that has a reason of its own: its POST was answered when a row       *)
(* stood; it had resumed a registration and gives up; it opened and found   *)
(* one older than 24 hours; or the network accepted its transaction, which  *)
(* takes the place.  The failure of a submit that resumed nothing leaves it *)
(* in place, and so does a tab that closes.                                *)
ForgottenWhenSettled ==
    [][pending # None /\ pending' # pending =>
           \E t \in Tabs :
               /\ tab'[t] # tab[t]
               /\ AnswerEnds(t) \/ ResumeGivesUp(t) \/ FindsOld(t) \/ TakesPlace(t)]_vars

(* A submit comes to an end, whatever becomes of the transaction.          *)
SubmitEnds ==
    \A t \in Tabs : tab[t].step = "submitting" ~> tab[t].step # "submitting"

(* use-registration-flow.ts on a POST that fails: "callers know to leave   *)
(* the pending registration in place for a later resume".                  *)
LeftForResume ==
    \A t \in Tabs :
        tab[t].step = "confirmed" /\ tab[t].job = "none" =>
            profile # None \/ pending # None

(* pending-registration.ts keeps a registration "to resume polling the same *)
(* hash and finish the DB write on the next load".  A later attempt takes   *)
(* the place of one whose transaction can still be applied, and another     *)
(* tab's end removes it.                                                    *)
KeptForItsTab ==
    [][pending # None /\ pending' # pending /\ tx[pending] = "sent" =>
           \E t \in Tabs : tab'[t] # tab[t] /\ tab[t].attempt = pending]_vars
=============================================================================
