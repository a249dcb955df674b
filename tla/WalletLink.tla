------------------------------ MODULE WalletLink ------------------------------
(***************************************************************************)
(* Disputes and the wallet linked to a business, as the web application    *)
(* keeps them: the list of disputable events and the form it opens         *)
(* (components/disputes/dispute-list.tsx, dispute-form.tsx), the dispute   *)
(* routes (app/api/v1/disputes), the settings panel                        *)
(* (components/settings/linked-wallet.tsx) with its routes                 *)
(* (app/api/settings/wallet, lib/settings/wallet.ts,                       *)
(* packages/sdk/src/wallet/challenge.ts), the refresh from the chain       *)
(* (components/business/business-profile.tsx, app/api/business/sync) and   *)
(* the deletion of an account (app/api/user/account,                       *)
(* packages/db/src/repositories/users.ts).                                 *)
(*                                                                         *)
(* A business has one owner, one browser tab and one financial event.  The *)
(* event's status on the chain moves as EventJournal says, which           *)
(* FinancialLedger implements.  A challenge names business, wallet and     *)
(* time; its nonce is stored nowhere, so it is left out.                   *)
(***************************************************************************)
EXTENDS Integers, Sequences, FiniteSets

CONSTANTS
    Businesses,
    Wallets,
    NoWallet,       \* the column walletAddress is null
    Anonymous,      \* what a deleted account leaves in it
    MaxDisputes,    \* bound on the dispute rows of one event
    MaxCalls        \* bound on a business's calls under way

VARIABLES
    onChain,    \* the event's status in the FinancialLedger contract
    eventRow,   \* the status column of financialEvent
    disputes,   \* status of the event's dispute rows, oldest first
    form,       \* what the disputes page shows of the event
    link,       \* walletAddress of the business's row
    calls,      \* the panel's handlers and the requests they made
    syncs,      \* businesses with a POST sync under way
    panel,      \* what the settings panel of the business's tab shows
    deleted,    \* businesses whose account is deleted
    disturbed   \* history: since the panel was loaded handlers overlapped, an
                \* answer was lost, the row synced or the account deleted

eventVars == <<onChain, eventRow, disputes, form>>
walletVars == <<link, calls, syncs, panel, deleted, disturbed>>
linkVars == <<eventVars, walletVars>>

EventStatus == {"Pending", "Verified", "Disputed", "Revoked"}

DisputeStatus == {"Submitted", "Investigating", "Resolved", "Revoked"}

\* DisputeForm, from the empty form to the answer of the disputes route.
Forms == {"open", "sent", "post", "saved", "warned"}

Linked == Wallets \cup {NoWallet, Anonymous}

\* A handler of business: it links wallet, or unlinks when that is NoWallet.
\* `shown` is the wallet its closure has seen, `own` whether the panel still
\* waits for it, `disputed` (history) the event's state when it was checked.
Call == [business : Businesses, wallet : Wallets \cup {NoWallet}, shown : Linked,
         own : BOOLEAN, disputed : BOOLEAN,
         step : {"connect", "sign", "check", "write", "done", "refused"}]

LinkTypeOK ==
    /\ onChain \in [Businesses -> EventStatus]
    /\ eventRow \in [Businesses -> EventStatus \cup {"none"}]
    /\ disputes \in [Businesses -> Seq(DisputeStatus)]
    /\ form \in [Businesses -> {"empty", "list", "lifecycle"} \cup Forms]
    /\ link \in [Businesses -> Linked]
    /\ calls \subseteq Call
    /\ syncs \subseteq Businesses
    /\ panel \in [Businesses -> [busy : BOOLEAN, wallet : Linked]]
    /\ deleted \subseteq Businesses
    /\ disturbed \subseteq Businesses

LinkInit ==
    /\ onChain = [b \in Businesses |-> "Pending"]
    /\ eventRow = [b \in Businesses |-> "none"]
    /\ disputes = [b \in Businesses |-> <<>>]
    /\ form = [b \in Businesses |-> "empty"]
    /\ link = [b \in Businesses |-> NoWallet]
    /\ calls = {}
    /\ syncs = {}
    /\ panel = [b \in Businesses |-> [busy |-> FALSE, wallet |-> NoWallet]]
    /\ deleted = {}
    /\ disturbed = {}

-----------------------------------------------------------------------------
(* Events and disputes.                                                    *)

Journal(b) == INSTANCE EventJournal
    WITH journal <- [x \in {b} |-> <<[id |-> b, status |-> onChain[b]]>>],
         BusinessIds <- {b}, Entries <- {}

\* Recorder, resolver and owners call the contract from wherever they are.
Move(b, status) ==
    /\ <<onChain[b], status>> \in Journal(b)!Lifecycle
    /\ onChain' = [onChain EXCEPT ![b] = status]

CallLedger(b) ==
    /\ \E status \in EventStatus : Move(b, status)
    /\ UNCHANGED <<eventRow, disputes, form, walletVars>>

\* upsertFinancialEvent, the only writer of the column: first and again with
\* the same status, whatever the chain says.
IndexEvent(b) ==
    /\ eventRow' = [eventRow EXCEPT ![b] = "Pending"]
    /\ UNCHANGED <<onChain, disputes, form, walletVars>>

\* What DisputeList shows of a row: the form is one click away from a status
\* that can be challenged.
Listed(status) ==
    CASE status \in {"Pending", "Verified"} -> "list"
      [] status = "Disputed" -> "lifecycle"
      [] OTHER -> "empty"

\* The page is mounted and reads the rows, or fails to, once.
MountList(b) ==
    /\ b \notin deleted
    /\ \E shown \in {Listed(eventRow[b]), "empty"} : form' = [form EXCEPT ![b] = shown]
    /\ UNCHANGED <<onChain, eventRow, disputes, walletVars>>

FormGoes(b, from, to) == form[b] = from /\ form' = [form EXCEPT ![b] = to]

\* Challenge, and back to a list that is not read again.
OpenForm(b) ==
    /\ \/ FormGoes(b, "list", "open")
       \/ form[b] \in Forms /\ form' = [form EXCEPT ![b] = "list"]
    /\ UNCHANGED <<onChain, eventRow, disputes, walletVars>>

\* handleSubmit calls the contract; on an error the form stays open.
SubmitDispute(b) ==
    /\ \/ FormGoes(b, "open", "sent") /\ UNCHANGED onChain
       \/ FormGoes(b, "sent", "post") /\ onChain[b] = "Verified" /\ Move(b, "Disputed")
       \/ FormGoes(b, "sent", "open") /\ UNCHANGED onChain
    /\ UNCHANGED <<eventRow, disputes, walletVars>>

\* POST disputes: it asks for the event's row, not for its status, nor whether
\* there is a dispute already.
CreateDispute(b) ==
    /\ b \notin deleted /\ eventRow[b] # "none"
    /\ Len(disputes[b]) < MaxDisputes
    /\ disputes' = [disputes EXCEPT ![b] = Append(@, "Submitted")]
    /\ \/ FormGoes(b, "post", "saved")
       \/ FormGoes(b, "post", "warned")     \* the answer is lost
       \/ form[b] # "post" /\ UNCHANGED form
    /\ UNCHANGED <<onChain, eventRow, walletVars>>

\* The reason cannot be saved: the form says so, beside its success.
SaveFails(b) ==
    /\ FormGoes(b, "post", "warned")
    /\ UNCHANGED <<onChain, eventRow, disputes, walletVars>>

deriveDisputeLifecycleStatus(eventStatus, stored) ==
    CASE eventStatus = "Verified" -> "Resolved"
      [] eventStatus = "Revoked" -> "Revoked"
      [] OTHER -> stored

\* GET disputes/:eventId heals the newest row from the event's column.
GetDispute(b) ==
    /\ b \notin deleted /\ disputes[b] # <<>>
    /\ disputes' = [disputes EXCEPT ![b][Len(disputes[b])] =
           deriveDisputeLifecycleStatus(eventRow[b], @)]
    /\ UNCHANGED <<onChain, eventRow, form, walletVars>>

hasActiveDisputes(b) == eventRow[b] = "Disputed"

-----------------------------------------------------------------------------
(* The settings panel and its requests.                                    *)

CallsOf(b) == {c \in calls : c.business = b}

Replace(c, step) == calls' = (calls \ {c}) \cup {[c EXCEPT !.step = step]}

Show(b, busy, wallet) ==
    panel' = [panel EXCEPT ![b] = [busy |-> busy, wallet |-> wallet]]

Disturb(b, cond) == disturbed' = IF cond THEN disturbed \cup {b} ELSE disturbed

\* Both handlers start on an idle panel; handleUnlink leaves it idle.
StartCall(b, wallet) ==
    /\ ~panel[b].busy /\ b \notin deleted
    /\ Cardinality(CallsOf(b)) < MaxCalls
    /\ calls' = calls \cup {[business |-> b, wallet |-> wallet,
           shown |-> panel[b].wallet, own |-> TRUE, disputed |-> FALSE,
           step |-> IF wallet = NoWallet THEN "check" ELSE "connect"]}
    /\ panel' = [panel EXCEPT ![b].busy = wallet # NoWallet]
    /\ Disturb(b, CallsOf(b) # {})
    /\ UNCHANGED <<eventVars, link, syncs, deleted>>

\* connectWallet and the challenge, then the signature and PATCH.
Proceed(c) ==
    /\ c.step \in {"connect", "sign"}
    /\ Replace(c, IF c.step = "connect" THEN "sign" ELSE "check")
    /\ UNCHANGED <<eventVars, link, syncs, panel, deleted, disturbed>>

\* The server, past the signature: hasActiveDisputes.
CheckDispute(c) ==
    /\ c.step = "check"
    /\ calls' = (calls \ {c}) \cup {[c EXCEPT
           !.disputed = onChain[c.business] = "Disputed",
           !.step = IF hasActiveDisputes(c.business) THEN "refused" ELSE "write"]}
    /\ UNCHANGED <<eventVars, link, syncs, panel, deleted, disturbed>>

\* walletAddress is a unique column: any other business may hold the wallet.
WriteLink(c) ==
    /\ c.step = "write"
    /\ \/ Replace(c, "done") /\ link' = [link EXCEPT ![c.business] = c.wallet]
       \/ c.wallet # NoWallet /\ Replace(c, "refused") /\ UNCHANGED link
    /\ UNCHANGED <<eventVars, syncs, panel, deleted, disturbed>>

\* The handler ends: a failing re-link shows the wallet of its closure, a
\* failing unlink an error beside what is shown.
Settle(c, success) ==
    IF c.own /\ (success \/ c.wallet # NoWallet)
    THEN Show(c.business, FALSE, IF success THEN c.wallet ELSE c.shown)
    ELSE UNCHANGED panel

\* Mutant: the panel shows the wallet connected, whatever the answer says.
AnswerUnread(c) ==
    /\ c.step \in {"done", "refused"}
    /\ calls' = calls \ {c}
    /\ Settle(c, TRUE)
    /\ UNCHANGED <<eventVars, link, syncs, deleted, disturbed>>

AnswerCall(c) ==
    /\ c.step \in {"done", "refused"}
    /\ calls' = calls \ {c}
    /\ Settle(c, c.step = "done")
    /\ UNCHANGED <<eventVars, link, syncs, deleted, disturbed>>

\* Freighter refuses, the challenge expires, or the server fails.
CallFails(c) ==
    /\ c.step \in {"connect", "sign", "check", "write"}
    /\ calls' = calls \ {c}
    /\ Settle(c, FALSE)
    /\ UNCHANGED <<eventVars, link, syncs, deleted, disturbed>>

\* The connection breaks: the panel gives up, the server goes on.
CallLost(c) ==
    /\ c.own /\ c.step \in {"check", "write", "done", "refused"}
    /\ calls' = (calls \ {c}) \cup {[c EXCEPT !.own = FALSE]}
    /\ Settle(c, FALSE)
    /\ Disturb(c.business, TRUE)
    /\ UNCHANGED <<eventVars, link, syncs, deleted>>

\* The panel is mounted again; what was sent before goes on without it.
Reload(b) ==
    /\ b \notin deleted
    /\ Show(b, FALSE, link[b])
    /\ calls' = (calls \ CallsOf(b)) \cup {[c EXCEPT !.own = FALSE] : c \in
           {d \in CallsOf(b) : d.step \notin {"connect", "sign"}}}
    /\ disturbed' = IF CallsOf(b) = {} /\ b \notin syncs
                    THEN disturbed \ {b} ELSE disturbed \cup {b}
    /\ UNCHANGED <<eventVars, link, syncs, deleted>>

\* refreshFromChain on the page of the business: POST sync is sent.
StartSync(b) ==
    /\ b \notin deleted
    /\ syncs' = syncs \cup {b}
    /\ Disturb(b, TRUE)
    /\ UNCHANGED <<eventVars, link, calls, panel, deleted>>

\* The row takes the wallet of the contract's record, dispute or not; without
\* a record, or when another row has the wallet, it stays.
EndSync(b) ==
    /\ b \in syncs /\ syncs' = syncs \ {b}
    /\ \/ \E wallet \in Wallets : link' = [link EXCEPT ![b] = wallet]
       \/ UNCHANGED link
    /\ UNCHANGED <<eventVars, calls, panel, deleted, disturbed>>

\* One database transaction: the sessions, the account and the wallet.
deleteUserAccount(b) ==
    /\ deleted' = deleted \cup {b}
    /\ link' = [link EXCEPT ![b] = IF @ = NoWallet THEN @ ELSE Anonymous]

\* DELETE user/account, with a session and the password; requests that have
\* passed their own session check go on.
DeleteAccount(b) ==
    /\ b \notin deleted
    /\ deleteUserAccount(b)
    /\ Disturb(b, TRUE)
    /\ UNCHANGED <<eventVars, calls, syncs, panel>>

LinkNext ==
    \/ \E b \in Businesses :
        \/ CallLedger(b) \/ IndexEvent(b) \/ MountList(b) \/ OpenForm(b)
        \/ SubmitDispute(b) \/ CreateDispute(b) \/ SaveFails(b) \/ GetDispute(b)
        \/ \E wallet \in Wallets \cup {NoWallet} : StartCall(b, wallet)
        \/ Reload(b) \/ StartSync(b) \/ EndSync(b) \/ DeleteAccount(b)
    \/ \E c \in calls :
        \/ Proceed(c) \/ CheckDispute(c) \/ WriteLink(c)
        \/ AnswerCall(c) \/ CallFails(c) \/ CallLost(c)

LinkSpec == LinkInit /\ [][LinkNext]_linkVars

-----------------------------------------------------------------------------
(* An idle panel shows the wallet that the database holds, whatever was    *)
(* refused or failed, as long as its handlers took turns, every answer     *)
(* came and nothing else wrote the row (POST sync, the account's deletion) *)
(* since it was loaded: a handler writes what its closure saw when it      *)
(* started.                                                                *)
PanelTruthful ==
    \A b \in Businesses :
        b \notin disturbed /\ CallsOf(b) = {} =>
            ~panel[b].busy /\ panel[b].wallet = link[b]

(* linked-wallet.tsx: "Both unlink and re-link are refused by the server   *)
(* (409) while the business has an active dispute".                        *)
RefusedInDispute == \A c \in calls : c.step = "done" => ~c.disputed
=============================================================================
