---------------------------- MODULE AccessTokens ----------------------------
(***************************************************************************)
(* Personal access tokens: the settings section that creates, lists and    *)
(* revokes them (apps/web/components/settings/personal-access-tokens.tsx), *)
(* the routes and queries behind it (app/api/settings/tokens,              *)
(* lib/settings/tokens.ts), and the indexer that admits a request which    *)
(* presents one (indexer/src/api/auth/personal-access-token.ts).           *)
(*                                                                         *)
(* A token, its hash and its row are one value here; the panel is one tab  *)
(* of a signed-in user, the readers are third-party tools.                 *)
(***************************************************************************)
EXTENDS Naturals

CONSTANTS
    Tokens,         \* tokens the user may come to create
    Readers,        \* requests to the indexer that may be under way together
    MaxPanelCalls   \* calls of the panel that may be under way together

VARIABLES
    tokenRow,       \* the table: what is known of a token, or "none"
    panel,          \* the section's state
    panelCall,      \* its calls under way
    reader,         \* the requests at the indexer
    useUpdate       \* updates of lastUsedAt under way

tokenVars == <<tokenRow, panel, panelCall, reader, useUpdate>>

RowState == {"none", "active", "revoked"}

\* A listing, or nothing: {} or one function.
Listing == {{}} \cup {{list} : list \in [Tokens -> RowState]}

\* An answer is a listing, a token, an error, or not there yet.
PanelCall == [op : {"none", "mount", "load", "create", "revoke"},
              token : SUBSET Tokens, answer : {"none", "ok", "error"}, list : Listing]

NoCall == [op |-> "none", token |-> {}, answer |-> "none", list |-> {}]

NoReader == [step |-> "none", token |-> {}, late |-> FALSE]

TokensTypeOK ==
    /\ tokenRow \in [Tokens -> [state : RowState, used : BOOLEAN]]
    /\ panel \in [list : Listing, creating : BOOLEAN, plaintext : SUBSET Tokens,
                  error : BOOLEAN]
    /\ panelCall \in [1..MaxPanelCalls -> PanelCall]
    /\ reader \in [Readers -> [step : {"none", "sent", "admitted", "rejected"},
                               token : SUBSET Tokens, late : BOOLEAN]]
    /\ useUpdate \subseteq [token : Tokens, seen : {"active"}]

TokensInit ==
    /\ tokenRow = [t \in Tokens |-> [state |-> "none", used |-> FALSE]]
    /\ panel = [list |-> {}, creating |-> FALSE, plaintext |-> {}, error |-> FALSE]
    /\ panelCall = [i \in 1..MaxPanelCalls |->
                       IF i = 1 THEN [NoCall EXCEPT !.op = "mount"] ELSE NoCall]
    /\ reader = [r \in Readers |-> NoReader]
    /\ useUpdate = {}

Listed == [t \in Tokens |-> tokenRow[t].state]

-----------------------------------------------------------------------------
(* The settings section. *)

Free == {i \in 1..MaxPanelCalls : panelCall[i].op = "none"}

\* The call takes the place of the one that ended, or a free one.
Send(i, op, token) ==
    panelCall' = [panelCall EXCEPT ![i] = [NoCall EXCEPT !.op = op, !.token = token]]

\* handleCreate: the button is disabled while a token is being created.
CreateToken(t) ==
    /\ ~panel.creating
    /\ tokenRow[t].state = "none"
    /\ \A j \in 1..MaxPanelCalls : t \notin panelCall[j].token
    /\ \E i \in Free : Send(i, "create", {t})
    /\ panel' = [panel EXCEPT !.creating = TRUE, !.error = FALSE]
    /\ UNCHANGED <<tokenRow, reader, useUpdate>>

\* handleRevoke: every listed token that is not revoked has a button.
RevokeToken(t) ==
    /\ \E list \in panel.list : list[t] = "active"
    /\ \E i \in Free : Send(i, "revoke", {t})
    /\ panel' = [panel EXCEPT !.error = FALSE]
    /\ UNCHANGED <<tokenRow, reader, useUpdate>>

DismissToken ==
    /\ panel.plaintext # {}
    /\ panel' = [panel EXCEPT !.plaintext = {}]
    /\ UNCHANGED <<tokenRow, panelCall, reader, useUpdate>>

\* POST, DELETE and GET; a DELETE of a revoked token is a 404.
Serve(i) ==
    LET call == panelCall[i]
        target == CASE call.op = "create" -> "none" [] call.op = "revoke" -> "active"
                    [] OTHER -> ""
        new == IF call.op = "create" THEN "active" ELSE "revoked"
        found == \A t \in call.token : tokenRow[t].state = target
    IN /\ call.op # "none" /\ call.answer = "none"
       /\ tokenRow' = [t \in Tokens |-> IF t \in call.token /\ found
                                       THEN [tokenRow[t] EXCEPT !.state = new]
                                       ELSE tokenRow[t]]
       /\ panelCall' = [panelCall EXCEPT
            ![i].answer = IF found THEN "ok" ELSE "error",
            ![i].list = IF call.op \in {"mount", "load"} THEN {Listed} ELSE {}]
       /\ UNCHANGED <<panel, reader, useUpdate>>

\* The session is gone or the database fails: an answer without data.
ServeError(i) ==
    /\ panelCall[i].op # "none" /\ panelCall[i].answer = "none"
    /\ panelCall' = [panelCall EXCEPT ![i].answer = "error"]
    /\ UNCHANGED <<tokenRow, panel, reader, useUpdate>>

End(i) == panelCall' = [panelCall EXCEPT ![i] = NoCall]

\* load() sets whatever the answer says, also when another was sent later.
ListAnswered(i) ==
    /\ panelCall[i].op \in {"mount", "load"} /\ panelCall[i].answer # "none"
    /\ panel' = [panel EXCEPT !.list = IF panelCall[i].answer = "ok" THEN panelCall[i].list
                                       ELSE {[t \in Tokens |-> "none"]}]
    /\ End(i)
    /\ UNCHANGED <<tokenRow, reader, useUpdate>>

\* A created token is shown and the list is loaded again, as it is after a
\* revocation; an error is shown.
ChangeAnswered(i) ==
    LET call == panelCall[i]
        creates == call.op = "create"
    IN /\ call.op \in {"create", "revoke"} /\ call.answer # "none"
       /\ panel' = [panel EXCEPT
            !.creating = @ /\ ~creates,
            !.plaintext = IF creates /\ call.answer = "ok" THEN call.token ELSE @,
            !.error = @ \/ call.answer = "error"]
       /\ IF call.answer = "ok" THEN Send(i, "load", {}) ELSE End(i)
       /\ UNCHANGED <<tokenRow, reader, useUpdate>>

\* The request or its answer is lost: fetch rejects, nobody catches it, and
\* setCreating(false) is not reached.
CallLost(i) ==
    /\ panelCall[i].op # "none"
    /\ End(i)
    /\ UNCHANGED <<tokenRow, panel, reader, useUpdate>>

-----------------------------------------------------------------------------
(* The indexer. *)

\* A tool presents a token that was shown once, or one nobody issued.
Present(r, t) ==
    /\ reader[r].step = "none"
    /\ reader' = [reader EXCEPT ![r] =
           [step |-> "sent", token |-> {t}, late |-> tokenRow[t].state = "revoked"]]
    /\ UNCHANGED <<tokenRow, panel, panelCall, useUpdate>>

\* Mutant: the use is recorded before the token's state is looked at.
VerifyAfterUse(r) ==
    \E t \in reader[r].token :
        /\ reader[r].step = "sent"
        /\ reader' = [reader EXCEPT ![r].step =
               IF tokenRow[t].state = "active" THEN "admitted" ELSE "rejected"]
        /\ useUpdate' = useUpdate \cup {[token |-> t, seen |-> tokenRow[t].state]}
        /\ UNCHANGED <<tokenRow, panel, panelCall>>

\* verifyPersonalAccessToken: one look-up; a use is recorded on the side.
VerifyToken(r) ==
    \E t \in reader[r].token :
        LET valid == tokenRow[t].state = "active"
        IN /\ reader[r].step = "sent"
           /\ reader' = [reader EXCEPT ![r].step = IF valid THEN "admitted" ELSE "rejected"]
           /\ useUpdate' = IF valid THEN useUpdate \cup {[token |-> t, seen |-> "active"]}
                           ELSE useUpdate
           /\ UNCHANGED <<tokenRow, panel, panelCall>>

\* Mutant: the row is written back as the look-up found it.
SaveRowRead(u) ==
    /\ tokenRow' = [tokenRow EXCEPT ![u.token] = [state |-> u.seen, used |-> TRUE]]
    /\ useUpdate' = useUpdate \ {u}
    /\ UNCHANGED <<panel, panelCall, reader>>

\* The update sets lastUsedAt only.
RecordUse(u) ==
    /\ tokenRow' = [tokenRow EXCEPT ![u.token].used = TRUE]
    /\ useUpdate' = useUpdate \ {u}
    /\ UNCHANGED <<panel, panelCall, reader>>

\* It fails; the request is served all the same.
UseNotRecorded(u) ==
    /\ useUpdate' = useUpdate \ {u}
    /\ UNCHANGED <<tokenRow, panel, panelCall, reader>>

ReaderDone(r) ==
    /\ reader[r].step \in {"admitted", "rejected"}
    /\ reader' = [reader EXCEPT ![r] = NoReader]
    /\ UNCHANGED <<tokenRow, panel, panelCall, useUpdate>>

-----------------------------------------------------------------------------
TokensNext ==
    \/ \E t \in Tokens : CreateToken(t) \/ RevokeToken(t) \/ \E r \in Readers : Present(r, t)
    \/ DismissToken
    \/ \E i \in 1..MaxPanelCalls :
           Serve(i) \/ ServeError(i) \/ ListAnswered(i) \/ ChangeAnswered(i) \/ CallLost(i)
    \/ \E r \in Readers : VerifyToken(r) \/ ReaderDone(r)
    \/ \E u \in useUpdate : RecordUse(u) \/ UseNotRecorded(u)

TokensSpec == TokensInit /\ [][TokensNext]_tokenVars

-----------------------------------------------------------------------------
(* Properties *)

(* "Revokes a token immediately" (tokens.ts:78): a request that comes to   *)
(* the indexer after the revocation is never admitted, whatever updates of *)
(* earlier uses are still under way and however often it was revoked.      *)
RevokedIsRefused ==
    \A r \in Readers : reader[r].late => reader[r].step # "admitted"
=============================================================================
