------------------------ MODULE NotificationSettings ------------------------
(***************************************************************************)
(* Notification preferences: the settings section                          *)
(* (apps/web/components/settings/notification-preferences.tsx), its routes *)
(* (app/api/settings/notifications/route.ts) and the rows behind them      *)
(* (lib/settings/notifications.ts).  A save is one database transaction of *)
(* an upsert for each preference, in the order of the request; an upsert   *)
(* locks its row until the transaction ends.                               *)
(*                                                                         *)
(* The two channels of a preference are one choice here, and the event     *)
(* types are numbered as NOTIFICATION_EVENT_TYPES lists them.              *)
(***************************************************************************)
EXTENDS Naturals, Sequences, FiniteSets

CONSTANTS
    Forms,          \* open settings pages of one user
    NumTypes,       \* the number of event types
    Choices,        \* settings of the channels of a preference
    Default         \* both channels on

ASSUME ChoiceAssumption == NumTypes \in Nat \ {0} /\ Default \in Choices

VARIABLES
    prefRow,        \* committed rows: {} or one choice for each event type
    form,           \* the sections' states
    saveTx          \* the transactions of their saves

notificationVars == <<prefRow, form, saveTx>>

EventTypes == 1..NumTypes

Preference == [type : EventTypes, choice : Choices]

NoTx == [prefs |-> <<>>, upserted |-> 0]

NotificationTypeOK ==
    /\ prefRow \in [EventTypes -> {{}} \cup {{c} : c \in Choices}]
    /\ form \in [Forms -> [step : {"load", "edit", "saving", "tx", "answer"},
                           prefs : Seq(Preference), ok : BOOLEAN, saved : BOOLEAN]]
    /\ saveTx \in [Forms -> [prefs : Seq(Preference), upserted : 0..NumTypes]]

NotificationInit ==
    /\ prefRow = [e \in EventTypes |-> {}]
    /\ form = [f \in Forms |-> [step |-> "load", prefs |-> <<>>, ok |-> TRUE, saved |-> FALSE]]
    /\ saveTx = [f \in Forms |-> NoTx]

-----------------------------------------------------------------------------
ChoiceOf(e) == IF prefRow[e] = {} THEN Default ELSE CHOOSE c \in prefRow[e] : TRUE

\* Mutant: the rows in any order in which the database returns them.
StoredInAnyOrder ==
    {[i \in EventTypes |-> [type |-> place[i], choice |-> ChoiceOf(place[i])]] :
        place \in {p \in [EventTypes -> EventTypes] :
                      \A i, j \in EventTypes : i # j => p[i] # p[j]}}

\* getNotificationPreferences: one for each event type, in their order.
Stored == {[e \in EventTypes |-> [type |-> e, choice |-> ChoiceOf(e)]]}

\* GET is answered, without data when the session is gone.
Load(f) ==
    /\ form[f].step = "load"
    /\ \E prefs \in Stored \cup {<<>>} :
        form' = [form EXCEPT ![f].step = "edit", ![f].prefs = prefs]
    /\ UNCHANGED <<prefRow, saveTx>>

\* A box is ticked, also while a save is under way.
Toggle(f) ==
    /\ form[f].step # "load"
    /\ \E i \in DOMAIN form[f].prefs, c \in Choices :
        /\ c # form[f].prefs[i].choice
        /\ form' = [form EXCEPT ![f].prefs[i].choice = c, ![f].saved = FALSE]
    /\ UNCHANGED <<prefRow, saveTx>>

\* PUT with the preferences shown; an empty list fails validation.
Save(f) ==
    /\ form[f].step = "edit"
    /\ form' = [form EXCEPT ![f].step = IF form[f].prefs = <<>> THEN "answer" ELSE "saving",
                            ![f].ok = form[f].prefs # <<>>, ![f].saved = FALSE]
    /\ saveTx' = [saveTx EXCEPT ![f].prefs = form[f].prefs]
    /\ UNCHANGED prefRow

Begun(f) ==
    /\ form[f].step = "saving"
    /\ form' = [form EXCEPT ![f].step = "tx"]
    /\ UNCHANGED <<prefRow, saveTx>>

\* Rows that the transaction has locked.
Locks(f) == {saveTx[f].prefs[i].type : i \in 1..saveTx[f].upserted}

\* The row that its next upsert writes.
Wants(f) ==
    {p.type : p \in {saveTx[f].prefs[i] : i \in {n \in DOMAIN saveTx[f].prefs :
                         form[f].step = "tx" /\ n = saveTx[f].upserted + 1}}}

\* An upsert waits for a transaction that holds its row.
Upsert(f) ==
    /\ Wants(f) # {}
    /\ \A g \in Forms \ {f} : Wants(f) \cap Locks(g) = {}
    /\ saveTx' = [saveTx EXCEPT ![f].upserted = @ + 1]
    /\ UNCHANGED <<prefRow, form>>

CommitSave(f) ==
    /\ form[f].step = "tx"
    /\ Wants(f) = {}
    /\ prefRow' = [e \in EventTypes |->
           {saveTx[f].prefs[i].choice : i \in {n \in EventTypes : saveTx[f].prefs[n].type = e}}]
    /\ saveTx' = [saveTx EXCEPT ![f] = NoTx]
    /\ form' = [form EXCEPT ![f].step = "answer", ![f].ok = TRUE]

\* No session, or the transaction fails and is rolled back.
SaveFails(f) ==
    /\ form[f].step \in {"saving", "tx"}
    /\ saveTx' = [saveTx EXCEPT ![f] = NoTx]
    /\ form' = [form EXCEPT ![f].step = "answer", ![f].ok = FALSE]
    /\ UNCHANGED prefRow

\* "Saved." or the error, whatever was toggled since the save.
Answered(f) ==
    /\ form[f].step = "answer"
    /\ form' = [form EXCEPT ![f].step = "edit", ![f].saved = form[f].ok]
    /\ saveTx' = [saveTx EXCEPT ![f] = NoTx]
    /\ UNCHANGED prefRow

NotificationNext ==
    \E f \in Forms :
        \/ Load(f) \/ Toggle(f) \/ Save(f) \/ Begun(f) \/ Upsert(f)
        \/ CommitSave(f) \/ SaveFails(f) \/ Answered(f)

NotificationSpec == NotificationInit /\ [][NotificationNext]_notificationVars

-----------------------------------------------------------------------------
(* Properties *)

(* Two saves never wait for each other's rows.                             *)
NoLockCycle ==
    \A f, g \in Forms :
        f # g => Wants(f) \cap Locks(g) = {} \/ Wants(g) \cap Locks(f) = {}
=============================================================================
