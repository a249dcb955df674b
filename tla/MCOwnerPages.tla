---------------------------- MODULE MCOwnerPages ----------------------------
(***************************************************************************)
(* The parts of the web application that an owner uses: the record of the  *)
(* business, the linked wallet with its disputes, the wallet of the tab,   *)
(* the activity and the client of the ledger contract.  They share no      *)
(* variable, so a behaviour of one says nothing about another; each        *)
(* behaviour here is of one part while the others rest at one initial      *)
(* state.  The export and the list of the activity have only the rows in   *)
(* common, and no row depends on either, so they are parts of their own.   *)
(***************************************************************************)
EXTENDS BusinessRecords, WalletLink, WalletSession, ActivityPages, ContractClient

VARIABLE part   \* the part that takes the steps

OwnerInit ==
    /\ part \in {"records", "link", "session", "export", "list", "client"}
    /\ RecordInit /\ LinkInit /\ SessionInit /\ ActivityInit /\ ClientInit
    /\ part # "session" => freighter = NoAddress
    /\ part # "list" => selection = CHOOSE s \in Selection : s.offset = 0
    /\ part # "client" => \A e \in Ledgered : state[e].status = "Pending"

OwnerNext ==
    /\ part' = part
    /\ \/ /\ part = "records" /\ RecordNext
          /\ UNCHANGED <<linkVars, walletSessionVars, activityVars, clientVars>>
       \/ /\ part = "link" /\ LinkNext
          /\ UNCHANGED <<recordVars, walletSessionVars, activityVars, clientVars>>
       \/ /\ part = "session" /\ SessionNext
          /\ UNCHANGED <<recordVars, linkVars, activityVars, clientVars>>
       \/ /\ part = "export" /\ ActivityNext
          /\ UNCHANGED <<selection, list, requests, newEvents>>
          /\ UNCHANGED <<recordVars, linkVars, walletSessionVars, clientVars>>
       \/ /\ part = "list" /\ ActivityNext
          /\ UNCHANGED csv
          /\ UNCHANGED <<recordVars, linkVars, walletSessionVars, clientVars>>
       \/ /\ part = "client" /\ ClientNext
          /\ UNCHANGED <<recordVars, linkVars, walletSessionVars, activityVars>>

ownerVars == <<part, recordVars, linkVars, walletSessionVars, activityVars, clientVars>>

OwnerSpec == OwnerInit /\ [][OwnerNext]_ownerVars

(* Every part keeps its types.                                             *)
OwnerTypeOK ==
    CASE part = "records"  -> RecordTypeOK
      [] part = "link"     -> LinkTypeOK
      [] part = "session"  -> SessionTypeOK
      [] part \in {"export", "list"} -> ActivityTypeOK
      [] part = "client"   -> ClientTypeOK
=============================================================================
