---------------------------- MODULE WalletSession ----------------------------
(***************************************************************************)
(* The connected wallet as one browser tab knows it: Freighter behind the  *)
(* SDK's adapter (packages/sdk/src/wallet/freighter.ts), the context of    *)
(* the root layout that polls it (apps/web/lib/wallet/context.tsx), the    *)
(* cache of the dashboard's layout (components/wallet/wallet-provider.tsx) *)
(* and the registration form, which hears of the address through           *)
(* components/wallet/wallet-connect.tsx.                                   *)
(*                                                                         *)
(* A call of the extension is a message to another process: it is          *)
(* evaluated there some time after it was sent and answered some time      *)
(* later, within ReadTime together.  Time is counted in whole units.       *)
(***************************************************************************)
EXTENDS Integers

CONSTANTS
    Accounts,       \* accounts of the user in Freighter
    NoAddress,      \* null
    PollInterval,   \* ACCOUNT_POLL_INTERVAL_MS
    ReadTime        \* the longest time a call of the extension takes

ASSUME PollAssumption == PollInterval \in Nat \ {0} /\ ReadTime \in Nat

VARIABLES
    freighter,      \* the account the extension gives to this site
    context,        \* WalletContextProvider: address and error
    connection,     \* its connect() under way
    reads,          \* getAddress calls under way
    provider,       \* WalletProvider: connectedAddress and isChecking
    session,        \* whether a user is signed in
    signup,         \* the registration form: its step and its walletAddress
    sincePoll,      \* time since the last poll
    sinceChange     \* history: time since the last account switch, failed
                    \* read or disconnect()

walletSessionVars ==
    <<freighter, context, connection, reads, provider, session, signup,
      sincePoll, sinceChange>>

Address == Accounts \cup {NoAddress}

\* What a call has seen: nothing yet or an address.
Seen == {{}} \cup {{a} : a \in Address}

\* After this time the context shows Freighter's account again.
DetectionTime == PollInterval + 3 * ReadTime

Caller == {"mount", "poll", "provider"}

SessionTypeOK ==
    /\ freighter \in Address
    /\ context \in [address : Address, error : BOOLEAN]
    /\ connection \in [step : {"idle", "access", "address", "network"},
                       address : Address, age : 0..ReadTime]
    /\ reads \subseteq [by : Caller, seen : Seen, age : 0..ReadTime]
    /\ provider \in [address : Address, checking : BOOLEAN]
    /\ session \in BOOLEAN
    /\ signup \in [step : {"wallet", "details", "submitting", "error"}, wallet : Address]
    /\ sincePoll \in 0..PollInterval
    /\ sinceChange \in 0..DetectionTime + 1

NoConnection == [step |-> "idle", address |-> NoAddress, age |-> 0]

ReadBy(caller) == [by |-> caller, seen |-> {}, age |-> 0]

SessionInit ==
    /\ freighter \in Address
    /\ context = [address |-> NoAddress, error |-> FALSE]
    /\ connection = NoConnection
    /\ reads = {ReadBy("mount"), ReadBy("provider")}
    /\ provider = [address |-> NoAddress, checking |-> TRUE]
    /\ session = TRUE
    /\ signup = [step |-> "wallet", wallet |-> NoAddress]
    /\ sincePoll = 0
    /\ sinceChange = 0

-----------------------------------------------------------------------------
(* WalletConnect passes a changed address on to the form (WALLET_CONNECTED). *)

Shown(step) == step \in {"wallet", "details"}

\* Mutant: the form's first wallet is passed on, and no other.
NotifyOnce(address, f) ==
    IF Shown(f.step) /\ address # NoAddress /\ f.wallet = NoAddress
    THEN [step |-> "details", wallet |-> address] ELSE f

\* onConnected: lastNotifiedRef is null after a mount and after a null address.
Notify(address, f) ==
    IF Shown(f.step) /\ address # NoAddress
    THEN [step |-> "details", wallet |-> address] ELSE f

SetAddress(address, error) ==
    /\ context' = [address |-> address, error |-> error]
    /\ signup' = IF address # context.address THEN Notify(address, signup) ELSE signup

-----------------------------------------------------------------------------
(* Freighter, and the getAddress calls.                                    *)

\* The user switches accounts, locks the wallet or takes access away.
SwitchAccount(a) ==
    /\ a # freighter
    /\ freighter' = a
    /\ sinceChange' = 0
    /\ UNCHANGED <<context, connection, reads, provider, session, signup, sincePoll>>

\* The interval fires; it does not wait for the call before.
Poll ==
    /\ sincePoll = PollInterval
    /\ reads' = reads \cup {ReadBy("poll")}
    /\ sincePoll' = 0
    /\ UNCHANGED <<freighter, context, connection, provider, session, signup, sinceChange>>

\* The extension answers; getAddress takes any error for no address.
ReadAddress(r) ==
    /\ r.seen = {}
    /\ \E a \in {freighter, NoAddress} :
        /\ reads' = (reads \ {r}) \cup {[r EXCEPT !.seen = {a}]}
        /\ sinceChange' = IF a # freighter THEN 0 ELSE sinceChange
    /\ UNCHANGED <<freighter, context, connection, provider, session, signup, sincePoll>>

\* The answer to the mount effect or to a poll.  A poll's answer counts when
\* it differs from addressRef, and clears the error when it is null.
AddressRead(r) ==
    /\ r.by \in {"mount", "poll"}
    /\ \E a \in r.seen :
           SetAddress(a, context.error /\ (r.by = "mount" \/ a # NoAddress
                                           \/ a = context.address))
    /\ reads' = reads \ {r}
    /\ UNCHANGED <<freighter, connection, provider, session, sincePoll, sinceChange>>

\* refreshWallet of the mount effect.
ProviderRead(r) ==
    /\ r.by = "provider"
    /\ \E a \in r.seen : provider' = [address |-> a, checking |-> FALSE]
    /\ reads' = reads \ {r}
    /\ UNCHANGED <<freighter, context, connection, session, signup, sincePoll, sinceChange>>

-----------------------------------------------------------------------------
(* connect and disconnect: the buttons of WalletConnect.                   *)

Connect ==
    /\ Shown(signup.step) /\ context.address = NoAddress /\ connection.step = "idle"
    /\ context' = [context EXCEPT !.error = FALSE]
    /\ connection' = [NoConnection EXCEPT !.step = "access"]
    /\ UNCHANGED <<freighter, reads, provider, session, signup, sincePoll, sinceChange>>

\* requestAccess is granted, after any time; getAddress is called.
AccessGranted ==
    /\ connection.step = "access" /\ freighter # NoAddress
    /\ connection' = [connection EXCEPT !.step = "address"]
    /\ UNCHANGED <<freighter, context, reads, provider, session, signup, sincePoll, sinceChange>>

\* The extension evaluates that call ...
AddressGiven ==
    /\ connection.step = "address" /\ connection.address = NoAddress
    /\ freighter # NoAddress
    /\ connection' = [connection EXCEPT !.address = freighter]
    /\ UNCHANGED <<freighter, context, reads, provider, session, signup, sincePoll, sinceChange>>

\* ... and its answer arrives; only then getNetwork is called.
AskNetwork ==
    /\ connection.step = "address" /\ connection.address # NoAddress
    /\ connection' = [connection EXCEPT !.step = "network", !.age = 0]
    /\ UNCHANGED <<freighter, context, reads, provider, session, signup, sincePoll, sinceChange>>

Connected ==
    /\ connection.step = "network"
    /\ SetAddress(connection.address, context.error)
    /\ connection' = NoConnection
    /\ UNCHANGED <<freighter, reads, provider, session, sincePoll, sinceChange>>

\* Not installed, access denied, no address or no network.
ConnectFails ==
    /\ connection.step # "idle"
    /\ context' = [context EXCEPT !.error = TRUE]
    /\ connection' = NoConnection
    /\ UNCHANGED <<freighter, reads, provider, session, signup, sincePoll, sinceChange>>

\* disconnect() of the adapter does nothing.
Disconnect ==
    /\ Shown(signup.step) /\ context.address # NoAddress
    /\ SetAddress(NoAddress, FALSE)
    /\ sinceChange' = 0
    /\ UNCHANGED <<freighter, connection, reads, provider, session, sincePoll>>

-----------------------------------------------------------------------------
(* The form and the session.                                               *)

\* SUBMIT_STARTED unmounts WalletConnect.  The submission fails, with
\* WALLET_DISCONNECTED when Freighter gave no address; RETRY_REQUESTED mounts
\* it again.
FormStep ==
    /\ \/ /\ signup.step = "details"
          /\ signup' = [signup EXCEPT !.step = "submitting"]
       \/ /\ signup.step = "submitting"
          /\ \E w \in {signup.wallet, NoAddress} :
                 signup' = [step |-> "error", wallet |-> w]
       \/ /\ signup.step = "error"
          /\ signup' = Notify(context.address, [signup EXCEPT
                 !.step = IF signup.wallet = NoAddress THEN "wallet" ELSE "details"])
    /\ UNCHANGED <<freighter, context, connection, reads, provider, session,
                   sincePoll, sinceChange>>

\* clearWalletState, then signOut, which may fail.
SignOut ==
    /\ session
    /\ provider' = [provider EXCEPT !.address = NoAddress]
    /\ session' \in BOOLEAN
    /\ UNCHANGED <<freighter, context, connection, reads, signup, sincePoll, sinceChange>>

\* Another session mounts the dashboard's layout again, not the root layout.
SignIn ==
    /\ ~session
    /\ session' = TRUE
    /\ provider' = [address |-> NoAddress, checking |-> TRUE]
    /\ reads' = {r \in reads : r.by # "provider"} \cup {ReadBy("provider")}
    /\ UNCHANGED <<freighter, context, connection, signup, sincePoll, sinceChange>>

\* connect() waits for a call; requestAccess waits for the user.
Calling == connection.step \in {"address", "network"}

\* Timers fire and answers come when they are due.
Tick ==
    /\ sincePoll < PollInterval
    /\ \A r \in reads : r.age < ReadTime
    /\ Calling => connection.age < ReadTime
    /\ sincePoll' = sincePoll + 1
    /\ reads' = {[r EXCEPT !.age = @ + 1] : r \in reads}
    /\ connection' = [connection EXCEPT !.age = IF Calling THEN @ + 1 ELSE @]
    /\ sinceChange' = IF sinceChange <= DetectionTime THEN sinceChange + 1 ELSE sinceChange
    /\ UNCHANGED <<freighter, context, provider, session, signup>>

SessionNext ==
    \/ \E a \in Address : SwitchAccount(a)
    \/ \E r \in reads : ReadAddress(r) \/ AddressRead(r) \/ ProviderRead(r)
    \/ Poll \/ Connect \/ AccessGranted \/ AddressGiven \/ AskNetwork \/ Connected
    \/ ConnectFails \/ Disconnect
    \/ FormStep \/ SignOut \/ SignIn \/ Tick

SessionSpec == SessionInit /\ [][SessionNext]_walletSessionVars

-----------------------------------------------------------------------------
(* Properties *)

\* The context shows Freighter's account, and so does the form while it shows
\* the wallet it would register.  The form keeps the last account's name while
\* the extension gives none.
NamesTheAccount ==
    /\ context.address = freighter
    /\ Shown(signup.step) /\ freighter # NoAddress => signup.wallet = freighter

(* The screen names Freighter's account again, and a registration names no *)
(* other, within one poll interval and three calls of the last switch,     *)
(* whatever read was on its way at the switch, through failed submissions  *)
(* and retries. Two of the calls are those of connect(), which reads the   *)
(* address, then the network, and shows the address only after both.       *)
DetectedInTime == NamesTheAccount \/ sinceChange <= DetectionTime

(* What context.tsx:14-16 says: detection within the two seconds of a poll *)
(* interval. The code does not keep it (see the finding).                  *)
DetectedByPoll == NamesTheAccount \/ sinceChange <= PollInterval
=============================================================================
