----------------------- MODULE RegistrationFlowProofs -----------------------
(***************************************************************************)
(* Proofs about the registration flow, for any tabs, wallets, attempts and *)
(* faults.  The argument: an attempt belongs to the one tab that submitted *)
(* it until its transaction is sent, so a transaction that was applied     *)
(* stays so (Settled); what a tab confirms, what it posts and what the     *)
(* route writes all follow from an applied transaction.                    *)
(***************************************************************************)
EXTENDS RegistrationFlow, TLAPS

Applied(a) == a \in Attempts /\ tx[a] = "applied"

\* The tab has submitted its attempt and not sent it.
Unsent(r) == r.job \in {"prepare", "send"}

ChainInv ==
    /\ Registry!TypeOK
    /\ tx \in [Attempts -> {"none", "sent", "applied", "failed", "expired"}]
    /\ wallet \in [Attempts -> Wallets \cup {None}]
    /\ \A a \in Attempts :
        /\ tx[a] # "none" => wallet[a] # None
        /\ tx[a] = "applied" => OnChain(a)

\* What a tab's own state says.
TabOK(r) ==
    /\ r \in Tab
    /\ r.job # "none" => r.attempt \in Attempts
    /\ r.step = "details" => r.wallet \in Wallets

Submitted(a) == a \in Attempts /\ tx[a] = "none" /\ wallet[a] # None

TabInv ==
    /\ tab \in [Tabs -> Tab]
    /\ \A t \in Tabs :
        /\ TabOK(tab[t])
        /\ tab[t].step = "confirmed" => Applied(tab[t].attempt)
        /\ Unsent(tab[t]) => Submitted(tab[t].attempt)
    /\ \A t, u \in Tabs :
        Unsent(tab[t]) /\ Unsent(tab[u]) /\ t # u => tab[t].attempt # tab[u].attempt

\* The route has answered that a row stands: the user's, or another's in the way.
Done(q) == q.phase \in {"ok", "conflict"}

Stands(a) == profile # None \/ wallet[a] \in others

RecordInv ==
    /\ requests \subseteq Request
    /\ \A q \in requests : Applied(q.attempt)
    /\ profile # None => Applied(profile)
    /\ \A q \in requests : Done(q) => Stands(q.attempt)

BoundInv ==
    /\ pending \in Attempts \cup {None}
    /\ others \subseteq Wallets
    /\ faults \in 0..MaxFaults

FlowInv == ChainInv /\ TabInv /\ RecordInv /\ BoundInv

\* What any step leaves true of the attempts.
Settled ==
    /\ \A a : Applied(a) => Applied(a)' /\ wallet'[a] = wallet[a]
    /\ ChainInv'

\* Nobody's submitted attempt is disturbed.
SubmittedKept == \A a : Submitted(a) => Submitted(a)'

-----------------------------------------------------------------------------
(* The chain and the attempts. *)

LEMMA StillSettled ==
    ASSUME ChainInv, UNCHANGED <<chain, tx, wallet>>
    PROVE  Settled
<1>1. UNCHANGED <<admin, business, walletIndex, ownerIndex>>
  BY DEF chain
<1> QED
  BY <1>1 DEF ChainInv, Settled, Applied, OnChain, Registry!TypeOK, Registry!Active,
              Registry!Exists

\* The network takes a transaction, or gives it up: other attempts keep theirs.
LEMMA IncludeSettles ==
    ASSUME ChainInv, NEW a \in Attempts, Include(a)
    PROVE  Settled
<1>1. tx[a] = "sent" /\ wallet[a] \in Wallets
  BY DEF Include, ChainInv
<1>2. CASE Registry!RegisterBusiness(wallet[a], a, wallet[a], "metadata")
           /\ tx' = [tx EXCEPT ![a] = "applied"]
  <2> DEFINE new == [owner |-> wallet[a], wallet |-> wallet[a],
                     metadata_hash |-> "metadata", active |-> TRUE]
  <2>1. /\ business' = [business EXCEPT ![a] = new]
        /\ walletIndex' = [walletIndex EXCEPT ![wallet[a]] = a]
        /\ ownerIndex' = [ownerIndex EXCEPT ![wallet[a]] = a]
        /\ admin' = admin
    BY <1>2 DEF Registry!RegisterBusiness, Registry!SaveIndexes
  <2>2. new \in Registry!Business /\ new # None /\ new.active /\ new.wallet = wallet[a]
    <3>1. new \in Registry!Business
      BY <1>1 DEF Registry!Business
    <3> QED
      BY <3>1, AbsentAssumption
  <2> HIDE DEF new
  <2>3. Registry!TypeOK'
    BY <1>1, <2>1, <2>2 DEF ChainInv, Registry!TypeOK
  <2>4. wallet' = wallet
    BY DEF Include
  <2>5. /\ business'[a] = new
        /\ \A b \in Attempts : b # a => business'[b] = business[b]
    BY <2>1 DEF ChainInv, Registry!TypeOK
  <2>6. ASSUME NEW b \in Attempts, tx'[b] = "applied" PROVE OnChain(b)'
    <3>1. CASE b = a
      BY <2>2, <2>4, <2>5, <3>1 DEF OnChain, Registry!Active, Registry!Exists
    <3>2. CASE b # a
      BY <1>2, <2>4, <2>5, <2>6, <3>2
         DEF ChainInv, OnChain, Registry!Active, Registry!Exists
    <3> QED
      BY <3>1, <3>2
  <2> QED
    BY <1>1, <1>2, <2>3, <2>4, <2>6 DEF ChainInv, Settled, Applied
<1>3. CASE UNCHANGED chain /\ tx' = [tx EXCEPT ![a] = "failed"]
  <2>1. UNCHANGED <<admin, business, walletIndex, ownerIndex, wallet>>
    BY <1>3 DEF chain, Include
  <2>2. Registry!TypeOK'
    BY <2>1 DEF ChainInv, Registry!TypeOK
  <2> QED
    BY <1>1, <1>3, <2>1, <2>2
       DEF ChainInv, Settled, Applied, OnChain, Registry!Active, Registry!Exists
<1> QED
  BY <1>2, <1>3 DEF Include

LEMMA ExpireSettles ==
    ASSUME ChainInv, NEW a \in Attempts, Expire(a)
    PROVE  Settled /\ SubmittedKept
<1>1. UNCHANGED <<admin, business, walletIndex, ownerIndex, wallet>>
  BY DEF chain, Expire
<1>2. Registry!TypeOK'
  BY <1>1 DEF ChainInv, Registry!TypeOK
<1> QED
  BY <1>1, <1>2 DEF Expire, ChainInv, Settled, SubmittedKept, Submitted, Applied, OnChain,
                    Registry!Active, Registry!Exists

LEMMA SendSettles ==
    ASSUME ChainInv, TabInv, NEW t \in Tabs, Send(t)
    PROVE  Settled /\ \A a : Submitted(a) /\ a # tab[t].attempt => Submitted(a)'
<1>1. Submitted(tab[t].attempt)
  BY DEF Send, TabInv, Unsent
<1>2. UNCHANGED <<admin, business, walletIndex, ownerIndex, wallet>>
  BY DEF chain, Send
<1>3. Registry!TypeOK'
  BY <1>2 DEF ChainInv, Registry!TypeOK
<1> QED
  BY <1>1, <1>2, <1>3 DEF Send, ChainInv, Settled, Submitted, Applied, OnChain,
                          Registry!Active, Registry!Exists

LEMMA SubmitSettles ==
    ASSUME ChainInv, FlowAssumption, NEW a \in Attempts, NEW w \in Wallets, wallet[a] = None,
           wallet' = [wallet EXCEPT ![a] = w], UNCHANGED <<chain, tx>>
    PROVE  Settled /\ SubmittedKept /\ Submitted(a)'
<1>1. UNCHANGED <<admin, business, walletIndex, ownerIndex>>
  BY DEF chain
<1>2. Registry!TypeOK'
  BY <1>1 DEF ChainInv, Registry!TypeOK
<1>3. tx[a] = "none" /\ w # None
  BY DEF ChainInv, FlowAssumption
<1>4. ASSUME NEW b \in Attempts, tx'[b] = "applied" PROVE OnChain(b)'
  BY <1>1, <1>3, <1>4 DEF ChainInv, OnChain, Registry!Active, Registry!Exists
<1> QED
  BY <1>1, <1>2, <1>3, <1>4 DEF ChainInv, Settled, SubmittedKept, Submitted, Applied

LEMMA OtherAttemptsKept ==
    ASSUME ChainInv, NEW a \in Attempts, Include(a)
    PROVE  SubmittedKept
BY DEF Include, ChainInv, SubmittedKept, Submitted

-----------------------------------------------------------------------------
(* The tabs and the records. *)

\* A tab's state changes; it does not take up an attempt that is not sent.
Moves(t, new) ==
    /\ Set(t, new)
    /\ TabOK(new)
    /\ new.step = "confirmed" => Applied(new.attempt)
    /\ Unsent(new) => Unsent(tab[t]) /\ new.attempt = tab[t].attempt

LEMMA TabMoves ==
    ASSUME TabInv, Settled, SubmittedKept, NEW t \in Tabs, NEW new, Moves(t, new)
    PROVE  TabInv'
<1>1. tab' \in [Tabs -> Tab] /\ tab'[t] = new /\ \A u \in Tabs \ {t} : tab'[u] = tab[u]
  BY DEF Moves, Set, TabInv, TabOK
<1>2. ASSUME NEW u \in Tabs
      PROVE  /\ TabOK(tab'[u])
             /\ tab'[u].step = "confirmed" => Applied(tab'[u].attempt)
             /\ Unsent(tab'[u]) => Unsent(tab[u]) /\ tab'[u].attempt = tab[u].attempt
  BY <1>1 DEF TabInv, Moves
<1>3. \A u \in Tabs : tab'[u].step = "confirmed" => Applied(tab[u].attempt)'
  BY <1>2 DEF Settled, Applied
<1>4. \A u \in Tabs : Unsent(tab'[u]) => Submitted(tab[u].attempt)'
  BY <1>2 DEF SubmittedKept, Submitted, TabInv
<1>5. \A u \in Tabs : TabOK(tab[u])'
  BY <1>2 DEF TabOK
<1>6. \A u, v \in Tabs :
        Unsent(tab'[u]) /\ Unsent(tab'[v]) /\ u # v => tab'[u].attempt # tab'[v].attempt
  BY <1>2 DEF TabInv
<1> QED
  BY <1>1, <1>3, <1>4, <1>5, <1>6 DEF TabInv, Unsent

LEMMA TabsKept ==
    ASSUME TabInv, Settled, SubmittedKept, UNCHANGED tab
    PROVE  TabInv'
BY DEF TabInv, TabOK, Unsent, Settled, SubmittedKept, Applied, Submitted

LEMMA RecordsKept ==
    ASSUME RecordInv, Settled, requests' \subseteq Request,
           \A q \in requests' : Applied(q.attempt) /\ (Done(q) => Stands(q.attempt)),
           UNCHANGED <<profile, others>>
    PROVE  RecordInv'
BY DEF RecordInv, Settled, Applied, Done, Stands

LEMMA RecordsUnchanged ==
    ASSUME RecordInv, Settled, UNCHANGED <<requests, profile, others>>
    PROVE  RecordInv'
BY RecordsKept DEF RecordInv

-----------------------------------------------------------------------------
(* Steps of a tab that leave chain, transactions and attempts alone. *)

LEMMA QuietSteps ==
    ASSUME FlowInv, UNCHANGED <<chain, tx, wallet>>
    PROVE  Settled /\ SubmittedKept /\ ChainInv'
<1>1. Settled
  BY StillSettled DEF FlowInv
<1>2. SubmittedKept
  BY DEF SubmittedKept, Submitted
<1> QED
  BY <1>1, <1>2 DEF Settled

\* A call fails: the tab shows the error.
LEMMA FailedOK ==
    ASSUME FlowInv, NEW t \in Tabs
    PROVE  \E new \in Tab :
               /\ new = Failed(t)
               /\ TabOK(new) /\ new.step = "error" /\ new.job = "none" /\ ~Unsent(new)
<1>1. tab[t] \in Tab
  BY DEF FlowInv, TabInv
<1>2. Failed(t) \in Tab /\ Failed(t).step = "error" /\ Failed(t).job = "none"
  BY <1>1 DEF Failed, Tab
<1> QED
  BY <1>2 DEF TabOK, Unsent

LEMMA CatchOK ==
    ASSUME BoundInv, NEW t \in Tabs, Catch(t)
    PROVE  pending' \in Attempts \cup {None}
BY DEF BoundInv, Catch

LEMMA FaultOK ==
    ASSUME BoundInv, FlowAssumption, Fault
    PROVE  faults' \in 0..MaxFaults
BY DEF BoundInv, FlowAssumption, Fault

\* A request that keeps its attempt stays one of an applied transaction.
LEMMA RequestChanged ==
    ASSUME RecordInv, Settled, UNCHANGED <<profile, others>>,
           \A q \in requests' : /\ q \in Request
                                /\ \E p \in requests : /\ q.attempt = p.attempt
                                                       /\ q.phase = p.phase
    PROVE  RecordInv'
<1>1. \A q \in requests' : Applied(q.attempt) /\ (Done(q) => Stands(q.attempt))
  BY DEF RecordInv, Done
<1> QED
  BY <1>1, RecordsKept DEF RecordInv

LEMMA FailureKeeps ==
    ASSUME FlowInv, NEW t \in Tabs,
           WalletGone(t) \/ SendFails(t) \/ PollFailed(t) \/ PollBreaks(t)
    PROVE  FlowInv'
<1>1. Settled /\ SubmittedKept /\ ChainInv'
  BY QuietSteps DEF WalletGone, SendFails, PollFailed, PollBreaks
<1>2. PICK failed \in Tab :
          failed = Failed(t) /\ TabOK(failed) /\ failed.step = "error" /\ ~Unsent(failed)
  BY FailedOK
<1>3. TabInv'
  <2>1. CASE WalletGone(t)
    <3>1. PICK new \in Tab : new = [failed EXCEPT !.wallet = None]
      BY DEF Tab
    <3>2. new.step = "error" /\ new.job = failed.job /\ new.attempt = failed.attempt
      BY <1>2, <3>1 DEF Tab
    <3>3. TabOK(new) /\ ~Unsent(new)
      BY <1>2, <3>2 DEF TabOK, Unsent
    <3>4. Set(t, new)
      BY <2>1, <1>2, <3>1 DEF WalletGone
    <3> QED
      BY <1>1, <3>2, <3>3, <3>4, TabMoves DEF FlowInv, Moves
  <2>2. CASE SendFails(t) \/ PollFailed(t) \/ PollBreaks(t)
    <3>1. Set(t, failed)
      BY <2>2, <1>2 DEF SendFails, PollFailed, PollBreaks
    <3> QED
      BY <1>1, <1>2, <3>1, TabMoves DEF FlowInv, Moves
  <2> QED
    BY <2>1, <2>2
<1>4. RecordInv'
  BY <1>1, RecordsUnchanged DEF FlowInv, WalletGone, SendFails, PollFailed, PollBreaks
<1>5. pending' \in Attempts \cup {None}
  BY CatchOK DEF FlowInv, BoundInv, WalletGone, SendFails, PollFailed, PollBreaks
<1>6. faults' \in 0..MaxFaults
  BY FaultOK, FlowAssumption
     DEF FlowInv, BoundInv, WalletGone, SendFails, PollFailed, PollBreaks
<1>7. others' = others
  BY DEF WalletGone, SendFails, PollFailed, PollBreaks
<1> QED
  BY <1>1, <1>3, <1>4, <1>5, <1>6, <1>7 DEF FlowInv, BoundInv

LEMMA OpenKeeps ==
    ASSUME FlowInv, NEW t \in Tabs, Open(t)
    PROVE  FlowInv'
<1>1. Settled /\ SubmittedKept /\ ChainInv'
  BY QuietSteps DEF Open
<1>2. \E new \in Tab : Moves(t, new)
  <2>1. CASE Set(t, Fresh)
    <3>1. Fresh \in Tab /\ Fresh.step = "wallet" /\ Fresh.job = "none"
      BY DEF Fresh, Closed, Tab
    <3> QED
      BY <2>1, <3>1 DEF TabOK, Unsent, Moves
  <2>2. CASE pending # None /\ Set(t, [step |-> "submitting", wallet |-> wallet[pending],
                     attempt |-> pending, job |-> "poll", resumed |-> TRUE])
    <3>1. pending \in Attempts /\ wallet[pending] \in Wallets \cup {None}
      BY <2>2 DEF FlowInv, BoundInv, ChainInv
    <3>2. PICK new \in Tab :
              new = [step |-> "submitting", wallet |-> wallet[pending],
                     attempt |-> pending, job |-> "poll", resumed |-> TRUE]
      BY <3>1 DEF Tab
    <3>3. TabOK(new) /\ new.step # "confirmed" /\ ~Unsent(new)
      BY <3>1, <3>2 DEF TabOK, Unsent
    <3> QED
      BY <2>2, <3>2, <3>3 DEF Moves
  <2> QED
    BY <2>1, <2>2 DEF Open
<1>3. TabInv'
  BY <1>1, <1>2, TabMoves DEF FlowInv
<1>4. RecordInv'
  BY <1>1, RecordsUnchanged DEF FlowInv, Open
<1>5. BoundInv'
  BY DEF FlowInv, BoundInv, Open
<1> QED
  BY <1>1, <1>3, <1>4, <1>5 DEF FlowInv

\* The wallet is chosen, the form shown again, or the call tried on the chain.
LEMMA FormKeeps ==
    ASSUME FlowInv, NEW t \in Tabs,
           (\E w \in Wallets : ConnectWallet(t, w)) \/ Retry(t) \/ Prepare(t)
    PROVE  FlowInv'
<1>1. Settled /\ SubmittedKept /\ ChainInv'
  BY QuietSteps DEF ConnectWallet, Retry, Prepare
<1>2. tab[t] \in Tab /\ TabOK(tab[t])
  BY DEF FlowInv, TabInv
<1>3. \E new \in Tab : Moves(t, new)
  <2>1. ASSUME NEW w \in Wallets, ConnectWallet(t, w)
        PROVE  \E new \in Tab : Moves(t, new)
    <3>1. PICK new \in Tab : new = [tab[t] EXCEPT !.step = "details", !.wallet = w]
      BY <1>2 DEF Tab
    <3>2. /\ new.step = "details" /\ new.wallet = w
          /\ new.job = tab[t].job /\ new.attempt = tab[t].attempt
      BY <1>2, <3>1 DEF Tab
    <3>3. Set(t, new)
      BY <2>1, <3>1 DEF ConnectWallet
    <3> QED
      BY <1>2, <3>2, <3>3 DEF TabOK, Unsent, Moves
  <2>2. CASE Retry(t)
    <3>1. PICK new \in Tab :
              new = [tab[t] EXCEPT !.step = IF tab[t].wallet # None THEN "details" ELSE "wallet"]
      BY <1>2 DEF Tab
    <3>2. /\ new.step \in {"details", "wallet"} /\ (new.step = "details" => new.wallet # None)
          /\ new.job = tab[t].job /\ new.attempt = tab[t].attempt
          /\ new.wallet \in Wallets \cup {None}
      BY <1>2, <3>1 DEF Tab
    <3>3. Set(t, new)
      BY <2>2, <3>1 DEF Retry
    <3> QED
      BY <1>2, <3>2, <3>3 DEF TabOK, Unsent, Moves
  <2>3. CASE Prepare(t) /\ Set(t, [tab[t] EXCEPT !.job = "send"])
    <3>1. PICK new \in Tab : new = [tab[t] EXCEPT !.job = "send"]
      BY <1>2 DEF Tab
    <3>2. /\ new.step = tab[t].step /\ new.wallet = tab[t].wallet
          /\ new.job = "send" /\ new.attempt = tab[t].attempt
      BY <1>2, <3>1 DEF Tab
    <3>3. tab[t].job = "prepare" /\ (tab[t].step = "confirmed" => Applied(tab[t].attempt))
      BY <2>3 DEF Prepare, FlowInv, TabInv
    <3> QED
      BY <1>2, <2>3, <3>1, <3>2, <3>3 DEF TabOK, Unsent, Moves
  <2>4. CASE Set(t, Failed(t))
    BY <2>4, FailedOK DEF Moves
  <2> QED
    BY <2>1, <2>2, <2>3, <2>4 DEF Prepare
<1>4. TabInv'
  BY <1>1, <1>3, TabMoves DEF FlowInv
<1>5. RecordInv'
  BY <1>1, RecordsUnchanged DEF FlowInv, ConnectWallet, Retry, Prepare
<1>6. BoundInv'
  BY DEF FlowInv, BoundInv, ConnectWallet, Retry, Prepare
<1> QED
  BY <1>1, <1>4, <1>5, <1>6 DEF FlowInv

\* The attempt becomes the tab's own: nobody had it.
LEMMA SubmitKeeps ==
    ASSUME FlowInv, NEW t \in Tabs, NEW a \in Attempts, Submit(t, a)
    PROVE  FlowInv'
<1>1. tab[t] \in Tab /\ tab[t].wallet \in Wallets
  BY DEF FlowInv, TabInv, TabOK, Submit
<1>2. Settled /\ SubmittedKept /\ Submitted(a)'
  BY <1>1, SubmitSettles, FlowAssumption DEF FlowInv, Submit
<1>3. PICK new \in Tab :
          new = [tab[t] EXCEPT !.step = "submitting", !.attempt = a,
                               !.job = "prepare", !.resumed = FALSE]
  BY <1>1 DEF Tab
<1>4. new.step = "submitting" /\ new.attempt = a /\ new.job = "prepare"
  BY <1>1, <1>3 DEF Tab
<1>5. /\ tab' \in [Tabs -> Tab] /\ tab'[t] = new
      /\ \A u \in Tabs \ {t} : tab'[u] = tab[u]
  BY <1>3 DEF Submit, Set, FlowInv, TabInv
<1>6. \A u \in Tabs : Unsent(tab[u]) => tab[u].attempt # a
  BY DEF Submit, FlowInv, TabInv, Submitted
<1>7. TabInv'
  <2>1. \A u \in Tabs : TabOK(tab'[u])
    BY <1>4, <1>5 DEF FlowInv, TabInv, TabOK
  <2>2. \A u \in Tabs : tab'[u].step = "confirmed" => Applied(tab[u].attempt)'
    BY <1>2, <1>4, <1>5 DEF FlowInv, TabInv, Settled, Applied
  <2>3. \A u \in Tabs : Unsent(tab'[u]) => Submitted(tab[u].attempt)'
    BY <1>2, <1>4, <1>5 DEF FlowInv, TabInv, SubmittedKept, Submitted
  <2>4. \A u, v \in Tabs :
          Unsent(tab'[u]) /\ Unsent(tab'[v]) /\ u # v => tab'[u].attempt # tab'[v].attempt
    BY <1>4, <1>5, <1>6 DEF FlowInv, TabInv
  <2> QED
    BY <1>5, <2>1, <2>2, <2>3, <2>4 DEF TabInv, TabOK, Unsent
<1>8. RecordInv'
  BY <1>2, RecordsUnchanged DEF FlowInv, Submit
<1>9. BoundInv'
  BY DEF FlowInv, BoundInv, Submit
<1> QED
  BY <1>2, <1>7, <1>8, <1>9 DEF FlowInv, Settled

\* The transaction is sent; the tab gives its attempt out of its hands.
LEMMA SendKeeps ==
    ASSUME FlowInv, NEW t \in Tabs, Send(t)
    PROVE  FlowInv'
<1>1. Settled /\ \A a : Submitted(a) /\ a # tab[t].attempt => Submitted(a)'
  BY SendSettles DEF FlowInv
<1>2. tab[t] \in Tab /\ TabOK(tab[t])
  BY DEF FlowInv, TabInv
<1>3. PICK new \in Tab : new = [tab[t] EXCEPT !.job = "sent"]
  BY <1>2 DEF Tab
<1>4. /\ new.step = tab[t].step /\ new.wallet = tab[t].wallet
      /\ new.job = "sent" /\ new.attempt = tab[t].attempt
  BY <1>2, <1>3 DEF Tab
<1>5. /\ tab' \in [Tabs -> Tab] /\ tab'[t] = new
      /\ \A u \in Tabs \ {t} : tab'[u] = tab[u]
  BY <1>3 DEF Send, Set, FlowInv, TabInv
<1>6. Unsent(tab[t]) /\ ~Unsent(new) /\ tab[t].attempt \in Attempts
  BY <1>2, <1>4 DEF Send, Unsent, TabOK
<1>7. \A u \in Tabs : Unsent(tab'[u]) => u # t /\ Unsent(tab[u]) /\ tab'[u] = tab[u]
  BY <1>5, <1>6
<1>8. TabInv'
  <2>1. \A u \in Tabs : TabOK(tab'[u])
    BY <1>2, <1>4, <1>5, <1>6 DEF FlowInv, TabInv, TabOK
  <2>2. \A u \in Tabs : tab'[u].step = "confirmed" => Applied(tab[u].attempt)'
    BY <1>1, <1>4, <1>5 DEF FlowInv, TabInv, Settled, Applied
  <2>3. \A u \in Tabs : Unsent(tab'[u]) => tab[u].attempt # tab[t].attempt
    BY <1>6, <1>7 DEF FlowInv, TabInv
  <2>4. \A u \in Tabs : Unsent(tab'[u]) => Submitted(tab[u].attempt)'
    BY <1>1, <1>7, <2>3 DEF FlowInv, TabInv, Submitted
  <2>5. \A u, v \in Tabs :
          Unsent(tab'[u]) /\ Unsent(tab'[v]) /\ u # v => tab'[u].attempt # tab'[v].attempt
    BY <1>7 DEF FlowInv, TabInv
  <2> QED
    BY <1>5, <2>1, <2>2, <2>4, <2>5 DEF TabInv, TabOK, Unsent
<1>9. RecordInv'
  BY <1>1, RecordsUnchanged DEF FlowInv, Send
<1>10. BoundInv'
  BY DEF FlowInv, BoundInv, Send
<1> QED
  BY <1>1, <1>8, <1>9, <1>10 DEF FlowInv, Settled

LEMMA AcceptedKeeps ==
    ASSUME FlowInv, NEW t \in Tabs, Accepted(t)
    PROVE  FlowInv'
<1>1. Settled /\ SubmittedKept /\ ChainInv'
  BY QuietSteps DEF Accepted
<1>2. tab[t] \in Tab /\ TabOK(tab[t])
  BY DEF FlowInv, TabInv
<1>3. PICK new \in Tab : new = [tab[t] EXCEPT !.job = "poll"]
  BY <1>2 DEF Tab
<1>4. /\ new.step = tab[t].step /\ new.wallet = tab[t].wallet
      /\ new.job = "poll" /\ new.attempt = tab[t].attempt
  BY <1>2, <1>3 DEF Tab
<1>5. tab[t].attempt \in Attempts /\ (tab[t].step = "confirmed" => Applied(tab[t].attempt))
  BY <1>2 DEF Accepted, TabOK, FlowInv, TabInv
<1>6. Moves(t, new)
  BY <1>2, <1>3, <1>4, <1>5 DEF Moves, TabOK, Unsent, Accepted
<1>7. TabInv'
  BY <1>1, <1>6, TabMoves DEF FlowInv
<1>8. RecordInv'
  BY <1>1, RecordsUnchanged DEF FlowInv, Accepted
<1>9. BoundInv'
  BY <1>5 DEF FlowInv, BoundInv, Accepted
<1> QED
  BY <1>1, <1>7, <1>8, <1>9 DEF FlowInv

\* The transaction is applied: the tab confirms it and posts the record.
LEMMA PollKeeps ==
    ASSUME FlowInv, NEW t \in Tabs, Poll(t)
    PROVE  FlowInv'
<1>1. Settled /\ SubmittedKept /\ ChainInv'
  BY QuietSteps DEF Poll
<1>2. tab[t] \in Tab /\ TabOK(tab[t])
  BY DEF FlowInv, TabInv
<1>3. PICK new \in Tab : new = [tab[t] EXCEPT !.step = "confirmed", !.job = "post"]
  BY <1>2 DEF Tab
<1>4. /\ new.step = "confirmed" /\ new.job = "post" /\ new.attempt = tab[t].attempt
  BY <1>2, <1>3 DEF Tab
<1>5. Applied(tab[t].attempt)
  BY <1>2 DEF Poll, PollSucceeds, TabOK, Applied
<1>6. Moves(t, new)
  BY <1>3, <1>4, <1>5 DEF Moves, TabOK, Unsent, Poll, Applied
<1>7. TabInv'
  BY <1>1, <1>6, TabMoves DEF FlowInv
<1>8. RecordInv'
  <2>1. [tab |-> t, attempt |-> tab[t].attempt, phase |-> "check"] \in Request
    BY <1>5 DEF Request, Applied
  <2> QED
    BY <1>1, <1>5, <2>1, RecordsKept DEF FlowInv, RecordInv, Poll, Done
<1>9. BoundInv'
  BY DEF FlowInv, BoundInv, Poll
<1> QED
  BY <1>1, <1>7, <1>8, <1>9 DEF FlowInv

LEMMA OrphanOK ==
    ASSUME NEW q \in Request
    PROVE  Orphan(q) \in Request /\ Orphan(q).attempt = q.attempt /\ Orphan(q).phase = q.phase
BY DEF Orphan, Request

\* The POST is over for the tab.
LEMMA PostKeeps ==
    ASSUME FlowInv, NEW t \in Tabs, NEW q \in requests, Answered(t, q) \/ PostBreaks(t, q)
    PROVE  FlowInv'
<1>1. Settled /\ SubmittedKept /\ ChainInv'
  BY QuietSteps DEF Answered, PostBreaks
<1>2. tab[t] \in Tab /\ TabOK(tab[t])
  BY DEF FlowInv, TabInv
<1>3. PICK new \in Tab : new = [tab[t] EXCEPT !.job = "none"]
  BY <1>2 DEF Tab
<1>4. /\ new.step = tab[t].step /\ new.wallet = tab[t].wallet
      /\ new.job = "none" /\ new.attempt = tab[t].attempt
  BY <1>2, <1>3 DEF Tab
<1>5. tab[t].step = "confirmed" => Applied(tab[t].attempt)
  BY DEF FlowInv, TabInv
<1>6. Moves(t, new)
  BY <1>2, <1>3, <1>4, <1>5 DEF Moves, TabOK, Unsent, Answered, PostBreaks
<1>7. TabInv'
  BY <1>1, <1>6, TabMoves DEF FlowInv
<1>8. RecordInv'
  <2>1. /\ requests \subseteq Request /\ Orphan(q) \in Request
        /\ Orphan(q).attempt = q.attempt /\ Orphan(q).phase = q.phase
    BY OrphanOK DEF FlowInv, RecordInv
  <2> QED
    BY <1>1, <2>1, RequestChanged DEF FlowInv, Answered, PostBreaks
<1>9. pending' \in Attempts \cup {None}
  BY CatchOK DEF FlowInv, Answered, PostBreaks
<1>10. faults' \in 0..MaxFaults
  BY FaultOK, FlowAssumption DEF FlowInv, BoundInv, Answered, PostBreaks
<1>11. others' = others
  BY DEF Answered, PostBreaks
<1> QED
  BY <1>1, <1>7, <1>8, <1>9, <1>10, <1>11 DEF FlowInv, BoundInv

LEMMA CloseKeeps ==
    ASSUME FlowInv, NEW t \in Tabs, Close(t)
    PROVE  FlowInv'
<1>1. Settled /\ SubmittedKept /\ ChainInv'
  BY QuietSteps DEF Close
<1>2. Closed \in Tab /\ Closed.step = "closed" /\ Closed.job = "none"
  BY DEF Closed, Tab
<1>3. Moves(t, Closed)
  BY <1>2 DEF Moves, TabOK, Unsent, Close
<1>4. TabInv'
  BY <1>1, <1>3, TabMoves DEF FlowInv
<1>5. RecordInv'
  <2>1. \A q \in requests : q \in Request /\ Orphan(q) \in Request
                            /\ Orphan(q).attempt = q.attempt /\ Orphan(q).phase = q.phase
    BY OrphanOK DEF FlowInv, RecordInv
  <2>2. requests' = {IF q.tab = t THEN Orphan(q) ELSE q : q \in requests}
    BY DEF Close
  <2>3. \A q \in requests' :
          q \in Request /\ \E p \in requests : q.attempt = p.attempt /\ q.phase = p.phase
    BY <2>1, <2>2
  <2> QED
    BY <1>1, <2>3, RequestChanged DEF FlowInv, Close
<1>6. BoundInv'
  BY FaultOK, FlowAssumption DEF FlowInv, BoundInv, Close
<1> QED
  BY <1>1, <1>4, <1>5, <1>6 DEF FlowInv

-----------------------------------------------------------------------------
(* Steps of the route and the network. *)

LEMMA RouteKeeps ==
    ASSUME FlowInv, NEW q \in requests, Check(q) \/ Create(q) \/ ServerFails(q)
    PROVE  FlowInv'
<1>1. Settled /\ SubmittedKept /\ ChainInv'
  BY QuietSteps DEF Check, Create, ServerFails
<1>2. TabInv'
  BY <1>1, TabsKept DEF FlowInv, Check, Create, ServerFails
<1>3. q \in Request /\ Applied(q.attempt) /\ q.attempt \in Attempts
  BY DEF FlowInv, RecordInv, Applied
<1>4. PICK phase \in {"create", "ok", "conflict", "error"} :
          /\ Becomes(q, phase)
          /\ phase \in {"ok", "conflict"} => profile' # None \/ wallet[q.attempt] \in others
  <2>1. CASE Check(q) /\ profile = q.attempt
    BY <1>3, <2>1, FlowAssumption DEF Check, FlowAssumption
  <2>2. CASE Check(q) /\ profile # q.attempt /\ (profile # None \/ Taken(q))
    BY <2>2 DEF Check, Taken
  <2>3. CASE Check(q) /\ profile = None /\ ~Taken(q)
    BY <1>3, <2>3, FlowAssumption DEF Check, FlowAssumption
  <2>4. CASE Create(q)
    BY <1>3, <2>4, FlowAssumption DEF Create, FlowAssumption
  <2>5. CASE ServerFails(q)
    BY <2>5 DEF ServerFails
  <2> QED
    BY <2>1, <2>2, <2>3, <2>4, <2>5
<1>5. PICK new \in Request : new = [q EXCEPT !.phase = phase]
  BY <1>3 DEF Request
<1>6. requests' = (requests \ {q}) \cup {new}
  BY <1>4, <1>5 DEF Becomes
<1>7. new.attempt = q.attempt /\ profile' \in {profile, q.attempt}
  BY <1>3, <1>5 DEF Request, Check, Create, ServerFails
<1>8. /\ profile # None => profile' # None
      /\ UNCHANGED <<wallet, others>>
  BY DEF Check, Create, ServerFails
<1>9. Done(new) => Stands(new.attempt)'
  BY <1>3, <1>4, <1>5, <1>7, <1>8 DEF Done, Request, Stands
<1>10. \A p \in requests : Done(p) => Stands(p.attempt)'
  BY <1>8 DEF FlowInv, RecordInv, Stands
<1>11. RecordInv'
  BY <1>1, <1>3, <1>6, <1>7, <1>8, <1>9, <1>10
     DEF FlowInv, RecordInv, Settled, Applied, Done
<1>12. BoundInv'
  BY FaultOK, FlowAssumption DEF FlowInv, BoundInv, Check, Create, ServerFails
<1> QED
  BY <1>1, <1>2, <1>11, <1>12 DEF FlowInv

\* Another user takes a wallet: what stood before stands.
LEMMA OthersKeep ==
    ASSUME FlowInv, NEW w \in Wallets, OtherRegisters(w)
    PROVE  FlowInv'
<1>1. Settled /\ SubmittedKept /\ ChainInv'
  BY QuietSteps DEF OtherRegisters
<1>2. TabInv'
  BY <1>1, TabsKept DEF FlowInv, OtherRegisters
<1>3. RecordInv'
  <2>1. \A a : Stands(a) => Stands(a)'
    BY DEF OtherRegisters, Stands
  <2> QED
    BY <1>1, <2>1 DEF FlowInv, RecordInv, OtherRegisters, Settled, Applied, Done
<1>4. BoundInv'
  BY DEF FlowInv, BoundInv, OtherRegisters
<1> QED
  BY <1>1, <1>2, <1>3, <1>4 DEF FlowInv

LEMMA NetworkKeeps ==
    ASSUME FlowInv, NEW a \in Attempts, Include(a) \/ Expire(a)
    PROVE  FlowInv'
<1>1. Settled /\ SubmittedKept
  BY IncludeSettles, ExpireSettles, OtherAttemptsKept DEF FlowInv
<1>2. TabInv'
  BY <1>1, TabsKept DEF FlowInv, Include, Expire
<1>3. RecordInv'
  BY <1>1, RecordsUnchanged DEF FlowInv, Include, Expire
<1>4. BoundInv'
  BY DEF FlowInv, BoundInv, Include, Expire
<1> QED
  BY <1>1, <1>2, <1>3, <1>4 DEF FlowInv, Settled

-----------------------------------------------------------------------------

LEMMA Init_FlowInv == Init => FlowInv
<1> SUFFICES ASSUME Init PROVE FlowInv
  OBVIOUS
<1>1. ChainInv
  BY DEF Init, ChainInv, Registry!Init, Registry!TypeOK
<1>2. Closed \in Tab /\ Closed.step = "closed" /\ Closed.job = "none"
  BY DEF Closed, Tab
<1>3. TabInv
  BY <1>2 DEF Init, TabInv, TabOK, Unsent
<1>4. RecordInv /\ BoundInv
  BY FlowAssumption DEF Init, RecordInv, BoundInv, FlowAssumption
<1> QED
  BY <1>1, <1>3, <1>4 DEF FlowInv

LEMMA Next_FlowInv == FlowInv /\ [Next]_vars => FlowInv'
<1> SUFFICES ASSUME FlowInv, [Next]_vars PROVE FlowInv'
  OBVIOUS
<1>1. ASSUME NEW t \in Tabs, User(t) \/ FlowStep(t) PROVE FlowInv'
  BY <1>1, OpenKeeps, FormKeeps, SubmitKeeps, CloseKeeps, SendKeeps, AcceptedKeeps,
     PollKeeps, FailureKeeps DEF User, FlowStep
<1>2. ASSUME NEW t \in Tabs, WalletGone(t) \/ SendFails(t) \/ PollBreaks(t) PROVE FlowInv'
  BY <1>2, FailureKeeps
<1>3. ASSUME NEW t \in Tabs, NEW q \in requests, Answered(t, q) \/ PostBreaks(t, q)
      PROVE  FlowInv'
  BY <1>3, PostKeeps
<1>4. ASSUME NEW q \in requests, Check(q) \/ Create(q) \/ ServerFails(q) PROVE FlowInv'
  BY <1>4, RouteKeeps
<1>5. ASSUME NEW a \in Attempts, Include(a) \/ Expire(a) PROVE FlowInv'
  BY <1>5, NetworkKeeps
<1>6. ASSUME NEW w \in Wallets, OtherRegisters(w) PROVE FlowInv'
  BY <1>6, OthersKeep
<1>7. CASE UNCHANGED vars
  <2>1. UNCHANGED <<chain, tx, wallet, pending, tab, requests, profile, others, faults>>
    BY <1>7 DEF vars
  <2>2. Settled /\ SubmittedKept /\ ChainInv'
    BY <2>1, QuietSteps
  <2> QED
    BY <2>1, <2>2, TabsKept, RecordsUnchanged DEF FlowInv, BoundInv
<1> QED
  BY <1>1, <1>2, <1>3, <1>4, <1>5, <1>6, <1>7 DEF Next

(* Every variable of the flow keeps its type: no tab, request or pending    *)
(* registration names what was never an attempt.                            *)
THEOREM TypeCorrect == Spec => []TypeOK
<1>1. FlowInv => TypeOK
  BY DEF FlowInv, ChainInv, TabInv, RecordInv, BoundInv, Applied, TypeOK
<1> QED
  BY Init_FlowInv, Next_FlowInv, <1>1, PTL DEF Spec

(* A registration that a tab shows as confirmed, and the user's row in the  *)
(* database, stand for a business that the contract registered on the       *)
(* wallet the user submitted, however many tabs, attempts and failures      *)
(* there are, and whichever tab takes up the pending registration.          *)
THEOREM ConfirmedIsOnChain == Spec => []ChainFirst
<1>1. FlowInv => ChainFirst
  BY DEF FlowInv, ChainInv, TabInv, RecordInv, Applied, ChainFirst
<1> QED
  BY Init_FlowInv, Next_FlowInv, <1>1, PTL DEF Spec

(* The registration that is pending stops being so only by the step of a    *)
(* tab with a reason of its own: its POST was answered when a row stood, it *)
(* gives up a registration it had resumed, it opens and finds one too old,  *)
(* or the network accepts its transaction, which takes the place.           *)
THEOREM ForgottenLate == Spec => ForgottenWhenSettled
<1> DEFINE Settles ==
        pending # None /\ pending' # pending =>
            \E t \in Tabs :
                /\ tab'[t] # tab[t]
                /\ AnswerEnds(t) \/ ResumeGivesUp(t) \/ FindsOld(t) \/ TakesPlace(t)
<1>1. FlowInv /\ [Next]_vars => [Settles]_vars
  <2> SUFFICES ASSUME FlowInv, Next, pending # None, pending' # pending
               PROVE  Settles
    BY DEF vars
  <2>1. /\ tab \in [Tabs -> Tab]
        /\ \A t \in Tabs : tab[t] \in Tab
    BY DEF FlowInv, TabInv
  <2>2. ASSUME NEW t \in Tabs, Open(t) PROVE tab'[t] # tab[t] /\ FindsOld(t)
    <3>1. tab'[t] = Fresh /\ tab[t].step = "closed" /\ tx[pending] # "sent" /\ pending' = None
      BY <2>1, <2>2 DEF Open, Set
    <3>2. Fresh.step = "wallet"
      BY DEF Fresh, Closed
    <3> QED
      BY <3>1, <3>2 DEF FindsOld
  <2>3. ASSUME NEW t \in Tabs, PollFailed(t) \/ PollBreaks(t)
        PROVE  tab'[t] # tab[t] /\ ResumeGivesUp(t)
    <3>1. tab[t].resumed /\ Set(t, Failed(t)) /\ pending' = None /\ tab[t].job = "poll"
      BY <2>3 DEF PollFailed, PollBreaks, Catch
    <3>2. tab'[t].job = "none"
      BY <2>1, <3>1, FailedOK DEF Set
    <3> QED
      BY <3>1, <3>2 DEF ResumeGivesUp
  <2>4. ASSUME NEW t \in Tabs, NEW q \in requests, Answered(t, q) \/ PostBreaks(t, q)
        PROVE  tab'[t] # tab[t] /\ (AnswerEnds(t) \/ ResumeGivesUp(t))
    <3>1. tab[t].job = "post" /\ Set(t, [tab[t] EXCEPT !.job = "none"])
      BY <2>4 DEF Answered, PostBreaks
    <3>2. tab'[t].job = "none"
      BY <2>1, <3>1 DEF Set, Tab
    <3>3. CASE Answered(t, q) /\ q.phase # "error"
      <4>1. Done(q) /\ q.tab = t /\ q \notin requests' /\ pending' = None
        BY <3>3 DEF Answered, Done
      <4>2. RowStands(q)
        BY <4>1 DEF FlowInv, RecordInv, RowStands, Stands, Taken
      <4> QED
        BY <3>1, <3>2, <4>1, <4>2 DEF AnswerEnds
    <3>4. CASE Catch(t)
      BY <3>1, <3>2, <3>4 DEF Catch, ResumeGivesUp
    <3> QED
      BY <2>4, <3>3, <3>4 DEF Answered, PostBreaks
  <2>5. ASSUME NEW t \in Tabs, Accepted(t) PROVE tab'[t] # tab[t] /\ TakesPlace(t)
    <3>1. tab'[t] = [tab[t] EXCEPT !.job = "poll"] /\ tab[t].job = "sent"
      BY <2>1, <2>5 DEF Accepted, Set
    <3>2. tab'[t].job = "poll"
      BY <2>1, <3>1 DEF Tab
    <3> QED
      BY <2>5, <3>1, <3>2 DEF Accepted, TakesPlace
  <2>6. CASE UNCHANGED pending
    BY <2>6
  <2> QED
    BY <2>2, <2>3, <2>4, <2>5, <2>6
       DEF Next, User, FlowStep, Retry, Close, ConnectWallet, Submit, Prepare, Send, Poll,
           WalletGone, SendFails, Check, Create, ServerFails, Include, Expire, OtherRegisters
<1> QED
  BY Init_FlowInv, Next_FlowInv, <1>1, PTL DEF Spec, ForgottenWhenSettled
=============================================================================
