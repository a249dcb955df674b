-------------------------- MODULE LedgerSyncProofs --------------------------
(***************************************************************************)
(* Proofs about the ledger sync job and the replay of dead letters, for    *)
(* any replicas, replays, chains, page sizes, lag and failures.  The       *)
(* argument: a cycle owes its wallet the transactions above the checkpoint *)
(* it read and below the ledger it began at; each of them is in the page   *)
(* it holds, older than its cursor, or has its outcome on record.  Both    *)
(* cursors only ever move past what is settled, no other process takes an  *)
(* outcome back (Grows), and ledgers close in order, so a new transaction  *)
(* is owed by no cycle under way.                                          *)
(***************************************************************************)
EXTENDS LedgerSync, FiniteSetTheorems, SequenceTheorems, WellFoundedInduction, TLAPS

(* A set of natural numbers that is not empty has a least element.         *)
LEMMA LeastOf ==
    ASSUME NEW S \in SUBSET Nat, S # {}
    PROVE  Min(S) \in S /\ \A y \in S : Min(S) <= y
<1> DEFINE R == {ss \in Nat \X Nat : ss[1] < ss[2]}
<1>0. IsWellFoundedOn(R, Nat)
  BY NatLessThanWellFounded DEF OpToRel
<1>1. PICK x \in S : \A y \in S : ~(<<y, x>> \in R)
  <2> HIDE DEF R
  <2> QED BY <1>0, WFMin
<1>2. \A y \in S : x <= y
  <2>1. SUFFICES ASSUME NEW y \in S, y < x PROVE FALSE
    OBVIOUS
  <2>2. <<y, x>> \in R
    BY <2>1
  <2> QED
    BY <1>1, <2>2
<1> QED
  BY <1>2 DEF Min

(* And one that is bounded has a greatest.                                 *)
LEMMA GreatestOf ==
    ASSUME NEW n \in Nat, NEW S \in SUBSET (0..n), S # {}
    PROVE  Max(S) \in S /\ \A y \in S : y <= Max(S)
<1> DEFINE T == {n - x : x \in S}
<1>0. \A x \in S : x \in Nat /\ x <= n /\ n - x \in Nat
  OBVIOUS
<1>1. T \in SUBSET Nat
  BY <1>0
<1>2. T # {}
  OBVIOUS
<1>3. Min(T) \in T /\ \A y \in T : Min(T) <= y
  <2> HIDE DEF T
  <2> QED BY <1>1, <1>2, LeastOf
<1>4. PICK x \in S : Min(T) = n - x
  BY <1>3
<1>5. \A y \in S : x >= y
  <2> SUFFICES ASSUME NEW y \in S PROVE x >= y
    OBVIOUS
  <2>1. n - x <= n - y
    BY <1>3, <1>4
  <2> QED
    BY <2>1, <1>0
<1> QED
  BY <1>0, <1>5 DEF Max

-----------------------------------------------------------------------------
(* The inductive invariant.                                                *)

\* Ledgers close one after the other.
InOrder ==
    \A i, j \in 1..Len(chain) : i <= j => Ledger(i) <= Ledger(j) /\ Ledger(j) <= height

\* A transaction on the chain, and a wallet.
Known(i, w) == i \in 1..Len(chain) /\ w \in Wallets

\* Wallet w's events of payment k are stored, and of the first n payments, or no
\* row named the wallet when one of them was indexed.
Paid(i, w, k) ==
    \/ <<i, w>> \in missed
    \/ \A d \in Directions :
           Supported(i, k) /\ Party(i, k, d) = w =>
               row[<<i, "own", d>>] \in {k} \cup Rivals(i, k, d)

PaidTo(i, w, n) == \A k \in Relevant(i, w) : k <= n => Paid(i, w, k)

Stored(i, w) == Indexed(i, w) \/ <<i, w>> \in missed

Outcome(i, w) == Accounted(i, w) \/ Excused(i, w)

\* A stored event is that of a payment of its transaction which derives its id.
RowOK(id) ==
    row[id] # 0 =>
        /\ id[1] \in 1..Len(chain)
        /\ row[id] \in 1..Len(chain[id[1]].payments)
        /\ Supported(id[1], row[id]) /\ Party(id[1], row[id], id[3]) \in Wallets

RowsOK == \A id \in EventId : RowOK(id)

\* Transaction i is one that a cycle owes wallet w.
Due(c, i, w) ==
    Touches(i, w) /\ c.last < Ledger(i) /\ Ledger(i) <= c.latest

\* Where a cycle is, and what it holds there.
StageOK(c) ==
    /\ c.phase = "idle" => c = IdleCycle
    /\ c.phase = "begin" => c.visited = {}
    /\ c.phase # "cycle" => c.wallets = {}
    /\ c.wallets = {} => c.txs = {} /\ c.before = MaxTxs + 1
    /\ c.txs = {} => c.paid = 0
    /\ c.latest <= height

\* The wallets gone through are covered.
VisitedOK(c) ==
    \A w \in c.visited : \A i \in 1..Len(chain) : Due(c, i, w) => Outcome(i, w)

\* Of the present wallet's transactions the cycle has those it holds and the
\* older ones before it.
RestOK(c) ==
    c.wallets # {} =>
        \A i \in 1..Len(chain) :
            Due(c, i, Min(c.wallets)) =>
                i \in c.txs \/ i < c.before \/ Outcome(i, Min(c.wallets))

\* The transactions it holds are the wallet's, and the newest is indexed as far
\* as the cycle has come.
TxsOK(c) ==
    c.wallets # {} =>
        /\ \A i \in c.txs : i \in 1..Len(chain) /\ Touches(i, Min(c.wallets))
        /\ c.txs # {} =>
               /\ PaidTo(Max(c.txs), Min(c.wallets), c.paid)
               /\ Unpaid(Max(c.txs), Min(c.wallets), c.paid) # {}

CycleOK(c) == StageOK(c) /\ VisitedOK(c) /\ RestOK(c) /\ TxsOK(c)

CyclesOK == \A r \in Replicas : CycleOK(cycle[r])

ErrorsOK ==
    \A e \in 1..Len(errors) :
        /\ Known(errors[e].tx, errors[e].wallet)
        /\ errors[e].resolved =>
               Stored(errors[e].tx, errors[e].wallet) \/ chain[errors[e].tx].bump

\* A replay finds its transaction and has indexed it as far as it says, fee
\* bumps apart.
JobOK(j) ==
    \/ j = IdleJob
    \/ /\ j.error \in 1..Len(errors)
       /\ \/ chain[errors[j.error].tx].bump
          \/ j.found /\ PaidTo(errors[j.error].tx, errors[j.error].wallet, j.paid)

JobsOK == \A p \in Replayers : JobOK(job[p])

SyncInv == TypeOK /\ InOrder /\ RowsOK /\ CyclesOK /\ ErrorsOK /\ JobsOK

-----------------------------------------------------------------------------
(* What no step takes back.                                                *)

Grows ==
    /\ Len(chain) <= Len(chain')
    /\ \A i \in 1..Len(chain) : chain'[i] = chain[i]
    /\ \A i \in 1..Len(chain') : i > Len(chain) => chain'[i].ledger > height
    /\ height <= height'
    /\ \A id \in EventId : row[id] # 0 => row'[id] = row[id]
    /\ Len(errors) <= Len(errors')
    /\ \A e \in 1..Len(errors) :
           errors'[e].tx = errors[e].tx /\ errors'[e].wallet = errors[e].wallet
    /\ logged \subseteq logged' /\ missed \subseteq missed'

(* The constants that are numbers.                                         *)
LEMMA Numbers ==
    /\ NumWallets \in Nat /\ MAX_RETRIES \in Nat /\ MaxLag \in Nat
    /\ MaxTxs \in Nat /\ MaxLedger \in Nat
    /\ MaxFailures \in Nat /\ MaxChanges \in Nat
    /\ TxPageSize \in Nat \ {0} /\ WalletPageSize \in Nat \ {0}
BY SyncAssumption

(* The lengths of the chain and of the dead letters.                       *)
LEMMA Lengths ==
    ASSUME TypeOK, TypeOK'
    PROVE  /\ Len(chain) \in Nat /\ Len(chain') \in Nat
           /\ Len(errors) \in Nat /\ Len(errors') \in Nat
<1>1. chain \in Seq(Entry) /\ chain' \in Seq(Entry)
  BY DEF TypeOK
<1>2. errors \in Seq(DeadLetterRow) /\ errors' \in Seq(DeadLetterRow)
  BY DEF TypeOK
<1> QED
  BY <1>1, <1>2, LenProperties

(* A transaction stays as it is.                                           *)
LEMMA ChainKept ==
    ASSUME TypeOK, TypeOK', Grows, NEW i \in 1..Len(chain)
    PROVE  /\ i \in 1..Len(chain')
           /\ chain'[i].bump = chain[i].bump
           /\ Len(chain'[i].payments) = Len(chain[i].payments)
           /\ Ledger(i)' = Ledger(i)
           /\ \A k : Supported(i, k)' = Supported(i, k)
           /\ \A k, d : Party(i, k, d)' = Party(i, k, d)
           /\ \A k, d : Rivals(i, k, d)' = Rivals(i, k, d)
           /\ \A w : Relevant(i, w)' = Relevant(i, w)
           /\ \A w : Touches(i, w)' = Touches(i, w)
<1>1. chain'[i] = chain[i] /\ i \in 1..Len(chain')
  BY Lengths DEF Grows
<1>2. /\ \A k, d : Party(i, k, d)' = Party(i, k, d)
      /\ \A k : Supported(i, k)' = Supported(i, k)
  BY <1>1 DEF Party, Supported
<1>3. \A w : Relevant(i, w)' = Relevant(i, w)
  BY <1>1, <1>2 DEF Relevant
<1>4. \A k, d : Rivals(i, k, d)' = Rivals(i, k, d)
  BY <1>1, <1>2 DEF Rivals
<1> QED
  BY <1>1, <1>2, <1>3, <1>4 DEF Ledger, Touches

(* A wallet's events are stored when those of each payment are.            *)
LEMMA StoredIffPaid ==
    ASSUME NEW i, NEW w
    PROVE  /\ Stored(i, w) <=> \A k \in Relevant(i, w) : Paid(i, w, k)
           /\ Stored(i, w)' <=> \A k \in Relevant(i, w)' : Paid(i, w, k)'
           /\ Stored(i, w) => Outcome(i, w)
<1>1. Stored(i, w) <=> \A k \in Relevant(i, w) : Paid(i, w, k)
  BY DEF Stored, Indexed, Paid
<1>2. Stored(i, w)' <=> \A k \in Relevant(i, w)' : Paid(i, w, k)'
  BY DEF Stored, Indexed, Paid
<1> QED
  BY <1>1, <1>2 DEF Stored, Outcome, Accounted, Excused

(* The events of a dead letter's transaction and wallet.                   *)
LEMMA StoredOfLetter ==
    ASSUME NEW e, NEW i, NEW w, errors'[e].tx = i, errors'[e].wallet = w, Stored(i, w)'
    PROVE  Stored(errors[e].tx, errors[e].wallet)'
<1>1. \A k, d : Party(errors[e].tx, k, d)' = Party(i, k, d)'
  BY DEF Party
<1>2. \A k : Supported(errors[e].tx, k)' = Supported(i, k)'
  BY DEF Supported
<1>3. \A k, d : Rivals(errors[e].tx, k, d)' = Rivals(i, k, d)'
  BY <1>1, <1>2 DEF Rivals
<1>4. Relevant(errors[e].tx, errors[e].wallet)' = Relevant(i, w)'
  BY <1>1 DEF Relevant
<1> QED
  BY <1>1, <1>2, <1>3, <1>4 DEF Stored, Indexed

(* Stored events stay stored.                                              *)
LEMMA PaidKept ==
    ASSUME TypeOK, TypeOK', Grows, NEW i \in 1..Len(chain), NEW w, NEW n
    PROVE  /\ \A k \in Relevant(i, w) : Paid(i, w, k) => Paid(i, w, k)'
           /\ PaidTo(i, w, n) => PaidTo(i, w, n)'
           /\ Stored(i, w) => Stored(i, w)'
<1>0. i \in 1..MaxTxs
  <2>1. Len(chain) <= MaxTxs
    BY DEF TypeOK
  <2> QED
    BY <2>1, Lengths, Numbers
<1>1. ASSUME NEW k \in Relevant(i, w), Paid(i, w, k)
      PROVE  Paid(i, w, k)'
  <2>1. CASE <<i, w>> \in missed
    BY <2>1 DEF Paid, Grows
  <2>2. CASE <<i, w>> \notin missed
    <3> SUFFICES ASSUME NEW d \in Directions, Supported(i, k)', Party(i, k, d)' = w
                 PROVE  row'[<<i, "own", d>>] \in {k} \cup Rivals(i, k, d)'
      BY DEF Paid
    <3>1. row[<<i, "own", d>>] \in {k} \cup Rivals(i, k, d)
      BY <1>1, <2>2, ChainKept DEF Paid
    <3>2. row[<<i, "own", d>>] # 0
      BY <3>1 DEF Relevant, Rivals
    <3>3. <<i, "own", d>> \in EventId
      BY <1>0 DEF EventId, Hashes
    <3> QED
      BY <3>1, <3>2, <3>3, ChainKept DEF Grows
  <2> QED
    BY <2>1, <2>2
<1>2. Relevant(i, w)' = Relevant(i, w)
  BY ChainKept
<1>3. PaidTo(i, w, n) => PaidTo(i, w, n)'
  BY <1>1, <1>2 DEF PaidTo
<1> QED
  BY <1>1, <1>2, <1>3, StoredIffPaid

(* And the outcome of a transaction stays on record.                       *)
LEMMA OutcomeKept ==
    ASSUME TypeOK, TypeOK', Grows, NEW i \in 1..Len(chain), NEW w, Outcome(i, w)
    PROVE  Outcome(i, w)'
<1>1. CASE Stored(i, w)
  <2>1. Stored(i, w)'
    BY <1>1, PaidKept
  <2> QED
    BY <2>1 DEF Stored, Outcome, Accounted, Excused
<1>2. CASE DeadLettered(i, w)
  <2>1. PICK e \in 1..Len(errors) : errors[e].tx = i /\ errors[e].wallet = w
    BY <1>2 DEF DeadLettered
  <2>2. e \in 1..Len(errors') /\ errors'[e].tx = i /\ errors'[e].wallet = w
    BY <2>1, Lengths DEF Grows
  <2> QED
    BY <2>2 DEF Outcome, Accounted, DeadLettered
<1>3. CASE <<i, w>> \in logged
  BY <1>3 DEF Outcome, Excused, Grows
<1> QED
  BY <1>1, <1>2, <1>3 DEF Outcome, Accounted, Excused, Stored

(* A cycle that does nothing keeps its part of the invariant.              *)
LEMMA CycleKept ==
    ASSUME TypeOK, TypeOK', Grows, NEW c \in Cycle, CycleOK(c)
    PROVE  CycleOK(c)'
<1>0. c.wallets # {} => Min(c.wallets) \in c.wallets
  BY LeastOf DEF Cycle, Wallets
<1>1. StageOK(c)'
  <2>1. c.latest <= height'
    <3>0. c.latest \in 0..MaxLedger
      BY DEF Cycle
    <3>1. c.latest \in Int /\ height \in Int /\ height' \in Int
      BY <3>0, Numbers DEF TypeOK
    <3> QED
      BY <3>1 DEF CycleOK, StageOK, Grows
  <2> QED
    BY <2>1 DEF CycleOK, StageOK
<1>2. ASSUME NEW i \in 1..Len(chain'), NEW w, Due(c, i, w)'
      PROVE  i \in 1..Len(chain) /\ Due(c, i, w)
  <2>1. c.latest <= height /\ c.latest \in Nat /\ height \in Nat
    BY Numbers DEF CycleOK, StageOK, TypeOK, Cycle
  <2>2. i \in 1..Len(chain)
    <3>0. chain'[i].ledger \in 1..MaxLedger
      <4>1. chain' \in Seq(Entry)
        BY DEF TypeOK
      <4>2. chain'[i] \in Entry
        BY <4>1, ElementOfSeq
      <4> QED
        BY <4>2 DEF Entry
    <3>1. chain'[i].ledger <= c.latest /\ chain'[i].ledger \in Int
      BY <3>0, <1>2, Numbers DEF Due, Ledger
    <3>2. ~(i > Len(chain))
      BY <3>1, <2>1 DEF Grows
    <3> QED
      BY <3>2 DEF TypeOK
  <2> QED
    BY <2>2, <1>2, ChainKept DEF Due
<1>3. VisitedOK(c)'
  BY <1>2, OutcomeKept DEF CycleOK, VisitedOK
<1>4. RestOK(c)'
  BY <1>2, OutcomeKept DEF CycleOK, RestOK
<1>5. TxsOK(c)'
  <2> SUFFICES ASSUME c.wallets # {}
               PROVE  /\ \A i \in c.txs : i \in 1..Len(chain') /\ Touches(i, Min(c.wallets))'
                      /\ c.txs # {} =>
                             /\ PaidTo(Max(c.txs), Min(c.wallets), c.paid)'
                             /\ Unpaid(Max(c.txs), Min(c.wallets), c.paid)' # {}
    BY DEF TxsOK
  <2>1. \A i \in c.txs : i \in 1..Len(chain') /\ Touches(i, Min(c.wallets))'
    BY ChainKept DEF CycleOK, TxsOK
  <2>2. c.txs # {} => Max(c.txs) \in c.txs
    <3>1. c.txs \in SUBSET (0..MaxTxs) /\ MaxTxs \in Nat
      BY SyncAssumption DEF Cycle
    <3> QED
      BY <3>1, GreatestOf
  <2>3. ASSUME c.txs # {}
        PROVE  /\ PaidTo(Max(c.txs), Min(c.wallets), c.paid)'
               /\ Unpaid(Max(c.txs), Min(c.wallets), c.paid)' # {}
    <3>1. Max(c.txs) \in 1..Len(chain)
      BY <2>2, <2>3 DEF CycleOK, TxsOK
    <3>2. PaidTo(Max(c.txs), Min(c.wallets), c.paid)
          /\ Unpaid(Max(c.txs), Min(c.wallets), c.paid) # {}
      BY <2>3 DEF CycleOK, TxsOK
    <3> QED
      BY <3>1, <3>2, PaidKept, ChainKept DEF Unpaid
  <2> QED
    BY <2>1, <2>3
<1> QED
  BY <1>1, <1>3, <1>4, <1>5 DEF CycleOK

(* Likewise a replay.                                                      *)
LEMMA JobKept ==
    ASSUME TypeOK, TypeOK', Grows, ErrorsOK, NEW j \in Job, JobOK(j)
    PROVE  JobOK(j)'
<1>1. CASE j = IdleJob
  BY <1>1 DEF JobOK, IdleJob
<1>2. CASE j # IdleJob
  <2>1. j.error \in 1..Len(errors) /\ j.error \in 1..Len(errors')
    BY <1>2, Lengths DEF JobOK, Grows
  <2>2. PICK i, w : i = errors[j.error].tx /\ w = errors[j.error].wallet
    OBVIOUS
  <2>3. errors'[j.error].tx = i /\ errors'[j.error].wallet = w
    BY <2>1, <2>2 DEF Grows
  <2>4. i \in 1..Len(chain) /\ (chain[i].bump \/ (j.found /\ PaidTo(i, w, j.paid)))
    BY <2>1, <2>2, <1>2 DEF ErrorsOK, Known, JobOK
  <2>5. chain'[i].bump \/ (j.found /\ PaidTo(i, w, j.paid)')
    BY <2>4, PaidKept, ChainKept
  <2> QED
    BY <2>1, <2>3, <2>5 DEF JobOK
<1> QED
  BY <1>1, <1>2

(* And the dead letters.                                                   *)
LEMMA ErrorKept ==
    ASSUME TypeOK, TypeOK', Grows, ErrorsOK, NEW e \in 1..Len(errors)
    PROVE  /\ e \in 1..Len(errors')
           /\ Known(errors[e].tx, errors[e].wallet)'
           /\ errors[e].resolved =>
                  (Stored(errors[e].tx, errors[e].wallet) \/ chain[errors[e].tx].bump)'
<1>1. PICK i, w : i = errors[e].tx /\ w = errors[e].wallet
  OBVIOUS
<1>2. e \in 1..Len(errors') /\ errors'[e].tx = i /\ errors'[e].wallet = w
  BY <1>1, Lengths DEF Grows
<1>3. i \in 1..Len(chain) /\ w \in Wallets
  BY <1>1 DEF ErrorsOK, Known
<1>4. Known(i, w)'
  BY <1>3, ChainKept DEF Known
<1>5. errors[e].resolved => Stored(i, w)' \/ chain'[i].bump
  BY <1>1, <1>3, PaidKept, ChainKept DEF ErrorsOK
<1>6. Stored(i, w)' => Stored(errors[e].tx, errors[e].wallet)'
  BY <1>2, StoredOfLetter
<1>7. Known(errors[e].tx, errors[e].wallet)'
  BY <1>2, <1>4 DEF Known
<1>8. errors[e].resolved =>
          (Stored(errors[e].tx, errors[e].wallet) \/ chain[errors[e].tx].bump)'
  BY <1>2, <1>5, <1>6
<1> QED
  BY <1>2, <1>7, <1>8

-----------------------------------------------------------------------------
(* Settling.                                                               *)

(* What WalletDone and Settle change.                                      *)
LEMMA SettleFields ==
    ASSUME NEW c \in Cycle
    PROVE  /\ WalletDone(c) \in Cycle /\ Settle(c) \in Cycle
           /\ WalletDone(c).phase = c.phase
           /\ Settle(c) # WalletDone(c) =>
                  /\ WalletDone(c).phase = "cycle" /\ WalletDone(c).wallets = {}
                  /\ Settle(c) = [WalletDone(c) EXCEPT !.phase = "save"]
<1>1. c.wallets # {} => Min(c.wallets) \in c.wallets
  BY LeastOf DEF Cycle, Wallets
<1>2. WalletDone(c) \in Cycle /\ WalletDone(c).phase = c.phase
  <2>1. CASE c.wallets # {} /\ c.txs = {} /\ c.before = 0
    <3>1. c.visited \cup {Min(c.wallets)} \in SUBSET Wallets
      BY <1>1, <2>1 DEF Cycle
    <3>2. c.wallets \ {Min(c.wallets)} \in SUBSET Wallets
      BY DEF Cycle
    <3>3. MaxTxs + 1 \in 0..(MaxTxs + 1)
      BY Numbers
    <3> QED
      BY <2>1, <3>1, <3>2, <3>3 DEF WalletDone, Cycle
  <2>2. CASE ~(c.wallets # {} /\ c.txs = {} /\ c.before = 0)
    BY <2>2 DEF WalletDone
  <2> QED
    BY <2>1, <2>2
<1>3. Settle(c) # WalletDone(c) =>
          /\ c.phase = "cycle" /\ WalletDone(c).wallets = {}
          /\ Settle(c) = [WalletDone(c) EXCEPT !.phase = "save"]
  BY DEF Settle
<1>4. [WalletDone(c) EXCEPT !.phase = "save"] \in Cycle
  BY <1>2 DEF Cycle
<1> QED
  BY <1>2, <1>3, <1>4

(* A wallet whose last page is worked off is covered.                      *)
LEMMA WalletDoneOK ==
    ASSUME TypeOK, TypeOK', NEW c \in Cycle, CycleOK(c)'
    PROVE  CycleOK(WalletDone(c))'
<1> DEFINE m == Min(c.wallets)
           d == WalletDone(c)
<1>1. CASE ~(c.wallets # {} /\ c.txs = {} /\ c.before = 0)
  BY <1>1 DEF WalletDone
<1>2. CASE c.wallets # {} /\ c.txs = {} /\ c.before = 0
  <2>1. /\ d.phase = c.phase /\ d.latest = c.latest /\ d.last = c.last
        /\ d.wallets = c.wallets \ {m} /\ d.visited = c.visited \cup {m}
        /\ d.txs = c.txs /\ d.before = MaxTxs + 1 /\ d.paid = c.paid
    BY <1>2 DEF WalletDone, Cycle
  <2>2. c.phase = "cycle"
    BY <1>2 DEF CycleOK, StageOK
  <2>3. StageOK(d)'
    BY <1>2, <2>1, <2>2 DEF CycleOK, StageOK
  <2>4. \A i, w : Due(d, i, w)' <=> Due(c, i, w)'
    BY <2>1 DEF Due
  <2>5. \A i \in 1..Len(chain') : i < MaxTxs + 1
    <3>1. Len(chain') <= MaxTxs
      BY DEF TypeOK
    <3> QED
      BY <3>1, Lengths, Numbers
  <2>6. \A i \in 1..Len(chain') : Due(c, i, m)' => Outcome(i, m)'
    <3>1. \A i \in 1..Len(chain') : ~(i < c.before) /\ i \notin c.txs
      BY <1>2
    <3> QED
      BY <1>2, <3>1 DEF CycleOK, RestOK
  <2>7. VisitedOK(d)'
    <3> SUFFICES ASSUME NEW w \in d.visited, NEW i \in 1..Len(chain'), Due(c, i, w)'
                 PROVE  Outcome(i, w)'
      BY <2>4 DEF VisitedOK
    <3>1. CASE w = m
      BY <3>1, <2>6
    <3>2. CASE w \in c.visited
      BY <3>2 DEF CycleOK, VisitedOK
    <3> QED
      BY <3>1, <3>2, <2>1
  <2>8. RestOK(d)'
    BY <2>1, <2>5 DEF RestOK
  <2>9. TxsOK(d)'
    BY <1>2, <2>1 DEF TxsOK
  <2> QED
    BY <2>3, <2>7, <2>8, <2>9 DEF CycleOK
<1> QED
  BY <1>1, <1>2

(* Settling keeps what holds of a cycle: a wallet whose last page is       *)
(* worked off is covered.                                                  *)
LEMMA SettleOK ==
    ASSUME TypeOK, TypeOK', NEW c \in Cycle, CycleOK(c)'
    PROVE  CycleOK(Settle(c))'
<1>1. PICK d \in Cycle : d = WalletDone(c)
  BY SettleFields
<1>2. CycleOK(d)'
  BY <1>1, WalletDoneOK
<1>3. CASE Settle(c) = d
  BY <1>2, <1>3
<1>4. CASE Settle(c) # d
  <2>1. d.phase = "cycle" /\ d.wallets = {}
    BY <1>1, <1>4, SettleFields
  <2>2. PICK e : e = [d EXCEPT !.phase = "save"]
    OBVIOUS
  <2>3. Settle(c) = e
    BY <1>1, <1>4, <2>2, SettleFields
  <2>4. /\ e.phase = "save" /\ e.latest = d.latest /\ e.last = d.last
        /\ e.wallets = d.wallets /\ e.visited = d.visited
        /\ e.txs = d.txs /\ e.before = d.before /\ e.paid = d.paid
    BY <2>2 DEF Cycle
  <2>5. StageOK(e)'
    BY <1>2, <2>1, <2>4 DEF CycleOK, StageOK
  <2>6. VisitedOK(e)'
    BY <1>2, <2>4 DEF CycleOK, VisitedOK, Due
  <2>7. RestOK(e)' /\ TxsOK(e)'
    BY <2>1, <2>4 DEF RestOK, TxsOK
  <2> QED
    BY <2>3, <2>5, <2>6, <2>7 DEF CycleOK
<1> QED
  BY <1>3, <1>4

(* A step of replica r keeps what the cycles' part of the invariant says.  *)
LEMMA CyclesMove ==
    ASSUME TypeOK, TypeOK', Grows, CyclesOK, NEW r \in Replicas,
           NEW next \in Cycle, Goto(r, next), CycleOK(next)'
    PROVE  CyclesOK'
<1> SUFFICES ASSUME NEW q \in Replicas PROVE CycleOK(cycle[q])'
  BY DEF CyclesOK
<1>0. cycle \in [Replicas -> Cycle]
  BY DEF TypeOK
<1>1. CASE q = r
  <2>1. cycle'[q] = Settle(next)
    BY <1>0, <1>1 DEF Goto
  <2>2. CycleOK(Settle(next))'
    BY SettleOK
  <2> QED
    BY <2>1, <2>2
<1>2. CASE q # r
  <2>1. cycle'[q] = cycle[q]
    BY <1>0, <1>2 DEF Goto
  <2>2. PICK c \in Cycle : c = cycle[q]
    BY <1>0
  <2>3. CycleOK(c)'
    BY <2>2, CycleKept DEF CyclesOK
  <2> QED
    BY <2>1, <2>2, <2>3
<1> QED
  BY <1>1, <1>2

(* Steps that touch no cycle keep what holds of the cycles.                *)
LEMMA CyclesKept ==
    ASSUME TypeOK, TypeOK', Grows, CyclesOK, UNCHANGED cycle
    PROVE  CyclesOK'
<1> SUFFICES ASSUME NEW q \in Replicas PROVE CycleOK(cycle[q])'
  BY DEF CyclesOK
<1>1. PICK c \in Cycle : c = cycle[q]
  BY DEF TypeOK
<1>2. CycleOK(c)'
  BY <1>1, CycleKept DEF CyclesOK
<1> QED
  BY <1>1, <1>2

(* Steps that touch no replay keep what holds of the replays.              *)
LEMMA JobsKept ==
    ASSUME TypeOK, TypeOK', Grows, ErrorsOK, JobsOK, UNCHANGED job
    PROVE  JobsOK'
<1> SUFFICES ASSUME NEW p \in Replayers PROVE JobOK(job[p])'
  BY DEF JobsOK
<1>1. PICK j \in Job : j = job[p]
  BY DEF TypeOK
<1>2. JobOK(j)'
  BY <1>1, JobKept DEF JobsOK
<1> QED
  BY <1>1, <1>2

(* Steps that touch no dead letter keep what holds of the dead letters.    *)
LEMMA ErrorsKept ==
    ASSUME TypeOK, TypeOK', Grows, ErrorsOK, UNCHANGED errors
    PROVE  ErrorsOK'
BY ErrorKept DEF ErrorsOK

(* Steps that store no event keep what holds of the events.                *)
LEMMA RowsKept ==
    ASSUME TypeOK, TypeOK', Grows, RowsOK, UNCHANGED row
    PROVE  RowsOK'
<1> SUFFICES ASSUME NEW id \in EventId, row[id] # 0 PROVE RowOK(id)'
  BY DEF RowsOK, RowOK
<1>1. RowOK(id)
  BY DEF RowsOK
<1>2. PICK i, k : i = id[1] /\ k = row[id]
  OBVIOUS
<1>3. /\ i \in 1..Len(chain) /\ k \in 1..Len(chain[i].payments)
      /\ Supported(i, k) /\ Party(i, k, id[3]) \in Wallets
  BY <1>1, <1>2 DEF RowOK
<1>4. /\ i \in 1..Len(chain') /\ k \in 1..Len(chain'[i].payments)
      /\ Supported(i, k)' /\ Party(i, k, id[3])' \in Wallets
  BY <1>3, ChainKept
<1> QED
  BY <1>2, <1>4 DEF RowOK, Supported, Party

(* Ledgers stay in order when none closes.                                 *)
LEMMA OrderKept == InOrder /\ UNCHANGED <<chain, height>> => InOrder'
BY DEF InOrder, Ledger

(* A cycle's step that changes nothing else than the cycle, or the         *)
(* checkpoint.                                                             *)
LEMMA QuietStep ==
    ASSUME SyncInv, NEW r \in Replicas, NEW next \in Cycle, Goto(r, next),
           CycleOK(next), checkpoint' \in 0..MaxLedger, failures' \in 0..MaxFailures,
           UNCHANGED <<network, business, row, errors, logged, missed, job>>
    PROVE  SyncInv'
<1> USE DEF network, business
<1>1. Settle(next) \in Cycle
  BY SettleFields
<1>2. cycle' \in [Replicas -> Cycle]
  BY <1>1 DEF Goto, SyncInv, TypeOK
<1>3. TypeOK'
  BY <1>2 DEF SyncInv, TypeOK
<1>4. Grows
  BY Lengths, <1>3, Numbers DEF SyncInv, TypeOK, Grows
<1>5. CycleOK(next)'
  BY <1>3, <1>4, CycleKept DEF SyncInv
<1> QED
  BY <1>3, <1>4, <1>5, CyclesMove, JobsKept, ErrorsKept, RowsKept, OrderKept DEF SyncInv

-----------------------------------------------------------------------------
(* The steps of a cycle.                                                   *)

(* A replica's cycle, and the wallet and transaction it is at.             *)
LEMMA AtWork ==
    ASSUME SyncInv, NEW r \in Replicas
    PROVE  /\ cycle[r] \in Cycle /\ CycleOK(cycle[r])
           /\ cycle[r].wallets # {} =>
                  /\ Wallet(r) \in cycle[r].wallets /\ Wallet(r) \in Wallets
           /\ cycle[r].txs # {} =>
                  /\ cycle[r].wallets # {}
                  /\ Tx(r) \in cycle[r].txs /\ Tx(r) \in 1..Len(chain)
                  /\ Tx(r) \in 1..MaxTxs
                  /\ Touches(Tx(r), Wallet(r))
<1>1. cycle[r] \in Cycle /\ CycleOK(cycle[r])
  BY DEF SyncInv, TypeOK, CyclesOK
<1>2. PICK c \in Cycle : c = cycle[r]
  BY <1>1
<1>3. c.wallets # {} => Min(c.wallets) \in c.wallets /\ Min(c.wallets) \in Wallets
  BY LeastOf DEF Cycle, Wallets
<1>4. c.txs # {} => Max(c.txs) \in c.txs /\ Max(c.txs) \in 1..MaxTxs
  <2>1. c.txs \in SUBSET (0..MaxTxs) /\ c.txs \in SUBSET (1..MaxTxs)
    BY Numbers DEF Cycle
  <2> QED
    BY <2>1, GreatestOf, Numbers
<1> QED
  BY <1>1, <1>2, <1>3, <1>4 DEF CycleOK, StageOK, TxsOK, Wallet, Tx

(* A cycle that rests holds nothing.                                       *)
LEMMA IdleOK == SyncInv => IdleCycle \in Cycle /\ CycleOK(IdleCycle)
<1>1. IdleCycle \in Cycle
  BY Numbers DEF IdleCycle, Cycle
<1>2. ASSUME SyncInv PROVE CycleOK(IdleCycle)
  <2>1. 0 <= height
    BY <1>2, Numbers DEF SyncInv, TypeOK
  <2> QED
    BY <2>1 DEF IdleCycle, CycleOK, StageOK, VisitedOK, RestOK, TxsOK
<1> QED
  BY <1>1, <1>2

(* latestLedger is never above the height of the chain, however far the    *)
(* RPC lags.                                                               *)
LEMMA BeginKeeps ==
    ASSUME SyncInv, NEW r \in Replicas, BeginCycle(r)
    PROVE  SyncInv'
<1>1. PICK lag \in 0..MaxLag :
          Goto(r, [cycle[r] EXCEPT !.phase = "begin", !.latest = Max({0, height - lag})])
  BY DEF BeginCycle
<1>2. PICK latest : latest = Max({0, height - lag})
  OBVIOUS
<1>3. latest \in 0..MaxLedger /\ latest <= height
  <2>0. height \in Nat /\ height <= MaxLedger /\ lag \in Nat
    BY Numbers DEF SyncInv, TypeOK
  <2>1. CASE height - lag >= 0
    <3>1. {0, height - lag} \in SUBSET (0..height) /\ {0, height - lag} # {}
      BY <2>0, <2>1
    <3>2. latest \in 0..height
      BY <1>2, <2>0, <3>1, GreatestOf
    <3> QED
      BY <3>2, <2>0, Numbers
  <2>2. CASE height - lag < 0
    <3>1. \A y \in {0, height - lag} : 0 >= y
      BY <2>0, <2>2
    <3>2. latest \in {0, height - lag} /\ \A y \in {0, height - lag} : latest >= y
      BY <1>2, <3>1 DEF Max
    <3>3. latest = 0
      BY <3>2, <2>0, <2>2
    <3> QED
      BY <3>3, <2>0, Numbers
  <2> QED
    BY <2>0, <2>1, <2>2
<1>4. cycle[r] = IdleCycle
  BY AtWork DEF BeginCycle, CycleOK, StageOK
<1>5. PICK next : next = [IdleCycle EXCEPT !.phase = "begin", !.latest = latest]
  OBVIOUS
<1>6. next \in Cycle
  BY <1>3, <1>5, IdleOK DEF Cycle
<1>7. CycleOK(next)
  BY <1>3, <1>5 DEF IdleCycle, CycleOK, StageOK, VisitedOK, RestOK, TxsOK
<1>8. Goto(r, next)
  BY <1>1, <1>2, <1>4, <1>5
<1> QED
  BY <1>6, <1>7, <1>8, QuietStep DEF BeginCycle, database, SyncInv, TypeOK

(* A cycle that has read the checkpoint has covered nobody yet.            *)
LEMMA ReadCheckpointKeeps ==
    ASSUME SyncInv, NEW r \in Replicas, ReadCheckpoint(r)
    PROVE  SyncInv'
<1>1. PICK c \in Cycle : c = cycle[r] /\ CycleOK(c)
  BY AtWork
<1>2. PICK next : next = [c EXCEPT !.phase = "cycle", !.last = checkpoint]
  OBVIOUS
<1>3. next \in Cycle
  BY <1>2 DEF Cycle, SyncInv, TypeOK
<1>4. c.phase = "begin"
  BY <1>1 DEF ReadCheckpoint
<1>5. /\ next.phase = "cycle" /\ next.latest = c.latest
      /\ next.wallets = {} /\ next.visited = {}
      /\ next.txs = {} /\ next.before = MaxTxs + 1 /\ next.paid = 0
  BY <1>1, <1>2, <1>4 DEF Cycle, CycleOK, StageOK
<1>6. CycleOK(next)
  BY <1>1, <1>5 DEF CycleOK, StageOK, VisitedOK, RestOK, TxsOK
<1>7. Goto(r, next)
  BY <1>1, <1>2 DEF ReadCheckpoint
<1> QED
  BY <1>3, <1>6, <1>7, QuietStep DEF ReadCheckpoint, database, SyncInv, TypeOK

(* A page of wallets: the first of them has all of its transactions before *)
(* it.                                                                     *)
LEMMA ListWalletsKeeps ==
    ASSUME SyncInv, NEW r \in Replicas, ListWallets(r)
    PROVE  SyncInv'
<1>1. PICK c \in Cycle : c = cycle[r] /\ CycleOK(c)
  BY AtWork
<1>2. PICK rest, page : /\ rest = WalletsAfter(c.after)
                        /\ page = Lowest(WalletPageSize, rest)
  OBVIOUS
<1>3. PICK next : next = [c EXCEPT !.wallets = page,
                                   !.after = IF page = {} THEN @ ELSE Max(page),
                                   !.more = page # rest]
  OBVIOUS
<1>4. page \subseteq rest /\ rest \subseteq {w \in Wallets : profile[w] = "active"}
  BY <1>2 DEF Lowest, WalletsAfter
<1>5. page # {} => Max(page) \in 0..NumWallets
  <2>1. page \in SUBSET (0..NumWallets)
    BY <1>4, Numbers DEF Wallets
  <2> QED
    BY <2>1, GreatestOf, Numbers
<1>6. next \in Cycle
  <2>1. page \in SUBSET Wallets
    BY <1>4
  <2>2. (page # rest) \in BOOLEAN
    OBVIOUS
  <2> QED
    BY <1>3, <1>5, <2>1, <2>2 DEF Cycle
<1>7. c.phase = "cycle" /\ c.wallets = {}
  BY <1>1 DEF ListWallets, InCycle
<1>8. /\ next.phase = "cycle" /\ next.latest = c.latest /\ next.last = c.last
      /\ next.wallets = page /\ next.visited = c.visited
      /\ next.txs = {} /\ next.before = MaxTxs + 1 /\ next.paid = 0
  BY <1>1, <1>3, <1>7 DEF Cycle, CycleOK, StageOK
<1>9. CycleOK(next)
  <2>1. StageOK(next)
    BY <1>1, <1>4, <1>8 DEF CycleOK, StageOK
  <2>2. VisitedOK(next)
    BY <1>1, <1>8 DEF CycleOK, VisitedOK, Due
  <2>3. \A i \in 1..Len(chain) : i < MaxTxs + 1
    <3>1. Len(chain) <= MaxTxs /\ Len(chain) \in Nat
      BY LenProperties DEF SyncInv, TypeOK
    <3> QED
      BY <3>1, Numbers
  <2> QED
    BY <2>1, <2>2, <2>3, <1>8 DEF CycleOK, RestOK, TxsOK
<1>10. Goto(r, next)
  BY <1>1, <1>2, <1>3 DEF ListWallets
<1> QED
  BY <1>6, <1>9, <1>10, QuietStep DEF ListWallets, database, SyncInv, TypeOK

(* A page of the newest leaves out only what is older than all of it.      *)
LEMMA HighestFirst ==
    ASSUME NEW n \in Nat \ {0}, NEW m \in Nat, NEW S \in SUBSET (1..m),
           NEW i \in S, i \notin Highest(n, S)
    PROVE  Highest(n, S) # {} /\ \A x \in Highest(n, S) : i < x
<1>0. S \in SUBSET (0..m)
  OBVIOUS
<1>1. Max(S) \in S /\ \A y \in S : y <= Max(S)
  BY <1>0, GreatestOf
<1>2. {y \in S : y > Max(S)} = {}
  <2>1. PICK g \in S : g = Max(S) /\ \A y \in S : y <= g
    BY <1>1
  <2>2. \A y \in S : ~(y > g)
    BY <1>0, <2>1
  <2> QED
    BY <2>1, <2>2
<1>3. Max(S) \in Highest(n, S)
  BY <1>1, <1>2, FS_EmptySet DEF Highest
<1>4. ASSUME NEW x \in Highest(n, S)
      PROVE  i < x
  <2> SUFFICES ASSUME x <= i PROVE FALSE
    BY <1>0 DEF Highest
  <2>1. IsFiniteSet(S)
    <3>1. IsFiniteSet(0..m)
      BY FS_Interval
    <3> QED
      BY <3>1, <1>0, FS_Subset
  <2>2. IsFiniteSet({y \in S : y > x})
    <3>1. {y \in S : y > x} \in SUBSET S
      OBVIOUS
    <3> QED
      BY <2>1, <3>1, FS_Subset
  <2>3. {y \in S : y > i} \in SUBSET {y \in S : y > x}
    <3>1. i \in Int /\ x \in Int /\ \A y \in S : y \in Int
      BY <1>0 DEF Highest
    <3>2. \A y \in S : y > i => y > x
      BY <3>1
    <3> QED
      BY <3>2
  <2>4. /\ IsFiniteSet({y \in S : y > i})
        /\ Cardinality({y \in S : y > i}) <= Cardinality({y \in S : y > x})
    BY <2>2, <2>3, FS_Subset
  <2>5. Cardinality({y \in S : y > x}) < n
    BY DEF Highest
  <2>6. Cardinality({y \in S : y > i}) < n
    <3> HIDE DEF Highest
    <3>1. /\ Cardinality({y \in S : y > i}) \in Nat
          /\ Cardinality({y \in S : y > x}) \in Nat
      BY <2>2, <2>4, FS_CardinalityType
    <3> QED
      BY <3>1, <2>4, <2>5
  <2> QED
    BY <2>6 DEF Highest
<1> QED
  BY <1>3, <1>4

(* A page of transactions: the ones at or below the checkpoint are not     *)
(* owed, the ones that did not fit are before the next cursor, for the     *)
(* page is the newest of what was before this one.                         *)
LEMMA FetchKeeps ==
    ASSUME SyncInv, NEW r \in Replicas, FetchTransactions(r)
    PROVE  SyncInv'
<1>1. PICK c \in Cycle : c = cycle[r] /\ CycleOK(c)
  BY AtWork
<1>2. PICK w : w = Min(c.wallets)
  OBVIOUS
<1>3. PICK S, page, fresh :
          /\ S = {i \in 1..Len(chain) : Touches(i, w) /\ i < c.before}
          /\ page = Highest(TxPageSize, S)
          /\ fresh = {i \in page : Ledger(i) > c.last}
  OBVIOUS
<1>4. PICK before : before = IF fresh # {} /\ fresh = page THEN Min(fresh) ELSE 0
  OBVIOUS
<1>5. PICK next : next = [c EXCEPT !.txs = fresh, !.before = before]
  OBVIOUS
<1>6. c.phase = "cycle" /\ c.wallets # {} /\ c.txs = {} /\ c.before > 0
  BY <1>1 DEF FetchTransactions, InCycle
<1>7. Len(chain) \in Nat /\ Len(chain) <= MaxTxs
  BY LenProperties DEF SyncInv, TypeOK
<1>8. S \in SUBSET (1..Len(chain)) /\ page \in SUBSET S /\ fresh \in SUBSET page
  BY <1>3 DEF Highest
<1>9. fresh \in SUBSET (1..MaxTxs)
  BY <1>7, <1>8, Numbers
<1>10. before # 0 => before \in fresh /\ fresh = page
  <2>1. fresh # {} => Min(fresh) \in fresh
    <3>1. fresh \in SUBSET Nat
      BY <1>9
    <3> QED
      BY <3>1, LeastOf
  <2> QED
    BY <1>4, <2>1
<1>11. next \in Cycle
  <2>1. before \in 0..(MaxTxs + 1)
    <3>1. before # 0 => before \in 1..MaxTxs
      BY <1>9, <1>10
    <3> QED
      BY <3>1, Numbers
  <2> QED
    BY <1>5, <1>9, <2>1 DEF Cycle
<1>12. /\ next.phase = "cycle" /\ next.latest = c.latest /\ next.last = c.last
       /\ next.wallets = c.wallets /\ next.visited = c.visited
       /\ next.txs = fresh /\ next.before = before /\ next.paid = 0
  BY <1>1, <1>5, <1>6 DEF Cycle, CycleOK, StageOK
<1>13. StageOK(next) /\ VisitedOK(next)
  BY <1>1, <1>6, <1>12 DEF CycleOK, StageOK, VisitedOK, Due
<1>14. ASSUME NEW i \in 1..Len(chain), Due(c, i, w)
       PROVE  i \in fresh \/ i < before \/ Outcome(i, w)
  <2>1. i < c.before \/ Outcome(i, w)
    BY <1>1, <1>2, <1>6, <1>14 DEF CycleOK, RestOK
  <2>2. CASE i < c.before /\ i \in page
    BY <2>2, <1>3, <1>7, <1>14 DEF Due, SyncInv, TypeOK, Ledger, Cycle
  <2>3. CASE i < c.before /\ i \notin page
    <3>1. i \in S
      BY <1>3, <1>14, <2>3 DEF Due
    <3>2. page # {} /\ \A x \in page : i < x
      BY <1>3, <1>7, <1>8, <2>3, <3>1, Numbers, HighestFirst
    <3>3. \A x \in page : Ledger(x) > c.last
      <4> SUFFICES ASSUME NEW x \in page PROVE Ledger(x) > c.last
        OBVIOUS
      <4>1. Ledger(i) <= Ledger(x)
        BY <1>8, <3>2 DEF SyncInv, InOrder
      <4>2. Ledger(i) > c.last
        BY <1>14 DEF Due
      <4>3. Ledger(i) \in Int /\ Ledger(x) \in Int /\ c.last \in Int
        <5>1. chain \in Seq(Entry)
          BY DEF SyncInv, TypeOK
        <5>2. /\ chain[i] \in Entry
              /\ chain[x] \in Entry
          BY <5>1, <1>8, ElementOfSeq
        <5>3. c.last \in 0..MaxLedger
          BY DEF Cycle
        <5> QED
          BY <5>2, <5>3 DEF Ledger, Entry
      <4> QED
        BY <4>1, <4>2, <4>3
    <3>4. fresh = page
      BY <1>3, <3>3
    <3>5. before \in page
      <4>1. before = Min(fresh) /\ fresh \in SUBSET Nat /\ fresh # {}
        BY <1>4, <1>9, <3>2, <3>4
      <4> QED
        BY <4>1, <3>4, LeastOf
    <3> QED
      BY <3>2, <3>5
  <2> QED
    BY <2>1, <2>2, <2>3
<1>15. RestOK(next)
  BY <1>2, <1>12, <1>14 DEF RestOK, Due
<1>16. TxsOK(next)
  <2>1. \A i \in fresh : i \in 1..Len(chain) /\ Touches(i, w)
    BY <1>3, <1>8
  <2>2. ASSUME fresh # {}
        PROVE  PaidTo(Max(fresh), w, 0) /\ Unpaid(Max(fresh), w, 0) # {}
    <3>1. Max(fresh) \in fresh
      <4>1. fresh \in SUBSET (0..MaxTxs)
        BY <1>9, Numbers
      <4> QED
        BY <4>1, <2>2, GreatestOf, Numbers
    <3>2. PICK x : x = Max(fresh)
      OBVIOUS
    <3>3. \A k \in Relevant(x, w) : ~(k <= 0) /\ k > 0
      BY DEF Relevant
    <3> QED
      BY <2>1, <3>1, <3>2, <3>3 DEF PaidTo, Unpaid, Touches
  <2> QED
    BY <1>2, <1>12, <2>1, <2>2 DEF TxsOK
<1>17. Goto(r, next)
  BY <1>1, <1>2, <1>3, <1>4, <1>5 DEF FetchTransactions, Page, Wallet
<1>18. CycleOK(next)
  BY <1>13, <1>15, <1>16 DEF CycleOK
<1>19. /\ checkpoint' = checkpoint /\ failures' = failures
       /\ UNCHANGED <<network, business, row, errors, logged, missed, job>>
  BY DEF FetchTransactions, database
<1>20. checkpoint' \in 0..MaxLedger /\ failures' \in 0..MaxFailures
  BY <1>19 DEF SyncInv, TypeOK
<1> QED
  BY <1>11, <1>17, <1>18, <1>19, <1>20, QuietStep

(* Storing a payment's events keeps those there are.  Afterwards the id    *)
(* of an event of the wallet it is indexed for is the payment's or a       *)
(* rival's, if a row names the wallet.                                     *)
LEMMA PaymentStored ==
    ASSUME TypeOK, RowsOK, NEW i \in 1..Len(chain), i \in 1..MaxTxs, NEW w \in Wallets,
           NEW k \in Relevant(i, w), NEW hash \in Hashes,
           IndexPayment(i, hash, k), Miss(i, w, k), UNCHANGED <<chain, profile>>
    PROVE  /\ row' \in [EventId -> Nat] /\ missed' \subseteq (1..MaxTxs) \X Wallets
           /\ \A id \in EventId : row[id] # 0 => row'[id] = row[id]
           /\ missed \subseteq missed' /\ RowsOK'
           /\ hash = "own" => Paid(i, w, k)'
<1>1. row \in [EventId -> Nat] /\ k \in 1..Len(chain[i].payments) /\ k \in Nat \ {0}
  BY DEF TypeOK, Relevant
<1>2. \A id \in EventId : UpsertEvent(i, hash, k, id) \in Nat
  BY <1>1 DEF UpsertEvent
<1>3. row' \in [EventId -> Nat]
  BY <1>1, <1>2 DEF IndexPayment
<1>4. \A id \in EventId :
          row'[id] = IF Supported(i, k) THEN UpsertEvent(i, hash, k, id) ELSE row[id]
  BY DEF IndexPayment
<1>5. \A id \in EventId : row[id] # 0 => row'[id] = row[id]
  BY <1>4 DEF UpsertEvent
<1>6. missed \subseteq missed' /\ missed' \subseteq (1..MaxTxs) \X Wallets
  BY DEF Miss, TypeOK
<1>7. \A d : Party(i, k, d) \in Wallets \cup {Outside}
  <2>1. chain \in Seq(Entry)
    BY DEF TypeOK
  <2>2. chain[i] \in Entry
    BY <2>1, ElementOfSeq
  <2>3. chain[i].payments \in Seq(Payment)
    BY <2>2 DEF Entry
  <2>4. chain[i].payments[k] \in Payment
    BY <2>3, <1>1, ElementOfSeq
  <2> QED
    BY <2>4 DEF Party, Payment
<1>8. \A id \in EventId : RowOK(id)'
  <2> SUFFICES ASSUME NEW id \in EventId, row'[id] # 0 PROVE RowOK(id)'
    BY DEF RowOK
  <2>1. CASE row'[id] = row[id]
    <3>1. RowOK(id)
      BY DEF RowsOK
    <3> QED
      BY <2>1, <3>1 DEF RowOK, Supported, Party
  <2>2. CASE row'[id] # row[id]
    <3>1. /\ Supported(i, k) /\ id[1] = i /\ row'[id] = k
          /\ Registered(Party(i, k, id[3]))
      BY <1>4, <2>2 DEF UpsertEvent
    <3>2. Party(i, k, id[3]) \in Wallets
      BY <3>1, <1>7 DEF Registered
    <3> QED
      BY <3>1, <3>2, <1>1 DEF RowOK, Supported, Party
  <2> QED
    BY <2>1, <2>2
<1>9. ASSUME hash = "own" PROVE Paid(i, w, k)'
  <2>1. CASE Supported(i, k) /\ ~Registered(w)
    BY <2>1 DEF Miss, Paid
  <2>2. CASE ~(Supported(i, k) /\ ~Registered(w))
    <3> SUFFICES ASSUME NEW d \in Directions, Supported(i, k), Party(i, k, d) = w
                 PROVE  row'[<<i, "own", d>>] \in {k} \cup Rivals(i, k, d)
      BY DEF Paid, Supported, Party, Rivals
    <3>1. PICK id : id = <<i, "own", d>>
      OBVIOUS
    <3>2. id \in EventId /\ id[1] = i /\ id[2] = "own" /\ id[3] = d
      BY <3>1 DEF EventId, Hashes
    <3>3. CASE row[id] = 0
      BY <3>1, <3>2, <3>3, <1>4, <1>9, <2>2 DEF UpsertEvent
    <3>4. CASE row[id] # 0
      <4>1. row'[id] = row[id] /\ RowOK(id)
        BY <3>2, <3>4, <1>5 DEF RowsOK
      <4>2. /\ row[id] \in 1..Len(chain[i].payments) /\ Supported(i, row[id])
            /\ Party(i, row[id], d) \in Wallets
        BY <3>2, <3>4, <4>1 DEF RowOK
      <4> QED
        BY <3>1, <4>1, <4>2 DEF Rivals
    <3> QED
      BY <3>3, <3>4
  <2> QED
    BY <2>1, <2>2
<1>10. RowsOK'
  BY <1>8 DEF RowsOK
<1> QED
  BY <1>3, <1>5, <1>6, <1>9, <1>10

(* Leaving a transaction yields a cycle.                                   *)
LEMMA NextTxType ==
    ASSUME SyncInv, NEW r \in Replicas, NEW processed \in SUBSET (1..MaxLedger)
    PROVE  NextTx(r, processed) \in Cycle
<1>1. PICK c \in Cycle : c = cycle[r]
  BY AtWork
<1>2. c.txs \ {Tx(r)} \in SUBSET (1..MaxTxs)
  BY DEF Cycle
<1> QED
  BY <1>1, <1>2 DEF NextTx, Cycle

(* Leaving a transaction whose outcome is on record.                       *)
LEMMA NextTxOK ==
    ASSUME SyncInv, TypeOK', Grows, NEW r \in Replicas, InCycle(r), cycle[r].txs # {},
           NEW processed \in SUBSET (1..MaxLedger),
           NEW m, m = Tx(r), NEW w, w = Wallet(r), Outcome(m, w)',
           NEW next, next = NextTx(r, processed)
    PROVE  next \in Cycle /\ CycleOK(next)'
<1>1. PICK c \in Cycle : c = cycle[r] /\ CycleOK(c)
  BY AtWork
<1>2. w = Min(c.wallets) /\ m = Max(c.txs)
  BY <1>1 DEF Wallet, Tx
<1>3. /\ c.phase = "cycle" /\ c.wallets # {} /\ c.txs # {}
      /\ w \in c.wallets /\ m \in c.txs /\ m \in 1..Len(chain)
  BY <1>1, <1>2, AtWork DEF InCycle, Wallet, Tx
<1>4. next = [c EXCEPT !.txs = @ \ {m}, !.paid = 0, !.processed = processed]
  BY <1>1, <1>2 DEF NextTx, Tx
<1>5. next \in Cycle
  BY NextTxType
<1>6. /\ next.phase = "cycle" /\ next.latest = c.latest /\ next.last = c.last
      /\ next.wallets = c.wallets /\ next.visited = c.visited
      /\ next.txs = c.txs \ {m} /\ next.before = c.before /\ next.paid = 0
  BY <1>3, <1>4 DEF Cycle
<1>7. CycleOK(c)'
  BY <1>1, CycleKept DEF SyncInv
<1>9. StageOK(next)' /\ VisitedOK(next)'
  BY <1>3, <1>6, <1>7 DEF CycleOK, StageOK, VisitedOK, Due
<1>10. RestOK(next)'
  <2> SUFFICES ASSUME NEW i \in 1..Len(chain'), Due(next, i, w)'
               PROVE  i \in c.txs \ {m} \/ i < c.before \/ Outcome(i, w)'
    BY <1>2, <1>6 DEF RestOK
  <2>1. Due(c, i, w)'
    BY <1>6 DEF Due
  <2>2. i \in c.txs \/ i < c.before \/ Outcome(i, w)'
    BY <1>2, <1>3, <1>7, <2>1 DEF CycleOK, RestOK
  <2> QED
    BY <2>2
<1>11. TxsOK(next)'
  <2>1. \A i \in next.txs : i \in 1..Len(chain') /\ Touches(i, w)'
    BY <1>2, <1>3, <1>6, <1>7 DEF CycleOK, TxsOK
  <2>2. ASSUME next.txs # {}
        PROVE  PaidTo(Max(next.txs), w, 0)' /\ Unpaid(Max(next.txs), w, 0)' # {}
    <3>1. PICK x : x = Max(next.txs)
      OBVIOUS
    <3>2. x \in next.txs
      <4>1. next.txs \in SUBSET (0..MaxTxs)
        BY <1>5, Numbers DEF Cycle
      <4> QED
        BY <3>1, <4>1, <2>2, GreatestOf, Numbers
    <3>3. \A k \in Relevant(x, w)' : ~(k <= 0) /\ k > 0
      BY DEF Relevant
    <3> QED
      BY <2>1, <3>1, <3>2, <3>3 DEF PaidTo, Unpaid, Touches
  <2> QED
    BY <1>2, <1>6, <2>1, <2>2 DEF TxsOK
<1> QED
  BY <1>5, <1>9, <1>10, <1>11 DEF CycleOK

(* Ledgers noted as processed are ledgers.                                 *)
LEMMA MarkType ==
    ASSUME SyncInv, NEW r \in Replicas, NEW i \in 1..Len(chain)
    PROVE  Mark(r, Ledger(i)) \in SUBSET (1..MaxLedger)
<1>1. chain[i] \in Entry
  <2>1. chain \in Seq(Entry)
    BY DEF SyncInv, TypeOK
  <2> QED
    BY <2>1, ElementOfSeq
<1>2. cycle[r].processed \in SUBSET (1..MaxLedger)
  BY AtWork DEF Cycle
<1> QED
  BY <1>1, <1>2 DEF Mark, Ledger, Entry

(* A payment is indexed; after the last one the transaction has its        *)
(* outcome.                                                                *)
LEMMA ProcessKeeps ==
    ASSUME SyncInv, NEW r \in Replicas, ProcessPayment(r)
    PROVE  SyncInv'
<1>1. PICK c \in Cycle : c = cycle[r] /\ CycleOK(c)
  BY AtWork
<1>2. PICK w, m : w = Min(c.wallets) /\ m = Max(c.txs)
  OBVIOUS
<1>3. /\ InCycle(r) /\ c.txs # {} /\ c.wallets # {} /\ c.phase = "cycle"
      /\ w \in Wallets
      /\ m \in c.txs /\ m \in 1..Len(chain) /\ m \in 1..MaxTxs
  BY <1>1, <1>2, AtWork DEF ProcessPayment, InCycle, Wallet, Tx
<1>4. PICK unpaid, k : unpaid = Unpaid(m, w, c.paid) /\ k = Min(unpaid)
  OBVIOUS
<1>5. unpaid # {} /\ PaidTo(m, w, c.paid)
  BY <1>1, <1>2, <1>3, <1>4 DEF CycleOK, TxsOK
<1>6. /\ unpaid \in SUBSET Nat /\ k \in unpaid /\ \A x \in unpaid : k <= x
      /\ \A x \in unpaid : x \in Relevant(m, w) /\ x > c.paid /\ x \in Nat \ {0}
  <2>1. \A x \in unpaid : x \in Relevant(m, w) /\ x > c.paid /\ x \in Nat \ {0}
    BY <1>4 DEF Unpaid, Relevant
  <2> QED
    BY <1>4, <1>5, <2>1, LeastOf
<1>7. /\ IndexPayment(m, "own", k) /\ Miss(m, w, k)
      /\ UNCHANGED <<chain, height, profile, changes, checkpoint, errors, logged, job, failures>>
  BY <1>1, <1>2, <1>4 DEF ProcessPayment, Tx, Wallet, network, business
<1>8. /\ row' \in [EventId -> Nat] /\ missed' \subseteq (1..MaxTxs) \X Wallets
      /\ \A id \in EventId : row[id] # 0 => row'[id] = row[id]
      /\ missed \subseteq missed' /\ RowsOK' /\ Paid(m, w, k)'
  <2>1. "own" \in Hashes /\ k \in Relevant(m, w) /\ TypeOK /\ RowsOK
    BY <1>6 DEF SyncInv, Hashes
  <2> QED
    BY <1>3, <1>7, <2>1, PaymentStored
<1>9. PICK done : done = NextTx(r, Mark(r, Ledger(m)))
  OBVIOUS
<1>10. PICK on : on = [c EXCEPT !.paid = k]
  OBVIOUS
<1>11. Goto(r, IF unpaid = {k} THEN done ELSE on)
  BY <1>1, <1>2, <1>4, <1>9, <1>10 DEF ProcessPayment, Tx, Wallet
<1>12. on \in Cycle
  BY <1>6, <1>10 DEF Cycle
<1>13. done \in Cycle
  BY <1>3, <1>9, MarkType, NextTxType
<1>14. TypeOK'
  <2>1. Settle(IF unpaid = {k} THEN done ELSE on) \in Cycle
    BY <1>12, <1>13, SettleFields
  <2>2. cycle' \in [Replicas -> Cycle]
    BY <1>11, <2>1 DEF Goto, SyncInv, TypeOK
  <2> QED
    BY <2>2, <1>7, <1>8 DEF SyncInv, TypeOK
<1>15. Grows
  BY <1>7, <1>8, <1>14, Lengths, Numbers DEF SyncInv, TypeOK, Grows
<1>16. PaidTo(m, w, c.paid)' /\ Relevant(m, w)' = Relevant(m, w)
  BY <1>3, <1>5, <1>14, <1>15, PaidKept, ChainKept DEF SyncInv
<1>17. CASE unpaid = {k}
  <2>1. \A x \in Relevant(m, w) : x <= c.paid \/ x = k
    BY <1>4, <1>17 DEF Unpaid, Relevant, Cycle
  <2>2. \A x \in Relevant(m, w)' : Paid(m, w, x)'
    BY <1>8, <1>16, <2>1 DEF PaidTo
  <2>3. Outcome(m, w)'
    <3>1. Stored(m, w)'
      BY <2>2, StoredIffPaid
    <3> QED
      BY <3>1 DEF Outcome, Accounted, Excused, Stored
  <2>4. CycleOK(done)'
    <3>1. Mark(r, Ledger(m)) \in SUBSET (1..MaxLedger)
      BY <1>3, MarkType
    <3>2. m = Tx(r) /\ w = Wallet(r)
      BY <1>1, <1>2 DEF Tx, Wallet
    <3> QED
      BY <1>1, <1>3, <1>9, <1>14, <1>15, <2>3, <3>1, <3>2, NextTxOK
  <2> QED
    BY <1>7, <1>8, <1>11, <1>13, <1>14, <1>15, <1>17, <2>4,
       CyclesMove, JobsKept, ErrorsKept, OrderKept DEF SyncInv
<1>18. CASE unpaid # {k}
  <2>1. /\ on.phase = "cycle" /\ on.latest = c.latest /\ on.last = c.last
        /\ on.wallets = c.wallets /\ on.visited = c.visited
        /\ on.txs = c.txs /\ on.before = c.before /\ on.paid = k
    BY <1>3, <1>10 DEF Cycle
  <2>2. CycleOK(c)'
    BY <1>1, <1>14, <1>15, CycleKept DEF SyncInv
  <2>3. StageOK(on)' /\ VisitedOK(on)' /\ RestOK(on)'
    BY <1>3, <2>1, <2>2 DEF CycleOK, StageOK, VisitedOK, RestOK, Due
  <2>4. PaidTo(m, w, k)'
    <3> SUFFICES ASSUME NEW x \in Relevant(m, w)', x <= k PROVE Paid(m, w, x)'
      BY DEF PaidTo
    <3>1. CASE x <= c.paid
      BY <3>1, <1>16 DEF PaidTo
    <3>2. CASE x > c.paid
      <4>1. x \in unpaid
        BY <3>2, <1>4, <1>16 DEF Unpaid
      <4>2. x = k
        BY <4>1, <1>6
      <4> QED
        BY <4>2, <1>8
    <3> QED
      BY <3>1, <3>2, <1>16 DEF Relevant, Cycle
  <2>5. Unpaid(m, w, k)' # {}
    <3>1. PICK x \in unpaid : x # k
      BY <1>6, <1>18
    <3>2. x > k /\ x \in Relevant(m, w)
      BY <3>1, <1>6
    <3> QED
      BY <3>2, <1>16 DEF Unpaid
  <2>6. TxsOK(on)'
    BY <1>2, <1>3, <2>1, <2>2, <2>4, <2>5 DEF CycleOK, TxsOK
  <2>7. CycleOK(on)'
    BY <2>3, <2>6 DEF CycleOK
  <2> QED
    BY <1>7, <1>8, <1>11, <1>12, <1>14, <1>15, <1>18, <2>7,
       CyclesMove, JobsKept, ErrorsKept, OrderKept DEF SyncInv
<1> QED
  BY <1>17, <1>18

(* A transaction that fails has a dead letter for its outcome.             *)
LEMMA DeadLetterKeeps ==
    ASSUME SyncInv, NEW r \in Replicas, DeadLetter(r)
    PROVE  SyncInv'
<1>1. PICK c \in Cycle : c = cycle[r] /\ CycleOK(c)
  BY AtWork
<1>2. PICK w, m : w = Wallet(r) /\ m = Tx(r)
  OBVIOUS
<1>3. /\ InCycle(r) /\ c.txs # {}
      /\ w \in Wallets /\ m \in 1..Len(chain) /\ m \in 1..MaxTxs
  BY <1>1, <1>2, AtWork DEF DeadLetter
<1>4. PICK letter : letter = [tx |-> m, wallet |-> w, retryCount |-> 0, resolved |-> FALSE]
  OBVIOUS
<1>5. letter \in DeadLetterRow
  BY <1>3, <1>4 DEF DeadLetterRow
<1>6. errors \in Seq(DeadLetterRow)
  BY DEF SyncInv, TypeOK
<1>7. /\ errors' = Append(errors, letter)
      /\ UNCHANGED <<chain, height, profile, changes, checkpoint, row, logged, missed, job>>
      /\ failures' \in 0..MaxFailures
  BY <1>2, <1>4, Numbers DEF DeadLetter, Failing, network, business, SyncInv, TypeOK
<1>8. /\ errors' \in Seq(DeadLetterRow) /\ Len(errors') = Len(errors) + 1
      /\ \A e \in 1..Len(errors) : errors'[e] = errors[e]
      /\ errors'[Len(errors) + 1] = letter
      /\ Len(errors) \in Nat
  BY <1>5, <1>6, <1>7, AppendProperties, LenProperties
<1>9. PICK next : next = NextTx(r, Mark(r, Ledger(m)))
  OBVIOUS
<1>10. Goto(r, next)
  BY <1>2, <1>9 DEF DeadLetter
<1>11. Mark(r, Ledger(m)) \in SUBSET (1..MaxLedger)
  BY <1>3, MarkType
<1>12. next \in Cycle
  BY <1>9, <1>11, NextTxType
<1>13. TypeOK'
  <2>1. cycle' \in [Replicas -> Cycle]
    BY <1>10, <1>12, SettleFields DEF Goto, SyncInv, TypeOK
  <2>2. \A p \in Replayers : job'[p].error <= Len(errors')
    <3>1. \A p \in Replayers : job[p] \in Job /\ job[p].error <= Len(errors)
      BY DEF SyncInv, TypeOK
    <3> QED
      BY <3>1, <1>7, <1>8 DEF Job
  <2> QED
    BY <2>1, <2>2, <1>7, <1>8 DEF SyncInv, TypeOK
<1>14. Grows
  BY <1>7, <1>8, <1>13, Lengths, Numbers DEF SyncInv, TypeOK, Grows
<1>15. Outcome(m, w)'
  <2>1. Len(errors) + 1 \in 1..Len(errors')
    BY <1>8
  <2> QED
    BY <1>4, <1>8, <2>1 DEF Outcome, Accounted, DeadLettered
<1>16. CycleOK(next)'
  BY <1>1, <1>2, <1>3, <1>9, <1>11, <1>13, <1>14, <1>15, NextTxOK
<1>17. ErrorsOK'
  <2> SUFFICES ASSUME NEW e \in 1..Len(errors')
               PROVE  /\ Known(errors[e].tx, errors[e].wallet)'
                      /\ errors'[e].resolved =>
                             (Stored(errors[e].tx, errors[e].wallet)
                                 \/ chain[errors[e].tx].bump)'
    BY DEF ErrorsOK
  <2>1. CASE e \in 1..Len(errors)
    BY <2>1, <1>8, <1>13, <1>14, ErrorKept DEF SyncInv
  <2>2. CASE e = Len(errors) + 1
    BY <2>2, <1>3, <1>4, <1>7, <1>8 DEF Known
  <2> QED
    BY <2>1, <2>2, <1>8
<1> QED
  BY <1>7, <1>10, <1>12, <1>13, <1>14, <1>16, <1>17,
     CyclesMove, JobsKept, RowsKept, OrderKept DEF SyncInv

(* When that cannot be written either, the outcome is the log line.        *)
LEMMA DeadLetterLostKeeps ==
    ASSUME SyncInv, NEW r \in Replicas, DeadLetterLost(r)
    PROVE  SyncInv'
<1>1. PICK c \in Cycle : c = cycle[r] /\ CycleOK(c)
  BY AtWork
<1>2. PICK w, m : w = Wallet(r) /\ m = Tx(r)
  OBVIOUS
<1>3. InCycle(r) /\ c.txs # {} /\ w \in Wallets /\ m \in 1..MaxTxs
  BY <1>1, <1>2, AtWork DEF DeadLetterLost
<1>4. /\ logged' = logged \cup {<<m, w>>}
      /\ UNCHANGED <<chain, height, profile, changes, checkpoint, row, errors, missed, job>>
      /\ failures' \in 0..MaxFailures
  BY <1>2, Numbers DEF DeadLetterLost, Failing, network, business, database, SyncInv, TypeOK
<1>5. PICK next : next = NextTx(r, c.processed)
  OBVIOUS
<1>6. Goto(r, next)
  BY <1>1, <1>5 DEF DeadLetterLost
<1>7. c.processed \in SUBSET (1..MaxLedger)
  BY DEF Cycle
<1>8. next \in Cycle
  BY <1>5, <1>7, NextTxType
<1>9. TypeOK'
  <2>1. cycle' \in [Replicas -> Cycle]
    BY <1>6, <1>8, SettleFields DEF Goto, SyncInv, TypeOK
  <2> QED
    BY <2>1, <1>3, <1>4 DEF SyncInv, TypeOK
<1>10. Grows
  BY <1>4, <1>9, Lengths, Numbers DEF SyncInv, TypeOK, Grows
<1>11. CycleOK(next)'
  <2>1. Outcome(m, w)'
    BY <1>4 DEF Outcome, Excused
  <2> QED
    BY <1>1, <1>2, <1>3, <1>5, <1>7, <1>9, <1>10, <2>1, NextTxOK
<1> QED
  BY <1>4, <1>6, <1>8, <1>9, <1>10, <1>11,
     CyclesMove, JobsKept, ErrorsKept, RowsKept, OrderKept DEF SyncInv

(* The checkpoint is moved to a processed ledger.                          *)
LEMMA SaveKeeps ==
    ASSUME SyncInv, NEW r \in Replicas, SaveCheckpoint(r)
    PROVE  SyncInv'
<1>1. PICK c \in Cycle : c = cycle[r] /\ CycleOK(c)
  BY AtWork
<1>2. PICK l : l = Min(c.processed)
  OBVIOUS
<1>3. l \in 1..MaxLedger /\ l \in 0..MaxLedger /\ checkpoint' = l
  <2>1. c.processed # {} /\ c.processed \in SUBSET (1..MaxLedger)
        /\ c.processed \in SUBSET Nat
    BY <1>1 DEF SaveCheckpoint, Cycle
  <2>2. l \in 1..MaxLedger
    BY <1>2, <2>1, LeastOf
  <2> QED
    BY <1>1, <1>2, <2>2 DEF SaveCheckpoint, LedgerToSave
<1>4. PICK on : on = [c EXCEPT !.processed = @ \ {l}]
  OBVIOUS
<1>5. on \in Cycle
  <2>1. c.processed \ {l} \in SUBSET (1..MaxLedger)
    BY DEF Cycle
  <2> QED
    BY <1>4, <2>1 DEF Cycle
<1>6. CycleOK(on)
  <2>1. /\ on.phase = c.phase /\ on.latest = c.latest /\ on.last = c.last
        /\ on.wallets = c.wallets /\ on.visited = c.visited
        /\ on.txs = c.txs /\ on.before = c.before /\ on.paid = c.paid
    BY <1>4 DEF Cycle
  <2>2. c.phase = "save" /\ c.wallets = {}
    BY <1>1 DEF SaveCheckpoint, CycleOK, StageOK
  <2> QED
    BY <1>1, <2>1, <2>2 DEF CycleOK, StageOK, VisitedOK, RestOK, TxsOK, Due
<1>7. PICK next \in Cycle : Goto(r, next) /\ CycleOK(next)
  BY <1>1, <1>2, <1>4, <1>5, <1>6, IdleOK DEF SaveCheckpoint, LedgerToSave
<1> QED
  BY <1>3, <1>7, QuietStep DEF SaveCheckpoint, SyncInv, TypeOK

(* A call of a cycle never answers.                                        *)
LEMMA HangKeeps ==
    ASSUME SyncInv, NEW r \in Replicas, Hang(r)
    PROVE  SyncInv'
<1>1. PICK next : next = [IdleCycle EXCEPT !.phase = "hung"]
  OBVIOUS
<1>2. next \in Cycle
  BY <1>1, IdleOK DEF Cycle
<1>3. /\ next.phase = "hung" /\ next.latest = 0 /\ next.wallets = {}
      /\ next.visited = {} /\ next.txs = {} /\ next.before = MaxTxs + 1 /\ next.paid = 0
  BY <1>1 DEF IdleCycle
<1>4. CycleOK(next)
  <2>1. 0 <= height
    BY Numbers DEF SyncInv, TypeOK
  <2> QED
    BY <1>3, <2>1 DEF CycleOK, StageOK, VisitedOK, RestOK, TxsOK
<1>5. /\ Goto(r, next) /\ checkpoint' = checkpoint
      /\ UNCHANGED <<network, business, row, errors, logged, missed, job>>
  BY <1>1 DEF Hang, database
<1>6. failures' \in 0..MaxFailures
  BY Numbers DEF Hang, Failing, SyncInv, TypeOK
<1>7. checkpoint' \in 0..MaxLedger
  BY <1>5 DEF SyncInv, TypeOK
<1> QED
  BY <1>2, <1>4, <1>5, <1>6, <1>7, QuietStep

(* A cycle ends, or is abandoned.                                          *)
LEMMA EndKeeps ==
    ASSUME SyncInv, NEW r \in Replicas, EndCycle(r) \/ Interrupt(r)
    PROVE  SyncInv'
<1>1. PICK c \in Cycle : c = cycle[r]
  BY AtWork
<1>2. c.latest \in 0..MaxLedger
  BY DEF Cycle
<1>3. checkpoint' \in 0..MaxLedger
  <2>1. checkpoint' \in {checkpoint, cycle[r].latest}
    BY DEF EndCycle, Interrupt, database
  <2>2. checkpoint \in 0..MaxLedger
    BY DEF SyncInv, TypeOK
  <2> QED
    BY <1>1, <1>2, <2>1, <2>2
<1>4. failures' \in 0..MaxFailures
  BY Numbers DEF EndCycle, Interrupt, Failing, SyncInv, TypeOK
<1>5. Goto(r, IdleCycle) /\ UNCHANGED <<network, business, row, errors, logged, missed, job>>
  BY DEF EndCycle, Interrupt, database
<1>6. IdleCycle \in Cycle /\ CycleOK(IdleCycle)
  BY IdleOK
<1> QED
  BY <1>3, <1>4, <1>5, <1>6, QuietStep

-----------------------------------------------------------------------------
(* The steps of a replay.                                                  *)

(* A replay under way, and the payments it has left.                       *)
LEMMA AtReplay ==
    ASSUME SyncInv, NEW p \in Replayers, job[p] # IdleJob,
           NEW i, NEW w, i = Replayed(p).tx, w = Replayed(p).wallet
    PROVE  /\ job[p].error \in 1..Len(errors) /\ job[p] \in Job
           /\ i \in 1..Len(chain) /\ i \in 1..MaxTxs
           /\ w \in Wallets
           /\ \/ chain[i].bump
              \/ job[p].found /\ PaidTo(i, w, job[p].paid)
           /\ Left(p) \subseteq Unpaid(i, w, job[p].paid)
           /\ job[p].found => Left(p) = Unpaid(i, w, job[p].paid)
<1>1. /\ job[p].error \in 1..Len(errors)
      /\ chain[i].bump \/ (job[p].found /\ PaidTo(i, w, job[p].paid))
  BY DEF SyncInv, JobsOK, JobOK, Replayed
<1>2. i \in 1..Len(chain) /\ w \in Wallets
  BY <1>1 DEF SyncInv, ErrorsOK, Known, Replayed
<1>3. i \in 1..MaxTxs
  <2>1. Len(chain) \in Nat /\ Len(chain) <= MaxTxs
    BY LenProperties DEF SyncInv, TypeOK
  <2> QED
    BY <1>2, <2>1, Numbers
<1>4. job[p] \in Job
  BY DEF SyncInv, TypeOK
<1> QED
  BY <1>1, <1>2, <1>3, <1>4 DEF Left

(* A step of one replay keeps what the invariant says of the others.       *)
LEMMA JobsMove ==
    ASSUME TypeOK, TypeOK', Grows, ErrorsOK, JobsOK, NEW p \in Replayers,
           NEW j \in Job, job' = [job EXCEPT ![p] = j], JobOK(j)'
    PROVE  JobsOK'
<1> SUFFICES ASSUME NEW q \in Replayers PROVE JobOK(job[q])'
  BY DEF JobsOK
<1>1. CASE q = p
  BY <1>1 DEF TypeOK
<1>2. CASE q # p
  <2>1. PICK k \in Job : k = job[q]
    BY DEF TypeOK
  <2>2. JobOK(k)'
    BY <2>1, JobKept DEF JobsOK
  <2>3. job'[q] = k
    BY <1>2, <2>1 DEF TypeOK
  <2> QED
    BY <2>2, <2>3
<1> QED
  BY <1>1, <1>2

(* A request that rests holds nothing.                                     *)
LEMMA IdleJobOK == IdleJob \in Job /\ JobOK(IdleJob)'
BY DEF IdleJob, JobOK, Job

(* A replay begins with nothing indexed.                                   *)
LEMMA ReplayBeginKeeps ==
    ASSUME SyncInv, NEW p \in Replayers, NEW e \in 1..Len(errors), ReplayBegin(p, e)
    PROVE  SyncInv'
<1>1. PICK found \in IF chain[errors[e].tx].bump THEN BOOLEAN ELSE {TRUE} :
          job' = [job EXCEPT ![p] = [error |-> e, paid |-> 0, found |-> found]]
  BY DEF ReplayBegin
<1>0. PICK j : j = [error |-> e, paid |-> 0, found |-> found]
  OBVIOUS
<1>2. /\ job' = [job EXCEPT ![p] = j] /\ j \in Job
      /\ UNCHANGED <<chain, height, profile, changes, checkpoint, row, errors, logged, missed,
                     cycle, failures>>
  <2>1. found \in BOOLEAN /\ e \in Nat
    <3>1. found \in BOOLEAN
      BY <1>1
    <3>2. e \in Nat
      BY Lengths DEF SyncInv
    <3> QED
      BY <3>1, <3>2
  <2>2. j \in Job
    BY <1>0, <2>1 DEF Job
  <2> QED
    BY <1>0, <1>1, <2>2 DEF ReplayBegin, network, business, database
<1>3. TypeOK'
  <2>1. \A q \in Replayers : job'[q].error <= Len(errors')
    BY <1>0, <1>2 DEF SyncInv, TypeOK
  <2>2. job' \in [Replayers -> Job]
    BY <1>2 DEF SyncInv, TypeOK
  <2> QED
    BY <1>2, <2>1, <2>2 DEF SyncInv, TypeOK
<1>4. Grows
  BY <1>2, <1>3, Lengths, Numbers DEF SyncInv, TypeOK, Grows
<1>5. JobOK(j)'
  <2>1. PICK i, w : i = errors[e].tx /\ w = errors[e].wallet
    OBVIOUS
  <2>2. PaidTo(i, w, 0)'
    <3>1. \A k \in Relevant(i, w)' : ~(k <= 0)
      BY DEF Relevant
    <3> QED
      BY <3>1 DEF PaidTo
  <2>3. errors'[e].tx = i /\ errors'[e].wallet = w /\ e \in 1..Len(errors')
    BY <1>2, <2>1
  <2>4. j.error = e /\ j.paid = 0 /\ j.found = found
    BY <1>0
  <2>5. chain'[i].bump \/ j.found
    BY <1>1, <1>2, <2>1, <2>4
  <2> QED
    BY <2>2, <2>3, <2>4, <2>5 DEF JobOK
<1> QED
  BY <1>2, <1>3, <1>4, <1>5, JobsMove, CyclesKept, ErrorsKept, RowsKept, OrderKept DEF SyncInv

(* A replay indexes the next of the payments it has left, so that the      *)
(* payments up to it are stored, unless the transaction is a fee bump.     *)
LEMMA ReplayPaymentKeeps ==
    ASSUME SyncInv, NEW p \in Replayers, ReplayPayment(p)
    PROVE  SyncInv'
<1>1. PICK i, w, e, n : /\ e = job[p].error /\ n = job[p].paid
                        /\ i = Replayed(p).tx /\ w = Replayed(p).wallet
                        /\ i = errors[e].tx /\ w = errors[e].wallet
  BY DEF Replayed
<1>2. job[p] # IdleJob /\ Left(p) # {}
  BY DEF ReplayPayment
<1>3. /\ e \in 1..Len(errors) /\ n \in Nat /\ job[p] \in Job
      /\ i \in 1..Len(chain) /\ i \in 1..MaxTxs /\ w \in Wallets
      /\ chain[i].bump \/ (job[p].found /\ PaidTo(i, w, n))
      /\ Left(p) = Unpaid(i, w, n)
  BY <1>1, <1>2, AtReplay DEF Left, Job
<1>4. PICK k : k = Min(Left(p))
  OBVIOUS
<1>5. /\ k \in Unpaid(i, w, n) /\ \A x \in Unpaid(i, w, n) : k <= x
      /\ k \in Nat \ {0} /\ \A x \in Unpaid(i, w, n) : x \in Nat
  <2>1. \A x \in Unpaid(i, w, n) : x \in Nat \ {0}
    BY DEF Unpaid, Relevant
  <2> QED
    BY <1>2, <1>3, <1>4, <2>1, LeastOf
<1>6. PICK j : j = [job[p] EXCEPT !.paid = k]
  OBVIOUS
<1>0. PICK hash : hash = ReplayedHash(p)
  OBVIOUS
<1>7. /\ job' = [job EXCEPT ![p] = j] /\ j \in Job
      /\ j.error = e /\ j.paid = k /\ j.found = job[p].found
      /\ IndexPayment(i, hash, k) /\ Miss(i, w, k)
      /\ UNCHANGED <<chain, height, profile, changes, checkpoint, errors, logged, cycle, failures>>
  <2>1. /\ j \in Job /\ j.error = e /\ j.paid = k /\ j.found = job[p].found
    BY <1>1, <1>3, <1>5, <1>6 DEF Job
  <2>2. job' = [job EXCEPT ![p] = j]
    BY <1>4, <1>6 DEF ReplayPayment
  <2>3. /\ IndexPayment(i, hash, k) /\ Miss(i, w, k)
        /\ UNCHANGED <<chain, height, profile, changes, checkpoint, errors, logged, cycle, failures>>
    BY <1>0, <1>1, <1>4 DEF ReplayPayment, network, business
  <2> QED
    BY <2>1, <2>2, <2>3
<1>8. /\ row' \in [EventId -> Nat] /\ missed' \subseteq (1..MaxTxs) \X Wallets
      /\ \A id \in EventId : row[id] # 0 => row'[id] = row[id]
      /\ missed \subseteq missed' /\ RowsOK'
      /\ hash = "own" => Paid(i, w, k)'
  <2>1. hash \in Hashes /\ k \in Relevant(i, w) /\ TypeOK /\ RowsOK
    BY <1>0, <1>5 DEF SyncInv, Hashes, ReplayedHash, Unpaid
  <2> QED
    BY <1>3, <1>7, <2>1, PaymentStored
<1>9. TypeOK'
  <2>1. \A q \in Replayers : job'[q].error <= Len(errors')
    BY <1>3, <1>7 DEF SyncInv, TypeOK
  <2>2. job' \in [Replayers -> Job]
    BY <1>7 DEF SyncInv, TypeOK
  <2> QED
    BY <1>7, <1>8, <2>1, <2>2 DEF SyncInv, TypeOK
<1>10. Grows
  BY <1>7, <1>8, <1>9, Lengths, Numbers DEF SyncInv, TypeOK, Grows
<1>11. Relevant(i, w)' = Relevant(i, w) /\ (PaidTo(i, w, n) => PaidTo(i, w, n)')
  BY <1>3, <1>9, <1>10, PaidKept, ChainKept DEF SyncInv
<1>12. ASSUME ~chain[i].bump PROVE PaidTo(i, w, k)'
  <2> SUFFICES ASSUME NEW x \in Relevant(i, w)', x <= k PROVE Paid(i, w, x)'
    BY DEF PaidTo
  <2>0. hash = "own" /\ PaidTo(i, w, n)'
    BY <1>0, <1>1, <1>3, <1>11, <1>12 DEF ReplayedHash
  <2>1. CASE x <= n
    BY <2>0, <2>1 DEF PaidTo
  <2>2. CASE x > n
    <3>1. x \in Unpaid(i, w, n)
      BY <2>2, <1>11 DEF Unpaid
    <3>2. x = k
      BY <3>1, <1>5
    <3> QED
      BY <3>2, <2>0, <1>8
  <2> QED
    BY <2>1, <2>2, <1>3, <1>11 DEF Relevant
<1>13. JobOK(j)'
  <2>1. chain'[i].bump \/ (j.found /\ PaidTo(i, w, j.paid)')
    BY <1>3, <1>7, <1>12
  <2> QED
    BY <1>1, <1>3, <1>7, <2>1 DEF JobOK
<1> QED
  BY <1>7, <1>8, <1>9, <1>10, <1>13, JobsMove, CyclesKept, ErrorsKept, OrderKept DEF SyncInv

(* The end of a replay: its dead letter keeps transaction and wallet, and  *)
(* is marked resolved only when nothing is left.                           *)
LEMMA ReplayEndKeeps ==
    ASSUME SyncInv, NEW p \in Replayers, ReplayResolve(p) \/ ReplayFail(p)
    PROVE  SyncInv'
<1>1. PICK i, w, e, n : /\ e = job[p].error /\ n = job[p].paid
                        /\ i = Replayed(p).tx /\ w = Replayed(p).wallet
                        /\ i = errors[e].tx /\ w = errors[e].wallet
  BY DEF Replayed
<1>2. job[p] # IdleJob
  BY DEF ReplayResolve, ReplayFail
<1>3. /\ e \in 1..Len(errors) /\ n \in Nat
      /\ i \in 1..Len(chain)
      /\ chain[i].bump \/ (PaidTo(i, w, n) /\ Left(p) = Unpaid(i, w, n))
  BY <1>1, <1>2, AtReplay DEF Job
<1>4. /\ job' = [job EXCEPT ![p] = IdleJob]
      /\ UNCHANGED <<chain, height, profile, changes, checkpoint, row, logged, missed, cycle>>
      /\ failures' \in 0..MaxFailures
  <2>1. job' = [job EXCEPT ![p] = IdleJob]
    BY DEF ReplayResolve, ReplayFail
  <2>2. UNCHANGED <<chain, height, profile, changes, checkpoint, row, logged, missed, cycle>>
    BY DEF ReplayResolve, ReplayFail, network, business
  <2>3. failures' = failures \/ Failing
    BY DEF ReplayResolve, ReplayFail
  <2>4. failures' \in 0..MaxFailures
    BY <2>3, Numbers DEF Failing, SyncInv, TypeOK
  <2> QED
    BY <2>1, <2>2, <2>4
<1>5. errors \in Seq(DeadLetterRow) /\ errors[e] \in DeadLetterRow
  <2>1. errors \in Seq(DeadLetterRow)
    BY DEF SyncInv, TypeOK
  <2> QED
    BY <2>1, <1>3, ElementOfSeq
<1>6. PICK letter \in DeadLetterRow :
          /\ errors' = [errors EXCEPT ![e] = letter]
          /\ letter.tx = i /\ letter.wallet = w
          /\ letter.resolved => errors[e].resolved \/ Left(p) = {}
  <2>1. CASE ReplayResolve(p)
    <3>1. PICK letter : letter = [errors[e] EXCEPT !.resolved = TRUE]
      OBVIOUS
    <3>2. /\ letter \in DeadLetterRow
          /\ letter.tx = errors[e].tx /\ letter.wallet = errors[e].wallet
      BY <3>1, <1>5 DEF DeadLetterRow
    <3>3. errors' = [errors EXCEPT ![e] = letter]
      BY <2>1, <3>1, <1>1 DEF ReplayResolve
    <3>4. Left(p) = {}
      BY <2>1 DEF ReplayResolve
    <3> QED
      BY <3>2, <3>3, <3>4, <1>1
  <2>2. CASE ReplayFail(p) /\ UNCHANGED errors
    <3>1. errors' = [errors EXCEPT ![e] = errors[e]]
      BY <2>2, <1>5
    <3> QED
      BY <3>1, <1>1, <1>5
  <2>3. CASE ReplayFail(p) /\ ~UNCHANGED errors
    <3>0. PICK old \in DeadLetterRow : old = errors[e]
      BY <1>5
    <3>1. PICK letter : letter = [errors[e] EXCEPT !.retryCount = @ + 1]
      OBVIOUS
    <3>2. letter \in DeadLetterRow /\ letter.tx = old.tx /\ letter.wallet = old.wallet
      BY <3>0, <3>1 DEF DeadLetterRow
    <3>4. letter.resolved = old.resolved
      BY <3>0, <3>1, Zenon DEF DeadLetterRow
    <3>3. errors' = [errors EXCEPT ![e] = letter]
      BY <2>3, <3>1, <1>1 DEF ReplayFail
    <3> QED
      BY <3>0, <3>2, <3>3, <3>4, <1>1
  <2> QED
    BY <2>1, <2>2, <2>3
<1>7. /\ errors' \in Seq(DeadLetterRow) /\ Len(errors') = Len(errors)
      /\ \A x \in 1..Len(errors) : x # e => errors'[x] = errors[x]
      /\ errors'[e] = letter
  BY <1>3, <1>5, <1>6
<1>8. TypeOK'
  <2>1. job' \in [Replayers -> Job]
    BY <1>4, IdleJobOK DEF SyncInv, TypeOK
  <2>2. \A q \in Replayers : job'[q].error <= Len(errors')
    BY <1>4, <1>7, LenProperties DEF SyncInv, TypeOK, IdleJob
  <2> QED
    BY <1>4, <1>7, <2>1, <2>2 DEF SyncInv, TypeOK
<1>9. Grows
  BY <1>1, <1>4, <1>6, <1>7, <1>8, Lengths, Numbers DEF SyncInv, TypeOK, Grows
<1>10. ErrorsOK'
  <2> SUFFICES ASSUME NEW x \in 1..Len(errors')
               PROVE  /\ Known(errors[x].tx, errors[x].wallet)'
                      /\ errors'[x].resolved =>
                             (Stored(errors[x].tx, errors[x].wallet)
                                 \/ chain[errors[x].tx].bump)'
    BY DEF ErrorsOK
  <2>1. /\ x \in 1..Len(errors) /\ Known(errors[x].tx, errors[x].wallet)'
        /\ errors[x].resolved =>
               (Stored(errors[x].tx, errors[x].wallet) \/ chain[errors[x].tx].bump)'
    BY <1>7, <1>8, <1>9, ErrorKept DEF SyncInv
  <2>2. CASE x # e
    BY <2>1, <2>2, <1>7
  <2>3. CASE x = e
    <3>0. errors'[x].tx = i /\ errors'[x].wallet = w
      BY <2>3, <1>6, <1>7
    <3>1. CASE letter.resolved /\ Left(p) = {}
      <4>1. CASE chain[i].bump
        BY <4>1, <3>0, <2>1, <1>3, <1>4
      <4>2. CASE ~chain[i].bump
        <5>1. PaidTo(i, w, n)' /\ Relevant(i, w)' = Relevant(i, w)
          BY <4>2, <1>3, <1>8, <1>9, PaidKept, ChainKept DEF SyncInv
        <5>2. \A k \in Relevant(i, w) : k <= n
          BY <4>2, <3>1, <1>3 DEF Unpaid, Relevant
        <5>3. \A k \in Relevant(i, w)' : Paid(i, w, k)'
          BY <5>1, <5>2 DEF PaidTo
        <5>4. Stored(i, w)'
          BY <5>3, StoredIffPaid
        <5>5. Stored(errors[x].tx, errors[x].wallet)'
          BY <5>4, <3>0, StoredOfLetter
        <5> QED
          BY <5>5, <2>1
      <4> QED
        BY <4>1, <4>2
    <3>2. CASE ~(letter.resolved /\ Left(p) = {})
      BY <3>2, <2>1, <2>3, <1>6, <1>7
    <3> QED
      BY <3>1, <3>2
  <2> QED
    BY <2>2, <2>3
<1> QED
  BY <1>4, <1>8, <1>9, <1>10, IdleJobOK, JobsMove, CyclesKept, RowsKept, OrderKept DEF SyncInv

-----------------------------------------------------------------------------
(* The network and the web application.                                    *)

(* A ledger closes: no cycle that has begun owes its transactions to       *)
(* anybody.                                                                *)
LEMMA CloseKeeps ==
    ASSUME SyncInv, NEW batch \in Batches, CloseLedger(batch)
    PROVE  SyncInv'
<1>1. batch \in Seq(Transaction) /\ Len(batch) \in Nat
  BY SyncAssumption, LenProperties
<1>2. PICK new : new = [k \in 1..Len(batch) |->
                          [ledger |-> height + 1, bump |-> batch[k].bump,
                           payments |-> batch[k].payments]]
  OBVIOUS
<1>3. /\ chain' = chain \o new /\ height' = height + 1
      /\ height < MaxLedger /\ Len(chain) + Len(batch) <= MaxTxs
      /\ UNCHANGED <<profile, changes, checkpoint, row, errors, logged, missed, cycle, job,
                     failures>>
  BY <1>2 DEF CloseLedger, business, database
<1>4. height \in Nat /\ height + 1 \in 1..MaxLedger
  BY <1>3, Numbers DEF SyncInv, TypeOK
<1> DEFINE T == Entry
<1>5. new \in Seq(T) /\ Len(new) = Len(batch)
  <2>1. \A k \in 1..Len(batch) : batch[k] \in Transaction
    BY <1>1, ElementOfSeq
  <2>2. \A k \in 1..Len(batch) :
            [ledger |-> height + 1, bump |-> batch[k].bump, payments |-> batch[k].payments] \in T
    BY <1>4, <2>1 DEF Entry, Transaction
  <2> HIDE DEF T
  <2>3. new \in [1..Len(batch) -> T]
    BY <1>2, <2>2
  <2> QED
    BY <1>1, <2>3
<1>6. chain \in Seq(T) /\ Len(chain) \in Nat
  BY LenProperties DEF SyncInv, TypeOK
<1>7. /\ chain' \in Seq(T) /\ Len(chain') = Len(chain) + Len(batch)
      /\ \A i \in 1..Len(chain) : chain'[i] = chain[i]
      /\ \A i \in 1..Len(chain') : i > Len(chain) => chain'[i].ledger = height + 1
  <2>1. chain' \in Seq(T) /\ Len(chain') = Len(chain) + Len(batch)
    <3> HIDE DEF T
    <3>1. chain \o new \in Seq(T) /\ Len(chain \o new) = Len(chain) + Len(new)
      BY <1>5, <1>6, ConcatProperties
    <3> QED
      BY <3>1, <1>3, <1>5
  <2>2. \A i \in 1..Len(chain') :
            chain'[i] = IF i <= Len(chain) THEN chain[i] ELSE new[i - Len(chain)]
    <3> HIDE DEF T
    <3> QED BY <1>3, <1>5, <1>6, ConcatProperties
  <2>3. \A k \in 1..Len(batch) : new[k].ledger = height + 1
    BY <1>2
  <2>4. \A i \in 1..Len(chain) : i \in 1..Len(chain') /\ i <= Len(chain)
    BY <2>1, <1>1, <1>6
  <2>5. \A i \in 1..Len(chain') :
            i > Len(chain) => ~(i <= Len(chain)) /\ i - Len(chain) \in 1..Len(batch)
    BY <2>1, <1>1, <1>6
  <2>6. \A i \in 1..Len(chain) : chain'[i] = chain[i]
    BY <2>2, <2>4
  <2>7. \A i \in 1..Len(chain') : i > Len(chain) => chain'[i].ledger = height + 1
    BY <2>2, <2>3, <2>5
  <2> HIDE DEF T
  <2> QED
    BY <2>1, <2>6, <2>7
<1>8. TypeOK'
  BY <1>3, <1>4, <1>7, <1>6, <1>1, Numbers DEF SyncInv, TypeOK
<1>9. Grows
  <2>1. Len(chain) <= Len(chain') /\ height <= height'
    BY <1>1, <1>3, <1>4, <1>6, <1>7
  <2>2. \A i \in 1..Len(chain') : i > Len(chain) => chain'[i].ledger > height
    BY <1>4, <1>7
  <2> QED
    BY <2>1, <2>2, <1>3, <1>7, <1>8, Lengths DEF SyncInv, Grows
<1>10. InOrder'
  <2> SUFFICES ASSUME NEW i \in 1..Len(chain'), NEW j \in 1..Len(chain'), i <= j
               PROVE  chain'[i].ledger <= chain'[j].ledger /\ chain'[j].ledger <= height'
    BY DEF InOrder, Ledger
  <2>1. \A x \in 1..Len(chain) : chain[x].ledger \in Int /\ chain[x].ledger <= height
    <3> SUFFICES ASSUME NEW x \in 1..Len(chain)
                 PROVE  chain[x].ledger \in Int /\ chain[x].ledger <= height
      OBVIOUS
    <3>1. chain[x] \in T
      <4> HIDE DEF T
      <4> QED BY <1>6, ElementOfSeq
    <3>2. chain[x].ledger \in Int
      BY <3>1, Numbers DEF Entry
    <3>3. x <= x
      BY <1>6
    <3>4. chain[x].ledger <= height
      BY <3>3 DEF SyncInv, InOrder, Ledger
    <3> QED
      BY <3>2, <3>4
  <2>2. CASE j \in 1..Len(chain)
    <3>1. i \in 1..Len(chain)
      BY <2>2, <1>6
    <3>2. chain[i].ledger <= chain[j].ledger /\ chain[j].ledger <= height
      BY <2>2, <3>1 DEF SyncInv, InOrder, Ledger
    <3>3. chain'[i] = chain[i] /\ chain'[j] = chain[j]
      BY <2>2, <3>1, <1>7
    <3>4. chain[j].ledger \in Int /\ height \in Int /\ height' = height + 1
      BY <2>1, <2>2, <1>3, <1>4
    <3> HIDE DEF T
    <3> QED
      BY <3>2, <3>3, <3>4
  <2>3. CASE j \notin 1..Len(chain)
    <3>1. j > Len(chain)
      BY <2>3, <1>6
    <3>2. chain'[j].ledger = height + 1
      BY <3>1, <1>7
    <3>3. chain'[i].ledger <= height + 1
      <4>1. CASE i \in 1..Len(chain)
        <5>1. chain'[i] = chain[i] /\ chain[i].ledger \in Int /\ chain[i].ledger <= height
          BY <4>1, <2>1, <1>7
        <5> QED
          BY <5>1, <1>4
      <4>2. CASE i \notin 1..Len(chain)
        <5>1. i > Len(chain)
          BY <4>2, <1>6
        <5>2. chain'[i].ledger = height + 1
          BY <5>1, <1>7
        <5> QED
          BY <5>2, <1>4
      <4> QED
        BY <4>1, <4>2
    <3> QED
      BY <3>2, <3>3, <1>3, <1>4
  <2> QED
    BY <2>2, <2>3
<1> QED
  BY <1>3, <1>8, <1>9, <1>10, JobsKept, CyclesKept, ErrorsKept, RowsKept DEF SyncInv

(* Businesses come and go, but their rows stay.                            *)
LEMMA ProfileKeeps ==
    ASSUME SyncInv, NEW w \in Wallets,
           Register(w) \/ Deactivate(w) \/ Reactivate(w) \/ Unlink(w) \/ Relink(w)
    PROVE  SyncInv'
<1>0. /\ UNCHANGED <<network, checkpoint, row, errors, logged, missed, cycle, job, failures>>
      /\ \E state \in {"active", "inactive", "unlinked"} :
             profile' = [profile EXCEPT ![w] = state]
      /\ changes' = changes \/ (changes < MaxChanges /\ changes' = changes + 1)
  BY DEF Register, Deactivate, Reactivate, Unlink, Relink, Change, Profile
<1>1. /\ UNCHANGED <<chain, height, checkpoint, row, errors, logged, missed, cycle, job, failures>>
      /\ profile' \in [Wallets -> {"none", "active", "inactive", "unlinked"}]
      /\ changes' \in 0..MaxChanges
  BY <1>0, Numbers DEF network, SyncInv, TypeOK
<1>2. TypeOK'
  BY <1>1 DEF SyncInv, TypeOK
<1>3. Grows
  BY <1>1, <1>2, Lengths, Numbers DEF SyncInv, TypeOK, Grows
<1> QED
  BY <1>1, <1>2, <1>3, JobsKept, CyclesKept, ErrorsKept, RowsKept, OrderKept DEF SyncInv

-----------------------------------------------------------------------------
(* The invariant holds at first,                                           *)
LEMMA SyncBegins == Init => SyncInv
<1> SUFFICES ASSUME Init PROVE SyncInv
  OBVIOUS
<1>1. TypeOK
  <2>1. cycle \in [Replicas -> Cycle]
    <3>1. IdleCycle \in Cycle
      BY Numbers DEF IdleCycle, Cycle
    <3> QED
      BY <3>1 DEF Init
  <2>2. job \in [Replayers -> Job]
    BY DEF Init, IdleJob, Job
  <2> QED
    BY <2>1, <2>2, Numbers DEF Init, TypeOK, IdleJob
<1>2. CycleOK(IdleCycle)
  BY DEF Init, IdleCycle, CycleOK, StageOK, VisitedOK, RestOK, TxsOK
<1> QED
  BY <1>1, <1>2 DEF Init, SyncInv, InOrder, RowsOK, RowOK, CyclesOK, ErrorsOK, JobsOK, JobOK

(* every step keeps it,                                                    *)
LEMMA SyncStep == SyncInv /\ [Next]_vars => SyncInv'
<1> SUFFICES ASSUME SyncInv, [Next]_vars PROVE SyncInv'
  OBVIOUS
<1>1. CASE Environment
  BY <1>1, CloseKeeps, ProfileKeeps DEF Environment
<1>2. ASSUME NEW r \in Replicas, CycleStep(r) PROVE SyncInv'
  BY <1>2, BeginKeeps, ReadCheckpointKeeps, ListWalletsKeeps, FetchKeeps, ProcessKeeps,
     SaveKeeps, EndKeeps DEF CycleStep
<1>3. ASSUME NEW r \in Replicas, Fault(r) PROVE SyncInv'
  BY <1>3, DeadLetterKeeps, DeadLetterLostKeeps, HangKeeps, EndKeeps DEF Fault
<1>4. ASSUME NEW p \in Replayers, ReplayStep(p) PROVE SyncInv'
  BY <1>4, ReplayBeginKeeps, ReplayPaymentKeeps, ReplayEndKeeps DEF ReplayStep
<1>5. CASE UNCHANGED vars
  <2>1. UNCHANGED <<chain, height, profile, changes, checkpoint, row, errors, logged, missed,
                    cycle, job, failures>>
    BY <1>5 DEF vars, network, business, database
  <2>2. TypeOK'
    BY <2>1 DEF SyncInv, TypeOK
  <2>3. Grows
    BY <2>1, <2>2, Lengths, Numbers DEF SyncInv, TypeOK, Grows
  <2> QED
    BY <2>1, <2>2, <2>3, JobsKept, CyclesKept, ErrorsKept, RowsKept, OrderKept DEF SyncInv
<1> QED
  BY <1>1, <1>2, <1>3, <1>4, <1>5 DEF Next

(* and so it always holds.                                                 *)
LEMMA SyncIsSound == Spec => []SyncInv
BY SyncBegins, SyncStep, PTL DEF Spec

(* Every variable keeps its type.                                          *)
THEOREM TypeCorrect == Spec => []TypeOK
<1>1. SyncInv => TypeOK
  BY DEF SyncInv
<1> QED
  BY <1>1, SyncIsSound, PTL

(* When a replica moves the checkpoint, no transaction it owed a wallet is *)
(* forgotten (sync-ledger.ts), whatever the page sizes, the chain, the     *)
(* failures, the other replicas and the owners who link and unlink         *)
(* wallets: each of its payments has its own row or lost its event id to   *)
(* another payment of the transaction, or the failure is on record, or no  *)
(* row named the wallet when it was indexed.                               *)
THEOREM CoverageCorrect == Spec => []CycleCovers
<1>1. SyncInv => CycleCovers
  <2> SUFFICES ASSUME SyncInv, NEW r \in Replicas, NEW w \in cycle[r].visited,
                      NEW i \in 1..Len(chain), Due(cycle[r], i, w)
               PROVE  Outcome(i, w)
    BY DEF CycleCovers, Due, Outcome
  <2> QED
    BY DEF SyncInv, CyclesOK, CycleOK, VisitedOK
<1> QED
  BY <1>1, SyncIsSound, PTL

(* A resolved dead letter has its wallet's events in the database          *)
(* (routes/admin.ts), for any number of replays, replicas and failures:    *)
(* the payments' own rows or rivals' under their ids, unless no row named  *)
(* the wallet when it was indexed, or the transaction is a fee bump, whose *)
(* replay finds other hashes than the sync.                                *)
THEOREM ReplaysIndex == Spec => []ResolvedIsIndexed
<1>1. SyncInv => ResolvedIsIndexed
  BY DEF SyncInv, ErrorsOK, Stored, ResolvedIsIndexed
<1> QED
  BY <1>1, SyncIsSound, PTL

-----------------------------------------------------------------------------
(* The retries of a dead letter.                                           *)

\* The replays of dead letter e under way.
On(e) == {p \in Replayers : job[p].error = e}

\* No dead letter gets more failures than the limit and what overruns it.
Cap == MAX_RETRIES - 1 + Max({1, Cardinality(Replayers)})

\* Each replay under way may still add one to the count.
Retries ==
    \A e \in 1..Len(errors) : errors[e].retryCount + Cardinality(On(e)) <= Cap

(* The cap is above what a replay admitted at the limit can reach.         *)
LEMMA CapBounds ==
    /\ Cardinality(Replayers) \in Nat /\ Cap \in Nat
    /\ MAX_RETRIES - 1 + Cardinality(Replayers) <= Cap
    /\ \A n \in Int : n <= Cap => n < MAX_RETRIES + Max({1, Cardinality(Replayers)})
<1>1. PICK c \in Nat : c = Cardinality(Replayers)
  BY SyncAssumption, FS_CardinalityType
<1>2. PICK m : m = Max({1, c})
  OBVIOUS
<1>3. m \in {1, c} /\ 1 <= m /\ c <= m
  <2>1. {1, c} \in SUBSET (0..(c + 1)) /\ c + 1 \in Nat
    BY <1>1
  <2> QED
    BY <1>2, <2>1, GreatestOf
<1>4. m \in Nat /\ MAX_RETRIES \in Nat
  BY <1>1, <1>3, Numbers
<1>5. Cap = MAX_RETRIES - 1 + m
  BY <1>1, <1>2 DEF Cap
<1> QED
  BY <1>1, <1>2, <1>3, <1>4, <1>5

(* The replays of a dead letter can be counted.                            *)
LEMMA OnCounted ==
    ASSUME NEW e
    PROVE  /\ IsFiniteSet(On(e)) /\ IsFiniteSet(On(e)')
           /\ Cardinality(On(e)) \in Nat /\ Cardinality(On(e)') \in Nat
           /\ Cardinality(On(e)) <= Cardinality(Replayers)
           /\ Cardinality(On(e)') <= Cardinality(Replayers)
<1>1. On(e) \in SUBSET Replayers /\ On(e)' \in SUBSET Replayers
  BY DEF On
<1> QED
  BY <1>1, SyncAssumption, FS_Subset, FS_CardinalityType

(* A dead letter's row has a number of retries.                            *)
LEMMA RetryCount ==
    ASSUME TypeOK, NEW e \in 1..Len(errors)
    PROVE  errors[e].retryCount \in Nat
<1>1. errors[e] \in DeadLetterRow
  <2>1. errors \in Seq(DeadLetterRow)
    BY DEF TypeOK
  <2> QED
    BY <2>1, ElementOfSeq
<1> QED
  BY <1>1 DEF DeadLetterRow

(* Steps that start and end no replay.                                     *)
LEMMA RetriesKept ==
    ASSUME TypeOK, TypeOK', Retries, job' = job,
           errors' = errors \/ \E i, w : errors' = Append(errors,
               [tx |-> i, wallet |-> w, retryCount |-> 0, resolved |-> FALSE])
    PROVE  Retries'
<1>1. \A e : On(e)' = On(e)
  BY DEF On
<1>2. CASE errors' = errors
  BY <1>1, <1>2 DEF Retries, Cap
<1>3. CASE errors' # errors
  <2>1. PICK i, w : errors' = Append(errors,
               [tx |-> i, wallet |-> w, retryCount |-> 0, resolved |-> FALSE])
    BY <1>3
  <2>2. errors \in Seq(DeadLetterRow) /\ Len(errors) \in Nat
    BY Lengths DEF TypeOK
  <2>3. PICK new : new = [tx |-> i, wallet |-> w, retryCount |-> 0, resolved |-> FALSE]
    OBVIOUS
  <2>4. /\ Len(errors') = Len(errors) + 1 /\ errors'[Len(errors) + 1] = new
        /\ \A e \in 1..Len(errors) : errors'[e] = errors[e]
    BY <2>1, <2>2, <2>3, AppendProperties
  <2> SUFFICES ASSUME NEW e \in 1..Len(errors')
               PROVE  errors'[e].retryCount + Cardinality(On(e)') <= Cap
    BY DEF Retries, Cap
  <2>5. CASE e \in 1..Len(errors)
    BY <2>4, <2>5, <1>1 DEF Retries
  <2>6. CASE e \notin 1..Len(errors)
    <3>1. e = Len(errors) + 1
      BY <2>2, <2>4, <2>6
    <3>2. ASSUME NEW p \in Replayers PROVE job'[p].error # e
      <4>1. job[p] \in Job /\ job[p].error <= Len(errors)
        BY DEF TypeOK
      <4>2. job[p].error \in Nat
        BY <4>1 DEF Job
      <4> QED
        BY <2>2, <3>1, <4>1, <4>2
    <3>3. On(e)' = {}
      BY <3>2 DEF On
    <3>4. errors'[e].retryCount = 0
      BY <2>3, <2>4, <3>1
    <3> QED
      BY <3>3, <3>4, FS_EmptySet, CapBounds
  <2> QED
    BY <2>5, <2>6
<1> QED
  BY <1>2, <1>3

(* A replay is admitted below the limit, beside at most all the others.    *)
LEMMA RetriesBegin ==
    ASSUME SyncInv, SyncInv', Retries,
           NEW p \in Replayers, NEW e \in 1..Len(errors), ReplayBegin(p, e)
    PROVE  Retries'
<1>1. errors' = errors /\ errors[e].retryCount < MAX_RETRIES
  BY DEF ReplayBegin, MayReplay, database
<1>2. /\ \A q \in Replayers : q # p => job'[q] = job[q]
      /\ job[p].error = 0 /\ job'[p].error = e
  <2>1. PICK found : job' = [job EXCEPT ![p] = [error |-> e, paid |-> 0, found |-> found]]
    BY DEF ReplayBegin
  <2> QED
    BY <2>1 DEF ReplayBegin, IdleJob, SyncInv, TypeOK
<1> SUFFICES ASSUME NEW x \in 1..Len(errors)
             PROVE  errors[x].retryCount + Cardinality(On(x)') <= Cap
  BY <1>1 DEF Retries, Cap
<1>3. CASE x = e
  <2>1. errors[e].retryCount \in Nat
    BY RetryCount DEF SyncInv
  <2>2. Cardinality(On(e)') \in Nat /\ Cardinality(On(e)') <= Cardinality(Replayers)
    BY OnCounted
  <2> QED
    BY <1>1, <1>3, <2>1, <2>2, CapBounds, Numbers
<1>4. CASE x # e
  <2>1. x # 0
    OBVIOUS
  <2>2. On(x)' = On(x)
    BY <1>2, <1>4, <2>1 DEF On
  <2> QED
    BY <2>2 DEF Retries
<1> QED
  BY <1>3, <1>4

(* A replay that ends leaves the count alone or takes its place in it.     *)
LEMMA RetriesEnd ==
    ASSUME SyncInv, SyncInv', Retries, NEW p \in Replayers,
           ReplayResolve(p) \/ ReplayFail(p)
    PROVE  Retries'
<1>1. PICK e : e = job[p].error
  OBVIOUS
<1>2. e \in 1..Len(errors) /\ job[p] # IdleJob
  <2>1. job[p] # IdleJob
    BY DEF ReplayResolve, ReplayFail
  <2> QED
    BY <1>1, <2>1, AtReplay
<1>3. /\ \A q \in Replayers : q # p => job'[q] = job[q]
      /\ job'[p].error = 0
  BY DEF ReplayResolve, ReplayFail, IdleJob, SyncInv, TypeOK
<1>4. errors \in Seq(DeadLetterRow) /\ errors[e] \in DeadLetterRow
  <2>1. errors \in Seq(DeadLetterRow)
    BY DEF SyncInv, TypeOK
  <2> QED
    BY <2>1, <1>2, ElementOfSeq
<1>5. PICK row1 : row1 = errors[e] /\ row1.retryCount \in Nat
  BY <1>4 DEF DeadLetterRow
<1>6. PICK letter : /\ errors' = [errors EXCEPT ![e] = letter]
                    /\ letter.retryCount \in {row1.retryCount, row1.retryCount + 1}
  <2>1. CASE ReplayResolve(p)
    <3>1. PICK letter : letter = [errors[e] EXCEPT !.resolved = TRUE]
      OBVIOUS
    <3>2. letter.retryCount = row1.retryCount
      BY <3>1, <1>4, <1>5 DEF DeadLetterRow
    <3>3. errors' = [errors EXCEPT ![e] = letter]
      BY <2>1, <3>1, <1>1 DEF ReplayResolve
    <3> QED
      BY <3>2, <3>3
  <2>2. CASE ReplayFail(p) /\ UNCHANGED errors
    <3>1. errors' = [errors EXCEPT ![e] = errors[e]]
      BY <2>2, <1>4
    <3> QED
      BY <3>1, <1>5
  <2>3. CASE ReplayFail(p) /\ ~UNCHANGED errors
    <3>1. PICK letter : letter = [errors[e] EXCEPT !.retryCount = @ + 1]
      OBVIOUS
    <3>2. letter.retryCount = row1.retryCount + 1
      BY <3>1, <1>4, <1>5 DEF DeadLetterRow
    <3>3. errors' = [errors EXCEPT ![e] = letter]
      BY <2>3, <3>1, <1>1 DEF ReplayFail
    <3> QED
      BY <3>2, <3>3
  <2> QED
    BY <2>1, <2>2, <2>3
<1>7. /\ Len(errors') = Len(errors) /\ errors'[e] = letter
      /\ \A x \in 1..Len(errors) : x # e => errors'[x] = errors[x]
  BY <1>2, <1>4, <1>6
<1> SUFFICES ASSUME NEW x \in 1..Len(errors)
             PROVE  errors'[x].retryCount + Cardinality(On(x)') <= Cap
  BY <1>7 DEF Retries, Cap
<1>8. CASE x = e
  <2>1. p \in On(e) /\ On(e)' = On(e) \ {p}
    BY <1>1, <1>2, <1>3 DEF On
  <2>2. Cardinality(On(e)') = Cardinality(On(e)) - 1
    BY <2>1, OnCounted, FS_RemoveElement
  <2>3. row1.retryCount + Cardinality(On(e)) <= Cap
    BY <1>2, <1>5 DEF Retries
  <2> QED
    BY <1>5, <1>6, <1>7, <1>8, <2>2, <2>3, OnCounted, CapBounds
<1>9. CASE x # e
  <2>1. On(x)' = On(x)
    BY <1>1, <1>3, <1>9 DEF On
  <2> QED
    BY <2>1, <1>7, <1>9 DEF Retries
<1> QED
  BY <1>8, <1>9

(* A payment of a replay leaves the replay on its dead letter.             *)
LEMMA RetriesPayment ==
    ASSUME SyncInv, SyncInv', Retries, NEW p \in Replayers, ReplayPayment(p)
    PROVE  Retries'
<1>1. errors' = errors /\ job' = [job EXCEPT ![p].paid = Min(Left(p))]
  BY DEF ReplayPayment
<1>2. \A q \in Replayers : job'[q].error = job[q].error
  <2> SUFFICES ASSUME NEW q \in Replayers PROVE job'[q].error = job[q].error
    OBVIOUS
  <2>1. PICK j \in Job : j = job[p]
    BY DEF SyncInv, TypeOK
  <2>2. PICK new : new = [j EXCEPT !.paid = Min(Left(p))]
    OBVIOUS
  <2>3. new.error = j.error
    BY <2>2
  <2>4. job' = [job EXCEPT ![p] = new]
    BY <1>1, <2>1, <2>2
  <2> QED
    BY <2>1, <2>3, <2>4 DEF SyncInv, TypeOK
<1>3. \A e : On(e)' = On(e)
  BY <1>2 DEF On
<1> QED
  BY <1>1, <1>3 DEF Retries, Cap

(* Every step keeps the bound on the retries.                              *)
LEMMA RetriesStep == SyncInv /\ SyncInv' /\ Retries /\ [Next]_vars => Retries'
<1> SUFFICES ASSUME SyncInv, SyncInv', Retries, [Next]_vars PROVE Retries'
  OBVIOUS
<1>0. TypeOK /\ TypeOK'
  BY DEF SyncInv
<1>1. CASE Environment
  <2>1. job' = job /\ errors' = errors
    BY <1>1 DEF Environment, CloseLedger, Register, Deactivate, Reactivate, Unlink, Relink,
                Change, Profile, database
  <2> QED
    BY <1>0, <2>1, RetriesKept
<1>2. ASSUME NEW r \in Replicas, CycleStep(r) PROVE Retries'
  <2>1. job' = job /\ errors' = errors
    BY <1>2 DEF CycleStep, BeginCycle, ReadCheckpoint, ListWallets, FetchTransactions,
                ProcessPayment, SaveCheckpoint, EndCycle, database
  <2> QED
    BY <1>0, <2>1, RetriesKept
<1>3. ASSUME NEW r \in Replicas, Fault(r) PROVE Retries'
  <2>1. CASE DeadLetter(r)
    <3>1. job' = job
      BY <2>1 DEF DeadLetter
    <3>2. errors' = Append(errors, [tx |-> Tx(r), wallet |-> Wallet(r),
                                    retryCount |-> 0, resolved |-> FALSE])
      BY <2>1 DEF DeadLetter
    <3> QED
      BY <1>0, <3>1, <3>2, RetriesKept
  <2>2. CASE DeadLetterLost(r) \/ Hang(r) \/ Interrupt(r)
    <3>1. job' = job /\ errors' = errors
      BY <2>2 DEF DeadLetterLost, Hang, Interrupt, database
    <3> QED
      BY <1>0, <3>1, RetriesKept
  <2> QED
    BY <1>3, <2>1, <2>2 DEF Fault
<1>4. ASSUME NEW p \in Replayers, ReplayStep(p) PROVE Retries'
  BY <1>4, RetriesBegin, RetriesPayment, RetriesEnd DEF ReplayStep
<1>5. CASE UNCHANGED vars
  <2>1. job' = job /\ errors' = errors
    BY <1>5 DEF vars, database
  <2> QED
    BY <1>0, <2>1, RetriesKept
<1> QED
  BY <1>1, <1>2, <1>3, <1>4, <1>5 DEF Next

(* However many requests replay a dead letter at once, its retries exceed  *)
(* the limit by no more than one for each (routes/admin.ts).               *)
THEOREM RetriesCorrect == Spec => []RetriesBounded
<1>1. Init => Retries
  BY DEF Init, Retries
<1>2. SyncInv /\ Retries => RetriesBounded
  <2> SUFFICES ASSUME SyncInv, Retries, NEW e \in 1..Len(errors)
               PROVE  errors[e].retryCount < MAX_RETRIES + Max({1, Cardinality(Replayers)})
    BY DEF RetriesBounded
  <2>1. errors[e].retryCount \in Nat
    BY RetryCount DEF SyncInv
  <2>2. errors[e].retryCount + Cardinality(On(e)) <= Cap
    BY DEF Retries
  <2>3. errors[e].retryCount \in Int /\ errors[e].retryCount <= Cap
    BY <2>1, <2>2, OnCounted, CapBounds
  <2> QED
    BY <2>3, CapBounds
<1> QED
  BY <1>1, <1>2, SyncIsSound, RetriesStep, PTL DEF Spec
=============================================================================
