---------------------------- MODULE MCLedgerSync ----------------------------
(***************************************************************************)
(* Small instances of LedgerSync.  Wallets 1 and 2 belong to businesses.   *)
(***************************************************************************)
EXTENDS LedgerSync, TLC

Pay(from, to) == [from |-> from, to |-> to, supported |-> TRUE]
Unsupported(pay) == [pay EXCEPT !.supported = FALSE]

Plain(payments) == [bump |-> FALSE, payments |-> payments]
FeeBump(payments) == [bump |-> TRUE, payments |-> payments]

\* A receipt, as it is or in a fee bump after one in another asset, or nothing.
OneWallet ==
    {<<>>, <<Plain(<<Pay(Outside, 1)>>)>>,
     <<FeeBump(<<Unsupported(Pay(Outside, 1)), Pay(Outside, 1)>>)>>}

\* A payout to both businesses in one transaction, or a ledger of two
\* transactions that concern one of them each.
TwoWallets ==
    {<<Plain(<<Pay(Outside, 1), Pay(Outside, 2)>>)>>,
     <<Plain(<<Pay(Outside, 2)>>), Plain(<<Pay(Outside, 1)>>)>>}

\* A receipt of the second business, or a payment between the two.
Transfers == {<<Plain(<<Pay(Outside, 2)>>)>>, <<Plain(<<Pay(2, 1)>>)>>}

\* Two invoices of one business are paid in one transaction.
Payout == {<<Plain(<<Pay(Outside, 1), Pay(Outside, 1)>>)>>}

\* Replicas run the same code.
MCReplicas == Permutations(Replicas)
=============================================================================
