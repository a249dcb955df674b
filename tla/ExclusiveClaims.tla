--------------------------- MODULE ExclusiveClaims ---------------------------
(***************************************************************************)
(* What the business registry promises, without its storage: at any moment *)
(* a set of claims is held, each by one business id, on one owner and one  *)
(* wallet.  No owner and no wallet is claimed twice, and an id that was    *)
(* ever used is never used again.                                          *)
(*                                                                         *)
(* The guard of Claim looks at ALL claims; the contract looks at two index *)
(* entries only.  That the two agree is what the refinement shows.         *)
(***************************************************************************)

CONSTANTS
    Ids,        \* business ids
    Addresses   \* owners and wallets

VARIABLES
    claims,     \* the claims held now: records [id, owner, wallet]
    spent       \* every id that was ever claimed

vars == <<claims, spent>>

Init ==
    /\ claims = {}
    /\ spent = {}

Claim(id, owner, wallet) ==
    /\ id \notin spent
    /\ \A c \in claims : c.owner # owner /\ c.wallet # wallet
    /\ claims' = claims \cup {[id |-> id, owner |-> owner, wallet |-> wallet]}
    /\ spent' = spent \cup {id}

Release(c) ==
    /\ claims' = claims \ {c}
    /\ UNCHANGED spent

Next ==
    \/ \E id \in Ids, owner, wallet \in Addresses : Claim(id, owner, wallet)
    \/ \E c \in claims : Release(c)

Spec == Init /\ [][Next]_vars
=============================================================================
