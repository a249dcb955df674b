---------------------------- MODULE MCAttestation ----------------------------
(***************************************************************************)
(* The two readers of the attestation contract that keep copies of it: the *)
(* SDK's query cache in one process, and the tables of the web application *)
(* with the pages over them.  They share the contract and nothing else;    *)
(* each behaviour here is of the contract and one of them.                 *)
(***************************************************************************)
EXTENDS AttestationQuery, AttestationPages, TLC

VARIABLE part   \* the reader that takes the steps

pageVars == <<profiles, claims, cachedStatus, listed, page, resyncs>>
queryVars == <<clock, cache, writing, history>>

AttestationInit == part \in {"query", "pages"} /\ Init /\ PagesInit

AttestationNext ==
    /\ part' = part
    /\ \/ part = "query" /\ Next /\ UNCHANGED pageVars
       \/ part = "pages" /\ PagesNext /\ UNCHANGED queryVars

AttestationSpec == AttestationInit /\ [][AttestationNext]_<<part, vars, pageVars>>

\* Accounts are told apart by their roles only, and tabs run the same code.
AttestationSymmetry == Permutations(Addresses) \cup Permutations(Views)

(* The contract and both readers keep their types.                         *)
AttestationTypeOK == IF part = "query" THEN TypeOK ELSE PagesTypeOK
=============================================================================
