------------------------------ MODULE MCCrmSync ------------------------------
(***************************************************************************)
(* CrmSync in three worlds: a partner imports with every failure, two      *)
(* imports overlap and the account cannot always be read, and requests of  *)
(* the platform are synchronised and their folders are made in the CRM.    *)
(***************************************************************************)
EXTENDS CrmSync

CONSTANTS w1, w2, ana, leo, pia, acme, zeta

A == [mail |-> ana, llc |-> acme]
L == [mail |-> leo, llc |-> acme]
Z == [mail |-> ana, llc |-> zeta]

MCFiles == {[rows |-> <<A, Z>>, zip |-> {acme, zeta}],
            [rows |-> <<A, L>>, zip |-> {acme}],
            [rows |-> <<Z>>, zip |-> {}]}

Imports2 == [ops |-> {"csv", "zip", "crash"}, faults |-> {"call"},
             workers |-> {w1}, requests |-> <<>>]
Overlap == [ops |-> {"csv", "zip"}, faults |-> {"lookup"},
            workers |-> {w1, w2}, requests |-> <<>>]
Direct == [ops |-> {"sync", "stage", "start", "crm", "crash"}, faults |-> {"call", "token"},
           workers |-> {w1},
           requests |-> <<NewRequest(Platform, A), NewRequest(Platform, Z),
                          [NewRequest(Platform, A) EXCEPT !.llc = NoLlc]>>]

MCWorlds == {Imports2, Overlap, Direct}

\* What the theorems ask of the worlds holds of these.
ASSUME WorldsToBegin == FreshWorlds
=============================================================================
