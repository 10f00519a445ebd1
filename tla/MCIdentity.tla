------------------------------ MODULE MCIdentity ------------------------------
(***************************************************************************)
(* Accounts and sessions in one model: the handlers of Directory run, in   *)
(* one of its worlds, or those of Login and Portal, in one of its scenes.  *)
(* Login starts from accounts and rows of its own.                         *)
(***************************************************************************)
EXTENDS MCDirectory, MCLogin

VARIABLE part

identityVars == <<part, vars, allVars>>

Keeping == part = "accounts" /\ Next /\ UNCHANGED <<part, allVars>>
Entering == part = "sessions" /\ LoginNext /\ UNCHANGED <<part, vars>>

IdentityInit ==
    /\ Init /\ LoginInit
    /\ \/ part = "accounts" /\ handlers = Codes.handlers
       \/ part = "sessions" /\ ops = Office.ops

IdentitySpec == IdentityInit /\ [][Keeping \/ Entering]_identityVars
===============================================================================
