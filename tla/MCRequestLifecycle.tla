-------------------------- MODULE MCRequestLifecycle --------------------------
(* Bodies clients send, and the sets of them each run exercises. *)
EXTENDS RequestLifecycle

Draft    == NoPatch
Sign     == [NoPatch EXCEPT !.signature = TRUE]
LastStep == [NoPatch EXCEPT !.last = TRUE]
Submit   == [NoPatch EXCEPT !.status = "solicitud-recibida"]
Withdraw == [NoPatch EXCEPT !.status = "pendiente"]
Card     == [NoPatch EXCEPT !.token = TRUE, !.amount = TRUE, !.method = "stripe"]
Transfer == [NoPatch EXCEPT !.amount = TRUE, !.method = "transferencia", !.proof = TRUE]
NoProof  == [NoPatch EXCEPT !.amount = TRUE, !.method = "transferencia", !.token = TRUE]

AllPatches    == {Draft, Sign, LastStep, Submit, Withdraw, Card, Transfer, NoProof}
DraftSubmit   == {Draft, Submit}
OnwardPatches == {Draft, Sign, Submit, Card, Transfer}
PaySwitch     == {Card, Transfer}

\* What the theorems ask of the bodies holds of these.
ASSUME DraftBodies == PatchesAreDrafts
=============================================================================
