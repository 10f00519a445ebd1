----------------------------- MODULE MCInvoicing ------------------------------
(* Every handler one after another with the statuses the panel sends, and    *)
(* the handlers that save an invoice with its lines overlapping.             *)
EXTENDS Invoicing, TLC

MCOps == [m \in Modes |-> IF m = "serial" THEN AllOps
                           ELSE {"create", "update", "send", "void"}]
MCBodyStatus == [m \in Modes |-> IF m = "serial" THEN {"none", "draft"}
                                  ELSE {"none", "paid"}]

\* No definition chooses a handler or a key, and every property is an invariant.
MCSymmetry == Permutations(Handlers) \cup Permutations(Invoices)

\* What the theorems ask of the handlers and the bodies holds of these.
ASSUME CallsToBegin == WholeSaves /\ Itemised /\ HonestBodies
=============================================================================
