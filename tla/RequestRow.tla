------------------------------ MODULE RequestRow ------------------------------
(***************************************************************************)
(* The row of table "requests" as the request handlers see it, the PATCH   *)
(* body they receive, and the pure computations they apply to a row before *)
(* saving it: status promotion, payment assignment, CRM stage mapping.     *)
(*                                                                         *)
(* Ids, urls and amounts are abstracted to whether they are present; a     *)
(* Stripe charge keeps its identity.                                       *)
(***************************************************************************)
CONSTANTS
    Charges,    \* identifiers Stripe may give to a charge
    NoCharge    \* stripe_charge_id IS NULL

ASSUME NoChargeAssumption == NoCharge \notin Charges

ChargeOrNone == Charges \cup {NoCharge}

Status == {"pendiente", "solicitud-recibida", "en-proceso", "completada", "rechazada"}
Origin == {"panel", "wizard", "crm-lead", "import"}
Method == {"none", "stripe", "transferencia"}
PayStatus == {"none", "pending", "succeeded", "not_required"}

Row == [status: Status, createdFrom: Origin, partner: BOOLEAN,
        method: Method, amount: BOOLEAN, charge: ChargeOrNone,
        payStatus: PayStatus, proof: BOOLEAN, signature: BOOLEAN,
        account: BOOLEAN]

\* The columns of a row that is not in the table: what an INSERT leaves NULL.
BlankRow == [status |-> "pendiente", createdFrom |-> "panel", partner |-> FALSE,
             method |-> "none", amount |-> FALSE, charge |-> NoCharge,
             payStatus |-> "none", proof |-> FALSE, signature |-> FALSE,
             account |-> FALSE]

\* UpdateRequestDto, reduced to what the handlers branch on.  "none" and FALSE
\* stand for an absent member; last: currentStepNumber is the type's last step.
Patch == [status: Status \cup {"none"}, token: BOOLEAN, method: Method,
          amount: BOOLEAN, proof: BOOLEAN, signature: BOOLEAN, last: BOOLEAN]

NoPatch == [status |-> "none", token |-> FALSE, method |-> "none",
            amount |-> FALSE, proof |-> FALSE, signature |-> FALSE, last |-> FALSE]

StatusOr(p, s) == IF p.status = "none" THEN s ELSE p.status

Received(q) == [q EXCEPT !.status = "solicitud-recibida"]

-----------------------------------------------------------------------------
(* request-status.util.ts *)

HasCompletedPayment(q) ==
    \/ q.charge # NoCharge /\ q.payStatus = "succeeded"
    \/ q.method = "transferencia" /\ q.proof

PromotesNoPaymentFlow(q) ==
    /\ q.status = "pendiente"
    /\ q.signature
    /\ ~HasCompletedPayment(q)
    /\ \/ q.createdFrom = "crm-lead"
       \/ /\ q.createdFrom = "panel"
          /\ q.payStatus = "not_required" \/ q.method = "none"

PromotesWizardSignature(q) ==
    q.status = "pendiente" /\ q.createdFrom = "wizard" /\ q.signature

Promoted(q) ==
    IF PromotesNoPaymentFlow(q) \/ PromotesWizardSignature(q)
    THEN Received(q) ELSE q

-----------------------------------------------------------------------------
(* Payment tests shared by the handlers *)

\* paymentAlreadyProcessed
PaidByStripe(q) == q.charge # NoCharge /\ q.method = "stripe"

\* isRequestPaymentRegistered
PaymentRegistered(q) ==
    q.proof \/ q.charge # NoCharge \/ q.payStatus = "succeeded"

-----------------------------------------------------------------------------
(* RequestsService.update: the in-memory request after the PATCH body p has *)
(* been applied to the loaded row q, c being the charge the call created.   *)

\* Deliberately wrong: the guard against paying twice is missing.
PanelChargesAgain(q, p) == p.token /\ p.amount /\ q.status \in Status

PanelCharges(q, p) == p.token /\ p.amount /\ ~PaidByStripe(q)

PanelHasResult(q, p) ==
    \/ p.token /\ p.amount
    \/ p.method = "stripe" /\ PaidByStripe(q)

PanelPaid(q, p, c) ==
    [q EXCEPT !.status = StatusOr(p, @),
              !.method = p.method,
              !.charge = IF PanelCharges(q, p) THEN c ELSE @,
              !.payStatus = IF PanelCharges(q, p) \/ @ = "none"
                            THEN "succeeded" ELSE @,
              !.proof = p.proof]

PanelDeclaredPayment(q, p) ==
    [q EXCEPT !.status = StatusOr(p, "solicitud-recibida"),
              !.method = p.method,
              !.amount = TRUE,
              !.payStatus = IF p.method = "transferencia" THEN "pending" ELSE @,
              !.proof = @ \/ p.proof]

PanelNoPayment(q, p) ==
    IF p.status = "none" THEN q
    ELSE [q EXCEPT !.status = p.status,
                   !.method = IF p.method = "none" THEN @ ELSE p.method,
                   !.amount = @ \/ p.amount,
                   !.proof = @ \/ p.proof]

PartnerConfirmed(q, p) ==
    IF q.partner /\ q.status = "pendiente"
       /\ (p.status = "solicitud-recibida" \/ p.last)
    THEN Received(q) ELSE q

PanelPatched(q, p, c) ==
    LET paid == IF PanelHasResult(q, p) THEN PanelPaid(q, p, c)
                ELSE IF p.method # "none" /\ p.amount
                THEN PanelDeclaredPayment(q, p)
                ELSE PanelNoPayment(q, p)
        confirmed == PartnerConfirmed(paid, p)
    IN  Promoted([confirmed EXCEPT !.signature = @ \/ p.signature])

\* save(request): a member left undefined in memory does not write its column,
\* so after a Stripe result method, amount and proof keep the stored value when
\* the body omits them.
PanelWritten(stored, q, p, c) ==
    LET m == PanelPatched(q, p, c)
    IN  IF PanelHasResult(q, p)
        THEN [m EXCEPT !.method = IF p.method = "none" THEN stored.method ELSE @,
                       !.amount = p.amount \/ stored.amount,
                       !.proof = p.proof \/ stored.proof]
        ELSE m

-----------------------------------------------------------------------------
(* RequestsService.create *)

PanelCreated(p, partner, c) ==
    [BlankRow EXCEPT
        !.status = IF p.token /\ p.amount THEN StatusOr(p, "solicitud-recibida")
                   ELSE IF partner /\ p.last THEN "solicitud-recibida"
                   ELSE "pendiente",
        !.partner = partner,
        !.method = p.method,
        !.amount = p.amount,
        !.charge = c,
        !.payStatus = IF c # NoCharge THEN "succeeded"
                      ELSE IF p.method = "transferencia" THEN "pending" ELSE "none",
        !.proof = p.proof]

-----------------------------------------------------------------------------
(* WizardService.createWizardRequest.  p.token: a token other than          *)
(* 'no-payment'; free: apertura opened from a lead or from the panel.       *)

WizardHasPayment(p, free) == ~free /\ p.amount /\ p.token

WizardCreated(p, source, free, c) ==
    LET paying == WizardHasPayment(p, free)
        completed == \/ p.method = "stripe" /\ c # NoCharge
                     \/ p.method = "transferencia" /\ p.proof
    IN  [BlankRow EXCEPT
            !.status = IF completed \/ (~paying /\ p.last)
                       THEN "solicitud-recibida" ELSE "pendiente",
            !.createdFrom = source,
            !.method = p.method,
            !.amount = p.amount,
            !.charge = c,
            !.payStatus = IF ~paying THEN "not_required"
                          ELSE IF c # NoCharge THEN "succeeded" ELSE "pending",
            !.proof = p.proof]

-----------------------------------------------------------------------------
(* WizardService.updateWizardRequest *)

WizardCharges(q, p) ==
    p.token /\ p.amount /\ p.method = "stripe" /\ ~PaidByStripe(q)

WizardPaid(q, p, c) ==
    IF WizardCharges(q, p)
    THEN [q EXCEPT !.charge = c, !.amount = TRUE, !.method = "stripe",
                   !.payStatus = "succeeded", !.proof = @ \/ p.proof]
    ELSE IF p.method = "transferencia" /\ p.amount /\ p.proof /\ q.charge = NoCharge
    THEN [q EXCEPT !.amount = TRUE, !.method = "transferencia",
                   !.payStatus = "pending", !.proof = TRUE]
    ELSE q

\* "Cerrar como recibida": payment completed, or last step with nothing to pay.
WizardCloses(q, p) ==
    /\ q.status = "pendiente"
    /\ \/ q.method = "transferencia" /\ q.proof
       \/ q.charge # NoCharge
       \/ p.last /\ ~(q.amount /\ q.method # "none")

WizardPatched(q, p, c) ==
    LET m == [WizardPaid(q, p, c) EXCEPT !.status = StatusOr(p, @),
                                         !.signature = @ \/ p.signature]
    IN  Promoted(IF WizardCloses(m, p) THEN Received(m) ELSE m)

-----------------------------------------------------------------------------
(* The remaining writers *)

\* markManualPayment
ManuallyPaid(q, proof) ==
    [q EXCEPT !.method = "transferencia", !.payStatus = "succeeded",
              !.proof = @ \/ proof, !.status = "solicitud-recibida"]

Approved(q) == [q EXCEPT !.status = "en-proceso"]
Rejected(q) == [q EXCEPT !.status = "rechazada"]

\* mapDealStageToRequestStatus: the statuses a CRM deal stage can map to.
DealStatus == {"pendiente", "en-proceso", "completada", "rechazada"}

\* importAccountToRequest: a request created for a CRM account.
Imported(partner) == [BlankRow EXCEPT !.account = TRUE, !.partner = partner]
=============================================================================
