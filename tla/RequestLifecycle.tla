--------------------------- MODULE RequestLifecycle ---------------------------
(***************************************************************************)
(* The life of the rows of table "requests": every handler of              *)
(* RequestsService and WizardService that writes one, the CRM              *)
(* synchronisation that approval calls, the CRM deal import, and the       *)
(* six-hourly cleanup of stale drafts.                                     *)
(*                                                                         *)
(* A worker is an asynchronous handler invocation in the Node process.     *)
(* Handlers interleave at their awaits, so each is a sequence of actions:  *)
(* the read of the row (outside the transaction, through the repository),  *)
(* the call to Stripe or to the CRM, the save, and the announcement.  In   *)
(* between the worker keeps the entity it loaded in task[w].snap.          *)
(*                                                                         *)
(* save(entity) of TypeORM re-reads the row by primary key and writes      *)
(* every column in which the entity differs; with no row it INSERTs the    *)
(* entity.  One save with its COMMIT is one atomic step here.              *)
(***************************************************************************)
EXTENDS RequestRow, Naturals, FiniteSets

CONSTANTS
    Workers,      \* concurrent handler invocations
    Requests,     \* primary keys
    NoRequest,    \* the key of an idle worker
    Ops,          \* the handlers a model exercises
    Patches,      \* the bodies clients send
    MaxCalls,     \* bound: handler invocations and crashes
    MaxNotices    \* bound: announcements counted per request

AllOps == {"create", "update", "wizCreate", "wizUpdate", "manual", "approve",
           "reject", "delete", "deal", "import", "cleanup", "timeout", "crash"}

ASSUME OpsAssumption == Ops \subseteq AllOps
ASSUME PatchesAssumption == Patches \subseteq Patch
ASSUME NoRequestAssumption == NoRequest \notin Requests
ASSUME BoundsAssumption == MaxCalls \in Nat /\ MaxNotices \in Nat

VARIABLES
    live,      \* keys that have a row
    row,       \* the row of each key (BlankRow when it has none)
    born,      \* keys the sequence has given out
    forms,     \* keys whose service form (apertura, renovacion, cuenta) has a row
    aged,      \* keys created more than 72 hours ago
    ledger,    \* what became of each Stripe charge
    payer,     \* the handler that made each charge
    bell,      \* keys that rows of table "notifications" reference
    notices,   \* times a request was announced as received
    task,      \* the state of each worker
    sweep,     \* the state of cleanupStalePendingRequests
    calls

vars == <<live, row, born, forms, aged, ledger, payer, bell, notices, task, sweep, calls>>

\* open: the handler that made the charge is still running; lost: it ended
\* without saving or refunding the charge.
ChargeFate == {"none", "open", "booked", "refunded", "refund-failed", "lost",
               "unanswered", "crashed"}

Pc == {"idle", "createCharge", "createCommit", "createNotify",
       "updateCharge", "updateCommit", "updateNotify",
       "wizCreateCharge", "wizCreateCommit", "wizCreateRefund",
       "wizUpdateCharge", "wizUpdateCommit", "wizUpdateNotify",
       "manualSave", "approveSync", "approveReload", "approveSave",
       "rejectSave", "deleteCommit", "dealSave", "importCommit"}

Task == [pc: Pc, rid: Requests \cup {NoRequest}, snap: Row, patch: Patch,
         charge: ChargeOrNone, admin: BOOLEAN, free: BOOLEAN]

Idle == [pc |-> "idle", rid |-> NoRequest, snap |-> BlankRow,
         patch |-> NoPatch, charge |-> NoCharge, admin |-> FALSE, free |-> FALSE]

Sweep == [pc: {"idle", "forms", "delete"}, ids: SUBSET Requests]

TypeOK ==
    /\ live \subseteq born /\ born \subseteq Requests
    /\ row \in [Requests -> Row]
    /\ forms \subseteq live
    /\ aged \subseteq born
    /\ ledger \in [Charges -> ChargeFate]
    /\ payer \in [Charges -> AllOps \cup {"none"}]
    /\ bell \subseteq live
    /\ notices \in [Requests -> 0..MaxNotices]
    /\ task \in [Workers -> Task]
    /\ sweep \in Sweep
    /\ calls \in 0..MaxCalls

Init ==
    /\ live = {} /\ born = {} /\ forms = {} /\ aged = {} /\ bell = {}
    /\ row = [r \in Requests |-> BlankRow]
    /\ ledger = [c \in Charges |-> "none"]
    /\ payer = [c \in Charges |-> "none"]
    /\ notices = [r \in Requests |-> 0]
    /\ task = [w \in Workers |-> Idle]
    /\ sweep = [pc |-> "idle", ids |-> {}]
    /\ calls = 0

-----------------------------------------------------------------------------
(* Building blocks *)

\* A handler invocation of kind op starts on worker w.
Starts(w, op) ==
    /\ op \in Ops
    /\ task[w].pc = "idle"
    /\ calls < MaxCalls
    /\ calls' = calls + 1

At(w, pc) == task[w].pc = pc

Goto(w, t) == task' = [task EXCEPT ![w] = t]

Finish(w) == Goto(w, Idle)

\* The entity read at the start of a handler, kept in memory while it runs.
Loaded(pc, r) == [Idle EXCEPT !.pc = pc, !.rid = r, !.snap = row[r]]

\* repository.save / manager.save and COMMIT.  F: forms written with the row.
Save(r, q, F) ==
    /\ row' = [row EXCEPT ![r] = q]
    /\ live' = live \cup {r}
    /\ born' = born \cup {r}
    /\ forms' = forms \cup F

\* DELETE FROM requests WHERE id IN (R)
Remove(R) ==
    /\ live' = live \ R
    /\ row' = [r \in Requests |-> IF r \in R THEN BlankRow ELSE row[r]]
    /\ forms' = forms \ R
    /\ UNCHANGED born

\* Stripe accepts the card: charges.create returns a new succeeded charge.
Charge(w, op, pc) ==
    \E c \in Charges :
        /\ ledger[c] = "none"
        /\ ledger' = [ledger EXCEPT ![c] = "open"]
        /\ payer' = [payer EXCEPT ![c] = op]
        /\ Goto(w, [task[w] EXCEPT !.charge = c, !.pc = pc])

\* Stripe charged the card but its answer did not arrive: createCharge throws.
ChargeUnanswered(w, op) ==
    \E c \in Charges :
        /\ "timeout" \in Ops
        /\ ledger[c] = "none"
        /\ ledger' = [ledger EXCEPT ![c] = "unanswered"]
        /\ payer' = [payer EXCEPT ![c] = op]
        /\ Finish(w)

\* The fate of the charge, if any, that worker w holds.
Settle(w, fate) ==
    ledger' = [c \in Charges |-> IF c = task[w].charge THEN fate ELSE ledger[c]]

\* notifyAfterSolicitudRecibida: in-app rows for the staff first, then the mails;
\* when the request is gone the insert fails and the rest is skipped.  External:
\* there is at least one active member of staff.
Announce(r) ==
    IF r \in live
    THEN /\ bell' = bell \cup {r}
         /\ notices' = [notices EXCEPT ![r] = IF @ < MaxNotices THEN @ + 1 ELSE @]
    ELSE UNCHANGED <<bell, notices>>

money == <<ledger, payer>>
table == <<live, row, born, forms>>
mail == <<bell, notices>>

-----------------------------------------------------------------------------
(* RequestsService.create *)

CreateBegin(w) ==
    /\ Starts(w, "create")
    /\ \E p \in Patches, partner \in BOOLEAN :
          Goto(w, [Idle EXCEPT
                     !.pc = IF p.token /\ p.amount THEN "createCharge" ELSE "createCommit",
                     !.patch = p, !.snap = PanelCreated(p, partner, NoCharge)])
    /\ UNCHANGED <<table, money, mail, aged, sweep>>

CreateCharged(w) ==
    /\ At(w, "createCharge")
    /\ Charge(w, "create", "createCommit")
    /\ UNCHANGED <<table, mail, aged, sweep, calls>>

\* The inner catch rolls back and rethrows; the outer catch rolls back again,
\* which throws TransactionNotStartedError.
CreateDeclined(w) ==
    /\ At(w, "createCharge")
    /\ \/ Finish(w) /\ UNCHANGED money
       \/ ChargeUnanswered(w, "create")
    /\ UNCHANGED <<table, mail, aged, sweep, calls>>

CreateCommit(w) ==
    /\ At(w, "createCommit")
    /\ \E r \in Requests \ born :
          LET t == task[w]
              q == PanelCreated(t.patch, t.snap.partner, t.charge)
          IN  /\ Save(r, q, {r})
              /\ Goto(w, IF q.status = "solicitud-recibida"
                         THEN [t EXCEPT !.pc = "createNotify", !.rid = r, !.snap = q,
                                        !.charge = NoCharge]
                         ELSE Idle)
    /\ Settle(w, "booked")
    /\ UNCHANGED <<payer, mail, aged, sweep, calls>>

\* Service data missing, two validators, database error: rollback, no refund.
CreateFails(w) ==
    /\ At(w, "createCommit")
    /\ Settle(w, "lost")
    /\ Finish(w)
    /\ UNCHANGED <<table, payer, mail, aged, sweep, calls>>

\* A request deleted meanwhile cannot be returned: findOne throws after COMMIT
\* and the outer catch rolls back a transaction that has ended.
CreateNotify(w) ==
    /\ At(w, "createNotify")
    /\ Announce(task[w].rid)
    /\ Finish(w)
    /\ UNCHANGED <<table, money, aged, sweep, calls>>

-----------------------------------------------------------------------------
(* RequestsService.update *)

\* assertStaffPanelUpdateAllowed
StaffMayEdit(q) == q.status \in {"pendiente", "solicitud-recibida"} /\ ~q.account

UpdateBegin(w) ==
    /\ Starts(w, "update")
    /\ \E r \in born, p \in Patches, staff \in BOOLEAN :
          \/ r \notin live /\ Finish(w)
          \/ r \in live /\ staff /\ ~StaffMayEdit(row[r]) /\ Finish(w)
          \/ /\ r \in live
             /\ staff => StaffMayEdit(row[r])
             /\ Goto(w, [Loaded(IF PanelCharges(row[r], p) THEN "updateCharge"
                                ELSE "updateCommit", r)
                          EXCEPT !.patch = p, !.admin = staff])
    /\ UNCHANGED <<table, money, mail, aged, sweep>>

UpdateCharged(w) ==
    /\ At(w, "updateCharge")
    /\ Charge(w, "update", "updateCommit")
    /\ UNCHANGED <<table, mail, aged, sweep, calls>>

UpdateDeclined(w) ==
    /\ At(w, "updateCharge")
    /\ \/ Finish(w) /\ UNCHANGED money
       \/ ChargeUnanswered(w, "update")
    /\ UNCHANGED <<table, mail, aged, sweep, calls>>

\* Deliberately wrong: the comparison that decides the announcement reads the
\* status after the body has been applied to the entity.
UpdateCommitComparingLate(w) ==
    /\ At(w, "updateCommit")
    /\ LET t == task[w]
       IN  Save(t.rid, PanelWritten(row[t.rid], t.snap, t.patch, t.charge), {t.rid})
    /\ Finish(w)
    /\ Settle(w, "booked")
    /\ UNCHANGED <<payer, mail, aged, sweep, calls>>

UpdateCommit(w) ==
    /\ At(w, "updateCommit")
    /\ LET t == task[w]
           q == PanelWritten(row[t.rid], t.snap, t.patch, t.charge)
       IN  /\ Save(t.rid, q, {t.rid})
           /\ Goto(w, IF q.status = "solicitud-recibida"
                         /\ t.snap.status # "solicitud-recibida"
                      THEN [t EXCEPT !.pc = "updateNotify", !.charge = NoCharge]
                      ELSE Idle)
    /\ Settle(w, "booked")
    /\ UNCHANGED <<payer, mail, aged, sweep, calls>>

\* Validation of the service data or of the members, or a database error.
UpdateFails(w) ==
    /\ At(w, "updateCommit")
    /\ Settle(w, "lost")
    /\ Finish(w)
    /\ UNCHANGED <<table, payer, mail, aged, sweep, calls>>

UpdateNotify(w) ==
    /\ At(w, "updateNotify")
    /\ Announce(task[w].rid)
    /\ Finish(w)
    /\ UNCHANGED <<table, money, aged, sweep, calls>>

-----------------------------------------------------------------------------
(* WizardService.createWizardRequest *)

WizCreateBegin(w) ==
    /\ Starts(w, "wizCreate")
    /\ \E p \in Patches, source \in {"wizard", "crm-lead", "panel"}, free \in BOOLEAN :
          LET pays == WizardHasPayment(p, free)
              t == [Idle EXCEPT
                      !.pc = IF pays /\ p.method = "stripe" THEN "wizCreateCharge"
                             ELSE "wizCreateCommit",
                      !.patch = p, !.free = free,
                      !.snap = WizardCreated(p, source, free, NoCharge)]
          IN  /\ free => source # "wizard"
              /\ p.amount => p.method # "none"
              /\ IF pays /\ p.method = "transferencia" /\ ~p.proof
                 THEN Finish(w) ELSE Goto(w, t)
    /\ UNCHANGED <<table, money, mail, aged, sweep>>

WizCreateCharged(w) ==
    /\ At(w, "wizCreateCharge")
    /\ Charge(w, "wizCreate", "wizCreateCommit")
    /\ UNCHANGED <<table, mail, aged, sweep, calls>>

WizCreateDeclined(w) ==
    /\ At(w, "wizCreateCharge")
    /\ \/ Finish(w) /\ UNCHANGED money
       \/ ChargeUnanswered(w, "wizCreate")
    /\ UNCHANGED <<table, mail, aged, sweep, calls>>

WizCreateCommit(w) ==
    /\ At(w, "wizCreateCommit")
    /\ \E r \in Requests \ born : \E F \in SUBSET {r} :
          LET t == task[w]
          IN  Save(r, WizardCreated(t.patch, t.snap.createdFrom, t.free, t.charge), F)
    /\ Settle(w, "booked")
    /\ Finish(w)
    /\ UNCHANGED <<payer, mail, aged, sweep, calls>>

\* Deliberately wrong: the failure rolls back without refunding.
WizCreateFailsUnrefunded(w) ==
    /\ At(w, "wizCreateCommit")
    /\ Settle(w, "lost")
    /\ Finish(w)
    /\ UNCHANGED <<table, payer, mail, aged, sweep, calls>>

\* Validation or database error before COMMIT: refund first when a charge was
\* made, then rollback.
WizCreateFails(w) ==
    /\ At(w, "wizCreateCommit")
    /\ IF task[w].charge = NoCharge THEN Finish(w)
       ELSE Goto(w, [task[w] EXCEPT !.pc = "wizCreateRefund"])
    /\ UNCHANGED <<table, money, mail, aged, sweep, calls>>

WizCreateRefund(w) ==
    /\ At(w, "wizCreateRefund")
    /\ \E fate \in {"refunded", "refund-failed"} : Settle(w, fate)
    /\ Finish(w)
    /\ UNCHANGED <<table, payer, mail, aged, sweep, calls>>

-----------------------------------------------------------------------------
(* WizardService.updateWizardRequest *)

WizUpdateBegin(w) ==
    /\ Starts(w, "wizUpdate")
    /\ \E r \in born, p \in Patches :
          \/ r \notin live /\ Finish(w)
          \/ r \in live /\ row[r].partner /\ Finish(w)
          \/ /\ r \in live /\ ~row[r].partner
             /\ Goto(w, [Loaded(IF WizardCharges(row[r], p) THEN "wizUpdateCharge"
                                ELSE "wizUpdateCommit", r) EXCEPT !.patch = p])
    /\ UNCHANGED <<table, money, mail, aged, sweep>>

WizUpdateCharged(w) ==
    /\ At(w, "wizUpdateCharge")
    /\ Charge(w, "wizUpdate", "wizUpdateCommit")
    /\ UNCHANGED <<table, mail, aged, sweep, calls>>

WizUpdateDeclined(w) ==
    /\ At(w, "wizUpdateCharge")
    /\ \/ Finish(w) /\ UNCHANGED money
       \/ ChargeUnanswered(w, "wizUpdate")
    /\ UNCHANGED <<table, mail, aged, sweep, calls>>

WizUpdateCommit(w) ==
    /\ At(w, "wizUpdateCommit")
    /\ LET t == task[w]
       IN  /\ Save(t.rid, WizardPatched(t.snap, t.patch, t.charge), {t.rid})
           /\ Goto(w, IF t.snap.status # "solicitud-recibida"
                      THEN [t EXCEPT !.pc = "wizUpdateNotify", !.charge = NoCharge]
                      ELSE Idle)
    /\ Settle(w, "booked")
    /\ UNCHANGED <<payer, mail, aged, sweep, calls>>

WizUpdateFails(w) ==
    /\ At(w, "wizUpdateCommit")
    /\ Settle(w, "lost")
    /\ Finish(w)
    /\ UNCHANGED <<table, payer, mail, aged, sweep, calls>>

\* The row is read again after COMMIT; only its status now decides.
WizUpdateNotify(w) ==
    /\ At(w, "wizUpdateNotify")
    /\ LET r == task[w].rid
       IN  IF r \in live /\ row[r].status = "solicitud-recibida"
           THEN Announce(r) ELSE UNCHANGED mail
    /\ Finish(w)
    /\ UNCHANGED <<table, money, aged, sweep, calls>>

-----------------------------------------------------------------------------
(* Administrator: manual payment, approval, rejection, deletion *)

ManualBegin(w) ==
    /\ Starts(w, "manual")
    /\ \E r \in born :
          \/ r \notin live /\ Finish(w)
          \/ /\ r \in live
             /\ row[r].status # "pendiente" \/ PaymentRegistered(row[r])
             /\ Finish(w)
          \/ /\ r \in live
             /\ row[r].status = "pendiente" /\ ~PaymentRegistered(row[r])
             /\ Goto(w, Loaded("manualSave", r))
    /\ UNCHANGED <<table, money, mail, aged, sweep>>

ManualSave(w) ==
    /\ At(w, "manualSave")
    /\ \E proof \in BOOLEAN : Save(task[w].rid, ManuallyPaid(task[w].snap, proof), {})
    /\ Finish(w)
    /\ UNCHANGED <<money, mail, aged, sweep, calls>>

\* Deliberately wrong: the status of the request is not checked.
ApproveBeginAnyStatus(w) ==
    /\ Starts(w, "approve")
    /\ \E r \in born :
          \/ r \notin live /\ Finish(w)
          \/ r \in live /\ Goto(w, Loaded("approveSync", r))
    /\ UNCHANGED <<table, money, mail, aged, sweep>>

ApproveBegin(w) ==
    /\ Starts(w, "approve")
    /\ \E r \in born :
          \/ r \notin live /\ Finish(w)
          \/ /\ r \in live /\ row[r].status # "solicitud-recibida"
             /\ Finish(w)
          \/ /\ r \in live /\ row[r].status = "solicitud-recibida"
             /\ Goto(w, Loaded("approveSync", r))
    /\ UNCHANGED <<table, money, mail, aged, sweep>>

\* syncRequestToZoho up to the column-wise UPDATE of zoho_account_id, which
\* writes nothing when the row is gone; links and attachments come after.
ApproveSync(w) ==
    /\ At(w, "approveSync")
    /\ LET r == task[w].rid
       IN  row' = IF r \in live THEN [row EXCEPT ![r].account = TRUE] ELSE row
    /\ \/ Goto(w, [task[w] EXCEPT !.pc = "approveReload"])
       \/ Finish(w)
    /\ UNCHANGED <<live, born, forms, money, mail, aged, sweep, calls>>

\* The CRM refuses before the account is known.
ApproveSyncFails(w) ==
    /\ At(w, "approveSync")
    /\ Finish(w)
    /\ UNCHANGED <<table, money, mail, aged, sweep, calls>>

\* Deliberately wrong: the row read before the synchronisation is saved.
ApproveWithoutReload(w) ==
    /\ At(w, "approveReload")
    /\ Goto(w, [task[w] EXCEPT !.pc = "approveSave"])
    /\ UNCHANGED <<table, money, mail, aged, sweep, calls>>

ApproveReload(w) ==
    /\ At(w, "approveReload")
    /\ LET r == task[w].rid
       IN  \/ r \notin live /\ Finish(w)
           \/ r \in live /\ ~row[r].account /\ Finish(w)
           \/ r \in live /\ row[r].account /\ Goto(w, Loaded("approveSave", r))
    /\ UNCHANGED <<table, money, mail, aged, sweep, calls>>

ApproveSave(w) ==
    /\ At(w, "approveSave")
    /\ Save(task[w].rid, Approved(task[w].snap), {})
    /\ Finish(w)
    /\ UNCHANGED <<money, mail, aged, sweep, calls>>

\* Metodo_Pago or the CRM note could not be written.
ApproveFails(w) ==
    /\ At(w, "approveSave")
    /\ Finish(w)
    /\ UNCHANGED <<table, money, mail, aged, sweep, calls>>

RejectBegin(w) ==
    /\ Starts(w, "reject")
    /\ \E r \in born :
          \/ r \notin live /\ Finish(w)
          \/ /\ r \in live /\ row[r].status \notin {"solicitud-recibida", "pendiente"}
             /\ Finish(w)
          \/ /\ r \in live /\ row[r].status \in {"solicitud-recibida", "pendiente"}
             /\ Goto(w, Loaded("rejectSave", r))
    /\ UNCHANGED <<table, money, mail, aged, sweep>>

RejectSave(w) ==
    /\ At(w, "rejectSave")
    /\ Save(task[w].rid, Rejected(task[w].snap), {})
    /\ Finish(w)
    /\ UNCHANGED <<money, mail, aged, sweep, calls>>

\* The caller is the administrator or the owner of the request.
DeleteBegin(w) ==
    /\ Starts(w, "delete")
    /\ \E r \in born, admin \in BOOLEAN :
          \/ r \notin live /\ Finish(w)
          \/ /\ r \in live /\ ~admin
             /\ row[r].status \notin {"pendiente", "solicitud-recibida"}
             /\ Finish(w)
          \/ /\ r \in live
             /\ admin \/ row[r].status \in {"pendiente", "solicitud-recibida"}
             /\ Goto(w, [Loaded("deleteCommit", r) EXCEPT !.admin = admin])
    /\ UNCHANGED <<table, money, mail, aged, sweep>>

\* Deliberately wrong: the notifications of the request stay behind.
DeleteCommitKeepingBell(w) ==
    /\ At(w, "deleteCommit")
    /\ LET r == task[w].rid
       IN  IF r \in live THEN Remove({r}) /\ Finish(w)
           ELSE UNCHANGED table /\ Finish(w)
    /\ UNCHANGED <<mail, money, aged, sweep, calls>>

\* One transaction: children, notifications, then the request itself.
DeleteCommit(w) ==
    /\ At(w, "deleteCommit")
    /\ LET r == task[w].rid
       IN  IF r \in live
           THEN Remove({r}) /\ bell' = bell \ {r} /\ Finish(w)
           ELSE UNCHANGED <<table, bell>> /\ Finish(w)
    /\ UNCHANGED <<notices, money, aged, sweep, calls>>

-----------------------------------------------------------------------------
(* ZohoSyncService: deal stages and accounts come back from the CRM *)

\* syncStageStatusAndWorkdriveByAccountId / importDealsFromZoho: the request is
\* found by its CRM account.
DealBegin(w) ==
    /\ Starts(w, "deal")
    /\ \E r \in live :
          row[r].account /\ Goto(w, Loaded("dealSave", r))
    /\ UNCHANGED <<table, money, mail, aged, sweep>>

\* updateRequestStatusFromDeals: the latest deal decides; errors are swallowed.
DealSave(w) ==
    /\ At(w, "dealSave")
    /\ \/ \E s \in DealStatus \cup {task[w].snap.status} :
             Save(task[w].rid, [task[w].snap EXCEPT !.status = s], {})
       \/ UNCHANGED table
    /\ Finish(w)
    /\ UNCHANGED <<money, mail, aged, sweep, calls>>

\* importAccountToRequest: an existing request is matched by account or name,
\* otherwise a new one is created.
ImportBegin(w) ==
    /\ Starts(w, "import")
    /\ \/ \E r \in live, partner \in BOOLEAN :
             Goto(w, [Loaded("importCommit", r) EXCEPT
                        !.snap.account = TRUE, !.snap.partner = @ \/ partner])
       \/ \E partner \in BOOLEAN :
             Goto(w, [Idle EXCEPT !.pc = "importCommit",
                                          !.snap = Imported(partner)])
    /\ UNCHANGED <<table, money, mail, aged, sweep>>

ImportCommit(w) ==
    /\ At(w, "importCommit")
    /\ \E r \in IF task[w].rid = NoRequest THEN Requests \ born ELSE {task[w].rid} :
          /\ Save(r, task[w].snap, {r})
          /\ Goto(w, [task[w] EXCEPT !.pc = "dealSave", !.rid = r])
    /\ UNCHANGED <<money, mail, aged, sweep, calls>>

ImportFails(w) ==
    /\ At(w, "importCommit")
    /\ Finish(w)
    /\ UNCHANGED <<table, money, mail, aged, sweep, calls>>

-----------------------------------------------------------------------------
(* Time, users reading their notifications, the cleanup, and crashes *)

Age(r) ==
    /\ "cleanup" \in Ops
    /\ r \in born \ aged
    /\ aged' = aged \cup {r}
    /\ UNCHANGED <<table, money, mail, task, sweep, calls>>

\* NotificationsService.delete, until no notification of r is left.
ClearBell(r) ==
    /\ "cleanup" \in Ops
    /\ r \in bell
    /\ bell' = bell \ {r}
    /\ UNCHANGED <<table, money, notices, aged, task, sweep, calls>>

StaleDrafts == {r \in live \cap aged : row[r].status = "pendiente"}

CleanupScan ==
    /\ "cleanup" \in Ops
    /\ sweep.pc = "idle"
    /\ StaleDrafts # {}
    /\ sweep' = [pc |-> "forms", ids |-> StaleDrafts]
    /\ UNCHANGED <<table, money, mail, aged, task, calls>>

\* Deliberately wrong: the forms are left for the database to cascade.
CleanupFormsForgotten ==
    /\ sweep.pc = "forms"
    /\ sweep' = [sweep EXCEPT !.pc = "delete"]
    /\ UNCHANGED <<table, money, mail, aged, task, calls>>

\* The forms are deleted first, in statements that commit on their own.
CleanupForms ==
    /\ sweep.pc = "forms"
    /\ forms' = forms \ sweep.ids
    /\ sweep' = [sweep EXCEPT !.pc = "delete"]
    /\ UNCHANGED <<live, row, born, money, mail, aged, task, calls>>

\* One DELETE for all ids.  Neither notifications nor forms have an ON DELETE
\* rule, so a single referenced request makes the statement fail; the error is
\* logged and the next run starts over.
CleanupDelete ==
    /\ sweep.pc = "delete"
    /\ IF sweep.ids \cap (bell \cup forms) = {}
       THEN Remove(sweep.ids) ELSE UNCHANGED table
    /\ sweep' = [pc |-> "idle", ids |-> {}]
    /\ UNCHANGED <<money, mail, aged, task, calls>>

\* The process dies: open transactions roll back, memory is lost, and the
\* charges in flight stay with Stripe.
Crash ==
    /\ "crash" \in Ops
    /\ calls < MaxCalls
    /\ calls' = calls + 1
    /\ task' = [w \in Workers |-> Idle]
    /\ ledger' = [c \in Charges |-> IF ledger[c] = "open" THEN "crashed" ELSE ledger[c]]
    /\ sweep' = [pc |-> "idle", ids |-> {}]
    /\ UNCHANGED <<table, payer, mail, aged>>

-----------------------------------------------------------------------------
CreateStep(w) ==
    \/ CreateCharged(w) \/ CreateDeclined(w) \/ CreateCommit(w)
    \/ CreateFails(w) \/ CreateNotify(w)

UpdateStep(w) ==
    \/ UpdateCharged(w) \/ UpdateDeclined(w) \/ UpdateCommit(w)
    \/ UpdateFails(w) \/ UpdateNotify(w)

WizCreateStep(w) ==
    \/ WizCreateCharged(w) \/ WizCreateDeclined(w) \/ WizCreateCommit(w)
    \/ WizCreateFails(w) \/ WizCreateRefund(w)

WizUpdateStep(w) ==
    \/ WizUpdateCharged(w) \/ WizUpdateDeclined(w) \/ WizUpdateCommit(w)
    \/ WizUpdateFails(w) \/ WizUpdateNotify(w)

AdminStep(w) ==
    \/ ManualSave(w) \/ ApproveSync(w) \/ ApproveSyncFails(w) \/ ApproveReload(w)
    \/ ApproveSave(w) \/ ApproveFails(w) \/ RejectSave(w) \/ DeleteCommit(w)

CrmStep(w) == DealSave(w) \/ ImportCommit(w) \/ ImportFails(w)

\* What a handler that has started does next.
Continue(w) ==
    \/ CreateStep(w) \/ UpdateStep(w) \/ WizCreateStep(w)
    \/ WizUpdateStep(w) \/ AdminStep(w) \/ CrmStep(w)

Begin(w) ==
    \/ CreateBegin(w) \/ UpdateBegin(w) \/ WizCreateBegin(w) \/ WizUpdateBegin(w)
    \/ ManualBegin(w) \/ ApproveBegin(w) \/ RejectBegin(w) \/ DeleteBegin(w)
    \/ DealBegin(w) \/ ImportBegin(w)

Environment == Crash \/ \E r \in Requests : Age(r) \/ ClearBell(r)

Next ==
    \/ \E w \in Workers : Begin(w) \/ Continue(w)
    \/ CleanupScan \/ CleanupForms \/ CleanupDelete
    \/ Environment

Spec == Init /\ [][Next]_vars

\* Node runs every handler it has started and the scheduler fires every six
\* hours; clients, staff and the CRM owe nothing.
Fairness ==
    /\ \A w \in Workers : WF_vars(Continue(w))
    /\ WF_vars(CleanupScan) /\ WF_vars(CleanupForms) /\ WF_vars(CleanupDelete)

FairSpec == Spec /\ Fairness

-----------------------------------------------------------------------------
(* Safety *)

\* The handlers cast the body's status to 'pendiente' | 'solicitud-recibida'.
\* The DTO accepts all five values; what follows assumes that clients send
\* what the handlers expect.
PatchesAreDrafts ==
    \A p \in Patches : p.status \in {"none", "pendiente", "solicitud-recibida"}

\* A request is in process or completed only when it has its CRM account,
\* however approvals, edits, rejections, deletions and deal imports interleave:
\* approveRequest refuses without an account and the deal import finds the
\* request by it, but each saves a row it read earlier.
ProcessedIsLinked ==
    \A r \in Requests :
        row[r].status \in {"en-proceso", "completada"} => row[r].account

\* createWizardRequest charges before it creates the request.  Once its handler
\* no longer holds a charge, the charge was booked on a request, refunded (or
\* the refund was tried), or the process or the line to Stripe failed; an
\* ordinary failure never keeps the client's money without a request.
WizardChargeSettled ==
    \A c \in Charges :
        payer[c] = "wizCreate" =>
            \/ ledger[c] \in {"booked", "refunded", "refund-failed",
                              "unanswered", "crashed"}
            \/ ledger[c] = "open" /\ \E w \in Workers : task[w].charge = c

Announcing(r) ==
    \E w \in Workers :
        /\ task[w].rid = r
        /\ task[w].pc \in {"createNotify", "updateNotify", "wizUpdateNotify"}

\* No submitted request goes unnoticed: if it is received, staff were told
\* (notifyAfterSolicitudRecibida) or a handler is about to tell them.  Each
\* handler decides from the status it read before its own save.  It holds for
\* two handlers at a time, not for three: updateWizardRequest reads the row
\* again before it tells, and in between a second handler may save the draft it
\* read and a third, which had read the row as received, save it back silently.
ReceivedIsAnnounced ==
    \A r \in live :
        row[r].status = "solicitud-recibida" => notices[r] > 0 \/ Announcing(r)

\* "Si ya hay un chargeId, no procesar de nuevo (evitar duplicados)" (update):
\* the comment's promise.  The code tests the method as well as the charge, so it
\* breaks when a transfer was stored in between.
NoSecondCharge ==
    \A w \in Workers :
        task[w].pc = "updateCharge" => task[w].snap.charge = NoCharge

-----------------------------------------------------------------------------
(* What a step may never do *)

\* While handlers take turns, a charge on a request's row is never cleared, and
\* it is replaced only where another way of paying was stored over the card
\* (paymentAlreadyProcessed looks at the method too), by a charge this handler
\* has just made and books with this save; no other edit, approval, rejection or
\* deal import touches stripe_charge_id.  Card, transfer and card again do charge
\* twice: NoSecondCharge.
ChargeStaysOnRow ==
    [][\A r \in live \cap live' :
          row[r].charge \notin {NoCharge, row'[r].charge} =>
              /\ row[r].method # "stripe"
              /\ \E c \in Charges :
                    row'[r].charge = c /\ ledger[c] = "open" /\ ledger'[c] = "booked"]_vars

-----------------------------------------------------------------------------
(* Liveness *)

\* "Elimina solicitudes con status='pendiente' creadas hace mas de 72 horas.
\* Corre cada 6 horas": a draft older than that does not stay.
StaleDraftsAreRemoved ==
    \A r \in Requests : r \in StaleDrafts ~> r \notin StaleDrafts

-----------------------------------------------------------------------------
(* The abstract specification this one implements when handlers do not overlap *)

Promise ==
    INSTANCE RequestStatus WITH
        state <- [r \in Requests |-> IF r \in live THEN row[r].status
                                     ELSE IF r \in born THEN "deleted" ELSE "unborn"],
        linked <- {r \in live : row[r].account},
        reported <- {task[w].rid : w \in {v \in Workers : At(v, "dealSave")}}

\* With one handler at a time, every handler, CRM import and deletion moves the
\* status of a request only as RequestStatus allows.
KeepsPromise == Promise!Spec
=============================================================================
