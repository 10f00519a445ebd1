------------------------ MODULE RequestLifecycle_proofs ------------------------
(***************************************************************************)
(* Theorems about RequestLifecycle, for every number of handlers, requests *)
(* and charges and every set of client bodies: types, the CRM account of   *)
(* processed requests, the charges of the wizard, the announcement of      *)
(* received requests; and, while handlers take turns, the charge on a row  *)
(* and the refinement of RequestStatus.                                    *)
(***************************************************************************)
EXTENDS RequestLifecycle, TLAPS

-----------------------------------------------------------------------------
(* The pure operators of RequestRow map rows to rows *)

LEMMA PromotedType ==
    ASSUME NEW q \in Row
    PROVE  Promoted(q) \in Row
BY DEF Promoted, Received, Row, Status

LEMMA PanelBranchesType ==
    ASSUME NEW q \in Row, NEW p \in Patch, NEW c \in ChargeOrNone
    PROVE  /\ PanelPaid(q, p, c) \in Row
           /\ PanelDeclaredPayment(q, p) \in Row
           /\ PanelNoPayment(q, p) \in Row
<1>1. PanelPaid(q, p, c) \in Row
  BY DEF PanelPaid, StatusOr, Row, Patch, Status, PayStatus
<1>2. PanelDeclaredPayment(q, p) \in Row
  BY DEF PanelDeclaredPayment, StatusOr, Row, Patch, Status, PayStatus
<1>3. CASE p.status = "none"
  BY <1>1, <1>2, <1>3 DEF PanelNoPayment
<1>4. CASE p.status # "none"
  <2> DEFINE m == IF p.method = "none" THEN q.method ELSE p.method
             a == q.amount \/ p.amount
             f == q.proof \/ p.proof
  <2>1. p.status \in Status /\ m \in Method /\ a \in BOOLEAN /\ f \in BOOLEAN
    BY <1>4 DEF Row, Patch
  <2>2. PanelNoPayment(q, p) = [q EXCEPT !.status = p.status, !.method = m,
                                         !.amount = a, !.proof = f]
    BY <1>4 DEF PanelNoPayment, Row
  <2> HIDE DEF m, a, f
  <2>3. PanelNoPayment(q, p) \in Row
    BY <2>1, <2>2 DEF Row
  <2> QED
    BY <1>1, <1>2, <2>3
<1> QED
  BY <1>3, <1>4

LEMMA PanelPatchedType ==
    ASSUME NEW q \in Row, NEW p \in Patch, NEW c \in ChargeOrNone
    PROVE  PanelPatched(q, p, c) \in Row
<1> DEFINE paid == IF PanelHasResult(q, p) THEN PanelPaid(q, p, c)
                   ELSE IF p.method # "none" /\ p.amount
                   THEN PanelDeclaredPayment(q, p)
                   ELSE PanelNoPayment(q, p)
           confirmed == PartnerConfirmed(paid, p)
<1>1. paid \in Row
  BY PanelBranchesType
<1> HIDE DEF paid
<1>2. confirmed \in Row
  BY <1>1 DEF PartnerConfirmed, Received, Row, Status
<1> HIDE DEF confirmed
<1>3. [confirmed EXCEPT !.signature = @ \/ p.signature] \in Row
  BY <1>2 DEF Row, Patch
<1>4. PanelPatched(q, p, c) = Promoted([confirmed EXCEPT !.signature = @ \/ p.signature])
  BY DEF PanelPatched, paid, confirmed
<1> QED
  BY <1>3, <1>4, PromotedType

LEMMA PanelWrittenType ==
    ASSUME NEW stored \in Row, NEW q \in Row, NEW p \in Patch, NEW c \in ChargeOrNone
    PROVE  PanelWritten(stored, q, p, c) \in Row
<1>1. PanelPatched(q, p, c) \in Row
  BY PanelPatchedType
<1> DEFINE n == PanelPatched(q, p, c)
           m == IF p.method = "none" THEN stored.method ELSE n.method
           a == p.amount \/ stored.amount
           f == p.proof \/ stored.proof
<1>2. m \in Method /\ a \in BOOLEAN /\ f \in BOOLEAN
  BY <1>1 DEF Row, Patch
<1>3. PanelWritten(stored, q, p, c) =
         IF PanelHasResult(q, p)
         THEN [n EXCEPT !.method = m, !.amount = a, !.proof = f] ELSE n
  BY <1>1 DEF PanelWritten, Row
<1> HIDE DEF n, m, a, f
<1>4. n \in Row
  BY <1>1 DEF n
<1>5. [n EXCEPT !.method = m, !.amount = a, !.proof = f] \in Row
  BY <1>2, <1>4 DEF Row
<1> QED
  BY <1>3, <1>4, <1>5

LEMMA BlankRowType == BlankRow \in Row
BY DEF BlankRow, Row, Status, Origin, Method, PayStatus, ChargeOrNone

LEMMA NoPatchType == NoPatch \in Patch
BY DEF NoPatch, Patch, Status, Method

LEMMA PanelCreatedType ==
    ASSUME NEW p \in Patch, NEW partner \in BOOLEAN, NEW c \in ChargeOrNone
    PROVE  PanelCreated(p, partner, c) \in Row
<1> DEFINE s == IF p.token /\ p.amount THEN StatusOr(p, "solicitud-recibida")
                ELSE IF partner /\ p.last THEN "solicitud-recibida"
                ELSE "pendiente"
           y == IF c # NoCharge THEN "succeeded"
                ELSE IF p.method = "transferencia" THEN "pending" ELSE "none"
<1>1. s \in Status /\ y \in PayStatus
  BY DEF StatusOr, Patch, Status, PayStatus
<1>2. p.method \in Method /\ p.amount \in BOOLEAN /\ p.proof \in BOOLEAN
  BY DEF Patch
<1>3. PanelCreated(p, partner, c) =
        [BlankRow EXCEPT !.status = s, !.partner = partner, !.method = p.method,
                         !.amount = p.amount, !.charge = c, !.payStatus = y,
                         !.proof = p.proof]
  BY DEF PanelCreated
<1> HIDE DEF s, y
<1> QED
  BY <1>1, <1>2, <1>3, BlankRowType DEF Row

LEMMA WizardCreatedType ==
    ASSUME NEW p \in Patch, NEW source \in Origin, NEW free \in BOOLEAN,
           NEW c \in ChargeOrNone
    PROVE  WizardCreated(p, source, free, c) \in Row
BY BlankRowType DEF WizardCreated, Row, Patch, Status, PayStatus

LEMMA WizardPaidType ==
    ASSUME NEW q \in Row, NEW p \in Patch, NEW c \in ChargeOrNone
    PROVE  WizardPaid(q, p, c) \in Row
<1> DEFINE f == q.proof \/ p.proof
<1>1. f \in BOOLEAN /\ "stripe" \in Method /\ "transferencia" \in Method
        /\ "succeeded" \in PayStatus /\ "pending" \in PayStatus
  BY DEF Row, Patch, Method, PayStatus
<1> HIDE DEF f
<1>2. [q EXCEPT !.charge = c, !.amount = TRUE, !.method = "stripe",
                !.payStatus = "succeeded", !.proof = f] \in Row
  BY <1>1 DEF Row
<1>3. [q EXCEPT !.amount = TRUE, !.method = "transferencia",
                !.payStatus = "pending", !.proof = TRUE] \in Row
  BY <1>1 DEF Row
<1>4. \/ WizardPaid(q, p, c) = q
      \/ WizardPaid(q, p, c) = [q EXCEPT !.charge = c, !.amount = TRUE,
               !.method = "stripe", !.payStatus = "succeeded", !.proof = f]
      \/ WizardPaid(q, p, c) = [q EXCEPT !.amount = TRUE,
               !.method = "transferencia", !.payStatus = "pending", !.proof = TRUE]
  BY DEF WizardPaid, Row, f
<1> QED
  BY <1>2, <1>3, <1>4

LEMMA WizardPatchedType ==
    ASSUME NEW q \in Row, NEW p \in Patch, NEW c \in ChargeOrNone
    PROVE  WizardPatched(q, p, c) \in Row
<1> DEFINE n == WizardPaid(q, p, c)
           m == [n EXCEPT !.status = StatusOr(p, @), !.signature = @ \/ p.signature]
<1>0. n \in Row
  BY WizardPaidType
<1> HIDE DEF n
<1>1. m \in Row
  BY <1>0 DEF StatusOr, Row, Patch, Status
<1> HIDE DEF m
<1>2. Received(m) \in Row
  BY <1>1 DEF Received, Row, Status
<1>3. WizardPatched(q, p, c) = Promoted(IF WizardCloses(m, p) THEN Received(m) ELSE m)
  BY DEF WizardPatched, m, n
<1> QED
  BY <1>1, <1>2, <1>3, PromotedType

LEMMA ManuallyPaidType ==
    ASSUME NEW q \in Row, NEW proof \in BOOLEAN
    PROVE  ManuallyPaid(q, proof) \in Row
BY DEF ManuallyPaid, Row, Status, Method, PayStatus

LEMMA DecidedType ==
    ASSUME NEW q \in Row
    PROVE  Approved(q) \in Row /\ Rejected(q) \in Row
BY DEF Approved, Rejected, Row, Status

LEMMA ImportedType ==
    ASSUME NEW partner \in BOOLEAN
    PROVE  Imported(partner) \in Row
BY BlankRowType DEF Imported, Row

-----------------------------------------------------------------------------
(* The inductive invariant for typing.  TypeOK alone is not inductive: a save  *)
(* keeps the table well typed only if the handler that saves names a request.  *)

RowPc == {"updateCharge", "updateCommit", "updateNotify",
          "wizUpdateCharge", "wizUpdateCommit", "wizUpdateNotify",
          "manualSave", "approveSync", "approveReload", "approveSave",
          "rejectSave", "deleteCommit", "dealSave"}

GoodTask == {t \in Task : t.pc \in RowPc => t.rid \in Requests}

TableOK ==
    /\ live \subseteq born /\ born \subseteq Requests
    /\ row \in [Requests -> Row]
    /\ forms \subseteq live /\ bell \subseteq live
    /\ aged \subseteq born

MoneyOK ==
    /\ ledger \in [Charges -> ChargeFate]
    /\ payer \in [Charges -> AllOps \cup {"none"}]

TasksOK == task \in [Workers -> GoodTask]

NoticesOK == notices \in [Requests -> 0..MaxNotices]
SweepOK == sweep \in Sweep
CallsOK == calls \in 0..MaxCalls

TypeInv == TableOK /\ MoneyOK /\ TasksOK /\ NoticesOK /\ SweepOK /\ CallsOK

LEMMA TypeInvTypeOK == TypeInv => TypeOK
<1>1. TasksOK => task \in [Workers -> Task]
  BY DEF TasksOK, GoodTask
<1> QED
  BY <1>1 DEF TypeInv, TypeOK, TableOK, MoneyOK, NoticesOK, SweepOK, CallsOK

-----------------------------------------------------------------------------
(* Typing of the building blocks *)

LEMMA IdleType == Idle \in GoodTask
BY BlankRowType, NoPatchType DEF Idle, Task, Pc, ChargeOrNone, GoodTask, RowPc

LEMMA GotoType ==
    ASSUME TasksOK, NEW w \in Workers, NEW t \in GoodTask, Goto(w, t)
    PROVE  TasksOK'
BY DEF TasksOK, Goto

LEMMA FinishType ==
    ASSUME TasksOK, NEW w \in Workers, Finish(w)
    PROVE  TasksOK'
BY IdleType, GotoType DEF Finish

LEMMA SaveType ==
    ASSUME TableOK, NEW r \in Requests, NEW q \in Row, NEW F \in SUBSET {r},
           Save(r, q, F), UNCHANGED <<bell, aged>>
    PROVE  TableOK'
BY DEF TableOK, Save

LEMMA RemoveType ==
    ASSUME TableOK, NEW R \in SUBSET Requests, Remove(R), UNCHANGED aged,
           bell' = bell \ R
    PROVE  TableOK'
BY BlankRowType DEF TableOK, Remove

LEMMA SettleType ==
    ASSUME MoneyOK, NEW w, NEW fate \in ChargeFate, Settle(w, fate), UNCHANGED payer
    PROVE  MoneyOK'
BY DEF MoneyOK, Settle

LEMMA ChargeType ==
    ASSUME MoneyOK, TasksOK, NEW w \in Workers, NEW op \in AllOps, NEW pc \in Pc,
           pc \in RowPc => task[w].rid \in Requests,
           Charge(w, op, pc)
    PROVE  MoneyOK' /\ TasksOK'
<1> PICK c \in Charges :
        /\ ledger' = [ledger EXCEPT ![c] = "open"]
        /\ payer' = [payer EXCEPT ![c] = op]
        /\ Goto(w, [task[w] EXCEPT !.charge = c, !.pc = pc])
  BY DEF Charge
<1>1. MoneyOK'
  BY DEF MoneyOK, ChargeFate
<1>2. [task[w] EXCEPT !.charge = c, !.pc = pc] \in GoodTask
  BY DEF TasksOK, Task, ChargeOrNone, GoodTask
<1> QED
  BY <1>1, <1>2, GotoType

LEMMA DeclinedType ==
    ASSUME MoneyOK, TasksOK, NEW w \in Workers, NEW op \in AllOps,
                      \/ Finish(w) /\ UNCHANGED money
           \/ ChargeUnanswered(w, op)
    PROVE  MoneyOK' /\ TasksOK'
<1>1. CASE Finish(w) /\ UNCHANGED money
  BY <1>1, FinishType DEF MoneyOK, money
<1>2. CASE ChargeUnanswered(w, op)
  <2> PICK c \in Charges :
          /\ ledger' = [ledger EXCEPT ![c] = "unanswered"]
          /\ payer' = [payer EXCEPT ![c] = op]
          /\ Finish(w)
    BY <1>2 DEF ChargeUnanswered
  <2> QED
    BY FinishType DEF MoneyOK, ChargeFate
<1> QED
  BY <1>1, <1>2

LEMMA AnnounceType ==
    ASSUME TableOK, NoticesOK, NEW r, Announce(r), UNCHANGED <<table, aged>>
    PROVE  TableOK' /\ NoticesOK'
<1>1. TableOK'
  BY DEF TableOK, Announce, table
<1>2. NoticesOK'
  BY BoundsAssumption DEF NoticesOK, Announce
<1> QED
  BY <1>1, <1>2

\* A handler that starts only fills its own task.
LEMMA StartType ==
    ASSUME TypeInv, NEW w \in Workers, NEW op, Starts(w, op), TasksOK',
           UNCHANGED <<table, money, mail, aged, sweep>>
    PROVE  TypeInv'
<1>1. CallsOK'
  BY BoundsAssumption DEF TypeInv, CallsOK, Starts
<1> QED
  BY <1>1 DEF TypeInv, TableOK, MoneyOK, NoticesOK, SweepOK, table, money, mail

\* A handler that goes on without starting anything.
LEMMA OnType ==
    ASSUME TypeInv, TableOK', MoneyOK', TasksOK', NoticesOK', UNCHANGED <<sweep, calls>>
    PROVE  TypeInv'
BY DEF TypeInv, SweepOK, CallsOK

LEMMA LoadedType ==
    ASSUME TypeInv, NEW pc \in Pc, NEW r \in Requests, NEW p \in Patch, NEW a \in BOOLEAN
    PROVE  /\ Loaded(pc, r) \in GoodTask
           /\ [Loaded(pc, r) EXCEPT !.patch = p] \in GoodTask
           /\ [Loaded(pc, r) EXCEPT !.admin = a] \in GoodTask
           /\ [Loaded(pc, r) EXCEPT !.patch = p, !.admin = a] \in GoodTask
<1>1. Idle \in Task /\ row[r] \in Row
  BY IdleType DEF TypeInv, TableOK, GoodTask
<1> QED
  BY <1>1 DEF Loaded, Task, GoodTask

\* What typing says about a worker that runs.
LEMMA TaskFields ==
    ASSUME TypeInv, NEW w \in Workers
    PROVE  /\ task[w] \in Task
           /\ task[w].patch \in Patch /\ task[w].snap \in Row
           /\ task[w].charge \in ChargeOrNone /\ task[w].free \in BOOLEAN
           /\ task[w].rid \in Requests \cup {NoRequest}
           /\ task[w].pc \in RowPc => task[w].rid \in Requests
BY DEF TypeInv, TasksOK, GoodTask, Task

-----------------------------------------------------------------------------
(* Type correctness, one handler at a time *)

LEMMA CreateType ==
    ASSUME TypeInv, NEW w \in Workers, CreateBegin(w) \/ CreateStep(w)
    PROVE  TypeInv'
<1> USE DEF TypeInv
<1>1. CASE CreateBegin(w)
  <2>1. PICK p \in Patches, partner \in BOOLEAN :
          Goto(w, [Idle EXCEPT
                     !.pc = IF p.token /\ p.amount THEN "createCharge" ELSE "createCommit",
                     !.patch = p, !.snap = PanelCreated(p, partner, NoCharge)])
    BY <1>1 DEF CreateBegin
  <2> DEFINE pc == IF p.token /\ p.amount THEN "createCharge" ELSE "createCommit"
  <2>2. pc \in Pc \ RowPc /\ p \in Patch /\ PanelCreated(p, partner, NoCharge) \in Row
    BY PatchesAssumption, PanelCreatedType DEF Pc, ChargeOrNone, RowPc
  <2>3. [Idle EXCEPT !.pc = pc, !.patch = p,
                             !.snap = PanelCreated(p, partner, NoCharge)] \in GoodTask
    BY <2>2, IdleType DEF Task, GoodTask
  <2>4. TasksOK'
    BY <2>1, <2>3, GotoType
  <2> QED
    BY <1>1, <2>4, StartType DEF CreateBegin
<1>2. CASE CreateCharged(w)
  <2>1. "create" \in AllOps /\ "createCommit" \in Pc \ RowPc
    BY DEF AllOps, Pc, RowPc
  <2>2. MoneyOK' /\ TasksOK'
    BY <1>2, <2>1, ChargeType DEF CreateCharged
  <2> QED
    BY <1>2, <2>2, OnType DEF CreateCharged, TableOK, NoticesOK, table, mail
<1>3. CASE CreateDeclined(w)
  <2>1. MoneyOK' /\ TasksOK'
    BY <1>3, DeclinedType DEF CreateDeclined, AllOps
  <2> QED
    BY <1>3, <2>1, OnType DEF CreateDeclined, TableOK, NoticesOK, table, mail
<1>4. CASE CreateCommit(w)
  <2> DEFINE t == task[w]
             q == PanelCreated(t.patch, t.snap.partner, t.charge)
  <2>1. PICK r \in Requests \ born :
          /\ Save(r, q, {r})
          /\ Goto(w, IF q.status = "solicitud-recibida"
                     THEN [t EXCEPT !.pc = "createNotify", !.rid = r, !.snap = q,
                                    !.charge = NoCharge]
                     ELSE Idle)
    BY <1>4 DEF CreateCommit
  <2>2. t \in Task /\ q \in Row
    BY TaskFields, PanelCreatedType DEF Row
  <2> HIDE DEF q
  <2>3. TableOK'
    BY <1>4, <2>1, <2>2, SaveType DEF CreateCommit, mail
  <2>4. [t EXCEPT !.pc = "createNotify", !.rid = r, !.snap = q, !.charge = NoCharge] \in GoodTask
    BY <2>2 DEF Task, Pc, ChargeOrNone, GoodTask
  <2>5. TasksOK'
    BY <2>1, <2>4, IdleType, GotoType
  <2>6. MoneyOK'
    BY <1>4, SettleType DEF CreateCommit, ChargeFate
  <2> QED
    BY <1>4, <2>3, <2>5, <2>6, OnType DEF CreateCommit, NoticesOK, mail
<1>5. CASE CreateFails(w)
  <2>1. MoneyOK' /\ TasksOK'
    BY <1>5, FinishType, SettleType DEF CreateFails, ChargeFate
  <2> QED
    BY <1>5, <2>1, OnType DEF CreateFails, TableOK, NoticesOK, table, mail
<1>6. CASE CreateNotify(w)
  <2>1. TableOK' /\ NoticesOK'
    BY <1>6, AnnounceType DEF CreateNotify
  <2>2. TasksOK'
    BY <1>6, FinishType DEF CreateNotify
  <2> QED
    BY <1>6, <2>1, <2>2, OnType DEF CreateNotify, MoneyOK, money
<1> QED
  BY <1>1, <1>2, <1>3, <1>4, <1>5, <1>6 DEF CreateStep

LEMMA UpdateType ==
    ASSUME TypeInv, NEW w \in Workers, UpdateBegin(w) \/ UpdateStep(w)
    PROVE  TypeInv'
<1> USE DEF TypeInv
<1>1. CASE UpdateBegin(w)
  <2>1. PICK r \in born, p \in Patches, staff \in BOOLEAN :
          \/ Finish(w)
          \/ Goto(w, [Loaded(IF PanelCharges(row[r], p) THEN "updateCharge"
                             ELSE "updateCommit", r) EXCEPT !.patch = p, !.admin = staff])
    BY <1>1 DEF UpdateBegin
  <2> DEFINE pc == IF PanelCharges(row[r], p) THEN "updateCharge" ELSE "updateCommit"
  <2>2. pc \in Pc /\ r \in Requests /\ p \in Patch
    BY PatchesAssumption DEF Pc, TableOK
  <2> HIDE DEF pc
  <2>3. [Loaded(pc, r) EXCEPT !.patch = p, !.admin = staff] \in GoodTask
    BY <2>2, LoadedType
  <2>4. TasksOK'
    BY <2>1, <2>3, GotoType, FinishType DEF pc
  <2> QED
    BY <1>1, <2>4, StartType DEF UpdateBegin
<1>2. CASE UpdateCharged(w)
  <2>1. "update" \in AllOps /\ "updateCommit" \in Pc /\ task[w].rid \in Requests
    BY <1>2, TaskFields DEF UpdateCharged, At, AllOps, Pc, RowPc
  <2>2. MoneyOK' /\ TasksOK'
    BY <1>2, <2>1, ChargeType DEF UpdateCharged
  <2> QED
    BY <1>2, <2>2, OnType DEF UpdateCharged, TableOK, NoticesOK, table, mail
<1>3. CASE UpdateDeclined(w)
  <2>1. MoneyOK' /\ TasksOK'
    BY <1>3, DeclinedType DEF UpdateDeclined, AllOps
  <2> QED
    BY <1>3, <2>1, OnType DEF UpdateDeclined, TableOK, NoticesOK, table, mail
<1>4. CASE UpdateCommit(w)
  <2> DEFINE t == task[w]
             q == PanelWritten(row[t.rid], t.snap, t.patch, t.charge)
  <2>1. /\ Save(t.rid, q, {t.rid})
        /\ Goto(w, IF q.status = "solicitud-recibida"
                      /\ t.snap.status # "solicitud-recibida"
                   THEN [t EXCEPT !.pc = "updateNotify", !.charge = NoCharge]
                   ELSE Idle)
    BY <1>4 DEF UpdateCommit
  <2>2. t \in Task /\ t.rid \in Requests
    BY <1>4, TaskFields DEF UpdateCommit, At, RowPc
  <2>3. q \in Row
    BY <2>2, TaskFields, PanelWrittenType DEF TableOK
  <2> HIDE DEF q
  <2>4. TableOK'
    BY <1>4, <2>1, <2>2, <2>3, SaveType DEF UpdateCommit, mail
  <2>5. [t EXCEPT !.pc = "updateNotify", !.charge = NoCharge] \in GoodTask
    BY <2>2 DEF Task, Pc, ChargeOrNone, GoodTask
  <2>6. TasksOK'
    BY <2>1, <2>5, IdleType, GotoType
  <2>7. MoneyOK'
    BY <1>4, SettleType DEF UpdateCommit, ChargeFate
  <2> QED
    BY <1>4, <2>4, <2>6, <2>7, OnType DEF UpdateCommit, NoticesOK, mail
<1>5. CASE UpdateFails(w)
  <2>1. MoneyOK' /\ TasksOK'
    BY <1>5, FinishType, SettleType DEF UpdateFails, ChargeFate
  <2> QED
    BY <1>5, <2>1, OnType DEF UpdateFails, TableOK, NoticesOK, table, mail
<1>6. CASE UpdateNotify(w)
  <2>1. TableOK' /\ NoticesOK'
    BY <1>6, AnnounceType DEF UpdateNotify
  <2>2. TasksOK'
    BY <1>6, FinishType DEF UpdateNotify
  <2> QED
    BY <1>6, <2>1, <2>2, OnType DEF UpdateNotify, MoneyOK, money
<1> QED
  BY <1>1, <1>2, <1>3, <1>4, <1>5, <1>6 DEF UpdateStep

LEMMA WizCreateType ==
    ASSUME TypeInv, NEW w \in Workers, WizCreateBegin(w) \/ WizCreateStep(w)
    PROVE  TypeInv'
<1> USE DEF TypeInv
<1>1. CASE WizCreateBegin(w)
  <2>1. PICK p \in Patches, source \in {"wizard", "crm-lead", "panel"}, free \in BOOLEAN :
          \/ Finish(w)
          \/ Goto(w, [Idle EXCEPT
                        !.pc = IF WizardHasPayment(p, free) /\ p.method = "stripe"
                               THEN "wizCreateCharge" ELSE "wizCreateCommit",
                        !.patch = p, !.free = free,
                        !.snap = WizardCreated(p, source, free, NoCharge)])
    BY <1>1 DEF WizCreateBegin
  <2> DEFINE pc == IF WizardHasPayment(p, free) /\ p.method = "stripe"
                   THEN "wizCreateCharge" ELSE "wizCreateCommit"
             q == WizardCreated(p, source, free, NoCharge)
  <2>2. pc \in Pc \ RowPc /\ p \in Patch /\ q \in Row
    BY PatchesAssumption, WizardCreatedType DEF Pc, RowPc, Origin, ChargeOrNone
  <2> HIDE DEF pc, q
  <2>3. [Idle EXCEPT !.pc = pc, !.patch = p, !.free = free, !.snap = q] \in GoodTask
    BY <2>2, IdleType DEF Task, GoodTask
  <2>4. TasksOK'
    BY <2>1, <2>3, GotoType, FinishType DEF pc, q
  <2> QED
    BY <1>1, <2>4, StartType DEF WizCreateBegin
<1>2. CASE WizCreateCharged(w)
  <2>1. "wizCreate" \in AllOps /\ "wizCreateCommit" \in Pc \ RowPc
    BY DEF AllOps, Pc, RowPc
  <2>2. MoneyOK' /\ TasksOK'
    BY <1>2, <2>1, ChargeType DEF WizCreateCharged
  <2> QED
    BY <1>2, <2>2, OnType DEF WizCreateCharged, TableOK, NoticesOK, table, mail
<1>3. CASE WizCreateDeclined(w)
  <2>1. MoneyOK' /\ TasksOK'
    BY <1>3, DeclinedType DEF WizCreateDeclined, AllOps
  <2> QED
    BY <1>3, <2>1, OnType DEF WizCreateDeclined, TableOK, NoticesOK, table, mail
<1>4. CASE WizCreateCommit(w)
  <2> DEFINE t == task[w]
             q == WizardCreated(t.patch, t.snap.createdFrom, t.free, t.charge)
  <2>0. PICK r \in Requests \ born : \E F \in SUBSET {r} : Save(r, q, F)
    BY <1>4 DEF WizCreateCommit
  <2>1. PICK F \in SUBSET {r} : Save(r, q, F)
    BY <2>0
  <2>2. q \in Row
    BY TaskFields, WizardCreatedType DEF Row
  <2> HIDE DEF q
  <2>3. TableOK'
    BY <1>4, <2>1, <2>2, SaveType DEF WizCreateCommit, mail
  <2>4. MoneyOK' /\ TasksOK'
    BY <1>4, FinishType, SettleType DEF WizCreateCommit, ChargeFate
  <2> QED
    BY <1>4, <2>3, <2>4, OnType DEF WizCreateCommit, NoticesOK, mail
<1>5. CASE WizCreateFails(w)
  <2>1. [task[w] EXCEPT !.pc = "wizCreateRefund"] \in GoodTask
    BY TaskFields DEF Task, Pc, GoodTask, RowPc
  <2>2. TasksOK'
    BY <1>5, <2>1, FinishType, GotoType DEF WizCreateFails
  <2> QED
    BY <1>5, <2>2, OnType DEF WizCreateFails, TableOK, MoneyOK, NoticesOK, table, money, mail
<1>6. CASE WizCreateRefund(w)
  <2>1. MoneyOK' /\ TasksOK'
    BY <1>6, FinishType, SettleType DEF WizCreateRefund, ChargeFate
  <2> QED
    BY <1>6, <2>1, OnType DEF WizCreateRefund, TableOK, NoticesOK, table, mail
<1> QED
  BY <1>1, <1>2, <1>3, <1>4, <1>5, <1>6 DEF WizCreateStep

LEMMA WizUpdateType ==
    ASSUME TypeInv, NEW w \in Workers, WizUpdateBegin(w) \/ WizUpdateStep(w)
    PROVE  TypeInv'
<1> USE DEF TypeInv
<1>1. CASE WizUpdateBegin(w)
  <2>1. PICK r \in born, p \in Patches :
          \/ Finish(w)
          \/ Goto(w, [Loaded(IF WizardCharges(row[r], p) THEN "wizUpdateCharge"
                             ELSE "wizUpdateCommit", r) EXCEPT !.patch = p])
    BY <1>1 DEF WizUpdateBegin
  <2> DEFINE pc == IF WizardCharges(row[r], p) THEN "wizUpdateCharge" ELSE "wizUpdateCommit"
  <2>2. pc \in Pc /\ r \in Requests /\ p \in Patch
    BY PatchesAssumption DEF Pc, TableOK
  <2> HIDE DEF pc
  <2>3. [Loaded(pc, r) EXCEPT !.patch = p] \in GoodTask
    BY <2>2, LoadedType
  <2>4. TasksOK'
    BY <2>1, <2>3, GotoType, FinishType DEF pc
  <2> QED
    BY <1>1, <2>4, StartType DEF WizUpdateBegin
<1>2. CASE WizUpdateCharged(w)
  <2>1. "wizUpdate" \in AllOps /\ "wizUpdateCommit" \in Pc /\ task[w].rid \in Requests
    BY <1>2, TaskFields DEF WizUpdateCharged, At, AllOps, Pc, RowPc
  <2>2. MoneyOK' /\ TasksOK'
    BY <1>2, <2>1, ChargeType DEF WizUpdateCharged
  <2> QED
    BY <1>2, <2>2, OnType DEF WizUpdateCharged, TableOK, NoticesOK, table, mail
<1>3. CASE WizUpdateDeclined(w)
  <2>1. MoneyOK' /\ TasksOK'
    BY <1>3, DeclinedType DEF WizUpdateDeclined, AllOps
  <2> QED
    BY <1>3, <2>1, OnType DEF WizUpdateDeclined, TableOK, NoticesOK, table, mail
<1>4. CASE WizUpdateCommit(w)
  <2> DEFINE t == task[w]
             q == WizardPatched(t.snap, t.patch, t.charge)
  <2>1. /\ Save(t.rid, q, {t.rid})
        /\ Goto(w, IF t.snap.status # "solicitud-recibida"
                   THEN [t EXCEPT !.pc = "wizUpdateNotify", !.charge = NoCharge]
                   ELSE Idle)
    BY <1>4 DEF WizUpdateCommit
  <2>2. t \in Task /\ t.rid \in Requests
    BY <1>4, TaskFields DEF WizUpdateCommit, At, RowPc
  <2>3. q \in Row
    BY TaskFields, WizardPatchedType
  <2> HIDE DEF q
  <2>4. TableOK'
    BY <1>4, <2>1, <2>2, <2>3, SaveType DEF WizUpdateCommit, mail
  <2>5. [t EXCEPT !.pc = "wizUpdateNotify", !.charge = NoCharge] \in GoodTask
    BY <2>2 DEF Task, Pc, ChargeOrNone, GoodTask
  <2>6. TasksOK'
    BY <2>1, <2>5, IdleType, GotoType
  <2>7. MoneyOK'
    BY <1>4, SettleType DEF WizUpdateCommit, ChargeFate
  <2> QED
    BY <1>4, <2>4, <2>6, <2>7, OnType DEF WizUpdateCommit, NoticesOK, mail
<1>5. CASE WizUpdateFails(w)
  <2>1. MoneyOK' /\ TasksOK'
    BY <1>5, FinishType, SettleType DEF WizUpdateFails, ChargeFate
  <2> QED
    BY <1>5, <2>1, OnType DEF WizUpdateFails, TableOK, NoticesOK, table, mail
<1>6. CASE WizUpdateNotify(w)
  <2>1. TableOK' /\ NoticesOK'
    BY <1>6, AnnounceType DEF WizUpdateNotify, TableOK, NoticesOK, table, mail
  <2>2. TasksOK'
    BY <1>6, FinishType DEF WizUpdateNotify
  <2> QED
    BY <1>6, <2>1, <2>2, OnType DEF WizUpdateNotify, MoneyOK, money
<1> QED
  BY <1>1, <1>2, <1>3, <1>4, <1>5, <1>6 DEF WizUpdateStep

\* The handlers that load a request and keep it until they save it.
LEMMA AdminBeginType ==
    ASSUME TypeInv, NEW w \in Workers,
           \/ ManualBegin(w) \/ ApproveBegin(w) \/ RejectBegin(w)
           \/ DeleteBegin(w) \/ DealBegin(w)
    PROVE  TypeInv'
<1> USE DEF TypeInv
<1>1. born \subseteq Requests /\ live \subseteq Requests
  BY DEF TableOK
<1>2. CASE ManualBegin(w)
  <2>1. PICK r \in Requests :
          Finish(w) \/ Goto(w, Loaded("manualSave", r))
    BY <1>1, <1>2 DEF ManualBegin
  <2>2. TasksOK'
    BY <2>1, NoPatchType, LoadedType, GotoType, FinishType DEF Pc
  <2> QED
    BY <1>2, <2>2, StartType DEF ManualBegin
<1>3. CASE ApproveBegin(w)
  <2>1. PICK r \in Requests :
          Finish(w) \/ Goto(w, Loaded("approveSync", r))
    BY <1>1, <1>3 DEF ApproveBegin
  <2>2. TasksOK'
    BY <2>1, NoPatchType, LoadedType, GotoType, FinishType DEF Pc
  <2> QED
    BY <1>3, <2>2, StartType DEF ApproveBegin
<1>4. CASE RejectBegin(w)
  <2>1. PICK r \in Requests :
          Finish(w) \/ Goto(w, Loaded("rejectSave", r))
    BY <1>1, <1>4 DEF RejectBegin
  <2>2. TasksOK'
    BY <2>1, NoPatchType, LoadedType, GotoType, FinishType DEF Pc
  <2> QED
    BY <1>4, <2>2, StartType DEF RejectBegin
<1>5. CASE DeleteBegin(w)
  <2>1. PICK r \in Requests, admin \in BOOLEAN :
          \/ Finish(w)
          \/ Goto(w, [Loaded("deleteCommit", r) EXCEPT !.admin = admin])
    BY <1>1, <1>5 DEF DeleteBegin
  <2>2. TasksOK'
    BY <2>1, NoPatchType, LoadedType, GotoType, FinishType DEF Pc
  <2> QED
    BY <1>5, <2>2, StartType DEF DeleteBegin
<1>6. CASE DealBegin(w)
  <2>1. PICK r \in Requests : Goto(w, Loaded("dealSave", r))
    BY <1>1, <1>6 DEF DealBegin
  <2>2. TasksOK'
    BY <2>1, NoPatchType, LoadedType, GotoType DEF Pc
  <2> QED
    BY <1>6, <2>2, StartType DEF DealBegin
<1> QED
  BY <1>2, <1>3, <1>4, <1>5, <1>6

LEMMA AdminStepType ==
    ASSUME TypeInv, NEW w \in Workers, AdminStep(w)
    PROVE  TypeInv'
<1> USE DEF TypeInv
<1> DEFINE r == task[w].rid
           q == task[w].snap
<1>1. q \in Row
  BY TaskFields
<1>2. CASE ManualSave(w)
  <2>1. r \in Requests
    BY <1>2, TaskFields DEF ManualSave, At, RowPc
  <2>2. PICK proof \in BOOLEAN : Save(r, ManuallyPaid(q, proof), {})
    BY <1>2 DEF ManualSave
  <2>3. TableOK'
    BY <1>1, <1>2, <2>1, <2>2, ManuallyPaidType, SaveType DEF ManualSave, mail
  <2>4. TasksOK'
    BY <1>2, FinishType DEF ManualSave
  <2> QED
    BY <1>2, <2>3, <2>4, OnType DEF ManualSave, MoneyOK, NoticesOK, money, mail
<1>3. CASE ApproveSync(w)
  <2>1. r \in Requests
    BY <1>3, TaskFields DEF ApproveSync, At, RowPc
  <2>2. row' \in [Requests -> Row]
    BY <1>3, <2>1 DEF ApproveSync, TableOK, Row
  <2>3. [task[w] EXCEPT !.pc = "approveReload"] \in GoodTask
    BY <2>1, TaskFields DEF Task, Pc, GoodTask
  <2>4. TasksOK'
    BY <1>3, <2>3, FinishType, GotoType DEF ApproveSync
  <2> QED
    BY <1>3, <2>2, <2>4, OnType DEF ApproveSync, TableOK, MoneyOK, NoticesOK, money, mail
<1>4. CASE ApproveSyncFails(w)
  <2>1. TasksOK'
    BY <1>4, FinishType DEF ApproveSyncFails
  <2> QED
    BY <1>4, <2>1, OnType
       DEF ApproveSyncFails, TableOK, MoneyOK, NoticesOK, table, money, mail
<1>5. CASE ApproveReload(w)
  <2>1. r \in Requests
    BY <1>5, TaskFields DEF ApproveReload, At, RowPc
  <2>2. TasksOK'
    BY <1>5, <2>1, NoPatchType, LoadedType, GotoType, FinishType DEF ApproveReload, Pc
  <2> QED
    BY <1>5, <2>2, OnType
       DEF ApproveReload, TableOK, MoneyOK, NoticesOK, table, money, mail
<1>6. CASE ApproveSave(w)
  <2>1. r \in Requests
    BY <1>6, TaskFields DEF ApproveSave, At, RowPc
  <2>2. TableOK'
    BY <1>1, <1>6, <2>1, DecidedType, SaveType DEF ApproveSave, mail
  <2>3. TasksOK'
    BY <1>6, FinishType DEF ApproveSave
  <2> QED
    BY <1>6, <2>2, <2>3, OnType DEF ApproveSave, MoneyOK, NoticesOK, money, mail
<1>7. CASE ApproveFails(w)
  <2>1. TasksOK'
    BY <1>7, FinishType DEF ApproveFails
  <2> QED
    BY <1>7, <2>1, OnType
       DEF ApproveFails, TableOK, MoneyOK, NoticesOK, table, money, mail
<1>8. CASE RejectSave(w)
  <2>1. r \in Requests
    BY <1>8, TaskFields DEF RejectSave, At, RowPc
  <2>2. TableOK'
    BY <1>1, <1>8, <2>1, DecidedType, SaveType DEF RejectSave, mail
  <2>3. TasksOK'
    BY <1>8, FinishType DEF RejectSave
  <2> QED
    BY <1>8, <2>2, <2>3, OnType DEF RejectSave, MoneyOK, NoticesOK, money, mail
<1>9. CASE DeleteCommit(w)
  <2>1. r \in Requests
    BY <1>9, TaskFields DEF DeleteCommit, At, RowPc
  <2>2. CASE r \in live
    <3>1. TableOK'
      BY <1>9, <2>1, <2>2, RemoveType DEF DeleteCommit
    <3>2. TasksOK'
      BY <1>9, <2>2, FinishType DEF DeleteCommit
    <3> QED
      BY <1>9, <3>1, <3>2, OnType DEF DeleteCommit, MoneyOK, NoticesOK, money
  <2>3. CASE r \notin live
    <3>1. TableOK'
      BY <1>9, <2>3 DEF DeleteCommit, TableOK, table
    <3>2. TasksOK'
      BY <1>9, <2>3, FinishType DEF DeleteCommit
    <3> QED
      BY <1>9, <3>1, <3>2, OnType DEF DeleteCommit, MoneyOK, NoticesOK, money
  <2> QED
    BY <2>2, <2>3
<1> QED
  BY <1>2, <1>3, <1>4, <1>5, <1>6, <1>7, <1>8, <1>9 DEF AdminStep

LEMMA CrmType ==
    ASSUME TypeInv, NEW w \in Workers, ImportBegin(w) \/ CrmStep(w)
    PROVE  TypeInv'
<1> USE DEF TypeInv
<1>1. CASE ImportBegin(w)
  <2>1. ASSUME NEW r \in live, NEW partner \in BOOLEAN
        PROVE  [Loaded("importCommit", r) EXCEPT !.snap.account = TRUE,
                                                 !.snap.partner = @ \/ partner] \in GoodTask
    <3>1. row[r] \in Row /\ r \in Requests
      BY DEF TableOK
    <3>2. Loaded("importCommit", r) \in GoodTask
      BY <3>1, NoPatchType, LoadedType DEF Pc
    <3> QED
      BY <3>1, <3>2 DEF GoodTask, Task, Row
  <2>2. ASSUME NEW partner \in BOOLEAN
        PROVE  [Idle EXCEPT !.pc = "importCommit",
                                    !.snap = Imported(partner)] \in GoodTask
    <3>1. Idle \in GoodTask /\ Imported(partner) \in Row
      BY IdleType, ImportedType
    <3> QED
      BY <3>1 DEF GoodTask, Task, Pc, RowPc
  <2>3. TasksOK'
    BY <1>1, <2>1, <2>2, GotoType DEF ImportBegin
  <2> QED
    BY <1>1, <2>3, StartType DEF ImportBegin
<1>2. CASE DealSave(w)
  <2>1. task[w].rid \in Requests /\ task[w].snap \in Row
    BY <1>2, TaskFields DEF DealSave, At, RowPc
  <2>2. TableOK'
    <3>1. CASE UNCHANGED table
      BY <1>2, <3>1 DEF DealSave, TableOK, table, mail
    <3>2. CASE \E s \in DealStatus \cup {task[w].snap.status} :
                  Save(task[w].rid, [task[w].snap EXCEPT !.status = s], {})
      <4>1. PICK s \in Status : Save(task[w].rid, [task[w].snap EXCEPT !.status = s], {})
        BY <2>1, <3>2 DEF DealStatus, Status, Row
      <4>2. [task[w].snap EXCEPT !.status = s] \in Row
        BY <2>1 DEF Row
      <4> QED
        BY <1>2, <2>1, <4>1, <4>2, SaveType DEF DealSave, mail
    <3> QED
      BY <1>2, <3>1, <3>2 DEF DealSave
  <2>3. TasksOK'
    BY <1>2, FinishType DEF DealSave
  <2> QED
    BY <1>2, <2>2, <2>3, OnType DEF DealSave, MoneyOK, NoticesOK, money, mail
<1>3. CASE ImportCommit(w)
  <2>1. PICK r \in Requests : Save(r, task[w].snap, {r})
                              /\ Goto(w, [task[w] EXCEPT !.pc = "dealSave", !.rid = r])
    BY <1>3, TaskFields DEF ImportCommit
  <2>2. TableOK'
    BY <1>3, <2>1, TaskFields, SaveType DEF ImportCommit, mail
  <2>3. [task[w] EXCEPT !.pc = "dealSave", !.rid = r] \in GoodTask
    BY TaskFields DEF Task, Pc, GoodTask
  <2>4. TasksOK'
    BY <2>1, <2>3, GotoType
  <2> QED
    BY <1>3, <2>2, <2>4, OnType DEF ImportCommit, MoneyOK, NoticesOK, money, mail
<1>4. CASE ImportFails(w)
  <2>1. TasksOK'
    BY <1>4, FinishType DEF ImportFails
  <2> QED
    BY <1>4, <2>1, OnType
       DEF ImportFails, TableOK, MoneyOK, NoticesOK, table, money, mail
<1> QED
  BY <1>1, <1>2, <1>3, <1>4 DEF CrmStep

LEMMA EnvironmentType ==
    ASSUME TypeInv, Environment \/ CleanupScan \/ CleanupForms \/ CleanupDelete
    PROVE  TypeInv'
<1> USE DEF TypeInv
<1>1. ASSUME NEW r \in Requests, Age(r) PROVE TypeInv'
  BY <1>1 DEF Age, TableOK, MoneyOK, TasksOK, NoticesOK, SweepOK, CallsOK, table, money, mail
<1>2. ASSUME NEW r \in Requests, ClearBell(r) PROVE TypeInv'
  BY <1>2 DEF ClearBell, TableOK, MoneyOK, TasksOK, NoticesOK, SweepOK, CallsOK, table, money
<1>3. CASE Crash
  <2>1. TasksOK'
    BY <1>3, IdleType DEF Crash, TasksOK
  <2>2. MoneyOK' /\ CallsOK' /\ SweepOK'
    BY <1>3, BoundsAssumption DEF Crash, MoneyOK, ChargeFate, CallsOK, SweepOK, Sweep
  <2> QED
    BY <1>3, <2>1, <2>2 DEF Crash, TableOK, NoticesOK, table, mail
<1>4. CASE CleanupScan
  <2>1. SweepOK'
    BY <1>4 DEF CleanupScan, StaleDrafts, SweepOK, Sweep, TableOK
  <2> QED
    BY <1>4, <2>1
       DEF CleanupScan, TableOK, MoneyOK, TasksOK, NoticesOK, CallsOK, table, money, mail
<1>5. CASE CleanupForms
  BY <1>5 DEF CleanupForms, TableOK, MoneyOK, TasksOK, NoticesOK, CallsOK, SweepOK, Sweep,
              money, mail
<1>6. CASE CleanupDelete
  <2>1. SweepOK' /\ sweep.ids \in SUBSET Requests
    BY <1>6 DEF CleanupDelete, SweepOK, Sweep
  <2>2. CASE sweep.ids \cap (bell \cup forms) = {}
    <3>1. bell' = bell \ sweep.ids /\ UNCHANGED aged /\ Remove(sweep.ids)
      BY <1>6, <2>2 DEF CleanupDelete, mail
    <3>2. TableOK'
      BY <2>1, <3>1, RemoveType
    <3> QED
      BY <1>6, <2>1, <3>2
         DEF CleanupDelete, MoneyOK, TasksOK, NoticesOK, CallsOK, money, mail
  <2>3. CASE sweep.ids \cap (bell \cup forms) # {}
    BY <1>6, <2>1, <2>3
       DEF CleanupDelete, TableOK, MoneyOK, TasksOK, NoticesOK, CallsOK, table, money, mail
  <2> QED
    BY <2>2, <2>3
<1> QED
  BY <1>1, <1>2, <1>3, <1>4, <1>5, <1>6 DEF Environment

-----------------------------------------------------------------------------
(* Theorems *)

LEMMA InitType == Init => TypeInv
<1> SUFFICES ASSUME Init PROVE TypeInv
  OBVIOUS
<1>1. TableOK /\ MoneyOK /\ NoticesOK /\ SweepOK /\ CallsOK
  BY BlankRowType, BoundsAssumption
     DEF Init, TableOK, MoneyOK, ChargeFate, NoticesOK, SweepOK, Sweep, CallsOK
<1>2. TasksOK
  BY IdleType DEF Init, TasksOK
<1> QED
  BY <1>1, <1>2 DEF TypeInv

LEMMA NextType == TypeInv /\ [Next]_vars => TypeInv'
<1> SUFFICES ASSUME TypeInv, [Next]_vars PROVE TypeInv'
  OBVIOUS
<1>1. CASE UNCHANGED vars
  BY <1>1 DEF vars, TypeInv, TableOK, MoneyOK, TasksOK, NoticesOK, SweepOK, CallsOK
<1>2. ASSUME NEW w \in Workers, Begin(w) PROVE TypeInv'
  BY <1>2, CreateType, UpdateType, WizCreateType, WizUpdateType, AdminBeginType, CrmType
     DEF Begin
<1>3. ASSUME NEW w \in Workers, Continue(w) PROVE TypeInv'
  BY <1>3, CreateType, UpdateType, WizCreateType, WizUpdateType, AdminStepType, CrmType
     DEF Continue
<1> QED
  BY <1>1, <1>2, <1>3, EnvironmentType DEF Next

LEMMA SpecTypeInv == Spec => []TypeInv
BY InitType, NextType, PTL DEF Spec

\* Every reachable state is well typed: a notification and a form belong to a
\* stored request, a stored request keeps a key the sequence gave out.
THEOREM TypeCorrect == Spec => []TypeOK
BY SpecTypeInv, TypeInvTypeOK, PTL

-----------------------------------------------------------------------------
(* A request in process has a CRM account.  Handlers save rows they read       *)
(* earlier, so the invariant must hold of every row in memory too: whatever    *)
(* pair of status and account a handler writes was once a pair of the table.   *)

LinkedRow == {q \in Row : q.status \in {"en-proceso", "completada"} => q.account}

DraftStatus == {"none", "pendiente", "solicitud-recibida"}

LinkedTask ==
    {t \in Task : /\ t.snap \in LinkedRow
                  /\ t.patch.status \in DraftStatus
                  /\ t.pc \in {"approveSave", "dealSave", "importCommit"} => t.snap.account}

LinkInv == row \in [Requests -> LinkedRow] /\ task \in [Workers -> LinkedTask]

\* Neither patch reaches en-proceso or completada by itself, or drops the account.
LEMMA PromotedLinked ==
    ASSUME NEW q \in LinkedRow
    PROVE  Promoted(q) \in LinkedRow
BY PromotedType DEF Promoted, Received, LinkedRow, Row

LEMMA PanelPatchedLinked ==
    ASSUME NEW q \in LinkedRow, NEW p \in Patch, NEW c \in ChargeOrNone,
           p.status \in DraftStatus
    PROVE  PanelPatched(q, p, c) \in LinkedRow
<1> DEFINE paid == IF PanelHasResult(q, p) THEN PanelPaid(q, p, c)
                   ELSE IF p.method # "none" /\ p.amount
                   THEN PanelDeclaredPayment(q, p)
                   ELSE PanelNoPayment(q, p)
           confirmed == PartnerConfirmed(paid, p)
           signed == [confirmed EXCEPT !.signature = @ \/ p.signature]
<1>1. q \in Row /\ (q.status \in {"en-proceso", "completada"} => q.account)
  BY DEF LinkedRow
<1>2. PanelPaid(q, p, c) \in Row /\ PanelDeclaredPayment(q, p) \in Row
        /\ PanelNoPayment(q, p) \in Row
  BY <1>1, PanelBranchesType
<1>3. /\ paid.account = q.account
      /\ paid.status \in {q.status, "pendiente", "solicitud-recibida"}
  BY <1>1 DEF PanelPaid, PanelDeclaredPayment, PanelNoPayment, StatusOr, Row, DraftStatus
<1>4. paid \in LinkedRow
  BY <1>1, <1>2, <1>3 DEF LinkedRow
<1> HIDE DEF paid
<1>5. confirmed \in LinkedRow
  BY <1>4 DEF PartnerConfirmed, Received, LinkedRow, Row, Status
<1> HIDE DEF confirmed
<1>6. signed \in LinkedRow
  BY <1>5 DEF LinkedRow, Row, Patch
<1>7. PanelPatched(q, p, c) = Promoted(signed)
  BY DEF PanelPatched, paid, confirmed
<1> QED
  BY <1>6, <1>7, PromotedLinked

LEMMA PanelWrittenLinked ==
    ASSUME NEW stored \in Row, NEW q \in LinkedRow, NEW p \in Patch,
           NEW c \in ChargeOrNone, p.status \in DraftStatus
    PROVE  PanelWritten(stored, q, p, c) \in LinkedRow
<1>1. PanelPatched(q, p, c) \in LinkedRow
  BY PanelPatchedLinked
<1>2. PanelWritten(stored, q, p, c) \in Row
  BY PanelWrittenType DEF LinkedRow
<1>3. /\ PanelWritten(stored, q, p, c).account = PanelPatched(q, p, c).account
      /\ PanelWritten(stored, q, p, c).status = PanelPatched(q, p, c).status
  BY <1>1 DEF PanelWritten, LinkedRow, Row
<1> QED
  BY <1>1, <1>2, <1>3 DEF LinkedRow

LEMMA WizardPatchedLinked ==
    ASSUME NEW q \in LinkedRow, NEW p \in Patch, NEW c \in ChargeOrNone,
           p.status \in DraftStatus
    PROVE  WizardPatched(q, p, c) \in LinkedRow
<1> DEFINE m == [WizardPaid(q, p, c) EXCEPT !.status = StatusOr(p, @),
                                            !.signature = @ \/ p.signature]
<1>1. q \in Row /\ (q.status \in {"en-proceso", "completada"} => q.account)
  BY DEF LinkedRow
<1>2. WizardPaid(q, p, c) \in Row
  BY <1>1, WizardPaidType
<1>3. WizardPaid(q, p, c).account = q.account /\ WizardPaid(q, p, c).status = q.status
  BY <1>1 DEF WizardPaid, Row
<1>4. m \in LinkedRow
  BY <1>1, <1>2, <1>3 DEF StatusOr, LinkedRow, Row, Patch, Status, DraftStatus
<1> HIDE DEF m
<1>5. Received(m) \in LinkedRow
  BY <1>4 DEF Received, LinkedRow, Row, Status
<1>6. WizardPatched(q, p, c) = Promoted(IF WizardCloses(m, p) THEN Received(m) ELSE m)
  BY DEF WizardPatched, m
<1> QED
  BY <1>4, <1>5, <1>6, PromotedLinked

LEMMA CreatedLinked ==
    ASSUME NEW p \in Patch, NEW c \in ChargeOrNone, NEW b \in BOOLEAN,
           NEW source \in Origin, p.status \in DraftStatus
    PROVE  PanelCreated(p, b, c) \in LinkedRow /\ WizardCreated(p, source, b, c) \in LinkedRow
<1>1. PanelCreated(p, b, c) \in Row /\ WizardCreated(p, source, b, c) \in Row
  BY PanelCreatedType, WizardCreatedType
<1>2. PanelCreated(p, b, c).status \in {"pendiente", "solicitud-recibida"}
  BY DEF PanelCreated, BlankRow, StatusOr, DraftStatus
<1>3. WizardCreated(p, source, b, c).status \in {"pendiente", "solicitud-recibida"}
  BY DEF WizardCreated, BlankRow
<1> QED
  BY <1>1, <1>2, <1>3 DEF LinkedRow

LEMMA BlankLinked == BlankRow \in LinkedRow
BY BlankRowType DEF BlankRow, LinkedRow

LEMMA IdleLinked == Idle \in LinkedTask
<1>1. Idle \in Task
  BY IdleType DEF GoodTask
<1> QED
  BY <1>1, BlankLinked DEF Idle, LinkedTask, NoPatch, DraftStatus

LEMMA SaveLinked ==
    ASSUME LinkInv, NEW r, NEW q \in LinkedRow, NEW F, Save(r, q, F)
    PROVE  row' \in [Requests -> LinkedRow]
BY DEF LinkInv, Save

LEMMA GotoLinked ==
    ASSUME LinkInv, NEW w \in Workers, NEW t \in LinkedTask, Goto(w, t)
    PROVE  task' \in [Workers -> LinkedTask]
BY DEF LinkInv, Goto

LEMMA FinishLinked ==
    ASSUME LinkInv, NEW w \in Workers, Finish(w)
    PROVE  task' \in [Workers -> LinkedTask]
BY IdleLinked, GotoLinked DEF Finish

\* A task moves on, keeping the row it has in memory.
LEMMA MovedLinked ==
    ASSUME NEW t \in LinkedTask, NEW pc \in Pc, NEW c \in ChargeOrNone,
           NEW r \in Requests \cup {NoRequest},
           pc \in {"approveSave", "dealSave", "importCommit"} => t.snap.account
    PROVE  /\ [t EXCEPT !.pc = pc] \in LinkedTask
           /\ [t EXCEPT !.pc = pc, !.charge = c] \in LinkedTask
           /\ [t EXCEPT !.charge = c, !.pc = pc] \in LinkedTask
           /\ [t EXCEPT !.pc = pc, !.rid = r] \in LinkedTask
BY DEF LinkedTask, Task

LEMMA LoadedLinked ==
    ASSUME LinkInv, NEW pc \in Pc, NEW r \in Requests, NEW p \in Patch, NEW a \in BOOLEAN,
           p.status \in DraftStatus,
           pc \in {"approveSave", "dealSave", "importCommit"} => row[r].account
    PROVE  /\ Loaded(pc, r) \in LinkedTask
           /\ [Loaded(pc, r) EXCEPT !.patch = p] \in LinkedTask
           /\ [Loaded(pc, r) EXCEPT !.admin = a] \in LinkedTask
           /\ [Loaded(pc, r) EXCEPT !.patch = p, !.admin = a] \in LinkedTask
<1>1. Idle \in Task /\ row[r] \in LinkedRow /\ row[r] \in Row
  BY IdleType DEF LinkInv, GoodTask, LinkedRow
<1> QED
  BY <1>1 DEF Loaded, Task, LinkedTask, Idle, NoPatch, DraftStatus

LEMMA ChargedLinked ==
    ASSUME LinkInv, NEW w \in Workers, NEW op, NEW pc \in Pc, Charge(w, op, pc),
           pc \notin {"approveSave", "dealSave", "importCommit"}
    PROVE  task' \in [Workers -> LinkedTask]
<1> PICK c \in Charges : Goto(w, [task[w] EXCEPT !.charge = c, !.pc = pc])
  BY DEF Charge
<1>1. task[w] \in LinkedTask /\ c \in ChargeOrNone
        /\ NoRequest \in Requests \cup {NoRequest}
  BY DEF LinkInv, ChargeOrNone
<1> QED
  BY <1>1, MovedLinked, GotoLinked

\* A saved row and a task that goes on keep the invariant.
LEMMA LinkParts ==
    ASSUME row' \in [Requests -> LinkedRow], task' \in [Workers -> LinkedTask]
    PROVE  LinkInv'
BY DEF LinkInv

LEMMA PanelKeepsLinked ==
    ASSUME PatchesAreDrafts, TypeInv, LinkInv, NEW w \in Workers,
           \/ CreateBegin(w) \/ CreateStep(w) \/ UpdateBegin(w) \/ UpdateStep(w)
    PROVE  LinkInv'
<1>0. /\ \A p \in Patches : p \in Patch /\ p.status \in DraftStatus
      /\ task[w] \in LinkedTask /\ task[w].patch.status \in DraftStatus
      /\ task[w].snap \in LinkedRow /\ row \in [Requests -> LinkedRow]
      /\ born \subseteq Requests /\ NoCharge \in ChargeOrNone
  BY PatchesAssumption
     DEF PatchesAreDrafts, DraftStatus, LinkInv, LinkedTask, TypeInv, TableOK, ChargeOrNone
<1>1. CASE CreateBegin(w)
  <2>1. PICK p \in Patches, partner \in BOOLEAN :
          Goto(w, [Idle EXCEPT
                     !.pc = IF p.token /\ p.amount THEN "createCharge" ELSE "createCommit",
                     !.patch = p, !.snap = PanelCreated(p, partner, NoCharge)])
    BY <1>1 DEF CreateBegin
  <2> DEFINE pc == IF p.token /\ p.amount THEN "createCharge" ELSE "createCommit"
             q == PanelCreated(p, partner, NoCharge)
  <2>2. /\ pc \in Pc \ {"approveSave", "dealSave", "importCommit"}
        /\ q \in LinkedRow /\ q \in Row
    BY <1>0, CreatedLinked DEF Pc, Origin, LinkedRow
  <2>3. Idle \in LinkedTask
    BY IdleLinked
  <2> HIDE DEF q, pc
  <2>4. [Idle EXCEPT !.pc = pc, !.patch = p, !.snap = q] \in LinkedTask
    BY <1>0, <2>2, <2>3 DEF LinkedTask, Task
  <2> QED
    BY <1>0, <1>1, <2>1, <2>4, GotoLinked, LinkParts DEF CreateBegin, table, pc, q
<1>2. CASE CreateCharged(w)
  BY <1>0, <1>2, ChargedLinked, LinkParts DEF CreateCharged, table, Pc
<1>3. CASE CreateDeclined(w)
  BY <1>0, <1>3, FinishLinked, LinkParts DEF CreateDeclined, ChargeUnanswered, table
<1>4. CASE CreateCommit(w)
  <2> DEFINE t == task[w]
             q == PanelCreated(t.patch, t.snap.partner, t.charge)
  <2>1. PICK r \in Requests \ born :
          /\ Save(r, q, {r})
          /\ Goto(w, IF q.status = "solicitud-recibida"
                     THEN [t EXCEPT !.pc = "createNotify", !.rid = r, !.snap = q,
                                    !.charge = NoCharge]
                     ELSE Idle)
    BY <1>4 DEF CreateCommit
  <2>2. q \in LinkedRow
    BY <1>0, TaskFields, CreatedLinked DEF Row, Origin
  <2> HIDE DEF q
  <2>3. [t EXCEPT !.pc = "createNotify", !.rid = r, !.snap = q, !.charge = NoCharge] \in LinkedTask
    BY <1>0, <2>2 DEF LinkedTask, LinkedRow, Task, Pc
  <2> QED
    BY <2>1, <2>2, <2>3, SaveLinked, IdleLinked, GotoLinked, LinkParts
<1>5. CASE CreateFails(w)
  BY <1>0, <1>5, FinishLinked, LinkParts DEF CreateFails, table
<1>6. CASE CreateNotify(w)
  BY <1>0, <1>6, FinishLinked, LinkParts DEF CreateNotify, table
<1>7. CASE UpdateBegin(w)
  <2>1. PICK r \in born, p \in Patches, staff \in BOOLEAN :
          \/ Finish(w)
          \/ Goto(w, [Loaded(IF PanelCharges(row[r], p) THEN "updateCharge"
                             ELSE "updateCommit", r) EXCEPT !.patch = p, !.admin = staff])
    BY <1>7 DEF UpdateBegin
  <2> DEFINE pc == IF PanelCharges(row[r], p) THEN "updateCharge" ELSE "updateCommit"
  <2>2. pc \in Pc \ {"approveSave", "dealSave", "importCommit"}
    BY DEF Pc
  <2> HIDE DEF pc
  <2>3. [Loaded(pc, r) EXCEPT !.patch = p, !.admin = staff] \in LinkedTask
    BY <1>0, <2>2, LoadedLinked
  <2> QED
    BY <1>0, <1>7, <2>1, <2>3, GotoLinked, FinishLinked, LinkParts
       DEF UpdateBegin, table, pc
<1>8. CASE UpdateCharged(w)
  BY <1>0, <1>8, ChargedLinked, LinkParts DEF UpdateCharged, table, Pc
<1>9. CASE UpdateDeclined(w)
  BY <1>0, <1>9, FinishLinked, LinkParts DEF UpdateDeclined, ChargeUnanswered, table
<1>10. CASE UpdateCommit(w)
  <2> DEFINE t == task[w]
             q == PanelWritten(row[t.rid], t.snap, t.patch, t.charge)
  <2>1. /\ Save(t.rid, q, {t.rid})
        /\ Goto(w, IF q.status = "solicitud-recibida"
                      /\ t.snap.status # "solicitud-recibida"
                   THEN [t EXCEPT !.pc = "updateNotify", !.charge = NoCharge]
                   ELSE Idle)
    BY <1>10 DEF UpdateCommit
  <2>2. t.rid \in Requests
    BY <1>10, TaskFields DEF UpdateCommit, At, RowPc
  <2>3. q \in LinkedRow
    BY <1>0, <2>2, TaskFields, PanelWrittenLinked DEF LinkedRow
  <2> HIDE DEF q
  <2>4. [t EXCEPT !.pc = "updateNotify", !.charge = NoCharge] \in LinkedTask
    BY <1>0, TaskFields, MovedLinked DEF Pc
  <2> QED
    BY <2>1, <2>3, <2>4, SaveLinked, IdleLinked, GotoLinked, LinkParts
<1>11. CASE UpdateFails(w)
  BY <1>0, <1>11, FinishLinked, LinkParts DEF UpdateFails, table
<1>12. CASE UpdateNotify(w)
  BY <1>0, <1>12, FinishLinked, LinkParts DEF UpdateNotify, table
<1> QED
  BY <1>1, <1>2, <1>3, <1>4, <1>5, <1>6, <1>7, <1>8, <1>9, <1>10, <1>11, <1>12
     DEF CreateStep, UpdateStep

LEMMA WizardKeepsLinked ==
    ASSUME PatchesAreDrafts, TypeInv, LinkInv, NEW w \in Workers,
           \/ WizCreateBegin(w) \/ WizCreateStep(w) \/ WizUpdateBegin(w) \/ WizUpdateStep(w)
    PROVE  LinkInv'
<1>0. /\ \A p \in Patches : p \in Patch /\ p.status \in DraftStatus
      /\ task[w] \in LinkedTask /\ task[w].patch.status \in DraftStatus
      /\ task[w].snap \in LinkedRow /\ row \in [Requests -> LinkedRow]
      /\ born \subseteq Requests /\ NoCharge \in ChargeOrNone
  BY PatchesAssumption
     DEF PatchesAreDrafts, DraftStatus, LinkInv, LinkedTask, TypeInv, TableOK, ChargeOrNone
<1>1. CASE WizCreateBegin(w)
  <2>1. PICK p \in Patches, source \in {"wizard", "crm-lead", "panel"}, free \in BOOLEAN :
          \/ Finish(w)
          \/ Goto(w, [Idle EXCEPT
                        !.pc = IF WizardHasPayment(p, free) /\ p.method = "stripe"
                               THEN "wizCreateCharge" ELSE "wizCreateCommit",
                        !.patch = p, !.free = free,
                        !.snap = WizardCreated(p, source, free, NoCharge)])
    BY <1>1 DEF WizCreateBegin
  <2> DEFINE pc == IF WizardHasPayment(p, free) /\ p.method = "stripe"
                   THEN "wizCreateCharge" ELSE "wizCreateCommit"
             q == WizardCreated(p, source, free, NoCharge)
  <2>2. /\ pc \in Pc \ {"approveSave", "dealSave", "importCommit"}
        /\ q \in LinkedRow /\ q \in Row
    BY <1>0, CreatedLinked DEF Pc, Origin, LinkedRow
  <2>3. Idle \in LinkedTask
    BY IdleLinked
  <2> HIDE DEF q, pc
  <2>4. [Idle EXCEPT !.pc = pc, !.patch = p, !.free = free, !.snap = q] \in LinkedTask
    BY <1>0, <2>2, <2>3 DEF LinkedTask, Task
  <2> QED
    BY <1>0, <1>1, <2>1, <2>4, GotoLinked, FinishLinked, LinkParts
       DEF WizCreateBegin, table, pc, q
<1>2. CASE WizCreateCharged(w)
  BY <1>0, <1>2, ChargedLinked, LinkParts DEF WizCreateCharged, table, Pc
<1>3. CASE WizCreateDeclined(w)
  BY <1>0, <1>3, FinishLinked, LinkParts DEF WizCreateDeclined, ChargeUnanswered, table
<1>4. CASE WizCreateCommit(w)
  <2> DEFINE t == task[w]
             q == WizardCreated(t.patch, t.snap.createdFrom, t.free, t.charge)
  <2>1. PICK r \in Requests \ born : \E F \in SUBSET {r} : Save(r, q, F)
    BY <1>4 DEF WizCreateCommit
  <2>2. q \in LinkedRow
    BY <1>0, TaskFields, CreatedLinked DEF Row
  <2> HIDE DEF q
  <2> QED
    BY <1>4, <2>1, <2>2, SaveLinked, FinishLinked, LinkParts DEF WizCreateCommit
<1>5. CASE WizCreateFails(w)
  <2>1. [task[w] EXCEPT !.pc = "wizCreateRefund"] \in LinkedTask
    BY <1>0, TaskFields, MovedLinked DEF Pc
  <2> QED
    BY <1>0, <1>5, <2>1, GotoLinked, FinishLinked, LinkParts DEF WizCreateFails, table
<1>6. CASE WizCreateRefund(w)
  BY <1>0, <1>6, FinishLinked, LinkParts DEF WizCreateRefund, table
<1>7. CASE WizUpdateBegin(w)
  <2>1. PICK r \in born, p \in Patches :
          \/ Finish(w)
          \/ Goto(w, [Loaded(IF WizardCharges(row[r], p) THEN "wizUpdateCharge"
                             ELSE "wizUpdateCommit", r) EXCEPT !.patch = p])
    BY <1>7 DEF WizUpdateBegin
  <2> DEFINE pc == IF WizardCharges(row[r], p) THEN "wizUpdateCharge" ELSE "wizUpdateCommit"
  <2>2. pc \in Pc \ {"approveSave", "dealSave", "importCommit"}
    BY DEF Pc
  <2> HIDE DEF pc
  <2>3. [Loaded(pc, r) EXCEPT !.patch = p] \in LinkedTask
    BY <1>0, <2>2, LoadedLinked
  <2> QED
    BY <1>0, <1>7, <2>1, <2>3, GotoLinked, FinishLinked, LinkParts
       DEF WizUpdateBegin, table, pc
<1>8. CASE WizUpdateCharged(w)
  BY <1>0, <1>8, ChargedLinked, LinkParts DEF WizUpdateCharged, table, Pc
<1>9. CASE WizUpdateDeclined(w)
  BY <1>0, <1>9, FinishLinked, LinkParts DEF WizUpdateDeclined, ChargeUnanswered, table
<1>10. CASE WizUpdateCommit(w)
  <2> DEFINE t == task[w]
             q == WizardPatched(t.snap, t.patch, t.charge)
  <2>1. /\ Save(t.rid, q, {t.rid})
        /\ Goto(w, IF t.snap.status # "solicitud-recibida"
                   THEN [t EXCEPT !.pc = "wizUpdateNotify", !.charge = NoCharge]
                   ELSE Idle)
    BY <1>10 DEF WizUpdateCommit
  <2>2. q \in LinkedRow
    BY <1>0, TaskFields, WizardPatchedLinked
  <2> HIDE DEF q
  <2>3. [t EXCEPT !.pc = "wizUpdateNotify", !.charge = NoCharge] \in LinkedTask
    BY <1>0, TaskFields, MovedLinked DEF Pc
  <2> QED
    BY <2>1, <2>2, <2>3, SaveLinked, IdleLinked, GotoLinked, LinkParts
<1>11. CASE WizUpdateFails(w)
  BY <1>0, <1>11, FinishLinked, LinkParts DEF WizUpdateFails, table
<1>12. CASE WizUpdateNotify(w)
  BY <1>0, <1>12, FinishLinked, LinkParts DEF WizUpdateNotify, table
<1> QED
  BY <1>1, <1>2, <1>3, <1>4, <1>5, <1>6, <1>7, <1>8, <1>9, <1>10, <1>11, <1>12
     DEF WizCreateStep, WizUpdateStep

LEMMA AdminKeepsLinked ==
    ASSUME TypeInv, LinkInv, NEW w \in Workers,
           \/ ManualBegin(w) \/ ApproveBegin(w) \/ RejectBegin(w) \/ DeleteBegin(w)
           \/ AdminStep(w)
    PROVE  LinkInv'
<1> DEFINE r == task[w].rid
           q == task[w].snap
<1>0. /\ task[w] \in LinkedTask /\ q \in LinkedRow /\ q \in Row
      /\ row \in [Requests -> LinkedRow] /\ born \subseteq Requests
      /\ NoPatch \in Patch /\ NoPatch.status \in DraftStatus
  BY NoPatchType DEF NoPatch, DraftStatus, LinkInv, LinkedTask, LinkedRow, TypeInv, TableOK
<1>1. CASE ManualBegin(w)
  <2>1. PICK k \in Requests :
          Finish(w) \/ Goto(w, Loaded("manualSave", k))
    BY <1>0, <1>1 DEF ManualBegin
  <2> QED
    BY <1>0, <1>1, <2>1, LoadedLinked, GotoLinked, FinishLinked, LinkParts
       DEF ManualBegin, table, Pc
<1>2. CASE ApproveBegin(w)
  <2>1. PICK k \in Requests :
          Finish(w) \/ Goto(w, Loaded("approveSync", k))
    BY <1>0, <1>2 DEF ApproveBegin
  <2> QED
    BY <1>0, <1>2, <2>1, LoadedLinked, GotoLinked, FinishLinked, LinkParts
       DEF ApproveBegin, table, Pc
<1>3. CASE RejectBegin(w)
  <2>1. PICK k \in Requests :
          Finish(w) \/ Goto(w, Loaded("rejectSave", k))
    BY <1>0, <1>3 DEF RejectBegin
  <2> QED
    BY <1>0, <1>3, <2>1, LoadedLinked, GotoLinked, FinishLinked, LinkParts
       DEF RejectBegin, table, Pc
<1>4. CASE DeleteBegin(w)
  <2>1. PICK k \in Requests, admin \in BOOLEAN :
          \/ Finish(w)
          \/ Goto(w, [Loaded("deleteCommit", k) EXCEPT !.admin = admin])
    BY <1>0, <1>4 DEF DeleteBegin
  <2> QED
    BY <1>0, <1>4, <2>1, LoadedLinked, GotoLinked, FinishLinked, LinkParts
       DEF DeleteBegin, table, Pc
<1>5. CASE ManualSave(w)
  <2>1. PICK proof \in BOOLEAN : Save(r, ManuallyPaid(q, proof), {})
    BY <1>5 DEF ManualSave
  <2>2. ManuallyPaid(q, proof) \in Row
    BY <1>0, ManuallyPaidType
  <2>3. ManuallyPaid(q, proof).status = "solicitud-recibida"
    BY <1>0 DEF ManuallyPaid, Row
  <2>4. ManuallyPaid(q, proof) \in LinkedRow
    BY <2>2, <2>3 DEF LinkedRow
  <2> QED
    BY <1>5, <2>1, <2>4, SaveLinked, FinishLinked, LinkParts DEF ManualSave
<1>6. CASE ApproveSync(w)
  <2>1. r \in Requests
    BY <1>6, TaskFields DEF ApproveSync, At, RowPc
  <2>2. row' \in [Requests -> LinkedRow]
    BY <1>0, <1>6, <2>1 DEF ApproveSync, LinkedRow, Row
  <2>3. [task[w] EXCEPT !.pc = "approveReload"] \in LinkedTask
    BY <1>0 DEF LinkedTask, Task, Pc
  <2> QED
    BY <1>6, <2>2, <2>3, GotoLinked, FinishLinked, LinkParts DEF ApproveSync
<1>7. CASE ApproveSyncFails(w)
  BY <1>0, <1>7, FinishLinked, LinkParts DEF ApproveSyncFails, table
<1>8. CASE ApproveReload(w)
  <2>1. r \in Requests
    BY <1>8, TaskFields DEF ApproveReload, At, RowPc
  <2> QED
    BY <1>0, <1>8, <2>1, LoadedLinked, GotoLinked, FinishLinked, LinkParts
       DEF ApproveReload, table, Pc
<1>9. CASE ApproveSave(w)
  <2>1. q.account
    BY <1>0, <1>9 DEF ApproveSave, At, LinkedTask
  <2>2. Approved(q) \in LinkedRow
    BY <1>0, <2>1, DecidedType DEF Approved, LinkedRow, Row
  <2> QED
    BY <1>9, <2>2, SaveLinked, FinishLinked, LinkParts DEF ApproveSave
<1>10. CASE ApproveFails(w)
  BY <1>0, <1>10, FinishLinked, LinkParts DEF ApproveFails, table
<1>11. CASE RejectSave(w)
  <2>1. Rejected(q) \in LinkedRow
    BY <1>0, DecidedType DEF Rejected, LinkedRow, Row
  <2> QED
    BY <1>11, <2>1, SaveLinked, FinishLinked, LinkParts DEF RejectSave
<1>12. CASE DeleteCommit(w)
  <2>1. row' \in [Requests -> LinkedRow]
    BY <1>0, <1>12, BlankLinked DEF DeleteCommit, Remove, table
  <2>2. Finish(w)
    BY <1>12 DEF DeleteCommit
  <2> QED
    BY <2>1, <2>2, FinishLinked, LinkParts
<1> QED
  BY <1>1, <1>2, <1>3, <1>4, <1>5, <1>6, <1>7, <1>8, <1>9, <1>10, <1>11, <1>12
     DEF AdminStep

LEMMA CrmKeepsLinked ==
    ASSUME TypeInv, LinkInv, NEW w \in Workers,
           DealBegin(w) \/ ImportBegin(w) \/ CrmStep(w)
    PROVE  LinkInv'
<1> DEFINE q == task[w].snap
<1>0. /\ task[w] \in LinkedTask /\ q \in LinkedRow /\ q \in Row
      /\ row \in [Requests -> LinkedRow] /\ live \subseteq Requests
      /\ NoPatch \in Patch /\ NoPatch.status \in DraftStatus
      /\ Idle \in LinkedTask
  BY NoPatchType, IdleLinked
     DEF NoPatch, DraftStatus, LinkInv, LinkedTask, LinkedRow, TypeInv, TableOK
<1>1. CASE DealBegin(w)
  <2>1. PICK k \in Requests : row[k].account /\ Goto(w, Loaded("dealSave", k))
    BY <1>0, <1>1 DEF DealBegin
  <2> QED
    BY <1>0, <1>1, <2>1, LoadedLinked, GotoLinked, LinkParts DEF DealBegin, table, Pc
<1>2. CASE ImportBegin(w)
  <2>1. ASSUME NEW k \in live, NEW partner \in BOOLEAN
        PROVE  [Loaded("importCommit", k) EXCEPT !.snap.account = TRUE,
                                                 !.snap.partner = @ \/ partner] \in LinkedTask
    <3>1. row[k] \in LinkedRow /\ row[k] \in Row /\ k \in Requests
      BY <1>0 DEF LinkedRow
    <3>2. [row[k] EXCEPT !.account = TRUE, !.partner = @ \/ partner] \in LinkedRow
      BY <3>1 DEF LinkedRow, Row
    <3> QED
      BY <1>0, <3>1, <3>2 DEF Loaded, LinkedTask, LinkedRow, Row, Task, Pc
  <2>2. ASSUME NEW partner \in BOOLEAN
        PROVE  [Idle EXCEPT !.pc = "importCommit",
                                    !.snap = Imported(partner)] \in LinkedTask
    <3>1. Imported(partner) \in Row
      BY ImportedType
    <3>2. Imported(partner).account
      BY BlankRowType DEF Imported, Row
    <3> QED
      BY <1>0, <3>1, <3>2 DEF LinkedTask, LinkedRow, Task, Pc
  <2> QED
    BY <1>0, <1>2, <2>1, <2>2, GotoLinked, LinkParts DEF ImportBegin, table
<1>3. CASE DealSave(w)
  <2>1. q.account
    BY <1>0, <1>3 DEF DealSave, At, LinkedTask
  <2>2. row' \in [Requests -> LinkedRow]
    <3>1. CASE UNCHANGED table
      BY <1>0, <3>1 DEF table
    <3>2. CASE \E s \in DealStatus \cup {q.status} :
                  Save(task[w].rid, [q EXCEPT !.status = s], {})
      <4>1. PICK s \in Status : Save(task[w].rid, [q EXCEPT !.status = s], {})
        BY <1>0, <3>2 DEF DealStatus, Status, Row
      <4>2. [q EXCEPT !.status = s] \in LinkedRow
        BY <1>0, <2>1 DEF LinkedRow, Row
      <4> QED
        BY <4>1, <4>2, SaveLinked
    <3> QED
      BY <1>3, <3>1, <3>2 DEF DealSave
  <2> QED
    BY <1>3, <2>2, FinishLinked, LinkParts DEF DealSave
<1>4. CASE ImportCommit(w)
  <2>1. PICK k \in Requests : Save(k, q, {k})
                              /\ Goto(w, [task[w] EXCEPT !.pc = "dealSave", !.rid = k])
    BY <1>4, TaskFields DEF ImportCommit
  <2>2. q.account
    BY <1>0, <1>4 DEF ImportCommit, At, LinkedTask
  <2>3. [task[w] EXCEPT !.pc = "dealSave", !.rid = k] \in LinkedTask
    BY <1>0, <2>2, TaskFields, MovedLinked DEF Pc
  <2> QED
    BY <1>0, <2>1, <2>3, SaveLinked, GotoLinked, LinkParts
<1>5. CASE ImportFails(w)
  BY <1>0, <1>5, FinishLinked, LinkParts DEF ImportFails, table
<1> QED
  BY <1>1, <1>2, <1>3, <1>4, <1>5 DEF CrmStep

LEMMA EnvironmentKeepsLinked ==
    ASSUME TypeInv, LinkInv, Environment \/ CleanupScan \/ CleanupForms \/ CleanupDelete
    PROVE  LinkInv'
<1>1. ASSUME NEW r \in Requests, Age(r) \/ ClearBell(r) PROVE LinkInv'
  BY <1>1 DEF Age, ClearBell, LinkInv, table
<1>2. CASE Crash
  BY <1>2, IdleLinked DEF Crash, LinkInv, table
<1>3. CASE CleanupScan \/ CleanupForms
  BY <1>3 DEF CleanupScan, CleanupForms, LinkInv, table
<1>4. CASE CleanupDelete
  BY <1>4, BlankLinked DEF CleanupDelete, Remove, LinkInv, table
<1> QED
  BY <1>1, <1>2, <1>3, <1>4 DEF Environment

LEMMA InitLinked == Init => LinkInv
BY BlankLinked, IdleLinked DEF Init, LinkInv

LEMMA NextLinked ==
    ASSUME PatchesAreDrafts, TypeInv, LinkInv, [Next]_vars
    PROVE  LinkInv'
<1>1. CASE UNCHANGED vars
  BY <1>1 DEF vars, LinkInv
<1>2. ASSUME NEW w \in Workers, Begin(w) PROVE LinkInv'
  BY <1>2, PanelKeepsLinked, WizardKeepsLinked, AdminKeepsLinked, CrmKeepsLinked DEF Begin
<1>3. ASSUME NEW w \in Workers, Continue(w) PROVE LinkInv'
  BY <1>3, PanelKeepsLinked, WizardKeepsLinked, AdminKeepsLinked, CrmKeepsLinked DEF Continue
<1> QED
  BY <1>1, <1>2, <1>3, EnvironmentKeepsLinked DEF Next

\* If clients only send draft statuses, a request in process or completed has
\* its CRM account in every reachable state, for any number of concurrent
\* approvals, edits, imports, deletions and crashes.
THEOREM ProcessedIsLinkedAlways ==
    ASSUME PatchesAreDrafts
    PROVE  Spec => []ProcessedIsLinked
<1>1. Init => LinkInv
  BY InitLinked
<1>2. TypeInv /\ LinkInv /\ [Next]_vars => LinkInv'
  BY NextLinked
<1>3. LinkInv => ProcessedIsLinked
  BY DEF LinkInv, LinkedRow, ProcessedIsLinked
<1> QED
  BY <1>1, <1>2, <1>3, SpecTypeInv, PTL DEF Spec

-----------------------------------------------------------------------------
(***************************************************************************)
(* What becomes of the money: a charge the wizard made at creation is never *)
(* forgotten, for every number of handlers, requests and charges.           *)
(*                                                                          *)
(* The argument follows who holds a charge.  A charge that is open is held  *)
(* by exactly one handler, which is between its call to Stripe and its      *)
(* COMMIT; and of the steps that end a handler there, only those that do    *)
(* not belong to the wizard's creation forget it.                           *)
(***************************************************************************)

HoldingPc == {"createCommit", "updateCommit", "wizCreateCommit",
              "wizCreateRefund", "wizUpdateCommit"}

\* Who may hold a charge, and of which kind.
HoldersOK ==
    \A w \in Workers :
        task[w].charge # NoCharge =>
            /\ ledger[task[w].charge] = "open"
            /\ task[w].pc \in HoldingPc
            /\ payer[task[w].charge] = "wizCreate"
               => task[w].pc \in {"wizCreateCommit", "wizCreateRefund"}

OneHolder ==
    \A v, w \in Workers :
        task[v].charge # NoCharge /\ task[v].charge = task[w].charge => v = w

OpenIsHeld ==
    \A c \in Charges : ledger[c] = "open" => \E w \in Workers : task[w].charge = c

WizardNeverLoses ==
    \A c \in Charges : payer[c] = "wizCreate" => ledger[c] \notin {"none", "lost"}

MoneyInv == HoldersOK /\ OneHolder /\ OpenIsHeld /\ WizardNeverLoses

-----------------------------------------------------------------------------
(* The kinds of steps *)

LEMMA EmptyHanded ==
    ASSUME MoneyInv, NEW w \in Workers, task[w].pc \notin HoldingPc
    PROVE  task[w].charge = NoCharge
BY DEF MoneyInv, HoldersOK

\* A handler without a charge goes on without one.
LEMMA QuietStep ==
    ASSUME TypeInv, MoneyInv, NEW w \in Workers, task[w].charge = NoCharge,
           NEW t, t.charge = NoCharge, Goto(w, t), UNCHANGED money
    PROVE  MoneyInv'
<1>1. /\ task \in [Workers -> GoodTask]
      /\ task' = [task EXCEPT ![w] = t] /\ ledger' = ledger /\ payer' = payer
  BY DEF TypeInv, TasksOK, Goto, money
<1>2. \A v \in Workers : task'[v].charge = task[v].charge
                         /\ (task[v].charge # NoCharge => task'[v] = task[v])
  BY <1>1
<1>3. HoldersOK'
  BY <1>1, <1>2 DEF MoneyInv, HoldersOK
<1>4. OneHolder'
  BY <1>2 DEF MoneyInv, OneHolder
<1>5. OpenIsHeld'
  BY <1>1, <1>2 DEF MoneyInv, OpenIsHeld
<1> QED
  BY <1>1, <1>3, <1>4, <1>5 DEF MoneyInv, WizardNeverLoses

\* A handler settles what it holds and goes on empty-handed.
LEMMA SettlingStep ==
    ASSUME TypeInv, MoneyInv, NEW w \in Workers, NEW fate,
           fate \notin {"none", "open"},
           fate = "lost" => task[w].pc \notin {"wizCreateCommit", "wizCreateRefund"},
           NEW t, t.charge = NoCharge, Goto(w, t), Settle(w, fate), UNCHANGED payer
    PROVE  MoneyInv'
<1>1. /\ task \in [Workers -> GoodTask]
      /\ task' = [task EXCEPT ![w] = t] /\ payer' = payer
      /\ \A c \in Charges : ledger'[c] = IF c = task[w].charge THEN fate ELSE ledger[c]
  BY DEF TypeInv, TasksOK, Goto, Settle
<1>2. \A v \in Workers : v # w => task'[v] = task[v]
  BY <1>1
<1>3. task'[w].charge = NoCharge
  BY <1>1
<1>4. \A v \in Workers : task[v].charge \in Charges \cup {NoCharge}
  BY TaskFields DEF ChargeOrNone
<1>5. HoldersOK'
  BY <1>1, <1>2, <1>3, <1>4 DEF MoneyInv, HoldersOK, OneHolder
<1>6. OneHolder'
  BY <1>2, <1>3 DEF MoneyInv, OneHolder
<1>7. OpenIsHeld'
  BY <1>1, <1>2, <1>3 DEF MoneyInv, OpenIsHeld
<1>8. WizardNeverLoses'
  BY <1>1, NoChargeAssumption DEF MoneyInv, WizardNeverLoses, HoldersOK
<1> QED
  BY <1>5, <1>6, <1>7, <1>8 DEF MoneyInv

\* Stripe accepts the card for a handler that holds nothing yet.
LEMMA ChargingStep ==
    ASSUME TypeInv, MoneyInv, NEW w \in Workers, NEW op, NEW pc \in HoldingPc,
           op = "wizCreate" => pc = "wizCreateCommit",
           task[w].pc \notin HoldingPc, Charge(w, op, pc)
    PROVE  MoneyInv'
<1>1. PICK c \in Charges :
        /\ ledger[c] = "none"
        /\ ledger' = [ledger EXCEPT ![c] = "open"]
        /\ payer' = [payer EXCEPT ![c] = op]
        /\ task' = [task EXCEPT ![w] = [task[w] EXCEPT !.charge = c, !.pc = pc]]
  BY DEF Charge, Goto
<1>2. /\ task \in [Workers -> GoodTask] /\ ledger \in [Charges -> ChargeFate]
      /\ payer \in [Charges -> AllOps \cup {"none"}] /\ task[w] \in Task
  BY TaskFields DEF TypeInv, TasksOK, MoneyOK
<1>3. task'[w].charge = c /\ task'[w].pc = pc /\ c # NoCharge
  BY <1>1, <1>2, NoChargeAssumption DEF Task
<1>4. \A v \in Workers : v # w => task'[v] = task[v] /\ task[v].charge # c
  BY <1>1, <1>2, <1>3 DEF MoneyInv, HoldersOK
<1>5. task[w].charge = NoCharge
  BY EmptyHanded
<1>6. \A v \in Workers : task[v].charge \in Charges \cup {NoCharge}
  BY TaskFields DEF ChargeOrNone
<1>7. HoldersOK'
  BY <1>1, <1>2, <1>3, <1>4, <1>6 DEF MoneyInv, HoldersOK
<1>8. OneHolder'
  BY <1>3, <1>4 DEF MoneyInv, OneHolder
<1>9. OpenIsHeld'
  <2> SUFFICES ASSUME NEW d \in Charges, ledger'[d] = "open"
               PROVE  \E v \in Workers : task'[v].charge = d
    BY DEF OpenIsHeld
  <2>1. CASE d = c
    BY <1>3, <2>1
  <2>2. CASE d # c
    <3>1. PICK v \in Workers : task[v].charge = d
      BY <1>1, <1>2, <2>2 DEF MoneyInv, OpenIsHeld
    <3>2. v # w
      BY <1>5, <3>1, NoChargeAssumption
    <3> QED
      BY <1>4, <3>1, <3>2
  <2> QED
    BY <2>1, <2>2
<1>10. WizardNeverLoses'
  BY <1>1, <1>2 DEF MoneyInv, WizardNeverLoses
<1> QED
  BY <1>7, <1>8, <1>9, <1>10 DEF MoneyInv

\* Stripe refuses, or charges and does not answer: the handler ends.
LEMMA DecliningStep ==
    ASSUME TypeInv, MoneyInv, NEW w \in Workers, NEW op,
           task[w].pc \notin HoldingPc,
           \/ Finish(w) /\ UNCHANGED money
           \/ ChargeUnanswered(w, op)
    PROVE  MoneyInv'
<1>1. task[w].charge = NoCharge /\ Idle.charge = NoCharge
  BY EmptyHanded DEF Idle
<1>2. CASE Finish(w) /\ UNCHANGED money
  BY <1>1, <1>2, QuietStep DEF Finish
<1>3. CASE ChargeUnanswered(w, op)
  <2>1. PICK c \in Charges :
          /\ ledger[c] = "none"
          /\ ledger' = [ledger EXCEPT ![c] = "unanswered"]
          /\ payer' = [payer EXCEPT ![c] = op]
          /\ task' = [task EXCEPT ![w] = Idle]
    BY <1>3 DEF ChargeUnanswered, Finish, Goto
  <2>2. /\ task \in [Workers -> GoodTask] /\ ledger \in [Charges -> ChargeFate]
        /\ payer \in [Charges -> AllOps \cup {"none"}]
    BY DEF TypeInv, TasksOK, MoneyOK
  <2>3. \A v \in Workers : /\ task'[v].charge = task[v].charge
                           /\ task[v].charge # NoCharge => task'[v] = task[v]
                           /\ task[v].charge # c
    BY <1>1, <2>1, <2>2, NoChargeAssumption DEF MoneyInv, HoldersOK
  <2>4. \A v \in Workers : task[v].charge \in Charges \cup {NoCharge}
    BY TaskFields DEF ChargeOrNone
  <2>5. HoldersOK'
    BY <2>1, <2>2, <2>3, <2>4 DEF MoneyInv, HoldersOK
  <2>6. OneHolder'
    BY <2>3 DEF MoneyInv, OneHolder
  <2>7. OpenIsHeld'
    BY <2>1, <2>2, <2>3 DEF MoneyInv, OpenIsHeld
  <2>8. WizardNeverLoses'
    BY <2>1, <2>2 DEF MoneyInv, WizardNeverLoses
  <2> QED
    BY <2>5, <2>6, <2>7, <2>8 DEF MoneyInv
<1> QED
  BY <1>2, <1>3

\* No handler does anything.
LEMMA StandingStep ==
    ASSUME MoneyInv, UNCHANGED <<money, task>>
    PROVE  MoneyInv'
BY DEF MoneyInv, HoldersOK, OneHolder, OpenIsHeld, WizardNeverLoses, money

-----------------------------------------------------------------------------
(* One handler at a time *)

\* Every handler starts empty-handed.
LEMMA BeginMoney ==
    ASSUME TypeInv, MoneyInv, NEW w \in Workers, Begin(w)
    PROVE  MoneyInv'
<1>1. task[w].charge = NoCharge
  BY EmptyHanded
     DEF Begin, CreateBegin, UpdateBegin, WizCreateBegin, WizUpdateBegin, ManualBegin,
         ApproveBegin, RejectBegin, DeleteBegin, DealBegin, ImportBegin, Starts, HoldingPc
<1>2. Idle.charge = NoCharge
  BY DEF Idle
<1>3. \A r, pc : Loaded(pc, r).charge = NoCharge
  BY DEF Loaded, Idle
<1>4. UNCHANGED money /\ \E t : Goto(w, t) /\ t.charge = NoCharge
  <2>1. CASE CreateBegin(w)
    <3>1. PICK p \in Patches, partner \in BOOLEAN :
            Goto(w, [Idle EXCEPT
                       !.pc = IF p.token /\ p.amount THEN "createCharge" ELSE "createCommit",
                       !.patch = p, !.snap = PanelCreated(p, partner, NoCharge)])
      BY <2>1 DEF CreateBegin
    <3> DEFINE pc == IF p.token /\ p.amount THEN "createCharge" ELSE "createCommit"
               q == PanelCreated(p, partner, NoCharge)
    <3> HIDE DEF pc, q
    <3>2. Goto(w, [Idle EXCEPT !.pc = pc, !.patch = p, !.snap = q])
      BY <3>1 DEF pc, q
    <3> DEFINE t == [Idle EXCEPT !.pc = pc, !.patch = p, !.snap = q]
    <3>3. t.charge = NoCharge
      BY DEF Idle, Loaded
    <3>4. Goto(w, t)
      BY <3>2
    <3> HIDE DEF t
    <3> QED
      BY <1>2, <2>1, <3>3, <3>4 DEF CreateBegin, Finish
  <2>2. CASE UpdateBegin(w)
    <3>1. PICK r \in born, p \in Patches, staff \in BOOLEAN :
            \/ Finish(w)
            \/ Goto(w, [Loaded(IF PanelCharges(row[r], p) THEN "updateCharge"
                               ELSE "updateCommit", r)
                        EXCEPT !.patch = p, !.admin = staff])
      BY <2>2 DEF UpdateBegin
    <3> DEFINE pc == IF PanelCharges(row[r], p) THEN "updateCharge" ELSE "updateCommit"
    <3> HIDE DEF pc
    <3>2. \/ Finish(w)
          \/ Goto(w, [Loaded(pc, r) EXCEPT !.patch = p, !.admin = staff])
      BY <3>1 DEF pc
    <3> DEFINE t == [Loaded(pc, r) EXCEPT !.patch = p, !.admin = staff]
    <3>3. t.charge = NoCharge
      BY DEF Idle, Loaded
    <3>4. Finish(w) \/ Goto(w, t)
      BY <3>2
    <3> HIDE DEF t
    <3> QED
      BY <1>2, <2>2, <3>3, <3>4 DEF UpdateBegin, Finish
  <2>3. CASE WizCreateBegin(w)
    <3>1. PICK p \in Patches, source \in {"wizard", "crm-lead", "panel"}, free \in BOOLEAN :
            \/ Finish(w)
            \/ Goto(w, [Idle EXCEPT
                        !.pc = IF WizardHasPayment(p, free) /\ p.method = "stripe"
                               THEN "wizCreateCharge" ELSE "wizCreateCommit",
                        !.patch = p, !.free = free,
                        !.snap = WizardCreated(p, source, free, NoCharge)])
      BY <2>3 DEF WizCreateBegin
    <3> DEFINE pc == IF WizardHasPayment(p, free) /\ p.method = "stripe"
                     THEN "wizCreateCharge" ELSE "wizCreateCommit"
               q == WizardCreated(p, source, free, NoCharge)
    <3> HIDE DEF pc, q
    <3>2. \/ Finish(w)
          \/ Goto(w, [Idle EXCEPT !.pc = pc, !.patch = p, !.free = free,
                                          !.snap = q])
      BY <3>1 DEF pc, q
    <3> DEFINE t == [Idle EXCEPT !.pc = pc, !.patch = p, !.free = free, !.snap = q]
    <3>3. t.charge = NoCharge
      BY DEF Idle, Loaded
    <3>4. Finish(w) \/ Goto(w, t)
      BY <3>2
    <3> HIDE DEF t
    <3> QED
      BY <1>2, <2>3, <3>3, <3>4 DEF WizCreateBegin, Finish
  <2>4. CASE WizUpdateBegin(w)
    <3>1. PICK r \in born, p \in Patches :
            \/ Finish(w)
            \/ Goto(w, [Loaded(IF WizardCharges(row[r], p) THEN "wizUpdateCharge"
                               ELSE "wizUpdateCommit", r) EXCEPT !.patch = p])
      BY <2>4 DEF WizUpdateBegin
    <3> DEFINE pc == IF WizardCharges(row[r], p) THEN "wizUpdateCharge"
                     ELSE "wizUpdateCommit"
    <3> HIDE DEF pc
    <3>2. \/ Finish(w)
          \/ Goto(w, [Loaded(pc, r) EXCEPT !.patch = p])
      BY <3>1 DEF pc
    <3> DEFINE t == [Loaded(pc, r) EXCEPT !.patch = p]
    <3>3. t.charge = NoCharge
      BY DEF Idle, Loaded
    <3>4. Finish(w) \/ Goto(w, t)
      BY <3>2
    <3> HIDE DEF t
    <3> QED
      BY <1>2, <2>4, <3>3, <3>4 DEF WizUpdateBegin, Finish
  <2>5. CASE ManualBegin(w)
    BY <1>2, <1>3, <2>5 DEF ManualBegin, Finish
  <2>6. CASE ApproveBegin(w)
    BY <1>2, <1>3, <2>6 DEF ApproveBegin, Finish
  <2>7. CASE RejectBegin(w)
    BY <1>2, <1>3, <2>7 DEF RejectBegin, Finish
  <2>8. CASE DeleteBegin(w)
    <3>1. PICK r \in born, admin \in BOOLEAN :
            \/ Finish(w)
            \/ Goto(w, [Loaded("deleteCommit", r) EXCEPT !.admin = admin])
      BY <2>8 DEF DeleteBegin
    <3> DEFINE t == [Loaded("deleteCommit", r) EXCEPT !.admin = admin]
    <3>2. t.charge = NoCharge
      BY DEF Idle, Loaded
    <3>3. Finish(w) \/ Goto(w, t)
      BY <3>1
    <3> HIDE DEF t
    <3> QED
      BY <1>2, <2>8, <3>2, <3>3 DEF DeleteBegin, Finish
  <2>9. CASE DealBegin(w)
    BY <1>3, <2>9 DEF DealBegin
  <2>10. CASE ImportBegin(w)
    <3>1. CASE \E r \in live, partner \in BOOLEAN :
                 Goto(w, [Loaded("importCommit", r) EXCEPT
                            !.snap.account = TRUE, !.snap.partner = @ \/ partner])
      <4> PICK r \in live, partner \in BOOLEAN :
               Goto(w, [Loaded("importCommit", r) EXCEPT
                          !.snap.account = TRUE, !.snap.partner = @ \/ partner])
        BY <3>1
      <4> DEFINE t == [Loaded("importCommit", r) EXCEPT
                         !.snap.account = TRUE, !.snap.partner = @ \/ partner]
      <4>1. t.charge = NoCharge
        BY DEF Idle, Loaded
      <4> HIDE DEF t
      <4> QED
        BY <2>10, <4>1 DEF ImportBegin, t
    <3>2. CASE \E partner \in BOOLEAN :
                 Goto(w, [Idle EXCEPT !.pc = "importCommit",
                                              !.snap = Imported(partner)])
      <4> PICK partner \in BOOLEAN :
               Goto(w, [Idle EXCEPT !.pc = "importCommit",
                                            !.snap = Imported(partner)])
        BY <3>2
      <4> DEFINE t == [Idle EXCEPT !.pc = "importCommit",
                                           !.snap = Imported(partner)]
      <4>1. t.charge = NoCharge
        BY DEF Idle
      <4> HIDE DEF t
      <4> QED
        BY <2>10, <4>1 DEF ImportBegin, t
    <3> QED
      BY <2>10, <3>1, <3>2 DEF ImportBegin
  <2> QED
    BY <2>1, <2>2, <2>3, <2>4, <2>5, <2>6, <2>7, <2>8, <2>9, <2>10 DEF Begin
<1> QED
  BY <1>1, <1>4, QuietStep

LEMMA CreateMoney ==
    ASSUME TypeInv, MoneyInv, NEW w \in Workers, CreateStep(w)
    PROVE  MoneyInv'
<1>0. Idle.charge = NoCharge
  BY DEF Idle
<1>1. CASE CreateCharged(w)
  BY <1>1, ChargingStep DEF CreateCharged, At, HoldingPc
<1>2. CASE CreateDeclined(w)
  BY <1>2, DecliningStep DEF CreateDeclined, At, HoldingPc
<1>3. CASE CreateCommit(w)
  <2> DEFINE q == PanelCreated(task[w].patch, task[w].snap.partner, task[w].charge)
  <2>1. PICK r \in Requests \ born :
          Goto(w, IF q.status = "solicitud-recibida"
                  THEN [task[w] EXCEPT !.pc = "createNotify", !.rid = r, !.snap = q,
                                       !.charge = NoCharge]
                  ELSE Idle)
    BY <1>3 DEF CreateCommit
  <2> HIDE DEF q
  <2> DEFINE told == [task[w] EXCEPT !.pc = "createNotify", !.rid = r, !.snap = q,
                                     !.charge = NoCharge]
  <2>2. told.charge = NoCharge
    BY TaskFields DEF Task
  <2>3. Goto(w, told) \/ Goto(w, Idle)
    BY <2>1
  <2> HIDE DEF told
  <2> QED
    BY <1>0, <1>3, <2>2, <2>3, SettlingStep DEF CreateCommit
<1>4. CASE CreateFails(w)
  BY <1>0, <1>4, SettlingStep DEF CreateFails, Finish, At
<1>5. CASE CreateNotify(w)
  BY <1>0, <1>5, EmptyHanded, QuietStep DEF CreateNotify, Finish, At, HoldingPc
<1> QED
  BY <1>1, <1>2, <1>3, <1>4, <1>5 DEF CreateStep

LEMMA UpdateMoney ==
    ASSUME TypeInv, MoneyInv, NEW w \in Workers, UpdateStep(w)
    PROVE  MoneyInv'
<1>0. Idle.charge = NoCharge
  BY DEF Idle
<1>1. CASE UpdateCharged(w)
  BY <1>1, ChargingStep DEF UpdateCharged, At, HoldingPc
<1>2. CASE UpdateDeclined(w)
  BY <1>2, DecliningStep DEF UpdateDeclined, At, HoldingPc
<1>3. CASE UpdateCommit(w)
  <2> DEFINE told == [task[w] EXCEPT !.pc = "updateNotify", !.charge = NoCharge]
  <2>1. told.charge = NoCharge
    BY TaskFields DEF Task
  <2>2. Goto(w, told) \/ Goto(w, Idle)
    BY <1>3 DEF UpdateCommit
  <2> HIDE DEF told
  <2> QED
    BY <1>0, <1>3, <2>1, <2>2, SettlingStep DEF UpdateCommit
<1>4. CASE UpdateFails(w)
  BY <1>0, <1>4, SettlingStep DEF UpdateFails, Finish, At
<1>5. CASE UpdateNotify(w)
  BY <1>0, <1>5, EmptyHanded, QuietStep DEF UpdateNotify, Finish, At, HoldingPc
<1> QED
  BY <1>1, <1>2, <1>3, <1>4, <1>5 DEF UpdateStep

\* The wizard's creation passes its charge on to the refund, still open.
LEMMA WizCreateMoney ==
    ASSUME TypeInv, MoneyInv, NEW w \in Workers, WizCreateStep(w)
    PROVE  MoneyInv'
<1>0. Idle.charge = NoCharge
  BY DEF Idle
<1>1. CASE WizCreateCharged(w)
  BY <1>1, ChargingStep DEF WizCreateCharged, At, HoldingPc
<1>2. CASE WizCreateDeclined(w)
  BY <1>2, DecliningStep DEF WizCreateDeclined, At, HoldingPc
<1>3. CASE WizCreateCommit(w)
  BY <1>0, <1>3, SettlingStep DEF WizCreateCommit, Finish
<1>4. CASE WizCreateFails(w)
  <2>1. CASE task[w].charge = NoCharge
    BY <1>0, <1>4, <2>1, QuietStep DEF WizCreateFails, Finish
  <2>2. CASE task[w].charge # NoCharge
    <3> DEFINE t == [task[w] EXCEPT !.pc = "wizCreateRefund"]
    <3>1. task' = [task EXCEPT ![w] = t] /\ ledger' = ledger /\ payer' = payer
      BY <1>4, <2>2 DEF WizCreateFails, Goto, money
    <3>2. t.charge = task[w].charge /\ t.pc = "wizCreateRefund"
      BY TaskFields DEF Task
    <3> HIDE DEF t
    <3>3. task \in [Workers -> GoodTask]
      BY DEF TypeInv, TasksOK
    <3>4. \A v \in Workers : /\ task'[v].charge = task[v].charge
                             /\ v # w => task'[v] = task[v]
      BY <3>1, <3>2, <3>3
    <3>5. task'[w].pc = "wizCreateRefund"
      BY <3>1, <3>2, <3>3
    <3>6. HoldersOK'
      BY <3>1, <3>4, <3>5 DEF MoneyInv, HoldersOK, HoldingPc
    <3>7. OneHolder'
      BY <3>4 DEF MoneyInv, OneHolder
    <3>8. OpenIsHeld'
      BY <3>1, <3>4 DEF MoneyInv, OpenIsHeld
    <3> QED
      BY <3>1, <3>6, <3>7, <3>8 DEF MoneyInv, WizardNeverLoses
  <2> QED
    BY <2>1, <2>2
<1>5. CASE WizCreateRefund(w)
  BY <1>0, <1>5, SettlingStep DEF WizCreateRefund, Finish
<1> QED
  BY <1>1, <1>2, <1>3, <1>4, <1>5 DEF WizCreateStep

LEMMA WizUpdateMoney ==
    ASSUME TypeInv, MoneyInv, NEW w \in Workers, WizUpdateStep(w)
    PROVE  MoneyInv'
<1>0. Idle.charge = NoCharge
  BY DEF Idle
<1>1. CASE WizUpdateCharged(w)
  BY <1>1, ChargingStep DEF WizUpdateCharged, At, HoldingPc
<1>2. CASE WizUpdateDeclined(w)
  BY <1>2, DecliningStep DEF WizUpdateDeclined, At, HoldingPc
<1>3. CASE WizUpdateCommit(w)
  <2> DEFINE told == [task[w] EXCEPT !.pc = "wizUpdateNotify", !.charge = NoCharge]
  <2>1. told.charge = NoCharge
    BY TaskFields DEF Task
  <2>2. Goto(w, told) \/ Goto(w, Idle)
    BY <1>3 DEF WizUpdateCommit
  <2> HIDE DEF told
  <2> QED
    BY <1>0, <1>3, <2>1, <2>2, SettlingStep DEF WizUpdateCommit
<1>4. CASE WizUpdateFails(w)
  BY <1>0, <1>4, SettlingStep DEF WizUpdateFails, Finish, At
<1>5. CASE WizUpdateNotify(w)
  BY <1>0, <1>5, EmptyHanded, QuietStep DEF WizUpdateNotify, Finish, At, HoldingPc
<1> QED
  BY <1>1, <1>2, <1>3, <1>4, <1>5 DEF WizUpdateStep

\* Staff and the CRM touch no money.
LEMMA OtherMoney ==
    ASSUME TypeInv, MoneyInv, NEW w \in Workers, AdminStep(w) \/ CrmStep(w)
    PROVE  MoneyInv'
<1>1. task[w].charge = NoCharge /\ UNCHANGED money
  BY EmptyHanded
     DEF AdminStep, ManualSave, ApproveSync, ApproveSyncFails, ApproveReload, ApproveSave,
         ApproveFails, RejectSave, DeleteCommit, CrmStep, DealSave, ImportCommit,
         ImportFails, At, HoldingPc, money
<1>2. Idle.charge = NoCharge
  BY DEF Idle
<1>3. \A r, pc : Loaded(pc, r).charge = NoCharge
  BY DEF Loaded, Idle
<1>4. \A r : /\ [task[w] EXCEPT !.pc = "approveReload"].charge = task[w].charge
             /\ [task[w] EXCEPT !.pc = "dealSave", !.rid = r].charge = task[w].charge
  BY TaskFields DEF Task
<1>5. \E t : Goto(w, t) /\ t.charge = NoCharge
  <2>1. CASE AdminStep(w) /\ ~ApproveSync(w)
    BY <1>2, <1>3, <2>1
       DEF AdminStep, ManualSave, ApproveSyncFails, ApproveReload, ApproveSave,
           ApproveFails, RejectSave, DeleteCommit, Finish
  <2>2. CASE ApproveSync(w)
    BY <1>1, <1>2, <1>4, <2>2 DEF ApproveSync, Finish
  <2>3. CASE CrmStep(w)
    BY <1>1, <1>2, <1>4, <2>3 DEF CrmStep, DealSave, ImportCommit, ImportFails, Finish
  <2> QED
    BY <2>1, <2>2, <2>3
<1> QED
  BY <1>1, <1>5, QuietStep

-----------------------------------------------------------------------------
(* The theorem *)

\* A crash forgets every charge that is open, but does not lose it silently.
LEMMA CrashMoney ==
    ASSUME TypeInv, MoneyInv, Crash
    PROVE  MoneyInv'
<1>1. /\ \A w \in Workers : task'[w].charge = NoCharge
      /\ \A c \in Charges : ledger'[c] = IF ledger[c] = "open" THEN "crashed" ELSE ledger[c]
      /\ payer' = payer
  BY DEF Crash, Idle
<1> QED
  BY <1>1 DEF MoneyInv, HoldersOK, OneHolder, OpenIsHeld, WizardNeverLoses

LEMMA InitMoney == Init => MoneyInv
BY DEF Init, Idle, MoneyInv, HoldersOK, OneHolder, OpenIsHeld, WizardNeverLoses

LEMMA NextMoney ==
    ASSUME TypeInv, MoneyInv, [Next]_vars
    PROVE  MoneyInv'
<1>1. CASE UNCHANGED vars
  BY <1>1, StandingStep DEF vars, money
<1>2. ASSUME NEW w \in Workers, Begin(w) PROVE MoneyInv'
  BY <1>2, BeginMoney
<1>3. ASSUME NEW w \in Workers, Continue(w) PROVE MoneyInv'
  BY <1>3, CreateMoney, UpdateMoney, WizCreateMoney, WizUpdateMoney, OtherMoney DEF Continue
<1>4. CASE CleanupScan \/ CleanupForms \/ CleanupDelete
  BY <1>4, StandingStep DEF CleanupScan, CleanupForms, CleanupDelete
<1>5. ASSUME NEW r \in Requests, Age(r) \/ ClearBell(r) PROVE MoneyInv'
  BY <1>5, StandingStep DEF Age, ClearBell
<1> QED
  BY <1>1, <1>2, <1>3, <1>4, <1>5, CrashMoney DEF Next, Environment

LEMMA MoneyInvSettled == TypeInv /\ MoneyInv => WizardChargeSettled
<1> SUFFICES ASSUME TypeInv, MoneyInv, NEW c \in Charges, payer[c] = "wizCreate"
             PROVE  \/ ledger[c] \in {"booked", "refunded", "refund-failed",
                                      "unanswered", "crashed"}
                    \/ ledger[c] = "open" /\ \E w \in Workers : task[w].charge = c
  BY DEF WizardChargeSettled
<1>1. ledger[c] \in ChargeFate
  BY DEF TypeInv, MoneyOK
<1>2. ledger[c] \notin {"none", "lost"}
  BY DEF MoneyInv, WizardNeverLoses
<1>3. ledger[c] = "open" => \E w \in Workers : task[w].charge = c
  BY DEF MoneyInv, OpenIsHeld
<1> QED
  BY <1>1, <1>2, <1>3 DEF ChargeFate

\* createWizardRequest charges before there is a request: whatever fails
\* afterwards, its charge ends booked on a request or given back to Stripe for
\* refund, unless the process or the line to Stripe failed.
THEOREM WizardChargeSettledAlways == Spec => []WizardChargeSettled
<1>1. Init => MoneyInv
  BY InitMoney
<1>2. TypeInv /\ MoneyInv /\ [Next]_vars => MoneyInv'
  BY NextMoney
<1>3. TypeInv /\ MoneyInv => WizardChargeSettled
  BY MoneyInvSettled
<1> QED
  BY <1>1, <1>2, <1>3, SpecTypeInv, PTL DEF Spec

-----------------------------------------------------------------------------
(* One handler at a time.  Nothing writes the table between the read of a     *)
(* handler and its save but the cleanup, which only removes rows.  So what a  *)
(* handler saves over a row is that row as its own checks have found it.      *)

OneAtATime == \A v, w \in Workers : v = w

\* Where a handler holds the row it will save.
SavePc == {"updateCharge", "updateCommit", "wizUpdateCharge", "wizUpdateCommit",
           "manualSave", "approveSave", "rejectSave", "dealSave"}

LivePc == SavePc \cup {"approveSync", "approveReload", "deleteCommit"}

Careful(t) ==
    /\ t.pc \in SavePc /\ t.rid \in live => t.snap = row[t.rid]
    /\ t.pc \in {"approveSync", "approveReload"} /\ t.rid \in live =>
           row[t.rid].status = "solicitud-recibida"
    /\ t.pc = "manualSave" => t.snap.status = "pendiente"
    /\ t.pc = "approveSave" => t.snap.status = "solicitud-recibida"
    /\ t.pc = "rejectSave" => t.snap.status \in {"pendiente", "solicitud-recibida"}
    /\ t.pc \in {"approveSave", "dealSave", "importCommit"} => t.snap.account
    /\ t.pc = "importCommit" /\ t.rid = NoRequest => t.snap.status = "pendiente"
    /\ t.pc = "importCommit" /\ t.rid \in live =>
           /\ t.snap.status = row[t.rid].status
           /\ t.snap.charge = row[t.rid].charge
    /\ t.pc = "updateCommit" /\ PanelCharges(t.snap, t.patch) => t.charge # NoCharge
    /\ t.pc = "wizUpdateCommit" /\ WizardCharges(t.snap, t.patch) => t.charge # NoCharge

\* The request a handler works on has a row.
Present(t) ==
    (t.pc \in LivePc \/ (t.pc = "importCommit" /\ t.rid # NoRequest)) => t.rid \in live

SerialInv ==
    /\ \A w \in Workers : Careful(task[w])
    /\ "cleanup" \notin Ops => sweep.pc = "idle" /\ \A w \in Workers : Present(task[w])

\* What a step of ChargeStaysOnRow requires.
ChargeKept ==
    \A r \in live \cap live' :
        row[r].charge \notin {NoCharge, row'[r].charge} =>
            /\ row[r].method # "stripe"
            /\ \E c \in Charges :
                  row'[r].charge = c /\ ledger[c] = "open" /\ ledger'[c] = "booked"

-----------------------------------------------------------------------------
(* What the pure operators keep of a row they are given *)

\* charges: the handler has charged the card, and c is that charge.
Keeps(q, m, charges, c) ==
    /\ m.account = q.account
    /\ m.charge # q.charge => charges /\ ~PaidByStripe(q) /\ m.charge = c

LEMMA PromotedKeeps ==
    ASSUME NEW q \in Row
    PROVE  /\ Promoted(q).account = q.account /\ Promoted(q).charge = q.charge
           /\ Promoted(q).status \in {q.status, "solicitud-recibida"}
BY DEF Promoted, Received, Row

LEMMA PanelPatchedKeeps ==
    ASSUME NEW q \in Row, NEW p \in Patch, NEW c \in ChargeOrNone
    PROVE  /\ Keeps(q, PanelPatched(q, p, c), PanelCharges(q, p), c)
           /\ p.status \in DraftStatus =>
                PanelPatched(q, p, c).status \in {q.status, "pendiente", "solicitud-recibida"}
<1> DEFINE paid == IF PanelHasResult(q, p) THEN PanelPaid(q, p, c)
                   ELSE IF p.method # "none" /\ p.amount
                   THEN PanelDeclaredPayment(q, p)
                   ELSE PanelNoPayment(q, p)
           confirmed == PartnerConfirmed(paid, p)
           signed == [confirmed EXCEPT !.signature = @ \/ p.signature]
<1>1. paid \in Row
  BY PanelBranchesType
<1>2. paid.account = q.account
  BY DEF PanelPaid, PanelDeclaredPayment, PanelNoPayment, Row
<1>3. paid.charge # q.charge => PanelCharges(q, p) /\ ~PaidByStripe(q) /\ paid.charge = c
  BY DEF PanelPaid, PanelDeclaredPayment, PanelNoPayment, PanelCharges, Row
<1>4. p.status \in DraftStatus => paid.status \in {q.status, "pendiente", "solicitud-recibida"}
  BY DEF PanelPaid, PanelDeclaredPayment, PanelNoPayment, StatusOr, Row, DraftStatus
<1> HIDE DEF paid
<1>5. /\ confirmed \in Row /\ confirmed.account = paid.account
      /\ confirmed.charge = paid.charge
      /\ confirmed.status \in {paid.status, "solicitud-recibida"}
  BY <1>1 DEF PartnerConfirmed, Received, Row, Status
<1> HIDE DEF confirmed
<1>6. /\ signed \in Row /\ signed.account = confirmed.account
      /\ signed.charge = confirmed.charge /\ signed.status = confirmed.status
  BY <1>5 DEF Row, Patch
<1>7. PanelPatched(q, p, c) = Promoted(signed)
  BY DEF PanelPatched, paid, confirmed
<1> HIDE DEF signed
<1> QED
  BY <1>2, <1>3, <1>4, <1>5, <1>6, <1>7, PromotedKeeps DEF Keeps

LEMMA PanelWrittenKeeps ==
    ASSUME NEW stored \in Row, NEW q \in Row, NEW p \in Patch, NEW c \in ChargeOrNone
    PROVE  /\ Keeps(q, PanelWritten(stored, q, p, c), PanelCharges(q, p), c)
           /\ p.status \in DraftStatus =>
                PanelWritten(stored, q, p, c).status
                  \in {q.status, "pendiente", "solicitud-recibida"}
<1>1. PanelPatched(q, p, c) \in Row
  BY PanelPatchedType
<1>2. /\ PanelWritten(stored, q, p, c).account = PanelPatched(q, p, c).account
      /\ PanelWritten(stored, q, p, c).charge = PanelPatched(q, p, c).charge
      /\ PanelWritten(stored, q, p, c).status = PanelPatched(q, p, c).status
  BY <1>1 DEF PanelWritten, Row
<1> QED
  BY <1>2, PanelPatchedKeeps DEF Keeps

LEMMA WizardPatchedKeeps ==
    ASSUME NEW q \in Row, NEW p \in Patch, NEW c \in ChargeOrNone
    PROVE  /\ Keeps(q, WizardPatched(q, p, c), WizardCharges(q, p), c)
           /\ p.status \in DraftStatus =>
                WizardPatched(q, p, c).status \in {q.status, "pendiente", "solicitud-recibida"}
<1> DEFINE n == WizardPaid(q, p, c)
           m == [n EXCEPT !.status = StatusOr(p, @), !.signature = @ \/ p.signature]
           z == IF WizardCloses(m, p) THEN Received(m) ELSE m
<1>1. n \in Row
  BY WizardPaidType
<1>2. n.account = q.account /\ n.status = q.status
  BY DEF WizardPaid, Row
<1>3. n.charge # q.charge => WizardCharges(q, p) /\ ~PaidByStripe(q) /\ n.charge = c
  BY DEF WizardPaid, WizardCharges, Row
<1> HIDE DEF n
<1>4. m \in Row /\ m.account = n.account /\ m.charge = n.charge
  BY <1>1 DEF StatusOr, Row, Patch, Status
<1>5. p.status \in DraftStatus => m.status \in {n.status, "pendiente", "solicitud-recibida"}
  BY <1>1 DEF StatusOr, Row, DraftStatus
<1> HIDE DEF m
<1>6. /\ z \in Row /\ z.account = m.account /\ z.charge = m.charge
      /\ z.status \in {m.status, "solicitud-recibida"}
  BY <1>4 DEF Received, Row, Status
<1>7. WizardPatched(q, p, c) = Promoted(z)
  BY DEF WizardPatched, z, m, n
<1> HIDE DEF z
<1> QED
  BY <1>2, <1>3, <1>4, <1>5, <1>6, <1>7, PromotedKeeps DEF Keeps

-----------------------------------------------------------------------------
(* The kinds of steps *)

LEMMA Became ==
    ASSUME TypeInv, NEW w \in Workers, NEW t, Goto(w, t)
    PROVE  task'[w] = t
BY DEF TypeInv, TasksOK, Goto

LEMMA IdlePc == Idle.pc = "idle"
BY DEF Idle

LEMMA LoadedFields ==
    ASSUME NEW pc, NEW r, NEW p, NEW a,
           NEW t \in {Loaded(pc, r), [Loaded(pc, r) EXCEPT !.patch = p],
                      [Loaded(pc, r) EXCEPT !.admin = a],
                      [Loaded(pc, r) EXCEPT !.patch = p, !.admin = a]}
    PROVE  t.pc = pc /\ t.rid = r /\ t.snap = row[r]
BY DEF Loaded, Idle

LEMMA Alone ==
    ASSUME OneAtATime, NEW w \in Workers, Careful(task[w])',
           "cleanup" \notin Ops => sweep'.pc = "idle" /\ Present(task[w])'
    PROVE  SerialInv'
<1>1. \A v \in Workers : v = w
  BY DEF OneAtATime
<1> QED
  BY <1>1 DEF SerialInv

\* A handler that has nothing left to save.
LEMMA Unminded ==
    ASSUME OneAtATime, SerialInv, NEW w \in Workers,
           task'[w].pc \notin LivePc \cup {"importCommit"}, UNCHANGED sweep
    PROVE  SerialInv'
<1>1. Careful(task[w])' /\ Present(task[w])'
  BY DEF Careful, Present, LivePc, SavePc
<1> QED
  BY <1>1, Alone DEF SerialInv

LEMMA Ended ==
    ASSUME TypeInv, OneAtATime, SerialInv, NEW w \in Workers, Finish(w), UNCHANGED sweep
    PROVE  SerialInv'
<1>1. task'[w] = Idle
  BY Became DEF Finish
<1> QED
  BY <1>1, Unminded DEF Idle, LivePc, SavePc

\* Stripe answers a handler between two places where it holds the row.
LEMMA ChargedSerial ==
    ASSUME TypeInv, OneAtATime, SerialInv, NEW w \in Workers, NEW op, NEW pc,
           Charge(w, op, pc), UNCHANGED <<table, sweep>>,
           \/ pc \in {"createCommit", "wizCreateCommit"}
           \/ task[w].pc \in {"updateCharge", "wizUpdateCharge"}
                /\ pc \in {"updateCommit", "wizUpdateCommit"}
    PROVE  SerialInv'
<1>1. PICK c \in Charges : Goto(w, [task[w] EXCEPT !.charge = c, !.pc = pc])
  BY DEF Charge
<1>2. /\ task[w] \in Task
      /\ task'[w] = [task[w] EXCEPT !.charge = c, !.pc = pc]
  BY <1>1, Became, TaskFields
<1>3. /\ task'[w].pc = pc /\ task'[w].rid = task[w].rid /\ task'[w].snap = task[w].snap
      /\ task'[w].charge # NoCharge
  BY <1>2, NoChargeAssumption DEF Task
<1>4. CASE pc \in {"createCommit", "wizCreateCommit"}
  BY <1>3, <1>4, Unminded DEF LivePc, SavePc
<1>5. CASE /\ task[w].pc \in {"updateCharge", "wizUpdateCharge"}
           /\ pc \in {"updateCommit", "wizUpdateCommit"}
  <2>1. Careful(task[w])'
    BY <1>3, <1>5 DEF SerialInv, Careful, SavePc, table
  <2>2. Present(task[w]) => Present(task[w])'
    BY <1>3, <1>5 DEF Present, LivePc, SavePc, table
  <2> QED
    BY <2>1, <2>2, Alone DEF SerialInv
<1> QED
  BY <1>4, <1>5

LEMMA DeclinedSerial ==
    ASSUME TypeInv, OneAtATime, SerialInv, NEW w \in Workers, NEW op,
           \/ Finish(w) /\ UNCHANGED money
           \/ ChargeUnanswered(w, op),
           UNCHANGED sweep
    PROVE  SerialInv'
<1>1. Finish(w)
  BY DEF ChargeUnanswered
<1> QED
  BY <1>1, Ended

\* The table as it was: nobody's charge changes.
LEMMA TableKept ==
    ASSUME UNCHANGED table
    PROVE  ChargeKept
BY DEF ChargeKept, table

\* A save keeps the charge when it does so on the row it overwrites.
LEMMA SaveKeeps ==
    ASSUME TypeInv, NEW r \in Requests, NEW q, NEW F, Save(r, q, F),
           r \in live /\ row[r].charge \notin {NoCharge, q.charge} =>
               /\ row[r].method # "stripe"
               /\ \E c \in Charges :
                     q.charge = c /\ ledger[c] = "open" /\ ledger'[c] = "booked"
    PROVE  ChargeKept
BY DEF ChargeKept, Save, TypeInv, TableOK

LEMMA RemoveKeeps ==
    ASSUME TypeInv, NEW R, Remove(R)
    PROVE  ChargeKept
BY DEF ChargeKept, Remove, TypeInv, TableOK

-----------------------------------------------------------------------------
(* Every step, by component *)

\* A handler that starts reads its row and checks it.
LEMMA BeginSerial ==
    ASSUME TypeInv, OneAtATime, SerialInv, NEW w \in Workers, Begin(w)
    PROVE  SerialInv'
<1> USE DEF LivePc, SavePc
<1>0. /\ row \in [Requests -> Row] /\ live \subseteq Requests /\ born \subseteq Requests
      /\ NoRequest \notin live
  BY NoRequestAssumption DEF TypeInv, TableOK
<1>1. CASE CreateBegin(w) \/ WizCreateBegin(w)
  <2> DEFINE New == {"createCharge", "createCommit", "wizCreateCharge", "wizCreateCommit"}
  <2>1. ASSUME NEW pc \in New, NEW p, NEW q
        PROVE  [Idle EXCEPT !.pc = pc, !.patch = p, !.snap = q].pc = pc
    BY DEF Idle
  <2>2. CASE CreateBegin(w)
    <3>1. PICK p \in Patches, partner \in BOOLEAN :
            Goto(w, [Idle EXCEPT
                       !.pc = IF p.token /\ p.amount THEN "createCharge" ELSE "createCommit",
                       !.patch = p, !.snap = PanelCreated(p, partner, NoCharge)])
      BY <2>2 DEF CreateBegin
    <3> DEFINE pc == IF p.token /\ p.amount THEN "createCharge" ELSE "createCommit"
               q == PanelCreated(p, partner, NoCharge)
    <3>2. pc \in New /\ task'[w] = [Idle EXCEPT !.pc = pc, !.patch = p, !.snap = q]
      BY <3>1, Became
    <3> HIDE DEF pc, q, New
    <3>3. task'[w].pc \in New
      BY <2>1, <3>2
    <3> QED
      BY <2>2, <3>3, Unminded DEF CreateBegin, New
  <2>3. CASE WizCreateBegin(w)
    <3>1. PICK p \in Patches, source \in {"wizard", "crm-lead", "panel"}, f \in BOOLEAN :
            \/ Finish(w)
            \/ Goto(w, [Idle EXCEPT
                          !.pc = IF WizardHasPayment(p, f) /\ p.method = "stripe"
                                 THEN "wizCreateCharge" ELSE "wizCreateCommit",
                          !.patch = p, !.free = f,
                          !.snap = WizardCreated(p, source, f, NoCharge)])
      BY <2>3 DEF WizCreateBegin
    <3> DEFINE pc == IF WizardHasPayment(p, f) /\ p.method = "stripe"
                     THEN "wizCreateCharge" ELSE "wizCreateCommit"
               q == WizardCreated(p, source, f, NoCharge)
    <3>2. pc \in New
      OBVIOUS
    <3>3. \/ task'[w] = Idle
          \/ task'[w] = [Idle EXCEPT !.pc = pc, !.patch = p, !.free = f, !.snap = q]
      BY <3>1, Became DEF Finish
    <3> HIDE DEF pc, q, New
    <3>4. [Idle EXCEPT !.pc = pc, !.patch = p, !.free = f, !.snap = q].pc = pc
      BY DEF Idle
    <3>5. task'[w].pc = "idle" \/ task'[w].pc = pc
      BY <3>3, <3>4, IdlePc
    <3> QED
      BY <2>3, <3>2, <3>5, Unminded DEF WizCreateBegin, New
  <2> QED
    BY <1>1, <2>2, <2>3
<1>2. CASE UpdateBegin(w)
  <2>1. UNCHANGED <<table, sweep>>
    BY <1>2 DEF UpdateBegin
  <2>2. \/ Finish(w)
        \/ \E r \in live, p \in Patches, a \in BOOLEAN :
             Goto(w, [Loaded(IF PanelCharges(row[r], p) THEN "updateCharge"
                             ELSE "updateCommit", r) EXCEPT !.patch = p, !.admin = a])
    BY <1>2 DEF UpdateBegin
  <2>3. ASSUME NEW r \in live, NEW p \in Patches, NEW a \in BOOLEAN,
               Goto(w, [Loaded(IF PanelCharges(row[r], p) THEN "updateCharge"
                               ELSE "updateCommit", r) EXCEPT !.patch = p, !.admin = a])
        PROVE  SerialInv'
    <3> DEFINE pc == IF PanelCharges(row[r], p) THEN "updateCharge" ELSE "updateCommit"
    <3>0. /\ pc \in {"updateCharge", "updateCommit"}
          /\ pc = "updateCommit" => ~PanelCharges(row[r], p)
      OBVIOUS
    <3> HIDE DEF pc
    <3>2. task'[w] = [Loaded(pc, r) EXCEPT !.patch = p, !.admin = a]
      BY <2>3, Became DEF pc
    <3>1. /\ task'[w].pc = pc
          /\ task'[w].rid = r /\ task'[w].snap = row[r]
      BY <3>2, LoadedFields
    <3>3. task'[w].patch = p
      BY <3>2 DEF Loaded, Idle
    <3> QED
      BY <1>0, <2>1, <3>0, <3>1, <3>3, Alone DEF SerialInv, Careful, Present, table
  <2> QED
    BY <2>1, <2>2, <2>3, Ended
<1>3. CASE WizUpdateBegin(w)
  <2>1. UNCHANGED <<table, sweep>>
    BY <1>3 DEF WizUpdateBegin
  <2>2. \/ Finish(w)
        \/ \E r \in live, p \in Patches :
             Goto(w, [Loaded(IF WizardCharges(row[r], p) THEN "wizUpdateCharge"
                             ELSE "wizUpdateCommit", r) EXCEPT !.patch = p])
    BY <1>3 DEF WizUpdateBegin
  <2>3. ASSUME NEW r \in live, NEW p \in Patches,
               Goto(w, [Loaded(IF WizardCharges(row[r], p) THEN "wizUpdateCharge"
                               ELSE "wizUpdateCommit", r) EXCEPT !.patch = p])
        PROVE  SerialInv'
    <3> DEFINE pc == IF WizardCharges(row[r], p) THEN "wizUpdateCharge" ELSE "wizUpdateCommit"
    <3>0. /\ pc \in {"wizUpdateCharge", "wizUpdateCommit"}
          /\ pc = "wizUpdateCommit" => ~WizardCharges(row[r], p)
      OBVIOUS
    <3> HIDE DEF pc
    <3>2. task'[w] = [Loaded(pc, r) EXCEPT !.patch = p]
      BY <2>3, Became DEF pc
    <3>1. /\ task'[w].pc = pc
          /\ task'[w].rid = r /\ task'[w].snap = row[r]
      BY <3>2, LoadedFields
    <3>3. task'[w].patch = p
      BY <3>2 DEF Loaded, Idle
    <3> QED
      BY <1>0, <2>1, <3>0, <3>1, <3>3, Alone DEF SerialInv, Careful, Present, table
  <2> QED
    BY <2>1, <2>2, <2>3, Ended
<1>4. CASE ManualBegin(w) \/ ApproveBegin(w) \/ RejectBegin(w) \/ DeleteBegin(w) \/ DealBegin(w)
  <2>1. UNCHANGED <<table, sweep>>
    BY <1>4 DEF ManualBegin, ApproveBegin, RejectBegin, DeleteBegin, DealBegin
  <2>2. \/ Finish(w)
        \/ \E r \in live :
             \/ row[r].status = "pendiente" /\ Goto(w, Loaded("manualSave", r))
             \/ row[r].status = "solicitud-recibida" /\ Goto(w, Loaded("approveSync", r))
             \/ /\ row[r].status \in {"solicitud-recibida", "pendiente"}
                /\ Goto(w, Loaded("rejectSave", r))
             \/ \E a \in BOOLEAN : Goto(w, [Loaded("deleteCommit", r) EXCEPT !.admin = a])
             \/ row[r].account /\ Goto(w, Loaded("dealSave", r))
    BY <1>4 DEF ManualBegin, ApproveBegin, RejectBegin, DeleteBegin, DealBegin
  <2>3. ASSUME NEW r \in live,
             \/ row[r].status = "pendiente" /\ Goto(w, Loaded("manualSave", r))
             \/ row[r].status = "solicitud-recibida" /\ Goto(w, Loaded("approveSync", r))
             \/ /\ row[r].status \in {"solicitud-recibida", "pendiente"}
                /\ Goto(w, Loaded("rejectSave", r))
             \/ \E a \in BOOLEAN : Goto(w, [Loaded("deleteCommit", r) EXCEPT !.admin = a])
             \/ row[r].account /\ Goto(w, Loaded("dealSave", r))
        PROVE  SerialInv'
    <3> DEFINE Tasks(pc) == {Loaded(pc, r)}
          \cup {[Loaded(pc, r) EXCEPT !.admin = a] : a \in BOOLEAN}
    <3>0. \/ row[r].status = "pendiente" /\ task'[w] \in Tasks("manualSave")
          \/ row[r].status = "solicitud-recibida" /\ task'[w] \in Tasks("approveSync")
          \/ /\ row[r].status \in {"solicitud-recibida", "pendiente"}
             /\ task'[w] \in Tasks("rejectSave")
          \/ task'[w] \in Tasks("deleteCommit")
          \/ row[r].account /\ task'[w] \in Tasks("dealSave")
      BY <2>3, Became
    <3>00. ASSUME NEW pc, NEW t \in Tasks(pc)
           PROVE  t.pc = pc /\ t.rid = r /\ t.snap = row[r]
      <4>1. \A a : /\ [Loaded(pc, r) EXCEPT !.admin = a].pc = pc
                   /\ [Loaded(pc, r) EXCEPT !.admin = a].rid = r
                   /\ [Loaded(pc, r) EXCEPT !.admin = a].snap = row[r]
        BY DEF Loaded, Idle
      <4>2. Loaded(pc, r).pc = pc /\ Loaded(pc, r).rid = r /\ Loaded(pc, r).snap = row[r]
        BY DEF Loaded, Idle
      <4> QED
        BY <4>1, <4>2
    <3> HIDE DEF Tasks
    <3>1. /\ task'[w].rid = r /\ task'[w].snap = row[r]
          /\ \/ task'[w].pc = "manualSave" /\ row[r].status = "pendiente"
             \/ task'[w].pc = "approveSync" /\ row[r].status = "solicitud-recibida"
             \/ /\ task'[w].pc = "rejectSave"
                /\ row[r].status \in {"solicitud-recibida", "pendiente"}
             \/ task'[w].pc = "deleteCommit"
             \/ task'[w].pc = "dealSave" /\ row[r].account
      BY <3>0, <3>00
    <3>2. Careful(task[w])'
      BY <2>1, <3>1 DEF Careful, table
    <3>3. Present(task[w])'
      BY <2>1, <3>1 DEF Present, table
    <3> QED
      BY <2>1, <3>2, <3>3, Alone DEF SerialInv
  <2> QED
    BY <2>1, <2>2, <2>3, Ended
<1>5. CASE ImportBegin(w)
  <2>1. UNCHANGED <<table, sweep>>
    BY <1>5 DEF ImportBegin
  <2>2. \/ \E r \in live, partner \in BOOLEAN :
             Goto(w, [Loaded("importCommit", r) EXCEPT
                        !.snap.account = TRUE, !.snap.partner = @ \/ partner])
        \/ \E partner \in BOOLEAN :
             Goto(w, [Idle EXCEPT !.pc = "importCommit", !.snap = Imported(partner)])
    BY <1>5 DEF ImportBegin
  <2>3. ASSUME NEW r \in live, NEW partner \in BOOLEAN,
               Goto(w, [Loaded("importCommit", r) EXCEPT
                          !.snap.account = TRUE, !.snap.partner = @ \/ partner])
        PROVE  SerialInv'
    <3>1. /\ task'[w].pc = "importCommit" /\ task'[w].rid = r
          /\ task'[w].snap = [row[r] EXCEPT !.account = TRUE, !.partner = @ \/ partner]
      <4>1. task'[w] = [Loaded("importCommit", r) EXCEPT
                          !.snap.account = TRUE, !.snap.partner = @ \/ partner]
        BY <2>3, Became
      <4> QED
        BY <4>1 DEF Loaded, Idle
    <3>2. /\ task'[w].snap.account /\ task'[w].snap.status = row[r].status
          /\ task'[w].snap.charge = row[r].charge
      BY <1>0, <3>1 DEF Row
    <3> QED
      BY <1>0, <2>1, <3>1, <3>2, Alone DEF SerialInv, Careful, Present, table
  <2>4. ASSUME NEW partner \in BOOLEAN,
               Goto(w, [Idle EXCEPT !.pc = "importCommit", !.snap = Imported(partner)])
        PROVE  SerialInv'
    <3>1. /\ task'[w].pc = "importCommit" /\ task'[w].rid = NoRequest
          /\ task'[w].snap = Imported(partner)
      BY <2>4, Became DEF Idle
    <3>2. task'[w].snap.account /\ task'[w].snap.status = "pendiente"
      BY <3>1 DEF Imported, BlankRow
    <3> QED
      BY <1>0, <2>1, <3>1, <3>2, Alone DEF SerialInv, Careful, Present, table
  <2> QED
    BY <2>2, <2>3, <2>4
<1> QED
  BY <1>1, <1>2, <1>3, <1>4, <1>5 DEF Begin

LEMMA BeginTable ==
    ASSUME NEW w \in Workers, Begin(w)
    PROVE  UNCHANGED <<table, sweep>>
BY DEF Begin, CreateBegin, UpdateBegin, WizCreateBegin, WizUpdateBegin, ManualBegin,
       ApproveBegin, RejectBegin, DeleteBegin, DealBegin, ImportBegin

LEMMA PanelSerial ==
    ASSUME TypeInv, OneAtATime, SerialInv, NEW w \in Workers, CreateStep(w) \/ UpdateStep(w)
    PROVE  SerialInv' /\ (MoneyInv => ChargeKept)
<1> DEFINE t == task[w]
<1> USE DEF LivePc, SavePc
<1>0. /\ t \in Task /\ t.snap \in Row /\ t.patch \in Patch /\ t.charge \in ChargeOrNone
      /\ row \in [Requests -> Row] /\ live \subseteq born
  BY TaskFields DEF TypeInv, TableOK
<1>1. CASE CreateCharged(w) \/ UpdateCharged(w)
  BY <1>1, ChargedSerial, TableKept DEF CreateCharged, UpdateCharged, At
<1>2. CASE CreateDeclined(w) \/ UpdateDeclined(w)
  BY <1>2, DeclinedSerial, TableKept DEF CreateDeclined, UpdateDeclined
<1>3. CASE CreateFails(w) \/ UpdateFails(w) \/ CreateNotify(w) \/ UpdateNotify(w)
  BY <1>3, Ended, TableKept DEF CreateFails, UpdateFails, CreateNotify, UpdateNotify
<1>4. CASE CreateCommit(w)
  <2>1. PICK r, q :
          /\ r \in Requests \ born /\ Save(r, q, {r})
          /\ \/ Finish(w)
             \/ Goto(w, [t EXCEPT !.pc = "createNotify", !.rid = r, !.snap = q,
                                 !.charge = NoCharge])
    BY <1>4 DEF CreateCommit, Finish
  <2>2. [t EXCEPT !.pc = "createNotify", !.rid = r, !.snap = q,
                  !.charge = NoCharge].pc = "createNotify"
    BY <1>0 DEF Task
  <2>3. task'[w].pc \in {"createNotify", "idle"} /\ UNCHANGED sweep
    BY <1>4, <2>1, <2>2, Became, IdlePc DEF CreateCommit, Finish
  <2> QED
    BY <1>0, <2>1, <2>3, Unminded, SaveKeeps
<1>5. CASE UpdateCommit(w)
  <2> DEFINE q == PanelWritten(row[t.rid], t.snap, t.patch, t.charge)
  <2>1. t.pc = "updateCommit" /\ t.rid \in Requests
    BY <1>5, TaskFields DEF UpdateCommit, At, RowPc
  <2>2. Save(t.rid, q, {t.rid}) /\ UNCHANGED sweep
    BY <1>5 DEF UpdateCommit
  <2>3. task'[w].pc \in {"updateNotify", "idle"}
    <3>1. Finish(w) \/ Goto(w, [t EXCEPT !.pc = "updateNotify", !.charge = NoCharge])
      BY <1>5 DEF UpdateCommit, Finish
    <3>2. [t EXCEPT !.pc = "updateNotify", !.charge = NoCharge].pc = "updateNotify"
      BY <1>0 DEF Task
    <3> QED
      BY <3>1, <3>2, Became, IdlePc DEF Finish
  <2>4. Keeps(t.snap, q, PanelCharges(t.snap, t.patch), t.charge)
    BY <1>0, <2>1, PanelWrittenKeeps
  <2>5. t.rid \in live => t.snap = row[t.rid]
    BY <2>1 DEF SerialInv, Careful
  <2> HIDE DEF q
  <2>6. PanelCharges(t.snap, t.patch) => t.charge \in Charges
    BY <1>0, <2>1 DEF SerialInv, Careful, ChargeOrNone
  <2>7. t.charge \in Charges => ledger'[t.charge] = "booked"
    BY <1>5 DEF UpdateCommit, Settle
  <2>8. MoneyInv /\ t.charge \in Charges => ledger[t.charge] = "open"
    BY NoChargeAssumption DEF MoneyInv, HoldersOK
  <2>9. ASSUME MoneyInv PROVE ChargeKept
    BY <1>0, <2>1, <2>2, <2>4, <2>5, <2>6, <2>7, <2>8, <2>9, SaveKeeps
       DEF Keeps, PaidByStripe
  <2> QED
    BY <2>2, <2>3, <2>9, Unminded
<1> QED
  BY <1>1, <1>2, <1>3, <1>4, <1>5 DEF CreateStep, UpdateStep

LEMMA WizardSerial ==
    ASSUME TypeInv, OneAtATime, SerialInv, NEW w \in Workers,
           WizCreateStep(w) \/ WizUpdateStep(w)
    PROVE  SerialInv' /\ (MoneyInv => ChargeKept)
<1> DEFINE t == task[w]
<1> USE DEF LivePc, SavePc
<1>0. /\ t \in Task /\ t.snap \in Row /\ t.patch \in Patch /\ t.charge \in ChargeOrNone
      /\ row \in [Requests -> Row] /\ live \subseteq born
  BY TaskFields DEF TypeInv, TableOK
<1>1. CASE WizCreateCharged(w) \/ WizUpdateCharged(w)
  BY <1>1, ChargedSerial, TableKept DEF WizCreateCharged, WizUpdateCharged, At
<1>2. CASE WizCreateDeclined(w) \/ WizUpdateDeclined(w)
  BY <1>2, DeclinedSerial, TableKept DEF WizCreateDeclined, WizUpdateDeclined
<1>3. CASE WizCreateRefund(w) \/ WizUpdateFails(w) \/ WizUpdateNotify(w)
  BY <1>3, Ended, TableKept DEF WizCreateRefund, WizUpdateFails, WizUpdateNotify
<1>4. CASE WizCreateFails(w)
  <2>1. task'[w].pc \in {"wizCreateRefund", "idle"} /\ UNCHANGED <<table, sweep>>
    BY <1>0, <1>4, Became DEF WizCreateFails, Finish, Idle, Task
  <2> QED
    BY <2>1, Unminded, TableKept
<1>5. CASE WizCreateCommit(w)
  <2>1. Finish(w) /\ UNCHANGED sweep /\ \E r, q, F : r \in Requests \ born /\ Save(r, q, F)
    BY <1>5 DEF WizCreateCommit
  <2> QED
    BY <1>0, <2>1, Ended, SaveKeeps
<1>6. CASE WizUpdateCommit(w)
  <2> DEFINE q == WizardPatched(t.snap, t.patch, t.charge)
  <2>1. t.pc = "wizUpdateCommit" /\ t.rid \in Requests
    BY <1>6, TaskFields DEF WizUpdateCommit, At, RowPc
  <2>2. Save(t.rid, q, {t.rid}) /\ UNCHANGED sweep
    BY <1>6 DEF WizUpdateCommit
  <2>3. task'[w].pc \in {"wizUpdateNotify", "idle"}
    <3>1. Finish(w) \/ Goto(w, [t EXCEPT !.pc = "wizUpdateNotify", !.charge = NoCharge])
      BY <1>6 DEF WizUpdateCommit, Finish
    <3>2. [t EXCEPT !.pc = "wizUpdateNotify", !.charge = NoCharge].pc = "wizUpdateNotify"
      BY <1>0 DEF Task
    <3> QED
      BY <3>1, <3>2, Became, IdlePc DEF Finish
  <2>4. Keeps(t.snap, q, WizardCharges(t.snap, t.patch), t.charge)
    BY <1>0, WizardPatchedKeeps
  <2>5. t.rid \in live => t.snap = row[t.rid]
    BY <2>1 DEF SerialInv, Careful
  <2> HIDE DEF q
  <2>6. WizardCharges(t.snap, t.patch) => t.charge \in Charges
    BY <1>0, <2>1 DEF SerialInv, Careful, ChargeOrNone
  <2>7. t.charge \in Charges => ledger'[t.charge] = "booked"
    BY <1>6 DEF WizUpdateCommit, Settle
  <2>8. MoneyInv /\ t.charge \in Charges => ledger[t.charge] = "open"
    BY NoChargeAssumption DEF MoneyInv, HoldersOK
  <2>9. ASSUME MoneyInv PROVE ChargeKept
    BY <1>0, <2>1, <2>2, <2>4, <2>5, <2>6, <2>7, <2>8, <2>9, SaveKeeps
       DEF Keeps, PaidByStripe
  <2> QED
    BY <2>2, <2>3, <2>9, Unminded
<1> QED
  BY <1>1, <1>2, <1>3, <1>4, <1>5, <1>6 DEF WizCreateStep, WizUpdateStep

LEMMA AdminSerial ==
    ASSUME TypeInv, OneAtATime, SerialInv, NEW w \in Workers, AdminStep(w)
    PROVE  SerialInv' /\ ChargeKept
<1> DEFINE t == task[w]
           r == t.rid
<1> USE DEF LivePc, SavePc
<1>0. /\ t \in Task /\ t.snap \in Row
      /\ row \in [Requests -> Row] /\ live \subseteq Requests
      /\ Careful(t) /\ ("cleanup" \notin Ops => sweep.pc = "idle" /\ Present(t))
  BY TaskFields DEF TypeInv, TableOK, SerialInv
<1>1. CASE ManualSave(w) \/ ApproveSave(w) \/ RejectSave(w)
  <2>1. t.pc \in {"manualSave", "approveSave", "rejectSave"} /\ r \in Requests
    BY <1>1, TaskFields DEF ManualSave, ApproveSave, RejectSave, At, RowPc
  <2>2. r \in live => t.snap = row[r]
    BY <1>0, <2>1 DEF Careful
  <2>3. PICK q : Save(r, q, {}) /\ q.charge = t.snap.charge
    <3>1. \A proof \in BOOLEAN : ManuallyPaid(t.snap, proof).charge = t.snap.charge
      BY <1>0 DEF ManuallyPaid, Row
    <3>2. Approved(t.snap).charge = t.snap.charge /\ Rejected(t.snap).charge = t.snap.charge
      BY <1>0 DEF Approved, Rejected, Row
    <3> QED
      BY <1>1, <3>1, <3>2 DEF ManualSave, ApproveSave, RejectSave
  <2>4. Finish(w) /\ UNCHANGED sweep
    BY <1>1 DEF ManualSave, ApproveSave, RejectSave
  <2> QED
    BY <2>1, <2>2, <2>3, <2>4, Ended, SaveKeeps
<1>2. CASE ApproveSync(w)
  <2>1. t.pc = "approveSync" /\ UNCHANGED <<live, sweep>>
    BY <1>2 DEF ApproveSync, At
  <2>2. /\ \A k \in live : row'[k].charge = row[k].charge /\ row'[k].status = row[k].status
        /\ ChargeKept
    BY <1>0, <1>2 DEF ApproveSync, ChargeKept, Row
  <2>3. CASE Finish(w)
    BY <2>1, <2>2, <2>3, Ended
  <2>4. CASE Goto(w, [t EXCEPT !.pc = "approveReload"])
    <3>1. task'[w].pc = "approveReload" /\ task'[w].rid = r
      BY <1>0, <2>4, Became DEF Task
    <3>2. Careful(task[w])'
      BY <1>0, <2>1, <2>2, <3>1 DEF Careful
    <3>3. Present(t) => Present(task[w])'
      BY <2>1, <3>1 DEF Present
    <3> QED
      BY <1>0, <2>1, <2>2, <3>2, <3>3, Alone
  <2> QED
    BY <1>2, <2>3, <2>4 DEF ApproveSync
<1>3. CASE ApproveReload(w)
  <2>1. t.pc = "approveReload" /\ UNCHANGED <<table, sweep>>
    BY <1>3 DEF ApproveReload, At
  <2>2. Finish(w) \/ (r \in live /\ row[r].account /\ Goto(w, Loaded("approveSave", r)))
    BY <1>3 DEF ApproveReload
  <2>3. CASE r \in live /\ row[r].account /\ Goto(w, Loaded("approveSave", r))
    <3>1. task'[w].pc = "approveSave" /\ task'[w].rid = r /\ task'[w].snap = row[r]
      BY <2>3, Became, LoadedFields
    <3>2. row[r].status = "solicitud-recibida"
      BY <1>0, <2>1, <2>3 DEF Careful
    <3>3. Careful(task[w])' /\ Present(task[w])'
      BY <2>1, <2>3, <3>1, <3>2 DEF Careful, Present, table
    <3> QED
      BY <1>0, <2>1, <3>3, Alone, TableKept
  <2> QED
    BY <2>1, <2>2, <2>3, Ended, TableKept
<1>4. CASE ApproveSyncFails(w) \/ ApproveFails(w)
  BY <1>4, Ended, TableKept DEF ApproveSyncFails, ApproveFails
<1>5. CASE DeleteCommit(w)
  BY <1>5, Ended, TableKept, RemoveKeeps DEF DeleteCommit
<1> QED
  BY <1>1, <1>2, <1>3, <1>4, <1>5 DEF AdminStep

LEMMA CrmSerial ==
    ASSUME TypeInv, OneAtATime, SerialInv, NEW w \in Workers, CrmStep(w)
    PROVE  SerialInv' /\ ChargeKept
<1> DEFINE t == task[w]
           r == t.rid
<1> USE DEF LivePc, SavePc
<1>0. /\ t \in Task /\ t.snap \in Row
      /\ row \in [Requests -> Row] /\ live \subseteq born
      /\ Careful(t) /\ ("cleanup" \notin Ops => sweep.pc = "idle")
  BY TaskFields DEF TypeInv, TableOK, SerialInv
<1>1. CASE DealSave(w)
  <2>1. t.pc = "dealSave" /\ r \in Requests /\ Finish(w) /\ UNCHANGED sweep
    BY <1>1, TaskFields DEF DealSave, At, RowPc
  <2>2. r \in live => t.snap = row[r]
    BY <1>0, <2>1 DEF Careful
  <2>3. UNCHANGED table \/ \E q : Save(r, q, {}) /\ q.charge = t.snap.charge
    <3>1. \A s : [t.snap EXCEPT !.status = s].charge = t.snap.charge
      BY <1>0 DEF Row
    <3> QED
      BY <1>1, <3>1 DEF DealSave
  <2> QED
    BY <2>1, <2>2, <2>3, Ended, SaveKeeps, TableKept
<1>2. CASE ImportCommit(w)
  <2>1. t.pc = "importCommit" /\ UNCHANGED sweep
    BY <1>2 DEF ImportCommit, At
  <2>2. PICK k \in IF r = NoRequest THEN Requests \ born ELSE {r} :
          Save(k, t.snap, {k}) /\ Goto(w, [t EXCEPT !.pc = "dealSave", !.rid = k])
    BY <1>2 DEF ImportCommit
  <2>3. k \in Requests /\ (k \in live => k = r)
    BY <1>0, <2>2 DEF Task
  <2>4. ChargeKept
    BY <1>0, <2>1, <2>2, <2>3, SaveKeeps DEF Careful
  <2>5. task'[w].pc = "dealSave" /\ task'[w].rid = k /\ task'[w].snap = t.snap
    <3>1. task'[w] = [t EXCEPT !.pc = "dealSave", !.rid = k]
      BY <2>2, Became
    <3> QED
      BY <1>0, <3>1 DEF Task
  <2>6. row'[k] = t.snap /\ k \in live'
    BY <1>0, <2>2, <2>3 DEF Save
  <2>7. Careful(task[w])' /\ Present(task[w])'
    BY <1>0, <2>1, <2>5, <2>6 DEF Careful, Present
  <2> QED
    BY <1>0, <2>1, <2>4, <2>7, Alone
<1>3. CASE ImportFails(w)
  BY <1>3, Ended, TableKept DEF ImportFails
<1> QED
  BY <1>1, <1>2, <1>3 DEF CrmStep

\* The cleanup removes rows; those that stay are as they were.
LEMMA EnvironmentSerial ==
    ASSUME TypeInv, OneAtATime, SerialInv,
           Environment \/ CleanupScan \/ CleanupForms \/ CleanupDelete
    PROVE  SerialInv' /\ ChargeKept
<1>1. ASSUME NEW r \in Requests, Age(r) \/ ClearBell(r) PROVE SerialInv' /\ ChargeKept
  BY <1>1, TableKept DEF Age, ClearBell, SerialInv, Careful, Present, table
<1>2. CASE Crash
  <2>1. /\ \A w \in Workers : task'[w] = Idle
        /\ sweep'.pc = "idle" /\ UNCHANGED table
    BY <1>2 DEF Crash
  <2>2. \A w \in Workers : Careful(task[w])' /\ Present(task[w])'
    BY <2>1 DEF Careful, Present, LivePc, SavePc, Idle
  <2> QED
    BY <2>1, <2>2, TableKept DEF SerialInv
<1>3. CASE CleanupScan \/ CleanupForms
  <2>1. "cleanup" \in Ops /\ UNCHANGED <<live, row, task>>
    BY <1>3 DEF CleanupScan, CleanupForms, SerialInv, table
  <2> QED
    BY <2>1 DEF SerialInv, Careful, ChargeKept
<1>4. CASE CleanupDelete
  <2>1. "cleanup" \in Ops /\ UNCHANGED task
    BY <1>4 DEF CleanupDelete, SerialInv
  <2>2. /\ live' \subseteq live /\ \A k \in live' : row'[k] = row[k]
        /\ ChargeKept
    BY <1>4, TableKept, RemoveKeeps DEF CleanupDelete, Remove, table, TypeInv, TableOK
  <2> QED
    BY <2>1, <2>2 DEF SerialInv, Careful
<1> QED
  BY <1>1, <1>2, <1>3, <1>4 DEF Environment

LEMMA InitSerial == Init => SerialInv
BY DEF Init, SerialInv, Careful, Present, LivePc, SavePc, Idle

LEMMA NextSerial ==
    ASSUME TypeInv, OneAtATime, SerialInv, [Next]_vars
    PROVE  SerialInv' /\ (MoneyInv => UNCHANGED vars \/ ChargeKept)
<1>1. CASE UNCHANGED vars
  BY <1>1 DEF vars, SerialInv, Careful, Present
<1>2. ASSUME NEW w \in Workers, Begin(w) PROVE SerialInv' /\ ChargeKept
  BY <1>2, BeginSerial, BeginTable, TableKept
<1>3. ASSUME NEW w \in Workers, Continue(w) PROVE SerialInv' /\ (MoneyInv => ChargeKept)
  BY <1>3, PanelSerial, WizardSerial, AdminSerial, CrmSerial DEF Continue
<1> QED
  BY <1>1, <1>2, <1>3, EnvironmentSerial DEF Next

\* With one handler at a time, whatever the cleanup removes and wherever the
\* process crashes, the charge on a request's row is not cleared, and where a
\* later one replaces it, another way of paying had been stored meanwhile and the
\* later charge is the one this handler made and books.
THEOREM ChargeStays ==
    ASSUME OneAtATime
    PROVE  Spec => ChargeStaysOnRow
<1>1. Init => SerialInv /\ MoneyInv
  BY InitSerial, InitMoney
<1>2. TypeInv /\ SerialInv /\ MoneyInv /\ [Next]_vars =>
        SerialInv' /\ MoneyInv' /\ [ChargeKept]_vars
  BY NextSerial, NextMoney
<1>3. [ChargeKept]_vars =>
        [\A r \in live \cap live' :
            row[r].charge \notin {NoCharge, row'[r].charge} =>
                /\ row[r].method # "stripe"
                /\ \E c \in Charges :
                      row'[r].charge = c /\ ledger[c] = "open" /\ ledger'[c] = "booked"]_vars
  BY DEF ChargeKept
<1> QED
  BY <1>1, <1>2, <1>3, SpecTypeInv, PTL DEF Spec, ChargeStaysOnRow

-----------------------------------------------------------------------------
(* The refinement.  With one handler at a time and no cleanup, which removes   *)
(* many requests in one statement, each step is a step of RequestStatus on one *)
(* request or leaves what it speaks of as it was.                              *)

AbsState == [r \in Requests |-> IF r \in live THEN row[r].status
                                ELSE IF r \in born THEN "deleted" ELSE "unborn"]
AbsLinked == {r \in live : row[r].account}
AbsReported == {task[w].rid : w \in {v \in Workers : At(v, "dealSave")}}

Abs == <<AbsState, AbsLinked, AbsReported>>

\* The assumptions under which the refinement holds, and the invariant it uses.
Calm ==
    /\ OneAtATime
    /\ "cleanup" \notin Ops
    /\ PatchesAreDrafts

CalmInv == TypeInv /\ LinkInv /\ SerialInv

LEMMA Sorts ==
    ASSUME TypeInv
    PROVE  /\ row \in [Requests -> Row] /\ live \subseteq Requests /\ live \subseteq born
           /\ born \subseteq Requests
           /\ \A r \in Requests : row[r] \in Row /\ row[r].status \in Status
BY DEF TypeInv, TableOK, Row

LEMMA StateIs ==
    ASSUME TypeInv, NEW r \in Requests
    PROVE  /\ r \in live => AbsState[r] = row[r].status /\ AbsState[r] \notin Promise!Gone
           /\ r \notin born => AbsState[r] = "unborn"
<1>1. r \in live => row[r].status \in Status
  BY Sorts
<1>2. r \notin born => r \notin live
  BY Sorts
<1> QED
  BY <1>1, <1>2 DEF AbsState, Promise!Gone, Status

\* What the steps that write the table do to the abstract state.
LEMMA SaveMoves ==
    ASSUME TypeInv, NEW r \in Requests, NEW q \in Row, NEW F, Save(r, q, F)
    PROVE  /\ AbsState' = [AbsState EXCEPT ![r] = q.status]
           /\ AbsLinked' = IF q.account THEN AbsLinked \cup {r} ELSE AbsLinked \ {r}
<1>1. row' = [row EXCEPT ![r] = q] /\ live' = live \cup {r} /\ born' = born \cup {r}
  BY DEF Save
<1>2. row'[r] = q /\ \A k \in Requests : k # r => row'[k] = row[k]
  BY <1>1, Sorts
<1>3. AbsState' = [AbsState EXCEPT ![r] = q.status]
  <2> DEFINE Of(k, L, R, B) == IF k \in L THEN R[k].status
                               ELSE IF k \in B THEN "deleted" ELSE "unborn"
  <2>1. \A k \in Requests : Of(k, live', row', born') =
                               IF k = r THEN q.status ELSE Of(k, live, row, born)
    BY <1>1, <1>2
  <2>2. /\ AbsState = [k \in Requests |-> Of(k, live, row, born)]
        /\ AbsState' = [k \in Requests |-> Of(k, live', row', born')]
    BY DEF AbsState
  <2> HIDE DEF Of
  <2> QED
    BY <2>1, <2>2
<1>4. AbsLinked \subseteq Requests /\ AbsLinked' \subseteq Requests
  BY <1>1, Sorts DEF AbsLinked
<1>5. r \in AbsLinked' <=> q.account
  BY <1>1, <1>2 DEF AbsLinked
<1>6. \A k \in Requests \ {r} : k \in AbsLinked' <=> k \in AbsLinked
  BY <1>1, <1>2 DEF AbsLinked
<1> QED
  BY <1>3, <1>4, <1>5, <1>6

LEMMA RemoveMoves ==
    ASSUME TypeInv, NEW r \in live, Remove({r})
    PROVE  /\ AbsState' = [AbsState EXCEPT ![r] = "deleted"]
           /\ AbsLinked' = AbsLinked \ {r}
<1>1. /\ row' = [k \in Requests |-> IF k \in {r} THEN BlankRow ELSE row[k]]
      /\ live' = live \ {r} /\ born' = born
      /\ r \in Requests /\ r \in born /\ live \subseteq Requests
  BY Sorts DEF Remove
<1>2. AbsState' = [AbsState EXCEPT ![r] = "deleted"]
  BY <1>1 DEF AbsState
<1>3. AbsLinked' = AbsLinked \ {r}
  BY <1>1 DEF AbsLinked
<1> QED
  BY <1>2, <1>3

LEMMA TableStays ==
    ASSUME UNCHANGED table
    PROVE  AbsState' = AbsState /\ AbsLinked' = AbsLinked
BY DEF table, AbsState, AbsLinked

\* The only handler tells which request the CRM is reporting.
LEMMA ReportedBy ==
    ASSUME OneAtATime, NEW w \in Workers
    PROVE  /\ task[w].pc = "dealSave" => AbsReported = {task[w].rid}
           /\ task[w].pc # "dealSave" => AbsReported = {}
           /\ task'[w].pc = "dealSave" => AbsReported' = {task'[w].rid}
           /\ task'[w].pc # "dealSave" => AbsReported' = {}
<1>1. \A v \in Workers : v = w
  BY DEF OneAtATime
<1> QED
  BY <1>1 DEF AbsReported, At

-----------------------------------------------------------------------------
(* The steps of RequestStatus *)

LEMMA Stutters == UNCHANGED Abs => UNCHANGED Promise!vars
BY DEF Abs, Promise!vars, AbsState, AbsLinked, AbsReported

LEMMA Creates ==
    ASSUME NEW r \in Requests, AbsState[r] = "unborn",
           NEW s \in {"pendiente", "solicitud-recibida"},
           AbsState' = [AbsState EXCEPT ![r] = s],
           AbsLinked' = AbsLinked, AbsReported' = AbsReported
    PROVE  Promise!Next
BY DEF Promise!Next, Promise!Create, Promise!Move, Promise!Open,
       AbsState, AbsLinked, AbsReported

LEMMA Arrives ==
    ASSUME NEW r \in Requests, AbsState[r] = "unborn",
           AbsState' = [AbsState EXCEPT ![r] = "pendiente"],
           AbsLinked' = AbsLinked \cup {r}, AbsReported' = AbsReported \cup {r}
    PROVE  Promise!Next
BY DEF Promise!Next, Promise!Arrive, Promise!Move, AbsState, AbsLinked, AbsReported

LEMMA Edits ==
    ASSUME NEW r \in Requests, AbsState[r] \notin Promise!Gone,
           NEW s \in {"pendiente", "solicitud-recibida"},
           AbsState' = [AbsState EXCEPT ![r] = s],
           AbsLinked' = AbsLinked, AbsReported' = AbsReported
    PROVE  Promise!Next
BY DEF Promise!Next, Promise!Edit, Promise!Move, Promise!Open,
       AbsState, AbsLinked, AbsReported

LEMMA Links ==
    ASSUME NEW r \in Requests, AbsState[r] \notin Promise!Gone,
           AbsState' = AbsState, AbsLinked' = AbsLinked \cup {r}, AbsReported' = AbsReported
    PROVE  Promise!Next
BY DEF Promise!Next, Promise!Link, AbsState, AbsLinked, AbsReported

LEMMA Approves ==
    ASSUME NEW r \in Requests, AbsState[r] = "solicitud-recibida", r \in AbsLinked,
           AbsState' = [AbsState EXCEPT ![r] = "en-proceso"],
           AbsLinked' = AbsLinked, AbsReported' = AbsReported
    PROVE  Promise!Next
BY DEF Promise!Next, Promise!Approve, Promise!Move, AbsState, AbsLinked, AbsReported

LEMMA Rejects ==
    ASSUME NEW r \in Requests, AbsState[r] \in {"pendiente", "solicitud-recibida"},
           AbsState' = [AbsState EXCEPT ![r] = "rechazada"],
           AbsLinked' = AbsLinked, AbsReported' = AbsReported
    PROVE  Promise!Next
BY DEF Promise!Next, Promise!Reject, Promise!Move, Promise!Open,
       AbsState, AbsLinked, AbsReported

LEMMA Reports ==
    ASSUME NEW r \in Requests, AbsState[r] \notin Promise!Gone,
           AbsState' = AbsState, AbsLinked' = AbsLinked \cup {r},
           AbsReported' = AbsReported \cup {r}
    PROVE  Promise!Next
BY DEF Promise!Next, Promise!Report, AbsState, AbsLinked, AbsReported

LEMMA Advances ==
    ASSUME NEW r \in Requests, r \in AbsReported, r \in AbsLinked,
           NEW s \in DealStatus \cup {AbsState[r]},
           AbsState' = [AbsState EXCEPT ![r] = s],
           AbsLinked' = AbsLinked, AbsReported' = AbsReported \ {r}
    PROVE  Promise!Next
BY DEF Promise!Next, Promise!Advance, Promise!Move, Promise!Pipeline, DealStatus,
       AbsState, AbsLinked, AbsReported

LEMMA Removes ==
    ASSUME NEW r \in Requests, AbsState[r] \notin Promise!Gone,
           AbsState' = [AbsState EXCEPT ![r] = "deleted"],
           AbsLinked' = AbsLinked \ {r}, AbsReported' = AbsReported
    PROVE  Promise!Next
BY DEF Promise!Next, Promise!Remove, Promise!Move, AbsState, AbsLinked, AbsReported

-----------------------------------------------------------------------------
(* The steps of the handlers *)

Step == Promise!Next \/ UNCHANGED Abs

LEMMA NotDeal ==
    ASSUME TypeInv, NEW w \in Workers, NEW pc, pc # "dealSave",
           \/ Finish(w)
           \/ Goto(w, [task[w] EXCEPT !.pc = pc])
           \/ Goto(w, [task[w] EXCEPT !.pc = pc, !.charge = NoCharge])
           \/ \E c \in Charges : Goto(w, [task[w] EXCEPT !.charge = c, !.pc = pc])
           \/ Goto(w, Loaded(pc, task[w].rid))
    PROVE  task'[w].pc # "dealSave"
<1>1. task[w] \in Task
  BY TaskFields
<1>2. /\ [task[w] EXCEPT !.pc = pc].pc = pc
      /\ [task[w] EXCEPT !.pc = pc, !.charge = NoCharge].pc = pc
      /\ \A c \in Charges : [task[w] EXCEPT !.charge = c, !.pc = pc].pc = pc
  BY <1>1 DEF Task
<1>3. Loaded(pc, task[w].rid).pc = pc
  BY DEF Loaded, Idle
<1> QED
  BY <1>2, <1>3, Became, IdlePc DEF Finish

LEMMA EndedNotDeal ==
    ASSUME TypeInv, NEW w \in Workers, Finish(w)
    PROVE  task'[w].pc # "dealSave"
BY Became, IdlePc DEF Finish

LEMMA QuietAbs ==
    ASSUME OneAtATime, NEW w \in Workers, UNCHANGED table,
           task[w].pc # "dealSave", task'[w].pc # "dealSave"
    PROVE  Step
BY TableStays, ReportedBy DEF Step, Abs

\* A handler writes, over the row it has read, what its caller may change of it.
LEMMA SaveEdits ==
    ASSUME TypeInv, OneAtATime, NEW w \in Workers,
           task[w].pc # "dealSave", task'[w].pc # "dealSave",
           NEW r \in live, NEW q \in Row, NEW F, Save(r, q, F),
           q.account = row[r].account,
           q.status \in {row[r].status, "pendiente", "solicitud-recibida"}
    PROVE  Step
<1>1. r \in Requests /\ row[r].account \in BOOLEAN
  BY Sorts DEF Row
<1>2. AbsState' = [AbsState EXCEPT ![r] = q.status]
  BY <1>1, SaveMoves
<1>3. AbsLinked' = AbsLinked
  BY <1>1, SaveMoves DEF AbsLinked
<1>4. AbsReported' = AbsReported
  BY ReportedBy
<1>5. AbsState[r] = row[r].status /\ AbsState[r] \notin Promise!Gone
  BY <1>1, StateIs
<1>6. CASE q.status = row[r].status
  <2>1. AbsState' = AbsState
    BY <1>1, <1>2, <1>5, <1>6 DEF AbsState
  <2> QED
    BY <1>3, <1>4, <2>1 DEF Step, Abs
<1>7. CASE q.status \in {"pendiente", "solicitud-recibida"}
  BY <1>1, <1>2, <1>3, <1>4, <1>5, <1>7, Edits DEF Step
<1> QED
  BY <1>6, <1>7

\* A handler gives a new request its first row.
LEMMA SaveCreates ==
    ASSUME TypeInv, OneAtATime, NEW w \in Workers,
           task[w].pc # "dealSave", task'[w].pc # "dealSave",
           NEW r \in Requests \ born, NEW q \in Row, NEW F, Save(r, q, F),
           ~q.account, q.status \in {"pendiente", "solicitud-recibida"}
    PROVE  Step
<1>1. AbsState' = [AbsState EXCEPT ![r] = q.status] /\ AbsLinked' = AbsLinked \ {r}
  BY SaveMoves
<1>2. r \notin AbsLinked
  BY Sorts DEF AbsLinked
<1>3. AbsReported' = AbsReported
  BY ReportedBy
<1>4. AbsState[r] = "unborn"
  BY StateIs
<1>5. AbsLinked' = AbsLinked
  BY <1>1, <1>2
<1> QED
  BY <1>1, <1>3, <1>4, <1>5, Creates DEF Step

LEMMA CreatedAbs ==
    ASSUME NEW p \in Patch, NEW c \in ChargeOrNone, NEW b \in BOOLEAN,
           NEW source \in Origin, p.status \in DraftStatus
    PROVE  /\ PanelCreated(p, b, c) \in Row
           /\ PanelCreated(p, b, c).status \in {"pendiente", "solicitud-recibida"}
           /\ ~PanelCreated(p, b, c).account
           /\ WizardCreated(p, source, b, c) \in Row
           /\ WizardCreated(p, source, b, c).status \in {"pendiente", "solicitud-recibida"}
           /\ ~WizardCreated(p, source, b, c).account
<1>1. PanelCreated(p, b, c) \in Row /\ WizardCreated(p, source, b, c) \in Row
  BY PanelCreatedType, WizardCreatedType
<1>2. /\ PanelCreated(p, b, c).status \in {"pendiente", "solicitud-recibida"}
      /\ ~PanelCreated(p, b, c).account
  BY DEF PanelCreated, BlankRow, StatusOr, DraftStatus
<1>3. /\ WizardCreated(p, source, b, c).status \in {"pendiente", "solicitud-recibida"}
      /\ ~WizardCreated(p, source, b, c).account
  BY DEF WizardCreated, BlankRow
<1> QED
  BY <1>1, <1>2, <1>3

LEMMA PanelAbs ==
    ASSUME CalmInv, Calm, NEW w \in Workers, CreateStep(w) \/ UpdateStep(w)
    PROVE  Step
<1> DEFINE t == task[w]
<1>0. /\ TypeInv /\ SerialInv /\ OneAtATime
      /\ t \in Task /\ t.snap \in Row /\ t.patch \in Patch /\ t.charge \in ChargeOrNone
      /\ t.patch.status \in DraftStatus /\ t.snap.partner \in BOOLEAN
      /\ row \in [Requests -> Row]
  BY TaskFields, Sorts DEF CalmInv, Calm, LinkInv, LinkedTask, Row
<1>01. t.pc # "dealSave"
  BY DEF CreateStep, UpdateStep, At, CreateCharged, CreateDeclined, CreateCommit, CreateFails,
         CreateNotify, UpdateCharged, UpdateDeclined, UpdateCommit, UpdateFails, UpdateNotify
<1>1. CASE CreateCharged(w) \/ UpdateCharged(w)
  <2>1. task'[w].pc # "dealSave"
    BY <1>0, <1>1, NotDeal DEF CreateCharged, UpdateCharged, Charge
  <2> QED
    BY <1>0, <1>01, <1>1, <2>1, QuietAbs DEF CreateCharged, UpdateCharged
<1>2. CASE \/ CreateDeclined(w) \/ UpdateDeclined(w) \/ CreateFails(w) \/ UpdateFails(w)
           \/ CreateNotify(w) \/ UpdateNotify(w)
  <2>1. Finish(w) /\ UNCHANGED table
    BY <1>2 DEF CreateDeclined, UpdateDeclined, CreateFails, UpdateFails, CreateNotify,
                UpdateNotify, ChargeUnanswered
  <2>2. task'[w].pc # "dealSave"
    BY <1>0, <2>1, NotDeal
  <2> QED
    BY <1>0, <1>01, <2>1, <2>2, QuietAbs
<1>3. CASE CreateCommit(w)
  <2> DEFINE q == PanelCreated(t.patch, t.snap.partner, t.charge)
  <2>1. PICK r \in Requests \ born :
          /\ Save(r, q, {r})
          /\ \/ Finish(w)
             \/ Goto(w, [t EXCEPT !.pc = "createNotify", !.rid = r, !.snap = q,
                                 !.charge = NoCharge])
    BY <1>3 DEF CreateCommit, Finish
  <2>2. /\ q \in Row /\ q.status \in {"pendiente", "solicitud-recibida"} /\ ~q.account
    BY <1>0, CreatedAbs, BlankRowType DEF Row
  <2> HIDE DEF q
  <2>3. [t EXCEPT !.pc = "createNotify", !.rid = r, !.snap = q,
                  !.charge = NoCharge].pc = "createNotify"
    BY <1>0 DEF Task
  <2>4. task'[w].pc # "dealSave"
    BY <1>0, <2>1, <2>3, Became, IdlePc DEF Finish
  <2> QED
    BY <1>0, <1>01, <2>1, <2>2, <2>4, SaveCreates
<1>4. CASE UpdateCommit(w)
  <2> DEFINE q == PanelWritten(row[t.rid], t.snap, t.patch, t.charge)
  <2>1. t.pc = "updateCommit" /\ t.rid \in Requests
    BY <1>0, <1>4, TaskFields DEF UpdateCommit, At, RowPc
  <2>2. t.rid \in live /\ t.snap = row[t.rid]
    BY <1>0, <2>1 DEF Calm, SerialInv, Careful, Present, LivePc, SavePc
  <2>3. Save(t.rid, q, {t.rid})
    BY <1>4 DEF UpdateCommit
  <2>4. q \in Row
    BY <1>0, <2>1, PanelWrittenType
  <2>5. q.account = t.snap.account
    BY <1>0, <2>1, PanelWrittenKeeps DEF Keeps
  <2>6. q.status \in {t.snap.status, "pendiente", "solicitud-recibida"}
    BY <1>0, <2>1, PanelWrittenKeeps
  <2>7. Finish(w) \/ Goto(w, [t EXCEPT !.pc = "updateNotify", !.charge = NoCharge])
    BY <1>4 DEF UpdateCommit, Finish
  <2> HIDE DEF q
  <2>8. task'[w].pc # "dealSave"
    BY <1>0, <2>7, NotDeal
  <2> QED
    BY <1>0, <1>01, <2>2, <2>3, <2>4, <2>5, <2>6, <2>8, SaveEdits
<1> QED
  BY <1>1, <1>2, <1>3, <1>4 DEF CreateStep, UpdateStep

LEMMA WizardAbs ==
    ASSUME CalmInv, Calm, NEW w \in Workers, WizCreateStep(w) \/ WizUpdateStep(w)
    PROVE  Step
<1> DEFINE t == task[w]
<1>0. /\ TypeInv /\ SerialInv /\ OneAtATime
      /\ t \in Task /\ t.snap \in Row /\ t.patch \in Patch /\ t.charge \in ChargeOrNone
      /\ t.patch.status \in DraftStatus /\ t.snap.createdFrom \in Origin /\ t.free \in BOOLEAN
      /\ row \in [Requests -> Row]
  BY TaskFields, Sorts DEF CalmInv, Calm, LinkInv, LinkedTask, Row
<1>01. t.pc # "dealSave"
  BY DEF WizCreateStep, WizUpdateStep, At, WizCreateCharged, WizCreateDeclined,
         WizCreateCommit, WizCreateFails, WizCreateRefund, WizUpdateCharged,
         WizUpdateDeclined, WizUpdateCommit, WizUpdateFails, WizUpdateNotify
<1>1. CASE WizCreateCharged(w) \/ WizUpdateCharged(w)
  <2>1. task'[w].pc # "dealSave"
    BY <1>0, <1>1, NotDeal DEF WizCreateCharged, WizUpdateCharged, Charge
  <2> QED
    BY <1>0, <1>01, <1>1, <2>1, QuietAbs DEF WizCreateCharged, WizUpdateCharged
<1>2. CASE \/ WizCreateDeclined(w) \/ WizUpdateDeclined(w) \/ WizUpdateFails(w)
           \/ WizCreateRefund(w) \/ WizUpdateNotify(w)
  <2>1. Finish(w) /\ UNCHANGED table
    BY <1>2 DEF WizCreateDeclined, WizUpdateDeclined, WizUpdateFails, WizCreateRefund,
                WizUpdateNotify, ChargeUnanswered
  <2>2. task'[w].pc # "dealSave"
    BY <1>0, <2>1, NotDeal
  <2> QED
    BY <1>0, <1>01, <2>1, <2>2, QuietAbs
<1>3. CASE WizCreateFails(w)
  <2>1. task'[w].pc # "dealSave"
    BY <1>0, <1>3, NotDeal DEF WizCreateFails
  <2> QED
    BY <1>0, <1>01, <1>3, <2>1, QuietAbs DEF WizCreateFails
<1>4. CASE WizCreateCommit(w)
  <2> DEFINE q == WizardCreated(t.patch, t.snap.createdFrom, t.free, t.charge)
  <2>1. PICK r \in Requests \ born : \E F \in SUBSET {r} : Save(r, q, F)
    BY <1>4 DEF WizCreateCommit
  <2>2. /\ q \in Row /\ q.status \in {"pendiente", "solicitud-recibida"} /\ ~q.account
    BY <1>0, CreatedAbs
  <2> HIDE DEF q
  <2>3. task'[w].pc # "dealSave"
    BY <1>0, <1>4, NotDeal DEF WizCreateCommit
  <2> QED
    BY <1>0, <1>01, <2>1, <2>2, <2>3, SaveCreates
<1>5. CASE WizUpdateCommit(w)
  <2> DEFINE q == WizardPatched(t.snap, t.patch, t.charge)
  <2>1. t.pc = "wizUpdateCommit" /\ t.rid \in Requests
    BY <1>0, <1>5, TaskFields DEF WizUpdateCommit, At, RowPc
  <2>2. t.rid \in live /\ t.snap = row[t.rid]
    BY <1>0, <2>1 DEF Calm, SerialInv, Careful, Present, LivePc, SavePc
  <2>3. Save(t.rid, q, {t.rid})
    BY <1>5 DEF WizUpdateCommit
  <2>4. q \in Row
    BY <1>0, WizardPatchedType
  <2>5. q.account = t.snap.account
    BY <1>0, WizardPatchedKeeps DEF Keeps
  <2>6. q.status \in {t.snap.status, "pendiente", "solicitud-recibida"}
    BY <1>0, WizardPatchedKeeps
  <2>7. Finish(w) \/ Goto(w, [t EXCEPT !.pc = "wizUpdateNotify", !.charge = NoCharge])
    BY <1>5 DEF WizUpdateCommit, Finish
  <2> HIDE DEF q
  <2>8. task'[w].pc # "dealSave"
    BY <1>0, <2>7, NotDeal
  <2> QED
    BY <1>0, <1>01, <2>2, <2>3, <2>4, <2>5, <2>6, <2>8, SaveEdits
<1> QED
  BY <1>1, <1>2, <1>3, <1>4, <1>5 DEF WizCreateStep, WizUpdateStep

LEMMA AdminAbs ==
    ASSUME CalmInv, Calm, NEW w \in Workers, AdminStep(w)
    PROVE  Step
<1> DEFINE t == task[w]
           r == t.rid
           q == t.snap
<1>0. /\ TypeInv /\ OneAtATime /\ t \in Task /\ q \in Row
      /\ row \in [Requests -> Row] /\ live \subseteq Requests
      /\ Careful(t) /\ Present(t)
  BY TaskFields, Sorts DEF CalmInv, Calm, SerialInv
<1>01. t.pc # "dealSave"
  BY DEF AdminStep, At, ManualSave, ApproveSync, ApproveSyncFails, ApproveReload,
         ApproveSave, ApproveFails, RejectSave, DeleteCommit
<1>02. Finish(w) => task'[w].pc # "dealSave"
  BY <1>0, EndedNotDeal
<1>03. t.pc \in {"manualSave", "approveSync", "approveReload", "approveSave",
                "rejectSave", "deleteCommit"}
         => r \in live /\ r \in Requests
  BY <1>0 DEF Present, LivePc, SavePc
<1>04. t.pc \in {"manualSave", "approveSave", "rejectSave"} => q = row[r]
  BY <1>0, <1>03 DEF Careful, SavePc
<1>1. CASE ManualSave(w)
  <2>1. t.pc = "manualSave" /\ Finish(w)
    BY <1>1 DEF ManualSave, At
  <2>2. PICK proof \in BOOLEAN : Save(r, ManuallyPaid(q, proof), {})
    BY <1>1 DEF ManualSave
  <2>3. ManuallyPaid(q, proof) \in Row
    BY <1>0, ManuallyPaidType
  <2>4. /\ ManuallyPaid(q, proof).account = q.account
        /\ ManuallyPaid(q, proof).status = "solicitud-recibida"
    BY <1>0 DEF ManuallyPaid, Row
  <2> QED
    BY <1>0, <1>01, <1>02, <1>03, <1>04, <2>1, <2>2, <2>3, <2>4, SaveEdits
<1>2. CASE ApproveSync(w)
  <2>1. t.pc = "approveSync" /\ r \in live /\ r \in Requests
    BY <1>03, <1>2 DEF ApproveSync, At
  <2>2. row' = [row EXCEPT ![r].account = TRUE] /\ live' = live /\ born' = born
    BY <1>2, <2>1 DEF ApproveSync
  <2>3. /\ \A k \in Requests : k # r => row'[k] = row[k]
        /\ row'[r].account /\ row'[r].status = row[r].status
    BY <1>0, <2>1, <2>2 DEF Row
  <2>4. AbsState' = AbsState
    BY <2>1, <2>2, <2>3 DEF AbsState
  <2>5. AbsLinked' = AbsLinked \cup {r}
    BY <1>0, <2>1, <2>2, <2>3 DEF AbsLinked
  <2>60. Finish(w) \/ Goto(w, [t EXCEPT !.pc = "approveReload"])
    BY <1>2 DEF ApproveSync
  <2>6. task'[w].pc # "dealSave"
    BY <1>0, <1>02, <2>60, NotDeal
  <2>7. AbsReported' = AbsReported
    BY <1>0, <1>01, <2>6, ReportedBy
  <2>8. AbsState[r] \notin Promise!Gone
    BY <1>0, <2>1, StateIs
  <2> QED
    BY <2>1, <2>4, <2>5, <2>7, <2>8, Links DEF Step
<1>3. CASE ApproveSyncFails(w) \/ ApproveFails(w)
  BY <1>0, <1>01, <1>02, <1>3, QuietAbs DEF ApproveSyncFails, ApproveFails
<1>4. CASE ApproveReload(w)
  <2>0. Finish(w) \/ Goto(w, Loaded("approveSave", r))
    BY <1>4 DEF ApproveReload
  <2>1. task'[w].pc # "dealSave"
    BY <1>0, <1>02, <2>0, NotDeal
  <2> QED
    BY <1>0, <1>01, <1>4, <2>1, QuietAbs DEF ApproveReload
<1>5. CASE ApproveSave(w)
  <2>1. /\ t.pc = "approveSave" /\ r \in live /\ r \in Requests /\ q = row[r]
        /\ Save(r, Approved(q), {}) /\ Finish(w)
    BY <1>03, <1>04, <1>5 DEF ApproveSave, At
  <2>2. q.status = "solicitud-recibida" /\ q.account
    BY <1>0, <2>1 DEF Careful
  <2>3. /\ Approved(q) \in Row /\ Approved(q).account = q.account
        /\ Approved(q).status = "en-proceso"
    BY <1>0, DecidedType DEF Approved, Row
  <2>4. AbsState[r] = "solicitud-recibida" /\ r \in AbsLinked
    BY <1>0, <2>1, <2>2, StateIs DEF AbsLinked
  <2> DEFINE m == Approved(q)
  <2>5. /\ AbsState' = [AbsState EXCEPT ![r] = "en-proceso"]
        /\ AbsLinked' = AbsLinked \cup {r}
    <3>1. m \in Row /\ m.account /\ m.status = "en-proceso" /\ Save(r, m, {})
      BY <2>1, <2>2, <2>3
    <3> HIDE DEF m
    <3> QED
      BY <1>0, <2>1, <3>1, SaveMoves
  <2>50. AbsLinked' = AbsLinked
    BY <2>4, <2>5
  <2>6. AbsReported' = AbsReported
    BY <1>0, <1>01, <1>02, <2>1, ReportedBy
  <2> QED
    BY <2>1, <2>4, <2>5, <2>50, <2>6, Approves DEF Step
<1>6. CASE RejectSave(w)
  <2>1. /\ t.pc = "rejectSave" /\ r \in live /\ r \in Requests /\ q = row[r]
        /\ Save(r, Rejected(q), {}) /\ Finish(w)
    BY <1>03, <1>04, <1>6 DEF RejectSave, At
  <2>2. q.status \in {"pendiente", "solicitud-recibida"}
    BY <1>0, <2>1 DEF Careful
  <2>3. /\ Rejected(q) \in Row /\ Rejected(q).account = q.account
        /\ Rejected(q).status = "rechazada" /\ q.account \in BOOLEAN
    BY <1>0, DecidedType DEF Rejected, Row
  <2>4. /\ AbsState[r] \in {"pendiente", "solicitud-recibida"}
        /\ r \in AbsLinked <=> q.account
    BY <1>0, <2>1, <2>2, StateIs DEF AbsLinked
  <2>5. AbsState' = [AbsState EXCEPT ![r] = "rechazada"]
    BY <1>0, <2>1, <2>3, SaveMoves
  <2>6. AbsLinked' = AbsLinked
    BY <1>0, <2>1, <2>3, <2>4, SaveMoves
  <2>7. AbsReported' = AbsReported
    BY <1>0, <1>01, <1>02, <2>1, ReportedBy
  <2> QED
    BY <2>1, <2>4, <2>5, <2>6, <2>7, Rejects DEF Step
<1>7. CASE DeleteCommit(w)
  <2>1. t.pc = "deleteCommit" /\ r \in live /\ r \in Requests
    BY <1>03, <1>7 DEF DeleteCommit, At
  <2>2. Remove({r}) /\ Finish(w)
    BY <1>7, <2>1 DEF DeleteCommit
  <2>3. AbsState' = [AbsState EXCEPT ![r] = "deleted"] /\ AbsLinked' = AbsLinked \ {r}
    BY <1>0, <2>1, <2>2, RemoveMoves
  <2>4. AbsReported' = AbsReported
    BY <1>0, <1>01, <1>02, <2>2, ReportedBy
  <2>5. AbsState[r] \notin Promise!Gone
    BY <1>0, <2>1, StateIs
  <2> QED
    BY <2>1, <2>3, <2>4, <2>5, Removes DEF Step
<1> QED
  BY <1>1, <1>2, <1>3, <1>4, <1>5, <1>6, <1>7 DEF AdminStep

LEMMA CrmAbs ==
    ASSUME CalmInv, Calm, NEW w \in Workers, CrmStep(w)
    PROVE  Step
<1> DEFINE t == task[w]
           r == t.rid
           q == t.snap
<1>0. /\ TypeInv /\ OneAtATime /\ t \in Task /\ q \in Row
      /\ row \in [Requests -> Row] /\ live \subseteq Requests /\ live \subseteq born
      /\ Careful(t) /\ Present(t) /\ NoRequest \notin Requests
  BY TaskFields, Sorts, NoRequestAssumption DEF CalmInv, Calm, SerialInv
<1>01. Finish(w) => task'[w].pc # "dealSave"
  BY <1>0, EndedNotDeal
<1>1. CASE DealSave(w)
  <2>1. t.pc = "dealSave" /\ Finish(w)
    BY <1>1 DEF DealSave, At
  <2>2. r \in live /\ q = row[r] /\ q.account
    BY <1>0, <2>1 DEF Careful, Present, LivePc, SavePc
  <2>3. AbsReported = {r} /\ AbsReported' = {}
    BY <1>0, <1>01, <2>1, ReportedBy
  <2>4. r \in Requests /\ r \in AbsLinked /\ AbsState[r] = q.status
    BY <1>0, <2>2, StateIs DEF AbsLinked
  <2>5. CASE UNCHANGED table
    <3>1. AbsState' = [AbsState EXCEPT ![r] = AbsState[r]] /\ AbsLinked' = AbsLinked
      BY <2>5, TableStays DEF AbsState
    <3> QED
      BY <2>3, <2>4, <3>1, Advances DEF Step
  <2>6. ASSUME NEW s \in DealStatus \cup {q.status}, Save(r, [q EXCEPT !.status = s], {})
        PROVE  Step
    <3>1. s \in Status
      BY <1>0 DEF DealStatus, Status, Row
    <3>2. /\ [q EXCEPT !.status = s] \in Row
          /\ [q EXCEPT !.status = s].status = s /\ [q EXCEPT !.status = s].account
      BY <1>0, <2>2, <3>1 DEF Row
    <3>3. AbsState' = [AbsState EXCEPT ![r] = s] /\ AbsLinked' = AbsLinked \cup {r}
      BY <1>0, <2>4, <2>6, <3>2, SaveMoves
    <3>4. AbsLinked' = AbsLinked
      BY <2>4, <3>3
    <3> QED
      BY <2>3, <2>4, <3>3, <3>4, Advances DEF Step
  <2> QED
    BY <1>1, <2>5, <2>6 DEF DealSave
<1>2. CASE ImportCommit(w)
  <2>1. t.pc = "importCommit" /\ q.account
    BY <1>0, <1>2 DEF ImportCommit, At, Careful
  <2>2. PICK k \in IF r = NoRequest THEN Requests \ born ELSE {r} :
          Save(k, q, {k}) /\ Goto(w, [t EXCEPT !.pc = "dealSave", !.rid = k])
    BY <1>2 DEF ImportCommit
  <2>3. task'[w].pc = "dealSave" /\ task'[w].rid = k
    <3>1. task'[w] = [t EXCEPT !.pc = "dealSave", !.rid = k]
      BY <1>0, <2>2, Became
    <3> QED
      BY <1>0, <3>1 DEF Task
  <2>4. AbsReported = {} /\ AbsReported' = {k}
    BY <1>0, <2>1, <2>3, ReportedBy
  <2>5. CASE r = NoRequest
    <3>1. k \in Requests \ born /\ q.status = "pendiente"
      BY <1>0, <2>1, <2>2, <2>5 DEF Careful
    <3>2. /\ AbsState' = [AbsState EXCEPT ![k] = "pendiente"]
          /\ AbsLinked' = AbsLinked \cup {k}
      BY <1>0, <2>1, <2>2, <3>1, SaveMoves
    <3>3. AbsState[k] = "unborn"
      BY <1>0, <3>1, StateIs
    <3> QED
      BY <2>4, <3>1, <3>2, <3>3, Arrives DEF Step
  <2>6. CASE r # NoRequest
    <3>1. k = r /\ r \in live /\ r \in Requests
      BY <1>0, <2>1, <2>2, <2>6 DEF Present
    <3>2. q.status = row[r].status
      BY <1>0, <2>1, <3>1 DEF Careful
    <3>3. AbsState[r] = q.status /\ AbsState[r] \notin Promise!Gone
      BY <1>0, <3>1, <3>2, StateIs
    <3>4. AbsState' = [AbsState EXCEPT ![r] = q.status] /\ AbsLinked' = AbsLinked \cup {r}
      BY <1>0, <2>1, <2>2, <3>1, SaveMoves
    <3>5. AbsState' = AbsState
      BY <3>1, <3>3, <3>4 DEF AbsState
    <3> QED
      BY <2>4, <3>1, <3>3, <3>4, <3>5, Reports DEF Step
  <2> QED
    BY <2>5, <2>6
<1>3. CASE ImportFails(w)
  <2>1. t.pc # "dealSave" /\ Finish(w) /\ UNCHANGED table
    BY <1>3 DEF ImportFails, At
  <2> QED
    BY <1>0, <1>01, <2>1, QuietAbs
<1> QED
  BY <1>1, <1>2, <1>3 DEF CrmStep

\* A handler that starts changes nothing but, when it takes up a deal, what the
\* CRM reports.
LEMMA BeginAbs ==
    ASSUME CalmInv, Calm, NEW w \in Workers, Begin(w)
    PROVE  Step
<1>0. /\ TypeInv /\ OneAtATime /\ live \subseteq Requests /\ UNCHANGED table
  BY Sorts, BeginTable DEF CalmInv, Calm
<1>1. task[w].pc # "dealSave"
  BY DEF Begin, Starts, CreateBegin, UpdateBegin, WizCreateBegin, WizUpdateBegin,
         ManualBegin, ApproveBegin, RejectBegin, DeleteBegin, DealBegin, ImportBegin
<1>2. CASE task'[w].pc # "dealSave"
  BY <1>0, <1>1, <1>2, QuietAbs
<1>3. CASE task'[w].pc = "dealSave"
  <2>1. SerialInv'
    BY <1>0, BeginSerial DEF CalmInv
  <2>2. task'[w].rid \in live /\ task'[w].snap = row[task'[w].rid] /\ task'[w].snap.account
    BY <1>0, <1>3, <2>1 DEF Calm, SerialInv, Careful, Present, LivePc, SavePc, table
  <2> DEFINE r == task'[w].rid
  <2>3. AbsReported = {} /\ AbsReported' = {r}
    BY <1>0, <1>1, <1>3, ReportedBy
  <2>4. AbsState' = AbsState /\ AbsLinked' = AbsLinked
    BY <1>0, TableStays
  <2>5. r \in Requests /\ r \in AbsLinked /\ AbsState[r] \notin Promise!Gone
    BY <1>0, <2>2, StateIs DEF AbsLinked
  <2> HIDE DEF r
  <2> QED
    BY <2>3, <2>4, <2>5, Reports DEF Step
<1> QED
  BY <1>2, <1>3

\* A crash gives up the report that was being handled.
LEMMA EnvironmentAbs ==
    ASSUME CalmInv, Calm, Environment \/ CleanupScan \/ CleanupForms \/ CleanupDelete
    PROVE  Step
<1>0. TypeInv /\ SerialInv /\ OneAtATime /\ live \subseteq Requests
  BY Sorts DEF CalmInv, Calm
<1>1. CASE Crash
  <2>1. UNCHANGED table /\ \A w \in Workers : task'[w].pc # "dealSave"
    BY <1>1, IdlePc DEF Crash
  <2>2. CASE \A w \in Workers : task[w].pc # "dealSave"
    BY <2>1, <2>2, TableStays DEF Step, Abs, AbsReported, At
  <2>3. ASSUME NEW w \in Workers, task[w].pc = "dealSave" PROVE Step
    <3> DEFINE r == task[w].rid
    <3>1. r \in live /\ task[w].snap = row[r] /\ task[w].snap.account
      BY <1>0, <2>3 DEF Calm, SerialInv, Careful, Present, LivePc, SavePc
    <3>2. AbsReported = {r} /\ AbsReported' = {}
      BY <1>0, <2>1, <2>3, ReportedBy
    <3>3. r \in Requests /\ r \in AbsLinked
      BY <1>0, <3>1 DEF AbsLinked
    <3>4. AbsState' = [AbsState EXCEPT ![r] = AbsState[r]] /\ AbsLinked' = AbsLinked
      BY <2>1, TableStays DEF AbsState
    <3> HIDE DEF r
    <3> QED
      BY <3>2, <3>3, <3>4, Advances DEF Step
  <2> QED
    BY <2>2, <2>3
<1>2. CASE ~Crash
  <2>1. FALSE
    BY <1>0, <1>2 DEF Calm, Environment, Age, ClearBell, CleanupScan, CleanupForms,
                      CleanupDelete, SerialInv
  <2> QED
    BY <2>1
<1> QED
  BY <1>1, <1>2

LEMMA NextAbs ==
    ASSUME CalmInv, Calm, [Next]_vars
    PROVE  [Promise!Next]_(Promise!vars)
<1>1. CASE UNCHANGED vars
  <2>1. UNCHANGED table /\ UNCHANGED task
    BY <1>1 DEF vars, table
  <2>2. UNCHANGED Abs
    BY <2>1, TableStays DEF Abs, AbsReported, At
  <2> QED
    BY <2>2, Stutters
<1>2. CASE Next
  <2>1. ASSUME NEW w \in Workers, Begin(w) PROVE Step
    BY <2>1, BeginAbs
  <2>2. ASSUME NEW w \in Workers, Continue(w) PROVE Step
    BY <2>2, PanelAbs, WizardAbs, AdminAbs, CrmAbs DEF Continue
  <2>3. Step
    BY <1>2, <2>1, <2>2, EnvironmentAbs DEF Next
  <2> QED
    BY <2>3, Stutters DEF Step
<1> QED
  BY <1>1, <1>2

LEMMA InitAbs == Init => Promise!Init
BY DEF Init, Promise!Init, At, Idle

\* With one handler at a time, no cleanup and clients that send draft statuses,
\* the handlers implement RequestStatus: a request is approved only when it was
\* received and linked, rejected only while open, moved by the CRM only while a
\* deal is being reported, and never comes back once removed.
THEOREM HandlersKeepPromise ==
    ASSUME OneAtATime, "cleanup" \notin Ops, PatchesAreDrafts
    PROVE  Spec => KeepsPromise
<1>0. Calm
  BY DEF Calm
<1>1. Init => TypeInv /\ LinkInv /\ SerialInv /\ Promise!Init
  BY InitType, InitLinked, InitSerial, InitAbs
<1>2. TypeInv /\ LinkInv /\ SerialInv /\ [Next]_vars => TypeInv' /\ LinkInv' /\ SerialInv'
  BY NextType, NextLinked, NextSerial
<1>3. TypeInv /\ LinkInv /\ SerialInv /\ [Next]_vars => [Promise!Next]_(Promise!vars)
  BY <1>0, NextAbs DEF CalmInv
<1> QED
  BY <1>1, <1>2, <1>3, PTL DEF Spec, KeepsPromise, Promise!Spec

-----------------------------------------------------------------------------
(* Submitted requests are announced, by handlers that overlap.  A request     *)
(* that is received has been told of, or a handler is about to tell; the      *)
(* wizard alone reads the row again first, and then only tells if it is       *)
(* still received.  A handler that read the row as received will save it as   *)
(* received without a word, so the same must be true of what it read.  Until  *)
(* the wizard has read again, a second handler may move the row away and a    *)
(* third bring it back: hence two handlers when the wizard is one of them.    *)

\* They make a received request without telling, or remove what is to be told.
Unannounced == {"wizCreate", "manual", "delete", "cleanup", "crash"}

FewEnough ==
    "wizUpdate" \notin Ops \/ \A u, v, w \in Workers : u = v \/ v = w \/ u = w

UnannouncedPc == {"wizCreateCharge", "wizCreateCommit", "wizCreateRefund",
                  "manualSave", "deleteCommit"}

WizardPc == {"wizUpdateCharge", "wizUpdateCommit", "wizUpdateNotify"}

\* Where a handler holds the row it has read and may save.
ReadPc == {"updateCharge", "updateCommit", "wizUpdateCharge", "wizUpdateCommit",
           "approveSync", "approveReload", "approveSave", "rejectSave",
           "dealSave", "importCommit"}

TellPc == {"createNotify", "updateNotify"}

Telling(w, r) == task[w].rid = r /\ task[w].pc \in TellPc

Told(r) == notices[r] > 0 \/ \E w \in Workers : Telling(w, r)

Asking(w, r) == task[w].rid = r /\ task[w].pc = "wizUpdateNotify"

Asked(r) == \E w \in Workers : Asking(w, r)

SeesReceived(w) ==
    task[w].pc \in ReadPc /\ task[w].snap.status = "solicitud-recibida"

QuietTask(t) ==
    /\ t.pc \notin UnannouncedPc
    /\ t.rid \in live \/ (t.rid = NoRequest /\ t.pc \notin TellPc)
    /\ t.pc \in WizardPc => "wizUpdate" \in Ops

NothingLost ==
    live = born /\ sweep.pc = "idle" /\ \A w \in Workers : QuietTask(task[w])

RowsHeard ==
    \A r \in live : row[r].status = "solicitud-recibida" => Told(r) \/ Asked(r)

ReadsHeard ==
    \A w \in Workers : SeesReceived(w) =>
        \E r \in live :
            /\ task[w].rid = r
            /\ Told(r) \/ (row[r].status = "solicitud-recibida" /\ Asked(r))

HeardInv == NothingLost /\ RowsHeard /\ ReadsHeard

-----------------------------------------------------------------------------
(* The kinds of steps *)

LEMMA Others ==
    ASSUME TypeInv, NEW w \in Workers, NEW t, Goto(w, t)
    PROVE  \A v \in Workers : task'[v] = IF v = w THEN t ELSE task[v]
BY DEF TypeInv, TasksOK, Goto

LEMMA ToldStays ==
    ASSUME TypeInv, NEW w \in Workers, NEW t, Goto(w, t), UNCHANGED notices,
           task[w].pc \notin TellPc
    PROVE  \A r : Told(r) => Told(r)'
BY Others DEF Told, Telling

LEMMA AskedStays ==
    ASSUME TypeInv, NEW w \in Workers, NEW t, Goto(w, t), task[w].pc # "wizUpdateNotify"
    PROVE  \A r : Asked(r) => Asked(r)'
BY Others DEF Asked, Asking

LEMMA IdleQuiet == QuietTask(Idle) /\ Idle.pc \notin ReadPc
BY DEF QuietTask, TellPc, Idle, UnannouncedPc, WizardPc, ReadPc

\* A step of one handler that leaves the statuses and the mail alone.
LEMMA QuietHeard ==
    ASSUME TypeInv, HeardInv, NEW w \in Workers, NEW t, Goto(w, t),
           UNCHANGED <<live, born, sweep, notices>>,
           \A r \in live : row'[r].status = row[r].status,
           task[w].pc \notin TellPc \cup {"wizUpdateNotify"},
           QuietTask(t),
           t.pc \in ReadPc /\ t.snap.status = "solicitud-recibida" =>
               \/ SeesReceived(w) /\ t.rid = task[w].rid
               \/ t.rid \in live /\ row[t.rid].status = "solicitud-recibida"
    PROVE  HeardInv'
<1>1. \A r : (Told(r) => Told(r)') /\ (Asked(r) => Asked(r)')
  BY ToldStays, AskedStays
<1>2. \A v \in Workers : task'[v] = IF v = w THEN t ELSE task[v]
  BY Others
<1>3. NothingLost'
  BY <1>2 DEF HeardInv, NothingLost, QuietTask
<1>4. RowsHeard'
  BY <1>1 DEF HeardInv, RowsHeard
<1>5. ReadsHeard'
  <2> SUFFICES ASSUME NEW v \in Workers, SeesReceived(v)'
               PROVE  \E k \in live :
                          /\ task'[v].rid = k
                          /\ Told(k) \/ (row[k].status = "solicitud-recibida" /\ Asked(k))
    BY <1>1 DEF ReadsHeard
  <2>1. CASE v # w \/ (SeesReceived(w) /\ t.rid = task[w].rid)
    <3>1. SeesReceived(v) /\ task'[v].rid = task[v].rid
      BY <1>2, <2>1 DEF SeesReceived
    <3> QED
      BY <3>1 DEF HeardInv, ReadsHeard
  <2>2. CASE v = w /\ t.rid \in live /\ row[t.rid].status = "solicitud-recibida"
    BY <1>2, <2>2 DEF HeardInv, RowsHeard
  <2> QED
    BY <1>2, <2>1, <2>2 DEF SeesReceived
<1> QED
  BY <1>3, <1>4, <1>5 DEF HeardInv

LEMMA EndHeard ==
    ASSUME TypeInv, HeardInv, NEW w \in Workers, Finish(w),
           UNCHANGED <<live, born, sweep, notices>>,
           \A r \in live : row'[r].status = row[r].status,
           task[w].pc \notin TellPc \cup {"wizUpdateNotify"}
    PROVE  HeardInv'
BY IdleQuiet, QuietHeard DEF Finish

\* A handler saves over the row it has read.  It saves a received request only
\* if it read it as received or tells of it next.
LEMMA SaveHeard ==
    ASSUME TypeInv, FewEnough, HeardInv, NEW w \in Workers, NEW t, NEW q, NEW F,
           Goto(w, t), Save(task[w].rid, q, F), UNCHANGED <<sweep, notices>>,
           task[w].pc \in ReadPc, task[w].rid \in Requests,
           QuietTask(t),
           t.pc \in ReadPc => t.rid = task[w].rid /\ t.snap = task[w].snap /\ q = t.snap,
           q.status = "solicitud-recibida" =>
               \/ SeesReceived(w)
               \/ t.pc \in TellPc \cup {"wizUpdateNotify"} /\ t.rid = task[w].rid
    PROVE  HeardInv'
<1> DEFINE r == task[w].rid
<1>0. /\ r \in live /\ live = born
      /\ task[w].pc \notin TellPc \cup {"wizUpdateNotify"}
  BY NoRequestAssumption DEF HeardInv, NothingLost, QuietTask, ReadPc, TellPc
<1>1. \A k : (Told(k) => Told(k)') /\ (Asked(k) => Asked(k)')
  BY <1>0, ToldStays, AskedStays
<1>2. \A v \in Workers : task'[v] = IF v = w THEN t ELSE task[v]
  BY Others
<1>3. /\ live' = live /\ born' = live
      /\ \A k \in live : row'[k] = IF k = r THEN q ELSE row[k]
  BY <1>0 DEF Save, TypeInv, TableOK
<1>4. NothingLost'
  BY <1>2, <1>3 DEF HeardInv, NothingLost, QuietTask
<1>5. RowsHeard'
  <2> SUFFICES ASSUME NEW k \in live, row'[k].status = "solicitud-recibida"
               PROVE  Told(k)' \/ Asked(k)'
    BY <1>3 DEF RowsHeard
  <2>1. CASE k # r
    BY <1>1, <1>3, <2>1 DEF HeardInv, RowsHeard
  <2>2. CASE k = r /\ SeesReceived(w)
    BY <1>1, <2>2 DEF HeardInv, ReadsHeard
  <2>3. CASE k = r /\ t.pc \in TellPc \cup {"wizUpdateNotify"} /\ t.rid = r
    <3>1. task'[w] = t
      BY <1>2
    <3> QED
      BY <2>3, <3>1 DEF Told, Telling, Asked, Asking
  <2> QED
    BY <1>3, <2>1, <2>2, <2>3
<1>6. ReadsHeard'
  <2> SUFFICES ASSUME NEW v \in Workers, SeesReceived(v)'
               PROVE  \E k \in live :
                          /\ task'[v].rid = k
                          /\ \/ Told(k)'
                             \/ row'[k].status = "solicitud-recibida" /\ Asked(k)'
    BY <1>3 DEF ReadsHeard
  <2>1. SeesReceived(v) /\ task'[v].rid = task[v].rid /\ (v = w => q = task[w].snap)
    BY <1>2 DEF SeesReceived
  <2>2. PICK k \in live :
          /\ task[v].rid = k
          /\ Told(k) \/ (row[k].status = "solicitud-recibida" /\ Asked(k))
    BY <2>1 DEF HeardInv, ReadsHeard
  <2>3. CASE Told(k)
    BY <1>1, <2>1, <2>2, <2>3
  <2>4. CASE row[k].status = "solicitud-recibida" /\ Asked(k) /\ (v = w \/ k # r)
    <3>1. row'[k].status = "solicitud-recibida"
      BY <1>3, <2>1, <2>2, <2>4 DEF SeesReceived
    <3> QED
      BY <1>1, <2>1, <2>2, <2>4, <3>1
  <2>5. CASE Asked(k) /\ v # w
    <3>1. PICK u \in Workers : task[u].pc = "wizUpdateNotify"
      BY <2>5 DEF Asked, Asking
    <3>2. "wizUpdate" \in Ops
      BY <3>1 DEF HeardInv, NothingLost, QuietTask, WizardPc
    <3>3. u # v /\ u # w
      BY <1>0, <2>1, <3>1 DEF SeesReceived, ReadPc
    <3> QED
      BY <2>5, <3>2, <3>3 DEF FewEnough
  <2> QED
    BY <2>2, <2>3, <2>4, <2>5
<1> QED
  BY <1>4, <1>5, <1>6 DEF HeardInv

\* A handler creates a request: as a draft, or it tells of it next.
LEMMA CreateHeard ==
    ASSUME TypeInv, HeardInv, NEW w \in Workers, NEW t, NEW q, NEW F,
           NEW r \in Requests \ born,
           Goto(w, t), Save(r, q, F), UNCHANGED <<sweep, notices>>,
           task[w].pc \notin TellPc \cup {"wizUpdateNotify"},
           t.pc \notin UnannouncedPc \cup WizardPc, t.rid \in {r, NoRequest},
           t.pc \in ReadPc => t.snap.status # "solicitud-recibida",
           t.pc \in TellPc => t.rid = r,
           q.status = "solicitud-recibida" => t.pc \in TellPc
    PROVE  HeardInv'
<1>1. \A k : (Told(k) => Told(k)') /\ (Asked(k) => Asked(k)')
  BY ToldStays, AskedStays
<1>2. \A v \in Workers : task'[v] = IF v = w THEN t ELSE task[v]
  BY Others
<1>3. /\ live' = live \cup {r} /\ born' = live' /\ r \notin live
      /\ row'[r] = q /\ \A k \in live : row'[k] = row[k]
  BY DEF Save, TypeInv, TableOK, HeardInv, NothingLost
<1>4. NothingLost'
  <2>1. QuietTask(t)'
    BY <1>3 DEF QuietTask
  <2>2. \A v \in Workers : task[v].rid \in live => task[v].rid \in live'
    BY <1>3
  <2> QED
    BY <1>2, <1>3, <2>1, <2>2 DEF HeardInv, NothingLost, QuietTask
<1>5. RowsHeard'
  <2>1. q.status = "solicitud-recibida" => Told(r)'
    <3>1. task'[w] = t
      BY <1>2
    <3> QED
      BY <3>1 DEF Told, Telling
  <2> QED
    BY <1>1, <1>3, <2>1 DEF HeardInv, RowsHeard
<1>6. ReadsHeard'
  <2>1. \A v \in Workers : SeesReceived(v)' => SeesReceived(v) /\ task'[v] = task[v]
    BY <1>2 DEF SeesReceived
  <2> QED
    BY <1>1, <1>3, <2>1 DEF HeardInv, ReadsHeard
<1> QED
  BY <1>4, <1>5, <1>6 DEF HeardInv

\* A handler tells of its request.
LEMMA TellHeard ==
    ASSUME TypeInv, HeardInv, MaxNotices > 0, NEW w \in Workers, Finish(w),
           task[w].pc \in TellPc \cup {"wizUpdateNotify"}, task[w].rid \in live,
           Announce(task[w].rid), UNCHANGED <<table, sweep>>
    PROVE  HeardInv'
<1> PICK r \in live : r = task[w].rid
  OBVIOUS
<1>1. \A v \in Workers : task'[v] = IF v = w THEN Idle ELSE task[v]
  BY Others DEF Finish
<1>2. /\ notices'[r] > 0
      /\ \A k \in Requests : notices[k] > 0 => notices'[k] > 0
  BY BoundsAssumption DEF Announce, TypeInv, TableOK, NoticesOK
<1>3. ASSUME NEW k \in live
      PROVE  (Told(k) => Told(k)') /\ (Asked(k) => Told(k)' \/ Asked(k)')
  <2>1. Told(r)'
    BY <1>2 DEF Told
  <2>2. k # r => (Told(k) => Told(k)') /\ (Asked(k) => Asked(k)')
    BY <1>1, <1>2 DEF Told, Telling, Asked, Asking, TypeInv, TableOK
  <2> QED
    BY <2>1, <2>2
<1>4. NothingLost'
  BY <1>1, IdleQuiet DEF HeardInv, NothingLost, QuietTask, table
<1>5. RowsHeard'
  BY <1>3 DEF HeardInv, RowsHeard, table
<1>6. ReadsHeard'
  <2>1. \A v \in Workers : SeesReceived(v)' => SeesReceived(v) /\ task'[v] = task[v]
    BY <1>1, IdleQuiet DEF SeesReceived
  <2> QED
    BY <1>3, <2>1 DEF HeardInv, ReadsHeard, table
<1> QED
  BY <1>4, <1>5, <1>6 DEF HeardInv

\* The wizard finds that the request is no longer received.
LEMMA SkipHeard ==
    ASSUME TypeInv, HeardInv, NEW w \in Workers, Finish(w),
           task[w].pc = "wizUpdateNotify", UNCHANGED <<table, sweep, notices>>,
           row[task[w].rid].status # "solicitud-recibida"
    PROVE  HeardInv'
<1>1. \A v \in Workers : task'[v] = IF v = w THEN Idle ELSE task[v]
  BY Others DEF Finish
<1>2. \A k : Told(k) => Told(k)'
  BY ToldStays DEF TellPc, Finish
<1>3. \A k : row[k].status = "solicitud-recibida" /\ Asked(k) => Asked(k)'
  BY <1>1 DEF Asked, Asking
<1>4. NothingLost'
  BY <1>1, IdleQuiet DEF HeardInv, NothingLost, QuietTask, table
<1>5. RowsHeard'
  BY <1>2, <1>3 DEF HeardInv, RowsHeard, table
<1>6. ReadsHeard'
  <2>1. \A v \in Workers : SeesReceived(v)' => SeesReceived(v) /\ task'[v] = task[v]
    BY <1>1, IdleQuiet DEF SeesReceived
  <2> QED
    BY <1>2, <1>3, <2>1 DEF HeardInv, ReadsHeard, table
<1> QED
  BY <1>4, <1>5, <1>6 DEF HeardInv

-----------------------------------------------------------------------------
(* Every step, by component *)

\* A handler that starts over a row has read it just now.
LEMMA LoadHeard ==
    ASSUME TypeInv, HeardInv, NEW w \in Workers, NEW t, Goto(w, t),
           UNCHANGED <<table, mail, sweep>>,
           task[w].pc \notin TellPc \cup {"wizUpdateNotify"},
           t.pc \in ReadPc, t.pc \in WizardPc => "wizUpdate" \in Ops,
           t.rid \in live, t.snap.status = row[t.rid].status
    PROVE  HeardInv'
<1>1. QuietTask(t)
  BY DEF QuietTask, TellPc, ReadPc, UnannouncedPc
<1> QED
  BY <1>1, QuietHeard DEF table, mail

LEMMA BeginHeard ==
    ASSUME TypeInv, HeardInv, Ops \cap Unannounced = {}, NEW w \in Workers, Begin(w)
    PROVE  HeardInv'
<1>0. /\ task[w].pc = "idle" /\ UNCHANGED <<table, mail, sweep>>
      /\ row \in [Requests -> Row] /\ live \subseteq Requests
  BY DEF Begin, CreateBegin, UpdateBegin, WizCreateBegin, WizUpdateBegin, ManualBegin,
         ApproveBegin, RejectBegin, DeleteBegin, DealBegin, ImportBegin, Starts,
         TypeInv, TableOK
<1>1. task[w].pc \notin TellPc \cup {"wizUpdateNotify"}
  BY <1>0 DEF TellPc
<1>2. Finish(w) => HeardInv'
  BY <1>0, <1>1, EndHeard DEF table, mail
<1>3. CASE CreateBegin(w)
  <2>1. PICK p \in Patches, partner \in BOOLEAN :
          Goto(w, [Idle EXCEPT
                     !.pc = IF p.token /\ p.amount THEN "createCharge" ELSE "createCommit",
                     !.patch = p, !.snap = PanelCreated(p, partner, NoCharge)])
    BY <1>3 DEF CreateBegin
  <2> DEFINE pc == IF p.token /\ p.amount THEN "createCharge" ELSE "createCommit"
             q == PanelCreated(p, partner, NoCharge)
             t == [Idle EXCEPT !.pc = pc, !.patch = p, !.snap = q]
  <2>2. pc \in {"createCharge", "createCommit"} /\ Goto(w, t)
    BY <2>1
  <2> HIDE DEF pc, q
  <2>3. t.pc = pc /\ t.rid = NoRequest
    BY DEF Idle
  <2> HIDE DEF t
  <2>4. QuietTask(t) /\ t.pc \notin ReadPc
    BY <2>2, <2>3 DEF QuietTask, TellPc, UnannouncedPc, WizardPc, ReadPc
  <2> QED
    BY <1>0, <1>1, <2>2, <2>4, QuietHeard DEF table, mail
<1>4. CASE UpdateBegin(w)
  <2>1. \/ Finish(w)
        \/ \E r \in live, p \in Patches, a \in BOOLEAN :
             Goto(w, [Loaded(IF PanelCharges(row[r], p) THEN "updateCharge"
                             ELSE "updateCommit", r) EXCEPT !.patch = p, !.admin = a])
    BY <1>4 DEF UpdateBegin
  <2>2. ASSUME NEW r \in live, NEW p \in Patches, NEW a \in BOOLEAN,
               Goto(w, [Loaded(IF PanelCharges(row[r], p) THEN "updateCharge"
                               ELSE "updateCommit", r) EXCEPT !.patch = p, !.admin = a])
        PROVE  HeardInv'
    <3> DEFINE pc == IF PanelCharges(row[r], p) THEN "updateCharge" ELSE "updateCommit"
               t == [Loaded(pc, r) EXCEPT !.patch = p, !.admin = a]
    <3>1. pc \in {"updateCharge", "updateCommit"} /\ Goto(w, t)
      BY <2>2
    <3> HIDE DEF pc
    <3>2. t.pc = pc /\ t.rid = r /\ t.snap = row[r]
      BY LoadedFields
    <3> HIDE DEF t
    <3>3. t.pc \in ReadPc /\ t.pc \notin WizardPc
      BY <3>1, <3>2 DEF ReadPc, WizardPc
    <3> QED
      BY <1>0, <1>1, <3>1, <3>2, <3>3, LoadHeard
  <2> QED
    BY <1>2, <2>1, <2>2
<1>5. CASE WizUpdateBegin(w)
  <2>1. /\ "wizUpdate" \in Ops
        /\ \/ Finish(w)
           \/ \E r \in live, p \in Patches :
                Goto(w, [Loaded(IF WizardCharges(row[r], p) THEN "wizUpdateCharge"
                                ELSE "wizUpdateCommit", r) EXCEPT !.patch = p])
    BY <1>5 DEF WizUpdateBegin, Starts
  <2>2. ASSUME NEW r \in live, NEW p \in Patches,
               Goto(w, [Loaded(IF WizardCharges(row[r], p) THEN "wizUpdateCharge"
                               ELSE "wizUpdateCommit", r) EXCEPT !.patch = p])
        PROVE  HeardInv'
    <3> DEFINE pc == IF WizardCharges(row[r], p) THEN "wizUpdateCharge" ELSE "wizUpdateCommit"
               t == [Loaded(pc, r) EXCEPT !.patch = p]
    <3>1. pc \in {"wizUpdateCharge", "wizUpdateCommit"} /\ Goto(w, t)
      BY <2>2
    <3> HIDE DEF pc
    <3>2. t.pc = pc /\ t.rid = r /\ t.snap = row[r]
      BY LoadedFields
    <3> HIDE DEF t
    <3>3. t.pc \in ReadPc
      BY <3>1, <3>2 DEF ReadPc
    <3> QED
      BY <1>0, <1>1, <2>1, <3>1, <3>2, <3>3, LoadHeard
  <2> QED
    BY <1>2, <2>1, <2>2
<1>6. CASE ApproveBegin(w) \/ RejectBegin(w) \/ DealBegin(w)
  <2>1. \/ Finish(w)
        \/ \E r \in live, pc \in {"approveSync", "rejectSave", "dealSave"} :
             Goto(w, Loaded(pc, r))
    BY <1>6 DEF ApproveBegin, RejectBegin, DealBegin
  <2>2. ASSUME NEW r \in live, NEW pc \in {"approveSync", "rejectSave", "dealSave"},
               Goto(w, Loaded(pc, r))
        PROVE  HeardInv'
    <3> DEFINE t == Loaded(pc, r)
    <3>1. t.pc = pc /\ t.rid = r /\ t.snap = row[r]
      BY LoadedFields
    <3>2. Goto(w, t)
      BY <2>2
    <3> HIDE DEF t
    <3>3. t.pc \in ReadPc /\ t.pc \notin WizardPc
      BY <3>1 DEF ReadPc, WizardPc
    <3> QED
      BY <1>0, <1>1, <3>1, <3>2, <3>3, LoadHeard
  <2> QED
    BY <1>2, <2>1, <2>2
<1>7. CASE ImportBegin(w)
  <2>1. \/ \E r \in live, partner \in BOOLEAN :
             Goto(w, [Loaded("importCommit", r) EXCEPT
                        !.snap.account = TRUE, !.snap.partner = @ \/ partner])
        \/ \E partner \in BOOLEAN :
             Goto(w, [Idle EXCEPT !.pc = "importCommit", !.snap = Imported(partner)])
    BY <1>7 DEF ImportBegin
  <2>2. ASSUME NEW r \in live, NEW partner \in BOOLEAN,
               Goto(w, [Loaded("importCommit", r) EXCEPT
                          !.snap.account = TRUE, !.snap.partner = @ \/ partner])
        PROVE  HeardInv'
    <3> DEFINE t == [Loaded("importCommit", r) EXCEPT
                       !.snap.account = TRUE, !.snap.partner = @ \/ partner]
    <3>1. /\ t.pc = "importCommit" /\ t.rid = r
          /\ t.snap = [row[r] EXCEPT !.account = TRUE, !.partner = @ \/ partner]
      BY DEF Loaded, Idle
    <3>2. Goto(w, t)
      BY <2>2
    <3> HIDE DEF t
    <3>3. t.snap.status = row[r].status
      BY <1>0, <3>1 DEF Row
    <3>4. t.pc \in ReadPc /\ t.pc \notin WizardPc
      BY <3>1 DEF ReadPc, WizardPc
    <3> QED
      BY <1>0, <1>1, <3>1, <3>2, <3>3, <3>4, LoadHeard
  <2>3. ASSUME NEW partner \in BOOLEAN,
               Goto(w, [Idle EXCEPT !.pc = "importCommit", !.snap = Imported(partner)])
        PROVE  HeardInv'
    <3> DEFINE t == [Idle EXCEPT !.pc = "importCommit", !.snap = Imported(partner)]
    <3>1. t.pc = "importCommit" /\ t.rid = NoRequest /\ t.snap = Imported(partner)
      BY DEF Idle
    <3>2. Goto(w, t)
      BY <2>3
    <3> HIDE DEF t
    <3>3. t.snap.status # "solicitud-recibida"
      BY <3>1 DEF Imported, BlankRow
    <3>4. QuietTask(t)
      BY <3>1 DEF QuietTask, TellPc, UnannouncedPc, WizardPc
    <3> QED
      BY <1>0, <1>1, <3>2, <3>3, <3>4, QuietHeard DEF table, mail
  <2> QED
    BY <2>1, <2>2, <2>3
<1>8. ~(WizCreateBegin(w) \/ ManualBegin(w) \/ DeleteBegin(w))
  BY DEF WizCreateBegin, ManualBegin, DeleteBegin, Starts, Unannounced
<1> QED
  BY <1>3, <1>4, <1>5, <1>6, <1>7, <1>8 DEF Begin

\* Stripe answers: the handler keeps the row it has read.
LEMMA ChargedHeard ==
    ASSUME TypeInv, HeardInv, NEW w \in Workers, NEW op, NEW pc, Charge(w, op, pc),
           UNCHANGED <<table, mail, sweep>>,
           \/ task[w].pc = "createCharge" /\ pc = "createCommit"
           \/ task[w].pc = "updateCharge" /\ pc = "updateCommit"
           \/ task[w].pc = "wizUpdateCharge" /\ pc = "wizUpdateCommit"
    PROVE  HeardInv'
<1>1. PICK c \in Charges : Goto(w, [task[w] EXCEPT !.charge = c, !.pc = pc])
  BY DEF Charge
<1> DEFINE t == [task[w] EXCEPT !.charge = c, !.pc = pc]
<1>2. task[w] \in Task /\ QuietTask(task[w])
  BY TaskFields DEF HeardInv, NothingLost
<1>3. t.pc = pc /\ t.rid = task[w].rid /\ t.snap = task[w].snap /\ Goto(w, t)
  BY <1>1, <1>2 DEF Task
<1> HIDE DEF t
<1>4. QuietTask(t) /\ task[w].pc \notin TellPc \cup {"wizUpdateNotify"}
  BY <1>2, <1>3 DEF QuietTask, TellPc, UnannouncedPc, WizardPc, TellPc
<1>5. t.pc \in ReadPc => task[w].pc \in ReadPc
  BY <1>3 DEF ReadPc
<1> QED
  BY <1>3, <1>4, <1>5, QuietHeard DEF table, mail, SeesReceived

LEMMA DeclinedHeard ==
    ASSUME TypeInv, HeardInv, NEW w \in Workers, NEW op,
           \/ Finish(w) /\ UNCHANGED money
           \/ ChargeUnanswered(w, op),
           UNCHANGED <<table, mail, sweep>>,
           task[w].pc \notin TellPc \cup {"wizUpdateNotify"}
    PROVE  HeardInv'
<1>1. Finish(w)
  BY DEF ChargeUnanswered
<1> QED
  BY <1>1, EndHeard DEF table, mail

LEMMA PanelHeard ==
    ASSUME TypeInv, FewEnough, MaxNotices > 0, HeardInv, NEW w \in Workers,
           CreateStep(w) \/ UpdateStep(w)
    PROVE  HeardInv'
<1> DEFINE t == task[w]
<1>0. /\ t \in Task /\ t.snap \in Row /\ QuietTask(t)
      /\ NoRequest \notin Requests
  BY TaskFields, NoRequestAssumption DEF HeardInv, NothingLost
<1>1. CASE CreateCharged(w) \/ UpdateCharged(w)
  BY <1>1, ChargedHeard DEF CreateCharged, UpdateCharged, At
<1>2. CASE CreateDeclined(w) \/ UpdateDeclined(w)
  <2>1. task[w].pc \notin TellPc \cup {"wizUpdateNotify"}
    BY <1>2 DEF CreateDeclined, UpdateDeclined, At, TellPc
  <2> QED
    BY <1>2, <2>1, DeclinedHeard DEF CreateDeclined, UpdateDeclined
<1>3. CASE CreateFails(w) \/ UpdateFails(w)
  BY <1>3, EndHeard DEF CreateFails, UpdateFails, At, TellPc, table, mail
<1>4. CASE CreateNotify(w) \/ UpdateNotify(w)
  <2>1. task[w].pc \in TellPc /\ Finish(w) /\ Announce(task[w].rid)
        /\ UNCHANGED <<table, sweep>>
    BY <1>4 DEF CreateNotify, UpdateNotify, At, TellPc
  <2>2. task[w].rid \in live
    BY <1>0, <2>1 DEF QuietTask
  <2> QED
    BY <2>1, <2>2, TellHeard
<1>5. CASE CreateCommit(w)
  <2> DEFINE u(r, q) == [t EXCEPT !.pc = "createNotify", !.rid = r, !.snap = q,
                                  !.charge = NoCharge]
  <2>1. PICK r, q :
          /\ r \in Requests \ born /\ Save(r, q, {r})
          /\ Goto(w, IF q.status = "solicitud-recibida" THEN u(r, q) ELSE Idle)
    BY <1>5 DEF CreateCommit
  <2>2. u(r, q).pc = "createNotify" /\ u(r, q).rid = r
    BY <1>0 DEF Task
  <2>3. /\ UNCHANGED <<sweep, notices>>
        /\ task[w].pc \notin TellPc \cup {"wizUpdateNotify"}
    BY <1>5 DEF CreateCommit, At, TellPc, mail
  <2> DEFINE s == IF q.status = "solicitud-recibida" THEN u(r, q) ELSE Idle
  <2>4. /\ s.pc \in {"createNotify", "idle"} /\ s.rid \in {r, NoRequest}
        /\ s.pc = "createNotify" => s.rid = r
        /\ q.status = "solicitud-recibida" => s.pc = "createNotify"
    <3>1. Idle.pc = "idle" /\ Idle.rid = NoRequest
      BY DEF Idle
    <3> HIDE DEF u
    <3> QED
      BY <2>2, <3>1
  <2>5. Goto(w, s)
    BY <2>1
  <2> HIDE DEF s, u
  <2> QED
    BY <2>1, <2>3, <2>4, <2>5, CreateHeard DEF UnannouncedPc, WizardPc, TellPc, ReadPc
<1>6. CASE UpdateCommit(w)
  <2> DEFINE q == PanelWritten(row[t.rid], t.snap, t.patch, t.charge)
             n == [t EXCEPT !.pc = "updateNotify", !.charge = NoCharge]
             s == IF q.status = "solicitud-recibida" /\ t.snap.status # "solicitud-recibida"
                  THEN n ELSE Idle
  <2>1. /\ t.pc = "updateCommit" /\ t.rid \in Requests
        /\ Save(t.rid, q, {t.rid}) /\ Goto(w, s) /\ UNCHANGED <<sweep, notices>>
    BY <1>6, TaskFields DEF UpdateCommit, At, RowPc, mail
  <2>2. n.pc = "updateNotify" /\ n.rid = t.rid
    BY <1>0 DEF Task
  <2> HIDE DEF q, n
  <2>3. QuietTask(n) /\ n.pc \notin ReadPc
    BY <1>0, <2>1, <2>2 DEF QuietTask, TellPc, UnannouncedPc, WizardPc, ReadPc
  <2>4. /\ QuietTask(s) /\ s.pc \notin ReadPc
        /\ q.status = "solicitud-recibida" =>
             SeesReceived(w) \/ (s.pc = "updateNotify" /\ s.rid = t.rid)
    BY <2>1, <2>2, <2>3, IdleQuiet DEF SeesReceived, ReadPc
  <2> HIDE DEF s
  <2> QED
    BY <2>1, <2>4, SaveHeard DEF ReadPc, TellPc
<1> QED
  BY <1>1, <1>2, <1>3, <1>4, <1>5, <1>6 DEF CreateStep, UpdateStep

LEMMA WizardHeard ==
    ASSUME TypeInv, FewEnough, MaxNotices > 0, HeardInv, NEW w \in Workers,
           WizUpdateStep(w)
    PROVE  HeardInv'
<1> DEFINE t == task[w]
<1>0. /\ t \in Task /\ t.snap \in Row /\ QuietTask(t)
      /\ NoRequest \notin Requests
  BY TaskFields, NoRequestAssumption DEF HeardInv, NothingLost
<1>1. CASE WizUpdateCharged(w)
  BY <1>1, ChargedHeard DEF WizUpdateCharged, At
<1>2. CASE WizUpdateDeclined(w)
  <2>1. task[w].pc \notin TellPc \cup {"wizUpdateNotify"}
    BY <1>2 DEF WizUpdateDeclined, At, TellPc
  <2> QED
    BY <1>2, <2>1, DeclinedHeard DEF WizUpdateDeclined
<1>3. CASE WizUpdateFails(w)
  BY <1>3, EndHeard DEF WizUpdateFails, At, TellPc, table, mail
<1>4. CASE WizUpdateNotify(w)
  <2>1. /\ task[w].pc = "wizUpdateNotify" /\ Finish(w) /\ UNCHANGED <<table, sweep>>
        /\ IF t.rid \in live /\ row[t.rid].status = "solicitud-recibida"
           THEN Announce(t.rid) ELSE UNCHANGED mail
    BY <1>4 DEF WizUpdateNotify, At
  <2>2. t.rid \in live
    BY <1>0, <2>1, TaskFields DEF QuietTask, RowPc
  <2>3. CASE row[t.rid].status = "solicitud-recibida"
    BY <2>1, <2>2, <2>3, TellHeard
  <2>4. CASE row[t.rid].status # "solicitud-recibida"
    BY <2>1, <2>2, <2>4, SkipHeard DEF mail
  <2> QED
    BY <2>3, <2>4
<1>5. CASE WizUpdateCommit(w)
  <2> DEFINE q == WizardPatched(t.snap, t.patch, t.charge)
             n == [t EXCEPT !.pc = "wizUpdateNotify", !.charge = NoCharge]
             s == IF t.snap.status # "solicitud-recibida" THEN n ELSE Idle
  <2>1. /\ t.pc = "wizUpdateCommit" /\ t.rid \in Requests
        /\ Save(t.rid, q, {t.rid}) /\ Goto(w, s) /\ UNCHANGED <<sweep, notices>>
    BY <1>5, TaskFields DEF WizUpdateCommit, At, RowPc, mail
  <2>2. n.pc = "wizUpdateNotify" /\ n.rid = t.rid
    BY <1>0 DEF Task
  <2> HIDE DEF q, n
  <2>3. QuietTask(n) /\ n.pc \notin ReadPc
    BY <1>0, <2>1, <2>2 DEF QuietTask, TellPc, UnannouncedPc, WizardPc, ReadPc
  <2>4. /\ QuietTask(s) /\ s.pc \notin ReadPc
        /\ SeesReceived(w) \/ (s.pc = "wizUpdateNotify" /\ s.rid = t.rid)
    BY <2>1, <2>2, <2>3, IdleQuiet DEF SeesReceived, ReadPc
  <2> HIDE DEF s
  <2> QED
    BY <2>1, <2>4, SaveHeard DEF ReadPc, TellPc
<1> QED
  BY <1>1, <1>2, <1>3, <1>4, <1>5 DEF WizUpdateStep

LEMMA AdminHeard ==
    ASSUME TypeInv, FewEnough, HeardInv, NEW w \in Workers, AdminStep(w)
    PROVE  HeardInv'
<1> DEFINE t == task[w]
<1>0. /\ t \in Task /\ t.snap \in Row /\ QuietTask(t)
      /\ row \in [Requests -> Row] /\ live \subseteq Requests
  BY TaskFields DEF HeardInv, NothingLost, TypeInv, TableOK
<1>1. ~ManualSave(w) /\ ~DeleteCommit(w)
  BY <1>0 DEF QuietTask, TellPc, UnannouncedPc, ManualSave, DeleteCommit, At
<1>2. CASE ApproveSync(w)
  <2>1. /\ t.pc = "approveSync" /\ UNCHANGED <<live, born, sweep, notices>>
        /\ \A k \in live : row'[k].status = row[k].status
    BY <1>0, <1>2 DEF ApproveSync, At, mail, Row
  <2>2. t.pc \notin TellPc \cup {"wizUpdateNotify"}
    BY <2>1 DEF TellPc
  <2>3. CASE Goto(w, [t EXCEPT !.pc = "approveReload"])
    <3> DEFINE s == [t EXCEPT !.pc = "approveReload"]
    <3>1. s.pc = "approveReload" /\ s.rid = t.rid /\ s.snap = t.snap /\ Goto(w, s)
      BY <1>0, <2>3 DEF Task
    <3> HIDE DEF s
    <3>2. QuietTask(s)
      BY <1>0, <3>1 DEF QuietTask, TellPc, UnannouncedPc, WizardPc
    <3>3. s.snap.status = "solicitud-recibida" => SeesReceived(w)
      BY <2>1, <3>1 DEF SeesReceived, ReadPc
    <3> QED
      BY <2>1, <2>2, <3>1, <3>2, <3>3, QuietHeard
  <2> QED
    BY <1>2, <2>1, <2>2, <2>3, EndHeard DEF ApproveSync
<1>3. CASE ApproveSyncFails(w) \/ ApproveFails(w)
  BY <1>3, EndHeard DEF ApproveSyncFails, ApproveFails, At, TellPc, table, mail
<1>4. CASE ApproveReload(w)
  <2>1. /\ UNCHANGED <<table, mail, sweep>> /\ t.pc \notin TellPc \cup {"wizUpdateNotify"}
        /\ Finish(w) \/ (t.rid \in live /\ Goto(w, Loaded("approveSave", t.rid)))
    BY <1>4 DEF ApproveReload, At, TellPc
  <2>2. CASE t.rid \in live /\ Goto(w, Loaded("approveSave", t.rid))
    <3> DEFINE s == Loaded("approveSave", t.rid)
    <3>1. s.pc = "approveSave" /\ s.rid = t.rid /\ s.snap = row[t.rid]
      BY LoadedFields
    <3>2. Goto(w, s)
      BY <2>2
    <3> HIDE DEF s
    <3>3. s.pc \in ReadPc /\ s.pc \notin WizardPc
      BY <3>1 DEF ReadPc, WizardPc
    <3> QED
      BY <2>1, <2>2, <3>1, <3>2, <3>3, LoadHeard
  <2> QED
    BY <2>1, <2>2, EndHeard DEF table, mail
<1>5. CASE ApproveSave(w) \/ RejectSave(w)
  <2>1. /\ t.pc \in {"approveSave", "rejectSave"} /\ t.rid \in Requests
        /\ Goto(w, Idle) /\ UNCHANGED <<sweep, notices>>
    BY <1>5, TaskFields DEF ApproveSave, RejectSave, At, RowPc, Finish, mail
  <2>2. PICK q : Save(t.rid, q, {}) /\ q.status # "solicitud-recibida"
    <3>1. /\ Approved(t.snap).status = "en-proceso"
          /\ Rejected(t.snap).status = "rechazada"
      BY <1>0 DEF Approved, Rejected, Row
    <3> QED
      BY <1>5, <3>1 DEF ApproveSave, RejectSave
  <2> QED
    BY <2>1, <2>2, IdleQuiet, SaveHeard DEF ReadPc
<1> QED
  BY <1>1, <1>2, <1>3, <1>4, <1>5 DEF AdminStep

LEMMA CrmHeard ==
    ASSUME TypeInv, FewEnough, HeardInv, NEW w \in Workers, CrmStep(w)
    PROVE  HeardInv'
<1> DEFINE t == task[w]
<1>0. /\ t \in Task /\ t.snap \in Row /\ QuietTask(t) /\ live = born
      /\ NoRequest \notin Requests
  BY TaskFields, NoRequestAssumption DEF HeardInv, NothingLost
<1>1. CASE DealSave(w)
  <2>1. /\ t.pc = "dealSave" /\ t.rid \in Requests
        /\ Finish(w) /\ UNCHANGED <<sweep, notices>>
    BY <1>1, TaskFields DEF DealSave, At, RowPc, mail
  <2>2. CASE UNCHANGED table
    BY <2>1, <2>2, EndHeard DEF table, TellPc
  <2>3. CASE \E s \in DealStatus \cup {t.snap.status} :
               Save(t.rid, [t.snap EXCEPT !.status = s], {})
    <3>1. PICK q : /\ Save(t.rid, q, {})
                   /\ q.status = "solicitud-recibida" => t.snap.status = "solicitud-recibida"
      <4>1. PICK s \in DealStatus \cup {t.snap.status} :
              Save(t.rid, [t.snap EXCEPT !.status = s], {})
        BY <2>3
      <4>2. [t.snap EXCEPT !.status = s].status = s
        BY <1>0 DEF Row
      <4>3. s = "solicitud-recibida" => t.snap.status = "solicitud-recibida"
        BY <4>1 DEF DealStatus
      <4> QED
        BY <4>1, <4>2, <4>3
    <3>2. q.status = "solicitud-recibida" => SeesReceived(w)
      BY <2>1, <3>1 DEF SeesReceived, ReadPc
    <3> QED
      BY <2>1, <3>1, <3>2, IdleQuiet, SaveHeard DEF ReadPc, Finish
  <2> QED
    BY <1>1, <2>2, <2>3 DEF DealSave
<1>2. CASE ImportCommit(w)
  <2>1. t.pc = "importCommit" /\ UNCHANGED <<sweep, notices>>
    BY <1>2 DEF ImportCommit, At, mail
  <2>2. PICK k \in IF t.rid = NoRequest THEN Requests \ born ELSE {t.rid} :
          Save(k, t.snap, {k}) /\ Goto(w, [t EXCEPT !.pc = "dealSave", !.rid = k])
    BY <1>2 DEF ImportCommit
  <2> DEFINE s == [t EXCEPT !.pc = "dealSave", !.rid = k]
  <2>3. s.pc = "dealSave" /\ s.rid = k /\ s.snap = t.snap /\ Goto(w, s)
    BY <1>0, <2>2 DEF Task
  <2> HIDE DEF s
  <2>4. t.snap.status = "solicitud-recibida" => SeesReceived(w)
    BY <2>1 DEF SeesReceived, ReadPc
  <2>5. CASE t.rid = NoRequest
    <3>1. k \in Requests \ born
      BY <2>2, <2>5
    <3>2. t.snap.status # "solicitud-recibida"
      <4>1. NoRequest \notin live
        BY <1>0 DEF TypeInv, TableOK
      <4> QED
        BY <2>4, <2>5, <4>1 DEF HeardInv, ReadsHeard
    <3>3. t.pc \notin TellPc \cup {"wizUpdateNotify"}
      BY <2>1 DEF TellPc
    <3> QED
      BY <2>1, <2>2, <2>3, <3>1, <3>2, <3>3, CreateHeard DEF UnannouncedPc, WizardPc
  <2>6. CASE t.rid # NoRequest
    <3>1. k = t.rid /\ t.rid \in live /\ t.rid \in Requests
      BY <1>0, <2>2, <2>6 DEF QuietTask, TypeInv, TableOK
    <3>2. QuietTask(s)
      BY <2>3, <3>1 DEF QuietTask, TellPc, UnannouncedPc, WizardPc
    <3> QED
      BY <2>1, <2>2, <2>3, <2>4, <3>1, <3>2, SaveHeard DEF ReadPc
  <2> QED
    BY <2>5, <2>6
<1>3. CASE ImportFails(w)
  BY <1>3, EndHeard DEF ImportFails, At, TellPc, table, mail
<1> QED
  BY <1>1, <1>2, <1>3 DEF CrmStep

LEMMA InitHeard == Init => HeardInv
<1> SUFFICES ASSUME Init PROVE HeardInv
  OBVIOUS
<1>1. \A w \in Workers : task[w] = Idle
  BY DEF Init
<1> QED
  BY <1>1, IdleQuiet DEF Init, HeardInv, NothingLost, RowsHeard, ReadsHeard, SeesReceived

LEMMA NextHeard ==
    ASSUME TypeInv, FewEnough, MaxNotices > 0, Ops \cap Unannounced = {},
           HeardInv, [Next]_vars
    PROVE  HeardInv'
<1>1. CASE UNCHANGED vars
  BY <1>1 DEF vars, HeardInv, NothingLost, QuietTask, RowsHeard, ReadsHeard,
              SeesReceived, Told, Telling, Asked, Asking
<1>2. ASSUME NEW w \in Workers, Continue(w) PROVE HeardInv'
  <2>1. ~WizCreateStep(w)
    BY DEF HeardInv, NothingLost, QuietTask, UnannouncedPc, WizCreateStep, At,
           WizCreateCharged, WizCreateDeclined, WizCreateCommit, WizCreateFails,
           WizCreateRefund
  <2> QED
    BY <1>2, <2>1, PanelHeard, WizardHeard, AdminHeard, CrmHeard DEF Continue
<1>3. ~(CleanupScan \/ CleanupForms \/ CleanupDelete \/ Environment)
  BY DEF Unannounced, HeardInv, NothingLost, CleanupScan, CleanupForms, CleanupDelete,
         Environment, Crash, Age, ClearBell
<1> QED
  BY <1>1, <1>2, <1>3, BeginHeard DEF Next

\* However edits, approvals, rejections and CRM imports overlap, a request that
\* is received has been told of or is about to be: for any number of handlers
\* without the wizard's, for two with it.
THEOREM ReceivedIsAnnouncedAlways ==
    ASSUME FewEnough, MaxNotices > 0, Ops \cap Unannounced = {}
    PROVE  Spec => []ReceivedIsAnnounced
<1>1. Init => HeardInv
  BY InitHeard
<1>2. TypeInv /\ HeardInv /\ [Next]_vars => HeardInv'
  BY NextHeard
<1>3. HeardInv => ReceivedIsAnnounced
  BY DEF HeardInv, RowsHeard, ReceivedIsAnnounced, Announcing, Told, Telling, TellPc,
         Asked, Asking
<1> QED
  BY <1>1, <1>2, <1>3, SpecTypeInv, PTL DEF Spec

=============================================================================
