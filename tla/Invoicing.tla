------------------------------- MODULE Invoicing -------------------------------
(***************************************************************************)
(* InvoicingService: the invoices a panel client issues, their lines and   *)
(* the payments registered on them.                                        *)
(*                                                                         *)
(* Handlers are asynchronous invocations.  Only create and update          *)
(* use a transaction; every other handler is a series of statements that   *)
(* commit on their own, with the entity it read kept in job[w].snap.       *)
(* There are no foreign keys between the tables.                           *)
(*                                                                         *)
(* Amounts are cents, so that the tolerance eps of the code is equality,   *)
(* and tax rates ten-thousandths, which is what the column holds.  The     *)
(* lines one call writes are one record that carries their sum, or none.   *)
(* The rejection of lines without a description and of payments that are   *)
(* not positive changes nothing and is left out.                           *)
(***************************************************************************)
EXTENDS Integers, FiniteSets, FiniteSetsExt

CONSTANTS
    Handlers,    \* concurrent handler invocations
    Invoices,    \* primary keys of one owner's invoices
    NoInvoice,   \* the key of an idle handler
    Modes,       \* "serial": one handler at a time; "overlap": several may run
    Ops,         \* Ops[mode]: the handlers it exercises
    Amounts,     \* amounts of payments
    Subtotals,   \* what the lines of a body add up to
    Rates,       \* tax rates of a body
    Bare,        \* modes in which a body may carry an empty list of lines
    BodyStatus,  \* BodyStatus[mode]: statuses in a body; "none" when there is none
    MaxCalls     \* bound: handler invocations

AllOps == {"create", "update", "pay", "editPay", "removePay", "send", "void", "delete"}

Status == {"draft", "sent", "partial", "paid", "overdue", "void"}

ASSUME OpsAssumption ==
    Modes \subseteq {"serial", "overlap"} /\ Ops \in [Modes -> SUBSET AllOps]
ASSUME AmountsAssumption ==
    Amounts \subseteq Nat \ {0} /\ Subtotals \subseteq Int /\ Rates \subseteq Int
ASSUME BareAssumption == Bare \subseteq Modes
ASSUME BodyStatusAssumption ==
    BodyStatus \in [Modes -> SUBSET (Status \cup {"none"})]
ASSUME NoInvoiceAssumption == NoInvoice \notin Invoices
ASSUME MaxCallsAssumption == MaxCalls \in Nat

VARIABLES
    mode,
    live,    \* keys that have a row
    issued,  \* keys the sequence has given out
    inv,     \* the row of each key (Blank when it has none)
    lines,   \* invoice_items of each key
    pays,    \* invoice_payments of each key
    job,     \* the state of each handler
    started

invoicingVars == <<mode, live, issued, inv, lines, pays, job, started>>

Invoice == [status: Status, rate: Int, total: Int, paid: Int, sentAt: BOOLEAN, number: Nat]

Blank == [status |-> "draft", rate |-> 0, total |-> 0, paid |-> 0, sentAt |-> FALSE,
          number |-> 0]

\* A row of invoice_items or invoice_payments: the call that inserted it, which
\* identifies it, and its amount.
Entry == [by: 1..MaxCalls, amount: Int]

SumOf(E) == MapThenSumSet(LAMBDA e : e.amount, E)

\* computeTotals: the tax, rounded to a cent, on top of the lines.
Taxed(rate, subtotal) == subtotal + (subtotal * rate + 5000) \div 10000
Due(rate, E) == Taxed(rate, SumOf(E))

Pc == {"idle", "createCommit", "updateNotes", "updateDelete", "updateSave",
       "payInsert", "paySave", "payDelete", "recomputeInv", "recomputePays",
       "recomputeSave", "sendSave", "voidSave", "deleteLines", "deletePays",
       "deleteRow"}

Job == [pc: Pc, id: Invoices \cup {NoInvoice}, snap: Invoice, items: SUBSET Entry,
        call: 0..MaxCalls, entry: SUBSET Entry]

NoJob == [pc |-> "idle", id |-> NoInvoice, snap |-> Blank, items |-> {},
          call |-> 0, entry |-> {}]

InvoicingTypeOK ==
    /\ mode \in Modes
    /\ live \subseteq issued /\ issued \subseteq Invoices
    /\ inv \in [Invoices -> Invoice]
    /\ lines \in [Invoices -> SUBSET Entry]
    /\ pays \in [Invoices -> SUBSET Entry]
    /\ job \in [Handlers -> Job]
    /\ started \in 0..MaxCalls

InvoicingInit ==
    /\ mode \in Modes
    /\ live = {} /\ issued = {}
    /\ inv = [i \in Invoices |-> Blank]
    /\ lines = [i \in Invoices |-> {}]
    /\ pays = [i \in Invoices |-> {}]
    /\ job = [w \in Handlers |-> NoJob]
    /\ started = 0

-----------------------------------------------------------------------------
(* Building blocks *)

\* A handler invocation of kind op starts.
Starts(w, op) ==
    /\ op \in Ops[mode]
    /\ job[w].pc = "idle"
    /\ mode = "serial" => \A v \in Handlers : job[v].pc = "idle"
    /\ started < MaxCalls
    /\ started' = started + 1

At(w, pc) == job[w].pc = pc

Becomes(w, t) == job' = [job EXCEPT ![w] = t]

Reaches(w, pc) == Becomes(w, [job[w] EXCEPT !.pc = pc])

Finish(w) == Becomes(w, NoJob)

table == <<live, issued, inv>>

\* assertInvoiceOwner: the row with its items.
Loaded(pc, i) ==
    [NoJob EXCEPT !.pc = pc, !.id = i, !.snap = inv[i], !.items = lines[i], !.call = started + 1]

\* save(inv): the whole row as the handler has it; INSERTs a row that is gone.
Save(i, q) ==
    /\ inv' = [inv EXCEPT ![i] = q]
    /\ live' = live \cup {i}
    /\ UNCHANGED issued

\* Deliberately wrong: the items are not saved with the row.
SaveRowOnly(i, q, items) == Save(i, q) /\ UNCHANGED lines

\* save of an entity loaded with its items, which cascade: lines deleted since
\* are inserted again; lines added since would have invoice_id set to NULL,
\* which the column refuses, and the save fails.
SaveWithItems(i, q, items) ==
    IF lines[i] \subseteq items
    THEN Save(i, q) /\ lines' = [lines EXCEPT ![i] = items]
    ELSE UNCHANGED <<table, lines>>

NextNumber == Cardinality(live) + 1

-----------------------------------------------------------------------------
(* createForUser *)

\* The rows this call writes for lines that add up to a; the lists of a body.
ListOf(a) == {[by |-> started + 1, amount |-> a]}
BodyLines == {ListOf(a) : a \in Subtotals} \cup (IF mode \in Bare THEN {{}} ELSE {})

\* The number is counted before the transaction starts.
CreateBegin(w) ==
    /\ Starts(w, "create")
    /\ \E s \in BodyStatus[mode], r \in Rates, E \in BodyLines :
          Becomes(w, [NoJob EXCEPT
                        !.pc = "createCommit", !.call = started + 1,
                        !.snap = [Blank EXCEPT !.status = IF s = "none" THEN "sent" ELSE s,
                                               !.rate = r, !.total = Due(r, E),
                                               !.number = NextNumber],
                        !.items = E])
    /\ UNCHANGED <<table, lines, pays>>

CreateCommit(w) ==
    /\ At(w, "createCommit")
    /\ \E i \in Invoices \ issued :
          /\ inv' = [inv EXCEPT ![i] = job[w].snap]
          /\ lines' = [lines EXCEPT ![i] = job[w].items]
          /\ live' = live \cup {i}
          /\ issued' = issued \cup {i}
    /\ Finish(w)
    /\ UNCHANGED <<pays, started>>

-----------------------------------------------------------------------------
(* updateForUser *)

\* Deliberately wrong: a paid invoice may be edited like any other.
FrozenWhenVoid(q) == q.status = "void"

Frozen(q) == q.status \in {"paid", "void"}

\* Without items in the body the lines that were read are written again.
Rewritten(i) == IF lines[i] = {} THEN {} ELSE ListOf(SumOf(lines[i]))

UpdateBegin(w) ==
    /\ Starts(w, "update")
    /\ \E i \in live :
          \/ Frozen(inv[i]) /\ Becomes(w, Loaded("updateNotes", i))
          \/ /\ ~Frozen(inv[i])
             /\ \E s \in BodyStatus[mode], r \in Rates \cup {inv[i].rate},
                   E \in BodyLines \cup {Rewritten(i)} :
                   Becomes(w, [Loaded("updateDelete", i) EXCEPT
                                 !.snap.status = IF s = "none" THEN @ ELSE s,
                                 !.snap.rate = r, !.snap.total = Due(r, E), !.entry = E])
    /\ UNCHANGED <<table, lines, pays>>

UpdateNotes(w) ==
    /\ At(w, "updateNotes")
    /\ SaveWithItems(job[w].id, job[w].snap, job[w].items)
    /\ Finish(w)
    /\ UNCHANGED <<pays, started>>

\* The DELETE of the lines: what it sees is what it deletes when the
\* transaction commits.
UpdateDelete(w) ==
    /\ At(w, "updateDelete")
    /\ Becomes(w, [job[w] EXCEPT !.pc = "updateSave", !.items = lines[job[w].id]])
    /\ UNCHANGED <<table, lines, pays, started>>

\* save(inv) with no items, then the new lines, then COMMIT.  Lines another
\* update committed after the DELETE saw the table make the save fail, unless
\* the DELETE found none to wait for and the save looked before they came.
UpdateSave(w) ==
    /\ At(w, "updateSave")
    /\ LET i == job[w].id
           others == lines[i] \ job[w].items
       IN  \/ /\ others = {} \/ job[w].items = {}
              /\ Save(i, job[w].snap)
              /\ lines' = [lines EXCEPT ![i] = others \cup job[w].entry]
           \/ others # {} /\ UNCHANGED <<table, lines>>
    /\ Finish(w)
    /\ UNCHANGED <<pays, started>>

-----------------------------------------------------------------------------
(* recomputePaymentStatus, which every change of the payments ends with *)

Recomputed(q, paid) ==
    [q EXCEPT
        !.paid = paid,
        !.status = IF paid = 0
                   THEN IF @ = "void" \/ (@ = "draft" /\ ~q.sentAt) THEN @ ELSE "sent"
                   ELSE IF paid >= q.total THEN "paid" ELSE "partial"]

RecomputeInv(w) ==
    /\ At(w, "recomputeInv")
    /\ IF job[w].id \in live
       THEN Becomes(w, [job[w] EXCEPT !.pc = "recomputePays", !.snap = inv[job[w].id]])
       ELSE Finish(w)
    /\ UNCHANGED <<table, lines, pays, started>>

RecomputePays(w) ==
    /\ At(w, "recomputePays")
    /\ Becomes(w, [job[w] EXCEPT !.pc = "recomputeSave",
                                 !.snap = Recomputed(@, SumOf(pays[job[w].id]))])
    /\ UNCHANGED <<table, lines, pays, started>>

RecomputeSave(w) ==
    /\ At(w, "recomputeSave")
    /\ Save(job[w].id, job[w].snap)
    /\ Finish(w)
    /\ UNCHANGED <<lines, pays, started>>

-----------------------------------------------------------------------------
(* addPartialPayment, updatePayment, deletePayment *)

\* The status of the invoice is not looked at.
AddBegin(w) ==
    /\ Starts(w, "pay")
    /\ \E i \in live, a \in Amounts :
          Becomes(w, [Loaded("payInsert", i) EXCEPT !.entry = {[by |-> started + 1, amount |-> a]}])
    /\ UNCHANGED <<table, lines, pays>>

PayInsert(w) ==
    /\ At(w, "payInsert")
    /\ pays' = [pays EXCEPT ![job[w].id] = @ \cup job[w].entry]
    /\ Reaches(w, "recomputeInv")
    /\ UNCHANGED <<table, lines, started>>

UpdatePayBegin(w) ==
    /\ Starts(w, "editPay")
    /\ \E i \in live : \E p \in pays[i], a \in Amounts :
          Becomes(w, [Loaded("paySave", i) EXCEPT !.entry = {[p EXCEPT !.amount = a]}])
    /\ UNCHANGED <<table, lines, pays>>

PaySave(w) ==
    /\ At(w, "paySave")
    /\ pays' = [pays EXCEPT ![job[w].id] =
                   {p \in @ : \A q \in job[w].entry : q.by # p.by} \cup job[w].entry]
    /\ Reaches(w, "recomputeInv")
    /\ UNCHANGED <<table, lines, started>>

DeletePayBegin(w) ==
    /\ Starts(w, "removePay")
    /\ \E i \in live : \E p \in pays[i] :
          Becomes(w, [Loaded("payDelete", i) EXCEPT !.entry = {p}])
    /\ UNCHANGED <<table, lines, pays>>

\* Deliberately wrong: the payment goes and the invoice is not recomputed.
PayDeleteOnly(w) ==
    /\ At(w, "payDelete")
    /\ pays' = [pays EXCEPT ![job[w].id] =
                   {p \in @ : \A q \in job[w].entry : q.by # p.by}]
    /\ Finish(w)
    /\ UNCHANGED <<table, lines, started>>

\* With no row affected the handler answers "Pago no encontrado".
PayDelete(w) ==
    /\ At(w, "payDelete")
    /\ LET i == job[w].id
           left == {p \in pays[i] : \A q \in job[w].entry : q.by # p.by}
       IN  /\ pays' = [pays EXCEPT ![i] = left]
           /\ IF left = pays[i] THEN Finish(w) ELSE Reaches(w, "recomputeInv")
    /\ UNCHANGED <<table, lines, started>>

-----------------------------------------------------------------------------
(* markAsSent, voidInvoice *)

\* The PDF is built and mailed with the invoice as it was read.
SendBegin(w) ==
    /\ Starts(w, "send")
    /\ \E i \in live : Becomes(w, Loaded("sendSave", i))
    /\ UNCHANGED <<table, lines, pays>>

\* The mail went out, or it did not and nothing is recorded.
SendSave(w) ==
    /\ At(w, "sendSave")
    /\ \/ SaveWithItems(job[w].id, [job[w].snap EXCEPT !.sentAt = TRUE], job[w].items)
       \/ UNCHANGED <<table, lines>>
    /\ Finish(w)
    /\ UNCHANGED <<pays, started>>

Voidable(q) == q.status \notin {"void", "paid"} /\ q.paid = 0

VoidBegin(w) ==
    /\ Starts(w, "void")
    /\ \E i \in live : Voidable(inv[i]) /\ Becomes(w, Loaded("voidSave", i))
    /\ UNCHANGED <<table, lines, pays>>

VoidSave(w) ==
    /\ At(w, "voidSave")
    /\ SaveWithItems(job[w].id, [job[w].snap EXCEPT !.status = "void"], job[w].items)
    /\ Finish(w)
    /\ UNCHANGED <<pays, started>>

-----------------------------------------------------------------------------
(* deleteInvoice: items, payments, events, invoice, one statement each *)

Deletable(q) == q.status = "draft" \/ (q.status = "sent" /\ q.paid = 0)

DeleteBegin(w) ==
    /\ Starts(w, "delete")
    /\ \E i \in live : Deletable(inv[i]) /\ Becomes(w, Loaded("deleteLines", i))
    /\ UNCHANGED <<table, lines, pays>>

\* Deliberately wrong: the lines are left to a cascade the table does not have.
DeleteLinesForgotten(w) ==
    /\ At(w, "deleteLines")
    /\ Reaches(w, "deletePays")
    /\ UNCHANGED <<table, lines, pays, started>>

DeleteLines(w) ==
    /\ At(w, "deleteLines")
    /\ lines' = [lines EXCEPT ![job[w].id] = {}]
    /\ Reaches(w, "deletePays")
    /\ UNCHANGED <<table, pays, started>>

DeletePays(w) ==
    /\ At(w, "deletePays")
    /\ pays' = [pays EXCEPT ![job[w].id] = {}]
    /\ Reaches(w, "deleteRow")
    /\ UNCHANGED <<table, lines, started>>

DeleteRow(w) ==
    /\ At(w, "deleteRow")
    /\ live' = live \ {job[w].id}
    /\ inv' = [inv EXCEPT ![job[w].id] = Blank]
    /\ Finish(w)
    /\ UNCHANGED <<issued, lines, pays, started>>

-----------------------------------------------------------------------------
Begin(w) ==
    \/ CreateBegin(w) \/ UpdateBegin(w) \/ AddBegin(w) \/ UpdatePayBegin(w)
    \/ DeletePayBegin(w) \/ SendBegin(w) \/ VoidBegin(w) \/ DeleteBegin(w)

Continue(w) ==
    \/ CreateCommit(w) \/ UpdateNotes(w) \/ UpdateDelete(w) \/ UpdateSave(w)
    \/ RecomputeInv(w) \/ RecomputePays(w) \/ RecomputeSave(w)
    \/ PayInsert(w) \/ PaySave(w) \/ PayDelete(w)
    \/ SendSave(w) \/ VoidSave(w)
    \/ DeleteLines(w) \/ DeletePays(w) \/ DeleteRow(w)

InvoicingNext == (\E w \in Handlers : Begin(w) \/ Continue(w)) /\ UNCHANGED mode

InvoicingSpec == InvoicingInit /\ [][InvoicingNext]_invoicingVars

-----------------------------------------------------------------------------
(* Safety.  No handler is working on a quiet invoice.  Overlapping handlers *)
(* may leave paid_amount or a payment behind (each saves the row it read):  *)
(* those invariants are about handlers that run one at a time.              *)

Quiet(i) == \A w \in Handlers : job[w].id # i
Undisturbed(i) == mode = "serial" /\ Quiet(i)

\* paid_amount is the sum of the payments, whatever mix of payments, edits,
\* mails and cancellations led there (recomputePaymentStatus; updateForUser,
\* markAsSent and voidInvoice save the whole row and must not disturb it).
PaidIsSum == \A i \in live : Undisturbed(i) => inv[i].paid = SumOf(pays[i])

\* total_amount is what the lines the invoice shows add up to, with the tax of its
\* rate: updateForUser replaces all three, and the cascade of save must not bring
\* old lines back.  One handler at a time the lists may be empty; where handlers
\* overlap every body is assumed to bring lines (Itemised), because two edits of an
\* invoice without any find nothing to delete or wait for, and both add theirs.
TotalIsSum == \A i \in live : Quiet(i) => inv[i].total = Due(inv[i].rate, lines[i])

\* An invoice marked as paid has been paid in full: neither an edit of its
\* lines nor the removal of a payment leaves it so.  Clients are assumed to
\* send no payment status in a body.
PaidIsCovered ==
    \A i \in live :
        Undisturbed(i) /\ inv[i].status = "paid" => SumOf(pays[i]) >= inv[i].total

\* deleteInvoice leaves neither lines nor payments behind.
NothingLeftBehind ==
    \A i \in Invoices \ live : Undisturbed(i) => lines[i] = {} /\ pays[i] = {}

-----------------------------------------------------------------------------
(* What the theorems ask of the constants *)

\* Handlers that overlap save an invoice with its lines; payments and deletions run
\* one at a time.
WholeSaves ==
    \A m \in Modes \ {"serial"} : Ops[m] \subseteq {"create", "update", "send", "void"}

\* Bodies of handlers that overlap bring lines.
Itemised == Bare \subseteq {"serial"}

\* No body carries the status "paid", which is left to recomputePaymentStatus.
HonestBodies == "serial" \in Modes => "paid" \notin BodyStatus["serial"]
=============================================================================
