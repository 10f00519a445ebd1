------------------------------- MODULE BankSync -------------------------------
(***************************************************************************)
(* How the movements of one bank account of one client reach               *)
(* bank_transactions: PlaidService (connections, their sync cursor, the    *)
(* webhooks, the daily cron) and the two imports of AccountingService      *)
(* (Plaid and CSV), which insert row by row outside any transaction.       *)
(*                                                                         *)
(* The bank posts movements in an order; Plaid hands them out by cursor.   *)
(* A client that disconnects and connects again gets a new Plaid item,     *)
(* which hands out the same movements under new transaction ids: so a      *)
(* Plaid fingerprint is the pair of item and movement.                     *)
(*                                                                         *)
(* A statement and Plaid may describe a movement differently: each source  *)
(* has its own figure (date and absolute amount) and payee key for it.     *)
(*                                                                         *)
(* A handler keeps the item it read and saves all of it: task[w].here      *)
(* overwrites the row, the cursor included.                                *)
(***************************************************************************)
EXTENDS Naturals, Sequences

CONSTANTS
    Workers,    \* concurrent handler invocations, the daily job among them
    Items,      \* Plaid items the client may come to have
    Movements,  \* movements the bank may post
    Line,       \* Line[m]: date, description and amount, which the CSV hash covers
    Look,       \* Look[via][m]: what a source says of it, compared across sources
    Stamps,     \* what else may tell two bodies of a webhook apart
    Ops,        \* the handlers and events a model exercises
    MaxCalls    \* bound: handler invocations, crashes and acts of the bank

AllOps == {"exchange", "sync", "disconnect", "webhook", "cron", "csv",
           "login", "fail", "crash"}

\* The two sources; NoPayee is a payee key too short to be compared.
Csv == "csv"
Feed == "feed"
NoPayee == ""

ASSUME OpsAssumption == Ops \subseteq AllOps
ASSUME ItemsAssumption == Items # {}
ASSUME CsvAssumption == Csv \notin Items
ASSUME BoundAssumption == MaxCalls \in Nat

\* A row of plaid_items; 'none' where there is no row.
Status == {"none", "active", "error", "login_required", "revoked"}
Item == [status: Status, cursor: Nat]
NoItem == [status |-> "none", cursor |-> 0]

\* The entity a handler holds.
Entity == [id: Items, row: Item]

\* A row of bank_transactions: its source and what it records.
Row == [by: Items \cup {Csv}, mov: Movements]

\* A webhook body; its digest is the key of plaid_webhook_events.
Body == [item: Items, code: {"updates", "login"}, stamp: Stamps]

Pc == {"idle", "find", "store", "ask", "check", "insert", "remove", "mark",
       "look", "next"}

\* here: the entity at hand; left: the items the cron has still to sync;
\* todo: rows still to import; upto: the cursor Plaid gave.
Task == [pc: Pc, op: AllOps \cup {"none", "updates"}, here: Entity,
         left: SUBSET Entity, todo: Seq(Movements), upto: Nat]

VARIABLES
    item,   \* plaid_items
    plaid,  \* what each item is at Plaid
    bank,   \* the movements posted, in order
    rows,   \* bank_transactions of the account
    sent,   \* webhook bodies Plaid has sent
    seen,   \* plaid_webhook_events
    task,
    calls

vars == <<item, plaid, bank, rows, sent, seen, task, calls>>

Nobody == CHOOSE i \in Items : TRUE
Idle == [pc |-> "idle", op |-> "none", here |-> [id |-> Nobody, row |-> NoItem],
         left |-> {}, todo |-> <<>>, upto |-> 0]

TypeOK ==
    /\ item \in [Items -> Item]
    /\ plaid \in [Items -> {"unlinked", "linked", "login", "removed"}]
    /\ bank \in Seq(Movements)
    /\ rows \subseteq Row
    /\ sent \subseteq Body /\ seen \subseteq sent
    /\ task \in [Workers -> Task]
    /\ calls \in 0..MaxCalls

Init ==
    /\ item = [i \in Items |-> NoItem]
    /\ plaid = [i \in Items |-> "unlinked"]
    /\ bank = <<>> /\ rows = {} /\ sent = {} /\ seen = {}
    /\ task = [w \in Workers |-> Idle]
    /\ calls = 0

-----------------------------------------------------------------------------
(* Helpers *)

Posted == {bank[n] : n \in 1..Len(bank)}

Called == calls < MaxCalls /\ calls' = calls + 1

Start(w, op) == op \in Ops /\ task[w].pc = "idle" /\ Called

At(w, pc) == task[w].pc = pc /\ UNCHANGED calls

Goto(w, t) == task' = [task EXCEPT ![w] = t]

End(w) == Goto(w, Idle)

\* The end of one sync: the cron takes its next item, whatever the outcome.
EndSync(w) ==
    IF task[w].op = "cron" THEN Goto(w, [task[w] EXCEPT !.pc = "next", !.todo = <<>>])
    ELSE End(w)

Read(i) == [id |-> i, row |-> item[i]]

\* save writes every column in which the entity differs from the row.
Save(w, status, cursor) ==
    item' = [item EXCEPT ![task[w].here.id] = [status |-> status, cursor |-> cursor]]

\* UNIQUE (fingerprint)
SameFingerprint(r, s) ==
    /\ r.by = s.by
    /\ IF r.by = Csv THEN Line[r.mov] = Line[s.mov] ELSE r.mov = s.mov

HasFingerprint(r) == \E s \in rows : SameFingerprint(r, s)

\* What the source of row r says of it.
LookOf(r) == Look[IF r.by = Csv THEN Csv ELSE Feed][r.mov]

\* hasCrossSourceDuplicate asks neither where the row at hand came from nor, when
\* its payee key is short, for the payee.
Resembles(a, b) == a.figure = b.figure /\ a.payee \in {NoPayee, b.payee}

HasLookalike(r) == \E s \in rows : Resembles(LookOf(r), LookOf(s))

-----------------------------------------------------------------------------
(* The bank and Plaid *)

Updates(i, s) == [item |-> i, code |-> "updates", stamp |-> s]

Linked == {i \in Items : plaid[i] = "linked"}

Post(m) ==
    /\ m \notin Posted
    /\ bank' = Append(bank, m)
    /\ \E s \in Stamps : sent' = sent \cup {Updates(i, s) : i \in Linked}
    /\ UNCHANGED <<item, plaid, rows, seen, task, calls>>

BankWantsLogin(i) ==
    /\ "login" \in Ops /\ Called
    /\ plaid[i] = "linked"
    /\ plaid' = [plaid EXCEPT ![i] = "login"]
    /\ \E s \in Stamps :
          sent' = sent \cup {[item |-> i, code |-> "login", stamp |-> s]}
    /\ UNCHANGED <<item, bank, rows, seen, task>>

\* The client completes Plaid Link in update mode, which createLinkToken
\* refuses for a revoked item.
LoginAgain(i) ==
    /\ Called
    /\ plaid[i] = "login" /\ item[i].status \notin {"none", "revoked"}
    /\ plaid' = [plaid EXCEPT ![i] = "linked"]
    /\ UNCHANGED <<item, bank, rows, sent, seen, task>>

-----------------------------------------------------------------------------
(* exchangePublicToken: a new item, or one that went through update mode *)

ExchangeBegin(w, i) ==
    /\ Start(w, "exchange")
    /\ plaid[i] \in {"unlinked", "linked"}
    /\ plaid' = [plaid EXCEPT ![i] = "linked"]
    /\ Goto(w, [Idle EXCEPT !.pc = "find", !.op = "exchange",
                            !.here = [id |-> i, row |-> NoItem]])
    /\ UNCHANGED <<item, bank, rows, sent, seen>>

ExchangeFind(w) ==
    /\ At(w, "find")
    /\ Goto(w, [task[w] EXCEPT !.pc = "store", !.here = Read(task[w].here.id)])
    /\ UNCHANGED <<item, plaid, bank, rows, sent, seen>>

\* UNIQUE (plaid_item_id)
ExchangeClashes(w) ==
    /\ At(w, "store")
    /\ task[w].here.row = NoItem /\ item[task[w].here.id] # NoItem
    /\ End(w)
    /\ UNCHANGED <<item, plaid, bank, rows, sent, seen>>

ExchangeStore(w) ==
    LET here == task[w].here IN
    /\ At(w, "store")
    /\ here.row = NoItem => item[here.id] = NoItem
    /\ Save(w, "active", here.row.cursor)
    /\ Goto(w, [task[w] EXCEPT !.pc = "ask", !.here.row.status = "active"])
    /\ UNCHANGED <<plaid, bank, rows, sent, seen>>

-----------------------------------------------------------------------------
(* syncItemForUser, handleWebhook, cronSyncActiveItems: what leads to a sync *)

SyncBegin(w, i) ==
    /\ Start(w, "sync")
    /\ item[i].status \notin {"none", "revoked"}
    /\ Goto(w, [Idle EXCEPT !.pc = "ask", !.op = "sync", !.here = Read(i)])
    /\ UNCHANGED <<item, plaid, bank, rows, sent, seen>>

\* The event is recorded before it is handled; a body recorded before is
\* answered with nothing done, unless its two deliveries were checked at once.
WebhookBegin(w, b) ==
    /\ Start(w, "webhook")
    /\ b \in seen => \E v \in Workers : task[v].pc = "look" /\ task[v].here.id = b.item
    /\ seen' = seen \cup {b}
    /\ Goto(w, [Idle EXCEPT !.pc = "look", !.here = [id |-> b.item, row |-> NoItem],
                            !.op = IF b.code = "updates" THEN "updates" ELSE "login"])
    /\ UNCHANGED <<item, plaid, bank, rows, sent>>

\* Deliberately wrong: a webhook about a disconnected item is handled.
IgnoredIfUnknown(i) == item[i].status = "none"

Ignored(i) == item[i].status \in {"none", "revoked"}

WebhookLook(w) ==
    LET i == task[w].here.id IN
    /\ At(w, "look")
    /\ IF Ignored(i) THEN End(w)
       ELSE Goto(w, [task[w] EXCEPT
               !.pc = IF task[w].op = "updates" THEN "ask" ELSE "mark",
               !.here = Read(i)])
    /\ UNCHANGED <<item, plaid, bank, rows, sent, seen>>

\* Deliberately wrong: the job takes only items that have been synced before.
CronFindsSynced == {i \in Items : item[i].status = "active" /\ item[i].cursor > 0}

CronFinds == {i \in Items : item[i].status = "active"}

CronBegin(w) ==
    /\ "cron" \in Ops /\ At(w, "idle")
    /\ CronFinds # {}
    /\ Goto(w, [Idle EXCEPT !.pc = "next", !.op = "cron",
                            !.left = {Read(i) : i \in CronFinds}])
    /\ UNCHANGED <<item, plaid, bank, rows, sent, seen>>

CronNext(w) ==
    /\ At(w, "next")
    /\ IF task[w].left = {} THEN End(w)
       ELSE \E e \in task[w].left :
               Goto(w, [task[w] EXCEPT !.pc = "ask", !.here = e, !.left = @ \ {e}])
    /\ UNCHANGED <<item, plaid, bank, rows, sent, seen>>

-----------------------------------------------------------------------------
(* syncItemRecord *)

\* Deliberately wrong: the cursor is stored before the import.
AskSavingCursor(w) ==
    LET here == task[w].here IN
    /\ At(w, "ask")
    /\ plaid[here.id] = "linked"
    /\ Save(w, "active", Len(bank))
    /\ Goto(w, [task[w] EXCEPT !.pc = "check", !.upto = Len(bank),
                  !.todo = SubSeq(bank, here.row.cursor + 1, Len(bank))])
    /\ UNCHANGED <<plaid, bank, rows, sent, seen>>

\* All pages at once: nothing is stored between them.
Ask(w) ==
    LET here == task[w].here IN
    /\ At(w, "ask")
    /\ plaid[here.id] = "linked"
    /\ Goto(w, [task[w] EXCEPT !.pc = "check", !.upto = Len(bank),
                  !.todo = SubSeq(bank, here.row.cursor + 1, Len(bank))])
    /\ UNCHANGED <<item, plaid, bank, rows, sent, seen>>

AskFails(w) ==
    LET here == task[w].here IN
    /\ At(w, "ask")
    /\ "fail" \in Ops \/ plaid[here.id] # "linked"
    /\ Save(w, IF plaid[here.id] = "login" THEN "login_required" ELSE "error",
            here.row.cursor)
    /\ EndSync(w)
    /\ UNCHANGED <<plaid, bank, rows, sent, seen>>

RowOf(t) == [by |-> IF t.op = "csv" THEN Csv ELSE t.here.id, mov |-> Head(t.todo)]
NextRow(w) == RowOf(task[w])

\* Deliberately wrong: only the fingerprint is compared.
DuplicateBySource(r) == HasFingerprint(r)

Duplicate(r) == HasFingerprint(r) \/ HasLookalike(r)

CheckRow(w) ==
    /\ At(w, "check") /\ task[w].todo # <<>>
    /\ Goto(w, IF Duplicate(NextRow(w)) THEN [task[w] EXCEPT !.pc = "check", !.todo = Tail(@)]
               ELSE [task[w] EXCEPT !.pc = "insert"])
    /\ UNCHANGED <<item, plaid, bank, rows, sent, seen>>

InsertRow(w) ==
    /\ At(w, "insert")
    /\ ~HasFingerprint(NextRow(w))
    /\ rows' = rows \cup {NextRow(w)}
    /\ Goto(w, [task[w] EXCEPT !.pc = "check", !.todo = Tail(@)])
    /\ UNCHANGED <<item, plaid, bank, sent, seen>>

\* Another import inserted it since: the error leaves the cursor as it was.
InsertClashes(w) ==
    /\ At(w, "insert")
    /\ HasFingerprint(NextRow(w))
    /\ EndSync(w)
    /\ UNCHANGED <<item, plaid, bank, rows, sent, seen>>

SaveCursor(w) ==
    /\ At(w, "check") /\ task[w].todo = <<>> /\ task[w].op # "csv"
    /\ Save(w, "active", task[w].upto)
    /\ EndSync(w)
    /\ UNCHANGED <<plaid, bank, rows, sent, seen>>

-----------------------------------------------------------------------------
(* importCsv, disconnectItem, the login webhook, and a restart *)

\* The file is a statement: what was posted in some period.
CsvBegin(w, from, to) ==
    /\ Start(w, "csv")
    /\ Goto(w, [Idle EXCEPT !.pc = "check", !.op = "csv", !.todo = SubSeq(bank, from, to)])
    /\ UNCHANGED <<item, plaid, bank, rows, sent, seen>>

CsvEnd(w) ==
    /\ At(w, "check") /\ task[w].todo = <<>> /\ task[w].op = "csv"
    /\ End(w)
    /\ UNCHANGED <<item, plaid, bank, rows, sent, seen>>

DisconnectBegin(w, i) ==
    /\ Start(w, "disconnect")
    /\ item[i].status # "none"
    /\ Goto(w, [Idle EXCEPT !.pc = "remove", !.op = "disconnect", !.here = Read(i)])
    /\ UNCHANGED <<item, plaid, bank, rows, sent, seen>>

\* An error of itemRemove is only logged.
DisconnectRemove(w) ==
    /\ At(w, "remove")
    /\ \/ plaid' = [plaid EXCEPT ![task[w].here.id] = "removed"]
       \/ "fail" \in Ops /\ UNCHANGED plaid
    /\ Goto(w, [task[w] EXCEPT !.pc = "mark"])
    /\ UNCHANGED <<item, bank, rows, sent, seen>>

\* The last statement of disconnectItem and of the login webhook.
Mark(w) ==
    /\ At(w, "mark")
    /\ Save(w, IF task[w].op = "disconnect" THEN "revoked" ELSE "login_required",
            task[w].here.row.cursor)
    /\ End(w)
    /\ UNCHANGED <<plaid, bank, rows, sent, seen>>

Crash ==
    /\ "crash" \in Ops /\ Called
    /\ \E w \in Workers : task[w].pc # "idle"
    /\ task' = [w \in Workers |-> Idle]
    /\ UNCHANGED <<item, plaid, bank, rows, sent, seen>>

-----------------------------------------------------------------------------

Continue(w) ==
    \/ ExchangeFind(w) \/ ExchangeClashes(w) \/ ExchangeStore(w)
    \/ WebhookLook(w) \/ CronNext(w)
    \/ Ask(w) \/ AskFails(w)
    \/ CheckRow(w) \/ InsertRow(w) \/ InsertClashes(w) \/ SaveCursor(w)
    \/ CsvEnd(w) \/ DisconnectRemove(w) \/ Mark(w)

Begin(w) ==
    \/ \E i \in Items : ExchangeBegin(w, i) \/ SyncBegin(w, i) \/ DisconnectBegin(w, i)
    \/ \E b \in sent : WebhookBegin(w, b)
    \/ \E from, to \in 1..Len(bank) : from <= to /\ CsvBegin(w, from, to)
    \/ CronBegin(w)

World ==
    \/ \E m \in Movements : Post(m)
    \/ \E i \in Items : BankWantsLogin(i) \/ LoginAgain(i)
    \/ Crash

Next == World \/ \E w \in Workers : Begin(w) \/ Continue(w)

Spec == Init /\ [][Next]_vars

\* Node resumes every handler; the scheduler fires the daily job for ever.
FairSpec ==
    /\ Spec
    /\ \A w \in Workers : WF_vars(Continue(w))
    /\ WF_vars(\E w \in Workers : CronBegin(w))

-----------------------------------------------------------------------------
(* Properties *)

\* The row of m, or one that Plaid's m looks like.
Recorded(m) == \E r \in rows : Resembles(Look[Feed][m], LookOf(r))

\* A cursor never runs ahead of the import: whatever handlers overlap, fail or
\* crash, each movement Plaid will not hand out again has its row, or that of
\* a lookalike (syncItemRecord saves the cursor after importPlaidTransactions).
SyncedIsStored ==
    \A i \in Items : \A n \in 1..item[i].cursor : n \in DOMAIN bank /\ Recorded(bank[n])

\* With one handler at a time a movement is stored once through each source, however
\* many statements hold it and Plaid items hand it out, and through both only if they
\* describe it differently: importCsv takes the payee from a column of the statement,
\* Plaid from the merchant (hasCrossSourceDuplicate).
ImportedOnce ==
    \A r, s \in rows : r.mov = s.mov /\ r # s => LookOf(r) # LookOf(s)

\* With one handler at a time a disconnected item stays so until the client
\* connects it anew: no sync, webhook or cron brings it back.
RevokedStaysRevoked ==
    [][\A i \in Items : item[i].status = "revoked" /\ item'[i].status # "revoked"
          => \E w \in Workers : /\ task[w].pc = "store"
                                /\ task[w].here.id = i]_vars

\* While a connection is active, what the bank posts is imported, if only by
\* the daily job: webhooks may be lost, ignored or interrupted.
PostedIsImported ==
    \A m \in Movements, i \in Items :
        (m \in Posted /\ item[i].status = "active")
            ~> (Recorded(m) \/ item[i].status # "active")

\* The promise of the daily job, "fallback si falla el webhook": what the bank
\* posts to a connection that neither the bank nor the client has ended is
\* imported.  cronSyncActiveItems skips items that a failed sync left in 'error'.
FallbackImports ==
    \A m \in Movements, i \in Items :
        (m \in Posted /\ item[i].status \in {"active", "error"})
            ~> (Recorded(m) \/ item[i].status \in {"login_required", "revoked"})

=============================================================================
