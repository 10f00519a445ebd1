---------------------------- MODULE BankSync_proofs ----------------------------
(***************************************************************************)
(* Type correctness of BankSync; that no cursor runs ahead of the          *)
(* import, for any number of handlers, items and movements.                *)
(*                                                                         *)
(* The argument: rows are never deleted and the bank only appends, so a    *)
(* cursor whose movements have their rows stays so, also in the memory of  *)
(* a handler.  A sync that has asked Plaid holds, for each movement before *)
(* the new cursor, its row or its place in todo.                           *)
(*                                                                         *)
(* And, while handlers take turns, that no movement is stored twice and a  *)
(* disconnected item stays so: what the one handler at work has looked up  *)
(* or read is then still true when it inserts or saves (SoleInv).          *)
(***************************************************************************)
EXTENDS BankSync, SequenceTheorems, TLAPS

\* TypeOK is not inductive: a row about to be inserted must be there.
TypeInv ==
    /\ TypeOK
    /\ \A w \in Workers : task[w].pc = "insert" => task[w].todo # <<>>

LEMMA IdleType == Idle \in Task /\ Idle.pc = "idle" /\ NoItem \in Item
<1>1. Nobody \in Items
  BY ItemsAssumption DEF Nobody
<1>2. NoItem \in Item
  BY DEF NoItem, Item, Status
<1>3. <<>> \in Seq(Movements)
  OBVIOUS
<1> QED
  BY <1>1, <1>2, <1>3 DEF Idle, Task, Pc, Entity

\* A handler moves on, or the bank and Plaid do.
LEMMA MoveType ==
    ASSUME TypeInv, NEW w \in Workers, NEW t \in Task, Goto(w, t),
           t.pc = "insert" => t.todo # <<>>,
           item' \in [Items -> Item],
           plaid' \in [Items -> {"unlinked", "linked", "login", "removed"}],
           rows' \subseteq Row, seen' \subseteq sent, calls' \in 0..MaxCalls,
           UNCHANGED <<bank, sent>>
    PROVE  TypeInv'
<1>1. task' \in [Workers -> Task]
  BY DEF TypeInv, TypeOK, Goto
<1>2. \A v \in Workers : task'[v].pc = "insert" => task'[v].todo # <<>>
  BY DEF TypeInv, TypeOK, Goto
<1> QED
  BY <1>1, <1>2 DEF TypeInv, TypeOK

LEMMA CallsType ==
    ASSUME TypeInv, Called \/ UNCHANGED calls
    PROVE  calls' \in 0..MaxCalls
BY BoundAssumption DEF TypeInv, TypeOK, Called

LEMMA ReadType ==
    ASSUME TypeInv, NEW i \in Items
    PROVE  Read(i) \in Entity
BY DEF Read, Entity, TypeInv, TypeOK

LEMMA SaveType ==
    ASSUME TypeInv, NEW w \in Workers, NEW st \in Status, NEW c \in Nat, Save(w, st, c)
    PROVE  item' \in [Items -> Item]
BY DEF Save, TypeInv, TypeOK, Item

LEMMA TaskTypes ==
    ASSUME TypeInv, NEW w \in Workers
    PROVE  /\ task[w] \in Task
           /\ task[w].here \in Entity /\ task[w].here.id \in Items
           /\ task[w].here.row \in Item /\ task[w].here.row.cursor \in Nat
           /\ task[w].left \subseteq Entity
           /\ task[w].todo \in Seq(Movements)
           /\ task[w].upto \in Nat
BY DEF TypeInv, TypeOK, Task, Entity, Item

LEMMA GotoPc ==
    ASSUME NEW t \in Task, NEW p \in Pc
    PROVE  [t EXCEPT !.pc = p] \in Task /\ [t EXCEPT !.pc = p].pc = p
BY DEF Task

LEMMA GotoTodo ==
    ASSUME NEW t \in Task, NEW p \in Pc, NEW s \in Seq(Movements)
    PROVE  /\ [t EXCEPT !.pc = p, !.todo = s] \in Task
           /\ [t EXCEPT !.pc = p, !.todo = s].pc = p
<1> DEFINE S == Seq(Movements)
<1>1. s \in S
  OBVIOUS
<1>2. t \in [pc: Pc, op: AllOps \cup {"none", "updates"}, here: Entity,
             left: SUBSET Entity, todo: S, upto: Nat]
  BY DEF Task
<1> HIDE DEF S
<1>3. [t EXCEPT !.pc = p, !.todo = s]
        \in [pc: Pc, op: AllOps \cup {"none", "updates"}, here: Entity,
             left: SUBSET Entity, todo: S, upto: Nat]
  BY <1>1, <1>2
<1>4. [t EXCEPT !.pc = p, !.todo = s].pc = p
  BY <1>2
<1> QED
  BY <1>3, <1>4 DEF S, Task

LEMMA GotoHere ==
    ASSUME NEW t \in Task, NEW p \in Pc, NEW h \in Entity
    PROVE  /\ [t EXCEPT !.pc = p, !.here = h] \in Task
           /\ [t EXCEPT !.pc = p, !.here = h].pc = p
BY DEF Task

LEMMA EndSyncType ==
    ASSUME TypeInv, NEW w \in Workers, EndSync(w)
    PROVE  \E t \in Task : Goto(w, t) /\ t.pc # "insert"
<1>1. CASE task[w].op = "cron"
  <2> DEFINE t == [task[w] EXCEPT !.pc = "next", !.todo = <<>>]
  <2>1. task[w] \in Task /\ "next" \in Pc /\ <<>> \in Seq(Movements)
    BY TaskTypes DEF Pc
  <2>2. t \in Task /\ t.pc = "next"
    BY <2>1, GotoTodo, Zenon
  <2> HIDE DEF t
  <2>3. Goto(w, t)
    BY <1>1 DEF EndSync, t
  <2> QED
    BY <2>2, <2>3
<1>2. CASE task[w].op # "cron"
  BY <1>2, IdleType DEF EndSync, End
<1> QED
  BY <1>1, <1>2

-----------------------------------------------------------------------------

\* Handlers begin.
LEMMA BeginType ==
    ASSUME TypeInv, NEW w \in Workers, Begin(w)
    PROVE  TypeInv'
<1> USE DEF Start, At, AllOps
<1> USE CallsType, OpsAssumption
<1>1. ASSUME NEW i \in Items, ExchangeBegin(w, i)
      PROVE  TypeInv'
  <2> DEFINE t == [Idle EXCEPT !.pc = "find", !.op = "exchange",
                               !.here = [id |-> i, row |-> NoItem]]
  <2>1. t \in Task /\ t.pc = "find"
    BY <1>1, IdleType DEF Task, Pc, Entity
  <2>2. plaid' \in [Items -> {"unlinked", "linked", "login", "removed"}]
    BY <1>1 DEF ExchangeBegin, TypeInv, TypeOK
  <2> HIDE DEF t
  <2>3. Goto(w, t)
    BY <1>1 DEF ExchangeBegin, t
  <2> QED
    BY <1>1, <2>1, <2>2, <2>3, MoveType DEF ExchangeBegin, TypeInv, TypeOK
<1>2. ASSUME NEW i \in Items, SyncBegin(w, i)
      PROVE  TypeInv'
  <2> DEFINE t == [Idle EXCEPT !.pc = "ask", !.op = "sync", !.here = Read(i)]
  <2>1. t \in Task /\ t.pc = "ask"
    BY <1>2, IdleType, ReadType DEF Task, Pc
  <2> HIDE DEF t
  <2>2. Goto(w, t)
    BY <1>2 DEF SyncBegin, t
  <2> QED
    BY <1>2, <2>1, <2>2, MoveType DEF SyncBegin, TypeInv, TypeOK
<1>3. ASSUME NEW i \in Items, DisconnectBegin(w, i)
      PROVE  TypeInv'
  <2> DEFINE t == [Idle EXCEPT !.pc = "remove", !.op = "disconnect", !.here = Read(i)]
  <2>1. t \in Task /\ t.pc = "remove"
    BY <1>3, IdleType, ReadType DEF Task, Pc
  <2> HIDE DEF t
  <2>2. Goto(w, t)
    BY <1>3 DEF DisconnectBegin, t
  <2> QED
    BY <1>3, <2>1, <2>2, MoveType DEF DisconnectBegin, TypeInv, TypeOK
<1>4. ASSUME NEW b \in sent, WebhookBegin(w, b)
      PROVE  TypeInv'
  <2> DEFINE t == [Idle EXCEPT !.pc = "look", !.here = [id |-> b.item, row |-> NoItem],
                      !.op = IF b.code = "updates" THEN "updates" ELSE "login"]
  <2>1. b.item \in Items
    BY DEF TypeInv, TypeOK, Body
  <2>2. t \in Task /\ t.pc = "look"
    BY <2>1, IdleType DEF Task, Pc, Entity
  <2> HIDE DEF t
  <2>3. Goto(w, t)
    BY <1>4 DEF WebhookBegin, t
  <2>4. seen' \subseteq sent
    BY <1>4 DEF WebhookBegin, TypeInv, TypeOK
  <2> QED
    BY <1>4, <2>2, <2>3, <2>4, MoveType DEF WebhookBegin, TypeInv, TypeOK
<1>5. ASSUME NEW from \in 1..Len(bank), NEW to \in 1..Len(bank), CsvBegin(w, from, to)
      PROVE  TypeInv'
  <2> DEFINE t == [Idle EXCEPT !.pc = "check", !.op = "csv", !.todo = SubSeq(bank, from, to)]
  <2>1. SubSeq(bank, from, to) \in Seq(Movements)
    <3>1. bank \in Seq(Movements) /\ from \in Int /\ to \in Int
      BY DEF TypeInv, TypeOK
    <3>2. \A n \in from..to : bank[n] \in Movements
      BY <3>1
    <3> QED
      BY <3>1, <3>2, SubSeqProperties
  <2>2. t \in Task /\ t.pc = "check"
    BY <2>1, IdleType DEF Task, Pc
  <2> HIDE DEF t
  <2>3. Goto(w, t)
    BY <1>5 DEF CsvBegin, t
  <2> QED
    BY <1>5, <2>2, <2>3, MoveType DEF CsvBegin, TypeInv, TypeOK
<1>6. CASE CronBegin(w)
  <2> DEFINE t == [Idle EXCEPT !.pc = "next", !.op = "cron",
                               !.left = {Read(i) : i \in CronFinds}]
  <2>1. {Read(i) : i \in CronFinds} \subseteq Entity
    BY ReadType DEF CronFinds
  <2>2. t \in Task /\ t.pc = "next"
    BY <2>1, IdleType DEF Task, Pc
  <2> HIDE DEF t
  <2>3. Goto(w, t)
    BY <1>6 DEF CronBegin, t
  <2> QED
    BY <1>6, <2>2, <2>3, MoveType DEF CronBegin, TypeInv, TypeOK
<1> QED
  BY <1>1, <1>2, <1>3, <1>4, <1>5, <1>6 DEF Begin

\* A connection is stored, or a handler goes on to its sync.
LEMMA StoreType ==
    ASSUME TypeInv, NEW w \in Workers,
           \/ ExchangeFind(w) \/ ExchangeClashes(w) \/ ExchangeStore(w)
           \/ WebhookLook(w) \/ CronNext(w)
    PROVE  TypeInv'
<1> USE DEF At
<1> USE CallsType, TaskTypes
<1>0. Read(task[w].here.id) \in Entity
  BY ReadType
<1>1. CASE ExchangeFind(w)
  <2> DEFINE t == [task[w] EXCEPT !.pc = "store", !.here = Read(task[w].here.id)]
  <2>1. t \in Task /\ t.pc = "store"
    BY <1>0 DEF Task, Pc
  <2> HIDE DEF t
  <2>2. Goto(w, t)
    BY <1>1 DEF ExchangeFind, t
  <2> QED
    BY <1>1, <2>1, <2>2, MoveType DEF ExchangeFind, TypeInv, TypeOK
<1>2. CASE ExchangeClashes(w)
  BY <1>2, IdleType, MoveType DEF ExchangeClashes, End, TypeInv, TypeOK
<1>3. CASE ExchangeStore(w)
  <2> DEFINE h == [task[w].here EXCEPT !.row.status = "active"]
             t == [task[w] EXCEPT !.pc = "ask", !.here = h]
  <2>0. h \in Entity
    BY DEF Entity, Item, Status
  <2>1. t \in Task /\ t.pc = "ask"
    <3>1. task[w] \in Task /\ "ask" \in Pc
      BY DEF Pc
    <3> QED
      BY <3>1, <2>0, GotoHere, Zenon
  <2> HIDE DEF t
  <2>2. Goto(w, t) /\ Save(w, "active", task[w].here.row.cursor)
    BY <1>3 DEF ExchangeStore, t
  <2>3. item' \in [Items -> Item]
    BY <2>2, SaveType DEF Status
  <2> QED
    BY <1>3, <2>1, <2>2, <2>3, MoveType DEF ExchangeStore, TypeInv, TypeOK
<1>4. CASE WebhookLook(w)
  <2> DEFINE t == [task[w] EXCEPT !.pc = IF task[w].op = "updates" THEN "ask" ELSE "mark",
                                  !.here = Read(task[w].here.id)]
  <2> DEFINE next == IF task[w].op = "updates" THEN "ask" ELSE "mark"
  <2>0. next \in Pc /\ next # "insert"
    BY DEF Pc
  <2>1. t \in Task /\ t.pc # "insert"
    BY <1>0, <2>0 DEF Task
  <2> HIDE DEF t
  <2>2. Goto(w, t) \/ Goto(w, Idle)
    BY <1>4 DEF WebhookLook, End, t
  <2> QED
    BY <1>4, <2>1, <2>2, IdleType, MoveType DEF WebhookLook, TypeInv, TypeOK
<1>5. CASE CronNext(w)
  <2>1. CASE Goto(w, Idle)
    BY <1>5, <2>1, IdleType, MoveType DEF CronNext, TypeInv, TypeOK
  <2>2. ASSUME NEW e \in task[w].left,
               Goto(w, [task[w] EXCEPT !.pc = "ask", !.here = e, !.left = @ \ {e}])
        PROVE  TypeInv'
    <3> DEFINE t == [task[w] EXCEPT !.pc = "ask", !.here = e, !.left = @ \ {e}]
    <3>1. t \in Task /\ t.pc = "ask"
      BY DEF Task, Pc
    <3> HIDE DEF t
    <3>2. Goto(w, t)
      BY <2>2 DEF t
    <3> QED
      BY <1>5, <3>1, <3>2, MoveType DEF CronNext, TypeInv, TypeOK
  <2> QED
    BY <1>5, <2>1, <2>2 DEF CronNext, End
<1> QED
  BY <1>1, <1>2, <1>3, <1>4, <1>5

LEMMA FetchedType ==
    ASSUME TypeInv, NEW w \in Workers, NEW q \in Seq(Movements)
    PROVE  /\ [task[w] EXCEPT !.pc = "check", !.upto = Len(bank), !.todo = q] \in Task
           /\ [task[w] EXCEPT !.pc = "check", !.upto = Len(bank), !.todo = q].pc = "check"
<1>1. task[w] \in Task
  BY TaskTypes
<1>2. Len(bank) \in Nat /\ "check" \in Pc
  BY DEF TypeInv, TypeOK, Pc
<1> DEFINE S == Seq(Movements)
           n == Len(bank)
           t == task[w]
<1>3. t \in [pc: Pc, op: AllOps \cup {"none", "updates"}, here: Entity,
             left: SUBSET Entity, todo: S, upto: Nat]
  BY <1>1 DEF Task
<1>4. q \in S
  OBVIOUS
<1> HIDE DEF n, t, S
<1>5. [t EXCEPT !.pc = "check", !.upto = n, !.todo = q]
        \in [pc: Pc, op: AllOps \cup {"none", "updates"}, here: Entity,
             left: SUBSET Entity, todo: S, upto: Nat]
  BY <1>2, <1>3, <1>4 DEF n
<1>6. [t EXCEPT !.pc = "check", !.upto = n, !.todo = q].pc = "check"
  BY <1>3
<1> QED
  BY <1>5, <1>6 DEF n, t, S, Task

\* A sync runs, row by row.
LEMMA SyncType ==
    ASSUME TypeInv, NEW w \in Workers,
           \/ Ask(w) \/ AskFails(w) \/ CheckRow(w) \/ InsertRow(w) \/ InsertClashes(w)
           \/ SaveCursor(w)
    PROVE  TypeInv'
<1> USE DEF At
<1> USE CallsType, TaskTypes
<1>1. CASE Ask(w)
  <2> DEFINE q == SubSeq(bank, task[w].here.row.cursor + 1, Len(bank))
             t == [task[w] EXCEPT !.pc = "check", !.upto = Len(bank), !.todo = q]
  <2>1. q \in Seq(Movements)
    <3>1. bank \in Seq(Movements)
          /\ task[w].here.row.cursor + 1 \in 1..(task[w].here.row.cursor + 1)
      BY DEF TypeInv, TypeOK
    <3>2. \A n \in (task[w].here.row.cursor + 1)..Len(bank) : bank[n] \in Movements
      BY <3>1
    <3> QED
      BY <3>1, <3>2, SubSeqProperties
  <2>2. t \in Task /\ t.pc = "check"
    <3> HIDE DEF q
    <3> QED
      BY <2>1, FetchedType
  <2> HIDE DEF t
  <2>3. Goto(w, t)
    BY <1>1 DEF Ask, t
  <2> QED
    BY <1>1, <2>2, <2>3, MoveType DEF Ask, TypeInv, TypeOK
<1>2. CASE AskFails(w)
  <2>1. item' \in [Items -> Item]
    BY <1>2, SaveType DEF AskFails, Status
  <2> QED
    BY <1>2, <2>1, EndSyncType, MoveType DEF AskFails, TypeInv, TypeOK
<1>3. CASE CheckRow(w)
  <2> DEFINE s == [task[w] EXCEPT !.pc = "check", !.todo = Tail(@)]
             t == [task[w] EXCEPT !.pc = "insert"]
  <2>1. task[w] \in Task /\ task[w].todo # <<>> /\ "check" \in Pc /\ "insert" \in Pc
    BY <1>3 DEF CheckRow, Pc
  <2>2. Tail(task[w].todo) \in Seq(Movements)
    BY <2>1, HeadTailProperties
  <2>3. s \in Task /\ s.pc = "check" /\ t \in Task
    BY <2>1, <2>2, GotoTodo, GotoPc, Zenon
  <2>5. t.todo # <<>>
    BY <2>1 DEF Task
  <2> HIDE DEF s, t
  <2>4. Goto(w, s) \/ Goto(w, t)
    BY <1>3 DEF CheckRow, s, t
  <2> QED
    BY <1>3, <2>3, <2>4, <2>5, MoveType DEF CheckRow, TypeInv, TypeOK
<1>4. CASE InsertRow(w)
  <2>1. task[w].todo # <<>>
    BY <1>4 DEF InsertRow, TypeInv
  <2>2. NextRow(w) \in Row
    BY <2>1, HeadTailProperties DEF NextRow, RowOf, Row
  <2> DEFINE t == [task[w] EXCEPT !.pc = "check", !.todo = Tail(@)]
  <2>3. t \in Task /\ t.pc = "check"
    <3>1. task[w] \in Task /\ "check" \in Pc /\ Tail(task[w].todo) \in Seq(Movements)
      BY <2>1, HeadTailProperties DEF Pc
    <3> QED
      BY <3>1, GotoTodo, Zenon
  <2> HIDE DEF t
  <2>4. Goto(w, t)
    BY <1>4 DEF InsertRow, t
  <2>5. rows' \subseteq Row
    BY <1>4, <2>2 DEF InsertRow, TypeInv, TypeOK
  <2> QED
    BY <1>4, <2>3, <2>4, <2>5, MoveType DEF InsertRow, TypeInv, TypeOK
<1>5. CASE InsertClashes(w)
  BY <1>5, EndSyncType, MoveType DEF InsertClashes, TypeInv, TypeOK
<1>6. CASE SaveCursor(w)
  <2>1. item' \in [Items -> Item]
    BY <1>6, SaveType DEF SaveCursor, Status
  <2> QED
    BY <1>6, <2>1, EndSyncType, MoveType DEF SaveCursor, TypeInv, TypeOK
<1> QED
  BY <1>1, <1>2, <1>3, <1>4, <1>5, <1>6

LEMMA EndType ==
    ASSUME TypeInv, NEW w \in Workers, CsvEnd(w) \/ DisconnectRemove(w) \/ Mark(w)
    PROVE  TypeInv'
<1> USE DEF At
<1> USE CallsType, TaskTypes
<1>1. CASE CsvEnd(w)
  BY <1>1, IdleType, MoveType DEF CsvEnd, End, TypeInv, TypeOK
<1>2. CASE DisconnectRemove(w)
  <2> DEFINE t == [task[w] EXCEPT !.pc = "mark"]
  <2>1. t \in Task /\ t.pc = "mark"
    BY DEF Task, Pc
  <2> HIDE DEF t
  <2>2. Goto(w, t)
    BY <1>2 DEF DisconnectRemove, t
  <2>3. plaid' \in [Items -> {"unlinked", "linked", "login", "removed"}]
    BY <1>2 DEF DisconnectRemove, TypeInv, TypeOK
  <2> QED
    BY <1>2, <2>1, <2>2, <2>3, MoveType DEF DisconnectRemove, TypeInv, TypeOK
<1>3. CASE Mark(w)
  <2>1. item' \in [Items -> Item]
    BY <1>3, SaveType DEF Mark, Status
  <2> QED
    BY <1>3, <2>1, IdleType, MoveType DEF Mark, End, TypeInv, TypeOK
<1> QED
  BY <1>1, <1>2, <1>3

LEMMA WorldType ==
    ASSUME TypeInv, World
    PROVE  TypeInv'
<1> USE CallsType
<1>1. ASSUME NEW m \in Movements, Post(m)
      PROVE  TypeInv'
  <2>1. bank' \in Seq(Movements)
    BY <1>1 DEF Post, TypeInv, TypeOK
  <2>2. \A i \in Items, s \in Stamps : Updates(i, s) \in Body
    BY DEF Updates, Body
  <2>3. sent' \subseteq Body /\ seen' \subseteq sent'
    BY <1>1, <2>2 DEF Post, Linked, TypeInv, TypeOK
  <2> QED
    BY <1>1, <2>1, <2>3 DEF Post, TypeInv, TypeOK
<1>2. ASSUME NEW i \in Items, BankWantsLogin(i)
      PROVE  TypeInv'
  <2>1. \A s \in Stamps : [item |-> i, code |-> "login", stamp |-> s] \in Body
    BY DEF Body
  <2>2. sent' \subseteq Body /\ seen' \subseteq sent'
    BY <1>2, <2>1 DEF BankWantsLogin, TypeInv, TypeOK
  <2> QED
    BY <1>2, <2>2 DEF BankWantsLogin, TypeInv, TypeOK
<1>3. ASSUME NEW i \in Items, LoginAgain(i)
      PROVE  TypeInv'
  BY <1>3 DEF LoginAgain, TypeInv, TypeOK
<1>4. CASE Crash
  BY <1>4, IdleType DEF Crash, TypeInv, TypeOK
<1> QED
  BY <1>1, <1>2, <1>3, <1>4 DEF World

LEMMA TypeStep ==
    ASSUME TypeInv, [Next]_vars
    PROVE  TypeInv'
<1>1. CASE World
  BY <1>1, WorldType
<1>2. ASSUME NEW w \in Workers, Begin(w) \/ Continue(w)
      PROVE  TypeInv'
  BY <1>2, BeginType, StoreType, SyncType, EndType DEF Continue
<1>3. CASE UNCHANGED vars
  BY <1>3 DEF vars, TypeInv, TypeOK
<1> QED
  BY <1>1, <1>2, <1>3 DEF Next

\* Every reachable state is well typed, whatever the handlers, items and
\* movements: rows and webhooks are those of known items.
THEOREM TypeInvAlways == Spec => []TypeInv
<1>1. Init => TypeInv
  BY IdleType, BoundAssumption DEF Init, TypeInv, TypeOK
<1> QED
  BY <1>1, TypeStep, PTL DEF Spec

THEOREM TypeCorrect == Spec => []TypeOK
<1>1. TypeInv => TypeOK
  BY DEF TypeInv
<1> QED
  BY <1>1, TypeInvAlways, PTL

-----------------------------------------------------------------------------
(* No cursor runs ahead of the import *)

StoredIn(rs, m) == \E r \in rs : Resembles(Look[Feed][m], LookOf(r))

CoveredIn(bk, rs, c) == \A n \in 1..c : n \in DOMAIN bk /\ StoredIn(rs, bk[n])

FetchedIn(bk, rs, todo, c) ==
    \A n \in 1..c : /\ n \in DOMAIN bk
                    /\ StoredIn(rs, bk[n]) \/ \E k \in 1..Len(todo) : todo[k] = bk[n]

\* What a handler holds: cursors that are covered, and rows still to import.
HoldsIn(bk, rs, t) ==
    /\ CoveredIn(bk, rs, t.here.row.cursor)
    /\ \A e \in t.left : CoveredIn(bk, rs, e.row.cursor)
    /\ t.op # "csv" /\ t.pc \in {"check", "insert"} => FetchedIn(bk, rs, t.todo, t.upto)

SyncInv ==
    /\ \A i \in Items : CoveredIn(bank, rows, item[i].cursor)
    /\ \A w \in Workers : HoldsIn(bank, rows, task[w])

LEMMA Grow ==
    ASSUME NEW bk, NEW bk2, NEW rs, NEW rs2, NEW t, NEW c,
           DOMAIN bk \subseteq DOMAIN bk2, \A n \in DOMAIN bk : bk2[n] = bk[n],
           rs \subseteq rs2
    PROVE  /\ CoveredIn(bk, rs, c) => CoveredIn(bk2, rs2, c)
           /\ HoldsIn(bk, rs, t) => HoldsIn(bk2, rs2, t)
<1>1. \A m : StoredIn(rs, m) => StoredIn(rs2, m)
  BY DEF StoredIn
<1>2. \A d : CoveredIn(bk, rs, d) => CoveredIn(bk2, rs2, d)
  BY <1>1 DEF CoveredIn
<1>3. \A todo, d : FetchedIn(bk, rs, todo, d) => FetchedIn(bk2, rs2, todo, d)
  BY <1>1 DEF FetchedIn
<1> QED
  BY <1>2, <1>3 DEF HoldsIn

LEMMA IdleHolds == ASSUME NEW bk, NEW rs PROVE HoldsIn(bk, rs, Idle)
<1>1. Idle.here.row.cursor = 0 /\ Idle.left = {} /\ Idle.pc = "idle"
  BY DEF Idle, NoItem
<1>2. CoveredIn(bk, rs, 0)
  BY DEF CoveredIn
<1> QED
  BY <1>1, <1>2 DEF HoldsIn

\* A handler moves on to t.
LEMMA SyncMove ==
    ASSUME TypeInv, SyncInv, NEW w \in Workers, NEW t, Goto(w, t),
           HoldsIn(bank, rows', t), rows \subseteq rows',
           \A i \in Items : CoveredIn(bank, rows', item'[i].cursor),
           UNCHANGED bank
    PROVE  SyncInv'
<1>1. \A v \in Workers : task'[v] = IF v = w THEN t ELSE task[v]
  BY DEF Goto, TypeInv, TypeOK
<1>2. \A v \in Workers : HoldsIn(bank, rows', task[v])
  BY Grow DEF SyncInv
<1> QED
  BY <1>1, <1>2 DEF SyncInv

\* A handler moves on and leaves the tables alone.
LEMMA SyncQuiet ==
    ASSUME TypeInv, SyncInv, NEW w \in Workers, NEW t, Goto(w, t),
           HoldsIn(bank, rows, t), UNCHANGED <<item, bank, rows>>
    PROVE  SyncInv'
BY SyncMove DEF SyncInv

\* A handler saves a covered cursor.
LEMMA SyncSave ==
    ASSUME TypeInv, SyncInv, NEW w \in Workers, NEW t, Goto(w, t),
           HoldsIn(bank, rows, t), NEW st, NEW c, Save(w, st, c),
           CoveredIn(bank, rows, c), UNCHANGED <<bank, rows>>
    PROVE  SyncInv'
<1>1. \A i \in Items : item'[i].cursor \in {c, item[i].cursor}
  BY DEF Save, TypeInv, TypeOK, Item
<1>2. \A i \in Items : CoveredIn(bank, rows, item'[i].cursor)
  BY <1>1 DEF SyncInv
<1> QED
  BY <1>2, SyncMove

LEMMA EndSyncHolds ==
    ASSUME TypeInv, SyncInv, NEW w \in Workers, EndSync(w)
    PROVE  \E t : Goto(w, t) /\ HoldsIn(bank, rows, t)
<1>1. CASE task[w].op = "cron"
  <2> DEFINE t == [task[w] EXCEPT !.pc = "next", !.todo = <<>>]
  <2>1. /\ t.here = task[w].here /\ t.left = task[w].left
        /\ t.pc = "next"
    BY TaskTypes DEF Task
  <2> HIDE DEF t
  <2>2. HoldsIn(bank, rows, t)
    BY <2>1 DEF HoldsIn, SyncInv
  <2>3. Goto(w, t)
    BY <1>1 DEF EndSync, t
  <2> QED
    BY <2>2, <2>3
<1>2. CASE task[w].op # "cron"
  BY <1>2, IdleHolds DEF EndSync, End
<1> QED
  BY <1>1, <1>2

\* A handler that has just read item i, or nothing.
LEMMA ReadHolds ==
    ASSUME TypeInv, SyncInv, NEW i \in Items
    PROVE  CoveredIn(bank, rows, Read(i).row.cursor)
BY DEF Read, SyncInv

LEMMA BeginSync ==
    ASSUME TypeInv, SyncInv, NEW w \in Workers, Begin(w)
    PROVE  SyncInv'
<1>0. CoveredIn(bank, rows, NoItem.cursor)
  BY DEF CoveredIn, NoItem
<1>1. ASSUME NEW i \in Items, ExchangeBegin(w, i)
      PROVE  SyncInv'
  <2> DEFINE t == [Idle EXCEPT !.pc = "find", !.op = "exchange",
                               !.here = [id |-> i, row |-> NoItem]]
  <2>1. t.here.row = NoItem /\ t.left = {} /\ t.pc = "find"
    BY DEF Idle
  <2> HIDE DEF t
  <2>2. HoldsIn(bank, rows, t)
    BY <1>0, <2>1 DEF HoldsIn
  <2>3. Goto(w, t) /\ UNCHANGED <<item, bank, rows>>
    BY <1>1 DEF ExchangeBegin, t
  <2> QED
    BY <2>2, <2>3, SyncQuiet
<1>2. ASSUME NEW i \in Items, SyncBegin(w, i)
      PROVE  SyncInv'
  <2> DEFINE t == [Idle EXCEPT !.pc = "ask", !.op = "sync", !.here = Read(i)]
  <2>1. t.here = Read(i) /\ t.left = {} /\ t.pc = "ask"
    BY DEF Idle
  <2> HIDE DEF t
  <2>2. HoldsIn(bank, rows, t)
    BY ReadHolds, <2>1 DEF HoldsIn
  <2>3. Goto(w, t) /\ UNCHANGED <<item, bank, rows>>
    BY <1>2 DEF SyncBegin, t
  <2> QED
    BY <2>2, <2>3, SyncQuiet
<1>3. ASSUME NEW i \in Items, DisconnectBegin(w, i)
      PROVE  SyncInv'
  <2> DEFINE t == [Idle EXCEPT !.pc = "remove", !.op = "disconnect", !.here = Read(i)]
  <2>1. t.here = Read(i) /\ t.left = {} /\ t.pc = "remove"
    BY DEF Idle
  <2> HIDE DEF t
  <2>2. HoldsIn(bank, rows, t)
    BY ReadHolds, <2>1 DEF HoldsIn
  <2>3. Goto(w, t) /\ UNCHANGED <<item, bank, rows>>
    BY <1>3 DEF DisconnectBegin, t
  <2> QED
    BY <2>2, <2>3, SyncQuiet
<1>4. ASSUME NEW b \in sent, WebhookBegin(w, b)
      PROVE  SyncInv'
  <2> DEFINE t == [Idle EXCEPT !.pc = "look", !.here = [id |-> b.item, row |-> NoItem],
                      !.op = IF b.code = "updates" THEN "updates" ELSE "login"]
  <2>1. t.here.row = NoItem /\ t.left = {} /\ t.pc = "look"
    BY DEF Idle
  <2> HIDE DEF t
  <2>2. HoldsIn(bank, rows, t)
    BY <1>0, <2>1 DEF HoldsIn
  <2>3. Goto(w, t) /\ UNCHANGED <<item, bank, rows>>
    BY <1>4 DEF WebhookBegin, t
  <2> QED
    BY <2>2, <2>3, SyncQuiet
<1>5. ASSUME NEW from \in 1..Len(bank), NEW to \in 1..Len(bank), CsvBegin(w, from, to)
      PROVE  SyncInv'
  <2> DEFINE q == SubSeq(bank, from, to)
             t == [Idle EXCEPT !.pc = "check", !.op = "csv", !.todo = q]
  <2>1. Goto(w, t) /\ UNCHANGED <<item, bank, rows>>
    BY <1>5 DEF CsvBegin
  <2> HIDE DEF q
  <2>2. t.here.row = NoItem /\ t.left = {} /\ t.op = "csv"
    BY DEF Idle
  <2> HIDE DEF t
  <2>3. HoldsIn(bank, rows, t)
    BY <1>0, <2>2 DEF HoldsIn
  <2> QED
    BY <2>1, <2>3, SyncQuiet
<1>6. CASE CronBegin(w)
  <2> DEFINE t == [Idle EXCEPT !.pc = "next", !.op = "cron",
                               !.left = {Read(i) : i \in CronFinds}]
  <2>1. t.here.row = NoItem /\ t.left = {Read(i) : i \in CronFinds} /\ t.pc = "next"
    BY DEF Idle
  <2>2. Goto(w, t) /\ UNCHANGED <<item, bank, rows>>
    BY <1>6 DEF CronBegin
  <2> HIDE DEF t
  <2>3. \A e \in t.left : CoveredIn(bank, rows, e.row.cursor)
    BY <2>1, ReadHolds DEF CronFinds
  <2>4. HoldsIn(bank, rows, t)
    BY <1>0, <2>1, <2>3 DEF HoldsIn
  <2> QED
    BY <2>2, <2>4, SyncQuiet
<1> QED
  BY <1>1, <1>2, <1>3, <1>4, <1>5, <1>6 DEF Begin

LEMMA StoreSync ==
    ASSUME TypeInv, SyncInv, NEW w \in Workers,
           \/ ExchangeFind(w) \/ ExchangeClashes(w) \/ ExchangeStore(w)
           \/ WebhookLook(w) \/ CronNext(w)
    PROVE  SyncInv'
<1>0. /\ task[w] \in Task /\ task[w].here.id \in Items
      /\ task[w].here \in Entity /\ task[w].here.row \in Item
  BY TaskTypes
<1>h. HoldsIn(bank, rows, task[w])
  BY DEF SyncInv
<1>r. CoveredIn(bank, rows, Read(task[w].here.id).row.cursor)
  BY <1>0, ReadHolds
<1>1. CASE ExchangeFind(w)
  <2> DEFINE t == [task[w] EXCEPT !.pc = "store", !.here = Read(task[w].here.id)]
  <2>1. t.here = Read(task[w].here.id) /\ t.left = task[w].left /\ t.pc = "store"
    BY <1>0 DEF Task
  <2> HIDE DEF t
  <2>2. HoldsIn(bank, rows, t)
    BY <2>1, <1>h, <1>r DEF HoldsIn
  <2>3. Goto(w, t) /\ UNCHANGED <<item, bank, rows>>
    BY <1>1 DEF ExchangeFind, t
  <2> QED
    BY <2>2, <2>3, SyncQuiet
<1>2. CASE ExchangeClashes(w)
  BY <1>2, IdleHolds, SyncQuiet DEF ExchangeClashes, End
<1>3. CASE ExchangeStore(w)
  <2> DEFINE h == [task[w].here EXCEPT !.row.status = "active"]
             t == [task[w] EXCEPT !.pc = "ask", !.here = h]
  <2>1. h.row.cursor = task[w].here.row.cursor
    BY <1>0 DEF Entity, Item
  <2>2. Goto(w, t) /\ Save(w, "active", task[w].here.row.cursor) /\ UNCHANGED <<bank, rows>>
    BY <1>3 DEF ExchangeStore
  <2> HIDE DEF h
  <2>3. t.here = h /\ t.left = task[w].left /\ t.pc = "ask"
    BY <1>0 DEF Task
  <2> HIDE DEF t
  <2>4. HoldsIn(bank, rows, t)
    BY <2>1, <2>3, <1>h DEF HoldsIn
  <2>5. CoveredIn(bank, rows, task[w].here.row.cursor)
    BY <1>h DEF HoldsIn
  <2> QED
    BY <2>2, <2>4, <2>5, SyncSave
<1>4. CASE WebhookLook(w)
  <2> DEFINE p == IF task[w].op = "updates" THEN "ask" ELSE "mark"
             t == [task[w] EXCEPT !.pc = p, !.here = Read(task[w].here.id)]
  <2>1. p \notin {"check", "insert"}
    OBVIOUS
  <2>2. Goto(w, Idle) \/ Goto(w, t)
    BY <1>4 DEF WebhookLook, End
  <2> HIDE DEF p
  <2>3. t.here = Read(task[w].here.id) /\ t.left = task[w].left /\ t.pc = p
    BY <1>0 DEF Task
  <2> HIDE DEF t
  <2>4. HoldsIn(bank, rows, t)
    BY <2>1, <2>3, <1>h, <1>r DEF HoldsIn
  <2>5. UNCHANGED <<item, bank, rows>>
    BY <1>4 DEF WebhookLook
  <2> QED
    BY <2>2, <2>4, <2>5, IdleHolds, SyncQuiet
<1>5. CASE CronNext(w)
  <2>1. CASE Goto(w, Idle)
    BY <1>5, <2>1, IdleHolds, SyncQuiet DEF CronNext
  <2>2. ASSUME NEW e \in task[w].left,
               Goto(w, [task[w] EXCEPT !.pc = "ask", !.here = e, !.left = @ \ {e}])
        PROVE  SyncInv'
    <3> DEFINE t == [task[w] EXCEPT !.pc = "ask", !.here = e, !.left = @ \ {e}]
    <3>1. t.here = e /\ t.left = task[w].left \ {e} /\ t.pc = "ask"
      BY <1>0 DEF Task
    <3>2. Goto(w, t) /\ UNCHANGED <<item, bank, rows>>
      BY <1>5, <2>2 DEF CronNext
    <3> HIDE DEF t
    <3>3. HoldsIn(bank, rows, t)
      BY <3>1, <1>h DEF HoldsIn
    <3> QED
      BY <3>2, <3>3, SyncQuiet
  <2> QED
    BY <1>5, <2>1, <2>2 DEF CronNext, End
<1> QED
  BY <1>1, <1>2, <1>3, <1>4, <1>5

\* What Plaid hands out from a covered cursor completes it.
LEMMA AskFetches ==
    ASSUME NEW bk \in Seq(Movements), NEW rs, NEW c \in Nat, CoveredIn(bk, rs, c)
    PROVE  FetchedIn(bk, rs, SubSeq(bk, c + 1, Len(bk)), Len(bk))
<1> DEFINE q == SubSeq(bk, c + 1, Len(bk))
<1>1. /\ Len(q) = IF c + 1 <= Len(bk) THEN Len(bk) - c ELSE 0
      /\ \A k \in 1..(Len(bk) - c) : q[k] = bk[c + k]
  <2>1. \A k \in (c + 1)..Len(bk) : bk[k] \in Movements
    OBVIOUS
  <2>2. c + 1 \in Int /\ Len(bk) \in Int
    OBVIOUS
  <2>3. /\ Len(q) = IF c + 1 <= Len(bk) THEN Len(bk) - (c + 1) + 1 ELSE 0
        /\ \A k \in 1..(Len(bk) - (c + 1) + 1) : q[k] = bk[(c + 1) + k - 1]
    BY <2>1, <2>2, SubSeqProperties
  <2> HIDE DEF q
  <2> QED
    BY <2>3
<1> HIDE DEF q
<1>2. ASSUME NEW n \in 1..Len(bk)
      PROVE  /\ n \in DOMAIN bk
             /\ StoredIn(rs, bk[n]) \/ \E k \in 1..Len(q) : q[k] = bk[n]
  <2>1. n \in DOMAIN bk
    OBVIOUS
  <2>2. CASE n \in 1..c
    BY <2>1, <2>2 DEF CoveredIn
  <2>3. CASE n > c
    <3>1. n - c \in 1..Len(q) /\ q[n - c] = bk[n]
      BY <1>1, <2>3
    <3> QED
      BY <2>1, <3>1
  <2> QED
    BY <2>2, <2>3
<1> QED
  BY <1>2 DEF FetchedIn, q

\* A row that is there, or has a lookalike, needs no import.
LEMMA TailFetches ==
    ASSUME NEW bk, NEW rs, NEW todo \in Seq(Movements), todo # <<>>, NEW c,
           FetchedIn(bk, rs, todo, c), StoredIn(rs, Head(todo))
    PROVE  FetchedIn(bk, rs, Tail(todo), c)
<1>1. /\ Len(Tail(todo)) = Len(todo) - 1
      /\ \A k \in 1..Len(Tail(todo)) : Tail(todo)[k] = todo[k + 1]
  BY HeadTailProperties
<1>2. ASSUME NEW k \in 1..Len(todo), NEW m, todo[k] = m
      PROVE  StoredIn(rs, m) \/ \E j \in 1..Len(Tail(todo)) : Tail(todo)[j] = m
  <2>1. CASE k = 1
    BY <1>2, <2>1
  <2>2. CASE k # 1
    <3>1. k - 1 \in 1..Len(Tail(todo)) /\ Tail(todo)[k - 1] = m
      BY <1>1, <1>2, <2>2
    <3> QED
      BY <3>1
  <2> QED
    BY <2>1, <2>2
<1> QED
  BY <1>2 DEF FetchedIn

\* What Plaid says of the movement a sync is about to insert.
LEMMA FeedLooks ==
    ASSUME TypeInv, NEW w \in Workers, task[w].op # "csv"
    PROVE  LookOf(NextRow(w)) = Look[Feed][Head(task[w].todo)] /\ NextRow(w).by # Csv
<1>1. task[w].here.id \in Items
  BY TaskTypes
<1>2. NextRow(w).by = task[w].here.id /\ NextRow(w).mov = Head(task[w].todo)
  BY DEF NextRow, RowOf
<1> QED
  BY <1>1, <1>2, CsvAssumption DEF LookOf

LEMMA DuplicateIsStored ==
    ASSUME TypeInv, NEW w \in Workers, task[w].todo # <<>>,
           task[w].op # "csv", Duplicate(NextRow(w))
    PROVE  StoredIn(rows, Head(task[w].todo))
<1>1. LookOf(NextRow(w)) = Look[Feed][Head(task[w].todo)] /\ NextRow(w).by # Csv
  BY FeedLooks
<1>2. ASSUME NEW s \in rows, SameFingerprint(NextRow(w), s)
      PROVE  Resembles(LookOf(NextRow(w)), LookOf(s))
  <2>1. s.by # Csv /\ s.mov = NextRow(w).mov
    BY <1>1, <1>2 DEF SameFingerprint
  <2>2. LookOf(s) = LookOf(NextRow(w))
    BY <1>1, <2>1 DEF LookOf
  <2> QED
    BY <2>2 DEF Resembles
<1> QED
  BY <1>1, <1>2 DEF Duplicate, HasFingerprint, HasLookalike, StoredIn

LEMMA RunSync ==
    ASSUME TypeInv, SyncInv, NEW w \in Workers,
           \/ Ask(w) \/ AskFails(w) \/ CheckRow(w) \/ InsertRow(w) \/ InsertClashes(w)
           \/ SaveCursor(w)
    PROVE  SyncInv'
<1>0. /\ task[w] \in Task /\ task[w].here.row.cursor \in Nat
      /\ task[w].todo \in Seq(Movements) /\ bank \in Seq(Movements)
  BY TaskTypes DEF TypeInv, TypeOK
<1>h. HoldsIn(bank, rows, task[w]) /\ CoveredIn(bank, rows, task[w].here.row.cursor)
  BY DEF SyncInv, HoldsIn
<1>1. CASE Ask(w)
  <2> DEFINE q == SubSeq(bank, task[w].here.row.cursor + 1, Len(bank))
             n == Len(bank)
             t == [task[w] EXCEPT !.pc = "check", !.upto = n, !.todo = q]
  <2>1. Goto(w, t) /\ UNCHANGED <<item, bank, rows>>
    BY <1>1 DEF Ask
  <2>2. FetchedIn(bank, rows, q, n)
    BY <1>0, <1>h, AskFetches
  <2> HIDE DEF q, n
  <2>3. /\ t.here = task[w].here /\ t.left = task[w].left
        /\ t.upto = n /\ t.todo = q
    BY <1>0 DEF Task
  <2> HIDE DEF t
  <2>4. HoldsIn(bank, rows, t)
    BY <2>2, <2>3, <1>h DEF HoldsIn
  <2> QED
    BY <2>1, <2>4, SyncQuiet
<1>2. CASE AskFails(w)
  <2> DEFINE st == IF plaid[task[w].here.id] = "login" THEN "login_required" ELSE "error"
  <2>1. Save(w, st, task[w].here.row.cursor) /\ UNCHANGED <<bank, rows>> /\ EndSync(w)
    BY <1>2 DEF AskFails
  <2> HIDE DEF st
  <2> QED
    BY <2>1, <1>h, EndSyncHolds, SyncSave
<1>3. CASE CheckRow(w)
  <2> DEFINE s == [task[w] EXCEPT !.pc = "check", !.todo = Tail(@)]
             t == [task[w] EXCEPT !.pc = "insert"]
  <2>1. task[w].todo # <<>> /\ task[w].pc = "check" /\ UNCHANGED <<item, bank, rows>>
    BY <1>3 DEF CheckRow, At
  <2>2. Goto(w, t) \/ (Duplicate(NextRow(w)) /\ Goto(w, s))
    BY <1>3, Zenon DEF CheckRow
  <2>3. CASE Goto(w, t)
    <3>1. /\ t.here = task[w].here /\ t.left = task[w].left /\ t.op = task[w].op
          /\ t.upto = task[w].upto /\ t.todo = task[w].todo
      BY <1>0 DEF Task
    <3> HIDE DEF t
    <3>2. HoldsIn(bank, rows, t)
      BY <2>1, <3>1, <1>h DEF HoldsIn
    <3> QED
      BY <2>1, <2>3, <3>2, SyncQuiet
  <2>4. CASE Duplicate(NextRow(w)) /\ Goto(w, s)
    <3>1. task[w].op # "csv" => StoredIn(rows, Head(task[w].todo))
      BY <2>1, <2>4, DuplicateIsStored
    <3>2. /\ s.here = task[w].here /\ s.left = task[w].left /\ s.op = task[w].op
          /\ s.upto = task[w].upto /\ s.todo = Tail(task[w].todo)
      BY <1>0 DEF Task
    <3> HIDE DEF s
    <3>3. HoldsIn(bank, rows, s)
      BY <1>0, <2>1, <3>1, <3>2, <1>h, TailFetches DEF HoldsIn
    <3> QED
      BY <2>1, <2>4, <3>3, SyncQuiet
  <2> QED
    BY <2>2, <2>3, <2>4
<1>4. CASE InsertRow(w)
  <2> DEFINE t == [task[w] EXCEPT !.pc = "check", !.todo = Tail(@)]
  <2>1. /\ task[w].todo # <<>> /\ task[w].pc = "insert"
        /\ Goto(w, t) /\ rows' = rows \cup {NextRow(w)} /\ UNCHANGED <<item, bank>>
    BY <1>4 DEF InsertRow, At, TypeInv
  <2>2. task[w].op # "csv" => StoredIn(rows', Head(task[w].todo))
    <3> SUFFICES ASSUME task[w].op # "csv" PROVE StoredIn(rows', Head(task[w].todo))
      OBVIOUS
    <3>1. NextRow(w) \in rows'
      BY <2>1
    <3>2. LookOf(NextRow(w)) = Look[Feed][Head(task[w].todo)]
      BY FeedLooks
    <3> QED
      BY <3>1, <3>2 DEF StoredIn, Resembles
  <2>3. HoldsIn(bank, rows', task[w])
    BY <2>1, <1>h, Grow
  <2>4. /\ t.here = task[w].here /\ t.left = task[w].left /\ t.op = task[w].op
        /\ t.upto = task[w].upto /\ t.todo = Tail(task[w].todo)
    BY <1>0 DEF Task
  <2> HIDE DEF t
  <2>5. HoldsIn(bank, rows', t)
    BY <1>0, <2>1, <2>2, <2>3, <2>4, TailFetches DEF HoldsIn
  <2>6. \A i \in Items : CoveredIn(bank, rows', item'[i].cursor)
    BY <2>1, Grow DEF SyncInv
  <2> QED
    BY <2>1, <2>5, <2>6, SyncMove
<1>5. CASE InsertClashes(w)
  BY <1>5, EndSyncHolds, SyncQuiet DEF InsertClashes
<1>6. CASE SaveCursor(w)
  <2>1. /\ Save(w, "active", task[w].upto) /\ UNCHANGED <<bank, rows>> /\ EndSync(w)
        /\ task[w].pc = "check" /\ task[w].todo = <<>> /\ task[w].op # "csv"
    BY <1>6 DEF SaveCursor, At
  <2>2. FetchedIn(bank, rows, <<>>, task[w].upto)
    BY <2>1, <1>h DEF HoldsIn
  <2>3. CoveredIn(bank, rows, task[w].upto)
    BY <2>2 DEF FetchedIn, CoveredIn
  <2> QED
    BY <2>1, <2>3, EndSyncHolds, SyncSave
<1> QED
  BY <1>1, <1>2, <1>3, <1>4, <1>5, <1>6

LEMMA EndsSync ==
    ASSUME TypeInv, SyncInv, NEW w \in Workers, CsvEnd(w) \/ DisconnectRemove(w) \/ Mark(w)
    PROVE  SyncInv'
<1>h. HoldsIn(bank, rows, task[w]) /\ CoveredIn(bank, rows, task[w].here.row.cursor)
  BY DEF SyncInv, HoldsIn
<1>1. CASE CsvEnd(w)
  BY <1>1, IdleHolds, SyncQuiet DEF CsvEnd, End
<1>2. CASE DisconnectRemove(w)
  <2> DEFINE t == [task[w] EXCEPT !.pc = "mark"]
  <2>1. t.here = task[w].here /\ t.left = task[w].left /\ t.pc = "mark"
    BY TaskTypes DEF Task
  <2>2. Goto(w, t) /\ UNCHANGED <<item, bank, rows>>
    BY <1>2 DEF DisconnectRemove
  <2> HIDE DEF t
  <2>3. HoldsIn(bank, rows, t)
    BY <2>1, <1>h DEF HoldsIn
  <2> QED
    BY <2>2, <2>3, SyncQuiet
<1>3. CASE Mark(w)
  <2> DEFINE st == IF task[w].op = "disconnect" THEN "revoked" ELSE "login_required"
  <2>1. Save(w, st, task[w].here.row.cursor) /\ UNCHANGED <<bank, rows>> /\ Goto(w, Idle)
    BY <1>3 DEF Mark, End
  <2> HIDE DEF st
  <2> QED
    BY <2>1, <1>h, IdleHolds, SyncSave
<1> QED
  BY <1>1, <1>2, <1>3

LEMMA WorldSync ==
    ASSUME TypeInv, SyncInv, World
    PROVE  SyncInv'
<1>1. ASSUME NEW m \in Movements, Post(m)
      PROVE  SyncInv'
  <2>1. bank' = Append(bank, m) /\ UNCHANGED <<item, rows, task>> /\ bank \in Seq(Movements)
    BY <1>1 DEF Post, TypeInv, TypeOK
  <2>2. DOMAIN bank \subseteq DOMAIN bank' /\ \A n \in DOMAIN bank : bank'[n] = bank[n]
    BY <2>1
  <2>3. \A i \in Items : CoveredIn(bank', rows', item[i].cursor)
    BY <2>1, <2>2, Grow DEF SyncInv
  <2>4. \A w \in Workers : HoldsIn(bank', rows', task[w])
    BY <2>1, <2>2, Grow DEF SyncInv
  <2> QED
    BY <2>1, <2>3, <2>4 DEF SyncInv
<1>2. ASSUME NEW i \in Items, BankWantsLogin(i) \/ LoginAgain(i)
      PROVE  SyncInv'
  BY <1>2 DEF BankWantsLogin, LoginAgain, SyncInv
<1>3. CASE Crash
  BY <1>3, IdleHolds DEF Crash, SyncInv
<1> QED
  BY <1>1, <1>2, <1>3 DEF World

LEMMA SyncStep ==
    ASSUME TypeInv, SyncInv, [Next]_vars
    PROVE  SyncInv'
<1>1. CASE World
  BY <1>1, WorldSync
<1>2. ASSUME NEW w \in Workers, Begin(w) \/ Continue(w)
      PROVE  SyncInv'
  BY <1>2, BeginSync, StoreSync, RunSync, EndsSync DEF Continue
<1>3. CASE UNCHANGED vars
  BY <1>3 DEF vars, SyncInv
<1> QED
  BY <1>1, <1>2, <1>3 DEF Next

\* Whatever handlers overlap, fail or crash, a movement that the stored cursor
\* has passed has its row or that of a lookalike.
THEOREM SyncedIsStoredAlways == Spec => []SyncedIsStored
<1>1. Init => SyncInv
  <2> SUFFICES ASSUME Init PROVE SyncInv
    OBVIOUS
  <2>1. \A i \in Items : item[i].cursor = 0
    BY DEF Init, NoItem
  <2> QED
    BY <2>1, IdleHolds DEF Init, SyncInv, CoveredIn
<1>2. SyncInv => SyncedIsStored
  BY DEF SyncInv, SyncedIsStored, CoveredIn, StoredIn, Recorded
<1> QED
  BY <1>1, <1>2, SyncStep, TypeInvAlways, PTL DEF Spec


-----------------------------------------------------------------------------
(* One handler at a time: crashes and webhooks fall anywhere, but nobody      *)
(* writes an item or a movement between the steps of a handler.               *)

OneAtATime == \A v, w \in Workers : v = w

\* Who may save an item over what it holds, but a new connection or a disconnection.
Saves(t) ==
    \/ t.pc = "ask"
    \/ t.pc \in {"check", "insert"} /\ t.op # "csv"
    \/ t.pc = "mark" /\ t.op # "disconnect"

\* No item is revoked that the handler goes on to save; the movement that it is about to
\* insert has no lookalike.
SoleOK(its, rs, t) ==
    /\ Saves(t) => its[t.here.id].status # "revoked"
    /\ t.pc = "remove" => t.op = "disconnect"
    /\ \A e \in t.left : its[e.id].status # "revoked"
    /\ t.pc = "insert" => \A s \in rs : ~Resembles(LookOf(RowOf(t)), LookOf(s))

SoleInv == ImportedOnce /\ \A w \in Workers : SoleOK(item, rows, task[w])

Returns(i) ==
    item[i].status = "revoked" /\ item'[i].status # "revoked"
        => \E w \in Workers : task[w].pc = "store" /\ task[w].here.id = i

RevokedStep ==
    \A i \in Items : item[i].status = "revoked" /\ item'[i].status # "revoked"
          => \E w \in Workers : /\ task[w].pc = "store"
                                /\ task[w].here.id = i

SoleStep == SoleInv' /\ \A i \in Items : Returns(i)

LEMMA IdleSole == ASSUME NEW its, NEW rs PROVE SoleOK(its, rs, Idle)
<1>1. Idle.left = {} /\ Idle.pc = "idle"
  BY DEF Idle
<1> QED
  BY <1>1 DEF SoleOK, Saves

\* The only handler moves on to t.
LEMMA SoleMove ==
    ASSUME OneAtATime, TypeInv, SoleInv, NEW w \in Workers, NEW t, Goto(w, t),
           SoleOK(item, rows, t), UNCHANGED <<item, rows>>
    PROVE  SoleStep
<1>1. \A v \in Workers : task'[v] = t
  BY DEF Goto, OneAtATime, TypeInv, TypeOK
<1>2. ImportedOnce'
  BY DEF SoleInv, ImportedOnce
<1> QED
  BY <1>1, <1>2 DEF SoleStep, SoleInv, Returns

\* It saves an item that is not revoked, or a new connection, or revokes it.
LEMMA SoleSave ==
    ASSUME OneAtATime, TypeInv, SoleInv, NEW w \in Workers, NEW t, Goto(w, t),
           NEW st, NEW c, Save(w, st, c), UNCHANGED rows,
           \A its : (/\ its[task[w].here.id].status = st
                     /\ \A i \in Items \ {task[w].here.id} : its[i] = item[i])
                         => SoleOK(its, rows, t),
           \/ task[w].pc = "store" \/ st = "revoked"
           \/ item[task[w].here.id].status # "revoked"
    PROVE  SoleStep
<1> DEFINE j == task[w].here.id
<1>0. j \in Items
  BY TaskTypes
<1>1. \A v \in Workers : task'[v] = t
  BY DEF Goto, OneAtATime, TypeInv, TypeOK
<1>2. ImportedOnce'
  BY DEF SoleInv, ImportedOnce
<1>3. item'[j].status = st /\ \A i \in Items \ {j} : item'[i] = item[i]
  BY <1>0 DEF Save, TypeInv, TypeOK, Item
<1>4. SoleOK(item', rows, t)
  BY <1>3
<1>5. \A i \in Items : Returns(i)
  BY <1>3 DEF Returns
<1> QED
  BY <1>1, <1>2, <1>4, <1>5 DEF SoleStep, SoleInv

LEMMA EndSyncSole ==
    ASSUME TypeInv, NEW w \in Workers, EndSync(w)
    PROVE  \E t : /\ Goto(w, t) /\ t.pc \in {"next", "idle"}
                  /\ t.left = task[w].left \/ t.left = {}
<1>1. CASE task[w].op = "cron"
  <2> DEFINE t == [task[w] EXCEPT !.pc = "next", !.todo = <<>>]
  <2>1. t.left = task[w].left /\ t.pc = "next"
    BY TaskTypes DEF Task
  <2> HIDE DEF t
  <2>2. Goto(w, t)
    BY <1>1 DEF EndSync, t
  <2> QED
    BY <2>1, <2>2
<1>2. CASE task[w].op # "cron"
  <2>1. Idle.left = {} /\ Idle.pc = "idle"
    BY DEF Idle
  <2> QED
    BY <1>2, <2>1 DEF EndSync, End
<1> QED
  BY <1>1, <1>2

\* A sync ends with what it saves; the items it has not come to are as they were.
LEMMA SoleEndSync ==
    ASSUME OneAtATime, TypeInv, SoleInv, NEW w \in Workers, EndSync(w), UNCHANGED rows,
           item[task[w].here.id].status # "revoked",
           \/ UNCHANGED item
           \/ \E st \in {"active", "error", "login_required"}, c \in Nat : Save(w, st, c)
    PROVE  SoleStep
<1> PICK t : /\ Goto(w, t) /\ t.pc \in {"next", "idle"}
             /\ t.left = task[w].left \/ t.left = {}
  BY EndSyncSole
<1>1. SoleOK(item, rows, task[w])
  BY DEF SoleInv
<1>2. \A e \in t.left : e.id \in Items /\ item[e.id].status # "revoked"
  BY <1>1, TaskTypes DEF SoleOK, Saves, Entity
<1>3. CASE UNCHANGED item
  BY <1>2, <1>3, SoleMove DEF SoleOK, Saves
<1>4. ASSUME NEW st \in {"active", "error", "login_required"}, NEW c \in Nat, Save(w, st, c)
      PROVE  SoleStep
  <2>1. ASSUME NEW its, its[task[w].here.id].status = st,
               \A i \in Items \ {task[w].here.id} : its[i] = item[i]
        PROVE  SoleOK(its, rows, t)
    BY <1>2, <2>1 DEF SoleOK, Saves
  <2> QED
    BY <1>4, <2>1, SoleSave
<1> QED
  BY <1>3, <1>4

LEMMA BeginSole ==
    ASSUME OneAtATime, TypeInv, SoleInv, NEW w \in Workers, Begin(w)
    PROVE  SoleStep
<1>1. ASSUME NEW i \in Items, ExchangeBegin(w, i)
      PROVE  SoleStep
  <2> DEFINE t == [Idle EXCEPT !.pc = "find", !.op = "exchange",
                               !.here = [id |-> i, row |-> NoItem]]
  <2>1. t.left = {} /\ t.pc = "find"
    BY DEF Idle
  <2>2. Goto(w, t) /\ UNCHANGED <<item, rows>>
    BY <1>1 DEF ExchangeBegin
  <2> HIDE DEF t
  <2> QED
    BY <2>1, <2>2, SoleMove DEF SoleOK, Saves
<1>2. ASSUME NEW i \in Items, SyncBegin(w, i)
      PROVE  SoleStep
  <2> DEFINE t == [Idle EXCEPT !.pc = "ask", !.op = "sync", !.here = Read(i)]
  <2>1. t.here.id = i /\ t.left = {} /\ t.pc = "ask"
    BY DEF Idle, Read
  <2>2. Goto(w, t) /\ UNCHANGED <<item, rows>> /\ item[i].status # "revoked"
    BY <1>2 DEF SyncBegin
  <2> HIDE DEF t
  <2> QED
    BY <2>1, <2>2, SoleMove DEF SoleOK, Saves
<1>3. ASSUME NEW i \in Items, DisconnectBegin(w, i)
      PROVE  SoleStep
  <2> DEFINE t == [Idle EXCEPT !.pc = "remove", !.op = "disconnect", !.here = Read(i)]
  <2>1. t.op = "disconnect" /\ t.left = {} /\ t.pc = "remove"
    BY DEF Idle
  <2>2. Goto(w, t) /\ UNCHANGED <<item, rows>>
    BY <1>3 DEF DisconnectBegin
  <2> HIDE DEF t
  <2> QED
    BY <2>1, <2>2, SoleMove DEF SoleOK, Saves
<1>4. ASSUME NEW b \in sent, WebhookBegin(w, b)
      PROVE  SoleStep
  <2> DEFINE t == [Idle EXCEPT !.pc = "look", !.here = [id |-> b.item, row |-> NoItem],
                      !.op = IF b.code = "updates" THEN "updates" ELSE "login"]
  <2>1. t.left = {} /\ t.pc = "look"
    BY DEF Idle
  <2>2. Goto(w, t) /\ UNCHANGED <<item, rows>>
    BY <1>4 DEF WebhookBegin
  <2> HIDE DEF t
  <2> QED
    BY <2>1, <2>2, SoleMove DEF SoleOK, Saves
<1>5. ASSUME NEW from \in 1..Len(bank), NEW to \in 1..Len(bank), CsvBegin(w, from, to)
      PROVE  SoleStep
  <2> DEFINE q == SubSeq(bank, from, to)
             t == [Idle EXCEPT !.pc = "check", !.op = "csv", !.todo = q]
  <2>1. Goto(w, t) /\ UNCHANGED <<item, rows>>
    BY <1>5 DEF CsvBegin
  <2> HIDE DEF q
  <2>2. t.left = {} /\ t.op = "csv" /\ t.pc = "check"
    BY DEF Idle
  <2> HIDE DEF t
  <2> QED
    BY <2>1, <2>2, SoleMove DEF SoleOK, Saves
<1>6. CASE CronBegin(w)
  <2> DEFINE t == [Idle EXCEPT !.pc = "next", !.op = "cron",
                               !.left = {Read(i) : i \in CronFinds}]
  <2>1. t.left = {Read(i) : i \in CronFinds} /\ t.pc = "next"
    BY DEF Idle
  <2>2. Goto(w, t) /\ UNCHANGED <<item, rows>>
    BY <1>6 DEF CronBegin
  <2> HIDE DEF t
  <2>3. \A e \in t.left : item[e.id].status # "revoked"
    BY <2>1 DEF CronFinds, Read
  <2> QED
    BY <2>1, <2>2, <2>3, SoleMove DEF SoleOK, Saves
<1> QED
  BY <1>1, <1>2, <1>3, <1>4, <1>5, <1>6 DEF Begin

LEMMA StoreSole ==
    ASSUME OneAtATime, TypeInv, SoleInv, NEW w \in Workers,
           \/ ExchangeFind(w) \/ ExchangeClashes(w) \/ ExchangeStore(w)
           \/ WebhookLook(w) \/ CronNext(w)
    PROVE  SoleStep
<1>0. /\ task[w] \in Task /\ task[w].here.id \in Items
      /\ task[w].here \in Entity /\ task[w].here.row \in Item
  BY TaskTypes
<1>h. SoleOK(item, rows, task[w])
  BY DEF SoleInv
<1>l. \A e \in task[w].left : e.id \in Items /\ item[e.id].status # "revoked"
  BY <1>h, TaskTypes DEF SoleOK, Saves, Entity
<1>1. CASE ExchangeFind(w)
  <2> DEFINE t == [task[w] EXCEPT !.pc = "store", !.here = Read(task[w].here.id)]
  <2>1. t.left = task[w].left /\ t.pc = "store"
    BY <1>0 DEF Task
  <2>2. Goto(w, t) /\ UNCHANGED <<item, rows>>
    BY <1>1 DEF ExchangeFind
  <2> HIDE DEF t
  <2> QED
    BY <1>l, <2>1, <2>2, SoleMove DEF SoleOK, Saves
<1>2. CASE ExchangeClashes(w)
  BY <1>2, IdleSole, SoleMove DEF ExchangeClashes, End
<1>3. CASE ExchangeStore(w)
  <2> DEFINE h == [task[w].here EXCEPT !.row.status = "active"]
             t == [task[w] EXCEPT !.pc = "ask", !.here = h]
  <2>1. h.id = task[w].here.id
    BY <1>0 DEF Entity
  <2>2. /\ Goto(w, t) /\ Save(w, "active", task[w].here.row.cursor) /\ UNCHANGED rows
        /\ task[w].pc = "store"
    BY <1>3 DEF ExchangeStore, At
  <2> HIDE DEF h
  <2>3. t.here = h /\ t.left = task[w].left /\ t.pc = "ask"
    BY <1>0 DEF Task
  <2> HIDE DEF t
  <2>4. ASSUME NEW its, its[task[w].here.id].status = "active",
               \A i \in Items \ {task[w].here.id} : its[i] = item[i]
        PROVE  SoleOK(its, rows, t)
    BY <1>l, <2>1, <2>3, <2>4 DEF SoleOK, Saves
  <2> QED
    BY <2>2, <2>4, SoleSave
<1>4. CASE WebhookLook(w)
  <2> DEFINE p == IF task[w].op = "updates" THEN "ask" ELSE "mark"
             i == task[w].here.id
             t == [task[w] EXCEPT !.pc = p, !.here = Read(i)]
  <2>1. Goto(w, Idle) \/ (Goto(w, t) /\ item[i].status # "revoked")
    BY <1>4 DEF WebhookLook, End, Ignored
  <2>2. p \in {"ask", "mark"} /\ Read(i).id = i /\ UNCHANGED <<item, rows>>
    BY <1>4 DEF Read, WebhookLook
  <2> HIDE DEF p
  <2>3. t.here = Read(i) /\ t.left = task[w].left /\ t.pc = p
    BY <1>0 DEF Task
  <2> HIDE DEF t
  <2>4. item[i].status # "revoked" => SoleOK(item, rows, t)
    BY <1>l, <2>2, <2>3 DEF SoleOK, Saves
  <2> QED
    BY <2>1, <2>2, <2>4, IdleSole, SoleMove
<1>5. CASE CronNext(w)
  <2>1. CASE Goto(w, Idle)
    BY <1>5, <2>1, IdleSole, SoleMove DEF CronNext
  <2>2. ASSUME NEW e \in task[w].left,
               Goto(w, [task[w] EXCEPT !.pc = "ask", !.here = e, !.left = @ \ {e}])
        PROVE  SoleStep
    <3> DEFINE t == [task[w] EXCEPT !.pc = "ask", !.here = e, !.left = @ \ {e}]
    <3>1. t.here = e /\ t.left = task[w].left \ {e} /\ t.pc = "ask"
      BY <1>0 DEF Task
    <3>2. Goto(w, t) /\ UNCHANGED <<item, rows>>
      BY <1>5, <2>2 DEF CronNext
    <3> HIDE DEF t
    <3> QED
      BY <1>l, <3>1, <3>2, SoleMove DEF SoleOK, Saves
  <2> QED
    BY <1>5, <2>1, <2>2 DEF CronNext, End
<1> QED
  BY <1>1, <1>2, <1>3, <1>4, <1>5

LEMMA RunSole ==
    ASSUME OneAtATime, TypeInv, SoleInv, NEW w \in Workers,
           \/ Ask(w) \/ AskFails(w) \/ CheckRow(w) \/ InsertRow(w) \/ InsertClashes(w)
           \/ SaveCursor(w)
    PROVE  SoleStep
<1>0. /\ task[w] \in Task /\ task[w].here.row.cursor \in Nat /\ task[w].upto \in Nat
      /\ task[w].todo \in Seq(Movements)
  BY TaskTypes
<1>h. SoleOK(item, rows, task[w])
  BY DEF SoleInv
<1>l. \A e \in task[w].left : item[e.id].status # "revoked"
  BY <1>h DEF SoleOK, Saves
<1>1. CASE Ask(w)
  <2> DEFINE q == SubSeq(bank, task[w].here.row.cursor + 1, Len(bank))
             n == Len(bank)
             t == [task[w] EXCEPT !.pc = "check", !.upto = n, !.todo = q]
  <2>1. Goto(w, t) /\ UNCHANGED <<item, rows>> /\ task[w].pc = "ask"
    BY <1>1 DEF Ask, At
  <2> HIDE DEF q, n
  <2>2. t.here = task[w].here /\ t.left = task[w].left /\ t.pc = "check"
    BY <1>0 DEF Task
  <2> HIDE DEF t
  <2> QED
    BY <1>h, <2>1, <2>2, SoleMove DEF SoleOK, Saves
<1>2. CASE AskFails(w)
  <2> DEFINE st == IF plaid[task[w].here.id] = "login" THEN "login_required" ELSE "error"
  <2>1. /\ Save(w, st, task[w].here.row.cursor) /\ UNCHANGED rows /\ EndSync(w)
        /\ task[w].pc = "ask" /\ st \in {"active", "error", "login_required"}
    BY <1>2 DEF AskFails, At
  <2> HIDE DEF st
  <2>2. item[task[w].here.id].status # "revoked"
    BY <1>h, <2>1 DEF SoleOK, Saves
  <2> QED
    BY <1>0, <2>1, <2>2, SoleEndSync
<1>3. CASE CheckRow(w)
  <2> DEFINE s == [task[w] EXCEPT !.pc = "check", !.todo = Tail(@)]
             t == [task[w] EXCEPT !.pc = "insert"]
  <2>1. task[w].pc = "check" /\ UNCHANGED <<item, rows>>
    BY <1>3 DEF CheckRow, At
  <2>2. (~Duplicate(NextRow(w)) /\ Goto(w, t)) \/ Goto(w, s)
    BY <1>3, Zenon DEF CheckRow
  <2>3. CASE ~Duplicate(NextRow(w)) /\ Goto(w, t)
    <3>1. /\ t.here = task[w].here /\ t.left = task[w].left /\ t.op = task[w].op
          /\ t.todo = task[w].todo /\ t.pc = "insert"
      BY <1>0 DEF Task
    <3> HIDE DEF t
    <3>2. RowOf(t) = NextRow(w)
      BY <3>1 DEF NextRow, RowOf
    <3>3. \A r \in rows : ~Resembles(LookOf(RowOf(t)), LookOf(r))
      BY <2>3, <3>2 DEF Duplicate, HasLookalike
    <3> QED
      BY <1>h, <2>1, <2>3, <3>1, <3>3, SoleMove DEF SoleOK, Saves
  <2>4. CASE Goto(w, s)
    <3>1. /\ s.here = task[w].here /\ s.left = task[w].left /\ s.op = task[w].op
          /\ s.pc = "check"
      BY <1>0 DEF Task
    <3> HIDE DEF s
    <3> QED
      BY <1>h, <2>1, <2>4, <3>1, SoleMove DEF SoleOK, Saves
  <2> QED
    BY <2>2, <2>3, <2>4
<1>4. CASE InsertRow(w)
  <2> DEFINE t == [task[w] EXCEPT !.pc = "check", !.todo = Tail(@)]
  <2>1. /\ task[w].pc = "insert" /\ Goto(w, t)
        /\ rows' = rows \cup {NextRow(w)} /\ UNCHANGED item
    BY <1>4 DEF InsertRow, At
  <2>3. \A r \in rows : LookOf(r) # LookOf(NextRow(w))
    BY <1>h, <2>1 DEF SoleOK, NextRow, Resembles
  <2>4. ImportedOnce'
    BY <2>1, <2>3 DEF SoleInv, ImportedOnce
  <2>5. /\ t.here = task[w].here /\ t.left = task[w].left /\ t.op = task[w].op
        /\ t.pc = "check"
    BY <1>0 DEF Task
  <2> HIDE DEF t
  <2>6. SoleOK(item, rows', t)
    BY <1>h, <2>1, <2>5 DEF SoleOK, Saves
  <2>7. \A v \in Workers : task'[v] = t
    BY <2>1 DEF Goto, OneAtATime, TypeInv, TypeOK
  <2> QED
    BY <2>1, <2>4, <2>6, <2>7 DEF SoleStep, SoleInv, Returns
<1>5. CASE InsertClashes(w)
  <2> PICK t : /\ Goto(w, t) /\ t.pc \in {"next", "idle"}
               /\ t.left = task[w].left \/ t.left = {}
    BY <1>5, EndSyncSole DEF InsertClashes
  <2>1. UNCHANGED <<item, rows>>
    BY <1>5 DEF InsertClashes
  <2> QED
    BY <1>l, <2>1, SoleMove DEF SoleOK, Saves
<1>6. CASE SaveCursor(w)
  <2>1. /\ Save(w, "active", task[w].upto) /\ UNCHANGED rows /\ EndSync(w)
        /\ task[w].pc = "check" /\ task[w].op # "csv"
    BY <1>6 DEF SaveCursor, At
  <2>2. item[task[w].here.id].status # "revoked"
    BY <1>h, <2>1 DEF SoleOK, Saves
  <2> QED
    BY <1>0, <2>1, <2>2, SoleEndSync
<1> QED
  BY <1>1, <1>2, <1>3, <1>4, <1>5, <1>6

LEMMA EndSole ==
    ASSUME OneAtATime, TypeInv, SoleInv, NEW w \in Workers,
           CsvEnd(w) \/ DisconnectRemove(w) \/ Mark(w)
    PROVE  SoleStep
<1>h. SoleOK(item, rows, task[w])
  BY DEF SoleInv
<1>1. CASE CsvEnd(w)
  BY <1>1, IdleSole, SoleMove DEF CsvEnd, End
<1>2. CASE DisconnectRemove(w)
  <2> DEFINE t == [task[w] EXCEPT !.pc = "mark"]
  <2>1. Goto(w, t) /\ UNCHANGED <<item, rows>> /\ task[w].pc = "remove"
    BY <1>2 DEF DisconnectRemove, At
  <2>2. t.op = task[w].op /\ t.left = task[w].left /\ t.pc = "mark"
    BY TaskTypes DEF Task
  <2> HIDE DEF t
  <2> QED
    BY <1>h, <2>1, <2>2, SoleMove DEF SoleOK, Saves
<1>3. CASE Mark(w)
  <2> DEFINE st == IF task[w].op = "disconnect" THEN "revoked" ELSE "login_required"
  <2>1. /\ Save(w, st, task[w].here.row.cursor) /\ Goto(w, Idle) /\ UNCHANGED rows
        /\ task[w].pc = "mark"
    BY <1>3 DEF Mark, At, End
  <2>2. st = "revoked" \/ item[task[w].here.id].status # "revoked"
    BY <1>h, <2>1 DEF SoleOK, Saves
  <2> HIDE DEF st
  <2>3. \A its : SoleOK(its, rows, Idle)
    BY IdleSole
  <2> QED
    BY <2>1, <2>2, <2>3, SoleSave
<1> QED
  BY <1>1, <1>2, <1>3

LEMMA WorldSole ==
    ASSUME SoleInv, World
    PROVE  SoleStep
<1>1. UNCHANGED <<item, rows>>
  BY DEF World, Post, BankWantsLogin, LoginAgain, Crash
<1>2. UNCHANGED task \/ task' = [w \in Workers |-> Idle]
  BY DEF World, Post, BankWantsLogin, LoginAgain, Crash
<1>3. \A w \in Workers : SoleOK(item, rows, task'[w])
  BY <1>2, IdleSole DEF SoleInv
<1> QED
  BY <1>1, <1>3 DEF SoleStep, SoleInv, ImportedOnce, Returns

LEMMA SoleNext ==
    ASSUME OneAtATime, TypeInv, SoleInv, [Next]_vars
    PROVE  SoleStep
<1>1. CASE World
  BY <1>1, WorldSole
<1>2. ASSUME NEW w \in Workers, Begin(w) \/ Continue(w)
      PROVE  SoleStep
  BY <1>2, BeginSole, StoreSole, RunSole, EndSole DEF Continue
<1>3. CASE UNCHANGED vars
  <2>1. UNCHANGED <<item, rows, task>>
    BY <1>3 DEF vars
  <2> QED
    BY <2>1 DEF SoleStep, SoleInv, ImportedOnce, Returns
<1> QED
  BY <1>1, <1>2, <1>3 DEF Next

LEMMA SoleAlways ==
    ASSUME OneAtATime
    PROVE  Spec => []SoleInv
<1>1. Init => SoleInv
  <2> SUFFICES ASSUME Init
               PROVE  SoleInv
    OBVIOUS
  <2>1. rows = {} /\ \A w \in Workers : task[w] = Idle
    BY DEF Init
  <2> QED
    BY <2>1, IdleSole DEF SoleInv, ImportedOnce
<1>2. TypeInv /\ SoleInv /\ [Next]_vars => SoleInv'
  BY SoleNext DEF SoleStep
<1> QED
  BY <1>1, <1>2, TypeInvAlways, PTL DEF Spec

\* While handlers take turns two rows of one movement come from the two sources, which
\* describe it differently: whatever crashed or failed in the middle, and for any number
\* of statements and connections (hasCrossSourceDuplicate is asked right before the
\* insert).
THEOREM ImportedOnceSerially ==
    ASSUME OneAtATime
    PROVE  Spec => []ImportedOnce
<1>1. SoleInv => ImportedOnce
  BY DEF SoleInv
<1> QED
  BY <1>1, SoleAlways, PTL

\* While handlers take turns only the client's own reconnection, exchangePublicToken,
\* makes a disconnected item anything else.
THEOREM RevokedStaysSerially ==
    ASSUME OneAtATime
    PROVE  Spec => RevokedStaysRevoked
<1>1. TypeInv /\ SoleInv /\ [Next]_vars => [RevokedStep]_vars
  BY SoleNext DEF SoleStep, Returns, RevokedStep
<1> QED
  BY <1>1, SoleAlways, TypeInvAlways, PTL DEF Spec, RevokedStaysRevoked, RevokedStep
=============================================================================
