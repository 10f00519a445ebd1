----------------------------- MODULE Books_proofs -----------------------------
(***************************************************************************)
(* What is entered and what is added up.  Part I: Classification, the      *)
(* codes of bank movements and the report made of them.  Part II:          *)
(* Invoicing, the totals and the payments of invoices.                     *)
(***************************************************************************)
EXTENDS Classification, Invoicing, Sums, TLAPS

-----------------------------------------------------------------------------
(***************************************************************************)
(* Part I: Classification, for any number of movements, codes and handlers *)
(* that overlap.  It is well typed, and a movement in review is open.      *)
(*                                                                         *)
(* The argument: a bulk run writes back rows it listed when they had no    *)
(* code (ListedOpen), so what it leaves in review has none; every other    *)
(* handler takes a movement out of review.                                 *)
(*                                                                         *)
(* And where no handlers overlap, a bulk run saves what the rules of that  *)
(* moment say: the rules it read, and the rows it listed, are then still   *)
(* the stored ones (Fresh), because nobody else is at work (Alone).        *)
(*                                                                         *)
(* The report adds up in every well-typed state: the lines of its codes    *)
(* partition the movements that have one (LinesAddUp), and income, cost,   *)
(* cost in credit and transfers partition the lines (ReportAddsUp).        *)
(***************************************************************************)

Step(w) ==
    \/ StartBulk(w) \/ StartPatch(w) \/ StartApprove(w) \/ StartReject(w)
    \/ StartApproveAll(w)
    \/ Learn(w) \/ ReadRules(w) \/ BulkRow(w)
    \/ FindRule(w) \/ KeepRule(w) \/ SaveDecision(w)
    \/ ResetOrphans(w) \/ ListReview(w) \/ ApproveNext(w) \/ EndRun(w)
    \/ Crash(w)

\* The step of a bulk run on the movement it listed as m, answered by r.
RowDone(w, m, r) ==
    LET spent == r.answer.source = "ai"
        left == IF r.error = "429" THEN 0 ELSE task[w].ai
    IN  /\ rows' = IF r.answer.code = NoCode THEN rows
                   ELSE [rows EXCEPT ![m.tx] = Judged(m.row, r.answer)]
        /\ task' = [task EXCEPT
              ![w].ai = IF spent /\ left > 0 THEN left - 1 ELSE left,
              ![w].todo = @ \ {m}]

LEMMA CodesType ==
    /\ NoCode \in Maybe /\ Interco \in Maybe /\ Sales \in Maybe /\ Codes \subseteq Maybe
    /\ \A c \in Codes : c # NoCode
BY CodesAssumption DEF Maybe

LEMMA RowTypes == Imported \in Row /\ Orphan \in Row /\ Pending \in Row
BY CodesType DEF Imported, Orphan, Pending, Row

LEMMA IdleType == Idle \in Task /\ Idle.pc = "idle" /\ Idle.op = "none"
<1>1. (CHOOSE t \in Txs : TRUE) \in Txs
  BY TxsAssumption
<1>2. NoRules \in [Payees -> Maybe]
  BY CodesType DEF NoRules
<1>3. 0 \in 0..MaxAi
  BY BoundsAssumption
<1> QED
  BY <1>1, <1>2, <1>3, RowTypes, CodesType DEF Idle, Task

LEMMA InitType == Init => TypeOK
<1> SUFFICES ASSUME Init PROVE TypeOK
  OBVIOUS
<1>1. rows \in [Txs -> Row]
  BY RowTypes DEF Init
<1>2. rules \in [Payees -> Maybe]
  BY CodesType DEF Init, NoRules
<1>3. task \in [Workers -> Task]
  BY IdleType DEF Init
<1>4. calls \in 0..Calls[world]
  BY BoundsAssumption DEF Init
<1> QED
  BY <1>1, <1>2, <1>3, <1>4 DEF Init, TypeOK

LEMMA CallsType ==
    ASSUME TypeOK, calls < Calls[world], calls' = calls + 1, world' = world
    PROVE  calls' \in 0..Calls[world']
BY BoundsAssumption DEF TypeOK

LEMMA TaskTypes ==
    ASSUME TypeOK, NEW w \in Workers
    PROVE  /\ task[w] \in Task
           /\ task[w].tx \in Txs /\ task[w].snap \in Row /\ task[w].code \in Maybe
           /\ task[w].todo \subseteq [tx: Txs, row: Row]
           /\ task[w].known \in [Payees -> Maybe] /\ task[w].cat \subseteq Codes
           /\ task[w].ai \in 0..MaxAi
BY DEF TypeOK, Task

\* A handler moves on.
LEMMA MoveType ==
    ASSUME TypeOK, NEW w \in Workers, NEW t \in Task, task' = [task EXCEPT ![w] = t],
           rows' \in [Txs -> Row], rules' \in [Payees -> Maybe],
           UNCHANGED <<world, catalog>>, calls' \in 0..Calls[world]
    PROVE  TypeOK'
BY DEF TypeOK

LEMMA ListedType ==
    ASSUME TypeOK, NEW ts \in SUBSET Txs
    PROVE  Listed(ts) \subseteq [tx: Txs, row: Row]
BY DEF Listed, TypeOK

LEMMA DecidingType ==
    ASSUME TypeOK, NEW op \in {"patch", "approve", "reject", "approveAll"},
           NEW t \in Txs, NEW c \in Maybe
    PROVE  /\ Deciding(op, t, c) \in Task
           /\ Deciding(op, t, c).op = op
           /\ Deciding(op, t, c).pc \in {"find", "save"}
<1>1. rows[t] \in Row
  BY DEF TypeOK
<1> QED
  BY <1>1, IdleType DEF Deciding, Task

LEMMA StartType ==
    ASSUME TypeOK, NEW w \in Workers, NEW t \in Task, CanStart(w), Start(w, t)
    PROVE  TypeOK'
<1>1. calls' \in 0..Calls[world]
  BY CallsType DEF CanStart, Start
<1> QED
  BY <1>1, MoveType DEF Start, TypeOK

LEMMA StopType ==
    ASSUME TypeOK, NEW w \in Workers, Stop(w), rows' \in [Txs -> Row],
           rules' \in [Payees -> Maybe],
           UNCHANGED <<world, catalog>>, calls' \in 0..Calls[world]
    PROVE  TypeOK'
BY MoveType, IdleType DEF Stop

LEMMA PcType ==
    ASSUME NEW t \in Task,
           NEW p \in {"idle", "learn", "rules", "rows", "reset", "review", "next",
                      "find", "keep", "save"}
    PROVE  [t EXCEPT !.pc = p] \in Task
BY DEF Task

LEMMA GotoType ==
    ASSUME TypeOK, NEW w \in Workers,
           NEW p \in {"idle", "learn", "rules", "rows", "reset", "review", "next",
                      "find", "keep", "save"},
           Goto(w, p), rows' \in [Txs -> Row], rules' \in [Payees -> Maybe],
           UNCHANGED <<world, catalog>>, calls' \in 0..Calls[world]
    PROVE  TypeOK'
<1>1. task' = [task EXCEPT ![w] = [task[w] EXCEPT !.pc = p]]
  BY DEF Goto
<1>2. [task[w] EXCEPT !.pc = p] \in Task
  BY TaskTypes, PcType
<1> QED
  BY <1>1, <1>2, MoveType

LEMMA UsableType ==
    ASSUME NEW c \in Maybe, NEW cat \in SUBSET Codes
    PROVE  Usable(c, cat) \in Maybe
BY CodesAssumption DEF Usable, Maybe

AnswerType == [code: Maybe, high: BOOLEAN, source: {"exact", "fuzzy", "ai"}]

\* A table answers with the code of one of its entries, or none.
LEMMA TableType ==
    ASSUME NEW entries \in Seq(TableEntry), NEW cat \in SUBSET Codes
    PROVE  TableRule(entries, cat) \in AnswerType
<1> DEFINE Serves(i) == Usable(entries[i].code, cat) # NoCode
           first == {i \in DOMAIN entries : Serves(i) /\ \A j \in 1..(i - 1) : ~Serves(j)}
           e == entries[CHOOSE i \in first : TRUE]
<1>1. TableRule(entries, cat) = IF first = {} THEN Nothing
                                ELSE Answer(Usable(e.code, cat), e.sure, "fuzzy")
  BY DEF TableRule
<1>2. first # {} => e \in TableEntry
  <2>1. first # {} => (CHOOSE i \in first : TRUE) \in DOMAIN entries
    OBVIOUS
  <2> QED
    BY <2>1
<1> HIDE DEF first, e
<1>3. CASE first = {}
  BY <1>1, <1>3, CodesType DEF Nothing, Answer, AnswerType
<1>4. CASE first # {}
  <2>1. e.code \in Maybe /\ e.sure \in BOOLEAN
    BY <1>2, <1>4 DEF TableEntry, Maybe
  <2>2. Usable(e.code, cat) \in Maybe
    BY <2>1, UsableType
  <2> QED
    BY <1>1, <1>4, <2>1, <2>2 DEF Answer, AnswerType
<1> QED
  BY <1>3, <1>4

\* Whatever the layers and the model answer is a code, or none.
LEMMA DeterministicType ==
    ASSUME NEW t \in Txs, NEW known \in [Payees -> Maybe], NEW cat \in SUBSET Codes
    PROVE  Deterministic(t, known, cat) \in AnswerType
<1>1. Movement[t].exact \in Seq(TableEntry) /\ Movement[t].fuzzy \in Seq(TableEntry)
  BY MovementAssumption
<1>2. ExactRule(t, cat) \in AnswerType /\ FuzzyRule(t, cat) \in AnswerType
  BY <1>1, TableType DEF ExactRule, FuzzyRule
<1>3. KnownRule(t, known, cat) \in Maybe
  <2>1. CASE Payee(t) \in Payees
    <3>1. known[Payee(t)] \in Maybe
      BY <2>1
    <3> QED
      BY <2>1, <3>1, UsableType DEF KnownRule
  <2>2. CASE Payee(t) \notin Payees
    BY <2>2, CodesType DEF KnownRule
  <2> QED
    BY <2>1, <2>2
<1>4. Usable(Sales, cat) \in Maybe
  BY CodesType, UsableType
<1> QED
  BY <1>2, <1>3, <1>4, CodesType DEF Deterministic, Answer, Nothing, AnswerType

LEMMA FullType ==
    ASSUME NEW t \in Txs, NEW known \in [Payees -> Maybe], NEW cat \in SUBSET Codes,
           NEW may \in BOOLEAN, NEW r \in Full(t, known, cat, may)
    PROVE  r.answer \in AnswerType
<1> DEFINE det == Deterministic(t, known, cat)
           own == [answer |-> det, error |-> "none"]
<1>1. det \in AnswerType
  BY DeterministicType
<1> HIDE DEF det
<1>2. own.answer \in AnswerType
  BY <1>1
<1>3. \A a \in Replies(cat) : a \in AnswerType
  BY DEF Replies, Answer, AnswerType, Maybe
<1>4. ASSUME NEW q \in Asked(cat) PROVE q.answer \in AnswerType
  <2>1. Answer(NoCode, FALSE, "ai") \in AnswerType
    BY CodesType DEF Answer, AnswerType
  <2>2. \/ \E a \in Replies(cat) : q = [answer |-> a, error |-> "none"]
        \/ \E e \in {"other", "429"} :
              q = [answer |-> Answer(NoCode, FALSE, "ai"), error |-> e]
    BY Zenon DEF Asked
  <2>3. CASE \E a \in Replies(cat) : q = [answer |-> a, error |-> "none"]
    <3>1. PICK a \in Replies(cat) : q = [answer |-> a, error |-> "none"]
      BY <2>3
    <3>2. a \in AnswerType
      BY <1>3
    <3> HIDE DEF AnswerType
    <3> QED
      BY <3>1, <3>2
  <2>4. CASE \E e \in {"other", "429"} :
               q = [answer |-> Answer(NoCode, FALSE, "ai"), error |-> e]
    <3>1. PICK e \in {"other", "429"} :
               q = [answer |-> Answer(NoCode, FALSE, "ai"), error |-> e]
      BY <2>4
    <3>2. q.answer = Answer(NoCode, FALSE, "ai")
      BY <3>1
    <3> QED
      BY <2>1, <3>2
  <2> QED
    BY <2>2, <2>3, <2>4
<1> HIDE DEF own
<1>5. r = own \/ r \in Asked(cat)
  BY DEF Full, det, own
<1>6. CASE r = own
  BY <1>2, <1>6
<1>7. CASE r \in Asked(cat)
  BY <1>4, <1>7
<1> QED
  BY <1>5, <1>6, <1>7

LEMMA JudgedType ==
    ASSUME NEW row \in Row, NEW a \in AnswerType
    PROVE  Judged(row, a) \in Row
BY CodesType DEF Judged, Row, AnswerType

LEMMA DecidedType ==
    ASSUME TypeOK, NEW w \in Workers
    PROVE  Decided(task[w]) \in Row
<1> DEFINE k == task[w]
<1>1. k.snap \in Row /\ k.code \in Maybe
  BY TaskTypes
<1> HIDE DEF k
<1>2. Decided(k) \in Row
  <2>1. CASE k.op = "reject"
    BY <1>1, <2>1, CodesType DEF Decided, Row
  <2>2. CASE k.op = "patch" /\ k.code = NoCode
    BY <1>1, <2>2, RowTypes DEF Decided
  <2>3. CASE k.op # "reject" /\ ~(k.op = "patch" /\ k.code = NoCode)
    BY <1>1, <2>3, CodesType DEF Decided, Row
  <2> QED
    BY <2>1, <2>2, <2>3
<1> QED
  BY <1>2 DEF k

-----------------------------------------------------------------------------

\* Handlers begin.
LEMMA StartsType ==
    ASSUME TypeOK, NEW w \in Workers,
           \/ StartBulk(w) \/ StartPatch(w) \/ StartApprove(w) \/ StartReject(w)
           \/ StartApproveAll(w)
    PROVE  TypeOK'
<1>1. CASE StartBulk(w)
  <2>1. PICK ai \in {0, MaxAi} :
          Start(w, [Idle EXCEPT !.pc = "learn", !.op = "bulk", !.todo = Listed(Uncoded),
                                !.cat = Active, !.ai = ai])
    BY <1>1 DEF StartBulk
  <2>2. Listed(Uncoded) \subseteq [tx: Txs, row: Row]
    BY ListedType DEF Uncoded
  <2>3. Active \subseteq Codes /\ ai \in 0..MaxAi
    BY BoundsAssumption DEF Active
  <2>4. [Idle EXCEPT !.pc = "learn", !.op = "bulk", !.todo = Listed(Uncoded),
                     !.cat = Active, !.ai = ai] \in Task
    BY <2>2, <2>3, IdleType DEF Task
  <2> QED
    BY <1>1, <2>1, <2>4, StartType DEF StartBulk
<1>2. CASE StartPatch(w)
  BY <1>2, DecidingType, StartType DEF StartPatch
<1>3. CASE StartApprove(w)
  <2>1. PICK t \in Txs : Start(w, Deciding("approve", t, rows[t].sugg))
    BY <1>3 DEF StartApprove
  <2>2. rows[t].sugg \in Maybe
    BY DEF TypeOK, Row
  <2> QED
    BY <1>3, <2>1, <2>2, DecidingType, StartType DEF StartApprove
<1>4. CASE StartReject(w)
  BY <1>4, DecidingType, StartType, CodesType DEF StartReject
<1>5. CASE StartApproveAll(w)
  <2>1. Listed(Orphans) \subseteq [tx: Txs, row: Row]
    BY ListedType DEF Orphans, Uncoded
  <2>2. [Idle EXCEPT !.pc = "reset", !.op = "approveAll", !.todo = Listed(Orphans)] \in Task
    BY <2>1, IdleType DEF Task
  <2>3. Start(w, [Idle EXCEPT !.pc = "reset", !.op = "approveAll",
                              !.todo = Listed(Orphans)])
    BY <1>5, IdleType DEF StartApproveAll, Task
  <2> QED
    BY <1>5, <2>2, <2>3, StartType DEF StartApproveAll
<1> QED
  BY <1>1, <1>2, <1>3, <1>4, <1>5

\* A bulk run goes on.
LEMMA BulkType ==
    ASSUME TypeOK, NEW w \in Workers, Learn(w) \/ ReadRules(w) \/ BulkRow(w)
    PROVE  TypeOK'
<1> DEFINE k == task[w]
<1>0. /\ k \in Task /\ k.known \in [Payees -> Maybe] /\ k.cat \subseteq Codes
      /\ k.todo \subseteq [tx: Txs, row: Row] /\ k.ai \in 0..MaxAi
  BY TaskTypes
<1>1. CASE Learn(w)
  <2>1. PICK known \in [Payees -> Maybe] :
          task' = [task EXCEPT ![w].known = known, ![w].pc = "rules"]
    BY <1>1 DEF Learn
  <2>2. [k EXCEPT !.known = known, !.pc = "rules"] \in Task
    BY <1>0 DEF Task
  <2>3. task' = [task EXCEPT ![w] = [k EXCEPT !.known = known, !.pc = "rules"]]
    BY <2>1 DEF TypeOK
  <2> QED
    BY <1>1, <2>2, <2>3, MoveType DEF Learn, TypeOK
<1>2. CASE ReadRules(w)
  <2> DEFINE both == [p \in Payees |-> IF rules[p] = NoCode THEN k.known[p] ELSE rules[p]]
             t == [k EXCEPT !.pc = "rows", !.known = both]
  <2>1. both \in [Payees -> Maybe]
    BY <1>0 DEF TypeOK
  <2>2. task' = [task EXCEPT ![w] = t]
    BY <1>2, <1>0 DEF ReadRules, TypeOK, Task
  <2> HIDE DEF both
  <2>3. t \in Task
    BY <1>0, <2>1 DEF Task
  <2> QED
    BY <1>2, <2>2, <2>3, MoveType DEF ReadRules, TypeOK
<1>3. CASE BulkRow(w)
  <2>0. PICK m \in k.todo :
          \E r \in Full(m.tx, k.known, k.cat, k.ai > 0) : RowDone(w, m, r)
    BY <1>3 DEF BulkRow, RowDone
  <2>1. PICK r \in Full(m.tx, k.known, k.cat, k.ai > 0) : RowDone(w, m, r)
    BY <2>0
  <2>2. m.tx \in Txs /\ m.row \in Row
    BY <1>0
  <2>3. r.answer \in AnswerType
    <3>1. (k.ai > 0) \in BOOLEAN
      OBVIOUS
    <3> HIDE DEF k
    <3> QED
      BY <1>0, <2>2, <3>1, FullType
  <2>4. rows' \in [Txs -> Row]
    BY <2>1, <2>2, <2>3, JudgedType DEF TypeOK, RowDone
  <2> DEFINE left == IF r.error = "429" THEN 0 ELSE k.ai
             more == IF r.answer.source = "ai" /\ left > 0 THEN left - 1 ELSE left
             t == [k EXCEPT !.ai = more, !.todo = k.todo \ {m}]
  <2>5. more \in 0..MaxAi
    BY <1>0, BoundsAssumption
  <2>6. task' = [task EXCEPT ![w] = t]
    BY <2>1, <1>0 DEF TypeOK, Task, RowDone
  <2> HIDE DEF more
  <2>7. t \in Task
    BY <1>0, <2>5 DEF Task
  <2> QED
    BY <1>3, <2>4, <2>6, <2>7, MoveType DEF BulkRow, TypeOK
<1> QED
  BY <1>1, <1>2, <1>3

\* Decisions, and what approves the whole list.
LEMMA DecisionType ==
    ASSUME TypeOK, NEW w \in Workers,
           \/ FindRule(w) \/ KeepRule(w) \/ SaveDecision(w)
           \/ ResetOrphans(w) \/ ListReview(w) \/ ApproveNext(w)
    PROVE  TypeOK'
<1> DEFINE k == task[w]
<1>0. k \in Task /\ k.tx \in Txs /\ k.code \in Maybe /\ k.todo \subseteq [tx: Txs, row: Row]
  BY TaskTypes
<1>1. CASE FindRule(w)
  <2> DEFINE t == [k EXCEPT !.pc = "keep", !.found = rules[Payee(k.tx)] # NoCode]
  <2>1. t \in Task
    BY <1>0 DEF Task
  <2>2. task' = [task EXCEPT ![w] = t]
    BY <1>1 DEF FindRule, TypeOK
  <2> QED
    BY <1>1, <2>1, <2>2, MoveType DEF FindRule, TypeOK
<1>2. CASE KeepRule(w)
  <2>1. rules' \in [Payees -> Maybe]
    BY <1>0, <1>2 DEF KeepRule, TypeOK
  <2>2. Stop(w) \/ Goto(w, "save")
    BY <1>2 DEF KeepRule
  <2> QED
    BY <1>2, <2>1, <2>2, StopType, GotoType DEF KeepRule, TypeOK
<1>3. CASE SaveDecision(w)
  <2>1. rows' \in [Txs -> Row]
    BY <1>0, <1>3, DecidedType DEF SaveDecision, TypeOK
  <2>2. Stop(w) \/ Goto(w, "next")
    BY <1>3 DEF SaveDecision
  <2> QED
    BY <1>3, <2>1, <2>2, StopType, GotoType DEF SaveDecision, TypeOK
<1>4. CASE ResetOrphans(w)
  <2>1. ASSUME NEW t \in Txs
        PROVE  [rows[t] EXCEPT !.review = FALSE, !.status = "pendiente"] \in Row
    BY DEF TypeOK, Row
  <2>2. rows' \in [Txs -> Row]
    BY <1>4, <2>1 DEF ResetOrphans, TypeOK
  <2> QED
    BY <1>4, <2>2, GotoType DEF ResetOrphans, TypeOK
<1>5. CASE ListReview(w)
  <2> DEFINE t == [k EXCEPT !.pc = "next", !.todo = Listed(InReview)]
  <2>1. Listed(InReview) \subseteq [tx: Txs, row: Row]
    BY ListedType DEF InReview
  <2>2. t \in Task
    BY <1>0, <2>1 DEF Task
  <2>3. task' = [task EXCEPT ![w] = t]
    BY <1>5 DEF ListReview, TypeOK
  <2> QED
    BY <1>5, <2>2, <2>3, MoveType DEF ListReview, TypeOK
<1>6. CASE ApproveNext(w)
  <2>1. PICK m \in k.todo :
          IF rows[m.tx].sugg = NoCode THEN Stop(w)
          ELSE task' = [task EXCEPT ![w] =
                  [Deciding("approveAll", m.tx, rows[m.tx].sugg) EXCEPT
                     !.todo = k.todo \ {m}]]
    BY <1>6 DEF ApproveNext
  <2> DEFINE d == Deciding("approveAll", m.tx, rows[m.tx].sugg)
  <2>2. d \in Task
    <3>1. m.tx \in Txs
      BY <1>0
    <3>2. rows[m.tx].sugg \in Maybe
      BY <3>1 DEF TypeOK, Row
    <3> QED
      BY <3>1, <3>2, DecidingType
  <2> HIDE DEF d
  <2>3. [d EXCEPT !.todo = k.todo \ {m}] \in Task
    BY <1>0, <2>2 DEF Task
  <2>4. Stop(w) \/ task' = [task EXCEPT ![w] = [d EXCEPT !.todo = k.todo \ {m}]]
    BY <2>1 DEF d
  <2>5. CASE Stop(w)
    BY <1>6, <2>5, StopType DEF ApproveNext, TypeOK
  <2>6. CASE task' = [task EXCEPT ![w] = [d EXCEPT !.todo = k.todo \ {m}]]
    BY <1>6, <2>3, <2>6, MoveType DEF ApproveNext, TypeOK
  <2> QED
    BY <2>4, <2>5, <2>6
<1> QED
  BY <1>1, <1>2, <1>3, <1>4, <1>5, <1>6

LEMMA StepType == ASSUME TypeOK, NEW w \in Workers, Step(w) PROVE TypeOK'
<1>1. CASE EndRun(w)
  BY <1>1, StopType DEF EndRun, TypeOK
<1>2. CASE Crash(w)
  <2>1. calls' \in 0..Calls[world]
    BY <1>2, CallsType DEF Crash
  <2> QED
    BY <1>2, <2>1, StopType DEF Crash, TypeOK
<1> QED
  BY <1>1, <1>2, StartsType, BulkType, DecisionType DEF Step

LEMMA NextType == TypeOK /\ [Next]_vars => TypeOK'
<1> SUFFICES ASSUME TypeOK, [Next]_vars PROVE TypeOK'
  OBVIOUS
<1>1. CASE EditCatalog
  <2>1. catalog' \in [Codes -> {"absent", "active", "inactive"}]
    BY <1>1 DEF EditCatalog, CreateAccount, ToggleAccount, DeleteAccount, TypeOK
  <2>2. calls' \in 0..Calls[world']
    BY <1>1, CallsType DEF EditCatalog
  <2> QED
    BY <1>1, <2>1, <2>2 DEF EditCatalog, TypeOK
<1>2. CASE \E w \in Workers : Step(w)
  BY <1>2, StepType
<1>3. CASE UNCHANGED vars
  BY <1>3 DEF vars, TypeOK
<1> QED
  BY <1>1, <1>2, <1>3 DEF Next, Step

(* Every row, rule, account and invocation has its type, whatever the        *)
(* movements, codes and bounds: patchTransaction, the bulk run, approvals    *)
(* and the catalogue of accounting.service write nothing else.               *)
THEOREM TypeCorrect == Spec => []TypeOK
<1>1. TypeOK /\ [Next]_vars => TypeOK'
  BY NextType
<1> QED
  BY InitType, <1>1, PTL DEF Spec

-----------------------------------------------------------------------------

\* What a bulk run has listed had no code.
ListedOpen ==
    \A w \in Workers : task[w].op = "bulk" => \A m \in task[w].todo : m.row.code = NoCode

\* Only a bulk run classifies, and it does nothing else.
RowsAreBulk ==
    \A w \in Workers :
        /\ task[w].pc \in {"learn", "rules", "rows"} => task[w].op = "bulk"
        /\ task[w].pc \in {"reset", "review", "next", "find", "keep", "save"}
              => task[w].op # "bulk"

IInv == TypeOK /\ ListedOpen /\ RowsAreBulk /\ ReviewIsOpen

Open(row) == row.review => /\ row.code = NoCode /\ row.status = "revision"
                           /\ row.sugg # NoCode \/ row.source = "none"

LEMMA InitOpen == Init => IInv
<1> SUFFICES ASSUME Init PROVE IInv
  OBVIOUS
<1>1. TypeOK
  BY InitType
<1>2. ListedOpen /\ RowsAreBulk
  BY IdleType DEF Init, ListedOpen, RowsAreBulk
<1>3. \A t \in Txs : rows[t] \in {Imported, Orphan, Pending}
  BY DEF Init
<1>4. /\ ~Imported.review
      /\ Orphan.code = NoCode /\ Orphan.status = "revision" /\ Orphan.source = "none"
      /\ Pending.code = NoCode /\ Pending.status = "revision" /\ Pending.sugg = Sales
  BY DEF Imported, Orphan, Pending
<1>5. Sales # NoCode
  BY DEF Sales, NoCode
<1>6. ReviewIsOpen
  BY <1>3, <1>4, <1>5 DEF ReviewIsOpen
<1> QED
  BY <1>1, <1>2, <1>6 DEF IInv

\* The two parts about handlers, for one that moves on to t.
LEMMA MoveListed ==
    ASSUME TypeOK, ListedOpen, RowsAreBulk, NEW w \in Workers, NEW t,
           task' = [task EXCEPT ![w] = t],
           t.op = "bulk" => \A m \in t.todo : m.row.code = NoCode,
           t.pc \in {"learn", "rules", "rows"} => t.op = "bulk",
           t.pc \in {"reset", "review", "next", "find", "keep", "save"} => t.op # "bulk"
    PROVE  ListedOpen' /\ RowsAreBulk'
BY DEF TypeOK, ListedOpen, RowsAreBulk

LEMMA StopListed ==
    ASSUME TypeOK, ListedOpen, RowsAreBulk, NEW w \in Workers, Stop(w)
    PROVE  ListedOpen' /\ RowsAreBulk'
BY MoveListed, IdleType DEF Stop

LEMMA GotoListed ==
    ASSUME TypeOK, ListedOpen, RowsAreBulk, NEW w \in Workers,
           NEW p \in {"reset", "review", "next", "find", "keep", "save"}, Goto(w, p),
           task[w].op # "bulk"
    PROVE  ListedOpen' /\ RowsAreBulk'
<1> DEFINE t == [task[w] EXCEPT !.pc = p]
<1>1. t.pc = p /\ t.op = task[w].op /\ t.todo = task[w].todo
  BY TaskTypes DEF Task
<1>2. task' = [task EXCEPT ![w] = t]
  BY DEF Goto
<1> HIDE DEF t
<1> QED
  BY <1>1, <1>2, MoveListed DEF ListedOpen

LEMMA BulkOpen ==
    ASSUME IInv, NEW w \in Workers, StartBulk(w) \/ Learn(w) \/ ReadRules(w) \/ BulkRow(w)
    PROVE  ListedOpen' /\ RowsAreBulk' /\ ReviewIsOpen'
<1> DEFINE k == task[w]
<1>0. k \in Task
  BY TaskTypes DEF IInv
<1>1. CASE StartBulk(w)
  <2>1. PICK ai \in {0, MaxAi} :
          Start(w, [Idle EXCEPT !.pc = "learn", !.op = "bulk", !.todo = Listed(Uncoded),
                                !.cat = Active, !.ai = ai])
    BY <1>1 DEF StartBulk
  <2> DEFINE t == [Idle EXCEPT !.pc = "learn", !.op = "bulk", !.todo = Listed(Uncoded),
                               !.cat = Active, !.ai = ai]
  <2>2. t.op = "bulk" /\ t.todo = Listed(Uncoded) /\ t.pc = "learn"
    BY IdleType DEF Task
  <2>3. \A m \in Listed(Uncoded) : m.row.code = NoCode
    BY DEF Listed, Uncoded
  <2>4. task' = [task EXCEPT ![w] = t] /\ rows' = rows
    BY <2>1 DEF Start
  <2> HIDE DEF t
  <2> QED
    BY <2>2, <2>3, <2>4, MoveListed DEF IInv, ReviewIsOpen
<1>2. CASE Learn(w)
  <2>1. PICK known \in [Payees -> Maybe] :
          task' = [task EXCEPT ![w].known = known, ![w].pc = "rules"]
    BY <1>2 DEF Learn
  <2> DEFINE t == [k EXCEPT !.known = known, !.pc = "rules"]
  <2>2. t.op = k.op /\ t.todo = k.todo /\ k.op = "bulk" /\ t.pc = "rules"
    BY <1>0, <1>2 DEF Task, Learn, IInv, RowsAreBulk
  <2>3. task' = [task EXCEPT ![w] = t] /\ rows' = rows
    BY <1>2, <2>1 DEF Learn, IInv, TypeOK
  <2> HIDE DEF t
  <2> QED
    BY <2>2, <2>3, MoveListed DEF IInv, ReviewIsOpen, ListedOpen
<1>3. CASE ReadRules(w)
  <2> DEFINE both == [p \in Payees |-> IF rules[p] = NoCode THEN k.known[p] ELSE rules[p]]
             t == [k EXCEPT !.pc = "rows", !.known = both]
  <2>1. task' = [task EXCEPT ![w] = t] /\ rows' = rows
    BY <1>3, <1>0 DEF ReadRules, IInv, TypeOK, Task
  <2> HIDE DEF both
  <2>2. t.op = k.op /\ t.todo = k.todo /\ k.op = "bulk" /\ t.pc = "rows"
    BY <1>0, <1>3 DEF Task, ReadRules, IInv, RowsAreBulk
  <2> HIDE DEF t
  <2> QED
    BY <2>1, <2>2, MoveListed DEF IInv, ReviewIsOpen, ListedOpen
<1>4. CASE BulkRow(w)
  <2>0. PICK m \in k.todo :
          \E r \in Full(m.tx, k.known, k.cat, k.ai > 0) : RowDone(w, m, r)
    BY <1>4 DEF BulkRow, RowDone
  <2>1. PICK r \in Full(m.tx, k.known, k.cat, k.ai > 0) : RowDone(w, m, r)
    BY <2>0
  <2>2. m.tx \in Txs /\ m.row \in Row
    BY TaskTypes DEF IInv
  <2>3. r.answer \in AnswerType
    <3>1. (k.ai > 0) \in BOOLEAN /\ k.known \in [Payees -> Maybe] /\ k.cat \in SUBSET Codes
      BY TaskTypes DEF IInv
    <3> HIDE DEF k
    <3> QED
      BY <2>2, <3>1, FullType
  <2>4. m.row.code = NoCode
    BY <1>4 DEF BulkRow, IInv, RowsAreBulk, ListedOpen
  <2>5. ReviewIsOpen'
    <3>1. CASE r.answer.code = NoCode
      BY <2>1, <3>1 DEF RowDone, IInv, ReviewIsOpen
    <3>2. CASE r.answer.code # NoCode
      <4>1. Open(Judged(m.row, r.answer))
        BY <2>2, <2>3, <2>4, <3>2 DEF Judged, Row, AnswerType, Open
      <4>2. rows' = [rows EXCEPT ![m.tx] = Judged(m.row, r.answer)]
        BY <2>1, <3>2 DEF RowDone
      <4> QED
        BY <2>2, <4>1, <4>2 DEF Open, IInv, TypeOK, ReviewIsOpen
    <3> QED
      BY <3>1, <3>2
  <2> DEFINE left == IF r.error = "429" THEN 0 ELSE k.ai
             more == IF r.answer.source = "ai" /\ left > 0 THEN left - 1 ELSE left
             t == [k EXCEPT !.ai = more, !.todo = k.todo \ {m}]
  <2>6. task' = [task EXCEPT ![w] = t]
    BY <2>1, <1>0 DEF IInv, TypeOK, Task, RowDone
  <2> HIDE DEF more
  <2>7. t.op = k.op /\ t.todo = k.todo \ {m} /\ k.op = "bulk" /\ t.pc = "rows"
    BY <1>0, <1>4 DEF Task, BulkRow, IInv, RowsAreBulk
  <2> HIDE DEF t
  <2>8. ListedOpen' /\ RowsAreBulk'
    BY <2>6, <2>7, MoveListed DEF IInv, ListedOpen
  <2> QED
    BY <2>5, <2>8
<1> QED
  BY <1>1, <1>2, <1>3, <1>4

\* A decision, a rejection and the reset leave the movement out of review.
LEMMA DecidedOpen ==
    ASSUME TypeOK, NEW w \in Workers
    PROVE  ~Decided(task[w]).review
<1> DEFINE k == task[w]
<1>1. k.snap \in Row
  BY TaskTypes
<1> HIDE DEF k
<1>2. ~Decided(k).review
  BY <1>1 DEF Decided, Row, Imported
<1> QED
  BY <1>2 DEF k

LEMMA DecisionOpen ==
    ASSUME IInv, NEW w \in Workers,
           \/ StartPatch(w) \/ StartApprove(w) \/ StartReject(w) \/ StartApproveAll(w)
           \/ FindRule(w) \/ KeepRule(w) \/ SaveDecision(w)
           \/ ResetOrphans(w) \/ ListReview(w) \/ ApproveNext(w)
    PROVE  ListedOpen' /\ RowsAreBulk' /\ ReviewIsOpen'
<1> DEFINE k == task[w]
<1>0. k \in Task /\ k.tx \in Txs
  BY TaskTypes DEF IInv
<1>1. ASSUME NEW op \in {"patch", "approve", "reject"}, NEW t \in Txs, NEW c \in Maybe,
             Start(w, Deciding(op, t, c))
      PROVE  ListedOpen' /\ RowsAreBulk' /\ ReviewIsOpen'
  <2> DEFINE d == Deciding(op, t, c)
  <2>1. d.op # "bulk" /\ d.pc \notin {"learn", "rules", "rows"}
    BY DecidingType DEF IInv
  <2>2. task' = [task EXCEPT ![w] = d] /\ rows' = rows
    BY <1>1 DEF Start
  <2> HIDE DEF d
  <2> QED
    BY <2>1, <2>2, MoveListed DEF IInv, ReviewIsOpen
<1>2. CASE StartPatch(w)
  BY <1>1, <1>2 DEF StartPatch
<1>3. CASE StartApprove(w)
  <2>1. PICK t \in Txs : Start(w, Deciding("approve", t, rows[t].sugg))
    BY <1>3 DEF StartApprove
  <2>2. rows[t].sugg \in Maybe
    BY DEF IInv, TypeOK, Row
  <2> QED
    BY <1>1, <2>1, <2>2
<1>4. CASE StartReject(w)
  BY <1>1, <1>4, CodesType DEF StartReject
<1>5. CASE StartApproveAll(w)
  <2> DEFINE t == [Idle EXCEPT !.pc = "reset", !.op = "approveAll", !.todo = Listed(Orphans)]
  <2>1. t.op = "approveAll" /\ t.pc = "reset"
    BY IdleType DEF Task
  <2>2. task' = [task EXCEPT ![w] = t] /\ rows' = rows
    BY <1>5 DEF StartApproveAll, Start
  <2> HIDE DEF t
  <2> QED
    BY <2>1, <2>2, MoveListed DEF IInv, ReviewIsOpen
<1>6. CASE FindRule(w)
  <2> DEFINE t == [k EXCEPT !.pc = "keep", !.found = rules[Payee(k.tx)] # NoCode]
  <2>1. t.op = k.op /\ t.todo = k.todo /\ t.pc = "keep" /\ k.op # "bulk"
    BY <1>0, <1>6 DEF Task, FindRule, IInv, RowsAreBulk
  <2>2. task' = [task EXCEPT ![w] = t] /\ rows' = rows
    BY <1>6 DEF FindRule, IInv, TypeOK
  <2> HIDE DEF t
  <2> QED
    BY <2>1, <2>2, MoveListed DEF IInv, ReviewIsOpen, ListedOpen
<1>7. CASE KeepRule(w)
  BY <1>7, StopListed, GotoListed DEF KeepRule, IInv, RowsAreBulk, ReviewIsOpen
<1>8. CASE SaveDecision(w)
  <2>1. ReviewIsOpen'
    BY <1>0, <1>8, DecidedOpen DEF SaveDecision, IInv, TypeOK, ReviewIsOpen
  <2>2. Stop(w) \/ Goto(w, "next")
    BY <1>8 DEF SaveDecision
  <2> QED
    BY <1>8, <2>1, <2>2, StopListed, GotoListed DEF SaveDecision, IInv, RowsAreBulk
<1>9. CASE ResetOrphans(w)
  <2>1. ASSUME NEW t \in Txs
        PROVE  ~[rows[t] EXCEPT !.review = FALSE, !.status = "pendiente"].review
    BY DEF IInv, TypeOK, Row
  <2>2. ReviewIsOpen'
    BY <1>9, <2>1 DEF ResetOrphans, IInv, ReviewIsOpen
  <2> QED
    BY <1>9, <2>2, GotoListed DEF ResetOrphans, IInv, RowsAreBulk
<1>10. CASE ListReview(w)
  <2> DEFINE t == [k EXCEPT !.pc = "next", !.todo = Listed(InReview)]
  <2>1. t.op = k.op /\ t.pc = "next"
    BY <1>0 DEF Task
  <2>2. task' = [task EXCEPT ![w] = t] /\ rows' = rows
    BY <1>10 DEF ListReview, IInv, TypeOK
  <2>3. k.op # "bulk"
    BY <1>10 DEF ListReview, IInv, RowsAreBulk
  <2> HIDE DEF t
  <2> QED
    BY <2>1, <2>2, <2>3, MoveListed DEF IInv, ReviewIsOpen
<1>11. CASE ApproveNext(w)
  <2>1. PICK m \in k.todo :
          IF rows[m.tx].sugg = NoCode THEN Stop(w)
          ELSE task' = [task EXCEPT ![w] =
                  [Deciding("approveAll", m.tx, rows[m.tx].sugg) EXCEPT
                     !.todo = k.todo \ {m}]]
    BY <1>11 DEF ApproveNext
  <2> DEFINE d == Deciding("approveAll", m.tx, rows[m.tx].sugg)
             t == [d EXCEPT !.todo = k.todo \ {m}]
  <2>2. d \in Task /\ d.op = "approveAll" /\ d.pc \in {"find", "save"}
    <3>1. m.tx \in Txs
      BY TaskTypes DEF IInv
    <3>2. rows[m.tx].sugg \in Maybe
      BY <3>1 DEF IInv, TypeOK, Row
    <3> QED
      BY <3>1, <3>2, DecidingType DEF IInv
  <2> HIDE DEF d
  <2>3. t.op = "approveAll" /\ t.pc \in {"find", "save"}
    BY <2>2 DEF Task
  <2>4. Stop(w) \/ task' = [task EXCEPT ![w] = t]
    BY <2>1 DEF d
  <2> HIDE DEF t
  <2>5. rows' = rows
    BY <1>11 DEF ApproveNext
  <2> QED
    BY <2>3, <2>4, <2>5, MoveListed, StopListed DEF IInv, ReviewIsOpen
<1> QED
  BY <1>2, <1>3, <1>4, <1>5, <1>6, <1>7, <1>8, <1>9, <1>10, <1>11

LEMMA StepOpen == IInv /\ [Next]_vars => IInv'
<1> SUFFICES ASSUME IInv, [Next]_vars PROVE IInv'
  OBVIOUS
<1>1. TypeOK'
  BY NextType DEF IInv
<1>2. CASE EditCatalog
  BY <1>1, <1>2 DEF EditCatalog, IInv, ListedOpen, RowsAreBulk, ReviewIsOpen
<1>3. CASE \E w \in Workers : Step(w)
  <2>1. PICK w \in Workers : Step(w)
    BY <1>3
  <2>2. CASE EndRun(w) \/ Crash(w)
    BY <1>1, <2>2, StopListed DEF EndRun, Crash, IInv, ReviewIsOpen
  <2> QED
    BY <1>1, <2>1, <2>2, BulkOpen, DecisionOpen DEF Step, IInv
<1>4. CASE UNCHANGED vars
  BY <1>1, <1>4 DEF vars, IInv, ListedOpen, RowsAreBulk, ReviewIsOpen
<1> QED
  BY <1>2, <1>3, <1>4 DEF Next, Step

(* A movement in review has something to approve and no code yet, but for    *)
(* what older migrations left, however many bulk runs, decisions, approvals, *)
(* rejections and repairs overlap, each writing back what it read earlier.   *)
THEOREM ReviewIsOpenAlways == Spec => []ReviewIsOpen
<1>1. IInv => ReviewIsOpen
  BY DEF IInv
<1> QED
  BY InitOpen, StepOpen, <1>1, PTL DEF Spec

-----------------------------------------------------------------------------
(* What a bulk run codes follows the client's rule: one handler at a time,   *)
(* the rows, the rules and the accounts a run has read are those there are.  *)

\* One handler at a time.
Alone == \A v, w \in Workers : task[v].pc # "idle" /\ task[w].pc # "idle" => v = w

\* What a bulk run has read is still so.
Fresh(w) ==
    task[w].pc \in {"learn", "rules", "rows"} =>
        /\ task[w].cat = Active
        /\ \A m \in task[w].todo : m.row = rows[m.tx]
        /\ task[w].pc = "rows" =>
              \A p \in Payees : rules[p] # NoCode => task[w].known[p] = rules[p]

SerialInv == world = "serial" => Alone /\ \A w \in Workers : Fresh(w)

LEMMA InitSerial == Init => SerialInv
BY IdleType DEF Init, SerialInv, Alone, Fresh

\* A step writes the task of its handler, which was alone.
LEMMA OneMoves ==
    ASSUME TypeOK, NEW w \in Workers, Step(w)
    PROVE  /\ \E t : task' = [task EXCEPT ![w] = t]
           /\ UNCHANGED <<world, catalog>>
<1>1. ASSUME NEW t, Start(w, t)
      PROVE  (\E x : task' = [task EXCEPT ![w] = x]) /\ UNCHANGED <<world, catalog>>
  BY <1>1 DEF Start
<1>2. CASE StartBulk(w) \/ StartPatch(w) \/ StartApprove(w) \/ StartReject(w)
           \/ StartApproveAll(w)
  BY <1>1, <1>2 DEF StartBulk, StartPatch, StartApprove, StartReject, StartApproveAll
<1>3. ASSUME NEW p, Goto(w, p) PROVE \E x : task' = [task EXCEPT ![w] = x]
  BY <1>3 DEF Goto
<1>4. Stop(w) => \E x : task' = [task EXCEPT ![w] = x]
  BY DEF Stop
<1>5. CASE Learn(w)
  <2>1. PICK known \in [Payees -> Maybe] :
          task' = [task EXCEPT ![w].known = known, ![w].pc = "rules"]
    BY <1>5 DEF Learn
  <2>2. task' = [task EXCEPT ![w] = [task[w] EXCEPT !.known = known, !.pc = "rules"]]
    BY <2>1 DEF TypeOK
  <2> QED
    BY <1>5, <2>2 DEF Learn
<1>6. CASE ReadRules(w)
  <2> DEFINE both == [p \in Payees |-> IF rules[p] = NoCode THEN task[w].known[p] ELSE rules[p]]
  <2>1. task' = [task EXCEPT ![w] = [task[w] EXCEPT !.pc = "rows", !.known = both]]
    BY <1>6, TaskTypes DEF ReadRules, TypeOK, Task
  <2> QED
    BY <1>6, <2>1 DEF ReadRules
<1>7. CASE BulkRow(w)
  <2>1. PICK m \in task[w].todo :
          \E r \in Full(m.tx, task[w].known, task[w].cat, task[w].ai > 0) : RowDone(w, m, r)
    BY <1>7 DEF BulkRow, RowDone
  <2>2. PICK r : RowDone(w, m, r)
    BY <2>1
  <2> DEFINE left == IF r.error = "429" THEN 0 ELSE task[w].ai
             more == IF r.answer.source = "ai" /\ left > 0 THEN left - 1 ELSE left
  <2>3. task' = [task EXCEPT ![w] = [task[w] EXCEPT !.ai = more, !.todo = task[w].todo \ {m}]]
    BY <2>2, TaskTypes DEF TypeOK, Task, RowDone
  <2> QED
    BY <1>7, <2>3 DEF BulkRow
<1>8. CASE FindRule(w)
  <2>1. task' = [task EXCEPT ![w] = [task[w] EXCEPT !.pc = "keep",
                                        !.found = rules[Payee(task[w].tx)] # NoCode]]
    BY <1>8 DEF FindRule, TypeOK
  <2> QED
    BY <1>8, <2>1 DEF FindRule
<1>9. CASE KeepRule(w) \/ SaveDecision(w) \/ ResetOrphans(w) \/ EndRun(w) \/ Crash(w)
  <2>1. /\ Stop(w) \/ Goto(w, "save") \/ Goto(w, "next") \/ Goto(w, "review")
        /\ UNCHANGED <<world, catalog>>
    <3>1. CASE KeepRule(w)
      BY <3>1 DEF KeepRule
    <3>2. CASE SaveDecision(w)
      BY <3>2 DEF SaveDecision
    <3>3. CASE ResetOrphans(w)
      BY <3>3 DEF ResetOrphans
    <3>4. CASE EndRun(w) \/ Crash(w)
      BY <3>4 DEF EndRun, Crash
    <3> QED
      BY <1>9, <3>1, <3>2, <3>3, <3>4
  <2> QED
    BY <1>3, <1>4, <2>1
<1>10. CASE ListReview(w)
  <2>1. task' = [task EXCEPT ![w] = [task[w] EXCEPT !.pc = "next", !.todo = Listed(InReview)]]
    BY <1>10 DEF ListReview, TypeOK
  <2> QED
    BY <1>10, <2>1 DEF ListReview
<1>11. CASE ApproveNext(w)
  BY <1>4, <1>11 DEF ApproveNext
<1> QED
  BY <1>2, <1>5, <1>6, <1>7, <1>8, <1>9, <1>10, <1>11 DEF Step

LEMMA OthersIdle ==
    ASSUME TypeOK, world = "serial", Alone, NEW w \in Workers, Step(w)
    PROVE  /\ \A v \in Workers \ {w} : task[v].pc = "idle" /\ task'[v] = task[v]
           /\ Alone'
<1>1. \A v \in Workers \ {w} : task[v].pc = "idle"
  <2>1. CASE task[w].pc # "idle"
    BY <2>1 DEF Alone
  <2>2. CASE CanStart(w)
    BY <2>2 DEF CanStart
  <2>3. CASE StartBulk(w) \/ StartPatch(w) \/ StartApprove(w) \/ StartReject(w)
             \/ StartApproveAll(w)
    BY <2>2, <2>3 DEF StartBulk, StartPatch, StartApprove, StartReject, StartApproveAll
  <2>4. CASE Learn(w) \/ ReadRules(w) \/ BulkRow(w) \/ FindRule(w) \/ KeepRule(w)
    BY <2>1, <2>4 DEF Learn, ReadRules, BulkRow, FindRule, KeepRule
  <2>5. CASE SaveDecision(w) \/ ResetOrphans(w) \/ ListReview(w) \/ ApproveNext(w)
    <3>1. task[w].pc # "idle"
      <4>1. SaveDecision(w) => task[w].pc = "save"
        BY DEF SaveDecision
      <4>2. ResetOrphans(w) => task[w].pc = "reset"
        BY DEF ResetOrphans
      <4>3. ListReview(w) => task[w].pc = "review"
        BY DEF ListReview
      <4>4. ApproveNext(w) => task[w].pc = "next"
        BY DEF ApproveNext
      <4> QED
        BY <2>5, <4>1, <4>2, <4>3, <4>4
    <3> QED
      BY <2>1, <3>1
  <2>6. CASE EndRun(w) \/ Crash(w)
    BY <2>1, <2>6 DEF EndRun, Crash
  <2> QED
    BY <2>3, <2>4, <2>5, <2>6 DEF Step
<1>2. \A v \in Workers \ {w} : task'[v] = task[v]
  BY OneMoves DEF TypeOK
<1>3. Alone'
  <2> SUFFICES ASSUME NEW v \in Workers, NEW x \in Workers, task'[v].pc # "idle",
                      task'[x].pc # "idle"
               PROVE  v = x
    BY DEF Alone
  <2>1. v = w /\ x = w
    BY <1>1, <1>2
  <2> QED
    BY <2>1
<1> QED
  BY <1>1, <1>2, <1>3

\* What a handler reads, and what is left of a run, is as the tables have it.
LEMMA StepFresh ==
    ASSUME IInv, world = "serial", Alone, NEW w \in Workers, Fresh(w), Step(w)
    PROVE  Fresh(w)'
<1> DEFINE k == task[w]
<1>0. TypeOK /\ k \in Task /\ k.todo \subseteq [tx: Txs, row: Row]
  BY TaskTypes DEF IInv
<1>1. Active' = Active
  BY <1>0, OneMoves DEF Active
<1>2. ASSUME task'[w].pc \notin {"learn", "rules", "rows"} PROVE Fresh(w)'
  BY <1>2 DEF Fresh
<1>3. ASSUME Stop(w) PROVE Fresh(w)'
  <2>1. task'[w] = Idle
    BY <1>0, <1>3 DEF Stop, TypeOK
  <2> QED
    BY <1>2, <2>1, IdleType
<1>4. ASSUME NEW p \in {"save", "next", "review"}, Goto(w, p) PROVE Fresh(w)'
  <2>1. task'[w] = [k EXCEPT !.pc = p]
    BY <1>0, <1>4 DEF Goto, TypeOK
  <2>2. task'[w].pc = p
    BY <1>0, <2>1 DEF Task
  <2> QED
    BY <1>2, <2>2
<1>5. ASSUME NEW op \in {"patch", "approve", "reject"}, NEW t \in Txs, NEW c \in Maybe,
             Start(w, Deciding(op, t, c))
      PROVE  Fresh(w)'
  <2>1. task'[w] = Deciding(op, t, c)
    BY <1>0, <1>5 DEF Start, TypeOK
  <2>2. task'[w].pc \in {"find", "save"}
    BY <1>0, <2>1, DecidingType
  <2> QED
    BY <1>2, <2>2
<1>6. CASE StartBulk(w)
  <2>1. PICK ai \in {0, MaxAi} :
          Start(w, [Idle EXCEPT !.pc = "learn", !.op = "bulk", !.todo = Listed(Uncoded),
                                !.cat = Active, !.ai = ai])
    BY <1>6 DEF StartBulk
  <2> DEFINE t == [Idle EXCEPT !.pc = "learn", !.op = "bulk", !.todo = Listed(Uncoded),
                               !.cat = Active, !.ai = ai]
  <2>2. t.pc = "learn" /\ t.todo = Listed(Uncoded) /\ t.cat = Active
    BY IdleType DEF Task
  <2>3. task' = [task EXCEPT ![w] = t] /\ rows' = rows
    BY <2>1 DEF Start
  <2> HIDE DEF t
  <2>4. task'[w] = t
    BY <1>0, <2>3 DEF TypeOK
  <2>5. \A m \in Listed(Uncoded) : m.row = rows[m.tx]
    BY DEF Listed
  <2> QED
    BY <1>1, <2>2, <2>3, <2>4, <2>5 DEF Fresh
<1>7. CASE Learn(w)
  <2>1. PICK known \in [Payees -> Maybe] :
          task' = [task EXCEPT ![w].known = known, ![w].pc = "rules"]
    BY <1>7 DEF Learn
  <2> DEFINE t == [k EXCEPT !.known = known, !.pc = "rules"]
  <2>2. t.pc = "rules" /\ t.todo = k.todo /\ t.cat = k.cat
    BY <1>0 DEF Task
  <2>3. task'[w] = t /\ rows' = rows
    BY <1>0, <1>7, <2>1 DEF Learn, TypeOK
  <2> HIDE DEF t
  <2> QED
    BY <1>1, <1>7, <2>2, <2>3 DEF Fresh, Learn
<1>8. CASE ReadRules(w)
  <2> DEFINE both == [p \in Payees |-> IF rules[p] = NoCode THEN k.known[p] ELSE rules[p]]
             t == [k EXCEPT !.pc = "rows", !.known = both]
  <2>1. task' = [task EXCEPT ![w] = t]
    BY <1>0, <1>8 DEF ReadRules, TypeOK, Task
  <2>2. \A p \in Payees : rules[p] # NoCode => both[p] = rules[p]
    OBVIOUS
  <2> HIDE DEF both
  <2>3. t.pc = "rows" /\ t.todo = k.todo /\ t.cat = k.cat /\ t.known = both
    BY <1>0 DEF Task
  <2> HIDE DEF t
  <2>4. task'[w] = t /\ UNCHANGED <<rows, rules>>
    BY <1>0, <1>8, <2>1 DEF ReadRules, TypeOK
  <2> QED
    BY <1>1, <1>8, <2>2, <2>3, <2>4 DEF Fresh, ReadRules
<1>9. CASE BulkRow(w)
  <2>1. PICK m \in k.todo :
          \E r \in Full(m.tx, k.known, k.cat, k.ai > 0) : RowDone(w, m, r)
    BY <1>9 DEF BulkRow, RowDone
  <2>2. PICK r : RowDone(w, m, r)
    BY <2>1
  <2> DEFINE left == IF r.error = "429" THEN 0 ELSE k.ai
             more == IF r.answer.source = "ai" /\ left > 0 THEN left - 1 ELSE left
             t == [k EXCEPT !.ai = more, !.todo = k.todo \ {m}]
  <2>3. task' = [task EXCEPT ![w] = t]
    BY <1>0, <2>2 DEF TypeOK, Task, RowDone
  <2> HIDE DEF more
  <2>4. t.pc = k.pc /\ t.cat = k.cat /\ t.known = k.known /\ t.todo = k.todo \ {m}
    BY <1>0 DEF Task
  <2> HIDE DEF t
  <2>5. task'[w] = t /\ rules' = rules /\ k.pc = "rows"
    BY <1>0, <1>9, <2>3 DEF TypeOK, BulkRow
  <2>6. \A n \in k.todo : n.row = rows[n.tx] /\ n \in [tx: Txs, row: Row]
    BY <1>0, <2>5 DEF Fresh
  <2>7. \A n \in k.todo \ {m} : n.tx # m.tx
    BY <2>6
  <2>8. \A n \in k.todo \ {m} : rows'[n.tx] = rows[n.tx]
    BY <1>0, <2>2, <2>6, <2>7 DEF RowDone, TypeOK
  <2> QED
    BY <1>1, <2>4, <2>5, <2>6, <2>8 DEF Fresh
<1>10. CASE FindRule(w)
  <2> DEFINE t == [k EXCEPT !.pc = "keep", !.found = rules[Payee(k.tx)] # NoCode]
  <2>1. t.pc = "keep"
    BY <1>0 DEF Task
  <2>2. task'[w] = t
    BY <1>0, <1>10 DEF FindRule, TypeOK
  <2> HIDE DEF t
  <2> QED
    BY <1>2, <2>1, <2>2
<1>11. CASE KeepRule(w)
  BY <1>3, <1>4, <1>11 DEF KeepRule
<1>12. CASE SaveDecision(w)
  BY <1>3, <1>4, <1>12 DEF SaveDecision
<1>13. CASE ResetOrphans(w) \/ EndRun(w) \/ Crash(w)
  <2>1. CASE ResetOrphans(w)
    BY <1>4, <2>1 DEF ResetOrphans
  <2>2. CASE EndRun(w) \/ Crash(w)
    BY <1>3, <2>2 DEF EndRun, Crash
  <2> QED
    BY <1>13, <2>1, <2>2
<1>14. CASE ListReview(w)
  <2> DEFINE t == [k EXCEPT !.pc = "next", !.todo = Listed(InReview)]
  <2>1. t.pc = "next"
    BY <1>0 DEF Task
  <2>2. task'[w] = t
    BY <1>0, <1>14 DEF ListReview, TypeOK
  <2> HIDE DEF t
  <2> QED
    BY <1>2, <2>1, <2>2
<1>15. CASE ApproveNext(w)
  <2>1. PICK m \in k.todo :
          IF rows[m.tx].sugg = NoCode THEN Stop(w)
          ELSE task' = [task EXCEPT ![w] =
                  [Deciding("approveAll", m.tx, rows[m.tx].sugg) EXCEPT
                     !.todo = k.todo \ {m}]]
    BY <1>15 DEF ApproveNext
  <2> DEFINE d == Deciding("approveAll", m.tx, rows[m.tx].sugg)
             t == [d EXCEPT !.todo = k.todo \ {m}]
  <2>2. d \in Task /\ d.pc \in {"find", "save"}
    <3>1. m.tx \in Txs
      BY <1>0
    <3>2. rows[m.tx].sugg \in Maybe
      BY <1>0, <3>1 DEF TypeOK, Row
    <3> QED
      BY <1>0, <3>1, <3>2, DecidingType
  <2>3. Stop(w) \/ task' = [task EXCEPT ![w] = t]
    BY <2>1
  <2> HIDE DEF d
  <2>4. t.pc = d.pc
    BY <2>2 DEF Task
  <2> HIDE DEF t
  <2>5. CASE task' = [task EXCEPT ![w] = t]
    <3>1. task'[w] = t
      BY <1>0, <2>5 DEF TypeOK
    <3> QED
      BY <1>2, <2>2, <2>4, <3>1
  <2> QED
    BY <1>3, <2>3, <2>5
<1>16. CASE StartPatch(w)
  BY <1>5, <1>16 DEF StartPatch
<1>17. CASE StartApprove(w)
  <2>1. PICK t \in Txs : Start(w, Deciding("approve", t, rows[t].sugg))
    BY <1>17 DEF StartApprove
  <2>2. rows[t].sugg \in Maybe
    BY <1>0 DEF TypeOK, Row
  <2> QED
    BY <1>5, <2>1, <2>2
<1>18. CASE StartReject(w)
  BY <1>5, <1>18, CodesType DEF StartReject
<1>19. CASE StartApproveAll(w)
  <2> DEFINE t == [Idle EXCEPT !.pc = "reset", !.op = "approveAll", !.todo = Listed(Orphans)]
  <2>1. t.pc = "reset"
    BY IdleType DEF Task
  <2>2. task' = [task EXCEPT ![w] = t]
    BY <1>19 DEF StartApproveAll, Start
  <2> HIDE DEF t
  <2>3. task'[w] = t
    BY <1>0, <2>2 DEF TypeOK
  <2> QED
    BY <1>2, <2>1, <2>3
<1> QED
  BY <1>6, <1>7, <1>8, <1>9, <1>10, <1>11, <1>12, <1>13, <1>14, <1>15, <1>16, <1>17, <1>18,
     <1>19 DEF Step

LEMMA StepSerial == IInv /\ SerialInv /\ [Next]_vars => SerialInv'
<1> SUFFICES ASSUME IInv, SerialInv, [Next]_vars, world' = "serial"
             PROVE  Alone' /\ \A w \in Workers : Fresh(w)'
  BY DEF SerialInv
<1>1. CASE EditCatalog
  <2>1. UNCHANGED <<world, task>> /\ \A w \in Workers : task[w].pc = "idle"
    BY <1>1 DEF EditCatalog
  <2> QED
    BY <2>1 DEF Alone, Fresh
<1>2. CASE UNCHANGED vars
  <2>1. UNCHANGED <<world, rows, rules, catalog, task>> /\ world = "serial"
    BY <1>2 DEF vars
  <2>2. Active' = Active /\ Alone /\ \A w \in Workers : Fresh(w)
    BY <2>1 DEF Active, SerialInv
  <2> QED
    BY <2>1, <2>2 DEF Alone, Fresh
<1>3. CASE \E w \in Workers : Step(w)
  <2>1. PICK w \in Workers : Step(w)
    BY <1>3
  <2>2. world = "serial" /\ TypeOK /\ Alone /\ Fresh(w)
    BY <2>1, OneMoves DEF IInv, SerialInv
  <2>3. Alone' /\ \A v \in Workers \ {w} : task'[v].pc = "idle"
    BY <2>1, <2>2, OthersIdle
  <2>4. Fresh(w)'
    BY <2>1, <2>2, StepFresh
  <2> QED
    BY <2>3, <2>4 DEF Fresh
<1> QED
  BY <1>1, <1>2, <1>3 DEF Next, Step

\* A run's answer to a movement whose payee has a rule, the transfers aside.
LEMMA RuleAnswers ==
    ASSUME NEW t \in Txs, NEW known \in [Payees -> Maybe], NEW may, OwnRule(t) # NoCode,
           ~Movement[t].interco,
           \A p \in Payees : rules[p] # NoCode => known[p] = rules[p],
           NEW r \in Full(t, known, Active, may)
    PROVE  r.answer.code = OwnRule(t) /\ r.answer.high
<1>1. Payee(t) \in Payees /\ Usable(rules[Payee(t)], Active) # NoCode
  BY DEF OwnRule
<1>2. rules[Payee(t)] # NoCode
  BY <1>1, CodesType DEF Usable, Active
<1>3. KnownRule(t, known, Active) = OwnRule(t)
  BY <1>1, <1>2 DEF KnownRule, OwnRule
<1> DEFINE det == Deterministic(t, known, Active)
           own == [answer |-> det, error |-> "none"]
<1>4. det = Answer(OwnRule(t), TRUE, "exact")
  BY <1>3 DEF Deterministic
<1>5. det.code = OwnRule(t) /\ det.high
  BY <1>4 DEF Answer
<1>6. r = own
  BY <1>5 DEF Full
<1> HIDE DEF det
<1> QED
  BY <1>5, <1>6

FollowsRules ==
    world = "serial" => \A t \in Txs : BulkStep(t) =>
        /\ rows[t].code = NoCode
        /\ OwnRule(t) # NoCode /\ ~Movement[t].interco => rows'[t].code = OwnRule(t)

LEMMA StepFollows == IInv /\ SerialInv /\ [Next]_vars => FollowsRules
<1> SUFFICES ASSUME IInv, SerialInv, [Next]_vars, world = "serial", NEW t \in Txs, BulkStep(t)
             PROVE  /\ rows[t].code = NoCode
                    /\ OwnRule(t) # NoCode /\ ~Movement[t].interco
                          => rows'[t].code = OwnRule(t)
  BY DEF FollowsRules
<1>1. PICK w \in Workers : task[w].pc = "rows" /\ task'[w] # task[w] /\ rows'[t] # rows[t]
  BY DEF BulkStep
<1>2. TypeOK /\ Alone /\ Fresh(w) /\ ListedOpen /\ RowsAreBulk
  BY DEF IInv, SerialInv
<1>3. PICK v \in Workers : Step(v)
  BY <1>1 DEF Next, Step, EditCatalog, vars
<1>4. v = w
  BY <1>1, <1>2, <1>3, OthersIdle
<1>5. BulkRow(w)
  <2>1. ~StartBulk(w) /\ ~StartPatch(w) /\ ~StartApprove(w) /\ ~StartReject(w)
        /\ ~StartApproveAll(w)
    BY <1>1 DEF StartBulk, StartPatch, StartApprove, StartReject, StartApproveAll, CanStart
  <2>2. ~Learn(w) /\ ~ReadRules(w) /\ ~FindRule(w) /\ ~KeepRule(w)
    BY <1>1 DEF Learn, ReadRules, FindRule, KeepRule
  <2>3. ~SaveDecision(w) /\ ~ResetOrphans(w) /\ ~ListReview(w) /\ ~ApproveNext(w)
    BY <1>1 DEF SaveDecision, ResetOrphans, ListReview, ApproveNext
  <2>4. ~EndRun(w) /\ ~Crash(w)
    BY <1>1 DEF EndRun, Crash
  <2> QED
    BY <1>3, <1>4, <2>1, <2>2, <2>3, <2>4 DEF Step
<1> DEFINE k == task[w]
<1>6. PICK m \in k.todo :
        \E r \in Full(m.tx, k.known, k.cat, k.ai > 0) : RowDone(w, m, r)
  BY <1>5 DEF BulkRow, RowDone
<1>7. PICK r \in Full(m.tx, k.known, k.cat, k.ai > 0) : RowDone(w, m, r)
  BY <1>6
<1>8. /\ m.tx \in Txs /\ m.row \in Row /\ m.row = rows[m.tx] /\ m.row.code = NoCode
      /\ k.cat = Active /\ k.known \in [Payees -> Maybe]
      /\ \A p \in Payees : rules[p] # NoCode => k.known[p] = rules[p]
  BY <1>1, <1>2, <1>6, TaskTypes DEF Fresh, ListedOpen, RowsAreBulk
<1>9. t = m.tx /\ r.answer.code # NoCode /\ rows'[t] = Judged(m.row, r.answer)
  BY <1>1, <1>2, <1>7, <1>8 DEF RowDone, TypeOK
<1>10. ASSUME OwnRule(t) # NoCode, ~Movement[t].interco PROVE rows'[t].code = OwnRule(t)
  <2>1. r.answer.code = OwnRule(t) /\ r.answer.high
    <3> HIDE DEF k
    <3> QED
      BY <1>7, <1>8, <1>9, <1>10, RuleAnswers
  <2>2. Judged(m.row, r.answer).code = OwnRule(t)
    BY <1>9, <2>1 DEF Judged
  <2> QED
    BY <1>9, <2>2
<1> QED
  BY <1>8, <1>9, <1>10

\* One handler at a time, a bulk run codes a movement only if it has no code, and
\* by the client's own rule for the payee when he has one the catalogue can use.
THEOREM BulkFollowsRulesAlways == Spec => BulkFollowsRules
<1>1. IInv /\ SerialInv /\ [Next]_vars => FollowsRules
  BY StepFollows
<1> QED
  BY InitOpen, StepOpen, InitSerial, StepSerial, <1>1, PTL
     DEF Spec, BulkFollowsRules, FollowsRules

-----------------------------------------------------------------------------
(* The report adds up *)

\* The amounts, lines and codes as functions.
AmountOf == [t \in Txs |-> Amount(t)]
LineOf == [c \in Codes |-> Line(c)]
Cost == [c \in Codes |-> Magnitude(Line(c))]
CodeOf == [t \in Txs |-> rows[t].code]

\* The sums of the report are sums of functions.
LEMMA SumIsOver ==
    ASSUME NEW T \in SUBSET Txs
    PROVE  Sum(T) = SumOver(AmountOf, T)
<1>0. IsFiniteSet(T)
  BY TxsAssumption, FS_Subset
<1>1. PICK it : Adds(it, AmountOf, T) /\ SumOver(AmountOf, T) = it[T]
  BY <1>0, SumIsAdds
<1>2. ASSUME NEW s \in SUBSET T, s # {} PROVE AmountOf[Any(s)] = Amount(Any(s))
  BY <1>2, AnyIn DEF AmountOf
<1>3. it = [s \in SUBSET T |-> IF s = {} THEN 0 ELSE Amount(Any(s)) + it[s \ {Any(s)}]]
  BY <1>1, <1>2 DEF Adds
<1>4. PICK jt : /\ jt = [s \in SUBSET T |->
                           IF s = {} THEN 0 ELSE Amount(Any(s)) + jt[s \ {Any(s)}]]
                /\ Sum(T) = jt[T]
  BY <1>3 DEF Sum, MapThenSumSet, MapThenFoldSet, Any
<1>5. Adds(jt, AmountOf, T)
  BY <1>4, <1>2 DEF Adds
<1>6. SumOver(AmountOf, T) = jt[T]
  BY <1>0, <1>5, SumAdds
<1> QED
  BY <1>4, <1>6

\* So are the sums of lines,
LEMMA LinesAreOver ==
    ASSUME NEW C \in SUBSET Codes
    PROVE  MapThenSumSet(Line, C) = SumOver(LineOf, C)
<1>0. IsFiniteSet(C)
  BY TxsAssumption, FS_Subset
<1>1. PICK it : Adds(it, LineOf, C) /\ SumOver(LineOf, C) = it[C]
  BY <1>0, SumIsAdds
<1>2. ASSUME NEW s \in SUBSET C, s # {} PROVE LineOf[Any(s)] = Line(Any(s))
  BY <1>2, AnyIn DEF LineOf
<1>3. it = [s \in SUBSET C |-> IF s = {} THEN 0 ELSE Line(Any(s)) + it[s \ {Any(s)}]]
  BY <1>1, <1>2 DEF Adds
<1>4. PICK jt : /\ jt = [s \in SUBSET C |->
                           IF s = {} THEN 0 ELSE Line(Any(s)) + jt[s \ {Any(s)}]]
                /\ MapThenSumSet(Line, C) = jt[C]
  BY <1>3 DEF MapThenSumSet, MapThenFoldSet, Any
<1>5. Adds(jt, LineOf, C)
  BY <1>4, <1>2 DEF Adds
<1>6. SumOver(LineOf, C) = jt[C]
  BY <1>0, <1>5, SumAdds
<1> QED
  BY <1>4, <1>6

\* and of what the report shows of cost lines.
LEMMA CostsAreOver ==
    ASSUME NEW C \in SUBSET Codes
    PROVE  MapThenSumSet(LAMBDA c : Magnitude(Line(c)), C) = SumOver(Cost, C)
<1>0. IsFiniteSet(C)
  BY TxsAssumption, FS_Subset
<1>1. PICK it : Adds(it, Cost, C) /\ SumOver(Cost, C) = it[C]
  BY <1>0, SumIsAdds
<1>2. ASSUME NEW s \in SUBSET C, s # {} PROVE Cost[Any(s)] = Magnitude(Line(Any(s)))
  BY <1>2, AnyIn DEF Cost
<1>3. it = [s \in SUBSET C |->
              IF s = {} THEN 0 ELSE Magnitude(Line(Any(s))) + it[s \ {Any(s)}]]
  BY <1>1, <1>2 DEF Adds
<1>4. PICK jt : /\ jt = [s \in SUBSET C |-> IF s = {} THEN 0
                           ELSE Magnitude(Line(Any(s))) + jt[s \ {Any(s)}]]
                /\ MapThenSumSet(LAMBDA c : Magnitude(Line(c)), C) = jt[C]
  BY <1>3 DEF MapThenSumSet, MapThenFoldSet, Any
<1>5. Adds(jt, Cost, C)
  BY <1>4, <1>2 DEF Adds
<1>6. SumOver(Cost, C) = jt[C]
  BY <1>0, <1>5, SumAdds
<1> QED
  BY <1>4, <1>6

\* The line of a code is the sum of its movements.
LEMMA LineType == \A c \in Codes : Line(c) \in Int /\ LineOf[c] = SumOver(AmountOf, Coded(c))
<1> SUFFICES ASSUME NEW c \in Codes
             PROVE  Line(c) \in Int /\ LineOf[c] = SumOver(AmountOf, Coded(c))
  OBVIOUS
<1>1. Coded(c) \in SUBSET Txs
  BY DEF Coded
<1>2. IsFiniteSet(Coded(c))
  BY <1>1, TxsAssumption, FS_Subset
<1>3. \A t \in Txs : AmountOf[t] \in Int
  BY MovementAssumption DEF AmountOf, Amount
<1>4. Line(c) = SumOver(AmountOf, Coded(c))
  BY <1>1, SumIsOver DEF Line
<1>5. SumOver(AmountOf, Coded(c)) \in Int
  BY <1>1, <1>2, <1>3, SumType
<1> QED
  BY <1>4, <1>5 DEF LineOf

\* Every movement with a code is on the line of one code, and the lines of no
\* movement are nil.
LEMMA LinesAddUp ==
    ASSUME TypeOK
    PROVE  /\ SumOver(LineOf, Codes) + Sum(Uncoded) = Sum(Txs)
           /\ Sum(Uncoded) \in Int
<1> DEFINE S == {t \in Txs : CodeOf[t] \in Codes}
           part == [c \in Codes |-> Coded(c)]
<1>0. \A T \in SUBSET Txs : IsFiniteSet(T) /\ \A t \in T : AmountOf[t] \in Int
  BY TxsAssumption, FS_Subset, MovementAssumption DEF AmountOf, Amount
<1>1. SumOver(LineOf, Codes) = SumOver(AmountOf, UNION {part[c] : c \in Codes})
  <2>1. \A c \in Codes : part[c] \subseteq Txs /\ LineOf[c] = SumOver(AmountOf, part[c])
    BY LineType DEF Coded
  <2>2. \A c, d \in Codes : c # d => part[c] \cap part[d] = {}
    BY DEF Coded
  <2>3. IsFiniteSet(Txs) /\ IsFiniteSet(Codes) /\ \A t \in Txs : AmountOf[t] \in Int
    BY <1>0, TxsAssumption
  <2> HIDE DEF part
  <2> QED
    BY <2>1, <2>2, <2>3, SumParts
<1>2. S = UNION {part[c] : c \in Codes}
  BY DEF Coded, CodeOf
<1>3. Uncoded \in SUBSET Txs /\ S \in SUBSET Txs /\ S \cap Uncoded = {} /\ S \cup Uncoded = Txs
  <2>1. \A t \in Txs : CodeOf[t] = rows[t].code /\ rows[t].code \in Maybe
    BY DEF TypeOK, Row, CodeOf
  <2>2. \A t \in Txs : t \in Uncoded <=> CodeOf[t] \notin Codes
    BY <2>1, CodesAssumption DEF Uncoded, Maybe
  <2> QED
    BY <2>2 DEF Uncoded
<1>4. SumOver(AmountOf, S \cup Uncoded) = SumOver(AmountOf, S) + SumOver(AmountOf, Uncoded)
  <2>1. /\ IsFiniteSet(S) /\ IsFiniteSet(Uncoded)
        /\ \A t \in S \cup Uncoded : AmountOf[t] \in Int
    <3> HIDE DEF S
    <3> QED
      BY <1>0, <1>3
  <2> HIDE DEF S
  <2> QED
    BY <1>3, <2>1, SumUnion
<1>5. Sum(Uncoded) = SumOver(AmountOf, Uncoded) /\ Sum(Txs) = SumOver(AmountOf, Txs)
  BY <1>3, SumIsOver
<1>6. Sum(Uncoded) \in Int
  BY <1>0, <1>3, <1>5, SumType
<1> HIDE DEF S, part
<1> QED
  BY <1>1, <1>2, <1>3, <1>4, <1>5, <1>6

\* What the report says of its accounts, in terms of their lines.
LEMMA ReportAddsUp ==
    ASSUME TypeOK
    PROVE  ProfitAndLoss.net + ProfitAndLoss.interco
               = SumOver(LineOf, Codes) - 2 * MapThenSumSet(Line, InCredit)
<1> DEFINE In == OperatingLines(TRUE)
           Out == OperatingLines(FALSE)
           Owed == Out \ InCredit
           Unused == {c \in Codes \ {Interco} : Coded(c) = {}}
           L(C) == SumOver(LineOf, C)
<1>0. \A C \in SUBSET Codes : IsFiniteSet(C) /\ \A c \in C : LineOf[c] \in Int
  BY TxsAssumption, FS_Subset, LineType DEF LineOf
<1>1. /\ In \in SUBSET Codes /\ Out \in SUBSET Codes /\ InCredit \in SUBSET Codes
      /\ Owed \in SUBSET Codes /\ Unused \in SUBSET Codes /\ {Interco} \in SUBSET Codes
      /\ InCredit \subseteq Out
  BY CodesAssumption DEF OperatingLines, InCredit
<1>2. \A C, D \in SUBSET Codes : C \cap D = {} => L(C \cup D) = L(C) + L(D)
  <2> SUFFICES ASSUME NEW C \in SUBSET Codes, NEW D \in SUBSET Codes, C \cap D = {}
               PROVE  L(C \cup D) = L(C) + L(D)
    OBVIOUS
  <2>1. /\ IsFiniteSet(C) /\ IsFiniteSet(D)
        /\ \A c \in C \cup D : LineOf[c] \in Int
    BY <1>0
  <2> QED
    BY <2>1, SumUnion
<1>3. \A C \in SUBSET Codes : L(C) \in Int
  BY <1>0, SumType
<1>4. /\ In \cap Out = {} /\ (In \cup Out) \cap Unused = {}
      /\ (In \cup Out \cup Unused) \cap {Interco} = {}
      /\ In \cup Out \cup Unused \cup {Interco} = Codes
      /\ Owed \cap InCredit = {} /\ Owed \cup InCredit = Out
  <2>1. \A c \in Codes : IsIncome(c) = TRUE \/ IsIncome(c) = FALSE
    <3> SUFFICES ASSUME NEW c \in Codes PROVE IsIncome(c) = TRUE \/ IsIncome(c) = FALSE
      OBVIOUS
    <3>1. CASE catalog[c] # "absent"
      BY <3>1 DEF IsIncome
    <3>2. CASE catalog[c] = "absent"
      BY <3>2 DEF IsIncome
    <3> QED
      BY <3>1, <3>2
  <2>2. In \cup Out = {c \in Codes \ {Interco} : Coded(c) # {}}
    BY <2>1 DEF OperatingLines
  <2>3. In \cap Out = {}
    BY DEF OperatingLines
  <2> QED
    BY <2>2, <2>3, <1>1, CodesAssumption
<1>5. L(Codes) = L(In) + L(Out) + L(Unused) + L({Interco})
  <2>1. L(In \cup Out) = L(In) + L(Out)
    BY <1>1, <1>2, <1>4
  <2>2. L(In \cup Out \cup Unused) = L(In \cup Out) + L(Unused)
    BY <1>1, <1>2, <1>4
  <2>3. L(In \cup Out \cup Unused \cup {Interco}) = L(In \cup Out \cup Unused) + L({Interco})
    BY <1>1, <1>2, <1>4
  <2> QED
    BY <1>4, <2>1, <2>2, <2>3
<1>6. L(Out) = L(Owed) + L(InCredit)
  BY <1>1, <1>2, <1>4
<1>7. L({Interco}) = Line(Interco)
  BY <1>0, <1>1, SumOne, CodesAssumption DEF LineOf
<1>8. L(Unused) = 0
  <2>1. \A c \in Unused : LineOf[c] = 0
    BY LineType, SumEmpty
  <2>2. \A C \in SUBSET Unused : L(C) = 0
    BY <1>0, <1>1, <2>1, SumZero
  <2> QED
    BY <2>2
<1>9. MapThenSumSet(LAMBDA c : Magnitude(Line(c)), Out) = L(InCredit) - L(Owed)
  <2>1. MapThenSumSet(LAMBDA c : Magnitude(Line(c)), Out) = SumOver(Cost, Out)
    BY <1>1, CostsAreOver
  <2>2. /\ \A c \in InCredit : Cost[c] = LineOf[c]
        /\ \A c \in Owed : Cost[c] = -LineOf[c]
        /\ \A c \in Out : Cost[c] \in Int
    <3> SUFFICES ASSUME NEW c \in Out
                 PROVE  /\ Line(c) > 0 => Cost[c] = LineOf[c]
                        /\ ~(Line(c) > 0) => Cost[c] = -LineOf[c]
                        /\ Cost[c] \in Int
      BY <1>1 DEF InCredit
    <3>1. c \in Codes /\ Line(c) \in Int
      BY <1>1, LineType
    <3>2. Cost[c] = Magnitude(Line(c)) /\ LineOf[c] = Line(c)
      BY <3>1 DEF Cost, LineOf
    <3> QED
      BY <3>1, <3>2 DEF Magnitude
  <2>3. SumOver(Cost, Owed \cup InCredit) = SumOver(Cost, Owed) + SumOver(Cost, InCredit)
    <3>1. IsFiniteSet(Owed) /\ IsFiniteSet(InCredit)
      BY <1>0, <1>1
    <3>2. \A c \in Owed \cup InCredit : Cost[c] \in Int
      BY <1>4, <2>2
    <3> HIDE DEF Owed
    <3> QED
      BY <1>4, <3>1, <3>2, SumUnion
  <2>4. SumOver(Cost, InCredit) = L(InCredit)
    BY <1>0, <1>1, <2>2, SumSame
  <2>5. SumOver(Cost, Owed) = -L(Owed)
    <3>1. IsFiniteSet(Owed) /\ \A c \in Owed : LineOf[c] \in Int /\ Cost[c] = -LineOf[c]
      BY <1>0, <1>1, <2>2
    <3> HIDE DEF Owed
    <3> QED
      BY <3>1, SumNegated
  <2>6. L(Owed) \in Int /\ L(InCredit) \in Int
    BY <1>1, <1>3
  <2>7. SumOver(Cost, Out) = SumOver(Cost, Owed) + SumOver(Cost, InCredit)
    BY <1>4, <2>3
  <2> HIDE DEF Owed, L, Out
  <2> QED
    BY <2>1, <2>4, <2>5, <2>6, <2>7
<1>10. /\ MapThenSumSet(Line, In) = L(In)
       /\ MapThenSumSet(Line, InCredit) = L(InCredit)
  BY <1>1, LinesAreOver
<1>11. /\ ProfitAndLoss.net = L(In) - (L(InCredit) - L(Owed))
       /\ ProfitAndLoss.interco = Line(Interco)
  <2> DEFINE spent == MapThenSumSet(LAMBDA c : Magnitude(Line(c)), Out)
             earned == MapThenSumSet(Line, In)
  <2>1. ProfitAndLoss.net = earned - spent /\ ProfitAndLoss.interco = Line(Interco)
    BY DEF ProfitAndLoss
  <2> HIDE DEF spent, earned
  <2>2. spent = L(InCredit) - L(Owed) /\ earned = L(In)
    BY <1>9, <1>10 DEF spent, earned
  <2> QED
    BY <2>1, <2>2
<1>12. /\ L(In) \in Int /\ L(InCredit) \in Int /\ L(Owed) \in Int /\ L(Out) \in Int
       /\ Line(Interco) \in Int
  BY <1>1, <1>3, LineType, CodesAssumption
<1> HIDE DEF L, In, Out, Owed, Unused
<1>13. L(Codes) = L(In) + L(Owed) + L(InCredit) + Line(Interco)
  BY <1>5, <1>6, <1>7, <1>8, <1>12
<1> QED
  BY <1>10, <1>11, <1>12, <1>13 DEF L

\* Every movement counts once in the profit and loss, whatever catalogue, codes and
\* movements there are (computeProfitAndLossCore), but for cost accounts in credit.
THEOREM BooksAgreeAlways == Spec => []BooksAgree
<1>1. TypeOK => BooksAgree
  <2> SUFFICES ASSUME TypeOK PROVE BooksAgree
    OBVIOUS
  <2>1. \A c \in InCredit : LineOf[c] \in Int
    BY LineType DEF InCredit, OperatingLines, LineOf
  <2>2. InCredit \in SUBSET Codes
    BY DEF InCredit, OperatingLines
  <2>3. IsFiniteSet(InCredit)
    BY <2>2, TxsAssumption, FS_Subset
  <2>4. MapThenSumSet(Line, InCredit) \in Int
    BY <2>1, <2>2, <2>3, LinesAreOver, SumType
  <2>5. SumOver(LineOf, Codes) \in Int
    BY LineType, TxsAssumption, SumType DEF LineOf
  <2> DEFINE twice == 2 * MapThenSumSet(Line, InCredit)
             report == ProfitAndLoss.net + ProfitAndLoss.interco
  <2>6. twice \in Int
    BY <2>4
  <2>7. report = SumOver(LineOf, Codes) - twice
    BY ReportAddsUp
  <2>8. BooksAgree <=> report + Sum(Uncoded) = Sum(Txs) - twice
    BY DEF BooksAgree
  <2> HIDE DEF twice, report
  <2> QED
    BY <2>5, <2>6, <2>7, <2>8, LinesAddUp
<1> QED
  BY <1>1, TypeCorrect, PTL

-----------------------------------------------------------------------------
(***************************************************************************)
(* Part II: Invoicing, for any number of handlers, invoices and calls.     *)
(* Types hold whatever overlaps.                                           *)
(*                                                                         *)
(* Totals and payments are about calm executions: one handler at a time,   *)
(* or handlers that overlap and save an invoice with its lines.  There an  *)
(* invoice is between two handlers, or in the middle of one, and           *)
(* InvoicingInv says what either means: what a handler is about to save    *)
(* fits what is stored (JobOK), and a row fits its lines and its payments  *)
(* but for what the handler at work on it is changing (RowOK).  It must    *)
(* hold of jobs too, because each saves the row it read some statements    *)
(* ago; and where handlers overlap the lines a job has read are not empty, *)
(* bodies bringing some, so that two edits cannot both add theirs.         *)
(***************************************************************************)

\* Where a handler is that overlaps: it goes on to save a whole invoice.
SavePcs == {"idle", "createCommit", "updateNotes", "updateDelete", "updateSave",
            "sendSave", "voidSave"}

\* Handlers run one at a time, or save whole invoices that have lines.
Calm == mode = "serial" \/ (WholeSaves /\ Itemised)

\* A job in progress is about a key that was given out.
JobTyped(t, keys) ==
    /\ t \in Job
    /\ IsFiniteSet(t.items) /\ IsFiniteSet(t.entry)
    /\ IF t.pc \in {"idle", "createCommit"} THEN t.id = NoInvoice ELSE t.id \in keys

InvoicingTyped ==
    /\ InvoicingTypeOK
    /\ IsFiniteSet(live)
    /\ \A i \in Invoices : IsFiniteSet(lines[i]) /\ IsFiniteSet(pays[i])
    /\ \A w \in Handlers : JobTyped(job[w], issued)

\* A handler is at one of these points of its work on i.
BusyWith(i, pcs) == \E w \in Handlers : job[w].id = i /\ job[w].pc \in pcs

\* The lines are gone and the row is not; the payments are not what the row says.
Removing == {"deletePays", "deleteRow"}
Changing == {"recomputeInv", "recomputePays", "recomputeSave", "deleteRow"}

\* E are the lines of an invoice like q, and E its payments.
Totals(q, E) == q.total = Due(q.rate, E) /\ (mode # "serial" => E # {})

Settles(q, E) ==
    q.paid = SumOf(E) /\ (HonestBodies /\ q.status = "paid" => SumOf(E) >= q.total)

\* What handler w has read, and what it will save.
JobOK(w) ==
    LET t == job[w]
        i == t.id
    IN  /\ t.pc \notin {"idle", "createCommit"} => i \in live
        /\ t.pc \in {"createCommit", "updateNotes", "sendSave", "voidSave"} =>
              Totals(t.snap, t.items)
        /\ t.pc \in {"updateDelete", "updateSave"} => Totals(t.snap, t.entry)
        /\ t.pc = "updateSave" => IF mode = "serial" THEN t.items = lines[i] ELSE t.items # {}
        /\ t.pc \in {"recomputePays", "recomputeSave"} => Totals(t.snap, lines[i])
        /\ mode = "serial" =>
              /\ t.pc = "createCommit" => Settles(t.snap, {})
              /\ t.pc \in {"updateNotes", "sendSave", "voidSave", "updateDelete",
                           "updateSave", "recomputeSave"} => Settles(t.snap, pays[i])
        /\ t.pc \in Removing => lines[i] = {}
        /\ t.pc = "deleteRow" => pays[i] = {}

\* What is stored of invoice i.
RowOK(i) ==
    /\ i \in live /\ ~BusyWith(i, Removing) => Totals(inv[i], lines[i])
    /\ mode = "serial" =>
          /\ i \in live /\ ~BusyWith(i, Changing) => Settles(inv[i], pays[i])
          /\ i \notin live => lines[i] = {} /\ pays[i] = {}

OneHandler ==
    mode = "serial" =>
        \A v, w \in Handlers : job[v].pc # "idle" /\ job[w].pc # "idle" => v = w

WholeOnes == mode # "serial" => \A w \in Handlers : job[w].pc \in SavePcs

InvoicingInv ==
    /\ InvoicingTyped
    /\ Calm => /\ OneHandler /\ WholeOnes
               /\ \A w \in Handlers : JobOK(w)
               /\ \A i \in Invoices : RowOK(i)

-----------------------------------------------------------------------------
(* Sums of lines and of payments *)

AmountsOf(E) == [e \in E |-> e.amount]

LEMMA SumOfIsOver ==
    ASSUME NEW E, IsFiniteSet(E)
    PROVE  SumOf(E) = SumOver(AmountsOf(E), E)
<1>1. PICK it : Adds(it, AmountsOf(E), E) /\ SumOver(AmountsOf(E), E) = it[E]
  BY SumIsAdds
<1>2. ASSUME NEW s \in SUBSET E, s # {} PROVE AmountsOf(E)[Any(s)] = Any(s).amount
  BY <1>2, AnyIn DEF AmountsOf
<1>3. it = [s \in SUBSET E |-> IF s = {} THEN 0 ELSE Any(s).amount + it[s \ {Any(s)}]]
  BY <1>1, <1>2 DEF Adds
<1>4. PICK jt : /\ jt = [s \in SUBSET E |->
                           IF s = {} THEN 0 ELSE Any(s).amount + jt[s \ {Any(s)}]]
                /\ SumOf(E) = jt[E]
  BY <1>3 DEF SumOf, MapThenSumSet, MapThenFoldSet, Any
<1>5. Adds(jt, AmountsOf(E), E)
  BY <1>4, <1>2 DEF Adds
<1>6. SumOver(AmountsOf(E), E) = jt[E]
  BY <1>5, SumAdds
<1> QED
  BY <1>4, <1>6

LEMMA SumOfInt ==
    ASSUME NEW E \in SUBSET Entry, IsFiniteSet(E)
    PROVE  SumOf(E) \in Int
<1>1. \A e \in E : AmountsOf(E)[e] \in Int
  BY DEF AmountsOf, Entry
<1> QED
  BY <1>1, SumOfIsOver, SumType

LEMMA DueInt ==
    ASSUME NEW rate \in Int, NEW E \in SUBSET Entry, IsFiniteSet(E)
    PROVE  Due(rate, E) \in Int
<1> DEFINE s == SumOf(E)
           p == s * rate
<1>1. s \in Int
  BY SumOfInt
<1> HIDE DEF s
<1>2. p \in Int
  BY <1>1
<1> HIDE DEF p
<1>3. s + (p + 5000) \div 10000 \in Int
  BY <1>1, <1>2
<1> QED
  BY <1>3 DEF Due, Taxed, s, p

LEMMA SumOfNone == SumOf({}) = 0
BY SumOfIsOver, SumEmpty, FS_EmptySet

LEMMA SumOfOne ==
    ASSUME NEW e \in Entry
    PROVE  SumOf({e}) = e.amount
<1>1. AmountsOf({e})[e] = e.amount /\ e.amount \in Int
  BY DEF AmountsOf, Entry
<1>2. IsFiniteSet({e})
  BY FS_Singleton
<1>3. SumOver(AmountsOf({e}), {e}) = e.amount
  <2> DEFINE v == AmountsOf({e})
  <2>1. v[e] \in Int /\ v[e] = e.amount
    BY <1>1
  <2> HIDE DEF v
  <2>2. SumOver(v, {e}) = e.amount
    BY <2>1, SumOne
  <2> QED
    BY <2>2 DEF v
<1> QED
  BY <1>2, <1>3, SumOfIsOver

-----------------------------------------------------------------------------
(* Types *)

LEMMA NoJobTyped ==
    /\ NoJob \in Job /\ \A keys : JobTyped(NoJob, keys)
    /\ NoJob.pc = "idle" /\ NoJob.id = NoInvoice
    /\ Blank \in Invoice
<1>1. Blank \in Invoice
  BY DEF Blank, Invoice, Status
<1>2. NoJob \in Job
  BY <1>1, MaxCallsAssumption DEF NoJob, Job, Pc
<1>3. /\ NoJob.pc = "idle" /\ NoJob.id = NoInvoice
      /\ NoJob.items = {} /\ NoJob.entry = {}
  BY DEF NoJob
<1> QED
  BY <1>1, <1>2, <1>3, FS_EmptySet DEF JobTyped

LEMMA InitTyped == InvoicingInit => InvoicingTyped
<1> SUFFICES ASSUME InvoicingInit PROVE InvoicingTyped
  OBVIOUS
<1>1. /\ mode \in Modes /\ live \subseteq issued /\ issued \subseteq Invoices
      /\ started \in 0..MaxCalls /\ IsFiniteSet(live)
  BY MaxCallsAssumption, FS_EmptySet DEF InvoicingInit
<1>2. /\ inv \in [Invoices -> Invoice] /\ lines \in [Invoices -> SUBSET Entry]
      /\ pays \in [Invoices -> SUBSET Entry]
      /\ \A i \in Invoices : IsFiniteSet(lines[i]) /\ IsFiniteSet(pays[i])
  BY NoJobTyped, FS_EmptySet DEF InvoicingInit
<1>3. /\ job \in [Handlers -> Job]
      /\ \A w \in Handlers : JobTyped(job[w], issued)
  BY NoJobTyped DEF InvoicingInit
<1> QED
  BY <1>1, <1>2, <1>3 DEF InvoicingTyped, InvoicingTypeOK

LEMMA TypedFacts ==
    ASSUME InvoicingTyped
    PROVE  /\ mode \in Modes /\ live \subseteq issued /\ issued \subseteq Invoices
           /\ IsFiniteSet(live)
           /\ inv \in [Invoices -> Invoice] /\ lines \in [Invoices -> SUBSET Entry]
           /\ pays \in [Invoices -> SUBSET Entry] /\ job \in [Handlers -> Job]
           /\ started \in 0..MaxCalls
           /\ \A i \in Invoices :
                 /\ inv[i] \in Invoice /\ lines[i] \subseteq Entry /\ pays[i] \subseteq Entry
                 /\ IsFiniteSet(lines[i]) /\ IsFiniteSet(pays[i])
                 /\ SumOf(lines[i]) \in Int /\ SumOf(pays[i]) \in Int
           /\ \A w \in Handlers : JobTyped(job[w], issued)
<1>1. /\ mode \in Modes /\ live \subseteq issued /\ issued \subseteq Invoices
      /\ inv \in [Invoices -> Invoice] /\ lines \in [Invoices -> SUBSET Entry]
      /\ pays \in [Invoices -> SUBSET Entry] /\ job \in [Handlers -> Job]
      /\ started \in 0..MaxCalls /\ IsFiniteSet(live)
      /\ \A w \in Handlers : JobTyped(job[w], issued)
  BY DEF InvoicingTyped, InvoicingTypeOK
<1>2. \A i \in Invoices :
         /\ inv[i] \in Invoice /\ lines[i] \subseteq Entry /\ pays[i] \subseteq Entry
         /\ IsFiniteSet(lines[i]) /\ IsFiniteSet(pays[i])
  BY <1>1 DEF InvoicingTyped
<1>3. \A i \in Invoices : SumOf(lines[i]) \in Int /\ SumOf(pays[i]) \in Int
  BY <1>2, SumOfInt
<1> QED
  BY <1>1, <1>2, <1>3

LEMMA JobFacts ==
    ASSUME InvoicingTyped, NEW w \in Handlers
    PROVE  /\ job[w] \in Job /\ job[w].snap \in Invoice
           /\ job[w].items \subseteq Entry /\ job[w].entry \subseteq Entry
           /\ IsFiniteSet(job[w].items) /\ IsFiniteSet(job[w].entry)
           /\ job[w].pc \notin {"idle", "createCommit"} =>
                 job[w].id \in issued /\ job[w].id \in Invoices
           /\ job[w].pc \in {"idle", "createCommit"} => job[w].id = NoInvoice
<1>1. JobTyped(job[w], issued) /\ issued \subseteq Invoices
  BY TypedFacts
<1>2. job[w] \in Job
  BY <1>1 DEF JobTyped
<1>3. /\ job[w].snap \in Invoice
      /\ job[w].items \subseteq Entry /\ job[w].entry \subseteq Entry
  BY <1>2 DEF Job
<1> QED
  BY <1>1, <1>2, <1>3 DEF JobTyped

\* One handler's job changes, with the rows that stay well typed.
LEMMA StepTyped ==
    ASSUME InvoicingTyped, mode' = mode, NEW w \in Handlers,
           NEW t, JobTyped(t, issued'), job' = [job EXCEPT ![w] = t],
           live' \subseteq issued', IsFiniteSet(live'),
           issued \subseteq issued', issued' \subseteq Invoices,
           inv' \in [Invoices -> Invoice],
           lines' \in [Invoices -> SUBSET Entry], pays' \in [Invoices -> SUBSET Entry],
           \A i \in Invoices : IsFiniteSet(lines'[i]) /\ IsFiniteSet(pays'[i]),
           started' \in 0..MaxCalls
    PROVE  InvoicingTyped'
<1>1. t \in Job
  BY DEF JobTyped
<1>2. job' \in [Handlers -> Job]
  BY <1>1, TypedFacts
<1>3. ASSUME NEW v \in Handlers PROVE JobTyped(job'[v], issued')
  <2>1. CASE v = w
    BY <2>1, TypedFacts
  <2>2. CASE v # w
    <3>1. job'[v] = job[v] /\ JobTyped(job[v], issued)
      BY <2>2, TypedFacts
    <3> QED
      BY <3>1 DEF JobTyped
  <2> QED
    BY <2>1, <2>2
<1>4. mode' \in Modes
  BY TypedFacts
<1> QED
  BY <1>2, <1>3, <1>4 DEF InvoicingTyped, InvoicingTypeOK

\* The rows stay as they are.
LEMMA StaysTyped ==
    ASSUME InvoicingTyped, mode' = mode, NEW w \in Handlers,
           NEW t, JobTyped(t, issued), job' = [job EXCEPT ![w] = t],
           UNCHANGED <<table, lines, pays>>, started' \in 0..MaxCalls
    PROVE  InvoicingTyped'
<1>1. UNCHANGED <<live, issued, inv, lines, pays>>
  BY DEF table
<1> QED
  BY <1>1, TypedFacts, StepTyped

-----------------------------------------------------------------------------
(* How handlers begin *)

\* Handler w has read invoice i and goes on with t.
Opened(w, i, t) ==
    /\ i \in live /\ t.id = i /\ t.items = lines[i] /\ JobTyped(t, issued)
    /\ job' = [job EXCEPT ![w] = t] /\ job[w].pc = "idle"
    /\ mode = "serial" => \A v \in Handlers : job[v].pc = "idle"
    /\ started' \in 0..MaxCalls
    /\ UNCHANGED <<table, lines, pays>>

\* What an edit is going to save.
Edited(t, i) ==
    /\ ~Frozen(inv[i]) /\ t.snap.paid = inv[i].paid
    /\ t.snap.status = inv[i].status \/ t.snap.status \in BodyStatus[mode]
    /\ t.snap.total = Due(t.snap.rate, t.entry)
    /\ Itemised /\ mode # "serial" /\ lines[i] # {} => t.entry # {}

Whole == {"create", "update", "send", "void"}

LEMMA LoadedFields ==
    ASSUME InvoicingTyped, NEW i \in live, started < MaxCalls,
           NEW pc \in Pc \ {"idle", "createCommit"}
    PROVE  /\ JobTyped(Loaded(pc, i), issued) /\ Loaded(pc, i) \in Job
           /\ Loaded(pc, i).pc = pc /\ Loaded(pc, i).id = i
           /\ Loaded(pc, i).snap = inv[i] /\ Loaded(pc, i).items = lines[i]
           /\ Loaded(pc, i).entry = {}
           /\ i \in Invoices /\ i \in issued
<1>1. /\ i \in Invoices /\ i \in issued /\ inv[i] \in Invoice
      /\ lines[i] \subseteq Entry /\ IsFiniteSet(lines[i])
      /\ started + 1 \in 0..MaxCalls
  BY TypedFacts, MaxCallsAssumption
<1>2. /\ Loaded(pc, i) \in Job
      /\ Loaded(pc, i).pc = pc /\ Loaded(pc, i).id = i
      /\ Loaded(pc, i).snap = inv[i] /\ Loaded(pc, i).items = lines[i]
      /\ Loaded(pc, i).entry = {}
  BY <1>1 DEF Loaded, NoJob, Job
<1> QED
  BY <1>1, <1>2, FS_EmptySet DEF JobTyped

LEMMA StartsFacts ==
    ASSUME InvoicingTyped, NEW w \in Handlers, NEW op, Starts(w, op)
    PROVE  /\ job[w].pc = "idle" /\ op \in Ops[mode] /\ started < MaxCalls
           /\ mode = "serial" => \A v \in Handlers : job[v].pc = "idle"
           /\ started' = started + 1 /\ started' \in 0..MaxCalls
           /\ started + 1 \in 1..MaxCalls
BY TypedFacts, MaxCallsAssumption DEF Starts

\* A handler that goes on with the invoice as it read it.
LEMMA ReadsOpened ==
    ASSUME InvoicingTyped, NEW w \in Handlers, NEW op, Starts(w, op), NEW i \in live,
           NEW pc \in Pc \ {"idle", "createCommit"}, Becomes(w, Loaded(pc, i)),
           UNCHANGED <<table, lines, pays>>
    PROVE  Opened(w, i, Loaded(pc, i))
BY LoadedFields, StartsFacts DEF Opened, Becomes

\* And one that has also an entry to write.
LEMMA EntryOpened ==
    ASSUME InvoicingTyped, NEW w \in Handlers, NEW op, Starts(w, op), NEW i \in live,
           NEW pc \in Pc \ {"idle", "createCommit"}, NEW E \in SUBSET Entry, IsFiniteSet(E),
           Becomes(w, [Loaded(pc, i) EXCEPT !.entry = E]),
           UNCHANGED <<table, lines, pays>>
    PROVE  \E t : Opened(w, i, t) /\ t.pc = pc
<1> DEFINE t == [Loaded(pc, i) EXCEPT !.entry = E]
<1>1. /\ JobTyped(Loaded(pc, i), issued) /\ Loaded(pc, i) \in Job
      /\ Loaded(pc, i).pc = pc /\ Loaded(pc, i).id = i
      /\ Loaded(pc, i).items = lines[i] /\ i \in issued
  BY LoadedFields, StartsFacts
<1>2. /\ t \in Job /\ t.pc = pc /\ t.id = i /\ t.items = lines[i] /\ t.entry = E
  BY <1>1 DEF Job
<1>3. job' = [job EXCEPT ![w] = t]
  BY DEF Becomes
<1> HIDE DEF t
<1>4. JobTyped(t, issued)
  BY <1>1, <1>2 DEF JobTyped
<1>5. Opened(w, i, t)
  BY <1>2, <1>3, <1>4, StartsFacts DEF Opened
<1> QED
  BY <1>2, <1>5

\* The lines of a body, and those an edit without any writes again.
LEMMA LinesListed ==
    ASSUME InvoicingTyped, started + 1 \in 1..MaxCalls
    PROVE  /\ \A E \in BodyLines :
                 /\ E \in SUBSET Entry /\ IsFiniteSet(E)
                 /\ Itemised /\ mode # "serial" => E # {}
           /\ \A i \in Invoices :
                 /\ Rewritten(i) \in SUBSET Entry /\ IsFiniteSet(Rewritten(i))
                 /\ lines[i] # {} => Rewritten(i) # {}
<1>1. ASSUME NEW a \in Int
      PROVE  ListOf(a) \in SUBSET Entry /\ IsFiniteSet(ListOf(a)) /\ ListOf(a) # {}
  <2> DEFINE e == [by |-> started + 1, amount |-> a]
  <2>1. e \in Entry
    BY DEF Entry
  <2> HIDE DEF e
  <2> QED
    BY <2>1, FS_Singleton DEF ListOf, e
<1>2. ASSUME NEW E \in BodyLines
      PROVE  /\ E \in SUBSET Entry /\ IsFiniteSet(E)
             /\ Itemised /\ mode # "serial" => E # {}
  <2>1. CASE \E a \in Subtotals : E = ListOf(a)
    BY <1>1, <2>1, AmountsAssumption
  <2>2. CASE E = {} /\ mode \in Bare
    BY <2>2, FS_EmptySet DEF Itemised
  <2> QED
    BY <2>1, <2>2 DEF BodyLines
<1>3. ASSUME NEW i \in Invoices
      PROVE  /\ Rewritten(i) \in SUBSET Entry /\ IsFiniteSet(Rewritten(i))
             /\ lines[i] # {} => Rewritten(i) # {}
  BY <1>1, TypedFacts, FS_EmptySet DEF Rewritten
<1> QED
  BY <1>2, <1>3

LEMMA UpdateOpened ==
    ASSUME InvoicingTyped, NEW w \in Handlers, UpdateBegin(w)
    PROVE  \E i \in live : \E t :
              /\ Opened(w, i, t)
              /\ \/ t.pc = "updateNotes" /\ t.snap = inv[i]
                 \/ t.pc = "updateDelete" /\ Edited(t, i)
<1>1. Starts(w, "update") /\ UNCHANGED <<table, lines, pays>>
  BY DEF UpdateBegin
<1>2. PICK i \in live :
        \/ Frozen(inv[i]) /\ Becomes(w, Loaded("updateNotes", i))
        \/ /\ ~Frozen(inv[i])
           /\ \E s \in BodyStatus[mode], r \in Rates \cup {inv[i].rate},
                 E \in BodyLines \cup {Rewritten(i)} :
                 Becomes(w, [Loaded("updateDelete", i) EXCEPT
                               !.snap.status = IF s = "none" THEN @ ELSE s,
                               !.snap.rate = r, !.snap.total = Due(r, E), !.entry = E])
  BY DEF UpdateBegin
<1>3. CASE Frozen(inv[i]) /\ Becomes(w, Loaded("updateNotes", i))
  <2>1. Opened(w, i, Loaded("updateNotes", i))
    BY <1>1, <1>3, ReadsOpened DEF Pc
  <2>2. Loaded("updateNotes", i).pc = "updateNotes" /\ Loaded("updateNotes", i).snap = inv[i]
    BY <1>1, StartsFacts, LoadedFields DEF Pc
  <2> QED
    BY <2>1, <2>2
<1>4. CASE /\ ~Frozen(inv[i])
           /\ \E s \in BodyStatus[mode], r \in Rates \cup {inv[i].rate},
                 E \in BodyLines \cup {Rewritten(i)} :
                 Becomes(w, [Loaded("updateDelete", i) EXCEPT
                               !.snap.status = IF s = "none" THEN @ ELSE s,
                               !.snap.rate = r, !.snap.total = Due(r, E), !.entry = E])
  <2>1. PICK s \in BodyStatus[mode], r \in Rates \cup {inv[i].rate},
             E \in BodyLines \cup {Rewritten(i)} :
          Becomes(w, [Loaded("updateDelete", i) EXCEPT
                        !.snap.status = IF s = "none" THEN @ ELSE s,
                        !.snap.rate = r, !.snap.total = Due(r, E), !.entry = E])
    BY <1>4
  <2> DEFINE st == IF s = "none" THEN inv[i].status ELSE s
             d == Due(r, E)
             snap == [[[inv[i] EXCEPT !.status = st] EXCEPT !.rate = r] EXCEPT !.total = d]
             t == [[Loaded("updateDelete", i) EXCEPT !.snap = snap] EXCEPT !.entry = E]
             l == Loaded("updateDelete", i)
  <2>2. /\ JobTyped(l, issued) /\ l \in Job
        /\ l.pc = "updateDelete" /\ l.id = i /\ l.snap = inv[i] /\ l.items = lines[i]
        /\ i \in Invoices /\ i \in issued
    BY <1>1, StartsFacts, LoadedFields DEF Pc
  <2>3. job' = [job EXCEPT ![w] = t]
    <3> HIDE DEF l, d
    <3>1. [l EXCEPT !.snap.status = IF s = "none" THEN @ ELSE s, !.snap.rate = r,
                    !.snap.total = d, !.entry = E]
            = [[l EXCEPT !.snap = snap] EXCEPT !.entry = E]
      BY <2>2 DEF Job
    <3> QED
      BY <2>1, <3>1 DEF Becomes, l, d
  <2>4. r \in Int /\ inv[i] \in Invoice
    BY <2>2, TypedFacts, AmountsAssumption DEF Invoice
  <2>5. st \in Status /\ (st = inv[i].status \/ st \in BodyStatus[mode])
    BY <2>4, TypedFacts, BodyStatusAssumption DEF Invoice
  <2>6. /\ E \in SUBSET Entry /\ IsFiniteSet(E)
        /\ Itemised /\ mode # "serial" /\ lines[i] # {} => E # {}
    BY <1>1, <2>2, StartsFacts, LinesListed
  <2>12. d \in Int
    BY <2>4, <2>6, DueInt
  <2> HIDE DEF st, d, l
  <2>7. /\ snap \in Invoice /\ snap.status = st /\ snap.rate = r /\ snap.total = d
        /\ snap.paid = inv[i].paid
    BY <2>4, <2>5, <2>12 DEF Invoice
  <2> HIDE DEF snap
  <2>8. t \in Job /\ t.pc = "updateDelete" /\ t.id = i /\ t.items = lines[i]
        /\ t.entry = E /\ t.snap = snap
    BY <2>2, <2>6, <2>7 DEF Job, l
  <2> HIDE DEF t
  <2>9. JobTyped(t, issued)
    BY <2>2, <2>6, <2>8 DEF JobTyped
  <2>10. Opened(w, i, t)
    BY <1>1, <2>3, <2>8, <2>9, StartsFacts DEF Opened
  <2>11. Edited(t, i)
    BY <1>4, <2>5, <2>6, <2>7, <2>8 DEF Edited, d
  <2> QED
    BY <2>8, <2>10, <2>11
<1> QED
  BY <1>2, <1>3, <1>4

LEMMA PaymentOpened ==
    ASSUME InvoicingTyped, NEW w \in Handlers,
           AddBegin(w) \/ UpdatePayBegin(w) \/ DeletePayBegin(w)
    PROVE  /\ ~(Ops[mode] \subseteq Whole)
           /\ \E i \in live : \E t :
                 Opened(w, i, t) /\ t.pc \in {"payInsert", "paySave", "payDelete"}
<1>1. CASE AddBegin(w)
  <2>1. Starts(w, "pay") /\ UNCHANGED <<table, lines, pays>>
    BY <1>1 DEF AddBegin
  <2>2. PICK i \in live, a \in Amounts :
          Becomes(w, [Loaded("payInsert", i) EXCEPT !.entry = {[by |-> started + 1, amount |-> a]}])
    BY <1>1 DEF AddBegin
  <2> DEFINE e == [by |-> started + 1, amount |-> a]
  <2>3. e \in Entry
    BY <2>1, StartsFacts, AmountsAssumption DEF Entry
  <2> HIDE DEF e
  <2>4. {e} \in SUBSET Entry /\ IsFiniteSet({e})
    BY <2>3, FS_Singleton
  <2>5. \E t : Opened(w, i, t) /\ t.pc = "payInsert"
    BY <2>1, <2>2, <2>4, EntryOpened DEF Pc, e
  <2> QED
    BY <2>1, <2>5, StartsFacts DEF Whole
<1>2. CASE UpdatePayBegin(w)
  <2>1. Starts(w, "editPay") /\ UNCHANGED <<table, lines, pays>>
    BY <1>2 DEF UpdatePayBegin
  <2>2. PICK i \in live : \E p \in pays[i], a \in Amounts :
          Becomes(w, [Loaded("paySave", i) EXCEPT !.entry = {[p EXCEPT !.amount = a]}])
    BY <1>2 DEF UpdatePayBegin
  <2>3. PICK p \in pays[i], a \in Amounts :
          Becomes(w, [Loaded("paySave", i) EXCEPT !.entry = {[p EXCEPT !.amount = a]}])
    BY <2>2
  <2>4. p \in Entry /\ a \in Nat
    BY TypedFacts, AmountsAssumption
  <2> DEFINE e == [p EXCEPT !.amount = a]
  <2>5. e \in Entry
    BY <2>4 DEF Entry
  <2> HIDE DEF e
  <2>6. {e} \in SUBSET Entry /\ IsFiniteSet({e})
    BY <2>5, FS_Singleton
  <2>7. \E t : Opened(w, i, t) /\ t.pc = "paySave"
    BY <2>1, <2>3, <2>6, EntryOpened DEF Pc, e
  <2> QED
    BY <2>1, <2>7, StartsFacts DEF Whole
<1>3. CASE DeletePayBegin(w)
  <2>1. Starts(w, "removePay") /\ UNCHANGED <<table, lines, pays>>
    BY <1>3 DEF DeletePayBegin
  <2>2. PICK i \in live : \E p \in pays[i] :
          Becomes(w, [Loaded("payDelete", i) EXCEPT !.entry = {p}])
    BY <1>3 DEF DeletePayBegin
  <2>3. PICK p \in pays[i] : Becomes(w, [Loaded("payDelete", i) EXCEPT !.entry = {p}])
    BY <2>2
  <2>4. {p} \in SUBSET Entry /\ IsFiniteSet({p})
    BY TypedFacts, FS_Singleton
  <2>5. \E t : Opened(w, i, t) /\ t.pc = "payDelete"
    BY <2>1, <2>3, <2>4, EntryOpened DEF Pc
  <2> QED
    BY <2>1, <2>5, StartsFacts DEF Whole
<1> QED
  BY <1>1, <1>2, <1>3

LEMMA WholeOpened ==
    ASSUME InvoicingTyped, NEW w \in Handlers, SendBegin(w) \/ VoidBegin(w)
    PROVE  \E i \in live : \E t :
              Opened(w, i, t) /\ t.pc \in {"sendSave", "voidSave"} /\ t.snap = inv[i]
<1>1. PICK op \in {"send", "void"}, pc \in {"sendSave", "voidSave"}, i \in live :
        Starts(w, op) /\ Becomes(w, Loaded(pc, i)) /\ UNCHANGED <<table, lines, pays>>
  BY DEF SendBegin, VoidBegin
<1>2. Opened(w, i, Loaded(pc, i))
  BY <1>1, ReadsOpened DEF Pc
<1>3. Loaded(pc, i).pc = pc /\ Loaded(pc, i).snap = inv[i]
  BY <1>1, StartsFacts, LoadedFields DEF Pc
<1> QED
  BY <1>2, <1>3

LEMMA DeleteOpened ==
    ASSUME InvoicingTyped, NEW w \in Handlers, DeleteBegin(w)
    PROVE  /\ ~(Ops[mode] \subseteq Whole)
           /\ \E i \in live : \E t : Opened(w, i, t) /\ t.pc = "deleteLines"
<1>1. Starts(w, "delete") /\ UNCHANGED <<table, lines, pays>>
  BY DEF DeleteBegin
<1>2. PICK i \in live : Becomes(w, Loaded("deleteLines", i))
  BY DEF DeleteBegin
<1>3. Opened(w, i, Loaded("deleteLines", i)) /\ Loaded("deleteLines", i).pc = "deleteLines"
  BY <1>1, <1>2, ReadsOpened, StartsFacts, LoadedFields DEF Pc
<1> QED
  BY <1>1, <1>3, StartsFacts DEF Whole

\* An invoice about to be inserted.
LEMMA CreateBegins ==
    ASSUME InvoicingTyped, NEW w \in Handlers, CreateBegin(w)
    PROVE  \E t :
              /\ JobTyped(t, issued) /\ t.pc = "createCommit"
              /\ t.snap.total = Due(t.snap.rate, t.items)
              /\ Itemised /\ mode # "serial" => t.items # {}
              /\ t.snap.paid = 0 /\ (t.snap.status = "sent" \/ t.snap.status \in BodyStatus[mode])
              /\ job' = [job EXCEPT ![w] = t] /\ job[w].pc = "idle"
              /\ mode = "serial" => \A v \in Handlers : job[v].pc = "idle"
              /\ started' \in 0..MaxCalls
              /\ UNCHANGED <<table, lines, pays>>
<1>1. Starts(w, "create") /\ UNCHANGED <<table, lines, pays>>
  BY DEF CreateBegin
<1>2. PICK s \in BodyStatus[mode], r \in Rates, E \in BodyLines :
        Becomes(w, [NoJob EXCEPT
                      !.pc = "createCommit", !.call = started + 1,
                      !.snap = [Blank EXCEPT !.status = IF s = "none" THEN "sent" ELSE s,
                                             !.rate = r, !.total = Due(r, E),
                                             !.number = NextNumber],
                      !.items = E])
  BY DEF CreateBegin
<1> DEFINE st == IF s = "none" THEN "sent" ELSE s
           d == Due(r, E)
           n == NextNumber
           snap == [Blank EXCEPT !.status = st, !.rate = r, !.total = d, !.number = n]
           t == [NoJob EXCEPT !.pc = "createCommit", !.call = started + 1,
                              !.snap = snap, !.items = E]
<1>3. job' = [job EXCEPT ![w] = t]
  BY <1>2 DEF Becomes
<1>4. r \in Int /\ n \in Nat /\ started + 1 \in 0..MaxCalls
  <2>1. Cardinality(live) \in Nat
    BY TypedFacts, FS_CardinalityType
  <2> QED
    BY <1>1, <2>1, StartsFacts, AmountsAssumption DEF NextNumber
<1>5. st \in Status /\ (st = "sent" \/ st \in BodyStatus[mode])
  BY TypedFacts, BodyStatusAssumption DEF Status
<1>6. /\ E \in SUBSET Entry /\ IsFiniteSet(E)
      /\ Itemised /\ mode # "serial" => E # {}
  BY <1>1, StartsFacts, LinesListed
<1>10. d \in Int
  BY <1>4, <1>6, DueInt
<1> HIDE DEF st, d, n
<1>7. /\ snap \in Invoice /\ snap.status = st /\ snap.rate = r /\ snap.total = d
      /\ snap.paid = 0
  <2>1. Blank \in Invoice /\ Blank.paid = 0
    BY NoJobTyped DEF Blank
  <2>2. snap = [[[[Blank EXCEPT !.status = st] EXCEPT !.rate = r] EXCEPT !.total = d]
                  EXCEPT !.number = n]
    BY <2>1 DEF Invoice
  <2> HIDE DEF snap
  <2> QED
    BY <1>4, <1>5, <1>10, <2>1, <2>2 DEF Invoice
<1> HIDE DEF snap
<1>8. /\ t \in Job /\ t.pc = "createCommit" /\ t.id = NoInvoice /\ t.snap = snap
      /\ t.items = E /\ t.entry = {}
  BY <1>4, <1>6, <1>7 DEF NoJob, Job, Pc
<1> HIDE DEF t
<1>9. JobTyped(t, issued)
  BY <1>6, <1>8, FS_EmptySet DEF JobTyped
<1>11. t.snap.total = Due(t.snap.rate, t.items)
  BY <1>7, <1>8 DEF d
<1> QED
  BY <1>1, <1>3, <1>5, <1>6, <1>7, <1>8, <1>9, <1>11, StartsFacts

LEMMA BeginTyped ==
    ASSUME InvoicingTyped, mode' = mode, NEW w \in Handlers, Begin(w)
    PROVE  InvoicingTyped'
<1>1. CASE CreateBegin(w)
  BY <1>1, CreateBegins, StaysTyped
<1>2. ASSUME NEW i \in live, NEW t, Opened(w, i, t) PROVE InvoicingTyped'
  BY <1>2, StaysTyped DEF Opened
<1> QED
  BY <1>1, <1>2, UpdateOpened, PaymentOpened, WholeOpened, DeleteOpened DEF Begin

-----------------------------------------------------------------------------
(* How they go on *)

\* The row of invoice i is stored as q, with the lines E.
StoredWith(i, q, E) ==
    /\ inv' = [inv EXCEPT ![i] = q] /\ lines' = [lines EXCEPT ![i] = E]
    /\ live' = live \cup {i} /\ UNCHANGED <<issued, pays>>

Fits(i, q, E) ==
    /\ Totals(q, E)
    /\ mode = "serial" => Settles(q, pays[i])

LEMMA SaveIs ==
    ASSUME InvoicingTyped, NEW i \in Invoices, NEW q, NEW E,
           SaveWithItems(i, q, E), UNCHANGED pays
    PROVE  UNCHANGED <<table, lines, pays>> \/ StoredWith(i, q, E)
BY DEF SaveWithItems, Save, StoredWith, table

LEMMA Saves ==
    ASSUME InvoicingTyped, NEW w \in Handlers,
           \/ UpdateNotes(w) \/ UpdateSave(w) \/ SendSave(w) \/ VoidSave(w)
           \/ RecomputeSave(w)
    PROVE  /\ job[w].pc \notin {"idle", "createCommit"} /\ job[w].pc \notin Removing
           /\ Finish(w) /\ started' = started
           /\ \/ UNCHANGED <<table, lines, pays>> /\ job[w].pc \notin Changing
              \/ \E q \in Invoice, E \in SUBSET Entry :
                    /\ IsFiniteSet(E) /\ StoredWith(job[w].id, q, E)
                    /\ JobOK(w) => Fits(job[w].id, q, E)
<1> DEFINE i == job[w].id
           s == job[w].snap
           items == job[w].items
<1>1. /\ s \in Invoice /\ items \in SUBSET Entry /\ IsFiniteSet(items)
      /\ job[w].entry \in SUBSET Entry /\ IsFiniteSet(job[w].entry)
  BY JobFacts
<1>2. /\ job[w].pc \in {"updateNotes", "updateSave", "sendSave", "voidSave", "recomputeSave"}
      /\ Finish(w) /\ started' = started
  BY DEF UpdateNotes, UpdateSave, SendSave, VoidSave, RecomputeSave, At
<1>3. /\ job[w].pc \notin {"idle", "createCommit"} /\ job[w].pc \notin Removing
      /\ i \in Invoices /\ lines[i] \subseteq Entry /\ IsFiniteSet(lines[i])
  BY <1>2, JobFacts, TypedFacts DEF Removing
<1>4. CASE UpdateNotes(w)
  <2>1. UNCHANGED <<table, lines, pays>> \/ StoredWith(i, s, items)
    BY <1>3, <1>4, SaveIs DEF UpdateNotes
  <2>2. JobOK(w) => Fits(i, s, items)
    BY <1>4 DEF JobOK, Fits, UpdateNotes, At
  <2>3. job[w].pc \notin Changing
    BY <1>4 DEF UpdateNotes, At, Changing
  <2> QED
    BY <1>1, <1>2, <1>3, <2>1, <2>2, <2>3
<1>5. CASE SendSave(w)
  <2> DEFINE q == [s EXCEPT !.sentAt = TRUE]
  <2>1. UNCHANGED <<table, lines, pays>> \/ StoredWith(i, q, items)
    BY <1>3, <1>5, SaveIs DEF SendSave
  <2>2. q \in Invoice /\ q.total = s.total /\ q.rate = s.rate /\ q.paid = s.paid
        /\ q.status = s.status
    BY <1>1 DEF Invoice
  <2> HIDE DEF q
  <2>3. JobOK(w) => Fits(i, q, items)
    BY <1>5, <2>2 DEF JobOK, Fits, SendSave, At, Totals, Settles
  <2>4. job[w].pc \notin Changing
    BY <1>5 DEF SendSave, At, Changing
  <2> QED
    BY <1>1, <1>2, <1>3, <2>1, <2>2, <2>3, <2>4
<1>6. CASE VoidSave(w)
  <2> DEFINE q == [s EXCEPT !.status = "void"]
  <2>1. UNCHANGED <<table, lines, pays>> \/ StoredWith(i, q, items)
    BY <1>3, <1>6, SaveIs DEF VoidSave
  <2>2. q \in Invoice /\ q.total = s.total /\ q.rate = s.rate /\ q.paid = s.paid
        /\ q.status = "void"
    BY <1>1 DEF Invoice, Status
  <2> HIDE DEF q
  <2>3. JobOK(w) => Fits(i, q, items)
    BY <1>6, <2>2 DEF JobOK, Fits, VoidSave, At, Totals, Settles
  <2>4. job[w].pc \notin Changing
    BY <1>6 DEF VoidSave, At, Changing
  <2> QED
    BY <1>1, <1>2, <1>3, <2>1, <2>2, <2>3, <2>4
<1>7. CASE UpdateSave(w)
  <2> DEFINE others == lines[i] \ items
             E == others \cup job[w].entry
  <2>1. \/ UNCHANGED <<table, lines, pays>>
        \/ (others = {} \/ items = {}) /\ StoredWith(i, s, E)
    BY <1>7 DEF UpdateSave, Save, StoredWith, table
  <2>2. E \in SUBSET Entry /\ IsFiniteSet(E)
    <3>1. IsFiniteSet(others)
      BY <1>3, FS_Subset
    <3> QED
      BY <1>1, <1>3, <3>1, FS_Union
  <2>3. ASSUME JobOK(w), others = {} \/ items = {} PROVE Fits(i, s, E)
    <3>1. IF mode = "serial" THEN items = lines[i] ELSE items # {}
      BY <1>7, <2>3 DEF JobOK, UpdateSave, At
    <3>2. E = job[w].entry
      BY <2>3, <3>1
    <3> HIDE DEF E
    <3> QED
      BY <1>7, <2>3, <3>2 DEF JobOK, Fits, UpdateSave, At
  <2>4. job[w].pc \notin Changing
    BY <1>7 DEF UpdateSave, At, Changing
  <2> HIDE DEF E, others
  <2> QED
    BY <1>1, <1>2, <1>3, <2>1, <2>2, <2>3, <2>4
<1>8. CASE RecomputeSave(w)
  <2>1. StoredWith(i, s, lines[i])
    BY <1>3, <1>8, TypedFacts DEF RecomputeSave, Save, StoredWith
  <2>2. JobOK(w) => Fits(i, s, lines[i])
    BY <1>8 DEF JobOK, Fits, RecomputeSave, At
  <2> QED
    BY <1>1, <1>2, <1>3, <2>1, <2>2
<1> QED
  BY <1>4, <1>5, <1>6, <1>7, <1>8

LEMMA SavesTyped ==
    ASSUME InvoicingTyped, mode' = mode, NEW w \in Handlers,
           \/ UpdateNotes(w) \/ UpdateSave(w) \/ SendSave(w) \/ VoidSave(w)
           \/ RecomputeSave(w)
    PROVE  InvoicingTyped'
<1>1. job' = [job EXCEPT ![w] = NoJob] /\ started' \in 0..MaxCalls
  BY Saves, TypedFacts DEF Finish, Becomes
<1>2. CASE UNCHANGED <<table, lines, pays>>
  BY <1>1, <1>2, NoJobTyped, StaysTyped
<1>3. ASSUME NEW q \in Invoice, NEW E \in SUBSET Entry, IsFiniteSet(E),
             StoredWith(job[w].id, q, E)
      PROVE  InvoicingTyped'
  <2>1. job[w].id \in Invoices /\ job[w].id \in issued
    BY Saves, JobFacts
  <2>2. /\ live' = live \cup {job[w].id} /\ issued' = issued
        /\ inv' = [inv EXCEPT ![job[w].id] = q] /\ lines' = [lines EXCEPT ![job[w].id] = E]
        /\ pays' = pays
    BY <1>3 DEF StoredWith
  <2>3. IsFiniteSet(live')
    BY <2>2, TypedFacts, FS_AddElement
  <2>4. /\ inv' \in [Invoices -> Invoice] /\ lines' \in [Invoices -> SUBSET Entry]
        /\ pays' \in [Invoices -> SUBSET Entry]
        /\ \A i \in Invoices : IsFiniteSet(lines'[i]) /\ IsFiniteSet(pays'[i])
    BY <1>3, <2>1, <2>2, TypedFacts
  <2>5. live' \subseteq issued' /\ issued \subseteq issued' /\ issued' \subseteq Invoices
    BY <2>1, <2>2, TypedFacts
  <2> QED
    BY <1>1, <2>3, <2>4, <2>5, NoJobTyped, StepTyped
<1> QED
  BY <1>2, <1>3, Saves

\* A new key of the sequence.
LEMMA CreateCommits ==
    ASSUME InvoicingTyped, NEW w \in Handlers, CreateCommit(w)
    PROVE  \E i \in Invoices \ issued :
              /\ inv' = [inv EXCEPT ![i] = job[w].snap]
              /\ lines' = [lines EXCEPT ![i] = job[w].items]
              /\ live' = live \cup {i} /\ issued' = issued \cup {i}
              /\ job' = [job EXCEPT ![w] = NoJob] /\ job[w].pc = "createCommit"
              /\ pays' = pays /\ started' = started
BY DEF CreateCommit, At, Finish, Becomes

LEMMA CreateTyped ==
    ASSUME InvoicingTyped, mode' = mode, NEW w \in Handlers, CreateCommit(w)
    PROVE  InvoicingTyped'
<1>1. PICK i \in Invoices \ issued :
        /\ inv' = [inv EXCEPT ![i] = job[w].snap]
        /\ lines' = [lines EXCEPT ![i] = job[w].items]
        /\ live' = live \cup {i} /\ issued' = issued \cup {i}
        /\ job' = [job EXCEPT ![w] = NoJob] /\ job[w].pc = "createCommit"
        /\ pays' = pays /\ started' = started
  BY CreateCommits
<1>2. /\ job[w].snap \in Invoice /\ job[w].items \in SUBSET Entry
      /\ IsFiniteSet(job[w].items)
  BY JobFacts
<1>3. IsFiniteSet(live') /\ started' \in 0..MaxCalls
  BY <1>1, TypedFacts, FS_AddElement
<1>4. /\ inv' \in [Invoices -> Invoice] /\ lines' \in [Invoices -> SUBSET Entry]
      /\ pays' \in [Invoices -> SUBSET Entry]
      /\ \A j \in Invoices : IsFiniteSet(lines'[j]) /\ IsFiniteSet(pays'[j])
  BY <1>1, <1>2, TypedFacts
<1>5. live' \subseteq issued' /\ issued \subseteq issued' /\ issued' \subseteq Invoices
  BY <1>1, TypedFacts
<1> QED
  BY <1>1, <1>3, <1>4, <1>5, NoJobTyped, StepTyped

\* The next statement of a handler.
LEMMA ReachesIs ==
    ASSUME InvoicingTyped, NEW w \in Handlers, job[w].pc \notin {"idle", "createCommit"},
           NEW pc \in Pc \ {"idle", "createCommit"}, Reaches(w, pc)
    PROVE  \E t : /\ job' = [job EXCEPT ![w] = t] /\ JobTyped(t, issued)
                  /\ t.pc = pc /\ t.id = job[w].id
<1> DEFINE t == [job[w] EXCEPT !.pc = pc]
<1>1. JobTyped(job[w], issued) /\ job[w] \in Job
  BY TypedFacts, JobFacts
<1>2. /\ t \in Job /\ t.pc = pc /\ t.id = job[w].id
      /\ t.items = job[w].items /\ t.entry = job[w].entry
  BY <1>1 DEF Job
<1>3. job' = [job EXCEPT ![w] = t]
  BY DEF Reaches, Becomes
<1> HIDE DEF t
<1>4. JobTyped(t, issued)
  BY <1>1, <1>2 DEF JobTyped
<1> QED
  BY <1>2, <1>3, <1>4

\* A payment is inserted, saved or removed.
LEMMA PaymentGoes ==
    ASSUME InvoicingTyped, NEW w \in Handlers, PayInsert(w) \/ PaySave(w) \/ PayDelete(w)
    PROVE  /\ job[w].pc \in {"payInsert", "paySave", "payDelete"}
           /\ UNCHANGED <<table, lines, started>>
           /\ \E E \in SUBSET Entry : \E t :
                 /\ IsFiniteSet(E) /\ pays' = [pays EXCEPT ![job[w].id] = E]
                 /\ job' = [job EXCEPT ![w] = t] /\ JobTyped(t, issued)
                 /\ \/ t.pc = "recomputeInv" /\ t.id = job[w].id
                    \/ t = NoJob /\ pays' = pays
<1>1. /\ job[w].pc \in {"payInsert", "paySave", "payDelete"}
      /\ UNCHANGED <<table, lines, started>>
  BY DEF PayInsert, PaySave, PayDelete, At
<1> DEFINE i == job[w].id
           left == {p \in pays[i] : \A q \in job[w].entry : q.by # p.by}
<1>2. /\ i \in Invoices /\ pays[i] \in SUBSET Entry /\ IsFiniteSet(pays[i])
      /\ job[w].entry \in SUBSET Entry /\ IsFiniteSet(job[w].entry)
      /\ job[w].pc \notin {"idle", "createCommit"}
  BY <1>1, JobFacts, TypedFacts
<1>3. left \in SUBSET Entry /\ IsFiniteSet(left)
  BY <1>2, FS_Subset
<1>4. PICK E : /\ E \in {pays[i] \cup job[w].entry, left \cup job[w].entry, left}
               /\ pays' = [pays EXCEPT ![i] = E]
  BY DEF PayInsert, PaySave, PayDelete
<1>5. E \in SUBSET Entry /\ IsFiniteSet(E)
  <2>1. E \in SUBSET Entry
    BY <1>2, <1>3, <1>4
  <2>2. IsFiniteSet(pays[i] \cup job[w].entry) /\ IsFiniteSet(left \cup job[w].entry)
    <3> HIDE DEF left, i
    <3> QED
      BY <1>2, <1>3, FS_Union
  <2> QED
    BY <1>3, <1>4, <2>1, <2>2
<1>6. Reaches(w, "recomputeInv") \/ (Finish(w) /\ pays' = pays)
  <2>1. CASE PayDelete(w) /\ left = pays[i]
    <3>1. pays' = [pays EXCEPT ![i] = pays[i]] /\ Finish(w)
      BY <2>1 DEF PayDelete
    <3> QED
      BY <1>2, <3>1, TypedFacts
  <2>2. CASE ~(PayDelete(w) /\ left = pays[i])
    BY <2>2 DEF PayInsert, PaySave, PayDelete
  <2> QED
    BY <2>1, <2>2
<1>7. CASE Reaches(w, "recomputeInv")
  <2>1. PICK t : /\ job' = [job EXCEPT ![w] = t] /\ JobTyped(t, issued)
                 /\ t.pc = "recomputeInv" /\ t.id = i
    BY <1>2, <1>7, ReachesIs DEF Pc
  <2> QED
    BY <1>1, <1>4, <1>5, <2>1
<1>8. CASE Finish(w) /\ pays' = pays
  BY <1>1, <1>4, <1>5, <1>8, NoJobTyped DEF Finish, Becomes
<1> QED
  BY <1>6, <1>7, <1>8

LEMMA RecomputedIs ==
    ASSUME NEW q \in Invoice, NEW n \in Int
    PROVE  /\ Recomputed(q, n) \in Invoice
           /\ Recomputed(q, n).total = q.total /\ Recomputed(q, n).rate = q.rate
           /\ Recomputed(q, n).paid = n
           /\ Recomputed(q, n).status = "paid" => n >= q.total
<1> DEFINE st == IF n = 0
                 THEN IF q.status = "void" \/ (q.status = "draft" /\ ~q.sentAt)
                      THEN q.status ELSE "sent"
                 ELSE IF n >= q.total THEN "paid" ELSE "partial"
<1>1. Recomputed(q, n) = [q EXCEPT !.paid = n, !.status = st]
  BY DEF Recomputed, Invoice
<1>2. st \in Status /\ (st = "paid" => n >= q.total)
  BY DEF Invoice, Status
<1> HIDE DEF st
<1> QED
  BY <1>1, <1>2 DEF Invoice

\* The handler reads: lines to delete, the row to recompute, or its payments.
LEMMA ReadsOn ==
    ASSUME InvoicingTyped, NEW w \in Handlers, UpdateDelete(w) \/ RecomputePays(w)
    PROVE  /\ job[w].pc \in {"updateDelete", "recomputePays"}
           /\ UNCHANGED <<table, lines, pays, started>>
           /\ \E t : /\ job' = [job EXCEPT ![w] = t] /\ JobTyped(t, issued)
                     /\ t.id = job[w].id
                     /\ \/ /\ job[w].pc = "updateDelete" /\ t.pc = "updateSave"
                           /\ t.items = lines[t.id]
                           /\ t.snap = job[w].snap /\ t.entry = job[w].entry
                        \/ /\ job[w].pc = "recomputePays" /\ t.pc = "recomputeSave"
                           /\ t.snap = Recomputed(job[w].snap, SumOf(pays[t.id]))
<1> DEFINE i == job[w].id
<1>1. /\ job[w].pc \in {"updateDelete", "recomputePays"}
      /\ UNCHANGED <<table, lines, pays, started>>
  BY DEF UpdateDelete, RecomputePays, At
<1>2. /\ job[w] \in Job /\ JobTyped(job[w], issued) /\ i \in Invoices /\ i \in issued
      /\ lines[i] \in SUBSET Entry /\ IsFiniteSet(lines[i]) /\ SumOf(pays[i]) \in Int
      /\ job[w].snap \in Invoice
      /\ IsFiniteSet(job[w].items) /\ IsFiniteSet(job[w].entry)
  BY <1>1, JobFacts, TypedFacts
<1>3. CASE UpdateDelete(w)
  <2> DEFINE t == [job[w] EXCEPT !.pc = "updateSave", !.items = lines[i]]
  <2>1. job' = [job EXCEPT ![w] = t] /\ job[w].pc = "updateDelete"
    BY <1>3 DEF UpdateDelete, Becomes, At
  <2>2. /\ t \in Job /\ t.pc = "updateSave" /\ t.id = i /\ t.items = lines[i]
        /\ t.snap = job[w].snap /\ t.entry = job[w].entry
    BY <1>2 DEF Job, Pc
  <2> HIDE DEF t
  <2>3. JobTyped(t, issued)
    BY <1>2, <2>2 DEF JobTyped
  <2> QED
    BY <1>1, <2>1, <2>2, <2>3
<1>4. CASE RecomputePays(w)
  <2> DEFINE r == Recomputed(job[w].snap, SumOf(pays[i]))
             t == [job[w] EXCEPT !.pc = "recomputeSave", !.snap = r]
  <2>1. job[w].pc = "recomputePays" /\ r \in Invoice
    BY <1>2, <1>4, RecomputedIs DEF RecomputePays, At
  <2>2. job' = [job EXCEPT ![w] = t]
    BY <1>2, <1>4 DEF RecomputePays, Becomes, Job
  <2> HIDE DEF r
  <2>3. /\ t \in Job /\ t.pc = "recomputeSave" /\ t.id = i /\ t.snap = r
        /\ t.items = job[w].items /\ t.entry = job[w].entry
    BY <1>2, <2>1 DEF Job, Pc
  <2> HIDE DEF t
  <2>4. JobTyped(t, issued)
    BY <1>2, <2>3 DEF JobTyped
  <2> QED
    BY <1>1, <2>1, <2>2, <2>3, <2>4 DEF r
<1> QED
  BY <1>3, <1>4

LEMMA RecomputeReads ==
    ASSUME InvoicingTyped, NEW w \in Handlers, RecomputeInv(w)
    PROVE  /\ job[w].pc = "recomputeInv"
           /\ UNCHANGED <<table, lines, pays, started>>
           /\ \E t : /\ job' = [job EXCEPT ![w] = t] /\ JobTyped(t, issued)
                     /\ \/ /\ t.pc = "recomputePays" /\ t.id = job[w].id
                           /\ job[w].id \in live /\ t.snap = inv[job[w].id]
                        \/ t = NoJob /\ job[w].id \notin live
<1> DEFINE i == job[w].id
<1>1. job[w].pc = "recomputeInv" /\ UNCHANGED <<table, lines, pays, started>>
  BY DEF RecomputeInv, At
<1>2. /\ job[w] \in Job /\ JobTyped(job[w], issued) /\ i \in Invoices /\ i \in issued
      /\ inv[i] \in Invoice /\ IsFiniteSet(job[w].items) /\ IsFiniteSet(job[w].entry)
  BY <1>1, JobFacts, TypedFacts
<1>3. CASE i \in live
  <2> DEFINE t == [job[w] EXCEPT !.pc = "recomputePays", !.snap = inv[i]]
  <2>1. job' = [job EXCEPT ![w] = t]
    BY <1>3 DEF RecomputeInv, Becomes
  <2>2. /\ t \in Job /\ t.pc = "recomputePays" /\ t.id = i /\ t.snap = inv[i]
        /\ t.items = job[w].items /\ t.entry = job[w].entry
    BY <1>2 DEF Job, Pc
  <2> HIDE DEF t
  <2>3. JobTyped(t, issued)
    BY <1>2, <2>2 DEF JobTyped
  <2> QED
    BY <1>1, <1>3, <2>1, <2>2, <2>3
<1>4. CASE i \notin live
  BY <1>1, <1>4, NoJobTyped DEF RecomputeInv, Finish, Becomes
<1> QED
  BY <1>3, <1>4

LEMMA ContinueTyped ==
    ASSUME InvoicingTyped, mode' = mode, NEW w \in Handlers, Continue(w)
    PROVE  InvoicingTyped'
<1>1. CASE PayInsert(w) \/ PaySave(w) \/ PayDelete(w)
  <2>1. /\ job[w].pc \in {"payInsert", "paySave", "payDelete"}
        /\ UNCHANGED <<table, lines, started>>
    BY <1>1, PaymentGoes
  <2>2. PICK E \in SUBSET Entry : \E t :
          /\ IsFiniteSet(E) /\ pays' = [pays EXCEPT ![job[w].id] = E]
          /\ job' = [job EXCEPT ![w] = t] /\ JobTyped(t, issued)
    BY <1>1, PaymentGoes
  <2>3. /\ job[w].id \in Invoices
        /\ UNCHANGED <<live, issued, inv, lines>>
    BY <2>1, JobFacts DEF table
  <2>4. pays' \in [Invoices -> SUBSET Entry] /\ \A i \in Invoices : IsFiniteSet(pays'[i])
    BY <2>2, <2>3, TypedFacts
  <2>5. /\ live' \subseteq issued' /\ IsFiniteSet(live') /\ issued \subseteq issued'
        /\ issued' \subseteq Invoices /\ inv' \in [Invoices -> Invoice]
        /\ lines' \in [Invoices -> SUBSET Entry] /\ started' \in 0..MaxCalls
        /\ \A i \in Invoices : IsFiniteSet(lines'[i]) /\ IsFiniteSet(pays'[i])
    BY <2>1, <2>3, <2>4, TypedFacts
  <2> QED
    BY <2>2, <2>3, <2>4, <2>5, StepTyped
<1>2. CASE UpdateDelete(w) \/ RecomputePays(w) \/ RecomputeInv(w)
  <2>1. UNCHANGED <<table, lines, pays>> /\ started' \in 0..MaxCalls
    BY <1>2, ReadsOn, RecomputeReads, TypedFacts
  <2>2. \E t : job' = [job EXCEPT ![w] = t] /\ JobTyped(t, issued)
    BY <1>2, ReadsOn, RecomputeReads
  <2> QED
    BY <2>1, <2>2, StaysTyped
<1>3. CASE DeleteLines(w) \/ DeletePays(w) \/ DeleteRow(w)
  <2>1. job[w].pc \in {"deleteLines", "deletePays", "deleteRow"} /\ started' = started
    BY <1>3 DEF DeleteLines, DeletePays, DeleteRow, At
  <2>2. job[w].id \in Invoices /\ job[w].pc \notin {"idle", "createCommit"}
    BY <2>1, JobFacts
  <2>3. \E t : job' = [job EXCEPT ![w] = t] /\ JobTyped(t, issued)
    <3>1. Reaches(w, "deletePays") \/ Reaches(w, "deleteRow") \/ Finish(w)
      BY <1>3 DEF DeleteLines, DeletePays, DeleteRow
    <3>2. CASE Finish(w)
      BY <3>2, NoJobTyped DEF Finish, Becomes
    <3> QED
      BY <2>2, <3>1, <3>2, ReachesIs DEF Pc
  <2>4. /\ issued' = issued /\ live' \in {live, live \ {job[w].id}}
        /\ inv' = inv \/ inv' = [inv EXCEPT ![job[w].id] = Blank]
        /\ lines' = lines \/ lines' = [lines EXCEPT ![job[w].id] = {}]
        /\ pays' = pays \/ pays' = [pays EXCEPT ![job[w].id] = {}]
    BY <1>3 DEF DeleteLines, DeletePays, DeleteRow, table
  <2>5. IsFiniteSet(live')
    BY <2>4, TypedFacts, FS_Subset
  <2>6. inv' \in [Invoices -> Invoice]
    BY <2>4, TypedFacts, NoJobTyped
  <2>7. /\ lines' \in [Invoices -> SUBSET Entry] /\ pays' \in [Invoices -> SUBSET Entry]
        /\ \A i \in Invoices : IsFiniteSet(lines'[i]) /\ IsFiniteSet(pays'[i])
    BY <2>4, TypedFacts, FS_EmptySet
  <2>8. /\ live' \subseteq issued' /\ issued \subseteq issued' /\ issued' \subseteq Invoices
        /\ started' \in 0..MaxCalls
    BY <2>1, <2>4, TypedFacts
  <2>9. \E t : job' = [job EXCEPT ![w] = t] /\ JobTyped(t, issued')
    BY <2>3, <2>4
  <2> QED
    BY <2>5, <2>6, <2>7, <2>8, <2>9, StepTyped
<1> QED
  BY <1>1, <1>2, <1>3, SavesTyped, CreateTyped DEF Continue

LEMMA NextTyped == InvoicingTyped /\ [InvoicingNext]_invoicingVars => InvoicingTyped'
<1> SUFFICES ASSUME InvoicingTyped, [InvoicingNext]_invoicingVars PROVE InvoicingTyped'
  OBVIOUS
<1>1. CASE UNCHANGED invoicingVars
  BY <1>1 DEF InvoicingTyped, InvoicingTypeOK, invoicingVars
<1>2. CASE InvoicingNext
  BY <1>2, BeginTyped, ContinueTyped DEF InvoicingNext
<1> QED
  BY <1>1, <1>2

\* Invoices, lines, payments and handlers keep their types, whatever overlaps.
THEOREM InvoicingTypeCorrect == InvoicingSpec => []InvoicingTypeOK
<1>1. InvoicingTyped => InvoicingTypeOK
  BY DEF InvoicingTyped
<1> QED
  BY <1>1, InitTyped, NextTyped, PTL DEF InvoicingSpec

-----------------------------------------------------------------------------
(* Totals and payments *)

\* What holds when handlers run alone, or overlap and save whole invoices.
CalmInv ==
    /\ InvoicingTyped /\ Calm /\ OneHandler /\ WholeOnes
    /\ \A w \in Handlers : JobOK(w)
    /\ \A i \in Invoices : RowOK(i)

Kept ==
    /\ OneHandler' /\ WholeOnes'
    /\ \A w \in Handlers : JobOK(w)'
    /\ \A i \in Invoices : RowOK(i)'

LEMMA CalmFacts ==
    ASSUME CalmInv
    PROVE  /\ InvoicingTyped /\ Calm /\ OneHandler /\ WholeOnes
           /\ \A w \in Handlers : JobOK(w)
           /\ \A i \in Invoices : RowOK(i)
           /\ mode # "serial" => Ops[mode] \subseteq Whole /\ Itemised
BY TypedFacts DEF CalmInv, Calm, WholeSaves, Whole

\* An idle handler promises nothing.
LEMMA IdleOK == \A w \in Handlers : job[w].pc = "idle" => JobOK(w)
BY DEF JobOK, Removing

\* One handler w moves from its job to t, and touches only the rows of invoice k.
Moves(w, t, k) ==
    /\ job' = [job EXCEPT ![w] = t] /\ mode' = mode
    /\ \/ job[w].pc # "idle"
       \/ mode = "serial" => \A v \in Handlers : job[v].pc = "idle"
    /\ mode = "serial" \/ live \subseteq live'
    /\ mode = "serial" \/ t.pc \in SavePcs
    /\ job[w].pc \in {"idle", "createCommit"} \/ job[w].id = k
    /\ \A j \in Invoices : j # k =>
          /\ inv'[j] = inv[j] /\ lines'[j] = lines[j] /\ pays'[j] = pays[j]
          /\ j \in live' <=> j \in live

LEMMA OthersKept ==
    ASSUME CalmInv, NEW w \in Handlers, NEW t, NEW k, Moves(w, t, k), JobOK(w)',
           k \in Invoices => RowOK(k)'
    PROVE  Kept
<1>0. /\ InvoicingTyped /\ job \in [Handlers -> Job]
      /\ OneHandler /\ WholeOnes
      /\ \A v \in Handlers : JobOK(v)
      /\ \A i \in Invoices : RowOK(i)
  BY CalmFacts, TypedFacts
<1>1. job'[w] = t /\ \A v \in Handlers : v # w => job'[v] = job[v]
  BY <1>0 DEF Moves
<1>2. mode = "serial" => \A v \in Handlers : v # w => job[v].pc = "idle"
  BY <1>0 DEF Moves, OneHandler
<1>3. OneHandler'
  BY <1>1, <1>2 DEF OneHandler, Moves
<1>4. WholeOnes'
  BY <1>0, <1>1 DEF WholeOnes, Moves
<1>5. ASSUME NEW v \in Handlers PROVE JobOK(v)'
  <2>1. CASE v = w
    BY <2>1
  <2>2. CASE v # w /\ job[v].pc = "idle"
    BY <1>1, <2>2 DEF JobOK, Removing
  <2>3. CASE v # w /\ job[v].pc # "idle"
    <3>1. mode # "serial" /\ mode' = mode /\ live \subseteq live'
      BY <1>2, <2>3 DEF Moves
    <3>2. job[v].pc \in SavePcs /\ job'[v] = job[v] /\ JobOK(v)
      BY <1>0, <1>1, <2>3, <3>1 DEF WholeOnes
    <3> QED
      BY <3>1, <3>2 DEF Totals, JobOK, SavePcs, Removing
  <2> QED
    BY <2>1, <2>2, <2>3
<1>6. ASSUME NEW j \in Invoices PROVE RowOK(j)'
  <2>1. CASE j = k
    BY <2>1
  <2>2. CASE j # k
    <3>1. /\ inv'[j] = inv[j] /\ lines'[j] = lines[j] /\ pays'[j] = pays[j]
          /\ (j \in live' <=> j \in live) /\ mode' = mode
      BY <2>2 DEF Moves
    <3>2. ASSUME NEW v \in Handlers, job[v].id = j, job[v].pc \notin {"idle", "createCommit"}
          PROVE  job'[v] = job[v]
      BY <1>1, <2>2, <3>2 DEF Moves
    <3>3. BusyWith(j, Removing) => BusyWith(j, Removing)'
      BY <3>2 DEF BusyWith, Removing
    <3>4. BusyWith(j, Changing) => BusyWith(j, Changing)'
      BY <3>2 DEF BusyWith, Changing
    <3> QED
      BY <1>0, <3>1, <3>3, <3>4 DEF Totals, RowOK
  <2> QED
    BY <2>1, <2>2
<1> QED
  BY <1>3, <1>4, <1>5, <1>6 DEF Kept

\* A handler that goes on recomputing or deleting, if it was, and changes no row.
LEMMA RowsStay ==
    ASSUME CalmInv, NEW w \in Handlers, NEW t, job' = [job EXCEPT ![w] = t], mode' = mode,
           UNCHANGED <<table, lines, pays>>,
           job[w].pc \in Removing => t.pc \in Removing /\ t.id = job[w].id,
           job[w].pc \in Changing => t.pc \in Changing /\ t.id = job[w].id,
           NEW k \in Invoices
    PROVE  RowOK(k)'
<1>1. /\ inv'[k] = inv[k] /\ lines'[k] = lines[k] /\ pays'[k] = pays[k]
      /\ (k \in live' <=> k \in live)
  BY DEF table
<1>2. job'[w] = t /\ \A v \in Handlers : v # w => job'[v] = job[v]
  BY CalmFacts, TypedFacts
<1>3. BusyWith(k, Removing) => BusyWith(k, Removing)'
  BY <1>2 DEF BusyWith
<1>4. BusyWith(k, Changing) => BusyWith(k, Changing)'
  BY <1>2 DEF BusyWith
<1> QED
  BY <1>1, <1>3, <1>4, CalmFacts DEF Totals, RowOK

\* A handler that starts is the only one when handlers run alone, and works on an
\* invoice nobody changes.
LEMMA OpenedKept ==
    ASSUME CalmInv, mode' = mode, NEW w \in Handlers, NEW i \in live, NEW t,
           Opened(w, i, t), JobOK(w)', mode = "serial" \/ t.pc \in SavePcs
    PROVE  Kept
<1>1. i \in Invoices
  BY CalmFacts, TypedFacts
<1>2. job[w].pc = "idle" /\ "idle" \notin Removing \cup Changing
  BY DEF Opened, Removing, Changing
<1>3. RowOK(i)'
  BY <1>1, <1>2, RowsStay DEF Opened
<1>4. Moves(w, t, i)
  BY <1>2 DEF Moves, Opened, table
<1> QED
  BY <1>3, <1>4, OthersKept

\* What a handler finds in the rows when it starts.
LEMMA Finds ==
    ASSUME CalmInv, NEW w \in Handlers, NEW i \in live, NEW t, Opened(w, i, t)
    PROVE  /\ Totals(inv[i], lines[i])
           /\ mode = "serial" => Settles(inv[i], pays[i])
<1>1. mode = "serial" => \A v \in Handlers : job[v].pc = "idle"
  BY DEF Opened
<1>2. ~BusyWith(i, Removing)
  BY <1>1, CalmFacts DEF WholeOnes, BusyWith, Removing, SavePcs
<1>3. mode = "serial" => ~BusyWith(i, Changing)
  BY <1>1 DEF BusyWith, Changing
<1>4. i \in Invoices
  BY CalmFacts, TypedFacts
<1> QED
  BY <1>2, <1>3, <1>4, CalmFacts DEF RowOK

LEMMA BeginKept ==
    ASSUME CalmInv, mode' = mode, NEW w \in Handlers, Begin(w)
    PROVE  Kept
<1>0. /\ InvoicingTyped /\ job \in [Handlers -> Job]
      /\ mode # "serial" => Ops[mode] \subseteq Whole /\ Itemised
  BY CalmFacts, TypedFacts
<1>1. CASE CreateBegin(w)
  <2>1. PICK t :
          /\ JobTyped(t, issued) /\ t.pc = "createCommit"
          /\ t.snap.total = Due(t.snap.rate, t.items)
          /\ Itemised /\ mode # "serial" => t.items # {}
          /\ t.snap.paid = 0 /\ (t.snap.status = "sent" \/ t.snap.status \in BodyStatus[mode])
          /\ job' = [job EXCEPT ![w] = t] /\ job[w].pc = "idle"
          /\ mode = "serial" => \A v \in Handlers : job[v].pc = "idle"
          /\ UNCHANGED <<table, lines, pays>>
    BY <1>0, <1>1, CreateBegins
  <2>2. job'[w] = t
    BY <1>0, <2>1
  <2>3. Totals(t.snap, t.items)
    BY <1>0, <2>1 DEF Totals
  <2>4. mode = "serial" => Settles(t.snap, {})
    <3> SUFFICES ASSUME mode = "serial", HonestBodies PROVE t.snap.status # "paid"
      BY <2>1, SumOfNone DEF Settles
    <3>1. "serial" \in Modes
      BY <1>0, TypedFacts
    <3> QED
      BY <2>1, <3>1 DEF HonestBodies
  <2>5. JobOK(w)'
    BY <2>1, <2>2, <2>3, <2>4 DEF Totals, JobOK, Removing
  <2>6. Moves(w, t, NoInvoice)
    BY <2>1 DEF Moves, SavePcs, table
  <2> QED
    BY <2>5, <2>6, NoInvoiceAssumption, OthersKept
<1>2. CASE UpdateBegin(w)
  <2>1. PICK i \in live : \E t :
          /\ Opened(w, i, t)
          /\ \/ t.pc = "updateNotes" /\ t.snap = inv[i]
             \/ t.pc = "updateDelete" /\ Edited(t, i)
    BY <1>0, <1>2, UpdateOpened
  <2>2. PICK t :
          /\ Opened(w, i, t)
          /\ \/ t.pc = "updateNotes" /\ t.snap = inv[i]
             \/ t.pc = "updateDelete" /\ Edited(t, i)
    BY <2>1
  <2>3. /\ job'[w] = t /\ t.id = i /\ t.items = lines[i] /\ i \in Invoices
        /\ live' = live /\ lines' = lines /\ pays' = pays
    BY <1>0, <2>2, TypedFacts DEF Opened, table
  <2>4. /\ Totals(inv[i], lines[i])
        /\ mode = "serial" => Settles(inv[i], pays[i])
    BY <2>2, Finds
  <2>5. JobOK(w)'
    <3>1. CASE t.pc = "updateNotes" /\ t.snap = inv[i]
      BY <2>3, <2>4, <3>1 DEF Totals, JobOK, Removing
    <3>2. CASE t.pc = "updateDelete" /\ Edited(t, i)
      <4>1. Totals(t.snap, t.entry)
        BY <1>0, <2>4, <3>2 DEF Edited, Totals
      <4>2. mode = "serial" => Settles(t.snap, pays[i])
        <5> SUFFICES ASSUME mode = "serial", HonestBodies PROVE t.snap.status # "paid"
          BY <2>4, <3>2 DEF Settles, Edited
        <5>1. "serial" \in Modes
          BY <1>0, TypedFacts
        <5> QED
          BY <3>2, <5>1 DEF HonestBodies, Edited, Frozen
      <4> QED
        BY <2>3, <3>2, <4>1, <4>2 DEF Totals, JobOK, Removing
    <3> QED
      BY <2>2, <3>1, <3>2
  <2> QED
    BY <2>2, <2>5, OpenedKept DEF SavePcs
<1>3. CASE SendBegin(w) \/ VoidBegin(w)
  <2>1. PICK i \in live : \E t :
          Opened(w, i, t) /\ t.pc \in {"sendSave", "voidSave"} /\ t.snap = inv[i]
    BY <1>0, <1>3, WholeOpened
  <2>2. PICK t : Opened(w, i, t) /\ t.pc \in {"sendSave", "voidSave"} /\ t.snap = inv[i]
    BY <2>1
  <2>3. /\ job'[w] = t /\ t.id = i /\ t.items = lines[i] /\ i \in Invoices
        /\ live' = live /\ lines' = lines /\ pays' = pays
    BY <1>0, <2>2, TypedFacts DEF Opened, table
  <2>4. /\ Totals(inv[i], lines[i])
        /\ mode = "serial" => Settles(inv[i], pays[i])
    BY <2>2, Finds
  <2>5. JobOK(w)'
    BY <2>2, <2>3, <2>4 DEF Totals, JobOK, Removing
  <2> QED
    BY <2>2, <2>5, OpenedKept DEF SavePcs
<1>4. CASE AddBegin(w) \/ UpdatePayBegin(w) \/ DeletePayBegin(w) \/ DeleteBegin(w)
  <2>1. mode = "serial"
    BY <1>0, <1>4, PaymentOpened, DeleteOpened
  <2>2. PICK i \in live : \E t :
          Opened(w, i, t) /\ t.pc \in {"payInsert", "paySave", "payDelete", "deleteLines"}
    BY <1>0, <1>4, PaymentOpened, DeleteOpened
  <2>3. PICK t : Opened(w, i, t) /\ t.pc \in {"payInsert", "paySave", "payDelete", "deleteLines"}
    BY <2>2
  <2>4. job'[w] = t /\ t.id = i /\ live' = live
    BY <1>0, <2>3, TypedFacts DEF Opened, table
  <2>5. JobOK(w)'
    BY <2>3, <2>4 DEF JobOK, Removing
  <2> QED
    BY <2>1, <2>3, <2>5, OpenedKept
<1> QED
  BY <1>1, <1>2, <1>3, <1>4 DEF Begin

\* A handler that is neither idle nor creating works alone or saves a whole invoice,
\* which is there, with its lines unless it is being deleted.
LEMMA AtWork ==
    ASSUME CalmInv, NEW w \in Handlers, job[w].pc \notin {"idle", "createCommit"}
    PROVE  /\ job[w].id \in live /\ job[w].id \in Invoices
           /\ mode = "serial" \/ job[w].pc \in SavePcs
           /\ job[w].pc \notin Removing => Totals(inv[job[w].id], lines[job[w].id])
           /\ mode = "serial" /\ job[w].pc \notin Changing =>
                 Settles(inv[job[w].id], pays[job[w].id])
<1>1. /\ InvoicingTyped /\ JobOK(w) /\ OneHandler /\ WholeOnes
      /\ \A i \in Invoices : RowOK(i)
  BY CalmFacts
<1>2. job[w].id \in live /\ job[w].id \in Invoices
  BY <1>1, JobFacts DEF JobOK
<1>3. mode = "serial" \/ job[w].pc \in SavePcs
  BY <1>1 DEF WholeOnes
<1>4. mode = "serial" => \A v \in Handlers : job[v].pc # "idle" => v = w
  BY <1>1 DEF OneHandler
<1>5. job[w].pc \notin Removing => ~BusyWith(job[w].id, Removing)
  BY <1>1, <1>4 DEF BusyWith, Removing, WholeOnes, SavePcs
<1>6. mode = "serial" /\ job[w].pc \notin Changing => ~BusyWith(job[w].id, Changing)
  BY <1>4 DEF BusyWith, Changing
<1> QED
  BY <1>1, <1>2, <1>3, <1>5, <1>6 DEF RowOK

LEMMA NoJobOK ==
    ASSUME CalmInv, NEW w \in Handlers, job' = [job EXCEPT ![w] = NoJob]
    PROVE  JobOK(w)'
<1>1. job'[w] = NoJob /\ NoJob.pc = "idle"
  BY CalmFacts, TypedFacts, NoJobTyped
<1> QED
  BY <1>1 DEF JobOK, Removing

LEMMA SavesKept ==
    ASSUME CalmInv, mode' = mode, NEW w \in Handlers,
           \/ UpdateNotes(w) \/ UpdateSave(w) \/ SendSave(w) \/ VoidSave(w)
           \/ RecomputeSave(w)
    PROVE  Kept
<1>0. PICK i : i = job[w].id
  OBVIOUS
<1>1. /\ job[w].pc \notin {"idle", "createCommit"} /\ job[w].pc \notin Removing
      /\ job' = [job EXCEPT ![w] = NoJob]
      /\ \/ UNCHANGED <<table, lines, pays>> /\ job[w].pc \notin Changing
         \/ \E q \in Invoice, E \in SUBSET Entry : StoredWith(i, q, E) /\ Fits(i, q, E)
  BY <1>0, CalmFacts, Saves DEF Finish, Becomes
<1>2. i \in live /\ i \in Invoices /\ JobOK(w)'
  BY <1>0, <1>1, AtWork, NoJobOK
<1>3. NoJob.pc \in SavePcs
  BY <1>0, NoJobTyped DEF SavePcs
<1>4. CASE UNCHANGED <<table, lines, pays>> /\ job[w].pc \notin Changing
  <2>1. RowOK(i)'
    BY <1>0, <1>1, <1>2, <1>4, RowsStay
  <2>2. Moves(w, NoJob, i)
    BY <1>0, <1>1, <1>3, <1>4 DEF Moves, table
  <2> QED
    BY <1>0, <1>2, <2>1, <2>2, OthersKept
<1>5. ASSUME NEW q, NEW E, StoredWith(i, q, E), Fits(i, q, E) PROVE Kept
  <2>1. /\ inv'[i] = q /\ lines'[i] = E /\ pays' = pays
        /\ live' = live \cup {i} /\ i \in live'
        /\ \A j \in Invoices : j # i => inv'[j] = inv[j] /\ lines'[j] = lines[j]
    BY <1>0, <1>2, <1>5, CalmFacts, TypedFacts DEF StoredWith
  <2>2. RowOK(i)'
    BY <1>0, <1>5, <2>1 DEF Totals, RowOK, Fits
  <2>3. Moves(w, NoJob, i)
    BY <1>0, <1>1, <1>3, <2>1 DEF Moves
  <2> QED
    BY <1>0, <1>2, <2>2, <2>3, OthersKept
<1> QED
  BY <1>0, <1>1, <1>4, <1>5

LEMMA CommitKept ==
    ASSUME CalmInv, mode' = mode, NEW w \in Handlers, CreateCommit(w)
    PROVE  Kept
<1>1. PICK i \in Invoices \ issued :
        /\ inv' = [inv EXCEPT ![i] = job[w].snap]
        /\ lines' = [lines EXCEPT ![i] = job[w].items]
        /\ live' = live \cup {i} /\ issued' = issued \cup {i}
        /\ job' = [job EXCEPT ![w] = NoJob] /\ job[w].pc = "createCommit"
        /\ pays' = pays
  BY CalmFacts, CreateCommits
<1>2. /\ inv'[i] = job[w].snap /\ lines'[i] = job[w].items
      /\ i \notin live /\ i \in live'
      /\ \A j \in Invoices : j # i => inv'[j] = inv[j] /\ lines'[j] = lines[j]
  BY <1>1, CalmFacts, TypedFacts
<1>3. /\ Totals(job[w].snap, job[w].items)
      /\ mode = "serial" => Settles(job[w].snap, {}) /\ pays[i] = {}
  BY <1>1, <1>2, CalmFacts DEF JobOK, RowOK
<1>4. RowOK(i)'
  BY <1>1, <1>2, <1>3 DEF Totals, RowOK
<1>5. Moves(w, NoJob, i)
  BY <1>1, <1>2, NoJobTyped DEF Moves, SavePcs
<1> QED
  BY <1>1, <1>4, <1>5, NoJobOK, OthersKept

LEMMA ReadsKept ==
    ASSUME CalmInv, mode' = mode, NEW w \in Handlers,
           UpdateDelete(w) \/ RecomputePays(w) \/ RecomputeInv(w)
    PROVE  Kept
<1>0. PICK i : i = job[w].id
  OBVIOUS
<1>1. /\ job[w].pc \in {"updateDelete", "recomputePays", "recomputeInv"}
      /\ UNCHANGED <<table, lines, pays>>
  BY <1>0, CalmFacts, ReadsOn, RecomputeReads
<1>2. /\ i \in live /\ i \in Invoices /\ (mode = "serial" \/ job[w].pc \in SavePcs)
      /\ Totals(inv[i], lines[i]) /\ JobOK(w)
  BY <1>0, <1>1, AtWork, CalmFacts DEF Removing
<1>3. PICK t :
        /\ job' = [job EXCEPT ![w] = t] /\ t.id = i
        /\ \/ /\ job[w].pc = "updateDelete" /\ t.pc = "updateSave" /\ t.items = lines[i]
              /\ t.snap = job[w].snap /\ t.entry = job[w].entry
           \/ /\ job[w].pc = "recomputePays" /\ t.pc = "recomputeSave"
              /\ t.snap = Recomputed(job[w].snap, SumOf(pays[i]))
           \/ job[w].pc = "recomputeInv" /\ t.pc = "recomputePays" /\ t.snap = inv[i]
  BY <1>0, <1>2, CalmFacts, ReadsOn, RecomputeReads
<1>4. job'[w] = t /\ live' = live /\ lines' = lines /\ pays' = pays
  BY <1>0, <1>1, <1>3, CalmFacts, TypedFacts DEF table
<1>5. JobOK(w)'
  <2>1. CASE t.pc = "updateSave"
    <3>1. mode # "serial" => lines[i] # {}
      BY <1>2 DEF Totals
    <3> QED
      BY <1>0, <1>2, <1>3, <1>4, <2>1, <3>1 DEF Totals, JobOK, Removing
  <2>2. CASE t.pc = "recomputeSave"
    <3> DEFINE r == Recomputed(job[w].snap, SumOf(pays[i]))
    <3>1. /\ r.total = job[w].snap.total /\ r.rate = job[w].snap.rate /\ r.paid = SumOf(pays[i])
          /\ r.status = "paid" => SumOf(pays[i]) >= r.total
      BY <1>0, <1>2, CalmFacts, JobFacts, TypedFacts, RecomputedIs
    <3> HIDE DEF r
    <3>2. Settles(r, pays[i]) /\ (Totals(job[w].snap, lines[i]) => Totals(r, lines[i]))
      BY <1>0, <3>1 DEF Settles, Totals
    <3>3. Totals(job[w].snap, lines[i]) /\ t.snap = r
      BY <1>0, <1>2, <1>3, <2>2 DEF JobOK, r
    <3> QED
      BY <1>0, <1>2, <1>3, <1>4, <2>2, <3>2, <3>3 DEF Totals, JobOK, Removing
  <2>3. CASE t.pc = "recomputePays"
    BY <1>0, <1>2, <1>3, <1>4, <2>3 DEF Totals, JobOK, Removing
  <2> QED
    BY <1>0, <1>3, <2>1, <2>2, <2>3
<1>6. RowOK(i)'
  <2>1. /\ job[w].pc \notin Removing
        /\ job[w].pc \in Changing => t.pc \in Changing
    BY <1>0, <1>3 DEF Removing, Changing
  <2> QED
    BY <1>0, <1>1, <1>2, <1>3, <2>1, RowsStay
<1>7. Moves(w, t, i)
  BY <1>0, <1>1, <1>2, <1>3 DEF Moves, table, SavePcs
<1> QED
  BY <1>0, <1>2, <1>5, <1>6, <1>7, OthersKept

LEMMA PaymentsKept ==
    ASSUME CalmInv, mode' = mode, NEW w \in Handlers, PayInsert(w) \/ PaySave(w) \/ PayDelete(w)
    PROVE  Kept
<1>0. PICK i : i = job[w].id
  OBVIOUS
<1>1. job[w].pc \in {"payInsert", "paySave", "payDelete"} /\ UNCHANGED <<table, lines>>
  BY <1>0, CalmFacts, PaymentGoes
<1>2. /\ i \in live /\ i \in Invoices /\ mode = "serial" /\ JobOK(w)
      /\ Totals(inv[i], lines[i])
  BY <1>0, <1>1, AtWork, CalmFacts DEF SavePcs, Removing
<1>3. PICK E \in SUBSET Entry : \E t :
        /\ pays' = [pays EXCEPT ![i] = E] /\ job' = [job EXCEPT ![w] = t]
        /\ (t.pc = "recomputeInv" /\ t.id = i) \/ (t = NoJob /\ pays' = pays)
  BY <1>0, CalmFacts, PaymentGoes
<1>4. PICK t :
        /\ pays' = [pays EXCEPT ![i] = E] /\ job' = [job EXCEPT ![w] = t]
        /\ (t.pc = "recomputeInv" /\ t.id = i) \/ (t = NoJob /\ pays' = pays)
  BY <1>0, <1>3
<1>5. /\ job'[w] = t /\ live' = live /\ inv' = inv /\ lines' = lines
      /\ \A j \in Invoices : j # i => pays'[j] = pays[j]
  BY <1>0, <1>1, <1>4, CalmFacts, TypedFacts DEF table
<1>6. Moves(w, t, i)
  BY <1>0, <1>1, <1>2, <1>4, <1>5 DEF Moves
<1>7. CASE t.pc = "recomputeInv" /\ t.id = i
  <2>1. JobOK(w)'
    BY <1>0, <1>2, <1>5, <1>7 DEF JobOK, Removing
  <2>2. BusyWith(i, Changing)'
    BY <1>0, <1>5, <1>7 DEF BusyWith, Changing
  <2>3. RowOK(i)'
    BY <1>0, <1>2, <1>5, <2>2 DEF Totals, RowOK
  <2> QED
    BY <1>0, <1>2, <1>6, <2>1, <2>3, OthersKept
<1>8. CASE t = NoJob /\ pays' = pays
  <2>1. JobOK(w)'
    BY <1>0, <1>4, <1>8, NoJobOK
  <2>2. RowOK(i)'
    BY <1>0, <1>1, <1>2, <1>4, <1>8, RowsStay DEF Removing, Changing
  <2> QED
    BY <1>0, <1>2, <1>6, <2>1, <2>2, OthersKept
<1> QED
  BY <1>0, <1>4, <1>7, <1>8

LEMMA DeletesKept ==
    ASSUME CalmInv, mode' = mode, NEW w \in Handlers,
           DeleteLines(w) \/ DeletePays(w) \/ DeleteRow(w)
    PROVE  Kept
<1>0. PICK i : i = job[w].id
  OBVIOUS
<1>1. job[w].pc \in {"deleteLines", "deletePays", "deleteRow"}
  BY <1>0 DEF DeleteLines, DeletePays, DeleteRow, At
<1>2. /\ i \in live /\ i \in Invoices /\ mode = "serial" /\ JobOK(w)
      /\ job[w].pc \notin Changing => Settles(inv[i], pays[i])
      /\ job[w].pc \notin {"idle", "createCommit"}
  BY <1>0, <1>1, AtWork, CalmFacts DEF SavePcs
<1>3. CASE DeleteLines(w)
  <2>1. PICK t : job' = [job EXCEPT ![w] = t] /\ t.pc = "deletePays" /\ t.id = i
    BY <1>0, <1>2, <1>3, CalmFacts, ReachesIs DEF DeleteLines, Pc
  <2>2. /\ job'[w] = t /\ live' = live /\ inv' = inv /\ pays' = pays /\ lines'[i] = {}
        /\ \A j \in Invoices : j # i => lines'[j] = lines[j]
    BY <1>0, <1>2, <1>3, <2>1, CalmFacts, TypedFacts DEF DeleteLines, table
  <2>3. JobOK(w)'
    BY <1>0, <1>2, <2>1, <2>2 DEF JobOK, Removing
  <2>4. BusyWith(i, Removing)'
    BY <1>0, <2>1, <2>2 DEF BusyWith, Removing
  <2>5. Settles(inv[i], pays[i])
    BY <1>0, <1>2, <1>3 DEF DeleteLines, At, Changing
  <2>6. RowOK(i)'
    BY <1>0, <1>2, <2>2, <2>4, <2>5 DEF RowOK
  <2>7. Moves(w, t, i)
    BY <1>0, <1>1, <1>2, <2>1, <2>2 DEF Moves
  <2> QED
    BY <1>0, <1>2, <2>3, <2>6, <2>7, OthersKept
<1>4. CASE DeletePays(w)
  <2>1. PICK t : job' = [job EXCEPT ![w] = t] /\ t.pc = "deleteRow" /\ t.id = i
    BY <1>0, <1>2, <1>4, CalmFacts, ReachesIs DEF DeletePays, Pc
  <2>2. /\ job'[w] = t /\ live' = live /\ inv' = inv /\ lines' = lines /\ pays'[i] = {}
        /\ \A j \in Invoices : j # i => pays'[j] = pays[j]
    BY <1>0, <1>2, <1>4, <2>1, CalmFacts, TypedFacts DEF DeletePays, table
  <2>3. lines[i] = {}
    BY <1>0, <1>2, <1>4 DEF JobOK, DeletePays, At, Removing
  <2>4. JobOK(w)'
    BY <1>0, <1>2, <2>1, <2>2, <2>3 DEF JobOK, Removing
  <2>5. BusyWith(i, Removing)' /\ BusyWith(i, Changing)'
    BY <1>0, <2>1, <2>2 DEF BusyWith, Removing, Changing
  <2>6. RowOK(i)'
    BY <1>0, <1>2, <2>2, <2>5 DEF RowOK
  <2>7. Moves(w, t, i)
    BY <1>0, <1>1, <1>2, <2>1, <2>2 DEF Moves
  <2> QED
    BY <1>0, <1>2, <2>4, <2>6, <2>7, OthersKept
<1>5. CASE DeleteRow(w)
  <2>1. /\ job' = [job EXCEPT ![w] = NoJob] /\ live' = live \ {i}
        /\ lines' = lines /\ pays' = pays
        /\ \A j \in Invoices : j # i => inv'[j] = inv[j]
    BY <1>0, <1>2, <1>5, CalmFacts, TypedFacts DEF DeleteRow, Finish, Becomes
  <2>2. lines[i] = {} /\ pays[i] = {}
    BY <1>0, <1>2, <1>5 DEF JobOK, DeleteRow, At, Removing
  <2>3. RowOK(i)'
    BY <1>0, <2>1, <2>2 DEF RowOK
  <2>4. Moves(w, NoJob, i)
    BY <1>0, <1>1, <1>2, <2>1 DEF Moves
  <2>5. JobOK(w)'
    BY <1>0, <2>1, NoJobOK
  <2> QED
    BY <1>0, <1>2, <2>3, <2>4, <2>5, OthersKept
<1> QED
  BY <1>0, <1>3, <1>4, <1>5

-----------------------------------------------------------------------------
(* The invariant *)

LEMMA InitCalm == InvoicingInit => InvoicingInv
<1> SUFFICES ASSUME InvoicingInit PROVE InvoicingInv
  OBVIOUS
<1>1. InvoicingTyped
  BY InitTyped
<1>2. /\ live = {} /\ \A i \in Invoices : lines[i] = {} /\ pays[i] = {}
      /\ \A w \in Handlers : job[w].pc = "idle"
  BY NoJobTyped DEF InvoicingInit
<1>3. OneHandler /\ WholeOnes
  BY <1>2 DEF OneHandler, WholeOnes, SavePcs
<1>4. \A w \in Handlers : JobOK(w)
  BY <1>2, IdleOK
<1>5. \A i \in Invoices : RowOK(i)
  BY <1>2 DEF RowOK
<1> QED
  BY <1>1, <1>3, <1>4, <1>5 DEF InvoicingInv

LEMMA NextCalm == InvoicingInv /\ [InvoicingNext]_invoicingVars => InvoicingInv'
<1> SUFFICES ASSUME InvoicingInv, [InvoicingNext]_invoicingVars PROVE InvoicingInv'
  OBVIOUS
<1>1. InvoicingTyped'
  BY NextTyped DEF InvoicingInv
<1>2. ASSUME Calm' PROVE Kept
  <2>1. Calm /\ mode' = mode
    BY <1>2 DEF Calm, InvoicingNext, invoicingVars
  <2>2. CalmInv
    BY <2>1 DEF InvoicingInv, CalmInv
  <2>3. CASE UNCHANGED invoicingVars
    BY <2>2, <2>3 DEF Totals, CalmInv, Kept, OneHandler, WholeOnes, JobOK, RowOK, BusyWith,
       invoicingVars
  <2>4. ASSUME NEW w \in Handlers, Continue(w) PROVE Kept
    BY <2>1, <2>2, <2>4, SavesKept, CommitKept, ReadsKept, PaymentsKept, DeletesKept
       DEF Continue
  <2> QED
    BY <2>1, <2>2, <2>3, <2>4, BeginKept DEF InvoicingNext
<1> QED
  BY <1>1, <1>2 DEF InvoicingInv, Kept

LEMMA InvAlways == InvoicingSpec => []InvoicingInv
BY InitCalm, NextCalm, PTL DEF InvoicingSpec

\* What the invariant says of an invoice nobody works on.
LEMMA QuietFacts ==
    ASSUME InvoicingInv, Calm, NEW i \in Invoices, Quiet(i)
    PROVE  /\ i \in live => Totals(inv[i], lines[i])
           /\ mode = "serial" => /\ i \in live => Settles(inv[i], pays[i])
                                 /\ i \notin live => lines[i] = {} /\ pays[i] = {}
<1>1. ~BusyWith(i, Removing) /\ ~BusyWith(i, Changing)
  BY DEF Quiet, BusyWith
<1> QED
  BY <1>1 DEF InvoicingInv, RowOK

\* paid_amount is the sum of the payments of every invoice no handler works on,
\* when handlers run one at a time (recomputePaymentStatus after each payment, and
\* whole-row saves in between).
THEOREM PaidIsSumAlways == InvoicingSpec => []PaidIsSum
<1>1. InvoicingInv => PaidIsSum
  <2> SUFFICES ASSUME InvoicingInv, NEW i \in live, Undisturbed(i)
               PROVE  inv[i].paid = SumOf(pays[i])
    BY DEF PaidIsSum
  <2>1. Calm /\ Quiet(i) /\ mode = "serial"
    BY DEF Undisturbed, Calm
  <2>2. i \in Invoices
    BY TypedFacts DEF InvoicingInv
  <2> QED
    BY <2>1, <2>2, QuietFacts DEF Settles
<1> QED
  BY <1>1, InvAlways, PTL

\* An invoice marked as paid has been paid in full, when handlers run one at a time
\* and no body carries the status "paid".
THEOREM PaidIsCoveredAlways ==
    ASSUME HonestBodies
    PROVE  InvoicingSpec => []PaidIsCovered
<1>1. InvoicingInv => PaidIsCovered
  <2> SUFFICES ASSUME InvoicingInv, NEW i \in live, Undisturbed(i), inv[i].status = "paid"
               PROVE  SumOf(pays[i]) >= inv[i].total
    BY DEF PaidIsCovered
  <2>1. Calm /\ Quiet(i) /\ mode = "serial"
    BY DEF Undisturbed, Calm
  <2>2. i \in Invoices
    BY TypedFacts DEF InvoicingInv
  <2> QED
    BY <2>1, <2>2, QuietFacts DEF Settles
<1> QED
  BY <1>1, InvAlways, PTL

\* deleteInvoice, run alone, leaves neither lines nor payments.
THEOREM NothingLeftBehindAlways == InvoicingSpec => []NothingLeftBehind
<1>1. InvoicingInv => NothingLeftBehind
  <2> SUFFICES ASSUME InvoicingInv, NEW i \in Invoices \ live, Undisturbed(i)
               PROVE  lines[i] = {} /\ pays[i] = {}
    BY DEF NothingLeftBehind
  <2>1. Calm /\ Quiet(i) /\ mode = "serial"
    BY DEF Undisturbed, Calm
  <2> QED
    BY <2>1, QuietFacts
<1> QED
  BY <1>1, InvAlways, PTL

\* total_amount is the sum of the lines with their tax, one handler at a time for any
\* bodies, empty lists too, or when those that overlap create, edit, mail and void
\* and bring lines: their saves carry the lines with the row.
THEOREM TotalIsSumAlways ==
    ASSUME WholeSaves, Itemised
    PROVE  InvoicingSpec => []TotalIsSum
<1>1. InvoicingInv => TotalIsSum
  <2> SUFFICES ASSUME InvoicingInv, NEW i \in live, Quiet(i)
               PROVE  inv[i].total = Due(inv[i].rate, lines[i])
    BY DEF TotalIsSum
  <2>1. Calm
    BY DEF Calm
  <2>2. i \in Invoices
    BY TypedFacts DEF InvoicingInv
  <2> QED
    BY <2>1, <2>2, QuietFacts DEF Totals
<1> QED
  BY <1>1, InvAlways, PTL
=============================================================================
