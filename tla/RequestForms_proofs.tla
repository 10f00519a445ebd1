------------------------- MODULE RequestForms_proofs -------------------------
(***************************************************************************)
(* RequestForms is well typed; the members that came in lists come from    *)
(* one submission (OneList); data of the later sections is not lost        *)
(* (LateKept), for any number of handlers that overlap; and percentages    *)
(* that were validated add up to 100 (CheckedAddsUp), for one at a time.   *)
(***************************************************************************)
EXTENDS RequestForms, Sums, TLAPS

-----------------------------------------------------------------------------
(* What the handlers make of a payload *)

LEMMA EntriesType ==
    /\ \A p \in Payload : Sent(p) \in SUBSET Entry
    /\ \A entries \in SUBSET Entry :
          /\ Filled(entries) \in SUBSET Entry
          /\ WithoutValidator(entries) \in SUBSET Entry
<1>1. ASSUME NEW p \in Payload PROVE Sent(p) \in SUBSET Entry
  BY <1>1 DEF Sent, Payload
<1>2. ASSUME NEW entries \in SUBSET Entry PROVE Filled(entries) \in SUBSET Entry
  BY <1>2 DEF Filled
<1>3. ASSUME NEW entries \in SUBSET Entry PROVE WithoutValidator(entries) \in SUBSET Entry
  BY <1>3 DEF WithoutValidator, Entry
<1> QED
  BY <1>1, <1>2, <1>3

LEMMA NothingType == Nothing \in Outcome
BY DEF Nothing, Outcome, LlcType

LEMMA CreatesType ==
    ASSUME NEW op \in {"panel", "wizard"}, NEW p \in Payload, type \in AllTypes
    PROVE  Creates(op, p) \in Outcome
<1> DEFINE list == Sent(p)
<1>1. /\ p.section \in Nat /\ p.llc \in LlcType /\ p.late \in BOOLEAN
      /\ Sent(p) \in SUBSET Entry /\ Filled(Sent(p)) \in SUBSET Entry
      /\ WithoutValidator(Filled(Sent(p))) \in SUBSET Entry
  BY EntriesType DEF Payload
<1>2. /\ {} \in SUBSET Entry /\ Filled({}) \in SUBSET Entry
  BY EntriesType
<1>3. PanelCreatesApertura(p) \in Outcome
  <2> DEFINE kept == IF p.section >= 2 THEN Sent(p) ELSE {}
             throws == (p.section >= 6 /\ ~CountMatches(p.llc, Sent(p))) \/ TwoValidators(kept)
  <2>1. Filled(kept) \in SUBSET Entry
    BY <1>1, <1>2
  <2>2. throws \in BOOLEAN
    OBVIOUS
  <2>3. PanelCreatesApertura(p)
            = [throws |-> throws, llc |-> p.llc, late |-> p.late, replaces |-> FALSE,
               entries |-> Filled(kept)]
    BY DEF PanelCreatesApertura
  <2> HIDE DEF throws, kept
  <2> QED
    BY <1>1, <2>1, <2>2, <2>3 DEF Outcome
<1>4. PanelCreatesRenovacion(p) \in Outcome
  <2> DEFINE throws == p.section >= 2 /\ ~CountMatches(p.llc, Sent(p))
  <2>1. throws \in BOOLEAN
    OBVIOUS
  <2>2. PanelCreatesRenovacion(p)
            = [throws |-> throws, llc |-> p.llc, late |-> p.late, replaces |-> FALSE,
               entries |-> IF p.section >= 2 THEN Filled(Sent(p)) ELSE {}]
    BY DEF PanelCreatesRenovacion
  <2> HIDE DEF throws
  <2> QED
    BY <1>1, <1>2, <2>1, <2>2 DEF Outcome
<1>5. PanelCreatesCuenta(p) \in Outcome
  BY <1>1, <1>2, NothingType
  DEF PanelCreatesCuenta, PanelCreatesCuentaForm, Outcome, LlcType
<1>6. WizardCreatesApertura(p) \in Outcome
  <2>1. TwoValidators(Sent(p)) \in BOOLEAN
    BY DEF TwoValidators
  <2> QED
    BY <1>1, <2>1 DEF WizardCreatesApertura, Outcome
<1>7. WizardCreatesRenovacion(p) \in Outcome
  BY <1>1 DEF WizardCreatesRenovacion, Outcome
<1>8. WizardCreatesCuenta(p) \in Outcome
  BY <1>1, <1>2, NothingType
  DEF WizardCreatesCuenta, WizardCreatesCuentaForm, WizardCreatesCuentaLate, Outcome, LlcType
<1>9. CASE type = "apertura-llc"
  BY <1>9, <1>3, <1>6 DEF Creates
<1>10. CASE type = "renovacion-llc"
  BY <1>10, <1>4, <1>7 DEF Creates
<1>11. CASE type = "cuenta-bancaria"
  BY <1>11, <1>5, <1>8 DEF Creates
<1> QED
  BY <1>9, <1>10, <1>11 DEF AllTypes

LEMMA EditsType ==
    ASSUME NEW op \in {"panel", "wizard"}, NEW p \in Payload, type \in AllTypes
    PROVE  Edits(op, p) \in Outcome
<1>1. /\ p.section \in Nat /\ p.llc \in LlcType /\ p.late \in BOOLEAN
      /\ Sent(p) \in SUBSET Entry /\ Filled(Sent(p)) \in SUBSET Entry
      /\ WithoutValidator(Filled(Sent(p))) \in SUBSET Entry
  BY EntriesType DEF Payload
<1>2. {} \in SUBSET Entry
  OBVIOUS
<1>3. PanelEditsApertura(p) \in Outcome
  <2> DEFINE replaces == p.section >= 2 /\ Sent(p) # {}
             throws == replaces /\ TwoValidators(Sent(p))
  <2>1. throws \in BOOLEAN /\ replaces \in BOOLEAN
    OBVIOUS
  <2>2. PanelEditsApertura(p)
            = [throws |-> throws, llc |-> p.llc, late |-> p.late, replaces |-> replaces,
               entries |-> IF replaces THEN Filled(Sent(p)) ELSE {}]
    BY DEF PanelEditsApertura
  <2> HIDE DEF throws, replaces
  <2> QED
    BY <1>1, <1>2, <2>1, <2>2 DEF Outcome
<1>4. PanelEditsRenovacion(p) \in Outcome
  BY <1>3 DEF PanelEditsRenovacion, Outcome
<1>5. PanelEditsCuenta(p) \in Outcome
  <2>1. PanelEditsCuentaForm(p) \in Outcome
    BY <1>1, NothingType DEF PanelEditsCuentaForm, PanelEditsCuentaLate, Outcome, LlcType
  <2> QED
    BY <1>1, <2>1 DEF PanelEditsCuenta, Outcome
<1>6. WizardEditsApertura(p) \in Outcome
  <2>1. TwoValidators(Sent(p)) \in BOOLEAN
    BY DEF TwoValidators
  <2> QED
    BY <1>1, <2>1 DEF WizardEditsApertura, Outcome
<1>7. WizardEditsRenovacion(p) \in Outcome
  BY <1>1 DEF WizardEditsRenovacion, WizardCreatesRenovacion, Outcome
<1>8. WizardEditsCuenta(p) \in Outcome
  <2>1. WizardEditsCuentaForm(p) \in Outcome
    BY <1>1, NothingType DEF WizardEditsCuentaForm, WizardEditsCuentaLate, Outcome, LlcType
  <2> QED
    BY <1>1, <2>1 DEF WizardEditsCuenta, Outcome
<1>9. CASE type = "apertura-llc"
  BY <1>9, <1>3, <1>6 DEF Edits
<1>10. CASE type = "renovacion-llc"
  BY <1>10, <1>4, <1>7 DEF Edits
<1>11. CASE type = "cuenta-bancaria"
  BY <1>11, <1>5, <1>8 DEF Edits
<1> QED
  BY <1>9, <1>10, <1>11 DEF AllTypes

LEMMA ImportsType ==
    ASSUME NEW a \in Account, type \in AllTypes
    PROVE  /\ Imports(a) \in Outcome
           /\ \A list \in MemberLists(a) : list \in SUBSET Entry
<1>1. a.llc \in LlcType /\ a.late \in BOOLEAN
  BY DEF Account
<1>2. Imports(a) \in Outcome
  BY <1>1, NothingType
  DEF Imports, ImportsApertura, ImportsRenovacion, ImportsCuenta, AllTypes, Outcome
<1>3. /\ a.owners \in SUBSET Entry /\ a.contact \in SUBSET Entry
      /\ a.partners \in SUBSET Entry /\ a.itself \in SUBSET Entry
  BY DEF Account
<1>4. /\ OwnerMembers(a) \in SUBSET Entry /\ ContactMembers(a) \in SUBSET Entry
      /\ PartnerMembers(a) \in SUBSET Entry
  BY <1>3, EntriesType DEF OwnerMembers, ContactMembers, PartnerMembers
<1> QED
  BY <1>2, <1>4 DEF MemberLists

LEMMA RowsType ==
    ASSUME NEW entries \in SUBSET Entry, NEW call \in Calls
    PROVE  /\ Rows(entries, call) \in SUBSET Member
           /\ \A m \in Rows(entries, call) : m.by = call
<1> SUFFICES ASSUME NEW m \in Rows(entries, call)
             PROVE  m \in Member /\ m.by = call
  OBVIOUS
<1>1. PICK e \in entries :
        m = [by |-> call, who |-> e.who, pct |-> e.pct,
             validatesBankAccount |-> e.validatesBankAccount, list |-> TRUE]
  BY DEF Rows
<1>2. e.who \in People /\ e.pct \in Percent /\ e.validatesBankAccount \in BOOLEAN
  BY <1>1 DEF Entry
<1> QED
  BY <1>1, <1>2 DEF Member

LEMMA FillingType ==
    ASSUME NEW f \in Form, NEW outcome \in Outcome
    PROVE  Filling(f, outcome) \in Form
<1>1. (f.late \/ outcome.late) \in BOOLEAN
  OBVIOUS
<1>2. f.llc \in LlcType /\ outcome.llc \in LlcType
  BY DEF Form, Outcome
<1> QED
  BY <1>1, <1>2 DEF Filling, Form

-----------------------------------------------------------------------------
(* Types.  A task at a program counter is of the handlers that come there,   *)
(* has the number of its call, and a change has its member and its entry.    *)

Moving == {"moved", "moveForm", "moveFind", "moveCommit"}
Editing == {"form", "find", "commit"}
Importing == {"importForm", "alter", "members", "deals"}

Good(t) ==
    /\ t \in Task
    /\ t.pc = "idle" => t = Idle
    /\ t.pc # "idle" => t.op # "none"
    /\ t.op # "none" => t.call \in Calls
    /\ t.pc \in Editing => t.op \in {"panel", "wizard"}
    /\ t.pc \in Importing => t.op = "import"
    /\ t.pc \in Moving => t.op = "panel"
    /\ t.op \in {"add", "change"} => t.pc = "insert"
    /\ t.op \in {"panel", "wizard", "import"} /\ t.pc \notin Moving
          => t.status \in {"pendiente", "recibida"}
    /\ t.op = "change" =>
          \E m \in Member, e \in Entry : t.found = {m} /\ t.outcome.entries = {e}

TypeInv == TypeOK /\ \A w \in Workers : Good(task[w])

LEMMA IdleGood == Good(Idle) /\ Idle.pc = "idle" /\ Idle.op = "none"
<1>1. Blank \in Form
  BY DEF Blank, Form, LlcType
<1>2. Idle \in Task
  BY <1>1, NothingType DEF Idle, Task, Pc, Op, Status
<1> QED
  BY <1>2 DEF Good, Idle, Editing, Importing, Moving

LEMMA IdleFields ==
    /\ Idle \in Task
    /\ Idle.found = {} /\ Idle.outcome = Nothing /\ Idle.status = "none"
    /\ Idle.files = FALSE /\ Idle.checked = FALSE
BY IdleGood DEF Good, Idle

LEMMA InitType == Init => TypeInv
<1> SUFFICES ASSUME Init PROVE TypeInv
  OBVIOUS
<1>1. form \in Form
  BY DEF Init, Blank, Form, LlcType
<1>2. task \in [Workers -> Task] /\ \A w \in Workers : Good(task[w])
  BY IdleGood DEF Init, Good
<1>3. type \in AllTypes /\ mode \in Mode
  BY TypesAssumption, ModesAssumption DEF Init
<1>4. /\ request \in Status /\ lock \in Workers \cup {Nobody}
      /\ checked \in BOOLEAN /\ members \subseteq Member
  BY DEF Init, Status
<1>5. calls \in 0..MaxCalls
  BY MaxCallsAssumption DEF Init
<1> QED
  BY <1>1, <1>2, <1>3, <1>4, <1>5 DEF TypeInv, TypeOK

\* A step of w leaves it with the task t.
Puts(w, t) == task' = [task EXCEPT ![w] = t]

LEMMA PutGood ==
    ASSUME TypeInv, NEW w \in Workers, NEW t, Good(t), Puts(w, t)
    PROVE  /\ task' \in [Workers -> Task] /\ \A v \in Workers : Good(task'[v])
           /\ task'[w] = t /\ \A v \in Workers : v # w => task'[v] = task[v]
BY DEF TypeInv, TypeOK, Good, Puts

LEMMA EndsGood ==
    ASSUME TypeInv, NEW w \in Workers, Ends(w)
    PROVE  /\ task' \in [Workers -> Task] /\ \A v \in Workers : Good(task'[v])
           /\ task'[w] = Idle /\ \A v \in Workers : v # w => task'[v] = task[v]
BY PutGood, IdleGood DEF Ends, Puts

\* What is committed ends, or goes on to move files.
LEMMA CommittedGood ==
    ASSUME TypeInv, NEW w \in Workers, NEW moves \in BOOLEAN, NEW call \in Calls,
           Committed(w, moves, call)
    PROVE  \E t : /\ Puts(w, t) /\ Good(t) /\ t.checked = FALSE /\ t.files = FALSE
                  /\ t.op # "none" => t.op = "panel"
                  /\ t.pc = "idle" \/ (t.pc = "moved" /\ moves)
<1>1. CASE Ends(w)
  BY <1>1, IdleGood, IdleFields DEF Ends, Puts
<1>2. CASE moves /\ ~Ends(w)
  <2> DEFINE t == [Idle EXCEPT !.pc = "moved", !.op = "panel", !.call = call]
  <2>1. Puts(w, t)
    BY <1>2 DEF Committed, Puts
  <2>2. t \in Task
    BY IdleFields DEF Task, Pc, Op
  <2>3. /\ t.pc = "moved" /\ t.op = "panel" /\ t.call = call
        /\ t.checked = FALSE /\ t.files = FALSE
    BY DEF Idle
  <2> HIDE DEF t
  <2>4. Good(t)
    BY <2>2, <2>3 DEF Good, Editing, Importing, Moving
  <2> QED
    BY <1>2, <2>1, <2>3, <2>4
<1> QED
  BY <1>1, <1>2 DEF Committed

\* A handler begins where it has not saved anything, about what there is.
Enters(w, t) ==
    /\ Starts(w, t)
    /\ t \in Task
    /\ t.pc \in {"save", "insert", "delete"}
    /\ t.op # "none"
    /\ t.pc = "save" => t.op \in {"panel", "wizard", "import"} /\ t.seen = form
    /\ t.op \in {"add", "change"} => t.pc = "insert"
    /\ t.op \in {"panel", "wizard", "import"} => t.status \in {"pendiente", "recibida"}
    /\ t.op = "change" =>
          \E m \in Member, e \in Entry : t.found = {m} /\ t.outcome.entries = {e}
    /\ t.op \in {"panel", "wizard", "add", "change"} => request # "none"
    /\ mode = "locking" => ~t.files
    /\ t.checked => t.op \in {"panel", "wizard"}

LEMMA EntersType ==
    ASSUME TypeInv, NEW w \in Workers, NEW t, Enters(w, t),
           UNCHANGED lock, UnchangedData, UnchangedRun
    PROVE  /\ TypeInv'
           /\ task'[w] = [t EXCEPT !.call = calls + 1]
           /\ \A v \in Workers : v # w => task'[v] = task[v]
<1> DEFINE s == [t EXCEPT !.call = calls + 1]
<1>1. calls \in 0..MaxCalls /\ calls < MaxCalls /\ calls' = calls + 1 /\ Puts(w, s)
  BY DEF TypeInv, TypeOK, Enters, Starts, MayStart, Puts
<1>2. calls + 1 \in Calls /\ calls' \in 0..MaxCalls
  BY <1>1, MaxCallsAssumption DEF Calls
<1>3. /\ s \in Task /\ s.pc = t.pc /\ s.op = t.op /\ s.call = calls + 1
      /\ s.status = t.status /\ s.found = t.found /\ s.outcome = t.outcome
  BY <1>2 DEF Task, Enters
<1> HIDE DEF s
<1>4. Good(s)
  BY <1>2, <1>3 DEF Good, Enters, Editing, Importing, Moving
<1>5. /\ task' \in [Workers -> Task] /\ \A v \in Workers : Good(task'[v])
      /\ task'[w] = s /\ \A v \in Workers : v # w => task'[v] = task[v]
  BY <1>1, <1>4, PutGood
<1>6. TypeInv'
  BY <1>2, <1>5 DEF TypeInv, TypeOK, UnchangedData, UnchangedRun
<1> QED
  BY <1>5, <1>6 DEF s

LEMMA EditEnters ==
    ASSUME TypeInv, NEW w \in Workers, NEW op \in {"panel", "wizard"}, NEW p \in Payloads,
           EditBegin(w, op, p)
    PROVE  \E t : /\ Enters(w, t) /\ t.outcome = Edits(op, p)
                  /\ t.checked = CheckedInFull(p, p.submits \/ request = "recibida")
<1> DEFINE strict == p.submits \/ request = "recibida"
           status == IF strict THEN "recibida" ELSE "pendiente"
           full == CheckedInFull(p, strict)
           files == MovesFiles(op, p)
           outcome == Edits(op, p)
           t == [Idle EXCEPT !.pc = "save", !.op = op, !.seen = form, !.status = status,
                             !.outcome = outcome, !.files = files, !.checked = full]
<1>1. outcome \in Outcome
  BY PayloadsAssumption, EditsType DEF TypeInv, TypeOK
<1>2. p.files \in BOOLEAN
  BY PayloadsAssumption DEF Payload
<1>3. full \in BOOLEAN /\ status \in {"pendiente", "recibida"} /\ files \in BOOLEAN
  BY <1>2 DEF CheckedInFull, MovesFiles
<1>4. Starts(w, t) /\ request # "none" /\ (mode = "locking" => ~files)
  BY <1>2 DEF EditBegin, Stored, HasFiles, MovesFiles
<1> HIDE DEF full, status, files, outcome
<1>5. form \in Form
  BY DEF TypeInv, TypeOK
<1>6. /\ t \in Task /\ t.pc = "save" /\ t.op = op /\ t.status = status /\ t.seen = form
      /\ t.files = files /\ t.checked = full /\ t.outcome = outcome
  BY <1>1, <1>3, <1>5, IdleFields DEF Task, Pc, Op, Status
<1> HIDE DEF t
<1> QED
  BY <1>3, <1>4, <1>6 DEF Enters, full, outcome

LEMMA AddEnters ==
    ASSUME TypeInv, NEW w \in Workers, NEW e \in Entry, AddBegin(w, e)
    PROVE  \E t : Enters(w, t)
<1> DEFINE t == [Idle EXCEPT !.pc = "insert", !.op = "add",
                             !.outcome = [Nothing EXCEPT !.entries = {e}]]
<1>1. [Nothing EXCEPT !.entries = {e}] \in Outcome
  BY NothingType DEF Outcome
<1>2. t \in Task /\ t.pc = "insert" /\ t.op = "add" /\ ~t.files /\ ~t.checked
  BY <1>1, IdleFields DEF Task, Pc, Op
<1>3. Starts(w, t) /\ request # "none"
  BY DEF AddBegin, Stored
<1> HIDE DEF t
<1> QED
  BY <1>2, <1>3 DEF Enters

LEMMA ChangeEnters ==
    ASSUME TypeInv, NEW w \in Workers, NEW m, NEW e \in Entry, ChangeBegin(w, m, e)
    PROVE  \E t : Enters(w, t)
<1> DEFINE t == [Idle EXCEPT !.pc = "insert", !.op = "change", !.found = {m},
                             !.outcome = [Nothing EXCEPT !.entries = {e}]]
<1>1. m \in Member
  BY DEF ChangeBegin, TypeInv, TypeOK
<1>2. /\ [Nothing EXCEPT !.entries = {e}] \in Outcome
      /\ [Nothing EXCEPT !.entries = {e}].entries = {e}
  BY NothingType DEF Outcome
<1>3. /\ t \in Task /\ t.pc = "insert" /\ t.op = "change" /\ t.found = {m}
      /\ t.outcome.entries = {e} /\ ~t.files /\ ~t.checked
  BY <1>1, <1>2, IdleFields DEF Task, Pc, Op
<1>4. Starts(w, t) /\ request # "none"
  BY DEF ChangeBegin, Stored
<1> HIDE DEF t
<1> QED
  BY <1>1, <1>3, <1>4 DEF Enters

LEMMA ImportEnters ==
    ASSUME TypeInv, NEW w \in Workers, NEW a \in Accounts, NEW list \in MemberLists(a),
           ImportBegin(w, a, list)
    PROVE  \E t : Enters(w, t)
<1> DEFINE outcome == [Imports(a) EXCEPT !.entries = list]
           status == IF request = "pendiente" THEN request ELSE "recibida"
           t == [Idle EXCEPT !.pc = "save", !.op = "import", !.seen = form,
                             !.status = status, !.outcome = outcome]
<1>1. outcome \in Outcome
  BY AccountsAssumption, ImportsType DEF Outcome, TypeInv, TypeOK
<1>2. status \in {"pendiente", "recibida"} /\ form \in Form
  BY DEF TypeInv, TypeOK
<1>3. Starts(w, t)
  BY DEF ImportBegin
<1> HIDE DEF outcome, status
<1>4. /\ t \in Task /\ t.pc = "save" /\ t.op = "import" /\ t.status = status
      /\ t.seen = form /\ ~t.files /\ ~t.checked
  BY <1>1, <1>2, IdleFields DEF Task, Pc, Op, Status
<1> HIDE DEF t
<1> QED
  BY <1>2, <1>3, <1>4 DEF Enters

LEMMA DeleteEnters ==
    ASSUME TypeInv, NEW w \in Workers, DeleteBegin(w)
    PROVE  \E t : Enters(w, t)
<1> DEFINE t == [Idle EXCEPT !.pc = "delete", !.op = "delete"]
<1>1. t \in Task /\ t.pc = "delete" /\ t.op = "delete" /\ ~t.files /\ ~t.checked
  BY IdleFields DEF Task, Pc, Op
<1>2. Starts(w, t)
  BY DEF DeleteBegin
<1> HIDE DEF t
<1> QED
  BY <1>1, <1>2 DEF Enters

Begins(w) ==
    \/ \E p \in Payloads, op \in {"panel", "wizard"} : EditBegin(w, op, p)
    \/ \E e \in Entries : AddBegin(w, e)
    \/ \E e \in Entries, m \in members : ChangeBegin(w, m, e)
    \/ \E a \in Accounts : \E list \in MemberLists(a) : ImportBegin(w, a, list)
    \/ DeleteBegin(w)

LEMMA EntriesTyped == Entries \subseteq Entry
BY PayloadsAssumption, EntriesType DEF Entries

LEMMA BeginsEnter ==
    ASSUME TypeInv, NEW w \in Workers, Begins(w)
    PROVE  (\E t : Enters(w, t)) /\ UNCHANGED lock /\ UnchangedData /\ UnchangedRun
<1>1. UNCHANGED lock /\ UnchangedData /\ UnchangedRun
  BY DEF Begins, EditBegin, AddBegin, ChangeBegin, ImportBegin, DeleteBegin
<1>2. CASE \E p \in Payloads, op \in {"panel", "wizard"} : EditBegin(w, op, p)
  BY <1>1, <1>2, EditEnters
<1>3. CASE \E e \in Entries : AddBegin(w, e)
  BY <1>1, <1>3, AddEnters, EntriesTyped
<1>4. CASE \E e \in Entries, m \in members : ChangeBegin(w, m, e)
  BY <1>1, <1>4, ChangeEnters, EntriesTyped
<1>5. CASE \E a \in Accounts : \E list \in MemberLists(a) : ImportBegin(w, a, list)
  BY <1>1, <1>5, ImportEnters
<1>6. CASE DeleteBegin(w)
  BY <1>1, <1>6, DeleteEnters
<1> QED
  BY <1>2, <1>3, <1>4, <1>5, <1>6 DEF Begins

LEMMA CreateType ==
    ASSUME TypeInv, NEW w \in Workers, NEW op \in {"panel", "wizard"}, NEW p \in Payloads,
           Create(w, op, p)
    PROVE  /\ TypeInv'
           /\ \A v \in Workers : v # w => task'[v] = task[v]
           /\ task'[w].pc \in {"idle", "moved"} /\ ~task'[w].checked /\ ~task'[w].files
           /\ mode = "locking" => task'[w].pc = "idle"
<1> DEFINE outcome == Creates(op, p)
<1>1. p \in Payload
  BY PayloadsAssumption
<1>2. outcome \in Outcome
  BY <1>1, CreatesType DEF TypeInv, TypeOK
<1>3. form' \in Form
  <2>1. Blank \in Form
    BY DEF Blank, Form, LlcType
  <2>2. form' = Filling(Blank, outcome)
    BY DEF Create
  <2> QED
    BY <1>2, <2>1, <2>2, FillingType
<1>4. calls \in 0..MaxCalls /\ calls < MaxCalls /\ calls' = calls + 1
  BY DEF Create, MayStart, TypeInv, TypeOK
<1>5. calls + 1 \in Calls /\ calls' \in 0..MaxCalls
  BY <1>4, MaxCallsAssumption DEF Calls
<1>6. members' \in SUBSET Member
  <2>1. members' = Rows(outcome.entries, calls + 1)
    BY DEF Create
  <2>2. outcome.entries \in SUBSET Entry
    BY <1>2 DEF Outcome
  <2> QED
    BY <1>5, <2>1, <2>2, RowsType
<1>7. checked' \in BOOLEAN
  BY DEF Create
<1>8. request' \in Status
  BY DEF Create, Status
<1>9. MovesFiles(op, p) \in BOOLEAN /\ (mode = "locking" => ~MovesFiles(op, p))
  BY <1>1 DEF MovesFiles, Payload, Create, HasFiles
<1>10. PICK t : /\ Puts(w, t) /\ Good(t) /\ t.checked = FALSE /\ t.files = FALSE
                /\ t.pc = "idle" \/ (t.pc = "moved" /\ MovesFiles(op, p))
  BY <1>5, <1>9, CommittedGood DEF Create
<1>11. /\ task' \in [Workers -> Task] /\ \A v \in Workers : Good(task'[v])
       /\ task'[w] = t /\ \A v \in Workers : v # w => task'[v] = task[v]
  BY <1>10, PutGood
<1>12. TypeInv'
  BY <1>3, <1>5, <1>6, <1>7, <1>8, <1>11 DEF TypeInv, TypeOK, Create, UnchangedRun
<1> QED
  BY <1>9, <1>10, <1>11, <1>12

-----------------------------------------------------------------------------
(* The statements of a handler before its last one: they change nothing that *)
(* others see, take locks, and keep what they have read.                     *)

NextPc ==
    {<<"save", "form">>, <<"form", "find">>, <<"form", "commit">>, <<"find", "commit">>,
     <<"save", "importForm">>, <<"importForm", "alter">>, <<"alter", "members">>,
     <<"moved", "moveForm">>, <<"moved", "moveFind">>, <<"moveForm", "moveCommit">>,
     <<"moveFind", "moveCommit">>, <<"delete", "deleteForm">>, <<"deleteForm", "deleteRow">>}

Statement(w) ==
    \/ EditSave(w) \/ EditForm(w) \/ EditFind(w)
    \/ ImportSave(w) \/ ImportForm(w) \/ ImportAlter(w)
    \/ DeleteMembers(w) \/ DeleteForm(w) \/ MoveRead(w) \/ MoveFind(w)

\* The handler is the same.
Same(t, s) ==
    /\ t.op = s.op /\ t.call = s.call /\ t.status = s.status /\ t.outcome = s.outcome
    /\ t.checked = s.checked /\ t.files = s.files

Goes(w, t) ==
    /\ Puts(w, t) /\ t \in Task
    /\ Same(t, task[w])
    /\ <<task[w].pc, t.pc>> \in NextPc
    /\ t.pc = "form" => t.op \in {"panel", "wizard"}
    /\ t.pc = "importForm" => t.op = "import"
    /\ t.seen = task[w].seen \/ t.seen = form
    /\ t.pc \in {"moveForm", "moveFind"} => t.seen = form
    /\ task[w].pc = "form" /\ t.op = "wizard" => t.seen = form
    /\ task[w].pc = "form" /\ t.pc = "commit" => ~t.outcome.replaces
    /\ task[w].pc = "find" => t.found = members
    /\ t.pc = "moveCommit" => t.found \subseteq members
    /\ lock' = lock \/ (task[w].pc = "save" /\ lock' = w /\ lock \in {w, Nobody})
    /\ task[w].pc = "save" /\ lock' # w => request = task[w].status /\ mode # "locking"

LEMMA FreeLock ==
    ASSUME TypeInv, NEW w \in Workers, Free(w), "request" \in Needs(w)
    PROVE  lock \in {w, Nobody}
<1>1. \A o \in Workers : o # w => lock # o
  BY DEF Free, Blocks
<1> QED
  BY <1>1 DEF TypeInv, TypeOK

LEMMA SaveGoes ==
    ASSUME TypeInv, NEW w \in Workers, EditSave(w) \/ ImportSave(w)
    PROVE  \E t : Goes(w, t)
<1>1. task \in [Workers -> Task] /\ task[w] \in Task /\ task[w].pc = "save" /\ Free(w)
  BY DEF TypeInv, TypeOK, EditSave, ImportSave
<1>2. PICK pc \in {"form", "importForm"} :
        /\ Goto(w, pc)
        /\ pc = "form" => task[w].op \in {"panel", "wizard"}
        /\ pc = "importForm" => task[w].op = "import"
  BY DEF EditSave, ImportSave
<1>3. Writes(w) => lock \in {w, Nobody}
  <2>1. Writes(w) => Needs(w) = {"request"}
    BY <1>1 DEF Needs
  <2> QED
    BY <1>1, <2>1, FreeLock
<1>4. lock' = (IF Writes(w) THEN w ELSE lock)
  BY DEF EditSave, ImportSave
<1>5. ~Writes(w) => request = task[w].status /\ mode # "locking"
  BY DEF Writes
<1> DEFINE t == [task[w] EXCEPT !.pc = pc]
<1>6. Puts(w, t)
  BY <1>1, <1>2 DEF Goto, Puts
<1>7. t \in Task /\ Same(t, task[w]) /\ t.pc = pc /\ t.seen = task[w].seen /\ t.op = task[w].op
  BY <1>1 DEF Task, Pc, Same
<1> HIDE DEF t
<1>8. <<task[w].pc, t.pc>> \in NextPc
  BY <1>1, <1>7 DEF NextPc
<1> QED
  BY <1>1, <1>2, <1>3, <1>4, <1>5, <1>6, <1>7, <1>8 DEF Goes

LEMMA StatementGoes ==
    ASSUME TypeInv, NEW w \in Workers, Statement(w)
    PROVE  (\E t : Goes(w, t)) /\ UnchangedData /\ UnchangedRun /\ UNCHANGED calls
<1>0. UnchangedData /\ UnchangedRun /\ UNCHANGED calls
  BY DEF Statement, EditSave, EditForm, EditFind, ImportSave, ImportForm, ImportAlter,
         DeleteMembers, DeleteForm, MoveRead, MoveFind
<1>1. task \in [Workers -> Task] /\ task[w] \in Task /\ form \in Form /\ members \in SUBSET Member
  BY DEF TypeInv, TypeOK
<1>2. CASE EditSave(w) \/ ImportSave(w)
  BY <1>0, <1>2, SaveGoes
<1>3. CASE EditForm(w)
  <2> DEFINE next == IF task[w].outcome.replaces THEN "find" ELSE "commit"
             seen == IF task[w].op = "panel" THEN task[w].seen ELSE form
             holds == IF task[w].op = "panel" \/ Cascades(w) THEN {"form"} ELSE {}
             t == [task[w] EXCEPT !.seen = seen, !.holds = holds, !.pc = next]
  <2>1. /\ next \in {"find", "commit"} /\ holds \in SUBSET ChildLock /\ seen \in Form
        /\ next = "commit" => ~task[w].outcome.replaces
        /\ task[w].op = "wizard" => seen = form
        /\ seen \in {task[w].seen, form}
    BY <1>1 DEF ChildLock, Task
  <2>2. task[w].pc = "form" /\ lock' = lock /\ Puts(w, t)
    BY <1>1, <1>3 DEF EditForm, Puts
  <2> HIDE DEF next, seen, holds
  <2>3. t \in Task /\ Same(t, task[w]) /\ t.pc = next /\ t.seen = seen
    BY <1>1, <2>1 DEF Task, Pc, Same
  <2> HIDE DEF t
  <2>4. <<task[w].pc, t.pc>> \in NextPc
    BY <2>1, <2>2, <2>3 DEF NextPc
  <2>5. t.op = task[w].op /\ t.outcome = task[w].outcome
    BY <2>3 DEF Same
  <2>6. Goes(w, t)
    BY <2>1, <2>2, <2>3, <2>4, <2>5 DEF Goes
  <2> QED
    BY <1>0, <2>6
<1>4. CASE EditFind(w)
  <2> DEFINE holds == IF task[w].op = "wizard" THEN task[w].holds \cup {"rows"} ELSE task[w].holds
             t == [task[w] EXCEPT !.found = members, !.pc = "commit", !.holds = holds]
  <2>1. holds \in SUBSET ChildLock
    BY <1>1 DEF ChildLock, Task
  <2>2. task[w].pc = "find" /\ lock' = lock /\ Puts(w, t)
    BY <1>1, <1>4 DEF EditFind, Puts
  <2> HIDE DEF holds
  <2>3. t \in Task /\ Same(t, task[w]) /\ t.pc = "commit" /\ t.seen = task[w].seen
        /\ t.found = members
    BY <1>1, <2>1 DEF Task, Pc, Same
  <2> HIDE DEF t
  <2>4. <<task[w].pc, t.pc>> \in NextPc
    BY <2>2, <2>3 DEF NextPc
  <2>5. Goes(w, t)
    BY <2>2, <2>3, <2>4 DEF Goes
  <2> QED
    BY <1>0, <2>5
<1>5. CASE ImportForm(w) \/ ImportAlter(w) \/ DeleteMembers(w) \/ DeleteForm(w)
  <2>1. PICK holds \in SUBSET ChildLock, pc \in Pc, found \in SUBSET Member :
          /\ <<task[w].pc, pc>> \in NextPc /\ lock' = lock
          /\ pc \in {"alter", "members", "deleteForm", "deleteRow"}
          /\ task[w].pc \in {"importForm", "alter", "delete", "deleteForm"}
          /\ Puts(w, [task[w] EXCEPT !.pc = pc, !.holds = holds, !.found = found])
    <3>1. CASE ImportForm(w)
      <4>1. Puts(w, [task[w] EXCEPT !.pc = "alter", !.holds = {"form"},
                              !.found = task[w].found])
        BY <1>1, <3>1 DEF ImportForm, Puts, TypeInv, TypeOK, Task
      <4> QED
        BY <1>1, <3>1, <4>1 DEF ImportForm, Task, ChildLock, Pc, NextPc
    <3>2. CASE ImportAlter(w)
      <4> DEFINE holds == task[w].holds \cup {"table"}
      <4>1. Puts(w, [task[w] EXCEPT !.pc = "members", !.holds = holds,
                              !.found = task[w].found])
        BY <1>1, <3>2 DEF ImportAlter, Puts, TypeInv, TypeOK, Task
      <4>2. holds \in SUBSET ChildLock
        BY <1>1 DEF ChildLock, Task
      <4> HIDE DEF holds
      <4> QED
        BY <1>1, <3>2, <4>1, <4>2 DEF ImportAlter, Task, Pc, NextPc
    <3>3. CASE DeleteMembers(w)
      <4>1. Puts(w, [task[w] EXCEPT !.pc = "deleteForm", !.holds = {"rows"},
                              !.found = members])
        BY <1>1, <3>3 DEF DeleteMembers, Puts
      <4> QED
        BY <1>1, <3>3, <4>1 DEF DeleteMembers, TypeInv, TypeOK, ChildLock, Pc, NextPc
    <3>4. CASE DeleteForm(w)
      <4>1. Puts(w, [task[w] EXCEPT !.pc = "deleteRow", !.holds = {"rows", "form"},
                              !.found = task[w].found])
        BY <1>1, <3>4 DEF DeleteForm, Puts, TypeInv, TypeOK, Task
      <4> QED
        BY <1>1, <3>4, <4>1 DEF DeleteForm, Task, ChildLock, Pc, NextPc
    <3> QED
      BY <1>5, <3>1, <3>2, <3>3, <3>4
  <2> DEFINE t == [task[w] EXCEPT !.pc = pc, !.holds = holds, !.found = found]
  <2>2. t \in Task /\ Same(t, task[w]) /\ t.pc = pc /\ t.seen = task[w].seen
    BY <1>1 DEF Task, Same
  <2>3. Puts(w, t)
    BY <2>1
  <2> HIDE DEF t
  <2>4. Goes(w, t)
    BY <2>1, <2>2, <2>3 DEF Goes
  <2> QED
    BY <1>0, <2>4
<1>6. CASE MoveRead(w)
  <2>1. PICK pc \in {"moveForm", "moveFind"} :
          Puts(w, [task[w] EXCEPT !.pc = pc, !.seen = form])
    BY <1>1, <1>6 DEF MoveRead, Puts
  <2> DEFINE t == [task[w] EXCEPT !.pc = pc, !.seen = form]
  <2>2. t \in Task /\ Same(t, task[w]) /\ t.pc = pc /\ t.seen = form
    BY <1>1 DEF Task, Same, Pc
  <2>3. Puts(w, t) /\ task[w].pc = "moved" /\ lock' = lock
    BY <1>6, <2>1 DEF MoveRead
  <2> HIDE DEF t
  <2>4. <<task[w].pc, t.pc>> \in NextPc
    BY <2>2, <2>3 DEF NextPc
  <2>5. Goes(w, t)
    BY <2>2, <2>3, <2>4 DEF Goes
  <2> QED
    BY <1>0, <2>5
<1>7. CASE MoveFind(w)
  <2>1. Needs(w) \in SUBSET ChildLock
    BY <1>7 DEF MoveFind, Needs, ChildLock
  <2> DEFINE holds == Needs(w)
  <2> HIDE DEF holds
  <2>2. PICK named \in SUBSET members :
          Puts(w, [task[w] EXCEPT !.pc = "moveCommit", !.found = named, !.holds = holds])
    BY <1>1, <1>7 DEF MoveFind, Puts, holds
  <2> DEFINE t == [task[w] EXCEPT !.pc = "moveCommit", !.found = named, !.holds = holds]
  <2>3. /\ t \in Task /\ Same(t, task[w]) /\ t.pc = "moveCommit" /\ t.seen = task[w].seen
        /\ t.found = named
    BY <1>1, <2>1 DEF Task, Same, Pc, holds
  <2>4. Puts(w, t) /\ task[w].pc \in {"moveForm", "moveFind"} /\ lock' = lock
    BY <1>7, <2>2 DEF MoveFind
  <2> HIDE DEF t
  <2>5. <<task[w].pc, t.pc>> \in NextPc
    BY <2>3, <2>4 DEF NextPc
  <2>6. Goes(w, t)
    BY <2>3, <2>4, <2>5 DEF Goes
  <2> QED
    BY <1>0, <2>6
<1> QED
  BY <1>2, <1>3, <1>4, <1>5, <1>6, <1>7 DEF Statement

LEMMA GoesType ==
    ASSUME TypeInv, NEW w \in Workers, NEW t, Goes(w, t),
           UnchangedData, UnchangedRun, UNCHANGED calls
    PROVE  /\ TypeInv'
           /\ task'[w] = t /\ \A v \in Workers : v # w => task'[v] = task[v]
<1>1. Good(task[w])
  BY DEF TypeInv
<1>2. Good(t)
  BY <1>1 DEF Goes, Same, Good, NextPc, Editing, Importing, Moving
<1>3. /\ task' \in [Workers -> Task] /\ \A v \in Workers : Good(task'[v])
      /\ task'[w] = t /\ \A v \in Workers : v # w => task'[v] = task[v]
  BY <1>2, PutGood DEF Goes
<1>4. lock' \in Workers \cup {Nobody}
  BY DEF Goes, TypeInv, TypeOK
<1> QED
  BY <1>3, <1>4 DEF TypeInv, TypeOK, UnchangedData, UnchangedRun

-----------------------------------------------------------------------------
(* The steps that store what a handler has made, or undo it.                 *)

LEMMA TaskFields ==
    ASSUME TypeInv, NEW w \in Workers
    PROVE  /\ task[w].outcome \in Outcome /\ task[w].seen \in Form
           /\ task[w].outcome.entries \in SUBSET Entry
           /\ task[w].found \in SUBSET Member /\ task[w].status \in Status
           /\ task[w].checked \in BOOLEAN /\ task[w].files \in BOOLEAN
           /\ task[w].op # "none" => task[w].call \in Calls
           /\ Unlocked(w) \in Workers \cup {Nobody}
BY DEF TypeInv, TypeOK, Good, Task, Outcome, Unlocked

LEMMA EditCommitType ==
    ASSUME TypeInv, NEW w \in Workers, EditCommit(w)
    PROVE  /\ TypeInv'
           /\ \A v \in Workers : v # w => task'[v] = task[v]
           /\ task'[w].pc = "idle" \/ (task'[w].pc = "moved" /\ task[w].files)
           /\ ~task'[w].checked /\ ~task'[w].files
<1> DEFINE kept == Others(members, task[w].found)
           new == Rows(task[w].outcome.entries, task[w].call)
<1>1. task[w].op # "none"
  BY DEF EditCommit, TypeInv, Good
<1>2. form' \in Form
  BY TaskFields, FillingType DEF EditCommit
<1>3. new \in SUBSET Member
  BY <1>1, TaskFields, RowsType
<1>4. members' \in SUBSET Member
  <2>1. kept \in SUBSET Member /\ members \in SUBSET Member
    BY DEF TypeInv, TypeOK, Others
  <2>2. members' = IF task[w].outcome.replaces THEN kept \cup new ELSE members
    BY DEF EditCommit
  <2> QED
    BY <1>3, <2>1, <2>2
<1>5. request' \in Status /\ checked' \in BOOLEAN /\ lock' \in Workers \cup {Nobody}
  BY TaskFields DEF EditCommit, TypeInv, TypeOK
<1>6. task[w].files \in BOOLEAN /\ task[w].call \in Calls
      /\ Committed(w, task[w].files, task[w].call)
  BY <1>1, TaskFields DEF EditCommit
<1>7. PICK t : /\ Puts(w, t) /\ Good(t) /\ t.checked = FALSE /\ t.files = FALSE
               /\ t.pc = "idle" \/ (t.pc = "moved" /\ task[w].files)
  BY <1>6, CommittedGood
<1>8. /\ task' \in [Workers -> Task] /\ \A v \in Workers : Good(task'[v])
      /\ task'[w] = t /\ \A v \in Workers : v # w => task'[v] = task[v]
  BY <1>7, PutGood
<1>9. TypeInv'
  BY <1>2, <1>4, <1>5, <1>8 DEF TypeInv, TypeOK, EditCommit, UnchangedRun
<1> QED
  BY <1>7, <1>8, <1>9

LEMMA ImportCommitType ==
    ASSUME TypeInv, NEW w \in Workers, ImportCommit(w)
    PROVE  /\ TypeInv'
           /\ \A v \in Workers : v # w => task'[v] = task[v]
           /\ task'[w].pc = "deals" /\ task'[w].seen = form' /\ task'[w].op = "import"
           /\ Same(task'[w], task[w])
<1>1. task[w].op = "import" /\ task[w] \in Task /\ task \in [Workers -> Task]
  BY DEF ImportCommit, TypeInv, TypeOK, Good, Importing
<1>2. form' \in Form
  BY TaskFields, FillingType DEF ImportCommit
<1>3. members' \in SUBSET Member
  BY <1>1, TaskFields, RowsType DEF ImportCommit
<1>4. request' \in Status /\ checked' \in BOOLEAN /\ lock' \in Workers \cup {Nobody}
  BY TaskFields DEF ImportCommit, TypeInv, TypeOK
<1> DEFINE t == [task[w] EXCEPT !.pc = "deals", !.holds = {}, !.seen = form']
<1>5. Puts(w, t)
  BY <1>1 DEF ImportCommit, Puts
<1>6. t \in Task /\ Same(t, task[w]) /\ t.pc = "deals" /\ t.seen = form' /\ t.op = "import"
  BY <1>1, <1>2 DEF Task, Pc, ChildLock, Same
<1> HIDE DEF t
<1>7. Good(task[w]) /\ task[w].pc = "members"
  BY DEF TypeInv, ImportCommit
<1>8. Good(t)
  BY <1>6, <1>7 DEF Good, Same, Editing, Importing, Moving
<1>9. /\ task' \in [Workers -> Task] /\ \A v \in Workers : Good(task'[v])
      /\ task'[w] = t /\ \A v \in Workers : v # w => task'[v] = task[v]
  BY <1>5, <1>8, PutGood
<1>10. TypeInv'
  BY <1>2, <1>3, <1>4, <1>9 DEF TypeInv, TypeOK, ImportCommit, UnchangedRun
<1> QED
  BY <1>6, <1>9, <1>10

\* The row a change leaves in the place of the one it read.
LEMMA ChangeSaves ==
    ASSUME TypeInv, NEW w \in Workers, ChangeSave(w)
    PROVE  \E old \in Member, row \in Member :
              /\ task[w].found = {old}
              /\ row.by = old.by /\ row.who = old.who
              /\ row.list = \E m \in members : m.by = old.by /\ m.who = old.who /\ m.list
              /\ members' = {m \in members : m.by # old.by \/ m.who # old.who} \cup {row}
<1>1. PICK m \in Member, e \in Entry : task[w].found = {m} /\ task[w].outcome.entries = {e}
  BY DEF ChangeSave, TypeInv, Good
<1> DEFINE same == {n \in members : n.by = m.by /\ n.who = m.who}
           listed == \E n \in same : n.list
           row == [m EXCEPT !.pct = e.pct, !.validatesBankAccount = e.validatesBankAccount,
                            !.list = listed]
<1>2. (CHOOSE n \in task[w].found : TRUE) = m /\ (CHOOSE d \in task[w].outcome.entries : TRUE) = e
  BY <1>1
<1>3. members' = (members \ same) \cup {row}
  BY <1>2 DEF ChangeSave
<1>4. listed \in BOOLEAN
  OBVIOUS
<1>5. listed = \E n \in members : n.by = m.by /\ n.who = m.who /\ n.list
  OBVIOUS
<1>6. members \ same = {n \in members : n.by # m.by \/ n.who # m.who}
  OBVIOUS
<1> HIDE DEF listed
<1>7. row \in Member /\ row.by = m.by /\ row.who = m.who /\ row.list = listed
  BY <1>4 DEF Member, Entry
<1> HIDE DEF row, same
<1> QED
  BY <1>1, <1>3, <1>5, <1>6, <1>7

\* The steps after which the handler is gone.
Last(w) ==
    \/ AddInsert(w) \/ ChangeSave(w) \/ ImportDeals(w) \/ DeleteRow(w) \/ MoveCommit(w)
    \/ Throws(w) \/ Victim(w) \/ Crash(w)

\* They leave no member that is not one, and a listed one only in the place of a listed
\* one; a move may bring back those it had read.
LEMMA LastMembers ==
    ASSUME TypeInv, NEW w \in Workers, Last(w)
    PROVE  /\ members' \in SUBSET Member
           /\ \A r \in members' : r.list =>
                 \/ \E m \in members : m.list /\ m.by = r.by /\ m.who = r.who
                 \/ MoveCommit(w) /\ r \in task[w].found
<1>0. members \in SUBSET Member
  BY DEF TypeInv, TypeOK
<1>1. CASE AddInsert(w)
  <2>1. Rows(task[w].outcome.entries, task[w].call) \in SUBSET Member
    BY <1>1, TaskFields, RowsType DEF AddInsert
  <2>2. \A m \in Member : [m EXCEPT !.list = FALSE] \in Member /\ ~[m EXCEPT !.list = FALSE].list
    BY DEF Member
  <2> QED
    BY <1>0, <1>1, <2>1, <2>2 DEF AddInsert
<1>2. CASE ChangeSave(w)
  <2>1. PICK old \in Member, row \in Member :
              /\ row.by = old.by /\ row.who = old.who
              /\ row.list = \E m \in members : m.by = old.by /\ m.who = old.who /\ m.list
              /\ members' = {m \in members : m.by # old.by \/ m.who # old.who} \cup {row}
    BY <1>2, ChangeSaves
  <2> QED
    BY <1>0, <2>1
<1>3. CASE MoveCommit(w)
  BY <1>0, <1>3, TaskFields DEF MoveCommit, Others
<1>4. CASE DeleteRow(w)
  BY <1>4 DEF DeleteRow
<1>5. CASE ImportDeals(w) \/ Throws(w) \/ Victim(w) \/ Crash(w)
  BY <1>0, <1>5 DEF ImportDeals, Throws, Victim, Crash, UnchangedData
<1> QED
  BY <1>1, <1>2, <1>3, <1>4, <1>5 DEF Last

LEMMA LastType ==
    ASSUME TypeInv, NEW w \in Workers, Last(w)
    PROVE  /\ TypeInv' /\ UnchangedRun
           /\ task'[w] = Idle /\ \A v \in Workers : v # w => task'[v] = task[v]
           /\ task[w].pc # "idle"
           /\ lock' = Unlocked(w) \/ (lock' = lock /\ ~Throws(w) /\ ~Victim(w) /\ ~Crash(w))
<1>1. Ends(w) /\ UnchangedRun /\ UNCHANGED calls
  BY DEF Last, AddInsert, ChangeSave, ImportDeals, DeleteRow, MoveCommit, Throws, Victim, Crash
<1>2. /\ task' \in [Workers -> Task] /\ \A v \in Workers : Good(task'[v])
      /\ task'[w] = Idle /\ \A v \in Workers : v # w => task'[v] = task[v]
  BY <1>1, EndsGood
<1>3. lock' = Unlocked(w) \/ (lock' = lock /\ ~Throws(w) /\ ~Victim(w) /\ ~Crash(w))
  BY DEF Last, AddInsert, ChangeSave, ImportDeals, DeleteRow, MoveCommit, Throws, Victim, Crash
<1>4. form' \in Form /\ request' \in Status /\ checked' \in BOOLEAN
  <2>1. /\ form' \in {form, task[w].seen, Blank}
        /\ request' \in {request, task[w].status, "deleted"}
        /\ checked' \in {checked, FALSE, checked /\ members' = members}
    BY DEF Last, AddInsert, ChangeSave, ImportDeals, DeleteRow, MoveCommit, Throws, Victim,
           Crash, UnchangedData
  <2>2. Blank \in Form
    BY DEF Blank, Form, LlcType
  <2>3. form \in Form /\ request \in Status /\ checked \in BOOLEAN
    BY DEF TypeInv, TypeOK
  <2> QED
    BY <2>1, <2>2, <2>3, TaskFields DEF Status
<1>5. members' \in SUBSET Member
  BY LastMembers
<1>6. lock' \in Workers \cup {Nobody}
  BY <1>3, TaskFields DEF TypeInv, TypeOK
<1>7. TypeInv'
  BY <1>1, <1>2, <1>4, <1>5, <1>6 DEF TypeInv, TypeOK, UnchangedRun
<1>8. task[w].pc # "idle"
  <2>1. Good(task[w])
    BY DEF TypeInv
  <2>2. CASE AddInsert(w) \/ ChangeSave(w)
    BY <2>1, <2>2 DEF AddInsert, ChangeSave, Good
  <2>3. CASE ImportDeals(w) \/ DeleteRow(w) \/ MoveCommit(w) \/ Throws(w)
    BY <2>3 DEF ImportDeals, DeleteRow, MoveCommit, Throws, Doomed
  <2>4. CASE Victim(w)
    <3>1. PICK o \in Workers : Blocks(o, w)
      BY <2>4 DEF Victim, Deadlocked
    <3>2. Needs(w) # {}
      BY <3>1 DEF Blocks
    <3> QED
      BY <3>2 DEF Needs
  <2>5. CASE Crash(w)
    BY <2>1, <2>5 DEF Crash, Good
  <2> QED
    BY <2>2, <2>3, <2>4, <2>5 DEF Last
<1> QED
  BY <1>1, <1>2, <1>3, <1>7, <1>8

LEMMA RemoveType ==
    ASSUME TypeInv, NEW w \in Workers, NEW m \in members, RemoveMember(w, m)
    PROVE  TypeInv'
<1>1. calls' \in 0..MaxCalls
  BY MaxCallsAssumption DEF TypeInv, TypeOK, RemoveMember, MayStart
<1>2. UNCHANGED <<type, mode, request, form, lock, task>>
  BY DEF RemoveMember, UnchangedRun
<1>3. members' \in SUBSET Member /\ checked' \in BOOLEAN
  BY DEF TypeInv, TypeOK, RemoveMember
<1> QED
  BY <1>1, <1>2, <1>3 DEF TypeInv, TypeOK

\* Every step is one of these.
LEMMA Steps ==
    ASSUME NEW w \in Workers, Begin(w) \/ Advance(w) \/ Crash(w)
    PROVE  \/ \E p \in Payloads, op \in {"panel", "wizard"} : Create(w, op, p)
           \/ Begins(w)
           \/ \E m \in members : RemoveMember(w, m)
           \/ Statement(w) \/ EditCommit(w) \/ ImportCommit(w) \/ Last(w)
<1>1. CASE Begin(w)
  BY <1>1 DEF Begin, Begins
<1>2. CASE Advance(w) \/ Crash(w)
  BY <1>2 DEF Advance, Statement, Last
<1> QED
  BY <1>1, <1>2

LEMMA NextType == TypeInv /\ [Next]_vars => TypeInv'
<1> SUFFICES ASSUME TypeInv, [Next]_vars PROVE TypeInv'
  OBVIOUS
<1>1. CASE UNCHANGED vars
  BY <1>1 DEF TypeInv, TypeOK, vars
<1>2. ASSUME NEW w \in Workers, Begin(w) \/ Advance(w) \/ Crash(w) PROVE TypeInv'
  <2>1. CASE \E p \in Payloads, op \in {"panel", "wizard"} : Create(w, op, p)
    BY <2>1, CreateType
  <2>2. CASE Begins(w)
    BY <2>2, BeginsEnter, EntersType
  <2>3. CASE \E m \in members : RemoveMember(w, m)
    BY <2>3, RemoveType
  <2>4. CASE Statement(w)
    BY <2>4, StatementGoes, GoesType
  <2>5. CASE EditCommit(w) \/ ImportCommit(w) \/ Last(w)
    BY <2>5, EditCommitType, ImportCommitType, LastType
  <2> QED
    BY <1>2, <2>1, <2>2, <2>3, <2>4, <2>5, Steps
<1> QED
  BY <1>1, <1>2 DEF Next

\* Every reachable state of forms, members and locks is well typed, and handlers are
\* only where their code takes them.
THEOREM TypeCorrect == Spec => []TypeOK
<1>1. TypeInv => TypeOK
  BY DEF TypeInv
<1> QED
  BY <1>1, InitType, NextType, PTL DEF Spec

-----------------------------------------------------------------------------
(* OneList                                                                   *)

Past == {"form", "find", "commit", "importForm", "alter", "members"}

\* Edits and imports hold the lock of the row once they have saved it.
LockHeld == mode = "locking" => \A w \in Workers : task[w].pc \in Past => lock = w

OneRuns ==
    mode = "serial" =>
        \A v, w \in Workers : task[v].pc # "idle" /\ task[w].pc # "idle" => v = w

\* Only what exists is edited.
Begun ==
    \A w \in Workers :
        task[w].op \in {"panel", "wizard", "add", "change"} => request # "none"

\* In mode locking no files are moved.
NoMoves ==
    mode = "locking" => \A w \in Workers : task[w].pc \notin Moving /\ ~task[w].files

\* The members an edit is about to remove are all there are that came in a list.
Covers(t) == \A m \in members : m.list => \E f \in t.found : f.by = m.by /\ f.who = m.who

AllFound ==
    Serialised => \A w \in Workers :
        task[w].pc = "commit" /\ task[w].outcome.replaces => Covers(task[w])

\* Who moves files alone brings no member back.
FoundIn ==
    mode = "serial" => \A w \in Workers :
        task[w].pc = "moveCommit" => task[w].found \subseteq members

ListInv ==
    TypeInv /\ LockHeld /\ OneRuns /\ Begun /\ NoMoves /\ AllFound /\ FoundIn /\ OneList

KeepsList ==
    LockHeld' /\ OneRuns' /\ Begun' /\ NoMoves' /\ AllFound' /\ FoundIn' /\ OneList'

LEMMA InitList == Init => ListInv
<1> SUFFICES ASSUME Init PROVE ListInv
  OBVIOUS
<1>1. TypeInv
  BY InitType
<1>2. \A w \in Workers : task[w].pc = "idle" /\ task[w].op = "none" /\ task[w].files = FALSE
  BY IdleGood, IdleFields DEF Init
<1>3. members = {}
  BY DEF Init
<1> QED
  BY <1>1, <1>2, <1>3
  DEF ListInv, LockHeld, OneRuns, Begun, NoMoves, AllFound, FoundIn, OneList, Past, Moving

\* Two handlers are never both past their save.
LEMMA PastAlone ==
    ASSUME ListInv, Serialised, NEW v \in Workers, NEW w \in Workers,
           task[v].pc \in Past, task[w].pc \in Past
    PROVE  v = w
<1>1. mode \in {"serial", "locking"}
  BY DEF Serialised
<1>2. task[v].pc # "idle" /\ task[w].pc # "idle"
  BY DEF Past
<1> QED
  BY <1>1, <1>2 DEF ListInv, LockHeld, OneRuns

\* A step of one handler: the others keep their tasks and locks, and the members that
\* an edit has found are still all there are.
LEMMA StepKeeps ==
    ASSUME ListInv, NEW w \in Workers, mode' = mode,
           \A v \in Workers : v # w => task'[v] = task[v] /\ (lock = v => lock' = v),
           mode = "serial" => \A v \in Workers : v # w => task[v].pc = "idle",
           mode = "locking" /\ task'[w].pc \in Past => lock' = w,
           mode = "locking" => task'[w].pc \notin Moving /\ ~task'[w].files,
           task'[w].op \in {"panel", "wizard", "add", "change"} => request' # "none",
           request' = "none" => request = "none",
           mode = "serial" /\ task'[w].pc = "moveCommit" => task'[w].found \subseteq members',
           Serialised /\ task'[w].pc = "commit" /\ task'[w].outcome.replaces
              => \A m \in members' : m.list =>
                    \E f \in task'[w].found : f.by = m.by /\ f.who = m.who,
           \/ \A r \in members' : r.list =>
                 \E m \in members : m.list /\ m.by = r.by /\ m.who = r.who
           \/ /\ Serialised => \A v \in Workers : v # w => task[v].pc # "commit"
              /\ OneList'
    PROVE  KeepsList
<1>1. LockHeld'
  BY DEF LockHeld, ListInv
<1>2. OneRuns'
  BY DEF OneRuns, ListInv
<1>3. Begun' /\ NoMoves'
  BY DEF Begun, NoMoves, ListInv
<1>4. FoundIn'
  BY DEF FoundIn, ListInv
<1>5. CASE \A r \in members' : r.list =>
              \E m \in members : m.list /\ m.by = r.by /\ m.who = r.who
  <2>1. AllFound'
    <3> SUFFICES ASSUME Serialised, NEW v \in Workers, v # w, task[v].pc = "commit",
                        task[v].outcome.replaces, NEW r \in members', r.list
                 PROVE  \E f \in task[v].found : f.by = r.by /\ f.who = r.who
      BY DEF AllFound, Covers, Serialised
    <3>1. Covers(task[v])
      BY DEF ListInv, AllFound
    <3>2. PICK m \in members : m.list /\ m.by = r.by /\ m.who = r.who
      BY <1>5
    <3>3. PICK f \in task[v].found : f.by = m.by /\ f.who = m.who
      BY <3>1, <3>2 DEF Covers
    <3> QED
      BY <3>2, <3>3
  <2>2. OneList'
    <3> SUFFICES ASSUME Serialised, NEW r \in members', NEW s \in members', r.list, s.list
                 PROVE  r.by = s.by
      BY DEF OneList, Serialised
    <3>1. PICK m \in members, n \in members : m.list /\ n.list /\ m.by = r.by /\ n.by = s.by
      BY <1>5
    <3> QED
      BY <3>1 DEF ListInv, OneList
  <2> QED
    BY <1>1, <1>2, <1>3, <1>4, <2>1, <2>2 DEF KeepsList
<1>6. CASE /\ Serialised => \A v \in Workers : v # w => task[v].pc # "commit"
           /\ OneList'
  <2>1. AllFound'
    <3> SUFFICES ASSUME Serialised, NEW v \in Workers, v # w, task[v].pc = "commit"
                 PROVE  FALSE
      BY DEF AllFound, Covers, Serialised
    <3> QED
      BY <1>6
  <2> QED
    BY <1>1, <1>2, <1>3, <1>4, <1>6, <2>1 DEF KeepsList
<1> QED
  BY <1>5, <1>6

\* Where handlers run one at a time, whoever steps is alone.
LEMMA ActsAlone ==
    ASSUME ListInv, NEW w \in Workers, mode = "serial", MayStart(w) \/ task[w].pc # "idle"
    PROVE  \A v \in Workers : v # w => task[v].pc = "idle"
<1>1. CASE MayStart(w)
  BY <1>1, IdleGood DEF MayStart
<1>2. CASE task[w].pc # "idle"
  BY <1>2 DEF ListInv, OneRuns
<1> QED
  BY <1>1, <1>2

LEMMA BeginsList ==
    ASSUME ListInv, NEW w \in Workers, Begins(w)
    PROVE  KeepsList
<1>1. PICK t : Enters(w, t)
  BY BeginsEnter DEF ListInv
<1>2. UNCHANGED <<type, mode, lock, request, form, members, checked>> /\ MayStart(w)
  BY <1>1, BeginsEnter DEF ListInv, UnchangedData, UnchangedRun, Enters, Starts
<1> DEFINE s == [t EXCEPT !.call = calls + 1]
<1>3. /\ s.pc = t.pc /\ s.op = t.op /\ s.files = t.files
      /\ t.pc \notin Past /\ t.pc \notin Moving
  BY <1>1 DEF Task, Enters, Past, Moving
<1>4. task'[w] = s /\ \A v \in Workers : v # w => task'[v] = task[v]
  BY <1>1, BeginsEnter, EntersType DEF ListInv
<1> HIDE DEF s
<1>5. mode = "serial" => \A v \in Workers : v # w => task[v].pc = "idle"
  BY <1>2, ActsAlone
<1>6. /\ t.op \in {"panel", "wizard", "add", "change"} => request # "none"
      /\ mode = "locking" => ~t.files
      /\ t.pc \notin {"commit", "moveCommit"}
  BY <1>1 DEF Enters
<1> QED
  BY <1>2, <1>3, <1>4, <1>5, <1>6, StepKeeps

LEMMA CreateList ==
    ASSUME ListInv, NEW w \in Workers, NEW op \in {"panel", "wizard"}, NEW p \in Payloads,
           Create(w, op, p)
    PROVE  KeepsList
<1>1. /\ UNCHANGED <<mode, lock>> /\ MayStart(w)
      /\ request = "none" /\ request' # "none"
      /\ members' = Rows(Creates(op, p).entries, calls + 1)
  BY DEF Create, UnchangedRun
<1>2. /\ \A v \in Workers : v # w => task'[v] = task[v]
      /\ task'[w].pc \in {"idle", "moved"} /\ ~task'[w].checked /\ ~task'[w].files
      /\ mode = "locking" => task'[w].pc = "idle"
  BY CreateType DEF ListInv
<1>3. \A v \in Workers : task[v].pc = "idle"
  BY <1>1, IdleGood DEF MayStart
<1>4. OneList'
  BY <1>1 DEF OneList, Rows
<1>5. /\ task'[w].pc \notin Past /\ task'[w].pc \notin {"commit", "moveCommit"}
      /\ mode = "locking" => task'[w].pc \notin Moving
  BY <1>2 DEF Past, Moving
<1> QED
  BY <1>1, <1>2, <1>3, <1>4, <1>5, StepKeeps

LEMMA RemoveList ==
    ASSUME ListInv, NEW w \in Workers, NEW m \in members, RemoveMember(w, m)
    PROVE  KeepsList
<1>1. UNCHANGED <<mode, request, lock, task>> /\ MayStart(w) /\ members' \subseteq members
  BY DEF RemoveMember, UnchangedRun
<1>2. task[w] = Idle /\ task[w].pc = "idle" /\ task[w].op = "none" /\ ~task[w].files
  BY <1>1, IdleGood, IdleFields DEF MayStart
<1>3. mode = "serial" => \A v \in Workers : v # w => task[v].pc = "idle"
  BY <1>1, ActsAlone
<1>4. "idle" \notin Past /\ "idle" \notin Moving
  BY DEF Past, Moving
<1>5. \A r \in members' : r.list => \E n \in members : n.list /\ n.by = r.by /\ n.who = r.who
  BY <1>1
<1> QED
  BY <1>1, <1>2, <1>3, <1>4, <1>5, StepKeeps

LEMMA StatementList ==
    ASSUME ListInv, NEW w \in Workers, Statement(w)
    PROVE  KeepsList
<1>1. PICK t : Goes(w, t)
  BY StatementGoes DEF ListInv
<1>2. /\ UNCHANGED <<mode, request, members>>
      /\ task'[w] = t /\ \A v \in Workers : v # w => task'[v] = task[v]
  BY <1>1, StatementGoes, GoesType DEF ListInv, UnchangedData, UnchangedRun
<1>3. task[w].pc # "idle" /\ Good(task[w])
  BY <1>1 DEF Goes, NextPc, ListInv, TypeInv
<1>4. mode = "serial" => \A v \in Workers : v # w => task[v].pc = "idle"
  BY <1>3, ActsAlone
<1>5. \A v \in Workers : v # w => (lock = v => lock' = v)
  BY <1>1, NobodyAssumption DEF Goes
<1>6. mode = "locking" /\ t.pc \in Past => lock' = w
  <2> SUFFICES ASSUME mode = "locking", t.pc \in Past PROVE lock' = w
    OBVIOUS
  <2>1. CASE task[w].pc = "save"
    BY <1>1, <2>1 DEF Goes
  <2>2. CASE task[w].pc # "save"
    <3>1. task[w].pc \in Past /\ lock' = lock
      BY <1>1, <2>2 DEF Goes, NextPc, Past
    <3> QED
      BY <3>1 DEF ListInv, LockHeld
  <2> QED
    BY <2>1, <2>2
<1>7. mode = "locking" => t.pc \notin Moving /\ ~t.files
  <2> SUFFICES ASSUME mode = "locking" PROVE t.pc \notin Moving /\ ~t.files
    OBVIOUS
  <2>1. task[w].pc \notin Moving /\ ~task[w].files
    BY DEF ListInv, NoMoves
  <2>2. t.pc \notin Moving
    BY <1>1, <2>1 DEF Goes, NextPc, Moving
  <2> QED
    BY <1>1, <2>1, <2>2 DEF Goes, Same
<1>8. t.op \in {"panel", "wizard", "add", "change"} => request # "none"
  BY <1>1 DEF Goes, Same, ListInv, Begun
<1>9. t.pc = "commit" /\ t.outcome.replaces => t.found = members
  BY <1>1 DEF Goes, NextPc
<1>10. t.pc = "moveCommit" => t.found \subseteq members
  BY <1>1 DEF Goes
<1> QED
  BY <1>2, <1>4, <1>5, <1>6, <1>7, <1>8, <1>9, <1>10, StepKeeps

\* A commit that replaces the members: nobody else is past his save, and the rows
\* that stay came in no list.
LEMMA CommitList ==
    ASSUME ListInv, NEW w \in Workers, EditCommit(w) \/ ImportCommit(w)
    PROVE  KeepsList
<1>1. /\ mode' = mode /\ lock' = Unlocked(w) /\ task[w].pc \in Past /\ task[w].pc # "idle"
  BY DEF EditCommit, ImportCommit, UnchangedRun, Past
<1>2. /\ \A v \in Workers : v # w => task'[v] = task[v]
      /\ task'[w].pc \in {"idle", "moved", "deals"}
      /\ task'[w].pc = "moved" => task[w].files
      /\ task'[w].files => task[w].files
  BY EditCommitType, ImportCommitType DEF ListInv, Same
<1>3. mode = "serial" => \A v \in Workers : v # w => task[v].pc = "idle"
  BY <1>1, ActsAlone
<1>4. \A v \in Workers : v # w => (lock = v => lock' = v)
  BY <1>1 DEF Unlocked
<1>5. task'[w].pc \notin Past /\ task'[w].pc \notin {"commit", "moveCommit"}
  BY <1>2 DEF Past
<1>6. mode = "locking" => task'[w].pc \notin Moving /\ ~task'[w].files
  BY <1>2 DEF ListInv, NoMoves, Moving
<1>7. /\ request' = "none" => request = "none"
      /\ task'[w].op \in {"panel", "wizard", "add", "change"} => request' # "none"
  <2>1. task[w].op \in {"panel", "wizard", "import"} /\ Good(task[w]) /\ task[w].pc \notin Moving
    BY <1>1 DEF ListInv, TypeInv, Good, EditCommit, ImportCommit, Editing, Importing, Moving
  <2>2. task[w].status # "none"
    BY <2>1 DEF Good
  <2>3. request' \in {task[w].status, request}
    BY DEF EditCommit, ImportCommit
  <2>4. EditCommit(w) => request # "none"
    BY <2>1 DEF EditCommit, ListInv, Begun, TypeInv, Good, Editing
  <2>5. ImportCommit(w) => task'[w].op = "import"
    BY ImportCommitType DEF ListInv
  <2> QED
    BY <2>2, <2>3, <2>4, <2>5
<1>8. Serialised => \A v \in Workers : v # w => task[v].pc # "commit"
  BY <1>1, PastAlone DEF Past
<1>9. OneList'
  <2> SUFFICES ASSUME Serialised', NEW m \in members', NEW n \in members', m.list, n.list
               PROVE  m.by = n.by
    BY DEF OneList
  <2>1. Serialised
    BY <1>1 DEF Serialised
  <2> DEFINE new == Rows(task[w].outcome.entries, task[w].call)
  <2>2. \A r \in new : r.by = task[w].call
    BY DEF Rows
  <2>3. CASE ImportCommit(w)
    BY <2>2, <2>3 DEF ImportCommit
  <2>4. CASE EditCommit(w) /\ ~task[w].outcome.replaces
    BY <2>1, <2>4 DEF EditCommit, ListInv, OneList
  <2>5. CASE EditCommit(w) /\ task[w].outcome.replaces
    <3>1. task[w].pc = "commit" /\ Covers(task[w])
      BY <2>1, <2>5 DEF EditCommit, ListInv, AllFound
    <3>2. \A r \in members' : r.list => r \in new
      BY <2>5, <3>1 DEF EditCommit, Covers, Others
    <3> QED
      BY <2>2, <3>2
  <2> QED
    BY <2>3, <2>4, <2>5
<1> QED
  BY <1>1, <1>2, <1>3, <1>4, <1>5, <1>6, <1>7, <1>8, <1>9, StepKeeps

\* A handler stores its last change or is undone: every row of a list was there before,
\* or takes the place of one of the same list.
LEMMA LastList ==
    ASSUME ListInv, NEW w \in Workers, Last(w)
    PROVE  KeepsList
<1>1. /\ task'[w] = Idle /\ task[w].pc # "idle" /\ mode' = mode
      /\ \A v \in Workers : v # w => task'[v] = task[v]
      /\ lock' \in {lock, Unlocked(w)}
  BY LastType DEF ListInv, UnchangedRun
<1>2. Idle.pc = "idle" /\ Idle.op = "none" /\ Idle.files = FALSE
  BY IdleGood, IdleFields
<1>3. mode = "serial" => \A v \in Workers : v # w => task[v].pc = "idle"
  BY <1>1, ActsAlone
<1>4. \A v \in Workers : v # w => (lock = v => lock' = v)
  BY <1>1 DEF Unlocked
<1>5. "idle" \notin Past /\ "idle" \notin Moving
  BY DEF Past, Moving
<1>6. request' = "none" => request = "none"
  <2>1. ImportDeals(w) => task[w].status # "none"
    BY DEF ImportDeals, ListInv, TypeInv, Good, Importing, Moving
  <2> QED
    BY <2>1 DEF Last, AddInsert, ChangeSave, ImportDeals, DeleteRow, MoveCommit, Throws,
             Victim, Crash, UnchangedData
<1>7. CASE \A r \in members' : r.list =>
              \E m \in members : m.list /\ m.by = r.by /\ m.who = r.who
  BY <1>1, <1>2, <1>3, <1>4, <1>5, <1>6, <1>7, StepKeeps
<1>8. CASE MoveCommit(w) /\ mode = "serial"
  <2>1. task[w].found \subseteq members
    BY <1>8 DEF MoveCommit, ListInv, FoundIn
  <2>2. \A r \in members' : r.list =>
            \E m \in members : m.list /\ m.by = r.by /\ m.who = r.who
    BY <2>1, LastMembers DEF ListInv
  <2> QED
    BY <1>7, <2>2
<1>9. CASE MoveCommit(w) /\ mode = "locking"
  BY <1>9 DEF MoveCommit, ListInv, NoMoves, Moving
<1>10. CASE MoveCommit(w) /\ ~Serialised
  <2>1. mode \notin {"serial", "locking"} /\ OneList' /\ AllFound' /\ FoundIn'
    BY <1>1, <1>10 DEF Serialised, OneList, AllFound, FoundIn
  <2> QED
    BY <1>1, <1>2, <1>3, <1>4, <1>5, <1>6, <1>10, <2>1, StepKeeps
<1> QED
  BY <1>7, <1>8, <1>9, <1>10, LastMembers DEF ListInv, Serialised

LEMMA NextList == ListInv /\ [Next]_vars => ListInv'
<1> SUFFICES ASSUME ListInv, [Next]_vars PROVE ListInv'
  OBVIOUS
<1>1. TypeInv'
  BY NextType DEF ListInv
<1>2. CASE UNCHANGED vars
  BY <1>1, <1>2
  DEF ListInv, LockHeld, OneRuns, Begun, NoMoves, AllFound, FoundIn, Covers, OneList,
      Serialised, vars
<1>3. ASSUME NEW w \in Workers, Begin(w) \/ Advance(w) \/ Crash(w) PROVE KeepsList
  BY <1>3, Steps, CreateList, BeginsList, RemoveList, StatementList, CommitList, LastList
<1> QED
  BY <1>1, <1>2, <1>3 DEF Next, ListInv, KeepsList

\* For any number of handlers that overlap, fail or stop anywhere, the members that came
\* in lists come from one submission, as long as edits lock the row of their request and
\* move no files.
THEOREM OneListAlways == Spec => []OneList
<1>1. ListInv => OneList
  BY DEF ListInv
<1> QED
  BY <1>1, InitList, NextList, PTL DEF Spec

-----------------------------------------------------------------------------
(* LateKept.  A form is stored whole, filled into the one its handler has     *)
(* read, so what is read must not be older than the data: an edit of the      *)
(* wizard reads under the lock of the row, the others before it, and so are   *)
(* safe alone only (SeenOK).                                                  *)

\* An import past its save has found a request, or is about to insert one.
RowOK(w) ==
    /\ task[w].pc \in {"importForm", "alter", "members"} => request # "none" \/ lock = w
    /\ task[w].pc = "deals" => request # "none"

LateSeen(t) == form.late => t.seen.late

\* Where a handler has read the form.
Read == {"save", "moveForm", "moveFind", "moveCommit"} \cup Past \cup {"deals"}

SeenOK(w) ==
    /\ mode = "locking" /\ task[w].op = "wizard" /\ task[w].pc \in {"find", "commit"}
          => LateSeen(task[w])
    /\ mode = "serial" /\ task[w].pc \in Read => LateSeen(task[w])

\* A request that is not there has no form.
NoForm == request = "none" => ~form.late

LateInv == ListInv /\ NoForm /\ \A w \in Workers : RowOK(w) /\ SeenOK(w)

LateStep ==
    (Serialised /\ form.late /\ ~form'.late) =>
        \/ request' = "deleted"
        \/ /\ mode = "locking"
           /\ \E w \in Workers : /\ task'[w] # task[w] /\ ~task[w].seen.late
                                 /\ task[w].op \in {"panel", "import"}

KeepsLate == NoForm' /\ (\A v \in Workers : RowOK(v)' /\ SeenOK(v)') /\ LateStep

LEMMA InitLate == Init => LateInv
<1> SUFFICES ASSUME Init PROVE LateInv
  OBVIOUS
<1>1. ListInv
  BY InitList
<1>2. \A w \in Workers : task[w].pc = "idle" /\ task[w].op = "none"
  BY IdleGood DEF Init
<1>3. ~form.late
  BY DEF Init, Blank
<1> QED
  BY <1>1, <1>2, <1>3 DEF LateInv, NoForm, RowOK, SeenOK, Read, Past

LEMMA LateFacts ==
    ASSUME LateInv
    PROVE  /\ task \in [Workers -> Task] /\ lock \in Workers \cup {Nobody} /\ form \in Form
           /\ mode \in Mode /\ ListInv /\ TypeInv /\ NoForm
           /\ \A w \in Workers : Good(task[w]) /\ RowOK(w) /\ SeenOK(w)
BY DEF LateInv, ListInv, TypeInv, TypeOK

\* The form stays, and so does the lock unless it is this handler's.
LEMMA StaysLate ==
    ASSUME LateInv, NEW w \in Workers, UNCHANGED <<mode, form>>,
           request' = "none" => request = "none",
           \A v \in Workers : v # w => task'[v] = task[v] /\ (lock = v => lock' = v),
           RowOK(w)', SeenOK(w)'
    PROVE  KeepsLate
<1>1. NoForm' /\ LateStep
  BY DEF LateInv, NoForm, LateStep
<1>2. ASSUME NEW v \in Workers, v # w PROVE RowOK(v)' /\ SeenOK(v)'
  BY <1>2, LateFacts DEF RowOK, SeenOK, LateSeen
<1> QED
  BY <1>1, <1>2 DEF KeepsLate

\* The form changes where nobody else is about to store the one he has read, or those
\* who are have lost nothing by it.
LEMMA ChangesLate ==
    ASSUME LateInv, NEW w \in Workers, mode' = mode, request' # "none",
           \A v \in Workers : v # w => task'[v] = task[v],
           mode = "serial" => \A v \in Workers : v # w => task[v].pc = "idle",
           \/ ~form'.late
           \/ mode = "locking" => \A v \in Workers : v # w => task[v].pc \notin {"find", "commit"},
           SeenOK(w)', LateStep
    PROVE  KeepsLate
<1>1. NoForm' /\ \A v \in Workers : RowOK(v)'
  BY DEF NoForm, RowOK
<1>2. ASSUME NEW v \in Workers, v # w PROVE SeenOK(v)'
  <2>1. CASE ~form'.late
    BY <2>1 DEF SeenOK, LateSeen
  <2>2. CASE mode = "locking" => \A u \in Workers : u # w => task[u].pc \notin {"find", "commit"}
    BY <1>2, <2>2 DEF SeenOK, Read, Past
  <2> QED
    BY <2>1, <2>2
<1> QED
  BY <1>1, <1>2 DEF KeepsLate

LEMMA BeginsLate ==
    ASSUME LateInv, NEW w \in Workers, Begins(w)
    PROVE  KeepsLate
<1>1. PICK t : Enters(w, t)
  BY BeginsEnter, LateFacts
<1>2. UNCHANGED <<type, mode, lock, request, form, members, checked>>
  BY BeginsEnter, LateFacts DEF UnchangedData, UnchangedRun
<1> DEFINE s == [t EXCEPT !.call = calls + 1]
<1>3. s.pc = t.pc /\ s.op = t.op /\ s.seen = t.seen
  BY <1>1 DEF Task, Enters
<1>4. task'[w] = s /\ \A v \in Workers : v # w => task'[v] = task[v]
  BY <1>1, BeginsEnter, EntersType, LateFacts
<1> HIDE DEF s
<1>5. t.pc \in {"save", "insert", "delete"} /\ (t.pc = "save" => t.seen = form)
  BY <1>1 DEF Enters
<1>6. RowOK(w)' /\ SeenOK(w)'
  BY <1>2, <1>3, <1>4, <1>5 DEF RowOK, SeenOK, LateSeen, Read, Past
<1> QED
  BY <1>2, <1>4, <1>6, StaysLate

LEMMA StatementLate ==
    ASSUME LateInv, NEW w \in Workers, Statement(w)
    PROVE  KeepsLate
<1>1. PICK t : Goes(w, t)
  BY StatementGoes, LateFacts
<1>2. /\ UNCHANGED <<mode, request, form>>
      /\ task'[w] = t /\ \A v \in Workers : v # w => task'[v] = task[v]
  BY <1>1, StatementGoes, GoesType, LateFacts DEF UnchangedData, UnchangedRun
<1>3. \A v \in Workers : v # w => (lock = v => lock' = v)
  BY <1>1, NobodyAssumption DEF Goes
<1>4. RowOK(w)'
  <2>1. t.pc # "deals"
    BY <1>1 DEF Goes, NextPc
  <2>2. t.pc \in {"importForm", "alter", "members"} => request # "none" \/ lock' = w
    <3> SUFFICES ASSUME t.pc \in {"importForm", "alter", "members"}
                 PROVE  request # "none" \/ lock' = w
      OBVIOUS
    <3>1. CASE task[w].pc = "save"
      <4>1. t.op = "import" /\ task[w].op = "import"
        BY <1>1, <3>1 DEF Goes, Same, NextPc
      <4>2. task[w].status # "none"
        BY <3>1, <4>1, LateFacts DEF Good, Moving
      <4> QED
        BY <1>1, <3>1, <4>2 DEF Goes
    <3>2. CASE task[w].pc # "save"
      <4>1. task[w].pc \in {"importForm", "alter", "members"} /\ lock' = lock
        BY <1>1, <3>2 DEF Goes, NextPc
      <4> QED
        BY <4>1, LateFacts DEF RowOK
    <3> QED
      BY <3>1, <3>2
  <2> QED
    BY <1>2, <2>1, <2>2 DEF RowOK
<1>5. SeenOK(w)'
  <2>1. mode = "locking" /\ t.op = "wizard" /\ t.pc \in {"find", "commit"} => LateSeen(t)
    <3> SUFFICES ASSUME mode = "locking", t.op = "wizard", t.pc \in {"find", "commit"}
                 PROVE  LateSeen(t)
      OBVIOUS
    <3>1. CASE t.seen = form
      BY <3>1 DEF LateSeen
    <3>2. CASE t.seen # form
      <4>1. task[w].pc = "find" /\ task[w].op = "wizard" /\ t.seen = task[w].seen
        BY <1>1, <3>2 DEF Goes, NextPc, Same
      <4> QED
        BY <4>1, LateFacts DEF SeenOK, LateSeen
    <3> QED
      BY <3>1, <3>2
  <2>2. mode = "serial" /\ t.pc \in Read => LateSeen(t)
    <3> SUFFICES ASSUME mode = "serial", t.pc \in Read PROVE LateSeen(t)
      OBVIOUS
    <3>1. CASE t.seen = form
      BY <3>1 DEF LateSeen
    <3>2. CASE t.seen # form
      <4>1. t.seen = task[w].seen /\ task[w].pc \in Read
        BY <1>1, <3>2 DEF Goes, NextPc, Read, Past
      <4> QED
        BY <4>1, LateFacts DEF SeenOK, LateSeen
    <3> QED
      BY <3>1, <3>2
  <2> QED
    BY <1>2, <2>1, <2>2 DEF SeenOK, LateSeen
<1> QED
  BY <1>2, <1>3, <1>4, <1>5, StaysLate

LEMMA CreateLate ==
    ASSUME LateInv, NEW w \in Workers, NEW op \in {"panel", "wizard"}, NEW p \in Payloads,
           Create(w, op, p)
    PROVE  KeepsLate
<1>1. mode' = mode /\ MayStart(w) /\ request = "none" /\ request' # "none"
  BY DEF Create, UnchangedRun
<1>2. \A v \in Workers : task[v].pc = "idle"
  BY <1>1, IdleGood DEF MayStart
<1>3. /\ \A v \in Workers : v # w => task'[v] = task[v]
      /\ task'[w].pc \in {"idle", "moved"}
  BY CreateType, LateFacts
<1>4. SeenOK(w)'
  BY <1>3 DEF SeenOK, Read, Past
<1>5. LateStep
  BY <1>1, LateFacts DEF LateStep, NoForm
<1> QED
  BY <1>1, <1>2, <1>3, <1>4, <1>5, ChangesLate

LEMMA RemoveLate ==
    ASSUME LateInv, NEW w \in Workers, NEW m \in members, RemoveMember(w, m)
    PROVE  KeepsLate
<1>1. UNCHANGED <<mode, form, request, lock, task>>
  BY DEF RemoveMember, UnchangedRun
<1>2. RowOK(w)' /\ SeenOK(w)'
  BY <1>1, LateFacts DEF RowOK, SeenOK, LateSeen
<1> QED
  BY <1>1, <1>2, StaysLate

LEMMA CommitLate ==
    ASSUME LateInv, NEW w \in Workers, EditCommit(w) \/ ImportCommit(w)
    PROVE  KeepsLate
<1>1. /\ mode' = mode /\ task[w].pc \in Past /\ task[w].pc # "idle"
      /\ request' = IF lock = w THEN task[w].status ELSE request
      /\ form' = Filling(task[w].seen, task[w].outcome)
  BY DEF EditCommit, ImportCommit, UnchangedRun, Past
<1>2. /\ \A v \in Workers : v # w => task'[v] = task[v]
      /\ task'[w].pc \in {"idle", "moved", "deals"}
      /\ task'[w].pc = "deals" => task'[w].seen = form'
  BY EditCommitType, ImportCommitType, LateFacts
<1>3. /\ task[w].op \in {"panel", "wizard", "import"} /\ task[w].status # "none"
      /\ EditCommit(w) => task[w].op \in {"panel", "wizard"}
  BY LateFacts DEF EditCommit, ImportCommit, Good, Editing, Importing, Moving
<1>4. request' # "none"
  <2>1. CASE EditCommit(w)
    <3>1. request # "none"
      BY <1>3, <2>1, LateFacts DEF ListInv, Begun
    <3> QED
      BY <1>1, <1>3, <3>1
  <2>2. CASE ImportCommit(w)
    <3>1. request # "none" \/ lock = w
      BY <2>2, LateFacts DEF ImportCommit, RowOK
    <3> QED
      BY <1>1, <1>3, <3>1
  <2> QED
    BY <2>1, <2>2
<1>5. mode = "serial" => \A v \in Workers : v # w => task[v].pc = "idle"
  BY <1>1, ActsAlone, LateFacts
<1>6. mode = "locking" => \A v \in Workers : v # w => task[v].pc \notin {"find", "commit"}
  BY <1>1, PastAlone, LateFacts DEF Past, Serialised
<1>7. SeenOK(w)'
  BY <1>1, <1>2 DEF SeenOK, LateSeen, Read, Past
<1>8. LateStep
  <2> SUFFICES ASSUME Serialised, form.late, ~form'.late
               PROVE  /\ mode = "locking" /\ task'[w] # task[w] /\ ~task[w].seen.late
                      /\ task[w].op \in {"panel", "import"}
    BY DEF LateStep
  <2>1. ~task[w].seen.late
    BY <1>1 DEF Filling
  <2>2. mode = "locking"
    BY <1>1, <2>1, LateFacts DEF SeenOK, LateSeen, Read, Serialised
  <2>3. task[w].op # "wizard"
    <3>1. CASE EditCommit(w)
      BY <2>1, <2>2, <3>1, LateFacts DEF EditCommit, SeenOK, LateSeen
    <3>2. CASE ImportCommit(w)
      BY <3>2, LateFacts DEF ImportCommit, Good, Importing
    <3> QED
      BY <3>1, <3>2
  <2>4. task'[w] # task[w]
    BY <1>1, <1>2 DEF Past
  <2> QED
    BY <1>3, <2>1, <2>2, <2>3, <2>4
<1> QED
  BY <1>1, <1>2, <1>4, <1>5, <1>6, <1>7, <1>8, ChangesLate

\* The second save of an import, and the files that were moved: the form as it was read.
LEMMA StoresLate ==
    ASSUME LateInv, NEW w \in Workers, ImportDeals(w) \/ MoveCommit(w),
           form' = task[w].seen, request' # "none"
    PROVE  KeepsLate
<1>1. /\ mode' = mode /\ task'[w] = Idle /\ task[w].pc \in {"deals", "moveCommit"}
      /\ \A v \in Workers : v # w => task'[v] = task[v]
  BY LastType, LateFacts DEF Last, UnchangedRun, ImportDeals, MoveCommit
<1>2. mode = "serial" => \A v \in Workers : v # w => task[v].pc = "idle"
  BY <1>1, ActsAlone, LateFacts
<1>3. mode = "locking" => ImportDeals(w) /\ task[w].op = "import"
  BY LateFacts DEF MoveCommit, ImportDeals, ListInv, NoMoves, Moving, Importing, Good
<1>4. SeenOK(w)'
  BY <1>1, IdleGood DEF SeenOK, Read, Past
<1>5. task'[w] # task[w]
  BY <1>1, IdleGood
<1>6. LateStep
  BY <1>1, <1>3, <1>5, LateFacts DEF LateStep, SeenOK, LateSeen, Read, Serialised
<1>7. CASE form' = form
  <2>1. RowOK(w)'
    BY <1>1, IdleGood DEF RowOK
  <2>2. lock' = lock
    BY DEF ImportDeals, MoveCommit
  <2> QED
    BY <1>1, <1>4, <1>7, <2>1, <2>2, StaysLate
<1>8. CASE form' # form
  <2>1. mode = "locking" => \A v \in Workers : v # w => task[v].pc \notin {"find", "commit"}
    <3> SUFFICES ASSUME mode = "locking", NEW v \in Workers, v # w,
                        task[v].pc \in {"find", "commit"}
                 PROVE  FALSE
      OBVIOUS
    <3>1. lock = v
      BY LateFacts DEF ListInv, LockHeld, Past
    <3>2. Free(w) /\ task[w].pc = "deals"
      BY <1>3, <1>8 DEF ImportDeals
    <3>3. "request" \in Needs(w)
      BY <3>2 DEF Needs
    <3> QED
      BY <3>1, <3>2, <3>3, FreeLock, LateFacts, NobodyAssumption
  <2> QED
    BY <1>1, <1>2, <1>4, <1>6, <2>1, ChangesLate
<1> QED
  BY <1>7, <1>8

LEMMA LastLate ==
    ASSUME LateInv, NEW w \in Workers, Last(w)
    PROVE  KeepsLate
<1>1. /\ task'[w] = Idle /\ task[w].pc # "idle" /\ mode' = mode
      /\ \A v \in Workers : v # w => task'[v] = task[v]
      /\ lock' \in {lock, Unlocked(w)}
  BY LastType, LateFacts DEF UnchangedRun
<1>2. \A v \in Workers : v # w => (lock = v => lock' = v)
  BY <1>1 DEF Unlocked
<1>3. mode = "serial" => \A v \in Workers : v # w => task[v].pc = "idle"
  BY <1>1, ActsAlone, LateFacts
<1>4. RowOK(w)' /\ SeenOK(w)'
  BY <1>1, IdleGood DEF RowOK, SeenOK, Read, Past
<1>5. CASE UNCHANGED <<request, form>>
  BY <1>1, <1>2, <1>4, <1>5, StaysLate
<1>6. CASE DeleteRow(w)
  <2>1. ~form'.late /\ request' = "deleted"
    BY <1>6 DEF DeleteRow, Blank
  <2>2. LateStep
    BY <2>1 DEF LateStep
  <2> QED
    BY <1>1, <1>3, <1>4, <2>1, <2>2, ChangesLate
<1>7. CASE ImportDeals(w) /\ form' = task[w].seen
  <2>1. task[w].status # "none" /\ request # "none"
    BY <1>7, LateFacts DEF ImportDeals, Good, Importing, Moving, RowOK
  <2>2. request' # "none"
    BY <1>7, <2>1 DEF ImportDeals
  <2> QED
    BY <1>7, <2>2, StoresLate
<1>8. CASE MoveCommit(w) /\ form' = task[w].seen
  <2>1. request' = request /\ task[w].op = "panel"
    BY <1>8, LateFacts DEF MoveCommit, Good, Moving
  <2>2. request # "none"
    BY <2>1, LateFacts DEF ListInv, Begun
  <2> QED
    BY <1>8, <2>1, <2>2, StoresLate
<1> QED
  BY <1>5, <1>6, <1>7, <1>8
  DEF Last, AddInsert, ChangeSave, ImportDeals, MoveCommit, Throws, Victim, Crash, UnchangedData

LEMMA NextLate == LateInv /\ [Next]_vars => LateInv' /\ LateStep
<1> SUFFICES ASSUME LateInv, [Next]_vars PROVE LateInv' /\ LateStep
  OBVIOUS
<1>1. ListInv'
  BY NextList DEF LateInv
<1>2. CASE UNCHANGED vars
  BY <1>1, <1>2 DEF LateInv, NoForm, RowOK, SeenOK, LateSeen, Serialised, LateStep, vars
<1>3. ASSUME NEW w \in Workers, Begin(w) \/ Advance(w) \/ Crash(w) PROVE KeepsLate
  BY <1>3, Steps, CreateLate, BeginsLate, RemoveLate, StatementLate, CommitLate, LastLate
<1> QED
  BY <1>1, <1>2, <1>3 DEF Next, LateInv, KeepsLate

\* For any number of handlers that overlap, fail or stop anywhere, data of the later
\* sections is lost only with its request, or to an edit of the panel or an import that
\* read the form before the data came, as long as edits lock the row of their request and
\* move no files.  Edits of the wizard never lose it.
THEOREM LateKeptAlways == Spec => LateKept
<1> QED
  BY InitLate, NextLate, PTL DEF Spec, LateKept, LateStep

-----------------------------------------------------------------------------
(* CheckedAddsUp                                                             *)

Pct(E) == [e \in E |-> e.pct]

LEMMA TotalIsOver ==
    ASSUME NEW E, IsFiniteSet(E)
    PROVE  Total(E) = SumOver(Pct(E), E)
<1>1. PICK it : Adds(it, Pct(E), E) /\ SumOver(Pct(E), E) = it[E]
  BY SumIsAdds
<1>2. ASSUME NEW s \in SUBSET E, s # {} PROVE Pct(E)[Any(s)] = Any(s).pct
  BY <1>2, AnyIn DEF Pct
<1>3. it = [s \in SUBSET E |-> IF s = {} THEN 0 ELSE Any(s).pct + it[s \ {Any(s)}]]
  BY <1>1, <1>2 DEF Adds
<1>4. PICK jt : /\ jt = [s \in SUBSET E |->
                           IF s = {} THEN 0 ELSE Any(s).pct + jt[s \ {Any(s)}]]
                /\ Total(E) = jt[E]
  BY <1>3 DEF Total, MapThenSumSet, MapThenFoldSet, Any
<1>5. Adds(jt, Pct(E), E)
  BY <1>4, <1>2 DEF Adds
<1>6. SumOver(Pct(E), E) = jt[E]
  BY <1>5, SumAdds
<1> QED
  BY <1>4, <1>6

\* Entries or rows made one by one from entries keep their percentages' total.
LEMMA TotalKept ==
    ASSUME NEW E \in SUBSET Entry, IsFiniteSet(E), NEW f,
           \A x, y \in E : f[x] = f[y] => x = y,
           \A x \in E : f[x].pct = x.pct
    PROVE  Total({f[x] : x \in E}) = Total(E)
<1> DEFINE F == {f[x] : x \in E}
<1>1. IsFiniteSet(F)
  BY ImageFinite
<1>2. \A x \in E : Pct(F)[f[x]] \in Int /\ Pct(E)[x] = Pct(F)[f[x]]
  BY DEF Pct, Entry, Percent
<1>3. SumOver(Pct(F), F) = SumOver(Pct(E), E)
  <2> DEFINE v == Pct(F)
             w == Pct(E)
  <2>1. \A x \in E : v[f[x]] \in Int /\ w[x] = v[f[x]]
    BY <1>2
  <2>2. (\A x \in E : f[x] \in F) /\ \A y \in F : \E x \in E : y = f[x]
    OBVIOUS
  <2>3. Carries(f, E, w, F, v)
    <3> HIDE DEF v, w, F
    <3> QED
      BY <2>1, <2>2 DEF Carries
  <2> SUFFICES SumOver(v, F) = SumOver(w, E)
    OBVIOUS
  <2> HIDE DEF v, w, F
  <2> QED
    BY <2>3, SumCarried
<1> HIDE DEF F
<1>4. Total(F) = Total(E)
  BY <1>1, <1>3, TotalIsOver
<1> QED
  BY <1>4 DEF F

OnePerMember(E) == \A d, e \in E : d.who = e.who => d = e

\* A list that was validated in full.
Passed(kind, E) ==
    /\ E \in SUBSET Entry /\ IsFiniteSet(E) /\ OnePerMember(E)
    /\ Total(E) = 100
    /\ kind = "apertura-llc" => Cardinality(Validators(E)) <= 1

\* It adds up once stored.
LEMMA PassedRows ==
    ASSUME NEW kind, NEW E, Passed(kind, E), NEW call \in Calls
    PROVE  /\ Total(Rows(E, call)) = 100
           /\ kind = "apertura-llc" => Cardinality(Validators(Rows(E, call))) <= 1
<1> DEFINE row(e) == [by |-> call, who |-> e.who, pct |-> e.pct,
                      validatesBankAccount |-> e.validatesBankAccount, list |-> TRUE]
           f == [e \in E |-> row(e)]
<1>0. E \in SUBSET Entry /\ IsFiniteSet(E)
  BY DEF Passed
<1>1. \A x, y \in E : f[x] = f[y] => x = y
  BY DEF Passed, OnePerMember
<1>2. \A x \in E : f[x].pct = x.pct
  OBVIOUS
<1>3. Rows(E, call) = {f[x] : x \in E}
  BY DEF Rows
<1>4. Total({f[x] : x \in E}) = Total(E)
  <2> HIDE DEF f
  <2> QED
    BY <1>0, <1>1, <1>2, TotalKept
<1>5. ASSUME kind = "apertura-llc"
      PROVE  Cardinality(Validators(Rows(E, call))) <= 1
  <2> DEFINE V == Validators(E)
             W == Validators(Rows(E, call))
             g == [e \in V |-> row(e)]
  <2>1. g \in Surjection(V, W)
    <3>1. g \in [V -> W]
      <4> SUFFICES ASSUME NEW e \in V PROVE row(e) \in W
        OBVIOUS
      <4>1. e \in E /\ e.validatesBankAccount
        BY DEF Validators
      <4>2. row(e) \in Rows(E, call)
        BY <4>1 DEF Rows
      <4>3. row(e).validatesBankAccount
        BY <4>1
      <4> QED
        BY <4>2, <4>3 DEF Validators
    <3>2. \A r \in W : \E e \in V : g[e] = r
      <4> SUFFICES ASSUME NEW r \in W PROVE \E e \in V : g[e] = r
        OBVIOUS
      <4>1. r \in Rows(E, call) /\ r.validatesBankAccount
        BY DEF Validators
      <4>2. PICK e \in E : r = row(e)
        BY <4>1 DEF Rows
      <4>3. e \in V
        BY <4>1, <4>2 DEF Validators
      <4> QED
        BY <4>2, <4>3
    <3> QED
      BY <3>1, <3>2 DEF Surjection
  <2>2. IsFiniteSet(V)
    BY <1>0, FS_Subset DEF Validators
  <2>3. Cardinality(V) <= 1
    BY <1>5 DEF Passed
  <2> HIDE DEF V, W, g
  <2>4. IsFiniteSet(W) /\ Cardinality(W) <= Cardinality(V)
    BY <2>1, <2>2, FS_Surjection
  <2>5. Cardinality(W) \in Nat /\ Cardinality(V) \in Nat
    BY <2>2, <2>4, FS_CardinalityType
  <2>6. Cardinality(W) <= 1
    BY <2>3, <2>4, <2>5
  <2> QED
    BY <2>6 DEF W
<1>6. Total(E) = 100
  BY DEF Passed
<1> HIDE DEF f
<1> QED
  BY <1>3, <1>4, <1>5, <1>6

LEMMA PassedWithoutValidator ==
    ASSUME NEW E, Passed(type, E), type # "apertura-llc"
    PROVE  Passed(type, WithoutValidator(E))
<1> DEFINE f == [e \in E |-> [e EXCEPT !.validatesBankAccount = FALSE]]
           F == {f[x] : x \in E}
<1>0. E \in SUBSET Entry /\ IsFiniteSet(E) /\ OnePerMember(E)
  BY DEF Passed
<1>1. F = WithoutValidator(E)
  BY DEF WithoutValidator
<1>2. \A x \in E : f[x].pct = x.pct /\ f[x].who = x.who
  BY <1>0 DEF Entry
<1>3. \A x, y \in E : f[x] = f[y] => x = y
  <2> HIDE DEF f
  <2> QED
    BY <1>0, <1>2 DEF OnePerMember
<1>4. Total(F) = Total(E)
  <2> HIDE DEF f
  <2> QED
    BY <1>0, <1>2, <1>3, TotalKept
<1>5. IsFiniteSet(F)
  <2> HIDE DEF f
  <2> QED
    BY <1>0, ImageFinite
<1>6. OnePerMember(F)
  <2> HIDE DEF f
  <2> QED
    BY <1>0, <1>2, <1>3 DEF OnePerMember
<1>7. F \in SUBSET Entry
  BY <1>0, <1>1, EntriesType
<1>8. Total(E) = 100
  BY DEF Passed
<1> HIDE DEF F, f
<1> QED
  BY <1>1, <1>4, <1>5, <1>6, <1>7, <1>8 DEF Passed

\* What a submission that is validated in full stores has passed.
LEMMA PassedPayload ==
    ASSUME NEW p \in Payloads, NEW strict \in BOOLEAN, NEW llc,
           Valid(p.section, llc, p.members, strict), CheckedInFull(p, strict)
    PROVE  /\ p.section = 2 /\ Sent(p) = p.members /\ p.members # {}
           /\ type # "cuenta-bancaria"
           /\ Filled(p.members) = p.members
           /\ Passed(type, p.members)
<1>1. p.section = 2 /\ p.sent /\ p.members # {} /\ type # "cuenta-bancaria"
  BY DEF CheckedInFull, ListSections
<1>2. /\ p.members \in SUBSET Entry
      /\ IsFiniteSet(p.members) /\ OnePerMember(p.members)
  BY PayloadsAssumption, ListsAssumption DEF Payload, OnePerMember
<1>3. /\ \A e \in p.members : e.filled
      /\ Total(p.members) = 100
      /\ type = "apertura-llc" => Cardinality(Validators(p.members)) <= 1
  <2>1. p.section \in ListSections
    BY DEF CheckedInFull
  <2>2. CASE type = "apertura-llc"
    BY <2>1, <2>2 DEF Valid, AperturaValid, CheckedInFull
  <2>3. CASE type # "apertura-llc"
    BY <2>1, <2>3 DEF Valid, RenovacionValid
  <2> QED
    BY <2>2, <2>3
<1> QED
  BY <1>1, <1>2, <1>3 DEF Sent, Filled, Passed

LEMMA PassedCreated ==
    ASSUME NEW p \in Payloads, NEW op \in {"panel", "wizard"}, NEW strict \in BOOLEAN,
           NEW llc, type \in AllTypes,
           Valid(p.section, llc, p.members, strict), CheckedInFull(p, strict)
    PROVE  Passed(type, Creates(op, p).entries)
<1>1. /\ p.section = 2 /\ Sent(p) = p.members
      /\ type \in {"apertura-llc", "renovacion-llc"}
      /\ Filled(p.members) = p.members /\ Passed(type, p.members)
  BY PassedPayload DEF AllTypes
<1>2. CASE type = "apertura-llc"
  BY <1>1, <1>2 DEF Creates, PanelCreatesApertura, WizardCreatesApertura
<1>3. CASE type = "renovacion-llc"
  <2>1. Passed(type, WithoutValidator(p.members))
    BY <1>1, <1>3, PassedWithoutValidator
  <2> QED
    BY <1>1, <1>3, <2>1 DEF Creates, PanelCreatesRenovacion, WizardCreatesRenovacion
<1> QED
  BY <1>1, <1>2, <1>3

LEMMA PassedEdited ==
    ASSUME NEW p \in Payloads, NEW op \in {"panel", "wizard"}, NEW strict \in BOOLEAN,
           NEW llc, type \in AllTypes,
           Valid(p.section, llc, p.members, strict), CheckedInFull(p, strict)
    PROVE  Passed(type, Edits(op, p).entries)
<1>1. /\ p.section = 2 /\ Sent(p) = p.members /\ p.members # {}
      /\ type \in {"apertura-llc", "renovacion-llc"}
      /\ Filled(p.members) = p.members /\ Passed(type, p.members)
  BY PassedPayload DEF AllTypes
<1>2. PanelEditsApertura(p).entries = p.members
  BY <1>1 DEF PanelEditsApertura
<1>3. CASE type = "apertura-llc"
  BY <1>1, <1>2, <1>3 DEF Edits, WizardEditsApertura
<1>4. CASE type = "renovacion-llc"
  <2>1. Passed(type, WithoutValidator(p.members))
    BY <1>1, <1>4, PassedWithoutValidator
  <2>2. PanelEditsRenovacion(p).entries = p.members
    BY <1>2 DEF PanelEditsRenovacion, PanelEditsApertura
  <2>3. WizardEditsRenovacion(p).entries = WithoutValidator(p.members)
    BY <1>1 DEF WizardEditsRenovacion, WizardCreatesRenovacion
  <2> QED
    BY <1>1, <1>4, <2>1, <2>2, <2>3 DEF Edits
<1> QED
  BY <1>1, <1>3, <1>4

-----------------------------------------------------------------------------
(* What is checked stays true until it is stored: a handler that runs alone  *)
(* removes what it found, which is all there is.                             *)

\* An edit that was validated in full is about to store a list that passed.
AboutToPass(w) ==
    task[w].checked /\ task[w].outcome.replaces => Passed(type, task[w].outcome.entries)

\* The members an edit is about to remove are all there are.
FoundAll(w) ==
    task[w].pc = "commit" /\ task[w].outcome.replaces => task[w].found = members

CheckedInv ==
    /\ ListInv /\ CheckedAddsUp
    /\ \A w \in Workers : AboutToPass(w)
    /\ mode = "serial" => \A w \in Workers : FoundAll(w)

KeepsChecked ==
    /\ CheckedAddsUp'
    /\ \A w \in Workers : AboutToPass(w)'
    /\ mode' = "serial" => \A w \in Workers : FoundAll(w)'

LEMMA InitChecked == Init => CheckedInv
<1> SUFFICES ASSUME Init PROVE CheckedInv
  OBVIOUS
<1>1. ListInv
  BY InitList
<1>2. \A w \in Workers : task[w] = Idle
  BY DEF Init
<1>3. checked = FALSE
  BY DEF Init
<1> QED
  BY <1>1, <1>2, <1>3, IdleFields, IdleGood DEF CheckedInv, CheckedAddsUp, AboutToPass, FoundAll

LEMMA CheckedFacts ==
    ASSUME CheckedInv
    PROVE  /\ ListInv /\ TypeInv /\ task \in [Workers -> Task]
           /\ type \in AllTypes /\ members \in SUBSET Member /\ calls \in 0..MaxCalls
           /\ \A w \in Workers : task[w] \in Task /\ Good(task[w])
BY DEF CheckedInv, ListInv, TypeInv, TypeOK

\* A step of one handler that keeps the members, or is taken alone.
LEMMA StepChecked ==
    ASSUME CheckedInv, NEW w \in Workers, UNCHANGED <<type, mode>>,
           \A v \in Workers : v # w => task'[v] = task[v],
           members' = members
                \/ (mode = "serial" => \A v \in Workers : v # w => task[v].pc = "idle"),
           AboutToPass(w)', FoundAll(w)',
           UNCHANGED <<members, checked>> \/ CheckedAddsUp'
    PROVE  KeepsChecked
<1>1. CheckedAddsUp'
  BY DEF CheckedInv, CheckedAddsUp
<1>2. ASSUME NEW v \in Workers, v # w
      PROVE  AboutToPass(v)' /\ (mode' = "serial" => FoundAll(v)')
  BY <1>2 DEF CheckedInv, AboutToPass, FoundAll
<1> QED
  BY <1>1, <1>2 DEF KeepsChecked

LEMMA CreateChecked ==
    ASSUME CheckedInv, NEW w \in Workers, NEW op \in {"panel", "wizard"},
           NEW p \in Payloads, Create(w, op, p)
    PROVE  KeepsChecked
<1>1. UNCHANGED <<type, mode>> /\ request = "none" /\ MayStart(w)
  BY DEF Create, UnchangedRun
<1>2. \A v \in Workers : task[v].pc = "idle"
  BY <1>1, IdleGood DEF MayStart
<1>3. /\ \A v \in Workers : v # w => task'[v] = task[v]
      /\ AboutToPass(w)' /\ FoundAll(w)'
  BY CreateType, CheckedFacts DEF AboutToPass, FoundAll
<1>4. CheckedAddsUp'
  <2> SUFFICES ASSUME checked'
               PROVE  /\ Total(members') = 100
                      /\ type = "apertura-llc" => Cardinality(Validators(members')) <= 1
    BY <1>1 DEF CheckedAddsUp
  <2> DEFINE strict == p.submits
             entries == Creates(op, p).entries
  <2>1. strict \in BOOLEAN
    BY PayloadsAssumption DEF Payload
  <2>2. /\ Valid(p.section, p.llc, Sent(p), strict) /\ CheckedInFull(p, strict)
        /\ members' = Rows(entries, calls + 1)
    BY DEF Create
  <2>3. Sent(p) = p.members
    BY <2>2 DEF CheckedInFull, Sent
  <2>4. Passed(type, entries)
    BY <2>1, <2>2, <2>3, PassedCreated, CheckedFacts
  <2>5. calls + 1 \in Calls
    BY CheckedFacts, MaxCallsAssumption DEF Create, MayStart, Calls
  <2> HIDE DEF strict, entries
  <2> QED
    BY <2>2, <2>4, <2>5, PassedRows
<1> QED
  BY <1>1, <1>2, <1>3, <1>4, StepChecked

LEMMA BeginsChecked ==
    ASSUME CheckedInv, NEW w \in Workers, Begins(w)
    PROVE  KeepsChecked
<1>1. PICK t : /\ Enters(w, t)
               /\ t.checked /\ t.outcome.replaces => Passed(type, t.outcome.entries)
  <2>1. CASE \E p \in Payloads, op \in {"panel", "wizard"} : EditBegin(w, op, p)
    <3>1. PICK p \in Payloads, op \in {"panel", "wizard"} : EditBegin(w, op, p)
      BY <2>1
    <3> DEFINE strict == p.submits \/ request = "recibida"
    <3>2. PICK t : /\ Enters(w, t) /\ t.outcome = Edits(op, p)
                   /\ t.checked = CheckedInFull(p, strict)
      BY <3>1, EditEnters, CheckedFacts
    <3>3. ASSUME t.checked PROVE Passed(type, Edits(op, p).entries)
      <4>1. CheckedInFull(p, strict)
        BY <3>2, <3>3
      <4>2. Valid(p.section, LlcForValidation(p), ForValidation(p), strict)
        BY <3>1 DEF EditBegin
      <4>3. ForValidation(p) = p.members
        BY <4>1 DEF CheckedInFull, ForValidation
      <4>4. strict \in BOOLEAN
        BY PayloadsAssumption DEF Payload
      <4> HIDE DEF strict
      <4> QED
        BY <4>1, <4>2, <4>3, <4>4, PassedEdited, CheckedFacts
    <3> HIDE DEF strict
    <3> QED
      BY <3>2, <3>3
  <2>2. CASE (\E e \in Entries : AddBegin(w, e)) \/ DeleteBegin(w)
    <3>1. PICK t : Enters(w, t)
      BY <2>2, BeginsEnter, CheckedFacts
    <3>2. t.op \notin {"panel", "wizard"}
      <4>1. task'[w] = [t EXCEPT !.call = calls + 1]
        BY <3>1, BeginsEnter, EntersType, CheckedFacts
      <4>2. task'[w].op \in {"add", "delete"}
        <5>1. CASE \E e \in Entries : AddBegin(w, e)
          BY <5>1, IdleFields, CheckedFacts DEF AddBegin, Starts, Task
        <5>2. CASE DeleteBegin(w)
          BY <5>2, IdleFields, CheckedFacts DEF DeleteBegin, Starts, Task
        <5> QED
          BY <2>2, <5>1, <5>2
      <4> QED
        BY <3>1, <4>1, <4>2 DEF Enters, Task
    <3> QED
      BY <3>1, <3>2 DEF Enters
  <2>3. CASE \E e \in Entries, m \in members : ChangeBegin(w, m, e)
    <3>1. PICK t : Enters(w, t)
      BY <2>3, BeginsEnter, CheckedFacts
    <3>2. task'[w] = [t EXCEPT !.call = calls + 1]
      BY <3>1, BeginsEnter, EntersType, CheckedFacts
    <3>3. task'[w].op = "change"
      BY <2>3, IdleFields, CheckedFacts DEF ChangeBegin, Starts, Task
    <3> QED
      BY <3>1, <3>2, <3>3 DEF Enters, Task
  <2>4. CASE \E a \in Accounts : \E list \in MemberLists(a) : ImportBegin(w, a, list)
    <3>1. PICK t : Enters(w, t)
      BY <2>4, BeginsEnter, CheckedFacts
    <3>2. task'[w] = [t EXCEPT !.call = calls + 1]
      BY <3>1, BeginsEnter, EntersType, CheckedFacts
    <3>3. task'[w].op = "import"
      BY <2>4, IdleFields, CheckedFacts DEF ImportBegin, Starts, Task
    <3> QED
      BY <3>1, <3>2, <3>3 DEF Enters, Task
  <2> QED
    BY <2>1, <2>2, <2>3, <2>4 DEF Begins
<1>2. UNCHANGED <<type, mode, members, checked>>
  BY BeginsEnter, CheckedFacts DEF UnchangedData, UnchangedRun
<1> DEFINE s == [t EXCEPT !.call = calls + 1]
<1>3. task'[w] = s /\ \A v \in Workers : v # w => task'[v] = task[v]
  BY <1>1, BeginsEnter, EntersType, CheckedFacts
<1>4. s.pc # "commit" /\ s.checked = t.checked /\ s.outcome = t.outcome
  BY <1>1 DEF Enters, Task
<1> HIDE DEF s
<1>5. AboutToPass(w)' /\ FoundAll(w)'
  BY <1>1, <1>2, <1>3, <1>4 DEF AboutToPass, FoundAll
<1> QED
  BY <1>2, <1>3, <1>5, StepChecked

LEMMA StatementChecked ==
    ASSUME CheckedInv, NEW w \in Workers, Statement(w)
    PROVE  KeepsChecked
<1>1. PICK t : Goes(w, t)
  BY StatementGoes, CheckedFacts
<1>2. /\ UNCHANGED <<type, mode, members, checked>>
      /\ task'[w] = t /\ \A v \in Workers : v # w => task'[v] = task[v]
  BY <1>1, StatementGoes, GoesType, CheckedFacts DEF UnchangedData, UnchangedRun
<1>3. /\ t.outcome = task[w].outcome /\ t.checked = task[w].checked
      /\ t.pc = "commit" /\ t.outcome.replaces => t.found = members
  BY <1>1 DEF Goes, Same, NextPc
<1>4. AboutToPass(w)' /\ FoundAll(w)'
  BY <1>2, <1>3 DEF CheckedInv, AboutToPass, FoundAll
<1> QED
  BY <1>2, <1>4, StepChecked

LEMMA EditCommitChecked ==
    ASSUME CheckedInv, NEW w \in Workers, EditCommit(w)
    PROVE  KeepsChecked
<1> DEFINE entries == task[w].outcome.entries
           call == task[w].call
           kept == Others(members, task[w].found)
<1>1. /\ UNCHANGED <<type, mode>> /\ task[w].pc = "commit"
      /\ members' = IF task[w].outcome.replaces THEN kept \cup Rows(entries, call) ELSE members
      /\ checked' = IF task[w].outcome.replaces THEN task[w].checked ELSE checked
  BY DEF EditCommit, UnchangedRun
<1>2. CheckedAddsUp'
  <2> SUFFICES ASSUME mode = "serial", checked'
               PROVE  /\ Total(members') = 100
                      /\ type = "apertura-llc" => Cardinality(Validators(members')) <= 1
    BY <1>1 DEF CheckedAddsUp
  <2>1. CASE ~task[w].outcome.replaces
    BY <1>1, <2>1 DEF CheckedInv, CheckedAddsUp
  <2>2. CASE task[w].outcome.replaces
    <3>1. task[w].found = members
      BY <1>1, <2>2 DEF CheckedInv, FoundAll
    <3>2. kept = {}
      BY <3>1 DEF Others
    <3>3. task[w].checked /\ members' = Rows(entries, call)
      BY <1>1, <2>2, <3>2
    <3>4. Passed(type, entries)
      BY <2>2, <3>3 DEF CheckedInv, AboutToPass
    <3>5. call \in Calls
      BY <1>1, CheckedFacts, TaskFields DEF Good
    <3> HIDE DEF entries, call
    <3> QED
      BY <3>3, <3>4, <3>5, PassedRows
  <2> QED
    BY <2>1, <2>2
<1>3. /\ \A v \in Workers : v # w => task'[v] = task[v]
      /\ AboutToPass(w)' /\ FoundAll(w)'
  BY EditCommitType, CheckedFacts DEF AboutToPass, FoundAll
<1>4. mode = "serial" => \A v \in Workers : v # w => task[v].pc = "idle"
  BY <1>1, ActsAlone, CheckedFacts
<1> QED
  BY <1>1, <1>2, <1>3, <1>4, StepChecked

LEMMA ImportCommitChecked ==
    ASSUME CheckedInv, NEW w \in Workers, ImportCommit(w)
    PROVE  KeepsChecked
<1>1. UNCHANGED <<type, mode>> /\ checked' = FALSE /\ task[w].pc # "idle"
  BY DEF ImportCommit, UnchangedRun
<1>2. /\ \A v \in Workers : v # w => task'[v] = task[v]
      /\ task'[w].pc = "deals" /\ Same(task'[w], task[w])
  BY ImportCommitType, CheckedFacts
<1>3. CheckedAddsUp'
  BY <1>1 DEF CheckedAddsUp
<1>4. AboutToPass(w)' /\ FoundAll(w)'
  BY <1>1, <1>2 DEF CheckedInv, AboutToPass, FoundAll, Same
<1>5. mode = "serial" => \A v \in Workers : v # w => task[v].pc = "idle"
  BY <1>1, ActsAlone, CheckedFacts
<1> QED
  BY <1>1, <1>2, <1>3, <1>4, <1>5, StepChecked

LEMMA LastChecked ==
    ASSUME CheckedInv, NEW w \in Workers, Last(w)
    PROVE  KeepsChecked
<1>1. /\ task'[w] = Idle /\ task[w].pc # "idle" /\ UNCHANGED <<type, mode>>
      /\ \A v \in Workers : v # w => task'[v] = task[v]
  BY LastType, CheckedFacts DEF UnchangedRun
<1>2. AboutToPass(w)' /\ FoundAll(w)'
  BY <1>1, IdleFields, IdleGood DEF AboutToPass, FoundAll
<1>3. mode = "serial" => \A v \in Workers : v # w => task[v].pc = "idle"
  BY <1>1, ActsAlone, CheckedFacts
<1>4. ~checked' \/ UNCHANGED <<members, checked>>
  BY DEF Last, AddInsert, ChangeSave, ImportDeals, DeleteRow, MoveCommit, Throws, Victim,
         Crash, UnchangedData
<1>5. UNCHANGED <<members, checked>> \/ CheckedAddsUp'
  BY <1>4 DEF CheckedAddsUp
<1> QED
  BY <1>1, <1>2, <1>3, <1>5, StepChecked

LEMMA RemoveChecked ==
    ASSUME CheckedInv, NEW w \in Workers, NEW m \in members, RemoveMember(w, m)
    PROVE  KeepsChecked
<1>1. UNCHANGED <<type, mode, task>> /\ checked' = FALSE /\ MayStart(w)
  BY DEF RemoveMember, UnchangedRun
<1>2. CheckedAddsUp'
  BY <1>1 DEF CheckedAddsUp
<1>3. AboutToPass(w)' /\ FoundAll(w)'
  BY <1>1, IdleFields, IdleGood DEF MayStart, AboutToPass, FoundAll
<1>4. mode = "serial" => \A v \in Workers : v # w => task[v].pc = "idle"
  BY <1>1, ActsAlone, CheckedFacts
<1> QED
  BY <1>1, <1>2, <1>3, <1>4, StepChecked

LEMMA NextChecked == CheckedInv /\ [Next]_vars => CheckedInv'
<1> SUFFICES ASSUME CheckedInv, [Next]_vars PROVE CheckedInv'
  OBVIOUS
<1>1. ListInv'
  BY NextList DEF CheckedInv
<1>2. KeepsChecked
  <2>1. CASE UNCHANGED vars
    BY <2>1 DEF CheckedInv, KeepsChecked, CheckedAddsUp, AboutToPass, FoundAll, vars
  <2>2. ASSUME NEW w \in Workers, Begin(w) \/ Advance(w) \/ Crash(w) PROVE KeepsChecked
    BY <2>2, Steps, CreateChecked, BeginsChecked, RemoveChecked, StatementChecked,
       EditCommitChecked, ImportCommitChecked, LastChecked
  <2> QED
    BY <2>1, <2>2 DEF Next
<1> QED
  BY <1>1, <1>2 DEF CheckedInv, KeepsChecked

\* What was validated in full is what is stored, for lists of any length, when handlers
\* run one at a time: the percentages of a checked list add up to 100 and an apertura has
\* one validator at most, once the blank entries are dropped, the rows it replaces removed
\* and its files moved.
THEOREM CheckedAddsUpAlways == Spec => []CheckedAddsUp
<1>1. CheckedInv => CheckedAddsUp
  BY DEF CheckedInv
<1> QED
  BY <1>1, InitChecked, NextChecked, PTL DEF Spec
=============================================================================
