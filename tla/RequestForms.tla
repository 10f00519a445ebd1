----------------------------- MODULE RequestForms -----------------------------
(***************************************************************************)
(* The form of one request (apertura_llc_requests, renovacion_llc_requests *)
(* or cuenta_bancaria_requests) and its rows of `members`, as the panel,   *)
(* the public wizard, the member endpoints and the import from the CRM     *)
(* write them.  What a submission does to the request's own row is         *)
(* RequestLifecycle's; here that row is a state and a row lock.            *)
(*                                                                         *)
(* A form is taken up to two things: llc, the declared structure, and      *)
(* late, whether the data of the sections after the members (bank, taxes,  *)
(* owner's address) is stored.  A section is the number the client sends   *)
(* as currentStepNumber.  Percentages are whole, and a client that sends a *)
(* percentage under both of its names sends the same one.                  *)
(***************************************************************************)
EXTENDS Integers, FiniteSets, FiniteSetsExt

CONSTANTS
    Workers,   \* concurrent handler invocations
    People,    \* who a member is
    Types,     \* the types of request a model starts from
    Modes,     \* Modes[type]: how its handlers run
    Payloads,  \* the forms clients send
    Accounts,  \* the accounts the CRM hands out
    MaxCalls   \* bound: handler invocations

AllTypes == {"apertura-llc", "renovacion-llc", "cuenta-bancaria"}
\* serial: one at a time; locking: at the same time, every edit and import
\* changing a column of the request's row, and no files to move; files: the same
\* with files; free: at the same time.
Mode == {"serial", "locking", "files", "free"}
LlcType == {"none", "single", "multi"}
Percent == 0..100

\* One entry of a submitted list.  filled: a name, an e-mail or a passport was
\* typed; the frontends add blank entries that carry only a percentage.
Entry == [who: People, filled: BOOLEAN, pct: Percent, validatesBankAccount: BOOLEAN]

\* submits: it carries the payment or is the last section, so that it is
\* validated as a received request; sent: it has a list of members, maybe empty;
\* files: it names uploaded files that are not in the folder of the request yet.
Payload == [section: Nat, llc: LlcType, late: BOOLEAN, submits: BOOLEAN,
            sent: BOOLEAN, members: SUBSET Entry, files: BOOLEAN]

\* owners: the records of its Propietarios_LLC; contact and partners: the two
\* subforms; itself: the person the account's own fields describe, if any.
Account == [llc: LlcType \ {"none"}, late: BOOLEAN, owners: SUBSET Entry,
            contact: SUBSET Entry, partners: SUBSET Entry, itself: SUBSET Entry]

ASSUME TypesAssumption == Types \subseteq AllTypes
ASSUME ModesAssumption == Modes \in [Types -> SUBSET Mode]
ASSUME PayloadsAssumption == Payloads \subseteq Payload
ASSUME AccountsAssumption == Accounts \subseteq Account
\* A list is finite and has one entry for each of its members.
ASSUME ListsAssumption ==
    \A p \in Payloads :
        IsFiniteSet(p.members) /\ \A d, e \in p.members : d.who = e.who => d = e
ASSUME MaxCallsAssumption == MaxCalls \in Nat

Calls == 1..MaxCalls
Nobody == "nobody"
ASSUME NobodyAssumption == Nobody \notin Workers

Form == [llc: LlcType, late: BOOLEAN]
Blank == [llc |-> "none", late |-> FALSE]

\* by and who identify a row; list: it was inserted as part of a whole list.
Member == [by: Calls, who: People, pct: Percent, validatesBankAccount: BOOLEAN,
           list: BOOLEAN]

\* What a handler makes of a payload: whether it throws, what it adds to the
\* form, whether it replaces the members, and with which entries.
Outcome == [throws: BOOLEAN, llc: LlcType, late: BOOLEAN, replaces: BOOLEAN,
            entries: SUBSET Entry]

Nothing == [throws |-> FALSE, llc |-> "none", late |-> FALSE, replaces |-> FALSE,
            entries |-> {}]

Status == {"none", "pendiente", "recibida", "deleted"}
Pc == {"idle", "save", "form", "find", "commit", "insert",
       "importForm", "alter", "members", "deals",
       "moved", "moveForm", "moveFind", "moveCommit",
       "delete", "deleteForm", "deleteRow"}
Op == {"none", "panel", "wizard", "add", "change", "import", "delete"}

\* Locks on the children of a request: its form, rows of its members, and the
\* whole table of members.  A transaction that writes rows of members keeps
\* others from locking the table.
ChildLock == {"form", "rows", "table"}

\* status: what the handler will store in the request; outcome: what it will do
\* to the form and the members; checked: the list was validated in full; seen:
\* the form it read; found: the members it read; files: it may have some to move;
\* holds: its locks on children.
Task == [pc: Pc, op: Op, call: Calls \cup {0}, status: Status, outcome: Outcome,
         checked: BOOLEAN, seen: Form, found: SUBSET Member, files: BOOLEAN,
         holds: SUBSET ChildLock]

Idle == [pc |-> "idle", op |-> "none", call |-> 0, status |-> "none",
         outcome |-> Nothing, checked |-> FALSE, seen |-> Blank, found |-> {},
         files |-> FALSE, holds |-> {}]

VARIABLES
    type,     \* type of the request
    mode,     \* how handlers of this request run
    request,  \* status of its row
    form,     \* its form
    members,  \* its rows of members
    lock,     \* the transaction that holds the lock of the request's row
    checked,  \* the stored list was validated in full, and is as it was stored
    task,
    calls

vars == <<type, mode, request, form, members, lock, checked, task, calls>>

TypeOK ==
    /\ type \in AllTypes
    /\ mode \in Mode
    /\ request \in Status
    /\ form \in Form
    /\ members \subseteq Member
    /\ lock \in Workers \cup {Nobody}
    /\ checked \in BOOLEAN
    /\ task \in [Workers -> Task]
    /\ calls \in 0..MaxCalls

Init ==
    /\ type \in Types
    /\ mode \in Modes[type]
    /\ request = "none"
    /\ form = Blank
    /\ members = {}
    /\ lock = Nobody
    /\ checked = FALSE
    /\ task = [w \in Workers |-> Idle]
    /\ calls = 0

-----------------------------------------------------------------------------
(* validateRequestData *)

Total(entries) == MapThenSumSet(LAMBDA e : e.pct, entries)
Validators(entries) == {e \in entries : e.validatesBankAccount}

CountMatches(llc, entries) ==
    /\ llc = "single" => Cardinality(entries) = 1
    /\ llc = "multi" => Cardinality(entries) >= 2

\* Deliberately wrong: blank entries pass in a received request too.
AperturaValidBlank(llc, entries, strict) ==
    /\ entries # {}
    /\ CountMatches(llc, entries)
    /\ Total(entries) = 100
    /\ Cardinality(Validators(entries)) <= 1

\* Section 2 of an apertura: entries may be blank while the request is a draft.
AperturaValid(llc, entries, strict) ==
    /\ entries # {}
    /\ CountMatches(llc, entries)
    /\ strict => \A e \in entries : e.filled
    /\ Total(entries) = 100
    /\ Cardinality(Validators(entries)) <= 1

\* Section 2 of a renovacion: owners are validated in full, draft or not.
RenovacionValid(llc, entries) ==
    /\ entries # {}
    /\ CountMatches(llc, entries)
    /\ \A e \in entries : e.filled
    /\ Total(entries) = 100

\* The sections whose list is looked at.  Section 6 of a cuenta has no rules of
\* its own, so that validateRequestData returns before it comes to the owners.
ListSections == IF type = "cuenta-bancaria" THEN {} ELSE {2}

\* Only the section sent is validated.
Valid(section, llc, entries, strict) ==
    section \in ListSections =>
        IF type = "apertura-llc" THEN AperturaValid(llc, entries, strict)
        ELSE RenovacionValid(llc, entries)

\* The rules above were applied to what is going to be stored.
CheckedInFull(p, strict) ==
    /\ p.section \in ListSections
    /\ p.sent /\ p.members # {}
    /\ type = "apertura-llc" => strict

Sent(p) == IF p.sent THEN p.members ELSE {}

\* A stored member as an entry: what an edit that sends no list is validated by.
AsEntry(m) == [who |-> m.who, filled |-> TRUE, pct |-> m.pct,
               validatesBankAccount |-> m.validatesBankAccount]

\* getServiceDataForValidation: the payload over what is stored; only an
\* apertura falls back on the members stored.
ForValidation(p) ==
    IF p.sent THEN p.members
    ELSE IF type = "apertura-llc" THEN {AsEntry(m) : m \in members} ELSE {}

LlcForValidation(p) == IF p.llc # "none" THEN p.llc ELSE form.llc

-----------------------------------------------------------------------------
(* What each handler stores of a payload *)

Filled(entries) == {e \in entries : e.filled}
WithoutValidator(entries) == {[e EXCEPT !.validatesBankAccount = FALSE] : e \in entries}
TwoValidators(entries) == Cardinality(Validators(Filled(entries))) > 1

\* create, apertura-llc: members from section 2 on; the count is checked again
\* from section 6 on.
PanelCreatesApertura(p) ==
    LET list == IF p.section >= 2 THEN Sent(p) ELSE {}
    IN [throws |-> (p.section >= 6 /\ ~CountMatches(p.llc, Sent(p))) \/ TwoValidators(list),
        llc |-> p.llc, late |-> p.late, replaces |-> FALSE, entries |-> Filled(list)]

\* create, renovacion-llc: the count is checked from section 2 on.
PanelCreatesRenovacion(p) ==
    [throws |-> p.section >= 2 /\ ~CountMatches(p.llc, Sent(p)),
     llc |-> p.llc, late |-> p.late, replaces |-> FALSE,
     entries |-> IF p.section >= 2 THEN Filled(Sent(p)) ELSE {}]

\* create, cuenta-bancaria: the address from section 4, the structure from 5.
PanelCreatesCuentaForm(p) ==
    [Nothing EXCEPT !.llc = IF p.section >= 5 THEN p.llc ELSE "none",
                    !.late = p.late /\ p.section >= 4]

PanelCreatesCuenta(p) ==
    [PanelCreatesCuentaForm(p) EXCEPT !.entries = Filled(Sent(p))]

\* update, apertura-llc.
PanelEditsApertura(p) ==
    LET replaces == p.section >= 2 /\ Sent(p) # {}
    IN [throws |-> replaces /\ TwoValidators(Sent(p)),
        llc |-> p.llc, late |-> p.late,
        replaces |-> replaces, entries |-> IF replaces THEN Filled(Sent(p)) ELSE {}]

\* update, renovacion-llc: nobody counts the validators.
PanelEditsRenovacion(p) == [PanelEditsApertura(p) EXCEPT !.throws = FALSE]

\* update, cuenta-bancaria, the form.
PanelEditsCuentaLate(p) == p.late /\ p.section >= 4
PanelEditsCuentaForm(p) ==
    [Nothing EXCEPT !.llc = IF p.section >= 5 THEN p.llc ELSE "none",
                    !.late = PanelEditsCuentaLate(p)]

\* update, cuenta-bancaria: whatever the section, owners replace the members,
\* and none of them is the validator.
PanelEditsCuenta(p) ==
    [PanelEditsCuentaForm(p) EXCEPT
        !.replaces = Sent(p) # {}, !.entries = WithoutValidator(Filled(Sent(p)))]

\* Wizard, apertura-llc, created: the bank section only once it is reached.
WizardCreatesApertura(p) ==
    [throws |-> TwoValidators(Sent(p)), llc |-> p.llc,
     late |-> p.late /\ p.section >= 3, replaces |-> FALSE, entries |-> Filled(Sent(p))]

WizardCreatesRenovacion(p) ==
    [throws |-> FALSE, llc |-> p.llc, late |-> p.late /\ p.section >= 5,
     replaces |-> FALSE, entries |-> WithoutValidator(Filled(Sent(p)))]

WizardCreatesCuentaLate(p) == p.late /\ p.section >= 4
WizardCreatesCuentaForm(p) ==
    [Nothing EXCEPT !.llc = IF p.section >= 5 THEN p.llc ELSE "none",
                    !.late = WizardCreatesCuentaLate(p)]

WizardCreatesCuenta(p) ==
    [WizardCreatesCuentaForm(p) EXCEPT !.entries = WithoutValidator(Filled(Sent(p)))]

\* Wizard, apertura-llc, edited: bank data that is sent is kept at any section.
WizardEditsApertura(p) ==
    [throws |-> TwoValidators(Sent(p)), llc |-> p.llc, late |-> p.late,
     replaces |-> Sent(p) # {}, entries |-> Filled(Sent(p))]

WizardEditsRenovacion(p) == [WizardCreatesRenovacion(p) EXCEPT !.replaces = Sent(p) # {}]

WizardEditsCuentaLate(p) == p.late /\ p.section >= 4
WizardEditsCuentaForm(p) ==
    [Nothing EXCEPT !.llc = IF p.section >= 5 THEN p.llc ELSE "none",
                    !.late = WizardEditsCuentaLate(p)]

WizardEditsCuenta(p) ==
    [WizardEditsCuentaForm(p) EXCEPT
        !.replaces = Sent(p) # {}, !.entries = WithoutValidator(Filled(Sent(p)))]

Creates(op, p) ==
    CASE type = "apertura-llc" ->
            IF op = "panel" THEN PanelCreatesApertura(p) ELSE WizardCreatesApertura(p)
      [] type = "renovacion-llc" ->
            IF op = "panel" THEN PanelCreatesRenovacion(p) ELSE WizardCreatesRenovacion(p)
      [] type = "cuenta-bancaria" ->
            IF op = "panel" THEN PanelCreatesCuenta(p) ELSE WizardCreatesCuenta(p)

Edits(op, p) ==
    CASE type = "apertura-llc" ->
            IF op = "panel" THEN PanelEditsApertura(p) ELSE WizardEditsApertura(p)
      [] type = "renovacion-llc" ->
            IF op = "panel" THEN PanelEditsRenovacion(p) ELSE WizardEditsRenovacion(p)
      [] type = "cuenta-bancaria" ->
            IF op = "panel" THEN PanelEditsCuenta(p) ELSE WizardEditsCuenta(p)

\* The import: the bank section of an apertura is always answered, with "no"
\* when the CRM has nothing; the other forms get what the account has.
ImportsApertura(a) == [Nothing EXCEPT !.llc = a.llc, !.late = TRUE]
ImportsRenovacion(a) == [Nothing EXCEPT !.llc = a.llc, !.late = a.late]
ImportsCuenta(a) == [Nothing EXCEPT !.llc = a.llc, !.late = a.late]

Imports(a) ==
    CASE type = "apertura-llc" -> ImportsApertura(a)
      [] type = "renovacion-llc" -> ImportsRenovacion(a)
      [] type = "cuenta-bancaria" -> ImportsCuenta(a)

\* The owners, and, when there are none or asking for them fails, the subforms.
OwnerMembers(a) == WithoutValidator(a.owners)
ContactMembers(a) ==
    WithoutValidator(IF a.contact = {} /\ type = "cuenta-bancaria" THEN a.itself ELSE a.contact)
PartnerMembers(a) == WithoutValidator(a.partners)
MemberLists(a) ==
    ({OwnerMembers(a)} \ {{}}) \cup {ContactMembers(a) \cup PartnerMembers(a)}

Rows(entries, call) ==
    {[by |-> call, who |-> e.who, pct |-> e.pct,
      validatesBankAccount |-> e.validatesBankAccount, list |-> TRUE] : e \in entries}

\* Deliberately wrong: a section that was not sent is stored as empty.
FillingAll(f, outcome) == [llc |-> outcome.llc, late |-> outcome.late]

\* An absent or invalid structure, and a section that was not sent, leave what
\* the form had.
Filling(f, outcome) ==
    [llc |-> IF outcome.llc # "none" THEN outcome.llc ELSE f.llc,
     late |-> f.late \/ outcome.late]

-----------------------------------------------------------------------------
Stored == request \in {"pendiente", "recibida"}

\* (What is created while another handler creates this request is another one.)
MayStart(w) ==
    /\ task[w] = Idle
    /\ calls < MaxCalls
    /\ mode = "serial" \/ request = "none" => \A o \in Workers : task[o] = Idle

Starts(w, t) ==
    /\ MayStart(w)
    /\ calls' = calls + 1
    /\ task' = [task EXCEPT ![w] = [t EXCEPT !.call = calls + 1]]

Goto(w, pc) == task' = [task EXCEPT ![w].pc = pc]
Ends(w) == task' = [task EXCEPT ![w] = Idle]
Unlocked(w) == IF lock = w THEN Nobody ELSE lock

UnchangedRun == UNCHANGED <<type, mode>>
UnchangedData == UNCHANGED <<request, form, members, checked>>

\* save(Request) changes a column of the row, or inserts it again.
Writes(w) == mode \in {"locking", "files"} \/ request # task[w].status

\* save(Request) saves the form loaded with the request as well: it writes the
\* columns that differ by now.
Cascades(w) == task[w].seen # form

\* The locks that the next statement of w asks for; "insert": into members.
Needs(w) ==
    LET t == task[w]
    IN CASE t.pc = "save" -> IF Writes(w) THEN {"request"} ELSE {}
         [] t.pc = "form" -> IF t.op = "panel" \/ Cascades(w) THEN {"form"} ELSE {}
         [] t.pc = "find" -> IF t.op = "wizard" THEN {"rows"} ELSE {}
         [] t.pc = "commit" -> IF t.op = "wizard" THEN {"form"}
                               ELSE IF t.outcome.replaces THEN {"rows"} ELSE {}
         [] t.pc = "insert" -> IF t.op = "change" THEN {"rows"} ELSE {"insert"}
         [] t.pc \in {"importForm", "moveForm", "deleteForm"} -> {"form"}
         [] t.pc = "alter" -> {"table"}
         [] t.pc = "deals" -> {"request", "form"}
         [] t.pc = "moveCommit" -> IF t.found # {} THEN {"rows"} ELSE {}
         [] t.pc = "delete" -> {"rows"}
         [] t.pc = "deleteRow" -> {"request"}
         [] OTHER -> {}

\* The rows of members it removes or changes.
Touches(w) == IF task[w].pc \in {"find", "delete"} THEN members ELSE task[w].found

\* o holds a lock that w waits for.  Only those who touch the same rows wait for
\* one another.
Blocks(o, w) ==
    /\ o # w
    /\ \/ "request" \in Needs(w) /\ lock = o
       \/ "form" \in Needs(w) /\ "form" \in task[o].holds
       \/ Needs(w) \cap {"insert", "rows", "table"} # {} /\ "table" \in task[o].holds
       \/ "table" \in Needs(w) /\ "rows" \in task[o].holds
       \/ /\ "rows" \in Needs(w) /\ "rows" \in task[o].holds
          /\ Touches(w) \cap task[o].found # {}

Free(w) == \A o \in Workers : ~Blocks(o, w)

\* One statement on a member outside of any transaction.
RowFree(m) ==
    \A o \in Workers :
        "table" \notin task[o].holds /\ ("rows" \in task[o].holds => m \notin task[o].found)

\* The files of a submission to the panel are moved once it is committed.  (In
\* mode locking there are none.)
HasFiles(p) == p.files => mode # "locking"
MovesFiles(op, p) == op = "panel" /\ p.files

\* Once committed: moveFilesToRequestFolder may find nothing to move, or fail.
Committed(w, moves, call) ==
    \/ Ends(w)
    \/ /\ moves
       /\ task' = [task EXCEPT ![w] =
                      [Idle EXCEPT !.pc = "moved", !.op = "panel", !.call = call]]

\* Creation: one transaction nobody else can see.
Create(w, op, p) ==
    LET outcome == Creates(op, p)
        strict == p.submits
    IN /\ request = "none" /\ MayStart(w) /\ HasFiles(p)
       /\ Valid(p.section, p.llc, Sent(p), strict)
       /\ ~outcome.throws
       /\ request' = IF strict THEN "recibida" ELSE "pendiente"
       /\ form' = Filling(Blank, outcome)
       /\ members' = Rows(outcome.entries, calls + 1)
       /\ checked' = (CheckedInFull(p, strict) /\ outcome.entries # {})
       /\ calls' = calls + 1
       /\ Committed(w, MovesFiles(op, p), calls + 1)
       /\ UNCHANGED lock /\ UnchangedRun

\* Edition: the request is read with its form, and the payload validated against
\* them.
EditBegin(w, op, p) ==
    LET strict == p.submits \/ request = "recibida"
    IN /\ Stored /\ HasFiles(p)
       /\ Valid(p.section, LlcForValidation(p), ForValidation(p), strict)
       /\ Starts(w, [Idle EXCEPT !.pc = "save", !.op = op, !.seen = form,
                        !.status = IF strict THEN "recibida" ELSE "pendiente",
                        !.outcome = Edits(op, p), !.files = MovesFiles(op, p),
                        !.checked = CheckedInFull(p, strict)])
       /\ UNCHANGED lock /\ UnchangedData /\ UnchangedRun

\* Deliberately wrong: the row is not locked.
EditSaveUnlocked(w) ==
    /\ task[w].pc = "save" /\ task[w].op \in {"panel", "wizard"}
    /\ Goto(w, "form")
    /\ UNCHANGED <<lock, calls>> /\ UnchangedData /\ UnchangedRun

\* The request is saved: if a column changed, or the row is gone and is
\* inserted again, its lock is held until the transaction ends.
EditSave(w) ==
    /\ task[w].pc = "save" /\ task[w].op \in {"panel", "wizard"} /\ Free(w)
    /\ lock' = IF Writes(w) THEN w ELSE lock
    /\ Goto(w, "form")
    /\ UNCHANGED calls /\ UnchangedData /\ UnchangedRun

\* The form follows by cascade.  The panel reads it again in its transaction,
\* and so as it has just saved it, and saves it; the wizard reads the committed
\* form and saves it when it is done with the members.
EditForm(w) ==
    LET t == task[w]
    IN /\ t.pc = "form" /\ Free(w)
       /\ task' = [task EXCEPT
             ![w].seen = IF t.op = "panel" THEN t.seen ELSE form,
             ![w].holds = IF t.op = "panel" \/ Cascades(w) THEN {"form"} ELSE {},
             ![w].pc = IF t.outcome.replaces THEN "find" ELSE "commit"]
       /\ UNCHANGED <<lock, calls>> /\ UnchangedData /\ UnchangedRun

\* The members to replace: the panel reads them outside its transaction, the
\* wizard's DELETE when it starts.
EditFind(w) ==
    /\ task[w].pc = "find" /\ Free(w)
    /\ task' = [task EXCEPT ![w].found = members, ![w].pc = "commit",
                            ![w].holds = IF task[w].op = "wizard" THEN @ \cup {"rows"} ELSE @]
    /\ UNCHANGED <<lock, calls>> /\ UnchangedData /\ UnchangedRun

\* The rows of list that are none of found.
Others(list, found) == {m \in list : \A f \in found : f.by # m.by \/ f.who # m.who}

\* The edit commits.  Rows are removed by id, those already gone without notice.
EditCommit(w) ==
    LET t == task[w]
    IN /\ t.pc = "commit" /\ ~t.outcome.throws /\ Free(w)
       /\ request # "deleted" \/ lock = w
       /\ request' = IF lock = w THEN t.status ELSE request
       /\ form' = Filling(t.seen, t.outcome)
       /\ members' = IF t.outcome.replaces
                     THEN Others(members, t.found) \cup Rows(t.outcome.entries, t.call)
                     ELSE members
       /\ checked' = IF t.outcome.replaces THEN t.checked ELSE checked
       /\ lock' = Unlocked(w)
       /\ Committed(w, t.files, t.call)
       /\ UNCHANGED calls /\ UnchangedRun

\* updateFileUrlsAfterMove reads the request with its form, in no transaction,
\* and saves the form if it names a moved file.
MoveRead(w) ==
    /\ task[w].pc = "moved" /\ request # "deleted"
    /\ \E pc \in {"moveForm", "moveFind"} :
          task' = [task EXCEPT ![w].pc = pc, ![w].seen = form]
    /\ UNCHANGED <<lock, calls>> /\ UnchangedData /\ UnchangedRun

\* It reads the members, in no transaction either; found: those that name one.
MoveFind(w) ==
    /\ task[w].pc \in {"moveForm", "moveFind"} /\ Free(w)
    /\ task[w].pc = "moveForm" => request # "deleted"
    /\ \E named \in SUBSET members :
          task' = [task EXCEPT ![w].pc = "moveCommit", ![w].found = named,
                               ![w].holds = Needs(w)]
    /\ UNCHANGED <<lock, calls>> /\ UnchangedData /\ UnchangedRun

\* Form and members are stored as they were read: what others have stored in
\* between is overwritten, and members that are gone are inserted again.
MoveCommit(w) ==
    LET t == task[w]
    IN /\ t.pc = "moveCommit" /\ Free(w)
       /\ request = "deleted" => t.found = {} /\ t.holds = {}
       /\ form' = IF "form" \in t.holds THEN t.seen ELSE form
       /\ members' = Others(members, t.found) \cup t.found
       /\ checked' = (checked /\ members' = members)
       /\ Ends(w)
       /\ UNCHANGED <<request, lock, calls>> /\ UnchangedRun

\* createMember: the other validator is looked for outside the transaction.
AddBegin(w, e) ==
    /\ Stored
    /\ e.validatesBankAccount => Validators(members) = {}
    /\ Starts(w, [Idle EXCEPT !.pc = "insert", !.op = "add",
                             !.outcome = [Nothing EXCEPT !.entries = {e}]])
    /\ UNCHANGED lock /\ UnchangedData /\ UnchangedRun

AddInsert(w) ==
    /\ task[w].op = "add" /\ Free(w) /\ request # "deleted"
    /\ members' = members \cup
          {[m EXCEPT !.list = FALSE] : m \in Rows(task[w].outcome.entries, task[w].call)}
    /\ checked' = FALSE
    /\ Ends(w)
    /\ UNCHANGED <<request, form, lock, calls>> /\ UnchangedRun

\* updateMember: the search for another validator asks for the member's own id,
\* which is not one yet, and never finds any.
ChangeBegin(w, m, e) ==
    /\ Stored /\ m \in members /\ e.who = m.who
    /\ Starts(w, [Idle EXCEPT !.pc = "insert", !.op = "change", !.found = {m},
                             !.outcome = [Nothing EXCEPT !.entries = {e}]])
    /\ UNCHANGED lock /\ UnchangedData /\ UnchangedRun

\* The member is saved as it was read: inserted again if it is gone.
ChangeSave(w) ==
    LET old == CHOOSE m \in task[w].found : TRUE
        new == CHOOSE e \in task[w].outcome.entries : TRUE
        same == {m \in members : m.by = old.by /\ m.who = old.who}
    IN /\ task[w].op = "change" /\ Free(w) /\ request # "deleted"
       /\ members' = (members \ same) \cup
             {[old EXCEPT !.pct = new.pct,
                          !.validatesBankAccount = new.validatesBankAccount,
                          !.list = \E m \in same : m.list]}
       /\ checked' = FALSE
       /\ Ends(w)
       /\ UNCHANGED <<request, form, lock, calls>> /\ UnchangedRun

\* deleteMember.
RemoveMember(w, m) ==
    /\ Stored /\ m \in members /\ MayStart(w) /\ RowFree(m)
    /\ members' = members \ {m}
    /\ checked' = FALSE
    /\ calls' = calls + 1
    /\ UNCHANGED <<request, form, lock, task>> /\ UnchangedRun

\* importAccountToRequest: the request and its form are read first.
ImportBegin(w, a, list) ==
    /\ request # "deleted"
    /\ Starts(w, [Idle EXCEPT !.pc = "save", !.op = "import", !.seen = form,
                             !.status = IF request = "pendiente" THEN request ELSE "recibida",
                             !.outcome = [Imports(a) EXCEPT !.entries = list]])
    /\ UNCHANGED lock /\ UnchangedData /\ UnchangedRun

ImportSave(w) ==
    /\ task[w].pc = "save" /\ task[w].op = "import" /\ Free(w)
    /\ lock' = IF Writes(w) THEN w ELSE lock
    /\ Goto(w, "importForm")
    /\ UNCHANGED calls /\ UnchangedData /\ UnchangedRun

\* The form it read is filled and saved.
ImportForm(w) ==
    /\ task[w].pc = "importForm" /\ Free(w)
    /\ task' = [task EXCEPT ![w].pc = "alter", ![w].holds = {"form"}]
    /\ UNCHANGED <<lock, calls>> /\ UnchangedData /\ UnchangedRun

\* processMembersFromAccount disables the triggers, which locks the table, and
\* deletes the members; it then asks the CRM for the owners.
ImportAlter(w) ==
    /\ task[w].pc = "alter" /\ Free(w)
    /\ task' = [task EXCEPT ![w].pc = "members", ![w].holds = @ \cup {"table"}]
    /\ UNCHANGED <<lock, calls>> /\ UnchangedData /\ UnchangedRun

ImportCommit(w) ==
    LET t == task[w]
    IN /\ t.pc = "members"
       /\ request # "deleted" \/ lock = w
       /\ request' = IF lock = w THEN t.status ELSE request
       /\ form' = Filling(t.seen, t.outcome)
       /\ members' = Rows(t.outcome.entries, t.call)
       /\ checked' = FALSE
       /\ lock' = Unlocked(w)
       /\ task' = [task EXCEPT ![w].pc = "deals", ![w].holds = {}, ![w].seen = form']
       /\ UNCHANGED calls /\ UnchangedRun

\* updateRequestStatusFromDeals, after the commit: if the CRM has news of the
\* deal, the request and by cascade its form are saved again as the import has
\* them; errors are only logged.
ImportDeals(w) ==
    LET t == task[w]
    IN /\ t.pc = "deals"
       /\ \/ /\ Free(w)
             /\ request' = IF request = "deleted" THEN t.status ELSE request
             /\ form' = t.seen
          \/ UNCHANGED <<request, form>>
       /\ Ends(w)
       /\ UNCHANGED <<members, checked, lock, calls>> /\ UnchangedRun

\* delete: the members are removed first, then the form, then the row.
DeleteBegin(w) ==
    /\ Stored
    /\ Starts(w, [Idle EXCEPT !.pc = "delete", !.op = "delete"])
    /\ UNCHANGED lock /\ UnchangedData /\ UnchangedRun

DeleteMembers(w) ==
    /\ task[w].pc = "delete" /\ Free(w)
    /\ task' = [task EXCEPT ![w].pc = "deleteForm", ![w].holds = {"rows"},
                            ![w].found = members]
    /\ UNCHANGED <<lock, calls>> /\ UnchangedData /\ UnchangedRun

DeleteForm(w) ==
    /\ task[w].pc = "deleteForm" /\ Free(w)
    /\ task' = [task EXCEPT ![w].pc = "deleteRow", ![w].holds = {"rows", "form"}]
    /\ UNCHANGED <<lock, calls>> /\ UnchangedData /\ UnchangedRun

\* Members inserted meanwhile go by the cascade of their foreign key.
DeleteRow(w) ==
    /\ task[w].pc = "deleteRow" /\ Free(w) /\ request # "deleted"
    /\ request' = "deleted" /\ form' = Blank /\ members' = {} /\ checked' = FALSE
    /\ Ends(w)
    /\ UNCHANGED <<lock, calls>> /\ UnchangedRun

\* Two validators, a request that is gone, or a foreign key to one.
Doomed(w) ==
    LET t == task[w]
    IN \/ t.pc = "commit" /\ t.outcome.throws
       \/ t.pc \in {"commit", "insert", "members"} /\ request = "deleted" /\ lock # w
       \/ t.pc \in {"moved", "moveForm", "deleteRow"} /\ request = "deleted"
       \/ /\ t.pc = "moveCommit" /\ request = "deleted"
          /\ t.found # {} \/ t.holds # {}

\* Deliberately wrong: the transaction is not rolled back.
ThrowsOpen(w) ==
    /\ Doomed(w)
    /\ Ends(w)
    /\ UNCHANGED <<lock, calls>> /\ UnchangedData /\ UnchangedRun

\* The transaction is rolled back.
Throws(w) ==
    /\ Doomed(w)
    /\ lock' = Unlocked(w)
    /\ Ends(w)
    /\ UNCHANGED calls /\ UnchangedData /\ UnchangedRun

\* Each of these waits for another of them.
Deadlocked(ws) == ws # {} /\ \A w \in ws : \E o \in ws : Blocks(o, w)

\* PostgreSQL finds the circle and rolls one of the transactions back.
Victim(w) ==
    /\ \E ws \in SUBSET Workers :
          /\ w \in ws /\ Deadlocked(ws)
          /\ \A fewer \in SUBSET ws : Deadlocked(fewer) => fewer = ws
    /\ lock' = Unlocked(w)
    /\ Ends(w)
    /\ UNCHANGED calls /\ UnchangedData /\ UnchangedRun

\* Any query may fail, and the process may stop: the transaction is undone.
Crash(w) ==
    /\ task[w] # Idle
    /\ lock' = Unlocked(w)
    /\ Ends(w)
    /\ UNCHANGED calls /\ UnchangedData /\ UnchangedRun

Advance(w) ==
    \/ EditSave(w) \/ EditForm(w) \/ EditFind(w) \/ EditCommit(w)
    \/ MoveRead(w) \/ MoveFind(w) \/ MoveCommit(w)
    \/ AddInsert(w) \/ ChangeSave(w)
    \/ ImportSave(w) \/ ImportForm(w) \/ ImportAlter(w) \/ ImportCommit(w) \/ ImportDeals(w)
    \/ DeleteMembers(w) \/ DeleteForm(w) \/ DeleteRow(w)
    \/ Throws(w) \/ Victim(w)

Entries == UNION {Filled(Sent(p)) : p \in Payloads}

Begin(w) ==
    \/ \E p \in Payloads, op \in {"panel", "wizard"} : Create(w, op, p) \/ EditBegin(w, op, p)
    \/ \E e \in Entries : AddBegin(w, e) \/ \E m \in members : ChangeBegin(w, m, e)
    \/ \E m \in members : RemoveMember(w, m)
    \/ \E a \in Accounts : \E list \in MemberLists(a) : ImportBegin(w, a, list)
    \/ DeleteBegin(w)

Next == \E w \in Workers : Begin(w) \/ Advance(w) \/ Crash(w)

\* The server and the database go on with what was started; nothing forces a
\* client to call, nor a query to fail.
Spec == Init /\ [][Next]_vars /\ \A w \in Workers : WF_vars(Advance(w))

-----------------------------------------------------------------------------
Serialised == mode \in {"serial", "locking"}

\* A list is replaced as a whole: as long as handlers run one at a time, or
\* every edit takes the lock of the request's row and none moves files, the
\* members that came in lists come from one and the same submission, whatever
\* fails half-way.
OneList ==
    Serialised => \A m, n \in members : m.list /\ n.list => m.by = n.by

\* What was validated is what is stored: the percentages of a list that was
\* checked in full add up to 100, and at most one member of an apertura
\* validates the bank account, once blank entries have been dropped.
CheckedAddsUp ==
    mode = "serial" /\ checked =>
        /\ Total(members) = 100
        /\ type = "apertura-llc" => Cardinality(Validators(members)) <= 1

\* Data of the later sections, once stored, is not lost by going back to an
\* earlier one, nor to files that are moved: only to the request's deletion, and,
\* where handlers overlap, to an edit of the panel or an import that had read the
\* form before the data came.  An edit of the wizard, which reads the form under
\* the lock of the row, keeps it.
LateKept ==
    [][(Serialised /\ form.late /\ ~form'.late) =>
          \/ request' = "deleted"
          \/ /\ mode = "locking"
             /\ \E w \in Workers : /\ task'[w] # task[w] /\ ~task[w].seen.late
                                   /\ task[w].op \in {"panel", "import"}]_vars

\* No handler waits for ever: what is locked is given back, and where deletions,
\* edits, imports and moved files take the same locks in different orders, one of
\* them is rolled back and the others go on.
HandlersEnd == \A w \in Workers : []<>(task[w] = Idle)

\* "Eliminar miembros existentes para reemplazarlos con los nuevos": where files
\* are moved, members that another submission has replaced come back.
ReplacedStayGone ==
    mode = "files" => \A m, n \in members : m.list /\ n.list => m.by = n.by

\* "No sobrescribir datos existentes si no vienen en el payload": an edit of the
\* panel saves the form it read before another edit stored the data.
AbsentIsKept ==
    [][(mode = "locking" /\ form.late /\ ~form'.late) => request' = "deleted"]_vars
=============================================================================
