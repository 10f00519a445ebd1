---------------------------- MODULE Classification ----------------------------
(***************************************************************************)
(* How the movements of one client's bank accounts get their account code: *)
(* AccountingService.patchTransaction (a person codes a movement or clears *)
(* its code), bulkApplySuggestedCategories (the engine of                  *)
(* AccountingClassificationService over all movements without a code),     *)
(* approve, reject and approve-all of what the engine only suggests, the   *)
(* rules a decision leaves behind, the account catalogue and the profit    *)
(* and loss computed from the codes.                                       *)
(*                                                                         *)
(* No handler opens a transaction. One that changes a movement writes the  *)
(* whole row it read: for a bulk run, the row as it was when the run       *)
(* listed it, before the calls to the model of Gemini.                     *)
(***************************************************************************)
EXTENDS Integers, Sequences, FiniteSets, FiniteSetsExt

CONSTANTS
    Workers,    \* concurrent handler invocations
    Worlds,     \* "serial": one handler at a time; "overlap": two may run
    Txs,        \* movements, in the client's one account
    Codes,      \* account codes
    Locked,     \* the codes of the plan: neither created nor deleted
    Type,       \* Type[c]: "income", "expense" or "other"
    Numeric4,   \* codes whose digits start with 4
    Modern,     \* Modern[c]: the code an older one stands for, or NoCode
    Payees,     \* payee keys of three letters or more
    Movement,   \* Movement[t]: what the bank said, and what the tables say of it
    Earlier,    \* movements an earlier run or migration may have touched
    Calls,      \* Calls[world]: bound on handler invocations, crashes included
    MaxAi       \* AI_BULK_MAX_PER_REQUEST

NoCode == "none"
NoPayee == "none"
Interco == "INTERCO"
Sales == "SALES"
Maybe == Codes \cup {NoCode}

ASSUME CodesAssumption ==
    /\ Interco \in Locked /\ Sales \in Locked /\ Locked \subseteq Codes
    /\ NoCode \notin Codes /\ NoPayee \notin Payees
    /\ Type \in [Codes -> {"income", "expense", "other"}]
    /\ Modern \in [Codes -> Maybe]
    /\ Numeric4 \subseteq Codes

\* exact, fuzzy: the entries of the two tables that match and are for money in
\* this direction, in their order; sure: the confidence is 0.80 or more.
TableEntry == [code: Codes, sure: BOOLEAN]

ASSUME MovementAssumption ==
    Movement \in [Txs -> [payee: Payees \cup {NoPayee}, amount: Int \ {0},
                          interco: BOOLEAN, exact: Seq(TableEntry), fuzzy: Seq(TableEntry)]]

ASSUME TxsAssumption == Txs # {} /\ IsFiniteSet(Txs) /\ IsFiniteSet(Codes)

ASSUME BoundsAssumption ==
    /\ MaxAi \in Nat /\ Earlier \subseteq Txs
    /\ Worlds \subseteq {"serial", "overlap"} /\ Calls \in [Worlds -> Nat]

Payee(t) == Movement[t].payee
Amount(t) == Movement[t].amount

Row == [code: Maybe, source: {"none", "exact", "fuzzy", "ai", "manual"},
        sugg: Maybe, review: BOOLEAN,
        status: {"pendiente", "revision", "categorizado"}]

Imported == [code |-> NoCode, source |-> "none", sugg |-> NoCode,
             review |-> FALSE, status |-> "pendiente"]

\* A row older migrations left in review with nothing to approve.
Orphan == [Imported EXCEPT !.review = TRUE, !.status = "revision"]

\* A row an earlier run has left a suggestion for.
Pending == [Imported EXCEPT !.review = TRUE, !.status = "revision",
                            !.sugg = Sales, !.source = "fuzzy"]

\* todo: the rows listed and still to handle; known: payee to code; cat: the
\* active codes when listed; ai: calls the run may still make.
Task == [pc: {"idle", "learn", "rules", "rows", "reset", "review", "next",
              "find", "keep", "save"},
         op: {"none", "bulk", "patch", "approve", "reject", "approveAll"},
         tx: Txs, snap: Row, code: Maybe, found: BOOLEAN,
         todo: SUBSET [tx: Txs, row: Row],
         known: [Payees -> Maybe], cat: SUBSET Codes, ai: 0..MaxAi]

VARIABLES
    world,
    rows,     \* bank_transactions
    rules,    \* user_classification_rules of the client: payee to code
    catalog,  \* account_catalog: "absent", "active" or "inactive"
    task,
    calls

vars == <<world, rows, rules, catalog, task, calls>>

NoRules == [p \in Payees |-> NoCode]
Idle == [pc |-> "idle", op |-> "none", tx |-> CHOOSE t \in Txs : TRUE,
         snap |-> Imported, code |-> NoCode, found |-> FALSE,
         todo |-> {}, known |-> NoRules, cat |-> {}, ai |-> 0]

TypeOK ==
    /\ world \in Worlds
    /\ rows \in [Txs -> Row]
    /\ rules \in [Payees -> Maybe]
    /\ catalog \in [Codes -> {"absent", "active", "inactive"}]
    /\ task \in [Workers -> Task]
    /\ calls \in 0..Calls[world]

Init ==
    /\ world \in Worlds
    /\ \E t \in Earlier, old \in {Imported, Orphan, Pending} :
          rows = [[x \in Txs |-> Imported] EXCEPT ![t] = old]
    /\ rules = NoRules
    /\ catalog = [c \in Codes |-> IF c \in Locked THEN "active" ELSE "absent"]
    /\ task = [w \in Workers |-> Idle]
    /\ calls = 0

Listed(ts) == {[tx |-> t, row |-> rows[t]] : t \in ts}
Active == {c \in Codes : catalog[c] = "active"}
Uncoded == {t \in Txs : rows[t].code = NoCode}
InReview == {t \in Txs : rows[t].review /\ rows[t].sugg # NoCode}
Orphans == {t \in Uncoded : rows[t].review /\ rows[t].sugg = NoCode}

-----------------------------------------------------------------------------
(* The engine: a chain of sources for a code, the first that answers wins. *)

\* resolveRuleCodeInCatalog: the code itself, or what it stands for today.
Usable(c, cat) ==
    IF c \in cat THEN c
    ELSE IF c # NoCode /\ Modern[c] \in cat THEN Modern[c] ELSE NoCode

\* An answer: high means applied at once if nobody has to look at it.
Answer(c, high, source) == [code |-> c, high |-> high, source |-> source]
Nothing == Answer(NoCode, FALSE, "fuzzy")

\* The first entry whose code the catalogue can use.
TableRule(entries, cat) ==
    LET Serves(i) == Usable(entries[i].code, cat) # NoCode
        first == {i \in DOMAIN entries : Serves(i) /\ \A j \in 1..(i - 1) : ~Serves(j)}
    IN IF first = {} THEN Nothing
       ELSE LET e == entries[CHOOSE i \in first : TRUE]
            IN Answer(Usable(e.code, cat), e.sure, "fuzzy")

ExactRule(t, cat) == TableRule(Movement[t].exact, cat)
FuzzyRule(t, cat) == TableRule(Movement[t].fuzzy, cat)

KnownRule(t, known, cat) ==
    IF Payee(t) \in Payees THEN Usable(known[Payee(t)], cat) ELSE NoCode

\* Deliberately wrong: the tables of the system speak before the client's rules.
TablesFirst(t, known, cat) ==
    IF Movement[t].interco /\ Interco \in cat THEN Answer(Interco, TRUE, "exact")
    ELSE IF ExactRule(t, cat).code # NoCode THEN ExactRule(t, cat)
    ELSE IF KnownRule(t, known, cat) # NoCode
         THEN Answer(KnownRule(t, known, cat), TRUE, "exact")
    ELSE Nothing

Deterministic(t, known, cat) ==
    IF Movement[t].interco /\ Interco \in cat THEN Answer(Interco, TRUE, "exact")
    ELSE IF KnownRule(t, known, cat) # NoCode
         THEN Answer(KnownRule(t, known, cat), TRUE, "exact")
    ELSE IF ExactRule(t, cat).code # NoCode THEN ExactRule(t, cat)
    ELSE IF FuzzyRule(t, cat).code # NoCode THEN FuzzyRule(t, cat)
    ELSE IF Amount(t) > 0 THEN Answer(Usable(Sales, cat), FALSE, "fuzzy")
    ELSE Nothing

\* What the text of the model may come to: a code of the catalogue or none.
Replies(cat) == {Answer(c, high, "ai") : c \in cat \cup {NoCode}, high \in BOOLEAN}

\* classifyWithAi: a reply, an error of the provider, or its quota used up.
Asked(cat) ==
    {[answer |-> a, error |-> "none"] : a \in Replies(cat)}
    \cup {[answer |-> Answer(NoCode, FALSE, "ai"), error |-> e] : e \in {"other", "429"}}

\* classifyFull. Only an answer with a code, or an error, is charged to the run.
Full(t, known, cat, mayAsk) ==
    LET det == Deterministic(t, known, cat)
        own == [answer |-> det, error |-> "none"]
    IN  IF det.high \/ ~mayAsk THEN {own}
        ELSE {IF r.answer.code = NoCode /\ r.error = "none" THEN own ELSE r :
                r \in Asked(cat)}

-----------------------------------------------------------------------------
(* What the codes given so far teach: the commonest code of a payee, if two *)
(* movements have it. Equals are told apart by the order rows were changed. *)

Given(p, c) == Cardinality({t \in Txs : Payee(t) = p /\ rows[t].code = c})

Learnt(p) ==
    LET best == Max({Given(p, c) : c \in Codes})
    IN  IF best < 2 THEN {NoCode} ELSE {c \in Codes : Given(p, c) = best}

-----------------------------------------------------------------------------
(* The handlers. *)

CanStart(w) ==
    /\ calls < Calls[world]
    /\ task[w].pc = "idle"
    /\ world = "serial" => \A v \in Workers : task[v].pc = "idle"

Start(w, rec) ==
    /\ task' = [task EXCEPT ![w] = rec]
    /\ calls' = calls + 1
    /\ UNCHANGED <<world, rows, rules, catalog>>

Goto(w, pc) == task' = [task EXCEPT ![w].pc = pc]
Stop(w) == task' = [task EXCEPT ![w] = Idle]

\* bulkApplySuggestedCategories lists the movements without a code.
StartBulk(w) ==
    /\ CanStart(w)
    /\ \E ai \in {0, MaxAi} :
          Start(w, [Idle EXCEPT !.pc = "learn", !.op = "bulk",
                                !.todo = Listed(Uncoded),
                                !.cat = Active, !.ai = ai])

\* inferRulesFromClassifiedHistory
Learn(w) ==
    /\ task[w].pc = "learn"
    /\ \E known \in [Payees -> Maybe] :
          /\ \A p \in Payees : known[p] \in Learnt(p)
          /\ task' = [task EXCEPT ![w].known = known, ![w].pc = "rules"]
    /\ UNCHANGED <<world, rows, rules, catalog, calls>>

\* The client's rules, and what history teaches of the payees without one.
ReadRules(w) ==
    /\ task[w].pc = "rules"
    /\ task' = [task EXCEPT ![w].pc = "rows",
          ![w].known = [p \in Payees |-> IF rules[p] = NoCode THEN @[p] ELSE rules[p]]]
    /\ UNCHANGED <<world, rows, rules, catalog, calls>>

\* Deliberately wrong: a doubtful answer is put in review without its code.
JudgedUnnamed(row, a) ==
    IF a.code = NoCode THEN row
    ELSE [row EXCEPT !.source = a.source, !.review = TRUE, !.status = "revision"]

\* What a run makes of a movement it listed as row.
Judged(row, a) ==
    IF a.code = NoCode THEN row
    ELSE IF a.code = Interco \/ a.high
         THEN [code |-> a.code, source |-> a.source, sugg |-> NoCode,
               review |-> FALSE, status |-> "categorizado"]
         ELSE [row EXCEPT !.sugg = a.code, !.source = a.source,
                          !.review = TRUE, !.status = "revision"]

\* One movement of a run: classified, and saved as a whole when it has a code.
BulkRow(w) ==
    /\ task[w].pc = "rows"
    /\ \E m \in task[w].todo :
       \E r \in Full(m.tx, task[w].known, task[w].cat, task[w].ai > 0) :
          LET spent == r.answer.source = "ai"
              left == IF r.error = "429" THEN 0 ELSE task[w].ai
          IN  /\ rows' = IF r.answer.code = NoCode THEN rows
                         ELSE [rows EXCEPT ![m.tx] = Judged(m.row, r.answer)]
              /\ task' = [task EXCEPT
                    ![w].ai = IF spent /\ left > 0 THEN left - 1 ELSE left,
                    ![w].todo = @ \ {m}]
    /\ UNCHANGED <<world, rules, catalog, calls>>

\* The first step of a decision on movement t that gives it code c.
Deciding(op, t, c) ==
    [Idle EXCEPT !.op = op, !.tx = t, !.snap = rows[t], !.code = c,
        !.pc = IF c # NoCode /\ Payee(t) \in Payees THEN "find" ELSE "save"]

\* patchTransaction reads the movement; NoCode stands for a blank code.
StartPatch(w) ==
    /\ CanStart(w)
    /\ \E t \in Txs, c \in Maybe : Start(w, Deciding("patch", t, c))

\* approveSuggestion refuses a movement without a suggestion.
StartApprove(w) ==
    /\ CanStart(w)
    /\ \E t \in Txs : /\ rows[t].sugg # NoCode
                      /\ Start(w, Deciding("approve", t, rows[t].sugg))

StartReject(w) ==
    /\ CanStart(w)
    /\ \E t \in Txs : Start(w, Deciding("reject", t, NoCode))

\* upsertUserClassificationRule looks for the rule of the payee ...
FindRule(w) ==
    /\ task[w].pc = "find"
    /\ task' = [task EXCEPT ![w].pc = "keep",
                            ![w].found = rules[Payee(task[w].tx)] # NoCode]
    /\ UNCHANGED <<world, rows, rules, catalog, calls>>

\* ... and changes it, or inserts one, which the unique index refuses when
\* another handler was faster: the request fails before its movement is saved.
KeepRule(w) ==
    LET p == Payee(task[w].tx)
        clash == ~task[w].found /\ rules[p] # NoCode
    IN  /\ task[w].pc = "keep"
        /\ rules' = IF clash THEN rules ELSE [rules EXCEPT ![p] = task[w].code]
        /\ IF clash THEN Stop(w) ELSE Goto(w, "save")
        /\ UNCHANGED <<world, rows, catalog, calls>>

\* The row a decision saves.
Decided(k) ==
    CASE k.op = "reject" ->
           [k.snap EXCEPT !.sugg = NoCode, !.review = FALSE, !.status = "pendiente"]
      [] k.op = "patch" /\ k.code = NoCode -> Imported
      [] OTHER ->
           [code |-> k.code, sugg |-> NoCode, review |-> FALSE,
            status |-> "categorizado",
            source |-> IF k.op = "patch" \/ k.snap.source = "none"
                       THEN "manual" ELSE k.snap.source]

SaveDecision(w) ==
    /\ task[w].pc = "save"
    /\ rows' = [rows EXCEPT ![task[w].tx] = Decided(task[w])]
    /\ IF task[w].op = "approveAll" THEN Goto(w, "next") ELSE Stop(w)
    /\ UNCHANGED <<world, rules, catalog, calls>>

\* bulkApproveSuggestions: rows in review with nothing to approve are looked
\* for, put back, and what is then in review approved one by one.
StartApproveAll(w) ==
    /\ CanStart(w)
    /\ Start(w, [Idle EXCEPT !.op = "approveAll", !.pc = "reset",
                             !.todo = Listed(Orphans)])

ResetOrphans(w) ==
    /\ task[w].pc = "reset"
    /\ rows' = [t \in Txs |->
          IF \E m \in task[w].todo : m.tx = t
          THEN [rows[t] EXCEPT !.review = FALSE, !.status = "pendiente"]
          ELSE rows[t]]
    /\ Goto(w, "review")
    /\ UNCHANGED <<world, rules, catalog, calls>>

ListReview(w) ==
    /\ task[w].pc = "review"
    /\ task' = [task EXCEPT ![w].pc = "next", ![w].todo = Listed(InReview)]
    /\ UNCHANGED <<world, rows, rules, catalog, calls>>

\* A suggestion that is gone since the list was made ends the whole run.
ApproveNext(w) ==
    /\ task[w].pc = "next"
    /\ \E m \in task[w].todo :
          IF rows[m.tx].sugg = NoCode THEN Stop(w)
          ELSE task' = [task EXCEPT ![w] =
                  [Deciding("approveAll", m.tx, rows[m.tx].sugg) EXCEPT
                     !.todo = task[w].todo \ {m}]]
    /\ UNCHANGED <<world, rows, rules, catalog, calls>>

EndRun(w) ==
    /\ task[w].pc \in {"rows", "next"} /\ task[w].todo = {}
    /\ Stop(w)
    /\ UNCHANGED <<world, rows, rules, catalog, calls>>

\* The process stops, or a statement fails: what is committed stays.
Crash(w) ==
    /\ task[w].pc # "idle" /\ calls < Calls[world]
    /\ Stop(w)
    /\ calls' = calls + 1
    /\ UNCHANGED <<world, rows, rules, catalog>>

\* createAccountCatalogEntry, updateAccountCatalogEntry, deleteAccountCatalogEntry
CreateAccount(c) ==
    /\ catalog[c] = "absent"
    /\ catalog' = [catalog EXCEPT ![c] = "active"]

ToggleAccount(c) ==
    /\ catalog[c] # "absent"
    /\ catalog' = [catalog EXCEPT ![c] = IF @ = "active" THEN "inactive" ELSE "active"]

DeleteAccount(c) ==
    /\ catalog[c] # "absent" /\ c \notin Locked
    /\ catalog' = [catalog EXCEPT ![c] = "absent"]

EditCatalog ==
    /\ calls < Calls[world]
    /\ \E c \in Codes : CreateAccount(c) \/ ToggleAccount(c) \/ DeleteAccount(c)
    /\ calls' = calls + 1
    /\ world = "serial" /\ \A w \in Workers : task[w].pc = "idle"
    /\ UNCHANGED <<world, rows, rules, task>>

Next ==
    \/ EditCatalog
    \/ \E w \in Workers :
          \/ StartBulk(w) \/ StartPatch(w) \/ StartApprove(w) \/ StartReject(w)
          \/ StartApproveAll(w)
          \/ Learn(w) \/ ReadRules(w) \/ BulkRow(w)
          \/ FindRule(w) \/ KeepRule(w) \/ SaveDecision(w)
          \/ ResetOrphans(w) \/ ListReview(w) \/ ApproveNext(w) \/ EndRun(w)
          \/ Crash(w)

Spec == Init /\ [][Next]_vars

-----------------------------------------------------------------------------
(* computeProfitAndLossCore: one line per code, INTERCO taken out, an account *)
(* no longer in the catalogue told by its digits.                            *)

Sum(ts) == MapThenSumSet(Amount, ts)
Coded(c) == {t \in Txs : rows[t].code = c}
Line(c) == Sum(Coded(c))
Magnitude(n) == IF n < 0 THEN -n ELSE n

IsIncome(c) == IF catalog[c] # "absent" THEN Type[c] = "income" ELSE c \in Numeric4

\* Deliberately wrong: transfers between own companies count as operations.
OperatingWithInterco(income) == {c \in Codes : Coded(c) # {} /\ IsIncome(c) = income}

OperatingLines(income) ==
    {c \in Codes \ {Interco} : Coded(c) # {} /\ IsIncome(c) = income}

ProfitAndLoss ==
    LET income == MapThenSumSet(Line, OperatingLines(TRUE))
        expense == MapThenSumSet(LAMBDA c : Magnitude(Line(c)), OperatingLines(FALSE))
    IN  [income |-> income, expense |-> expense, net |-> income - expense,
         interco |-> Line(Interco)]

-----------------------------------------------------------------------------
(* Properties *)

(* A movement in review has something to approve and no code yet, unless an  *)
(* older migration left it so; the list of suggestions shows nothing else    *)
(* (FixOrphanReviewTransactions repaired the contrary). Runs, decisions and  *)
(* the reset may overlap, and each writes back a row it read earlier.        *)
ReviewIsOpen ==
    \A t \in Txs : rows[t].review =>
        /\ rows[t].code = NoCode /\ rows[t].status = "revision"
        /\ rows[t].sugg # NoCode \/ rows[t].source = "none"

(* One handler at a time, a bulk run leaves coded movements alone, and what  *)
(* it codes or suggests follows the client's own rule for the payee, where   *)
(* the catalogue still has its code, before history, the tables of the       *)
(* system and the AI; only a transfer between own companies goes before it.  *)
BulkStep(t) ==
    /\ \E w \in Workers : task[w].pc = "rows" /\ task'[w] # task[w]
    /\ rows'[t] # rows[t]

OwnRule(t) == IF Payee(t) \in Payees THEN Usable(rules[Payee(t)], Active) ELSE NoCode

BulkFollowsRules ==
    [][world = "serial" => \A t \in Txs : BulkStep(t) =>
          /\ rows[t].code = NoCode
          /\ OwnRule(t) # NoCode /\ ~Movement[t].interco
                => rows'[t].code = OwnRule(t)]_vars

(* Every movement counts once: the net result, the transfers between own     *)
(* companies and the movements without a code add up to all the money that   *)
(* moved, but for expense accounts in credit, whose lines the report counts  *)
(* as a cost (Math.abs) and so twice the wrong way.                          *)
InCredit == {c \in OperatingLines(FALSE) : Line(c) > 0}

BooksAgree ==
    ProfitAndLoss.net + ProfitAndLoss.interco + Sum(Uncoded)
        = Sum(Txs) - 2 * MapThenSumSet(Line, InCredit)
=============================================================================
