# Verification of the Start Companies panel API

TLA+ modules, TLC runs and TLAPS proofs for the NestJS/TypeORM/PostgreSQL API in
`src/`. The system sells and processes company formations: clients (directly,
through a public wizard, or through a partner) open *requests*, pay for them with
Stripe or by bank transfer, staff approve them into the Zoho CRM, and the CRM
pipeline drives them to completion. Around that core sit invoicing, accounting,
bank connections, partner subscriptions, authentication and administration.

`PROJECT.json` is the index: components, runs, mutants, the source lines behind
every definition, hazards and theorems.

## 1. Inventory

Everything runs in one Node process (possibly several replicas) against one
database. A handler interleaves with others at each `await`; most handlers read
through the repository, do slow work (Stripe, Zoho, mail, PDF), and then `save`
the entity they read. No row has a version column and no read takes a lock, so
the recurring hazard is a stale read written back.

| Component | State | Operations | What makes it hard | What makes it correct |
|---|---|---|---|---|
| Requests (`panel/requests`) | rows of `requests`, one form per request, members | create, update, mark-manual-payment, approve, reject, delete; cleanup every 6 h | external calls inside handlers, stale saves, half-done cleanup | status moves only as allowed; a processed request is linked to the CRM; card charges stay; received requests are announced; stale drafts go |
| Wizard (`wizard`) | the same rows, users, clients | createWizardRequest, updateWizardRequest, register, confirm | charges before the request exists | a charge is booked or refunded |
| Stripe (`shared/payments`) | charges at Stripe | createCharge, refundCharge | refusals, lost answers, failed refunds | as above |
| Request notifications | rows of `notifications`, mails, websocket | notifyAfterSolicitudRecibida, read, delete | sent after COMMIT, by some handlers only; their foreign key blocks deletion | as above |
| Forms and members | percentages, bank validator, sections of three forms | submissions of panel and wizard, create/update/deleteMember, CRM import | six ways to write one list, row and table locks, remote calls inside a transaction | lists do not mix; what was validated is stored; what was stored later is lost to nobody who had seen it; no handler waits for ever |
| Zoho sync (`zoho-config`) | CRM accounts, contacts, links; WorkDrive folders; the same rows, users, clients | syncRequestToZoho, importAccountToRequest, updateRequestStatusFromDeals, folders, back-fill of links | three systems without a transaction, two-way copies | the three agree on a folder; nothing is created twice; documents reach their own company |
| Invoicing | invoices, lines, payments, events | create, update, pay, edit/remove payment, send, void, delete | several commits per handler, cascade of `save` | paid = sum of payments, total = lines and their tax, paid means covered |
| Plaid (`panel/plaid`) | items, sync cursors, webhook events | exchange, disconnect, sync, webhook, daily cron, weekly reminders | webhook recorded before it is processed; sync against disconnect | nothing imported twice from one source, or lost; a revoked item stays revoked |
| Accounting | transactions, account catalogue, rules, suggestions | CSV and Plaid import, decisions, bulk and AI classification, approvals, profit and loss | duplicates across sources; runs of seconds over stale rows | one row per movement and way of describing it; a review is open; own rules win; the books add up |
| Billing (`panel/billing`) | trial, subscription and plan columns of users, `stripe_webhook_events` | access snapshot, checkout, portal, grant, webhook, hourly cron | unordered, repeated, lost webhooks; seven writers that save whole users; cron against webhook | access agrees with the status; a payer is known; no checkout is lost; what is paid is seen; what ended is cut |
| Users and clients (`shared/user`, `panel/clients`, `wizard`) | accounts; rows of clients and the accounts that open their portals | creation, roles, switching off, change of address, invitations, registration, conversion, CSV rows | a dozen writers of one address on two tables, none with a common transaction | staff cannot lock itself out; a partner's clients are distinct; both addresses agree |
| Authentication (`shared/auth`) | one-time codes, trusted devices, cookies | sign in, verify, resend, refresh, logout, password | codes renewed, voided and consumed by different handlers; failed mails | a code is worth one session and few guesses |
| Account team, partner tenants, view-as | memberships, brands, origins in memory, the operator's cookie | invite, permissions, revoke, save a brand, enter and leave a view | three services read the same rows for three purposes; sessions outlive what they say | one portal per row a client is found by; origins are live; a view leads back |
| Partner imports | requests, CRM accounts, folders, documents | CSV and ZIP import | partial failure of a long import | it can be tried again |
| Pricing, process steps, uploads, settings, library, reports, dashboard, logs, Lili, geo, mail, PDF, shell | — | CRUD, queries, formatting | — | not modelled (section 8) |

How they meet: wizard, panel and CRM import write the same request (RequestLifecycle), the
same form (RequestForms) and the same accounts (Directory); `syncRequestToZoho` is one step
of an approval in RequestLifecycle and the subject of CrmSync; Plaid hands movements to
Accounting (BankSync), which classifies them (Classification); the door of a portal
(Portal) is asked by every sign-in and renewal (Login).

## 2. Modules

```
RequestRow ──────────► RequestLifecycle ──► MCRequestLifecycle (client bodies)
RequestStatus ─(Promise)──┘   │
                              └─► RequestLifecycle_proofs
RequestForms ─► MCRequestForms (forms, CRM accounts), RequestForms_proofs (with Sums)
Billing ─► Billing_proofs
BankSync ─► MCBankSync (movements), BankSync_proofs
CrmSync ─► MCCrmSync (worlds), CrmSync_proofs
Classification ─► MCClassification (movements, catalogue) ─┐
Invoicing ─► MCInvoicing (modes) ──────────────────────────┴► MCBooks
Classification, Invoicing ─► Books_proofs (with Sums)
Directory ─► MCDirectory (worlds) ──┐
Portal ─► Login ─► MCLogin (scenes) ┴► MCIdentity
Directory, Login ─► Identity_proofs
```

* **RequestRow** – the columns of a request the handlers branch on, the PATCH
  body, and the pure computations: `Promoted` (request-status.util),
  `PanelPatched`/`PanelWritten` (update), `PanelCreated` (create),
  `WizardCreated`, `WizardPatched` (wizard), `DealStatus` (CRM stages). Ids,
  urls and amounts are reduced to whether they are present; a charge keeps its
  identity. `PanelWritten` differs from `PanelPatched` because `save` skips
  members left `undefined`.
* **RequestStatus** – the abstract specification: who may move a request from
  which status to which, and which moves need the CRM link. A deal moves a
  request only while the CRM reports it, so approval is not mistaken for a
  pipeline move: in RequestLifecycle the request is then one whose handler is at
  `dealSave`.
* **RequestLifecycle** – every handler that writes a request, as a series of
  actions split at its awaits: *Begin* (the read outside the transaction and the
  early returns), *Charged/Declined* (Stripe), *Commit* (save and COMMIT),
  *Fails*, *Notify*. `task[w]` is the invocation: its program counter, the row it
  read (`snap`), the body and the charge it holds.
  `Save` is TypeORM's `save`: it overwrites the row with the entity and inserts a
  row that is gone. `ledger` follows each Stripe charge to its end. `bell` are
  requests that `notifications` rows reference, `sweep` is the cleanup job
  between its statements.
  `Promise` instantiates RequestStatus with the refinement mapping.
* **RequestForms** – the form and the members of one request of any of the three types.
  The six submissions (panel and wizard × type) are pure operators
  (`PanelEditsApertura`, …) over one set of actions: read, save the row (which takes its
  lock, and saves the form loaded with it), save the form, find the members to replace,
  commit. `MoveRead` … `MoveCommit` are `updateFileUrlsAfterMove`, which follows a panel
  submission that moved files; `DeleteBegin` … `DeleteRow` a deletion;
  `ImportAlter` disables the triggers of the whole table. `Needs` and `Blocks` say which
  locks a statement asks for and who holds them. `checked` remembers that the stored list
  passed the validation in full. `mode` says how handlers run: one at a time (`serial`),
  together with every edit taking the row's lock and no files to move (`locking`), the same
  with files (`files`), or together with edits that leave the row as it is (`free`).
* **Invoicing** – every operation on invoices, lines and payments, statement by statement. A
  body's lines are a subtotal or an empty list, taxed at the body's rate. `SaveWithItems`
  models the cascade: a save of an entity loaded with its lines inserts lines deleted since
  and fails on lines added since, because it would set their NOT NULL `invoice_id` to NULL.
  `UpdateDelete`/`UpdateSave` split the transaction of `updateForUser` where READ COMMITTED
  lets another one in: after the DELETE, if it found no row to lock.
* **Billing** – the billing columns of one user (users do not interact), its
  subscriptions at Stripe, the events Stripe has emitted, and every writer:
  `getAccessSnapshot` (trial window, then reconciliation with Stripe's list),
  checkout, portal, plan, webhook and cron. `stripe` and `events` are the
  environment: an event carries the subscription as it was, and `WebhookBegin` may
  deliver any event at any time, again or never. `Listed` is the page of subscriptions the
  reconciliation asks for. `kind` tells a client, a partner's client
  and everyone else apart, as `deriveAccessState` and `ensureTrialWindow` do.
  Statuses are taken up to what the code distinguishes; dates are whether they have
  passed (`trialOver`, `ended`).
* **BankSync** – one bank account of one client: its Plaid items with their sync cursor, the
  webhook events, the rows of `bank_transactions`, and every handler that writes them:
  exchange, sync, disconnect, webhooks, the daily job and the CSV import. `bank` is what the
  bank has posted, in order, and a cursor is how much of it Plaid has handed out; `plaid` is
  what each item is at Plaid; `sent` are the webhook bodies. A movement is imported in two
  steps, the look-up (`CheckRow`) and the insert (`InsertRow`), whatever its source. `Line`
  and `Look` give the two keys by which the imports compare movements: the CSV hash (date,
  description, amount), and date, absolute amount and payee as each source derives it, which
  need not be the same. The pages of one `transactionsSync` are one answer, since nothing is
  stored between them.
* **Classification** – how one client's movements get their account code. A bulk run lists
  the rows without a code (`Learn`, `ReadRules`), then handles them one by one (`BulkRow`:
  `Deterministic` is the order transfer, own rule, history, tables, each table a list whose
  first entry the catalogue can use answers; the AI may answer anything
  the catalogue has or lacks, or fail) and saves each as it was listed. A decision of a
  person is `FindRule`, `KeepRule`, `SaveDecision`, since it leaves a rule for the payee
  behind. `ProfitAndLoss` is the report, as operators over the rows.
* **Directory** – the tables `users` and `clients` and every handler that writes them.
  Ids are positions in two sequences. `Mirror`, `Sync`, `UpdateLinkedRow`, `InviteCreated`,
  `Link` and `RegisterRow` are the later commits of handlers that have several; `Stop` ends
  one between two. An address is a mailbox and whether it is spelt in lower case, because
  some queries normalise it and others do not.
* **Portal** – memberships, brands and the origins the process lets in, and who may enter
  where: `Payload` is what account-team writes into a session, `EntersBy` what tenant-access
  decides at the door once it has found a row of `clients` for the account, `Home` where the
  e-mails' branding leads by such a row. An account may be linked to several rows, of
  several partners (`linked`, `mailed`); which one a query finds is any of them (`Found`).
* **Login** – extends Portal with codes, trusted devices, the three cookies of a browser and
  views of clients, and calls Portal's handlers with the payload of a session. Time is the
  steps that expire codes, tokens and cookies.
* **CrmSync** – what the panel writes to Zoho: contacts, accounts, links, folders and
  documents, one call or statement per step, each of which may fail. `MCCrmSync` composes
  it into an import, two imports, and direct synchronisations with a CRM that makes folders
  itself.

* **Sums** – no model: lemmas about what `MapThenSumSet` adds up over any finite set, which
  the theorems about lists, invoices and the report cite.

Modules with several *worlds* (*scenes* in Login, *modes* in RequestForms and Invoicing)
choose one in `Init`, with its own handlers and starting rows, so that one run holds several
instances. A world only leaves out handlers that break a property; the property's comment
names them, and section 4 says where the code differs from what it says of itself. A module
about two components (MCBooks, MCIdentity and their proofs) extends both, so these have no
name in common.

Definitions marked *Deliberately wrong* are plausible bugs. No specification uses
them; they are the mutants of `PROJECT.json`, each of which must break its property.

## 3. Runs

Two runs (MCBooks, MCIdentity) hold two components each that share nothing: the handlers of
one of them run, and the other stays as it was. A run marked *violation* checks one sentence
the repository says of the program, which TLC finds broken (section 4). All runs set
`CHECK_DEADLOCK FALSE`: `MaxCalls` bounds the invocations, after which a model stops, and the
system too rests when nobody calls it.

| Run | Question | Bounds |
|---|---|---|
| serial | With one handler at a time, does every handler keep the promises of RequestStatus, the charge of a card payment (until another way of paying is stored), and (with crashes, failures, lost answers) settle the charges of the wizard? `KeepsPromise` is the refinement. | 1 worker, 1 request, 2 charges, 8 bodies, 4 calls |
| overlap | Is a request in process always linked, and a submitted one always announced, when handlers overlap? | 2 workers, 1 request, 5 bodies, 4 calls |
| second_charge (violation) | Is a request that has a charge charged again? | 1 worker, 2 charges, 2 bodies |
| drafts_expire | Does the cleanup remove every stale draft? (liveness) | 1 worker, bodies that never reopen a request |
| forms | Do the lists of two submissions ever mix, do checked percentages stay checked, is data of later sections kept, does every handler end (liveness), whatever locks they take in whatever order? | 2 workers, 3 types, modes serial and locking for each, files and free for one; 2 people, 5 forms, 2 CRM accounts, 3 calls |
| forms_move (violation) | Do members that were replaced stay so, where files are moved? | the same, 1 type |
| books, invoices | Do paid amount, total, status and child rows agree after calls in any order, with and without lines; do total and lines when edits, mails and cancellations that bring lines overlap? | 2 handlers, modes serial and overlap, 1 invoice, amounts and subtotals 1–2, tax 0 and 50 %, 5 calls |
| books, movements | Is what waits for approval still open, whoever saves last; does a bulk run follow the client's own rules; does the report account for every movement? | 2 workers, 4 movements, 5 codes, 1 payee, AI cap 2; 3 calls one after another, or 2 overlapping |
| billing_serial | With one handler at a time, and webhooks late, repeated or lost, failing Stripe calls, crashes and the cron between any two steps: do status and access agree, is every payer known, is no checkout lost, is what is paid seen, is what ended cut (liveness)? | 1 worker, 3 kinds of user, 2 customers, 3 subscriptions of which 2 are listed, 3 events, 5 calls |
| bank_serial | With one handler at a time, failing syncs, crashes, expired logins and lost webhooks: is every movement stored once through each source, and through both only if they describe it differently, does a disconnected item stay so, and is what is posted to an active item imported (liveness)? | 1 worker, 2 items, 2 movements, one of them described differently, 4 calls |
| bank_overlap | When handlers of an item overlap, does its cursor ever run ahead of the rows? | 2 workers, 1 item, 2 movements, 4 calls |
| identity, accounts | Can staff lock itself out by the handlers that look for another administrator, can a partner get twins, can the two addresses of a client part? | 4 worlds, 3 typed addresses of 2 mailboxes, 5 users, 4 client rows, 4 calls |
| identity, sessions | Is a code worth one session, do door and e-mails agree on the portal of an account by each row of it, do origins die with their brand, do sessions fit their portal, can a view be entered and left? | 5 scenes, 4 people, 2 browsers, 2 domains, 2 attempts, 1 resend, 2 challenges, 4–7 calls |
| crm | Do documents stay with their company, do panel, CRM and WorkDrive agree on the folder, is anything created twice? | 3 worlds, 2 companies, 2 clients, 1 partner, 4 requests, 3 folders, 3 calls |

Why these bounds are enough to show the interesting cases:

* *Requests.* One request is enough: no handler reads a request other than its own, except
  the cleanup, whose coupling of several requests in one DELETE is already visible with
  one. Four calls reach every status through every handler (create, submit, approve, deal)
  and leave one call to disturb it. Two charges allow a second payment.
* *Forms.* Three calls are a creation and two edits, members, imports or deletions that
  overlap; the five forms hold every combination the validators tell apart (no list, blank
  entries, one and two validators, early and late sections), and one of them names files.
  What locks a handler takes does not depend on the type, so that the modes where only they
  matter are run for the type with the most handlers.
* *Invoicing.* Five calls allow create, edit or pay, pay, and then a removal, another edit,
  mail, void or deletion; no handler touches two invoices. The higher tax rate rounds an
  odd cent. Handlers and invoices are symmetric: no definition chooses one, and every
  property is an invariant.
* *Billing.* A first checkout takes four calls with its webhook and a crash; two listed
  subscriptions tell the best from the newest, a third falls off the list, two customers
  tell a stored customer from a lost one, and three events are a checkout, a scheduled end
  and its withdrawal.
* *Bank.* Connect, disconnect, connect again and a statement take four calls; the second
  item hands out the movements of the first again. `bank_overlap` interleaves two syncs,
  or a sync and a statement, over two movements, with room for a crash. Bank and daily
  job do not count as calls, except an expired login.
* *Classification.* Three movements of one payee, so that a decision makes a rule and
  history for the others, and one transfer; the AI's cap of two is reached within a run.
  Serially a decision, an edit of the catalogue and a run, or two runs and an approval.
* *Directory.* The worlds are the staff, the handlers that store what they are sent, the
  panel of partners, and the portals of clients. Two spellings of one mailbox and another
  mailbox; four calls are an invitation, a registration, an edit and a deletion of the same
  client.
* *Login.* Two attempts and one resend tell each counter from the other and from its
  limit; two browsers are an operator and a victim of a stale session, and a fourth person
  is a teammate, a member of staff or a client of the platform, depending on the scene. In
  the fifth a client of the platform gets rows of one partner and of another, by address and
  by link.
* *CRM.* Two rows of one company and two companies of one person; four requests and three
  folders leave one of each for a repetition to create.

## 4. What the code does otherwise

Places where the source, a comment or a document promises more than the code does. The
models contain the behaviour. Where a run is named, it states the sentence as a property and
TLC finds it violated (`findings` in `PROJECT.json`). Where only a property is named, the
module states the sentence and no run checks it. The properties of the passing runs are
stated without these cases.

| Sentence | What the code does |
|---|---|
| requests.service.ts:1772 "Si ya hay un chargeId, no procesar de nuevo (evitar duplicados)" | The guard at 1769 also asks for `paymentMethod === 'stripe'`: card, then bank transfer, then card charges again, and the first charge is forgotten. Run `second_charge`. |
| requests.service.ts:2079 "Eliminar miembros existentes para reemplazarlos con los nuevos" | After COMMIT `updateFileUrlsAfterMove` (2732, 1642) saves the members as it read them (3559), so that some another edit has replaced come back. Run `forms_move`. |
| requests.service.ts:1993 "(no sobrescribir datos existentes si no vienen en el payload)" | Saving the request (1928) saves the form read before the transaction: an edit without the later sections resets the ones stored meanwhile. `AbsentIsKept` of RequestForms states the promise. |
| requests.service.ts:3625 "Elimina solicitudes con status='pendiente' creadas hace más de 72 horas" | An announced request put back to draft is referenced by `notifications`; the batch DELETE at 3648 fails on it, every six hours, for all drafts. |
| billing.service.ts:464 "si una suscripción ya pasó su fecha efectiva de cancelación y no llegó webhook, cortar acceso" | The job saves users it read at its start (485): one whose cancellation was taken back meanwhile is cut all the same. `CutsOnlyEnded` of Billing states the promise. |
| docs/plaid-bank-sync-contabilidad.md:192 "Cron diario (`@nestjs/schedule`) como fallback si falla el webhook" | A sync that fails stores `error` (plaid.service.ts:513) and the job looks at `active` items only (620). `FallbackImports` of BankSync states the promise. |
| invoicing.service.ts:583 "No se puede anular una factura con pagos registrados." | The check at 582 reads an old row: a payment that overlaps leaves a void invoice with payments. |
| requests.service.ts:2910 "Excluir el miembro actual" | The query asks for the member itself instead of excluding it, and never finds another validator: `updateMember` lets a second one in. |
| user.service.ts:722 "Debe existir al menos otro administrador activo" | `PATCH /users/:id` and `/users/me` store the status and type they are sent (262, 498) and look for nobody (`LastAdminIsKept` of Directory states the promise). Two administrators who switch each other off at the same time both pass, too. |
| config/cors-origins.ts:33 "se cargan al arrancar y tras guardar marca" | The first save of a brand returns (partner-tenants.service.ts:525) before it refreshes them: a new domain is refused until the next save or start. |
| docs/portal-partner-qa.md:14 "Cliente del partner A no entra en dominio del partner B ni en SC." | A client with rows of the platform and of a partner, or of two, is let in by whichever row the door finds (tenant-access.service.ts:159). `ClientsStay` of Login states the promise. |
| docs/client-view-as.md:3 "Permite a partners, admin y user (staff SC) navegar el panel como un cliente" | tenant-access.service.ts:120 refuses the platform to a partner's client: staff, and a partner without an active brand, open a view the door then answers with 403. |
| docs/anthropic-panel-decision.md:20 "IA con tope `AI_BULK_MAX_PER_REQUEST`" | An answer whose code the catalogue lacks is not counted (accounting.service.ts:740). |
| accounting.service.ts:361 "Requiere al menos 2 ocurrencias para evitar que un error manual se convierta en regla" | `patchTransaction` stores a rule after one decision, and clearing a code does not take it back. |
| accounting.service.ts:1126 | Lines of expense accounts enter the profit and loss by `Math.abs`: an account in credit lowers the result. `BooksAgree` says by how much. |

## 5. Fairness

`FairSpec` of RequestLifecycle gives weak fairness to `Continue(w)` — Node resumes each
handler it has started — and to the three statements of the cleanup, which
`@Cron(EVERY_6_HOURS)` fires for ever. Clients, staff, the CRM, time (`Age`) and users
clearing notifications owe nothing. A crash loses all tasks and the sweep; the scheduler
starts again. In Billing only `CronScan` and `CronSave` are fair, for `@Cron(EVERY_HOUR)`:
handlers need not end and Stripe need not deliver anything. In BankSync `Continue(w)` is
fair for each handler, and so is `CronBegin`, for `@Cron(EVERY_DAY_AT_3AM)`; no webhook need
ever arrive, and a call to Plaid may fail each time (a failed item is then not active). In
RequestForms `Advance(w)` is weakly fair for each handler: Node resumes it and the database
grants a lock that stays free. Weak fairness is enough because only finitely many calls
begin; with endless calls a waiting handler would need PostgreSQL's queue. The other modules
state safety only.

## 6. Theorems (TLAPS)

Each holds for every set of workers, rows and values and all bounds, under the `ASSUME`s of
the modules (types of the constants) and the hypotheses named below. A hypothesis on the
worlds, the handlers or the bodies of a model (`FreshWorlds`, `SoundScenes`,
`AdminsToBegin`, `TwinsToBegin`, `AgreeingToBegin`, `PatchesAreDrafts`, `WholeSaves`,
`Itemised`, `HonestBodies`) is an `ASSUME` of the MC module too, so TLC evaluates it in the
run that checks the same property. `OneAtATime` says that all workers are one: the serial
runs have one worker.

**Requests** (RequestLifecycle_proofs)

* `TypeCorrect`: `Spec => []TypeOK`. TypeOK is not inductive: a worker past its read must
  have a request to write, so `TypeInv` adds, for each program counter, that `rid` is a key.
  One lemma per group of handlers, over lemmas that the operators of RequestRow map rows to
  rows.
* `ProcessedIsLinkedAlways`, for overlapping handlers, assuming `PatchesAreDrafts`: bodies
  carry no status but the two the handlers cast to. The DTO accepts all five; without the
  assumption a body could simply write 'en-proceso'. `LinkInv` says it of every copy of the
  row: the table, each entity in memory, each entity about to be saved, since any of them may
  become the row.
* `WizardChargeSettledAlways`, with overlapping handlers, crashes, failures and lost answers.
  `MoneyInv`: a worker holds a charge only between Stripe's answer and its commit or refund
  (`HoldersOK`), no two hold the same (`OneHolder`), an open charge is held (`OpenIsHeld`),
  and no charge of createWizardRequest is 'lost' (`WizardNeverLoses`).
* `ReceivedIsAnnouncedAlways`, for overlapping handlers, assuming that none of those runs
  which make a received request in silence or remove it (`Unannounced`; section 7 says why),
  that one announcement can be counted (`MaxNotices > 0`), and `FewEnough`: any number of
  workers without `updateWizardRequest`, two with it. `HeardInv` says that a received row is
  `Told` of, or `Asked` about by the wizard, which tells only if it still reads 'received';
  and the same of every handler that *read* the row as received, as it will save it in
  silence. Once told a request stays told. While the wizard asks there is room for one other
  handler, so nobody can both hide the submission and bring it back.
* `ChargeStays` (the action property `ChargeStaysOnRow`), assuming `OneAtATime`, with
  crashes and the cleanup between any two steps: a charge is never cleared, and replaced
  only over another way of paying, by one that is booked with it (which is how the second
  charge of `second_charge` comes about; nothing else brings one). `SerialInv`: what a
  handler holds is the row, if the row is still there (`Careful`), and what its own checks
  found is still so. The operators of RequestRow keep a charge that has paid
  (`PanelWrittenKeeps`, …).
* `HandlersKeepPromise`: the refinement `KeepsPromise`, assuming `OneAtATime`,
  `PatchesAreDrafts` and no cleanup (which deletes rows under a handler that will save them
  again). The initial states map to initial states, and under `TypeInv`, `LinkInv` and
  `SerialInv` each step of each handler maps to a move RequestStatus allows or to a stutter:
  one lemma per abstract move (`Creates`, `Edits`, `Approves`, …), one per group of handlers.

**Forms** (RequestForms_proofs)

* `TypeCorrect` and `OneListAlways`, for any number of overlapping submissions, imports,
  deletions and edits of single members that move no files (mode `locking`), and for handlers
  one at a time with files moved after them (mode `serial`). `ListInv` says why lists do not
  mix: an edit past its save holds the lock of the row (`LockHeld`), so one at most finds the
  members and replaces them (`OneRuns` says the same of a mode with one handler at a time); an
  edit has begun on a request that exists (`Begun`); when a replacement commits, it has found
  every member that came in a list (`AllFound`); and members are saved again after COMMIT by
  nobody (`NoMoves`), or by one who finds them all still there (`FoundIn`). Overlapping edits
  that move files do mix lists (`forms_move`).
* `LateKeptAlways` (the action property `LateKept`), for the same. `LateInv` adds to `ListInv`
  that a wizard's edit past the lock, and every handler that runs alone, has seen the later
  sections the form holds (`SeenOK`), so that the form it writes has them too. An edit of the
  panel and an import read the form before they take the lock, and the property lets those
  that read it before the data came lose it (section 4).
* `CheckedAddsUpAlways`, for lists of any length, in the mode with one handler at a time (two
  that overlap each remove the members they found). `CheckedInv` says that an edit which
  passed the validation is about to store a list that passes (`AboutToPass`), and that the
  members it will remove are all there are (`FoundAll`). Dropping blank entries, and the
  validator's mark where the type has none, leaves what a list adds up to. A body's list is
  finite and has one entry per member (`ListsAssumption`).

**Billing** (Billing_proofs)

* `TypeCorrect` and `AccessFollowsStatusAlways`, for overlapping handlers. `TypeInv` says of
  every copy of the row (table, entities in memory, the cron's) that it is a `GoodRow`: well
  typed, of a customer Stripe has created, with an access state that matches its status; any
  of them may be saved next.
* `PayerIsKnownSerially`, `RecordedIsAppliedSerially` and `PaidIsSeenSerially` (an action
  property), assuming `OneAtATime`; cron, crashes and late events still fall between its
  steps. `SerialInv` says that a handler holds the customer the row has, except between
  creating a customer and storing it (`TaskHolds`), when nothing can have been paid, and that
  the cron holds a row that has a subscription (`CronHolds`). Hence the reconciliation asks
  Stripe for the customer whose subscriptions they are; `LastAreListed` says that the
  `ListLimit` bought last are in the answer (ten in the code), `BestIsActive` that an active
  one in it wins over every other.

**Bank** (BankSync_proofs)

* `TypeCorrect` and `SyncedIsStoredAlways`, for overlapping handlers, failures and crashes.
  `SyncInv` says that each cursor is covered by rows, the ones in the table and the ones
  handlers hold, since any of them may be saved next; and that each movement a sync has
  fetched is stored or still in its `todo`.
* `ImportedOnceSerially` and `RevokedStaysSerially` (an action property), assuming
  `OneAtATime`. Two rows of one movement are a statement's and Plaid's, which describe it
  differently; nothing is assumed of how a source describes it. `SoleInv`: before an insert no
  row that is described alike is the movement's, and no handler
  that will save an item as it read it has read, or will read, a revoked one.

**Classification** (Books_proofs, part I)

* `TypeCorrect` and `ReviewIsOpenAlways`, for any number of overlapping runs, decisions,
  approvals and stops. ReviewIsOpen alone is not inductive: a run saves copies. `ListedOpen`
  says that every row a run has listed has no code, so that the copy it saves is in review
  only with the suggestion it has just made; `RowsAreBulk` that the steps of a run are a
  run's, so that no approval works on a listed copy.
* `BulkFollowsRulesAlways` (an action property about the worlds with one handler at a time).
  `SerialInv` says there is one handler (`Alone`) and that what it listed, the rows, the
  catalogue and the rules, is what the tables hold (`Fresh`).
* `BooksAgreeAlways`, for any finite set of movements and codes: the net result, the
  transfers and the movements without a code add up to all that moved, but for cost accounts
  in credit. The lines partition the coded movements, and income, cost, cost in credit and
  transfers partition the lines. It needs no more of a state than its types, whatever the
  catalogue: a code whose account is gone makes a line of its own.

**Invoicing** (Books_proofs, part II)

* `InvoicingTypeCorrect`, for handlers that overlap. `InvoicingTyped` adds that what each
  works on has been given a key (`JobTyped`), and that every set of rows is finite.
* `PaidIsSumAlways` and `NothingLeftBehindAlways`, with no hypothesis, and
  `PaidIsCoveredAlways`, assuming `HonestBodies` (no body sets 'paid', as in the panel): all
  three speak of handlers one at a time. `TotalIsSumAlways` speaks of overlapping ones too,
  and assumes `WholeSaves`: those that overlap are the ones that save an invoice with its
  lines, create, update, send and void; and `Itemised`: the bodies of those bring lines. One
  at a time bodies may have empty lists and any subtotal and rate of tax. None of the four
  is inductive, since a handler commits several times, and saves whole what it read at its
  start. `InvoicingInv` says what each stored invoice owes to its lines and payments
  (`RowOK`) except at the points where a handler has changed some and not yet the others
  (`BusyWith`), and what each handler's copy owes to the lines it will write, and one alone
  to the payments stored (`JobOK`). Where handlers overlap, an invoice has lines (`Totals`),
  so that the second of two edits waits for the rows the first deletes, and `SaveWithItems`
  either brings the lines the copy was read with or fails, so a stale copy that is saved is
  true of the lines it leaves.

**Sums**

* The lemmas behind all of these. `MapThenSumSet` adds in an order `CHOOSE` gives. `AddsAgree`
  says that the sum is unique, whatever set it is computed in; then a member can be taken
  out first (`SumTake`), sets that part a set have sums that add up to its own, and a sum is
  carried by an injection (`SumCarried`). The induction over subsets comes from the library's
  theorem that the strict subset ordering of finite sets is well founded, so that a set of
  counterexamples has a minimal one: nothing with an operator as a parameter is needed.

**Accounts** (Identity_proofs, part II)

* `TypeCorrect`; `TypeInv` adds to TypeOK that the rows and accounts a later commit works on
  exist (`TaskOK`), and that the room Register has found for its row is still there.
* `AdminRemainsAlways`, assuming `AdminsToBegin`: every world starts with an active
  administrator, as the platform does. It is about the worlds without the two handlers that
  store the status and type they are sent (`Unguarded`; section 4).
  Of the others only toggleUser and updateStaff can take an administrator away, and each
  leaves another; every other one that writes an account writes a client's or leaves type and
  status alone.
* `NoTwinsAlways`, assuming `TwinsToBegin`: a world without the careless handlers starts
  without twins. `TwinInv`: two rows of a partner have two mailboxes, and no commit is pending
  that would write an address unchecked.
* `EmailsAgreeAlways`, assuming `AgreeingToBegin`: a world without the one-sided handlers
  starts with rows whose accounts exist and agree. `AgreeInv`: rows name accounts that exist
  (`Owned`), row and account have one mailbox except where a commit is pending (`Agree`), and
  what is pending will make them agree (`HalfDone`).

**Sign-in and portals** (Identity_proofs, part I, for Login and the Portal it extends), all
assuming `SoundScenes`: a teammate's owner
is an owner and he is none; a domain belongs to one brand and an active brand has one; a
session is of an account. Of rows of clients nothing is assumed: any account may have any.

* `SessionsTypeCorrect`, `OnePortalForEach`, `OriginsFollowBrands`,
  `CodesAreWorthOneSession`, `ViewsKeepTheirOperator`, and the action properties
  `SessionsFitTheirPortal` and `ViewsOpenAtHome`. What depends on a row of `clients` is said
  of every row a query may find (`Found`): door and e-mails agree if they find the same one;
  a session fits its portal by one; and a view a partner opens answers by the row view-as
  has checked, so that only a row of another partner can turn the operator away. One
  invariant, `LoginInv`, kept by every handler: the tables stay sound (`UsersOK`, `TeamOK`,
  `BrandOK`); an account has one open challenge, which has begun no session, a used one has
  begun one, and the attempts stored are the guesses made (`CodesOK`); beside the token of a
  view lies its operator's (`CookiesOK`).

**CRM** (CrmSync_proofs), all assuming `FreshWorlds`: the panel starts with requests nothing
has been done for in Zoho.

* `TypeCorrect`; `TypeInv` says that a handler at a request names one that exists.
* `DocumentsInTheRightFolder`, for overlapping imports. `RightInv`: a folder is a company's for
  good, and every account, request and handler that refers to one for a company refers to a
  folder of that company.
* `CompaniesHaveOneFolder` and `SynchronisedOnce`, for any finite number of workers of which a
  world uses one. `Sole`: what the only handler has read of account, folder, contact and link
  still holds when it acts on it, as nothing else changes them but the CRM making folders
  by itself.

## 7. Only model-checked

* *Liveness*: `StaleDraftsAreRemoved`, `HandlersEnd`, `EndedIsCut`, `PostedIsImported`. It is
  out of the prover's reach here, as is `ENABLED`. Every invariant, every action property
  and the refinement the runs check is stated by a theorem.

What holds only within bounds the code does not set itself: the properties checked, and
proved, for one handler at a time are broken by overlapping ones, as the hazards list says
(two overlapping checkouts create two customers, two overlapping payments sum what each has
seen, a request rejected while its approval calls the CRM is approved, for instance); such a
hazard lists no property. `ReceivedIsAnnounced` holds
for two overlapping handlers. With three TLC finds it violated: the wizard commits a
submission and will read the row again; an update that had read the draft saves it back; the
wizard reads a draft and tells nobody; and an update that had read the submission in between
saves it, as received and in silence. Nor does it hold with a crash between COMMIT and
announcement, for `createWizardRequest`, which announces nothing, for a manual payment, which
is the staff's own act, or for a row that the cleanup or a deletion takes from under a handler
that saves it again.

## 8. Not modelled, and why

* *Requests.* In the lifecycle a validation failure is
  `CreateFails`/`UpdateFails`/`WizCreateFails`; what is validated is RequestForms'. Several
  replicas running the cleanup at once.
* *Forms.* Fields other than the structure, the members and the sections after them;
  `syncAperturaLlcFieldsFromCrmAccount`'s tax number and address. A statement that needs two
  locks takes them at once; an edit of the panel is taken to change its form. With edits
  that overlap and leave the request's row unchanged (mode `free`, run for `HandlersEnd`
  only) no lock is taken on it and lists do mix; nothing in the repository says they do not.
  A handler overlaps with others once the request exists. The statements of the cleanup are
  RequestLifecycle's.
* *Invoicing.* The lines of one invoice call are one record carrying their sum, or none.
  Overlapping edits with empty lists keep the lines of
  both under the total of one, and are left out where handlers overlap. The
  rejection of lines without a description, and of payments that are not positive, changes
  nothing and is left out. Bodies carry no status or `draft` in the serial mode (what the
  panel sends), and none or `paid` where handlers overlap. A statement that fails between
  two commits of a handler is not modelled. Billing clients and PDFs are plain CRUD and
  formatting.
* *External.* Stripe (`charges.create`, `refunds.create`), Zoho (any answer), the AI (any
  answer), and the assumption that at least one active member of staff exists.
* *Billing.* An active subscription with ten newer ones, which the reconciliation does not
  list: `PaidIsSeen` is about the last `ListLimit`. Prices, line items, `current_period_end`
  and `daysPastDue`; a failing save (TypeORM's error ends the handler before it writes); the
  creation of portal users, which calls `ensureTrialWindow` on a row of its own.
* *Bank.* How a payee key is derived: what a source says of a movement (`Look`) is any
  value. A movement the two sources describe differently is stored through both, as
  docs/plaid-bank-sync-contabilidad.md:300 admits. `modified` and `removed` of a Plaid
  answer, which the code ignores; the rows of `bank_imports`; several bank accounts, and the
  creation of the first one; payees shorter than three characters, which are not compared;
  webhooks with other codes, which are only recorded; the weekly reminders, balances, and
  the verification of signatures.
* *Classification.* One owner: staff who classify every client's rows at once, and the
  filter by source; legacy categories and `categoryId`; the accounting date;
  confidences beyond the threshold; periods, months, the stored snapshot and the CSV of the
  profit and loss; `suggestCategory`, which only reads. An own account keeps its type. A
  run takes its rows in any order.
* *Directory.* Edits that name a `partnerId` or `userId`, and creations that name a
  `userId`, which the panel does not send; the columns `PATCH /users/:id` and `/users/me`
  store besides address, status and type; endpoints no screen or handler calls
  (`invitePlatformClientByUserId` by staff, `createUserFromClient`, the deprecated
  `createOrGetWizardUser`); phones, profiles, pictures and preferences. Handlers do not
  overlap: the hazards say what happens when they do.
* *Login and Portal.* Handlers run one at a time and are not interrupted. Registration
  through the API, settings other than those of production, the password itself (`ready` is
  whether its owner knows one), slugs, colours, assets and previews of a brand, and the
  permissions that guard other modules' handlers. Which of several rows a query finds is
  any: the door's order by `updatedAt` and the spelling of a row's address are left open.
  Accounts of clients are not created here but in Directory. An administrator, whom every
  door lets in, is outside `OnePortal`.
* *CrmSync.* Names of companies do not change; the rows of `clients` and the invitations
  an import makes are Directory's; subforms, attachments, timelines and the paging of the
  full import; a failing statement of the database within a row. The look-up of a contact
  and its use are one step.
* *Components without a model.* Pricing and process steps are rows edited one at a time,
  with nothing that takes more than one call to break. Uploads and media are next
  (section 9). Settings, library, reports, dashboard, logs, Lili, geo, mail and PDF are
  CRUD without shared state, read-only queries, formatting or transport.

## 9. Plan

Worth modelling next: uploads (objects in the bucket against the rows that name them, and
the move of files after a request's COMMIT), the refresh of Zoho's tokens by concurrent
calls, and overlapping sign-ins (two verifications of one code each save the challenge they
read).
Worth proving next: `ReceivedIsAnnounced` with crashes, once the code has an outbox; and what
overlapping payments leave of an invoice, once its handlers lock the row.
