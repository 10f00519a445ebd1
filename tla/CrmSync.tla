------------------------------- MODULE CrmSync -------------------------------
(***************************************************************************)
(* What the panel writes to Zoho: contacts, accounts and the links between *)
(* them in the CRM, and a folder for every company in WorkDrive, with the  *)
(* documents a partner uploads.  Requests get there when staff synchronise *)
(* one, when a partner imports a CSV of his clients (each row is a request *)
(* that is committed, synchronised and given a folder), or with a ZIP of   *)
(* documents alone; the links to the folders are made up for when the API  *)
(* starts.                                                                 *)
(*                                                                         *)
(* The database, the CRM and WorkDrive share no transaction: a step ends   *)
(* with one call or one statement, any call may fail, and the process may  *)
(* stop before the next.  The CRM finds accounts by their name, so here a  *)
(* company's name is its account; names do not change.                     *)
(***************************************************************************)
EXTENDS Integers, Sequences, FiniteSets

CONSTANTS
    Workers,      \* handlers that may run at a time
    Mails,        \* clients, by their address
    Partners,     \* partners, by their address
    Platform,     \* the owner of a request that is no partner's
    Llcs,         \* names of companies
    NoLlc,        \* a form without a name
    Files,        \* what partners upload: [rows: Seq(Row), zip: SUBSET Llcs]
    Worlds,       \* what a model starts from and what may happen in it
    MaxRequests,  \* bound: requests
    MaxFolders,   \* bound: folders
    MaxTwins,     \* bound: contacts with one address, or links of one pair
    MaxCalls      \* bound: handler invocations

Ops == {"sync", "csv", "zip", "stage", "start", "crm", "crash"}

\* call: a call to the CRM or to WorkDrive fails; lookup: the account cannot be
\* read before its folder is made; token: no token for WorkDrive.
Faults == {"call", "lookup", "token"}

Addresses == Mails \cup Partners
Owners == Partners \cup {Platform}
Row == [mail: Mails, llc: Llcs]
Zip == SUBSET Llcs              \* the companies its folders are named for
RequestId == 0..MaxRequests
FolderId == 0..MaxFolders
ContactId == 0..MaxTwins

\* work_drive_url_external: the permalink of a folder as it is, or as an embedded
\* page, or NOT_AVAILABLE.
Url == [kind: {"none", "permalink", "embed", "gone"}, folder: FolderId]
NoUrl == [kind |-> "none", folder |-> 0]

Request == [owner: Owners, mail: Mails, llc: Llcs \cup {NoLlc},
            synced: BOOLEAN, folder: FolderId, url: Url]

NewRequest(owner, row) ==
    [owner |-> owner, mail |-> row.mail, llc |-> row.llc,
     synced |-> FALSE, folder |-> 0, url |-> NoUrl]

Account == [exists: BOOLEAN, folder: FolderId, members: SUBSET RequestId]
Folder == [llc: Llcs, docs: SUBSET Llcs]
Link == [llc: Llcs, address: Addresses, contact: ContactId, n: 1..MaxTwins]

ASSUME NamesAssumption ==
    Mails \cap Partners = {} /\ Platform \notin Partners /\ NoLlc \notin Llcs
ASSUME FilesAssumption ==
    \A file \in Files : file.rows \in Seq(Row) /\ file.zip \in Zip
ASSUME BoundsAssumption ==
    MaxRequests \in Nat /\ MaxFolders \in Nat /\ MaxTwins \in Nat /\ MaxCalls \in Nat
ASSUME WorldsAssumption ==
    \A world \in Worlds :
        /\ world.ops \subseteq Ops /\ world.faults \subseteq Faults
        /\ world.workers \subseteq Workers
        /\ world.requests \in Seq(Request)

\* The panel starts with requests that nothing has been done for in Zoho yet.
FreshWorlds ==
    \A v \in Worlds :
        /\ Len(v.requests) <= MaxRequests
        /\ \A r \in DOMAIN v.requests :
              /\ ~v.requests[r].synced
              /\ v.requests[r].folder = 0 /\ v.requests[r].url = NoUrl

Pc == {"idle", "row", "insert", "contact", "create", "keep", "upsert", "save", "link", "relate",
       "members", "lookup", "embed", "folder", "account", "store", "docs", "zip",
       "backfill", "stage"}

\* A handler: the rows still to import and the keys it skips, the folders still to
\* unpack, the requests still to visit; the request it is at, the contact and the
\* folder it has found for it.
Task == [pc: Pc, partner: Owners, rows: Seq(Row), known: SUBSET Row, zip: Zip,
         targets: SUBSET (Llcs \X FolderId), todo: SUBSET RequestId,
         request: RequestId, contact: ContactId, folder: FolderId, url: Url]

Idle == [pc |-> "idle", partner |-> Platform, rows |-> <<>>, known |-> {}, zip |-> {},
         targets |-> {}, todo |-> {}, request |-> 0, contact |-> 0, folder |-> 0,
         url |-> NoUrl]

VARIABLES
    world,      \* what may happen
    requests,
    contactOf,  \* zoho_contact_id of the client or the partner with an address
    contacts,   \* Contacts in the CRM with an address
    accounts,   \* Accounts in the CRM
    links,      \* ContactsxAccounts
    folders,    \* WorkDrive
    booted,     \* onModuleInit has run
    task,
    calls

crm == <<contacts, accounts, links>>
vars == <<world, requests, contactOf, crm, folders, booted, task, calls>>

TypeOK ==
    /\ world \in Worlds
    /\ requests \in Seq(Request) /\ Len(requests) <= MaxRequests
    /\ contactOf \in [Addresses -> ContactId]
    /\ contacts \in [Addresses -> ContactId]
    /\ accounts \in [Llcs -> Account]
    /\ links \subseteq Link
    /\ folders \in Seq(Folder) /\ Len(folders) <= MaxFolders
    /\ booted \in BOOLEAN
    /\ task \in [Workers -> Task]
    /\ calls \in 0..MaxCalls

Init ==
    /\ world \in Worlds
    /\ requests = world.requests
    /\ contactOf = [a \in Addresses |-> 0]
    /\ contacts = [a \in Addresses |-> 0]
    /\ accounts = [llc \in Llcs |-> [exists |-> FALSE, folder |-> 0, members |-> {}]]
    /\ links = {}
    /\ folders = <<>>
    /\ booted = FALSE
    /\ task = [w \in Workers |-> Idle]
    /\ calls = 0

-----------------------------------------------------------------------------
Fails(fault) == fault \in world.faults

Begins(w, op) ==
    /\ op \in world.ops
    /\ w \in world.workers
    /\ task[w] = Idle
    /\ calls < MaxCalls
    /\ calls' = calls + 1
    /\ UNCHANGED world

At(w, pc) == task[w].pc = pc /\ UNCHANGED <<world, calls, booted>>

Becomes(w, next) == task' = [task EXCEPT ![w] = next]
Goes(w, pc) == Becomes(w, [task[w] EXCEPT !.pc = pc])
Done(w) == Becomes(w, Idle)

Imports(w) == task[w].partner # Platform

\* An import goes on with its next row, whatever became of the last one.
NextRow(w) ==
    IF Imports(w)
    THEN Becomes(w, [task[w] EXCEPT !.pc = "row", !.request = 0, !.contact = 0, !.folder = 0])
    ELSE Done(w)

Current(w) == requests[task[w].request]
Llc(w) == Current(w).llc

\* Whose contact a request is linked with: the partner's, or else the client's.
Address(r) == IF requests[r].owner = Platform THEN requests[r].mail ELSE requests[r].owner

-----------------------------------------------------------------------------
(* syncRequestToZoho *)

BeginSync(w, r) ==
    /\ Begins(w, "sync")
    /\ Becomes(w, [Idle EXCEPT !.pc = "contact", !.request = r])
    /\ UNCHANGED <<requests, contactOf, crm, folders, booted>>

\* Deliberately wrong: nobody looks for the contact.
ContactUnsought(w) ==
    LET address == Address(task[w].request)
    IN /\ At(w, "contact")
       /\ IF contactOf[address] # 0
          THEN Becomes(w, [task[w] EXCEPT !.pc = "upsert", !.contact = contactOf[address]])
          ELSE Goes(w, "create")
       /\ UNCHANGED <<requests, contactOf, crm, folders>>

\* findOrCreateContact and findOrCreatePartnerContact: a contact is looked for by
\* its address.  Neither throws; a request may go on without one.
Contact(w) ==
    LET address == Address(task[w].request)
    IN /\ At(w, "contact")
       /\ \/ /\ contactOf[address] # 0
             /\ Becomes(w, [task[w] EXCEPT !.pc = "upsert", !.contact = contactOf[address]])
          \/ /\ contactOf[address] = 0
             /\ \E found \in 1..contacts[address] :
                    Becomes(w, [task[w] EXCEPT !.pc = "keep", !.contact = found])
          \/ /\ contactOf[address] = 0 /\ contacts[address] = 0
             /\ Goes(w, "create")
          \/ /\ contactOf[address] = 0 /\ Fails("call")
             /\ Goes(w, "upsert")
       /\ UNCHANGED <<requests, contactOf, crm, folders>>

\* A contact whose id does not come back is found the next time.
CreateContact(w) ==
    LET address == Address(task[w].request)
        n == contacts[address] + 1
    IN /\ At(w, "create")
       /\ \/ /\ n <= MaxTwins
             /\ contacts' = [contacts EXCEPT ![address] = n]
             /\ \/ Becomes(w, [task[w] EXCEPT !.pc = "keep", !.contact = n])
                \/ Fails("call") /\ Goes(w, "upsert")
          \/ Fails("call") /\ Goes(w, "upsert") /\ UNCHANGED contacts
       /\ UNCHANGED <<requests, contactOf, accounts, links, folders>>

KeepContact(w) ==
    /\ At(w, "keep")
    /\ contactOf' = [contactOf EXCEPT ![Address(task[w].request)] = task[w].contact]
    /\ Goes(w, "upsert")
    /\ UNCHANGED <<requests, crm, folders>>

\* The account is created or updated by its name, which it must have.  When the
\* CRM refuses the shares of the members an account that is there is taken as it
\* is.  An answer that is lost leaves the account written.
Upsert(w) ==
    /\ At(w, "upsert")
    /\ \/ /\ Llc(w) \in Llcs
          /\ accounts' = [accounts EXCEPT ![Llc(w)].exists = TRUE]
          /\ Goes(w, "save")
       \/ /\ Llc(w) = NoLlc \/ Fails("call")
          /\ accounts' \in {accounts} \cup
                {[accounts EXCEPT ![llc].exists = TRUE] : llc \in {Llc(w)} \cap Llcs}
          /\ NextRow(w)
    /\ UNCHANGED <<requests, contactOf, contacts, links, folders>>

Save(w) ==
    /\ At(w, "save")
    /\ requests' = [requests EXCEPT ![task[w].request].synced = TRUE]
    /\ Goes(w, "link")
    /\ UNCHANGED <<contactOf, crm, folders>>

\* syncContactAccountLink: looks for the link, and creates it.  It does not throw.
Related(w) ==
    \E l \in links : /\ l.llc = Llc(w)
                     /\ l.address = Address(task[w].request)
                     /\ l.contact = task[w].contact

FindLink(w) ==
    /\ At(w, "link")
    /\ \/ /\ task[w].contact = 0 \/ Related(w) \/ Fails("call")
          /\ Goes(w, "members")
       \/ /\ task[w].contact # 0 /\ ~Related(w)
          /\ Goes(w, "relate")
    /\ UNCHANGED <<requests, contactOf, crm, folders>>

CreateLink(w) ==
    /\ At(w, "relate")
    /\ \/ \E n \in 1..MaxTwins :
            LET link == [llc |-> Llc(w), address |-> Address(task[w].request),
                         contact |-> task[w].contact, n |-> n]
            IN /\ link \notin links
               /\ \A m \in 1..(n - 1) : [link EXCEPT !.n = m] \in links
               /\ links' = links \cup {link}
       \/ Fails("call") /\ UNCHANGED links
    /\ Goes(w, "members")
    /\ UNCHANGED <<requests, contactOf, contacts, accounts, folders>>

\* syncMembersToPropietariosLlc: those there are are updated, nobody is removed.
WithMembersOf(r, llc) == [accounts EXCEPT ![llc].members = @ \cup {r}]

\* The members become owners of the account, which does not throw (nor does the
\* attachment of their files, left out).  An imported request has none.
PushMembers(w) ==
    /\ At(w, "members")
    /\ IF Imports(w)
       THEN Goes(w, "lookup") /\ UNCHANGED accounts
       ELSE /\ \/ accounts' = WithMembersOf(task[w].request, Llc(w))
               \/ Fails("call") /\ UNCHANGED accounts
            /\ Done(w)
    /\ UNCHANGED <<requests, contactOf, contacts, links, folders>>

-----------------------------------------------------------------------------
(* provisionWorkDriveForCrmAccount *)

\* Deliberately wrong: every request gets a folder of its own.
LookupSkipped(w) ==
    /\ At(w, "lookup")
    /\ Goes(w, "folder")
    /\ UNCHANGED <<requests, contactOf, crm, folders>>

\* The folder of the account, if it can be read and has one.
Lookup(w) ==
    LET folder == accounts[Llc(w)].folder
    IN /\ At(w, "lookup")
       /\ \/ /\ folder # 0
             /\ Becomes(w, [task[w] EXCEPT !.pc = "embed", !.folder = folder])
          \/ /\ folder = 0 \/ Fails("lookup")
             /\ Goes(w, "folder")
       /\ UNCHANGED <<requests, contactOf, crm, folders>>

\* convertPermalinkToEmbedUrl.
Embedded(folder) == [kind |-> "embed", folder |-> folder]

\* ensureRequestWorkDriveEmbed.
Embed(w) ==
    /\ At(w, "embed")
    /\ \/ /\ Current(w).url.kind = "embed"
          /\ Goes(w, "docs")
          /\ UNCHANGED requests
       \/ /\ Current(w).url.kind # "embed"
          /\ requests' = [requests EXCEPT ![task[w].request].folder = task[w].folder,
                                          ![task[w].request].url = Embedded(task[w].folder)]
          /\ Goes(w, "docs")
       \/ /\ Current(w).url.kind # "embed" /\ Fails("call")
          /\ NextRow(w)
          /\ UNCHANGED requests
    /\ UNCHANGED <<contactOf, crm, folders>>

NewFolder(llc) == Append(folders, [llc |-> llc, docs |-> {}])

\* provisionAccountFolderStructure: the folder, and then its link, the folders in
\* it and its permalink.  A failure after the first leaves the folder behind.
MakeFolder(w) ==
    /\ At(w, "folder")
    /\ \/ /\ Len(folders) < MaxFolders
          /\ folders' = NewFolder(Llc(w))
          /\ \/ Becomes(w, [task[w] EXCEPT !.pc = "account", !.folder = Len(folders) + 1])
             \/ Fails("call") /\ NextRow(w)
       \/ Fails("call") /\ NextRow(w) /\ UNCHANGED folders
    /\ UNCHANGED <<requests, contactOf, crm>>

SetAccountFolder(w) ==
    /\ At(w, "account")
    /\ \/ /\ accounts' = [accounts EXCEPT ![Llc(w)].folder = task[w].folder]
          /\ Goes(w, "store") \/ (Fails("call") /\ NextRow(w))
       \/ Fails("call") /\ NextRow(w) /\ UNCHANGED accounts
    /\ UNCHANGED <<requests, contactOf, contacts, links, folders>>

StoreFolder(w) ==
    /\ At(w, "store")
    /\ requests' = [requests EXCEPT ![task[w].request].folder = task[w].folder,
                                    ![task[w].request].url = Embedded(task[w].folder)]
    /\ Goes(w, "docs")
    /\ UNCHANGED <<contactOf, crm, folders>>

-----------------------------------------------------------------------------
(* The import of a partner: partner-clients-import.service.ts *)

RequestsOf(p) == {r \in DOMAIN requests : requests[r].owner = p}
Key(r) == [mail |-> requests[r].mail, llc |-> requests[r].llc]

\* loadExistingDuplicateKeys.
Keys(p) == {Key(r) : r \in {s \in RequestsOf(p) : requests[s].llc # NoLlc}}

\* Which rows are new is decided before the first is imported.
BeginImport(w, p, file) ==
    /\ Begins(w, "csv")
    /\ file.rows # <<>>
    /\ Becomes(w, [Idle EXCEPT !.pc = "row", !.partner = p, !.rows = file.rows,
                               !.known = Keys(p), !.zip = file.zip])
    /\ UNCHANGED <<requests, contactOf, crm, folders, booted>>

\* importRow: a transaction looks for the request of the client again, ...
ImportRow(w) ==
    LET row == Head(task[w].rows)
    IN /\ At(w, "row")
       /\ task[w].rows # <<>>
       /\ IF row \in task[w].known \cup Keys(task[w].partner)
          THEN Becomes(w, [task[w] EXCEPT !.rows = Tail(@), !.known = @ \cup {row}])
          ELSE Goes(w, "insert")
       /\ UNCHANGED <<requests, contactOf, crm, folders>>

\* ... and inserts it.  No unique key keeps two that have looked from doing so.
InsertRow(w) ==
    LET row == Head(task[w].rows)
    IN /\ At(w, "insert")
       /\ Len(requests) < MaxRequests
       /\ requests' = Append(requests, NewRequest(task[w].partner, row))
       /\ Becomes(w, [task[w] EXCEPT !.rows = Tail(@), !.known = @ \cup {row},
                                     !.pc = "contact", !.request = Len(requests) + 1])
       /\ UNCHANGED <<contactOf, crm, folders>>

EndImport(w) ==
    /\ At(w, "row")
    /\ task[w].rows = <<>>
    /\ Done(w)
    /\ UNCHANGED <<requests, contactOf, crm, folders>>

\* uploadDocumentTree, which throws for no file.
Unpacked(llc, folder) == [folders EXCEPT ![folder].docs = @ \cup {llc}]

Upload(w) ==
    /\ At(w, "docs")
    /\ \/ /\ Llc(w) \in task[w].zip
          /\ folders' = Unpacked(Llc(w), task[w].folder)
       \/ /\ Llc(w) \notin task[w].zip \/ Fails("call")
          /\ UNCHANGED folders
    /\ NextRow(w)
    /\ UNCHANGED <<requests, contactOf, crm>>

\* Deliberately wrong: any request of the partner will do.
NamedAnyhow(r, llc) == TRUE

\* normalizeLlcFolderKey, which the names in a ZIP are compared by.
Named(r, llc) == requests[r].llc = llc

\* previewZipOnly: of the folders of the ZIP, those that name a company of the
\* partner with a folder in WorkDrive.  A company that two clients have stands for
\* one of them.  A form without a name makes the whole upload fail.
BeginZip(w, p, zip) ==
    LET named == {llc \in zip : \E r \in RequestsOf(p) : Named(r, llc)}
    IN /\ Begins(w, "zip")
       /\ \A r \in RequestsOf(p) : requests[r].llc # NoLlc
       /\ \E target \in [named -> RequestsOf(p)] :
            LET targets == {<<llc, requests[target[llc]].folder>> : llc \in named}
                            \cap (Llcs \X (1..MaxFolders))
            IN /\ \A llc \in named : Named(target[llc], llc)
               /\ targets # {}
               /\ Becomes(w, [Idle EXCEPT !.pc = "zip", !.partner = p,
                                          !.targets = targets])
       /\ UNCHANGED <<requests, contactOf, crm, folders, booted>>

UnpackZip(w) ==
    /\ At(w, "zip")
    /\ \E t \in task[w].targets :
        /\ folders' \in {Unpacked(t[1], t[2])} \cup {f \in {folders} : Fails("call")}
        /\ IF task[w].targets = {t} THEN Done(w)
           ELSE Becomes(w, [task[w] EXCEPT !.targets = @ \ {t}])
    /\ UNCHANGED <<requests, contactOf, crm>>

-----------------------------------------------------------------------------
(* The links to the folders *)

\* backfillMissingWorkDrivePermalinks runs once in a process, over the requests that
\* have a folder and no link when it starts.
BeginBackfill(w) ==
    /\ Begins(w, "start")
    /\ ~booted /\ booted' = TRUE
    /\ LET todo == {r \in DOMAIN requests :
                        requests[r].folder # 0 /\ requests[r].url.kind = "none"}
       IN todo # {} /\ Becomes(w, [Idle EXCEPT !.pc = "backfill", !.todo = todo])
    /\ UNCHANGED <<requests, contactOf, crm, folders>>

Permalink(folder) == [kind |-> "permalink", folder |-> folder]

\* Three attempts.  The one answer with status 401 is that of the token: what
\* WorkDrive itself answers is rethrown with status 500.
Backfill(w) ==
    /\ At(w, "backfill")
    /\ \E r \in task[w].todo :
        /\ \E url \in {Permalink(requests[r].folder)}
                \cup {u \in {requests[r].url} : Fails("call")}
                \cup {u \in {[kind |-> "gone", folder |-> 0]} : Fails("token")} :
            requests' = [requests EXCEPT ![r].url = url]
        /\ IF task[w].todo = {r} THEN Done(w)
           ELSE Becomes(w, [task[w] EXCEPT !.todo = @ \ {r}])
    /\ UNCHANGED <<contactOf, crm, folders>>

\* syncStageStatusAndWorkdriveByAccountId: one of the requests of the account.
BeginStage(w, r) ==
    /\ Begins(w, "stage")
    /\ requests[r].synced
    /\ Becomes(w, [Idle EXCEPT !.pc = "stage", !.request = r,
                               !.folder = requests[r].folder, !.url = requests[r].url])
    /\ UNCHANGED <<requests, contactOf, crm, folders, booted>>

\* updateRequestStatusFromDeals saves the request it has read, with the folder of
\* the account and a link to it if it had none.
Stage(w) ==
    LET account == accounts[Llc(w)]
        folder == IF account.folder # 0 THEN account.folder ELSE task[w].folder
    IN /\ At(w, "stage")
       /\ \E url \in {IF task[w].url.kind = "none" /\ account.folder # 0
                      THEN Permalink(account.folder) ELSE task[w].url}
                \cup {u \in {task[w].url} : Fails("call")} :
            requests' \in {[requests EXCEPT ![task[w].request].folder = folder,
                                            ![task[w].request].url = url]}
                    \cup {same \in {requests} : account.folder = 0 \/ Fails("call")}
       /\ Done(w)
       /\ UNCHANGED <<contactOf, crm, folders>>

\* A function of the CRM makes the folder of an account there.
FolderInCrm(llc) ==
    /\ "crm" \in world.ops
    /\ accounts[llc].exists /\ accounts[llc].folder = 0
    /\ Len(folders) < MaxFolders
    /\ folders' = NewFolder(llc)
    /\ accounts' = [accounts EXCEPT ![llc].folder = Len(folders) + 1]
    /\ UNCHANGED <<world, requests, contactOf, contacts, links, booted, task, calls>>

\* The process stops.
Crash ==
    /\ "crash" \in world.ops
    /\ \E w \in Workers : task[w] # Idle
    /\ task' = [w \in Workers |-> Idle]
    /\ booted' = FALSE
    /\ UNCHANGED <<world, requests, contactOf, crm, folders, calls>>

-----------------------------------------------------------------------------
Begin(w) ==
    \/ \E r \in DOMAIN requests : BeginSync(w, r) \/ BeginStage(w, r)
    \/ \E p \in Partners, file \in Files : BeginImport(w, p, file)
    \/ \E p \in Partners, zip \in Zip : BeginZip(w, p, zip)
    \/ BeginBackfill(w)

Advance(w) ==
    \/ Contact(w) \/ CreateContact(w) \/ KeepContact(w) \/ Upsert(w) \/ Save(w)
    \/ FindLink(w) \/ CreateLink(w) \/ PushMembers(w)
    \/ Lookup(w) \/ Embed(w) \/ MakeFolder(w) \/ SetAccountFolder(w) \/ StoreFolder(w)
    \/ ImportRow(w) \/ InsertRow(w) \/ EndImport(w) \/ Upload(w) \/ UnpackZip(w)
    \/ Backfill(w) \/ Stage(w)

Next ==
    \/ \E w \in Workers : Begin(w) \/ Advance(w)
    \/ \E llc \in Llcs : FolderInCrm(llc)
    \/ Crash

Spec == Init /\ [][Next]_vars

-----------------------------------------------------------------------------
(* Properties *)

\* However imports overlap and whichever calls fail, a document a partner uploads
\* for one company is never in the folder of another.
RightFolder == \A f \in DOMAIN folders : folders[f].docs \subseteq {folders[f].llc}

Alone == Cardinality(world.workers) = 1

\* The panel, the CRM and WorkDrive agree on the folder of a company after any failure
\* and any stop: the folder of a request is that of its account, and the link it shows
\* opens it.  Two handlers at a time, folders the CRM makes during an import, and
\* accounts that cannot be read break it.
OneFolder ==
    (Alone /\ "lookup" \notin world.faults /\ ~({"crm", "csv"} \subseteq world.ops)) =>
        \A r \in DOMAIN requests :
            /\ requests[r].folder # 0 => requests[r].folder = accounts[requests[r].llc].folder
            /\ requests[r].url.folder \in {0, requests[r].folder}

\* A synchronisation that fails, stops and is tried again makes one contact of an
\* address and one link of a pair, when handlers run one at a time.
OnceEach ==
    Alone => /\ \A a \in Addresses : contacts[a] <= 1
             /\ \A l \in links : l.n = 1
=============================================================================
