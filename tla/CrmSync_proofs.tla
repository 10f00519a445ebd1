----------------------------- MODULE CrmSync_proofs -----------------------------
(***************************************************************************)
(* Theorems about CrmSync, for every number of handlers, companies,        *)
(* clients and partners, and whatever calls fail.                          *)
(***************************************************************************)
EXTENDS CrmSync, SequenceTheorems, FiniteSetTheorems, TLAPS

-----------------------------------------------------------------------------
(* The inductive invariant for typing: a handler at a request names one that  *)
(* exists, and past the CRM one whose company has a name.                     *)

RequestPc == {"contact", "create", "keep", "upsert", "save", "link", "relate", "members",
              "lookup", "embed", "folder", "account", "store", "docs", "stage"}

NamedPc == RequestPc \ {"contact", "create", "keep", "upsert"}

GoodTask(t, Q) ==
    /\ t.pc \in RequestPc => t.request \in DOMAIN Q
    /\ t.pc \in NamedPc => Q[t.request].llc \in Llcs
    /\ t.pc = "insert" => t.rows # <<>>
    /\ t.todo \subseteq DOMAIN Q

RequestsOK(Q) ==
    /\ Q \in Seq(Request) /\ Len(Q) <= MaxRequests
    /\ \A r \in DOMAIN Q : Q[r].synced => Q[r].llc \in Llcs

CrmOK ==
    /\ contactOf \in [Addresses -> ContactId] /\ contacts \in [Addresses -> ContactId]
    /\ accounts \in [Llcs -> Account] /\ links \subseteq Link

FoldersOK == folders \in Seq(Folder) /\ Len(folders) <= MaxFolders

TasksOK == task \in [Workers -> Task] /\ \A w \in Workers : GoodTask(task[w], requests)

RestOK == world \in Worlds /\ booted \in BOOLEAN /\ calls \in 0..MaxCalls

TypeInv == RequestsOK(requests) /\ CrmOK /\ FoldersOK /\ TasksOK /\ RestOK

\* Requests are added, never removed, and who and what they are for stays.
Grew(Q, R) ==
    \A r \in DOMAIN Q : /\ r \in DOMAIN R
                        /\ R[r].owner = Q[r].owner /\ R[r].mail = Q[r].mail
                        /\ R[r].llc = Q[r].llc

LEMMA TypeInvTypeOK == TypeInv => TypeOK
BY DEF TypeInv, TypeOK, RequestsOK, CrmOK, FoldersOK, TasksOK, RestOK

LEMMA NoUrlType == NoUrl \in Url
BY BoundsAssumption DEF NoUrl, Url, FolderId

LEMMA IdleType == Idle \in Task /\ Idle.pc = "idle" /\ Idle.todo = {} /\ Idle.partner = Platform
<1>1. <<>> \in Seq(Row)
  OBVIOUS
<1> QED
  BY <1>1, NoUrlType, BoundsAssumption
     DEF Idle, Task, Pc, Owners, Zip, RequestId, ContactId, FolderId

LEMMA GoodIdle == \A Q : GoodTask(Idle, Q)
BY IdleType DEF GoodTask, RequestPc, NamedPc

LEMMA GrewSame == \A Q : Grew(Q, Q)
BY DEF Grew

LEMMA GrewTask ==
    ASSUME NEW t, NEW Q, NEW R, Grew(Q, R), GoodTask(t, Q)
    PROVE  GoodTask(t, R)
BY DEF Grew, GoodTask, NamedPc

LEMMA Moves ==
    ASSUME TasksOK, NEW w \in Workers, NEW n \in Task, Becomes(w, n),
           Grew(requests, requests'), GoodTask(n, requests')
    PROVE  TasksOK'
<1>1. task' \in [Workers -> Task] /\ \A v \in Workers : task'[v] = IF v = w THEN n ELSE task[v]
  BY DEF TasksOK, Becomes
<1>2. \A v \in Workers : GoodTask(task[v], requests')
  BY GrewTask DEF TasksOK
<1>3. \A v \in Workers : GoodTask(task'[v], requests')
  BY <1>1, <1>2
<1> QED
  BY <1>1, <1>3 DEF TasksOK

\* A handler goes on, or is done, while the requests stay.
LEMMA MovesOn ==
    ASSUME TasksOK, NEW w \in Workers, NEW n \in Task, Becomes(w, n),
           UNCHANGED requests, GoodTask(n, requests)
    PROVE  TasksOK'
BY Moves, GrewSame

LEMMA Ends ==
    ASSUME TasksOK, NEW w \in Workers, Done(w), Grew(requests, requests')
    PROVE  TasksOK'
BY Moves, IdleType, GoodIdle DEF Done

LEMMA GoesOn ==
    ASSUME TasksOK, NEW w \in Workers, NEW pc \in Pc, Goes(w, pc),
           Grew(requests, requests'),
           pc # "insert", pc \in RequestPc => task[w].pc \in RequestPc,
           pc \in NamedPc => requests[task[w].request].llc \in Llcs
    PROVE  TasksOK'
<1> DEFINE t == task[w]
           n == [t EXCEPT !.pc = pc]
<1>1. t \in Task /\ GoodTask(t, requests)
  BY DEF TasksOK
<1>2. /\ n \in Task /\ n.pc = pc /\ n.request = t.request /\ n.todo = t.todo
  BY <1>1 DEF Task
<1>3. t.pc \in RequestPc => t.request \in DOMAIN requests
  BY <1>1 DEF GoodTask
<1>4. t.todo \subseteq DOMAIN requests
  BY <1>1 DEF GoodTask
<1>5. Becomes(w, n)
  BY DEF Goes
<1> HIDE DEF n
<1>6. GoodTask(n, requests)
  BY <1>2, <1>3, <1>4 DEF GoodTask, NamedPc
<1> QED
  BY <1>2, <1>5, <1>6, Moves, GrewTask

LEMMA NextRowType ==
    ASSUME TasksOK, NEW w \in Workers, NextRow(w), Grew(requests, requests')
    PROVE  TasksOK'
<1> DEFINE t == task[w]
           n == [t EXCEPT !.pc = "row", !.request = 0, !.contact = 0, !.folder = 0]
<1>1. t \in Task /\ GoodTask(t, requests)
  BY DEF TasksOK
<1>2. n \in Task /\ n.pc = "row" /\ n.todo = t.todo
  <2>1. "row" \in Pc /\ 0 \in RequestId /\ 0 \in ContactId /\ 0 \in FolderId
    BY BoundsAssumption DEF Pc, RequestId, ContactId, FolderId
  <2> QED
    BY <1>1, <2>1 DEF Task
<1>3. Done(w) \/ Becomes(w, n)
  BY DEF NextRow
<1> HIDE DEF n
<1>4. GoodTask(n, requests)
  BY <1>1, <1>2 DEF GoodTask, RequestPc, NamedPc
<1>5. GoodTask(n, requests')
  BY <1>4, GrewTask
<1> QED
  BY <1>2, <1>3, <1>5, Moves, Ends

\* What typing says of a handler.
LEMMA TaskFields ==
    ASSUME TypeInv, NEW w \in Workers
    PROVE  /\ task[w] \in Task /\ GoodTask(task[w], requests)
           /\ DOMAIN requests = 1..Len(requests) /\ Len(requests) \in Nat
           /\ \A r \in DOMAIN requests : requests[r] \in Request
           /\ DOMAIN folders = 1..Len(folders) /\ Len(folders) \in Nat
           /\ \A f \in DOMAIN folders : folders[f] \in Folder
BY DEF TypeInv, TasksOK, RequestsOK, FoldersOK

LEMMA AddressType ==
    ASSUME TypeInv, NEW r \in DOMAIN requests
    PROVE  Address(r) \in Addresses
<1>1. requests[r] \in Request
  BY DEF TypeInv, RequestsOK
<1> QED
  BY <1>1 DEF Address, Addresses, Request, Owners

\* One request is written.
LEMMA Written ==
    ASSUME NEW Q, RequestsOK(Q), NEW r \in DOMAIN Q, NEW q \in Request,
           q.owner = Q[r].owner, q.mail = Q[r].mail, q.llc = Q[r].llc,
           q.synced => q.llc \in Llcs
    PROVE  /\ RequestsOK([Q EXCEPT ![r] = q]) /\ Grew(Q, [Q EXCEPT ![r] = q])
           /\ DOMAIN [Q EXCEPT ![r] = q] = DOMAIN Q
           /\ \A k \in DOMAIN Q : [Q EXCEPT ![r] = q][k] = IF k = r THEN q ELSE Q[k]
<1> DEFINE R == [Q EXCEPT ![r] = q]
<1>1. Q \in Seq(Request) /\ r \in 1..Len(Q) /\ DOMAIN Q = 1..Len(Q)
  BY DEF RequestsOK
<1>2. /\ R \in Seq(Request) /\ Len(R) = Len(Q)
      /\ \A k \in 1..Len(Q) : R[k] = IF k = r THEN q ELSE Q[k]
  BY <1>1, ExceptSeq
<1>3. DOMAIN R = DOMAIN Q
  OBVIOUS
<1> HIDE DEF R
<1>4. Grew(Q, R)
  BY <1>1, <1>2, <1>3 DEF Grew
<1>5. RequestsOK(R)
  BY <1>1, <1>2, <1>3 DEF RequestsOK
<1> QED
  BY <1>1, <1>2, <1>3, <1>4, <1>5 DEF R

-----------------------------------------------------------------------------
(* What a handler begins with.                                             *)

Typed == TypeInv' /\ Grew(requests, requests')

LEMMA Rest ==
    ASSUME TypeInv, NEW w, NEW pc, At(w, pc)
    PROVE  RestOK' /\ UNCHANGED world
BY DEF TypeInv, RestOK, At

LEMMA BeginRest ==
    ASSUME TypeInv, NEW w, NEW op, Begins(w, op), booted' \in BOOLEAN
    PROVE  RestOK' /\ UNCHANGED world
BY BoundsAssumption DEF TypeInv, RestOK, Begins

\* Where only the handler moves, it is the handler that is to be typed.
LEMMA OnlyTask ==
    ASSUME TypeInv, RestOK', TasksOK', UNCHANGED <<requests, contactOf, crm, folders>>
    PROVE  Typed
BY GrewSame DEF Typed, TypeInv, RequestsOK, CrmOK, FoldersOK, crm

LEMMA TypedSync ==
    ASSUME TypeInv, NEW w \in Workers, NEW r \in DOMAIN requests, BeginSync(w, r)
    PROVE  Typed
<1> DEFINE n == [Idle EXCEPT !.pc = "contact", !.request = r]
<1>1. r \in RequestId /\ "contact" \in Pc
  BY TaskFields, BoundsAssumption DEF TypeInv, RequestsOK, RequestId, Pc
<1>2. n \in Task /\ n.pc = "contact" /\ n.request = r /\ n.todo = {}
  BY <1>1, IdleType DEF Task
<1>3. Becomes(w, n) /\ Begins(w, "sync") /\ UNCHANGED <<requests, contactOf, crm, folders, booted>>
  BY DEF BeginSync
<1> HIDE DEF n
<1>4. GoodTask(n, requests)
  BY <1>2 DEF GoodTask, NamedPc
<1>5. TasksOK'
  BY <1>2, <1>3, <1>4, MovesOn DEF TypeInv
<1>6. RestOK'
  BY <1>3, BeginRest DEF TypeInv, RestOK
<1> QED
  BY <1>3, <1>5, <1>6, OnlyTask

LEMMA TypedBeginStage ==
    ASSUME TypeInv, NEW w \in Workers, NEW r \in DOMAIN requests, BeginStage(w, r)
    PROVE  Typed
<1> DEFINE n == [Idle EXCEPT !.pc = "stage", !.request = r,
                             !.folder = requests[r].folder, !.url = requests[r].url]
<1>1. r \in RequestId /\ "stage" \in Pc
  BY TaskFields, BoundsAssumption DEF TypeInv, RequestsOK, RequestId, Pc
<1>2. requests[r].folder \in FolderId /\ requests[r].url \in Url
  BY TaskFields DEF Request
<1>3. n \in Task /\ n.pc = "stage" /\ n.request = r /\ n.todo = {}
  BY <1>1, <1>2, IdleType DEF Task
<1>4. /\ Becomes(w, n) /\ Begins(w, "stage") /\ requests[r].synced
      /\ UNCHANGED <<requests, contactOf, crm, folders, booted>>
  BY DEF BeginStage
<1> HIDE DEF n
<1>5. requests[r].llc \in Llcs
  BY <1>4 DEF TypeInv, RequestsOK
<1>6. GoodTask(n, requests)
  BY <1>3, <1>5 DEF GoodTask
<1>7. TasksOK'
  BY <1>3, <1>4, <1>6, MovesOn DEF TypeInv
<1>8. RestOK'
  BY <1>4, BeginRest DEF TypeInv, RestOK
<1> QED
  BY <1>4, <1>7, <1>8, OnlyTask

LEMMA TypedBeginBackfill ==
    ASSUME TypeInv, NEW w \in Workers, BeginBackfill(w)
    PROVE  Typed
<1> DEFINE todo == {r \in DOMAIN requests :
                        requests[r].folder # 0 /\ requests[r].url.kind = "none"}
           n == [Idle EXCEPT !.pc = "backfill", !.todo = todo]
<1>1. todo \subseteq RequestId /\ todo \subseteq DOMAIN requests
  BY TaskFields, BoundsAssumption DEF TypeInv, RequestsOK, RequestId
<1>2. /\ Becomes(w, n) /\ Begins(w, "start") /\ booted' = TRUE
      /\ UNCHANGED <<requests, contactOf, crm, folders>>
  BY DEF BeginBackfill
<1> HIDE DEF todo
<1>3. "backfill" \in Pc
  BY DEF Pc
<1>4. n \in Task /\ n.pc = "backfill" /\ n.todo = todo
  BY <1>1, <1>3, IdleType DEF Task
<1> HIDE DEF n
<1>5. GoodTask(n, requests)
  BY <1>1, <1>4 DEF GoodTask, RequestPc, NamedPc
<1>6. TasksOK'
  BY <1>2, <1>4, <1>5, MovesOn DEF TypeInv
<1>7. RestOK'
  BY <1>2, BeginRest
<1> QED
  BY <1>2, <1>6, <1>7, OnlyTask

\* The clients and the companies of a partner, as rows.
LEMMA KeysType ==
    ASSUME TypeInv, NEW p
    PROVE  Keys(p) \subseteq Row
<1>1. \A r \in DOMAIN requests : requests[r] \in Request
  BY DEF TypeInv, RequestsOK
<1> QED
  BY <1>1 DEF Keys, RequestsOf, Key, Row, Request

LEMMA TypedBeginImport ==
    ASSUME TypeInv, NEW w \in Workers, NEW p \in Partners, NEW file \in Files,
           BeginImport(w, p, file)
    PROVE  Typed
<1> DEFINE n == [Idle EXCEPT !.pc = "row", !.partner = p, !.rows = file.rows,
                             !.known = Keys(p), !.zip = file.zip]
<1>1. /\ "row" \in Pc /\ p \in Owners /\ file.rows \in Seq(Row) /\ file.zip \in Zip
      /\ Keys(p) \in SUBSET Row
  BY FilesAssumption, KeysType DEF Pc, Owners
<1>2. n \in Task /\ n.pc = "row" /\ n.todo = {}
  BY <1>1, IdleType DEF Task
<1>3. /\ Becomes(w, n) /\ Begins(w, "csv")
      /\ UNCHANGED <<requests, contactOf, crm, folders, booted>>
  BY DEF BeginImport
<1> HIDE DEF n
<1>4. GoodTask(n, requests)
  BY <1>2 DEF GoodTask, RequestPc, NamedPc
<1>5. TasksOK'
  BY <1>2, <1>3, <1>4, MovesOn DEF TypeInv
<1>6. RestOK'
  BY <1>3, BeginRest DEF TypeInv, RestOK
<1> QED
  BY <1>3, <1>5, <1>6, OnlyTask

LEMMA TypedBeginZip ==
    ASSUME TypeInv, NEW w \in Workers, NEW p \in Partners, NEW zip \in Zip,
           BeginZip(w, p, zip)
    PROVE  Typed
<1> DEFINE named == {llc \in zip : \E r \in RequestsOf(p) : Named(r, llc)}
           found(target) == {<<llc, requests[target[llc]].folder>> : llc \in named}
                              \cap (Llcs \X (1..MaxFolders))
<1>1. PICK target \in [named -> RequestsOf(p)] :
            Becomes(w, [Idle EXCEPT !.pc = "zip", !.partner = p, !.targets = found(target)])
  BY Zenon DEF BeginZip
<1> DEFINE targets == found(target)
           n == [Idle EXCEPT !.pc = "zip", !.partner = p, !.targets = targets]
<1>2. "zip" \in Pc /\ p \in Owners /\ targets \in SUBSET (Llcs \X FolderId)
  <2>1. targets \subseteq Llcs \X (1..MaxFolders)
    OBVIOUS
  <2>2. 1..MaxFolders \subseteq FolderId
    BY BoundsAssumption DEF FolderId
  <2> HIDE DEF targets
  <2> QED
    BY <2>1, <2>2 DEF Pc, Owners
<1> HIDE DEF targets
<1>3. n \in Task /\ n.pc = "zip" /\ n.todo = {}
  BY <1>2, IdleType DEF Task
<1>4. Begins(w, "zip") /\ UNCHANGED <<requests, contactOf, crm, folders, booted>>
  BY DEF BeginZip
<1>5. Becomes(w, n)
  BY <1>1 DEF targets
<1> HIDE DEF n
<1>6. GoodTask(n, requests)
  BY <1>3 DEF GoodTask, RequestPc, NamedPc
<1>7. TasksOK'
  BY <1>3, <1>4, <1>5, <1>6, MovesOn DEF TypeInv
<1>8. RestOK'
  BY <1>4, BeginRest DEF TypeInv, RestOK
<1> QED
  BY <1>4, <1>7, <1>8, OnlyTask

-----------------------------------------------------------------------------
(* Its steps in the CRM.                                                   *)

LEMMA Holder ==
    ASSUME TypeInv, NEW w \in Workers, task[w].pc \in RequestPc
    PROVE  /\ task[w].request \in DOMAIN requests /\ Current(w) \in Request
           /\ Llc(w) = requests[task[w].request].llc
           /\ Address(task[w].request) \in Addresses
           /\ task[w].pc \in NamedPc => Llc(w) \in Llcs
           /\ Llc(w) \in Llcs \/ Llc(w) = NoLlc
<1>1. task[w].request \in DOMAIN requests
  BY TaskFields DEF GoodTask
<1>2. Current(w) \in Request /\ Address(task[w].request) \in Addresses
  BY <1>1, TaskFields, AddressType DEF Current
<1>3. Llc(w) = requests[task[w].request].llc
  BY DEF Llc, Current
<1>4. Llc(w) \in Llcs \/ Llc(w) = NoLlc
  BY <1>2 DEF Llc, Request
<1> QED
  BY <1>1, <1>2, <1>3, <1>4, TaskFields DEF GoodTask

LEMMA OnlyCrm ==
    ASSUME TypeInv, RestOK', TasksOK', CrmOK', UNCHANGED <<requests, folders>>
    PROVE  Typed
BY GrewSame DEF Typed, TypeInv, RequestsOK, FoldersOK

LEMMA WithContact ==
    ASSUME TypeInv, NEW w \in Workers, task[w].pc \in RequestPc, UNCHANGED requests,
           NEW pc \in {"keep", "upsert"}, NEW c \in ContactId,
           Becomes(w, [task[w] EXCEPT !.pc = pc, !.contact = c])
    PROVE  TasksOK'
<1> DEFINE t == task[w]
           n == [t EXCEPT !.pc = pc, !.contact = c]
<1>1. t \in Task /\ GoodTask(t, requests) /\ pc \in Pc
  BY TaskFields DEF Pc
<1>2. n \in Task /\ n.pc = pc /\ n.request = t.request /\ n.todo = t.todo
  BY <1>1 DEF Task
<1>3. Becomes(w, n)
  OBVIOUS
<1> HIDE DEF n
<1>4. GoodTask(n, requests)
  BY <1>1, <1>2 DEF GoodTask, NamedPc
<1> QED
  BY <1>2, <1>3, <1>4, MovesOn DEF TypeInv

LEMMA TypedContact ==
    ASSUME TypeInv, NEW w \in Workers, Contact(w)
    PROVE  Typed
<1> DEFINE a == Address(task[w].request)
<1>1. At(w, "contact") /\ UNCHANGED <<requests, contactOf, crm, folders>>
  BY DEF Contact
<1>2. task[w].pc = "contact" /\ task[w].pc \in RequestPc
  BY <1>1 DEF At, RequestPc
<1>3. a \in Addresses
  BY <1>2, Holder
<1>4. contactOf[a] \in ContactId /\ 1..contacts[a] \subseteq ContactId
  BY <1>3, BoundsAssumption DEF TypeInv, CrmOK, ContactId
<1>5. \/ Becomes(w, [task[w] EXCEPT !.pc = "upsert", !.contact = contactOf[a]])
      \/ \E found \in 1..contacts[a] :
             Becomes(w, [task[w] EXCEPT !.pc = "keep", !.contact = found])
      \/ Goes(w, "create") \/ Goes(w, "upsert")
  BY Zenon DEF Contact
<1> HIDE DEF a
<1>6. TasksOK'
  <2>1. CASE Becomes(w, [task[w] EXCEPT !.pc = "upsert", !.contact = contactOf[a]])
    BY <2>1, <1>1, <1>2, <1>4, WithContact
  <2>2. CASE \E found \in 1..contacts[a] :
                 Becomes(w, [task[w] EXCEPT !.pc = "keep", !.contact = found])
    BY <2>2, <1>1, <1>2, <1>4, WithContact
  <2>3. CASE Goes(w, "create")
    BY <2>3, <1>1, <1>2, GoesOn, GrewSame DEF TypeInv, Pc, NamedPc
  <2>4. CASE Goes(w, "upsert")
    BY <2>4, <1>1, <1>2, GoesOn, GrewSame DEF TypeInv, Pc, NamedPc
  <2> QED
    BY <1>5, <2>1, <2>2, <2>3, <2>4
<1> QED
  BY <1>1, <1>6, Rest, OnlyTask

LEMMA TypedCreateContact ==
    ASSUME TypeInv, NEW w \in Workers, CreateContact(w)
    PROVE  Typed
<1> DEFINE a == Address(task[w].request)
           n == contacts[a] + 1
<1>1. /\ At(w, "create") /\ UNCHANGED <<requests, contactOf, accounts, links, folders>>
      /\ \/ UNCHANGED contacts /\ Goes(w, "upsert")
         \/ /\ n <= MaxTwins /\ contacts' = [contacts EXCEPT ![a] = n]
            /\ \/ Becomes(w, [task[w] EXCEPT !.pc = "keep", !.contact = n])
               \/ Goes(w, "upsert")
  BY DEF CreateContact
<1>2. task[w].pc = "create" /\ task[w].pc \in RequestPc
  BY <1>1 DEF At, RequestPc
<1>3. a \in Addresses
  BY <1>2, Holder
<1> HIDE DEF a
<1>4. n <= MaxTwins => n \in ContactId
  BY <1>3, BoundsAssumption DEF TypeInv, CrmOK, ContactId
<1> HIDE DEF n
<1>5. CrmOK'
  BY <1>1, <1>3, <1>4 DEF TypeInv, CrmOK
<1>6. TasksOK'
  <2>1. CASE Goes(w, "upsert")
    BY <2>1, <1>1, <1>2, GoesOn, GrewSame DEF TypeInv, Pc, NamedPc
  <2>2. CASE n <= MaxTwins /\ Becomes(w, [task[w] EXCEPT !.pc = "keep", !.contact = n])
    BY <2>2, <1>1, <1>2, <1>4, WithContact
  <2> QED
    BY <1>1, <2>1, <2>2
<1> QED
  BY <1>1, <1>5, <1>6, Rest, OnlyCrm

LEMMA TypedKeepContact ==
    ASSUME TypeInv, NEW w \in Workers, KeepContact(w)
    PROVE  Typed
<1>1. /\ At(w, "keep") /\ Goes(w, "upsert") /\ UNCHANGED <<requests, crm, folders>>
      /\ contactOf' = [contactOf EXCEPT ![Address(task[w].request)] = task[w].contact]
  BY DEF KeepContact
<1>2. task[w].pc = "keep" /\ task[w].pc \in RequestPc
  BY <1>1 DEF At, RequestPc
<1>3. task[w].contact \in ContactId
  BY TaskFields DEF Task
<1>4. CrmOK'
  BY <1>1, <1>3 DEF TypeInv, CrmOK, crm
<1>5. TasksOK'
  BY <1>1, <1>2, GoesOn, GrewSame DEF TypeInv, Pc, NamedPc
<1> QED
  BY <1>1, <1>4, <1>5, Rest, OnlyCrm

LEMMA TypedUpsert ==
    ASSUME TypeInv, NEW w \in Workers, Upsert(w)
    PROVE  Typed
<1>1. At(w, "upsert") /\ UNCHANGED <<requests, contactOf, contacts, links, folders>>
  BY DEF Upsert
<1>2. task[w].pc = "upsert" /\ task[w].pc \in RequestPc
  BY <1>1 DEF At, RequestPc
<1>3. accounts' = accounts \/ accounts' = [accounts EXCEPT ![Llc(w)].exists = TRUE]
  BY DEF Upsert
<1>4. (Llc(w) \in Llcs /\ Goes(w, "save")) \/ NextRow(w)
  BY DEF Upsert
<1>5. accounts' \in [Llcs -> Account]
  BY <1>3 DEF TypeInv, CrmOK, Account
<1>6. CrmOK'
  BY <1>1, <1>5 DEF TypeInv, CrmOK
<1>7. TasksOK'
  <2>1. CASE Llc(w) \in Llcs /\ Goes(w, "save")
    BY <2>1, <1>1, <1>2, GoesOn, GrewSame DEF TypeInv, Pc, NamedPc, Llc, Current
  <2>2. CASE NextRow(w)
    BY <2>2, <1>1, NextRowType, GrewSame DEF TypeInv
  <2> QED
    BY <1>4, <2>1, <2>2
<1> QED
  BY <1>1, <1>6, <1>7, Rest, OnlyCrm

\* A step that writes the request the handler is at.
LEMMA OnlyRequests ==
    ASSUME TypeInv, RestOK', TasksOK', RequestsOK(requests'), Grew(requests, requests'),
           UNCHANGED <<contactOf, crm, folders>>
    PROVE  Typed
BY DEF Typed, TypeInv, CrmOK, FoldersOK, crm

LEMMA TypedSave ==
    ASSUME TypeInv, NEW w \in Workers, Save(w)
    PROVE  Typed
<1> DEFINE r == task[w].request
           q == [requests[r] EXCEPT !.synced = TRUE]
<1>1. /\ At(w, "save") /\ Goes(w, "link") /\ UNCHANGED <<contactOf, crm, folders>>
      /\ requests' = [requests EXCEPT ![r].synced = TRUE]
  BY DEF Save
<1>2. task[w].pc = "save" /\ task[w].pc \in NamedPc /\ task[w].pc \in RequestPc
  BY <1>1 DEF At, NamedPc, RequestPc
<1>3. r \in DOMAIN requests /\ requests[r] \in Request /\ requests[r].llc \in Llcs
  BY <1>2, Holder DEF Current
<1>4. /\ q \in Request /\ q.owner = requests[r].owner /\ q.mail = requests[r].mail
      /\ q.llc = requests[r].llc
  BY <1>3 DEF Request
<1>5. requests' = [requests EXCEPT ![r] = q]
  BY <1>1
<1> HIDE DEF q
<1>6. RequestsOK(requests') /\ Grew(requests, requests')
  BY <1>3, <1>4, <1>5, Written DEF TypeInv
<1>7. TasksOK'
  BY <1>1, <1>2, <1>3, <1>6, GoesOn DEF TypeInv, Pc
<1> QED
  BY <1>1, <1>6, <1>7, Rest, OnlyRequests

LEMMA TypedFindLink ==
    ASSUME TypeInv, NEW w \in Workers, FindLink(w)
    PROVE  Typed
<1>1. /\ At(w, "link") /\ UNCHANGED <<requests, contactOf, crm, folders>>
      /\ Goes(w, "members") \/ Goes(w, "relate")
  BY DEF FindLink
<1>2. task[w].pc = "link" /\ task[w].pc \in NamedPc /\ task[w].pc \in RequestPc
  BY <1>1 DEF At, NamedPc, RequestPc
<1>3. requests[task[w].request].llc \in Llcs
  BY <1>2, Holder
<1>4. TasksOK'
  BY <1>1, <1>2, <1>3, GoesOn, GrewSame DEF TypeInv, Pc
<1> QED
  BY <1>1, <1>4, Rest, OnlyTask

LEMMA TypedCreateLink ==
    ASSUME TypeInv, NEW w \in Workers, CreateLink(w)
    PROVE  Typed
<1>1. /\ At(w, "relate") /\ Goes(w, "members")
      /\ UNCHANGED <<requests, contactOf, contacts, accounts, folders>>
  BY DEF CreateLink
<1>2. task[w].pc = "relate" /\ task[w].pc \in NamedPc /\ task[w].pc \in RequestPc
  BY <1>1 DEF At, NamedPc, RequestPc
<1>3. Llc(w) \in Llcs /\ Address(task[w].request) \in Addresses /\ task[w].contact \in ContactId
  BY <1>2, Holder, TaskFields DEF Task
<1>4. links' \subseteq Link
  <2>1. \/ UNCHANGED links
        \/ \E n \in 1..MaxTwins :
              links' = links \cup {[llc |-> Llc(w), address |-> Address(task[w].request),
                                    contact |-> task[w].contact, n |-> n]}
    BY DEF CreateLink
  <2> QED
    BY <2>1, <1>3 DEF TypeInv, CrmOK, Link
<1>5. CrmOK'
  BY <1>1, <1>4 DEF TypeInv, CrmOK
<1>6. requests[task[w].request].llc \in Llcs
  BY <1>2, Holder
<1>7. TasksOK'
  BY <1>1, <1>2, <1>6, GoesOn, GrewSame DEF TypeInv, Pc
<1> QED
  BY <1>1, <1>5, <1>7, Rest, OnlyCrm

LEMMA TypedPushMembers ==
    ASSUME TypeInv, NEW w \in Workers, PushMembers(w)
    PROVE  Typed
<1>1. /\ At(w, "members") /\ UNCHANGED <<requests, contactOf, contacts, links, folders>>
      /\ Goes(w, "lookup") \/ Done(w)
      /\ UNCHANGED accounts \/ accounts' = WithMembersOf(task[w].request, Llc(w))
  BY DEF PushMembers
<1>2. task[w].pc = "members" /\ task[w].pc \in NamedPc /\ task[w].pc \in RequestPc
  BY <1>1 DEF At, NamedPc, RequestPc
<1>3. requests[task[w].request].llc \in Llcs /\ task[w].request \in RequestId
  BY <1>2, Holder, TaskFields DEF Task
<1>4. accounts' \in [Llcs -> Account]
  BY <1>1, <1>3 DEF TypeInv, CrmOK, Account, WithMembersOf
<1>5. CrmOK'
  BY <1>1, <1>4 DEF TypeInv, CrmOK
<1>6. TasksOK'
  BY <1>1, <1>2, <1>3, GoesOn, Ends, GrewSame DEF TypeInv, Pc
<1> QED
  BY <1>1, <1>5, <1>6, Rest, OnlyCrm

-----------------------------------------------------------------------------
(* Its steps in WorkDrive.                                                 *)

\* A request is given a folder and a link.
LEMMA Filed ==
    ASSUME TypeInv, NEW r \in DOMAIN requests, NEW f \in FolderId, NEW u \in Url,
           requests' = [requests EXCEPT ![r].folder = f, ![r].url = u]
    PROVE  /\ RequestsOK(requests') /\ Grew(requests, requests')
           /\ DOMAIN requests' = DOMAIN requests
           /\ \A k \in DOMAIN requests :
                 requests'[k] = IF k = r THEN [requests[r] EXCEPT !.folder = f, !.url = u]
                                         ELSE requests[k]
<1> DEFINE q == [requests[r] EXCEPT !.folder = f, !.url = u]
<1>1. requests[r] \in Request /\ (requests[r].synced => requests[r].llc \in Llcs)
  BY DEF TypeInv, RequestsOK
<1>2. /\ q \in Request /\ q.owner = requests[r].owner /\ q.mail = requests[r].mail
      /\ q.llc = requests[r].llc /\ q.synced = requests[r].synced
  BY <1>1 DEF Request
<1>3. requests' = [requests EXCEPT ![r] = q]
  OBVIOUS
<1> HIDE DEF q
<1>4. RequestsOK(requests) /\ (q.synced => q.llc \in Llcs)
  BY <1>1, <1>2 DEF TypeInv
<1>5. /\ RequestsOK(requests') /\ Grew(requests, requests')
      /\ DOMAIN requests' = DOMAIN requests
      /\ \A k \in DOMAIN requests : requests'[k] = IF k = r THEN q ELSE requests[k]
  <2> DEFINE R == [requests EXCEPT ![r] = q]
  <2>1. /\ RequestsOK(R) /\ Grew(requests, R) /\ DOMAIN R = DOMAIN requests
        /\ \A k \in DOMAIN requests : R[k] = IF k = r THEN q ELSE requests[k]
    BY <1>2, <1>4, Written
  <2> HIDE DEF R
  <2> QED
    BY <1>3, <2>1 DEF R
<1> QED
  BY <1>5 DEF q

LEMMA WithFolder ==
    ASSUME TypeInv, NEW w \in Workers, task[w].pc \in NamedPc, UNCHANGED requests,
           NEW pc \in {"embed", "account"}, NEW f \in FolderId,
           Becomes(w, [task[w] EXCEPT !.pc = pc, !.folder = f])
    PROVE  TasksOK'
<1> DEFINE t == task[w]
           n == [t EXCEPT !.pc = pc, !.folder = f]
<1>1. t \in Task /\ GoodTask(t, requests) /\ pc \in Pc
  BY TaskFields DEF Pc
<1>2. n \in Task /\ n.pc = pc /\ n.request = t.request /\ n.todo = t.todo
  BY <1>1 DEF Task
<1>3. Becomes(w, n)
  OBVIOUS
<1> HIDE DEF n
<1>4. GoodTask(n, requests)
  BY <1>1, <1>2 DEF GoodTask, NamedPc
<1> QED
  BY <1>2, <1>3, <1>4, MovesOn DEF TypeInv

LEMMA TypedLookup ==
    ASSUME TypeInv, NEW w \in Workers, Lookup(w)
    PROVE  Typed
<1> DEFINE f == accounts[Llc(w)].folder
<1>1. /\ At(w, "lookup") /\ UNCHANGED <<requests, contactOf, crm, folders>>
      /\ \/ Becomes(w, [task[w] EXCEPT !.pc = "embed", !.folder = f])
         \/ Goes(w, "folder")
  BY DEF Lookup
<1>2. task[w].pc = "lookup" /\ task[w].pc \in NamedPc /\ task[w].pc \in RequestPc
  BY <1>1 DEF At, NamedPc, RequestPc
<1>3. Llc(w) \in Llcs /\ requests[task[w].request].llc \in Llcs
  BY <1>2, Holder
<1>4. f \in FolderId
  BY <1>3 DEF TypeInv, CrmOK, Account
<1> HIDE DEF f
<1>5. TasksOK'
  BY <1>1, <1>2, <1>3, <1>4, WithFolder, GoesOn, GrewSame DEF TypeInv, Pc
<1> QED
  BY <1>1, <1>5, Rest, OnlyTask

LEMMA EmbeddedType == \A f \in FolderId : Embedded(f) \in Url
BY DEF Embedded, Url

LEMMA TypedEmbed ==
    ASSUME TypeInv, NEW w \in Workers, Embed(w)
    PROVE  Typed
<1> DEFINE r == task[w].request
           f == task[w].folder
<1>1. /\ At(w, "embed") /\ UNCHANGED <<contactOf, crm, folders>>
      /\ \/ UNCHANGED requests /\ (Goes(w, "docs") \/ NextRow(w))
         \/ /\ requests' = [requests EXCEPT ![r].folder = f, ![r].url = Embedded(f)]
            /\ Goes(w, "docs")
  BY DEF Embed
<1>2. task[w].pc = "embed" /\ task[w].pc \in NamedPc /\ task[w].pc \in RequestPc
  BY <1>1 DEF At, NamedPc, RequestPc
<1>3. r \in DOMAIN requests /\ requests[r].llc \in Llcs /\ f \in FolderId /\ Embedded(f) \in Url
  BY <1>2, Holder, TaskFields, EmbeddedType DEF Task
<1> HIDE DEF f
<1>4. RequestsOK(requests') /\ Grew(requests, requests')
  BY <1>1, <1>3, Filed, GrewSame DEF TypeInv
<1>5. TasksOK'
  BY <1>1, <1>2, <1>3, <1>4, GoesOn, NextRowType DEF TypeInv, Pc
<1> QED
  BY <1>1, <1>4, <1>5, Rest, OnlyRequests

\* A folder more.
LEMMA Added ==
    ASSUME TypeInv, NEW llc \in Llcs, Len(folders) < MaxFolders, folders' = NewFolder(llc)
    PROVE  /\ FoldersOK' /\ Len(folders) + 1 \in FolderId
           /\ DOMAIN folders' = DOMAIN folders \cup {Len(folders) + 1}
           /\ \A k \in DOMAIN folders : folders'[k] = folders[k]
           /\ folders'[Len(folders) + 1] = [llc |-> llc, docs |-> {}]
<1> DEFINE new == [llc |-> llc, docs |-> {}]
<1>1. new \in Folder
  BY DEF Folder
<1>2. folders \in Seq(Folder) /\ folders' = Append(folders, new) /\ Len(folders) \in Nat
  BY DEF TypeInv, FoldersOK, NewFolder
<1> HIDE DEF new
<1>3. /\ folders' \in Seq(Folder) /\ Len(folders') = Len(folders) + 1
      /\ \A k \in 1..Len(folders) : folders'[k] = folders[k]
      /\ folders'[Len(folders) + 1] = new
  BY <1>1, <1>2, AppendProperties
<1>4. Len(folders) + 1 \in FolderId /\ Len(folders') <= MaxFolders
  BY <1>2, <1>3, BoundsAssumption DEF FolderId
<1>5. DOMAIN folders = 1..Len(folders) /\ DOMAIN folders' = 1..(Len(folders) + 1)
  BY <1>2, <1>3
<1>6. DOMAIN folders' = DOMAIN folders \cup {Len(folders) + 1}
  BY <1>2, <1>5
<1> QED
  BY <1>3, <1>4, <1>5, <1>6 DEF FoldersOK, new

LEMMA OnlyFolders ==
    ASSUME TypeInv, RestOK', TasksOK', FoldersOK', CrmOK', UNCHANGED requests
    PROVE  Typed
BY GrewSame DEF Typed, TypeInv, RequestsOK

LEMMA TypedMakeFolder ==
    ASSUME TypeInv, NEW w \in Workers, MakeFolder(w)
    PROVE  Typed
<1> DEFINE f == Len(folders) + 1
<1>1. /\ At(w, "folder") /\ UNCHANGED <<requests, contactOf, crm>>
      /\ \/ UNCHANGED folders /\ NextRow(w)
         \/ /\ Len(folders) < MaxFolders /\ folders' = NewFolder(Llc(w))
            /\ \/ Becomes(w, [task[w] EXCEPT !.pc = "account", !.folder = f])
               \/ NextRow(w)
  BY DEF MakeFolder
<1>2. task[w].pc = "folder" /\ task[w].pc \in NamedPc /\ task[w].pc \in RequestPc
  BY <1>1 DEF At, NamedPc, RequestPc
<1>3. Llc(w) \in Llcs
  BY <1>2, Holder
<1>4. FoldersOK' /\ (f \in FolderId \/ NextRow(w))
  BY <1>1, <1>3, Added DEF TypeInv, FoldersOK
<1> HIDE DEF f
<1>5. TasksOK'
  BY <1>1, <1>2, <1>4, WithFolder, NextRowType, GrewSame DEF TypeInv
<1>6. CrmOK'
  BY <1>1 DEF TypeInv, CrmOK, crm
<1> QED
  BY <1>1, <1>4, <1>5, <1>6, Rest, OnlyFolders

LEMMA TypedSetAccountFolder ==
    ASSUME TypeInv, NEW w \in Workers, SetAccountFolder(w)
    PROVE  Typed
<1>1. /\ At(w, "account") /\ UNCHANGED <<requests, contactOf, contacts, links, folders>>
      /\ UNCHANGED accounts \/ accounts' = [accounts EXCEPT ![Llc(w)].folder = task[w].folder]
      /\ Goes(w, "store") \/ NextRow(w)
  BY DEF SetAccountFolder
<1>2. task[w].pc = "account" /\ task[w].pc \in NamedPc /\ task[w].pc \in RequestPc
  BY <1>1 DEF At, NamedPc, RequestPc
<1>3. requests[task[w].request].llc \in Llcs /\ task[w].folder \in FolderId
  BY <1>2, Holder, TaskFields DEF Task
<1>4. accounts' \in [Llcs -> Account]
  BY <1>1, <1>3 DEF TypeInv, CrmOK, Account
<1>5. CrmOK'
  BY <1>1, <1>4 DEF TypeInv, CrmOK
<1>6. TasksOK'
  BY <1>1, <1>2, <1>3, GoesOn, NextRowType, GrewSame DEF TypeInv, Pc
<1> QED
  BY <1>1, <1>5, <1>6, Rest, OnlyCrm

LEMMA TypedStoreFolder ==
    ASSUME TypeInv, NEW w \in Workers, StoreFolder(w)
    PROVE  Typed
<1> DEFINE r == task[w].request
           f == task[w].folder
<1>1. /\ At(w, "store") /\ Goes(w, "docs") /\ UNCHANGED <<contactOf, crm, folders>>
      /\ requests' = [requests EXCEPT ![r].folder = f, ![r].url = Embedded(f)]
  BY DEF StoreFolder
<1>2. task[w].pc = "store" /\ task[w].pc \in NamedPc /\ task[w].pc \in RequestPc
  BY <1>1 DEF At, NamedPc, RequestPc
<1>3. r \in DOMAIN requests /\ requests[r].llc \in Llcs /\ f \in FolderId /\ Embedded(f) \in Url
  BY <1>2, Holder, TaskFields, EmbeddedType DEF Task
<1> HIDE DEF f
<1>4. RequestsOK(requests') /\ Grew(requests, requests')
  BY <1>1, <1>3, Filed
<1>5. TasksOK'
  BY <1>1, <1>2, <1>3, <1>4, GoesOn DEF TypeInv, Pc
<1> QED
  BY <1>1, <1>4, <1>5, Rest, OnlyRequests

-----------------------------------------------------------------------------
(* The import, the links to the folders, and what happens outside.         *)

LEMMA HeadTailRows ==
    ASSUME NEW rows \in Seq(Row), rows # <<>>
    PROVE  Head(rows) \in Row /\ Tail(rows) \in Seq(Row)
BY HeadTailProperties

LEMMA TypedImportRow ==
    ASSUME TypeInv, NEW w \in Workers, ImportRow(w)
    PROVE  Typed
<1> DEFINE t == task[w]
           row == Head(t.rows)
           n == [t EXCEPT !.rows = Tail(@), !.known = @ \cup {row}]
<1>1. /\ At(w, "row") /\ t.rows # <<>> /\ UNCHANGED <<requests, contactOf, crm, folders>>
      /\ Becomes(w, n) \/ Goes(w, "insert")
  BY DEF ImportRow
<1>2. t \in Task /\ GoodTask(t, requests) /\ t.pc = "row"
  BY <1>1, TaskFields DEF At
<1>3. row \in Row /\ Tail(t.rows) \in Seq(Row)
  BY <1>1, <1>2, HeadTailRows DEF Task
<1> HIDE DEF row
<1>4. n \in Task /\ n.pc = "row" /\ n.todo = t.todo
  BY <1>2, <1>3 DEF Task
<1>5. GoodTask(n, requests)
  BY <1>2, <1>4 DEF GoodTask, RequestPc, NamedPc
<1> DEFINE i == [t EXCEPT !.pc = "insert"]
<1>6. "insert" \in Pc
  BY DEF Pc
<1>7. i \in Task /\ i.pc = "insert" /\ i.todo = t.todo /\ i.rows = t.rows
  BY <1>2, <1>6 DEF Task
<1>8. Becomes(w, n) \/ Becomes(w, i)
  BY <1>1 DEF Goes
<1> HIDE DEF n, i
<1>9. GoodTask(i, requests)
  BY <1>1, <1>2, <1>7 DEF GoodTask, RequestPc, NamedPc
<1>10. TasksOK'
  BY <1>1, <1>4, <1>5, <1>7, <1>8, <1>9, MovesOn DEF TypeInv
<1> QED
  BY <1>1, <1>10, Rest, OnlyTask

LEMMA NewRequestType ==
    ASSUME NEW p \in Owners, NEW row \in Row
    PROVE  /\ NewRequest(p, row) \in Request /\ ~NewRequest(p, row).synced
           /\ NewRequest(p, row).llc = row.llc /\ NewRequest(p, row).llc \in Llcs
           /\ NewRequest(p, row).folder = 0 /\ NewRequest(p, row).url.folder = 0
BY NoUrlType, BoundsAssumption DEF NewRequest, Request, Row, FolderId, NoUrl

\* A request more.
LEMMA Inserted ==
    ASSUME TypeInv, NEW q \in Request, ~q.synced, Len(requests) < MaxRequests,
           requests' = Append(requests, q)
    PROVE  /\ RequestsOK(requests') /\ Grew(requests, requests')
           /\ Len(requests) + 1 \in RequestId
           /\ DOMAIN requests' = DOMAIN requests \cup {Len(requests) + 1}
           /\ \A k \in DOMAIN requests : requests'[k] = requests[k]
           /\ requests'[Len(requests) + 1] = q
<1>1. requests \in Seq(Request) /\ Len(requests) \in Nat /\ DOMAIN requests = 1..Len(requests)
  BY DEF TypeInv, RequestsOK
<1>2. /\ requests' \in Seq(Request) /\ Len(requests') = Len(requests) + 1
      /\ \A k \in 1..Len(requests) : requests'[k] = requests[k]
      /\ requests'[Len(requests) + 1] = q
  BY <1>1, AppendProperties
<1>3. DOMAIN requests' = 1..(Len(requests) + 1)
  BY <1>2
<1>4. DOMAIN requests' = DOMAIN requests \cup {Len(requests) + 1}
  BY <1>1, <1>3
<1>5. Len(requests) + 1 \in RequestId /\ Len(requests') <= MaxRequests
  BY <1>1, <1>2, BoundsAssumption DEF RequestId
<1>6. Grew(requests, requests')
  BY <1>1, <1>2, <1>4 DEF Grew
<1>7. \A k \in DOMAIN requests' : requests'[k].synced => requests'[k].llc \in Llcs
  BY <1>1, <1>2, <1>4 DEF TypeInv, RequestsOK
<1> QED
  BY <1>1, <1>2, <1>4, <1>5, <1>6, <1>7 DEF RequestsOK

LEMMA TypedInsertRow ==
    ASSUME TypeInv, NEW w \in Workers, InsertRow(w)
    PROVE  Typed
<1> DEFINE t == task[w]
           row == Head(t.rows)
           q == NewRequest(t.partner, row)
           k == Len(requests) + 1
           n == [t EXCEPT !.rows = Tail(@), !.known = @ \cup {row},
                          !.pc = "contact", !.request = k]
<1>1. /\ At(w, "insert") /\ Len(requests) < MaxRequests
      /\ requests' = Append(requests, q) /\ Becomes(w, n)
      /\ UNCHANGED <<contactOf, crm, folders>>
  BY DEF InsertRow
<1>2. t \in Task /\ GoodTask(t, requests) /\ t.pc = "insert" /\ t.rows # <<>>
  BY <1>1, TaskFields DEF At, GoodTask
<1>3. row \in Row /\ Tail(t.rows) \in Seq(Row) /\ t.partner \in Owners
  BY <1>2, HeadTailRows DEF Task
<1> HIDE DEF row
<1>4. q \in Request /\ ~q.synced /\ q.llc = row.llc /\ q.llc \in Llcs
  BY <1>3, NewRequestType
<1> HIDE DEF q
<1>5. /\ RequestsOK(requests') /\ Grew(requests, requests') /\ k \in RequestId
      /\ k \in DOMAIN requests'
  BY <1>1, <1>4, Inserted
<1> HIDE DEF k
<1>6. "contact" \in Pc
  BY DEF Pc
<1>7. n \in Task /\ n.pc = "contact" /\ n.request = k /\ n.todo = t.todo
  BY <1>2, <1>3, <1>5, <1>6 DEF Task
<1> HIDE DEF n
<1>8. n.todo \subseteq DOMAIN requests'
  BY <1>2, <1>5, <1>7 DEF GoodTask, Grew
<1>9. GoodTask(n, requests')
  BY <1>5, <1>7, <1>8 DEF GoodTask, RequestPc, NamedPc
<1>10. TasksOK'
  BY <1>1, <1>5, <1>7, <1>9, Moves DEF TypeInv
<1> QED
  BY <1>1, <1>5, <1>10, Rest, OnlyRequests

LEMMA TypedEndImport ==
    ASSUME TypeInv, NEW w \in Workers, EndImport(w)
    PROVE  Typed
<1>1. At(w, "row") /\ Done(w) /\ UNCHANGED <<requests, contactOf, crm, folders>>
  BY DEF EndImport
<1>2. TasksOK'
  BY <1>1, Ends, GrewSame DEF TypeInv
<1> QED
  BY <1>1, <1>2, Rest, OnlyTask

\* The documents of a company go into a folder; nothing else of it changes.
LEMMA UnpackedType ==
    ASSUME TypeInv, NEW llc \in Llcs, NEW f, folders' = Unpacked(llc, f)
    PROVE  /\ FoldersOK' /\ DOMAIN folders' = DOMAIN folders
           /\ \A k \in DOMAIN folders : /\ folders'[k].llc = folders[k].llc
                                        /\ k # f => folders'[k].docs = folders[k].docs
                                        /\ folders'[k].docs \subseteq folders[k].docs \cup {llc}
<1>1. folders \in Seq(Folder) /\ Len(folders) \in Nat /\ DOMAIN folders = 1..Len(folders)
  BY DEF TypeInv, FoldersOK
<1>2. CASE f \in DOMAIN folders
  <2> DEFINE q == [folders[f] EXCEPT !.docs = @ \cup {llc}]
  <2>1. folders[f] \in Folder
    BY <1>1, <1>2
  <2>2. q \in Folder /\ q.llc = folders[f].llc /\ q.docs = folders[f].docs \cup {llc}
    BY <2>1 DEF Folder
  <2>3. folders' = [folders EXCEPT ![f] = q]
    BY DEF Unpacked
  <2> HIDE DEF q
  <2>4. /\ folders' \in Seq(Folder) /\ Len(folders') = Len(folders)
        /\ \A k \in 1..Len(folders) : folders'[k] = IF k = f THEN q ELSE folders[k]
    BY <1>1, <1>2, <2>2, <2>3, ExceptSeq
  <2>5. DOMAIN folders' = DOMAIN folders
    BY <2>3
  <2>6. FoldersOK'
    BY <2>4 DEF TypeInv, FoldersOK
  <2> QED
    BY <1>1, <2>2, <2>4, <2>5, <2>6
<1>3. CASE f \notin DOMAIN folders
  <2>1. folders' = folders
    BY <1>1, <1>3 DEF Unpacked
  <2> QED
    BY <2>1 DEF TypeInv, FoldersOK
<1> QED
  BY <1>2, <1>3

LEMMA TypedUpload ==
    ASSUME TypeInv, NEW w \in Workers, Upload(w)
    PROVE  Typed
<1>1. /\ At(w, "docs") /\ NextRow(w) /\ UNCHANGED <<requests, contactOf, crm>>
      /\ UNCHANGED folders \/ folders' = Unpacked(Llc(w), task[w].folder)
  BY DEF Upload
<1>2. task[w].pc = "docs" /\ task[w].pc \in NamedPc /\ task[w].pc \in RequestPc
  BY <1>1 DEF At, NamedPc, RequestPc
<1>3. Llc(w) \in Llcs
  BY <1>2, Holder
<1>4. FoldersOK'
  BY <1>1, <1>3, UnpackedType DEF TypeInv, FoldersOK
<1>5. CrmOK'
  BY <1>1 DEF TypeInv, CrmOK, crm
<1>6. TasksOK'
  BY <1>1, NextRowType, GrewSame DEF TypeInv
<1> QED
  BY <1>1, <1>4, <1>5, <1>6, Rest, OnlyFolders

LEMMA TypedUnpackZip ==
    ASSUME TypeInv, NEW w \in Workers, UnpackZip(w)
    PROVE  Typed
<1> DEFINE t == task[w]
<1>1. At(w, "zip") /\ UNCHANGED <<requests, contactOf, crm>>
  BY DEF UnpackZip
<1>2. PICK x \in t.targets :
         /\ folders' \in {Unpacked(x[1], x[2])} \cup {f \in {folders} : Fails("call")}
         /\ IF t.targets = {x} THEN Done(w)
            ELSE Becomes(w, [t EXCEPT !.targets = @ \ {x}])
  BY DEF UnpackZip
<1>3. t \in Task /\ GoodTask(t, requests) /\ t.pc = "zip"
  BY <1>1, TaskFields DEF At
<1>4. x[1] \in Llcs /\ (UNCHANGED folders \/ folders' = Unpacked(x[1], x[2]))
  BY <1>2, <1>3 DEF Task
<1>5. FoldersOK'
  BY <1>4, UnpackedType DEF TypeInv, FoldersOK
<1>6. CrmOK'
  BY <1>1 DEF TypeInv, CrmOK, crm
<1> DEFINE n == [t EXCEPT !.targets = @ \ {x}]
<1>7. n \in Task /\ n.pc = "zip" /\ n.todo = t.todo
  BY <1>3 DEF Task
<1>8. Done(w) \/ Becomes(w, n)
  BY <1>2
<1> HIDE DEF n
<1>9. GoodTask(n, requests)
  BY <1>3, <1>7 DEF GoodTask, RequestPc, NamedPc
<1>10. TasksOK'
  BY <1>1, <1>7, <1>8, <1>9, MovesOn, Ends, GrewSame DEF TypeInv
<1> QED
  BY <1>1, <1>5, <1>6, <1>10, Rest, OnlyFolders

LEMMA PermalinkType == \A f \in FolderId : Permalink(f) \in Url
BY DEF Permalink, Url

LEMMA TypedBackfill ==
    ASSUME TypeInv, NEW w \in Workers, Backfill(w)
    PROVE  Typed
<1> DEFINE t == task[w]
           gone == [kind |-> "gone", folder |-> 0]
<1>1. At(w, "backfill") /\ UNCHANGED <<contactOf, crm, folders>>
  BY DEF Backfill
<1>2. PICK r \in t.todo :
        /\ \E url \in {Permalink(requests[r].folder), requests[r].url, gone} :
              requests' = [requests EXCEPT ![r].url = url]
        /\ IF t.todo = {r} THEN Done(w)
           ELSE Becomes(w, [t EXCEPT !.todo = @ \ {r}])
  BY DEF Backfill
<1>3. t \in Task /\ GoodTask(t, requests) /\ t.pc = "backfill"
  BY <1>1, TaskFields DEF At
<1>4. r \in DOMAIN requests
  BY <1>2, <1>3 DEF GoodTask
<1>5. requests[r] \in Request /\ requests[r].folder \in FolderId /\ requests[r].url \in Url
  BY <1>4, TaskFields DEF Request
<1>6. gone \in Url
  BY BoundsAssumption DEF Url, FolderId
<1> HIDE DEF gone
<1>7. PICK url \in {Permalink(requests[r].folder), requests[r].url, gone} :
              requests' = [requests EXCEPT ![r].url = url]
  BY <1>2
<1>8. url \in Url
  BY <1>5, <1>6, <1>7, PermalinkType
<1> DEFINE q == [requests[r] EXCEPT !.url = url]
<1>9. /\ q \in Request /\ q.owner = requests[r].owner /\ q.mail = requests[r].mail
      /\ q.llc = requests[r].llc /\ q.synced = requests[r].synced
  BY <1>5, <1>8 DEF Request
<1>10. requests' = [requests EXCEPT ![r] = q]
  BY <1>7
<1> HIDE DEF q
<1>11. RequestsOK(requests) /\ (q.synced => q.llc \in Llcs)
  BY <1>4, <1>9 DEF TypeInv, RequestsOK
<1>12. RequestsOK(requests') /\ Grew(requests, requests')
  BY <1>4, <1>9, <1>10, <1>11, Written
<1> DEFINE n == [t EXCEPT !.todo = @ \ {r}]
<1>13. n \in Task /\ n.pc = "backfill" /\ n.todo \subseteq t.todo
  BY <1>3 DEF Task
<1>14. Done(w) \/ Becomes(w, n)
  BY <1>2
<1> HIDE DEF n
<1>15. GoodTask(n, requests)
  BY <1>3, <1>13 DEF GoodTask, RequestPc, NamedPc
<1>16. TasksOK'
  BY <1>12, <1>13, <1>14, <1>15, Moves, GrewTask, Ends DEF TypeInv
<1> QED
  BY <1>1, <1>12, <1>16, Rest, OnlyRequests

LEMMA TypedStage ==
    ASSUME TypeInv, NEW w \in Workers, Stage(w)
    PROVE  Typed
<1> DEFINE r == task[w].request
           a == accounts[Llc(w)]
           f == IF a.folder # 0 THEN a.folder ELSE task[w].folder
           u == IF task[w].url.kind = "none" /\ a.folder # 0
                THEN Permalink(a.folder) ELSE task[w].url
<1>1. /\ At(w, "stage") /\ Done(w) /\ UNCHANGED <<contactOf, crm, folders>>
      /\ \/ UNCHANGED requests
         \/ \E url \in {u, task[w].url} :
               requests' = [requests EXCEPT ![r].folder = f, ![r].url = url]
  BY DEF Stage
<1>2. task[w].pc = "stage" /\ task[w].pc \in NamedPc /\ task[w].pc \in RequestPc
  BY <1>1 DEF At, NamedPc, RequestPc
<1>3. r \in DOMAIN requests /\ Llc(w) \in Llcs /\ task[w].folder \in FolderId
      /\ task[w].url \in Url
  BY <1>2, Holder, TaskFields DEF Task
<1>4. a.folder \in FolderId
  BY <1>3 DEF TypeInv, CrmOK, Account
<1>5. f \in FolderId /\ u \in Url
  BY <1>3, <1>4, PermalinkType
<1> HIDE DEF f, u
<1>6. RequestsOK(requests') /\ Grew(requests, requests')
  <2>1. CASE UNCHANGED requests
    BY <2>1, GrewSame DEF TypeInv
  <2>2. ASSUME NEW url \in {u, task[w].url},
               requests' = [requests EXCEPT ![r].folder = f, ![r].url = url]
        PROVE  RequestsOK(requests') /\ Grew(requests, requests')
    BY <2>2, <1>3, <1>5, Filed
  <2> QED
    BY <1>1, <2>1, <2>2
<1>7. TasksOK'
  BY <1>1, <1>6, Ends DEF TypeInv
<1> QED
  BY <1>1, <1>6, <1>7, Rest, OnlyRequests

LEMMA TypedFolderInCrm ==
    ASSUME TypeInv, NEW llc \in Llcs, FolderInCrm(llc)
    PROVE  Typed
<1> DEFINE f == Len(folders) + 1
<1>1. /\ Len(folders) < MaxFolders /\ folders' = NewFolder(llc)
      /\ accounts' = [accounts EXCEPT ![llc].folder = f]
      /\ UNCHANGED <<world, requests, contactOf, contacts, links, booted, task, calls>>
  BY DEF FolderInCrm
<1>2. FoldersOK' /\ f \in FolderId
  BY <1>1, Added
<1> HIDE DEF f
<1>3. accounts' \in [Llcs -> Account]
  BY <1>1, <1>2 DEF TypeInv, CrmOK, Account
<1>4. CrmOK' /\ TasksOK' /\ RestOK'
  BY <1>1, <1>3 DEF TypeInv, CrmOK, TasksOK, RestOK
<1> QED
  BY <1>1, <1>2, <1>4, OnlyFolders

LEMMA TypedCrash ==
    ASSUME TypeInv, Crash
    PROVE  Typed
<1>1. /\ task' = [w \in Workers |-> Idle] /\ booted' = FALSE
      /\ UNCHANGED <<world, requests, contactOf, crm, folders, calls>>
  BY DEF Crash
<1>2. TasksOK'
  BY <1>1, IdleType, GoodIdle DEF TasksOK
<1>3. RestOK'
  BY <1>1 DEF TypeInv, RestOK
<1> QED
  BY <1>1, <1>2, <1>3, OnlyTask

-----------------------------------------------------------------------------
LEMMA InitTyped ==
    ASSUME FreshWorlds, Init
    PROVE  TypeInv
<1>1. /\ world \in Worlds /\ requests = world.requests /\ links = {} /\ folders = <<>>
      /\ contactOf = [a \in Addresses |-> 0] /\ contacts = [a \in Addresses |-> 0]
      /\ accounts = [llc \in Llcs |-> [exists |-> FALSE, folder |-> 0, members |-> {}]]
      /\ booted = FALSE /\ task = [w \in Workers |-> Idle] /\ calls = 0
  BY DEF Init
<1>2. RequestsOK(requests)
  BY <1>1, WorldsAssumption DEF FreshWorlds, RequestsOK
<1>3. CrmOK
  BY <1>1, BoundsAssumption DEF CrmOK, ContactId, Account, FolderId
<1>4. FoldersOK
  BY <1>1, BoundsAssumption DEF FoldersOK
<1>5. TasksOK
  BY <1>1, IdleType, GoodIdle DEF TasksOK
<1>6. 0 \in 0..MaxCalls
  BY BoundsAssumption
<1>7. RestOK
  BY <1>1, <1>6 DEF RestOK
<1> QED
  BY <1>2, <1>3, <1>4, <1>5, <1>7 DEF TypeInv

LEMMA NextTyped ==
    ASSUME TypeInv, Next
    PROVE  Typed
<1>1. ASSUME NEW w \in Workers, Begin(w)
      PROVE  Typed
  BY <1>1, TypedSync, TypedBeginStage, TypedBeginImport, TypedBeginZip, TypedBeginBackfill
     DEF Begin
<1>2. ASSUME NEW w \in Workers, Advance(w)
      PROVE  Typed
  BY <1>2, TypedContact, TypedCreateContact, TypedKeepContact, TypedUpsert, TypedSave,
     TypedFindLink, TypedCreateLink, TypedPushMembers, TypedLookup, TypedEmbed,
     TypedMakeFolder, TypedSetAccountFolder, TypedStoreFolder, TypedImportRow,
     TypedInsertRow, TypedEndImport, TypedUpload, TypedUnpackZip, TypedBackfill, TypedStage
     DEF Advance
<1> QED
  BY <1>1, <1>2, TypedFolderInCrm, TypedCrash DEF Next

LEMMA StutterTyped ==
    ASSUME TypeInv, UNCHANGED vars
    PROVE  Typed
BY GrewSame DEF Typed, TypeInv, RequestsOK, CrmOK, FoldersOK, TasksOK, RestOK, vars, crm

LEMMA TypeInvariant ==
    ASSUME FreshWorlds
    PROVE  Spec => []TypeInv
<1>1. Init => TypeInv
  BY InitTyped
<1>2. TypeInv /\ [Next]_vars => TypeInv'
  BY NextTyped, StutterTyped DEF Typed
<1> QED
  BY <1>1, <1>2, PTL DEF Spec

\* The state keeps its types and bounds whichever handlers overlap, whichever calls fail,
\* and wherever the process stops.
THEOREM TypeCorrect ==
    ASSUME FreshWorlds
    PROVE  Spec => []TypeOK
BY TypeInvariant, TypeInvTypeOK, PTL

-----------------------------------------------------------------------------
(* Folders.  A folder is a company's for good, and everything that refers  *)
(* to one for a company refers to a folder of that company.                *)

FolderPc == {"embed", "account", "store", "docs"}

Holds(f, llc, F) == f \in DOMAIN F /\ F[f].llc = llc

RightAccounts(A, F) == \A llc \in Llcs : A[llc].folder # 0 => Holds(A[llc].folder, llc, F)

RightRequests(Q, F) ==
    \A r \in DOMAIN Q : Q[r].folder # 0 => Holds(Q[r].folder, Q[r].llc, F)

RightTask(t, Q, F) ==
    /\ t.pc \in FolderPc => Holds(t.folder, Q[t.request].llc, F)
    /\ t.pc = "stage" /\ t.folder # 0 => Holds(t.folder, Q[t.request].llc, F)
    /\ \A g \in t.targets : Holds(g[2], g[1], F)

RightTasks == \A w \in Workers : RightTask(task[w], requests, folders)

RightInv ==
    /\ RightFolder /\ RightAccounts(accounts, folders) /\ RightRequests(requests, folders)
    /\ RightTasks

More(F, G) == \A f \in DOMAIN F : f \in DOMAIN G /\ G[f].llc = F[f].llc

LEMMA MoreSame == \A F : More(F, F)
BY DEF More

LEMMA RightTaskOn ==
    ASSUME NEW t, NEW Q, NEW R, NEW F, NEW G, GoodTask(t, Q), RightTask(t, Q, F),
           Grew(Q, R), More(F, G)
    PROVE  RightTask(t, R, G)
<1>1. t.pc \in FolderPc \/ t.pc = "stage" => R[t.request].llc = Q[t.request].llc
  BY DEF GoodTask, RequestPc, FolderPc, Grew
<1> QED
  BY <1>1 DEF RightTask, Holds, More

LEMMA RightMoves ==
    ASSUME TypeInv, RightTasks, NEW w \in Workers, NEW n, Becomes(w, n),
           Grew(requests, requests'), More(folders, folders'),
           RightTask(n, requests', folders')
    PROVE  RightTasks'
<1>1. \A v \in Workers : task'[v] = IF v = w THEN n ELSE task[v]
  BY DEF TypeInv, TasksOK, Becomes
<1>2. \A v \in Workers : RightTask(task[v], requests', folders')
  BY TaskFields, RightTaskOn DEF RightTasks
<1> QED
  BY <1>1, <1>2 DEF RightTasks

\* Most steps need no folder.
LEMMA RightPlain ==
    ASSUME TypeInv, RightTasks, NEW w \in Workers, NEW n, Becomes(w, n),
           Grew(requests, requests'), More(folders, folders'),
           n.pc \notin FolderPc, n.pc # "stage", n.targets \subseteq task[w].targets
    PROVE  RightTasks'
<1>1. \A g \in n.targets : Holds(g[2], g[1], folders')
  BY DEF RightTasks, RightTask, Holds, More
<1>2. RightTask(n, requests', folders')
  BY <1>1 DEF RightTask
<1> QED
  BY <1>2, RightMoves

LEMMA RightEnds ==
    ASSUME TypeInv, RightTasks, NEW w \in Workers, Done(w),
           Grew(requests, requests'), More(folders, folders')
    PROVE  RightTasks'
<1>1. Idle.pc = "idle" /\ Idle.targets = {}
  BY DEF Idle
<1> QED
  BY <1>1, RightPlain DEF Done, FolderPc

LEMMA RightGoes ==
    ASSUME TypeInv, RightTasks, NEW w \in Workers, NEW pc, Goes(w, pc),
           Grew(requests, requests'), More(folders, folders'),
           pc # "stage", pc \in FolderPc => task[w].pc \in FolderPc
    PROVE  RightTasks'
<1> DEFINE t == task[w]
           n == [t EXCEPT !.pc = pc]
<1>1. t \in Task /\ GoodTask(t, requests) /\ RightTask(t, requests, folders)
  BY TaskFields DEF RightTasks
<1>2. n.pc = pc /\ n.targets = t.targets /\ n.folder = t.folder /\ n.request = t.request
  BY <1>1 DEF Task
<1>3. RightTask(t, requests', folders')
  BY <1>1, RightTaskOn
<1>4. Becomes(w, n)
  BY DEF Goes
<1> HIDE DEF n
<1>5. RightTask(n, requests', folders')
  BY <1>2, <1>3 DEF RightTask
<1> QED
  BY <1>4, <1>5, RightMoves

LEMMA RightNextRow ==
    ASSUME TypeInv, RightTasks, NEW w \in Workers, NextRow(w),
           Grew(requests, requests'), More(folders, folders')
    PROVE  RightTasks'
<1> DEFINE t == task[w]
           n == [t EXCEPT !.pc = "row", !.request = 0, !.contact = 0, !.folder = 0]
<1>1. t \in Task
  BY TaskFields
<1>2. n.pc = "row" /\ n.targets = t.targets
  BY <1>1 DEF Task
<1>3. Done(w) \/ Becomes(w, n)
  BY DEF NextRow
<1> HIDE DEF n
<1> QED
  BY <1>2, <1>3, RightEnds, RightPlain DEF FolderPc

\* Steps that touch neither requests nor folders, nor which folder an account has.
LEMMA RightQuiet ==
    ASSUME TypeInv, RightInv, RightTasks', UNCHANGED <<requests, folders>>,
           \A llc \in Llcs : accounts'[llc].folder = accounts[llc].folder
    PROVE  RightInv'
BY DEF RightInv, RightFolder, RightAccounts, RightRequests

LEMMA RightBegin ==
    ASSUME TypeInv, RightInv, NEW w \in Workers, Begin(w)
    PROVE  RightInv'
<1>1. UNCHANGED <<requests, crm, folders>> /\ task[w] = Idle
  BY DEF Begin, BeginSync, BeginStage, BeginImport, BeginZip, BeginBackfill, Begins
<1>2. Grew(requests, requests') /\ More(folders, folders') /\ RightTasks
  BY <1>1, GrewSame, MoreSame DEF RightInv
<1>3. ASSUME NEW n, Becomes(w, n), n.pc \in {"contact", "row", "backfill"}, n.targets = {}
      PROVE  RightTasks'
  BY <1>2, <1>3, RightPlain DEF FolderPc
<1>4. Idle \in Task /\ Idle.targets = {}
  BY IdleType DEF Idle
<1>5. ASSUME NEW r \in DOMAIN requests, BeginSync(w, r)
      PROVE  RightTasks'
  <2> DEFINE n == [Idle EXCEPT !.pc = "contact", !.request = r]
  <2>1. Becomes(w, n) /\ n.pc = "contact" /\ n.targets = {}
    BY <1>4, <1>5 DEF BeginSync, Task
  <2> QED
    BY <2>1, <1>3
<1>6. ASSUME NEW p \in Partners, NEW file \in Files, BeginImport(w, p, file)
      PROVE  RightTasks'
  <2> DEFINE n == [Idle EXCEPT !.pc = "row", !.partner = p, !.rows = file.rows,
                               !.known = Keys(p), !.zip = file.zip]
  <2>1. Becomes(w, n) /\ n.pc = "row" /\ n.targets = {}
    BY <1>4, <1>6 DEF BeginImport, Task
  <2> QED
    BY <2>1, <1>3
<1>7. ASSUME BeginBackfill(w)
      PROVE  RightTasks'
  <2> DEFINE todo == {r \in DOMAIN requests :
                          requests[r].folder # 0 /\ requests[r].url.kind = "none"}
             n == [Idle EXCEPT !.pc = "backfill", !.todo = todo]
  <2>1. Becomes(w, n)
    BY <1>7 DEF BeginBackfill
  <2> HIDE DEF todo
  <2>2. n.pc = "backfill" /\ n.targets = {}
    BY <1>4 DEF Task
  <2> QED
    BY <2>1, <2>2, <1>3
<1>8. ASSUME NEW r \in DOMAIN requests, BeginStage(w, r)
      PROVE  RightTasks'
  <2> DEFINE n == [Idle EXCEPT !.pc = "stage", !.request = r,
                               !.folder = requests[r].folder, !.url = requests[r].url]
  <2>1. Becomes(w, n)
    BY <1>8 DEF BeginStage
  <2>2. /\ n.pc = "stage" /\ n.targets = {} /\ n.request = r
        /\ n.folder = requests[r].folder
    BY <1>4 DEF Task
  <2> HIDE DEF n
  <2>3. RightTask(n, requests, folders)
    BY <2>2 DEF RightInv, RightRequests, RightTask, FolderPc
  <2>4. RightTask(n, requests', folders')
    BY <2>3, <1>1
  <2> QED
    BY <2>1, <2>4, <1>2, RightMoves
<1>9. ASSUME NEW p \in Partners, NEW zip \in Zip, BeginZip(w, p, zip)
      PROVE  RightTasks'
  <2> DEFINE named == {llc \in zip : \E r \in RequestsOf(p) : Named(r, llc)}
             found(target) == {<<llc, requests[target[llc]].folder>> : llc \in named}
                                \cap (Llcs \X (1..MaxFolders))
  <2>1. PICK target \in [named -> RequestsOf(p)] :
            /\ \A llc \in named : Named(target[llc], llc)
            /\ Becomes(w, [Idle EXCEPT !.pc = "zip", !.partner = p, !.targets = found(target)])
    BY <1>9, Zenon DEF BeginZip
  <2> DEFINE targets == found(target)
             n == [Idle EXCEPT !.pc = "zip", !.partner = p, !.targets = targets]
  <2>2. ASSUME NEW g \in targets
        PROVE  Holds(g[2], g[1], folders)
    <3>1. PICK llc \in named : g = <<llc, requests[target[llc]].folder>>
      OBVIOUS
    <3>2. g[1] = llc /\ g[2] = requests[target[llc]].folder
      BY <3>1
    <3>3. g[2] \in 1..MaxFolders
      OBVIOUS
    <3>4. g[2] # 0
      BY <3>3, BoundsAssumption
    <3>5. target[llc] \in DOMAIN requests /\ requests[target[llc]].llc = llc
      BY <2>1, <3>1 DEF Named, RequestsOf
    <3> QED
      BY <3>2, <3>4, <3>5 DEF RightInv, RightRequests
  <2>3. Becomes(w, n)
    BY <2>1
  <2> HIDE DEF targets
  <2>4. n.pc = "zip" /\ n.targets = targets
    BY <1>4 DEF Task
  <2> HIDE DEF n
  <2>5. RightTask(n, requests, folders)
    BY <2>2, <2>4 DEF RightTask, FolderPc
  <2>6. RightTask(n, requests', folders')
    BY <2>5, <1>1
  <2> QED
    BY <2>3, <2>6, <1>2, RightMoves
<1>10. RightTasks'
  BY <1>5, <1>6, <1>7, <1>8, <1>9 DEF Begin
<1> QED
  BY <1>1, <1>10, RightQuiet DEF crm

\* The steps in the CRM, and those that only read.
LEMMA RightCrm ==
    ASSUME TypeInv, RightInv, NEW w \in Workers,
           \/ Contact(w) \/ CreateContact(w) \/ KeepContact(w) \/ Upsert(w)
           \/ FindLink(w) \/ CreateLink(w) \/ PushMembers(w) \/ ImportRow(w) \/ EndImport(w)
    PROVE  RightInv'
<1>1. UNCHANGED <<requests, folders>>
  BY DEF Contact, CreateContact, KeepContact, Upsert, FindLink, CreateLink, PushMembers,
         ImportRow, EndImport
<1>2. \A llc \in Llcs : accounts'[llc].folder = accounts[llc].folder
  <2>1. \/ UNCHANGED accounts
        \/ accounts' = [accounts EXCEPT ![Llc(w)].exists = TRUE]
        \/ accounts' = WithMembersOf(task[w].request, Llc(w))
    BY DEF Contact, CreateContact, KeepContact, Upsert, FindLink, CreateLink, PushMembers,
           ImportRow, EndImport, crm
  <2>2. accounts \in [Llcs -> Account]
    BY DEF TypeInv, CrmOK
  <2> QED
    BY <2>1, <2>2 DEF WithMembersOf, Account
<1>3. Grew(requests, requests') /\ More(folders, folders') /\ RightTasks
  BY <1>1, GrewSame, MoreSame DEF RightInv
<1>4. task[w] \in Task
  BY TaskFields
<1>5. ASSUME NEW pc \in {"create", "upsert", "save", "members", "relate", "lookup", "insert"},
             Goes(w, pc)
      PROVE  RightTasks'
  BY <1>3, <1>5, RightGoes DEF FolderPc
<1>6. ASSUME NEW pc \in {"keep", "upsert"}, NEW c,
             Becomes(w, [task[w] EXCEPT !.pc = pc, !.contact = c])
      PROVE  RightTasks'
  <2> DEFINE n == [task[w] EXCEPT !.pc = pc, !.contact = c]
  <2>1. n.pc = pc /\ n.targets = task[w].targets
    BY <1>4 DEF Task
  <2>2. Becomes(w, n)
    BY <1>6
  <2> HIDE DEF n
  <2> QED
    BY <2>1, <2>2, <1>3, RightPlain DEF FolderPc
<1>7. Contact(w) => RightTasks'
  <2> DEFINE a == Address(task[w].request)
  <2>1. Contact(w) =>
          \/ Becomes(w, [task[w] EXCEPT !.pc = "upsert", !.contact = contactOf[a]])
          \/ \E found \in 1..contacts[a] :
                 Becomes(w, [task[w] EXCEPT !.pc = "keep", !.contact = found])
          \/ Goes(w, "create") \/ Goes(w, "upsert")
    BY Zenon DEF Contact
  <2> HIDE DEF a
  <2> QED
    BY <2>1, <1>5, <1>6
<1>8. CreateContact(w) => RightTasks'
  <2> DEFINE n == contacts[Address(task[w].request)] + 1
  <2>1. CreateContact(w) =>
          \/ Becomes(w, [task[w] EXCEPT !.pc = "keep", !.contact = n])
          \/ Goes(w, "upsert")
    BY DEF CreateContact
  <2> HIDE DEF n
  <2> QED
    BY <2>1, <1>5, <1>6
<1>9. Upsert(w) => RightTasks'
  <2>1. Upsert(w) => Goes(w, "save") \/ NextRow(w)
    BY DEF Upsert
  <2> QED
    BY <2>1, <1>3, <1>5, RightNextRow
<1>10. ImportRow(w) => RightTasks'
  <2> DEFINE row == Head(task[w].rows)
             n == [task[w] EXCEPT !.rows = Tail(@), !.known = @ \cup {row}]
  <2>1. ImportRow(w) => (task[w].pc = "row" /\ Becomes(w, n)) \/ Goes(w, "insert")
    BY DEF ImportRow, At
  <2>2. n.pc = task[w].pc /\ n.targets = task[w].targets
    BY <1>4 DEF Task
  <2> HIDE DEF n
  <2> QED
    BY <2>1, <2>2, <1>3, <1>5, RightPlain DEF FolderPc
<1>11. KeepContact(w) \/ FindLink(w) \/ CreateLink(w) \/ PushMembers(w) \/ EndImport(w)
       => RightTasks'
  <2>1. KeepContact(w) \/ FindLink(w) \/ CreateLink(w) \/ PushMembers(w) \/ EndImport(w)
        => \/ Goes(w, "upsert") \/ Goes(w, "members") \/ Goes(w, "relate")
           \/ Goes(w, "lookup") \/ Done(w)
    BY DEF KeepContact, FindLink, CreateLink, PushMembers, EndImport
  <2> QED
    BY <2>1, <1>3, <1>5, RightEnds
<1>12. RightTasks'
  BY <1>7, <1>8, <1>9, <1>10, <1>11
<1> QED
  BY <1>1, <1>2, <1>12, RightQuiet

\* Steps that write a request, in which a folder is one of its company.
LEMMA RightFiled ==
    ASSUME TypeInv, RightInv, RightTasks', UNCHANGED <<accounts, folders>>,
           Grew(requests, requests'),
           \A r \in DOMAIN requests' :
              \/ requests'[r].folder = 0
              \/ r \in DOMAIN requests /\ requests'[r].folder = requests[r].folder
              \/ Holds(requests'[r].folder, requests'[r].llc, folders)
    PROVE  RightInv'
<1>1. RightRequests(requests', folders)
  BY DEF RightInv, RightRequests, Grew
<1> QED
  BY <1>1 DEF RightInv, RightFolder

LEMMA RightSave ==
    ASSUME TypeInv, RightInv, NEW w \in Workers, Save(w), Typed
    PROVE  RightInv'
<1> DEFINE r == task[w].request
<1>1. /\ At(w, "save") /\ Goes(w, "link") /\ UNCHANGED <<contactOf, crm, folders>>
      /\ requests' = [requests EXCEPT ![r].synced = TRUE]
  BY DEF Save
<1>2. RightTasks'
  BY <1>1, RightGoes, MoreSame DEF RightInv, Typed, FolderPc
<1>3. \A k \in DOMAIN requests : requests[k] \in Request
  BY TaskFields
<1>4. \A k \in DOMAIN requests' :
         k \in DOMAIN requests /\ requests'[k].folder = requests[k].folder
  BY <1>1, <1>3 DEF Request
<1> QED
  BY <1>1, <1>2, <1>4, RightFiled DEF Typed, crm

LEMMA RightBackfill ==
    ASSUME TypeInv, RightInv, NEW w \in Workers, Backfill(w), Typed
    PROVE  RightInv'
<1> DEFINE t == task[w]
<1>1. At(w, "backfill") /\ UNCHANGED <<contactOf, crm, folders>>
  BY DEF Backfill
<1>2. PICK r \in t.todo :
        /\ \E url : requests' = [requests EXCEPT ![r].url = url]
        /\ IF t.todo = {r} THEN Done(w)
           ELSE Becomes(w, [t EXCEPT !.todo = @ \ {r}])
  BY DEF Backfill
<1> DEFINE n == [t EXCEPT !.todo = @ \ {r}]
<1>3. n.pc = "backfill" /\ n.targets = t.targets
  BY <1>1, TaskFields DEF Task, At
<1>4. Done(w) \/ Becomes(w, n)
  BY <1>2
<1> HIDE DEF n
<1>5. RightTasks'
  BY <1>1, <1>3, <1>4, RightPlain, RightEnds, MoreSame DEF RightInv, Typed, FolderPc
<1>6. \A k \in DOMAIN requests : requests[k] \in Request
  BY TaskFields
<1>7. \A k \in DOMAIN requests' :
         k \in DOMAIN requests /\ requests'[k].folder = requests[k].folder
  BY <1>2, <1>6 DEF Request
<1> QED
  BY <1>1, <1>5, <1>7, RightFiled DEF Typed, crm

LEMMA RightInsertRow ==
    ASSUME TypeInv, RightInv, NEW w \in Workers, InsertRow(w), Typed
    PROVE  RightInv'
<1> DEFINE t == task[w]
           row == Head(t.rows)
           q == NewRequest(t.partner, row)
           k == Len(requests) + 1
           n == [t EXCEPT !.rows = Tail(@), !.known = @ \cup {row},
                          !.pc = "contact", !.request = k]
<1>1. /\ At(w, "insert") /\ Len(requests) < MaxRequests
      /\ requests' = Append(requests, q) /\ Becomes(w, n)
      /\ UNCHANGED <<contactOf, crm, folders>>
  BY DEF InsertRow
<1>2. t \in Task /\ t.rows # <<>>
  BY <1>1, TaskFields DEF At, GoodTask
<1>3. row \in Row /\ t.partner \in Owners
  BY <1>2, HeadTailRows DEF Task
<1>4. q \in Request /\ ~q.synced /\ q.folder = 0
  BY <1>3, NewRequestType
<1> HIDE DEF q
<1>5. \A i \in DOMAIN requests' : i \in DOMAIN requests \/ i = k
  BY <1>1, <1>4, Inserted
<1>6. requests'[k] = q /\ \A i \in DOMAIN requests : requests'[i] = requests[i]
  BY <1>1, <1>4, Inserted
<1>7. n.pc = "contact" /\ n.targets = t.targets
  BY <1>2 DEF Task
<1> HIDE DEF n
<1>8. RightTasks'
  BY <1>1, <1>7, RightPlain, MoreSame DEF RightInv, Typed, FolderPc
<1> QED
  BY <1>1, <1>4, <1>5, <1>6, <1>8, RightFiled DEF Typed, crm

LEMMA RightLookup ==
    ASSUME TypeInv, RightInv, NEW w \in Workers, Lookup(w)
    PROVE  RightInv'
<1> DEFINE f == accounts[Llc(w)].folder
           t == task[w]
           n == [t EXCEPT !.pc = "embed", !.folder = f]
<1>1. /\ At(w, "lookup") /\ UNCHANGED <<requests, contactOf, crm, folders>>
      /\ (f # 0 /\ Becomes(w, n)) \/ Goes(w, "folder")
  BY DEF Lookup
<1>2. task[w].pc = "lookup" /\ task[w].pc \in NamedPc /\ task[w].pc \in RequestPc
  BY <1>1 DEF At, NamedPc, RequestPc
<1>3. Llc(w) \in Llcs /\ Llc(w) = requests[t.request].llc
  BY <1>2, Holder
<1>4. f # 0 => Holds(f, requests[t.request].llc, folders)
  BY <1>3 DEF RightInv, RightAccounts
<1> HIDE DEF f
<1>5. t \in Task /\ RightTask(t, requests, folders)
  BY TaskFields DEF RightInv, RightTasks
<1>6. n.pc = "embed" /\ n.folder = f /\ n.request = t.request /\ n.targets = t.targets
  BY <1>5 DEF Task
<1> HIDE DEF n
<1>7. f # 0 => RightTask(n, requests', folders')
  BY <1>1, <1>4, <1>5, <1>6 DEF RightTask
<1>8. RightTasks'
  BY <1>1, <1>7, RightMoves, RightGoes, GrewSame, MoreSame DEF RightInv, FolderPc
<1> QED
  BY <1>1, <1>8, RightQuiet DEF crm

\* A handler that has found or made the folder of a company gives it to the request.
LEMMA RightGives ==
    ASSUME TypeInv, RightInv, NEW w \in Workers, Embed(w) \/ StoreFolder(w), Typed
    PROVE  RightInv'
<1> DEFINE r == task[w].request
           f == task[w].folder
<1>1. /\ task[w].pc \in {"embed", "store"} /\ UNCHANGED <<contactOf, crm, folders>>
      /\ Goes(w, "docs") \/ NextRow(w)
      /\ \/ UNCHANGED requests
         \/ requests' = [requests EXCEPT ![r].folder = f, ![r].url = Embedded(f)]
  BY DEF Embed, StoreFolder, At
<1>2. task[w].pc \in RequestPc /\ task[w].pc \in FolderPc
  BY <1>1 DEF RequestPc, FolderPc
<1>3. r \in DOMAIN requests /\ f \in FolderId /\ Embedded(f) \in Url /\ requests[r] \in Request
  BY <1>2, Holder, TaskFields, EmbeddedType DEF Task, Current
<1>4. Holds(f, requests[r].llc, folders)
  BY <1>2 DEF RightInv, RightTasks, RightTask
<1>5. RightTasks'
  BY <1>1, <1>2, RightGoes, RightNextRow, MoreSame DEF RightInv, Typed
<1> HIDE DEF f
<1>6. CASE UNCHANGED requests
  BY <1>1, <1>5, <1>6, RightFiled DEF Typed, crm
<1>7. CASE requests' = [requests EXCEPT ![r].folder = f, ![r].url = Embedded(f)]
  <2>1. /\ DOMAIN requests' = DOMAIN requests
        /\ \A k \in DOMAIN requests :
              requests'[k] = IF k = r THEN [requests[r] EXCEPT !.folder = f, !.url = Embedded(f)]
                                      ELSE requests[k]
    BY <1>3, <1>7, Filed
  <2>2. requests'[r].folder = f /\ requests'[r].llc = requests[r].llc
    BY <1>3, <2>1 DEF Request
  <2> QED
    BY <1>1, <1>4, <1>5, <2>1, <2>2, RightFiled DEF Typed, crm
<1> QED
  BY <1>1, <1>6, <1>7

LEMMA RightStage ==
    ASSUME TypeInv, RightInv, NEW w \in Workers, Stage(w), Typed
    PROVE  RightInv'
<1> DEFINE r == task[w].request
           a == accounts[Llc(w)]
           f == IF a.folder # 0 THEN a.folder ELSE task[w].folder
           u == IF task[w].url.kind = "none" /\ a.folder # 0
                THEN Permalink(a.folder) ELSE task[w].url
<1>1. /\ At(w, "stage") /\ Done(w) /\ UNCHANGED <<contactOf, crm, folders>>
      /\ \/ UNCHANGED requests
         \/ \E url \in {u, task[w].url} :
               requests' = [requests EXCEPT ![r].folder = f, ![r].url = url]
  BY DEF Stage
<1>2. task[w].pc = "stage" /\ task[w].pc \in NamedPc /\ task[w].pc \in RequestPc
  BY <1>1 DEF At, NamedPc, RequestPc
<1>3. /\ r \in DOMAIN requests /\ requests[r] \in Request
      /\ Llc(w) \in Llcs /\ Llc(w) = requests[r].llc
  BY <1>2, Holder DEF Current
<1>4. f # 0 => Holds(f, requests[r].llc, folders)
  BY <1>2, <1>3 DEF RightInv, RightAccounts, RightTasks, RightTask
<1>5. RightTasks'
  BY <1>1, RightEnds, MoreSame DEF RightInv, Typed
<1> HIDE DEF f, u
<1>6. CASE UNCHANGED requests
  BY <1>1, <1>5, <1>6, RightFiled DEF Typed, crm
<1>7. ASSUME NEW url, requests' = [requests EXCEPT ![r].folder = f, ![r].url = url]
      PROVE  RightInv'
  <2>1. DOMAIN requests' = DOMAIN requests
    BY <1>7
  <2>2. \A k \in DOMAIN requests : k # r => requests'[k] = requests[k]
    BY <1>7
  <2>3. requests'[r].folder = f /\ requests'[r].llc = requests[r].llc
    BY <1>3, <1>7 DEF Request
  <2> QED
    BY <1>1, <1>3, <1>4, <1>5, <2>1, <2>2, <2>3, RightFiled DEF Typed, crm
<1> QED
  BY <1>1, <1>6, <1>7

LEMMA RightMakeFolder ==
    ASSUME TypeInv, RightInv, NEW w \in Workers, MakeFolder(w)
    PROVE  RightInv'
<1> DEFINE t == task[w]
           f == Len(folders) + 1
           n == [t EXCEPT !.pc = "account", !.folder = f]
<1>1. /\ At(w, "folder") /\ UNCHANGED <<requests, contactOf, crm>>
      /\ \/ UNCHANGED folders /\ NextRow(w)
         \/ /\ Len(folders) < MaxFolders /\ folders' = NewFolder(Llc(w))
            /\ Becomes(w, n) \/ NextRow(w)
  BY DEF MakeFolder
<1>2. task[w].pc = "folder" /\ task[w].pc \in NamedPc /\ task[w].pc \in RequestPc
  BY <1>1 DEF At, NamedPc, RequestPc
<1>3. Llc(w) \in Llcs /\ Llc(w) = requests[t.request].llc
  BY <1>2, Holder
<1>4. t \in Task /\ RightTask(t, requests, folders)
  BY TaskFields DEF RightInv, RightTasks
<1>5. n.pc = "account" /\ n.folder = f /\ n.request = t.request /\ n.targets = t.targets
  BY <1>4 DEF Task
<1> HIDE DEF n
<1>6. CASE UNCHANGED folders /\ NextRow(w)
  <2>1. RightTasks'
    BY <1>1, <1>6, RightNextRow, GrewSame, MoreSame DEF RightInv
  <2> QED
    BY <1>1, <1>6, <2>1, RightQuiet DEF crm
<1>7. CASE /\ Len(folders) < MaxFolders /\ folders' = NewFolder(Llc(w))
           /\ Becomes(w, n) \/ NextRow(w)
  <2>1. /\ DOMAIN folders' = DOMAIN folders \cup {f}
        /\ \A k \in DOMAIN folders : folders'[k] = folders[k]
        /\ folders'[f] = [llc |-> Llc(w), docs |-> {}]
    BY <1>3, <1>7, Added
  <2>2. More(folders, folders') /\ Holds(f, Llc(w), folders')
    BY <2>1 DEF More, Holds
  <2>3. RightTask(n, requests', folders')
    BY <1>1, <1>3, <1>4, <1>5, <2>2 DEF RightTask, Holds, More
  <2>4. RightTasks'
    BY <1>1, <1>7, <2>2, <2>3, RightMoves, RightNextRow, GrewSame DEF RightInv
  <2>5. \A k \in DOMAIN folders' : folders'[k].docs \subseteq {folders'[k].llc}
    BY <2>1 DEF RightInv, RightFolder
  <2>6. RightAccounts(accounts, folders') /\ RightRequests(requests, folders')
    BY <2>2 DEF RightInv, RightAccounts, RightRequests, Holds, More
  <2> QED
    BY <1>1, <2>4, <2>5, <2>6 DEF RightInv, RightFolder, crm
<1> QED
  BY <1>1, <1>6, <1>7

LEMMA RightSetAccountFolder ==
    ASSUME TypeInv, RightInv, NEW w \in Workers, SetAccountFolder(w)
    PROVE  RightInv'
<1> DEFINE f == task[w].folder
<1>1. /\ At(w, "account") /\ UNCHANGED <<requests, contactOf, contacts, links, folders>>
      /\ UNCHANGED accounts \/ accounts' = [accounts EXCEPT ![Llc(w)].folder = f]
      /\ Goes(w, "store") \/ NextRow(w)
  BY DEF SetAccountFolder
<1>2. task[w].pc = "account" /\ task[w].pc \in NamedPc /\ task[w].pc \in RequestPc
      /\ task[w].pc \in FolderPc
  BY <1>1 DEF At, NamedPc, RequestPc, FolderPc
<1>3. Llc(w) \in Llcs /\ Llc(w) = requests[task[w].request].llc
  BY <1>2, Holder
<1>4. Holds(f, Llc(w), folders)
  BY <1>2, <1>3 DEF RightInv, RightTasks, RightTask
<1>5. RightTasks'
  BY <1>1, <1>2, RightGoes, RightNextRow, GrewSame, MoreSame DEF RightInv
<1> HIDE DEF f
<1>6. \A llc \in Llcs : \/ accounts'[llc].folder = accounts[llc].folder
                        \/ llc = Llc(w) /\ accounts'[llc].folder = f
  BY <1>1, <1>3 DEF TypeInv, CrmOK, Account
<1>7. RightAccounts(accounts', folders)
  BY <1>4, <1>6 DEF RightInv, RightAccounts
<1> QED
  BY <1>1, <1>5, <1>7 DEF RightInv, RightFolder, RightRequests

\* Documents of a company go where a folder of the company is.
LEMMA RightDocs ==
    ASSUME TypeInv, RightInv, NEW llc \in Llcs, NEW f, folders' = Unpacked(llc, f),
           Holds(f, llc, folders), UNCHANGED <<requests, accounts>>, RightTasks'
    PROVE  RightInv'
<1>1. /\ DOMAIN folders' = DOMAIN folders
      /\ \A k \in DOMAIN folders : /\ folders'[k].llc = folders[k].llc
                                   /\ k # f => folders'[k].docs = folders[k].docs
                                   /\ folders'[k].docs \subseteq folders[k].docs \cup {llc}
  BY UnpackedType
<1>2. \A k \in DOMAIN folders' : folders'[k].docs \subseteq {folders'[k].llc}
  BY <1>1 DEF RightInv, RightFolder, Holds
<1>3. RightAccounts(accounts, folders') /\ RightRequests(requests, folders')
  BY <1>1 DEF RightInv, RightAccounts, RightRequests, Holds
<1> QED
  BY <1>2, <1>3 DEF RightInv, RightFolder

LEMMA RightUpload ==
    ASSUME TypeInv, RightInv, NEW w \in Workers, Upload(w)
    PROVE  RightInv'
<1>1. /\ At(w, "docs") /\ NextRow(w) /\ UNCHANGED <<requests, contactOf, crm>>
      /\ UNCHANGED folders \/ folders' = Unpacked(Llc(w), task[w].folder)
  BY DEF Upload
<1>2. task[w].pc = "docs" /\ task[w].pc \in NamedPc /\ task[w].pc \in RequestPc
      /\ task[w].pc \in FolderPc
  BY <1>1 DEF At, NamedPc, RequestPc, FolderPc
<1>3. Llc(w) \in Llcs /\ Llc(w) = requests[task[w].request].llc
  BY <1>2, Holder
<1>4. Holds(task[w].folder, Llc(w), folders)
  BY <1>2, <1>3 DEF RightInv, RightTasks, RightTask
<1>5. More(folders, folders')
  BY <1>1, <1>3, UnpackedType, MoreSame DEF More
<1>6. RightTasks'
  BY <1>1, <1>5, RightNextRow, GrewSame DEF RightInv
<1> QED
  BY <1>1, <1>3, <1>4, <1>6, RightDocs, RightQuiet DEF crm

LEMMA RightUnpackZip ==
    ASSUME TypeInv, RightInv, NEW w \in Workers, UnpackZip(w)
    PROVE  RightInv'
<1> DEFINE t == task[w]
<1>1. At(w, "zip") /\ UNCHANGED <<requests, contactOf, crm>>
  BY DEF UnpackZip
<1>2. PICK x \in t.targets :
         /\ folders' \in {Unpacked(x[1], x[2])} \cup {f \in {folders} : Fails("call")}
         /\ IF t.targets = {x} THEN Done(w)
            ELSE Becomes(w, [t EXCEPT !.targets = @ \ {x}])
  BY DEF UnpackZip
<1>3. t \in Task /\ t.pc = "zip" /\ Holds(x[2], x[1], folders)
  BY <1>1, <1>2, TaskFields DEF At, RightInv, RightTasks, RightTask
<1>4. x[1] \in Llcs /\ (UNCHANGED folders \/ folders' = Unpacked(x[1], x[2]))
  BY <1>2, <1>3 DEF Task
<1>5. More(folders, folders')
  BY <1>4, UnpackedType, MoreSame DEF More
<1> DEFINE n == [t EXCEPT !.targets = @ \ {x}]
<1>6. n.pc = "zip" /\ n.targets \subseteq t.targets
  BY <1>3 DEF Task
<1>7. Done(w) \/ Becomes(w, n)
  BY <1>2
<1> HIDE DEF n
<1>8. RightTasks'
  BY <1>1, <1>5, <1>6, <1>7, RightPlain, RightEnds, GrewSame DEF RightInv, FolderPc
<1> QED
  BY <1>1, <1>3, <1>4, <1>8, RightDocs, RightQuiet DEF crm

LEMMA RightFolderInCrm ==
    ASSUME TypeInv, RightInv, NEW llc \in Llcs, FolderInCrm(llc)
    PROVE  RightInv'
<1> DEFINE f == Len(folders) + 1
<1>1. /\ Len(folders) < MaxFolders /\ folders' = NewFolder(llc)
      /\ accounts' = [accounts EXCEPT ![llc].folder = f]
      /\ UNCHANGED <<world, requests, contactOf, contacts, links, booted, task, calls>>
  BY DEF FolderInCrm
<1>2. /\ DOMAIN folders' = DOMAIN folders \cup {f}
      /\ \A k \in DOMAIN folders : folders'[k] = folders[k]
      /\ folders'[f] = [llc |-> llc, docs |-> {}]
  BY <1>1, Added
<1> HIDE DEF f
<1>3. More(folders, folders') /\ Holds(f, llc, folders')
  BY <1>2 DEF More, Holds
<1>4. RightTasks'
  BY <1>1, <1>3, TaskFields, RightTaskOn, GrewSame DEF RightInv, RightTasks
<1>5. \A k \in DOMAIN folders' : folders'[k].docs \subseteq {folders'[k].llc}
  BY <1>2 DEF RightInv, RightFolder
<1>6. RightRequests(requests, folders')
  BY <1>3 DEF RightInv, RightRequests, Holds, More
<1>7. \A l \in Llcs : \/ accounts'[l].folder = accounts[l].folder
                      \/ l = llc /\ accounts'[l].folder = f
  BY <1>1 DEF TypeInv, CrmOK, Account
<1>8. RightAccounts(accounts', folders')
  BY <1>3, <1>7 DEF RightInv, RightAccounts, Holds, More
<1> QED
  BY <1>1, <1>4, <1>5, <1>6, <1>8 DEF RightInv, RightFolder

LEMMA RightIdle == \A Q, F : RightTask(Idle, Q, F)
BY DEF RightTask, Idle, FolderPc

LEMMA RightCrash ==
    ASSUME TypeInv, RightInv, Crash
    PROVE  RightInv'
<1>1. /\ task' = [w \in Workers |-> Idle] /\ UNCHANGED <<requests, crm, folders>>
  BY DEF Crash
<1>2. RightTasks'
  BY <1>1, RightIdle DEF RightTasks
<1> QED
  BY <1>1, <1>2, RightQuiet DEF crm

LEMMA InitRight ==
    ASSUME FreshWorlds, Init
    PROVE  RightInv
<1>1. /\ world \in Worlds /\ requests = world.requests /\ folders = <<>>
      /\ accounts = [llc \in Llcs |-> [exists |-> FALSE, folder |-> 0, members |-> {}]]
      /\ task = [w \in Workers |-> Idle]
  BY DEF Init
<1>2. RightFolder
  BY <1>1 DEF RightFolder
<1>3. RightAccounts(accounts, folders)
  BY <1>1 DEF RightAccounts
<1>4. RightRequests(requests, folders)
  BY <1>1 DEF RightRequests, FreshWorlds
<1>5. RightTasks
  BY <1>1, RightIdle DEF RightTasks
<1> QED
  BY <1>2, <1>3, <1>4, <1>5 DEF RightInv

LEMMA NextRight ==
    ASSUME TypeInv, RightInv, Next
    PROVE  RightInv'
<1>1. Typed
  BY NextTyped
<1>2. ASSUME NEW w \in Workers, Advance(w)
      PROVE  RightInv'
  BY <1>1, <1>2, RightCrm, RightSave, RightLookup, RightGives, RightMakeFolder,
     RightSetAccountFolder, RightInsertRow, RightUpload, RightUnpackZip, RightBackfill,
     RightStage
     DEF Advance
<1> QED
  BY <1>2, RightBegin, RightFolderInCrm, RightCrash DEF Next

\* However imports overlap and whichever calls fail, a document a partner uploads for one
\* company is never in the folder of another: accounts, requests and handlers only ever
\* refer to a folder of the company they are about, and a folder is never given to another.
THEOREM DocumentsInTheRightFolder ==
    ASSUME FreshWorlds
    PROVE  Spec => []RightFolder
<1>1. Init => TypeInv /\ RightInv
  BY InitTyped, InitRight
<1>2. TypeInv /\ RightInv /\ [Next]_vars => (TypeInv /\ RightInv)'
  <2>1. ASSUME TypeInv, RightInv, UNCHANGED vars
        PROVE  RightInv'
    BY <2>1 DEF vars, crm, RightInv, RightFolder, RightAccounts, RightRequests, RightTasks
  <2> QED
    BY <2>1, NextTyped, StutterTyped, NextRight DEF Typed
<1>3. RightInv => RightFolder
  BY DEF RightInv
<1> QED
  BY <1>1, <1>2, <1>3, PTL DEF Spec

-----------------------------------------------------------------------------
(* Handlers one at a time.  Between two steps of the only handler nothing  *)
(* changes but what the CRM does by itself, so what it has read still      *)
(* holds when it acts on it.                                               *)

Outside == \A w \in Workers : task[w] # Idle => w \in world.workers

ImportPc == {"row", "insert", "lookup", "embed", "folder", "account", "store", "docs"}

\* Where folders are kept in one place: OneFolder's conditions.
Simple == Alone /\ "lookup" \notin world.faults /\ ~({"crm", "csv"} \subseteq world.ops)

OneRequests(Q, A) ==
    \A r \in DOMAIN Q : /\ Q[r].folder # 0 => Q[r].folder = A[Q[r].llc].folder
                        /\ Q[r].url.folder \in {0, Q[r].folder}

OneTask(t, Q, A) ==
    /\ t.pc \in ImportPc => t.partner # Platform
    /\ t.partner # Platform /\ t.pc # "zip" => "csv" \in world.ops
    /\ t.pc \in {"embed", "store"} => t.folder = A[Q[t.request].llc].folder
    /\ t.pc \in {"folder", "account"} => A[Q[t.request].llc].folder = 0
    /\ t.pc = "stage" => t.folder = Q[t.request].folder /\ t.url = Q[t.request].url

OneInv ==
    Simple => /\ OneRequests(requests, accounts)
              /\ \A w \in Workers : OneTask(task[w], requests, accounts)

\* A contact is about to be made where there is none, and a link likewise.
OnceTask(t) ==
    /\ t.pc = "create" => contacts[Address(t.request)] = 0
    /\ t.pc = "relate" => \A l \in links : ~(/\ l.llc = requests[t.request].llc
                                             /\ l.address = Address(t.request)
                                             /\ l.contact = t.contact)

OnceCrm == (\A a \in Addresses : contacts[a] <= 1) /\ (\A l \in links : l.n = 1)

OnceInv == Alone => OnceCrm /\ \A w \in Workers : OnceTask(task[w])

Sole == Outside /\ OneInv /\ OnceInv

LEMMA Lone ==
    ASSUME IsFiniteSet(Workers), TypeInv, Outside, Alone,
           NEW w \in world.workers, NEW v \in Workers, v # w
    PROVE  task[v] = Idle
<1>1. world.workers \subseteq Workers
  BY WorldsAssumption DEF TypeInv, RestOK
<1>2. IsFiniteSet(world.workers)
  BY <1>1, FS_Subset
<1>3. PICK x : world.workers = {x}
  BY <1>2, FS_Singleton DEF Alone
<1> QED
  BY <1>3 DEF Outside

LEMMA IdleOne == \A Q, A : OneTask(Idle, Q, A)
BY DEF OneTask, Idle, ImportPc

LEMMA SoleMoves ==
    ASSUME IsFiniteSet(Workers), TypeInv, Sole, NEW w \in Workers, w \in world.workers,
           NEW n, Becomes(w, n), UNCHANGED world,
           Alone => OnceCrm' /\ OnceTask(n)',
           Simple => OneRequests(requests', accounts') /\ OneTask(n, requests', accounts')
    PROVE  Sole'
<1>1. \A v \in Workers : task'[v] = IF v = w THEN n ELSE task[v]
  BY DEF TypeInv, TasksOK, Becomes
<1>2. Outside'
  BY <1>1 DEF Sole, Outside
<1>3. Alone => \A v \in Workers : v # w => task'[v] = Idle
  BY <1>1, Lone DEF Sole
<1>4. OneInv'
  <2>1. ASSUME Simple, NEW v \in Workers
        PROVE  OneTask(task'[v], requests', accounts')
    BY <2>1, <1>1, <1>3, IdleOne DEF Simple
  <2>2. OneInv' <=> (Simple => /\ OneRequests(requests', accounts')
                               /\ \A v \in Workers : OneTask(task'[v], requests', accounts'))
    BY DEF OneInv, Simple, Alone, OneTask
  <2> QED
    BY <2>1, <2>2
<1>5. OnceInv'
  <2>1. OnceTask(Idle)'
    BY DEF OnceTask, Idle
  <2>2. ASSUME Alone, NEW v \in Workers
        PROVE  OnceTask(task[v])'
    BY <2>1, <2>2, <1>1, <1>3 DEF OnceTask
  <2>3. OnceInv' <=> (Alone => OnceCrm' /\ \A v \in Workers : OnceTask(task[v])')
    BY DEF OnceInv, Alone
  <2> QED
    BY <2>2, <2>3
<1> QED
  BY <1>2, <1>4, <1>5 DEF Sole

\* A step that makes neither contacts nor links.
LEMMA SoleSteps ==
    ASSUME IsFiniteSet(Workers), TypeInv, Sole, NEW w \in Workers, w \in world.workers,
           NEW n, Becomes(w, n), UNCHANGED <<world, contacts, links>>,
           n.pc \notin {"create", "relate"},
           Simple => OneRequests(requests', accounts') /\ OneTask(n, requests', accounts')
    PROVE  Sole'
<1>1. Alone => OnceCrm' /\ OnceTask(n)'
  BY DEF Sole, OnceInv, OnceCrm, OnceTask
<1> QED
  BY <1>1, SoleMoves

LEMMA SoleDone ==
    ASSUME IsFiniteSet(Workers), TypeInv, Sole, NEW w \in Workers, w \in world.workers,
           Done(w), UNCHANGED <<world, contacts, links>>,
           Simple => OneRequests(requests', accounts')
    PROVE  Sole'
BY SoleSteps, IdleOne, IdleType DEF Done

LEMMA SoleGoes ==
    ASSUME IsFiniteSet(Workers), TypeInv, Sole, NEW w \in Workers, w \in world.workers,
           NEW pc, Goes(w, pc), UNCHANGED <<world, contacts, links>>,
           pc \notin {"create", "relate", "stage"}, task[w].pc # "zip",
           pc \in ImportPc => Imports(w) \/ task[w].pc \in ImportPc,
           Simple => /\ OneRequests(requests', accounts')
                     /\ pc \in {"embed", "store"} =>
                           task[w].folder = accounts'[requests'[task[w].request].llc].folder
                     /\ pc \in {"folder", "account"} =>
                           accounts'[requests'[task[w].request].llc].folder = 0
    PROVE  Sole'
<1> DEFINE t == task[w]
           n == [t EXCEPT !.pc = pc]
<1>1. t \in Task
  BY TaskFields
<1>2. /\ n.pc = pc /\ n.partner = t.partner /\ n.folder = t.folder /\ n.request = t.request
  BY <1>1 DEF Task
<1>3. Becomes(w, n)
  BY DEF Goes
<1> HIDE DEF n
<1>4. Simple => OneTask(t, requests, accounts)
  BY DEF Sole, OneInv
<1>5. Simple => OneTask(n, requests', accounts')
  BY <1>2, <1>4 DEF OneTask, Imports
<1> QED
  BY <1>2, <1>3, <1>5, SoleSteps

LEMMA SoleNextRow ==
    ASSUME IsFiniteSet(Workers), TypeInv, Sole, NEW w \in Workers, w \in world.workers,
           NextRow(w), UNCHANGED <<world, contacts, links>>, task[w].pc # "zip",
           Simple => OneRequests(requests', accounts')
    PROVE  Sole'
<1> DEFINE t == task[w]
           n == [t EXCEPT !.pc = "row", !.request = 0, !.contact = 0, !.folder = 0]
<1>1. t \in Task
  BY TaskFields
<1>2. n.pc = "row" /\ n.partner = t.partner
  BY <1>1 DEF Task
<1>3. Done(w) \/ (Imports(w) /\ Becomes(w, n))
  BY DEF NextRow
<1> HIDE DEF n
<1>4. Simple => OneTask(t, requests, accounts)
  BY DEF Sole, OneInv
<1>5. Imports(w) /\ Simple => OneTask(n, requests', accounts')
  BY <1>2, <1>4 DEF OneTask, Imports
<1> QED
  BY <1>2, <1>3, <1>5, SoleSteps, SoleDone

\* A step that only reads, to find what the next one is to make.
LEMMA SoleReads ==
    ASSUME IsFiniteSet(Workers), TypeInv, Sole, NEW w \in Workers, w \in world.workers,
           NEW pc, Goes(w, pc), UNCHANGED <<world, requests, contactOf, crm, folders>>,
           pc \in {"create", "relate"}, task[w].pc # "zip",
           pc = "create" => contacts[Address(task[w].request)] = 0,
           pc = "relate" => ~Related(w)
    PROVE  Sole'
<1> DEFINE t == task[w]
           n == [t EXCEPT !.pc = pc]
<1>1. t \in Task
  BY TaskFields
<1>2. /\ n.pc = pc /\ n.partner = t.partner /\ n.contact = t.contact /\ n.request = t.request
  BY <1>1 DEF Task
<1>3. Becomes(w, n)
  BY DEF Goes
<1> HIDE DEF n
<1>4. OnceTask(n)
  BY <1>2 DEF OnceTask, Related, Llc, Current
<1>5. Simple => OneTask(t, requests, accounts) /\ OneRequests(requests, accounts)
  BY DEF Sole, OneInv
<1>6. Simple => OneTask(n, requests, accounts)
  BY <1>2, <1>5 DEF OneTask, ImportPc
<1>7. ASSUME NEW m, OnceTask(m)
      PROVE  OnceTask(m)'
  BY <1>7 DEF OnceTask, Address, crm
<1>8. Alone => OnceCrm'
  BY DEF Sole, OnceInv, OnceCrm, crm
<1>9. ASSUME NEW m, m = n
      PROVE  Sole'
  <2>1. OnceTask(m)' /\ Becomes(w, m)
    BY <1>3, <1>4, <1>7, <1>9
  <2>2. Simple => OneRequests(requests', accounts') /\ OneTask(m, requests', accounts')
    BY <1>5, <1>6, <1>9 DEF crm
  <2> QED
    BY <2>1, <2>2, <1>8, SoleMoves
<1> QED
  BY <1>9

LEMMA SoleSame ==
    ASSUME Sole
    PROVE  Simple => OneRequests(requests, accounts)
BY DEF Sole, OneInv

LEMMA SoleBegin ==
    ASSUME IsFiniteSet(Workers), TypeInv, Sole, NEW w \in Workers, Begin(w)
    PROVE  Sole'
<1>1. /\ UNCHANGED <<world, requests, crm, folders>> /\ w \in world.workers
  BY DEF Begin, BeginSync, BeginStage, BeginImport, BeginZip, BeginBackfill, Begins
<1>2. ASSUME NEW n, Becomes(w, n), n.pc \notin {"create", "relate"},
             Simple => OneTask(n, requests, accounts)
      PROVE  Sole'
  BY <1>1, <1>2, SoleSame, SoleSteps DEF crm
<1>3. ASSUME NEW n, Becomes(w, n), n.pc \in {"contact", "backfill"}, n.partner = Platform
      PROVE  Sole'
  BY <1>2, <1>3 DEF OneTask, ImportPc
<1>4. Idle \in Task /\ Idle.partner = Platform
  BY IdleType
<1>5. ASSUME NEW r \in DOMAIN requests, BeginSync(w, r)
      PROVE  Sole'
  <2> DEFINE n == [Idle EXCEPT !.pc = "contact", !.request = r]
  <2>1. Becomes(w, n) /\ n.pc = "contact" /\ n.partner = Platform
    BY <1>4, <1>5 DEF BeginSync, Task
  <2> HIDE DEF n
  <2> QED
    BY <2>1, <1>3
<1>6. ASSUME NEW p \in Partners, NEW file \in Files, BeginImport(w, p, file)
      PROVE  Sole'
  <2> DEFINE n == [Idle EXCEPT !.pc = "row", !.partner = p, !.rows = file.rows,
                               !.known = Keys(p), !.zip = file.zip]
  <2>1. Becomes(w, n) /\ n.pc = "row" /\ n.partner = p /\ "csv" \in world.ops
    BY <1>4, <1>6 DEF BeginImport, Begins, Task
  <2> HIDE DEF n
  <2>2. p # Platform
    BY NamesAssumption
  <2> QED
    BY <2>1, <2>2, <1>2 DEF OneTask
<1>7. ASSUME BeginBackfill(w)
      PROVE  Sole'
  <2> DEFINE todo == {r \in DOMAIN requests :
                          requests[r].folder # 0 /\ requests[r].url.kind = "none"}
             n == [Idle EXCEPT !.pc = "backfill", !.todo = todo]
  <2>1. Becomes(w, n)
    BY <1>7 DEF BeginBackfill
  <2> HIDE DEF todo
  <2>2. n.pc = "backfill" /\ n.partner = Platform
    BY <1>4 DEF Task
  <2> HIDE DEF n
  <2> QED
    BY <2>1, <2>2, <1>3
<1>8. ASSUME NEW r \in DOMAIN requests, BeginStage(w, r)
      PROVE  Sole'
  <2> DEFINE n == [Idle EXCEPT !.pc = "stage", !.request = r,
                               !.folder = requests[r].folder, !.url = requests[r].url]
  <2>1. Becomes(w, n)
    BY <1>8 DEF BeginStage
  <2>2. /\ n.pc = "stage" /\ n.partner = Platform /\ n.request = r
        /\ n.folder = requests[r].folder /\ n.url = requests[r].url
    BY <1>4 DEF Task
  <2> HIDE DEF n
  <2> QED
    BY <2>1, <2>2, <1>2 DEF OneTask, ImportPc
<1>9. ASSUME NEW p \in Partners, NEW zip \in Zip, BeginZip(w, p, zip)
      PROVE  Sole'
  <2> DEFINE named == {llc \in zip : \E r \in RequestsOf(p) : Named(r, llc)}
             found(target) == {<<llc, requests[target[llc]].folder>> : llc \in named}
                                \cap (Llcs \X (1..MaxFolders))
  <2>1. PICK target \in [named -> RequestsOf(p)] :
            Becomes(w, [Idle EXCEPT !.pc = "zip", !.partner = p, !.targets = found(target)])
    BY <1>9, Zenon DEF BeginZip
  <2> DEFINE targets == found(target)
             n == [Idle EXCEPT !.pc = "zip", !.partner = p, !.targets = targets]
  <2>2. Becomes(w, n)
    BY <2>1
  <2> HIDE DEF targets
  <2>3. n.pc = "zip"
    BY <1>4 DEF Task
  <2> HIDE DEF n
  <2> QED
    BY <2>2, <2>3, <1>2 DEF OneTask, ImportPc
<1> QED
  BY <1>5, <1>6, <1>7, <1>8, <1>9 DEF Begin

\* A handler that is at something is one of those there are.
LEMMA Working ==
    ASSUME Sole, NEW w \in Workers, NEW pc, At(w, pc), pc # "idle"
    PROVE  w \in world.workers /\ UNCHANGED world
<1>1. task[w] # Idle
  BY IdleType DEF At
<1> QED
  BY <1>1 DEF Sole, Outside, At

LEMMA SoleWithContact ==
    ASSUME IsFiniteSet(Workers), TypeInv, Sole, NEW w \in Workers, w \in world.workers,
           UNCHANGED <<world, requests, contacts, accounts, links>>,
           task[w].pc # "zip", NEW pc \in {"keep", "upsert"}, NEW c,
           Becomes(w, [task[w] EXCEPT !.pc = pc, !.contact = c])
    PROVE  Sole'
<1> DEFINE t == task[w]
           n == [t EXCEPT !.pc = pc, !.contact = c]
<1>1. n.pc = pc /\ n.partner = t.partner
  BY TaskFields DEF Task
<1>2. Becomes(w, n)
  OBVIOUS
<1> HIDE DEF n
<1>3. Simple => OneTask(t, requests, accounts) /\ OneRequests(requests, accounts)
  BY DEF Sole, OneInv
<1>4. Simple => OneTask(n, requests, accounts)
  BY <1>1, <1>3 DEF OneTask, ImportPc
<1> QED
  BY <1>1, <1>2, <1>3, <1>4, SoleSteps

LEMMA SoleContact ==
    ASSUME IsFiniteSet(Workers), TypeInv, Sole, NEW w \in Workers, Contact(w)
    PROVE  Sole'
<1> DEFINE a == Address(task[w].request)
<1>1. At(w, "contact") /\ UNCHANGED <<requests, contactOf, crm, folders>>
  BY DEF Contact
<1>2. \/ Becomes(w, [task[w] EXCEPT !.pc = "upsert", !.contact = contactOf[a]])
      \/ \E found \in 1..contacts[a] :
             Becomes(w, [task[w] EXCEPT !.pc = "keep", !.contact = found])
      \/ contacts[a] = 0 /\ Goes(w, "create")
      \/ Goes(w, "upsert")
  BY Zenon DEF Contact
<1>3. w \in world.workers /\ UNCHANGED world /\ task[w].pc = "contact"
  BY <1>1, Working DEF At
<1>4. CASE \/ Becomes(w, [task[w] EXCEPT !.pc = "upsert", !.contact = contactOf[a]])
           \/ \E found \in 1..contacts[a] :
                  Becomes(w, [task[w] EXCEPT !.pc = "keep", !.contact = found])
  <2> HIDE DEF a
  <2> QED
    BY <1>1, <1>3, <1>4, SoleWithContact DEF crm
<1>5. CASE contacts[a] = 0 /\ Goes(w, "create")
  BY <1>1, <1>3, <1>5, SoleReads
<1>6. CASE Goes(w, "upsert")
  BY <1>1, <1>3, <1>6, SoleGoes, SoleSame DEF ImportPc, crm
<1> HIDE DEF a
<1> QED
  BY <1>2, <1>4, <1>5, <1>6

\* The only step that makes a contact: where there is none.
LEMMA SoleCreateContact ==
    ASSUME IsFiniteSet(Workers), TypeInv, Sole, NEW w \in Workers, CreateContact(w)
    PROVE  Sole'
<1> DEFINE a == Address(task[w].request)
           n == contacts[a] + 1
           t == task[w]
           m == [t EXCEPT !.pc = "keep", !.contact = n]
           u == [t EXCEPT !.pc = "upsert"]
<1>1. /\ At(w, "create") /\ UNCHANGED <<requests, contactOf, accounts, links, folders>>
      /\ UNCHANGED contacts \/ contacts' = [contacts EXCEPT ![a] = n]
      /\ Becomes(w, m) \/ Becomes(w, u)
  BY DEF CreateContact, Goes
<1>2. w \in world.workers /\ UNCHANGED world /\ t.pc = "create" /\ t \in Task
  BY <1>1, Working, TaskFields DEF At
<1>3. m.pc = "keep" /\ m.partner = t.partner /\ u.pc = "upsert" /\ u.partner = t.partner
  BY <1>2 DEF Task
<1> HIDE DEF m, u
<1>4. Alone => contacts[a] = 0
  BY <1>2 DEF Sole, OnceInv, OnceTask
<1>5. a \in Addresses
  BY <1>2, Holder DEF RequestPc
<1> HIDE DEF a
<1>6. Alone => OnceCrm'
  BY <1>1, <1>4, <1>5 DEF Sole, OnceInv, OnceCrm, TypeInv, CrmOK
<1>7. Simple => OneTask(t, requests, accounts) /\ OneRequests(requests, accounts)
  BY DEF Sole, OneInv
<1>8. ASSUME NEW x, Becomes(w, x), x.pc \in {"keep", "upsert"}, x.partner = t.partner
      PROVE  Sole'
  <2>1. OnceTask(x)'
    BY <1>8 DEF OnceTask
  <2>2. Simple => OneTask(x, requests, accounts)
    BY <1>2, <1>7, <1>8 DEF OneTask, ImportPc
  <2> QED
    BY <1>1, <1>2, <1>6, <1>7, <1>8, <2>1, <2>2, SoleMoves
<1> QED
  BY <1>1, <1>3, <1>8

\* The only step that makes a link.
LEMMA SoleCreateLink ==
    ASSUME IsFiniteSet(Workers), TypeInv, Sole, NEW w \in Workers, CreateLink(w)
    PROVE  Sole'
<1> DEFINE t == task[w]
           m == [t EXCEPT !.pc = "members"]
           link(n) == [llc |-> Llc(w), address |-> Address(t.request),
                       contact |-> t.contact, n |-> n]
<1>1. /\ At(w, "relate") /\ Becomes(w, m)
      /\ UNCHANGED <<requests, contactOf, contacts, accounts, folders>>
  BY DEF CreateLink, Goes
<1>2. w \in world.workers /\ UNCHANGED world /\ t.pc = "relate" /\ t \in Task
  BY <1>1, Working, TaskFields DEF At
<1>3. m.pc = "members" /\ m.partner = t.partner
  BY <1>2 DEF Task
<1> HIDE DEF m
<1>4. \/ UNCHANGED links
      \/ \E n \in 1..MaxTwins : /\ links' = links \cup {link(n)}
                                /\ \A i \in 1..(n - 1) : [link(n) EXCEPT !.n = i] \in links
  BY DEF CreateLink
<1>5. ASSUME Alone, NEW n \in 1..MaxTwins,
             \A i \in 1..(n - 1) : [link(n) EXCEPT !.n = i] \in links
      PROVE  n = 1
  <2>1. ASSUME n # 1
        PROVE  FALSE
    <3>1. 1 \in 1..(n - 1)
      BY <2>1, BoundsAssumption
    <3>2. [link(n) EXCEPT !.n = 1] \in links
      BY <3>1, <1>5
    <3>3. /\ [link(n) EXCEPT !.n = 1].llc = requests[t.request].llc
          /\ [link(n) EXCEPT !.n = 1].address = Address(t.request)
          /\ [link(n) EXCEPT !.n = 1].contact = t.contact
      BY DEF Llc, Current
    <3>4. OnceTask(t)
      BY <1>5 DEF Sole, OnceInv
    <3> HIDE DEF link
    <3> QED
      BY <3>2, <3>3, <3>4, <1>2 DEF OnceTask
  <2> QED
    BY <2>1
<1>6. link(1).n = 1
  OBVIOUS
<1> HIDE DEF link
<1>7. Alone => OnceCrm'
  BY <1>1, <1>4, <1>5, <1>6 DEF Sole, OnceInv, OnceCrm
<1>8. Simple => OneTask(t, requests, accounts) /\ OneRequests(requests, accounts)
  BY DEF Sole, OneInv
<1>9. ASSUME NEW x, Becomes(w, x), x.pc = "members", x.partner = t.partner
      PROVE  Sole'
  <2>1. OnceTask(x)'
    BY <1>9 DEF OnceTask
  <2>2. Simple => OneTask(x, requests, accounts)
    BY <1>2, <1>8, <1>9 DEF OneTask, ImportPc
  <2> QED
    BY <1>1, <1>2, <1>7, <1>8, <1>9, <2>1, <2>2, SoleMoves
<1> QED
  BY <1>1, <1>3, <1>9

\* The folders of the accounts that requests with a folder are about stay.
LEMMA OneRequestsOn ==
    ASSUME NEW Q, NEW A, NEW R, NEW B, OneRequests(Q, A),
           \A r \in DOMAIN R :
              /\ \/ r \in DOMAIN Q /\ R[r].folder = Q[r].folder /\ R[r].llc = Q[r].llc
                    /\ R[r].url.folder \in {0, Q[r].url.folder, Q[r].folder}
                 \/ R[r].folder = 0 /\ R[r].url.folder = 0
              /\ R[r].folder # 0 => B[R[r].llc].folder = A[R[r].llc].folder
    PROVE  OneRequests(R, B)
BY DEF OneRequests

\* Only a company with a name has a folder.
LEMMA FiledLlc ==
    ASSUME TypeInv, RightInv
    PROVE  \A r \in DOMAIN requests : requests[r].folder # 0 => requests[r].llc \in Llcs
<1>1. \A f \in DOMAIN folders : folders[f] \in Folder
  BY DEF TypeInv, FoldersOK
<1>2. \A f \in DOMAIN folders : folders[f].llc \in Llcs
  BY <1>1 DEF Folder
<1> QED
  BY <1>2 DEF RightInv, RightRequests, Holds

\* Steps that touch no request and no folder of an account.
LEMMA OneRequestsQuiet ==
    ASSUME TypeInv, RightInv, Sole, UNCHANGED requests,
           \A llc \in Llcs : accounts'[llc].folder = accounts[llc].folder
    PROVE  Simple => OneRequests(requests', accounts')
<1>1. \A r \in DOMAIN requests : requests[r].folder # 0 => requests[r].llc \in Llcs
  BY FiledLlc
<1> QED
  BY <1>1, SoleSame DEF OneRequests

LEMMA SoleKeepContact ==
    ASSUME IsFiniteSet(Workers), TypeInv, Sole, NEW w \in Workers, KeepContact(w)
    PROVE  Sole'
<1>1. At(w, "keep") /\ Goes(w, "upsert") /\ UNCHANGED <<requests, crm, folders>>
  BY DEF KeepContact
<1>2. w \in world.workers /\ UNCHANGED world /\ task[w].pc = "keep"
  BY <1>1, Working DEF At
<1> QED
  BY <1>1, <1>2, SoleGoes, SoleSame DEF ImportPc, crm

LEMMA SoleUpsert ==
    ASSUME IsFiniteSet(Workers), TypeInv, RightInv, Sole, NEW w \in Workers, Upsert(w)
    PROVE  Sole'
<1>1. /\ At(w, "upsert") /\ UNCHANGED <<requests, contactOf, contacts, links, folders>>
      /\ UNCHANGED accounts \/ accounts' = [accounts EXCEPT ![Llc(w)].exists = TRUE]
      /\ Goes(w, "save") \/ NextRow(w)
  BY DEF Upsert
<1>2. w \in world.workers /\ UNCHANGED world /\ task[w].pc = "upsert"
  BY <1>1, Working DEF At
<1>3. \A llc \in Llcs : accounts'[llc].folder = accounts[llc].folder
  BY <1>1 DEF TypeInv, CrmOK, Account
<1>4. Simple => OneRequests(requests', accounts')
  BY <1>1, <1>3, OneRequestsQuiet
<1> QED
  BY <1>1, <1>2, <1>4, SoleGoes, SoleNextRow DEF ImportPc

LEMMA SoleSave ==
    ASSUME IsFiniteSet(Workers), TypeInv, Sole, NEW w \in Workers, Save(w)
    PROVE  Sole'
<1>1. /\ At(w, "save") /\ Goes(w, "link") /\ UNCHANGED <<contactOf, crm, folders>>
      /\ requests' = [requests EXCEPT ![task[w].request].synced = TRUE]
  BY DEF Save
<1>2. w \in world.workers /\ UNCHANGED world /\ task[w].pc = "save"
  BY <1>1, Working DEF At
<1>3. \A k \in DOMAIN requests : requests[k] \in Request
  BY TaskFields
<1>4. \A k \in DOMAIN requests' :
         /\ k \in DOMAIN requests /\ requests'[k].folder = requests[k].folder
         /\ requests'[k].llc = requests[k].llc /\ requests'[k].url = requests[k].url
  BY <1>1, <1>3 DEF Request
<1>5. Simple => OneRequests(requests', accounts')
  BY <1>1, <1>4, SoleSame, OneRequestsOn DEF crm
<1> QED
  BY <1>1, <1>2, <1>5, SoleGoes DEF ImportPc, crm

LEMMA SoleFindLink ==
    ASSUME IsFiniteSet(Workers), TypeInv, Sole, NEW w \in Workers, FindLink(w)
    PROVE  Sole'
<1>1. /\ At(w, "link") /\ UNCHANGED <<requests, contactOf, crm, folders>>
      /\ Goes(w, "members") \/ (~Related(w) /\ Goes(w, "relate"))
  BY DEF FindLink
<1>2. w \in world.workers /\ UNCHANGED world /\ task[w].pc = "link"
  BY <1>1, Working DEF At
<1> QED
  BY <1>1, <1>2, SoleGoes, SoleReads, SoleSame DEF ImportPc, crm

LEMMA SolePushMembers ==
    ASSUME IsFiniteSet(Workers), TypeInv, RightInv, Sole, NEW w \in Workers, PushMembers(w)
    PROVE  Sole'
<1>1. /\ At(w, "members") /\ UNCHANGED <<requests, contactOf, contacts, links, folders>>
      /\ (Imports(w) /\ Goes(w, "lookup")) \/ Done(w)
      /\ UNCHANGED accounts \/ accounts' = WithMembersOf(task[w].request, Llc(w))
  BY DEF PushMembers
<1>2. w \in world.workers /\ UNCHANGED world /\ task[w].pc = "members"
  BY <1>1, Working DEF At
<1>3. \A llc \in Llcs : accounts'[llc].folder = accounts[llc].folder
  BY <1>1 DEF TypeInv, CrmOK, Account, WithMembersOf
<1>4. Simple => OneRequests(requests', accounts')
  BY <1>1, <1>3, OneRequestsQuiet
<1> QED
  BY <1>1, <1>2, <1>4, SoleGoes, SoleDone

\* The account can be read, so a handler that finds no folder knows there is none.
LEMMA SoleLookup ==
    ASSUME IsFiniteSet(Workers), TypeInv, Sole, NEW w \in Workers, Lookup(w)
    PROVE  Sole'
<1> DEFINE f == accounts[Llc(w)].folder
           t == task[w]
           n == [t EXCEPT !.pc = "embed", !.folder = f]
<1>1. /\ At(w, "lookup") /\ UNCHANGED <<requests, contactOf, crm, folders>>
      /\ Becomes(w, n) \/ (Goes(w, "folder") /\ (f = 0 \/ Fails("lookup")))
  BY DEF Lookup
<1>2. w \in world.workers /\ UNCHANGED world /\ t.pc = "lookup" /\ t \in Task
  BY <1>1, Working, TaskFields DEF At
<1>3. f = accounts[requests[t.request].llc].folder
  BY DEF Llc, Current
<1> HIDE DEF f
<1>4. n.pc = "embed" /\ n.partner = t.partner /\ n.request = t.request /\ n.folder = f
  BY <1>2 DEF Task
<1>5. Simple => OneTask(t, requests, accounts) /\ OneRequests(requests, accounts)
  BY DEF Sole, OneInv
<1> HIDE DEF n
<1>6. Simple => OneTask(n, requests, accounts)
  BY <1>2, <1>3, <1>4, <1>5 DEF OneTask, ImportPc
<1>7. CASE Becomes(w, n)
  BY <1>1, <1>2, <1>4, <1>5, <1>6, <1>7, SoleSteps DEF crm
<1>8. CASE Goes(w, "folder") /\ (f = 0 \/ Fails("lookup"))
  <2>1. Simple => accounts[requests[t.request].llc].folder = 0
    BY <1>3, <1>8 DEF Simple, Fails
  <2> QED
    BY <1>1, <1>2, <1>5, <1>8, <2>1, SoleGoes DEF ImportPc, crm
<1> QED
  BY <1>1, <1>7, <1>8

\* The request is given the folder its account has.
LEMMA SoleGives ==
    ASSUME IsFiniteSet(Workers), TypeInv, Sole, NEW w \in Workers, Embed(w) \/ StoreFolder(w)
    PROVE  Sole'
<1> DEFINE r == task[w].request
           f == task[w].folder
<1>1. /\ At(w, "embed") \/ At(w, "store")
      /\ UNCHANGED <<contactOf, crm, folders>>
      /\ Goes(w, "docs") \/ NextRow(w)
      /\ \/ UNCHANGED requests
         \/ requests' = [requests EXCEPT ![r].folder = f, ![r].url = Embedded(f)]
  BY DEF Embed, StoreFolder
<1>2. w \in world.workers /\ UNCHANGED world /\ task[w].pc \in {"embed", "store"}
  BY <1>1, Working DEF At
<1>3. r \in DOMAIN requests /\ f \in FolderId /\ Embedded(f) \in Url /\ requests[r] \in Request
  BY <1>2, Holder, TaskFields, EmbeddedType DEF Task, Current, RequestPc
<1>4. Simple => f = accounts[requests[r].llc].folder
  BY <1>2 DEF Sole, OneInv, OneTask
<1>5. Embedded(f).folder = f
  BY DEF Embedded
<1> HIDE DEF f
<1>6. Simple => OneRequests(requests', accounts')
  <2>1. CASE UNCHANGED requests
    BY <2>1, <1>1, SoleSame DEF crm
  <2>2. CASE requests' = [requests EXCEPT ![r].folder = f, ![r].url = Embedded(f)]
    <3>1. DOMAIN requests' = DOMAIN requests
      BY <2>2
    <3>2. \A k \in DOMAIN requests : k # r => requests'[k] = requests[k]
      BY <2>2
    <3>3. /\ requests'[r].folder = f /\ requests'[r].llc = requests[r].llc
          /\ requests'[r].url = Embedded(f)
      BY <1>3, <2>2 DEF Request
    <3> QED
      BY <1>1, <1>4, <1>5, <3>1, <3>2, <3>3, SoleSame DEF OneRequests, crm
  <2> QED
    BY <1>1, <2>1, <2>2
<1> QED
  BY <1>1, <1>2, <1>6, SoleGoes, SoleNextRow DEF ImportPc, crm

LEMMA SoleMakeFolder ==
    ASSUME IsFiniteSet(Workers), TypeInv, Sole, NEW w \in Workers, MakeFolder(w)
    PROVE  Sole'
<1> DEFINE t == task[w]
           f == Len(folders) + 1
           n == [t EXCEPT !.pc = "account", !.folder = f]
<1>1. /\ At(w, "folder") /\ UNCHANGED <<requests, contactOf, crm>>
      /\ Becomes(w, n) \/ NextRow(w)
  BY DEF MakeFolder
<1>2. w \in world.workers /\ UNCHANGED world /\ t.pc = "folder" /\ t \in Task
  BY <1>1, Working, TaskFields DEF At
<1>3. n.pc = "account" /\ n.partner = t.partner /\ n.request = t.request
  BY <1>2 DEF Task
<1> HIDE DEF n
<1>4. Simple => OneTask(t, requests, accounts) /\ OneRequests(requests, accounts)
  BY DEF Sole, OneInv
<1>5. Simple => OneTask(n, requests, accounts)
  BY <1>2, <1>3, <1>4 DEF OneTask, ImportPc
<1> QED
  BY <1>1, <1>2, <1>3, <1>4, <1>5, SoleSteps, SoleNextRow DEF crm

\* The account had no folder, so no request of the company has one yet.
LEMMA SoleSetAccountFolder ==
    ASSUME IsFiniteSet(Workers), TypeInv, RightInv, Sole, NEW w \in Workers,
           SetAccountFolder(w)
    PROVE  Sole'
<1> DEFINE f == task[w].folder
           a == requests[task[w].request].llc
<1>1. /\ At(w, "account") /\ UNCHANGED <<requests, contactOf, contacts, links, folders>>
      /\ (UNCHANGED accounts /\ NextRow(w)) \/ accounts' = [accounts EXCEPT ![Llc(w)].folder = f]
      /\ Goes(w, "store") \/ NextRow(w)
  BY DEF SetAccountFolder
<1>2. w \in world.workers /\ UNCHANGED world /\ task[w].pc = "account"
  BY <1>1, Working DEF At
<1>3. a \in Llcs /\ Llc(w) = a
  BY <1>2, Holder DEF RequestPc, NamedPc
<1>4. Simple => accounts[a].folder = 0 /\ OneRequests(requests, accounts)
  BY <1>2 DEF Sole, OneInv, OneTask
<1> HIDE DEF f
<1>5. accounts' = [accounts EXCEPT ![Llc(w)].folder = f] =>
         /\ accounts'[a].folder = f
         /\ \A llc \in Llcs : llc # a => accounts'[llc].folder = accounts[llc].folder
  BY <1>3 DEF TypeInv, CrmOK, Account
<1>6. \A r \in DOMAIN requests : requests[r].folder # 0 => requests[r].llc \in Llcs
  BY FiledLlc
<1> HIDE DEF a
<1>7. Simple => OneRequests(requests', accounts')
  BY <1>1, <1>3, <1>4, <1>5, <1>6 DEF OneRequests
<1>8. CASE NextRow(w)
  BY <1>1, <1>2, <1>7, <1>8, SoleNextRow
<1>9. CASE Goes(w, "store") /\ accounts' = [accounts EXCEPT ![Llc(w)].folder = f]
  <2>1. f = accounts'[requests'[task[w].request].llc].folder
    BY <1>1, <1>5, <1>9 DEF a
  <2> QED
    BY <1>1, <1>2, <1>7, <1>9, <2>1, SoleGoes DEF ImportPc, f
<1>10. CASE UNCHANGED accounts /\ NextRow(w)
  BY <1>8, <1>10
<1> QED
  BY <1>1, <1>8, <1>9, <1>10

LEMMA SoleImportRow ==
    ASSUME IsFiniteSet(Workers), TypeInv, Sole, NEW w \in Workers, ImportRow(w)
    PROVE  Sole'
<1> DEFINE t == task[w]
           row == Head(t.rows)
           n == [t EXCEPT !.rows = Tail(@), !.known = @ \cup {row}]
<1>1. /\ At(w, "row") /\ UNCHANGED <<requests, contactOf, crm, folders>>
      /\ Becomes(w, n) \/ Goes(w, "insert")
  BY DEF ImportRow
<1>2. w \in world.workers /\ UNCHANGED world /\ t.pc = "row" /\ t \in Task
  BY <1>1, Working, TaskFields DEF At
<1> HIDE DEF row
<1>3. n.pc = "row" /\ n.partner = t.partner
  BY <1>2 DEF Task
<1> HIDE DEF n
<1>4. Simple => OneTask(t, requests, accounts) /\ OneRequests(requests, accounts)
  BY DEF Sole, OneInv
<1>5. Simple => OneTask(n, requests, accounts)
  BY <1>2, <1>3, <1>4 DEF OneTask, ImportPc
<1>6. CASE Becomes(w, n)
  BY <1>1, <1>2, <1>3, <1>4, <1>5, <1>6, SoleSteps DEF crm
<1>7. CASE Goes(w, "insert")
  BY <1>1, <1>2, <1>4, <1>7, SoleGoes DEF ImportPc, crm
<1> QED
  BY <1>1, <1>6, <1>7

LEMMA SoleInsertRow ==
    ASSUME IsFiniteSet(Workers), TypeInv, Sole, NEW w \in Workers, InsertRow(w)
    PROVE  Sole'
<1> DEFINE t == task[w]
           row == Head(t.rows)
           q == NewRequest(t.partner, row)
           k == Len(requests) + 1
           n == [t EXCEPT !.rows = Tail(@), !.known = @ \cup {row},
                          !.pc = "contact", !.request = k]
<1>1. /\ At(w, "insert") /\ Len(requests) < MaxRequests
      /\ requests' = Append(requests, q) /\ Becomes(w, n)
      /\ UNCHANGED <<contactOf, crm, folders>>
  BY DEF InsertRow
<1>2. w \in world.workers /\ UNCHANGED world /\ t.pc = "insert" /\ t \in Task /\ t.rows # <<>>
  BY <1>1, Working, TaskFields DEF At, GoodTask
<1>3. row \in Row /\ t.partner \in Owners
  BY <1>2, HeadTailRows DEF Task
<1> HIDE DEF row
<1>4. q \in Request /\ ~q.synced /\ q.folder = 0 /\ q.url.folder = 0
  BY <1>3, NewRequestType
<1> HIDE DEF q
<1>5. /\ DOMAIN requests' = DOMAIN requests \cup {k} /\ requests'[k] = q
      /\ \A i \in DOMAIN requests : requests'[i] = requests[i]
  BY <1>1, <1>4, Inserted
<1>6. n.pc = "contact" /\ n.partner = t.partner
  BY <1>2 DEF Task
<1> HIDE DEF n, k
<1>7. Simple => OneTask(t, requests, accounts) /\ OneRequests(requests, accounts)
  BY DEF Sole, OneInv
<1>8. Simple => OneRequests(requests', accounts')
  BY <1>1, <1>4, <1>5, <1>7 DEF OneRequests, crm
<1>9. Simple => OneTask(n, requests', accounts')
  BY <1>2, <1>6, <1>7 DEF OneTask, ImportPc
<1> QED
  BY <1>1, <1>2, <1>6, <1>8, <1>9, SoleSteps DEF crm

LEMMA SoleEnd ==
    ASSUME IsFiniteSet(Workers), TypeInv, Sole, NEW w \in Workers, EndImport(w) \/ Upload(w)
    PROVE  Sole'
<1>1. /\ At(w, "row") \/ At(w, "docs")
      /\ Done(w) \/ NextRow(w)
  BY DEF EndImport, Upload
<1>2. UNCHANGED <<requests, contactOf, crm>>
  BY DEF EndImport, Upload
<1>3. w \in world.workers /\ UNCHANGED world /\ task[w].pc # "zip"
  BY <1>1, Working DEF At
<1> QED
  BY <1>1, <1>2, <1>3, SoleDone, SoleNextRow, SoleSame DEF crm

LEMMA SoleUnpackZip ==
    ASSUME IsFiniteSet(Workers), TypeInv, Sole, NEW w \in Workers, UnpackZip(w)
    PROVE  Sole'
<1> DEFINE t == task[w]
<1>1. At(w, "zip") /\ UNCHANGED <<requests, contactOf, crm>>
  BY DEF UnpackZip
<1>2. PICK x \in t.targets : Done(w) \/ Becomes(w, [t EXCEPT !.targets = @ \ {x}])
  BY DEF UnpackZip
<1> DEFINE n == [t EXCEPT !.targets = @ \ {x}]
<1>3. w \in world.workers /\ UNCHANGED world /\ t.pc = "zip" /\ t \in Task
  BY <1>1, Working, TaskFields DEF At
<1>4. n.pc = "zip"
  BY <1>3 DEF Task
<1>5. Done(w) \/ Becomes(w, n)
  BY <1>2
<1> HIDE DEF n
<1>6. Simple => OneTask(n, requests, accounts)
  BY <1>4 DEF OneTask, ImportPc
<1> QED
  BY <1>1, <1>3, <1>4, <1>5, <1>6, SoleSteps, SoleDone, SoleSame DEF crm

\* A link that is made up for is one to the folder the request has.
LEMMA SoleBackfill ==
    ASSUME IsFiniteSet(Workers), TypeInv, Sole, NEW w \in Workers, Backfill(w)
    PROVE  Sole'
<1> DEFINE t == task[w]
           gone == [kind |-> "gone", folder |-> 0]
<1>1. At(w, "backfill") /\ UNCHANGED <<contactOf, crm, folders>>
  BY DEF Backfill
<1>2. PICK r \in t.todo :
        /\ \E url \in {Permalink(requests[r].folder), requests[r].url, gone} :
              requests' = [requests EXCEPT ![r].url = url]
        /\ IF t.todo = {r} THEN Done(w)
           ELSE Becomes(w, [t EXCEPT !.todo = @ \ {r}])
  BY DEF Backfill
<1>3. w \in world.workers /\ UNCHANGED world /\ t.pc = "backfill" /\ t \in Task
  BY <1>1, Working, TaskFields DEF At
<1>4. r \in DOMAIN requests /\ requests[r] \in Request
  BY <1>2, TaskFields DEF GoodTask
<1>5. PICK url \in {Permalink(requests[r].folder), requests[r].url, gone} :
              requests' = [requests EXCEPT ![r].url = url]
  BY <1>2
<1>6. url.folder \in {0, requests[r].url.folder, requests[r].folder}
  BY <1>5 DEF Permalink
<1> HIDE DEF gone
<1>7. DOMAIN requests' = DOMAIN requests
  BY <1>5
<1>8. \A k \in DOMAIN requests : k # r => requests'[k] = requests[k]
  BY <1>5
<1>9. /\ requests'[r].folder = requests[r].folder /\ requests'[r].llc = requests[r].llc
      /\ requests'[r].url = url
  BY <1>4, <1>5 DEF Request
<1>10. Simple => OneRequests(requests', accounts')
  BY <1>1, <1>4, <1>6, <1>7, <1>8, <1>9, SoleSame, OneRequestsOn DEF crm
<1> DEFINE n == [t EXCEPT !.todo = @ \ {r}]
<1>11. n.pc = "backfill" /\ n.partner = t.partner
  BY <1>3 DEF Task
<1>12. Done(w) \/ Becomes(w, n)
  BY <1>2
<1> HIDE DEF n
<1>13. Simple => OneTask(t, requests, accounts)
  BY DEF Sole, OneInv
<1>14. Simple => OneTask(n, requests', accounts')
  BY <1>3, <1>11, <1>13 DEF OneTask, ImportPc
<1> QED
  BY <1>1, <1>3, <1>10, <1>11, <1>12, <1>14, SoleSteps, SoleDone DEF crm

\* What staff's synchronisation of the stages saves is what it has read, or the account's.
LEMMA SoleStage ==
    ASSUME IsFiniteSet(Workers), TypeInv, Sole, NEW w \in Workers, Stage(w)
    PROVE  Sole'
<1> DEFINE r == task[w].request
           a == accounts[Llc(w)]
           f == IF a.folder # 0 THEN a.folder ELSE task[w].folder
           u == IF task[w].url.kind = "none" /\ a.folder # 0
                THEN Permalink(a.folder) ELSE task[w].url
<1>1. /\ At(w, "stage") /\ Done(w) /\ UNCHANGED <<contactOf, crm, folders>>
      /\ \/ UNCHANGED requests
         \/ \E url \in {u, task[w].url} :
               requests' = [requests EXCEPT ![r].folder = f, ![r].url = url]
  BY DEF Stage
<1>2. w \in world.workers /\ UNCHANGED world /\ task[w].pc = "stage"
  BY <1>1, Working DEF At
<1>3. r \in DOMAIN requests /\ requests[r] \in Request /\ a = accounts[requests[r].llc]
  BY <1>2, Holder DEF Current, RequestPc
<1>4. Simple => task[w].folder = requests[r].folder /\ task[w].url = requests[r].url
  BY <1>2 DEF Sole, OneInv, OneTask
<1>5. Simple => OneRequests(requests, accounts)
  BY SoleSame
<1>6. Simple => f = accounts[requests[r].llc].folder
  BY <1>3, <1>4, <1>5 DEF OneRequests
<1>7. Simple => task[w].url.folder \in {0, f}
  BY <1>3, <1>4, <1>5, <1>6 DEF OneRequests
<1>8. Simple => u.folder \in {0, f}
  BY <1>7 DEF Permalink
<1> HIDE DEF a, f, u
<1>9. Simple => OneRequests(requests', accounts')
  <2>1. CASE UNCHANGED requests
    BY <2>1, <1>1, <1>5 DEF crm
  <2>2. ASSUME NEW url \in {u, task[w].url},
               requests' = [requests EXCEPT ![r].folder = f, ![r].url = url]
        PROVE  Simple => OneRequests(requests', accounts')
    <3>1. DOMAIN requests' = DOMAIN requests
      BY <2>2
    <3>2. \A k \in DOMAIN requests : k # r => requests'[k] = requests[k]
      BY <2>2
    <3>3. /\ requests'[r].folder = f /\ requests'[r].llc = requests[r].llc
          /\ requests'[r].url = url
      BY <1>3, <2>2 DEF Request
    <3>4. Simple => url.folder \in {0, f}
      BY <1>7, <1>8, <2>2
    <3> QED
      BY <1>1, <1>5, <1>6, <3>1, <3>2, <3>3, <3>4 DEF OneRequests, crm
  <2> QED
    BY <1>1, <2>1, <2>2
<1> QED
  BY <1>1, <1>2, <1>9, SoleDone DEF crm

\* The CRM makes a folder only for an account that has none: no request has it yet, and
\* no import runs where the CRM does.
LEMMA SoleFolderInCrm ==
    ASSUME TypeInv, RightInv, Sole, NEW llc \in Llcs, FolderInCrm(llc)
    PROVE  Sole'
<1>1. /\ "crm" \in world.ops /\ accounts[llc].folder = 0
      /\ accounts' = [accounts EXCEPT ![llc].folder = Len(folders) + 1]
      /\ UNCHANGED <<world, requests, contactOf, contacts, links, booted, task, calls>>
  BY DEF FolderInCrm
<1>2. \A l \in Llcs : l # llc => accounts'[l].folder = accounts[l].folder
  BY <1>1 DEF TypeInv, CrmOK, Account
<1>3. \A r \in DOMAIN requests : requests[r].folder # 0 => requests[r].llc \in Llcs
  BY FiledLlc
<1>4. Simple => OneRequests(requests', accounts')
  BY <1>1, <1>2, <1>3, SoleSame DEF OneRequests
<1>5. ASSUME Simple, NEW w \in Workers
      PROVE  OneTask(task[w], requests, accounts')
  <2>1. OneTask(task[w], requests, accounts) /\ "csv" \notin world.ops
    BY <1>1, <1>5 DEF Sole, OneInv, Simple
  <2>2. task[w].pc \notin ImportPc
    BY <2>1 DEF OneTask, ImportPc
  <2> QED
    BY <2>1, <2>2 DEF OneTask, ImportPc
<1>6. OneInv'
  <2>1. OneInv' <=> (Simple => /\ OneRequests(requests', accounts')
                               /\ \A w \in Workers : OneTask(task[w], requests, accounts'))
    BY <1>1 DEF OneInv, Simple, Alone, OneTask
  <2> QED
    BY <1>4, <1>5, <2>1
<1>7. OnceInv'
  BY <1>1 DEF Sole, OnceInv, Alone, OnceCrm, OnceTask, Address
<1> QED
  BY <1>1, <1>6, <1>7 DEF Sole, Outside

LEMMA SoleCrash ==
    ASSUME Sole, Crash
    PROVE  Sole'
<1>1. /\ task' = [w \in Workers |-> Idle]
      /\ UNCHANGED <<world, requests, contactOf, crm, folders, calls>>
  BY DEF Crash
<1>2. \A w \in Workers : task'[w] = Idle
  BY <1>1
<1>3. Outside'
  BY <1>2 DEF Outside
<1>4. OneInv'
  <2>1. OneInv' <=> (Simple => /\ OneRequests(requests', accounts')
                               /\ \A w \in Workers : OneTask(task'[w], requests', accounts'))
    BY <1>1 DEF OneInv, Simple, Alone, OneTask
  <2>2. Simple => OneRequests(requests', accounts')
    BY <1>1, SoleSame DEF crm
  <2> QED
    BY <1>2, <2>1, <2>2, IdleOne
<1>5. OnceInv'
  <2>1. OnceTask(Idle)'
    BY DEF OnceTask, Idle
  <2>2. OnceInv' <=> (Alone => OnceCrm' /\ \A w \in Workers : OnceTask(task[w])')
    BY <1>1 DEF OnceInv, Alone
  <2>3. Alone => OnceCrm'
    BY <1>1 DEF Sole, OnceInv, OnceCrm, crm
  <2>4. \A w \in Workers : OnceTask(task[w])'
    BY <1>2, <2>1 DEF OnceTask
  <2> QED
    BY <2>2, <2>3, <2>4
<1> QED
  BY <1>3, <1>4, <1>5 DEF Sole

LEMMA InitSole ==
    ASSUME FreshWorlds, Init
    PROVE  Sole
<1>1. /\ world \in Worlds /\ requests = world.requests /\ links = {}
      /\ contacts = [a \in Addresses |-> 0] /\ task = [w \in Workers |-> Idle]
  BY DEF Init
<1>2. Outside
  BY <1>1 DEF Outside
<1>3. \A r \in DOMAIN requests : requests[r].folder = 0 /\ requests[r].url.folder = 0
  BY <1>1 DEF FreshWorlds, NoUrl
<1>4. OneInv
  BY <1>1, <1>3, IdleOne DEF OneInv, OneRequests
<1>5. OnceTask(Idle)
  BY DEF OnceTask, Idle
<1>6. OnceInv
  BY <1>1, <1>5 DEF OnceInv, OnceCrm
<1> QED
  BY <1>2, <1>4, <1>6 DEF Sole

LEMMA NextSole ==
    ASSUME IsFiniteSet(Workers), TypeInv, RightInv, Sole, Next
    PROVE  Sole'
<1>1. ASSUME NEW w \in Workers, Advance(w)
      PROVE  Sole'
  BY <1>1, SoleContact, SoleCreateContact, SoleKeepContact, SoleUpsert, SoleSave,
     SoleFindLink, SoleCreateLink, SolePushMembers, SoleLookup, SoleGives, SoleMakeFolder,
     SoleSetAccountFolder, SoleImportRow, SoleInsertRow, SoleEnd, SoleUnpackZip,
     SoleBackfill, SoleStage
     DEF Advance
<1> QED
  BY <1>1, SoleBegin, SoleFolderInCrm, SoleCrash DEF Next

LEMMA Invariant ==
    ASSUME IsFiniteSet(Workers), FreshWorlds
    PROVE  Spec => [](TypeInv /\ RightInv /\ Sole)
<1>1. Init => TypeInv /\ RightInv /\ Sole
  BY InitTyped, InitRight, InitSole
<1>2. TypeInv /\ RightInv /\ Sole /\ [Next]_vars => (TypeInv /\ RightInv /\ Sole)'
  <2>1. ASSUME RightInv, Sole, UNCHANGED vars
        PROVE  RightInv' /\ Sole'
    <3>1. RightInv'
      BY <2>1 DEF vars, crm, RightInv, RightFolder, RightAccounts, RightRequests, RightTasks
    <3>2. Outside'
      BY <2>1 DEF vars, Sole, Outside
    <3>3. OneInv'
      BY <2>1 DEF vars, crm, Sole, OneInv, Simple, Alone, OneTask, OneRequests
    <3>4. OnceInv'
      BY <2>1 DEF vars, crm, Sole, OnceInv, OnceCrm, OnceTask, Alone, Address
    <3> QED
      BY <3>1, <3>2, <3>3, <3>4 DEF Sole
  <2> QED
    BY <2>1, NextTyped, StutterTyped, NextRight, NextSole DEF Typed
<1> QED
  BY <1>1, <1>2, PTL DEF Spec

\* The panel, the CRM and WorkDrive agree on the folder of a company after any failure and
\* any stop, for one handler at a time, whatever number of requests, companies and
\* partners: what it has read of the account still holds when it stores the folder.
THEOREM CompaniesHaveOneFolder ==
    ASSUME IsFiniteSet(Workers), FreshWorlds
    PROVE  Spec => []OneFolder
<1>1. TypeInv /\ RightInv /\ Sole => OneFolder
  BY DEF Sole, OneInv, Simple, OneRequests, OneFolder
<1> QED
  BY <1>1, Invariant, PTL

\* A synchronisation that fails, stops and is tried again makes one contact of an address
\* and one link of a pair, for one handler at a time: each is made where it was sought
\* and not found.
THEOREM SynchronisedOnce ==
    ASSUME IsFiniteSet(Workers), FreshWorlds
    PROVE  Spec => []OnceEach
<1>1. TypeInv /\ RightInv /\ Sole => OnceEach
  BY DEF Sole, OnceInv, OnceCrm, OnceEach
<1> QED
  BY <1>1, Invariant, PTL
=============================================================================
