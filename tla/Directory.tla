------------------------------ MODULE Directory ------------------------------
(***************************************************************************)
(* The tables `users` and `clients`: who has an account, who is a client   *)
(* of the platform or of a partner, and which account opens the portal of  *)
(* which client.  Staff, partners, the wizard, the requests and the import *)
(* from the CRM all write them.                                            *)
(*                                                                         *)
(* Handlers run one at a time.  A step is what a handler reads and checks, *)
(* up to and including a commit; a handler of several commits goes on from *)
(* `task` and may stop between two of them.  Ids are positions: both       *)
(* tables number their rows from one.  No account is ever deleted.         *)
(***************************************************************************)
EXTENDS Integers, Sequences, FiniteSets

CONSTANTS
    Boxes,       \* mailboxes
    Typed,       \* the addresses people type
    Worlds,      \* what a model starts from, and which handlers run in it
    MaxUsers,    \* bound: accounts
    MaxClients,  \* bound: rows of clients, the deleted ones included
    MaxCalls     \* bound: handler invocations

\* An address as it is stored.  plain: in lower case, without blanks.
Email == [box: Boxes, plain: BOOLEAN]
Type == {"admin", "user", "partner", "client"}

AllOps == {"createUser", "toggleUser", "staff", "byId", "profile", "change",
           "create", "update", "userOnly", "toggleClient", "delete", "convert", "invite",
           "register", "wizard", "list", "request", "import", "stop"}

\* A user id, or 0 for null.
UserId == 0..MaxUsers

\* code and change share the column emailVerificationToken: the code of the
\* wizard, or the address that waits for its confirmation.
User == [type: Type, email: Email, active: BOOLEAN, verified: BOOLEAN,
         code: BOOLEAN, change: SUBSET Email]

Client == [stored: BOOLEAN, partner: UserId, user: UserId, email: Email,
           active: BOOLEAN, requests: BOOLEAN]

NewUser(type, email) ==
    [type |-> type, email |-> email, active |-> TRUE, verified |-> FALSE,
     code |-> FALSE, change |-> {}]

NewClient(partner, user, email) ==
    [stored |-> TRUE, partner |-> partner, user |-> user, email |-> email,
     active |-> TRUE, requests |-> FALSE]

ASSUME TypedAssumption == Typed \subseteq Email
ASSUME BoundsAssumption == MaxUsers \in Nat /\ MaxClients \in Nat /\ MaxCalls \in Nat
ASSUME WorldsAssumption ==
    \A world \in Worlds :
        /\ world.ops \subseteq AllOps
        /\ world.users \in Seq(User) /\ Len(world.users) <= MaxUsers
        /\ world.clients \in Seq(Client) /\ Len(world.clients) <= MaxClients

Pc == {"idle", "sync", "rows", "mirror", "row", "invite", "link"}

\* What is left of a handler: pc, and the user, the client and the rows it is
\* about; renames and active are the patch it carries on to the user.
Task == [pc: Pc, user: UserId, client: 0..MaxClients, rows: SUBSET (1..MaxClients),
         scope: UserId, renames: BOOLEAN, active: BOOLEAN]

Idle == [pc |-> "idle", user |-> 0, client |-> 0, rows |-> {}, scope |-> 0,
         renames |-> FALSE, active |-> TRUE]

VARIABLES
    ops,      \* the handlers of this world
    users,
    clients,
    task,
    calls

vars == <<ops, users, clients, task, calls>>

TypeOK ==
    /\ ops \subseteq AllOps
    /\ users \in Seq(User) /\ Len(users) <= MaxUsers
    /\ clients \in Seq(Client) /\ Len(clients) <= MaxClients
    /\ task \in Task
    /\ calls \in 0..MaxCalls

Init ==
    /\ \E world \in Worlds :
        ops = world.ops /\ users = world.users /\ clients = world.clients
    /\ task = Idle
    /\ calls = 0

-----------------------------------------------------------------------------
(* Queries *)

\* normalizeAuthEmail, and LOWER(TRIM(email)) in the queries that use it.
Plain(e) == [e EXCEPT !.plain = TRUE]

Ids == DOMAIN users
RowIds == {c \in DOMAIN clients : clients[c].stored}
Partners == {u \in Ids : users[u].type = "partner"}
Portal(u) == u \in Ids /\ users[u].type = "client"

\* findOne({ where: { email } }): the address as it is spelt.
UserWith(e) == {u \in Ids : users[u].email = e}
RowsWith(e) == {c \in RowIds : clients[c].email = e}

\* The rows linked to an account.
Linked(u) == {c \in RowIds : clients[c].user = u}

\* findUserByEmailNorm.
UsersOfBox(e) == {u \in Ids : users[u].email.box = e.box}

\* Deliberately wrong: the address as it is spelt.
RowsInScopeSpelt(e, partner) ==
    {c \in RowIds : clients[c].email = e /\ clients[c].partner = partner}

\* findClientByEmailInScope: 0 stands for partner_id IS NULL.
RowsInScope(e, partner) ==
    {c \in RowIds : clients[c].email.box = e.box /\ clients[c].partner = partner}

\* The scope of a caller: a partner's is his own id, staff have none.
Scopes == {0} \cup Partners
InScope(c, scope) == scope # 0 => clients[c].partner = scope

\* assertEmailForPortalUser, which takes one of the accounts of a mailbox and
\* refuses every one but the client's own.
MayTake(user, e) == UsersOfBox(e) = {} \/ user \in UsersOfBox(e)

OtherAdmins(u) == {v \in Ids \ {u} : users[v].type = "admin" /\ users[v].active}

\* UNIQUE (email).
Clashes(u, e) == \E v \in Ids \ {u} : users[v].email = e

UserRoom == Len(users) < MaxUsers
ClientRoom == Len(clients) < MaxClients

-----------------------------------------------------------------------------
Begins(op) ==
    /\ op \in ops
    /\ task = Idle
    /\ calls < MaxCalls
    /\ calls' = calls + 1
    /\ UNCHANGED ops

At(pc) == task.pc = pc /\ UNCHANGED <<ops, calls>>

Done == task' = Idle
AddUser(u) == users' = Append(users, u)
AddClient(c) == clients' = Append(clients, c)

\* The handler is interrupted, or the statement it is at fails.
Stop ==
    /\ "stop" \in ops
    /\ task # Idle
    /\ Done
    /\ UNCHANGED <<ops, users, clients, calls>>

-----------------------------------------------------------------------------
(* Accounts: user.service.ts *)

CreateUser(type, e) ==
    /\ Begins("createUser")
    /\ UserRoom /\ UserWith(e) = {}
    /\ AddUser(NewUser(type, e))
    /\ UNCHANGED <<clients, task>>

\* Deliberately wrong: any other admin will do.
ToggleUserAnyAdmin(actor, u) ==
    /\ Begins("toggleUser")
    /\ u # actor
    /\ (users[u].type = "admin" /\ users[u].active) =>
            \E v \in Ids \ {u} : users[v].type = "admin"
    /\ users' = [users EXCEPT ![u].active = ~@]
    /\ UNCHANGED <<clients, task>>

ToggleUser(actor, u) ==
    /\ Begins("toggleUser")
    /\ u # actor
    /\ (users[u].type = "admin" /\ users[u].active) => OtherAdmins(u) # {}
    /\ users' = [users EXCEPT ![u].active = ~@]
    /\ UNCHANGED <<clients, task>>

UpdateStaff(u, type) ==
    /\ Begins("staff")
    /\ users[u].type \in {"admin", "user"}
    /\ (users[u].type = "admin" /\ type = "user") => OtherAdmins(u) # {}
    /\ users' = [users EXCEPT ![u].type = type]
    /\ UNCHANGED <<clients, task>>

\* PATCH /user/:id stores the columns its body names, whichever they are, and no
\* row of clients.  (Bodies that name no token and no verification.)
UpdateUserById(u, e, type, active) ==
    /\ Begins("byId")
    /\ ~Clashes(u, e)
    /\ users' = [users EXCEPT ![u].email = e, ![u].type = type, ![u].active = active]
    /\ UNCHANGED <<clients, task>>

\* PATCH /user/me: every column but the address.
UpdateCurrentUser(u, type, active) ==
    /\ Begins("profile")
    /\ users' = [users EXCEPT ![u].type = type, ![u].active = active]
    /\ UNCHANGED <<clients, task>>

RequestEmailChange(u, e) ==
    /\ Begins("change")
    /\ UserWith(e) \subseteq {u}
    /\ users' = [users EXCEPT ![u].change = {e}, ![u].code = FALSE]
    /\ UNCHANGED <<clients, task>>

ConfirmEmailChange(u, e) ==
    /\ Begins("change")
    /\ users[u].change = {e}
    /\ UserWith(e) \subseteq {u}
    /\ users' = [users EXCEPT ![u].email = e, ![u].change = {}]
    /\ task' = [Idle EXCEPT !.pc = "mirror", !.user = u]
    /\ UNCHANGED clients

\* Deliberately wrong: the row keeps the address it had.
MirrorForgotten ==
    /\ At("mirror")
    /\ Done
    /\ UNCHANGED <<users, clients>>

\* Its second statement: one of the rows of the account, whichever is found.
Mirror ==
    /\ At("mirror")
    /\ IF Linked(task.user) = {} THEN UNCHANGED clients
       ELSE \E c \in Linked(task.user) :
                clients' = [clients EXCEPT ![c].email = users[task.user].email]
    /\ Done
    /\ UNCHANGED users

-----------------------------------------------------------------------------
(* Clients: clients.service.ts *)

\* Only a client of a partner is looked for; a partner's clients are his own.
CreateClient(scope, partner, e, invites) ==
    LET final == IF scope # 0 THEN scope ELSE partner
    IN /\ Begins("create")
       /\ ClientRoom
       /\ final # 0 => RowsInScope(e, final) = {}
       /\ AddClient(NewClient(final, 0, Plain(e)))
       /\ task' = IF invites /\ final # 0
                  THEN [Idle EXCEPT !.pc = "invite", !.client = Len(clients) + 1,
                                    !.scope = scope]
                  ELSE Idle
       /\ UNCHANGED users

\* The edited row, first commit.
UpdateClient(scope, c, e, active) ==
    LET renames == e.box # clients[c].email.box
    IN /\ Begins("update")
       /\ InScope(c, scope)
       /\ renames => /\ RowsInScope(e, clients[c].partner) \ {c} = {}
                     /\ MayTake(clients[c].user, e)
       /\ clients' = [clients EXCEPT ![c].active = active,
                                     ![c].email = IF renames THEN Plain(e) ELSE @]
       /\ task' = IF clients[c].user = 0 THEN Idle
                  ELSE [Idle EXCEPT !.pc = "sync", !.client = c, !.renames = renames,
                                    !.active = active, !.user = clients[c].user]
       /\ UNCHANGED users

\* syncLinkedPortalUser, second commit: an account that is no client's any more,
\* or an address that is taken, makes the handler throw with the row changed.
Sync ==
    LET u == task.user
        e == IF task.renames THEN clients[task.client].email ELSE users[u].email
    IN /\ At("sync")
       /\ users' = IF Portal(u) /\ ~Clashes(u, e)
                   THEN [users EXCEPT ![u].email = e, ![u].active = task.active]
                   ELSE users
       /\ Done
       /\ UNCHANGED clients

\* listItemUserOnly: the account, and then the rows linked to it one by one.
UpdateUserOnly(u, e, active) ==
    LET now == IF e.box # users[u].email.box THEN Plain(e) ELSE users[u].email
    IN /\ Begins("userOnly")
       /\ Portal(u)
       /\ now # users[u].email => MayTake(u, e)
       /\ ~Clashes(u, now)
       /\ users' = [users EXCEPT ![u].email = now, ![u].active = active]
       /\ task' = IF Linked(u) = {} THEN Idle
                  ELSE [Idle EXCEPT !.pc = "rows", !.user = u, !.rows = Linked(u),
                                    !.active = active]
       /\ UNCHANGED clients

UpdateLinkedRow ==
    /\ At("rows")
    /\ \E c \in task.rows :
        /\ clients' = [clients EXCEPT ![c].email = users[task.user].email,
                                      ![c].active = task.active]
        /\ task' = IF task.rows = {c} THEN Idle ELSE [task EXCEPT !.rows = @ \ {c}]
    /\ UNCHANGED users

\* The portal account is left as it is.
ToggleClient(scope, c) ==
    /\ Begins("toggleClient")
    /\ InScope(c, scope)
    /\ clients' = [clients EXCEPT ![c].active = ~@]
    /\ UNCHANGED <<users, task>>

DeleteClient(scope, c) ==
    /\ Begins("delete")
    /\ InScope(c, scope)
    /\ ~clients[c].requests
    /\ clients' = [clients EXCEPT ![c].stored = FALSE]
    /\ UNCHANGED <<users, task>>

\* The account a number stands for: that of the client with this id, or, when
\* there is none, the account with the same number.
ConvertedBy(id) ==
    IF id \in RowIds /\ clients[id].user # 0 THEN clients[id].user ELSE id

ConvertToPartner(id, userOnly) ==
    LET u == IF userOnly THEN id ELSE ConvertedBy(id)
    IN /\ Begins("convert")
       /\ Portal(u)
       /\ users' = [users EXCEPT ![u].type = "partner"]
       /\ UNCHANGED <<clients, task>>

\* otherClient: one of the other rows of the account, whichever is found.
LinkAllowed(c, u) ==
    /\ Portal(u)
    /\ \/ Linked(u) \ {c} = {}
       \/ \E other \in Linked(u) \ {c} :
             clients[other].partner \in {0, clients[c].partner}

\* An account with the client's address is linked, or one is created first.
InviteRow(c) ==
    LET e == clients[c].email
    IN IF UserWith(e) = {}
       THEN /\ UserRoom
            /\ AddUser([NewUser("client", e) EXCEPT !.active = clients[c].active])
            /\ task' = [Idle EXCEPT !.pc = "link", !.client = c, !.user = Len(users) + 1]
            /\ UNCHANGED clients
       ELSE /\ clients' = IF \E u \in UserWith(e) : LinkAllowed(c, u)
                          THEN [clients EXCEPT ![c].user = CHOOSE u \in UserWith(e) : TRUE]
                          ELSE clients
            /\ Done
            /\ UNCHANGED users

\* A client that has an account is only mailed again.
Invite(scope, c) ==
    /\ Begins("invite")
    /\ InScope(c, scope)
    /\ clients[c].user = 0
    /\ InviteRow(c)

\* The invitation of a client that has just been created; staff invite those of
\* a partner only.
InviteCreated ==
    /\ At("invite")
    /\ InviteRow(task.client)

Link ==
    /\ At("link")
    /\ clients' = [clients EXCEPT ![task.client].user = task.user]
    /\ Done
    /\ UNCHANGED users

-----------------------------------------------------------------------------
(* The wizard: wizard.service.ts *)

\* The account, and then its row.  An unverified account that registers again
\* changes its password only.
Register(e) ==
    /\ Begins("register")
    /\ UserRoom /\ ClientRoom
    /\ UserWith(e) = {}
    /\ AddUser([NewUser("client", e) EXCEPT !.code = TRUE])
    /\ task' = [Idle EXCEPT !.pc = "row", !.user = Len(users) + 1]
    /\ UNCHANGED clients

RegisterRow ==
    /\ At("row")
    /\ AddClient(NewClient(0, task.user, users[task.user].email))
    /\ Done
    /\ UNCHANGED users

ConfirmEmail(u) ==
    /\ Begins("register")
    /\ users[u].code /\ ~users[u].verified
    /\ users' = [users EXCEPT ![u].verified = TRUE, ![u].code = FALSE]
    /\ UNCHANGED <<clients, task>>

\* Whose row a request goes to: one that is found, or a new one.
RequestOfRow(rows, client) ==
    /\ clients' \in
            IF rows # {} THEN {[clients EXCEPT ![c].requests = TRUE] : c \in rows}
            ELSE {Append(clients, [client EXCEPT !.requests = TRUE])}
    /\ rows = {} => ClientRoom

\* createWizardRequest: any row with the address of the account, whoever's it is.
WizardRequest(u) ==
    /\ Begins("wizard")
    /\ Portal(u)
    /\ RequestOfRow(RowsWith(users[u].email), NewClient(0, u, users[u].email))
    /\ UNCHANGED <<users, task>>

-----------------------------------------------------------------------------
(* Requests of the panel: requests.service.ts *)

\* A client who lists his requests takes every row of his mailbox that nobody has.
ListRequests(u) ==
    /\ Begins("list")
    /\ Portal(u)
    /\ clients' = [c \in DOMAIN clients |->
            IF c \in RowIds /\ clients[c].user = 0 /\ clients[c].email.box = users[u].email.box
            THEN [clients[c] EXCEPT !.user = u] ELSE clients[c]]
    /\ UNCHANGED <<users, task>>

\* clientData: a row or an account with that address, or new ones.
RequestForEmail(partner, e) ==
    LET account == {u \in UserWith(e) : Portal(u)}
        opens == RowsWith(e) = {} /\ account = {} /\ partner = 0
        user == IF opens THEN Len(users) + 1
                ELSE IF account # {} THEN CHOOSE u \in account : TRUE ELSE 0
    IN /\ Begins("request")
       /\ opens => UserRoom /\ UserWith(e) = {}
       /\ users' = IF opens THEN Append(users, NewUser("client", e)) ELSE users
       /\ RequestOfRow(RowsWith(e), NewClient(partner, user, e))
       /\ UNCHANGED task

\* clientId: the row with this id, or a new row for the account with it.
RequestForId(partner, id) ==
    /\ Begins("request")
    /\ id \in RowIds \/ Portal(id)
    /\ RequestOfRow({id} \cap RowIds,
                    [NewClient(partner, id, users[id].email) EXCEPT !.active = users[id].active])
    /\ UNCHANGED <<users, task>>

-----------------------------------------------------------------------------
(* The import of one account from the CRM: zoho-sync.service.ts *)

\* The account with this address, of whatever type, or the one that is created.
AccountOf(e, created) ==
    IF UserWith(e) # {} THEN CHOOSE u \in UserWith(e) : TRUE ELSE Len(users) + created

Created(e, type) == IF UserWith(e) = {} THEN <<NewUser(type, e)>> ELSE <<>>

\* What an existing row lacks is filled in.
Fill(client, user, partner) ==
    [client EXCEPT !.user = IF @ = 0 THEN user ELSE @,
                   !.partner = IF @ = 0 THEN partner ELSE @,
                   !.requests = TRUE]

\* One transaction.  contact and partner are its addresses, partner the empty
\* set for an account of the platform; looked for outside the transaction, an
\* account it has just created is not found, and a second one is refused.
ImportAccount(contact, partner) ==
    LET opened == IF partner = {} THEN <<>>
                  ELSE Created(CHOOSE p \in partner : TRUE, "partner")
        p == IF partner = {} THEN 0 ELSE AccountOf(CHOOSE e \in partner : TRUE, 1)
        u == AccountOf(contact, Len(opened) + 1)
        all == users \o opened \o Created(contact, "client")
        found == IF RowsWith(contact) # {} THEN RowsWith(contact) ELSE Linked(u)
    IN /\ Begins("import")
       /\ UserWith(contact) = {} => contact \notin partner
       /\ Len(all) <= MaxUsers
       /\ users' = all
       /\ IF found = {}
          THEN /\ ClientRoom
               /\ AddClient([NewClient(p, u, contact) EXCEPT !.requests = TRUE])
          ELSE \E c \in found : clients' = [clients EXCEPT ![c] = Fill(@, u, p)]
       /\ UNCHANGED task

-----------------------------------------------------------------------------
StaffCalls ==
    \/ \E type \in Type, e \in Typed : CreateUser(type, e)
    \/ \E actor, u \in Ids : users[actor].type \in {"admin", "user"} /\ ToggleUser(actor, u)
    \/ \E u \in Ids, type \in {"admin", "user"} : UpdateStaff(u, type)
    \/ \E id \in Ids \cup RowIds, userOnly \in BOOLEAN : ConvertToPartner(id, userOnly)
    \/ \E u \in Ids, e \in Typed, active \in BOOLEAN : UpdateUserOnly(u, e, active)

OwnCalls ==
    \/ \E u \in Ids : \E type \in Type, active \in BOOLEAN :
            \/ UpdateCurrentUser(u, type, active)
            \/ \E e \in Typed \cup {users[u].email} : UpdateUserById(u, e, type, active)
    \/ \E u \in Ids, e \in Typed : RequestEmailChange(u, e) \/ ConfirmEmailChange(u, e)
    \/ \E e \in Typed : Register(e)
    \/ \E u \in Ids : ConfirmEmail(u) \/ WizardRequest(u) \/ ListRequests(u)

ClientCalls ==
    \E scope \in Scopes :
        \/ \E partner \in Scopes, e \in Typed, invites \in BOOLEAN :
                CreateClient(scope, partner, e, invites)
        \/ \E c \in RowIds :
            \/ \E e \in Typed, active \in BOOLEAN : UpdateClient(scope, c, e, active)
            \/ ToggleClient(scope, c) \/ DeleteClient(scope, c) \/ Invite(scope, c)

RequestCalls ==
    \/ \E partner \in Scopes, e \in Typed : RequestForEmail(partner, e)
    \/ \E partner \in Scopes, id \in Ids \cup RowIds : RequestForId(partner, id)
    \/ \E contact \in Typed, partner \in SUBSET Typed :
            Cardinality(partner) <= 1 /\ ImportAccount(contact, partner)

Continue == Mirror \/ Sync \/ UpdateLinkedRow \/ InviteCreated \/ Link \/ RegisterRow \/ Stop

Next == StaffCalls \/ OwnCalls \/ ClientCalls \/ RequestCalls \/ Continue

Spec == Init /\ [][Next]_vars

-----------------------------------------------------------------------------
(* Properties *)

\* Handlers that store the status and the type they are sent.
Unguarded == {"byId", "profile"}

\* However accounts are switched off and roles changed by the handlers that look
\* for another administrator, an active one is left to undo it.
AdminRemains ==
    ops \cap Unguarded = {} => \E u \in Ids : users[u].type = "admin" /\ users[u].active

\* "Debe existir al menos otro administrador activo": whatever the handler, the
\* last active administrator is neither switched off nor given another role.
LastAdminIsKept == \E u \in Ids : users[u].type = "admin" /\ users[u].active

\* Handlers that give a row of a partner an address without looking at his other
\* clients, or give a partner a row that had none.
Careless == {"change", "userOnly", "request", "import"}

\* A partner never has two clients with one mailbox, however their addresses are
\* spelt, created and edited, while the careless handlers do not run.
NoTwins ==
    ops \cap Careless = {} =>
        \A c, d \in RowIds :
            (c # d /\ clients[c].partner # 0 /\ clients[c].partner = clients[d].partner)
                => clients[c].email.box # clients[d].email.box

\* Handlers that change an address on one side only, make a client of another
\* account, or may be left half done.
OneSided == {"byId", "profile", "delete", "stop"}

\* Between handlers, a client who has one row is reached at one mailbox: the
\* row's and his account's.  Eight handlers write one or the other.
EmailsAgree ==
    (ops \cap OneSided = {} /\ task = Idle) =>
        \A u \in Ids : \A c \in RowIds :
            (Portal(u) /\ Linked(u) = {c}) => clients[c].email.box = users[u].email.box

-----------------------------------------------------------------------------
(* What the worlds begin with, where a property needs it.                    *)

\* Every world starts with an administrator who can sign in.
AdminsToBegin ==
    \A world \in Worlds :
        \E u \in DOMAIN world.users :
            world.users[u].type = "admin" /\ world.users[u].active

\* A world without the careless handlers starts without twins.
TwinsToBegin ==
    \A world \in Worlds : world.ops \cap Careless = {} =>
        \A c, d \in DOMAIN world.clients :
            (/\ c # d /\ world.clients[c].stored /\ world.clients[d].stored
             /\ world.clients[c].partner # 0
             /\ world.clients[c].partner = world.clients[d].partner)
            => world.clients[c].email.box # world.clients[d].email.box

\* A world without the one-sided handlers starts with rows whose accounts exist,
\* and a client's only row has the mailbox of his account.
AgreeingToBegin ==
    \A world \in Worlds : world.ops \cap OneSided = {} =>
        /\ \A c \in DOMAIN world.clients :
               world.clients[c].user \in DOMAIN world.users \cup {0}
        /\ \A u \in DOMAIN world.users, c \in DOMAIN world.clients :
               (/\ world.users[u].type = "client"
                /\ {d \in DOMAIN world.clients :
                        world.clients[d].stored /\ world.clients[d].user = u} = {c})
               => world.clients[c].email.box = world.users[u].email.box
=============================================================================
