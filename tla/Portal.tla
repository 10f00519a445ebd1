-------------------------------- MODULE Portal --------------------------------
(***************************************************************************)
(* Who acts for whom, and through which domain: the teams of partners and  *)
(* clients (account_team_members), the brands of partners (partner_tenants)*)
(* and the origins the server answers (config/cors-origins).               *)
(*                                                                         *)
(* Two services decide who a user is.  account-team writes it into the     *)
(* session (Payload); tenant-access judges by it at the door (EntersBy);   *)
(* a third, the branding of e-mails, says where his portal is (Home).      *)
(* The state is shared with Login, which calls the handlers here with the  *)
(* payload `by` of a session.  Handlers run one at a time.                 *)
(***************************************************************************)
EXTENDS Integers, Sequences, FiniteSets

CONSTANTS
    People,    \* e-mail addresses, each of at most one account
    Nobody,
    Domains,   \* the hosts partners may take for their brand
    NoDomain,
    Platform   \* any host of platformHosts()

ASSUME PeopleAssumption == Nobody \notin People
ASSUME HostAssumption == NoDomain \notin Domains /\ Platform \notin Domains \cup {NoDomain}

Hosts == Domains \cup {Platform}
AccountType == {"admin", "user", "partner", "client"}
OwnerTypes == {"partner", "client"}

\* Two of the permissions, those that guard the handlers here; a teammate has
\* neither unless he is given it.
Permission == {"teamManage", "brandEdit"}

\* The partner_id of a row of clients, Nobody for a client of the platform.
Row == People \cup {Nobody}

\* type "none": no account yet.  The rows of clients: linked to the account by user_id,
\* or only mailed, with its address and no user_id.  ready: its owner knows the
\* password; an invited teammate's is drawn at random.
Account == [type: AccountType \cup {"none"}, active: BOOLEAN, linked: SUBSET Row,
            mailed: SUBSET Row, ready: BOOLEAN]

NoAccount == [type |-> "none", active |-> FALSE, linked |-> {}, mailed |-> {}, ready |-> FALSE]

\* member_user_id is UNIQUE: a row per member.
Membership == [status: {"none", "active", "revoked"}, owner: People \cup {Nobody},
               can: SUBSET Permission]

NoMembership == [status |-> "none", owner |-> Nobody, can |-> {}]

\* partner_id and custom_domain are UNIQUE.  contact: whatsapp_number is set.
Brand == [domain: Domains \cup {NoDomain}, active: BOOLEAN, contact: BOOLEAN]

NoBrand == [domain |-> NoDomain, active |-> FALSE, contact |-> FALSE]

\* What a session says of its user; own: isAccountOwner.
PayloadRecord == [user: People, type: AccountType, owner: People, own: BOOLEAN,
                  can: SUBSET Permission]

VARIABLES
    account,
    team,
    brand,
    origins    \* the domains of brands the running process lets in

portalVars == <<account, team, brand, origins>>

PortalTypeOK ==
    /\ account \in [People -> Account]
    /\ team \in [People -> Membership]
    /\ brand \in [People -> Brand]
    /\ origins \subseteq Domains

Branded(p) == brand[p].domain # NoDomain /\ brand[p].active
Accounts == {p \in People : account[p].type # "none"}

-----------------------------------------------------------------------------
(* Who a user is *)

\* buildSessionExtras: a teammate is his owner's, while the owner is active.
Payload(p) ==
    LET o == team[p].owner IN
    IF team[p].status = "active" /\ account[o].active
    THEN [user |-> p, type |-> account[o].type, owner |-> o, own |-> FALSE, can |-> team[p].can]
    ELSE [user |-> p, type |-> account[p].type, owner |-> p, own |-> TRUE, can |-> {}]

\* hasPermission.
May(by, permission) == by.own \/ permission \in by.can

\* resolveSubjectUser: only an account of type "user" is looked up among the
\* teammates, and one whose owner is inactive is refused.
IsTeammate(p) == account[p].type = "user" /\ team[p].status = "active"
Subject(p) == IF IsTeammate(p) THEN team[p].owner ELSE p
IsStaff(p) == account[p].type = "user" /\ team[p].status # "active"

\* findLinkedClient, of both services: of a client, any row linked to the account, or else
\* one with its address.
Found(o) ==
    IF account[o].type = "client" /\ account[o].linked # {} THEN account[o].linked
    ELSE IF account[o].type = "client" /\ account[o].mailed # {} THEN account[o].mailed
    ELSE {Nobody}

\* assertUserMayAccessPlatform, assertUserMayAccessPartnerTenant, by the row found.
SubjectMayEnter(s, host, row) ==
    \/ account[s].type = "partner" /\ IF host = Platform THEN ~Branded(s)
                                      ELSE brand[s].domain = host
    \/ account[s].type = "client" /\ IF host = Platform THEN row = Nobody
                                     ELSE row # Nobody /\ brand[row].domain = host

\* Deliberately wrong: a brand that was switched off is still a portal.
EnterSwitchedOff(p, host, row) ==
    /\ host # Platform => \E q \in People : brand[q].domain = host
    /\ \/ account[p].type = "admin"
       \/ IsStaff(p) /\ host = Platform
       \/ /\ ~IsStaff(p) /\ (IsTeammate(p) => account[Subject(p)].active)
          /\ SubjectMayEnter(Subject(p), host, row)

\* enforceTenantAccess: a domain without an active brand is no portal.
EntersBy(p, host, row) ==
    /\ host # Platform => \E q \in People : Branded(q) /\ brand[q].domain = host
    /\ \/ account[p].type = "admin"
       \/ IsStaff(p) /\ host = Platform
       \/ /\ ~IsStaff(p) /\ (IsTeammate(p) => account[Subject(p)].active)
          /\ SubjectMayEnter(Subject(p), host, row)

MayEnter(p, host) == \E row \in Found(Subject(p)) : EntersBy(p, host, row)
MayBeRefused(p, host) == \E row \in Found(Subject(p)) : ~EntersBy(p, host, row)

\* The partner whose portal an owner's is, by the row found; Nobody: the platform's.
PartnerOf(o, row) == IF account[o].type = "partner" THEN o ELSE row

\* The branding of the e-mails to an owner, and of the invitations to his team: the
\* domain their links lead to.
Home(o, row) ==
    LET q == PartnerOf(o, row) IN
    IF account[o].type \in OwnerTypes /\ q # Nobody /\ Branded(q) THEN brand[q].domain
    ELSE Platform

-----------------------------------------------------------------------------
(* The team of an account: every handler below runs in the session of `by` *)

LoadsOwner(by) == account[by.owner].active /\ account[by.owner].type \in OwnerTypes
ManagesTeam(by) == by.type \in OwnerTypes /\ May(by, "teamManage") /\ LoadsOwner(by)

\* An owner, or another owner's teammate, is refused; a member whom another owner
\* revoked passes the checks and fails on the UNIQUE member_user_id.
MayInvite(owner, p) ==
    /\ p # owner
    /\ account[p].type \notin OwnerTypes
    /\ \/ team[p].status = "none"
       \/ team[p].status = "revoked" /\ team[p].owner = owner

\* invite: a new address gets an account of type "user" and a password nobody knows.
InviteMember(by, p, can) ==
    /\ ManagesTeam(by) /\ MayInvite(by.owner, p)
    /\ account' = IF account[p].type # "none" THEN account
                  ELSE [account EXCEPT ![p].type = "user", ![p].active = TRUE]
    /\ team' = [team EXCEPT ![p] = [status |-> "active", owner |-> by.owner, can |-> can]]
    /\ UNCHANGED <<brand, origins>>

TeamOf(owner) == {p \in People : team[p].status = "active" /\ team[p].owner = owner}

UpdatePermissions(by, p, can) ==
    /\ ManagesTeam(by) /\ p \in TeamOf(by.owner)
    /\ team' = [team EXCEPT ![p].can = can]
    /\ UNCHANGED <<account, brand, origins>>

Revoke(by, p) ==
    /\ ManagesTeam(by) /\ p \in TeamOf(by.owner)
    /\ team' = [team EXCEPT ![p].status = "revoked"]
    /\ UNCHANGED <<account, brand, origins>>

-----------------------------------------------------------------------------
(* The brand of a partner *)

\* A partner and his teammates edit his own brand, staff anyone's.
AsStaff(by) == by.type \in {"admin", "user"}
EditsBrand(by, q) ==
    \/ AsStaff(by)
    \/ by.type = "partner" /\ by.owner = q /\ May(by, "brandEdit")

DomainFree(q, domain) == \A other \in People \ {q} : brand[other].domain # domain

\* Only staff switch a brand on and off; only staff leave an active one without
\* the number of its support.
BrandAllowed(by, q, b) ==
    /\ account[q].type = "partner"
    /\ AsStaff(by) \/ (b.active => b.contact)

\* upsertForPartner, the first time.  The new domain is not added to the origins.
CreateBrand(by, q, b) ==
    /\ EditsBrand(by, q) /\ brand[q] = NoBrand
    /\ DomainFree(q, b.domain)
    /\ AsStaff(by) \/ b.active
    /\ BrandAllowed(by, q, b)
    /\ brand' = [brand EXCEPT ![q] = b]
    /\ UNCHANGED <<account, team, origins>>

LiveDomains(brands) == {brands[q].domain : q \in {p \in People : brands[p].active}}

\* Deliberately wrong: the origins are added to, never taken from.
UpdateBrandAdds(by, q, b) ==
    /\ EditsBrand(by, q) /\ brand[q] # NoBrand
    /\ b.domain # brand[q].domain => DomainFree(q, b.domain)
    /\ AsStaff(by) \/ b.active = brand[q].active
    /\ BrandAllowed(by, q, b)
    /\ brand' = [brand EXCEPT ![q] = b]
    /\ origins' = origins \cup LiveDomains(brand')
    /\ UNCHANGED <<account, team>>

\* upsertForPartner, later; refreshRuntimeCorsOrigins.
UpdateBrand(by, q, b) ==
    /\ EditsBrand(by, q) /\ brand[q] # NoBrand
    /\ b.domain # brand[q].domain => DomainFree(q, b.domain)
    /\ AsStaff(by) \/ b.active = brand[q].active
    /\ BrandAllowed(by, q, b)
    /\ brand' = [brand EXCEPT ![q] = b]
    /\ origins' = LiveDomains(brand')
    /\ UNCHANGED <<account, team>>

-----------------------------------------------------------------------------
(* The rows of clients *)

Rows(p) == account[p].linked \cup account[p].mailed

\* One other row linked to the account is looked at, and refuses when it is another
\* partner's.
Linkable(p, row) ==
    /\ account[p].type = "client"
    /\ account[p].linked # {} => \E other \in account[p].linked : other \in {Nobody, row}

\* createClient: no partner has two rows with one address.  His invites it, if he asks.
AddRow(p, row) ==
    /\ row \notin Rows(p)
    /\ \/ account' = [account EXCEPT ![p].mailed = @ \cup {row}]
       \/ /\ row # Nobody /\ Linkable(p, row)
          /\ account' = [account EXCEPT ![p].linked = @ \cup {row}]
    /\ UNCHANGED <<team, brand, origins>>

\* inviteClientToPortal.
LinkRow(p, row) ==
    /\ row \in account[p].mailed /\ Linkable(p, row)
    /\ account' = [account EXCEPT ![p].linked = @ \cup {row}, ![p].mailed = @ \ {row}]
    /\ UNCHANGED <<team, brand, origins>>

\* findAllByUser: the list of an account's requests links whatever row has its address.
LinkMailed(p) ==
    /\ account[p].type # "none"
    /\ account' = [account EXCEPT ![p].linked = Rows(p), ![p].mailed = {}]
    /\ UNCHANGED <<team, brand, origins>>

\* create, a request that names the account: a row of its own.
RowForRequest(p, row) ==
    /\ account[p].type = "client"
    /\ account' = [account EXCEPT ![p].linked = @ \cup {row}]
    /\ UNCHANGED <<team, brand, origins>>

\* deleteClient, of a row without requests.
RemoveRow(p, row) ==
    /\ row \in Rows(p)
    /\ account' = [account EXCEPT ![p].linked = @ \ {row}, ![p].mailed = @ \ {row}]
    /\ UNCHANGED <<team, brand, origins>>

-----------------------------------------------------------------------------
(* The rest of the system *)

\* Staff, or a partner, switch an account on or off.
ToggleAccount(p) ==
    /\ account[p].type # "none"
    /\ account' = [account EXCEPT ![p].active = ~@]
    /\ UNCHANGED <<team, brand, origins>>

\* main: the origins are loaded before the server listens.
Restart ==
    /\ origins' = LiveDomains(brand)
    /\ UNCHANGED <<account, team, brand>>

-----------------------------------------------------------------------------
(* Properties *)

\* One portal lets an owner and his teammates in, and it is the one the invitations to
\* it lead to, whenever door and e-mails find the same row of his: two services that
\* read the same rows for two purposes agree.  A client found by the row of a partner
\* without an active brand has none at all; an administrator has every one.
OnePortal ==
    \A p \in Accounts : \A row \in Found(Subject(p)) :
        LET o == Subject(p)
            portals == {host \in Hosts : EntersBy(p, host, row)}
            homeless == account[o].type = "client" /\ row # Nobody /\ ~Branded(row)
        IN account[p].type # "admin" /\ account[o].active =>
               portals = IF homeless THEN {} ELSE {Home(o, row)}

\* An origin that is let in is the domain of a brand that is active: a brand that is
\* switched off, or moved to another domain, takes its origin with it.
OriginsAreLive == origins \subseteq LiveDomains(brand)
=============================================================================
