---------------------------- MODULE Identity_proofs ---------------------------
(***************************************************************************)
(* Who has an account, and what he does with it.  Part I: Login, and the   *)
(* handlers of Portal, which run in its sessions, for every number of      *)
(* people, brands, browsers and challenges.  Part II: Directory, whatever  *)
(* handlers run one after another.                                         *)
(***************************************************************************)
EXTENDS Login, Directory, SequenceTheorems, TLAPS

-----------------------------------------------------------------------------
(* Part I: Login and Portal *)

-----------------------------------------------------------------------------
(* The inductive invariant.  The type of an account never changes once it  *)
(* has one, which is what the rows of teams rely on.                       *)

UsersOK == account \in [People -> Account]

TeamOK ==
    /\ team \in [People -> Membership]
    /\ \A p \in People :
          team[p].status # "none" => /\ team[p].owner \in People
                                     /\ account[team[p].owner].type \in OwnerTypes
                                     /\ account[p].type \in {"user", "admin"}

BrandOK ==
    /\ brand \in [People -> Brand]
    /\ \A p \in People : brand[p].active => brand[p].domain # NoDomain
    /\ \A p, q \in People :
          p # q /\ brand[p].domain = brand[q].domain => brand[p].domain = NoDomain
    /\ OriginsAreLive

PortalInv == UsersOK /\ TeamOK /\ BrandOK

\* What a challenge has been used for shows in what is stored of it.
CodesOK ==
    /\ challenges \in Seq(Challenge) /\ Len(challenges) <= MaxChallenges
    /\ \A c \in DOMAIN challenges :
          /\ challenges[c].guesses = challenges[c].attempts
          /\ challenges[c].starts <= IF challenges[c].open THEN 0 ELSE 1
    /\ \A c, d \in DOMAIN challenges :
          challenges[c].open /\ challenges[d].open /\ challenges[c].user = challenges[d].user
              => c = d

CookiesOK ==
    /\ access \in [Browsers -> Token \cup {NoToken}]
    /\ stored \in [Browsers -> Token \cup {NoToken}]
    /\ renewal \in [Browsers -> People \cup {Nobody}]
    /\ OperatorKept

RestOK ==
    /\ links \subseteq People /\ trusted \in [Browsers -> People \cup {Nobody}]
    /\ handlers \subseteq AllCalls /\ callsLeft \in 0..MaxLoginCalls

LoginInv == PortalInv /\ CodesOK /\ CookiesOK /\ RestOK

LEMMA LoginInvTypeOK ==
    ASSUME LoginInv
    PROVE  LoginTypeOK
<1>1. LiveDomains(brand) \subseteq Domains
  BY DEF LoginInv, PortalInv, BrandOK, LiveDomains, Brand
<1>2. PortalTypeOK
  BY <1>1 DEF PortalTypeOK, LoginInv, PortalInv, UsersOK, TeamOK, BrandOK, OriginsAreLive
<1> QED
  BY <1>2 DEF LoginInv, LoginTypeOK, CodesOK, CookiesOK, RestOK

-----------------------------------------------------------------------------
(* Who a user is, and where he is let in.                                  *)

LEMMA AccountFields ==
    ASSUME PortalInv, NEW p \in People
    PROVE  /\ account[p].type \in AccountType \cup {"none"} /\ account[p].active \in BOOLEAN
           /\ account[p].linked \subseteq Row /\ account[p].mailed \subseteq Row
           /\ account[p].ready \in BOOLEAN
           /\ team[p].status \in {"none", "active", "revoked"}
           /\ team[p].owner \in People \cup {Nobody} /\ team[p].can \subseteq Permission
           /\ brand[p].domain \in Domains \cup {NoDomain} /\ brand[p].active \in BOOLEAN
           /\ brand[p].contact \in BOOLEAN
<1>1. account[p] \in Account /\ team[p] \in Membership /\ brand[p] \in Brand
  BY DEF PortalInv, UsersOK, TeamOK, BrandOK
<1> QED
  BY <1>1 DEF Account, Membership, Brand

LEMMA SubjectType ==
    ASSUME PortalInv, NEW p \in People
    PROVE  /\ Subject(p) \in People
           /\ IsTeammate(p) => account[Subject(p)].type \in OwnerTypes
BY DEF PortalInv, TeamOK, Subject, IsTeammate

\* One domain is one brand.
LEMMA OneBrand ==
    ASSUME PortalInv, NEW p \in People, NEW q \in People,
           brand[p].domain = brand[q].domain, brand[p].domain # NoDomain
    PROVE  p = q
BY DEF PortalInv, BrandOK

\* A domain with an active brand is its owner's portal alone.
LEMMA LiveDomain ==
    ASSUME PortalInv, NEW q \in People, NEW host \in Domains, brand[q].domain = host
    PROVE  (\E r \in People : Branded(r) /\ brand[r].domain = host) <=> Branded(q)
<1>1. host # NoDomain
  BY HostAssumption
<1> QED
  BY <1>1, OneBrand DEF Branded

LEMMA FoundRows ==
    ASSUME PortalInv, NEW o \in People
    PROVE  /\ Found(o) \subseteq Row /\ Found(o) # {}
           /\ account[o].type # "client" => Found(o) = {Nobody}
<1>1. Nobody \in Row /\ account[o].linked \subseteq Row /\ account[o].mailed \subseteq Row
  BY AccountFields DEF Row
<1> QED
  BY <1>1 DEF Found

\* Where an owner is let in by one of his rows.
LEMMA OwnersPortal ==
    ASSUME PortalInv, NEW o \in People, account[o].type \in OwnerTypes, NEW host \in Hosts,
           NEW row \in Row
    PROVE  ((host # Platform => \E q \in People : Branded(q) /\ brand[q].domain = host)
                /\ SubjectMayEnter(o, host, row))
             <=> /\ host = Home(o, row)
                 /\ ~(account[o].type = "client" /\ row # Nobody /\ ~Branded(row))
<1> DEFINE q == PartnerOf(o, row)
           lives == \E r \in People : Branded(r) /\ brand[r].domain = host
<1>1. /\ row \in People \cup {Nobody} /\ o # Nobody
      /\ q = IF account[o].type = "partner" THEN o ELSE row
      /\ q \in People \cup {Nobody}
      /\ account[o].type = "partner" \/ account[o].type = "client"
  BY PeopleAssumption DEF OwnerTypes, PartnerOf, Row
<1>2. Home(o, row) = IF q # Nobody /\ Branded(q) THEN brand[q].domain ELSE Platform
  BY DEF Home
<1> HIDE DEF q
<1>3. q \in People => (Branded(q) => brand[q].domain \in Domains)
  BY AccountFields DEF Branded
<1>4. Platform \notin Domains /\ (host = Platform \/ host \in Domains)
  BY HostAssumption DEF Hosts
<1>5. CASE host = Platform
  <2>1. SubjectMayEnter(o, host, row) <=> \/ account[o].type = "partner" /\ ~Branded(o)
                                          \/ account[o].type = "client" /\ row = Nobody
    BY <1>1, <1>5 DEF SubjectMayEnter
  <2>2. host = Home(o, row) <=> ~(q # Nobody /\ Branded(q))
    BY <1>1, <1>2, <1>3, <1>4, <1>5
  <2> QED
    BY <1>1, <1>5, <2>1, <2>2
<1>6. CASE host \in Domains
  <2>1. SubjectMayEnter(o, host, row) <=> q # Nobody /\ brand[q].domain = host
    BY <1>1, <1>4, <1>6 DEF SubjectMayEnter
  <2>2. q \in People /\ brand[q].domain = host => (lives <=> Branded(q))
    BY <1>6, LiveDomain
  <2>3. host = Home(o, row) <=> q # Nobody /\ Branded(q) /\ brand[q].domain = host
    BY <1>2, <1>4, <1>6
  <2> HIDE DEF lives
  <2>4. lives /\ SubjectMayEnter(o, host, row) <=> host = Home(o, row)
    BY <1>1, <2>1, <2>2, <2>3
  <2>5. host = Home(o, row) => ~(account[o].type = "client" /\ row # Nobody /\ ~Branded(row))
    BY <1>1, <2>3
  <2>6. host # Platform
    BY <1>4, <1>6
  <2> QED
    BY <2>4, <2>5, <2>6 DEF lives
<1> QED
  BY <1>4, <1>5, <1>6

\* What one row says of a user, in both services.
LEMMA OnePortalHolds ==
    ASSUME PortalInv
    PROVE  OnePortal
<1> SUFFICES ASSUME NEW p \in Accounts, NEW row \in Found(Subject(p)),
                    account[p].type # "admin", account[Subject(p)].active
             PROVE  {host \in Hosts : EntersBy(p, host, row)} =
                      IF /\ account[Subject(p)].type = "client"
                         /\ row # Nobody /\ ~Branded(row)
                      THEN {} ELSE {Home(Subject(p), row)}
  BY DEF OnePortal
<1> DEFINE o == Subject(p)
           homeless == account[o].type = "client" /\ row # Nobody /\ ~Branded(row)
<1>1. /\ p \in People /\ account[p].type \in AccountType /\ o \in People
      /\ row \in Row
  BY SubjectType, AccountFields, FoundRows DEF Accounts
<1>2. Home(o, row) \in Hosts
  BY <1>1, AccountFields DEF Home, PartnerOf, Hosts, Branded, Row
<1>3. CASE IsStaff(p)
  <2>1. o = p /\ account[o].type = "user"
    BY <1>3 DEF IsStaff, Subject, IsTeammate
  <2>2. Home(o, row) = Platform /\ ~homeless
    BY <2>1 DEF Home, OwnerTypes
  <2>3. \A host \in Hosts : EntersBy(p, host, row) <=> host = Platform
    BY <1>3 DEF EntersBy
  <2> QED
    BY <1>2, <2>2, <2>3
<1>4. CASE ~IsStaff(p)
  <2>1. account[o].type \in OwnerTypes
    BY <1>1, <1>4, SubjectType DEF IsStaff, IsTeammate, Subject, AccountType, OwnerTypes
  <2>2. \A host \in Hosts :
           EntersBy(p, host, row) <=>
             /\ host # Platform => \E q \in People : Branded(q) /\ brand[q].domain = host
             /\ SubjectMayEnter(o, host, row)
    BY <1>4 DEF EntersBy
  <2>3. \A host \in Hosts : EntersBy(p, host, row) <=> host = Home(o, row) /\ ~homeless
    BY <1>1, <2>1, <2>2, OwnersPortal
  <2> HIDE DEF o, homeless
  <2>4. {host \in Hosts : EntersBy(p, host, row)} = IF homeless THEN {} ELSE {Home(o, row)}
    BY <1>2, <2>3
  <2> QED
    BY <2>4 DEF o, homeless
<1> QED
  BY <1>3, <1>4

-----------------------------------------------------------------------------
(* Sessions.                                                               *)

LEMMA PayloadType ==
    ASSUME PortalInv, NEW p \in People, Exists(p)
    PROVE  /\ Payload(p) \in PayloadRecord
           /\ \/ /\ team[p].status = "active" /\ account[p].type \in {"user", "admin"}
                 /\ Payload(p).owner = team[p].owner
                 /\ account[Payload(p).owner].active
              \/ Payload(p).owner = p
           /\ Payload(p).type = account[Payload(p).owner].type
           /\ account[p].type \in OwnerTypes => Payload(p).owner = p
<1>1. /\ account[p].type \in AccountType
      /\ team[p].status = "active" => /\ team[p].owner \in People
                                      /\ account[team[p].owner].type \in OwnerTypes
                                      /\ account[p].type \in {"user", "admin"}
      /\ team[p].can \subseteq Permission
  BY AccountFields DEF Exists, PortalInv, TeamOK
<1>2. OwnerTypes \subseteq AccountType /\ OwnerTypes \cap {"user", "admin"} = {}
  BY DEF OwnerTypes, AccountType
<1>3. CASE team[p].status = "active" /\ account[team[p].owner].active
  BY <1>1, <1>2, <1>3 DEF Payload, PayloadRecord
<1>4. CASE ~(team[p].status = "active" /\ account[team[p].owner].active)
  BY <1>1, <1>4 DEF Payload, PayloadRecord
<1> QED
  BY <1>3, <1>4

LEMMA TokenForType ==
    ASSUME PortalInv, NEW p \in People, Exists(p), NEW host \in Hosts \cup {Nobody}
    PROVE  /\ TokenFor(p, host) \in Token
           /\ TokenFor(p, host).user = p /\ TokenFor(p, host).view = Nobody
           /\ TokenFor(p, host).host = host
           /\ TokenFor(p, host).type = Payload(p).type
           /\ TokenFor(p, host).owner = Payload(p).owner
<1>1. Payload(p) \in PayloadRecord
  BY PayloadType
<1> QED
  BY <1>1 DEF TokenFor, Token, PayloadRecord

\* A session issued through a portal is of an account of that portal.
LEMMA IssuedFits ==
    ASSUME PortalInv, NEW p \in People, Active(p), NEW host \in Hosts, MayEnter(p, host)
    PROVE  Fits(TokenFor(p, host))
<1> DEFINE o == Payload(p).owner
           t == TokenFor(p, host)
<1>1. Exists(p) /\ account[p].type \in AccountType
  BY AccountFields DEF Active, Exists
<1>2. t.user = p /\ t.host = host /\ t.type = Payload(p).type /\ t.owner = o
  BY <1>1, TokenForType
<1>3. Payload(p).type = account[o].type /\ o \in People
  BY <1>1, PayloadType DEF PayloadRecord
<1>4. CASE account[p].type = "admin"
  BY <1>2, <1>4 DEF Fits
<1>5. CASE IsStaff(p) /\ account[p].type # "admin"
  <2>1. o = p /\ host = Platform
    BY <1>1, <1>5, PayloadType DEF IsStaff, MayEnter, EntersBy
  <2>2. Nobody \in Found(o) /\ PartnerOf(o, Nobody) = Nobody
    BY <1>3, <1>5, <2>1, FoundRows DEF IsStaff, PartnerOf
  <2> HIDE DEF t, o
  <2>3. Fits(t)
    BY <1>2, <2>1, <2>2 DEF Fits
  <2> QED
    BY <2>3 DEF t
<1>6. CASE ~IsStaff(p) /\ account[p].type # "admin"
  <2>0. PICK row \in Found(Subject(p)) : EntersBy(p, host, row)
    BY DEF MayEnter
  <2>1. /\ SubjectMayEnter(Subject(p), host, row)
        /\ IsTeammate(p) => account[Subject(p)].active
        /\ host # Platform => \E q \in People : Branded(q) /\ brand[q].domain = host
    BY <1>6, <2>0 DEF EntersBy
  <2>2. Subject(p) = o /\ account[o].type \in OwnerTypes
    <3>1. CASE IsTeammate(p)
      BY <3>1, <2>1, SubjectType DEF IsTeammate, Subject, Payload
    <3>2. CASE ~IsTeammate(p)
      <4>1. account[p].type \in OwnerTypes
        BY <1>1, <1>6, <3>2 DEF IsStaff, IsTeammate, AccountType, OwnerTypes
      <4>2. o = p
        BY <1>1, <4>1, PayloadType
      <4> QED
        BY <3>2, <4>1, <4>2 DEF Subject
    <3> QED
      BY <3>1, <3>2
  <2> DEFINE partner == PartnerOf(o, row)
  <2>3. row \in Found(o) /\ row \in Row
    BY <1>3, <2>0, <2>2, FoundRows
  <2>4. /\ host = Home(o, row)
        /\ ~(account[o].type = "client" /\ row # Nobody /\ ~Branded(row))
    BY <1>3, <2>1, <2>2, <2>3, OwnersPortal
  <2>5. Home(o, row) = IF partner # Nobody /\ Branded(partner) THEN brand[partner].domain
                       ELSE Platform
    BY <2>2 DEF Home
  <2>6. /\ partner \in People \cup {Nobody} /\ o # Nobody
        /\ partner = IF account[o].type = "partner" THEN o ELSE row
        /\ partner \in People => (Branded(partner) => brand[partner].domain \in Domains)
    BY <1>3, <2>3, AccountFields, PeopleAssumption DEF Branded, PartnerOf, Row
  <2>7. Platform \notin Domains
    BY HostAssumption
  <2>8. t.type = account[o].type /\ (t.type = "partner" \/ t.type = "client")
    BY <1>2, <1>3, <2>2 DEF OwnerTypes
  <2> HIDE DEF t, o, partner
  <2>9. host = Platform => (partner # Nobody => ~Branded(partner) /\ t.type = "partner")
    BY <2>4, <2>5, <2>6, <2>7, <2>8
  <2>10. host # Platform =>
           partner # Nobody /\ Branded(partner) /\ brand[partner].domain = host
    BY <2>4, <2>5
  <2>11. Fits(t)
    BY <1>2, <2>3, <2>9, <2>10 DEF Fits, partner
  <2> QED
    BY <2>11 DEF t
<1> QED
  BY <1>4, <1>5, <1>6

\* A client whom a partner may view is let in by the partner's portal, when the door
\* finds the row by which he may be viewed.
LEMMA ViewedEnters ==
    ASSUME PortalInv, NEW p \in People, account[p].type = "client",
           NEW q \in People, q \in account[p].linked, Branded(q)
    PROVE  q \in Found(p) /\ EntersBy(p, brand[q].domain, q)
<1> DEFINE host == brand[q].domain
<1>1. host \in Domains /\ host # Platform
  BY AccountFields, HostAssumption DEF Branded
<1>2. q # Nobody
  BY PeopleAssumption
<1>3. ~IsStaff(p) /\ ~IsTeammate(p) /\ Subject(p) = p
  BY DEF IsStaff, IsTeammate, Subject
<1>4. SubjectMayEnter(p, host, q)
  BY <1>1, <1>2 DEF SubjectMayEnter
<1> QED
  BY <1>1, <1>3, <1>4 DEF EntersBy, Found

-----------------------------------------------------------------------------
(* What the panel's handlers do to accounts, teams and brands.             *)

\* Accounts are made and switched; what teams rely on stays.
LEMMA UsersChange ==
    ASSUME PortalInv, NEW p \in People, NEW u \in Account, account' = [account EXCEPT ![p] = u],
           u.type = account[p].type \/ (account[p].type = "none" /\ u.type = "user")
    PROVE  /\ UsersOK'
           /\ \A q \in People : account'[q].type = IF q = p THEN u.type ELSE account[q].type
<1>1. \A q \in People : account'[q] = IF q = p THEN u ELSE account[q]
  BY DEF PortalInv, UsersOK
<1>2. account' \in [People -> Account]
  BY DEF PortalInv, UsersOK
<1> QED
  BY <1>1, <1>2 DEF UsersOK

LEMMA AccountsOnly ==
    ASSUME PortalInv, NEW p \in People, NEW u \in Account, account' = [account EXCEPT ![p] = u],
           u.type = account[p].type, UNCHANGED <<team, brand, origins>>
    PROVE  PortalInv'
<1>0. UsersOK' /\ \A q \in People : account'[q].type = IF q = p THEN u.type ELSE account[q].type
  BY UsersChange, Zenon
<1>1. UsersOK' /\ \A q \in People : account'[q].type = account[q].type
  BY <1>0
<1>2. TeamOK'
  BY <1>1 DEF PortalInv, TeamOK
<1>3. BrandOK'
  BY DEF PortalInv, BrandOK, OriginsAreLive, LiveDomains
<1> QED
  BY <1>1, <1>2, <1>3 DEF PortalInv

\* One row of a team is written.
LEMMA TeamChange ==
    ASSUME PortalInv, UsersOK', UNCHANGED <<brand, origins>>,
           NEW p \in People, NEW m \in Membership, team' = [team EXCEPT ![p] = m],
           m.owner \in People, account[m.owner].type \in OwnerTypes,
           account'[p].type \in {"user", "admin"},
           \A q \in People : account[q].type # "none" => account'[q].type = account[q].type
    PROVE  PortalInv'
<1>1. \A q \in People : team'[q] = IF q = p THEN m ELSE team[q]
  BY DEF PortalInv, TeamOK
<1>2. team' \in [People -> Membership]
  BY DEF PortalInv, TeamOK
<1>3. "none" \notin OwnerTypes
  BY DEF OwnerTypes
<1>4. ASSUME NEW q \in People, team'[q].status # "none"
      PROVE  /\ team'[q].owner \in People /\ account'[team'[q].owner].type \in OwnerTypes
             /\ account'[q].type \in {"user", "admin"}
  BY <1>1, <1>3, <1>4 DEF PortalInv, TeamOK
<1>5. BrandOK'
  BY DEF PortalInv, BrandOK, OriginsAreLive, LiveDomains
<1> QED
  BY <1>2, <1>4, <1>5 DEF PortalInv, TeamOK

LEMMA InviteKeeps ==
    ASSUME PortalInv, NEW by, by.owner \in People, NEW p \in People,
           NEW can \in SUBSET Permission, InviteMember(by, p, can)
    PROVE  PortalInv'
<1> DEFINE m == [status |-> "active", owner |-> by.owner, can |-> can]
           u == [account[p] EXCEPT !.type = "user", !.active = TRUE]
<1>1. /\ account[by.owner].type \in OwnerTypes /\ account[p].type \notin OwnerTypes
      /\ team' = [team EXCEPT ![p] = m] /\ UNCHANGED <<brand, origins>>
      /\ \/ account[p].type # "none" /\ account' = account
         \/ /\ account[p].type = "none"
            /\ account' = [account EXCEPT ![p].type = "user", ![p].active = TRUE]
  BY DEF InviteMember, ManagesTeam, LoadsOwner, MayInvite
<1>2. m \in Membership /\ m.owner \in People /\ account[m.owner].type \in OwnerTypes
  BY <1>1 DEF Membership
<1> HIDE DEF m
<1>3. account[p] \in Account
  BY DEF PortalInv, UsersOK
<1>4. CASE account[p].type # "none" /\ account' = account
  <2>1. UsersOK'
    BY <1>4 DEF PortalInv, UsersOK
  <2>2. account'[p].type \in {"user", "admin"}
    BY <1>1, <1>4, AccountFields DEF AccountType, OwnerTypes
  <2> QED
    BY <1>1, <1>2, <1>4, <2>1, <2>2, TeamChange
<1>5. CASE /\ account[p].type = "none"
           /\ account' = [account EXCEPT ![p].type = "user", ![p].active = TRUE]
  <2>1. u \in Account /\ u.type = "user"
    BY <1>3 DEF Account, AccountType
  <2>2. account' = [account EXCEPT ![p] = u]
    BY <1>5
  <2> HIDE DEF u
  <2>3. UsersOK' /\ \A q \in People : account'[q].type = IF q = p THEN u.type ELSE account[q].type
    BY <1>5, <2>1, <2>2, UsersChange
  <2> QED
    BY <1>1, <1>2, <1>5, <2>1, <2>3, TeamChange
<1> QED
  BY <1>1, <1>4, <1>5

LEMMA TeamKeeps ==
    ASSUME PortalInv, NEW by, NEW p \in People,
           Revoke(by, p) \/ \E can \in SUBSET Permission : UpdatePermissions(by, p, can)
    PROVE  PortalInv'
<1>1. UNCHANGED <<account, brand, origins>> /\ p \in TeamOf(by.owner)
  BY DEF Revoke, UpdatePermissions
<1>2. team[p].status = "active" /\ team[p] \in Membership
  BY <1>1 DEF TeamOf, PortalInv, TeamOK
<1>3. /\ team[p].owner \in People /\ account[team[p].owner].type \in OwnerTypes
      /\ account[p].type \in {"user", "admin"}
  BY <1>2 DEF PortalInv, TeamOK
<1>4. UsersOK'
  BY <1>1 DEF PortalInv, UsersOK
<1>5. ASSUME NEW m \in Membership, m.owner = team[p].owner, team' = [team EXCEPT ![p] = m]
      PROVE  PortalInv'
  BY <1>1, <1>3, <1>4, <1>5, TeamChange
<1>6. CASE Revoke(by, p)
  <2> DEFINE m == [team[p] EXCEPT !.status = "revoked"]
  <2>1. m \in Membership /\ m.owner = team[p].owner
    BY <1>2 DEF Membership
  <2>2. team' = [team EXCEPT ![p] = m]
    BY <1>6 DEF Revoke
  <2> QED
    BY <2>1, <2>2, <1>5
<1>7. ASSUME NEW can \in SUBSET Permission, UpdatePermissions(by, p, can)
      PROVE  PortalInv'
  <2> DEFINE m == [team[p] EXCEPT !.can = can]
  <2>1. m \in Membership /\ m.owner = team[p].owner
    BY <1>2 DEF Membership
  <2>2. team' = [team EXCEPT ![p] = m]
    BY <1>7 DEF UpdatePermissions
  <2> QED
    BY <2>1, <2>2, <1>5
<1> QED
  BY <1>6, <1>7

\* A brand takes a domain nobody else has; the origins follow, or stay among the live ones.
LEMMA BrandKeeps ==
    ASSUME PortalInv, NEW by, NEW q \in People, NEW b \in Brand, b.domain # NoDomain,
           CreateBrand(by, q, b) \/ UpdateBrand(by, q, b)
    PROVE  PortalInv'
<1>1. UNCHANGED <<account, team>> /\ brand' = [brand EXCEPT ![q] = b]
  BY DEF CreateBrand, UpdateBrand
<1>2. \A p \in People : p # q => brand[p].domain # b.domain
  <2>1. DomainFree(q, b.domain) \/ b.domain = brand[q].domain
    BY DEF CreateBrand, UpdateBrand
  <2> QED
    BY <2>1, OneBrand DEF DomainFree
<1>3. \A p \in People : brand'[p] = IF p = q THEN b ELSE brand[p]
  BY <1>1 DEF PortalInv, BrandOK
<1>4. brand' \in [People -> Brand]
  BY <1>1 DEF PortalInv, BrandOK
<1>5. \A p \in People : brand'[p].active => brand'[p].domain # NoDomain
  BY <1>3 DEF PortalInv, BrandOK
<1>6. \A p, r \in People :
         p # r /\ brand'[p].domain = brand'[r].domain => brand'[p].domain = NoDomain
  BY <1>2, <1>3 DEF PortalInv, BrandOK
<1>7. OriginsAreLive'
  <2>1. CASE CreateBrand(by, q, b)
    <3>1. origins' = origins /\ ~brand[q].active
      BY <2>1 DEF CreateBrand, NoBrand
    <3>2. LiveDomains(brand) \subseteq LiveDomains(brand')
      BY <1>3, <3>1 DEF LiveDomains
    <3> QED
      BY <3>1, <3>2 DEF PortalInv, BrandOK, OriginsAreLive
  <2>2. CASE UpdateBrand(by, q, b)
    BY <2>2 DEF UpdateBrand, OriginsAreLive
  <2> QED
    BY <2>1, <2>2
<1>8. UsersOK' /\ TeamOK'
  BY <1>1 DEF PortalInv, UsersOK, TeamOK
<1> QED
  BY <1>4, <1>5, <1>6, <1>7, <1>8 DEF PortalInv, BrandOK

LEMMA ToggleKeeps ==
    ASSUME PortalInv, NEW p \in People, ToggleAccount(p)
    PROVE  PortalInv'
<1> DEFINE u == [account[p] EXCEPT !.active = ~account[p].active]
<1>1. account[p] \in Account
  BY DEF PortalInv, UsersOK
<1>2. u \in Account /\ u.type = account[p].type
  BY <1>1 DEF Account
<1>3. account' = [account EXCEPT ![p] = u] /\ UNCHANGED <<team, brand, origins>>
  BY DEF ToggleAccount
<1> HIDE DEF u
<1> QED
  BY <1>2, <1>3, AccountsOnly

LEMMA ReadyKeeps ==
    ASSUME PortalInv, NEW p \in People, account' = [account EXCEPT ![p].ready = TRUE],
           UNCHANGED <<team, brand, origins>>
    PROVE  PortalInv'
<1> DEFINE u == [account[p] EXCEPT !.ready = TRUE]
<1>1. account[p] \in Account
  BY DEF PortalInv, UsersOK
<1>2. u \in Account /\ u.type = account[p].type
  BY <1>1 DEF Account
<1>3. account' = [account EXCEPT ![p] = u]
  OBVIOUS
<1> HIDE DEF u
<1> QED
  BY <1>2, <1>3, AccountsOnly

\* Rows are made, linked and deleted.
LEMMA RowsKeep ==
    ASSUME PortalInv, NEW p \in People, NEW row \in Row,
           AddRow(p, row) \/ LinkRow(p, row) \/ LinkMailed(p) \/ RowForRequest(p, row)
               \/ RemoveRow(p, row)
    PROVE  PortalInv'
<1>1. account[p] \in Account /\ account[p].linked \subseteq Row /\ account[p].mailed \subseteq Row
  BY AccountFields DEF PortalInv, UsersOK
<1> DEFINE With(linked, mailed) == [account[p] EXCEPT !.linked = linked, !.mailed = mailed]
<1>2. ASSUME NEW linked \in SUBSET Row, NEW mailed \in SUBSET Row,
             account' = [account EXCEPT ![p] = With(linked, mailed)]
      PROVE  PortalInv'
  <2> DEFINE u == With(linked, mailed)
  <2>1. u \in Account /\ u.type = account[p].type
    BY <1>1 DEF Account
  <2>2. UNCHANGED <<team, brand, origins>>
    BY DEF AddRow, LinkRow, LinkMailed, RowForRequest, RemoveRow
  <2> HIDE DEF With
  <2>3. account' = [account EXCEPT ![p] = u]
    BY <1>2
  <2> HIDE DEF u
  <2> QED
    BY <2>1, <2>2, <2>3, AccountsOnly
<1>3. \A linked \in SUBSET Row :
         With(linked, account[p].mailed) = [account[p] EXCEPT !.linked = linked]
  BY <1>1 DEF Account
<1>4. \A mailed \in SUBSET Row :
         With(account[p].linked, mailed) = [account[p] EXCEPT !.mailed = mailed]
  BY <1>1 DEF Account
<1> DEFINE more == account[p].linked \cup {row}
           known == account[p].mailed \cup {row}
           fewer == account[p].linked \ {row}
           others == account[p].mailed \ {row}
           all == account[p].linked \cup account[p].mailed
<1>5. /\ more \in SUBSET Row /\ known \in SUBSET Row /\ fewer \in SUBSET Row
      /\ others \in SUBSET Row /\ all \in SUBSET Row /\ {} \in SUBSET Row
      /\ account[p].linked \in SUBSET Row /\ account[p].mailed \in SUBSET Row
  BY <1>1
<1>6. \/ account' = [account EXCEPT ![p] = [account[p] EXCEPT !.mailed = known]]
      \/ account' = [account EXCEPT ![p] = [account[p] EXCEPT !.linked = more]]
      \/ account' = [account EXCEPT ![p] = With(more, others)]
      \/ account' = [account EXCEPT ![p] = With(all, {})]
      \/ account' = [account EXCEPT ![p] = With(fewer, others)]
  BY DEF AddRow, LinkRow, LinkMailed, Rows, RowForRequest, RemoveRow
<1> HIDE DEF With, more, known, fewer, others, all
<1> QED
  BY <1>2, <1>3, <1>4, <1>5, <1>6

LEMMA RestartKeeps ==
    ASSUME PortalInv, Restart
    PROVE  PortalInv'
BY DEF PortalInv, UsersOK, TeamOK, BrandOK, OriginsAreLive, Restart, LiveDomains

LEMMA PortalSame ==
    ASSUME PortalInv, UNCHANGED portalVars
    PROVE  PortalInv'
BY DEF PortalInv, UsersOK, TeamOK, BrandOK, OriginsAreLive, LiveDomains, portalVars

-----------------------------------------------------------------------------
(* Codes.                                                                  *)

\* One challenge is written; it may be closed, never opened again.
LEMMA ChallengeWritten ==
    ASSUME CodesOK, NEW c \in DOMAIN challenges, NEW x \in Challenge,
           challenges' = [challenges EXCEPT ![c] = x],
           x.user = challenges[c].user, x.open => challenges[c].open,
           x.guesses = x.attempts, x.starts <= IF x.open THEN 0 ELSE 1
    PROVE  CodesOK'
<1>1. challenges \in Seq(Challenge) /\ DOMAIN challenges = 1..Len(challenges)
  BY DEF CodesOK
<1>2. /\ challenges' \in Seq(Challenge) /\ Len(challenges') = Len(challenges)
      /\ \A d \in 1..Len(challenges) : challenges'[d] = IF d = c THEN x ELSE challenges[d]
  BY <1>1, ExceptSeq
<1>3. DOMAIN challenges' = DOMAIN challenges
  OBVIOUS
<1>4. \A d \in DOMAIN challenges' :
          /\ challenges'[d].guesses = challenges'[d].attempts
          /\ challenges'[d].starts <= IF challenges'[d].open THEN 0 ELSE 1
  BY <1>1, <1>2, <1>3 DEF CodesOK
<1>5. \A d, e \in DOMAIN challenges' :
          challenges'[d].open /\ challenges'[e].open /\ challenges'[d].user = challenges'[e].user
              => d = e
  BY <1>1, <1>2, <1>3 DEF CodesOK
<1> QED
  BY <1>2, <1>4, <1>5 DEF CodesOK

LEMMA ChallengeFields ==
    ASSUME CodesOK, NEW c \in DOMAIN challenges
    PROVE  /\ challenges[c] \in Challenge
           /\ challenges[c].guesses = challenges[c].attempts
           /\ challenges[c].starts <= IF challenges[c].open THEN 0 ELSE 1
BY DEF CodesOK

LEMMA WrongKeeps ==
    ASSUME CodesOK, NEW c \in DOMAIN challenges, VerifyWrong(c)
    PROVE  CodesOK'
<1> DEFINE k == challenges[c]
           x == [k EXCEPT !.attempts = k.attempts + 1, !.guesses = k.guesses + 1]
<1>1. k \in Challenge /\ k.guesses = k.attempts /\ k.starts <= IF k.open THEN 0 ELSE 1
  BY ChallengeFields
<1>2. k.open /\ k.attempts < MaxAttempts /\ challenges' = [challenges EXCEPT ![c] = x]
  BY DEF VerifyWrong, Guessable
<1>3. k.attempts + 1 \in 0..MaxAttempts /\ k.guesses + 1 \in Nat
  BY <1>1, <1>2, LimitsAssumption DEF Challenge
<1>4. /\ x \in Challenge /\ x.user = k.user /\ x.open = k.open /\ x.starts = k.starts
      /\ x.attempts = k.attempts + 1 /\ x.guesses = k.guesses + 1
  BY <1>1, <1>3 DEF Challenge
<1> HIDE DEF x
<1> QED
  BY <1>1, <1>2, <1>4, ChallengeWritten

LEMMA ResendKeeps ==
    ASSUME CodesOK, NEW c \in DOMAIN challenges, NEW sent \in BOOLEAN, Resend(c, sent)
    PROVE  CodesOK'
<1> DEFINE k == challenges[c]
           x == [k EXCEPT !.resends = k.resends + 1, !.attempts = 0, !.guesses = 0, !.known = sent]
<1>1. k \in Challenge /\ k.starts <= IF k.open THEN 0 ELSE 1
  BY ChallengeFields
<1>2. k.resends < MaxResends /\ challenges' = [challenges EXCEPT ![c] = x]
  BY DEF Resend
<1>3. k.resends + 1 \in 0..MaxResends /\ 0 \in 0..MaxAttempts
  BY <1>1, <1>2, LimitsAssumption DEF Challenge
<1>4. /\ x \in Challenge /\ x.user = k.user /\ x.open = k.open /\ x.starts = k.starts
      /\ x.attempts = 0 /\ x.guesses = 0
  BY <1>1, <1>3 DEF Challenge
<1> HIDE DEF x
<1> QED
  BY <1>1, <1>2, <1>4, ChallengeWritten

\* The right code closes the challenge it began a session with.
LEMMA VerifyKeeps ==
    ASSUME CodesOK, NEW b, NEW c \in DOMAIN challenges, NEW host, Verify(b, c, host)
    PROVE  CodesOK'
<1> DEFINE k == challenges[c]
<1>1. k \in Challenge /\ k.guesses = k.attempts /\ k.starts <= IF k.open THEN 0 ELSE 1
  BY ChallengeFields
<1>2. k.open /\ \/ challenges' = [challenges EXCEPT ![c].open = FALSE]
                \/ challenges' = [challenges EXCEPT ![c].open = FALSE, ![c].starts = k.starts + 1]
  BY DEF Verify, Guessable
<1>3. PICK n \in {k.starts, k.starts + 1} :
         challenges' = [challenges EXCEPT ![c] = [k EXCEPT !.open = FALSE, !.starts = n]]
  <2>1. CASE challenges' = [challenges EXCEPT ![c].open = FALSE]
    <3>1. [k EXCEPT !.open = FALSE] = [k EXCEPT !.open = FALSE, !.starts = k.starts]
      BY <1>1 DEF Challenge
    <3> QED
      BY <2>1, <3>1
  <2>2. CASE challenges' = [challenges EXCEPT ![c].open = FALSE, ![c].starts = k.starts + 1]
    BY <2>2
  <2> QED
    BY <1>2, <2>1, <2>2
<1> DEFINE x == [k EXCEPT !.open = FALSE, !.starts = n]
<1>4. n \in Nat /\ n <= 1
  BY <1>1, <1>2 DEF Challenge
<1>5. /\ x \in Challenge /\ x.user = k.user /\ x.open = FALSE /\ x.starts = n
      /\ x.attempts = k.attempts /\ x.guesses = k.guesses
  BY <1>1, <1>4 DEF Challenge
<1>6. challenges' = [challenges EXCEPT ![c] = x]
  BY <1>3
<1> HIDE DEF x
<1> QED
  BY <1>1, <1>2, <1>4, <1>5, <1>6, ChallengeWritten

LEMMA CodeExpiresKeeps ==
    ASSUME CodesOK, NEW c \in DOMAIN challenges, CodeExpires(c)
    PROVE  CodesOK'
<1> DEFINE k == challenges[c]
           x == [k EXCEPT !.fresh = FALSE]
<1>1. k \in Challenge /\ k.guesses = k.attempts /\ k.starts <= IF k.open THEN 0 ELSE 1
  BY ChallengeFields
<1>2. challenges' = [challenges EXCEPT ![c] = x]
  BY DEF CodeExpires
<1>3. /\ x \in Challenge /\ x.user = k.user /\ x.open = k.open /\ x.starts = k.starts
      /\ x.attempts = k.attempts /\ x.guesses = k.guesses
  BY <1>1 DEF Challenge
<1> HIDE DEF x
<1> QED
  BY <1>1, <1>2, <1>3, ChallengeWritten

\* Every open challenge of the user is closed, and one is added at most.
LEMMA Consumed ==
    ASSUME CodesOK, NEW p
    PROVE  /\ Consume(p) \in Seq(Challenge) /\ Len(Consume(p)) = Len(challenges)
           /\ \A c \in 1..Len(challenges) :
                 /\ Consume(p)[c].user = challenges[c].user
                 /\ Consume(p)[c].open => challenges[c].open /\ challenges[c].user # p
                 /\ Consume(p)[c].guesses = Consume(p)[c].attempts
                 /\ Consume(p)[c].starts <= IF Consume(p)[c].open THEN 0 ELSE 1
<1> DEFINE K == Consume(p)
<1>1. /\ DOMAIN challenges = 1..Len(challenges) /\ Len(challenges) \in Nat
      /\ \A c \in 1..Len(challenges) : challenges[c] \in Challenge
  BY DEF CodesOK
<1>2. /\ DOMAIN K = 1..Len(challenges)
      /\ \A c \in 1..Len(challenges) :
            K[c] = IF challenges[c].user = p THEN [challenges[c] EXCEPT !.open = FALSE]
                   ELSE challenges[c]
      /\ K = [c \in 1..Len(challenges) |-> K[c]]
  BY <1>1 DEF Consume
<1> HIDE DEF K
<1>3. \A c \in 1..Len(challenges) :
         /\ K[c] \in Challenge /\ K[c].user = challenges[c].user
         /\ K[c].open => challenges[c].open /\ challenges[c].user # p
         /\ K[c].attempts = challenges[c].attempts /\ K[c].guesses = challenges[c].guesses
         /\ K[c].starts = challenges[c].starts
         /\ challenges[c].open = K[c].open \/ ~K[c].open
  BY <1>1, <1>2 DEF Challenge
<1>4. K \in [1..Len(challenges) -> Challenge]
  BY <1>2, <1>3
<1>5. K \in Seq(Challenge)
  BY <1>1, <1>4, SeqDef
<1>6. Len(K) = Len(challenges)
  BY <1>1, <1>2, <1>5, LenProperties
<1>7. ASSUME NEW c \in 1..Len(challenges)
      PROVE  K[c].guesses = K[c].attempts /\ K[c].starts <= IF K[c].open THEN 0 ELSE 1
  <2>1. /\ challenges[c].guesses = challenges[c].attempts
        /\ challenges[c].starts <= IF challenges[c].open THEN 0 ELSE 1
        /\ challenges[c].starts \in Nat
    BY <1>1 DEF CodesOK, Challenge
  <2> QED
    BY <1>3, <2>1
<1> QED
  BY <1>3, <1>5, <1>6, <1>7 DEF K

LEMMA ConsumeKeeps ==
    ASSUME CodesOK, NEW p, challenges' = Consume(p)
    PROVE  CodesOK'
<1>1. DOMAIN challenges = 1..Len(challenges) /\ DOMAIN challenges' = 1..Len(challenges)
  BY Consumed DEF CodesOK
<1> QED
  BY <1>1, Consumed DEF CodesOK

LEMMA ChallengeAdded ==
    ASSUME CodesOK, NEW p \in People, Len(challenges) < MaxChallenges,
           challenges' = Append(Consume(p), NewChallenge(p))
    PROVE  CodesOK'
<1> DEFINE K == Consume(p)
           N == NewChallenge(p)
           n == Len(challenges)
<1>1. 0 \in 0..MaxAttempts /\ 0 \in 0..MaxResends
  BY LimitsAssumption
<1>2. N \in Challenge /\ N.user = p /\ N.open /\ N.guesses = N.attempts /\ N.starts = 0
  BY <1>1 DEF NewChallenge, Challenge
<1>3. /\ K \in Seq(Challenge) /\ Len(K) = n /\ n \in Nat
      /\ \A c \in 1..n : /\ K[c].user = challenges[c].user
                         /\ K[c].open => challenges[c].open /\ challenges[c].user # p
                         /\ K[c].guesses = K[c].attempts
                         /\ K[c].starts <= IF K[c].open THEN 0 ELSE 1
  BY Consumed DEF CodesOK
<1>4. \A c, d \in 1..n :
         challenges[c].open /\ challenges[d].open /\ challenges[c].user = challenges[d].user
             => c = d
  BY DEF CodesOK
<1> HIDE DEF K, N
<1>5. /\ challenges' \in Seq(Challenge) /\ Len(challenges') = n + 1
      /\ \A c \in 1..n : challenges'[c] = K[c]
      /\ challenges'[n + 1] = N
  BY <1>2, <1>3, AppendProperties DEF K, N
<1>6. DOMAIN challenges' = 1..(n + 1) /\ \A c \in 1..(n + 1) : c \in 1..n \/ c = n + 1
  BY <1>3, <1>5
<1>7. \A c \in DOMAIN challenges' :
          /\ challenges'[c].guesses = challenges'[c].attempts
          /\ challenges'[c].starts <= IF challenges'[c].open THEN 0 ELSE 1
  BY <1>2, <1>3, <1>5, <1>6
<1>8. \A c, d \in DOMAIN challenges' :
          challenges'[c].open /\ challenges'[d].open /\ challenges'[c].user = challenges'[d].user
              => c = d
  BY <1>2, <1>3, <1>4, <1>5, <1>6
<1>9. Len(challenges') <= MaxChallenges
  BY <1>3, <1>5, LimitsAssumption
<1> QED
  BY <1>5, <1>7, <1>8, <1>9 DEF CodesOK

LEMMA CodesSame ==
    ASSUME CodesOK, UNCHANGED challenges
    PROVE  CodesOK'
BY DEF CodesOK

LEMMA OneCodeHolds ==
    ASSUME CodesOK
    PROVE  OneCode
<1>1. \A c \in DOMAIN challenges : challenges[c] \in Challenge
  BY DEF CodesOK
<1>2. \A c \in DOMAIN challenges :
         /\ challenges[c].attempts \in 0..MaxAttempts /\ challenges[c].starts \in Nat
  BY <1>1 DEF Challenge
<1> QED
  BY <1>2, LimitsAssumption DEF CodesOK, OneCode

-----------------------------------------------------------------------------
(* Cookies, and what a step of a session may do.                           *)

SessionStep ==
    \A b \in Browsers :
        LET t == access'[b] IN
        (t.fresh /\ t.host # Nobody /\ t \notin {access[b], stored[b]}) => Fits(t)

ViewStep ==
    \A b \in Browsers :
        LET t == access'[b]
            by == stored'[b]
        IN (t # access[b] /\ t.view # Nobody /\ t.fresh /\ account[t.user].type = "client"
            /\ by.type = "partner" /\ Branded(by.owner))
               => /\ by.owner \in Found(t.user)
                  /\ Answers(t, brand[by.owner].domain, by.owner)

GoodStep == LoginInv' /\ SessionStep /\ ViewStep

LEMMA NoTokenFields ==
    NoToken.view = Nobody /\ ~NoToken.fresh /\ NoToken.host = Nobody /\ NoToken \notin Token
BY PeopleAssumption DEF NoToken, Token

LEMMA TokenFields ==
    ASSUME CookiesOK, NEW b \in Browsers
    PROVE  /\ access[b] \in Token \cup {NoToken} /\ stored[b] \in Token \cup {NoToken}
           /\ renewal[b] \in People \cup {Nobody}
           /\ access[b].view \in People \cup {Nobody}
           /\ access[b].fresh => /\ access[b] \in Token
                                 /\ access[b].user \in People /\ access[b].owner \in People
           /\ stored[b].fresh => stored[b] \in Token /\ stored[b].user \in People
<1>1. /\ access[b] \in Token \cup {NoToken} /\ stored[b] \in Token \cup {NoToken}
      /\ renewal[b] \in People \cup {Nobody}
  BY DEF CookiesOK
<1>2. \A t \in Token : t.view \in People \cup {Nobody} /\ t.user \in People /\ t.owner \in People
  BY DEF Token
<1> QED
  BY <1>1, <1>2, NoTokenFields

\* The cookies of one browser are written.
LEMMA CookiesWritten ==
    ASSUME CookiesOK, NEW b \in Browsers,
           NEW t \in Token \cup {NoToken}, access' = [access EXCEPT ![b] = t],
           NEW s \in Token \cup {NoToken}, stored' = [stored EXCEPT ![b] = s],
           NEW r \in People \cup {Nobody}, renewal' = [renewal EXCEPT ![b] = r],
           t.view # Nobody /\ s # NoToken => s.user = t.view /\ s.view = Nobody
    PROVE  CookiesOK'
<1>1. /\ access' \in [Browsers -> Token \cup {NoToken}]
      /\ stored' \in [Browsers -> Token \cup {NoToken}]
      /\ renewal' \in [Browsers -> People \cup {Nobody}]
  BY DEF CookiesOK
<1>2. \A c \in Browsers : /\ access'[c] = IF c = b THEN t ELSE access[c]
                          /\ stored'[c] = IF c = b THEN s ELSE stored[c]
  BY DEF CookiesOK
<1>3. OperatorKept'
  BY <1>2 DEF CookiesOK, OperatorKept
<1> QED
  BY <1>1, <1>3 DEF CookiesOK

\* The session of one browser is written.
LEMMA StepAt ==
    ASSUME CookiesOK, NEW b \in Browsers, NEW t, access' = [access EXCEPT ![b] = t],
           t.fresh /\ t.host # Nobody /\ t # stored[b] => Fits(t),
           (t.view # Nobody /\ t.fresh /\ account[t.user].type = "client"
            /\ stored'[b].type = "partner" /\ Branded(stored'[b].owner))
               => /\ stored'[b].owner \in Found(t.user)
                  /\ Answers(t, brand[stored'[b].owner].domain, stored'[b].owner)
    PROVE  SessionStep /\ ViewStep
<1>1. \A c \in Browsers : access'[c] = IF c = b THEN t ELSE access[c]
  BY DEF CookiesOK
<1>2. SessionStep
  BY <1>1 DEF SessionStep
<1>3. ViewStep
  BY <1>1 DEF ViewStep
<1> QED
  BY <1>2, <1>3

LEMMA StepSame ==
    ASSUME UNCHANGED access
    PROVE  SessionStep /\ ViewStep
BY DEF SessionStep, ViewStep

\* A session is begun, renewed or restored in a browser.
LEMMA SessionWritten ==
    ASSUME LoginInv, NEW b \in Browsers, NEW t \in Token, t.view = Nobody,
           access' = [access EXCEPT ![b] = t],
           NEW s \in {stored[b], NoToken}, stored' = [stored EXCEPT ![b] = s],
           NEW r \in People \cup {Nobody}, renewal' = [renewal EXCEPT ![b] = r],
           t.fresh /\ t.host # Nobody /\ t # stored[b] => Fits(t)
    PROVE  CookiesOK' /\ SessionStep /\ ViewStep
<1>1. s \in Token \cup {NoToken}
  BY TokenFields DEF LoginInv
<1>2. CookiesOK'
  BY <1>1, CookiesWritten DEF LoginInv
<1>3. SessionStep /\ ViewStep
  BY StepAt DEF LoginInv
<1> QED
  BY <1>2, <1>3

LEMMA LoginKept ==
    ASSUME CookiesOK, NEW b \in Browsers
    PROVE  /\ access = [access EXCEPT ![b] = access[b]]
           /\ stored = [stored EXCEPT ![b] = stored[b]]
           /\ renewal = [renewal EXCEPT ![b] = renewal[b]]
BY DEF CookiesOK

LEMMA CookiesSame ==
    ASSUME CookiesOK, UNCHANGED cookies
    PROVE  CookiesOK' /\ SessionStep /\ ViewStep
BY StepSame DEF CookiesOK, OperatorKept, cookies

LEMMA CallKeeps ==
    ASSUME LoginInv, NEW op, Call(op), links' \subseteq People,
           trusted' \in [Browsers -> People \cup {Nobody}]
    PROVE  RestOK'
BY LimitsAssumption DEF LoginInv, RestOK, Call

LEMMA StartSessionKeeps ==
    ASSUME LoginInv, NEW b \in Browsers, NEW p \in People, NEW host \in Hosts,
           Active(p), MayEnter(p, host), StartSession(b, p, host)
    PROVE  CookiesOK' /\ SessionStep /\ ViewStep
<1> DEFINE t == TokenFor(p, host)
<1>1. t \in Token /\ t.view = Nobody /\ Fits(t)
  BY TokenForType, IssuedFits DEF LoginInv, Active
<1>2. access' = [access EXCEPT ![b] = t] /\ renewal' = [renewal EXCEPT ![b] = p]
      /\ stored' = stored
  BY DEF StartSession
<1> HIDE DEF t
<1>3. stored' = [stored EXCEPT ![b] = stored[b]]
  BY <1>2, LoginKept DEF LoginInv
<1> QED
  BY <1>1, <1>2, <1>3, SessionWritten

LEMMA SignInKeeps ==
    ASSUME LoginInv, NEW b \in Browsers, NEW p \in People, NEW host \in Hosts,
           SignIn(b, p, host)
    PROVE  GoodStep
<1>1. /\ Call("signIn") /\ Active(p) /\ MayEnter(p, host)
      /\ UNCHANGED <<portalVars, links, trusted>>
      /\ \/ StartSession(b, p, host) /\ UNCHANGED challenges
         \/ /\ UNCHANGED cookies
            /\ \/ challenges' = Consume(p)
               \/ /\ Len(challenges) < MaxChallenges
                  /\ challenges' = Append(Consume(p), NewChallenge(p))
  BY DEF SignIn
<1>2. PortalInv' /\ RestOK'
  BY <1>1, PortalSame, CallKeeps DEF LoginInv, RestOK
<1>3. CookiesOK' /\ SessionStep /\ ViewStep
  BY <1>1, StartSessionKeeps, CookiesSame DEF LoginInv
<1>4. CodesOK'
  BY <1>1, CodesSame, ConsumeKeeps, ChallengeAdded DEF LoginInv
<1> QED
  BY <1>2, <1>3, <1>4 DEF GoodStep, LoginInv

LEMMA VerifyGood ==
    ASSUME LoginInv, NEW b \in Browsers, NEW c \in DOMAIN challenges, NEW host \in Hosts,
           Verify(b, c, host)
    PROVE  GoodStep
<1> DEFINE p == challenges[c].user
<1>1. /\ Call("verify") /\ UNCHANGED <<portalVars, links, trusted>>
      /\ \/ Active(p) /\ MayEnter(p, host) /\ StartSession(b, p, host)
         \/ UNCHANGED cookies
  BY DEF Verify
<1>2. p \in People
  BY ChallengeFields DEF LoginInv, Challenge
<1>3. PortalInv' /\ RestOK'
  BY <1>1, PortalSame, CallKeeps DEF LoginInv, RestOK
<1>4. CookiesOK' /\ SessionStep /\ ViewStep
  BY <1>1, <1>2, StartSessionKeeps, CookiesSame DEF LoginInv
<1>5. CodesOK'
  BY VerifyKeeps DEF LoginInv
<1> QED
  BY <1>3, <1>4, <1>5 DEF GoodStep, LoginInv

\* Steps that write challenges only.
LEMMA CodesOnly ==
    ASSUME LoginInv, NEW op, Call(op), CodesOK', UNCHANGED <<portalVars, links, cookies, trusted>>
    PROVE  GoodStep
<1>1. PortalInv' /\ RestOK'
  BY PortalSame, CallKeeps DEF LoginInv, RestOK
<1>2. CookiesOK' /\ SessionStep /\ ViewStep
  BY CookiesSame DEF LoginInv
<1> QED
  BY <1>1, <1>2 DEF GoodStep, LoginInv

LEMMA GuessGood ==
    ASSUME LoginInv, NEW c \in DOMAIN challenges,
           VerifyWrong(c) \/ \E sent \in BOOLEAN : Resend(c, sent)
    PROVE  GoodStep
<1>1. CASE VerifyWrong(c)
  <2>1. Call("verify") /\ UNCHANGED <<portalVars, links, cookies, trusted>>
    BY <1>1 DEF VerifyWrong
  <2> QED
    BY <1>1, <2>1, WrongKeeps, CodesOnly DEF LoginInv
<1>2. ASSUME NEW sent \in BOOLEAN, Resend(c, sent)
      PROVE  GoodStep
  <2>1. Call("resend") /\ UNCHANGED <<portalVars, links, cookies, trusted>>
    BY <1>2 DEF Resend
  <2> QED
    BY <1>2, <2>1, ResendKeeps, CodesOnly DEF LoginInv
<1> QED
  BY <1>1, <1>2

\* Steps that write links, trusted devices or the portal's tables only.
LEMMA TablesOnly ==
    ASSUME LoginInv, NEW op, Call(op), PortalInv', UNCHANGED <<challenges, cookies>>,
           links' \subseteq People, trusted' \in [Browsers -> People \cup {Nobody}]
    PROVE  GoodStep
<1>1. RestOK'
  BY CallKeeps
<1>2. CookiesOK' /\ SessionStep /\ ViewStep /\ CodesOK'
  BY CookiesSame, CodesSame DEF LoginInv
<1> QED
  BY <1>1, <1>2 DEF GoodStep, LoginInv

LEMMA TrustGood ==
    ASSUME LoginInv, NEW b \in Browsers, TrustDevice(b)
    PROVE  GoodStep
<1>1. /\ Call("trust") /\ access[b].fresh
      /\ trusted' = [trusted EXCEPT ![b] = access[b].user]
      /\ UNCHANGED <<portalVars, challenges, links, cookies>>
  BY DEF TrustDevice, Writes
<1>2. access[b].user \in People
  BY <1>1, TokenFields DEF LoginInv
<1>3. links' \subseteq People /\ trusted' \in [Browsers -> People \cup {Nobody}] /\ PortalInv'
  BY <1>1, <1>2, PortalSame DEF LoginInv, RestOK
<1> QED
  BY <1>1, <1>3, TablesOnly

LEMMA PasswordGood ==
    ASSUME LoginInv, NEW p \in People,
           \/ \E b \in Browsers : ChangePassword(b, p)
           \/ ForgotPassword(p) \/ ResetPassword(p)
    PROVE  GoodStep
<1>1. /\ Call("password") /\ UNCHANGED <<challenges, cookies>>
      /\ links' \subseteq links \cup {p}
      /\ UNCHANGED trusted \/ Distrust(p)
      /\ \/ UNCHANGED portalVars
         \/ account' = [account EXCEPT ![p].ready = TRUE] /\ UNCHANGED <<team, brand, origins>>
  BY DEF ChangePassword, ForgotPassword, ResetPassword
<1>2. trusted' \in [Browsers -> People \cup {Nobody}]
  BY <1>1 DEF Distrust, LoginInv, RestOK
<1>3. links' \subseteq People
  BY <1>1 DEF LoginInv, RestOK
<1>4. PortalInv'
  BY <1>1, PortalSame, ReadyKeeps DEF LoginInv
<1> QED
  BY <1>1, <1>2, <1>3, <1>4, TablesOnly

\* Steps that write the cookies of a browser only.
LEMMA CookiesOnly ==
    ASSUME LoginInv, NEW op, Call(op), UNCHANGED <<portalVars, challenges, links, trusted>>,
           CookiesOK', SessionStep, ViewStep
    PROVE  GoodStep
<1>1. PortalInv' /\ RestOK' /\ CodesOK'
  BY PortalSame, CallKeeps, CodesSame DEF LoginInv, RestOK
<1> QED
  BY <1>1 DEF GoodStep, LoginInv

LEMMA RefreshGood ==
    ASSUME LoginInv, NEW b \in Browsers, NEW host \in Hosts, Refresh(b, host)
    PROVE  GoodStep
<1> DEFINE p == renewal[b]
           t == TokenFor(p, host)
<1>1. /\ Call("refresh") /\ p # Nobody /\ Active(p) /\ MayEnter(p, host)
      /\ access' = [access EXCEPT ![b] = t]
      /\ UNCHANGED <<portalVars, challenges, links, stored, renewal, trusted>>
  BY DEF Refresh
<1>2. p \in People
  BY <1>1, TokenFields DEF LoginInv
<1>3. t \in Token /\ t.view = Nobody /\ Fits(t)
  BY <1>1, <1>2, TokenForType, IssuedFits DEF LoginInv, Active
<1> HIDE DEF t
<1>4. stored' = [stored EXCEPT ![b] = stored[b]] /\ renewal' = [renewal EXCEPT ![b] = renewal[b]]
      /\ renewal[b] \in People \cup {Nobody}
  BY <1>1, LoginKept, TokenFields DEF LoginInv
<1>5. CookiesOK' /\ SessionStep /\ ViewStep
  BY <1>1, <1>3, <1>4, SessionWritten
<1> QED
  BY <1>1, <1>5, CookiesOnly

LEMMA LogoutGood ==
    ASSUME LoginInv, NEW b \in Browsers, Logout(b)
    PROVE  GoodStep
<1>1. /\ Call("logout") /\ UNCHANGED <<portalVars, challenges, links, trusted>>
      /\ access' = [access EXCEPT ![b] = NoToken]
      /\ stored' = [stored EXCEPT ![b] = NoToken]
      /\ renewal' = [renewal EXCEPT ![b] = Nobody]
  BY DEF Logout
<1>2. CookiesOK'
  BY <1>1, CookiesWritten DEF LoginInv
<1>3. SessionStep /\ ViewStep
  BY <1>1, StepAt, NoTokenFields DEF LoginInv
<1> QED
  BY <1>1, <1>2, <1>3, CookiesOnly

\* The operator's own token is kept beside the view that names him.
LEMMA ViewGood ==
    ASSUME LoginInv, NEW b \in Browsers, NEW p \in People, View(b, p)
    PROVE  GoodStep
<1> DEFINE by == access[b]
           u == TokenFor(p, Nobody)
           t == [u EXCEPT !.view = by.user]
<1>1. /\ Call("view") /\ by.fresh /\ by.view = Nobody /\ MayView(by, p)
      /\ stored' = [stored EXCEPT ![b] = by]
      /\ access' = [access EXCEPT ![b] = t]
      /\ UNCHANGED <<portalVars, challenges, links, renewal, trusted>>
  BY DEF View, Writes
<1>2. by \in Token /\ by.user \in People /\ by.owner \in People
  BY <1>1, TokenFields DEF LoginInv
<1>3. /\ Active(p) /\ Payload(p).type = "client"
      /\ by.type = "partner" => by.owner \in account[p].linked
  BY <1>1 DEF MayView
<1>4. u \in Token /\ u.user = p /\ u.host = Nobody
  BY <1>3, TokenForType DEF LoginInv, Active
<1> HIDE DEF u
<1>5. t \in Token /\ t.view = by.user /\ t.user = p /\ t.host = Nobody
  BY <1>2, <1>4 DEF Token
<1> HIDE DEF t
<1>6. renewal' = [renewal EXCEPT ![b] = renewal[b]] /\ renewal[b] \in People \cup {Nobody}
  BY <1>1, LoginKept, TokenFields DEF LoginInv
<1>7. CookiesOK'
  <2> DEFINE r == renewal[b]
  <2>1. r \in People \cup {Nobody} /\ renewal' = [renewal EXCEPT ![b] = r]
    BY <1>6
  <2> HIDE DEF by, r
  <2>2. by \in Token \cup {NoToken} /\ t \in Token \cup {NoToken}
        /\ by.user = t.view /\ by.view = Nobody
    BY <1>1, <1>2, <1>5
  <2>3. access' = [access EXCEPT ![b] = t] /\ stored' = [stored EXCEPT ![b] = by]
    BY <1>1
  <2> QED
    BY <2>1, <2>2, <2>3, CookiesWritten DEF LoginInv
<1>8. stored'[b] = by
  BY <1>1 DEF LoginInv, CookiesOK
<1>9. (t.fresh /\ account[p].type = "client" /\ by.type = "partner" /\ Branded(by.owner))
         => /\ by.owner \in Found(p)
            /\ Answers(t, brand[by.owner].domain, by.owner)
  BY <1>2, <1>3, <1>5, ViewedEnters DEF LoginInv, Answers
<1>10. SessionStep /\ ViewStep
  BY <1>1, <1>5, <1>8, <1>9, StepAt DEF LoginInv
<1> QED
  BY <1>1, <1>7, <1>10, CookiesOnly

LEMMA EndViewGood ==
    ASSUME LoginInv, NEW b \in Browsers, EndView(b)
    PROVE  GoodStep
<1> DEFINE u == TokenFor(access[b].view, Nobody)
<1>1. /\ Call("view") /\ stored' = [stored EXCEPT ![b] = NoToken]
      /\ \/ Restorable(stored[b]) /\ access' = [access EXCEPT ![b] = stored[b]]
         \/ /\ InView(b) /\ Active(access[b].view)
            /\ access' = [access EXCEPT ![b] = u]
      /\ UNCHANGED <<portalVars, challenges, links, renewal, trusted>>
  BY DEF EndView
<1>2. renewal' = [renewal EXCEPT ![b] = renewal[b]] /\ renewal[b] \in People \cup {Nobody}
  BY <1>1, LoginKept, TokenFields DEF LoginInv
<1>3. CASE Restorable(stored[b]) /\ access' = [access EXCEPT ![b] = stored[b]]
  <2>1. stored[b] \in Token /\ stored[b].view = Nobody
    BY <1>3, TokenFields DEF LoginInv, Restorable
  <2>2. CookiesOK' /\ SessionStep /\ ViewStep
    BY <1>1, <1>2, <1>3, <2>1, SessionWritten
  <2> QED
    BY <1>1, <2>2, CookiesOnly
<1>4. CASE /\ InView(b) /\ Active(access[b].view)
           /\ access' = [access EXCEPT ![b] = u]
  <2>1. access[b].view \in People
    BY <1>4, TokenFields DEF LoginInv, InView
  <2>2. u \in Token /\ u.view = Nobody /\ u.host = Nobody
    BY <1>4, <2>1, TokenForType DEF LoginInv, Active
  <2> HIDE DEF u
  <2>3. CookiesOK' /\ SessionStep /\ ViewStep
    BY <1>1, <1>2, <1>4, <2>2, SessionWritten
  <2> QED
    BY <1>1, <2>3, CookiesOnly
<1> QED
  BY <1>1, <1>3, <1>4

LEMMA InvitesGood ==
    ASSUME LoginInv, NEW b \in Browsers, NEW p \in People, NEW can \in SUBSET Permission,
           Invites(b, p, can)
    PROVE  GoodStep
<1>1. /\ Call("team") /\ access[b].fresh /\ InviteMember(access[b], p, can)
      /\ links' = links \cup {p} /\ UNCHANGED <<challenges, cookies, trusted>>
  BY DEF Invites, Writes
<1>2. access[b].owner \in People
  BY <1>1, TokenFields DEF LoginInv
<1>3. PortalInv'
  BY <1>1, <1>2, InviteKeeps DEF LoginInv
<1>4. links' \subseteq People /\ trusted' \in [Browsers -> People \cup {Nobody}]
  BY <1>1 DEF LoginInv, RestOK
<1> QED
  BY <1>1, <1>3, <1>4, TablesOnly

\* Steps that write the portal's tables only.
LEMMA PortalOnly ==
    ASSUME LoginInv, NEW op, Call(op), PortalInv', UNCHANGED loginVars
    PROVE  GoodStep
<1>1. UNCHANGED <<challenges, cookies>> /\ links' = links /\ trusted' = trusted
  BY DEF loginVars
<1>2. links' \subseteq People /\ trusted' \in [Browsers -> People \cup {Nobody}]
  BY <1>1 DEF LoginInv, RestOK
<1> QED
  BY <1>1, <1>2, TablesOnly

LEMMA ChangesTeamGood ==
    ASSUME LoginInv, NEW b \in Browsers, NEW p \in People, ChangesTeam(b, p)
    PROVE  GoodStep
<1>1. PortalInv'
  BY TeamKeeps DEF ChangesTeam, LoginInv
<1>2. Call("team") /\ UNCHANGED loginVars
  BY DEF ChangesTeam
<1> QED
  BY <1>1, <1>2, PortalOnly

LEMMA SavesBrandGood ==
    ASSUME LoginInv, NEW b \in Browsers, NEW q \in People, NEW new \in Brand,
           new.domain # NoDomain, SavesBrand(b, q, new)
    PROVE  GoodStep
<1>1. PortalInv'
  BY BrandKeeps DEF SavesBrand, LoginInv
<1>2. Call("brand") /\ UNCHANGED loginVars
  BY DEF SavesBrand
<1> QED
  BY <1>1, <1>2, PortalOnly

LEMMA TogglesGood ==
    ASSUME LoginInv, NEW p \in People, Toggles(p)
    PROVE  GoodStep
<1>1. PortalInv'
  BY ToggleKeeps DEF Toggles, LoginInv
<1>2. Call("toggle") /\ UNCHANGED loginVars
  BY DEF Toggles
<1> QED
  BY <1>1, <1>2, PortalOnly

LEMMA RowsGood ==
    ASSUME LoginInv, NEW p \in People, ChangesRows(p)
    PROVE  GoodStep
<1>1. Nobody \in Row
  BY DEF Row
<1>2. PortalInv'
  BY <1>1, RowsKeep DEF ChangesRows, LoginInv
<1>3. Call("rows") /\ UNCHANGED loginVars
  BY DEF ChangesRows
<1> QED
  BY <1>2, <1>3, PortalOnly

LEMMA RestartsGood ==
    ASSUME LoginInv, Restarts
    PROVE  GoodStep
<1>1. PortalInv'
  BY RestartKeeps DEF Restarts, LoginInv
<1>2. Call("restart") /\ UNCHANGED loginVars
  BY DEF Restarts
<1> QED
  BY <1>1, <1>2, PortalOnly

\* An expired token is the same token, no longer in force; then it is gone.
LEMMA Expired ==
    ASSUME NEW t \in Token \cup {NoToken}, NEW u,
           u = IF t.fresh THEN [t EXCEPT !.fresh = FALSE] ELSE NoToken
    PROVE  /\ u \in Token \cup {NoToken} /\ ~u.fresh
           /\ u # NoToken => t # NoToken /\ u.view = t.view /\ u.user = t.user
           /\ u.view # Nobody => u # NoToken
<1>1. CASE t.fresh
  <2>1. t \in Token
    BY <1>1, NoTokenFields
  <2>2. u \in Token /\ u.fresh = FALSE /\ u.view = t.view /\ u.user = t.user
    BY <1>1, <2>1 DEF Token
  <2> QED
    BY <2>1, <2>2, NoTokenFields
<1>2. CASE ~t.fresh
  BY <1>2, NoTokenFields
<1> QED
  BY <1>1, <1>2

LEMMA ExpiryGood ==
    ASSUME LoginInv, NEW b \in Browsers, Call("time"), UNCHANGED portalVars,
           AccessExpires(b) \/ StoredExpires(b) \/ RenewalExpires(b)
    PROVE  GoodStep
<1>0. /\ access[b] \in Token \cup {NoToken} /\ stored[b] \in Token \cup {NoToken}
      /\ renewal[b] \in People \cup {Nobody}
      /\ access[b].view # Nobody /\ stored[b] # NoToken =>
            stored[b].user = access[b].view /\ stored[b].view = Nobody
  BY TokenFields DEF LoginInv, CookiesOK, OperatorKept
<1>1. CASE AccessExpires(b)
  <2> DEFINE u == IF access[b].fresh THEN [access[b] EXCEPT !.fresh = FALSE] ELSE NoToken
             s == stored[b]
             r == renewal[b]
  <2>1. /\ access' = [access EXCEPT ![b] = u]
        /\ UNCHANGED <<challenges, links, stored, renewal, trusted>>
    BY <1>1 DEF AccessExpires
  <2>2. /\ u \in Token \cup {NoToken} /\ ~u.fresh
        /\ u # NoToken => access[b] # NoToken /\ u.view = access[b].view /\ u.user = access[b].user
        /\ u.view # Nobody => u # NoToken
    BY <1>0, Expired
  <2>3. stored' = [stored EXCEPT ![b] = s] /\ renewal' = [renewal EXCEPT ![b] = r]
    BY <2>1, LoginKept DEF LoginInv
  <2>4. s \in Token \cup {NoToken} /\ r \in People \cup {Nobody}
    BY <1>0
  <2>5. u.view # Nobody /\ s # NoToken => s.user = u.view /\ s.view = Nobody
    BY <1>0, <2>2
  <2> HIDE DEF u, s, r
  <2>6. CookiesOK'
    BY <2>1, <2>2, <2>3, <2>4, <2>5, CookiesWritten DEF LoginInv
  <2>7. SessionStep /\ ViewStep
    BY <2>1, <2>2, StepAt DEF LoginInv
  <2> QED
    BY <2>1, <2>6, <2>7, CookiesOnly
<1>2. CASE StoredExpires(b)
  <2> DEFINE u == IF stored[b].fresh THEN [stored[b] EXCEPT !.fresh = FALSE] ELSE NoToken
             t == access[b]
             r == renewal[b]
  <2>1. /\ stored' = [stored EXCEPT ![b] = u]
        /\ UNCHANGED <<challenges, links, access, renewal, trusted>>
    BY <1>2 DEF StoredExpires
  <2>2. /\ u \in Token \cup {NoToken}
        /\ u # NoToken => stored[b] # NoToken /\ u.view = stored[b].view /\ u.user = stored[b].user
    BY <1>0, Expired
  <2>3. access' = [access EXCEPT ![b] = t] /\ renewal' = [renewal EXCEPT ![b] = r]
    BY <2>1, LoginKept DEF LoginInv
  <2>4. t \in Token \cup {NoToken} /\ r \in People \cup {Nobody}
    BY <1>0
  <2>5. t.view # Nobody /\ u # NoToken => u.user = t.view /\ u.view = Nobody
    BY <1>0, <2>2
  <2> HIDE DEF u, t, r
  <2>6. CookiesOK'
    <3>1. stored' = [stored EXCEPT ![b] = u] /\ u \in Token \cup {NoToken}
      BY <2>1, <2>2
    <3> QED
      BY <2>3, <2>4, <2>5, <3>1, CookiesWritten DEF LoginInv
  <2>7. SessionStep /\ ViewStep
    BY <2>1, StepSame
  <2> QED
    BY <2>1, <2>6, <2>7, CookiesOnly
<1>3. CASE RenewalExpires(b)
  <2>1. /\ renewal' = [renewal EXCEPT ![b] = Nobody]
        /\ UNCHANGED <<challenges, links, access, stored, trusted>>
    BY <1>3 DEF RenewalExpires
  <2>2. CookiesOK'
    BY <2>1 DEF LoginInv, CookiesOK, OperatorKept
  <2>3. SessionStep /\ ViewStep
    BY <2>1, StepSame
  <2> QED
    BY <2>1, <2>2, <2>3, CookiesOnly
<1> QED
  BY <1>1, <1>2, <1>3

LEMMA TimeGood ==
    ASSUME LoginInv, Time
    PROVE  GoodStep
<1>0. Call("time") /\ UNCHANGED portalVars
  BY DEF Time
<1>1. ASSUME NEW c \in DOMAIN challenges, CodeExpires(c)
      PROVE  GoodStep
  <2>1. UNCHANGED <<links, cookies, trusted>>
    BY <1>1 DEF CodeExpires
  <2>2. CodesOK'
    BY <1>1, CodeExpiresKeeps DEF LoginInv
  <2> QED
    BY <1>0, <2>1, <2>2, CodesOnly
<1>2. ASSUME NEW p \in People, LinkExpires(p)
      PROVE  GoodStep
  <2>1. /\ links' \subseteq People /\ trusted' \in [Browsers -> People \cup {Nobody}]
        /\ UNCHANGED <<challenges, cookies>> /\ PortalInv'
    BY <1>0, <1>2, PortalSame DEF LinkExpires, LoginInv, RestOK
  <2> QED
    BY <1>0, <2>1, TablesOnly
<1>3. ASSUME NEW b \in Browsers, DeviceExpires(b)
      PROVE  GoodStep
  <2>1. /\ links' \subseteq People /\ trusted' \in [Browsers -> People \cup {Nobody}]
        /\ UNCHANGED <<challenges, cookies>> /\ PortalInv'
    BY <1>0, <1>3, PortalSame DEF DeviceExpires, LoginInv, RestOK
  <2> QED
    BY <1>0, <2>1, TablesOnly
<1>4. ASSUME NEW b \in Browsers, AccessExpires(b) \/ StoredExpires(b) \/ RenewalExpires(b)
      PROVE  GoodStep
  BY <1>0, <1>4, ExpiryGood
<1> QED
  BY <1>1, <1>2, <1>3, <1>4 DEF Time

-----------------------------------------------------------------------------
(* The theorems.                                                           *)

LEMMA LoginInvInit ==
    ASSUME SoundScenes, LoginInit
    PROVE  LoginInv
<1> PICK w \in Scenes :
        /\ handlers = w.handlers /\ account = w.account /\ team = w.team /\ brand = w.brand
        /\ renewal = w.signedIn /\ callsLeft = w.callsLeft
  BY DEF LoginInit
<1>1. /\ w.handlers \subseteq AllCalls
      /\ w.account \in [People -> Account] /\ w.team \in [People -> Membership]
      /\ w.brand \in [People -> Brand]
      /\ w.signedIn \in [Browsers -> People \cup {Nobody}]
      /\ w.callsLeft \in 0..MaxLoginCalls
  BY ScenesAssumption
<1>2. /\ origins = LiveDomains(brand) /\ challenges = <<>> /\ links = {}
      /\ access = [b \in Browsers |-> IF renewal[b] = Nobody THEN NoToken
                                     ELSE TokenFor(renewal[b], FirstHome(Subject(renewal[b])))]
      /\ stored = [b \in Browsers |-> NoToken]
      /\ trusted = [b \in Browsers |-> Nobody]
  BY DEF LoginInit
<1>3. UsersOK
  BY <1>1 DEF UsersOK, SoundScenes
<1>4. TeamOK
  BY <1>1 DEF TeamOK, SoundScenes
<1>5. BrandOK
  BY <1>1, <1>2 DEF BrandOK, SoundScenes, OriginsAreLive
<1>6. PortalInv
  BY <1>3, <1>4, <1>5 DEF PortalInv
<1>7. CodesOK
  BY <1>2, EmptySeq, LimitsAssumption DEF CodesOK
<1>8. ASSUME NEW b \in Browsers
      PROVE  access[b] \in Token \cup {NoToken} /\ access[b].view = Nobody
  <2>1. CASE renewal[b] = Nobody
    BY <1>2, <2>1, NoTokenFields
  <2>2. CASE renewal[b] # Nobody
    <3>1. renewal[b] \in People /\ Exists(renewal[b])
      BY <1>1, <2>2 DEF SoundScenes, Exists
    <3>2. FirstHome(Subject(renewal[b])) \in Hosts
      <4> DEFINE o == Subject(renewal[b])
                 row == CHOOSE r \in Found(o) : TRUE
      <4>1. o \in People
        BY <1>6, <3>1, SubjectType
      <4>2. row \in Found(o) /\ row \in Row
        BY <1>6, <4>1, FoundRows
      <4> HIDE DEF o, row
      <4>3. Home(o, row) \in Hosts
        BY <1>6, <4>1, <4>2, AccountFields DEF Home, PartnerOf, Hosts, Branded, Row
      <4> QED
        BY <4>3 DEF FirstHome, o, row
    <3> QED
      BY <1>2, <1>6, <2>2, <3>1, <3>2, TokenForType
  <2> QED
    BY <2>1, <2>2
<1>9. CookiesOK
  BY <1>1, <1>2, <1>8 DEF CookiesOK, OperatorKept
<1>10. RestOK
  BY <1>1, <1>2 DEF RestOK
<1> QED
  BY <1>6, <1>7, <1>9, <1>10 DEF LoginInv

LEMMA NextGood ==
    ASSUME LoginInv, LoginNext
    PROVE  GoodStep
<1>1. ASSUME NEW b \in Browsers, InBrowser(b)
      PROVE  GoodStep
  <2>1. ASSUME NEW p \in People, NEW host \in Hosts, SignIn(b, p, host)
        PROVE  GoodStep
    BY <2>1, SignInKeeps
  <2>2. ASSUME NEW c \in DOMAIN challenges, NEW host \in Hosts, Verify(b, c, host)
        PROVE  GoodStep
    BY <2>2, VerifyGood
  <2>3. CASE TrustDevice(b) \/ Logout(b) \/ EndView(b)
    BY <2>3, TrustGood, LogoutGood, EndViewGood
  <2>4. ASSUME NEW host \in Hosts, Refresh(b, host)
        PROVE  GoodStep
    BY <2>4, RefreshGood
  <2>5. ASSUME NEW p \in People, ChangePassword(b, p) \/ View(b, p) \/ ChangesTeam(b, p)
        PROVE  GoodStep
    BY <2>5, PasswordGood, ViewGood, ChangesTeamGood
  <2>6. ASSUME NEW p \in People, NEW can \in SUBSET Permission, Invites(b, p, can)
        PROVE  GoodStep
    BY <2>6, InvitesGood
  <2>7. ASSUME NEW q \in People, NEW new \in Brand, new.domain # NoDomain, SavesBrand(b, q, new)
        PROVE  GoodStep
    BY <2>7, SavesBrandGood
  <2> QED
    BY <1>1, <2>1, <2>2, <2>3, <2>4, <2>5, <2>6, <2>7 DEF InBrowser
<1>2. ASSUME NEW c \in DOMAIN challenges,
             VerifyWrong(c) \/ \E sent \in BOOLEAN : Resend(c, sent)
      PROVE  GoodStep
  BY <1>2, GuessGood
<1>3. ASSUME NEW p \in People,
             ForgotPassword(p) \/ ResetPassword(p) \/ Toggles(p) \/ ChangesRows(p)
      PROVE  GoodStep
  BY <1>3, PasswordGood, TogglesGood, RowsGood
<1>4. CASE Restarts \/ Time
  BY <1>4, RestartsGood, TimeGood
<1> QED
  BY <1>1, <1>2, <1>3, <1>4 DEF LoginNext

LEMMA StutterGood ==
    ASSUME LoginInv, UNCHANGED allVars
    PROVE  LoginInv'
<1>1. UNCHANGED <<portalVars, challenges, cookies, links, trusted, handlers, callsLeft>>
  BY DEF allVars, loginVars
<1>2. PortalInv' /\ CodesOK' /\ CookiesOK'
  BY <1>1, PortalSame, CodesSame, CookiesSame DEF LoginInv
<1> QED
  BY <1>1, <1>2 DEF LoginInv, RestOK

\* Every state has LoginInv: account types are fixed once given, domains are of one
\* brand, challenges count their uses, a view keeps its operator.
LEMMA LoginInvariant ==
    ASSUME SoundScenes
    PROVE  LoginSpec => []LoginInv
<1>1. LoginInit => LoginInv
  BY LoginInvInit
<1>2. LoginInv /\ [LoginNext]_allVars => LoginInv'
  BY NextGood, StutterGood DEF GoodStep
<1> QED
  BY <1>1, <1>2, PTL DEF LoginSpec

\* The rows, codes, cookies and links keep their types.
THEOREM SessionsTypeCorrect ==
    ASSUME SoundScenes
    PROVE  LoginSpec => []LoginTypeOK
<1>1. LoginInv => LoginTypeOK
  BY LoginInvTypeOK
<1> QED
  BY <1>1, LoginInvariant, PTL

\* The door (tenant-access) and the links of the e-mails (branding) agree on the portal
\* of every account, whatever invitations, brands and switches came before.
THEOREM OnePortalForEach ==
    ASSUME SoundScenes
    PROVE  LoginSpec => []OnePortal
<1>1. LoginInv => OnePortal
  BY OnePortalHolds DEF LoginInv
<1> QED
  BY <1>1, LoginInvariant, PTL

\* The server lets no origin in whose brand was switched off or moved.
THEOREM OriginsFollowBrands ==
    ASSUME SoundScenes
    PROVE  LoginSpec => []OriginsAreLive
<1>1. LoginInv => OriginsAreLive
  BY DEF LoginInv, PortalInv, BrandOK
<1> QED
  BY <1>1, LoginInvariant, PTL

\* A code begins one session, is guessed at MaxAttempts times, and is void after the
\* next sign-in.
THEOREM CodesAreWorthOneSession ==
    ASSUME SoundScenes
    PROVE  LoginSpec => []OneCode
<1>1. LoginInv => OneCode
  BY OneCodeHolds DEF LoginInv
<1> QED
  BY <1>1, LoginInvariant, PTL

\* The token kept beside a view is its operator's.
THEOREM ViewsKeepTheirOperator ==
    ASSUME SoundScenes
    PROVE  LoginSpec => []OperatorKept
<1>1. LoginInv => OperatorKept
  BY DEF LoginInv, CookiesOK
<1> QED
  BY <1>1, LoginInvariant, PTL

\* A session issued or renewed through a portal is of an account of that portal, as the
\* rows are at that moment.
THEOREM SessionsFitTheirPortal ==
    ASSUME SoundScenes
    PROVE  LoginSpec => SessionsFit
<1>1. LoginInv /\ [LoginNext]_allVars => [SessionStep]_allVars
  BY NextGood DEF GoodStep
<1> QED
  BY <1>1, LoginInvariant, PTL DEF LoginSpec, SessionsFit, SessionStep

\* A view that a partner opens answers at his own portal, by the row of his client.
THEOREM ViewsOpenAtHome ==
    ASSUME SoundScenes
    PROVE  LoginSpec => ViewsOpen
<1>1. LoginInv /\ [LoginNext]_allVars => [ViewStep]_allVars
  BY NextGood DEF GoodStep
<1> QED
  BY <1>1, LoginInvariant, PTL DEF LoginSpec, ViewsOpen, ViewStep

-----------------------------------------------------------------------------
(***************************************************************************)
(* Part II: Directory, whatever handlers run.  It is well typed,           *)
(* an active administrator remains, no partner has two clients with one    *)
(* mailbox, and a client's only row and his account have the same one.     *)
(*                                                                         *)
(* Types hold wherever the handlers stop.  Where no handler stores the     *)
(* status and the type it is sent, only toggleUser and updateStaff take an *)
(* administrator away, and each leaves another one.  The other two are     *)
(* about worlds without the handlers that break them as well; each has its *)
(* own part below, with the argument before it.                            *)
(***************************************************************************)

\* What the later commits of a handler work on exists.
TaskOK ==
    /\ task.pc \in {"mirror", "rows", "row"} => task.user \in Ids
    /\ task.pc \in {"sync", "invite", "link"} => task.client \in DOMAIN clients
    /\ task.pc = "rows" => task.rows \subseteq DOMAIN clients
    /\ task.pc = "row" => ClientRoom

TypeInv == TypeOK /\ TaskOK

\* What each step does to the accounts, to the clients and to the handler.
StillAdmin == (ops \cap Unguarded = {} /\ LastAdminIsKept) => LastAdminIsKept'

UserStep ==
    /\ users' \in Seq(User) /\ Len(users) <= Len(users') /\ Len(users') <= MaxUsers
    /\ StillAdmin

ClientStep ==
    clients' \in Seq(Client) /\ Len(clients) <= Len(clients') /\ Len(clients') <= MaxClients

TaskStep == task' \in Task /\ TaskOK'

Kept == TypeInv' /\ StillAdmin

-----------------------------------------------------------------------------
LEMMA Intervals == \A m, n \in Nat : 1..m = 1..n => m = n
<1> SUFFICES ASSUME NEW m \in Nat, NEW n \in Nat, 1..m = 1..n, m < n PROVE FALSE
  OBVIOUS
<1>1. n \in 1..n /\ n \notin 1..m
  OBVIOUS
<1> QED
  BY <1>1

LEMMA Basics ==
    ASSUME TypeInv
    PROVE  /\ users \in Seq(User) /\ clients \in Seq(Client)
           /\ Len(users) \in 0..MaxUsers /\ Len(clients) \in 0..MaxClients
           /\ Ids = 1..Len(users) /\ DOMAIN clients = 1..Len(clients)
           /\ Ids \subseteq UserId /\ DOMAIN clients \subseteq 0..MaxClients
           /\ \A u \in Ids : users[u] \in User
           /\ \A c \in DOMAIN clients : clients[c] \in Client
           /\ RowIds \subseteq DOMAIN clients
           /\ Scopes \subseteq UserId
<1>1. users \in Seq(User) /\ clients \in Seq(Client)
  BY DEF TypeInv, TypeOK
<1>2. /\ Len(users) \in Nat /\ users \in [1..Len(users) -> User] /\ Ids = 1..Len(users)
      /\ Len(clients) \in Nat /\ clients \in [1..Len(clients) -> Client]
      /\ DOMAIN clients = 1..Len(clients)
  BY <1>1, LenProperties DEF Ids
<1>3. Len(users) \in 0..MaxUsers /\ Len(clients) \in 0..MaxClients
  <2>1. Len(users) <= MaxUsers /\ Len(clients) <= MaxClients
    BY DEF TypeInv, TypeOK
  <2> QED
    BY <1>2, <2>1, BoundsAssumption
<1>4. Ids \subseteq UserId /\ DOMAIN clients \subseteq 0..MaxClients
  BY <1>2, <1>3, BoundsAssumption DEF UserId
<1>5. Scopes \subseteq UserId
  <2>1. 0 \in UserId
    BY BoundsAssumption DEF UserId
  <2>2. Partners \subseteq Ids
    BY DEF Partners
  <2> QED
    BY <1>4, <2>1, <2>2 DEF Scopes
<1>6. RowIds \subseteq DOMAIN clients
  BY DEF RowIds
<1> QED
  BY <1>1, <1>2, <1>3, <1>4, <1>5, <1>6

LEMMA IdleType == Idle \in Task /\ Idle.pc = "idle"
BY BoundsAssumption DEF Idle, Task, Pc, UserId

LEMMA PlainType == \A e \in Email : Plain(e) \in Email
BY DEF Plain, Email

LEMMA NewUserType ==
    ASSUME NEW type \in Type, NEW e \in Email
    PROVE  NewUser(type, e) \in User
BY DEF NewUser, User

LEMMA NewClientType ==
    ASSUME NEW partner \in UserId, NEW user \in UserId, NEW e \in Email
    PROVE  NewClient(partner, user, e) \in Client
BY DEF NewClient, Client

LEMMA UsersSame == ASSUME TypeInv, users' = users PROVE UserStep
BY Basics DEF UserStep, StillAdmin, LastAdminIsKept, Ids, TypeInv, TypeOK

LEMMA ClientsSame == ASSUME TypeInv, clients' = clients PROVE ClientStep
BY Basics DEF ClientStep, TypeInv, TypeOK

LEMMA UserChanged ==
    ASSUME TypeInv, NEW u \in Ids, NEW r \in User, users' = [users EXCEPT ![u] = r],
           (ops \cap Unguarded = {} /\ users[u].type = "admin" /\ users[u].active)
              => (r.type = "admin" /\ r.active) \/ OtherAdmins(u) # {}
    PROVE  UserStep
<1>1. /\ users' \in Seq(User) /\ Len(users') = Len(users)
      /\ \A j \in 1..Len(users) : users'[j] = IF j = u THEN r ELSE users[j]
  BY Basics, ExceptSeq
<1>2. Ids' = Ids
  BY <1>1, Basics, LenProperties DEF Ids
<1>3. ASSUME ops \cap Unguarded = {}, LastAdminIsKept PROVE LastAdminIsKept'
  <2>1. PICK v \in Ids : users[v].type = "admin" /\ users[v].active
    BY <1>3 DEF LastAdminIsKept
  <2>2. CASE v # u
    BY <1>1, <1>2, <2>1, <2>2, Basics DEF LastAdminIsKept
  <2>3. CASE v = u
    <3>1. CASE r.type = "admin" /\ r.active
      BY <1>1, <1>2, <3>1, Basics DEF LastAdminIsKept
    <3>2. CASE OtherAdmins(u) # {}
      <4>1. PICK x \in Ids \ {u} : users[x].type = "admin" /\ users[x].active
        BY <3>2 DEF OtherAdmins
      <4> QED
        BY <1>1, <1>2, <4>1, Basics DEF LastAdminIsKept
    <3> QED
      BY <1>3, <2>1, <2>3, <3>1, <3>2
  <2> QED
    BY <2>2, <2>3
<1> QED
  BY <1>1, <1>3, Basics DEF UserStep, StillAdmin

LEMMA UserAdded ==
    ASSUME TypeInv, NEW r \in User, UserRoom, AddUser(r)
    PROVE  UserStep /\ Ids' = Ids \cup {Len(users) + 1} /\ users'[Len(users) + 1] = r
<1>1. users' = Append(users, r) /\ Len(users) < MaxUsers
  BY DEF AddUser, UserRoom
<1>2. /\ users' \in Seq(User) /\ Len(users') = Len(users) + 1
      /\ \A j \in 1..Len(users) : users'[j] = users[j]
      /\ users'[Len(users) + 1] = r
  BY <1>1, Basics
<1>3. Ids' = 1..(Len(users) + 1)
  BY <1>2, LenProperties DEF Ids
<1>4. Ids' = Ids \cup {Len(users) + 1}
  BY <1>3, Basics
<1>5. StillAdmin
  BY <1>2, <1>4, Basics DEF StillAdmin, LastAdminIsKept
<1>6. Len(users) <= Len(users') /\ Len(users') <= MaxUsers
  BY <1>1, <1>2, Basics, BoundsAssumption
<1> QED
  BY <1>2, <1>4, <1>5, <1>6 DEF UserStep

LEMMA ClientChanged ==
    ASSUME TypeInv, NEW c \in DOMAIN clients, NEW r \in Client,
           clients' = [clients EXCEPT ![c] = r]
    PROVE  ClientStep /\ DOMAIN clients' = DOMAIN clients
<1>1. clients' \in Seq(Client) /\ Len(clients') = Len(clients)
  BY Basics, ExceptSeq
<1> QED
  BY <1>1, Basics, LenProperties DEF ClientStep

LEMMA ClientAdded ==
    ASSUME TypeInv, NEW r \in Client, ClientRoom, AddClient(r)
    PROVE  ClientStep /\ DOMAIN clients' = DOMAIN clients \cup {Len(clients) + 1}
<1>1. clients' = Append(clients, r) /\ Len(clients) < MaxClients
  BY DEF AddClient, ClientRoom
<1>2. clients' \in Seq(Client) /\ Len(clients') = Len(clients) + 1
  BY <1>1, Basics
<1>3. DOMAIN clients' = 1..(Len(clients) + 1)
  BY <1>2, LenProperties
<1>4. DOMAIN clients' = DOMAIN clients \cup {Len(clients) + 1}
  BY <1>3, Basics
<1>5. Len(clients) <= Len(clients') /\ Len(clients') <= MaxClients
  BY <1>1, <1>2, Basics, BoundsAssumption
<1> QED
  BY <1>2, <1>4, <1>5 DEF ClientStep

LEMMA TaskIdle == ASSUME task' = Idle PROVE TaskStep
BY IdleType DEF TaskStep, TaskOK

LEMMA BeginsFacts ==
    ASSUME TypeInv, NEW op, Begins(op)
    PROVE  task = Idle /\ ops' = ops /\ calls' \in 0..MaxCalls
BY BoundsAssumption DEF Begins, TypeInv, TypeOK

LEMMA AtFacts ==
    ASSUME TypeInv, NEW pc, At(pc)
    PROVE  task.pc = pc /\ ops' = ops /\ calls' \in 0..MaxCalls
BY DEF At, TypeInv, TypeOK

LEMMA Together ==
    ASSUME TypeInv, UserStep, ClientStep, TaskStep, ops' = ops, calls' \in 0..MaxCalls
    PROVE  Kept
BY DEF Kept, TypeInv, TypeOK, UserStep, ClientStep, TaskStep

-----------------------------------------------------------------------------
(* Accounts *)

LEMMA UserFields ==
    ASSUME NEW r \in User
    PROVE  /\ r.type \in Type /\ r.email \in Email /\ r.active \in BOOLEAN
           /\ \A e \in Email : [r EXCEPT !.email = e] \in User
                 /\ [r EXCEPT !.email = e].type = r.type
                 /\ [r EXCEPT !.email = e].active = r.active
BY DEF User

\* A handler of one statement that writes an account.
LEMMA AccountCall ==
    ASSUME TypeInv, NEW op, Begins(op), UserStep, UNCHANGED <<clients, task>>
    PROVE  Kept
<1>1. task = Idle /\ ops' = ops /\ calls' \in 0..MaxCalls
  BY BeginsFacts
<1>2. TaskStep
  BY <1>1, TaskIdle
<1> QED
  BY <1>1, <1>2, ClientsSame, Together

LEMMA CreateUserKeeps ==
    ASSUME TypeInv, NEW type \in Type, NEW e \in Email, CreateUser(type, e)
    PROVE  Kept
<1>1. UserStep
  BY NewUserType, UserAdded DEF CreateUser
<1> QED
  BY <1>1, AccountCall DEF CreateUser

LEMMA ToggleUserKeeps ==
    ASSUME TypeInv, NEW actor, NEW u \in Ids, ToggleUser(actor, u)
    PROVE  Kept
<1> DEFINE r == [users[u] EXCEPT !.active = ~@]
<1>1. users[u] \in User
  BY Basics
<1>2. r \in User
  BY <1>1 DEF User
<1>3. users' = [users EXCEPT ![u] = r]
  BY DEF ToggleUser
<1>4. (users[u].type = "admin" /\ users[u].active) => OtherAdmins(u) # {}
  BY DEF ToggleUser
<1> HIDE DEF r
<1>5. UserStep
  BY <1>2, <1>3, <1>4, UserChanged
<1> QED
  BY <1>5, AccountCall DEF ToggleUser

LEMMA UpdateStaffKeeps ==
    ASSUME TypeInv, NEW u \in Ids, NEW type \in {"admin", "user"}, UpdateStaff(u, type)
    PROVE  Kept
<1> DEFINE r == [users[u] EXCEPT !.type = type]
<1>1. users[u] \in User
  BY Basics
<1>2. r \in User /\ r.type = type /\ r.active = users[u].active
  BY <1>1 DEF User, Type
<1>3. users' = [users EXCEPT ![u] = r]
  BY DEF UpdateStaff
<1>4. (users[u].type = "admin" /\ type = "user") => OtherAdmins(u) # {}
  BY DEF UpdateStaff
<1> HIDE DEF r
<1>5. UserStep
  BY <1>2, <1>3, <1>4, UserChanged
<1> QED
  BY <1>5, AccountCall DEF UpdateStaff

LEMMA SentKeeps ==
    ASSUME TypeInv, NEW u \in Ids, NEW e \in Email, NEW type \in Type, NEW active \in BOOLEAN,
           UpdateUserById(u, e, type, active) \/ UpdateCurrentUser(u, type, active)
    PROVE  Kept
<1>1. users[u] \in User
  BY Basics
<1>2. ops \cap Unguarded # {}
  BY DEF UpdateUserById, UpdateCurrentUser, Begins, Unguarded
<1>3. CASE UpdateUserById(u, e, type, active)
  <2> DEFINE r == [users[u] EXCEPT !.email = e, !.type = type, !.active = active]
  <2>1. users' = [users EXCEPT ![u] = r]
    BY <1>3 DEF UpdateUserById
  <2>2. r \in User
    BY <1>1 DEF User
  <2> HIDE DEF r
  <2>3. UserStep
    BY <1>2, <2>1, <2>2, UserChanged
  <2> QED
    BY <1>3, <2>3, AccountCall DEF UpdateUserById
<1>4. CASE UpdateCurrentUser(u, type, active)
  <2> DEFINE r == [users[u] EXCEPT !.type = type, !.active = active]
  <2>1. users' = [users EXCEPT ![u] = r]
    BY <1>4 DEF UpdateCurrentUser
  <2>2. r \in User
    BY <1>1 DEF User
  <2> HIDE DEF r
  <2>3. UserStep
    BY <1>2, <2>1, <2>2, UserChanged
  <2> QED
    BY <1>4, <2>3, AccountCall DEF UpdateCurrentUser
<1> QED
  BY <1>3, <1>4

LEMMA RequestEmailChangeKeeps ==
    ASSUME TypeInv, NEW u \in Ids, NEW e \in Email, RequestEmailChange(u, e)
    PROVE  Kept
<1> DEFINE r == [users[u] EXCEPT !.change = {e}, !.code = FALSE]
<1>1. users' = [users EXCEPT ![u] = r]
  BY DEF RequestEmailChange
<1>2. r \in User /\ r.type = users[u].type /\ r.active = users[u].active
  BY Basics DEF User
<1> HIDE DEF r
<1>3. UserStep
  BY <1>1, <1>2, UserChanged
<1> QED
  BY <1>3, AccountCall DEF RequestEmailChange

LEMMA ConfirmEmailChangeKeeps ==
    ASSUME TypeInv, NEW u \in Ids, NEW e \in Email, ConfirmEmailChange(u, e)
    PROVE  Kept
<1> DEFINE r == [users[u] EXCEPT !.email = e, !.change = {}]
<1>1. users[u] \in User
  BY Basics
<1>2. users' = [users EXCEPT ![u] = r]
  BY DEF ConfirmEmailChange
<1>3. r \in User /\ r.type = users[u].type /\ r.active = users[u].active
  BY <1>1 DEF User
<1> HIDE DEF r
<1>4. UserStep
  BY <1>2, <1>3, UserChanged
<1>5. task' = [Idle EXCEPT !.pc = "mirror", !.user = u]
  BY DEF ConfirmEmailChange
<1>6. task' \in Task /\ task'.pc = "mirror" /\ task'.user = u
  BY <1>5, IdleType, Basics DEF Task, Pc
<1>7. u \in Ids'
  BY <1>2 DEF Ids
<1>8. TaskStep
  BY <1>6, <1>7 DEF TaskStep, TaskOK
<1>9. ops' = ops /\ calls' \in 0..MaxCalls /\ clients' = clients
  BY BeginsFacts DEF ConfirmEmailChange
<1> QED
  BY <1>4, <1>8, <1>9, ClientsSame, Together

LEMMA ConfirmEmailKeeps ==
    ASSUME TypeInv, NEW u \in Ids, ConfirmEmail(u)
    PROVE  Kept
<1> DEFINE r == [users[u] EXCEPT !.verified = TRUE, !.code = FALSE]
<1>1. users[u] \in User
  BY Basics
<1>2. users' = [users EXCEPT ![u] = r]
  BY DEF ConfirmEmail
<1>3. r \in User /\ r.type = users[u].type /\ r.active = users[u].active
  BY <1>1 DEF User
<1> HIDE DEF r
<1>4. UserStep
  BY <1>2, <1>3, UserChanged
<1> QED
  BY <1>4, AccountCall DEF ConfirmEmail

LEMMA ConvertKeeps ==
    ASSUME TypeInv, NEW id, NEW userOnly \in BOOLEAN, ConvertToPartner(id, userOnly)
    PROVE  Kept
<1>1. PICK u \in Ids : users[u].type = "client" /\ users' = [users EXCEPT ![u].type = "partner"]
  BY DEF ConvertToPartner, Portal
<1> DEFINE r == [users[u] EXCEPT !.type = "partner"]
<1>2. r \in User
  BY Basics DEF User, Type
<1>3. users' = [users EXCEPT ![u] = r]
  BY <1>1
<1> HIDE DEF r
<1>4. UserStep
  BY <1>1, <1>2, <1>3, UserChanged
<1> QED
  BY <1>4, AccountCall DEF ConvertToPartner

\* A client's account gets an address and a status.
LEMMA PortalChanged ==
    ASSUME TypeInv, NEW u, Portal(u), NEW e \in Email, NEW active \in BOOLEAN,
           users' = [users EXCEPT ![u].email = e, ![u].active = active]
    PROVE  UserStep /\ Ids' = Ids
<1> DEFINE r == [users[u] EXCEPT !.email = e, !.active = active]
<1>1. u \in Ids /\ users[u] \in User /\ users[u].type = "client"
  BY Basics DEF Portal
<1>2. users' = [users EXCEPT ![u] = r]
  BY <1>1
<1>3. r \in User
  BY <1>1 DEF User
<1> HIDE DEF r
<1> QED
  BY <1>1, <1>2, <1>3, UserChanged DEF Ids

LEMMA SyncKeeps == ASSUME TypeInv, Sync PROVE Kept
<1> DEFINE u == task.user
           e == IF task.renames THEN clients[task.client].email ELSE users[u].email
<1>1. task.pc = "sync" /\ ops' = ops /\ calls' \in 0..MaxCalls
  BY AtFacts DEF Sync
<1>2. task.client \in DOMAIN clients /\ task.active \in BOOLEAN
  BY <1>1 DEF TypeInv, TypeOK, TaskOK, Task
<1>3. UserStep
  <2>1. CASE users' = users
    BY <2>1, UsersSame
  <2>2. CASE Portal(u) /\ users' = [users EXCEPT ![u].email = e, ![u].active = task.active]
    <3>1. e \in Email
      BY <1>2, <2>2, Basics DEF Portal, User, Client
    <3> QED
      BY <1>2, <2>2, <3>1, PortalChanged
  <2> QED
    BY <2>1, <2>2 DEF Sync
<1>4. clients' = clients /\ task' = Idle
  BY DEF Sync, Done
<1> QED
  BY <1>1, <1>3, <1>4, ClientsSame, TaskIdle, Together

LEMMA UpdateUserOnlyKeeps ==
    ASSUME TypeInv, NEW u \in Ids, NEW e \in Email, NEW active \in BOOLEAN,
           UpdateUserOnly(u, e, active)
    PROVE  Kept
<1> DEFINE now == IF e.box # users[u].email.box THEN Plain(e) ELSE users[u].email
<1>1. now \in Email
  BY Basics, PlainType DEF User
<1>2. users' = [users EXCEPT ![u].email = now, ![u].active = active] /\ Portal(u)
  BY DEF UpdateUserOnly
<1> HIDE DEF now
<1>3. UserStep /\ Ids' = Ids
  BY <1>1, <1>2, PortalChanged
<1>4. /\ ops' = ops /\ calls' \in 0..MaxCalls /\ clients' = clients
      /\ task' \in {Idle, [Idle EXCEPT !.pc = "rows", !.user = u, !.rows = Linked(u),
                                       !.active = active]}
  BY BeginsFacts DEF UpdateUserOnly
<1>5. Linked(u) \in SUBSET RowIds
  BY DEF Linked
<1>6. TaskStep
  <2>1. CASE task' = Idle
    BY <2>1, TaskIdle
  <2>2. CASE task' = [Idle EXCEPT !.pc = "rows", !.user = u, !.rows = Linked(u),
                                  !.active = active]
    <3>1. Linked(u) \in SUBSET (1..MaxClients)
      BY <1>5, Basics, BoundsAssumption
    <3>2. /\ task' \in Task /\ task'.pc = "rows" /\ task'.user = u
          /\ task'.rows = Linked(u)
      BY <2>2, <3>1, IdleType, Basics DEF Task, Pc
    <3> QED
      BY <1>3, <1>4, <1>5, <3>2, Basics DEF TaskStep, TaskOK
  <2> QED
    BY <1>4, <2>1, <2>2
<1> QED
  BY <1>3, <1>4, <1>6, ClientsSame, Together

-----------------------------------------------------------------------------
(* Clients *)

LEMMA MirrorKeeps == ASSUME TypeInv, Mirror PROVE Kept
<1>1. task.pc = "mirror" /\ ops' = ops /\ calls' \in 0..MaxCalls
  BY AtFacts DEF Mirror
<1>2. users[task.user].email \in Email
  BY <1>1, Basics, UserFields DEF TypeInv, TaskOK
<1>3. ClientStep
  <2>1. CASE clients' = clients
    BY <2>1, ClientsSame
  <2>2. CASE \E c \in Linked(task.user) :
                clients' = [clients EXCEPT ![c].email = users[task.user].email]
    <3>1. PICK c \in RowIds : clients' = [clients EXCEPT ![c].email = users[task.user].email]
      BY <2>2 DEF Linked
    <3> DEFINE r == [clients[c] EXCEPT !.email = users[task.user].email]
    <3>2. c \in DOMAIN clients /\ clients[c] \in Client
      BY Basics
    <3>3. r \in Client
      BY <1>2, <3>2 DEF Client
    <3>4. clients' = [clients EXCEPT ![c] = r]
      BY <3>1
    <3> HIDE DEF r
    <3> QED
      BY <3>2, <3>3, <3>4, ClientChanged
  <2> QED
    BY <2>1, <2>2 DEF Mirror
<1>4. users' = users /\ task' = Idle
  BY DEF Mirror, Done
<1> QED
  BY <1>1, <1>3, <1>4, UsersSame, TaskIdle, Together

LEMMA CreateClientKeeps ==
    ASSUME TypeInv, NEW scope \in Scopes, NEW partner \in Scopes, NEW e \in Email,
           NEW invites \in BOOLEAN, CreateClient(scope, partner, e, invites)
    PROVE  Kept
<1> DEFINE final == IF scope # 0 THEN scope ELSE partner
           r == NewClient(final, 0, Plain(e))
<1>1. final \in UserId /\ scope \in UserId /\ 0 \in UserId
  BY Basics, BoundsAssumption DEF UserId
<1>2. ClientRoom /\ AddClient(r)
  BY DEF CreateClient
<1>3. r \in Client
  BY <1>1, PlainType, NewClientType
<1>4. task' = IF invites /\ final # 0
              THEN [Idle EXCEPT !.pc = "invite", !.client = Len(clients) + 1, !.scope = scope]
              ELSE Idle
  BY DEF CreateClient
<1>5. users' = users /\ ops' = ops /\ calls' \in 0..MaxCalls
  BY BeginsFacts DEF CreateClient
<1> HIDE DEF final, r
<1>6. ClientStep /\ DOMAIN clients' = DOMAIN clients \cup {Len(clients) + 1}
  BY <1>2, <1>3, ClientAdded
<1>7. Len(clients) + 1 \in 0..MaxClients
  BY <1>2, Basics, BoundsAssumption DEF ClientRoom
<1>8. TaskStep
  <2>1. CASE task' = Idle
    BY <2>1, TaskIdle
  <2>2. CASE task' = [Idle EXCEPT !.pc = "invite", !.client = Len(clients) + 1,
                                  !.scope = scope]
    <3>1. task' \in Task /\ task'.pc = "invite" /\ task'.client = Len(clients) + 1
      BY <1>1, <1>7, <2>2, IdleType DEF Task, Pc
    <3> QED
      BY <1>6, <3>1 DEF TaskStep, TaskOK
  <2> QED
    BY <1>4, <2>1, <2>2
<1> QED
  BY <1>5, <1>6, <1>8, UsersSame, Together

LEMMA UpdateClientKeeps ==
    ASSUME TypeInv, NEW scope, NEW c \in RowIds, NEW e \in Email, NEW active \in BOOLEAN,
           UpdateClient(scope, c, e, active)
    PROVE  Kept
<1> DEFINE renames == e.box # clients[c].email.box
           email == IF renames THEN Plain(e) ELSE clients[c].email
           r == [clients[c] EXCEPT !.active = active, !.email = email]
           t == [Idle EXCEPT !.pc = "sync", !.client = c, !.renames = renames,
                             !.active = active, !.user = clients[c].user]
<1>1. c \in DOMAIN clients /\ clients[c] \in Client
  BY Basics
<1>2. email \in Email /\ renames \in BOOLEAN
  BY <1>1, PlainType DEF Client
<1>3. clients' = [clients EXCEPT ![c] = r]
  BY <1>1 DEF UpdateClient
<1>4. task' = IF clients[c].user = 0 THEN Idle ELSE t
  BY DEF UpdateClient
<1>5. users' = users /\ ops' = ops /\ calls' \in 0..MaxCalls
  BY BeginsFacts DEF UpdateClient
<1> HIDE DEF renames, email
<1>6. r \in Client
  BY <1>1, <1>2 DEF Client
<1> HIDE DEF r
<1>7. ClientStep /\ DOMAIN clients' = DOMAIN clients
  BY <1>1, <1>3, <1>6, ClientChanged
<1>8. t \in Task /\ t.pc = "sync" /\ t.client = c
  <2>1. clients[c].user \in UserId /\ c \in 0..MaxClients
    BY <1>1, Basics DEF Client
  <2> QED
    BY <1>2, <2>1, IdleType DEF Task, Pc
<1> HIDE DEF t
<1>9. TaskStep
  <2>1. CASE task' = Idle
    BY <2>1, TaskIdle
  <2>2. CASE task' = t
    BY <1>1, <1>7, <1>8, <2>2 DEF TaskStep, TaskOK
  <2> QED
    BY <1>4, <2>1, <2>2
<1> QED
  BY <1>5, <1>7, <1>9, UsersSame, Together

LEMMA UpdateLinkedRowKeeps == ASSUME TypeInv, UpdateLinkedRow PROVE Kept
<1>1. task.pc = "rows" /\ ops' = ops /\ calls' \in 0..MaxCalls
  BY AtFacts DEF UpdateLinkedRow
<1>2. /\ task \in Task /\ task.user \in Ids /\ task.rows \subseteq DOMAIN clients
      /\ users[task.user].email \in Email /\ task.active \in BOOLEAN
  BY <1>1, Basics, UserFields DEF TypeInv, TypeOK, TaskOK, Task
<1>3. PICK c \in task.rows :
        /\ clients' = [clients EXCEPT ![c].email = users[task.user].email,
                                      ![c].active = task.active]
        /\ task' = IF task.rows = {c} THEN Idle ELSE [task EXCEPT !.rows = @ \ {c}]
  BY DEF UpdateLinkedRow
<1> DEFINE r == [clients[c] EXCEPT !.email = users[task.user].email, !.active = task.active]
<1>4. c \in DOMAIN clients /\ clients[c] \in Client
  BY <1>2, Basics
<1>5. clients' = [clients EXCEPT ![c] = r]
  BY <1>3, <1>4
<1>6. r \in Client
  BY <1>2, <1>4 DEF Client
<1> HIDE DEF r
<1>7. ClientStep /\ DOMAIN clients' = DOMAIN clients
  BY <1>4, <1>5, <1>6, ClientChanged
<1>8. users' = users
  BY DEF UpdateLinkedRow
<1>9. TaskStep
  <2>1. CASE task' = Idle
    BY <2>1, TaskIdle
  <2>2. CASE task' = [task EXCEPT !.rows = @ \ {c}]
    <3>1. /\ task' \in Task /\ task'.pc = task.pc /\ task'.user = task.user
          /\ task'.client = task.client /\ task'.rows = task.rows \ {c}
      BY <1>2, <2>2 DEF Task
    <3> QED
      BY <1>1, <1>2, <1>7, <1>8, <3>1 DEF TaskStep, TaskOK, Ids
  <2> QED
    BY <1>3, <2>1, <2>2
<1> QED
  BY <1>1, <1>7, <1>8, <1>9, UsersSame, Together

\* A handler of one statement that writes rows of clients.
LEMMA ClientCall ==
    ASSUME TypeInv, NEW op, Begins(op), ClientStep, UNCHANGED <<users, task>>
    PROVE  Kept
<1>1. task = Idle /\ ops' = ops /\ calls' \in 0..MaxCalls
  BY BeginsFacts
<1>2. TaskStep
  BY <1>1, TaskIdle
<1> QED
  BY <1>1, <1>2, UsersSame, Together

LEMMA FlagsKeep ==
    ASSUME TypeInv, NEW scope, NEW c \in RowIds, ToggleClient(scope, c) \/ DeleteClient(scope, c)
    PROVE  Kept
<1>1. c \in DOMAIN clients /\ clients[c] \in Client
  BY Basics
<1>2. CASE ToggleClient(scope, c)
  <2> DEFINE r == [clients[c] EXCEPT !.active = ~@]
  <2>1. clients' = [clients EXCEPT ![c] = r] /\ r \in Client
    BY <1>1, <1>2 DEF ToggleClient, Client
  <2> HIDE DEF r
  <2>2. ClientStep
    BY <1>1, <2>1, ClientChanged
  <2> QED
    BY <1>2, <2>2, ClientCall DEF ToggleClient
<1>3. CASE DeleteClient(scope, c)
  <2> DEFINE r == [clients[c] EXCEPT !.stored = FALSE]
  <2>1. clients' = [clients EXCEPT ![c] = r] /\ r \in Client
    BY <1>1, <1>3 DEF DeleteClient, Client
  <2> HIDE DEF r
  <2>2. ClientStep
    BY <1>1, <2>1, ClientChanged
  <2> QED
    BY <1>3, <2>2, ClientCall DEF DeleteClient
<1> QED
  BY <1>2, <1>3

\* The account of a row is given an account or a new one, by two handlers.
LEMMA InviteRowKeeps ==
    ASSUME TypeInv, NEW c \in DOMAIN clients, InviteRow(c), ops' = ops, calls' \in 0..MaxCalls
    PROVE  Kept
<1> DEFINE e == clients[c].email
<1>1. clients[c] \in Client /\ e \in Email /\ c \in 0..MaxClients
  BY Basics DEF Client
<1>2. CASE UserWith(e) = {}
  <2> DEFINE r == [NewUser("client", e) EXCEPT !.active = clients[c].active]
  <2>1. UserRoom /\ AddUser(r) /\ clients' = clients
    BY <1>2 DEF InviteRow
  <2>2. task' = [Idle EXCEPT !.pc = "link", !.client = c, !.user = Len(users) + 1]
    BY <1>2 DEF InviteRow
  <2>3. r \in User
    <3>1. NewUser("client", e) \in User
      BY <1>1, NewUserType DEF Type
    <3> QED
      BY <1>1, <3>1 DEF User, Client
  <2> HIDE DEF r
  <2>4. UserStep
    BY <2>1, <2>3, UserAdded
  <2>5. Len(users) + 1 \in UserId
    BY <2>1, Basics, BoundsAssumption DEF UserRoom, UserId
  <2>6. task' \in Task /\ task'.pc = "link" /\ task'.client = c
    BY <1>1, <2>2, <2>5, IdleType DEF Task, Pc
  <2>7. TaskStep
    BY <2>1, <2>6 DEF TaskStep, TaskOK
  <2> QED
    BY <2>1, <2>4, <2>7, ClientsSame, Together
<1>3. CASE UserWith(e) # {}
  <2> DEFINE u == CHOOSE u \in UserWith(e) : TRUE
             r == [clients[c] EXCEPT !.user = u]
  <2>1. u \in UserId
    BY <1>3, Basics DEF UserWith
  <2>2. clients' \in {clients, [clients EXCEPT ![c] = r]} /\ users' = users /\ task' = Idle
    BY <1>3 DEF InviteRow, Done
  <2> HIDE DEF u
  <2>3. r \in Client
    BY <1>1, <2>1 DEF Client
  <2> HIDE DEF r
  <2>4. ClientStep
    BY <2>2, <2>3, ClientChanged, ClientsSame
  <2> QED
    BY <2>2, <2>4, UsersSame, TaskIdle, Together
<1> QED
  BY <1>2, <1>3

LEMMA InvitesKeep ==
    ASSUME TypeInv, InviteCreated \/ \E scope \in Scopes, c \in RowIds : Invite(scope, c)
    PROVE  Kept
<1>1. CASE InviteCreated
  <2>1. task.client \in DOMAIN clients /\ ops' = ops /\ calls' \in 0..MaxCalls
    BY <1>1, AtFacts DEF InviteCreated, TypeInv, TaskOK
  <2> QED
    BY <1>1, <2>1, InviteRowKeeps DEF InviteCreated
<1>2. CASE \E scope \in Scopes, c \in RowIds : Invite(scope, c)
  <2>1. PICK scope \in Scopes, c \in RowIds : Invite(scope, c)
    BY <1>2
  <2>2. ops' = ops /\ calls' \in 0..MaxCalls /\ InviteRow(c) /\ c \in DOMAIN clients
    BY <2>1, BeginsFacts, Basics DEF Invite
  <2> QED
    BY <2>2, InviteRowKeeps
<1> QED
  BY <1>1, <1>2

LEMMA LinkKeeps == ASSUME TypeInv, Link PROVE Kept
<1> DEFINE c == task.client
           r == [clients[c] EXCEPT !.user = task.user]
<1>1. task.pc = "link" /\ ops' = ops /\ calls' \in 0..MaxCalls
  BY AtFacts DEF Link
<1>2. c \in DOMAIN clients /\ clients[c] \in Client /\ task.user \in UserId
  BY <1>1, Basics DEF TypeInv, TypeOK, TaskOK, Task
<1>3. r \in Client
  BY <1>2 DEF Client
<1>4. clients' = [clients EXCEPT ![c] = r] /\ users' = users /\ task' = Idle
  BY DEF Link, Done
<1> HIDE DEF r
<1>5. ClientStep
  BY <1>2, <1>3, <1>4, ClientChanged
<1> QED
  BY <1>1, <1>4, <1>5, UsersSame, TaskIdle, Together

LEMMA StopKeeps == ASSUME TypeInv, Stop PROVE Kept
<1>1. calls' \in 0..MaxCalls
  BY DEF Stop, TypeInv, TypeOK
<1> QED
  BY <1>1, UsersSame, ClientsSame, TaskIdle, Together DEF Stop, Done

-----------------------------------------------------------------------------
(* The wizard and the requests *)

LEMMA RegisterKeeps ==
    ASSUME TypeInv, NEW e \in Email, Register(e)
    PROVE  Kept
<1> DEFINE r == [NewUser("client", e) EXCEPT !.code = TRUE]
<1>1. r \in User
  <2>1. NewUser("client", e) \in User
    BY NewUserType DEF Type
  <2> QED
    BY <2>1 DEF User
<1>2. UserRoom /\ ClientRoom /\ AddUser(r) /\ clients' = clients
  BY DEF Register
<1>3. task' = [Idle EXCEPT !.pc = "row", !.user = Len(users) + 1]
  BY DEF Register
<1> HIDE DEF r
<1>4. UserStep /\ Len(users) + 1 \in Ids'
  BY <1>1, <1>2, UserAdded
<1>5. Len(users) + 1 \in UserId
  BY <1>2, Basics, BoundsAssumption DEF UserRoom, UserId
<1>6. task' \in Task /\ task'.pc = "row" /\ task'.user = Len(users) + 1
  BY <1>3, <1>5, IdleType DEF Task, Pc
<1>7. ClientRoom'
  BY <1>2 DEF ClientRoom
<1>8. TaskStep
  BY <1>4, <1>6, <1>7 DEF TaskStep, TaskOK
<1>9. ops' = ops /\ calls' \in 0..MaxCalls
  BY BeginsFacts DEF Register
<1> QED
  BY <1>2, <1>4, <1>8, <1>9, ClientsSame, Together

LEMMA RegisterRowKeeps == ASSUME TypeInv, RegisterRow PROVE Kept
<1> DEFINE r == NewClient(0, task.user, users[task.user].email)
<1>1. task.pc = "row" /\ ops' = ops /\ calls' \in 0..MaxCalls
  BY AtFacts DEF RegisterRow
<1>2. task.user \in Ids /\ ClientRoom
  BY <1>1 DEF TypeInv, TaskOK
<1>3. 0 \in UserId /\ task.user \in UserId /\ users[task.user] \in User
  BY <1>2, Basics, BoundsAssumption DEF UserId
<1>4. r \in Client
  BY <1>3, UserFields, NewClientType
<1>5. AddClient(r) /\ users' = users /\ task' = Idle
  BY DEF RegisterRow, Done
<1> HIDE DEF r
<1>6. ClientStep
  BY <1>2, <1>4, <1>5, ClientAdded
<1> QED
  BY <1>1, <1>5, <1>6, UsersSame, TaskIdle, Together

\* A request goes to a row that is stored, or to one that is added.
LEMMA RequestRow ==
    ASSUME TypeInv, NEW rows \in SUBSET RowIds, NEW client, rows = {} => client \in Client,
           RequestOfRow(rows, client)
    PROVE  ClientStep
<1>1. CASE rows # {}
  <2>1. PICK c \in rows : clients' = [clients EXCEPT ![c].requests = TRUE]
    BY <1>1 DEF RequestOfRow
  <2> DEFINE r == [clients[c] EXCEPT !.requests = TRUE]
  <2>2. c \in DOMAIN clients /\ clients[c] \in Client
    BY Basics
  <2>3. r \in Client /\ clients' = [clients EXCEPT ![c] = r]
    BY <2>1, <2>2 DEF Client
  <2> HIDE DEF r
  <2> QED
    BY <2>2, <2>3, ClientChanged
<1>2. CASE rows = {}
  <2> DEFINE r == [client EXCEPT !.requests = TRUE]
  <2>1. r \in Client
    BY <1>2 DEF Client
  <2>2. AddClient(r) /\ ClientRoom
    BY <1>2 DEF RequestOfRow, AddClient
  <2> HIDE DEF r
  <2> QED
    BY <2>1, <2>2, ClientAdded
<1> QED
  BY <1>1, <1>2

LEMMA WizardRequestKeeps ==
    ASSUME TypeInv, NEW u \in Ids, WizardRequest(u)
    PROVE  Kept
<1> DEFINE e == users[u].email
<1>1. u \in UserId /\ 0 \in UserId /\ e \in Email
  BY Basics, UserFields, BoundsAssumption DEF UserId
<1>2. NewClient(0, u, e) \in Client
  BY <1>1, NewClientType
<1>3. RowsWith(e) \in SUBSET RowIds
  BY DEF RowsWith
<1>4. RequestOfRow(RowsWith(e), NewClient(0, u, e)) /\ UNCHANGED <<users, task>>
  BY DEF WizardRequest
<1> HIDE DEF e
<1>5. ClientStep
  BY <1>2, <1>3, <1>4, RequestRow
<1> QED
  BY <1>4, <1>5, ClientCall DEF WizardRequest

LEMMA ListRequestsKeeps ==
    ASSUME TypeInv, NEW u \in Ids, ListRequests(u)
    PROVE  Kept
<1> DEFINE takes(c) == /\ c \in RowIds /\ clients[c].user = 0
                       /\ clients[c].email.box = users[u].email.box
           row(c) == IF takes(c) THEN [clients[c] EXCEPT !.user = u] ELSE clients[c]
<1>1. clients' = [c \in DOMAIN clients |-> row(c)]
  BY DEF ListRequests
<1>2. \A c \in DOMAIN clients : row(c) \in Client
  <2>1. TAKE c \in DOMAIN clients
  <2>2. clients[c] \in Client /\ u \in UserId
    BY Basics
  <2> QED
    BY <2>2 DEF Client
<1>3. DOMAIN clients = 1..Len(clients) /\ Len(clients) \in Nat
  BY Basics, LenProperties
<1> HIDE DEF row
<1>4. clients' \in Seq(Client) /\ DOMAIN clients' = 1..Len(clients)
  BY <1>1, <1>2, <1>3, SeqDef
<1>5. Len(clients') = Len(clients)
  BY <1>3, <1>4, LenProperties, Intervals
<1>6. ClientStep
  BY <1>4, <1>5, Basics DEF ClientStep
<1> QED
  BY <1>6, ClientCall DEF ListRequests

LEMMA RequestForEmailKeeps ==
    ASSUME TypeInv, NEW partner \in Scopes, NEW e \in Email, RequestForEmail(partner, e)
    PROVE  Kept
<1> DEFINE portal == {u \in UserWith(e) : Portal(u)}
           opens == RowsWith(e) = {} /\ portal = {} /\ partner = 0
           user == IF opens THEN Len(users) + 1
                   ELSE IF portal # {} THEN CHOOSE u \in portal : TRUE ELSE 0
<1>1. opens => UserRoom
  BY DEF RequestForEmail
<1>2. users' = IF opens THEN Append(users, NewUser("client", e)) ELSE users
  BY DEF RequestForEmail
<1>3. RequestOfRow(RowsWith(e), NewClient(partner, user, e)) /\ Begins("request") /\ task' = task
  BY DEF RequestForEmail
<1>4. user \in UserId
  <2>1. CASE opens
    BY <1>1, <2>1, Basics, BoundsAssumption DEF UserRoom, UserId
  <2>2. CASE ~opens /\ portal # {}
    <3>1. user \in portal
      BY <2>2
    <3>2. portal \subseteq Ids
      BY DEF Portal
    <3> QED
      BY <3>1, <3>2, Basics
  <2>3. CASE ~opens /\ portal = {}
    BY <2>3, BoundsAssumption DEF UserId
  <2> QED
    BY <2>1, <2>2, <2>3
<1>5. UserStep
  <2>1. CASE opens
    <3>1. NewUser("client", e) \in User
      BY NewUserType DEF Type
    <3>2. AddUser(NewUser("client", e)) /\ UserRoom
      BY <1>1, <1>2, <2>1 DEF AddUser
    <3> QED
      BY <3>1, <3>2, UserAdded
  <2>2. CASE ~opens
    BY <1>2, <2>2, UsersSame
  <2> QED
    BY <2>1, <2>2
<1> HIDE DEF user
<1>6. NewClient(partner, user, e) \in Client
  BY <1>4, Basics, NewClientType
<1>7. RowsWith(e) \in SUBSET RowIds
  BY DEF RowsWith
<1>8. ClientStep
  BY <1>3, <1>6, <1>7, RequestRow
<1>9. ops' = ops /\ calls' \in 0..MaxCalls /\ task' = Idle
  BY <1>3, BeginsFacts
<1> QED
  BY <1>5, <1>8, <1>9, TaskIdle, Together

LEMMA RequestForIdKeeps ==
    ASSUME TypeInv, NEW partner \in Scopes, NEW id, RequestForId(partner, id)
    PROVE  Kept
<1> DEFINE r == [NewClient(partner, id, users[id].email) EXCEPT !.active = users[id].active]
           rows == {id} \cap RowIds
<1>1. ASSUME rows = {} PROVE r \in Client
  <2>1. id \in Ids
    BY <1>1 DEF RequestForId, Portal
  <2>2. id \in UserId /\ partner \in UserId
    BY <2>1, Basics
  <2>3. users[id].email \in Email /\ users[id].active \in BOOLEAN
    BY <2>1, Basics, UserFields
  <2>4. NewClient(partner, id, users[id].email) \in Client
    BY <2>2, <2>3, NewClientType
  <2> QED
    BY <2>3, <2>4 DEF Client
<1>2. RequestOfRow(rows, r) /\ UNCHANGED <<users, task>>
  BY DEF RequestForId
<1>3. rows \in SUBSET RowIds
  OBVIOUS
<1> HIDE DEF r, rows
<1>4. ClientStep
  BY <1>1, <1>2, <1>3, RequestRow
<1> QED
  BY <1>2, <1>4, ClientCall DEF RequestForId

-----------------------------------------------------------------------------
(* The import *)

LEMMA CreatedType ==
    ASSUME NEW e \in Email, NEW type \in Type
    PROVE  /\ Created(e, type) \in Seq(User) /\ Len(Created(e, type)) \in {0, 1}
           /\ UserWith(e) = {} => Len(Created(e, type)) = 1
<1>1. CASE UserWith(e) = {}
  <2>1. NewUser(type, e) \in User /\ Created(e, type) = <<NewUser(type, e)>>
    BY <1>1, NewUserType DEF Created
  <2> QED
    BY <2>1
<1>2. CASE UserWith(e) # {}
  <2>1. Created(e, type) = <<>>
    BY <1>2 DEF Created
  <2> QED
    BY <1>2, <2>1
<1> QED
  BY <1>1, <1>2

\* An account that exists, or the one at the end of the accounts.
LEMMA AccountOfType ==
    ASSUME TypeInv, NEW e, NEW created \in Nat,
           UserWith(e) = {} => Len(users) + created <= MaxUsers
    PROVE  AccountOf(e, created) \in UserId
<1>1. CASE UserWith(e) = {}
  BY <1>1, Basics, BoundsAssumption DEF AccountOf, UserId
<1>2. CASE UserWith(e) # {}
  <2>1. AccountOf(e, created) \in UserWith(e)
    BY <1>2 DEF AccountOf
  <2> QED
    BY <2>1, Basics DEF UserWith
<1> QED
  BY <1>1, <1>2

\* Accounts added at the end leave those there are.
LEMMA UsersGrow ==
    ASSUME TypeInv, NEW more \in Seq(User), users' = users \o more,
           Len(users \o more) <= MaxUsers
    PROVE  UserStep
<1>1. /\ users' \in Seq(User) /\ Len(users') = Len(users) + Len(more)
      /\ \A j \in 1..Len(users) : users'[j] = users[j]
  <2>1. users \in Seq(User) /\ Len(users) \in Nat /\ Len(more) \in Nat
    BY Basics, LenProperties
  <2>2. Len(users \o more) = Len(users) + Len(more)
    BY <2>1, ConcatProperties
  <2>3. \A j \in 1..Len(users) : (users \o more)[j] = users[j]
    BY <2>1, ConcatProperties
  <2>4. users \o more \in Seq(User)
    BY <2>1, ConcatProperties
  <2> QED
    BY <2>2, <2>3, <2>4
<1>2. Len(users) \in Nat /\ Len(more) \in Nat
  BY Basics, LenProperties
<1>3. Ids \subseteq Ids'
  <2>1. Ids = 1..Len(users) /\ Ids' = 1..(Len(users) + Len(more))
    BY <1>1, Basics, LenProperties DEF Ids
  <2> QED
    BY <1>2, <2>1
<1>4. StillAdmin
  BY <1>1, <1>3, Basics DEF StillAdmin, LastAdminIsKept
<1> QED
  BY <1>1, <1>2, <1>4 DEF UserStep

LEMMA ImportAccountKeeps ==
    ASSUME TypeInv, NEW contact \in Email, NEW partner \in SUBSET Email,
           ImportAccount(contact, partner)
    PROVE  Kept
<1> DEFINE e == CHOOSE p \in partner : TRUE
           opened == IF partner = {} THEN <<>> ELSE Created(e, "partner")
           last == Created(contact, "client")
           p == IF partner = {} THEN 0 ELSE AccountOf(e, 1)
           u == AccountOf(contact, Len(opened) + 1)
           all == users \o opened \o last
           found == IF RowsWith(contact) # {} THEN RowsWith(contact) ELSE Linked(u)
<1>1. Begins("import") /\ Len(all) <= MaxUsers /\ users' = all /\ task' = task
  BY DEF ImportAccount
<1>2. IF found = {}
      THEN /\ ClientRoom
           /\ AddClient([NewClient(p, u, contact) EXCEPT !.requests = TRUE])
      ELSE \E c \in found : clients' = [clients EXCEPT ![c] = Fill(@, u, p)]
  BY DEF ImportAccount
<1>3. /\ opened \in Seq(User) /\ Len(opened) \in {0, 1}
      /\ (partner # {} /\ UserWith(e) = {}) => Len(opened) = 1
  <2>1. CASE partner = {}
    BY <2>1
  <2>2. CASE partner # {}
    <3>1. e \in Email
      BY <2>2
    <3> HIDE DEF e
    <3> QED
      BY <2>2, <3>1, CreatedType DEF Type
  <2> QED
    BY <2>1, <2>2
<1>4. /\ last \in Seq(User) /\ Len(last) \in {0, 1}
      /\ UserWith(contact) = {} => Len(last) = 1
  BY CreatedType DEF Type
<1> HIDE DEF opened, last, e
<1>5. opened \o last \in Seq(User) /\ all = users \o (opened \o last)
  <2>1. users \in Seq(User)
    BY Basics
  <2>2. all = users \o (opened \o last)
    BY <2>1, <1>3, <1>4, ConcatAssociative
  <2> QED
    BY <1>3, <1>4, <2>2, ConcatProperties
<1>6. Len(all) = Len(users) + Len(opened) + Len(last)
  <2>1. users \in Seq(User) /\ users \o opened \in Seq(User)
    BY <1>3, Basics, ConcatProperties
  <2>2. Len(users \o opened) = Len(users) + Len(opened)
    BY <2>1, <1>3, ConcatProperties
  <2> QED
    BY <2>1, <2>2, <1>4, ConcatProperties
<1>7. UserStep
  BY <1>1, <1>5, UsersGrow
<1> HIDE DEF all
<1>8. p \in UserId
  <2>1. CASE partner = {}
    BY <2>1, BoundsAssumption DEF UserId
  <2>2. CASE partner # {}
    <3>1. UserWith(e) = {} => Len(users) + 1 <= MaxUsers
      <4>1. Len(all) <= MaxUsers /\ Len(all) = Len(users) + Len(opened) + Len(last)
        BY <1>1, <1>6
      <4>2. Len(users) \in Nat /\ Len(last) \in Nat
        BY <1>4, Basics
      <4>3. UserWith(e) = {} => Len(opened) = 1
        BY <1>3, <2>2
      <4> QED
        BY <4>1, <4>2, <4>3, BoundsAssumption
    <3>2. p = AccountOf(e, 1) /\ 1 \in Nat
      BY <2>2 DEF p
    <3> QED
      BY <3>1, <3>2, AccountOfType
  <2> QED
    BY <2>1, <2>2
<1>9. u \in UserId
  <2>1. UserWith(contact) = {} => Len(users) + (Len(opened) + 1) <= MaxUsers
    <3>1. Len(all) <= MaxUsers /\ Len(all) = Len(users) + Len(opened) + Len(last)
      BY <1>1, <1>6
    <3>2. Len(users) \in Nat /\ Len(opened) \in Nat
      BY <1>3, Basics
    <3>3. UserWith(contact) = {} => Len(last) = 1
      BY <1>4
    <3> QED
      BY <3>1, <3>2, <3>3, BoundsAssumption
  <2>2. Len(opened) + 1 \in Nat
    BY <1>3
  <2> QED
    BY <2>1, <2>2, AccountOfType
<1> HIDE DEF p, u
<1>10. ClientStep
  <2>1. CASE found = {}
    <3> DEFINE r == [NewClient(p, u, contact) EXCEPT !.requests = TRUE]
    <3>1. NewClient(p, u, contact) \in Client
      BY <1>8, <1>9, NewClientType
    <3>2. r \in Client
      BY <3>1 DEF Client
    <3>3. ClientRoom /\ AddClient(r)
      BY <1>2, <2>1
    <3> HIDE DEF r
    <3> QED
      BY <3>2, <3>3, ClientAdded
  <2>2. CASE found # {}
    <3>1. PICK c \in found : clients' = [clients EXCEPT ![c] = Fill(@, u, p)]
      BY <1>2, <2>2
    <3>2. c \in DOMAIN clients /\ clients[c] \in Client
      BY <3>1, Basics DEF RowsWith, Linked
    <3> DEFINE r == Fill(clients[c], u, p)
    <3>3. r \in Client
      BY <1>8, <1>9, <3>2 DEF Fill, Client
    <3>4. clients' = [clients EXCEPT ![c] = r]
      BY <3>1
    <3> HIDE DEF r
    <3> QED
      BY <3>2, <3>3, <3>4, ClientChanged
  <2> QED
    BY <2>1, <2>2
<1>11. ops' = ops /\ calls' \in 0..MaxCalls /\ task' = Idle
  BY <1>1, BeginsFacts
<1> QED
  BY <1>7, <1>10, <1>11, TaskIdle, Together

-----------------------------------------------------------------------------
(* The specification *)

LEMMA InitType == Init => TypeInv
<1> SUFFICES ASSUME Init PROVE TypeInv
  OBVIOUS
<1>1. PICK world \in Worlds :
          ops = world.ops /\ users = world.users /\ clients = world.clients
  BY DEF Init
<1>2. /\ ops \subseteq AllOps
      /\ users \in Seq(User) /\ Len(users) <= MaxUsers
      /\ clients \in Seq(Client) /\ Len(clients) <= MaxClients
  BY <1>1, WorldsAssumption
<1>3. task = Idle /\ calls = 0
  BY DEF Init
<1> QED
  BY <1>2, <1>3, IdleType, BoundsAssumption DEF TypeInv, TypeOK, TaskOK

LEMMA StaffKeep == ASSUME TypeInv, StaffCalls PROVE Kept
<1>1. \A e \in Typed : e \in Email
  BY TypedAssumption
<1>2. ASSUME NEW type \in Type, NEW e \in Typed, CreateUser(type, e) PROVE Kept
  BY <1>1, <1>2, CreateUserKeeps
<1>3. ASSUME NEW actor \in Ids, NEW u \in Ids, ToggleUser(actor, u) PROVE Kept
  BY <1>3, ToggleUserKeeps
<1>4. ASSUME NEW u \in Ids, NEW type \in {"admin", "user"}, UpdateStaff(u, type) PROVE Kept
  BY <1>4, UpdateStaffKeeps
<1>5. ASSUME NEW id \in Ids \cup RowIds, NEW userOnly \in BOOLEAN, ConvertToPartner(id, userOnly)
      PROVE  Kept
  BY <1>5, ConvertKeeps
<1>6. ASSUME NEW u \in Ids, NEW e \in Typed, NEW active \in BOOLEAN, UpdateUserOnly(u, e, active)
      PROVE  Kept
  BY <1>1, <1>6, UpdateUserOnlyKeeps
<1> QED
  BY <1>2, <1>3, <1>4, <1>5, <1>6 DEF StaffCalls

LEMMA OwnKeep == ASSUME TypeInv, OwnCalls PROVE Kept
<1>1. \A e \in Typed : e \in Email
  BY TypedAssumption
<1>2. ASSUME NEW u \in Ids, NEW e \in Typed, RequestEmailChange(u, e) \/ ConfirmEmailChange(u, e)
      PROVE  Kept
  BY <1>1, <1>2, RequestEmailChangeKeeps, ConfirmEmailChangeKeeps
<1>3. ASSUME NEW e \in Typed, Register(e) PROVE Kept
  BY <1>1, <1>3, RegisterKeeps
<1>4. ASSUME NEW u \in Ids, ConfirmEmail(u) \/ WizardRequest(u) \/ ListRequests(u) PROVE Kept
  BY <1>4, ConfirmEmailKeeps, WizardRequestKeeps, ListRequestsKeeps
<1>5. ASSUME NEW u \in Ids, NEW type \in Type, NEW active \in BOOLEAN,
             \/ UpdateCurrentUser(u, type, active)
             \/ \E e \in Typed \cup {users[u].email} : UpdateUserById(u, e, type, active)
      PROVE  Kept
  <2>1. users[u].email \in Email
    BY Basics DEF User
  <2>2. CASE UpdateCurrentUser(u, type, active)
    BY <2>1, <2>2, SentKeeps
  <2>3. ASSUME NEW e \in Typed \cup {users[u].email}, UpdateUserById(u, e, type, active)
        PROVE  Kept
    BY <1>1, <2>1, <2>3, SentKeeps
  <2> QED
    BY <1>5, <2>2, <2>3
<1> QED
  BY <1>2, <1>3, <1>4, <1>5 DEF OwnCalls

LEMMA ClientsKeep == ASSUME TypeInv, ClientCalls PROVE Kept
<1>1. \A e \in Typed : e \in Email
  BY TypedAssumption
<1>2. PICK scope \in Scopes :
        \/ \E partner \in Scopes, e \in Typed, invites \in BOOLEAN :
                CreateClient(scope, partner, e, invites)
        \/ \E c \in RowIds :
            \/ \E e \in Typed, active \in BOOLEAN : UpdateClient(scope, c, e, active)
            \/ ToggleClient(scope, c) \/ DeleteClient(scope, c) \/ Invite(scope, c)
  BY DEF ClientCalls
<1>3. ASSUME NEW partner \in Scopes, NEW e \in Typed, NEW invites \in BOOLEAN,
             CreateClient(scope, partner, e, invites)
      PROVE  Kept
  BY <1>1, <1>3, CreateClientKeeps
<1>4. ASSUME NEW c \in RowIds, NEW e \in Typed, NEW active \in BOOLEAN,
             UpdateClient(scope, c, e, active)
      PROVE  Kept
  BY <1>1, <1>4, UpdateClientKeeps
<1>5. ASSUME NEW c \in RowIds,
             ToggleClient(scope, c) \/ DeleteClient(scope, c) \/ Invite(scope, c)
      PROVE  Kept
  BY <1>5, FlagsKeep, InvitesKeep
<1> QED
  BY <1>2, <1>3, <1>4, <1>5

LEMMA RequestsKeep == ASSUME TypeInv, RequestCalls PROVE Kept
<1>1. ASSUME NEW partner \in Scopes, NEW e \in Typed, RequestForEmail(partner, e) PROVE Kept
  BY <1>1, TypedAssumption, RequestForEmailKeeps
<1>2. ASSUME NEW partner \in Scopes, NEW id \in Ids \cup RowIds, RequestForId(partner, id)
      PROVE  Kept
  BY <1>2, RequestForIdKeeps
<1>3. ASSUME NEW contact \in Typed, NEW partner \in SUBSET Typed, ImportAccount(contact, partner)
      PROVE  Kept
  <2>1. contact \in Email /\ partner \in SUBSET Email
    BY TypedAssumption
  <2> QED
    BY <1>3, <2>1, ImportAccountKeeps
<1> QED
  BY <1>1, <1>2, <1>3 DEF RequestCalls

LEMMA ContinueKeeps == ASSUME TypeInv, Continue PROVE Kept
BY MirrorKeeps, SyncKeeps, UpdateLinkedRowKeeps, InvitesKeep, LinkKeeps, RegisterRowKeeps, StopKeeps
   DEF Continue

LEMMA NextKeeps == TypeInv /\ [Next]_vars => Kept
<1> SUFFICES ASSUME TypeInv, [Next]_vars PROVE Kept
  OBVIOUS
<1>1. CASE UNCHANGED vars
  <2>1. UNCHANGED <<ops, users, clients, task, calls>>
    BY <1>1 DEF vars
  <2>2. StillAdmin
    BY <2>1 DEF StillAdmin, LastAdminIsKept, Ids
  <2> QED
    BY <2>1, <2>2 DEF Kept, TypeInv, TypeOK, TaskOK, Ids, ClientRoom
<1>2. CASE Next
  BY <1>2, StaffKeep, OwnKeep, ClientsKeep, RequestsKeep, ContinueKeeps DEF Next
<1> QED
  BY <1>1, <1>2

LEMMA TypeInvAlways == Spec => []TypeInv
<1>1. TypeInv /\ [Next]_vars => TypeInv'
  BY NextKeeps DEF Kept
<1> QED
  BY InitType, <1>1, PTL DEF Spec

\* Accounts, clients and the handler under way keep their types and bounds.
THEOREM TypeCorrect == Spec => []TypeOK
<1>1. TypeInv => TypeOK
  BY DEF TypeInv
<1> QED
  BY TypeInvAlways, <1>1, PTL

\* The handlers of a world stay the same.
LEMMA OpsFixed == ASSUME Next PROVE ops' = ops
<1>1. ASSUME NEW op, Begins(op) PROVE ops' = ops
  BY <1>1 DEF Begins
<1>2. ASSUME NEW pc, At(pc) PROVE ops' = ops
  BY <1>2 DEF At
<1>3. CASE StaffCalls
  <2>1. \A type, e : CreateUser(type, e) => ops' = ops
    BY <1>1 DEF CreateUser
  <2>2. \A actor, u : ToggleUser(actor, u) => ops' = ops
    BY <1>1 DEF ToggleUser
  <2>3. \A u, type : UpdateStaff(u, type) => ops' = ops
    BY <1>1 DEF UpdateStaff
  <2>4. \A id, userOnly : ConvertToPartner(id, userOnly) => ops' = ops
    BY <1>1 DEF ConvertToPartner
  <2>5. \A u, e, active : UpdateUserOnly(u, e, active) => ops' = ops
    BY <1>1 DEF UpdateUserOnly
  <2> QED
    BY <1>3, <2>1, <2>2, <2>3, <2>4, <2>5 DEF StaffCalls
<1>4. CASE OwnCalls
  <2>1. \A u, e : RequestEmailChange(u, e) => ops' = ops
    BY <1>1 DEF RequestEmailChange
  <2>6. \A u, e, type, active :
            UpdateUserById(u, e, type, active) \/ UpdateCurrentUser(u, type, active)
            => ops' = ops
    BY <1>1 DEF UpdateUserById, UpdateCurrentUser
  <2>2. \A u, e : ConfirmEmailChange(u, e) => ops' = ops
    BY <1>1 DEF ConfirmEmailChange
  <2>3. \A u : Register(u) => ops' = ops
    BY <1>1 DEF Register
  <2>4. \A u : ConfirmEmail(u) \/ WizardRequest(u) => ops' = ops
    BY <1>1 DEF ConfirmEmail, WizardRequest
  <2>5. \A u : ListRequests(u) => ops' = ops
    BY <1>1 DEF ListRequests
  <2> QED
    BY <1>4, <2>1, <2>2, <2>3, <2>4, <2>5, <2>6 DEF OwnCalls
<1>5. CASE ClientCalls
  <2>1. \A scope, partner, e, invites : CreateClient(scope, partner, e, invites) => ops' = ops
    BY <1>1 DEF CreateClient
  <2>2. \A scope, c, e, active : UpdateClient(scope, c, e, active) => ops' = ops
    BY <1>1 DEF UpdateClient
  <2>3. \A scope, c : ToggleClient(scope, c) => ops' = ops
    BY <1>1 DEF ToggleClient
  <2>4. \A scope, c : DeleteClient(scope, c) => ops' = ops
    BY <1>1 DEF DeleteClient
  <2>5. \A scope, c : Invite(scope, c) => ops' = ops
    BY <1>1 DEF Invite
  <2> QED
    BY <1>5, <2>1, <2>2, <2>3, <2>4, <2>5 DEF ClientCalls
<1>6. CASE RequestCalls
  <2>1. \A partner, e : RequestForEmail(partner, e) => ops' = ops
    BY <1>1 DEF RequestForEmail
  <2>2. \A partner, id : RequestForId(partner, id) => ops' = ops
    BY <1>1 DEF RequestForId
  <2>3. \A contact, partner : ImportAccount(contact, partner) => ops' = ops
    BY <1>1 DEF ImportAccount
  <2> QED
    BY <1>6, <2>1, <2>2, <2>3 DEF RequestCalls
<1>7. CASE Continue
  <2>1. CASE Stop
    BY <2>1 DEF Stop
  <2> QED
    BY <1>2, <1>7, <2>1 DEF Continue, Mirror, Sync, UpdateLinkedRow, InviteCreated, Link,
       RegisterRow
<1> QED
  BY <1>3, <1>4, <1>5, <1>6, <1>7 DEF Next

\* Where no handler stores the status and the type it is sent, toggleUser,
\* updateStaff and the handlers that edit accounts leave an active administrator.
THEOREM AdminRemainsAlways ==
    ASSUME AdminsToBegin
    PROVE  Spec => []AdminRemains
<1>1. Init => AdminRemains
  BY DEF Init, AdminsToBegin, AdminRemains, Ids
<1>2. TypeInv /\ AdminRemains /\ [Next]_vars => AdminRemains'
  <2> SUFFICES ASSUME TypeInv, AdminRemains, [Next]_vars PROVE AdminRemains'
    OBVIOUS
  <2>1. ops' = ops
    BY OpsFixed DEF vars
  <2>2. StillAdmin
    BY NextKeeps DEF Kept
  <2> QED
    BY <2>1, <2>2 DEF StillAdmin, AdminRemains, LastAdminIsKept
<1> QED
  BY <1>1, <1>2, TypeInvAlways, PTL DEF Spec

-----------------------------------------------------------------------------
(* No partner has two clients with one mailbox.                            *)
(* A step keeps the partner and the mailbox of every row, or writes a row  *)
(* that is nobody's; only createClient and updateClient give a row of a    *)
(* partner a mailbox, and both look for it first.                          *)

Distinct ==
    \A c, d \in RowIds :
        (c # d /\ clients[c].partner # 0 /\ clients[c].partner = clients[d].partner)
            => clients[c].email.box # clients[d].email.box

\* Without the careless handlers none is left at a later commit of theirs.
TwinInv ==
    ops \cap Careless = {} => task.pc \notin {"mirror", "rows"} /\ Distinct

\* The row was there, and keeps its partner and its mailbox.
Carried(c) ==
    /\ c \in RowIds
    /\ clients'[c].partner = clients[c].partner
    /\ clients'[c].email.box = clients[c].email.box

FreshOrCarried == \A c \in RowIds' : clients'[c].partner = 0 \/ Carried(c)

LEMMA DistinctKept ==
    ASSUME Distinct, FreshOrCarried
    PROVE  Distinct'
<1> SUFFICES ASSUME NEW c \in RowIds', NEW d \in RowIds', c # d, clients'[c].partner # 0,
                    clients'[c].partner = clients'[d].partner
             PROVE  clients'[c].email.box # clients'[d].email.box
  BY DEF Distinct
<1>1. Carried(c) /\ Carried(d)
  BY DEF FreshOrCarried
<1> QED
  BY <1>1 DEF Carried, Distinct

LEMMA RowEdited ==
    ASSUME TypeInv, NEW c \in DOMAIN clients, NEW r \in Client,
           clients' = [clients EXCEPT ![c] = r]
    PROVE  /\ DOMAIN clients' = DOMAIN clients
           /\ \A d \in DOMAIN clients : clients'[d] = IF d = c THEN r ELSE clients[d]
<1>1. clients \in [DOMAIN clients -> Client]
  BY Basics
<1> QED
  BY <1>1

LEMMA RowAppended ==
    ASSUME TypeInv, NEW r \in Client, AddClient(r)
    PROVE  /\ DOMAIN clients' = DOMAIN clients \cup {Len(clients) + 1}
           /\ Len(clients) + 1 \notin DOMAIN clients
           /\ clients'[Len(clients) + 1] = r
           /\ \A d \in DOMAIN clients : clients'[d] = clients[d]
<1>1. clients \in Seq(Client) /\ DOMAIN clients = 1..Len(clients) /\ Len(clients) \in Nat
  BY Basics, LenProperties
<1>2. clients' = Append(clients, r)
  BY DEF AddClient
<1>3. /\ clients' \in Seq(Client) /\ Len(clients') = Len(clients) + 1
      /\ \A d \in 1..Len(clients) : clients'[d] = clients[d]
      /\ clients'[Len(clients) + 1] = r
  BY <1>1, <1>2
<1>4. DOMAIN clients' = 1..(Len(clients) + 1)
  BY <1>3, LenProperties
<1> QED
  BY <1>1, <1>3, <1>4

LEMMA RowsUnchanged == ASSUME clients' = clients PROVE FreshOrCarried
BY DEF FreshOrCarried, Carried, RowIds

LEMMA RowEditedCarried ==
    ASSUME TypeInv, NEW c \in DOMAIN clients, NEW r \in Client,
           clients' = [clients EXCEPT ![c] = r], r.stored => clients[c].stored,
           r.partner = clients[c].partner, r.email.box = clients[c].email.box
    PROVE  FreshOrCarried
BY RowEdited DEF FreshOrCarried, Carried, RowIds

LEMMA RowAppendedFresh ==
    ASSUME TypeInv, NEW r \in Client, AddClient(r), r.partner = 0
    PROVE  FreshOrCarried
BY RowAppended DEF FreshOrCarried, Carried, RowIds

\* A partner's new client: his other rows have other mailboxes.
LEMMA CreateClientDistinct ==
    ASSUME TypeInv, Distinct, NEW scope \in Scopes, NEW partner \in Scopes, NEW e \in Email,
           NEW invites \in BOOLEAN, CreateClient(scope, partner, e, invites)
    PROVE  Distinct'
<1> DEFINE final == IF scope # 0 THEN scope ELSE partner
           r == NewClient(final, 0, Plain(e))
           n == Len(clients) + 1
<1>1. final \in UserId /\ 0 \in UserId
  BY Basics, BoundsAssumption DEF UserId
<1>2. AddClient(r) /\ (final # 0 => RowsInScope(e, final) = {})
  BY DEF CreateClient
<1>3. r \in Client
  BY <1>1, PlainType, NewClientType
<1>4. r.partner = final /\ r.email.box = e.box
  BY DEF NewClient, Plain, Email
<1> HIDE DEF final, r
<1>5. /\ DOMAIN clients' = DOMAIN clients \cup {n} /\ n \notin DOMAIN clients
      /\ clients'[n] = r
      /\ \A d \in DOMAIN clients : clients'[d] = clients[d]
  BY <1>2, <1>3, RowAppended
<1> HIDE DEF n
<1>6. CASE final = 0
  <2>1. FreshOrCarried
    BY <1>2, <1>3, <1>4, <1>6, RowAppendedFresh
  <2> QED
    BY <2>1, DistinctKept
<1>7. CASE final # 0
  <2>1. \A d \in RowIds : clients[d].partner = final => clients[d].email.box # e.box
    BY <1>2, <1>7 DEF RowsInScope
  <2>2. \A d \in RowIds' : d = n \/ (d \in RowIds /\ clients'[d] = clients[d])
    BY <1>5 DEF RowIds
  <2> SUFFICES ASSUME NEW c \in RowIds', NEW d \in RowIds', c # d, clients'[c].partner # 0,
                      clients'[c].partner = clients'[d].partner
               PROVE  clients'[c].email.box # clients'[d].email.box
    BY DEF Distinct
  <2>3. CASE c = n
    BY <1>4, <1>5, <2>1, <2>2, <2>3
  <2>4. CASE d = n
    BY <1>4, <1>5, <2>1, <2>2, <2>4
  <2>5. CASE c # n /\ d # n
    BY <2>2, <2>5 DEF Distinct
  <2> QED
    BY <2>3, <2>4, <2>5
<1> QED
  BY <1>6, <1>7

\* An edited client: the mailbox it moves to is no other row's of its partner.
LEMMA UpdateClientDistinct ==
    ASSUME TypeInv, Distinct, NEW scope, NEW c \in RowIds, NEW e \in Email,
           NEW active \in BOOLEAN, UpdateClient(scope, c, e, active)
    PROVE  Distinct'
<1> DEFINE renames == e.box # clients[c].email.box
           email == IF renames THEN Plain(e) ELSE clients[c].email
           r == [clients[c] EXCEPT !.active = active, !.email = email]
<1>1. c \in DOMAIN clients /\ clients[c] \in Client /\ clients[c].stored
  BY Basics DEF RowIds
<1>2. email \in Email /\ email.box = e.box
  BY <1>1, PlainType DEF Client, Plain, Email
<1>3. /\ clients' = [clients EXCEPT ![c] = r]
      /\ renames => RowsInScope(e, clients[c].partner) \ {c} = {}
  BY <1>1 DEF UpdateClient
<1> HIDE DEF email
<1>4. r \in Client /\ r.partner = clients[c].partner /\ r.email = email /\ r.stored
  BY <1>1, <1>2 DEF Client
<1> HIDE DEF r
<1>5. /\ DOMAIN clients' = DOMAIN clients
      /\ \A d \in DOMAIN clients : clients'[d] = IF d = c THEN r ELSE clients[d]
  BY <1>1, <1>3, <1>4, RowEdited
<1>6. CASE ~renames
  <2>1. FreshOrCarried
    BY <1>1, <1>2, <1>3, <1>4, <1>6, RowEditedCarried
  <2> QED
    BY <2>1, DistinctKept
<1>7. CASE renames
  <2>1. \A d \in RowIds \ {c} :
            clients[d].partner = clients[c].partner => clients[d].email.box # e.box
    BY <1>3, <1>7 DEF RowsInScope
  <2>2. \A d \in RowIds' \ {c} : d \in RowIds /\ clients'[d] = clients[d]
    BY <1>5 DEF RowIds
  <2>3. clients'[c].partner = clients[c].partner /\ clients'[c].email.box = e.box
    BY <1>1, <1>2, <1>4, <1>5
  <2> SUFFICES ASSUME NEW x \in RowIds', NEW y \in RowIds', x # y, clients'[x].partner # 0,
                      clients'[x].partner = clients'[y].partner
               PROVE  clients'[x].email.box # clients'[y].email.box
    BY DEF Distinct
  <2>4. CASE x = c
    BY <2>1, <2>2, <2>3, <2>4
  <2>5. CASE y = c
    BY <2>1, <2>2, <2>3, <2>5
  <2>6. CASE x # c /\ y # c
    BY <2>2, <2>6 DEF Distinct
  <2> QED
    BY <2>4, <2>5, <2>6
<1> QED
  BY <1>6, <1>7

LEMMA FlagsCarried ==
    ASSUME TypeInv, NEW scope, NEW c \in RowIds, ToggleClient(scope, c) \/ DeleteClient(scope, c)
    PROVE  FreshOrCarried
<1>1. c \in DOMAIN clients /\ clients[c] \in Client /\ clients[c].stored
  BY Basics DEF RowIds
<1>2. CASE ToggleClient(scope, c)
  <2> DEFINE r == [clients[c] EXCEPT !.active = ~@]
  <2>1. clients' = [clients EXCEPT ![c] = r]
    BY <1>1, <1>2 DEF ToggleClient
  <2>2. r \in Client /\ r.partner = clients[c].partner /\ r.email = clients[c].email
    BY <1>1 DEF Client
  <2> HIDE DEF r
  <2> QED
    BY <1>1, <2>1, <2>2, RowEditedCarried
<1>3. CASE DeleteClient(scope, c)
  <2> DEFINE r == [clients[c] EXCEPT !.stored = FALSE]
  <2>1. clients' = [clients EXCEPT ![c] = r]
    BY <1>1, <1>3 DEF DeleteClient
  <2>2. r \in Client /\ r.partner = clients[c].partner /\ r.email = clients[c].email
    BY <1>1 DEF Client
  <2> HIDE DEF r
  <2> QED
    BY <1>1, <2>1, <2>2, RowEditedCarried
<1> QED
  BY <1>2, <1>3

\* A row that is given an account keeps the rest.
LEMMA RowLinkedCarried ==
    ASSUME TypeInv, NEW c \in DOMAIN clients, NEW u \in UserId,
           clients' = [clients EXCEPT ![c].user = u]
    PROVE  FreshOrCarried
<1> DEFINE r == [clients[c] EXCEPT !.user = u]
<1>1. clients[c] \in Client
  BY Basics
<1>2. clients' = [clients EXCEPT ![c] = r]
  BY <1>1
<1>3. /\ r \in Client /\ r.partner = clients[c].partner /\ r.email = clients[c].email
      /\ r.stored = clients[c].stored
  BY <1>1 DEF Client
<1> HIDE DEF r
<1> QED
  BY <1>2, <1>3, RowEditedCarried

LEMMA InviteRowCarried ==
    ASSUME TypeInv, NEW c \in DOMAIN clients, InviteRow(c)
    PROVE  FreshOrCarried
<1> DEFINE e == clients[c].email
           u == CHOOSE u \in UserWith(e) : TRUE
<1>1. CASE clients' = clients
  BY <1>1, RowsUnchanged
<1>2. CASE UserWith(e) # {} /\ clients' = [clients EXCEPT ![c].user = u]
  <2>1. u \in UserId
    BY <1>2, Basics DEF UserWith
  <2> HIDE DEF u
  <2> QED
    BY <1>2, <2>1, RowLinkedCarried
<1> QED
  BY <1>1, <1>2 DEF InviteRow

LEMMA RequestRowCarried ==
    ASSUME TypeInv, NEW rows \in SUBSET RowIds, NEW client,
           rows = {} => client \in Client /\ client.partner = 0,
           RequestOfRow(rows, client)
    PROVE  FreshOrCarried
<1>1. CASE rows # {}
  <2>1. PICK c \in rows : clients' = [clients EXCEPT ![c].requests = TRUE]
    BY <1>1 DEF RequestOfRow
  <2> DEFINE r == [clients[c] EXCEPT !.requests = TRUE]
  <2>2. c \in DOMAIN clients /\ clients[c] \in Client
    BY Basics
  <2>3. clients' = [clients EXCEPT ![c] = r]
    BY <2>1, <2>2
  <2>4. /\ r \in Client /\ r.partner = clients[c].partner /\ r.email = clients[c].email
        /\ r.stored = clients[c].stored
    BY <2>2 DEF Client
  <2> HIDE DEF r
  <2> QED
    BY <2>2, <2>3, <2>4, RowEditedCarried
<1>2. CASE rows = {}
  <2> DEFINE r == [client EXCEPT !.requests = TRUE]
  <2>1. r \in Client /\ r.partner = 0
    BY <1>2 DEF Client
  <2>2. AddClient(r)
    BY <1>2 DEF RequestOfRow, AddClient
  <2> HIDE DEF r
  <2> QED
    BY <2>1, <2>2, RowAppendedFresh
<1> QED
  BY <1>1, <1>2

LEMMA WizardRequestCarried ==
    ASSUME TypeInv, NEW u \in Ids, WizardRequest(u)
    PROVE  FreshOrCarried
<1> DEFINE e == users[u].email
           r == NewClient(0, u, e)
<1>1. u \in UserId /\ 0 \in UserId /\ e \in Email
  BY Basics, UserFields, BoundsAssumption DEF UserId
<1>2. r \in Client /\ r.partner = 0
  BY <1>1, NewClientType DEF NewClient
<1>3. RowsWith(e) \in SUBSET RowIds /\ RequestOfRow(RowsWith(e), r)
  BY DEF RowsWith, WizardRequest
<1> HIDE DEF e, r
<1> QED
  BY <1>2, <1>3, RequestRowCarried

LEMMA ListRequestsCarried ==
    ASSUME TypeInv, NEW u \in Ids, ListRequests(u)
    PROVE  FreshOrCarried
<1> DEFINE row(c) == IF c \in RowIds /\ clients[c].user = 0
                            /\ clients[c].email.box = users[u].email.box
                     THEN [clients[c] EXCEPT !.user = u] ELSE clients[c]
<1>1. clients' = [c \in DOMAIN clients |-> row(c)]
  BY DEF ListRequests
<1>2. \A c \in DOMAIN clients : /\ row(c).partner = clients[c].partner
                                /\ row(c).email = clients[c].email
                                /\ row(c).stored = clients[c].stored
  BY Basics DEF Client
<1> HIDE DEF row
<1> QED
  BY <1>1, <1>2 DEF FreshOrCarried, Carried, RowIds

\* A step of a world without the careless handlers.
LEMMA RegisterRowCarried == ASSUME TypeInv, RegisterRow PROVE FreshOrCarried
<1> DEFINE r == NewClient(0, task.user, users[task.user].email)
<1>1. task.user \in Ids
  BY AtFacts DEF RegisterRow, TypeInv, TaskOK
<1>2. 0 \in UserId /\ task.user \in UserId /\ users[task.user] \in User
  BY <1>1, Basics, BoundsAssumption DEF UserId
<1>3. r \in Client /\ r.partner = 0 /\ AddClient(r)
  BY <1>2, UserFields, NewClientType DEF NewClient, RegisterRow
<1> HIDE DEF r
<1> QED
  BY <1>3, RowAppendedFresh

LEMMA LinkCarried == ASSUME TypeInv, Link PROVE FreshOrCarried
<1>1. task.client \in DOMAIN clients /\ task.user \in UserId
  BY AtFacts DEF Link, TypeInv, TypeOK, TaskOK, Task
<1>2. clients' = [clients EXCEPT ![task.client].user = task.user]
  BY DEF Link
<1> QED
  BY <1>1, <1>2, RowLinkedCarried

Twinless == ops \cap Careless = {} /\ task.pc \notin {"mirror", "rows"} /\ Distinct

\* Where a step may leave the handler.
TaskFar == task'.pc \notin {"mirror", "rows"}

LEMMA IdleFar == ASSUME task' = Idle PROVE TaskFar
BY DEF Idle, TaskFar

LEMMA TwinsStay ==
    ASSUME Twinless, FreshOrCarried, TaskFar
    PROVE  task'.pc \notin {"mirror", "rows"} /\ Distinct'
BY DistinctKept DEF Twinless, TaskFar

LEMMA TwinsStaff == ASSUME TypeInv, Twinless, StaffCalls PROVE TaskFar /\ Distinct'
<1>1. ASSUME NEW u, NEW e, NEW active, UpdateUserOnly(u, e, active) PROVE FALSE
  BY <1>1 DEF UpdateUserOnly, Begins, Twinless, Careless
<1>2. CASE UNCHANGED <<clients, task>>
  BY <1>2, RowsUnchanged, TwinsStay DEF Twinless, TaskFar
<1> QED
  BY <1>1, <1>2 DEF StaffCalls, CreateUser, ToggleUser, UpdateStaff, ConvertToPartner

LEMMA TwinsOwn == ASSUME TypeInv, Twinless, OwnCalls PROVE TaskFar /\ Distinct'
<1>1. ASSUME NEW u, NEW e, ConfirmEmailChange(u, e) PROVE FALSE
  BY <1>1 DEF ConfirmEmailChange, Begins, Twinless, Careless
<1>2. ASSUME NEW u, NEW e, NEW type, NEW active,
             \/ UpdateUserById(u, e, type, active) \/ UpdateCurrentUser(u, type, active)
             \/ RequestEmailChange(u, e) \/ ConfirmEmail(u)
      PROVE  TaskFar /\ Distinct'
  <2>1. UNCHANGED <<clients, task>>
    BY <1>2 DEF UpdateUserById, UpdateCurrentUser, RequestEmailChange, ConfirmEmail
  <2> QED
    BY <2>1, RowsUnchanged, TwinsStay DEF Twinless, TaskFar
<1>3. ASSUME NEW e, Register(e) PROVE TaskFar /\ Distinct'
  <2>1. clients' = clients /\ task' = [Idle EXCEPT !.pc = "row", !.user = Len(users) + 1]
    BY <1>3 DEF Register
  <2>2. TaskFar
    BY <2>1 DEF Idle, TaskFar
  <2> QED
    BY <2>1, <2>2, RowsUnchanged, TwinsStay
<1>4. ASSUME NEW u \in Ids, WizardRequest(u) \/ ListRequests(u) PROVE TaskFar /\ Distinct'
  <2>1. task' = task
    BY <1>4 DEF WizardRequest, ListRequests
  <2>2. FreshOrCarried
    BY <1>4, WizardRequestCarried, ListRequestsCarried
  <2> QED
    BY <2>1, <2>2, TwinsStay DEF Twinless, TaskFar
<1> QED
  BY <1>1, <1>2, <1>3, <1>4 DEF OwnCalls

LEMMA InviteFar ==
    ASSUME Twinless, NEW c, InviteRow(c)
    PROVE  TaskFar
<1>1. CASE task' = [Idle EXCEPT !.pc = "link", !.client = c, !.user = Len(users) + 1]
  BY <1>1 DEF Idle, TaskFar
<1>2. CASE task' = Idle
  BY <1>2, IdleFar
<1> QED
  BY <1>1, <1>2 DEF InviteRow, Done

LEMMA TwinsClients == ASSUME TypeInv, Twinless, ClientCalls PROVE TaskFar /\ Distinct'
<1>1. \A e \in Typed : e \in Email
  BY TypedAssumption
<1>2. PICK scope \in Scopes :
        \/ \E partner \in Scopes, e \in Typed, invites \in BOOLEAN :
                CreateClient(scope, partner, e, invites)
        \/ \E c \in RowIds :
            \/ \E e \in Typed, active \in BOOLEAN : UpdateClient(scope, c, e, active)
            \/ ToggleClient(scope, c) \/ DeleteClient(scope, c) \/ Invite(scope, c)
  BY DEF ClientCalls
<1>3. ASSUME NEW partner \in Scopes, NEW e \in Typed, NEW invites \in BOOLEAN,
             CreateClient(scope, partner, e, invites)
      PROVE  TaskFar /\ Distinct'
  <2>1. TaskFar
    BY <1>3 DEF CreateClient, Idle, TaskFar
  <2> QED
    BY <1>1, <1>3, <2>1, CreateClientDistinct DEF Twinless
<1>4. ASSUME NEW c \in RowIds, NEW e \in Typed, NEW active \in BOOLEAN,
             UpdateClient(scope, c, e, active)
      PROVE  TaskFar /\ Distinct'
  <2>1. TaskFar
    BY <1>4 DEF UpdateClient, Idle, TaskFar
  <2> QED
    BY <1>1, <1>4, <2>1, UpdateClientDistinct DEF Twinless
<1>5. ASSUME NEW c \in RowIds, ToggleClient(scope, c) \/ DeleteClient(scope, c)
      PROVE  TaskFar /\ Distinct'
  <2>1. TaskFar
    BY <1>5 DEF ToggleClient, DeleteClient, TaskFar, Twinless
  <2> QED
    BY <1>5, <2>1, FlagsCarried, TwinsStay
<1>6. ASSUME NEW c \in RowIds, Invite(scope, c) PROVE TaskFar /\ Distinct'
  <2>1. InviteRow(c) /\ c \in DOMAIN clients
    BY <1>6, Basics DEF Invite
  <2> QED
    BY <2>1, InviteFar, InviteRowCarried, TwinsStay
<1> QED
  BY <1>2, <1>3, <1>4, <1>5, <1>6

LEMMA TwinsRequests == ASSUME Twinless, RequestCalls PROVE FALSE
<1>1. ASSUME NEW p, NEW e, RequestForEmail(p, e) \/ RequestForId(p, e) \/ ImportAccount(e, p)
      PROVE  FALSE
  <2>1. Begins("request") \/ Begins("import")
    BY <1>1 DEF RequestForEmail, RequestForId, ImportAccount
  <2> QED
    BY <2>1 DEF Begins, Twinless, Careless
<1> QED
  BY <1>1 DEF RequestCalls

LEMMA TwinsContinue == ASSUME TypeInv, Twinless, Continue PROVE TaskFar /\ Distinct'
<1>1. ~Mirror /\ ~UpdateLinkedRow
  BY DEF Mirror, UpdateLinkedRow, At, Twinless
<1>2. CASE Sync \/ Stop
  <2>1. clients' = clients /\ task' = Idle
    BY <1>2 DEF Sync, Stop, Done
  <2> QED
    BY <2>1, RowsUnchanged, IdleFar, TwinsStay
<1>3. CASE Link
  BY <1>3, LinkCarried, IdleFar, TwinsStay DEF Link, Done
<1>4. CASE RegisterRow
  BY <1>4, RegisterRowCarried, IdleFar, TwinsStay DEF RegisterRow, Done
<1>5. CASE InviteCreated
  <2>1. InviteRow(task.client) /\ task.client \in DOMAIN clients
    BY <1>5, AtFacts DEF InviteCreated, TypeInv, TaskOK
  <2> QED
    BY <2>1, InviteFar, InviteRowCarried, TwinsStay
<1> QED
  BY <1>1, <1>2, <1>3, <1>4, <1>5 DEF Continue

LEMMA TwinStep == TypeInv /\ TwinInv /\ [Next]_vars => TwinInv'
<1> SUFFICES ASSUME TypeInv, TwinInv, [Next]_vars, ops' \cap Careless = {}
             PROVE  task'.pc \notin {"mirror", "rows"} /\ Distinct'
  BY DEF TwinInv
<1>1. CASE UNCHANGED vars
  BY <1>1 DEF vars, TwinInv, Distinct, RowIds
<1>2. CASE Next
  <2>1. ops' = ops
    BY <1>2, OpsFixed
  <2>2. Twinless
    BY <2>1 DEF TwinInv, Twinless
  <2> QED
    BY <1>2, <2>2, TwinsStaff, TwinsOwn, TwinsClients, TwinsRequests, TwinsContinue
       DEF Next, TaskFar
<1> QED
  BY <1>1, <1>2

\* While the handlers that do not look for another row do not run, createClient,
\* updateClient, the invitations, the wizard and a client who lists his requests
\* never give a partner two clients with one mailbox.
THEOREM NoTwinsAlways ==
    ASSUME TwinsToBegin
    PROVE  Spec => []NoTwins
<1>1. Init => TwinInv
  <2> SUFFICES ASSUME Init, ops \cap Careless = {}
               PROVE  task.pc \notin {"mirror", "rows"} /\ Distinct
    BY DEF TwinInv
  <2>1. PICK world \in Worlds :
            ops = world.ops /\ users = world.users /\ clients = world.clients
    BY DEF Init
  <2>2. Distinct
    BY <2>1 DEF TwinsToBegin, Distinct, RowIds
  <2> QED
    BY <2>2 DEF Init, Idle
<1>2. TwinInv => NoTwins
  BY DEF TwinInv, NoTwins, Distinct
<1> QED
  BY <1>1, <1>2, TwinStep, TypeInvAlways, PTL DEF Spec

-----------------------------------------------------------------------------
(* Rows and accounts agree.                                                *)
(* Links are never taken back, so an account's only row was its only row   *)
(* before the step, or has just been linked to it.  In the first case both *)
(* keep their mailboxes, or the handler under way is bringing them         *)
(* together; in the second the row is linked by the mailbox.               *)

\* The account whose mailbox, or whose row's, the handler under way is changing.
Pending ==
    IF task.pc \in {"mirror", "rows"} \/ (task.pc = "sync" /\ task.renames)
    THEN {task.user} ELSE {}

\* A row's account exists.
Owned == \A c \in DOMAIN clients : clients[c].user \in Ids \cup {0}

SameBox(c, u) == clients[c].email.box = users[u].email.box

Agree ==
    \A u \in Ids \ Pending : \A c \in RowIds :
        (Portal(u) /\ Linked(u) = {c}) => SameBox(c, u)

\* What the handler under way has still to bring together.
HalfDone ==
    /\ task.pc = "rows" =>
          /\ task.rows # {} /\ task.rows \subseteq Linked(task.user)
          /\ \A c \in Linked(task.user) \ task.rows : SameBox(c, task.user)
    /\ (task.pc = "sync" /\ task.renames) =>
          /\ task.client \in Linked(task.user)
          /\ MayTake(task.user, clients[task.client].email)
    /\ task.pc \in {"invite", "link"} => clients[task.client].user = 0
    /\ task.pc = "link" =>
          task.user \in Ids /\ users[task.user].email = clients[task.client].email

Agreed == Owned /\ Agree /\ HalfDone

AgreeInv == ops \cap OneSided = {} => Agreed

\* No row is deleted, and none changes an account it has.
LinksKept ==
    \A c \in RowIds : c \in RowIds' /\ (clients[c].user # 0 => clients'[c].user = clients[c].user)

\* The row and the account had each other and keep their mailboxes.
Undisturbed(c, u) ==
    /\ u \in Ids \ Pending /\ Portal(u) /\ c \in Linked(u)
    /\ clients'[c].email.box = clients[c].email.box
    /\ users'[u].email.box = users[u].email.box

UsersGrown == Ids \subseteq Ids' /\ \A v \in Ids : users'[v] = users[v]

LEMMA IdsPositive == ASSUME TypeInv PROVE 0 \notin Ids
BY Basics

LEMMA IdsStayPositive == ASSUME TypeInv' PROVE 0 \notin Ids'
<1>1. users' \in Seq(User)
  BY DEF TypeInv, TypeOK
<1> QED
  BY <1>1, LenProperties DEF Ids

LEMMA AgreeGrows ==
    ASSUME TypeInv, Agree, LinksKept,
           \A u \in Ids' \ Pending' : \A c \in RowIds' :
               (Portal(u)' /\ Linked(u)' = {c}) => SameBox(c, u)' \/ Undisturbed(c, u)
    PROVE  Agree'
<1> SUFFICES ASSUME NEW u \in Ids' \ Pending', NEW c \in RowIds', Portal(u)', Linked(u)' = {c}
             PROVE  SameBox(c, u)'
  BY DEF Agree
<1>1. CASE SameBox(c, u)'
  BY <1>1
<1>2. CASE Undisturbed(c, u)
  <2>1. \A d \in Linked(u) : d \in Linked(u)'
    BY <1>2, IdsPositive DEF Linked, LinksKept, Undisturbed
  <2>2. Linked(u) = {c}
    BY <1>2, <2>1 DEF Undisturbed
  <2>3. SameBox(c, u)
    BY <1>2, <2>2 DEF Agree, Undisturbed, Linked
  <2> QED
    BY <1>2, <2>3 DEF SameBox, Undisturbed
<1> QED
  BY <1>1, <1>2

LEMMA IdleClear == ASSUME task = Idle PROVE Pending = {}
BY DEF Idle, Pending

LEMMA IdleDone == ASSUME task' = Idle PROVE Pending' = {} /\ HalfDone'
<1>1. task'.pc = "idle"
  BY DEF Idle
<1> QED
  BY <1>1 DEF Pending, HalfDone

\* A step that writes accounts only.
LEMMA UsersOnly ==
    ASSUME TypeInv, TypeInv', Owned, Agree, clients' = clients, Ids \subseteq Ids',
           \A v \in Ids \ Pending' : Portal(v)' =>
               \/ v \notin Pending /\ Portal(v) /\ users'[v].email.box = users[v].email.box
               \/ \A c \in RowIds : Linked(v) = {c} => clients[c].email.box = users'[v].email.box
    PROVE  Owned' /\ Agree'
<1>1. RowIds' = RowIds /\ \A v : Linked(v)' = Linked(v)
  BY DEF RowIds, Linked
<1>2. LinksKept
  BY <1>1 DEF LinksKept
<1>3. \A u \in Ids' \ Pending' : \A c \in RowIds' :
         (Portal(u)' /\ Linked(u)' = {c}) => SameBox(c, u)' \/ Undisturbed(c, u)
  <2> SUFFICES ASSUME NEW u \in Ids' \ Pending', NEW c \in RowIds', Portal(u)', Linked(u)' = {c}
               PROVE  SameBox(c, u)' \/ Undisturbed(c, u)
    OBVIOUS
  <2>1. Linked(u) = {c} /\ c \in RowIds /\ clients[c].user = u
    BY <1>1 DEF Linked
  <2>2. u \in Ids
    <3>1. clients[c].user \in Ids \cup {0} /\ 0 \notin Ids'
      BY <2>1, IdsStayPositive, Basics DEF Owned
    <3> QED
      BY <2>1, <3>1
  <2>3. CASE u \notin Pending /\ Portal(u) /\ users'[u].email.box = users[u].email.box
    BY <2>1, <2>2, <2>3 DEF Undisturbed
  <2>4. CASE clients[c].email.box = users'[u].email.box
    BY <2>4 DEF SameBox
  <2> QED
    BY <2>1, <2>2, <2>3, <2>4
<1>4. Owned'
  BY DEF Owned
<1> QED
  BY <1>2, <1>3, <1>4, AgreeGrows

\* A step that writes one row, and may add accounts.
LEMMA RowOnly ==
    ASSUME TypeInv, TypeInv', Owned, Agree, UsersGrown, NEW c \in DOMAIN clients, NEW r \in Client,
           clients' = [clients EXCEPT ![c] = r], r.stored = clients[c].stored,
           clients[c].user # 0 => r.user = clients[c].user,
           r.user \in Ids' \cup {0},
           \/ r.user \in Pending' \cup {0}
           \/ r.email.box = users'[r.user].email.box
           \/ r.user = clients[c].user /\ r.email.box = clients[c].email.box,
           \/ Pending \subseteq Pending'
           \/ Pending = {r.user} /\ r.stored /\ r.email.box = users'[r.user].email.box
    PROVE  Owned' /\ Agree'
<1>1. /\ DOMAIN clients' = DOMAIN clients
      /\ \A d \in DOMAIN clients : clients'[d] = IF d = c THEN r ELSE clients[d]
  BY RowEdited
<1>2. RowIds' = RowIds
  BY <1>1 DEF RowIds
<1>3. LinksKept
  BY <1>1, <1>2 DEF LinksKept, RowIds
<1>4. Owned'
  BY <1>1 DEF Owned, UsersGrown
<1>5. \A u \in Ids' \ Pending' : \A d \in RowIds' :
         (Portal(u)' /\ Linked(u)' = {d}) => SameBox(d, u)' \/ Undisturbed(d, u)
  <2> SUFFICES ASSUME NEW u \in Ids' \ Pending', NEW d \in RowIds', Portal(u)', Linked(u)' = {d}
               PROVE  SameBox(d, u)' \/ Undisturbed(d, u)
    OBVIOUS
  <2>1. d \in RowIds /\ d \in DOMAIN clients /\ clients'[d].user = u
    BY <1>2 DEF Linked, RowIds
  <2>2. u # 0
    BY IdsStayPositive
  <2>3. CASE d = c
    <3>1. clients'[d] = r /\ r.user = u
      BY <1>1, <2>1, <2>3
    <3>2. CASE r.email.box = users'[r.user].email.box
      BY <3>1, <3>2 DEF SameBox
    <3>3. CASE r.user = clients[c].user /\ r.email.box = clients[c].email.box
      <4>1. u \in Ids
        BY <2>2, <3>1, <3>3 DEF Owned
      <4>2. users'[u] = users[u] /\ Portal(u) /\ c \in Linked(u)
        BY <2>1, <2>3, <3>1, <3>3, <4>1 DEF UsersGrown, Portal, Linked
      <4>3. CASE Pending \subseteq Pending'
        BY <2>3, <3>1, <3>3, <4>1, <4>2, <4>3 DEF Undisturbed
      <4>4. CASE Pending = {r.user} /\ r.stored /\ r.email.box = users'[r.user].email.box
        BY <3>1, <4>4 DEF SameBox
      <4> QED
        BY <4>3, <4>4
    <3> QED
      BY <2>2, <3>1, <3>2, <3>3
  <2>4. CASE d # c
    <3>1. clients'[d] = clients[d] /\ clients[d].user = u
      BY <1>1, <2>1, <2>4
    <3>2. u \in Ids
      BY <2>1, <2>2, <3>1 DEF Owned
    <3>3. users'[u] = users[u] /\ Portal(u) /\ d \in Linked(u)
      BY <2>1, <3>1, <3>2 DEF UsersGrown, Portal, Linked
    <3>4. CASE Pending \subseteq Pending'
      BY <3>1, <3>2, <3>3, <3>4 DEF Undisturbed
    <3>5. CASE Pending = {r.user} /\ r.stored /\ r.email.box = users'[r.user].email.box
      <4>1. u # r.user
        BY <1>1, <1>2, <2>4, <3>5 DEF Linked, RowIds
      <4> QED
        BY <3>1, <3>2, <3>3, <3>5, <4>1 DEF Undisturbed
    <3> QED
      BY <3>4, <3>5
  <2> QED
    BY <2>3, <2>4
<1> QED
  BY <1>3, <1>4, <1>5, AgreeGrows

\* A step that adds one row, and may add accounts.
LEMMA RowMore ==
    ASSUME TypeInv, TypeInv', Owned, Agree, UsersGrown, NEW r \in Client, AddClient(r),
           Pending \subseteq Pending',
           r.user = 0 \/ (r.user \in Ids' /\ r.email.box = users'[r.user].email.box)
    PROVE  Owned' /\ Agree'
<1> DEFINE n == Len(clients) + 1
<1>1. /\ DOMAIN clients' = DOMAIN clients \cup {n} /\ n \notin DOMAIN clients
      /\ clients'[n] = r
      /\ \A d \in DOMAIN clients : clients'[d] = clients[d]
  BY RowAppended
<1> HIDE DEF n
<1>2. RowIds \subseteq RowIds'
  BY <1>1 DEF RowIds
<1>3. LinksKept
  BY <1>1, <1>2 DEF LinksKept, RowIds
<1>4. Owned'
  BY <1>1 DEF Owned, UsersGrown
<1>5. \A u \in Ids' \ Pending' : \A d \in RowIds' :
         (Portal(u)' /\ Linked(u)' = {d}) => SameBox(d, u)' \/ Undisturbed(d, u)
  <2> SUFFICES ASSUME NEW u \in Ids' \ Pending', NEW d \in RowIds', Portal(u)', Linked(u)' = {d}
               PROVE  SameBox(d, u)' \/ Undisturbed(d, u)
    OBVIOUS
  <2>1. clients'[d].user = u /\ u # 0
    BY IdsStayPositive DEF Linked
  <2>2. CASE d = n
    BY <1>1, <2>1, <2>2 DEF SameBox
  <2>3. CASE d # n
    <3>1. d \in DOMAIN clients /\ clients'[d] = clients[d] /\ d \in RowIds
      BY <1>1, <2>3 DEF RowIds
    <3>2. u \in Ids
      BY <2>1, <3>1 DEF Owned
    <3>3. users'[u] = users[u] /\ Portal(u) /\ d \in Linked(u)
      BY <2>1, <3>1, <3>2 DEF UsersGrown, Portal, Linked
    <3> QED
      BY <3>1, <3>2, <3>3 DEF Undisturbed
  <2> QED
    BY <2>2, <2>3
<1> QED
  BY <1>3, <1>4, <1>5, AgreeGrows

LEMMA AccountAdded ==
    ASSUME TypeInv, NEW r \in User, AddUser(r)
    PROVE  /\ UsersGrown /\ Ids' = Ids \cup {Len(users) + 1}
           /\ users'[Len(users) + 1] = r
<1>1. users \in Seq(User) /\ Ids = 1..Len(users) /\ Len(users) \in Nat
  BY Basics, LenProperties
<1>2. users' = Append(users, r)
  BY DEF AddUser
<1>3. /\ users' \in Seq(User) /\ Len(users') = Len(users) + 1
      /\ \A j \in 1..Len(users) : users'[j] = users[j]
      /\ users'[Len(users) + 1] = r
  BY <1>1, <1>2
<1>4. Ids' = 1..(Len(users) + 1)
  BY <1>3, LenProperties DEF Ids
<1> QED
  BY <1>1, <1>3, <1>4 DEF UsersGrown

\* One account is written.
LEMMA AccountOnly ==
    ASSUME TypeInv, TypeInv', Owned, Agree, clients' = clients, NEW u \in Ids, NEW r,
           users' = [users EXCEPT ![u] = r], r.type = "client" => users[u].type = "client",
           Pending \subseteq {u},
           \/ u \in Pending'
           \/ Pending = {} /\ r.email.box = users[u].email.box
           \/ \A c \in RowIds : Linked(u) = {c} => clients[c].email.box = r.email.box
    PROVE  Owned' /\ Agree'
<1>1. Ids' = Ids /\ \A v \in Ids : users'[v] = IF v = u THEN r ELSE users[v]
  <2>1. users \in [Ids -> User]
    BY Basics
  <2> QED
    BY <2>1 DEF Ids
<1>2. ASSUME NEW v \in Ids \ Pending', Portal(v)'
      PROVE  \/ v \notin Pending /\ Portal(v) /\ users'[v].email.box = users[v].email.box
             \/ \A c \in RowIds : Linked(v) = {c} => clients[c].email.box = users'[v].email.box
  <2>1. CASE v = u
    BY <1>1, <1>2, <2>1 DEF Portal
  <2>2. CASE v # u
    BY <1>1, <1>2, <2>2 DEF Portal
  <2> QED
    BY <2>1, <2>2
<1> QED
  BY <1>1, <1>2, UsersOnly

\* An account is added, and no row.
LEMMA AccountMore ==
    ASSUME TypeInv, TypeInv', Owned, Agree, clients' = clients, NEW r \in User, AddUser(r),
           Pending = {}
    PROVE  Owned' /\ Agree'
<1>1. Ids \subseteq Ids' /\ \A v \in Ids : users'[v] = users[v]
  BY AccountAdded DEF UsersGrown
<1>2. \A v \in Ids \ Pending' : Portal(v)' =>
         v \notin Pending /\ Portal(v) /\ users'[v].email.box = users[v].email.box
  BY <1>1 DEF Portal
<1> QED
  BY <1>1, <1>2, UsersOnly

\* A handler of one statement that writes an account and leaves its mailbox.
LEMMA AccountCallAgrees ==
    ASSUME TypeInv, TypeInv', Agreed, NEW op, Begins(op), UNCHANGED <<clients, task>>,
           NEW u \in Ids, NEW r, users' = [users EXCEPT ![u] = r],
           r.type = "client" => users[u].type = "client",
           r.email.box = users[u].email.box
    PROVE  Agreed'
<1>1. task = Idle /\ task' = Idle
  BY BeginsFacts
<1>2. Pending = {}
  BY <1>1, IdleClear
<1>3. Owned' /\ Agree'
  BY <1>2, AccountOnly DEF Agreed
<1> QED
  BY <1>1, <1>3, IdleDone DEF Agreed

LEMMA StaffAgree ==
    ASSUME TypeInv, TypeInv', Agreed, NEW u \in Ids,
           \/ \E actor \in Ids : ToggleUser(actor, u)
           \/ \E type \in {"admin", "user"} : UpdateStaff(u, type)
           \/ ConfirmEmail(u)
           \/ \E e \in Email : RequestEmailChange(u, e)
    PROVE  Agreed'
<1>1. users[u] \in User
  BY Basics
<1>2. ASSUME NEW actor, ToggleUser(actor, u) PROVE Agreed'
  <2> DEFINE r == [users[u] EXCEPT !.active = ~@]
  <2>1. /\ users' = [users EXCEPT ![u] = r] /\ Begins("toggleUser")
        /\ UNCHANGED <<clients, task>>
    BY <1>2 DEF ToggleUser
  <2>2. r.type = users[u].type /\ r.email = users[u].email
    BY <1>1 DEF User
  <2> HIDE DEF r
  <2> QED
    BY <2>1, <2>2, AccountCallAgrees
<1>3. ASSUME NEW type \in {"admin", "user"}, UpdateStaff(u, type) PROVE Agreed'
  <2> DEFINE r == [users[u] EXCEPT !.type = type]
  <2>1. users' = [users EXCEPT ![u] = r] /\ Begins("staff") /\ UNCHANGED <<clients, task>>
    BY <1>3 DEF UpdateStaff
  <2>2. r.type # "client" /\ r.email = users[u].email
    BY <1>1 DEF User
  <2> HIDE DEF r
  <2> QED
    BY <2>1, <2>2, AccountCallAgrees
<1>4. CASE ConfirmEmail(u)
  <2> DEFINE r == [users[u] EXCEPT !.verified = TRUE, !.code = FALSE]
  <2>1. users' = [users EXCEPT ![u] = r] /\ Begins("register") /\ UNCHANGED <<clients, task>>
    BY <1>4 DEF ConfirmEmail
  <2>2. r.type = users[u].type /\ r.email = users[u].email
    BY <1>1 DEF User
  <2> HIDE DEF r
  <2> QED
    BY <2>1, <2>2, AccountCallAgrees
<1>5. ASSUME NEW e, RequestEmailChange(u, e) PROVE Agreed'
  <2> DEFINE r == [users[u] EXCEPT !.change = {e}, !.code = FALSE]
  <2>1. users' = [users EXCEPT ![u] = r] /\ Begins("change") /\ UNCHANGED <<clients, task>>
    BY <1>5 DEF RequestEmailChange
  <2>2. r.type = users[u].type /\ r.email = users[u].email
    BY <1>1 DEF User
  <2> HIDE DEF r
  <2> QED
    BY <2>1, <2>2, AccountCallAgrees
<1> QED
  BY <1>2, <1>3, <1>4, <1>5

LEMMA ConvertAgrees ==
    ASSUME TypeInv, TypeInv', Agreed, NEW id, NEW userOnly, ConvertToPartner(id, userOnly)
    PROVE  Agreed'
<1>1. PICK u \in Ids : users' = [users EXCEPT ![u].type = "partner"]
  BY DEF ConvertToPartner, Portal
<1> DEFINE r == [users[u] EXCEPT !.type = "partner"]
<1>2. users' = [users EXCEPT ![u] = r] /\ users[u] \in User
  BY <1>1, Basics
<1>3. r.type # "client" /\ r.email = users[u].email
  BY <1>2 DEF User
<1>4. Begins("convert") /\ UNCHANGED <<clients, task>>
  BY DEF ConvertToPartner
<1> HIDE DEF r
<1> QED
  BY <1>2, <1>3, <1>4, AccountCallAgrees

LEMMA CreateUserAgrees ==
    ASSUME TypeInv, TypeInv', Agreed, NEW type \in Type, NEW e \in Email, CreateUser(type, e)
    PROVE  Agreed'
<1>1. AddUser(NewUser(type, e)) /\ clients' = clients /\ task = Idle /\ task' = Idle
  BY BeginsFacts DEF CreateUser
<1>2. NewUser(type, e) \in User
  BY NewUserType
<1>3. Owned' /\ Agree'
  BY <1>1, <1>2, IdleClear, AccountMore DEF Agreed
<1> QED
  BY <1>1, <1>3, IdleDone DEF Agreed

\* The account has its new address; its row follows.
LEMMA ConfirmEmailChangeAgrees ==
    ASSUME TypeInv, TypeInv', Agreed, NEW u \in Ids, NEW e \in Email, ConfirmEmailChange(u, e)
    PROVE  Agreed'
<1> DEFINE r == [users[u] EXCEPT !.email = e, !.change = {}]
<1>1. /\ users' = [users EXCEPT ![u] = r] /\ clients' = clients /\ task = Idle
      /\ task' = [Idle EXCEPT !.pc = "mirror", !.user = u]
  BY BeginsFacts DEF ConfirmEmailChange
<1>2. r.type = users[u].type
  BY Basics DEF User
<1> HIDE DEF r
<1>3. task'.pc = "mirror" /\ task'.user = u
  BY <1>1 DEF Idle
<1>4. Pending = {} /\ Pending' = {u}
  BY <1>1, <1>3, IdleClear DEF Pending
<1>5. Owned' /\ Agree'
  BY <1>1, <1>2, <1>4, AccountOnly DEF Agreed
<1>6. HalfDone'
  BY <1>3 DEF HalfDone
<1> QED
  BY <1>5, <1>6 DEF Agreed

\* The account has its new address; the rows linked to it follow one by one.
LEMMA UpdateUserOnlyAgrees ==
    ASSUME TypeInv, TypeInv', Agreed, NEW u \in Ids, NEW e \in Email, NEW active \in BOOLEAN,
           UpdateUserOnly(u, e, active)
    PROVE  Agreed'
<1> DEFINE now == IF e.box # users[u].email.box THEN Plain(e) ELSE users[u].email
           r == [users[u] EXCEPT !.email = now, !.active = active]
<1>1. /\ users' = [users EXCEPT ![u] = r] /\ clients' = clients /\ task = Idle
      /\ task' = IF Linked(u) = {} THEN Idle
                 ELSE [Idle EXCEPT !.pc = "rows", !.user = u, !.rows = Linked(u),
                                   !.active = active]
  BY BeginsFacts DEF UpdateUserOnly
<1>2. r.type = users[u].type
  BY Basics DEF User
<1> HIDE DEF r
<1>3. Pending = {}
  BY <1>1, IdleClear
<1>4. CASE Linked(u) = {}
  <2>1. \A c \in RowIds : Linked(u) = {c} => clients[c].email.box = r.email.box
    BY <1>4
  <2>2. Owned' /\ Agree'
    BY <1>1, <1>2, <1>3, <2>1, AccountOnly DEF Agreed
  <2> QED
    BY <1>1, <1>4, <2>2, IdleDone DEF Agreed
<1>5. CASE Linked(u) # {}
  <2>1. task'.pc = "rows" /\ task'.user = u /\ task'.rows = Linked(u)
    BY <1>1, <1>5 DEF Idle
  <2>2. Pending' = {u}
    BY <2>1 DEF Pending
  <2>3. Owned' /\ Agree'
    BY <1>1, <1>2, <1>3, <2>2, AccountOnly DEF Agreed
  <2>4. Linked(u)' = Linked(u)
    BY <1>1 DEF Linked, RowIds
  <2>5. HalfDone'
    BY <1>5, <2>1, <2>4 DEF HalfDone
  <2> QED
    BY <2>3, <2>5 DEF Agreed
<1> QED
  BY <1>4, <1>5

\* The account takes its row's address, or has it already.
LEMMA SyncAgrees == ASSUME TypeInv, TypeInv', Agreed, Sync PROVE Agreed'
<1> DEFINE u == task.user
           e == IF task.renames THEN clients[task.client].email ELSE users[u].email
           r == [users[u] EXCEPT !.email = e, !.active = task.active]
<1>1. task.pc = "sync" /\ clients' = clients /\ task' = Idle
  BY AtFacts DEF Sync, Done
<1>2. Pending' = {} /\ HalfDone'
  BY <1>1, IdleDone
<1>3. Pending = IF task.renames THEN {u} ELSE {}
  BY <1>1 DEF Pending
<1>4. task.renames => /\ task.client \in Linked(u)
                      /\ MayTake(u, clients[task.client].email)
  BY <1>1 DEF Agreed, HalfDone
<1>5. task.renames => \A c \in RowIds : Linked(u) = {c} => c = task.client
  BY <1>4
<1>6. CASE Portal(u) /\ ~Clashes(u, e)
  <2>1. users' = [users EXCEPT ![u] = r] /\ u \in Ids /\ users[u] \in User
    BY <1>6, Basics DEF Sync, Portal
  <2>2. r.type = users[u].type /\ r.email = e
    BY <2>1 DEF User
  <2>3. \/ Pending = {} /\ r.email.box = users[u].email.box
        \/ \A c \in RowIds : Linked(u) = {c} => clients[c].email.box = r.email.box
    BY <1>3, <1>5, <2>2
  <2> HIDE DEF r
  <2>4. Owned' /\ Agree'
    BY <1>1, <1>3, <2>1, <2>2, <2>3, AccountOnly DEF Agreed
  <2> QED
    BY <1>2, <2>4 DEF Agreed
<1>7. CASE ~(Portal(u) /\ ~Clashes(u, e))
  <2>1. users' = users /\ Ids' = Ids
    BY <1>7 DEF Sync, Ids
  <2>2. ASSUME NEW v \in Ids \ Pending', Portal(v)'
        PROVE  \/ v \notin Pending /\ Portal(v) /\ users'[v].email.box = users[v].email.box
               \/ \A c \in RowIds : Linked(v) = {c} => clients[c].email.box = users'[v].email.box
    <3>1. Portal(v)
      BY <2>1, <2>2 DEF Portal
    <3>2. CASE v \notin Pending
      BY <2>1, <3>1, <3>2
    <3>3. CASE v \in Pending
      <4>1. task.renames /\ v = u /\ e = clients[task.client].email
        BY <1>3, <3>3
      <4>2. PICK w \in Ids \ {u} : users[w].email = e
        BY <1>7, <3>1, <4>1 DEF Clashes
      <4>3. UsersOfBox(e) # {}
        BY <4>2 DEF UsersOfBox
      <4>4. u \in UsersOfBox(e)
        BY <1>4, <4>1, <4>3 DEF MayTake
      <4>5. users[u].email.box = clients[task.client].email.box
        BY <4>1, <4>4 DEF UsersOfBox
      <4> QED
        BY <1>5, <2>1, <4>1, <4>5
    <3> QED
      BY <3>2, <3>3
  <2>3. Owned' /\ Agree'
    BY <1>1, <2>1, <2>2, UsersOnly DEF Agreed
  <2> QED
    BY <1>2, <2>3 DEF Agreed
<1> QED
  BY <1>6, <1>7

LEMMA UsersStay == ASSUME users' = users PROVE UsersGrown /\ Ids' = Ids
BY DEF UsersGrown, Ids

\* One of the rows of the account follows it: its only row, if it has one.
LEMMA MirrorAgrees == ASSUME TypeInv, TypeInv', Agreed, Mirror PROVE Agreed'
<1> DEFINE u == task.user
<1>1. task.pc = "mirror" /\ task' = Idle /\ users' = users
  BY AtFacts DEF Mirror, Done
<1>2. u \in Ids /\ users[u] \in User
  BY <1>1, Basics DEF TypeInv, TaskOK
<1>3. Pending = {u} /\ Pending' = {} /\ HalfDone'
  BY <1>1, IdleDone DEF Pending
<1>4. CASE Linked(u) = {}
  <2>1. clients' = clients
    BY <1>4 DEF Mirror
  <2>2. \A v \in Ids \ Pending' : Portal(v)' =>
           \/ v \notin Pending /\ Portal(v) /\ users'[v].email.box = users[v].email.box
           \/ \A c \in RowIds : Linked(v) = {c} => clients[c].email.box = users'[v].email.box
    BY <1>1, <1>3, <1>4, UsersStay DEF Portal
  <2>3. Owned' /\ Agree'
    BY <1>1, <2>1, <2>2, UsersStay, UsersOnly DEF Agreed
  <2> QED
    BY <1>3, <2>3 DEF Agreed
<1>5. CASE Linked(u) # {}
  <2>1. PICK c \in Linked(u) : clients' = [clients EXCEPT ![c].email = users[u].email]
    BY <1>5 DEF Mirror
  <2> DEFINE r == [clients[c] EXCEPT !.email = users[u].email]
  <2>2. c \in DOMAIN clients /\ clients[c] \in Client /\ clients[c].user = u /\ clients[c].stored
    BY Basics DEF Linked, RowIds
  <2>3. clients' = [clients EXCEPT ![c] = r]
    BY <2>1, <2>2
  <2>4. r \in Client /\ r.stored /\ r.user = u /\ r.email = users[u].email
    BY <1>2, <2>2, UserFields DEF Client
  <2> HIDE DEF r
  <2>5. r.user \in Ids' /\ r.email.box = users'[r.user].email.box /\ UsersGrown
    BY <1>1, <1>2, <2>4, UsersStay
  <2> HIDE DEF u
  <2>6. Owned' /\ Agree'
    BY <1>3, <2>2, <2>3, <2>4, <2>5, RowOnly DEF Agreed
  <2> QED
    BY <1>3, <2>6 DEF Agreed
<1> QED
  BY <1>4, <1>5

\* The next of the rows follows; with the last of them all agree.
LEMMA UpdateLinkedRowAgrees ==
    ASSUME TypeInv, TypeInv', Agreed, UpdateLinkedRow
    PROVE  Agreed'
<1> DEFINE u == task.user
<1>1. task.pc = "rows" /\ users' = users
  BY AtFacts DEF UpdateLinkedRow
<1>2. u \in Ids /\ users[u] \in User /\ task \in Task /\ task.active \in BOOLEAN
  BY <1>1, Basics DEF TypeInv, TypeOK, TaskOK, Task
<1>3. /\ task.rows \subseteq Linked(u)
      /\ \A d \in Linked(u) \ task.rows : SameBox(d, u)
  BY <1>1 DEF Agreed, HalfDone
<1>4. PICK c \in task.rows :
        /\ clients' = [clients EXCEPT ![c].email = users[u].email, ![c].active = task.active]
        /\ task' = IF task.rows = {c} THEN Idle ELSE [task EXCEPT !.rows = @ \ {c}]
  BY DEF UpdateLinkedRow
<1> DEFINE r == [clients[c] EXCEPT !.email = users[u].email, !.active = task.active]
<1>5. c \in DOMAIN clients /\ clients[c] \in Client /\ clients[c].user = u /\ clients[c].stored
  BY <1>3, Basics DEF Linked, RowIds
<1>6. clients' = [clients EXCEPT ![c] = r]
  BY <1>4, <1>5
<1>7. r \in Client /\ r.stored /\ r.user = u /\ r.email = users[u].email
  BY <1>2, <1>5, UserFields DEF Client
<1> HIDE DEF r
<1>8. r.user \in Ids' /\ r.email.box = users'[r.user].email.box /\ UsersGrown
  BY <1>1, <1>2, <1>7, UsersStay
<1>9. Pending = {u}
  BY <1>1 DEF Pending
<1>10. Owned' /\ Agree'
  <2> HIDE DEF u
  <2> QED
    BY <1>5, <1>6, <1>7, <1>8, <1>9, RowOnly DEF Agreed
<1>11. HalfDone'
  <2>1. CASE task' = Idle
    BY <2>1, IdleDone
  <2>2. CASE task.rows # {c} /\ task' = [task EXCEPT !.rows = @ \ {c}]
    <3>1. task'.pc = "rows" /\ task'.user = u /\ task'.rows = task.rows \ {c}
      BY <1>1, <1>2, <2>2 DEF Task
    <3>2. /\ DOMAIN clients' = DOMAIN clients
          /\ \A d \in DOMAIN clients : clients'[d] = IF d = c THEN r ELSE clients[d]
      BY <1>5, <1>6, <1>7, RowEdited
    <3>3. Linked(u)' = Linked(u)
      BY <1>5, <1>7, <3>1, <3>2 DEF Linked, RowIds
    <3>4. \A d \in Linked(u) \ (task.rows \ {c}) : SameBox(d, u)'
      <4>1. TAKE d \in Linked(u) \ (task.rows \ {c})
      <4>2. d \in DOMAIN clients
        BY Basics DEF Linked
      <4>3. CASE d = c
        BY <1>1, <1>5, <1>7, <3>1, <3>2, <4>3 DEF SameBox
      <4>4. CASE d # c
        <5>1. SameBox(d, u) /\ clients'[d] = clients[d]
          BY <1>3, <3>2, <4>2, <4>4
        <5> QED
          BY <1>1, <3>1, <5>1 DEF SameBox
      <4> QED
        BY <4>3, <4>4
    <3>5. task.rows \ {c} # {} /\ task.rows \ {c} \subseteq Linked(u)
      BY <1>3, <2>2
    <3>6. /\ task'.rows # {} /\ task'.rows \subseteq Linked(task.user)'
          /\ \A d \in Linked(task.user)' \ task'.rows : SameBox(d, task.user)'
      BY <3>1, <3>3, <3>4, <3>5 DEF Linked, SameBox
    <3> QED
      BY <3>1, <3>6 DEF HalfDone
  <2> QED
    BY <1>4, <2>1, <2>2
<1> QED
  BY <1>10, <1>11 DEF Agreed

\* A handler of one statement that leaves the account and the mailbox of a row.
LEMMA RowCallAgrees ==
    ASSUME TypeInv, TypeInv', Agreed, NEW op, Begins(op), UNCHANGED <<users, task>>,
           NEW c \in DOMAIN clients, NEW r \in Client, clients' = [clients EXCEPT ![c] = r],
           r.stored = clients[c].stored, r.user = clients[c].user,
           r.email = clients[c].email
    PROVE  Agreed'
<1>1. task = Idle /\ task' = Idle /\ Pending = {}
  BY BeginsFacts, IdleClear
<1>2. r.user \in Ids' \cup {0}
  BY UsersStay DEF Agreed, Owned
<1>3. Owned' /\ Agree'
  BY <1>1, <1>2, UsersStay, RowOnly DEF Agreed
<1> QED
  BY <1>1, <1>3, IdleDone DEF Agreed

LEMMA ToggleClientAgrees ==
    ASSUME TypeInv, TypeInv', Agreed, NEW scope, NEW c \in RowIds, ToggleClient(scope, c)
    PROVE  Agreed'
<1> DEFINE r == [clients[c] EXCEPT !.active = ~@]
<1>1. c \in DOMAIN clients /\ clients[c] \in Client
  BY Basics
<1>2. /\ clients' = [clients EXCEPT ![c] = r] /\ Begins("toggleClient")
      /\ UNCHANGED <<users, task>>
  BY <1>1 DEF ToggleClient
<1>3. /\ r \in Client /\ r.stored = clients[c].stored /\ r.user = clients[c].user
      /\ r.email = clients[c].email
  BY <1>1 DEF Client
<1> HIDE DEF r
<1> QED
  BY <1>1, <1>2, <1>3, RowCallAgrees

LEMMA CreateClientAgrees ==
    ASSUME TypeInv, TypeInv', Agreed, NEW scope \in Scopes, NEW partner \in Scopes,
           NEW e \in Email, NEW invites \in BOOLEAN, CreateClient(scope, partner, e, invites)
    PROVE  Agreed'
<1> DEFINE final == IF scope # 0 THEN scope ELSE partner
           r == NewClient(final, 0, Plain(e))
           n == Len(clients) + 1
<1>1. final \in UserId /\ 0 \in UserId
  BY Basics, BoundsAssumption DEF UserId
<1>2. r \in Client /\ r.user = 0
  BY <1>1, PlainType, NewClientType DEF NewClient
<1>3. /\ AddClient(r) /\ users' = users /\ task = Idle
      /\ task' = IF invites /\ final # 0
                 THEN [Idle EXCEPT !.pc = "invite", !.client = n, !.scope = scope]
                 ELSE Idle
  BY BeginsFacts DEF CreateClient
<1> HIDE DEF r, final
<1>4. Pending = {}
  BY <1>3, IdleClear
<1>5. Owned' /\ Agree'
  BY <1>2, <1>3, <1>4, UsersStay, RowMore DEF Agreed
<1>6. clients'[n].user = 0
  BY <1>2, <1>3, RowAppended
<1> HIDE DEF n
<1>7. HalfDone'
  <2>1. CASE task' = Idle
    BY <2>1, IdleDone
  <2>2. CASE task' = [Idle EXCEPT !.pc = "invite", !.client = n, !.scope = scope]
    <3>1. task'.pc = "invite" /\ task'.client = n
      BY <2>2 DEF Idle
    <3> QED
      BY <1>6, <3>1 DEF HalfDone
  <2> QED
    BY <1>3, <2>1, <2>2
<1> QED
  BY <1>5, <1>7 DEF Agreed

\* The row has its new mailbox; the account follows, if no other has taken it.
LEMMA UpdateClientAgrees ==
    ASSUME TypeInv, TypeInv', Agreed, NEW scope, NEW c \in RowIds, NEW e \in Email,
           NEW active \in BOOLEAN, UpdateClient(scope, c, e, active)
    PROVE  Agreed'
<1> DEFINE u == clients[c].user
           renames == e.box # clients[c].email.box
           email == IF renames THEN Plain(e) ELSE clients[c].email
           r == [clients[c] EXCEPT !.active = active, !.email = email]
<1>1. c \in DOMAIN clients /\ clients[c] \in Client /\ clients[c].stored
  BY Basics DEF RowIds
<1>2. email \in Email /\ email.box = e.box
  BY <1>1, PlainType DEF Client, Plain, Email
<1>3. /\ clients' = [clients EXCEPT ![c] = r] /\ users' = users /\ task = Idle
      /\ task' = IF u = 0 THEN Idle
                 ELSE [Idle EXCEPT !.pc = "sync", !.client = c, !.renames = renames,
                                   !.active = active, !.user = u]
      /\ renames => MayTake(u, e)
  BY <1>1, BeginsFacts DEF UpdateClient
<1>4. ~renames => email = clients[c].email
  OBVIOUS
<1> HIDE DEF email, renames
<1>5. r \in Client /\ r.user = u /\ r.email = email /\ r.stored
  BY <1>1, <1>2 DEF Client
<1> HIDE DEF r
<1>6. u # 0 => /\ task'.pc = "sync" /\ task'.client = c /\ task'.renames = renames
               /\ task'.user = u
  BY <1>3 DEF Idle
<1>7. Pending = {} /\ (renames /\ u # 0 => Pending' = {u})
  BY <1>3, <1>6, IdleClear DEF Pending
<1>8. u \in Ids \cup {0}
  BY <1>1 DEF Agreed, Owned
<1>9. Owned' /\ Agree'
  <2>1. \/ r.user \in Pending' \cup {0}
        \/ r.user = clients[c].user /\ r.email.box = clients[c].email.box
    BY <1>4, <1>5, <1>7
  <2>2. r.user \in Ids' \cup {0} /\ UsersGrown
    BY <1>3, <1>5, <1>8, UsersStay
  <2>3. clients[c].user # 0 => r.user = clients[c].user
    BY <1>5
  <2> HIDE DEF u
  <2> QED
    BY <1>1, <1>3, <1>5, <1>7, <2>1, <2>2, <2>3, RowOnly DEF Agreed
<1>10. HalfDone'
  <2>1. CASE u = 0
    BY <1>3, <2>1, IdleDone
  <2>2. CASE u # 0
    <3>1. ASSUME renames
          PROVE  /\ task'.client \in Linked(task.user)'
                 /\ MayTake(task.user, clients[task.client].email)'
      <4>1. DOMAIN clients' = DOMAIN clients /\ clients'[c] = r
        BY <1>1, <1>3, <1>5, RowEdited
      <4>2. PICK v : v = u
        OBVIOUS
      <4>3. PICK m : m = r.email
        OBVIOUS
      <4>4. /\ task'.user = v /\ task'.client = c /\ clients'[c].email = m
            /\ clients'[c].user = v /\ clients'[c].stored
        BY <1>5, <1>6, <2>2, <4>1, <4>2, <4>3
      <4>5. UsersOfBox(m)' = UsersOfBox(e)
        BY <1>2, <1>3, <1>5, <4>3 DEF UsersOfBox, Ids
      <4>6. MayTake(v, m)'
        BY <1>3, <3>1, <4>2, <4>5 DEF MayTake
      <4>7. c \in Linked(v)'
        BY <1>1, <4>1, <4>4 DEF Linked, RowIds
      <4> QED
        BY <4>4, <4>6, <4>7 DEF Linked, MayTake, UsersOfBox
    <3> QED
      BY <1>6, <2>2, <3>1 DEF HalfDone
  <2> QED
    BY <2>1, <2>2
<1> QED
  BY <1>9, <1>10 DEF Agreed

\* An account is linked by the address of the row, or is opened with it.
LEMMA InviteRowAgrees ==
    ASSUME TypeInv, TypeInv', Owned, Agree, Pending = {}, NEW c \in DOMAIN clients,
           clients[c].user = 0, InviteRow(c)
    PROVE  Agreed'
<1> DEFINE e == clients[c].email
<1>1. clients[c] \in Client /\ e \in Email
  BY Basics DEF Client
<1>2. CASE UserWith(e) = {}
  <2> DEFINE r == [NewUser("client", e) EXCEPT !.active = clients[c].active]
             n == Len(users) + 1
  <2>1. /\ AddUser(r) /\ clients' = clients
        /\ task' = [Idle EXCEPT !.pc = "link", !.client = c, !.user = n]
    BY <1>2 DEF InviteRow
  <2>2. r \in User /\ r.email = e
    <3>1. NewUser("client", e) \in User /\ NewUser("client", e).email = e
      BY <1>1, NewUserType DEF Type, NewUser
    <3> QED
      BY <1>1, <3>1 DEF User, Client
  <2> HIDE DEF r
  <2>3. Owned' /\ Agree'
    BY <2>1, <2>2, AccountMore
  <2>4. n \in Ids' /\ users'[n] = r
    BY <2>1, <2>2, AccountAdded
  <2> HIDE DEF n
  <2>5. task'.pc = "link" /\ task'.client = c /\ task'.user = n
    BY <2>1 DEF Idle
  <2>6. HalfDone'
    BY <2>1, <2>2, <2>4, <2>5 DEF HalfDone
  <2> QED
    BY <2>3, <2>6 DEF Agreed
<1>3. CASE UserWith(e) # {}
  <2> DEFINE u == CHOOSE u \in UserWith(e) : TRUE
             r == [clients[c] EXCEPT !.user = u]
  <2>1. u \in Ids /\ users[u].email = e /\ u \in UserId
    BY <1>3, Basics DEF UserWith
  <2>2. clients' \in {clients, [clients EXCEPT ![c] = r]} /\ users' = users /\ task' = Idle
    BY <1>3 DEF InviteRow, Done
  <2> HIDE DEF u
  <2>3. /\ r \in Client /\ r.stored = clients[c].stored /\ r.user = u
        /\ r.email = clients[c].email
    BY <1>1, <2>1 DEF Client
  <2> HIDE DEF r
  <2>4. Owned' /\ Agree'
    <3>1. CASE clients' = clients
      <4>1. Ids' = Ids /\ \A v \in Ids : Portal(v)' => Portal(v)
        BY <2>2, UsersStay DEF Portal
      <4> QED
        BY <2>2, <3>1, <4>1, UsersOnly
    <3>2. CASE clients' = [clients EXCEPT ![c] = r]
      <4>1. r.user \in Ids' /\ r.email.box = users'[r.user].email.box /\ UsersGrown
        BY <2>1, <2>2, <2>3, UsersStay
      <4> QED
        BY <2>3, <3>2, <4>1, RowOnly
    <3> QED
      BY <2>2, <3>1, <3>2
  <2> QED
    BY <2>2, <2>4, IdleDone DEF Agreed
<1> QED
  BY <1>2, <1>3

LEMMA InvitesAgree ==
    ASSUME TypeInv, TypeInv', Agreed,
           InviteCreated \/ \E scope \in Scopes : \E c \in RowIds : Invite(scope, c)
    PROVE  Agreed'
<1>1. CASE InviteCreated
  <2>1. task.pc = "invite" /\ InviteRow(task.client)
    BY <1>1, AtFacts DEF InviteCreated
  <2>2. task.client \in DOMAIN clients /\ clients[task.client].user = 0 /\ Pending = {}
    BY <2>1 DEF TypeInv, TaskOK, Agreed, HalfDone, Pending
  <2> QED
    BY <2>1, <2>2, InviteRowAgrees DEF Agreed
<1>2. CASE \E scope \in Scopes : \E c \in RowIds : Invite(scope, c)
  <2>1. PICK scope \in Scopes : \E c \in RowIds : Invite(scope, c)
    BY <1>2
  <2>2. PICK c \in RowIds : Invite(scope, c)
    BY <2>1
  <2>3. c \in DOMAIN clients /\ clients[c].user = 0 /\ InviteRow(c) /\ task = Idle
    BY <2>2, BeginsFacts, Basics DEF Invite
  <2> QED
    BY <2>3, IdleClear, InviteRowAgrees DEF Agreed
<1> QED
  BY <1>1, <1>2

\* The account that has been opened is the row's.
LEMMA LinkAgrees == ASSUME TypeInv, TypeInv', Agreed, Link PROVE Agreed'
<1> DEFINE c == task.client
           u == task.user
           r == [clients[c] EXCEPT !.user = u]
<1>1. task.pc = "link" /\ users' = users /\ task' = Idle
  BY AtFacts DEF Link, Done
<1>2. c \in DOMAIN clients /\ clients[c] \in Client /\ u \in UserId
  BY <1>1, Basics DEF TypeInv, TypeOK, TaskOK, Task
<1>3. clients[c].user = 0 /\ u \in Ids /\ users[u].email = clients[c].email
  BY <1>1 DEF Agreed, HalfDone
<1>4. clients' = [clients EXCEPT ![c] = r]
  BY <1>2 DEF Link
<1>5. /\ r \in Client /\ r.stored = clients[c].stored /\ r.user = u
      /\ r.email = clients[c].email
  BY <1>2 DEF Client
<1>6. Pending = {}
  BY <1>1 DEF Pending
<1> HIDE DEF c, u, r
<1>7. r.user \in Ids' /\ r.email.box = users'[r.user].email.box /\ UsersGrown
  BY <1>1, <1>3, <1>5, UsersStay
<1>8. Owned' /\ Agree'
  BY <1>2, <1>3, <1>4, <1>5, <1>6, <1>7, RowOnly DEF Agreed
<1> QED
  BY <1>1, <1>8, IdleDone DEF Agreed

LEMMA RegisterAgrees ==
    ASSUME TypeInv, TypeInv', Agreed, NEW e \in Email, Register(e)
    PROVE  Agreed'
<1> DEFINE r == [NewUser("client", e) EXCEPT !.code = TRUE]
<1>1. /\ AddUser(r) /\ clients' = clients /\ task = Idle
      /\ task' = [Idle EXCEPT !.pc = "row", !.user = Len(users) + 1]
  BY BeginsFacts DEF Register
<1>2. r \in User
  <2>1. NewUser("client", e) \in User
    BY NewUserType DEF Type
  <2> QED
    BY <2>1 DEF User
<1> HIDE DEF r
<1>3. Owned' /\ Agree'
  BY <1>1, <1>2, IdleClear, AccountMore DEF Agreed
<1>4. task'.pc = "row"
  BY <1>1 DEF Idle
<1>5. HalfDone'
  BY <1>4 DEF HalfDone
<1> QED
  BY <1>3, <1>5 DEF Agreed

LEMMA RegisterRowAgrees == ASSUME TypeInv, TypeInv', Agreed, RegisterRow PROVE Agreed'
<1> DEFINE u == task.user
           r == NewClient(0, u, users[u].email)
<1>1. task.pc = "row" /\ AddClient(r) /\ users' = users /\ task' = Idle
  BY AtFacts DEF RegisterRow, Done
<1>2. u \in Ids
  BY <1>1 DEF TypeInv, TaskOK
<1>3. 0 \in UserId /\ u \in UserId /\ users[u].email \in Email
  BY <1>2, Basics, UserFields, BoundsAssumption DEF UserId
<1>4. r \in Client /\ r.user = u /\ r.email = users[u].email
  BY <1>3, NewClientType DEF NewClient
<1>5. Pending = {}
  BY <1>1 DEF Pending
<1> HIDE DEF u, r
<1>6. Owned' /\ Agree'
  BY <1>1, <1>2, <1>4, <1>5, UsersStay, RowMore DEF Agreed
<1> QED
  BY <1>1, <1>6, IdleDone DEF Agreed

\* A request goes to a row as it is, or adds one that agrees with its account.
LEMMA RequestRowAgrees ==
    ASSUME TypeInv, TypeInv', Owned, Agree, Pending = {}, UsersGrown,
           NEW rows \in SUBSET RowIds, NEW client, RequestOfRow(rows, client),
           rows = {} => /\ client \in Client
                        /\ \/ client.user = 0
                           \/ /\ client.user \in Ids'
                              /\ client.email.box = users'[client.user].email.box
    PROVE  Owned' /\ Agree'
<1>1. CASE rows # {}
  <2>1. PICK c \in rows : clients' = [clients EXCEPT ![c].requests = TRUE]
    BY <1>1 DEF RequestOfRow
  <2> DEFINE r == [clients[c] EXCEPT !.requests = TRUE]
  <2>2. c \in DOMAIN clients /\ clients[c] \in Client
    BY Basics
  <2>3. clients' = [clients EXCEPT ![c] = r]
    BY <2>1, <2>2
  <2>4. /\ r \in Client /\ r.stored = clients[c].stored /\ r.user = clients[c].user
        /\ r.email = clients[c].email
    BY <2>2 DEF Client
  <2> HIDE DEF r
  <2>5. r.user \in Ids' \cup {0}
    BY <2>2, <2>4 DEF Owned, UsersGrown
  <2> QED
    BY <2>2, <2>3, <2>4, <2>5, RowOnly
<1>2. CASE rows = {}
  <2> DEFINE r == [client EXCEPT !.requests = TRUE]
  <2>1. r \in Client /\ r.user = client.user /\ r.email = client.email
    BY <1>2 DEF Client
  <2>2. AddClient(r)
    BY <1>2 DEF RequestOfRow, AddClient
  <2> HIDE DEF r
  <2> QED
    BY <1>2, <2>1, <2>2, RowMore
<1> QED
  BY <1>1, <1>2

LEMMA WizardRequestAgrees ==
    ASSUME TypeInv, TypeInv', Agreed, NEW u \in Ids, WizardRequest(u)
    PROVE  Agreed'
<1> DEFINE e == users[u].email
           r == NewClient(0, u, e)
<1>1. u \in UserId /\ 0 \in UserId /\ e \in Email
  BY Basics, UserFields, BoundsAssumption DEF UserId
<1>2. r \in Client /\ r.user = u /\ r.email = e
  BY <1>1, NewClientType DEF NewClient
<1>3. RowsWith(e) \in SUBSET RowIds /\ RequestOfRow(RowsWith(e), r)
  BY DEF RowsWith, WizardRequest
<1>4. users' = users /\ task = Idle /\ task' = Idle
  BY BeginsFacts DEF WizardRequest
<1>5. r.user \in Ids' /\ r.email.box = users'[r.user].email.box
  BY <1>2, <1>4, UsersStay
<1> HIDE DEF e, r
<1>6. Owned' /\ Agree'
  BY <1>2, <1>3, <1>4, <1>5, UsersStay, IdleClear, RequestRowAgrees DEF Agreed
<1> QED
  BY <1>4, <1>6, IdleDone DEF Agreed

\* The rows a client takes have his mailbox.
LEMMA ListRequestsAgrees ==
    ASSUME TypeInv, TypeInv', Agreed, NEW u \in Ids, ListRequests(u)
    PROVE  Agreed'
<1> DEFINE takes(c) == /\ c \in RowIds /\ clients[c].user = 0
                       /\ clients[c].email.box = users[u].email.box
           row(c) == IF takes(c) THEN [clients[c] EXCEPT !.user = u] ELSE clients[c]
<1>1. /\ clients' = [c \in DOMAIN clients |-> row(c)]
      /\ users' = users /\ task = Idle /\ task' = Idle
  BY BeginsFacts DEF ListRequests
<1>2. \A c \in DOMAIN clients : /\ row(c).user = IF takes(c) THEN u ELSE clients[c].user
                                /\ row(c).email = clients[c].email
                                /\ row(c).stored = clients[c].stored
  BY Basics DEF Client
<1> HIDE DEF row
<1>3. DOMAIN clients' = DOMAIN clients /\ \A c \in DOMAIN clients : clients'[c] = row(c)
  BY <1>1
<1>4. RowIds' = RowIds
  BY <1>2, <1>3 DEF RowIds
<1>5. LinksKept
  BY <1>2, <1>3, <1>4 DEF LinksKept, RowIds
<1>6. Owned'
  BY <1>1, <1>2, <1>3, UsersStay DEF Agreed, Owned
<1>7. Pending = {} /\ Ids' = Ids
  BY <1>1, IdleClear, UsersStay
<1>8. \A v \in Ids' \ Pending' : \A c \in RowIds' :
         (Portal(v)' /\ Linked(v)' = {c}) => SameBox(c, v)' \/ Undisturbed(c, v)
  <2> SUFFICES ASSUME NEW v \in Ids' \ Pending', NEW c \in RowIds', Portal(v)', Linked(v)' = {c}
               PROVE  SameBox(c, v)' \/ Undisturbed(c, v)
    OBVIOUS
  <2>1. c \in RowIds /\ c \in DOMAIN clients /\ clients'[c] = row(c) /\ row(c).user = v
    BY <1>3, <1>4 DEF Linked, RowIds
  <2>2. CASE takes(c)
    <3>1. v = u /\ clients'[c].email.box = users[u].email.box
      BY <1>2, <2>1, <2>2
    <3> QED
      BY <1>1, <3>1 DEF SameBox
  <2>3. CASE ~takes(c)
    <3>1. clients[c].user = v /\ clients'[c].email = clients[c].email
      BY <1>2, <2>1, <2>3
    <3> QED
      BY <1>1, <1>7, <2>1, <3>1 DEF Undisturbed, Portal, Linked
  <2> QED
    BY <2>2, <2>3
<1>9. Agree'
  BY <1>5, <1>8, AgreeGrows DEF Agreed
<1> QED
  BY <1>1, <1>6, <1>9, IdleDone DEF Agreed

LEMMA RequestForIdAgrees ==
    ASSUME TypeInv, TypeInv', Agreed, NEW partner \in Scopes, NEW id, RequestForId(partner, id)
    PROVE  Agreed'
<1> DEFINE r == [NewClient(partner, id, users[id].email) EXCEPT !.active = users[id].active]
           rows == {id} \cap RowIds
<1>1. /\ RequestOfRow(rows, r) /\ users' = users /\ task = Idle /\ task' = Idle
      /\ id \in RowIds \/ Portal(id)
  BY BeginsFacts DEF RequestForId
<1>2. ASSUME rows = {}
      PROVE  /\ r \in Client /\ r.user \in Ids'
             /\ r.email.box = users'[r.user].email.box
  <2>1. id \in Ids
    BY <1>1, <1>2 DEF Portal
  <2>2. id \in UserId /\ partner \in UserId /\ users[id].email \in Email
        /\ users[id].active \in BOOLEAN
    BY <2>1, Basics, UserFields
  <2>3. /\ NewClient(partner, id, users[id].email) \in Client
        /\ NewClient(partner, id, users[id].email).user = id
        /\ NewClient(partner, id, users[id].email).email = users[id].email
    BY <2>2, NewClientType DEF NewClient
  <2>4. r \in Client /\ r.user = id /\ r.email = users[id].email
    BY <2>2, <2>3 DEF Client
  <2> HIDE DEF r
  <2> QED
    BY <1>1, <2>1, <2>4, UsersStay
<1>3. rows \in SUBSET RowIds
  OBVIOUS
<1> HIDE DEF r, rows
<1>4. Owned' /\ Agree'
  BY <1>1, <1>2, <1>3, UsersStay, IdleClear, RequestRowAgrees DEF Agreed
<1> QED
  BY <1>1, <1>4, IdleDone DEF Agreed

\* A new row is linked to the account with the address, or to one opened with it.
LEMMA RequestForEmailAgrees ==
    ASSUME TypeInv, TypeInv', Agreed, NEW partner \in Scopes, NEW e \in Email,
           RequestForEmail(partner, e)
    PROVE  Agreed'
<1> DEFINE portal == {u \in UserWith(e) : Portal(u)}
           opens == RowsWith(e) = {} /\ portal = {} /\ partner = 0
           user == IF opens THEN Len(users) + 1
                   ELSE IF portal # {} THEN CHOOSE u \in portal : TRUE ELSE 0
           r == NewClient(partner, user, e)
<1>1. /\ users' = IF opens THEN Append(users, NewUser("client", e)) ELSE users
      /\ RequestOfRow(RowsWith(e), r) /\ task = Idle /\ task' = Idle
  BY BeginsFacts DEF RequestForEmail
<1>2. UsersGrown /\ (user = 0 \/ (user \in Ids' /\ users'[user].email = e))
  <2>1. CASE opens
    <3>1. NewUser("client", e) \in User /\ NewUser("client", e).email = e
      BY NewUserType DEF Type, NewUser
    <3>2. AddUser(NewUser("client", e))
      BY <1>1, <2>1 DEF AddUser
    <3>3. user = Len(users) + 1
      BY <2>1
    <3> QED
      BY <3>1, <3>2, <3>3, AccountAdded
  <2>2. CASE ~opens
    <3>1. users' = users
      BY <1>1, <2>2
    <3>2. CASE portal # {}
      <4>1. user \in portal
        BY <2>2, <3>2
      <4>2. user \in Ids /\ users[user].email = e
        BY <4>1 DEF UserWith
      <4> HIDE DEF user
      <4> QED
        BY <3>1, <4>2, UsersStay
    <3>3. CASE portal = {}
      <4>1. user = 0
        BY <2>2, <3>3
      <4> QED
        BY <3>1, <4>1, UsersStay
    <3> QED
      BY <3>2, <3>3
  <2> QED
    BY <2>1, <2>2
<1>3. user \in UserId
  <2>1. CASE user = 0
    <3> HIDE DEF user
    <3> QED
      BY <2>1, BoundsAssumption DEF UserId
  <2>2. CASE user \in Ids'
    <3>1. users' \in Seq(User) /\ Len(users') <= MaxUsers
      BY DEF TypeInv, TypeOK
    <3>2. Ids' = 1..Len(users') /\ Len(users') \in Nat
      BY <3>1, LenProperties DEF Ids
    <3> HIDE DEF user
    <3> QED
      BY <2>2, <3>1, <3>2, BoundsAssumption DEF UserId
  <2> QED
    BY <1>2, <2>1, <2>2
<1> HIDE DEF user
<1>4. r \in Client /\ r.user = user /\ r.email = e
  BY <1>3, Basics, NewClientType DEF NewClient
<1>5. RowsWith(e) \in SUBSET RowIds
  BY DEF RowsWith
<1> HIDE DEF r
<1>6. r.user = 0 \/ (r.user \in Ids' /\ r.email.box = users'[r.user].email.box)
  BY <1>2, <1>4
<1>7. Owned' /\ Agree'
  BY <1>1, <1>2, <1>4, <1>5, <1>6, IdleClear, RequestRowAgrees DEF Agreed
<1> QED
  BY <1>1, <1>7, IdleDone DEF Agreed

\* The account of the contact has his address, whether it was there or not.
LEMMA ImportAccountAgrees ==
    ASSUME TypeInv, TypeInv', Agreed, NEW contact \in Email, NEW partner \in SUBSET Email,
           ImportAccount(contact, partner)
    PROVE  Agreed'
<1> DEFINE o == CHOOSE p \in partner : TRUE
           opened == IF partner = {} THEN <<>> ELSE Created(o, "partner")
           last == Created(contact, "client")
           p == IF partner = {} THEN 0 ELSE AccountOf(o, 1)
           u == AccountOf(contact, Len(opened) + 1)
           all == users \o opened \o last
           found == IF RowsWith(contact) # {} THEN RowsWith(contact) ELSE Linked(u)
<1>1. /\ Len(all) <= MaxUsers /\ users' = all /\ task = Idle /\ task' = Idle
      /\ IF found = {}
         THEN /\ ClientRoom
              /\ AddClient([NewClient(p, u, contact) EXCEPT !.requests = TRUE])
         ELSE \E c \in found : clients' = [clients EXCEPT ![c] = Fill(@, u, p)]
  BY BeginsFacts DEF ImportAccount
<1>2. /\ opened \in Seq(User) /\ Len(opened) \in {0, 1}
      /\ (partner # {} /\ UserWith(o) = {}) => Len(opened) = 1
  <2>1. CASE partner = {}
    BY <2>1
  <2>2. CASE partner # {}
    <3>1. o \in Email
      BY <2>2
    <3> HIDE DEF o
    <3> QED
      BY <2>2, <3>1, CreatedType DEF Type
  <2> QED
    BY <2>1, <2>2
<1>3. /\ last \in Seq(User) /\ Len(last) \in {0, 1}
      /\ UserWith(contact) = {} => Len(last) = 1 /\ last[1].email = contact
  <2>1. UserWith(contact) = {} => last = <<NewUser("client", contact)>>
    BY DEF Created
  <2>2. NewUser("client", contact).email = contact
    BY DEF NewUser
  <2> QED
    BY <2>1, <2>2, CreatedType DEF Type
<1> HIDE DEF opened, last, o
<1> DEFINE some == users \o opened
<1>4. /\ users \in Seq(User) /\ Len(users) \in Nat
      /\ some \in Seq(User) /\ Len(some) = Len(users) + Len(opened)
      /\ \A j \in 1..Len(users) : some[j] = users[j]
  BY <1>2, Basics, ConcatProperties
<1>5. /\ all \in Seq(User) /\ Len(all) = Len(some) + Len(last)
      /\ \A j \in 1..Len(some) : all[j] = some[j]
      /\ \A j \in 1..Len(last) : all[Len(some) + j] = last[j]
  <2> HIDE DEF some
  <2>1. all = some \o last
    BY DEF some
  <2> HIDE DEF all
  <2> QED
    BY <1>3, <1>4, <2>1, ConcatProperties
<1> HIDE DEF some, all
<1>6. Ids = 1..Len(users) /\ Ids' = 1..Len(all)
  BY <1>1, <1>5, Basics, LenProperties DEF Ids
<1>7. UsersGrown
  <2>1. Len(opened) \in Nat /\ Len(last) \in Nat
    BY <1>2, <1>3
  <2> QED
    BY <1>1, <1>4, <1>5, <1>6, <2>1 DEF UsersGrown
<1>8. u \in Ids' /\ users'[u].email = contact
  <2>1. CASE UserWith(contact) = {}
    <3>1. u = Len(some) + 1 /\ Len(last) = 1 /\ last[1].email = contact
      BY <1>2, <1>3, <1>4, <2>1 DEF AccountOf
    <3>2. u \in 1..Len(all) /\ all[u] = last[1]
      BY <1>2, <1>4, <1>5, <3>1
    <3> QED
      BY <1>1, <1>6, <3>1, <3>2
  <2>2. CASE UserWith(contact) # {}
    <3>1. u \in UserWith(contact)
      BY <2>2 DEF AccountOf
    <3> QED
      BY <1>7, <3>1 DEF UserWith, UsersGrown
  <2> QED
    BY <2>1, <2>2
<1>9. p \in UserId /\ u \in UserId
  <2>1. Ids' \subseteq UserId
    <3>1. Len(all) \in Nat /\ Len(all) <= MaxUsers
      BY <1>1, <1>5, LenProperties
    <3> QED
      BY <1>6, <3>1, BoundsAssumption DEF UserId
  <2>2. CASE partner = {}
    <3>1. p = 0 /\ 0 \in UserId
      BY <2>2, BoundsAssumption DEF UserId
    <3> HIDE DEF p, u
    <3> QED
      BY <1>8, <2>1, <3>1
  <2>3. CASE partner # {}
    <3>1. UserWith(o) = {} => Len(users) + 1 <= MaxUsers
      <4>1. Len(users) \in Nat /\ Len(last) \in Nat /\ Len(opened) \in Nat
        BY <1>2, <1>3, <1>4
      <4>2. Len(users) + Len(opened) + Len(last) <= MaxUsers
        BY <1>1, <1>4, <1>5
      <4>3. UserWith(o) = {} => Len(opened) = 1
        BY <1>2, <2>3
      <4> QED
        BY <4>1, <4>2, <4>3, BoundsAssumption
    <3>2. p = AccountOf(o, 1) /\ 1 \in Nat
      BY <2>3
    <3> HIDE DEF p
    <3> QED
      BY <1>8, <2>1, <3>1, <3>2, AccountOfType
  <2> QED
    BY <2>2, <2>3
<1> HIDE DEF p
<1>10. Pending = {}
  BY <1>1, IdleClear
<1>11. Owned' /\ Agree'
  <2>1. CASE found = {}
    <3> DEFINE r == [NewClient(p, u, contact) EXCEPT !.requests = TRUE]
    <3>1. /\ NewClient(p, u, contact) \in Client /\ NewClient(p, u, contact).user = u
          /\ NewClient(p, u, contact).email = contact
      BY <1>9, NewClientType DEF NewClient
    <3> HIDE DEF u
    <3>2. r \in Client /\ r.user = u /\ r.email = contact
      BY <3>1 DEF Client
    <3>3. AddClient(r)
      BY <1>1, <2>1
    <3> HIDE DEF r
    <3> QED
      BY <1>7, <1>8, <1>10, <3>2, <3>3, RowMore DEF Agreed
  <2>2. CASE found # {}
    <3>1. PICK c \in found : clients' = [clients EXCEPT ![c] = Fill(@, u, p)]
      BY <1>1, <2>2
    <3>2. c \in DOMAIN clients /\ clients[c] \in Client
      BY <3>1, Basics DEF RowsWith, Linked
    <3>3. clients[c].email = contact \/ clients[c].user # 0
      <4>1. CASE RowsWith(contact) # {}
        BY <3>1, <4>1 DEF RowsWith
      <4>2. CASE RowsWith(contact) = {}
        BY <1>8, <3>1, <4>2, IdsStayPositive DEF Linked
      <4> QED
        BY <4>1, <4>2
    <3> HIDE DEF u, found
    <3> DEFINE r == Fill(clients[c], u, p)
    <3>4. clients' = [clients EXCEPT ![c] = r]
      BY <3>1
    <3>5. /\ r \in Client /\ r.stored = clients[c].stored /\ r.email = clients[c].email
          /\ r.user = IF clients[c].user = 0 THEN u ELSE clients[c].user
      BY <1>9, <3>2 DEF Fill, Client
    <3> HIDE DEF r
    <3>6. r.user \in Ids' \cup {0}
      BY <1>7, <1>8, <3>2, <3>5 DEF Agreed, Owned, UsersGrown
    <3>7. \/ r.email.box = users'[r.user].email.box
          \/ r.user = clients[c].user /\ r.email.box = clients[c].email.box
      BY <1>8, <3>3, <3>5
    <3>8. clients[c].user # 0 => r.user = clients[c].user
      BY <3>5
    <3> QED
      BY <1>7, <1>10, <3>2, <3>4, <3>5, <3>6, <3>7, <3>8, RowOnly DEF Agreed
  <2> QED
    BY <2>1, <2>2
<1> QED
  BY <1>1, <1>11, IdleDone DEF Agreed

-----------------------------------------------------------------------------

LEMMA AgreeStep == TypeInv /\ TypeInv' /\ AgreeInv /\ [Next]_vars => AgreeInv'
<1> SUFFICES ASSUME TypeInv, TypeInv', AgreeInv, [Next]_vars, ops' \cap OneSided = {}
             PROVE  Agreed'
  BY DEF AgreeInv
<1>1. CASE UNCHANGED vars
  <2>1. Agreed
    BY <1>1 DEF vars, AgreeInv
  <2>2. UNCHANGED <<users, clients, task>>
    BY <1>1 DEF vars
  <2>3. Owned' <=> Owned
    BY <2>2 DEF Owned, Ids
  <2>4. Agree' <=> Agree
    BY <2>2 DEF Agree, Ids, Pending, RowIds, Portal, Linked, SameBox
  <2>5. HalfDone' <=> HalfDone
    BY <2>2 DEF HalfDone, Ids, RowIds, Linked, SameBox, MayTake, UsersOfBox
  <2> QED
    BY <2>1, <2>3, <2>4, <2>5 DEF Agreed
<1>2. CASE Next
  <2>1. ops \cap OneSided = {} /\ Agreed
    BY <1>2, OpsFixed DEF AgreeInv
  <2>2. \A e \in Typed : e \in Email
    BY TypedAssumption
  <2>3. CASE StaffCalls
    <3>1. ASSUME NEW type \in Type, NEW e \in Typed, CreateUser(type, e) PROVE Agreed'
      BY <2>1, <2>2, <3>1, CreateUserAgrees
    <3>2. ASSUME NEW actor \in Ids, NEW u \in Ids, ToggleUser(actor, u) PROVE Agreed'
      BY <2>1, <3>2, StaffAgree
    <3>3. ASSUME NEW u \in Ids, NEW type \in {"admin", "user"}, UpdateStaff(u, type)
          PROVE  Agreed'
      BY <2>1, <3>3, StaffAgree
    <3>4. ASSUME NEW id, NEW userOnly, ConvertToPartner(id, userOnly) PROVE Agreed'
      BY <2>1, <3>4, ConvertAgrees
    <3>5. ASSUME NEW u \in Ids, NEW e \in Typed, NEW active \in BOOLEAN,
                 UpdateUserOnly(u, e, active)
          PROVE  Agreed'
      BY <2>1, <2>2, <3>5, UpdateUserOnlyAgrees
    <3> QED
      BY <2>3, <3>1, <3>2, <3>3, <3>4, <3>5 DEF StaffCalls
  <2>4. CASE OwnCalls
    <3>1. ASSUME NEW u, NEW e, NEW type, NEW active,
                 UpdateUserById(u, e, type, active) \/ UpdateCurrentUser(u, type, active)
          PROVE  FALSE
      BY <2>1, <3>1 DEF UpdateUserById, UpdateCurrentUser, Begins, OneSided
    <3>2. ASSUME NEW u \in Ids, NEW e \in Typed,
                 RequestEmailChange(u, e) \/ ConfirmEmailChange(u, e)
          PROVE  Agreed'
      BY <2>1, <2>2, <3>2, StaffAgree, ConfirmEmailChangeAgrees
    <3>3. ASSUME NEW e \in Typed, Register(e) PROVE Agreed'
      BY <2>1, <2>2, <3>3, RegisterAgrees
    <3>4. ASSUME NEW u \in Ids, ConfirmEmail(u) \/ WizardRequest(u) \/ ListRequests(u)
          PROVE  Agreed'
      BY <2>1, <3>4, StaffAgree, WizardRequestAgrees, ListRequestsAgrees
    <3> QED
      BY <2>4, <3>1, <3>2, <3>3, <3>4 DEF OwnCalls
  <2>5. CASE ClientCalls
    <3>1. PICK scope \in Scopes :
            \/ \E partner \in Scopes, e \in Typed, invites \in BOOLEAN :
                    CreateClient(scope, partner, e, invites)
            \/ \E c \in RowIds :
                \/ \E e \in Typed, active \in BOOLEAN : UpdateClient(scope, c, e, active)
                \/ ToggleClient(scope, c) \/ DeleteClient(scope, c) \/ Invite(scope, c)
      BY <2>5 DEF ClientCalls
    <3>2. ASSUME NEW partner \in Scopes, NEW e \in Typed, NEW invites \in BOOLEAN,
                 CreateClient(scope, partner, e, invites)
          PROVE  Agreed'
      BY <2>1, <2>2, <3>2, CreateClientAgrees
    <3>3. ASSUME NEW c \in RowIds, NEW e \in Typed, NEW active \in BOOLEAN,
                 UpdateClient(scope, c, e, active)
          PROVE  Agreed'
      BY <2>1, <2>2, <3>3, UpdateClientAgrees
    <3>4. ASSUME NEW c \in RowIds, ToggleClient(scope, c) PROVE Agreed'
      BY <2>1, <3>4, ToggleClientAgrees
    <3>5. ASSUME NEW c, DeleteClient(scope, c) PROVE FALSE
      BY <2>1, <3>5 DEF DeleteClient, Begins, OneSided
    <3>6. ASSUME NEW c \in RowIds, Invite(scope, c) PROVE Agreed'
      BY <2>1, <3>6, InvitesAgree
    <3> QED
      BY <3>1, <3>2, <3>3, <3>4, <3>5, <3>6
  <2>6. CASE RequestCalls
    <3>1. ASSUME NEW partner \in Scopes, NEW e \in Typed, RequestForEmail(partner, e)
          PROVE  Agreed'
      BY <2>1, <2>2, <3>1, RequestForEmailAgrees
    <3>2. ASSUME NEW partner \in Scopes, NEW id, RequestForId(partner, id) PROVE Agreed'
      BY <2>1, <3>2, RequestForIdAgrees
    <3>3. ASSUME NEW contact \in Typed, NEW partner \in SUBSET Typed,
                 ImportAccount(contact, partner)
          PROVE  Agreed'
      <4>1. contact \in Email /\ partner \in SUBSET Email
        BY TypedAssumption
      <4> QED
        BY <2>1, <3>3, <4>1, ImportAccountAgrees
    <3> QED
      BY <2>6, <3>1, <3>2, <3>3 DEF RequestCalls
  <2>7. CASE Continue
    <3>1. ~Stop
      BY <2>1 DEF Stop, OneSided
    <3> QED
      BY <2>1, <2>7, <3>1, MirrorAgrees, SyncAgrees, UpdateLinkedRowAgrees, InvitesAgree,
         LinkAgrees, RegisterRowAgrees DEF Continue
  <2> QED
    BY <1>2, <2>3, <2>4, <2>5, <2>6, <2>7 DEF Next
<1> QED
  BY <1>1, <1>2

\* However clients and their accounts are created, linked, renamed and imported,
\* one handler after another, a client's only row and his account have one
\* mailbox between handlers, while the one-sided handlers do not run.
THEOREM EmailsAgreeAlways ==
    ASSUME AgreeingToBegin
    PROVE  Spec => []EmailsAgree
<1>1. Init => AgreeInv
  <2> SUFFICES ASSUME Init, ops \cap OneSided = {}
               PROVE  Agreed
    BY DEF AgreeInv
  <2>1. PICK world \in Worlds :
            ops = world.ops /\ users = world.users /\ clients = world.clients
    BY DEF Init
  <2>2. Owned
    BY <2>1 DEF AgreeingToBegin, Owned, Ids
  <2>3. task.pc = "idle"
    BY DEF Init, Idle
  <2>4. Agree
    <3> SUFFICES ASSUME NEW u \in Ids, NEW c \in RowIds, Portal(u), Linked(u) = {c}
                 PROVE  SameBox(c, u)
      BY DEF Agree
    <3>1. {d \in DOMAIN clients : clients[d].stored /\ clients[d].user = u} = {c}
      BY DEF Linked, RowIds
    <3>2. c \in DOMAIN clients /\ u \in DOMAIN users /\ users[u].type = "client"
      BY DEF RowIds, Portal, Ids
    <3> QED
      BY <2>1, <3>1, <3>2 DEF AgreeingToBegin, SameBox
  <2> QED
    BY <2>2, <2>3, <2>4 DEF Agreed, HalfDone
<1>2. AgreeInv => EmailsAgree
  <2> SUFFICES ASSUME AgreeInv, ops \cap OneSided = {}, task = Idle
               PROVE  \A u \in Ids : \A c \in RowIds :
                          (Portal(u) /\ Linked(u) = {c}) => SameBox(c, u)
    BY DEF EmailsAgree, SameBox
  <2>1. Agree /\ Pending = {}
    BY IdleClear DEF AgreeInv, Agreed
  <2> QED
    BY <2>1 DEF Agree
<1> QED
  BY <1>1, <1>2, AgreeStep, TypeInvAlways, PTL DEF Spec
==============================================================================
