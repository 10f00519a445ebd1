--------------------------------- MODULE Login --------------------------------
(***************************************************************************)
(* Signing in with a code sent by e-mail (login_otp_challenges), browsers  *)
(* that need none (trusted_login_devices), passwords, the three cookies of *)
(* a browser, and the sessions in which staff and partners view the panel  *)
(* as one of their clients.  The panel's handlers of Portal run in these   *)
(* sessions.                                                               *)
(*                                                                         *)
(* A handler is one step: handlers run one at a time.  A token is what it  *)
(* says; time is the steps that make codes, tokens and cookies expire.     *)
(***************************************************************************)
EXTENDS Portal

CONSTANTS
    Browsers,
    Scenes,         \* what a model starts from, and which handlers run in it
    MaxAttempts,    \* MAX_OTP_ATTEMPTS
    MaxResends,     \* MAX_OTP_RESENDS
    MaxChallenges,  \* bound: rows of login_otp_challenges
    MaxLoginCalls  \* bound: handler invocations; a scene may take fewer

AllCalls == {"signIn", "verify", "resend", "trust", "password", "refresh", "logout",
             "view", "team", "brand", "rows", "toggle", "restart", "time"}

ASSUME LimitsAssumption ==
    MaxAttempts \in Nat /\ MaxResends \in Nat /\ MaxChallenges \in Nat /\ MaxLoginCalls \in Nat
ASSUME ScenesAssumption ==
    \A w \in Scenes : /\ w.handlers \subseteq AllCalls
                      /\ w.account \in [People -> Account] /\ w.team \in [People -> Membership]
                      /\ w.brand \in [People -> Brand]
                      /\ w.signedIn \in [Browsers -> People \cup {Nobody}]
                      /\ w.callsLeft \in 0..MaxLoginCalls

\* What the tables hold before the first handler: a member of a team is no owner and his
\* owner is one; a domain is of one brand, and an active brand has one; a session is of
\* an account.
SoundScenes ==
    \A w \in Scenes :
        /\ \A p \in People :
              /\ w.team[p].status # "none" =>
                    /\ w.team[p].owner \in People
                    /\ w.account[w.team[p].owner].type \in OwnerTypes
                    /\ w.account[p].type \in {"user", "admin"}
              /\ w.brand[p].active => w.brand[p].domain # NoDomain
        /\ \A p, q \in People :
              p # q /\ w.brand[p].domain = w.brand[q].domain => w.brand[p].domain = NoDomain
        /\ \A b \in Browsers : w.signedIn[b] # Nobody => w.account[w.signedIn[b]].type # "none"

\* open: consumedAt is null.  fresh: before expiresAt.  known: the code in force reached
\* its user.  guesses and starts are not stored: the wrong codes answered since that code
\* was made, and the sessions the challenge began.
Challenge == [user: People, open: BOOLEAN, fresh: BOOLEAN, known: BOOLEAN,
              attempts: 0..MaxAttempts, resends: 0..MaxResends, guesses: Nat, starts: Nat]

\* An access token.  view: the operator behind a client's session (viewAsActorId).
\* host is not in it: the portal it was issued through.
Token == [user: People, type: AccountType, owner: People, own: BOOLEAN, can: SUBSET Permission,
          view: People \cup {Nobody}, host: Hosts \cup {Nobody}, fresh: BOOLEAN]

NoToken == [user |-> Nobody, type |-> "none", owner |-> Nobody, own |-> TRUE, can |-> {},
            view |-> Nobody, host |-> Nobody, fresh |-> FALSE]

VARIABLES
    handlers,   \* the handlers of this scene
    challenges,
    links,      \* whose mail holds a link that sets a password, not expired
    access,     \* access_token, per browser
    stored,     \* view_as_actor_access
    renewal,    \* the user of refresh_token
    trusted,    \* the user of the trusted device the browser's cookie names
    callsLeft   \* handler invocations left

cookies == <<access, stored, renewal>>
loginVars == <<challenges, links, cookies, trusted>>
allVars == <<portalVars, handlers, loginVars, callsLeft>>

LoginTypeOK ==
    /\ PortalTypeOK
    /\ handlers \subseteq AllCalls
    /\ challenges \in Seq(Challenge) /\ Len(challenges) <= MaxChallenges
    /\ links \subseteq People
    /\ access \in [Browsers -> Token \cup {NoToken}]
    /\ stored \in [Browsers -> Token \cup {NoToken}]
    /\ renewal \in [Browsers -> People \cup {Nobody}]
    /\ trusted \in [Browsers -> People \cup {Nobody}]
    /\ callsLeft \in 0..MaxLoginCalls

Call(op) == op \in handlers /\ callsLeft > 0 /\ callsLeft' = callsLeft - 1 /\ UNCHANGED handlers

-----------------------------------------------------------------------------
(* Sessions *)

TokenFor(p, host) ==
    LET s == Payload(p) IN
    [user |-> p, type |-> s.type, owner |-> s.owner, own |-> s.own, can |-> s.can,
     view |-> Nobody, host |-> host, fresh |-> TRUE]

\* The portal through which the sessions of a scene were begun.
FirstHome(o) == Home(o, CHOOSE row \in Found(o) : TRUE)

LoginInit ==
    /\ \E w \in Scenes :
        /\ handlers = w.handlers /\ account = w.account /\ team = w.team /\ brand = w.brand
        /\ renewal = w.signedIn /\ callsLeft = w.callsLeft
    /\ origins = LiveDomains(brand)
    /\ challenges = <<>>
    /\ links = {}
    /\ access = [b \in Browsers |-> IF renewal[b] = Nobody THEN NoToken
                                   ELSE TokenFor(renewal[b], FirstHome(Subject(renewal[b])))]
    /\ stored = [b \in Browsers |-> NoToken]
    /\ trusted = [b \in Browsers |-> Nobody]

\* issueSessionTokens, setPanelSessionCookies: the operator's cookie stays.
StartSession(b, p, host) ==
    /\ access' = [access EXCEPT ![b] = TokenFor(p, host)]
    /\ renewal' = [renewal EXCEPT ![b] = p]
    /\ UNCHANGED stored

Exists(p) == account[p].type # "none"
Active(p) == Exists(p) /\ account[p].active

\* AuthGuard, and ViewAsReadOnlyInterceptor for every mutation but the way out.
Writes(b) == access[b].fresh /\ access[b].view = Nobody

-----------------------------------------------------------------------------
(* Signing in *)

\* consumeTrustedDeviceIfValid: the cookie names a device of this user and browser.
KnownDevice(b, p) == trusted[b] = p

\* Deliberately wrong: the older codes stay good.
ConsumeNone(p) == challenges

\* signIn: every open challenge of the user is consumed.
Consume(p) ==
    [c \in DOMAIN challenges |->
        IF challenges[c].user = p THEN [challenges[c] EXCEPT !.open = FALSE]
        ELSE challenges[c]]

NewChallenge(p) ==
    [user |-> p, open |-> TRUE, fresh |-> TRUE, known |-> TRUE,
     attempts |-> 0, resends |-> 0, guesses |-> 0, starts |-> 0]

\* signIn with the right password.  A challenge whose code cannot be sent is deleted.
SignIn(b, p, host) ==
    /\ Call("signIn")
    /\ Active(p) /\ account[p].ready /\ MayEnter(p, host)
    /\ \/ /\ KnownDevice(b, p)
          /\ StartSession(b, p, host)
          /\ UNCHANGED challenges
       \/ /\ ~KnownDevice(b, p)
          /\ \/ challenges' = Consume(p)
             \/ /\ Len(challenges) < MaxChallenges
                /\ challenges' = Append(Consume(p), NewChallenge(p))
          /\ UNCHANGED cookies
    /\ UNCHANGED <<portalVars, links, trusted>>

Guessable(c) ==
    challenges[c].open /\ challenges[c].fresh /\ challenges[c].attempts < MaxAttempts

\* signInVerify, the wrong code.
VerifyWrong(c) ==
    /\ Call("verify") /\ Guessable(c)
    /\ challenges' = [challenges EXCEPT ![c].attempts = @ + 1, ![c].guesses = @ + 1]
    /\ UNCHANGED <<portalVars, links, cookies, trusted>>

\* signInVerify, the right code, in whichever browser and through whichever portal:
\* the code is consumed before the user and the portal are looked at.
Verify(b, c, host) ==
    LET p == challenges[c].user IN
    /\ Call("verify") /\ Guessable(c) /\ challenges[c].known
    /\ \/ /\ Active(p) /\ MayEnter(p, host)
          /\ challenges' = [challenges EXCEPT ![c].open = FALSE, ![c].starts = @ + 1]
          /\ StartSession(b, p, host)
       \/ /\ ~Active(p) \/ MayBeRefused(p, host)
          /\ challenges' = [challenges EXCEPT ![c].open = FALSE]
          /\ UNCHANGED cookies
    /\ UNCHANGED <<portalVars, links, trusted>>

\* Deliberately wrong: the old code is sent once more.
ResendTheSame(c, sent) ==
    /\ Call("resend")
    /\ challenges[c].open /\ challenges[c].fresh /\ challenges[c].resends < MaxResends
    /\ Active(challenges[c].user)
    /\ challenges' = [challenges EXCEPT ![c].resends = @ + 1, ![c].attempts = 0]
    /\ UNCHANGED <<portalVars, links, cookies, trusted>>

\* signInResendOtp: the new code is in force whether or not it reaches the user, and
\* the attempts at the old one are forgotten.
Resend(c, sent) ==
    /\ Call("resend")
    /\ challenges[c].open /\ challenges[c].fresh /\ challenges[c].resends < MaxResends
    /\ Active(challenges[c].user)
    /\ challenges' = [challenges EXCEPT ![c].resends = @ + 1, ![c].attempts = 0,
                                        ![c].guesses = 0, ![c].known = sent]
    /\ UNCHANGED <<portalVars, links, cookies, trusted>>

\* createTrustedLoginDevice.
TrustDevice(b) ==
    /\ Call("trust") /\ Writes(b)
    /\ trusted' = [trusted EXCEPT ![b] = access[b].user]
    /\ UNCHANGED <<portalVars, challenges, links, cookies>>

-----------------------------------------------------------------------------
(* Passwords *)

\* revokeTrustedDevicesForUser.
Distrust(p) == trusted' = [b \in Browsers |-> IF trusted[b] = p THEN Nobody ELSE trusted[b]]

\* changePassword names the account in its body.
ChangePassword(b, p) ==
    /\ Call("password") /\ Writes(b)
    /\ Exists(p) /\ account[p].ready
    /\ Distrust(p)
    /\ UNCHANGED <<portalVars, challenges, links, cookies>>

ForgotPassword(p) ==
    /\ Call("password") /\ Exists(p)
    /\ links' = links \cup {p}
    /\ UNCHANGED <<portalVars, challenges, cookies, trusted>>

\* resetPassword, with a link of forgotPassword or of an invitation: it stays good.
ResetPassword(p) ==
    /\ Call("password") /\ p \in links
    /\ account' = [account EXCEPT ![p].ready = TRUE]
    /\ Distrust(p)
    /\ UNCHANGED <<team, brand, origins, challenges, links, cookies>>

-----------------------------------------------------------------------------
(* Keeping a session *)

\* The session in force is a view of a client: it is not renewed.
InView(b) == access[b].fresh /\ access[b].view # Nobody

\* Deliberately wrong: the portal is judged at the sign-in only.
RefreshAnywhere(b, host) ==
    LET p == renewal[b] IN
    /\ Call("refresh") /\ p # Nobody /\ Active(p)
    /\ ~InView(b)
    /\ access' = [access EXCEPT ![b] = TokenFor(p, host)]
    /\ UNCHANGED <<portalVars, challenges, links, stored, renewal, trusted>>

\* refresh, at a portal that lets the user in.
Refresh(b, host) ==
    LET p == renewal[b] IN
    /\ Call("refresh") /\ p # Nobody /\ Active(p) /\ MayEnter(p, host)
    /\ ~InView(b)
    /\ access' = [access EXCEPT ![b] = TokenFor(p, host)]
    /\ UNCHANGED <<portalVars, challenges, links, stored, renewal, trusted>>

Logout(b) ==
    /\ Call("logout")
    /\ access' = [access EXCEPT ![b] = NoToken]
    /\ stored' = [stored EXCEPT ![b] = NoToken]
    /\ renewal' = [renewal EXCEPT ![b] = Nobody]
    /\ UNCHANGED <<portalVars, challenges, links, trusted>>

\* me, through a portal, by the row the door finds: the first thing the panel asks.
Answers(token, host, row) ==
    token.fresh /\ Active(token.user) /\ EntersBy(token.user, host, row)

-----------------------------------------------------------------------------
(* Viewing the panel as a client *)

\* Deliberately wrong: a partner views any client.
MayViewAnyone(by, p) == Active(p) /\ Payload(p).type = "client"

\* assertActorCanViewClientUser, resolveTargetClient: a partner names a row of his that
\* is linked to the account, or the account, of which a linked row of his is found.
MayView(by, p) ==
    /\ Active(p) /\ Payload(p).type = "client"
    /\ by.type = "partner" => by.owner \in account[p].linked

\* Deliberately wrong: a view is begun from within another.
ViewFromView(b, p) ==
    LET by == access[b] IN
    /\ Call("view") /\ by.fresh
    /\ by.view # Nobody \/ by.type \in {"partner", "admin", "user"}
    /\ by.view # Nobody \/ MayView(by, p)
    /\ Active(p) /\ Payload(p).type = "client"
    /\ stored' = [stored EXCEPT ![b] = by]
    /\ access' = [access EXCEPT ![b] = [TokenFor(p, Nobody) EXCEPT !.view = by.user]]
    /\ UNCHANGED <<portalVars, challenges, links, renewal, trusted>>

\* start: the operator's token is kept in a cookie of its own.
View(b, p) ==
    LET by == access[b] IN
    /\ Call("view") /\ Writes(b)
    /\ by.type \in {"partner", "admin", "user"}
    /\ MayView(by, p)
    /\ stored' = [stored EXCEPT ![b] = by]
    /\ access' = [access EXCEPT ![b] = [TokenFor(p, Nobody) EXCEPT !.view = by.user]]
    /\ UNCHANGED <<portalVars, challenges, links, renewal, trusted>>

Restorable(token) == token.fresh /\ token.view = Nobody /\ Active(token.user)

\* end: the kept token, or else a new one for the operator the view names.
EndView(b) ==
    /\ Call("view")
    /\ \/ /\ Restorable(stored[b])
          /\ access' = [access EXCEPT ![b] = stored[b]]
       \/ /\ ~Restorable(stored[b])
          /\ InView(b) /\ Active(access[b].view)
          /\ access' = [access EXCEPT ![b] = TokenFor(access[b].view, Nobody)]
    /\ stored' = [stored EXCEPT ![b] = NoToken]
    /\ UNCHANGED <<portalVars, challenges, links, renewal, trusted>>

-----------------------------------------------------------------------------
(* Portal's handlers in a session *)

Invites(b, p, can) ==
    /\ Call("team") /\ Writes(b) /\ InviteMember(access[b], p, can)
    /\ links' = links \cup {p}
    /\ UNCHANGED <<challenges, cookies, trusted>>

ChangesTeam(b, p) ==
    /\ Call("team") /\ Writes(b)
    /\ Revoke(access[b], p) \/ \E can \in SUBSET Permission : UpdatePermissions(access[b], p, can)
    /\ UNCHANGED loginVars

SavesBrand(b, q, new) ==
    /\ Call("brand") /\ Writes(b)
    /\ CreateBrand(access[b], q, new) \/ UpdateBrand(access[b], q, new)
    /\ UNCHANGED loginVars

ChangesRows(p) ==
    /\ Call("rows")
    /\ \/ LinkMailed(p)
       \/ \E row \in Row :
            AddRow(p, row) \/ LinkRow(p, row) \/ RowForRequest(p, row) \/ RemoveRow(p, row)
    /\ UNCHANGED loginVars

Toggles(p) == Call("toggle") /\ ToggleAccount(p) /\ UNCHANGED loginVars
Restarts == Call("restart") /\ Restart /\ UNCHANGED loginVars

-----------------------------------------------------------------------------
(* Time: OTP_TTL_MS, the lives of tokens, links and cookies *)

CodeExpires(c) ==
    /\ challenges[c].fresh
    /\ challenges' = [challenges EXCEPT ![c].fresh = FALSE]
    /\ UNCHANGED <<links, cookies, trusted>>

LinkExpires(p) ==
    /\ p \in links
    /\ links' = links \ {p}
    /\ UNCHANGED <<challenges, cookies, trusted>>

AccessExpires(b) ==
    /\ access[b] # NoToken
    /\ access' = [access EXCEPT ![b] = IF @.fresh THEN [@ EXCEPT !.fresh = FALSE] ELSE NoToken]
    /\ UNCHANGED <<challenges, links, stored, renewal, trusted>>

\* The cookie of the operator is made with that of the view and lives as long; the
\* token in it was issued before.
StoredExpires(b) ==
    /\ stored[b] # NoToken
    /\ stored[b].fresh \/ access[b].view = Nobody \/ ~access[b].fresh
    /\ stored' = [stored EXCEPT ![b] = IF @.fresh THEN [@ EXCEPT !.fresh = FALSE] ELSE NoToken]
    /\ UNCHANGED <<challenges, links, access, renewal, trusted>>

RenewalExpires(b) ==
    /\ renewal[b] # Nobody
    /\ renewal' = [renewal EXCEPT ![b] = Nobody]
    /\ UNCHANGED <<challenges, links, access, stored, trusted>>

DeviceExpires(b) ==
    /\ trusted[b] # Nobody
    /\ trusted' = [trusted EXCEPT ![b] = Nobody]
    /\ UNCHANGED <<challenges, links, cookies>>

Time ==
    /\ Call("time")
    /\ \/ \E c \in DOMAIN challenges : CodeExpires(c)
       \/ \E p \in People : LinkExpires(p)
       \/ \E b \in Browsers :
            AccessExpires(b) \/ StoredExpires(b) \/ RenewalExpires(b) \/ DeviceExpires(b)
    /\ UNCHANGED portalVars

-----------------------------------------------------------------------------
InBrowser(b) ==
    \/ \E p \in People, host \in Hosts : SignIn(b, p, host)
    \/ \E c \in DOMAIN challenges, host \in Hosts : Verify(b, c, host)
    \/ TrustDevice(b) \/ Logout(b) \/ EndView(b)
    \/ \E host \in Hosts : Refresh(b, host)
    \/ \E p \in People : ChangePassword(b, p) \/ View(b, p) \/ ChangesTeam(b, p)
    \/ \E p \in People, can \in SUBSET Permission : Invites(b, p, can)
    \/ \E q \in People, new \in Brand : new.domain # NoDomain /\ SavesBrand(b, q, new)

LoginNext ==
    \/ \E b \in Browsers : InBrowser(b)
    \/ \E c \in DOMAIN challenges :
        VerifyWrong(c) \/ \E sent \in BOOLEAN : Resend(c, sent)
    \/ \E p \in People : ForgotPassword(p) \/ ResetPassword(p) \/ Toggles(p) \/ ChangesRows(p)
    \/ Restarts \/ Time

LoginSpec == LoginInit /\ [][LoginNext]_allVars

-----------------------------------------------------------------------------
(* Properties *)

\* A code is worth one session and MaxAttempts guesses, and the last sign-in makes every
\* earlier code void: through failed e-mails, new codes of the same challenge, wrong
\* portals and several browsers.
OneCode ==
    /\ \A c \in DOMAIN challenges :
        challenges[c].starts <= 1 /\ challenges[c].guesses <= MaxAttempts
    /\ \A c, d \in DOMAIN challenges :
        challenges[c].open /\ challenges[d].open /\ challenges[c].user = challenges[d].user
            => c = d

\* Whose account a session acts for belongs to the portal: the platform's own on the
\* platform, the partner or one of his clients on his domain.
Fits(token) ==
    \/ token.type = "admin" \/ account[token.user].type = "admin"
    \/ \E row \in Found(token.owner) :
        LET partner == PartnerOf(token.owner, row) IN
        IF token.host = Platform
        THEN partner # Nobody => ~Branded(partner) /\ token.type = "partner"
        ELSE partner # Nobody /\ Branded(partner) /\ brand[partner].domain = token.host

\* Every session begun or renewed through a portal acts for an account of that portal,
\* whatever has become of the team, the brand and the account since the last renewal.
SessionsFit ==
    [][\A b \in Browsers :
        LET t == access'[b] IN
        (t.fresh /\ t.host # Nobody /\ t \notin {access[b], stored[b]}) => Fits(t)]_allVars

\* A client whom a partner, or a teammate of his, may view is let in by the partner's own
\* portal, where the view is opened, as the partner's client: only by the row of another
\* partner, when the account is linked to several, can the door refuse.  It does not hold
\* of staff, nor of a partner without an active brand, nor of an account of another type.
ViewsOpen ==
    [][\A b \in Browsers :
        LET t == access'[b]
            by == stored'[b]
        IN (t # access[b] /\ t.view # Nobody /\ t.fresh /\ account[t.user].type = "client"
            /\ by.type = "partner" /\ Branded(by.owner))
               => /\ by.owner \in Found(t.user)
                  /\ Answers(t, brand[by.owner].domain, by.owner)]_allVars

\* docs/portal-partner-qa.md:14: a client of partner A enters neither the domain of
\* partner B nor the platform.  It does not hold: a client of the platform's may be linked
\* to a partner's row as well, and the door looks at one of his rows.
ClientsStay ==
    [][\A b \in Browsers :
        LET t == access'[b]
            partners == account[t.user].linked \ {Nobody}
        IN (t \notin {access[b], stored[b], NoToken} /\ t.host # Nobody /\ partners # {}
            /\ account[t.user].type = "client")
               => \E q \in partners : brand[q].domain = t.host]_allVars

\* The way out of a view leads back to the operator it names: the token kept beside a
\* view is his and no view itself, after sign-ins, renewals, nested requests and expiries.
OperatorKept ==
    \A b \in Browsers :
        access[b].view # Nobody /\ stored[b] # NoToken =>
            stored[b].user = access[b].view /\ stored[b].view = Nobody
=============================================================================
