------------------------------- MODULE MCLogin -------------------------------
(***************************************************************************)
(* Login in five scenes: codes are sent, entered and sent again; a team    *)
(* and a brand are made; they change under open sessions; staff and a      *)
(* partner view the panel as clients; a client is linked to several rows.  *)
(***************************************************************************)
EXTENDS Login

CONSTANTS ada, pia, cleo, tom, b1, b2, d1, d2

Is(type) == [type |-> type, active |-> TRUE, linked |-> {}, mailed |-> {}, ready |-> TRUE]
ClientWith(linked, mailed) == [Is("client") EXCEPT !.linked = linked, !.mailed = mailed]

MCUsers == [p \in People |-> CASE p = ada -> Is("admin")
                               [] p = pia -> Is("partner")
                               [] p = cleo -> ClientWith({pia}, {})
                               [] OTHER -> NoAccount]
MCTeam == [p \in People |-> NoMembership]
MCBrand == [p \in People |-> NoBrand]
Own == [domain |-> d1, active |-> TRUE, contact |-> TRUE]

Owned == [MCBrand EXCEPT ![pia] = Own]
In(x, y) == [b \in Browsers |-> IF b = b1 THEN x ELSE y]

Codes == [handlers |-> {"signIn", "verify", "resend", "trust", "password", "time"}, callsLeft |-> 7,
          account |-> MCUsers, team |-> MCTeam, brand |-> Owned, signedIn |-> In(Nobody, Nobody)]
Doors == [handlers |-> {"refresh", "team", "brand", "restart", "signIn", "verify", "password"},
          callsLeft |-> 5,
          account |-> MCUsers, team |-> MCTeam, brand |-> MCBrand, signedIn |-> In(pia, ada)]
Mates == [handlers |-> {"refresh", "team", "brand", "toggle", "view"}, callsLeft |-> 5,
          account |-> [MCUsers EXCEPT ![tom] = Is("user")],
          team |-> [MCTeam EXCEPT ![tom] = [status |-> "active", owner |-> pia,
                                            can |-> {"brandEdit"}]],
          brand |-> Owned, signedIn |-> In(pia, tom)]
Views == [handlers |-> {"view", "refresh", "logout", "time", "signIn", "toggle"}, callsLeft |-> 5,
          account |-> [MCUsers EXCEPT ![tom] = ClientWith({}, {})],
          team |-> MCTeam, brand |-> Owned, signedIn |-> In(pia, ada)]

\* Two partners, and a client of the platform whose address one of them has as well.
Several == [handlers |-> {"rows", "view", "refresh", "signIn", "verify"}, callsLeft |-> 4,
            account |-> [MCUsers EXCEPT ![ada] = Is("partner"),
                                        ![cleo] = ClientWith({Nobody}, {pia})],
            team |-> MCTeam, brand |-> [Owned EXCEPT ![ada] = [Own EXCEPT !.domain = d2]],
            signedIn |-> In(pia, ada)]

MCScenes == {Codes, Doors, Mates, Views, Several}

\* What the theorems ask of the scenes holds of these.
ASSUME ScenesToBegin == SoundScenes
=============================================================================
