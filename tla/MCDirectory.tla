----------------------------- MODULE MCDirectory -----------------------------
(* Worlds for model checking Directory.  *)
EXTENDS Directory

CONSTANTS Root, Maya, Pia, Ana, Luis

MCTyped == {[box |-> Ana, plain |-> TRUE], [box |-> Ana, plain |-> FALSE],
            [box |-> Luis, plain |-> TRUE]}

At1(box) == [box |-> box, plain |-> TRUE]
Staff == <<NewUser("admin", At1(Root)), NewUser("admin", At1(Maya)),
           NewUser("partner", At1(Pia))>>

\* Administrators and staff only.
Office == [ops |-> {"createUser", "toggleUser", "staff"}, users |-> Staff, clients |-> <<>>]

\* The same accounts, whose columns may be stored as they are sent.
Profiles == [ops |-> Unguarded, users |-> Staff, clients |-> <<NewClient(3, 0, At1(Luis))>>]

\* Partners and the wizard, one client to begin with.
Panel == [ops |-> AllOps \ (Careless \cup Unguarded \cup {"createUser", "toggleUser", "staff"}),
          users |-> Staff, clients |-> <<NewClient(3, 0, At1(Luis))>>]

\* Everybody who keeps both sides of an address together.
Portals == [ops |-> AllOps \ (OneSided \cup {"createUser", "toggleUser", "staff"}),
            users |-> Append(Staff, NewUser("client", At1(Ana))),
            clients |-> <<NewClient(3, 0, At1(Luis)), NewClient(0, 4, At1(Ana))>>]

MCWorlds == {Office, Profiles, Panel, Portals}

\* What the theorems ask of the worlds holds of these.
ASSUME WorldsToBegin == AdminsToBegin /\ TwinsToBegin /\ AgreeingToBegin
=============================================================================
