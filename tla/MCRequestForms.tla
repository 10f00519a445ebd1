--------------------------- MODULE MCRequestForms ---------------------------
(* Forms and accounts for model checking RequestForms.  *)
EXTENDS RequestForms

CONSTANTS Ana, Luis

\* Every mode for the type with the most handlers, two for the others.
MCModes == [t \in Types |-> IF t = "apertura-llc" THEN Mode ELSE {"serial", "locking"}]

E(who, pct, v) == [who |-> who, filled |-> TRUE, pct |-> pct, validatesBankAccount |-> v]

\* A blank entry: the frontend proposes its percentage.
Typed(who, pct) == [E(who, pct, FALSE) EXCEPT !.filled = FALSE]

P(section, llc, late, submits, list) ==
    [section |-> section, llc |-> llc, late |-> late, submits |-> submits,
     sent |-> TRUE, members |-> list, files |-> FALSE]

\* A form without its list of members.
Q(section, llc, late, submits) == [P(section, llc, late, submits, {}) EXCEPT !.sent = FALSE]

MCPayloads ==
    {P(1, "none", TRUE, FALSE, {E(Ana, 60, TRUE)}),
     P(2, "multi", FALSE, TRUE, {E(Ana, 60, TRUE), E(Luis, 40, FALSE)}),
     [P(2, "multi", FALSE, FALSE, {E(Ana, 60, FALSE), Typed(Luis, 40)})
        EXCEPT !.files = TRUE],
     Q(6, "single", TRUE, TRUE),
     P(6, "multi", TRUE, FALSE, {E(Ana, 60, TRUE), E(Luis, 40, TRUE)})}

A(llc, late, owners, contact, partners) ==
    [llc |-> llc, late |-> late, owners |-> owners, contact |-> contact,
     partners |-> partners, itself |-> {E(Luis, 100, FALSE)}]

MCAccounts ==
    {A("single", FALSE, {E(Ana, 100, FALSE)}, {}, {}),
     A("multi", TRUE, {}, {E(Ana, 100, FALSE)}, {E(Luis, 40, FALSE)})}
=============================================================================
