--------------------------- MODULE MCClassification ---------------------------
(* Three movements of one payee and one whose text names no payee; the plan  *)
(* (an income, a cost, the transfers), an account of the client's own, and   *)
(* an older code that stands for the cost account.                           *)
EXTENDS Classification

MCCodes == {Sales, "6950", Interco, "ADMIN", "OWN"}
MCLocked == {Sales, "6950", Interco}
MCType == [c \in MCCodes |-> IF c \in {Sales, "OWN"} THEN "income"
                             ELSE IF c = Interco THEN "other" ELSE "expense"]
MCModern == [c \in MCCodes |-> IF c = "ADMIN" THEN "6950" ELSE NoCode]
MCPayees == {"acme"}

Seen(payee, amount, interco, exact, fuzzy) ==
    [payee |-> payee, amount |-> amount, interco |-> interco,
     exact |-> exact, fuzzy |-> fuzzy]

Says(code, sure) == [code |-> code, sure |-> sure]

MCMovement ==
    [t \in {"t1", "t2", "t3", "t4"} |->
        CASE t = "t1" -> Seen("acme", -3, FALSE, <<>>, <<>>)
          [] t = "t2" -> Seen("acme", -5, FALSE, <<Says("OWN", TRUE), Says("ADMIN", TRUE)>>, <<>>)
          [] t = "t3" -> Seen("acme", 7, FALSE, <<>>, <<Says("OWN", TRUE), Says(Sales, FALSE)>>)
          [] t = "t4" -> Seen(NoPayee, 2, TRUE, <<>>, <<Says(Sales, TRUE)>>)]
MCTxs == DOMAIN MCMovement
MCCalls == [w \in Worlds |-> IF w = "serial" THEN 3 ELSE 2]
=============================================================================
