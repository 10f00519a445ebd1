------------------------------ MODULE MCBankSync ------------------------------
(***************************************************************************)
(* Movements for model checking BankSync, all of one day and one amount.   *)
(* The statement and Plaid name a movement alike, but those in Renamed not *)
(* at all: the statement has only a short key for them.                    *)
(***************************************************************************)
EXTENDS BankSync

CONSTANT Renamed

MCLine == [m \in Movements |-> m]
MCLook == [via \in {Csv, Feed} |->
            [m \in Movements |->
               [figure |-> "day",
                payee |-> IF m \in Renamed /\ via = Csv THEN NoPayee ELSE m]]]

=============================================================================
