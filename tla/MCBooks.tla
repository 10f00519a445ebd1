-------------------------------- MODULE MCBooks -------------------------------
(***************************************************************************)
(* The two books of a client that share nothing, his invoices and his      *)
(* movements, in one model: the handlers of one of them run, and the other *)
(* stays as it was at the beginning.                                       *)
(***************************************************************************)
EXTENDS MCInvoicing, MCClassification

VARIABLE book

booksVars == <<book, invoicingVars, vars>>

Issuing == book = "invoices" /\ InvoicingNext /\ UNCHANGED <<book, vars>>
Coding == book = "movements" /\ Next /\ UNCHANGED <<book, invoicingVars>>

BooksInit ==
    /\ InvoicingInit /\ Init
    /\ \/ book = "invoices" /\ world = "serial" /\ rows = [t \in Txs |-> Imported]
       \/ book = "movements" /\ mode = "serial"

BooksSpec == BooksInit /\ [][Issuing \/ Coding]_booksVars
===============================================================================
