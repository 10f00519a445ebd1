----------------------------- MODULE RequestStatus -----------------------------
(***************************************************************************)
(* What the panel promises about the status of a request, without saying   *)
(* how: who may move it where, and which moves need a CRM account.         *)
(*                                                                         *)
(* A client edits a draft and submits it, staff approve what was submitted *)
(* and has been linked to the CRM, staff reject what is still open, and    *)
(* from then on only the CRM pipeline moves the request.  An edit by its   *)
(* owner may reopen it.  A removed request never comes back.               *)
(***************************************************************************)
CONSTANT Requests

VARIABLES
    state,     \* status of each request, "unborn" before and "deleted" after its life
    linked,    \* requests with a CRM account
    reported   \* requests whose deal the CRM is reporting right now

vars == <<state, linked, reported>>

Open == {"pendiente", "solicitud-recibida"}
Pipeline == {"pendiente", "en-proceso", "completada", "rechazada"}
Gone == {"unborn", "deleted"}
State == Open \cup Pipeline \cup Gone

Init ==
    /\ state = [r \in Requests |-> "unborn"]
    /\ linked = {} /\ reported = {}

Move(r, s) == state' = [state EXCEPT ![r] = s]

Create(r) ==
    /\ state[r] = "unborn"
    /\ \E s \in Open : Move(r, s)
    /\ UNCHANGED <<linked, reported>>

\* A request that begins as an account in the CRM arrives with its deal.
Arrive(r) ==
    /\ state[r] = "unborn"
    /\ Move(r, "pendiente")
    /\ linked' = linked \cup {r}
    /\ reported' = reported \cup {r}

Edit(r) ==
    /\ state[r] \notin Gone
    /\ \E s \in Open : Move(r, s)
    /\ UNCHANGED <<linked, reported>>

Link(r) ==
    /\ state[r] \notin Gone
    /\ linked' = linked \cup {r}
    /\ UNCHANGED <<state, reported>>

Approve(r) ==
    /\ state[r] = "solicitud-recibida" /\ r \in linked
    /\ Move(r, "en-proceso")
    /\ UNCHANGED <<linked, reported>>

Reject(r) ==
    /\ state[r] \in Open
    /\ Move(r, "rechazada")
    /\ UNCHANGED <<linked, reported>>

Report(r) ==
    /\ state[r] \notin Gone
    /\ linked' = linked \cup {r}
    /\ reported' = reported \cup {r}
    /\ UNCHANGED state

\* The report moves the request where its deal is, or is given up.
Advance(r) ==
    /\ r \in reported /\ r \in linked
    /\ \E s \in Pipeline \cup {state[r]} : Move(r, s)
    /\ reported' = reported \ {r}
    /\ UNCHANGED linked

Remove(r) ==
    /\ state[r] \notin Gone
    /\ Move(r, "deleted")
    /\ linked' = linked \ {r}
    /\ UNCHANGED reported

Next ==
    \E r \in Requests :
        \/ Create(r) \/ Arrive(r) \/ Edit(r) \/ Link(r) \/ Approve(r)
        \/ Reject(r) \/ Report(r) \/ Advance(r) \/ Remove(r)

Spec == Init /\ [][Next]_vars
=============================================================================
