---------------------------- MODULE Billing_proofs ----------------------------
(***************************************************************************)
(* Billing for every number of handlers, customers, subscriptions and      *)
(* events: its types, the agreement of the two status columns, and, when   *)
(* one handler runs at a time, what a payer is owed.                       *)
(***************************************************************************)
EXTENDS Billing, FiniteSetTheorems, TLAPS

USE KindsAssumption, NoCustomerAssumption, BoundsAssumption

IssuedOrNone == customers \cup {NoCustomer}

\* A row some handler may save: well formed, of a customer that exists, and with
\* an access state that matches its status.
GoodRow == {u \in User : u.customer \in IssuedOrNone /\ AccessMatches(u)}

WebhookPc == {"retrieve", "find", "webhookSave", "record"}

GoodTask ==
    {t \in Task :
        /\ t.snap \in GoodRow
        /\ t.seen.customer \in IssuedOrNone
        /\ t.pc \in {"customerSave", "session"} => t.snap.customer \in customers
        /\ t.pc \in WebhookPc => t.event \in 1..emitted
        /\ t.pc \in {"retrieve", "find"} => t.sub \in 1..paid
        /\ t.pc = "find" => t.seen.status # "none"}

StripeOK ==
    /\ ended \subseteq 1..paid
    /\ \A s \in 1..paid : stripe[s].customer \in customers /\ stripe[s].status # "none"
    /\ \A i \in 1..emitted : /\ events[i].sub \in 1..paid
                             /\ events[i].seen.customer \in customers
                             /\ events[i].seen.status # "none"

TypeInv ==
    /\ TypeOK
    /\ StripeOK
    /\ user \in GoodRow
    /\ cron.snap \in GoodRow
    /\ task \in [Workers -> GoodTask]

Grows ==
    /\ kind' = kind
    /\ customers \subseteq customers'
    /\ paid' \in Nat /\ paid <= paid'
    /\ emitted' \in Nat /\ emitted <= emitted'

-----------------------------------------------------------------------------
(* Rows *)

LEMMA BlankGood == kind \in AllKinds => NewUser \in GoodRow
BY DEF AllKinds, GoodRow, NewUser, User, IssuedOrNone, AccessMatches, CustomerOrNone,
       Status, Access, NoSub

LEMMA TrialGood ==
    ASSUME kind \in AllKinds, NEW u \in GoodRow
    PROVE  TrialOpened(u) \in GoodRow /\ TrialOpened(u).customer = u.customer
           /\ TrialOpened(u).sub = u.sub
<1> DEFINE v == [u EXCEPT !.trial = TRUE]
<1>1. CASE kind = "staff"
  BY <1>1 DEF GoodRow, TrialOpened, WithAccess, Derived, AccessMatches, User, Access
<1>2. CASE kind = "partner-client"
  BY <1>2 DEF GoodRow, TrialOpened, Derived, AccessMatches, User, Status, Access
<1>3. CASE kind = "client" /\ u.trial
  BY <1>3 DEF TrialOpened
<1>4. CASE kind = "client" /\ ~u.trial
  <2>1. v \in User /\ v.status = u.status /\ v.trial /\ v.customer = u.customer
        /\ v.sub = u.sub
    BY DEF GoodRow, User
  <2>2. TrialOpened(u) = [v EXCEPT !.access = Derived(v)]
    BY <1>4 DEF TrialOpened, WithAccess
  <2>3. Derived(v) \in Access
    BY DEF Derived, Access
  <2>4. TrialOpened(u) \in User /\ TrialOpened(u).customer = u.customer
        /\ TrialOpened(u).sub = u.sub
    BY <2>1, <2>2, <2>3 DEF User
  <2>5. Derived(TrialOpened(u)) = Derived(v) /\ TrialOpened(u).access = Derived(v)
        /\ TrialOpened(u).status = v.status
    BY <2>1, <2>2 DEF Derived, User
  <2>6. u.status = "none" => Derived(v) \in {"trial_active", "trial_expired"}
    BY <1>4, <2>1 DEF Derived
  <2>7. AccessMatches(TrialOpened(u))
    BY <1>4, <2>1, <2>5, <2>6 DEF AccessMatches
  <2> QED
    BY <2>4, <2>7 DEF GoodRow
<1> QED
  BY <1>1, <1>2, <1>3, <1>4 DEF AllKinds

LEMMA CopiedGood ==
    ASSUME kind \in AllKinds, NEW u \in User, u.customer \in IssuedOrNone,
           NEW s \in Subs, NEW x \in Subscription, x.status # "none"
    PROVE  Copied(u, s, x) \in GoodRow /\ Copied(u, s, x).customer = u.customer
           /\ Copied(u, s, x).sub = s
<1>1. Copied(u, s, x) = [u EXCEPT !.sub = s, !.status = x.status,
                                  !.cancelAt = x.cancelAt,
                                  !.access = Derived([u EXCEPT !.sub = s,
                                     !.status = x.status, !.cancelAt = x.cancelAt])]
  BY DEF Copied, WithAccess, User, Subscription
<1>2. Copied(u, s, x) \in User
  BY <1>1 DEF Derived, User, Status, Access, Subscription
<1>3. AccessMatches(Copied(u, s, x))
  BY <1>1 DEF AllKinds, AccessMatches, Derived, User, Status, Access, Subscription
<1> QED
  BY <1>1, <1>2, <1>3 DEF GoodRow, User

LEMMA CutGood ==
    ASSUME kind \in AllKinds, NEW u \in GoodRow
    PROVE  Cut(u) \in GoodRow /\ Cut(u).customer = u.customer /\ Cut(u).sub = u.sub
BY DEF AllKinds, GoodRow, Cut, WithAccess, Derived, AccessMatches, User, Status, Access

LEMMA RowsStayGood ==
    ASSUME kind \in AllKinds, kind' = kind, customers \subseteq customers'
    PROVE  GoodRow \subseteq GoodRow'
BY DEF GoodRow, IssuedOrNone, AccessMatches, Derived, User, AllKinds, Status

LEMMA TasksStayGood ==
    ASSUME kind \in AllKinds, paid \in Nat, emitted \in Nat, Grows
    PROVE  GoodTask \subseteq GoodTask'
<1>1. GoodRow \subseteq GoodRow'
  BY RowsStayGood DEF Grows
<1>2. IssuedOrNone \subseteq IssuedOrNone'
  BY DEF IssuedOrNone, Grows
<1>3. 1..emitted \subseteq 1..emitted' /\ 1..paid \subseteq 1..paid'
  BY DEF Grows
<1> QED
  BY <1>1, <1>2, <1>3 DEF GoodTask, Grows
-----------------------------------------------------------------------------
(* Steps *)

LEMMA IdleGood == TypeInv => Idle \in GoodTask
BY BlankGood DEF TypeInv, TypeOK, GoodTask, Idle, Task, Pc, NewUser, Unpaid, Subscription,
   CustomerOrNone, Status, IssuedOrNone, NoEvent, NoSub, WebhookPc, GoodRow

LEMMA TypeFacts ==
    TypeInv => /\ kind \in AllKinds /\ user \in GoodRow /\ cron.snap \in GoodRow
               /\ paid \in Nat /\ emitted \in Nat /\ calls \in 0..MaxCalls
               /\ recorded \subseteq 1..emitted /\ calls \in Nat
               /\ \A w \in Workers : task[w] \in GoodTask
BY DEF TypeInv, TypeOK

\* A handler moves on and leaves Stripe as it is.
LEMMA QuietStep ==
    ASSUME TypeInv, NEW w \in Workers, NEW t \in GoodTask, Goto(w, t),
           UNCHANGED <<kind, external, cron>>, user' \in GoodRow,
           recorded' \subseteq 1..emitted, calls' \in 0..MaxCalls
    PROVE  TypeInv'
<1>1. /\ kind' = kind /\ customers' = customers /\ sessions' = sessions
      /\ stripe' = stripe /\ paid' = paid /\ ended' = ended /\ trialOver' = trialOver
      /\ events' = events /\ emitted' = emitted /\ cron' = cron
  BY DEF external
<1>2. Grows
  BY <1>1 DEF Grows, TypeInv, TypeOK
<1>3. GoodTask \subseteq GoodTask' /\ GoodRow \subseteq GoodRow'
  BY <1>2, TasksStayGood, RowsStayGood, TypeFacts DEF Grows
<1>4. task' = [task EXCEPT ![w] = t] /\ task' \in [Workers -> GoodTask]
  BY DEF Goto, TypeInv
<1>5. task' \in [Workers -> GoodTask'] /\ task' \in [Workers -> Task]
  BY <1>3, <1>4 DEF GoodTask
<1>6. user' \in GoodRow' /\ user' \in User /\ user'.customer \in customers \cup {NoCustomer}
      /\ cron'.snap \in GoodRow'
  BY <1>1, <1>3 DEF TypeInv, GoodRow, IssuedOrNone
<1>7. StripeOK'
  BY <1>1 DEF TypeInv, StripeOK
<1>8. TypeOK'
  BY <1>1, <1>5, <1>6 DEF TypeInv, TypeOK
<1> QED
  BY <1>5, <1>6, <1>7, <1>8 DEF TypeInv

LEMMA Began == ASSUME TypeInv, NEW w, NEW op, Starts(w, op)
               PROVE  calls' \in 0..MaxCalls /\ op \in AllOps
BY TypeFacts, OpsAssumption DEF Starts

LEMMA OpenTrialStep ==
    ASSUME TypeInv, NEW w \in Workers, NEW op \in {"access", "checkout"},
           NEW pc \in {"list", "customer"}, Starts(w, op), OpenTrial(w, op, pc),
           UNCHANGED <<kind, user, external, recorded, cron>>
    PROVE  TypeInv'
<1> DEFINE next == IF TrialSaves(user) THEN "trialSave" ELSE pc
           u == TrialOpened(user)
           t == [Idle EXCEPT !.op = op, !.snap = u, !.pc = next]
<1>1. Goto(w, t)
  BY DEF OpenTrial
<1>2. u \in GoodRow /\ next \in {"trialSave", "list", "customer"} /\ op \in AllOps
  BY TypeFacts, TrialGood, Began
<1> HIDE DEF u, next
<1>3. t \in GoodTask
  <2>1. PICK i \in GoodTask : i = Idle
    BY IdleGood
  <2>2. t = [i EXCEPT !.op = op, !.snap = u, !.pc = next]
    BY <2>1
  <2>3. t \in Task
    BY <1>2, <2>2 DEF GoodTask, Task, Pc, GoodRow
  <2>4. /\ t.snap = u /\ t.seen = i.seen
        /\ t.pc \in {"trialSave", "list", "customer"}
    BY <1>2, <2>2 DEF GoodTask, Task
  <2> HIDE DEF t
  <2> QED
    BY <1>2, <2>3, <2>4 DEF GoodTask, WebhookPc
<1> HIDE DEF t
<1> QED
  BY <1>1, <1>3, QuietStep, Began, TypeFacts

LEMMA BeginType == ASSUME TypeInv, NEW w \in Workers, Begin(w) PROVE TypeInv'
<1> USE TypeFacts
<1>1. CASE AccessBegin(w)
  BY <1>1, OpenTrialStep DEF AccessBegin
<1>2. CASE CheckoutBegin(w)
  BY <1>2, OpenTrialStep DEF CheckoutBegin
<1>3. CASE PortalBegin(w)
  <2> DEFINE t == [Idle EXCEPT !.op = "portal", !.pc = "customer", !.snap = user]
  <2>1. t \in GoodTask
    BY IdleGood DEF GoodTask, Task, Pc, WebhookPc, GoodRow, AllOps
  <2>2. Goto(w, t) /\ calls' \in 0..MaxCalls
    BY <1>3, Began DEF PortalBegin
  <2> HIDE DEF t
  <2> QED
    BY <1>3, <2>1, <2>2, QuietStep DEF PortalBegin
<1>4. CASE GrantBegin(w)
  <2> DEFINE u == [user EXCEPT !.plan = TRUE]
             t == [Idle EXCEPT !.op = "grant", !.pc = "grantSave", !.snap = u]
  <2>1. u \in GoodRow
    BY DEF GoodRow, User, AccessMatches, Derived, AllKinds, Status
  <2>2. Goto(w, t) /\ calls' \in 0..MaxCalls
    BY <1>4, Began DEF GrantBegin
  <2> HIDE DEF u
  <2>3. t \in GoodTask
    BY <2>1, IdleGood DEF GoodTask, Task, Pc, WebhookPc, GoodRow, AllOps
  <2> HIDE DEF t
  <2> QED
    BY <1>4, <2>2, <2>3, QuietStep DEF GrantBegin
<1>5. CASE WebhookBegin(w)
  <2>1. PICK i \in 1..emitted : IF i \in recorded THEN Finish(w) ELSE Received(w, i)
    BY <1>5 DEF WebhookBegin
  <2>2. calls' \in 0..MaxCalls
    BY <1>5, Began DEF WebhookBegin
  <2>3. CASE Finish(w)
    BY <1>5, <2>2, <2>3, IdleGood, QuietStep DEF WebhookBegin, Finish
  <2>4. CASE Received(w, i)
    <3> DEFINE pc == IF events[i].type = "completed" THEN "retrieve" ELSE "find"
               t == [Idle EXCEPT !.op = "webhook", !.event = i, !.sub = events[i].sub,
                                 !.seen = events[i].seen, !.pc = pc]
    <3>1. /\ i \in Events /\ events[i].sub \in 1..paid /\ events[i].sub \in Subs
          /\ events[i].seen \in Subscription /\ events[i].seen.customer \in customers
          /\ events[i].seen.status # "none"
      <4>1. i \in Events /\ 1..paid \subseteq Subs
        BY DEF TypeInv, TypeOK, Events, Subs
      <4>2. events[i] \in Event
        BY <4>1 DEF TypeInv, TypeOK
      <4> QED
        BY <4>1, <4>2 DEF TypeInv, StripeOK, Event
    <3>2. Goto(w, t)
      BY <2>4 DEF Received
    <3>3. pc \in {"retrieve", "find"}
      OBVIOUS
    <3> HIDE DEF pc
    <3>4. t \in GoodTask
      BY <3>1, <3>3, IdleGood
      DEF GoodTask, Task, Pc, WebhookPc, GoodRow, AllOps, IssuedOrNone, Idle
    <3> HIDE DEF t
    <3> QED
      BY <1>5, <2>2, <3>2, <3>4, QuietStep DEF WebhookBegin
  <2> QED
    BY <2>1, <2>3, <2>4
<1> QED
  BY <1>1, <1>2, <1>3, <1>4, <1>5 DEF Begin

LEMMA CreateCustomerType ==
    ASSUME TypeInv, NEW w \in Workers, CreateCustomer(w) PROVE TypeInv'
<1> USE TypeFacts
<1> DEFINE t == task[w]
<1>1. t \in GoodTask /\ t.snap \in GoodRow /\ t \in Task /\ At(w, "customer")
  BY DEF GoodTask, CreateCustomer
<1>2. CASE t.snap.customer # NoCustomer
  <2>1. Goto(w, [t EXCEPT !.pc = "session"]) /\ customers' = customers
    BY <1>2 DEF CreateCustomer
  <2>2. [t EXCEPT !.pc = "session"] \in GoodTask
    BY <1>1, <1>2 DEF GoodTask, Task, Pc, WebhookPc, GoodRow, IssuedOrNone
  <2> QED
    BY <2>1, <2>2, QuietStep DEF CreateCustomer, external
<1>3. CASE t.snap.customer = NoCustomer
  <2>1. PICK c \in Customers \ customers :
            /\ customers' = customers \cup {c}
            /\ Goto(w, [t EXCEPT !.pc = "customerSave", !.snap.customer = c])
    BY <1>3 DEF CreateCustomer
  <2> DEFINE x == [t EXCEPT !.pc = "customerSave", !.snap.customer = c]
  <2>2. /\ kind' = kind /\ user' = user /\ paid' = paid /\ emitted' = emitted
        /\ stripe' = stripe /\ events' = events /\ ended' = ended /\ cron' = cron
        /\ sessions' = sessions /\ trialOver' = trialOver /\ recorded' = recorded
        /\ calls' = calls
    BY DEF CreateCustomer
  <2>3. Grows
    BY <2>1, <2>2 DEF Grows
  <2>4. GoodTask \subseteq GoodTask' /\ GoodRow \subseteq GoodRow'
    BY <2>3, TasksStayGood, RowsStayGood DEF Grows
  <2>5. PICK u \in User : u = [t.snap EXCEPT !.customer = c]
    BY <1>1 DEF GoodRow, User, CustomerOrNone
  <2>6. /\ u.customer = c /\ u.access = t.snap.access /\ u.status = t.snap.status
        /\ u.trial = t.snap.trial
    BY <1>1, <2>5 DEF GoodRow, User
  <2>7. u \in GoodRow'
    <3>1. AccessMatches(t.snap)
      BY <1>1 DEF GoodRow
    <3>2. AccessMatches(u)
      BY <2>6, <3>1 DEF AccessMatches, Derived
    <3>3. AccessMatches(u)'
      BY <2>2, <3>2 DEF AccessMatches, Derived
    <3> QED
      BY <2>1, <2>6, <3>3 DEF GoodRow, IssuedOrNone
  <2>8. x \in GoodTask'
    <3>1. x = [t EXCEPT !.pc = "customerSave", !.snap = u]
      BY <1>1, <2>5 DEF Task
    <3>2. x \in Task /\ x.pc = "customerSave" /\ x.snap = u /\ x.seen = t.seen
      BY <1>1, <3>1 DEF Task, Pc
    <3>3. x.seen.customer \in IssuedOrNone'
      BY <1>1, <2>1, <3>2 DEF GoodTask, IssuedOrNone
    <3> HIDE DEF x
    <3> QED
      BY <2>1, <2>6, <2>7, <3>2, <3>3 DEF GoodTask, WebhookPc
  <2>9. task' = [task EXCEPT ![w] = x] /\ task' \in [Workers -> GoodTask']
    BY <2>1, <2>4, <2>8 DEF Goto, TypeInv
  <2>10. task' \in [Workers -> Task]
    BY <2>9 DEF GoodTask
  <2>11. TypeOK'
    BY <2>1, <2>2, <2>10 DEF TypeInv, TypeOK
  <2>12. StripeOK'
    BY <2>1, <2>2 DEF TypeInv, StripeOK
  <2> QED
    BY <2>2, <2>4, <2>9, <2>11, <2>12 DEF TypeInv
<1> QED
  BY <1>2, <1>3

LEMMA CustomerSaveType ==
    ASSUME TypeInv, NEW w \in Workers, CustomerSave(w) PROVE TypeInv'
<1> USE TypeFacts
<1>1. task[w] \in GoodTask /\ task[w].snap \in GoodRow /\ At(w, "customerSave")
  BY DEF GoodTask, CustomerSave
<1>2. [task[w] EXCEPT !.pc = "session"] \in GoodTask
  BY <1>1 DEF At, GoodTask, Task, Pc, WebhookPc, GoodRow
<1> QED
  BY <1>1, <1>2, QuietStep DEF CustomerSave, Save

LEMMA OpenSessionType ==
    ASSUME TypeInv, NEW w \in Workers, OpenSession(w) PROVE TypeInv'
<1> USE TypeFacts
<1>1. task[w] \in GoodTask /\ At(w, "session") /\ task[w].snap.customer \in customers
  BY DEF GoodTask, OpenSession, At
<1>2. /\ kind' = kind /\ user' = user /\ paid' = paid /\ emitted' = emitted
      /\ stripe' = stripe /\ events' = events /\ ended' = ended /\ cron' = cron
      /\ customers' = customers /\ trialOver' = trialOver /\ recorded' = recorded
      /\ calls' = calls
  BY DEF OpenSession
<1>3. sessions' \subseteq customers
  BY <1>1 DEF OpenSession, TypeInv, TypeOK
<1>4. task' \in [Workers -> GoodTask]
  BY IdleGood DEF OpenSession, Finish, Goto, TypeInv
<1>5. Grows
  BY <1>2 DEF Grows
<1>6. GoodTask \subseteq GoodTask' /\ GoodRow \subseteq GoodRow'
  BY <1>5, TasksStayGood, RowsStayGood DEF Grows
<1>7. task' \in [Workers -> GoodTask'] /\ task' \in [Workers -> Task]
  BY <1>4, <1>6 DEF GoodTask
<1>8. TypeOK'
  BY <1>2, <1>3, <1>7 DEF TypeInv, TypeOK
<1>9. StripeOK'
  BY <1>2 DEF TypeInv, StripeOK
<1> QED
  BY <1>2, <1>6, <1>7, <1>8, <1>9 DEF TypeInv

LEMMA FindUserType ==
    ASSUME TypeInv, NEW w \in Workers, FindUser(w) PROVE TypeInv'
<1> USE TypeFacts
<1> DEFINE t == task[w]
           u == [user EXCEPT !.customer = t.seen.customer]
           v == Copied(u, t.sub, t.seen)
<1>1. /\ t \in GoodTask /\ t \in Task /\ At(w, "find") /\ t.sub \in Subs
      /\ t.seen \in Subscription /\ t.seen.status # "none" /\ t.event \in 1..emitted
      /\ t.seen.customer \in IssuedOrNone
  BY DEF GoodTask, FindUser, At, Task, WebhookPc, Subs, TypeInv, TypeOK
<1>2. u \in User /\ u.customer \in IssuedOrNone
  BY <1>1 DEF GoodRow, User, Subscription
<1>3. v \in GoodRow
  BY <1>1, <1>2, CopiedGood
<1> HIDE DEF v
<1>4. [t EXCEPT !.pc = "webhookSave", !.snap = v] \in GoodTask
  BY <1>1, <1>3 DEF GoodTask, Task, Pc, WebhookPc, GoodRow
<1>5. [t EXCEPT !.pc = "record"] \in GoodTask
  BY <1>1 DEF GoodTask, Task, Pc, WebhookPc, GoodRow
<1>6. PICK x \in GoodTask : Goto(w, x)
  BY <1>4, <1>5 DEF FindUser, v
<1> QED
  BY <1>6, QuietStep DEF FindUser

LEMMA ContinueType == ASSUME TypeInv, NEW w \in Workers, Continue(w) PROVE TypeInv'
<1> USE TypeFacts, IdleGood
<1> DEFINE t == task[w]
           good(x) == x \in GoodTask
<1>1. t \in GoodTask /\ t.snap \in GoodRow /\ t \in Task
  BY DEF GoodTask
<1>2. CASE TrialSave(w)
  <2> DEFINE pc == AfterTrial(w)
             x == [t EXCEPT !.pc = pc]
  <2>1. pc \in {"customer", "list"}
    BY DEF AfterTrial
  <2> HIDE DEF pc
  <2>2. x \in GoodTask
    BY <1>1, <2>1 DEF GoodTask, Task, Pc, WebhookPc
  <2> QED
    BY <1>1, <1>2, <2>2, QuietStep DEF TrialSave, Save, pc
<1>3. CASE List(w)
  <2> DEFINE u == t.snap
             skips == kind = "partner-client" \/ u.customer = NoCustomer
  <2>1. CASE Finish(w)
    BY <1>3, <2>1, QuietStep DEF List, Finish
  <2>2. ASSUME NEW s \in Listed(u.customer),
               Goto(w, [t EXCEPT !.pc = "reconcileSave", !.snap = Copied(u, s, stripe[s])])
        PROVE  TypeInv'
    <3> DEFINE v == Copied(u, s, stripe[s])
               x == [t EXCEPT !.pc = "reconcileSave", !.snap = v]
    <3>1. s \in Subs /\ s \in 1..paid
      BY DEF Listed, SubsOf, Subs, TypeInv, TypeOK
    <3>2. stripe[s] \in Subscription /\ stripe[s].status # "none"
      BY <3>1 DEF TypeInv, TypeOK, StripeOK
    <3>3. u \in User /\ u.customer \in IssuedOrNone
      BY <1>1 DEF GoodRow
    <3>4. v \in GoodRow
      BY <3>1, <3>2, <3>3, CopiedGood
    <3> HIDE DEF v
    <3>5. x \in GoodTask
      <4>1. x \in Task /\ x.pc = "reconcileSave" /\ x.snap = v /\ x.seen = t.seen
        BY <1>1, <3>4 DEF Task, Pc, GoodRow
      <4> HIDE DEF x
      <4> QED
        BY <1>1, <3>4, <4>1 DEF GoodTask, WebhookPc
    <3>6. Goto(w, x)
      BY <2>2 DEF v
    <3> HIDE DEF x
    <3> QED
      BY <1>3, <3>5, <3>6, QuietStep DEF List
  <2> QED
    BY <1>3, <2>1, <2>2 DEF List
<1>4. CASE ListFails(w) \/ SessionFails(w) \/ RetrieveFails(w)
  BY <1>4, QuietStep DEF ListFails, SessionFails, RetrieveFails, Finish
<1>5. CASE ReconcileSave(w) \/ GrantSave(w)
  BY <1>1, <1>5, QuietStep DEF ReconcileSave, GrantSave, Finish, Save
<1>6. CASE CustomerSave(w)
  BY <1>6, CustomerSaveType
<1>7. CASE CreateCustomer(w)
  BY <1>7, CreateCustomerType
<1>8. CASE OpenSession(w)
  BY <1>8, OpenSessionType
<1>9. CASE Retrieve(w)
  <2> DEFINE s == t.sub
             x == [t EXCEPT !.pc = "find", !.seen = stripe[s]]
  <2>1. s \in 1..paid /\ s \in Subs
    BY <1>1, <1>9 DEF Retrieve, At, GoodTask, Subs, TypeInv, TypeOK
  <2>2. stripe[s] \in Subscription /\ stripe[s].status # "none"
        /\ stripe[s].customer \in IssuedOrNone
    BY <2>1 DEF TypeInv, TypeOK, StripeOK, IssuedOrNone
  <2>3. t.event \in 1..emitted
    BY <1>1, <1>9 DEF Retrieve, At, GoodTask, WebhookPc
  <2>4. x \in GoodTask
    BY <1>1, <2>1, <2>2, <2>3 DEF GoodTask, Task, Pc, WebhookPc, GoodRow
  <2>5. Goto(w, x)
    BY <1>9 DEF Retrieve
  <2> HIDE DEF x
  <2> QED
    BY <1>9, <2>4, <2>5, QuietStep DEF Retrieve
<1>10. CASE FindUser(w)
  BY <1>10, FindUserType
<1>11. CASE WebhookSave(w)
  <2>1. [t EXCEPT !.pc = "record"] \in GoodTask
    BY <1>1, <1>11 DEF WebhookSave, At, GoodTask, Task, Pc, WebhookPc, GoodRow
  <2> QED
    BY <1>1, <1>11, <2>1, QuietStep DEF WebhookSave, Save
<1>12. CASE Record(w)
  <2>1. t.event \in 1..emitted
    BY <1>1, <1>12 DEF Record, At, GoodTask, WebhookPc
  <2>2. recorded' \subseteq 1..emitted
    BY <1>12, <2>1 DEF Record
  <2> QED
    BY <1>12, <2>2, QuietStep DEF Record, Finish
<1> QED
  BY <1>2, <1>3, <1>4, <1>5, <1>6, <1>7, <1>8, <1>9, <1>10, <1>11, <1>12 DEF Continue

-----------------------------------------------------------------------------
(* Stripe, time, the cron and crashes *)

LEMMA OutsideStep ==
    ASSUME TypeInv, Grows, task' \in [Workers -> GoodTask], user' \in GoodRow,
           cron' \in [pc: {"idle", "save"}, snap: GoodRow], calls' \in 0..MaxCalls,
           UNCHANGED recorded, trialOver' \in BOOLEAN, customers' \subseteq Customers,
           sessions' \subseteq customers', paid' \in 0..MaxSubs, emitted' \in 0..MaxEvents,
           stripe' \in [Subs -> Subscription], events' \in [Events -> Event], StripeOK'
    PROVE  TypeInv'
<1>1. GoodTask \subseteq GoodTask' /\ GoodRow \subseteq GoodRow'
  BY TasksStayGood, RowsStayGood, TypeFacts DEF Grows
<1>2. task' \in [Workers -> GoodTask'] /\ task' \in [Workers -> Task]
  BY <1>1 DEF GoodTask
<1>3. user' \in GoodRow' /\ user' \in User /\ user'.customer \in customers' \cup {NoCustomer}
      /\ cron'.snap \in GoodRow' /\ cron' \in [pc: {"idle", "save"}, snap: User]
  BY <1>1 DEF GoodRow, IssuedOrNone
<1>4. ended' \subseteq Subs
  BY DEF StripeOK, Subs, TypeInv, TypeOK
<1>5. recorded' \subseteq 1..emitted' /\ kind' \in AllKinds
  BY TypeFacts DEF Grows, TypeInv, TypeOK
<1>6. TypeOK'
  BY <1>2, <1>3, <1>4, <1>5 DEF TypeOK
<1> QED
  BY <1>1, <1>2, <1>3, <1>6 DEF TypeInv

LEMMA Standing ==
    TypeInv => /\ task \in [Workers -> GoodTask] /\ user \in GoodRow
               /\ cron \in [pc: {"idle", "save"}, snap: GoodRow]
               /\ calls \in 0..MaxCalls /\ trialOver \in BOOLEAN
               /\ customers \subseteq Customers /\ sessions \subseteq customers
               /\ paid \in 0..MaxSubs /\ emitted \in 0..MaxEvents
               /\ paid \in Nat /\ emitted \in Nat
               /\ stripe \in [Subs -> Subscription] /\ events \in [Events -> Event]
BY DEF TypeInv, TypeOK

\* What an event adds: paid subscriptions and the events about them stay sound.
LEMMA EmitStep ==
    ASSUME TypeInv, NEW s \in Subs, NEW x \in Subscription, x.status # "none",
           x.customer \in customers, NEW type \in {"completed", "updated"},
           Emit(s, x, type), paid' \in {paid, paid + 1}, paid' \in 0..MaxSubs,
           s \in 1..paid', \A r \in 1..paid' : r = s \/ r \in 1..paid,
           sessions' \subseteq sessions,
           UNCHANGED <<kind, user, customers, ended, trialOver, recorded, task, cron, calls>>
    PROVE  TypeInv'
<1> USE Standing
<1>1. emitted' = emitted + 1 /\ emitted' \in 0..MaxEvents /\ emitted' \in Events
  BY DEF Emit, Events
<1>2. Grows
  BY <1>1 DEF Grows
<1>3. /\ stripe' \in [Subs -> Subscription] /\ stripe'[s] = x
      /\ \A r \in Subs : r # s => stripe'[r] = stripe[r]
  BY DEF Emit
<1> DEFINE e == [type |-> type, sub |-> s, seen |-> x]
<1>4. /\ events' \in [Events -> Event]
      /\ events'[emitted'] = e
      /\ \A i \in Events : i # emitted' => events'[i] = events[i]
  <2>1. e \in Event
    BY DEF Event
  <2> HIDE DEF e
  <2>2. events' = [events EXCEPT ![emitted'] = e]
    BY <1>1 DEF Emit, e
  <2> QED
    BY <1>1, <2>1, <2>2
<1>5. \A r \in 1..paid' : stripe'[r].customer \in customers /\ stripe'[r].status # "none"
  BY <1>3 DEF TypeInv, StripeOK, Subs
<1>6. \A i \in 1..emitted' : /\ events'[i].sub \in 1..paid'
                             /\ events'[i].seen.customer \in customers
                             /\ events'[i].seen.status # "none"
  <2> TAKE i \in 1..emitted'
  <2>1. CASE i = emitted'
    BY <1>4, <2>1
  <2>2. CASE i # emitted'
    <3>1. i \in 1..emitted /\ i \in Events
      BY <1>1, <2>2 DEF Events
    <3>2. 1..paid \subseteq 1..paid'
      OBVIOUS
    <3> QED
      BY <1>4, <2>2, <3>1, <3>2 DEF TypeInv, StripeOK
  <2> QED
    BY <2>1, <2>2
<1>7. StripeOK'
  <2>1. ended' \subseteq 1..paid'
    BY DEF TypeInv, StripeOK
  <2> QED
    BY <1>5, <1>6, <2>1 DEF StripeOK
<1> QED
  BY <1>1, <1>2, <1>3, <1>4, <1>7, OutsideStep

LEMMA PaidSub ==
    ASSUME TypeInv, NEW s \in 1..paid
    PROVE  /\ s \in Subs /\ stripe[s] \in Subscription
           /\ stripe[s].customer \in customers /\ stripe[s].status # "none"
BY Standing DEF TypeInv, StripeOK, Subs

LEMMA EnvironmentType == ASSUME TypeInv, Environment PROVE TypeInv'
<1> USE Standing
<1>1. CASE Pay
  <2> DEFINE s == paid + 1
  <2>1. PICK c \in sessions :
            /\ sessions' = sessions \ {c}
            /\ Emit(s, [Unpaid EXCEPT !.customer = c, !.status = "active"], "completed")
    BY <1>1 DEF Pay
  <2> DEFINE x == [Unpaid EXCEPT !.customer = c, !.status = "active"]
  <2>0. Emit(s, x, "completed") /\ sessions' \subseteq sessions
    BY <2>1
  <2>2. x \in Subscription /\ x.customer \in customers /\ x.status # "none"
    BY DEF Unpaid, Subscription, CustomerOrNone, Status
  <2>3. s \in Subs /\ paid' = s /\ s \in 0..MaxSubs /\ s \in 1..s
        /\ \A r \in 1..s : r = s \/ r \in 1..paid
    BY <1>1 DEF Pay, Subs
  <2> HIDE DEF s, x
  <2>4. paid' \in {paid, paid + 1}
    BY <2>3 DEF s
  <2> QED
    BY <1>1, <2>0, <2>2, <2>3, <2>4, EmitStep DEF Pay
<1>2. CASE ChangeStatus
  <2>1. PICK s \in 1..paid, new \in {"active", "past_due", "canceled"} :
            Emit(s, [stripe[s] EXCEPT !.status = new], "updated")
    BY <1>2 DEF ChangeStatus
  <2> DEFINE x == [stripe[s] EXCEPT !.status = new]
  <2>2. x \in Subscription /\ x.customer \in customers /\ x.status # "none"
    BY PaidSub DEF Subscription, Status
  <2>3. paid' = paid /\ sessions' = sessions /\ s \in Subs
    BY <1>2, PaidSub DEF ChangeStatus
  <2>4. Emit(s, x, "updated")
    BY <2>1
  <2> HIDE DEF x
  <2> QED
    BY <1>2, <2>2, <2>3, <2>4, EmitStep DEF ChangeStatus
<1>3. CASE Reschedule
  <2>1. PICK s \in 1..paid : Emit(s, [stripe[s] EXCEPT !.cancelAt = ~@], "updated")
    BY <1>3 DEF Reschedule
  <2> DEFINE x == [stripe[s] EXCEPT !.cancelAt = ~@]
  <2>2. x \in Subscription /\ x.customer \in customers /\ x.status # "none"
    BY PaidSub DEF Subscription
  <2>3. paid' = paid /\ sessions' = sessions /\ s \in Subs
    BY <1>3, PaidSub DEF Reschedule
  <2>4. Emit(s, x, "updated")
    BY <2>1
  <2> HIDE DEF x
  <2> QED
    BY <1>3, <2>2, <2>3, <2>4, EmitStep DEF Reschedule
<1>4. CASE DatePasses
  <2>1. StripeOK'
    BY <1>4 DEF DatePasses, TypeInv, StripeOK
  <2>2. Grows
    BY <1>4 DEF DatePasses, Grows
  <2> QED
    BY <1>4, <2>1, <2>2, OutsideStep DEF DatePasses
<1>5. CASE TrialEnds
  <2>1. StripeOK'
    BY <1>5 DEF TrialEnds, TypeInv, StripeOK
  <2>2. Grows
    BY <1>5 DEF TrialEnds, Grows
  <2> QED
    BY <1>5, <2>1, <2>2, OutsideStep DEF TrialEnds
<1>6. CASE Crash
  <2>1. StripeOK' /\ Grows
    BY <1>6 DEF Crash, TypeInv, StripeOK, external, Grows
  <2>2. task' \in [Workers -> GoodTask]
    BY <1>6, IdleGood DEF Crash
  <2>3. cron' \in [pc: {"idle", "save"}, snap: GoodRow]
    BY <1>6, BlankGood, TypeFacts DEF Crash
  <2>4. calls' \in 0..MaxCalls
    BY <1>6 DEF Crash
  <2> QED
    BY <1>6, <2>1, <2>2, <2>3, <2>4, OutsideStep DEF Crash, external
<1> QED
  BY <1>1, <1>2, <1>3, <1>4, <1>5, <1>6 DEF Environment

LEMMA CronType == ASSUME TypeInv, CronScan \/ CronSave PROVE TypeInv'
<1> USE Standing
<1>1. StripeOK' /\ Grows
  BY DEF CronScan, CronSave, TypeInv, StripeOK, external, Grows
<1>2. CASE CronScan
  <2>1. cron' \in [pc: {"idle", "save"}, snap: GoodRow]
    BY <1>2 DEF CronScan
  <2> QED
    BY <1>1, <1>2, <2>1, OutsideStep DEF CronScan, external
<1>3. CASE CronSave
  <2>1. user' \in GoodRow
    BY <1>3, CutGood, TypeFacts DEF CronSave
  <2>2. cron' \in [pc: {"idle", "save"}, snap: GoodRow]
    BY <1>3 DEF CronSave
  <2> QED
    BY <1>1, <1>3, <2>1, <2>2, OutsideStep DEF CronSave, external
<1> QED
  BY <1>2, <1>3

LEMMA InitType == Init => TypeInv
<1> SUFFICES ASSUME Init PROVE TypeInv
  OBVIOUS
<1>1. kind \in AllKinds /\ NewUser \in GoodRow
  BY BlankGood DEF Init
<1>2. StripeOK
  BY DEF Init, StripeOK
<1>3. Unpaid \in Subscription /\ NewUser \in User
  BY DEF Unpaid, Subscription, CustomerOrNone, Status, NewUser, User, Access
<1>4. Unsent \in Event
  BY <1>3 DEF Unsent, Event
<1>5. Idle \in GoodTask /\ Idle \in Task
  <2>1. Idle \in Task
    BY <1>3 DEF Idle, Task, Pc, NoEvent, NoSub
  <2> QED
    BY <1>1, <2>1 DEF GoodTask, Idle, Unpaid, IssuedOrNone, WebhookPc
<1>6. TypeOK
  <2>1. NewUser.customer = NoCustomer
    BY DEF NewUser
  <2>2. /\ stripe \in [Subs -> Subscription] /\ events \in [Events -> Event]
        /\ task \in [Workers -> Task] /\ cron \in [pc: {"idle", "save"}, snap: User]
    BY <1>3, <1>4, <1>5 DEF Init
  <2>3. /\ paid \in 0..MaxSubs /\ emitted \in 0..MaxEvents /\ calls \in 0..MaxCalls
        /\ recorded \subseteq 1..emitted /\ ended \subseteq Subs
    BY DEF Init
  <2> QED
    BY <1>1, <1>3, <2>1, <2>2, <2>3 DEF Init, TypeOK
<1> QED
  BY <1>1, <1>2, <1>5, <1>6 DEF Init, TypeInv

LEMMA NextType == ASSUME TypeInv, [Next]_vars PROVE TypeInv'
<1>1. CASE UNCHANGED vars
  <2>1. StripeOK' /\ Grows
    BY <1>1, Standing DEF vars, external, TypeInv, StripeOK, Grows
  <2> QED
    BY <1>1, <2>1, Standing, OutsideStep DEF vars, external
<1> QED
  BY <1>1, BeginType, ContinueType, EnvironmentType, CronType DEF Next

\* Every step is a sound step from a sound state: the invariant of all that follows.
THEOREM TypeInvariant == Spec => []TypeInv
BY InitType, NextType, PTL DEF Spec

\* The columns, the entities handlers hold, Stripe's customers and events keep
\* their types, whatever overlaps, fails or crashes.
THEOREM TypeCorrect == Spec => []TypeOK
<1>1. TypeInv => TypeOK
  BY DEF TypeInv
<1> QED
  BY <1>1, TypeInvariant, PTL

\* No overlap of handlers, webhooks, cron and crashes stores an access state that
\* contradicts the subscription status.
THEOREM AccessFollowsStatusAlways == Spec => []AccessFollowsStatus
<1>1. TypeInv => AccessFollowsStatus
  BY DEF TypeInv, GoodRow, AccessFollowsStatus
<1> QED
  BY <1>1, TypeInvariant, PTL

-----------------------------------------------------------------------------
(***************************************************************************)
(* What a payer is owed while no two handlers overlap.  Webhooks and        *)
(* handlers take turns; the cron and crashes still fall anywhere between    *)
(* their steps, and events come late, repeatedly and in any order.          *)
(*                                                                          *)
(* The argument: a handler holds the customer the row has, except between   *)
(* creating a customer and storing it, when nothing has been paid yet.  The *)
(* cron holds a row with a subscription, so that its save cannot take one   *)
(* away.                                                                    *)
(***************************************************************************)

OneAtATime == \A v, w \in Workers : v = w

SnapPc == {"trialSave", "list", "reconcileSave", "customer", "session", "grantSave",
           "webhookSave"}

\* A copy of the row knows the subscription that the row knows.
KeepsSub(u) == user.sub # NoSub => u.sub # NoSub

EventsKnown == \A i \in 1..emitted : events[i].seen.customer = user.customer

CronHolds ==
    cron.pc = "save" =>
        /\ cron.snap.customer = user.customer
        /\ cron.snap.sub # NoSub /\ user.sub # NoSub /\ paid > 0

TaskHolds(w) ==
    /\ task[w].pc \in SnapPc => task[w].snap.customer = user.customer /\ KeepsSub(task[w].snap)
    /\ task[w].pc = "customerSave" => user.customer = NoCustomer /\ KeepsSub(task[w].snap)
    /\ task[w].pc \in {"retrieve", "find"} => task[w].seen.customer = user.customer
    /\ task[w].pc = "webhookSave" => task[w].snap.sub # NoSub
    /\ task[w].pc = "record" /\ events[task[w].event].type = "completed" => user.sub # NoSub

SerialInv ==
    /\ PayerIsKnown
    /\ EventsKnown
    /\ CronHolds
    /\ RecordedIsApplied
    /\ \A w \in Workers : TaskHolds(w)

-----------------------------------------------------------------------------
(* Handlers *)

\* A handler moves on; what it stores, if anything, keeps the customer and the
\* subscription.
LEMMA SerialMove ==
    ASSUME OneAtATime, TypeInv, SerialInv, NEW w \in Workers, TaskHolds(w)',
           user'.customer = user.customer, KeepsSub(user'),
           UNCHANGED <<kind, external, recorded, cron>>
    PROVE  SerialInv'
<1>1. /\ sessions' = sessions /\ stripe' = stripe /\ paid' = paid /\ events' = events
      /\ emitted' = emitted /\ recorded' = recorded /\ cron' = cron
  BY DEF external
<1>2. PayerIsKnown' /\ EventsKnown'
  BY <1>1 DEF SerialInv, PayerIsKnown, EventsKnown
<1>3. CronHolds' /\ RecordedIsApplied'
  BY <1>1 DEF SerialInv, CronHolds, RecordedIsApplied, KeepsSub
<1>4. \A v \in Workers : v = w
  BY DEF OneAtATime
<1>5. \A v \in Workers : TaskHolds(v)'
  BY <1>4
<1> QED
  BY <1>2, <1>3, <1>5 DEF SerialInv

LEMMA Moved ==
    ASSUME TypeInv, NEW w \in Workers, NEW t, Goto(w, t)
    PROVE  task'[w] = t
BY DEF Goto, TypeInv

\* A handler starts with the row it reads, or ends.
LEMMA FreshMove ==
    ASSUME OneAtATime, TypeInv, SerialInv, NEW w \in Workers, NEW t, Goto(w, t),
           \/ t.pc = "idle"
           \/ t.pc \in SnapPc \ {"webhookSave"} /\ t.snap.customer = user.customer
              /\ t.snap.sub = user.sub,
           UNCHANGED <<kind, user, external, recorded, cron>>
    PROVE  SerialInv'
<1>1. task'[w] = t /\ user' = user
  BY Moved
<1>2. TaskHolds(w)'
  BY <1>1 DEF TaskHolds, SnapPc, KeepsSub
<1> QED
  BY <1>1, <1>2, SerialMove DEF KeepsSub

LEMMA OpenTrialMove ==
    ASSUME OneAtATime, TypeInv, SerialInv, NEW w \in Workers,
           NEW op \in {"access", "checkout"}, NEW pc \in {"list", "customer"},
           OpenTrial(w, op, pc), UNCHANGED <<kind, user, external, recorded, cron>>
    PROVE  SerialInv'
<1> DEFINE next == IF TrialSaves(user) THEN "trialSave" ELSE pc
           u == TrialOpened(user)
           t == [Idle EXCEPT !.op = op, !.snap = u, !.pc = next]
<1>1. Goto(w, t)
  BY DEF OpenTrial
<1>2. u.customer = user.customer /\ u.sub = user.sub
      /\ next \in {"trialSave", "list", "customer"}
  BY TypeFacts, TrialGood
<1> HIDE DEF u, next
<1>3. t.snap = u /\ t.pc = next
  BY DEF Idle
<1> HIDE DEF t
<1> QED
  BY <1>1, <1>2, <1>3, FreshMove DEF SnapPc

LEMMA BeginSerial ==
    ASSUME OneAtATime, TypeInv, SerialInv, NEW w \in Workers, Begin(w)
    PROVE  SerialInv'
<1>1. CASE AccessBegin(w)
  BY <1>1, OpenTrialMove DEF AccessBegin
<1>2. CASE CheckoutBegin(w)
  BY <1>2, OpenTrialMove DEF CheckoutBegin
<1>3. CASE PortalBegin(w)
  <2> DEFINE t == [Idle EXCEPT !.op = "portal", !.pc = "customer", !.snap = user]
  <2>1. Goto(w, t) /\ t.pc = "customer" /\ t.snap = user
    BY <1>3 DEF PortalBegin, Idle
  <2> HIDE DEF t
  <2> QED
    BY <1>3, <2>1, FreshMove DEF PortalBegin, SnapPc
<1>4. CASE GrantBegin(w)
  <2> DEFINE t == [Idle EXCEPT !.op = "grant", !.pc = "grantSave",
                               !.snap = [user EXCEPT !.plan = TRUE]]
  <2>1. user \in User
    BY DEF TypeInv, TypeOK
  <2>2. Goto(w, t) /\ t.pc = "grantSave" /\ t.snap.customer = user.customer
        /\ t.snap.sub = user.sub
    BY <1>4, <2>1 DEF GrantBegin, Idle, User
  <2> HIDE DEF t
  <2> QED
    BY <1>4, <2>2, FreshMove DEF GrantBegin, SnapPc
<1>5. CASE WebhookBegin(w)
  <2>1. PICK i \in 1..emitted : IF i \in recorded THEN Finish(w) ELSE Received(w, i)
    BY <1>5 DEF WebhookBegin
  <2>2. CASE Finish(w)
    BY <1>5, <2>2, FreshMove DEF WebhookBegin, Finish, Idle
  <2>3. CASE Received(w, i)
    <3>1. task'[w].pc \in {"retrieve", "find"} /\ task'[w].seen = events[i].seen
      <4> DEFINE pc == IF events[i].type = "completed" THEN "retrieve" ELSE "find"
                 t == [Idle EXCEPT !.op = "webhook", !.event = i, !.sub = events[i].sub,
                                   !.seen = events[i].seen, !.pc = pc]
      <4>1. Goto(w, t) /\ pc \in {"retrieve", "find"}
        BY <2>3 DEF Received
      <4> HIDE DEF pc
      <4>2. t.pc = pc /\ t.seen = events[i].seen
        BY DEF Idle
      <4> HIDE DEF t
      <4> QED
        BY <4>1, <4>2, Moved
    <3>2. events[i].seen.customer = user.customer /\ user' = user
      BY <1>5 DEF SerialInv, EventsKnown, WebhookBegin
    <3>3. TaskHolds(w)'
      BY <3>1, <3>2 DEF TaskHolds, SnapPc
    <3> QED
      BY <1>5, <3>2, <3>3, SerialMove DEF WebhookBegin, KeepsSub
  <2> QED
    BY <2>1, <2>2, <2>3
<1> QED
  BY <1>1, <1>2, <1>3, <1>4, <1>5 DEF Begin

\* Before a customer is stored nothing can have been paid.
LEMMA NothingPaid ==
    ASSUME TypeInv, SerialInv, user.customer = NoCustomer
    PROVE  paid = 0 /\ emitted = 0 /\ sessions = {} /\ cron.pc # "save"
<1> USE Standing
<1>1. paid = 0
  <2> SUFFICES ASSUME paid > 0 PROVE FALSE
    OBVIOUS
  <2>1. 1 \in 1..paid
    OBVIOUS
  <2>2. stripe[1].customer \in Customers /\ stripe[1].customer = user.customer
    BY <2>1, PaidSub DEF SerialInv, PayerIsKnown
  <2> QED
    BY <2>2, NoCustomerAssumption
<1>2. emitted = 0
  BY <1>1 DEF TypeInv, StripeOK
<1>3. sessions = {}
  BY NoCustomerAssumption DEF SerialInv, PayerIsKnown
<1> QED
  BY <1>1, <1>2, <1>3 DEF SerialInv, CronHolds

\* A handler stores the entity it holds, or a webhook event, and goes on.
LEMMA SavedMove ==
    ASSUME OneAtATime, TypeInv, SerialInv, NEW w \in Workers, task[w].pc \in SnapPc,
           Save(w), NEW t, Goto(w, t),
           \/ t.pc = "idle"
           \/ t.pc \in {"list", "customer"} /\ t.snap = task[w].snap
           \/ t.pc = "record" /\ task[w].snap.sub # NoSub,
           UNCHANGED <<kind, external, recorded, cron>>
    PROVE  SerialInv'
<1>1. task'[w] = t /\ user' = task[w].snap
  BY Moved DEF Save
<1>2. user'.customer = user.customer /\ KeepsSub(user')
  BY <1>1 DEF SerialInv, TaskHolds
<1>3. TaskHolds(w)'
  BY <1>1, <1>2 DEF TaskHolds, SnapPc, KeepsSub
<1> QED
  BY <1>2, <1>3, SerialMove

LEMMA CustomerSerial ==
    ASSUME OneAtATime, TypeInv, SerialInv, NEW w \in Workers,
           CreateCustomer(w) \/ CustomerSave(w) \/ OpenSession(w)
    PROVE  SerialInv'
<1> DEFINE t == task[w]
<1> USE TypeFacts
<1>1. t \in Task /\ TaskHolds(w)
  BY DEF GoodTask, SerialInv
<1>a. t.snap \in User
  BY <1>1 DEF Task
<1>2. CASE CreateCustomer(w)
  <2>1. /\ sessions' = sessions /\ stripe' = stripe /\ paid' = paid /\ events' = events
        /\ emitted' = emitted /\ recorded' = recorded /\ cron' = cron /\ user' = user
        /\ t.pc = "customer"
    BY <1>2 DEF CreateCustomer, At
  <2>2. TaskHolds(w)'
    <3>1. CASE t.snap.customer # NoCustomer
      <4>1. Goto(w, [t EXCEPT !.pc = "session"])
        BY <1>2, <3>1 DEF CreateCustomer
      <4>2. task'[w].pc = "session" /\ task'[w].snap = t.snap
        BY <1>1, <4>1, Moved DEF Task
      <4> QED
        BY <1>1, <2>1, <4>2 DEF TaskHolds, SnapPc, KeepsSub
    <3>2. CASE t.snap.customer = NoCustomer
      <4>1. PICK c \in Customers :
                Goto(w, [t EXCEPT !.pc = "customerSave", !.snap.customer = c])
        BY <1>2, <3>2 DEF CreateCustomer
      <4>2. task'[w].pc = "customerSave" /\ task'[w].snap.sub = t.snap.sub
        <5>1. task'[w] = [t EXCEPT !.pc = "customerSave", !.snap.customer = c]
          BY <4>1, Moved
        <5>2. task'[w].pc = "customerSave" /\ task'[w].snap = [t.snap EXCEPT !.customer = c]
          BY <1>1, <5>1 DEF Task
        <5> QED
          BY <1>a, <5>2 DEF User
      <4>3. user.customer = NoCustomer
        BY <1>1, <2>1, <3>2 DEF TaskHolds, SnapPc
      <4> QED
        BY <1>1, <2>1, <4>2, <4>3 DEF TaskHolds, SnapPc, KeepsSub
    <3> QED
      BY <3>1, <3>2
  <2>3. PayerIsKnown' /\ EventsKnown' /\ CronHolds' /\ RecordedIsApplied'
    BY <2>1 DEF SerialInv, PayerIsKnown, EventsKnown, CronHolds, RecordedIsApplied
  <2> QED
    BY <2>2, <2>3 DEF SerialInv, OneAtATime
<1>3. CASE CustomerSave(w)
  <2>1. /\ sessions' = sessions /\ stripe' = stripe /\ paid' = paid /\ events' = events
        /\ emitted' = emitted /\ recorded' = recorded /\ cron' = cron
        /\ user' = t.snap /\ t.pc = "customerSave"
        /\ Goto(w, [t EXCEPT !.pc = "session"])
    BY <1>3 DEF CustomerSave, At, Save, external
  <2>2. user.customer = NoCustomer /\ KeepsSub(t.snap)
    BY <1>1, <2>1 DEF TaskHolds
  <2>3. paid = 0 /\ emitted = 0 /\ sessions = {} /\ cron.pc # "save"
    BY <2>2, NothingPaid
  <2>4. PayerIsKnown' /\ EventsKnown' /\ CronHolds'
    BY <2>1, <2>3 DEF PayerIsKnown, EventsKnown, CronHolds
  <2>5. RecordedIsApplied'
    <3>1. recorded = {}
      BY <2>3 DEF TypeInv, TypeOK
    <3> QED
      BY <2>1, <3>1 DEF RecordedIsApplied
  <2>6. task'[w].pc = "session" /\ task'[w].snap = t.snap
    BY <1>1, <2>1, Moved DEF Task
  <2>7. TaskHolds(w)'
    BY <2>1, <2>6 DEF TaskHolds, SnapPc, KeepsSub
  <2> QED
    BY <2>4, <2>5, <2>7 DEF SerialInv, OneAtATime
<1>4. CASE OpenSession(w)
  <2>1. /\ stripe' = stripe /\ paid' = paid /\ events' = events
        /\ emitted' = emitted /\ recorded' = recorded /\ cron' = cron /\ user' = user
        /\ t.pc = "session" /\ sessions' \subseteq sessions \cup {t.snap.customer}
    BY <1>4 DEF OpenSession, At
  <2>2. t.snap.customer = user.customer
    BY <1>1, <2>1 DEF TaskHolds, SnapPc
  <2>3. PayerIsKnown' /\ EventsKnown' /\ CronHolds' /\ RecordedIsApplied'
    BY <2>1, <2>2 DEF SerialInv, PayerIsKnown, EventsKnown, CronHolds, RecordedIsApplied
  <2>4. task'[w].pc = "idle"
    BY <1>4, Moved DEF OpenSession, Finish, Idle
  <2>5. TaskHolds(w)'
    BY <2>4 DEF TaskHolds, SnapPc
  <2> QED
    BY <2>3, <2>5 DEF SerialInv, OneAtATime
<1> QED
  BY <1>2, <1>3, <1>4

LEMMA ContinueSerial ==
    ASSUME OneAtATime, TypeInv, SerialInv, NEW w \in Workers, Continue(w)
    PROVE  SerialInv'
<1> DEFINE t == task[w]
<1> USE TypeFacts
<1>1. t \in Task /\ t \in GoodTask /\ t.snap \in GoodRow /\ TaskHolds(w)
  BY DEF GoodTask, SerialInv
<1>2. Idle.pc = "idle"
  BY DEF Idle
<1>3. CASE TrialSave(w)
  <2> DEFINE x == [t EXCEPT !.pc = AfterTrial(w)]
  <2>1. x.pc \in {"list", "customer"} /\ x.snap = t.snap
    BY <1>1 DEF AfterTrial, Task
  <2>2. Goto(w, x) /\ t.pc = "trialSave"
    BY <1>3 DEF TrialSave, At
  <2> HIDE DEF x
  <2> QED
    BY <1>3, <2>1, <2>2, SavedMove DEF TrialSave, SnapPc
<1>4. CASE List(w)
  <2> DEFINE u == t.snap
             skips == kind = "partner-client" \/ u.customer = NoCustomer
  <2>1. CASE Finish(w)
    BY <1>2, <1>4, <2>1, FreshMove DEF List, Finish
  <2>2. ASSUME NEW s \in Listed(u.customer),
               Goto(w, [t EXCEPT !.pc = "reconcileSave", !.snap = Copied(u, s, stripe[s])])
        PROVE  SerialInv'
    <3>1. s \in 1..paid /\ s \in Subs /\ stripe[s] \in Subscription
          /\ stripe[s].status # "none" /\ s # NoSub
      BY PaidSub DEF Listed, SubsOf, Subs, NoSub
    <3>2. u \in User /\ u.customer \in IssuedOrNone
      BY <1>1 DEF GoodRow
    <3>3. Copied(u, s, stripe[s]).customer = u.customer /\ Copied(u, s, stripe[s]).sub = s
      BY <3>1, <3>2, CopiedGood
    <3>4. task'[w].pc = "reconcileSave" /\ task'[w].snap = Copied(u, s, stripe[s])
      BY <1>1, <2>2, Moved DEF Task
    <3>5. u.customer = user.customer /\ user' = user
      BY <1>1, <1>4 DEF List, At, TaskHolds, SnapPc
    <3>6. TaskHolds(w)'
      BY <3>1, <3>3, <3>4, <3>5 DEF TaskHolds, SnapPc, KeepsSub
    <3> QED
      BY <1>4, <3>5, <3>6, SerialMove DEF List, KeepsSub
  <2> QED
    BY <1>4, <2>1, <2>2 DEF List
<1>5. CASE ListFails(w) \/ SessionFails(w) \/ RetrieveFails(w)
  BY <1>2, <1>5, FreshMove DEF ListFails, SessionFails, RetrieveFails, Finish
<1>6. CASE ReconcileSave(w) \/ GrantSave(w)
  BY <1>2, <1>6, SavedMove DEF ReconcileSave, GrantSave, Finish, At, SnapPc
<1>7. CASE CreateCustomer(w) \/ CustomerSave(w) \/ OpenSession(w)
  BY <1>7, CustomerSerial
<1>8. CASE Retrieve(w)
  <2>1. t.sub \in 1..paid /\ user' = user
    BY <1>1, <1>8 DEF Retrieve, At, GoodTask
  <2>2. stripe[t.sub].customer = user.customer
    BY <2>1 DEF SerialInv, PayerIsKnown
  <2>3. task'[w].pc = "find" /\ task'[w].seen = stripe[t.sub]
    BY <1>1, <1>8, Moved DEF Retrieve, Task
  <2>4. TaskHolds(w)'
    BY <2>1, <2>2, <2>3 DEF TaskHolds, SnapPc
  <2> QED
    BY <1>8, <2>4, SerialMove DEF Retrieve, KeepsSub
<1>9. CASE FindUser(w)
  <2> DEFINE u == [user EXCEPT !.customer = t.seen.customer]
             v == Copied(u, t.sub, t.seen)
  <2>1. /\ t.pc = "find" /\ t.seen.customer = user.customer /\ t.sub \in Subs
        /\ t.seen \in Subscription /\ t.seen.status # "none" /\ t.sub # NoSub
        /\ t.seen.customer \in IssuedOrNone
    BY <1>1, <1>9, Standing DEF FindUser, At, TaskHolds, GoodTask, Task, Subs, NoSub
  <2>2. u \in User /\ u.customer = user.customer /\ u.customer \in IssuedOrNone
    BY <2>1 DEF GoodRow, User
  <2>3. v.customer = user.customer /\ v.sub = t.sub
    BY <2>1, <2>2, CopiedGood
  <2>4. Goto(w, [t EXCEPT !.pc = "webhookSave", !.snap = v])
    BY <1>9, <2>1 DEF FindUser, Known
  <2> HIDE DEF v
  <2>5. task'[w].pc = "webhookSave" /\ task'[w].snap = v /\ user' = user
    BY <1>1, <1>9, <2>4, Moved DEF Task, FindUser
  <2>6. TaskHolds(w)'
    BY <2>1, <2>3, <2>5 DEF TaskHolds, SnapPc, KeepsSub
  <2> QED
    BY <1>9, <2>6, SerialMove DEF FindUser, KeepsSub
<1>10. CASE WebhookSave(w)
  <2> DEFINE x == [t EXCEPT !.pc = "record"]
  <2>1. x.pc = "record" /\ Goto(w, x) /\ t.pc = "webhookSave"
    BY <1>1, <1>10 DEF WebhookSave, At, Task
  <2>2. t.snap.sub # NoSub
    BY <1>1, <2>1 DEF TaskHolds
  <2> HIDE DEF x
  <2> QED
    BY <1>10, <2>1, <2>2, SavedMove DEF WebhookSave, SnapPc
<1>11. CASE Record(w)
  <2>1. /\ sessions' = sessions /\ stripe' = stripe /\ paid' = paid /\ events' = events
        /\ emitted' = emitted /\ cron' = cron /\ user' = user /\ t.pc = "record"
        /\ recorded' = recorded \cup {t.event}
    BY <1>11 DEF Record, external, At
  <2>2. t.event \in 1..emitted
    BY <1>1, <2>1 DEF GoodTask, WebhookPc
  <2>3. /\ events[t.event].seen.customer = user.customer
        /\ events[t.event].type = "completed" => user.sub # NoSub
    BY <1>1, <2>1, <2>2 DEF SerialInv, EventsKnown, TaskHolds
  <2>4. RecordedIsApplied'
    BY <2>1, <2>3 DEF SerialInv, RecordedIsApplied
  <2>5. PayerIsKnown' /\ EventsKnown' /\ CronHolds'
    BY <2>1 DEF SerialInv, PayerIsKnown, EventsKnown, CronHolds
  <2>6. task'[w].pc = "idle"
    BY <1>2, <1>11, Moved DEF Record, Finish
  <2>7. TaskHolds(w)'
    BY <2>6 DEF TaskHolds, SnapPc
  <2> QED
    BY <2>4, <2>5, <2>7 DEF SerialInv, OneAtATime
<1> QED
  BY <1>3, <1>4, <1>5, <1>6, <1>7, <1>8, <1>9, <1>10, <1>11 DEF Continue

-----------------------------------------------------------------------------
(* The cron, Stripe and crashes *)

\* The handlers stand still and the row keeps its customer and subscription.
LEMMA TasksHold ==
    ASSUME SerialInv, UNCHANGED task, user'.customer = user.customer, user'.sub = user.sub,
           \A w \in Workers :
              task[w].pc = "record" => events'[task[w].event] = events[task[w].event]
    PROVE  \A w \in Workers : TaskHolds(w)'
BY DEF SerialInv, TaskHolds, KeepsSub

LEMMA CronSerial ==
    ASSUME TypeInv, SerialInv, CronScan \/ CronSave
    PROVE  SerialInv'
<1> USE Standing
<1>1. /\ sessions' = sessions /\ stripe' = stripe /\ paid' = paid /\ events' = events
      /\ emitted' = emitted /\ recorded' = recorded /\ task' = task
  BY DEF CronScan, CronSave, external
<1>2. CASE CronScan
  <2>1. user' = user /\ cron'.snap = user /\ user.sub \in ended
    BY <1>2 DEF CronScan, Candidate, Overdue
  <2>2. user.sub \in 1..paid
    BY <2>1 DEF TypeInv, StripeOK
  <2>3. user.sub # NoSub /\ paid > 0
    BY <2>2 DEF NoSub
  <2>4. CronHolds'
    BY <1>1, <2>1, <2>3 DEF CronHolds
  <2>5. PayerIsKnown' /\ EventsKnown' /\ RecordedIsApplied'
    BY <1>1, <2>1 DEF SerialInv, PayerIsKnown, EventsKnown, RecordedIsApplied
  <2>6. \A w \in Workers : TaskHolds(w)'
    BY <1>1, <2>1, TasksHold
  <2> QED
    BY <2>4, <2>5, <2>6 DEF SerialInv
<1>3. CASE CronSave
  <2>1. user'.customer = user.customer /\ user'.sub # NoSub /\ user.sub # NoSub
        /\ cron'.pc = "idle"
    BY <1>3, CutGood, TypeFacts DEF CronSave, SerialInv, CronHolds
  <2>2. PayerIsKnown' /\ EventsKnown' /\ CronHolds' /\ RecordedIsApplied'
    BY <1>1, <2>1 DEF SerialInv, PayerIsKnown, EventsKnown, CronHolds, RecordedIsApplied
  <2>3. \A w \in Workers : TaskHolds(w)'
    BY <1>1, <2>1 DEF SerialInv, TaskHolds, KeepsSub
  <2> QED
    BY <2>2, <2>3 DEF SerialInv
<1> QED
  BY <1>2, <1>3

LEMMA EmitSerial ==
    ASSUME TypeInv, SerialInv, NEW s \in Subs, NEW x, NEW type, Emit(s, x, type),
           x.customer = user.customer, paid' \in {paid, paid + 1},
           \A r \in 1..paid' : r = s \/ r \in 1..paid, sessions' \subseteq sessions,
           UNCHANGED <<user, recorded, task, cron>>
    PROVE  SerialInv'
<1> USE Standing
<1>1. emitted' = emitted + 1 /\ emitted' \in Events
  BY BoundsAssumption DEF Emit, Events
<1>2. /\ stripe'[s] = x /\ \A r \in Subs : r # s => stripe'[r] = stripe[r]
      /\ events'[emitted'] = [type |-> type, sub |-> s, seen |-> x]
      /\ \A i \in 1..emitted : events'[i] = events[i]
  <2>1. emitted + 1 \in Events /\ 1..emitted \subseteq Events
    BY <1>1, BoundsAssumption DEF Events
  <2> QED
    BY <1>1, <2>1 DEF Emit
<1>3. PayerIsKnown'
  BY <1>2, BoundsAssumption DEF SerialInv, PayerIsKnown, Subs
<1>4. EventsKnown'
  BY <1>1, <1>2 DEF SerialInv, EventsKnown
<1>5. CronHolds'
  BY DEF SerialInv, CronHolds
<1>6. RecordedIsApplied'
  BY <1>2, TypeFacts DEF SerialInv, RecordedIsApplied
<1>7. \A w \in Workers : TaskHolds(w)'
  <2>1. \A w \in Workers : task[w].pc = "record" => task[w].event \in 1..emitted
    BY TypeFacts DEF GoodTask, WebhookPc
  <2> QED
    BY <1>2, <2>1, TasksHold
<1> QED
  BY <1>3, <1>4, <1>5, <1>6, <1>7 DEF SerialInv

LEMMA EnvironmentSerial ==
    ASSUME TypeInv, SerialInv, Environment
    PROVE  SerialInv'
<1> USE Standing
<1>1. CASE Pay
  <2> DEFINE s == paid + 1
  <2>1. PICK c \in sessions :
            /\ sessions' = sessions \ {c}
            /\ Emit(s, [Unpaid EXCEPT !.customer = c, !.status = "active"], "completed")
    BY <1>1 DEF Pay
  <2> DEFINE x == [Unpaid EXCEPT !.customer = c, !.status = "active"]
  <2>2. x.customer = user.customer
    BY DEF Unpaid, SerialInv, PayerIsKnown
  <2>3. Emit(s, x, "completed") /\ sessions' \subseteq sessions
    BY <2>1
  <2>4. s \in Subs /\ paid' \in {paid, paid + 1} /\ \A r \in 1..paid' : r = s \/ r \in 1..paid
    BY <1>1, BoundsAssumption DEF Pay, Subs
  <2> HIDE DEF x, s
  <2> QED
    BY <1>1, <2>2, <2>3, <2>4, EmitSerial DEF Pay
<1>2. CASE ChangeStatus
  <2>1. PICK s \in 1..paid, new \in {"active", "past_due", "canceled"} :
            Emit(s, [stripe[s] EXCEPT !.status = new], "updated")
    BY <1>2 DEF ChangeStatus
  <2> DEFINE x == [stripe[s] EXCEPT !.status = new]
  <2>2. s \in Subs /\ x.customer = user.customer
    BY PaidSub DEF Subscription, SerialInv, PayerIsKnown
  <2>3. Emit(s, x, "updated")
    BY <2>1
  <2> HIDE DEF x
  <2> QED
    BY <1>2, <2>2, <2>3, EmitSerial DEF ChangeStatus
<1>3. CASE Reschedule
  <2>1. PICK s \in 1..paid : Emit(s, [stripe[s] EXCEPT !.cancelAt = ~@], "updated")
    BY <1>3 DEF Reschedule
  <2> DEFINE x == [stripe[s] EXCEPT !.cancelAt = ~@]
  <2>2. s \in Subs /\ x.customer = user.customer
    BY PaidSub DEF Subscription, SerialInv, PayerIsKnown
  <2>3. Emit(s, x, "updated")
    BY <2>1
  <2> HIDE DEF x
  <2> QED
    BY <1>3, <2>2, <2>3, EmitSerial DEF Reschedule
<1>4. CASE DatePasses \/ TrialEnds
  <2>1. UNCHANGED <<sessions, stripe, paid, events, emitted, recorded, cron, user, task>>
    BY <1>4 DEF DatePasses, TrialEnds
  <2>2. \A w \in Workers : TaskHolds(w)'
    BY <2>1, TasksHold
  <2> QED
    BY <2>1, <2>2
    DEF SerialInv, PayerIsKnown, EventsKnown, CronHolds, RecordedIsApplied
<1>5. CASE Crash
  <2>1. /\ UNCHANGED <<sessions, stripe, paid, events, emitted, recorded, user>>
        /\ cron'.pc = "idle" /\ \A w \in Workers : task'[w].pc = "idle"
    BY <1>5 DEF Crash, external, Idle
  <2>2. \A w \in Workers : TaskHolds(w)'
    BY <2>1 DEF TaskHolds, SnapPc
  <2> QED
    BY <2>1, <2>2
    DEF SerialInv, PayerIsKnown, EventsKnown, CronHolds, RecordedIsApplied
<1> QED
  BY <1>1, <1>2, <1>3, <1>4, <1>5 DEF Environment

LEMMA InitSerial == Init => SerialInv
<1> SUFFICES ASSUME Init PROVE SerialInv
  OBVIOUS
<1>1. PayerIsKnown /\ EventsKnown /\ CronHolds /\ RecordedIsApplied
  BY DEF Init, PayerIsKnown, EventsKnown, CronHolds, RecordedIsApplied
<1>2. \A w \in Workers : TaskHolds(w)
  BY DEF Init, TaskHolds, Idle, SnapPc
<1> QED
  BY <1>1, <1>2 DEF SerialInv

LEMMA NextSerial ==
    ASSUME OneAtATime, TypeInv, SerialInv, [Next]_vars
    PROVE  SerialInv'
<1>1. CASE UNCHANGED vars
  <2>1. UNCHANGED <<sessions, stripe, paid, events, emitted, recorded, cron, user, task>>
    BY <1>1 DEF vars, external
  <2>2. \A w \in Workers : TaskHolds(w)'
    BY <2>1, TasksHold
  <2> QED
    BY <2>1, <2>2
    DEF SerialInv, PayerIsKnown, EventsKnown, CronHolds, RecordedIsApplied
<1> QED
  BY <1>1, BeginSerial, ContinueSerial, CronSerial, EnvironmentSerial DEF Next

\* With one handler at a time, what each handler and the cron hold in memory agrees
\* with the row: the invariant of the two theorems below.
THEOREM SerialInvariant ==
    ASSUME OneAtATime PROVE Spec => []SerialInv
<1>1. TypeInv /\ SerialInv /\ [Next]_vars => SerialInv'
  BY NextSerial
<1> QED
  BY <1>1, InitSerial, TypeInvariant, PTL DEF Spec

\* While handlers do not overlap, every subscription belongs to the customer in the
\* row, whatever crashes and however late the cron saves.
THEOREM PayerIsKnownSerially ==
    ASSUME OneAtATime PROVE Spec => []PayerIsKnown
<1>1. SerialInv => PayerIsKnown
  BY DEF SerialInv
<1> QED
  BY <1>1, SerialInvariant, PTL

\* While handlers do not overlap, a recorded checkout has reached the row and stays
\* there.
THEOREM RecordedIsAppliedSerially ==
    ASSUME OneAtATime PROVE Spec => []RecordedIsApplied
<1>1. SerialInv => RecordedIsApplied
  BY DEF SerialInv
<1> QED
  BY <1>1, SerialInvariant, PTL

-----------------------------------------------------------------------------
(* What Stripe answers to the reconciliation.  Every subscription belongs to *)
(* the customer asked for (PayerIsKnown), so an active one among the last is  *)
(* in the answer, and no other status has its priority.                      *)

SeenStep ==
    \A w \in Workers :
        /\ At(w, "list") /\ task'[w].pc = "reconcileSave"
        /\ \E s \in 1..paid : stripe[s].status = "active" /\ s + ListLimit > paid
        => task'[w].snap.status = "active"

\* Fewer than ListLimit subscriptions are newer than one of the last.
LEMMA LastAreListed ==
    ASSUME TypeInv, SerialInv, NEW a \in 1..paid, a + ListLimit > paid
    PROVE  a \in Listed(user.customer)
<1> DEFINE newer == {t \in SubsOf(user.customer) : t > a}
<1>1. a \in SubsOf(user.customer)
  BY DEF SerialInv, PayerIsKnown, SubsOf
<1>2. paid \in Nat /\ a \in Nat /\ ListLimit \in Nat
  BY ListLimitAssumption, BoundsAssumption DEF TypeInv, TypeOK
<1>3. newer \subseteq (a + 1)..paid
  BY <1>2 DEF SubsOf
<1>4. IsFiniteSet((a + 1)..paid)
      /\ Cardinality((a + 1)..paid) = IF a + 1 > paid THEN 0 ELSE paid - (a + 1) + 1
  BY <1>2, FS_Interval
<1>5. Cardinality(newer) <= Cardinality((a + 1)..paid) /\ Cardinality(newer) \in Nat
  BY <1>3, <1>4, FS_Subset, FS_CardinalityType
<1>6. Cardinality(newer) < ListLimit
  BY <1>2, <1>4, <1>5
<1> QED
  BY <1>1, <1>6 DEF Listed

LEMMA BestIsActive ==
    ASSUME TypeInv, NEW c, NEW s \in Listed(c), IsBest(s),
           NEW a \in Listed(c), stripe[a].status = "active"
    PROVE  stripe[s].status = "active"
<1>1. stripe[s].customer = c /\ a \in Listed(stripe[s].customer)
  BY DEF Listed, SubsOf
<1>2. Priority(stripe[s].status) >= Priority(stripe[a].status)
  BY <1>1 DEF IsBest, Priority
<1> QED
  BY <1>2 DEF Priority

LEMMA ListSees ==
    ASSUME TypeInv, SerialInv, NEW w \in Workers, List(w),
           task'[w].pc = "reconcileSave",
           NEW a \in 1..paid, stripe[a].status = "active", a + ListLimit > paid
    PROVE  task'[w].snap.status = "active"
<1> DEFINE t == task[w]
           u == t.snap
<1> USE TypeFacts
<1>1. t \in Task /\ TaskHolds(w) /\ u \in User
  BY DEF GoodTask, SerialInv, Task
<1>2. u.customer = user.customer
  <2>1. t.pc = "list"
    BY DEF List, At
  <2> QED
    BY <1>1, <2>1 DEF TaskHolds, SnapPc
<1>3. a \in Listed(u.customer)
  BY <1>2, LastAreListed
<1>4. ~Finish(w)
  BY Moved DEF Finish, Idle
<1>5. PICK s \in Listed(u.customer) :
          /\ IsBest(s)
          /\ Goto(w, [t EXCEPT !.pc = "reconcileSave", !.snap = Copied(u, s, stripe[s])])
  BY <1>4 DEF List
<1>6. stripe[s].status = "active"
  BY <1>3, <1>5, BestIsActive
<1>7. task'[w].snap = Copied(u, s, stripe[s])
  BY <1>1, <1>5, Moved DEF Task
<1>8. Copied(u, s, stripe[s]).status = "active"
  BY <1>1, <1>6 DEF Copied, WithAccess, User
<1> QED
  BY <1>7, <1>8

LEMMA NextSees ==
    ASSUME OneAtATime, TypeInv, SerialInv, [Next]_vars
    PROVE  SeenStep
<1> SUFFICES ASSUME NEW w \in Workers, At(w, "list"), task'[w].pc = "reconcileSave",
                    NEW a \in 1..paid, stripe[a].status = "active",
                    a + ListLimit > paid
             PROVE  task'[w].snap.status = "active"
  BY DEF SeenStep
<1>1. task[w].pc = "list"
  BY DEF At
<1>2. CASE task' = task
  BY <1>1, <1>2
<1>3. CASE Begin(w)
  BY <1>1, <1>3 DEF Begin, AccessBegin, CheckoutBegin, PortalBegin, GrantBegin,
                    WebhookBegin, Starts
<1>4. CASE Continue(w)
  <2>1. CASE List(w)
    BY <2>1, ListSees
  <2>2. CASE ListFails(w)
    BY <2>2, Moved DEF ListFails, Finish, Idle
  <2> QED
    BY <1>1, <1>4, <2>1, <2>2
    DEF Continue, TrialSave, ReconcileSave, CreateCustomer, CustomerSave, OpenSession,
        SessionFails, GrantSave, Retrieve, RetrieveFails, FindUser, WebhookSave, Record, At
<1>5. CASE Crash
  BY <1>5 DEF Crash, Idle
<1> QED
  BY <1>2, <1>3, <1>4, <1>5
  DEF Next, OneAtATime, vars, CronScan, CronSave, Environment, Pay, ChangeStatus,
      Reschedule, DatePasses, TrialEnds

\* While handlers do not overlap, a user with an active subscription among the ListLimit
\* bought last is given access by every reconciliation that Stripe answers, whichever of
\* those it is and whatever became of its webhooks.
THEOREM PaidIsSeenSerially ==
    ASSUME OneAtATime PROVE Spec => PaidIsSeen
<1>1. TypeInv /\ SerialInv /\ [Next]_vars => SeenStep
  BY NextSees
<1> QED
  BY <1>1, SerialInvariant, TypeInvariant, PTL DEF Spec, PaidIsSeen, SeenStep
=============================================================================
