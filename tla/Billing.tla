-------------------------------- MODULE Billing --------------------------------
(***************************************************************************)
(* BillingService: the billing columns of one user, the subscriptions that *)
(* user pays for at Stripe, the webhooks that copy one to the other, the   *)
(* hourly cron, and the handlers that open a trial, a customer, a checkout *)
(* or a platform plan.                                                     *)
(*                                                                         *)
(* A handler reads the user, awaits Stripe or the database, and saves the  *)
(* whole entity it read: task[w].snap overwrites the row.  Users do not    *)
(* interact, so one is modelled; its clock is the expiry of its trial and  *)
(* of the cancellation dates of its subscriptions.                         *)
(*                                                                         *)
(* Statuses are taken up to what the code tells apart: 'trialing' counts   *)
(* as 'active', 'unpaid' and 'incomplete' as 'past_due'.                   *)
(***************************************************************************)
EXTENDS Naturals, FiniteSets

CONSTANTS
    Workers,     \* concurrent handler invocations
    Customers,   \* ids Stripe may give to a customer
    NoCustomer,  \* stripe_customer_id IS NULL
    Kinds,       \* kinds of user a model starts from
    Ops,         \* the handlers and events a model exercises
    ListLimit,   \* subscriptions the reconciliation asks Stripe for
    MaxSubs,     \* bound: subscriptions paid for
    MaxEvents,   \* bound: webhook events Stripe emits
    MaxCalls     \* bound: handler invocations and crashes

AllKinds == {"client", "partner-client", "staff"}
AllOps == {"access", "checkout", "portal", "grant", "webhook", "cron",
           "reschedule", "fail", "crash"}

ASSUME KindsAssumption == Kinds \subseteq AllKinds
ASSUME OpsAssumption == Ops \subseteq AllOps
ASSUME NoCustomerAssumption == NoCustomer \notin Customers
ASSUME ListLimitAssumption == ListLimit \in Nat \ {0}
ASSUME BoundsAssumption == MaxSubs \in Nat /\ MaxEvents \in Nat /\ MaxCalls \in Nat

Subs == 1..MaxSubs
NoSub == 0
Events == 1..MaxEvents
NoEvent == 0

CustomerOrNone == Customers \cup {NoCustomer}
Status == {"none", "active", "past_due", "canceled", "incomplete_expired"}
Access == {"none", "trial_active", "trial_expired", "subscription_active",
           "subscription_past_due", "subscription_canceled", "no_subscription"}

\* The billing columns of the user; sub and cancelAt: the subscription copied
\* last, and whether it is scheduled to end.
User == [customer: CustomerOrNone, sub: Subs \cup {NoSub}, status: Status,
         cancelAt: BOOLEAN, trial: BOOLEAN, access: Access, plan: BOOLEAN]

NewUser == [customer |-> NoCustomer, sub |-> NoSub, status |-> "none",
            cancelAt |-> FALSE, trial |-> FALSE, access |-> "none", plan |-> FALSE]

\* A subscription as Stripe reports it.
Subscription == [customer: CustomerOrNone, status: Status, cancelAt: BOOLEAN]

Unpaid == [customer |-> NoCustomer, status |-> "none", cancelAt |-> FALSE]

\* completed: checkout.session.completed; updated: customer.subscription.updated
\* or .deleted, which carry the subscription as it was.
Event == [type: {"none", "completed", "updated"}, sub: Subs \cup {NoSub},
          seen: Subscription]

Unsent == [type |-> "none", sub |-> NoSub, seen |-> Unpaid]

Pc == {"idle", "trialSave", "list", "reconcileSave", "customer", "customerSave",
       "session", "grantSave", "retrieve", "find", "webhookSave", "record"}

\* op: the handler that runs; event: the webhook it answers; seen: the
\* subscription it has for sub.
Task == [pc: Pc, op: AllOps \cup {"none"}, snap: User, event: Events \cup {NoEvent},
         sub: Subs \cup {NoSub}, seen: Subscription]

Idle == [pc |-> "idle", op |-> "none", snap |-> NewUser, event |-> NoEvent,
         sub |-> NoSub, seen |-> Unpaid]

VARIABLES
    kind,       \* what the user is
    user,       \* its row
    customers,  \* customers created at Stripe for it
    sessions,   \* customers with an open checkout session
    stripe,     \* the subscriptions at Stripe
    paid,       \* how many there are
    ended,      \* subscriptions whose cancellation date has passed
    trialOver,  \* the end of the trial has passed
    events,     \* the webhook events Stripe has emitted
    emitted,    \* how many there are
    recorded,   \* rows of stripe_webhook_events
    task,       \* the state of each worker
    cron,       \* the candidates of the hourly job, while it runs
    calls

external == <<customers, sessions, stripe, paid, ended, trialOver, events, emitted>>
vars == <<kind, user, external, recorded, task, cron, calls>>

TypeOK ==
    /\ kind \in AllKinds
    /\ user \in User
    /\ customers \subseteq Customers /\ sessions \subseteq customers
    /\ user.customer \in customers \cup {NoCustomer}
    /\ paid \in 0..MaxSubs
    /\ stripe \in [Subs -> Subscription]
    /\ ended \subseteq Subs
    /\ trialOver \in BOOLEAN
    /\ emitted \in 0..MaxEvents
    /\ events \in [Events -> Event]
    /\ recorded \subseteq 1..emitted
    /\ task \in [Workers -> Task]
    /\ cron \in [pc: {"idle", "save"}, snap: User]
    /\ calls \in 0..MaxCalls

Init ==
    /\ kind \in Kinds
    /\ user = NewUser
    /\ customers = {} /\ sessions = {}
    /\ stripe = [s \in Subs |-> Unpaid] /\ paid = 0
    /\ ended = {} /\ trialOver = FALSE
    /\ events = [i \in Events |-> Unsent] /\ emitted = 0
    /\ recorded = {}
    /\ task = [w \in Workers |-> Idle]
    /\ cron = [pc |-> "idle", snap |-> NewUser]
    /\ calls = 0

-----------------------------------------------------------------------------
(* What the code computes from a user *)

Commercial == kind = "client"

\* deriveAccessState, as it is called where the result is stored: without
\* telling it that the client belongs to a partner.
Derived(u) ==
    CASE kind = "staff" -> "subscription_active"
      [] kind # "staff" /\ u.status = "active" -> "subscription_active"
      [] kind # "staff" /\ u.status \in {"past_due", "incomplete_expired"} ->
            "subscription_past_due"
      [] kind # "staff" /\ u.status = "canceled" -> "subscription_canceled"
      [] kind # "staff" /\ u.status = "none" /\ u.trial ->
            IF trialOver THEN "trial_expired" ELSE "trial_active"
      [] OTHER -> "no_subscription"

WithAccess(u) == [u EXCEPT !.access = Derived(u)]

\* ensureTrialWindow; for a partner's client, ensurePartnerClientAccess.
TrialOpened(u) ==
    CASE kind = "staff" -> WithAccess(u)
      [] kind = "partner-client" ->
            [u EXCEPT !.status = "active", !.access = "subscription_active",
                      !.trial = FALSE, !.plan = TRUE]
      [] OTHER -> IF u.trial THEN u ELSE WithAccess([u EXCEPT !.trial = TRUE])

TrialSaves(u) == kind = "staff" \/ TrialOpened(u) # u

\* The columns a subscription s, reported as x, is copied to.
Copied(u, s, x) ==
    WithAccess([u EXCEPT !.sub = s, !.status = x.status, !.cancelAt = x.cancelAt])

Priority(status) ==
    CASE status = "active" -> 100
      [] status = "past_due" -> 80
      [] status = "canceled" -> 40
      [] OTHER -> 10

SubsOf(c) == {s \in 1..paid : stripe[s].customer = c}

\* What Stripe answers when asked for the subscriptions of c: the newest, up to
\* the limit.
Listed(c) == {s \in SubsOf(c) : Cardinality({t \in SubsOf(c) : t > s}) < ListLimit}

\* Deliberately wrong: the subscription created last, whatever its status.
IsNewest(s) == \A t \in Listed(stripe[s].customer) : t <= s

\* The best of the subscriptions listed: by priority, then the one created last.
IsBest(s) ==
    \A t \in Listed(stripe[s].customer) :
        \/ Priority(stripe[t].status) < Priority(stripe[s].status)
        \/ Priority(stripe[t].status) = Priority(stripe[s].status) /\ t <= s

\* The row says that the subscription should have ended by now.
Overdue(u) == u.cancelAt /\ u.sub \in ended

-----------------------------------------------------------------------------
(* Building blocks *)

Starts(w, op) ==
    /\ op \in Ops
    /\ task[w].pc = "idle"
    /\ calls < MaxCalls
    /\ calls' = calls + 1

At(w, pc) == task[w].pc = pc

Goto(w, t) == task' = [task EXCEPT ![w] = t]

Finish(w) == Goto(w, Idle)

Save(w) == user' = task[w].snap

\* ensureTrialWindow on the entity just read, then pc.
OpenTrial(w, op, pc) ==
    Goto(w, [Idle EXCEPT !.op = op, !.snap = TrialOpened(user),
                         !.pc = IF TrialSaves(user) THEN "trialSave" ELSE pc])

AfterTrial(w) == IF task[w].op = "checkout" THEN "customer" ELSE "list"

-----------------------------------------------------------------------------
(* getAccessSnapshot *)

AccessBegin(w) ==
    /\ Starts(w, "access")
    /\ OpenTrial(w, "access", "list")
    /\ UNCHANGED <<kind, user, external, recorded, cron>>

TrialSave(w) ==
    /\ At(w, "trialSave")
    /\ Save(w)
    /\ Goto(w, [task[w] EXCEPT !.pc = AfterTrial(w)])
    /\ UNCHANGED <<kind, external, recorded, cron, calls>>

\* reconcileBillingFromStripe up to the answer of Stripe.  It is skipped for the
\* clients of partners; an error is logged and the row left as it is.
List(w) ==
    /\ At(w, "list")
    /\ LET u == task[w].snap
           skips == kind = "partner-client" \/ u.customer = NoCustomer
       IN  \/ /\ skips \/ Listed(u.customer) = {}
              /\ Finish(w)
           \/ /\ ~skips
              /\ \E s \in Listed(u.customer) :
                    /\ IsBest(s)
                    /\ Goto(w, [task[w] EXCEPT !.pc = "reconcileSave",
                                               !.snap = Copied(u, s, stripe[s])])
    /\ UNCHANGED <<kind, user, external, recorded, cron, calls>>

ListFails(w) ==
    /\ "fail" \in Ops
    /\ At(w, "list")
    /\ Finish(w)
    /\ UNCHANGED <<kind, user, external, recorded, cron, calls>>

ReconcileSave(w) ==
    /\ At(w, "reconcileSave")
    /\ Save(w)
    /\ Finish(w)
    /\ UNCHANGED <<kind, external, recorded, cron, calls>>

-----------------------------------------------------------------------------
(* createCheckoutSession and createCustomerPortalSession *)

CheckoutBegin(w) ==
    /\ Starts(w, "checkout")
    /\ OpenTrial(w, "checkout", "customer")
    /\ UNCHANGED <<kind, user, external, recorded, cron>>

PortalBegin(w) ==
    /\ Starts(w, "portal")
    /\ Goto(w, [Idle EXCEPT !.op = "portal", !.pc = "customer", !.snap = user])
    /\ UNCHANGED <<kind, user, external, recorded, cron>>

\* ensureStripeCustomer
CreateCustomer(w) ==
    /\ At(w, "customer")
    /\ \/ /\ task[w].snap.customer # NoCustomer
          /\ Goto(w, [task[w] EXCEPT !.pc = "session"])
          /\ UNCHANGED customers
       \/ /\ task[w].snap.customer = NoCustomer
          /\ \E c \in Customers \ customers :
                /\ customers' = customers \cup {c}
                /\ Goto(w, [task[w] EXCEPT !.pc = "customerSave", !.snap.customer = c])
    /\ UNCHANGED <<kind, user, sessions, stripe, paid, ended, trialOver, events,
                   emitted, recorded, cron, calls>>

\* Deliberately wrong: the new customer is used but not stored.
CustomerUnsaved(w) ==
    /\ At(w, "customerSave")
    /\ Goto(w, [task[w] EXCEPT !.pc = "session"])
    /\ UNCHANGED <<kind, user, external, recorded, cron, calls>>

CustomerSave(w) ==
    /\ At(w, "customerSave")
    /\ Save(w)
    /\ Goto(w, [task[w] EXCEPT !.pc = "session"])
    /\ UNCHANGED <<kind, external, recorded, cron, calls>>

\* The portal session is a link; the checkout session can be paid.
OpenSession(w) ==
    /\ At(w, "session")
    /\ sessions' = IF task[w].op = "checkout"
                   THEN sessions \cup {task[w].snap.customer} ELSE sessions
    /\ Finish(w)
    /\ UNCHANGED <<kind, user, customers, stripe, paid, ended, trialOver, events,
                   emitted, recorded, cron, calls>>

\* Stripe refuses one of the calls of the handler.
SessionFails(w) ==
    /\ "fail" \in Ops
    /\ task[w].pc \in {"customer", "session"}
    /\ Finish(w)
    /\ UNCHANGED <<kind, user, external, recorded, cron, calls>>

-----------------------------------------------------------------------------
(* grantPlatformAccess *)

GrantBegin(w) ==
    /\ Starts(w, "grant")
    /\ Goto(w, [Idle EXCEPT !.op = "grant", !.pc = "grantSave",
                            !.snap = [user EXCEPT !.plan = TRUE]])
    /\ UNCHANGED <<kind, user, external, recorded, cron>>

GrantSave(w) ==
    /\ At(w, "grantSave")
    /\ Save(w)
    /\ Finish(w)
    /\ UNCHANGED <<kind, external, recorded, cron, calls>>

-----------------------------------------------------------------------------
(* handleStripeWebhook: Stripe delivers an event until it is answered, in any *)
(* order and possibly again.                                                  *)

\* The step after the event i has been looked up in stripe_webhook_events.
Received(w, i) ==
    Goto(w, [Idle EXCEPT !.op = "webhook", !.event = i, !.sub = events[i].sub,
                         !.seen = events[i].seen,
                         !.pc = IF events[i].type = "completed" THEN "retrieve"
                                ELSE "find"])

\* Deliberately wrong: the event is recorded before it is applied.
WebhookRecordsFirst(w) ==
    /\ Starts(w, "webhook")
    /\ \E i \in 1..emitted :
          /\ recorded' = recorded \cup {i}
          /\ IF i \in recorded THEN Finish(w) ELSE Received(w, i)
    /\ UNCHANGED <<kind, user, external, cron>>

WebhookBegin(w) ==
    /\ Starts(w, "webhook")
    /\ \E i \in 1..emitted : IF i \in recorded THEN Finish(w) ELSE Received(w, i)
    /\ UNCHANGED <<kind, user, external, recorded, cron>>

\* checkout.session.completed carries an id: the subscription is read now.
Retrieve(w) ==
    /\ At(w, "retrieve")
    /\ Goto(w, [task[w] EXCEPT !.pc = "find", !.seen = stripe[task[w].sub]])
    /\ UNCHANGED <<kind, user, external, recorded, cron, calls>>

RetrieveFails(w) ==
    /\ "fail" \in Ops
    /\ At(w, "retrieve")
    /\ Finish(w)
    /\ UNCHANGED <<kind, user, external, recorded, cron, calls>>

\* The user is found by its customer; after a checkout, by the id in the metadata
\* of the session as well.
Known(w) ==
    \/ user.customer = task[w].seen.customer
    \/ events[task[w].event].type = "completed"

FindUser(w) ==
    /\ At(w, "find")
    /\ LET t == task[w]
           u == [user EXCEPT !.customer = t.seen.customer]
       IN  Goto(w, IF Known(w)
                   THEN [t EXCEPT !.pc = "webhookSave", !.snap = Copied(u, t.sub, t.seen)]
                   ELSE [t EXCEPT !.pc = "record"])
    /\ UNCHANGED <<kind, user, external, recorded, cron, calls>>

WebhookSave(w) ==
    /\ At(w, "webhookSave")
    /\ Save(w)
    /\ Goto(w, [task[w] EXCEPT !.pc = "record"])
    /\ UNCHANGED <<kind, external, recorded, cron, calls>>

Record(w) ==
    /\ At(w, "record")
    /\ recorded' = recorded \cup {task[w].event}
    /\ Finish(w)
    /\ UNCHANGED <<kind, user, external, cron, calls>>

-----------------------------------------------------------------------------
(* reconcileExpiredScheduledCancellations *)

\* Deliberately wrong: only subscriptions in good standing are looked at.
CandidateIfActive == kind # "staff" /\ user.status = "active" /\ Overdue(user)

Candidate == kind # "staff" /\ user.status \in {"active", "past_due"} /\ Overdue(user)

CronScan ==
    /\ "cron" \in Ops
    /\ cron.pc = "idle"
    /\ Candidate
    /\ cron' = [pc |-> "save", snap |-> user]
    /\ UNCHANGED <<kind, user, external, recorded, task, calls>>

\* Deliberately wrong: the stored access state is left as it was.
CutStatusOnly(u) == [u EXCEPT !.status = "canceled"]

\* Deliberately wrong: a status Stripe does not use.
CutMisspelled(u) == [u EXCEPT !.status = "cancelled"]

Cut(u) == WithAccess([u EXCEPT !.status = "canceled"])

CronSave ==
    /\ cron.pc = "save"
    /\ user' = Cut(cron.snap)
    /\ cron' = [cron EXCEPT !.pc = "idle"]
    /\ UNCHANGED <<kind, external, recorded, task, calls>>

-----------------------------------------------------------------------------
(* Stripe, time and crashes *)

\* Stripe changes subscription s to x and emits an event for it.
Emit(s, x, type) ==
    /\ emitted < MaxEvents
    /\ stripe' = [stripe EXCEPT ![s] = x]
    /\ emitted' = emitted + 1
    /\ events' = [events EXCEPT ![emitted + 1] = [type |-> type, sub |-> s, seen |-> x]]

\* The user pays in an open checkout session.
Pay ==
    /\ paid < MaxSubs
    /\ paid' = paid + 1
    /\ \E c \in sessions :
          /\ sessions' = sessions \ {c}
          /\ Emit(paid + 1, [Unpaid EXCEPT !.customer = c, !.status = "active"], "completed")
    /\ UNCHANGED <<kind, user, customers, ended, trialOver, recorded, task, cron, calls>>

\* A payment fails, is made good, or the subscription is canceled.
ChangeStatus ==
    /\ \E s \in 1..paid, new \in {"active", "past_due", "canceled"} :
          /\ stripe[s].status \notin {new, "canceled"}
          /\ new = "canceled" \/ ~(stripe[s].cancelAt /\ s \in ended)
          /\ Emit(s, [stripe[s] EXCEPT !.status = new], "updated")
    /\ UNCHANGED <<kind, user, customers, sessions, paid, ended, trialOver, recorded,
                   task, cron, calls>>

\* The user schedules the end of a subscription, or takes that back in time.
Reschedule ==
    /\ "reschedule" \in Ops
    /\ \E s \in 1..paid :
          /\ stripe[s].status # "canceled" /\ s \notin ended
          /\ Emit(s, [stripe[s] EXCEPT !.cancelAt = ~@], "updated")
    /\ UNCHANGED <<kind, user, customers, sessions, paid, ended, trialOver, recorded,
                   task, cron, calls>>

\* The date for which the end of s was scheduled, possibly taken back, passes.
DatePasses ==
    /\ "reschedule" \in Ops
    /\ \E s \in (1..paid) \ ended :
          /\ \E i \in 1..emitted : events[i].sub = s /\ events[i].seen.cancelAt
          /\ ended' = ended \cup {s}
    /\ UNCHANGED <<kind, user, customers, sessions, stripe, paid, trialOver, events,
                   emitted, recorded, task, cron, calls>>

TrialEnds ==
    /\ Commercial /\ ~trialOver
    /\ trialOver' = TRUE
    /\ UNCHANGED <<kind, user, customers, sessions, stripe, paid, ended, events,
                   emitted, recorded, task, cron, calls>>

Crash ==
    /\ "crash" \in Ops
    /\ calls < MaxCalls
    /\ calls' = calls + 1
    /\ task' = [w \in Workers |-> Idle]
    /\ cron' = [pc |-> "idle", snap |-> NewUser]
    /\ UNCHANGED <<kind, user, external, recorded>>

-----------------------------------------------------------------------------

Begin(w) ==
    \/ AccessBegin(w) \/ CheckoutBegin(w) \/ PortalBegin(w) \/ GrantBegin(w)
    \/ WebhookBegin(w)

Continue(w) ==
    \/ TrialSave(w) \/ List(w) \/ ListFails(w) \/ ReconcileSave(w)
    \/ CreateCustomer(w) \/ CustomerSave(w) \/ OpenSession(w) \/ SessionFails(w)
    \/ GrantSave(w) \/ Retrieve(w) \/ RetrieveFails(w) \/ FindUser(w)
    \/ WebhookSave(w) \/ Record(w)

Environment == Pay \/ ChangeStatus \/ Reschedule \/ DatePasses \/ TrialEnds \/ Crash

Next ==
    \/ \E w \in Workers : Begin(w) \/ Continue(w)
    \/ CronScan \/ CronSave
    \/ Environment

Spec == Init /\ [][Next]_vars

\* The scheduler fires the hourly job for ever.  Users owe nothing, and Stripe
\* need not deliver a single event.
FairSpec == Spec /\ WF_vars(CronScan) /\ WF_vars(CronSave)

-----------------------------------------------------------------------------
(* Properties *)

\* billing_access_state never contradicts billing_subscription_status, whichever
\* of the seven writers stored them last and however old the entity it saved:
\* trial, partner access, reconciliation, customer, plan, webhook and cron.
AccessMatches(u) ==
    CASE kind = "staff" -> u.access \in {"none", "subscription_active"}
      [] kind # "staff" /\ u.status = "none" ->
            u.access \in {"none", "trial_active", "trial_expired"}
      [] OTHER -> u.access = Derived(u)

AccessFollowsStatus == AccessMatches(user)

\* Every subscription the user pays for belongs to the customer stored in the
\* row, so that its later events and the reconciliation find it, even when a
\* crash falls between creating a customer at Stripe and storing it.
PayerIsKnown ==
    /\ \A s \in 1..paid : stripe[s].customer = user.customer
    /\ \A c \in sessions : c = user.customer

\* A checkout event that has been recorded, and so is never processed again, has
\* reached the row: a crash between applying and recording repeats it, a crash
\* before does not lose it.
RecordedIsApplied ==
    \A i \in recorded :
        events[i].type = "completed" =>
            user.sub # NoSub /\ user.customer = events[i].seen.customer

\* "Fallback de consistencia": whenever Stripe answers the reconciliation, a user
\* with an active subscription among the ListLimit bought last, in whatever session
\* it was bought and whatever became of its webhooks, is given access.
PaidIsSeen ==
    [][\A w \in Workers :
          /\ At(w, "list") /\ task'[w].pc = "reconcileSave"
          /\ \E s \in 1..paid : stripe[s].status = "active" /\ s + ListLimit > paid
          => task'[w].snap.status = "active"]_vars

\* A subscription whose end has passed is cut off by the hourly job although no
\* event about the end ever arrives.
EndedIsCut ==
    kind # "staff" /\ user.status \in {"active", "past_due"} /\ Overdue(user)
        ~> ~(user.status \in {"active", "past_due"} /\ Overdue(user))

\* The subscription in the row has ended, as Stripe has it.
EndedAtStripe(u) == u.sub # NoSub /\ stripe[u.sub].cancelAt /\ u.sub \in ended

\* "Si una suscripción ya pasó su fecha efectiva de cancelación": the hourly job cuts
\* only a user whose row, or whose subscription at Stripe, says at that moment that
\* the end has passed.  The job saves users it read before, so it may not.
CutsOnlyEnded ==
    [][cron.pc = "save" /\ cron'.pc = "idle"
          /\ user.status # "canceled" /\ user'.status = "canceled"
          => Overdue(user) \/ EndedAtStripe(user)]_vars
=============================================================================
