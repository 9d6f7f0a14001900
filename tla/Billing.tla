------------------------------ MODULE Billing ------------------------------
(***************************************************************************)
(* One member's paid plan: subscribing and hosted checkout, Stripe's       *)
(* subscriptions and their webhooks, the admin's comp (billing_service.py, *)
(* set_plan).  A request or a webhook reads the member's row, does its     *)
(* work, and commits only the columns it changed from what it had read.    *)
(* Webhooks are delivered at least once and in any order.                  *)
(* Stripe itself is external.  Left out: trials, period dates, copy, mails *)
(* and a checkout with no subscription, which start_checkout never opens.  *)
(***************************************************************************)
EXTENDS Integers, FiniteSets

CONSTANTS
  Subs,       \* Stripe subscriptions the member may open
  Customers,  \* Stripe customers the member's requests may create
  Requests,   \* concurrent /me/billing requests
  Hooks,      \* concurrent webhook deliveries
  Admins,     \* concurrent set_plan calls
  None,       \* NULL in a column
  MaxChanges, \* bound: how often Stripe changes a subscription
  MaxFaults   \* bound: webhook handlers that raise

ASSUME NoneIsNoId == None \notin Subs \cup Customers
ASSUME TasksDiffer == Requests \cap Hooks = {} /\ Requests \cap Admins = {} /\ Hooks \cap Admins = {}
ASSUME BoundsAreNat == MaxChanges \in Nat /\ MaxFaults \in Nat

VARIABLES
  acct,    \* the member's row: customer, sub, plan
  task,    \* what each request, webhook or admin call is at
  stripe,  \* Stripe's subscriptions
  sent,    \* webhook events Stripe has emitted
  done,    \* events answered 200
  faults,  \* handlers that raised so far
  paid,    \* history: subscriptions that were ever active
  changes, \* history: how many changes Stripe has made; each is numbered
  applied, \* history: the latest change committed to the row
  disorder,\* history: writers overlapped, a change was applied after a later one,
           \*   or the row's customer was replaced by another
  comped   \* history: an admin has set the plan

vars == <<acct, task, stripe, sent, done, faults, paid, changes, applied, disorder, comped>>

Tasks == Requests \cup Hooks \cup Admins

(* _ACTIVE_STATUSES, _PENDING_STATUSES and the rest, as the code tells them *)
(* apart; "open" is a hosted checkout nobody has completed.                 *)
Status == {"none", "open", "pending", "active", "over"}

Event == [kind : {"sub", "checkout"}, sub : Subs, status : {"pending", "active", "over"},
          ver : 0..MaxChanges]
Account == [customer : Customers \cup {None}, sub : Subs \cup {None}, plan : {"free", "pro"}]
Columns == [sub : Subs \cup {None}, plan : {"free", "pro"}]
Subscription == [customer : Customers \cup {None}, status : Status, ver : 0..MaxChanges]

Idle == [at |-> "idle"]
Task ==
  {Idle}
  \cup [at : {"customer"}]
  \cup [at : {"subscribe"}, customer : Customers]
  \cup [at : {"link", "fetch", "apply"}, seen : Columns, event : Event]
  \cup [at : {"set"}, seen : {"free", "pro"}, plan : {"free", "pro"}]

Init ==
  /\ acct = [customer |-> None, sub |-> None, plan |-> "free"]
  /\ task = [t \in Tasks |-> Idle]
  /\ stripe = [s \in Subs |-> [customer |-> None, status |-> "none", ver |-> 0]]
  /\ sent = {} /\ done = {} /\ faults = 0
  /\ paid = {} /\ changes = 0 /\ applied = 0 /\ disorder = FALSE /\ comped = FALSE

IsIdle(t) == task[t].at = "idle"
Goto(t, next) == task' = [task EXCEPT ![t] = next]
Overlaps(t) == \E u \in (Hooks \cup Admins) \ {t} : ~IsIdle(u)

(* A column keeps its stored value unless the task gave it another value    *)
(* than the one it had read.                                                *)
Put(new, seen, stored) == IF new # seen THEN new ELSE stored

----------------------------------------------------------------------------
(* /me/billing: the row is read by require_user; _ensure_customer makes a   *)
(* Stripe customer when that copy has none, commits it and refreshes.       *)
AtSubscribe(row) == [at |-> "subscribe", customer |-> row.customer]

ReadRow(r) ==
  /\ IsIdle(r)
  /\ Goto(r, IF acct.customer = None THEN [at |-> "customer"] ELSE AtSubscribe(acct))
  /\ UNCHANGED <<acct, stripe, sent, done, faults, paid, changes, applied, disorder, comped>>

EnsureCustomer(r) ==
  /\ task[r].at = "customer"
  /\ \E c \in Customers :
       /\ c # acct.customer /\ \A s \in Subs : stripe[s].customer # c
       /\ acct' = [acct EXCEPT !.customer = c]
  /\ disorder' = (disorder \/ acct.customer # None)
  /\ Goto(r, AtSubscribe(acct'))
  /\ UNCHANGED <<stripe, sent, done, faults, paid, changes, applied, comped>>

Opened(r, status) == [customer |-> task[r].customer, status |-> status, ver |-> 0]
SubEvent(s, st) == [kind |-> "sub", sub |-> s, status |-> st.status, ver |-> st.ver]

(* create_subscription: default_incomplete, announced at once.              *)
CreateSubscription(r, s) ==
  /\ task[r].at = "subscribe" /\ stripe[s].status = "none"
  /\ stripe' = [stripe EXCEPT ![s] = Opened(r, "pending")]
  /\ sent' = sent \cup {SubEvent(s, stripe'[s])}
  /\ Goto(r, Idle)
  /\ UNCHANGED <<acct, done, faults, paid, changes, applied, disorder, comped>>

(* start_checkout: a hosted session that becomes a subscription when it is  *)
(* completed.                                                               *)
StartCheckout(r, s) ==
  /\ task[r].at = "subscribe" /\ stripe[s].status = "none"
  /\ stripe' = [stripe EXCEPT ![s] = Opened(r, "open")]
  /\ Goto(r, Idle)
  /\ UNCHANGED <<acct, sent, done, faults, paid, changes, applied, disorder, comped>>

(* The request ends there: no price is configured, or the client left.      *)
GiveUp(r) ==
  /\ ~IsIdle(r) /\ Goto(r, Idle)
  /\ UNCHANGED <<acct, stripe, sent, done, faults, paid, changes, applied, disorder, comped>>

----------------------------------------------------------------------------
(* Stripe.  A payment or a trial makes a subscription active; a member, an  *)
(* admin, Stripe's dunning or a pause ends it; an unpaid or a paused one    *)
(* may come back.                                                           *)
Becomes(s, status) ==
  /\ changes < MaxChanges
  /\ changes' = changes + 1
  /\ stripe' = [stripe EXCEPT ![s].status = status, ![s].ver = changes']

Confirm(s) ==
  /\ stripe[s].status \in {"open", "pending"} /\ Becomes(s, "active")
  /\ sent' = sent \cup {SubEvent(s, stripe'[s])}
       \cup (IF stripe[s].status = "open"
               THEN {[SubEvent(s, stripe'[s]) EXCEPT !.kind = "checkout"]} ELSE {})
  /\ paid' = paid \cup {s}
  /\ UNCHANGED <<acct, task, done, faults, applied, disorder, comped>>

End(s) ==
  /\ stripe[s].status = "active" /\ Becomes(s, "over")
  /\ sent' = sent \cup {SubEvent(s, stripe'[s])}
  /\ UNCHANGED <<acct, task, done, faults, paid, applied, disorder, comped>>

Resume(s) ==
  /\ stripe[s].status = "over" /\ Becomes(s, "active")
  /\ sent' = sent \cup {SubEvent(s, stripe'[s])}
  /\ UNCHANGED <<acct, task, done, faults, paid, applied, disorder, comped>>

----------------------------------------------------------------------------
(* Webhooks.  handle_event loads the member by customer id.  An event of no *)
(* known customer, or of a subscription nobody has paid for, is answered    *)
(* and changes nothing.                                                     *)
Known(e) == acct.customer # None /\ acct.customer = stripe[e.sub].customer
NothingPending(status) == FALSE
Pending(status) == status = "pending"
Seen == [sub |-> acct.sub, plan |-> acct.plan]
Answer(e) == done' = done \cup {e}

Ignore(h, e) ==
  /\ IsIdle(h) /\ e.kind = "sub" /\ (~Known(e) \/ Pending(e.status))
  /\ Answer(e)
  /\ UNCHANGED <<acct, task, stripe, sent, faults, paid, changes, applied, disorder, comped>>

Load(h, e) ==
  /\ IsIdle(h) /\ e.kind = "sub" /\ Known(e) /\ ~Pending(e.status)
  /\ Goto(h, [at |-> "apply", seen |-> Seen, event |-> e])
  /\ disorder' = (disorder \/ Overlaps(h))
  /\ UNCHANGED <<acct, stripe, sent, done, faults, paid, changes, applied, comped>>

(* checkout.session.completed also finds the member by client_reference_id, *)
(* and then writes the customer id first, in a commit of its own.           *)
LoadCheckout(h, e) ==
  /\ IsIdle(h) /\ e.kind = "checkout"
  /\ Goto(h, [at |-> IF Known(e) THEN "fetch" ELSE "link", seen |-> Seen, event |-> e])
  /\ disorder' = (disorder \/ Overlaps(h))
  /\ UNCHANGED <<acct, stripe, sent, done, faults, paid, changes, applied, comped>>

Link(h) ==
  /\ task[h].at = "link"
  /\ acct' = [acct EXCEPT !.customer = stripe[task[h].event.sub].customer]
  /\ disorder' = (disorder \/ acct.customer \notin {None, acct'.customer})
  /\ Goto(h, [task[h] EXCEPT !.at = "fetch"])
  /\ UNCHANGED <<stripe, sent, done, faults, paid, changes, applied, comped>>

(* Subscription.retrieve: the state to apply is Stripe's present one.       *)
Fetch(h) ==
  /\ task[h].at = "fetch"
  /\ LET s == task[h].event.sub IN
     Goto(h, [task[h] EXCEPT !.at = "apply",
                             !.event.status = stripe[s].status, !.event.ver = stripe[s].ver])
  /\ UNCHANGED <<acct, stripe, sent, done, faults, paid, changes, applied, disorder, comped>>

PlanIsStatus(status) == status
PlanFor(status) == IF status = "active" THEN "pro" ELSE "free"

(* The event a task came from: a checkout answers for the completion it was *)
(* delivered, whatever it fetched.                                          *)
Answered(e) == {d \in sent : d.kind = e.kind /\ d.sub = e.sub /\ (e.kind = "checkout" \/ d = e)}

(* _apply_subscription: the rest of it, committed at once.                  *)
Apply(h) ==
  /\ task[h].at = "apply"
  /\ LET e == task[h].event  seen == task[h].seen IN
     /\ acct' = [acct EXCEPT
          !.sub = Put(e.sub, seen.sub, @),
          !.plan = Put(PlanFor(e.status), seen.plan, @)]
     /\ applied' = IF e.ver > applied THEN e.ver ELSE applied
     /\ disorder' = (disorder \/ Overlaps(h) \/ e.ver < applied)
     /\ done' = done \cup Answered(e)
  /\ Goto(h, Idle)
  /\ UNCHANGED <<stripe, sent, faults, paid, changes, comped>>

(* Anything the handler raises becomes a 500: Stripe delivers it again.     *)
AcknowledgedAnyway(e) == Answered(e)
Acknowledged(e) == {}

Raise(h) ==
  /\ task[h].at \in {"link", "fetch", "apply"} /\ faults < MaxFaults
  /\ faults' = faults + 1
  /\ done' = done \cup Acknowledged(task[h].event)
  /\ Goto(h, Idle)
  /\ UNCHANGED <<acct, stripe, sent, paid, changes, applied, disorder, comped>>

----------------------------------------------------------------------------
(* The admin's comp, refused when it would drop a subscriber to free.       *)
OnSubscription(row) == row.plan = "pro" /\ row.sub # None

ReadTarget(a, plan) ==
  /\ IsIdle(a) /\ ~(plan = "free" /\ OnSubscription(acct))
  /\ Goto(a, [at |-> "set", seen |-> acct.plan, plan |-> plan])
  /\ disorder' = (disorder \/ Overlaps(a))
  /\ UNCHANGED <<acct, stripe, sent, done, faults, paid, changes, applied, comped>>

SetPlan(a) ==
  /\ task[a].at = "set"
  /\ acct' = [acct EXCEPT !.plan = Put(task[a].plan, task[a].seen, @)]
  /\ comped' = TRUE
  /\ disorder' = (disorder \/ Overlaps(a))
  /\ Goto(a, Idle)
  /\ UNCHANGED <<stripe, sent, done, faults, paid, changes, applied>>

----------------------------------------------------------------------------
Request(r) == ReadRow(r) \/ EnsureCustomer(r) \/ GiveUp(r)
              \/ \E s \in Subs : CreateSubscription(r, s) \/ StartCheckout(r, s)
Deliver(h, e) == Ignore(h, e) \/ Load(h, e) \/ LoadCheckout(h, e)
Handle(h) == Link(h) \/ Fetch(h) \/ Apply(h)

Next ==
  \/ \E r \in Requests : Request(r)
  \/ \E s \in Subs : Confirm(s) \/ End(s) \/ Resume(s)
  \/ \E h \in Hooks : (\E e \in sent : Deliver(h, e)) \/ Handle(h) \/ Raise(h)
  \/ \E a \in Admins : (\E plan \in {"free", "pro"} : ReadTarget(a, plan)) \/ SetPlan(a)

Spec == Init /\ [][Next]_vars

(* Stripe goes on delivering what is not yet answered 200, and a handler    *)
(* that has begun ends.  Nothing obliges anyone to pay.                     *)
Fairness ==
  /\ \A h \in Hooks : WF_vars(Handle(h) \/ Raise(h))
  /\ SF_vars(\E h \in Hooks, e \in sent \ done : Deliver(h, e))
FairSpec == Spec /\ Fairness

----------------------------------------------------------------------------
(* The type invariant. *)
TypeOK ==
  /\ acct \in Account
  /\ task \in [Tasks -> Task]
  /\ stripe \in [Subs -> Subscription]
  /\ sent \subseteq Event /\ done \subseteq sent
  /\ faults \in 0..MaxFaults
  /\ paid \subseteq Subs
  /\ changes \in 0..MaxChanges /\ applied \in 0..MaxChanges
  /\ disorder \in BOOLEAN /\ comped \in BOOLEAN

(* Pro comes only from a subscription that was paid for or from a comp, and *)
(* stripe_subscription_id never points at one nobody has paid for, whatever *)
(* the order and the number of deliveries.                                  *)
NothingUnpaidGrants ==
  /\ acct.plan = "pro" => comped \/ paid # {}
  /\ acct.sub # None => acct.sub \in paid

Quiet == sent = done /\ \A t \in Tasks : IsIdle(t)

(* With one paid subscription and a row that keeps its customer, webhooks   *)
(* applied one at a time and no change after a later one, the plan is       *)
(* Stripe's once every event is answered: pending subscriptions opened on   *)
(* the side and handlers that raised have lost or changed nothing.          *)
InSyncWhenOrderly ==
  \A s \in paid :
    Quiet /\ paid = {s} /\ ~disorder /\ ~comped
      => (acct.plan = "pro") = (stripe[s].status = "active")

(* A payment reaches the plan, handlers that raise notwithstanding, unless  *)
(* the subscription ends first or another writer interferes.                *)
PaidReachesPro ==
  \A s \in Subs :
    stripe[s].status = "active" ~>
      acct.plan = "pro" \/ disorder \/ comped \/ paid # {s} \/ stripe[s].status = "over"

(* A subscription that ends must not downgrade "a member who was already    *)
(* paying on another subscription": broken by the end of the old one after  *)
(* a switch, since no id is compared.                                       *)
PayingMemberKeepsPro ==
  Quiet /\ ~comped /\ ~disorder =>
    ((\E s \in paid : stripe[s].status = "active" /\ stripe[s].customer = acct.customer)
       => acct.plan = "pro")
=============================================================================
