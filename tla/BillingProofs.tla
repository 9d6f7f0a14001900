--------------------------- MODULE BillingProofs ---------------------------
(***************************************************************************)
(* For every number of subscriptions, customers, requests, webhooks and    *)
(* admin calls: the type invariant, that nothing unpaid grants Pro or      *)
(* takes over stripe_subscription_id, and that while writers keep out of   *)
(* each other's way no payment is lost and the plan comes to be Stripe's.  *)
(***************************************************************************)
EXTENDS Billing, TLAPS

Hooked == [at : {"link", "fetch", "apply"}, seen : Columns, event : Event]
Asked == [at : {"subscribe"}, customer : Customers]
Comping == [at : {"set"}, seen : {"free", "pro"}, plan : {"free", "pro"}]

(* What a task carries, by where it is.                                     *)
LEMMA TaskShape ==
  ASSUME NEW t \in Task
  PROVE  /\ t.at = "subscribe" => t \in Asked
         /\ t.at \in {"link", "fetch", "apply"} => t \in Hooked
         /\ t.at = "set" => t \in Comping
<1>1. CASE t = Idle
  BY <1>1 DEF Idle
<1>2. CASE t \in [at : {"customer"}]
  BY <1>2
<1>3. CASE t \in Asked
  BY <1>3 DEF Asked
<1>4. CASE t \in Hooked
  BY <1>4 DEF Hooked
<1>5. CASE t \in Comping
  BY <1>5 DEF Comping
<1> QED
  BY <1>1, <1>2, <1>3, <1>4, <1>5 DEF Task, Hooked, Asked, Comping

(* The writes the tasks make keep the row typed.                            *)
LEMMA RowTyped ==
  ASSUME NEW row \in Account, NEW c \in Customers \cup {None}, NEW s \in Subs \cup {None},
         NEW p \in {"free", "pro"}
  PROVE  /\ [row EXCEPT !.customer = c] \in Account
         /\ [row EXCEPT !.sub = s, !.plan = p] \in Account
         /\ [row EXCEPT !.plan = p] \in Account
BY DEF Account

(* What Stripe's side and its events are made of.                           *)
LEMMA StripeTyped ==
  ASSUME NEW st \in Subscription, NEW s \in Subs, NEW x \in Status, NEW n \in 0..MaxChanges,
         NEW y \in {"pending", "active", "over"}, NEW k \in {"sub", "checkout"}
  PROVE  /\ [st EXCEPT !.status = x, !.ver = n] \in Subscription
         /\ [kind |-> k, sub |-> s, status |-> y, ver |-> n] \in Event
BY DEF Subscription, Event

(* Every event and every task in flight is about a paid subscription,       *)
(* unless it is a pending one, which no handler loads.                      *)
PaidInv ==
  /\ NothingUnpaidGrants
  /\ \A e \in sent : (e.status # "pending" \/ e.kind = "checkout") => e.sub \in paid
  /\ \A s \in Subs : stripe[s].status \in {"active", "over"} <=> s \in paid
  /\ \A t \in Tasks : task[t].at \in {"link", "fetch", "apply"} => task[t].event.sub \in paid

Inv == TypeOK /\ PaidInv

LEMMA InitInv == Init => Inv
<1> SUFFICES ASSUME Init PROVE Inv
  OBVIOUS
<1>1. acct \in Account
  BY DEF Init, Account
<1>2. task \in [Tasks -> Task] /\ \A t \in Tasks : task[t].at = "idle"
  BY DEF Init, Task, Idle
<1>3. stripe \in [Subs -> Subscription] /\ \A s \in Subs : stripe[s].status = "none"
  BY BoundsAreNat DEF Init, Subscription, Status
<1>4. 0 \in 0..MaxChanges /\ 0 \in 0..MaxFaults
  BY BoundsAreNat
<1>5. NothingUnpaidGrants
  BY DEF Init, NothingUnpaidGrants
<1> QED
  BY <1>1, <1>2, <1>3, <1>4, <1>5 DEF Init, Inv, TypeOK, PaidInv

(* The requests.                                                            *)
LEMMA RequestInv ==
  ASSUME Inv, NEW r \in Requests, Request(r)
  PROVE  Inv'
<1> USE DEF Inv
<1>t. r \in Tasks /\ task[r] \in Task /\ acct \in Account
  BY DEF TypeOK, Tasks
<1>g. ASSUME NEW next \in Task, next.at \notin {"link", "fetch", "apply"}, Goto(r, next)
      PROVE  /\ task' \in [Tasks -> Task]
             /\ \A t \in Tasks : task'[t].at \in {"link", "fetch", "apply"} => task'[t] = task[t]
  BY <1>g, <1>t DEF TypeOK, Goto
<1>i. Idle \in Task /\ Idle.at = "idle"
  BY DEF Task, Idle
<1>s. ASSUME NEW row \in Account, row.customer # None
      PROVE  AtSubscribe(row) \in Task /\ AtSubscribe(row).at = "subscribe"
  BY <1>s DEF AtSubscribe, Task, Account
<1>1. CASE ReadRow(r)
  <2>1. [at |-> "customer"] \in Task
    BY DEF Task
  <2>2. task' \in [Tasks -> Task]
        /\ \A t \in Tasks : task'[t].at \in {"link", "fetch", "apply"} => task'[t] = task[t]
    BY <1>1, <1>t, <1>g, <1>s, <2>1 DEF ReadRow
  <2> QED
    BY <1>1, <2>2 DEF ReadRow, TypeOK, PaidInv, NothingUnpaidGrants
<1>2. CASE EnsureCustomer(r)
  <2>1. PICK c \in Customers : acct' = [acct EXCEPT !.customer = c]
    BY <1>2 DEF EnsureCustomer
  <2>2. acct' \in Account /\ acct'.customer = c /\ acct'.sub = acct.sub /\ acct'.plan = acct.plan
    BY <2>1, <1>t DEF Account
  <2>3. AtSubscribe(acct') \in Task /\ AtSubscribe(acct').at = "subscribe"
    BY <2>2, NoneIsNoId DEF AtSubscribe, Task, Account
  <2>4. task' \in [Tasks -> Task]
        /\ \A t \in Tasks : task'[t].at \in {"link", "fetch", "apply"} => task'[t] = task[t]
    BY <1>2, <1>g, <2>3 DEF EnsureCustomer
  <2> QED
    BY <1>2, <2>2, <2>4 DEF EnsureCustomer, TypeOK, PaidInv, NothingUnpaidGrants
<1>3. ASSUME NEW s \in Subs, CreateSubscription(r, s) \/ StartCheckout(r, s)
      PROVE  Inv'
  <2>1. task' \in [Tasks -> Task]
        /\ \A t \in Tasks : task'[t].at \in {"link", "fetch", "apply"} => task'[t] = task[t]
    BY <1>3, <1>g, <1>i DEF CreateSubscription, StartCheckout
  <2>2. task[r].customer \in Customers
    BY <1>3, <1>t, TaskShape DEF CreateSubscription, StartCheckout, Asked
  <2>3. \A x \in {"pending", "open"} :
          Opened(r, x) \in Subscription /\ Opened(r, x).status = x /\ Opened(r, x).ver = 0
    BY <2>2, BoundsAreNat DEF Opened, Subscription, Status
  <2>4. stripe' \in [Subs -> Subscription]
        /\ (\A u \in Subs \ {s} : stripe'[u] = stripe[u])
        /\ stripe'[s].status \in {"pending", "open"} /\ stripe[s].status = "none"
        /\ stripe'[s].ver = 0
        /\ (CreateSubscription(r, s) => stripe'[s].status = "pending")
    BY <1>3, <2>3 DEF CreateSubscription, StartCheckout, TypeOK
  <2>5. s \notin paid
    BY <2>4 DEF PaidInv
  <2>6. \A e \in sent' \ sent : e \in Event /\ e.status = "pending" /\ e.kind = "sub"
    BY <1>3, <2>4, BoundsAreNat DEF CreateSubscription, StartCheckout, SubEvent, Event
  <2>7. sent \subseteq sent' /\ sent' \subseteq Event /\ done \subseteq sent'
    BY <1>3, <2>6 DEF CreateSubscription, StartCheckout, TypeOK
  <2>8. UNCHANGED <<acct, done, faults, paid, changes, applied, disorder, comped>>
    BY <1>3 DEF CreateSubscription, StartCheckout
  <2>9. TypeOK'
    BY <2>1, <2>4, <2>7, <2>8 DEF TypeOK
  <2>10. PaidInv'
    BY <2>1, <2>4, <2>5, <2>6, <2>8 DEF PaidInv, NothingUnpaidGrants
  <2> QED
    BY <2>9, <2>10
<1>4. CASE GiveUp(r)
  <2>1. task' \in [Tasks -> Task]
        /\ \A t \in Tasks : task'[t].at \in {"link", "fetch", "apply"} => task'[t] = task[t]
    BY <1>4, <1>g, <1>i DEF GiveUp
  <2> QED
    BY <1>4, <2>1 DEF GiveUp, TypeOK, PaidInv, NothingUnpaidGrants
<1> QED
  BY <1>1, <1>2, <1>3, <1>4 DEF Request

(* Stripe's changes.                                                        *)
LEMMA StripeInv ==
  ASSUME Inv, NEW s \in Subs, Confirm(s) \/ End(s) \/ Resume(s)
  PROVE  Inv'
<1> USE DEF Inv
<1>1. stripe' \in [Subs -> Subscription] /\ changes' \in 0..MaxChanges
      /\ (\A u \in Subs \ {s} : stripe'[u] = stripe[u])
      /\ stripe'[s].status \in {"active", "over"} /\ stripe'[s].ver \in 0..MaxChanges
  <2>1. changes + 1 \in 0..MaxChanges /\ changes' = changes + 1
    BY BoundsAreNat DEF Confirm, End, Resume, Becomes, TypeOK
  <2>2. ASSUME NEW x \in {"active", "over"}, Becomes(s, x)
        PROVE  stripe' \in [Subs -> Subscription]
            /\ (\A u \in Subs \ {s} : stripe'[u] = stripe[u])
            /\ stripe'[s].status = x /\ stripe'[s].ver = changes'
    <3>1. stripe[s] \in Subscription /\ x \in Status /\ changes' \in 0..MaxChanges
      BY <2>1 DEF TypeOK, Status
    <3>2. /\ [stripe[s] EXCEPT !.status = x, !.ver = changes'] \in Subscription
          /\ [stripe[s] EXCEPT !.status = x, !.ver = changes'].status = x
          /\ [stripe[s] EXCEPT !.status = x, !.ver = changes'].ver = changes'
      BY <3>1 DEF Subscription
    <3>3. stripe' = [stripe EXCEPT ![s] = [stripe[s] EXCEPT !.status = x, !.ver = changes']]
      BY <2>2 DEF Becomes, TypeOK
    <3> QED
      BY <3>2, <3>3 DEF TypeOK
  <2> QED
    BY <2>1, <2>2 DEF Confirm, End, Resume
<1>2. \A e \in sent' \ sent : e \in Event /\ e.sub = s
  BY <1>1 DEF Confirm, End, Resume, SubEvent, Event
<1>3. sent \subseteq sent' /\ sent' \subseteq Event /\ done \subseteq sent'
  BY <1>2 DEF Confirm, End, Resume, TypeOK
<1>4. s \in paid' /\ paid' = paid \cup {s}
  BY DEF Confirm, End, Resume, PaidInv
<1>5. UNCHANGED <<acct, task, done, faults, applied, disorder, comped>>
  BY DEF Confirm, End, Resume
<1>6. TypeOK'
  BY <1>1, <1>3, <1>4, <1>5 DEF TypeOK
<1>7. PaidInv'
  <2>1. NothingUnpaidGrants'
    BY <1>4, <1>5 DEF PaidInv, NothingUnpaidGrants
  <2>2. \A e \in sent' : (e.status # "pending" \/ e.kind = "checkout") => e.sub \in paid'
    BY <1>2, <1>4 DEF PaidInv
  <2>3. \A u \in Subs : stripe'[u].status \in {"active", "over"} <=> u \in paid'
    BY <1>1, <1>4 DEF PaidInv
  <2>4. \A t \in Tasks : task'[t].at \in {"link", "fetch", "apply"} => task'[t].event.sub \in paid'
    BY <1>4, <1>5 DEF PaidInv
  <2> QED
    BY <2>1, <2>2, <2>3, <2>4 DEF PaidInv
<1> QED
  BY <1>6, <1>7
(* The webhooks.                                                            *)
LEMMA HookInv ==
  ASSUME Inv, NEW h \in Hooks, (\E e \in sent : Deliver(h, e)) \/ Handle(h) \/ Raise(h)
  PROVE  Inv'
<1> USE DEF Inv
<1>t. h \in Tasks /\ task[h] \in Task /\ acct \in Account
  BY DEF TypeOK, Tasks
<1>g. ASSUME NEW next \in Task, Goto(h, next),
             next.at \in {"link", "fetch", "apply"} => next.event.sub \in paid
      PROVE  /\ task' \in [Tasks -> Task]
             /\ \A t \in Tasks : task'[t].at \in {"link", "fetch", "apply"}
                                  => task'[t].event.sub \in paid
  BY <1>g, <1>t DEF TypeOK, Goto, PaidInv
<1>i. Idle \in Task /\ Idle.at = "idle"
  BY DEF Task, Idle
<1>h. Hooked \subseteq Task
  BY DEF Hooked, Task
<1>s. Seen \in Columns
  BY <1>t DEF Seen, Columns, Account
<1>1. ASSUME NEW e \in sent, Ignore(h, e) PROVE Inv'
  BY <1>1 DEF Ignore, Answer, TypeOK, PaidInv, NothingUnpaidGrants
<1>2. ASSUME NEW e \in sent, Load(h, e) \/ LoadCheckout(h, e) PROVE Inv'
  <2>1. e \in Event /\ e.sub \in paid
    BY <1>2 DEF Load, LoadCheckout, TypeOK, PaidInv, Pending
  <2>2. PICK a \in {"link", "fetch", "apply"} : Goto(h, [at |-> a, seen |-> Seen, event |-> e])
    BY <1>2 DEF Load, LoadCheckout
  <2>3. [at |-> a, seen |-> Seen, event |-> e] \in Hooked
    BY <2>1, <1>s DEF Hooked
  <2>4. task' \in [Tasks -> Task]
        /\ \A t \in Tasks : task'[t].at \in {"link", "fetch", "apply"}
                             => task'[t].event.sub \in paid
    BY <1>g, <1>h, <2>1, <2>2, <2>3
  <2>5. disorder' \in BOOLEAN
    BY <1>2 DEF Load, LoadCheckout
  <2>6. UNCHANGED <<acct, stripe, sent, done, faults, paid, changes, applied, comped>>
    BY <1>2 DEF Load, LoadCheckout
  <2> QED
    BY <2>4, <2>5, <2>6 DEF TypeOK, PaidInv, NothingUnpaidGrants
<1>3. CASE Link(h)
  <2>1. task[h] \in Hooked /\ task[h].event.sub \in paid /\ task[h].event.sub \in Subs
    BY <1>3, <1>t, TaskShape DEF Link, PaidInv, Hooked, Event
  <2>2. [task[h] EXCEPT !.at = "fetch"] \in Hooked
        /\ [task[h] EXCEPT !.at = "fetch"].event.sub \in paid
    BY <2>1 DEF Hooked
  <2>3. task' \in [Tasks -> Task]
        /\ \A t \in Tasks : task'[t].at \in {"link", "fetch", "apply"}
                             => task'[t].event.sub \in paid
    BY <1>3, <1>g, <1>h, <2>2 DEF Link
  <2>4. stripe[task[h].event.sub].customer \in Customers \cup {None}
    BY <2>1 DEF TypeOK, Subscription
  <2>5. acct' \in Account /\ acct'.plan = acct.plan /\ acct'.sub = acct.sub
    BY <1>3, <1>t, <2>4 DEF Link, Account
  <2> QED
    BY <1>3, <2>3, <2>5 DEF Link, TypeOK, PaidInv, NothingUnpaidGrants
<1>4. CASE Fetch(h)
  <2> DEFINE s == task[h].event.sub
  <2>1. task[h] \in Hooked /\ s \in paid /\ s \in Subs
    BY <1>4, <1>t, TaskShape DEF Fetch, PaidInv, Hooked, Event
  <2>2. stripe[s].status \in {"active", "over"} /\ stripe[s].ver \in 0..MaxChanges
    BY <2>1 DEF PaidInv, TypeOK, Subscription
  <2> DEFINE next == [task[h] EXCEPT !.at = "apply", !.event.status = stripe[s].status,
                                     !.event.ver = stripe[s].ver]
  <2>3. next \in Hooked /\ next.event.sub = s
    <3>1. ASSUME NEW t \in Hooked, NEW x \in {"active", "over"}, NEW n \in 0..MaxChanges
          PROVE  [t EXCEPT !.at = "apply", !.event.status = x, !.event.ver = n] \in Hooked
                 /\ [t EXCEPT !.at = "apply", !.event.status = x, !.event.ver = n].event.sub
                      = t.event.sub
      BY DEF Hooked, Event
    <3> QED
      BY <3>1, <2>1, <2>2
  <2>4. task' \in [Tasks -> Task]
        /\ \A t \in Tasks : task'[t].at \in {"link", "fetch", "apply"}
                             => task'[t].event.sub \in paid
    <3>1. Goto(h, next)
      BY <1>4 DEF Fetch
    <3> HIDE DEF next
    <3> QED
      BY <3>1, <1>g, <1>h, <2>1, <2>3
  <2> QED
    BY <1>4, <2>4 DEF Fetch, TypeOK, PaidInv, NothingUnpaidGrants
<1>5. CASE Apply(h)
  <2> DEFINE e == task[h].event
             seen == task[h].seen
             sub == Put(e.sub, seen.sub, acct.sub)
             plan == Put(PlanFor(e.status), seen.plan, acct.plan)
  <2>1. task[h] \in Hooked /\ e.sub \in paid /\ e.sub \in Subs /\ e.ver \in 0..MaxChanges
    BY <1>5, <1>t, TaskShape DEF Apply, PaidInv, Hooked, Event
  <2>2. sub \in Subs \cup {None} /\ plan \in {"free", "pro"} /\ sub \in {e.sub, acct.sub}
    BY <2>1, <1>t DEF Put, PlanFor, Account
  <2>4. acct' = [acct EXCEPT !.sub = sub, !.plan = plan]
    BY <1>5 DEF Apply
  <2>5. acct' \in Account /\ acct'.sub = sub
    <3> HIDE DEF sub, plan
    <3> QED
      BY <1>t, <2>2, <2>4, RowTyped DEF Account
  <2>6. task' \in [Tasks -> Task]
        /\ \A t \in Tasks : task'[t].at \in {"link", "fetch", "apply"}
                             => task'[t].event.sub \in paid
    BY <1>5, <1>g, <1>i DEF Apply
  <2>7. applied' \in 0..MaxChanges
    BY <1>5, <2>1 DEF Apply, TypeOK
  <2>8. done' \subseteq sent
    BY <1>5 DEF Apply, Answered, TypeOK
  <2>9. disorder' \in BOOLEAN
    BY <1>5 DEF Apply
  <2>10. NothingUnpaidGrants'
    BY <1>5, <2>1, <2>2, <2>5 DEF Apply, NothingUnpaidGrants, PaidInv
  <2> QED
    BY <1>5, <2>5, <2>6, <2>7, <2>8, <2>9, <2>10 DEF Apply, TypeOK, PaidInv
<1>6. CASE Raise(h)
  <2>1. task' \in [Tasks -> Task]
        /\ \A t \in Tasks : task'[t].at \in {"link", "fetch", "apply"}
                             => task'[t].event.sub \in paid
    BY <1>6, <1>g, <1>i DEF Raise
  <2>2. faults' \in 0..MaxFaults /\ done' = done
    BY <1>6, BoundsAreNat DEF Raise, TypeOK, Acknowledged
  <2> QED
    BY <1>6, <2>1, <2>2 DEF Raise, TypeOK, PaidInv, NothingUnpaidGrants
<1> QED
  BY <1>1, <1>2, <1>3, <1>4, <1>5, <1>6 DEF Deliver, Handle

(* The admin.                                                               *)
LEMMA AdminInv ==
  ASSUME Inv, NEW a \in Admins, (\E plan \in {"free", "pro"} : ReadTarget(a, plan)) \/ SetPlan(a)
  PROVE  Inv'
<1> USE DEF Inv
<1>t. a \in Tasks /\ task[a] \in Task /\ acct \in Account
  BY DEF TypeOK, Tasks
<1>g. ASSUME NEW next \in Task, next.at \notin {"link", "fetch", "apply"}, Goto(a, next)
      PROVE  /\ task' \in [Tasks -> Task]
             /\ \A t \in Tasks : task'[t].at \in {"link", "fetch", "apply"} => task'[t] = task[t]
  BY <1>g, <1>t DEF TypeOK, Goto
<1>1. ASSUME NEW plan \in {"free", "pro"}, ReadTarget(a, plan) PROVE Inv'
  <2>1. [at |-> "set", seen |-> acct.plan, plan |-> plan] \in Task
    BY <1>t DEF Task, Account
  <2>2. task' \in [Tasks -> Task]
        /\ \A t \in Tasks : task'[t].at \in {"link", "fetch", "apply"} => task'[t] = task[t]
    BY <1>1, <1>g, <2>1 DEF ReadTarget
  <2>3. disorder' \in BOOLEAN
    BY <1>1 DEF ReadTarget
  <2> QED
    BY <1>1, <2>2, <2>3 DEF ReadTarget, TypeOK, PaidInv, NothingUnpaidGrants
<1>2. CASE SetPlan(a)
  <2> DEFINE plan == Put(task[a].plan, task[a].seen, acct.plan)
  <2>1. task[a] \in Comping
    BY <1>2, <1>t, TaskShape DEF SetPlan
  <2>2. plan \in {"free", "pro"}
    BY <2>1, <1>t DEF Put, Comping, Account
  <2>4. acct' = [acct EXCEPT !.plan = plan]
    BY <1>2 DEF SetPlan
  <2>5. acct' \in Account /\ acct'.sub = acct.sub
    <3> HIDE DEF plan
    <3> QED
      BY <1>t, <2>2, <2>4 DEF Account
  <2>6. Idle \in Task /\ Idle.at = "idle"
    BY DEF Task, Idle
  <2>7. task' \in [Tasks -> Task]
        /\ \A t \in Tasks : task'[t].at \in {"link", "fetch", "apply"} => task'[t] = task[t]
    BY <1>2, <1>g, <2>6 DEF SetPlan
  <2>8. disorder' \in BOOLEAN /\ comped' = TRUE
    BY <1>2 DEF SetPlan
  <2> QED
    BY <1>2, <2>5, <2>7, <2>8 DEF SetPlan, TypeOK, PaidInv, NothingUnpaidGrants
<1> QED
  BY <1>1, <1>2

LEMMA StepInv == Inv /\ [Next]_vars => Inv'
<1> SUFFICES ASSUME Inv, [Next]_vars PROVE Inv'
  OBVIOUS
<1>1. CASE UNCHANGED vars
  BY <1>1 DEF vars, Inv, TypeOK, PaidInv, NothingUnpaidGrants
<1> QED
  BY <1>1, RequestInv, StripeInv, HookInv, AdminInv DEF Next

(* The type invariant holds in every behaviour of the member's billing.     *)
THEOREM TypeCorrect == Spec => []TypeOK
<1>1. Inv => TypeOK
  BY DEF Inv
<1> QED
  BY <1>1, InitInv, StepInv, PTL DEF Spec

(* Whatever is delivered, in whatever order and however often, Pro comes    *)
(* from a paid subscription or a comp, and the row never names a            *)
(* subscription nobody has paid for.                                        *)
THEOREM PaidGrants == Spec => []NothingUnpaidGrants
<1>1. Inv => NothingUnpaidGrants
  BY DEF Inv, PaidInv
<1> QED
  BY <1>1, InitInv, StepInv, PTL DEF Spec

----------------------------------------------------------------------------
(* What Stripe has said.  Each change has a number of its own, so events    *)
(* with one number agree; the latest change of a paid subscription has been *)
(* announced; and what a handler is about to apply is an announced change.  *)
AsSub(e) == [e EXCEPT !.kind = "sub"]
Agree(events) == \A e, f \in events : e.ver = f.ver /\ e.ver > 0 => e.status = f.status

EventsInv ==
  /\ \A e \in sent : /\ e.ver <= changes /\ AsSub(e) \in sent
                     /\ ~Pending(e.status) => e.ver > 0
  /\ Agree(sent)
  /\ \A s \in paid : SubEvent(s, stripe[s]) \in sent /\ stripe[s].ver > 0
  /\ \A s \in paid : paid = {s} => stripe[s].ver = changes
  /\ \A h \in Hooks : task[h].at = "apply" =>
       AsSub(task[h].event) \in sent /\ task[h].event.ver > 0

LEMMA AsSubOf ==
  ASSUME NEW e \in Event
  PROVE  /\ AsSub(e) = [kind |-> "sub", sub |-> e.sub, status |-> e.status, ver |-> e.ver]
         /\ e.kind = "sub" => AsSub(e) = e
BY DEF AsSub, Event

(* A step of a request, a webhook or an admin that opens no subscription and*)
(* brings no handler to the point of applying.                              *)
LEMMA EventsQuiet ==
  ASSUME EventsInv, UNCHANGED <<stripe, sent, paid, changes>>,
         \A h \in Hooks : task'[h].at = "apply" => task'[h] = task[h]
  PROVE  EventsInv'
BY DEF EventsInv, Agree, Pending, SubEvent, AsSub

(* What a move of one task leaves of the others.                            *)
LEMMA GotoEffect ==
  ASSUME TypeOK, NEW t \in Tasks, NEW next, Goto(t, next)
  PROVE  task'[t] = next /\ \A u \in Tasks \ {t} : task'[u] = task[u]
BY DEF Goto, TypeOK

(* A request opens a subscription: pending, or a checkout nobody announces. *)
LEMMA OpenEffect ==
  ASSUME Inv, NEW r \in Requests, NEW s \in Subs, CreateSubscription(r, s) \/ StartCheckout(r, s)
  PROVE  /\ \A u \in Subs \ {s} : stripe'[u] = stripe[u]
         /\ stripe'[s].customer = task[r].customer /\ task[r].customer \in Customers
         /\ s \notin paid
         /\ \A e \in sent' \ sent : e \in Event /\ e.kind = "sub" /\ e.status = "pending" /\ e.ver = 0
         /\ sent \subseteq sent'
<1>1. task[r] \in Task /\ task[r].at = "subscribe" /\ stripe[s].status = "none"
  BY DEF CreateSubscription, StartCheckout, Inv, TypeOK, Tasks
<1>2. task[r].customer \in Customers
  BY <1>1, TaskShape DEF Asked
<1>3. PICK x \in {"pending", "open"} :
        /\ stripe' = [stripe EXCEPT ![s] = Opened(r, x)]
        /\ sent' \ sent \subseteq {SubEvent(s, stripe'[s])}
        /\ sent' # sent => x = "pending"
  BY DEF CreateSubscription, StartCheckout
<1>4. stripe'[s] = Opened(r, x) /\ \A u \in Subs \ {s} : stripe'[u] = stripe[u]
  BY <1>3 DEF Inv, TypeOK
<1>5. \A e \in sent' \ sent : e \in Event /\ e.kind = "sub" /\ e.status = "pending" /\ e.ver = 0
  BY <1>3, <1>4, BoundsAreNat DEF SubEvent, Opened, Event
<1> QED
  BY <1>1, <1>2, <1>4, <1>5 DEF Opened, Inv, PaidInv, CreateSubscription, StartCheckout

(* Stripe changes a subscription and announces it under the next number.    *)
LEMMA ChangeEffect ==
  ASSUME Inv, NEW s \in Subs, Confirm(s) \/ End(s) \/ Resume(s)
  PROVE  /\ changes' = changes + 1 /\ changes \in Nat
         /\ \A u \in Subs \ {s} : stripe'[u] = stripe[u]
         /\ stripe'[s].customer = stripe[s].customer /\ stripe[s].status # "none"
         /\ stripe'[s].ver = changes' /\ stripe'[s].status \in {"active", "over"}
         /\ paid' = paid \cup {s} /\ (s \in paid \/ stripe[s].status \in {"open", "pending"})
         /\ SubEvent(s, stripe'[s]) \in sent' /\ sent \subseteq sent'
         /\ \A e \in sent' \ sent : /\ e \in Event /\ AsSub(e) = SubEvent(s, stripe'[s])
                                    /\ e.ver = changes' /\ e.status = stripe'[s].status
<1>1. changes \in Nat /\ changes + 1 \in 0..MaxChanges /\ changes' = changes + 1
  BY BoundsAreNat DEF Confirm, End, Resume, Becomes, Inv, TypeOK
<1>2. PICK x \in {"active", "over"} : Becomes(s, x)
  BY DEF Confirm, End, Resume
<1>3. stripe[s] \in Subscription
  BY DEF Inv, TypeOK
<1>4. stripe' = [stripe EXCEPT ![s] = [stripe[s] EXCEPT !.status = x, !.ver = changes']]
  BY <1>2 DEF Becomes, Inv, TypeOK
<1>5. /\ \A u \in Subs \ {s} : stripe'[u] = stripe[u]
      /\ stripe'[s].customer = stripe[s].customer
      /\ stripe'[s].ver = changes' /\ stripe'[s].status = x
  BY <1>3, <1>4 DEF Inv, TypeOK, Subscription
<1>6. SubEvent(s, stripe'[s]) \in Event
      /\ SubEvent(s, stripe'[s]) = [kind |-> "sub", sub |-> s, status |-> x, ver |-> changes']
  BY <1>1, <1>5 DEF SubEvent, Event
<1>7. SubEvent(s, stripe'[s]) \in sent' /\ sent \subseteq sent'
      /\ sent' \ sent \subseteq {SubEvent(s, stripe'[s]),
                                 [SubEvent(s, stripe'[s]) EXCEPT !.kind = "checkout"]}
  BY DEF Confirm, End, Resume
<1>8. ASSUME NEW e \in sent' \ sent
      PROVE  /\ e \in Event /\ AsSub(e) = SubEvent(s, stripe'[s])
             /\ e.ver = changes' /\ e.status = x
  <2>1. CASE e = SubEvent(s, stripe'[s])
    BY <1>6, <2>1, AsSubOf
  <2>2. CASE e = [kind |-> "checkout", sub |-> s, status |-> x, ver |-> changes']
    <3>1. e \in Event
      BY <1>1, <2>2 DEF Event
    <3> QED
      BY <1>6, <2>2, <3>1, AsSubOf
  <2> QED
    BY <1>6, <1>7, <2>1, <2>2
<1>9. paid' = paid \cup {s} /\ (s \in paid \/ stripe[s].status \in {"open", "pending"})
      /\ stripe[s].status # "none"
  BY DEF Confirm, End, Resume, Inv, PaidInv
<1> QED
  BY <1>1, <1>5, <1>7, <1>8, <1>9

LEMMA EventsStep == Inv /\ EventsInv /\ [Next]_vars => EventsInv'
<1> SUFFICES ASSUME Inv, EventsInv, [Next]_vars PROVE EventsInv'
  OBVIOUS
<1>t. TypeOK /\ PaidInv /\ Hooks \subseteq Tasks /\ Requests \subseteq Tasks /\ Admins \subseteq Tasks
      /\ Requests \cap Hooks = {} /\ Hooks \cap Admins = {}
  BY TasksDiffer DEF Inv, Tasks
<1>1. CASE UNCHANGED vars
  BY <1>1, EventsQuiet DEF vars
<1>2. ASSUME NEW r \in Requests, ReadRow(r) \/ EnsureCustomer(r) \/ GiveUp(r) PROVE EventsInv'
  <2>1. \A h \in Hooks : task'[h] = task[h]
    BY <1>2, <1>t, GotoEffect DEF ReadRow, EnsureCustomer, GiveUp
  <2> QED
    BY <1>2, <2>1, EventsQuiet DEF ReadRow, EnsureCustomer, GiveUp
<1>3. ASSUME NEW r \in Requests, NEW s \in Subs, CreateSubscription(r, s) \/ StartCheckout(r, s)
      PROVE  EventsInv'
  <2>1. UNCHANGED <<paid, changes>> /\ \A h \in Hooks : task'[h] = task[h]
    BY <1>3, <1>t, GotoEffect DEF CreateSubscription, StartCheckout
  <2>2. /\ \A u \in Subs \ {s} : stripe'[u] = stripe[u]
        /\ s \notin paid /\ sent \subseteq sent'
        /\ \A e \in sent' \ sent : e \in Event /\ e.kind = "sub" /\ e.status = "pending" /\ e.ver = 0
    BY <1>3, OpenEffect
  <2>3. ASSUME NEW e \in sent'
        PROVE  e.ver <= changes' /\ AsSub(e) \in sent' /\ (~Pending(e.status) => e.ver > 0)
    BY <2>1, <2>2, <1>t, AsSubOf DEF EventsInv, Pending, TypeOK
  <2>4. Agree(sent')
    BY <2>2 DEF EventsInv, Agree
  <2>5. ASSUME NEW u \in paid'
        PROVE  /\ SubEvent(u, stripe'[u]) \in sent' /\ stripe'[u].ver > 0
               /\ paid' = {u} => stripe'[u].ver = changes'
    BY <2>1, <2>2, <1>t DEF EventsInv, TypeOK, SubEvent
  <2> QED
    BY <2>1, <2>2, <2>3, <2>4, <2>5 DEF EventsInv, Pending, Agree
<1>4. ASSUME NEW s \in Subs, Confirm(s) \/ End(s) \/ Resume(s) PROVE EventsInv'
  <2>1. /\ changes' = changes + 1 /\ changes \in Nat
        /\ \A u \in Subs \ {s} : stripe'[u] = stripe[u]
        /\ stripe'[s].ver = changes' /\ stripe'[s].status \in {"active", "over"}
        /\ paid' = paid \cup {s}
        /\ SubEvent(s, stripe'[s]) \in sent' /\ sent \subseteq sent'
        /\ \A e \in sent' \ sent : /\ e \in Event /\ AsSub(e) = SubEvent(s, stripe'[s])
                                   /\ e.ver = changes' /\ e.status = stripe'[s].status
    BY <1>4, ChangeEffect
  <2>2. \A e \in sent : e.ver \in Nat /\ e.ver <= changes
    BY <1>t, BoundsAreNat DEF EventsInv, TypeOK, Event
  <2>3. ASSUME NEW e \in sent'
        PROVE  e.ver <= changes' /\ AsSub(e) \in sent' /\ (~Pending(e.status) => e.ver > 0)
    BY <2>1, <2>2 DEF EventsInv
  <2>4. Agree(sent')
    BY <2>1, <2>2 DEF EventsInv, Agree
  <2>5. ASSUME NEW u \in paid'
        PROVE  /\ SubEvent(u, stripe'[u]) \in sent' /\ stripe'[u].ver > 0
               /\ paid' = {u} => stripe'[u].ver = changes'
    BY <2>1, <1>t DEF EventsInv, TypeOK, SubEvent
  <2>6. task' = task
    BY <1>4 DEF Confirm, End, Resume
  <2> QED
    BY <2>1, <2>3, <2>4, <2>5, <2>6 DEF EventsInv, Pending, Agree, AsSub
<1>5. ASSUME NEW h \in Hooks, NEW e \in sent, Ignore(h, e) PROVE EventsInv'
  BY <1>5, EventsQuiet DEF Ignore
<1>6. ASSUME NEW h \in Hooks, NEW e \in sent, Load(h, e) PROVE EventsInv'
  <2>1. task'[h] = [at |-> "apply", seen |-> Seen, event |-> e]
        /\ \A u \in Hooks \ {h} : task'[u] = task[u]
    BY <1>6, <1>t, GotoEffect DEF Load
  <2>2. AsSub(e) \in sent /\ e.ver > 0
    BY <1>6 DEF Load, EventsInv
  <2>3. UNCHANGED <<stripe, sent, paid, changes>>
    BY <1>6 DEF Load
  <2> QED
    BY <2>1, <2>2, <2>3 DEF EventsInv, Pending, Agree, AsSub, SubEvent
<1>7. ASSUME NEW h \in Hooks, NEW e \in sent, LoadCheckout(h, e) PROVE EventsInv'
  <2>1. task'[h].at # "apply" /\ \A u \in Hooks \ {h} : task'[u] = task[u]
    BY <1>7, <1>t, GotoEffect DEF LoadCheckout
  <2> QED
    BY <1>7, <2>1, EventsQuiet DEF LoadCheckout
<1>8. ASSUME NEW h \in Hooks, Link(h) PROVE EventsInv'
  <2>1. task[h] \in Hooked
    BY <1>8, <1>t, TaskShape DEF Link, TypeOK
  <2>2. task'[h].at # "apply" /\ \A u \in Hooks \ {h} : task'[u] = task[u]
    BY <1>8, <1>t, <2>1, GotoEffect DEF Link, Hooked
  <2> QED
    BY <1>8, <2>2, EventsQuiet DEF Link
<1>9. ASSUME NEW h \in Hooks, Fetch(h) PROVE EventsInv'
  <2> DEFINE s == task[h].event.sub
             next == [task[h] EXCEPT !.at = "apply", !.event.status = stripe[s].status,
                                     !.event.ver = stripe[s].ver]
  <2>1. task[h] \in Hooked /\ s \in paid /\ s \in Subs
    BY <1>9, <1>t, TaskShape DEF Fetch, TypeOK, PaidInv, Hooked, Event
  <2>2. task'[h] = next /\ \A u \in Hooks \ {h} : task'[u] = task[u]
    BY <1>9, <1>t, GotoEffect DEF Fetch
  <2>3. AsSub(next.event) = SubEvent(s, stripe[s]) /\ next.event.ver = stripe[s].ver
    <3>1. stripe[s].status \in {"active", "over"} /\ stripe[s].ver \in 0..MaxChanges
      BY <1>t, <2>1 DEF PaidInv, TypeOK, Subscription
    <3>2. ASSUME NEW t \in Hooked
          PROVE  [t EXCEPT !.at = "apply", !.event.status = stripe[s].status,
                           !.event.ver = stripe[s].ver].event
                   = [t.event EXCEPT !.status = stripe[s].status, !.ver = stripe[s].ver]
      BY DEF Hooked, Event
    <3>3. ASSUME NEW e \in Event
          PROVE  LET new == [e EXCEPT !.status = stripe[s].status, !.ver = stripe[s].ver]
                 IN  /\ new \in Event /\ new.sub = e.sub
                     /\ new.status = stripe[s].status /\ new.ver = stripe[s].ver
      BY <3>1 DEF Event
    <3>4. next.event = [task[h].event EXCEPT !.status = stripe[s].status, !.ver = stripe[s].ver]
      BY <2>1, <3>2
    <3>5. task[h].event \in Event
      BY <2>1 DEF Hooked
    <3> HIDE DEF next
    <3>6. /\ next.event \in Event /\ next.event.sub = s
          /\ next.event.status = stripe[s].status /\ next.event.ver = stripe[s].ver
      BY <3>3, <3>4, <3>5
    <3> QED
      BY <3>6, AsSubOf DEF SubEvent
  <2>4. AsSub(next.event) \in sent /\ next.event.ver > 0
    BY <2>1, <2>3 DEF EventsInv
  <2>5. UNCHANGED <<stripe, sent, paid, changes>>
    BY <1>9 DEF Fetch
  <2> HIDE DEF next
  <2> QED
    BY <2>2, <2>4, <2>5 DEF EventsInv, Pending, Agree, AsSub, SubEvent
<1>10. ASSUME NEW h \in Hooks, Apply(h) \/ Raise(h) PROVE EventsInv'
  <2>1. task'[h] = Idle /\ \A u \in Hooks \ {h} : task'[u] = task[u]
    BY <1>10, <1>t, GotoEffect DEF Apply, Raise
  <2>2. UNCHANGED <<stripe, sent, paid, changes>>
    BY <1>10 DEF Apply, Raise
  <2> QED
    BY <2>1, <2>2, EventsQuiet DEF Idle
<1>11. ASSUME NEW a \in Admins, (\E plan \in {"free", "pro"} : ReadTarget(a, plan)) \/ SetPlan(a)
       PROVE  EventsInv'
  <2>1. \A h \in Hooks : task'[h] = task[h]
    BY <1>11, <1>t, GotoEffect DEF ReadTarget, SetPlan
  <2> QED
    BY <1>11, <2>1, EventsQuiet DEF ReadTarget, SetPlan
<1> QED
  BY <1>1, <1>2, <1>3, <1>4, <1>5, <1>6, <1>7, <1>8, <1>9, <1>10, <1>11
     DEF Next, Request, Deliver, Handle

LEMMA InitEvents == Init => EventsInv
<1> SUFFICES ASSUME Init PROVE EventsInv
  OBVIOUS
<1>1. \A h \in Hooks : task[h].at = "idle"
  BY DEF Init, Tasks, Idle
<1> QED
  BY <1>1 DEF Init, EventsInv, Agree

----------------------------------------------------------------------------
(* What holds until the writers get in each other's way: the row keeps its  *)
(* customer, one writer is at work, it has read the row as it stands, and   *)
(* the plan is that of the latest change applied, no answered change being  *)
(* later.                                                                   *)
Writers == Hooks \cup Admins

Steady ==
  /\ \A r \in Requests : task[r].at = "subscribe" => task[r].customer = acct.customer
  /\ \A s \in Subs : stripe[s].status # "none" =>
       acct.customer = stripe[s].customer /\ acct.customer # None

OneWriter == \A t, u \in Writers : ~IsIdle(t) /\ ~IsIdle(u) => t = u

Current == \A h \in Hooks : task[h].at \in {"link", "fetch", "apply"} => task[h].seen = Seen

InStep ==
  /\ applied <= changes
  /\ \A e \in done : e.kind = "sub" /\ ~Pending(e.status) => e.ver <= applied
  /\ ~comped =>
       /\ applied = 0 => acct.plan = "free"
       /\ \A e \in sent : e.ver = applied /\ applied > 0 => acct.plan = PlanFor(e.status)

Orderly == Steady /\ OneWriter /\ Current /\ InStep
OrderInv == ~disorder => Orderly

LEMMA InitOrder == Init => OrderInv
<1> SUFFICES ASSUME Init PROVE Orderly
  BY DEF OrderInv
<1>1. \A t \in Tasks : task[t].at = "idle"
  BY DEF Init, Idle
<1>2. \A s \in Subs : stripe[s].status = "none"
  BY DEF Init
<1>3. InStep
  BY DEF Init, InStep
<1> QED
  BY <1>1, <1>2, <1>3 DEF Orderly, Steady, OneWriter, Current, Tasks, Writers, IsIdle

(* A task that ends, or that found every other writer idle when it began or *)
(* committed, leaves one writer at most.                                    *)
LEMMA WritersAlone ==
  ASSUME OneWriter, NEW t \in Writers, \A u \in Writers \ {t} : task'[u] = task[u],
         ~Overlaps(t) \/ ~IsIdle(t) \/ task'[t].at = "idle"
  PROVE  OneWriter'
BY DEF OneWriter, Overlaps, Writers, IsIdle

(* A step that writes nothing but tasks: what it must leave of them.        *)
LEMMA OrderQuiet ==
  ASSUME Orderly, UNCHANGED <<acct, stripe, sent, done, changes, applied, comped>>, OneWriter',
         \A r \in Requests : task'[r] = task[r] \/ task'[r].at # "subscribe"
                             \/ task'[r].customer = acct.customer,
         \A h \in Hooks : task'[h] = task[h] \/ task'[h].at \in {"idle", "set"}
                          \/ task'[h].seen = Seen
  PROVE  Orderly'
BY DEF Orderly, Steady, Current, InStep, Seen

LEMMA RequestOrder ==
  ASSUME Inv, Orderly, ~disorder', NEW r \in Requests, Request(r)
  PROVE  Orderly'
<1>t. /\ TypeOK /\ r \in Tasks /\ Requests \subseteq Tasks /\ Writers \subseteq Tasks
      /\ Hooks \subseteq Writers /\ r \notin Writers /\ acct \in Account
  BY TasksDiffer DEF Inv, TypeOK, Tasks, Writers
<1>w. \A w \in Writers : task'[w] = task[w]
  BY <1>t, GotoEffect DEF Request, ReadRow, EnsureCustomer, GiveUp, CreateSubscription, StartCheckout
<1>o. OneWriter'
  BY <1>w DEF Orderly, OneWriter, IsIdle
<1>1. CASE ReadRow(r)
  <2>1. /\ \A u \in Requests \ {r} : task'[u] = task[u]
        /\ task'[r].at # "subscribe" \/ task'[r].customer = acct.customer
    BY <1>1, <1>t, GotoEffect DEF ReadRow, AtSubscribe
  <2>2. UNCHANGED <<acct, stripe, sent, done, changes, applied, comped>>
    BY <1>1 DEF ReadRow
  <2> QED
    BY <1>t, <1>w, <1>o, <2>1, <2>2, OrderQuiet
<1>2. CASE EnsureCustomer(r)
  <2>1. acct.customer = None
    BY <1>2 DEF EnsureCustomer
  <2>2. PICK c \in Customers : acct' = [acct EXCEPT !.customer = c]
    BY <1>2 DEF EnsureCustomer
  <2>3. acct'.customer = c /\ Seen' = Seen /\ acct'.plan = acct.plan
    BY <1>t, <2>2 DEF Account, Seen
  <2>4. /\ \A u \in Requests \ {r} : task'[u] = task[u]
        /\ task'[r] = [at |-> "subscribe", customer |-> c]
    BY <1>2, <1>t, <2>3, GotoEffect DEF EnsureCustomer, AtSubscribe
  <2>5. \A u \in Requests : task[u].at # "subscribe"
    <3>1. ASSUME NEW u \in Requests, task[u].at = "subscribe" PROVE FALSE
      <4>1. task[u].customer \in Customers
        BY <1>t, <3>1, TaskShape DEF TypeOK, Asked
      <4> QED
        BY <2>1, <3>1, <4>1, NoneIsNoId DEF Orderly, Steady
    <3> QED
      BY <3>1
  <2>6. UNCHANGED <<stripe, sent, done, changes, applied, comped>>
    BY <1>2 DEF EnsureCustomer
  <2>7. Steady'
    BY <2>1, <2>3, <2>4, <2>5, <2>6 DEF Orderly, Steady
  <2>8. Current'
    BY <1>t, <1>w, <2>3 DEF Orderly, Current
  <2>9. InStep'
    BY <2>3, <2>6 DEF Orderly, InStep
  <2> QED
    BY <1>o, <2>7, <2>8, <2>9 DEF Orderly
<1>3. ASSUME NEW s \in Subs, CreateSubscription(r, s) \/ StartCheckout(r, s)
      PROVE  Orderly'
  <2>1. UNCHANGED <<acct, done, changes, applied, comped>>
    BY <1>3 DEF CreateSubscription, StartCheckout
  <2>2. /\ \A u \in Requests \ {r} : task'[u] = task[u]
        /\ task'[r].at = "idle" /\ task[r].at = "subscribe"
    BY <1>3, <1>t, GotoEffect DEF CreateSubscription, StartCheckout, Idle
  <2>3. /\ \A u \in Subs \ {s} : stripe'[u] = stripe[u]
        /\ stripe'[s].customer = task[r].customer /\ task[r].customer \in Customers
        /\ \A e \in sent' \ sent : e.ver = 0
    BY <1>3, OpenEffect
  <2>4. Steady'
    BY <2>1, <2>2, <2>3, NoneIsNoId DEF Orderly, Steady
  <2>5. Current'
    BY <1>t, <1>w, <2>1 DEF Orderly, Current, Seen
  <2>6. InStep'
    BY <2>1, <2>3 DEF Orderly, InStep
  <2> QED
    BY <1>o, <2>4, <2>5, <2>6 DEF Orderly
<1>4. CASE GiveUp(r)
  <2>1. (\A u \in Requests \ {r} : task'[u] = task[u]) /\ task'[r].at = "idle"
    BY <1>4, <1>t, GotoEffect DEF GiveUp, Idle
  <2>2. UNCHANGED <<acct, stripe, sent, done, changes, applied, comped>>
    BY <1>4 DEF GiveUp
  <2> QED
    BY <1>t, <1>w, <1>o, <2>1, <2>2, OrderQuiet
<1> QED
  BY <1>1, <1>2, <1>3, <1>4 DEF Request

(* A change of Stripe's is later than any applied, and moves no customer.   *)
LEMMA StripeOrder ==
  ASSUME Inv, Orderly, NEW s \in Subs, Confirm(s) \/ End(s) \/ Resume(s)
  PROVE  Orderly'
<1>1. /\ changes' = changes + 1 /\ changes \in Nat
      /\ \A u \in Subs \ {s} : stripe'[u] = stripe[u]
      /\ stripe'[s].customer = stripe[s].customer /\ stripe[s].status # "none"
      /\ \A e \in sent' \ sent : e.ver = changes'
  BY ChangeEffect
<1>2. UNCHANGED <<acct, task, done, applied, comped>>
  BY DEF Confirm, End, Resume
<1>3. applied \in Nat /\ applied <= changes
  BY BoundsAreNat DEF Inv, TypeOK, Orderly, InStep
<1>4. Steady' /\ OneWriter' /\ Current'
  BY <1>1, <1>2 DEF Orderly, Steady, OneWriter, Current, IsIdle, Seen
<1>5. InStep'
  BY <1>1, <1>2, <1>3 DEF Orderly, InStep
<1> QED
  BY <1>4, <1>5 DEF Orderly

(* A subscription somebody has paid for is found under the row's customer.  *)
LEMMA PaidIsKnown ==
  ASSUME Inv, Orderly, NEW s \in paid
  PROVE  s \in Subs /\ acct.customer = stripe[s].customer /\ acct.customer # None
BY DEF Inv, TypeOK, PaidInv, Orderly, Steady

LEMMA HookOrder ==
  ASSUME Inv, EventsInv, Orderly, ~disorder', NEW h \in Hooks,
         (\E e \in sent : Deliver(h, e)) \/ Handle(h) \/ Raise(h)
  PROVE  Orderly'
<1>t. /\ TypeOK /\ PaidInv /\ h \in Tasks /\ h \in Writers /\ h \notin Requests
      /\ Writers \subseteq Tasks /\ Requests \subseteq Tasks /\ Hooks \subseteq Writers
      /\ acct \in Account /\ task[h] \in Task
  BY TasksDiffer DEF Inv, TypeOK, Tasks, Writers
<1>1. ASSUME NEW e \in sent, Ignore(h, e) PROVE Orderly'
  <2>1. UNCHANGED <<acct, task, stripe, sent, changes, applied, comped>> /\ done' = done \cup {e}
    BY <1>1 DEF Ignore, Answer
  <2>2. e.kind = "sub" => Pending(e.status)
    BY <1>1, <1>t, PaidIsKnown DEF Ignore, Known, PaidInv, Pending
  <2>3. InStep'
    BY <2>1, <2>2 DEF Orderly, InStep
  <2> QED
    BY <2>1, <2>3 DEF Orderly, Steady, OneWriter, Current, IsIdle, Seen
<1>2. ASSUME NEW e \in sent, Load(h, e) \/ LoadCheckout(h, e) PROVE Orderly'
  <2>1. UNCHANGED <<acct, stripe, sent, done, changes, applied, comped>> /\ ~Overlaps(h)
    BY <1>2 DEF Load, LoadCheckout
  <2>2. task'[h].seen = Seen /\ \A u \in Tasks \ {h} : task'[u] = task[u]
    BY <1>2, <1>t, GotoEffect DEF Load, LoadCheckout
  <2>3. OneWriter'
    BY <2>1, <2>2, <1>t, WritersAlone DEF Orderly
  <2> QED
    BY <1>t, <2>1, <2>2, <2>3, OrderQuiet
<1>3. CASE Link(h)
  <2>1. task[h] \in Hooked /\ task[h].event.sub \in paid
    BY <1>3, <1>t, TaskShape DEF Link, PaidInv
  <2>2. acct' = acct
    BY <1>3, <1>t, <2>1, PaidIsKnown DEF Link, Account
  <2>3. /\ task'[h].seen = task[h].seen /\ \A u \in Tasks \ {h} : task'[u] = task[u]
    BY <1>3, <1>t, <2>1, GotoEffect DEF Link, Hooked
  <2>4. UNCHANGED <<stripe, sent, done, changes, applied, comped>> /\ ~IsIdle(h)
    BY <1>3 DEF Link, IsIdle
  <2>5. OneWriter'
    BY <2>3, <2>4, <1>t, WritersAlone DEF Orderly
  <2>6. task'[h].seen = Seen
    BY <1>3, <2>3 DEF Link, Orderly, Current
  <2> QED
    BY <1>t, <2>2, <2>3, <2>4, <2>5, <2>6, OrderQuiet
<1>4. CASE Fetch(h)
  <2>1. task[h] \in Hooked
    BY <1>4, <1>t, TaskShape DEF Fetch
  <2>2. ASSUME NEW t \in Hooked, NEW x, NEW n
        PROVE  [t EXCEPT !.at = "apply", !.event.status = x, !.event.ver = n].seen = t.seen
    BY DEF Hooked
  <2>3. /\ task'[h].seen = task[h].seen /\ \A u \in Tasks \ {h} : task'[u] = task[u]
    <3> DEFINE sub == task[h].event.sub
               next == [task[h] EXCEPT !.at = "apply", !.event.status = stripe[sub].status,
                                       !.event.ver = stripe[sub].ver]
    <3>1. Goto(h, next)
      BY <1>4 DEF Fetch
    <3>2. next.seen = task[h].seen
      BY <2>1, <2>2
    <3> HIDE DEF next
    <3> QED
      BY <1>t, <3>1, <3>2, GotoEffect
  <2>4. UNCHANGED <<acct, stripe, sent, done, changes, applied, comped>> /\ ~IsIdle(h)
    BY <1>4 DEF Fetch, IsIdle
  <2>5. OneWriter'
    BY <2>3, <2>4, <1>t, WritersAlone DEF Orderly
  <2>6. task'[h].seen = Seen
    BY <1>4, <2>3 DEF Fetch, Orderly, Current
  <2> QED
    BY <1>t, <2>3, <2>4, <2>5, <2>6, OrderQuiet
<1>5. CASE Apply(h)
  <2> DEFINE e == task[h].event
  <2>1. task[h] \in Hooked /\ task[h].seen = Seen /\ e \in Event
    BY <1>5, <1>t, TaskShape DEF Apply, Orderly, Current, Hooked
  <2>2. /\ ~Overlaps(h) /\ ~(e.ver < applied) /\ done' = done \cup Answered(e)
        /\ applied' = IF e.ver > applied THEN e.ver ELSE applied
        /\ UNCHANGED <<stripe, sent, changes, comped>>
    BY <1>5 DEF Apply
  <2>3. /\ AsSub(e) \in sent /\ e.ver > 0 /\ e.ver \in Nat /\ applied \in Nat /\ changes \in Nat
        /\ AsSub(e).ver = e.ver /\ AsSub(e).status = e.status /\ e.ver <= changes
    <3>1. AsSub(e) \in sent /\ e.ver > 0
      BY <1>5 DEF Apply, EventsInv
    <3>2. AsSub(e).ver = e.ver /\ AsSub(e).status = e.status
      BY <2>1, AsSubOf
    <3>3. e.ver \in Nat /\ applied \in Nat /\ changes \in Nat
      BY <1>t, <2>1, BoundsAreNat DEF Event, TypeOK
    <3> QED
      BY <3>1, <3>2, <3>3 DEF EventsInv
  <2>4. applied' = e.ver /\ applied' > 0
    BY <2>2, <2>3
  <2>5. acct'.customer = acct.customer /\ acct'.plan = PlanFor(e.status)
    <3>1. Put(PlanFor(e.status), task[h].seen.plan, acct.plan) = PlanFor(e.status)
      BY <2>1 DEF Put, Seen
    <3> QED
      BY <1>5, <1>t, <3>1 DEF Apply, Account
  <2>6. /\ task'[h] = Idle /\ \A u \in Tasks \ {h} : task'[u] = task[u]
    BY <1>5, <1>t, GotoEffect DEF Apply
  <2>7. OneWriter'
    BY <2>2, <2>6, <1>t, WritersAlone DEF Orderly
  <2>8. Current'
    BY <2>2, <2>6, <1>t DEF Current, Overlaps, IsIdle, Idle
  <2>9. Steady'
    BY <2>2, <2>5, <2>6, <1>t DEF Orderly, Steady
  <2>10. InStep'
    <3>1. \A d \in done' : d.kind = "sub" /\ ~Pending(d.status) => d.ver <= applied'
      <4>1. ASSUME NEW d \in done, d.kind = "sub", ~Pending(d.status) PROVE d.ver <= applied'
        <5>1. d.ver <= applied /\ d.ver \in Nat
          BY <4>1, <1>t, BoundsAreNat DEF Orderly, InStep, TypeOK, Event
        <5> QED
          BY <5>1, <2>2, <2>3, <2>4
      <4>2. ASSUME NEW d \in Answered(e), d.kind = "sub" PROVE d.ver <= applied'
        BY <4>2, <2>3, <2>4 DEF Answered
      <4> QED
        BY <2>2, <4>1, <4>2
    <3>2. \A d \in sent : d.ver = applied' => acct'.plan = PlanFor(d.status)
      BY <2>3, <2>4, <2>5 DEF EventsInv, Agree
    <3> QED
      BY <2>2, <2>3, <2>4, <3>1, <3>2 DEF InStep
  <2> QED
    BY <2>7, <2>8, <2>9, <2>10 DEF Orderly
<1>6. CASE Raise(h)
  <2>1. task'[h].at = "idle" /\ \A u \in Tasks \ {h} : task'[u] = task[u]
    BY <1>6, <1>t, GotoEffect DEF Raise, Idle
  <2>2. UNCHANGED <<acct, stripe, sent, done, changes, applied, comped>>
    BY <1>6 DEF Raise, Acknowledged
  <2>3. OneWriter'
    BY <2>1, <1>t, WritersAlone DEF Orderly
  <2> QED
    BY <1>t, <2>1, <2>2, <2>3, OrderQuiet
<1> QED
  BY <1>1, <1>2, <1>3, <1>4, <1>5, <1>6 DEF Deliver, Handle

LEMMA AdminOrder ==
  ASSUME Inv, Orderly, ~disorder', NEW a \in Admins,
         (\E plan \in {"free", "pro"} : ReadTarget(a, plan)) \/ SetPlan(a)
  PROVE  Orderly'
<1>t. /\ TypeOK /\ a \in Tasks /\ a \in Writers /\ a \notin Requests /\ a \notin Hooks
      /\ Writers \subseteq Tasks /\ Requests \subseteq Tasks /\ Hooks \subseteq Writers
      /\ acct \in Account
  BY TasksDiffer DEF Inv, TypeOK, Tasks, Writers
<1>1. ASSUME NEW plan \in {"free", "pro"}, ReadTarget(a, plan) PROVE Orderly'
  <2>1. UNCHANGED <<acct, stripe, sent, done, changes, applied, comped>> /\ ~Overlaps(a)
    BY <1>1 DEF ReadTarget
  <2>2. \A u \in Tasks \ {a} : task'[u] = task[u]
    BY <1>1, <1>t, GotoEffect DEF ReadTarget
  <2>3. OneWriter'
    BY <2>1, <2>2, <1>t, WritersAlone DEF Orderly
  <2> QED
    BY <1>t, <2>1, <2>2, <2>3, OrderQuiet
<1>2. CASE SetPlan(a)
  <2>1. /\ UNCHANGED <<stripe, sent, done, changes, applied>> /\ comped' = TRUE /\ ~Overlaps(a)
        /\ acct'.customer = acct.customer
    BY <1>2, <1>t DEF SetPlan, Account
  <2>2. task'[a] = Idle /\ \A u \in Tasks \ {a} : task'[u] = task[u]
    BY <1>2, <1>t, GotoEffect DEF SetPlan
  <2>3. OneWriter'
    BY <2>1, <2>2, <1>t, WritersAlone DEF Orderly
  <2>4. Current'
    BY <2>1, <2>2, <1>t DEF Current, Overlaps, IsIdle, Idle
  <2>5. Steady' /\ InStep'
    BY <2>1, <2>2, <1>t DEF Orderly, Steady, InStep
  <2> QED
    BY <2>3, <2>4, <2>5 DEF Orderly
<1> QED
  BY <1>1, <1>2

LEMMA OrderStep == Inv /\ EventsInv /\ OrderInv /\ [Next]_vars => OrderInv'
<1> SUFFICES ASSUME Inv, EventsInv, OrderInv, [Next]_vars, ~disorder' PROVE Orderly'
  BY DEF OrderInv
<1>1. CASE UNCHANGED vars
  BY <1>1 DEF vars, OrderInv, Orderly, Steady, OneWriter, Current, InStep, IsIdle, Seen
<1>2. CASE Next
  <2>1. disorder \in BOOLEAN
    BY DEF Inv, TypeOK
  <2>2. Orderly
    BY <1>2, <2>1 DEF OrderInv, Next, Request, Deliver, Handle, ReadRow, EnsureCustomer, GiveUp,
       CreateSubscription, StartCheckout, Confirm, End, Resume, Ignore, Load, LoadCheckout,
       Link, Fetch, Apply, Raise, ReadTarget, SetPlan
  <2> QED
    BY <1>2, <2>2, RequestOrder, StripeOrder, HookOrder, AdminOrder DEF Next
<1> QED
  BY <1>1, <1>2

(* A payment is never lost.  The plan is that of the subscription a member  *)
(* pays for, or the event that will make it so is still to be answered.     *)
PaymentInHand ==
  \A s \in paid :
    paid = {s} /\ ~disorder /\ ~comped
      => \/ (acct.plan = "pro") = (stripe[s].status = "active")
         \/ SubEvent(s, stripe[s]) \in sent \ done

(* Unless writers overlapped, a change was applied after a later one or the *)
(* row's customer was replaced, the latest change of the one subscription   *)
(* paid for is in the plan or will be delivered again.                      *)
THEOREM PaymentNotLost == Spec => []PaymentInHand
<1>1. Inv /\ EventsInv /\ OrderInv => PaymentInHand
  <2> DEFINE Latest(s) == SubEvent(s, stripe[s])
  <2> SUFFICES ASSUME Inv, EventsInv, Orderly, ~comped, NEW s \in paid, paid = {s},
                      Latest(s) \notin sent \ done
               PROVE  (acct.plan = "pro") = (stripe[s].status = "active")
    BY DEF OrderInv, PaymentInHand
  <2>1. /\ Latest(s) \in sent /\ stripe[s].ver > 0 /\ stripe[s].ver = changes
        /\ s \in Subs /\ stripe[s].status \in {"active", "over"}
    BY DEF EventsInv, Inv, TypeOK, PaidInv
  <2>2. /\ Latest(s).kind = "sub" /\ Latest(s).ver = changes /\ Latest(s).status = stripe[s].status
        /\ ~Pending(Latest(s).status)
    BY <2>1 DEF SubEvent, Pending
  <2>3. applied = changes /\ changes > 0
    <3>1. changes <= applied /\ applied <= changes
      BY <2>1, <2>2 DEF Orderly, InStep
    <3> QED
      BY <2>1, <3>1, BoundsAreNat DEF Inv, TypeOK
  <2>4. acct.plan = PlanFor(stripe[s].status)
    BY <2>1, <2>2, <2>3 DEF Orderly, InStep
  <2> QED
    BY <2>1, <2>4 DEF PlanFor
<1> QED
  BY <1>1, InitInv, StepInv, InitEvents, EventsStep, InitOrder, OrderStep, PTL DEF Spec

(* The plan of a member with one paid subscription is Stripe's once every   *)
(* event is answered, under the same conditions.                            *)
THEOREM InSync == Spec => []InSyncWhenOrderly
<1>1. PaymentInHand => InSyncWhenOrderly
  BY DEF PaymentInHand, InSyncWhenOrderly, Quiet
<1> QED
  BY <1>1, PaymentNotLost, PTL
=============================================================================
