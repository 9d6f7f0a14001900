----------------------------- MODULE MCPaidPlan -----------------------------
(* Billing on four small instances at once, told apart by who acts: a       *)
(* member who switches subscriptions, one whose webhooks overlap, one whose *)
(* two first requests race for a customer, and one an admin gives a comp.   *)
EXTENDS Billing

CONSTANTS s1, s2, c1, c2, r1, r2, h1, h2, a1

VARIABLE cast

Cast ==
  CASE cast = "switch" -> [subs |-> {s1, s2}, customers |-> {c1}, tasks |-> {r1, h1}]
    [] cast = "webhooks" -> [subs |-> {s1}, customers |-> {c1}, tasks |-> {r1, h1, h2}]
    [] cast = "race" -> [subs |-> {s1}, customers |-> {c1, c2}, tasks |-> {r1, r2, h1}]
    [] cast = "comp" -> [subs |-> {s1}, customers |-> {c1}, tasks |-> {r1, h1, a1}]

MCInit == Init /\ cast \in {"switch", "webhooks", "race", "comp"}

Acting ==
  /\ acct.customer' \in Cast.customers \cup {None}
  /\ \A s \in Subs \ Cast.subs : stripe'[s].status = "none"
  /\ \A t \in Tasks \ Cast.tasks : task'[t] = Idle

(* Interchangeable requests, webhooks, subscriptions and customers: the     *)
(* second begins only beside the first, or after it.                        *)
InOrder ==
  /\ IsIdle(r1) /\ IsIdle(r2) => task'[r2] = Idle
  /\ IsIdle(h1) /\ IsIdle(h2) => task'[h2] = Idle
  /\ acct.customer = None => acct.customer' # c2
  /\ stripe[s1].status = "none" => stripe'[s2].status = "none"

MCNext == Next /\ Acting /\ InOrder /\ UNCHANGED cast

MCSpec == MCInit /\ [][MCNext]_<<vars, cast>> /\ Fairness
=============================================================================
