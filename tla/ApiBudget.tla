----------------------------- MODULE ApiBudget -----------------------------
(***************************************************************************)
(* One month of an ApiBudget, the request meter of a paid provider: its    *)
(* counter in Redis, and the calls it admits.  apitcg asks for one call at *)
(* a time; the price enrichment asks once for a page of cards and then     *)
(* starts a task for each of the first ones.  The counter is read before a *)
(* call and raised after it, with the call between them.                   *)
(***************************************************************************)
EXTENDS Naturals, FiniteSets

CONSTANTS
  Lookups,      \* calls that may be under way at once
  SoftCeiling,  \* soft_ceiling: 90 % of the month's requests
  MaxPage,      \* bound: cards the enrichment asks for at once
  MaxAnswered   \* bound: answers of the provider

ASSUME SomeLookups == IsFiniteSet(Lookups)
ASSUME MeterBounds == SoftCeiling \in Nat \ {0} /\ MaxPage \in Nat /\ MaxAnswered \in Nat

VARIABLES
  used,       \* the counter
  reachable,  \* whether Redis answers
  lookup,     \* where each call is
  answered,   \* history: answers of the provider
  unmetered   \* history: a call was let through or answered without the counter

meterVars == <<used, reachable, lookup, answered, unmetered>>

MeterInit ==
  /\ used = 0
  /\ reachable = TRUE
  /\ lookup = [l \in Lookups |-> "idle"]
  /\ answered = 0
  /\ unmetered = FALSE

(* can_spend: what is used and what is asked for stays under the ceiling;   *)
(* without Redis nothing is known to be used.                               *)
Known == IF reachable THEN used ELSE 0
FitsOneLate(n) == Known <= SoftCeiling
Fits(n) == Known + n <= SoftCeiling

Admit(calls, n) ==
  /\ \A l \in calls : lookup[l] = "idle"
  /\ Fits(n)
  /\ unmetered' = (unmetered \/ ~reachable)
  /\ lookup' = [l \in Lookups |-> IF l \in calls THEN "call" ELSE lookup[l]]
  /\ UNCHANGED <<used, reachable, answered>>

(* list_cards and list_sets ask for each call, also for the pages a catalog *)
(* sync fetches side by side.                                               *)
AskForOne(l) == Admit({l}, 1)

(* enrich_catalog_prices asks for every unpriced card and looks up as many  *)
(* of them as one request may.                                              *)
AskForPage(cards, n) ==
  /\ cards # {} /\ Cardinality(cards) <= n
  /\ Admit(cards, n)

(* The provider answers.  A price lookup that fails counts as one answered  *)
(* with no price.                                                           *)
Answers(l) ==
  /\ lookup[l] = "call" /\ answered < MaxAnswered
  /\ answered' = answered + 1
  /\ lookup' = [lookup EXCEPT ![l] = "spend"]
  /\ UNCHANGED <<used, reachable, unmetered>>

(* The call to apitcg raises (breaker open, no answer, an error status), or *)
(* its task dies: it is not counted.                                        *)
CallFails(l) ==
  /\ lookup[l] = "call"
  /\ lookup' = [lookup EXCEPT ![l] = "idle"]
  /\ UNCHANGED <<used, reachable, answered, unmetered>>

(* spend: INCRBY, or nothing if Redis does not answer or the task dies.     *)
Spend(l) ==
  /\ lookup[l] = "spend"
  /\ lookup' = [lookup EXCEPT ![l] = "idle"]
  /\ \/ reachable /\ used' = used + 1 /\ UNCHANGED unmetered
     \/ unmetered' = TRUE /\ UNCHANGED used
  /\ UNCHANGED <<reachable, answered>>

RedisChanges ==
  /\ reachable' = ~reachable
  /\ UNCHANGED <<used, lookup, answered, unmetered>>

MeterNext ==
  \/ RedisChanges
  \/ \E l \in Lookups : AskForOne(l) \/ Answers(l) \/ CallFails(l) \/ Spend(l)
  \/ \E cards \in SUBSET Lookups, n \in 1..MaxPage : AskForPage(cards, n)

MeterSpec == MeterInit /\ [][MeterNext]_meterVars

----------------------------------------------------------------------------
(* The type invariant. *)
MeterTypeOK ==
  /\ used \in Nat /\ used <= answered
  /\ reachable \in BOOLEAN /\ unmetered \in BOOLEAN
  /\ lookup \in [Lookups -> {"idle", "call", "spend"}]
  /\ answered \in 0..MaxAnswered

(* The ceiling leaves "headroom for in-flight/uncounted calls": while the   *)
(* counter is told of every call, the answers of a month pass the ceiling   *)
(* by fewer than the calls that may be under way at once, whoever asked for *)
(* them and for however many.                                               *)
CeilingHolds ==
  ~unmetered /\ Lookups # {} => answered < SoftCeiling + Cardinality(Lookups)
=============================================================================
