------------------------------ MODULE VaultCap ------------------------------
(***************************************************************************)
(* The free plan's cap on the vault: enforce_can_add_card, the add it      *)
(* guards (graded_card_service.create), and the notice mailed the first    *)
(* time a member is turned away.  The check is four reads, each at its own *)
(* time - the member's plan, the subscriptions switch, the plan shape, the *)
(* count - and the insert comes after the card has been resolved, with no  *)
(* lock between.  A scan stores its card without asking.                   *)
(***************************************************************************)
EXTENDS Naturals, FiniteSets

CONSTANTS
  Adders,     \* adds in flight at once
  MaxCards,   \* bound: cards of the member
  MaxLimit    \* bound: the caps an admin sets

ASSUME SomeAdders == IsFiniteSet(Adders) /\ Adders # {}
ASSUME CapBounds == MaxCards \in Nat /\ MaxLimit \in Nat

VARIABLES
  cards,     \* the member's live graded cards
  pro,       \* the member's own plan, expiry included (_plan_is_pro)
  shape,     \* the switch, whether the cap is on (the gate, and a cap set), the cap
  add,       \* the adds in flight
  logged,    \* a vault-full row is in the delivery log
  notices,   \* history: notices mailed, none, one or more
  excused,   \* history: cards came by right or by scan, or the cap was lowered
  crossing   \* history: two adds were about to mail, or the log lost a row

capVars == <<cards, pro, shape, add, logged, notices, excused, crossing>>

Limits == 0..MaxLimit
Shape == [on : BOOLEAN, capped : BOOLEAN, limit : Limits]

NotAdding == [at |-> "none"]
Adding == {NotAdding}
  \cup [at : {"switch"}, pro : BOOLEAN]
  \cup [at : {"config"}]
  \cup [at : {"count"}, limit : Limits]
  \cup [at : {"insert"}, counted : BOOLEAN]
  \cup [at : {"notice", "mail"}]

CapInit ==
  /\ cards = 0
  /\ pro = FALSE
  /\ shape \in [on : {TRUE}, capped : {TRUE}, limit : Limits]
  /\ add = [a \in Adders |-> NotAdding]
  /\ logged = FALSE /\ notices = 0
  /\ excused = FALSE /\ crossing = FALSE

Steps(a, next) == add' = [add EXCEPT ![a] = next]
LetIn(counted) == [at |-> "insert", counted |-> counted]

(* The row is loaded by require_user.                                       *)
StartAdd(a) ==
  /\ add[a] = NotAdding
  /\ Steps(a, [at |-> "switch", pro |-> pro])
  /\ UNCHANGED <<cards, pro, shape, logged, notices, excused, crossing>>

(* is_pro: everyone is while the switch is off.                             *)
ReadSwitch(a) ==
  /\ add[a].at = "switch"
  /\ Steps(a, IF ~shape.on \/ add[a].pro THEN LetIn(FALSE) ELSE [at |-> "config"])
  /\ UNCHANGED <<cards, pro, shape, logged, notices, excused, crossing>>

ReadShape(a) ==
  /\ add[a].at = "config"
  /\ Steps(a, IF shape.capped THEN [at |-> "count", limit |-> shape.limit] ELSE LetIn(FALSE))
  /\ UNCHANGED <<cards, pro, shape, logged, notices, excused, crossing>>

FullOneLate(count, limit) == count > limit
Full(count, limit) == count >= limit

CountCards(a) ==
  /\ add[a].at = "count"
  /\ Steps(a, IF Full(cards, add[a].limit) THEN [at |-> "notice"] ELSE LetIn(TRUE))
  /\ UNCHANGED <<cards, pro, shape, logged, notices, excused, crossing>>

(* create, once the card is resolved: the row, in one commit.               *)
Insert(a) ==
  /\ add[a].at = "insert" /\ cards < MaxCards
  /\ cards' = cards + 1
  /\ excused' = (excused \/ ~add[a].counted)
  /\ Steps(a, NotAdding)
  /\ UNCHANGED <<pro, shape, logged, notices, crossing>>

(* _notify_limit_reached: the delivery log is asked, then the notice is     *)
(* queued, which writes its row there; the add ends with 402 either way.    *)
Mailing(b) == add[b].at = "mail"

EverSent == logged

AskLog(a) ==
  /\ add[a].at = "notice"
  /\ Steps(a, IF EverSent THEN NotAdding ELSE [at |-> "mail"])
  /\ crossing' = (crossing \/ (~logged /\ \E b \in Adders : Mailing(b)))
  /\ UNCHANGED <<cards, pro, shape, logged, notices, excused>>

(* The row may fail to be written; the mail goes out all the same.          *)
SendNotice(a) ==
  /\ Mailing(a)
  /\ \E written \in BOOLEAN :
       /\ logged' = (logged \/ written)
       /\ crossing' = (crossing \/ ~written)
  /\ notices' = IF notices = 0 THEN 1 ELSE 2
  /\ Steps(a, NotAdding)
  /\ UNCHANGED <<cards, pro, shape, excused>>

(* The card could not be resolved, the mailer is off or raised (swallowed), *)
(* or the request died.                                                     *)
AddEnds(a) ==
  /\ add[a] # NotAdding /\ Steps(a, NotAdding)
  /\ UNCHANGED <<cards, pro, shape, logged, notices, excused, crossing>>

(* soft_delete of one's own card.                                           *)
RemoveCard ==
  /\ cards > 0 /\ cards' = cards - 1
  /\ UNCHANGED <<pro, shape, add, logged, notices, excused, crossing>>

(* The scan pipeline's insert asks nothing.                                 *)
ScanStores ==
  /\ cards < MaxCards /\ cards' = cards + 1
  /\ excused' = TRUE
  /\ UNCHANGED <<pro, shape, add, logged, notices, crossing>>

(* Billing or an admin changes the plan, and time ends it.                  *)
PlanChanges ==
  /\ pro' = ~pro
  /\ UNCHANGED <<cards, shape, add, logged, notices, excused, crossing>>

(* The portal turns the switch or edits the plan shape (update_plan).       *)
ShapeChanges(new) ==
  /\ new # shape /\ shape' = new
  /\ excused' = (excused \/ new.limit < shape.limit)
  /\ UNCHANGED <<cards, pro, add, logged, notices, crossing>>

CapNext ==
  \/ RemoveCard \/ ScanStores \/ PlanChanges
  \/ \E new \in Shape : ShapeChanges(new)
  \/ \E a \in Adders :
       \/ StartAdd(a) \/ ReadSwitch(a) \/ ReadShape(a) \/ CountCards(a) \/ Insert(a)
       \/ AskLog(a) \/ SendNotice(a) \/ AddEnds(a)

CapSpec == CapInit /\ [][CapNext]_capVars

----------------------------------------------------------------------------
(* The type invariant. *)
CapTypeOK ==
  /\ cards \in 0..MaxCards
  /\ pro \in BOOLEAN
  /\ shape \in Shape
  /\ add \in [Adders -> Adding]
  /\ logged \in BOOLEAN /\ notices \in 0..2
  /\ excused \in BOOLEAN /\ crossing \in BOOLEAN

(* Adds that overlap may all have counted the same cards; together they     *)
(* pass the cap by at most one fewer than their number, so adds one at a    *)
(* time never pass it.  Cards held by right, scanned in, or held when the   *)
(* cap was lowered excuse it.                                               *)
OvershootIsBounded ==
  ~excused => cards < shape.limit + Cardinality(Adders)

(* "The delivery-log guard is what keeps it to one email": so it does,      *)
(* unless two adds had both found the log empty, or the row was not written.*)
OneNotice == notices = 2 => crossing
=============================================================================
