----------------------------- MODULE CardPrices -----------------------------
(***************************************************************************)
(* One card's price document and the price alerts on it.  cards.metadata   *)
(* is one JSON value holding the daily price history, the pricing summary  *)
(* and the image hash; five kinds of job load it, change their part and    *)
(* write the whole of it back.  Live observations and the price backfill   *)
(* also fire the alerts the price satisfies and tell their owners after    *)
(* the commit; a new alert may fire at once.                               *)
(***************************************************************************)
EXTENDS Naturals, FiniteSets

CONSTANTS
  Jobs,        \* jobs and requests in flight at once
  Alerts,
  MaxPrice,    \* bound: prices are 1..MaxPrice
  Wants,       \* the prices that satisfy each alert (_satisfies)
  MaxDay,      \* bound: days
  MaxPoints    \* MAX_HISTORY_POINTS

ASSUME PriceBounds ==
  /\ MaxPrice \in Nat /\ MaxDay \in Nat \ {0} /\ MaxPoints \in Nat \ {0}
  /\ Wants \in [Alerts -> SUBSET (1..MaxPrice)]

VARIABLES
  doc,        \* the document: history by day, pricing, image hash
  day,        \* today
  alert,      \* the alerts
  job,        \* the jobs in flight
  recorded,   \* history: the price last committed for each day
  atRisk,     \* history: the days committed while another job held the document
  told,       \* history: the alerts announced, by one announcement or more
  toldAgain,  \* history: those announced more than once
  contended   \* history: those fired while another evaluator held them

priceVars == <<doc, day, alert, job, recorded, atRisk, told, toldAgain, contended>>

NoPrice == 0
Prices == 1..MaxPrice
MaybePrice == 0..MaxPrice
Days == 1..MaxDay
Doc == [history : [Days -> MaybePrice], pricing : MaybePrice, hash : BOOLEAN]

Writers == {"observe", "snapshot", "backfill", "index", "resolve"}
NoJob == [op |-> "none", at |-> "none"]
Job == {NoJob}
  \cup [op : Writers, at : {"loaded", "commit"}, seen : Doc, on : Days, price : MaybePrice,
        fire : SUBSET Alerts]
  \cup [op : {"create"}, at : {"check", "commit"}, seen : Doc, fire : SUBSET Alerts]
  \cup [op : Writers \cup {"create"}, at : {"tell"}, fire : SUBSET Alerts]

PriceInit ==
  /\ doc = [history |-> [d \in Days |-> NoPrice], pricing |-> NoPrice, hash |-> FALSE]
  /\ day = 1
  /\ alert = [a \in Alerts |-> "none"]
  /\ job = [j \in Jobs |-> NoJob]
  /\ recorded = [d \in Days |-> NoPrice] /\ atRisk = {}
  /\ told = {} /\ toldAgain = {} /\ contended = {}

Goes(j, next) == job' = [job EXCEPT ![j] = next]
Pending == {a \in Alerts : alert[a] = "pending"}
Satisfied(price, among) == {a \in among : price \in Wants[a]}

(* Jobs that will write the document they loaded, and the alerts a job will *)
(* fire by what it has read.                                                *)
HoldsDoc(j) == job[j].op \in Writers /\ job[j].at \in {"loaded", "commit"}
Holding(j) == IF job[j].at \in {"check", "commit"} THEN job[j].fire ELSE {}

----------------------------------------------------------------------------
(* A job loads the row.  An observation or a resolve brings a price; the    *)
(* snapshot takes the pricing it finds; both fix their date before they     *)
(* load and may carry yesterday's.  A job with nothing to do is not begun.  *)
Load(j, op, price, on) ==
  /\ job[j] = NoJob
  /\ price = NoPrice <=> op \in {"snapshot", "index"}
  /\ on = day \/ (op \in {"observe", "snapshot"} /\ on + 1 = day)
  /\ op = "snapshot" => doc.pricing # NoPrice
  /\ Goes(j, [op |-> op, at |-> IF op \in {"observe", "backfill"} THEN "loaded" ELSE "commit",
              seen |-> doc, on |-> on, price |-> price, fire |-> {}])
  /\ UNCHANGED <<doc, day, alert, recorded, atRisk, told, toldAgain, contended>>

(* evaluate_for_card: a SELECT of the pending alerts, marked in memory.     *)
EvaluateAll(price) == Satisfied(price, {a \in Alerts : alert[a] \in {"pending", "fired"}})
Evaluate(price) == Satisfied(price, Pending)

FindPending(j) ==
  /\ job[j].at = "loaded"
  /\ Goes(j, [job[j] EXCEPT !.at = "commit", !.fire = Evaluate(job[j].price)])
  /\ UNCHANGED <<doc, day, alert, recorded, atRisk, told, toldAgain, contended>>

(* _upsert_today: today's point set, and only the newest points kept.       *)
TrimOldestLast(h) ==
  [d \in Days |-> IF Cardinality({e \in Days : e < d /\ h[e] # NoPrice}) < MaxPoints
                    THEN h[d] ELSE NoPrice]
TrimOneLate(h) ==
  [d \in Days |-> IF Cardinality({e \in Days : e > d /\ h[e] # NoPrice}) <= MaxPoints
                    THEN h[d] ELSE NoPrice]
Trim(h) ==
  [d \in Days |-> IF Cardinality({e \in Days : e > d /\ h[e] # NoPrice}) < MaxPoints
                    THEN h[d] ELSE NoPrice]
Upsert(h, on, price) == Trim([h EXCEPT ![on] = price])

Point(r) == IF r.op = "observe" THEN r.price ELSE r.seen.pricing

NewDoc(r) ==
  CASE r.op \in {"observe", "snapshot"} ->
         [r.seen EXCEPT !.history = Upsert(@, r.on, Point(r))]
    [] r.op \in {"backfill", "resolve"} -> [r.seen EXCEPT !.pricing = r.price]
    [] r.op = "index" -> [r.seen EXCEPT !.hash = TRUE]
    [] r.op = "create" -> r.seen

Records(r) == r.op \in {"observe", "snapshot"} /\ NewDoc(r) # r.seen

(* The commit: the document as this job has it, whole, if it changed it;    *)
(* and the alerts it marked, whatever they have become meanwhile.  Then the *)
(* owners are told.                                                         *)
Commit(j) ==
  LET r == job[j]
      others == Jobs \ {j} IN
  /\ r.at = "commit" /\ \A a \in r.fire : alert[a] # "gone"
  /\ doc' = IF NewDoc(r) # r.seen THEN NewDoc(r) ELSE doc
  /\ alert' = [a \in Alerts |-> IF a \in r.fire THEN "fired" ELSE alert[a]]
  /\ IF Records(r)
       THEN /\ recorded' = [recorded EXCEPT ![r.on] = Point(r)]
            /\ atRisk' = IF \E k \in others : HoldsDoc(k) THEN atRisk \cup {r.on} ELSE atRisk
       ELSE UNCHANGED <<recorded, atRisk>>
  /\ contended' = contended \cup (r.fire \cap UNION {Holding(k) : k \in others})
  /\ Goes(j, IF r.fire = {} THEN NoJob ELSE [op |-> r.op, at |-> "tell", fire |-> r.fire])
  /\ UNCHANGED <<day, told, toldAgain>>

(* The announcement, best effort: a push, and from the backfill the bell    *)
(* and an e-mail.                                                           *)
Tell(j, a) ==
  /\ job[j].at = "tell" /\ a \in job[j].fire
  /\ told' = told \cup {a}
  /\ toldAgain' = IF a \in told THEN toldAgain \cup {a} ELSE toldAgain
  /\ Goes(j, IF job[j].fire = {a} THEN NoJob ELSE [job[j] EXCEPT !.fire = @ \ {a}])
  /\ UNCHANGED <<doc, day, alert, recorded, atRisk, contended>>

(* A job ends early: it failed, its process died, or an alert it would      *)
(* update was deleted meanwhile (no row matched), which undoes all of it.   *)
Drop(j) ==
  /\ job[j] # NoJob /\ Goes(j, NoJob)
  /\ UNCHANGED <<doc, day, alert, recorded, atRisk, told, toldAgain, contended>>

----------------------------------------------------------------------------
(* create: the alert is committed, then the card's last known price decides *)
(* whether it fires at once.  The card may be a copy its session loaded     *)
(* before.                                                                  *)
CreateAlert(j, a) ==
  /\ job[j] = NoJob /\ alert[a] = "none"
  /\ alert' = [alert EXCEPT ![a] = "pending"]
  /\ Goes(j, [op |-> "create", at |-> "check", seen |-> doc, fire |-> {a}])
  /\ UNCHANGED <<doc, day, recorded, atRisk, told, toldAgain, contended>>

LastKnown(d) ==
  LET points == {e \in Days : d.history[e] # NoPrice} IN
  IF points = {} THEN d.pricing
  ELSE d.history[CHOOSE e \in points : \A f \in points : f <= e]

FireOnCreate(j) ==
  /\ job[j].at = "check"
  /\ \E d \in {doc, job[j].seen} :
       Goes(j, IF Satisfied(LastKnown(d), job[j].fire) = {} THEN NoJob
               ELSE [job[j] EXCEPT !.at = "commit"])
  /\ UNCHANGED <<doc, day, alert, recorded, atRisk, told, toldAgain, contended>>

DeleteAlert(a) ==
  /\ alert[a] \in {"pending", "fired"}
  /\ alert' = [alert EXCEPT ![a] = "gone"]
  /\ UNCHANGED <<doc, day, job, recorded, atRisk, told, toldAgain, contended>>

NextDay ==
  /\ day < MaxDay /\ day' = day + 1
  /\ UNCHANGED <<doc, alert, job, recorded, atRisk, told, toldAgain, contended>>

PriceNext ==
  \/ NextDay
  \/ \E a \in Alerts : DeleteAlert(a)
  \/ \E j \in Jobs :
       \/ \E op \in Writers, price \in MaybePrice, on \in Days : Load(j, op, price, on)
       \/ FindPending(j) \/ Commit(j) \/ Drop(j) \/ FireOnCreate(j)
       \/ \E a \in Alerts : Tell(j, a) \/ CreateAlert(j, a)

PriceSpec == PriceInit /\ [][PriceNext]_priceVars

----------------------------------------------------------------------------
(* The type invariant. *)
PriceTypeOK ==
  /\ doc \in Doc
  /\ day \in Days
  /\ alert \in [Alerts -> {"none", "pending", "fired", "gone"}]
  /\ job \in [Jobs -> Job]
  /\ recorded \in [Days -> MaybePrice]
  /\ atRisk \subseteq Days
  /\ toldAgain \subseteq told /\ told \subseteq Alerts /\ contended \subseteq Alerts

(* The history never grows past its window, whatever order the days are     *)
(* recorded in.                                                             *)
WindowHolds == Cardinality({d \in Days : doc.history[d] # NoPrice}) <= MaxPoints

(* Alerts are one-shot: an owner is told twice only if two evaluators had   *)
(* both read the alert as pending, and told only what a commit has fired.   *)
AlertToldOnce ==
  /\ toldAgain \subseteq contended
  /\ \A a \in told : alert[a] \in {"fired", "gone"}

(* A recorded point stays in the history, with its price, until newer days  *)
(* push it out of the window, unless another job held the document while it *)
(* was being recorded and may put back one without it.                      *)
PointsAreKept ==
  \A d \in Days \ atRisk :
    recorded[d] # NoPrice /\ Cardinality({e \in Days : e > d /\ recorded[e] # NoPrice}) < MaxPoints
      => doc.history[d] = recorded[d]
=============================================================================
