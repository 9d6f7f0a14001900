---------------------------- MODULE VaultProofs ----------------------------
(***************************************************************************)
(* Card prices and alerts, the cap on a vault and the mail sent, for any   *)
(* number of jobs, adds, sends and webhooks: each of its own specification, *)
(* and the three side by side as MCVault checks them.                      *)
(***************************************************************************)
EXTENDS MCVault, FiniteSetTheorems, TLAPS

----------------------------------------------------------------------------
(* The card's prices and alerts.                                           *)

Newer(d, points) == {e \in Days : e > d /\ points[e] # NoPrice}

(* A history that keeps every point still in the window, but for those      *)
(* committed at risk, and has no point that was never recorded.             *)
Keeps(h, points, risk) ==
  /\ \A d \in Days \ risk :
       points[d] # NoPrice /\ Cardinality(Newer(d, points)) < MaxPoints => h[d] = points[d]
  /\ \A d \in Days : h[d] # NoPrice => points[d] # NoPrice

InWindow(h) == Cardinality({d \in Days : h[d] # NoPrice}) <= MaxPoints

(* The document and every loaded copy that may be written back keep them.   *)
HistoryInv ==
  /\ PriceTypeOK
  /\ Keeps(doc.history, recorded, atRisk) /\ InWindow(doc.history)
  /\ \A j \in Jobs : HoldsDoc(j) =>
       /\ Keeps(job[j].seen.history, recorded, atRisk) /\ InWindow(job[j].seen.history)
       /\ job[j].op \in {"observe", "backfill", "resolve"} => job[j].price # NoPrice
       /\ job[j].op = "snapshot" => job[j].seen.pricing # NoPrice

LEMMA DaysFinite ==
  ASSUME NEW S, S \subseteq Days
  PROVE  IsFiniteSet(S) /\ Cardinality(S) \in Nat
<1>1. MaxDay \in Nat
  BY PriceBounds
<1>2. IsFiniteSet(Days)
  BY <1>1, FS_Interval DEF Days
<1>3. IsFiniteSet(S)
  BY <1>2, FS_Subset
<1>4. Cardinality(S) \in Nat
  BY <1>3, FS_CardinalityType
<1> QED BY <1>3, <1>4

LEMMA FewerDays ==
  ASSUME NEW S, NEW T, S \subseteq T, T \subseteq Days
  PROVE  /\ Cardinality(S) <= Cardinality(T)
         /\ Cardinality(T) < MaxPoints => Cardinality(S) < MaxPoints
<1>1. IsFiniteSet(T) /\ Cardinality(T) \in Nat
  BY DaysFinite
<1>2. S \subseteq Days
  OBVIOUS
<1>3. Cardinality(S) \in Nat
  BY <1>2, DaysFinite
<1>4. Cardinality(S) <= Cardinality(T)
  BY <1>1, FS_Subset
<1>5. MaxPoints \in Nat
  BY PriceBounds
<1> QED BY <1>1, <1>3, <1>4, <1>5

LEMMA JobFields ==
  ASSUME PriceTypeOK, NEW j \in Jobs
  PROVE  /\ HoldsDoc(j) =>
              /\ job[j] \in [op : Writers, at : {"loaded", "commit"}, seen : Doc, on : Days,
                             price : MaybePrice, fire : SUBSET Alerts]
         /\ job[j].at \in {"check", "commit"} =>
              job[j].seen \in Doc /\ job[j].fire \subseteq Alerts /\ job[j].op \in Writers \cup {"create"}
         /\ job[j].at = "loaded" => HoldsDoc(j)
         /\ job[j].at = "check" => job[j] \in [op : {"create"}, at : {"check", "commit"}, seen : Doc, fire : SUBSET Alerts]
         /\ job[j].at = "tell" => job[j] \in [op : Writers \cup {"create"}, at : {"tell"}, fire : SUBSET Alerts]
         /\ job[j].op \in Writers \cup {"create", "none"}
         /\ job[j].op \in Writers /\ job[j].at # "tell" => HoldsDoc(j)
BY DEF PriceTypeOK, Job, NoJob, HoldsDoc, Writers

LEMMA TrimType ==
  ASSUME NEW h \in [Days -> MaybePrice] PROVE Trim(h) \in [Days -> MaybePrice]
<1>1. NoPrice \in MaybePrice
  BY PriceBounds DEF NoPrice, MaybePrice
<1> QED BY <1>1 DEF Trim

LEMMA NewDocType ==
  ASSUME PriceTypeOK, NEW j \in Jobs, job[j].at = "commit"
  PROVE  NewDoc(job[j]) \in Doc
<1>1. job[j].seen \in Doc /\ job[j].op \in Writers \cup {"create"}
  BY JobFields
<1>2. job[j].seen.history \in [Days -> MaybePrice] /\ job[j].seen.pricing \in MaybePrice
      /\ job[j].seen.hash \in BOOLEAN
  BY <1>1 DEF Doc
<1>3. CASE job[j].op \in {"observe", "snapshot"}
  <2>1. HoldsDoc(j)
    BY <1>3, JobFields DEF Writers
  <2>2. job[j].on \in Days /\ job[j].price \in MaybePrice
    BY <2>1, JobFields
  <2>3. Point(job[j]) \in MaybePrice
    BY <1>2, <2>2 DEF Point
  <2>4. [job[j].seen.history EXCEPT ![job[j].on] = Point(job[j])] \in [Days -> MaybePrice]
    BY <1>2, <2>2, <2>3
  <2>5. Upsert(job[j].seen.history, job[j].on, Point(job[j])) \in [Days -> MaybePrice]
    BY <2>4, TrimType DEF Upsert
  <2>6. NewDoc(job[j]) = [job[j].seen EXCEPT !.history = Upsert(@, job[j].on, Point(job[j]))]
    BY <1>3 DEF NewDoc
  <2> QED BY <1>1, <2>5, <2>6 DEF Doc
<1>4. CASE job[j].op \in {"backfill", "resolve"}
  <2>1. HoldsDoc(j)
    BY <1>4, JobFields DEF Writers
  <2>2. job[j].price \in MaybePrice
    BY <2>1, JobFields
  <2>3. NewDoc(job[j]) = [job[j].seen EXCEPT !.pricing = job[j].price]
    BY <1>4 DEF NewDoc
  <2> QED BY <1>1, <2>2, <2>3 DEF Doc
<1>5. CASE job[j].op = "index"
  <2>1. NewDoc(job[j]) = [job[j].seen EXCEPT !.hash = TRUE]
    BY <1>5 DEF NewDoc
  <2> QED BY <1>1, <2>1 DEF Doc
<1>6. CASE job[j].op = "create"
  <2>1. NewDoc(job[j]) = job[j].seen
    BY <1>6 DEF NewDoc
  <2> QED BY <1>1, <2>1
<1> QED BY <1>1, <1>3, <1>4, <1>5, <1>6 DEF Writers

LEMMA PriceTypes == PriceTypeOK /\ [PriceNext]_priceVars => PriceTypeOK'
<1> SUFFICES ASSUME PriceTypeOK, [PriceNext]_priceVars PROVE PriceTypeOK'
  OBVIOUS
<1>t. /\ doc \in Doc /\ day \in Days
      /\ alert \in [Alerts -> {"none", "pending", "fired", "gone"}]
      /\ job \in [Jobs -> Job] /\ recorded \in [Days -> MaybePrice] /\ atRisk \subseteq Days
      /\ toldAgain \subseteq told /\ told \subseteq Alerts /\ contended \subseteq Alerts
  BY DEF PriceTypeOK
<1>p. NoJob \in Job
  BY DEF Job
<1>g. ASSUME NEW j \in Jobs, NEW next \in Job, Goes(j, next), UNCHANGED <<doc, day, recorded, atRisk, told, toldAgain, contended>>,
             alert' \in [Alerts -> {"none", "pending", "fired", "gone"}]
      PROVE PriceTypeOK'
  BY <1>g, <1>t DEF Goes, PriceTypeOK
<1>1. ASSUME NEW j \in Jobs, NEW op \in Writers, NEW price \in MaybePrice, NEW on \in Days,
             Load(j, op, price, on)
      PROVE PriceTypeOK'
  <2>1. [op |-> op, at |-> IF op \in {"observe", "backfill"} THEN "loaded" ELSE "commit",
         seen |-> doc, on |-> on, price |-> price, fire |-> {}] \in Job
    BY <1>t DEF Job
  <2> QED BY <1>1, <1>g, <1>t, <2>1 DEF Load
<1>2. ASSUME NEW j \in Jobs, FindPending(j) PROVE PriceTypeOK'
  <2>1. job[j] \in [op : Writers, at : {"loaded", "commit"}, seen : Doc, on : Days,
                    price : MaybePrice, fire : SUBSET Alerts]
    BY <1>2, JobFields DEF FindPending
  <2>2. Evaluate(job[j].price) \subseteq Alerts
    BY DEF Evaluate, Satisfied, Pending
  <2>3. [job[j] EXCEPT !.at = "commit", !.fire = Evaluate(job[j].price)] \in Job
    BY <2>1, <2>2 DEF Job
  <2> QED BY <1>2, <1>g, <1>t, <2>3 DEF FindPending
<1>3. ASSUME NEW j \in Jobs, Commit(j) PROVE PriceTypeOK'
  <2>1. job[j].at = "commit" /\ job[j].seen \in Doc /\ job[j].fire \subseteq Alerts
        /\ job[j].op \in Writers \cup {"create"}
    BY <1>3, JobFields DEF Commit
  <2>2. doc' \in Doc
    BY <1>3, <1>t, <2>1, NewDocType DEF Commit
  <2>3. alert' \in [Alerts -> {"none", "pending", "fired", "gone"}]
    BY <1>3, <1>t DEF Commit
  <2>4. recorded' \in [Days -> MaybePrice] /\ atRisk' \subseteq Days
    <3>1. CASE Records(job[j])
      <4>1. HoldsDoc(j)
        BY <2>1, <3>1, JobFields DEF Records, Writers
      <4>2. job[j].on \in Days /\ job[j].price \in MaybePrice /\ job[j].seen \in Doc
        BY <4>1, JobFields
      <4>3. Point(job[j]) \in MaybePrice
        BY <4>2 DEF Point, Doc
      <4> QED BY <1>3, <1>t, <3>1, <4>2, <4>3 DEF Commit
    <3>2. CASE ~Records(job[j])
      BY <1>3, <1>t, <3>2 DEF Commit
    <3> QED BY <3>1, <3>2
  <2>5. contended' \subseteq Alerts
    BY <1>3, <1>t, <2>1 DEF Commit
  <2>6. job' \in [Jobs -> Job]
    <3>1. [op |-> job[j].op, at |-> "tell", fire |-> job[j].fire] \in Job
      BY <2>1 DEF Job
    <3> QED BY <1>3, <1>t, <1>p, <3>1 DEF Commit, Goes
  <2>7. UNCHANGED <<day, told, toldAgain>>
    BY <1>3 DEF Commit
  <2> QED BY <1>t, <2>2, <2>3, <2>4, <2>5, <2>6, <2>7 DEF PriceTypeOK
<1>4. ASSUME NEW j \in Jobs, NEW a \in Alerts, Tell(j, a) PROVE PriceTypeOK'
  <2>1. job[j] \in [op : Writers \cup {"create"}, at : {"tell"}, fire : SUBSET Alerts]
    BY <1>4, JobFields DEF Tell
  <2>2. [job[j] EXCEPT !.fire = @ \ {a}] \in Job
    BY <2>1 DEF Job
  <2>3. job' \in [Jobs -> Job]
    BY <1>4, <1>t, <1>p, <2>2 DEF Tell, Goes
  <2>4. told' \subseteq Alerts /\ toldAgain' \subseteq told'
    BY <1>4, <1>t DEF Tell
  <2> QED BY <1>4, <1>t, <2>3, <2>4 DEF Tell, PriceTypeOK
<1>5. ASSUME NEW j \in Jobs, NEW a \in Alerts, CreateAlert(j, a) PROVE PriceTypeOK'
  <2>1. [op |-> "create", at |-> "check", seen |-> doc, fire |-> {a}] \in Job
    BY <1>t DEF Job
  <2>2. alert' \in [Alerts -> {"none", "pending", "fired", "gone"}]
    BY <1>5, <1>t DEF CreateAlert
  <2> QED BY <1>5, <1>g, <2>1, <2>2 DEF CreateAlert
<1>6. ASSUME NEW j \in Jobs, FireOnCreate(j) PROVE PriceTypeOK'
  <2>1. job[j] \in [op : {"create"}, at : {"check", "commit"}, seen : Doc, fire : SUBSET Alerts]
    BY <1>6, JobFields DEF FireOnCreate
  <2>2. [job[j] EXCEPT !.at = "commit"] \in Job
    BY <2>1 DEF Job
  <2>3. PICK next \in {NoJob, [job[j] EXCEPT !.at = "commit"]} : Goes(j, next)
    BY <1>6 DEF FireOnCreate
  <2>4. next \in Job
    BY <1>p, <2>2, <2>3
  <2> QED BY <1>6, <1>g, <1>t, <2>3, <2>4 DEF FireOnCreate
<1>7. ASSUME NEW j \in Jobs, Drop(j) PROVE PriceTypeOK'
  BY <1>7, <1>g, <1>p, <1>t DEF Drop
<1>8. ASSUME NEW a \in Alerts, DeleteAlert(a) PROVE PriceTypeOK'
  BY <1>8, <1>t DEF DeleteAlert, PriceTypeOK
<1>9. CASE NextDay
  <2>1. day' \in Days
    BY <1>9, <1>t, PriceBounds DEF NextDay, Days
  <2> QED BY <1>9, <1>t, <2>1 DEF NextDay, PriceTypeOK
<1>10. CASE UNCHANGED priceVars
  BY <1>10 DEF priceVars, PriceTypeOK
<1> QED BY <1>1, <1>2, <1>3, <1>4, <1>5, <1>6, <1>7, <1>8, <1>9, <1>10 DEF PriceNext

LEMMA PriceInitial == PriceInit => PriceTypeOK
<1> SUFFICES ASSUME PriceInit PROVE PriceTypeOK
  OBVIOUS
<1>1. 1 \in Days /\ NoPrice \in MaybePrice /\ NoJob \in Job
  BY PriceBounds DEF Days, MaybePrice, NoPrice, Job
<1>2. doc \in Doc
  BY <1>1 DEF PriceInit, Doc
<1> QED BY <1>1, <1>2 DEF PriceInit, PriceTypeOK

(* The document, the alerts, the jobs and the history stay well typed.      *)
THEOREM CardTypes == PriceSpec => []PriceTypeOK
BY PriceInitial, PriceTypes, PTL DEF PriceSpec

----------------------------------------------------------------------------
(* A set of days has an earliest one.                                       *)
LEMMA Smallest ==
  ASSUME NEW S, S \subseteq Nat, S # {}
  PROVE  \E m \in S : \A n \in S : m <= n
<1> DEFINE Less == OpToRel(<, Nat)
<1>1. IsWellFoundedOn(Less, Nat)
  BY NatLessThanWellFounded, Zenon
<1>2. \A x, y \in Nat : <<y, x>> \in Less <=> y < x
  BY Zenon DEF OpToRel
<1> HIDE DEF Less
<1>3. PICK m \in S : \A y \in S : ~ (<<y, m>> \in Less)
  BY <1>1, WFMin
<1>4. \A y \in S : y \in Nat /\ m \in Nat /\ ~ (y < m)
  BY <1>2, <1>3
<1> QED BY <1>4

(* What is left of a history fits the window: its earliest point has fewer  *)
(* newer ones than the window holds.                                        *)
LEMMA TrimFits ==
  ASSUME NEW h \in [Days -> MaybePrice] PROVE InWindow(Trim(h))
<1> DEFINE S == {d \in Days : Trim(h)[d] # NoPrice}
<1>1. CASE S = {}
  <2>1. Cardinality(S) = 0
    BY <1>1, FS_EmptySet
  <2>2. Cardinality(S) <= MaxPoints
    BY <2>1, PriceBounds
  <2> QED BY <2>2 DEF InWindow
<1>2. CASE S # {}
  <2>1. S \subseteq Days /\ S \subseteq Nat
    BY DEF Days
  <2>2. PICK m \in S : \A n \in S : m <= n
    <3> HIDE DEF S
    <3> QED BY <1>2, <2>1, Smallest
  <2> DEFINE above == {e \in Days : e > m /\ h[e] # NoPrice}
  <2>3. m \in Days /\ Cardinality(above) < MaxPoints
    BY <2>2 DEF Trim
  <2>4. \A e \in S \ {m} : e \in above
    <3>1. \A e \in S : e \in Days /\ h[e] # NoPrice
      BY DEF Trim
    <3>2. \A e \in S \ {m} : e > m
      BY <2>1, <2>2
    <3> QED BY <3>1, <3>2
  <2>5. Cardinality(S \ {m}) < MaxPoints
    <3>1. S \ {m} \subseteq above /\ above \subseteq Days
      BY <2>4
    <3> HIDE DEF S, above
    <3> QED BY <2>3, <3>1, FewerDays
  <2>6. IsFiniteSet(S) /\ Cardinality(S) \in Nat
    BY <2>1, DaysFinite
  <2>7. Cardinality(S \ {m}) = Cardinality(S) - 1
    BY <2>2, <2>6, FS_RemoveElement
  <2>8. Cardinality(S) <= MaxPoints
    BY <2>5, <2>6, <2>7, PriceBounds
  <2> QED BY <2>8 DEF InWindow
<1> QED BY <1>1, <1>2

(* Recording a point keeps what another history kept, the day's own point   *)
(* apart.                                                                   *)
LEMMA KeepsAfterPoint ==
  ASSUME NEW h, NEW points \in [Days -> MaybePrice], NEW risk, Keeps(h, points, risk),
         NEW on \in Days, NEW price, price # NoPrice, NEW after, risk \subseteq after, on \in after
  PROVE  Keeps(h, [points EXCEPT ![on] = price], after)
<1> DEFINE then == [points EXCEPT ![on] = price]
<1>2. \A d \in Days : points[d] # NoPrice => then[d] # NoPrice
  OBVIOUS
<1>3. ASSUME NEW d \in Days \ after, then[d] # NoPrice, Cardinality(Newer(d, then)) < MaxPoints
      PROVE h[d] = then[d]
  <2>1. d # on /\ d \notin risk /\ then[d] = points[d] /\ points[d] # NoPrice
    BY <1>3
  <2>2. Newer(d, points) \subseteq Newer(d, then) /\ Newer(d, then) \subseteq Days
    BY <1>2 DEF Newer
  <2>3. Cardinality(Newer(d, points)) < MaxPoints
    <3> HIDE DEF then
    <3> QED BY <1>3, <2>2, FewerDays
  <2> QED BY <2>1, <2>3 DEF Keeps
<1>4. \A d \in Days : h[d] # NoPrice => then[d] # NoPrice
  BY <1>2 DEF Keeps
<1> QED BY <1>3, <1>4 DEF Keeps

(* The history with the point set and trimmed keeps it too, and that point. *)
LEMMA KeepsUpserted ==
  ASSUME NEW h \in [Days -> MaybePrice], NEW points \in [Days -> MaybePrice], NEW risk,
         Keeps(h, points, risk), NEW on \in Days, NEW price \in MaybePrice, price # NoPrice,
         NEW after, risk \subseteq after
  PROVE  Keeps(Upsert(h, on, price), [points EXCEPT ![on] = price], after)
<1> DEFINE g == [h EXCEPT ![on] = price]
           then == [points EXCEPT ![on] = price]
<1>2. \A d \in Days : g[d] # NoPrice => then[d] # NoPrice
  BY DEF Keeps
<1>3. Upsert(h, on, price) = Trim(g)
  BY DEF Upsert
<1>4. \A d \in Days : Trim(g)[d] # NoPrice => g[d] # NoPrice
  <2> HIDE DEF g
  <2> QED BY DEF Trim
<1>5. ASSUME NEW d \in Days \ after, then[d] # NoPrice, Cardinality(Newer(d, then)) < MaxPoints
      PROVE Trim(g)[d] = then[d]
  <2>1. g[d] = then[d]
    <3>1. CASE d = on
      BY <3>1
    <3>2. CASE d # on
      <4>1. then[d] = points[d] /\ g[d] = h[d] /\ points[d] # NoPrice /\ d \notin risk
        BY <1>5, <3>2
      <4>2. Newer(d, points) \subseteq Newer(d, then) /\ Newer(d, then) \subseteq Days
        BY DEF Newer
      <4>3. Cardinality(Newer(d, points)) < MaxPoints
        <5> HIDE DEF then
        <5> QED BY <1>5, <4>2, FewerDays
      <4> QED BY <4>1, <4>3 DEF Keeps
    <3> QED BY <3>1, <3>2
  <2> DEFINE above == {e \in Days : e > d /\ g[e] # NoPrice}
  <2>2. above \subseteq Newer(d, then) /\ Newer(d, then) \subseteq Days
    <3> HIDE DEF g, then
    <3> QED BY <1>2 DEF Newer
  <2>3. Cardinality(above) < MaxPoints
    <3> HIDE DEF above, then
    <3> QED BY <1>5, <2>2, FewerDays
  <2>4. Trim(g)[d] = g[d]
    <3> HIDE DEF g
    <3> QED BY <2>3 DEF Trim
  <2> QED BY <2>1, <2>4
<1>6. Keeps(Trim(g), then, after)
  <2>1. \A d \in Days : Trim(g)[d] # NoPrice => then[d] # NoPrice
    BY <1>2, <1>4
  <2> HIDE DEF g, then
  <2> QED BY <1>5, <2>1 DEF Keeps
<1> QED BY <1>3, <1>6

LEMMA HistoryCommit ==
  ASSUME HistoryInv, NEW j \in Jobs, Commit(j)
  PROVE  /\ Keeps(doc'.history, recorded', atRisk') /\ InWindow(doc'.history)
         /\ \A k \in Jobs \ {j} : HoldsDoc(k) => Keeps(job[k].seen.history, recorded', atRisk')
<1>t. PriceTypeOK /\ recorded \in [Days -> MaybePrice]
  BY DEF HistoryInv, PriceTypeOK
<1>1. /\ job[j].at = "commit" /\ job[j].seen \in Doc /\ job[j].op \in Writers \cup {"create"}
      /\ doc' = IF NewDoc(job[j]) # job[j].seen THEN NewDoc(job[j]) ELSE doc
  BY <1>t, JobFields DEF Commit
<1>2. CASE Records(job[j])
  <2>1. HoldsDoc(j) /\ job[j].op \in {"observe", "snapshot"} /\ NewDoc(job[j]) # job[j].seen
    BY <1>t, <1>1, <1>2, JobFields DEF Records, Writers
  <2>2. job[j].on \in Days /\ job[j].price \in MaybePrice
    BY <2>1, <1>t, JobFields
  <2>3. Point(job[j]) \in MaybePrice /\ Point(job[j]) # NoPrice
    BY <2>1, <2>2, <1>1 DEF Point, HistoryInv, Doc
  <2>4. job[j].seen.history \in [Days -> MaybePrice] /\ Keeps(job[j].seen.history, recorded, atRisk)
    BY <2>1, <1>1 DEF HistoryInv, Doc
  <2>5. /\ recorded' = [recorded EXCEPT ![job[j].on] = Point(job[j])]
        /\ atRisk' = IF \E k \in Jobs \ {j} : HoldsDoc(k) THEN atRisk \cup {job[j].on} ELSE atRisk
    BY <1>2 DEF Commit
  <2>6. doc'.history = Upsert(job[j].seen.history, job[j].on, Point(job[j]))
    <3>1. NewDoc(job[j]) = [job[j].seen EXCEPT !.history = Upsert(@, job[j].on, Point(job[j]))]
      BY <2>1 DEF NewDoc
    <3>2. doc' = NewDoc(job[j])
      BY <1>1, <2>1
    <3>3. [job[j].seen EXCEPT !.history = Upsert(@, job[j].on, Point(job[j]))].history
            = Upsert(job[j].seen.history, job[j].on, Point(job[j]))
      BY <1>1 DEF Doc
    <3> QED BY <3>1, <3>2, <3>3
  <2>7. atRisk \subseteq atRisk'
    BY <2>5
  <2>8. Keeps(doc'.history, recorded', atRisk')
    <3>1. Keeps(Upsert(job[j].seen.history, job[j].on, Point(job[j])),
                [recorded EXCEPT ![job[j].on] = Point(job[j])], atRisk')
      BY <1>t, <2>2, <2>3, <2>4, <2>7, KeepsUpserted
    <3> QED BY <2>5, <2>6, <3>1
  <2>9. InWindow(doc'.history)
    <3>1. [job[j].seen.history EXCEPT ![job[j].on] = Point(job[j])] \in [Days -> MaybePrice]
      BY <2>2, <2>3, <2>4
    <3> QED BY <2>6, <3>1, TrimFits DEF Upsert
  <2>10. ASSUME NEW k \in Jobs \ {j}, HoldsDoc(k)
         PROVE Keeps(job[k].seen.history, recorded', atRisk')
    <3>1. job[j].on \in atRisk'
      BY <2>5, <2>10
    <3>2. Keeps(job[k].seen.history, recorded, atRisk)
      BY <2>10 DEF HistoryInv
    <3> QED BY <1>t, <2>2, <2>3, <2>5, <2>7, <3>1, <3>2, KeepsAfterPoint
  <2> QED BY <2>8, <2>9, <2>10
<1>3. CASE ~Records(job[j])
  <2>1. UNCHANGED <<recorded, atRisk>>
    BY <1>3 DEF Commit
  <2>2. doc' = doc \/ (HoldsDoc(j) /\ doc'.history = job[j].seen.history)
    <3>1. CASE NewDoc(job[j]) = job[j].seen
      BY <1>1, <3>1
    <3>2. CASE NewDoc(job[j]) # job[j].seen
      <4>1. job[j].op \in {"backfill", "resolve", "index"}
        BY <1>1, <1>3, <3>2 DEF Records, NewDoc, Writers
      <4>2. NewDoc(job[j]).history = job[j].seen.history
        BY <1>1, <4>1 DEF NewDoc, Doc
      <4>3. HoldsDoc(j)
        BY <1>1, <1>t, <4>1, JobFields DEF Writers
      <4> QED BY <1>1, <3>2, <4>2, <4>3
    <3> QED BY <3>1, <3>2
  <2>3. Keeps(doc'.history, recorded, atRisk) /\ InWindow(doc'.history)
    BY <2>2 DEF HistoryInv
  <2> QED BY <2>1, <2>3 DEF HistoryInv
<1> QED BY <1>2, <1>3

LEMMA HistoryStep == HistoryInv /\ [PriceNext]_priceVars => HistoryInv'
<1> SUFFICES ASSUME HistoryInv, [PriceNext]_priceVars PROVE HistoryInv'
  OBVIOUS
<1>t. PriceTypeOK /\ PriceTypeOK' /\ job \in [Jobs -> Job] /\ doc \in Doc
  BY PriceTypes DEF HistoryInv, PriceTypeOK
<1>0. ASSUME UNCHANGED <<doc, recorded, atRisk>>,
             \A j \in Jobs : HoldsDoc(j)' => HoldsDoc(j) /\ job'[j].seen = job[j].seen
               /\ job'[j].op = job[j].op /\ job'[j].price = job[j].price
      PROVE HistoryInv'
  <2>1. \A j \in Jobs : HoldsDoc(j)' =>
          /\ Keeps(job'[j].seen.history, recorded', atRisk') /\ InWindow(job'[j].seen.history)
          /\ job'[j].op \in {"observe", "backfill", "resolve"} => job'[j].price # NoPrice
          /\ job'[j].op = "snapshot" => job'[j].seen.pricing # NoPrice
    BY <1>0 DEF HistoryInv
  <2> QED BY <1>0, <1>t, <2>1 DEF HistoryInv
<1>j. ASSUME NEW j \in Jobs, NEW next, Goes(j, next), UNCHANGED <<doc, recorded, atRisk>>,
             next.op \notin Writers \/ next.at \notin {"loaded", "commit"}
      PROVE HistoryInv'
  <2>1. \A k \in Jobs : HoldsDoc(k)' => k # j /\ job'[k] = job[k]
    BY <1>j, <1>t DEF Goes, HoldsDoc
  <2>2. \A k \in Jobs : HoldsDoc(k)' => HoldsDoc(k)
    BY <2>1 DEF HoldsDoc
  <2> QED BY <1>0, <1>j, <2>1, <2>2
<1>n. NoJob.op \notin Writers
  BY DEF NoJob, Writers
<1>1. ASSUME NEW j \in Jobs, NEW op \in Writers, NEW price \in MaybePrice, NEW on \in Days,
             Load(j, op, price, on)
      PROVE HistoryInv'
  <2>1. /\ UNCHANGED <<doc, recorded, atRisk>>
        /\ op \in {"observe", "backfill", "resolve"} => price # NoPrice
        /\ op = "snapshot" => doc.pricing # NoPrice
    BY <1>1 DEF Load
  <2>2. /\ job'[j].seen = doc /\ job'[j].op = op /\ job'[j].price = price
        /\ \A k \in Jobs \ {j} : job'[k] = job[k]
    BY <1>1, <1>t DEF Load, Goes
  <2>3. \A k \in Jobs \ {j} : HoldsDoc(k)' => HoldsDoc(k)
    BY <2>2 DEF HoldsDoc
  <2>4. \A k \in Jobs : HoldsDoc(k)' =>
          /\ Keeps(job'[k].seen.history, recorded', atRisk') /\ InWindow(job'[k].seen.history)
          /\ job'[k].op \in {"observe", "backfill", "resolve"} => job'[k].price # NoPrice
          /\ job'[k].op = "snapshot" => job'[k].seen.pricing # NoPrice
    BY <2>1, <2>2, <2>3 DEF HistoryInv
  <2> QED BY <1>t, <2>1, <2>4 DEF HistoryInv
<1>2. ASSUME NEW j \in Jobs, FindPending(j) PROVE HistoryInv'
  <2>1. job[j] \in [op : Writers, at : {"loaded", "commit"}, seen : Doc, on : Days,
                    price : MaybePrice, fire : SUBSET Alerts]
    BY <1>2, <1>t, JobFields DEF FindPending
  <2>2. /\ job'[j].seen = job[j].seen /\ job'[j].op = job[j].op /\ job'[j].price = job[j].price
        /\ \A k \in Jobs \ {j} : job'[k] = job[k]
    BY <1>2, <1>t, <2>1 DEF FindPending, Goes
  <2>3. \A k \in Jobs : HoldsDoc(k)' => HoldsDoc(k)
    BY <2>1, <2>2 DEF HoldsDoc
  <2>4. \A k \in Jobs : HoldsDoc(k)' => HoldsDoc(k) /\ job'[k].seen = job[k].seen
               /\ job'[k].op = job[k].op /\ job'[k].price = job[k].price
    BY <2>2, <2>3
  <2>5. UNCHANGED <<doc, recorded, atRisk>>
    BY <1>2 DEF FindPending
  <2> QED BY <1>0, <2>4, <2>5
<1>3. ASSUME NEW j \in Jobs, Commit(j) PROVE HistoryInv'
  <2>1. /\ Keeps(doc'.history, recorded', atRisk') /\ InWindow(doc'.history)
        /\ \A k \in Jobs \ {j} : HoldsDoc(k) => Keeps(job[k].seen.history, recorded', atRisk')
    BY <1>3, HistoryCommit
  <2>2. ~HoldsDoc(j)' /\ \A k \in Jobs \ {j} : job'[k] = job[k]
    BY <1>3, <1>t, <1>n DEF Commit, Goes, HoldsDoc
  <2>3. \A k \in Jobs : HoldsDoc(k)' => k # j /\ HoldsDoc(k) /\ job'[k] = job[k]
    BY <2>2 DEF HoldsDoc
  <2>4. \A k \in Jobs : HoldsDoc(k)' =>
          /\ Keeps(job'[k].seen.history, recorded', atRisk') /\ InWindow(job'[k].seen.history)
          /\ job'[k].op \in {"observe", "backfill", "resolve"} => job'[k].price # NoPrice
          /\ job'[k].op = "snapshot" => job'[k].seen.pricing # NoPrice
    BY <2>1, <2>3 DEF HistoryInv
  <2> QED BY <1>t, <2>1, <2>4 DEF HistoryInv
<1>4. ASSUME NEW j \in Jobs, NEW a \in Alerts, Tell(j, a) PROVE HistoryInv'
  <2>1. job[j] \in [op : Writers \cup {"create"}, at : {"tell"}, fire : SUBSET Alerts]
    BY <1>4, <1>t, JobFields DEF Tell
  <2>2. [job[j] EXCEPT !.fire = @ \ {a}].at = "tell"
    BY <2>1
  <2>3. PICK next \in {NoJob, [job[j] EXCEPT !.fire = @ \ {a}]} : Goes(j, next)
    BY <1>4 DEF Tell
  <2>4. next.op \notin Writers \/ next.at \notin {"loaded", "commit"}
    BY <2>2, <2>3, <1>n
  <2> QED BY <1>4, <1>j, <2>3, <2>4 DEF Tell
<1>5. ASSUME NEW j \in Jobs, NEW a \in Alerts, CreateAlert(j, a) PROVE HistoryInv'
  BY <1>5, <1>j DEF CreateAlert, Writers
<1>6. ASSUME NEW j \in Jobs, FireOnCreate(j) PROVE HistoryInv'
  <2>1. job[j] \in [op : {"create"}, at : {"check", "commit"}, seen : Doc, fire : SUBSET Alerts]
    BY <1>6, <1>t, JobFields DEF FireOnCreate
  <2>2. [job[j] EXCEPT !.at = "commit"].op \notin Writers
    BY <2>1 DEF Writers
  <2>3. PICK next \in {NoJob, [job[j] EXCEPT !.at = "commit"]} : Goes(j, next)
    BY <1>6 DEF FireOnCreate
  <2>4. next.op \notin Writers
    BY <2>2, <2>3, <1>n
  <2> QED BY <1>6, <1>j, <2>3, <2>4 DEF FireOnCreate
<1>7. ASSUME NEW j \in Jobs, Drop(j) PROVE HistoryInv'
  BY <1>7, <1>j, <1>n DEF Drop
<1>8. ASSUME UNCHANGED <<doc, recorded, atRisk, job>> PROVE HistoryInv'
  BY <1>8, <1>0 DEF HoldsDoc
<1> QED BY <1>1, <1>2, <1>3, <1>4, <1>5, <1>6, <1>7, <1>8
        DEF PriceNext, NextDay, DeleteAlert, priceVars

LEMMA HistoryInitial == PriceInit => HistoryInv
<1> SUFFICES ASSUME PriceInit PROVE HistoryInv
  OBVIOUS
<1>1. \A d \in Days : doc.history[d] = NoPrice /\ recorded[d] = NoPrice
  BY DEF PriceInit
<1>2. {d \in Days : doc.history[d] # NoPrice} = {}
  BY <1>1
<1>3. Cardinality({d \in Days : doc.history[d] # NoPrice}) = 0
  BY <1>2, FS_EmptySet
<1>4. InWindow(doc.history)
  BY <1>3, PriceBounds DEF InWindow
<1>5. Keeps(doc.history, recorded, atRisk)
  BY <1>1 DEF Keeps
<1>6. \A j \in Jobs : ~HoldsDoc(j)
  BY DEF PriceInit, HoldsDoc, NoJob, Writers
<1> QED BY <1>4, <1>5, <1>6, PriceInitial DEF HistoryInv

(* PointsAreKept and WindowHolds, for any number of jobs and days and any   *)
(* window: a point recorded while no other job held the document stays until*)
(* newer ones push it out, and the history never outgrows the window.       *)
THEOREM Points == PriceSpec => [](PointsAreKept /\ WindowHolds)
<1>1. HistoryInv => PointsAreKept /\ WindowHolds
  BY DEF HistoryInv, Keeps, Newer, InWindow, PointsAreKept, WindowHolds
<1> QED BY <1>1, HistoryInitial, HistoryStep, PTL DEF PriceSpec

----------------------------------------------------------------------------
(* An alert never read as pending by two evaluators at once: fired, nobody  *)
(* is about to fire it; one job at most is announcing it, and none once it  *)
(* has been announced.                                                      *)
Telling(j) == IF job[j].at = "tell" THEN job[j].fire ELSE {}

Once(a) ==
  /\ alert[a] = "fired" => \A j \in Jobs : a \notin Holding(j)
  /\ \A j, k \in Jobs : a \in Telling(j) /\ a \in Telling(k) => j = k
  /\ a \in told => \A j \in Jobs : a \notin Telling(j)
  /\ a \notin toldAgain

ToldInv ==
  /\ \A a \in Alerts \ contended : Once(a)
  /\ \A j \in Jobs : \A a \in Telling(j) : alert[a] \in {"fired", "gone"}
  /\ \A a \in told : alert[a] \in {"fired", "gone"}

LEMMA ToldStep == PriceTypeOK /\ ToldInv /\ [PriceNext]_priceVars => ToldInv'
<1> SUFFICES ASSUME PriceTypeOK, ToldInv, [PriceNext]_priceVars PROVE ToldInv'
  OBVIOUS
<1>t. /\ alert \in [Alerts -> {"none", "pending", "fired", "gone"}] /\ job \in [Jobs -> Job]
      /\ told \subseteq Alerts /\ contended \subseteq Alerts
      /\ \A j \in Jobs : Telling(j) \subseteq Alerts
  <2>1. \A j \in Jobs : job[j].at = "tell" => job[j].fire \subseteq Alerts
    BY JobFields
  <2> QED BY <2>1 DEF PriceTypeOK, Telling
<1>n. NoJob.at = "none"
  BY DEF NoJob
<1>0. ASSUME UNCHANGED <<told, toldAgain, contended>>,
             \A a \in Alerts : alert'[a] = "fired" => alert[a] = "fired",
             \A a \in Alerts : alert[a] \in {"fired", "gone"} => alert'[a] \in {"fired", "gone"},
             \A j \in Jobs : Telling(j)' \subseteq Telling(j),
             \A j \in Jobs : \A a \in Holding(j)' : a \in Holding(j) \/ (a \in Alerts => alert'[a] # "fired")
      PROVE ToldInv'
  <2>1. ASSUME NEW a \in Alerts \ contended PROVE Once(a)'
    BY <1>0, <2>1 DEF ToldInv, Once
  <2>2. \A j \in Jobs : \A a \in Telling(j)' : alert'[a] \in {"fired", "gone"}
    BY <1>0, <1>t DEF ToldInv
  <2>3. \A a \in told : alert'[a] \in {"fired", "gone"}
    BY <1>0, <1>t DEF ToldInv
  <2> QED BY <1>0, <2>1, <2>2, <2>3 DEF ToldInv
<1>j. ASSUME NEW j \in Jobs, NEW next, Goes(j, next), UNCHANGED <<alert, told, toldAgain, contended>>,
             next.at # "tell",
             next.at \in {"check", "commit"} =>
               \A a \in next.fire : a \in Holding(j) \/ alert[a] = "pending"
      PROVE ToldInv'
  <2>1. job'[j] = next /\ \A k \in Jobs \ {j} : job'[k] = job[k]
    BY <1>j, <1>t DEF Goes
  <2>2. \A k \in Jobs : Telling(k)' \subseteq Telling(k)
    BY <1>j, <2>1 DEF Telling
  <2>3. \A k \in Jobs : \A a \in Holding(k)' : a \in Holding(k) \/ alert'[a] # "fired"
    BY <1>j, <2>1 DEF Holding
  <2> QED BY <1>0, <1>j, <2>2, <2>3
<1>1. ASSUME NEW j \in Jobs, NEW op \in Writers, NEW price \in MaybePrice, NEW on \in Days,
             Load(j, op, price, on)
      PROVE ToldInv'
  BY <1>1, <1>j DEF Load
<1>2. ASSUME NEW j \in Jobs, FindPending(j) PROVE ToldInv'
  <2>1. job[j] \in [op : Writers, at : {"loaded", "commit"}, seen : Doc, on : Days,
                    price : MaybePrice, fire : SUBSET Alerts]
    BY <1>2, JobFields DEF FindPending
  <2> DEFINE next == [job[j] EXCEPT !.at = "commit", !.fire = Evaluate(job[j].price)]
  <2>2. next.at = "commit" /\ next.fire = Evaluate(job[j].price)
    BY <2>1
  <2>3. \A a \in next.fire : alert[a] = "pending"
    BY <2>2 DEF Evaluate, Satisfied, Pending
  <2>4. Goes(j, next) /\ UNCHANGED <<alert, told, toldAgain, contended>>
    BY <1>2 DEF FindPending
  <2> HIDE DEF next
  <2> QED BY <1>j, <2>2, <2>3, <2>4
<1>3. ASSUME NEW j \in Jobs, Commit(j) PROVE ToldInv'
  <2> DEFINE F == job[j].fire
  <2>1. /\ job[j].at = "commit" /\ F \subseteq Alerts /\ \A a \in F : alert[a] # "gone"
        /\ alert' = [a \in Alerts |-> IF a \in F THEN "fired" ELSE alert[a]]
        /\ contended' = contended \cup (F \cap UNION {Holding(k) : k \in Jobs \ {j}})
        /\ UNCHANGED <<told, toldAgain>>
    BY <1>3, JobFields DEF Commit
  <2>2. \A k \in Jobs \ {j} : job'[k] = job[k]
    BY <1>3, <1>t DEF Commit, Goes
  <2>3. job'[j] = IF F = {} THEN NoJob ELSE [op |-> job[j].op, at |-> "tell", fire |-> F]
    BY <1>3, <1>t DEF Commit, Goes
  <2>4. Telling(j)' = F /\ Holding(j)' = {} /\ Holding(j) = F /\ Telling(j) = {}
    <3>1. Holding(j) = F /\ Telling(j) = {}
      BY <2>1 DEF Telling, Holding
    <3>2. CASE F = {}
      <4>1. job'[j].at = "none"
        BY <2>3, <3>2, <1>n
      <4> QED BY <3>1, <3>2, <4>1 DEF Telling, Holding
    <3>3. CASE F # {}
      <4>1. job'[j].at = "tell" /\ job'[j].fire = F
        BY <2>3, <3>3
      <4> QED BY <3>1, <4>1 DEF Telling, Holding
    <3> QED BY <3>2, <3>3
  <2>5. \A k \in Jobs \ {j} : Telling(k)' = Telling(k) /\ Holding(k)' = Holding(k)
    BY <2>2 DEF Telling, Holding
  <2> HIDE DEF F
  <2>6. ASSUME NEW a \in Alerts \ contended' PROVE Once(a)'
    <3>1. a \notin contended /\ Once(a)
      BY <2>1, <2>6 DEF ToldInv
    <3>2. CASE a \in F
      <4>1. \A k \in Jobs \ {j} : a \notin Holding(k)
        BY <2>1, <2>6, <3>2
      <4>2. alert[a] \notin {"fired", "gone"}
        BY <2>1, <2>4, <3>1, <3>2 DEF Once
      <4>3. a \notin told /\ \A k \in Jobs : a \notin Telling(k)
        BY <4>2 DEF ToldInv
      <4>4. \A k \in Jobs : a \notin Holding(k)'
        BY <2>4, <2>5, <4>1
      <4>5. \A k \in Jobs : a \in Telling(k)' => k = j
        BY <2>5, <4>3
      <4> QED BY <2>1, <3>1, <4>3, <4>4, <4>5 DEF Once
    <3>3. CASE a \notin F
      <4>1. alert'[a] = alert[a] /\ \A k \in Jobs : (a \in Telling(k)' <=> a \in Telling(k))
        BY <2>1, <2>4, <2>5, <2>6, <3>3
      <4>2. \A k \in Jobs : a \in Holding(k)' => a \in Holding(k)
        BY <2>4, <2>5
      <4> QED BY <2>1, <3>1, <4>1, <4>2 DEF Once
    <3> QED BY <3>2, <3>3
  <2>7. \A a \in Alerts : alert[a] \in {"fired", "gone"} => alert'[a] \in {"fired", "gone"}
    BY <2>1
  <2>8. \A k \in Jobs : \A a \in Telling(k)' : alert'[a] \in {"fired", "gone"}
    BY <1>t, <2>1, <2>4, <2>5, <2>7 DEF ToldInv
  <2>9. \A a \in told' : alert'[a] \in {"fired", "gone"}
    BY <1>t, <2>1, <2>7 DEF ToldInv
  <2> QED BY <2>6, <2>8, <2>9 DEF ToldInv
<1>4. ASSUME NEW j \in Jobs, NEW a \in Alerts, Tell(j, a) PROVE ToldInv'
  <2>1. job[j] \in [op : Writers \cup {"create"}, at : {"tell"}, fire : SUBSET Alerts]
        /\ a \in job[j].fire
    BY <1>4, JobFields DEF Tell
  <2>2. /\ UNCHANGED <<alert, contended>> /\ told' = told \cup {a}
        /\ toldAgain' = IF a \in told THEN toldAgain \cup {a} ELSE toldAgain
    BY <1>4 DEF Tell
  <2>3. \A k \in Jobs \ {j} : job'[k] = job[k]
    BY <1>4, <1>t DEF Tell, Goes
  <2>4. job'[j] = IF job[j].fire = {a} THEN NoJob ELSE [job[j] EXCEPT !.fire = job[j].fire \ {a}]
    BY <1>4, <1>t, <2>1 DEF Tell, Goes
  <2>5. Telling(j) = job[j].fire /\ Telling(j)' = job[j].fire \ {a} /\ Holding(j)' = {}
    BY <2>1, <2>4, <1>n DEF Telling, Holding
  <2>6. \A k \in Jobs \ {j} : Telling(k)' = Telling(k) /\ Holding(k)' = Holding(k)
    BY <2>3 DEF Telling, Holding
  <2>7. ASSUME NEW b \in Alerts \ contended' PROVE Once(b)'
    <3>1. Once(b)
      BY <2>2, <2>7 DEF ToldInv
    <3>2. \A k \in Jobs : b \in Holding(k)' => b \in Holding(k)
      BY <2>5, <2>6
    <3>3. CASE b = a
      <4>1. a \notin told /\ \A k \in Jobs \ {j} : a \notin Telling(k)
        BY <2>1, <2>5, <3>1, <3>3 DEF Once
      <4>2. \A k \in Jobs : a \notin Telling(k)'
        BY <2>5, <2>6, <4>1
      <4> QED BY <2>2, <3>1, <3>2, <3>3, <4>1, <4>2 DEF Once
    <3>4. CASE b # a
      <4>1. \A k \in Jobs : b \in Telling(k)' => b \in Telling(k)
        BY <2>5, <2>6
      <4> QED BY <2>2, <3>1, <3>2, <3>4, <4>1 DEF Once
    <3> QED BY <3>3, <3>4
  <2>8. \A k \in Jobs : \A b \in Telling(k)' : alert'[b] \in {"fired", "gone"}
    BY <2>2, <2>5, <2>6 DEF ToldInv
  <2>9. \A b \in told' : alert'[b] \in {"fired", "gone"}
    BY <2>1, <2>2, <2>5 DEF ToldInv
  <2> QED BY <2>7, <2>8, <2>9 DEF ToldInv
<1>5. ASSUME NEW j \in Jobs, NEW a \in Alerts, CreateAlert(j, a) PROVE ToldInv'
  <2>1. /\ alert' = [alert EXCEPT ![a] = "pending"] /\ alert[a] = "none"
        /\ UNCHANGED <<told, toldAgain, contended>>
        /\ Goes(j, [op |-> "create", at |-> "check", seen |-> doc, fire |-> {a}])
    BY <1>5 DEF CreateAlert
  <2>2. /\ \A k \in Jobs \ {j} : job'[k] = job[k]
        /\ job'[j].at = "check" /\ job'[j].fire = {a}
    BY <2>1, <1>t DEF Goes
  <2>3. \A k \in Jobs : Telling(k)' \subseteq Telling(k)
    BY <2>2 DEF Telling
  <2>4. \A k \in Jobs : \A b \in Holding(k)' : b \in Holding(k) \/ (b \in Alerts => alert'[b] # "fired")
    BY <2>1, <2>2, <1>t DEF Holding
  <2>5. /\ \A b \in Alerts : alert'[b] = "fired" => alert[b] = "fired"
        /\ \A b \in Alerts : alert[b] \in {"fired", "gone"} => alert'[b] \in {"fired", "gone"}
    BY <2>1, <1>t
  <2> QED BY <1>0, <2>1, <2>3, <2>4, <2>5
<1>6. ASSUME NEW j \in Jobs, FireOnCreate(j) PROVE ToldInv'
  <2>1. job[j] \in [op : {"create"}, at : {"check", "commit"}, seen : Doc, fire : SUBSET Alerts]
    BY <1>6, JobFields DEF FireOnCreate
  <2>2. /\ [job[j] EXCEPT !.at = "commit"].at = "commit"
        /\ [job[j] EXCEPT !.at = "commit"].fire = Holding(j)
    BY <2>1 DEF Holding
  <2>3. PICK next \in {NoJob, [job[j] EXCEPT !.at = "commit"]} : Goes(j, next)
    BY <1>6 DEF FireOnCreate
  <2>4. next.at # "tell" /\ (next.at \in {"check", "commit"} => next.fire = Holding(j))
    BY <2>2, <2>3, <1>n
  <2> QED BY <1>6, <1>j, <2>3, <2>4 DEF FireOnCreate
<1>7. ASSUME NEW j \in Jobs, Drop(j) PROVE ToldInv'
  BY <1>7, <1>j, <1>n DEF Drop
<1>8. ASSUME NEW a \in Alerts, DeleteAlert(a) PROVE ToldInv'
  <2>1. /\ \A b \in Alerts : alert'[b] = "fired" => alert[b] = "fired"
        /\ \A b \in Alerts : alert[b] \in {"fired", "gone"} => alert'[b] \in {"fired", "gone"}
        /\ UNCHANGED <<job, told, toldAgain, contended>>
    BY <1>8, <1>t DEF DeleteAlert
  <2> QED BY <1>0, <2>1 DEF Telling, Holding
<1>9. ASSUME UNCHANGED <<alert, job, told, toldAgain, contended>> PROVE ToldInv'
  BY <1>9, <1>0 DEF Telling, Holding
<1> QED BY <1>1, <1>2, <1>3, <1>4, <1>5, <1>6, <1>7, <1>8, <1>9 DEF PriceNext, NextDay, priceVars

(* AlertToldOnce, for any number of jobs and alerts: an owner is told twice *)
(* only of an alert two evaluators had both read as pending, and told only  *)
(* of one a commit has fired.                                               *)
THEOREM ToldOnce == PriceSpec => []AlertToldOnce
<1>1. PriceInit => PriceTypeOK /\ ToldInv
  BY PriceInitial DEF PriceInit, ToldInv, Once, Telling, Holding, NoJob
<1>2. PriceTypeOK /\ ToldInv /\ [PriceNext]_priceVars => PriceTypeOK' /\ ToldInv'
  BY PriceTypes, ToldStep
<1>3. PriceTypeOK /\ ToldInv => AlertToldOnce
  BY DEF PriceTypeOK, ToldInv, Once, AlertToldOnce
<1> QED BY <1>1, <1>2, <1>3, PTL DEF PriceSpec

----------------------------------------------------------------------------
(* The cap on the vault.                                                   *)

(* The adds that counted room for their card and have not inserted it.      *)
Counted == {a \in Adders : add[a] = LetIn(TRUE)}

(* The cap as the counts under way read it is the cap in force or a lower   *)
(* one, and the cards held and about to be held stay within the bound.      *)
CapInv ==
  /\ CapTypeOK
  /\ ~excused => \A a \in Adders : add[a].at = "count" => add[a].limit <= shape.limit
  /\ ~excused => cards + Cardinality(Counted) < shape.limit + Cardinality(Adders)

LEMMA CountedFinite ==
  /\ IsFiniteSet(Adders) /\ IsFiniteSet(Counted)
  /\ Cardinality(Adders) \in Nat /\ Cardinality(Counted) \in Nat
  /\ Cardinality(Counted) <= Cardinality(Adders)
<1>1. IsFiniteSet(Adders) /\ Counted \subseteq Adders
  BY SomeAdders DEF Counted
<1>2. IsFiniteSet(Counted) /\ Cardinality(Counted) <= Cardinality(Adders)
  BY <1>1, FS_Subset
<1>3. Cardinality(Counted) \in Nat
  BY <1>2, FS_CardinalityType
<1>4. Cardinality(Adders) \in Nat
  BY <1>1, FS_CardinalityType
<1> QED BY <1>1, <1>2, <1>3, <1>4

LEMMA CapInitial == CapInit => CapInv
<1> SUFFICES ASSUME CapInit PROVE CapInv
  OBVIOUS
<1>1. CapTypeOK
  <2>1. shape \in Shape
    BY DEF CapInit, Shape
  <2>2. cards \in 0..MaxCards /\ notices \in 0..2
    BY CapBounds DEF CapInit
  <2>3. add \in [Adders -> Adding]
    BY DEF CapInit, Adding
  <2> QED BY <2>1, <2>2, <2>3 DEF CapInit, CapTypeOK
<1>2. Counted = {} /\ \A a \in Adders : add[a].at = "none"
  BY DEF CapInit, Counted, LetIn, NotAdding
<1>3. Cardinality(Counted) = 0
  BY <1>2, FS_EmptySet
<1>4. Cardinality(Adders) > 0
  <2>1. Cardinality(Adders) # 0
    BY SomeAdders, FS_EmptySet
  <2> QED BY <2>1, CountedFinite
<1>5. cards = 0 /\ shape.limit \in Nat
  BY CapBounds DEF CapInit, Limits
<1> QED BY <1>1, <1>2, <1>3, <1>4, <1>5, CountedFinite DEF CapInv

(* A step of one add that is not let in leaves fewer counted, if any.       *)
LEMMA CountedShrinks ==
  ASSUME CapTypeOK, NEW a \in Adders, NEW next, Steps(a, next), next # LetIn(TRUE)
  PROVE  /\ Cardinality(Counted') <= Cardinality(Counted)
         /\ Cardinality(Counted') \in Nat
         /\ add[a] = LetIn(TRUE) => Cardinality(Counted') = Cardinality(Counted) - 1
<1>1. add' = [add EXCEPT ![a] = next] /\ add \in [Adders -> Adding]
  BY DEF Steps, CapTypeOK
<1>2. Counted' = Counted \ {a}
  BY <1>1 DEF Counted
<1>3. IsFiniteSet(Counted \ {a}) /\ Cardinality(Counted \ {a}) <= Cardinality(Counted)
  BY CountedFinite, FS_Subset
<1>4. Cardinality(Counted \ {a}) \in Nat
  BY <1>3, FS_CardinalityType
<1>5. ASSUME add[a] = LetIn(TRUE)
      PROVE Cardinality(Counted \ {a}) = Cardinality(Counted) - 1
  BY <1>5, CountedFinite, FS_RemoveElement DEF Counted
<1> QED BY <1>2, <1>3, <1>4, <1>5

LEMMA CapStep == CapInv /\ [CapNext]_capVars => CapInv'
<1> SUFFICES ASSUME CapInv, [CapNext]_capVars PROVE CapInv'
  OBVIOUS
<1> USE CapBounds
<1>t. CapTypeOK /\ cards \in Nat /\ shape.limit \in Nat
  BY DEF CapInv, CapTypeOK, Shape, Limits
<1>s. ASSUME NEW a \in Adders, NEW next \in Adding, Steps(a, next), next # LetIn(TRUE),
             next.at # "count", UNCHANGED <<cards, shape>>, excused' = excused,
             pro' \in BOOLEAN, logged' \in BOOLEAN, notices' \in 0..2, crossing' \in BOOLEAN
      PROVE CapInv'
  <2>1. CapTypeOK'
    BY <1>s, <1>t DEF CapTypeOK, Steps
  <2>2. ~excused' => \A b \in Adders : add'[b].at = "count" => add'[b].limit <= shape'.limit
    BY <1>s, <1>t DEF CapInv, CapTypeOK, Steps
  <2>3. Cardinality(Counted') <= Cardinality(Counted) /\ Cardinality(Counted') \in Nat
    BY <1>s, <1>t, CountedShrinks
  <2> QED BY <2>1, <2>2, <2>3, <1>s, <1>t, CountedFinite DEF CapInv
<1>1. ASSUME NEW a \in Adders, StartAdd(a) PROVE CapInv'
  <2>1. [at |-> "switch", pro |-> pro] \in Adding
    BY <1>t DEF CapTypeOK, Adding
  <2> QED BY <1>1, <1>s, <1>t, <2>1 DEF StartAdd, CapTypeOK, LetIn
<1>2. ASSUME NEW a \in Adders, ReadSwitch(a) PROVE CapInv'
  <2>1. LetIn(FALSE) \in Adding /\ [at |-> "config"] \in Adding
    BY DEF Adding, LetIn
  <2>2. LetIn(FALSE) # LetIn(TRUE) /\ LetIn(FALSE).at = "insert" /\ [at |-> "config"] # LetIn(TRUE)
    BY DEF LetIn
  <2> QED BY <1>2, <1>s, <1>t, <2>1, <2>2 DEF ReadSwitch, CapTypeOK
<1>3. ASSUME NEW a \in Adders, ReadShape(a) PROVE CapInv'
  <2>1. CASE ~shape.capped
    <3>1. LetIn(FALSE) \in Adding /\ LetIn(FALSE) # LetIn(TRUE) /\ LetIn(FALSE).at = "insert"
      BY DEF Adding, LetIn
    <3> QED BY <1>3, <1>s, <1>t, <2>1, <3>1 DEF ReadShape, CapTypeOK
  <2>2. CASE shape.capped
    <3>1. Steps(a, [at |-> "count", limit |-> shape.limit]) /\ UNCHANGED <<cards, shape, excused>>
      BY <1>3, <2>2 DEF ReadShape
    <3>2. [at |-> "count", limit |-> shape.limit] \in Adding
      BY <1>t DEF CapTypeOK, Shape, Adding
    <3>3. CapTypeOK'
      BY <1>3, <1>t, <3>1, <3>2 DEF ReadShape, CapTypeOK, Steps
    <3>4. ~excused' => \A b \in Adders : add'[b].at = "count" => add'[b].limit <= shape'.limit
      BY <3>1, <1>t DEF CapInv, CapTypeOK, Steps
    <3>5. Cardinality(Counted') <= Cardinality(Counted) /\ Cardinality(Counted') \in Nat
      <4>1. [at |-> "count", limit |-> shape.limit] # LetIn(TRUE)
        BY DEF LetIn
      <4> QED BY <3>1, <4>1, <1>t, CountedShrinks
    <3> QED BY <3>1, <3>3, <3>4, <3>5, <1>t, CountedFinite DEF CapInv
  <2> QED BY <2>1, <2>2
<1>4. ASSUME NEW a \in Adders, CountCards(a) PROVE CapInv'
  <2>1. CASE Full(cards, add[a].limit)
    <3>1. [at |-> "notice"] \in Adding /\ [at |-> "notice"] # LetIn(TRUE)
      BY DEF Adding, LetIn
    <3> QED BY <1>4, <1>s, <1>t, <2>1, <3>1 DEF CountCards, CapTypeOK
  <2>2. CASE ~Full(cards, add[a].limit)
    <3>1. Steps(a, LetIn(TRUE)) /\ UNCHANGED <<cards, shape, excused>> /\ add[a].at = "count"
      BY <1>4, <2>2 DEF CountCards
    <3>2. LetIn(TRUE) \in Adding
      BY DEF Adding, LetIn
    <3>3. CapTypeOK'
      BY <1>4, <1>t, <3>1, <3>2 DEF CountCards, CapTypeOK, Steps
    <3>4. ~excused' => \A b \in Adders : add'[b].at = "count" => add'[b].limit <= shape'.limit
      BY <3>1, <1>t DEF CapInv, CapTypeOK, Steps, LetIn
    <3>5. ~excused => cards < shape.limit
      <4>1. add[a] \in Adding
        BY <1>t DEF CapTypeOK
      <4>2. add[a].limit \in Nat
        BY <4>1, <3>1 DEF Adding, NotAdding, Limits
      <4> QED BY <2>2, <3>1, <4>2, <1>t DEF CapInv, Full
    <3>6. Cardinality(Counted') <= Cardinality(Adders) /\ Cardinality(Counted') \in Nat
      <4>1. Counted' \subseteq Adders /\ IsFiniteSet(Counted')
        BY CountedFinite, FS_Subset DEF Counted
      <4>2. Cardinality(Counted') \in Nat
        BY <4>1, FS_CardinalityType
      <4> QED BY <4>1, <4>2, CountedFinite, FS_Subset
    <3> QED BY <3>1, <3>3, <3>4, <3>5, <3>6, <1>t, CountedFinite DEF CapInv
  <2> QED BY <2>1, <2>2
<1>5. ASSUME NEW a \in Adders, Insert(a) PROVE CapInv'
  <2>1. NotAdding \in Adding /\ NotAdding # LetIn(TRUE) /\ NotAdding.at = "none"
    BY DEF Adding, LetIn, NotAdding
  <2>2. cards < MaxCards /\ cards' = cards + 1 /\ Steps(a, NotAdding) /\ UNCHANGED shape
    BY <1>5 DEF Insert
  <2>3. add[a] \in Adding /\ add[a].at = "insert"
    BY <1>5, <1>t DEF Insert, CapTypeOK
  <2>4. add[a].counted \in BOOLEAN /\ (add[a].counted => add[a] = LetIn(TRUE))
    <3>1. add[a] \in [at : {"insert"}, counted : BOOLEAN]
      BY <2>3 DEF Adding, NotAdding
    <3> QED BY <3>1 DEF LetIn
  <2>5. CapTypeOK'
    BY <1>5, <1>t, <2>1, <2>2, <2>4 DEF Insert, CapTypeOK, Steps
  <2>6. ~excused' => \A b \in Adders : add'[b].at = "count" => add'[b].limit <= shape'.limit
    BY <1>5, <1>t, <2>1, <2>2 DEF Insert, CapInv, CapTypeOK, Steps
  <2>7. ~excused' => ~excused /\ add[a] = LetIn(TRUE)
    BY <1>5, <2>4 DEF Insert
  <2>8. add[a] = LetIn(TRUE) => Cardinality(Counted') = Cardinality(Counted) - 1
    BY <1>t, <2>1, <2>2, CountedShrinks
  <2>9. ~excused' => cards + Cardinality(Counted) < shape.limit + Cardinality(Adders)
    BY <2>7 DEF CapInv
  <2>10. ~excused' => cards' + Cardinality(Counted') < shape'.limit + Cardinality(Adders)
    BY <2>2, <2>7, <2>8, <2>9, <1>t, CountedFinite
  <2> QED BY <2>5, <2>6, <2>10 DEF CapInv
<1>6. ASSUME NEW a \in Adders, AskLog(a) PROVE CapInv'
  <2>1. NotAdding \in Adding /\ NotAdding # LetIn(TRUE) /\ NotAdding.at = "none"
    BY DEF Adding, LetIn, NotAdding
  <2>2. [at |-> "mail"] \in Adding /\ [at |-> "mail"] # LetIn(TRUE)
    BY DEF Adding, LetIn
  <2> QED BY <1>6, <1>s, <1>t, <2>1, <2>2 DEF AskLog, CapTypeOK
<1>7. ASSUME NEW a \in Adders, SendNotice(a) PROVE CapInv'
  <2>1. NotAdding \in Adding /\ NotAdding # LetIn(TRUE) /\ NotAdding.at = "none"
    BY DEF Adding, LetIn, NotAdding
  <2>2. notices' \in 0..2 /\ logged' \in BOOLEAN /\ crossing' \in BOOLEAN
    BY <1>7, <1>t DEF SendNotice, CapTypeOK
  <2> QED BY <1>7, <1>s, <1>t, <2>1, <2>2 DEF SendNotice, CapTypeOK
<1>8. ASSUME NEW a \in Adders, AddEnds(a) PROVE CapInv'
  <2>1. NotAdding \in Adding /\ NotAdding # LetIn(TRUE) /\ NotAdding.at = "none"
    BY DEF Adding, LetIn, NotAdding
  <2> QED BY <1>8, <1>s, <1>t, <2>1 DEF AddEnds, CapTypeOK
<1>9. ASSUME add' = add, CapTypeOK', excused' \/ (cards' <= cards /\ shape'.limit >= shape.limit /\ ~excused)
      PROVE CapInv'
  <2>1. Counted' = Counted
    BY <1>9 DEF Counted
  <2>2. cards' \in Nat /\ shape'.limit \in Nat
    BY <1>9 DEF CapTypeOK, Shape, Limits
  <2>3. ~excused' => \A b \in Adders : add'[b].at = "count" => add'[b].limit <= shape'.limit
    <3> SUFFICES ASSUME ~excused', NEW b \in Adders, add[b].at = "count"
                 PROVE add[b].limit <= shape'.limit
      BY <1>9
    <3>1. add[b] \in Adding
      BY <1>t DEF CapTypeOK
    <3>2. add[b].limit \in Nat
      BY <3>1 DEF Adding, NotAdding, Limits
    <3>3. add[b].limit <= shape.limit
      BY <1>9 DEF CapInv
    <3> QED BY <1>9, <1>t, <2>2, <3>2, <3>3
  <2> QED BY <1>9, <1>t, <2>1, <2>2, <2>3, CountedFinite DEF CapInv
<1>10. CASE RemoveCard
  <2>1. CapTypeOK'
    BY <1>10, <1>t DEF RemoveCard, CapTypeOK
  <2> QED BY <1>9, <1>10, <1>t, <2>1 DEF RemoveCard, CapTypeOK
<1>11. CASE ScanStores
  <2>1. CapTypeOK'
    BY <1>11, <1>t DEF ScanStores, CapTypeOK
  <2> QED BY <1>9, <1>11, <2>1 DEF ScanStores
<1>12. CASE PlanChanges
  <2>1. CapTypeOK'
    BY <1>12, <1>t DEF PlanChanges, CapTypeOK
  <2> QED BY <1>9, <1>12, <1>t, <2>1 DEF PlanChanges, CapTypeOK
<1>13. ASSUME NEW new \in Shape, ShapeChanges(new) PROVE CapInv'
  <2>1. CapTypeOK'
    BY <1>13, <1>t DEF ShapeChanges, CapTypeOK
  <2>2. new.limit \in Nat
    BY DEF Shape, Limits
  <2>3. excused' \/ (~excused /\ ~(new.limit < shape.limit))
    BY <1>13 DEF ShapeChanges
  <2>4. excused' \/ (~excused /\ new.limit >= shape.limit)
    BY <2>2, <2>3, <1>t
  <2>5. add' = add /\ cards' = cards /\ shape' = new
    BY <1>13 DEF ShapeChanges
  <2> QED BY <1>9, <1>t, <2>1, <2>4, <2>5
<1>14. CASE UNCHANGED capVars
  <2>1. CapTypeOK'
    BY <1>14, <1>t DEF capVars, CapTypeOK
  <2> QED BY <1>9, <1>14, <1>t, <2>1 DEF capVars, CapTypeOK
<1> QED BY <1>1, <1>2, <1>3, <1>4, <1>5, <1>6, <1>7, <1>8, <1>10, <1>11, <1>12, <1>13, <1>14
        DEF CapNext

(* OvershootIsBounded, for any number of concurrent adds and any cap: adds  *)
(* that counted the same cards pass it by fewer than their number.          *)
THEOREM Overshoot == CapSpec => []OvershootIsBounded
<1>1. CapInv => OvershootIsBounded
  BY CountedFinite, CapBounds DEF CapInv, CapTypeOK, Shape, Limits, OvershootIsBounded
<1> QED BY <1>1, CapInitial, CapStep, PTL DEF CapSpec

(* Until two adds are about to mail or a log row is lost, an add is about   *)
(* to mail only while the log is empty, and it is the only one.             *)
NoticeInv ==
  ~crossing =>
    /\ ~logged => notices = 0
    /\ notices # 2
    /\ \A a \in Adders : Mailing(a) => ~logged
    /\ \A a, b \in Adders : Mailing(a) /\ Mailing(b) => a = b

LEMMA NoticeStep == CapTypeOK /\ NoticeInv /\ [CapNext]_capVars => NoticeInv'
<1> SUFFICES ASSUME CapTypeOK, NoticeInv, [CapNext]_capVars, ~crossing'
             PROVE NoticeInv'
  BY DEF NoticeInv
<1>t. add \in [Adders -> Adding]
  BY DEF CapTypeOK
<1>s. ASSUME NEW a \in Adders, NEW next, Steps(a, next), next.at # "mail"
      PROVE \A b \in Adders : Mailing(b)' => Mailing(b) /\ b # a
  BY <1>s, <1>t DEF Steps, Mailing
<1>q. ASSUME UNCHANGED <<logged, notices, crossing>>,
             \A b \in Adders : Mailing(b)' => Mailing(b)
      PROVE NoticeInv'
  BY <1>q DEF NoticeInv
<1>1. ASSUME NEW a \in Adders, SendNotice(a) PROVE NoticeInv'
  <2>1. ~crossing /\ logged' /\ ~logged /\ Mailing(a) /\ notices = 0 /\ notices' = 1
    BY <1>1 DEF SendNotice, NoticeInv
  <2>2. \A b \in Adders : Mailing(b)' => Mailing(b) /\ b # a
    BY <1>1, <1>s DEF SendNotice, NotAdding
  <2>3. \A b \in Adders : ~Mailing(b)'
    BY <2>1, <2>2 DEF NoticeInv
  <2> QED BY <2>1, <2>3 DEF NoticeInv
<1>2. ASSUME NEW a \in Adders, AskLog(a) PROVE NoticeInv'
  <2>1. CASE logged
    <3>1. Steps(a, NotAdding) /\ UNCHANGED <<logged, notices>> /\ ~crossing
      BY <1>2, <2>1 DEF AskLog, EverSent
    <3>2. \A b \in Adders : Mailing(b)' => Mailing(b)
      BY <3>1, <1>s DEF NotAdding
    <3> QED BY <3>1, <3>2 DEF NoticeInv
  <2>2. CASE ~logged
    <3>1. Steps(a, [at |-> "mail"]) /\ UNCHANGED <<logged, notices>> /\ ~crossing
      BY <1>2, <2>2 DEF AskLog, EverSent
    <3>2. \A b \in Adders : ~Mailing(b)
      BY <1>2, <2>2 DEF AskLog
    <3>3. \A b \in Adders : Mailing(b)' => b = a
      BY <3>1, <3>2, <1>t DEF Steps, Mailing
    <3> QED BY <2>2, <3>1, <3>3 DEF NoticeInv
  <2> QED BY <2>1, <2>2
<1>3. ASSUME NEW a \in Adders,
             StartAdd(a) \/ ReadSwitch(a) \/ ReadShape(a) \/ CountCards(a) \/ Insert(a) \/ AddEnds(a)
      PROVE NoticeInv'
  <2>1. UNCHANGED <<logged, notices, crossing>>
    BY <1>3 DEF StartAdd, ReadSwitch, ReadShape, CountCards, Insert, AddEnds
  <2>2. PICK next : Steps(a, next) /\ next.at # "mail"
    BY <1>3 DEF StartAdd, ReadSwitch, ReadShape, CountCards, Insert, AddEnds, LetIn, NotAdding
  <2>3. \A b \in Adders : Mailing(b)' => Mailing(b)
    BY <2>2, <1>s
  <2> QED BY <1>q, <2>1, <2>3
<1>4. ASSUME RemoveCard \/ ScanStores \/ PlanChanges \/ UNCHANGED capVars
             \/ \E new \in Shape : ShapeChanges(new)
      PROVE NoticeInv'
  BY <1>4, <1>q DEF RemoveCard, ScanStores, PlanChanges, ShapeChanges, capVars, Mailing
<1> QED BY <1>1, <1>2, <1>3, <1>4 DEF CapNext

(* OneNotice, for any number of concurrent adds: the delivery log keeps the *)
(* vault-full notice to one, unless two adds had both found the log empty   *)
(* or the row of one was lost.                                              *)
THEOREM NoticeOnce == CapSpec => []OneNotice
<1>1. CapInit => CapTypeOK /\ NoticeInv
  BY CapInitial DEF CapInit, CapInv, NoticeInv, Mailing, NotAdding
<1>2. CapInv /\ NoticeInv /\ [CapNext]_capVars => CapInv' /\ NoticeInv'
  BY CapStep, NoticeStep DEF CapInv
<1>3. NoticeInv => OneNotice
  BY DEF NoticeInv, OneNotice
<1> QED BY <1>1, <1>2, <1>3, CapInitial, PTL DEF CapSpec

----------------------------------------------------------------------------
(* The mail sent.                                                          *)

(* The event a webhook handles is still to be answered, or its answer has   *)
(* had its effect or its exception.                                         *)
Owed(h) == <<hook[h].of, hook[h].kind>> \in open \/ suppressed \/ forgotten

BounceInv ==
  /\ EmailTypeOK
  /\ \A h \in EmailHooks : hook[h] # NoHook /\ hook[h].kind \in Harsh => Owed(h)
  /\ mail.status \in Harsh => open # {} \/ suppressed \/ forgotten

LEMMA HookFields ==
  ASSUME EmailTypeOK, NEW h \in EmailHooks, hook[h] # NoHook
  PROVE  /\ hook[h].of \in Messages /\ hook[h].kind \in Kinds
         /\ hook[h].at \in {"move", "suppress"}
         /\ hook[h].at = "suppress" => hook[h].kind \in Harsh
         /\ hook[h].at = "move" => hook[h].seen \in Statuses
BY DEF EmailTypeOK, Hooking, NoHook, Harsh

LEMMA SendFields ==
  ASSUME EmailTypeOK, NEW s \in Mailers
  PROVE  /\ send[s].at = "post" => send[s].try \in {1, 2} /\ send[s].keyed \in BOOLEAN
         /\ send[s].at \in {"mark", "write"} => send[s].ok \in BOOLEAN /\ send[s].id \in 0..MaxMessages
         /\ send[s].at = "write" =>
              send[s].seen.status \in Statuses /\ send[s].seen.id \in 0..MaxMessages
BY DEF EmailTypeOK, Sending, NotSending

(* What the sends and the provider change keeps the types.                  *)
LEMMA EmailTypes == EmailTypeOK /\ [EmailNext]_emailVars => EmailTypeOK'
<1> SUFFICES ASSUME EmailTypeOK, [EmailNext]_emailVars PROVE EmailTypeOK'
  OBVIOUS
<1>t. /\ mail \in MailRow /\ send \in [Mailers -> Sending]
      /\ taken.count \in 0..MaxMessages /\ taken.underKey \in 0..MaxMessages
      /\ hook \in [EmailHooks -> Hooking] /\ open \subseteq Messages \X Harsh
      /\ suppressed \in BOOLEAN /\ forgotten \in BOOLEAN /\ clash \in BOOLEAN
  BY DEF EmailTypeOK
<1>m. MaxMessages \in Nat /\ Kinds \subseteq Statuses /\ Harsh \subseteq Kinds
  BY EmailBounds DEF Statuses, Harsh
<1>p. NotSending \in Sending /\ NoHook \in Hooking /\ Failed \in Sending
  BY <1>m DEF Sending, Hooking, Failed, NoMessage
<1>s. ASSUME NEW s \in Mailers, NEW next \in Sending, Moves(s, next),
             UNCHANGED <<mail, taken, hook, suppressed, open, forgotten>>, clash' \in BOOLEAN
      PROVE EmailTypeOK'
  BY <1>s, <1>t DEF EmailTypeOK, Moves
<1>h. ASSUME NEW h \in EmailHooks, NEW next \in Hooking, HookMoves(h, next),
             UNCHANGED <<send, taken>>, mail' \in MailRow, open' \subseteq Messages \X Harsh,
             suppressed' \in BOOLEAN, forgotten' \in BOOLEAN, clash' \in BOOLEAN
      PROVE EmailTypeOK'
  BY <1>h, <1>t DEF EmailTypeOK, HookMoves
<1>k. ASSUME NEW s \in Mailers, Take(s), send[s].at = "post"
      PROVE /\ taken' \in [count : 0..MaxMessages, underKey : 0..MaxMessages]
            /\ MessageFor(send[s].keyed) \in 0..MaxMessages
  <2>1. MessageFor(send[s].keyed) \in 1..MaxMessages /\ send[s].keyed \in BOOLEAN
    BY <1>k, SendFields DEF Take, Messages
  <2>3. MessageFor(send[s].keyed) > taken.count => taken.count + 1 \in 0..MaxMessages
    BY <2>1, <1>t, <1>m
  <2>4. (IF MessageFor(send[s].keyed) > taken.count THEN taken.count + 1 ELSE taken.count)
           \in 0..MaxMessages
    BY <2>3, <1>t
  <2>5. (IF send[s].keyed THEN MessageFor(TRUE) ELSE taken.underKey) \in 0..MaxMessages
    <3>1. CASE send[s].keyed
      <4>1. MessageFor(TRUE) \in 0..MaxMessages
        BY <2>1, <3>1 DEF MessageFor
      <4> QED BY <3>1, <4>1
    <3>2. CASE ~send[s].keyed
      BY <3>2, <1>t
    <3> QED BY <3>1, <3>2
  <2>6. MessageFor(send[s].keyed) \in 0..MaxMessages
    BY <2>1
  <2> QED BY <1>k, <2>4, <2>5, <2>6 DEF Take
<1>c. ASSUME NEW s \in Mailers, NEW next \in Sending, Moves(s, next),
             taken' \in [count : 0..MaxMessages, underKey : 0..MaxMessages],
             UNCHANGED <<mail, hook, suppressed, open, forgotten, clash>>
      PROVE EmailTypeOK'
  BY <1>c, <1>t DEF EmailTypeOK, Moves
<1>1. ASSUME NEW s \in Mailers, Retry(s) PROVE EmailTypeOK'
  <2>1. [at |-> "post", try |-> 1, keyed |-> FALSE] \in Sending
    BY DEF Sending
  <2>2. clash' \in BOOLEAN
    BY <1>1, <1>t DEF Retry
  <2> QED BY <1>1, <1>s, <2>1, <2>2 DEF Retry
<1>2. ASSUME NEW s \in Mailers, Accepted(s) PROVE EmailTypeOK'
  <2>1. PICK id \in {NoMessage, MessageFor(send[s].keyed)} :
          Moves(s, [at |-> "mark", ok |-> TRUE, id |-> id])
    BY <1>2 DEF Accepted
  <2>2. id \in 0..MaxMessages
    BY <1>2, <1>k, <1>m DEF Accepted, NoMessage
  <2>3. [at |-> "mark", ok |-> TRUE, id |-> id] \in Sending
    BY <2>2 DEF Sending
  <2> QED BY <1>2, <1>k, <1>c, <2>1, <2>3 DEF Accepted
<1>r. ASSUME NEW s \in Mailers, send[s].at = "post"
      PROVE [send[s] EXCEPT !.try = 2] \in Sending
  <2>1. send[s] \in [at : {"post"}, try : {1, 2}, keyed : BOOLEAN]
    BY <1>r, <1>t DEF Sending, NotSending
  <2> QED BY <2>1 DEF Sending
<1>3. ASSUME NEW s \in Mailers, AnswerLost(s) PROVE EmailTypeOK'
  BY <1>3, <1>k, <1>c, <1>p, <1>r DEF AnswerLost
<1>4. ASSUME NEW s \in Mailers, Refuse(s) PROVE EmailTypeOK'
  BY <1>4, <1>s, <1>p, <1>r, <1>t DEF Refuse
<1>5. ASSUME NEW s \in Mailers, LoadRow(s) PROVE EmailTypeOK'
  <2>1. [status |-> mail.status, id |-> mail.id] \in [status : Statuses, id : 0..MaxMessages]
    BY <1>t DEF MailRow
  <2>2. send[s].ok \in BOOLEAN /\ send[s].id \in 0..MaxMessages
    BY <1>5, SendFields DEF LoadRow
  <2>3. [at |-> "write", ok |-> send[s].ok, id |-> send[s].id,
         seen |-> [status |-> mail.status, id |-> mail.id]] \in Sending
    BY <2>1, <2>2 DEF Sending
  <2> QED BY <1>5, <1>s, <1>t, <2>3 DEF LoadRow
<1>6. ASSUME NEW s \in Mailers, MarkSent(s) \/ MarkFailed(s) PROVE EmailTypeOK'
  <2>1. send[s].id \in 0..MaxMessages
    BY <1>6, SendFields DEF MarkSent, MarkFailed
  <2>2. mail' \in MailRow
    BY <1>6, <1>t, <2>1 DEF MarkSent, MarkFailed, MailRow, PutField, Statuses
  <2>3. /\ UNCHANGED <<taken, hook, suppressed, open, forgotten, clash>>
        /\ Moves(s, NotSending)
    BY <1>6 DEF MarkSent, MarkFailed
  <2> QED BY <1>t, <1>p, <2>2, <2>3 DEF EmailTypeOK, Moves
<1>7. ASSUME NEW s \in Mailers, SendDies(s) PROVE EmailTypeOK'
  BY <1>7, <1>s, <1>p, <1>t DEF SendDies
<1>8. ASSUME NEW h \in EmailHooks, NEW m \in Messages, NEW kind \in Kinds, Find(h, m, kind)
      PROVE EmailTypeOK'
  <2>1. [at |-> "move", of |-> m, kind |-> kind, seen |-> mail.status] \in Hooking
    BY <1>t DEF Hooking, MailRow
  <2>2. open' \subseteq Messages \X Harsh /\ clash' \in BOOLEAN
    BY <1>8, <1>t DEF Find, Delivered
  <2> QED BY <1>8, <1>h, <1>t, <2>1, <2>2 DEF Find
<1>9. ASSUME NEW m \in Messages, NEW kind \in Harsh, NoRow(m, kind) PROVE EmailTypeOK'
  BY <1>9, <1>t DEF NoRow, EmailTypeOK
<1>10. ASSUME NEW h \in EmailHooks, MoveRow(h) PROVE EmailTypeOK'
  <2>1. hook[h] # NoHook
    BY <1>10 DEF MoveRow, NoHook
  <2>2. hook[h].of \in Messages /\ hook[h].kind \in Kinds
    BY <2>1, HookFields
  <2>3. mail' \in MailRow
    BY <1>10, <1>t, <1>m, <2>2 DEF MoveRow, MailRow
  <2>4. open' \subseteq Messages \X Harsh
    BY <1>10, <1>t DEF MoveRow, Answered
  <2>5. CASE hook[h].kind \in Harsh
    <3>1. [at |-> "suppress", of |-> hook[h].of, kind |-> hook[h].kind] \in Hooking
      BY <2>2, <2>5 DEF Hooking
    <3> QED BY <1>10, <1>h, <1>t, <2>3, <2>4, <2>5, <3>1 DEF MoveRow, Reports
  <2>6. CASE hook[h].kind \notin Harsh
    BY <1>10, <1>h, <1>t, <1>p, <2>3, <2>4, <2>6 DEF MoveRow, Reports
  <2> QED BY <2>5, <2>6
<1>11. ASSUME NEW h \in EmailHooks, Suppress(h) \/ Swallow(h) \/ HookDies(h) PROVE EmailTypeOK'
  <2>1. /\ open' \subseteq Messages \X Harsh
        /\ suppressed' \in BOOLEAN /\ forgotten' \in BOOLEAN
        /\ HookMoves(h, NoHook) /\ UNCHANGED <<mail, send, taken, clash>>
    BY <1>11, <1>t DEF Suppress, Swallow, HookDies, Answered
  <2> QED BY <2>1, <1>h, <1>p, <1>t
<1>12. CASE UNCHANGED emailVars
  BY <1>12 DEF emailVars, EmailTypeOK
<1> QED BY <1>1, <1>2, <1>3, <1>4, <1>5, <1>6, <1>7, <1>8, <1>9, <1>10, <1>11, <1>12 DEF EmailNext

LEMMA EmailInitial == EmailInit => EmailTypeOK
<1> SUFFICES ASSUME EmailInit PROVE EmailTypeOK
  OBVIOUS
<1>1. MaxMessages \in Nat
  BY EmailBounds
<1>2. mail \in MailRow /\ mail.keyed \in BOOLEAN
  BY <1>1 DEF EmailInit, MailRow, Statuses, NoMessage
<1>3. send \in [Mailers -> Sending]
  BY <1>2 DEF EmailInit, Sending
<1>4. hook \in [EmailHooks -> Hooking] /\ open = {}
  BY DEF EmailInit, Hooking
<1>5. taken \in [count : 0..MaxMessages, underKey : 0..MaxMessages]
  BY <1>1 DEF EmailInit, NoMessage
<1> QED BY <1>2, <1>3, <1>4, <1>5 DEF EmailInit, EmailTypeOK

(* Every row, hook, send and open event stays well typed.                   *)
THEOREM MailTypes == EmailSpec => []EmailTypeOK
BY EmailInitial, EmailTypes, PTL DEF EmailSpec

LEMMA BounceStep == BounceInv /\ [EmailNext]_emailVars => BounceInv'
<1> SUFFICES ASSUME BounceInv, [EmailNext]_emailVars PROVE BounceInv'
  OBVIOUS
<1>t. EmailTypeOK /\ EmailTypeOK'
  BY EmailTypes DEF BounceInv
<1>u. send \in [Mailers -> Sending] /\ hook \in [EmailHooks -> Hooking]
      /\ mail \in MailRow /\ open \subseteq Messages \X Harsh
  BY <1>t DEF EmailTypeOK
<1>a. Harsh \subseteq {"bounced", "complained"}
  BY DEF Harsh
<1>s. ASSUME UNCHANGED <<hook, open, suppressed, forgotten>>,
             mail'.status \in Harsh => mail.status \in Harsh
      PROVE BounceInv'
  <2>1. \A h \in EmailHooks : hook'[h] # NoHook /\ hook'[h].kind \in Harsh => Owed(h)'
    BY <1>s DEF BounceInv, Owed
  <2> QED BY <1>s, <1>t, <2>1 DEF BounceInv
<1>e. ASSUME suppressed' \/ forgotten' PROVE BounceInv'
  BY <1>e, <1>t DEF BounceInv, Owed
<1>h. ASSUME NEW h \in EmailHooks, hook' = [hook EXCEPT ![h] = NoHook],
             open' = open, mail' = mail, UNCHANGED <<suppressed, forgotten>>
      PROVE BounceInv'
  <2>1. \A g \in EmailHooks : hook'[g] # NoHook => hook'[g] = hook[g]
    BY <1>h, <1>u
  <2>2. \A g \in EmailHooks : hook'[g] # NoHook /\ hook'[g].kind \in Harsh => Owed(g)'
    BY <1>h, <2>1 DEF BounceInv, Owed
  <2> QED BY <1>h, <1>t, <2>2 DEF BounceInv
<1>1. ASSUME NEW s \in Mailers,
             Retry(s) \/ Accepted(s) \/ AnswerLost(s) \/ Refuse(s) \/ LoadRow(s) \/ SendDies(s)
      PROVE BounceInv'
  BY <1>1, <1>s DEF Retry, Accepted, AnswerLost, Refuse, LoadRow, SendDies
<1>2. ASSUME NEW s \in Mailers, MarkSent(s) \/ MarkFailed(s) PROVE BounceInv'
  <2>1. mail'.status \in {mail.status, "sent", "failed"}
    BY <1>2, <1>u DEF MarkSent, MarkFailed, PutField, MailRow
  <2>2. mail'.status \in Harsh => mail.status \in Harsh
    BY <2>1, <1>a
  <2> QED BY <1>2, <1>s, <2>2 DEF MarkSent, MarkFailed
<1>3. ASSUME NEW h \in EmailHooks, NEW m \in Messages, NEW kind \in Kinds, Find(h, m, kind)
      PROVE BounceInv'
  <2>1. /\ hook' = [hook EXCEPT ![h] = [at |-> "move", of |-> m, kind |-> kind, seen |-> mail.status]]
        /\ open' = open \cup ({m} \X ({kind} \cap Harsh))
        /\ UNCHANGED <<mail, suppressed, forgotten>>
    BY <1>3 DEF Find, HookMoves, Delivered
  <2>2. \A g \in EmailHooks : hook'[g] # NoHook /\ hook'[g].kind \in Harsh => Owed(g)'
    <3>1. hook'[h].of = m /\ hook'[h].kind = kind
      BY <2>1, <1>u
    <3>2. kind \in Harsh => <<m, kind>> \in open'
      BY <2>1
    <3>3. \A g \in EmailHooks \ {h} : hook'[g] = hook[g]
      BY <2>1, <1>u
    <3> QED BY <2>1, <3>1, <3>2, <3>3 DEF BounceInv, Owed
  <2> QED BY <2>1, <2>2, <1>t DEF BounceInv
<1>4. ASSUME NEW m \in Messages, NEW kind \in Harsh, NoRow(m, kind) PROVE BounceInv'
  BY <1>4, <1>e DEF NoRow
<1>5. ASSUME NEW h \in EmailHooks, MoveRow(h) PROVE BounceInv'
  <2>1. hook[h].at = "move" /\ hook[h] # NoHook
    BY <1>5 DEF MoveRow, NoHook
  <2>2. mail'.status \in {mail.status, hook[h].kind} /\ UNCHANGED <<suppressed, forgotten>>
    BY <1>5, <1>u DEF MoveRow, MailRow
  <2>3. CASE hook[h].kind \in Harsh
    <3>1. /\ open' = open
          /\ hook' = [hook EXCEPT ![h] = [at |-> "suppress", of |-> hook[h].of, kind |-> hook[h].kind]]
      BY <1>5, <2>3 DEF MoveRow, Reports, HookMoves
    <3>2. \A g \in EmailHooks : hook'[g] # NoHook /\ hook'[g].kind \in Harsh =>
             hook[g] # NoHook /\ hook'[g].of = hook[g].of /\ hook'[g].kind = hook[g].kind
      BY <3>1, <2>1, <1>u
    <3>3. \A g \in EmailHooks : hook'[g] # NoHook /\ hook'[g].kind \in Harsh => Owed(g)'
      BY <2>2, <3>1, <3>2 DEF BounceInv, Owed
    <3>4. open # {} \/ suppressed \/ forgotten
      BY <2>1, <2>3 DEF BounceInv, Owed
    <3> QED BY <2>2, <3>1, <3>3, <3>4, <1>t DEF BounceInv
  <2>4. CASE hook[h].kind \notin Harsh
    <3>1. hook' = [hook EXCEPT ![h] = NoHook] /\ open' = open
      BY <1>5, <2>4, <1>u DEF MoveRow, Reports, HookMoves, Answered
    <3>2. mail'.status \in Harsh => mail.status \in Harsh
      BY <2>2, <2>4
    <3>3. \A g \in EmailHooks : hook'[g] # NoHook => hook'[g] = hook[g]
      BY <3>1, <1>u
    <3>4. \A g \in EmailHooks : hook'[g] # NoHook /\ hook'[g].kind \in Harsh => Owed(g)'
      BY <2>2, <3>1, <3>3 DEF BounceInv, Owed
    <3> QED BY <2>2, <3>1, <3>2, <3>4, <1>t DEF BounceInv
  <2> QED BY <2>3, <2>4
<1>6. ASSUME NEW h \in EmailHooks, Suppress(h) PROVE BounceInv'
  BY <1>6, <1>e DEF Suppress
<1>7. ASSUME NEW h \in EmailHooks, Swallow(h) PROVE BounceInv'
  <2>1. CASE hook[h].kind \in Harsh
    BY <1>7, <1>e, <2>1 DEF Swallow
  <2>2. CASE hook[h].kind \notin Harsh
    <3>1. open' = open
      BY <1>7, <1>u, <2>2 DEF Swallow, Answered
    <3>2. forgotten' = forgotten
      BY <1>7, <1>t, <2>2 DEF Swallow, EmailTypeOK
    <3> QED BY <1>7, <1>h, <3>1, <3>2 DEF Swallow, HookMoves
  <2> QED BY <2>1, <2>2
<1>8. ASSUME NEW h \in EmailHooks, HookDies(h) PROVE BounceInv'
  BY <1>8, <1>h DEF HookDies, HookMoves
<1>9. CASE UNCHANGED emailVars
  BY <1>9, <1>s DEF emailVars
<1> QED BY <1>1, <1>2, <1>3, <1>4, <1>5, <1>6, <1>7, <1>8, <1>9 DEF EmailNext

(* BouncedIsSuppressed, for any number of sends and webhooks: a bounce or a *)
(* complaint ends in the suppression, unless one was answered in vain.      *)
THEOREM Bounced == EmailSpec => []BouncedIsSuppressed
<1>1. EmailInit => BounceInv
  BY EmailInitial DEF EmailInit, BounceInv, Harsh
<1>2. BounceInv => BouncedIsSuppressed
  BY DEF BounceInv, BouncedIsSuppressed
<1> QED BY <1>1, <1>2, BounceStep, PTL DEF EmailSpec

(* Until two sends or two webhooks overlap: one send works on the row, while*)
(* it has no provider_id; once it has one nothing sends it any more, and    *)
(* what the one webhook read is what the row says.                          *)
Sends(s) == send[s] # NotSending

OrderInv ==
  ~clash =>
    /\ \A s, n \in Mailers : Sends(s) /\ Sends(n) => s = n
    /\ \A s \in Mailers : Sends(s) => mail.status \in {"queued", "failed"} /\ mail.id = NoMessage
    /\ \A s \in Mailers : send[s].at = "write" => send[s].seen.status \in {"queued", "failed"}
    /\ mail.id # NoMessage => mail.status \notin {"queued", "failed"}
    /\ \A h \in EmailHooks : hook[h].at = "move" =>
         mail.id # NoMessage /\ hook[h].seen = mail.status
    /\ \A h, g \in EmailHooks : hook[h].at = "move" /\ hook[g].at = "move" => h = g

LEMMA RankType == \A s \in Statuses : Rank(s) \in 0..5
BY DEF Statuses, Rank

LEMMA OrderStep ==
  EmailTypeOK /\ OrderInv /\ [EmailNext]_emailVars =>
    /\ OrderInv'
    /\ mail.status \in Final => Rank(mail'.status) >= Rank(mail.status) \/ clash
<1> DEFINE Step == OrderInv' /\ (mail.status \in Final => Rank(mail'.status) >= Rank(mail.status) \/ clash)
<1> SUFFICES ASSUME EmailTypeOK, OrderInv, [EmailNext]_emailVars PROVE Step
  OBVIOUS
<1>u. /\ send \in [Mailers -> Sending] /\ hook \in [EmailHooks -> Hooking]
      /\ mail \in MailRow /\ clash \in BOOLEAN
  BY DEF EmailTypeOK
<1>m. mail.status \in Statuses /\ Rank(mail.status) >= Rank(mail.status)
  BY <1>u, RankType DEF MailRow
<1>f. Final \cap {"queued", "failed"} = {}
  BY DEF Final
<1>s. ASSUME NEW s \in Mailers, Sends(s), NEW next, Moves(s, next),
             next.at = "write" => next.seen.status \in {"queued", "failed"} \/ clash,
             UNCHANGED <<mail, hook, clash>>
      PROVE Step
  <2>1. \A n \in Mailers : Sends(n)' => Sends(n)
    BY <1>s, <1>u DEF Moves, Sends
  <2>2. \A n \in Mailers : send'[n].at = "write" =>
            clash \/ send'[n].seen.status \in {"queued", "failed"}
    BY <1>s, <1>u DEF Moves, OrderInv
  <2> QED BY <1>s, <1>m, <2>1, <2>2 DEF OrderInv
<1>h. ASSUME NEW h \in EmailHooks, NEW next, HookMoves(h, next), next.at # "move",
             UNCHANGED <<mail, send, clash>>
      PROVE Step
  <2>1. \A g \in EmailHooks : hook'[g].at = "move" => hook'[g] = hook[g]
    BY <1>h, <1>u DEF HookMoves
  <2> QED BY <1>h, <1>m, <2>1 DEF OrderInv, Sends
<1>1. ASSUME NEW s \in Mailers, Retry(s) PROVE Step
  <2>1. CASE clash'
    BY <1>1, <1>m, <2>1 DEF OrderInv, Retry
  <2>2. CASE ~clash'
    <3>1. ~clash /\ \A n \in Mailers : ~Sends(n)
      BY <1>1, <2>2 DEF Retry, Sends
    <3>2. mail.status \in {"queued", "failed"}
      BY <1>1 DEF Retry, Retryable
    <3>3. mail.id = NoMessage
      BY <3>1, <3>2 DEF OrderInv
    <3>4. \A n \in Mailers : Sends(n)' => n = s
      BY <1>1, <1>u, <3>1 DEF Retry, Moves, Sends
    <3>5. \A n \in Mailers : send'[n].at # "write"
      BY <1>1, <1>u, <3>1 DEF Retry, Moves, Sends, NotSending
    <3> QED BY <1>1, <1>m, <3>1, <3>2, <3>3, <3>4, <3>5 DEF Retry, OrderInv
  <2> QED BY <2>1, <2>2
<1>2. ASSUME NEW s \in Mailers, Accepted(s) PROVE Step
  <2>1. PICK id \in {NoMessage, MessageFor(send[s].keyed)} :
          Moves(s, [at |-> "mark", ok |-> TRUE, id |-> id])
    BY <1>2 DEF Accepted
  <2>2. Sends(s)
    BY <1>2 DEF Accepted, Sends, NotSending
  <2> QED BY <1>2, <1>s, <2>1, <2>2 DEF Accepted
<1>r. ASSUME NEW s \in Mailers, send[s].at = "post"
      PROVE Sends(s) /\ [send[s] EXCEPT !.try = 2].at = "post" /\ Failed.at = "mark"
  BY <1>r, <1>u DEF Sends, NotSending, Sending, Failed
<1>3. ASSUME NEW s \in Mailers, AnswerLost(s) PROVE Step
  BY <1>3, <1>r, <1>s DEF AnswerLost
<1>4. ASSUME NEW s \in Mailers, Refuse(s) PROVE Step
  BY <1>4, <1>r, <1>s DEF Refuse
<1>5. ASSUME NEW s \in Mailers, LoadRow(s) PROVE Step
  <2>1. Sends(s)
    BY <1>5 DEF LoadRow, Sends, NotSending
  <2>2. clash \/ mail.status \in {"queued", "failed"}
    BY <2>1 DEF OrderInv
  <2> QED BY <1>5, <1>s, <2>1, <2>2 DEF LoadRow
<1>6. ASSUME NEW s \in Mailers, MarkSent(s) \/ MarkFailed(s) PROVE Step
  <2>1. CASE clash
    <3>1. clash'
      BY <1>6, <2>1 DEF MarkSent, MarkFailed
    <3> QED BY <2>1, <3>1 DEF OrderInv
  <2>2. CASE ~clash
    <3>1. send[s].at = "write" /\ Sends(s)
      BY <1>6 DEF MarkSent, MarkFailed, Sends, NotSending
    <3>2. \A n \in Mailers : ~Sends(n)'
      BY <1>6, <1>u, <2>2, <3>1 DEF MarkSent, MarkFailed, Moves, Sends, OrderInv
    <3>3. \A n \in Mailers : send'[n].at # "write"
      BY <3>2 DEF Sends, NotSending
    <3>4. \A h \in EmailHooks : hook[h].at # "move"
      BY <2>2, <3>1 DEF OrderInv
    <3>5. mail'.id # NoMessage => mail'.status \notin {"queued", "failed"}
      <4>1. send[s].seen.status # "sent" /\ mail.id = NoMessage
        BY <2>2, <3>1 DEF OrderInv
      <4> QED BY <1>6, <1>u, <4>1 DEF MarkSent, MarkFailed, PutField, MailRow
    <3>6. mail.status \notin Final
      BY <2>2, <3>1, <1>f DEF OrderInv
    <3>7. UNCHANGED hook
      BY <1>6 DEF MarkSent, MarkFailed
    <3> QED BY <3>2, <3>3, <3>4, <3>5, <3>6, <3>7 DEF OrderInv
  <2> QED BY <2>1, <2>2
<1>7. ASSUME NEW s \in Mailers, SendDies(s) PROVE Step
  BY <1>7, <1>s DEF SendDies, Sends, NotSending
<1>8. ASSUME NEW h \in EmailHooks, NEW m \in Messages, NEW kind \in Kinds, Find(h, m, kind)
      PROVE Step
  <2>1. UNCHANGED <<mail, send>>
    BY <1>8 DEF Find
  <2>2. CASE clash'
    BY <1>m, <2>1, <2>2 DEF OrderInv
  <2>3. CASE ~clash'
    <3>1. ~clash /\ \A g \in EmailHooks \ {h} : hook[g].at # "move"
      BY <1>8, <2>3 DEF Find
    <3>2. mail.id # NoMessage
      BY <1>8 DEF Find, Messages, NoMessage
    <3>3. /\ hook'[h].seen = mail.status
          /\ \A g \in EmailHooks : hook'[g].at = "move" => g = h
      BY <1>8, <1>u, <3>1 DEF Find, HookMoves
    <3> QED BY <1>m, <2>1, <3>1, <3>2, <3>3 DEF OrderInv, Sends
  <2> QED BY <2>2, <2>3
<1>9. ASSUME NEW m \in Messages, NEW kind \in Harsh, NoRow(m, kind) PROVE Step
  BY <1>9, <1>m DEF NoRow, OrderInv, Sends
<1>10. ASSUME NEW h \in EmailHooks, MoveRow(h) PROVE Step
  <2>1. hook[h].at = "move" /\ UNCHANGED <<send, clash>>
    BY <1>10 DEF MoveRow
  <2>2. CASE clash
    BY <2>1, <2>2 DEF OrderInv
  <2>3. CASE ~clash
    <3>1. hook[h].kind \in Kinds /\ hook[h].seen = mail.status /\ mail.id # NoMessage
      BY <2>1, <2>3, HookFields DEF OrderInv, NoHook
    <3>2. mail'.id = mail.id
      BY <1>10, <1>u DEF MoveRow, MailRow
    <3>3. mail'.status = IF Advances(hook[h].kind, mail.status) THEN hook[h].kind ELSE mail.status
      BY <1>10, <1>u, <3>1 DEF MoveRow, MailRow
    <3>4. Rank(hook[h].kind) \in 0..5 /\ Rank(mail.status) \in 0..5
      BY <3>1, <1>m, EmailBounds, RankType DEF Statuses
    <3>5. Rank(mail'.status) >= Rank(mail.status)
      BY <3>3, <3>4 DEF Advances
    <3>6. mail'.status \notin {"queued", "failed"}
      <4>1. mail.status \notin {"queued", "failed"}
        BY <2>3, <3>1 DEF OrderInv
      <4>2. hook[h].kind \notin {"queued", "failed"}
        BY <3>1, EmailBounds
      <4> QED BY <3>3, <4>1, <4>2
    <3>7. \A n \in Mailers : ~Sends(n)
      BY <2>3, <3>1 DEF OrderInv
    <3>8. \A g \in EmailHooks : hook'[g].at # "move"
      <4>1. hook'[h].at # "move" /\ \A g \in EmailHooks \ {h} : hook'[g] = hook[g]
        BY <1>10, <1>u DEF MoveRow, HookMoves, NoHook
      <4> QED BY <2>1, <2>3, <4>1 DEF OrderInv
    <3>9. \A n \in Mailers : send[n].at # "write"
      BY <3>7 DEF Sends, NotSending
    <3> QED BY <2>1, <3>2, <3>5, <3>6, <3>7, <3>8, <3>9 DEF OrderInv, Sends
  <2> QED BY <2>2, <2>3
<1>11. ASSUME NEW h \in EmailHooks, Suppress(h) \/ Swallow(h) \/ HookDies(h) PROVE Step
  BY <1>11, <1>h DEF Suppress, Swallow, HookDies, NoHook
<1>12. CASE UNCHANGED emailVars
  BY <1>12, <1>m DEF emailVars, OrderInv, Sends
<1> QED BY <1>1, <1>2, <1>3, <1>4, <1>5, <1>6, <1>7, <1>8, <1>9, <1>10, <1>11, <1>12 DEF EmailNext

(* FinalNeverRegresses, for any number of sends and webhooks: what the      *)
(* provider said last stands while sends and webhooks come one at a time.   *)
THEOREM FinalStands == EmailSpec => FinalNeverRegresses
<1>1. EmailInit => EmailTypeOK /\ OrderInv
  BY EmailInitial DEF EmailInit, OrderInv, Sends, NotSending, NoHook
<1>2. EmailTypeOK /\ OrderInv /\ [EmailNext]_emailVars => EmailTypeOK' /\ OrderInv'
  BY EmailTypes, OrderStep
<1>3. EmailTypeOK /\ OrderInv /\ [EmailNext]_emailVars =>
        [mail.status \in Final => Rank(mail'.status) >= Rank(mail.status) \/ clash]_emailVars
  BY OrderStep
<1> QED BY <1>1, <1>2, <1>3, PTL DEF EmailSpec, FinalNeverRegresses

-----------------------------------------------------------------------------
(* The three side by side.                                                  *)

LEMMA PartsStep ==
  [MCNext]_<<priceVars, capVars, emailVars, part>>
    => [PriceNext]_priceVars /\ [CapNext]_capVars /\ [EmailNext]_emailVars
BY DEF MCNext

(* The composition implements each part's own specification, so that what is *)
(* proved of a part holds of the three together.                            *)
THEOREM EachVaultPart == MCSpec => PriceSpec /\ CapSpec /\ EmailSpec
<1>1. MCInit => PriceInit /\ CapInit /\ EmailInit
  BY DEF MCInit
<1> QED
  BY <1>1, PartsStep, PTL DEF MCSpec, PriceSpec, CapSpec, EmailSpec

(* The document, the vault and the mail keep their types side by side, and  *)
(* the price history its window.                                            *)
THEOREM VaultTypes == MCSpec => []VaultTypeOK
<1>1. CapInv => CapTypeOK
  BY DEF CapInv
<1>2. PriceTypeOK /\ WindowHolds /\ CapTypeOK /\ EmailTypeOK => VaultTypeOK
  BY DEF VaultTypeOK
<1>3. CapSpec => []CapTypeOK
  BY <1>1, CapInitial, CapStep, PTL DEF CapSpec
<1> QED
  BY <1>2, <1>3, EachVaultPart, CardTypes, Points, MailTypes, PTL
=============================================================================
