--------------------------- MODULE SwrCacheProofs ---------------------------
(* Theorems about SwrCache for any requests, any instances and any placing   *)
(* of the requests on them.                                                  *)
EXTENDS SwrCache, TLAPS

USE HomeAssumption, FreeAssumption

Places == Refreshing \cup
            {"new", "l2", "gate", "cold", "wait", "wait2", "held", "last", "done"}

(* A refresh under way holds the lock, unless its instance has been forced.  *)
Locked ==
  \A r \in Requests : pc[r] \in Refreshing => have_lock[r] \/ forced[HomeOf(r)]

(* Values are numbers of calls begun, and a call in flight has one.          *)
Numbered ==
  /\ \A i \in Instances : l1[i] <= calls
  /\ \A r \in Requests : value[r] <= calls
  /\ \A r \in Requests : pc[r] \in {"call", "store"} => value[r] \in Nat

(* The call in flight is at least as recent as what it will replace.         *)
Recent ==
  \A r \in Requests :
    pc[r] = "call" =>
      lapsed[HomeOf(r)] \/ forced[HomeOf(r)] \/ l1[HomeOf(r)] <= value[r]

(* Nothing is answered before the cache has been looked at.                  *)
Unanswered == \A r \in Requests : pc[r] \in {"new", "l2"} => answer[r] = "none"

(* A request that found the cache filled has its value, or is about to.      *)
Served ==
  \A r \in Requests :
    had[r] => \/ pc[r] = "l2" /\ l2
              \/ /\ pc[r] \in Refreshing \cup {"gate", "done"}
                 /\ role[r] \in {"none", "background"}
                 /\ answer[r] = "data"

IInv == TypeOK /\ SingleFlight /\ Locked /\ Numbered /\ Recent /\ Unanswered /\ Served

-----------------------------------------------------------------------------
(* Type correctness and single flight.                                       *)

LEMMA GotoType ==
  ASSUME pc \in [Requests -> Places], NEW r \in Requests, NEW p \in Places, Goto(r, p)
  PROVE  /\ pc' \in [Requests -> Places]
         /\ pc'[r] = p
         /\ \A q \in Requests \ {r} : pc'[q] = pc[q]
  BY DEF Goto

LEMMA InitIInv == Init => IInv
<1> SUFFICES ASSUME Init PROVE IInv
  OBVIOUS
<1>1. TypeOK
  BY DEF Init, TypeOK, Values, Nothing, Refreshing
<1>2. SingleFlight
  BY DEF Init, SingleFlight, Holders
<1>3. Locked /\ Numbered /\ Recent /\ Unanswered /\ Served
  BY DEF Init, Locked, Numbered, Recent, Unanswered, Served, Refreshing, Nothing
<1> QED
  BY <1>1, <1>2, <1>3 DEF IInv

(* Steps that only move a request, and may answer it, disturb little.        *)
LEMMA MoveKeeps ==
  ASSUME IInv, NEW r \in Requests,
         NEW p \in Places \ Refreshing, Goto(r, p),
         pc[r] \notin Refreshing,
         answer' \in [Requests -> {"none", "data", "empty"}],
         had' \in [Requests -> BOOLEAN],
         \A q \in Requests \ {r} : answer'[q] = answer[q] /\ had'[q] = had[q],
         p \in {"new", "l2"} => answer'[r] = "none",
         had'[r] => \/ p = "l2" /\ l2
                    \/ p \in {"gate", "done"} /\ answer'[r] = "data",
         UNCHANGED <<cache, lock, calls, role, have_lock, value, lapsed, forced>>
  PROVE  IInv'
<1> USE DEF cache, Values, Nothing
<1>1. /\ pc' \in [Requests -> Places]
      /\ pc'[r] = p
      /\ \A q \in Requests \ {r} : pc'[q] = pc[q]
  BY GotoType DEF IInv, TypeOK, Places
<1>2. TypeOK'
  BY <1>1 DEF IInv, TypeOK, Places
<1>3. SingleFlight'
  BY DEF IInv, SingleFlight, Holders
<1>4. Locked' /\ Recent'
  BY <1>1 DEF IInv, Locked, Recent, Refreshing
<1>5. Numbered'
  BY <1>1 DEF IInv, Numbered, Refreshing
<1>6. role[r] = "none"
  BY DEF IInv, TypeOK
<1>u. Unanswered'
  BY <1>1 DEF IInv, TypeOK, Unanswered, Refreshing
<1>7. Served'
  BY <1>1, <1>6 DEF IInv, Served
<1> QED
  BY <1>2, <1>3, <1>4, <1>5, <1>7, <1>u DEF IInv

(* The start of a refresh that acquires the lock.                            *)
LEMMA RefreshLockedKeeps ==
  ASSUME IInv, NEW r \in Requests, NEW why \in {"background", "cold", "last"},
         RefreshLocked(r, why), pc[r] \notin Refreshing,
         had[r] => why = "background" /\ pc[r] = "gate"
  PROVE  IInv'
<1> DEFINE i == HomeOf(r)
<1> USE DEF RefreshLocked, StartCall, cache
<1>1. /\ pc' \in [Requests -> Places]
      /\ pc'[r] = "call"
      /\ \A q \in Requests \ {r} : pc'[q] = pc[q]
  BY GotoType DEF IInv, TypeOK, Places, Refreshing
<1>2. TypeOK'
  <2>1. /\ calls' \in Nat
        /\ value' \in [Requests -> Values]
        /\ role' \in [Requests -> {"none", "background", "cold", "last"}]
        /\ have_lock' \in [Requests -> BOOLEAN]
        /\ lock' \in [Instances -> Requests \cup {Free}]
    BY DEF IInv, TypeOK, Values
  <2>2. \A q \in Requests : pc'[q] \in Refreshing <=> role'[q] # "none"
    BY <1>1 DEF IInv, TypeOK, Refreshing
  <2>3. \A q \in Requests : have_lock'[q] => pc'[q] \in Refreshing
    BY <1>1 DEF IInv, TypeOK, Refreshing
  <2> QED
    BY <1>1, <2>1, <2>2, <2>3 DEF IInv, TypeOK, Places
<1>3. SingleFlight'
  <2> SUFFICES ASSUME NEW j \in Instances, ~lapsed[j]
               PROVE  Holders(j)' = IF lock'[j] = Free THEN {} ELSE {lock'[j]}
    BY DEF SingleFlight
  <2>1. Holders(j) = IF lock[j] = Free THEN {} ELSE {lock[j]}
    BY DEF IInv, SingleFlight
  <2>2. CASE j = i
    BY <2>1, <2>2 DEF IInv, TypeOK, Holders, Acquirable
  <2>3. CASE j # i
    BY <2>1, <2>3 DEF IInv, TypeOK, Holders
  <2> QED
    BY <2>2, <2>3
<1>4. Locked'
  BY <1>1 DEF IInv, TypeOK, Locked
<1>5. Numbered'
  BY <1>1 DEF IInv, TypeOK, Values, Nothing, Numbered
<1>6. Recent'
  BY <1>1 DEF IInv, TypeOK, Values, Nothing, Numbered, Recent
<1>u. Unanswered'
  BY <1>1 DEF IInv, TypeOK, Unanswered, Refreshing
<1>7. Served'
  BY <1>1 DEF IInv, TypeOK, Served, Refreshing
<1> QED
  BY <1>2, <1>3, <1>4, <1>5, <1>6, <1>7, <1>u DEF IInv

(* The start of a refresh of last resort that runs without the lock.         *)
LEMMA RefreshForcedKeeps ==
  ASSUME IInv, NEW r \in Requests, pc[r] = "last",
         StartCall(r, "last", FALSE), UNCHANGED lock,
         forced' = [forced EXCEPT ![HomeOf(r)] = TRUE]
  PROVE  IInv'
<1> USE DEF StartCall, cache
<1>1. /\ pc' \in [Requests -> Places]
      /\ pc'[r] = "call"
      /\ \A q \in Requests \ {r} : pc'[q] = pc[q]
  BY GotoType DEF IInv, TypeOK, Places, Refreshing
<1>2. TypeOK'
  <2>1. /\ calls' \in Nat
        /\ value' \in [Requests -> Values]
        /\ role' \in [Requests -> {"none", "background", "cold", "last"}]
        /\ have_lock' \in [Requests -> BOOLEAN]
        /\ forced' \in [Instances -> BOOLEAN]
    BY DEF IInv, TypeOK, Values
  <2>2. \A q \in Requests : pc'[q] \in Refreshing <=> role'[q] # "none"
    BY <1>1 DEF IInv, TypeOK, Refreshing
  <2>3. \A q \in Requests : have_lock'[q] => pc'[q] \in Refreshing
    BY <1>1 DEF IInv, TypeOK, Refreshing
  <2> QED
    BY <1>1, <2>1, <2>2, <2>3 DEF IInv, TypeOK, Places
<1>3. have_lock' = have_lock
  BY DEF IInv, TypeOK, Refreshing
<1>4. SingleFlight'
  BY <1>3 DEF IInv, SingleFlight, Holders
<1>5. Locked'
  BY <1>1 DEF IInv, TypeOK, Locked
<1>6. Numbered'
  BY <1>1 DEF IInv, TypeOK, Values, Nothing, Numbered
<1>7. Recent'
  BY <1>1 DEF IInv, TypeOK, Recent
<1>u. Unanswered'
  BY <1>1 DEF IInv, TypeOK, Unanswered, Refreshing
<1>8. Served'
  BY <1>1 DEF IInv, TypeOK, Served, Refreshing
<1> QED
  BY <1>2, <1>4, <1>5, <1>6, <1>7, <1>8, <1>u DEF IInv

LEMMA StoreL1Keeps ==
  ASSUME IInv, NEW r \in Requests, StoreL1(r)
  PROVE  IInv'
<1> USE DEF StoreL1
<1>1. /\ pc' \in [Requests -> Places]
      /\ pc'[r] = "store"
      /\ \A q \in Requests \ {r} : pc'[q] = pc[q]
  BY GotoType DEF IInv, TypeOK, Places, Refreshing
<1>2. TypeOK'
  BY <1>1 DEF IInv, TypeOK, Places, Refreshing
<1>3. SingleFlight'
  BY DEF IInv, SingleFlight, Holders
<1>4. Locked'
  BY <1>1 DEF IInv, Locked, Refreshing
<1>5. Numbered'
  BY <1>1 DEF IInv, TypeOK, Numbered
<1>6. Recent'
  <2> SUFFICES ASSUME NEW q \in Requests, pc'[q] = "call",
                      ~lapsed[HomeOf(q)], ~forced[HomeOf(q)]
               PROVE  l1'[HomeOf(q)] <= value[q]
    BY DEF Recent
  <2>1. q # r /\ pc[q] = "call"
    BY <1>1
  <2>2. have_lock[q] /\ q \in Holders(HomeOf(q))
    BY <2>1 DEF IInv, Locked, Refreshing, Holders
  <2>3. CASE HomeOf(q) = HomeOf(r)
    <3>1. have_lock[r] /\ r \in Holders(HomeOf(q))
      BY <2>3 DEF IInv, Locked, Refreshing, Holders
    <3> QED
      BY <2>1, <2>2, <3>1 DEF IInv, SingleFlight
  <2>4. CASE HomeOf(q) # HomeOf(r)
    BY <2>1, <2>4 DEF IInv, TypeOK, Recent
  <2> QED
    BY <2>3, <2>4
<1>u. Unanswered'
  BY <1>1 DEF IInv, TypeOK, Unanswered, Refreshing
<1>7. Served'
  BY <1>1 DEF IInv, Served, Refreshing
<1> QED
  BY <1>2, <1>3, <1>4, <1>5, <1>6, <1>7, <1>u DEF IInv

LEMMA UpstreamFailsKeeps ==
  ASSUME IInv, NEW r \in Requests, UpstreamFails(r)
  PROVE  IInv'
<1> USE DEF UpstreamFails, cache
<1>1. /\ pc' \in [Requests -> Places]
      /\ pc'[r] = "release"
      /\ \A q \in Requests \ {r} : pc'[q] = pc[q]
  BY GotoType DEF IInv, TypeOK, Places, Refreshing
<1>2. TypeOK'
  BY <1>1 DEF IInv, TypeOK, Values, Places, Refreshing
<1>3. SingleFlight'
  BY DEF IInv, SingleFlight, Holders
<1>4. Locked'
  BY <1>1 DEF IInv, Locked, Refreshing
<1>5. Numbered' /\ Recent'
  BY <1>1 DEF IInv, TypeOK, Numbered, Recent, Values, Nothing
<1>u. Unanswered'
  BY <1>1 DEF IInv, TypeOK, Unanswered, Refreshing
<1>6. Served'
  BY <1>1 DEF IInv, Served, Refreshing
<1> QED
  BY <1>2, <1>3, <1>4, <1>5, <1>6, <1>u DEF IInv

LEMMA StoreL2Keeps ==
  ASSUME IInv, NEW r \in Requests, StoreL2(r)
  PROVE  IInv'
<1> USE DEF StoreL2
<1>1. /\ pc' \in [Requests -> Places]
      /\ pc'[r] = "release"
      /\ \A q \in Requests \ {r} : pc'[q] = pc[q]
  BY GotoType DEF IInv, TypeOK, Places, Refreshing
<1>2. TypeOK'
  BY <1>1 DEF IInv, TypeOK, Places, Refreshing
<1>3. SingleFlight'
  BY DEF IInv, SingleFlight, Holders
<1>4. Locked' /\ Numbered' /\ Recent'
  BY <1>1 DEF IInv, Locked, Numbered, Recent, Refreshing
<1>u. Unanswered'
  BY <1>1 DEF IInv, TypeOK, Unanswered, Refreshing
<1>5. Served'
  <2>1. l2 => l2'
    OBVIOUS
  <2> QED
    BY <1>1, <2>1 DEF IInv, Served, Refreshing
<1> QED
  BY <1>2, <1>3, <1>4, <1>5, <1>u DEF IInv

LEMMA ReleaseKeeps ==
  ASSUME IInv, NEW r \in Requests, Release(r)
  PROVE  IInv'
<1> USE DEF Release, cache
<1>1. PICK p \in {"done", "wait"} : Goto(r, p)
  OBVIOUS
<1>2. /\ pc' \in [Requests -> Places]
      /\ pc'[r] = p
      /\ \A q \in Requests \ {r} : pc'[q] = pc[q]
  BY <1>1, GotoType DEF IInv, TypeOK, Places, Refreshing
<1>3. TypeOK'
  <2>1. lock' \in [Instances -> Requests \cup {Free}]
    BY DEF IInv, TypeOK, Released
  <2>2. answer' \in [Requests -> {"none", "data", "empty"}]
    BY DEF IInv, TypeOK
  <2> QED
    BY <1>2, <2>1, <2>2 DEF IInv, TypeOK, Values, Nothing, Places, Refreshing
<1>4. SingleFlight'
  <2> SUFFICES ASSUME NEW j \in Instances, ~lapsed[j]
               PROVE  Holders(j)' = IF lock'[j] = Free THEN {} ELSE {lock'[j]}
    BY DEF SingleFlight
  <2>1. Holders(j) = IF lock[j] = Free THEN {} ELSE {lock[j]}
    BY DEF IInv, SingleFlight
  <2>2. Holders(j)' = Holders(j) \ {r}
    BY DEF IInv, TypeOK, Holders
  <2>3. CASE have_lock[r] /\ j = HomeOf(r)
    <3>1. r \in Holders(j)
      BY <2>3 DEF Holders
    <3>2. lock[j] = r /\ lock'[j] = Free
      BY <2>1, <2>3, <3>1 DEF IInv, TypeOK, Released
    <3> QED
      BY <2>1, <2>2, <3>2
  <2>4. CASE ~(have_lock[r] /\ j = HomeOf(r))
    <3>1. r \notin Holders(j)
      BY <2>4 DEF Holders
    <3>2. lock'[j] = lock[j]
      BY <2>4 DEF IInv, TypeOK, Released
    <3> QED
      BY <2>1, <2>2, <3>1, <3>2
  <2> QED
    BY <2>3, <2>4
<1>5. Locked' /\ Numbered' /\ Recent'
  BY <1>2 DEF IInv, TypeOK, Locked, Numbered, Recent, Refreshing, Values, Nothing
<1>u. Unanswered'
  BY <1>2 DEF IInv, TypeOK, Unanswered, Refreshing
<1>6. Served'
  <2> SUFFICES ASSUME NEW q \in Requests, had[q]
               PROVE  \/ pc'[q] = "l2" /\ l2
                      \/ /\ pc'[q] \in Refreshing \cup {"gate", "done"}
                         /\ role'[q] \in {"none", "background"}
                         /\ answer'[q] = "data"
    BY DEF Served
  <2>1. CASE q = r
    <3>1. role[r] \in {"none", "background"} /\ answer[r] = "data"
      BY <2>1 DEF IInv, Served, Refreshing
    <3>2. Goto(r, "done") /\ UNCHANGED answer
      BY <3>1
    <3>3. pc'[r] = "done"
      BY <3>2 DEF Goto, IInv, TypeOK
    <3> QED
      BY <2>1, <3>1, <3>2, <3>3 DEF IInv, TypeOK
  <2>2. CASE q # r
    <3>1. answer'[q] = answer[q] /\ role'[q] = role[q] /\ pc'[q] = pc[q]
      BY <1>2, <2>2 DEF IInv, TypeOK
    <3> QED
      BY <3>1 DEF IInv, Served
  <2> QED
    BY <2>1, <2>2
<1> QED
  BY <1>3, <1>4, <1>5, <1>6, <1>u DEF IInv

LEMMA ProceedKeeps ==
  ASSUME IInv, NEW r \in Requests, Proceed(r)
  PROVE  IInv'
<1> DEFINE MovedTo(p) ==
      /\ Goto(r, p)
      /\ pc[r] \notin Refreshing
      /\ answer' \in [Requests -> {"none", "data", "empty"}]
      /\ \A q \in Requests \ {r} : answer'[q] = answer[q]
      /\ UNCHANGED <<cache, lock, calls, role, have_lock, value, had, lapsed, forced>>
<1>1. ASSUME NEW p \in Places \ (Refreshing \cup {"new", "l2"}), MovedTo(p),
             had[r] => /\ p \in {"gate", "done"}
                       /\ answer'[r] = "data"
      PROVE  IInv'
  BY <1>1, MoveKeeps DEF IInv, TypeOK
<1> HIDE DEF MovedTo
<1>2. CASE ReadL2(r)
  <2>1. PICK p \in {"gate", "done", "cold"} : Goto(r, p) /\ (p = "cold" => ~l2)
    BY <1>2 DEF ReadL2, Serve
  <2>2. MovedTo(p)
    BY <1>2, <2>1 DEF ReadL2, Serve, IInv, TypeOK, MovedTo, Refreshing
  <2>3. had[r] => p \in {"gate", "done"} /\ answer'[r] = "data"
    <3>1. had[r] => l2
      BY <1>2 DEF ReadL2, IInv, Served, Refreshing
    <3> QED
      BY <1>2, <2>1, <3>1 DEF ReadL2, Serve, IInv, TypeOK
  <2> QED
    BY <1>1, <2>2, <2>3 DEF Places, Refreshing
<1>3. CASE Background(r)
  <2>1. CASE RefreshLocked(r, "background")
    BY <1>3, <2>1, RefreshLockedKeeps DEF Background, Refreshing
  <2>2. CASE Yield(r, "done")
    <3>1. MovedTo("done")
      BY <1>3, <2>2 DEF Background, Yield, MovedTo, IInv, TypeOK, Refreshing
    <3>2. had[r] => answer'[r] = "data"
      BY <1>3, <2>2 DEF Background, Yield, IInv, Served
    <3> QED
      BY <1>1, <3>1, <3>2 DEF Places, Refreshing
  <2> QED
    BY <1>3, <2>1, <2>2 DEF Background
<1>4. CASE ColdMiss(r)
  <2>1. pc[r] = "cold" /\ ~had[r]
    BY <1>4 DEF ColdMiss, IInv, Served, Refreshing
  <2>2. CASE RefreshLocked(r, "cold")
    BY <2>1, <2>2, RefreshLockedKeeps DEF Refreshing
  <2>3. CASE Yield(r, "wait")
    <3>1. MovedTo("wait")
      BY <2>1, <2>3 DEF Yield, MovedTo, IInv, TypeOK, Refreshing
    <3> QED
      BY <1>1, <2>1, <3>1 DEF Places, Refreshing
  <2> QED
    BY <1>4, <2>2, <2>3 DEF ColdMiss
<1>5. CASE LastResort(r)
  <2>1. pc[r] = "last" /\ ~had[r]
    BY <1>5 DEF LastResort, IInv, Served, Refreshing
  <2>2. CASE RefreshLocked(r, "last")
    BY <2>1, <2>2, RefreshLockedKeeps DEF Refreshing
  <2>3. CASE ~RefreshLocked(r, "last")
    BY <1>5, <2>1, <2>3, RefreshForcedKeeps DEF LastResort
  <2> QED
    BY <2>2, <2>3
<1>6. CASE StoreL1(r)
  BY <1>6, StoreL1Keeps
<1>7. CASE UpstreamFails(r)
  BY <1>7, UpstreamFailsKeeps
<1>8. CASE StoreL2(r)
  BY <1>8, StoreL2Keeps
<1>9. CASE Release(r)
  BY <1>9, ReleaseKeeps
<1>10. ASSUME NEW from \in {"wait", "wait2"}, NEW found \in BOOLEAN,
              NEW next \in {"wait2", "held"}, WaitFor(r, from, found, next)
       PROVE  IInv'
  <2>1. pc[r] = from /\ ~had[r]
    BY <1>10 DEF WaitFor, IInv, Served, Refreshing
  <2>2. PICK p \in {"wait2", "held", "done"} : Goto(r, p)
    BY <1>10 DEF WaitFor
  <2>3. MovedTo(p)
    BY <1>10, <2>1, <2>2 DEF WaitFor, MovedTo, IInv, TypeOK, Refreshing
  <2> QED
    BY <1>1, <2>1, <2>3 DEF Places, Refreshing
<1>11. CASE WaitL1(r)
  BY <1>10, <1>11 DEF WaitL1
<1>12. CASE WaitL2(r)
  BY <1>10, <1>12 DEF WaitL2, IInv, TypeOK
<1>13. CASE CheckLock(r)
  <2>1. pc[r] = "held" /\ ~had[r]
    BY <1>13 DEF CheckLock, IInv, Served, Refreshing
  <2>2. PICK p \in {"last", "wait"} : Goto(r, p)
    BY <1>13 DEF CheckLock
  <2>3. MovedTo(p)
    BY <1>13, <2>1, <2>2 DEF CheckLock, MovedTo, IInv, TypeOK, Refreshing
  <2> QED
    BY <1>1, <2>1, <2>3 DEF Places, Refreshing
<1> QED
  BY <1>2, <1>3, <1>4, <1>5, <1>6, <1>7, <1>8, <1>9, <1>11, <1>12, <1>13
     DEF Proceed

LEMMA NextIInv == IInv /\ [Next]_vars => IInv'
<1> SUFFICES ASSUME IInv, [Next]_vars PROVE IInv'
  OBVIOUS
<1>1. ASSUME NEW r \in Requests, Ask(r) PROVE IInv'
  <2>1. PICK p \in {"gate", "done", "l2"} : Goto(r, p)
    BY <1>1 DEF Ask, Serve
  <2>2. had'[r] => \/ p = "l2" /\ l2
                   \/ p \in {"gate", "done"} /\ answer'[r] = "data"
    <3>1. CASE l1[HomeOf(r)] # Nothing
      <4>1. answer'[r] = "data"
        BY <1>1, <3>1 DEF Ask, Serve, IInv, TypeOK
      <4>2. Goto(r, "gate") \/ Goto(r, "done")
        BY <1>1, <3>1 DEF Ask, Serve
      <4>3. p \in {"gate", "done"}
        BY <2>1, <4>2 DEF Goto, IInv, TypeOK
      <4> QED
        BY <4>1, <4>3
    <3>2. CASE l1[HomeOf(r)] = Nothing
      <4>1. had'[r] = l2
        BY <1>1, <3>2 DEF Ask, IInv, TypeOK
      <4>2. Goto(r, "l2")
        BY <1>1, <3>2 DEF Ask
      <4>3. p = "l2"
        BY <2>1, <4>2 DEF Goto, IInv, TypeOK
      <4> QED
        BY <4>1, <4>3
    <3> QED
      BY <3>1, <3>2
  <2>3. /\ pc[r] \notin Refreshing
        /\ had' \in [Requests -> BOOLEAN]
        /\ \A q \in Requests \ {r} : had'[q] = had[q]
        /\ UNCHANGED <<cache, lock, calls, role, have_lock, value, lapsed, forced>>
    BY <1>1 DEF Ask, IInv, TypeOK, Refreshing
  <2>4. /\ answer' \in [Requests -> {"none", "data", "empty"}]
        /\ \A q \in Requests \ {r} : answer'[q] = answer[q]
    BY <1>1 DEF Ask, Serve, IInv, TypeOK
  <2>5. p = "l2" => answer'[r] = "none"
    <3>1. CASE l1[HomeOf(r)] # Nothing
      BY <1>1, <2>1, <3>1 DEF Ask, Serve, Goto, IInv, TypeOK
    <3>2. CASE l1[HomeOf(r)] = Nothing
      BY <1>1, <3>2 DEF Ask, IInv, Unanswered
    <3> QED
      BY <3>1, <3>2
  <2> QED
    BY <2>1, <2>2, <2>3, <2>4, <2>5, MoveKeeps DEF Places, Refreshing
<1>2. ASSUME NEW r \in Requests, Proceed(r) PROVE IInv'
  BY <1>2, ProceedKeeps
<1>3. ASSUME NEW r \in Requests, Veto(r) PROVE IInv'
  <2>1. had[r] => answer'[r] = "data"
    BY <1>3 DEF Veto, IInv, Served
  <2> QED
    BY <1>3, <2>1, MoveKeeps DEF Veto, IInv, TypeOK, Places, Refreshing
<1>4. ASSUME NEW r \in Requests, Deadline(r) PROVE IInv'
  <2>1. ~had[r]
    BY <1>4 DEF Deadline, IInv, Served, Refreshing
  <2> QED
    BY <1>4, <2>1, MoveKeeps DEF Deadline, IInv, TypeOK, Places, Refreshing
<1>5. ASSUME NEW i \in Instances, LockExpires(i) PROVE IInv'
  <2> USE DEF LockExpires, cache, task
  <2>1. TypeOK'
    BY <1>5 DEF IInv, TypeOK
  <2>2. SingleFlight'
    BY <1>5 DEF IInv, TypeOK, SingleFlight, Holders
  <2>3. Locked' /\ Numbered' /\ Unanswered' /\ Served'
    BY <1>5 DEF IInv, Locked, Numbered, Unanswered, Served
  <2>4. Recent'
    BY <1>5 DEF IInv, TypeOK, Recent
  <2> QED
    BY <2>1, <2>2, <2>3, <2>4 DEF IInv
<1>6. CASE UNCHANGED vars
  BY <1>6 DEF vars, cache, task, IInv, TypeOK, SingleFlight, Holders, Locked,
              Numbered, Recent, Unanswered, Served
<1> QED
  BY <1>1, <1>2, <1>3, <1>4, <1>5, <1>6 DEF Next

THEOREM Invariance == Spec => []IInv
  BY InitIInv, NextIInv, PTL DEF Spec

(* Every variable keeps its type, and a request that is not refreshing holds *)
(* no lock and has no reason to refresh.                                     *)
THEOREM TypeCorrect == Spec => []TypeOK
<1>1. IInv => TypeOK
  BY DEF IInv
<1> QED
  BY <1>1, Invariance, PTL

(* On an instance whose lock never expired in use, at most one refresh       *)
(* believes it holds the lock, and it is the one that set it.                *)
THEOREM OneRefresh == Spec => []SingleFlight
<1>1. IInv => SingleFlight
  BY DEF IInv
<1> QED
  BY <1>1, Invariance, PTL

(* A request that arrives at a filled cache is never answered with nothing.  *)
THEOREM FilledIsServed == Spec => []NoEmptyPage
<1>1. IInv => NoEmptyPage
  BY DEF IInv, Unanswered, Served, NoEmptyPage
<1> QED
  BY <1>1, Invariance, PTL

(* What an instance serves never goes back to an earlier upstream call while *)
(* its refreshes keep to the lock.                                           *)
THEOREM OnlyForward == Spec => NeverBackwards
<1>1. IInv /\ [Next]_vars =>
        [\A i \in Instances : lapsed[i] \/ forced[i] \/ l1'[i] >= l1[i]]_vars
  <2> SUFFICES ASSUME IInv, [Next]_vars, NEW i \in Instances,
                      ~lapsed[i], ~forced[i]
               PROVE  l1'[i] >= l1[i]
    OBVIOUS
  <2>1. ASSUME NEW r \in Requests, StoreL1(r) PROVE l1'[i] >= l1[i]
    BY <2>1 DEF StoreL1, IInv, TypeOK, Recent, Values, Nothing
  <2>2. CASE UNCHANGED l1
    BY <2>2 DEF IInv, TypeOK, Values, Nothing
  <2>3. ASSUME NEW r \in Requests, Proceed(r), ~StoreL1(r) PROVE UNCHANGED l1
    BY <2>3 DEF Proceed, ReadL2, Background, ColdMiss, LastResort, RefreshLocked,
                StartCall, Yield, UpstreamFails, StoreL2, Release, WaitL1, WaitL2,
                WaitFor, CheckLock, cache
  <2> QED
    BY <2>1, <2>2, <2>3
       DEF Next, Ask, Veto, Deadline, LockExpires, cache, vars
<1> QED
  BY <1>1, Invariance, PTL DEF Spec, NeverBackwards
-----------------------------------------------------------------------------
(* What an answer rests on when refreshes fail and locks vanish.             *)

(* A set lock belongs to a refresh of the same instance that is under way,   *)
(* so a request that waits because of the lock waits for a step that comes.  *)
LockIsHeld ==
  \A i \in Instances :
    lock[i] # Free => /\ lock[i] \in Holders(i)
                      /\ pc[lock[i]] \in Refreshing

(* A request that has nothing left to do but a background refresh, or        *)
(* nothing at all, has its answer.                                           *)
DoneIsAnswered ==
  \A r \in Requests :
    pc[r] \in {"gate", "done"} \/ role[r] = "background" => answer[r] # "none"

LEMMA LockStep == IInv /\ LockIsHeld /\ [Next]_vars => LockIsHeld'
<1> SUFFICES ASSUME IInv, LockIsHeld, [Next]_vars PROVE LockIsHeld'
  OBVIOUS
<1>a. \A r \in Requests : have_lock'[r] => pc'[r] \in Refreshing
  BY NextIInv DEF IInv, TypeOK
<1> SUFFICES ASSUME NEW i \in Instances, lock'[i] # Free
             PROVE  /\ lock'[i] \in Requests
                    /\ HomeOf(lock'[i]) = i
                    /\ have_lock'[lock'[i]]
  BY <1>a DEF LockIsHeld, Holders, Refreshing
<1>t. TypeOK
  BY DEF IInv
<1>1. ASSUME lock[i] # Free
      PROVE  lock[i] \in Requests /\ HomeOf(lock[i]) = i /\ have_lock[lock[i]]
  BY <1>1 DEF LockIsHeld, Holders
<1>2. CASE UNCHANGED <<lock, have_lock>>
  BY <1>1, <1>2
<1>3. ASSUME NEW r \in Requests, NEW why, RefreshLocked(r, why), pc[r] \notin Refreshing
      PROVE  /\ lock'[i] \in Requests /\ HomeOf(lock'[i]) = i /\ have_lock'[lock'[i]]
  <2>1. have_lock' = [have_lock EXCEPT ![r] = TRUE]
    BY <1>3 DEF RefreshLocked, StartCall
  <2>2. lock' = [lock EXCEPT ![HomeOf(r)] = r]
    BY <1>3 DEF RefreshLocked
  <2> QED
    BY <1>t, <1>1, <2>1, <2>2 DEF TypeOK
<1>4. ASSUME NEW r \in Requests, LastResort(r), ~RefreshLocked(r, "last")
      PROVE  UNCHANGED <<lock, have_lock>>
  <2>1. lock' = lock /\ have_lock' = [have_lock EXCEPT ![r] = FALSE]
    BY <1>4 DEF LastResort, StartCall
  <2>2. have_lock[r] = FALSE
    BY <1>4, <1>t DEF LastResort, TypeOK, Refreshing
  <2> QED
    BY <1>t, <2>1, <2>2 DEF TypeOK
<1>5. ASSUME NEW r \in Requests, Release(r)
      PROVE  /\ lock'[i] \in Requests /\ HomeOf(lock'[i]) = i /\ have_lock'[lock'[i]]
  <2>1. lock' = Released(r) /\ have_lock' = [have_lock EXCEPT ![r] = FALSE]
    BY <1>5 DEF Release
  <2>2. lock'[i] = lock[i]
    BY <1>t, <2>1 DEF Released, TypeOK
  <2>3. lock[i] # r
    BY <1>t, <1>1, <2>1 DEF Released, TypeOK
  <2> QED
    BY <1>t, <1>1, <2>1, <2>2, <2>3 DEF TypeOK
<1>6. ASSUME NEW j \in Instances, LockExpires(j)
      PROVE  /\ lock'[i] \in Requests /\ HomeOf(lock'[i]) = i /\ have_lock'[lock'[i]]
  <2>1. lock'[i] = lock[i] /\ have_lock' = have_lock
    BY <1>t, <1>6 DEF LockExpires, task, TypeOK
  <2> QED
    BY <1>1, <2>1
<1>7. ASSUME NEW r \in Requests, Proceed(r)
      PROVE  \/ UNCHANGED <<lock, have_lock>>
             \/ Release(r)
             \/ LastResort(r) /\ ~RefreshLocked(r, "last")
             \/ \E why : RefreshLocked(r, why) /\ pc[r] \notin Refreshing
  BY <1>7 DEF Proceed, ReadL2, Background, ColdMiss, LastResort, Yield, StoreL1, UpstreamFails,
              StoreL2, WaitL1, WaitL2, WaitFor, CheckLock, Refreshing
<1>8. ASSUME NEW r \in Requests, Ask(r) \/ Veto(r) \/ Deadline(r)
      PROVE  UNCHANGED <<lock, have_lock>>
  BY <1>8 DEF Ask, Veto, Deadline
<1> QED
  BY <1>2, <1>3, <1>4, <1>5, <1>6, <1>7, <1>8 DEF Next, vars, task

LEMMA AnswerStep == IInv /\ DoneIsAnswered /\ [Next]_vars => DoneIsAnswered'
<1> SUFFICES ASSUME IInv, DoneIsAnswered, [Next]_vars, NEW q \in Requests,
                    pc'[q] \in {"gate", "done"} \/ role'[q] = "background"
             PROVE  answer'[q] # "none"
  BY DEF DoneIsAnswered
<1>t. TypeOK
  BY DEF IInv
<1>1. pc[q] \in {"gate", "done"} \/ role[q] = "background" => answer[q] # "none"
  BY DEF DoneIsAnswered
<1>2. CASE UNCHANGED <<pc[q], role[q], answer[q]>>
  BY <1>1, <1>2
<1>3. ASSUME NEW r \in Requests, q # r, Ask(r) \/ Proceed(r) \/ Veto(r) \/ Deadline(r)
      PROVE  UNCHANGED <<pc[q], role[q], answer[q]>>
  BY <1>t, <1>3 DEF Proceed, Ask, Serve, ReadL2, Background, ColdMiss, LastResort, RefreshLocked,
     StartCall, Yield, UpstreamFails, StoreL1, StoreL2, Release, WaitL1, WaitL2, WaitFor,
     CheckLock, Veto, Deadline, Goto, TypeOK
<1>4. CASE Ask(q)
  <2>1. role' = role /\ role[q] = "none"
    BY <1>t, <1>4 DEF Ask, TypeOK, Refreshing
  <2> QED
    BY <1>t, <1>4, <2>1 DEF Ask, Serve, Goto, TypeOK
<1>5. CASE ReadL2(q)
  <2>1. role' = role /\ role[q] = "none"
    BY <1>t, <1>5 DEF ReadL2, TypeOK, Refreshing
  <2> QED
    BY <1>t, <1>5, <2>1 DEF ReadL2, Serve, Goto, TypeOK
<1>6. CASE Background(q) \/ Veto(q)
  BY <1>1, <1>6 DEF Background, RefreshLocked, StartCall, Yield, Veto
<1>7. ASSUME NEW why \in {"cold", "last"}, NEW locked, StartCall(q, why, locked)
      PROVE  FALSE
  BY <1>t, <1>7 DEF StartCall, Goto, TypeOK
<1>8. CASE ColdMiss(q) \/ CheckLock(q) \/ Deadline(q)
  <2>1. CASE \E locked : StartCall(q, "cold", locked)
    BY <1>7, <2>1
  <2>2. CASE ~\E locked : StartCall(q, "cold", locked)
    <3>1. /\ role' = role /\ role[q] = "none"
          /\ \E p \in {"wait", "last"} : Goto(q, p)
      BY <1>t, <1>8, <2>2 DEF ColdMiss, RefreshLocked, Yield, CheckLock, Deadline, TypeOK, Refreshing
    <3> QED
      BY <1>t, <3>1 DEF Goto, TypeOK
  <2> QED
    BY <2>1, <2>2
<1>9. CASE LastResort(q)
  BY <1>7, <1>9 DEF LastResort, RefreshLocked
<1>10. CASE StoreL1(q) \/ UpstreamFails(q) \/ StoreL2(q)
  BY <1>t, <1>1, <1>10 DEF StoreL1, UpstreamFails, StoreL2, Goto, TypeOK
<1>11. CASE Release(q)
  <2>1. role'[q] = "none"
    BY <1>t, <1>11 DEF Release, TypeOK
  <2>2. CASE role[q] = "background"
    BY <1>1, <1>11, <2>2 DEF Release
  <2>3. CASE role[q] = "cold" /\ value[q] = Nothing
    BY <1>t, <1>11, <2>1, <2>3 DEF Release, Goto, TypeOK
  <2>4. CASE role[q] # "background" /\ ~(role[q] = "cold" /\ value[q] = Nothing)
    BY <1>t, <1>11, <2>4 DEF Release, TypeOK
  <2> QED
    BY <2>2, <2>3, <2>4
<1>12. ASSUME NEW from \in {"wait", "wait2"}, NEW found, NEW next \in {"wait2", "held"},
              WaitFor(q, from, found, next)
       PROVE  answer'[q] # "none"
  <2>1. role' = role /\ role[q] = "none"
    BY <1>t, <1>12 DEF WaitFor, TypeOK, Refreshing
  <2> QED
    BY <1>t, <1>12, <2>1 DEF WaitFor, Goto, TypeOK
<1>13. CASE Proceed(q)
  BY <1>5, <1>6, <1>8, <1>9, <1>10, <1>11, <1>12, <1>13 DEF Proceed, WaitL1, WaitL2
<1> QED
  BY <1>2, <1>3, <1>4, <1>6, <1>8, <1>13 DEF Next, vars, task, LockExpires

(* However refreshes fail, locks expire and releases delete the lock of      *)
(* another: no lock is left behind by a refresh that has ended, and no       *)
(* request ends without an answer.                                           *)
THEOREM Unstuck == Spec => [](LockIsHeld /\ DoneIsAnswered)
<1>1. Init => LockIsHeld /\ DoneIsAnswered
  BY DEF Init, LockIsHeld, DoneIsAnswered
<1> QED
  BY <1>1, InitIInv, NextIInv, LockStep, AnswerStep, PTL DEF Spec
=============================================================================
