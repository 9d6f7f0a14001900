------------------------------ MODULE SwrCache ------------------------------
(* The stale-while-revalidate cache of app/platform/cache_swr.py: requests   *)
(* for one key, on instances that each have an L1 (the Redis client or its   *)
(* in-process stand-in) and share the L2 table of app/platform/cache_l2.py.  *)
(*                                                                           *)
(* A value is known by the number of the upstream call that produced it.     *)
(* Every await is a place where other requests run: reading L1, reading L2,  *)
(* the lock, the upstream call, each of the two stores and the release are   *)
(* steps of their own. Where the clock is in a value's fresh window is left  *)
(* open: no property depends on it.                                          *)
EXTENDS Integers

CONSTANTS
  Requests,    \* requests for the key, each asked once
  Instances,   \* stores that hold an L1 value and a lock
  HomeOf(_),   \* the instance that serves a request
  Free         \* the lock nobody holds

ASSUME HomeAssumption == \A r \in Requests : HomeOf(r) \in Instances
ASSUME FreeAssumption == Free \notin Requests

VARIABLES
  l1,        \* by instance: the value under the key, or Nothing
  l2,        \* whether the table holds a value (which one, no property asks)
  lock,      \* by instance: who set the ":lock" key (its value does not say)
  calls,     \* number of upstream calls begun
  pc,        \* where each request, or the background task it left, is
  role,      \* why it refreshes: "background", "cold" or "last"
  have_lock, \* whether its _do_refresh acquired the lock
  value,     \* the value its _do_refresh produced, or Nothing
  answer,    \* what the request returned: "data", "empty", or "none" yet
  had,       \* history: the cache held a value when the request arrived
  lapsed,    \* history: a lock of the instance expired while it was held
  forced     \* history: the instance refreshed without the lock

cache == <<l1, l2>>
task == <<pc, role, have_lock, value, answer, had>>
vars == <<cache, lock, calls, task, lapsed, forced>>

Nothing == -1

Values == Nat \cup {Nothing}

\* Places where a request has a refresh under way.
Refreshing == {"call", "store", "release"}

TypeOK ==
  /\ l1 \in [Instances -> Values]
  /\ l2 \in BOOLEAN
  /\ lock \in [Instances -> Requests \cup {Free}]
  /\ calls \in Nat
  /\ pc \in [Requests -> Refreshing \cup
               {"new", "l2", "gate", "cold", "wait", "wait2", "held", "last", "done"}]
  /\ role \in [Requests -> {"none", "background", "cold", "last"}]
  /\ have_lock \in [Requests -> BOOLEAN]
  /\ value \in [Requests -> Values]
  /\ answer \in [Requests -> {"none", "data", "empty"}]
  /\ had \in [Requests -> BOOLEAN]
  /\ lapsed \in [Instances -> BOOLEAN]
  /\ forced \in [Instances -> BOOLEAN]
  /\ \A r \in Requests : pc[r] \in Refreshing <=> role[r] # "none"
  /\ \A r \in Requests : have_lock[r] => pc[r] \in Refreshing

(* Value 0 stands for what earlier refreshes left, in any of the tiers.      *)
Init ==
  /\ l1 \in [Instances -> {Nothing, 0}]
  /\ l2 \in BOOLEAN
  /\ lock = [i \in Instances |-> Free]
  /\ calls = 0
  /\ pc = [r \in Requests |-> "new"]
  /\ role = [r \in Requests |-> "none"]
  /\ have_lock = [r \in Requests |-> FALSE]
  /\ value = [r \in Requests |-> Nothing]
  /\ answer = [r \in Requests |-> "none"]
  /\ had = [r \in Requests |-> FALSE]
  /\ lapsed = [i \in Instances |-> FALSE]
  /\ forced = [i \in Instances |-> FALSE]

Goto(r, place) == pc' = [pc EXCEPT ![r] = place]

-----------------------------------------------------------------------------
(* swr_get_or_refresh: _safe_get and what it finds.                          *)

(* A bug: a value past its fresh window is treated as a miss.                *)
ServeFreshOnly(r) ==
  \/ answer' = [answer EXCEPT ![r] = "data"] /\ Goto(r, "done")
  \/ Goto(r, "cold") /\ UNCHANGED answer

\* A value is served at once, whether now < fresh_until or not; past it, a
\* background task is left behind.
Serve(r) ==
  /\ answer' = [answer EXCEPT ![r] = "data"]
  /\ Goto(r, "done") \/ Goto(r, "gate")

Ask(r) ==
  /\ pc[r] = "new"
  /\ had' = [had EXCEPT ![r] = l1[HomeOf(r)] # Nothing \/ l2]
  /\ \/ l1[HomeOf(r)] # Nothing /\ Serve(r)
     \/ l1[HomeOf(r)] = Nothing /\ Goto(r, "l2") /\ UNCHANGED answer
  /\ UNCHANGED <<cache, lock, calls, role, have_lock, value, lapsed, forced>>

ReadL2(r) ==
  /\ pc[r] = "l2"
  /\ \/ l2 /\ Serve(r)
     \/ ~l2 /\ Goto(r, "cold") /\ UNCHANGED answer
  /\ UNCHANGED <<cache, lock, calls, role, have_lock, value, had, lapsed, forced>>

-----------------------------------------------------------------------------
(* _do_refresh: the lock, the upstream call, the store, the release.         *)

(* A bug: SET without NX, which always succeeds.                             *)
AlwaysAcquirable(i) == TRUE

\* SET NX succeeds when the key is not there.
Acquirable(i) == lock[i] = Free

StartCall(r, why, locked) ==
  /\ calls' = calls + 1
  /\ value' = [value EXCEPT ![r] = calls + 1]
  /\ role' = [role EXCEPT ![r] = why]
  /\ have_lock' = [have_lock EXCEPT ![r] = locked]
  /\ Goto(r, "call")
  /\ UNCHANGED <<cache, answer, had, lapsed>>

RefreshLocked(r, why) ==
  /\ Acquirable(HomeOf(r))
  /\ lock' = [lock EXCEPT ![HomeOf(r)] = r]
  /\ StartCall(r, why, TRUE)
  /\ UNCHANGED forced

\* Another caller refreshes: a background task ends, a cold miss waits for it.
Yield(r, place) ==
  /\ ~Acquirable(HomeOf(r))
  /\ Goto(r, place)
  /\ UNCHANGED <<cache, lock, calls, role, have_lock, value, answer, had,
                 lapsed, forced>>

Background(r) ==
  /\ pc[r] = "gate"
  /\ RefreshLocked(r, "background") \/ Yield(r, "done")

\* should_refresh says no: the budget of the month is spent.
Veto(r) ==
  /\ pc[r] = "gate"
  /\ Goto(r, "done")
  /\ UNCHANGED <<cache, lock, calls, role, have_lock, value, answer, had,
                 lapsed, forced>>

ColdMiss(r) ==
  /\ pc[r] = "cold"
  /\ RefreshLocked(r, "cold") \/ Yield(r, "wait")

\* Without require_lock the refresh runs whoever holds the lock.
LastResort(r) ==
  /\ pc[r] = "last"
  /\ \/ RefreshLocked(r, "last")
     \/ /\ ~Acquirable(HomeOf(r))
        /\ StartCall(r, "last", FALSE)
        /\ forced' = [forced EXCEPT ![HomeOf(r)] = TRUE]
        /\ UNCHANGED lock

(* A bug: the exception leaves _do_refresh without its finally.              *)
FailsPastFinally(r) ==
  /\ pc[r] = "call"
  /\ Goto(r, IF role[r] = "cold" THEN "wait" ELSE "done")
  /\ role' = [role EXCEPT ![r] = "none"]
  /\ UNCHANGED <<cache, lock, calls, have_lock, value, answer, had, lapsed, forced>>

UpstreamFails(r) ==
  /\ pc[r] = "call"
  /\ value' = [value EXCEPT ![r] = Nothing]
  /\ Goto(r, "release")
  /\ UNCHANGED <<cache, lock, calls, role, have_lock, answer, had, lapsed, forced>>

\* The upstream answers and the answer goes to L1.
StoreL1(r) ==
  /\ pc[r] = "call"
  /\ l1' = [l1 EXCEPT ![HomeOf(r)] = value[r]]
  /\ Goto(r, "store")
  /\ UNCHANGED <<l2, lock, calls, role, have_lock, value, answer, had, lapsed, forced>>

\* kv_set drops the value when the table cannot be written.
StoreL2(r) ==
  /\ pc[r] = "store"
  /\ l2' \in {TRUE, l2}
  /\ Goto(r, "release")
  /\ UNCHANGED <<l1, lock, calls, role, have_lock, value, answer, had,
                 lapsed, forced>>

(* A bug: the lock is deleted only when the refresh produced a value.        *)
ReleasedOnSuccess(r) ==
  IF have_lock[r] /\ value[r] # Nothing
    THEN [lock EXCEPT ![HomeOf(r)] = Free] ELSE lock

\* DELETE of the key, whoever has set it since.
Released(r) ==
  IF have_lock[r] THEN [lock EXCEPT ![HomeOf(r)] = Free] ELSE lock

Release(r) ==
  /\ pc[r] = "release"
  /\ lock' = Released(r)
  /\ have_lock' = [have_lock EXCEPT ![r] = FALSE]
  /\ \/ role[r] = "background" /\ Goto(r, "done") /\ UNCHANGED answer
     \/ role[r] = "cold" /\ value[r] = Nothing /\ Goto(r, "wait") /\ UNCHANGED answer
     \/ /\ role[r] = "last" \/ (role[r] = "cold" /\ value[r] # Nothing)
        /\ Goto(r, "done")
        /\ answer' = [answer EXCEPT ![r] =
                        IF value[r] = Nothing THEN "empty" ELSE "data"]
  /\ value' = [value EXCEPT ![r] = Nothing]
  /\ role' = [role EXCEPT ![r] = "none"]
  /\ UNCHANGED <<cache, calls, had, lapsed, forced>>

-----------------------------------------------------------------------------
(* The wait of a cold miss: L1, L2, the lock, and the hard deadline.         *)

\* What another caller stored is returned, fresh or not; else look further.
WaitFor(r, from, found, next) ==
  /\ pc[r] = from
  /\ \/ /\ found
        /\ answer' = [answer EXCEPT ![r] = "data"]
        /\ Goto(r, "done")
     \/ ~found /\ Goto(r, next) /\ UNCHANGED answer
  /\ UNCHANGED <<cache, lock, calls, role, have_lock, value, had, lapsed, forced>>

WaitL1(r) == WaitFor(r, "wait", l1[HomeOf(r)] # Nothing, "wait2")
WaitL2(r) == WaitFor(r, "wait2", l2, "held")

\* _lock_held: go on waiting while somebody refreshes.
CheckLock(r) ==
  /\ pc[r] = "held"
  /\ Goto(r, IF lock[HomeOf(r)] = Free THEN "last" ELSE "wait")
  /\ UNCHANGED <<cache, lock, calls, role, have_lock, value, answer, had,
                 lapsed, forced>>

Deadline(r) ==
  /\ pc[r] = "wait"
  /\ Goto(r, "last")
  /\ UNCHANGED <<cache, lock, calls, role, have_lock, value, answer, had,
                 lapsed, forced>>

-----------------------------------------------------------------------------
(* The clock: the lock's TTL.                                                *)

LockExpires(i) ==
  /\ lock[i] # Free
  /\ lock' = [lock EXCEPT ![i] = Free]
  /\ lapsed' = [lapsed EXCEPT ![i] = TRUE]
  /\ UNCHANGED <<cache, calls, task, forced>>

Proceed(r) ==
  \/ ReadL2(r) \/ Background(r) \/ ColdMiss(r) \/ LastResort(r)
  \/ StoreL1(r) \/ UpstreamFails(r) \/ StoreL2(r) \/ Release(r)
  \/ WaitL1(r) \/ WaitL2(r) \/ CheckLock(r)

Next ==
  \/ \E r \in Requests : Ask(r) \/ Proceed(r) \/ Veto(r) \/ Deadline(r)
  \/ \E i \in Instances : LockExpires(i)

Spec == Init /\ [][Next]_vars

(* The event loop runs every task that can run, and upstream calls end by    *)
(* their timeouts. Neither the deadline of the wait nor the lock's TTL is    *)
(* relied upon.                                                              *)
Fairness == \A r \in Requests : WF_vars(Proceed(r))

FairSpec == Spec /\ Fairness

-----------------------------------------------------------------------------
(* Properties.                                                               *)

Holders(i) == {r \in Requests : HomeOf(r) = i /\ have_lock[r]}

(* Single flight: as long as no lock of an instance expired in use, the      *)
(* refreshes that believe they hold it are the one that set the key, also    *)
(* though the release deletes the key without looking whose it is.           *)
SingleFlight ==
  \A i \in Instances :
    ~lapsed[i] => Holders(i) = IF lock[i] = Free THEN {} ELSE {lock[i]}

(* While refreshes of an instance keep to the lock, what its L1 serves never *)
(* goes back to the result of an earlier upstream call.                      *)
NeverBackwards ==
  [][\A i \in Instances :
       lapsed[i] \/ forced[i] \/ l1'[i] >= l1[i]]_vars

(* "A TTL expiry never surfaces as an empty page": a request that arrives    *)
(* when its instance or the table holds a value returns a value, whatever    *)
(* refreshes fail meanwhile.                                                 *)
NoEmptyPage ==
  \A r \in Requests : had[r] => answer[r] # "empty"

(* Every request is answered, when every refresh fails, when locks expire    *)
(* and are deleted under their holder, and without waiting for the deadline. *)
EveryRequestAnswered ==
  []<>(\A r \in Requests : pc[r] # "new" => answer[r] # "none")
=============================================================================
