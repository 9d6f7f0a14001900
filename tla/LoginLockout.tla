---------------------------- MODULE LoginLockout ----------------------------
(***************************************************************************)
(* Password sign-in to one account under concurrent attempts: the failed-  *)
(* attempt counter and the temporary lock (authenticate_with_password).    *)
(* An attempt reads the row and the clock, is refused if the lock is in    *)
(* the future, verifies the password for a while, and commits; its commit  *)
(* is one transaction holding the row's write lock.  Times are kept        *)
(* relative to the present: `left` is locked_until minus the clock, `age`  *)
(* how long ago an attempt read the clock.                                 *)
(***************************************************************************)
EXTENDS Integers

CONSTANTS
  Slots,        \* attempts in flight at once
  MaxAttempts,  \* login_max_attempts
  LockFor,      \* login_lockout_seconds, in ticks
  MaxAge        \* bound: ticks between an attempt's read and its commit

ASSUME LimitsArePositive ==
  /\ MaxAttempts \in Nat \ {0} /\ LockFor \in Nat \ {0} /\ MaxAge \in Nat
  /\ MaxAge < LockFor   \* a request is over long before a lock is

VARIABLES
  fails,    \* users.failed_login_count
  left,     \* users.locked_until - clock; -MaxAge-1 also stands for NULL
  att,      \* the attempts in flight
  run       \* history: failed passwords committed since the last lock or clear

vars == <<fails, left, att, run>>

Over == -MaxAge - 1
Idle == [busy |-> FALSE, age |-> 0, good |-> FALSE, seen |-> 0]
Attempt == [busy : BOOLEAN, age : 0..MaxAge, good : BOOLEAN, seen : 0..(MaxAttempts - 1)]

Init ==
  /\ fails = 0 /\ left = Over /\ att = [c \in Slots |-> Idle]
  /\ run = 0

(* Refused while the lock is in the future; otherwise the password goes to  *)
(* the verifier, which will find it good or not.                            *)
NeverRefused == FALSE
Refused == left > 0

Begin(c, good) ==
  /\ ~att[c].busy /\ ~Refused
  /\ att' = [att EXCEPT ![c] = [busy |-> TRUE, age |-> 0, good |-> good, seen |-> fails]]
  /\ UNCHANGED <<fails, left, run>>

End(c) == att' = [att EXCEPT ![c] = Idle]

(* SET n = n + 1 re-reads the row under its lock; the count is never taken  *)
(* from the attempt's own snapshot.                                         *)
StoredCountFromSnapshot(c) == att[c].seen + 1
StoredCount(c) == fails + 1

ReachedOneLate(n) == n > MaxAttempts
Reached(n) == n >= MaxAttempts

Fail(c) ==
  /\ att[c].busy /\ ~att[c].good
  /\ ~Reached(StoredCount(c))
  /\ fails' = StoredCount(c)
  /\ run' = run + 1
  /\ End(c)
  /\ UNCHANGED left

(* The threshold is reached: the same transaction stamps the lock, counted  *)
(* from the clock this attempt read, and resets the counter; the owner is   *)
(* mailed after the commit.                                                 *)
FailAndLock(c) ==
  /\ att[c].busy /\ ~att[c].good
  /\ Reached(StoredCount(c))
  /\ fails' = 0 /\ run' = 0
  /\ left' = LockFor - att[c].age
  /\ End(c)

(* A good password clears what is there to clear, unless the stored lock is *)
(* later than the clock this attempt read.                                  *)
ClearsAnyLock(c) == TRUE
Clears(c) == left <= -att[c].age

Succeed(c) ==
  /\ att[c].busy /\ att[c].good
  /\ IF Clears(c)
       THEN fails' = 0 /\ left' = Over /\ run' = 0
       ELSE UNCHANGED <<fails, left, run>>
  /\ End(c)

(* The request dies before its commit.                                      *)
Abandon(c) ==
  /\ att[c].busy /\ End(c)
  /\ UNCHANGED <<fails, left, run>>

Tick ==
  /\ \A c \in Slots : att[c].busy => att[c].age < MaxAge
  /\ att' = [c \in Slots |-> IF att[c].busy THEN [att[c] EXCEPT !.age = @ + 1] ELSE att[c]]
  /\ left' = IF left > Over THEN left - 1 ELSE left
  /\ UNCHANGED <<fails, run>>

Finish(c) == Fail(c) \/ FailAndLock(c) \/ Succeed(c) \/ Abandon(c)

Next ==
  \/ Tick
  \/ \E c \in Slots :
       \/ \E good \in BOOLEAN : Begin(c, good)
       \/ Fail(c) \/ FailAndLock(c) \/ Succeed(c) \/ Abandon(c)

Spec == Init /\ [][Next]_vars

(* The clock runs and a request, once begun, ends: by its own commit or by  *)
(* being dropped.  Nothing obliges anyone to try a password.                *)
LockoutFairness == WF_vars(Tick) /\ \A c \in Slots : WF_vars(Finish(c))
FairSpec == Spec /\ LockoutFairness

----------------------------------------------------------------------------
(* The type invariant. *)
TypeOK ==
  /\ fails \in 0..(MaxAttempts - 1)
  /\ left \in Over..LockFor
  /\ att \in [Slots -> Attempt]
  /\ run \in Nat

(* However many attempts land together, the account never survives          *)
(* MaxAttempts failed passwords since its last lock or success unlocked:    *)
(* no failure goes uncounted.                                               *)
ThresholdHolds == run < MaxAttempts

(* A lock in force is never lifted by anything but time: a success that was *)
(* being verified while concurrent failures stamped the lock leaves it be,  *)
(* and a failure that read the clock earlier still stamps one in force.     *)
ActiveLockNeverLifted == [][left > 0 => left' > 0 \/ (left = 1 /\ Tick)]_vars

(* A locked account becomes usable again: nothing that arrives during the   *)
(* lock can prolong it for ever.                                            *)
LockLifts == left > 0 ~> left <= 0
=============================================================================
