--------------------------- MODULE CircuitBreaker ---------------------------
(* The per-provider circuit breaker of app/platform/circuit_breaker.py as    *)
(* request_json (app/integrations/_http/_resilient.py) uses it: concurrent   *)
(* calls of one worker process, the provider's health, the clock, and the    *)
(* deadline a caller puts around its call with asyncio.wait_for.             *)
(*                                                                           *)
(* Everything between two awaits is one step of the event loop, so the checks*)
(* of guard() and the start of the call are one action, and so are the end   *)
(* of the call and what guard() records of it.                               *)
EXTENDS Integers, Sequences

CONSTANTS
  Callers,            \* requests that may call the provider at the same time
  FailureThreshold,   \* failure_threshold
  Cooldown,           \* cooldown_s, in ticks
  Nobody

ASSUME ThresholdAssumption == FailureThreshold \in Nat \ {0}
ASSUME CooldownAssumption == Cooldown \in Nat \ {0}
ASSUME NobodyAssumption == Nobody \notin Callers

VARIABLES
  failures,   \* failures, counted up to the threshold it is compared with
  opened_at,  \* NotOpen, or the time since opened_at, counted up to Cooldown
  probeLock,  \* _probe_lock: the caller inside it, or Nobody
  call,       \* how each caller's call was let through, while it is running
  healthy,    \* whether the provider answers
  results,    \* history: the last FailureThreshold results recorded
  lost        \* history: calls that timed out since the last answer, up to
              \* the threshold

breakerVars == <<failures, opened_at, probeLock, call, healthy, results, lost>>

NotOpen == -1

BreakerTypeOK ==
  /\ failures \in 0..FailureThreshold
  /\ opened_at \in {NotOpen} \cup 0..Cooldown
  /\ probeLock \in Callers \cup {Nobody}
  /\ call \in [Callers -> {"none", "ordinary", "probe"}]
  /\ healthy \in BOOLEAN
  /\ lost \in 0..FailureThreshold

BreakerInit ==
  /\ failures = 0
  /\ opened_at = NotOpen
  /\ probeLock = Nobody
  /\ call = [c \in Callers |-> "none"]
  /\ healthy = TRUE
  /\ results = <<>>
  /\ lost = 0

-----------------------------------------------------------------------------
(* The three states, which the code leaves implicit.                         *)

Closed == opened_at = NotOpen

(* A bug: the cooldown is compared with <= and lasts one tick longer.        *)
IsOpenInclusive == opened_at # NotOpen /\ opened_at <= Cooldown

IsOpen == opened_at # NotOpen /\ opened_at < Cooldown
HalfOpen == opened_at # NotOpen /\ ~IsOpen

UpTo(bound, n) == IF n < bound THEN n ELSE bound

Remember(answered) ==
  LET all == Append(results, answered)
  IN  results' = IF Len(all) > FailureThreshold THEN Tail(all) ELSE all

-----------------------------------------------------------------------------
(* guard(): what lets a call through.                                        *)

(* A bug: guard() does not look at the lock, and every caller probes.        *)
EveryoneProbes == HalfOpen

\* Only one probe at a time: others see a breaker that is still open.
MayProbe == HalfOpen /\ probeLock = Nobody

BeginOrdinary(c) ==
  /\ call[c] = "none"
  /\ Closed
  /\ call' = [call EXCEPT ![c] = "ordinary"]
  /\ UNCHANGED <<failures, opened_at, probeLock, healthy, results, lost>>

BeginProbe(c) ==
  /\ call[c] = "none"
  /\ MayProbe
  /\ call' = [call EXCEPT ![c] = "probe"]
  /\ probeLock' = c
  /\ UNCHANGED <<failures, opened_at, healthy, results, lost>>

(* A bug: the lock is taken but not left.                                    *)
EndInsideLock(c) ==
  /\ call[c] # "none"
  /\ call' = [call EXCEPT ![c] = "none"]
  /\ UNCHANGED probeLock

\* The call is over; a probe leaves its lock however it ended.
EndCall(c) ==
  /\ call[c] # "none"
  /\ call' = [call EXCEPT ![c] = "none"]
  /\ probeLock' = IF call[c] = "probe" THEN Nobody ELSE probeLock

-----------------------------------------------------------------------------
(* What guard() records when the call ends.                                  *)

(* A bug: closing the breaker leaves the count where it was.                 *)
CloseOnly ==
  /\ UNCHANGED failures
  /\ opened_at' = NotOpen

\* record_success: from whichever state the breaker is in by now.
RecordSuccess ==
  /\ failures' = 0
  /\ opened_at' = NotOpen

\* The failure that reaches the threshold opens a closed breaker, and any
\* failure restarts the clock of one that is not closed.
Reopens == ~Closed \/ UpTo(FailureThreshold, failures + 1) = FailureThreshold

RecordFailure ==
  /\ failures' = UpTo(FailureThreshold, failures + 1)
  /\ opened_at' = IF Reopens THEN 0 ELSE opened_at

\* A response the helper accepts: 2xx, or a 404 or status it was told to.
Answer(c) ==
  /\ healthy
  /\ EndCall(c)
  /\ RecordSuccess
  /\ Remember(TRUE)
  /\ lost' = 0
  /\ UNCHANGED healthy

\* A transport error, the client's own timeout, or a status that is an error.
FailCall(c) ==
  /\ ~healthy
  /\ EndCall(c)
  /\ RecordFailure
  /\ Remember(FALSE)
  /\ UNCHANGED <<healthy, lost>>

\* The caller's wait_for expires first (or its request goes away) and cancels
\* the call: CancelledError is no Exception, so guard() records nothing.
TimeOut(c) ==
  /\ EndCall(c)
  /\ lost' = UpTo(FailureThreshold, lost + 1)
  /\ UNCHANGED <<failures, opened_at, healthy, results>>

-----------------------------------------------------------------------------
(* The environment.                                                          *)

CooldownTick ==
  /\ IsOpen
  /\ opened_at' = opened_at + 1
  /\ UNCHANGED <<failures, probeLock, call, healthy, results, lost>>

HealthChanges ==
  /\ healthy' = ~healthy
  /\ UNCHANGED <<failures, opened_at, probeLock, call, results, lost>>

BeginCall(c) == BeginOrdinary(c) \/ BeginProbe(c)

BreakerNext ==
  \/ \E c \in Callers : BeginCall(c) \/ Answer(c) \/ FailCall(c) \/ TimeOut(c)
  \/ CooldownTick
  \/ HealthChanges

BreakerSpec == BreakerInit /\ [][BreakerNext]_breakerVars

(* Requests keep arriving, the clock runs, and a provider that is healthy    *)
(* again and again while calls wait does answer one of them in the end.      *)
BreakerFairness ==
  /\ WF_breakerVars(CooldownTick)
  /\ WF_breakerVars(\E c \in Callers : BeginCall(c))
  /\ SF_breakerVars(\E c \in Callers : Answer(c))

BreakerFairSpec == BreakerSpec /\ BreakerFairness

-----------------------------------------------------------------------------
(* Properties.                                                               *)

(* The breaker is not closed exactly when the last FailureThreshold results  *)
(* it was told are all failures, in the order calls ended and whatever their *)
(* order of starting: a success anywhere in between starts the count again.  *)
TripsOnAStreak ==
  ~Closed <=> /\ Len(results) = FailureThreshold
              /\ \A i \in DOMAIN results : ~results[i]

(* guard() keeps the promise of the three-state automaton: while it is open  *)
(* no call reaches the provider, half-open exactly one does, and only an     *)
(* answer closes it.                                                         *)
Mode == IF Closed THEN "closed" ELSE IF IsOpen THEN "open" ELSE "half_open"
OrdinaryCalls == {c \in Callers : call[c] = "ordinary"}
ProbeCalls == {c \in Callers : call[c] = "probe"}

Promise == INSTANCE CircuitPromise
             WITH mode <- Mode, ordinary <- OrdinaryCalls, probing <- ProbeCalls

KeepsPromise == Promise!Spec

(* A provider that stays healthy from some time on is in the end called      *)
(* normally again and for good, whatever late failures and lost probes came  *)
(* before: the breaker neither stays open nor stays stuck behind its lock.   *)
RecoveredProviderReturns == <>[]healthy => <>[]Closed

(* circuit_breaker.py says guard() records "failure on any exception         *)
(* (including timeouts)": as many calls timing out in a row as the threshold *)
(* leave the breaker open.                                                   *)
TimeoutsTrip == lost >= FailureThreshold => ~Closed
=============================================================================
