---------------------------- MODULE GuardsProofs ----------------------------
(***************************************************************************)
(* What turns a request away, for any number of attempts, requests, callers *)
(* and look-ups: the lock on an account and its second factor, the breaker *)
(* and the budget of a provider.  Each is proved of its own specification, *)
(* and the four side by side of the composition MCGuards checks.           *)
(***************************************************************************)
EXTENDS MCGuards, FiniteSetTheorems, TLAPS

-----------------------------------------------------------------------------
(* The lock on an account.                                                 *)

(* The counter is the number of failures since the last lock or clear.      *)
FailuresCounted == run = fails

LockoutInv == TypeOK /\ FailuresCounted

LEMMA IdleTyped == Idle \in Attempt
BY LimitsArePositive DEF Idle, Attempt

LEMMA EndTyped ==
  ASSUME TypeOK, NEW c \in Slots, End(c)
  PROVE  att' \in [Slots -> Attempt]
BY IdleTyped DEF TypeOK, End

LEMMA LockoutStep == LockoutInv /\ [Next]_vars => LockoutInv'
<1> SUFFICES ASSUME LockoutInv, [Next]_vars PROVE LockoutInv'
  OBVIOUS
<1> USE DEF LockoutInv, TypeOK, FailuresCounted
<1>l. MaxAttempts \in Nat /\ MaxAttempts > 0 /\ LockFor \in Nat /\ LockFor > 0
      /\ MaxAge \in Nat /\ MaxAge < LockFor
  BY LimitsArePositive
<1>a. \A c \in Slots : att[c].age \in 0..MaxAge
  BY DEF Attempt
<1>1. CASE Tick
  <2>1. att' \in [Slots -> Attempt]
    <3>1. ASSUME NEW c \in Slots, att[c].busy
          PROVE  [att[c] EXCEPT !.age = @ + 1] \in Attempt
      <4>1. att[c].age + 1 \in 0..MaxAge
        BY <1>1, <1>a, <1>l, <3>1 DEF Tick
      <4> QED
        BY <4>1 DEF Attempt
    <3> QED
      BY <1>1, <3>1 DEF Tick
  <2>2. left' \in Over..LockFor
    BY <1>1, <1>l DEF Tick, Over
  <2> QED
    BY <1>1, <2>1, <2>2 DEF Tick
<1>2. ASSUME NEW c \in Slots, NEW good \in BOOLEAN, Begin(c, good) PROVE LockoutInv'
  <2>1. [busy |-> TRUE, age |-> 0, good |-> good, seen |-> fails] \in Attempt
    BY <1>l DEF Attempt
  <2> QED
    BY <1>2, <2>1 DEF Begin
<1>3. ASSUME NEW c \in Slots, Fail(c) PROVE LockoutInv'
  <2>1. att' \in [Slots -> Attempt]
    BY <1>3, EndTyped DEF Fail
  <2> QED
    BY <1>3, <1>l, <2>1 DEF Fail, StoredCount, Reached
<1>4. ASSUME NEW c \in Slots, FailAndLock(c) PROVE LockoutInv'
  <2>1. att' \in [Slots -> Attempt]
    BY <1>4, EndTyped DEF FailAndLock
  <2>2. left' \in Over..LockFor
    BY <1>4, <1>a, <1>l DEF FailAndLock, Over
  <2> QED
    BY <1>4, <1>l, <2>1, <2>2 DEF FailAndLock
<1>5. ASSUME NEW c \in Slots, Succeed(c) PROVE LockoutInv'
  <2>1. att' \in [Slots -> Attempt]
    BY <1>5, EndTyped DEF Succeed
  <2>2. Over \in Over..LockFor
    BY <1>l DEF Over
  <2> QED
    BY <1>5, <1>l, <2>1, <2>2 DEF Succeed
<1>6. ASSUME NEW c \in Slots, Abandon(c) PROVE LockoutInv'
  BY <1>6, EndTyped DEF Abandon
<1>7. CASE UNCHANGED vars
  BY <1>7 DEF vars
<1> QED
  BY <1>1, <1>2, <1>3, <1>4, <1>5, <1>6, <1>7 DEF Next

LEMMA LockoutInitial == Init => LockoutInv
BY IdleTyped, LimitsArePositive DEF Init, LockoutInv, TypeOK, FailuresCounted, Over

(* The type invariant holds in every behaviour.                             *)
THEOREM LockoutTypes == Spec => []TypeOK
<1>1. LockoutInv => TypeOK
  BY DEF LockoutInv
<1> QED
  BY <1>1, LockoutInitial, LockoutStep, PTL DEF Spec

(* However many attempts land together, no failure goes uncounted: fewer    *)
(* than MaxAttempts have committed since the last lock or clear.            *)
THEOREM Threshold == Spec => []ThresholdHolds
<1>1. LockoutInv => ThresholdHolds
  BY LimitsArePositive DEF LockoutInv, TypeOK, FailuresCounted, ThresholdHolds
<1> QED
  BY <1>1, LockoutInitial, LockoutStep, PTL DEF Spec

(* A lock in force ends by the clock alone.                                 *)
THEOREM OnlyTimeLifts == Spec => ActiveLockNeverLifted
<1>1. LockoutInv /\ [Next]_vars => [left > 0 => left' > 0 \/ (left = 1 /\ Tick)]_vars
  <2> SUFFICES ASSUME LockoutInv, Next, left > 0
               PROVE  left' > 0 \/ (left = 1 /\ Tick)
    OBVIOUS
  <2> USE DEF LockoutInv, TypeOK
  <2>l. LockFor \in Nat /\ MaxAge \in Nat /\ MaxAge < LockFor /\ left \in Int
    BY LimitsArePositive DEF Over
  <2>a. \A c \in Slots : att[c].age \in 0..MaxAge
    BY DEF Attempt
  <2>1. CASE Tick
    BY <2>1, <2>l DEF Tick, Over
  <2>2. ASSUME NEW c \in Slots, FailAndLock(c) PROVE left' > 0
    BY <2>2, <2>a, <2>l DEF FailAndLock
  <2>3. ASSUME NEW c \in Slots, Succeed(c) PROVE left' > 0
    BY <2>3, <2>a, <2>l DEF Succeed, Clears
  <2>4. ASSUME NEW c \in Slots,
               (\E good \in BOOLEAN : Begin(c, good)) \/ Fail(c) \/ Abandon(c)
        PROVE  left' > 0
    BY <2>4 DEF Begin, Fail, Abandon
  <2> QED
    BY <2>1, <2>2, <2>3, <2>4 DEF Next
<1> QED
  BY <1>1, LockoutInitial, LockoutStep, PTL DEF Spec, ActiveLockNeverLifted

(* Everything that can keep the lock in force, what is stamped and what the *)
(* attempts in flight may still stamp, is over within n more of the clock.  *)
EndsWithin(n) ==
  /\ left <= n
  /\ \A c \in Slots : att[c].busy /\ ~att[c].good => LockFor - att[c].age <= n

(* An account's lock runs out.  Every lock there is or may yet be stamped   *)
(* ends within LockFor; while one is in force, nothing that arrives moves   *)
(* that end out again, and each tick of the clock brings it nearer.         *)
THEOREM LockRunsOut ==
  Spec => /\ []EndsWithin(LockFor)
          /\ [][\A n \in Nat : left > 0 /\ EndsWithin(n) =>
                  EndsWithin(n)' /\ (Tick => EndsWithin(n - 1)')]_vars
<1>l. MaxAttempts \in Nat /\ LockFor \in Nat /\ LockFor > 0 /\ MaxAge \in Nat
  BY LimitsArePositive
<1>1. LockoutInv => EndsWithin(LockFor)
  <2> SUFFICES ASSUME LockoutInv PROVE EndsWithin(LockFor)
    OBVIOUS
  <2>1. \A c \in Slots : att[c].age \in Nat
    BY <1>l DEF LockoutInv, TypeOK, Attempt
  <2> QED
    BY <1>l, <2>1 DEF LockoutInv, TypeOK, EndsWithin, Over
<1>2. LockoutInv /\ [Next]_vars
        => [\A n \in Nat : left > 0 /\ EndsWithin(n) =>
              EndsWithin(n)' /\ (Tick => EndsWithin(n - 1)')]_vars
  <2> SUFFICES ASSUME LockoutInv, Next, NEW n \in Nat, left > 0, EndsWithin(n)
               PROVE  /\ EndsWithin(n)' /\ (Tick => EndsWithin(n - 1)')
    OBVIOUS
  <2>t. /\ left \in Int /\ Over \in Int /\ Over < 0 /\ att \in [Slots -> Attempt]
        /\ \A c \in Slots : att[c].age \in Nat
        /\ LockFor' = LockFor
    BY <1>l DEF LockoutInv, TypeOK, Attempt, Over
  <2>1. CASE Tick
    <3>1. left' = left - 1
      BY <2>1, <2>t DEF Tick
    <3>2. \A c \in Slots :
            att'[c] = IF att[c].busy THEN [att[c] EXCEPT !.age = @ + 1] ELSE att[c]
      BY <2>1 DEF Tick
    <3>3. \A c \in Slots : att'[c].busy = att[c].busy /\ att'[c].good = att[c].good
                             /\ (att[c].busy => att'[c].age = att[c].age + 1)
      BY <2>t, <3>2 DEF Attempt
    <3>4. ASSUME NEW c \in Slots, att'[c].busy, ~att'[c].good
          PROVE  LockFor - att'[c].age <= n - 1
      BY <1>l, <2>t, <3>3, <3>4 DEF EndsWithin
    <3>5. left' <= n - 1
      BY <2>t, <3>1 DEF EndsWithin
    <3>6. EndsWithin(n - 1)'
      BY <3>4, <3>5 DEF EndsWithin
    <3>7. EndsWithin(n)'
      <4>1. ASSUME NEW c \in Slots, att'[c].busy, ~att'[c].good
            PROVE  LockFor - att'[c].age <= n
        BY <1>l, <2>t, <3>3, <4>1 DEF EndsWithin
      <4> QED
        BY <2>t, <3>1, <4>1 DEF EndsWithin
    <3> QED
      BY <3>6, <3>7
  <2>2. ASSUME NEW c \in Slots, Fail(c) \/ FailAndLock(c) \/ Succeed(c) \/ Abandon(c)
        PROVE  ~Tick /\ EndsWithin(n)'
    <3>1. att[c].busy /\ att' = [att EXCEPT ![c] = Idle] /\ ~Idle.busy
      BY <2>2 DEF Fail, FailAndLock, Succeed, Abandon, End, Idle
    <3>2. \A q \in Slots : att'[q].busy => att'[q] = att[q]
      BY <2>t, <3>1
    <3>3. ~Tick
      <4>1. Tick => att'[c].busy
        <5>1. att[c] \in Attempt /\ att[c].busy
          BY <2>t, <3>1
        <5>2. Tick => att'[c] = [att[c] EXCEPT !.age = @ + 1]
          BY <5>1 DEF Tick
        <5> QED
          BY <5>1, <5>2 DEF Attempt
      <4> QED
        BY <2>t, <3>1, <4>1
    <3>4. left' <= n
      <4>1. left' \in {left, Over} \/ (~att[c].good /\ left' = LockFor - att[c].age)
        BY <2>2 DEF Fail, FailAndLock, Succeed, Abandon
      <4> QED
        BY <1>l, <2>t, <3>1, <4>1 DEF EndsWithin
    <3> QED
      BY <3>2, <3>3, <3>4 DEF EndsWithin
  <2>3. ~\E c \in Slots, good \in BOOLEAN : Begin(c, good)
    BY DEF Begin, Refused
  <2> QED
    BY <2>1, <2>2, <2>3 DEF Next
<1> QED
  BY <1>1, <1>2, LockoutInitial, LockoutStep, PTL DEF Spec

----------------------------------------------------------------------------
(* The second factor.                                                      *)

(* The codes of the sets made so far.                                       *)
Made == {code \in BackupCodes : code[1] <= made.sets}

(* Every list of codes, stored or loaded, holds codes already made, and a   *)
(* used one only if another request had it loaded when it was used.         *)
CodesInv ==
  /\ FactorTypeOK
  /\ factor.codes \subseteq Made /\ spent \subseteq Made
  /\ \A c \in FactorReqs : Doing(c) # "none" =>
       freq[c].seen.codes \subseteq Made /\ freq[c].seen.codes \cap spent \subseteq held
  /\ factor.codes \cap spent \subseteq held

LEMMA FactorParts ==
  ASSUME FactorTypeOK
  PROVE  /\ factor \in Factor /\ freq \in [FactorReqs -> FactorRequest]
         /\ factor.on \in BOOLEAN /\ factor.secret \in Secrets /\ factor.codes \subseteq BackupCodes
         /\ made.secrets \in 0..MaxSecrets /\ made.sets \in 0..MaxEnrolments
         /\ \A c \in FactorReqs : Doing(c) # "none" =>
              /\ freq[c].seen \in Factor
              /\ Doing(c) \in Operations \cup {"removal"}
              /\ freq[c].seen.codes \subseteq BackupCodes
              /\ freq[c].seen.secret \in Secrets
<1>1. \A c \in FactorReqs : Doing(c) # "none" => freq[c] \in [op : Operations \cup {"removal"}, seen : Factor]
  BY DEF FactorTypeOK, FactorRequest, Doing, NotBegun
<1>2. \A c \in FactorReqs : Doing(c) # "none" =>
        freq[c].seen \in Factor /\ Doing(c) \in Operations \cup {"removal"}
  BY <1>1 DEF Doing
<1> QED BY <1>2 DEF FactorTypeOK, Factor

(* What a request still holds after a step of one request.                  *)
LEMMA FactorEnds ==
  ASSUME FactorTypeOK, NEW c \in FactorReqs, Ends(c)
  PROVE  /\ freq' \in [FactorReqs -> FactorRequest]
         /\ \A d \in FactorReqs : Doing(d)' # "none" => d # c /\ freq'[d] = freq[d]
BY DEF FactorTypeOK, FactorRequest, Ends, Doing, NotBegun

LEMMA CodesStep == CodesInv /\ [FactorNext]_factorVars => CodesInv'
<1> SUFFICES ASSUME CodesInv, [FactorNext]_factorVars PROVE CodesInv'
  OBVIOUS
<1> USE FactorBounds
<1>t. FactorTypeOK
  BY DEF CodesInv
<1>p. /\ factor \in Factor /\ freq \in [FactorReqs -> FactorRequest]
      /\ made \in [secrets : 0..MaxSecrets, sets : 0..MaxEnrolments]
      /\ challenged \in BOOLEAN /\ crossed \in BOOLEAN /\ confirmed \in Secrets
      /\ spent \subseteq BackupCodes /\ held \subseteq spent
  BY <1>t DEF FactorTypeOK
<1>e. ASSUME NEW c \in FactorReqs, Ends(c), UNCHANGED <<made, spent, held>>, factor' \in Factor,
             factor'.codes \subseteq factor.codes,
             challenged' \in BOOLEAN, crossed' \in BOOLEAN, confirmed' \in Secrets
      PROVE CodesInv'
  <2>1. FactorTypeOK'
    BY <1>e, <1>p, <1>t, FactorEnds DEF FactorTypeOK
  <2>2. Made' = Made
    BY <1>e DEF Made
  <2>3. \A d \in FactorReqs : Doing(d)' # "none" => Doing(d) # "none" /\ freq'[d] = freq[d]
    BY <1>e, <1>t, FactorEnds DEF Doing
  <2> QED BY <1>e, <2>1, <2>2, <2>3 DEF CodesInv
<1>1. ASSUME NEW c \in FactorReqs, NEW op \in Operations, BeginRequest(c, op) PROVE CodesInv'
  <2>1. /\ freq' = [freq EXCEPT ![c] = [op |-> op, seen |-> factor]]
        /\ UNCHANGED <<factor, challenged, made, confirmed, spent, held>>
        /\ crossed' \in BOOLEAN
    BY <1>1, <1>p DEF BeginRequest, Loaded
  <2>2. [op |-> op, seen |-> factor] \in FactorRequest
    BY <1>p DEF FactorRequest
  <2>3. FactorTypeOK'
    BY <2>1, <2>2, <1>p DEF FactorTypeOK
  <2>4. Made' = Made
    BY <2>1 DEF Made
  <2>5. freq'[c].seen = factor /\ \A d \in FactorReqs \ {c} : freq'[d] = freq[d]
    BY <2>1, <1>p
  <2>6. \A d \in FactorReqs : Doing(d)' # "none" =>
          freq'[d].seen.codes \subseteq Made' /\ freq'[d].seen.codes \cap spent' \subseteq held'
    BY <2>1, <2>4, <2>5 DEF CodesInv, Doing
  <2> QED BY <2>1, <2>3, <2>4, <2>6 DEF CodesInv
<1>2. ASSUME NEW c \in FactorReqs, AnswerLogin(c) \/ VerifyByTotp(c) \/ Reject(c) PROVE CodesInv'
  <2>1. /\ Ends(c) /\ UNCHANGED <<factor, made, confirmed, crossed, spent, held>>
        /\ challenged' \in BOOLEAN
    <3>1. CASE AnswerLogin(c)
      <4>1. freq[c].seen.on \in BOOLEAN
        BY <3>1, <1>t, FactorParts DEF AnswerLogin, Factor
      <4> QED BY <3>1, <4>1, <1>p DEF AnswerLogin
    <3> QED BY <1>2, <3>1, <1>p DEF VerifyByTotp, Reject
  <2> QED BY <2>1, <1>e, <1>p
<1>3. ASSUME NEW c \in FactorReqs, StartEnrollment(c) PROVE CodesInv'
  <2>1. /\ Ends(c) /\ UNCHANGED <<challenged, confirmed, crossed, spent, held>>
        /\ made' = [made EXCEPT !.secrets = @ + 1] /\ made.secrets < MaxSecrets
        /\ factor' = [factor EXCEPT !.secret = made'.secrets]
    BY <1>3 DEF StartEnrollment
  <2>2. made' \in [secrets : 0..MaxSecrets, sets : 0..MaxEnrolments] /\ made'.sets = made.sets
    BY <2>1, <1>p
  <2>3. made'.secrets \in Secrets
    BY <2>2 DEF Secrets
  <2>4. factor' \in Factor /\ factor'.codes = factor.codes
    BY <2>1, <2>3, <1>p DEF Factor
  <2>5. FactorTypeOK'
    BY <2>1, <2>2, <2>4, <1>p, <1>t, FactorEnds DEF FactorTypeOK
  <2>6. Made' = Made
    BY <2>2 DEF Made
  <2>7. \A d \in FactorReqs : Doing(d)' # "none" => Doing(d) # "none" /\ freq'[d] = freq[d]
    BY <2>1, <1>t, FactorEnds DEF Doing
  <2> QED BY <2>1, <2>4, <2>5, <2>6, <2>7 DEF CodesInv
<1>4. ASSUME NEW c \in FactorReqs, ConfirmEnrollment(c) PROVE CodesInv'
  <2>1. /\ Ends(c) /\ UNCHANGED <<challenged, crossed, spent, held>>
        /\ made' = [made EXCEPT !.sets = @ + 1] /\ made.sets < MaxEnrolments
        /\ factor' = [factor EXCEPT !.on = TRUE, !.codes = NewCodes(made'.sets)]
        /\ confirmed' = freq[c].seen.secret /\ Doing(c) = "enable"
    BY <1>4 DEF ConfirmEnrollment
  <2>2. /\ made' \in [secrets : 0..MaxSecrets, sets : 0..MaxEnrolments]
        /\ made.sets \in Nat /\ made'.sets = made.sets + 1 /\ made'.sets \in 1..MaxEnrolments
    BY <2>1, <1>p
  <2>3. NewCodes(made'.sets) \subseteq BackupCodes /\ \A code \in NewCodes(made'.sets) : code[1] = made'.sets
    BY <2>2 DEF NewCodes, BackupCodes
  <2>4. factor' \in Factor /\ factor'.codes = NewCodes(made'.sets)
    BY <2>1, <2>3, <1>p DEF Factor
  <2>5. confirmed' \in Secrets
    BY <2>1, <1>t, FactorParts
  <2>6. FactorTypeOK'
    BY <2>1, <2>2, <2>4, <2>5, <1>p, <1>t, FactorEnds DEF FactorTypeOK
  <2>7. Made \subseteq Made'
    <3>1. \A code \in BackupCodes : code[1] \in Nat
      BY DEF BackupCodes
    <3> QED BY <2>2, <3>1 DEF Made
  <2>8. NewCodes(made'.sets) \subseteq Made'
    <3>1. \A code \in NewCodes(made'.sets) : code[1] <= made'.sets
      BY <2>2, <2>3
    <3> QED BY <2>3, <3>1 DEF Made
  <2>9. NewCodes(made'.sets) \cap spent = {}
    <3>1. \A code \in spent : code[1] <= made.sets
      BY DEF CodesInv, Made
    <3> QED BY <2>2, <2>3, <3>1
  <2>10. \A d \in FactorReqs : Doing(d)' # "none" => Doing(d) # "none" /\ freq'[d] = freq[d]
    BY <2>1, <1>t, FactorEnds DEF Doing
  <2>11. \A d \in FactorReqs : Doing(d)' # "none" =>
          freq'[d].seen.codes \subseteq Made' /\ freq'[d].seen.codes \cap spent' \subseteq held'
    BY <2>1, <2>7, <2>10 DEF CodesInv
  <2> QED BY <2>1, <2>4, <2>6, <2>7, <2>8, <2>9, <2>11 DEF CodesInv
<1>c. ASSUME NEW c \in FactorReqs, NEW backup \in BackupCodes, Consume(c, backup), Doing(c) # "none",
             freq' \in [FactorReqs -> FactorRequest],
             \A d \in FactorReqs : Doing(d)' # "none" =>
               \/ d # c /\ freq'[d] = freq[d]
               \/ d = c /\ freq'[d].seen.codes = freq[c].seen.codes \ {backup},
             UNCHANGED <<challenged, made, confirmed, crossed>>
      PROVE CodesInv'
  <2>1. /\ backup \in freq[c].seen.codes /\ spent' = spent \cup {backup}
        /\ factor' = [factor EXCEPT !.codes = freq[c].seen.codes \ {backup}]
        /\ held \subseteq held' /\ held' \subseteq held \cup {backup}
        /\ \A d \in FactorReqs \ {c} : Doing(d) # "none" /\ backup \in freq[d].seen.codes => backup \in held'
    BY <1>c DEF Consume, Remaining, Others
  <2>2. freq[c].seen.codes \subseteq Made /\ freq[c].seen.codes \cap spent \subseteq held
        /\ freq[c].seen.codes \subseteq BackupCodes
    BY <1>c, <1>t, FactorParts DEF CodesInv
  <2>3. factor' \in Factor /\ factor'.codes = freq[c].seen.codes \ {backup}
    BY <2>1, <2>2, <1>p DEF Factor
  <2>4. FactorTypeOK'
    BY <1>c, <2>1, <2>2, <2>3, <1>p DEF FactorTypeOK
  <2>5. Made' = Made
    BY <1>c DEF Made
  <2>6. \A d \in FactorReqs : Doing(d)' # "none" /\ d # c => Doing(d) # "none" /\ freq'[d] = freq[d]
    BY <1>c DEF Doing
  <2>7. \A d \in FactorReqs : Doing(d)' # "none" /\ d # c =>
          freq'[d].seen.codes \subseteq Made' /\ freq'[d].seen.codes \cap spent' \subseteq held'
    BY <2>1, <2>5, <2>6 DEF CodesInv
  <2>8. Doing(c)' # "none" =>
          freq'[c].seen.codes \subseteq Made' /\ freq'[c].seen.codes \cap spent' \subseteq held'
    BY <1>c, <2>1, <2>2, <2>5
  <2>9. factor'.codes \subseteq Made' /\ spent' \subseteq Made' /\ factor'.codes \cap spent' \subseteq held'
    BY <2>1, <2>2, <2>3, <2>5 DEF CodesInv
  <2> QED BY <2>4, <2>7, <2>8, <2>9 DEF CodesInv
<1>5. ASSUME NEW c \in FactorReqs, NEW backup \in BackupCodes, VerifyByBackup(c, backup) PROVE CodesInv'
  BY <1>5, <1>c, <1>t, FactorEnds DEF VerifyByBackup
<1>6. ASSUME NEW c \in FactorReqs, NEW backup \in BackupCodes, DisableByBackup(c, backup) PROVE CodesInv'
  <2>1. Doing(c) = "disable" /\ Consume(c, backup) /\ UNCHANGED <<challenged, made, confirmed, crossed>>
    BY <1>6 DEF DisableByBackup
  <2>2. freq[c] \in [op : Operations \cup {"removal"}, seen : Factor]
    BY <2>1, <1>p DEF FactorRequest, Doing, NotBegun
  <2>3. freq' = [freq EXCEPT ![c].op = "removal", ![c].seen.codes = freq[c].seen.codes \ {backup}]
    BY <1>6, <2>2, <1>p DEF DisableByBackup, Remaining, Factor
  <2>4. /\ freq'[c].seen.codes = freq[c].seen.codes \ {backup}
        /\ freq'[c] \in FactorRequest
    BY <2>2, <2>3, <1>p DEF Factor, FactorRequest
  <2>5. \A d \in FactorReqs \ {c} : freq'[d] = freq[d]
    BY <2>3, <1>p
  <2>6. freq' \in [FactorReqs -> FactorRequest]
    BY <2>3, <2>4, <1>p
  <2>7. \A d \in FactorReqs : Doing(d)' # "none" =>
          \/ d # c /\ freq'[d] = freq[d]
          \/ d = c /\ freq'[d].seen.codes = freq[c].seen.codes \ {backup}
    BY <2>4, <2>5
  <2> QED BY <1>c, <2>1, <2>6, <2>7
<1>7. ASSUME NEW c \in FactorReqs, DisableByTotp(c) \/ FinishRemoval(c) PROVE CodesInv'
  <2>1. /\ Ends(c) /\ UNCHANGED <<challenged, made, confirmed, crossed, spent, held>>
        /\ factor' = Cleared(freq[c].seen)
    BY <1>7 DEF DisableByTotp, FinishRemoval
  <2>2. Cleared(freq[c].seen) \in Factor /\ Cleared(freq[c].seen).codes = {}
    BY <1>p DEF Cleared, PutColumn, Factor, Secrets, NoSecret
  <2> QED BY <1>e, <2>1, <2>2, <1>p
<1>8. CASE UNCHANGED factorVars
  <2>1. Made' = Made
    BY <1>8 DEF factorVars, Made
  <2> QED BY <1>8, <2>1 DEF factorVars, CodesInv, FactorTypeOK, Doing
<1> QED BY <1>1, <1>2, <1>3, <1>4, <1>5, <1>6, <1>7, <1>8 DEF FactorNext

LEMMA CodesInitial == FactorInit => CodesInv
<1> SUFFICES ASSUME FactorInit PROVE CodesInv
  OBVIOUS
<1>1. Off \in Factor /\ Off.codes = {} /\ NoSecret \in Secrets
  BY FactorBounds DEF Off, Factor, Secrets, NoSecret
<1>2. freq \in [FactorReqs -> FactorRequest] /\ \A c \in FactorReqs : Doing(c) = "none"
  BY DEF FactorInit, FactorRequest, Doing, NotBegun
<1>3. made \in [secrets : 0..MaxSecrets, sets : 0..MaxEnrolments]
  BY FactorBounds DEF FactorInit
<1>4. FactorTypeOK
  BY <1>1, <1>2, <1>3 DEF FactorInit, FactorTypeOK
<1> QED BY <1>1, <1>2, <1>4 DEF FactorInit, CodesInv

(* The row, the requests and the history stay well typed.                   *)
THEOREM FactorTypes == FactorSpec => []FactorTypeOK
<1>1. CodesInv => FactorTypeOK
  BY DEF CodesInv
<1> QED BY <1>1, CodesInitial, CodesStep, PTL DEF FactorSpec

(* SpentStaysSpent, for any number of concurrent requests and of codes: a   *)
(* used code comes back only if another request had it loaded meanwhile.    *)
THEOREM SpentCodes == FactorSpec => []SpentStaysSpent
<1>1. CodesInv => SpentStaysSpent
  BY DEF CodesInv, SpentStaysSpent
<1> QED BY <1>1, CodesInitial, CodesStep, PTL DEF FactorSpec

(* Until a confirmation overlaps another writer of the secret: none does;   *)
(* a setup under way finds the factor off; a confirmation under way has read*)
(* the secret that is stored.                                               *)
Writer(op) == op \in {"setup", "disable", "removal"}
SecretInv ==
  ~crossed =>
    /\ factor.on => factor.secret = confirmed
    /\ \A c, d \in FactorReqs : Doing(c) = "enable" => ~Writer(Doing(d))
    /\ \A c \in FactorReqs : Doing(c) = "setup" => ~factor.on
    /\ \A c \in FactorReqs : Doing(c) = "enable" => freq[c].seen.secret = factor.secret

LEMMA SecretStep == FactorTypeOK /\ SecretInv /\ [FactorNext]_factorVars => SecretInv'
<1> SUFFICES ASSUME FactorTypeOK, SecretInv, [FactorNext]_factorVars, ~crossed' PROVE SecretInv'
  BY DEF SecretInv
<1>p. factor \in Factor /\ freq \in [FactorReqs -> FactorRequest]
  BY DEF FactorTypeOK
<1>e. ASSUME NEW c \in FactorReqs, Ends(c) PROVE \A d \in FactorReqs : Doing(d)' # "none" => d # c /\ freq'[d] = freq[d]
  BY <1>e, FactorEnds
<1>q. ASSUME NEW c \in FactorReqs, Ends(c), UNCHANGED crossed, UNCHANGED confirmed,
             factor'.on => factor.on, factor'.on => factor'.secret = factor.secret,
             (\E d \in FactorReqs : Doing(d) = "enable") => factor'.secret = factor.secret
      PROVE SecretInv'
  <2>1. \A d \in FactorReqs : Doing(d)' # "none" => Doing(d)' = Doing(d) /\ freq'[d] = freq[d]
    BY <1>q, <1>e DEF Doing
  <2>2. /\ factor'.on => factor'.secret = confirmed'
        /\ \A b, d \in FactorReqs : Doing(b)' = "enable" => ~Writer(Doing(d))
        /\ \A d \in FactorReqs : Doing(d)' = "setup" => ~factor'.on
    BY <1>q, <2>1 DEF SecretInv
  <2>3. \A d \in FactorReqs : Doing(d)' = "enable" => freq'[d].seen.secret = factor'.secret
    BY <1>q, <2>1 DEF SecretInv
  <2>4. \A d \in FactorReqs : Writer(Doing(d)') => Writer(Doing(d))
    BY <2>1 DEF Writer
  <2> QED BY <2>2, <2>3, <2>4 DEF SecretInv
<1>1. ASSUME NEW c \in FactorReqs, NEW op \in Operations, BeginRequest(c, op) PROVE SecretInv'
  <2>1. /\ freq' = [freq EXCEPT ![c] = [op |-> op, seen |-> factor]]
        /\ UNCHANGED <<factor, confirmed>> /\ ~crossed /\ ~Clash(c, op) /\ Admitted(op)
    BY <1>1 DEF BeginRequest, Loaded
  <2>2. Doing(c)' = op /\ freq'[c].seen = factor /\ \A d \in FactorReqs \ {c} : freq'[d] = freq[d]
    BY <2>1, <1>p DEF Doing
  <2>3. \A d \in FactorReqs \ {c} :
          /\ op = "enable" => ~Writer(Doing(d))
          /\ Writer(op) => Doing(d) # "enable"
    BY <2>1 DEF Clash, Others, Writer, Operations
  <2>4. \A b, d \in FactorReqs : Doing(b)' = "enable" => ~Writer(Doing(d)')
    <3> SUFFICES ASSUME NEW b \in FactorReqs, NEW d \in FactorReqs, Doing(b)' = "enable", Writer(Doing(d)')
                 PROVE FALSE
      OBVIOUS
    <3>1. CASE b = c /\ d = c
      BY <3>1, <2>2 DEF Writer
    <3>2. CASE b = c /\ d # c
      BY <3>2, <2>2, <2>3 DEF Doing
    <3>3. CASE b # c /\ d = c
      BY <3>3, <2>2, <2>3 DEF Doing
    <3>4. CASE b # c /\ d # c
      BY <3>4, <2>1, <2>2 DEF Doing, SecretInv
    <3> QED BY <3>1, <3>2, <3>3, <3>4
  <2>5. op = "setup" => ~factor.on
    BY <2>1 DEF Admitted
  <2>6. \A d \in FactorReqs : Doing(d)' = "setup" => ~factor'.on
    BY <2>1, <2>2, <2>5 DEF Doing, SecretInv
  <2>7. \A d \in FactorReqs : Doing(d)' = "enable" => freq'[d].seen.secret = factor'.secret
    BY <2>1, <2>2 DEF Doing, SecretInv
  <2> QED BY <2>1, <2>4, <2>6, <2>7 DEF SecretInv
<1>2. ASSUME NEW c \in FactorReqs, AnswerLogin(c) \/ VerifyByTotp(c) \/ Reject(c) PROVE SecretInv'
  BY <1>2, <1>q DEF AnswerLogin, VerifyByTotp, Reject
<1>3. ASSUME NEW c \in FactorReqs, StartEnrollment(c) PROVE SecretInv'
  <2>1. ~crossed /\ Doing(c) = "setup" /\ Ends(c) /\ UNCHANGED <<confirmed, crossed>>
    BY <1>3 DEF StartEnrollment
  <2>2. ~factor.on /\ \A d \in FactorReqs : Doing(d) # "enable"
    BY <2>1 DEF SecretInv, Writer
  <2>3. factor'.on = factor.on
    BY <1>3, <1>p DEF StartEnrollment, Factor
  <2> QED BY <1>q, <2>1, <2>2, <2>3
<1>4. ASSUME NEW c \in FactorReqs, ConfirmEnrollment(c) PROVE SecretInv'
  <2>1. ~crossed /\ Doing(c) = "enable" /\ Ends(c) /\ UNCHANGED crossed /\ confirmed' = freq[c].seen.secret
    BY <1>4 DEF ConfirmEnrollment
  <2>2. freq[c].seen.secret = factor.secret /\ \A d \in FactorReqs : ~Writer(Doing(d))
    BY <2>1 DEF SecretInv
  <2>3. factor'.secret = factor.secret
    BY <1>4, <1>p DEF ConfirmEnrollment, Factor
  <2>4. \A d \in FactorReqs : Doing(d)' # "none" => Doing(d)' = Doing(d) /\ freq'[d] = freq[d]
    BY <2>1, <1>e DEF Doing
  <2>5. \A d \in FactorReqs : ~Writer(Doing(d)')
    BY <2>2, <2>4 DEF Writer
  <2>6. \A d \in FactorReqs : Doing(d)' = "enable" => freq'[d].seen.secret = factor'.secret
    BY <2>1, <2>3, <2>4 DEF SecretInv
  <2> QED BY <2>1, <2>2, <2>3, <2>5, <2>6 DEF SecretInv, Writer
<1>5. ASSUME NEW c \in FactorReqs, NEW backup \in BackupCodes, VerifyByBackup(c, backup) PROVE SecretInv'
  <2>1. factor'.on = factor.on /\ factor'.secret = factor.secret
    BY <1>5, <1>p DEF VerifyByBackup, Consume, Factor
  <2> QED BY <1>5, <1>q, <2>1 DEF VerifyByBackup
<1>6. ASSUME NEW c \in FactorReqs, NEW backup \in BackupCodes, DisableByBackup(c, backup) PROVE SecretInv'
  <2>1. factor'.on = factor.on /\ factor'.secret = factor.secret
    BY <1>6, <1>p DEF DisableByBackup, Consume, Factor
  <2>2. Doing(c) = "disable" /\ UNCHANGED <<confirmed, crossed>> /\ ~crossed
    BY <1>6 DEF DisableByBackup
  <2>3. Doing(c)' = "removal" /\ \A d \in FactorReqs \ {c} : freq'[d] = freq[d]
    <3>1. freq[c] \in [op : Operations \cup {"removal"}, seen : Factor]
      BY <2>2, <1>p DEF FactorRequest, Doing, NotBegun
    <3> QED BY <1>6, <3>1, <1>p DEF DisableByBackup, Doing, Factor
  <2>4. \A d \in FactorReqs : Doing(d) # "enable"
    BY <2>2 DEF SecretInv, Writer
  <2>5. \A d \in FactorReqs : Doing(d)' # "enable" /\ (Doing(d)' = "setup" => Doing(d) = "setup")
    BY <2>3, <2>4 DEF Doing
  <2> QED BY <2>1, <2>2, <2>5 DEF SecretInv
<1>7. ASSUME NEW c \in FactorReqs, DisableByTotp(c) \/ FinishRemoval(c) PROVE SecretInv'
  <2>1. ~crossed /\ Writer(Doing(c)) /\ Ends(c) /\ UNCHANGED <<confirmed, crossed>>
    BY <1>7 DEF DisableByTotp, FinishRemoval, Writer
  <2>2. \A d \in FactorReqs : Doing(d) # "enable"
    BY <2>1 DEF SecretInv
  <2>3. ~factor'.on
    BY <1>7 DEF DisableByTotp, FinishRemoval, Cleared
  <2> QED BY <1>q, <2>1, <2>2, <2>3
<1>8. CASE UNCHANGED factorVars
  BY <1>8 DEF factorVars, SecretInv, Doing
<1> QED BY <1>1, <1>2, <1>3, <1>4, <1>5, <1>6, <1>7, <1>8 DEF FactorNext

(* SecretWasConfirmed, for any number of concurrent requests: an enabled    *)
(* factor asks for codes of a confirmed secret, unless a confirmation       *)
(* overlapped another writer of the secret.                                 *)
THEOREM ConfirmedSecret == FactorSpec => []SecretWasConfirmed
<1>1. FactorInit => CodesInv /\ SecretInv
  BY CodesInitial DEF FactorInit, SecretInv, Off, Doing, NotBegun
<1>2. CodesInv /\ SecretInv /\ [FactorNext]_factorVars => CodesInv' /\ SecretInv'
  BY CodesStep, SecretStep DEF CodesInv
<1>3. SecretInv => SecretWasConfirmed
  BY DEF SecretInv, SecretWasConfirmed
<1> QED BY <1>1, <1>2, <1>3, PTL DEF FactorSpec

----------------------------------------------------------------------------
(* The monthly budget.                                                     *)

(* The calls under way, and those answered and not yet counted.             *)
Calling == {l \in Lookups : lookup[l] = "call"}
Spending == {l \in Lookups : lookup[l] = "spend"}

(* Every answer is counted, about to be, or lost to the counter; and what   *)
(* is answered or asked for passes the ceiling by the other calls at most.  *)
MeterInv ==
  /\ MeterTypeOK
  /\ used + Cardinality(Spending) <= answered
  /\ ~unmetered => answered = used + Cardinality(Spending)
  /\ ~unmetered /\ Lookups # {} =>
       answered + Cardinality(Calling) < SoftCeiling + Cardinality(Lookups)

LEMMA MeterSets ==
  /\ Calling \subseteq Lookups /\ Spending \subseteq Lookups
  /\ IsFiniteSet(Calling) /\ IsFiniteSet(Spending) /\ IsFiniteSet(Lookups)
  /\ Cardinality(Calling) \in Nat /\ Cardinality(Spending) \in Nat
  /\ Cardinality(Lookups) \in Nat
<1>1. Calling \subseteq Lookups /\ Spending \subseteq Lookups
  BY DEF Calling, Spending
<1>2. IsFiniteSet(Lookups)
  BY SomeLookups
<1>3. IsFiniteSet(Calling) /\ IsFiniteSet(Spending)
  BY <1>1, <1>2, FS_Subset
<1>4. Cardinality(Calling) \in Nat
  BY <1>3, FS_CardinalityType
<1>5. Cardinality(Spending) \in Nat
  BY <1>3, FS_CardinalityType
<1>6. Cardinality(Lookups) \in Nat
  BY <1>2, FS_CardinalityType
<1> QED BY <1>1, <1>2, <1>3, <1>4, <1>5, <1>6

(* Finite sets with nothing in common.                                      *)
LEMMA Disjoint ==
  ASSUME NEW S, NEW T, IsFiniteSet(S), IsFiniteSet(T), S \cap T = {}
  PROVE  /\ IsFiniteSet(S \cup T)
         /\ Cardinality(S \cup T) = Cardinality(S) + Cardinality(T)
<1>1. Cardinality(S) \in Nat
  BY FS_CardinalityType
<1>2. Cardinality(T) \in Nat
  BY FS_CardinalityType
<1>3. Cardinality(S \cap T) = 0
  BY FS_EmptySet
<1>4. Cardinality(S \cup T) = Cardinality(S) + Cardinality(T) - Cardinality(S \cap T)
  BY FS_Union
<1>5. IsFiniteSet(S \cup T)
  BY FS_Union
<1> QED BY <1>1, <1>2, <1>3, <1>4, <1>5

LEMMA MeterInitial == MeterInit => MeterInv
<1> SUFFICES ASSUME MeterInit PROVE MeterInv
  OBVIOUS
<1>1. MeterTypeOK
  <2>1. answered \in 0..MaxAnswered /\ used \in Nat /\ used <= answered
    BY MeterBounds DEF MeterInit
  <2>2. lookup \in [Lookups -> {"idle", "call", "spend"}]
    BY DEF MeterInit
  <2> QED BY <2>1, <2>2 DEF MeterInit, MeterTypeOK
<1>2. Calling = {} /\ Spending = {}
  BY DEF MeterInit, Calling, Spending
<1>3. Cardinality(Calling) = 0 /\ Cardinality(Spending) = 0
  BY <1>2, FS_EmptySet
<1>4. Lookups # {} => Cardinality(Lookups) > 0
  BY SomeLookups, FS_EmptySet, MeterSets
<1> QED BY <1>1, <1>3, <1>4, MeterSets, MeterBounds DEF MeterInit, MeterInv

(* A set of idle calls is admitted together.                                *)
LEMMA AdmitKeeps ==
  ASSUME MeterInv, NEW calls \in SUBSET Lookups, calls # {}, NEW n \in Nat,
         Cardinality(calls) <= n, Admit(calls, n)
  PROVE  MeterInv'
<1>1. MeterTypeOK'
  BY DEF Admit, MeterInv, MeterTypeOK
<1>2. Calling' = Calling \cup calls /\ Spending' = Spending
  BY DEF Admit, Calling, Spending, MeterInv, MeterTypeOK
<1>3. Calling \cap calls = {} /\ Spending \cap calls = {} /\ Calling \cap Spending = {}
  BY DEF Admit, Calling, Spending
<1> DEFINE C == Cardinality(Calling) S == Cardinality(Spending) A == Cardinality(calls)
           L == Cardinality(Lookups)
<1>4. IsFiniteSet(calls) /\ A \in Nat /\ C \in Nat /\ S \in Nat /\ L \in Nat
  BY MeterSets, FS_Subset, FS_CardinalityType
<1>5. Cardinality(Calling') = C + A
  BY <1>2, <1>3, <1>4, MeterSets, Disjoint
<1>6. C + A + S <= L
  <2>1. IsFiniteSet(Calling \cup calls) /\ Cardinality(Calling \cup calls) = C + A
    BY <1>3, <1>4, MeterSets, Disjoint
  <2>2. (Calling \cup calls) \cap Spending = {}
    BY <1>3
  <2>3. Cardinality((Calling \cup calls) \cup Spending) = (C + A) + S
    BY <2>1, <2>2, MeterSets, Disjoint
  <2>4. (Calling \cup calls) \cup Spending \subseteq Lookups
    BY MeterSets
  <2>5. Cardinality((Calling \cup calls) \cup Spending) <= L
    BY <2>4, MeterSets, FS_Subset
  <2> QED BY <2>3, <2>5
<1>7. ~unmetered' => ~unmetered /\ used + n <= SoftCeiling
  BY DEF Admit, Fits, Known
<1>8. answered \in Nat /\ used \in Nat /\ SoftCeiling \in Nat /\ answered' = answered /\ used' = used
  BY MeterBounds DEF Admit, MeterInv, MeterTypeOK
<1>9. Cardinality(Spending') = S
  BY <1>2
<1>10. used + S <= answered /\ (~unmetered => answered = used + S)
  BY DEF MeterInv
<1> HIDE DEF C, S, A, L
<1>11. ~unmetered' => answered' = used' + S
  BY <1>7, <1>8, <1>10
<1>12. ~unmetered' => answered' + (C + A) < SoftCeiling + L
  <2> SUFFICES ASSUME ~unmetered' PROVE answered' + (C + A) < SoftCeiling + L
    OBVIOUS
  <2>1. A > 0
    BY <1>4, FS_EmptySet DEF A
  <2>2. A <= n
    BY DEF A
  <2>3. used + n <= SoftCeiling /\ answered = used + S
    BY <1>7, <1>10
  <2> QED BY <2>1, <2>2, <2>3, <1>4, <1>6, <1>8
<1> QED BY <1>1, <1>5, <1>8, <1>9, <1>10, <1>11, <1>12 DEF MeterInv, C, S, A, L

LEMMA MeterStep == MeterInv /\ [MeterNext]_meterVars => MeterInv'
<1> SUFFICES ASSUME MeterInv, [MeterNext]_meterVars PROVE MeterInv'
  OBVIOUS
<1> USE DEF MeterInv
<1>1. ASSUME NEW l \in Lookups, AskForOne(l) PROVE MeterInv'
  <2>1. Cardinality({l}) = 1
    BY FS_Singleton
  <2> QED BY <1>1, <2>1, AdmitKeeps DEF AskForOne
<1>2. ASSUME NEW asked \in SUBSET Lookups, NEW n \in 1..MaxPage, AskForPage(asked, n)
      PROVE  MeterInv'
  <2>1. n \in Nat
    BY MeterBounds
  <2> QED BY <1>2, <2>1, AdmitKeeps DEF AskForPage
<1>3. ASSUME NEW l \in Lookups, Answers(l) PROVE MeterInv'
  <2>1. MeterTypeOK'
    BY <1>3, MeterBounds DEF Answers, MeterTypeOK
  <2>2. /\ l \in Calling /\ l \notin Spending
        /\ Calling' = Calling \ {l} /\ Spending' = Spending \cup {l}
    BY <1>3 DEF Answers, Calling, Spending, MeterTypeOK
  <2>3. Cardinality(Calling') = Cardinality(Calling) - 1
    BY <2>2, MeterSets, FS_RemoveElement
  <2>4. Cardinality(Spending') = Cardinality(Spending) + 1
    BY <2>2, MeterSets, FS_AddElement
  <2> QED BY <1>3, <2>1, <2>3, <2>4, MeterSets, MeterBounds DEF Answers, MeterTypeOK
<1>4. ASSUME NEW l \in Lookups, CallFails(l) PROVE MeterInv'
  <2>1. MeterTypeOK'
    BY <1>4 DEF CallFails, MeterTypeOK
  <2>2. l \in Calling /\ Calling' = Calling \ {l} /\ Spending' = Spending
    BY <1>4 DEF CallFails, Calling, Spending, MeterTypeOK
  <2>3. Cardinality(Calling') = Cardinality(Calling) - 1
    BY <2>2, MeterSets, FS_RemoveElement
  <2> QED BY <1>4, <2>1, <2>2, <2>3, MeterSets, MeterBounds DEF CallFails, MeterTypeOK
<1>5. ASSUME NEW l \in Lookups, Spend(l) PROVE MeterInv'
  <2>2. l \in Spending /\ Spending' = Spending \ {l} /\ Calling' = Calling
    BY <1>5 DEF Spend, Calling, Spending, MeterTypeOK
  <2>3. Cardinality(Spending') = Cardinality(Spending) - 1 /\ Cardinality(Spending) - 1 \in Nat
    <3>1. Cardinality(Spending \ {l}) = Cardinality(Spending) - 1 /\ IsFiniteSet(Spending \ {l})
      BY <2>2, MeterSets, FS_RemoveElement
    <3> QED BY <3>1, <2>2, FS_CardinalityType
  <2>4. used \in Nat /\ answered \in Nat /\ used' + Cardinality(Spending') <= answered
    BY <1>5, <2>3, MeterSets DEF Spend, MeterTypeOK
  <2>5. used' \in Nat /\ answered' = answered
    BY <1>5, <2>4 DEF Spend
  <2>6. used' <= answered'
    BY <2>3, <2>4, <2>5
  <2>7. lookup' \in [Lookups -> {"idle", "call", "spend"}]
    BY <1>5 DEF Spend, MeterTypeOK
  <2>8. unmetered' \in BOOLEAN /\ reachable' \in BOOLEAN
    BY <1>5 DEF Spend, MeterTypeOK
  <2>1. MeterTypeOK'
    BY <2>5, <2>6, <2>7, <2>8 DEF MeterTypeOK
  <2>9. ~unmetered' => ~unmetered /\ used' = used + 1
    BY <1>5 DEF Spend, MeterTypeOK
  <2>10. ~unmetered' => answered' = used' + Cardinality(Spending')
    BY <2>3, <2>4, <2>5, <2>9, MeterSets
  <2>11. Cardinality(Calling') = Cardinality(Calling)
    BY <2>2
  <2>12. ~unmetered' /\ Lookups # {} =>
           answered' + Cardinality(Calling') < SoftCeiling + Cardinality(Lookups)
    BY <2>5, <2>9, <2>11
  <2> QED BY <2>1, <2>4, <2>5, <2>10, <2>12
<1>6. CASE RedisChanges
  <2>1. Calling' = Calling /\ Spending' = Spending
    BY <1>6 DEF RedisChanges, Calling, Spending
  <2> QED BY <1>6, <2>1 DEF RedisChanges, MeterTypeOK
<1>7. CASE UNCHANGED meterVars
  <2>1. Calling' = Calling /\ Spending' = Spending
    BY <1>7 DEF meterVars, Calling, Spending
  <2> QED BY <1>7, <2>1 DEF meterVars, MeterTypeOK
<1> QED BY <1>1, <1>2, <1>3, <1>4, <1>5, <1>6, <1>7 DEF MeterNext

LEMMA MeterReaches == MeterSpec => []MeterInv
BY MeterInitial, MeterStep, PTL DEF MeterSpec

(* CeilingHolds, for any number of calls under way and any ceiling.         *)
THEOREM Ceiling == MeterSpec => []CeilingHolds
<1>1. MeterInv => CeilingHolds
  BY MeterSets, MeterBounds DEF MeterInv, MeterTypeOK, CeilingHolds
<1> QED BY <1>1, MeterReaches, PTL

-----------------------------------------------------------------------------
(* The circuit breaker.                                                    *)
USE ThresholdAssumption, CooldownAssumption, NobodyAssumption

(* An open breaker has counted up to its threshold, and a closed one has not;*)
(* the lock is held by the one caller whose call is a probe.                 *)
OpenCounts == Closed <=> failures < FailureThreshold
LockIsProbes == \A c \in Callers : call[c] = "probe" <=> probeLock = c

BreakerInv == BreakerTypeOK /\ OpenCounts /\ LockIsProbes

LEMMA BreakerInitial == BreakerInit => BreakerInv
  BY DEF BreakerInit, BreakerInv, BreakerTypeOK, OpenCounts, LockIsProbes, Closed, NotOpen

(* The end of a call frees the lock exactly when the call held it.           *)
LEMMA EndKeepsLock ==
  ASSUME BreakerInv, NEW c \in Callers, EndCall(c)
  PROVE  /\ probeLock' \in Callers \cup {Nobody}
         /\ call' \in [Callers -> {"none", "ordinary", "probe"}]
         /\ LockIsProbes'
  BY DEF BreakerInv, BreakerTypeOK, LockIsProbes, EndCall

LEMMA BreakerStep == BreakerInv /\ [BreakerNext]_breakerVars => BreakerInv'
<1> SUFFICES ASSUME BreakerInv, [BreakerNext]_breakerVars PROVE BreakerInv'
  OBVIOUS
<1> USE DEF NotOpen, Closed
<1>1. ASSUME NEW c \in Callers, BeginOrdinary(c) PROVE BreakerInv'
  BY <1>1 DEF BeginOrdinary, BreakerInv, BreakerTypeOK, OpenCounts, LockIsProbes
<1>2. ASSUME NEW c \in Callers, BeginProbe(c) PROVE BreakerInv'
  BY <1>2 DEF BeginProbe, MayProbe, BreakerInv, BreakerTypeOK, OpenCounts, LockIsProbes
<1>3. ASSUME NEW c \in Callers, Answer(c) PROVE BreakerInv'
  <2>1. EndCall(c) /\ RecordSuccess /\ healthy' = healthy /\ lost' = 0
    BY <1>3 DEF Answer
  <2>2. OpenCounts'
    BY <2>1 DEF RecordSuccess, OpenCounts
  <2> QED
    BY <2>1, <2>2, EndKeepsLock DEF RecordSuccess, BreakerInv, BreakerTypeOK
<1>4. ASSUME NEW c \in Callers, FailCall(c) PROVE BreakerInv'
  <2>1. EndCall(c) /\ RecordFailure /\ healthy' = healthy /\ lost' = lost
    BY <1>4 DEF FailCall
  <2>2. /\ failures' \in 0..FailureThreshold
        /\ opened_at' \in {NotOpen} \cup 0..Cooldown
    BY <2>1 DEF RecordFailure, UpTo, BreakerInv, BreakerTypeOK
  <2>3. OpenCounts'
    BY <2>1 DEF RecordFailure, Reopens, UpTo, BreakerInv, BreakerTypeOK, OpenCounts
  <2> QED
    BY <2>1, <2>2, <2>3, EndKeepsLock DEF BreakerInv, BreakerTypeOK
<1>5. ASSUME NEW c \in Callers, TimeOut(c) PROVE BreakerInv'
  <2>1. EndCall(c) /\ lost' \in 0..FailureThreshold
             /\ UNCHANGED <<failures, opened_at, healthy>>
    BY <1>5 DEF TimeOut, UpTo, BreakerInv, BreakerTypeOK
  <2>2. OpenCounts'
    BY <2>1 DEF BreakerInv, OpenCounts
  <2> QED
    BY <2>1, <2>2, EndKeepsLock DEF BreakerInv, BreakerTypeOK
<1>6. CASE CooldownTick
  BY <1>6 DEF CooldownTick, IsOpen, BreakerInv, BreakerTypeOK, OpenCounts, LockIsProbes
<1>7. CASE HealthChanges
  BY <1>7 DEF HealthChanges, BreakerInv, BreakerTypeOK, OpenCounts, LockIsProbes
<1>8. CASE UNCHANGED breakerVars
  BY <1>8 DEF breakerVars, BreakerInv, BreakerTypeOK, OpenCounts, LockIsProbes
<1> QED
  BY <1>1, <1>2, <1>3, <1>4, <1>5, <1>6, <1>7, <1>8 DEF BreakerNext, BeginCall

THEOREM BreakerHolds == BreakerSpec => []BreakerInv
  BY BreakerInitial, BreakerStep, PTL DEF BreakerSpec

(* A breaker that has cooled down is never stuck half-open: the lock of its *)
(* probe is free to take, or held by a call that is still running, however  *)
(* earlier probes ended.                                                    *)
THEOREM WayBack == BreakerSpec => [](HalfOpen => MayProbe \/ \E c \in Callers : call[c] = "probe")
<1>1. BreakerInv => (HalfOpen => MayProbe \/ \E c \in Callers : call[c] = "probe")
  BY DEF BreakerInv, BreakerTypeOK, LockIsProbes, MayProbe
<1> QED
  BY <1>1, BreakerHolds, PTL

(* The counter, the cooldown clock, the lock and the calls keep their types: *)
(* the count never passes the threshold, nor the clock the cooldown.         *)
THEOREM BreakerTypes == BreakerSpec => []BreakerTypeOK
<1>1. BreakerInv => BreakerTypeOK
  BY DEF BreakerInv
<1> QED
  BY <1>1, BreakerHolds, PTL

-----------------------------------------------------------------------------
(* The breaker implements the automaton of CircuitPromise.                   *)

LEMMA InitMaps == BreakerInit => Promise!Init
  BY DEF BreakerInit, Promise!Init, Mode, Closed, OrdinaryCalls, ProbeCalls

(* Whoever's call ends leaves the set it is in.                              *)
LEMMA EndMaps ==
  ASSUME BreakerInv, NEW c \in Callers, EndCall(c)
  PROVE  Promise!Returned(c)
<1>1. c \in OrdinaryCalls \cup ProbeCalls
  BY DEF EndCall, BreakerInv, BreakerTypeOK, OrdinaryCalls, ProbeCalls
<1>2. OrdinaryCalls' = OrdinaryCalls \ {c}
  BY DEF EndCall, BreakerInv, BreakerTypeOK, OrdinaryCalls
<1>3. ProbeCalls' = ProbeCalls \ {c}
  BY DEF EndCall, BreakerInv, BreakerTypeOK, ProbeCalls
<1> QED
  BY <1>1, <1>2, <1>3 DEF Promise!Returned, Promise!Out

LEMMA StepMaps == BreakerInv /\ [BreakerNext]_breakerVars => [Promise!Next]_(Promise!pvars)
<1> SUFFICES ASSUME BreakerInv, [BreakerNext]_breakerVars PROVE [Promise!Next]_(Promise!pvars)
  OBVIOUS
<1>1. ASSUME NEW c \in Callers, BeginOrdinary(c) PROVE Promise!Admit(c)
  <2>1. Mode = "closed" /\ Mode' = Mode
    BY <1>1 DEF BeginOrdinary, Mode, Closed, IsOpen
  <2>2. c \notin OrdinaryCalls \cup ProbeCalls
    BY <1>1 DEF BeginOrdinary, OrdinaryCalls, ProbeCalls
  <2>3. OrdinaryCalls' = OrdinaryCalls \cup {c} /\ ProbeCalls' = ProbeCalls
    BY <1>1 DEF BeginOrdinary, BreakerInv, BreakerTypeOK, OrdinaryCalls, ProbeCalls
  <2> QED
    BY <2>1, <2>2, <2>3 DEF Promise!Admit, Promise!Out
<1>2. ASSUME NEW c \in Callers, BeginProbe(c) PROVE Promise!Probe(c)
  <2>1. Mode = "half_open" /\ Mode' = Mode
    BY <1>2 DEF BeginProbe, MayProbe, HalfOpen, Mode, Closed, IsOpen
  <2>2. c \notin OrdinaryCalls \cup ProbeCalls
    BY <1>2 DEF BeginProbe, OrdinaryCalls, ProbeCalls
  <2>3. ProbeCalls = {}
    BY <1>2 DEF BeginProbe, MayProbe, BreakerInv, LockIsProbes, ProbeCalls
  <2>4. OrdinaryCalls' = OrdinaryCalls /\ ProbeCalls' = ProbeCalls \cup {c}
    BY <1>2 DEF BeginProbe, BreakerInv, BreakerTypeOK, OrdinaryCalls, ProbeCalls
  <2> QED
    BY <2>1, <2>2, <2>3, <2>4 DEF Promise!Probe, Promise!Out
<1>3. ASSUME NEW c \in Callers, Answer(c) PROVE Promise!Answered(c)
  <2>1. Mode' = "closed"
    BY <1>3 DEF Answer, RecordSuccess, Mode, Closed
  <2>2. Promise!Returned(c)
    BY <1>3, EndMaps DEF Answer
  <2> QED
    BY <2>1, <2>2 DEF Promise!Answered
<1>4. ASSUME NEW c \in Callers, FailCall(c) PROVE Promise!Erred(c)
  <2>1. \/ Mode = "closed" /\ Mode' = "closed"
        \/ Mode' = "open"
    BY <1>4 DEF FailCall, RecordFailure, Reopens, Mode, Closed, IsOpen, NotOpen
  <2>2. Promise!Returned(c)
    BY <1>4, EndMaps DEF FailCall
  <2> QED
    BY <2>1, <2>2 DEF Promise!Erred
<1>5. ASSUME NEW c \in Callers, TimeOut(c) PROVE Promise!GivenUp(c)
  <2>1. Mode' = Mode
    BY <1>5 DEF TimeOut, Mode, Closed, IsOpen
  <2>2. Promise!Returned(c)
    BY <1>5, EndMaps DEF TimeOut
  <2> QED
    BY <2>1, <2>2 DEF Promise!GivenUp
<1>6. ASSUME CooldownTick PROVE Promise!Cooled \/ UNCHANGED Promise!pvars
  <2>1. Mode = "open" /\ Mode' \in {"open", "half_open"}
    BY <1>6 DEF CooldownTick, BreakerInv, BreakerTypeOK, Mode, Closed, IsOpen, NotOpen
  <2>2. UNCHANGED <<OrdinaryCalls, ProbeCalls>>
    BY <1>6 DEF CooldownTick, OrdinaryCalls, ProbeCalls
  <2> QED
    BY <2>1, <2>2 DEF Promise!Cooled, Promise!pvars
<1>7. ASSUME HealthChanges \/ UNCHANGED breakerVars PROVE UNCHANGED Promise!pvars
  BY <1>7 DEF HealthChanges, breakerVars, Promise!pvars, Mode, Closed, IsOpen,
              OrdinaryCalls, ProbeCalls
<1> QED
  BY <1>1, <1>2, <1>3, <1>4, <1>5, <1>6, <1>7 DEF BreakerNext, BeginCall, Promise!Next

(* guard() implements the three-state automaton: nothing reaches the provider*)
(* through an open breaker, one call at a time does through a half-open one, *)
(* and only an answer closes it.                                             *)
THEOREM Refinement == BreakerSpec => KeepsPromise
<1>1. BreakerSpec => []BreakerInv
  BY BreakerHolds
<1> QED
  BY <1>1, InitMaps, StepMaps, PTL DEF BreakerSpec, KeepsPromise, Promise!Spec

-----------------------------------------------------------------------------
(* The count is the number of failures at the end of what was recorded.      *)

Streak ==
  /\ results \in Seq(BOOLEAN)
  /\ Len(results) <= FailureThreshold
  /\ failures <= Len(results)
  /\ \A i \in 1..Len(results) : i > Len(results) - failures => ~results[i]
  /\ failures < Len(results) => results[Len(results) - failures]

LEMMA InitStreak == BreakerInit => Streak
  BY DEF BreakerInit, Streak

LEMMA TailFacts ==
  ASSUME NEW seq \in Seq(BOOLEAN), Len(seq) > 0
  PROVE  /\ Tail(seq) \in Seq(BOOLEAN)
         /\ Len(Tail(seq)) = Len(seq) - 1
         /\ \A i \in 1..(Len(seq) - 1) : Tail(seq)[i] = seq[i + 1]
  OBVIOUS

LEMMA SuccessStreak ==
  ASSUME BreakerInv, Streak, RecordSuccess, Remember(TRUE)
  PROVE  Streak'
<1> DEFINE all == Append(results, TRUE)
<1>1. /\ all \in Seq(BOOLEAN)
      /\ Len(all) = Len(results) + 1
      /\ all[Len(all)]
  BY DEF Streak
<1>r. results' = IF Len(all) > FailureThreshold THEN Tail(all) ELSE all
  BY DEF Remember
<1> HIDE DEF all
<1>2. /\ results' \in Seq(BOOLEAN)
      /\ Len(results') \in 1..FailureThreshold
      /\ results'[Len(results')]
  <2>1. CASE Len(all) > FailureThreshold
    BY <1>1, <1>r, <2>1, TailFacts DEF Streak
  <2>2. CASE ~(Len(all) > FailureThreshold)
    BY <1>1, <1>r, <2>2 DEF Streak
  <2> QED
    BY <2>1, <2>2
<1>3. failures' = 0
  BY DEF RecordSuccess
<1> QED
  BY <1>2, <1>3 DEF Streak

LEMMA FailureStreak ==
  ASSUME BreakerInv, Streak, RecordFailure, Remember(FALSE)
  PROVE  Streak'
<1> DEFINE all == Append(results, FALSE)
<1>1. /\ failures \in 0..FailureThreshold
      /\ failures' = IF failures + 1 < FailureThreshold
                       THEN failures + 1 ELSE FailureThreshold
  BY DEF RecordFailure, UpTo, BreakerInv, BreakerTypeOK
<1>2. /\ all \in Seq(BOOLEAN)
      /\ Len(all) = Len(results) + 1
      /\ \A i \in 1..Len(results) : all[i] = results[i]
      /\ ~all[Len(all)]
  BY DEF Streak
<1>r. results' = IF Len(all) > FailureThreshold THEN Tail(all) ELSE all
  BY DEF Remember
<1> HIDE DEF all
<1>3. CASE Len(all) > FailureThreshold
  <2>1. Len(results) = FailureThreshold
    BY <1>2, <1>3 DEF Streak
  <2>2. /\ results' \in Seq(BOOLEAN)
        /\ Len(results') = FailureThreshold
        /\ \A i \in 1..FailureThreshold : results'[i] = all[i + 1]
    BY <1>2, <1>3, <1>r, <2>1, TailFacts
  <2>3. \A i \in 1..Len(results') : i > Len(results') - failures' => ~results'[i]
    BY <1>1, <1>2, <2>1, <2>2 DEF Streak
  <2>4. failures' < Len(results') => results'[Len(results') - failures']
    BY <1>1, <1>2, <2>1, <2>2 DEF Streak
  <2> QED
    BY <1>1, <2>2, <2>3, <2>4 DEF Streak
<1>4. CASE ~(Len(all) > FailureThreshold)
  <2>1. results' = all
    BY <1>4, <1>r
  <2>2. failures' = failures + 1
    BY <1>1, <1>2, <1>4 DEF Streak
  <2>3. \A i \in 1..Len(all) : i > Len(all) - failures' => ~all[i]
    BY <1>1, <1>2, <2>2 DEF Streak
  <2>4. failures' < Len(all) => all[Len(all) - failures']
    BY <1>1, <1>2, <2>2 DEF Streak
  <2> QED
    BY <1>1, <1>2, <1>4, <2>1, <2>2, <2>3, <2>4 DEF Streak
<1> QED
  BY <1>3, <1>4

LEMMA NextStreak == BreakerInv /\ Streak /\ [BreakerNext]_breakerVars => Streak'
<1> SUFFICES ASSUME BreakerInv, Streak, [BreakerNext]_breakerVars PROVE Streak'
  OBVIOUS
<1>1. ASSUME NEW c \in Callers, Answer(c) PROVE Streak'
  BY <1>1, SuccessStreak DEF Answer
<1>2. ASSUME NEW c \in Callers, FailCall(c) PROVE Streak'
  BY <1>2, FailureStreak DEF FailCall
<1>3. CASE UNCHANGED <<failures, results>>
  BY <1>3 DEF Streak
<1> QED
  BY <1>1, <1>2, <1>3
     DEF BreakerNext, BeginCall, BeginOrdinary, BeginProbe, TimeOut, CooldownTick, HealthChanges, breakerVars

(* The breaker leaves the closed state exactly on FailureThreshold failures  *)
(* recorded in a row, for any interleaving of the calls that end in them.    *)
THEOREM Trips == BreakerSpec => []TripsOnAStreak
<1>1. BreakerInv /\ Streak => TripsOnAStreak
  <2> SUFFICES ASSUME BreakerInv, Streak PROVE TripsOnAStreak
    OBVIOUS
  <2>1. CASE Closed
    <3>1. failures < FailureThreshold
      BY <2>1 DEF BreakerInv, OpenCounts
    <3>2. Len(results) = FailureThreshold => results[Len(results) - failures]
      BY <3>1 DEF Streak
    <3>3. Len(results) = FailureThreshold => Len(results) - failures \in DOMAIN results
      BY <3>1 DEF Streak, BreakerInv, BreakerTypeOK
    <3> QED
      BY <2>1, <3>2, <3>3 DEF TripsOnAStreak
  <2>2. CASE ~Closed
    <3>1. failures = FailureThreshold
      BY <2>2 DEF BreakerInv, OpenCounts, BreakerTypeOK
    <3> QED
      BY <2>2, <3>1 DEF Streak, TripsOnAStreak
  <2> QED
    BY <2>1, <2>2
<1> QED
  BY <1>1, InitStreak, NextStreak, BreakerHolds, PTL DEF BreakerSpec

-----------------------------------------------------------------------------
(* The four side by side.                                                   *)

LEMMA PartsBegin == MCInit => Init /\ FactorInit /\ BreakerInit /\ MeterInit
BY DEF MCInit

LEMMA PartsStep ==
  [MCNext]_<<vars, factorVars, breakerVars, meterVars, part>>
    => [Next]_vars /\ [FactorNext]_factorVars /\ [BreakerNext]_breakerVars /\ [MeterNext]_meterVars
BY DEF MCNext

(* The composition implements each part's own specification, so that what is *)
(* proved of a part holds of the guards together: no part disturbs another. *)
THEOREM EachGuard == MCSpec => Spec /\ FactorSpec /\ BreakerSpec /\ MeterSpec
BY PartsBegin, PartsStep, PTL DEF MCSpec, Spec, FactorSpec, BreakerSpec, MeterSpec

(* The lock, the second factor, the breaker and the meter keep their types  *)
(* side by side.                                                            *)
THEOREM GuardsTypes == MCSpec => []GuardsTypeOK
<1>1. MeterInv => MeterTypeOK
  BY DEF MeterInv
<1>2. TypeOK /\ FactorTypeOK /\ BreakerTypeOK /\ MeterTypeOK => GuardsTypeOK
  BY DEF GuardsTypeOK
<1> QED
  BY <1>1, <1>2, EachGuard, LockoutTypes, FactorTypes, BreakerTypes, MeterReaches, PTL
=============================================================================
