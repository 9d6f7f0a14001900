---------------------------- MODULE SecondFactor ----------------------------
(***************************************************************************)
(* The second factor of one account: enrolment (start_enrollment,          *)
(* confirm_enrollment), removal (disable) and the second step of sign-in   *)
(* (login's challenge, mfa_verify) under concurrent requests.  Every       *)
(* request loads the user row, decides from that copy and commits only the *)
(* columns it changed; the list of backup codes is one such column, written*)
(* whole.  A request is a slot holding its operation and the row it loaded.*)
(***************************************************************************)
EXTENDS Naturals, FiniteSets

CONSTANTS
  FactorReqs,   \* requests in flight at once
  CodesEach,    \* backup codes of one enrolment
  MaxSecrets,   \* bound: enrolments started
  MaxEnrolments \* bound: enrolments confirmed

ASSUME FactorBounds ==
  CodesEach \in Nat /\ MaxSecrets \in Nat /\ MaxEnrolments \in Nat

VARIABLES
  factor,     \* mfa_enabled, mfa_secret and mfa_backup_codes of the row
  freq,       \* the requests in flight
  challenged, \* history: a sign-in was answered with an mfa token
  made,       \* secrets and sets of codes made so far
  confirmed,  \* history: the secret the last confirmation checked a code against
  crossed,    \* history: a confirmation overlapped another writer of the secret
  spent,      \* history: the backup codes used
  held        \* history: those some other request had loaded when they were used

factorVars == <<factor, freq, challenged, made, confirmed, crossed, spent, held>>

NoSecret == 0
Secrets == 0..MaxSecrets
BackupCodes == (1..MaxEnrolments) \X (1..CodesEach)
Factor == [on : BOOLEAN, secret : Secrets, codes : SUBSET BackupCodes]
Off == [on |-> FALSE, secret |-> NoSecret, codes |-> {}]

Operations == {"login", "verify", "setup", "enable", "disable"}
NotBegun == [op |-> "none"]
FactorRequest == {NotBegun} \cup [op : Operations \cup {"removal"}, seen : Factor]

FactorInit ==
  /\ factor = Off
  /\ freq = [c \in FactorReqs |-> NotBegun]
  /\ challenged = FALSE
  /\ made = [secrets |-> 0, sets |-> 0]
  /\ confirmed = NoSecret /\ crossed = FALSE
  /\ spent = {} /\ held = {}

Doing(c) == freq[c].op
Others(c) == {d \in FactorReqs \ {c} : Doing(d) # "none"}
Ends(c) == freq' = [freq EXCEPT ![c] = NotBegun]
Loaded(c, op) == freq' = [freq EXCEPT ![c] = [op |-> op, seen |-> factor]]

(* Only the columns that differ from the loaded copy are written.           *)
PutColumn(new, seen, stored) == IF new # seen THEN new ELSE stored

(* An enrolment being confirmed while another request sets or clears the    *)
(* secret.                                                                  *)
Clash(c, op) ==
  \E d \in Others(c) :
    \/ op = "enable" /\ Doing(d) \in {"setup", "disable", "removal"}
    \/ op \in {"setup", "disable"} /\ Doing(d) = "enable"

(* What the row read must look like for the request to go on: setup refuses *)
(* an enabled account, enable needs a pending secret, disable of a factor   *)
(* that is off is a no-op, and the second step asks for a challenge.        *)
AdmittedSetupAlways(op) ==
  CASE op = "login" -> TRUE
    [] op = "verify" -> challenged /\ factor.on
    [] op = "setup" -> TRUE
    [] op = "enable" -> ~factor.on /\ factor.secret # NoSecret
    [] op = "disable" -> factor.on
Admitted(op) ==
  CASE op = "login" -> TRUE
    [] op = "verify" -> challenged /\ factor.on
    [] op = "setup" -> ~factor.on
    [] op = "enable" -> ~factor.on /\ factor.secret # NoSecret
    [] op = "disable" -> factor.on

BeginRequest(c, op) ==
  /\ Doing(c) = "none" /\ Admitted(op)
  /\ Loaded(c, op)
  /\ crossed' = (crossed \/ Clash(c, op))
  /\ UNCHANGED <<factor, challenged, made, confirmed, spent, held>>

(* login, password verified: the row loaded before the verification decides *)
(* between a session and a challenge.                                       *)
AnswerLogin(c) ==
  /\ Doing(c) = "login"
  /\ challenged' = (challenged \/ freq[c].seen.on)
  /\ Ends(c)
  /\ UNCHANGED <<factor, made, confirmed, crossed, spent, held>>

(* start_enrollment: a new pending secret replaces the stored one.          *)
StartEnrollment(c) ==
  /\ Doing(c) = "setup" /\ made.secrets < MaxSecrets
  /\ made' = [made EXCEPT !.secrets = @ + 1]
  /\ factor' = [factor EXCEPT !.secret = made'.secrets]
  /\ Ends(c)
  /\ UNCHANGED <<challenged, confirmed, crossed, spent, held>>

(* confirm_enrollment: the code matched the secret of the loaded copy; the  *)
(* backup codes and the switch are written, the secret is not.              *)
NewCodes(n) == {n} \X (1..CodesEach)

ConfirmEnrollment(c) ==
  /\ Doing(c) = "enable" /\ made.sets < MaxEnrolments
  /\ made' = [made EXCEPT !.sets = @ + 1]
  /\ factor' = [factor EXCEPT !.on = TRUE, !.codes = NewCodes(made'.sets)]
  /\ confirmed' = freq[c].seen.secret
  /\ Ends(c)
  /\ UNCHANGED <<challenged, crossed, spent, held>>

(* verify_login.  A TOTP code of the loaded secret changes nothing; a code  *)
(* among the loaded backup codes is dropped from that list, which is then   *)
(* stored whole, in a commit of its own.                                    *)
ByTotp(c) == freq[c].seen.secret # NoSecret

RemainingKeepsUsed(codes, used) == codes
Remaining(codes, used) == codes \ {used}

Consume(c, used) ==
  /\ used \in freq[c].seen.codes
  /\ factor' = [factor EXCEPT !.codes = Remaining(freq[c].seen.codes, used)]
  /\ spent' = spent \cup {used}
  /\ held' = IF \E d \in Others(c) : used \in freq[d].seen.codes
               THEN held \cup {used} ELSE held

VerifyByTotp(c) ==
  /\ Doing(c) = "verify" /\ ByTotp(c)
  /\ Ends(c)
  /\ UNCHANGED <<factor, challenged, made, confirmed, crossed, spent, held>>

VerifyByBackup(c, used) ==
  /\ Doing(c) = "verify" /\ Consume(c, used)
  /\ Ends(c)
  /\ UNCHANGED <<challenged, made, confirmed, crossed>>

(* disable: the same check, then everything is cleared.  With a backup code *)
(* that is a second commit, by a copy whose list already lacks the code.    *)
Cleared(seen) ==
  [on |-> FALSE,
   secret |-> PutColumn(NoSecret, seen.secret, factor.secret),
   codes |-> {}]

DisableByTotp(c) ==
  /\ Doing(c) = "disable" /\ ByTotp(c)
  /\ factor' = Cleared(freq[c].seen)
  /\ Ends(c)
  /\ UNCHANGED <<challenged, made, confirmed, crossed, spent, held>>

DisableByBackup(c, used) ==
  /\ Doing(c) = "disable" /\ Consume(c, used)
  /\ freq' = [freq EXCEPT ![c].op = "removal", ![c].seen.codes = Remaining(@, used)]
  /\ UNCHANGED <<challenged, made, confirmed, crossed>>

FinishRemoval(c) ==
  /\ Doing(c) = "removal"
  /\ factor' = Cleared(freq[c].seen)
  /\ Ends(c)
  /\ UNCHANGED <<challenged, made, confirmed, crossed, spent, held>>

(* A wrong code, a wrong password, or a request that dies: nothing more is  *)
(* committed.                                                               *)
Reject(c) ==
  /\ Doing(c) # "none" /\ Ends(c)
  /\ UNCHANGED <<factor, challenged, made, confirmed, crossed, spent, held>>

FactorNext ==
  \E c \in FactorReqs :
    \/ \E op \in Operations : BeginRequest(c, op)
    \/ AnswerLogin(c) \/ StartEnrollment(c) \/ ConfirmEnrollment(c)
    \/ VerifyByTotp(c) \/ DisableByTotp(c) \/ FinishRemoval(c) \/ Reject(c)
    \/ \E used \in BackupCodes : VerifyByBackup(c, used) \/ DisableByBackup(c, used)

FactorSpec == FactorInit /\ [][FactorNext]_factorVars

----------------------------------------------------------------------------
(* The type invariant. *)
FactorTypeOK ==
  /\ factor \in Factor
  /\ freq \in [FactorReqs -> FactorRequest]
  /\ challenged \in BOOLEAN /\ crossed \in BOOLEAN
  /\ made \in [secrets : 0..MaxSecrets, sets : 0..MaxEnrolments]
  /\ confirmed \in Secrets
  /\ spent \subseteq BackupCodes /\ held \subseteq spent

(* "A matched backup code is consumed (removed) so it can't be replayed":   *)
(* a used code never comes back into the list, through any later enrolment, *)
(* removal or sign-in, unless another request had the list loaded while it  *)
(* was being used.                                                          *)
SpentStaysSpent == factor.codes \cap spent \subseteq held

(* An enabled factor asks for codes of a secret its owner has confirmed,    *)
(* unless a confirmation ran beside another setup or a removal: then it may *)
(* ask for codes of a secret nobody confirmed, or of none.                  *)
SecretWasConfirmed == factor.on /\ ~crossed => factor.secret = confirmed
=============================================================================
