------------------------------ MODULE MCGuards ------------------------------
(* What turns a request away, on small instances: LoginLockout and          *)
(* SecondFactor at the door of an account, CircuitBreaker and ApiBudget at  *)
(* the door of a provider.  The four parts share no variable, so each       *)
(* behaviour is one part's: the others stay in their initial state.         *)
EXTENDS LoginLockout, SecondFactor, CircuitBreaker, ApiBudget

VARIABLE part

MCInit ==
  /\ Init /\ FactorInit /\ BreakerInit /\ MeterInit
  /\ part \in {"lockout", "factor", "breaker", "budget"}

MCNext ==
  /\ \/ part = "lockout" /\ Next /\ UNCHANGED <<factorVars, breakerVars, meterVars>>
     \/ part = "factor" /\ FactorNext /\ UNCHANGED <<vars, breakerVars, meterVars>>
     \/ part = "breaker" /\ BreakerNext /\ UNCHANGED <<vars, factorVars, meterVars>>
     \/ part = "budget" /\ MeterNext /\ UNCHANGED <<vars, factorVars, breakerVars>>
  /\ UNCHANGED part

MCSpec ==
  /\ MCInit /\ [][MCNext]_<<vars, factorVars, breakerVars, meterVars, part>>
  /\ part = "lockout" => LockoutFairness
  /\ part = "breaker" => BreakerFairness

(* The type invariant: the four parts'.                                     *)
GuardsTypeOK == TypeOK /\ FactorTypeOK /\ BreakerTypeOK /\ MeterTypeOK
=============================================================================
