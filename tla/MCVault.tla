------------------------------ MODULE MCVault ------------------------------
(* What a collector is charged, told and mailed, on small instances:        *)
(* CardPrices, VaultCap and EmailDelivery.  The three parts share no        *)
(* variable, so each behaviour is one part's: the others stay in an initial *)
(* state.                                                                   *)
EXTENDS CardPrices, VaultCap, EmailDelivery

CONSTANTS j1, j2, d1, d2, m1, m2, h1, h2, al

MCWants == [a \in Alerts |-> {1}]

VARIABLE part

MCInit ==
  /\ PriceInit /\ CapInit /\ EmailInit /\ part \in {"prices", "cap", "mail"}
  /\ part # "cap" => shape.limit = 0
  /\ part # "mail" => mail.keyed
  /\ send[m1] # NotSending

(* Interchangeable jobs, adds, sends and webhooks: the second begins only   *)
(* beside the first.                                                        *)
InOrder ==
  /\ job[j1] = NoJob /\ job[j2] = NoJob => job'[j2] = NoJob
  /\ add[d1] = NotAdding /\ add[d2] = NotAdding => add'[d2] = NotAdding
  /\ send[m1] = NotSending /\ send[m2] = NotSending => send'[m2] = NotSending
  /\ hook[h1] = NoHook /\ hook[h2] = NoHook => hook'[h2] = NoHook

MCNext ==
  /\ \/ part = "prices" /\ PriceNext /\ UNCHANGED <<capVars, emailVars>>
     \/ part = "cap" /\ CapNext /\ UNCHANGED <<priceVars, emailVars>>
     \/ part = "mail" /\ EmailNext /\ UNCHANGED <<priceVars, capVars>>
  /\ InOrder
  /\ UNCHANGED part

MCSpec == MCInit /\ [][MCNext]_<<priceVars, capVars, emailVars, part>>

(* The type invariant: the three parts', and the price history within its   *)
(* window.                                                                  *)
VaultTypeOK == PriceTypeOK /\ WindowHolds /\ CapTypeOK /\ EmailTypeOK
=============================================================================
