--------------------------- MODULE CircuitPromise ---------------------------
(* What a circuit breaker promises to the provider behind it, with no count  *)
(* of failures and no clock: in each of the three states the comments of     *)
(* app/platform/circuit_breaker.py name, which calls may reach the provider, *)
(* and what the end of a call may do to that state.                          *)

CONSTANT Callers

VARIABLES
  mode,       \* "closed", "open" or "half_open"
  ordinary,   \* callers whose call was let through by a closed breaker
  probing     \* callers whose call was let through by a half-open one

pvars == <<mode, ordinary, probing>>

Out == ordinary \cup probing

Init ==
  /\ mode = "closed"
  /\ ordinary = {}
  /\ probing = {}

\* A closed breaker lets every call through.
Admit(c) ==
  /\ mode = "closed"
  /\ c \notin Out
  /\ ordinary' = ordinary \cup {c}
  /\ UNCHANGED <<mode, probing>>

\* A half-open breaker lets one call through, and an open one none.
Probe(c) ==
  /\ mode = "half_open"
  /\ probing = {}
  /\ c \notin Out
  /\ probing' = {c}
  /\ UNCHANGED <<mode, ordinary>>

Returned(c) ==
  /\ c \in Out
  /\ ordinary' = ordinary \ {c}
  /\ probing' = probing \ {c}

\* Any answer closes the breaker, also the late one of an ordinary call.
Answered(c) == Returned(c) /\ mode' = "closed"

\* A failure may open a closed breaker; it sends any other back to open.
Erred(c) ==
  /\ Returned(c)
  /\ \/ mode = "closed" /\ mode' = "closed"
     \/ mode' = "open"

\* A call its caller gave up tells the breaker nothing.
GivenUp(c) == Returned(c) /\ UNCHANGED mode

\* Time alone takes an open breaker to half-open, and nothing else does.
Cooled ==
  /\ mode = "open"
  /\ mode' = "half_open"
  /\ UNCHANGED <<ordinary, probing>>

Next ==
  \/ \E c \in Callers :
       Admit(c) \/ Probe(c) \/ Answered(c) \/ Erred(c) \/ GivenUp(c)
  \/ Cooled

Spec == Init /\ [][Next]_pvars
=============================================================================
