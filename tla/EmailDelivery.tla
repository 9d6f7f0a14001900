---------------------------- MODULE EmailDelivery ----------------------------
(***************************************************************************)
(* One row of the e-mail delivery log: the background send that queued it, *)
(* the admin's retries, the transport's one retry, and the provider's      *)
(* webhooks that move the row on and suppress announcements after a bounce *)
(* or a complaint.  Every writer opens its own session, loads the row and  *)
(* commits what it changed; a webhook commits twice.  The provider is      *)
(* external: it may take a message and lose the answer, it knows an        *)
(* idempotency key, and it delivers events late, twice and in any order.   *)
(***************************************************************************)
EXTENDS Naturals, FiniteSets

CONSTANTS
  Mailers,      \* sends of this row that may be in flight at once
  EmailHooks,   \* webhooks handled at once
  Kinds,        \* the webhook events considered, of the four that move a row
  MaxMessages   \* bound: messages the provider takes

ASSUME EmailBounds ==
  MaxMessages \in Nat /\ Kinds \subseteq {"sent", "delivered", "bounced", "complained"}

VARIABLES
  mail,       \* the row: status, provider_id, whether it has an idempotency key
  send,       \* the sends in flight
  taken,      \* provider: messages taken so far, and the one under the row's key
  hook,       \* the webhooks in flight
  suppressed, \* user_settings.email_announcements_enabled was switched off
  open,       \* provider: bounces and complaints delivered and not yet answered
  forgotten,  \* history: one was answered without effect
  clash       \* history: two sends, or two webhooks of this row, overlapped

emailVars == <<mail, send, taken, hook, suppressed, open, forgotten, clash>>

NoMessage == 0
Messages == 1..MaxMessages
Statuses == {"queued", "sent", "failed", "delivered", "bounced", "complained"}
Harsh == Kinds \cap {"bounced", "complained"}
Final == {"delivered", "bounced", "complained"}
Rank(status) ==
  CASE status = "queued" -> 0 [] status = "sent" -> 1 [] status = "failed" -> 2
    [] status = "delivered" -> 3 [] status = "bounced" -> 4 [] status = "complained" -> 5

MailRow == [status : Statuses, id : 0..MaxMessages, keyed : BOOLEAN]

NotSending == [at |-> "none"]
Sending == {NotSending}
  \cup [at : {"post"}, try : {1, 2}, keyed : BOOLEAN]
  \cup [at : {"mark"}, ok : BOOLEAN, id : 0..MaxMessages]
  \cup [at : {"write"}, ok : BOOLEAN, id : 0..MaxMessages,
        seen : [status : Statuses, id : 0..MaxMessages]]

NoHook == [at |-> "none"]
Hooking == {NoHook}
  \cup [at : {"move"}, of : Messages, kind : Kinds, seen : Statuses]
  \cup [at : {"suppress"}, of : Messages, kind : Harsh]

(* queue_content: the row is committed before the send is dispatched.       *)
EmailInit ==
  /\ mail \in [status : {"queued"}, id : {NoMessage}, keyed : BOOLEAN]
  /\ \E m \in Mailers :
       send = [n \in Mailers |->
                 IF n = m THEN [at |-> "post", try |-> 1, keyed |-> mail.keyed] ELSE NotSending]
  /\ taken = [count |-> 0, underKey |-> NoMessage]
  /\ hook = [h \in EmailHooks |-> NoHook]
  /\ suppressed = FALSE
  /\ open = {} /\ forgotten = FALSE /\ clash = FALSE

Moves(s, next) == send' = [send EXCEPT ![s] = next]
HookMoves(h, next) == hook' = [hook EXCEPT ![h] = next]
PutField(new, seen, stored) == IF new # seen THEN new ELSE stored

----------------------------------------------------------------------------
(* The admin's retry: allowed while the row is failed or queued; it sends   *)
(* the stored render under the same row and without its key.                *)
Retryable(status) == status \in {"failed", "queued"}

Retry(s) ==
  /\ send[s] = NotSending /\ Retryable(mail.status)
  /\ Moves(s, [at |-> "post", try |-> 1, keyed |-> FALSE])
  /\ clash' = (clash \/ \E n \in Mailers : send[n] # NotSending)
  /\ UNCHANGED <<mail, taken, hook, suppressed, open, forgotten>>

(* The message the provider makes of a post: under a key it has seen, the   *)
(* one it made then.                                                        *)
MessageFor(keyed) ==
  IF keyed /\ taken.underKey # NoMessage THEN taken.underKey ELSE taken.count + 1

Take(s) ==
  /\ MessageFor(send[s].keyed) \in Messages
  /\ taken' = [count |-> IF MessageFor(send[s].keyed) > taken.count
                           THEN taken.count + 1 ELSE taken.count,
               underKey |-> IF send[s].keyed THEN MessageFor(TRUE) ELSE taken.underKey]

Failed == [at |-> "mark", ok |-> FALSE, id |-> NoMessage]

(* _post: a transient failure on the first try is followed by a second,     *)
(* any other ends the send.                                                 *)
Accepted(s) ==
  /\ send[s].at = "post" /\ Take(s)
  /\ \E id \in {NoMessage, MessageFor(send[s].keyed)} :
       Moves(s, [at |-> "mark", ok |-> TRUE, id |-> id])
  /\ UNCHANGED <<mail, hook, suppressed, open, forgotten, clash>>

AnswerLost(s) ==
  /\ send[s].at = "post" /\ Take(s)
  /\ Moves(s, IF send[s].try = 1 THEN [send[s] EXCEPT !.try = 2] ELSE Failed)
  /\ UNCHANGED <<mail, hook, suppressed, open, forgotten, clash>>

Refuse(s) ==
  /\ send[s].at = "post"
  /\ \/ Moves(s, Failed)
     \/ send[s].try = 1 /\ Moves(s, [send[s] EXCEPT !.try = 2])
  /\ UNCHANGED <<mail, taken, hook, suppressed, open, forgotten, clash>>

(* mark_sent and mark_failed load the row and write it, with no regard to   *)
(* the status it has.                                                       *)
LoadRow(s) ==
  /\ send[s].at = "mark"
  /\ Moves(s, [at |-> "write", ok |-> send[s].ok, id |-> send[s].id,
               seen |-> [status |-> mail.status, id |-> mail.id]])
  /\ UNCHANGED <<mail, taken, hook, suppressed, open, forgotten, clash>>

MarkSent(s) ==
  /\ send[s].at = "write" /\ send[s].ok
  /\ mail' = [mail EXCEPT !.status = PutField("sent", send[s].seen.status, @),
                          !.id = PutField(send[s].id, send[s].seen.id, @)]
  /\ Moves(s, NotSending)
  /\ UNCHANGED <<taken, hook, suppressed, open, forgotten, clash>>

MarkFailed(s) ==
  /\ send[s].at = "write" /\ ~send[s].ok
  /\ mail' = [mail EXCEPT !.status = PutField("failed", send[s].seen.status, @)]
  /\ Moves(s, NotSending)
  /\ UNCHANGED <<taken, hook, suppressed, open, forgotten, clash>>

(* The process dies, or the log's own database call fails and is swallowed. *)
SendDies(s) ==
  /\ send[s] # NotSending /\ Moves(s, NotSending)
  /\ UNCHANGED <<mail, taken, hook, suppressed, open, forgotten, clash>>

----------------------------------------------------------------------------
(* A webhook about a message the provider has taken; a bounce or complaint  *)
(* is delivered again until it is answered 200.                             *)
Delivered(m, kind) == open \cup ({m} \X ({kind} \cap Harsh))
Answered(h) == open \ {<<hook[h].of, hook[h].kind>>}

(* apply_provider_event, its SELECT.  If no row carries the message's id    *)
(* the event is answered and has no effect.                                 *)
Find(h, m, kind) ==
  /\ hook[h] = NoHook /\ m <= taken.count /\ mail.id = m
  /\ HookMoves(h, [at |-> "move", of |-> m, kind |-> kind, seen |-> mail.status])
  /\ open' = Delivered(m, kind)
  /\ clash' = (clash \/ \E g \in EmailHooks \ {h} : hook[g].at = "move")
  /\ UNCHANGED <<mail, send, taken, suppressed, forgotten>>

NoRow(m, kind) ==
  /\ m <= taken.count /\ mail.id # m /\ kind \in Harsh
  /\ open' = open \ {<<m, kind>>}
  /\ forgotten' = TRUE
  /\ UNCHANGED <<mail, send, taken, hook, suppressed, clash>>

ReportsOnlyAdvance(kind, seen) == kind \in Harsh /\ Rank(kind) > Rank(seen)
Reports(kind, seen) == kind \in Harsh

Advances(kind, seen) == Rank(kind) > Rank(seen)

(* Its commit, only forward in the order of the statuses.  A bounce *)
(* or complaint goes on to the suppression whether or not the row moved.    *)
MoveRow(h) ==
  /\ hook[h].at = "move"
  /\ mail' = [mail EXCEPT !.status =
                IF Advances(hook[h].kind, hook[h].seen) THEN hook[h].kind ELSE @]
  /\ IF Reports(hook[h].kind, hook[h].seen)
       THEN /\ HookMoves(h, [at |-> "suppress", of |-> hook[h].of, kind |-> hook[h].kind])
            /\ UNCHANGED open
       ELSE /\ HookMoves(h, NoHook)
            /\ open' = Answered(h)
  /\ UNCHANGED <<send, taken, suppressed, forgotten, clash>>

(* suppress_announcements, in a session of its own.                         *)
Suppress(h) ==
  /\ hook[h].at = "suppress"
  /\ suppressed' = TRUE
  /\ open' = Answered(h)
  /\ HookMoves(h, NoHook)
  /\ UNCHANGED <<mail, send, taken, forgotten, clash>>

(* A database error is logged and swallowed and the event answered; so is   *)
(* the suppression of an account that is gone.                              *)
Swallow(h) ==
  /\ hook[h] # NoHook /\ HookMoves(h, NoHook)
  /\ open' = Answered(h)
  /\ forgotten' = (forgotten \/ hook[h].kind \in Harsh)
  /\ UNCHANGED <<mail, send, taken, suppressed, clash>>

(* The process dies before the answer.                                      *)
HookDies(h) ==
  /\ hook[h] # NoHook /\ HookMoves(h, NoHook)
  /\ UNCHANGED <<mail, send, taken, suppressed, open, forgotten, clash>>

EmailNext ==
  \/ \E s \in Mailers :
       \/ Retry(s) \/ Accepted(s) \/ AnswerLost(s) \/ Refuse(s)
       \/ LoadRow(s) \/ MarkSent(s) \/ MarkFailed(s) \/ SendDies(s)
  \/ \E h \in EmailHooks :
       \/ \E m \in Messages, kind \in Kinds : Find(h, m, kind)
       \/ MoveRow(h) \/ Suppress(h) \/ Swallow(h) \/ HookDies(h)
  \/ \E m \in Messages, kind \in Harsh : NoRow(m, kind)

EmailSpec == EmailInit /\ [][EmailNext]_emailVars

----------------------------------------------------------------------------
(* The type invariant. *)
EmailTypeOK ==
  /\ mail \in MailRow
  /\ send \in [Mailers -> Sending]
  /\ taken \in [count : 0..MaxMessages, underKey : 0..MaxMessages]
  /\ hook \in [EmailHooks -> Hooking]
  /\ open \subseteq Messages \X Harsh
  /\ suppressed \in BOOLEAN /\ forgotten \in BOOLEAN /\ clash \in BOOLEAN

(* Once every bounce and complaint is answered, a row that says so belongs  *)
(* to an account whose announcements are off: a handler that died between   *)
(* the row's commit and the suppression is made good by the redelivery,     *)
(* though that no longer moves the row.  Not so when an event was answered  *)
(* without effect: it met a database error, or came before the row knew its *)
(* provider_id or after a retry gave it another.                            *)
BouncedIsSuppressed ==
  mail.status \in Harsh /\ open = {} => suppressed \/ forgotten

(* "Never regress a terminal state": what the provider said last stands,    *)
(* through late, repeated and reordered events, unless two sends of the row *)
(* or two of its webhooks overlapped.                                       *)
FinalNeverRegresses ==
  [][mail.status \in Final => Rank(mail'.status) >= Rank(mail.status) \/ clash]_emailVars
=============================================================================
