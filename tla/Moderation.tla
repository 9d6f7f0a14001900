----------------------------- MODULE Moderation -----------------------------
(***************************************************************************)
(* One post, comment or story and its moderation cases: the screening of   *)
(* every text before it is written (enforce), the case a doubtful one      *)
(* opens, the reports of members, and the moderators who decide a case     *)
(* from a page of the queue and close the other open cases of the same     *)
(* thing with it.  No request locks anything: an edit, a report and a      *)
(* decision each read, wait and commit beside the others.                  *)
(***************************************************************************)
EXTENDS Naturals

CONSTANTS
  Texts,       \* the texts the author submits, one request each
  NoText,
  Reporters,
  Moderators

ASSUME CaseKeys == NoText \notin Texts /\ Texts \cap Reporters = {}

VARIABLES
  thing,      \* what is moderated: its kind, whether it is up, its text
  submit,     \* the author's requests
  verdict,    \* what screening said of each text
  kase,       \* the cases: a text's own, and one per reporter
  report,     \* the reports in flight
  moderator,  \* what each moderator is doing
  looked,     \* history: the texts some moderator's page has shown
  takenDown,  \* history: a moderator removed the thing
  late,       \* history: cases filed when a removal had listed the open ones
  redecided   \* history: a moderator's decision was committed over an earlier one

modVars == <<thing, submit, verdict, kase, report, moderator, looked, takenDown, late,
             redecided>>

Cases == Texts \cup Reporters
MaybeText == Texts \cup {NoText}
Thing == [kind : {"post", "comment", "story"}, state : {"none", "up", "gone"}, text : MaybeText]

NoCase == [status |-> "none", about |-> NoText]
Case == [status : {"none", "open", "dismissed", "removed", "blocked"}, about : MaybeText]

Away == [at |-> "away"]
Moderating == {Away}
  \cup [at : {"page"}, cases : SUBSET Cases]
  \cup [at : {"close"}, case : Cases, seen : {"open", "dismissed", "removed", "blocked"},
        outcome : {"dismissed", "removed"}, siblings : SUBSET Cases]

ModInit ==
  /\ thing \in [kind : {"post", "comment", "story"}, state : {"none"}, text : {NoText}]
  /\ submit = [t \in Texts |-> "none"]
  /\ verdict = [t \in Texts |-> "none"]
  /\ kase = [k \in Cases |-> NoCase]
  /\ report = [p \in Reporters |-> NoText]
  /\ moderator = [m \in Moderators |-> Away]
  /\ looked = {} /\ takenDown = FALSE /\ late = {} /\ redecided = FALSE

Open == {k \in Cases : kase[k].status = "open"}
Becomes(m, next) == moderator' = [moderator EXCEPT ![m] = next]

(* Somebody has listed the open cases to close them with a removal.         *)
Removing ==
  takenDown \/ \E m \in Moderators : moderator[m].at = "close" /\ moderator[m].outcome = "removed"
LateIfRemoving(k) == late' = IF Removing THEN late \cup {k} ELSE late

----------------------------------------------------------------------------
(* The author's request: the thing is published with its first text, and a  *)
(* post that is up may be given another.                                    *)
Submit(t) ==
  /\ submit[t] = "none"
  /\ \/ thing.state = "none" /\ \A u \in Texts : submit[u] \in {"none", "done"}
     \/ thing.state = "up" /\ thing.kind = "post"
  /\ submit' = [submit EXCEPT ![t] = "screen"]
  /\ UNCHANGED <<thing, verdict, kase, report, moderator, looked, takenDown, late, redecided>>

(* enforce: an error or a timeout of the provider counts as doubt; a text   *)
(* refused leaves its case, committed at once, and the request ends.  Of a  *)
(* first text that case is about an id that nothing will ever have.         *)
Screen(t, says) ==
  /\ submit[t] = "screen"
  /\ verdict' = [verdict EXCEPT ![t] = says]
  /\ IF says = "block"
       THEN /\ kase' = IF thing.state = "none" THEN kase
                       ELSE [kase EXCEPT ![t] = [status |-> "blocked", about |-> t]]
            /\ submit' = [submit EXCEPT ![t] = "done"]
       ELSE /\ submit' = [submit EXCEPT ![t] = "write"]
            /\ UNCHANGED kase
  /\ UNCHANGED <<thing, report, moderator, looked, takenDown, late, redecided>>

(* The text and, if it was doubtful, its case, in one commit.  An edit does *)
(* not look again whether the post is still up.                             *)
FilesBlockedOnly(t) == verdict[t] = "block"
Files(t) == verdict[t] = "review"

Write(t) ==
  /\ submit[t] = "write"
  /\ thing' = [thing EXCEPT !.text = t, !.state = IF @ = "none" THEN "up" ELSE @]
  /\ IF Files(t)
       THEN /\ kase' = [kase EXCEPT ![t] = [status |-> "open", about |-> t]]
            /\ LateIfRemoving(t)
       ELSE UNCHANGED <<kase, late>>
  /\ submit' = [submit EXCEPT ![t] = "done"]
  /\ UNCHANGED <<verdict, report, moderator, looked, takenDown, redecided>>

(* The request fails or its process dies; nothing of it stays.              *)
Abandon(t) ==
  /\ submit[t] \in {"screen", "write"}
  /\ submit' = [submit EXCEPT ![t] = "done"]
  /\ UNCHANGED <<thing, verdict, kase, report, moderator, looked, takenDown, late, redecided>>

(* The author, or staff from the feed; the cases stay as they are.          *)
Delete ==
  /\ thing.state = "up" /\ thing' = [thing EXCEPT !.state = "gone"]
  /\ UNCHANGED <<submit, verdict, kase, report, moderator, looked, takenDown, late, redecided>>

----------------------------------------------------------------------------
(* report: the thing is read, and later the case filed with its text.  A    *)
(* member has one case per thing.                                           *)
StartReport(p) ==
  /\ report[p] = NoText /\ kase[p] = NoCase
  /\ thing.state = "up" /\ thing.kind # "story"
  /\ report' = [report EXCEPT ![p] = thing.text]
  /\ UNCHANGED <<thing, submit, verdict, kase, moderator, looked, takenDown, late, redecided>>

FileReport(p) ==
  /\ report[p] # NoText
  /\ kase' = [kase EXCEPT ![p] = [status |-> "open", about |-> report[p]]]
  /\ LateIfRemoving(p)
  /\ report' = [report EXCEPT ![p] = NoText]
  /\ UNCHANGED <<thing, submit, verdict, moderator, looked, takenDown, redecided>>

----------------------------------------------------------------------------
(* queue: a page of the cases in one tab, with their excerpts; "blocked" is *)
(* removed in the status column and decided by nobody.                      *)
Look(m, status) ==
  LET page == {k \in Cases : kase[k].status = status} IN
  /\ moderator[m] = Away /\ page # {}
  /\ Becomes(m, [at |-> "page", cases |-> page])
  /\ looked' = looked \cup {kase[k].about : k \in page}
  /\ UNCHANGED <<thing, submit, verdict, kase, report, takenDown, late, redecided>>

(* resolve: a case of the page, loaded whatever it has become meanwhile,    *)
(* and every other case of the thing that is open now, shown or not.        *)
NoSiblings(k) == {}
Siblings(k) == Open \ {k}

Decide(m, k, outcome) ==
  /\ moderator[m].at = "page" /\ k \in moderator[m].cases
  /\ Becomes(m, [at |-> "close", case |-> k, seen |-> kase[k].status, outcome |-> outcome,
                 siblings |-> Siblings(k)])
  /\ UNCHANGED <<thing, submit, verdict, kase, report, looked, takenDown, late, redecided>>

(* Its commit writes the status columns that differ from those it loaded,   *)
(* who decided, and the removal.                                            *)
Column(status) == IF status = "blocked" THEN "removed" ELSE status
Undecided == {k \in Cases : kase[k].status \in {"open", "blocked"}}

Close(m) ==
  LET r == moderator[m]
      settled == r.siblings \cup
        (IF r.outcome # Column(r.seen) \/ kase[r.case].status = "blocked" THEN {r.case} ELSE {}) IN
  /\ r.at = "close"
  /\ kase' = [k \in Cases |-> IF k \in settled THEN [kase[k] EXCEPT !.status = r.outcome]
                              ELSE kase[k]]
  /\ thing' = [thing EXCEPT !.state = IF r.outcome = "removed" THEN "gone" ELSE @]
  /\ takenDown' = (takenDown \/ r.outcome = "removed")
  /\ redecided' = (redecided \/ ~(r.siblings \cup {r.case} \subseteq Undecided))
  /\ Becomes(m, Away)
  /\ UNCHANGED <<submit, verdict, report, looked, late>>

(* The moderator goes away, or the request dies.                            *)
GoAway(m) ==
  /\ moderator[m] # Away /\ Becomes(m, Away)
  /\ UNCHANGED <<thing, submit, verdict, kase, report, looked, takenDown, late, redecided>>

ModNext ==
  \/ Delete
  \/ \E t \in Texts :
       \/ Submit(t) \/ Write(t) \/ Abandon(t)
       \/ \E says \in {"allow", "review", "block"} : Screen(t, says)
  \/ \E p \in Reporters : StartReport(p) \/ FileReport(p)
  \/ \E m \in Moderators :
       \/ \E status \in {"open", "dismissed", "removed", "blocked"} : Look(m, status)
       \/ \E k \in Cases, outcome \in {"dismissed", "removed"} : Decide(m, k, outcome)
       \/ Close(m) \/ GoAway(m)

ModSpec == ModInit /\ [][ModNext]_modVars

----------------------------------------------------------------------------
(* The type invariant. *)
ModTypeOK ==
  /\ thing \in Thing
  /\ submit \in [Texts -> {"none", "screen", "write", "done"}]
  /\ verdict \in [Texts -> {"none", "allow", "review", "block"}]
  /\ kase \in [Cases -> Case]
  /\ report \in [Reporters -> MaybeText]
  /\ moderator \in [Moderators -> Moderating]
  /\ looked \subseteq MaybeText /\ late \subseteq Cases
  /\ takenDown \in BOOLEAN /\ redecided \in BOOLEAN

(* "Publishes and opens a case for a human": a text on show was not refused,*)
(* and a doubtful one has its case, open or dismissed by a moderator, after *)
(* any edits, reports and decisions; a case that says removed is of a thing *)
(* that is gone.                                                            *)
ShownTextIsAnswered ==
  thing.state = "up" =>
    /\ verdict[thing.text] \in {"allow", "review"}
    /\ verdict[thing.text] = "review" => kase[thing.text].status \in {"open", "dismissed"}
    /\ \A k \in Cases : kase[k].status # "removed"

(* A removal answers the whole queue of the thing: a case still open was    *)
(* filed after the removal had listed the open ones; and the removal is on  *)
(* record unless a later decision was written over it.                      *)
TakedownClosesQueue ==
  takenDown =>
    /\ Open \subseteq late
    /\ (\E k \in Cases : kase[k].status = "removed") \/ redecided

(* moderation.py opens a case for every doubtful text because "the          *)
(* alternative to the case is content nobody ever looked at": a doubtful    *)
(* text on show whose case is closed was on some moderator's page.          *)
DoubtfulTextIsLookedAt ==
  thing.state = "up" /\ verdict[thing.text] = "review" /\ kase[thing.text].status # "open"
    => thing.text \in looked
=============================================================================
