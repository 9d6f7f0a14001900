---------------------------- MODULE ScanPipeline ----------------------------
(***************************************************************************)
(* Scan jobs of one user, from upload to graded card.  POST                *)
(* /scans/{id}/complete marks the job and runs the processor inline in the *)
(* same database session; the arq worker runs the same processor in a      *)
(* session of its own.  Nothing serialises two runs over one job, or over  *)
(* two jobs that carry the same photo.  A run keeps the job object it      *)
(* loaded: a later SELECT in the same session does not refresh its status, *)
(* and assigning the status it already shows writes nothing.               *)
(***************************************************************************)
EXTENDS Naturals, FiniteSets

CONSTANTS
  Jobs,      \* scan_jobs rows
  Photos,    \* what a job's images hash to
  Runs       \* invocations of /complete or of the worker task, one each

ASSUME NamesAreNotRuns == "known" \notin Runs /\ "none" \notin Runs

VARIABLES
  photo,     \* the photo each job uploads
  job,       \* scan_jobs.status, "absent" before the insert, "deleted" after the delete
  run,       \* the invocations in progress
  cards,     \* committed placeholder cards
  graded,    \* the graded_cards rows runs have stored, removed by the user or not
  recent,    \* those created less than five minutes ago and not removed
  stranded,  \* history: jobs one of whose runs died outside the processor's guard
  overlap,   \* history: photos two runs stored past the duplicate check at once
  dragged    \* history: complete jobs written "processing" by a late mark or worker

vars == <<photo, job, run, cards, graded, recent, stranded, overlap, dragged>>

Status == {"absent", "uploading", "processing", "complete", "failed", "deleted"}
Steps == {"free", "mark", "refresh", "start", "begin", "resolve", "guard", "storeNew",
          "storeDup", "tell", "fail", "tellFail", "done"}
CardIds == {"known", "none"} \cup Runs    \* a placeholder is named after the run that made it
NoJob == "no job"
Run == [at : Steps, job : Jobs \cup {NoJob}, seen : Status, card : CardIds]
Graded == [photo : Photos, card : CardIds \ {"none"}, job : Jobs, by : Runs]

Free == [at |-> "free", job |-> NoJob, seen |-> "absent", card |-> "none"]

Stored(j) == job[j] \notin {"absent", "deleted"}

Init ==
  /\ photo \in [Jobs -> Photos]
  /\ job = [j \in Jobs |-> "absent"]
  /\ run = [r \in Runs |-> Free]
  /\ cards = {} /\ graded = {} /\ recent = {}
  /\ stranded = {} /\ overlap = {} /\ dragged = {}

To(r, step) ==
  run' = [run EXCEPT ![r] = IF step = "done" THEN [Free EXCEPT !.at = "done"]
                                             ELSE [@ EXCEPT !.at = step]]

----------------------------------------------------------------------------
(* The routes.                                                              *)

CreateJob(j) ==
  /\ job[j] = "absent"
  /\ job' = [job EXCEPT ![j] = "uploading"]
  /\ UNCHANGED <<photo, run, cards, graded, recent, stranded, overlap, dragged>>

DeleteJob(j) ==
  /\ Stored(j)
  /\ job' = [job EXCEPT ![j] = "deleted"]
  /\ UNCHANGED <<photo, run, cards, graded, recent, stranded, overlap, dragged>>

(* mark_complete loads the job: only one still uploading goes on to be      *)
(* marked, any other is handed to the processor as loaded.                  *)
MarkLoad(r, j) ==
  /\ run[r].at = "free" /\ Stored(j)
  /\ run' = [run EXCEPT ![r] = [@ EXCEPT !.job = j, !.seen = job[j],
                                  !.at = IF job[j] = "uploading" THEN "mark" ELSE "start"]]
  /\ UNCHANGED <<photo, job, cards, graded, recent, stranded, overlap, dragged>>

(* The UPDATE to "processing" is keyed by id alone, whatever the row says.  *)
Processing(j) ==
  /\ job' = [job EXCEPT ![j] = "processing"]
  /\ dragged' = IF job[j] = "complete" THEN dragged \cup {j} ELSE dragged

(* A row that is gone fails the request.                                    *)
MarkCommit(r) ==
  LET j == run[r].job IN
  /\ run[r].at = "mark"
  /\ IF Stored(j) THEN Processing(j) /\ To(r, "refresh")
                  ELSE UNCHANGED <<job, dragged>> /\ To(r, "done")
  /\ UNCHANGED <<photo, cards, graded, recent, stranded, overlap>>

MarkRefresh(r) ==
  LET j == run[r].job IN
  /\ run[r].at = "refresh"
  /\ IF Stored(j) THEN run' = [run EXCEPT ![r].seen = job[j], ![r].at = "start"]
                  ELSE To(r, "done")
  /\ UNCHANGED <<photo, job, cards, graded, recent, stranded, overlap, dragged>>

----------------------------------------------------------------------------
(* The processor.                                                           *)

RunnableUnmarked(status) == status = "uploading"
Runnable(status) == status \in {"processing", "uploading"}

(* Inline, the status tested is the one the session already holds, and it   *)
(* is "processing" already: the commit writes nothing.                      *)
StartInline(r) ==
  LET j == run[r].job IN
  /\ run[r].at = "start"
  /\ IF Stored(j) /\ Runnable(run[r].seen)
       THEN To(r, "resolve")
       ELSE To(r, "done")
  /\ UNCHANGED <<photo, job, cards, graded, recent, stranded, overlap, dragged>>

(* In the worker the job is loaded afresh and, if it was still uploading,   *)
(* written "processing" at the commit, whatever the row says by then.       *)
StartWorker(r, j) ==
  /\ run[r].at = "free" /\ Stored(j) /\ Runnable(job[j])
  /\ run' = [run EXCEPT ![r] = [@ EXCEPT !.job = j, !.seen = job[j], !.at = "begin"]]
  /\ UNCHANGED <<photo, job, cards, graded, recent, stranded, overlap, dragged>>

BeginWorker(r) ==
  LET j == run[r].job IN
  /\ run[r].at = "begin"
  /\ IF run[r].seen = "uploading" /\ ~Stored(j) THEN To(r, "fail") ELSE To(r, "resolve")
  /\ IF run[r].seen = "uploading" /\ Stored(j) THEN Processing(j)
                                               ELSE UNCHANGED <<job, dragged>>
  /\ UNCHANGED <<photo, cards, graded, recent, stranded, overlap>>

(* The resolver knows the card, or some committed placeholder is taken, or  *)
(* the run adds a placeholder of its own, uncommitted until the run stores. *)
Resolve(r) ==
  /\ run[r].at = "resolve"
  /\ \E c \in {"known"} \cup (IF cards = {} THEN {r} ELSE cards) :
       run' = [run EXCEPT ![r].card = c, ![r].at = "guard"]
  /\ UNCHANGED <<photo, job, cards, graded, recent, stranded, overlap, dragged>>

SameRun(g, r) == g.by = r
SameSubmission(g, r) == g.photo = photo[run[r].job] /\ g.card = run[r].card

Overlapping(r) ==
  \E q \in Runs \ {r} : run[q].at = "storeNew" /\ photo[run[q].job] = photo[run[r].job]

DuplicateCheck(r) ==
  /\ run[r].at = "guard"
  /\ To(r, IF \E g \in recent : SameSubmission(g, r) THEN "storeDup" ELSE "storeNew")
  /\ overlap' = IF Overlapping(r) THEN overlap \cup {photo[run[r].job]} ELSE overlap
  /\ UNCHANGED <<photo, job, cards, graded, recent, stranded, dragged>>

(* One transaction: the graded card and its fingerprint, any placeholder    *)
(* the run added, and the status.  A job deleted meanwhile rolls it back.   *)
NewRowUnresolved(r) ==
  [photo |-> photo[run[r].job], card |-> "none", job |-> run[r].job, by |-> r]
NewRow(r) ==
  [photo |-> photo[run[r].job], card |-> run[r].card, job |-> run[r].job, by |-> r]

RowsUnchanged(r) == graded
RowsWith(r) == graded \cup {NewRow(r)}

StoreNew(r) ==
  LET j == run[r].job IN
  /\ run[r].at = "storeNew"
  /\ IF Stored(j)
       THEN /\ job' = [job EXCEPT ![j] = "complete"]
            /\ graded' = RowsWith(r)
            /\ recent' = recent \cup (RowsWith(r) \ graded)
            /\ cards' = cards \cup ({run[r].card} \cap {r})
            /\ To(r, "tell")
       ELSE To(r, "fail") /\ UNCHANGED <<job, graded, recent, cards>>
  /\ UNCHANGED <<photo, stranded, overlap, dragged>>

StoreDuplicate(r) ==
  LET j == run[r].job IN
  /\ run[r].at = "storeDup"
  /\ IF Stored(j) THEN job' = [job EXCEPT ![j] = "complete"] /\ To(r, "tell")
                  ELSE UNCHANGED job /\ To(r, "fail")
  /\ UNCHANGED <<photo, cards, graded, recent, stranded, overlap, dragged>>

(* The outcome is published on the user's channel, after the commit.       *)
TellComplete(r) ==
  /\ run[r].at = "tell"
  /\ To(r, "done")
  /\ UNCHANGED <<photo, job, cards, graded, recent, stranded, overlap, dragged>>

----------------------------------------------------------------------------
(* Failure.  An exception inside the processor is caught; the job is marked *)
(* failed in a session of its own, if it has not ended, and the client told.*)
(* Any statement or publication may raise, before the store or after it.    *)

Raise(r) ==
  /\ run[r].at \in {"start", "begin", "resolve", "guard", "storeNew", "storeDup", "tell"}
  /\ To(r, "fail")
  /\ UNCHANGED <<photo, job, cards, graded, recent, stranded, overlap, dragged>>

(* The worker's session or its first SELECT raises: all it knows is the id. *)
LoadFails(r, j) ==
  /\ run[r].at = "free" /\ job[j] # "absent"
  /\ run' = [run EXCEPT ![r].job = j, ![r].at = "fail"]
  /\ UNCHANGED <<photo, job, cards, graded, recent, stranded, overlap, dragged>>

MayFailStored(status) == status \notin {"absent", "deleted"}
MayFail(status) == status \in {"processing", "uploading"}

FailCommit(r) ==
  LET j == run[r].job IN
  /\ run[r].at = "fail"
  /\ job' = IF MayFail(job[j]) THEN [job EXCEPT ![j] = "failed"] ELSE job
  /\ To(r, "tellFail")
  /\ UNCHANGED <<photo, cards, graded, recent, stranded, overlap, dragged>>

TellFailed(r) ==
  /\ run[r].at = "tellFail"
  /\ To(r, "done")
  /\ UNCHANGED <<photo, job, cards, graded, recent, stranded, overlap, dragged>>

(* The instance dies, or the database fails outside the guard.              *)
Die(r) ==
  /\ run[r].at \notin {"free", "done"}
  /\ stranded' = stranded \cup {run[r].job}
  /\ To(r, "done")
  /\ UNCHANGED <<photo, job, cards, graded, recent, overlap, dragged>>

(* The user removes a graded card: the row stays, with deleted_at set, and  *)
(* the duplicate check no longer sees it.                                   *)
RemoveCard(g) ==
  /\ recent' = recent \ {g}
  /\ UNCHANGED <<photo, job, run, cards, graded, stranded, overlap, dragged>>

(* Five minutes pass.                                                       *)
WindowCloses ==
  /\ recent' = {}
  /\ UNCHANGED <<photo, job, run, cards, graded, stranded, overlap, dragged>>

----------------------------------------------------------------------------

Step(r) ==
  \/ MarkCommit(r) \/ MarkRefresh(r) \/ StartInline(r) \/ BeginWorker(r)
  \/ Resolve(r) \/ DuplicateCheck(r) \/ StoreNew(r) \/ StoreDuplicate(r)
  \/ TellComplete(r) \/ FailCommit(r) \/ TellFailed(r)

Next ==
  \/ WindowCloses
  \/ \E g \in recent : RemoveCard(g)
  \/ \E j \in Jobs : CreateJob(j) \/ DeleteJob(j)
  \/ \E r \in Runs :
       \/ \E j \in Jobs : MarkLoad(r, j) \/ StartWorker(r, j) \/ LoadFails(r, j)
       \/ Step(r) \/ Raise(r) \/ Die(r)

Spec == Init /\ [][Next]_vars

(* A run that has begun takes its next step unless it raises or dies.       *)
FairSpec == Spec /\ \A r \in Runs : WF_vars(Step(r))

----------------------------------------------------------------------------
(* The type invariant. *)
TypeOK ==
  /\ photo \in [Jobs -> Photos]
  /\ job \in [Jobs -> Status]
  /\ run \in [Runs -> Run]
  /\ cards \subseteq Runs
  /\ graded \subseteq Graded /\ recent \subseteq graded
  /\ stranded \subseteq Jobs /\ overlap \subseteq Photos /\ dragged \subseteq Jobs

(* A job is complete only when a graded card of its photo was stored: the   *)
(* row and the status commit together, and a duplicate defers to a row that *)
(* exists.  The user may have removed that card since.                      *)
CompleteHasCard ==
  \A j \in Jobs : job[j] = "complete" => \E g \in graded : g.photo = photo[j]

(* Repeating a submission within five minutes makes no second row, however  *)
(* often it is retried, by the client, by the worker or as another job with *)
(* the same photo, as long as no two runs were past the duplicate check at  *)
(* once.                                                                    *)
SerialRunsDedupe ==
  \A g, h \in recent : g.photo \notin overlap /\ g.photo = h.photo /\ g.card = h.card => g = h

(* Once a run has stored its card, the client that polls the job reads      *)
(* complete: whatever the other runs of the job do, and whatever raises in  *)
(* them or in this run after its commit, only a mark or a worker that had   *)
(* loaded the job while it was uploading takes that back.                   *)
CardImpliesComplete ==
  \A g \in graded : job[g.job] \in {"complete", "deleted"} \/ g.job \in dragged

(* A job in processing reaches an end the polling client can see, unless a  *)
(* run of it died outside the guard (there is no reaper), in every          *)
(* interleaving of marks that drag a finished job back to processing.       *)
ScanEnds ==
  \A j \in Jobs : job[j] = "processing" ~>
                    (job[j] \in {"complete", "failed", "deleted"} \/ j \in stranded)

(* "Re-uploading the same physical photo (or an arq retry of the same job)  *)
(* must NOT create a phantom duplicate row."  Broken by two runs that check *)
(* for the duplicate before either stores.                                  *)
NoPhantomDuplicate ==
  \A g, h \in recent : g.photo = h.photo /\ g.card = h.card => g = h
=============================================================================
