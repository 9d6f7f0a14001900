------------------------- MODULE ScanPipelineProofs -------------------------
(***************************************************************************)
(* For any number of jobs, photos and concurrent runs: the type invariant, *)
(* that a complete job has its card and a stored card its complete job,    *)
(* that runs which do not overlap past the duplicate check never store a   *)
(* duplicate, and that a job in processing always has a run that will      *)
(* settle it.                                                              *)
(***************************************************************************)
EXTENDS ScanPipeline, TLAPS

(* The processor's names for no job and no card are not rows.               *)
Active(r) == run[r].at \notin {"free", "done"}

Bound == \A r \in Runs : Active(r) => run[r].job \in Jobs

CardChosen ==
  \A r \in Runs : run[r].at \in {"guard", "storeNew", "storeDup"} => run[r].card # "none"

Inv == TypeOK /\ Bound /\ CardChosen

LEMMA ToTyped ==
  ASSUME TypeOK, NEW r \in Runs, NEW step \in Steps, To(r, step)
  PROVE  /\ run' \in [Runs -> Run]
         /\ run'[r].at = step
         /\ step # "done" => run'[r] = [run[r] EXCEPT !.at = step]
         /\ \A q \in Runs \ {r} : run'[q] = run[q]
<1>1. [Free EXCEPT !.at = "done"] \in Run
  BY DEF Free, Run, Steps, Status, CardIds
<1>2. [run[r] EXCEPT !.at = step] \in Run
  BY DEF TypeOK, Run
<1>3. [Free EXCEPT !.at = "done"].at = "done" /\ [run[r] EXCEPT !.at = step].at = step
  BY <1>1, <1>2 DEF Free, TypeOK, Run
<1>4. run'[r] = IF step = "done" THEN [Free EXCEPT !.at = "done"] ELSE [run[r] EXCEPT !.at = step]
  BY DEF To, TypeOK
<1> QED
  BY <1>1, <1>2, <1>3, <1>4 DEF To, TypeOK

(* A run that moves to a step and changes nothing of the rows it is about.  *)
LEMMA MoveStep ==
  ASSUME Inv, NEW r \in Runs, NEW step \in Steps, To(r, step), Active(r),
         step \in {"guard", "storeNew", "storeDup"} => run[r].card # "none"
  PROVE  run' \in [Runs -> Run] /\ Bound' /\ CardChosen'
<1>1. /\ run' \in [Runs -> Run]
      /\ run'[r].at = step
      /\ step # "done" => run'[r] = [run[r] EXCEPT !.at = step]
      /\ \A q \in Runs \ {r} : run'[q] = run[q]
  BY ToTyped DEF Inv
<1>2. step # "done" => run'[r].job = run[r].job /\ run'[r].card = run[r].card
  BY <1>1 DEF Inv, TypeOK, Run
<1>3. Bound'
  BY <1>1, <1>2 DEF Inv, Bound, Active
<1>4. CardChosen'
  BY <1>1, <1>2 DEF Inv, CardChosen
<1> QED
  BY <1>1, <1>3, <1>4

(* A worker that fails before it has loaded its job touches no other run.   *)
LEMMA LoadFailsEffect ==
  ASSUME TypeOK, NEW r \in Runs, NEW j \in Jobs, LoadFails(r, j)
  PROVE  /\ run' \in [Runs -> Run]
         /\ run[r].at = "free" /\ run'[r].job = j /\ run'[r].at = "fail"
         /\ \A q \in Runs \ {r} : run'[q] = run[q]
<1>1. run' = [run EXCEPT ![r] = [run[r] EXCEPT !.job = j, !.at = "fail"]]
  BY DEF LoadFails, TypeOK, Run
<1>2. [run[r] EXCEPT !.job = j, !.at = "fail"] \in Run
  BY DEF TypeOK, Run, Steps
<1> QED
  BY <1>1, <1>2 DEF LoadFails, TypeOK, Run

LEMMA InvStep == Inv /\ [Next]_vars => Inv'
<1> SUFFICES ASSUME Inv, [Next]_vars PROVE Inv'
  OBVIOUS
<1>j. \A j \in Jobs : \A s \in Status : [job EXCEPT ![j] = s] \in [Jobs -> Status]
  BY DEF Inv, TypeOK
<1>s. {"uploading", "processing", "complete", "failed", "deleted"} \subseteq Status
  BY DEF Status
<1>1. CASE WindowCloses \/ \E g \in recent : RemoveCard(g)
  BY <1>1 DEF WindowCloses, RemoveCard, Inv, TypeOK, Bound, Active, CardChosen
<1>2. ASSUME NEW j \in Jobs, CreateJob(j) \/ DeleteJob(j) PROVE Inv'
  <2>1. job' \in [Jobs -> Status]
    BY <1>2, <1>j, <1>s DEF CreateJob, DeleteJob
  <2> QED
    BY <1>2, <2>1 DEF CreateJob, DeleteJob, Inv, TypeOK, Bound, Active, CardChosen
<1>3. ASSUME NEW r \in Runs, NEW j \in Jobs, MarkLoad(r, j) \/ StartWorker(r, j) PROVE Inv'
  <2>1. PICK step \in {"mark", "start", "begin"} :
          run' = [run EXCEPT ![r] = [@ EXCEPT !.job = j, !.seen = job[j], !.at = step]]
    BY <1>3 DEF MarkLoad, StartWorker
  <2>2. [run[r] EXCEPT !.job = j, !.seen = job[j], !.at = step] \in Run
    BY DEF Inv, TypeOK, Run, Steps
  <2>3. run' \in [Runs -> Run]
    BY <2>1, <2>2 DEF Inv, TypeOK
  <2>4. run'[r].job = j /\ run'[r].at = step /\ \A q \in Runs \ {r} : run'[q] = run[q]
    BY <2>1, <2>2 DEF Inv, TypeOK, Run
  <2>5. Bound' /\ CardChosen'
    BY <2>4 DEF Inv, Bound, Active, CardChosen
  <2> QED
    BY <1>3, <2>3, <2>5 DEF MarkLoad, StartWorker, Inv, TypeOK
<1>4. ASSUME NEW r \in Runs, MarkCommit(r) PROVE Inv'
  <2>1. Active(r) /\ run[r].job \in Jobs
    BY <1>4 DEF MarkCommit, Active, Inv, Bound
  <2>2. job' \in [Jobs -> Status] /\ dragged' \subseteq Jobs
    BY <1>4, <2>1, <1>j, <1>s DEF MarkCommit, Processing, Inv, TypeOK
  <2>3. run' \in [Runs -> Run] /\ Bound' /\ CardChosen'
    BY <1>4, <2>1, MoveStep DEF MarkCommit, Steps
  <2> QED
    BY <1>4, <2>2, <2>3 DEF MarkCommit, Inv, TypeOK
<1>5. ASSUME NEW r \in Runs, MarkRefresh(r) PROVE Inv'
  <2> DEFINE j == run[r].job
  <2>1. Active(r) /\ j \in Jobs
    BY <1>5 DEF MarkRefresh, Active, Inv, Bound
  <2>2. CASE ~Stored(j)
    <3>1. run' \in [Runs -> Run] /\ Bound' /\ CardChosen'
      BY <1>5, <2>1, <2>2, MoveStep DEF MarkRefresh, Steps
    <3> QED
      BY <1>5, <3>1 DEF MarkRefresh, Inv, TypeOK
  <2>3. CASE Stored(j)
    <3>1. run' = [run EXCEPT ![r] = [run[r] EXCEPT !.seen = job[j], !.at = "start"]]
      BY <1>5, <2>3 DEF MarkRefresh, Inv, TypeOK, Run
    <3>2. [run[r] EXCEPT !.seen = job[j], !.at = "start"] \in Run
      BY <2>1 DEF Inv, TypeOK, Run, Steps
    <3>3. run' \in [Runs -> Run]
      BY <3>1, <3>2 DEF Inv, TypeOK
    <3>4. run'[r].job = j /\ run'[r].at = "start" /\ \A q \in Runs \ {r} : run'[q] = run[q]
      BY <3>1, <3>2 DEF Inv, TypeOK, Run
    <3>5. Bound' /\ CardChosen'
      BY <3>4, <2>1 DEF Inv, Bound, Active, CardChosen
    <3> QED
      BY <1>5, <3>3, <3>5 DEF MarkRefresh, Inv, TypeOK
  <2> QED
    BY <2>2, <2>3
<1>6. ASSUME NEW r \in Runs, StartInline(r) PROVE Inv'
  <2>1. run' \in [Runs -> Run] /\ Bound' /\ CardChosen'
    BY <1>6, MoveStep DEF StartInline, Active, Steps
  <2> QED
    BY <1>6, <2>1 DEF StartInline, Inv, TypeOK
<1>7. ASSUME NEW r \in Runs, BeginWorker(r) PROVE Inv'
  <2>1. Active(r) /\ run[r].job \in Jobs
    BY <1>7 DEF BeginWorker, Active, Inv, Bound
  <2>2. job' \in [Jobs -> Status] /\ dragged' \subseteq Jobs
    BY <1>7, <2>1, <1>j, <1>s DEF BeginWorker, Processing, Inv, TypeOK
  <2>3. run' \in [Runs -> Run] /\ Bound' /\ CardChosen'
    BY <1>7, <2>1, MoveStep DEF BeginWorker, Steps
  <2> QED
    BY <1>7, <2>2, <2>3 DEF BeginWorker, Inv, TypeOK
<1>8. ASSUME NEW r \in Runs, Resolve(r) PROVE Inv'
  <2>1. Active(r) /\ run[r].job \in Jobs
    BY <1>8 DEF Resolve, Active, Inv, Bound
  <2>2. PICK c \in {"known"} \cup Runs :
          run' = [run EXCEPT ![r] = [run[r] EXCEPT !.card = c, !.at = "guard"]]
    BY <1>8 DEF Resolve, Inv, TypeOK, Run
  <2>c. c \in CardIds /\ c # "none"
    BY <2>2, NamesAreNotRuns DEF CardIds
  <2>3. [run[r] EXCEPT !.card = c, !.at = "guard"] \in Run
    BY <2>c DEF Inv, TypeOK, Run, Steps
  <2>4. run' \in [Runs -> Run]
    BY <2>2, <2>3 DEF Inv, TypeOK
  <2>5. /\ run'[r].job = run[r].job /\ run'[r].card = c /\ run'[r].at = "guard"
        /\ \A q \in Runs \ {r} : run'[q] = run[q]
    BY <2>2, <2>3 DEF Inv, TypeOK, Run
  <2>6. Bound' /\ CardChosen'
    BY <2>1, <2>5, <2>c DEF Inv, Bound, Active, CardChosen
  <2> QED
    BY <1>8, <2>4, <2>6 DEF Resolve, Inv, TypeOK
<1>9. ASSUME NEW r \in Runs, DuplicateCheck(r) PROVE Inv'
  <2>1. Active(r) /\ run[r].job \in Jobs /\ run[r].card # "none"
    BY <1>9 DEF DuplicateCheck, Active, Inv, Bound, CardChosen
  <2>2. run' \in [Runs -> Run] /\ Bound' /\ CardChosen'
    BY <1>9, <2>1, MoveStep DEF DuplicateCheck, Steps
  <2>3. overlap' \subseteq Photos
    BY <1>9, <2>1 DEF DuplicateCheck, Inv, TypeOK
  <2> QED
    BY <1>9, <2>2, <2>3 DEF DuplicateCheck, Inv, TypeOK
<1>10. ASSUME NEW r \in Runs, StoreNew(r) PROVE Inv'
  <2>1. Active(r) /\ run[r].job \in Jobs /\ run[r].card # "none"
    BY <1>10 DEF StoreNew, Active, Inv, Bound, CardChosen
  <2>2. run' \in [Runs -> Run] /\ Bound' /\ CardChosen'
    BY <1>10, <2>1, MoveStep DEF StoreNew, Steps
  <2>3. job' \in [Jobs -> Status]
    BY <1>10, <2>1, <1>j, <1>s DEF StoreNew, Inv, TypeOK
  <2>4. NewRow(r) \in Graded
    BY <2>1 DEF NewRow, Graded, Inv, TypeOK, Run
  <2>5. graded' \subseteq Graded /\ recent' \subseteq graded' /\ cards' \subseteq Runs
    BY <1>10, <2>4 DEF StoreNew, RowsWith, Inv, TypeOK
  <2> QED
    BY <1>10, <2>2, <2>3, <2>5 DEF StoreNew, Inv, TypeOK
<1>11. ASSUME NEW r \in Runs, StoreDuplicate(r) \/ FailCommit(r) PROVE Inv'
  <2>1. Active(r) /\ run[r].job \in Jobs
    BY <1>11 DEF StoreDuplicate, FailCommit, Active, Inv, Bound
  <2>2. run' \in [Runs -> Run] /\ Bound' /\ CardChosen'
    BY <1>11, <2>1, MoveStep DEF StoreDuplicate, FailCommit, Steps
  <2>3. job' \in [Jobs -> Status]
    BY <1>11, <2>1, <1>j, <1>s DEF StoreDuplicate, FailCommit, Inv, TypeOK
  <2> QED
    BY <1>11, <2>2, <2>3 DEF StoreDuplicate, FailCommit, Inv, TypeOK
<1>12. ASSUME NEW r \in Runs, TellComplete(r) \/ TellFailed(r) \/ Raise(r) PROVE Inv'
  <2>1. run' \in [Runs -> Run] /\ Bound' /\ CardChosen'
    BY <1>12, MoveStep DEF TellComplete, TellFailed, Raise, Active, Steps
  <2> QED
    BY <1>12, <2>1 DEF TellComplete, TellFailed, Raise, Inv, TypeOK
<1>13. ASSUME NEW r \in Runs, Die(r) PROVE Inv'
  <2>1. Active(r) /\ run[r].job \in Jobs
    BY <1>13 DEF Die, Active, Inv, Bound
  <2>2. run' \in [Runs -> Run] /\ Bound' /\ CardChosen'
    BY <1>13, <2>1, MoveStep DEF Die, Steps
  <2> QED
    BY <1>13, <2>1, <2>2 DEF Die, Inv, TypeOK
<1>14. ASSUME NEW r \in Runs, NEW j \in Jobs, LoadFails(r, j) PROVE Inv'
  <2>1. run' \in [Runs -> Run] /\ run'[r].job = j /\ run'[r].at = "fail"
        /\ \A q \in Runs \ {r} : run'[q] = run[q]
    BY <1>14, LoadFailsEffect DEF Inv
  <2>2. Bound' /\ CardChosen'
    BY <2>1 DEF Inv, Bound, Active, CardChosen
  <2> QED
    BY <1>14, <2>1, <2>2 DEF LoadFails, Inv, TypeOK
<1>15. CASE UNCHANGED vars
  BY <1>15 DEF vars, Inv, TypeOK, Bound, Active, CardChosen
<1> QED
  BY <1>1, <1>2, <1>3, <1>4, <1>5, <1>6, <1>7, <1>8, <1>9, <1>10, <1>11, <1>12, <1>13, <1>14, <1>15
     DEF Next, Step

LEMMA InvInit == Init => Inv
<1> SUFFICES ASSUME Init PROVE Inv
  OBVIOUS
<1>1. Free \in Run /\ Free.at = "free"
  BY DEF Free, Run, Steps, Status, CardIds
<1>2. \A r \in Runs : run[r] = Free
  BY DEF Init
<1> QED
  BY <1>1, <1>2 DEF Init, Inv, TypeOK, Bound, Active, CardChosen, Status

(* The type invariant holds in every behaviour.                             *)
THEOREM TypeCorrect == Spec => []TypeOK
<1>1. Inv => TypeOK
  BY DEF Inv
<1> QED
  BY <1>1, InvInit, InvStep, PTL DEF Spec

----------------------------------------------------------------------------
(* A run bound for the existing row was sent there by a row that is there.  *)
HasCard(j) == \E g \in graded : g.photo = photo[j]

CardInv ==
  /\ CompleteHasCard
  /\ \A r \in Runs : run[r].at = "storeDup" => HasCard(run[r].job)

(* A step that completes no job and sends no run to a stored duplicate.     *)
LEMMA CardQuiet ==
  ASSUME CardInv, photo' = photo, graded \subseteq graded',
         \A j \in Jobs : job'[j] = "complete" => job[j] = "complete",
         \A r \in Runs : run'[r].at = "storeDup" => run'[r] = run[r]
  PROVE  CardInv'
BY DEF CardInv, CompleteHasCard, HasCard

(* What a To step leaves of the other runs, and of its own job.             *)
LEMMA ToEffect ==
  ASSUME Inv, NEW r \in Runs, NEW step \in Steps, To(r, step)
  PROVE  /\ run'[r].at = step
         /\ step # "done" => run'[r].job = run[r].job /\ run'[r].card = run[r].card
         /\ \A q \in Runs \ {r} : run'[q] = run[q]
<1>1. /\ run'[r].at = step
      /\ step # "done" => run'[r] = [run[r] EXCEPT !.at = step]
      /\ \A q \in Runs \ {r} : run'[q] = run[q]
  BY ToTyped DEF Inv
<1> QED
  BY <1>1 DEF Inv, TypeOK, Run

LEMMA CardStep == Inv /\ CardInv /\ [Next]_vars => CardInv'
<1> SUFFICES ASSUME Inv, CardInv, [Next]_vars PROVE CardInv'
  OBVIOUS
<1>w. job \in [Jobs -> Status] /\ run \in [Runs -> Run]
  BY DEF Inv, TypeOK
<1>1. CASE WindowCloses \/ UNCHANGED vars \/ \E g \in recent : RemoveCard(g)
  BY <1>1, CardQuiet DEF WindowCloses, RemoveCard, vars
<1>2. ASSUME NEW j \in Jobs, CreateJob(j) \/ DeleteJob(j) PROVE CardInv'
  BY <1>2, <1>w, CardQuiet DEF CreateJob, DeleteJob
<1>3. ASSUME NEW r \in Runs, NEW j \in Jobs, MarkLoad(r, j) \/ StartWorker(r, j) PROVE CardInv'
  <2>1. PICK step \in {"mark", "start", "begin"} :
          run' = [run EXCEPT ![r] = [@ EXCEPT !.job = j, !.seen = job[j], !.at = step]]
    BY <1>3 DEF MarkLoad, StartWorker
  <2>2. run'[r].at = step /\ \A q \in Runs \ {r} : run'[q] = run[q]
    BY <2>1, <1>w DEF Run
  <2> QED
    BY <1>3, <2>2, CardQuiet DEF MarkLoad, StartWorker
<1>4. ASSUME NEW r \in Runs,
             \/ MarkCommit(r) \/ StartInline(r) \/ BeginWorker(r) \/ FailCommit(r)
             \/ TellComplete(r) \/ TellFailed(r) \/ Raise(r) \/ Die(r)
      PROVE CardInv'
  <2>1. PICK step \in Steps \ {"storeDup"} : To(r, step)
    BY <1>4 DEF MarkCommit, StartInline, BeginWorker, FailCommit, TellComplete, TellFailed,
                Raise, Die, Steps
  <2>2. \A q \in Runs : run'[q].at = "storeDup" => run'[q] = run[q]
    BY <2>1, ToEffect
  <2>3. \A j \in Jobs : job'[j] = "complete" => job[j] = "complete"
    BY <1>4, <1>w DEF MarkCommit, StartInline, BeginWorker, Processing, FailCommit, TellComplete,
                TellFailed, Raise, Die
  <2>4. photo' = photo /\ graded' = graded
    BY <1>4 DEF MarkCommit, StartInline, BeginWorker, FailCommit, TellComplete, TellFailed,
                Raise, Die
  <2> QED
    BY <2>2, <2>3, <2>4, CardQuiet
<1>5. ASSUME NEW r \in Runs, MarkRefresh(r) PROVE CardInv'
  <2>1. run'[r].at \in {"start", "done"} /\ \A q \in Runs \ {r} : run'[q] = run[q]
    BY <1>5, <1>w DEF MarkRefresh, To, Run, Free
  <2> QED
    BY <1>5, <2>1, CardQuiet DEF MarkRefresh
<1>6. ASSUME NEW r \in Runs, Resolve(r) PROVE CardInv'
  <2>1. run'[r].at = "guard" /\ \A q \in Runs \ {r} : run'[q] = run[q]
    BY <1>6, <1>w DEF Resolve, Run
  <2> QED
    BY <1>6, <2>1, CardQuiet DEF Resolve
<1>7. ASSUME NEW r \in Runs, DuplicateCheck(r) PROVE CardInv'
  <2> DEFINE dup == \E g \in recent : SameSubmission(g, r)
  <2>1. To(r, IF dup THEN "storeDup" ELSE "storeNew")
    BY <1>7 DEF DuplicateCheck
  <2>2. /\ run'[r].at = IF dup THEN "storeDup" ELSE "storeNew"
        /\ run'[r].job = run[r].job
        /\ \A q \in Runs \ {r} : run'[q] = run[q]
    BY <2>1, ToEffect DEF Steps
  <2>3. dup => HasCard(run[r].job)
    BY DEF SameSubmission, HasCard, Inv, TypeOK
  <2>4. photo' = photo /\ graded' = graded /\ job' = job
    BY <1>7 DEF DuplicateCheck
  <2>5. CompleteHasCard'
    BY <2>4 DEF CardInv, CompleteHasCard
  <2>6. ASSUME NEW q \in Runs, run'[q].at = "storeDup" PROVE HasCard(run[q].job)'
    BY <2>2, <2>3, <2>4, <2>6 DEF CardInv, HasCard
  <2> QED
    BY <2>5, <2>6 DEF CardInv
<1>8. ASSUME NEW r \in Runs, StoreNew(r) PROVE CardInv'
  <2>1. PICK step \in {"tell", "fail"} : To(r, step)
    BY <1>8 DEF StoreNew
  <2>2. \A q \in Runs : run'[q].at = "storeDup" => run'[q] = run[q]
    BY <2>1, ToEffect DEF Steps
  <2>3. CASE ~Stored(run[r].job)
    BY <1>8, <2>2, <2>3, CardQuiet DEF StoreNew
  <2>4. CASE Stored(run[r].job)
    <3>1. graded' = graded \cup {NewRow(r)} /\ photo' = photo
          /\ job' = [job EXCEPT ![run[r].job] = "complete"]
      BY <1>8, <2>4 DEF StoreNew, RowsWith
    <3>2. NewRow(r) \in graded' /\ NewRow(r).photo = photo[run[r].job]
      BY <3>1 DEF NewRow
    <3>3. ASSUME NEW j \in Jobs, job'[j] = "complete"
          PROVE  \E g \in graded' : g.photo = photo'[j]
      <4>1. CASE j = run[r].job
        BY <4>1, <3>1, <3>2
      <4>2. CASE j # run[r].job
        BY <4>2, <3>1, <3>3, <1>w DEF CardInv, CompleteHasCard
      <4> QED
        BY <4>1, <4>2
    <3>4. ASSUME NEW q \in Runs, run'[q].at = "storeDup"
          PROVE  \E g \in graded' : g.photo = photo'[run'[q].job]
      <4>1. run'[q] = run[q] /\ run[q].at = "storeDup"
        BY <3>4, <2>2
      <4> QED
        BY <3>1, <4>1 DEF CardInv, HasCard
    <3> QED
      BY <3>3, <3>4 DEF CardInv, HasCard, CompleteHasCard
  <2> QED
    BY <2>3, <2>4
<1>9. ASSUME NEW r \in Runs, StoreDuplicate(r) PROVE CardInv'
  <2>1. PICK step \in {"tell", "fail"} : To(r, step)
    BY <1>9 DEF StoreDuplicate
  <2>2. \A q \in Runs : run'[q].at = "storeDup" => run'[q] = run[q]
    BY <2>1, ToEffect DEF Steps
  <2>3. photo' = photo /\ graded' = graded
    BY <1>9 DEF StoreDuplicate
  <2>4. HasCard(run[r].job)
    BY <1>9 DEF StoreDuplicate, CardInv
  <2>5. CompleteHasCard'
    BY <1>9, <1>w, <2>3, <2>4 DEF StoreDuplicate, CardInv, CompleteHasCard, HasCard
  <2> QED
    BY <2>2, <2>3, <2>5 DEF CardInv, HasCard
<1>10. ASSUME NEW r \in Runs, NEW j \in Jobs, LoadFails(r, j) PROVE CardInv'
  <2>1. \A q \in Runs : run'[q].at = "storeDup" => run'[q] = run[q]
    BY <1>10, LoadFailsEffect DEF Inv
  <2> QED
    BY <1>10, <2>1, CardQuiet DEF LoadFails
<1> QED
  BY <1>1, <1>2, <1>3, <1>4, <1>5, <1>6, <1>7, <1>8, <1>9, <1>10 DEF Next, Step

(* A job is complete only when its photo has a graded card, whichever runs  *)
(* mark, store, fail or die around it.                                      *)
THEOREM CompleteJobsHaveCards == Spec => []CompleteHasCard
<1>1. Init => CardInv
  BY DEF Init, CardInv, CompleteHasCard, Free
<1>2. CardInv => CompleteHasCard
  BY DEF CardInv
<1> QED
  BY <1>1, <1>2, CardStep, InvInit, InvStep, PTL DEF Spec

(* A step that keeps complete jobs complete, or records the job it dragged, *)
(* and stores no card.                                                      *)
LEMMA CompleteQuiet ==
  ASSUME Inv, CardImpliesComplete, graded' = graded, dragged \subseteq dragged',
         \A j \in Jobs : \/ job[j] = "complete" => job'[j] \in {"complete", "deleted"}
                         \/ j \in dragged',
         \A j \in Jobs : job[j] = "deleted" => job'[j] = "deleted"
  PROVE  CardImpliesComplete'
<1>1. \A g \in graded : g.job \in Jobs
  BY DEF Inv, TypeOK, Graded
<1> QED
  BY <1>1 DEF CardImpliesComplete

LEMMA CompleteStep == Inv /\ CardImpliesComplete /\ [Next]_vars => CardImpliesComplete'
<1> SUFFICES ASSUME Inv, CardImpliesComplete, [Next]_vars PROVE CardImpliesComplete'
  OBVIOUS
<1>w. job \in [Jobs -> Status]
  BY DEF Inv, TypeOK
<1>b. \A r \in Runs : Active(r) => run[r].job \in Jobs
  BY DEF Inv, Bound
<1>1. CASE WindowCloses \/ UNCHANGED vars \/ \E g \in recent : RemoveCard(g)
  BY <1>1, CompleteQuiet DEF WindowCloses, RemoveCard, vars
<1>2. ASSUME NEW j \in Jobs, CreateJob(j) \/ DeleteJob(j) PROVE CardImpliesComplete'
  BY <1>2, <1>w, CompleteQuiet DEF CreateJob, DeleteJob, Stored
<1>3. ASSUME NEW r \in Runs, NEW j \in Jobs,
             MarkLoad(r, j) \/ StartWorker(r, j) \/ LoadFails(r, j)
      PROVE  CardImpliesComplete'
  BY <1>3, CompleteQuiet DEF MarkLoad, StartWorker, LoadFails
<1>4. ASSUME NEW r \in Runs, MarkCommit(r) \/ BeginWorker(r) PROVE CardImpliesComplete'
  <2>1. graded' = graded /\ (UNCHANGED <<job, dragged>>
                              \/ (Stored(run[r].job) /\ Processing(run[r].job)))
    BY <1>4 DEF MarkCommit, BeginWorker
  <2>2. CASE UNCHANGED <<job, dragged>>
    BY <2>1, <2>2, CompleteQuiet
  <2>3. CASE Stored(run[r].job) /\ Processing(run[r].job)
    BY <2>1, <2>3, <1>w, CompleteQuiet DEF Processing, Stored
  <2> QED
    BY <2>1, <2>2, <2>3
<1>5. ASSUME NEW r \in Runs, StoreNew(r) PROVE CardImpliesComplete'
  <2>1. run[r].job \in Jobs
    BY <1>5, <1>b DEF StoreNew, Active
  <2>2. CASE ~Stored(run[r].job)
    BY <1>5, <2>2, CompleteQuiet DEF StoreNew
  <2>3. CASE Stored(run[r].job)
    <3>1. /\ job' = [job EXCEPT ![run[r].job] = "complete"] /\ dragged' = dragged
          /\ graded' = graded \cup {NewRow(r)} /\ NewRow(r).job = run[r].job
      BY <1>5, <2>3 DEF StoreNew, RowsWith, NewRow
    <3>2. ASSUME NEW g \in graded'
          PROVE  job'[g.job] \in {"complete", "deleted"} \/ g.job \in dragged'
      <4>1. CASE g.job = run[r].job
        BY <2>1, <3>1, <4>1, <1>w
      <4>2. CASE g.job # run[r].job
        <5>1. g \in graded
          BY <3>1, <3>2, <4>2
        <5> QED
          BY <3>1, <4>2, <5>1, <1>w DEF CardImpliesComplete
      <4> QED
        BY <4>1, <4>2
    <3> QED
      BY <3>2 DEF CardImpliesComplete
  <2> QED
    BY <2>2, <2>3
<1>6. ASSUME NEW r \in Runs, StoreDuplicate(r) PROVE CardImpliesComplete'
  BY <1>6, <1>w, CompleteQuiet DEF StoreDuplicate, Stored
<1>7. ASSUME NEW r \in Runs, FailCommit(r) PROVE CardImpliesComplete'
  BY <1>7, <1>w, CompleteQuiet DEF FailCommit, MayFail
<1>8. ASSUME NEW r \in Runs,
             \/ MarkRefresh(r) \/ StartInline(r) \/ Resolve(r) \/ DuplicateCheck(r)
             \/ TellComplete(r) \/ TellFailed(r) \/ Raise(r) \/ Die(r)
      PROVE  CardImpliesComplete'
  <2>1. UNCHANGED <<job, graded, dragged>>
    BY <1>8 DEF MarkRefresh, StartInline, Resolve, DuplicateCheck, TellComplete, TellFailed,
                Raise, Die
  <2> QED
    BY <2>1, CompleteQuiet
<1> QED
  BY <1>1, <1>2, <1>3, <1>4, <1>5, <1>6, <1>7, <1>8 DEF Next, Step

(* A stored card keeps its job complete, whatever raises in its run after   *)
(* the commit or in the other runs of the job at any point, unless a mark   *)
(* that had loaded the job before drags it back.                            *)
THEOREM StoredStaysComplete == Spec => []CardImpliesComplete
<1>1. Init => CardImpliesComplete
  BY DEF Init, CardImpliesComplete
<1> QED
  BY <1>1, CompleteStep, InvInit, InvStep, PTL DEF Spec

----------------------------------------------------------------------------
(* Between the duplicate check and the store of one run: unless two such    *)
(* runs of a photo overlapped, it is the only one, and the window holds no  *)
(* row of the submission it is about to store.                              *)
PhotoOf(r) == photo[run[r].job]
Storing(r) == run[r].at = "storeNew"
Alone(r) ==
  PhotoOf(r) \notin overlap =>
    /\ \A q \in Runs : Storing(q) /\ PhotoOf(q) = PhotoOf(r) => q = r
    /\ \A g \in recent : ~SameSubmission(g, r)

DupInv == SerialRunsDedupe /\ \A r \in Runs : Storing(r) => Alone(r)

(* A step that stores nothing, and sends no run past the check.             *)
LEMMA DupQuiet ==
  ASSUME DupInv, photo' = photo, overlap' = overlap, recent' \subseteq recent,
         \A r \in Runs : Storing(r)' => run'[r] = run[r]
  PROVE  DupInv'
<1>1. SerialRunsDedupe'
  BY DEF DupInv, SerialRunsDedupe
<1>2. ASSUME NEW r \in Runs, Storing(r)' PROVE Alone(r)'
  <2>1. run'[r] = run[r] /\ Storing(r) /\ Alone(r)
    BY <1>2 DEF Storing, DupInv
  <2>2. \A g : SameSubmission(g, r)' <=> SameSubmission(g, r)
    BY <2>1 DEF SameSubmission
  <2>3. \A q \in Runs : Storing(q)' => Storing(q) /\ PhotoOf(q)' = PhotoOf(q)
    BY DEF Storing, PhotoOf
  <2> QED
    BY <2>1, <2>2, <2>3 DEF Alone, PhotoOf
<1> QED
  BY <1>1, <1>2 DEF DupInv

LEMMA DupStep == Inv /\ DupInv /\ [Next]_vars => DupInv'
<1> SUFFICES ASSUME Inv, DupInv, [Next]_vars PROVE DupInv'
  OBVIOUS
<1>w. run \in [Runs -> Run]
  BY DEF Inv, TypeOK
<1>1. CASE WindowCloses \/ UNCHANGED vars \/ \E g \in recent : RemoveCard(g)
  BY <1>1, DupQuiet DEF WindowCloses, RemoveCard, vars
<1>2. ASSUME NEW j \in Jobs, CreateJob(j) \/ DeleteJob(j) PROVE DupInv'
  BY <1>2, DupQuiet DEF CreateJob, DeleteJob
<1>3. ASSUME NEW r \in Runs, NEW j \in Jobs, MarkLoad(r, j) \/ StartWorker(r, j) PROVE DupInv'
  <2>1. PICK step \in {"mark", "start", "begin"} :
          run' = [run EXCEPT ![r] = [@ EXCEPT !.job = j, !.seen = job[j], !.at = step]]
    BY <1>3 DEF MarkLoad, StartWorker
  <2>2. run'[r].at = step /\ \A q \in Runs \ {r} : run'[q] = run[q]
    BY <2>1, <1>w DEF Run
  <2> QED
    BY <1>3, <2>2, DupQuiet DEF MarkLoad, StartWorker, Storing
<1>4. ASSUME NEW r \in Runs,
             \/ MarkCommit(r) \/ StartInline(r) \/ BeginWorker(r) \/ StoreDuplicate(r)
             \/ TellComplete(r) \/ FailCommit(r) \/ TellFailed(r) \/ Raise(r) \/ Die(r)
      PROVE DupInv'
  <2>1. PICK step \in Steps \ {"storeNew"} : To(r, step)
    BY <1>4 DEF MarkCommit, StartInline, BeginWorker, StoreDuplicate, TellComplete, FailCommit,
                TellFailed, Raise, Die, Steps
  <2>2. \A q \in Runs : Storing(q)' => run'[q] = run[q]
    BY <2>1, ToEffect DEF Storing
  <2>3. photo' = photo /\ overlap' = overlap /\ recent' = recent
    BY <1>4 DEF MarkCommit, StartInline, BeginWorker, StoreDuplicate, TellComplete, FailCommit,
                TellFailed, Raise, Die
  <2> QED
    BY <2>2, <2>3, DupQuiet
<1>5. ASSUME NEW r \in Runs, MarkRefresh(r) PROVE DupInv'
  <2>1. run'[r].at \in {"start", "done"} /\ \A q \in Runs \ {r} : run'[q] = run[q]
    BY <1>5, <1>w DEF MarkRefresh, To, Run, Free
  <2> QED
    BY <1>5, <2>1, DupQuiet DEF MarkRefresh, Storing
<1>6. ASSUME NEW r \in Runs, Resolve(r) PROVE DupInv'
  <2>1. run'[r].at = "guard" /\ \A q \in Runs \ {r} : run'[q] = run[q]
    BY <1>6, <1>w DEF Resolve, Run
  <2> QED
    BY <1>6, <2>1, DupQuiet DEF Resolve, Storing
<1>7. ASSUME NEW r \in Runs, DuplicateCheck(r) PROVE DupInv'
  <2> DEFINE dup == \E g \in recent : SameSubmission(g, r)
  <2>1. To(r, IF dup THEN "storeDup" ELSE "storeNew")
    BY <1>7 DEF DuplicateCheck
  <2>2. /\ run'[r].at = IF dup THEN "storeDup" ELSE "storeNew"
        /\ run'[r].job = run[r].job /\ run'[r].card = run[r].card
        /\ \A q \in Runs \ {r} : run'[q] = run[q]
    BY <2>1, ToEffect DEF Steps
  <2>3. photo' = photo /\ recent' = recent /\ overlap \subseteq overlap'
        /\ (Overlapping(r) => PhotoOf(r) \in overlap')
    BY <1>7 DEF DuplicateCheck, PhotoOf
  <2>4. SerialRunsDedupe'
    BY <2>3 DEF DupInv, SerialRunsDedupe
  <2>5. \A q \in Runs : /\ PhotoOf(q)' = PhotoOf(q)
                        /\ \A g : SameSubmission(g, q)' <=> SameSubmission(g, q)
    BY <2>2, <2>3 DEF PhotoOf, SameSubmission
  <2>6. \A q \in Runs \ {r} : Storing(q)' <=> Storing(q)
    BY <2>2 DEF Storing
  <2>7. ASSUME NEW q \in Runs, Storing(q)', PhotoOf(q)' \notin overlap' PROVE Alone(q)'
    <3>1. CASE q = r
      <4>1. ~dup
        BY <2>2, <2>7, <3>1 DEF Storing
      <4>2. \A u \in Runs : Storing(u)' /\ PhotoOf(u)' = PhotoOf(r)' => u = r
        BY <2>3, <2>5, <2>6, <2>7, <3>1 DEF Overlapping, Storing, PhotoOf
      <4> QED
        BY <2>3, <2>5, <3>1, <4>1, <4>2 DEF Alone
    <3>2. CASE q # r
      <4>1. Storing(q) /\ Alone(q) /\ PhotoOf(q) \notin overlap
        BY <2>3, <2>5, <2>6, <2>7, <3>2 DEF DupInv
      <4>2. Storing(r)' => PhotoOf(r)' # PhotoOf(q)'
        BY <2>3, <2>5, <2>7, <3>2, <4>1 DEF Overlapping, Storing, PhotoOf
      <4>3. \A u \in Runs : Storing(u)' /\ PhotoOf(u)' = PhotoOf(q)' => u = q
        BY <2>5, <2>6, <4>1, <4>2 DEF Alone
      <4> QED
        BY <2>3, <2>5, <4>1, <4>3 DEF Alone
    <3> QED
      BY <3>1, <3>2
  <2> QED
    BY <2>4, <2>7 DEF DupInv, Alone
<1>8. ASSUME NEW r \in Runs, StoreNew(r) PROVE DupInv'
  <2>1. PICK step \in {"tell", "fail"} : To(r, step)
    BY <1>8 DEF StoreNew
  <2>2. run'[r].at = step /\ \A q \in Runs \ {r} : run'[q] = run[q]
    BY <2>1, ToEffect DEF Steps
  <2>3. \A q \in Runs : Storing(q)' => q # r /\ run'[q] = run[q]
    BY <2>2 DEF Storing
  <2>4. Storing(r) /\ Alone(r) /\ photo' = photo /\ overlap' = overlap
    BY <1>8 DEF StoreNew, Storing, DupInv
  <2>5. CASE ~Stored(run[r].job)
    BY <1>8, <2>3, <2>4, <2>5, DupQuiet DEF StoreNew
  <2>6. CASE Stored(run[r].job)
    <3>1. recent' \subseteq recent \cup {NewRow(r)}
      BY <1>8, <2>6 DEF StoreNew, RowsWith
    <3>2. NewRow(r).photo = PhotoOf(r) /\ NewRow(r).card = run[r].card
      BY DEF NewRow, PhotoOf
    <3>3. ASSUME NEW g \in recent, g.photo \notin overlap, g.photo = NewRow(r).photo,
                 g.card = NewRow(r).card
          PROVE  FALSE
      BY <2>4, <3>2, <3>3 DEF Alone, SameSubmission, PhotoOf
    <3>4. SerialRunsDedupe'
      BY <2>4, <3>1, <3>3 DEF DupInv, SerialRunsDedupe
    <3>5. ASSUME NEW q \in Runs, Storing(q)', PhotoOf(q)' \notin overlap' PROVE Alone(q)'
      <4>1. q # r /\ run'[q] = run[q] /\ Storing(q) /\ Alone(q) /\ PhotoOf(q) \notin overlap
        BY <2>3, <2>4, <3>5 DEF Storing, PhotoOf, DupInv
      <4>2. PhotoOf(r) # PhotoOf(q)
        BY <2>4, <4>1 DEF Alone
      <4>3. \A g \in recent' : ~SameSubmission(g, q)'
        BY <2>4, <3>1, <3>2, <4>1, <4>2 DEF Alone, SameSubmission, PhotoOf
      <4>4. \A u \in Runs : Storing(u)' /\ PhotoOf(u)' = PhotoOf(q)' => u = q
        BY <2>3, <2>4, <4>1 DEF Alone, Storing, PhotoOf
      <4> QED
        BY <4>3, <4>4 DEF Alone
    <3> QED
      BY <3>4, <3>5 DEF DupInv, Alone
  <2> QED
    BY <2>5, <2>6
<1>9. ASSUME NEW r \in Runs, NEW j \in Jobs, LoadFails(r, j) PROVE DupInv'
  <2>1. \A q \in Runs : Storing(q)' => run'[q] = run[q]
    BY <1>9, LoadFailsEffect DEF Inv, Storing
  <2> QED
    BY <1>9, <2>1, DupQuiet DEF LoadFails
<1> QED
  BY <1>1, <1>2, <1>3, <1>4, <1>5, <1>6, <1>7, <1>8, <1>9 DEF Next, Step

(* Repeating a submission within the window makes no second row, unless two *)
(* runs of the photo were past the duplicate check at once.                 *)
THEOREM SerialRuns == Spec => []SerialRunsDedupe
<1>1. Init => DupInv
  BY DEF Init, DupInv, SerialRunsDedupe, Storing, Free
<1>2. DupInv => SerialRunsDedupe
  BY DEF DupInv
<1> QED
  BY <1>1, <1>2, DupStep, InvInit, InvStep, PTL DEF Spec

----------------------------------------------------------------------------
(* What ScanEnds rests on.  A run that will still write an end of the job:  *)
(* it is past the checks that hand a job over without touching it.          *)
Settling == {"refresh", "begin", "resolve", "guard", "storeNew", "storeDup", "fail"}

WillSettle(r, j) ==
  /\ run[r].job = j
  /\ run[r].at \in Settling \/ (run[r].at = "start" /\ Runnable(run[r].seen))

NeverOrphaned ==
  \A j \in Jobs : job[j] = "processing" /\ j \notin stranded => \E r \in Runs : WillSettle(r, j)

(* A step of one run, which the others do not notice, keeps a job from being*)
(* orphaned if it settles the job or the run still will.                    *)
LEMMA SettlerStays ==
  ASSUME NeverOrphaned, NEW j \in Jobs, NEW r \in Runs, stranded \subseteq stranded',
         job'[j] = "processing", j \notin stranded',
         \A q \in Runs \ {r} : run'[q] = run[q],
         job[j] # "processing" \/ WillSettle(r, j) => WillSettle(r, j)'
  PROVE  \E q \in Runs : WillSettle(q, j)'
<1>1. CASE job[j] # "processing" \/ WillSettle(r, j)
  BY <1>1
<1>2. CASE job[j] = "processing" /\ ~WillSettle(r, j)
  <2>1. PICK q \in Runs : WillSettle(q, j)
    BY <1>2 DEF NeverOrphaned
  <2> QED
    BY <1>2, <2>1 DEF WillSettle
<1> QED
  BY <1>1, <1>2

LEMMA OrphanStep == Inv /\ NeverOrphaned /\ [Next]_vars => NeverOrphaned'
<1> SUFFICES ASSUME Inv, NeverOrphaned, [Next]_vars,
                    NEW j \in Jobs, job'[j] = "processing", j \notin stranded'
             PROVE  \E r \in Runs : WillSettle(r, j)'
  BY DEF NeverOrphaned
<1>w. job \in [Jobs -> Status] /\ run \in [Runs -> Run]
  BY DEF Inv, TypeOK
<1> USE DEF Settling
<1>1. CASE WindowCloses \/ UNCHANGED vars \/ \E g \in recent : RemoveCard(g)
  BY <1>1 DEF WindowCloses, RemoveCard, vars, NeverOrphaned, WillSettle
<1>2. ASSUME NEW k \in Jobs, CreateJob(k) \/ DeleteJob(k) PROVE \E r \in Runs : WillSettle(r, j)'
  BY <1>2, <1>w DEF CreateJob, DeleteJob, NeverOrphaned, WillSettle
<1>3. ASSUME NEW r \in Runs, NEW k \in Jobs,
             MarkLoad(r, k) \/ StartWorker(r, k) \/ LoadFails(r, k)
      PROVE  \E q \in Runs : WillSettle(q, j)'
  <2>1. /\ \A q \in Runs \ {r} : run'[q] = run[q]
        /\ UNCHANGED <<job, stranded>> /\ run[r].at = "free"
    BY <1>3, <1>w DEF MarkLoad, StartWorker, LoadFails
  <2> QED
    BY <2>1, SettlerStays DEF WillSettle
<1>4. ASSUME NEW r \in Runs, Step(r) \/ Raise(r) \/ Die(r)
      PROVE  \E q \in Runs : WillSettle(q, j)'
  <2>r. run[r] \in Run
    BY <1>w
  <2>1. CASE MarkCommit(r)
    <3>1. PICK step \in {"refresh", "done"} : To(r, step) /\ (step = "refresh" <=> Stored(run[r].job))
      BY <2>1 DEF MarkCommit
    <3>2. /\ \A q \in Runs \ {r} : run'[q] = run[q]
          /\ step = "refresh" => run'[r].at = "refresh" /\ run'[r].job = run[r].job
      BY <3>1, ToEffect DEF Steps
    <3>3. job[j] # "processing" => run[r].job = j /\ Stored(j)
      BY <2>1, <1>w DEF MarkCommit, Processing
    <3> QED
      BY <2>1, <3>1, <3>2, <3>3, SettlerStays DEF MarkCommit, WillSettle
  <2>2. CASE MarkRefresh(r)
    <3>1. UNCHANGED <<job, stranded>> /\ \A q \in Runs \ {r} : run'[q] = run[q]
      BY <2>2, <1>w DEF MarkRefresh, To
    <3>2. WillSettle(r, j) => run'[r].job = j /\ run'[r].at = "start" /\ run'[r].seen = "processing"
      BY <2>2, <1>w, <3>1 DEF MarkRefresh, WillSettle, Stored, Run
    <3> QED
      BY <3>1, <3>2, SettlerStays DEF WillSettle, Runnable
  <2>3. CASE Resolve(r)
    <3>1. /\ UNCHANGED <<job, stranded>> /\ \A q \in Runs \ {r} : run'[q] = run[q]
          /\ run'[r].at = "guard" /\ run'[r].job = run[r].job
      BY <2>3, <1>w DEF Resolve, Run
    <3> QED
      BY <3>1, SettlerStays DEF WillSettle
  <2>4. CASE StartInline(r) \/ BeginWorker(r) \/ DuplicateCheck(r) \/ StoreNew(r)
             \/ StoreDuplicate(r) \/ TellComplete(r) \/ FailCommit(r) \/ TellFailed(r)
             \/ Raise(r) \/ Die(r)
    <3>1. PICK step \in Steps : To(r, step)
      BY <2>4 DEF StartInline, BeginWorker, DuplicateCheck, StoreNew, StoreDuplicate, TellComplete,
                  FailCommit, TellFailed, Raise, Die, Steps
    <3>2. /\ run'[r].at = step /\ \A q \in Runs \ {r} : run'[q] = run[q]
          /\ step # "done" => run'[r].job = run[r].job
      BY <3>1, ToEffect
    <3>3. stranded \subseteq stranded'
      BY <2>4 DEF StartInline, BeginWorker, DuplicateCheck, StoreNew, StoreDuplicate, TellComplete,
                  FailCommit, TellFailed, Raise, Die
    <3>4. job[j] # "processing" => run[r].job = j /\ BeginWorker(r) /\ step = "resolve"
      BY <2>4, <1>w, <3>1, <3>2, ToEffect DEF StartInline, BeginWorker, Processing, DuplicateCheck, StoreNew,
         StoreDuplicate, TellComplete, FailCommit, TellFailed, Raise, Die, Steps
    <3>5. WillSettle(r, j) /\ job[j] = "processing" => step \in Settling
      BY <2>4, <1>w, <3>1, <3>2, ToEffect DEF StartInline, BeginWorker, DuplicateCheck, StoreNew,
         StoreDuplicate, TellComplete, FailCommit, TellFailed, Raise, Die, Steps, WillSettle, Stored,
         MayFail
    <3> QED
      BY <3>2, <3>3, <3>4, <3>5, SettlerStays DEF WillSettle
  <2> QED
    BY <1>4, <2>1, <2>2, <2>3, <2>4 DEF Step
<1> QED
  BY <1>1, <1>2, <1>3, <1>4 DEF Next

(* A job in processing always has a run that will still settle it, unless a *)
(* run of it died outside the guard: no interleaving of marks, retries,     *)
(* deletions and raises leaves one behind with nobody in charge of it.      *)
THEOREM AlwaysInHand == Spec => []NeverOrphaned
<1>1. Init => NeverOrphaned
  BY DEF Init, NeverOrphaned
<1> QED
  BY <1>1, InvInit, InvStep, OrphanStep, PTL DEF Spec

(* How far along a run is.                                                  *)
Place(step) ==
  CASE step = "free" -> 0
    [] step = "mark" -> 1
    [] step = "refresh" -> 2
    [] step \in {"start", "begin"} -> 3
    [] step = "resolve" -> 4
    [] step = "guard" -> 5
    [] step \in {"storeNew", "storeDup"} -> 6
    [] step = "tell" -> 7
    [] step = "fail" -> 8
    [] step = "tellFail" -> 9
    [] step = "done" -> 10

RunsAdvance == [][\A r \in Runs : run'[r] # run[r] => Place(run[r].at) < Place(run'[r].at)]_vars

(* A run never goes round in circles: whatever it does brings it closer to  *)
(* its end, so each takes ten steps at the most.                            *)
THEOREM RunsEnd == Spec => RunsAdvance
<1>1. Inv /\ [Next]_vars
        => [\A r \in Runs : run'[r] # run[r] => Place(run[r].at) < Place(run'[r].at)]_vars
  <2> SUFFICES ASSUME Inv, Next, NEW q \in Runs, run'[q] # run[q]
               PROVE  Place(run[q].at) < Place(run'[q].at)
    OBVIOUS
  <2>w. run \in [Runs -> Run]
    BY DEF Inv, TypeOK
  <2>1. ASSUME NEW r \in Runs, NEW j \in Jobs,
               MarkLoad(r, j) \/ StartWorker(r, j) \/ LoadFails(r, j)
        PROVE  Place(run[q].at) < Place(run'[q].at)
    <3>1. run[q].at = "free" /\ run'[q].at \in {"mark", "start", "begin", "fail"}
      BY <2>1, <2>w DEF MarkLoad, StartWorker, LoadFails, Run
    <3> QED
      BY <3>1 DEF Place
  <2>2. ASSUME NEW r \in Runs, MarkRefresh(r) \/ Resolve(r)
        PROVE  Place(run[q].at) < Place(run'[q].at)
    <3>1. \/ run[q].at = "refresh" /\ run'[q].at \in {"start", "done"}
          \/ run[q].at = "resolve" /\ run'[q].at = "guard"
      BY <2>2, <2>w DEF MarkRefresh, Resolve, To, Run, Free
    <3> QED
      BY <3>1 DEF Place
  <2>3. ASSUME NEW r \in Runs,
               \/ MarkCommit(r) \/ StartInline(r) \/ BeginWorker(r) \/ DuplicateCheck(r)
               \/ StoreNew(r) \/ StoreDuplicate(r) \/ TellComplete(r) \/ FailCommit(r)
               \/ TellFailed(r) \/ Raise(r) \/ Die(r)
        PROVE  Place(run[q].at) < Place(run'[q].at)
    <3> SUFFICES \E step \in Steps : To(r, step) /\ Place(run[r].at) < Place(step)
      BY ToEffect
    <3>w. run[r].at \in Steps
      BY <2>w DEF Run
    <3>1. CASE MarkCommit(r)
      <4>1. run[r].at = "mark" /\ (To(r, "refresh") \/ To(r, "done"))
        BY <3>1 DEF MarkCommit
      <4> QED  BY <4>1 DEF Place, Steps
    <3>2. CASE StartInline(r)
      <4>1. run[r].at = "start" /\ (To(r, "resolve") \/ To(r, "done"))
        BY <3>2 DEF StartInline
      <4> QED  BY <4>1 DEF Place, Steps
    <3>3. CASE BeginWorker(r)
      <4>1. run[r].at = "begin" /\ (To(r, "resolve") \/ To(r, "fail"))
        BY <3>3 DEF BeginWorker
      <4> QED  BY <4>1 DEF Place, Steps
    <3>4. CASE DuplicateCheck(r)
      <4>1. run[r].at = "guard" /\ (To(r, "storeDup") \/ To(r, "storeNew"))
        BY <3>4 DEF DuplicateCheck
      <4> QED  BY <4>1 DEF Place, Steps
    <3>5. CASE StoreNew(r) \/ StoreDuplicate(r)
      <4>1. run[r].at \in {"storeNew", "storeDup"} /\ (To(r, "tell") \/ To(r, "fail"))
        BY <3>5 DEF StoreNew, StoreDuplicate
      <4> QED  BY <4>1 DEF Place, Steps
    <3>6. CASE TellComplete(r) \/ TellFailed(r)
      <4>1. run[r].at \in {"tell", "tellFail"} /\ To(r, "done")
        BY <3>6 DEF TellComplete, TellFailed
      <4> QED  BY <4>1 DEF Place, Steps
    <3>7. CASE FailCommit(r)
      <4>1. run[r].at = "fail" /\ To(r, "tellFail")
        BY <3>7 DEF FailCommit
      <4> QED  BY <4>1 DEF Place, Steps
    <3>8. CASE Raise(r)
      <4>1. run[r].at \in {"start", "begin", "resolve", "guard", "storeNew", "storeDup", "tell"}
            /\ To(r, "fail")
        BY <3>8 DEF Raise
      <4> QED  BY <4>1 DEF Place, Steps
    <3>9. CASE Die(r)
      <4>1. run[r].at \in Steps \ {"done"} /\ To(r, "done")
        BY <3>9, <3>w DEF Die
      <4> QED  BY <4>1 DEF Place, Steps
    <3> QED
      BY <2>3, <3>1, <3>2, <3>3, <3>4, <3>5, <3>6, <3>7, <3>8, <3>9
  <2>4. CASE \/ WindowCloses \/ \E g \in recent : RemoveCard(g)
             \/ \E j \in Jobs : CreateJob(j) \/ DeleteJob(j)
    BY <2>4 DEF WindowCloses, RemoveCard, CreateJob, DeleteJob
  <2> QED
    BY <2>1, <2>2, <2>3, <2>4 DEF Next, Step
<1> QED
  BY <1>1, InvInit, InvStep, PTL DEF Spec, RunsAdvance
=============================================================================
