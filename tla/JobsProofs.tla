----------------------------- MODULE JobsProofs -----------------------------
(***************************************************************************)
(* Theorems about Jobs, for any set of rows, any set of POST requests and  *)
(* any number of crashes.                                                  *)
(***************************************************************************)
EXTENDS Jobs, TLAPS

(* The type invariant of the conversion jobs.                              *)
THEOREM TypeCorrect == Spec => []TypeOK
<1> USE JobsAssumption DEF TypeOK, RowState, InHandler, Answer, Working
<1>1. Init => TypeOK
  BY DEF Init
<1>2. TypeOK /\ [Next]_vars => TypeOK'
  <2> SUFFICES ASSUME TypeOK, [Next]_vars PROVE TypeOK'
    OBVIOUS
  <2> USE DEF rowVars, r2Vars, webVars, taskVars, raceVars, histVars
  <2>1. ASSUME NEW j \in Job, PresignUpload(j) PROVE TypeOK'
    BY <2>1 DEF PresignUpload
  <2>2. ASSUME NEW j \in Job, PutInput(j) PROVE TypeOK'
    BY <2>2 DEF PutInput
  <2>3. ASSUME NEW p \in Post, Lookup(p) \/ Admit(p) \/ StartFails(p) PROVE TypeOK'
    BY <2>3 DEF Lookup, Admit, Pass, Passing, StartFails, Answers
  <2>4. ASSUME NEW p \in Post, Start(p) \/ Commit(p) PROVE TypeOK'
    BY <2>4 DEF Start, Commit
  <2>5. ASSUME NEW p \in Post, CommitFails(p) PROVE TypeOK'
    BY <2>5 DEF CommitFails
  <2>6. ASSUME NEW p \in Post, Extract(p) \/ MarkRunning(p) \/ Convert(p) \/ Upload(p)
        PROVE TypeOK'
    BY <2>6 DEF Extract, MarkRunning, Convert, Upload, Goto
  <2>7. ASSUME NEW p \in Post, RecordDone(p) \/ RecordFailed(p) \/ RecordException(p)
        PROVE TypeOK'
    BY <2>7 DEF RecordDone, RecordFailed, RecordException, Goto
  <2>8. ASSUME NEW p \in Post, WriteFails(p) \/ WriteUnacked(p) PROVE TypeOK'
    BY <2>8 DEF WriteFails, WriteUnacked, Recording, Goto
  <2>9. ASSUME NEW p \in Post, Cleanup(p) PROVE TypeOK'
    BY <2>9 DEF Cleanup, Goto
  <2>10. CASE Crash
    BY <2>10 DEF Crash, Interrupted
  <2>11. CASE UNCHANGED vars
    BY <2>11 DEF vars
  <2> QED
    BY <2>1, <2>2, <2>3, <2>4, <2>5, <2>6, <2>7, <2>8, <2>9, <2>10, <2>11
    DEF Next, HandlerStep, TaskStep
<1> QED
  BY <1>1, <1>2, PTL DEF Spec

-----------------------------------------------------------------------------
(***************************************************************************)
(* The inductive invariant.  None of the properties is inductive on its    *)
(* own: that a job in progress has an owner depends on the row lock, which *)
(* keeps the task of an uncommitted request from ending before the request *)
(* has decided about the row.                                              *)
(***************************************************************************)

(* _live_bg_tasks holds exactly the tasks that have not ended.             *)
LiveTasks ==
  \A p \in Post : p \in live <=> task[p] \in Working \cup {"cleanup"}

(* A task exists only once its request has got to create_task.             *)
NoTaskYet ==
  \A p \in Post : post[p] \in {"idle", "gate", "admitted"} => task[p] = "none"

(* A request that still has to commit holds its row's lock ...             *)
LockHeld ==
  \A p \in Post : post[p] = "committing" => rowLock[target[p]] = p

(* ... so that its task cannot have recorded an end in the meantime.       *)
CommittingOwned ==
  \A p \in Post :
    post[p] = "committing" => task[p] \in Working \/ target[p] \in abandoned

(* The output object exists by the time the run goes on to record done.    *)
UploadedFirst ==
  \A p \in Post : task[p] = "finish" => target[p] \in stored

IInv ==
  /\ TypeOK
  /\ LiveTasks
  /\ NoTaskYet
  /\ LockHeld
  /\ CommittingOwned
  /\ UploadedFirst
  /\ DownloadableIsStored
  /\ OwnedOrAbandoned
  /\ AcceptedIsTaken

LEMMA InductiveInvariant == Spec => []IInv
<1> USE JobsAssumption
    DEF InHandler, Working, InProgress, LiveTasks, NoTaskYet, LockHeld, CommittingOwned,
        UploadedFirst, DownloadableIsStored, Downloadable, OwnedOrAbandoned, AcceptedIsTaken
<1>1. Init => IInv
  BY DEF Init, IInv, TypeOK, RowState, Answer
<1>2. TypeOK /\ TypeOK' /\ IInv /\ [Next]_vars => IInv'
  <2> SUFFICES ASSUME TypeOK, TypeOK', IInv, [Next]_vars PROVE IInv'
    OBVIOUS
  <2> USE DEF IInv, rowVars, r2Vars, webVars, taskVars, histVars
  <2>1. ASSUME NEW j \in Job, PresignUpload(j) \/ PutInput(j) PROVE IInv'
    BY <2>1 DEF TypeOK, PresignUpload, PutInput
  <2>2. ASSUME NEW p \in Post, Lookup(p) \/ Admit(p) \/ StartFails(p) PROVE IInv'
    BY <2>2 DEF TypeOK, Lookup, Admit, Pass, StartFails, Answers
  <2>3. ASSUME NEW p \in Post, Start(p) PROVE IInv'
    BY <2>3 DEF TypeOK, Start
  <2>4. ASSUME NEW p \in Post, Commit(p) PROVE IInv'
    BY <2>4 DEF TypeOK, Commit
  <2>5. ASSUME NEW p \in Post, CommitFails(p) PROVE IInv'
    BY <2>5 DEF TypeOK, CommitFails
  <2>6. ASSUME NEW p \in Post, Extract(p) \/ Convert(p) PROVE IInv'
    BY <2>6 DEF TypeOK, Extract, Convert, Goto
  <2>7. ASSUME NEW p \in Post, MarkRunning(p) PROVE IInv'
    BY <2>7 DEF TypeOK, MarkRunning, Goto
  <2>8. ASSUME NEW p \in Post, Upload(p) PROVE IInv'
    <3>1. stored \subseteq stored' /\ UNCHANGED <<rowVars, uploaded, webVars, live, histVars>>
      BY <2>8 DEF Upload
    <3>2. task' \in {[task EXCEPT ![p] = "finish"], [task EXCEPT ![p] = "except"]}
      BY <2>8 DEF Upload, Goto
    <3>3. task[p] = "upload" /\ (target[p] \in stored' \/ task' = [task EXCEPT ![p] = "except"])
      BY <2>8 DEF Upload, Goto
    <3> QED
      BY <3>1, <3>2, <3>3 DEF TypeOK
  <2>9. ASSUME NEW p \in Post, RecordDone(p) PROVE IInv'
    BY <2>9 DEF TypeOK, RecordDone, Goto
  <2>10. ASSUME NEW p \in Post, RecordFailed(p) PROVE IInv'
    BY <2>10 DEF TypeOK, RecordFailed, Goto
  <2>11. ASSUME NEW p \in Post, WriteFails(p) PROVE IInv'
    BY <2>11 DEF TypeOK, WriteFails, Recording, Goto
  <2>12. ASSUME NEW p \in Post, WriteUnacked(p) PROVE IInv'
    BY <2>12 DEF TypeOK, WriteUnacked, Recording, Goto
  <2>13. ASSUME NEW p \in Post, RecordException(p) PROVE IInv'
    BY <2>13 DEF TypeOK, RecordException, Goto
  <2>14. ASSUME NEW p \in Post, Cleanup(p) PROVE IInv'
    BY <2>14 DEF TypeOK, Cleanup, Goto
  <2>15. CASE Crash
    BY <2>15 DEF TypeOK, Crash, Interrupted
  <2>16. CASE UNCHANGED vars
    BY <2>16 DEF TypeOK, vars
  <2> QED
    BY <2>1, <2>2, <2>3, <2>4, <2>5, <2>6, <2>7, <2>8, <2>9, <2>10, <2>11, <2>12,
       <2>13, <2>14, <2>15, <2>16
    DEF Next, HandlerStep, TaskStep
<1> QED
  BY <1>1, <1>2, TypeCorrect, PTL DEF Spec

(* What presign_download signs always exists in R2, also after crashes,    *)
(* failed writes and overlapping runs of one job.                          *)
THEOREM DownloadsResolve == Spec => []DownloadableIsStored
BY InductiveInvariant, PTL DEF IInv

(* A job in progress has a task that will record its end, or is known to   *)
(* have lost it to a crash or to a failed failure record.                  *)
THEOREM InProgressIsOwned == Spec => []OwnedOrAbandoned
BY InductiveInvariant, PTL DEF IInv

(* A 202 is never taken back.                                              *)
THEOREM AcceptedStays == Spec => []AcceptedIsTaken
BY InductiveInvariant, PTL DEF IInv

(* A transaction that holds a row can always end: the steps that leave     *)
(* "committing" are the steps that release the row, and the task, which    *)
(* waits for rows, never keeps one from one step to the next.              *)
THEOREM NobodyWaitsForever == Spec => []RowLockIsBrief
<1> USE JobsAssumption DEF TypeOK, RowLockIsBrief
<1>1. Init => RowLockIsBrief
  BY DEF Init
<1>2. TypeOK /\ RowLockIsBrief /\ [Next]_vars => RowLockIsBrief'
  <2> SUFFICES ASSUME TypeOK, RowLockIsBrief, [Next]_vars PROVE RowLockIsBrief'
    OBVIOUS
  <2> USE DEF rowVars, webVars
  <2>1. ASSUME NEW j \in Job, PresignUpload(j) \/ PutInput(j) PROVE RowLockIsBrief'
    BY <2>1 DEF PresignUpload, PutInput
  <2>2. ASSUME NEW p \in Post, Lookup(p) \/ Admit(p) \/ StartFails(p)
        PROVE  RowLockIsBrief'
    BY <2>2 DEF Lookup, Admit, Pass, StartFails, Answers
  <2>3. ASSUME NEW p \in Post, Start(p) PROVE RowLockIsBrief'
    BY <2>3 DEF Start
  <2>4. ASSUME NEW p \in Post, Commit(p) \/ CommitFails(p) PROVE RowLockIsBrief'
    BY <2>4 DEF Commit, CommitFails
  <2>5. ASSUME NEW p \in Post, TaskStep(p) PROVE RowLockIsBrief'
    <3>1. UNCHANGED <<rowLock, post, target>>
      BY <2>5 DEF TaskStep, Extract, MarkRunning, Convert, Upload, RecordDone,
         RecordFailed, WriteFails, WriteUnacked, RecordException, Cleanup
    <3> QED
      BY <3>1
  <2>6. CASE Crash
    BY <2>6 DEF Crash
  <2>7. CASE UNCHANGED vars
    BY <2>7 DEF vars
  <2> QED
    BY <2>1, <2>2, <2>3, <2>4, <2>5, <2>6, <2>7 DEF Next, HandlerStep
<1> QED
  BY <1>1, <1>2, TypeCorrect, PTL DEF Spec

-----------------------------------------------------------------------------
(***************************************************************************)
(* Overlapping requests.  Between the test and the registration a request  *)
(* is "admitted"; RaceInv says how two of them can meet.                   *)
(***************************************************************************)
RaceInv ==
  /\ \A p, q \in Post :
       post[p] = "admitted" /\ post[q] = "admitted" => p = q \/ {p, q} \subseteq raced
  /\ \A p \in Post, q \in live : post[p] = "admitted" => {p, q} \subseteq raced
  /\ OnlyRacersOverlap

LEMMA RaceInvariant == Spec => []RaceInv
<1> USE DEF RaceInv, OnlyRacersOverlap
<1>1. Init => RaceInv
  BY DEF Init
<1>2. IInv /\ RaceInv /\ [Next]_vars => RaceInv'
  <2> SUFFICES ASSUME IInv, RaceInv, [Next]_vars PROVE RaceInv'
    OBVIOUS
  <2>0. TypeOK /\ LiveTasks /\ NoTaskYet
    BY DEF IInv
  <2> USE <2>0 DEF TypeOK, rowVars, r2Vars, webVars, taskVars, raceVars, histVars
  <2>1. ASSUME NEW j \in Job, PresignUpload(j) \/ PutInput(j) PROVE RaceInv'
    BY <2>1 DEF PresignUpload, PutInput
  <2>2. ASSUME NEW p \in Post, Lookup(p) \/ StartFails(p) PROVE RaceInv'
    BY <2>2 DEF Lookup, StartFails, Answers
  <2>3. ASSUME NEW p \in Post, Admit(p) PROVE RaceInv'
    <3>1. CASE Pass(p) /\ live = {}
      BY <3>1 DEF Pass, Passing
    <3>2. CASE \E a \in {"500", "402", "429"} : Answers(p, a)
      BY <3>2 DEF Answers
    <3> QED
      BY <2>3, <3>1, <3>2 DEF Admit
  <2>4. ASSUME NEW p \in Post, Start(p) PROVE RaceInv'
    BY <2>4 DEF Start
  <2>5. ASSUME NEW p \in Post, Commit(p) \/ CommitFails(p) PROVE RaceInv'
    BY <2>5 DEF Commit, CommitFails
  <2>6. ASSUME NEW p \in Post, TaskStep(p) PROVE RaceInv'
    <3>1. live' \subseteq live /\ post' = post /\ raced' = raced
      BY <2>6 DEF TaskStep, Extract, MarkRunning, Convert, Upload, RecordDone, RecordFailed,
         WriteFails, WriteUnacked, RecordException, Cleanup
    <3> QED
      BY <3>1
  <2>7. CASE Crash
    BY <2>7 DEF Crash, InHandler
  <2>8. CASE UNCHANGED vars
    BY <2>8 DEF vars
  <2> QED
    BY <2>1, <2>2, <2>3, <2>4, <2>5, <2>6, <2>7, <2>8 DEF Next, HandlerStep
<1> QED
  BY <1>1, <1>2, InductiveInvariant, PTL DEF Spec

(* Two conversions are live at once only if both requests were between the *)
(* test and the registration together: everything else that can happen, a  *)
(* failed commit under a running task or a crash included, keeps the       *)
(* single flight.                                                          *)
THEOREM OverlapNeedsRace == Spec => []OnlyRacersOverlap
BY RaceInvariant, PTL DEF RaceInv

-----------------------------------------------------------------------------
(***************************************************************************)
(* The scratch directory.  A crash may leave a run's output there, but by  *)
(* then the row has left pending for good and nobody will convert into it. *)
(***************************************************************************)
Taken == {"extracting", "running", "done", "failed"}

Converted == {"convert", "upload", "finish", "reject"}

ScratchInv ==
  /\ \A p \in Post : task[p] \in Converted => state[target[p]] \in Taken
  /\ \A j \in Job :
       outDir[j] # {} =>
         /\ state[j] \in Taken
         /\ \/ \E p \in live : target[p] = j
            \/ \A p \in Post : target[p] = j => post[p] \notin InHandler
  /\ \A p \in live :
       target[p] \notin Collided =>
         /\ task[p] \in {"extract", "mark", "convert"} => outDir[target[p]] = {}
         /\ task[p] = "upload" => outDir[target[p]] = {p}
         /\ task[p] = "finish" => artifact[target[p]] = {p}
  /\ ArtifactOfOneRun

(* Two live runs of one job have collided.                                 *)
LEMMA OneRunUnlessCollided ==
  ASSUME TypeOK, RaceInv, NEW p \in live, NEW q \in live,
         target[p] = target[q], target[p] \notin Collided
  PROVE  p = q
BY DEF TypeOK, RaceInv, OnlyRacersOverlap, Collided

LEMMA ScratchInvariant == Spec => []ScratchInv
<1> USE JobsAssumption DEF Taken, Converted
<1>1. Init => ScratchInv
  BY DEF Init, ScratchInv, ArtifactOfOneRun
<1>2. IInv /\ RaceInv /\ RaceInv' /\ IInv' /\ ScratchInv /\ [Next]_vars => ScratchInv'
  <2> SUFFICES ASSUME IInv, RaceInv, RaceInv', IInv', ScratchInv, [Next]_vars
               PROVE  ScratchInv'
    OBVIOUS
  <2>0. TypeOK /\ LiveTasks /\ NoTaskYet /\ LockHeld /\ TypeOK' /\ LiveTasks'
    BY DEF IInv
  <2>a. Collided \subseteq Collided'
    <3>1. raced \subseteq raced' /\ target' = target
      BY <2>0 DEF Next, vars, HandlerStep, TaskStep, PresignUpload, PutInput, Lookup, Admit,
         Pass, Start, StartFails, Commit, CommitFails, Extract, MarkRunning, Convert,
         Upload, RecordDone, RecordFailed, WriteFails, WriteUnacked, RecordException,
         Cleanup, Crash, Answers, rowVars, r2Vars, webVars, taskVars, raceVars, histVars
    <3> QED
      BY <3>1 DEF Collided
  <2>b. ASSUME NEW p \in live, NEW q \in live, target[p] = target[q],
               target[p] \notin Collided
        PROVE  p = q
    BY <2>0, <2>b, OneRunUnlessCollided
  <2>c. ASSUME NEW p \in live', NEW q \in live', target'[p] = target'[q],
               target'[p] \notin Collided'
        PROVE  p = q
    BY <2>0, <2>c DEF TypeOK, RaceInv, OnlyRacersOverlap, Collided
  <2>d. \A p \in Post : task[p] \in Working \cup {"cleanup"} => p \in live
    BY <2>0 DEF LiveTasks
  <2> USE <2>0, <2>a
      DEF ScratchInv, ArtifactOfOneRun, TypeOK, RowState, InHandler, Answer, Working,
          Recording, Goto, rowVars, r2Vars, webVars, taskVars, raceVars, histVars
  <2>1. ASSUME NEW j \in Job, PresignUpload(j) \/ PutInput(j) PROVE ScratchInv'
    BY <2>1 DEF PresignUpload, PutInput
  <2>2. ASSUME NEW p \in Post, Lookup(p) PROVE ScratchInv'
    BY <2>2 DEF Lookup, Answers
  <2>3. ASSUME NEW p \in Post, Admit(p) \/ StartFails(p) PROVE ScratchInv'
    BY <2>3 DEF Admit, Pass, StartFails, Answers
  <2>4. ASSUME NEW p \in Post, Start(p) PROVE ScratchInv'
    <3>1. p \in live' /\ target[p] \in Job /\ post[p] = "admitted"
      BY <2>4 DEF Start
    <3>2. target[p] \notin Collided' => outDir[target[p]] = {}
      BY <2>4, <2>c, <3>1 DEF Start, NoTaskYet, LiveTasks
    <3> QED
      BY <2>4, <3>1, <3>2 DEF Start, NoTaskYet
  <2>5. ASSUME NEW p \in Post, Commit(p) \/ CommitFails(p) PROVE ScratchInv'
    BY <2>5 DEF Commit, CommitFails
  <2>6. ASSUME NEW p \in Post, Extract(p) PROVE ScratchInv'
    BY <2>6 DEF Extract
  <2>7. ASSUME NEW p \in Post, MarkRunning(p) PROVE ScratchInv'
    BY <2>7 DEF MarkRunning
  <2>8. ASSUME NEW p \in Post, Convert(p) PROVE ScratchInv'
    BY <2>8, <2>b, <2>d DEF Convert
  <2>9. ASSUME NEW p \in Post, Upload(p) PROVE ScratchInv'
    <3>1. p \in live /\ target[p] \in Job /\ task[p] = "upload"
      BY <2>9, <2>d DEF Upload
    <3>2. UNCHANGED <<state, outDir, live, post, target, raced>>
      BY <2>9 DEF Upload
    <3>3. CASE Goto(p, "except") /\ UNCHANGED <<stored, artifact>>
      BY <3>1, <3>2, <3>3
    <3>4. CASE Goto(p, "finish") /\ artifact' = [artifact EXCEPT ![target[p]] = outDir[target[p]]]
      <4>1. \A q \in live : target[q] \notin Collided /\ target[q] = target[p] => q = p
        BY <2>b, <3>1
      <4>2. target[p] \notin Collided => artifact'[target[p]] = {p}
        BY <3>1, <3>4
      <4> QED
        BY <3>1, <3>2, <3>4, <4>1, <4>2
    <3> QED
      BY <2>9, <3>3, <3>4 DEF Upload
  <2>10. ASSUME NEW p \in Post, RecordDone(p) \/ RecordFailed(p) PROVE ScratchInv'
    BY <2>10, <2>d DEF RecordDone, RecordFailed
  <2>11. ASSUME NEW p \in Post, WriteFails(p) PROVE ScratchInv'
    BY <2>11 DEF WriteFails
  <2>12. ASSUME NEW p \in Post, WriteUnacked(p) PROVE ScratchInv'
    BY <2>12, <2>d DEF WriteUnacked
  <2>13. ASSUME NEW p \in Post, RecordException(p) PROVE ScratchInv'
    BY <2>13 DEF RecordException
  <2>14. ASSUME NEW p \in Post, Cleanup(p) PROVE ScratchInv'
    BY <2>14, <2>b, <2>d DEF Cleanup
  <2>15. CASE Crash
    BY <2>15 DEF Crash, LiveTasks
  <2>16. CASE UNCHANGED vars
    BY <2>16 DEF vars, Collided
  <2> QED
    BY <2>1, <2>2, <2>3, <2>4, <2>5, <2>6, <2>7, <2>8, <2>9, <2>10, <2>11, <2>12, <2>13,
       <2>14, <2>15, <2>16
    DEF Next, HandlerStep, TaskStep
<1> QED
  BY <1>1, <1>2, InductiveInvariant, RaceInvariant, PTL DEF Spec

(* The object behind a done job is the complete output of exactly one run, *)
(* through failed writes, crashes and stale requests, unless two requests  *)
(* raced for the job itself.                                               *)
THEOREM ArtifactIsOneRun == Spec => []ArtifactOfOneRun
BY ScratchInvariant, PTL DEF ScratchInv

-----------------------------------------------------------------------------
(***************************************************************************)
(* A request that is still in the handler when another one's 202 is given  *)
(* for its job has been overtaken: the row has left pending by then.       *)
(***************************************************************************)
AcceptInv ==
  /\ \A p, q \in Post :
       post[p] = "202" /\ post[q] \in InHandler /\ target[p] = target[q]
       => q \in overtaken
  /\ AcceptedOnce

(* A job is accepted once: every further 202 for it goes to a request that *)
(* had read the row before the first commit.                               *)
THEOREM AcceptedOnceOnly == Spec => []AcceptedOnce
<1>1. Init => AcceptInv
  BY DEF Init, AcceptInv, AcceptedOnce, InHandler
<1>2. IInv /\ AcceptInv /\ [Next]_vars => AcceptInv'
  <2> SUFFICES ASSUME IInv, AcceptInv, [Next]_vars PROVE AcceptInv'
    OBVIOUS
  <2>0. TypeOK /\ AcceptedIsTaken
    BY DEF IInv
  <2> USE <2>0 DEF TypeOK, AcceptedIsTaken, AcceptInv, AcceptedOnce, InHandler, Answer,
                   rowVars, r2Vars, webVars, taskVars, raceVars, histVars
  <2>1. ASSUME NEW j \in Job, PresignUpload(j) \/ PutInput(j) PROVE AcceptInv'
    BY <2>1 DEF PresignUpload, PutInput
  <2>2. ASSUME NEW p \in Post, Lookup(p) PROVE AcceptInv'
    BY <2>2 DEF Lookup, Answers
  <2>3. ASSUME NEW p \in Post, Admit(p) \/ StartFails(p) \/ Start(p) \/ CommitFails(p)
        PROVE  AcceptInv'
    BY <2>3 DEF Admit, Pass, StartFails, Answers, Start, CommitFails
  <2>4. ASSUME NEW p \in Post, Commit(p) PROVE AcceptInv'
    BY <2>4 DEF Commit
  <2>5. ASSUME NEW p \in Post, TaskStep(p) PROVE AcceptInv'
    <3>1. post' = post /\ target' = target /\ overtaken' = overtaken
      BY <2>5 DEF TaskStep, Extract, MarkRunning, Convert, Upload, RecordDone, RecordFailed,
         WriteFails, WriteUnacked, RecordException, Cleanup
    <3> QED
      BY <3>1
  <2>6. CASE Crash
    BY <2>6 DEF Crash
  <2>7. CASE UNCHANGED vars
    BY <2>7 DEF vars
  <2> QED
    BY <2>1, <2>2, <2>3, <2>4, <2>5, <2>6, <2>7 DEF Next, HandlerStep
<1> QED
  BY <1>1, <1>2, InductiveInvariant, PTL DEF Spec, AcceptInv

-----------------------------------------------------------------------------
(***************************************************************************)
(* The life of a job that meets no failed write, no crash and no overtaken *)
(* request: each stage of its one run sees the row as the stage before it  *)
(* has left it, whatever the requests for other jobs do.                   *)
(***************************************************************************)
Excused == faulted \cup {target[p] : p \in overtaken}

(* A task belongs to a request that has committed or still will.           *)
TaskHasRequest ==
  \A p \in Post :
    /\ task[p] # "none" => post[p] \in {"committing", "202"} \/ target[p] \in faulted
    /\ post[p] \in {"committing", "202"} => task[p] # "none"

AbandonedIsFaulted == abandoned \subseteq faulted

(* The row has not moved since the request read it.                        *)
StillPending ==
  \A p \in Post :
    post[p] \in InHandler /\ target[p] \notin Excused => state[target[p]] = "pending"

OneRun ==
  \A p, q \in Post :
    /\ task[p] # "none" /\ task[q] # "none"
    /\ target[p] = target[q] /\ target[p] \notin Excused
    => p = q

RowFollowsTask ==
  \A p \in Post :
    target[p] \notin Excused =>
      /\ task[p] \in {"extract", "mark"} /\ post[p] = "202"
           => state[target[p]] = "extracting"
      /\ task[p] \in {"convert", "upload", "finish", "reject"}
           => state[target[p]] = "running"
      /\ task[p] = "except" /\ post[p] = "202"
           => state[target[p]] \in {"extracting", "running"}
      /\ task[p] \in {"cleanup", "ended", "lost"}
           => state[target[p]] \in Terminal

CleanInv ==
  /\ TaskHasRequest
  /\ AbandonedIsFaulted
  /\ StillPending
  /\ OneRun
  /\ RowFollowsTask

LEMMA CleanInvariant == Spec => []CleanInv
<1> USE JobsAssumption
    DEF InHandler, Working, Terminal, CleanInv, TaskHasRequest, AbandonedIsFaulted,
        StillPending, OneRun, RowFollowsTask, Excused
<1>1. Init => CleanInv
  BY DEF Init
<1>2. IInv /\ CleanInv /\ [Next]_vars => CleanInv'
  <2> SUFFICES ASSUME IInv, CleanInv, [Next]_vars PROVE CleanInv'
    OBVIOUS
  <2>0. TypeOK /\ NoTaskYet /\ LockHeld /\ AcceptedIsTaken /\ CommittingOwned
        /\ LiveTasks
    BY DEF IInv
  <2> USE <2>0
      DEF TypeOK, NoTaskYet, LockHeld, AcceptedIsTaken, CommittingOwned, LiveTasks,
          Answer, Recording, Goto, rowVars, r2Vars, webVars, taskVars, raceVars, histVars
  <2>1. ASSUME NEW j \in Job, PresignUpload(j) \/ PutInput(j) PROVE CleanInv'
    BY <2>1 DEF PresignUpload, PutInput
  <2>2. ASSUME NEW p \in Post, Lookup(p) PROVE CleanInv'
    BY <2>2 DEF Lookup, Answers
  <2>3. ASSUME NEW p \in Post, Admit(p) \/ StartFails(p) PROVE CleanInv'
    BY <2>3 DEF Admit, Pass, StartFails, Answers
  <2>4. ASSUME NEW p \in Post, Start(p) PROVE CleanInv'
    BY <2>4 DEF Start
  <2>5. ASSUME NEW p \in Post, Commit(p) PROVE CleanInv'
    BY <2>5 DEF Commit
  <2>6. ASSUME NEW p \in Post, CommitFails(p) PROVE CleanInv'
    BY <2>6 DEF CommitFails
  <2>7. ASSUME NEW p \in Post, Extract(p) PROVE CleanInv'
    BY <2>7 DEF Extract
  <2>8. ASSUME NEW p \in Post, MarkRunning(p) PROVE CleanInv'
    BY <2>8 DEF MarkRunning
  <2>9. ASSUME NEW p \in Post, Convert(p) PROVE CleanInv'
    BY <2>9 DEF Convert
  <2>10. ASSUME NEW p \in Post, Upload(p) PROVE CleanInv'
    BY <2>10 DEF Upload
  <2>11. ASSUME NEW p \in Post, RecordDone(p) PROVE CleanInv'
    BY <2>11 DEF RecordDone
  <2>12. ASSUME NEW p \in Post, RecordFailed(p) PROVE CleanInv'
    BY <2>12 DEF RecordFailed
  <2>13. ASSUME NEW p \in Post, WriteFails(p) PROVE CleanInv'
    BY <2>13 DEF WriteFails
  <2>14. ASSUME NEW p \in Post, WriteUnacked(p) PROVE CleanInv'
    BY <2>14 DEF WriteUnacked
  <2>15. ASSUME NEW p \in Post, RecordException(p) PROVE CleanInv'
    BY <2>15 DEF RecordException
  <2>16. ASSUME NEW p \in Post, Cleanup(p) PROVE CleanInv'
    BY <2>16 DEF Cleanup
  <2>17. CASE Crash
    BY <2>17 DEF Crash, Interrupted
  <2>18. CASE UNCHANGED vars
    BY <2>18 DEF vars
  <2> QED
    BY <2>1, <2>2, <2>3, <2>4, <2>5, <2>6, <2>7, <2>8, <2>9, <2>10, <2>11, <2>12,
       <2>13, <2>14, <2>15, <2>16, <2>17, <2>18
    DEF Next, HandlerStep, TaskStep
<1> QED
  BY <1>1, <1>2, InductiveInvariant, PTL DEF Spec

-----------------------------------------------------------------------------
(* The implementation refines the promise made to the client that polls,   *)
(* with overlapping requests, failed writes and crashes.                   *)
THEOREM ImplementsLifecycle == Spec => KeepsLifecycle
<1> USE JobsAssumption DEF Lifecycle!vars
<1>1. Init => Lifecycle!Init
  BY DEF Init, Lifecycle!Init
<1>2. IInv /\ RaceInv /\ CleanInv /\ [Next]_vars => [Lifecycle!Next]_(Lifecycle!vars)
  <2> SUFFICES ASSUME IInv, RaceInv, CleanInv, [Next]_vars
               PROVE  [Lifecycle!Next]_(Lifecycle!vars)
    OBVIOUS
  <2> DEFINE slot == {target[p] : p \in live}
             racing == {target[p] : p \in raced}
  <2>0. /\ TypeOK /\ LiveTasks /\ LockHeld /\ CommittingOwned /\ UploadedFirst
        /\ TaskHasRequest /\ AbandonedIsFaulted /\ StillPending /\ RowFollowsTask
    BY DEF IInv, CleanInv
  <2>a. ASSUME NEW p \in Post, task[p] \in Working \cup {"cleanup"}
        PROVE  p \in live /\ target[p] \in slot
    BY <2>a, <2>0 DEF LiveTasks
  <2>b. ASSUME NEW p \in Post, task[p] \in Working, rowLock[target[p]] = NoPost,
               target[p] \notin Excused
        PROVE  post[p] = "202"
    BY <2>b, <2>0 DEF TaskHasRequest, LockHeld, Working, Excused
  <2> USE DEF rowVars, r2Vars, webVars, taskVars, raceVars, histVars
  <2>1. ASSUME NEW j \in Job, PresignUpload(j) PROVE Lifecycle!Create(j)
    BY <2>1, <2>0 DEF PresignUpload, Lifecycle!Create, TypeOK
  <2>2. ASSUME NEW j \in Job, PutInput(j) PROVE UNCHANGED Lifecycle!vars
    BY <2>2 DEF PutInput
  <2>3. ASSUME NEW p \in Post, Lookup(p) \/ StartFails(p) PROVE UNCHANGED Lifecycle!vars
    BY <2>3 DEF Lookup, StartFails, Answers
  <2>4. ASSUME NEW p \in Post, Admit(p)
        PROVE  UNCHANGED Lifecycle!vars \/ \E S \in SUBSET Job : Lifecycle!Race(S)
    <3>1. CASE \E a \in {"500", "402", "429"} : Answers(p, a)
      BY <3>1 DEF Answers
    <3>2. CASE Pass(p) /\ live = {} /\ Passing = {}
      BY <3>2 DEF Pass
    <3>3. CASE Pass(p) /\ live = {} /\ Passing # {}
      <4>1. {target[q] : q \in Passing \cup {p}} \in SUBSET Job
        BY <2>0 DEF Passing, TypeOK
      <4> PICK S \in SUBSET Job : S = {target[q] : q \in Passing \cup {p}}
        BY <4>1
      <4>2. racing' = racing \cup S
        BY <3>3 DEF Pass
      <4>3. Lifecycle!Race(S)
        BY <3>3, <4>2 DEF Pass, Lifecycle!Race
      <4> QED
        BY <4>3
    <3> QED
      BY <2>4, <3>1, <3>2, <3>3 DEF Admit
  <2>5. ASSUME NEW p \in Post, NEW j \in Job, j = target[p], Start(p)
        PROVE  Lifecycle!Take(j)
    <3>1. slot = {} \/ slot \cup {j} \subseteq racing
      BY <2>5, <2>0 DEF Start, RaceInv, TypeOK
    <3>2. slot' = slot \cup {j}
      BY <2>5 DEF Start
    <3>3. state[j] = "pending" \/ j \in Excused
      BY <2>5, <2>0 DEF Start, StillPending, InHandler
    <3> QED
      BY <3>1, <3>2, <3>3, <2>5 DEF Start, Excused, Lifecycle!Take
  <2>6. ASSUME NEW p \in Post, NEW j \in Job, j = target[p], Commit(p)
        PROVE  Lifecycle!Advance(j, "extracting")
    <3> DEFINE O == {q \in Post \ {p} : target[q] = j /\ post[q] \in InHandler}
    <3>1. Excused' \in {Excused, Excused \cup {j}}
      <4>1. CASE O = {}
        BY <4>1, <2>6 DEF Commit, Excused
      <4>2. CASE O # {}
        <5>1. {target[q] : q \in overtaken \cup O} = {target[q] : q \in overtaken} \cup {j}
          BY <4>2
        <5> QED
          BY <5>1, <2>6 DEF Commit, Excused
      <4> QED
        BY <4>1, <4>2
    <3>2. j \in Excused \/ (j \in slot /\ state[j] = "pending")
      BY <2>6, <2>0, <2>a
      DEF Commit, CommittingOwned, AbandonedIsFaulted, StillPending, InHandler, Excused
    <3>3. UNCHANGED <<slot, racing, stored>> /\ state' = [state EXCEPT ![j] = "extracting"]
      BY <2>6 DEF Commit
    <3> HIDE DEF O, slot, racing
    <3> QED
      BY <3>1, <3>2, <3>3 DEF Lifecycle!Advance, Lifecycle!Forward, Excused, slot, racing
  <2>7. ASSUME NEW p \in Post, NEW j \in Job, j = target[p], CommitFails(p)
        PROVE  Lifecycle!Fault(j) \/ Lifecycle!Advance(j, "extracting")
    <3>1. CASE state' = [state EXCEPT ![target[p]] = state[target[p]]]
      BY <3>1, <2>7, <2>0 DEF CommitFails, Lifecycle!Fault, TypeOK
    <3>2. CASE state' = [state EXCEPT ![target[p]] = "extracting"]
      BY <3>2, <2>7 DEF CommitFails, Lifecycle!Advance
    <3> QED
      BY <3>1, <3>2, <2>7 DEF CommitFails
  <2>8. ASSUME NEW p \in Post, Extract(p) \/ Convert(p) PROVE UNCHANGED Lifecycle!vars
    BY <2>8 DEF Extract, Convert
  <2>9. ASSUME NEW p \in Post, NEW j \in Job, j = target[p], MarkRunning(p)
        PROVE  Lifecycle!Advance(j, "running")
    <3>1. j \in slot
      BY <2>9, <2>a DEF MarkRunning, Working
    <3>2. j \in Excused \/ state[j] = "extracting"
      BY <2>9, <2>b, <2>0 DEF MarkRunning, Working, RowFollowsTask
    <3> QED
      BY <3>1, <3>2, <2>9 DEF MarkRunning, Excused, Lifecycle!Advance, Lifecycle!Forward
  <2>10. ASSUME NEW p \in Post, NEW j \in Job, j = target[p], Upload(p)
        PROVE  Lifecycle!Publish(j) \/ UNCHANGED Lifecycle!vars
    <3>1. j \in slot
      BY <2>10, <2>a DEF Upload, Working
    <3>2. j \in Excused \/ state[j] = "running"
      BY <2>10, <2>0 DEF Upload, RowFollowsTask
    <3> QED
      BY <3>1, <3>2, <2>10 DEF Upload, Excused, Lifecycle!Publish
  <2>11. ASSUME NEW p \in Post, NEW j \in Job, j = target[p], RecordDone(p)
        PROVE  Lifecycle!Advance(j, "done")
    <3>1. j \in slot /\ j \in stored
      BY <2>11, <2>a, <2>0 DEF RecordDone, Working, UploadedFirst
    <3>2. j \in Excused \/ state[j] = "running"
      BY <2>11, <2>0 DEF RecordDone, RowFollowsTask
    <3> QED
      BY <3>1, <3>2, <2>11 DEF RecordDone, Excused, Lifecycle!Advance, Lifecycle!Forward
  <2>12. ASSUME NEW p \in Post, NEW j \in Job, j = target[p], RecordFailed(p)
        PROVE  Lifecycle!Advance(j, "failed")
    <3>1. j \in slot
      BY <2>12, <2>a DEF RecordFailed, Working
    <3>2. j \in Excused \/ state[j] = "running"
      BY <2>12, <2>0 DEF RecordFailed, RowFollowsTask
    <3> QED
      BY <3>1, <3>2, <2>12 DEF RecordFailed, Excused, Lifecycle!Advance, Lifecycle!Forward
  <2>13. ASSUME NEW p \in Post, NEW j \in Job, j = target[p], WriteFails(p)
        PROVE  Lifecycle!Fault(j)
    BY <2>13 DEF WriteFails, Lifecycle!Fault
  <2>14. ASSUME NEW p \in Post, NEW j \in Job, j = target[p], WriteUnacked(p)
         PROVE  \E s \in {"running", "done", "failed"} : Lifecycle!Advance(j, s)
    <3>1. task[p] = "finish" => target[p] \in stored
      BY <2>0 DEF UploadedFirst
    <3>2. CASE task[p] = "mark"
      BY <3>2, <2>14 DEF WriteUnacked, Lifecycle!Advance
    <3>3. CASE task[p] = "finish"
      BY <3>1, <3>3, <2>14 DEF WriteUnacked, Lifecycle!Advance
    <3>4. CASE task[p] = "reject"
      BY <3>4, <2>14 DEF WriteUnacked, Lifecycle!Advance
    <3> QED
      BY <3>2, <3>3, <3>4, <2>14 DEF WriteUnacked, Recording
  <2>15. ASSUME NEW p \in Post, NEW j \in Job, j = target[p], RecordException(p)
         PROVE  Lifecycle!Fault(j) \/ Lifecycle!Advance(j, "failed")
    <3>1. j \in slot
      BY <2>15, <2>a DEF RecordException, Working
    <3>2. rowLock[j] = NoPost => j \in Excused \/ state[j] \in {"extracting", "running"}
      BY <2>15, <2>b, <2>0 DEF RecordException, Working, RowFollowsTask
    <3> QED
      BY <3>1, <3>2, <2>15
      DEF RecordException, Excused, Lifecycle!Fault, Lifecycle!Advance, Lifecycle!Forward
  <2>16. ASSUME NEW p \in Post, NEW S \in SUBSET Job, S = {target[p]}, Cleanup(p)
        PROVE  UNCHANGED Lifecycle!vars \/ Lifecycle!Release(S)
    <3>1. target[p] \in slot /\ slot' \in {slot, slot \ S}
      BY <2>16, <2>a DEF Cleanup
    <3>2. target[p] \in Excused \/ state[target[p]] \in Terminal
      BY <2>16, <2>0 DEF Cleanup, RowFollowsTask
    <3>3. UNCHANGED <<state, stored, racing, Excused>>
      BY <2>16 DEF Cleanup, Excused
    <3>4. CASE slot' = slot
      BY <3>3, <3>4 DEF Excused
    <3>5. CASE slot' = slot \ S
      <4>1. \E F \in SUBSET S : Excused' = Excused \cup F
        BY <3>3, {} \in SUBSET S
      <4> QED
        BY <2>16, <3>1, <3>2, <3>3, <3>5, <4>1
        DEF Terminal, Excused, Lifecycle!Release, Lifecycle!Ended
    <3> QED
      BY <3>1, <3>4, <3>5
  <2>17. CASE Crash
    <3>1. slot' = slot \ slot
      BY <2>17 DEF Crash
    <3>2. Interrupted \subseteq slot
      BY <2>a DEF Interrupted
    <3>3. Excused' = Excused \cup Interrupted
      BY <2>17 DEF Crash, Excused
    <3>4. \A j \in slot : state[j] \in Terminal \/ j \in Excused'
      <4> TAKE j \in slot
      <4> PICK p \in live : j = target[p]
        OBVIOUS
      <4>1. p \in Post /\ task[p] \in Working \cup {"cleanup"}
        BY <2>0 DEF LiveTasks, TypeOK
      <4>2. j \in Interrupted \/ j \in Excused \/ state[j] \in Terminal
        BY <4>1, <2>0 DEF Interrupted, RowFollowsTask
      <4> QED
        BY <4>2, <3>3
    <3>5. UNCHANGED <<state, stored, racing>>
      BY <2>17 DEF Crash
    <3>6. slot \in SUBSET Job
      BY <2>0 DEF TypeOK
    <3> PICK S \in SUBSET Job : S = slot
      BY <3>6
    <3>7. Lifecycle!Release(S)
      BY <3>1, <3>2, <3>3, <3>4, <3>5
      DEF Terminal, Excused, Lifecycle!Release, Lifecycle!Ended
    <3> HIDE DEF slot
    <3> QED
      BY <3>7 DEF Lifecycle!Next
  <2>18. CASE UNCHANGED vars
    BY <2>18 DEF vars
  <2>19. ASSUME NEW p \in Post PROVE target[p] \in Job
    BY <2>0 DEF TypeOK
  <2> HIDE DEF Lifecycle!vars, slot, racing
  <2>20. ASSUME NEW p \in Post, HandlerStep(p) PROVE [Lifecycle!Next]_(Lifecycle!vars)
    <3> PICK j \in Job : j = target[p]
      BY <2>19
    <3> QED
      BY <2>20, <2>3, <2>4, <2>5, <2>6, <2>7 DEF HandlerStep, Lifecycle!Next
  <2>21. ASSUME NEW p \in Post, TaskStep(p) PROVE [Lifecycle!Next]_(Lifecycle!vars)
    <3> PICK j \in Job : j = target[p]
      BY <2>19
    <3>1. Cleanup(p) =>
            UNCHANGED Lifecycle!vars \/ \E S \in SUBSET Job : Lifecycle!Release(S)
      <4>1. {target[p]} \in SUBSET Job
        BY <2>19
      <4> PICK S \in SUBSET Job : S = {target[p]}
        BY <4>1
      <4> QED
        BY <2>16
    <3> QED
      BY <2>21, <2>8, <2>9, <2>10, <2>11, <2>12, <2>13, <2>14, <2>15, <3>1
      DEF TaskStep, Lifecycle!Next
  <2>22. ASSUME NEW j \in Job, PresignUpload(j) \/ PutInput(j)
         PROVE  [Lifecycle!Next]_(Lifecycle!vars)
    BY <2>22, <2>1, <2>2 DEF Lifecycle!Next
  <2> QED
    BY <2>3, <2>17, <2>18, <2>20, <2>21, <2>22 DEF Next
<1> QED
  BY <1>1, <1>2, InductiveInvariant, RaceInvariant, CleanInvariant, PTL
  DEF Spec, KeepsLifecycle, Lifecycle!Spec

(* What the lifecycle is worth: a job that is not excused is in progress   *)
(* only while it holds the converter, a job that was not let in together   *)
(* with another holds it alone, and a done job has its object.             *)
THEOREM LifecycleIsOrderly ==
  KeepsLifecycle =>
    []\A j \in Job :
        /\ state[j] \in InProgress /\ j \notin Excused => \E p \in live : target[p] = j
        /\ (\E p \in live : target[p] = j) /\ (\A p \in raced : target[p] # j)
             => {target[p] : p \in live} = {j}
        /\ state[j] = "done" => j \in stored
<1> DEFINE slot == {target[p] : p \in live}
           racing == {target[p] : p \in raced}
           OrderInv ==
             /\ state \in [Job -> RowState]
             /\ \A i \in slot : i \notin racing => slot = {i}
             /\ \A j \in Job :
                  /\ state[j] \in InProgress /\ j \notin Excused => j \in slot
                  /\ state[j] = "done" => j \in stored
<1> USE DEF RowState, InProgress
<1>1. Lifecycle!Init => OrderInv
  BY DEF Lifecycle!Init
<1>2. OrderInv /\ [Lifecycle!Next]_(Lifecycle!vars) => OrderInv'
  <2> SUFFICES ASSUME OrderInv, [Lifecycle!Next]_(Lifecycle!vars) PROVE OrderInv'
    OBVIOUS
  <2> HIDE DEF slot, racing
  <2> USE DEF Excused
  <2>1. ASSUME NEW j \in Job, Lifecycle!Create(j) PROVE OrderInv'
    BY <2>1 DEF Lifecycle!Create, slot, racing
  <2>2. ASSUME NEW j \in Job, Lifecycle!Take(j) PROVE OrderInv'
    BY <2>2 DEF Lifecycle!Take, slot, racing
  <2>3. ASSUME NEW j \in Job, Lifecycle!Publish(j) \/ Lifecycle!Fault(j) PROVE OrderInv'
    BY <2>3 DEF Lifecycle!Publish, Lifecycle!Fault, slot, racing
  <2>4. ASSUME NEW S \in SUBSET Job, Lifecycle!Race(S) PROVE OrderInv'
    <3>1. slot = {} /\ slot' = slot /\ UNCHANGED <<state, stored, Excused>>
      BY <2>4 DEF Lifecycle!Race, slot
    <3> HIDE DEF Excused
    <3> QED
      BY <3>1
  <2>5. ASSUME NEW S \in SUBSET Job, Lifecycle!Release(S) PROVE OrderInv'
    <3>1. /\ slot' = slot \ S /\ Excused \subseteq Excused'
          /\ UNCHANGED <<state, stored, racing>>
          /\ \A j \in S : state[j] \in {"done", "failed"} \/ j \in Excused'
      BY <2>5 DEF Lifecycle!Release, Lifecycle!Ended, slot, racing
    <3> HIDE DEF Excused
    <3> QED
      BY <3>1
  <2>6. ASSUME NEW j \in Job, NEW s \in {"extracting", "running", "done", "failed"},
               Lifecycle!Advance(j, s)
        PROVE  OrderInv'
    BY <2>6 DEF Lifecycle!Advance, Lifecycle!Forward, slot, racing
  <2>7. CASE UNCHANGED Lifecycle!vars
    BY <2>7 DEF Lifecycle!vars, slot, racing
  <2> QED
    BY <2>1, <2>2, <2>3, <2>4, <2>5, <2>6, <2>7 DEF Lifecycle!Next
<1>3. OrderInv =>
        \A j \in Job :
          /\ state[j] \in InProgress /\ j \notin Excused => \E p \in live : target[p] = j
          /\ (\E p \in live : target[p] = j) /\ (\A p \in raced : target[p] # j)
               => {target[p] : p \in live} = {j}
          /\ state[j] = "done" => j \in stored
  OBVIOUS
<1> QED
  BY <1>1, <1>2, <1>3, PTL DEF KeepsLifecycle, Lifecycle!Spec
=============================================================================
