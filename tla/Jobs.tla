-------------------------------- MODULE Jobs --------------------------------
(***************************************************************************)
(* Conversion jobs: the HTTP handlers of app/api/jobs.py, the background   *)
(* task that runs a conversion, the org-scoped row of app/db/job_store.py  *)
(* and the per-request transaction of app/db/session.py.                   *)
(*                                                                         *)
(* One uvicorn worker runs everything on one event loop, so a step below   *)
(* is what happens between two awaits.  A POST /jobs request is an element *)
(* of Post; the background task it may start carries the same name, since  *)
(* a request starts at most one.  The database is READ COMMITTED: state[j] *)
(* is the committed row, and an uncommitted UPDATE holds rowLock[j].       *)
(***************************************************************************)
EXTENDS FiniteSets, Naturals

CONSTANTS
  Job,         \* the jobs rows that presign-upload may create
  Post,        \* the POST /jobs requests that may arrive
  NoPost,      \* "no request", a model value
  MaxCrashes   \* bound on worker crashes and redeploys

ASSUME JobsAssumption ==
  /\ NoPost \notin Post
  /\ MaxCrashes \in Nat

VARIABLES
  state,       \* committed jobs.state, "absent" before the row exists
  outputUri,   \* jobs whose committed output_uri is set
  rowLock,     \* request whose uncommitted UPDATE locks the row, or NoPost
  uploaded,    \* jobs whose input object is in R2
  stored,      \* jobs whose output object is in R2
  artifact,    \* runs whose output went into the stored object
  outDir,      \* runs whose output is in the job's scratch directory
  post,        \* where each request's handler is, or what it answered
  target,      \* the job a request names
  task,        \* where each background task is
  live,        \* _live_bg_tasks
  raced,       \* history: requests past the single-flight test with another
  overtaken,   \* history: requests whose job was taken after they had read it
  faulted,     \* history: a write of the job failed or a crash struck its run
  abandoned,   \* history: the run ended without its terminal write
  crashes      \* history: crashes so far

rowVars  == <<state, outputUri, rowLock>>
r2Vars   == <<uploaded, stored, artifact>>
webVars  == <<post, target>>
taskVars == <<task, live, outDir>>
raceVars == <<raced, overtaken>>
histVars == <<raceVars, faulted, abandoned, crashes>>
vars     == <<rowVars, r2Vars, webVars, taskVars, histVars>>

RowState   == {"absent", "pending", "extracting", "running", "done", "failed"}
InProgress == {"extracting", "running"}
Terminal   == {"done", "failed"}

InHandler  == {"gate", "admitted", "committing"}
Answer     == {"202", "402", "404", "409", "429", "500", "lost"}
Working    == {"extract", "mark", "convert", "upload", "finish", "reject", "except"}
Recording  == {"mark", "finish", "reject"}

TypeOK ==
  /\ state \in [Job -> RowState]
  /\ outputUri \in SUBSET Job
  /\ rowLock \in [Job -> Post \cup {NoPost}]
  /\ uploaded \in SUBSET Job
  /\ stored \in SUBSET Job
  /\ artifact \in [Job -> SUBSET Post]
  /\ outDir \in [Job -> SUBSET Post]
  /\ post \in [Post -> {"idle"} \cup InHandler \cup Answer]
  /\ target \in [Post -> Job]
  /\ task \in [Post -> {"none", "cleanup", "ended", "lost"} \cup Working]
  /\ live \in SUBSET Post
  /\ raced \in SUBSET Post
  /\ overtaken \in SUBSET Post
  /\ faulted \in SUBSET Job
  /\ abandoned \in SUBSET Job
  /\ crashes \in 0..MaxCrashes

Init ==
  /\ state = [j \in Job |-> "absent"]
  /\ outputUri = {}
  /\ rowLock = [j \in Job |-> NoPost]
  /\ uploaded = {}
  /\ stored = {}
  /\ artifact = [j \in Job |-> {}]
  /\ outDir = [j \in Job |-> {}]
  /\ post = [p \in Post |-> "idle"]
  /\ target \in [Post -> Job]
  /\ task = [p \in Post |-> "none"]
  /\ live = {}
  /\ raced = {}
  /\ overtaken = {}
  /\ faulted = {}
  /\ abandoned = {}
  /\ crashes = 0

-----------------------------------------------------------------------------
(***************************************************************************)
(* The client's first two steps.  presign_upload inserts the row, signs    *)
(* the PUT URL and stores input_uri in one transaction: when any of them   *)
(* fails the row does not exist.  The browser then PUTs to R2 on its own,  *)
(* and may never do so.                                                    *)
(***************************************************************************)
PresignUpload(j) ==
  /\ state[j] = "absent"
  /\ state' = [state EXCEPT ![j] = "pending"]
  /\ UNCHANGED <<outputUri, rowLock, r2Vars, webVars, taskVars, histVars>>

PutInput(j) ==
  /\ state[j] # "absent"
  /\ j \notin uploaded
  /\ uploaded' = uploaded \cup {j}
  /\ UNCHANGED <<rowVars, stored, artifact, webVars, taskVars, histVars>>

-----------------------------------------------------------------------------
(***************************************************************************)
(* create_job.  answers(p, a) ends the handler without a write.            *)
(***************************************************************************)
Answers(p, a) ==
  /\ post' = [post EXCEPT ![p] = a]
  /\ UNCHANGED <<rowVars, r2Vars, target, taskVars, histVars>>

(* Fault seeded for the checks: the 409 guard is dropped.                  *)
LookupAnyState(p) ==
  /\ post[p] = "idle"
  /\ \/ state[target[p]] = "absent" /\ Answers(p, "404")
     \/ state[target[p]] # "absent" /\ Answers(p, "gate")

(* The org-scoped read and the three guards on the row it returns.  A row  *)
(* that is past "absent" always has its input_uri.                         *)
Lookup(p) ==
  /\ post[p] = "idle"
  /\ \/ state[target[p]] = "absent" /\ Answers(p, "404")
     \/ state[target[p]] \notin {"absent", "pending"} /\ Answers(p, "409")
     \/ state[target[p]] = "pending" /\ Answers(p, "gate")

(* The request goes on to its UPDATE.  raced remembers whom it met there:   *)
(* those that have passed the test and have not registered a task yet.     *)
Passing == {q \in Post : post[q] = "admitted"}

Pass(p) ==
  /\ post' = [post EXCEPT ![p] = "admitted"]
  /\ raced' = IF Passing = {} THEN raced ELSE raced \cup Passing \cup {p}
  /\ UNCHANGED <<rowVars, r2Vars, target, taskVars, overtaken, faulted, abandoned,
                 crashes>>

(* Fault seeded for the checks: no single-flight test.                     *)
AdmitBusy(p) ==
  /\ post[p] = "gate"
  /\ Answers(p, "500") \/ Answers(p, "402") \/ Pass(p)

(* The organisation and its monthly cap are read first (500, 402); the     *)
(* single-flight test comes after those awaits.                            *)
Admit(p) ==
  /\ post[p] = "gate"
  /\ \/ Answers(p, "500")
     \/ Answers(p, "402")
     \/ live # {} /\ Answers(p, "429")
     \/ live = {} /\ Pass(p)

(* UPDATE jobs SET state = extracting, which waits for the row's lock, then *)
(* create_task and _live_bg_tasks.add, with the transaction still open.    *)
Start(p) ==
  LET j == target[p] IN
  /\ post[p] = "admitted"
  /\ rowLock[j] = NoPost
  /\ rowLock' = [rowLock EXCEPT ![j] = p]
  /\ task' = [task EXCEPT ![p] = "extract"]
  /\ live' = live \cup {p}
  /\ post' = [post EXCEPT ![p] = "committing"]
  /\ UNCHANGED <<state, outputUri, r2Vars, target, outDir, histVars>>

StartFails(p) ==
  /\ post[p] = "admitted"
  /\ Answers(p, "500")

(* Fault seeded for the checks: the session is closed without a commit.    *)
CommitForgotten(p) ==
  /\ post[p] = "committing"
  /\ rowLock' = [rowLock EXCEPT ![target[p]] = NoPost]
  /\ post' = [post EXCEPT ![p] = "202"]
  /\ UNCHANGED <<state, outputUri, r2Vars, target, taskVars, histVars>>

(* get_session commits after the handler has returned.  overtaken remembers *)
(* the other requests for the job, which have read the row as pending.     *)
Commit(p) ==
  LET j == target[p] IN
  /\ post[p] = "committing"
  /\ state' = [state EXCEPT ![j] = "extracting"]
  /\ rowLock' = [rowLock EXCEPT ![j] = NoPost]
  /\ post' = [post EXCEPT ![p] = "202"]
  /\ overtaken' =
       overtaken \cup {q \in Post \ {p} : target[q] = j /\ post[q] \in InHandler}
  /\ UNCHANGED <<outputUri, r2Vars, target, taskVars, raced, faulted, abandoned, crashes>>

(* Fault seeded for the checks: no rollback after a failed commit.         *)
CommitFailsOpen(p) ==
  LET j == target[p] IN
  /\ post[p] = "committing"
  /\ post' = [post EXCEPT ![p] = "500"]
  /\ faulted' = faulted \cup {j}
  /\ UNCHANGED <<rowVars, r2Vars, target, taskVars, raceVars, abandoned, crashes>>

(* The commit raises: the re-read or the COMMIT failed and the row is      *)
(* unchanged, or the COMMIT was applied and its acknowledgement lost.  The *)
(* task created by Start is not cancelled.                                 *)
CommitFails(p) ==
  LET j == target[p] IN
  /\ post[p] = "committing"
  /\ \E s \in {state[j], "extracting"} : state' = [state EXCEPT ![j] = s]
  /\ rowLock' = [rowLock EXCEPT ![j] = NoPost]
  /\ post' = [post EXCEPT ![p] = "500"]
  /\ faulted' = faulted \cup {j}
  /\ UNCHANGED <<outputUri, r2Vars, target, taskVars, raceVars, abandoned, crashes>>

-----------------------------------------------------------------------------
(***************************************************************************)
(* _run_conversion.  Every database write opens a session of its own and   *)
(* waits for the row's lock; Goto(p, s) moves the task on.                 *)
(***************************************************************************)
Goto(p, s) == task' = [task EXCEPT ![p] = s]

(* Fault seeded for the checks: a failed download returns early.           *)
ExtractGivesUp(p) ==
  /\ task[p] = "extract"
  /\ \/ target[p] \in uploaded /\ Goto(p, "mark")
     \/ Goto(p, "cleanup")
  /\ UNCHANGED <<rowVars, r2Vars, webVars, live, outDir, histVars>>

(* mkdir, download from R2, unpack.  A missing object, an R2 error or a    *)
(* bad archive raises.                                                     *)
Extract(p) ==
  /\ task[p] = "extract"
  /\ \/ target[p] \in uploaded /\ Goto(p, "mark")
     \/ Goto(p, "except")
  /\ UNCHANGED <<rowVars, r2Vars, webVars, live, outDir, histVars>>

(* Fault seeded for the checks: a state the CHECK constraint refuses.      *)
MarkUnknown(p) ==
  /\ task[p] = "mark"
  /\ rowLock[target[p]] = NoPost
  /\ state' = [state EXCEPT ![target[p]] = "converting"]
  /\ Goto(p, "convert")
  /\ UNCHANGED <<outputUri, rowLock, r2Vars, webVars, live, outDir, histVars>>

MarkRunning(p) ==
  /\ task[p] = "mark"
  /\ rowLock[target[p]] = NoPost
  /\ state' = [state EXCEPT ![target[p]] = "running"]
  /\ Goto(p, "convert")
  /\ UNCHANGED <<outputUri, rowLock, r2Vars, webVars, live, outDir, histVars>>

(* Fault seeded for the checks: the converter writes outside out_dir.      *)
ConvertElsewhere(p) ==
  /\ task[p] = "convert"
  /\ Goto(p, "upload") \/ Goto(p, "reject") \/ Goto(p, "except")
  /\ UNCHANGED <<rowVars, r2Vars, webVars, live, outDir, histVars>>

(* The converter writes into out_dir and exits; map_outcome_to_state says  *)
(* done or failed.  Spawning it may raise instead.                         *)
Convert(p) ==
  /\ task[p] = "convert"
  /\ \/ /\ outDir' = [outDir EXCEPT ![target[p]] = @ \cup {p}]
        /\ Goto(p, "upload") \/ Goto(p, "reject")
     \/ /\ Goto(p, "except")
        /\ UNCHANGED outDir
  /\ UNCHANGED <<rowVars, r2Vars, webVars, live, histVars>>

(* Fault seeded for the checks: a failed upload is ignored.                *)
UploadUnchecked(p) ==
  LET j == target[p] IN
  /\ task[p] = "upload"
  /\ \/ /\ stored' = stored \cup {j}
        /\ artifact' = [artifact EXCEPT ![j] = outDir[j]]
     \/ UNCHANGED <<stored, artifact>>
  /\ Goto(p, "finish")
  /\ UNCHANGED <<rowVars, uploaded, webVars, live, outDir, histVars>>

(* Zip whatever out_dir holds (an absent directory gives an empty zip) and *)
(* upload it under the job's one output key.                               *)
Upload(p) ==
  LET j == target[p] IN
  /\ task[p] = "upload"
  /\ \/ /\ stored' = stored \cup {j}
        /\ artifact' = [artifact EXCEPT ![j] = outDir[j]]
        /\ Goto(p, "finish")
     \/ /\ Goto(p, "except")
        /\ UNCHANGED <<stored, artifact>>
  /\ UNCHANGED <<rowVars, uploaded, webVars, live, outDir, histVars>>

RecordDone(p) ==
  LET j == target[p] IN
  /\ task[p] = "finish"
  /\ rowLock[j] = NoPost
  /\ state' = [state EXCEPT ![j] = "done"]
  /\ outputUri' = outputUri \cup {j}
  /\ Goto(p, "cleanup")
  /\ UNCHANGED <<rowLock, r2Vars, webVars, live, outDir, histVars>>

RecordFailed(p) ==
  LET j == target[p] IN
  /\ task[p] = "reject"
  /\ rowLock[j] = NoPost
  /\ state' = [state EXCEPT ![j] = "failed"]
  /\ Goto(p, "cleanup")
  /\ UNCHANGED <<outputUri, rowLock, r2Vars, webVars, live, outDir, histVars>>

(* One of the three writes above raises without having been applied.       *)
WriteFails(p) ==
  /\ task[p] \in Recording
  /\ Goto(p, "except")
  /\ faulted' = faulted \cup {target[p]}
  /\ UNCHANGED <<rowVars, r2Vars, webVars, live, outDir, raceVars, abandoned, crashes>>

(* ... or is applied and raises because its acknowledgement is lost.       *)
WriteUnacked(p) ==
  LET j == target[p]
      written == [mark |-> "running", finish |-> "done", reject |-> "failed"]
  IN
  /\ task[p] \in Recording
  /\ rowLock[j] = NoPost
  /\ state' = [state EXCEPT ![j] = written[task[p]]]
  /\ outputUri' = IF task[p] = "finish" THEN outputUri \cup {j} ELSE outputUri
  /\ Goto(p, "except")
  /\ faulted' = faulted \cup {j}
  /\ UNCHANGED <<rowLock, r2Vars, webVars, live, outDir, raceVars, abandoned, crashes>>

(* Fault seeded for the checks: the except clause only logs.               *)
ExceptionLogged(p) ==
  /\ task[p] = "except"
  /\ Goto(p, "cleanup")
  /\ UNCHANGED <<rowVars, r2Vars, webVars, live, outDir, histVars>>

(* Both except clauses: record the failure, and swallow a second failure.  *)
RecordException(p) ==
  LET j == target[p] IN
  /\ task[p] = "except"
  /\ \/ /\ rowLock[j] = NoPost
        /\ state' = [state EXCEPT ![j] = "failed"]
        /\ UNCHANGED <<faulted, abandoned>>
     \/ /\ faulted' = faulted \cup {j}
        /\ abandoned' = abandoned \cup {j}
        /\ UNCHANGED state
  /\ Goto(p, "cleanup")
  /\ UNCHANGED <<outputUri, rowLock, r2Vars, webVars, live, outDir, raceVars, crashes>>

(* Fault seeded for the checks: the done callback is not registered.       *)
CleanupKeepsTask(p) ==
  /\ task[p] = "cleanup"
  /\ outDir' = [outDir EXCEPT ![target[p]] = {}]
  /\ Goto(p, "ended")
  /\ UNCHANGED <<rowVars, r2Vars, webVars, live, histVars>>

(* finally: rmtree of the job's scratch root; the done callback discards   *)
(* the task from _live_bg_tasks.                                           *)
Cleanup(p) ==
  /\ task[p] = "cleanup"
  /\ outDir' = [outDir EXCEPT ![target[p]] = {}]
  /\ Goto(p, "ended")
  /\ live' = live \ {p}
  /\ UNCHANGED <<rowVars, r2Vars, webVars, histVars>>

-----------------------------------------------------------------------------
(***************************************************************************)
(* The worker dies or is redeployed: handlers and tasks are gone, open     *)
(* transactions roll back, the scratch disk may or may not survive.        *)
(* Nothing in the lifespan startup looks for unfinished jobs.              *)
(***************************************************************************)
Interrupted == {target[p] : p \in {q \in Post : task[q] \in Working}}

Crash ==
  /\ crashes < MaxCrashes
  /\ crashes' = crashes + 1
  /\ rowLock' = [j \in Job |-> NoPost]
  /\ post' = [p \in Post |-> IF post[p] \in InHandler THEN "lost" ELSE post[p]]
  /\ task' = [p \in Post |-> IF p \in live THEN "lost" ELSE task[p]]
  /\ live' = {}
  /\ outDir' \in {outDir, [j \in Job |-> {}]}
  /\ faulted' = faulted \cup Interrupted
  /\ abandoned' = abandoned \cup Interrupted
  /\ UNCHANGED <<state, outputUri, r2Vars, target, raceVars>>

HandlerStep(p) ==
  \/ Admit(p) \/ Start(p) \/ StartFails(p) \/ Commit(p) \/ CommitFails(p)

TaskStep(p) ==
  \/ Extract(p) \/ MarkRunning(p) \/ Convert(p) \/ Upload(p)
  \/ RecordDone(p) \/ RecordFailed(p) \/ WriteFails(p) \/ WriteUnacked(p)
  \/ RecordException(p) \/ Cleanup(p)

Next ==
  \/ \E j \in Job : PresignUpload(j) \/ PutInput(j)
  \/ \E p \in Post : Lookup(p) \/ HandlerStep(p) \/ TaskStep(p)
  \/ Crash

Spec == Init /\ [][Next]_vars

(* The event loop runs every ready handler and task; the database, R2 and  *)
(* the converter answer or fail within their own timeouts.                 *)
Fairness ==
  \A p \in Post : WF_vars(HandlerStep(p)) /\ WF_vars(TaskStep(p))

FairSpec == Spec /\ Fairness

-----------------------------------------------------------------------------
(***************************************************************************)
(* Properties.                                                             *)
(***************************************************************************)

Downloadable(j) == state[j] = "done" /\ j \in outputUri

(* A job that presign-download would sign a URL for has its object in R2,  *)
(* and a done job always has its key: the upload comes before the record   *)
(* on every path, also when two runs of one job overlap.                   *)
DownloadableIsStored ==
  \A j \in Job : state[j] = "done" => Downloadable(j) /\ j \in stored

(* A job that reads as extracting or running has a background task that    *)
(* will still write its end, unless a crash or a twice-failed write has    *)
(* already taken that task away.                                           *)
OwnedOrAbandoned ==
  \A j \in Job :
    state[j] \in InProgress =>
      \/ j \in abandoned
      \/ \E p \in live : target[p] = j /\ task[p] \in Working

(* A 202 answer is durable: the row has left pending for good, whatever    *)
(* crashes and whatever other requests for the job do.                     *)
AcceptedIsTaken ==
  \A p \in Post : post[p] = "202" => state[target[p]] \notin {"absent", "pending"}

(* The row's lock is only ever held by a request whose one remaining step  *)
(* is the end of its transaction.  So nobody waits for ever: create_job    *)
(* starts the task before its own commit, and the task's first write waits *)
(* for that commit, which waits for nothing.                               *)
RowLockIsBrief ==
  \A j \in Job :
    rowLock[j] # NoPost =>
      post[rowLock[j]] = "committing" /\ target[rowLock[j]] = j

(* Single-flight: _live_bg_tasks never holds two conversions.              *)
SingleFlight == \A p, q \in live : p = q

(* The one way to two conversions: both requests had passed the test       *)
(* before either had registered its task.  Neither a crash, nor a commit   *)
(* that fails under a task already running, nor a request that read its    *)
(* row long ago lets a second conversion in.                               *)
OnlyRacersOverlap == \A p, q \in live : p = q \/ {p, q} \subseteq raced

(* Jobs that two requests took between the test and the registration at    *)
(* the same moment.                                                        *)
Collided ==
  {j \in Job : \E p, q \in raced : p # q /\ target[p] = j /\ target[q] = j}

(* The object of a done job is the output of exactly one run, complete: no *)
(* mix of two runs in one scratch directory, none left there by a run that *)
(* a crash struck, and no empty archive.  Only two requests that raced     *)
(* each other for that very job can spoil it.                              *)
ArtifactOfOneRun ==
  \A j \in Job \ Collided :
    state[j] = "done" => \E p \in Post : target[p] = j /\ artifact[j] = {p}

(* A job is accepted once, also after failed commits and crashes: of two   *)
(* 202 answers for one job, one went to a request that had read the row    *)
(* before the other's commit took it.                                      *)
AcceptedOnce ==
  \A p, q \in Post :
    post[p] = "202" /\ post[q] = "202" /\ target[p] = target[q]
    => p = q \/ p \in overtaken \/ q \in overtaken

(* Whoever polls a job that has been taken sees it end, unless its run was *)
(* lost; nothing else can leave it in progress for ever.                   *)
Resolved ==
  \A j \in Job :
    state[j] \in InProgress ~> state[j] \in Terminal \/ j \in abandoned

(* The single-flight slot is never leaked: every task leaves the set, also *)
(* when every write and every external call it makes fails.                *)
SlotFreed == \A p \in Post : p \in live ~> p \notin live

(* The implementation keeps the promise of JobLifecycle.  A job is excused  *)
(* there when a write of it failed, a crash struck its run, or a request   *)
(* that had read it was overtaken; a request that raced excuses its job    *)
(* from having the converter alone, and from nothing else.                 *)
Lifecycle == INSTANCE JobLifecycle WITH
  status <- state,
  slot <- {target[p] : p \in live},
  ready <- stored,
  faulted <- faulted \cup {target[p] : p \in overtaken},
  racing <- {target[p] : p \in raced}

KeepsLifecycle == Lifecycle!Spec
=============================================================================
