------------------------------- MODULE Runner -------------------------------
(***************************************************************************)
(* The one SubprocessRunner of app/api/subprocess_runner.py and its two    *)
(* callers: the conversion tasks of app/api/jobs.py and the anonymous demo *)
(* of app/api/demo.py.  A call of run() owns one converter process, which  *)
(* may start helpers that inherit its pipes; the runner's fields remember  *)
(* one process only and are shared by every call.                          *)
(*                                                                         *)
(* asyncio.Lock _lock is never held across an await, so each block under   *)
(* it is part of one step.  Time is abstract: a timer may fire whenever    *)
(* its wait has not ended, except that the 90 s of the demo always end     *)
(* before the 25 minutes of the runner.                                    *)
(***************************************************************************)
EXTENDS FiniteSets, Naturals

CONSTANTS
  JobCall,    \* calls of run() made by conversion tasks
  DemoCall,   \* POST /demo/convert requests
  NoCall,     \* None, a model value
  Exits       \* how a converter may end: [rc |-> ..., json |-> ...]

Call == JobCall \cup DemoCall

\* "sigkill" is sent by the kernel, "stopped" is the same signal sent by Kill
ReturnCode == {"0", "1", "2", "other", "sigkill", "signal"}
Payload    == {"none", "PASS", "FAIL"}

ASSUME RunnerAssumption ==
  /\ JobCall \cap DemoCall = {}
  /\ NoCall \notin Call
  /\ Exits \subseteq [rc : ReturnCode, json : Payload]

VARIABLES
  grouped,     \* the event loop accepts process_group (uvloop does not)
  pc,          \* where each call is
  leader,      \* calls whose converter process is alive
  helpers,     \* calls with a live child of the converter, holding its pipes
  exit,        \* how the converter of a call ended, once it has
  result,      \* error code of the finished call, "done", or "none"
  liveProc,    \* _live_proc
  livePgid,    \* _live_pgid
  groupUsed,   \* _process_group_used
  demoLock,    \* holder of _demo_lock, or NoCall
  down,        \* the lifespan shutdown hook has run
  workerHit,   \* the worker's own process group was signalled
  overlapped   \* history: calls that shared the fields with another call

fields == <<liveProc, livePgid, groupUsed>>
procs  == <<leader, helpers, exit>>
ends   == <<down, workerHit>>
vars   == <<grouped, pc, procs, result, fields, demoLock, ends, overlapped>>

Running == {"spawning", "waiting", "grace", "killed"}
Noted   == {"waiting", "grace", "killed"}   \* registered in the fields
Over    == {"returned", "raised", "cancelled"}
Code    == {"none", "done", "conversion_timeout", "oom_suspected",
            "converter_crashed", "validation_failed", "converter_rejected_input"}
NoExit  == [rc |-> "unknown", json |-> "none"]
Stopped == [rc |-> "stopped", json |-> "none"]

TypeOK ==
  /\ grouped \in BOOLEAN
  /\ pc \in [Call -> {"idle", "copy", "busy", "answered", "cut"} \cup Running \cup Over]
  /\ leader \subseteq Call
  /\ helpers \subseteq Call
  /\ exit \in [Call -> Exits \cup {NoExit} \cup {Stopped}]
  /\ result \in [Call -> Code]
  /\ liveProc \in Call \cup {NoCall}
  /\ livePgid \in Call \cup {NoCall}
  /\ groupUsed \in BOOLEAN
  /\ demoLock \in DemoCall \cup {NoCall}
  /\ down \in BOOLEAN
  /\ workerHit \in BOOLEAN
  /\ overlapped \subseteq Call

Init ==
  /\ grouped \in BOOLEAN
  /\ pc = [c \in Call |-> "idle"]
  /\ leader = {}
  /\ helpers = {}
  /\ exit = [c \in Call |-> NoExit]
  /\ result = [c \in Call |-> "none"]
  /\ liveProc = NoCall
  /\ livePgid = NoCall
  /\ groupUsed = FALSE
  /\ demoLock = NoCall
  /\ down = FALSE
  /\ workerHit = FALSE
  /\ overlapped = {}

Goto(c, s) == pc' = [pc EXCEPT ![c] = s]

-----------------------------------------------------------------------------
(* Fault seeded for the checks: a code the job table does not know.        *)
MapOutcomeRaw(timedOut, e) == IF timedOut THEN "timeout" ELSE "done"

(***************************************************************************)
(* map_outcome_to_state, first match wins.                                 *)
(***************************************************************************)
MapOutcome(timedOut, e) ==
  CASE timedOut                             -> "conversion_timeout"
    [] ~timedOut /\ e.rc \in {"sigkill", "stopped"} /\ e.json = "none" -> "oom_suspected"
    [] ~timedOut /\ e.rc \in {"0", "1"} /\ e.json = "FAIL" -> "validation_failed"
    [] ~timedOut /\ e.rc = "0" /\ e.json # "FAIL" -> "done"
    [] ~timedOut /\ e.rc = "2"              -> "converter_rejected_input"
    [] OTHER                                -> "converter_crashed"

(***************************************************************************)
(* The operating system.  A converter ends by itself, by a signal of the   *)
(* kernel, or never; a helper may outlive it.                              *)
(***************************************************************************)
Exit(c) ==
  /\ c \in leader
  /\ leader' = leader \ {c}
  /\ \E e \in Exits : exit' = [exit EXCEPT ![c] = e]
  /\ helpers' \in {helpers, helpers \ {c}}
  /\ UNCHANGED <<grouped, pc, result, fields, demoLock, ends, overlapped>>

HelperEnds(c) ==
  /\ c \in helpers
  /\ helpers' = helpers \ {c}
  /\ UNCHANGED <<grouped, pc, leader, exit, result, fields, demoLock, ends, overlapped>>

(* communicate() ends when both pipes are closed and the leader is reaped. *)
Drained(c) == c \notin leader \cup helpers

-----------------------------------------------------------------------------
(***************************************************************************)
(* run()                                                                   *)
(***************************************************************************)
(* create_subprocess_exec has forked but not returned; or it raised.       *)
Spawn(c) ==
  /\ ~down
  /\ pc[c] = IF c \in DemoCall THEN "copy" ELSE "idle"
  /\ \/ /\ Goto(c, "spawning")
        /\ leader' = leader \cup {c}
        /\ helpers' \in {helpers, helpers \cup {c}}
     \/ /\ Goto(c, "raised")
        /\ UNCHANGED <<leader, helpers>>
  /\ UNCHANGED <<grouped, exit, result, fields, demoLock, ends, overlapped>>

(* Fault seeded for the checks: the flag ignores the uvloop fallback.      *)
RegisterAlwaysGrouped(c) ==
  /\ ~down
  /\ pc[c] = "spawning"
  /\ Goto(c, "waiting")
  /\ liveProc' = c
  /\ groupUsed' = TRUE
  /\ livePgid' = IF c \in leader THEN c ELSE NoCall
  /\ UNCHANGED <<grouped, procs, result, demoLock, ends, overlapped>>

(* The fields take this call's process over from whatever they held.  The  *)
(* group id is read from the process, which may have been reaped already.  *)
Register(c) ==
  LET others == {d \in Call \ {c} : pc[d] \in Noted} IN
  /\ ~down
  /\ pc[c] = "spawning"
  /\ Goto(c, "waiting")
  /\ liveProc' = c
  /\ groupUsed' = grouped
  /\ livePgid' = IF grouped /\ c \in leader THEN c ELSE NoCall
  /\ overlapped' = IF others = {} THEN overlapped ELSE overlapped \cup others \cup {c}
  /\ UNCHANGED <<grouped, procs, result, demoLock, ends>>

(* The end of run(): clear the fields, whosever they are.                  *)
Return(c, timedOut) ==
  /\ Goto(c, "returned")
  /\ result' = [result EXCEPT ![c] = MapOutcome(timedOut, exit[c])]
  /\ liveProc' = NoCall
  /\ livePgid' = NoCall
  /\ groupUsed' = FALSE
  /\ UNCHANGED <<grouped, procs, demoLock, ends, overlapped>>

Finish(c) ==
  /\ ~down
  /\ pc[c] = "waiting"
  /\ Drained(c)
  /\ Return(c, FALSE)

(* A signal sent through the shared flag.  killpg asks the kernel for the  *)
(* group of the process: the worker's own when the child was not given     *)
(* one, none when it has been reaped.                                      *)
HitsWorker(c) == groupUsed /\ c \in leader /\ ~grouped

(* 25 minutes: SIGTERM, which the converter may heed, late, or ignore.     *)
Timeout(c) ==
  /\ ~down
  /\ c \in JobCall
  /\ pc[c] = "waiting"
  /\ Goto(c, "grace")
  /\ workerHit' = (workerHit \/ HitsWorker(c))
  /\ UNCHANGED <<grouped, procs, result, fields, demoLock, down, overlapped>>

GraceEnough(c) ==
  /\ ~down
  /\ pc[c] = "grace"
  /\ Drained(c)
  /\ Return(c, TRUE)

(* Fault seeded for the checks: the process to kill is read from the field. *)
KillRegistered(c) ==
  /\ leader' = leader \ {liveProc}
  /\ UNCHANGED <<helpers, exit>>

(* SIGKILL to the group or, without the flag, to the leader alone.         *)
Kill(c) ==
  /\ leader' = leader \ {c}
  /\ helpers' = IF groupUsed /\ c \in leader THEN helpers \ {c} ELSE helpers
  /\ exit' = IF c \in leader THEN [exit EXCEPT ![c] = Stopped] ELSE exit

GraceExpires(c) ==
  /\ ~down
  /\ pc[c] = "grace"
  /\ Goto(c, "killed")
  /\ Kill(c)
  /\ workerHit' = (workerHit \/ HitsWorker(c))
  /\ UNCHANGED <<grouped, result, fields, demoLock, down, overlapped>>

(* Fault seeded for the checks: the time limit is forgotten after a kill.  *)
GiveUpAsCrash(c) ==
  /\ ~down
  /\ pc[c] = "killed"
  /\ Return(c, FALSE)

(* Fault seeded for the checks: the last communicate() has no time limit.  *)
GiveUpNever(c) ==
  /\ ~down
  /\ pc[c] = "killed"
  /\ Drained(c)
  /\ Return(c, TRUE)

(* The last communicate() ends or is given up after 2 s.                   *)
GiveUp(c) ==
  /\ ~down
  /\ pc[c] = "killed"
  /\ Return(c, TRUE)

-----------------------------------------------------------------------------
(* Fault seeded for the checks: the lock is not tested.                    *)
DemoBarges(c) ==
  /\ ~down
  /\ c \in DemoCall
  /\ pc[c] = "idle"
  /\ Goto(c, "copy")
  /\ demoLock' = c
  /\ UNCHANGED <<grouped, procs, result, fields, ends, overlapped>>

(* Fault seeded for the checks: no limit of its own for the demo's run.    *)
DemoWaits(c) ==
  /\ ~down
  /\ c \in DemoCall
  /\ pc[c] = "waiting"
  /\ Drained(c)
  /\ Goto(c, "cancelled")
  /\ UNCHANGED <<grouped, procs, result, fields, demoLock, ends, overlapped>>

(***************************************************************************)
(* demo_convert.  Nothing is awaited between the test of the lock and its  *)
(* acquisition.                                                            *)
(***************************************************************************)
DemoArrives(c) ==
  /\ ~down
  /\ c \in DemoCall
  /\ pc[c] = "idle"
  /\ IF demoLock # NoCall
     THEN Goto(c, "busy") /\ UNCHANGED demoLock
     ELSE Goto(c, "copy") /\ demoLock' = c
  /\ UNCHANGED <<grouped, procs, result, fields, ends, overlapped>>

DemoCopyFails(c) ==
  /\ ~down
  /\ pc[c] = "copy"
  /\ Goto(c, "raised")
  /\ UNCHANGED <<grouped, procs, result, fields, demoLock, ends, overlapped>>

(* 90 s: wait_for cancels run() in its communicate().  Nothing in run()    *)
(* catches the cancellation: no signal is sent, no field is cleared.       *)
DemoTimeout(c) ==
  /\ ~down
  /\ c \in DemoCall
  /\ pc[c] = "waiting"
  /\ Goto(c, "cancelled")
  /\ UNCHANGED <<grouped, procs, result, fields, demoLock, ends, overlapped>>

(* Every way out records the run, removes the scratch directory, answers   *)
(* and releases the lock.                                                  *)
DemoAnswers(c) ==
  /\ c \in DemoCall
  /\ pc[c] \in Over
  /\ Goto(c, "answered")
  /\ demoLock' = NoCall
  /\ UNCHANGED <<grouped, procs, result, fields, ends, overlapped>>

-----------------------------------------------------------------------------
(* Fault seeded for the checks: no fallback when there is no group.        *)
VictimsGroupOnly == {livePgid} \ {NoCall}

(***************************************************************************)
(* The lifespan hook, after the server has let open requests finish; the   *)
(* event loop then cancels what still runs.  A process whose spawn is cut  *)
(* short is killed by asyncio when it closes the transport, or not.        *)
(***************************************************************************)
Victims == IF groupUsed /\ livePgid # NoCall THEN {livePgid}
           ELSE {liveProc} \ {NoCall}

Shutdown ==
  /\ ~down
  /\ \A c \in DemoCall : pc[c] \in {"idle", "busy", "answered"}
  /\ down' = TRUE
  /\ \E cut \in SUBSET {c \in Call : pc[c] = "spawning"} :
       leader' = leader \ (Victims \cup cut)
  /\ helpers' = IF groupUsed /\ livePgid # NoCall THEN helpers \ {livePgid} ELSE helpers
  /\ liveProc' = NoCall
  /\ livePgid' = NoCall
  /\ groupUsed' = FALSE
  /\ pc' = [c \in Call |-> IF pc[c] \in Running THEN "cut" ELSE pc[c]]
  /\ UNCHANGED <<grouped, exit, result, demoLock, workerHit, overlapped>>

RunStep(c) ==
  \/ Register(c) \/ Finish(c) \/ Timeout(c)
  \/ GraceEnough(c) \/ GraceExpires(c) \/ GiveUp(c)

DemoStep(c) ==
  \/ DemoCopyFails(c) \/ (c \in DemoCall /\ Spawn(c))
  \/ DemoTimeout(c) \/ DemoAnswers(c)

Next ==
  \/ \E c \in Call : Exit(c) \/ HelperEnds(c) \/ RunStep(c)
  \/ \E c \in JobCall : Spawn(c)
  \/ \E c \in DemoCall : DemoArrives(c) \/ DemoStep(c)
  \/ Shutdown

Spec == Init /\ [][Next]_vars

(* The loop runs every call that can go on and every timer fires.  Nothing *)
(* is assumed of the converter: it may hang and ignore SIGTERM.            *)
Fairness ==
  /\ \A c \in Call : WF_vars(RunStep(c))
  /\ \A c \in DemoCall : WF_vars(DemoStep(c))

FairSpec == Spec /\ Fairness

-----------------------------------------------------------------------------
(***************************************************************************)
(* Properties.                                                             *)
(***************************************************************************)

(* killpg is never aimed at the worker's own process group, although the   *)
(* flag that decides it is shared by overlapping calls.                    *)
WorkerSpared == ~workerHit

(* A call that has returned leaves no converter behind: on the timeout     *)
(* path too, and when an overlapping call has overwritten or cleared the   *)
(* fields in between.                                                      *)
ReturnedIsReaped == \A c \in Call : pc[c] = "returned" => c \notin leader

(* What the user is told.  "done" is said only of a run that ended by      *)
(* itself with status 0, no failed validation and nothing left running; a  *)
(* run the runner had to kill is called a timeout, never an out-of-memory  *)
(* or a crash, however late its exit status came.                          *)
HonestResult ==
  \A c \in Call :
    /\ result[c] = "done" =>
         exit[c].rc = "0" /\ exit[c].json # "FAIL" /\ Drained(c)
    /\ exit[c] = Stopped => result[c] \in {"none", "conversion_timeout"}

(* The demo's non-blocking lock: one demo at a time between admission and  *)
(* answer, and a lock that is free once its holder has answered.           *)
DemoExclusive ==
  \A c \in DemoCall :
    pc[c] \in {"copy"} \cup Running \cup Over => demoLock = c

(* The shutdown hook kills the converter of every call that had the fields *)
(* to itself, with its helpers when the group is known.                    *)
ShutdownKills ==
  [][down' /\ ~down =>
       \A c \in Call \ overlapped :
         pc[c] \in Noted =>
           c \notin leader' /\ (livePgid = c => c \notin helpers')]_vars

(* Every caller gets what RunContract promises, though all of them share   *)
(* one set of fields.                                                      *)
Stage(c) ==
  CASE pc[c] \in {"idle", "copy"}                                -> "ready"
    [] pc[c] \in Running                                         -> "running"
    [] pc[c] = "returned" \/ (pc[c] = "answered" /\ result[c] # "none") -> "returned"
    [] OTHER                                                     -> "left"

Contract == INSTANCE RunContract WITH
  stage <- [c \in Call |-> Stage(c)], verdict <- result

KeepsContract == Contract!Spec

(* Every call of run() comes back, whatever the converter and its helpers  *)
(* do, unless the worker is shut down; so neither the single-flight slot   *)
(* of the jobs nor the demo lock is held for ever by a hung converter.     *)
RunReturns ==
  \A c \in Call : pc[c] \in Running ~> pc[c] \in Over \cup {"answered", "cut"}
DemoAnswered ==
  \A c \in DemoCall : pc[c] = "copy" ~> pc[c] = "answered"

(* "Single-flight is the box-wide invariant": one converter at a time.     *)
BoxSingleFlight == \A c, d \in leader : c = d
=============================================================================
