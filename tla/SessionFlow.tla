---------------------------- MODULE SessionFlow -----------------------------
(***************************************************************************)
(* The F-1 session flow, which main.py no longer mounts: POST /upload with *)
(* its background conversion (app/api/upload.py), the in-memory registry   *)
(* (session_store.py), GET /status and /download, and the PurgeReaper.     *)
(* One event loop; the threads that extract, zip and delete run beside it. *)
(* A restart replaces the container and its /tmp, and is not modelled.     *)
(***************************************************************************)
EXTENDS Naturals

CONSTANTS
  Session,   \* one per upload request
  Nobody     \* a model value

ASSUME SessionAssumption == Nobody \notin Session

VARIABLES
  at,           \* where a session's request or task is
  state,        \* Session.state
  registered,   \* sessions in SessionStore._sessions
  dir,          \* the session's directory: "bare" has lost what a purge found
  zip,          \* result.zip: "hollow" is an archive that lacks files
  lock,         \* holder of the global lock
  aged,         \* sessions past expires_at
  batch,        \* the expired sessions the running purge has yet to delete
  victim        \* the one whose files it has deleted, or Nobody

vars == <<at, state, registered, dir, zip, lock, aged, batch, victim>>

TypeOK ==
  /\ at \in [Session -> {"none", "receive", "clean", "unlist", "refused",
                         "queued", "running", "zip", "zipping", "ended", "dead"}]
  /\ state \in [Session -> {"pending", "extracting", "running", "done", "failed"}]
  /\ registered \subseteq Session
  /\ dir \in [Session -> {"absent", "full", "bare"}]
  /\ zip \in [Session -> {"none", "partial", "whole", "hollow"}]
  /\ lock \in Session \cup {Nobody}
  /\ aged \subseteq Session
  /\ batch \subseteq Session
  /\ victim \in Session \cup {Nobody}

Init ==
  /\ at = [s \in Session |-> "none"]
  /\ state = [s \in Session |-> "pending"]
  /\ registered = {}
  /\ dir = [s \in Session |-> "absent"]
  /\ zip = [s \in Session |-> "none"]
  /\ lock = Nobody
  /\ aged = {}
  /\ batch = {}
  /\ victim = Nobody

Goto(s, l)     == at' = [at EXCEPT ![s] = l]
SetState(s, x) == state' = [state EXCEPT ![s] = x]

reaperVars == <<aged, batch, victim>>

-----------------------------------------------------------------------------
(***************************************************************************)
(* POST /upload                                                            *)
(***************************************************************************)
(* Refused with 429 while the lock is taken; then create().  The lock is   *)
(* not taken here, so several uploads may pass.                            *)
Upload(s) ==
  /\ at[s] = "none"
  /\ lock = Nobody
  /\ registered' = registered \cup {s}
  /\ dir' = [dir EXCEPT ![s] = "full"]
  /\ Goto(s, "receive")
  /\ UNCHANGED <<state, zip, lock, reaperVars>>

(* Too large, a full disk, not an archive, an entry that escapes.          *)
Refuse(s) ==
  /\ at[s] = "receive"
  /\ Goto(s, "clean")
  /\ UNCHANGED <<state, registered, dir, zip, lock, reaperVars>>

(* An error that is not caught: a damaged archive, a full disk while       *)
(* extracting.  The session stays until it is purged.                      *)
UploadRaises(s) ==
  /\ at[s] = "receive"
  /\ Goto(s, "dead")
  /\ UNCHANGED <<state, registered, dir, zip, lock, reaperVars>>

(* _cleanup: rmtree in a thread, then the registry.                        *)
CleanFiles(s) ==
  /\ at[s] = "clean"
  /\ dir' = [dir EXCEPT ![s] = "absent"]
  /\ Goto(s, "unlist")
  /\ UNCHANGED <<state, registered, zip, lock, reaperVars>>

CleanEntry(s) ==
  /\ at[s] = "unlist"
  /\ registered' = registered \ {s}
  /\ Goto(s, "refused")
  /\ UNCHANGED <<state, dir, zip, lock, reaperVars>>

(* Copied and extracted: 202, and the task is created.                     *)
Accept(s) ==
  /\ at[s] = "receive"
  /\ Goto(s, "queued")
  /\ UNCHANGED <<state, registered, dir, zip, lock, reaperVars>>

-----------------------------------------------------------------------------
(***************************************************************************)
(* _run_background                                                         *)
(***************************************************************************)
(* write_status raises if the directory was purged, and may on a full      *)
(* disk; where the last one stands, this is how the task goes on.          *)
Closing(s) == {"dead"} \cup IF dir[s] = "absent" THEN {} ELSE {"ended"}

(* The task has waited for the lock, and both write_status pass.           *)
Acquire(s) ==
  /\ at[s] = "queued"
  /\ lock = Nobody
  /\ dir[s] # "absent"
  /\ lock' = s
  /\ SetState(s, "running")
  /\ Goto(s, "running")
  /\ UNCHANGED <<registered, dir, zip, reaperVars>>

(* Fault seeded for the checks: an exception leaves the lock taken.        *)
AcquireLeaks(s) ==
  /\ at[s] = "queued"
  /\ lock = Nobody
  /\ lock' = s
  /\ \E x \in {"extracting", "running"} : SetState(s, x)
  /\ Goto(s, "dead")
  /\ UNCHANGED <<registered, dir, zip, reaperVars>>

(* One of them raises, the first if the session was purged meanwhile,      *)
(* which gives the lock back.                                              *)
AcquireRaises(s) ==
  /\ at[s] = "queued"
  /\ lock = Nobody
  /\ \E x \in IF dir[s] = "absent" THEN {"extracting"} ELSE {"extracting", "running"} :
       SetState(s, x)
  /\ Goto(s, "dead")
  /\ UNCHANGED <<registered, dir, zip, lock, reaperVars>>

(* Fault seeded for the checks: the outcome's code taken for the state.    *)
RunFailedCode(s) ==
  /\ at[s] = "running"
  /\ SetState(s, "subprocess_timeout")
  /\ \E l \in Closing(s) : Goto(s, l)
  /\ lock' = Nobody
  /\ UNCHANGED <<registered, dir, zip, reaperVars>>

(* The converter failed.                                                   *)
RunFailed(s) ==
  /\ at[s] = "running"
  /\ SetState(s, "failed")
  /\ \E l \in Closing(s) : Goto(s, l)
  /\ lock' = Nobody
  /\ UNCHANGED <<registered, dir, zip, reaperVars>>

(* run() raises: the state stays running.                                  *)
RunRaises(s) ==
  /\ at[s] = "running"
  /\ Goto(s, "dead")
  /\ lock' = Nobody
  /\ UNCHANGED <<state, registered, dir, zip, reaperVars>>

(* Fault seeded for the checks: the archive is left to another task.       *)
RunDoneEnds(s) ==
  /\ at[s] = "running"
  /\ SetState(s, "done")
  /\ Goto(s, "ended")
  /\ lock' = Nobody
  /\ UNCHANGED <<registered, dir, zip, reaperVars>>

(* The state is done before there is an archive.                           *)
RunDone(s) ==
  /\ at[s] = "running"
  /\ SetState(s, "done")
  /\ Goto(s, "zip")
  /\ UNCHANGED <<registered, dir, zip, lock, reaperVars>>

(* _zip_output, in a thread: makes the directory again if it was purged.   *)
OpenZip(s) ==
  /\ at[s] = "zip"
  /\ dir' = [dir EXCEPT ![s] = IF @ = "absent" THEN "bare" ELSE @]
  /\ zip' = [zip EXCEPT ![s] = "partial"]
  /\ Goto(s, "zipping")
  /\ UNCHANGED <<state, registered, lock, reaperVars>>

(* The archive holds what out/ had, or is gone.                            *)
CloseZip(s) ==
  /\ at[s] = "zipping"
  /\ zip' = [zip EXCEPT ![s] = IF @ = "none" THEN @
                               ELSE IF dir[s] = "full" THEN "whole" ELSE "hollow"]
  /\ \E l \in Closing(s) : Goto(s, l)
  /\ lock' = Nobody
  /\ UNCHANGED <<state, registered, dir, reaperVars>>

(* A full disk, or a file purged under the walk: the state stays done.     *)
ZipRaises(s) ==
  /\ at[s] = "zipping"
  /\ Goto(s, "dead")
  /\ lock' = Nobody
  /\ UNCHANGED <<state, registered, dir, zip, reaperVars>>

-----------------------------------------------------------------------------
(***************************************************************************)
(* The PurgeReaper.                                                        *)
(***************************************************************************)
(* Thirty minutes have passed.  A request's own copying and extraction of  *)
(* at most 1.5 GB takes less; waiting for the lock and converting may not. *)
Age(s) ==
  /\ s \in registered \ aged
  /\ at[s] \notin {"receive", "clean", "unlist"}
  /\ aged' = aged \cup {s}
  /\ UNCHANGED <<at, state, registered, dir, zip, lock, batch, victim>>

(* purge_once: a snapshot of the registry, whatever state a session is in. *)
ListExpired ==
  /\ batch = {} /\ victim = Nobody
  /\ registered \cap aged # {}
  /\ batch' = registered \cap aged
  /\ UNCHANGED <<at, state, registered, dir, zip, lock, aged, victim>>

(* Fault seeded for the checks: the entry goes first.                      *)
PurgeEntryFirst(s) ==
  /\ s \in batch /\ victim = Nobody
  /\ batch' = batch \ {s}
  /\ victim' = s
  /\ registered' = registered \ {s}
  /\ UNCHANGED <<at, state, dir, zip, lock, aged>>

(* rmtree with ignore_errors, in a thread.  What a converter writes while   *)
(* it walks stays, and so does the directory then.                         *)
PurgeFiles(s) ==
  /\ s \in batch /\ victim = Nobody
  /\ batch' = batch \ {s}
  /\ victim' = s
  /\ \E d \in {"absent"} \cup IF at[s] = "running" THEN {"bare"} ELSE {} :
       dir' = [dir EXCEPT ![s] = d]
  /\ zip' = [zip EXCEPT ![s] = "none"]
  /\ UNCHANGED <<at, state, registered, lock, aged>>

(* Fault seeded for the checks: running sessions are kept in the registry. *)
PurgeIdle ==
  /\ victim # Nobody
  /\ registered' = IF state[victim] = "running" THEN registered ELSE registered \ {victim}
  /\ victim' = Nobody
  /\ UNCHANGED <<at, state, dir, zip, lock, aged, batch>>

PurgeEntry ==
  /\ victim # Nobody
  /\ registered' = registered \ {victim}
  /\ victim' = Nobody
  /\ UNCHANGED <<at, state, dir, zip, lock, aged, batch>>

-----------------------------------------------------------------------------
RequestStep(s) ==
  Refuse(s) \/ UploadRaises(s) \/ CleanFiles(s) \/ CleanEntry(s) \/ Accept(s)

TaskStep(s) ==
  \/ Acquire(s) \/ AcquireRaises(s) \/ RunFailed(s) \/ RunRaises(s) \/ RunDone(s)
  \/ OpenZip(s) \/ CloseZip(s) \/ ZipRaises(s)

ReaperStep == ListExpired \/ (\E s \in Session : PurgeFiles(s)) \/ PurgeEntry

Next ==
  \/ \E s \in Session : Upload(s) \/ RequestStep(s) \/ TaskStep(s) \/ Age(s)
  \/ ReaperStep

Spec == Init /\ [][Next]_vars

(* run() returns (Runner!RunReturns), the lock is granted in turn, time    *)
(* passes and the reaper ticks every minute.                               *)
FairSpec ==
  /\ Spec
  /\ \A s \in Session : WF_vars(RequestStep(s) \/ TaskStep(s)) /\ WF_vars(Age(s))
  /\ WF_vars(ReaperStep)

-----------------------------------------------------------------------------
(* GET /status shows a download_url.                                       *)
Offered(s) == s \in registered /\ state[s] = "done"

(* What GET /download streams: "none" stands for its 410, and a "partial"  *)
(* archive is cut where the zip thread has come to.                        *)
Served(s) == zip[s]

(* Once the task has ended by itself, and until it expires, a session that *)
(* offers a download has the whole archive, whatever was purged beside it. *)
(* Before the end, and after an error of the zip, the offer stands too.    *)
DoneIsWhole ==
  \A s \in Session : Offered(s) /\ at[s] = "ended" /\ s \notin aged => Served(s) = "whole"

(* No uploaded dataset outlives its entry, by refusal, error or purge.     *)
(* What may is the archive, or the output, of a task that was working when *)
(* it was purged.                                                          *)
UploadsDeleted == \A s \in Session : s \notin registered => dir[s] # "full"

(* One conversion at a time, though the lock is tested by the request and  *)
(* taken by the task: it is held exactly as long as its holder converts or *)
(* zips, so neither an error nor a purge leaves it taken.                  *)
LockIsWorked ==
  \A s \in Session : lock = s <=> at[s] \in {"running", "zip", "zipping"}

(* Every accepted conversion comes to its end: whatever is purged under    *)
(* it, no task keeps the lock the others are waiting for.                  *)
EveryTaskEnds == \A s \in Session : at[s] = "queued" ~> at[s] \in {"ended", "dead"}

(* Every session is forgotten in the end, failed and running ones too.     *)
EveryEntryGoes == \A s \in Session : s \in registered ~> s \notin registered
=============================================================================
