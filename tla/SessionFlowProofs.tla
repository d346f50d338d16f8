------------------------- MODULE SessionFlowProofs --------------------------
(***************************************************************************)
(* Proofs about SessionFlow, for any number of uploads: no dataset         *)
(* outlives its entry, and an unexpired offer is a whole archive.  The     *)
(* argument: the reaper only touches what has expired, and what has not    *)
(* expired still has the files its request or task works on.               *)
(***************************************************************************)
EXTENDS SessionFlow, TLAPS

(* The reaper works on expired sessions, files before entry.               *)
Reaped ==
  /\ batch \subseteq aged
  /\ victim # Nobody => victim \in aged /\ dir[victim] # "full"

(* A request in its own hands has not expired; a cleaned one has no files; *)
(* one that has not come has no entry.                                     *)
Early ==
  \A s \in Session :
    /\ at[s] \in {"none", "receive", "clean", "unlist"} => s \notin aged
    /\ at[s] = "unlist" => dir[s] = "absent"
    /\ at[s] = "none" => s \notin registered

(* The files of an unexpired session.                                      *)
Unexpired ==
  \A s \in Session \ aged :
    /\ at[s] \in {"receive", "queued", "running", "zip", "zipping"} =>
         dir[s] = "full"
    /\ at[s] = "zipping" => zip[s] = "partial"
    /\ at[s] = "ended" /\ state[s] = "done" => zip[s] = "whole"

Inv == TypeOK /\ Reaped /\ Early /\ Unexpired /\ UploadsDeleted

LEMMA RequestKeeps ==
  ASSUME Inv, NEW s \in Session, Upload(s) \/ RequestStep(s)
  PROVE  Inv'
<1> USE SessionAssumption
    DEF Inv, TypeOK, Reaped, Early, Unexpired, UploadsDeleted, Goto, reaperVars
<1>1. CASE Upload(s)
  BY <1>1 DEF Upload
<1>2. CASE Refuse(s) \/ UploadRaises(s) \/ Accept(s)
  BY <1>2 DEF Refuse, UploadRaises, Accept
<1>3. CASE CleanFiles(s)
  BY <1>3 DEF CleanFiles
<1>4. CASE CleanEntry(s)
  BY <1>4 DEF CleanEntry
<1> QED
  BY <1>1, <1>2, <1>3, <1>4 DEF RequestStep

LEMMA TaskKeeps ==
  ASSUME Inv, NEW s \in Session, TaskStep(s)
  PROVE  Inv'
<1> USE SessionAssumption
    DEF Inv, TypeOK, Reaped, Early, Unexpired, UploadsDeleted, Goto, SetState, reaperVars
<1>1. CASE Acquire(s) \/ AcquireRaises(s)
  BY <1>1 DEF Acquire, AcquireRaises
<1>2. CASE RunFailed(s)
  BY <1>2 DEF RunFailed, Closing
<1>3. CASE RunRaises(s)
  BY <1>3 DEF RunRaises
<1>4. CASE RunDone(s)
  BY <1>4 DEF RunDone
<1>5. CASE OpenZip(s)
  BY <1>5 DEF OpenZip
<1>6. CASE CloseZip(s)
  BY <1>6 DEF CloseZip, Closing
<1>7. CASE ZipRaises(s)
  BY <1>7 DEF ZipRaises
<1> QED
  BY <1>1, <1>2, <1>3, <1>4, <1>5, <1>6, <1>7 DEF TaskStep

LEMMA ReaperKeeps ==
  ASSUME Inv, ReaperStep \/ \E s \in Session : Age(s)
  PROVE  Inv'
<1> USE SessionAssumption
    DEF Inv, TypeOK, Reaped, Early, Unexpired, UploadsDeleted
<1>1. ASSUME NEW s \in Session, Age(s) PROVE Inv'
  BY <1>1 DEF Age
<1>2. CASE ListExpired
  BY <1>2 DEF ListExpired
<1>3. ASSUME NEW s \in Session, PurgeFiles(s) PROVE Inv'
  BY <1>3 DEF PurgeFiles
<1>4. CASE PurgeEntry
  BY <1>4 DEF PurgeEntry
<1> QED
  BY <1>1, <1>2, <1>3, <1>4 DEF ReaperStep

LEMMA SessionInvariant == Spec => []Inv
<1>1. Init => Inv
  BY SessionAssumption DEF Init, Inv, TypeOK, Reaped, Early, Unexpired, UploadsDeleted
<1>2. Inv /\ [Next]_vars => Inv'
  <2> SUFFICES ASSUME Inv, [Next]_vars PROVE Inv'
    OBVIOUS
  <2>1. CASE Next
    BY <2>1, RequestKeeps, TaskKeeps, ReaperKeeps DEF Next
  <2>2. CASE UNCHANGED vars
    BY <2>2 DEF vars, Inv, TypeOK, Reaped, Early, Unexpired, UploadsDeleted
  <2> QED
    BY <2>1, <2>2
<1> QED
  BY <1>1, <1>2, PTL DEF Spec

(* Every variable keeps its type.                                          *)
THEOREM SessionTyped == Spec => []TypeOK
BY SessionInvariant, PTL DEF Inv

(* An uploaded dataset is deleted no later than its entry.                 *)
THEOREM DatasetsDeleted == Spec => []UploadsDeleted
BY SessionInvariant, PTL DEF Inv

(* What is offered after the end of the task is there in full.             *)
THEOREM OfferIsWhole == Spec => []DoneIsWhole
<1>1. Inv => DoneIsWhole
  BY DEF Inv, Unexpired, DoneIsWhole, Served, Offered
<1> QED
  BY <1>1, SessionInvariant, PTL

-----------------------------------------------------------------------------
(***************************************************************************)
(* The lock.  It is taken and given back in the step that enters or leaves *)
(* the region it protects, on every way out, so that the equivalence is    *)
(* inductive by itself; the reaper, which touches everything else of a     *)
(* running session, leaves both sides alone.                               *)
(***************************************************************************)
THEOREM ConversionsExclude == Spec => []LockIsWorked
<1> USE SessionAssumption DEF TypeOK, LockIsWorked, Goto, reaperVars
<1>1. Init => LockIsWorked
  <2> SUFFICES ASSUME Init, NEW s \in Session
               PROVE  lock # s /\ at[s] \notin {"running", "zip", "zipping"}
    BY DEF LockIsWorked
  <2> QED
    BY DEF Init
<1>2. TypeOK /\ LockIsWorked /\ [Next]_vars => LockIsWorked'
  <2> SUFFICES ASSUME TypeOK, LockIsWorked, [Next]_vars PROVE LockIsWorked'
    OBVIOUS
  <2>1. ASSUME NEW s \in Session, Upload(s) \/ RequestStep(s) PROVE LockIsWorked'
    BY <2>1 DEF Upload, RequestStep, Refuse, UploadRaises, CleanFiles, CleanEntry, Accept
  <2>2. ASSUME NEW s \in Session, Acquire(s) PROVE LockIsWorked'
    BY <2>2 DEF Acquire
  <2>3. ASSUME NEW s \in Session, AcquireRaises(s) PROVE LockIsWorked'
    BY <2>3 DEF AcquireRaises
  <2>4. ASSUME NEW s \in Session,
               RunFailed(s) \/ RunRaises(s) \/ CloseZip(s) \/ ZipRaises(s)
        PROVE  LockIsWorked'
    <3>1. lock = s /\ lock' = Nobody /\ \E l \in {"dead", "ended"} : Goto(s, l)
      BY <2>4 DEF RunFailed, RunRaises, CloseZip, ZipRaises, Closing
    <3> QED
      BY <3>1
  <2>5. ASSUME NEW s \in Session, RunDone(s) \/ OpenZip(s) PROVE LockIsWorked'
    BY <2>5 DEF RunDone, OpenZip
  <2>6. CASE ReaperStep \/ \E s \in Session : Age(s)
    BY <2>6 DEF ReaperStep, ListExpired, PurgeFiles, PurgeEntry, Age
  <2>7. CASE UNCHANGED vars
    BY <2>7 DEF vars
  <2> QED
    BY <2>1, <2>2, <2>3, <2>4, <2>5, <2>6, <2>7 DEF Next, TaskStep
<1> QED
  BY <1>1, <1>2, SessionTyped, PTL DEF Spec
=============================================================================
