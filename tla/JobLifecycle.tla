---------------------------- MODULE JobLifecycle ----------------------------
(***************************************************************************)
(* What a client that polls GET /jobs is promised: a job moves forward     *)
(* through pending, extracting, running to done or failed and stays there; *)
(* the box runs one conversion at a time; a job is done only once its      *)
(* output can be downloaded; and the converter is given back only after    *)
(* the end of the run is on record.  A job is excused from the first and   *)
(* the last of these once a database write of it has failed, a crash has   *)
(* cut its run short or a stale request has started it again (faulted).    *)
(* Jobs that were let in at one moment, with the box free, may hold the    *)
(* converter together (racing); no other job ever shares it.               *)
(***************************************************************************)
CONSTANT Job

VARIABLES
  status,    \* the state the client reads
  slot,      \* the jobs that hold the converter
  ready,     \* jobs whose output object exists
  faulted,   \* jobs that met a failed write, a crash or a stale request
  racing     \* jobs that were let in together

vars == <<status, slot, ready, faulted, racing>>

Ended   == {"done", "failed"}
Forward ==
  {<<"pending", "extracting">>, <<"extracting", "running">>,
   <<"running", "done">>} \cup ({"extracting", "running"} \X {"failed"})

Init ==
  /\ status = [j \in Job |-> "absent"]
  /\ slot = {}
  /\ ready = {}
  /\ faulted = {}
  /\ racing = {}

Create(j) ==
  /\ status[j] = "absent"
  /\ status' = [status EXCEPT ![j] = "pending"]
  /\ UNCHANGED <<slot, ready, faulted, racing>>

(* Jobs are let in together only while nothing runs.                       *)
Race(S) ==
  /\ slot = {}
  /\ racing' = racing \cup S
  /\ UNCHANGED <<status, slot, ready, faulted>>

Take(j) ==
  /\ slot = {} \/ slot \cup {j} \subseteq racing
  /\ status[j] = "pending" \/ j \in faulted
  /\ slot' = slot \cup {j}
  /\ UNCHANGED <<status, ready, faulted, racing>>

Advance(j, s) ==
  /\ faulted' \in {faulted, faulted \cup {j}}
  /\ j \in faulted' \/ (j \in slot /\ <<status[j], s>> \in Forward)
  /\ s = "done" => j \in ready
  /\ status' = [status EXCEPT ![j] = s]
  /\ UNCHANGED <<slot, ready, racing>>

Publish(j) ==
  /\ j \in slot
  /\ status[j] = "running" \/ j \in faulted
  /\ ready' = ready \cup {j}
  /\ UNCHANGED <<status, slot, faulted, racing>>

Fault(j) ==
  /\ faulted' = faulted \cup {j}
  /\ UNCHANGED <<status, slot, ready, racing>>

(* A run ends, or a crash ends them all.                                   *)
Release(S) ==
  /\ S \subseteq slot
  /\ slot' = slot \ S
  /\ \E F \in SUBSET S : faulted' = faulted \cup F
  /\ \A j \in S : status[j] \in Ended \/ j \in faulted'
  /\ UNCHANGED <<status, ready, racing>>

Next ==
  \/ \E j \in Job :
       \/ Create(j) \/ Take(j) \/ Publish(j) \/ Fault(j)
       \/ \E s \in {"extracting", "running", "done", "failed"} : Advance(j, s)
  \/ \E S \in SUBSET Job : Race(S) \/ Release(S)

Spec == Init /\ [][Next]_vars
=============================================================================
