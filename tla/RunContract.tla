----------------------------- MODULE RunContract -----------------------------
(***************************************************************************)
(* What a caller of run() relies on, without fields shared by the calls,   *)
(* groups, timers or event loops.  A call has one converter; only the call *)
(* itself, or the end of the worker, ever kills it; the call comes back    *)
(* once, when its converter is gone, with a verdict that fits how it went. *)
(***************************************************************************)
CONSTANTS Call, Exits, NoExit, Stopped

VARIABLES
  stage,     \* "ready", "running", "returned", or "left" without a verdict
  verdict,   \* what the call returned, or "none"
  leader,    \* calls whose converter is alive
  helpers,   \* calls with a live child of the converter
  exit       \* how a converter ended

vars == <<stage, verdict, leader, helpers, exit>>

(* What may be said of a run that ended like e.                            *)
Fits(v, e) ==
  CASE v = "done"                     -> e.rc = "0" /\ e.json # "FAIL"
    [] v = "validation_failed"        -> e.rc \in {"0", "1"} /\ e.json = "FAIL"
    [] v = "converter_rejected_input" -> e.rc = "2"
    [] v = "oom_suspected"            -> e.rc = "sigkill" /\ e.json = "none"
    [] v = "converter_crashed"        -> e # Stopped /\ e.rc # "0"
    [] v = "conversion_timeout"       -> TRUE

Verdict ==
  {"done", "validation_failed", "converter_rejected_input", "oom_suspected",
   "converter_crashed", "conversion_timeout"}

Init ==
  /\ stage = [c \in Call |-> "ready"]
  /\ verdict = [c \in Call |-> "none"]
  /\ leader = {}
  /\ helpers = {}
  /\ exit = [c \in Call |-> NoExit]

Begin(c) ==
  /\ stage[c] = "ready"
  /\ stage' = [stage EXCEPT ![c] = "running"]
  /\ leader' = leader \cup {c}
  /\ helpers' \in {helpers, helpers \cup {c}}
  /\ UNCHANGED <<verdict, exit>>

(* Not admitted, not spawned, or cancelled: without a verdict, and without *)
(* a word about the converter.                                             *)
Leave(c) ==
  /\ stage[c] \in {"ready", "running"}
  /\ stage' = [stage EXCEPT ![c] = "left"]
  /\ UNCHANGED <<verdict, leader, helpers, exit>>

End(c) ==
  /\ c \in leader
  /\ leader' = leader \ {c}
  /\ \E e \in Exits : exit' = [exit EXCEPT ![c] = e]
  /\ helpers' \in {helpers, helpers \ {c}}
  /\ UNCHANGED <<stage, verdict>>

HelperEnds(c) ==
  /\ helpers' = helpers \ {c}
  /\ UNCHANGED <<stage, verdict, leader, exit>>

Kill(c) ==
  /\ stage[c] = "running"
  /\ c \in leader
  /\ leader' = leader \ {c}
  /\ helpers' \in {helpers, helpers \ {c}}
  /\ exit' = [exit EXCEPT ![c] = Stopped]
  /\ UNCHANGED <<stage, verdict>>

(* Only a call that was stopped may leave helpers behind.                  *)
Return(c, v) ==
  /\ stage[c] = "running"
  /\ c \notin leader
  /\ v # "conversion_timeout" => c \notin helpers
  /\ Fits(v, exit[c])
  /\ stage' = [stage EXCEPT ![c] = "returned"]
  /\ verdict' = [verdict EXCEPT ![c] = v]
  /\ UNCHANGED <<leader, helpers, exit>>

(* The end of the worker.                                                  *)
Close ==
  /\ stage' = [c \in Call |-> IF stage[c] = "running" THEN "left" ELSE stage[c]]
  /\ leader' \subseteq leader
  /\ helpers' \subseteq helpers
  /\ UNCHANGED <<verdict, exit>>

Next ==
  \/ \E c \in Call :
       \/ Begin(c) \/ Leave(c) \/ End(c) \/ HelperEnds(c) \/ Kill(c)
       \/ \E v \in Verdict : Return(c, v)
  \/ Close

Spec == Init /\ [][Next]_vars
=============================================================================
