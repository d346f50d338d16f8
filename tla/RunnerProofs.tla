---------------------------- MODULE RunnerProofs ----------------------------
(***************************************************************************)
(* The runner, for any number of overlapping calls and any converter.      *)
(***************************************************************************)
EXTENDS Runner, TLAPS

(***************************************************************************)
(* The inductive invariant.  What a call does to its own process is right  *)
(* whoever owns the shared fields: the flag is at worst lost, never set    *)
(* without a group, and SIGKILL reaches the leader on either branch.       *)
(***************************************************************************)
FlagHasGroup == (groupUsed => grouped) /\ (livePgid # NoCall => groupUsed)

KilledIsGone == \A c \in Call : pc[c] \in {"killed", "returned"} => c \notin leader

NotSpawned ==
  \A c \in Call :
    /\ pc[c] \in {"idle", "copy", "busy"} => result[c] = "none" /\ exit[c] # Stopped
    /\ pc[c] \in {"spawning", "waiting", "grace", "killed", "raised", "cancelled"} =>
         result[c] = "none"

StoppedLate ==
  \A c \in Call :
    /\ exit[c] = Stopped => c \notin leader
    /\ pc[c] \in {"spawning", "waiting"} => exit[c] # Stopped
    /\ pc[c] \in {"idle", "copy"} => c \notin leader \cup helpers

Undisturbed ==
  \A c \in Call \ overlapped :
    pc[c] \in Noted =>
      /\ liveProc = c
      /\ livePgid \in {c, NoCall}
      /\ \A d \in Call : pc[d] \in Noted => d = c

VerdictGiven == \A c \in Call : pc[c] = "returned" => result[c] # "none"

RunnerInv ==
  /\ TypeOK /\ WorkerSpared /\ FlagHasGroup
  /\ KilledIsGone /\ NotSpawned /\ StoppedLate /\ VerdictGiven /\ HonestResult
  /\ DemoExclusive /\ Undisturbed

LEMMA RunnerInvariant == Spec => []RunnerInv
<1> USE RunnerAssumption
    DEF RunnerInv, WorkerSpared, FlagHasGroup, KilledIsGone, NotSpawned, StoppedLate,
        VerdictGiven, HonestResult, DemoExclusive, Undisturbed, Drained, Running, Noted, Over,
        Call, NoExit, Stopped, ReturnCode, Payload
<1>1. Init => RunnerInv
  <2> SUFFICES ASSUME Init PROVE RunnerInv
    OBVIOUS
  <2>1. TypeOK
    BY DEF Init, TypeOK, Code
  <2>2. \A c \in Call : pc[c] = "idle" /\ result[c] = "none" /\ exit[c] = NoExit
    BY DEF Init
  <2>3. NoExit # Stopped
    OBVIOUS
  <2> HIDE DEF NoExit, Stopped
  <2> QED
    BY <2>1, <2>2, <2>3 DEF Init
<1>2. RunnerInv /\ [Next]_vars => RunnerInv'
  <2> SUFFICES ASSUME RunnerInv, [Next]_vars PROVE RunnerInv'
    OBVIOUS
  <2> USE DEF fields, procs, ends, Goto
  <2>1. ASSUME NEW c \in Call, Exit(c) PROVE RunnerInv'
    <3>1. TypeOK'
      BY <2>1 DEF Exit, TypeOK, Code
    <3> QED
      BY <2>1, <3>1 DEF Exit, TypeOK
  <2>2. ASSUME NEW c \in Call, HelperEnds(c) PROVE RunnerInv'
    <3>1. TypeOK'
      BY <2>2 DEF HelperEnds, TypeOK, Code
    <3> QED
      BY <2>2, <3>1 DEF HelperEnds, TypeOK
  <2>3. ASSUME NEW c \in Call, Spawn(c) PROVE RunnerInv'
    <3>1. TypeOK'
      BY <2>3 DEF Spawn, TypeOK, Code
    <3> QED
      BY <2>3, <3>1 DEF Spawn, TypeOK
  <2>4. ASSUME NEW c \in Call, Register(c) PROVE RunnerInv'
    <3>1. TypeOK'
      BY <2>4 DEF Register, TypeOK, Code
    <3> QED
      BY <2>4, <3>1 DEF Register, TypeOK
  <2>5. ASSUME NEW c \in Call, Finish(c) PROVE RunnerInv'
    <3>1. TypeOK'
      BY <2>5 DEF Finish, Return, MapOutcome, TypeOK, Code
    <3> QED
      BY <2>5, <3>1 DEF Finish, Return, MapOutcome, TypeOK
  <2>6. ASSUME NEW c \in Call, Timeout(c) PROVE RunnerInv'
    <3>1. TypeOK'
      BY <2>6 DEF Timeout, HitsWorker, TypeOK, Code
    <3> QED
      BY <2>6, <3>1 DEF Timeout, HitsWorker, TypeOK
  <2>7. ASSUME NEW c \in Call, GraceEnough(c) PROVE RunnerInv'
    <3>1. TypeOK'
      BY <2>7 DEF GraceEnough, Return, MapOutcome, TypeOK, Code
    <3> QED
      BY <2>7, <3>1 DEF GraceEnough, Return, MapOutcome, TypeOK
  <2>8. ASSUME NEW c \in Call, GraceExpires(c) PROVE RunnerInv'
    <3>1. TypeOK'
      BY <2>8 DEF GraceExpires, Kill, HitsWorker, TypeOK, Code
    <3> QED
      BY <2>8, <3>1 DEF GraceExpires, Kill, HitsWorker, TypeOK
  <2>9. ASSUME NEW c \in Call, GiveUp(c) PROVE RunnerInv'
    <3>1. TypeOK'
      BY <2>9 DEF GiveUp, Return, MapOutcome, TypeOK, Code
    <3> QED
      BY <2>9, <3>1 DEF GiveUp, Return, MapOutcome, TypeOK
  <2>10. ASSUME NEW c \in DemoCall, DemoArrives(c) PROVE RunnerInv'
    <3>1. TypeOK'
      BY <2>10 DEF DemoArrives, TypeOK, Code
    <3> QED
      BY <2>10, <3>1 DEF DemoArrives, TypeOK
  <2>11. ASSUME NEW c \in DemoCall, DemoCopyFails(c) PROVE RunnerInv'
    <3>1. TypeOK'
      BY <2>11 DEF DemoCopyFails, TypeOK, Code
    <3> QED
      BY <2>11, <3>1 DEF DemoCopyFails, TypeOK
  <2>12. ASSUME NEW c \in DemoCall, DemoTimeout(c) PROVE RunnerInv'
    <3>1. TypeOK'
      BY <2>12 DEF DemoTimeout, TypeOK, Code
    <3> QED
      BY <2>12, <3>1 DEF DemoTimeout, TypeOK
  <2>13. ASSUME NEW c \in DemoCall, DemoAnswers(c) PROVE RunnerInv'
    <3>1. TypeOK'
      BY <2>13 DEF DemoAnswers, TypeOK, Code
    <3> QED
      BY <2>13, <3>1 DEF DemoAnswers, TypeOK
  <2>14. CASE Shutdown
    <3>1. TypeOK'
      BY <2>14 DEF Shutdown, Victims, TypeOK, Code
    <3> QED
      BY <2>14, <3>1 DEF Shutdown, Victims, TypeOK
  <2>15. CASE UNCHANGED vars
    BY <2>15 DEF vars, TypeOK
  <2> QED
    BY <2>1, <2>2, <2>3, <2>4, <2>5, <2>6, <2>7, <2>8, <2>9, <2>10, <2>11, <2>12,
       <2>13, <2>14, <2>15
    DEF Next, RunStep, DemoStep
<1> QED
  BY <1>1, <1>2, PTL DEF Spec

(* Every variable keeps its type.                                          *)
THEOREM RunnerTypeCorrect == Spec => []TypeOK
BY RunnerInvariant, PTL DEF RunnerInv

(* killpg never reaches the worker, on either event loop.                  *)
THEOREM WorkerNeverSignalled == Spec => []WorkerSpared
BY RunnerInvariant, PTL DEF RunnerInv

(* run() returns only after its converter is gone, although the flag that  *)
(* chooses the signal may belong to another call by then.                  *)
THEOREM ReturnMeansReaped == Spec => []ReturnedIsReaped
<1>1. RunnerInv => ReturnedIsReaped
  BY DEF RunnerInv, KilledIsGone, ReturnedIsReaped
<1> QED
  BY <1>1, RunnerInvariant, PTL

(* No run is reported done, out of memory or crashed that was not.         *)
THEOREM ResultIsHonest == Spec => []HonestResult
BY RunnerInvariant, PTL DEF RunnerInv

(* The demo lock admits one request at a time, whatever fails or times out. *)
THEOREM OneDemo == Spec => []DemoExclusive
BY RunnerInvariant, PTL DEF RunnerInv

(* A call that had the fields to itself does not outlive the shutdown.     *)
THEOREM ShutdownLeavesNone == Spec => ShutdownKills
<1>1. RunnerInv /\ [Next]_vars =>
        [down' /\ ~down =>
           \A c \in Call \ overlapped :
             pc[c] \in Noted =>
               c \notin leader' /\ (livePgid = c => c \notin helpers')]_vars
  <2> SUFFICES ASSUME RunnerInv, Next, down', ~down,
                      NEW c \in Call \ overlapped, pc[c] \in Noted
               PROVE  c \notin leader' /\ (livePgid = c => c \notin helpers')
    BY DEF vars, fields, procs, ends
  <2>1. Shutdown
    <3> USE DEF fields, procs, ends
    <3>1. ASSUME NEW d \in Call,
                 Exit(d) \/ HelperEnds(d) \/ RunStep(d) \/ Spawn(d) \/ DemoArrives(d)
                   \/ DemoStep(d)
          PROVE  down' = down
      BY <3>1
      DEF Exit, HelperEnds, RunStep, Spawn, DemoArrives, DemoStep, Register, Finish,
          Timeout, GraceEnough, GraceExpires, GiveUp, Return, DemoCopyFails, DemoTimeout,
          DemoAnswers
    <3> QED
      BY <3>1 DEF Next, Call
  <2>2. liveProc = c /\ livePgid \in {c, NoCall}
    BY DEF RunnerInv, Undisturbed
  <2>3. c # NoCall
    BY RunnerAssumption
  <2>4. \A cut : c \notin leader \ (Victims \cup cut)
    BY <2>2, <2>3 DEF Victims
  <2>5. livePgid = c => groupUsed
    BY <2>3 DEF RunnerInv, FlagHasGroup
  <2> QED
    BY <2>1, <2>2, <2>3, <2>4, <2>5 DEF Shutdown
<1> QED
  BY <1>1, RunnerInvariant, PTL DEF Spec, ShutdownKills
-----------------------------------------------------------------------------
(***************************************************************************)
(* The refinement.  The shared fields disappear: whatever they hold, a     *)
(* call's steps touch its own stage, its own verdict and its own process.  *)
(***************************************************************************)
stages == [c \in Call |-> Stage(c)]

LEMMA StageOfOne ==
  ASSUME TypeOK, NEW c \in Call, NEW s, Goto(c, s),
         \A d \in Call \ {c} : result'[d] = result[d]
  PROVE  stages' = [stages EXCEPT ![c] = Stage(c)']
<1>1. \A d \in Call \ {c} : pc'[d] = pc[d]
  BY DEF Goto, TypeOK
<1>2. \A d \in Call \ {c} : Stage(d)' = Stage(d)
  BY <1>1 DEF Stage
<1> HIDE DEF Stage
<1> QED
  BY <1>2 DEF stages

(* A verdict fits the end it is given for.                                 *)
LEMMA OutcomeFits ==
  ASSUME NEW e \in Exits \cup {NoExit} \cup {Stopped}, NEW timedOut \in BOOLEAN,
         e = Stopped => timedOut
  PROVE  /\ MapOutcome(timedOut, e) \in Contract!Verdict
         /\ Contract!Fits(MapOutcome(timedOut, e), e)
         /\ MapOutcome(timedOut, e) # "none"
         /\ timedOut <=> MapOutcome(timedOut, e) = "conversion_timeout"
<1> SUFFICES
      /\ MapOutcome(timedOut, e) \in Contract!Verdict
      /\ Contract!Fits(MapOutcome(timedOut, e), e)
      /\ timedOut <=> MapOutcome(timedOut, e) = "conversion_timeout"
  BY DEF Contract!Verdict
<1>1. CASE timedOut
  BY <1>1 DEF MapOutcome, Contract!Fits, Contract!Verdict
<1>2. CASE ~timedOut
  <2>1. e.rc # "stopped"
    BY <1>2, RunnerAssumption DEF NoExit, ReturnCode
  <2> QED
    BY <1>2, <2>1 DEF MapOutcome, Contract!Fits, Contract!Verdict
<1> QED
  BY <1>1, <1>2

LEMMA ReturnKeepsContract ==
  ASSUME RunnerInv, NEW c \in Call, NEW timedOut \in BOOLEAN, Return(c, timedOut),
         pc[c] \in Running, c \notin leader,
         ~timedOut => pc[c] = "waiting" /\ Drained(c)
  PROVE  Contract!Next
<1> DEFINE v == MapOutcome(timedOut, exit[c])
<1>1. /\ exit[c] \in Exits \cup {NoExit} \cup {Stopped}
      /\ exit[c] = Stopped => timedOut
  BY DEF RunnerInv, TypeOK, StoppedLate
<1>2. v \in Contract!Verdict /\ Contract!Fits(v, exit[c]) /\ v # "none"
      /\ (timedOut <=> v = "conversion_timeout")
  BY <1>1, OutcomeFits
<1> HIDE DEF v
<1>3. result' = [result EXCEPT ![c] = v] /\ Goto(c, "returned") /\ UNCHANGED procs
  BY DEF Return, v
<1>4. stages[c] = "running" /\ Stage(c)' = "returned"
  BY <1>3 DEF stages, Stage, Goto, RunnerInv, TypeOK, Running
<1>5. stages' = [stages EXCEPT ![c] = "returned"]
  BY <1>3, <1>4, StageOfOne DEF RunnerInv, TypeOK
<1>6. Contract!Return(c, v)
  BY <1>2, <1>3, <1>4, <1>5 DEF Contract!Return, procs, Drained, stages
<1> QED
  BY <1>2, <1>6 DEF Contract!Next

(* A step that ends a call without a verdict, or goes on with it.          *)
LEMMA MoveKeepsContract ==
  ASSUME RunnerInv, NEW c \in Call, NEW s, Goto(c, s), UNCHANGED <<procs, result>>,
         \/ pc[c] \in {"idle", "copy"} /\ s \in {"copy", "busy", "raised"}
         \/ pc[c] \in Running /\ s \in Running \cup {"cancelled"}
         \/ pc[c] \in Over /\ s = "answered"
  PROVE  Contract!Next \/ UNCHANGED Contract!vars
<1>1. stages' = [stages EXCEPT ![c] = Stage(c)']
  BY StageOfOne DEF RunnerInv
<1>2. Stage(c)' = Stage(c) \/ (Stage(c) \in {"ready", "running"} /\ Stage(c)' = "left")
  BY DEF RunnerInv, TypeOK, NotSpawned, VerdictGiven, Stage, Goto, Running, Over
<1>3. CASE Stage(c)' = Stage(c)
  <2>1. stages' = stages
    BY <1>1, <1>3 DEF stages
  <2> QED
    BY <2>1 DEF Contract!vars, procs, stages
<1>4. CASE Stage(c) \in {"ready", "running"} /\ Stage(c)' = "left"
  <2>1. Contract!Leave(c)
    BY <1>1, <1>4 DEF Contract!Leave, procs, stages
  <2> QED
    BY <2>1 DEF Contract!Next
<1> QED
  BY <1>2, <1>3, <1>4

(* Each caller gets the contract of run(), on either event loop, whatever  *)
(* overlaps with it: no other call kills its converter, overwrites its     *)
(* verdict or makes it return before its converter is gone.                *)
THEOREM RunnerKeepsContract == Spec => KeepsContract
<1> USE RunnerAssumption
<1>1. Init => Contract!Init
  <2> SUFFICES ASSUME Init PROVE Contract!Init
    OBVIOUS
  <2>1. ASSUME NEW c \in Call PROVE Stage(c) = "ready"
    <3>1. pc[c] = "idle"
      BY DEF Init
    <3> QED
      BY <3>1 DEF Stage, Running
  <2> HIDE DEF Stage
  <2> QED
    BY <2>1 DEF Init, Contract!Init
<1>2. RunnerInv /\ [Next]_vars => [Contract!Next]_(Contract!vars)
  <2> SUFFICES ASSUME RunnerInv, [Next]_vars
               PROVE  Contract!Next \/ UNCHANGED Contract!vars
    OBVIOUS
  <2>0. TypeOK /\ KilledIsGone /\ StoppedLate
    BY DEF RunnerInv
  <2>1. ASSUME NEW c \in Call, Exit(c) PROVE Contract!Next
    <3>1. stages' = stages
      BY <2>1 DEF Exit, stages, Stage
    <3>2. Contract!End(c)
      BY <2>1, <3>1 DEF Exit, Contract!End, stages
    <3> QED
      BY <3>2 DEF Contract!Next
  <2>2. ASSUME NEW c \in Call, HelperEnds(c) PROVE Contract!Next
    <3>1. stages' = stages
      BY <2>2 DEF HelperEnds, stages, Stage
    <3>2. Contract!HelperEnds(c)
      BY <2>2, <3>1 DEF HelperEnds, Contract!HelperEnds, stages
    <3> QED
      BY <3>2 DEF Contract!Next
  <2>3. ASSUME NEW c \in Call, Spawn(c) PROVE Contract!Next \/ UNCHANGED Contract!vars
    <3>1. CASE Goto(c, "spawning") /\ leader' = leader \cup {c}
      <4>1. stages[c] = "ready" /\ Stage(c)' = "running"
        BY <2>3, <3>1, <2>0 DEF Spawn, Goto, TypeOK, stages, Stage, Running
      <4>2. stages' = [stages EXCEPT ![c] = "running"]
        BY <2>3, <3>1, <4>1, <2>0, StageOfOne DEF Spawn
      <4>3. helpers' \in {helpers, helpers \cup {c}}
        BY <2>3 DEF Spawn
      <4>4. Contract!Begin(c)
        BY <2>3, <3>1, <4>1, <4>2, <4>3 DEF Spawn, Contract!Begin, stages
      <4> QED
        BY <4>4 DEF Contract!Next
    <3>2. CASE Goto(c, "raised") /\ UNCHANGED <<leader, helpers>>
      BY <2>3, <3>2, MoveKeepsContract DEF Spawn, procs
    <3> QED
      BY <2>3, <3>1, <3>2 DEF Spawn
  <2>4. ASSUME NEW c \in Call, Register(c) \/ Timeout(c)
        PROVE  Contract!Next \/ UNCHANGED Contract!vars
    <3>1. \E s \in {"waiting", "grace"} : Goto(c, s) /\ pc[c] \in Running
      BY <2>4 DEF Register, Timeout, Running
    <3> QED
      BY <2>4, <3>1, MoveKeepsContract DEF Register, Timeout, Running
  <2>5. ASSUME NEW c \in Call, Finish(c) PROVE Contract!Next
    BY <2>5, ReturnKeepsContract DEF Finish, Drained, Running
  <2>6. ASSUME NEW c \in Call, GraceEnough(c) PROVE Contract!Next
    BY <2>6, ReturnKeepsContract DEF GraceEnough, Drained, Running
  <2>7. ASSUME NEW c \in Call, GiveUp(c) PROVE Contract!Next
    BY <2>7, <2>0, ReturnKeepsContract DEF GiveUp, KilledIsGone, Running
  <2>8. ASSUME NEW c \in Call, GraceExpires(c)
        PROVE  Contract!Next \/ UNCHANGED Contract!vars
    <3>1. stages' = stages
      <4>1. Goto(c, "killed") /\ pc[c] = "grace" /\ result' = result
        BY <2>8 DEF GraceExpires
      <4>2. Stage(c)' = Stage(c)
        BY <4>1, <2>0 DEF Goto, TypeOK, Stage, Running
      <4> QED
        BY <4>1, <4>2, <2>0, StageOfOne DEF stages
    <3>2. stages[c] = "running"
      BY <2>8 DEF GraceExpires, stages, Stage, Running
    <3>3. CASE c \in leader
      <4>1. Contract!Kill(c)
        BY <2>8, <3>1, <3>2, <3>3 DEF GraceExpires, Kill, Contract!Kill, stages
      <4> QED
        BY <4>1 DEF Contract!Next
    <3>4. CASE c \notin leader
      BY <2>8, <3>1, <3>4 DEF GraceExpires, Kill, Contract!vars, stages
    <3> QED
      BY <3>3, <3>4
  <2>9. ASSUME NEW c \in DemoCall, DemoArrives(c) \/ DemoCopyFails(c)
        PROVE  Contract!Next \/ UNCHANGED Contract!vars
    <3>1. c \in Call /\ UNCHANGED <<procs, result>> /\ pc[c] \in {"idle", "copy"}
      BY <2>9 DEF DemoArrives, DemoCopyFails, Call
    <3>2. \E s \in {"copy", "busy", "raised"} : Goto(c, s)
      BY <2>9 DEF DemoArrives, DemoCopyFails
    <3> QED
      BY <3>1, <3>2, MoveKeepsContract
  <2>10. ASSUME NEW c \in DemoCall, DemoTimeout(c) \/ DemoAnswers(c)
        PROVE  Contract!Next \/ UNCHANGED Contract!vars
    <3>1. c \in Call /\ UNCHANGED <<procs, result>>
      BY <2>10 DEF DemoTimeout, DemoAnswers, Call
    <3>2. \/ pc[c] \in Running /\ Goto(c, "cancelled")
          \/ pc[c] \in Over /\ Goto(c, "answered")
      BY <2>10 DEF DemoTimeout, DemoAnswers, Running
    <3> QED
      BY <3>1, <3>2, MoveKeepsContract
  <2>11. CASE Shutdown
    <3>1. \A c \in Call :
            Stage(c)' = IF Stage(c) = "running" THEN "left" ELSE Stage(c)
      BY <2>11, <2>0 DEF Shutdown, Stage, Running, TypeOK
    <3>2. leader' \subseteq leader /\ helpers' \subseteq helpers /\ UNCHANGED <<result, exit>>
      BY <2>11 DEF Shutdown
    <3> HIDE DEF Stage
    <3>3. Contract!Close
      BY <3>1, <3>2 DEF Contract!Close
    <3> QED
      BY <3>3 DEF Contract!Next
  <2>12. CASE UNCHANGED vars
    BY <2>12 DEF vars, procs, Contract!vars, Stage
  <2>13. JobCall \subseteq Call /\ DemoCall \subseteq Call
    BY DEF Call
  <2> QED
    BY <2>1, <2>2, <2>3, <2>4, <2>5, <2>6, <2>7, <2>8, <2>9, <2>10, <2>11, <2>12, <2>13
    DEF Next, RunStep, DemoStep
<1> QED
  BY <1>1, <1>2, RunnerInvariant, PTL DEF Spec, KeepsContract, Contract!Spec
(* The two ends that must not be mistaken for another.                     *)
LEMMA DoneFits ==
  ASSUME NEW e, Contract!Fits("done", e)
  PROVE  e.rc = "0" /\ e.json # "FAIL"
BY DEF Contract!Fits

LEMMA StoppedFits ==
  ASSUME NEW v \in Contract!Verdict, Contract!Fits(v, Stopped)
  PROVE  v = "conversion_timeout"
<1>1. Stopped.rc = "stopped"
  BY DEF Stopped
<1> QED
  BY <1>1 DEF Contract!Fits, Contract!Verdict

(* What the contract is worth: whoever keeps it returns with the converter *)
(* gone and reports nothing that did not happen.                           *)
THEOREM ContractIsHonest == KeepsContract => [](ReturnedIsReaped /\ HonestResult)
<1> DEFINE Ends == Exits \cup {NoExit} \cup {Stopped}
           ContractInv ==
             /\ exit \in [Call -> Ends]
             /\ result \in [Call -> Contract!Verdict \cup {"none"}]
             /\ \A c \in Call :
                  /\ stages[c] # "returned" => result[c] = "none"
                  /\ stages[c] = "returned" =>
                       /\ c \notin leader
                       /\ result[c] # "none"
                       /\ result[c] # "conversion_timeout" => c \notin helpers
                       /\ Contract!Fits(result[c], exit[c])
<1> HIDE DEF Stage
<1>1. Contract!Init => ContractInv
  BY DEF Contract!Init, stages
<1>2. ContractInv /\ [Contract!Next]_(Contract!vars) => ContractInv'
  <2> SUFFICES ASSUME ContractInv, [Contract!Next]_(Contract!vars) PROVE ContractInv'
    OBVIOUS
  <2>1. ASSUME NEW c \in Call,
               Contract!Begin(c) \/ Contract!Leave(c) \/ Contract!HelperEnds(c)
        PROVE  ContractInv'
    BY <2>1 DEF Contract!Begin, Contract!Leave, Contract!HelperEnds, stages
  <2>2. ASSUME NEW c \in Call, Contract!End(c) \/ Contract!Kill(c) PROVE ContractInv'
    BY <2>2 DEF Contract!End, Contract!Kill, stages
  <2>3. ASSUME NEW c \in Call, NEW v \in Contract!Verdict, Contract!Return(c, v)
        PROVE  ContractInv'
    <3>1. v # "none"
      BY DEF Contract!Verdict
    <3> QED
      BY <2>3, <3>1 DEF Contract!Return, stages
  <2>4. CASE Contract!Close
    BY <2>4 DEF Contract!Close, stages
  <2>5. CASE UNCHANGED Contract!vars
    BY <2>5 DEF Contract!vars, stages
  <2> QED
    BY <2>1, <2>2, <2>3, <2>4, <2>5 DEF Contract!Next
<1>3. ContractInv => ReturnedIsReaped /\ HonestResult
  <2> SUFFICES ASSUME ContractInv, NEW c \in Call
               PROVE  /\ pc[c] = "returned" => c \notin leader
                      /\ result[c] = "done" =>
                           exit[c].rc = "0" /\ exit[c].json # "FAIL" /\ Drained(c)
                      /\ exit[c] = Stopped => result[c] \in {"none", "conversion_timeout"}
    BY DEF ReturnedIsReaped, HonestResult
  <2>1. pc[c] = "returned" => stages[c] = "returned"
    BY DEF stages, Stage, Running
  <2>2. CASE stages[c] # "returned"
    BY <2>1, <2>2
  <2>3. CASE stages[c] = "returned"
    <3>1. c \notin leader
      BY <2>3
    <3>2. Contract!Fits(result[c], exit[c]) /\ result[c] \in Contract!Verdict
      BY <2>3
    <3>3. result[c] = "done" => exit[c].rc = "0" /\ exit[c].json # "FAIL" /\ Drained(c)
      BY <2>3, <3>1, <3>2, DoneFits DEF Drained
    <3>4. exit[c] = Stopped => result[c] = "conversion_timeout"
      BY <3>2, StoppedFits
    <3> QED
      BY <3>1, <3>3, <3>4
  <2> QED
    BY <2>2, <2>3
<1> QED
  BY <1>1, <1>2, <1>3, PTL DEF KeepsContract, Contract!Spec
=============================================================================
