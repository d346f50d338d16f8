-------------------------- MODULE TierGatingProofs --------------------------
(***************************************************************************)
(* The plan limits, for any caps, any number of jobs and subscriptions and *)
(* any calendar.                                                           *)
(***************************************************************************)
EXTENDS TierGating, FiniteSetTheorems, TLAPS

(***************************************************************************)
(* The inductive invariant.  For the cap: of ANY set of jobs let through   *)
(* in a month, the one counted last saw them all, so the bound survives    *)
(* when some of them are rejected after all.  For the preview: an          *)
(* entitlement that a read can still see has been seen by the history.     *)
(***************************************************************************)
Within(S) == \E j \in S : Cap[tier[j]] = NoLimit \/ Cardinality(S) <= Cap[tier[j]]

EverySetCapped ==
  \A m \in Nat : \A S \in SUBSET CountedIn(m) : S # {} => Within(S)

EntitledSeen ==
  \A j \in Job :
    /\ pc[j] \in InGate /\ Entitled => j \in paid
    /\ pc[j] = "sub" =>
         /\ tier[j] = Free
         /\ \A s \in Mirrored : subTier[s] # Free /\ subEnd[s] > at[j] => j \in paid

PaidTier ==
  \A j \in Job : pc[j] \in {"count"} \cup Admitted /\ tier[j] # Free => j \in paid

FreeLimit ==
  \A j \in Job :
    pc[j] \in Admitted /\ tier[j] = Free => limit[j] # NoLimit /\ limit[j] <= FreeEpisodes

GateInv == TypeOK /\ EntitledSeen /\ PaidTier /\ FreeLimit

(* What the client asks for never loosens the plan's limit.                *)
LEMMA TightestBounds ==
  ASSUME NEW cap \in Nat \cup {NoLimit}, NEW a \in Asks
  PROVE  /\ Tightest(cap, a) \in Nat \cup {NoLimit}
         /\ cap # NoLimit => Tightest(cap, a) # NoLimit /\ Tightest(cap, a) <= cap
<1>1. a \in Int \cup {NoLimit} /\ NoLimit \notin Int
  BY GatingAssumption
<1> QED
  BY <1>1 DEF Tightest

LEMMA GateInvariant == Spec => []GateInv
<1> USE GatingAssumption DEF Instant, InGate, Admitted, subVars, reqVars
<1>1. Init => GateInv
  BY DEF Init, GateInv, TypeOK, EntitledSeen, PaidTier, FreeLimit
<1>2. GateInv /\ [Next]_vars => GateInv'
  <2> SUFFICES ASSUME GateInv, [Next]_vars PROVE GateInv'
    OBVIOUS
  <2> USE DEF GateInv, TypeOK, EntitledSeen, PaidTier, FreeLimit, Goto
  <2>1. CASE Tick
    BY <2>1 DEF Tick, Entitled, Mirrored
  <2>2. ASSUME NEW s \in Sub, NEW t \in Tier, NEW e \in Instant, Apply(s, t, e)
        PROVE  GateInv'
    <3>1. TypeOK' /\ PaidTier' /\ FreeLimit'
      BY <2>2 DEF Apply
    <3>2. EntitledSeen'
      BY <2>2 DEF Apply, Entitled, Mirrored
    <3> QED
      BY <3>1, <3>2
  <2>3. ASSUME NEW j \in Job, Presign(j)
        PROVE  GateInv'
    <3>1. TypeOK' /\ PaidTier' /\ FreeLimit'
      BY <2>3 DEF Presign
    <3>2. EntitledSeen'
      BY <2>3 DEF Presign, Entitled, Mirrored
    <3> QED
      BY <3>1, <3>2
  <2>4. ASSUME NEW j \in Job, PresignEnds(j)
        PROVE  GateInv'
    <3>1. TypeOK' /\ PaidTier' /\ FreeLimit'
      <4>1. CASE Goto(j, "pending") /\ UNCHANGED created
        BY <2>4, <4>1 DEF PresignEnds
      <4>2. CASE Goto(j, "none") /\ created' = [created EXCEPT ![j] = 0]
        BY <2>4, <4>2 DEF PresignEnds
      <4> QED
        BY <2>4, <4>1, <4>2 DEF PresignEnds
    <3>2. EntitledSeen'
      BY <2>4 DEF PresignEnds, Entitled, Mirrored
    <3> QED
      BY <3>1, <3>2
  <2>5. ASSUME NEW j \in Job, ReadOrg(j)
        PROVE  GateInv'
    <3>1. TypeOK' /\ PaidTier' /\ FreeLimit'
      BY <2>5 DEF ReadOrg, Entitled
    <3>2. EntitledSeen'
      BY <2>5 DEF ReadOrg, Entitled, Mirrored
    <3> QED
      BY <3>1, <3>2
  <2>6. ASSUME NEW j \in Job, ReadSub(j)
        PROVE  GateInv'
    <3>1. tier' \in [Job -> Tier] /\ (tier'[j] # Free => j \in paid)
      <4>1. CASE Latest = {} /\ UNCHANGED tier
        BY <2>6, <4>1 DEF ReadSub
      <4>2. ASSUME NEW s \in Latest, NEW n \in at[j]..now,
                   tier' = [tier EXCEPT ![j] = IF subEnd[s] > n THEN subTier[s] ELSE Free]
            PROVE  tier' \in [Job -> Tier] /\ (tier'[j] # Free => j \in paid)
        <5>1. s \in Mirrored /\ s \in Sub /\ subTier[s] \in Tier
          BY DEF Latest, Mirrored
        <5>2. subEnd[s] \in Int /\ at[j] \in Int /\ n \in Int /\ n >= at[j]
          BY <5>1
        <5>3. subTier[s] # Free /\ subEnd[s] > n => j \in paid
          BY <2>6, <5>1, <5>2 DEF ReadSub
        <5> QED
          BY <4>2, <5>1, <5>3
      <4> QED
        BY <2>6, <4>1, <4>2 DEF ReadSub
    <3>2. \A k \in Job \ {j} : tier'[k] = tier[k] /\ pc'[k] = pc[k] /\ at'[k] = at[k]
      BY <2>6 DEF ReadSub
    <3>3. pc'[j] = "count" /\ pc[j] = "sub"
      BY <2>6 DEF ReadSub
    <3>4. TypeOK'
      BY <2>6, <3>1 DEF ReadSub
    <3>5. PaidTier' /\ FreeLimit'
      BY <2>6, <3>1, <3>2, <3>3 DEF ReadSub
    <3>6. Entitled' = Entitled /\ Mirrored' = Mirrored
      BY <2>6 DEF ReadSub, Entitled, Mirrored
    <3>7. EntitledSeen'
      BY <2>6, <3>2, <3>3, <3>6 DEF ReadSub
    <3> QED
      BY <3>4, <3>5, <3>7
  <2>7. ASSUME NEW j \in Job, Drop(j), UNCHANGED <<now, created, subVars>>
        PROVE  GateInv'
    <3>1. TypeOK' /\ PaidTier' /\ FreeLimit'
      BY <2>7 DEF Drop
    <3>2. EntitledSeen'
      BY <2>7 DEF Drop, Entitled, Mirrored
    <3> QED
      BY <3>1, <3>2
  <2>8. ASSUME NEW j \in Job, CountJobs(j)
        PROVE  GateInv'
    <3>1. CASE Drop(j)
      BY <2>7, <2>8, <3>1 DEF CountJobs
    <3>2. CASE ~Drop(j)
      <4>1. PICK n \in at[j]..now, a \in Asks :
              /\ Goto(j, "admitted")
              /\ at' = [at EXCEPT ![j] = 0]
              /\ window' = [window EXCEPT ![j] = MonthOf[n]]
              /\ limit' = [limit EXCEPT ![j] = Tightest(EpisodeCap(tier[j]), a)]
              /\ UNCHANGED <<tier, paid>>
        BY <2>8, <3>2 DEF CountJobs
      <4>2. pc[j] = "count" /\ UNCHANGED <<now, created, subVars>>
        BY <2>8 DEF CountJobs
      <4>3. EpisodeCap(tier[j]) \in Nat \cup {NoLimit}
        BY DEF EpisodeCap
      <4>4. /\ limit'[j] \in Nat \cup {NoLimit}
            /\ tier[j] = Free => limit'[j] # NoLimit /\ limit'[j] <= FreeEpisodes
        <5>1. limit'[j] = Tightest(EpisodeCap(tier[j]), a)
          BY <4>1
        <5>2. NoLimit # FreeEpisodes
          OBVIOUS
        <5>3. /\ Tightest(EpisodeCap(tier[j]), a) \in Nat \cup {NoLimit}
              /\ EpisodeCap(tier[j]) # NoLimit =>
                   /\ Tightest(EpisodeCap(tier[j]), a) # NoLimit
                   /\ Tightest(EpisodeCap(tier[j]), a) <= EpisodeCap(tier[j])
          BY <4>3, TightestBounds
        <5>4. tier[j] = Free => EpisodeCap(tier[j]) = FreeEpisodes
          BY DEF EpisodeCap
        <5> QED
          BY <5>1, <5>2, <5>3, <5>4
      <4>5. MonthOf[n] \in Nat
        OBVIOUS
      <4>6. limit' \in [Job -> Nat \cup {NoLimit}]
        BY <4>1, <4>4
      <4>7. TypeOK'
        BY <4>1, <4>2, <4>5, <4>6
      <4>8. \A k \in Job \ {j} : pc'[k] = pc[k] /\ limit'[k] = limit[k]
        BY <4>1
      <4>9. PaidTier' /\ FreeLimit'
        BY <4>1, <4>2, <4>4, <4>8
      <4>10. EntitledSeen'
        BY <4>1, <4>2 DEF Entitled, Mirrored
      <4> QED
        BY <4>7, <4>9, <4>10
    <3> QED
      BY <3>1, <3>2
  <2>9. ASSUME NEW j \in Job, Rejected(j)
        PROVE  GateInv'
    BY <2>7, <2>9 DEF Rejected
  <2>10. ASSUME NEW j \in Job, Start(j)
         PROVE  GateInv'
    <3>1. TypeOK' /\ PaidTier' /\ FreeLimit'
      BY <2>10 DEF Start
    <3>2. EntitledSeen'
      BY <2>10 DEF Start, Entitled, Mirrored
    <3> QED
      BY <3>1, <3>2
  <2>11. CASE UNCHANGED vars
    BY <2>11 DEF vars, Entitled, Mirrored
  <2> QED
    BY <2>1, <2>2, <2>3, <2>4, <2>5, <2>6, <2>8, <2>9, <2>10, <2>11 DEF Next
<1> QED
  BY <1>1, <1>2, PTL DEF Spec

(* Every state is well formed: a window is a month, a limit a number of    *)
(* episodes or none.                                                       *)
THEOREM GatingTypeCorrect == Spec => []TypeOK
<1>1. GateInv => TypeOK
  BY DEF GateInv
<1> QED
  BY <1>1, GateInvariant, PTL

(* Whatever max_episodes a client sends and whenever subscription events   *)
(* commit, a conversion beyond the preview was paid for during its request.*)
THEOREM PreviewIsHeld == Spec => []PreviewHeld
<1>1. GateInv => PreviewHeld
  <2> SUFFICES ASSUME GateInv,
                      NEW j \in Job,
                      pc[j] \in Admitted,
                      limit[j] = NoLimit \/ limit[j] > FreeEpisodes
               PROVE  j \in paid
    BY DEF PreviewHeld
  <2>1. tier[j] = Free => limit[j] \in Nat /\ limit[j] <= FreeEpisodes
    BY DEF GateInv, TypeOK, FreeLimit
  <2>2. tier[j] # Free
    BY <2>1, GatingAssumption
  <2> QED
    BY <2>2 DEF GateInv, PaidTier
<1> QED
  BY <1>1, GateInvariant, PTL

-----------------------------------------------------------------------------
(* A step that lets nobody through changes nothing about those that are.   *)
LEMMA KeepsCounted ==
  ASSUME EverySetCapped,
         \A m \in Nat : CountedIn(m)' \subseteq CountedIn(m),
         \A m \in Nat : \A j \in CountedIn(m)' : tier'[j] = tier[j]
  PROVE  EverySetCapped'
<1> SUFFICES ASSUME NEW m \in Nat, NEW S \in SUBSET (CountedIn(m)'), S # {}
             PROVE  Within(S)'
  BY DEF EverySetCapped
<1>1. Within(S)
  BY DEF EverySetCapped
<1>2. \A j \in S : tier'[j] = tier[j]
  OBVIOUS
<1> QED
  BY <1>1, <1>2 DEF Within

(* The job that is let through counted every job of its month that was     *)
(* there before it, itself included.                                       *)
LEMMA AdmissionKeepsCap ==
  ASSUME TypeOK, EverySetCapped, NEW j \in Job, NEW n \in Instant,
         pc[j] = "count",
         ~OverCap(tier[j], Used(MonthOf[n])),
         Goto(j, "admitted"),
         window' = [window EXCEPT ![j] = MonthOf[n]],
         UNCHANGED <<tier, created>>
  PROVE  EverySetCapped'
<1> USE GatingAssumption DEF TypeOK, Instant, InGate, Admitted, Goto
<1> SUFFICES ASSUME NEW m \in Nat, NEW S \in SUBSET (CountedIn(m)'), S # {}
             PROVE  Within(S)'
  BY DEF EverySetCapped
<1>1. CASE j \notin S
  <2>1. S \subseteq CountedIn(m)
    BY <1>1 DEF CountedIn
  <2> QED
    BY <2>1 DEF EverySetCapped, Within
<1>2. CASE j \in S
  <2> DEFINE U == {k \in Row : MonthOf[created[k]] >= m}
  <2>1. m = MonthOf[n]
    BY <1>2 DEF CountedIn
  <2>2. S \subseteq U
    <3> SUFFICES ASSUME NEW k \in S PROVE k \in U
      OBVIOUS
    <3>1. k \in Job /\ pc'[k] \in Admitted /\ MonthOf[created'[k]] = m
      BY DEF CountedIn
    <3>2. pc[k] \in Admitted \cup {"count"}
      BY <3>1
    <3>3. MonthOf[created[k]] >= m
      BY <3>1
    <3> QED
      BY <3>1, <3>2, <3>3 DEF Row
  <2>3. IsFiniteSet(U)
    BY FS_Subset DEF Row
  <2>4. /\ Cardinality(S) \in Nat
        /\ Cardinality(U) \in Nat
        /\ Cardinality(S) <= Cardinality(U)
    BY <2>2, <2>3, FS_Subset, FS_CardinalityType
  <2>5. Cap[tier[j]] = NoLimit \/ Cardinality(U) <= Cap[tier[j]]
    <3>1. Cap[tier[j]] \in Nat \cup {NoLimit}
      OBVIOUS
    <3>2. Used(MonthOf[n]) = Cardinality(U)
      BY <2>1 DEF Used
    <3> QED
      BY <2>4, <3>1, <3>2 DEF OverCap
  <2>6. Cap[tier[j]] = NoLimit \/ Cardinality(S) <= Cap[tier[j]]
    <3>1. Cap[tier[j]] \in Nat \cup {NoLimit}
      OBVIOUS
    <3> HIDE DEF U
    <3> QED
      BY <2>4, <2>5, <3>1
  <2> QED
    BY <1>2, <2>6 DEF Within
<1> QED
  BY <1>1, <1>2

(* However the counts and the starts of a month interleave, and whatever   *)
(* the plan does meanwhile, no more jobs of that month are let through     *)
(* than the plan of one of them allows.                                    *)
THEOREM SoftCapHolds == Spec => []SoftCap
<1> USE GatingAssumption DEF Instant, InGate, Admitted, subVars, reqVars
<1>1. Init => EverySetCapped
  BY DEF Init, EverySetCapped, CountedIn
<1>2. TypeOK /\ EverySetCapped /\ [Next]_vars => EverySetCapped'
  <2> SUFFICES ASSUME TypeOK, EverySetCapped, [Next]_vars
               PROVE  EverySetCapped'
    OBVIOUS
  <2> USE DEF TypeOK, Goto
  <2>1. ASSUME UNCHANGED <<pc, created, window, tier>>
        PROVE  EverySetCapped'
    BY <2>1, KeepsCounted DEF CountedIn
  <2>2. ASSUME NEW j \in Job,
               pc'[j] \notin Admitted \/ pc[j] = "admitted",
               \A k \in Job \ {j} :
                 /\ pc'[k] = pc[k] /\ created'[k] = created[k]
                 /\ window'[k] = window[k] /\ tier'[k] = tier[k],
               pc[j] = "admitted" /\ pc'[j] \in Admitted =>
                 UNCHANGED <<created, window, tier>>
        PROVE  EverySetCapped'
    <3>1. \A m \in Nat : CountedIn(m)' \subseteq CountedIn(m)
      BY <2>2 DEF CountedIn
    <3>2. \A m \in Nat : \A k \in CountedIn(m)' : tier'[k] = tier[k]
      BY <2>2 DEF CountedIn
    <3> QED
      BY <3>1, <3>2, KeepsCounted
  <2>3. CASE Tick
    BY <2>1, <2>3 DEF Tick
  <2>4. ASSUME NEW s \in Sub, NEW t \in Tier, NEW e \in Instant, Apply(s, t, e)
        PROVE  EverySetCapped'
    BY <2>1, <2>4 DEF Apply
  <2>5. ASSUME NEW j \in Job, Presign(j)
        PROVE  EverySetCapped'
    BY <2>2, <2>5 DEF Presign
  <2>6. ASSUME NEW j \in Job, PresignEnds(j)
        PROVE  EverySetCapped'
    BY <2>2, <2>6 DEF PresignEnds
  <2>7. ASSUME NEW j \in Job, ReadOrg(j)
        PROVE  EverySetCapped'
    BY <2>2, <2>7 DEF ReadOrg
  <2>8. ASSUME NEW j \in Job, ReadSub(j)
        PROVE  EverySetCapped'
    BY <2>2, <2>8 DEF ReadSub
  <2>9. ASSUME NEW j \in Job, Drop(j), UNCHANGED created
        PROVE  EverySetCapped'
    BY <2>2, <2>9 DEF Drop
  <2>10. ASSUME NEW j \in Job, CountJobs(j)
         PROVE  EverySetCapped'
    <3>1. CASE Drop(j)
      BY <2>9, <2>10, <3>1 DEF CountJobs
    <3>2. CASE ~Drop(j)
      <4>1. PICK n \in at[j]..now :
              /\ ~OverCap(tier[j], Used(MonthOf[n]))
              /\ Goto(j, "admitted")
              /\ window' = [window EXCEPT ![j] = MonthOf[n]]
              /\ UNCHANGED tier
        BY <2>10, <3>2 DEF CountJobs
      <4>2. n \in Instant
        OBVIOUS
      <4>3. pc[j] = "count" /\ UNCHANGED created
        BY <2>10 DEF CountJobs
      <4> QED
        BY <4>1, <4>2, <4>3, AdmissionKeepsCap
    <3> QED
      BY <3>1, <3>2
  <2>11. ASSUME NEW j \in Job, Rejected(j)
         PROVE  EverySetCapped'
    BY <2>9, <2>11 DEF Rejected
  <2>12. ASSUME NEW j \in Job, Start(j)
         PROVE  EverySetCapped'
    BY <2>2, <2>12 DEF Start
  <2>13. CASE UNCHANGED vars
    BY <2>1, <2>13 DEF vars
  <2> QED
    BY <2>3, <2>4, <2>5, <2>6, <2>7, <2>8, <2>10, <2>11, <2>12, <2>13 DEF Next
<1>3. TypeOK /\ EverySetCapped => SoftCap
  <2> SUFFICES ASSUME TypeOK, EverySetCapped, NEW i \in Job, CountedIn(window[i]) # {}
               PROVE  Within(CountedIn(window[i]))
    BY DEF SoftCap, Within
  <2>1. window[i] \in Nat
    BY DEF TypeOK
  <2> QED
    BY <2>1 DEF EverySetCapped
<1> QED
  BY <1>1, <1>2, <1>3, GatingTypeCorrect, PTL DEF Spec
=============================================================================
