----------------------------- MODULE TierGating -----------------------------
(***************************************************************************)
(* The plan limits of one organisation, app/api/tier_gating.py as it is    *)
(* called by POST /jobs: the tier is resolved from the organisation and,   *)
(* when that says free, from its latest subscription; the month's jobs are *)
(* counted; the episode limit is the tighter of the plan's and the         *)
(* client's.  The three reads are separate statements of a READ COMMITTED  *)
(* transaction, and subscription events commit between them.               *)
(*                                                                         *)
(* A job has one handler at a time here (two on one job are in Jobs), and  *)
(* a refused or failed request may be repeated.  datetime.now() is taken   *)
(* somewhere between two reads: at any instant since the earlier one.      *)
(***************************************************************************)
EXTENDS FiniteSets, Integers

CONSTANTS
  Job,           \* the rows the organisation may create
  Sub,           \* its Stripe subscriptions
  Tier,          \* OrgTier
  Free,          \* the tier without a subscription
  Cap,           \* MONTHLY_JOB_SOFT_CAP
  NoLimit,       \* None
  FreeEpisodes,  \* FREE_TIER_MAX_EPISODES
  Asks,          \* values of max_episodes a client may send
  MaxNow,        \* bound on the clock
  MonthOf        \* the calendar month of each instant

ASSUME GatingAssumption ==
  /\ IsFiniteSet(Job)
  /\ Free \in Tier
  /\ Cap \in [Tier -> Nat \cup {NoLimit}]
  /\ NoLimit \notin Int
  /\ FreeEpisodes \in Nat
  /\ Asks \subseteq Int \cup {NoLimit}
  /\ MaxNow \in Nat
  /\ MonthOf \in [0..MaxNow -> Nat]

VARIABLES
  now,       \* the clock
  pc,        \* where each job's row and handler are
  created,   \* jobs.created_at
  tier,      \* the tier its handler has resolved
  at,        \* the instant of its handler's last read
  window,    \* the month its jobs were counted in
  limit,     \* the episode limit it was admitted with
  orgTier,   \* orgs.tier
  subTier,   \* subscriptions.tier, NoLimit without a row
  subEnd,    \* subscriptions.current_period_end
  plan,      \* history: the plan paid for until then
  paid       \* history: requests during which the organisation was entitled

reqVars == <<tier, at, window, limit>>
subVars == <<orgTier, subTier, subEnd, plan>>
vars    == <<now, pc, created, reqVars, subVars, paid>>

Instant  == 0..MaxNow
InGate   == {"sub", "count"}
Admitted == {"admitted", "started"}
Row      == {j \in Job : pc[j] \notin {"none", "presign"}}

TypeOK ==
  /\ now \in Instant
  /\ pc \in [Job -> {"none", "presign", "pending"} \cup InGate \cup Admitted]
  /\ created \in [Job -> Instant]
  /\ tier \in [Job -> Tier]
  /\ at \in [Job -> Instant]
  /\ window \in [Job -> Nat]
  /\ limit \in [Job -> Nat \cup {NoLimit}]
  /\ orgTier \in Tier
  /\ subTier \in [Sub -> Tier \cup {NoLimit}]
  /\ subEnd \in [Sub -> Instant]
  /\ plan \in [Sub -> Tier]
  /\ paid \subseteq Job

Init ==
  /\ now = 0
  /\ pc = [j \in Job |-> "none"]
  /\ created = [j \in Job |-> 0]
  /\ tier = [j \in Job |-> Free]
  /\ at = [j \in Job |-> 0]
  /\ window = [j \in Job |-> 0]
  /\ limit = [j \in Job |-> NoLimit]
  /\ orgTier = Free
  /\ subTier = [s \in Sub |-> NoLimit]
  /\ subEnd = [s \in Sub |-> 0]
  /\ plan = [s \in Sub |-> Free]
  /\ paid = {}

Goto(j, s) == pc' = [pc EXCEPT ![j] = s]

Mirrored == {s \in Sub : subTier[s] # NoLimit}

(* History: what the organisation may use at this instant.                 *)
Entitled ==
  orgTier # Free \/ \E s \in Mirrored : subTier[s] # Free /\ subEnd[s] > now

Tick ==
  /\ now < MaxNow
  /\ now' = now + 1
  /\ UNCHANGED <<pc, created, reqVars, subVars, paid>>

-----------------------------------------------------------------------------
(***************************************************************************)
(* A committed subscription event, perhaps late: a purchase, renewal or    *)
(* change of plan carries the end of its period, the end of a subscription *)
(* that of the period it ends in.                                          *)
(***************************************************************************)
Apply(s, t, e) ==
  /\ t = Free /\ subTier[s] # NoLimit => e = subEnd[s]
  /\ orgTier' = t
  /\ subTier' = [subTier EXCEPT ![s] = t]
  /\ subEnd' = [subEnd EXCEPT ![s] = e]
  /\ plan' = [plan EXCEPT ![s] = IF t = Free THEN @ ELSE t]
  /\ UNCHANGED <<now, pc, created, reqVars>>
  /\ paid' = IF Entitled' THEN paid \cup {j \in Job : pc[j] \in InGate} ELSE paid

-----------------------------------------------------------------------------
(***************************************************************************)
(* presign_upload.  created_at is the start of its transaction; the row    *)
(* counts once that has committed.  The size gate refuses before there is  *)
(* a row, and only a client that declares a size meets it.                 *)
(***************************************************************************)
Presign(j) ==
  /\ pc[j] = "none"
  /\ Goto(j, "presign")
  /\ created' = [created EXCEPT ![j] = now]
  /\ UNCHANGED <<now, reqVars, subVars, paid>>

PresignEnds(j) ==
  /\ pc[j] = "presign"
  /\ \/ Goto(j, "pending") /\ UNCHANGED created
     \/ Goto(j, "none") /\ created' = [created EXCEPT ![j] = 0]
  /\ UNCHANGED <<now, reqVars, subVars, paid>>

-----------------------------------------------------------------------------
(***************************************************************************)
(* POST /jobs                                                              *)
(***************************************************************************)
(* The end of a request that starts nothing; its local values are gone.    *)
Drop(j) ==
  /\ Goto(j, "pending")
  /\ tier' = [tier EXCEPT ![j] = Free]
  /\ at' = [at EXCEPT ![j] = 0]
  /\ window' = [window EXCEPT ![j] = 0]
  /\ limit' = [limit EXCEPT ![j] = NoLimit]
  /\ paid' = paid \ {j}

ReadOrg(j) ==
  /\ pc[j] = "pending"
  /\ tier' = [tier EXCEPT ![j] = orgTier]
  /\ at' = [at EXCEPT ![j] = now]
  /\ Goto(j, IF orgTier # Free THEN "count" ELSE "sub")
  /\ paid' = IF Entitled THEN paid \cup {j} ELSE paid
  /\ UNCHANGED <<now, created, window, limit, subVars>>

Latest == {s \in Mirrored : \A r \in Mirrored : subEnd[r] <= subEnd[s]}

(* Fault seeded for the checks: the end of the period is not compared.     *)
ReadSubAnyEnd(j) ==
  /\ pc[j] = "sub"
  /\ \/ Latest = {} /\ UNCHANGED tier
     \/ \E s \in Latest : tier' = [tier EXCEPT ![j] = subTier[s]]
  /\ at' = [at EXCEPT ![j] = now]
  /\ Goto(j, "count")
  /\ UNCHANGED <<now, created, window, limit, subVars, paid>>

(* The subscription whose period ends last decides, if that is ahead.      *)
ReadSub(j) ==
  /\ pc[j] = "sub"
  /\ \/ Latest = {} /\ UNCHANGED tier
     \/ \E s \in Latest, n \in at[j]..now :
          tier' = [tier EXCEPT ![j] = IF subEnd[s] > n THEN subTier[s] ELSE Free]
  /\ at' = [at EXCEPT ![j] = now]
  /\ Goto(j, "count")
  /\ UNCHANGED <<now, created, window, limit, subVars, paid>>

(* Fault seeded for the checks: only rows already started are counted.     *)
UsedStarted(m) ==
  Cardinality({k \in Row : pc[k] = "started" /\ MonthOf[created[k]] >= m})

(* Every row of the month counts, the one being gated too.                 *)
Used(m) == Cardinality({k \in Row : MonthOf[created[k]] >= m})

EpisodeCap(t) == IF t = Free THEN FreeEpisodes ELSE NoLimit

(* Fault seeded for the checks: a wish of zero or less is taken.           *)
TightestRaw(cap, a) ==
  IF cap = NoLimit \/ (a # NoLimit /\ a < cap) THEN a ELSE cap

(* The tighter of the plan's limit and a positive wish of the client.      *)
Tightest(cap, a) ==
  LET wish == IF a # NoLimit THEN (IF a > 0 THEN a ELSE NoLimit) ELSE NoLimit
  IN IF cap = NoLimit \/ (wish # NoLimit /\ wish < cap) THEN wish ELSE cap

OverCap(t, used) == Cap[t] # NoLimit /\ used > Cap[t]

(* 402, or admission with the limit that the client's wish a leaves.       *)
CountJobs(j) ==
  /\ pc[j] = "count"
  /\ \E n \in at[j]..now, a \in Asks :
       \/ /\ OverCap(tier[j], Used(MonthOf[n]))
          /\ Drop(j)
       \/ /\ ~OverCap(tier[j], Used(MonthOf[n]))
          /\ Goto(j, "admitted")
          /\ at' = [at EXCEPT ![j] = 0]
          /\ window' = [window EXCEPT ![j] = MonthOf[n]]
          /\ limit' = [limit EXCEPT ![j] = Tightest(EpisodeCap(tier[j]), a)]
          /\ UNCHANGED <<tier, paid>>
  /\ UNCHANGED <<now, created, subVars>>

(* Another conversion is running, a statement or the commit fails, or the  *)
(* worker dies: the row stays pending.                                     *)
Rejected(j) ==
  /\ pc[j] \in InGate \cup {"admitted"}
  /\ Drop(j)
  /\ UNCHANGED <<now, created, subVars>>

Start(j) ==
  /\ pc[j] = "admitted"
  /\ Goto(j, "started")
  /\ UNCHANGED <<now, created, reqVars, subVars, paid>>

Next ==
  \/ Tick
  \/ \E s \in Sub, t \in Tier, e \in Instant : Apply(s, t, e)
  \/ \E j \in Job :
       \/ Presign(j) \/ PresignEnds(j)
       \/ ReadOrg(j) \/ ReadSub(j) \/ CountJobs(j) \/ Rejected(j) \/ Start(j)

Spec == Init /\ [][Next]_vars

-----------------------------------------------------------------------------
(***************************************************************************)
(* Properties.                                                             *)
(***************************************************************************)

CountedIn(m) ==
  {j \in Job : pc[j] \in Admitted /\ window[j] = m /\ MonthOf[created[j]] = m}

(* The monthly cap, although requests count and start in any order and the *)
(* plan changes in between: of the jobs created and let through in one     *)
(* month there are never more than the plan of one of them allows.         *)
SoftCap ==
  \A m \in {window[j] : j \in Job} :
    CountedIn(m) # {} =>
      \E j \in CountedIn(m) :
        Cap[tier[j]] = NoLimit \/ Cardinality(CountedIn(m)) <= Cap[tier[j]]

(* Whatever the client asks for, a conversion of more than the preview is  *)
(* let through only if the organisation was entitled to a paid plan at     *)
(* some instant of that very request.                                      *)
PreviewHeld ==
  \A j \in Job :
    pc[j] \in Admitted /\ (limit[j] = NoLimit \/ limit[j] > FreeEpisodes) => j \in paid

(* "A canceled sub keeps its paid tier until current_period_end": when the *)
(* subscriptions are read, one that was paid for and still runs is not     *)
(* resolved to free.                                                       *)
GraceKept ==
  [][\A j \in Job :
       pc[j] = "sub" /\ pc'[j] = "count" /\ tier'[j] = Free =>
         \A s \in Sub : plan[s] # Free => subEnd[s] <= now]_vars
=============================================================================
