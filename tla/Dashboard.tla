----------------------------- MODULE Dashboard ------------------------------
(***************************************************************************)
(* The first minutes of a signed-up user in the browser: the dashboard's   *)
(* list of jobs, which is refused with 403 no_organization as long as the  *)
(* session token has no org_id claim, and the provisioning panel, which    *)
(* probes with freshly minted tokens.  Clerk caches a minted token until   *)
(* it expires; the claim is copied from public_metadata at the mint.       *)
(***************************************************************************)
EXTENDS ClerkProvisioning

CONSTANT MaxProbes   \* PROVISION_PROBE_MAX_ATTEMPTS

ASSUME DashboardAssumption == MaxProbes \in Nat

VARIABLES
  token,         \* the cached session token
  jobs,          \* status of the jobs query; "noorg" and "error" are its errors
  probe,         \* the probe of the panel, "off" without a panel
  tries,         \* its failureCount
  provisioned    \* JobsSection's latch, set by onReady

dashVars == <<token, jobs, probe, tries, provisioned>>

DashTypeOK ==
  /\ token \in {"bare", "claimed"}
  /\ jobs \in {"pending", "noorg", "error", "success"}
  /\ probe \in {"off", "on", "stalled"}
  /\ tries \in 0..MaxProbes
  /\ provisioned \in BOOLEAN

(* The user is redirected to the dashboard after the sign-up.              *)
DashInit ==
  /\ token = "bare"
  /\ jobs = "pending"
  /\ probe = "off"
  /\ tries = 0
  /\ provisioned = FALSE

(* The middleware lets a request through to its handler.                   *)
Authorised == token = "claimed"

Mint == IF Claim THEN "claimed" ELSE "bare"

-----------------------------------------------------------------------------
(* The answer to listJobs: the middleware wants the claim and nothing      *)
(* else, and the panel is mounted by its refusal.                          *)
JobsAnswered ==
  /\ jobs = "pending"
  /\ jobs' = IF Authorised THEN "success" ELSE "noorg"
  /\ probe' = IF jobs' = "noorg" /\ ~provisioned THEN "on" ELSE "off"
  /\ tries' = 0
  /\ UNCHANGED <<token, provisioned, faults>>

JobsFailed ==
  /\ jobs = "pending"
  /\ faults < MaxFaults
  /\ faults' = faults + 1
  /\ jobs' = "error"
  /\ UNCHANGED <<token, probe, tries, provisioned>>

(* The 3 s tick, a focus or a click.  A query without data is pending      *)
(* again while it fetches, which unmounts the panel and its probe.         *)
Refetch ==
  /\ jobs \in {"noorg", "error"}
  /\ jobs' = "pending"
  /\ probe' = "off"
  /\ tries' = 0
  /\ UNCHANGED <<token, provisioned, faults>>

(* Fault seeded for the checks: onReady without invalidating the jobs.     *)
ProbeSucceedsQuietly ==
  /\ probe = "on"
  /\ Claim
  /\ token' = "claimed"
  /\ provisioned' = TRUE
  /\ probe' = "off"
  /\ tries' = 0
  /\ UNCHANGED <<jobs, faults>>

(* The probe's token replaces the cached one; the jobs are invalidated,    *)
(* which fetches them, and onReady sets the latch.                         *)
ProbeSucceeds ==
  /\ probe = "on"
  /\ Claim
  /\ token' = "claimed"
  /\ provisioned' = TRUE
  /\ jobs' = "pending"
  /\ probe' = "off"
  /\ tries' = 0
  /\ UNCHANGED faults

(* Fault seeded for the checks: one attempt too many.                      *)
retryOnceMore(failures) == failures <= MaxProbes

(* The predicate handed to TanStack, of its failureCount.                  *)
shouldRetryProvisionProbe(failures) == failures < MaxProbes

(* Another NoOrganizationError.                                            *)
ProbeRefused ==
  /\ probe = "on"
  /\ ~Claim
  /\ token' = "bare"
  /\ IF shouldRetryProvisionProbe(tries)
     THEN tries' = tries + 1 /\ UNCHANGED probe
     ELSE probe' = "stalled" /\ UNCHANGED tries
  /\ UNCHANGED <<jobs, provisioned, faults>>

(* Any other error is not retried.                                         *)
ProbeFailed ==
  /\ probe = "on"
  /\ faults < MaxFaults
  /\ faults' = faults + 1
  /\ probe' = "stalled"
  /\ UNCHANGED <<token, jobs, tries, provisioned>>

RetryClicked ==
  /\ probe = "stalled"
  /\ probe' = "on"
  /\ tries' = 0
  /\ UNCHANGED <<token, jobs, provisioned, faults>>

(* The cached token expires, or an unmounted probe's mint lands.           *)
Remint ==
  /\ token # Mint
  /\ token' = Mint
  /\ UNCHANGED <<jobs, probe, tries, provisioned, faults>>

ProbeStep == ProbeSucceeds \/ ProbeRefused

DashNext ==
  \/ JobsAnswered \/ JobsFailed \/ Refetch \/ ProbeStep \/ ProbeFailed
  \/ RetryClicked \/ Remint

-----------------------------------------------------------------------------
(* Once a probe has seen the claim the list is never refused for want of   *)
(* it: "the transition never flashes JobsError".  The token the next fetch *)
(* takes from the cache is the probe's or a later one, and no PATCH or     *)
(* late delivery takes org_id away again.                                  *)
NoFlash == provisioned => jobs # "noorg"
=============================================================================
