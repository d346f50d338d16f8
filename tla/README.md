# Verification of agibridge

agibridge is a hosted converter of robot datasets (AgiBot World and LeRobot v3).
A FastAPI application with **one** uvicorn worker, one event loop and one small
disk serves a React dashboard; Postgres (Neon, READ COMMITTED) holds the
organisations, jobs and subscriptions, Cloudflare R2 the datasets, and an
`embodied-data` command-line converter, run as a subprocess, does the work. Clerk
provides identities, Stripe payments; both talk back by webhooks.

This directory holds TLA+ models of the parts where order, overlap and failure
decide whether the service is correct, the TLC runs that check them on small
instances, and TLAPS proofs of the main invariants for every size of instance.
Paths below are those of the repository.

## 1. Inventory

| part | state | operations | hard behaviour |
|---|---|---|---|
| jobs API (`app/api/jobs.py`, `app/db/job_store.py`, `app/db/session.py`) | `jobs` rows, `_live_bg_tasks`, a scratch directory per job, R2 objects | presign-upload, POST /jobs, GET /jobs, presign-download, the background task `_run_conversion` | awaits between test and act; the task starts before the request commits; every write can fail or lose its acknowledgement; crashes |
| subprocess runner (`app/api/subprocess_runner.py`) | `_live_proc`, `_live_pgid`, `_process_group_used` (one set for all calls) | `run`, `_terminate_with_grace`, `shutdown`, `map_outcome_to_state` | overlapping calls, two event loops with different process groups, timeouts racing the converter's end |
| demo (`app/api/demo.py`) | `_demo_lock` | POST /demo/convert | cancels `run` after 90 s, shares the runner with the jobs |
| lifespan (`app/main.py`) | the runner | start-up, shutdown | recovers no unfinished job; must leave no converter |
| Stripe webhook (`app/api/billing.py`) | `stripe_events`, `orgs.tier`, `subscriptions`, `usage_events` | `stripe_webhook` | duplicated, reordered, parallel deliveries; re-fetch before write |
| checkout and portal (`app/api/billing.py`) | `orgs.stripe_customer_id`, Stripe's customers | `create_checkout`, `create_portal` (changes nothing) | the customer exists before the row names it; two first checkouts at once |
| tier gating (`app/api/tier_gating.py`) | reads `orgs`, `subscriptions`, `jobs` | `effective_tier`, soft cap, episode cap | count by `created_at`, grace after a cancel |
| Clerk webhook (`app/api/webhooks.py`) | `users`, `orgs`, `usage_events`, Clerk metadata | user.created (other events are ignored) | external PATCH before the commit, read-merge-write, parallel retries |
| Clerk middleware (`app/api/clerk_auth.py`) | a JWKS cache | per-request decision | key rotation |
| R2 (`app/storage/r2.py`) | objects under `orgs/<org>/jobs/<job>/` | presign, prefix check | key isolation |
| events, rate limits (`events.py`, `rate_limit.py`) | `funnel_events` | append | none that another part reads |
| F-1 session flow (`upload.py`, `session_store.py`, `status.py`, `download.py`, `purge_reaper.py`; not mounted by `main.py`) | in-memory sessions, a directory each, one lock | upload, background task, poll, download, purge | the lock is tested long before it is taken; the reaper purges in any state |
| frontend (`frontend/src`) | query cache, session token | jobs list, provisioning panel, presign, PUT, POST, polling | stale token after the sign-up; may stop after any step |

How they meet: the browser calls the jobs API, PUTs to R2 itself and calls POST
/jobs; POST /jobs reads the organisation and its tier, tests the single-flight
set and starts a task; the task writes rows through sessions of its own and
calls `run` of the one runner, which the demo calls as well. The Stripe webhook
writes the tier that POST /jobs reads. The jobs and the demo share nothing but
the runner's three fields. The Clerk webhook writes `org_id` into Clerk's
metadata, from which every later session token copies it; the middleware demands
it before any handler runs; the webhook's commit makes the organisation's row
that the checkout reads, and the checkout the customer by which the Stripe
webhook finds the organisation.

What makes each part correct:

* jobs: a download that is offered resolves; a job that is in progress has
  someone who will end it; a 202 is durable; one conversion at a time; a job's
  object comes from one run; the slot is always freed.
* runner: never signal the worker, never return with the converter alive, never
  call a failed or killed run a success, always return; shutdown kills.
* demo: one at a time; always answers.
* tier gating: a month's jobs stay within a plan that one of them was let through
  with; more than the preview only for those who paid; the paid period is honoured.
* webhook: effects once per event, one sale per subscription, acknowledge only
  what is recorded, converge to what Stripe has.

* provisioning: a sign-up is counted once; acknowledged means both rows and the
  claim; no metadata of the user is lost; the dashboard opens by itself.
* checkout: whoever pays is the customer on record.
* session flow: what is offered is whole until it expires, datasets go no later
  than their entries, every task ends and every session is forgotten.

`PROJECT.json` lists the hazards behind these at their lines.

## 2. Modules

| module | models |
|---|---|
| `JobLifecycle` | abstract: what a client polling a job and the operator of the single box are promised |
| `Jobs` | the jobs API, its database transactions and the background task, for any overlap of requests; refines `JobLifecycle` |
| `MCJobs` | the symmetry of the run with three requests |
| `JobsProofs` | theorems about `Jobs`, including the refinement |
| `Runner` | the subprocess runner with its two callers (job tasks, demo) and the shutdown hook |
| `RunContract` | abstract: what a caller of `run` relies on, without fields shared by the calls |
| `MCRunner` | the ways a converter may end in the runs |
| `RunnerProofs` | theorems about `Runner` |
| `StripeWebhook` | the webhook handler, its transaction and Stripe |
| `EventLedger` | abstract: an event on record once, with all its effects, before it is acknowledged |
| `MCStripeWebhook` | the symmetry of the runs |
| `StripeWebhookProofs` | theorems about `StripeWebhook` |
| `TierGating` | the plan limits as POST /jobs applies them |
| `MCTierGating` | small caps, months and wishes for the runs |
| `TierGatingProofs` | theorems about `TierGating` |
| `ClerkProvisioning` | the Clerk webhook, its transaction, Svix and Clerk's metadata, for one user |
| `Dashboard` | the browser after the sign-up: session token, jobs query, provisioning panel |
| `Checkout` | `create_checkout` for one organisation, with Stripe's customers |
| `Accounts` | the composition of these three, joined by the middleware |
| `Onboarding` | abstract: the way of a new user from the claim to the first sale, each fact in one step after those it rests on |
| `AccountsProofs` | theorems about `Accounts`, including that it implements `ClerkProvisioning` and `Onboarding` |
| `SessionFlow` | the F-1 session flow with its reaper |
| `SessionFlowProofs` | theorems about `SessionFlow` |

### Jobs

An atomic step is what the event loop does between two awaits. `post[p]` is
where a POST /jobs request is or what it answered, `task[p]` where the
background task it started is. The transaction of a request is explicit:
`Start` is the UPDATE (it waits for, then takes, the row lock, and in the same
step creates the task and enters it in `live`, since nothing is awaited between);
`Commit` and `CommitFails` are `get_session`'s commit, which runs after the
handler has returned. A failed commit may have been applied. The task's three
writes each have a plain form, one that fails and one that is applied but raises
(`WriteFails`, `WriteUnacked`); both lead to the except clause, whose own write
may fail and is then swallowed. `faulted` and `abandoned` are history variables:
the jobs that met such a fault, and those whose run ended or was cut without a
terminal write. Two more record how requests met, since nothing keeps clients
from sending several POST /jobs at once: `raced` holds the requests that were
between the single-flight test and the registration of their task together with
another (`Pass` adds them), `overtaken` those that had read their row as pending
when another request's commit took it (`Commit` adds them). No guard reads a
history variable; the properties use them to say precisely which meetings of
requests can do what. `Crash` loses handlers, tasks and open transactions and keeps or
loses the scratch disk. `outDir` and `artifact` say whose output a directory and
an R2 object contain; they let a mixed or an empty archive be told from a good one.

`OnlyRacersOverlap` says that two conversions run side by side only if both
requests raced, which is the window of the finding `jobs_race` and no other: not a
failed commit whose task runs on, not a request that read its row long ago, not a
crash. `ArtifactOfOneRun` excuses a job only if two requests raced for that very
job; a retry after a 500, which may convert a job a second time, and the scratch
directory that survives a crash are not excused and do no harm, because the second
run starts after the first has cleaned up, and a row whose run was cut by a crash
never becomes pending again. `AcceptedOnce` allows a second 202 only to an
overtaken request, which the code does let through, since the UPDATE has no
condition on the state.

Abstracted: the org scope (every query carries the JWT's organisation, so jobs
of another organisation are "absent"), archive contents (extraction succeeds or
raises), the tier gate (any outcome), estimates and messages.

### JobLifecycle

`status` moves pending, extracting, running, done or failed; a job holds `slot`
from before its start is on record until after its end is; `done` needs the
object. A job in `faulted` is excused from the order of states, which is as
much as the code keeps: after a lost acknowledgement the except clause writes
failed over done, and an overtaken request starts a finished job again. Jobs in
`racing` may hold the converter together; they join it only while the box is free
(`Race`), and a job outside it has the converter alone. `Jobs` maps
`faulted <- faulted` and the jobs of overtaken requests, `racing <-` the jobs of
requests that raced; the winner's `Commit` and a `Crash` are single steps of the
lifecycle (`Advance`, `Release` of several jobs).

### Runner

A call is `spawning` from the fork to the return of `create_subprocess_exec`,
`waiting` in its first `communicate`, in `grace` after SIGTERM, `killed` after
SIGKILL. `leader` and `helpers` are the operating system's side: the converter
and its children, which inherit the pipes `communicate` waits for. `grouped` is
chosen once: the asyncio loop accepts `process_group=0`, uvloop does not. The
fields are shared by all calls exactly as in the code: a registration overwrites
them, an end clears them, an escalation reads them. `overlapped` records the
calls that were registered together. The asyncio lock of the runner is never
held across an await and disappears. Time is abstract, except that the demo's
90 s precede the runner's 25 minutes, so `Timeout` is for job calls only.

### RunContract

The three fields and the lock around them, the group flag, the timers and the
event loops are gone; a call has a `stage`, a converter of its own and a
`verdict`. Only the call itself or the end of the worker kills its converter
(`Kill`, `Close`), it returns once and only when that is gone (`Return`), and
`Fits` says which verdicts an end admits. A call that leaves without a verdict
(`Leave`: refused, not spawned, or cancelled by the demo's limit) says nothing
of its converter, because the code does nothing about it. `Runner` implements
this with `stage <- Stage(c)`, `verdict <- result`; the steps at the fields and
at the demo's lock are stutters.

### StripeWebhook

`truth` is Stripe's side, `about` the events it has emitted; `Deliver` starts a
delivery of any emitted event at any time, also of one that is being processed
or was acknowledged. The handler's steps are its awaits: the event row, the
re-fetch, the SELECT of the organisation, the flush of the changed tier, the
SELECT and the write of the mirror, the commit. Uncommitted writes are locks
(`newTier`, `newSub`, the event id), which is how the model shows both waiting
and lost updates. As in SQLAlchemy, a column is written only when it differs
from what was loaded. Status and period end of the mirror, which may change
without the tier, are left out.

`NoStandstill` is about the waits: the event key, the organisation's row and the
mirror row are each held to the end of a transaction. `CanGoOn` spells out the
guards of the handler's steps, so that the property can be proved (ENABLED
cannot).

### EventLedger

No handlers and no transactions. `RecordPlan`, `RecordInvoice` and
`RecordForeign` put an event on record in one step with its effects and perhaps
its acknowledgement; `Acknowledge` is the answer to a duplicate. The choices left
to `RecordPlan` are what overlapping deliveries cost: the tier and an existing
mirror row may stay as they were, because the ORM writes only columns that
differ from what it loaded. The mapping is the identity on the committed state.

### TierGating

One organisation. `pc[j]` follows a row and its POST /jobs request: presigned in
an open transaction, pending, in the gate (`sub`, `count`), admitted, started.
The reads of `effective_tier` and `monthly_job_count` are a step each, since
every one is awaited and sees what is committed by then; `Apply` is the whole
effect of a committed webhook delivery and may fall between any two. The code
takes `datetime.now()` between two reads, so an action draws that instant from
those since the previous one (`at`). `created` is the start of the presign
transaction, which is what Postgres' `now()` gives, and a row is counted only
once that has committed. `paid` and `plan` are history: the requests during which
the organisation was entitled to a paid plan, and what each subscription was
bought for. `SoftCap` is deliberately about jobs both created and counted in the
month: a row presigned before midnight and accepted after it is charged to the
earlier month.

### ClerkProvisioning

A delivery goes through `pc`: the INSERT of the organisation, of the user, the
GET of the Clerk user, the PATCH, and the end of the request, which is the commit
of `get_session` followed by the 200. `inserted` is its uncommitted rows; an
INSERT of the same key by another delivery waits until they are committed or
rolled back, as in Postgres, and then conflicts or not. The row `signup_completed`
is added in the transaction that inserted the user, so `signups` changes with its
commit. `meta` is what Clerk holds and changes at the PATCH, that is, while the
transaction is open. `DeliveryFails` rolls back at any point, also after the
PATCH was applied (a timeout of Clerk's API, a failed commit, a dead worker). A
200 may be lost. `WriteKey` is another program that merges a key into the
metadata. One user is enough: no two users share a row, a key of the metadata or
an id of an organisation.

### Dashboard

`token` is Clerk's cached token, with or without the claim; `Mint` copies the
claim from `meta`. `jobs` is the status of the jobs query and `probe` that of the
panel's query, which exists only while the panel is mounted. Two facts about
TanStack Query v5 are in it: a query that has never had data is `pending` again
while it is fetched, which unmounts the panel (and, with `gcTime: 0`, forgets the
probe's attempts), and `invalidateQueries` fetches the mounted query again. The
comment at `Dashboard.tsx:183-185` expects `status` to stay `error` during a
refetch; that holds only of a query with data. The skeleton is shown either way,
so nothing the user sees depends on it. `tries` is the failure count handed to
`shouldRetryProvisionProbe`.

### Checkout

A step per await: the SELECT of the organisation, `Customer.create`, the flush
(which waits for another request's UPDATE of the row), and `Session.create` with
the commit. Stripe calls are synchronous and block the one worker's loop, so none
is interleaved with another request. `keyed` is the customer Stripe returns for
the idempotency key; Stripe forgets it after a day, which `KeyExpires` allows
whenever no request is in flight, since a request lasts seconds. A customer can
pay only on a page whose URL was sent.

### Accounts

EXTENDS both `Dashboard` and `Checkout`, which share the one `ClerkProvisioning`
state: `meta` is read by every mint, `rows` by the checkout, and `Authorised`, the
middleware's test of the token, guards the jobs list and the checkout alike. A
step is a step of one of the three.

### Onboarding

`ShowClaim`, `Provision`, `Open`, `RecordCustomer`, `Offer`, `Sell`: both rows and
the counted sign-up appear together and once, after the claim; the list opens
only with the claim; a customer is put on record once, after the rows, and only
that one is ever offered a page and charged. `Accounts` implements it with
`claimed <- Claim` (the metadata in Clerk) and `open <- (jobs = "success")`;
every retry, rollback, probe and refetch is a stutter.

### SessionFlow

`at[s]` follows an upload from `receive` (copying and extraction, two awaits
between which nothing another step sees changes) to the 202 (`queued`), the task
(`running`, `zip`, `zipping`) to `ended`, or to `dead` when an exception was not
caught; `clean` and `unlist` are the two halves of `_cleanup`. The lock is tested
by the upload and taken by the task, as in the code. `dir` and `zip` are the disk:
`full` has the dataset, `bare` is a directory that `_zip_output` made again after
a purge, or one that a purge could not remove because the converter was writing
into it. Threads (extraction, zip, `rmtree`) run beside the loop, so a purge may
fall between the opening and the closing of an archive; `rmtree` itself is one
step. It is called with `ignore_errors`, and the model lets it miss what is
written meanwhile, but not fail on a file it has found: extraction leaves every
directory writable by the service (`mkdir`, `filter="data"`), so only a defect of
the disk could. `write_status` raises when the directory is gone and may raise on a full
disk (`Closing`). The outcome of the converter is open; it is `Runner`'s.

## 3. Runs

| run | instance | shows |
|---|---|---|
| `jobs` | 2 jobs, 2 overlapping POSTs, 1 crash, fair | `TypeOK`, `DownloadableIsStored`, `OwnedOrAbandoned`, `AcceptedIsTaken`, `RowLockIsBrief`, `ArtifactOfOneRun`, `Resolved`, `SlotFreed`, `KeepsLifecycle` |
| `jobs_overlap` | 2 jobs, 3 overlapping POSTs, symmetric | `OnlyRacersOverlap`, `AcceptedOnce` |
| `jobs_race` | 1 job, 2 overlapping POSTs, no fault | `SingleFlight` **fails** |
| `runner` | 1 task, 2 demos, both loops, fair | `TypeOK`, `WorkerSpared`, `HonestResult`, `DemoExclusive`, `ShutdownKills`, `KeepsContract`, `RunReturns`, `DemoAnswered` |
| `runner_box` | 1 task, 1 demo | `BoxSingleFlight` **fails** |
| `stripe` | 2 subscriptions, 3 + 1 events, 2 parallel handlers, 1 fault | `TypeOK`, `NoStandstill`, `KeepsLedger`, no deadlock |
| `stripe_serial` | 2 subscriptions of the organisation and 1 of an unknown customer, 2 + 1 events, one delivery at a time, 1 fault, fair | `MirrorConverges`, `TierConverges`, `EventuallyRecorded` |
| `stripe_race` | 1 subscription, 2 events, 2 handlers | `TierConverges` **fails** |
| `gating` | 3 rows, 2 subscriptions, caps 1 and 2, two months | `TypeOK`, `SoftCap`, `PreviewHeld` |
| `gating_grace` | 1 row, 1 subscription | `GraceKept` **fails** |
| `accounts` | 2 parallel deliveries, 1 other metadata key, 2 parallel checkouts, 2 customers, 1 fault, 1 resend, a probe of 1 retry, fair | `TypeOK`, `OldKeysKept`, `NoFlash`, `SaleIsKnown`, `EventuallyOpen`, `KeepsPromise` |
| `sessions` | 3 uploads, fair | `TypeOK`, `DoneIsWhole`, `UploadsDeleted`, `LockIsWorked`, `EveryTaskEnds`, `EveryEntryGoes` |

**Bounds.** Every conflict in `Jobs` is between two requests for one row or two
tasks in one slot; in `jobs_overlap` a third request meets two that race, or comes
after an end or a failure of the first two, in every order. One crash separates "before" from "after"
for each job; a second adds nothing a job can distinguish, since no run is
resumed. In `Runner` an overlap needs one more call than the shared fields have
room for; with one job call and two demo calls, every order of registration,
clearing and escalation occurs, including a third call that starts after a
cancelled one left its converter behind. A converter ends there with status 0 and a
PASS or a FAIL, or is killed by the kernel; the other statuses differ only in the
verdict `map_outcome_to_state` gives them, and are covered by the proofs, where
`Exits` is any set. In the webhook three events let a plan
go up, down and up while two deliveries overlap. In the gate three rows exceed both
caps, so that the last to be counted is refused in every order, and two instants
put an end of period and a midnight between any two reads. In `accounts` every
conflict is between two deliveries or two checkouts; deliveries are retried
without bound until one is acknowledged, `MaxFaults` counts failures of all parts
together and `MaxResends` the deliveries after the acknowledgement, `MaxProbes`
stands for the 15 attempts, and a second customer is what a duplicate needs. In
`sessions` three uploads are one that holds the lock, one that waits and one that
is purged or refused meanwhile. `accounts` and `sessions` may stop (everything
sold, everything purged), so deadlock is not checked there: that nothing waits for
ever is what their liveness properties say. The proofs remove these bounds
for all invariants.

**Serial.** `StripeWebhook` has a constant `Serial`, an assumption about Stripe
(it never delivers in parallel), stated to find out what convergence needs: the
properties of `stripe_serial` are about the order and the retries of deliveries.
The code does not enforce it, and `stripe_race` shows what happens without it.
Nothing else assumes that requests do not overlap.

**Fairness.** `Jobs`: weak fairness of each handler and each task: the event
loop runs what is ready, and the database, R2 and the converter answer or fail
(the converter's part of this is what `Runner` shows as `RunReturns`). `Runner`:
weak fairness of every step of a call and of the demo handler, that is, timers
fire and the loop resumes ready coroutines; **nothing** is assumed of the
converter, which may hang, ignore SIGTERM or leave helpers. `StripeWebhook`:
Stripe retries what it has no acknowledgement for (strong, since a handler must
be free), and a handler that waits for a lock gets it in the end (strong, since
the lock may be taken by another in between); faults are bounded. Stripe gives
up after three days; an outage longer than that is outside the model.
`Accounts`: Svix retries until it has an acknowledgement, each delivery's next
step runs, the jobs list is fetched again (its 3 s tick while it has no data) and
the cached token is replaced once it has expired (Clerk's tokens live a minute).
Nothing is assumed of the probe, of the user's clicks or of the checkout.
`SessionFlow`: the request's and the task's next step runs (disk threads and
`run()` come back), time passes, and the reaper ticks. Weak fairness is enough for
the queue at the lock, since each upload takes it once.

**Timing.** Three assumptions order steps by the lengths the code gives them: the
demo's 90 s precede the runner's 25 minutes; an idempotency key outlives a
request; and a request's own copying and extraction, of at most 800 MB and 1.5 GB,
take less than the 30 minutes after which the reaper may purge its session
(waiting for the lock and converting may take longer, and are not assumed to). A
restart of the service replaces its container and `/tmp`, so sessions and their
files vanish together and `SessionFlow` has no crash.

**Where the code and its documents part.** The four violation runs are recorded
as findings. `jobs_race`: the single-flight test is separated from the
registration of the task by an awaited UPDATE. `runner_box`: the demo's lock and
the jobs' set ignore each other, though both say the box runs one converter.
`stripe_race`: re-fetching makes events converge in any order only if deliveries
do not overlap. `gating_grace`: the cancel that should leave the paid period open
also writes `free` into the mirror row from which the gate would restore the plan.

Four smaller things came up while modelling and need no run. The order at
`queries.ts:90` ("mirrors the DB rows then writes `public_metadata.org_id`") is
that of the statements, not of their effects: the rows are committed after the
PATCH, so a new user's first checkout may still be answered 404, and
`EventuallyOpen` therefore asks for the row besides the open list. The tier of an
organisation with two subscriptions is that of the one whose event came last,
which `TierConverges` admits. And an archive begun after its session was purged
is not purged again, nor is what a converter writes while the reaper deletes its
directory: `UploadsDeleted` holds of datasets, not of these. The comment at
`upload.py:156-157` ("Per spec §3 single-flight, there is at most one live task")
does not hold either: the upload's test of the lock (429) comes before the copying
and the task takes the lock after it, so several uploads may pass and their tasks
queue, and `_live_bg_task` then refers to the last of them only.

Six invariants are proved and no longer run by themselves, because a refinement
that is run says more: `KeepsLedger` implies `OncePerEvent`, `OneSale` and
`AckedIsRecorded`, `KeepsContract` implies `ReturnedIsReaped`, and `KeepsPromise`
implies `SignupOnce` and `AckedIsProvisioned` (theorems `LedgerIsExact`,
`ContractIsHonest` and `PromiseIsSound`).

Each property of a passing run is paired with a seeded fault, an operator marked
"Fault seeded for the checks" beside the action it replaces, under which TLC
finds the property violated.

## 4. Proofs

All theorems hold for every value of the constants that satisfies the named
assumption of the module (`JobsAssumption`, `RunnerAssumption`,
`WebhookAssumption`, `GatingAssumption`, `ClerkAssumption`, `DashboardAssumption`,
`CheckoutAssumption`, `SessionAssumption`): no bound on jobs, requests, calls,
events, handlers, crashes or faults, nor on caps, instants or months.

* `JobsProofs`. `IInv` joins `TypeOK`, `DownloadableIsStored`,
  `OwnedOrAbandoned` and `AcceptedIsTaken` with what they need between the
  steps: the row lock belongs to a request that is committing, `live` holds
  exactly the tasks that have not ended, and a task about to record its end has
  uploaded. `RaceInv` adds how admitted handlers and
  live tasks exclude each other unless they raced: the test sees an empty set, so
  whoever is admitted later than a registration was admitted before it.
  `ScratchInv` follows the scratch directory and the object of a job whose
  requests did not race for it, without excusing faults: the directory is empty
  when a run starts to convert, because a surviving one belongs to a row that has
  left pending and has no request in the handler any more. `AcceptInv` says that a
  request in the handler beside a 202 for its job has been overtaken. `CleanInv`
  follows a job that met no fault and no overtaken request from step to step (its
  row's state matches where its one task is), which gives, with the mapping of
  section 2, `ImplementsLifecycle`. `RowLockIsBrief` is
  inductive by itself: a row is held from `Start` to the end
  of the same request's transaction, and the task, which waits for rows, keeps
  none from one step to the next. So the task that is created before its own
  request commits can only wait for a request that waits for nothing.
* `RunnerProofs`. One invariant: processes belong to calls that have spawned
  them, the group flag is never set on a loop without groups, the demo lock is
  held by the demo in flight, a registered call that never overlapped is the one
  in the fields, and results agree with exits. `ShutdownKills` is an action
  property proved from it. `RunnerKeepsContract` maps each action to a step of
  `RunContract` or a stutter: `StageOfOne` says that a step moves the stage of one
  call only, `OutcomeFits` that `map_outcome_to_state` gives a verdict its exit
  admits, and `ReturnKeepsContract` covers the three ways `run` returns. What it
  needs of the invariant is that the leader is gone on the killed path
  (`KilledIsGone`), that an exit by the runner's own signal is only met after a
  timeout (`StoppedLate`), and that a returned call has a verdict (`VerdictGiven`).
  Nothing is needed of the fields: sharing them costs a call in flight no more
  than the helpers its kill would have reached with the group (`Kill` leaves both
  open), and matters at the shutdown, where `ShutdownKills` excepts the calls that
  overlapped.
* `StripeWebhookProofs`. `OncePerEvent` and `AckedIsRecorded` rest on the
  exclusion of two handlers with one event past its insertion; `OneSale` on the
  exclusion of two uncommitted inserts of one mirror row; convergence, under
  `Serial`, on: a handler that has re-fetched carries what Stripe has, or an
  event of a later change is still unrecorded. `TierFollows` adds which
  subscription the organisation's tier was last taken from.
  `WebhookNeverStands` is the order of the locks: a handler holds an event key
  when it waits for the organisation, and that too when it waits for a mirror
  row. One that holds a mirror row has only its commit left; if none does, one
  that holds the organisation can go on; and otherwise whoever is past its INSERT
  or, if nobody is, whoever is at it. `PayloadInv` supplies that a handler in
  these steps has re-fetched and that the tiers it writes are tiers.
  `WebhookImplementsLedger` needs no `Serial`: `CommitRecords` shows that the
  commit is a `Record` step of the ledger, every other step changes no committed
  variable or is `Emit` or `Acknowledge`.
* `TierGatingProofs`. `SoftCap` alone is not inductive, since an admitted job may
  still be refused by the single-flight test and leave the others behind with a
  smaller plan; `EverySetCapped` says it of every set of jobs let through in a
  month, and holds because the one counted last saw them all, itself included.
  `PreviewHeld` follows from `EntitledSeen`: an entitlement a later read can
  still see was there when the request began or has been recorded since.

* `AccountsProofs`. `AccountsImplementClerk` is a stepping stone: every step of
  the browser or of the checkout leaves the webhook's variables alone, by the frame
  conditions of the composition, so the webhook's invariant can be proved of
  `ClerkSpec` and carries over. That invariant: of two deliveries only one has a row
  uncommitted and none when it is committed; a delivery past an INSERT has the
  row, its own or a committed one; one about to answer has the claim; what a GET
  returned contains the keys the user began with. On it rest `SignupOnce`,
  `AckedIsProvisioned` and `OldKeysKept`. `DashInv` adds that a token has the
  claim only if Clerk does, and that the latch means the cached token has it.
  `SaleIsKnown` needs `OneKey`: as long as a request works with a customer it
  created, the key stands for that customer and no other is on record; and that
  a page is only ever sent for the customer on record. `AccountsKeepPromise` is
  the refinement of `Onboarding`, over the invariants above and `PathInv`: the two
  rows are committed both or not at all, a request past its first SELECT has the
  organisation's rows, and the panel is shown only on a refusal.
  `AnswerCompletes` shows that the Clerk webhook's commit is `Provision` or
  `Acknowledge`, `RedirectOnPath` that the checkout's commit is `RecordCustomer`
  or `Offer`.
* `SessionFlowProofs`. `Reaped` (the reaper touches expired sessions only, files
  before the entry), `Early` (a request in its own hands has not expired) and
  `Unexpired` (an unexpired session has the files its task works on) together
  with `UploadsDeleted` are inductive. `LockIsWorked` is an equivalence and
  inductive by itself: the lock changes hands in the very steps that enter and
  leave the region, on the uncaught exceptions too.

Each abstract specification has a theorem that says what it is worth, for
whatever implements it: `LifecycleIsOrderly`, `ContractIsHonest`, `LedgerIsExact`
and `PromiseIsSound`. They guard against an abstract specification so loose that
refining it would show nothing.

Only model-checked: the liveness properties (`Resolved`, `SlotFreed`,
`RunReturns`, `DemoAnswered`, `EventuallyRecorded`, `EventuallyOpen`,
`EveryTaskEnds`, `EveryEntryGoes`), which need fairness and ENABLED. TLC's own
deadlock check of the `stripe` run stays model-checked too; `WebhookNeverStands` is
its counterpart in terms of the guards, for any number of deliveries.

## 5. Not modelled

Signature and JWT verification, request validation, CORS, rate limiting, logging
and message texts (no state of ours depends on them); R2's consistency beyond
"an acknowledged object exists"; the content of datasets and of the converter's
output; status and period end of the mirror; per-job polling and rendering in the
browser, and the 60 s limit of its PUT, which is the browser's clock; funnel
events, which no part reads; Clerk's user.updated and user.deleted, which the
webhook ignores; SDK and integration texts, whose software is not in the
repository.

## 6. Plan

Done: `JobLifecycle`, `Jobs`, `Runner`, `StripeWebhook`, `TierGating`, the account
modules and `SessionFlow`, with their proofs, and the abstract specifications
`RunContract`, `EventLedger` and `Onboarding` with the refinements. Next, in this order:

1. `Jobs` composed with `Runner`: `Convert` refined by a call of `run`, so that
   the single-flight slot, the demo and shutdown are seen together; the
   converters a demo timeout leaves behind.
2. `Checkout` composed with `StripeWebhook`: from the payment to the tier, with
   the organisation found by the customer that the checkout recorded.
3. Storage keys across organisations; keyset pagination of the jobs list.
4. Proofs: the composition's refinement of `Jobs` and `Runner`; convergence of the
   webhook without `Serial`, for the events that no delivery overlapped.
