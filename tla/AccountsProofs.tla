--------------------------- MODULE AccountsProofs ---------------------------
(***************************************************************************)
(* Proofs about Accounts, for any number of deliveries, metadata keys,     *)
(* requests and customers, and any bounds.  Each component has an          *)
(* inductive invariant of its own; a step of one component leaves the      *)
(* variables of the others alone, and what crosses the border is stated in *)
(* the frame lemmas: the claim, once there, stays.                         *)
(***************************************************************************)
EXTENDS Accounts, TLAPS

(* The accounts' steps are steps of the Clerk webhook, or leave it alone.  *)
LEMMA AccountsImplementClerk == Spec => ClerkSpec
<1>1. Init => ClerkInit
  BY DEF Init
<1>2. [Next]_vars => [ClerkNext]_clerkVars
  BY DEF Next, vars, BillStep, DashNext
<1> QED
  BY <1>1, <1>2, PTL DEF Spec, ClerkSpec

-----------------------------------------------------------------------------
(***************************************************************************)
(* The webhook.                                                            *)
(***************************************************************************)
(* A row being inserted is committed nowhere and inserted by no other.     *)
InsertedOnce ==
  \A d \in Delivery : \A t \in inserted[d] :
    t \notin rows /\ \A g \in Delivery \ {d} : t \notin inserted[g]

(* What a delivery that has come this far will have committed.             *)
Passed ==
  \A d \in Delivery :
    /\ pc[d] = "idle" => inserted[d] = {}
    /\ pc[d] \in {"users", "get", "patch", "answer"} => "orgs" \in rows \cup inserted[d]
    /\ pc[d] \in {"get", "patch", "answer"} => "users" \in rows \cup inserted[d]
    /\ pc[d] = "answer" => Claim

ReadKeepsOld == \A d \in Delivery : pc[d] = "patch" => old \subseteq read[d]

ClerkInv ==
  /\ ClerkTypeOK
  /\ SignupOnce
  /\ InsertedOnce
  /\ Passed
  /\ AckedIsProvisioned
  /\ ReadKeepsOld
  /\ OldKeysKept

(* One lemma per kind of step.                                             *)
LEMMA InsertKeeps ==
  ASSUME ClerkInv, NEW d \in Delivery, NEW t, NEW next, Insert(d, t, next),
         (t = "orgs" /\ next = "users") \/ (t = "users" /\ next = "get")
  PROVE  ClerkInv'
<1> USE ClerkAssumption DEF ClerkTypeOK, Table, Claim
<1>1. /\ pc[d] = t /\ pc' = [pc EXCEPT ![d] = next]
      /\ \A g \in Delivery \ {d} : t \notin inserted[g]
      /\ UNCHANGED <<rows, signups, meta, old, acked, read, resends>>
  BY DEF Insert
<1>2. /\ \A g \in Delivery \ {d} : inserted'[g] = inserted[g]
      /\ inserted'[d] = IF t \in rows THEN inserted[d] ELSE inserted[d] \cup {t}
      /\ inserted' \in [Delivery -> SUBSET Table]
  BY DEF Insert, ClerkInv
<1>3. ClerkTypeOK'
  BY <1>1, <1>2 DEF ClerkInv
<1>4. SignupOnce' /\ AckedIsProvisioned' /\ OldKeysKept' /\ ReadKeepsOld'
  BY <1>1 DEF ClerkInv, SignupOnce, AckedIsProvisioned, OldKeysKept, ReadKeepsOld
<1>5. InsertedOnce'
  BY <1>1, <1>2 DEF ClerkInv, InsertedOnce
<1>6. Passed'
  BY <1>1, <1>2 DEF ClerkInv, Passed
<1> QED
  BY <1>3, <1>4, <1>5, <1>6 DEF ClerkInv

LEMMA AnswerKeeps ==
  ASSUME ClerkInv, NEW d \in Delivery, Answer(d)
  PROVE  ClerkInv'
<1> USE ClerkAssumption DEF ClerkTypeOK, Table, Claim
<1>1. /\ pc[d] = "answer" /\ pc' = [pc EXCEPT ![d] = "idle"]
      /\ inserted' = [inserted EXCEPT ![d] = {}] /\ read' = [read EXCEPT ![d] = {}]
      /\ rows' = rows \cup inserted[d]
      /\ signups' = IF "users" \in inserted[d] THEN signups + 1 ELSE signups
      /\ acked' \in {acked, TRUE}
      /\ UNCHANGED <<meta, old, resends>>
  BY DEF Answer, Forget
<1>2. ClerkTypeOK'
  <2>1. acked' \in BOOLEAN
    BY <1>1 DEF ClerkInv
  <2>2. signups' \in Nat
    BY <1>1 DEF ClerkInv
  <2>3. inserted[d] \subseteq Table /\ rows' \subseteq Table
    BY <1>1 DEF ClerkInv
  <2>4. /\ pc' \in [Delivery -> {"idle", "orgs", "users", "get", "patch", "answer"}]
        /\ inserted' \in [Delivery -> SUBSET Table]
        /\ read' \in [Delivery -> SUBSET (Key \cup {OrgId})]
    BY <1>1 DEF ClerkInv
  <2> QED
    BY <1>1, <2>1, <2>2, <2>3, <2>4 DEF ClerkInv
<1>3. SignupOnce'
  BY <1>1 DEF ClerkInv, SignupOnce, InsertedOnce
<1>4. InsertedOnce'
  BY <1>1 DEF ClerkInv, InsertedOnce
<1>5. Passed' /\ ReadKeepsOld' /\ OldKeysKept'
  BY <1>1 DEF ClerkInv, Passed, ReadKeepsOld, OldKeysKept
<1>6. rows' = Table /\ Claim'
  BY <1>1 DEF ClerkInv, Passed
<1>7. AckedIsProvisioned'
  BY <1>6 DEF AckedIsProvisioned
<1> QED
  BY <1>2, <1>3, <1>4, <1>5, <1>7 DEF ClerkInv

LEMMA ClerkStep == ClerkInv /\ [ClerkNext]_clerkVars => ClerkInv'
<1> SUFFICES ASSUME ClerkInv, [ClerkNext]_clerkVars PROVE ClerkInv'
  OBVIOUS
<1> USE ClerkAssumption
    DEF ClerkInv, ClerkTypeOK, SignupOnce, InsertedOnce, Passed, AckedIsProvisioned,
        ReadKeepsOld, OldKeysKept, Claim, Table
<1>1. ASSUME NEW d \in Delivery, Deliver(d) PROVE ClerkInv'
  BY <1>1 DEF Deliver
<1>2. ASSUME NEW k \in Key, WriteKey(k) PROVE ClerkInv'
  BY <1>2 DEF WriteKey
<1>3. ASSUME NEW d \in Delivery, InsertOrg(d) \/ InsertUser(d) PROVE ClerkInv'
  <2> HIDE DEF ClerkInv
  <2>1. CASE InsertOrg(d)
    <3>1. Insert(d, "orgs", "users")
      BY <2>1 DEF InsertOrg
    <3> QED
      BY <3>1, InsertKeeps
  <2>2. CASE InsertUser(d)
    <3>1. Insert(d, "users", "get")
      BY <2>2 DEF InsertUser
    <3> QED
      BY <3>1, InsertKeeps
  <2> QED
    BY <1>3, <2>1, <2>2
<1>4. ASSUME NEW d \in Delivery, GetClerkUser(d) PROVE ClerkInv'
  BY <1>4 DEF GetClerkUser
<1>5. ASSUME NEW d \in Delivery, PatchClerkUser(d) PROVE ClerkInv'
  BY <1>5 DEF PatchClerkUser
<1>6. ASSUME NEW d \in Delivery, Answer(d) PROVE ClerkInv'
  BY <1>6, AnswerKeeps
<1>7. ASSUME NEW d \in Delivery, DeliveryFails(d) PROVE ClerkInv'
  BY <1>7 DEF DeliveryFails, Forget
<1>8. CASE UNCHANGED clerkVars
  BY <1>8 DEF clerkVars
<1> QED
  BY <1>1, <1>2, <1>3, <1>4, <1>5, <1>6, <1>7, <1>8 DEF ClerkNext, DeliveryStep

LEMMA ClerkInvariant == ClerkSpec => []ClerkInv
<1>1. ClerkInit => ClerkInv
  <2> SUFFICES ASSUME ClerkInit PROVE ClerkInv
    OBVIOUS
  <2>1. ClerkTypeOK
    <3>1. acked \in BOOLEAN
      BY DEF ClerkInit
    <3>2. /\ pc \in [Delivery -> {"idle", "orgs", "users", "get", "patch", "answer"}]
          /\ inserted \in [Delivery -> SUBSET Table]
          /\ read \in [Delivery -> SUBSET (Key \cup {OrgId})]
      BY DEF ClerkInit
    <3>3. rows \subseteq Table /\ meta \subseteq Key \cup {OrgId} /\ old \subseteq Key
      BY DEF ClerkInit
    <3>4. signups \in Nat /\ resends \in 0..MaxResends
      BY ClerkAssumption DEF ClerkInit
    <3> QED
      BY <3>1, <3>2, <3>3, <3>4 DEF ClerkTypeOK
  <2>2. SignupOnce /\ AckedIsProvisioned /\ OldKeysKept
    BY DEF ClerkInit, SignupOnce, AckedIsProvisioned, OldKeysKept
  <2>3. InsertedOnce /\ Passed /\ ReadKeepsOld
    BY DEF ClerkInit, InsertedOnce, Passed, ReadKeepsOld
  <2> QED
    BY <2>1, <2>2, <2>3 DEF ClerkInv
<1> QED
  BY <1>1, ClerkStep, PTL DEF ClerkSpec

(* However deliveries are retried, doubled or rolled back, the sign-up is  *)
(* counted once, with the committed user.                                  *)
THEOREM SignupCountedOnce == Spec => []SignupOnce
BY ClerkInvariant, AccountsImplementClerk, PTL DEF ClerkInv

(* A 200 to Svix means both rows and the claim.                            *)
THEOREM AckMeansProvisioned == Spec => []AckedIsProvisioned
BY ClerkInvariant, AccountsImplementClerk, PTL DEF ClerkInv

(* The read-modify-write of the metadata keeps what the user came with.    *)
THEOREM MetadataKept == Spec => []OldKeysKept
BY ClerkInvariant, AccountsImplementClerk, PTL DEF ClerkInv

-----------------------------------------------------------------------------
(***************************************************************************)
(* The dashboard.                                                          *)
(***************************************************************************)
(* No step of the webhook takes the claim away.                            *)
LEMMA ClaimStays == [Next]_vars /\ Claim => Claim'
BY DEF Next, vars, clerkVars, ClerkNext, DeliveryStep, Deliver, WriteKey, InsertOrg,
   InsertUser, Insert, GetClerkUser, PatchClerkUser, Answer, DeliveryFails, Claim

DashInv ==
  /\ DashTypeOK
  /\ token = "claimed" => Claim
  /\ provisioned => token = "claimed"
  /\ NoFlash

LEMMA DashStep == DashInv /\ [Next]_vars => DashInv'
<1> SUFFICES ASSUME DashInv, [Next]_vars PROVE DashInv'
  OBVIOUS
<1> USE DashboardAssumption
    DEF DashInv, DashTypeOK, NoFlash, Mint, Authorised, shouldRetryProvisionProbe
<1>1. CASE DashNext /\ UNCHANGED clerkVars
  <2>1. Claim' <=> Claim
    BY <1>1 DEF clerkVars, Claim
  <2>2. CASE JobsAnswered \/ JobsFailed \/ Refetch
    BY <2>1, <2>2 DEF JobsAnswered, JobsFailed, Refetch
  <2>3. CASE ProbeSucceeds
    BY <2>1, <2>3 DEF ProbeSucceeds
  <2>4. CASE ProbeRefused
    BY <2>1, <2>4 DEF ProbeRefused
  <2>5. CASE ProbeFailed \/ RetryClicked
    BY <2>1, <2>5 DEF ProbeFailed, RetryClicked
  <2>6. CASE Remint
    BY <2>1, <2>6 DEF Remint
  <2> QED
    BY <1>1, <2>2, <2>3, <2>4, <2>5, <2>6 DEF DashNext, ProbeStep
<1>2. CASE UNCHANGED dashVars
  BY <1>2, ClaimStays DEF dashVars
<1> QED
  BY <1>1, <1>2 DEF Next, vars

LEMMA DashInvariant == Spec => []DashInv
<1>1. Init => DashInv
  <2>1. 0 \in 0..MaxProbes
    BY DashboardAssumption
  <2> QED
    BY <2>1, Zenon DEF Init, DashInit, DashInv, DashTypeOK, NoFlash
<1> QED
  BY <1>1, DashStep, PTL DEF Spec

(* After the panel has handed over, no answer shows the missing claim.     *)
THEOREM NoFlashAfterReady == Spec => []NoFlash
BY DashInvariant, PTL DEF DashInv

-----------------------------------------------------------------------------
(***************************************************************************)
(* The checkout.                                                           *)
(***************************************************************************)
(* As long as a request works with a created customer the key stands for   *)
(* it and no other is on record.                                           *)
Creating(r) == at[r] \in {"create", "flush"} \/ r \in wrote

OneKey ==
  \A r \in Request :
    /\ r \in wrote => at[r] = "session"
    /\ Creating(r) => customer \in {NoOne, keyed}
    /\ at[r] = "flush" \/ r \in wrote => for[r] = keyed /\ keyed # NoOne
    /\ at[r] = "session" /\ r \notin wrote => for[r] = customer /\ customer # NoOne

BillInv == BillTypeOK /\ OneKey /\ urls \subseteq {customer} /\ sold \subseteq urls

LEMMA BillStepKeeps == BillInv /\ [Next]_vars => BillInv'
<1> SUFFICES ASSUME BillInv, [Next]_vars PROVE BillInv'
  OBVIOUS
<1> USE CheckoutAssumption DEF BillInv, BillTypeOK, OneKey, Creating
<1>1. ASSUME NEW r \in Request, LoadCustomer(r) PROVE BillInv'
  BY <1>1 DEF LoadCustomer
<1>2. ASSUME NEW r \in Request, CreateCustomer(r) PROVE BillInv'
  <2>1. PICK c \in Customer :
          /\ keyed # NoOne => c = keyed
          /\ made' = made \cup {c} /\ keyed' = c
          /\ for' = [for EXCEPT ![r] = c] /\ at' = [at EXCEPT ![r] = "flush"]
          /\ at[r] = "create" /\ UNCHANGED <<customer, wrote, urls, sold>>
    BY <1>2 DEF CreateCustomer
  <2> QED
    BY <2>1
<1>3. ASSUME NEW r \in Request, FlushCustomer(r) PROVE BillInv'
  BY <1>3 DEF FlushCustomer
<1>4. ASSUME NEW r \in Request, Redirect(r) PROVE BillInv'
  <2>1. /\ at[r] = "session" /\ at' = [at EXCEPT ![r] = "idle"]
        /\ for' = [for EXCEPT ![r] = NoOne] /\ wrote' = wrote \ {r}
        /\ customer' = (IF r \in wrote THEN for[r] ELSE customer)
        /\ urls' \in {urls, urls \cup {for[r]}} /\ UNCHANGED <<made, keyed, sold>>
    BY <1>4 DEF Redirect, Drop
  <2>2. for[r] \in Customer /\ customer' = for[r] /\ customer \in {NoOne, customer'}
    BY <2>1
  <2>3. urls \subseteq {customer'}
    BY <2>2
  <2>4. BillTypeOK' /\ urls' \subseteq {customer'} /\ sold' \subseteq urls'
    BY <2>1, <2>2, <2>3
  <2>5. OneKey'
    BY <2>1, <2>2
  <2> QED
    BY <2>4, <2>5
<1>5. ASSUME NEW r \in Request, CheckoutFails(r) PROVE BillInv'
  BY <1>5 DEF CheckoutFails, Drop
<1>6. ASSUME NEW c \in Customer, Pay(c) PROVE BillInv'
  BY <1>6 DEF Pay
<1>7. CASE KeyExpires
  BY <1>7 DEF KeyExpires
<1>8. CASE UNCHANGED billVars
  BY <1>8 DEF billVars
<1> QED
  BY <1>1, <1>2, <1>3, <1>4, <1>5, <1>6, <1>7, <1>8
  DEF Next, vars, BillStep, Dispatch, CheckoutStep

LEMMA BillInvariant == Spec => []BillInv
<1>1. Init => BillInv
  BY DEF Init, BillInit, BillInv, BillTypeOK, OneKey, Creating
<1> QED
  BY <1>1, BillStepKeeps, PTL DEF Spec

(* Whatever fails, overlaps or expires, only the recorded customer pays.   *)
THEOREM SaleOfRecord == Spec => []SaleIsKnown
<1>1. BillInv => SaleIsKnown
  BY DEF BillInv, SaleIsKnown
<1> QED
  BY <1>1, BillInvariant, PTL

-----------------------------------------------------------------------------
(***************************************************************************)
(* The three together.  A first commit brings both rows, so a checkout,    *)
(* which has seen one of them, works for a provisioned organisation; and a *)
(* list that has been shown is not fetched by the panel again.             *)
(***************************************************************************)
BothOrNone == rows \in {{}, Table}

CheckoutHasOrg ==
  /\ \A r \in Request : at[r] # "idle" => rows = Table
  /\ customer # NoOne => rows = Table

PanelIsRefusal == probe # "off" => jobs = "noorg"

PathInv == BothOrNone /\ CheckoutHasOrg /\ PanelIsRefusal

(* Whatever a delivery commits, everything is on record after it.          *)
LEMMA AnswerCompletes ==
  ASSUME ClerkInv, BothOrNone, NEW d \in Delivery, Answer(d)
  PROVE  /\ Claim /\ rows' = Table /\ signups' = 1 /\ acked' \in {acked, TRUE}
         /\ rows = Table => signups' = signups
         /\ UNCHANGED <<meta, old>>
<1> USE DEF Table
<1>1. rows' = Table /\ Claim
  BY DEF ClerkInv, ClerkTypeOK, Passed, Answer
<1>2. signups' = 1
  BY <1>1, AnswerKeeps DEF ClerkInv, SignupOnce
<1>3. rows = Table => signups = 1
  BY DEF ClerkInv, SignupOnce
<1> QED
  BY <1>1, <1>2, <1>3 DEF Answer

(* The other steps of the webhook commit nothing.                          *)
LEMMA ClerkStepCases ==
  ASSUME ClerkNext
  PROVE  \/ \E d \in Delivery : Answer(d) \/ PatchClerkUser(d)
         \/ UNCHANGED <<rows, signups, acked>> /\ (Claim' <=> Claim)
BY ClerkAssumption
DEF ClerkNext, DeliveryStep, Deliver, WriteKey, InsertOrg, InsertUser, Insert, GetClerkUser,
    DeliveryFails, Claim

LEMMA PathStep == ClerkInv /\ BillInv /\ PathInv /\ [Next]_vars => PathInv'
<1> SUFFICES ASSUME ClerkInv, BillInv, PathInv, [Next]_vars PROVE PathInv'
  OBVIOUS
<1> USE DEF PathInv, BothOrNone, CheckoutHasOrg, PanelIsRefusal
<1>1. CASE ClerkNext /\ UNCHANGED <<dashVars, billVars>>
  <2>1. rows' = rows \/ rows' = Table
    BY <1>1, ClerkStepCases, AnswerCompletes DEF PatchClerkUser
  <2> QED
    BY <1>1, <2>1 DEF dashVars, billVars
<1>2. CASE DashNext /\ UNCHANGED <<clerkVars, billVars>>
  BY <1>2 DEF clerkVars, billVars, DashNext, ProbeStep, JobsAnswered, JobsFailed, Refetch,
     ProbeSucceeds, ProbeRefused, ProbeFailed, RetryClicked, Remint
<1>3. CASE BillStep /\ UNCHANGED <<clerkVars, dashVars>>
  <2> USE <1>3 DEF clerkVars, dashVars, BillInv, BillTypeOK
  <2>1. ASSUME NEW r \in Request, LoadCustomer(r) PROVE PathInv'
    <3>1. rows = Table
      BY <2>1 DEF LoadCustomer
    <3> QED
      BY <3>1
  <2>2. ASSUME NEW r \in Request, CheckoutStep(r) \/ CheckoutFails(r) PROVE PathInv'
    <3>1. rows = Table
      BY <2>2 DEF CheckoutStep, CreateCustomer, FlushCustomer, Redirect, CheckoutFails
    <3> QED
      BY <3>1
  <2>3. ASSUME (\E c \in Customer : Pay(c)) \/ KeyExpires PROVE PathInv'
    BY <2>3 DEF Pay, KeyExpires
  <2> QED
    BY <2>1, <2>2, <2>3 DEF BillStep, Dispatch
<1>4. CASE UNCHANGED vars
  BY <1>4 DEF vars, clerkVars, dashVars, billVars
<1> QED
  BY <1>1, <1>2, <1>3, <1>4 DEF Next

LEMMA PathInvariant == Spec => []PathInv
<1>1. Init => PathInv
  BY DEF Init, ClerkInit, DashInit, BillInit, PathInv, BothOrNone, CheckoutHasOrg,
     PanelIsRefusal
<1> QED
  BY <1>1, PathStep, ClerkInvariant, AccountsImplementClerk, BillInvariant, PTL DEF Spec

(* The redirect puts the customer on record, or offers the one that is.    *)
LEMMA RedirectOnPath ==
  ASSUME BillInv, CheckoutHasOrg, NEW r \in Request, Redirect(r),
         UNCHANGED <<clerkVars, dashVars>>
  PROVE  Promise!Next \/ UNCHANGED Promise!vars
<1> USE CheckoutAssumption DEF Promise!vars, clerkVars, dashVars, Claim
<1>1. /\ rows = Table /\ for[r] \in Customer /\ customer \in {NoOne, for[r]}
      /\ customer' = for[r] /\ urls \subseteq {customer} /\ NoOne \notin urls
      /\ urls' \in {urls, urls \cup {for[r]}} /\ sold' = sold
  BY DEF Redirect, CheckoutHasOrg, BillInv, BillTypeOK, OneKey, Creating
<1>2. CASE customer = NoOne
  <2>1. Promise!RecordCustomer(for[r])
    BY <1>1, <1>2 DEF Promise!RecordCustomer, Promise!Provisioned
  <2> QED
    BY <1>1, <2>1 DEF Promise!Next
<1>3. CASE customer = for[r]
  <2>1. urls' = urls \/ urls' = {customer}
    BY <1>1, <1>3
  <2>2. Promise!Offer \/ UNCHANGED Promise!vars
    BY <1>1, <1>3, <2>1 DEF Promise!Offer
  <2> QED
    BY <2>2 DEF Promise!Next
<1> QED
  BY <1>1, <1>2, <1>3

(* From the sign-up to the sale: however deliveries, probes and checkouts  *)
(* overlap, fail and repeat, every fact is established once, after those   *)
(* it rests on, and never taken back.                                      *)
THEOREM AccountsKeepPromise == Spec => KeepsPromise
<1> USE DEF Promise!vars
<1>1. Init => Promise!Init
  BY ClerkAssumption DEF Init, ClerkInit, DashInit, BillInit, Promise!Init, Claim
<1>2. ClerkInv /\ DashInv /\ BillInv /\ PathInv /\ [Next]_vars =>
        [Promise!Next]_(Promise!vars)
  <2> SUFFICES ASSUME ClerkInv, DashInv, BillInv, PathInv, [Next]_vars
               PROVE  Promise!Next \/ UNCHANGED Promise!vars
    OBVIOUS
  <2>1. CASE ClerkNext /\ UNCHANGED <<dashVars, billVars>>
    <3> USE <2>1 DEF dashVars, billVars
    <3>1. ASSUME NEW d \in Delivery, PatchClerkUser(d) PROVE Promise!Next
      <4>1. Promise!ShowClaim
        BY <3>1 DEF PatchClerkUser, Promise!ShowClaim, Claim
      <4> QED
        BY <4>1 DEF Promise!Next
    <3>2. ASSUME NEW d \in Delivery, Answer(d)
          PROVE  Promise!Next \/ UNCHANGED Promise!vars
      <4>1. /\ Claim /\ rows' = Table /\ signups' = 1 /\ acked' \in {acked, TRUE}
            /\ rows = Table => signups' = signups
            /\ UNCHANGED meta
        BY <3>2, AnswerCompletes DEF PathInv
      <4>2. acked \in BOOLEAN
        BY DEF ClerkInv, ClerkTypeOK
      <4>3. CASE rows = {}
        <5>1. Promise!Provision
          BY <4>1, <4>2, <4>3 DEF Promise!Provision, Claim
        <5> QED
          BY <5>1 DEF Promise!Next
      <4>4. CASE rows = Table /\ acked' = acked
        BY <4>1, <4>4 DEF Claim
      <4>5. CASE rows = Table /\ acked' = TRUE
        <5>1. Promise!Acknowledge
          BY <4>1, <4>5 DEF Promise!Acknowledge, Promise!Provisioned, Claim
        <5> QED
          BY <5>1 DEF Promise!Next
      <4> QED
        BY <4>1, <4>3, <4>4, <4>5 DEF PathInv, BothOrNone
    <3>3. CASE UNCHANGED <<rows, signups, acked>> /\ (Claim' <=> Claim)
      BY <3>3 DEF Claim
    <3> QED
      BY <3>1, <3>2, <3>3, ClerkStepCases
  <2>2. CASE DashNext /\ UNCHANGED <<clerkVars, billVars>>
    <3> USE <2>2 DEF clerkVars, billVars, Claim
    <3>1. CASE JobsAnswered /\ Authorised
      <4>1. Claim /\ jobs' = "success"
        BY <3>1 DEF JobsAnswered, Authorised, DashInv
      <4>2. Promise!Open
        BY <4>1 DEF Promise!Open
      <4> QED
        BY <4>2 DEF Promise!Next
    <3>2. CASE ~(JobsAnswered /\ Authorised)
      <4>1. jobs' = jobs \/ (jobs # "success" /\ jobs' # "success")
        BY <3>2 DEF PathInv, PanelIsRefusal, DashNext, ProbeStep, JobsAnswered, JobsFailed,
           Refetch, ProbeSucceeds, ProbeRefused, ProbeFailed, RetryClicked, Remint
      <4> QED
        BY <4>1
    <3> QED
      BY <3>1, <3>2
  <2>3. CASE BillStep /\ UNCHANGED <<clerkVars, dashVars>>
    <3> USE <2>3
    <3>1. ASSUME NEW r \in Request, Redirect(r) PROVE Promise!Next \/ UNCHANGED Promise!vars
      BY <3>1, RedirectOnPath DEF PathInv
    <3>2. ASSUME NEW c \in Customer, Pay(c) PROVE Promise!Next
      <4>1. urls = {customer} /\ sold' = {customer}
        BY <3>2 DEF Pay, BillInv
      <4>2. Promise!Sell
        BY <3>2, <4>1 DEF Pay, Promise!Sell, clerkVars, dashVars, Claim
      <4> QED
        BY <4>2 DEF Promise!Next
    <3>3. ASSUME NEW r \in Request,
                 LoadCustomer(r) \/ CreateCustomer(r) \/ FlushCustomer(r) \/ CheckoutFails(r)
          PROVE  UNCHANGED Promise!vars
      BY <3>3 DEF LoadCustomer, CreateCustomer, FlushCustomer, CheckoutFails, clerkVars,
         dashVars, Claim
    <3>4. CASE KeyExpires
      BY <3>4 DEF KeyExpires, clerkVars, dashVars, Claim
    <3> QED
      BY <3>1, <3>2, <3>3, <3>4 DEF BillStep, Dispatch, CheckoutStep
  <2>4. CASE UNCHANGED vars
    BY <2>4 DEF vars, clerkVars, dashVars, billVars, Claim
  <2> QED
    BY <2>1, <2>2, <2>3, <2>4 DEF Next
<1> QED
  BY <1>1, <1>2, ClerkInvariant, AccountsImplementClerk, DashInvariant, BillInvariant,
     PathInvariant, PTL
  DEF Spec, KeepsPromise, Promise!Spec

(* What the promise is worth: a sign-up is counted once and acknowledged   *)
(* when everything stands, and whoever pays is the customer on record.     *)
THEOREM PromiseIsSound ==
  KeepsPromise => [](SignupOnce /\ AckedIsProvisioned /\ SaleIsKnown)
<1> DEFINE PromiseInv ==
      /\ rows \in {{}, Table}
      /\ signups = IF rows = Table THEN 1 ELSE 0
      /\ rows = Table => Claim
      /\ acked \in BOOLEAN /\ (acked => rows = Table)
      /\ urls \subseteq {customer} /\ sold \subseteq urls
      /\ customer = NoOne => urls = {}
<1> USE DEF Table
<1>1. Promise!Init => PromiseInv
  BY DEF Promise!Init
<1>2. PromiseInv /\ [Promise!Next]_(Promise!vars) => PromiseInv'
  <2> SUFFICES ASSUME PromiseInv, [Promise!Next]_(Promise!vars) PROVE PromiseInv'
    OBVIOUS
  <2> HIDE DEF Claim
  <2>1. CASE Promise!ShowClaim \/ Promise!Open
    BY <2>1 DEF Promise!ShowClaim, Promise!Open
  <2>2. CASE Promise!Provision
    BY <2>2 DEF Promise!Provision
  <2>3. CASE Promise!Acknowledge
    BY <2>3 DEF Promise!Acknowledge, Promise!Provisioned
  <2>4. ASSUME NEW c \in Customer, Promise!RecordCustomer(c) PROVE PromiseInv'
    BY <2>4, CheckoutAssumption DEF Promise!RecordCustomer
  <2>5. CASE Promise!Offer \/ Promise!Sell
    BY <2>5 DEF Promise!Offer, Promise!Sell
  <2>6. CASE UNCHANGED Promise!vars
    BY <2>6 DEF Promise!vars
  <2> QED
    BY <2>1, <2>2, <2>3, <2>4, <2>5, <2>6 DEF Promise!Next
<1>3. PromiseInv => SignupOnce /\ AckedIsProvisioned /\ SaleIsKnown
  BY DEF SignupOnce, AckedIsProvisioned, SaleIsKnown
<1> QED
  BY <1>1, <1>2, <1>3, PTL DEF KeepsPromise, Promise!Spec

-----------------------------------------------------------------------------
(* Every variable keeps its type, and faults their bound.                  *)
THEOREM AccountsTyped == Spec => []TypeOK
<1>1. Init => faults \in 0..MaxFaults
  BY ClerkAssumption DEF Init
<1>2. faults \in 0..MaxFaults /\ [Next]_vars => (faults \in 0..MaxFaults)'
  <2> SUFFICES ASSUME faults \in 0..MaxFaults, [Next]_vars
               PROVE  faults' \in 0..MaxFaults
    OBVIOUS
  <2>1. faults' = faults \/ (faults < MaxFaults /\ faults' = faults + 1)
    BY DEF Next, vars, ClerkNext, DeliveryStep, Deliver, WriteKey, InsertOrg, InsertUser,
       Insert, GetClerkUser, PatchClerkUser, Answer, DeliveryFails, DashNext, ProbeStep,
       JobsAnswered, JobsFailed, Refetch, ProbeSucceeds, ProbeRefused, ProbeFailed,
       RetryClicked, Remint, BillStep, Dispatch, LoadCustomer, CheckoutStep,
       CreateCustomer, FlushCustomer, Redirect, CheckoutFails, Pay, KeyExpires
  <2> QED
    BY <2>1, ClerkAssumption
<1>3. Spec => [](faults \in 0..MaxFaults)
  BY <1>1, <1>2, PTL DEF Spec
<1>4. ClerkInv /\ DashInv /\ BillInv /\ faults \in 0..MaxFaults => TypeOK
  BY DEF ClerkInv, DashInv, BillInv, TypeOK
<1> QED
  BY <1>3, <1>4, ClerkInvariant, AccountsImplementClerk, DashInvariant, BillInvariant, PTL
=============================================================================
