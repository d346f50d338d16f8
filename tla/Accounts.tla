------------------------------ MODULE Accounts ------------------------------
(***************************************************************************)
(* From the sign-up to the first sale: the Clerk webhook, the dashboard    *)
(* and the checkout, joined by Clerk's metadata (written by the webhook,   *)
(* read at every mint), the organisation's row (committed by the webhook,  *)
(* read by the checkout) and the session token, which the middleware       *)
(* demands before either handler runs.                                     *)
(***************************************************************************)
EXTENDS Dashboard, Checkout

vars == <<clerkVars, dashVars, billVars, faults>>

TypeOK == ClerkTypeOK /\ DashTypeOK /\ BillTypeOK /\ faults \in 0..MaxFaults

Init == ClerkInit /\ DashInit /\ BillInit /\ faults = 0

(* The middleware: without the claim a request ends in 403 before it       *)
(* reaches its handler.                                                    *)
Dispatch(r) == Authorised /\ LoadCustomer(r)

BillStep ==
  \/ \E r \in Request : Dispatch(r) \/ CheckoutStep(r) \/ CheckoutFails(r)
  \/ \E c \in Customer : Pay(c)
  \/ KeyExpires

Next ==
  \/ ClerkNext /\ UNCHANGED <<dashVars, billVars>>
  \/ DashNext /\ UNCHANGED <<clerkVars, billVars>>
  \/ BillStep /\ UNCHANGED <<clerkVars, dashVars>>

Spec == Init /\ [][Next]_vars

(* Svix retries until it is acknowledged, a handler runs on, the list is   *)
(* fetched again every 3 s and a cached token expires within a minute.     *)
Retry == ~acked /\ \E d \in Delivery : Deliver(d)

FairSpec ==
  /\ Spec
  /\ WF_vars(Retry /\ UNCHANGED <<dashVars, billVars>>)
  /\ \A d \in Delivery : WF_vars(DeliveryStep(d) /\ UNCHANGED <<dashVars, billVars>>)
  /\ WF_vars((JobsAnswered \/ Refetch) /\ UNCHANGED <<clerkVars, billVars>>)
  /\ WF_vars(Remint /\ UNCHANGED <<clerkVars, billVars>>)

(* However deliveries, probes and checkouts overlap, fail and repeat, what *)
(* the user, Svix and Stripe see is one pass through Onboarding.           *)
Promise == INSTANCE Onboarding WITH claimed <- Claim, open <- (jobs = "success")

KeepsPromise == Promise!Spec

(* Every sign-up ends at an open dashboard with its organisation on        *)
(* record, without a click, though the claim shows before the row does     *)
(* and a rolled-back delivery leaves the claim without the row.            *)
EventuallyOpen == <>[](jobs = "success" /\ "orgs" \in rows)
=============================================================================
