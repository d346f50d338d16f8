------------------------------ MODULE Checkout ------------------------------
(***************************************************************************)
(* create_checkout of app/api/billing.py for one organisation: the Stripe  *)
(* customer is created on the first upgrade, under an idempotency key, and *)
(* recorded in a transaction that commits before the URL is sent.  Stripe  *)
(* calls are synchronous: no request of the one worker runs during them.   *)
(* The customer pays on a page whose URL a request has delivered.          *)
(***************************************************************************)
EXTENDS ClerkProvisioning

CONSTANTS
  Request,    \* checkout requests in flight at once
  Customer,   \* customers Stripe can create; their number bounds the runs
  NoOne       \* "no customer", a model value

ASSUME CheckoutAssumption == NoOne \notin Customer

VARIABLES
  customer,   \* orgs.stripe_customer_id
  made,       \* Stripe: customers created for the organisation
  keyed,      \* Stripe: the one remembered for customer-create:<org>
  at,         \* where each request is
  for,        \* the customer it works with
  wrote,      \* requests with an uncommitted UPDATE of the organisation
  urls,       \* customers whose Checkout URL has reached the browser
  sold        \* customers that have paid for a subscription

billVars == <<customer, made, keyed, at, for, wrote, urls, sold>>

BillTypeOK ==
  /\ customer \in Customer \cup {NoOne}
  /\ made \subseteq Customer
  /\ keyed \in Customer \cup {NoOne}
  /\ at \in [Request -> {"idle", "create", "flush", "session"}]
  /\ for \in [Request -> Customer \cup {NoOne}]
  /\ wrote \subseteq Request
  /\ urls \subseteq Customer
  /\ sold \subseteq Customer

BillInit ==
  /\ customer = NoOne
  /\ made = {}
  /\ keyed = NoOne
  /\ at = [r \in Request |-> "idle"]
  /\ for = [r \in Request |-> NoOne]
  /\ wrote = {}
  /\ urls = {}
  /\ sold = {}

-----------------------------------------------------------------------------
(* SELECT the organisation; without its row the answer is 404, which       *)
(* changes nothing.  A recorded customer is used as it is.                 *)
LoadCustomer(r) ==
  /\ at[r] = "idle"
  /\ "orgs" \in rows
  /\ for' = [for EXCEPT ![r] = customer]
  /\ at' = [at EXCEPT ![r] = IF customer = NoOne THEN "create" ELSE "session"]
  /\ UNCHANGED <<customer, made, keyed, wrote, urls, sold, faults>>

(* Fault seeded for the checks: Customer.create without the key.           *)
CreateAnother(r) ==
  /\ at[r] = "create"
  /\ \E c \in Customer \ made :
       /\ made' = made \cup {c}
       /\ keyed' = c
       /\ for' = [for EXCEPT ![r] = c]
  /\ at' = [at EXCEPT ![r] = "flush"]
  /\ UNCHANGED <<customer, wrote, urls, sold, faults>>

(* Customer.create: the same key returns the same customer.                *)
CreateCustomer(r) ==
  /\ at[r] = "create"
  /\ \E c \in IF keyed = NoOne THEN Customer \ made ELSE {keyed} :
       /\ made' = made \cup {c}
       /\ keyed' = c
       /\ for' = [for EXCEPT ![r] = c]
  /\ at' = [at EXCEPT ![r] = "flush"]
  /\ UNCHANGED <<customer, wrote, urls, sold, faults>>

(* UPDATE orgs, which waits for another request's UPDATE.                  *)
FlushCustomer(r) ==
  /\ at[r] = "flush"
  /\ wrote = {}
  /\ wrote' = {r}
  /\ at' = [at EXCEPT ![r] = "session"]
  /\ UNCHANGED <<customer, made, keyed, for, urls, sold, faults>>

Drop(r) ==
  /\ at' = [at EXCEPT ![r] = "idle"]
  /\ for' = [for EXCEPT ![r] = NoOne]
  /\ wrote' = wrote \ {r}

(* Session.create, COMMIT, and the redirect, which may be lost.            *)
Redirect(r) ==
  /\ at[r] = "session"
  /\ customer' = IF r \in wrote THEN for[r] ELSE customer
  /\ urls' \in {urls, urls \cup {for[r]}}
  /\ Drop(r)
  /\ UNCHANGED <<made, keyed, sold, faults>>

(* A Stripe call, a statement or the COMMIT raises, or the worker dies.    *)
CheckoutFails(r) ==
  /\ at[r] # "idle"
  /\ faults < MaxFaults
  /\ faults' = faults + 1
  /\ Drop(r)
  /\ UNCHANGED <<customer, made, keyed, urls, sold>>

Pay(c) ==
  /\ c \in urls \ sold
  /\ sold' = sold \cup {c}
  /\ UNCHANGED <<customer, made, keyed, at, for, wrote, urls, faults>>

(* Stripe keeps a key for a day, a request lasts seconds.                  *)
KeyExpires ==
  /\ keyed # NoOne
  /\ \A r \in Request : at[r] = "idle"
  /\ keyed' = NoOne
  /\ UNCHANGED <<customer, made, at, for, wrote, urls, sold, faults>>

CheckoutStep(r) == CreateCustomer(r) \/ FlushCustomer(r) \/ Redirect(r)

BillNext ==
  \/ \E r \in Request : LoadCustomer(r) \/ CheckoutStep(r) \/ CheckoutFails(r)
  \/ \E c \in Customer : Pay(c)
  \/ KeyExpires

-----------------------------------------------------------------------------
(* Money is only taken from the customer on record: the webhook, which     *)
(* looks the organisation up by its customer and drops the event for ever  *)
(* if there is none, finds it for every subscription that was paid.        *)
SaleIsKnown == sold \subseteq {customer}
=============================================================================
