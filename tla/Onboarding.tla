------------------------------ MODULE Onboarding ------------------------------
(***************************************************************************)
(* The way of a new user from the sign-up to the first sale as it is meant *)
(* to be: each fact is established once, in one step, after the facts it   *)
(* rests on, and stands for ever.                                          *)
(***************************************************************************)
EXTENDS Naturals

CONSTANTS Table, Customer, NoOne

VARIABLES
  claimed,    \* Clerk's tokens carry the organisation
  rows,       \* tables that have the user's row
  signups,    \* sign-ups counted
  acked,      \* Svix has been told to stop
  open,       \* the dashboard has shown the list of jobs
  customer,   \* the Stripe customer on record
  urls,       \* customers that can pay
  sold        \* customers that have paid

vars == <<claimed, rows, signups, acked, open, customer, urls, sold>>

Init ==
  /\ claimed = FALSE
  /\ rows = {}
  /\ signups = 0
  /\ acked = FALSE
  /\ open = FALSE
  /\ customer = NoOne
  /\ urls = {}
  /\ sold = {}

Provisioned == rows = Table

ShowClaim ==
  /\ claimed' = TRUE
  /\ UNCHANGED <<rows, signups, acked, open, customer, urls, sold>>

(* Both rows and the count, once the claim shows.                          *)
Provision ==
  /\ claimed
  /\ rows = {}
  /\ rows' = Table
  /\ signups' = 1
  /\ acked' \in BOOLEAN
  /\ UNCHANGED <<claimed, open, customer, urls, sold>>

Acknowledge ==
  /\ claimed /\ Provisioned
  /\ acked' = TRUE
  /\ UNCHANGED <<claimed, rows, signups, open, customer, urls, sold>>

Open ==
  /\ claimed
  /\ open' = TRUE
  /\ UNCHANGED <<claimed, rows, signups, acked, customer, urls, sold>>

(* The first upgrade: the customer is on record no later than its URL is   *)
(* in the browser.                                                         *)
RecordCustomer(c) ==
  /\ Provisioned
  /\ customer = NoOne
  /\ customer' = c
  /\ urls' \in {{}, {c}}
  /\ UNCHANGED <<claimed, rows, signups, acked, open, sold>>

Offer ==
  /\ customer # NoOne
  /\ urls' = {customer}
  /\ UNCHANGED <<claimed, rows, signups, acked, open, customer, sold>>

Sell ==
  /\ urls = {customer}
  /\ sold' = {customer}
  /\ UNCHANGED <<claimed, rows, signups, acked, open, customer, urls>>

Next ==
  \/ ShowClaim \/ Provision \/ Acknowledge \/ Open
  \/ \E c \in Customer : RecordCustomer(c)
  \/ Offer \/ Sell

Spec == Init /\ [][Next]_vars
=============================================================================
