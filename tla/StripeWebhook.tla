--------------------------- MODULE StripeWebhook ----------------------------
(***************************************************************************)
(* The Stripe webhook of app/api/billing.py: one transaction per delivery  *)
(* that inserts the event's row, re-fetches the object from Stripe and     *)
(* writes the organisation's tier, the subscription mirror and the usage   *)
(* rows.  One organisation; its subscriptions are Known, the others belong *)
(* to customers the database does not have.                                *)
(*                                                                         *)
(* The database is READ COMMITTED.  A handler's uncommitted writes are its *)
(* newTier and newSub, which lock the rows they change; an inserted event  *)
(* row locks its key.  Stripe delivers at least once, in any order.        *)
(***************************************************************************)
EXTENDS FiniteSets, Naturals

CONSTANTS
  Sub,           \* Stripe subscriptions
  Known,         \* those whose customer is an organisation of ours
  SubEvent,      \* ids for customer.subscription.* events
  InvoiceEvent,  \* ids for invoice.paid and invoice.payment_failed events
  Handler,       \* webhook requests in flight at once
  Nothing,       \* "no value", a model value
  Serial,        \* TRUE: Stripe never has two deliveries in flight
  MaxFaults      \* bound on failed or killed handlers

Event == SubEvent \cup InvoiceEvent
Paid  == {"solo", "team"}
Tier  == {"free"} \cup Paid

ASSUME WebhookAssumption ==
  /\ Known \subseteq Sub
  /\ SubEvent \cap InvoiceEvent = {}
  /\ Nothing \notin Sub \cup Event \cup Tier
  /\ Serial \in BOOLEAN
  /\ MaxFaults \in Nat

VARIABLES
  truth,      \* Stripe: the tier each subscription's status and price stand for
  about,      \* Stripe: the subscription of each emitted event, or Nothing
  acked,      \* Stripe: events answered with a 2xx
  recorded,   \* stripe_events rows
  tier,       \* orgs.tier
  mirror,     \* subscriptions.tier, Nothing without a row
  checkouts,  \* checkout_completed rows for each subscription
  invoices,   \* invoice rows for each event
  pc,         \* where each handler is
  ev,         \* the event a handler processes, or Nothing
  seen,       \* the tier it re-fetched
  loaded,     \* orgs.tier when it loaded the row
  found,      \* the mirror row when it looked
  newTier,    \* its uncommitted UPDATE of the organisation, or Nothing
  newSub,     \* its uncommitted INSERT or UPDATE of the mirror, or Nothing
  faults

stripeVars  == <<truth, about, acked>>
dbVars      == <<recorded, tier, mirror, checkouts, invoices>>
localVars   == <<ev, seen, loaded, found, newTier, newSub>>
vars        == <<stripeVars, dbVars, pc, localVars, faults>>

Emitted == {e \in Event : about[e] # Nothing}

TypeOK ==
  /\ truth \in [Sub -> Tier \cup {Nothing}]
  /\ about \in [Event -> Sub \cup {Nothing}]
  /\ acked \subseteq Event
  /\ recorded \subseteq Event
  /\ tier \in Tier
  /\ mirror \in [Sub -> Tier \cup {Nothing}]
  /\ checkouts \in [Sub -> Nat]
  /\ invoices \in [InvoiceEvent -> Nat]
  /\ pc \in [Handler -> {"idle", "insert", "fetch", "load", "org", "find", "sub",
                         "invoice", "commit"}]
  /\ ev \in [Handler -> Event \cup {Nothing}]
  /\ seen \in [Handler -> Tier \cup {Nothing}]
  /\ loaded \in [Handler -> Tier \cup {Nothing}]
  /\ found \in [Handler -> Tier \cup {Nothing}]
  /\ newTier \in [Handler -> Tier \cup {Nothing}]
  /\ newSub \in [Handler -> Tier \cup {Nothing}]
  /\ faults \in 0..MaxFaults

Init ==
  /\ truth = [s \in Sub |-> Nothing]
  /\ about = [e \in Event |-> Nothing]
  /\ acked = {}
  /\ recorded = {}
  /\ tier = "free"
  /\ mirror = [s \in Sub |-> Nothing]
  /\ checkouts = [s \in Sub |-> 0]
  /\ invoices = [e \in InvoiceEvent |-> 0]
  /\ pc = [h \in Handler |-> "idle"]
  /\ ev = [h \in Handler |-> Nothing]
  /\ seen = [h \in Handler |-> Nothing]
  /\ loaded = [h \in Handler |-> Nothing]
  /\ found = [h \in Handler |-> Nothing]
  /\ newTier = [h \in Handler |-> Nothing]
  /\ newSub = [h \in Handler |-> Nothing]
  /\ faults = 0

-----------------------------------------------------------------------------
(***************************************************************************)
(* Stripe.                                                                 *)
(***************************************************************************)
(* A subscription is bought, changes plan, is cancelled or left unpaid.    *)
Change(s, t, e) ==
  /\ truth[s] # t
  /\ e \notin Emitted
  /\ truth' = [truth EXCEPT ![s] = t]
  /\ about' = [about EXCEPT ![e] = s]
  /\ UNCHANGED <<acked, dbVars, pc, localVars, faults>>

Invoice(s, e) ==
  /\ truth[s] # Nothing
  /\ e \notin Emitted
  /\ about' = [about EXCEPT ![e] = s]
  /\ UNCHANGED <<truth, acked, dbVars, pc, localVars, faults>>

(* A first delivery, a retry or a resend.                                  *)
Deliver(h, e) ==
  /\ e \in Emitted
  /\ pc[h] = "idle"
  /\ Serial => \A g \in Handler : pc[g] = "idle"
  /\ pc' = [pc EXCEPT ![h] = "insert"]
  /\ ev' = [ev EXCEPT ![h] = e]
  /\ UNCHANGED <<stripeVars, dbVars, seen, loaded, found, newTier, newSub, faults>>

-----------------------------------------------------------------------------
(***************************************************************************)
(* stripe_webhook                                                          *)
(***************************************************************************)
SubOf(h) == about[ev[h]]

Goto(h, s) == pc' = [pc EXCEPT ![h] = s]

(* The end of the request: its transaction, and with it its locks, is gone. *)
Forget(h) ==
  /\ Goto(h, "idle")
  /\ ev' = [ev EXCEPT ![h] = Nothing]
  /\ seen' = [seen EXCEPT ![h] = Nothing]
  /\ loaded' = [loaded EXCEPT ![h] = Nothing]
  /\ found' = [found EXCEPT ![h] = Nothing]
  /\ newTier' = [newTier EXCEPT ![h] = Nothing]
  /\ newSub' = [newSub EXCEPT ![h] = Nothing]

(* Fault seeded for the checks: the event row is committed on its own.     *)
InsertCommitted(h) ==
  /\ pc[h] = "insert"
  /\ ev[h] \notin recorded
  /\ recorded' = recorded \cup {ev[h]}
  /\ Goto(h, "fetch")
  /\ UNCHANGED <<stripeVars, tier, mirror, checkouts, invoices, localVars, faults>>

(* INSERT INTO stripe_events waits for another transaction that has        *)
(* inserted the same id; once that has committed it is a duplicate, which  *)
(* is answered with 200.                                                   *)
InsertEvent(h) ==
  /\ pc[h] = "insert"
  /\ \A g \in Handler : pc[g] \notin {"idle", "insert"} => ev[g] # ev[h]
  /\ ev[h] \notin recorded
  /\ Goto(h, "fetch")
  /\ UNCHANGED <<stripeVars, dbVars, localVars, faults>>

Duplicate(h) ==
  /\ pc[h] = "insert"
  /\ ev[h] \in recorded
  /\ acked' = acked \cup {ev[h]}
  /\ Forget(h)
  /\ UNCHANGED <<truth, about, dbVars, faults>>

(* Fault seeded for the checks: the status is taken for the tier.          *)
FetchStatus(h) ==
  /\ pc[h] = "fetch"
  /\ seen' = [seen EXCEPT ![h] = "active"]
  /\ Goto(h, IF ev[h] \in SubEvent THEN "load" ELSE "invoice")
  /\ UNCHANGED <<stripeVars, dbVars, ev, loaded, found, newTier, newSub, faults>>

(* The re-fetch is synchronous; the database is asked after it.            *)
Fetch(h) ==
  /\ pc[h] = "fetch"
  /\ seen' = [seen EXCEPT ![h] = truth[SubOf(h)]]
  /\ Goto(h, IF ev[h] \in SubEvent THEN "load" ELSE "invoice")
  /\ UNCHANGED <<stripeVars, dbVars, ev, loaded, found, newTier, newSub, faults>>

(* SELECT the organisation; an unknown customer has no effect.             *)
LoadOrg(h) ==
  /\ pc[h] = "load"
  /\ IF SubOf(h) \in Known
     THEN Goto(h, "org") /\ loaded' = [loaded EXCEPT ![h] = tier]
     ELSE Goto(h, "commit") /\ UNCHANGED loaded
  /\ UNCHANGED <<stripeVars, dbVars, ev, seen, found, newTier, newSub, faults>>

(* Fault seeded for the checks: a paid tier is never taken back.           *)
WriteOrgUp(h) ==
  /\ pc[h] = "org"
  /\ \/ loaded[h] \in Paid /\ UNCHANGED newTier
     \/ /\ loaded[h] \notin Paid
        /\ \A g \in Handler \ {h} : newTier[g] = Nothing
        /\ newTier' = [newTier EXCEPT ![h] = seen[h]]
  /\ Goto(h, "find")
  /\ UNCHANGED <<stripeVars, dbVars, ev, seen, loaded, found, newSub, faults>>

(* The session flushes before its next query: an UPDATE, which waits for   *)
(* the row, only if the tier differs from the one loaded.                  *)
WriteOrg(h) ==
  /\ pc[h] = "org"
  /\ \/ seen[h] = loaded[h] /\ UNCHANGED newTier
     \/ /\ seen[h] # loaded[h]
        /\ \A g \in Handler \ {h} : newTier[g] = Nothing
        /\ newTier' = [newTier EXCEPT ![h] = seen[h]]
  /\ Goto(h, "find")
  /\ UNCHANGED <<stripeVars, dbVars, ev, seen, loaded, found, newSub, faults>>

FindSub(h) ==
  /\ pc[h] = "find"
  /\ found' = [found EXCEPT ![h] = mirror[SubOf(h)]]
  /\ Goto(h, "sub")
  /\ UNCHANGED <<stripeVars, dbVars, ev, seen, loaded, newTier, newSub, faults>>

(* Fault seeded for the checks: an existing mirror row is left as it is.   *)
WriteSubOnce(h) ==
  /\ pc[h] = "sub"
  /\ IF found[h] = Nothing
     THEN newSub' = [newSub EXCEPT ![h] = seen[h]]
     ELSE UNCHANGED newSub
  /\ Goto(h, "commit")
  /\ UNCHANGED <<stripeVars, dbVars, ev, seen, loaded, found, newTier, faults>>

(* INSERT the mirror row and, for a paid tier, the checkout_completed row, *)
(* or UPDATE the columns that differ (status and period end, which may     *)
(* differ alone, are left out).  Both wait for a transaction that has      *)
(* written the same row.                                                   *)
WriteSub(h) ==
  /\ pc[h] = "sub"
  /\ \/ seen[h] = found[h] /\ UNCHANGED newSub
     \/ /\ seen[h] # found[h]
        /\ \A g \in Handler \ {h} : newSub[g] # Nothing => SubOf(g) # SubOf(h)
        /\ found[h] = Nothing => mirror[SubOf(h)] = Nothing
        /\ newSub' = [newSub EXCEPT ![h] = seen[h]]
  /\ Goto(h, "commit")
  /\ UNCHANGED <<stripeVars, dbVars, ev, seen, loaded, found, newTier, faults>>

(* Another transaction has mirrored the subscription first: the primary    *)
(* key refuses the INSERT, the error is not caught, Stripe sees a 500.     *)
SubExists(h) ==
  /\ pc[h] = "sub"
  /\ found[h] = Nothing
  /\ mirror[SubOf(h)] # Nothing
  /\ Forget(h)
  /\ UNCHANGED <<stripeVars, dbVars, faults>>

(* The usage row of an invoice, written in "invoice" and uncommitted.      *)
WriteInvoice(h) ==
  /\ pc[h] = "invoice"
  /\ Goto(h, "commit")
  /\ UNCHANGED <<stripeVars, dbVars, localVars, faults>>

(* processed_at, COMMIT, and the answer, which may be lost on its way.     *)
Commit(h) ==
  LET e == ev[h]
      s == SubOf(h)
  IN
  /\ pc[h] = "commit"
  /\ recorded' = recorded \cup {e}
  /\ tier' = IF newTier[h] # Nothing THEN newTier[h] ELSE tier
  /\ mirror' = IF newSub[h] # Nothing THEN [mirror EXCEPT ![s] = newSub[h]] ELSE mirror
  /\ checkouts' = IF found[h] = Nothing /\ newSub[h] \in Paid
                  THEN [checkouts EXCEPT ![s] = @ + 1] ELSE checkouts
  /\ invoices' = IF e \in InvoiceEvent /\ s \in Known
                 THEN [invoices EXCEPT ![e] = @ + 1] ELSE invoices
  /\ acked' \in {acked, acked \cup {e}}
  /\ Forget(h)
  /\ UNCHANGED <<truth, about, faults>>

(* Fault seeded for the checks: a failed handler still answers 200.        *)
FailAcknowledged(h) ==
  /\ pc[h] # "idle"
  /\ faults < MaxFaults
  /\ faults' = faults + 1
  /\ acked' = acked \cup {ev[h]}
  /\ Forget(h)
  /\ UNCHANGED <<truth, about, dbVars>>

(* Fault seeded for the checks: the session is not closed on an error, and *)
(* the row of the organisation stays locked.                               *)
FailUnclosed(h) ==
  /\ pc[h] # "idle"
  /\ faults < MaxFaults
  /\ faults' = faults + 1
  /\ Goto(h, "idle")
  /\ UNCHANGED <<stripeVars, dbVars, localVars>>

(* Any await or Stripe call raises, or the worker dies: the transaction    *)
(* rolls back and Stripe sees no 2xx.                                      *)
Fail(h) ==
  /\ pc[h] # "idle"
  /\ faults < MaxFaults
  /\ faults' = faults + 1
  /\ Forget(h)
  /\ UNCHANGED <<stripeVars, dbVars>>

HandlerStep(h) ==
  \/ InsertEvent(h) \/ Duplicate(h) \/ Fetch(h) \/ LoadOrg(h) \/ WriteOrg(h)
  \/ FindSub(h) \/ WriteSub(h) \/ SubExists(h) \/ WriteInvoice(h) \/ Commit(h)

Next ==
  \/ \E s \in Sub, t \in Tier, e \in SubEvent : Change(s, t, e)
  \/ \E s \in Sub, e \in InvoiceEvent : Invoice(s, e)
  \/ \E h \in Handler :
       HandlerStep(h) \/ Fail(h) \/ \E e \in Event : Deliver(h, e)

Spec == Init /\ [][Next]_vars

(* Stripe retries an event until it is acknowledged; the database grants   *)
(* its locks in turn.                                                      *)
Retry(e) == e \notin acked /\ \E h \in Handler : Deliver(h, e)

FairSpec ==
  /\ Spec
  /\ \A e \in Event : SF_vars(Retry(e))
  /\ \A h \in Handler : SF_vars(HandlerStep(h))

-----------------------------------------------------------------------------
(***************************************************************************)
(* Properties.                                                             *)
(***************************************************************************)

(* Once per event: an invoice has its usage row exactly when its event is  *)
(* recorded, whatever is retried, resent in parallel, lost or rolled back. *)
OncePerEvent ==
  \A e \in InvoiceEvent :
    invoices[e] = IF e \in recorded /\ about[e] \in Known THEN 1 ELSE 0

(* Once per subscription, across distinct events processed at once: a sale *)
(* is counted at most once, and only with the row that mirrors it.         *)
OneSale ==
  \A s \in Sub : checkouts[s] <= 1 /\ (checkouts[s] = 1 => mirror[s] # Nothing)

(* Stripe is told to stop retrying only what is on record.                 *)
AckedIsRecorded == acked \subseteq recorded

Quiet(s) ==
  /\ \A h \in Handler : pc[h] = "idle"
  /\ \A e \in SubEvent : about[e] = s => e \in recorded

(* Once every event of a known subscription is on record, the mirror shows *)
(* what Stripe has, in whatever order they came.                           *)
MirrorConverges ==
  \A s \in Known : truth[s] # Nothing /\ Quiet(s) => mirror[s] = truth[s]

(* Once the events of all its subscriptions are on record, the tier is     *)
(* what one of them stands for.  With a single one it is Stripe's; with    *)
(* two, as checkout does not ask for an existing one, it is whichever the  *)
(* last recorded event was about, a cancelled one perhaps.                 *)
TierConverges ==
  (\A s \in Known : Quiet(s)) /\ (\E s \in Known : truth[s] # Nothing) =>
    \E s \in Known : tier = truth[s]

(* Whoever waits, someone can go on: the event's key, the organisation's   *)
(* row and the mirror row are always locked in this order, and a lock is   *)
(* held by a request that has begun and gone with it.                      *)
CanGoOn(h) ==
  /\ pc[h] # "idle"
  /\ pc[h] = "insert" =>
       ev[h] \in recorded \/ \A g \in Handler : pc[g] \notin {"idle", "insert"} => ev[g] # ev[h]
  /\ pc[h] = "org" =>
       seen[h] = loaded[h] \/ \A g \in Handler \ {h} : newTier[g] = Nothing
  /\ pc[h] = "sub" =>
       \/ seen[h] = found[h]
       \/ found[h] = Nothing /\ mirror[SubOf(h)] # Nothing
       \/ \A g \in Handler \ {h} : newSub[g] # Nothing => SubOf(g) # SubOf(h)

NoStandstill == (\E h \in Handler : pc[h] # "idle") => \E h \in Handler : CanGoOn(h)

(* Each event takes effect once, entirely and before it is acknowledged,   *)
(* also when deliveries overlap: the webhook implements EventLedger.       *)
Ledger == INSTANCE EventLedger

KeepsLedger == Ledger!Spec

(* Every event Stripe emits is on record in the end.                       *)
EventuallyRecorded ==
  \A e \in Event : about[e] # Nothing ~> e \in recorded
=============================================================================
