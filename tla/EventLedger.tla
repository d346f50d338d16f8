----------------------------- MODULE EventLedger -----------------------------
(***************************************************************************)
(* What the Stripe webhook promises, without requests, transactions and    *)
(* locks: an event goes on record once, with all of its effects in the     *)
(* same step, and is acknowledged only then.  What deliveries in parallel  *)
(* may cost is visible too: an event may leave the tier, or an existing    *)
(* mirror row, as an earlier one has written it.                           *)
(***************************************************************************)
EXTENDS Naturals

CONSTANTS Sub, Known, SubEvent, InvoiceEvent, Tier, Paid, Nothing

VARIABLES about, recorded, acked, tier, mirror, checkouts, invoices

vars == <<about, recorded, acked, tier, mirror, checkouts, invoices>>

Init ==
  /\ about = [e \in SubEvent \cup InvoiceEvent |-> Nothing]
  /\ recorded = {}
  /\ acked = {}
  /\ tier = "free"
  /\ mirror = [s \in Sub |-> Nothing]
  /\ checkouts = [s \in Sub |-> 0]
  /\ invoices = [e \in InvoiceEvent |-> 0]

Emit(e, s) ==
  /\ about[e] = Nothing
  /\ about' = [about EXCEPT ![e] = s]
  /\ UNCHANGED <<recorded, acked, tier, mirror, checkouts, invoices>>

(* The event's own row, and the answer, which may be lost.                 *)
Enter(e) ==
  /\ about[e] # Nothing
  /\ e \notin recorded
  /\ recorded' = recorded \cup {e}
  /\ acked' \in {acked, acked \cup {e}}
  /\ UNCHANGED about

(* The row of a subscription is created by the first of its events to be   *)
(* recorded; that event alone can count a sale.                            *)
RecordPlan(e, t) ==
  LET s == about[e] IN
  /\ Enter(e)
  /\ s \in Known
  /\ tier' \in {tier, t}
  /\ mirror' = [mirror EXCEPT ![s] = t] \/ (mirror[s] # Nothing /\ UNCHANGED mirror)
  /\ checkouts' = IF mirror[s] = Nothing /\ t \in Paid
                  THEN [checkouts EXCEPT ![s] = 1] ELSE checkouts
  /\ UNCHANGED invoices

RecordInvoice(e) ==
  /\ Enter(e)
  /\ about[e] \in Known
  /\ invoices' = [invoices EXCEPT ![e] = 1]
  /\ UNCHANGED <<tier, mirror, checkouts>>

RecordForeign(e) ==
  /\ Enter(e)
  /\ about[e] \notin Known
  /\ UNCHANGED <<tier, mirror, checkouts, invoices>>

Acknowledge(e) ==
  /\ e \in recorded
  /\ acked' = acked \cup {e}
  /\ UNCHANGED <<about, recorded, tier, mirror, checkouts, invoices>>

Next ==
  \/ \E e \in SubEvent, t \in Tier : RecordPlan(e, t)
  \/ \E e \in InvoiceEvent : RecordInvoice(e)
  \/ \E e \in SubEvent \cup InvoiceEvent :
       RecordForeign(e) \/ Acknowledge(e) \/ \E s \in Sub : Emit(e, s)

Spec == Init /\ [][Next]_vars
=============================================================================
