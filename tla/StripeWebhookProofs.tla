------------------------ MODULE StripeWebhookProofs -------------------------
(***************************************************************************)
(* Exactly-once effects of the Stripe webhook, for any number of           *)
(* subscriptions, events, concurrent deliveries and faults.                *)
(***************************************************************************)
EXTENDS StripeWebhook, TLAPS

(***************************************************************************)
(* The inductive invariant.  The uncommitted row of an event excludes      *)
(* every other handler of that event, so the effects, which are committed  *)
(* with the row, are added at most once.                                   *)
(***************************************************************************)
HasEvent        == \A h \in Handler : pc[h] # "idle" => ev[h] \in Emitted
RecordedEmitted == recorded \subseteq Emitted

Writing(h) == pc[h] \notin {"idle", "insert"}

EventLock ==
  \A g, h \in Handler : Writing(g) /\ Writing(h) /\ ev[g] = ev[h] => g = h

Fresh == \A h \in Handler : Writing(h) => ev[h] \notin recorded

EventInv ==
  /\ TypeOK /\ HasEvent /\ RecordedEmitted /\ EventLock /\ Fresh
  /\ AckedIsRecorded /\ OncePerEvent

LEMMA EventInvariant == Spec => []EventInv
<1> USE WebhookAssumption DEF Tier, Paid, Event
<1>1. Init => EventInv
  BY DEF Init, EventInv, TypeOK, HasEvent, RecordedEmitted, Writing, EventLock, Fresh,
         AckedIsRecorded, OncePerEvent, Emitted
<1>2. EventInv /\ [Next]_vars => EventInv'
  <2> SUFFICES ASSUME EventInv, [Next]_vars PROVE EventInv'
    OBVIOUS
  <2> USE DEF EventInv, HasEvent, RecordedEmitted, Writing, EventLock, Fresh,
              AckedIsRecorded, OncePerEvent, Emitted, stripeVars, dbVars, localVars, Goto,
              Forget, SubOf, TypeOK
  <2>1. ASSUME NEW s \in Sub, NEW t \in Tier, NEW e \in SubEvent, Change(s, t, e)
        PROVE  EventInv'
    BY <2>1 DEF Change
  <2>2. ASSUME NEW s \in Sub, NEW e \in InvoiceEvent, Invoice(s, e) PROVE EventInv'
    BY <2>2 DEF Invoice
  <2>3. ASSUME NEW h \in Handler, NEW e \in Event, Deliver(h, e) PROVE EventInv'
    BY <2>3 DEF Deliver
  <2>4. ASSUME NEW h \in Handler, InsertEvent(h) PROVE EventInv'
    BY <2>4 DEF InsertEvent
  <2>5. ASSUME NEW h \in Handler, Duplicate(h) PROVE EventInv'
    BY <2>5 DEF Duplicate
  <2>6. ASSUME NEW h \in Handler, Fetch(h) PROVE EventInv'
    BY <2>6 DEF Fetch
  <2>7. ASSUME NEW h \in Handler, LoadOrg(h) PROVE EventInv'
    BY <2>7 DEF LoadOrg
  <2>8. ASSUME NEW h \in Handler, WriteOrg(h) PROVE EventInv'
    BY <2>8 DEF WriteOrg
  <2>9. ASSUME NEW h \in Handler, FindSub(h) PROVE EventInv'
    BY <2>9 DEF FindSub
  <2>10. ASSUME NEW h \in Handler, WriteSub(h) PROVE EventInv'
    BY <2>10 DEF WriteSub
  <2>11. ASSUME NEW h \in Handler, SubExists(h) PROVE EventInv'
    BY <2>11 DEF SubExists
  <2>12. ASSUME NEW h \in Handler, WriteInvoice(h) PROVE EventInv'
    BY <2>12 DEF WriteInvoice
  <2>13. ASSUME NEW h \in Handler, Commit(h) PROVE EventInv'
    <3>1. ev[h] \in Emitted \ recorded /\ about[ev[h]] \in Sub
      BY <2>13 DEF Commit
    <3>2. TypeOK'
      BY <2>13, <3>1 DEF Commit
    <3>3. OncePerEvent'
      BY <2>13, <3>1 DEF Commit
    <3> QED
      BY <2>13, <3>1, <3>2, <3>3 DEF Commit
  <2>14. ASSUME NEW h \in Handler, Fail(h) PROVE EventInv'
    BY <2>14 DEF Fail
  <2>15. CASE UNCHANGED vars
    BY <2>15 DEF vars
  <2> QED
    BY <2>1, <2>2, <2>3, <2>4, <2>5, <2>6, <2>7, <2>8, <2>9, <2>10, <2>11, <2>12,
       <2>13, <2>14, <2>15
    DEF Next, HandlerStep
<1> QED
  BY <1>1, <1>2, PTL DEF Spec

(* Every variable keeps its type.                                          *)
THEOREM WebhookTypeCorrect == Spec => []TypeOK
BY EventInvariant, PTL DEF EventInv

(* An invoice is entered once, with its event, for any pattern of retries, *)
(* parallel resends, lost answers and rollbacks.                           *)
THEOREM InvoicesOncePerEvent == Spec => []OncePerEvent
BY EventInvariant, PTL DEF EventInv

(* Stripe stops retrying only what has been recorded.                      *)
THEOREM AcknowledgedOnRecord == Spec => []AckedIsRecorded
BY EventInvariant, PTL DEF EventInv

-----------------------------------------------------------------------------
(***************************************************************************)
(* One sale per subscription.  Distinct events of one subscription may be  *)
(* processed at once; what excludes a second sale is the mirror row, which *)
(* is locked from its INSERT to the commit.                                *)
(***************************************************************************)
MirrorAtCommit ==
  \A h \in Handler :
    /\ newSub[h] # Nothing => pc[h] = "commit" /\ ev[h] \in SubEvent
    /\ pc[h] = "sub" => ev[h] \in SubEvent
    /\ pc[h] \in {"load", "org", "find"} => ev[h] \in SubEvent

MirrorLock ==
  \A g, h \in Handler :
    newSub[g] # Nothing /\ newSub[h] # Nothing /\ SubOf(g) = SubOf(h) => g = h

InsertIsFirst ==
  \A h \in Handler :
    newSub[h] # Nothing /\ found[h] = Nothing => mirror[SubOf(h)] = Nothing

SaleInv == MirrorAtCommit /\ MirrorLock /\ InsertIsFirst /\ OneSale

LEMMA SaleInvariant == Spec => []SaleInv
<1> USE WebhookAssumption DEF Tier, Paid, Event
<1>1. Init => SaleInv
  BY DEF Init, SaleInv, MirrorAtCommit, MirrorLock, InsertIsFirst, OneSale
<1>2. EventInv /\ SaleInv /\ [Next]_vars => SaleInv'
  <2> SUFFICES ASSUME EventInv, SaleInv, [Next]_vars PROVE SaleInv'
    OBVIOUS
  <2>0. TypeOK /\ HasEvent
    BY DEF EventInv
  <2> USE <2>0 DEF SaleInv, MirrorAtCommit, MirrorLock, InsertIsFirst, OneSale, HasEvent,
              Emitted, stripeVars, dbVars, localVars, Goto, Forget, SubOf, TypeOK
  <2>1. ASSUME NEW s \in Sub, NEW t \in Tier, NEW e \in SubEvent, Change(s, t, e)
        PROVE  SaleInv'
    BY <2>1 DEF Change
  <2>2. ASSUME NEW s \in Sub, NEW e \in InvoiceEvent, Invoice(s, e) PROVE SaleInv'
    BY <2>2 DEF Invoice
  <2>3. ASSUME NEW h \in Handler, NEW e \in Event, Deliver(h, e) PROVE SaleInv'
    BY <2>3 DEF Deliver
  <2>4. ASSUME NEW h \in Handler, InsertEvent(h) \/ WriteInvoice(h) PROVE SaleInv'
    BY <2>4 DEF InsertEvent, WriteInvoice
  <2>5. ASSUME NEW h \in Handler, Duplicate(h) \/ SubExists(h) \/ Fail(h) PROVE SaleInv'
    <3>1. Forget(h) /\ UNCHANGED <<truth, about, dbVars>>
      BY <2>5 DEF Duplicate, SubExists, Fail
    <3>2. MirrorAtCommit' /\ MirrorLock' /\ OneSale'
      BY <3>1
    <3>3. InsertIsFirst'
      BY <3>1
    <3> QED
      BY <3>2, <3>3
  <2>6. ASSUME NEW h \in Handler, Fetch(h) \/ LoadOrg(h) PROVE SaleInv'
    BY <2>6 DEF Fetch, LoadOrg
  <2>7. ASSUME NEW h \in Handler, WriteOrg(h) \/ FindSub(h) PROVE SaleInv'
    BY <2>7 DEF WriteOrg, FindSub
  <2>8. ASSUME NEW h \in Handler, WriteSub(h) PROVE SaleInv'
    BY <2>8 DEF WriteSub
  <2>9. ASSUME NEW h \in Handler, Commit(h) PROVE SaleInv'
    <3>1. ev[h] \in Emitted /\ SubOf(h) \in Sub
      BY <2>9 DEF Commit
    <3>2. \A g \in Handler \ {h} : newSub[g] # Nothing /\ newSub[h] # Nothing =>
            SubOf(g) # SubOf(h)
      OBVIOUS
    <3>3. OneSale'
      BY <2>9, <3>1 DEF Commit
    <3>4. MirrorAtCommit' /\ MirrorLock'
      BY <2>9 DEF Commit
    <3>5. InsertIsFirst'
      BY <2>9, <3>1, <3>2 DEF Commit
    <3> QED
      BY <3>3, <3>4, <3>5
  <2>10. CASE UNCHANGED vars
    BY <2>10 DEF vars
  <2> QED
    BY <2>1, <2>2, <2>3, <2>4, <2>5, <2>6, <2>7, <2>8, <2>9, <2>10
    DEF Next, HandlerStep
<1> QED
  BY <1>1, <1>2, EventInvariant, PTL DEF Spec

(* A sale is counted at most once for a subscription, across all events.   *)
THEOREM SaleCountedOnce == Spec => []OneSale
BY SaleInvariant, PTL DEF SaleInv

-----------------------------------------------------------------------------
(***************************************************************************)
(* What a handler carries towards its commit, also when deliveries         *)
(* overlap: only the tier it fetched, only for a subscription of ours, and *)
(* always the mirror row if there was none.                                *)
(***************************************************************************)
HasTruth == \A e \in Emitted : truth[about[e]] # Nothing

Payload ==
  \A h \in Handler :
    /\ pc[h] \in {"load", "org", "find", "sub"} => seen[h] # Nothing
    /\ pc[h] = "commit" /\ ev[h] \in SubEvent => seen[h] # Nothing
    /\ pc[h] \in {"org", "find", "sub"} => SubOf(h) \in Known
    /\ pc[h] = "invoice" => ev[h] \in InvoiceEvent
    /\ newTier[h] # Nothing =>
         pc[h] \in {"find", "sub", "commit"} /\ newTier[h] = seen[h]
         /\ ev[h] \in SubEvent /\ SubOf(h) \in Known
    /\ newSub[h] # Nothing => newSub[h] = seen[h] /\ SubOf(h) \in Known
    /\ found[h] # Nothing => pc[h] \in {"sub", "commit"} /\ mirror[SubOf(h)] # Nothing
    /\ pc[h] = "commit" /\ ev[h] \in SubEvent /\ SubOf(h) \in Known /\ newSub[h] = Nothing
         => mirror[SubOf(h)] # Nothing

PayloadInv == HasTruth /\ Payload

LEMMA PayloadInvariant == Spec => []PayloadInv
<1> USE WebhookAssumption DEF Tier, Paid, Event
<1>1. Init => PayloadInv
  BY DEF Init, PayloadInv, HasTruth, Payload, Emitted
<1>2. EventInv /\ SaleInv /\ PayloadInv /\ [Next]_vars => PayloadInv'
  <2> SUFFICES ASSUME EventInv, SaleInv, PayloadInv, [Next]_vars PROVE PayloadInv'
    OBVIOUS
  <2>0. TypeOK /\ HasEvent /\ MirrorAtCommit
    BY DEF EventInv, SaleInv
  <2> USE <2>0 DEF PayloadInv, HasTruth, Payload, MirrorAtCommit, HasEvent, Emitted,
              stripeVars, dbVars, localVars, Goto, Forget, SubOf, TypeOK
  <2>1. ASSUME NEW s \in Sub, NEW t \in Tier, NEW e \in SubEvent, Change(s, t, e)
        PROVE  PayloadInv'
    BY <2>1 DEF Change
  <2>2. ASSUME NEW s \in Sub, NEW e \in InvoiceEvent, Invoice(s, e) PROVE PayloadInv'
    BY <2>2 DEF Invoice
  <2>3. ASSUME NEW h \in Handler, NEW e \in Event, Deliver(h, e) PROVE PayloadInv'
    BY <2>3 DEF Deliver
  <2>4. ASSUME NEW h \in Handler, InsertEvent(h) \/ WriteInvoice(h) PROVE PayloadInv'
    BY <2>4 DEF InsertEvent, WriteInvoice
  <2>5. ASSUME NEW h \in Handler, Duplicate(h) \/ SubExists(h) \/ Fail(h)
        PROVE  PayloadInv'
    <3>1. Forget(h) /\ UNCHANGED <<truth, about, dbVars>>
      BY <2>5 DEF Duplicate, SubExists, Fail
    <3> QED
      BY <3>1
  <2>6. ASSUME NEW h \in Handler, Fetch(h) PROVE PayloadInv'
    BY <2>6 DEF Fetch
  <2>7. ASSUME NEW h \in Handler, LoadOrg(h) PROVE PayloadInv'
    BY <2>7 DEF LoadOrg
  <2>8. ASSUME NEW h \in Handler, WriteOrg(h) PROVE PayloadInv'
    BY <2>8 DEF WriteOrg
  <2>9. ASSUME NEW h \in Handler, FindSub(h) PROVE PayloadInv'
    BY <2>9 DEF FindSub
  <2>10. ASSUME NEW h \in Handler, WriteSub(h) PROVE PayloadInv'
    BY <2>10 DEF WriteSub
  <2>11. ASSUME NEW h \in Handler, Commit(h) PROVE PayloadInv'
    <3>1. \A s \in Sub : mirror[s] # Nothing => mirror'[s] # Nothing
      BY <2>11 DEF Commit
    <3>2. Forget(h) /\ UNCHANGED <<truth, about>>
      BY <2>11 DEF Commit
    <3> QED
      BY <3>1, <3>2
  <2>12. CASE UNCHANGED vars
    BY <2>12 DEF vars
  <2> QED
    BY <2>1, <2>2, <2>3, <2>4, <2>5, <2>6, <2>7, <2>8, <2>9, <2>10, <2>11, <2>12
    DEF Next, HandlerStep
<1> QED
  BY <1>1, <1>2, EventInvariant, SaleInvariant, PTL DEF Spec

(* No two deliveries ever wait for each other, and none for a dead one:    *)
(* the handler that has come furthest in the order of the locks can go on. *)
THEOREM WebhookNeverStands == Spec => []NoStandstill
<1>1. EventInv /\ SaleInv /\ PayloadInv => NoStandstill
  <2> SUFFICES ASSUME EventInv, SaleInv, PayloadInv, NEW k \in Handler, pc[k] # "idle"
               PROVE  \E h \in Handler : CanGoOn(h)
    BY DEF NoStandstill
  <2>0. TypeOK
    BY DEF EventInv
  <2>1. CASE \E h \in Handler : pc[h] \in {"fetch", "load", "find", "invoice", "commit"}
    BY <2>1 DEF CanGoOn
  <2>2. CASE /\ \A h \in Handler : pc[h] \notin {"fetch", "load", "find", "invoice", "commit"}
             /\ \E h \in Handler : pc[h] = "sub"
    <3>1. \A g \in Handler : newSub[g] = Nothing
      BY <2>2 DEF SaleInv, MirrorAtCommit
    <3> QED
      BY <2>2, <3>1 DEF CanGoOn
  <2>3. CASE /\ \A h \in Handler :
                  pc[h] \notin {"fetch", "load", "find", "invoice", "commit", "sub"}
             /\ \E h \in Handler : pc[h] = "org"
    <3>1. \A g \in Handler : newTier[g] = Nothing
      BY <2>3 DEF PayloadInv, Payload
    <3> QED
      BY <2>3, <3>1 DEF CanGoOn
  <2>4. CASE \A h \in Handler : pc[h] \in {"idle", "insert"}
    BY <2>4 DEF CanGoOn
  <2> QED
    BY <2>0, <2>1, <2>2, <2>3, <2>4 DEF TypeOK
<1> QED
  BY <1>1, EventInvariant, SaleInvariant, PayloadInvariant, PTL

-----------------------------------------------------------------------------
(***************************************************************************)
(* The refinement.  Only a commit, or the answer to a duplicate, is a step *)
(* of the ledger; everything before it can still be rolled back.           *)
(***************************************************************************)
LEMMA CommitRecords ==
  ASSUME EventInv, SaleInv, PayloadInv, NEW h \in Handler, Commit(h)
  PROVE  Ledger!Next
<1> USE WebhookAssumption DEF Event, dbVars
<1>0. /\ TypeOK /\ ev[h] \in Emitted \ recorded /\ ev[h] \in Event
      /\ MirrorAtCommit /\ InsertIsFirst /\ OneSale /\ OncePerEvent /\ Payload
  BY DEF EventInv, SaleInv, PayloadInv, HasEvent, Fresh, Writing, Commit, Emitted
<1>1. Ledger!Enter(ev[h])
  BY <1>0 DEF Commit, Ledger!Enter, Emitted
<1>2. CASE ev[h] \in InvoiceEvent
  <2>1. newTier[h] = Nothing /\ newSub[h] = Nothing /\ Nothing \notin Paid
    BY <1>2, <1>0 DEF MirrorAtCommit, Payload, Tier, Paid
  <2>2. UNCHANGED <<tier, mirror, checkouts>>
    BY <2>1 DEF Commit
  <2>3. CASE SubOf(h) \in Known
    <3>1. invoices[ev[h]] = 0
      BY <1>0, <1>2 DEF OncePerEvent
    <3>2. invoices' = [invoices EXCEPT ![ev[h]] = 1]
      BY <1>0, <1>2, <2>3, <3>1 DEF Commit, TypeOK
    <3>3. Ledger!RecordInvoice(ev[h])
      BY <1>1, <2>2, <2>3, <3>2 DEF Ledger!RecordInvoice, SubOf
    <3> QED
      BY <1>2, <3>3 DEF Ledger!Next
  <2>4. CASE SubOf(h) \notin Known
    <3>1. Ledger!RecordForeign(ev[h])
      BY <1>1, <2>2, <2>4 DEF Commit, Ledger!RecordForeign, SubOf
    <3> QED
      BY <1>2, <3>1 DEF Ledger!Next
  <2> QED
    BY <2>3, <2>4
<1>3. CASE ev[h] \in SubEvent /\ SubOf(h) \notin Known
  <2>1. newTier[h] = Nothing /\ newSub[h] = Nothing /\ Nothing \notin Paid
    BY <1>3, <1>0 DEF Payload, Tier, Paid
  <2>2. UNCHANGED <<tier, mirror, checkouts, invoices>>
    BY <1>3, <2>1 DEF Commit
  <2>3. Ledger!RecordForeign(ev[h])
    BY <1>1, <1>3, <2>2 DEF Ledger!RecordForeign, SubOf
  <2> QED
    BY <1>3, <2>3 DEF Ledger!Next
<1>4. CASE ev[h] \in SubEvent /\ SubOf(h) \in Known
  <2> DEFINE s == SubOf(h)
             t == seen[h]
  <2>1. s \in Sub /\ t \in Tier /\ t # Nothing
    BY <1>0, <1>4 DEF Payload, TypeOK, Commit
  <2>2. UNCHANGED invoices
    BY <1>4 DEF Commit
  <2>3. tier' \in {tier, t}
    BY <1>0 DEF Commit, Payload
  <2>4. mirror' = [mirror EXCEPT ![s] = t] \/ (mirror[s] # Nothing /\ UNCHANGED mirror)
    BY <1>0, <1>4 DEF Commit, Payload
  <2>5. checkouts' = IF mirror[s] = Nothing /\ t \in Paid
                     THEN [checkouts EXCEPT ![s] = 1] ELSE checkouts
    <3>1. mirror[s] = Nothing => found[h] = Nothing /\ newSub[h] = t /\ checkouts[s] = 0
      BY <1>0, <1>4, <2>1 DEF Payload, OneSale, TypeOK, Commit
    <3>2. mirror[s] # Nothing => ~(found[h] = Nothing /\ newSub[h] \in Paid)
      BY <1>0, <1>4 DEF InsertIsFirst, Tier, Paid
    <3>3. CASE mirror[s] = Nothing
      BY <3>1, <3>3, <1>0, <2>1 DEF Commit, TypeOK
    <3>4. CASE mirror[s] # Nothing
      BY <3>2, <3>4 DEF Commit
    <3> QED
      BY <3>3, <3>4
  <2>6. Ledger!RecordPlan(ev[h], t)
    BY <1>1, <1>4, <2>2, <2>3, <2>4, <2>5 DEF Ledger!RecordPlan, SubOf
  <2> QED
    BY <1>4, <2>1, <2>6 DEF Ledger!Next
<1> QED
  BY <1>0, <1>2, <1>3, <1>4

(* Deliveries lost, repeated, overlapping, refused by the primary key or   *)
(* rolled back look, from outside, as if each event were entered once, in  *)
(* one step, before it is acknowledged.                                    *)
THEOREM WebhookImplementsLedger == Spec => KeepsLedger
<1> USE WebhookAssumption DEF Ledger!vars
<1>1. Init => Ledger!Init
  BY DEF Init, Ledger!Init, Event
<1>2. EventInv /\ SaleInv /\ PayloadInv /\ [Next]_vars => [Ledger!Next]_(Ledger!vars)
  <2> SUFFICES ASSUME EventInv, SaleInv, PayloadInv, [Next]_vars
               PROVE  [Ledger!Next]_(Ledger!vars)
    OBVIOUS
  <2> USE DEF stripeVars, dbVars, localVars
  <2>1. ASSUME NEW s \in Sub, NEW e \in Event,
               Ledger!Emit(e, s)
        PROVE  Ledger!Next
    BY <2>1 DEF Ledger!Next, Event
  <2>2. ASSUME NEW s \in Sub, NEW t \in Tier, NEW e \in SubEvent, Change(s, t, e)
        PROVE  Ledger!Next
    BY <2>1, <2>2 DEF Change, Ledger!Emit, Emitted, Event
  <2>3. ASSUME NEW s \in Sub, NEW e \in InvoiceEvent, Invoice(s, e) PROVE Ledger!Next
    BY <2>1, <2>3 DEF Invoice, Ledger!Emit, Emitted, Event
  <2>4. ASSUME NEW h \in Handler, Duplicate(h) PROVE Ledger!Next
    <3>1. ev[h] \in Event
      BY <2>4 DEF Duplicate, EventInv, HasEvent, Emitted
    <3>2. Ledger!Acknowledge(ev[h])
      BY <2>4 DEF Duplicate, Ledger!Acknowledge
    <3> QED
      BY <3>1, <3>2 DEF Ledger!Next, Event
  <2>5. ASSUME NEW h \in Handler,
               \/ InsertEvent(h) \/ Fetch(h) \/ LoadOrg(h) \/ WriteOrg(h) \/ FindSub(h)
               \/ WriteSub(h) \/ SubExists(h) \/ WriteInvoice(h) \/ Fail(h)
               \/ \E e \in Event : Deliver(h, e)
        PROVE  UNCHANGED Ledger!vars
    BY <2>5 DEF InsertEvent, Fetch, LoadOrg, WriteOrg, FindSub, WriteSub, SubExists,
       WriteInvoice, Fail, Deliver
  <2>6. CASE UNCHANGED vars
    BY <2>6 DEF vars
  <2> QED
    BY <2>2, <2>3, <2>4, <2>5, <2>6, CommitRecords DEF Next, HandlerStep
<1> QED
  BY <1>1, <1>2, EventInvariant, SaleInvariant, PayloadInvariant, PTL
  DEF Spec, KeepsLedger, Ledger!Spec

(* What the ledger is worth: whatever implements it writes the usage rows  *)
(* of an event once, counts a sale once per subscription, with the row     *)
(* that mirrors it, and acknowledges what is on record.                    *)
THEOREM LedgerIsExact == KeepsLedger => [](OncePerEvent /\ OneSale /\ AckedIsRecorded)
<1> DEFINE LedgerInv ==
      /\ about \in [Event -> Sub \cup {Nothing}]
      /\ mirror \in [Sub -> Tier \cup {Nothing}]
      /\ checkouts \in [Sub -> {0, 1}]
      /\ invoices \in [InvoiceEvent -> {0, 1}]
      /\ recorded \subseteq Emitted
      /\ OncePerEvent /\ OneSale /\ AckedIsRecorded
<1> USE WebhookAssumption
    DEF Event, Emitted, Tier, Paid, OncePerEvent, OneSale, AckedIsRecorded
<1>1. Ledger!Init => LedgerInv
  BY DEF Ledger!Init
<1>2. LedgerInv /\ [Ledger!Next]_(Ledger!vars) => LedgerInv'
  <2> SUFFICES ASSUME LedgerInv, [Ledger!Next]_(Ledger!vars) PROVE LedgerInv'
    OBVIOUS
  <2>1. ASSUME NEW e \in SubEvent, NEW t \in Tier, Ledger!RecordPlan(e, t)
        PROVE  LedgerInv'
    BY <2>1 DEF Ledger!RecordPlan, Ledger!Enter
  <2>2. ASSUME NEW e \in InvoiceEvent, Ledger!RecordInvoice(e) PROVE LedgerInv'
    BY <2>2 DEF Ledger!RecordInvoice, Ledger!Enter
  <2>3. ASSUME NEW e \in Event, Ledger!RecordForeign(e) \/ Ledger!Acknowledge(e)
        PROVE  LedgerInv'
    BY <2>3 DEF Ledger!RecordForeign, Ledger!Enter, Ledger!Acknowledge
  <2>4. ASSUME NEW e \in Event, NEW s \in Sub, Ledger!Emit(e, s) PROVE LedgerInv'
    BY <2>4 DEF Ledger!Emit
  <2>5. CASE UNCHANGED Ledger!vars
    BY <2>5 DEF Ledger!vars
  <2> QED
    BY <2>1, <2>2, <2>3, <2>4, <2>5 DEF Ledger!Next
<1> QED
  BY <1>1, <1>2, PTL DEF KeepsLedger, Ledger!Spec

-----------------------------------------------------------------------------
(***************************************************************************)
(* Convergence, with one delivery at a time.  While the mirror (or the     *)
(* tier) differs from Stripe there is an event that is not on record; the  *)
(* handler that will record the last one carries what Stripe has now.      *)
(***************************************************************************)
Pending(s)       == {e \in SubEvent \ recorded : about[e] = s}
PendingBut(s, h) == Pending(s) \ {ev[h]}

OneDelivery == \A g, h \in Handler : pc[g] # "idle" /\ pc[h] # "idle" => g = h

Bought == \A e \in Emitted : truth[about[e]] # Nothing

(* A handler that has re-fetched has the truth, or another event follows.  *)
Informed ==
  \A h \in Handler :
    pc[h] \in {"load", "org", "find", "sub", "commit"} /\ ev[h] \in SubEvent =>
      seen[h] # Nothing /\ (seen[h] = truth[SubOf(h)] \/ PendingBut(SubOf(h), h) # {})

(* What the handler's transaction will leave in the two rows.              *)
Carries ==
  \A h \in Handler :
    /\ pc[h] \in {"idle", "insert", "fetch", "load", "org"} => newTier[h] = Nothing
    /\ pc[h] = "invoice" => ev[h] \in InvoiceEvent
    /\ pc[h] = "org" => loaded[h] = tier /\ SubOf(h) \in Known
    /\ pc[h] \in {"find", "sub"} => SubOf(h) \in Known
    /\ pc[h] = "sub" => found[h] = mirror[SubOf(h)]
    /\ pc[h] \in {"find", "sub"} \/ (pc[h] = "commit" /\ ev[h] \in SubEvent /\ SubOf(h) \in Known)
       => newTier[h] = seen[h] \/ (newTier[h] = Nothing /\ tier = seen[h])
    /\ newTier[h] # Nothing => SubOf(h) \in Known /\ ev[h] \in SubEvent
    /\ pc[h] = "commit" /\ ev[h] \in SubEvent /\ SubOf(h) \in Known
       => newSub[h] = seen[h] \/ (newSub[h] = Nothing /\ mirror[SubOf(h)] = seen[h])

Follows ==
  \A s \in Known :
    truth[s] # Nothing /\ Pending(s) = {} => mirror[s] = truth[s]

(* The tier is that of the subscription written last, or it has an event   *)
(* that is still to come.                                                  *)
TierFollows ==
  (\E s \in Known : truth[s] # Nothing) =>
    \E s \in Known : truth[s] # Nothing /\ (tier = truth[s] \/ Pending(s) # {})

ConvergeInv == OneDelivery /\ Bought /\ Informed /\ Carries /\ Follows /\ TierFollows

LEMMA ConvergeInvariant ==
  ASSUME Serial
  PROVE  Spec => []ConvergeInv
<1> USE WebhookAssumption DEF Tier, Paid, Event
<1>1. Init => ConvergeInv
  BY DEF Init, ConvergeInv, OneDelivery, Bought, Informed, Carries, Follows, TierFollows,
         Emitted
<1>2. EventInv /\ SaleInv /\ ConvergeInv /\ [Next]_vars => ConvergeInv'
  <2> SUFFICES ASSUME EventInv, SaleInv, ConvergeInv, [Next]_vars PROVE ConvergeInv'
    OBVIOUS
  <2>0. TypeOK /\ HasEvent /\ Fresh /\ MirrorAtCommit
    BY DEF EventInv, SaleInv
  <2> USE <2>0 DEF ConvergeInv, OneDelivery, Bought, Informed, Carries, Follows, TierFollows,
              Pending, PendingBut,
              HasEvent, Fresh, Writing, MirrorAtCommit,
              Emitted, stripeVars, dbVars, localVars, Goto, Forget, SubOf, TypeOK
  <2>1. ASSUME NEW s \in Sub, NEW t \in Tier, NEW e \in SubEvent, Change(s, t, e)
        PROVE  ConvergeInv'
    <3>1. /\ about[e] = Nothing /\ about' = [about EXCEPT ![e] = s]
          /\ truth' = [truth EXCEPT ![s] = t]
          /\ UNCHANGED <<acked, dbVars, pc, localVars>>
      BY <2>1 DEF Change
    <3>2. \A h \in Handler : pc[h] # "idle" => ev[h] # e /\ SubOf(h)' = SubOf(h)
      BY <3>1
    <3>3. e \notin recorded /\ e \in Pending(s)'
      BY <3>1 DEF EventInv, RecordedEmitted
    <3>4. \A h \in Handler : pc[h] # "idle" => e \in PendingBut(s, h)'
      BY <3>1, <3>2, <3>3
    <3>5. \A u \in Sub \ {s} : Pending(u)' = Pending(u) /\ truth'[u] = truth[u]
      BY <3>1
    <3>6. \A u \in Sub \ {s}, h \in Handler : PendingBut(u, h)' = PendingBut(u, h)
      BY <3>1, <3>5
    <3>7. \A h \in Handler : pc[h] # "idle" => SubOf(h) \in Sub
      OBVIOUS
    <3> HIDE DEF Pending, PendingBut, SubOf
    <3>8. Informed'
      BY <3>1, <3>2, <3>4, <3>5, <3>6, <3>7
    <3>9. Follows'
      BY <3>1, <3>3, <3>5
    <3>10. OneDelivery' /\ Carries' /\ Bought'
      BY <3>1, <3>2
    <3>11. TierFollows'
      <4>1. CASE s \in Known
        BY <4>1, <3>1, <3>3
      <4>2. CASE s \notin Known
        BY <4>2, <3>1, <3>5
      <4> QED
        BY <4>1, <4>2
    <3> QED
      BY <3>8, <3>9, <3>10, <3>11
  <2>2. ASSUME NEW s \in Sub, NEW e \in InvoiceEvent, Invoice(s, e) PROVE ConvergeInv'
    BY <2>2 DEF Invoice
  <2>3. ASSUME NEW h \in Handler, NEW e \in Event, Deliver(h, e) PROVE ConvergeInv'
    <3>1. \A g \in Handler : pc'[g] # "idle" => g = h /\ pc'[g] = "insert"
      BY <2>3 DEF Deliver
    <3>2. newTier[h] = Nothing /\ newSub[h] = Nothing
      BY <2>3 DEF Deliver
    <3>3. Carries'
      BY <2>3, <3>1, <3>2 DEF Deliver
    <3> QED
      BY <2>3, <3>1, <3>3 DEF Deliver
  <2>4. ASSUME NEW h \in Handler, InsertEvent(h) PROVE ConvergeInv'
    BY <2>4 DEF InsertEvent
  <2>5. ASSUME NEW h \in Handler, Duplicate(h) \/ SubExists(h) \/ Fail(h)
        PROVE  ConvergeInv'
    <3>1. Forget(h) /\ UNCHANGED <<truth, about, dbVars>>
      BY <2>5 DEF Duplicate, SubExists, Fail
    <3>2. Informed'
      BY <3>1
    <3>3. Carries'
      BY <3>1
    <3> QED
      BY <3>1, <3>2, <3>3
  <2>6. ASSUME NEW h \in Handler, Fetch(h) PROVE ConvergeInv'
    <3>1. /\ seen' = [seen EXCEPT ![h] = truth[SubOf(h)]]
          /\ pc' = [pc EXCEPT ![h] = IF ev[h] \in SubEvent THEN "load" ELSE "invoice"]
          /\ UNCHANGED <<stripeVars, dbVars, ev, loaded, found, newTier, newSub>>
      BY <2>6 DEF Fetch
    <3>2. SubOf(h) \in Sub /\ truth[SubOf(h)] # Nothing
      BY <2>6 DEF Fetch
    <3>3. Informed'
      BY <3>1, <3>2
    <3>4. Carries'
      BY <2>6, <3>1 DEF Fetch
    <3>5. OneDelivery'
      BY <2>6, <3>1 DEF Fetch
    <3>6. Bought'
      BY <3>1
    <3>7. Follows'
      BY <3>1
    <3>8. TierFollows'
      BY <3>1
    <3> QED
      BY <3>3, <3>4, <3>5, <3>6, <3>7, <3>8
  <2>7. ASSUME NEW h \in Handler, LoadOrg(h) PROVE ConvergeInv'
    BY <2>7 DEF LoadOrg
  <2>8. ASSUME NEW h \in Handler, WriteOrg(h) PROVE ConvergeInv'
    BY <2>8 DEF WriteOrg
  <2>9. ASSUME NEW h \in Handler, FindSub(h) PROVE ConvergeInv'
    BY <2>9 DEF FindSub
  <2>10. ASSUME NEW h \in Handler, WriteSub(h) PROVE ConvergeInv'
    BY <2>10 DEF WriteSub
  <2>11. ASSUME NEW h \in Handler, WriteInvoice(h) PROVE ConvergeInv'
    BY <2>11 DEF WriteInvoice
  <2>12. ASSUME NEW h \in Handler, Commit(h) PROVE ConvergeInv'
    <3>1. OneDelivery' /\ Bought' /\ Informed' /\ Carries' /\ Follows'
      BY <2>12 DEF Commit
    <3>2. TierFollows'
      <4>1. CASE newTier[h] # Nothing \/ (ev[h] \in SubEvent /\ SubOf(h) \in Known)
        <5>1. ev[h] \in SubEvent /\ SubOf(h) \in Known /\ tier' = seen[h]
          BY <2>12, <4>1 DEF Commit
        <5>2. PICK s \in Known : s = SubOf(h)
          BY <5>1
        <5>3. Pending(s)' = PendingBut(s, h)
          BY <2>12 DEF Commit
        <5>4. truth'[s] # Nothing /\ (tier' = truth'[s] \/ Pending(s)' # {})
          BY <2>12, <5>1, <5>2, <5>3 DEF Commit
        <5> QED
          BY <5>4
      <4>2. CASE newTier[h] = Nothing /\ ~(ev[h] \in SubEvent /\ SubOf(h) \in Known)
        <5>1. tier' = tier /\ truth' = truth
          BY <2>12, <4>2 DEF Commit
        <5>2. \A s \in Known : Pending(s)' = Pending(s)
          BY <2>12, <4>2 DEF Commit
        <5> QED
          BY <5>1, <5>2
      <4> QED
        BY <4>1, <4>2
    <3> QED
      BY <3>1, <3>2
  <2>13. CASE UNCHANGED vars
    BY <2>13 DEF vars
  <2> QED
    BY <2>1, <2>2, <2>3, <2>4, <2>5, <2>6, <2>7, <2>8, <2>9, <2>10, <2>11, <2>12, <2>13
    DEF Next, HandlerStep
<1> QED
  BY <1>1, <1>2, EventInvariant, SaleInvariant, PTL DEF Spec

(* In whatever order events come, one at a time, the mirror ends up with   *)
(* what Stripe has.                                                        *)
THEOREM SerialMirrorConverges ==
  ASSUME Serial
  PROVE  Spec => []MirrorConverges
<1>1. ConvergeInv => MirrorConverges
  BY DEF ConvergeInv, Follows, MirrorConverges, Quiet, Pending
<1> QED
  BY <1>1, ConvergeInvariant, PTL

(* And the tier with what one of the organisation's subscriptions stands   *)
(* for, its only one if it has one.                                        *)
THEOREM SerialTierConverges ==
  ASSUME Serial
  PROVE  Spec => []TierConverges
<1>1. ConvergeInv => TierConverges
  BY DEF ConvergeInv, TierFollows, TierConverges, Quiet, Pending
<1> QED
  BY <1>1, ConvergeInvariant, PTL
=============================================================================
