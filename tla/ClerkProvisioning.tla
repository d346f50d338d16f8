------------------------- MODULE ClerkProvisioning --------------------------
(***************************************************************************)
(* The Clerk webhook of app/api/webhooks.py: user.created inserts the      *)
(* personal organisation and the user, counts the sign-up and writes       *)
(* public_metadata.org_id back to Clerk, all before the one COMMIT that    *)
(* get_session makes when the handler has returned.                        *)
(*                                                                         *)
(* One user: users share neither rows nor metadata, and the id of the      *)
(* organisation is a function of the user's.  Svix delivers at least once, *)
(* in parallel when an attempt is slow.  PostgreSQL makes an INSERT wait   *)
(* for a transaction that has inserted the same key.                       *)
(***************************************************************************)
EXTENDS FiniteSets, Naturals

CONSTANTS
  Delivery,    \* deliveries of the user.created event in flight at once
  Key,         \* other keys of the user's public_metadata
  OrgId,       \* the key org_id, a model value
  MaxFaults,   \* bound on failed requests, of every component
  MaxResends   \* bound on deliveries after an acknowledgement

Table == {"orgs", "users"}

ASSUME ClerkAssumption ==
  /\ OrgId \notin Key
  /\ MaxFaults \in Nat
  /\ MaxResends \in Nat

VARIABLES
  rows,       \* the tables that have the user's row
  signups,    \* signup_completed rows in usage_events
  meta,       \* Clerk: keys of public_metadata
  old,        \* the keys it had when the user was created, a history variable
  acked,      \* Svix has seen a 200
  pc,         \* where each delivery is
  inserted,   \* its uncommitted rows
  read,       \* the metadata its GET returned
  resends,
  faults

clerkVars == <<rows, signups, meta, old, acked, pc, inserted, read, resends>>

ClerkTypeOK ==
  /\ rows \subseteq Table
  /\ signups \in Nat
  /\ meta \subseteq Key \cup {OrgId}
  /\ old \subseteq Key
  /\ acked \in BOOLEAN
  /\ pc \in [Delivery -> {"idle", "orgs", "users", "get", "patch", "answer"}]
  /\ inserted \in [Delivery -> SUBSET Table]
  /\ read \in [Delivery -> SUBSET (Key \cup {OrgId})]
  /\ resends \in 0..MaxResends

ClerkInit ==
  /\ rows = {}
  /\ signups = 0
  /\ old \in SUBSET Key
  /\ meta = old
  /\ acked = FALSE
  /\ pc = [d \in Delivery |-> "idle"]
  /\ inserted = [d \in Delivery |-> {}]
  /\ read = [d \in Delivery |-> {}]
  /\ resends = 0

Claim == OrgId \in meta   \* a token minted now carries org_id

-----------------------------------------------------------------------------
(* A first delivery, a retry, a duplicate in parallel, a resend.           *)
Deliver(d) ==
  /\ pc[d] = "idle"
  /\ resends' = IF acked THEN resends + 1 ELSE resends
  /\ resends' <= MaxResends
  /\ pc' = [pc EXCEPT ![d] = "orgs"]
  /\ UNCHANGED <<rows, signups, meta, old, acked, inserted, read, faults>>

(* Another program merges a key into the user's public_metadata.           *)
WriteKey(k) ==
  /\ k \notin meta
  /\ meta' = meta \cup {k}
  /\ UNCHANGED <<rows, signups, old, acked, pc, inserted, read, resends, faults>>

-----------------------------------------------------------------------------
(* INSERT ... ON CONFLICT DO NOTHING.                                      *)
Insert(d, t, next) ==
  /\ pc[d] = t
  /\ \A g \in Delivery \ {d} : t \notin inserted[g]
  /\ inserted' = IF t \in rows THEN inserted
                 ELSE [inserted EXCEPT ![d] = @ \cup {t}]
  /\ pc' = [pc EXCEPT ![d] = next]
  /\ UNCHANGED <<rows, signups, meta, old, acked, read, resends, faults>>

InsertOrg(d)  == Insert(d, "orgs", "users")
InsertUser(d) == Insert(d, "users", "get")

(* Fault seeded for the checks: an error of Clerk's API is swallowed.      *)
GetSwallowed(d) ==
  /\ pc[d] = "get"
  /\ read' = [read EXCEPT ![d] = meta]
  /\ \E next \in {"patch", "answer"} : pc' = [pc EXCEPT ![d] = next]
  /\ UNCHANGED <<rows, signups, meta, old, acked, inserted, resends, faults>>

(* GET the Clerk user; without a PATCH when org_id is there already.       *)
GetClerkUser(d) ==
  /\ pc[d] = "get"
  /\ read' = [read EXCEPT ![d] = meta]
  /\ pc' = [pc EXCEPT ![d] = IF Claim THEN "answer" ELSE "patch"]
  /\ UNCHANGED <<rows, signups, meta, old, acked, inserted, resends, faults>>

(* Fault seeded for the checks: PATCH with org_id alone.                   *)
PatchAlone(d) ==
  /\ pc[d] = "patch"
  /\ meta' = {OrgId}
  /\ pc' = [pc EXCEPT ![d] = "answer"]
  /\ UNCHANGED <<rows, signups, old, acked, inserted, read, resends, faults>>

(* PATCH replaces the metadata: by what was read, and org_id.  Clerk shows *)
(* it to the next token at once; the transaction is still open.            *)
PatchClerkUser(d) ==
  /\ pc[d] = "patch"
  /\ meta' = read[d] \cup {OrgId}
  /\ pc' = [pc EXCEPT ![d] = "answer"]
  /\ UNCHANGED <<rows, signups, old, acked, inserted, read, resends, faults>>

(* The end of the request: its transaction, and its locks, are gone.       *)
Forget(d) ==
  /\ pc' = [pc EXCEPT ![d] = "idle"]
  /\ inserted' = [inserted EXCEPT ![d] = {}]
  /\ read' = [read EXCEPT ![d] = {}]

(* Fault seeded for the checks: the transaction is never committed.        *)
AnswerOnly(d) ==
  /\ pc[d] = "answer"
  /\ acked' \in {acked, TRUE}
  /\ Forget(d)
  /\ UNCHANGED <<rows, signups, meta, old, resends, faults>>

(* COMMIT, then the 200, which may be lost.  The signup_completed row was  *)
(* added to the transaction that inserted the user.                        *)
Answer(d) ==
  /\ pc[d] = "answer"
  /\ rows' = rows \cup inserted[d]
  /\ signups' = IF "users" \in inserted[d] THEN signups + 1 ELSE signups
  /\ acked' \in {acked, TRUE}
  /\ Forget(d)
  /\ UNCHANGED <<meta, old, resends, faults>>

(* A statement, Clerk's API (also after it has applied the PATCH) or the   *)
(* COMMIT fails, or the worker dies: rollback, and no 2xx.                 *)
DeliveryFails(d) ==
  /\ pc[d] # "idle"
  /\ faults < MaxFaults
  /\ faults' = faults + 1
  /\ Forget(d)
  /\ UNCHANGED <<rows, signups, meta, old, acked, resends>>

DeliveryStep(d) ==
  \/ InsertOrg(d) \/ InsertUser(d) \/ GetClerkUser(d) \/ PatchClerkUser(d)
  \/ Answer(d)

ClerkNext ==
  \/ \E d \in Delivery : Deliver(d) \/ DeliveryStep(d) \/ DeliveryFails(d)
  \/ \E k \in Key : WriteKey(k)

ClerkSpec == ClerkInit /\ [][ClerkNext]_clerkVars

-----------------------------------------------------------------------------
(* A sign-up is counted once, with the user's row and never without it,    *)
(* however many deliveries are retried, doubled, rolled back or resent.    *)
SignupOnce == signups = IF "users" \in rows THEN 1 ELSE 0

(* Svix is told to stop only when both rows are committed and the claim    *)
(* stands in Clerk, in whichever delivery each of them was written.        *)
AckedIsProvisioned == acked => rows = Table /\ Claim

(* "merge, NOT clobber": no delivery takes away a key that the user had,   *)
(* though it writes back what it read some time before.                    *)
OldKeysKept == old \subseteq meta
=============================================================================
