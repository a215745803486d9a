---------------------------- MODULE Subscriptions ----------------------------
(***************************************************************************)
(* The projection of a Stripe subscription and the license linked to it:   *)
(* webhook events applied by concurrent handlers, operators who resync     *)
(* from the Stripe API or revoke the license, and Stripe, which changes    *)
(* the subscription and delivers its events at least once, in any order.   *)
(*                                                                         *)
(* A handler reads the subscription without locking it, checks that the    *)
(* event is not older than the row, and then writes the row.  A statement  *)
(* that may wait is a step; the statements after the last wait are one     *)
(* step with COMMIT.  Any transaction may be rolled back, and Stripe       *)
(* delivers an event again until its receipt is committed.                 *)
(*                                                                         *)
(* One subscription of one customer.  Billing periods, the cancellation    *)
(* flag and audit rows are left out, and a license's device limit is named *)
(* by the plan it was read from.                                           *)
(***************************************************************************)
EXTENDS Integers, FiniteSets

CONSTANTS
    Events,         \* Stripe event ids
    Invoices,       \* Stripe invoices of the subscription
    Handlers,       \* webhook requests
    Operators,      \* operators resyncing the subscription
    Statuses,       \* the SubscriptionStatus values Stripe may report
    Plans,          \* plan versions, each with its own Stripe price
    TicksPerSecond, \* events carry whole seconds, the service's clock does not
    MaxClock,       \* bound on the clock
    None

Procs == Handlers \cup Operators
Granting == {"trialing", "active"}
Suspending == {"unpaid", "paused", "incomplete"}

ASSUME SubscriptionAssumption ==
    /\ Handlers \cap Operators = {}
    /\ None \notin Events \cup Invoices \cup Procs \cup Plans
    /\ Statuses \subseteq Granting \cup Suspending \cup {"past_due", "canceled"}
    /\ TicksPerSecond \in Nat \ {0}
    /\ MaxClock \in Nat

VARIABLES
    stripe,         \* the subscription at Stripe
    event,          \* what each event id carries
    receipts,       \* stripe_webhook_events
    applied,        \* how often an event has been applied, up to 2
    sub,            \* the row of subscriptions
    license,        \* the row of licenses linked to it
    issued,         \* rows inserted for it, up to 2
    invoices,       \* invoice_references
    linked,         \* the customer has a row of stripe_customers
    told,           \* what the last subscription_changed event says
    billing,        \* row lock on billing_accounts
    rowLock,        \* row lock, or uncommitted key, of subscriptions
    licLock,        \* row lock on licenses
    pc, job,        \* the statement a transaction is at, and what it has read
    clock

world == <<stripe, event>>
tables == <<receipts, applied, sub, license, issued, invoices, linked, told>>
locks == <<billing, rowLock, licLock>>
vars == <<world, tables, locks, pc, job, clock>>

NoSub == [status |-> "absent", plan |-> None, at |-> 0]
NoLicense == [status |-> "absent", plan |-> None]
Unsent == [kind |-> "unsent", status |-> "absent", plan |-> None,
           invoice |-> None, created |-> 0]
NoJob == [event |-> None, before |-> NoSub, found |-> NoLicense,
          status |-> "absent", plan |-> None, at |-> 0]

Subscription == [status: Statuses \cup {"absent", "active", "past_due"},
                 plan: Plans \cup {None}, at: 0..MaxClock]
License == [status: {"absent", "active", "suspended", "revoked", "expired"},
            plan: Plans \cup {None}]

TypeOK ==
    /\ stripe \in [status: Statuses \cup {"absent"}, plan: Plans \cup {None},
                   meta: Plans \cup {None}]
    /\ event \in [Events -> [kind: {"unsent", "checkout", "subscription", "invoice"},
                             status: Statuses \cup {"absent", "active", "past_due"},
                             plan: Plans \cup {None}, invoice: Invoices \cup {None},
                             created: 0..MaxClock]]
    /\ receipts \subseteq Events
    /\ applied \in [Events -> 0..2]
    /\ sub \in Subscription
    /\ license \in License
    /\ issued \in 0..2
    /\ invoices \in [Invoices -> {"none", "open", "paid"}]
    /\ linked \in BOOLEAN
    /\ told \in [status: Statuses \cup {"absent", "active", "past_due"},
                 plan: Plans \cup {None}]
    /\ billing \in Procs \cup {None}
    /\ rowLock \in Procs \cup {None}
    /\ licLock \in Procs \cup {None}
    /\ pc \in [Procs -> {"idle", "row", "billing", "license", "commit"}]
    /\ job \in [Procs -> [event: Events \cup {None}, before: Subscription,
                          found: License, plan: Plans \cup {None}, at: 0..MaxClock,
                          status: Statuses \cup {"absent", "active", "past_due"}]]
    /\ clock \in 0..MaxClock
------------------------------------------------------------------------------
(* Stripe.                                                                  *)

(* Events carry Unix seconds. *)
Created == clock - (clock % TicksPerSecond)

Sent(e) == event[e].kind # "unsent"

Emission(kind, status, plan, invoice) ==
    [kind |-> kind, status |-> status, plan |-> plan, invoice |-> invoice,
     created |-> Created]

(* A checkout of this service ends: its plan is in the metadata of the      *)
(* subscription, and Stripe sends an event for each of the two.             *)
StripeCheckout(e, f, status, plan) ==
    /\ stripe.status = "absent"
    /\ e # f /\ ~Sent(e) /\ ~Sent(f)
    /\ stripe' = [status |-> status, plan |-> plan, meta |-> plan]
    /\ event' = [event EXCEPT ![e] = Emission("checkout", "absent", None, None),
                              ![f] = Emission("subscription", status, plan, None)]
    /\ UNCHANGED <<tables, locks, pc, job, clock>>

(* A subscription made at Stripe itself, without metadata, or a change of   *)
(* the subscription; a canceled one does not change again.                  *)
StripeChange(e, status, plan) ==
    /\ stripe.status # "canceled"
    /\ <<status, plan>> # <<stripe.status, stripe.plan>>
    /\ ~Sent(e)
    /\ stripe' = [stripe EXCEPT !.status = status, !.plan = plan]
    /\ event' = [event EXCEPT ![e] = Emission("subscription", status, plan, None)]
    /\ UNCHANGED <<tables, locks, pc, job, clock>>

(* invoice.paid and invoice.payment_failed, as invoice_change reads them.   *)
StripeInvoice(e, i, outcome) ==
    /\ stripe.status # "absent"
    /\ ~Sent(e)
    /\ \A f \in Events : event[f].invoice = i => event[f].status = "past_due"
    /\ event' = [event EXCEPT ![e] = Emission("invoice", outcome, None, i)]
    /\ UNCHANGED <<stripe, tables, locks, pc, job, clock>>

Tick ==
    /\ clock < MaxClock
    /\ clock' = clock + 1
    /\ UNCHANGED <<world, tables, locks, pc, job>>
------------------------------------------------------------------------------
(* Transactions.                                                            *)

GoTo(p, where) == pc' = [pc EXCEPT ![p] = where]

Kept(lock, p) == lock                                           \* mutant
Freed(lock, p) == IF lock = p THEN None ELSE lock

Finish(p) ==
    /\ billing' = Freed(billing, p)
    /\ rowLock' = Freed(rowLock, p)
    /\ licLock' = Freed(licLock, p)
    /\ GoTo(p, "idle")
    /\ job' = [job EXCEPT ![p] = NoJob]
    /\ UNCHANGED <<world, clock>>

Abort(p) ==
    /\ pc[p] # "idle"
    /\ Finish(p)
    /\ UNCHANGED tables

(* is_stale_event *)
Unchecked(created) == FALSE                                     \* mutant
Stale(created) == created < sub.at

(* on conflict (stripe_event_id) do nothing: waits for a transaction that   *)
(* has inserted the receipt, and finds nothing to do if it commits.         *)
SentAgain(e) == Sent(e) /\ e \notin receipts                    \* mutant
Deliverable(e) == Sent(e) /\ e \notin receipts /\ \A p \in Procs : job[p].event # e

(* mark_webhook_processed *)
Mark(e) ==
    /\ receipts' = receipts \cup {e}
    /\ applied' = [applied EXCEPT ![e] = IF @ = 2 THEN 2 ELSE @ + 1]

SubscriptionStatus(e) == event[e].status                        \* mutant
InvoiceStatus(e) == IF event[e].status = "active" THEN "paid" ELSE "open"

(* record_invoice_reference *)
Recorded(e) ==
    IF event[e].invoice = None THEN invoices
    ELSE [invoices EXCEPT ![event[e].invoice] = InvoiceStatus(e)]

(* An invoice that is paid does not bring a canceled subscription back. *)
Preserves(e) ==
    /\ event[e].kind = "invoice"
    /\ event[e].status = "active"
    /\ sub.status = "canceled"

(* resolve_customer_id, for a subscription event. *)
CustomerKnown == stripe.meta # None \/ sub.status # "absent" \/ linked

(* The existing row as the transaction reads it decides what is done: the   *)
(* event is skipped (one step: nothing in it waits), refused (no step: the  *)
(* customer or the subscription is unknown), or goes on.                    *)
Skip(e) ==
    /\ Deliverable(e)
    /\ event[e].kind # "checkout"
    /\ sub.status # "absent"
    /\ Stale(event[e].created) \/ Preserves(e)
    /\ Mark(e)
    /\ invoices' = Recorded(e)
    /\ UNCHANGED <<world, sub, license, issued, linked, told, locks, pc, job, clock>>

Receive(h, e) ==
    LET kind == event[e].kind
    IN  /\ pc[h] = "idle"
        /\ Deliverable(e)
        /\ kind = "subscription" => CustomerKnown
        /\ kind = "invoice" => sub.status # "absent"
        /\ kind = "checkout" \/ ~(Stale(event[e].created) \/ Preserves(e))
        /\ GoTo(h, IF kind = "invoice" THEN "row" ELSE "billing")
        /\ job' = [job EXCEPT ![h] = [NoJob EXCEPT !.event = e, !.before = sub]]
        /\ UNCHANGED <<world, tables, locks, clock>>

(* find_subscription_for_resync and fetch_subscription, outside any         *)
(* transaction.                                                             *)
Fetch(o) ==
    /\ pc[o] = "idle"
    /\ sub.status # "absent"
    /\ GoTo(o, "row")
    /\ job' = [job EXCEPT ![o] = [NoJob EXCEPT !.status = stripe.status,
                                               !.plan = stripe.plan]]
    /\ UNCHANGED <<world, tables, locks, clock>>

(* ensure_billing_account.  A checkout has nothing more to wait for; a      *)
(* resync, which has the subscription's row already, takes its time stamp.  *)
LockBilling(p) ==
    /\ pc[p] = "billing"
    /\ billing = None
    /\ billing' = p
    /\ GoTo(p, IF p \in Operators THEN "license"
               ELSE IF event[job[p].event].kind = "checkout" THEN "commit" ELSE "row")
    /\ job' = IF p \in Operators THEN [job EXCEPT ![p].at = clock] ELSE job
    /\ UNCHANGED <<world, tables, rowLock, licLock, clock>>

(* The insert of a row that another handler has inserted meanwhile fails. *)
Conflict(h) == h \in Handlers /\ job[h].before.status = "absent" /\ sub.status # "absent"

(* before # after, the after being the row with the invoice's status. *)
PlanChanges(h) == job[h].before.plan # sub.plan                 \* mutant
InvoiceChanges(h) ==
    <<job[h].before.status, job[h].before.plan>> # <<event[job[h].event].status, sub.plan>>

FreeRow == rowLock = None

(* The update, or the insert, of the subscription by a handler. *)
WriteRow(h) ==
    /\ h \in Handlers
    /\ pc[h] = "row"
    /\ FreeRow
    /\ ~Conflict(h)
    /\ rowLock' = h
    /\ GoTo(h, IF event[job[h].event].kind = "subscription" \/ InvoiceChanges(h)
               THEN "license" ELSE "commit")
    /\ UNCHANGED <<world, tables, billing, licLock, job, clock>>

Refused(h) ==
    /\ pc[h] = "row"
    /\ FreeRow
    /\ Conflict(h)
    /\ Abort(h)

(* apply_admin_resync: select ... for update. *)
LockRow(o) ==
    /\ o \in Operators
    /\ pc[o] = "row"
    /\ FreeRow
    /\ rowLock' = o
    /\ job' = [job EXCEPT ![o].before = sub]
    /\ GoTo(o, "billing")
    /\ UNCHANGED <<world, tables, billing, licLock, clock>>

(* sync_license_for_subscription: select ... for update of the license, if  *)
(* there is one.                                                            *)
ReadOnly(p) == None                                             \* mutant
ForUpdate(p) == IF license.status = "absent" THEN None ELSE p

ActiveLicense ==                                                \* mutant
    IF license.status = "active" THEN license ELSE NoLicense
LinkedLicense == license        \* the query asks for any status

LockLicense(p) ==
    /\ pc[p] = "license"
    /\ licLock = None
    /\ licLock' = ForUpdate(p)
    /\ job' = [job EXCEPT ![p].found = LinkedLicense]
    /\ GoTo(p, "commit")
    /\ UNCHANGED <<world, tables, billing, rowLock, clock>>
------------------------------------------------------------------------------
(* What is committed.                                                       *)

(* resolve_plan_version_id: metadata, then the existing row, then the price.*)
PlanOf(before, price) ==
    IF stripe.meta # None THEN stripe.meta
    ELSE IF before.status # "absent" THEN before.plan ELSE price

(* license_sync_action and the writes of sync_license_for_subscription. *)
SyncedOnIssue(found, status, plan) ==                           \* mutant
    IF found.status = "absent" /\ status \in Granting
    THEN [status |-> "active", plan |-> plan] ELSE found
Synced(found, status, plan) ==
    LET becomes(s) == [found EXCEPT !.status = s]
    IN  IF status \in Granting /\ found.status # "revoked"
        THEN [status |-> "active", plan |-> plan]
        ELSE IF status = "canceled" /\ found.status \in {"active", "suspended"}
        THEN becomes("expired")
        ELSE IF status \in Suspending /\ found.status = "active"
        THEN becomes("suspended")
        ELSE found

(* The license is written to match; a row is inserted if none was found. *)
SyncLicense(p, status, plan) ==
    /\ license' = Synced(job[p].found, status, plan)
    /\ issued' = IF /\ job[p].found.status = "absent"
                    /\ status \in Granting
                    /\ issued < 2
                 THEN issued + 1 ELSE issued

(* write_subscription_outbox *)
Announce(status, plan) == told' = [status |-> status, plan |-> plan]

CommitCheckout(h) ==
    LET e == job[h].event
    IN  /\ pc[h] = "commit"
        /\ e # None /\ event[e].kind = "checkout"
        /\ linked' = TRUE
        /\ Mark(e)
        /\ UNCHANGED <<sub, license, issued, invoices, told>>
        /\ Finish(h)

WrittenAt(e) == event[e].created

CommitChange(h) ==
    LET e == job[h].event
        status == event[e].status
        plan == PlanOf(job[h].before, event[e].plan)
    IN  /\ pc[h] = "commit"
        /\ e # None /\ event[e].kind = "subscription"
        /\ sub' = [status |-> status, plan |-> plan, at |-> WrittenAt(e)]
        /\ SyncLicense(h, status, plan)
        /\ Announce(status, plan)
        /\ linked' = TRUE
        /\ Mark(e)
        /\ UNCHANGED invoices
        /\ Finish(h)

CommitInvoice(h) ==
    LET e == job[h].event
        status == event[e].status
    IN  /\ pc[h] = "commit"
        /\ e # None /\ event[e].kind = "invoice"
        /\ sub' = [sub EXCEPT !.status = status, !.at = WrittenAt(e)]
        /\ IF InvoiceChanges(h)
           THEN SyncLicense(h, status, sub.plan) /\ Announce(status, sub.plan)
           ELSE UNCHANGED <<license, issued, told>>
        /\ invoices' = Recorded(e)
        /\ Mark(e)
        /\ UNCHANGED linked
        /\ Finish(h)

CommitResync(o) ==
    LET before == job[o].before
        status == job[o].status
        plan == PlanOf(before, job[o].plan)
    IN  /\ o \in Operators
        /\ pc[o] = "commit"
        /\ sub' = [status |-> status, plan |-> plan, at |-> job[o].at]
        /\ SyncLicense(o, status, plan)
        /\ IF <<status, plan>> # <<before.status, before.plan>>
           THEN Announce(status, plan) ELSE UNCHANGED told
        /\ linked' = TRUE
        /\ UNCHANGED <<receipts, applied, invoices>>
        /\ Finish(o)

(* admin::revoke_license *)
Revoke ==
    /\ license.status \notin {"absent", "revoked"}
    /\ licLock = None
    /\ license' = [license EXCEPT !.status = "revoked"]
    /\ UNCHANGED <<world, receipts, applied, sub, issued, invoices, linked, told,
                   locks, pc, job, clock>>
------------------------------------------------------------------------------
Init ==
    /\ stripe = [status |-> "absent", plan |-> None, meta |-> None]
    /\ event = [e \in Events |-> Unsent]
    /\ receipts = {}
    /\ applied = [e \in Events |-> 0]
    /\ sub = NoSub
    /\ license = NoLicense
    /\ issued = 0
    /\ invoices = [i \in Invoices |-> "none"]
    /\ linked \in BOOLEAN
    /\ told = [status |-> "absent", plan |-> None]
    /\ billing = None /\ rowLock = None /\ licLock = None
    /\ pc = [p \in Procs |-> "idle"]
    /\ job = [p \in Procs |-> NoJob]
    /\ clock = 0

StripeStep ==
    \/ \E e, f \in Events, status \in Statuses \ {"canceled"}, plan \in Plans :
          StripeCheckout(e, f, status, plan)
    \/ \E e \in Events, status \in Statuses, plan \in Plans : StripeChange(e, status, plan)
    \/ \E e \in Events, i \in Invoices, outcome \in {"active", "past_due"} :
          StripeInvoice(e, i, outcome)

(* A statement of a transaction, after its first. *)
Statement(p) ==
    \/ LockBilling(p) \/ WriteRow(p) \/ Refused(p) \/ LockRow(p) \/ LockLicense(p)
    \/ CommitCheckout(p) \/ CommitChange(p) \/ CommitInvoice(p) \/ CommitResync(p)

Next ==
    \/ StripeStep \/ Tick
    \/ \E e \in Events : Skip(e) \/ \E h \in Handlers : Receive(h, e)
    \/ \E o \in Operators : Fetch(o)
    \/ \E p \in Procs : Statement(p) \/ Abort(p)
    \/ Revoke

Spec == Init /\ [][Next]_vars

(* Stripe delivers an event again until it is answered with success, and a  *)
(* waiter of a lock that is released again and again is granted it.         *)
(* Disconnects and restarts, and the work of operators, are not forever;    *)
(* Postgres cancels a member of a cycle of waiters.                         *)
WaitsFor(p, q) ==
    \/ pc[p] = "row" /\ rowLock = q
    \/ pc[p] = "billing" /\ billing = q

DeadlockVictim(p) ==
    /\ \E q \in Procs : WaitsFor(p, q) /\ WaitsFor(q, p)
    /\ Abort(p)

Fairness ==
    /\ \A e \in Events : SF_vars(Skip(e) \/ \E h \in Handlers : Receive(h, e))
    /\ \A p \in Procs : SF_vars(Statement(p)) /\ WF_vars(DeadlockVictim(p))
    /\ <>[][\A p \in Procs : Abort(p) => DeadlockVictim(p) \/ Statement(p)]_vars
    /\ <>[][\A o \in Operators : ~Fetch(o)]_vars

FairSpec == Spec /\ Fairness
------------------------------------------------------------------------------
(* "Duplicate webhooks are safe": an event is applied when its receipt is   *)
(* committed and never again, although Stripe delivers it to several        *)
(* handlers at once.                                                        *)
AppliedOnce == \A e \in Events : applied[e] = IF e \in receipts THEN 1 ELSE 0

(* No constraint of the licenses table says so: only the lock on the        *)
(* subscription's row keeps two handlers, or a handler and an operator,     *)
(* from both finding no license and issuing one.                            *)
OneLicense == issued <= 1

(* "A revoked license is never changed by subscription state": not by a     *)
(* transaction that read the license before it was revoked either.          *)
RevokedStays == [][license.status = "revoked" => license' = license]_vars

(* The license is what the subscription's status and plan ask for           *)
(* ("Keep the license linked to a subscription consistent").                *)
LicenseFollows ==
    /\ sub.status \in Granting =>
          \/ license = [status |-> "active", plan |-> sub.plan]
          \/ license.status = "revoked"
    /\ sub.status \in Suspending => license.status # "active"
    /\ sub.status = "canceled" => license.status \in {"absent", "expired", "revoked"}

(* The row is what the newest applied event says, in whatever order the     *)
(* events came; payments of a canceled subscription are only recorded.      *)
Pays(e) == event[e].kind = "invoice" /\ event[e].status = "active"

NewestWins ==
    /\ \A e \in receipts : \/ event[e].kind = "checkout"
                           \/ event[e].created <= sub.at
                           \/ Pays(e)
    /\ sub.status # "absent" =>
          \E e \in receipts : event[e].created = sub.at /\ event[e].status = sub.status

(* The last event queued for DataForge describes the subscription: no       *)
(* change of status or plan goes unreported.                                *)
Reported == <<told.status, told.plan>> = <<sub.status, sub.plan>>

(* Every event is applied, skipped or found a duplicate in the end, if the  *)
(* customer it belongs to can be told at all.                               *)
EventsProcessed ==
    \A e \in Events : Sent(e) /\ (stripe.meta # None \/ linked) ~> e \in receipts

(* Properties of runs that show where the code does otherwise. *)

(* "never regress to a staler state" *)
NeverStaler == [][sub.at <= sub'.at]_vars
==============================================================================
