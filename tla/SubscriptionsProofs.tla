------------------------- MODULE SubscriptionsProofs -------------------------
(***************************************************************************)
(* Subscriptions for any events, handlers, operators, plans and clocks:    *)
(* its states are well-typed, an event is applied once, a subscription     *)
(* never gets a second license and a revoked one is never changed.  Then,  *)
(* for one handler at a time: the row is the newest event's, the license   *)
(* follows it, and what is queued describes it.                            *)
(***************************************************************************)
EXTENDS Subscriptions, TLAPS

(* What a transaction has read, as TypeOK has it. *)
Job == [event: Events \cup {None}, before: Subscription,
        found: License, plan: Plans \cup {None}, at: 0..MaxClock,
        status: Statuses \cup {"absent", "active", "past_due"}]

LEMMA CreatedInRange == TypeOK => Created \in 0..MaxClock
<1> SUFFICES ASSUME TypeOK PROVE Created \in 0..MaxClock
  OBVIOUS
<1>1. clock \in Nat /\ clock <= MaxClock /\ TicksPerSecond \in Nat \ {0} /\ MaxClock \in Nat
  BY SubscriptionAssumption DEF SubscriptionAssumption, TypeOK
<1>2. clock % TicksPerSecond \in 0..(TicksPerSecond - 1)
  BY <1>1
<1>3. clock % TicksPerSecond <= clock
  BY <1>1
<1>4. QED
  BY <1>1, <1>2, <1>3 DEF Created

LEMMA InitType == Init => TypeOK
BY SubscriptionAssumption DEF SubscriptionAssumption, Init, TypeOK, NoSub, NoLicense, NoJob,
   Unsent, Subscription, License

(* What a license becomes is a license, and it becomes none only of none. *)
LEMMA SyncedType ==
    ASSUME NEW found \in License, NEW status, NEW plan \in Plans \cup {None}
    PROVE  /\ Synced(found, status, plan) \in License
           /\ found.status # "absent" => Synced(found, status, plan).status # "absent"
           /\ found.status = "absent" /\ status \notin Granting =>
                  Synced(found, status, plan).status = "absent"
           /\ found.status = "absent" /\ status \in Granting =>
                  Synced(found, status, plan).status # "absent"
BY DEF Synced, License

LEMMA FinishType ==
    ASSUME TypeOK, NEW p \in Procs, Finish(p)
    PROVE  /\ billing' \in Procs \cup {None}
           /\ rowLock' \in Procs \cup {None}
           /\ licLock' \in Procs \cup {None}
           /\ pc' \in [Procs -> {"idle", "row", "billing", "license", "commit"}]
           /\ job' \in [Procs -> [event: Events \cup {None}, before: Subscription,
                                  found: License, plan: Plans \cup {None}, at: 0..MaxClock,
                                  status: Statuses \cup {"absent", "active", "past_due"}]]
           /\ UNCHANGED <<stripe, event, clock>>
BY SubscriptionAssumption DEF SubscriptionAssumption, Finish, GoTo, Freed, TypeOK, NoJob, NoSub,
   NoLicense, Subscription, License, world

LEMMA MarkType ==
    ASSUME TypeOK, NEW e \in Events, Mark(e)
    PROVE  receipts' \subseteq Events /\ applied' \in [Events -> 0..2]
<1> DEFINE n == IF applied[e] = 2 THEN 2 ELSE applied[e] + 1
<1>1. n \in 0..2
  BY DEF TypeOK
<1>2. applied' = [applied EXCEPT ![e] = n] /\ receipts' = receipts \cup {e}
  BY DEF Mark
<1> HIDE DEF n
<1>3. QED
  BY <1>1, <1>2 DEF TypeOK

LEMMA RecordedType ==
    ASSUME TypeOK, NEW e \in Events
    PROVE  Recorded(e) \in [Invoices -> {"none", "open", "paid"}]
BY DEF TypeOK, Recorded, InvoiceStatus

LEMMA SyncType ==
    ASSUME TypeOK, NEW p \in Procs,
           NEW status \in Statuses \cup {"absent", "active", "past_due"},
           NEW plan \in Plans \cup {None}, SyncLicense(p, status, plan)
    PROVE  license' \in License /\ issued' \in 0..2
<1>1. job[p].found \in License /\ issued \in 0..2
  BY DEF TypeOK
<1>2. license' \in License
  BY <1>1, SyncedType DEF SyncLicense
<1>3. QED
  BY <1>1, <1>2 DEF SyncLicense

LEMMA NothingType ==
    /\ NoSub \in Subscription /\ NoLicense \in License
    /\ 0 \in 0..MaxClock /\ None \in Plans \cup {None} /\ None \in Events \cup {None}
BY SubscriptionAssumption DEF SubscriptionAssumption, NoSub, NoLicense, Subscription, License

LEMMA PlanType ==
    ASSUME TypeOK, NEW before \in Subscription, NEW price \in Plans \cup {None}
    PROVE  PlanOf(before, price) \in Plans \cup {None}
BY DEF TypeOK, PlanOf, Subscription

LEMMA TypeStep == TypeOK /\ [Next]_vars => TypeOK'
<1> SUFFICES ASSUME TypeOK, [Next]_vars PROVE TypeOK'
  OBVIOUS
<1>1. ASSUME NEW e \in Events, NEW f \in Events, NEW status \in Statuses \ {"canceled"},
             NEW plan \in Plans, StripeCheckout(e, f, status, plan)
      PROVE  TypeOK'
  BY <1>1, CreatedInRange DEF StripeCheckout, Emission, TypeOK, tables, locks
<1>2. ASSUME NEW e \in Events, NEW status \in Statuses, NEW plan \in Plans,
             StripeChange(e, status, plan)
      PROVE  TypeOK'
  BY <1>2, CreatedInRange DEF StripeChange, Emission, TypeOK, tables, locks
<1>3. ASSUME NEW e \in Events, NEW i \in Invoices, NEW outcome \in {"active", "past_due"},
             StripeInvoice(e, i, outcome)
      PROVE  TypeOK'
  BY <1>3, CreatedInRange DEF StripeInvoice, Emission, TypeOK, tables, locks
<1>4. CASE Tick
  BY <1>4, SubscriptionAssumption DEF SubscriptionAssumption, Tick, TypeOK, world, tables, locks
<1>5. ASSUME NEW e \in Events, Skip(e) PROVE TypeOK'
  <2>1. receipts' \subseteq Events /\ applied' \in [Events -> 0..2]
    BY <1>5, MarkType DEF Skip
  <2>2. invoices' \in [Invoices -> {"none", "open", "paid"}]
    BY <1>5, RecordedType DEF Skip
  <2>3. QED
    BY <1>5, <2>1, <2>2 DEF Skip, TypeOK, world, locks
<1>6. ASSUME NEW e \in Events, NEW h \in Handlers, Receive(h, e) PROVE TypeOK'
  <2> DEFINE j == [NoJob EXCEPT !.event = e, !.before = sub]
  <2>1. j \in Job
    BY NothingType DEF NoJob, Job, TypeOK
  <2>2. job' = [job EXCEPT ![h] = j] /\ UNCHANGED <<world, tables, locks, clock>>
    BY <1>6 DEF Receive
  <2>3. pc' \in [Procs -> {"idle", "row", "billing", "license", "commit"}]
    BY <1>6 DEF Receive, GoTo, TypeOK
  <2> HIDE DEF j
  <2>4. QED
    BY <2>1, <2>2, <2>3 DEF TypeOK, Job, world, tables, locks
<1>7. ASSUME NEW o \in Operators, Fetch(o) PROVE TypeOK'
  <2> DEFINE j == [NoJob EXCEPT !.status = stripe.status, !.plan = stripe.plan]
  <2>1. j \in Job
    BY NothingType DEF NoJob, Job, TypeOK
  <2>2. job' = [job EXCEPT ![o] = j] /\ UNCHANGED <<world, tables, locks, clock>>
    BY <1>7 DEF Fetch
  <2>3. pc' \in [Procs -> {"idle", "row", "billing", "license", "commit"}]
    BY <1>7 DEF Fetch, GoTo, TypeOK
  <2> HIDE DEF j
  <2>4. QED
    BY <2>1, <2>2, <2>3 DEF TypeOK, Job, world, tables, locks
<1>8. ASSUME NEW p \in Procs, LockBilling(p) PROVE TypeOK'
  BY <1>8 DEF LockBilling, GoTo, TypeOK, world, tables
<1>9. ASSUME NEW p \in Procs, WriteRow(p) PROVE TypeOK'
  BY <1>9 DEF WriteRow, GoTo, TypeOK, world, tables
<1>10. ASSUME NEW p \in Procs, LockRow(p) PROVE TypeOK'
  <2> DEFINE j == [job[p] EXCEPT !.before = sub]
  <2>1. j \in Job
    BY DEF Job, TypeOK
  <2>2. /\ job' = [job EXCEPT ![p] = j] /\ rowLock' = p
        /\ UNCHANGED <<world, tables, billing, licLock, clock>>
    BY <1>10 DEF LockRow, TypeOK
  <2>3. pc' \in [Procs -> {"idle", "row", "billing", "license", "commit"}]
    BY <1>10 DEF LockRow, GoTo, TypeOK
  <2> HIDE DEF j
  <2>4. QED
    BY <2>1, <2>2, <2>3 DEF TypeOK, Job, world, tables
<1>11. ASSUME NEW p \in Procs, LockLicense(p) PROVE TypeOK'
  BY <1>11 DEF LockLicense, LinkedLicense, ForUpdate, GoTo, TypeOK, world, tables
<1>12. ASSUME NEW p \in Procs, Abort(p) PROVE TypeOK'
  <2>1. UNCHANGED tables
    BY <1>12 DEF Abort
  <2>2. QED
    BY <1>12, <2>1, FinishType DEF Abort, TypeOK, tables
<1>13. ASSUME NEW p \in Procs, CommitCheckout(p) PROVE TypeOK'
  <2>1. job[p].event \in Events
    BY <1>13 DEF CommitCheckout, TypeOK
  <2>2. receipts' \subseteq Events /\ applied' \in [Events -> 0..2]
    BY <1>13, <2>1, MarkType DEF CommitCheckout
  <2>3. QED
    BY <1>13, <2>2, FinishType DEF CommitCheckout, TypeOK
<1>14. ASSUME NEW p \in Procs, CommitChange(p) PROVE TypeOK'
  <2> DEFINE e == job[p].event
             plan == PlanOf(job[p].before, event[e].plan)
  <2>1. e \in Events /\ job[p].before \in Subscription
    BY <1>14 DEF CommitChange, TypeOK
  <2>2. /\ event[e].status \in Statuses \cup {"absent", "active", "past_due"}
        /\ event[e].plan \in Plans \cup {None}
        /\ event[e].created \in 0..MaxClock
    BY <2>1 DEF TypeOK
  <2>3. plan \in Plans \cup {None}
    BY <2>1, <2>2, PlanType
  <2>4. receipts' \subseteq Events /\ applied' \in [Events -> 0..2]
    BY <1>14, <2>1, MarkType DEF CommitChange
  <2>5. license' \in License /\ issued' \in 0..2
    <3>1. SyncLicense(p, event[e].status, plan)
      BY <1>14 DEF CommitChange
    <3> HIDE DEF plan, e
    <3>2. QED
      BY <2>2, <2>3, <3>1, SyncType
  <2>6. sub' \in Subscription
    BY <1>14, <2>2, <2>3 DEF CommitChange, WrittenAt, Subscription
  <2>7. told' \in [status: Statuses \cup {"absent", "active", "past_due"}, plan: Plans \cup {None}]
    BY <1>14, <2>2, <2>3 DEF CommitChange, Announce
  <2>8. linked' = TRUE /\ UNCHANGED invoices
    BY <1>14 DEF CommitChange
  <2>9. Finish(p)
    BY <1>14 DEF CommitChange
  <2>10. QED
    BY <2>4, <2>5, <2>6, <2>7, <2>8, <2>9, FinishType DEF TypeOK
<1>15. ASSUME NEW p \in Procs, CommitInvoice(p) PROVE TypeOK'
  <2> DEFINE e == job[p].event
  <2>1. e \in Events
    BY <1>15 DEF CommitInvoice, TypeOK
  <2>2. /\ event[e].status \in Statuses \cup {"absent", "active", "past_due"}
        /\ event[e].created \in 0..MaxClock
        /\ sub.plan \in Plans \cup {None}
    BY <2>1 DEF TypeOK, Subscription
  <2>3. receipts' \subseteq Events /\ applied' \in [Events -> 0..2]
    BY <1>15, <2>1, MarkType DEF CommitInvoice
  <2>4. invoices' \in [Invoices -> {"none", "open", "paid"}]
    BY <1>15, <2>1, RecordedType DEF CommitInvoice
  <2>5. /\ license' \in License /\ issued' \in 0..2
        /\ told' \in [status: Statuses \cup {"absent", "active", "past_due"}, plan: Plans \cup {None}]
    <3>1. CASE InvoiceChanges(p)
      <4>1. SyncLicense(p, event[e].status, sub.plan) /\ Announce(event[e].status, sub.plan)
        BY <1>15, <3>1 DEF CommitInvoice
      <4> HIDE DEF e
      <4>2. QED
        BY <2>2, <4>1, SyncType DEF Announce
    <3>2. CASE ~InvoiceChanges(p)
      BY <1>15, <3>2 DEF CommitInvoice, TypeOK
    <3>3. QED
      BY <3>1, <3>2
  <2>6. sub' \in Subscription
    BY <1>15, <2>2 DEF CommitInvoice, WrittenAt, TypeOK, Subscription
  <2>7. UNCHANGED linked /\ Finish(p)
    BY <1>15 DEF CommitInvoice
  <2>8. QED
    BY <2>3, <2>4, <2>5, <2>6, <2>7, FinishType DEF TypeOK
<1>16. ASSUME NEW p \in Procs, CommitResync(p) PROVE TypeOK'
  <2> DEFINE status == job[p].status
             plan == PlanOf(job[p].before, job[p].plan)
  <2>1. /\ job[p].before \in Subscription /\ job[p].plan \in Plans \cup {None}
        /\ status \in Statuses \cup {"absent", "active", "past_due"}
        /\ job[p].at \in 0..MaxClock
    BY DEF TypeOK
  <2>2. plan \in Plans \cup {None}
    BY <2>1, PlanType
  <2>3. license' \in License /\ issued' \in 0..2
    <3>1. SyncLicense(p, status, plan)
      BY <1>16 DEF CommitResync
    <3> HIDE DEF status, plan
    <3>2. QED
      BY <2>1, <2>2, <3>1, SyncType
  <2>4. sub' \in Subscription
    BY <1>16, <2>1, <2>2 DEF CommitResync, Subscription
  <2>5. told' \in [status: Statuses \cup {"absent", "active", "past_due"}, plan: Plans \cup {None}]
    BY <1>16, <2>1, <2>2 DEF CommitResync, Announce, TypeOK
  <2>6. linked' = TRUE /\ UNCHANGED <<receipts, applied, invoices>> /\ Finish(p)
    BY <1>16 DEF CommitResync
  <2>7. QED
    BY <2>3, <2>4, <2>5, <2>6, FinishType DEF TypeOK
<1>17. CASE Revoke
  BY <1>17 DEF Revoke, TypeOK, License, world, locks
<1>18. CASE UNCHANGED vars
  BY <1>18 DEF vars, world, tables, locks, TypeOK
<1>19. QED
  BY <1>1, <1>2, <1>3, <1>4, <1>5, <1>6, <1>7, <1>8, <1>9, <1>10, <1>11, <1>12, <1>13, <1>14,
     <1>15, <1>16, <1>17, <1>18 DEF Next, StripeStep, Statement, Refused

(* Whatever Stripe, the handlers and the operators do, every state of the   *)
(* projection is well-typed.                                                *)
THEOREM TypeCorrect == Spec => []TypeOK
<1>1. QED
  BY InitType, TypeStep, PTL DEF Spec
------------------------------------------------------------------------------
(* The inductive invariant.                                                 *)

(* A handler works on an event that no other handler and no receipt has. *)
Receipt ==
    /\ \A p \in Procs : job[p].event # None =>
          /\ Sent(job[p].event) /\ job[p].event \notin receipts
          /\ \A q \in Procs : q # p => job[q].event # job[p].event
    /\ \A o \in Operators : job[o].event = None
    /\ \A h \in Handlers : pc[h] # "idle" => job[h].event # None
    /\ AppliedOnce

(* Who is about to write the license has the subscription's row. *)
Checkout(p) == p \in Handlers /\ event[job[p].event].kind = "checkout"

RowHeld ==
    \A p \in Procs :
       /\ pc[p] = "license" => rowLock = p
       /\ pc[p] = "commit" /\ ~Checkout(p) => rowLock = p
       /\ pc[p] = "billing" /\ p \in Operators => rowLock = p

(* So a license not found is still not there, and none has been issued. *)
Syncs(p) ==
    \/ p \in Operators
    \/ event[job[p].event].kind = "subscription"
    \/ event[job[p].event].kind = "invoice" /\ InvoiceChanges(p)

LicenseRead ==
    \A p \in Procs :
       /\ pc[p] = "commit" /\ Syncs(p) /\ job[p].found.status = "absent" =>
             license.status = "absent"
       /\ job[p].found.status # "absent" => license.status # "absent"

(* The license found is the license, locked, until the commit. *)
LicenseHeld ==
    \A p \in Procs : job[p].found.status # "absent" =>
       pc[p] = "commit" /\ licLock = p /\ job[p].found = license

Issued == issued = IF license.status = "absent" THEN 0 ELSE 1

IInv == TypeOK /\ Receipt /\ RowHeld /\ LicenseRead /\ LicenseHeld /\ Issued

LEMMA InitInv == Init => IInv
<1> SUFFICES ASSUME Init PROVE IInv
  OBVIOUS
<1>1. TypeOK
  BY InitType
<1>2. Receipt
  BY DEF Init, Receipt, AppliedOnce, NoJob, Procs
<1>3. RowHeld
  BY DEF Init, RowHeld
<1>4. LicenseRead
  BY DEF Init, LicenseRead, NoJob, NoLicense
<1>5. Issued
  BY DEF Init, Issued, NoLicense
<1>6. LicenseHeld
  BY DEF Init, LicenseHeld, NoJob, NoLicense
<1>7. QED
  BY <1>1, <1>2, <1>3, <1>4, <1>5, <1>6 DEF IInv

(* What an event carries does not change. *)
LEMMA EventKept ==
    ASSUME TypeOK, [Next]_vars, NEW e \in Events, Sent(e)
    PROVE  event'[e] = event[e]
<1>1. CASE StripeStep
  BY <1>1 DEF StripeStep, StripeCheckout, StripeChange, StripeInvoice, Sent, TypeOK
<1>2. CASE ~StripeStep
  BY <1>2 DEF Next, Tick, Skip, Receive, Fetch, Statement, LockBilling, WriteRow, Refused, LockRow,
     LockLicense, CommitCheckout, CommitChange, CommitInvoice, CommitResync, Abort, Finish, Revoke,
     vars, world
<1>3. QED
  BY <1>1, <1>2

(* A transaction leaves what others have read and locked as it is. *)
LEMMA OthersKept ==
    ASSUME TypeOK, NEW p \in Procs, Statement(p) \/ Abort(p), NEW q \in Procs, q # p
    PROVE  job'[q] = job[q] /\ pc'[q] = pc[q] /\ (rowLock = q => rowLock' = q)
<1>1. CASE Finish(p)
  BY <1>1 DEF Finish, GoTo, Freed, TypeOK
<1>2. CASE ~Finish(p)
  <2>1. LockBilling(p) \/ WriteRow(p) \/ LockRow(p) \/ LockLicense(p)
    BY <1>2 DEF Statement, Refused, Abort, CommitCheckout, CommitChange, CommitInvoice, CommitResync
  <2>2. QED
    BY <2>1, SubscriptionAssumption DEF SubscriptionAssumption, LockBilling, WriteRow, LockRow,
       LockLicense, FreeRow, GoTo, TypeOK, Procs
<1>3. QED
  BY <1>1, <1>2

(* It keeps its event until it ends, marked as applied or not. *)
LEMMA OwnEvent ==
    ASSUME TypeOK, Receipt, NEW p \in Procs, Statement(p) \/ Abort(p)
    PROVE  \/ /\ UNCHANGED <<receipts, applied>>
              /\ \/ job'[p].event = job[p].event /\ pc[p] # "idle"
                 \/ job'[p].event = None /\ pc'[p] = "idle"
           \/ /\ job[p].event \in Events /\ Mark(job[p].event)
              /\ job'[p].event = None /\ pc'[p] = "idle"
<1>1. Finish(p) => job'[p].event = None /\ pc'[p] = "idle"
  BY DEF Finish, GoTo, NoJob, TypeOK
<1>2. CASE LockBilling(p)
  BY <1>2 DEF LockBilling, TypeOK, tables
<1>3. CASE WriteRow(p)
  BY <1>3 DEF WriteRow, TypeOK, tables
<1>4. CASE LockRow(p)
  BY <1>4 DEF LockRow, TypeOK, tables
<1>5. CASE LockLicense(p)
  BY <1>5 DEF LockLicense, TypeOK, tables
<1>6. CASE Abort(p)
  BY <1>1, <1>6 DEF Abort, tables
<1>7. CASE CommitCheckout(p) \/ CommitChange(p) \/ CommitInvoice(p)
  BY <1>1, <1>7 DEF CommitCheckout, CommitChange, CommitInvoice, TypeOK
<1>8. CASE CommitResync(p)
  BY <1>1, <1>8 DEF CommitResync
<1>9. QED
  BY <1>2, <1>3, <1>4, <1>5, <1>6, <1>7, <1>8 DEF Statement, Refused

(* The count of an event follows its receipt. *)
LEMMA MarkOnce ==
    ASSUME TypeOK, AppliedOnce, NEW e \in Events, e \notin receipts, Mark(e)
    PROVE  AppliedOnce'
<1>1. applied[e] = 0
  BY DEF AppliedOnce
<1>2. applied' = [applied EXCEPT ![e] = 1] /\ receipts' = receipts \cup {e}
  BY <1>1 DEF Mark
<1>3. QED
  BY <1>2 DEF AppliedOnce, TypeOK

LEMMA ReceiptStep == TypeOK /\ Receipt /\ [Next]_vars => Receipt'
<1> SUFFICES ASSUME TypeOK, Receipt, [Next]_vars PROVE Receipt'
  OBVIOUS
<1>1. \A e \in Events : event[e].kind # "unsent" => event'[e].kind # "unsent"
  BY EventKept DEF Sent
<1>2. \A p \in Procs : job[p].event \in Events \cup {None}
  BY DEF TypeOK
<1>3. ASSUME UNCHANGED <<job, pc, receipts, applied>> PROVE Receipt'
  <2>1. AppliedOnce'
    BY <1>3 DEF Receipt, AppliedOnce
  <2>2. \A p \in Procs : job[p].event # None => event'[job[p].event].kind # "unsent"
    BY <1>1, <1>2 DEF Receipt, Sent
  <2>3. QED
    BY <1>3, <2>1, <2>2 DEF Receipt, Sent
<1>4. ASSUME NEW e \in Events, Skip(e) PROVE Receipt'
  <2>1. e \notin receipts /\ (\A p \in Procs : job[p].event # e) /\ receipts' = receipts \cup {e}
    BY <1>4 DEF Skip, Deliverable, Mark
  <2>2. AppliedOnce'
    BY <1>4, <2>1, MarkOnce DEF Skip, Receipt
  <2>3. UNCHANGED <<job, pc, event>>
    BY <1>4 DEF Skip, world
  <2>4. QED
    BY <2>1, <2>2, <2>3 DEF Receipt, Sent
<1>5. ASSUME NEW h \in Handlers, NEW e \in Events, Receive(h, e) PROVE Receipt'
  <2>1. h \in Procs /\ h \notin Operators /\ e # None
    BY SubscriptionAssumption DEF SubscriptionAssumption, Procs
  <2>2. /\ Sent(e) /\ e \notin receipts /\ \A p \in Procs : job[p].event # e
        /\ UNCHANGED <<receipts, applied, event>>
    BY <1>5 DEF Receive, Deliverable, tables, world
  <2>3. /\ job'[h].event = e
        /\ \A q \in Procs : q # h => job'[q] = job[q] /\ pc'[q] = pc[q]
    BY <1>5, <2>1 DEF Receive, GoTo, NoJob, TypeOK
  <2>4. \A o \in Operators : o \in Procs /\ o # h
    BY <2>1 DEF Procs
  <2>5. AppliedOnce'
    BY <2>2 DEF Receipt, AppliedOnce
  <2>6. \A p \in Procs : job'[p].event # None => event'[job'[p].event].kind # "unsent"
    BY <2>2, <2>3 DEF Receipt, Sent
  <2>7. \A p \in Procs : job'[p].event # None =>
          /\ job'[p].event \notin receipts'
          /\ \A q \in Procs : q # p => job'[q].event # job'[p].event
    BY <1>2, <2>1, <2>2, <2>3 DEF Receipt
  <2>8. /\ \A o \in Operators : job'[o].event = None
        /\ \A g \in Handlers : pc'[g] # "idle" => job'[g].event # None
    BY <2>1, <2>3, <2>4 DEF Receipt, Procs
  <2>9. QED
    BY <2>5, <2>6, <2>7, <2>8 DEF Receipt, Sent
<1>6. ASSUME NEW o \in Operators, Fetch(o) PROVE Receipt'
  <2>1. o \in Procs /\ o \notin Handlers
    BY SubscriptionAssumption DEF SubscriptionAssumption, Procs
  <2>2. UNCHANGED <<receipts, applied, event>>
    BY <1>6 DEF Fetch, tables, world
  <2>3. /\ job'[o].event = None
        /\ \A q \in Procs : q # o => job'[q] = job[q] /\ pc'[q] = pc[q]
    BY <1>6, <2>1 DEF Fetch, GoTo, NoJob, TypeOK
  <2>4. AppliedOnce'
    BY <2>2 DEF Receipt, AppliedOnce
  <2>5. QED
    BY <2>1, <2>2, <2>3, <2>4 DEF Receipt, Sent, Procs
<1>7. ASSUME NEW p \in Procs, Statement(p) \/ Abort(p) PROVE Receipt'
  <2>1. \A q \in Procs : q # p => job'[q] = job[q] /\ pc'[q] = pc[q]
    BY <1>7, OthersKept
  <2>2. /\ job'[p].event \in {job[p].event, None}
        /\ pc'[p] # "idle" => job'[p].event = job[p].event /\ pc[p] # "idle"
        /\ \/ UNCHANGED <<receipts, applied>>
           \/ job[p].event \in Events /\ Mark(job[p].event) /\ job'[p].event = None
    BY <1>7, OwnEvent
  <2>3. AppliedOnce'
    <3>1. CASE UNCHANGED <<receipts, applied>>
      BY <3>1 DEF Receipt, AppliedOnce
    <3>2. CASE job[p].event \in Events /\ Mark(job[p].event)
      <4>1. job[p].event # None
        BY <3>2, SubscriptionAssumption DEF SubscriptionAssumption
      <4>2. QED
        BY <3>2, <4>1, MarkOnce DEF Receipt
    <3>3. QED
      BY <2>2, <3>1, <3>2
  <2>4. \A q \in Procs : job'[q].event # None =>
           job'[q].event = job[q].event /\ job[q].event \notin receipts'
    <3> SUFFICES ASSUME NEW q \in Procs, job'[q].event # None
                 PROVE  job'[q].event = job[q].event /\ job[q].event \notin receipts'
      OBVIOUS
    <3>1. job'[q].event = job[q].event
      BY <2>1, <2>2
    <3>2. receipts' = receipts \/ (receipts' = receipts \cup {job[p].event} /\ q # p)
      BY <2>2 DEF Mark
    <3>3. QED
      BY <3>1, <3>2 DEF Receipt
  <2>5. \A q \in Procs : job'[q].event # None => event'[job[q].event].kind # "unsent"
    BY <1>1, <1>2, <2>4 DEF Receipt, Sent
  <2>6. \A q \in Procs : job'[q].event # None =>
           \A s \in Procs : s # q => job'[s].event # job'[q].event
    BY <2>1, <2>2, <2>4 DEF Receipt
  <2>7. \A o \in Operators : job'[o].event = None
    BY <2>4 DEF Receipt, Procs
  <2>8. \A h \in Handlers : pc'[h] # "idle" => job'[h].event # None
    BY <2>1, <2>2 DEF Receipt, Procs
  <2>9. QED
    BY <2>3, <2>4, <2>5, <2>6, <2>7, <2>8 DEF Receipt, Sent
<1>8. CASE StripeStep \/ Tick \/ Revoke \/ UNCHANGED vars
  BY <1>3, <1>8 DEF StripeStep, StripeCheckout, StripeChange, StripeInvoice, Tick, Revoke, vars,
     tables
<1>9. QED
  BY <1>4, <1>5, <1>6, <1>7, <1>8 DEF Next

(* The event a handler works on carries what it carried. *)
LEMMA OwnEventKept ==
    ASSUME TypeOK, Receipt, [Next]_vars, NEW h \in Handlers, pc[h] # "idle"
    PROVE  job[h].event \in Events /\ event'[job[h].event] = event[job[h].event]
<1>1. job[h].event \in Events /\ Sent(job[h].event)
  BY DEF Receipt, TypeOK, Procs
<1>2. QED
  BY <1>1, EventKept

(* What RowHeld says of one process. *)
Held(p) ==
    /\ pc[p] = "license" => rowLock = p
    /\ pc[p] = "commit" /\ ~Checkout(p) => rowLock = p
    /\ pc[p] = "billing" /\ p \in Operators => rowLock = p

LEMMA HeldKept ==
    ASSUME TypeOK, Receipt, RowHeld, [Next]_vars, NEW q \in Procs,
           job'[q] = job[q], pc'[q] = pc[q], rowLock = q => rowLock' = q
    PROVE  Held(q)'
<1>1. Held(q)
  BY DEF RowHeld, Held
<1>2. CASE q \in Operators
  <2>1. q \notin Handlers
    BY <1>2, SubscriptionAssumption DEF SubscriptionAssumption
  <2>2. QED
    BY <1>1, <1>2, <2>1 DEF Held, Checkout
<1>3. CASE q \in Handlers
  BY <1>1, <1>3, OwnEventKept DEF Held, Checkout
<1>4. QED
  BY <1>2, <1>3 DEF Procs

LEMMA RowStep == TypeOK /\ Receipt /\ RowHeld /\ [Next]_vars => RowHeld'
<1> SUFFICES ASSUME TypeOK, Receipt, RowHeld, [Next]_vars PROVE \A q \in Procs : Held(q)'
  BY DEF RowHeld, Held
<1>1. CASE UNCHANGED <<job, pc, rowLock>>
  BY <1>1, HeldKept
<1>2. ASSUME NEW h \in Procs, pc'[h] \in {"row", "billing"}, h \in Operators => pc'[h] = "row",
             \A q \in Procs : q # h => job'[q] = job[q] /\ pc'[q] = pc[q], rowLock' = rowLock
      PROVE  \A q \in Procs : Held(q)'
  <2>1. Held(h)'
    BY <1>2 DEF Held
  <2>2. QED
    BY <1>2, <2>1, HeldKept
<1>3. ASSUME NEW h \in Handlers, NEW e \in Events, Receive(h, e)
      PROVE  \A q \in Procs : Held(q)'
  <2>1. h \in Procs /\ h \notin Operators
    BY SubscriptionAssumption DEF SubscriptionAssumption, Procs
  <2>2. pc'[h] \in {"row", "billing"}
    BY <1>3, <2>1 DEF Receive, GoTo, TypeOK
  <2>3. \A q \in Procs : q # h => job'[q] = job[q] /\ pc'[q] = pc[q]
    BY <1>3 DEF Receive, GoTo, TypeOK
  <2>4. QED
    BY <1>2, <1>3, <2>1, <2>2, <2>3 DEF Receive, locks
<1>4. ASSUME NEW o \in Operators, Fetch(o) PROVE \A q \in Procs : Held(q)'
  <2>1. o \in Procs
    BY DEF Procs
  <2>2. pc'[o] = "row"
    BY <1>4, <2>1 DEF Fetch, GoTo, TypeOK
  <2>3. \A q \in Procs : q # o => job'[q] = job[q] /\ pc'[q] = pc[q]
    BY <1>4 DEF Fetch, GoTo, TypeOK
  <2>4. QED
    BY <1>2, <1>4, <2>1, <2>2, <2>3 DEF Fetch, locks
<1>5. ASSUME NEW p \in Procs, Statement(p) \/ Abort(p) PROVE \A q \in Procs : Held(q)'
  <2>1. \A q \in Procs : q # p => Held(q)'
    BY <1>5, OthersKept, HeldKept
  <2>2. Held(p)'
    <3>1. CASE Finish(p)
      BY <3>1 DEF Finish, GoTo, Held, TypeOK
    <3>2. CASE LockBilling(p)
      <4>1. CASE p \in Operators
        BY <3>2, <4>1 DEF LockBilling, GoTo, Held, RowHeld, TypeOK
      <4>2. CASE p \notin Operators /\ event[job[p].event].kind = "checkout"
        BY <3>2, <4>2 DEF LockBilling, GoTo, Held, Checkout, Procs, TypeOK, world
      <4>3. CASE p \notin Operators /\ event[job[p].event].kind # "checkout"
        BY <3>2, <4>3 DEF LockBilling, GoTo, Held, TypeOK
      <4>4. QED
        BY <4>1, <4>2, <4>3
    <3>3. CASE WriteRow(p)
      BY <3>3 DEF WriteRow, GoTo, Held, TypeOK
    <3>4. CASE LockRow(p)
      BY <3>4 DEF LockRow, GoTo, Held, TypeOK
    <3>5. CASE LockLicense(p)
      BY <3>5 DEF LockLicense, GoTo, Held, RowHeld, TypeOK
    <3>6. QED
      BY <1>5, <3>1, <3>2, <3>3, <3>4, <3>5 DEF Statement, Refused, Abort, CommitCheckout,
         CommitChange, CommitInvoice, CommitResync
  <2>3. QED
    BY <2>1, <2>2
<1>6. ASSUME NEW e \in Events, Skip(e) PROVE \A q \in Procs : Held(q)'
  BY <1>1, <1>6 DEF Skip, locks
<1>7. CASE StripeStep \/ Tick \/ Revoke \/ UNCHANGED vars
  BY <1>1, <1>7 DEF StripeStep, StripeCheckout, StripeChange, StripeInvoice, Tick, Revoke, vars,
     locks
<1>8. QED
  BY <1>3, <1>4, <1>5, <1>6, <1>7 DEF Next

(* What LicenseRead says of one process. *)
Read(p) ==
    /\ pc[p] = "commit" /\ Syncs(p) /\ job[p].found.status = "absent" =>
          license.status = "absent"
    /\ job[p].found.status # "absent" => license.status # "absent"

LEMMA ReadKept ==
    ASSUME TypeOK, Receipt, LicenseRead, [Next]_vars, NEW q \in Procs,
           job'[q] = job[q], pc'[q] = pc[q], sub' = sub,
           license'.status = "absent" <=> license.status = "absent"
    PROVE  Read(q)'
<1>1. Read(q)
  BY DEF LicenseRead, Read
<1>2. CASE q \in Operators
  BY <1>1, <1>2 DEF Read, Syncs
<1>3. CASE q \in Handlers
  <2>1. pc[q] = "commit" => event'[job[q].event] = event[job[q].event]
    BY <1>3, OwnEventKept
  <2>2. pc[q] = "commit" => (Syncs(q)' <=> Syncs(q))
    BY <2>1 DEF Syncs, InvoiceChanges
  <2>3. QED
    BY <1>1, <2>2 DEF Read
<1>4. QED
  BY <1>2, <1>3 DEF Procs

(* Who writes the license has the row, so nobody else is about to. *)
LEMMA OnlyWriter ==
    ASSUME RowHeld, NEW p \in Procs, NEW q \in Procs, q # p,
           pc[p] = "commit", pc[q] = "commit", ~Checkout(p)
    PROVE  q \in Handlers /\ event[job[q].event].kind = "checkout"
BY DEF RowHeld, Checkout

(* A license is issued when there is none. *)
LEMMA IssuedOnce ==
    ASSUME TypeOK, LicenseRead, Issued, NEW p \in Procs, pc[p] = "commit", Syncs(p),
           NEW status, NEW plan \in Plans \cup {None}, SyncLicense(p, status, plan)
    PROVE  Issued' /\ (license.status # "absent" => license'.status # "absent")
<1> DEFINE found == job[p].found
<1>1. found \in License
  BY DEF TypeOK
<1>2. /\ license' = Synced(found, status, plan)
      /\ issued' = IF found.status = "absent" /\ status \in Granting /\ issued < 2
                   THEN issued + 1 ELSE issued
  BY DEF SyncLicense
<1>3. found.status = "absent" <=> license.status = "absent"
  BY DEF LicenseRead
<1>4. issued = IF license.status = "absent" THEN 0 ELSE 1
  BY DEF Issued
<1> HIDE DEF found
<1>5. CASE found.status # "absent"
  <2>1. license'.status # "absent" /\ issued' = issued
    BY <1>1, <1>2, <1>5, SyncedType
  <2>2. QED
    BY <1>3, <1>4, <1>5, <2>1 DEF Issued
<1>6. CASE found.status = "absent" /\ status \in Granting
  <2>1. license'.status # "absent"
    BY <1>1, <1>2, <1>6, SyncedType
  <2>2. issued = 0 /\ issued' = 1
    BY <1>2, <1>3, <1>4, <1>6
  <2>3. QED
    BY <2>1, <2>2 DEF Issued
<1>7. CASE found.status = "absent" /\ status \notin Granting
  <2>1. license'.status = "absent" /\ issued' = issued
    BY <1>1, <1>2, <1>7, SyncedType
  <2>2. QED
    BY <1>3, <1>4, <1>7, <2>1 DEF Issued
<1>8. QED
  BY <1>5, <1>6, <1>7

(* The commits that may write the license. *)
LEMMA WriterStep ==
    ASSUME TypeOK, Receipt, RowHeld, LicenseRead, Issued, NEW p \in Procs, Finish(p),
           pc[p] = "commit", ~Checkout(p), Issued',
           license.status # "absent" => license'.status # "absent"
    PROVE  \A q \in Procs : Read(q)'
<1> SUFFICES ASSUME NEW q \in Procs PROVE Read(q)'
  OBVIOUS
<1>1. CASE q = p
  BY <1>1 DEF Finish, GoTo, NoJob, NoLicense, Read, TypeOK
<1>2. CASE q # p
  <2>1. job'[q] = job[q] /\ pc'[q] = pc[q] /\ event' = event
    BY <1>2 DEF Finish, GoTo, TypeOK, world
  <2>2. job'[q].found.status # "absent" => license'.status # "absent"
    BY <2>1 DEF LicenseRead
  <2>3. pc'[q] = "commit" => ~Syncs(q)'
    BY <1>2, <2>1, OnlyWriter, SubscriptionAssumption DEF SubscriptionAssumption, Syncs
  <2>4. QED
    BY <2>2, <2>3 DEF Read
<1>3. QED
  BY <1>1, <1>2

LEMMA LicenseStep ==
    TypeOK /\ Receipt /\ RowHeld /\ LicenseRead /\ Issued /\ [Next]_vars => LicenseRead' /\ Issued'
<1> SUFFICES ASSUME TypeOK, Receipt, RowHeld, LicenseRead, Issued, [Next]_vars
             PROVE  (\A q \in Procs : Read(q)') /\ Issued'
  BY DEF LicenseRead, Read
<1>1. ASSUME UNCHANGED <<job, pc, sub, license, issued>>
      PROVE  (\A q \in Procs : Read(q)') /\ Issued'
  BY <1>1, ReadKept DEF Issued
<1>2. ASSUME NEW p \in Procs, \A q \in Procs : q # p => job'[q] = job[q] /\ pc'[q] = pc[q],
             Read(p)', UNCHANGED <<sub, license, issued>>
      PROVE  (\A q \in Procs : Read(q)') /\ Issued'
  BY <1>2, ReadKept DEF Issued
<1>3. ASSUME NEW h \in Handlers, NEW e \in Events, Receive(h, e)
      PROVE  (\A q \in Procs : Read(q)') /\ Issued'
  <2>1. h \in Procs
    BY DEF Procs
  <2>2. Read(h)'
    BY <1>3, <2>1 DEF Receive, GoTo, NoJob, NoLicense, Read, TypeOK
  <2>3. \A q \in Procs : q # h => job'[q] = job[q] /\ pc'[q] = pc[q]
    BY <1>3 DEF Receive, GoTo, TypeOK
  <2>4. QED
    BY <1>2, <1>3, <2>1, <2>2, <2>3 DEF Receive, tables
<1>4. ASSUME NEW o \in Operators, Fetch(o) PROVE (\A q \in Procs : Read(q)') /\ Issued'
  <2>1. o \in Procs
    BY DEF Procs
  <2>2. Read(o)'
    BY <1>4, <2>1 DEF Fetch, GoTo, NoJob, NoLicense, Read, TypeOK
  <2>3. \A q \in Procs : q # o => job'[q] = job[q] /\ pc'[q] = pc[q]
    BY <1>4 DEF Fetch, GoTo, TypeOK
  <2>4. QED
    BY <1>2, <1>4, <2>1, <2>2, <2>3 DEF Fetch, tables
<1>5. ASSUME NEW p \in Procs, Statement(p) \/ Abort(p)
      PROVE  (\A q \in Procs : Read(q)') /\ Issued'
  <2>1. \A q \in Procs : q # p => job'[q] = job[q] /\ pc'[q] = pc[q]
    BY <1>5, OthersKept
  <2>2. Finish(p) => Read(p)'
    BY DEF Finish, GoTo, NoJob, NoLicense, Read, TypeOK
  <2>3. CASE Abort(p) \/ CommitCheckout(p)
    BY <1>2, <2>1, <2>2, <2>3 DEF Abort, CommitCheckout, tables
  <2>4. CASE LockBilling(p)
    <3>1. job'[p].found = job[p].found /\ UNCHANGED <<sub, license, issued, event>>
      BY <2>4 DEF LockBilling, TypeOK, tables, world
    <3>2. pc'[p] = "commit" =>
             /\ p \notin Operators /\ event'[job'[p].event].kind = "checkout"
      BY <2>4, <3>1 DEF LockBilling, GoTo, TypeOK
    <3>3. Read(p)'
      BY <3>1, <3>2 DEF Read, Syncs, LicenseRead
    <3>4. QED
      BY <1>2, <2>1, <3>1, <3>3
  <2>5. CASE WriteRow(p)
    <3>1. UNCHANGED <<job, sub, license, issued, event>>
      BY <2>5 DEF WriteRow, tables, world
    <3>2. pc'[p] = "commit" => ~Syncs(p)
      BY <2>5, SubscriptionAssumption DEF SubscriptionAssumption, WriteRow, GoTo, Syncs, TypeOK
    <3>3. Read(p)'
      BY <3>1, <3>2 DEF Read, Syncs, InvoiceChanges, LicenseRead
    <3>4. QED
      BY <1>2, <2>1, <3>1, <3>3
  <2>6. CASE LockRow(p)
    <3>1. /\ job'[p].found = job[p].found /\ UNCHANGED <<sub, license, issued>>
          /\ pc'[p] = "billing"
      BY <2>6 DEF LockRow, GoTo, TypeOK, tables
    <3>2. Read(p)'
      BY <3>1 DEF Read, LicenseRead
    <3>3. QED
      BY <1>2, <2>1, <3>1, <3>2
  <2>7. CASE LockLicense(p)
    <3>1. job'[p].found = license /\ UNCHANGED <<sub, license, issued>>
      BY <2>7 DEF LockLicense, LinkedLicense, TypeOK, tables
    <3>2. Read(p)'
      BY <3>1 DEF Read
    <3>3. QED
      BY <1>2, <2>1, <3>1, <3>2
  <2>8. CASE CommitChange(p)
    <3>1. pc[p] = "commit" /\ Syncs(p) /\ ~Checkout(p) /\ Finish(p)
      BY <2>8 DEF CommitChange, Syncs, Checkout
    <3> DEFINE e == job[p].event
               plan == PlanOf(job[p].before, event[e].plan)
    <3>2. e \in Events /\ job[p].before \in Subscription
      BY <2>8 DEF CommitChange, TypeOK
    <3>3. plan \in Plans \cup {None}
      BY <3>2, PlanType DEF TypeOK
    <3>4. SyncLicense(p, event[e].status, plan)
      BY <2>8 DEF CommitChange
    <3> HIDE DEF e, plan
    <3>5. QED
      BY <3>1, <3>3, <3>4, IssuedOnce, WriterStep
  <2>9. CASE CommitInvoice(p)
    <3>1. pc[p] = "commit" /\ ~Checkout(p) /\ Finish(p)
      BY <2>9 DEF CommitInvoice, Checkout
    <3>2. CASE InvoiceChanges(p)
      <4>1. Syncs(p)
        BY <2>9, <3>2 DEF CommitInvoice, Syncs
      <4>2. SyncLicense(p, event[job[p].event].status, sub.plan) /\ sub.plan \in Plans \cup {None}
        BY <2>9, <3>2 DEF CommitInvoice, TypeOK, Subscription
      <4>3. QED
        BY <3>1, <4>1, <4>2, IssuedOnce, WriterStep
    <3>3. CASE ~InvoiceChanges(p)
      <4>1. UNCHANGED <<license, issued>>
        BY <2>9, <3>3 DEF CommitInvoice
      <4>2. Issued'
        BY <4>1 DEF Issued
      <4>3. QED
        BY <3>1, <4>1, <4>2, WriterStep
    <3>4. QED
      BY <3>2, <3>3
  <2>10. CASE CommitResync(p)
    <3>1. pc[p] = "commit" /\ Syncs(p) /\ ~Checkout(p) /\ Finish(p)
      BY <2>10, SubscriptionAssumption
         DEF SubscriptionAssumption, CommitResync, Syncs, Checkout
    <3> DEFINE plan == PlanOf(job[p].before, job[p].plan)
    <3>2. plan \in Plans \cup {None}
      BY PlanType DEF TypeOK
    <3>3. SyncLicense(p, job[p].status, plan)
      BY <2>10 DEF CommitResync
    <3> HIDE DEF plan
    <3>4. QED
      BY <3>1, <3>2, <3>3, IssuedOnce, WriterStep
  <2>11. QED
    BY <1>5, <2>3, <2>4, <2>5, <2>6, <2>7, <2>8, <2>9, <2>10 DEF Statement, Refused
<1>6. ASSUME NEW e \in Events, Skip(e) PROVE (\A q \in Procs : Read(q)') /\ Issued'
  BY <1>1, <1>6 DEF Skip
<1>7. CASE Revoke
  <2>1. license.status # "absent" /\ license'.status # "absent"
    BY <1>7 DEF Revoke, TypeOK, License
  <2>2. UNCHANGED <<job, pc, sub, issued>>
    BY <1>7 DEF Revoke
  <2>3. QED
    BY <2>1, <2>2, ReadKept DEF Issued
<1>8. CASE StripeStep \/ Tick \/ UNCHANGED vars
  BY <1>1, <1>8 DEF StripeStep, StripeCheckout, StripeChange, StripeInvoice, Tick, vars, tables
<1>9. QED
  BY <1>3, <1>4, <1>5, <1>6, <1>7, <1>8 DEF Next

(* What LicenseHeld says of one process. *)
Holds(p) ==
    job[p].found.status # "absent" => pc[p] = "commit" /\ licLock = p /\ job[p].found = license

LEMMA FinishHolds ==
    ASSUME TypeOK, LicenseHeld, NEW p \in Procs, Finish(p),
           license' = license \/ licLock = p \/ license.status = "absent"
    PROVE  \A q \in Procs : Holds(q)'
<1> SUFFICES ASSUME NEW q \in Procs PROVE Holds(q)'
  OBVIOUS
<1>1. CASE q = p
  BY <1>1 DEF Finish, NoJob, NoLicense, Holds, TypeOK
<1>2. CASE q # p
  <2>1. job'[q] = job[q] /\ pc'[q] = pc[q] /\ (licLock = q => licLock' = q)
    BY <1>2 DEF Finish, GoTo, Freed, TypeOK
  <2>2. Holds(q)
    BY DEF LicenseHeld, Holds
  <2>3. job[q].found.status # "absent" => license' = license
    BY <1>2, <2>2 DEF Holds
  <2>4. QED
    BY <2>1, <2>2, <2>3 DEF Holds
<1>3. QED
  BY <1>1, <1>2

(* Who writes the license has it locked, or found that there is none. *)
LEMMA WriterHolds ==
    ASSUME TypeOK, LicenseRead, LicenseHeld, NEW p \in Procs, pc[p] = "commit", Syncs(p)
    PROVE  (licLock = p /\ job[p].found = license) \/ license.status = "absent"
BY DEF LicenseRead, LicenseHeld

LEMMA CommitSyncs ==
    ASSUME NEW p \in Procs, CommitChange(p) \/ CommitInvoice(p) \/ CommitResync(p)
    PROVE  pc[p] = "commit" /\ Finish(p) /\ (Syncs(p) \/ license' = license)
BY DEF CommitChange, CommitInvoice, CommitResync, Syncs

LEMMA HoldsStep ==
    TypeOK /\ LicenseRead /\ LicenseHeld /\ [Next]_vars => LicenseHeld'
<1> SUFFICES ASSUME TypeOK, LicenseRead, LicenseHeld, [Next]_vars
             PROVE  \A q \in Procs : Holds(q)'
  BY DEF LicenseHeld, Holds
<1>1. ASSUME UNCHANGED <<job, pc, licLock, license>> PROVE \A q \in Procs : Holds(q)'
  BY <1>1 DEF LicenseHeld, Holds
<1>2. ASSUME NEW p \in Procs, pc[p] # "commit", UNCHANGED <<licLock, license>>,
             \A q \in Procs : q # p => job'[q] = job[q] /\ pc'[q] = pc[q],
             job'[p].found \in {job[p].found, NoLicense}
      PROVE  \A q \in Procs : Holds(q)'
  BY <1>2 DEF LicenseHeld, Holds, NoLicense
<1>3. ASSUME NEW h \in Handlers, NEW e \in Events, Receive(h, e)
      PROVE  \A q \in Procs : Holds(q)'
  <2>1. h \in Procs /\ pc[h] # "commit" /\ UNCHANGED <<licLock, license>>
    BY <1>3 DEF Procs, Receive, tables, locks
  <2>2. /\ \A q \in Procs : q # h => job'[q] = job[q] /\ pc'[q] = pc[q]
        /\ job'[h].found = NoLicense
    BY <1>3, <2>1 DEF Receive, GoTo, NoJob, TypeOK
  <2>3. QED
    BY <1>2, <2>1, <2>2
<1>4. ASSUME NEW o \in Operators, Fetch(o) PROVE \A q \in Procs : Holds(q)'
  <2>1. o \in Procs /\ pc[o] # "commit" /\ UNCHANGED <<licLock, license>>
    BY <1>4 DEF Procs, Fetch, tables, locks
  <2>2. /\ \A q \in Procs : q # o => job'[q] = job[q] /\ pc'[q] = pc[q]
        /\ job'[o].found = NoLicense
    BY <1>4, <2>1 DEF Fetch, GoTo, NoJob, TypeOK
  <2>3. QED
    BY <1>2, <2>1, <2>2
<1>5. ASSUME NEW p \in Procs, Statement(p) \/ Abort(p) PROVE \A q \in Procs : Holds(q)'
  <2>1. \A q \in Procs : q # p => job'[q] = job[q] /\ pc'[q] = pc[q]
    BY <1>5, OthersKept
  <2>2. CASE Abort(p) \/ CommitCheckout(p)
    BY <2>2, FinishHolds DEF Abort, CommitCheckout, tables
  <2>3. CASE LockBilling(p) \/ WriteRow(p) \/ LockRow(p)
    <3>1. /\ pc[p] # "commit" /\ UNCHANGED <<licLock, license>>
          /\ job'[p].found = job[p].found
      BY <2>3 DEF LockBilling, WriteRow, LockRow, TypeOK, tables
    <3>2. QED
      BY <1>2, <2>1, <3>1
  <2>4. CASE LockLicense(p)
    <3>1. /\ licLock = None /\ pc'[p] = "commit" /\ job'[p].found = license
          /\ license' = license /\ licLock' = ForUpdate(p)
      BY <2>4 DEF LockLicense, LinkedLicense, GoTo, TypeOK, tables
    <3>2. \A q \in Procs : job[q].found.status = "absent"
      BY <3>1, SubscriptionAssumption DEF SubscriptionAssumption, LicenseHeld
    <3>3. QED
      BY <2>1, <3>1, <3>2 DEF Holds, ForUpdate
  <2>5. CASE CommitChange(p) \/ CommitInvoice(p) \/ CommitResync(p)
    BY <2>5, CommitSyncs, WriterHolds, FinishHolds
  <2>6. QED
    BY <1>5, <2>2, <2>3, <2>4, <2>5 DEF Statement, Refused
<1>6. CASE Revoke
  <2>1. licLock = None /\ UNCHANGED <<job, pc>>
    BY <1>6 DEF Revoke
  <2>2. \A q \in Procs : job[q].found.status = "absent"
    BY <2>1, SubscriptionAssumption DEF SubscriptionAssumption, LicenseHeld
  <2>3. QED
    BY <2>1, <2>2 DEF Holds
<1>7. ASSUME NEW e \in Events, Skip(e) PROVE \A q \in Procs : Holds(q)'
  BY <1>1, <1>7 DEF Skip, locks
<1>8. CASE StripeStep \/ Tick \/ UNCHANGED vars
  BY <1>1, <1>8 DEF StripeStep, StripeCheckout, StripeChange, StripeInvoice, Tick, vars, tables,
     locks
<1>9. QED
  BY <1>3, <1>4, <1>5, <1>6, <1>7, <1>8 DEF Next

LEMMA RevokedStep ==
    ASSUME TypeOK, LicenseRead, LicenseHeld, [Next]_vars, license.status = "revoked"
    PROVE  license' = license
<1>1. ASSUME NEW p \in Procs, NEW status, NEW plan, SyncLicense(p, status, plan),
             pc[p] = "commit", Syncs(p)
      PROVE  license' = license
  <2>1. job[p].found = license
    BY <1>1, WriterHolds
  <2>2. QED
    BY <1>1, <2>1 DEF SyncLicense, Synced
<1>2. ASSUME NEW p \in Procs, CommitChange(p) \/ CommitInvoice(p) \/ CommitResync(p)
      PROVE  license' = license
  <2>1. \/ license' = license
        \/ \E status, plan : SyncLicense(p, status, plan)
    BY <1>2 DEF CommitChange, CommitInvoice, CommitResync
  <2>2. QED
    BY <1>1, <1>2, <2>1, CommitSyncs
<1>3. CASE Revoke
  BY <1>3 DEF Revoke
<1>4. QED
  BY <1>2, <1>3 DEF Next, StripeStep, StripeCheckout, StripeChange, StripeInvoice, Tick, Skip,
     Receive, Fetch, Statement, LockBilling, WriteRow, Refused, LockRow, LockLicense,
     CommitCheckout, Abort, vars, tables

LEMMA Inductive == Spec => []IInv
<1>1. IInv /\ [Next]_vars => IInv'
  BY TypeStep, ReceiptStep, RowStep, LicenseStep, HoldsStep DEF IInv
<1>2. QED
  BY InitInv, <1>1, PTL DEF Spec

(* However deliveries and operators interleave, an event is applied exactly *)
(* when its receipt is committed.                                           *)
THEOREM EventsAppliedOnce == Spec => []AppliedOnce
<1>1. IInv => AppliedOnce
  BY DEF IInv, Receipt
<1>2. QED
  BY Inductive, <1>1, PTL

(* Any number of handlers and operators issue a subscription one license at *)
(* most, although no constraint of the licenses table says so.              *)
THEOREM SingleLicense == Spec => []OneLicense
<1>1. IInv => OneLicense
  BY DEF IInv, Issued, OneLicense
<1>2. QED
  BY Inductive, <1>1, PTL

(* No transaction, however early it read the license, changes a license     *)
(* that has been revoked.                                                   *)
THEOREM RevocationStands == Spec => RevokedStays
<1>1. IInv /\ [Next]_vars => [license.status = "revoked" => license' = license]_vars
  BY RevokedStep DEF IInv
<1>2. QED
  BY Inductive, <1>1, PTL DEF Spec, RevokedStays
------------------------------------------------------------------------------
(* One handler at a time.  What the row says of Stripe, of the license and  *)
(* of what was queued holds when deliveries do not overlap; when they do, a *)
(* handler goes on with a row it read before another one wrote it.          *)

Serial == Operators = {} /\ \A g, h \in Handlers : g = h

(* What is announced, written into the license and compared with the event  *)
(* was read from the row as it still is.                                    *)
RowRead ==
    \A p \in Procs : job[p].event # None =>
       /\ job[p].before = sub
       /\ event[job[p].event].kind # "checkout" => sub.at <= event[job[p].event].created

ReceiptsSent == \A e \in receipts : Sent(e)

SInv == RowRead /\ ReceiptsSent /\ LicenseFollows /\ NewestWins /\ Reported

LEMMA InitSInv == Init => SInv
BY SubscriptionAssumption DEF SubscriptionAssumption, Init, SInv, RowRead, ReceiptsSent,
   LicenseFollows, NewestWins, Reported, NoJob, NoSub, NoLicense, Granting, Suspending

(* What has a receipt, or is being worked on, is what Stripe sent.          *)
LEMMA KnownKept ==
    ASSUME IInv, SInv, [Next]_vars
    PROVE  /\ \A e \in receipts : e \in Events /\ event'[e] = event[e] /\ Sent(e) /\ Sent(e)'
           /\ \A p \in Procs : job[p].event # None =>
                 /\ job[p].event \in Events /\ Sent(job[p].event)
                 /\ event'[job[p].event] = event[job[p].event]
<1>1. TypeOK
  BY DEF IInv
<1>2. \A e \in receipts : e \in Events /\ Sent(e)
  BY <1>1 DEF SInv, ReceiptsSent, TypeOK
<1>3. \A p \in Procs : job[p].event # None => job[p].event \in Events /\ Sent(job[p].event)
  BY <1>1 DEF IInv, Receipt, TypeOK
<1>4. \A e \in Events : Sent(e) => event'[e] = event[e]
  BY <1>1, EventKept
<1>5. QED
  BY <1>2, <1>3, <1>4 DEF Sent

(* The row does not move while it is not written.                           *)
LEMMA RowUnwritten ==
    ASSUME IInv, SInv, [Next]_vars, UNCHANGED <<sub, license, told>>,
           \A p \in Procs : \/ job'[p].event = job[p].event /\ job'[p].before = job[p].before
                            \/ job'[p].event = None,
           \A e \in receipts' \ receipts :
               /\ e \in Events /\ Sent(e)
               /\ event[e].kind = "checkout" \/ event[e].created <= sub.at \/ Pays(e),
           receipts \subseteq receipts'
    PROVE  SInv'
<1>1. TypeOK /\ \A e \in Events : Sent(e) => event'[e] = event[e]
  BY EventKept DEF IInv
<1>2. \A e \in receipts' : e \in Events /\ Sent(e) /\ event'[e] = event[e]
  BY <1>1, KnownKept
<1>3. RowRead'
  BY KnownKept DEF SInv, RowRead
<1>4. ReceiptsSent'
  BY <1>2 DEF ReceiptsSent, Sent
<1>5. LicenseFollows' /\ Reported'
  BY DEF SInv, LicenseFollows, Reported
<1>6. NewestWins'
  <2>1. ASSUME NEW e \in receipts'
        PROVE  event'[e].kind = "checkout" \/ event'[e].created <= sub'.at \/ Pays(e)'
    BY <1>2, <2>1 DEF SInv, NewestWins, Pays
  <2>2. sub'.status # "absent" =>
           \E e \in receipts' : event'[e].created = sub'.at /\ event'[e].status = sub'.status
    BY <1>2 DEF SInv, NewestWins
  <2>3. QED
    BY <2>1, <2>2 DEF NewestWins
<1>7. QED
  BY <1>3, <1>4, <1>5, <1>6 DEF SInv

(* What a license becomes follows the status it is synced to.               *)
LEMMA SyncedFollows ==
    ASSUME NEW found \in License, NEW status, NEW plan,
           license' = Synced(found, status, plan), sub'.status = status, sub'.plan = plan
    PROVE  LicenseFollows'
BY DEF License, Synced, LicenseFollows, Granting, Suspending

(* A commit that writes the row of the event e.                             *)
LEMMA RowWritten ==
    ASSUME Serial, IInv, SInv, [Next]_vars, NEW p \in Procs, Finish(p), NEW e, e = job[p].event,
           e # None, event[e].kind # "checkout", Mark(e),
           sub'.status = event[e].status, sub'.at = event[e].created,
           LicenseFollows', Reported'
    PROVE  SInv'
<1>1. /\ e \in Events /\ Sent(e) /\ event' = event /\ receipts' = receipts \cup {e}
      /\ sub.at <= event[e].created
  BY KnownKept DEF Finish, world, Mark, SInv, RowRead
<1>2. RowRead'
  <2>1. \A q \in Procs : q = p
    BY DEF Serial, Procs
  <2>2. job'[p].event = None
    BY DEF Finish, NoJob, IInv, TypeOK
  <2>3. QED
    BY <2>1, <2>2 DEF RowRead
<1>3. ReceiptsSent'
  BY <1>1, KnownKept DEF ReceiptsSent, Sent
<1>4. NewestWins'
  <2>1. \A f \in Events : event[f].created \in Nat /\ sub.at \in Nat
    BY SubscriptionAssumption DEF SubscriptionAssumption, IInv, TypeOK, Subscription
  <2>2. ASSUME NEW f \in receipts'
        PROVE  event'[f].kind = "checkout" \/ event'[f].created <= sub'.at \/ Pays(f)'
    <3>1. CASE f = e
      BY <1>1, <2>1, <3>1
    <3>2. CASE f \in receipts
      BY <1>1, <2>1, <3>2, KnownKept DEF SInv, NewestWins, Pays
    <3>3. QED
      BY <1>1, <2>2, <3>1, <3>2
  <2>3. QED
    BY <1>1, <2>2 DEF NewestWins
<1>5. QED
  BY <1>2, <1>3, <1>4 DEF SInv

LEMMA SerialStep == Serial /\ IInv /\ SInv /\ [Next]_vars => SInv'
<1> SUFFICES ASSUME Serial, IInv, SInv, [Next]_vars PROVE SInv'
  OBVIOUS
<1>1. TypeOK /\ Operators = {} /\ \A p, q \in Procs : p = q
  BY DEF IInv, Serial, Procs
<1>2. CASE UNCHANGED <<sub, license, told, receipts, job>>
  BY <1>2, RowUnwritten
<1>3. ASSUME NEW e \in Events, Skip(e) PROVE SInv'
  <2>1. /\ UNCHANGED <<sub, license, told, job>> /\ receipts' = receipts \cup {e} /\ Sent(e)
        /\ event[e].created < sub.at \/ Pays(e)
    BY <1>3 DEF Skip, Mark, Deliverable, Stale, Preserves, Pays
  <2>2. event[e].created \in Nat /\ sub.at \in Nat
    BY <1>1, SubscriptionAssumption DEF SubscriptionAssumption, TypeOK, Subscription
  <2>3. QED
    BY <2>1, <2>2, RowUnwritten
<1>4. ASSUME NEW h \in Handlers, NEW e \in Events, Receive(h, e) PROVE SInv'
  <2>1. /\ h \in Procs /\ UNCHANGED <<event, sub, license, told, receipts>>
        /\ job' = [job EXCEPT ![h] = [NoJob EXCEPT !.event = e, !.before = sub]]
        /\ event[e].kind = "checkout" \/ ~(event[e].created < sub.at)
    BY <1>4 DEF Receive, world, tables, Procs, Stale
  <2>2. job'[h].event = e /\ job'[h].before = sub
    BY <1>1, <2>1 DEF NoJob, TypeOK
  <2>3. event[e].created \in Nat /\ sub.at \in Nat
    BY <1>1, SubscriptionAssumption DEF SubscriptionAssumption, TypeOK, Subscription
  <2>4. RowRead'
    BY <1>1, <2>1, <2>2, <2>3 DEF RowRead
  <2>5. QED
    BY <2>1, <2>4 DEF SInv, ReceiptsSent, Sent, LicenseFollows, NewestWins, Pays, Reported
<1>5. ASSUME NEW p \in Procs, LockBilling(p) \/ WriteRow(p) PROVE SInv'
  <2>1. UNCHANGED <<sub, license, told, receipts, job>>
    BY <1>1, <1>5 DEF LockBilling, WriteRow, tables
  <2>2. QED
    BY <1>2, <2>1
<1>6. ASSUME NEW p \in Procs, LockLicense(p) PROVE SInv'
  <2>1. /\ UNCHANGED <<sub, license, told, receipts>>
        /\ \A q \in Procs : job'[q].event = job[q].event /\ job'[q].before = job[q].before
    BY <1>1, <1>6 DEF LockLicense, tables, TypeOK
  <2>2. QED
    BY <2>1, RowUnwritten
<1>7. ASSUME NEW p \in Procs, Abort(p) \/ CommitCheckout(p) PROVE SInv'
  <2>1. UNCHANGED <<sub, license, told>> /\ Finish(p)
    BY <1>7 DEF Abort, CommitCheckout, tables
  <2>2. job'[p].event = None
    BY <1>1, <2>1 DEF Finish, NoJob, TypeOK
  <2>3. \/ receipts' = receipts
        \/ /\ job[p].event # None /\ event[job[p].event].kind = "checkout"
           /\ receipts' = receipts \cup {job[p].event}
    BY <1>7 DEF Abort, CommitCheckout, tables, Mark
  <2>4. \A e \in receipts' \ receipts :
           e \in Events /\ Sent(e) /\ event[e].kind = "checkout"
    BY <2>3, KnownKept
  <2>5. QED
    BY <1>1, <2>1, <2>2, <2>3, <2>4, RowUnwritten
<1>8. ASSUME NEW p \in Procs, CommitChange(p) PROVE SInv'
  <2> DEFINE e == job[p].event
             plan == PlanOf(job[p].before, event[e].plan)
  <2>1. /\ Finish(p) /\ e # None /\ event[e].kind = "subscription" /\ Mark(e)
        /\ sub' = [status |-> event[e].status, plan |-> plan, at |-> event[e].created]
        /\ license' = Synced(job[p].found, event[e].status, plan)
        /\ told' = [status |-> event[e].status, plan |-> plan]
    BY <1>8 DEF CommitChange, WrittenAt, SyncLicense, Announce
  <2>2. job[p].found \in License
    BY <1>1 DEF TypeOK
  <2> HIDE DEF plan
  <2>3. LicenseFollows'
    BY <2>1, <2>2, SyncedFollows
  <2>4. Reported'
    BY <2>1 DEF Reported
  <2>5. QED
    BY <2>1, <2>3, <2>4, RowWritten
<1>9. ASSUME NEW p \in Procs, CommitInvoice(p) PROVE SInv'
  <2> DEFINE e == job[p].event
  <2>1. /\ Finish(p) /\ e # None /\ event[e].kind = "invoice" /\ Mark(e)
        /\ sub' = [sub EXCEPT !.status = event[e].status, !.at = event[e].created]
    BY <1>9 DEF CommitInvoice, WrittenAt
  <2>2. /\ sub'.status = event[e].status /\ sub'.plan = sub.plan
        /\ sub'.at = event[e].created /\ job[p].found \in License
    BY <1>1, <2>1 DEF TypeOK, Subscription
  <2>3. LicenseFollows' /\ Reported'
    <3>1. CASE InvoiceChanges(p)
      <4>1. /\ license' = Synced(job[p].found, event[e].status, sub.plan)
            /\ told' = [status |-> event[e].status, plan |-> sub.plan]
        BY <1>9, <3>1 DEF CommitInvoice, SyncLicense, Announce
      <4>2. QED
        BY <2>2, <4>1, SyncedFollows DEF Reported
    <3>2. CASE ~InvoiceChanges(p)
      <4>1. UNCHANGED <<license, told>>
        BY <1>9, <3>2 DEF CommitInvoice
      <4>2. job[p].before = sub
        BY <2>1 DEF SInv, RowRead
      <4>3. sub'.status = sub.status
        BY <2>2, <3>2, <4>2 DEF InvoiceChanges
      <4>4. QED
        BY <2>2, <4>1, <4>3 DEF SInv, LicenseFollows, Reported
    <3>3. QED
      BY <3>1, <3>2
  <2>4. QED
    BY <2>1, <2>2, <2>3, RowWritten
<1>10. CASE Revoke
  <2>1. /\ UNCHANGED <<event, sub, told, receipts, job>> /\ license' = [license EXCEPT !.status = "revoked"]
    BY <1>10 DEF Revoke, world
  <2>2. license'.status = "revoked"
    BY <1>1, <2>1 DEF TypeOK, License
  <2>3. LicenseFollows'
    BY <2>2 DEF LicenseFollows
  <2>4. QED
    BY <2>1, <2>3 DEF SInv, RowRead, ReceiptsSent, Sent, NewestWins, Pays, Reported
<1>11. CASE StripeStep \/ Tick \/ UNCHANGED vars
  <2>1. UNCHANGED <<sub, license, told, receipts, job>>
    BY <1>11 DEF StripeStep, StripeCheckout, StripeChange, StripeInvoice, Tick, vars, tables
  <2>2. QED
    BY <1>2, <2>1
<1>12. QED
  BY <1>1, <1>3, <1>4, <1>5, <1>6, <1>7, <1>8, <1>9, <1>10, <1>11
     DEF Next, Statement, Refused, LockRow, CommitResync

LEMMA SerialInvariant == ASSUME Serial PROVE Spec => []SInv
<1>1. IInv /\ SInv /\ [Next]_vars => SInv'
  BY SerialStep
<1>2. QED
  BY InitSInv, <1>1, Inductive, PTL DEF Spec

(* When deliveries do not overlap, the license is what the subscription's   *)
(* status and plan ask for, whatever order the events come in.              *)
THEOREM LicenseFollowsSerially == ASSUME Serial PROVE Spec => []LicenseFollows
<1>1. SInv => LicenseFollows
  BY DEF SInv
<1>2. QED
  BY SerialInvariant, <1>1, PTL

(* When deliveries do not overlap, the row is what the newest applied event *)
(* says.                                                                    *)
THEOREM NewestWinsSerially == ASSUME Serial PROVE Spec => []NewestWins
<1>1. SInv => NewestWins
  BY DEF SInv
<1>2. QED
  BY SerialInvariant, <1>1, PTL

(* When deliveries do not overlap, the last event queued describes the row. *)
THEOREM ReportedSerially == ASSUME Serial PROVE Spec => []Reported
<1>1. SInv => Reported
  BY DEF SInv
<1>2. QED
  BY SerialInvariant, <1>1, PTL

(* "never regress to a staler state" does hold when deliveries do not       *)
(* overlap: the row's time never goes back.                                 *)
THEOREM NeverStalerSerially == ASSUME Serial PROVE Spec => NeverStaler
<1>1. ASSUME IInv, SInv, [Next]_vars PROVE [sub.at <= sub'.at]_vars
  <2>1. TypeOK /\ Operators = {} /\ sub.at \in Nat
    BY <1>1, SubscriptionAssumption
       DEF SubscriptionAssumption, IInv, TypeOK, Subscription, Serial
  <2>2. ASSUME NEW p \in Procs, CommitChange(p) PROVE sub.at <= sub'.at
    BY <1>1, <2>2 DEF CommitChange, WrittenAt, SInv, RowRead
  <2>3. ASSUME NEW p \in Procs, CommitInvoice(p) PROVE sub.at <= sub'.at
    <3>1. sub'.at = event[job[p].event].created
      BY <2>1, <2>3 DEF CommitInvoice, WrittenAt, TypeOK, Subscription
    <3>2. QED
      BY <1>1, <2>3, <3>1 DEF CommitInvoice, SInv, RowRead
  <2>4. sub' = sub => sub.at <= sub'.at
    BY <2>1
  <2>5. QED
    BY <1>1, <2>1, <2>2, <2>3, <2>4
       DEF Next, StripeStep, StripeCheckout, StripeChange, StripeInvoice, Tick, Skip, Receive, Fetch,
           Statement, LockBilling, WriteRow, Refused, LockRow, LockLicense, CommitCheckout,
           CommitResync, Abort, Revoke, vars, tables
<1>2. QED
  BY Inductive, SerialInvariant, <1>1, PTL DEF Spec, NeverStaler
==============================================================================
