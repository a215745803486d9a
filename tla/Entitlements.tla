---------------------------- MODULE Entitlements ----------------------------
(***************************************************************************)
(* Entitlements of one customer to one product: what a signed snapshot or  *)
(* a check says, and the rows it is computed from.                         *)
(*                                                                         *)
(* A request is admitted while the customer is active and then reads, one  *)
(* statement after the other and outside a transaction, the commercial     *)
(* policy in force, the current subscription, the license grants, the      *)
(* effective license and the overrides.  In between webhooks change the    *)
(* subscription together with its license, and operators issue and revoke  *)
(* licenses, suspend the customer, set and clear overrides and publish new *)
(* versions of the policy.                                                 *)
(*                                                                         *)
(* Of the features one is gated (cloud), one is a number the policy sets   *)
(* (devices) and one only the catalog knows (support); one quota is        *)
(* metered.  Usage, periods, time stamps and signatures are left out.  The *)
(* one plan that is sold is pro.  No code writes license_grants and        *)
(* entitlement_grants; what they hold is a constant.                       *)
(***************************************************************************)
EXTENDS Integers, FiniteSets, Sequences, SequencesExt

CONSTANTS
    Requests,       \* requests for a snapshot or a check
    Operators,      \* operators with a transaction under way
    Subscriptions,  \* subscriptions, each with a license of its own
    Manual,         \* licenses issued by operators
    Documents,      \* policy documents: limits of the included and the pro plan
    Bootstrap,      \* the document of version 1
    PublishKeys,    \* idempotency keys of publications
    OverrideValues, \* for each key that is overridden, the values it may get
    LicenseGrants,  \* license_grants: a layer for each license
    Promotion,      \* entitlement_grants: a layer of features and one of quotas
    MaxOverrides,   \* bound on the overrides inserted
    MaxChanges,     \* bound on the changes made
    MaxClock,
    None

Licenses == Subscriptions \cup Manual
OverrideKeys == DOMAIN OverrideValues
Slots == 1 .. MaxOverrides
Times == 0 .. MaxClock + 1

ASSUME EntitlementsAssumption ==
    /\ Bootstrap \in Documents
    /\ MaxOverrides \in Nat /\ MaxChanges \in Nat /\ MaxClock \in Nat
    /\ Subscriptions \cap Manual = {} /\ Requests \cap Operators = {}
    /\ IsFiniteSet(Subscriptions \cup Manual) /\ IsFiniteSet(Operators)
    /\ None \notin Requests \cup Operators \cup Licenses \cup PublishKeys

VARIABLES
    customer,       \* customer_profiles.status
    subscription,   \* subscriptions.status
    license,        \* licenses: status and order of issue
    override,       \* entitlement_overrides, in the order of insertion
    policies,       \* commercial_policy_versions
    clock,
    changes,        \* how many changes have been begun
    pc, job,        \* of requests and of operators' transactions
    answer,         \* the answer just given, if one was
    seen, held      \* the facts that held at some moment, and at every moment, of a request

rows == <<customer, subscription, license, override, policies>>
vars == <<rows, clock, changes, pc, job, answer, seen, held>>

Procs == Requests \cup Operators
------------------------------------------------------------------------------
(* Values and layers.  A layer gives some keys a value. *)

Bool(b) == <<"bool", b>>
Number(n) == <<"number", n>>
Text(t) == <<"text", t>>

Over(below, layer) ==
    [k \in DOMAIN below \cup DOMAIN layer |->
        IF k \in DOMAIN layer THEN layer[k] ELSE below[k]]
Empty == <<>>

Gated == {"cloud"}                                      \* is_cloud_feature
Metered == {"tokens"}

(* plan_features and plan_quotas of the seeded plans, and the policy that   *)
(* is applied over them (apply_commercial_policy, limits_for_plan).         *)
Catalog(plan) ==
    [f \in {"support"} |-> Text(IF plan = "pro" THEN "priority" ELSE "community")]

PlanFeatures(policy, plan) ==
    Over(Catalog(plan), [f \in {"cloud", "devices"} |->
                            IF f = "cloud" THEN Bool(policy[plan].tokens > 0)
                            ELSE Number(policy[plan].devices)])

PlanQuotas(policy, plan) == [q \in Metered |-> policy[plan].tokens]

(* What load_entitlement_inputs hands to evaluate. *)
NoInputs == [policy |-> Bootstrap, plan |-> None, cloud |-> FALSE, license_grants |-> Empty,
             revoked |-> FALSE, overrides |-> Empty]

FeatureLayersSwapped(in) ==                                     \* mutant
    << PlanFeatures(in.policy, "included"),
       IF in.plan = None THEN Empty ELSE PlanFeatures(in.policy, in.plan),
       in.license_grants,
       [k \in DOMAIN in.overrides \ Metered |-> in.overrides[k]],
       Promotion.features >>
FeatureLayers(in) ==
    << PlanFeatures(in.policy, "included"),
       IF in.plan = None THEN Empty ELSE PlanFeatures(in.policy, in.plan),
       in.license_grants,
       Promotion.features,
       [k \in DOMAIN in.overrides \ Metered |-> in.overrides[k]] >>

(* A quota's override counts only if it is a number (merge_grants). *)
QuotaLayers(in) ==
    << PlanQuotas(in.policy, "included"),
       IF in.plan = None THEN Empty ELSE PlanQuotas(in.policy, in.plan),
       Promotion.quotas,
       [k \in {q \in DOMAIN in.overrides \cap Metered : in.overrides[q][1] = "number"} |->
            in.overrides[k][2]] >>

Merge(layers) == FoldLeft(Over, Empty, layers)
Upon(l) == Over(Over(Over(l[1], l[2]), l[3]), l[4])
Applied(l) == Over(Upon(l), l[5])

Denied(features) == [f \in DOMAIN features |-> IF f \in Gated THEN Bool(FALSE) ELSE features[f]]

(* Suspension is refused at admission, so inputs.suspended is false. *)
Evaluate(in) ==
    LET merged == Applied(FeatureLayers(in))
        gated == IF in.cloud THEN merged ELSE Denied(merged)
    IN  [features |-> IF in.revoked THEN Denied(gated) ELSE gated,
         quotas |-> Upon(QuotaLayers(in))]
------------------------------------------------------------------------------
(* Rows. *)

NoOverride == [key |-> None, value |-> None, active |-> FALSE, created_at |-> 0, expires_at |-> 0]
NoJob == [inputs |-> NoInputs, start |-> 0, key |-> None, value |-> None, rows |-> {},
          policy |-> Bootstrap, at |-> 0, base |-> 0]
NoAnswer == [kind |-> None]

Granting == {"active", "trialing"}                      \* grants_cloud

Issued == {l \in Licenses : license[l].status # "absent"}
Active == {l \in Licenses : license[l].status = "active"}
Newest(S) == {l \in S : \A m \in S : license[m].issued <= license[l].issued}

(* order by effective_at desc, version desc among those in effect at t. *)
InForce(t) ==
    CHOOSE p \in policies :
        /\ p.effective_at <= t
        /\ \A q \in policies : q.effective_at <= t =>
              \/ q.effective_at < p.effective_at
              \/ q.effective_at = p.effective_at /\ q.version <= p.version

NextVersionInForce == InForce(clock).version + 1                \* mutant
NextVersion == 1 + CHOOSE v \in {p.version : p \in policies} :
                       \A p \in policies : p.version <= v

TypeOK ==
    /\ customer \in {"active", "suspended"}
    /\ subscription \in [Subscriptions -> {"absent", "active", "past_due", "unpaid",
                                         "canceled"}]
    /\ license \in [Licenses -> [status : {"absent", "active", "suspended", "expired", "revoked"},
                                 issued : 0 .. Cardinality(Licenses)]]
    /\ \A s \in Slots : /\ override[s].key \in OverrideKeys \cup {None}
                        /\ override[s].active \in BOOLEAN
                        /\ override[s].created_at \in Times /\ override[s].expires_at \in Times
    /\ policies \subseteq [version : 1 .. MaxChanges + 1, effective_at : Times,
                           policy : Documents, key : PublishKeys \cup {None},
                           base : 0 .. MaxChanges + 1]
    /\ \A p, q \in policies : p.version = q.version \/ p.key = q.key => p = q    \* unique
    /\ clock \in 0 .. MaxClock /\ changes \in 0 .. MaxChanges
    /\ pc \in [Procs -> {"idle", "policy", "subscription", "grants", "license", "overrides",
                         "set", "clear", "insert", "publish"}]
------------------------------------------------------------------------------
(* Facts about the rows, stated without the queries of the code: somebody   *)
(* pays, and no revocation stands (the license issued last is not revoked,  *)
(* or another one is active).                                               *)
Facts ==
    {f \in {"paid", "unrevoked"} :
        CASE f = "paid" -> \E s \in Subscriptions : subscription[s] \in {"active", "trialing"}
          [] f = "unrevoked" ->
                \/ \E l \in Licenses : license[l].status = "active"
                \/ \A l \in Licenses : license[l].status = "revoked" =>
                       \E m \in Licenses : /\ license[m].issued > license[l].issued
                                          /\ license[m].status # "revoked"}

Observe ==
    LET during(r, now) ==
            CASE pc'[r] = "idle" -> {} [] pc[r] = "idle" -> Facts' [] OTHER -> now
    IN  /\ seen' = [r \in Requests |-> during(r, seen[r] \cup Facts')]
        /\ held' = [r \in Requests |-> during(r, held[r] \cap Facts')]

(* Every step but an answer. *)
Quiet == answer' = NoAnswer /\ Observe
------------------------------------------------------------------------------
GoTo(p, where) == pc' = [pc EXCEPT ![p] = where]
Finish(p) == GoTo(p, "idle") /\ job' = [job EXCEPT ![p] = NoJob]

(* A client that goes away, an error, a restart. *)
Abort(p) ==
    /\ pc[p] # "idle"
    /\ Finish(p)
    /\ UNCHANGED <<rows, clock, changes>>
    /\ Quiet

Tick ==
    /\ clock < MaxClock
    /\ clock' = clock + 1
    /\ UNCHANGED <<rows, changes, pc, job>>
    /\ Quiet

Change == changes < MaxChanges /\ changes' = changes + 1
------------------------------------------------------------------------------
(* Requests: entitlements::current, entitlements::check, meter_quota_limit. *)

Admit(r) ==
    /\ pc[r] = "idle"
    /\ customer = "active"                              \* require_active
    /\ GoTo(r, "policy")
    /\ UNCHANGED <<rows, clock, changes, job>>
    /\ Quiet

Read(r, at, next, inputs) ==
    /\ pc[r] = at
    /\ GoTo(r, next)
    /\ job' = [job EXCEPT ![r].inputs = inputs]
    /\ UNCHANGED <<rows, clock, changes>>
    /\ Quiet

(* active_document; the plan the customer holds anyway is in the catalog. *)
ReadPolicy(r) ==
    Read(r, "policy", "subscription",
         [job[r].inputs EXCEPT !.policy = InForce(clock).policy])

(* current_subscription prefers one that grants cloud. *)
OpenSubscriptions == {s \in Subscriptions : subscription[s] \notin {"absent", "canceled"}}
PreferredAny(S) == S                                            \* mutant
Preferred(S) == LET granting == {s \in S : subscription[s] \in Granting}
                IN  IF granting # {} THEN granting ELSE S

ReadSubscription(r) ==
    \/ /\ OpenSubscriptions = {}
       /\ Read(r, "subscription", "grants", job[r].inputs)
    \/ \E s \in Preferred(OpenSubscriptions) :
          Read(r, "subscription", "grants",
               [job[r].inputs EXCEPT !.plan = "pro", !.cloud = subscription[s] \in Granting])

(* The grants of the active licenses, in the order they were made. *)
ReadGrants(r) ==
    \E order \in SetToSeqs(Active) :
        Read(r, "grants", "license",
             [job[r].inputs EXCEPT
                 !.license_grants = Merge([i \in DOMAIN order |-> LicenseGrants[order[i]]])])

(* Revocation follows the effective license: the newest active one, or else *)
(* the newest.                                                              *)
Effective == Newest(IF Active # {} THEN Active ELSE Issued)

ReadLicense(r) ==
    Read(r, "license", "overrides",
         [job[r].inputs EXCEPT !.revoked = \E l \in Effective : license[l].status = "revoked"])

(* Active and unexpired overrides by created_at: of one key the last wins,  *)
(* and of two with the same time either may.                                *)
Standing(k) == {s \in Slots : /\ override[s].active /\ override[s].key = k
                              /\ override[s].expires_at > clock}
Winners(k) == {s \in Standing(k) :
                  \A t \in Standing(k) : override[t].created_at <= override[s].created_at}
OverrideLayers ==
    LET keys == {k \in OverrideKeys : Standing(k) # {}}
    IN  {[k \in keys |-> override[w[k]].value] :
            w \in {f \in [keys -> Slots] : \A k \in keys : f[k] \in Winners(k)}}

(* The last read, the evaluation, the signature and store_snapshot. *)
Answer(r, overrides) ==
    LET inputs == [job[r].inputs EXCEPT !.overrides = overrides]
        result == Evaluate(inputs)
    IN  /\ pc[r] = "overrides"
        /\ answer' = [kind |-> "answer", inputs |-> inputs, features |-> result.features,
                      quotas |-> result.quotas, seen |-> seen[r], held |-> held[r]]
        /\ Finish(r)
        /\ UNCHANGED <<rows, clock, changes>>
        /\ Observe

Request(r) ==
    \/ Admit(r) \/ ReadPolicy(r) \/ ReadSubscription(r) \/ ReadGrants(r) \/ ReadLicense(r)
    \/ \E overrides \in OverrideLayers : Answer(r, overrides)
------------------------------------------------------------------------------
(* set_entitlement_override.  now() is the time the transaction began; the  *)
(* update waits for rows another operator is deactivating, looks at them    *)
(* again, and does not see what was inserted since the update began.        *)

ActiveRows(k) == {s \in Slots : override[s].active /\ override[s].key = k}
LockedRows(p) == IF pc[p] = "insert" THEN job[p].rows ELSE {}

BeginOverride(o, k, value, expires) ==
    /\ pc[o] = "idle"
    /\ Change
    /\ job' = [job EXCEPT ![o] = [NoJob EXCEPT !.start = clock, !.key = k, !.value = value,
                                               !.at = expires]]
    /\ GoTo(o, "set")
    /\ UNCHANGED <<rows, clock>>
    /\ Quiet

SeeOverrides(o) ==
    /\ pc[o] = "set"
    /\ job' = [job EXCEPT ![o].rows = ActiveRows(job[o].key)]
    /\ GoTo(o, "clear")
    /\ UNCHANGED <<rows, clock, changes>>
    /\ Quiet

ClearOverrides(o) ==
    /\ pc[o] = "clear"
    /\ \A p \in Operators \ {o} : LockedRows(p) \cap job[o].rows = {}
    /\ job' = [job EXCEPT ![o].rows = job[o].rows \cap ActiveRows(job[o].key)]
    /\ GoTo(o, "insert")
    /\ UNCHANGED <<rows, clock, changes>>
    /\ Quiet

FreeSlots == {s \in Slots : override[s] = NoOverride}

CommitOverride(o) ==
    LET cleared == [s \in Slots |-> IF s \in job[o].rows
                                    THEN [override[s] EXCEPT !.active = FALSE]
                                    ELSE override[s]]
        row == [key |-> job[o].key, value |-> job[o].value, active |-> TRUE,
                created_at |-> job[o].start, expires_at |-> job[o].at]
    IN  /\ pc[o] = "insert"
        /\ \/ job[o].value = None /\ override' = cleared
           \/ /\ job[o].value # None /\ FreeSlots # {}
              /\ override' = [cleared EXCEPT ![CHOOSE s \in FreeSlots :
                                                  \A t \in FreeSlots : s <= t] = row]
        /\ Finish(o)
        /\ UNCHANGED <<customer, subscription, license, policies, clock, changes>>
        /\ Quiet
------------------------------------------------------------------------------
(* commercial_policy::publish.  now() is the time the transaction began;    *)
(* everything after the lock on the product is one step.                    *)

MaxPast == 1                                            \* five minutes, in ticks

BeginPublish(o, policy, effective_at, key, base) ==
    /\ pc[o] = "idle"
    /\ Change
    /\ effective_at >= clock - MaxPast
    /\ job' = [job EXCEPT ![o] = [NoJob EXCEPT !.start = clock, !.policy = policy, !.key = key,
                                               !.at = effective_at, !.base = base]]
    /\ GoTo(o, "publish")
    /\ UNCHANGED <<rows, clock>>
    /\ Quiet

(* A known key returns the version it published; another base is refused. *)
Replayed(o) == \E p \in policies : p.key = job[o].key
Conflict(o) == job[o].base # InForce(job[o].start).version

PublishPolicy(o) ==
    /\ pc[o] = "publish"
    /\ policies' = IF Replayed(o) \/ Conflict(o) THEN policies
                   ELSE policies \cup {[version |-> NextVersion,
                                        effective_at |-> job[o].at, policy |-> job[o].policy,
                                        key |-> job[o].key, base |-> job[o].base]}
    /\ Finish(o)
    /\ UNCHANGED <<customer, subscription, license, override, clock, changes>>
    /\ Quiet
------------------------------------------------------------------------------
(* What else changes the rows, each a transaction of one step here.         *)

(* license_sync_action, see Subscriptions. *)
Synced(found, status) ==
    CASE found.status = "revoked" -> "revoked"
      [] status \in Granting -> "active"
      [] status = "canceled" /\ found.status \in {"active", "suspended"} -> "expired"
      [] status = "unpaid" /\ found.status = "active" -> "suspended"
      [] OTHER -> found.status

WithStatus(l, status) ==
    [license EXCEPT ![l] = [status |-> status,
                            issued |-> IF license[l].status = "absent" /\ status # "absent"
                                       THEN Cardinality(Issued) + 1 ELSE license[l].issued]]

Webhook(s, status) ==
    /\ Change
    /\ subscription[s] # status
    /\ subscription' = [subscription EXCEPT ![s] = status]
    /\ license' = WithStatus(s, Synced(license[s], status))
    /\ UNCHANGED <<customer, override, policies, clock, pc, job>>
    /\ Quiet

IssueLicense(l) ==
    /\ Change
    /\ l \in Manual /\ license[l].status = "absent"
    /\ license' = WithStatus(l, "active")
    /\ UNCHANGED <<customer, subscription, override, policies, clock, pc, job>>
    /\ Quiet

RevokeLicense(l) ==
    /\ Change
    /\ license[l].status \notin {"absent", "revoked"}
    /\ license' = WithStatus(l, "revoked")
    /\ UNCHANGED <<customer, subscription, override, policies, clock, pc, job>>
    /\ Quiet

SetCustomerStatus(status) ==
    /\ IF status = "suspended" THEN Change ELSE UNCHANGED changes
    /\ customer # status
    /\ customer' = status
    /\ UNCHANGED <<subscription, license, override, policies, clock, pc, job>>
    /\ Quiet
------------------------------------------------------------------------------
(* A customer is new, or has subscribed. *)
Init ==
    /\ customer = "active"
    /\ \E paid \in {s \in SUBSET Subscriptions : Cardinality(s) <= 1} :
          /\ subscription = [s \in Subscriptions |-> IF s \in paid THEN "active" ELSE "absent"]
          /\ license = [l \in Licenses |-> IF l \in paid THEN [status |-> "active", issued |-> 1]
                                           ELSE [status |-> "absent", issued |-> 0]]
    /\ override = [s \in Slots |-> NoOverride]
    /\ policies = {[version |-> 1, effective_at |-> 0, policy |-> Bootstrap, key |-> None,
                    base |-> 0]}
    /\ clock = 0 /\ changes = 0
    /\ pc = [p \in Procs |-> "idle"] /\ job = [p \in Procs |-> NoJob]
    /\ answer = NoAnswer
    /\ seen = [r \in Requests |-> {}] /\ held = [r \in Requests |-> {}]

(* admin_override and admin_authorforge_commercial_policy_publish: an       *)
(* operator names a version that exists, and an expiry still to come.       *)
OverrideRequest(o) ==
    \E k \in OverrideKeys :
        \E value \in OverrideValues[k] \cup {None}, expires \in clock + 1 .. MaxClock + 1 :
            BeginOverride(o, k, value, expires)

PublishRequest(o) ==
    \E policy \in Documents, effective_at \in 0 .. MaxClock, key \in PublishKeys,
       base \in {p.version : p \in policies} :
        BeginPublish(o, policy, effective_at, key, base)

Operation(o) ==
    \/ OverrideRequest(o) \/ SeeOverrides(o) \/ ClearOverrides(o) \/ CommitOverride(o)
    \/ PublishRequest(o) \/ PublishPolicy(o)

Environment ==
    \/ \E s \in Subscriptions, status \in {"active", "past_due", "unpaid", "canceled"} :
          Webhook(s, status)
    \/ \E l \in Licenses : IssueLicense(l) \/ RevokeLicense(l)
    \/ \E status \in {"active", "suspended"} : SetCustomerStatus(status)
    \/ Tick

Next ==
    \/ \E r \in Requests : Request(r)
    \/ \E o \in Operators : Operation(o)
    \/ \E p \in Procs : Abort(p)
    \/ Environment

Spec == Init /\ [][Next]_vars
------------------------------------------------------------------------------
(* Properties.                                                              *)

(* The last layer that names key k has it. *)
Winner(layers, k) ==
    layers[CHOOSE i \in DOMAIN layers :
              /\ k \in DOMAIN layers[i]
              /\ \A j \in DOMAIN layers : k \in DOMAIN layers[j] => j <= i][k]

(* Stages of ENTITLEMENTS.md, the later over the earlier.                   *)
PlanStage(layer(_, _), in) == IF in.plan = None THEN Empty ELSE layer(in.policy, in.plan)
FeatureStages(in) ==
    << PlanFeatures(in.policy, "included"), PlanStage(PlanFeatures, in), in.license_grants,
       Promotion.features,
       [k \in DOMAIN in.overrides \cap (OverrideKeys \ Metered) |-> in.overrides[k]] >>
QuotaStages(in) ==
    << PlanQuotas(in.policy, "included"), PlanStage(PlanQuotas, in), Promotion.quotas >>

(* "Later stages win over earlier ones, except suspension/revocation always *)
(* denies" (ENTITLEMENTS.md): every key some layer names is in the answer,  *)
(* with the value of the highest one, from the defaults to the overrides,   *)
(* except that a gated feature is off with a revoked license; other         *)
(* features and quotas are never denied.  What a gated feature is without   *)
(* a paid subscription is not said here: see GateKeepsItsPlace.             *)
Precedence ==
    answer # NoAnswer =>
        LET in == answer.inputs
        IN  /\ DOMAIN answer.features = UNION {DOMAIN FeatureStages(in)[i] : i \in 1 .. 5}
            /\ \A f \in DOMAIN answer.features :
                  /\ f \notin Gated \/ (in.cloud /\ ~in.revoked) =>
                        answer.features[f] = Winner(FeatureStages(in), f)
                  /\ f \in Gated /\ in.revoked => answer.features[f] = Bool(FALSE)
            /\ \A q \in Metered :
                  answer.quotas[q] =
                      IF q \in DOMAIN in.overrides /\ in.overrides[q][1] = "number"
                      THEN in.overrides[q][2] ELSE Winner(QuotaStages(in), q)

(* "evaluated fail-closed from current commercial truth": although the rows *)
(* are read one after the other while others change them, a gated feature   *)
(* is on only if at some moment of the request a subscription was paid and  *)
(* at some moment no revocation stood, and if both held all the time it is  *)
(* not denied ("a revoked secondary license must not deny a customer who    *)
(* still holds an active grant", entitlements.rs; ENTITLEMENTS.md says      *)
(* otherwise, see RevokedLatestDenies).                                     *)
CloudOfItsTime ==
    answer # NoAnswer => \A f \in Gated :
        /\ answer.features[f] # Bool(FALSE) => {"paid", "unrevoked"} \subseteq answer.seen
        /\ {"paid", "unrevoked"} \subseteq answer.held =>
              answer.features[f] = Applied(FeatureLayers(answer.inputs))[f]

(* What the documents say and the code does not keep: TLC refutes each.     *)

(* "a revoked latest license forces cloud features off" (ENTITLEMENTS.md):  *)
(* whoever reads the licenses while the one issued last is revoked denies.  *)
(* The code lets an older license that is active decide.                    *)
RevokedLatestDenies ==
    [][\A r \in Requests :
          pc[r] = "license" /\ pc'[r] = "overrides"
             /\ (\E l \in Newest(Issued) : license[l].status = "revoked")
          => job'[r].inputs.revoked]_vars

(* The gate of the subscription is a stage below the grants and overrides,  *)
(* and "later stages win over earlier ones, except suspension/revocation"   *)
(* (ENTITLEMENTS.md, and the same order at the head of entitlement.rs): a   *)
(* grant or an override of a gated feature stands without a subscription.   *)
(* The code applies the gate over them all.                                 *)
GateKeepsItsPlace ==
    answer # NoAnswer =>
        LET in == answer.inputs
        IN  \A f \in Gated :
               ~in.revoked /\ (\E i \in 3 .. 5 : f \in DOMAIN FeatureStages(in)[i]) =>
                   answer.features[f] = Winner(FeatureStages(in), f)

(* "... prevents two operators from both successfully publishing against    *)
(* the same active version" (commercial_policy.rs): no two versions have    *)
(* the same base.                                                           *)
OnePerBase == \A p, q \in policies : p.base = q.base => p = q

(* "Prior active overrides for the same key are deactivated in the same     *)
(* transaction so evaluation sees exactly one winner" (admin.rs).           *)
OneWinner == \A k \in OverrideKeys : Cardinality(ActiveRows(k)) <= 1
=============================================================================
