------------------------- MODULE EntitlementsProofs -------------------------
(***************************************************************************)
(* Proofs about Entitlements, for any number of requests, operators,       *)
(* subscriptions and licenses and any documents and grants.                *)
(*                                                                         *)
(* A request reads its rows one after the other while they change.  The    *)
(* inductive invariant says what each read is worth afterwards: if it      *)
(* found a fact, the fact is among those seen during the request, and if   *)
(* it did not, the fact did not hold all along (Watched).  That the        *)
(* queries find the facts, which are stated without them, needs the rows'  *)
(* types: every set of issued licenses has a newest one (NewestFound).     *)
(* Versions of the policy stay within their bound because every            *)
(* publication under way is a change that was begun (VersionsLeft).        *)
(***************************************************************************)
EXTENDS Entitlements, FiniteSetTheorems, WellFoundedInduction, TLAPS

(* A nonempty set of naturals with a bound has a greatest element. *)
LEMMA Greatest ==
    ASSUME NEW bound \in Nat, NEW S \in SUBSET (0 .. bound), S # {}
    PROVE  \E x \in S : \A y \in S : y <= x
<1> DEFINE T == {bound - x : x \in S}
<1>0. \A x \in S : x \in Nat /\ x <= bound /\ bound - x \in Nat
  OBVIOUS
<1>1. T \subseteq Nat /\ T # {}
  BY <1>0
<1> HIDE DEF T
<1>2. PICK t \in T : \A u \in T : ~(<<u, t>> \in OpToRel(<, Nat))
  BY <1>1, WFMin, NatLessThanWellFounded
<1>3. \A u \in T : ~(u < t)
  BY <1>1, <1>2 DEF OpToRel
<1>4. PICK x \in S : t = bound - x
  BY DEF T
<1>5. \A y \in S : bound - y \in T
  BY DEF T
<1>6. QED
  BY <1>0, <1>3, <1>4, <1>5
------------------------------------------------------------------------------
(* The inductive invariant.                                                 *)

Values == UNION {OverrideValues[k] : k \in OverrideKeys}
OverrideRows == [key : OverrideKeys \cup {None}, value : Values \cup {None},
                 active : BOOLEAN, created_at : Times, expires_at : Times]
Licensed == [status : {"absent", "active", "suspended", "expired", "revoked"},
             issued : 0 .. Cardinality(Licenses)]
Policies == [version : 1 .. MaxChanges + 1, effective_at : Times, policy : Documents,
             key : PublishKeys \cup {None}, base : 0 .. MaxChanges + 1]

(* What a transaction carries is a record, and so are the inputs in it. *)
InputsShaped(in) ==
    in = [policy |-> in.policy, plan |-> in.plan, cloud |-> in.cloud,
          license_grants |-> in.license_grants, revoked |-> in.revoked,
          overrides |-> in.overrides]
JobShaped(j) ==
    /\ j = [inputs |-> j.inputs, start |-> j.start, key |-> j.key, value |-> j.value,
            rows |-> j.rows, policy |-> j.policy, at |-> j.at, base |-> j.base]
    /\ InputsShaped(j.inputs)

Places == {"idle", "policy", "subscription", "grants", "license", "overrides",
           "set", "clear", "insert", "publish"}
ShapedAt(p) ==
    /\ JobShaped(job[p])
    /\ p \in Requests => pc[p] \notin {"set", "clear", "insert", "publish"}
    /\ p \in Operators =>
          /\ pc[p] \in {"idle", "set", "clear", "insert", "publish"}
          /\ pc[p] # "idle" => job[p].start \in 0 .. MaxClock /\ job[p].at \in Times
          /\ pc[p] \in {"set", "clear", "insert"} =>
                /\ job[p].key \in OverrideKeys
                /\ job[p].value \in OverrideValues[job[p].key] \cup {None}
          /\ pc[p] = "publish" => /\ job[p].policy \in Documents /\ job[p].key \in PublishKeys
                                  /\ job[p].base \in 1 .. MaxChanges + 1
Shapes ==
    /\ DOMAIN job = Procs /\ pc \in [Procs -> Places]
    /\ \A p \in Procs : ShapedAt(p)

(* Versions are numbered in the order of publication, and every publication *)
(* under way is a change that was begun.                                    *)
Publishing == {o \in Operators : pc[o] = "publish"}
VersionsLeft ==
    /\ policies # {}
    /\ \A p \in policies : p.version + Cardinality(Publishing) <= changes + 1

(* What a request has read is what held at some moment of it, and what held *)
(* all the time is what it has read.                                        *)
Witnessed(r, fact, read) == /\ read => fact \in seen[r]
                            /\ fact \in held[r] => read
WatchedAt(r) ==
    /\ pc[r] # "idle" => held[r] \subseteq Facts /\ Facts \subseteq seen[r]
    /\ pc[r] \in {"idle", "policy", "subscription"} => job[r].inputs.cloud = FALSE
    /\ pc[r] \in {"grants", "license", "overrides"} =>
          Witnessed(r, "paid", job[r].inputs.cloud)
    /\ pc[r] = "overrides" => Witnessed(r, "unrevoked", ~job[r].inputs.revoked)
Watched ==
    /\ seen \in [Requests -> SUBSET {"paid", "unrevoked"}]
    /\ held \in [Requests -> SUBSET {"paid", "unrevoked"}]
    /\ \A r \in Requests : WatchedAt(r)

Rows ==
    /\ customer \in {"active", "suspended"}
    /\ subscription \in [Subscriptions -> {"absent", "active", "past_due", "unpaid", "canceled"}]
    /\ license \in [Licenses -> Licensed]
    /\ \A l \in Licenses : license[l].status = "absent" => license[l].issued = 0
    /\ override \in [Slots -> OverrideRows]
    /\ policies \subseteq Policies
    /\ \A p, q \in policies : p.version = q.version \/ p.key = q.key => p = q
    /\ clock \in 0 .. MaxClock /\ changes \in 0 .. MaxChanges

IInv == Rows /\ Shapes /\ VersionsLeft /\ Watched
------------------------------------------------------------------------------
(* What the facts are, and what the queries find.                           *)
Paid == \E s \in Subscriptions : subscription[s] \in {"active", "trialing"}
Unrevoked ==
    \/ \E l \in Licenses : license[l].status = "active"
    \/ \A l \in Licenses : license[l].status = "revoked" =>
           \E m \in Licenses : /\ license[m].issued > license[l].issued
                              /\ license[m].status # "revoked"

FactsSaid == /\ Facts \subseteq {"paid", "unrevoked"}
             /\ "paid" \in Facts <=> Paid
             /\ "unrevoked" \in Facts <=> Unrevoked

LEMMA FactsSay == FactsSaid
BY DEF Facts, FactsSaid, Paid, Unrevoked

LEMMA LicensesFinite ==
    /\ IsFiniteSet(Licenses) /\ IsFiniteSet(Operators) /\ Cardinality(Licenses) \in Nat
    /\ MaxChanges \in Nat /\ MaxClock \in Nat /\ MaxOverrides \in Nat
    /\ Bootstrap \in Documents
    /\ None \notin Requests \cup Operators \cup Licenses \cup PublishKeys
    /\ Requests \cap Operators = {}
BY FS_CardinalityType, EntitlementsAssumption DEF EntitlementsAssumption, Licenses

(* order by issued_at desc limit 1 finds a license if there is one. *)
LEMMA NewestFound ==
    ASSUME Rows, NEW S \in SUBSET Licenses, S # {}
    PROVE  Newest(S) # {}
<1> DEFINE T == {license[l].issued : l \in S}
<1>1. \A l \in Licenses : license[l].issued \in 0 .. Cardinality(Licenses)
  BY DEF Rows, Licensed
<1>2. T \in SUBSET (0 .. Cardinality(Licenses)) /\ T # {}
  BY <1>1
<1> HIDE DEF T
<1>3. PICK x \in T : \A y \in T : y <= x
  BY <1>2, Greatest, LicensesFinite
<1>4. PICK l \in S : x = license[l].issued
  BY DEF T
<1>5. \A m \in S : license[m].issued \in T
  BY DEF T
<1>6. QED
  BY <1>3, <1>4, <1>5 DEF Newest

(* The query on licenses says exactly whether a revocation stands. *)
LEMMA RevocationRead ==
    ASSUME Rows
    PROVE  (\E l \in Effective : license[l].status = "revoked") <=> ~Unrevoked
<1>1. /\ \A l \in Licenses : license[l].issued \in Nat
      /\ \A l \in Licenses : license[l].status = "absent" => license[l].issued = 0
  BY LicensesFinite DEF Rows, Licensed
<1>2. CASE Active # {}
  <2>1. Unrevoked
    BY <1>2 DEF Active, Unrevoked
  <2>2. \A l \in Effective : license[l].status = "active"
    BY <1>2 DEF Effective, Newest, Active
  <2>3. QED
    BY <2>1, <2>2
<1>3. CASE Active = {}
  <2>1. Effective = Newest(Issued)
    BY <1>3 DEF Effective
  <2>2. ASSUME NEW l \in Newest(Issued), license[l].status = "revoked"
        PROVE  ~Unrevoked
    <3>1. l \in Licenses /\ \A m \in Issued : license[m].issued <= license[l].issued
      BY <2>2 DEF Newest, Issued
    <3>2. \A m \in Licenses : ~(license[m].issued > license[l].issued)
      <4> SUFFICES ASSUME NEW m \in Licenses PROVE ~(license[m].issued > license[l].issued)
        OBVIOUS
      <4>1. CASE m \in Issued
        BY <1>1, <3>1, <4>1
      <4>2. CASE m \notin Issued
        BY <1>1, <3>1, <4>2 DEF Issued
      <4>3. QED
        BY <4>1, <4>2
    <3>3. QED
      BY <1>3, <2>2, <3>1, <3>2 DEF Unrevoked, Active
  <2>3. ASSUME \A l \in Newest(Issued) : license[l].status # "revoked"
        PROVE  Unrevoked
    <3> SUFFICES ASSUME NEW l \in Licenses, license[l].status = "revoked"
                 PROVE  \E m \in Licenses : /\ license[m].issued > license[l].issued
                                            /\ license[m].status # "revoked"
      BY DEF Unrevoked
    <3>1. l \in Issued /\ Issued \in SUBSET Licenses
      BY DEF Issued
    <3>2. PICK m \in Newest(Issued) : TRUE
      BY <3>1, NewestFound
    <3>3. /\ m \in Issued /\ m \in Licenses /\ license[m].status # "revoked"
          /\ \A o \in Issued : license[o].issued <= license[m].issued
      BY <2>3, <3>2 DEF Newest, Issued
    <3>4. license[m].issued # license[l].issued
      <4>1. license[m].issued = license[l].issued => l \in Newest(Issued)
        BY <3>1, <3>3 DEF Newest
      <4>2. QED
        BY <2>3, <4>1
    <3>5. QED
      BY <1>1, <3>1, <3>3, <3>4
  <2>4. QED
    BY <2>1, <2>2, <2>3
<1>4. QED
  BY <1>2, <1>3

(* The query on subscriptions finds one that grants cloud if there is one. *)
LEMMA PaidRead ==
    ASSUME Rows
    PROVE  /\ \A s \in Preferred(OpenSubscriptions) : subscription[s] \in Granting <=> Paid
           /\ OpenSubscriptions = {} => ~Paid
<1>1. \A s \in Subscriptions : subscription[s] \in Granting => s \in OpenSubscriptions
  BY DEF OpenSubscriptions, Granting
<1>2. Paid <=> \E s \in Subscriptions : subscription[s] \in Granting
  BY DEF Paid, Granting
<1>3. OpenSubscriptions \subseteq Subscriptions
  BY DEF OpenSubscriptions
<1>4. QED
  BY <1>1, <1>2, <1>3 DEF Preferred
------------------------------------------------------------------------------
(* Records, and what the evaluator makes of the inputs.                     *)

LEMMA InputsChanged ==
    ASSUME NEW in, InputsShaped(in), NEW v
    PROVE  /\ InputsShaped([in EXCEPT !.policy = v]) /\ [in EXCEPT !.policy = v].cloud = in.cloud
           /\ InputsShaped([in EXCEPT !.license_grants = v])
           /\ [in EXCEPT !.license_grants = v].cloud = in.cloud
           /\ InputsShaped([in EXCEPT !.revoked = v])
           /\ [in EXCEPT !.revoked = v].cloud = in.cloud /\ [in EXCEPT !.revoked = v].revoked = v
           /\ [in EXCEPT !.overrides = v].cloud = in.cloud
           /\ [in EXCEPT !.overrides = v].revoked = in.revoked
<1>1. PICK a, b, c, d, e, f :
         in = [policy |-> a, plan |-> b, cloud |-> c, license_grants |-> d, revoked |-> e,
               overrides |-> f]
  BY DEF InputsShaped
<1>2. /\ [in EXCEPT !.policy = v] = [policy |-> v, plan |-> b, cloud |-> c,
            license_grants |-> d, revoked |-> e, overrides |-> f]
      /\ [in EXCEPT !.license_grants = v] = [policy |-> a, plan |-> b, cloud |-> c,
            license_grants |-> v, revoked |-> e, overrides |-> f]
      /\ [in EXCEPT !.revoked = v] = [policy |-> a, plan |-> b, cloud |-> c,
            license_grants |-> d, revoked |-> v, overrides |-> f]
      /\ [in EXCEPT !.overrides = v] = [policy |-> a, plan |-> b, cloud |-> c,
            license_grants |-> d, revoked |-> e, overrides |-> v]
  BY <1>1
<1>3. QED
  BY <1>1, <1>2 DEF InputsShaped

WithPlan(in, plan, cloud) == [in EXCEPT !.plan = plan, !.cloud = cloud]
LEMMA PlanRead ==
    ASSUME NEW in, InputsShaped(in), NEW plan, NEW cloud
    PROVE  /\ InputsShaped(WithPlan(in, plan, cloud))
           /\ WithPlan(in, plan, cloud).cloud = cloud
<1>1. PICK a, b, c, d, e, f :
         in = [policy |-> a, plan |-> b, cloud |-> c, license_grants |-> d, revoked |-> e,
               overrides |-> f]
  BY DEF InputsShaped
<1>2. [in EXCEPT !.plan = plan, !.cloud = cloud] =
         [policy |-> a, plan |-> plan, cloud |-> cloud, license_grants |-> d, revoked |-> e,
          overrides |-> f]
  <2>1. PICK k : k = [policy |-> a, plan |-> plan, cloud |-> c, license_grants |-> d,
                      revoked |-> e, overrides |-> f]
    OBVIOUS
  <2>2. [in EXCEPT !.plan = plan] = k
    BY <1>1, <2>1
  <2>3. [k EXCEPT !.cloud = cloud] = [policy |-> a, plan |-> plan, cloud |-> cloud,
            license_grants |-> d, revoked |-> e, overrides |-> f]
    BY <2>1
  <2>4. [in EXCEPT !.plan = plan, !.cloud = cloud] =
           [[in EXCEPT !.plan = plan] EXCEPT !.cloud = cloud]
    OBVIOUS
  <2>5. QED
    BY <2>2, <2>3, <2>4
<1>3. QED
  BY <1>2 DEF InputsShaped, WithPlan

LEMMA JobRead ==
    ASSUME NEW j, JobShaped(j), NEW in, InputsShaped(in)
    PROVE  JobShaped([j EXCEPT !.inputs = in]) /\ [j EXCEPT !.inputs = in].inputs = in
<1>1. PICK a, b, c, d, e, f, g, h :
         j = [inputs |-> a, start |-> b, key |-> c, value |-> d, rows |-> e, policy |-> f,
              at |-> g, base |-> h]
  BY DEF JobShaped
<1>2. QED
  BY <1>1 DEF JobShaped

LEMMA NoJobShaped == JobShaped(NoJob) /\ InputsShaped(NoInputs) /\ NoJob.inputs.cloud = FALSE
BY DEF JobShaped, InputsShaped, NoJob, NoInputs

(* cloud is always among the features, and on only as the gates allow. *)
LEMMA CloudGated ==
    ASSUME NEW in
    PROVE  LET features == Evaluate(in).features
           IN  /\ features["cloud"] # Bool(FALSE) => in.cloud /\ ~in.revoked
               /\ in.cloud /\ ~in.revoked =>
                     features["cloud"] = Applied(FeatureLayers(in))["cloud"]
<1> DEFINE merged == Applied(FeatureLayers(in))
           gated == IF in.cloud THEN merged ELSE Denied(merged)
<1>1. Evaluate(in).features = IF in.revoked THEN Denied(gated) ELSE gated
  BY DEF Evaluate
<1>2. "cloud" \in DOMAIN merged
  <2>1. "cloud" \in DOMAIN PlanFeatures(in.policy, "included")
    BY DEF PlanFeatures, Over
  <2>2. FeatureLayers(in)[1] = PlanFeatures(in.policy, "included")
    BY DEF FeatureLayers
  <2>3. QED
    BY <2>1, <2>2 DEF Applied, Upon, Over
<1> HIDE DEF merged
<1>3. /\ "cloud" \in DOMAIN Denied(merged) /\ Denied(merged)["cloud"] = Bool(FALSE)
  BY <1>2 DEF Denied, Gated
<1>4. "cloud" \in DOMAIN gated
  BY <1>2, <1>3
<1> HIDE DEF gated
<1>5. Denied(gated)["cloud"] = Bool(FALSE)
  BY <1>4 DEF Denied, Gated
<1>6. CASE in.cloud /\ ~in.revoked
  BY <1>1, <1>6 DEF merged, gated
<1>7. CASE ~in.cloud
  BY <1>1, <1>3, <1>5, <1>7 DEF gated
<1>8. CASE in.revoked
  BY <1>1, <1>5, <1>8
<1>9. QED
  BY <1>6, <1>7, <1>8
------------------------------------------------------------------------------
(* The initial states.                                                      *)

LEMMA InitIInv == Init => IInv
<1> SUFFICES ASSUME Init PROVE IInv
  OBVIOUS
<1>1. PICK paid \in SUBSET Subscriptions :
         /\ Cardinality(paid) <= 1
         /\ subscription = [s \in Subscriptions |-> IF s \in paid THEN "active" ELSE "absent"]
         /\ license = [l \in Licenses |-> IF l \in paid THEN [status |-> "active", issued |-> 1]
                                          ELSE [status |-> "absent", issued |-> 0]]
  BY DEF Init
<1>2. Rows
  <2>1. ASSUME NEW l \in paid PROVE Cardinality(Licenses) >= 1
    <3>1. l \in Licenses
      BY <2>1 DEF Licenses
    <3>2. Cardinality(Licenses) # 0
      BY <3>1, LicensesFinite, FS_EmptySet
    <3>3. QED
      BY <3>2, LicensesFinite
  <2>2. license \in [Licenses -> Licensed]
    BY <1>1, <2>1, LicensesFinite DEF Licensed
  <2>3. \A l \in Licenses : license[l].status = "absent" => license[l].issued = 0
    BY <1>1
  <2>4. override \in [Slots -> OverrideRows]
    <3>1. NoOverride \in OverrideRows
      <4>1. 0 \in Times
        BY LicensesFinite DEF Times
      <4>2. QED
        BY <4>1 DEF OverrideRows, NoOverride
    <3>2. QED
      BY <3>1 DEF Init
  <2>5. policies \subseteq Policies
    BY LicensesFinite DEF Init, Policies, Times
  <2>6. clock \in 0 .. MaxClock /\ changes \in 0 .. MaxChanges
    BY LicensesFinite DEF Init
  <2>7. /\ customer \in {"active", "suspended"}
        /\ subscription \in [Subscriptions -> {"absent", "active", "past_due", "unpaid", "canceled"}]
        /\ \A p, q \in policies : p.version = q.version \/ p.key = q.key => p = q
    BY <1>1 DEF Init
  <2>8. QED
    BY <2>2, <2>3, <2>4, <2>5, <2>6, <2>7 DEF Rows
<1>3. Shapes
  BY NoJobShaped DEF Init, Shapes, ShapedAt, Procs, Places
<1>4. VersionsLeft
  <2>1. Publishing = {}
    BY DEF Init, Publishing, Procs
  <2>2. QED
    BY <2>1, FS_EmptySet DEF Init, VersionsLeft
<1>5. Watched
  BY NoJobShaped DEF Init, Watched, WatchedAt, Procs
<1>6. QED
  BY <1>2, <1>3, <1>4, <1>5 DEF IInv
------------------------------------------------------------------------------
(* What a step of a process, and a step of anybody else, leaves alone.      *)

Sets(p, j) == \/ job' = [job EXCEPT ![p] = j]
              \/ job' = job /\ j = job[p]

LEMMA Moved ==
    ASSUME Shapes, NEW p \in Procs, NEW where \in Places, NEW j,
           GoTo(p, where), Sets(p, j)
    PROVE  /\ DOMAIN job' = Procs /\ pc' \in [Procs -> Places]
           /\ pc'[p] = where /\ job'[p] = j
           /\ \A q \in Procs \ {p} : pc'[q] = pc[q] /\ job'[q] = job[q]
<1>1. DOMAIN job = Procs /\ pc \in [Procs -> Places]
  BY DEF Shapes
<1>2. DOMAIN job' = Procs /\ job'[p] = j /\ \A q \in Procs \ {p} : job'[q] = job[q]
  BY <1>1 DEF Sets
<1>3. /\ pc' \in [Procs -> Places] /\ pc'[p] = where
      /\ \A q \in Procs \ {p} : pc'[q] = pc[q]
  BY <1>1 DEF GoTo
<1>4. QED
  BY <1>2, <1>3

LEMMA ShapesMoved ==
    ASSUME Shapes, NEW p \in Procs, DOMAIN job' = Procs, pc' \in [Procs -> Places],
           \A q \in Procs \ {p} : pc'[q] = pc[q] /\ job'[q] = job[q],
           ShapedAt(p)'
    PROVE  Shapes'
<1>1. \A q \in Procs \ {p} : ShapedAt(q)'
  BY DEF Shapes, ShapedAt
<1>2. QED
  BY <1>1 DEF Shapes

(* Facts come to what was seen, and leave what was held.                    *)
LEMMA Observed ==
    ASSUME Watched, Observe
    PROVE  /\ seen' \in [Requests -> SUBSET {"paid", "unrevoked"}]
           /\ held' \in [Requests -> SUBSET {"paid", "unrevoked"}]
           /\ \A r \in Requests :
                 /\ pc'[r] # "idle" => held'[r] \subseteq Facts' /\ Facts' \subseteq seen'[r]
                 /\ pc[r] # "idle" /\ pc'[r] # "idle" =>
                       seen[r] \subseteq seen'[r] /\ held'[r] \subseteq held[r]
<1>1. Facts' \subseteq {"paid", "unrevoked"}
  BY DEF Facts
<1> DEFINE during(r, now) ==
              CASE pc'[r] = "idle" -> {} [] pc[r] = "idle" -> Facts' [] OTHER -> now
<1>2. /\ seen' = [r \in Requests |-> during(r, seen[r] \cup Facts')]
      /\ held' = [r \in Requests |-> during(r, held[r] \cap Facts')]
  BY DEF Observe
<1>3. \A r \in Requests : /\ seen[r] \subseteq {"paid", "unrevoked"}
                          /\ held[r] \subseteq {"paid", "unrevoked"}
  BY DEF Watched
<1>4. \A r \in Requests : /\ seen'[r] = during(r, seen[r] \cup Facts')
                          /\ held'[r] = during(r, held[r] \cap Facts')
  BY <1>2
<1>5. \A r \in Requests : /\ seen'[r] \subseteq {"paid", "unrevoked"}
                          /\ held'[r] \subseteq {"paid", "unrevoked"}
  BY <1>1, <1>3, <1>4
<1>6. /\ seen' \in [Requests -> SUBSET {"paid", "unrevoked"}]
      /\ held' \in [Requests -> SUBSET {"paid", "unrevoked"}]
  BY <1>2, <1>5
<1>7. \A r \in Requests :
         /\ pc'[r] # "idle" => held'[r] \subseteq Facts' /\ Facts' \subseteq seen'[r]
         /\ pc[r] # "idle" /\ pc'[r] # "idle" =>
               seen[r] \subseteq seen'[r] /\ held'[r] \subseteq held[r]
  BY <1>4
<1>8. QED
  BY <1>6, <1>7

(* A request that takes no step goes on with what it has read.              *)
LEMMA StillWatched ==
    ASSUME Watched, Observe, NEW r \in Requests, pc'[r] = pc[r], job'[r] = job[r]
    PROVE  WatchedAt(r)'
<1>1. WatchedAt(r)
  BY DEF Watched
<1>2. /\ pc'[r] # "idle" => held'[r] \subseteq Facts' /\ Facts' \subseteq seen'[r]
      /\ pc[r] # "idle" => seen[r] \subseteq seen'[r] /\ held'[r] \subseteq held[r]
  BY Observed
<1>3. QED
  BY <1>1, <1>2 DEF WatchedAt, Witnessed

LEMMA VersionsKept ==
    ASSUME Rows, VersionsLeft, policies' = policies, changes' \in Nat, changes' >= changes,
           Publishing' \subseteq Publishing
    PROVE  VersionsLeft'
<1>1. /\ IsFiniteSet(Publishing)
      /\ Cardinality(Publishing) \in Nat /\ Cardinality(Publishing') \in Nat
      /\ Cardinality(Publishing') <= Cardinality(Publishing)
  <2>1. Publishing \subseteq Operators
    BY DEF Publishing
  <2>2. IsFiniteSet(Publishing)
    BY <2>1, LicensesFinite, FS_Subset
  <2>3. QED
    BY <2>2, FS_Subset, FS_CardinalityType
<1>2. changes \in Nat /\ \A p \in policies : p.version \in Nat
  BY LicensesFinite DEF Rows, Policies
<1>3. QED
  BY <1>1, <1>2 DEF VersionsLeft

LEMMA RowsKept ==
    ASSUME Rows, UNCHANGED rows, clock' \in 0 .. MaxClock, changes' \in 0 .. MaxChanges
    PROVE  Rows'
BY DEF Rows, rows
------------------------------------------------------------------------------
(* The steps of a request.                                                  *)

(* A request changes no row and no operator's transaction: what it makes of *)
(* itself decides.                                                          *)
LEMMA RequestMoved ==
    ASSUME IInv, NEW r \in Requests, NEW where \in Places \ {"set", "clear", "insert", "publish"},
           NEW j, JobShaped(j), GoTo(r, where), Sets(r, j),
           UNCHANGED <<rows, clock, changes>>, Observe,
           where \in {"idle", "policy", "subscription"} => j.inputs.cloud = FALSE,
           where \in {"grants", "license", "overrides"} =>
               pc[r] # "idle" /\ Witnessed(r, "paid", j.inputs.cloud),
           where = "overrides" => Witnessed(r, "unrevoked", ~j.inputs.revoked)
    PROVE  IInv'
<1>1. r \in Procs /\ r \notin Operators
  BY LicensesFinite DEF Procs
<1>2. /\ DOMAIN job' = Procs /\ pc' \in [Procs -> Places]
      /\ pc'[r] = where /\ job'[r] = j
      /\ \A q \in Procs \ {r} : pc'[q] = pc[q] /\ job'[q] = job[q]
  BY <1>1, Moved DEF IInv
<1>3. Rows'
  BY RowsKept DEF IInv, Rows
<1>4. Shapes'
  <2>1. ShapedAt(r)'
    BY <1>1, <1>2 DEF ShapedAt
  <2>2. QED
    BY <1>1, <1>2, <2>1, ShapesMoved DEF IInv
<1>5. VersionsLeft'
  <2>1. Publishing' \subseteq Publishing
    BY <1>1, <1>2 DEF Publishing, Procs
  <2>2. policies' = policies /\ changes' \in Nat /\ changes' >= changes
    BY LicensesFinite DEF rows, IInv, Rows
  <2>3. QED
    BY <2>1, <2>2, VersionsKept DEF IInv
<1>6. Watched'
  <2>1. \A q \in Requests \ {r} : WatchedAt(q)'
    BY <1>2, StillWatched DEF IInv, Procs
  <2>2. WatchedAt(r)'
    <3>1. /\ pc'[r] # "idle" => held'[r] \subseteq Facts' /\ Facts' \subseteq seen'[r]
          /\ pc[r] # "idle" /\ pc'[r] # "idle" =>
                seen[r] \subseteq seen'[r] /\ held'[r] \subseteq held[r]
      BY Observed DEF IInv
    <3>2. QED
      BY <1>2, <3>1 DEF WatchedAt, Witnessed
  <2>3. QED
    BY <2>1, <2>2, Observed DEF IInv, Watched
<1>7. QED
  BY <1>3, <1>4, <1>5, <1>6 DEF IInv

LEMMA AdmitStep == ASSUME IInv, NEW r \in Requests, Admit(r) PROVE IInv'
<1>1. JobShaped(job[r]) /\ job[r].inputs.cloud = FALSE /\ job' = job
  <2>1. ShapedAt(r) /\ WatchedAt(r)
    BY DEF IInv, Shapes, Watched, Procs
  <2>2. QED
    BY <2>1 DEF ShapedAt, WatchedAt, Admit
<1>2. "policy" \in Places \ {"set", "clear", "insert", "publish"}
  BY DEF Places
<1>3. GoTo(r, "policy") /\ UNCHANGED <<rows, clock, changes>> /\ Observe
  BY DEF Admit, Quiet
<1>4. Sets(r, job[r])
  BY <1>1 DEF Sets
<1>5. QED
  BY <1>1, <1>2, <1>3, <1>4, RequestMoved

(* What a request carries, and what it has seen of the facts.               *)
LEMMA Carried ==
    ASSUME IInv, NEW r \in Requests
    PROVE  /\ JobShaped(job[r]) /\ InputsShaped(job[r].inputs)
           /\ WatchedAt(r)
           /\ pc[r] # "idle" => /\ "paid" \in held[r] => Paid
                                /\ Paid => "paid" \in seen[r]
                                /\ "unrevoked" \in held[r] => Unrevoked
                                /\ Unrevoked => "unrevoked" \in seen[r]
<1>1. ShapedAt(r) /\ WatchedAt(r)
  BY DEF IInv, Shapes, Watched, Procs
<1>2. JobShaped(job[r]) /\ InputsShaped(job[r].inputs)
  BY <1>1 DEF ShapedAt, JobShaped
<1>3. QED
  BY <1>1, <1>2, FactsSay DEF FactsSaid, WatchedAt

LEMMA ReadStep ==
    ASSUME IInv, NEW r \in Requests, NEW at, NEW next, NEW inputs,
           at # "idle", next \in {"subscription", "grants", "license", "overrides"},
           Read(r, at, next, inputs), InputsShaped(inputs),
           next = "subscription" => inputs.cloud = FALSE,
           next # "subscription" => Witnessed(r, "paid", inputs.cloud),
           next = "overrides" => Witnessed(r, "unrevoked", ~inputs.revoked)
    PROVE  IInv'
<1>1. PICK j : j = [job[r] EXCEPT !.inputs = inputs]
  OBVIOUS
<1>2. JobShaped(j) /\ j.inputs = inputs
  BY <1>1, JobRead, Carried
<1>3. Sets(r, j)
  <2>1. job' = [job EXCEPT ![r] = j]
    BY <1>1 DEF Read
  <2>2. QED
    BY <2>1, Zenon DEF Sets
<1>4. next \in Places \ {"set", "clear", "insert", "publish"}
  BY DEF Places
<1>5. GoTo(r, next) /\ UNCHANGED <<rows, clock, changes>> /\ Observe /\ pc[r] # "idle"
  BY DEF Read, Quiet
<1>6. QED
  BY <1>2, <1>3, <1>4, <1>5, RequestMoved

LEMMA ReadPolicyStep == ASSUME IInv, NEW r \in Requests, ReadPolicy(r) PROVE IInv'
<1>1. PICK in : in = [job[r].inputs EXCEPT !.policy = InForce(clock).policy]
  OBVIOUS
<1>2. Read(r, "policy", "subscription", in)
  BY <1>1 DEF ReadPolicy
<1>3. InputsShaped(in) /\ in.cloud = job[r].inputs.cloud
  BY <1>1, Carried, InputsChanged
<1>4. job[r].inputs.cloud = FALSE
  BY <1>2, Carried DEF Read, WatchedAt
<1>5. QED
  BY <1>2, <1>3, <1>4, ReadStep

LEMMA ReadSubscriptionStep == ASSUME IInv, NEW r \in Requests, ReadSubscription(r) PROVE IInv'
<1>1. pc[r] = "subscription"
  BY DEF ReadSubscription, Read
<1>2. /\ job[r].inputs.cloud = FALSE /\ InputsShaped(job[r].inputs)
      /\ "paid" \in held[r] => Paid
      /\ Paid => "paid" \in seen[r]
  BY <1>1, Carried DEF WatchedAt
<1>3. CASE OpenSubscriptions = {} /\ Read(r, "subscription", "grants", job[r].inputs)
  <2>1. ~Paid
    BY <1>3, PaidRead DEF IInv
  <2>2. Witnessed(r, "paid", job[r].inputs.cloud)
    BY <1>2, <2>1 DEF Witnessed
  <2>3. QED
    BY <1>2, <1>3, <2>2, ReadStep
<1>4. ASSUME NEW s \in Preferred(OpenSubscriptions),
             Read(r, "subscription", "grants",
                  [job[r].inputs EXCEPT !.plan = "pro", !.cloud = subscription[s] \in Granting])
      PROVE  IInv'
  <2> DEFINE granted == subscription[s] \in Granting
  <2>1. PICK in : in = [job[r].inputs EXCEPT !.plan = "pro", !.cloud = granted]
    OBVIOUS
  <2>2. Read(r, "subscription", "grants", in)
    BY <1>4, <2>1
  <2>3. granted <=> Paid
    BY PaidRead DEF IInv
  <2> HIDE DEF granted
  <2>4. InputsShaped(in) /\ in.cloud = granted
    <3>1. PICK old, g : old = job[r].inputs /\ g = granted
      OBVIOUS
    <3>2. in = WithPlan(old, "pro", g) /\ InputsShaped(old)
      BY <1>2, <2>1, <3>1 DEF WithPlan
    <3>3. InputsShaped(in) /\ in.cloud = g
      BY <3>2, PlanRead
    <3>4. QED
      BY <3>1, <3>3
  <2>5. Witnessed(r, "paid", in.cloud)
    BY <1>1, <1>2, <2>3, <2>4 DEF Witnessed
  <2>6. QED
    BY <2>2, <2>4, <2>5, ReadStep
<1>5. QED
  BY <1>3, <1>4 DEF ReadSubscription

LEMMA ReadGrantsStep == ASSUME IInv, NEW r \in Requests, ReadGrants(r) PROVE IInv'
<1>1. PICK v : Read(r, "grants", "license", [job[r].inputs EXCEPT !.license_grants = v])
  BY DEF ReadGrants
<1>2. PICK in : in = [job[r].inputs EXCEPT !.license_grants = v]
  OBVIOUS
<1>3. InputsShaped(in) /\ in.cloud = job[r].inputs.cloud
  BY <1>2, Carried, InputsChanged
<1>4. Witnessed(r, "paid", job[r].inputs.cloud)
  BY <1>1, Carried DEF Read, WatchedAt
<1>5. QED
  BY <1>1, <1>2, <1>3, <1>4, ReadStep

LEMMA ReadLicenseStep == ASSUME IInv, NEW r \in Requests, ReadLicense(r) PROVE IInv'
<1> DEFINE found == \E l \in Effective : license[l].status = "revoked"
<1>1. PICK in : in = [job[r].inputs EXCEPT !.revoked = found]
  OBVIOUS
<1>2. Read(r, "license", "overrides", in)
  BY <1>1 DEF ReadLicense
<1>3. InputsShaped(in) /\ in.cloud = job[r].inputs.cloud /\ in.revoked = found
  <2> HIDE DEF found
  <2>1. QED
    BY <1>1, Carried, InputsChanged
<1>4. Witnessed(r, "paid", job[r].inputs.cloud)
  BY <1>2, Carried DEF Read, WatchedAt
<1>5. Witnessed(r, "unrevoked", ~in.revoked)
  <2>1. pc[r] # "idle"
    BY <1>2 DEF Read
  <2>2. found <=> ~Unrevoked
    BY RevocationRead DEF IInv
  <2> HIDE DEF found
  <2>3. QED
    BY <1>3, <2>1, <2>2, Carried DEF Witnessed
<1> HIDE DEF found
<1>6. QED
  BY <1>2, <1>3, <1>4, <1>5, ReadStep

(* An end, of an answer or of any other kind.                               *)
LEMMA RequestEnds ==
    ASSUME IInv, NEW r \in Requests, Finish(r), UNCHANGED <<rows, clock, changes>>, Observe
    PROVE  IInv'
<1>1. "idle" \in Places \ {"set", "clear", "insert", "publish"}
  BY DEF Places
<1>2. GoTo(r, "idle") /\ Sets(r, NoJob)
  BY Zenon DEF Finish, Sets
<1>3. JobShaped(NoJob) /\ NoJob.inputs.cloud = FALSE
  BY NoJobShaped
<1>4. QED
  BY <1>1, <1>2, <1>3, RequestMoved

LEMMA RequestStep == ASSUME IInv, NEW r \in Requests, Request(r) PROVE IInv'
<1>1. ASSUME NEW overrides \in OverrideLayers, Answer(r, overrides) PROVE IInv'
  BY <1>1, RequestEnds DEF Answer
<1>2. QED
  BY <1>1, AdmitStep, ReadPolicyStep, ReadSubscriptionStep, ReadGrantsStep, ReadLicenseStep
     DEF Request
------------------------------------------------------------------------------
(* The steps of an operator's transaction.                                  *)

LEMMA OperatorMoved ==
    ASSUME IInv, NEW o \in Operators, NEW where \in {"idle", "set", "clear", "insert", "publish"},
           NEW j, JobShaped(j), GoTo(o, where), Sets(o, j), Observe,
           where # "idle" => j.start \in 0 .. MaxClock /\ j.at \in Times,
           where \in {"set", "clear", "insert"} =>
               j.key \in OverrideKeys /\ j.value \in OverrideValues[j.key] \cup {None},
           where = "publish" => /\ j.policy \in Documents /\ j.key \in PublishKeys
                                /\ j.base \in 1 .. MaxChanges + 1
    PROVE  /\ Shapes' /\ Watched'
           /\ where = "publish" => Publishing' = Publishing \cup {o}
           /\ where # "publish" => Publishing' = Publishing \ {o}
<1>1. o \in Procs /\ o \notin Requests /\ where \in Places
  BY LicensesFinite DEF Procs, Places
<1>2. /\ DOMAIN job' = Procs /\ pc' \in [Procs -> Places]
      /\ pc'[o] = where /\ job'[o] = j
      /\ \A q \in Procs \ {o} : pc'[q] = pc[q] /\ job'[q] = job[q]
  BY <1>1, Moved DEF IInv
<1>3. Shapes'
  <2>1. ShapedAt(o)'
    BY <1>1, <1>2 DEF ShapedAt
  <2>2. QED
    BY <1>1, <1>2, <2>1, ShapesMoved DEF IInv
<1>4. Watched'
  <2>1. \A r \in Requests : WatchedAt(r)'
    BY <1>1, <1>2, StillWatched DEF IInv, Procs
  <2>2. QED
    BY <2>1, Observed DEF IInv, Watched
<1>5. /\ where = "publish" => Publishing' = Publishing \cup {o}
      /\ where # "publish" => Publishing' = Publishing \ {o}
  BY <1>1, <1>2 DEF Publishing, Procs
<1>6. QED
  BY <1>3, <1>4, <1>5

(* What an operator's transaction carries.                                  *)
LEMMA UnderWay ==
    ASSUME IInv, NEW o \in Operators
    PROVE  /\ ShapedAt(o) /\ JobShaped(job[o])
           /\ IsFiniteSet(Publishing) /\ Cardinality(Publishing) \in Nat
           /\ clock \in 0 .. MaxClock /\ changes \in 0 .. MaxChanges
           /\ \A p \in policies : p.version \in 1 .. MaxChanges + 1
<1>1. ShapedAt(o) /\ JobShaped(job[o])
  BY DEF IInv, Shapes, ShapedAt, Procs
<1>2. Publishing \subseteq Operators
  BY DEF Publishing
<1>3. IsFiniteSet(Publishing)
  BY <1>2, LicensesFinite, FS_Subset
<1>4. Cardinality(Publishing) \in Nat
  BY <1>3, FS_CardinalityType
<1>5. QED
  BY <1>1, <1>3, <1>4 DEF IInv, Rows, Policies

(* A transaction ends without a trace.                                      *)
LEMMA OperatorEnds ==
    ASSUME IInv, NEW o \in Operators, Finish(o), UNCHANGED <<rows, clock, changes>>, Observe
    PROVE  IInv'
<1>1. GoTo(o, "idle") /\ Sets(o, NoJob)
  BY Zenon DEF Finish, Sets
<1>2. Shapes' /\ Watched' /\ Publishing' = Publishing \ {o}
  BY <1>1, NoJobShaped, OperatorMoved
<1>3. Rows'
  BY RowsKept DEF IInv, Rows
<1>4. policies' = policies /\ changes' \in Nat /\ changes' >= changes
  BY LicensesFinite DEF rows, IInv, Rows
<1>5. VersionsLeft'
  BY <1>2, <1>4, VersionsKept DEF IInv
<1>6. QED
  BY <1>2, <1>3, <1>5 DEF IInv

LEMMA BeginOverrideStep ==
    ASSUME IInv, NEW o \in Operators, NEW k \in OverrideKeys,
           NEW value \in OverrideValues[k] \cup {None}, NEW expires \in Times,
           BeginOverride(o, k, value, expires)
    PROVE  IInv'
<1>1. PICK j : j = [NoJob EXCEPT !.start = clock, !.key = k, !.value = value,
                                 !.at = expires]
  OBVIOUS
<1>2. job' = [job EXCEPT ![o] = j] /\ GoTo(o, "set") /\ Observe
  BY <1>1 DEF BeginOverride, Quiet
<1>3. Sets(o, j)
  BY <1>2, Zenon DEF Sets
<1>4. /\ j = [inputs |-> NoInputs, start |-> clock, key |-> k, value |-> value,
              rows |-> {}, policy |-> Bootstrap, at |-> expires, base |-> 0]
  BY <1>1 DEF NoJob
<1>5. JobShaped(j)
  BY <1>4, NoJobShaped DEF JobShaped
<1>6. j.start \in 0 .. MaxClock /\ j.at \in Times /\ j.key \in OverrideKeys
  BY <1>4, UnderWay
<1>7. j.value \in OverrideValues[j.key] \cup {None}
  BY <1>4
<1>8. Shapes' /\ Watched' /\ Publishing' = Publishing \ {o}
  BY <1>2, <1>3, <1>5, <1>6, <1>7, OperatorMoved
<1>9. /\ UNCHANGED <<rows, clock>> /\ changes' = changes + 1
      /\ changes \in 0 .. MaxChanges /\ changes < MaxChanges
  BY UnderWay DEF BeginOverride, Change
<1>10. Rows'
  BY <1>9, LicensesFinite, RowsKept DEF IInv, Rows
<1>11. policies' = policies /\ changes' \in Nat /\ changes' >= changes
  BY <1>9 DEF rows
<1>12. VersionsLeft'
  BY <1>8, <1>11, VersionsKept DEF IInv
<1>13. QED
  BY <1>8, <1>10, <1>12 DEF IInv

(* The update of an override, which notes the rows it finds.                *)
LEMMA RowsNoted ==
    ASSUME IInv, NEW o \in Operators, pc[o] \in {"set", "clear"},
           NEW where \in {"clear", "insert"}, GoTo(o, where), Observe,
           NEW found, job' = [job EXCEPT ![o].rows = found],
           UNCHANGED <<rows, clock, changes>>
    PROVE  IInv'
<1>1. PICK j : j = [job[o] EXCEPT !.rows = found]
  OBVIOUS
<1>2. job' = [job EXCEPT ![o] = j]
  BY <1>1
<1>3. Sets(o, j)
  BY <1>2, Zenon DEF Sets
<1>4. PICK a, b, c, d, e, f, g, h :
         job[o] = [inputs |-> a, start |-> b, key |-> c, value |-> d, rows |-> e, policy |-> f,
                   at |-> g, base |-> h]
  BY UnderWay DEF JobShaped
<1>5. j = [inputs |-> a, start |-> b, key |-> c, value |-> d, rows |-> found, policy |-> f,
           at |-> g, base |-> h]
  BY <1>1, <1>4
<1>6. /\ JobShaped(j) /\ j.start = job[o].start /\ j.at = job[o].at
      /\ j.key = job[o].key /\ j.value = job[o].value
  <2>1. InputsShaped(a)
    BY <1>4, UnderWay DEF JobShaped
  <2>2. QED
    BY <1>4, <1>5, <2>1 DEF JobShaped
<1>7. /\ j.start \in 0 .. MaxClock /\ j.at \in Times /\ j.key \in OverrideKeys
      /\ j.value \in OverrideValues[j.key] \cup {None}
  BY <1>6, UnderWay DEF ShapedAt
<1>8. Shapes' /\ Watched' /\ Publishing' = Publishing \ {o}
  BY <1>2, <1>3, <1>6, <1>7, OperatorMoved
<1>9. Rows'
  BY RowsKept DEF IInv, Rows
<1>10. policies' = policies /\ changes' \in Nat /\ changes' >= changes
  BY LicensesFinite DEF rows, IInv, Rows
<1>11. VersionsLeft'
  BY <1>8, <1>10, VersionsKept DEF IInv
<1>12. QED
  BY <1>8, <1>9, <1>11 DEF IInv

LEMMA SeeOverridesStep == ASSUME IInv, NEW o \in Operators, SeeOverrides(o) PROVE IInv'
BY RowsNoted DEF SeeOverrides, Quiet

LEMMA ClearOverridesStep == ASSUME IInv, NEW o \in Operators, ClearOverrides(o) PROVE IInv'
BY RowsNoted DEF ClearOverrides, Quiet

LEMMA CommitOverrideStep ==
    ASSUME IInv, NEW o \in Operators, CommitOverride(o) PROVE IInv'
<1>1. /\ pc[o] = "insert" /\ GoTo(o, "idle") /\ Observe
      /\ UNCHANGED <<customer, subscription, license, policies, clock, changes>>
  BY DEF CommitOverride, Finish, Quiet
<1>2. Sets(o, NoJob)
  BY Zenon DEF CommitOverride, Finish, Sets
<1>3. Shapes' /\ Watched' /\ Publishing' = Publishing \ {o}
  BY <1>1, <1>2, NoJobShaped, OperatorMoved
<1> DEFINE cleared == [s \in Slots |-> IF s \in job[o].rows
                                      THEN [override[s] EXCEPT !.active = FALSE]
                                      ELSE override[s]]
           row == [key |-> job[o].key, value |-> job[o].value, active |-> TRUE,
                   created_at |-> job[o].start, expires_at |-> job[o].at]
<1>4. cleared \in [Slots -> OverrideRows]
  <2>1. ASSUME NEW s \in Slots PROVE [override[s] EXCEPT !.active = FALSE] \in OverrideRows
    BY DEF IInv, Rows, OverrideRows
  <2>2. \A s \in Slots : override[s] \in OverrideRows
    BY DEF IInv, Rows
  <2>3. QED
    BY <2>1, <2>2
<1>5. job[o].value # None => row \in OverrideRows
  <2>1. /\ job[o].key \in OverrideKeys /\ job[o].value \in OverrideValues[job[o].key] \cup {None}
        /\ job[o].start \in 0 .. MaxClock /\ job[o].at \in Times
    BY <1>1, UnderWay DEF ShapedAt
  <2>2. job[o].value \in Values \cup {None}
    BY <2>1 DEF Values
  <2>3. job[o].start \in Times
    BY <2>1, LicensesFinite DEF Times
  <2>4. QED
    BY <2>1, <2>2, <2>3 DEF OverrideRows
<1>6. \/ override' = cleared
      \/ /\ job[o].value # None
         /\ override' = [cleared EXCEPT ![CHOOSE s \in FreeSlots :
                                              \A t \in FreeSlots : s <= t] = row]
  BY DEF CommitOverride
<1> HIDE DEF cleared, row
<1>7. override' \in [Slots -> OverrideRows]
  BY <1>4, <1>5, <1>6
<1>8. Rows'
  BY <1>1, <1>7 DEF IInv, Rows
<1>9. policies' = policies /\ changes' \in Nat /\ changes' >= changes
  BY <1>1, LicensesFinite DEF IInv, Rows
<1>10. VersionsLeft'
  BY <1>3, <1>9, VersionsKept DEF IInv
<1>11. QED
  BY <1>3, <1>8, <1>10 DEF IInv

LEMMA BeginPublishStep ==
    ASSUME IInv, NEW o \in Operators, NEW policy \in Documents, NEW effective_at \in Times,
           NEW key \in PublishKeys, NEW base \in {p.version : p \in policies},
           BeginPublish(o, policy, effective_at, key, base)
    PROVE  IInv'
<1>1. PICK j : j = [NoJob EXCEPT !.start = clock, !.policy = policy, !.key = key,
                                 !.at = effective_at, !.base = base]
  OBVIOUS
<1>2. job' = [job EXCEPT ![o] = j] /\ GoTo(o, "publish") /\ Observe /\ pc[o] = "idle"
  BY <1>1 DEF BeginPublish, Quiet
<1>3. Sets(o, j)
  BY <1>2, Zenon DEF Sets
<1>4. /\ j = [inputs |-> NoInputs, start |-> clock, key |-> key, value |-> None,
              rows |-> {}, policy |-> policy, at |-> effective_at, base |-> base]
  BY <1>1 DEF NoJob
<1>5. JobShaped(j)
  BY <1>4, NoJobShaped DEF JobShaped
<1>6. base \in 1 .. MaxChanges + 1
  BY UnderWay
<1>7. /\ j.start \in 0 .. MaxClock /\ j.at \in Times /\ j.policy \in Documents
      /\ j.key \in PublishKeys /\ j.base \in 1 .. MaxChanges + 1
  BY <1>4, <1>6, UnderWay
<1>8. Shapes' /\ Watched' /\ Publishing' = Publishing \cup {o}
  BY <1>2, <1>3, <1>5, <1>7, OperatorMoved
<1>9. /\ UNCHANGED <<rows, clock>> /\ changes' = changes + 1
      /\ changes \in 0 .. MaxChanges /\ changes < MaxChanges
  BY UnderWay DEF BeginPublish, Change
<1>10. Rows'
  BY <1>9, LicensesFinite, RowsKept DEF IInv, Rows
<1>11. VersionsLeft'
  <2>1. Cardinality(Publishing') = Cardinality(Publishing) + 1
    <3>1. o \notin Publishing
      BY <1>2 DEF Publishing
    <3>2. QED
      BY <1>8, <3>1, UnderWay, FS_AddElement
  <2>2. policies' = policies /\ policies # {}
    BY <1>9 DEF rows, IInv, VersionsLeft
  <2>3. ASSUME NEW p \in policies
        PROVE  p.version + Cardinality(Publishing') <= changes' + 1
    <3>1. p.version + Cardinality(Publishing) <= changes + 1
      BY DEF IInv, VersionsLeft
    <3>2. p.version \in Nat /\ Cardinality(Publishing) \in Nat
      BY UnderWay
    <3>3. QED
      BY <1>9, <2>1, <3>1, <3>2
  <2>4. QED
    BY <2>2, <2>3 DEF VersionsLeft
<1>12. QED
  BY <1>8, <1>10, <1>11 DEF IInv

(* The next version follows every other.                                    *)
LEMMA NextVersionFollows ==
    ASSUME Rows, VersionsLeft
    PROVE  /\ \A p \in policies : p.version < NextVersion
           /\ \E p \in policies : NextVersion = p.version + 1
<1> DEFINE V == {p.version : p \in policies}
<1>1. V \in SUBSET (0 .. MaxChanges + 1) /\ V # {}
  BY LicensesFinite DEF Rows, Policies, VersionsLeft
<1>2. \A p \in policies : p.version \in V /\ p.version \in Nat
  BY LicensesFinite DEF Rows, Policies
<1>3. PICK v \in V : \A u \in V : u <= v
  <2> HIDE DEF V
  <2>1. MaxChanges + 1 \in Nat
    BY LicensesFinite
  <2>2. QED
    BY <1>1, <2>1, Greatest
<1> DEFINE last == CHOOSE u \in V : \A p \in policies : p.version <= u
<1>4. last \in V /\ \A p \in policies : p.version <= last
  <2>1. \E u \in V : \A p \in policies : p.version <= u
    BY <1>2, <1>3
  <2> HIDE DEF V
  <2>2. QED
    BY <2>1
<1>5. NextVersion = 1 + last
  BY DEF NextVersion
<1>6. PICK p \in policies : last = p.version
  BY <1>4
<1> HIDE DEF last, V
<1>7. QED
  BY <1>2, <1>4, <1>5, <1>6

LEMMA PublishPolicyStep ==
    ASSUME IInv, NEW o \in Operators, PublishPolicy(o) PROVE IInv'
<1>1. /\ pc[o] = "publish" /\ GoTo(o, "idle") /\ Observe
      /\ UNCHANGED <<customer, subscription, license, override, clock, changes>>
  BY DEF PublishPolicy, Finish, Quiet
<1>2. Sets(o, NoJob)
  BY Zenon DEF PublishPolicy, Finish, Sets
<1>3. Shapes' /\ Watched' /\ Publishing' = Publishing \ {o}
  BY <1>1, <1>2, NoJobShaped, OperatorMoved
<1>4. policies' = policies => IInv'
  <2> SUFFICES ASSUME policies' = policies PROVE IInv'
    OBVIOUS
  <2>1. UNCHANGED rows
    BY <1>1 DEF rows
  <2>2. Rows'
    BY <1>1, <2>1, RowsKept DEF IInv, Rows
  <2>3. changes' \in Nat /\ changes' >= changes
    BY <1>1, LicensesFinite DEF IInv, Rows
  <2>4. VersionsLeft'
    BY <1>3, <2>3, VersionsKept DEF IInv
  <2>5. QED
    BY <1>3, <2>2, <2>4 DEF IInv
<1> DEFINE new == [version |-> NextVersion, effective_at |-> job[o].at,
                   policy |-> job[o].policy, key |-> job[o].key, base |-> job[o].base]
<1>5. ASSUME ~Replayed(o), policies' = policies \cup {new} PROVE IInv'
  <2>1. /\ job[o].at \in Times /\ job[o].policy \in Documents /\ job[o].key \in PublishKeys
        /\ job[o].base \in 1 .. MaxChanges + 1
    BY <1>1, UnderWay DEF ShapedAt
  <2>2. /\ \A p \in policies : p.version < NextVersion
        /\ \E p \in policies : NextVersion = p.version + 1
    BY NextVersionFollows DEF IInv
  <2>3. Cardinality(Publishing') = Cardinality(Publishing) - 1 /\ Cardinality(Publishing') \in Nat
    <3>1. o \in Publishing
      BY <1>1 DEF Publishing
    <3>2. Cardinality(Publishing \ {o}) = Cardinality(Publishing) - 1
      BY <3>1, UnderWay, FS_RemoveElement
    <3>3. IsFiniteSet(Publishing \ {o})
      BY UnderWay, FS_Difference
    <3>4. QED
      BY <1>3, <3>2, <3>3, FS_CardinalityType
  <2>4. NextVersion + Cardinality(Publishing') <= changes + 1 /\ NextVersion \in 1 .. MaxChanges + 1
    <3>1. PICK p \in policies : NextVersion = p.version + 1
      BY <2>2
    <3>2. p.version + Cardinality(Publishing) <= changes + 1
      BY DEF IInv, VersionsLeft
    <3>3. p.version \in 1 .. MaxChanges + 1 /\ changes \in 0 .. MaxChanges
      BY UnderWay
    <3>4. QED
      BY <2>3, <3>1, <3>2, <3>3, UnderWay, LicensesFinite
  <2>5. new \in Policies
    BY <2>1, <2>4, LicensesFinite DEF Policies
  <2>6. \A p \in policies : p.version # new.version /\ p.key # new.key
    <3>1. new.version = NextVersion /\ new.key = job[o].key
      OBVIOUS
    <3>2. \A p \in policies : p.version \in Nat
      BY UnderWay
    <3>3. QED
      BY <1>5, <2>2, <2>4, <3>1, <3>2 DEF Replayed
  <2>7. Rows'
    <3>1. policies' \subseteq Policies
      BY <1>5, <2>5 DEF IInv, Rows
    <3>2. \A p, q \in policies' : p.version = q.version \/ p.key = q.key => p = q
      <4> HIDE DEF new
      <4>1. \A p, q \in policies : p.version = q.version \/ p.key = q.key => p = q
        BY DEF IInv, Rows
      <4>2. QED
        BY <1>5, <2>6, <4>1
    <3>3. QED
      BY <1>1, <3>1, <3>2 DEF IInv, Rows
  <2>8. VersionsLeft'
    <3>1. ASSUME NEW p \in policies PROVE p.version + Cardinality(Publishing') <= changes' + 1
      <4>1. p.version + Cardinality(Publishing) <= changes + 1
        BY DEF IInv, VersionsLeft
      <4>2. p.version \in Nat /\ changes \in Nat /\ changes' = changes
        BY <1>1, UnderWay, LicensesFinite
      <4>3. QED
        BY <2>3, <4>1, <4>2, UnderWay
    <3>2. new.version + Cardinality(Publishing') <= changes' + 1
      BY <1>1, <2>4
    <3> HIDE DEF new
    <3>3. QED
      BY <1>5, <3>1, <3>2 DEF VersionsLeft
  <2>9. QED
    BY <1>3, <2>7, <2>8 DEF IInv
<1>6. \/ policies' = policies
      \/ ~Replayed(o) /\ policies' = policies \cup {new}
  BY DEF PublishPolicy
<1>7. QED
  BY <1>4, <1>5, <1>6
------------------------------------------------------------------------------
(* What else changes the rows.                                              *)

LEMMA ElsewhereMoved ==
    ASSUME IInv, UNCHANGED <<pc, job, policies>>, Observe, Rows', changes' >= changes
    PROVE  IInv'
<1>1. Shapes'
  BY DEF IInv, Shapes, ShapedAt
<1>2. Watched'
  <2>1. \A r \in Requests : WatchedAt(r)'
    BY StillWatched DEF IInv
  <2>2. QED
    BY <2>1, Observed DEF IInv, Watched
<1>3. VersionsLeft'
  <2>1. Publishing' \subseteq Publishing
    BY DEF Publishing
  <2>2. changes' \in Nat
    BY DEF Rows
  <2>3. QED
    BY <2>1, <2>2, VersionsKept DEF IInv
<1>4. QED
  BY <1>1, <1>2, <1>3 DEF IInv

(* A license's issue is numbered after those before it.                     *)
LEMMA StatusSet ==
    ASSUME Rows, NEW l \in Licenses,
           NEW status \in {"absent", "active", "suspended", "expired", "revoked"},
           status = "absent" => license[l].status = "absent",
           license' = WithStatus(l, status)
    PROVE  /\ license' \in [Licenses -> Licensed]
           /\ \A m \in Licenses : license'[m].status = "absent" => license'[m].issued = 0
<1>1. /\ license \in [Licenses -> Licensed]
      /\ \A m \in Licenses : license[m].status = "absent" => license[m].issued = 0
  BY DEF Rows
<1> DEFINE number == IF license[l].status = "absent" /\ status # "absent"
                     THEN Cardinality(Issued) + 1 ELSE license[l].issued
           new == [status |-> status, issued |-> number]
<1>2. number \in 0 .. Cardinality(Licenses)
  <2>1. CASE license[l].status = "absent" /\ status # "absent"
    <3>1. Issued \subseteq Licenses \ {l}
      BY <2>1 DEF Issued
    <3>2. /\ IsFiniteSet(Licenses \ {l})
          /\ Cardinality(Licenses \ {l}) = Cardinality(Licenses) - 1
      BY LicensesFinite, FS_RemoveElement, FS_Difference
    <3>3. /\ Cardinality(Issued) <= Cardinality(Licenses \ {l})
          /\ Cardinality(Issued) \in Nat
      BY <3>1, <3>2, FS_Subset, FS_CardinalityType
    <3>4. QED
      BY <2>1, <3>2, <3>3, LicensesFinite
  <2>2. CASE ~(license[l].status = "absent" /\ status # "absent")
    <3>1. license[l].issued \in 0 .. Cardinality(Licenses)
      BY <1>1 DEF Licensed
    <3>2. QED
      BY <2>2, <3>1
  <2>3. QED
    BY <2>1, <2>2
<1>3. status = "absent" => number = 0
  BY <1>1
<1>4. license' = [license EXCEPT ![l] = new]
  BY DEF WithStatus
<1> HIDE DEF number
<1>5. new \in Licensed /\ (new.status = "absent" => new.issued = 0)
  BY <1>2, <1>3 DEF Licensed
<1> HIDE DEF new
<1>6. QED
  BY <1>1, <1>4, <1>5

LEMMA WebhookStep ==
    ASSUME IInv, NEW s \in Subscriptions,
           NEW status \in {"active", "past_due", "unpaid", "canceled"}, Webhook(s, status)
    PROVE  IInv'
<1>1. /\ subscription' = [subscription EXCEPT ![s] = status]
      /\ license' = WithStatus(s, Synced(license[s], status))
      /\ UNCHANGED <<customer, override, policies, clock, pc, job>>
      /\ changes < MaxChanges /\ changes' = changes + 1 /\ Observe
  BY DEF Webhook, Change, Quiet
<1>2. s \in Licenses /\ license[s] \in Licensed
  BY DEF Licenses, IInv, Rows
<1>3. /\ Synced(license[s], status) \in {"absent", "active", "suspended", "expired", "revoked"}
      /\ Synced(license[s], status) = "absent" => license[s].status = "absent"
  BY <1>2 DEF Synced, Granting, Licensed
<1>4. /\ license' \in [Licenses -> Licensed]
      /\ \A m \in Licenses : license'[m].status = "absent" => license'[m].issued = 0
  BY <1>1, <1>2, <1>3, StatusSet DEF IInv
<1>5. subscription' \in [Subscriptions -> {"absent", "active", "past_due", "unpaid", "canceled"}]
  BY <1>1 DEF IInv, Rows
<1>6. changes' \in 0 .. MaxChanges /\ changes' >= changes
  BY <1>1, LicensesFinite DEF IInv, Rows
<1>7. Rows'
  BY <1>1, <1>4, <1>5, <1>6 DEF IInv, Rows
<1>8. QED
  BY <1>1, <1>6, <1>7, ElsewhereMoved

LEMMA ByOperator ==
    ASSUME IInv, NEW l \in Licenses, IssueLicense(l) \/ RevokeLicense(l)
    PROVE  IInv'
<1>1. PICK status \in {"active", "revoked"} : license' = WithStatus(l, status)
  BY DEF IssueLicense, RevokeLicense
<1>2. /\ UNCHANGED <<customer, subscription, override, policies, clock, pc, job>>
      /\ changes < MaxChanges /\ changes' = changes + 1 /\ Observe
  BY DEF IssueLicense, RevokeLicense, Change, Quiet
<1>3. /\ license' \in [Licenses -> Licensed]
      /\ \A m \in Licenses : license'[m].status = "absent" => license'[m].issued = 0
  BY <1>1, StatusSet DEF IInv
<1>4. changes' \in 0 .. MaxChanges /\ changes' >= changes
  BY <1>2, LicensesFinite DEF IInv, Rows
<1>5. Rows'
  BY <1>2, <1>3, <1>4 DEF IInv, Rows
<1>6. QED
  BY <1>2, <1>4, <1>5, ElsewhereMoved

LEMMA SetCustomerStatusStep ==
    ASSUME IInv, NEW status \in {"active", "suspended"}, SetCustomerStatus(status)
    PROVE  IInv'
<1>1. /\ customer' = status /\ Observe
      /\ UNCHANGED <<subscription, license, override, policies, clock, pc, job>>
  BY DEF SetCustomerStatus, Quiet
<1>2. changes' \in 0 .. MaxChanges /\ changes' >= changes
  BY LicensesFinite DEF SetCustomerStatus, Change, IInv, Rows
<1>3. Rows'
  BY <1>1, <1>2 DEF IInv, Rows
<1>4. QED
  BY <1>1, <1>2, <1>3, ElsewhereMoved

LEMMA TickStep == ASSUME IInv, Tick PROVE IInv'
<1>1. /\ UNCHANGED <<rows, changes, pc, job, policies>> /\ Observe
      /\ clock' \in 0 .. MaxClock
  BY LicensesFinite DEF Tick, Quiet, rows, IInv, Rows
<1>2. changes' \in 0 .. MaxChanges /\ changes' >= changes
  BY <1>1, LicensesFinite DEF IInv, Rows
<1>3. Rows'
  BY <1>1, <1>2, RowsKept DEF IInv
<1>4. QED
  BY <1>1, <1>2, <1>3, ElsewhereMoved

LEMMA Inductive == IInv /\ [Next]_vars => IInv'
<1> SUFFICES ASSUME IInv, [Next]_vars PROVE IInv'
  OBVIOUS
<1>1. ASSUME NEW r \in Requests, Request(r) PROVE IInv'
  BY <1>1, RequestStep
<1>2. ASSUME NEW o \in Operators, Operation(o) PROVE IInv'
  <2>1. clock \in 0 .. MaxClock /\ MaxClock \in Nat
    BY <1>2, UnderWay, LicensesFinite
  <2>2. CASE OverrideRequest(o)
    <3>1. PICK k \in OverrideKeys :
             \E value \in OverrideValues[k] \cup {None}, expires \in clock + 1 .. MaxClock + 1 :
                 BeginOverride(o, k, value, expires)
      BY <2>2 DEF OverrideRequest
    <3>2. PICK value \in OverrideValues[k] \cup {None}, expires \in clock + 1 .. MaxClock + 1 :
             BeginOverride(o, k, value, expires)
      BY <3>1
    <3>3. expires \in Times
      BY <2>1 DEF Times
    <3>4. QED
      BY <3>2, <3>3, BeginOverrideStep
  <2>3. CASE PublishRequest(o)
    <3>1. PICK policy \in Documents, effective_at \in 0 .. MaxClock, key \in PublishKeys,
               base \in {p.version : p \in policies} :
             BeginPublish(o, policy, effective_at, key, base)
      BY <2>3 DEF PublishRequest
    <3>2. effective_at \in Times
      BY <2>1 DEF Times
    <3>3. QED
      BY <3>1, <3>2, BeginPublishStep
  <2>4. QED
    BY <1>2, <2>2, <2>3, SeeOverridesStep, ClearOverridesStep, CommitOverrideStep,
       PublishPolicyStep DEF Operation
<1>3. ASSUME NEW p \in Procs, Abort(p) PROVE IInv'
  <2>1. Finish(p) /\ UNCHANGED <<rows, clock, changes>> /\ Observe
    BY <1>3 DEF Abort, Quiet
  <2>2. QED
    BY <2>1, RequestEnds, OperatorEnds DEF Procs
<1>4. CASE Environment
  BY <1>4, WebhookStep, ByOperator, SetCustomerStatusStep, TickStep DEF Environment
<1>5. CASE UNCHANGED vars
  <2>1. /\ Rows' /\ Shapes' /\ VersionsLeft'
    BY <1>5 DEF vars, rows, IInv, Rows, Shapes, ShapedAt, VersionsLeft, Publishing
  <2>2. Watched'
    BY <1>5 DEF vars, rows, IInv, Watched, WatchedAt, Witnessed, Facts
  <2>3. QED
    BY <2>1, <2>2 DEF IInv
<1>6. QED
  BY <1>1, <1>2, <1>3, <1>4, <1>5 DEF Next
------------------------------------------------------------------------------
(* The theorems.                                                            *)

THEOREM Invariant == Spec => []IInv
<1>1. QED
  BY InitIInv, Inductive, PTL DEF Spec

(* Rows and transactions keep their types: the numbers of issue stay below  *)
(* the number of licenses, and the versions and keys of the published       *)
(* policies are unique although operators publish concurrently.             *)
THEOREM TypeCorrect == Spec => []TypeOK
<1>1. IInv => TypeOK
  <2> SUFFICES ASSUME IInv PROVE TypeOK
    OBVIOUS
  <2>1. \A s \in Slots : /\ override[s].key \in OverrideKeys \cup {None}
                         /\ override[s].active \in BOOLEAN
                         /\ override[s].created_at \in Times /\ override[s].expires_at \in Times
    BY DEF IInv, Rows, OverrideRows
  <2>2. pc \in [Procs -> {"idle", "policy", "subscription", "grants", "license", "overrides",
                          "set", "clear", "insert", "publish"}]
    BY DEF IInv, Shapes, Places
  <2>3. QED
    BY <2>1, <2>2 DEF IInv, Rows, TypeOK, Licensed, Policies
<1>2. QED
  BY <1>1, Invariant, PTL

(* An answer says of the gated feature what held at some moment of its      *)
(* request.                                                                 *)
LEMMA AnswerOfItsTime ==
    ASSUME IInv, NEW r \in Requests, NEW overrides, Answer(r, overrides)
    PROVE  CloudOfItsTime'
<1>1. PICK old, in, s, h : /\ old = job[r].inputs /\ in = [old EXCEPT !.overrides = overrides]
                           /\ s = seen[r] /\ h = held[r]
  OBVIOUS
<1>2. answer' = [kind |-> "answer", inputs |-> in, features |-> Evaluate(in).features,
                 quotas |-> Evaluate(in).quotas, seen |-> s, held |-> h]
  BY <1>1 DEF Answer
<1>3. in.cloud = old.cloud /\ in.revoked = old.revoked
  BY <1>1, Carried, InputsChanged
<1>4. /\ old.cloud => "paid" \in s
      /\ "paid" \in h => old.cloud
      /\ ~old.revoked => "unrevoked" \in s
      /\ "unrevoked" \in h => ~old.revoked
  BY <1>1, Carried DEF WatchedAt, Witnessed, Answer
<1> DEFINE features == Evaluate(in).features
<1>5. /\ features["cloud"] # Bool(FALSE) => in.cloud /\ ~in.revoked
      /\ in.cloud /\ ~in.revoked => features["cloud"] = Applied(FeatureLayers(in))["cloud"]
  BY CloudGated
<1>6. answer'.features = features /\ answer'.inputs = in /\ answer'.seen = s /\ answer'.held = h
  BY <1>2
<1> HIDE DEF features
<1>7. QED
  BY <1>3, <1>4, <1>5, <1>6 DEF CloudOfItsTime, Gated

(* Every step but an answer leaves none.                                    *)
LEMMA AnswerOrNone ==
    ASSUME [Next]_vars
    PROVE  \/ \E r \in Requests, overrides \in OverrideLayers : Answer(r, overrides)
           \/ answer' = NoAnswer
           \/ UNCHANGED vars
<1>1. ASSUME NEW r \in Requests, Request(r)
      PROVE  (\E overrides \in OverrideLayers : Answer(r, overrides)) \/ answer' = NoAnswer
  BY <1>1 DEF Request, Admit, ReadPolicy, ReadSubscription, ReadGrants, ReadLicense, Read, Quiet
<1>2. ASSUME NEW o \in Operators, Operation(o) PROVE answer' = NoAnswer
  BY <1>2 DEF Operation, OverrideRequest, BeginOverride, SeeOverrides, ClearOverrides,
              CommitOverride, PublishRequest, BeginPublish, PublishPolicy, Quiet
<1>3. CASE (\E p \in Procs : Abort(p)) \/ Environment
  BY <1>3 DEF Abort, Environment, Webhook, IssueLicense, RevokeLicense, SetCustomerStatus,
              Tick, Quiet
<1>4. QED
  BY <1>1, <1>2, <1>3 DEF Next

LEMMA AnswersOfTheirTime == IInv /\ CloudOfItsTime /\ [Next]_vars => CloudOfItsTime'
<1> SUFFICES ASSUME IInv, CloudOfItsTime, [Next]_vars PROVE CloudOfItsTime'
  OBVIOUS
<1>1. answer' = NoAnswer => CloudOfItsTime'
  BY DEF CloudOfItsTime, NoAnswer
<1>2. CASE \E r \in Requests, overrides \in OverrideLayers : Answer(r, overrides)
  BY <1>2, AnswerOfItsTime
<1>3. CASE UNCHANGED vars
  BY <1>3 DEF vars, CloudOfItsTime
<1>4. QED
  BY <1>1, <1>2, <1>3, AnswerOrNone

(* "Evaluated fail-closed from current commercial truth": however webhooks  *)
(* and operators change the rows between the reads of a request, cloud is   *)
(* on only if at some moment of it a subscription was paid and at some      *)
(* moment no revocation stood, and it is not denied if both held all along. *)
THEOREM AnswersTrue == Spec => []CloudOfItsTime
<1>1. Init => CloudOfItsTime
  BY DEF Init, CloudOfItsTime
<1>2. QED
  BY <1>1, Invariant, AnswersOfTheirTime, PTL DEF Spec
------------------------------------------------------------------------------
(* Precedence.                                                              *)

(* The winner is the last of n layers that names the key.                   *)
LEMMA Top ==
    ASSUME NEW l, NEW n \in Nat, DOMAIN l = 1 .. n, NEW k, NEW i \in 1 .. n, k \in DOMAIN l[i],
           \A j \in 1 .. n : k \in DOMAIN l[j] => j <= i
    PROVE  Winner(l, k) = l[i][k]
<1> DEFINE last == CHOOSE m \in DOMAIN l : /\ k \in DOMAIN l[m]
                                          /\ \A j \in DOMAIN l : k \in DOMAIN l[j] => j <= m
<1>1. last \in 1 .. n /\ k \in DOMAIN l[last] /\ \A j \in 1 .. n : k \in DOMAIN l[j] => j <= last
  <2>1. \E m \in DOMAIN l : /\ k \in DOMAIN l[m]
                            /\ \A j \in DOMAIN l : k \in DOMAIN l[j] => j <= m
    OBVIOUS
  <2>2. QED
    BY <2>1
<1>2. Winner(l, k) = l[last][k]
  BY DEF Winner
<1> HIDE DEF last
<1>3. last = i
  <2>1. i <= last /\ last <= i
    BY <1>1
  <2>2. QED
    BY <1>1, <2>1
<1>4. QED
  BY <1>2, <1>3

(* Layers put one over the other give every key to its winner.              *)
LEMMA FiveLayers ==
    ASSUME NEW a, NEW b, NEW c, NEW d, NEW e
    PROVE  LET l == <<a, b, c, d, e>>
           IN  /\ DOMAIN Applied(l) = UNION {DOMAIN l[i] : i \in 1 .. 5}
               /\ \A k \in DOMAIN Applied(l) : Applied(l)[k] = Winner(l, k)
<1> DEFINE l == <<a, b, c, d, e>>
<1>1. DOMAIN l = 1 .. 5 /\ l[1] = a /\ l[2] = b /\ l[3] = c /\ l[4] = d /\ l[5] = e
  OBVIOUS
<1> HIDE DEF l
<1>2. DOMAIN Applied(l) = DOMAIN l[1] \cup DOMAIN l[2] \cup DOMAIN l[3] \cup DOMAIN l[4]
                          \cup DOMAIN l[5]
  BY DEF Applied, Upon, Over
<1>3. UNION {DOMAIN l[i] : i \in 1 .. 5} = DOMAIN l[1] \cup DOMAIN l[2] \cup DOMAIN l[3]
                                           \cup DOMAIN l[4] \cup DOMAIN l[5]
  OBVIOUS
<1>4. ASSUME NEW k \in DOMAIN Applied(l), NEW i \in 1 .. 5, k \in DOMAIN l[i],
             \A j \in 1 .. 5 : k \in DOMAIN l[j] => j <= i
      PROVE  Applied(l)[k] = l[i][k]
  <2>1. \A j \in 1 .. 5 : j > i => k \notin DOMAIN l[j]
    BY <1>4
  <2>2. i = 1 \/ i = 2 \/ i = 3 \/ i = 4 \/ i = 5
    OBVIOUS
  <2>3. QED
    BY <1>2, <1>4, <2>1, <2>2 DEF Applied, Upon, Over
<1>5. ASSUME NEW k \in DOMAIN Applied(l)
      PROVE  \E i \in 1 .. 5 : /\ k \in DOMAIN l[i]
                               /\ \A j \in 1 .. 5 : k \in DOMAIN l[j] => j <= i
  <2> DEFINE S == {i \in 1 .. 5 : k \in DOMAIN l[i]}
  <2>1. S \in SUBSET (0 .. 5) /\ S # {}
    BY <1>2, <1>5
  <2> HIDE DEF S
  <2>2. PICK i \in S : \A j \in S : j <= i
    BY <2>1, Greatest
  <2>3. QED
    BY <2>2 DEF S
<1>6. ASSUME NEW k \in DOMAIN Applied(l) PROVE Applied(l)[k] = Winner(l, k)
  <2>1. PICK i \in 1 .. 5 : /\ k \in DOMAIN l[i]
                           /\ \A j \in 1 .. 5 : k \in DOMAIN l[j] => j <= i
    BY <1>5
  <2>2. Applied(l)[k] = l[i][k]
    BY <1>4, <2>1
  <2>3. Winner(l, k) = l[i][k]
    BY <1>1, <2>1, Top
  <2>4. QED
    BY <2>2, <2>3
<1>7. /\ DOMAIN Applied(l) = UNION {DOMAIN l[i] : i \in 1 .. 5}
      /\ \A k \in DOMAIN Applied(l) : Applied(l)[k] = Winner(l, k)
  BY <1>2, <1>3, <1>6
<1>8. QED
  BY <1>7 DEF l

LEMMA QuotaLayersApplied ==
    ASSUME NEW a, NEW b, NEW c, NEW d, NEW q \in DOMAIN a
    PROVE  Upon(<<a, b, c, d>>)[q] = IF q \in DOMAIN d THEN d[q] ELSE Winner(<<a, b, c>>, q)
<1> DEFINE l == <<a, b, c, d>>
           m == <<a, b, c>>
<1>1. /\ DOMAIN m = 1 .. 3 /\ m[1] = a /\ m[2] = b /\ m[3] = c
      /\ l[1] = a /\ l[2] = b /\ l[3] = c /\ l[4] = d
  OBVIOUS
<1> HIDE DEF l, m
<1>2. PICK i \in 1 .. 3 : /\ q \in DOMAIN m[i]
                         /\ \A j \in 1 .. 3 : q \in DOMAIN m[j] => j <= i
  <2> DEFINE S == {i \in 1 .. 3 : q \in DOMAIN m[i]}
  <2>1. S \in SUBSET (0 .. 3) /\ S # {}
    BY <1>1
  <2> HIDE DEF S
  <2>2. PICK i \in S : \A j \in S : j <= i
    BY <2>1, Greatest
  <2>3. QED
    BY <2>2 DEF S
<1>3. Winner(m, q) = m[i][q]
  <2>1. 3 \in Nat /\ DOMAIN m = 1 .. 3 /\ q \in DOMAIN m[i]
    BY <1>1, <1>2
  <2>2. \A j \in 1 .. 3 : q \in DOMAIN m[j] => j <= i
    BY <1>2
  <2>3. QED
    BY <2>1, <2>2, Top
<1>4. Upon(l)[q] = IF q \in DOMAIN d THEN d[q] ELSE m[i][q]
  <2>1. \A j \in 1 .. 3 : j > i => q \notin DOMAIN m[j]
    BY <1>2
  <2>2. i = 1 \/ i = 2 \/ i = 3
    OBVIOUS
  <2>3. QED
    BY <1>1, <1>2, <2>1, <2>2 DEF Upon, Over
<1>5. QED
  BY <1>3, <1>4 DEF l, m

(* Only gated features are denied, and only as the gates say.               *)
LEMMA Gates ==
    ASSUME NEW in
    PROVE  LET features == Evaluate(in).features
               merged == Applied(FeatureLayers(in))
           IN  /\ DOMAIN features = DOMAIN merged
               /\ \A f \in DOMAIN features :
                     features[f] = IF f \in Gated /\ (~in.cloud \/ in.revoked) THEN Bool(FALSE)
                                   ELSE merged[f]
<1> DEFINE merged == Applied(FeatureLayers(in))
           gated == IF in.cloud THEN merged ELSE Denied(merged)
           features == Evaluate(in).features
<1>1. features = IF in.revoked THEN Denied(gated) ELSE gated
  BY DEF Evaluate
<1> HIDE DEF merged, features
<1>2. \A g : /\ DOMAIN Denied(g) = DOMAIN g
             /\ \A f \in DOMAIN g : Denied(g)[f] = IF f \in Gated THEN Bool(FALSE) ELSE g[f]
  BY DEF Denied
<1>3. /\ DOMAIN gated = DOMAIN merged
      /\ \A f \in DOMAIN merged : gated[f] = IF f \in Gated /\ ~in.cloud THEN Bool(FALSE)
                                            ELSE merged[f]
  <2>1. CASE in.cloud
    BY <2>1
  <2>2. CASE ~in.cloud
    BY <1>2, <2>2
  <2>3. QED
    BY <2>1, <2>2
<1> HIDE DEF gated
<1>4. /\ DOMAIN features = DOMAIN merged
      /\ \A f \in DOMAIN features :
            features[f] = IF f \in Gated /\ (~in.cloud \/ in.revoked) THEN Bool(FALSE)
                          ELSE merged[f]
  <2>1. CASE in.revoked
    BY <1>1, <1>2, <1>3, <2>1
  <2>2. CASE ~in.revoked
    BY <1>1, <1>3, <2>2
  <2>3. QED
    BY <2>1, <2>2
<1>5. QED
  BY <1>4 DEF merged, features

LEMMA AnswerPrecedence ==
    ASSUME IInv, NEW r \in Requests, NEW overrides \in OverrideLayers, Answer(r, overrides)
    PROVE  Precedence'
<1>1. PICK old, in, s, h : /\ old = job[r].inputs /\ in = [old EXCEPT !.overrides = overrides]
                           /\ s = seen[r] /\ h = held[r]
  OBVIOUS
<1>2. answer' = [kind |-> "answer", inputs |-> in, features |-> Evaluate(in).features,
                 quotas |-> Evaluate(in).quotas, seen |-> s, held |-> h]
  BY <1>1 DEF Answer
<1>3. DOMAIN in.overrides \subseteq OverrideKeys
  <2>1. in.overrides = overrides
    <3>1. PICK a, b, c, d, e, f :
             old = [policy |-> a, plan |-> b, cloud |-> c, license_grants |-> d, revoked |-> e,
                    overrides |-> f]
      BY <1>1, Carried DEF InputsShaped
    <3>2. QED
      BY <1>1, <3>1
  <2>2. DOMAIN overrides \subseteq OverrideKeys
    BY DEF OverrideLayers
  <2>3. QED
    BY <2>1, <2>2
<1> DEFINE planf == IF in.plan = None THEN Empty ELSE PlanFeatures(in.policy, in.plan)
           planq == IF in.plan = None THEN Empty ELSE PlanQuotas(in.policy, in.plan)
           adminf == [k \in DOMAIN in.overrides \cap (OverrideKeys \ Metered) |-> in.overrides[k]]
           adminq == [k \in {q \in DOMAIN in.overrides \cap Metered :
                                in.overrides[q][1] = "number"} |-> in.overrides[k][2]]
           fl == <<PlanFeatures(in.policy, "included"), planf, in.license_grants,
                   Promotion.features, adminf>>
           ql == <<PlanQuotas(in.policy, "included"), planq, Promotion.quotas>>
<1>4. FeatureLayers(in) = fl
  <2>1. DOMAIN in.overrides \ Metered = DOMAIN in.overrides \cap (OverrideKeys \ Metered)
    BY <1>3
  <2>2. [k \in DOMAIN in.overrides \ Metered |-> in.overrides[k]] = adminf
    BY <2>1
  <2>3. QED
    BY <2>2 DEF FeatureLayers
<1>5. QuotaLayers(in) = <<PlanQuotas(in.policy, "included"), planq, Promotion.quotas, adminq>>
  BY DEF QuotaLayers
<1>6. /\ DOMAIN Applied(fl) = UNION {DOMAIN fl[i] : i \in 1 .. 5}
      /\ \A k \in DOMAIN Applied(fl) : Applied(fl)[k] = Winner(fl, k)
  <2> HIDE DEF planf, adminf
  <2>1. QED
    BY FiveLayers
<1>7. /\ DOMAIN Evaluate(in).features = DOMAIN Applied(fl)
      /\ \A f \in DOMAIN Evaluate(in).features :
            Evaluate(in).features[f] =
                IF f \in Gated /\ (~in.cloud \/ in.revoked) THEN Bool(FALSE) ELSE Applied(fl)[f]
  BY <1>4, Gates
<1>8. \A q \in Metered :
         Evaluate(in).quotas[q] = IF q \in DOMAIN in.overrides /\ in.overrides[q][1] = "number"
                                  THEN in.overrides[q][2] ELSE Winner(ql, q)
  <2> SUFFICES ASSUME NEW q \in Metered
               PROVE  Evaluate(in).quotas[q] =
                          IF q \in DOMAIN in.overrides /\ in.overrides[q][1] = "number"
                          THEN in.overrides[q][2] ELSE Winner(ql, q)
    OBVIOUS
  <2>1. Evaluate(in).quotas = Upon(QuotaLayers(in))
    BY DEF Evaluate
  <2>2. q \in DOMAIN PlanQuotas(in.policy, "included")
    BY DEF PlanQuotas
  <2>3. /\ q \in DOMAIN adminq <=> q \in DOMAIN in.overrides /\ in.overrides[q][1] = "number"
        /\ q \in DOMAIN adminq => adminq[q] = in.overrides[q][2]
    OBVIOUS
  <2> HIDE DEF planq, adminq
  <2>4. Upon(QuotaLayers(in))[q] = IF q \in DOMAIN adminq THEN adminq[q] ELSE Winner(ql, q)
    BY <1>5, <2>2, QuotaLayersApplied
  <2>5. QED
    BY <2>1, <2>3, <2>4
<1>9. /\ answer'.inputs = in /\ answer'.features = Evaluate(in).features
      /\ answer'.quotas = Evaluate(in).quotas
  BY <1>2
<1>10. /\ DOMAIN answer'.features = UNION {DOMAIN fl[i] : i \in 1 .. 5}
       /\ \A f \in DOMAIN answer'.features :
             answer'.features[f] =
                 IF f \in Gated /\ (~in.cloud \/ in.revoked) THEN Bool(FALSE) ELSE Winner(fl, f)
  <2> HIDE DEF fl
  <2>1. QED
    BY <1>6, <1>7, <1>9
<1>11. fl = FeatureStages(in) /\ ql = QuotaStages(in)
  BY DEF FeatureStages, QuotaStages, PlanStage
<1> HIDE DEF fl, ql
<1>12. \A f \in DOMAIN answer'.features :
          /\ f \notin Gated \/ (in.cloud /\ ~in.revoked) => answer'.features[f] = Winner(fl, f)
          /\ f \in Gated /\ in.revoked => answer'.features[f] = Bool(FALSE)
  BY <1>10
<1>13. QED
  BY <1>8, <1>9, <1>10, <1>11, <1>12 DEF Precedence

(* "Later stages win over earlier ones, except suspension/revocation always *)
(* denies": of every feature and quota the highest layer that names it      *)
(* decides, for any documents, grants and overrides; a revoked license      *)
(* denies the gated features, and of those without a subscription nothing   *)
(* is said (GateKeepsItsPlace).                                             *)
THEOREM LayersTakePrecedence == Spec => []Precedence
<1>1. Init => Precedence
  BY DEF Init, Precedence
<1>2. IInv /\ Precedence /\ [Next]_vars => Precedence'
  <2> SUFFICES ASSUME IInv, Precedence, [Next]_vars PROVE Precedence'
    OBVIOUS
  <2>1. answer' = NoAnswer => Precedence'
    BY DEF Precedence, NoAnswer
  <2>2. CASE \E r \in Requests, overrides \in OverrideLayers : Answer(r, overrides)
    BY <2>2, AnswerPrecedence
  <2>3. CASE UNCHANGED vars
    BY <2>3 DEF vars, Precedence
  <2>4. QED
    BY <2>1, <2>2, <2>3, AnswerOrNone
<1>3. QED
  BY <1>1, <1>2, Invariant, PTL DEF Spec
------------------------------------------------------------------------------
(* One operator at a time.                                                  *)

OneOperator == \A o, p \in Operators : o = p

(* The rows an operator is about to clear are all that are active.          *)
Clearing == \A o \in Operators :
               pc[o] \in {"clear", "insert"} => job[o].rows = ActiveRows(job[o].key)
Alone == \A s, t \in Slots :
            override[s].active /\ override[t].active /\ override[s].key = override[t].key => s = t
WInv == Clearing /\ Alone

LEMMA OverrideUnchanged ==
    ASSUME IInv, WInv, override' = override,
           \A o \in Operators : \/ pc'[o] \notin {"clear", "insert"}
                                \/ pc'[o] = pc[o] /\ job'[o] = job[o]
    PROVE  WInv'
<1>1. \A k : ActiveRows(k)' = ActiveRows(k)
  BY DEF ActiveRows
<1>2. \A o \in Operators : pc'[o] \in {"clear", "insert"} => job'[o].rows = ActiveRows(job'[o].key)
  BY DEF WInv, Clearing
<1>3. Clearing'
  BY <1>1, <1>2 DEF Clearing
<1>4. Alone'
  BY DEF WInv, Alone
<1>5. QED
  BY <1>3, <1>4 DEF WInv

LEMMA WinnerStep == OneOperator /\ IInv /\ WInv /\ [Next]_vars => WInv'
<1> SUFFICES ASSUME OneOperator, IInv, WInv, [Next]_vars PROVE WInv'
  OBVIOUS
<1>1. DOMAIN job = Procs /\ pc \in [Procs -> Places] /\ \A o, p \in Operators : o = p
  BY DEF IInv, Shapes, OneOperator
<1>2. ASSUME NEW r \in Requests, Request(r) \/ Abort(r) PROVE WInv'
  <2>1. override' = override
    BY <1>2 DEF Request, Admit, ReadPolicy, ReadSubscription, ReadGrants, ReadLicense, Read, Answer,
                Abort, rows
  <2>2. \A o \in Operators : o # r /\ o \in Procs
    BY LicensesFinite DEF Procs
  <2>3. \A o \in Procs : o # r => pc'[o] = pc[o] /\ job'[o] = job[o]
    BY <1>1, <1>2 DEF Request, Admit, ReadPolicy, ReadSubscription, ReadGrants, ReadLicense, Read,
                      Answer, Abort, Finish, GoTo
  <2>4. QED
    BY <2>1, <2>2, <2>3, OverrideUnchanged
<1>3. ASSUME NEW o \in Operators, Abort(o) \/ PublishPolicy(o) PROVE WInv'
  <2>1. override' = override /\ pc'[o] = "idle"
    BY <1>1, <1>3 DEF Abort, PublishPolicy, Finish, GoTo, rows, Procs
  <2>2. \A p \in Operators : \/ pc'[p] \notin {"clear", "insert"}
                             \/ pc'[p] = pc[p] /\ job'[p] = job[p]
    BY <1>1, <2>1
  <2>3. QED
    BY <2>1, <2>2, OverrideUnchanged
<1>4. ASSUME NEW o \in Operators, PublishRequest(o) PROVE WInv'
  <2>1. override' = override /\ pc'[o] = "publish"
    BY <1>1, <1>4 DEF PublishRequest, BeginPublish, GoTo, rows, Procs
  <2>2. \A p \in Operators : \/ pc'[p] \notin {"clear", "insert"}
                             \/ pc'[p] = pc[p] /\ job'[p] = job[p]
    BY <1>1, <2>1
  <2>3. QED
    BY <2>1, <2>2, OverrideUnchanged
<1>5. ASSUME NEW o \in Operators, OverrideRequest(o) PROVE WInv'
  <2>1. override' = override /\ pc'[o] = "set"
    BY <1>1, <1>5 DEF OverrideRequest, BeginOverride, GoTo, rows, Procs
  <2>2. \A p \in Operators : \/ pc'[p] \notin {"clear", "insert"}
                             \/ pc'[p] = pc[p] /\ job'[p] = job[p]
    BY <1>1, <2>1
  <2>3. QED
    BY <2>1, <2>2, OverrideUnchanged
<1>6. ASSUME NEW o \in Operators, SeeOverrides(o) \/ ClearOverrides(o) PROVE WInv'
  <2>1. PICK found : job' = [job EXCEPT ![o].rows = found] /\ found = ActiveRows(job[o].key)
    <3>1. CASE SeeOverrides(o)
      BY <3>1 DEF SeeOverrides
    <3>2. CASE ClearOverrides(o)
      <4>1. job[o].rows = ActiveRows(job[o].key)
        BY <3>2 DEF ClearOverrides, WInv, Clearing
      <4>2. QED
        BY <3>2, <4>1 DEF ClearOverrides
    <3>3. QED
      BY <1>6, <3>1, <3>2
  <2>2. override' = override
    BY <1>6 DEF SeeOverrides, ClearOverrides, rows
  <2>3. PICK a, b, c, d, e, f, g, h :
           job[o] = [inputs |-> a, start |-> b, key |-> c, value |-> d, rows |-> e, policy |-> f,
                     at |-> g, base |-> h]
    BY UnderWay DEF JobShaped
  <2>4. PICK j : j = [job[o] EXCEPT !.rows = found]
    OBVIOUS
  <2>5. j = [inputs |-> a, start |-> b, key |-> c, value |-> d, rows |-> found, policy |-> f,
             at |-> g, base |-> h]
    BY <2>3, <2>4
  <2>6. job' = [job EXCEPT ![o] = j]
    BY <2>1, <2>4
  <2>7. job'[o] = j
    BY <1>1, <2>6 DEF Procs
  <2>8. job'[o].rows = ActiveRows(job[o].key) /\ job'[o].key = job[o].key
    BY <2>1, <2>3, <2>5, <2>7
  <2>9. \A i : ActiveRows(i)' = ActiveRows(i)
    BY <2>2 DEF ActiveRows
  <2>10. Clearing'
    BY <1>1, <2>8, <2>9 DEF Clearing
  <2>11. Alone'
    BY <2>2 DEF WInv, Alone
  <2>12. QED
    BY <2>10, <2>11 DEF WInv
<1>7. ASSUME NEW o \in Operators, CommitOverride(o) PROVE WInv'
  <2> DEFINE cleared == [s \in Slots |-> IF s \in job[o].rows
                                        THEN [override[s] EXCEPT !.active = FALSE]
                                        ELSE override[s]]
             x == CHOOSE s \in FreeSlots : \A t \in FreeSlots : s <= t
             row == [key |-> job[o].key, value |-> job[o].value, active |-> TRUE,
                     created_at |-> job[o].start, expires_at |-> job[o].at]
  <2>1. /\ pc[o] = "insert"
        /\ override' = cleared \/ override' = [cleared EXCEPT ![x] = row]
    BY <1>7 DEF CommitOverride
  <2>2. job[o].rows = ActiveRows(job[o].key)
    BY <2>1 DEF WInv, Clearing
  <2>3. \A s \in Slots : /\ cleared[s].key = override[s].key
                         /\ cleared[s].active => override[s].active /\ cleared[s].key # job[o].key
    <3> SUFFICES ASSUME NEW s \in Slots
                 PROVE  /\ cleared[s].key = override[s].key
                        /\ cleared[s].active => override[s].active /\ cleared[s].key # job[o].key
      OBVIOUS
    <3>1. override[s] \in OverrideRows
      BY DEF IInv, Rows
    <3>2. CASE s \in job[o].rows
      BY <3>1, <3>2 DEF OverrideRows
    <3>3. CASE s \notin job[o].rows
      BY <2>2, <3>3 DEF ActiveRows
    <3>4. QED
      BY <3>2, <3>3
  <2>4. DOMAIN cleared = Slots /\ row.key = job[o].key
    OBVIOUS
  <2> HIDE DEF cleared, x, row
  <2>5. \A s \in Slots : override'[s] = cleared[s] \/ (s = x /\ override'[s] = row)
    BY <2>1, <2>4
  <2>6. Alone'
    BY <2>3, <2>4, <2>5 DEF WInv, Alone
  <2>7. pc'[o] = "idle"
    BY <1>1, <1>7 DEF CommitOverride, Finish, GoTo, Procs
  <2>8. Clearing'
    BY <1>1, <2>7 DEF Clearing
  <2>9. QED
    BY <2>6, <2>8 DEF WInv
<1>8. CASE Environment \/ UNCHANGED vars
  <2>1. UNCHANGED <<override, pc, job>>
    BY <1>8 DEF Environment, Webhook, IssueLicense, RevokeLicense, SetCustomerStatus, Tick, vars, rows
  <2>2. QED
    BY <2>1, OverrideUnchanged
<1>9. QED
  BY <1>2, <1>3, <1>4, <1>5, <1>6, <1>7, <1>8 DEF Next, Operation, Procs

(* "Prior active overrides for the same key are deactivated in the same     *)
(* transaction so evaluation sees exactly one winner": true of operators    *)
(* who set overrides one after the other, at whatever point each fails.     *)
THEOREM OneWinnerOfOneOperator == ASSUME OneOperator PROVE Spec => []OneWinner
<1>1. Init => WInv
  BY DEF Init, WInv, Clearing, Alone, NoOverride, Procs
<1>2. IInv /\ WInv /\ [Next]_vars => WInv'
  BY WinnerStep
<1>3. WInv => OneWinner
  <2> SUFFICES ASSUME WInv, NEW k \in OverrideKeys PROVE Cardinality(ActiveRows(k)) <= 1
    BY DEF OneWinner
  <2>1. CASE ActiveRows(k) = {}
    BY <2>1, FS_EmptySet
  <2>2. ASSUME NEW s \in ActiveRows(k) PROVE Cardinality(ActiveRows(k)) <= 1
    <3>1. ActiveRows(k) = {s}
      BY <2>2 DEF WInv, Alone, ActiveRows
    <3>2. QED
      BY <3>1, FS_Singleton
  <2>3. QED
    BY <2>1, <2>2
<1>4. QED
  BY Invariant, <1>1, <1>2, <1>3, PTL DEF Spec
=============================================================================
